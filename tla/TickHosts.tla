----------------------------- MODULE TickHosts -----------------------------
(***************************************************************************)
(* Who runs the hourly event tick.  The tick daemon of the VM              *)
(* (scripts/event_tick_daemon.py) and the runner Space (server.py, pinged  *)
(* by the updater) can both run it, and each asks about the other:         *)
(*                                                                         *)
(*   the daemon reads /api/runner_status before a tick (the guard), and a  *)
(*   block lasts until a clear read                                        *)
(*                                                                         *)
(*   the Space reads events/tick_status.json, which the daemon commits,    *)
(*   and declines while it is fresh, not stopped and not blocked           *)
(*                                                                         *)
(* Time passes in units of an hour.  The daemon's loop runs each 5 s, so   *)
(* no hour passes while it has something to do; its passes with nothing to *)
(* do are left out.                                                        *)
(***************************************************************************)
EXTENDS Naturals

CONSTANTS
    Never, NoDoc,
    MaxIssue,       \* bound: nowcast issues
    MaxGap,         \* EVENT_TICK_MAX_GAP_MIN
    MaxBusy,        \* EVENT_TICK_MAX_BUSY_H
    Fresh,          \* FRESH_H
    MaxFaults,      \* bound: failed commits, unreachable spells, crashes
    MaxOrders       \* bound: what the operator does

Reasons == {"start", "blocked", "tick_start", "tick_end", "heartbeat",
            "alive", "stopping", "stop", "wedged"}
States == {"idle", "ticking", "stopping", "stopped", "wedged"}
Docs == [state : States, blocked : BOOLEAN, age : 0..(Fresh + 1)]
Flights == [doc : Docs, reasons : SUBSET Reasons]

ASSUME TickHostsAssumption ==
    /\ MaxIssue \in Nat /\ MaxGap \in Nat \ {0} /\ Fresh \in Nat \ {0}
    /\ MaxBusy \in Nat /\ MaxGap <= MaxBusy
    /\ MaxFaults \in Nat /\ MaxOrders \in Nat
    /\ Never \notin Nat /\ NoDoc \notin Docs

VARIABLES
    unit,       \* crest-events.service
    at,         \* where the main thread of the daemon is
    want,       \* the tick that is due: <<why, issue>>
    stop,       \* the stop request
    state, pending,
    flight,     \* the commit that holds Publisher._commit
    tries,      \* attempts of _final_publish
    polled, failed,     \* this hour: asked whether a tick is due; pump failed
    tick,       \* the tick thread
    lastIssue, age, blocked,    \* the state file; age: hours since last_start
    issue,      \* the nowcast's issue time
    ticked,     \* history: issues a tick has started for
    heard,      \* history: the guard's last answer that _start acted on
    remote,     \* events/tick_status.json
    seen,       \* the Space's cached copy of it
    source,     \* EVENT_TICK of the Space: "local" or "remote"
    reachable, spaceTick,
    manual,     \* a run the Space was asked for by hand: where its thread is
    busy,       \* _running["id"] of the Space
    faults, orders

processVars == <<at, want, stop, state, pending, flight, tries, polled, failed>>
savedVars == <<lastIssue, age, blocked>>
daemonVars == <<unit, processVars, tick, savedVars>>
spaceVars == <<seen, source, reachable, spaceTick, manual, busy>>
bounds == <<faults, orders>>
vars == <<daemonVars, issue, ticked, heard, remote, spaceVars, bounds>>

NoFlight == NoDoc

TypeOK ==
    /\ unit \in {"off", "active", "failed"}
    /\ at \in {"loop", "poll", "guard", "pump", "commit", "grace", "final"}
    /\ want \in {"none", "start", "issue", "max_gap"} \X (0..MaxIssue)
    /\ stop \in BOOLEAN /\ state \in States /\ pending \in SUBSET Reasons
    /\ flight \in Flights \cup {NoFlight}
    /\ tries \in 0..2 /\ polled \in BOOLEAN /\ failed \in BOOLEAN
    /\ tick \in {"none", "running", "ended"}
    /\ lastIssue \in 0..MaxIssue /\ age \in (0..MaxBusy) \cup {Never}
    /\ blocked \in BOOLEAN
    /\ issue \in 0..MaxIssue /\ ticked \in SUBSET (1..MaxIssue)
    /\ heard \in {"none", "block", "clear"}
    /\ remote \in Docs \cup {NoDoc} /\ seen \in Docs \cup {NoDoc}
    /\ source \in {"local", "remote"}
    /\ reachable \in BOOLEAN /\ spaceTick \in BOOLEAN
    /\ manual \in {"none", "setup", "run"} /\ busy \in BOOLEAN
    /\ faults \in 0..MaxFaults /\ orders \in 0..MaxOrders

\* The VM has never run.
Init ==
    /\ unit = "off" /\ tick = "none"
    /\ at = "loop" /\ want = <<"none", 0>> /\ stop = FALSE /\ state = "idle"
    /\ pending = {} /\ flight = NoFlight /\ tries = 0
    /\ polled = FALSE /\ failed = FALSE
    /\ lastIssue = 0 /\ age = Never /\ blocked = FALSE
    /\ issue = 0 /\ ticked = {} /\ heard = "none"
    /\ remote = NoDoc /\ seen = NoDoc
    /\ source \in {"local", "remote"} /\ reachable = TRUE /\ spaceTick = FALSE
    /\ manual = "none" /\ busy = FALSE
    /\ faults = 0 /\ orders = 0

Request(r) == pending' = pending \cup {r}

Running == unit = "active"
Doc == [state |-> state, blocked |-> blocked, age |-> 0]
Flight(rs) == [doc |-> Doc, reasons |-> rs]
Fault == faults < MaxFaults /\ faults' = faults + 1 /\ UNCHANGED orders
Order == orders < MaxOrders /\ orders' = orders + 1 /\ UNCHANGED faults

-----------------------------------------------------------------------------
(* The daemon: one pass of step. *)

\* Slip: an issue that is not older than the last one is due.
WhyDueAgain(i) ==
    IF age = Never THEN "start"
    ELSE IF i # 0 /\ i >= lastIssue THEN "issue"
    ELSE IF age >= MaxGap THEN "max_gap"
    ELSE "none"

\* _why_due of the issue i that was read; 0 is an issue that cannot be read.
WhyDue(i) ==
    IF age = Never THEN "start"
    ELSE IF i > lastIssue THEN "issue"
    ELSE IF age >= MaxGap THEN "max_gap"
    ELSE "none"

\* _reap
Reap ==
    /\ Running /\ at = "loop" /\ ~stop /\ tick = "ended"
    /\ tick' = "none"
    /\ state' = IF state = "ticking" THEN "idle" ELSE state
    /\ Request("tick_end")
    /\ at' = "poll"
    /\ UNCHANGED <<unit, want, stop, flight, tries, polled, failed, savedVars,
                   issue, ticked, heard, remote, spaceVars, bounds>>

\* A pass between ticks; one during a tick notes that a tick is due and
\* requests the heartbeat.
Pass ==
    /\ Running /\ at = "loop" /\ ~stop /\ tick # "ended"
    /\ tick = "running" => age < MaxBusy
    /\ ~polled \/ (pending # {} /\ ~failed)
    /\ IF tick = "none"
       THEN at' = "poll" /\ UNCHANGED <<polled, pending>>
       ELSE /\ at' = "pump" /\ polled' = TRUE
            /\ IF polled THEN UNCHANGED pending ELSE Request("heartbeat")
    /\ UNCHANGED <<unit, want, stop, state, flight, tries, failed, tick,
                   savedVars, issue, ticked, heard, remote, spaceVars, bounds>>

\* _wedged: the tick is too long; _final_publish, then the exit.
Wedged ==
    /\ Running /\ at = "loop" /\ ~stop /\ tick = "running" /\ age >= MaxBusy
    /\ state' = "wedged" /\ Request("wedged")
    /\ at' = "final" /\ tries' = 0
    /\ UNCHANGED <<unit, want, stop, flight, polled, failed, tick, savedVars,
                   issue, ticked, heard, remote, spaceVars, bounds>>

Poll ==
    /\ Running /\ at = "poll"
    /\ \E i \in {0, issue} :
          /\ want' = <<WhyDue(i), i>>
          /\ at' = IF stop \/ WhyDue(i) = "none" THEN "pump" ELSE "guard"
    /\ polled' = TRUE
    /\ UNCHANGED <<unit, stop, state, pending, flight, tries, failed, tick,
                   savedVars, issue, ticked, heard, remote, spaceVars, bounds>>

\* Slip: an unreadable Space is clear, whatever it answered before.
BlocksForgetful == reachable /\ source = "local"

\* runner_guard: an unreadable Space is clear unless it blocked before.
Blocks == IF reachable THEN source = "local" ELSE blocked

\* _start, once the guard has answered.
GuardAnswers ==
    /\ Running /\ at = "guard" /\ at' = "pump"
    /\ \/ /\ stop
          /\ UNCHANGED <<state, pending, tick, savedVars, ticked, heard>>
       \/ /\ ~stop /\ Blocks
          /\ blocked' = TRUE /\ heard' = IF reachable THEN "block" ELSE heard
          /\ IF blocked THEN UNCHANGED pending ELSE Request("blocked")
          /\ UNCHANGED <<state, tick, lastIssue, age, ticked>>
       \/ /\ ~stop /\ ~Blocks
          /\ blocked' = FALSE /\ heard' = IF reachable THEN "clear" ELSE heard
          /\ age' = 0
          /\ IF want[2] = 0
             THEN UNCHANGED <<lastIssue, ticked>>
             ELSE lastIssue' = want[2] /\ ticked' = ticked \cup {want[2]}
          /\ state' = "ticking" /\ tick' = "running" /\ Request("tick_start")
    /\ UNCHANGED <<unit, want, stop, flight, tries, polled, failed, issue,
                   remote, spaceVars, bounds>>

\* The end of the pass: the idle refresh, then pump.
Pump ==
    /\ Running /\ at = "pump"
    /\ pending' = IF /\ tick = "none" /\ pending = {}
                     /\ remote # NoDoc /\ remote.age >= 1
                  THEN {"alive"} ELSE pending
    /\ IF pending' = {}
       THEN at' = "loop" /\ UNCHANGED flight
       ELSE at' = "commit" /\ flight' = Flight(pending')
    /\ UNCHANGED <<unit, want, stop, state, tries, polled, failed, tick,
                   savedVars, issue, ticked, heard, remote, spaceVars, bounds>>

Pumped ==
    /\ Running /\ at = "commit" /\ flight = NoFlight
    /\ at' = "loop"
    /\ UNCHANGED <<unit, want, stop, state, pending, flight, tries, polled,
                   failed, tick, savedVars, issue, ticked, heard, remote,
                   spaceVars, bounds>>

-----------------------------------------------------------------------------
(* A commit of Publisher.pump: one at a time. *)

\* Slip: a commit clears what was requested while it was in flight.
FlightLandsClearing ==
    /\ flight # NoFlight
    /\ remote' = flight.doc
    /\ pending' = {}
    /\ flight' = NoFlight /\ failed' = FALSE
    /\ UNCHANGED <<unit, at, want, stop, state, tries, polled, tick, savedVars,
                   issue, ticked, heard, spaceVars, bounds>>

FlightLands ==
    /\ flight # NoFlight
    /\ remote' = flight.doc
    /\ pending' = pending \ flight.reasons
    /\ flight' = NoFlight /\ failed' = FALSE
    /\ UNCHANGED <<unit, at, want, stop, state, tries, polled, tick, savedVars,
                   issue, ticked, heard, spaceVars, bounds>>

\* A commit that failed may have landed.
FlightFails ==
    /\ flight # NoFlight /\ Fault
    /\ remote' \in {remote, flight.doc}
    /\ flight' = NoFlight /\ failed' = TRUE
    /\ UNCHANGED <<unit, at, want, stop, state, pending, tries, polled, tick,
                   savedVars, issue, ticked, heard, spaceVars>>

-----------------------------------------------------------------------------
(* shutdown, _final_publish *)

BeginStop ==
    /\ Running /\ at = "loop" /\ stop
    /\ IF tick = "none"
       THEN at' = "final" /\ state' = "stopped" /\ Request("stop")
       ELSE at' = "grace" /\ state' = "stopping" /\ Request("stopping")
    /\ tries' = 0
    /\ UNCHANGED <<unit, want, stop, flight, polled, failed, tick, savedVars,
                   issue, ticked, heard, remote, spaceVars, bounds>>

\* _bounded_pump while the daemon waits for its tick.
GracePump ==
    /\ Running /\ at = "grace" /\ tick = "running"
    /\ flight = NoFlight /\ pending # {} /\ ~failed
    /\ flight' = Flight(pending)
    /\ UNCHANGED <<unit, at, want, stop, state, pending, tries, polled, failed,
                   tick, savedVars, issue, ticked, heard, remote, spaceVars,
                   bounds>>

\* The tick has ended or the grace is over, perhaps with a commit in flight.
GraceOver ==
    /\ Running /\ at = "grace"
    /\ tick' = IF tick = "ended" THEN "none" ELSE tick
    /\ pending' = pending \cup {"stop"}
                    \cup (IF tick = "ended" THEN {"tick_end"} ELSE {})
    /\ state' = "stopped" /\ at' = "final"
    /\ UNCHANGED <<unit, want, stop, flight, tries, polled, failed, savedVars,
                   issue, ticked, heard, remote, spaceVars, bounds>>

\* Slip: retried without end.
FinalTryAgain ==
    /\ Running /\ at = "final"
    /\ flight = NoFlight /\ pending # {}
    /\ flight' = Flight(pending) /\ tries' = tries + 1
    /\ UNCHANGED <<unit, at, want, stop, state, pending, polled, failed, tick,
                   savedVars, issue, ticked, heard, remote, spaceVars, bounds>>

FinalTry ==
    /\ Running /\ at = "final"
    /\ flight = NoFlight /\ pending # {} /\ tries < 2
    /\ flight' = Flight(pending) /\ tries' = tries + 1
    /\ UNCHANGED <<unit, at, want, stop, state, pending, polled, failed, tick,
                   savedVars, issue, ticked, heard, remote, spaceVars, bounds>>

\* The main thread has nothing behind it.
Afresh(rs) ==
    /\ at' = "loop" /\ want' = <<"none", 0>> /\ stop' = FALSE
    /\ state' = "idle" /\ pending' = rs /\ flight' = NoFlight /\ tries' = 0
    /\ polled' = FALSE /\ failed' = FALSE

\* The process ends: its tick with it, a commit in flight may have landed.
Exit(next) ==
    /\ unit' = next /\ tick' = "none" /\ Afresh({})
    /\ remote' \in IF flight = NoFlight THEN {remote} ELSE {remote, flight.doc}
    /\ UNCHANGED <<savedVars, issue, ticked, heard, spaceVars>>

Ended ==
    /\ Running /\ at = "final"
    /\ pending = {} \/ tries = 2 \/ flight # NoFlight
    /\ Exit(IF stop THEN "off" ELSE "failed")
    /\ UNCHANGED bounds

Crash == Running /\ Fault /\ Exit(IF stop THEN "off" ELSE "failed")

\* A new process: _load_state, then run.
Boot ==
    /\ unit' = "active" /\ Afresh({"start"})
    /\ UNCHANGED <<tick, savedVars, issue, ticked, heard, remote, spaceVars>>

Restart == unit = "failed" /\ Boot /\ UNCHANGED bounds

-----------------------------------------------------------------------------
(* The runner Space. *)

\* ticking_elsewhere
Elsewhere(doc) ==
    /\ doc # NoDoc /\ doc.age <= Fresh
    /\ doc.state # "stopped" /\ ~doc.blocked

\* read_remote: a failed read keeps the old copy.
Read == {remote, seen}

\* api_event_tick, pinged by the updater.
\* hourly_tick asks again whether an event runs.
Ping ==
    /\ reachable /\ source = "local" /\ ~spaceTick
    /\ seen' \in Read
    /\ IF seen' = remote THEN UNCHANGED bounds ELSE Fault
    /\ spaceTick' = (~Elsewhere(seen') /\ ~busy)
    /\ UNCHANGED <<daemonVars, issue, ticked, heard, remote, source, reachable,
                   manual, busy>>

\* Its events run one after the other, and each leaves no event running.
SpaceTickEnds ==
    /\ spaceTick /\ spaceTick' = FALSE
    /\ busy' \in {busy, FALSE}
    /\ UNCHANGED <<daemonVars, issue, ticked, heard, remote, seen, source,
                   reachable, manual, bounds>>

\* run_conflict: the daemon runs an event, as far as the Space knows.
RunConflict(doc) ==
    /\ doc # NoDoc /\ doc.age <= Fresh
    /\ doc.state \in {"ticking", "stopping", "wedged"}

\* api_event_run, while no other run asked for by hand is under way (bound).
\* With EVENT_TICK off the Space asks what the daemon runs: that gauge is
\* refused.
EventRun ==
    /\ reachable /\ manual = "none" /\ ~spaceTick /\ ~busy /\ Order
    /\ \/ source = "local" /\ manual' = "setup" /\ UNCHANGED seen
       \/ /\ source = "remote" /\ seen' \in Read
          /\ manual' \in {"setup"} \cup
                         (IF RunConflict(seen') THEN {"none"} ELSE {})
    /\ UNCHANGED <<daemonVars, issue, ticked, heard, remote, source, reachable,
                   spaceTick, busy>>

\* run_one returns early, or marks the runner as running its event
\* (_running), whatever else has begun since.
EventMarked ==
    /\ manual = "setup"
    /\ \/ manual' = "none" /\ UNCHANGED busy
       \/ manual' = "run" /\ busy' = TRUE
    /\ UNCHANGED <<daemonVars, issue, ticked, heard, remote, seen, source,
                   reachable, spaceTick, bounds>>

\* Slip: a run that fails leaves the mark.
EventEndsMarked ==
    /\ manual = "run" /\ manual' = "none"
    /\ UNCHANGED <<daemonVars, issue, ticked, heard, remote, seen, source,
                   reachable, spaceTick, busy, bounds>>

\* Its finally clears the mark.
EventEnds ==
    /\ manual = "run" /\ manual' = "none" /\ busy' = FALSE
    /\ UNCHANGED <<daemonVars, issue, ticked, heard, remote, seen, source,
                   reachable, spaceTick, bounds>>

\* The Space does not answer, with its tick or because it restarts.
SpaceDown ==
    /\ reachable /\ Fault /\ reachable' = FALSE
    /\ \/ UNCHANGED <<spaceTick, seen, manual, busy>>
       \/ /\ spaceTick' = FALSE /\ seen' = NoDoc
          /\ manual' = "none" /\ busy' = FALSE
    /\ UNCHANGED <<daemonVars, issue, ticked, heard, remote, source>>

\* The daemon asks again within the minute.
SpaceUp ==
    /\ ~reachable /\ reachable' = TRUE
    /\ polled' = FALSE
    /\ UNCHANGED <<unit, at, want, stop, state, pending, flight, tries, failed,
                   tick, savedVars, issue, ticked, heard, remote, seen, source,
                   spaceTick, manual, busy, bounds>>

-----------------------------------------------------------------------------
(* The operator, the nowcast, the tick and the clock. *)

\* EVENT_TICK of the Space is changed, which restarts it.
SetTick ==
    /\ Order
    /\ source' = IF source = "local" THEN "remote" ELSE "local"
    /\ reachable' = FALSE /\ spaceTick' = FALSE /\ seen' = NoDoc
    /\ manual' = "none" /\ busy' = FALSE
    /\ UNCHANGED <<daemonVars, issue, ticked, heard, remote>>

Enable == unit = "off" /\ Order /\ Boot

\* systemctl stop: the signal, or no restart.
Disable ==
    /\ unit # "off" /\ ~stop /\ Order
    /\ IF Running THEN stop' = TRUE /\ UNCHANGED unit
                  ELSE unit' = "off" /\ UNCHANGED stop
    /\ UNCHANGED <<at, want, state, pending, flight, tries, polled, failed,
                   tick, savedVars, issue, ticked, heard, remote, spaceVars>>

NewIssue ==
    /\ issue < MaxIssue /\ issue' = issue + 1
    /\ polled' = FALSE
    /\ UNCHANGED <<unit, at, want, stop, state, pending, flight, tries, failed,
                   tick, savedVars, ticked, heard, remote, spaceVars, bounds>>

\* hourly_tick returns or raises; it may also hang.
TickEnds ==
    /\ tick = "running" /\ tick' = "ended"
    /\ UNCHANGED <<unit, processVars, savedVars, issue, ticked, heard, remote,
                   spaceVars, bounds>>

UpTo(n, limit) == IF n < limit THEN n ELSE limit
Older(doc) ==
    IF doc = NoDoc THEN NoDoc
    ELSE [doc EXCEPT !.age = UpTo(@ + 1, Fresh + 1)]

\* The daemon has nothing left to do in this hour.
AtRest ==
    /\ at = "loop" /\ ~stop /\ tick # "ended" /\ polled
    /\ pending = {} \/ failed
    /\ tick = "running" => age < MaxBusy

HourPasses ==
    /\ unit # "failed" /\ (Running => AtRest)
    /\ age' = IF age = Never THEN Never ELSE UpTo(age + 1, MaxBusy)
    /\ remote' = Older(remote) /\ seen' = Older(seen)
    /\ polled' = FALSE /\ failed' = FALSE
    /\ UNCHANGED <<unit, at, want, stop, state, pending, flight, tries, tick,
                   lastIssue, blocked, issue, ticked, heard, source, reachable,
                   spaceTick, manual, busy, bounds>>

Daemon ==
    \/ Reap \/ Pass \/ Wedged \/ Poll \/ GuardAnswers \/ Pump \/ Pumped
    \/ BeginStop \/ GracePump \/ GraceOver \/ FinalTry \/ Ended

Next ==
    \/ Daemon \/ FlightLands \/ FlightFails \/ Crash \/ Restart
    \/ Ping \/ SpaceTickEnds \/ EventRun \/ EventMarked \/ EventEnds
    \/ SpaceDown \/ SpaceUp
    \/ SetTick \/ Enable \/ Disable \/ NewIssue \/ TickEnds \/ HourPasses

Spec == Init /\ [][Next]_vars

\* The daemon loops and is restarted by systemd, its commits end (finite Hub
\* timeouts), the updater pings, the Space comes back and its ticks and runs
\* end; a tick of the daemon may hang for ever.
Fairness ==
    /\ WF_vars(Daemon) /\ WF_vars(FlightLands \/ FlightFails)
    /\ WF_vars(Restart) /\ WF_vars(HourPasses)
    /\ WF_vars(Ping) /\ WF_vars(SpaceTickEnds) /\ WF_vars(SpaceUp)
    /\ WF_vars(EventMarked \/ EventEnds)

FairSpec == Spec /\ Fairness

-----------------------------------------------------------------------------
(* Properties. *)

DaemonStarts == tick = "none" /\ tick' = "running"

\* "at most once per issue" (event_tick_daemon.py:17), across restarts,
\* wedged ticks and unreadable issues: an advance of the issue starts no tick
\* for an issue that has had one.
OncePerIssue ==
    [][DaemonStarts /\ want[1] = "issue" => want[2] \notin ticked]_vars

\* "only a clear read lets ticks resume", even from a Space that turns
\* unreachable or a daemon that restarts: no tick starts while the guard's
\* last answer was a block.
BlockIsSticky == [][DaemonStarts => heard' # "block"]_vars

\* What the Spaces read of the daemon is what it is, unless a commit is due:
\* no change of its state goes unpublished, whatever commit was in flight.
NothingUnsaid ==
    Running /\ pending = {} /\ flight = NoFlight =>
        /\ remote # NoDoc
        /\ remote.state = state /\ remote.blocked = blocked

\* "Whichever host is ticking keeps the tick; neither waits on the other":
\* while one of them is left switched on, ticks go on starting, though the
\* two defer to each other and a tick of the daemon may hang.
Served == (unit # "off" /\ ~stop) \/ source = "local"
Starts == DaemonStarts \/ (~spaceTick /\ spaceTick')
SomebodyTicks == <>[]Served => []<><<Starts>>_vars
=============================================================================
