----------------------------- MODULE TickHealth -----------------------------
(***************************************************************************)
(* What /api/health says of the hourly tick (hf_data/health.py).           *)
(*                                                                         *)
(* The process that ticks keeps its progress in memory (eventsim.py): the  *)
(* last attempt, the tick and its phase, the run under way, and the gauges *)
(* it left alone because their basins are too large.  It answers from that *)
(* memory, and publishes it as events/tick_status.json (tickstatus.py),    *)
(* from which other processes answer, or which they ask the process for.   *)
(* Files, copies and snapshots of them are old when they are used.         *)
(*                                                                         *)
(* Time passes in units of 15 minutes.  Who ticks when is TickHosts; two   *)
(* runs at a time are left out, and what the other checks of the report    *)
(* say.                                                                    *)
(***************************************************************************)
EXTENDS Integers, FiniteSets

CONSTANTS
    Basins,         \* gauges
    Askers,         \* processes that answer /api/health
    Kind,           \* Kind[a]: "here", it ticks; "file"; "url": it asks others
    StallMax,       \* TICK_PREFLIGHT_STALL_S
    TickMax,        \* TICK_MAX_H
    WedgeMax,       \* WEDGE_MAX_H
    CacheMax,       \* how long a report is shown (120 s)
    LastUnit, MaxPosts, MaxDeaths, MaxRuns      \* bounds

ASSUME TickHealthAssumption ==
    /\ Kind \in [Askers -> {"here", "file", "url"}]
    /\ StallMax \in Nat \ {0} /\ TickMax \in Nat /\ WedgeMax \in Nat
    /\ CacheMax \in Nat /\ LastUnit \in Nat \ {0} /\ MaxPosts \in Nat
    /\ MaxDeaths \in Nat /\ MaxRuns \in Nat

VARIABLES
    clock,
    mem,        \* the memory of the process that ticks
    schedule,   \* its state file: when the last tick started
    generated,  \* the newest publish of the index
    post,       \* the status being committed
    file,       \* events/tick_status.json
    fetched,    \* fetched[a]: statuses a has read and not cached yet
    copy,       \* copy[a]: the status a has cached
    report,     \* report[a]: the report a has cached
    sign,       \* history: the last sign of life
    left,       \* left[g]: since when the tick leaves g alone; 0 if it does not
    posts, deaths, runs

tickVars == <<clock, mem, schedule, generated, post, file, fetched, copy,
              report, sign, left, posts, deaths, runs>>

\* A stamp is a unit, 0 for none.  In memory: when the process started and was
\* first asked for a report, the last attempt, since when a tick runs, its
\* phase waits (or has failed, when none runs), and a run has the runner; the
\* gauge it is for; the gauges that were deferred, and those of them that count.
Stamps == 0..LastUnit
Mems == [up : Stamps, asked : Stamps, attempt : Stamps, started : Stamps,
         waits : Stamps, failed : Stamps, sorted : BOOLEAN, job : Stamps,
         run : SUBSET Basins, skips : SUBSET Basins, blocked : SUBSET Basins]
Down == [up |-> 0, asked |-> 0, attempt |-> 0, started |-> 0, waits |-> 0,
         failed |-> 0, sorted |-> FALSE, job |-> 0, run |-> {}, skips |-> {},
         blocked |-> {}]

\* at: when it was built.  over: the daemon stops, or is wedged.
Statuses == [at : Stamps, mem : Mems, stalled : BOOLEAN, schedule : Stamps,
             over : BOOLEAN]
NoStatus == <<>>
Reports == [at : Stamps, ok : BOOLEAN, published : BOOLEAN]
NoReport == <<>>

HealthTypeOK ==
    /\ clock \in Stamps \ {0} /\ mem \in Mems /\ schedule \in Stamps
    /\ generated \in Stamps
    /\ post \in Statuses \cup {NoStatus} /\ file \in Statuses \cup {NoStatus}
    /\ fetched \in [Askers -> SUBSET Statuses]
    /\ copy \in [Askers -> Statuses \cup {NoStatus}]
    /\ report \in [Askers -> Reports \cup {NoReport}]
    /\ sign \in Stamps /\ left \in [Basins -> Stamps]
    /\ posts \in Nat /\ deaths \in Nat /\ runs \in Nat

NothingLeft == [g \in Basins |-> 0]

HealthInit ==
    /\ clock = 1 /\ mem = [Down EXCEPT !.up = 1] /\ schedule = 0
    /\ generated = 0 /\ post = NoStatus /\ file = NoStatus
    /\ fetched = [a \in Askers |-> {}] /\ copy = [a \in Askers |-> NoStatus]
    /\ report = [a \in Askers |-> NoReport]
    /\ sign = 1 /\ left = NothingLeft /\ posts = 0 /\ deaths = 0 /\ runs = 0

hostVars == <<mem, schedule, sign, left>>
statusVars == <<post, file>>
askVars == <<fetched, copy, report>>
counters == <<posts, deaths, runs>>

-----------------------------------------------------------------------------
(* The process that ticks. *)

Up == mem.up # 0
Ticking == mem.started # 0

\* hourly_tick: a ping is stamped whether or not a tick runs.  While a run has
\* the runner the tick is not begun, or ends at once.
Ping ==
    /\ Up /\ sign' = clock
    /\ \/ /\ Ticking \/ mem.job # 0
          /\ mem' = [mem EXCEPT !.attempt = clock]
          /\ UNCHANGED <<schedule, left>>
       \/ /\ ~Ticking
          /\ mem' = [mem EXCEPT !.attempt = clock, !.failed = 0,
                                !.sorted = FALSE,
                                !.started = IF mem.job = 0 THEN clock ELSE 0,
                                !.waits = IF mem.job = 0 THEN clock ELSE 0]
          /\ schedule' = clock /\ left' = NothingLeft
    /\ UNCHANGED <<clock, generated, statusVars, askVars, counters>>

\* The tick goes on to another wait, or to a run.
TickMoves ==
    /\ Ticking
    /\ mem' \in {[mem EXCEPT !.waits = at] : at \in {0, clock}}
    /\ UNCHANGED <<clock, schedule, generated, sign, left, statusVars, askVars,
                   counters>>

\* _capacity_reconcile: of the gauges that were deferred, those that are high.
Reconcile ==
    /\ Ticking /\ ~mem.sorted
    /\ \E high \in SUBSET Basins :
          mem' = [mem EXCEPT !.sorted = TRUE, !.blocked = mem.skips \cap high]
    /\ UNCHANGED <<clock, schedule, generated, sign, left, statusVars, askVars,
                   counters>>

\* It has failed if a step of it raised.
TickEnds ==
    /\ Ticking
    /\ \E failed \in {0, clock} :
          mem' = [mem EXCEPT !.started = 0, !.waits = 0, !.failed = failed]
    /\ UNCHANGED <<clock, schedule, generated, sign, left, statusVars, askVars,
                   counters>>

\* Left alone from now on, if it is the tick that looked.
LeftAlone(g) ==
    IF Ticking /\ mem.sorted /\ left[g] = 0
    THEN [left EXCEPT ![g] = clock] ELSE left

\* Slip: what was deferred stays as it was.
MarkedOnce(g) == mem.blocked

\* _capacity_suppressed: who asks for a deferred gauge wants it.
Marked(g) == mem.blocked \cup {g}

\* detect, and run_one at its begin: how long it stays deferred is left open.
Defers(g) ==
    /\ Up /\ g \in mem.skips
    /\ mem' = [mem EXCEPT !.blocked = Marked(g)]
    /\ left' = LeftAlone(g)
    /\ UNCHANGED <<clock, schedule, generated, sign, statusVars, askVars,
                   counters>>

\* run_one, from the tick or by hand.
RunBegins(g) ==
    /\ Up /\ mem.job = 0 /\ runs < MaxRuns /\ runs' = runs + 1
    /\ mem' = [mem EXCEPT !.job = clock, !.run = {g},
                          !.waits = IF Ticking THEN clock ELSE @]
    /\ UNCHANGED <<clock, schedule, generated, sign, left, statusVars, askVars,
                   posts, deaths>>

\* _capacity_skip: too large, or for a while not known to be small enough.
RunDefers(g) ==
    /\ mem.run = {g}
    /\ mem' = [mem EXCEPT !.job = 0, !.run = {}, !.skips = @ \cup {g},
                          !.blocked = @ \cup {g}]
    /\ left' = LeftAlone(g)
    /\ UNCHANGED <<clock, schedule, generated, sign, statusVars, askVars,
                   counters>>

\* _capacity_clear: it is small enough.
RunPasses(g) ==
    /\ mem.run = {g}
    /\ mem' = [mem EXCEPT !.skips = @ \ {g}, !.blocked = @ \ {g},
                          !.waits = IF Ticking THEN 0 ELSE @]
    /\ left' = [left EXCEPT ![g] = 0]
    /\ UNCHANGED <<clock, schedule, generated, sign, statusVars, askVars,
                   counters>>

RunEnds ==
    /\ mem.job # 0 /\ mem' = [mem EXCEPT !.job = 0, !.run = {}]
    /\ UNCHANGED <<clock, schedule, generated, sign, left, statusVars, askVars,
                   counters>>

HostDies ==
    /\ Up /\ deaths < MaxDeaths /\ deaths' = deaths + 1
    /\ mem' = Down /\ left' = NothingLeft
    /\ UNCHANGED <<clock, schedule, generated, sign, statusVars, askVars, posts,
                   runs>>

HostStarts ==
    /\ ~Up /\ mem' = [Down EXCEPT !.up = clock] /\ left' = NothingLeft
    /\ sign' = clock
    /\ UNCHANGED <<clock, schedule, generated, statusVars, askVars, counters>>

\* A worker, or the tick, publishes an episode.
EpisodePublished ==
    /\ runs < MaxRuns /\ runs' = runs + 1
    /\ generated' = clock /\ sign' = clock
    /\ UNCHANGED <<clock, mem, schedule, left, statusVars, askVars, posts,
                   deaths>>

-----------------------------------------------------------------------------
(* events/tick_status.json. *)

Stalled == mem.waits # 0 /\ clock - mem.waits >= StallMax

\* tickstatus.build.  A daemon whose last status says so exits.
Build ==
    /\ Up /\ post = NoStatus /\ posts < MaxPosts /\ posts' = posts + 1
    /\ \E over \in BOOLEAN :
          /\ post' = [at |-> clock, mem |-> mem, stalled |-> Stalled,
                      schedule |-> schedule, over |-> over]
          /\ mem' = IF over THEN Down ELSE mem
          /\ left' = IF over THEN NothingLeft ELSE left
    /\ sign' = IF Ticking THEN clock ELSE sign
    /\ UNCHANGED <<clock, schedule, generated, file, askVars, deaths, runs>>

Committed ==
    /\ post # NoStatus /\ post' = NoStatus /\ (file' = post \/ UNCHANGED file)
    /\ UNCHANGED <<clock, hostVars, generated, askVars, counters>>

\* read_remote: two requests may be under way, and end in any order.
Fetch(a) ==
    /\ Kind[a] # "here" /\ file # NoStatus /\ Cardinality(fetched[a]) < 2
    /\ fetched' = [fetched EXCEPT ![a] = @ \cup {file}]
    /\ UNCHANGED <<clock, hostVars, generated, statusVars, copy, report,
                   counters>>

Cache(a) ==
    /\ \E d \in fetched[a] :
          /\ copy' = [copy EXCEPT ![a] = d]
          /\ fetched' = [fetched EXCEPT ![a] = @ \ {d}]
    /\ UNCHANGED <<clock, hostVars, generated, statusVars, report,
                   counters>>

-----------------------------------------------------------------------------
(* /api/health *)

\* Slip: busy as it was when the status was built.
BusyThen(m, t) == {t - s : s \in {m.started, m.job} \ {0}}

\* Units the tick and the run have been at it: live_tick, live_runner.
BusyNow(m, t) == {clock - s : s \in {m.started, m.job} \ {0}}

\* The rules for a process whose memory was m at t, last seen at `last'.
\* published: an episode was published of late; uptime counts from `from'.
Well(m, t, stalled, last, from, published) ==
    /\ ~stalled /\ \A busy \in BusyNow(m, t) : busy <= WedgeMax
    /\ m.failed = 0 /\ m.blocked = {}
    /\ \/ last # 0 /\ clock - last <= TickMax
       \/ last = 0 /\ (published \/ (from # 0 /\ clock - from < TickMax))

\* _local_tick_health.  health.py is imported by the first request.
WellHere(m, published) ==
    Up /\ Well(m, clock, Stalled, m.attempt, m.asked, published)

\* Slip: only the status of a process that has tried to tick goes stale.
StaleIfTried(d) == d.mem.attempt # 0 /\ clock - d.at > TickMax

\* Its publisher is gone.
Stale(d) == clock - d.at > TickMax

\* _remote_tick_health: a fresh status of a running tick is an attempt.
WellByFile(d, published) ==
    LET last == IF d.mem.started # 0 /\ ~Stale(d) THEN d.at
                ELSE IF d.mem.attempt # 0 THEN d.mem.attempt ELSE d.schedule
    IN
    /\ d # NoStatus /\ ~Stale(d) /\ ~d.over
    /\ Well(d.mem, d.at, d.stalled, last, d.mem.up, published)

Lately == generated # 0 /\ clock - generated <= TickMax
Ok(a, published) ==
    IF Kind[a] = "here" THEN WellHere(mem, published)
    ELSE WellByFile(copy[a], published)

\* What a process says from a cached report: with the tick as it is now
\* (_memory_overlay), unless that is another process's.
OkCached(a) ==
    /\ report[a] # NoReport /\ clock - report[a].at <= CacheMax
    /\ IF Kind[a] = "url" THEN report[a].ok ELSE Ok(a, report[a].published)

\* What it says if it reports afresh, or the one it asks says (b), which may
\* not be reached; and the index may not be read.
OkAfresh(a) ==
    \/ Ok(a, Lately)
    \/ /\ Kind[a] = "url"
       /\ \E b \in Askers : Kind[b] # "url" /\ (Ok(b, Lately) \/ OkCached(b))

\* health.py is imported by the first request.
Asked == [mem EXCEPT !.asked = IF @ = 0 THEN clock ELSE @]

\* snapshot, computed and cached.
Report(a) ==
    /\ \/ Up /\ Kind[a] # "file" /\ mem' = Asked
       \/ Kind[a] # "here" /\ mem' = mem
    /\ sign' = IF mem' # mem THEN clock ELSE sign
    /\ \E ok \in BOOLEAN, published \in BOOLEAN :
          /\ report' = [report EXCEPT ![a] = [at |-> clock, ok |-> ok,
                                              published |-> published]]
          /\ UNCHANGED <<clock, schedule, generated, left, statusVars,
                         fetched, copy, counters>>
          /\ ok => Kind[a] = "url" /\ OkAfresh(a)'
          /\ published => Lately

TimePasses ==
    /\ clock < LastUnit /\ clock' = clock + 1
    /\ UNCHANGED <<hostVars, generated, statusVars, askVars, counters>>

HealthNext ==
    \/ Ping \/ TickMoves \/ Reconcile \/ TickEnds
    \/ \E g \in Basins : Defers(g) \/ RunBegins(g) \/ RunDefers(g)
                         \/ RunPasses(g)
    \/ RunEnds \/ HostDies \/ HostStarts \/ EpisodePublished
    \/ Build \/ Committed
    \/ \E a \in Askers : Fetch(a) \/ Cache(a) \/ Report(a)
    \/ TimePasses

HealthSpec == HealthInit /\ [][HealthNext]_tickVars

-----------------------------------------------------------------------------
(* Properties. *)

Longest == IF WedgeMax > TickMax THEN WedgeMax ELSE TickMax

\* What an answer "ok" of the time t says: a sign of life, no tick and no run
\* that hangs, no failed tick, and no flood left alone, unless of late.
Told(t) ==
    /\ t - sign <= TickMax
    /\ mem.started # 0 => t - mem.started <= Longest
    /\ mem.job # 0 => t - mem.job <= Longest
    /\ mem.waits # 0 => t - mem.waits < StallMax + TickMax
    /\ mem.failed # 0 => t - mem.failed <= TickMax
    /\ \A g \in Basins : left[g] # 0 => t - left[g] <= TickMax

\* However old the file, the copy and the reports an answer comes from: what no
\* longer holds, but for the limits of health.py and the time two processes
\* cache their reports, nobody calls "ok".
TickTold ==
    ~Told(clock - 2 * CacheMax) =>
        \A a \in Askers : ~OkAfresh(a) /\ ~OkCached(a)
=============================================================================
