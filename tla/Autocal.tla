------------------------------ MODULE Autocal ------------------------------
(***************************************************************************)
(* The autocalibration Space (autocal/autocal_run.py, autocal_space): one  *)
(* loop that picks the gauge whose flood episodes were simulated worst and *)
(* calibrates it for hours.  Its memory is in three places: the records    *)
(* and the ledger on the Hub, the state file of the container, and RAM.    *)
(* The index it reads is written by the hourly tick (Publish) and by the   *)
(* episode merger (Merge), which re-stamps an episode it did not simulate. *)
(*                                                                         *)
(* The clock counts polls (POLL_S); an outage skip stands one of them.     *)
(* Every episode scores below NSE_MAX, and the order of gauges (west       *)
(* first, then the worst NSE) is fixed; the reservoir hold, which removes  *)
(* gauges for good, is left out.                                           *)
(***************************************************************************)
EXTENDS Naturals, Sequences, FiniteSets, SequencesExt

CONSTANTS
    Order,          \* the gauges, western ones first, then worst NSE first
    Episodes,       \* episode ids, with EpisodeGauge their trigger gauges
    EpisodeGauge,
    Day, Cooldown,  \* 24 h and COOLDOWN_D in polls
    MaxPerDay,      \* MAX_PER_DAY
    ErrTtl, ObsTtl, \* SKIP_ERR_TTL_H and SKIP_TTL_D
    SummaryEvery,   \* SKIP_SUMMARY_H
    MaxSkipRun,     \* MAX_SKIP_RUN
    Strikes,        \* OUTAGE_STRIKES
    IdleFor,        \* IDLE_FOR_S
    Keep,           \* AUTOCAL_KEEP
    SlowOutage,     \* polls an attempt that ends in an outage may take
    MaxTime,        \* bound: the clock
    MaxWrites,      \* bound: publications and merges
    MaxMishaps      \* bound: failed Hub requests, spells of user work, restarts

Gauges == ToSet(Order)
None == "none"

ASSUME AutocalAssumption ==
    /\ Order \in Seq(Gauges)
    /\ EpisodeGauge \in [Episodes -> Gauges] /\ None \notin Gauges \cup Episodes
    /\ \A n \in {Day, Cooldown, ErrTtl, ObsTtl, IdleFor,
                 SlowOutage, MaxTime, MaxWrites, MaxMishaps} : n \in Nat
    /\ \A n \in {MaxPerDay, MaxSkipRun, Strikes, Keep, SummaryEvery} :
          n \in Nat \ {0}

VARIABLES
    clock,
    episode,    \* the index entries
    rows,       \* events/autocal.json
    ledger,     \* events/autocal_done.json: last start and last finish
    mem,        \* state: pending, unpushed, skipped, skips_summarized
    file,       \* the copy of it in AUTOCAL_STATE
    outage,     \* state "outage": n in a row on a gauge, the last one's time
    pc,         \* where the loop is
    wake,       \* it sleeps until then
    idle,       \* idle_since
    skipRun,    \* skip_run
    cur,        \* the candidate being calibrated
    writes, mishaps,    \* counters
    ran,        \* history: the calibrations that ran
    forgotten,  \* history: those whose record was lost with RAM or the Space
    filed       \* history: keys of the records that reached the Hub

loopVars == <<mem, file, outage, pc, wake, idle, skipRun, cur>>
hubVars == <<rows, ledger>>
countVars == <<writes, mishaps>>
historyVars == <<ran, forgotten, filed>>
acVars == <<clock, episode, hubVars, loopVars, countVars, historyVars>>

Times == 0..MaxTime
Never == MaxTime + 1            \* a time that has not come
Absent == [on |-> FALSE, gen |-> 0, t0 |-> 0, merged |-> Never,
           into |-> None]
NoSkip == [at |-> Never, ttl |-> "none", events |-> {}]
NoRow == [kind |-> "none", gauge |-> None, events |-> {}, at |-> 0, fin |-> 0,
          skips |-> [g \in Gauges |-> NoSkip]]
NoMem == [pending |-> {}, unpushed |-> {}, skipped |-> NoRow.skips,
          summarized |-> Never]
NoCand == [gauge |-> None, events |-> {}, at |-> 0, fin |-> 0, out |-> "none",
           floods |-> {}, known |-> {}]

Skips == [at : Times \cup {Never}, ttl : {"none", "outage", "error", "obs"},
          events : SUBSET Episodes]
Row == [kind : {"ran", "skips"}, gauge : Gauges \cup {None},
        events : SUBSET Episodes, at : Times, fin : Times,
        skips : [Gauges -> Skips]]
Mem == [pending : SUBSET Row, unpushed : SUBSET Row,
        skipped : [Gauges -> Skips], summarized : Times \cup {Never}]

AutocalTypeOK ==
    /\ clock \in Times /\ wake \in 0..(MaxTime + IdleFor + 1)
    /\ episode \in [Episodes -> [on : BOOLEAN, gen : Times,
                    t0 : Times, merged : Times \cup {Never},
                    into : Episodes \cup {None}]]
    /\ rows \in Seq(Row) /\ Len(rows) <= Keep
    /\ ledger \in [Gauges -> [last : Times \cup {Never},
                              fin : Times \cup {Never}]]
    /\ mem \in Mem /\ file \in Mem
    /\ outage \in [Gauges -> [n : 0..(Strikes - 1), at : Times]]
    /\ pc \in {"top", "gates", "flush", "pick", "running", "ended", "dump"}
    /\ idle \in Times \cup {Never}
    /\ skipRun \in 0..MaxSkipRun
    /\ cur.gauge \in Gauges \cup {None} /\ cur.events \subseteq Episodes

AutocalInit ==
    /\ clock = 0 /\ wake = 0
    /\ episode = [e \in Episodes |-> Absent]
    /\ rows = <<>>
    /\ ledger = [g \in Gauges |-> [last |-> Never, fin |-> Never]]
    /\ mem = NoMem /\ file = NoMem
    /\ outage = [g \in Gauges |-> [n |-> 0, at |-> 0]]
    /\ pc = "top" /\ idle = Never /\ skipRun = 0 /\ cur = NoCand
    /\ writes = 0 /\ mishaps = 0
    /\ ran = {} /\ forgotten = {} /\ filed = {}

Mishap == mishaps < MaxMishaps /\ mishaps' = mishaps + 1

Newest(S) == CHOOSE t \in S : \A u \in S : u <= t
Known(ts) == {t \in ts : t # Never}

-----------------------------------------------------------------------------
(* The clock and the writers of the index.  The loop reads the index once, *)
(* when it picks, and only sleeps and calibrations take time: elsewhere    *)
(* the others need not move.                                               *)

Resting == (pc = "top" /\ clock < wake) \/ pc = "running"
Write == Resting /\ writes < MaxWrites /\ writes' = writes + 1

Tick ==
    /\ Resting /\ clock < MaxTime /\ clock' = clock + 1
    /\ UNCHANGED <<episode, hubVars, loopVars, countVars, historyVars>>

Publish(e) ==
    /\ Write /\ episode[e].into = None
    /\ ~episode[e].on \/ episode[e].t0 < clock
    /\ episode' = [episode EXCEPT ![e] = [@ EXCEPT
            !.on = TRUE, !.gen = clock, !.t0 = clock]]
    /\ UNCHANGED <<clock, hubVars, loopVars, mishaps, historyVars>>

\* The merger absorbs d into e: nothing is simulated, but e is generated now.
Merge(d, e) ==
    /\ Write /\ d # e /\ EpisodeGauge[d] = EpisodeGauge[e]
    /\ episode[d].on /\ episode[d].into = None /\ episode[d].merged = Never
    /\ episode[e].on /\ episode[e].into = None
    /\ episode' = [episode EXCEPT
            ![d].into = e,
            ![e] = [@ EXCEPT !.gen = clock, !.merged = clock]]
    /\ UNCHANGED <<clock, hubVars, loopVars, mishaps, historyVars>>

-----------------------------------------------------------------------------
(* What the loop concludes from the history: `done' is the records on the  *)
(* Hub, the pending and the unpushed ones.                                 *)

RowKey(r) == <<r.gauge, r.events, r.kind, r.at>>
Keys(S) == {RowKey(r) : r \in S}
Ran(done) == {r \in done : r.kind = "ran"}

\* Slip: only the ledger is read.
LastRunLedger(done, g) == Known({ledger[g].last})

\* _history
LastRun(done, g) ==
    Known({ledger[g].last} \cup {r.at : r \in {x \in Ran(done) : x.gauge = g}})
Handled(done, g) == UNION {r.events : r \in {x \in Ran(done) : x.gauge = g}}

\* Slip: only what is on the Hub counts.
TodayOnHub(done) ==
    Cardinality({r \in Ran(ToSet(rows)) : r.at + Day > clock})

Today(done) == Cardinality({r \in Ran(done) : r.at + Day > clock})

\* Slip: a calibration counts from its start.
FinishesAtStart(done, g) == LastRun(done, g)

\* _finished
Finishes(done, g) ==
    Known({ledger[g].last, ledger[g].fin} \cup
          UNION {{r.fin, r.at} : r \in {x \in Ran(done) : x.gauge = g}})

Absorbed(e) == {d \in Episodes : episode[d].into = e}
StandsFor(e) == {e} \cup Absorbed(e)

\* A merge's re-stamp counts as the newest of what was merged.
PublishedAt(e) ==
    IF episode[e].gen # episode[e].merged THEN episode[e].gen
    ELSE Newest({episode[d].gen : d \in Absorbed(e)} \cup {episode[e].t0})

Cooled(done, g) == \A t \in LastRun(done, g) : clock - t >= Cooldown

\* Slip: only the episode itself is looked up.
EligibleItself(done, e) ==
    LET g == EpisodeGauge[e]
    IN  /\ episode[e].on /\ episode[e].into = None
        /\ e \notin Handled(done, g)
        /\ Cooled(done, g)
        /\ \A t \in Finishes(done, g) : PublishedAt(e) > t

\* low_nse_candidates
Eligible(done, e) ==
    LET g == EpisodeGauge[e]
    IN  /\ episode[e].on /\ episode[e].into = None
        /\ StandsFor(e) \cap Handled(done, g) = {}
        /\ Cooled(done, g)
        /\ \A t \in Finishes(done, g) : PublishedAt(e) > t

CandEvents(done, g) ==
    {e \in Episodes : EpisodeGauge[e] = g /\ Eligible(done, e)}

Ttl(s) == CASE s.ttl = "outage" -> 1 [] s.ttl = "error" -> ErrTtl
            [] s.ttl = "obs" -> ObsTtl [] OTHER -> 0
Stands(s) == s.at # Never /\ s.at + Ttl(s) > clock

\* active_skips: the episodes that live skips of the gauge cover.
SkipEvents(done, g) ==
    LET all == {mem.skipped[g]} \cup {r.skips[g] : r \in done}
    IN  UNION {s.events : s \in {x \in all : Stands(x)}}

Live(done) ==
    {g \in Gauges : ~(CandEvents(done, g) \subseteq SkipEvents(done, g))}

\* pick_candidate
FirstOf(S) ==
    Order[CHOOSE i \in DOMAIN Order :
            Order[i] \in S /\ \A j \in 1..(i - 1) : Order[j] \notin S]

-----------------------------------------------------------------------------
(* The Hub.  A commit that fails may have landed all the same.             *)

\* note_autocal: the record and, with one that ran, the ledger.
Noted(r) ==
    /\ rows' = LET s == Append(rows, r)
               IN  SubSeq(s, IF Len(s) > Keep THEN 2 ELSE 1, Len(s))
    /\ ledger' = IF r.kind # "ran" THEN ledger
                 ELSE [ledger EXCEPT ![r.gauge] =
                        [last |-> Newest(Known({@.last, r.at})),
                         fin |-> Newest(Known({@.fin, r.fin}))]]
    /\ filed' = filed \cup {RowKey(r)}

Accepted(r) == Noted(r) /\ UNCHANGED mishaps

Failed(r) == /\ Mishap
             /\ Noted(r) \/ UNCHANGED <<hubVars, filed>>

-----------------------------------------------------------------------------
(* The loop.                                                               *)

Awake == clock >= wake
Sleep(n) == wake' = clock + n

\* _push_unpushed: each saved winner that is not on CREST_state.
Push ==
    /\ pc = "top" /\ Awake /\ pc' = "gates"
    /\ \E ok \in SUBSET mem.unpushed :
        /\ mem' = [mem EXCEPT
                !.unpushed = @ \ ok,
                !.pending = @ \cup {[r EXCEPT !.fin = clock] : r \in ok}]
    /\ UNCHANGED <<clock, episode, hubVars, file, outage, wake, idle, skipRun,
                   cur, countVars, historyVars>>

\* _dump_state, and a sleep until the next poll.
DumpAnd(n, m) ==
    /\ mem' = m /\ file' = m
    /\ pc' = "top" /\ Sleep(n)

\* No LLM key, or user work on the dashboard, or not idle for long enough.
Yield ==
    /\ pc = "gates"
    /\ \/ /\ Mishap
          /\ idle' = Never
       \/ /\ UNCHANGED mishaps
          /\ idle' = IF idle = Never THEN clock ELSE idle
          /\ clock - idle' < IdleFor
    /\ DumpAnd(1, mem)
    /\ UNCHANGED <<clock, episode, hubVars, outage, skipRun, cur, writes,
                   historyVars>>

IdleMark == idle' = IF idle = Never THEN clock ELSE idle
IdleLong == IdleMark /\ clock - idle' >= IdleFor

HistoryUnreadable ==
    /\ pc = "gates" /\ IdleLong /\ Mishap
    /\ skipRun' = 0
    /\ DumpAnd(1, mem)
    /\ UNCHANGED <<clock, episode, hubVars, outage, cur, writes,
                   historyVars>>

\* Slip: a record whose commit failed is committed again, landed or not.
UnseenAll == mem.pending

\* _flush_pending: what is on the Hub by now is no longer pending ...
Unseen == {r \in mem.pending : RowKey(r) \notin Keys(ToSet(rows))}

Read ==
    /\ pc = "gates" /\ IdleLong /\ pc' = "flush"
    /\ mem' = [mem EXCEPT !.pending = Unseen]
    /\ UNCHANGED <<clock, episode, hubVars, file, outage, wake, skipRun, cur,
                   countVars, historyVars>>

\* ... and the rest is committed, one by one (the code takes the oldest
\* first, here any order is possible), until a commit fails.
FlushOne ==
    /\ pc = "flush"
    /\ \E r \in mem.pending :
        /\ Accepted(r)
        /\ mem' = [mem EXCEPT !.pending = @ \ {r}]
    /\ UNCHANGED <<clock, episode, file, outage, pc, wake, idle, skipRun, cur,
                   writes, ran, forgotten>>

FlushEnds ==
    /\ pc = "flush" /\ pc' = "pick"
    /\ \/ mem.pending = {} /\ UNCHANGED <<hubVars, mishaps, filed>>
       \/ \E r \in mem.pending : Failed(r)
    /\ UNCHANGED <<clock, episode, mem, file, outage, wake, idle, skipRun,
                   cur, writes, ran, forgotten>>

\* What counts besides the Hub's records: those of here that it lacks.
Done == LET hub == ToSet(rows)
        IN  hub \cup {r \in mem.pending \cup mem.unpushed :
                         RowKey(r) \notin Keys(hub)}

\* _summarize_skips at the time t: skips that have lapsed are dropped, the
\* new ones are committed in one record when the last one is old enough.
Standing(skipped, t) ==
    [g \in Gauges |->
        IF skipped[g].at # Never /\ skipped[g].at + Ttl(skipped[g]) > t
        THEN skipped[g] ELSE NoSkip]

SummaryTimes == Known({mem.summarized} \cup
                      {r.at : r \in {x \in Done : x.kind = "skips"}})

NewSkips(skipped) ==
    [g \in Gauges |-> IF \A u \in SummaryTimes : skipped[g].at > u
                      THEN skipped[g] ELSE NoSkip]

Summarize(m, t) ==
    LET kept == [m EXCEPT !.skipped = Standing(@, t)]
        new == NewSkips(kept.skipped)
        r == [NoRow EXCEPT !.kind = "skips", !.at = t, !.skips = new]
    IN  IF new # NoRow.skips /\ \A u \in SummaryTimes : t >= u + SummaryEvery
        THEN \/ Accepted(r) /\ mem' = [kept EXCEPT !.summarized = t]
             \/ Failed(r) /\ mem' = kept
        ELSE mem' = kept /\ UNCHANGED <<hubVars, mishaps, filed>>

NothingToDo ==
    /\ pc = "pick" /\ (Today(Done) >= MaxPerDay \/ Live(Done) = {})
    /\ Summarize(mem, clock)
    /\ file' = mem' /\ pc' = "top" /\ Sleep(1)
    /\ skipRun' = 0
    /\ UNCHANGED <<clock, episode, outage, idle, cur, writes, ran,
                   forgotten>>

Start ==
    /\ pc = "pick" /\ pc' = "running"
    /\ Today(Done) < MaxPerDay /\ Live(Done) # {}
    /\ LET g == FirstOf(Live(Done))
       IN  /\ cur' = [NoCand EXCEPT !.gauge = g, !.at = clock,
                                    !.events = CandEvents(Done, g),
                                    !.floods = UNION {StandsFor(e) :
                                        e \in CandEvents(Done, g)},
                                    !.known = {RowKey(r) : r \in Ran(Done)}]
    /\ file' = mem
    /\ UNCHANGED <<clock, episode, hubVars, mem, outage, wake, idle, skipRun,
                   countVars, ran, forgotten, filed>>

-----------------------------------------------------------------------------
(* One calibration.                                                        *)

Dropped(n) ==
    /\ cur' = NoCand
    /\ DumpAnd(n, mem)
    /\ UNCHANGED <<clock, episode, hubVars, writes, ran, forgotten, filed>>

\* User work appears between two steps of the search: nothing is recorded.
Preempt ==
    /\ pc = "running"
    /\ Mishap
    /\ idle' = Never
    /\ Dropped(0)
    /\ UNCHANGED <<outage, skipRun>>

\* A fault that is not the gauge's, or so it seems: an outage on it for a day
\* or less ago adds up to a strike.
Struck(g) == IF outage[g].at + ErrTtl > cur.at THEN outage[g].n + 1 ELSE 1

OutageHit ==
    /\ pc = "running" /\ clock <= cur.at + SlowOutage
    /\ LET g == cur.gauge
           n == Struck(g)
       IN  IF n < Strikes
           THEN /\ outage' = [outage EXCEPT ![g] = [n |-> n, at |-> cur.at]]
                /\ skipRun' = 0
                /\ Dropped(1)
           ELSE /\ outage' = [outage EXCEPT ![g] = [n |-> 0, at |-> 0]]
                /\ cur' = [cur EXCEPT !.out = "outage"]
                /\ pc' = "ended"
                /\ UNCHANGED <<clock, episode, hubVars, writes, ran,
                     forgotten, filed, mem, file, wake, skipRun>>
    /\ UNCHANGED <<idle, mishaps>>

\* Too few observations, the flood's missing, or the calibration's own error.
DidNotRun(why) ==
    /\ pc = "running" /\ pc' = "ended"
    /\ cur' = [cur EXCEPT !.out = why]
    /\ UNCHANGED <<clock, episode, hubVars, mem, file, outage, wake, idle,
                   skipRun, countVars, historyVars>>

CurRow(fin) == [NoRow EXCEPT !.kind = "ran", !.gauge = cur.gauge,
                             !.events = cur.events, !.at = cur.at, !.fin = fin]

\* The search ends: no winner, or one that is pushed, or one whose push fails.
SearchEnds(out) ==
    /\ pc = "running" /\ pc' = "ended"
    /\ IF out = "unpushed" THEN Mishap ELSE UNCHANGED mishaps
    /\ cur' = [cur EXCEPT !.out = out, !.fin = clock]
    /\ ran' = ran \cup {[row |-> CurRow(clock), floods |-> cur.floods,
                         known |-> cur.known]}
    /\ UNCHANGED <<clock, episode, hubVars, mem, file, outage, wake, idle,
                   skipRun, writes, forgotten, filed>>

Ended == /\ pc = "ended" /\ pc' = "dump"
         /\ outage' = [outage EXCEPT ![cur.gauge] = [n |-> 0, at |-> 0]]
         /\ UNCHANGED <<clock, episode, file, wake, idle, cur, writes, ran,
                        forgotten>>

\* Slip: a record that was refused is dropped.
FileRecordOnce ==
    /\ Ended /\ cur.out = "finished" /\ skipRun' = 0
    /\ Accepted(CurRow(cur.fin)) \/ Failed(CurRow(cur.fin))
    /\ UNCHANGED mem

FileRecord ==
    /\ Ended /\ cur.out = "finished" /\ skipRun' = 0
    /\ \/ Accepted(CurRow(cur.fin)) /\ UNCHANGED mem
       \/ /\ Failed(CurRow(cur.fin))
          /\ mem' = [mem EXCEPT !.pending = @ \cup {CurRow(cur.fin)}]

\* The winner is here but not on CREST_state: unfinished.
KeepUnpushed ==
    /\ Ended /\ cur.out = "unpushed" /\ skipRun' = 0
    /\ mem' = [mem EXCEPT !.unpushed = @ \cup {CurRow(cur.at)}]
    /\ UNCHANGED <<hubVars, mishaps, filed>>

NoteSkip ==
    /\ Ended /\ cur.out \in {"outage", "error", "obs"}
    /\ LET skip == [at |-> cur.at, ttl |-> cur.out, events |-> cur.events]
       IN  Summarize([mem EXCEPT !.skipped[cur.gauge] = skip], cur.at)
    /\ skipRun' = skipRun + 1

\* The end of the iteration; after MaxSkipRun skips in a row, a pause.
Dump ==
    /\ pc = "dump" /\ cur' = NoCand
    /\ skipRun' = IF skipRun >= MaxSkipRun THEN 0 ELSE skipRun
    /\ DumpAnd(IF skipRun >= MaxSkipRun THEN 1 ELSE 0, mem)
    /\ UNCHANGED <<clock, episode, hubVars, outage, idle, countVars,
                   historyVars>>

-----------------------------------------------------------------------------
(* The loop is started again 10 minutes after it exits (autocal_space); a  *)
(* restart of the Space takes the container's files with it.               *)

Kept(m) == Keys(m.pending \cup m.unpushed)

RestartWith(m) ==
    /\ Mishap
    /\ mem' = m /\ file' = m
    /\ outage' = [g \in Gauges |-> [n |-> 0, at |-> 0]]
    /\ pc' = "top" /\ Sleep(1) /\ idle' = Never /\ skipRun' = 0
    /\ cur' = NoCand
    /\ forgotten' = forgotten \cup
          {r \in ran : RowKey(r.row) \notin filed \cup Kept(m)}
    /\ UNCHANGED <<clock, episode, hubVars, writes, ran, filed>>

LoopRestarts == RestartWith(file)
SpaceRestarts == RestartWith(NoMem)

-----------------------------------------------------------------------------
AutocalNext ==
    \/ Tick
    \/ \E e \in Episodes : Publish(e)
    \/ \E d, e \in Episodes : Merge(d, e)
    \/ Push \/ Yield \/ HistoryUnreadable \/ Read \/ FlushOne \/ FlushEnds
    \/ NothingToDo \/ Start \/ Preempt \/ OutageHit
    \/ \E why \in {"error", "obs"} : DidNotRun(why)
    \/ \E out \in {"finished", "unpushed"} : SearchEnds(out)
    \/ FileRecord \/ KeepUnpushed \/ NoteSkip \/ Dump
    \/ LoopRestarts \/ SpaceRestarts

AutocalSpec == AutocalInit /\ [][AutocalNext]_acVars

-----------------------------------------------------------------------------
(* Properties.                                                             *)

RowsRan == {r.row : r \in ran}

\* Every calibration that ran is on the Hub, waits for it in the state, or
\* is being filed - but for those a restart took (the state file is written
\* at the end of an iteration, and does not outlive the Space).
NoneForgotten ==
    \A r \in ran \ forgotten :
        \/ RowKey(r.row) \in filed \cup Kept(mem)
        \/ pc = "ended" /\ r.row.at = cur.at

\* Never more than MAX_PER_DAY calibrations start within 24 h, whatever
\* commits and pushes fail ("counts for the cap", _flush_pending).
CapHeld ==
    forgotten = {} => \A r \in RowsRan :
        Cardinality({x \in RowsRan : r.at <= x.at /\ x.at < r.at + Day})
            <= MaxPerDay

\* A gauge is not calibrated again within its cooldown.
CooldownHeld ==
    forgotten = {} => \A r, x \in RowsRan :
        r.gauge = x.gauge /\ r.at < x.at => x.at - r.at >= Cooldown

\* No flood is calibrated for twice, under any of the episodes it was ("the
\* episode is not handled": merged.ids, merged_from, merged_into), as long
\* as its record has not rolled off the log.
FloodOnce ==
    \A r, x \in ran :
        r.row.gauge = x.row.gauge /\ RowKey(r.row) \in x.known =>
            r.row.events \cap x.floods = {}

\* A record is on the Hub once, also when a commit landed that seemed to fail.
FiledOnce ==
    \A i, j \in DOMAIN rows : RowKey(rows[i]) = RowKey(rows[j]) => i = j

\* The three that bound what calibrations cost: no record is lost that the
\* cap and the cooldown are counted by, and both hold.
Rationed == AutocalTypeOK /\ NoneForgotten /\ CapHeld /\ CooldownHeld

\* A flood is calibrated for once, and its record filed once.
OnceEach == FloodOnce /\ FiledOnce

\* A calibration is started only for floods that were simulated after the
\* last one of the gauge had ended: a merge's re-stamp is no simulation.  One
\* whose winner was never pushed has not ended ("unfinished").
FreshFloods ==
    [][pc = "pick" /\ pc' = "running" /\ forgotten = {} =>
        \A e \in cur'.events : \E d \in StandsFor(e) :
            \A r \in RowsRan :
                r.gauge = cur'.gauge /\ RowKey(r) \notin Keys(mem.unpushed) =>
                    episode[d].t0 > r.fin]_acVars
=============================================================================
