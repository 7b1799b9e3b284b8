----------------------------- MODULE WarmCache -----------------------------
(***************************************************************************)
(* The row record and the saved model states of one gauge, which every     *)
(* simulation of it shares (hf_data/statecache.py, runstates.py,           *)
(* fleetstore.py, datamgr.py and the cache logic of pipeline.run_gauge).   *)
(*                                                                         *)
(* A run answers with the cached rows of its window and simulates the      *)
(* rest from a saved state.  Runs of one configuration hold a lock; a      *)
(* nowcast takes none, a run with parameters of its own shares no state,   *)
(* and the janitor evicts state files and rewrites the record regardless.  *)
(*                                                                         *)
(* A record is a row per hour; a state set is the files of one hour.  A    *)
(* record is written by truncating its file first, so a reader may find it *)
(* torn (and takes it for absent); the fleet's merge replaces the file.    *)
(***************************************************************************)
EXTENDS Naturals, FiniteSets, FiniteSetsExt

CONSTANTS
    Runs,           \* the requests
    Asks,           \* what each may ask for: <<kind, first hour, last>>
    Hours,          \* 0..the last hour
    Variants,       \* sets of boundary gauges a run may find
    Parts,          \* the grids of one state set, numbered by name
    FleetVariant,   \* the fleet's record: its variant,
    FleetHours,     \* its hours
    FleetState,     \* and the hour of its state sets
    Spacing,        \* CHECKPOINT_DAYS, in hours
    MaxEvictions,   \* bound: state files the janitor evicts
    MaxCompacts     \* bound: records the janitor compacts

Nil == "none"
Kinds == {"plain", "custom", "nowcast"}

ASSUME CacheAssumption ==
    /\ 0 \in Hours /\ Hours \subseteq Nat
    /\ \A h \in Hours : 0..h \subseteq Hours
    /\ FleetHours \cup {FleetState} \subseteq Hours
    /\ FleetVariant \in Variants /\ Parts \subseteq Nat
    /\ Spacing \in Nat
    /\ "janitor" \notin Runs /\ Nil \notin Runs \cup Variants
    /\ \A r \in Runs : Asks[r] \subseteq Kinds \X Hours \X Hours
    /\ MaxEvictions \in Nat /\ MaxCompacts \in Nat

VARIABLES
    params,     \* version of the stored parameters; 0 is a priori
    record,     \* per key: the record, perhaps absent or torn
    writers,    \* per key: who has the file open that the name leads to
    grids,      \* the files <<hour, part>> of the shared state folder
    lock,       \* per key: the run that holds it
    run,        \* the runs
    janitor,    \* what it compacts or prunes, and what it has read
    evictions, compacts

cacheVars == <<params, record, writers, grids, lock, run, janitor, evictions,
               compacts>>

\* config_tag: what else changes the rows
Configs == [params : 0..1, custom : BOOLEAN]
BaseKey == [params |-> 0, custom |-> FALSE]    \* also the states' index
Rows == [at : Hours, variant : Variants, key : Configs]
Files == Hours \X Parts
NoRecord == [is |-> "absent", variant |-> Nil, rows |-> {}, listed |-> {},
           fleet |-> FALSE]
Torn == [NoRecord EXCEPT !.is = "torn"]
Records == [is : {"absent", "torn", "whole"}, variant : Variants \cup {Nil},
            rows : SUBSET Rows, listed : SUBSET Hours, fleet : BOOLEAN]

Idle == [at |-> "idle", kind |-> "plain", from |-> 0, to |-> 0, first |-> 0,
         waits |-> BaseKey, key |-> BaseKey, variant |-> Nil, cached |-> {},
         replay |-> FALSE, load |-> {}, staged |-> {}, warm |-> FALSE,
         new |-> {}, ok |-> FALSE, todo |-> {}, rec |-> NoRecord]

JanitorRests == [at |-> "idle", key |-> BaseKey, rec |-> NoRecord]

CacheTypeOK ==
    /\ params \in 0..1 /\ record \in [Configs -> Records]
    /\ writers \in [Configs -> SUBSET (Runs \cup {"janitor"})]
    /\ grids \subseteq Files /\ lock \in [Configs -> Runs \cup {Nil}]
    /\ \A r \in Runs :
          /\ run[r].at \in {"idle", "queue", "prep", "plan", "mosaic", "stage",
                            "commit", "dump", "ended"}
          /\ run[r].kind \in Kinds /\ run[r].todo \subseteq Files
          /\ run[r].staged \subseteq Files /\ run[r].load \subseteq Hours
          /\ run[r].cached \cup run[r].new \subseteq Rows
          /\ run[r].rec \in Records
    /\ janitor.rec \in Records
    /\ evictions \in 0..MaxEvictions /\ compacts \in 0..MaxCompacts

CacheInit ==
    /\ params = 0 /\ record = [k \in Configs |-> NoRecord]
    /\ writers = [k \in Configs |-> {}] /\ grids = {}
    /\ lock = [k \in Configs |-> Nil] /\ run = [r \in Runs |-> Idle]
    /\ janitor = JanitorRests
    /\ evictions = 0 /\ compacts = 0

----------------------------------------------------------------------------
\* Records.

\* load_record: a torn file reads as none.
Load(k) == IF record[k].is = "whole" THEN record[k] ELSE NoRecord

\* by_time.update: the rows of new win.
Updated(old, new) ==
    new \cup {x \in old : \A y \in new : y.at # x.at}

\* Slip: the rows of the other variant stay.
SavedMixed(k, r, rows, states) ==
    LET rec == Load(k)
    IN  [rec EXCEPT !.is = "whole", !.variant = r.variant,
                    !.rows = Updated(rec.rows, rows), !.listed = @ \cup states]

\* The record after save_record: rows of another variant go first.
Saved(k, r, rows, states) ==
    LET rec == Load(k)
        old == IF rec.variant = r.variant THEN rec.rows ELSE {}
    IN  [rec EXCEPT !.is = "whole", !.variant = r.variant,
                    !.rows = Updated(old, rows), !.listed = @ \cup states]

\* open(.., "w"): the file the name leads to is empty now.
Truncate(w, k) ==
    /\ record' = [record EXCEPT ![k] = Torn]
    /\ writers' = [writers EXCEPT ![k] = @ \cup {w}]

\* json.dump: over what another writer left, which may be longer; into a
\* file nobody sees any more when the fleet's record took its name.
JsonDump(w, k, rec) ==
    /\ record' \in
          {[record EXCEPT ![k] = x] :
              x \in IF w \notin writers[k] THEN {record[k]}
                    ELSE IF record[k].is = "torn" THEN {rec} ELSE {rec, Torn}}
    /\ writers' = [writers EXCEPT ![k] = @ \ {w}]

\* _merge_rows: local rows win, unless they are of another variant than the
\* run that asks and the fleet's are of its own.
FleetMerged(k, variant) ==
    LET loc == Load(k)
        rows == {[at |-> t, variant |-> FleetVariant, key |-> k] :
                    t \in FleetHours}
        fleet(x) == [is |-> "whole", variant |-> FleetVariant, rows |-> x,
                     listed |-> loc.listed \cup {FleetState}, fleet |-> TRUE]
    IN  IF loc.fleet THEN record[k]
        ELSE IF loc.rows = {} THEN fleet(rows)
        ELSE IF loc.variant = FleetVariant THEN fleet(Updated(rows, loc.rows))
        ELSE IF variant = FleetVariant THEN fleet(rows)
        ELSE record[k]

----------------------------------------------------------------------------
\* What a run may use.

\* Slip: the record's window tells what it covers.
ReachByWindow(r, rows) ==
    LET ats == {x.at : x \in {y \in rows : y.at \in r.from..r.to}}
    IN  IF ats = {} \/ Min(ats) > r.from + 1 THEN r.from ELSE Max(ats)

\* _contiguous_end: the hours from the window's start without a gap.  EF5's
\* first row is one hour after the start.
Reach(r, rows) ==
    LET ats == {x.at : x \in {y \in rows : y.at \in r.from..r.to}}
        run1(n) == (r.from + 1)..n \subseteq ats
    IN  IF ats = {} \/ Min(ats) > r.from + 1 THEN r.from
        ELSE Max({n \in r.from..r.to : run1(n)})

\* plan: the rows to reuse.
Reusable(r) ==
    LET rec == Load(r.key)
        rows == IF rec.variant = r.variant THEN rec.rows ELSE {}
    IN  {x \in rows : x.at \in r.from..Reach(r, rows)}

Cached(r) == IF r.kind = "nowcast" THEN {} ELSE Reusable(r)
End(r, rows) == IF rows = {} THEN r.from ELSE Max({x.at : x \in rows})

\* _state_choice: the exact or the last earlier state, if any, by the files
\* on disk or the index.
StateChoice(t) ==
    LET times == {n \in {f[1] : f \in grids} \cup Load(BaseKey).listed :
                     n <= t}
    IN  {n \in times : \A m \in times : m <= n}

\* stage: the files that are there, when any is.
StagedFrom(load) == {f \in grids : f[1] \in load}

----------------------------------------------------------------------------
\* A run.

\* The files go in the order of their names.
NextFile(todo) ==
    CHOOSE f \in todo : \A g \in todo :
        f[2] < g[2] \/ (f[2] = g[2] /\ f[1] <= g[1])

Set(r, rec) == run' = [run EXCEPT ![r] = rec]

\* Slip: only a run that ended well releases it.
EndLocksOk(r) ==
    [k \in Configs |-> IF lock[k] = r /\ run[r].ok THEN Nil ELSE lock[k]]

\* run_gauge's finally: the lock is released, however the run ended.
EndLocks(r) ==
    [k \in Configs |-> IF lock[k] = r THEN Nil ELSE lock[k]]

\* What a run has shown stays of a good one.
EndRun(r, ok, rows) ==
    LET x == run[r]
    IN  /\ Set(r, IF ok THEN [Idle EXCEPT !.at = "ended", !.ok = TRUE,
                                !.from = x.from, !.to = x.to, !.key = x.key,
                                !.variant = x.variant, !.cached = rows,
                                !.new = IF x.replay THEN {} ELSE x.new]
                  ELSE [Idle EXCEPT !.at = "ended"])
        /\ lock' = EndLocks(r)

\* The lock's key has the parameters stored now.
Ask(r, kind, from, to) ==
    /\ run[r].at = "idle"
    /\ Set(r, [Idle EXCEPT !.at = IF kind = "nowcast" THEN "prep" ELSE "queue",
                  !.kind = kind, !.from = from, !.to = to,
                  !.waits = [params |-> params, custom |-> kind = "custom"]])
    /\ UNCHANGED <<params, record, writers, grids, lock, janitor, evictions,
                   compacts>>

Acquire(r) ==
    /\ run[r].at = "queue" /\ lock[run[r].waits] = Nil
    /\ lock' = [lock EXCEPT ![run[r].waits] = r]
    /\ Set(r, [run[r] EXCEPT !.at = "prep"])
    /\ UNCHANGED <<params, record, writers, grids, janitor, evictions,
                   compacts>>

\* Stop, a superseding run, or a domain that cannot be built.
GiveUp(r) ==
    /\ run[r].at \in {"queue", "prep", "plan", "mosaic", "stage"}
    /\ run[r].todo = {}
    /\ EndRun(r, FALSE, {})
    /\ UNCHANGED <<params, record, writers, grids, janitor, evictions,
                   compacts>>

\* ensure_local: the fleet's rows join the record of the configuration the
\* fleet ran, unless it was asked within the hour or cannot be reached;
FleetRecords(k, variant) ==
    {record[k]} \cup (IF k = BaseKey THEN {FleetMerged(k, variant)} ELSE {})

\* and _merge_states the files of its bundle that the folder lacks, unless
\* the folder is marked and has enough files.
FleetFiles == {{}, {f \in Files : f[1] = FleetState /\ f \notin grids}}

\* The body reads the parameters again: its tag is the record's.  Then comes
\* what the fleet has (one run of a key at a time).
Prepare(r, variant) ==
    LET k == [params |-> params, custom |-> run[r].kind = "custom"]
    IN  /\ run[r].at = "prep"
        /\ \A q \in Runs :
             run[q].todo # {} /\ run[q].at = "plan" => run[q].key # k
        /\ \E merged \in FleetRecords(k, variant), missing \in FleetFiles :
             /\ record' = [record EXCEPT ![k] = merged]
             /\ writers' = IF merged = record[k] THEN writers
                           ELSE [writers EXCEPT ![k] = {}]
             /\ Set(r, [run[r] EXCEPT !.at = "plan", !.key = k,
                           !.variant = variant, !.todo = missing])
        /\ UNCHANGED <<params, grids, lock, janitor, evictions, compacts>>

\* statebundle.unpack and conusstate.write_states: a file at a time, until
\* one cannot be written.
Unpack(r) ==
    /\ run[r].at \in {"plan", "mosaic"} /\ run[r].todo # {}
    /\ \/ LET f == NextFile(run[r].todo)
          IN  /\ grids' = grids \cup {f}
              /\ Set(r, [run[r] EXCEPT !.todo = @ \ {f}])
       \/ /\ Set(r, [run[r] EXCEPT !.todo = {}])
          /\ UNCHANGED grids
    /\ UNCHANGED <<params, record, writers, lock, janitor, evictions,
                   compacts>>

\* The hour a simulation would start from: the end of the cached rows, or
\* the window's start when all are cached and only the map lacks frames.
StateFor(r) ==
    LET end == End(run[r], Cached(run[r]))
    IN  IF end < run[r].to THEN end ELSE run[r].from

\* The files pasted of the fleet's runs of the gauge and of those upstream,
\* at the last hour of their common schedule.
Mosaic(first) == IF FleetState <= first THEN {FleetState} \X Parts ELSE {}

\* conusstate.warm_state, for a full-basin run with no state to start from.
Stitch(r) ==
    /\ run[r].at = "plan" /\ run[r].todo = {}
    /\ StateChoice(StateFor(r)) = {}
    /\ Set(r, [run[r] EXCEPT !.at = "mosaic", !.todo = Mosaic(StateFor(r))])
    /\ UNCHANGED <<params, record, writers, grids, lock, janitor, evictions,
                   compacts>>

\* All rows cached: served, unless the map has no frames and the window is
\* simulated again for them (replay).
Plan(r) ==
    LET rows == Cached(run[r])
        end == End(run[r], rows)
    IN  /\ run[r].at \in {"plan", "mosaic"} /\ run[r].todo = {}
        /\ \/ /\ end = run[r].to
              /\ EndRun(r, TRUE, rows)
           \/ \E first \in {end, run[r].from} :
                 /\ first = end => end < run[r].to
                 /\ first # end => end = run[r].to
                 /\ Set(r, [run[r] EXCEPT !.at = "stage", !.cached = rows,
                               !.first = first, !.replay = first # end,
                               !.load = StateChoice(first)])
                 /\ UNCHANGED lock
        /\ UNCHANGED <<params, record, writers, grids, janitor, evictions,
                       compacts>>

\* The warm-up goes from an earlier state, or from none when the staged set
\* does not cover the run's cells; an exact state needs none.
WarmsUp(x, staged) == ~(x.load = {x.first} /\ staged # {})

\* The rows EF5 writes up to the end, or to where it failed or was stopped.
RowsTo(x, last) ==
    {[at |-> t, variant |-> x.variant, key |-> x.key] :
        t \in (x.first + 1)..last}

\* The states a good run shares: of its warm-up, and of its end when it has
\* no parameters of its own and no future in it.
Shares(x, warm, last) ==
    IF last < x.to \/ x.kind = "custom" THEN {}
    ELSE {t \in Hours : \/ t = x.first /\ warm
                        \/ t = last /\ x.kind = "plain"}

\* A warm-up that is stuck is killed, and the simulation starts cold.
Simulate(r, staged, warm, last) ==
    LET x == run[r]
    IN  /\ x.at = "stage" /\ last \in x.first..x.to
        /\ warm => WarmsUp(x, staged)
        /\ Set(r, [x EXCEPT !.at = "commit", !.staged = staged, !.warm = warm,
                      !.ok = last = x.to, !.new = RowsTo(x, last), !.load = {},
                      !.todo = Shares(x, warm, last) \X Parts])
        /\ UNCHANGED <<params, record, writers, grids, lock, janitor,
                       evictions, compacts>>

\* runstates.commit: file by file; a nowcast replaces none, and keeps no
\* record.
Commit(r) ==
    /\ run[r].at = "commit"
    /\ IF run[r].todo # {}
       THEN /\ grids' = grids \cup {NextFile(run[r].todo)}
            /\ Set(r, [run[r] EXCEPT !.todo = @ \ {NextFile(@)}])
            /\ UNCHANGED lock
       ELSE /\ run[r].kind = "nowcast"
            /\ EndRun(r, run[r].ok, run[r].cached)
            /\ UNCHANGED grids
    /\ UNCHANGED <<params, record, writers, janitor, evictions, compacts>>

\* save_record reads the record and opens it for writing,
Save(r) ==
    LET x == run[r]
        states == IF x.ok THEN Shares(x, x.warm, x.to) ELSE {}
    IN  /\ x.at = "commit" /\ x.todo = {} /\ x.kind # "nowcast"
        /\ Set(r, [x EXCEPT !.at = "dump", !.rec =
                      Saved(x.key, x, Updated(x.cached, x.new), states)])
        /\ Truncate(r, x.key)
        /\ UNCHANGED <<params, grids, lock, janitor, evictions, compacts>>

\* and writes it.
SaveDump(r) ==
    /\ run[r].at = "dump"
    /\ JsonDump(r, run[r].key, run[r].rec)
    /\ EndRun(r, run[r].ok, run[r].cached)
    /\ UNCHANGED <<params, grids, janitor, evictions, compacts>>

----------------------------------------------------------------------------
\* The others.

\* A calibration winner: later runs have another key.
Calibrated ==
    /\ params = 0
    /\ params' = 1
    /\ UNCHANGED <<record, writers, grids, lock, run, janitor, evictions,
                   compacts>>

\* _evict_lru_files: single files, until the folder is small enough.
Evict(f) ==
    /\ evictions < MaxEvictions
    /\ f \in grids
    /\ grids' = grids \ {f}
    /\ evictions' = evictions + 1
    /\ UNCHANGED <<params, record, writers, lock, run, janitor, compacts>>

\* compact_results reads a record, folds in the states on disk (those under
\* the record's own key),
CompactRead(k) ==
    /\ janitor.at = "idle" /\ compacts < MaxCompacts
    /\ record[k].is = "whole"
    /\ LET disk == IF k = BaseKey THEN {f[1] : f \in grids} ELSE {}
       IN  janitor' = [at |-> "open", key |-> k, rec |->
                          [record[k] EXCEPT !.listed = @ \cup disk]]
    /\ compacts' = compacts + 1
    /\ UNCHANGED <<params, record, writers, grids, lock, run, evictions>>

\* The checkpoints among the hours of the saved states, and the newest.
Spaced(hours) ==
    LET point[t \in Hours] ==
            \A u \in hours : u < t /\ point[u] => t >= u + Spacing
    IN  {t \in hours : point[t] \/ \A u \in hours : u <= t}

\* prune_states, after a nowcast: the other hours' files go (single files:
\* Evict),
PruneFiles ==
    /\ janitor.at = "idle" /\ compacts < MaxCompacts
    /\ LET hours == {f[1] : f \in grids}
       IN  /\ Spaced(hours) # hours
           /\ grids' = {f \in grids : f[1] \in Spaced(hours)}
           /\ janitor' = [at |-> "pruned", key |-> BaseKey,
                          rec |-> [NoRecord EXCEPT !.listed = Spaced(hours)]]
    /\ compacts' = compacts + 1
    /\ UNCHANGED <<params, record, writers, lock, run, evictions>>

\* then their hours go from the record read now, if it lists any.
PruneIndex ==
    /\ janitor.at = "pruned"
    /\ LET rec == Load(BaseKey)
       IN  janitor' =
             IF rec.listed = {} THEN JanitorRests
             ELSE [at |-> "open", key |-> BaseKey, rec |->
                      [rec EXCEPT !.listed = @ \cap janitor.rec.listed]]
    /\ UNCHANGED <<params, record, writers, grids, lock, run, evictions,
                   compacts>>

\* Both write the record back without a lock.
CompactOpen ==
    /\ janitor.at = "open"
    /\ Truncate("janitor", janitor.key)
    /\ janitor' = [janitor EXCEPT !.at = "dump"]
    /\ UNCHANGED <<params, grids, lock, run, evictions, compacts>>

CompactDump ==
    /\ janitor.at = "dump"
    /\ JsonDump("janitor", janitor.key, janitor.rec)
    /\ janitor' = JanitorRests
    /\ UNCHANGED <<params, grids, lock, run, evictions, compacts>>

----------------------------------------------------------------------------
RunStep(r) ==
    \/ Acquire(r) \/ Unpack(r) \/ Stitch(r) \/ Plan(r) \/ Commit(r)
    \/ Save(r) \/ SaveDump(r)
    \/ \E v \in Variants : Prepare(r, v)
    \/ \E staged \in {{}, StagedFrom(run[r].load)}, warm \in BOOLEAN,
          last \in Hours : Simulate(r, staged, warm, last)

CacheNext ==
    \/ \E r \in Runs : RunStep(r) \/ GiveUp(r)
    \/ \E r \in Runs : \E ask \in Asks[r] : Ask(r, ask[1], ask[2], ask[3])
    \/ Calibrated
    \/ \E f \in Files : Evict(f)
    \/ \E k \in Configs : CompactRead(k)
    \/ PruneFiles \/ PruneIndex \/ CompactOpen \/ CompactDump

CacheSpec == CacheInit /\ [][CacheNext]_cacheVars

----------------------------------------------------------------------------
\* Properties.

\* The rows of a record are of one configuration, the record's variant and
\* the parameters of its key, whoever wrote it last (statecache.save_record,
\* fleetstore._merge_rows: "rows of two run configurations never mix").
RowsOneConfig ==
    \A k \in Configs : \A x \in record[k].rows :
        x.variant = record[k].variant /\ x.key = k

\* What a run that ended well has shown is a row for every hour of its
\* window, one each, all simulated under its own configuration (plan,
\* _contiguous_end), although records get torn, lost and overwritten.
AnswerWhole ==
    \A r \in Runs :
        LET x == run[r]
            shown == x.cached \cup x.new
        IN  x.at = "ended" /\ x.ok =>
                /\ (x.from + 1)..x.to \subseteq {y.at : y \in shown}
                /\ \A y, z \in shown : y.at = z.at => y = z
                /\ \A y \in shown : y.variant = x.variant /\ y.key = x.key

\* The lock of a configuration is held by a run that is under way
\* (run_gauge's finally), so that who waits for it gets it in the end.
LocksReleased ==
    \A k \in Configs : lock[k] # Nil =>
        run[lock[k]].at \in {"prep", "plan", "mosaic", "stage", "commit",
                             "dump"}

\* The cache under concurrent runs, writers, eviction and the janitor.
CacheSound == RowsOneConfig /\ AnswerWhole /\ LocksReleased
=============================================================================
