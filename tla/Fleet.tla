------------------------------- MODULE Fleet -------------------------------
(***************************************************************************)
(* The fleet that precomputes five years of simulation per outlet          *)
(* (fleet/fleet_run.py), on a host that runs it for ever: a Space, whose   *)
(* container clones the code at boot and loses its disk with it            *)
(* (fleet_space/runner.py), or a VM, whose disk stays and whose unit       *)
(* refreshes the checkout at each start (fleet/jetstream2/run-fleet.sh).   *)
(*                                                                         *)
(* A pass lists the repository, runs what is not there in a pool of        *)
(* workers, chunk by chunk, and uploads each outlet's record and states    *)
(* in one commit.  Rows are kept in a record per parameter tag; a record   *)
(* is of one cut set.  Between any two steps the host may be killed.       *)
(***************************************************************************)
EXTENDS Naturals, FiniteSets

CONSTANTS
    Outlets,        \* the runnable outlets of this host's shard
    Extent(_),      \* the clip store an outlet runs on
    Hosts,          \* kinds of host checked: subset of {"space", "vm"}
    Workers,        \* --workers
    Chunks,         \* chunks of the period
    MaxPushes,      \* bound: pushes to the code's main branch
    MaxTags,        \* bound: calibrations that change the parameters
    MaxFailed,      \* bound: runs, commits and listings that fail
    MaxKills        \* bound: kills of the host, or of its pool

ASSUME FleetAssumption ==
    Chunks \in Nat \ {0} /\ MaxPushes \in Nat /\ MaxTags \in Nat

None == "none"
Cuts == {"full", "cut"}
Revs == 0..MaxPushes
Tags == 0..MaxTags
Blank == [cuts |-> None, have |-> {}, revs |-> {}]
Empty == [stamp |-> {}, states |-> {}, recs |-> [t \in Tags |-> Blank]]
Idle == [at |-> "none", chunk |-> 1, cuts |-> None, tag |-> 0]

VARIABLES
    world,      \* main: the code's newest revision; tag: the newest
                \* parameters; local: those this host has read
    host,       \* kind, code it runs, where it is, outlets left in its pass
    task,       \* per outlet, its worker
    workdir,    \* per outlet, the host's disk: code stamp, states, records
    stores,     \* the clip stores on disk
    results,    \* per outlet, what the fleet repository holds
    troubles    \* failures and kills so far

flvars == <<world, host, task, workdir, stores, results, troubles>>

FleetInit ==
    /\ world = [main |-> 0, tag |-> 0, local |-> 0]
    /\ host \in [kind : Hosts, code : {0}, at : {"off"}, todo : {{}}]
    /\ task = [o \in Outlets |-> Idle]
    /\ workdir = [o \in Outlets |-> Empty]
    /\ stores = {}
    /\ results = [o \in Outlets |-> Blank]
    /\ troubles = [failures |-> 0, kills |-> 0]

Fails == /\ troubles.failures < MaxFailed
         /\ troubles' = [troubles EXCEPT !.failures = @ + 1]

OnVM == host.kind = "vm"
Busy == {o \in Outlets : task[o].at # "none"}
Goes(o, at) == task' = [task EXCEPT ![o].at = at]

-----------------------------------------------------------------------------
(* The world.                                                              *)

\* a push to the branch, a calibration's winner in CREST_state
Pushed == /\ world.main < MaxPushes
          /\ world' = [world EXCEPT !.main = @ + 1]
          /\ UNCHANGED <<host, task, workdir, stores, results, troubles>>
Calibrated == /\ world.tag < MaxTags
              /\ world' = [world EXCEPT !.tag = @ + 1]
              /\ UNCHANGED <<host, task, workdir, stores, results, troubles>>

\* The container restarts, or the unit is stopped: a deadline, a reboot, or
\* the disk guard.  A pool that loses a worker breaks, and its pass with it.
Killed == /\ host.at # "off" /\ troubles.kills < MaxKills
          /\ troubles' = [troubles EXCEPT !.kills = @ + 1]
          /\ host' = [host EXCEPT !.at = "off", !.todo = {}]
          /\ task' = [o \in Outlets |-> Idle]
          /\ IF OnVM THEN UNCHANGED <<world, workdir, stores>>
             ELSE /\ workdir' = [o \in Outlets |-> Empty] /\ stores' = {}
                  /\ world' = [world EXCEPT !.local = 0]
          /\ UNCHANGED results
PoolBreaks == /\ host.at = "pass" /\ troubles.kills < MaxKills
              /\ troubles' = [troubles EXCEPT !.kills = @ + 1]
              /\ host' = [host EXCEPT !.at = IF OnVM THEN "off" ELSE "up",
                                      !.todo = {}]
              /\ task' = [o \in Outlets |-> Idle]
              /\ UNCHANGED <<world, workdir, stores, results>>

-----------------------------------------------------------------------------
(* The passes.                                                             *)

\* boot_sources; or the unit's start, which keeps what is checked out when
\* the refresh fails
Boots == /\ host.at = "off"
         /\ \E code \in {world.main} \cup (IF OnVM THEN {host.code} ELSE {}) :
               host' = [host EXCEPT !.code = code, !.at = "up"]
         /\ UNCHANGED <<world, task, workdir, stores, results, troubles>>

\* _done_keys: results and states, which one commit brings
Landed == {o \in Outlets : results[o] # Blank}

PassStarts == /\ host.at = "up"
              /\ host' = [host EXCEPT !.at = "pass", !.todo = Outlets \ Landed]
              /\ UNCHANGED <<world, task, workdir, stores, results, troubles>>
\* Slip: a failed pass ends the runner's loop.
NextPassIfOk == host' = [host EXCEPT !.at = IF OnVM THEN "off"
                           ELSE IF Landed = Outlets THEN "up" ELSE "over"]
\* the unit starts again, and the Space an hour later
NextPass == host' = [host EXCEPT !.at = IF OnVM THEN "off" ELSE "up"]
\* after its retries a listing that fails is fatal
ListingFails == /\ host.at = "up" /\ Fails /\ NextPass
                /\ UNCHANGED <<world, task, workdir, stores, results>>
PassEnds == /\ host.at = "pass" /\ host.todo = {} /\ Busy = {}
            /\ NextPass
            /\ UNCHANGED <<world, task, workdir, stores, results, troubles>>

Take(o) == /\ host.at = "pass" /\ o \in host.todo
           /\ Cardinality(Busy) < Workers
           /\ host' = [host EXCEPT !.todo = @ \ {o}]
           /\ task' = [task EXCEPT ![o] = [Idle EXCEPT !.at = "stamp"]]
           /\ UNCHANGED <<world, workdir, stores, results, troubles>>

-----------------------------------------------------------------------------
(* One outlet: its code stamp.                                             *)

Partial(o) == {t \in Tags : workdir[o].recs[t] # Blank}
\* Slip: work without a stamp is taken for this code's.
SuspectStamped(o) == /\ workdir[o].stamp # {host.code} /\ workdir[o].stamp # {}
\* what may be of other code: no stamp is no evidence
Suspect(o) == /\ workdir[o].stamp # {host.code}
              /\ \/ workdir[o].stamp # {} \/ workdir[o].states # {}
                 \/ Partial(o) # {}

\* _check_code_rev, on the VM only: the states go with their stamp, then
\* the records one by one, then the stamp is written
StampKept(o) == /\ task[o].at = "stamp" /\ (~OnVM \/ ~Suspect(o))
                /\ workdir' = IF OnVM
                               THEN [workdir EXCEPT ![o].stamp = {host.code}]
                               ELSE workdir
                /\ Goes(o, "plan")
                /\ UNCHANGED <<world, host, stores, results, troubles>>
StatesDropped(o) == /\ task[o].at = "stamp" /\ OnVM /\ Suspect(o)
                    /\ workdir' = [workdir EXCEPT ![o].stamp = {},
                                                  ![o].states = {}]
                    /\ Goes(o, "drop")
                    /\ UNCHANGED <<world, host, stores, results, troubles>>
RecordDropped(o) == /\ task[o].at = "drop"
                    /\ \E t \in Partial(o) :
                          workdir' = [workdir EXCEPT ![o].recs[t] = Blank]
                    /\ UNCHANGED <<world, host, task, stores, results,
                                   troubles>>
Restamped(o) == /\ task[o].at = "drop" /\ Partial(o) = {}
                /\ workdir' = [workdir EXCEPT ![o].stamp = {host.code}]
                /\ Goes(o, "plan")
                /\ UNCHANGED <<world, host, stores, results, troubles>>

-----------------------------------------------------------------------------
(* One outlet: its chunks.                                                 *)

\* plan_cut_set: gauges whose observations could not be fetched are no cut
Planned(o) == /\ task[o].at = "plan"
              /\ \E c \in Cuts :
                    task' = [task EXCEPT ![o].at = "chunk", ![o].cuts = c]
              /\ UNCHANGED <<world, host, workdir, stores, results, troubles>>

Clipped(o) == /\ task[o].at = "chunk" /\ task[o].chunk <= Chunks
              /\ stores' = stores \cup {Extent(o)}
              /\ Goes(o, "ef5")
              /\ UNCHANGED <<world, host, workdir, results, troubles>>

\* save_record: rows of another cut set go; cached rows are not run again
With(rec, cuts, n, rev) ==
    IF rec.cuts = cuts /\ n \in rec.have THEN rec
    ELSE IF rec.cuts = cuts
    THEN [rec EXCEPT !.have = @ \cup {n}, !.revs = @ \cup {rev}]
    ELSE [cuts |-> cuts, have |-> {n}, revs |-> {rev}]

\* run_gauge under the parameters this host has, or reads now
ChunkDone(o) ==
    /\ task[o].at = "ef5"
    /\ \E t \in {world.local, world.tag} :
          LET rec == workdir[o].recs[t]
              new == With(rec, task[o].cuts, task[o].chunk, host.code) IN
          /\ world' = [world EXCEPT !.local = t]
          /\ workdir' = [workdir EXCEPT ![o].recs[t] = new,
                         ![o].states = @ \cup IF new = rec THEN {}
                                              ELSE {host.code}]
          /\ task' = [task EXCEPT ![o].at = "chunk", ![o].chunk = @ + 1,
                                  ![o].tag = t]
    /\ UNCHANGED <<host, stores, results, troubles>>
ChunkFails(o) == /\ task[o].at = "ef5" /\ Fails /\ Goes(o, "end")
                 /\ UNCHANGED <<world, host, workdir, stores, results>>

\* the record the last chunk was saved to, and all states
Bundle(o) == LET rec == workdir[o].recs[task[o].tag] IN
    [rec EXCEPT !.revs = @ \cup workdir[o].states]
AtEnd(o) == task[o].at = "chunk" /\ task[o].chunk > Chunks
Uploaded(o) == /\ AtEnd(o)
               /\ results' = [results EXCEPT ![o] = Bundle(o)]
               /\ Goes(o, "clean")
               /\ UNCHANGED <<world, host, workdir, stores, troubles>>
\* it may have landed
UploadFails(o) == /\ AtEnd(o) /\ Fails /\ Goes(o, "end")
                  /\ results' \in {results, [results EXCEPT ![o] = Bundle(o)]}
                  /\ UNCHANGED <<world, host, workdir, stores>>

StatesRemoved(o) ==
    /\ task[o].at = "clean" /\ workdir[o].states # {}
    /\ workdir' = [workdir EXCEPT ![o].states = {}, ![o].stamp = {}]
    /\ UNCHANGED <<world, host, task, stores, results, troubles>>
RecordsRemoved(o) ==
    /\ task[o].at = "clean" /\ workdir[o].states = {}
    /\ workdir' = [workdir EXCEPT ![o].recs = Empty.recs]
    /\ Goes(o, "end")
    /\ UNCHANGED <<world, host, stores, results, troubles>>

\* Slip: only outlets still to run count as siblings.
SharedToDo(o) == \E p \in host.todo : Extent(p) = Extent(o)
\* _shared_store_keys: a sibling may run on it
Shared(o) == \E p \in Outlets \ {o} : Extent(p) = Extent(o)

\* _prune_basin_store, on the VM, uploaded or failed
Ended(o) == /\ task[o].at = "end"
            /\ stores' = IF OnVM /\ ~Shared(o) THEN stores \ {Extent(o)}
                         ELSE stores
            /\ task' = [task EXCEPT ![o] = Idle]
            /\ UNCHANGED <<world, host, workdir, results, troubles>>

-----------------------------------------------------------------------------
HostStep == Boots \/ PassStarts \/ PassEnds
TaskStep(o) == \/ Take(o) \/ StampKept(o) \/ StatesDropped(o)
               \/ RecordDropped(o) \/ Restamped(o) \/ Planned(o) \/ Clipped(o)
               \/ ChunkDone(o) \/ Uploaded(o) \/ StatesRemoved(o)
               \/ RecordsRemoved(o) \/ Ended(o)
FleetFailure == \/ ListingFails
                \/ \E o \in Outlets : ChunkFails(o) \/ UploadFails(o)

FleetNext == \/ Pushed \/ Calibrated \/ Killed \/ PoolBreaks \/ HostStep
             \/ FleetFailure \/ \E o \in Outlets : TaskStep(o)

(* The loop and the unit start a pass after each, and a pool gives every   *)
(* outlet of its pass a worker.                                            *)
FleetSpec == /\ FleetInit /\ [][FleetNext]_flvars
             /\ WF_flvars(HostStep)
             /\ \A o \in Outlets : WF_flvars(TaskStep(o))

-----------------------------------------------------------------------------
(* Properties.                                                             *)

(* One uploaded record and its states never mix two revisions of the code, *)
(* whatever a restart left on the disk (fleet/jetstream2/README.md).       *)
OneRevision ==
    \A o \in Outlets : results[o] # Blank => Cardinality(results[o].revs) = 1

(* A clip store is not pruned under a run of another outlet that uses it.  *)
SiblingKept == \A o \in Outlets : task[o].at = "ef5" => Extent(o) \in stores

(* A finished outlet is never run again, also when its commit was reported *)
(* as failed or the repository could not be listed.                        *)
DoneIsDone == [][\A o \in Outlets : results[o] # Blank =>
                   /\ results'[o] = results[o]
                   /\ task[o].at = "none" => task'[o].at = "none"]_flvars

FleetSound == [](OneRevision /\ SiblingKept) /\ DoneIsDone

(* Every runnable outlet is uploaded in the end, after the failures, the   *)
(* restarts and the changes of the code.                                   *)
FleetFinishes == <>(\A o \in Outlets : results[o] # Blank)

(* What is uploaded covers the whole period: no chunk goes to another      *)
(* record than those before it (fleet_run.py 6-9 and 19-20).               *)
WholePeriod ==
    \A o \in Outlets : results[o] # Blank => results[o].have = 1..Chunks
=============================================================================
