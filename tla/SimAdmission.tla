---------------------------- MODULE SimAdmission ----------------------------
(***************************************************************************)
(* Simulation jobs of the dashboard (hf_data/simjobs.py): a request starts *)
(* a job, its gauges run in a pool of the job's own, and every gauge       *)
(* passes three gates in this order:                                       *)
(*                                                                         *)
(*   a slot of its user   _PER_USER   a semaphore of PER_USER_CONCURRENT   *)
(*   a slot of the server _GLOBAL     a semaphore of GLOBAL_CONCURRENT     *)
(*   the run lock         run_gauge   one per gauge and configuration      *)
(*                        (hf_data/pipeline.py)                            *)
(*                                                                         *)
(* Every wait polls the job's cancel flag each 2 s.  A gauge stands for    *)
(* one configuration of it, and a task is a gauge of a job.                *)
(***************************************************************************)
EXTENDS Naturals, FiniteSets

CONSTANTS
    Users,          \* browser sessions
    Gauges,
    Nobody,
    MaxJobs,        \* bound: jobs ever started
    Global,         \* GLOBAL_CONCURRENT
    PerUser,        \* PER_USER_CONCURRENT
    PoolSize,       \* MAX_CONCURRENT
    MaxKept         \* MAX_KEPT_JOBS

ASSUME SimAdmissionAssumption ==
    /\ IsFiniteSet(Gauges) /\ Nobody \notin Users
    /\ MaxJobs \in Nat /\ MaxKept \in Nat
    /\ Global \in Nat \ {0} /\ PerUser \in Nat \ {0} /\ PoolSize \in Nat \ {0}

Jobs == 1..MaxJobs
Tasks == Jobs \X Gauges
NoTask == <<0, Nobody>>

VARIABLES
    table,      \* _JOBS
    phase,      \* phase[j]: the request that starts j, then its thread
    owner,      \* owner[j]: owner["sid"]
    cancel,     \* jobs whose cancel event is set
    todo,       \* todo[j]: what the request that starts j has yet to prune
    task,       \* task[<<j, g>>]: the thread of a gauge
    slots,      \* slots[u]: free slots of u
    free,       \* free server slots
    running,    \* _running_n["n"]
    lock,       \* lock[g]: the holder of the run lock
    reports     \* reports[t]: gauge_done events of t

jobVars == <<table, phase, owner, cancel, todo>>
gateVars == <<slots, free, running, lock>>
vars == <<jobVars, task, gateVars, reports>>

Phases == {"none", "sorting", "pruning", "started", "done", "lost"}
TaskPCs == {"none", "queued", "user", "global", "admitting", "running",
            "waiting", "locked", "reported", "failed", "counted", "uncounted",
            "releasing", "stopped", "done"}

TypeOK ==
    /\ table \in SUBSET Jobs
    /\ phase \in [Jobs -> Phases]
    /\ owner \in [Jobs -> Users \cup {Nobody}]
    /\ cancel \in SUBSET Jobs
    /\ todo \in [Jobs -> SUBSET Jobs]
    /\ task \in [Tasks -> TaskPCs]
    /\ slots \in [Users -> 0..PerUser]
    /\ free \in 0..Global /\ running \in 0..Global
    /\ lock \in [Gauges -> Tasks \cup {NoTask}]
    /\ reports \in [Tasks -> Nat]

Init ==
    /\ table = {} /\ cancel = {}
    /\ phase = [j \in Jobs |-> "none"]
    /\ owner = [j \in Jobs |-> Nobody]
    /\ todo = [j \in Jobs |-> {}]
    /\ task = [t \in Tasks |-> "none"]
    /\ slots = [u \in Users |-> PerUser]
    /\ free = Global /\ running = 0
    /\ lock = [g \in Gauges |-> NoTask]
    /\ reports = [t \in Tasks |-> 0]

-----------------------------------------------------------------------------
(* A request: api_simulate, start_job. *)

\* Jobs are numbered in the order of `created'.
Submit(j, u, gs, prev) ==
    /\ phase[j] = "none" /\ \A i \in Jobs : i < j => phase[i] # "none"
    /\ gs # {}
    /\ cancel' = cancel \cup {i \in prev : phase[i] # "done" /\ owner[i] = u}
    /\ owner' = [owner EXCEPT ![j] = u]
    /\ table' = table \cup {j}
    /\ IF Cardinality(table') > MaxKept
       THEN /\ phase' = [phase EXCEPT ![j] = "sorting"]
            /\ todo' = [todo EXCEPT ![j] = table']
       ELSE /\ phase' = [phase EXCEPT ![j] = "started"]
            /\ UNCHANGED todo
    /\ task' = [t \in Tasks |-> IF t[1] = j /\ t[2] \in gs THEN "queued"
                                ELSE task[t]]
    /\ UNCHANGED <<gateVars, reports>>

\* sorted() looks every listed job up again: one pruned by another request
\* meanwhile is a KeyError, and the job in the table is never started.
Sort(j) ==
    /\ phase[j] = "sorting"
    /\ phase' = [phase EXCEPT ![j] = IF todo[j] \subseteq table
                                     THEN "pruning" ELSE "lost"]
    /\ UNCHANGED <<table, owner, cancel, todo, task, gateVars, reports>>

\* Slip: the oldest job is pruned whether it has finished or not.
PrunableAny(i) == TRUE

Prunable(i) == phase[i] = "done"

\* The oldest finished jobs go, until MAX_KEPT_JOBS are left.
Prune(j) ==
    /\ phase[j] = "pruning"
    /\ IF Cardinality(table) <= MaxKept \/ todo[j] = {}
       THEN /\ phase' = [phase EXCEPT ![j] = "started"]
            /\ UNCHANGED <<table, todo>>
       ELSE \E i \in todo[j] :
               /\ \A k \in todo[j] : i <= k
               /\ todo' = [todo EXCEPT ![j] = @ \ {i}]
               /\ IF i \notin table
                  THEN phase' = [phase EXCEPT ![j] = "lost"] /\ UNCHANGED table
                  ELSE /\ table' = IF Prunable(i) THEN table \ {i} ELSE table
                       /\ UNCHANGED phase
    /\ UNCHANGED <<owner, cancel, task, gateVars, reports>>

\* api_cancel
Cancel(j) ==
    /\ j \in table /\ phase[j] # "done" /\ j \notin cancel
    /\ cancel' = cancel \cup {j}
    /\ UNCHANGED <<table, phase, owner, todo, task, gateVars, reports>>

-----------------------------------------------------------------------------
(* A task: _run_one, admit. *)

User(t) == owner[t[1]]
Cancelled(t) == t[1] \in cancel
Goto(t, pc) == task' = [task EXCEPT ![t] = pc]
Report(t) == reports' = [reports EXCEPT ![t] = @ + 1]

InPool(j) == {t \in Tasks : t[1] = j
                              /\ task[t] \notin {"none", "queued", "done"}}

Take(t) ==
    /\ task[t] = "queued" /\ phase[t[1]] = "started"
    /\ Cardinality(InPool(t[1])) < PoolSize
    /\ Goto(t, IF Cancelled(t) THEN "stopped" ELSE "user")
    /\ UNCHANGED <<jobVars, gateVars, reports>>

\* Slip: the slot is looked at, not taken.
AcquireUserPeek(t) ==
    /\ task[t] = "user" /\ slots[User(t)] > 0
    /\ Goto(t, "global")
    /\ UNCHANGED <<jobVars, gateVars, reports>>

AcquireUser(t) ==
    /\ task[t] = "user" /\ slots[User(t)] > 0
    /\ slots' = [slots EXCEPT ![User(t)] = @ - 1]
    /\ Goto(t, "global")
    /\ UNCHANGED <<jobVars, free, running, lock, reports>>

AcquireGlobal(t) ==
    /\ task[t] = "global" /\ free > 0
    /\ free' = free - 1
    /\ Goto(t, "admitting")
    /\ UNCHANGED <<jobVars, slots, running, lock, reports>>

Count(t) ==
    /\ task[t] = "admitting"
    /\ running' = running + 1
    /\ Goto(t, "running")
    /\ UNCHANGED <<jobVars, slots, free, lock, reports>>

\* Slip: the slot of the user stays taken.
GiveUpKeeping(t) ==
    /\ Cancelled(t)
    /\ \/ task[t] = "user" /\ slots[User(t)] = 0
       \/ task[t] = "global" /\ free = 0
    /\ UNCHANGED slots
    /\ Goto(t, "stopped")
    /\ UNCHANGED <<jobVars, free, running, lock, reports>>

\* Slip: a slot is given back that was never taken.
GiveUpReleasing(t) ==
    /\ Cancelled(t)
    /\ \/ task[t] = "user" /\ slots[User(t)] = 0
       \/ task[t] = "global" /\ free = 0
    /\ slots' = [slots EXCEPT ![User(t)] = @ + 1]
    /\ Goto(t, "stopped")
    /\ UNCHANGED <<jobVars, free, running, lock, reports>>

\* Stopped while it waits for a slot.
GiveUp(t) ==
    /\ Cancelled(t)
    /\ \/ task[t] = "user" /\ slots[User(t)] = 0 /\ UNCHANGED slots
       \/ /\ task[t] = "global" /\ free = 0
          /\ slots' = [slots EXCEPT ![User(t)] = @ + 1]
    /\ Goto(t, "stopped")
    /\ UNCHANGED <<jobVars, free, running, lock, reports>>

\* Slip: a gauge that never ran is not reported.
StoppedSilent(t) ==
    /\ task[t] = "stopped"
    /\ UNCHANGED reports
    /\ Goto(t, "done")
    /\ UNCHANGED <<jobVars, gateVars>>

Stopped(t) ==
    /\ task[t] = "stopped"
    /\ Report(t)
    /\ Goto(t, "done")
    /\ UNCHANGED <<jobVars, gateVars>>

-----------------------------------------------------------------------------
(* run_gauge, and what _run_one does with its events. *)

\* Without the lock: an unknown gauge, one without a basin, an error before it
\* is asked for, or a run that writes no cache and so takes none.
RunRefused(t) ==
    /\ task[t] = "running"
    /\ Report(t)
    /\ Goto(t, "counted")
    /\ UNCHANGED <<jobVars, gateVars>>

\* Somebody else runs this gauge: wait for the results.
RunWaits(t) ==
    /\ task[t] = "running" /\ lock[t[2]] # NoTask
    /\ Goto(t, "waiting")
    /\ UNCHANGED <<jobVars, gateVars, reports>>

\* Slip: a run that has waited goes on without the lock.
RunLockTired(t) ==
    /\ \/ task[t] = "waiting"
       \/ task[t] = "running" /\ lock[t[2]] = NoTask
    /\ lock' = [lock EXCEPT ![t[2]] = t]
    /\ Goto(t, "locked")
    /\ UNCHANGED <<jobVars, slots, free, running, reports>>

RunLock(t) ==
    /\ task[t] \in {"running", "waiting"} /\ lock[t[2]] = NoTask
    /\ lock' = [lock EXCEPT ![t[2]] = t]
    /\ Goto(t, "locked")
    /\ UNCHANGED <<jobVars, slots, free, running, reports>>

\* Stopped while it waits for the lock.
RunStopped(t) ==
    /\ task[t] = "waiting" /\ lock[t[2]] # NoTask /\ Cancelled(t)
    /\ Report(t)
    /\ Goto(t, "counted")
    /\ UNCHANGED <<jobVars, gateVars>>

\* The done event: reported while the generator still holds the run lock.
RunEnds(t) ==
    /\ task[t] = "locked"
    /\ Report(t)
    /\ Goto(t, "reported")
    /\ UNCHANGED <<jobVars, gateVars>>

\* An error closes the generator, which releases the lock, before the report.
RunRaises(t) ==
    /\ task[t] = "locked"
    /\ lock' = [lock EXCEPT ![t[2]] = NoTask]
    /\ Goto(t, "failed")
    /\ UNCHANGED <<jobVars, slots, free, running, reports>>

RunFailed(t) ==
    /\ task[t] = "failed"
    /\ Report(t)
    /\ Goto(t, "counted")
    /\ UNCHANGED <<jobVars, gateVars>>

Unlock(t) ==
    /\ task[t] = "reported"
    /\ lock' = [lock EXCEPT ![t[2]] = NoTask]
    /\ Goto(t, "counted")
    /\ UNCHANGED <<jobVars, slots, free, running, reports>>

Uncount(t) ==
    /\ task[t] = "counted"
    /\ running' = IF running = 0 THEN 0 ELSE running - 1
    /\ Goto(t, "uncounted")
    /\ UNCHANGED <<slots, free>>

\* Slip: counting the gauge off is taken for freeing its slots.
ReleaseNothing(t) ==
    /\ \/ Uncount(t)
       \/ /\ task[t] = "uncounted"
          /\ Goto(t, "done")
          /\ UNCHANGED <<slots, free, running>>
    /\ UNCHANGED <<jobVars, lock, reports>>

\* In the reverse order of admit.
Release(t) ==
    /\ \/ Uncount(t)
       \/ /\ task[t] = "uncounted"
          /\ free' = free + 1
          /\ Goto(t, "releasing")
          /\ UNCHANGED <<slots, running>>
       \/ /\ task[t] = "releasing"
          /\ slots' = [slots EXCEPT ![User(t)] = @ + 1]
          /\ Goto(t, "done")
          /\ UNCHANGED <<free, running>>
    /\ UNCHANGED <<jobVars, lock, reports>>

\* The job's thread: every gauge is through.
AllDone(j) ==
    /\ phase[j] = "started"
    /\ \A g \in Gauges : task[<<j, g>>] \in {"none", "done"}
    /\ phase' = [phase EXCEPT ![j] = "done"]
    /\ UNCHANGED <<table, owner, cancel, todo, task, gateVars, reports>>

Start(j) == Sort(j) \/ Prune(j)

Admit(t) ==
    Take(t) \/ AcquireUser(t) \/ AcquireGlobal(t) \/ Count(t) \/ GiveUp(t)
      \/ Stopped(t)

Run(t) ==
    RunRefused(t) \/ RunWaits(t) \/ RunLock(t) \/ RunStopped(t) \/ RunEnds(t)
      \/ RunRaises(t) \/ RunFailed(t) \/ Unlock(t) \/ Release(t)

Next ==
    \/ \E j \in Jobs :
          \/ \E u \in Users, gs \in SUBSET Gauges, prev \in SUBSET table :
                Cardinality(prev) <= 1 /\ Submit(j, u, gs, prev)
          \/ Start(j) \/ Cancel(j) \/ AllDone(j)
    \/ \E t \in Tasks : Admit(t) \/ Run(t)

Spec == Init /\ [][Next]_vars

\* Threads run: while a request is in its prune, or a task can take a free
\* slot or lock that it polls for, some thread goes on; and EF5 ends, since
\* stream_run kills a run that is silent or too long.
Fairness ==
    /\ WF_vars(\E j \in Jobs : Start(j) \/ AllDone(j))
    /\ WF_vars(\E t \in Tasks : Admit(t) \/ Run(t))

FairSpec == Spec /\ Fairness

-----------------------------------------------------------------------------
(* Properties. *)

\* What a task holds at each point of its way.
LockPCs == {"locked", "reported"}
CountedPCs == {"running", "waiting", "failed", "counted"} \cup LockPCs
GlobalPCs == {"admitting", "uncounted"} \cup CountedPCs
SlotPCs == {"global", "releasing"} \cup GlobalPCs

TasksOf(u) == {t \in Tasks : User(t) = u}
SlotHolders(u) == {t \in TasksOf(u) : task[t] \in SlotPCs}
GlobalHolders == {t \in Tasks : task[t] \in GlobalPCs}
CountedTasks == {t \in Tasks : task[t] \in CountedPCs}

\* No slot is ever lost or given back twice (a second release of a
\* BoundedSemaphore raises in _run_one), whichever wait a cancel, an error or
\* a superseding run interrupts, and the number shown to those who wait is
\* the number that runs.
SlotsConserved ==
    /\ \A u \in Users : slots[u] + Cardinality(SlotHolders(u)) = PerUser
    /\ free + Cardinality(GlobalHolders) = Global
    /\ running = Cardinality(CountedTasks)

\* "a user's third gauge waits behind their own first two, never behind
\* someone else's ten" (simjobs.py:35-36): nobody holds more than PerUser of the
\* server's slots, not even while slots are being given back.
FairShare ==
    \A u \in Users :
        Cardinality(TasksOf(u) \cap GlobalHolders) <= PerUser

\* The row and state cache of one configuration has one writer at a time.
OneWriter ==
    \A t \in Tasks : task[t] \in LockPCs => lock[t[2]] = t

\* A gauge is reported once, however it ended, and no later than its job.
ReportedOnce ==
    /\ \A t \in Tasks : reports[t] <= 1
    /\ \A t \in Tasks : task[t] \notin {"none", "queued"}
                          /\ phase[t[1]] = "done" => reports[t] = 1

\* A job whose gauges may still run can be found, and so cancelled.
RunningJobsListed ==
    \A j \in Jobs : phase[j] = "started" => j \in table

\* Every started job ends, whatever its tasks wait for and whoever is
\* cancelled meanwhile: the three gates never deadlock.
JobsFinish == \A j \in Jobs : phase[j] = "started" ~> phase[j] = "done"
=============================================================================
