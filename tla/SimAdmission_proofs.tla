------------------------ MODULE SimAdmission_proofs ------------------------
(***************************************************************************)
(* Proofs about SimAdmission, for any users, gauges, jobs and limits.  The *)
(* slots are counted against the tasks that hold them: one lemma (Recount) *)
(* says what a move of one task does to any such count, and every action   *)
(* is then a sum.                                                          *)
(***************************************************************************)
EXTENDS SimAdmission, FiniteSetTheorems, TLAPS

LEMMA TasksFinite ==
    IsFiniteSet(Tasks) /\ \A S \in SUBSET Tasks : IsFiniteSet(S)
  <1>1. IsFiniteSet(Jobs)
    BY SimAdmissionAssumption, FS_Interval DEF Jobs
  <1>2. IsFiniteSet(Tasks)
    BY <1>1, SimAdmissionAssumption, FS_Product DEF Tasks
  <1>3. QED
    BY <1>2, FS_Subset

\* 1 at a point of S, 0 elsewhere.
At(pc, S) == IF pc \in S THEN 1 ELSE 0

Among(f, A, S) == {x \in A : f[x] \in S}

\* A task t of A moves: the count of those of A whose pc is in S changes by
\* what t brings and takes away.
LEMMA Recount ==
    ASSUME task \in [Tasks -> TaskPCs], NEW t \in Tasks, NEW pc,
           Goto(t, pc), NEW S, NEW A \in SUBSET Tasks, t \in A
    PROVE  LET old == Among(task, A, S)
               new == Among(task', A, S)
           IN  /\ Cardinality(old) \in Nat /\ Cardinality(new) \in Nat
               /\ Cardinality(new) + At(task[t], S)
                    = Cardinality(old) + At(pc, S)
  <1> DEFINE old == Among(task, A, S)
             new == Among(task', A, S)
  <1>1. \A x \in Tasks : task'[x] = IF x = t THEN pc ELSE task[x]
    BY DEF Goto
  <1>2. IsFiniteSet(old) /\ IsFiniteSet(new)
    BY TasksFinite DEF Among
  <1>3. Cardinality(old) \in Nat /\ Cardinality(new) \in Nat
    BY <1>2, FS_CardinalityType
  <1>4. t \in old <=> task[t] \in S
    BY DEF Among
  <1>5. CASE pc \in S
    <2>1. new = old \cup {t}
      BY <1>1, <1>5 DEF Among
    <2>2. Cardinality(new) = IF t \in old THEN Cardinality(old)
                             ELSE Cardinality(old) + 1
      BY <1>2, <2>1, FS_AddElement
    <2>3. QED
      BY <1>4, <1>3, <1>5, <2>2 DEF At
  <1>6. CASE pc \notin S
    <2>1. new = old \ {t}
      BY <1>1, <1>6 DEF Among
    <2>2. Cardinality(new) = IF t \in old THEN Cardinality(old) - 1
                             ELSE Cardinality(old)
      BY <1>2, <2>1, FS_RemoveElement
    <2>3. QED
      BY <1>4, <1>3, <1>6, <2>2 DEF At
  <1>7. QED
    BY <1>5, <1>6

-----------------------------------------------------------------------------
(* The inductive invariant. *)

RepPCs == {"reported", "counted", "uncounted", "releasing", "done"}

\* Types: the upper bounds of the counters follow from the counts.
Base ==
    /\ table \in SUBSET Jobs
    /\ phase \in [Jobs -> Phases]
    /\ owner \in [Jobs -> Users \cup {Nobody}]
    /\ cancel \in SUBSET Jobs
    /\ todo \in [Jobs -> SUBSET Jobs]
    /\ task \in [Tasks -> TaskPCs]
    /\ slots \in [Users -> Nat]
    /\ free \in Nat /\ running \in Int
    /\ lock \in [Gauges -> Tasks \cup {NoTask}]
    /\ reports \in [Tasks -> Int]

\* A job nobody started has no tasks, one that is done has none left, and the
\* others have an owner.
Placed ==
    /\ \A t \in Tasks : task[t] # "none" => User(t) \in Users
    /\ \A t \in Tasks : phase[t[1]] = "none" => task[t] = "none"
    /\ \A t \in Tasks : phase[t[1]] = "done" => task[t] \in {"none", "done"}

LockHeld == \A t \in Tasks : task[t] \in LockPCs <=> lock[t[2]] = t

Counts == \A t \in Tasks : reports[t] = At(task[t], RepPCs)

Kept ==
    \A j \in Jobs : phase[j] \in {"sorting", "pruning", "started"}
                      => j \in table

Inv == Base /\ Placed /\ SlotsConserved /\ LockHeld /\ Counts /\ Kept

LEMMA HoldersFinite ==
    ASSUME Base
    PROVE  /\ \A u \in Users : Cardinality(SlotHolders(u)) \in Nat
           /\ Cardinality(GlobalHolders) \in Nat
           /\ Cardinality(CountedTasks) \in Nat
           /\ \A u : IsFiniteSet(SlotHolders(u))
           /\ IsFiniteSet(GlobalHolders) /\ IsFiniteSet(CountedTasks)
  BY TasksFinite, FS_CardinalityType
     DEF SlotHolders, TasksOf, GlobalHolders, CountedTasks

LEMMA Within ==
    ASSUME NEW a \in Nat, NEW b \in Nat, NEW c \in Nat, a + b = c
    PROVE  a \in 0..c
  OBVIOUS

\* The counters are in their ranges: those who run hold a slot.
LEMMA InvTyped == Inv => TypeOK
  <1> SUFFICES ASSUME Inv PROVE TypeOK
    OBVIOUS
  <1>1. CountedTasks \subseteq GlobalHolders
    BY DEF CountedTasks, GlobalHolders, GlobalPCs
  <1>2. /\ Cardinality(CountedTasks) <= Cardinality(GlobalHolders)
        /\ Cardinality(CountedTasks) \in Nat
        /\ Cardinality(GlobalHolders) \in Nat
        /\ \A u \in Users : Cardinality(SlotHolders(u)) \in Nat
    BY <1>1, HoldersFinite, FS_Subset DEF Inv
  <1>3. slots \in [Users -> 0..PerUser]
    <2>1. ASSUME NEW u \in Users PROVE slots[u] \in 0..PerUser
      <3>1. /\ slots[u] \in Nat
            /\ slots[u] + Cardinality(SlotHolders(u)) = PerUser
        BY DEF Inv, Base, SlotsConserved
      <3>2. PerUser \in Nat
        BY SimAdmissionAssumption
      <3>3. QED
        BY <1>2, <3>1, <3>2, Within
    <2>2. QED
      BY <2>1 DEF Inv, Base
  <1>4. free \in 0..Global /\ running \in 0..Global
    <2>1. /\ free \in Nat /\ free + Cardinality(GlobalHolders) = Global
          /\ running = Cardinality(CountedTasks)
      BY DEF Inv, Base, SlotsConserved
    <2>2. Global \in Nat
      BY SimAdmissionAssumption
    <2>3. free \in 0..Global
      BY <1>2, <2>1, <2>2, Within
    <2>4. running <= Global
      <3> DEFINE c == Cardinality(CountedTasks)
                 h == Cardinality(GlobalHolders)
      <3>1. /\ c \in Nat /\ h \in Nat /\ c <= h /\ h = Global - free
            /\ free \in Nat
        BY <1>2, <2>1, <2>2, <2>3
      <3> HIDE DEF c, h
      <3>2. c <= Global
        BY <3>1, <2>2
      <3>3. QED
        BY <2>1, <3>2 DEF c
    <2>5. QED
      BY <1>2, <2>1, <2>2, <2>3, <2>4
  <1>5. reports \in [Tasks -> Nat]
    BY DEF Inv, Base, Counts, At
  <1>6. QED
    BY <1>3, <1>4, <1>5 DEF Inv, Base, TypeOK

LEMMA InvImplies ==
    Inv => FairShare /\ OneWriter /\ ReportedOnce /\ RunningJobsListed
  <1> SUFFICES ASSUME Inv
               PROVE  FairShare /\ OneWriter /\ ReportedOnce
                        /\ RunningJobsListed
    OBVIOUS
  <1>1. FairShare
    <2>1. ASSUME NEW u \in Users
          PROVE  Cardinality(TasksOf(u) \cap GlobalHolders) <= PerUser
      <3>1. TasksOf(u) \cap GlobalHolders \subseteq SlotHolders(u)
        BY DEF TasksOf, GlobalHolders, SlotHolders, SlotPCs
      <3>2. /\ Cardinality(TasksOf(u) \cap GlobalHolders)
                 <= Cardinality(SlotHolders(u))
            /\ Cardinality(TasksOf(u) \cap GlobalHolders) \in Nat
        BY <3>1, HoldersFinite, FS_Subset, FS_CardinalityType DEF Inv
      <3>3. slots[u] \in 0..PerUser
        BY InvTyped DEF TypeOK
      <3>4. QED
        BY <3>2, <3>3, HoldersFinite, SimAdmissionAssumption
           DEF Inv, SlotsConserved
    <2>2. QED
      BY <2>1 DEF FairShare
  <1>2. OneWriter
    BY DEF Inv, LockHeld, OneWriter
  <1>3. ReportedOnce
    BY DEF Inv, Counts, Placed, ReportedOnce, At, RepPCs
  <1>4. RunningJobsListed
    BY DEF Inv, Kept, RunningJobsListed
  <1>5. QED
    BY <1>1, <1>2, <1>3, <1>4

LEMMA InitInv == Init => Inv
  <1> SUFFICES ASSUME Init PROVE Inv
    OBVIOUS
  <1>1. Base
    BY SimAdmissionAssumption DEF Init, Base, Phases, TaskPCs
  <1>2. Placed /\ LockHeld /\ Counts /\ Kept
    <2>1. \A t \in Tasks : t # NoTask
      BY SimAdmissionAssumption DEF Tasks, Jobs, NoTask
    <2>2. QED
      BY <2>1 DEF Init, Placed, LockHeld, Counts, Kept, At, RepPCs, LockPCs,
                  Tasks
  <1>3. SlotsConserved
    <2>1. /\ \A u \in Users : SlotHolders(u) = {}
          /\ GlobalHolders = {} /\ CountedTasks = {}
      BY DEF Init, SlotHolders, TasksOf, GlobalHolders, CountedTasks, SlotPCs,
             GlobalPCs, CountedPCs, LockPCs
    <2>2. QED
      BY <2>1, FS_EmptySet, SimAdmissionAssumption DEF Init, SlotsConserved
  <1>4. QED
    BY <1>1, <1>2, <1>3 DEF Inv

-----------------------------------------------------------------------------
(* The steps of a task. *)

\* Task t goes to pc and every gate pays or is paid for exactly what t has
\* taken or given back on the way.
Balance(t, pc) ==
    /\ Goto(t, pc) /\ UNCHANGED jobVars
    /\ task[t] \notin {"none", "done"} /\ pc \in TaskPCs \ {"none"}
    /\ slots' \in [Users -> Nat]
    /\ \A u \in Users :
          IF t \in TasksOf(u)
          THEN slots'[u] + At(pc, SlotPCs) = slots[u] + At(task[t], SlotPCs)
          ELSE slots'[u] = slots[u]
    /\ free' \in Nat
    /\ free' + At(pc, GlobalPCs) = free + At(task[t], GlobalPCs)
    /\ running' \in Int
    /\ running' + At(task[t], CountedPCs)
         = running + At(pc, CountedPCs)
    /\ lock' = [lock EXCEPT ![t[2]] = IF pc \in LockPCs THEN t
                                      ELSE IF task[t] \in LockPCs THEN NoTask
                                      ELSE @]
    /\ pc \in LockPCs => lock[t[2]] \in {t, NoTask}
    /\ reports' = [reports EXCEPT ![t] = @ + (At(pc, RepPCs)
                                                - At(task[t], RepPCs))]

LEMMA TaskShape ==
    ASSUME NEW t \in Tasks
    PROVE  t[1] \in Jobs /\ t[2] \in Gauges /\ t # NoTask
  BY SimAdmissionAssumption DEF Tasks, Jobs, NoTask

LEMMA Settled ==
    ASSUME NEW a \in Int, NEW b \in Int, NEW m \in Nat, NEW n \in Nat,
           NEW h \in Nat, NEW k \in Nat, NEW c,
           b + k = a + h, a + m = c, n + h = m + k
    PROVE  b + n = c
  OBVIOUS

\* A balanced step keeps the counts of all three gates.
LEMMA BalanceCounts ==
    ASSUME Inv, NEW t \in Tasks, NEW pc, Balance(t, pc)
    PROVE  SlotsConserved'
  <1>1. task \in [Tasks -> TaskPCs] /\ Goto(t, pc) /\ owner' = owner
    BY DEF Inv, Base, Balance, jobVars
  <1>2. ASSUME NEW u \in Users
        PROVE  slots'[u] + Cardinality(SlotHolders(u)') = PerUser
    <2> DEFINE new == Cardinality(SlotHolders(u)')
               old == Cardinality(SlotHolders(u))
               here == At(task[t], SlotPCs)
               there == At(pc, SlotPCs)
    <2>1. TasksOf(u) \in SUBSET Tasks /\ TasksOf(u)' = TasksOf(u)
      BY <1>1 DEF TasksOf, User
    <2>2. /\ SlotHolders(u) = Among(task, TasksOf(u), SlotPCs)
          /\ SlotHolders(u)' = Among(task', TasksOf(u), SlotPCs)
      BY <2>1 DEF SlotHolders, Among
    <2>3. /\ slots'[u] \in Nat /\ slots[u] \in Nat
          /\ slots[u] + old = PerUser
      BY DEF Inv, Base, Balance, SlotsConserved
    <2>4. CASE t \in TasksOf(u)
      <3>1. new \in Nat /\ old \in Nat /\ new + here = old + there
        BY <1>1, <2>1, <2>2, <2>4, Recount
      <3>2. slots'[u] + there = slots[u] + here
        BY <2>4 DEF Balance
      <3>3. here \in Nat /\ there \in Nat
        BY DEF At
      <3> HIDE DEF new, old, here, there
      <3>4. slots'[u] + new = PerUser
        BY <2>3, <3>1, <3>2, <3>3, Settled
      <3>5. QED
        BY <3>4 DEF new
    <2>5. CASE t \notin TasksOf(u)
      <3>1. \A x \in TasksOf(u) : task'[x] = task[x]
        BY <1>1, <2>1, <2>5 DEF Goto
      <3>2. SlotHolders(u)' = SlotHolders(u)
        BY <2>2, <3>1 DEF Among
      <3>3. QED
        BY <2>3, <2>5, <3>2 DEF Balance
    <2>6. QED
      BY <2>4, <2>5
  <1>3. free' + Cardinality(GlobalHolders') = Global
    <2> DEFINE new == Cardinality(GlobalHolders')
               old == Cardinality(GlobalHolders)
               here == At(task[t], GlobalPCs)
               there == At(pc, GlobalPCs)
    <2>1. new \in Nat /\ old \in Nat /\ new + here = old + there
      BY <1>1, Tasks \in SUBSET Tasks, Recount DEF GlobalHolders, Among
    <2>2. /\ free' \in Nat /\ free \in Nat /\ free' + there = free + here
          /\ free + old = Global
      BY DEF Inv, Base, Balance, SlotsConserved
    <2>3. here \in Nat /\ there \in Nat
      BY DEF At
    <2> HIDE DEF new, old, here, there
    <2>4. free' + new = Global
      <3>1. ASSUME NEW a \in Nat, NEW b \in Nat, b + there = a + here,
                   a + old = Global
            PROVE  b + new = Global
        BY <2>1, <2>3, <3>1, Settled
      <3>2. QED
        BY <2>2, <3>1
    <2>5. QED
      BY <2>4 DEF new
  <1>4. running' = Cardinality(CountedTasks')
    <2> DEFINE new == Cardinality(CountedTasks')
               old == Cardinality(CountedTasks)
               here == At(task[t], CountedPCs)
               there == At(pc, CountedPCs)
    <2>1. new \in Nat /\ old \in Nat /\ new + here = old + there
      BY <1>1, Tasks \in SUBSET Tasks, Recount DEF CountedTasks, Among
    <2>2. /\ running' \in Int /\ running \in Int
          /\ running' + here = running + there /\ running = old
      BY DEF Inv, Base, Balance, SlotsConserved
    <2>3. here \in Nat /\ there \in Nat
      BY DEF At
    <2> HIDE DEF new, old, here, there
    <2>4. running' = new
      <3>1. ASSUME NEW a \in Int, NEW b \in Int, a + here = b + there,
                   b = old
            PROVE  a = new
        BY <2>1, <2>3, <3>1
      <3>2. QED
        BY <2>2, <3>1
    <2>5. QED
      BY <2>4 DEF new
  <1>5. QED
    BY <1>2, <1>3, <1>4 DEF SlotsConserved

LEMMA BalanceKeeps ==
    ASSUME Inv, NEW t \in Tasks, NEW pc, Balance(t, pc)
    PROVE  Inv'
  <1>1. \A x \in Tasks : task'[x] = IF x = t THEN pc ELSE task[x]
    BY DEF Inv, Base, Balance, Goto
  <1>2. \A x \in Tasks :
           reports'[x] = IF x = t
                         THEN reports[x] + (At(pc, RepPCs)
                                              - At(task[t], RepPCs))
                         ELSE reports[x]
    BY DEF Inv, Base, Balance
  <1>3. At(pc, RepPCs) \in Int /\ At(task[t], RepPCs) \in Int
    BY DEF At
  <1>4. Base'
    <2>1. task' \in [Tasks -> TaskPCs]
      BY DEF Inv, Base, Balance, Goto
    <2>2. lock' \in [Gauges -> Tasks \cup {NoTask}]
      BY TaskShape DEF Inv, Base, Balance
    <2>3. reports' \in [Tasks -> Int]
      BY <1>3 DEF Inv, Base, Balance
    <2>4. QED
      BY <2>1, <2>2, <2>3 DEF Inv, Base, Balance, jobVars
  <1>5. Placed'
    <2>1. /\ User(t) \in Users /\ phase[t[1]] \notin {"none", "done"}
          /\ owner' = owner /\ phase' = phase
      BY DEF Inv, Placed, Balance, jobVars
    <2>2. QED
      BY <1>1, <2>1 DEF Inv, Placed, User
  <1>6. LockHeld'
    <2>1. \A x \in Tasks :
             lock'[x[2]] = IF x[2] # t[2] THEN lock[x[2]]
                           ELSE IF pc \in LockPCs THEN t
                           ELSE IF task[t] \in LockPCs THEN NoTask
                           ELSE lock[x[2]]
      BY TaskShape DEF Inv, Base, Balance
    <2>2. pc \in LockPCs => lock[t[2]] \in {t, NoTask}
      BY DEF Balance
    <2>3. \A x \in Tasks : x # NoTask
      BY TaskShape
    <2>4. QED
      BY <1>1, <2>1, <2>2, <2>3 DEF Inv, LockHeld
  <1>7. Counts'
    BY <1>1, <1>2 DEF Inv, Counts, At
  <1>8. Kept'
    BY DEF Inv, Kept, Balance, jobVars
  <1>9. QED
    BY <1>4, <1>5, <1>6, <1>7, <1>8, BalanceCounts DEF Inv

\* A gate that a task leaves alone is the gate with its own value put back.
LEMMA Same ==
    ASSUME Inv, NEW t \in Tasks
    PROVE  /\ lock = [lock EXCEPT ![t[2]] = lock[t[2]]]
           /\ \A d : d = 0 => reports = [reports EXCEPT ![t] = @ + d]
           /\ lock[t[2]] = t <=> task[t] \in LockPCs
           /\ task[t] # "none" => User(t) \in Users
           /\ task[t] \in CountedPCs => running > 0
  <1>1. CASE task[t] \in CountedPCs
    <2>1. t \in CountedTasks
      BY <1>1 DEF CountedTasks
    <2>2. Cardinality(CountedTasks) # 0
      BY <2>1, HoldersFinite, FS_EmptySet DEF Inv
    <2>3. QED
      BY <1>1, <2>2, HoldersFinite, TaskShape
         DEF Inv, Base, SlotsConserved, LockHeld, Placed
  <1>2. CASE task[t] \notin CountedPCs
    BY <1>2, TaskShape DEF Inv, Base, LockHeld, Placed
  <1>3. QED
    BY <1>1, <1>2

LEMMA Balanced ==
    ASSUME Inv, NEW t \in Tasks, Admit(t) \/ Run(t)
    PROVE  \E pc : Balance(t, pc)
  <1> USE DEF Balance, At, TasksOf, TaskPCs, SlotPCs, GlobalPCs, CountedPCs,
              LockPCs, RepPCs, Report, gateVars
  <1>1. ASSUME Take(t) PROVE \E pc : Balance(t, pc)
    <2>1. Balance(t, IF Cancelled(t) THEN "stopped" ELSE "user")
      BY <1>1, Same, TaskShape DEF Take, Inv, Base
    <2>2. QED
      BY <2>1
  <1>2. ASSUME AcquireUser(t) PROVE \E pc : Balance(t, pc)
    <2>1. Balance(t, "global")
      BY <1>2, Same, TaskShape DEF AcquireUser, Inv, Base
    <2>2. QED
      BY <2>1
  <1>3. ASSUME AcquireGlobal(t) PROVE \E pc : Balance(t, pc)
    <2>1. Balance(t, "admitting")
      BY <1>3, Same, TaskShape DEF AcquireGlobal, Inv, Base
    <2>2. QED
      BY <2>1
  <1>4. ASSUME Count(t) PROVE \E pc : Balance(t, pc)
    <2>1. Balance(t, "running")
      BY <1>4, Same, TaskShape DEF Count, Inv, Base
    <2>2. QED
      BY <2>1
  <1>5. ASSUME GiveUp(t) PROVE \E pc : Balance(t, pc)
    <2>1. Balance(t, "stopped")
      BY <1>5, Same, TaskShape DEF GiveUp, Inv, Base
    <2>2. QED
      BY <2>1
  <1>6. ASSUME Stopped(t) PROVE \E pc : Balance(t, pc)
    <2>1. Balance(t, "done")
      BY <1>6, Same, TaskShape DEF Stopped, Inv, Base
    <2>2. QED
      BY <2>1
  <1>7. ASSUME RunRefused(t) PROVE \E pc : Balance(t, pc)
    <2>1. Balance(t, "counted")
      BY <1>7, Same, TaskShape DEF RunRefused, Inv, Base
    <2>2. QED
      BY <2>1
  <1>8. ASSUME RunWaits(t) PROVE \E pc : Balance(t, pc)
    <2>1. Balance(t, "waiting")
      BY <1>8, Same, TaskShape DEF RunWaits, Inv, Base
    <2>2. QED
      BY <2>1
  <1>9. ASSUME RunLock(t) PROVE \E pc : Balance(t, pc)
    <2>1. Balance(t, "locked")
      BY <1>9, Same, TaskShape DEF RunLock, Inv, Base
    <2>2. QED
      BY <2>1
  <1>10. ASSUME RunStopped(t) PROVE \E pc : Balance(t, pc)
    <2>1. Balance(t, "counted")
      BY <1>10, Same, TaskShape DEF RunStopped, Inv, Base
    <2>2. QED
      BY <2>1
  <1>11. ASSUME RunEnds(t) PROVE \E pc : Balance(t, pc)
    <2>1. Balance(t, "reported")
      BY <1>11, Same, TaskShape DEF RunEnds, Inv, Base
    <2>2. QED
      BY <2>1
  <1>12. ASSUME RunRaises(t) PROVE \E pc : Balance(t, pc)
    <2>1. Balance(t, "failed")
      BY <1>12, Same, TaskShape DEF RunRaises, Inv, Base
    <2>2. QED
      BY <2>1
  <1>13. ASSUME RunFailed(t) PROVE \E pc : Balance(t, pc)
    <2>1. Balance(t, "counted")
      BY <1>13, Same, TaskShape DEF RunFailed, Inv, Base
    <2>2. QED
      BY <2>1
  <1>14. ASSUME Unlock(t) PROVE \E pc : Balance(t, pc)
    <2>1. Balance(t, "counted")
      BY <1>14, Same, TaskShape DEF Unlock, Inv, Base
    <2>2. QED
      BY <2>1
  <1>15. ASSUME Release(t) PROVE \E pc : Balance(t, pc)
    <2>1. CASE Uncount(t)
      <3>1. Balance(t, "uncounted")
        BY <1>15, <2>1, Same, TaskShape DEF Release, Uncount, Inv, Base
      <3>2. QED
        BY <3>1
    <2>2. CASE task[t] = "uncounted"
      <3>1. Balance(t, "releasing")
        BY <1>15, <2>2, Same, TaskShape DEF Release, Uncount, Inv, Base
      <3>2. QED
        BY <3>1
    <2>3. CASE task[t] = "releasing"
      <3>1. Balance(t, "done")
        BY <1>15, <2>3, Same, TaskShape DEF Release, Uncount, Inv, Base
      <3>2. QED
        BY <3>1
    <2>4. QED
      BY <1>15, <2>1, <2>2, <2>3 DEF Release
  <1>16. QED
    BY <1>1, <1>2, <1>3, <1>4, <1>5, <1>6, <1>7, <1>8, <1>9, <1>10, <1>11,
       <1>12, <1>13, <1>14, <1>15 DEF Admit, Run

-----------------------------------------------------------------------------
(* The steps of a job. *)

\* A step of a job that moves no task keeps the invariant when what it does to
\* the table and the phases keeps the parts about them.
LEMMA JobStep ==
    ASSUME Inv, UNCHANGED <<owner, task, gateVars, reports>>,
           table' \in SUBSET Jobs, phase' \in [Jobs -> Phases],
           cancel' \in SUBSET Jobs, todo' \in [Jobs -> SUBSET Jobs],
           Kept', Placed'
    PROVE  Inv'
  <1>1. Base'
    BY DEF Inv, Base, gateVars
  <1>2. SlotsConserved'
    <2>1. /\ \A u \in Users : SlotHolders(u)' = SlotHolders(u)
          /\ GlobalHolders' = GlobalHolders /\ CountedTasks' = CountedTasks
      BY DEF SlotHolders, TasksOf, User, GlobalHolders, CountedTasks
    <2>2. QED
      BY <2>1 DEF Inv, SlotsConserved, gateVars
  <1>3. LockHeld' /\ Counts'
    BY DEF Inv, LockHeld, Counts, gateVars
  <1>4. QED
    BY <1>1, <1>2, <1>3 DEF Inv

LEMMA SubmitInv ==
    ASSUME Inv, NEW j \in Jobs, NEW u \in Users, NEW gs \in SUBSET Gauges,
           NEW prev \in SUBSET table, Submit(j, u, gs, prev)
    PROVE  Inv'
  <1>1. \A t \in Tasks :
           task'[t] = IF t[1] = j /\ t[2] \in gs THEN "queued" ELSE task[t]
    BY DEF Submit
  <1>2. \A t \in Tasks : t[1] = j => task[t] = "none"
    BY DEF Submit, Inv, Placed
  <1>3. /\ phase[j] = "none" /\ phase'[j] \in {"sorting", "started"}
        /\ \A i \in Jobs : i # j => phase'[i] = phase[i]
        /\ phase' \in [Jobs -> Phases]
    BY DEF Submit, Inv, Base, Phases
  <1>4. /\ owner'[j] = u /\ \A i \in Jobs : i # j => owner'[i] = owner[i]
        /\ owner' \in [Jobs -> Users \cup {Nobody}]
    BY DEF Submit, Inv, Base
  <1>5. Base'
    <2>1. table' \in SUBSET Jobs /\ todo' \in [Jobs -> SUBSET Jobs]
      BY DEF Submit, Inv, Base
    <2>2. cancel' \in SUBSET Jobs
      BY DEF Submit, Inv, Base
    <2>3. task' \in [Tasks -> TaskPCs]
      BY DEF Submit, Inv, Base, TaskPCs
    <2>4. UNCHANGED <<slots, free, running, lock, reports>>
      BY DEF Submit, gateVars
    <2>5. QED
      BY <1>3, <1>4, <2>1, <2>2, <2>3, <2>4 DEF Inv, Base
  <1>6. Placed'
    BY <1>1, <1>2, <1>3, <1>4, TaskShape DEF Inv, Placed, User
  <1>7. SlotsConserved'
    <2>1. \A t \in Tasks :
             \/ task'[t] = task[t] /\ t[1] # j
             \/ task'[t] \in {"none", "queued"} /\ task[t] = "none"
      BY <1>1, <1>2
    <2>2. ASSUME NEW v \in Users PROVE SlotHolders(v)' = SlotHolders(v)
      BY <1>4, <2>1, TaskShape
         DEF SlotHolders, TasksOf, User, SlotPCs, GlobalPCs, CountedPCs,
             LockPCs
    <2>3. GlobalHolders' = GlobalHolders /\ CountedTasks' = CountedTasks
      BY <2>1 DEF GlobalHolders, CountedTasks, GlobalPCs, CountedPCs, LockPCs
    <2>4. QED
      BY <2>2, <2>3 DEF Submit, Inv, SlotsConserved, gateVars
  <1>8. LockHeld' /\ Counts'
    BY <1>1, <1>2 DEF Submit, Inv, LockHeld, Counts, gateVars, At, LockPCs,
                      RepPCs
  <1>9. Kept'
    BY <1>3 DEF Submit, Inv, Kept
  <1>10. QED
    BY <1>5, <1>6, <1>7, <1>8, <1>9 DEF Inv

LEMMA JobInv ==
    ASSUME Inv, NEW j \in Jobs, Start(j) \/ Cancel(j) \/ AllDone(j)
    PROVE  Inv'
  <1>1. CASE Sort(j)
    <2>1. /\ phase' \in [Jobs -> Phases] /\ phase[j] = "sorting"
          /\ phase'[j] \in {"pruning", "lost"}
          /\ \A i \in Jobs : i # j => phase'[i] = phase[i]
      BY <1>1 DEF Sort, Inv, Base, Phases
    <2>2. Kept' /\ Placed'
      BY <1>1, <2>1, TaskShape DEF Sort, Inv, Kept, Placed, User
    <2>3. QED
      BY <1>1, <2>1, <2>2, JobStep DEF Sort, Inv, Base
  <1>2. CASE Prune(j)
    <2>1. /\ phase' \in [Jobs -> Phases] /\ phase[j] = "pruning"
          /\ phase'[j] \in {"pruning", "started", "lost"}
          /\ \A i \in Jobs : i # j => phase'[i] = phase[i]
          /\ todo' \in [Jobs -> SUBSET Jobs]
      BY <1>2 DEF Prune, Inv, Base, Phases
    <2>2. /\ table' \in SUBSET table
          /\ \A i \in table \ table' : phase[i] = "done"
      BY <1>2 DEF Prune, Prunable
    <2>3. Kept'
      BY <2>1, <2>2 DEF Inv, Kept
    <2>4. Placed'
      BY <1>2, <2>1, TaskShape DEF Prune, Inv, Placed, User
    <2>5. QED
      BY <1>2, <2>1, <2>2, <2>3, <2>4, JobStep DEF Prune, Inv, Base
  <1>3. CASE Cancel(j)
    <2>1. Kept' /\ Placed'
      BY <1>3 DEF Cancel, Inv, Kept, Placed, User
    <2>2. QED
      BY <1>3, <2>1, JobStep DEF Cancel, Inv, Base
  <1>4. CASE AllDone(j)
    <2>1. /\ phase' \in [Jobs -> Phases] /\ phase[j] = "started"
          /\ phase'[j] = "done"
          /\ \A i \in Jobs : i # j => phase'[i] = phase[i]
      BY <1>4 DEF AllDone, Inv, Base, Phases
    <2>2. \A t \in Tasks : t[1] = j => task[t] \in {"none", "done"}
      BY <1>4 DEF AllDone, Tasks
    <2>3. Kept' /\ Placed'
      BY <1>4, <2>1, <2>2, TaskShape DEF AllDone, Inv, Kept, Placed, User
    <2>4. QED
      BY <1>4, <2>1, <2>3, JobStep DEF AllDone, Inv, Base
  <1>5. QED
    BY <1>1, <1>2, <1>3, <1>4 DEF Start

LEMMA NextInv == Inv /\ [Next]_vars => Inv'
  <1> SUFFICES ASSUME Inv, [Next]_vars PROVE Inv'
    OBVIOUS
  <1>1. ASSUME NEW j \in Jobs, NEW u \in Users, NEW gs \in SUBSET Gauges,
               NEW prev \in SUBSET table, Submit(j, u, gs, prev)
        PROVE  Inv'
    BY <1>1, SubmitInv
  <1>2. ASSUME NEW j \in Jobs, Start(j) \/ Cancel(j) \/ AllDone(j)
        PROVE  Inv'
    BY <1>2, JobInv
  <1>3. ASSUME NEW t \in Tasks, Admit(t) \/ Run(t)
        PROVE  Inv'
    BY <1>3, Balanced, BalanceKeeps
  <1>4. CASE UNCHANGED vars
    <2>1. Kept' /\ Placed'
      BY <1>4 DEF vars, jobVars, gateVars, Inv, Kept, Placed, User
    <2>2. QED
      BY <1>4, <2>1, JobStep DEF vars, jobVars, gateVars, Inv, Base
  <1>5. QED
    BY <1>1, <1>2, <1>3, <1>4 DEF Next

\* Every reachable state satisfies the inductive invariant.
LEMMA Invariance == Spec => []Inv
  BY InitInv, NextInv, PTL DEF Spec

-----------------------------------------------------------------------------

\* The variables keep their types: no counter of simjobs.py leaves its range,
\* however requests, cancels and errors interleave.
THEOREM TypeCorrect == Spec => []TypeOK
  BY Invariance, InvTyped, PTL

\* admit and release: no slot is lost, none is given back twice.
THEOREM SlotsNeverLeak == Spec => []SlotsConserved
  <1>1. Inv => SlotsConserved
    BY DEF Inv
  <1>2. QED
    BY <1>1, Invariance, PTL

\* The order of the two semaphores in admit and in release keeps every user
\* to PER_USER_CONCURRENT slots of the server.
THEOREM FairlyShared == Spec => []FairShare
  BY Invariance, InvImplies, PTL

\* run_gauge's lock: one writer of a configuration's row and caches.
THEOREM OneWriterAtATime == Spec => []OneWriter
  BY Invariance, InvImplies, PTL

\* _run_one: every way out of a gauge reports it once.
THEOREM EachReportedOnce == Spec => []ReportedOnce
  BY Invariance, InvImplies, PTL

\* start_job's prune removes no job that runs.
THEOREM RunningListed == Spec => []RunningJobsListed
  BY Invariance, InvImplies, PTL
=============================================================================
