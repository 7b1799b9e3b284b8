-------------------------- MODULE EventQueue_proofs --------------------------
(* Proofs about the event job queue, for every number of events, workers,    *)
(* enqueues, faults and restarts.                                            *)
EXTENDS EventQueue, TLAPS

\* The queue never holds anything but the last job enqueued.
SpecIsNewest == \A e \in Events : spec[e] \in {0, newest[e]}

\* A worker that is not idle works on a real job of a real event.
WorkerHasJob ==
    \A w \in Workers : worker[w].pc # "idle" =>
        worker[w].ev \in Events /\ worker[w].queued \in Stamps

\* A worker past its publish has published; one about to consume consumes the
\* newest job, or a newer one landed behind its back.
ConsumerKnows ==
    \A w \in Workers :
        /\ worker[w].pc = "published" => worker[w].queued \in published
        /\ worker[w].pc = "settling" /\ worker[w].takes
             => worker[w].queued \in published
        /\ worker[w].pc \in {"settling", "reporting"} /\ worker[w].takes
             => newest[worker[w].ev] \in {worker[w].queued} \cup raced

\* What the runner is about to sweep is past its age limit.
SweepsOld ==
    runner.pc = "judged" =>
        \A x \in Events : /\ x # runner.ev /\ spec[x] # 0
                          /\ <<"spec", x>> \in runner.del
                          => age[x] = 2

\* The runner inside run_one has an event, and a stamp once it has listed.
RunnerHasJob ==
    /\ runner.pc # "idle" => runner.ev \in Events
    /\ runner.pc \in {"listed", "judged"} => runner.stamp \in Stamps

Typed == TypeOK /\ WorkerHasJob /\ RunnerHasJob
Kept  == SpecIsNewest /\ ConsumerKnows /\ SweepsOld /\ Accounted
Inv   == Typed /\ Kept

-----------------------------------------------------------------------------
LEMMA InitInv == Init => Inv
  <1> SUFFICES ASSUME Init PROVE Inv
    OBVIOUS
  <1>1. TypeOK
    BY EventQueueAssumption
       DEF Init, TypeOK, NoClaim, IdleRunner, IdleWorker, Stamps,
           WorkerPCs, ClaimState, RunnerState, WorkerState, Sessions
  <1>2. WorkerHasJob /\ RunnerHasJob
    BY DEF Init, WorkerHasJob, RunnerHasJob, IdleRunner, IdleWorker
  <1>3. SpecIsNewest /\ ConsumerKnows /\ SweepsOld /\ Accounted
    BY DEF Init, SpecIsNewest, ConsumerKnows, SweepsOld, Accounted,
           IdleRunner, IdleWorker
  <1>4. QED
    BY <1>1, <1>2, <1>3 DEF Inv, Typed, Kept

-----------------------------------------------------------------------------
(* What the helpers of the actions do to one variable each. *)

LEMMA GotoTyped ==
    ASSUME Typed, NEW w \in Workers, worker[w].pc # "idle",
           NEW pc \in WorkerPCs, Goto(w, pc)
    PROVE  worker' \in [Workers -> WorkerState] /\ WorkerHasJob'
  <1>1. worker' = [worker EXCEPT ![w] = [worker[w] EXCEPT !.pc = pc]]
    BY DEF Goto
  <1>2. [worker[w] EXCEPT !.pc = pc] \in WorkerState
    BY DEF Typed, TypeOK, WorkerState
  <1>3. worker' \in [Workers -> WorkerState]
    BY <1>1, <1>2 DEF Typed, TypeOK
  <1>4. WorkerHasJob'
    BY <1>1 DEF Typed, TypeOK, WorkerState, WorkerHasJob, Stamps
  <1>5. QED
    BY <1>3, <1>4

LEMMA ReleaseTyped ==
    ASSUME Typed, NEW w \in Workers, Release(w)
    PROVE  worker' \in [Workers -> WorkerState] /\ WorkerHasJob'
  <1>1. IdleWorker \in WorkerState
    BY EventQueueAssumption DEF IdleWorker, WorkerState, WorkerPCs
  <1>2. worker' \in [Workers -> WorkerState]
    BY <1>1 DEF Typed, TypeOK, Release
  <1>3. WorkerHasJob'
    BY DEF Typed, TypeOK, Release, WorkerHasJob, IdleWorker, Stamps
  <1>4. QED
    BY <1>2, <1>3

LEMMA FinishedTyped ==
    ASSUME Typed, NEW w \in Workers, worker[w].pc # "idle", Finished(w)
    PROVE  done' \in [Workers -> SUBSET Stamps]
  BY DEF Typed, TypeOK, Finished, WorkerHasJob

LEMMA DropTyped ==
    ASSUME Typed, NEW w \in Workers, NEW e \in Events, Drop(w, e)
    PROVE  sess' \in [Workers -> Sessions]
  BY DEF Typed, TypeOK, Drop, Sessions

LEMMA CommitClaimTyped ==
    ASSUME Typed, NEW w \in Workers, NEW e \in Events, CommitClaim(w, e)
    PROVE  claim' \in [Events -> ClaimState]
  BY DEF Typed, TypeOK, CommitClaim, ClaimState

LEMMA NoClaimTyped == NoClaim \in ClaimState
  BY DEF NoClaim, ClaimState

LEMMA FaultTyped ==
    ASSUME Typed, Fault \/ NoFault PROVE faults' \in 0..MaxFaults
  BY EventQueueAssumption DEF Typed, TypeOK, Fault, NoFault

LEMMA IdleRunnerTyped ==
    /\ IdleRunner \in RunnerState
    /\ IdleRunner.pc = "idle"
  BY EventQueueAssumption DEF IdleRunner, RunnerState

-----------------------------------------------------------------------------
LEMMA RunnerTyped == ASSUME Typed, RunnerStep PROVE Typed'
  <1>1. ASSUME NEW e \in Events, RunOne(e) PROVE Typed'
    <2>1. runner' \in RunnerState /\ RunnerHasJob'
      BY <1>1, IdleRunnerTyped DEF RunOne, RunnerHasJob, RunnerState
    <2>2. QED
      BY <1>1, <2>1, FaultTyped
         DEF RunOne, Typed, TypeOK, WorkerHasJob, queueVars, histVars
  <1>2. ASSUME EnqueueList PROVE Typed'
    <2>1. Present \subseteq Files
      BY DEF Present, Files, Typed, TypeOK
    <2>2. clock' \in Stamps /\ clock' \in 0..MaxStamp
      BY <1>2, EventQueueAssumption DEF EnqueueList, Typed, TypeOK, Stamps
    <2>3. PICK seen \in {Present, {}} :
             runner' = [runner EXCEPT !.pc = "listed", !.stamp = clock',
                                      !.listed = seen]
      BY <1>2 DEF EnqueueList
    <2>4. runner' \in RunnerState /\ RunnerHasJob'
      BY <1>2, <2>1, <2>2, <2>3
         DEF EnqueueList, Typed, TypeOK, RunnerHasJob, RunnerState
    <2>5. Fault \/ NoFault
      BY <1>2 DEF EnqueueList
    <2>6. QED
      BY <1>2, <2>2, <2>4, <2>5, FaultTyped
         DEF EnqueueList, Typed, TypeOK, WorkerHasJob, queueVars, histVars
  <1>3. ASSUME EnqueueJudge PROVE Typed'
    <2>1. Doomed(runner.ev, runner.listed, TRUE) \subseteq Files
          /\ Doomed(runner.ev, runner.listed, FALSE) \subseteq Files
      BY DEF Doomed, Typed, TypeOK, RunnerState
    <2>2. runner' \in RunnerState /\ RunnerHasJob'
      BY <1>3, <2>1, IdleRunnerTyped
         DEF EnqueueJudge, Typed, TypeOK, RunnerHasJob, RunnerState
    <2>3. Fault \/ NoFault
      BY <1>3 DEF EnqueueJudge
    <2>4. QED
      BY <1>3, <2>2, <2>3, FaultTyped
         DEF EnqueueJudge, Typed, TypeOK, WorkerHasJob, queueVars, histVars
  <1>4. ASSUME EnqueueCommit PROVE Typed'
    <2> DEFINE gone == {x \in Events : <<"spec", x>> \in runner.del}
    <2>1. runner' \in RunnerState /\ RunnerHasJob'
      BY <1>4, IdleRunnerTyped DEF EnqueueCommit, RunnerHasJob
    <2>2. faults' \in 0..MaxFaults
      BY <1>4, FaultTyped DEF EnqueueCommit
    <2>3. runner.ev \in Events /\ runner.stamp \in Stamps
          /\ runner.stamp \in 0..MaxStamp
      BY <1>4 DEF EnqueueCommit, Typed, RunnerHasJob, TypeOK, RunnerState
    <2>4. CASE /\ Lands(runner.del)
               /\ spec' = [x \in Events |->
                             IF x = runner.ev THEN runner.stamp
                             ELSE IF x \in gone THEN 0 ELSE spec[x]]
               /\ claim' = [x \in Events |->
                              IF <<"claim", x>> \in runner.del
                              THEN NoClaim ELSE claim[x]]
               /\ failed' = {x \in failed : <<"failed", x>> \notin runner.del}
               /\ age' = [age EXCEPT ![runner.ev] = IF @ = 2 THEN 1 ELSE @]
               /\ newest' = [newest EXCEPT ![runner.ev] = runner.stamp]
               /\ swept' = swept \cup {spec[x] : x \in gone}
               /\ raced' = raced \cup (IF ConsumePending(runner.ev)
                                       THEN {runner.stamp} ELSE {})
               /\ UNCHANGED <<published, reported>>
      <3>1. \A x \in gone : spec[x] \in Stamps
        BY <2>4, EventQueueAssumption
           DEF Lands, Present, Typed, TypeOK, Stamps
      <3>2. spec' \in [Events -> 0..MaxStamp]
        BY <2>3, <2>4, EventQueueAssumption DEF Typed, TypeOK
      <3>3. claim' \in [Events -> ClaimState]
        BY <2>4, NoClaimTyped DEF Typed, TypeOK
      <3>4. age' \in [Events -> 0..2] /\ newest' \in [Events -> 0..MaxStamp]
        BY <2>3, <2>4 DEF Typed, TypeOK
      <3>5. swept' \subseteq Stamps /\ raced' \subseteq Stamps
        BY <2>3, <2>4, <3>1 DEF Typed, TypeOK
      <3>6. QED
        BY <1>4, <2>1, <2>2, <2>4, <3>2, <3>3, <3>4, <3>5
           DEF EnqueueCommit, Typed, TypeOK, WorkerHasJob
    <2>5. CASE UNCHANGED <<queueVars, histVars>>
      BY <1>4, <2>1, <2>2, <2>5
         DEF EnqueueCommit, Typed, TypeOK, WorkerHasJob, queueVars, histVars
    <2>6. QED
      BY <1>4, <2>4, <2>5 DEF EnqueueCommit
  <1>5. ASSUME GiveUp PROVE Typed'
    BY <1>5, IdleRunnerTyped
       DEF GiveUp, Typed, TypeOK, RunnerHasJob, WorkerHasJob, queueVars,
           histVars
  <1>6. QED
    BY <1>1, <1>2, <1>3, <1>4, <1>5 DEF RunnerStep

LEMMA ConsumeTyped ==
    ASSUME Typed, NEW w \in Workers, worker[w].pc # "idle", ConsumeCommit(w)
    PROVE  /\ spec' \in [Events -> 0..MaxStamp]
           /\ claim' \in [Events -> ClaimState]
           /\ failed' \subseteq Events
           /\ reported' \subseteq Stamps
           /\ faults' \in 0..MaxFaults
  <1>1. worker[w].ev \in Events /\ worker[w].queued \in Stamps
    BY DEF Typed, WorkerHasJob
  <1>2. faults' \in 0..MaxFaults
    BY FaultTyped DEF ConsumeCommit
  <1>3. QED
    BY <1>1, <1>2, NoClaimTyped, EventQueueAssumption
       DEF ConsumeCommit, Typed, TypeOK

LEMMA WorkerTyped ==
    ASSUME Typed, NEW w \in Workers, WorkerStep(w) PROVE Typed'
  <1>1. CASE Pick(w)
    <2>1. PICK keep \in SUBSET Resident(w), claimRead \in BOOLEAN,
               e \in Events :
             /\ IF claimRead THEN NoFault ELSE Fault
             /\ e \in Candidates(w, claimRead)
             /\ sess' = [sess EXCEPT ![w] =
                  [x \in Events |-> IF x \in keep THEN @[x] ELSE "none"]]
             /\ worker' = [worker EXCEPT ![w] =
                  [pc |-> IF w \in Publishers THEN "picked" ELSE "begin",
                   ev |-> e, queued |-> spec[e], takes |-> FALSE]]
      BY <1>1 DEF Pick
    <2> DEFINE new == [pc |-> IF w \in Publishers THEN "picked" ELSE "begin",
                       ev |-> e, queued |-> spec[e], takes |-> FALSE]
    <2>2. spec[e] \in Stamps
      BY <2>1, EventQueueAssumption DEF Candidates, Typed, TypeOK, Stamps
    <2>3. new \in WorkerState /\ new.ev \in Events /\ new.queued \in Stamps
      BY <2>2 DEF WorkerState, WorkerPCs, Typed, TypeOK
    <2>4. worker' = [worker EXCEPT ![w] = new]
      BY <2>1
    <2> HIDE DEF new
    <2>5. worker' \in [Workers -> WorkerState] /\ WorkerHasJob'
      BY <2>3, <2>4 DEF Typed, TypeOK, WorkerHasJob, Stamps
    <2>6. sess' \in [Workers -> Sessions]
      BY <2>1 DEF Typed, TypeOK, Sessions
    <2>7. faults' \in 0..MaxFaults
      BY <2>1, FaultTyped
    <2>8. QED
      BY <1>1, <2>5, <2>6, <2>7
         DEF Pick, Typed, TypeOK, RunnerHasJob, queueVars, histVars
  <1>2. CASE Claim(w)
    <2>1. worker[w].pc # "idle" /\ worker[w].ev \in Events
      BY <1>2 DEF Claim, Typed, WorkerHasJob
    <2>2. claim' \in [Events -> ClaimState]
      BY <1>2, <2>1, CommitClaimTyped DEF Claim, Typed, TypeOK
    <2>3. worker' \in [Workers -> WorkerState] /\ WorkerHasJob'
      BY <1>2, <2>1, GotoTyped, ReleaseTyped DEF Claim, WorkerPCs
    <2>4. QED
      BY <1>2, <2>2, <2>3, FaultTyped
         DEF Claim, Typed, TypeOK, RunnerHasJob, histVars
  <1>3. CASE Recheck(w)
    <2>1. worker' \in [Workers -> WorkerState] /\ WorkerHasJob'
      BY <1>3, GotoTyped, ReleaseTyped DEF Recheck, WorkerPCs
    <2>2. QED
      BY <1>3, <2>1, FaultTyped
         DEF Recheck, Typed, TypeOK, RunnerHasJob, queueVars, histVars
  <1>4. CASE Begin(w)
    <2>1. worker[w].ev \in Events
      BY <1>4 DEF Begin, Typed, WorkerHasJob
    <2>2. worker' \in [Workers -> WorkerState] /\ WorkerHasJob'
      BY <1>4, GotoTyped DEF Begin, WorkerPCs
    <2>3. sess' \in [Workers -> Sessions]
      BY SMTT(30), <1>4, <2>1 DEF Begin, Typed, TypeOK, Sessions
    <2>4. faults' \in 0..MaxFaults
      BY <1>4, FaultTyped DEF Begin
    <2>5. QED
      BY <1>4, <2>2, <2>3, <2>4
         DEF Begin, Typed, TypeOK, RunnerHasJob, queueVars, histVars
  <1>5. CASE Publish(w)
    <2>1. worker[w].queued \in Stamps
      BY <1>5 DEF Publish, Typed, WorkerHasJob
    <2>2. worker' \in [Workers -> WorkerState] /\ WorkerHasJob'
      BY <1>5, GotoTyped DEF Publish, WorkerPCs
    <2>3. QED
      BY <1>5, <2>1, <2>2, FaultTyped
         DEF Publish, Typed, TypeOK, RunnerHasJob, queueVars
  <1>6. CASE FinishShadow(w)
    BY <1>6, FinishedTyped, ReleaseTyped
       DEF FinishShadow, Typed, TypeOK, RunnerHasJob, queueVars, histVars
  <1>7. CASE ReadBack(w)
    <2> DEFINE takes(r) == r /\ spec[worker[w].ev] = worker[w].queued
                             /\ worker[w].pc # "unpublished"
    <2>1. PICK r \in BOOLEAN :
             worker' = [worker EXCEPT ![w] =
                          [worker[w] EXCEPT !.pc = AfterLook(w),
                                           !.takes = takes(r)]]
      BY <1>7 DEF ReadBack
    <2>2. AfterLook(w) \in WorkerPCs /\ takes(r) \in BOOLEAN
      BY DEF AfterLook, WorkerPCs
    <2> HIDE DEF takes
    <2>3. [worker[w] EXCEPT !.pc = AfterLook(w), !.takes = takes(r)]
            \in WorkerState
      BY <2>2 DEF Typed, TypeOK, WorkerState
    <2>4. worker' \in [Workers -> WorkerState]
      BY <2>1, <2>3 DEF Typed, TypeOK
    <2>5. WorkerHasJob'
      BY <1>7, <2>1 DEF ReadBack, Typed, TypeOK, WorkerState, WorkerHasJob,
                        Stamps
    <2>6. faults' \in 0..MaxFaults
      BY <1>7, FaultTyped DEF ReadBack
    <2>7. QED
      BY <1>7, <2>4, <2>5, <2>6
         DEF ReadBack, Typed, TypeOK, RunnerHasJob, queueVars, histVars
  <1>8. CASE Settle(w)
    BY <1>8, ConsumeTyped, FinishedTyped, ReleaseTyped
       DEF Settle, Typed, TypeOK, RunnerHasJob
  <1>9. CASE Report(w)
    <2>1. worker[w].pc # "idle" /\ worker[w].ev \in Events
      BY <1>9 DEF Report, Typed, WorkerHasJob
    <2>2. QED
      BY <1>9, <2>1, ConsumeTyped, FinishedTyped, ReleaseTyped, DropTyped
         DEF Report, Typed, TypeOK, RunnerHasJob
  <1>10. CASE FailShadow(w)
    <2>1. worker[w].pc # "idle" /\ worker[w].ev \in Events
      BY <1>10 DEF FailShadow, Typed, WorkerHasJob
    <2>2. QED
      BY <1>10, <2>1, FinishedTyped, ReleaseTyped, DropTyped
         DEF FailShadow, Typed, TypeOK, RunnerHasJob, queueVars, histVars
  <1>11. QED
    BY <1>1, <1>2, <1>3, <1>4, <1>5, <1>6, <1>7, <1>8, <1>9, <1>10
       DEF WorkerStep, Solved, LookBack

LEMMA TroubleTyped ==
    ASSUME Typed, NEW w \in Workers, Heartbeat(w) \/ Trouble(w) PROVE Typed'
  <1>1. CASE Heartbeat(w)
    <2>1. worker[w].ev \in Events
      BY <1>1 DEF Heartbeat, Typed, WorkerHasJob
    <2>2. QED
      BY <1>1, <2>1, CommitClaimTyped
         DEF Heartbeat, Typed, TypeOK, WorkerHasJob, RunnerHasJob, localVars,
             histVars
  <1>2. CASE ChunkFails(w)
    BY <1>2, GotoTyped, FaultTyped
       DEF ChunkFails, WorkerPCs, Typed, TypeOK, RunnerHasJob, queueVars,
           histVars
  <1>3. CASE QuotaRelease(w)
    <2>1. worker[w].ev \in Events
      BY <1>3 DEF QuotaRelease, Typed, WorkerHasJob
    <2>2. claim' \in [Events -> ClaimState]
      BY <1>3, NoClaimTyped DEF QuotaRelease, Typed, TypeOK
    <2>3. QED
      BY <1>3, <2>1, <2>2, ReleaseTyped, DropTyped, FaultTyped
         DEF QuotaRelease, Typed, TypeOK, RunnerHasJob, histVars
  <1>4. CASE FinishRaises(w)
    <2>1. worker[w].pc # "idle" /\ worker[w].ev \in Events
      BY <1>4 DEF FinishRaises, Typed, WorkerHasJob
    <2>2. sess' \in [Workers -> Sessions]
      <3>1. CASE UNCHANGED sess
        BY <3>1 DEF Typed, TypeOK
      <3>2. CASE sess' = [sess EXCEPT ![w][worker[w].ev] = "dirty"]
        BY <2>1, <3>2 DEF Typed, TypeOK, Sessions
      <3>3. QED
        BY <1>4, <3>1, <3>2 DEF FinishRaises
    <2>3. QED
      BY <1>4, <2>1, <2>2, FinishedTyped, ReleaseTyped, FaultTyped
         DEF FinishRaises, Typed, TypeOK, RunnerHasJob, queueVars, histVars
  <1>5. CASE Crash(w)
    <2>1. worker' \in [Workers -> WorkerState] /\ WorkerHasJob'
      BY <1>5, ReleaseTyped DEF Crash, Release
    <2>2. done' \in [Workers -> SUBSET Stamps]
          /\ sess' \in [Workers -> Sessions]
      BY <1>5 DEF Crash, Typed, TypeOK, Sessions
    <2>3. claim' \in [Events -> ClaimState]
      BY SMTT(30), <1>5 DEF Crash, Typed, TypeOK, ClaimState
    <2>4. crashes' \in 0..MaxCrashes
      BY <1>5, EventQueueAssumption DEF Crash, Typed, TypeOK
    <2>5. QED
      BY <1>5, <2>1, <2>2, <2>3, <2>4
         DEF Crash, Typed, TypeOK, RunnerHasJob, histVars
  <1>6. QED
    BY <1>1, <1>2, <1>3, <1>4, <1>5 DEF Trouble

LEMMA TypedStep == Typed /\ [Next]_vars => Typed'
  <1> SUFFICES ASSUME Typed, [Next]_vars PROVE Typed'
    OBVIOUS
  <1>1. ASSUME NEW e \in Events, Expire(e) PROVE Typed'
    <2>1. claim' \in [Events -> ClaimState]
      BY <1>1 DEF Expire, Typed, TypeOK, ClaimState
    <2>2. QED
      BY <1>1, <2>1 DEF Expire, Typed, TypeOK, WorkerHasJob, RunnerHasJob,
                        localVars, histVars
  <1>2. ASSUME NEW e \in Events, Age(e) PROVE Typed'
    BY <1>2 DEF Age, Typed, TypeOK, WorkerHasJob, RunnerHasJob, localVars,
                histVars
  <1>3. CASE UNCHANGED vars
    BY <1>3 DEF vars, Typed, TypeOK, WorkerHasJob, RunnerHasJob, queueVars,
                localVars, histVars
  <1>4. QED
    BY <1>1, <1>2, <1>3, RunnerTyped, WorkerTyped, TroubleTyped DEF Next

-----------------------------------------------------------------------------
(* The steps that touch neither the runner, the age, nor any stamp keep Kept *)
(* if what each worker knows stays true.                                     *)

LEMMA QuietKept ==
    ASSUME Inv, ConsumerKnows',
           UNCHANGED <<spec, age, runner, newest, published, reported, swept,
                       raced>>
    PROVE  Kept'
  BY DEF Inv, Kept, SpecIsNewest, SweepsOld, Accounted

LEMMA RunnerKept == ASSUME Inv, RunnerStep PROVE Kept'
  <1>1. ASSUME NEW e \in Events, RunOne(e) PROVE Kept'
    BY <1>1 DEF RunOne, Inv, Typed, TypeOK, Kept, SpecIsNewest, ConsumerKnows,
                SweepsOld, Accounted, IdleRunner, queueVars, histVars
  <1>2. ASSUME EnqueueList PROVE Kept'
    <2>1. runner'.pc = "listed"
      BY <1>2 DEF EnqueueList, Inv, Typed, TypeOK, RunnerState
    <2>2. QED
      BY <1>2, <2>1 DEF EnqueueList, Inv, Kept, SpecIsNewest, ConsumerKnows,
                        SweepsOld, Accounted, queueVars, histVars
  <1>3. ASSUME EnqueueJudge PROVE Kept'
    <2>1. SweepsOld'
      <3>1. CASE runner' = IdleRunner
        BY <3>1, IdleRunnerTyped DEF SweepsOld
      <3>2. ASSUME NEW r \in BOOLEAN,
                   runner' = [runner EXCEPT !.pc = "judged",
                                !.del = Doomed(runner.ev, runner.listed, r)]
            PROVE  SweepsOld'
        <4>1. runner'.ev = runner.ev
              /\ runner'.del = Doomed(runner.ev, runner.listed, r)
          BY <3>2 DEF Inv, Typed, TypeOK, RunnerState
        <4>2. \A x \in Events : /\ x # runner.ev /\ spec[x] # 0
                                /\ <<"spec", x>> \in runner'.del
                                => age[x] = 2
          BY <4>1 DEF Doomed, IdleAndOld
        <4>3. QED
          BY <1>3, <4>1, <4>2 DEF EnqueueJudge, SweepsOld, queueVars
      <3>3. QED
        BY <1>3, <3>1, <3>2 DEF EnqueueJudge
    <2>2. QED
      BY <1>3, <2>1 DEF EnqueueJudge, Inv, Kept, SpecIsNewest, ConsumerKnows,
                        Accounted, queueVars, histVars
  <1>4. ASSUME EnqueueCommit PROVE Kept'
    <2> DEFINE e == runner.ev
               gone == {x \in Events : <<"spec", x>> \in runner.del}
    <2>1. e \in Events
      BY <1>4 DEF EnqueueCommit, Inv, Typed, RunnerHasJob
    <2>2. SweepsOld'
      BY <1>4, IdleRunnerTyped DEF EnqueueCommit, SweepsOld
    <2>3. CASE UNCHANGED <<queueVars, histVars>>
      BY <1>4, <2>2, <2>3 DEF EnqueueCommit, Inv, Kept, SpecIsNewest,
                              ConsumerKnows, Accounted, queueVars, histVars
    <2>4. CASE /\ Lands(runner.del)
               /\ spec' = [x \in Events |->
                             IF x = e THEN runner.stamp
                             ELSE IF x \in gone THEN 0 ELSE spec[x]]
               /\ newest' = [newest EXCEPT ![e] = runner.stamp]
               /\ swept' = swept \cup {spec[x] : x \in gone}
               /\ raced' = raced \cup (IF ConsumePending(e)
                                       THEN {runner.stamp} ELSE {})
               /\ UNCHANGED <<published, reported>>
      <3>1. newest'[e] = runner.stamp
            /\ \A x \in Events \ {e} : newest'[x] = newest[x]
        BY <2>1, <2>4 DEF Inv, Typed, TypeOK
      <3>2. SpecIsNewest'
        BY <2>4, <3>1 DEF Inv, Kept, SpecIsNewest
      <3>3. ConsumerKnows'
        <4>1. worker' = worker
          BY <1>4 DEF EnqueueCommit
        <4>2. ASSUME NEW w \in Workers, worker[w].takes,
                     worker[w].pc \in {"settling", "reporting"}
              PROVE  newest'[worker[w].ev] \in {worker[w].queued} \cup raced'
          <5>1. CASE worker[w].ev = e
            BY <2>4, <3>1, <4>2, <5>1 DEF ConsumePending
          <5>2. CASE worker[w].ev # e
            <6>1. worker[w].ev \in Events
              BY <4>2 DEF Inv, Typed, WorkerHasJob
            <6>2. QED
              BY <2>4, <3>1, <4>2, <5>2, <6>1 DEF Inv, Kept, ConsumerKnows
          <5>3. QED
            BY <5>1, <5>2
        <4>3. QED
          BY <2>4, <4>1, <4>2 DEF Inv, Kept, ConsumerKnows
      <3>4. Accounted'
        <4>1. \A x \in gone : spec[x] = newest[x]
          BY <2>4 DEF Lands, Present, Inv, Kept, SpecIsNewest
        <4>2. ASSUME NEW x \in Events, x # e, newest[x] # 0
              PROVE  newest[x] \in {spec'[x]} \cup published \cup reported
                                     \cup swept' \cup raced'
          BY <2>4, <4>1, <4>2 DEF Inv, Kept, Accounted
        <4>3. QED
          BY <2>1, <2>4, <3>1, <4>2 DEF Accounted
      <3>5. QED
        BY <2>2, <3>2, <3>3, <3>4 DEF Kept
    <2>5. QED
      BY <1>4, <2>3, <2>4 DEF EnqueueCommit
  <1>5. ASSUME GiveUp PROVE Kept'
    BY <1>5, IdleRunnerTyped
       DEF GiveUp, Inv, Kept, SpecIsNewest, ConsumerKnows, SweepsOld,
           Accounted, queueVars, histVars
  <1>6. QED
    BY <1>1, <1>2, <1>3, <1>4, <1>5 DEF RunnerStep

LEMMA ConsumeKept ==
    ASSUME Inv, NEW w \in Workers,
           Settle(w) \/ Report(w)
    PROVE  Kept'
  <1> DEFINE e == worker[w].ev
  <1>1. /\ worker[w].pc \in {"settling", "reporting"}
        /\ e \in Events /\ worker[w].queued \in Stamps
        /\ ConsumeCommit(w) /\ Release(w)
        /\ UNCHANGED <<age, runner, newest, published, swept, raced>>
    BY DEF Settle, Report, Inv, Typed, WorkerHasJob
  <1>2. /\ worker' = [worker EXCEPT ![w] = IdleWorker]
        /\ reported \subseteq reported'
    BY <1>1 DEF ConsumeCommit, Release
  <1>3. ConsumerKnows'
    BY <1>1, <1>2 DEF Inv, Kept, Typed, TypeOK, ConsumerKnows, IdleWorker
  <1>4. CASE UNCHANGED <<claim, spec, failed, reported>>
    BY <1>1, <1>3, <1>4, QuietKept
  <1>5. CASE /\ spec' = [spec EXCEPT ![e] = IF worker[w].takes THEN 0 ELSE @]
             /\ worker[w].pc = "reporting" /\ worker[w].takes
                  => worker[w].queued \in reported'
    <2>1. /\ \A x \in Events \ {e} : spec'[x] = spec[x]
          /\ spec'[e] = IF worker[w].takes THEN 0 ELSE spec[e]
      BY <1>1, <1>5 DEF Inv, Typed, TypeOK
    <2>2. SpecIsNewest' /\ SweepsOld'
      BY <1>1, <2>1 DEF Inv, Kept, SpecIsNewest, SweepsOld
    <2>3. worker[w].takes => newest[e] \in published \cup reported' \cup raced
      BY <1>1, <1>5 DEF Inv, Kept, ConsumerKnows
    <2>4. Accounted'
      BY <1>1, <1>2, <2>1, <2>3 DEF Inv, Kept, Accounted
    <2>5. QED
      BY <1>3, <2>2, <2>4 DEF Kept
  <1>6. QED
    BY <1>1, <1>4, <1>5 DEF ConsumeCommit

LEMMA WorkerKept ==
    ASSUME Inv, NEW w \in Workers,
           WorkerStep(w) \/ Heartbeat(w) \/ Trouble(w)
    PROVE  Kept'
  <1> USE DEF Inv
  <1>1. CASE Settle(w) \/ Report(w)
    BY <1>1, ConsumeKept
  <1>2. CASE ReadBack(w)
    <2>1. PICK takes \in BOOLEAN :
             /\ takes => /\ spec[worker[w].ev] = worker[w].queued
                         /\ worker[w].pc # "unpublished"
             /\ worker' = [worker EXCEPT ![w] =
                             [worker[w] EXCEPT !.pc = AfterLook(w),
                                               !.takes = takes]]
      BY <1>2 DEF ReadBack
    <2>2. /\ worker'[w].pc = AfterLook(w) /\ worker'[w].takes = takes
          /\ worker'[w].ev = worker[w].ev
          /\ worker'[w].queued = worker[w].queued
          /\ \A v \in Workers \ {w} : worker'[v] = worker[v]
      BY <2>1 DEF Typed, TypeOK, WorkerState
    <2>3. takes => newest[worker[w].ev] = worker[w].queued
      BY <1>2, <2>1, EventQueueAssumption
         DEF ReadBack, Typed, WorkerHasJob, Kept, SpecIsNewest, Stamps
    <2>4. takes /\ AfterLook(w) = "settling" => worker[w].queued \in published
      BY <1>2, <2>1 DEF ReadBack, AfterLook, Kept, ConsumerKnows
    <2>5. UNCHANGED <<spec, age, runner, newest, published, reported, swept,
                      raced>>
      BY <1>2 DEF ReadBack, queueVars, histVars
    <2>6. AfterLook(w) \in {"settling", "reporting"}
      BY DEF AfterLook
    <2>7. ConsumerKnows'
      <3>1. ASSUME NEW v \in Workers, v # w
            PROVE  ConsumerKnows!(v)'
        BY <2>2, <2>5, <3>1 DEF Kept, ConsumerKnows
      <3>2. ConsumerKnows!(w)'
        BY <2>2, <2>3, <2>4, <2>5, <2>6
      <3>3. QED
        BY <3>1, <3>2 DEF ConsumerKnows
    <2>8. QED
      BY <2>5, <2>7, QuietKept
  <1>3. CASE Publish(w)
    <2>1. /\ published \subseteq published'
          /\ worker'[w].pc = "published" => worker[w].queued \in published'
          /\ worker'[w].pc \in {"published", "unpublished"}
          /\ worker'[w].queued = worker[w].queued
          /\ \A v \in Workers \ {w} : worker'[v] = worker[v]
          /\ UNCHANGED <<spec, age, runner, newest, reported, swept, raced>>
      BY <1>3 DEF Publish, Goto, Typed, TypeOK, WorkerState, queueVars
    <2>2. ConsumerKnows'
      BY <2>1 DEF Kept, ConsumerKnows
    <2>3. QED
      BY <2>1, <2>2 DEF Kept, SpecIsNewest, SweepsOld, Accounted
  <1>4. ASSUME NEW pc \in {"claimed", "begin", "solving", "failing"},
               Goto(w, pc),
               UNCHANGED <<spec, age, runner, newest, published, reported,
                           swept, raced>>
        PROVE  Kept'
    <2>1. worker'[w].pc = pc
          /\ \A v \in Workers \ {w} : worker'[v] = worker[v]
      BY <1>4 DEF Goto, Typed, TypeOK, WorkerState
    <2>2. ConsumerKnows'
      BY <1>4, <2>1 DEF Kept, ConsumerKnows
    <2>3. QED
      BY <1>4, <2>2, QuietKept
  <1>5. ASSUME Release(w),
               UNCHANGED <<spec, age, runner, newest, published, reported,
                           swept, raced>>
        PROVE  Kept'
    <2>1. ConsumerKnows'
      BY <1>5 DEF Release, Typed, TypeOK, IdleWorker, Kept, ConsumerKnows
    <2>2. QED
      BY <1>5, <2>1, QuietKept
  <1>6. CASE Pick(w)
    <2>1. /\ worker'[w].pc \in {"picked", "begin"}
          /\ \A v \in Workers \ {w} : worker'[v] = worker[v]
          /\ UNCHANGED <<spec, age, runner, newest, published, reported,
                         swept, raced>>
      BY <1>6 DEF Pick, Typed, TypeOK, WorkerState, queueVars, histVars
    <2>2. ConsumerKnows'
      BY <2>1 DEF Kept, ConsumerKnows
    <2>3. QED
      BY <2>1, <2>2, QuietKept
  <1>7. CASE Heartbeat(w)
    <2>1. UNCHANGED <<spec, age, worker, runner, newest, published, reported,
                      swept, raced>>
      BY <1>7 DEF Heartbeat, localVars, histVars
    <2>2. QED
      BY <2>1, QuietKept DEF Kept, ConsumerKnows
  <1>8. CASE Claim(w) \/ Recheck(w) \/ Begin(w) \/ ChunkFails(w)
    BY <1>4, <1>5, <1>8 DEF Claim, Recheck, Begin, ChunkFails, queueVars,
                            histVars
  <1>9. CASE FinishShadow(w) \/ FailShadow(w) \/ QuotaRelease(w)
             \/ FinishRaises(w) \/ Crash(w)
    BY <1>5, <1>9 DEF FinishShadow, FailShadow, QuotaRelease, FinishRaises,
                      Crash, Release, queueVars, histVars
  <1>10. QED
    BY <1>1, <1>2, <1>3, <1>6, <1>7, <1>8, <1>9 DEF WorkerStep, Solved,
                                                     LookBack, Trouble

LEMMA InvStep == Inv /\ [Next]_vars => Inv'
  <1> SUFFICES ASSUME Inv, [Next]_vars PROVE Kept'
    BY TypedStep DEF Inv
  <1>1. ASSUME NEW e \in Events, Expire(e) PROVE Kept'
    BY <1>1, QuietKept
       DEF Expire, localVars, histVars, Inv, Kept, ConsumerKnows
  <1>2. ASSUME NEW e \in Events, Age(e) PROVE Kept'
    <2>1. \A x \in Events : age[x] = 2 => age'[x] = 2
      BY <1>2 DEF Age, Inv, Typed, TypeOK
    <2>2. QED
      BY <1>2, <2>1 DEF Age, localVars, histVars, Inv, Kept, SpecIsNewest,
                        ConsumerKnows, SweepsOld, Accounted
  <1>3. CASE UNCHANGED vars
    BY <1>3, QuietKept DEF vars, queueVars, localVars, histVars, Inv, Kept,
                           ConsumerKnows
  <1>4. QED
    BY <1>1, <1>2, <1>3, RunnerKept, WorkerKept DEF Next

-----------------------------------------------------------------------------
LEMMA Invariance == Spec => []Inv
  BY InitInv, InvStep, PTL DEF Spec

\* Every variable stays in its type, whatever the interleaving of runner,
\* workers, faults and restarts.
THEOREM TypeCorrect == Spec => []TypeOK
  <1>1. Inv => TypeOK
    BY DEF Inv, Typed
  <1>2. QED
    BY <1>1, Invariance, PTL

\* The last job enqueued for an event is never lost unseen: it is queued,
\* published, reported, swept, or landed in the one gap the consuming commit
\* of _finish_job and _fail_job leaves open.
THEOREM JobsAccounted == Spec => []Accounted
  <1>1. Inv => Accounted
    BY DEF Inv, Kept
  <1>2. QED
    BY <1>1, Invariance, PTL

\* enqueue of one event never sweeps a job of another that is younger than
\* its own limit, although the sweep was decided before the upload.
THEOREM YoungJobsSafe == Spec => YoungJobNeverSwept
  <1> DEFINE Sweep == \A e \in Events :
                 /\ runner.pc = "judged" /\ runner.ev # e
                 /\ spec[e] # 0 /\ spec'[e] = 0
                 /\ runner' = IdleRunner
                 => age[e] = 2
  <1>1. Inv /\ Next => Sweep
    <2> SUFFICES ASSUME Inv, Next, NEW e \in Events,
                        runner.pc = "judged", runner.ev # e,
                        spec[e] # 0, spec'[e] = 0, runner' = IdleRunner
                 PROVE  age[e] = 2
      OBVIOUS
    <2>1. runner' # runner
      BY IdleRunnerTyped
    <2>2. EnqueueCommit
      BY <2>1 DEF Next, RunnerStep, RunOne, GiveUp, EnqueueList, EnqueueJudge,
                  WorkerStep, Solved, LookBack, Trouble, Pick, Claim,
                  Recheck, Begin, Publish, FinishShadow, ReadBack, Settle,
                  Report, FailShadow, Heartbeat, ChunkFails, QuotaRelease,
                  FinishRaises, Crash,
                  Expire, Age, localVars, queueVars
    <2>3. <<"spec", e>> \in runner.del
      BY <2>2 DEF EnqueueCommit, queueVars
    <2>4. QED
      BY <2>3 DEF Inv, Kept, SweepsOld
  <1>2. QED
    BY <1>1, Invariance, PTL DEF Spec, YoungJobNeverSwept

-----------------------------------------------------------------------------
(* The queue implements the ledger of jobs.  Stamps grow: the job that the   *)
(* runner carries is newer than all that were enqueued, and what a worker    *)
(* is about to consume is no newer than its event's newest job.              *)

RunnerAhead ==
    /\ \A e \in Events : newest[e] <= clock
    /\ runner.pc \in {"listed", "judged"} =>
          runner.stamp = clock /\ \A e \in Events : newest[e] < clock

\* The sweep never takes the spec of the event that is enqueued.
SweepsOthers ==
    runner.pc = "judged" => <<"spec", runner.ev>> \notin runner.del

ConsumerBehind ==
    \A w \in Workers :
        worker[w].takes /\ worker[w].pc \in {"settling", "reporting"}
            => worker[w].queued <= newest[worker[w].ev]

Ordered == RunnerAhead /\ SweepsOthers /\ ConsumerBehind

LEMMA InitOrdered == Init => Ordered
  BY EventQueueAssumption
     DEF Init, Ordered, RunnerAhead, SweepsOthers, ConsumerBehind, IdleRunner,
         IdleWorker

LEMMA QuietOrdered ==
    ASSUME Ordered, ConsumerBehind', UNCHANGED <<clock, runner, newest>>
    PROVE  Ordered'
  BY DEF Ordered, RunnerAhead, SweepsOthers

LEMMA RunnerOrdered == ASSUME Inv, Ordered, RunnerStep PROVE Ordered'
  <1> USE DEF Inv, Typed
  <1>1. ASSUME NEW e \in Events, RunOne(e) PROVE Ordered'
    <2>1. runner'.pc = "ef5"
      BY <1>1 DEF RunOne, IdleRunner
    <2>2. QED
      BY <1>1, <2>1 DEF RunOne, Ordered, RunnerAhead, SweepsOthers,
                        ConsumerBehind, histVars
  <1>2. ASSUME EnqueueList PROVE Ordered'
    <2>1. runner'.pc = "listed" /\ runner'.stamp = clock + 1
      BY <1>2 DEF EnqueueList, TypeOK, RunnerState
    <2>2. RunnerAhead'
      BY <1>2, <2>1, EventQueueAssumption
         DEF EnqueueList, Ordered, RunnerAhead, TypeOK, histVars
    <2>3. QED
      BY <1>2, <2>1, <2>2 DEF EnqueueList, Ordered, SweepsOthers,
                              ConsumerBehind, histVars
  <1>3. ASSUME EnqueueJudge PROVE Ordered'
    <2>1. CASE runner' = IdleRunner
      BY <1>3, <2>1, IdleRunnerTyped
         DEF EnqueueJudge, Ordered, RunnerAhead, SweepsOthers, ConsumerBehind,
             histVars
    <2>2. ASSUME NEW r \in BOOLEAN,
                 runner' = [runner EXCEPT !.pc = "judged",
                              !.del = Doomed(runner.ev, runner.listed, r)]
          PROVE  Ordered'
      <3>1. /\ runner'.pc = "judged" /\ runner'.stamp = runner.stamp
            /\ runner'.ev = runner.ev
            /\ runner'.del = Doomed(runner.ev, runner.listed, r)
        BY <2>2 DEF TypeOK, RunnerState
      <3>2. <<"spec", runner.ev>> \notin runner'.del
        BY <3>1 DEF Doomed
      <3>3. QED
        BY <1>3, <3>1, <3>2
           DEF EnqueueJudge, Ordered, RunnerAhead, SweepsOthers,
               ConsumerBehind, histVars
    <2>3. QED
      BY <1>3, <2>1, <2>2 DEF EnqueueJudge
  <1>4. ASSUME EnqueueCommit PROVE Ordered'
    <2>1. /\ runner.ev \in Events /\ runner.stamp = clock
          /\ runner' = IdleRunner /\ UNCHANGED <<worker, clock>>
      BY <1>4 DEF EnqueueCommit, RunnerHasJob, Ordered, RunnerAhead
    <2>2. newest' \in {newest, [newest EXCEPT ![runner.ev] = clock]}
      BY <1>4, <2>1 DEF EnqueueCommit, histVars
    <2>3. \A e \in Events : newest[e] <= newest'[e] /\ newest'[e] <= clock
      BY <2>1, <2>2 DEF TypeOK, Ordered, RunnerAhead
    <2>4. newest' \in [Events -> Nat]
      BY <2>1, <2>2 DEF TypeOK
    <2>5. ConsumerBehind'
      <3> SUFFICES ASSUME NEW w \in Workers, worker[w].takes,
                          worker[w].pc \in {"settling", "reporting"}
                   PROVE  worker[w].queued <= newest'[worker[w].ev]
        BY <2>1 DEF ConsumerBehind
      <3>1. worker[w].ev \in Events /\ worker[w].queued \in Nat
        BY DEF WorkerHasJob, Stamps
      <3>2. worker[w].queued <= newest[worker[w].ev]
        BY DEF Ordered, ConsumerBehind
      <3>3. QED
        BY <2>3, <2>4, <3>1, <3>2 DEF TypeOK
    <2>6. QED
      BY <2>1, <2>3, <2>5, IdleRunnerTyped DEF Ordered, RunnerAhead,
                                               SweepsOthers
  <1>5. ASSUME GiveUp PROVE Ordered'
    BY <1>5, IdleRunnerTyped
       DEF GiveUp, Ordered, RunnerAhead, SweepsOthers, ConsumerBehind,
           histVars
  <1>6. QED
    BY <1>1, <1>2, <1>3, <1>4, <1>5 DEF RunnerStep

\* A step of one worker keeps what the others know.
LEMMA WorkerOrdered ==
    ASSUME Inv, Ordered, NEW w \in Workers,
           WorkerStep(w) \/ Heartbeat(w) \/ Trouble(w)
    PROVE  Ordered'
  <1> USE DEF Inv, Typed
  <1>1. UNCHANGED <<clock, runner, newest>>
    BY DEF WorkerStep, Solved, LookBack, Trouble, Pick, Claim, Recheck, Begin,
           Publish, FinishShadow, ReadBack, Settle, Report, FailShadow,
           Heartbeat, ChunkFails, QuotaRelease, FinishRaises, Crash,
           localVars, queueVars, histVars
  <1>2. CASE ReadBack(w)
    <2>1. PICK takes \in BOOLEAN :
             /\ takes => spec[worker[w].ev] = worker[w].queued
             /\ worker' = [worker EXCEPT ![w] =
                             [worker[w] EXCEPT !.pc = AfterLook(w),
                                               !.takes = takes]]
      BY <1>2 DEF ReadBack
    <2>2. /\ worker'[w].takes = takes /\ worker'[w].ev = worker[w].ev
          /\ worker'[w].queued = worker[w].queued
          /\ \A v \in Workers \ {w} : worker'[v] = worker[v]
      BY <2>1 DEF TypeOK, WorkerState
    <2>3. takes => newest[worker[w].ev] = worker[w].queued
      BY <1>2, <2>1, EventQueueAssumption
         DEF ReadBack, WorkerHasJob, Kept, SpecIsNewest, Stamps
    <2>4. takes => worker[w].queued <= newest[worker[w].ev]
      BY <1>2, <2>3 DEF ReadBack, WorkerHasJob, Stamps
    <2>5. ConsumerBehind'
      BY <1>1, <2>2, <2>4 DEF Ordered, ConsumerBehind
    <2>6. QED
      BY <1>1, <2>5, QuietOrdered
  <1>3. CASE ~ReadBack(w)
    <2>1. /\ \A v \in Workers \ {w} : worker'[v] = worker[v]
          /\ \/ worker'[w] = worker[w]
             \/ worker'[w].pc \notin {"settling", "reporting"}
      BY <1>3
         DEF WorkerStep, Solved, LookBack, Trouble, Pick, Claim, Recheck,
             Begin, Publish, FinishShadow, Settle, Report, FailShadow,
             Heartbeat, ChunkFails, QuotaRelease, FinishRaises, Crash, Goto,
             Release, IdleWorker, localVars, TypeOK, WorkerState
    <2>2. ConsumerBehind'
      BY <1>1, <2>1 DEF Ordered, ConsumerBehind
    <2>3. QED
      BY <1>1, <2>2, QuietOrdered
  <1>4. QED
    BY <1>2, <1>3

LEMMA OrderedStep == Inv /\ Ordered /\ [Next]_vars => Ordered'
  <1> SUFFICES ASSUME Inv, Ordered, [Next]_vars PROVE Ordered'
    OBVIOUS
  <1>1. ASSUME NEW e \in Events, Expire(e) \/ Age(e) PROVE Ordered'
    BY <1>1, QuietOrdered
       DEF Expire, Age, localVars, histVars, Ordered, ConsumerBehind
  <1>2. CASE UNCHANGED vars
    BY <1>2, QuietOrdered
       DEF vars, queueVars, localVars, histVars, Ordered, ConsumerBehind
  <1>3. QED
    BY <1>1, <1>2, RunnerOrdered, WorkerOrdered DEF Next

-----------------------------------------------------------------------------
(* The mapping, step by step: a commit of enqueue is an Enqueue, a publish a *)
(* Publish, a consuming commit that takes the job a Consume, and nothing     *)
(* else moves the ledger.                                                    *)

LEMMA InitLedger == Init => Ledger!Init
  BY DEF Init, Ledger!Init

LEMMA EnqueueLedger ==
    ASSUME Inv, Ordered, EnqueueCommit PROVE [Ledger!Next]_Ledger!vars
  <1> USE DEF Inv, Typed
  <1> DEFINE e == runner.ev
             gone == {x \in Events : <<"spec", x>> \in runner.del}
  <1>1. e \in Events /\ runner.stamp \in Ledger!Stamps
    BY DEF EnqueueCommit, RunnerHasJob, Stamps, Ledger!Stamps
  <1>2. CASE UNCHANGED <<queueVars, histVars>>
    BY <1>2 DEF queueVars, histVars, Ledger!vars
  <1>3. CASE /\ spec' = [x \in Events |-> IF x = e THEN runner.stamp
                                          ELSE IF x \in gone THEN 0
                                          ELSE spec[x]]
             /\ swept' = swept \cup {spec[x] : x \in gone}
             /\ raced' = raced \cup (IF ConsumePending(e)
                                     THEN {runner.stamp} ELSE {})
             /\ UNCHANGED <<published, reported>>
    <2>1. e \notin gone
      BY DEF EnqueueCommit, Ordered, SweepsOthers
    <2>2. \A x \in Events : spec[x] < runner.stamp
      <3>1. \A x \in Events : newest[x] < runner.stamp /\ 0 < runner.stamp
        BY <1>1 DEF EnqueueCommit, Ordered, RunnerAhead, Ledger!Stamps
      <3>2. QED
        BY <3>1 DEF Kept, SpecIsNewest
    <2>3. \A x \in Events \ {e} :
             spec'[x] = spec[x] \/ (spec'[x] = 0 /\ spec[x] \in swept')
      BY <1>3
    <2>4. spec' = [spec' EXCEPT ![e] = runner.stamp]
      BY <1>1, <1>3
    <2>5. swept' \cup raced' \subseteq
            swept \cup raced \cup {runner.stamp}
              \cup {spec[x] : x \in Events \ {e}}
      BY <1>3, <2>1
    <2>6. Ledger!Enqueue(e, runner.stamp)
      BY <1>3, <2>2, <2>3, <2>4, <2>5 DEF Ledger!Enqueue
    <2>7. QED
      BY <1>1, <2>6 DEF Ledger!Next
  <1>4. QED
    BY <1>2, <1>3 DEF EnqueueCommit

LEMMA ConsumeLedger ==
    ASSUME Inv, Ordered, NEW w \in Workers, Settle(w) \/ Report(w)
    PROVE  [Ledger!Next]_Ledger!vars
  <1> USE DEF Inv, Typed
  <1> DEFINE e == worker[w].ev
             s == worker[w].queued
  <1>1. /\ worker[w].pc \in {"settling", "reporting"}
        /\ e \in Events /\ s \in Stamps
        /\ ConsumeCommit(w)
        /\ UNCHANGED <<newest, published, swept, raced>>
    BY DEF Settle, Report, WorkerHasJob
  <1>2. CASE UNCHANGED <<claim, spec, failed, reported>>
    BY <1>1, <1>2 DEF Ledger!vars
  <1>3. CASE /\ Lands(Consumed(w))
             /\ spec' = [spec EXCEPT ![e] = IF worker[w].takes THEN 0 ELSE @]
             /\ reported' = IF worker[w].pc = "reporting" /\ worker[w].takes
                            THEN reported \cup {s} ELSE reported
    <2>1. CASE ~worker[w].takes
      BY <1>1, <1>3, <2>1 DEF TypeOK, Ledger!vars
    <2>2. CASE worker[w].takes
      <3>1. spec[e] # 0
        BY <1>1, <1>3, <2>2 DEF Lands, Consumed, Present
      <3>2. spec[e] = newest[e]
        BY <1>1, <3>1 DEF Kept, SpecIsNewest
      <3>3. 1 <= s /\ s <= spec[e]
        BY <1>1, <2>2, <3>2 DEF Ordered, ConsumerBehind, Stamps
      <3>4. spec[e] \in published \cup reported' \cup raced
        <4>1. newest[e] \in {s} \cup raced
          BY <1>1, <2>2 DEF Kept, ConsumerKnows
        <4>2. worker[w].pc = "settling" => s \in published
          BY <2>2 DEF Kept, ConsumerKnows
        <4>3. worker[w].pc = "reporting" => s \in reported'
          BY <1>3, <2>2
        <4>4. QED
          BY <1>1, <3>2, <4>1, <4>2, <4>3
      <3>5. reported' \in {reported, reported \cup {s}}
        BY <1>3
      <3>6. Ledger!Consume(e, s)
        BY <1>1, <1>3, <2>2, <3>3, <3>4, <3>5 DEF Ledger!Consume
      <3>7. QED
        BY <1>1, <3>6 DEF Ledger!Next, Stamps, Ledger!Stamps
    <2>3. QED
      BY <2>1, <2>2
  <1>4. QED
    BY <1>1, <1>2, <1>3 DEF ConsumeCommit

LEMMA PublishLedger ==
    ASSUME Inv, NEW w \in Workers, Publish(w)
    PROVE  [Ledger!Next]_Ledger!vars
  <1>1. worker[w].queued \in Ledger!Stamps
    BY DEF Publish, Inv, Typed, WorkerHasJob, Stamps, Ledger!Stamps
  <1>2. CASE UNCHANGED published
    BY <1>2 DEF Publish, queueVars, Ledger!vars
  <1>3. CASE published' = published \cup {worker[w].queued}
    <2>1. Ledger!Publish(worker[w].queued)
      BY <1>3 DEF Publish, queueVars, Ledger!Publish
    <2>2. QED
      BY <1>1, <2>1 DEF Ledger!Next
  <1>4. QED
    BY <1>2, <1>3 DEF Publish

LEMMA StepLedger ==
    Inv /\ Ordered /\ [Next]_vars => [Ledger!Next]_Ledger!vars
  <1> SUFFICES ASSUME Inv, Ordered, [Next]_vars
               PROVE  [Ledger!Next]_Ledger!vars
    OBVIOUS
  <1>1. CASE UNCHANGED <<spec, published, reported, swept, raced>>
    BY <1>1 DEF Ledger!vars
  <1>2. ASSUME NEW w \in Workers, WorkerStep(w) \/ Heartbeat(w) \/ Trouble(w)
        PROVE  \/ Settle(w) \/ Report(w) \/ Publish(w)
               \/ UNCHANGED <<spec, published, reported, swept, raced>>
    BY <1>2 DEF WorkerStep, Solved, LookBack, Trouble, Pick, Claim, Recheck,
                Begin, FinishShadow, ReadBack, FailShadow, Heartbeat,
                ChunkFails, QuotaRelease, FinishRaises, Crash, queueVars,
                histVars
  <1>3. ASSUME RunnerStep
        PROVE  \/ EnqueueCommit
               \/ UNCHANGED <<spec, published, reported, swept, raced>>
    BY <1>3 DEF RunnerStep, RunOne, GiveUp, EnqueueList, EnqueueJudge,
                queueVars, histVars
  <1>4. ASSUME NEW e \in Events, Expire(e) \/ Age(e)
        PROVE  UNCHANGED <<spec, published, reported, swept, raced>>
    BY <1>4 DEF Expire, Age, histVars
  <1>5. UNCHANGED vars
          => UNCHANGED <<spec, published, reported, swept, raced>>
    BY DEF vars, queueVars, histVars
  <1>6. QED
    BY <1>1, <1>2, <1>3, <1>4, <1>5, EnqueueLedger, ConsumeLedger,
       PublishLedger DEF Next

\* The queue of files, with its claims, stale listings, blind commits and
\* restarts, implements the ledger of jobs (eventqueue.enqueue, app._finish_job
\* and _fail_job): no job leaves it unsolved but by a report, a sweep or the
\* one gap of the consuming commit.
THEOREM QueueIsLedger == Spec => ImplementsLedger
  <1>1. Spec => [](Inv /\ Ordered)
    <2>1. Init => Inv /\ Ordered
      BY InitInv, InitOrdered
    <2>2. Inv /\ Ordered /\ [Next]_vars => Inv' /\ Ordered'
      BY InvStep, OrderedStep
    <2>3. QED
      BY <2>1, <2>2, PTL DEF Spec
  <1>2. QED
    BY <1>1, InitLedger, StepLedger, PTL
       DEF Spec, ImplementsLedger, Ledger!Spec

-----------------------------------------------------------------------------
(* One publishing process, for as long as it lives: what it has published it *)
(* has finished, or is just finishing.                                       *)

PublishedDone ==
    \A w \in Publishers : \A s \in published :
        \/ s \in done[w]
        \/ /\ worker[w].pc \in {"published", "settling"}
           /\ worker[w].queued = s

WorksOnNew ==
    \A w \in Workers : worker[w].pc # "idle" => worker[w].queued \notin done[w]

Once == PublishedDone /\ WorksOnNew

LEMMA OnceStep ==
    ASSUME \A v, w \in Publishers : v = w, MaxCrashes = 0,
           Inv, Once, [Next]_vars
    PROVE  Once'
  <1> USE DEF Inv, Typed
  <1>1. ASSUME NEW w \in Workers, WorkerStep(w) \/ Heartbeat(w) \/ Trouble(w)
        PROVE  Once'
    <2>1. ~Crash(w)
      BY EventQueueAssumption DEF Crash, TypeOK
    <2>2. \A v \in Workers \ {w} : worker'[v] = worker[v] /\ done'[v] = done[v]
      BY <1>1, <2>1
         DEF WorkerStep, Solved, LookBack, Trouble, Pick, Claim, Recheck,
             Begin, Publish, FinishShadow, ReadBack, Settle, Report,
             FailShadow, Heartbeat, ChunkFails, QuotaRelease, FinishRaises,
             Goto, Release, Finished, localVars, TypeOK
    <2>3. CASE Settle(w) \/ Report(w) \/ FinishShadow(w) \/ FailShadow(w)
               \/ FinishRaises(w)
      <3>1. /\ done'[w] = done[w] \cup {worker[w].queued}
            /\ worker'[w].pc = "idle" /\ published' = published
        BY <2>3 DEF Settle, Report, FinishShadow, FailShadow, FinishRaises,
                    Finished, Release, IdleWorker, histVars, TypeOK
      <3>2. QED
        BY <2>2, <3>1, EventQueueAssumption
           DEF Once, PublishedDone, WorksOnNew
    <2>4. CASE Publish(w)
      <3>1. /\ done' = done /\ worker'[w].queued = worker[w].queued
            /\ worker'[w].pc \in {"published", "unpublished"}
            /\ worker[w].pc = "solving" /\ w \in Publishers
            /\ published' \subseteq published \cup {worker[w].queued}
            /\ worker'[w].pc = "unpublished" => published' = published
        BY <2>4 DEF Publish, Goto, TypeOK, WorkerState
      <3>2. QED
        BY <2>2, <3>1 DEF Once, PublishedDone, WorksOnNew
    <2>5. CASE ReadBack(w)
      <3>1. /\ done' = done /\ published' = published
            /\ worker'[w].queued = worker[w].queued
            /\ worker[w].pc = "published" => worker'[w].pc = "settling"
            /\ worker[w].pc \in {"published", "unpublished", "failing"}
        BY <2>5 DEF ReadBack, AfterLook, TypeOK, WorkerState, histVars
      <3>2. QED
        BY <2>2, <3>1, EventQueueAssumption
           DEF Once, PublishedDone, WorksOnNew
    <2>6. CASE Pick(w)
      <3>1. PICK e \in Events, r \in BOOLEAN :
               /\ e \in Candidates(w, r)
               /\ worker' = [worker EXCEPT ![w] =
                     [pc |-> IF w \in Publishers THEN "picked" ELSE "begin",
                      ev |-> e, queued |-> spec[e], takes |-> FALSE]]
        BY <2>6 DEF Pick
      <3>2. /\ worker'[w].queued \notin done[w] /\ worker[w].pc = "idle"
            /\ done' = done /\ published' = published
        BY <2>6, <3>1 DEF Pick, Candidates, TypeOK, histVars
      <3>3. QED
        BY <2>2, <3>2, EventQueueAssumption
           DEF Once, PublishedDone, WorksOnNew
    <2>7. CASE Claim(w) \/ Recheck(w) \/ Begin(w) \/ Heartbeat(w)
               \/ ChunkFails(w) \/ QuotaRelease(w)
      <3>1. /\ done' = done /\ published' = published
            /\ worker[w].pc \notin {"published", "settling"}
            /\ \/ worker'[w].pc = "idle"
               \/ worker[w].pc # "idle" /\ worker'[w].queued = worker[w].queued
        BY <2>7 DEF Claim, Recheck, Begin, Heartbeat, ChunkFails,
                    QuotaRelease, Goto, Release, IdleWorker, localVars,
                    histVars, TypeOK, WorkerState
      <3>2. QED
        BY <2>2, <3>1, EventQueueAssumption
           DEF Once, PublishedDone, WorksOnNew
    <2>8. QED
      BY <1>1, <2>1, <2>3, <2>4, <2>5, <2>6, <2>7
         DEF WorkerStep, Solved, LookBack, Trouble
  <1>2. ASSUME UNCHANGED <<worker, done, published>> PROVE Once'
    BY <1>2 DEF Once, PublishedDone, WorksOnNew
  <1>3. RunnerStep => UNCHANGED <<worker, done, published>>
    BY DEF RunnerStep, RunOne, GiveUp, EnqueueList, EnqueueJudge,
           EnqueueCommit, histVars
  <1>4. \A e \in Events : Expire(e) \/ Age(e)
                            => UNCHANGED <<worker, done, published>>
    BY DEF Expire, Age, localVars, histVars
  <1>5. UNCHANGED vars => UNCHANGED <<worker, done, published>>
    BY DEF vars, localVars, histVars
  <1>6. QED
    BY <1>1, <1>2, <1>3, <1>4, <1>5 DEF Next

\* One publishing process publishes no job twice while it lives, though the
\* commit that consumes the job may be refused again and again (W["done"] of
\* _scan and _finish_job).
THEOREM NothingPublishedTwice ==
    ASSUME \A v, w \in Publishers : v = w, MaxCrashes = 0
    PROVE  Spec => PublishedOnce
  <1>1. Init => Once
    BY DEF Init, Once, PublishedDone, WorksOnNew, IdleWorker
  <1>2. Inv /\ Once /\ [Next]_vars => Once'
    BY OnceStep
  <1>3. Inv /\ Once /\ [Next]_vars =>
          [\A w \in Workers : worker[w].pc = "solving"
                               /\ worker'[w].pc = "published"
                               => worker[w].queued \notin published]_vars
    <2> SUFFICES ASSUME Inv, Once, Next, NEW w \in Workers,
                        worker[w].pc = "solving", worker'[w].pc = "published"
                 PROVE  worker[w].queued \notin published
      OBVIOUS
    <2>1. w \in Publishers
      <3>1. ASSUME NEW v \in Workers,
                   WorkerStep(v) \/ Heartbeat(v) \/ Trouble(v), ~Publish(v)
            PROVE  worker'[w] = worker[w] \/ worker'[w].pc # "published"
        <4>1. CASE v # w
          BY <3>1, <4>1
             DEF WorkerStep, Solved, LookBack, Trouble, Pick, Claim, Recheck,
                 Begin, FinishShadow, ReadBack, Settle, Report, FailShadow,
                 Heartbeat, ChunkFails, QuotaRelease, FinishRaises, Crash,
                 Goto, Release, localVars, Inv, Typed, TypeOK
        <4>2. CASE v = w
          <5>1. ~ReadBack(w) /\ ~Pick(w)
            BY DEF ReadBack, Pick
          <5>2. QED
            BY <3>1, <4>2, <5>1
               DEF WorkerStep, Solved, LookBack, Trouble, Claim, Recheck,
                   Begin, FinishShadow, Settle, Report, FailShadow,
                   Heartbeat, ChunkFails, QuotaRelease, FinishRaises, Crash,
                   Goto, Release, IdleWorker, localVars, Inv, Typed, TypeOK,
                   WorkerState
        <4>3. QED
          BY <4>1, <4>2
      <3>2. RunnerStep \/ (\E e \in Events : Expire(e) \/ Age(e))
              => UNCHANGED worker
        BY DEF RunnerStep, RunOne, GiveUp, EnqueueList, EnqueueJudge,
               EnqueueCommit, Expire, Age, localVars
      <3>3. PICK v \in Workers : Publish(v)
        BY <3>1, <3>2 DEF Next
      <3>4. v \in Publishers /\ \A u \in Workers \ {v} : worker'[u] = worker[u]
        BY <3>3 DEF Publish, Goto, Inv, Typed, TypeOK
      <3>5. QED
        BY <3>4
    <2>2. QED
      BY <2>1 DEF Once, PublishedDone, WorksOnNew
  <1>4. QED
    BY <1>1, <1>2, <1>3, Invariance, PTL DEF Spec, PublishedOnce
=============================================================================
