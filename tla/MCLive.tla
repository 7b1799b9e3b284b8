------------------------------- MODULE MCLive -------------------------------
(***************************************************************************)
(* The merger's process, the index it merges, and the queue of jobs, under *)
(* fairness in one run.  They share no state here: each behaviour is one   *)
(* of one part, chosen at the start.  A fairness conjunct joins an action  *)
(* of each part: in a behaviour of one part it is the fairness of that     *)
(* part's action.                                                          *)
(***************************************************************************)
EXTENDS MergerProcess

VARIABLE part

CONSTANTS w1, t1
VARIABLES index, manifest, anim, queue, used, worker, tick, fin, merger, gen,
          reopens, ticks, indexFaults
Index == INSTANCE EpisodeIndex WITH
    N <- 2, Pinned <- {}, KeepEvents <- 2, MaxGen <- 10, MaxReopens <- 1,
    Workers <- {w1}, Threads <- {t1}, Past <- 2, MaxTicks <- 1,
    MaxPerTick <- 2, MaxFaults <- 1, faults <- indexFaults

\* One event, two workers that publish.
CONSTANTS p1, p2, Former
VARIABLES spec, claim, failed, age, runner, gpu, done, sess, clock,
          queueFaults, crashes, newest, published, reported, swept, raced
Queue == INSTANCE EventQueue WITH
    Events <- {"e"}, Workers <- {p1, p2}, Publishers <- {p1, p2},
    Nobody <- None, MaxStamp <- 2, MaxFaults <- 0, MaxCrashes <- 0,
    MaxSessions <- 1, worker <- gpu, faults <- queueFaults

indexVars == <<index, manifest, anim, queue, used, worker, tick, fin, merger,
               gen, reopens, ticks, indexFaults>>
queueVars == <<spec, claim, failed, age, runner, gpu, done, sess, clock,
               queueFaults, crashes, newest, published, reported, swept, raced>>
allVars == <<part, mergerVars, indexVars, queueVars>>

InProcess(A) ==
    part = "process" /\ A /\ UNCHANGED <<part, indexVars, queueVars>>
InIndex(A) == part = "index" /\ A /\ UNCHANGED <<part, mergerVars, queueVars>>
InQueue(A) == part = "queue" /\ A /\ UNCHANGED <<part, mergerVars, indexVars>>

LiveInit == /\ part \in {"process", "index", "queue"}
            /\ MergerInit /\ Index!Init /\ Queue!Init
LiveNext == InProcess(MergerNext) \/ InIndex(Index!Next) \/ InQueue(Queue!Next)

\* MergerFairness, and Fairness of EpisodeIndex and of EventQueue.
LiveFairness ==
    /\ WF_allVars(InProcess(SupervisorStep) \/ InIndex(Index!WorkerStep(w1))
                  \/ InQueue(Queue!WorkerStep(p1)))
    /\ WF_allVars(InProcess(StopChild) \/ InIndex(Index!TickStep)
                  \/ InQueue(Queue!WorkerStep(p2)))
    /\ WF_allVars(InProcess(Tick) \/ InIndex(Index!MergerStep))
    /\ WF_allVars(InProcess(\E p \in Pids : ChildStep(p))
                  \/ InIndex(Index!FinStep(t1))
                  \/ InQueue(\/ Queue!EnqueueList \/ Queue!EnqueueJudge
                             \/ Queue!EnqueueCommit))
    /\ WF_allVars(InProcess(\E p \in Pids : Killed(p))
                  \/ InIndex(Index!FinStep(Index!Merger))
                  \/ InQueue(Queue!Expire("e")))
    /\ WF_allVars(InIndex(\E e \in 1..2 : Index!ReadIndex(w1, e)))
    /\ SF_allVars(InProcess(\E p \in Pids : PassEnds(p)))

LiveSpec == LiveInit /\ [][LiveNext]_allVars /\ LiveFairness

\* MergerServes, MergeSettles and JobsResolve.
Serves == /\ []<>(part = "process" => Manned)
          /\ (\A p \in Pids : []<>Awake(p)) /\ []<>~Unseen /\ NewsOnlyByPass
MergeSettles == <>[](part = "index" => Index!Settled)
JobsResolve == Queue!JobsResolve
=============================================================================
