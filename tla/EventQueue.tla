----------------------------- MODULE EventQueue -----------------------------
(***************************************************************************)
(* The event job queue kept as files of the CREST_data dataset:            *)
(*    events/queue/<id>.json + <id>.forcing.tar.gz    the job              *)
(*    events/queue/<id>.claim                         worker, heartbeat    *)
(*    events/queue/<id>.failed.json                   error report         *)
(* One runner (hf_data/eventsim.py run_one -> hf_data/eventqueue.py        *)
(* enqueue) writes jobs and sweeps stale ones; any number of workers       *)
(* (gpu_worker_space/app.py) claim, solve, publish and consume them.       *)
(* Every change is one commit of the dataset; nobody commits against the   *)
(* revision it read, so whatever was read may be stale when the commit     *)
(* lands.  The job spec and its forcing tar are always added and deleted   *)
(* in the same commit and are one file here.  A commit that deletes a      *)
(* missing file is refused whole by the Hub.                               *)
(*                                                                         *)
(* A job is named by its `queued' stamp, unique per enqueue.               *)
(***************************************************************************)
EXTENDS Naturals, FiniteSets

CONSTANTS
    Events,         \* event ids
    Workers,        \* worker processes
    Publishers,     \* the workers started with PUBLISH=1; the rest shadow
    Nobody,         \* no claim
    Former,         \* a worker process that has since been replaced
    MaxStamp,       \* bound: enqueues
    MaxFaults,      \* bound: failed reads, failed commits, raised errors
    MaxCrashes,     \* bound: worker restarts
    MaxSessions     \* ZERO_MAX_SESSIONS

ASSUME EventQueueAssumption ==
    /\ Publishers \subseteq Workers
    /\ Nobody \notin Workers \cup {Former}
    /\ Former \notin Workers
    /\ MaxStamp \in Nat /\ MaxFaults \in Nat
    /\ MaxCrashes \in Nat /\ MaxSessions \in Nat

VARIABLES
    spec,       \* spec[e]: stamp of the queued job of e, 0 if none
    claim,      \* claim[e]: who heartbeats on e and whether that is fresh
    failed,     \* events with a failed.json in the queue
    age,        \* age[e]: 0 young, 1 id older than QUEUE_MAX_AGE_H,
                \*         2 and its job is older than its own limit too
    runner,     \* the runner inside enqueue
    worker,     \* worker[w]: the state machine W of app.py
    done,       \* done[w]: stamps this process will not take again
    sess,       \* sess[w][e]: resident session of e
    clock,      \* last stamp handed out
    faults,     \* faults so far
    crashes,    \* restarts so far
    newest,     \* history: stamp of the last enqueue of e that landed
    published,  \* history: stamps solved and published
    reported,   \* history: stamps reported as failed
    swept,      \* history: stamps an enqueue of another event swept
    raced       \* history: stamps that landed between a worker's last look
                \* at the spec and its consuming commit

queueVars == <<spec, claim, failed, age>>
localVars == <<runner, worker, done, sess>>
histVars  == <<newest, published, reported, swept, raced>>
vars == <<queueVars, localVars, clock, faults, crashes, histVars>>

Stamps == 1..MaxStamp
Files  == {"spec", "claim", "failed"} \X Events

NoClaim == [by |-> Nobody, fresh |-> FALSE]
IdleRunner == [pc |-> "idle", ev |-> Nobody, stamp |-> 0,
               listed |-> {}, del |-> {}]
IdleWorker == [pc |-> "idle", ev |-> Nobody, queued |-> 0, takes |-> FALSE]

WorkerPCs == {"idle", "picked", "claimed", "begin", "solving", "published",
              "unpublished", "failing", "settling", "reporting"}

ClaimState  == [by : Workers \cup {Nobody, Former}, fresh : BOOLEAN]
RunnerState == [pc : {"idle", "ef5", "listed", "judged"},
                ev : Events \cup {Nobody}, stamp : 0..MaxStamp,
                listed : SUBSET Files, del : SUBSET Files]
WorkerState == [pc : WorkerPCs, ev : Events \cup {Nobody},
                queued : 0..MaxStamp, takes : BOOLEAN]
Sessions    == [Events -> {"none", "clean", "dirty"}]

TypeOK ==
    /\ spec \in [Events -> 0..MaxStamp]
    /\ claim \in [Events -> ClaimState]
    /\ failed \in SUBSET Events
    /\ age \in [Events -> 0..2]
    /\ runner \in RunnerState
    /\ worker \in [Workers -> WorkerState]
    /\ done \in [Workers -> SUBSET Stamps]
    /\ sess \in [Workers -> Sessions]
    /\ clock \in 0..MaxStamp /\ faults \in 0..MaxFaults
    /\ crashes \in 0..MaxCrashes
    /\ newest \in [Events -> 0..MaxStamp]
    /\ published \in SUBSET Stamps /\ reported \in SUBSET Stamps
    /\ swept \in SUBSET Stamps /\ raced \in SUBSET Stamps

Init ==
    /\ spec = [e \in Events |-> 0]
    /\ claim = [e \in Events |-> NoClaim]
    /\ failed = {}
    /\ age = [e \in Events |-> 0]
    /\ runner = IdleRunner
    /\ worker = [w \in Workers |-> IdleWorker]
    /\ done = [w \in Workers |-> {}]
    /\ sess = [w \in Workers |-> [e \in Events |-> "none"]]
    /\ clock = 0 /\ faults = 0 /\ crashes = 0
    /\ newest = [e \in Events |-> 0]
    /\ published = {} /\ reported = {} /\ swept = {} /\ raced = {}

-----------------------------------------------------------------------------
(* The dataset: what a listing shows, and what a commit of deletions does. *)

Fresh(e) == claim[e].fresh

Present ==
    {<<"spec", e>> : e \in {x \in Events : spec[x] # 0}}
      \cup {<<"claim", e>> : e \in {x \in Events : claim[x] # NoClaim}}
      \cup {<<"failed", e>> : e \in failed}

Lands(del) == del \subseteq Present

Fault == faults < MaxFaults /\ faults' = faults + 1
NoFault == UNCHANGED faults

-----------------------------------------------------------------------------
(* The runner. *)

\* run_one: an episode a worker is mid-solve on is skipped; otherwise EF5
\* runs for minutes before the bundle is offered.
RunOne(e) ==
    /\ runner.pc = "idle" /\ clock < MaxStamp
    /\ \/ ~Fresh(e) /\ NoFault
       \/ Fault                          \* an unreadable claim reads as none
    /\ runner' = [IdleRunner EXCEPT !.pc = "ef5", !.ev = e]
    /\ UNCHANGED <<queueVars, worker, done, sess, clock, crashes, histVars>>

\* run_one raises or returns before the bundle is offered: no basin, a basin
\* over the native capacity or a trimmed domain (_capacity_skip), EF5 or the
\* boundary preparation failing.  The queue is as it was.
GiveUp ==
    /\ runner.pc = "ef5"
    /\ runner' = IdleRunner
    /\ UNCHANGED <<queueVars, worker, done, sess, clock, faults, crashes,
                   histVars>>

\* The spec is stamped, then enqueue lists the queue; a failed listing is
\* taken as an empty one.
EnqueueList ==
    /\ runner.pc = "ef5" /\ clock < MaxStamp
    /\ clock' = clock + 1
    /\ \E seen \in {Present, {}} :
          /\ seen # Present => Fault
          /\ seen = Present => NoFault
          /\ runner' = [runner EXCEPT !.pc = "listed", !.stamp = clock + 1,
                                      !.listed = seen]
    /\ UNCHANGED <<queueVars, worker, done, sess, crashes, histVars>>

\* Slip: the age of the id stands for the age of the job.
IdleAndOldById(x) == ~Fresh(x) /\ age[x] >= 1

\* _entry_idle_and_old of another event
IdleAndOld(x) ==
    /\ ~Fresh(x)
    /\ IF spec[x] = 0 THEN age[x] >= 1 ELSE age[x] = 2

\* Which listed files the commit will delete: prior claim and error report of
\* this event (the claim unless it is fresh), every file of an old idle one.
Doomed(e, listed, claimRead) ==
    {f \in listed :
        \/ f = <<"claim", e>> /\ ~(claimRead /\ Fresh(e))
        \/ f = <<"failed", e>>
        \/ f[2] # e /\ IdleAndOld(f[2])}

EnqueueJudge ==
    /\ runner.pc = "listed"
    /\ \/ /\ NoFault
          /\ runner' = [runner EXCEPT !.pc = "judged",
                          !.del = Doomed(runner.ev, runner.listed, TRUE)]
       \/ /\ Fault                 \* the read of its own claim fails: no claim
          /\ runner' = [runner EXCEPT !.pc = "judged",
                          !.del = Doomed(runner.ev, runner.listed, FALSE)]
       \/ /\ Fault                 \* a strict read fails: enqueue gives up
          /\ runner' = IdleRunner
    /\ UNCHANGED <<queueVars, worker, done, sess, clock, crashes, histVars>>

\* A worker whose consuming commit is already decided will delete the new job.
ConsumePending(e) ==
    \E w \in Workers : /\ worker[w].pc \in {"settling", "reporting"}
                       /\ worker[w].takes /\ worker[w].ev = e

EnqueueCommit ==
    LET e == runner.ev
        gone == {x \in Events : <<"spec", x>> \in runner.del}
    IN
    /\ runner.pc = "judged"
    /\ runner' = IdleRunner
    /\ \/ /\ Lands(runner.del) /\ NoFault
          /\ spec' = [x \in Events |-> IF x = e THEN runner.stamp
                                       ELSE IF x \in gone THEN 0 ELSE spec[x]]
          /\ claim' = [x \in Events |-> IF <<"claim", x>> \in runner.del
                                        THEN NoClaim ELSE claim[x]]
          /\ failed' = {x \in failed : <<"failed", x>> \notin runner.del}
          /\ age' = [age EXCEPT ![e] = IF @ = 2 THEN 1 ELSE @]
          /\ newest' = [newest EXCEPT ![e] = runner.stamp]
          /\ swept' = swept \cup {spec[x] : x \in gone}
          /\ raced' = raced \cup (IF ConsumePending(e) THEN {runner.stamp}
                                  ELSE {})
          /\ UNCHANGED <<published, reported>>
       \/ /\ ~Lands(runner.del) /\ NoFault
          /\ UNCHANGED <<queueVars, histVars>>
       \/ /\ Fault
          /\ UNCHANGED <<queueVars, histVars>>
    /\ UNCHANGED <<worker, done, sess, clock, crashes>>

-----------------------------------------------------------------------------
(* A worker. *)

\* Slip: what this process has finished is not remembered.
CandidatesForgetful(w, claimRead) ==
    {e \in Events : spec[e] # 0 /\ ~(claimRead /\ Fresh(e) /\ claim[e].by # w)}

\* _scan: not done, not held by another worker's fresh claim.  An unreadable
\* claim counts as none.
Candidates(w, claimRead) ==
    {e \in Events :
        /\ spec[e] # 0 /\ spec[e] \notin done[w]
        /\ ~(claimRead /\ Fresh(e) /\ claim[e].by # w)}

Resident(w) == {e \in Events : sess[w][e] # "none"}

\* events with a resident session first, then the oldest job
First(e, cands, resident) ==
    \A x \in cands :
        \/ e \in resident /\ x \notin resident
        \/ (e \in resident <=> x \in resident) /\ spec[e] <= spec[x]

\* An idle tick: evict parked sessions (idle for long, or beyond the cap),
\* scan, pick.  A tick that finds nothing, or no budget, changes nothing.
Pick(w) ==
    /\ worker[w].pc = "idle"
    /\ \E keep \in SUBSET Resident(w), claimRead \in BOOLEAN, e \in Events :
          /\ Cardinality(keep) <= MaxSessions
          /\ IF claimRead THEN NoFault ELSE Fault
          /\ e \in Candidates(w, claimRead)
          /\ First(e, Candidates(w, claimRead), keep)
          /\ sess' = [sess EXCEPT ![w] =
                        [x \in Events |-> IF x \in keep THEN @[x] ELSE "none"]]
          /\ worker' = [worker EXCEPT ![w] =
                [pc |-> IF w \in Publishers THEN "picked" ELSE "begin",
                 ev |-> e, queued |-> spec[e], takes |-> FALSE]]
    /\ UNCHANGED <<queueVars, runner, done, clock, crashes, histVars>>

Goto(w, pc) == worker' = [worker EXCEPT ![w].pc = pc]
Release(w) == worker' = [worker EXCEPT ![w] = IdleWorker]
Drop(w, e) == sess' = [sess EXCEPT ![w][e] = "none"]
Finished(w) == done' = [done EXCEPT ![w] = @ \cup {worker[w].queued}]

CommitClaim(w, e) == claim' = [claim EXCEPT ![e] = [by |-> w, fresh |-> TRUE]]

\* _start_job: commit the claim, blind to whatever the queue holds by now
Claim(w) ==
    /\ worker[w].pc = "picked"
    /\ \/ CommitClaim(w, worker[w].ev) /\ Goto(w, "claimed") /\ NoFault
       \/ /\ Release(w) /\ Fault      \* refused, or it landed unacknowledged
          /\ UNCHANGED claim \/ CommitClaim(w, worker[w].ev)
    /\ UNCHANGED <<spec, failed, age, runner, done, sess, clock, crashes,
                   histVars>>

\* Slip: any fresh claim, the worker's own too, counts as another's.
RecheckAnyFresh(w) ==
    /\ worker[w].pc = "claimed"
    /\ IF Fresh(worker[w].ev) THEN Release(w) ELSE Goto(w, "begin")
    /\ UNCHANGED <<queueVars, runner, done, sess, clock, faults, crashes,
                   histVars>>

\* ... then, 3 s later, read it back: whoever wrote last has the job
Recheck(w) ==
    /\ worker[w].pc = "claimed"
    /\ \/ claim[worker[w].ev].by = w /\ Goto(w, "begin") /\ NoFault
       \/ claim[worker[w].ev].by # w /\ Release(w) /\ NoFault
       \/ Release(w) /\ Fault
    /\ UNCHANGED <<queueVars, runner, done, sess, clock, crashes, histVars>>

\* ... drop a session of another domain, fetch the forcing tar (gone if the
\* job is), build or reuse the session and begin the visit
Begin(w) ==
    LET e == worker[w].ev IN
    /\ worker[w].pc = "begin"
    /\ \/ /\ spec[e] # 0 /\ NoFault
          /\ Goto(w, "solving")
          /\ \E changed \in BOOLEAN :
                sess' = [sess EXCEPT ![w][e] =
                           IF changed \/ @ = "none" THEN "clean" ELSE @]
       \/ /\ IF spec[e] = 0 THEN NoFault ELSE Fault
          /\ Goto(w, "failing")
          /\ UNCHANGED sess
    /\ UNCHANGED <<queueVars, runner, done, clock, crashes, histVars>>

\* tick: a heartbeat rewrites the claim whatever it holds, even if it is gone
Heartbeat(w) ==
    /\ worker[w].pc = "solving" /\ w \in Publishers
    /\ CommitClaim(w, worker[w].ev)
    /\ UNCHANGED <<spec, failed, age, localVars, clock, faults, crashes,
                   histVars>>

\* a GPU chunk raises an error that is neither capacity nor quota
ChunkFails(w) ==
    /\ worker[w].pc = "solving" /\ Fault
    /\ Goto(w, "failing")
    /\ UNCHANGED <<queueVars, runner, done, sess, clock, crashes, histVars>>

\* ... or a quota error that names no retry time: hand the job back
QuotaRelease(w) ==
    LET e == worker[w].ev IN
    /\ worker[w].pc = "solving" /\ Fault
    /\ \/ claim' = [claim EXCEPT ![e] = NoClaim] /\ w \in Publishers
       \/ UNCHANGED claim               \* shadow, or the commit was refused
    /\ Drop(w, e) /\ Release(w)
    /\ UNCHANGED <<spec, failed, age, runner, done, clock, crashes, histVars>>

\* _finish_job up to the publish: end_visit, archive, publish_event
Publish(w) ==
    /\ worker[w].pc = "solving"
    /\ w \in Publishers
    /\ \/ /\ Goto(w, "published") /\ NoFault
          /\ published' = published \cup {worker[w].queued}
       \/ Goto(w, "unpublished") /\ Fault /\ UNCHANGED published
    /\ UNCHANGED <<queueVars, runner, done, sess, clock, crashes, newest,
                   reported, swept, raced>>

\* a shadow worker publishes nothing and held no claim
FinishShadow(w) ==
    /\ worker[w].pc = "solving" /\ w \notin Publishers
    /\ Finished(w) /\ Release(w)
    /\ UNCHANGED <<queueVars, runner, sess, clock, faults, crashes,
                   histVars>>

\* an exception inside _finish_job: its finally clause clears the job before
\* the handler's _fail_job can use it, so nothing is reported or released and
\* the half-done session stays resident
FinishRaises(w) ==
    /\ worker[w].pc = "solving" /\ Fault
    /\ Finished(w) /\ Release(w)
    /\ \/ UNCHANGED sess                \* end_visit had rolled it back
       \/ sess' = [sess EXCEPT ![w][worker[w].ev] = "dirty"]
    /\ UNCHANGED <<queueVars, runner, clock, crashes, histVars>>

AfterLook(w) ==
    IF worker[w].pc = "failing" THEN "reporting" ELSE "settling"

\* Slip: the queued spec is consumed without comparing its stamp.
ReadBackBlind(w) ==
    /\ worker[w].pc \in {"published", "unpublished", "failing"}
    /\ w \in Publishers
    /\ worker' = [worker EXCEPT ![w] =
          [@ EXCEPT !.pc = AfterLook(w),
                    !.takes = worker[w].pc # "unpublished"]]
    /\ NoFault
    /\ UNCHANGED <<queueVars, runner, done, sess, clock, crashes, histVars>>

\* Slip: the spec is consumed whatever became of the publish.
ReadBackPublished(w) ==
    LET same == spec[worker[w].ev] = worker[w].queued IN
    /\ worker[w].pc \in {"published", "unpublished", "failing"}
    /\ w \in Publishers
    /\ \E readable \in BOOLEAN :
          /\ IF readable THEN NoFault ELSE Fault
          /\ worker' = [worker EXCEPT ![w] =
                [@ EXCEPT !.pc = AfterLook(w), !.takes = readable /\ same]]
    /\ UNCHANGED <<queueVars, runner, done, sess, clock, crashes, histVars>>

\* _finish_job and _fail_job read the spec back: only the very job that was
\* solved is consumed, and only if it was published.  An unreadable spec is
\* left alone.
ReadBack(w) ==
    LET same == spec[worker[w].ev] = worker[w].queued IN
    /\ worker[w].pc \in {"published", "unpublished", "failing"}
    /\ w \in Publishers
    /\ \E readable \in BOOLEAN :
          /\ IF readable THEN NoFault ELSE Fault
          /\ worker' = [worker EXCEPT ![w] =
                [@ EXCEPT !.pc = AfterLook(w),
                          !.takes = readable /\ same
                                      /\ worker[w].pc # "unpublished"]]
    /\ UNCHANGED <<queueVars, runner, done, sess, clock, crashes, histVars>>

\* ... and the commit that releases the claim and consumes the job
Consumed(w) ==
    {<<"claim", worker[w].ev>>}
      \cup (IF worker[w].takes THEN {<<"spec", worker[w].ev>>} ELSE {})

ConsumeCommit(w) ==
    LET e == worker[w].ev
        reports == worker[w].pc = "reporting" /\ worker[w].takes
    IN
    \/ /\ Lands(Consumed(w)) /\ NoFault
       /\ claim' = [claim EXCEPT ![e] = NoClaim]
       /\ spec' = [spec EXCEPT ![e] = IF worker[w].takes THEN 0 ELSE @]
       /\ failed' = IF reports THEN failed \cup {e} ELSE failed
       /\ reported' = IF reports THEN reported \cup {worker[w].queued}
                      ELSE reported
    \/ /\ IF Lands(Consumed(w)) THEN Fault ELSE NoFault
       /\ UNCHANGED <<claim, spec, failed, reported>>

Settle(w) ==
    /\ worker[w].pc = "settling"
    /\ ConsumeCommit(w)
    /\ Finished(w) /\ Release(w)
    /\ UNCHANGED <<age, runner, sess, clock, crashes, newest, published, swept,
                   raced>>

\* _fail_job: mid-visit state is not trustworthy, the session goes
Report(w) ==
    /\ worker[w].pc = "reporting"
    /\ ConsumeCommit(w)
    /\ Finished(w) /\ Release(w) /\ Drop(w, worker[w].ev)
    /\ UNCHANGED <<age, runner, clock, crashes, newest, published, swept,
                   raced>>

FailShadow(w) ==
    /\ worker[w].pc = "failing" /\ w \notin Publishers
    /\ Finished(w) /\ Release(w) /\ Drop(w, worker[w].ev)
    /\ UNCHANGED <<queueVars, runner, clock, faults, crashes,
                   histVars>>

\* The Space is rebuilt: everything in RAM is gone.  The identity holds the
\* process id, which the new process may or may not share.
Crash(w) ==
    /\ crashes < MaxCrashes /\ crashes' = crashes + 1
    /\ worker' = [worker EXCEPT ![w] = IdleWorker]
    /\ done' = [done EXCEPT ![w] = {}]
    /\ sess' = [sess EXCEPT ![w] = [e \in Events |-> "none"]]
    /\ \E sameIdent \in BOOLEAN :
          claim' = [e \in Events |->
                      IF claim[e].by = w /\ ~sameIdent
                      THEN [claim[e] EXCEPT !.by = Former] ELSE claim[e]]
    /\ UNCHANGED <<spec, failed, age, runner, clock, faults, histVars>>

-----------------------------------------------------------------------------
(* Time. *)

\* no heartbeat for CLAIM_FRESH_S = ZERO_STALE_S (600 s; far longer than the
\* 3 s between a claim and its recheck)
Expire(e) ==
    /\ Fresh(e)
    /\ \A w \in Workers : claim[e].by = w => worker[w].pc # "claimed"
    /\ claim' = [claim EXCEPT ![e].fresh = FALSE]
    /\ UNCHANGED <<spec, failed, age, localVars, clock, faults, crashes,
                   histVars>>

\* the event id passes QUEUE_MAX_AGE_H, later the queued job its own limit
Age(e) ==
    /\ age[e] < 2 /\ (age[e] = 1 => spec[e] # 0)
    /\ age' = [age EXCEPT ![e] = @ + 1]
    /\ UNCHANGED <<spec, claim, failed, localVars, clock, faults, crashes,
                   histVars>>

-----------------------------------------------------------------------------
RunnerStep ==
    \/ \E e \in Events : RunOne(e)
    \/ GiveUp \/ EnqueueList \/ EnqueueJudge \/ EnqueueCommit

\* What a worker does with a result, and with an error: one that only
\* shadows skips what a publisher does on the Hub (`if PUBLISH').
Solved(w) == IF w \in Publishers THEN Publish(w) ELSE FinishShadow(w)
LookBack(w) == IF w \in Publishers THEN ReadBack(w) ELSE FailShadow(w)

WorkerStep(w) ==
    \/ Pick(w) \/ Claim(w) \/ Recheck(w) \/ Begin(w)
    \/ Solved(w) \/ LookBack(w) \/ Settle(w) \/ Report(w)

Trouble(w) == ChunkFails(w) \/ QuotaRelease(w) \/ FinishRaises(w) \/ Crash(w)

Next ==
    \/ RunnerStep
    \/ \E w \in Workers : WorkerStep(w) \/ Heartbeat(w) \/ Trouble(w)
    \/ \E e \in Events : Expire(e) \/ Age(e)

Spec == Init /\ [][Next]_vars

\* The self-drive loop ticks every worker for ever, a runner that does not
\* give up takes its enqueue to its end, and time passes.
Fairness ==
    /\ WF_vars(EnqueueList \/ EnqueueJudge \/ EnqueueCommit)
    /\ \A w \in Workers : WF_vars(WorkerStep(w))
    /\ \A e \in Events : WF_vars(Expire(e))

FairSpec == Spec /\ Fairness
-----------------------------------------------------------------------------
(* Properties. *)

\* The last job enqueued for an event is still queued, or was solved and
\* published, or reported as failed, or swept as old and idle -- or it landed
\* in the gap between a worker's last look at the spec and the worker's
\* consuming commit.  No other interleaving, failed read or commit, error or
\* crash loses a job (_finish_job, _fail_job, enqueue).
Accounted ==
    \A e \in Events : newest[e] # 0 =>
        newest[e] \in {spec[e]} \cup published \cup reported \cup swept
                        \cup raced

\* A job leaves the queue by a sweep only past its own age limit: the age of
\* the id of a re-enqueued old episode never takes its fresh bundle
\* (_entry_idle_and_old).
YoungJobNeverSwept ==
    [][\A e \in Events : /\ runner.pc = "judged" /\ runner.ev # e
                         /\ spec[e] # 0 /\ spec'[e] = 0
                         /\ runner' = IdleRunner
                         => age[e] = 2]_vars

\* One publishing process publishes no job twice, even when the commit that
\* consumes it is refused and the spec stays behind (W["done"] of _scan).
PublishedOnce ==
    [][\A w \in Workers : worker[w].pc = "solving"
                           /\ worker'[w].pc = "published"
                           => worker[w].queued \notin published]_vars

\* However claims, crashes, stale listings and refused commits interleave,
\* the queue is a ledger of jobs: none leaves it unsolved but by a report, a
\* sweep or the gap above, and newer jobs replace older ones only.
Ledger == INSTANCE JobLedger WITH
    queued <- spec, closed <- reported \cup swept \cup raced
ImplementsLedger == Ledger!Spec

\* No queued job stays queued: some worker solves or reports it, or a
\* newer one replaces it, however the claims of two workers interleave.
JobsResolve ==
    \A e \in Events, s \in Stamps : []<>(spec[e] # s)

\* enqueue's comment: "the worker re-scans the replaced spec when it
\* finishes" -- a job enqueued over one being solved is not lost.
ReplacedSpecSurvives ==
    \A e \in Events : newest[e] # 0 =>
        newest[e] \in {spec[e]} \cup published \cup reported \cup swept

=============================================================================
