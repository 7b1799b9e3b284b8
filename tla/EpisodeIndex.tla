---------------------------- MODULE EpisodeIndex ----------------------------
(***************************************************************************)
(* Everybody who changes events/index.json and the episode folders:        *)
(*                                                                         *)
(*   a worker       publishes a solved job           (eventstore,          *)
(*                                                    gpu_worker_space)    *)
(*   the tick       ends, reopens and starts         (eventsim)            *)
(*                  episodes and sweeps old files                          *)
(*   a finalizer    scores ended episodes: threads of the tick, and the    *)
(*                  merger's own                     (eventstore)          *)
(*   the merger     folds the ended episodes of a    (merge_episodes)      *)
(*                  flood into one                                         *)
(*                                                                         *)
(* Workers and the tick read the index, work for minutes, and commit the   *)
(* whole file over whatever is there by then.  Finalizers and the merger   *)
(* commit against the revision they read and start over when it moved, so  *)
(* their read and commit are one step here.                                *)
(*                                                                         *)
(* The job queue is the set of episodes with a spec in it; what may go     *)
(* wrong with one job is the subject of EventQueue.                        *)
(***************************************************************************)
EXTENDS EpisodeStore

CONSTANTS
    Workers,        \* GPU workers that publish
    Threads,        \* bound: finalize threads of the tick process at a time
    Past,           \* episodes already listed, ended and scored at the start
    MaxTicks,       \* bound: hourly ticks
    MaxPerTick,     \* EVENT_MAX_PER_TICK
    MaxFaults       \* bound: failed reads, failed commits, restarts

Merger == "merger"
Finalizers == Threads \cup {Merger}

ASSUME EpisodeIndexAssumption ==
    /\ Merger \notin Threads
    /\ Past \in 0..N /\ Past <= MaxGen /\ Pinned \subseteq 1..Past
    /\ MaxTicks \in Nat /\ MaxPerTick \in Nat /\ MaxFaults \in Nat

VARIABLES
    index,      \* events/index.json
    manifest,   \* manifest[e]: events/<e>/manifest.json
    anim,       \* episodes whose folder holds its animation files
    queue,      \* episodes with a spec in the worker queue
    used,       \* the last episode id started
    worker,     \* worker[w]: inside publish_event
    tick,       \* the hourly tick
    fin,        \* fin[f]: a finalize_episodes call
    merger,     \* one run_pass of the merger
    gen,        \* last manifest stamp
    reopens,    \* last reopen stamp
    ticks,      \* ticks so far
    faults      \* faults so far

storeVars == <<index, manifest, anim>>
actorVars == <<worker, tick, fin, merger>>
boundVars == <<gen, reopens, ticks, faults>>
vars == <<storeVars, queue, used, actorVars, boundVars>>

IdleWorker == [pc |-> "idle", ev |-> 0, snap |-> EmptyIndex,
               man |-> NoManifest]
IdleTick == [pc |-> "idle", flagged |-> FALSE, snap |-> EmptyIndex,
             fresh |-> EmptyIndex, ended |-> {}, cand |-> 0, start |-> "none"]
IdleFin == [pc |-> "idle", began |-> 0, todo |-> {}, ev |-> 0,
            was |-> Unlisted, got |-> {}]
NoPlan == [e \in Episodes |-> 0]
IdleMerger == [pc |-> "idle", gens |-> NoPlan, parts |-> {}, sources |-> {},
               read |-> NoPlan]

Scored == [ev : Episodes, was : Entries, final : Finals]

WorkerState == [pc : {"idle", "read", "carried", "published"},
                ev : 0..N, snap : Indexes, man : Manifests]
TickState == [pc : {"idle", "mark", "marking", "pick", "reopen", "reopening",
                    "finals", "run", "sweep", "listing", "sweeping"},
              flagged : BOOLEAN, snap : Indexes, fresh : Indexes,
              ended : SUBSET Episodes, cand : 0..N,
              start : {"none", "new", "reopened"}]
FinState == [pc : {"idle", "reading", "scoring"},
             began : 0..MaxReopens + 1, todo : SUBSET Episodes, ev : 0..N,
             was : Entries, got : SUBSET Scored]
MergerState == [pc : {"idle", "building", "committing", "dropping",
                      "finalizing"},
                gens : [Episodes -> 0..MaxGen], parts : SUBSET Episodes,
                sources : SUBSET Episodes, read : [Episodes -> 0..MaxGen]]

TypeOK ==
    /\ index \in Indexes
    /\ manifest \in [Episodes -> Manifests]
    /\ anim \in SUBSET Episodes
    /\ queue \in SUBSET Episodes
    /\ used \in 0..N
    /\ worker \in [Workers -> WorkerState]
    /\ tick \in TickState
    /\ fin \in [Finalizers -> FinState]
    /\ merger \in MergerState
    /\ gen \in 0..MaxGen /\ reopens \in 0..MaxReopens
    /\ ticks \in 0..MaxTicks /\ faults \in 0..MaxFaults

\* The past episodes were published, ended and scored one after the other.
Init ==
    /\ index = [e \in Episodes |->
                  IF e > Past THEN Unlisted
                  ELSE LET m == [gen |-> e, parts |-> {e}]
                       IN [Unlisted EXCEPT !.status = "ended", !.man = m,
                                           !.final = {m},
                                           !.pos = 1 + Past - e]]
    /\ manifest = [e \in Episodes |-> index[e].man]
    /\ anim = 1..Past
    /\ queue = {} /\ used = Past
    /\ worker = [w \in Workers |-> IdleWorker]
    /\ tick = IdleTick
    /\ fin = [f \in Finalizers |-> IdleFin]
    /\ merger = IdleMerger
    /\ gen = Past /\ reopens = 0 /\ ticks = 0 /\ faults = 0

Fault == faults < MaxFaults /\ faults' = faults + 1
NoFault == UNCHANGED faults

\* load_index: any failure reads as an empty index.
LoadIndex(got) ==
    \/ got = index /\ NoFault
    \/ got = EmptyIndex /\ got # index /\ Fault

-----------------------------------------------------------------------------
(* A worker: publish_event of a solved job. *)

ReadIndex(w, e) ==
    /\ worker[w].pc = "idle" /\ e \in queue
    /\ \A v \in Workers : worker[v].ev # e           \* e is claimed once
    /\ gen < MaxGen /\ gen' = gen + 1
    /\ \E got \in {index, EmptyIndex} :
          /\ LoadIndex(got)
          /\ worker' = [worker EXCEPT ![w] =
                [pc |-> "read", ev |-> e, snap |-> got,
                 man |-> [gen |-> gen + 1, parts |-> {e}]]]
    /\ UNCHANGED <<storeVars, queue, used, tick, fin, merger, reopens, ticks>>

\* Slip: the frames a merge brought in are not carried forward.
CarriedOwn(e, snap) ==
    IF e \in Listed(snap) /\ e \in anim THEN manifest[e].parts \cap {e} ELSE {}

\* Older frames of a listed episode are carried forward, those the store
\* still holds.
Carried(e, snap) ==
    IF e \in Listed(snap) /\ e \in anim THEN manifest[e].parts ELSE {}

CarryFrames(w) ==
    /\ worker[w].pc = "read"
    /\ \/ /\ NoFault
          /\ worker' = [worker EXCEPT ![w].pc = "carried",
                ![w].man.parts =
                    {worker[w].ev} \cup Carried(worker[w].ev, worker[w].snap)]
       \/ /\ Fault                       \* the prior manifest is unreadable
          /\ worker' = [worker EXCEPT ![w].pc = "carried"]
    /\ UNCHANGED <<storeVars, queue, used, tick, fin, merger, gen, reopens,
                   ticks>>

\* One commit: the folder, the list with this event in front, and the
\* animations of the entries the cap pushes off it.  A dry solve publishes
\* the episode as ended.  An unreadable pinned set drops nothing.
PublishCommit(w) ==
    LET e == worker[w].ev IN
    /\ worker[w].pc = "carried"
    /\ \/ /\ \E status \in {"active", "ended"}, pinsRead \in BOOLEAN :
                LET listed == Prepend(worker[w].snap, e, worker[w].man, status)
                    dropped == IF pinsRead THEN OverCap(listed) \ {e} ELSE {}
                IN /\ IF pinsRead THEN NoFault ELSE Fault
                   /\ index' = Without(listed, dropped)
                   /\ anim' = (anim \cup {e}) \ dropped
          /\ manifest' = [manifest EXCEPT ![e] = worker[w].man]
          /\ worker' = [worker EXCEPT ![w] =
                          [IdleWorker EXCEPT !.pc = "published", !.ev = e]]
       \/ /\ Fault                       \* refused: the job stays queued
          /\ worker' = [worker EXCEPT ![w] = IdleWorker]
          /\ UNCHANGED storeVars
    /\ UNCHANGED <<queue, used, tick, fin, merger, gen, reopens, ticks>>

\* _finish_job takes the job off the queue in a commit of its own.
Consume(w) ==
    /\ worker[w].pc = "published"
    /\ \/ queue' = queue \ {worker[w].ev} /\ NoFault
       \/ queue' = queue /\ Fault
    /\ worker' = [worker EXCEPT ![w] = IdleWorker]
    /\ UNCHANGED <<storeVars, used, tick, fin, merger, gen, reopens, ticks>>

WorkerStep(w) ==
    CarryFrames(w) \/ PublishCommit(w) \/ Consume(w)

-----------------------------------------------------------------------------
(* The hourly tick. *)

GoTo(pc) == tick' = [tick EXCEPT !.pc = pc]

\* Reads the index and decides: is the gauge flagged this hour, and which
\* active episodes ended (the river receded for all of them, or the older
\* ones outlived MAX_EPISODE_H).
TickStart ==
    /\ tick.pc = "idle" /\ ticks < MaxTicks /\ ticks' = ticks + 1
    /\ \E got \in {index, EmptyIndex}, flagged \in BOOLEAN, k \in 0..N :
          LET ended == {e \in Active(got) : e <= k} IN
          /\ LoadIndex(got)
          /\ k # 0 => k \in ended
          /\ tick' = [IdleTick EXCEPT
                        !.pc = IF ended = {} THEN "pick" ELSE "mark",
                        !.flagged = flagged, !.snap = got, !.ended = ended]
    /\ UNCHANGED <<storeVars, queue, used, worker, fin, merger, gen, reopens>>

MarkRead ==
    /\ tick.pc = "mark"
    /\ \E got \in {index, EmptyIndex} :
          /\ LoadIndex(got)
          /\ IF Endable(got, tick.ended) = {}
             THEN GoTo("pick")
             ELSE tick' = [tick EXCEPT !.pc = "marking", !.fresh = got]
    /\ UNCHANGED <<storeVars, queue, used, worker, fin, merger, gen, reopens,
                   ticks>>

MarkCommit ==
    /\ tick.pc = "marking"
    /\ \/ index' = MarkEnded(tick.fresh, tick.ended) /\ NoFault
       \/ index' = index /\ Fault
    /\ tick' = [tick EXCEPT !.pc = "pick", !.fresh = EmptyIndex]
    /\ UNCHANGED <<manifest, anim, queue, used, worker, fin, merger, gen,
                   reopens, ticks>>

Jobs == Active(tick.snap) \ tick.ended

\* _reopen_candidate: the newest unabsorbed episode, ended but not by this
\* tick.  (Whether it ended within REOPEN_H: recent.)
ReopenCandidates ==
    {e \in Episodes : /\ IsNewest(e, Members(tick.snap))
                      /\ e \notin tick.ended \cup Active(tick.snap)}

\* A flagged gauge without an episode to refresh: reopen its last one or
\* start a new id, unless a job for it is queued already.  An unreadable
\* queue counts as empty, except for the candidate itself.
Pick ==
    /\ tick.pc = "pick"
    /\ \E recent, queueRead \in BOOLEAN :
          LET cands == IF recent THEN ReopenCandidates ELSE {}
              wanted == /\ tick.flagged /\ Jobs = {}
                        /\ queueRead => queue = {}
          IN /\ IF queueRead THEN NoFault ELSE queue # {} /\ Fault
             /\ \/ /\ wanted /\ cands = {}
                   /\ tick' = [tick EXCEPT !.pc = "finals", !.start = "new"]
                \/ \E e \in cands \ queue :
                      /\ wanted
                      /\ tick' = [tick EXCEPT !.pc = "reopen", !.cand = e]
                \/ /\ ~wanted \/ cands \cap queue # {}
                   /\ tick' = [tick EXCEPT !.pc = "finals"]
    /\ UNCHANGED <<storeVars, queue, used, worker, fin, merger, gen, reopens,
                   ticks>>

Decide(start) == tick' = [tick EXCEPT !.pc = "finals", !.start = start]

ReopenRead ==
    LET e == tick.cand IN
    /\ tick.pc = "reopen"
    /\ \/ /\ e \in Pinned /\ NoFault /\ Decide("new")         \* refused
       \/ /\ Fault /\ Decide("new")                 \* pins unreadable: []
       \/ /\ e \notin Pinned
          /\ \E got \in {index, EmptyIndex} :
                /\ LoadIndex(got)
                /\ CASE got = EmptyIndex -> Decide("none")     \* failed
                     [] got # EmptyIndex /\ e \notin Listed(got)
                            -> Decide("new")                   \* refused
                     [] e \in Listed(got) /\ Superseded(got, e)
                            -> Decide("none")
                     [] e \in Active(got) /\ ~Superseded(got, e)
                            -> Decide("reopened")
                     [] OTHER -> tick' = [tick EXCEPT !.pc = "reopening",
                                                      !.fresh = got]
    /\ UNCHANGED <<storeVars, queue, used, worker, fin, merger, gen, reopens,
                   ticks>>

ReopenCommit ==
    /\ tick.pc = "reopening"
    /\ \/ /\ reopens < MaxReopens /\ reopens' = reopens + 1 /\ NoFault
          /\ index' = Reopen(tick.fresh, tick.cand, reopens + 1)
          /\ tick' = [tick EXCEPT !.pc = "finals", !.fresh = EmptyIndex,
                                  !.start = "reopened"]
       \/ /\ Fault
          /\ tick' = [tick EXCEPT !.pc = "finals", !.fresh = EmptyIndex]
          /\ UNCHANGED <<index, reopens>>
    /\ UNCHANGED <<manifest, anim, queue, used, worker, fin, merger, gen,
                   ticks>>

-----------------------------------------------------------------------------
(* finalize_episodes: f scores the episodes of todo, then commits once. *)

\* A pass begins after the last reopen so far, at the time stamp the next
\* one may carry: stamps are whole seconds.
StartFinal(f, todo) ==
    fin' = [fin EXCEPT ![f] = [IdleFin EXCEPT !.pc = "reading",
                                              !.began = reopens + 1,
                                              !.todo = todo]]

FinalRead(f, e) ==
    /\ fin[f].pc = "reading" /\ e \in fin[f].todo
    /\ \E got \in {index, EmptyIndex} :
          /\ LoadIndex(got)
          /\ fin' = IF Unfinished(got[e])
                    THEN [fin EXCEPT ![f].pc = "scoring", ![f].ev = e,
                                     ![f].was = got[e]]
                    ELSE [fin EXCEPT ![f].todo = @ \ {e}]
    /\ UNCHANGED <<storeVars, queue, used, worker, tick, merger, gen, reopens,
                   ticks>>

\* The manifest is read after the index entry.
FinalScore(f) ==
    LET s == fin[f] IN
    /\ fin[f].pc = "scoring"
    /\ \E man \in {manifest[s.ev], NoManifest} :
          /\ IF man = manifest[s.ev] THEN NoFault ELSE Fault
          /\ fin' = [fin EXCEPT ![f] =
                [s EXCEPT !.pc = "reading", !.todo = @ \ {s.ev}, !.ev = 0,
                          !.was = Unlisted,
                          !.got = @ \cup {[ev |-> s.ev, was |-> s.was,
                                           final |-> {man}]}]]
    /\ UNCHANGED <<storeVars, queue, used, worker, tick, merger, gen, reopens,
                   ticks>>

\* Against the revision it read; an unreadable index or a refused commit
\* writes nothing.
FinalCommit(f) ==
    /\ fin[f].pc = "reading" /\ fin[f].todo = {}
    /\ \/ index' = WriteFinals(index, fin[f].got, fin[f].began) /\ NoFault
       \/ fin[f].got # {} /\ index' = index /\ Fault
    /\ fin' = [fin EXCEPT ![f] = IdleFin]
    /\ UNCHANGED <<manifest, anim, queue, used, worker, tick, merger, gen,
                   reopens, ticks>>

FinStep(f) ==
    (\E e \in Episodes : FinalRead(f, e)) \/ FinalScore(f) \/ FinalCommit(f)

-----------------------------------------------------------------------------
(* The tick, continued. *)

\* Ended now, or ended and still without a final; not the one just reopened.
ToFinal ==
    tick.ended \cup
    {e \in Listed(tick.snap) :
        /\ tick.snap[e].status = "ended" /\ tick.snap[e].final = {}
        /\ ~(tick.start = "reopened" /\ e = tick.cand)}

DispatchFinals ==
    /\ tick.pc = "finals"
    /\ IF ToFinal = {} THEN UNCHANGED fin
       ELSE \E f \in Threads : fin[f].pc = "idle" /\ StartFinal(f, ToFinal)
    /\ GoTo("run")
    /\ UNCHANGED <<storeVars, queue, used, worker, merger, boundVars>>

\* run_one of the episodes that go on and of the new one; each may fail or be
\* put off for lack of capacity.
RunJobs ==
    LET new == IF tick.start = "new" /\ used < N THEN {used + 1} ELSE {}
        again == IF tick.start = "reopened" THEN {tick.cand} ELSE {}
    IN
    /\ tick.pc = "run"
    /\ \E run \in SUBSET (new \cup again \cup Jobs) :
          /\ Cardinality(run) <= MaxPerTick
          /\ queue' = queue \cup run
          /\ used' = IF new \cap run = {} THEN used ELSE used + 1
    /\ tick' = [IdleTick EXCEPT !.pc = "sweep"]
    /\ UNCHANGED <<storeVars, worker, fin, merger, boundVars>>

\* retention_sweep reads the index, then lists the files.
SweepRead ==
    /\ tick.pc = "sweep"
    /\ \E got \in {index, EmptyIndex} :
          /\ LoadIndex(got)
          /\ tick' = [tick EXCEPT !.pc = "listing", !.fresh = got]
    /\ UNCHANGED <<storeVars, queue, used, worker, fin, merger, gen, reopens,
                   ticks>>

Stored == {e \in Episodes : manifest[e] # NoManifest}

\* Unlisted folders that still hold an animation.  (Age limits are off.)
Orphans(idx) ==
    IF idx = EmptyIndex THEN {} ELSE (anim \ Listed(idx)) \ Pinned

SweepList ==
    /\ tick.pc = "listing"
    /\ tick' = IF Orphans(tick.fresh) = {} THEN IdleTick
               ELSE [tick EXCEPT !.pc = "sweeping",
                                 !.ended = Orphans(tick.fresh)]
    /\ UNCHANGED <<storeVars, queue, used, worker, fin, merger, boundVars>>

SweepCommit ==
    /\ tick.pc = "sweeping"
    /\ \/ /\ index' = tick.fresh /\ anim' = anim \ tick.ended /\ NoFault
       \/ /\ UNCHANGED <<index, anim>> /\ Fault
    /\ tick' = IdleTick
    /\ UNCHANGED <<manifest, queue, used, worker, fin, merger, gen, reopens,
                   ticks>>

TickStep ==
    \/ MarkRead \/ MarkCommit \/ Pick \/ ReopenRead \/ ReopenCommit
    \/ DispatchFinals \/ RunJobs \/ SweepRead \/ SweepList \/ SweepCommit

-----------------------------------------------------------------------------
(* The merger: one pass at a time over the gauge's group. *)

\* An ended newest member without a final waits FINAL_WAIT_H (waited).
PlanMerge(waited) ==
    /\ Mergeable(index, queue)
    /\ \/ waited
       \/ \E e \in Episodes : /\ IsNewest(e, Members(index))
                              /\ index[e].final # {}
    /\ merger' = [IdleMerger EXCEPT
                    !.pc = "building",
                    !.gens = [e \in Episodes |-> IF e \in Members(index)
                                                 THEN index[e].man.gen ELSE 0]]
    /\ UNCHANGED fin

\* Slip: a merged episode is looked at again only when it has no final.
FinishUnscored ==
    \E t \in Members(index) :
        /\ Members(index) = {t} /\ Held(index, t) # {t}
        /\ index[t].status = "ended" /\ index[t].final = {}
        /\ merger' = [IdleMerger EXCEPT !.pc = "finalizing"]
        /\ StartFinal(Merger, {t})

\* "already merged": its final is missing or stale.
FinishMerged ==
    \E t \in Members(index) :
        /\ Members(index) = {t} /\ Held(index, t) # {t}
        /\ index[t].status = "ended"
        /\ \/ /\ index[t].final = {}
              /\ merger' = [IdleMerger EXCEPT !.pc = "finalizing"]
              /\ StartFinal(Merger, {t})
           \/ /\ StaleFinal(index[t])
              /\ merger' = [IdleMerger EXCEPT
                              !.pc = "dropping",
                              !.gens = [NoPlan EXCEPT ![t] = index[t].man.gen]]
              /\ UNCHANGED fin

\* A pass that finds nothing to do, or cannot read the index, changes nothing.
MergePass ==
    /\ merger.pc = "idle"
    /\ FinishMerged \/ \E waited \in BOOLEAN : PlanMerge(waited)
    /\ UNCHANGED <<storeVars, queue, used, worker, tick, boundVars>>

Planned == {m \in Episodes : merger.gens[m] # 0}

\* plan_group and build_products: the members' manifests, and the frames the
\* store holds; none at all skips the group.
MergeBuild ==
    LET sources == Planned \cap anim
        parts == UNION {manifest[m].parts : m \in sources}
    IN
    /\ merger.pc = "building"
    /\ \/ /\ NoFault
          /\ IF sources = {} \/ ~(Planned \subseteq Stored)
             THEN merger' = IdleMerger
             ELSE merger' = [merger EXCEPT !.pc = "committing",
                                           !.parts = parts,
                                           !.sources = sources,
                                           !.read = [e \in Episodes |->
                                                       manifest[e].gen]]
       \/ Fault /\ merger' = IdleMerger
    /\ UNCHANGED <<storeVars, queue, used, worker, tick, fin, gen, reopens,
                   ticks>>

\* commit_group: copies of the frames, the manifest and the index, if recheck
\* still agrees; then the merged episode is scored.
MergeCommit ==
    /\ merger.pc = "committing"
    /\ \E target \in Episodes :
        LET man == [gen |-> gen + 1, parts |-> merger.parts]
            current == /\ Recheck(index, merger.gens)
                       /\ merger.sources \ {target} \subseteq anim
        IN
        /\ IsNewest(target, Planned)
        /\ \/ /\ current /\ NoFault
              /\ gen < MaxGen /\ gen' = gen + 1
              /\ index' = Merge(index, target, Planned, man)
              /\ manifest' = [manifest EXCEPT ![target] = man]
              /\ anim' = anim \cup {target}
              /\ merger' = [IdleMerger EXCEPT !.pc = "finalizing"]
              /\ StartFinal(Merger, {target})
           \/ /\ \/ ~current /\ NoFault
                 \/ Fault
              /\ merger' = IdleMerger
              /\ UNCHANGED <<storeVars, fin, gen>>
    /\ UNCHANGED <<queue, used, worker, tick, reopens, ticks>>

\* drop_final, then finalize again (also when somebody dropped it already).
DropStale ==
    /\ merger.pc = "dropping"
    /\ \E t \in Planned :
        LET drop == /\ t \in Listed(index)
                    /\ index[t].final = {} \/ StaleFinal(index[t])
        IN
        \/ /\ drop /\ NoFault
           /\ index' = DropFinal(index, t)
           /\ merger' = [IdleMerger EXCEPT !.pc = "finalizing"]
           /\ StartFinal(Merger, {t})
        \/ /\ \/ ~drop /\ NoFault
              \/ Fault
           /\ merger' = IdleMerger
           /\ UNCHANGED <<index, fin>>
    /\ UNCHANGED <<manifest, anim, queue, used, worker, tick, gen, reopens,
                   ticks>>

MergeDone ==
    /\ merger.pc = "finalizing" /\ fin[Merger].pc = "idle"
    /\ merger' = IdleMerger
    /\ UNCHANGED <<storeVars, queue, used, worker, tick, fin, boundVars>>

MergerStep == MergePass \/ MergeBuild \/ MergeCommit \/ DropStale \/ MergeDone

-----------------------------------------------------------------------------
(* A process that dies loses what it was doing; its next start is idle. *)

WorkerCrash(w) ==
    /\ worker[w].pc # "idle" /\ Fault
    /\ worker' = [worker EXCEPT ![w] = IdleWorker]
    /\ UNCHANGED <<storeVars, queue, used, tick, fin, merger, gen, reopens,
                   ticks>>

RunnerCrash ==
    /\ tick.pc # "idle" \/ \E f \in Threads : fin[f].pc # "idle"
    /\ Fault
    /\ tick' = IdleTick
    /\ fin' = [f \in Finalizers |-> IF f = Merger THEN fin[f] ELSE IdleFin]
    /\ UNCHANGED <<storeVars, queue, used, worker, merger, gen, reopens, ticks>>

MergerCrash ==
    /\ merger.pc # "idle" /\ Fault
    /\ merger' = IdleMerger
    /\ fin' = [fin EXCEPT ![Merger] = IdleFin]
    /\ UNCHANGED <<storeVars, queue, used, worker, tick, gen, reopens, ticks>>

Next ==
    \/ \E w \in Workers : \/ \E e \in Episodes : ReadIndex(w, e)
                          \/ WorkerStep(w) \/ WorkerCrash(w)
    \/ TickStart \/ TickStep \/ RunnerCrash
    \/ \E f \in Finalizers : FinStep(f)
    \/ MergerStep \/ MergerCrash

Spec == Init /\ [][Next]_vars

\* Every process that has work left goes on with it: the worker ticks, the
\* tick runs to its end under its watchdog, the finalize threads run, and the
\* merger watches the index and never stops making passes.  The hour at
\* which a tick starts is not promised.
Fairness ==
    /\ \A w \in Workers : /\ WF_vars(\E e \in Episodes : ReadIndex(w, e))
                          /\ WF_vars(WorkerStep(w))
    /\ WF_vars(TickStep)
    /\ \A f \in Finalizers : WF_vars(FinStep(f))
    /\ WF_vars(MergerStep)

FairSpec == Spec /\ Fairness

-----------------------------------------------------------------------------
(* Properties. *)

\* Only an ended episode carries a final, and the final never counts an older
\* manifest than the one the entry describes, whoever reopened, re-published,
\* merged or reverted the entry while it was being scored (a final made without
\* its manifest, which could not be read, aside).
FinalFits ==
    \A e \in Episodes : \A m \in index[e].final :
        /\ index[e].status = "ended"
        /\ m = NoManifest \/ m.gen >= index[e].man.gen

\* An absorbed episode stays as it was absorbed: nobody ends, reopens or
\* scores it (merge_episodes.py: "never final or status on an absorbed
\* member"), not even by writing back an index read before the merge.
AbsorbedFrozen ==
    [][\A e \in Episodes :
          index[e].into # 0 /\ index'[e].into # 0
            => /\ index'[e].status = index[e].status
               /\ index'[e].final = index[e].final]_index

\* The frames the list counts for an episode are in its manifest: a re-publish
\* from an older index never drops the frames a merge brought in while the
\* entry still shows them.
CountedFramesServed ==
    \A e \in Episodes : index[e].man.parts \subseteq manifest[e].parts

\* A demo event keeps its place on the list, its state and its animation.
PinnedKept ==
    \A p \in Pinned : index[p].status = "ended" /\ p \in anim

\* A flood that is over is one scored episode.
Settled ==
    LET over == queue = {} /\ \A m \in Members(index) :
                      index[m].status = "ended" /\ m \notin Pinned
        settled(t) == /\ Members(index) = {t}
                      /\ index[t].merged # {}
                           => index[t].final # {} /\ ~StaleFinal(index[t])
    IN over /\ index # EmptyIndex => \E t \in Episodes : settled(t)

\* Whatever stale writes revert it, a flood that is over ends up so once the
\* writers are done.
MergeSettles == <>[]Settled
=============================================================================
