------------------------- MODULE EpisodeIndex_proofs -------------------------
(* Proofs about the episode index, for every number of episodes, workers,    *)
(* threads, ticks and manifests; and about the files of the episodes, for    *)
(* any of them, any hours, any writers and any number of failures.           *)
EXTENDS EpisodeIndex, EpisodeFiles, WellFoundedInduction, TLAPS

\* Whoever works on an episode has one.
ActorsNamed ==
    /\ \A w \in Workers : worker[w].pc # "idle" => worker[w].ev \in Episodes
    /\ tick.pc \in {"reopen", "reopening"} \/ tick.start = "reopened"
         => tick.cand \in Episodes
    /\ \A f \in Finalizers : fin[f].pc = "scoring" => fin[f].ev \in Episodes

Typed == TypeOK /\ ActorsNamed

-----------------------------------------------------------------------------
(* The edits of EpisodeStore keep an index an index. *)

LEMMA EpisodesNat ==
    Episodes \subseteq 0..N /\ Episodes \subseteq Nat /\ 0 \in 0..N
  BY EpisodeStoreAssumption DEF Episodes

LEMMA NoFinalTyped == {} \in Finals
  BY DEF Finals

LEMMA UnlistedTyped == Unlisted \in Entries /\ NoManifest \in Manifests
  BY EpisodeStoreAssumption, NoFinalTyped
     DEF Unlisted, Entries, NoManifest, Manifests

\* An entry stays an entry when a reopen or a merge edits it.
LEMMA EditTyped ==
    ASSUME NEW s \in Entries, NEW r \in 0..MaxReopens, NEW f \in Finals,
           NEW man \in Manifests, NEW ids \in SUBSET Episodes
    PROVE  /\ [s EXCEPT !.status = "ended"] \in Entries
           /\ [s EXCEPT !.final = f] \in Entries
           /\ [s EXCEPT !.status = "active", !.reopened = r, !.final = f]
                \in Entries
           /\ [s EXCEPT !.status = "ended", !.man = man, !.final = f,
                        !.merged = ids] \in Entries
  <1>1. /\ [s EXCEPT !.status = "active"] \in Entries
        /\ [s EXCEPT !.status = "ended"] \in Entries
    BY DEF Entries
  <1>2. ASSUME NEW x \in Entries PROVE [x EXCEPT !.reopened = r] \in Entries
    BY DEF Entries
  <1>3. ASSUME NEW x \in Entries PROVE [x EXCEPT !.final = f] \in Entries
    BY DEF Entries
  <1>4. ASSUME NEW x \in Entries PROVE [x EXCEPT !.man = man] \in Entries
    BY DEF Entries
  <1>5. ASSUME NEW x \in Entries PROVE [x EXCEPT !.merged = ids] \in Entries
    BY DEF Entries
  <1>6. [s EXCEPT !.status = "active", !.reopened = r, !.final = f]
          = [[[s EXCEPT !.status = "active"] EXCEPT !.reopened = r]
               EXCEPT !.final = f]
    OBVIOUS
  <1>7. [s EXCEPT !.status = "ended", !.man = man, !.final = f, !.merged = ids]
          = [[[[s EXCEPT !.status = "ended"] EXCEPT !.man = man]
                EXCEPT !.final = f] EXCEPT !.merged = ids]
    OBVIOUS
  <1>8. QED
    BY <1>1, <1>2, <1>3, <1>4, <1>5, <1>6, <1>7

LEMMA PlaceTyped ==
    ASSUME NEW s \in Entries, NEW man \in Manifests, NEW f \in Finals,
           NEW p \in Nat
    PROVE  [s EXCEPT !.status = "ended", !.man = man, !.final = f, !.pos = p]
             \in Entries
  <1>1. [s EXCEPT !.status = "ended"] \in Entries
    BY DEF Entries
  <1>2. ASSUME NEW x \in Entries PROVE [x EXCEPT !.man = man] \in Entries
    BY DEF Entries
  <1>3. ASSUME NEW x \in Entries PROVE [x EXCEPT !.final = f] \in Entries
    BY DEF Entries
  <1>4. ASSUME NEW x \in Entries PROVE [x EXCEPT !.pos = p] \in Entries
    BY DEF Entries
  <1>5. [s EXCEPT !.status = "ended", !.man = man, !.final = f, !.pos = p]
          = [[[[s EXCEPT !.status = "ended"] EXCEPT !.man = man]
                EXCEPT !.final = f] EXCEPT !.pos = p]
    OBVIOUS
  <1>6. QED
    BY <1>1, <1>2, <1>3, <1>4, <1>5

LEMMA EmptyIndexTyped == EmptyIndex \in Indexes
  BY UnlistedTyped DEF EmptyIndex, Indexes

LEMMA PublishedEntryTyped ==
    ASSUME NEW idx \in Indexes, NEW e \in Episodes, NEW man \in Manifests,
           NEW status \in {"active", "ended"}
    PROVE  PublishedEntry(idx, e, man, status) \in Entries
  BY UnlistedTyped DEF PublishedEntry, Indexes, Entries, Unlisted, Finals

LEMMA PrependTyped ==
    ASSUME NEW idx \in Indexes, NEW e \in Episodes, NEW man \in Manifests,
           NEW status \in {"active", "ended"}
    PROVE  Prepend(idx, e, man, status) \in Indexes
  <1>1. \A x \in Episodes : [idx[x] EXCEPT !.pos = idx[x].pos + 1] \in Entries
    BY DEF Indexes, Entries
  <1>2. QED
    BY <1>1, PublishedEntryTyped DEF Prepend, Indexes

LEMMA WithoutTyped ==
    ASSUME NEW idx \in Indexes, NEW gone
    PROVE  Without(idx, gone) \in Indexes
  BY UnlistedTyped DEF Without, Indexes

LEMMA MarkEndedTyped ==
    ASSUME NEW idx \in Indexes, NEW ids
    PROVE  MarkEnded(idx, ids) \in Indexes
  <1>1. \A x \in Episodes : [idx[x] EXCEPT !.status = "ended"] \in Entries
    BY DEF Indexes, Entries
  <1>2. QED
    BY <1>1 DEF MarkEnded, Indexes

LEMMA ReopenTyped ==
    ASSUME NEW idx \in Indexes, NEW e \in Episodes, NEW r \in 0..MaxReopens
    PROVE  Reopen(idx, e, r) \in Indexes
  <1>1. ASSUME NEW f \in Finals
        PROVE  [idx[e] EXCEPT !.status = "active", !.reopened = r, !.final = f]
                 \in Entries
    BY UnlistedTyped, EditTyped DEF Indexes
  <1>2. Reopen(idx, e, r)
          = [idx EXCEPT ![e] = [idx[e] EXCEPT !.status = "active",
                                  !.reopened = r, !.final = {}]]
    BY DEF Reopen, Indexes
  <1>3. QED
    BY <1>1, <1>2, NoFinalTyped DEF Indexes

LEMMA WriteFinalsTyped ==
    ASSUME NEW idx \in Indexes, NEW got \in SUBSET Scored, NEW began
    PROVE  WriteFinals(idx, got, began) \in Indexes
  <1>1. ASSUME NEW x \in Episodes, NEW f \in Finals
        PROVE  [idx[x] EXCEPT !.final = f] \in Entries
    BY DEF Indexes, Entries
  <1>2. \A S \in SUBSET got : S # {} => (CHOOSE g \in S : TRUE).final \in Finals
    BY DEF Scored
  <1>3. ASSUME NEW x \in Episodes
        PROVE  WriteFinals(idx, got, began)[x] \in Entries
    <2> DEFINE mine == {g \in got : /\ g.ev = x
                                    /\ ~FinalStale(idx[x], began, g.was)}
    <2>1. mine \in SUBSET got
      OBVIOUS
    <2>2. WriteFinals(idx, got, began)[x] =
            IF mine = {} THEN idx[x]
            ELSE [idx[x] EXCEPT !.final = (CHOOSE g \in mine : TRUE).final]
      BY DEF WriteFinals
    <2> HIDE DEF mine
    <2>3. QED
      BY <1>1, <1>2, <2>1, <2>2 DEF Indexes
  <1>4. QED
    BY <1>3 DEF WriteFinals, Indexes

LEMMA MergeTyped ==
    ASSUME NEW idx \in Indexes, NEW t \in Episodes,
           NEW group \in SUBSET Episodes, NEW man \in Manifests
    PROVE  Merge(idx, t, group, man) \in Indexes
  <1> DEFINE record == UNION {Held(idx, m) : m \in group}
  <1>1. \A m \in group : Held(idx, m) \subseteq Episodes
    BY DEF Held, Listed, Indexes, Entries
  <1>2. record \in SUBSET Episodes
    BY <1>1
  <1>3. Merge(idx, t, group, man) =
          [e \in Episodes |->
             IF e = t THEN [idx[e] EXCEPT !.status = "ended", !.man = man,
                                          !.final = {}, !.merged = record]
             ELSE IF e \in group THEN [idx[e] EXCEPT !.into = t]
             ELSE idx[e]]
    BY DEF Merge
  <1> HIDE DEF record
  <1>4. ASSUME NEW e \in Episodes, NEW f \in Finals
        PROVE  [idx[e] EXCEPT !.status = "ended", !.man = man, !.final = f,
                              !.merged = record] \in Entries
    <2>1. 0 \in 0..MaxReopens
      BY EpisodeStoreAssumption
    <2>2. QED
      BY <1>2, <2>1, EditTyped DEF Indexes
  <1>5. \A e \in Episodes : [idx[e] EXCEPT !.into = t] \in Entries
    BY EpisodesNat DEF Indexes, Entries
  <1>6. QED
    BY ZenonT(40), <1>3, <1>4, <1>5, NoFinalTyped DEF Indexes

LEMMA DropFinalTyped ==
    ASSUME NEW idx \in Indexes, NEW e \in Episodes
    PROVE  DropFinal(idx, e) \in Indexes
  <1>1. ASSUME NEW f \in Finals PROVE [idx[e] EXCEPT !.final = f] \in Entries
    BY DEF Indexes, Entries
  <1>2. DropFinal(idx, e) = [idx EXCEPT ![e] = [idx[e] EXCEPT !.final = {}]]
    BY DEF DropFinal, Indexes
  <1>3. QED
    BY <1>1, <1>2, NoFinalTyped DEF Indexes

-----------------------------------------------------------------------------
(* Idle processes, and what the helpers of the actions do. *)

LEMMA IdleTyped ==
    /\ IdleWorker \in WorkerState /\ IdleTick \in TickState
    /\ IdleFin \in FinState /\ IdleMerger \in MergerState
    /\ NoPlan \in [Episodes -> 0..MaxGen]
  <1>1. 0 \in 0..MaxGen /\ 0 \in 0..MaxReopens + 1
    BY EpisodeStoreAssumption
  <1>2. NoPlan \in [Episodes -> 0..MaxGen]
    BY <1>1 DEF NoPlan
  <1>3. IdleWorker \in WorkerState
    BY EpisodesNat, UnlistedTyped, EmptyIndexTyped DEF IdleWorker, WorkerState
  <1>4. IdleTick \in TickState
    BY EpisodesNat, EmptyIndexTyped DEF IdleTick, TickState
  <1>5. IdleFin \in FinState
    BY <1>1, EpisodesNat, UnlistedTyped DEF IdleFin, FinState
  <1>6. IdleMerger \in MergerState
    BY <1>2 DEF IdleMerger, MergerState
  <1>7. QED
    BY <1>2, <1>3, <1>4, <1>5, <1>6

LEMMA FaultTyped ==
    ASSUME Typed, Fault \/ NoFault PROVE faults' \in 0..MaxFaults
  BY EpisodeIndexAssumption DEF Typed, TypeOK, Fault, NoFault

LEMMA LoadTyped ==
    ASSUME Typed, NEW got, LoadIndex(got)
    PROVE  got \in Indexes /\ faults' \in 0..MaxFaults
  BY FaultTyped, EmptyIndexTyped DEF LoadIndex, Typed, TypeOK

LEMMA InitTyped == Init => Typed
  <1> SUFFICES ASSUME Init PROVE Typed
    OBVIOUS
  <1>1. ASSUME NEW e \in Episodes, ~(e > Past)
        PROVE  [gen |-> e, parts |-> {e}] \in Manifests
    BY <1>1, EpisodeIndexAssumption, EpisodeStoreAssumption
       DEF Episodes, Manifests
  <1>2. ASSUME NEW m \in Manifests, NEW f \in Finals, NEW p \in Nat
        PROVE  [Unlisted EXCEPT !.status = "ended", !.man = m, !.final = f,
                                !.pos = p] \in Entries
    BY UnlistedTyped, PlaceTyped
  <1>3. index \in Indexes
    <2>1. ASSUME NEW e \in Episodes, ~(e > Past)
          PROVE  1 + Past - e \in Nat
      BY <2>1, EpisodeIndexAssumption, EpisodeStoreAssumption DEF Episodes
    <2>2. \A m \in Manifests : {m} \in Finals
      BY DEF Finals
    <2>3. ASSUME NEW e \in Episodes PROVE index[e] \in Entries
      <3>1. CASE e > Past
        BY <3>1, UnlistedTyped DEF Init
      <3>2. CASE ~(e > Past)
        <4> DEFINE m == [gen |-> e, parts |-> {e}]
                   p == 1 + Past - e
        <4>1. index[e] = [Unlisted EXCEPT !.status = "ended", !.man = m,
                                          !.final = {m}, !.pos = p]
          BY <3>2 DEF Init
        <4>2. m \in Manifests /\ p \in Nat
          BY <1>1, <2>1, <3>2
        <4> HIDE DEF m, p
        <4>3. {m} \in Finals
          BY <2>2, <4>2
        <4>4. [Unlisted EXCEPT !.status = "ended", !.man = m, !.final = {m},
                               !.pos = p] \in Entries
          BY <1>2, <4>2, <4>3
        <4>5. QED
          BY <4>1, <4>4
      <3>3. QED
        BY <3>1, <3>2
    <2>4. QED
      BY <2>3 DEF Init, Indexes
  <1>4. manifest \in [Episodes -> Manifests]
    BY <1>3 DEF Init, Indexes, Entries
  <1>5. anim \in SUBSET Episodes /\ queue \in SUBSET Episodes /\ used \in 0..N
    <2>1. anim = 1..Past /\ queue = {} /\ used = Past
      BY DEF Init
    <2>2. QED
      BY <2>1, EpisodeIndexAssumption, EpisodeStoreAssumption DEF Episodes
  <1>6. /\ gen \in 0..MaxGen /\ reopens \in 0..MaxReopens
        /\ ticks \in 0..MaxTicks /\ faults \in 0..MaxFaults
    <2>1. gen = Past /\ reopens = 0 /\ ticks = 0 /\ faults = 0
      BY DEF Init
    <2>2. QED
      BY <2>1, EpisodeIndexAssumption, EpisodeStoreAssumption
  <1>7. /\ worker \in [Workers -> WorkerState] /\ tick \in TickState
        /\ fin \in [Finalizers -> FinState] /\ merger \in MergerState
    BY IdleTyped DEF Init
  <1>8. ActorsNamed
    BY DEF Init, ActorsNamed, IdleWorker, IdleTick, IdleFin
  <1>9. QED
    BY <1>3, <1>4, <1>5, <1>6, <1>7, <1>8 DEF Typed, TypeOK

-----------------------------------------------------------------------------
(* Each process keeps the types. *)

LEMMA PublishTyped ==
    ASSUME Typed, NEW w \in Workers, PublishCommit(w) PROVE Typed'
  <1> DEFINE e == worker[w].ev
  <1>1. /\ e \in Episodes /\ worker[w].snap \in Indexes
        /\ worker[w].man \in Manifests
    BY DEF PublishCommit, Typed, TypeOK, ActorsNamed, WorkerState
  <1>2. /\ UNCHANGED <<queue, used, tick, fin, merger, gen, reopens, ticks>>
        /\ Fault \/ NoFault
    BY DEF PublishCommit
  <1>3. CASE /\ UNCHANGED storeVars
             /\ worker' = [worker EXCEPT ![w] = IdleWorker]
    BY <1>2, <1>3, IdleTyped, FaultTyped
       DEF Typed, TypeOK, ActorsNamed, storeVars, IdleWorker
  <1>4. ASSUME NEW status \in {"active", "ended"}, NEW dropped,
               index' = Without(Prepend(worker[w].snap, e, worker[w].man,
                                        status), dropped),
               anim' = (anim \cup {e}) \ dropped,
               manifest' = [manifest EXCEPT ![e] = worker[w].man],
               worker' = [worker EXCEPT ![w] =
                            [IdleWorker EXCEPT !.pc = "published", !.ev = e]]
        PROVE  Typed'
    <2>1. index' \in Indexes
      BY <1>1, <1>4, PrependTyped, WithoutTyped
    <2>2. anim' \in SUBSET Episodes /\ manifest' \in [Episodes -> Manifests]
      BY <1>1, <1>4 DEF Typed, TypeOK
    <2> DEFINE new == [IdleWorker EXCEPT !.pc = "published", !.ev = e]
    <2>3. new \in WorkerState /\ new.ev = e
      BY <1>1, IdleTyped, EpisodesNat DEF WorkerState, IdleWorker
    <2>4. worker' = [worker EXCEPT ![w] = new]
      BY <1>4
    <2> HIDE DEF new
    <2>5. worker' \in [Workers -> WorkerState]
      BY <2>3, <2>4 DEF Typed, TypeOK
    <2>6. QED
      BY <1>1, <1>2, <2>1, <2>2, <2>3, <2>4, <2>5, FaultTyped
         DEF Typed, TypeOK, ActorsNamed
  <1>5. QED
    BY <1>3, <1>4 DEF PublishCommit

LEMMA WorkerTyped ==
    ASSUME Typed, NEW w \in Workers,
           (\E e \in Episodes : ReadIndex(w, e)) \/ WorkerStep(w)
             \/ WorkerCrash(w)
    PROVE  Typed'
  <1>1. ASSUME NEW e \in Episodes, ReadIndex(w, e) PROVE Typed'
    <2>1. PICK got \in {index, EmptyIndex} :
             /\ LoadIndex(got)
             /\ worker' = [worker EXCEPT ![w] =
                   [pc |-> "read", ev |-> e, snap |-> got,
                    man |-> [gen |-> gen + 1, parts |-> {e}]]]
      BY <1>1 DEF ReadIndex
    <2> DEFINE man == [gen |-> gen + 1, parts |-> {e}]
               new == [pc |-> "read", ev |-> e, snap |-> got, man |-> man]
    <2>2. gen' \in 0..MaxGen
      BY <1>1, EpisodeStoreAssumption DEF ReadIndex, Typed, TypeOK
    <2>3. man \in Manifests
      BY <1>1, <2>2 DEF ReadIndex, Manifests
    <2>4. worker' = [worker EXCEPT ![w] = new]
      BY <2>1
    <2> HIDE DEF man
    <2>5. new \in WorkerState /\ new.ev = e
      BY <2>1, <2>3, LoadTyped, EpisodesNat DEF WorkerState
    <2> HIDE DEF new
    <2>6. worker' \in [Workers -> WorkerState]
      BY <2>4, <2>5 DEF Typed, TypeOK
    <2>7. QED
      BY <1>1, <2>1, <2>2, <2>4, <2>5, <2>6, LoadTyped
         DEF ReadIndex, Typed, TypeOK, ActorsNamed, storeVars
  <1>2. CASE CarryFrames(w)
    <2> DEFINE s == worker[w]
    <2>1. s \in WorkerState /\ s.ev \in Episodes
      BY <1>2 DEF CarryFrames, Typed, TypeOK, ActorsNamed
    <2>2. ASSUME NEW parts \in SUBSET Episodes
          PROVE  /\ [s EXCEPT !.pc = "carried", !.man.parts = parts]
                       \in WorkerState
                 /\ [s EXCEPT !.pc = "carried"] \in WorkerState
      BY <2>1 DEF WorkerState, Manifests
    <2>3. {s.ev} \cup Carried(s.ev, s.snap) \in SUBSET Episodes
      BY <2>1 DEF Carried, Typed, TypeOK, Manifests
    <2> DEFINE parts == {s.ev} \cup Carried(s.ev, s.snap)
               full == [s EXCEPT !.pc = "carried", !.man.parts = parts]
               own == [s EXCEPT !.pc = "carried"]
    <2>4. \/ worker' = [worker EXCEPT ![w] = full]
          \/ worker' = [worker EXCEPT ![w] = own]
      BY <1>2 DEF CarryFrames, Typed, TypeOK
    <2>5. /\ full \in WorkerState /\ own \in WorkerState
          /\ full.ev = s.ev /\ own.ev = s.ev
      BY <2>1, <2>2, <2>3 DEF WorkerState
    <2> HIDE DEF full, own, s
    <2>6. worker' \in [Workers -> WorkerState]
      BY <2>4, <2>5 DEF Typed, TypeOK
    <2>7. QED
      BY <1>2, <2>1, <2>4, <2>5, <2>6, FaultTyped
         DEF CarryFrames, Typed, TypeOK, ActorsNamed, storeVars
  <1>3. CASE Consume(w) \/ WorkerCrash(w)
    <2>1. worker' \in [Workers -> WorkerState]
      BY <1>3, IdleTyped DEF Consume, WorkerCrash, Typed, TypeOK
    <2>2. QED
      BY <1>3, <2>1, FaultTyped
         DEF Consume, WorkerCrash, Typed, TypeOK, ActorsNamed, storeVars,
             IdleWorker
  <1>4. QED
    BY <1>1, <1>2, <1>3, PublishTyped DEF WorkerStep

TickPCs == {"idle", "mark", "marking", "pick", "reopen", "reopening",
            "finals", "run", "sweep", "listing", "sweeping"}

LEMMA TickEditTyped ==
    ASSUME NEW t \in TickState, NEW pc \in TickPCs
    PROVE  /\ [t EXCEPT !.pc = pc] \in TickState
           /\ \A i \in Indexes :
                [t EXCEPT !.pc = pc, !.fresh = i] \in TickState
           /\ \A ids \in SUBSET Episodes :
                [t EXCEPT !.pc = pc, !.ended = ids] \in TickState
           /\ \A e \in Episodes :
                [t EXCEPT !.pc = pc, !.cand = e] \in TickState
           /\ \A s \in {"none", "new", "reopened"} :
                [t EXCEPT !.pc = pc, !.start = s] \in TickState
  <1>1. [t EXCEPT !.pc = pc] \in TickState
    BY DEF TickState, TickPCs
  <1>2. ASSUME NEW x \in TickState, NEW i \in Indexes
        PROVE  [x EXCEPT !.fresh = i] \in TickState
    BY DEF TickState
  <1>3. ASSUME NEW x \in TickState, NEW ids \in SUBSET Episodes
        PROVE  [x EXCEPT !.ended = ids] \in TickState
    BY DEF TickState
  <1>4. ASSUME NEW x \in TickState, NEW e \in Episodes
        PROVE  [x EXCEPT !.cand = e] \in TickState
    BY EpisodesNat DEF TickState
  <1>5. ASSUME NEW x \in TickState, NEW s \in {"none", "new", "reopened"}
        PROVE  [x EXCEPT !.start = s] \in TickState
    BY DEF TickState
  <1>6. /\ \A i : [t EXCEPT !.pc = pc, !.fresh = i]
                   = [[t EXCEPT !.pc = pc] EXCEPT !.fresh = i]
        /\ \A i : [t EXCEPT !.pc = pc, !.ended = i]
                   = [[t EXCEPT !.pc = pc] EXCEPT !.ended = i]
        /\ \A i : [t EXCEPT !.pc = pc, !.cand = i]
                   = [[t EXCEPT !.pc = pc] EXCEPT !.cand = i]
        /\ \A i : [t EXCEPT !.pc = pc, !.start = i]
                   = [[t EXCEPT !.pc = pc] EXCEPT !.start = i]
    OBVIOUS
  <1>7. QED
    BY <1>1, <1>2, <1>3, <1>4, <1>5, <1>6

\* What the tick leaves alone stays typed.
LEMMA TickOnly ==
    ASSUME Typed, tick' \in TickState, faults' \in 0..MaxFaults,
           ticks' \in 0..MaxTicks, reopens' \in 0..MaxReopens,
           index' \in Indexes, anim' \in SUBSET Episodes,
           \/ /\ tick'.pc \notin {"reopen", "reopening"}
              /\ tick'.start # "reopened"
           \/ tick'.cand \in Episodes,
           UNCHANGED <<manifest, queue, used, worker, fin, merger, gen>>
    PROVE  Typed'
  BY DEF Typed, TypeOK, ActorsNamed

LEMMA DecideTyped ==
    ASSUME Typed,
           \/ Decide("new") \/ Decide("none")
           \/ /\ Decide("reopened")
              /\ tick.cand \in Episodes
    PROVE  /\ tick' \in TickState
           /\ \/ tick'.pc \notin {"reopen", "reopening"}
                 /\ tick'.start # "reopened"
              \/ tick'.cand \in Episodes
  <1>1. tick \in TickState
    BY DEF Typed, TypeOK
  <1>2. PICK s \in {"none", "new", "reopened"} :
          /\ tick' = [tick EXCEPT !.pc = "finals", !.start = s]
          /\ s = "reopened" => tick.cand \in Episodes
    BY DEF Decide
  <1>3. tick' \in TickState
    BY <1>1, <1>2, TickEditTyped DEF TickPCs
  <1>4. tick'.pc = "finals" /\ tick'.start = s /\ tick'.cand = tick.cand
    BY <1>1, <1>2 DEF TickState
  <1>5. QED
    BY <1>2, <1>3, <1>4

LEMMA TickStartTyped == ASSUME Typed, TickStart PROVE Typed'
  <1>1. PICK got \in {index, EmptyIndex}, flagged \in BOOLEAN, k \in 0..N :
          LET ended == {e \in Active(got) : e <= k} IN
          /\ LoadIndex(got)
          /\ k # 0 => k \in ended
          /\ tick' = [IdleTick EXCEPT
                        !.pc = IF ended = {} THEN "pick" ELSE "mark",
                        !.flagged = flagged, !.snap = got, !.ended = ended]
    BY DEF TickStart
  <1> DEFINE ended == {e \in Active(got) : e <= k}
             pc == IF ended = {} THEN "pick" ELSE "mark"
  <1>2. got \in Indexes /\ faults' \in 0..MaxFaults
    BY <1>1, LoadTyped
  <1>3. ended \in SUBSET Episodes /\ pc \in TickPCs
    BY DEF Active, TickPCs
  <1>4. tick' = [pc |-> pc, flagged |-> flagged, snap |-> got,
                 fresh |-> EmptyIndex, ended |-> ended, cand |-> 0,
                 start |-> "none"]
    BY <1>1 DEF IdleTick
  <1>5. pc \notin {"reopen", "reopening"}
    OBVIOUS
  <1> HIDE DEF ended, pc
  <1>6. tick' \in TickState
    BY <1>2, <1>3, <1>4, EmptyIndexTyped, EpisodesNat DEF TickState, TickPCs
  <1>7. tick'.pc \notin {"reopen", "reopening"} /\ tick'.start # "reopened"
    BY <1>4, <1>5
  <1>8. ticks' \in 0..MaxTicks
    BY EpisodeIndexAssumption DEF TickStart, Typed, TypeOK
  <1>9. QED
    BY <1>2, <1>6, <1>7, <1>8, TickOnly DEF TickStart, storeVars, Typed, TypeOK

LEMMA MarkTyped == ASSUME Typed, MarkRead \/ MarkCommit PROVE Typed'
  <1>1. tick \in TickState
    BY DEF Typed, TypeOK
  <1>2. CASE MarkRead
    <2>1. PICK got \in {index, EmptyIndex} :
            /\ LoadIndex(got)
            /\ \/ tick' = [tick EXCEPT !.pc = "pick"]
               \/ tick' = [tick EXCEPT !.pc = "marking", !.fresh = got]
      BY <1>2 DEF MarkRead, GoTo
    <2>2. tick' \in TickState /\ faults' \in 0..MaxFaults
      <3>1. got \in Indexes /\ faults' \in 0..MaxFaults
        BY <2>1, LoadTyped
      <3>2. [tick EXCEPT !.pc = "pick"] \in TickState
        BY <1>1, TickEditTyped DEF TickPCs
      <3>3. [tick EXCEPT !.pc = "marking", !.fresh = got] \in TickState
        BY <1>1, <3>1, TickEditTyped DEF TickPCs
      <3>4. QED
        BY <2>1, <3>1, <3>2, <3>3
    <2>3. tick'.pc \in {"pick", "marking"} /\ tick'.start = tick.start
          /\ tick'.cand = tick.cand
      BY <1>1, <2>1 DEF TickState
    <2>4. QED
      BY <1>2, <2>2, <2>3, TickOnly
         DEF MarkRead, storeVars, Typed, TypeOK, ActorsNamed
  <1>3. CASE MarkCommit
    <2>1. tick' = [tick EXCEPT !.pc = "pick", !.fresh = EmptyIndex]
          /\ faults' \in 0..MaxFaults
      BY <1>3, FaultTyped DEF MarkCommit
    <2>2. tick' \in TickState
      BY <1>1, <2>1, EmptyIndexTyped, TickEditTyped DEF TickPCs
    <2>3. tick'.pc = "pick" /\ tick'.start = tick.start
          /\ tick'.cand = tick.cand
      BY <1>1, <2>1 DEF TickState
    <2>4. index' \in Indexes
      <3>1. tick.fresh \in Indexes
        BY <1>1 DEF TickState
      <3>2. QED
        BY <1>3, <3>1, MarkEndedTyped DEF MarkCommit, Typed, TypeOK
    <2>5. QED
      BY <1>3, <2>1, <2>2, <2>3, <2>4, TickOnly
         DEF MarkCommit, Typed, TypeOK, ActorsNamed
  <1>4. QED
    BY <1>2, <1>3

LEMMA PickTyped == ASSUME Typed, Pick PROVE Typed'
  <1>1. tick \in TickState
    BY DEF Typed, TypeOK
  <1>2. \/ tick' = [tick EXCEPT !.pc = "finals", !.start = "new"]
        \/ \E e \in Episodes : tick' = [tick EXCEPT !.pc = "reopen", !.cand = e]
        \/ tick' = [tick EXCEPT !.pc = "finals"]
    BY DEF Pick, ReopenCandidates
  <1>3. tick' \in TickState
    <2>1. [tick EXCEPT !.pc = "finals", !.start = "new"] \in TickState
          /\ [tick EXCEPT !.pc = "finals"] \in TickState
      BY <1>1, TickEditTyped DEF TickPCs
    <2>2. \A e \in Episodes :
             [tick EXCEPT !.pc = "reopen", !.cand = e] \in TickState
      BY <1>1, TickEditTyped DEF TickPCs
    <2>3. QED
      BY <1>2, <2>1, <2>2
  <1>4. \/ tick'.pc \notin {"reopen", "reopening"}
           /\ tick'.start # "reopened"
        \/ tick'.cand \in Episodes
    BY <1>1, <1>2 DEF TickState, Typed, ActorsNamed
  <1>5. faults' \in 0..MaxFaults
    BY FaultTyped DEF Pick
  <1>6. QED
    BY <1>3, <1>4, <1>5, TickOnly DEF Pick, storeVars, Typed, TypeOK

LEMMA ReopenReadTyped == ASSUME Typed, ReopenRead PROVE Typed'
  <1>1. tick \in TickState /\ tick.cand \in Episodes
    BY DEF ReopenRead, Typed, TypeOK, ActorsNamed
  <1>2. UNCHANGED <<storeVars, queue, used, worker, fin, merger, gen, reopens,
                    ticks>>
    BY DEF ReopenRead
  <1>3. CASE Decide("new") /\ (Fault \/ NoFault)
    <2>1. /\ tick' \in TickState
          /\ \/ tick'.pc \notin {"reopen", "reopening"}
                /\ tick'.start # "reopened"
             \/ tick'.cand \in Episodes
      <3>1. tick' = [tick EXCEPT !.pc = "finals", !.start = "new"]
        BY <1>3 DEF Decide
      <3>2. tick' \in TickState
        BY <1>1, <3>1, TickEditTyped DEF TickPCs
      <3>3. tick'.cand = tick.cand
        BY <1>1, <3>1 DEF TickState
      <3>4. QED
        BY <1>1, <3>2, <3>3
    <2>2. faults' \in 0..MaxFaults
      BY <1>3, FaultTyped
    <2>3. QED
      BY <1>2, <2>1, <2>2, TickOnly DEF storeVars, Typed, TypeOK
  <1>4. ASSUME NEW got, LoadIndex(got),
               \/ Decide("new") \/ Decide("none") \/ Decide("reopened")
               \/ tick' = [tick EXCEPT !.pc = "reopening", !.fresh = got]
        PROVE  Typed'
    <2>1. CASE tick' = [tick EXCEPT !.pc = "reopening", !.fresh = got]
      <3>1. tick' \in TickState
        BY <1>1, <1>4, <2>1, LoadTyped, TickEditTyped DEF TickPCs
      <3>2. tick'.cand = tick.cand
        BY <1>1, <2>1 DEF TickState
      <3>3. QED
        BY <1>1, <1>2, <1>4, <3>1, <3>2, LoadTyped, TickOnly
           DEF storeVars, Typed, TypeOK
    <2>2. CASE Decide("new") \/ Decide("none") \/ Decide("reopened")
      BY <1>1, <1>2, <1>4, <2>2, DecideTyped, LoadTyped, TickOnly
         DEF storeVars, Typed, TypeOK
    <2>3. QED
      BY <1>4, <2>1, <2>2
  <1>5. \/ Decide("new") /\ (Fault \/ NoFault)
        \/ \E got \in {index, EmptyIndex} :
             /\ LoadIndex(got)
             /\ \/ Decide("new") \/ Decide("none") \/ Decide("reopened")
                \/ tick' = [tick EXCEPT !.pc = "reopening", !.fresh = got]
    BY DEF ReopenRead
  <1>6. QED
    BY <1>3, <1>4, <1>5

LEMMA ReopenCommitTyped == ASSUME Typed, ReopenCommit PROVE Typed'
  <1>1. tick \in TickState /\ tick.cand \in Episodes /\ tick.fresh \in Indexes
    BY DEF ReopenCommit, Typed, TypeOK, ActorsNamed, TickState
  <1>2. faults' \in 0..MaxFaults
    BY FaultTyped DEF ReopenCommit
  <1>3. CASE /\ reopens < MaxReopens /\ reopens' = reopens + 1
             /\ index' = Reopen(tick.fresh, tick.cand, reopens + 1)
             /\ tick' = [tick EXCEPT !.pc = "finals", !.fresh = EmptyIndex,
                                     !.start = "reopened"]
    <2>1. reopens' \in 0..MaxReopens /\ reopens + 1 \in 0..MaxReopens
      BY <1>3, EpisodeStoreAssumption DEF Typed, TypeOK
    <2>2. index' \in Indexes
      BY <1>1, <1>3, <2>1, ReopenTyped
    <2>3. tick' = [[tick EXCEPT !.pc = "finals", !.fresh = EmptyIndex]
                     EXCEPT !.pc = "finals", !.start = "reopened"]
      BY <1>1, <1>3 DEF TickState
    <2>4. tick' \in TickState
      <3> DEFINE t == [tick EXCEPT !.pc = "finals", !.fresh = EmptyIndex]
      <3>1. t \in TickState
        BY <1>1, EmptyIndexTyped, TickEditTyped DEF TickPCs
      <3> HIDE DEF t
      <3>2. [t EXCEPT !.pc = "finals", !.start = "reopened"] \in TickState
        BY <3>1, TickEditTyped DEF TickPCs
      <3>3. QED
        BY <2>3, <3>2 DEF t
    <2>5. tick'.cand = tick.cand
      BY <1>1, <1>3 DEF TickState
    <2>6. QED
      BY <1>1, <1>2, <2>1, <2>2, <2>4, <2>5, TickOnly
         DEF ReopenCommit, Typed, TypeOK
  <1>4. CASE /\ tick' = [tick EXCEPT !.pc = "finals", !.fresh = EmptyIndex]
             /\ UNCHANGED <<index, reopens>>
    <2>1. tick' \in TickState
      BY <1>1, <1>4, EmptyIndexTyped, TickEditTyped DEF TickPCs
    <2>2. tick'.cand = tick.cand
      BY <1>1, <1>4 DEF TickState
    <2>3. QED
      BY <1>1, <1>2, <1>4, <2>1, <2>2, TickOnly
         DEF ReopenCommit, Typed, TypeOK
  <1>5. QED
    BY <1>3, <1>4 DEF ReopenCommit

LEMMA SweepTyped ==
    ASSUME Typed, SweepRead \/ SweepList \/ SweepCommit PROVE Typed'
  <1>1. tick \in TickState /\ tick.fresh \in Indexes
        /\ tick.ended \in SUBSET Episodes
    BY DEF Typed, TypeOK, TickState
  <1>2. IdleTick \in TickState /\ IdleTick.pc = "idle"
        /\ IdleTick.start = "none"
    BY IdleTyped DEF IdleTick
  <1>3. CASE SweepRead
    <2>1. PICK got \in {index, EmptyIndex} :
            /\ LoadIndex(got)
            /\ tick' = [tick EXCEPT !.pc = "listing", !.fresh = got]
      BY <1>3 DEF SweepRead
    <2>2. tick' \in TickState /\ faults' \in 0..MaxFaults
      BY <1>1, <2>1, LoadTyped, TickEditTyped DEF TickPCs
    <2>3. tick'.pc = "listing" /\ tick'.start = tick.start
          /\ tick'.cand = tick.cand
      BY <1>1, <2>1 DEF TickState
    <2>4. QED
      BY <1>3, <2>2, <2>3, TickOnly
         DEF SweepRead, storeVars, Typed, TypeOK, ActorsNamed
  <1>4. CASE SweepList
    <2>1. Orphans(tick.fresh) \in SUBSET Episodes
      BY DEF Orphans, Typed, TypeOK
    <2>2. \/ tick' = IdleTick
          \/ tick' = [tick EXCEPT !.pc = "sweeping",
                                  !.ended = Orphans(tick.fresh)]
      BY <1>4 DEF SweepList
    <2>3. tick' \in TickState
      <3>1. [tick EXCEPT !.pc = "sweeping", !.ended = Orphans(tick.fresh)]
              \in TickState
        BY <1>1, <2>1, TickEditTyped DEF TickPCs
      <3>2. QED
        BY <1>2, <2>2, <3>1
    <2>4. /\ tick'.pc \in {"idle", "sweeping"}
          /\ \/ tick'.start # "reopened"
             \/ tick'.start = tick.start /\ tick'.cand = tick.cand
      BY <1>1, <1>2, <2>2 DEF TickState
    <2>5. QED
      BY <1>4, <2>3, <2>4, TickOnly
         DEF SweepList, storeVars, boundVars, Typed, TypeOK, ActorsNamed
  <1>5. CASE SweepCommit
    <2>1. index' \in Indexes /\ anim' \in SUBSET Episodes
          /\ faults' \in 0..MaxFaults /\ tick' = IdleTick
      BY <1>1, <1>5, FaultTyped DEF SweepCommit, Typed, TypeOK
    <2>2. QED
      BY <1>2, <1>5, <2>1, TickOnly DEF SweepCommit, Typed, TypeOK
  <1>6. QED
    BY <1>3, <1>4, <1>5

LEMMA FinEditTyped ==
    ASSUME NEW s \in FinState, NEW todo \in SUBSET Episodes, NEW e \in 0..N,
           NEW was \in Entries, NEW got \in SUBSET Scored,
           NEW began \in 0..MaxReopens + 1
    PROVE  /\ [s EXCEPT !.todo = todo] \in FinState
           /\ [s EXCEPT !.pc = "reading", !.began = began, !.todo = todo]
                \in FinState
           /\ [s EXCEPT !.pc = "scoring", !.ev = e, !.was = was] \in FinState
           /\ [s EXCEPT !.pc = "reading", !.todo = todo, !.ev = e, !.was = was,
                        !.got = got] \in FinState
  <1>1. [s EXCEPT !.pc = "reading"] \in FinState
        /\ [s EXCEPT !.pc = "scoring"] \in FinState
    BY DEF FinState
  <1>2. ASSUME NEW x \in FinState PROVE [x EXCEPT !.todo = todo] \in FinState
    BY DEF FinState
  <1>3. ASSUME NEW x \in FinState PROVE [x EXCEPT !.ev = e] \in FinState
    BY DEF FinState
  <1>4. ASSUME NEW x \in FinState PROVE [x EXCEPT !.was = was] \in FinState
    BY DEF FinState
  <1>5. ASSUME NEW x \in FinState PROVE [x EXCEPT !.got = got] \in FinState
    BY DEF FinState
  <1>6. ASSUME NEW x \in FinState PROVE [x EXCEPT !.began = began] \in FinState
    BY DEF FinState
  <1>7. [s EXCEPT !.pc = "reading", !.began = began, !.todo = todo]
          = [[[s EXCEPT !.pc = "reading"] EXCEPT !.began = began]
               EXCEPT !.todo = todo]
    OBVIOUS
  <1>8. [s EXCEPT !.pc = "scoring", !.ev = e, !.was = was]
          = [[[s EXCEPT !.pc = "scoring"] EXCEPT !.ev = e] EXCEPT !.was = was]
    OBVIOUS
  <1>9. [s EXCEPT !.pc = "reading", !.todo = todo, !.ev = e, !.was = was,
                  !.got = got]
          = [[[[[s EXCEPT !.pc = "reading"] EXCEPT !.todo = todo]
                 EXCEPT !.ev = e] EXCEPT !.was = was] EXCEPT !.got = got]
    OBVIOUS
  <1>10. QED
    BY <1>1, <1>2, <1>3, <1>4, <1>5, <1>6, <1>7, <1>8, <1>9

LEMMA StartFinalTyped ==
    ASSUME Typed, NEW f \in Finalizers, NEW todo \in SUBSET Episodes,
           StartFinal(f, todo)
    PROVE  /\ fin' \in [Finalizers -> FinState]
           /\ \A g \in Finalizers :
                fin'[g].pc = "scoring" => fin'[g].ev \in Episodes
  <1> DEFINE new == [IdleFin EXCEPT !.pc = "reading", !.began = reopens + 1,
                                    !.todo = todo]
  <1>1. fin' = [fin EXCEPT ![f] = new]
    BY DEF StartFinal
  <1>2. reopens + 1 \in 0..MaxReopens + 1
    BY EpisodeStoreAssumption DEF Typed, TypeOK
  <1>3. new \in FinState /\ new.pc = "reading"
    <2>1. new \in FinState
      <3>1. IdleFin.got \in SUBSET Scored
        BY DEF IdleFin
      <3>2. QED
        BY <1>2, <3>1, IdleTyped, EpisodesNat, UnlistedTyped, FinEditTyped
    <2>2. new.pc = "reading"
      BY DEF IdleFin
    <2>3. QED
      BY <2>1, <2>2
  <1> HIDE DEF new
  <1>4. QED
    BY <1>1, <1>3 DEF Typed, TypeOK, ActorsNamed

LEMMA ThreadsFinalize == Threads \subseteq Finalizers /\ Merger \in Finalizers
  BY DEF Finalizers

LEMMA DispatchTyped == ASSUME Typed, DispatchFinals \/ RunJobs PROVE Typed'
  <1>1. tick \in TickState
    BY DEF Typed, TypeOK
  <1>2. CASE DispatchFinals
    <2>1. tick' = [tick EXCEPT !.pc = "run"]
      BY <1>2 DEF DispatchFinals, GoTo
    <2>2. tick' \in TickState
      BY <1>1, <2>1, TickEditTyped DEF TickPCs
    <2>3. tick'.pc = "run" /\ tick'.start = tick.start
          /\ tick'.cand = tick.cand
      BY <1>1, <2>1 DEF TickState
    <2>4. ToFinal \in SUBSET Episodes
      BY <1>1 DEF ToFinal, Listed, TickState
    <2>5. \/ UNCHANGED fin
          \/ \E f \in Threads : StartFinal(f, ToFinal)
      BY <1>2 DEF DispatchFinals
    <2>6. /\ fin' \in [Finalizers -> FinState]
          /\ \A g \in Finalizers :
               fin'[g].pc = "scoring" => fin'[g].ev \in Episodes
      BY <2>4, <2>5, StartFinalTyped, ThreadsFinalize
         DEF Typed, TypeOK, ActorsNamed
    <2>7. QED
      BY <1>2, <2>2, <2>3, <2>6
         DEF DispatchFinals, storeVars, boundVars, Typed, TypeOK, ActorsNamed
  <1>3. CASE RunJobs
    <2> DEFINE new == IF tick.start = "new" /\ used < N THEN {used + 1} ELSE {}
               again == IF tick.start = "reopened" THEN {tick.cand} ELSE {}
    <2>1. PICK run \in SUBSET (new \cup again \cup Jobs) :
            /\ Cardinality(run) <= MaxPerTick
            /\ queue' = queue \cup run
            /\ used' = IF new \cap run = {} THEN used ELSE used + 1
      BY <1>3 DEF RunJobs
    <2>2. new \in SUBSET Episodes /\ (new # {} => used + 1 \in 0..N)
      BY EpisodeStoreAssumption DEF Episodes, Typed, TypeOK
    <2>3. again \in SUBSET Episodes /\ Jobs \in SUBSET Episodes
      BY DEF Jobs, Active, Typed, ActorsNamed
    <2> HIDE DEF new, again
    <2>4. queue' \in SUBSET Episodes /\ used' \in 0..N
      BY <2>1, <2>2, <2>3 DEF Typed, TypeOK
    <2> DEFINE t == [IdleTick EXCEPT !.pc = "sweep"]
    <2>5. tick' = t
      BY <1>3 DEF RunJobs
    <2>6. t \in TickState
      BY IdleTyped, TickEditTyped DEF TickPCs
    <2>7. t.pc = "sweep" /\ t.start = "none"
      BY DEF IdleTick
    <2> HIDE DEF t
    <2>8. QED
      BY <1>3, <2>4, <2>5, <2>6, <2>7
         DEF RunJobs, storeVars, boundVars, Typed, TypeOK, ActorsNamed
  <1>4. QED
    BY <1>2, <1>3

LEMMA FinTyped ==
    ASSUME Typed, NEW f \in Finalizers, FinStep(f) PROVE Typed'
  <1> DEFINE s == fin[f]
  <1>1. s \in FinState
    BY DEF Typed, TypeOK
  <1>2. ASSUME NEW e \in Episodes, FinalRead(f, e) PROVE Typed'
    <2>1. PICK got \in {index, EmptyIndex} :
            /\ LoadIndex(got)
            /\ fin' = IF Unfinished(got[e])
                      THEN [fin EXCEPT ![f].pc = "scoring", ![f].ev = e,
                                       ![f].was = got[e]]
                      ELSE [fin EXCEPT ![f].todo = @ \ {e}]
      BY <1>2 DEF FinalRead
    <2>2. got \in Indexes /\ got[e] \in Entries /\ faults' \in 0..MaxFaults
      BY <2>1, LoadTyped DEF Indexes
    <2> DEFINE score == [s EXCEPT !.pc = "scoring", !.ev = e, !.was = got[e]]
               skip == [s EXCEPT !.todo = s.todo \ {e}]
    <2>3. score \in FinState /\ skip \in FinState
          /\ score.ev = e /\ skip.pc = s.pc /\ skip.ev = s.ev
      <3>1. /\ e \in 0..N /\ s.todo \ {e} \in SUBSET Episodes
            /\ s.got \in SUBSET Scored /\ s.began \in 0..MaxReopens + 1
        BY <1>1, EpisodesNat DEF FinState
      <3>2. score \in FinState /\ skip \in FinState
        BY <1>1, <2>2, <3>1, FinEditTyped
      <3>3. QED
        BY <1>1, <3>2 DEF FinState
    <2>4. \/ fin' = [fin EXCEPT ![f] = score]
          \/ fin' = [fin EXCEPT ![f] = skip]
      BY <2>1 DEF Typed, TypeOK
    <2> HIDE DEF score, skip, s
    <2>5. fin' \in [Finalizers -> FinState]
      BY <2>3, <2>4 DEF Typed, TypeOK
    <2>6. \A g \in Finalizers :
             fin'[g].pc = "scoring" => fin'[g].ev \in Episodes
      BY <2>3, <2>4 DEF Typed, TypeOK, ActorsNamed, s
    <2>7. QED
      BY <1>2, <2>2, <2>5, <2>6
         DEF FinalRead, storeVars, Typed, TypeOK, ActorsNamed
  <1>3. CASE FinalScore(f)
    <2>1. PICK man \in {manifest[s.ev], NoManifest} :
            /\ Fault \/ NoFault
            /\ fin' = [fin EXCEPT ![f] =
                  [s EXCEPT !.pc = "reading", !.todo = @ \ {s.ev}, !.ev = 0,
                            !.was = Unlisted,
                            !.got = @ \cup {[ev |-> s.ev, was |-> s.was,
                                             final |-> {man}]}]]
      BY <1>3 DEF FinalScore
    <2>2. s.ev \in Episodes /\ man \in Manifests
      BY <1>3, UnlistedTyped DEF FinalScore, Typed, TypeOK, ActorsNamed
    <2> DEFINE g == [ev |-> s.ev, was |-> s.was, final |-> {man}]
               new == [s EXCEPT !.pc = "reading", !.todo = s.todo \ {s.ev},
                                !.ev = 0, !.was = Unlisted,
                                !.got = s.got \cup {g}]
    <2>3. g \in Scored
      <3>1. {man} \in Finals
        BY <2>2 DEF Finals
      <3>2. s.was \in Entries
        BY <1>1 DEF FinState
      <3>3. QED
        BY <2>2, <3>1, <3>2 DEF Scored
    <2>4. fin' = [fin EXCEPT ![f] = new]
      BY <2>1
    <2> HIDE DEF g
    <2>5. new \in FinState /\ new.pc = "reading"
      <3>1. /\ s.todo \ {s.ev} \in SUBSET Episodes
            /\ s.got \cup {g} \in SUBSET Scored
            /\ s.began \in 0..MaxReopens + 1
        BY <1>1, <2>3 DEF FinState
      <3>2. new \in FinState
        BY <1>1, <3>1, EpisodesNat, UnlistedTyped, FinEditTyped
      <3>3. QED
        BY <1>1, <3>2 DEF FinState
    <2> HIDE DEF new
    <2>6. fin' \in [Finalizers -> FinState]
          /\ \A h \in Finalizers :
               fin'[h].pc = "scoring" => fin'[h].ev \in Episodes
      BY <2>4, <2>5 DEF Typed, TypeOK, ActorsNamed
    <2>7. QED
      BY <1>3, <2>1, <2>6, FaultTyped
         DEF FinalScore, storeVars, Typed, TypeOK, ActorsNamed
  <1>4. CASE FinalCommit(f)
    <2>1. index' \in Indexes
      <3>1. s.got \in SUBSET Scored
        BY <1>1 DEF FinState
      <3>2. QED
        BY <1>4, <3>1, WriteFinalsTyped DEF FinalCommit, Typed, TypeOK
    <2>2. faults' \in 0..MaxFaults
      BY <1>4, FaultTyped DEF FinalCommit
    <2>3. fin' = [fin EXCEPT ![f] = IdleFin] /\ IdleFin.pc = "idle"
      BY <1>4 DEF FinalCommit, IdleFin
    <2>4. fin' \in [Finalizers -> FinState]
          /\ \A h \in Finalizers :
               fin'[h].pc = "scoring" => fin'[h].ev \in Episodes
      BY <2>3, IdleTyped DEF Typed, TypeOK, ActorsNamed
    <2>5. QED
      BY <1>4, <2>1, <2>2, <2>4
         DEF FinalCommit, Typed, TypeOK, ActorsNamed
  <1>5. QED
    BY <1>2, <1>3, <1>4 DEF FinStep

LEMMA MergerEditTyped ==
    ASSUME NEW m \in MergerState, NEW pc \in {"building", "committing",
                                              "dropping", "finalizing"},
           NEW gens \in [Episodes -> 0..MaxGen], NEW parts \in SUBSET Episodes,
           NEW sources \in SUBSET Episodes
    PROVE  /\ [m EXCEPT !.pc = pc] \in MergerState
           /\ [m EXCEPT !.pc = pc, !.gens = gens] \in MergerState
           /\ [m EXCEPT !.pc = pc, !.parts = parts, !.sources = sources,
                        !.read = gens] \in MergerState
  <1>1. [m EXCEPT !.pc = pc] \in MergerState
    BY DEF MergerState
  <1>2. ASSUME NEW x \in MergerState
        PROVE  [x EXCEPT !.gens = gens] \in MergerState
    BY DEF MergerState
  <1>3. ASSUME NEW x \in MergerState
        PROVE  [x EXCEPT !.parts = parts] \in MergerState
    BY DEF MergerState
  <1>4. ASSUME NEW x \in MergerState
        PROVE  [x EXCEPT !.sources = sources] \in MergerState
    BY DEF MergerState
  <1>5. ASSUME NEW x \in MergerState
        PROVE  [x EXCEPT !.read = gens] \in MergerState
    BY DEF MergerState
  <1>6. [m EXCEPT !.pc = pc, !.gens = gens]
          = [[m EXCEPT !.pc = pc] EXCEPT !.gens = gens]
    OBVIOUS
  <1>7. [m EXCEPT !.pc = pc, !.parts = parts, !.sources = sources,
                  !.read = gens]
          = [[[[m EXCEPT !.pc = pc] EXCEPT !.parts = parts]
                EXCEPT !.sources = sources] EXCEPT !.read = gens]
    OBVIOUS
  <1>8. QED
    BY <1>1, <1>2, <1>3, <1>4, <1>5, <1>6, <1>7

LEMMA FinalizingTyped ==
    [IdleMerger EXCEPT !.pc = "finalizing"] \in MergerState
  BY IdleTyped DEF MergerState

\* What the merger leaves alone stays typed.
LEMMA MergerOnly ==
    ASSUME Typed, index' \in Indexes, manifest' \in [Episodes -> Manifests],
           anim' \in SUBSET Episodes, merger' \in MergerState,
           gen' \in 0..MaxGen, faults' \in 0..MaxFaults,
           \/ UNCHANGED fin
           \/ \E t \in Episodes : StartFinal(Merger, {t}),
           UNCHANGED <<queue, used, worker, tick, reopens, ticks>>
    PROVE  Typed'
  <1>1. /\ fin' \in [Finalizers -> FinState]
        /\ \A g \in Finalizers :
             fin'[g].pc = "scoring" => fin'[g].ev \in Episodes
    <2>1. CASE UNCHANGED fin
      BY <2>1 DEF Typed, TypeOK, ActorsNamed
    <2>2. ASSUME NEW t \in Episodes, StartFinal(Merger, {t}) PROVE <1>1
      BY <2>2, StartFinalTyped, ThreadsFinalize
    <2>3. QED
      BY <2>1, <2>2
  <1>2. QED
    BY <1>1 DEF Typed, TypeOK, ActorsNamed

LEMMA ManGenTyped ==
    ASSUME Typed, NEW e \in Episodes
    PROVE  index[e].man.gen \in 0..MaxGen /\ manifest[e].gen \in 0..MaxGen
  BY DEF Typed, TypeOK, Indexes, Entries, Manifests

LEMMA MergePassTyped == ASSUME Typed, MergePass PROVE Typed'
  <1>1. /\ index' \in Indexes /\ manifest' \in [Episodes -> Manifests]
        /\ anim' \in SUBSET Episodes /\ gen' \in 0..MaxGen
        /\ faults' \in 0..MaxFaults
        /\ UNCHANGED <<queue, used, worker, tick, reopens, ticks>>
    BY DEF MergePass, storeVars, boundVars, Typed, TypeOK
  <1>2. CASE FinishMerged
    <2>1. PICK t \in Episodes :
            \/ /\ merger' = [IdleMerger EXCEPT !.pc = "finalizing"]
               /\ StartFinal(Merger, {t})
            \/ /\ merger' = [IdleMerger EXCEPT
                              !.pc = "dropping",
                              !.gens = [NoPlan EXCEPT ![t] = index[t].man.gen]]
               /\ UNCHANGED fin
      BY <1>2 DEF FinishMerged, Members, Listed
    <2>2. [NoPlan EXCEPT ![t] = index[t].man.gen] \in [Episodes -> 0..MaxGen]
      BY ManGenTyped, IdleTyped
    <2>3. merger' \in MergerState
      <3> DEFINE gens == [NoPlan EXCEPT ![t] = index[t].man.gen]
      <3>1. gens \in [Episodes -> 0..MaxGen]
        BY <2>2
      <3>2. \/ merger' = [IdleMerger EXCEPT !.pc = "finalizing"]
            \/ merger' = [IdleMerger EXCEPT !.pc = "dropping", !.gens = gens]
        BY <2>1
      <3> HIDE DEF gens
      <3>3. [IdleMerger EXCEPT !.pc = "dropping", !.gens = gens]
              \in MergerState
        BY <3>1, IdleTyped, MergerEditTyped
      <3>4. QED
        BY <3>2, <3>3, FinalizingTyped
    <2>4. QED
      BY <1>1, <2>1, <2>3, MergerOnly
  <1>3. ASSUME NEW waited \in BOOLEAN, PlanMerge(waited) PROVE Typed'
    <2> DEFINE gens == [e \in Episodes |-> IF e \in Members(index)
                                           THEN index[e].man.gen ELSE 0]
    <2>1. gens \in [Episodes -> 0..MaxGen]
      BY ManGenTyped, EpisodeStoreAssumption
    <2>2. merger' = [IdleMerger EXCEPT !.pc = "building", !.gens = gens]
          /\ UNCHANGED fin
      BY <1>3 DEF PlanMerge
    <2> HIDE DEF gens
    <2>3. merger' \in MergerState
      BY <2>1, <2>2, IdleTyped, MergerEditTyped
    <2>4. QED
      BY <1>1, <2>2, <2>3, MergerOnly
  <1>4. QED
    BY <1>2, <1>3 DEF MergePass

LEMMA MergeBuildTyped == ASSUME Typed, MergeBuild PROVE Typed'
  <1> DEFINE sources == Planned \cap anim
             parts == UNION {manifest[m].parts : m \in sources}
             read == [e \in Episodes |-> manifest[e].gen]
  <1>1. /\ index' \in Indexes /\ manifest' \in [Episodes -> Manifests]
        /\ anim' \in SUBSET Episodes /\ gen' \in 0..MaxGen
        /\ faults' \in 0..MaxFaults
        /\ UNCHANGED <<fin, queue, used, worker, tick, reopens, ticks>>
    BY FaultTyped DEF MergeBuild, storeVars, Typed, TypeOK
  <1>2. sources \in SUBSET Episodes
    BY DEF Planned
  <1>3. parts \in SUBSET Episodes
    BY <1>2 DEF Typed, TypeOK, Manifests
  <1>4. read \in [Episodes -> 0..MaxGen]
    BY ManGenTyped
  <1>5. \/ merger' = IdleMerger
        \/ merger' = [merger EXCEPT !.pc = "committing", !.parts = parts,
                                    !.sources = sources, !.read = read]
    BY DEF MergeBuild
  <1>6. merger \in MergerState
    BY DEF Typed, TypeOK
  <1> HIDE DEF sources, parts, read
  <1>7. merger' \in MergerState
    <2>1. [merger EXCEPT !.pc = "committing", !.parts = parts,
                         !.sources = sources, !.read = read] \in MergerState
      BY <1>2, <1>3, <1>4, <1>6, MergerEditTyped
    <2>2. QED
      BY <1>5, <2>1, IdleTyped
  <1>8. QED
    BY <1>1, <1>7, MergerOnly

LEMMA MergeCommitTyped == ASSUME Typed, MergeCommit PROVE Typed'
  <1>1. PICK target \in Episodes :
          \/ /\ gen < MaxGen /\ gen' = gen + 1
             /\ index' = Merge(index, target, Planned,
                               [gen |-> gen + 1, parts |-> merger.parts])
             /\ manifest' = [manifest EXCEPT ![target] =
                               [gen |-> gen + 1, parts |-> merger.parts]]
             /\ anim' = anim \cup {target}
             /\ merger' = [IdleMerger EXCEPT !.pc = "finalizing"]
             /\ StartFinal(Merger, {target})
             /\ NoFault
          \/ /\ merger' = IdleMerger
             /\ UNCHANGED <<storeVars, fin, gen>>
             /\ Fault \/ NoFault
    BY DEF MergeCommit
  <1>2. UNCHANGED <<queue, used, worker, tick, reopens, ticks>>
    BY DEF MergeCommit
  <1>3. faults' \in 0..MaxFaults
    BY <1>1, FaultTyped
  <1>4. CASE /\ merger' = IdleMerger
             /\ UNCHANGED <<storeVars, fin, gen>>
    BY <1>2, <1>3, <1>4, IdleTyped, MergerOnly DEF storeVars, Typed, TypeOK
  <1>5. CASE /\ gen < MaxGen /\ gen' = gen + 1
             /\ index' = Merge(index, target, Planned,
                               [gen |-> gen + 1, parts |-> merger.parts])
             /\ manifest' = [manifest EXCEPT ![target] =
                               [gen |-> gen + 1, parts |-> merger.parts]]
             /\ anim' = anim \cup {target}
             /\ merger' = [IdleMerger EXCEPT !.pc = "finalizing"]
             /\ StartFinal(Merger, {target})
    <2> DEFINE man == [gen |-> gen + 1, parts |-> merger.parts]
    <2>1. gen' \in 0..MaxGen /\ gen + 1 \in 0..MaxGen
      BY <1>5, EpisodeStoreAssumption DEF Typed, TypeOK
    <2>2. man \in Manifests
      BY <2>1 DEF Manifests, Typed, TypeOK, MergerState
    <2> HIDE DEF man
    <2>3. Planned \in SUBSET Episodes
      BY DEF Planned
    <2>4. index' \in Indexes
      BY <1>5, <2>2, <2>3, MergeTyped DEF man, Typed, TypeOK
    <2>5. manifest' \in [Episodes -> Manifests]
      BY <1>5, <2>2 DEF man, Typed, TypeOK
    <2>6. anim' \in SUBSET Episodes
      BY <1>5 DEF Typed, TypeOK
    <2>7. merger' \in MergerState
      BY <1>5, FinalizingTyped
    <2>8. QED
      BY <1>2, <1>3, <1>5, <2>1, <2>4, <2>5, <2>6, <2>7, MergerOnly
  <1>6. QED
    BY <1>1, <1>4, <1>5

LEMMA DropStaleTyped == ASSUME Typed, DropStale \/ MergeDone PROVE Typed'
  <1>1. CASE MergeDone
    BY <1>1, IdleTyped, MergerOnly
       DEF MergeDone, storeVars, boundVars, Typed, TypeOK
  <1>2. CASE DropStale
    <2>1. PICK t \in Episodes :
            \/ /\ index' = DropFinal(index, t)
               /\ merger' = [IdleMerger EXCEPT !.pc = "finalizing"]
               /\ StartFinal(Merger, {t})
               /\ NoFault
            \/ /\ merger' = IdleMerger
               /\ UNCHANGED <<index, fin>>
               /\ Fault \/ NoFault
      BY <1>2 DEF DropStale, Planned
    <2>2. index' \in Indexes
      BY <2>1, DropFinalTyped DEF Typed, TypeOK
    <2>3. merger' \in MergerState
      BY <2>1, IdleTyped, FinalizingTyped
    <2>4. faults' \in 0..MaxFaults
      BY <2>1, FaultTyped
    <2>5. QED
      BY <1>2, <2>1, <2>2, <2>3, <2>4, MergerOnly
         DEF DropStale, Typed, TypeOK
  <1>3. QED
    BY <1>1, <1>2

LEMMA CrashTyped == ASSUME Typed, RunnerCrash \/ MergerCrash PROVE Typed'
  <1>1. faults' \in 0..MaxFaults
    BY FaultTyped DEF RunnerCrash, MergerCrash
  <1>2. /\ fin' \in [Finalizers -> FinState]
        /\ \A g \in Finalizers :
             fin'[g].pc = "scoring" => fin'[g].ev \in Episodes
    <2>1. IdleFin \in FinState /\ IdleFin.pc = "idle"
      BY IdleTyped DEF IdleFin
    <2>2. QED
      BY <2>1 DEF RunnerCrash, MergerCrash, Typed, TypeOK, ActorsNamed
  <1>3. CASE RunnerCrash
    <2>1. tick' \in TickState /\ tick'.pc = "idle" /\ tick'.start = "none"
      BY <1>3, IdleTyped DEF RunnerCrash, IdleTick
    <2>2. QED
      BY <1>1, <1>2, <1>3, <2>1
         DEF RunnerCrash, storeVars, Typed, TypeOK, ActorsNamed
  <1>4. CASE MergerCrash
    BY <1>1, <1>2, <1>4, IdleTyped
       DEF MergerCrash, storeVars, Typed, TypeOK, ActorsNamed
  <1>5. QED
    BY <1>3, <1>4

LEMMA TypedStep == Typed /\ [Next]_vars => Typed'
  <1> SUFFICES ASSUME Typed, [Next]_vars PROVE Typed'
    OBVIOUS
  <1>1. CASE UNCHANGED vars
    BY <1>1 DEF vars, storeVars, actorVars, boundVars, Typed, TypeOK,
                ActorsNamed
  <1>2. CASE \E w \in Workers :
               \/ \E e \in Episodes : ReadIndex(w, e)
               \/ WorkerStep(w) \/ WorkerCrash(w)
    BY <1>2, WorkerTyped
  <1>3. CASE TickStart \/ TickStep
    BY <1>3, TickStartTyped, MarkTyped, PickTyped, ReopenReadTyped,
       ReopenCommitTyped, DispatchTyped, SweepTyped DEF TickStep
  <1>4. CASE \E f \in Finalizers : FinStep(f)
    BY <1>4, FinTyped
  <1>5. CASE MergerStep
    BY <1>5, MergePassTyped, MergeBuildTyped, MergeCommitTyped,
       DropStaleTyped DEF MergerStep
  <1>6. CASE RunnerCrash \/ MergerCrash
    BY <1>6, CrashTyped
  <1>7. QED
    BY <1>1, <1>2, <1>3, <1>4, <1>5, <1>6 DEF Next

\* Every variable of the index, the folders and the four processes stays in
\* its type, whatever they interleave and however often a read or commit fails.
THEOREM TypeCorrect == Spec => []TypeOK
  <1>1. Typed => TypeOK
    BY DEF Typed
  <1>2. QED
    BY <1>1, InitTyped, TypedStep, PTL DEF Spec

-----------------------------------------------------------------------------
(* Demo events, while nothing fails.  A fault lets a publish drop them from  *)
(* the list: it takes an unreadable index for an empty one (the violation    *)
(* run EpisodeIndex_unpinned).                                               *)

\* An index in which no demo event is open or absorbed.
PinnedSafe(idx) ==
    \A p \in Pinned : idx[p].status = "ended" /\ idx[p].into = 0

\* Every index somebody may still write back is safe, nobody works on a demo
\* event, and a merge that got past its plan has none to fear.
WorkersSafe ==
    \A w \in Workers :
        /\ worker[w].ev \notin Pinned
        /\ worker[w].pc \in {"read", "carried"} => PinnedSafe(worker[w].snap)

TickSafe ==
    /\ tick.pc \in {"mark", "marking", "pick", "reopen", "reopening"}
         => tick.start = "none"
    /\ tick.ended \cap Pinned = {}
    /\ tick.pc \in {"mark", "marking", "pick", "reopen", "reopening", "finals",
                    "run"}
         => PinnedSafe(tick.snap)
    /\ tick.pc \in {"marking", "reopening", "listing", "sweeping"}
         => PinnedSafe(tick.fresh)
    /\ tick.pc = "reopening" \/ tick.start = "reopened"
         => tick.cand \notin Pinned

MergerSafe == merger.pc \in {"building", "committing"} => Pinned = {}

StoreSafe ==
    /\ PinnedSafe(index) /\ Pinned \subseteq anim
    /\ queue \cap Pinned = {} /\ Past <= used

PinsInv == Typed /\ StoreSafe /\ WorkersSafe /\ TickSafe /\ MergerSafe

LEMMA PinnedEpisodes ==
    Pinned \subseteq Episodes /\ \A p \in Pinned : p \in Nat /\ p <= Past
  BY EpisodeStoreAssumption, EpisodeIndexAssumption DEF Episodes

LEMMA NothingFails == ASSUME MaxFaults = 0, Typed PROVE ~Fault
  BY DEF Fault, Typed, TypeOK

LEMMA LoadSafe ==
    ASSUME MaxFaults = 0, Typed, NEW got, LoadIndex(got) PROVE got = index
  BY NothingFails DEF LoadIndex

LEMMA ActiveSafe ==
    ASSUME NEW idx, PinnedSafe(idx) PROVE Active(idx) \cap Pinned = {}
  BY DEF PinnedSafe, Active

LEMMA PublishSafe ==
    ASSUME NEW idx \in Indexes, PinnedSafe(idx), NEW e \in Episodes \ Pinned,
           NEW man, NEW status, NEW gone, gone \cap Pinned = {}
    PROVE  PinnedSafe(Without(Prepend(idx, e, man, status), gone))
  <1>1. ASSUME NEW p \in Pinned
        PROVE  LET x == Without(Prepend(idx, e, man, status), gone)[p]
               IN x.status = "ended" /\ x.into = 0
    <2> DEFINE q == Prepend(idx, e, man, status)[p]
    <2>1. p \in Episodes /\ p # e /\ p \notin gone
      BY PinnedEpisodes
    <2>2. Without(Prepend(idx, e, man, status), gone)[p] = q
      BY <2>1 DEF Without
    <2>3. q = idx[p] \/ q = [idx[p] EXCEPT !.pos = idx[p].pos + 1]
      BY <2>1 DEF Prepend
    <2>4. q.status = idx[p].status /\ q.into = idx[p].into
      <3> HIDE DEF q
      <3>1. idx[p] \in Entries
        BY <2>1 DEF Indexes
      <3>2. QED
        BY <2>3, <3>1 DEF Entries
    <2>5. QED
      BY <2>2, <2>4 DEF PinnedSafe
  <1>2. QED
    BY <1>1 DEF PinnedSafe

LEMMA EditSafe ==
    ASSUME NEW idx \in Indexes, PinnedSafe(idx)
    PROVE  /\ \A ids : PinnedSafe(MarkEnded(idx, ids))
           /\ \A e \in Episodes \ Pinned, r \in 0..MaxReopens :
                PinnedSafe(Reopen(idx, e, r))
           /\ \A got, began : PinnedSafe(WriteFinals(idx, got, began))
           /\ \A e \in Episodes : PinnedSafe(DropFinal(idx, e))
  <1>1. ASSUME NEW p \in Pinned PROVE p \in Episodes /\ idx[p] \in Entries
    BY PinnedEpisodes DEF Indexes
  <1>2. ASSUME NEW ids PROVE PinnedSafe(MarkEnded(idx, ids))
    BY <1>1 DEF PinnedSafe, MarkEnded, Entries
  <1>3. ASSUME NEW e \in Episodes \ Pinned, NEW r \in 0..MaxReopens
        PROVE  PinnedSafe(Reopen(idx, e, r))
    BY <1>1 DEF PinnedSafe, Reopen, Indexes
  <1>4. ASSUME NEW got, NEW began PROVE PinnedSafe(WriteFinals(idx, got, began))
    <2>1. ASSUME NEW p \in Pinned
          PROVE  LET x == WriteFinals(idx, got, began)[p]
                 IN x.status = "ended" /\ x.into = 0
      <3> DEFINE x == WriteFinals(idx, got, began)[p]
      <3>1. x = idx[p] \/ \E f : x = [idx[p] EXCEPT !.final = f]
        BY <1>1 DEF WriteFinals
      <3> HIDE DEF x
      <3>2. x.status = idx[p].status /\ x.into = idx[p].into
        BY <1>1, <3>1 DEF Entries
      <3>3. QED
        BY <3>2 DEF PinnedSafe, x
    <2>2. QED
      BY <2>1 DEF PinnedSafe
  <1>5. ASSUME NEW e \in Episodes PROVE PinnedSafe(DropFinal(idx, e))
    <2>1. ASSUME NEW p \in Pinned
          PROVE  DropFinal(idx, e)[p].status = idx[p].status
                 /\ DropFinal(idx, e)[p].into = idx[p].into
      BY <1>1 DEF DropFinal, Indexes, Entries
    <2>2. QED
      BY <2>1 DEF PinnedSafe
  <1>6. QED
    BY <1>2, <1>3, <1>4, <1>5

LEMMA InitPins == Init => PinsInv
  <1> SUFFICES ASSUME Init PROVE PinsInv
    OBVIOUS
  <1>1. StoreSafe
    <2>1. ASSUME NEW p \in Pinned
          PROVE  index[p].status = "ended" /\ index[p].into = 0
      <3>1. p \in Episodes /\ ~(p > Past)
        BY PinnedEpisodes, EpisodeIndexAssumption
      <3>2. \E m, f, n : index[p] = [Unlisted EXCEPT !.status = "ended",
                                        !.man = m, !.final = f, !.pos = n]
        BY <3>1 DEF Init
      <3>3. QED
        BY <3>2 DEF Unlisted
    <2>2. anim = 1..Past /\ queue = {} /\ used = Past
      BY DEF Init
    <2>3. Past <= Past
      BY EpisodeIndexAssumption
    <2>4. QED
      BY <2>1, <2>2, <2>3, EpisodeIndexAssumption DEF StoreSafe, PinnedSafe
  <1>2. WorkersSafe
    <2>1. 0 \notin Pinned
      BY PinnedEpisodes DEF Episodes
    <2>2. \A w \in Workers : worker[w].ev = 0 /\ worker[w].pc = "idle"
      BY DEF Init, IdleWorker
    <2>3. QED
      BY <2>1, <2>2 DEF WorkersSafe
  <1>3. TickSafe /\ MergerSafe
    BY DEF Init, TickSafe, MergerSafe, IdleTick, IdleMerger
  <1>4. QED
    BY <1>1, <1>2, <1>3, InitTyped DEF PinsInv

LEMMA WorkerSafe ==
    ASSUME MaxFaults = 0, PinsInv, NEW w \in Workers,
           (\E e \in Episodes : ReadIndex(w, e)) \/ WorkerStep(w)
    PROVE  StoreSafe' /\ WorkersSafe'
  <1>1. Typed /\ StoreSafe /\ WorkersSafe /\ ~Fault
    BY NothingFails DEF PinsInv
  <1>2. 0 \notin Pinned
    BY PinnedEpisodes DEF Episodes
  <1>3. ASSUME NEW e \in Episodes, ReadIndex(w, e)
        PROVE  StoreSafe' /\ WorkersSafe'
    <2>1. worker' = [worker EXCEPT ![w] =
                       [pc |-> "read", ev |-> e, snap |-> index,
                        man |-> [gen |-> gen + 1, parts |-> {e}]]]
      BY <1>1, <1>3, LoadSafe DEF ReadIndex
    <2>2. e \notin Pinned
      BY <1>1, <1>3 DEF ReadIndex, StoreSafe
    <2>3. WorkersSafe'
      BY <1>1, <2>1, <2>2 DEF WorkersSafe, StoreSafe, Typed, TypeOK
    <2>4. QED
      BY <1>1, <1>3, <2>3 DEF ReadIndex, StoreSafe, PinnedSafe, storeVars
  <1>4. CASE CarryFrames(w)
    <2>1. /\ \A v \in Workers \ {w} : worker'[v] = worker[v]
          /\ worker'[w].ev = worker[w].ev /\ worker'[w].snap = worker[w].snap
      BY <1>1, <1>4 DEF CarryFrames, Typed, TypeOK, WorkerState
    <2>2. worker[w].pc = "read"
      BY <1>4 DEF CarryFrames
    <2>3. WorkersSafe'
      BY <1>1, <2>1, <2>2 DEF WorkersSafe
    <2>4. QED
      BY <1>1, <1>4, <2>3 DEF CarryFrames, StoreSafe, PinnedSafe, storeVars
  <1>5. CASE PublishCommit(w)
    <2> DEFINE e == worker[w].ev
    <2>1. /\ e \in Episodes \ Pinned /\ worker[w].snap \in Indexes
          /\ PinnedSafe(worker[w].snap)
      BY <1>1, <1>5 DEF PublishCommit, WorkersSafe, Typed, TypeOK,
                        ActorsNamed, WorkerState
    <2>2. PICK status \in {"active", "ended"},
               gone \in SUBSET Episodes :
            /\ gone \cap Pinned = {}
            /\ index' = Without(Prepend(worker[w].snap, e, worker[w].man,
                                        status), gone)
            /\ anim' = (anim \cup {e}) \ gone
            /\ worker' = [worker EXCEPT ![w] =
                            [IdleWorker EXCEPT !.pc = "published", !.ev = e]]
      <3>1. PICK status \in {"active", "ended"}, pinsRead \in BOOLEAN :
              LET listed == Prepend(worker[w].snap, e, worker[w].man, status)
                  dropped == IF pinsRead THEN OverCap(listed) \ {e} ELSE {}
              IN /\ index' = Without(listed, dropped)
                 /\ anim' = (anim \cup {e}) \ dropped
                 /\ worker' = [worker EXCEPT ![w] =
                            [IdleWorker EXCEPT !.pc = "published", !.ev = e]]
        BY <1>1, <1>5 DEF PublishCommit
      <3> DEFINE listed == Prepend(worker[w].snap, e, worker[w].man, status)
                 gone == IF pinsRead THEN OverCap(listed) \ {e} ELSE {}
      <3>2. gone \in SUBSET Episodes /\ gone \cap Pinned = {}
        BY DEF OverCap, Listed
      <3>3. QED
        BY <3>1, <3>2
    <2>3. PinnedSafe(index)'
      BY <2>1, <2>2, PublishSafe DEF PinnedSafe
    <2>4. Pinned \subseteq anim' /\ UNCHANGED <<queue, used>>
      BY <1>1, <1>5, <2>2 DEF PublishCommit, StoreSafe
    <2>5. StoreSafe'
      BY <1>1, <2>3, <2>4 DEF StoreSafe, PinnedSafe
    <2> DEFINE new == [IdleWorker EXCEPT !.pc = "published", !.ev = e]
    <2>6. new.pc = "published" /\ new.ev = e
          /\ worker' = [worker EXCEPT ![w] = new]
      BY <2>2 DEF IdleWorker
    <2> HIDE DEF new
    <2>7. WorkersSafe'
      BY <1>1, <2>1, <2>6 DEF WorkersSafe, Typed, TypeOK
    <2>8. QED
      BY <2>5, <2>7
  <1>6. CASE Consume(w)
    <2>1. worker' = [worker EXCEPT ![w] = IdleWorker] /\ queue' \subseteq queue
          /\ UNCHANGED <<index, anim, used>>
      BY <1>6 DEF Consume, storeVars
    <2>2. WorkersSafe'
      BY <1>1, <1>2, <2>1 DEF WorkersSafe, Typed, TypeOK, IdleWorker
    <2>3. QED
      BY <1>1, <2>1, <2>2 DEF StoreSafe, PinnedSafe
  <1>7. QED
    BY <1>3, <1>4, <1>5, <1>6 DEF WorkerStep

\* A step that leaves the store alone, and the tick as described.
LEMMA TickQuiet ==
    ASSUME PinsInv, UNCHANGED <<index, anim, queue, used, worker, merger>>,
           TickSafe'
    PROVE  StoreSafe' /\ WorkersSafe' /\ TickSafe' /\ MergerSafe'
  BY DEF PinsInv, StoreSafe, PinnedSafe, WorkersSafe, MergerSafe

LEMMA DecideSafe ==
    ASSUME PinsInv, tick.pc \in {"reopen", "reopening"},
           \/ Decide("new") \/ Decide("none")
           \/ /\ Decide("reopened")
              /\ tick.cand \notin Pinned
    PROVE  TickSafe'
  <1>1. tick \in TickState /\ TickSafe
    BY DEF PinsInv, Typed, TypeOK
  <1>2. PICK s \in {"none", "new", "reopened"} :
          /\ tick' = [tick EXCEPT !.pc = "finals", !.start = s]
          /\ s = "reopened" => tick.cand \notin Pinned
    BY DEF Decide
  <1>3. /\ tick'.pc = "finals" /\ tick'.start = s
        /\ tick'.cand = tick.cand /\ tick'.ended = tick.ended
        /\ tick'.snap = tick.snap
    BY <1>1, <1>2 DEF TickState
  <1>4. QED
    BY <1>1, <1>2, <1>3 DEF TickSafe, PinnedSafe

LEMMA TickDecides ==
    ASSUME MaxFaults = 0, PinsInv,
           TickStart \/ MarkRead \/ Pick \/ ReopenRead \/ SweepRead
             \/ SweepList
    PROVE  /\ TickSafe'
           /\ UNCHANGED <<index, anim, queue, used, worker, merger>>
  <1>1. /\ Typed /\ StoreSafe /\ TickSafe /\ ~Fault /\ PinnedSafe(index)
        /\ tick \in TickState
    BY NothingFails DEF PinsInv, StoreSafe, Typed, TypeOK
  <1>2. CASE TickStart
    <2>1. PICK k \in 0..N, flagged \in BOOLEAN :
            LET ended == {e \in Active(index) : e <= k}
            IN tick' = [IdleTick EXCEPT
                          !.pc = IF ended = {} THEN "pick" ELSE "mark",
                          !.flagged = flagged, !.snap = index, !.ended = ended]
      BY <1>1, <1>2, LoadSafe DEF TickStart
    <2> DEFINE ended == {e \in Active(index) : e <= k}
    <2>2. ended \cap Pinned = {}
      BY <1>1, ActiveSafe
    <2>3. /\ tick'.pc \in {"pick", "mark"} /\ tick'.start = "none"
          /\ tick'.snap = index /\ tick'.ended = ended
      BY <2>1 DEF IdleTick
    <2> HIDE DEF ended
    <2>4. TickSafe'
      BY <1>1, <2>2, <2>3 DEF TickSafe, PinnedSafe
    <2>5. QED
      BY <1>2, <2>4 DEF TickStart, storeVars
  <1>3. CASE MarkRead
    <2>1. \/ tick' = [tick EXCEPT !.pc = "pick"]
          \/ tick' = [tick EXCEPT !.pc = "marking", !.fresh = index]
      BY <1>1, <1>3, LoadSafe DEF MarkRead, GoTo
    <2>2. /\ tick'.pc \in {"pick", "marking"} /\ tick'.start = tick.start
          /\ tick'.cand = tick.cand /\ tick'.snap = tick.snap
          /\ tick'.ended = tick.ended
          /\ tick'.pc = "marking" => tick'.fresh = index
      BY <1>1, <2>1 DEF TickState
    <2>3. TickSafe'
      BY <1>1, <1>3, <2>2 DEF MarkRead, TickSafe, PinnedSafe
    <2>4. QED
      BY <1>3, <2>3 DEF MarkRead, storeVars
  <1>4. CASE Pick
    <2>1. \/ tick' = [tick EXCEPT !.pc = "finals", !.start = "new"]
          \/ \E e \in Episodes :
               tick' = [tick EXCEPT !.pc = "reopen", !.cand = e]
          \/ tick' = [tick EXCEPT !.pc = "finals"]
      BY <1>4 DEF Pick, ReopenCandidates
    <2>2. /\ tick'.snap = tick.snap /\ tick'.ended = tick.ended
          /\ \/ tick'.pc = "finals" /\ tick'.start = "new"
             \/ tick'.pc = "reopen" /\ tick'.start = tick.start
             \/ /\ tick'.pc = "finals" /\ tick'.start = tick.start
                /\ tick'.cand = tick.cand
      BY <1>1, <2>1 DEF TickState
    <2>3. tick.pc = "pick" /\ tick.start = "none"
      BY <1>1, <1>4 DEF Pick, TickSafe
    <2>4. TickSafe'
      BY <1>1, <2>2, <2>3 DEF TickSafe, PinnedSafe
    <2>5. QED
      BY <1>4, <2>4 DEF Pick, storeVars
  <1>5. CASE ReopenRead
    <2>1. tick.pc = "reopen"
      BY <1>5 DEF ReopenRead
    <2>2. \/ Decide("new") \/ Decide("none")
          \/ Decide("reopened") /\ tick.cand \notin Pinned
          \/ /\ tick.cand \notin Pinned
             /\ tick' = [tick EXCEPT !.pc = "reopening", !.fresh = index]
      BY <1>1, <1>5, LoadSafe DEF ReopenRead
    <2>3. CASE /\ tick.cand \notin Pinned
               /\ tick' = [tick EXCEPT !.pc = "reopening", !.fresh = index]
      <3>1. /\ tick'.pc = "reopening" /\ tick'.fresh = index
            /\ tick'.cand = tick.cand /\ tick'.snap = tick.snap
            /\ tick'.ended = tick.ended
        BY <1>1, <2>3 DEF TickState
      <3>2. QED
        BY <1>1, <1>5, <2>1, <2>3, <3>1
           DEF ReopenRead, storeVars, TickSafe, PinnedSafe
    <2>4. CASE \/ Decide("new") \/ Decide("none")
               \/ Decide("reopened") /\ tick.cand \notin Pinned
      <3>1. TickSafe'
        BY <2>1, <2>4, DecideSafe
      <3>2. QED
        BY <1>5, <3>1 DEF ReopenRead, storeVars
    <2>5. QED
      BY <2>2, <2>3, <2>4
  <1>6. CASE SweepRead
    <2>1. tick' = [tick EXCEPT !.pc = "listing", !.fresh = index]
      BY <1>1, <1>6, LoadSafe DEF SweepRead
    <2>2. /\ tick'.pc = "listing" /\ tick'.fresh = index
          /\ tick'.start = tick.start /\ tick'.cand = tick.cand
          /\ tick'.ended = tick.ended
      BY <1>1, <2>1 DEF TickState
    <2>3. TickSafe'
      BY <1>1, <2>2 DEF TickSafe, PinnedSafe
    <2>4. QED
      BY <1>6, <2>3 DEF SweepRead, storeVars
  <1>7. CASE SweepList
    <2>1. \/ tick' = IdleTick
          \/ tick' = [tick EXCEPT !.pc = "sweeping",
                                  !.ended = Orphans(tick.fresh)]
      BY <1>7 DEF SweepList
    <2>2. Orphans(tick.fresh) \cap Pinned = {}
      BY DEF Orphans
    <2>3. CASE tick' = IdleTick
      <3>1. TickSafe'
        BY <2>3 DEF IdleTick, TickSafe
      <3>2. QED
        BY <1>7, <3>1 DEF SweepList, storeVars
    <2>4. CASE tick' = [tick EXCEPT !.pc = "sweeping",
                                    !.ended = Orphans(tick.fresh)]
      <3>1. /\ tick'.pc = "sweeping" /\ tick'.fresh = tick.fresh
            /\ tick'.start = tick.start /\ tick'.cand = tick.cand
            /\ tick'.ended = Orphans(tick.fresh)
        BY <1>1, <2>4 DEF TickState
      <3>2. tick.pc = "listing"
        BY <1>7 DEF SweepList
      <3>3. TickSafe'
        BY <1>1, <2>2, <3>1, <3>2 DEF TickSafe, PinnedSafe
      <3>4. QED
        BY <1>7, <3>3 DEF SweepList, storeVars
    <2>5. QED
      BY <2>1, <2>3, <2>4
  <1>8. QED
    BY <1>2, <1>3, <1>4, <1>5, <1>6, <1>7

LEMMA TickActs ==
    ASSUME MaxFaults = 0, PinsInv,
           MarkCommit \/ ReopenCommit \/ DispatchFinals \/ RunJobs
             \/ SweepCommit
    PROVE  StoreSafe' /\ WorkersSafe' /\ TickSafe' /\ MergerSafe'
  <1>1. /\ Typed /\ StoreSafe /\ TickSafe /\ WorkersSafe /\ MergerSafe
        /\ ~Fault /\ tick \in TickState /\ tick.fresh \in Indexes
    BY NothingFails DEF PinsInv, Typed, TypeOK, TickState
  <1>2. CASE MarkCommit
    <2>1. index' = MarkEnded(tick.fresh, tick.ended) /\ PinnedSafe(tick.fresh)
      BY <1>1, <1>2 DEF MarkCommit, TickSafe
    <2>2. PinnedSafe(index)'
      BY <1>1, <2>1, EditSafe DEF PinnedSafe
    <2>3. tick' = [tick EXCEPT !.pc = "pick", !.fresh = EmptyIndex]
      BY <1>2 DEF MarkCommit
    <2>4. /\ tick'.pc = "pick" /\ tick'.start = tick.start
          /\ tick'.cand = tick.cand /\ tick'.snap = tick.snap
          /\ tick'.ended = tick.ended
      BY <1>1, <2>3 DEF TickState
    <2>5. TickSafe'
      BY <1>1, <1>2, <2>4 DEF MarkCommit, TickSafe, PinnedSafe
    <2>6. QED
      BY <1>1, <1>2, <2>2, <2>5
         DEF MarkCommit, StoreSafe, PinnedSafe, WorkersSafe, MergerSafe
  <1>3. CASE ReopenCommit
    <2>1. /\ index' = Reopen(tick.fresh, tick.cand, reopens + 1)
          /\ reopens + 1 \in 0..MaxReopens
          /\ tick' = [tick EXCEPT !.pc = "finals", !.fresh = EmptyIndex,
                                  !.start = "reopened"]
      BY <1>1, <1>3, EpisodeStoreAssumption DEF ReopenCommit, Typed, TypeOK
    <2>2. PinnedSafe(tick.fresh) /\ tick.cand \in Episodes \ Pinned
      BY <1>1, <1>3 DEF ReopenCommit, TickSafe, Typed, ActorsNamed
    <2>3. PinnedSafe(index)'
      BY <1>1, <2>1, <2>2, EditSafe DEF PinnedSafe
    <2>4. /\ tick'.pc = "finals" /\ tick'.cand = tick.cand
          /\ tick'.snap = tick.snap /\ tick'.ended = tick.ended
      BY <1>1, <2>1 DEF TickState
    <2>5. TickSafe'
      BY <1>1, <1>3, <2>2, <2>4 DEF ReopenCommit, TickSafe, PinnedSafe
    <2>6. QED
      BY <1>1, <1>3, <2>3, <2>5
         DEF ReopenCommit, StoreSafe, PinnedSafe, WorkersSafe, MergerSafe
  <1>4. CASE DispatchFinals
    <2>1. tick' = [tick EXCEPT !.pc = "run"]
      BY <1>4 DEF DispatchFinals, GoTo
    <2>2. /\ tick'.pc = "run" /\ tick'.start = tick.start
          /\ tick'.cand = tick.cand /\ tick'.snap = tick.snap
          /\ tick'.ended = tick.ended
      BY <1>1, <2>1 DEF TickState
    <2>3. TickSafe'
      BY <1>1, <1>4, <2>2 DEF DispatchFinals, TickSafe, PinnedSafe
    <2>4. QED
      BY <1>4, <2>3, TickQuiet DEF DispatchFinals, storeVars
  <1>5. CASE RunJobs
    <2> DEFINE new == IF tick.start = "new" /\ used < N THEN {used + 1} ELSE {}
               again == IF tick.start = "reopened" THEN {tick.cand} ELSE {}
    <2>1. PICK run \in SUBSET (new \cup again \cup Jobs) :
            /\ Cardinality(run) <= MaxPerTick
            /\ queue' = queue \cup run
            /\ used' = IF new \cap run = {} THEN used ELSE used + 1
      BY <1>5 DEF RunJobs
    <2>2. used + 1 \notin Pinned
      BY <1>1, PinnedEpisodes, EpisodeIndexAssumption
         DEF StoreSafe, Typed, TypeOK
    <2>3. new \cap Pinned = {} /\ again \cap Pinned = {}
      BY <1>1, <2>2 DEF TickSafe
    <2>4. Jobs \cap Pinned = {}
      <3>1. PinnedSafe(tick.snap)
        BY <1>1, <1>5 DEF RunJobs, TickSafe
      <3>2. QED
        BY <3>1, ActiveSafe DEF Jobs
    <2> HIDE DEF new, again
    <2>5. queue' \cap Pinned = {}
      BY <1>1, <2>1, <2>3, <2>4 DEF StoreSafe
    <2>6. Past <= used'
      BY <1>1, <2>1, EpisodeIndexAssumption DEF StoreSafe, Typed, TypeOK
    <2>7. StoreSafe'
      BY <1>1, <1>5, <2>5, <2>6 DEF RunJobs, StoreSafe, PinnedSafe, storeVars
    <2>8. /\ tick'.pc = "sweep" /\ tick'.start = "none" /\ tick'.ended = {}
      BY <1>5 DEF RunJobs, IdleTick
    <2>9. TickSafe'
      BY <2>8 DEF TickSafe
    <2>10. QED
      BY <1>1, <1>5, <2>7, <2>9
         DEF RunJobs, WorkersSafe, MergerSafe, PinnedSafe, storeVars
  <1>6. CASE SweepCommit
    <2>1. index' = tick.fresh /\ anim' = anim \ tick.ended /\ tick' = IdleTick
      BY <1>1, <1>6 DEF SweepCommit
    <2>2. StoreSafe'
      BY <1>1, <1>6, <2>1 DEF SweepCommit, StoreSafe, TickSafe, PinnedSafe
    <2>3. TickSafe'
      BY <2>1 DEF TickSafe, IdleTick
    <2>4. QED
      BY <1>1, <1>6, <2>2, <2>3
         DEF SweepCommit, WorkersSafe, MergerSafe, PinnedSafe
  <1>7. QED
    BY <1>2, <1>3, <1>4, <1>5, <1>6

LEMMA FinSafe ==
    ASSUME MaxFaults = 0, PinsInv, NEW f \in Finalizers, FinStep(f)
    PROVE  StoreSafe' /\ WorkersSafe' /\ TickSafe' /\ MergerSafe'
  <1>1. /\ Typed /\ StoreSafe /\ TickSafe /\ WorkersSafe /\ MergerSafe
        /\ ~Fault /\ index \in Indexes
    BY NothingFails DEF PinsInv, Typed, TypeOK
  <1>2. UNCHANGED <<anim, queue, used, worker, tick, merger>>
    BY DEF FinStep, FinalRead, FinalScore, FinalCommit, storeVars
  <1>3. \/ index' = index
        \/ \E got, began : index' = WriteFinals(index, got, began)
    BY DEF FinStep, FinalRead, FinalScore, FinalCommit, storeVars
  <1>4. PinnedSafe(index)'
    BY <1>1, <1>3, EditSafe DEF StoreSafe, PinnedSafe
  <1>5. QED
    BY <1>1, <1>2, <1>4
       DEF StoreSafe, WorkersSafe, TickSafe, MergerSafe, PinnedSafe

LEMMA MergerStepSafe ==
    ASSUME MaxFaults = 0, PinsInv, MergerStep
    PROVE  StoreSafe' /\ WorkersSafe' /\ TickSafe' /\ MergerSafe'
  <1>1. /\ Typed /\ StoreSafe /\ TickSafe /\ WorkersSafe /\ MergerSafe
        /\ ~Fault /\ index \in Indexes /\ merger \in MergerState
    BY NothingFails DEF PinsInv, Typed, TypeOK
  <1>2. UNCHANGED <<queue, used, worker, tick>>
    BY DEF MergerStep, MergePass, MergeBuild, MergeCommit, DropStale, MergeDone
  <1>3. WorkersSafe' /\ TickSafe'
    BY <1>1, <1>2 DEF WorkersSafe, TickSafe, PinnedSafe
  <1>4. CASE Pinned = {}
    BY <1>1, <1>2, <1>3, <1>4 DEF StoreSafe, PinnedSafe, MergerSafe
  <1>5. CASE Pinned # {}
    <2>1. ~MergeBuild /\ ~MergeCommit
      BY <1>1, <1>5 DEF MergeBuild, MergeCommit, MergerSafe
    <2>2. /\ merger'.pc \in {"idle", "dropping", "finalizing"}
          /\ UNCHANGED anim
          /\ \/ index' = index
             \/ \E t \in Episodes : index' = DropFinal(index, t)
      <3>1. CASE MergePass
        <4>1. \A waited : ~PlanMerge(waited)
          <5>1. PICK p \in Pinned : p \in Episodes
            BY <1>5, PinnedEpisodes
          <5>2. p \in Members(index)
            BY <1>1, <5>1 DEF StoreSafe, PinnedSafe, Members, Listed
          <5>3. QED
            BY <5>1, <5>2 DEF PlanMerge, Mergeable
        <4>2. FinishMerged
          BY <3>1, <4>1 DEF MergePass
        <4>3. merger'.pc \in {"dropping", "finalizing"}
          BY <4>2 DEF FinishMerged, IdleMerger
        <4>4. QED
          BY <3>1, <4>3 DEF MergePass, storeVars
      <3>2. CASE DropStale
        <4>1. merger'.pc \in {"idle", "finalizing"}
          BY <3>2 DEF DropStale, IdleMerger
        <4>2. index' = index
              \/ \E t \in Episodes : index' = DropFinal(index, t)
          BY <3>2 DEF DropStale, Planned
        <4>3. QED
          BY <3>2, <4>1, <4>2 DEF DropStale
      <3>3. CASE MergeDone
        BY <3>3 DEF MergeDone, IdleMerger, storeVars
      <3>4. QED
        BY <2>1, <3>1, <3>2, <3>3 DEF MergerStep
    <2>3. PinnedSafe(index)'
      BY <1>1, <2>2, EditSafe DEF StoreSafe, PinnedSafe
    <2>4. QED
      BY <1>1, <1>2, <1>3, <2>2, <2>3 DEF StoreSafe, PinnedSafe, MergerSafe
  <1>6. QED
    BY <1>4, <1>5

LEMMA PinsStep == ASSUME MaxFaults = 0 PROVE PinsInv /\ [Next]_vars => PinsInv'
  <1> SUFFICES ASSUME PinsInv, [Next]_vars
               PROVE  StoreSafe' /\ WorkersSafe' /\ TickSafe' /\ MergerSafe'
    BY TypedStep DEF PinsInv
  <1>1. ~Fault
    BY NothingFails DEF PinsInv
  <1>2. CASE UNCHANGED vars
    BY <1>2 DEF vars, storeVars, actorVars, boundVars, PinsInv, StoreSafe,
                WorkersSafe, TickSafe, MergerSafe, PinnedSafe
  <1>3. ASSUME NEW w \in Workers,
               (\E e \in Episodes : ReadIndex(w, e)) \/ WorkerStep(w)
        PROVE  StoreSafe' /\ WorkersSafe' /\ TickSafe' /\ MergerSafe'
    <2>1. UNCHANGED <<tick, merger>>
      BY <1>3 DEF ReadIndex, WorkerStep, CarryFrames, PublishCommit, Consume
    <2>2. QED
      BY <1>3, <2>1, WorkerSafe DEF PinsInv, TickSafe, MergerSafe, PinnedSafe
  <1>4. CASE TickStart \/ TickStep
    <2>1. CASE \/ TickStart \/ MarkRead \/ Pick \/ ReopenRead
               \/ SweepRead \/ SweepList
      <3>1. /\ TickSafe'
            /\ UNCHANGED <<index, anim, queue, used, worker, merger>>
        BY <2>1, TickDecides
      <3>2. QED
        BY <3>1, TickQuiet
    <2>2. CASE \/ MarkCommit \/ ReopenCommit \/ DispatchFinals
               \/ RunJobs \/ SweepCommit
      BY <2>2, TickActs
    <2>3. QED
      BY <1>4, <2>1, <2>2 DEF TickStep
  <1>5. CASE \E f \in Finalizers : FinStep(f)
    BY <1>5, FinSafe
  <1>6. CASE MergerStep
    BY <1>6, MergerStepSafe
  <1>7. ~RunnerCrash /\ ~MergerCrash /\ \A w \in Workers : ~WorkerCrash(w)
    BY <1>1 DEF RunnerCrash, MergerCrash, WorkerCrash
  <1>8. QED
    BY <1>2, <1>3, <1>4, <1>5, <1>6, <1>7 DEF Next

\* While no read or commit fails, a demo event (events/pinned.json) keeps its
\* place on the list, its state and its animation, whatever the cap, the
\* merger, the sweep and stale writers do.
THEOREM PinnedStays == ASSUME MaxFaults = 0 PROVE Spec => []PinnedKept
  <1>1. PinsInv => PinnedKept
    BY DEF PinsInv, StoreSafe, PinnedSafe, PinnedKept
  <1>2. PinsInv /\ [Next]_vars => PinsInv'
    BY PinsStep
  <1>3. QED
    BY <1>1, <1>2, InitPins, PTL DEF Spec

-----------------------------------------------------------------------------
(* Finals.  Every index somebody may still write back, and every final on    *)
(* its way, fits the manifests in the folders, as long as these only grow    *)
(* newer.                                                                    *)

\* A final m of an entry s: it counts no older manifest than the entry's.
Fits(s, m) == m = NoManifest \/ m.gen >= s.man.gen

IndexFits(idx) ==
    \A e \in Episodes :
        \A m \in idx[e].final : idx[e].status = "ended" /\ Fits(idx[e], m)

\* An index that is not ahead of the manifests.
Behind(idx, mans) == \A e \in Episodes : idx[e].man.gen <= mans[e].gen

Sound(idx, mans) == IndexFits(idx) /\ Behind(idx, mans)

\* What a finalizer holds: the entry it read is not ahead of the manifest it
\* is going to read, and what it computed fits.
FinFits(s, mans) ==
    /\ s.pc = "scoring" => s.was.man.gen <= mans[s.ev].gen
    /\ \A g \in s.got : \A m \in g.final : Fits(g.was, m)

\* Stamps are given out in order.
StampsFit ==
    /\ \A e \in Episodes : manifest[e].gen <= gen
    /\ \A w \in Workers : worker[w].man.gen <= gen

FitsInv ==
    /\ Typed /\ StampsFit
    /\ Sound(index, manifest)
    /\ \A w \in Workers : Sound(worker[w].snap, manifest)
    /\ Sound(tick.fresh, manifest)
    /\ \A f \in Finalizers : FinFits(fin[f], manifest)

\* A worker is about to replace a manifest newer than its own: the merger
\* wrote it meanwhile.
Overtakes(w) ==
    worker[w].pc = "carried" /\ manifest[worker[w].ev].gen > worker[w].man.gen

LEMMA EmptySound ==
    ASSUME NEW mans \in [Episodes -> Manifests] PROVE Sound(EmptyIndex, mans)
  BY DEF Sound, IndexFits, Behind, EmptyIndex, Unlisted, NoManifest, Manifests

\* An edit that gives an entry the manifest of its folder or none, and drops
\* its final or keeps it with its manifest.
LEMMA EditSound ==
    ASSUME NEW idx \in Indexes, NEW new \in Indexes,
           NEW mans \in [Episodes -> Manifests], Sound(idx, mans),
           \A e \in Episodes :
              /\ new[e].man \in {idx[e].man, NoManifest, mans[e]}
              /\ \/ new[e].final = {}
                 \/ /\ new[e].final = idx[e].final /\ new[e].man = idx[e].man
                    /\ new[e].status \in {idx[e].status, "ended"}
    PROVE  Sound(new, mans)
  <1>1. ASSUME NEW e \in Episodes PROVE new[e].man.gen <= mans[e].gen
    BY DEF Indexes, Entries, Manifests, NoManifest, Sound, Behind
  <1>2. ASSUME NEW e \in Episodes, NEW m \in new[e].final
        PROVE  new[e].status = "ended" /\ Fits(new[e], m)
    <2>1. /\ m \in idx[e].final /\ new[e].man = idx[e].man
          /\ new[e].status \in {idx[e].status, "ended"}
      BY <1>2
    <2>2. QED
      BY <2>1 DEF Sound, IndexFits, Fits
  <1>3. QED
    BY <1>1, <1>2 DEF Sound, IndexFits, Behind

\* Newer manifests.
LEMMA NewerSound ==
    ASSUME NEW idx \in Indexes, NEW mans \in [Episodes -> Manifests],
           NEW news \in [Episodes -> Manifests], Sound(idx, mans),
           \A e \in Episodes : mans[e].gen <= news[e].gen
    PROVE  Sound(idx, news)
  <1>1. \A e \in Episodes : /\ idx[e].man.gen \in Nat /\ mans[e].gen \in Nat
                            /\ news[e].gen \in Nat
    BY DEF Indexes, Entries, Manifests
  <1>2. QED
    BY <1>1 DEF Sound, Behind

LEMMA NewerFin ==
    ASSUME NEW s \in FinState, NEW mans \in [Episodes -> Manifests],
           NEW news \in [Episodes -> Manifests], FinFits(s, mans),
           s.pc = "scoring" => s.ev \in Episodes,
           \A e \in Episodes : mans[e].gen <= news[e].gen
    PROVE  FinFits(s, news)
  <1>1. \A e \in Episodes : mans[e].gen \in Nat /\ news[e].gen \in Nat
    BY DEF Manifests
  <1>2. s.was.man.gen \in Nat
    BY DEF FinState, Entries, Manifests
  <1>3. QED
    BY <1>1, <1>2 DEF FinFits

\* What a step has to show.
LEMMA FitsKept ==
    ASSUME FitsInv, Typed',
           \A e \in Episodes : manifest[e].gen <= manifest'[e].gen,
           StampsFit', Sound(index', manifest'),
           \A w \in Workers : \/ worker'[w].snap = worker[w].snap
                              \/ worker'[w].snap = index
                              \/ worker'[w].snap = EmptyIndex,
           \/ tick'.fresh = tick.fresh \/ tick'.fresh = index
           \/ tick'.fresh = EmptyIndex,
           \A f \in Finalizers : fin'[f] = fin[f] \/ FinFits(fin'[f], manifest')
    PROVE  FitsInv'
  <1>1. /\ manifest \in [Episodes -> Manifests]
        /\ manifest' \in [Episodes -> Manifests]
        /\ index \in Indexes /\ tick.fresh \in Indexes
        /\ \A w \in Workers : worker[w].snap \in Indexes
        /\ \A f \in Finalizers :
              /\ fin[f] \in FinState
              /\ fin[f].pc = "scoring" => fin[f].ev \in Episodes
    BY DEF FitsInv, Typed, TypeOK, ActorsNamed, WorkerState, TickState
  <1>2. Sound(index, manifest') /\ Sound(EmptyIndex, manifest')
        /\ Sound(tick.fresh, manifest')
        /\ \A w \in Workers : Sound(worker[w].snap, manifest')
    BY <1>1, NewerSound, EmptySound DEF FitsInv
  <1>3. \A f \in Finalizers : FinFits(fin[f], manifest')
    BY <1>1, NewerFin DEF FitsInv
  <1>4. \A w \in Workers : Sound(worker'[w].snap, manifest')
    BY <1>2
  <1>5. Sound(tick'.fresh, manifest')
    BY <1>2
  <1>6. \A f \in Finalizers : FinFits(fin'[f], manifest')
    BY <1>3
  <1>7. QED
    BY <1>4, <1>5, <1>6 DEF FitsInv
-----------------------------------------------------------------------------
LEMMA PublishFits ==
    ASSUME NEW snap \in Indexes, NEW e \in Episodes, NEW man \in Manifests,
           NEW mans \in [Episodes -> Manifests], mans[e] = man,
           NEW status \in {"active", "ended"}, NEW gone \in SUBSET Episodes,
           Sound(snap, mans)
    PROVE  Sound(Without(Prepend(snap, e, man, status), gone), mans)
  <1> DEFINE p == Prepend(snap, e, man, status)
             new == Without(p, gone)
  <1>1. p \in Indexes /\ new \in Indexes
    BY PrependTyped, WithoutTyped
  <1>2. ASSUME NEW x \in Episodes
        PROVE  /\ p[x].man \in {snap[x].man, mans[x]}
               /\ \/ p[x].final = {}
                  \/ /\ p[x].final = snap[x].final /\ p[x].man = snap[x].man
                     /\ p[x].status = snap[x].status
    <2>1. CASE x = e
      <3>1. p[x] = PublishedEntry(snap, e, man, status)
        BY <2>1 DEF Prepend
      <3>2. p[x].man = man /\ p[x].final = {}
        BY <3>1 DEF PublishedEntry, Unlisted
      <3>3. QED
        BY <2>1, <3>2
    <2>2. CASE x # e
      <3>1. p[x] = snap[x] \/ p[x] = [snap[x] EXCEPT !.pos = snap[x].pos + 1]
        BY <2>2 DEF Prepend
      <3>2. snap[x] \in Entries
        BY DEF Indexes
      <3> HIDE DEF p
      <3>3. QED
        BY <3>1, <3>2 DEF Entries
    <2>3. QED
      BY <2>1, <2>2
  <1> HIDE DEF p
  <1>3. ASSUME NEW x \in Episodes
        PROVE  /\ new[x].man \in {snap[x].man, NoManifest, mans[x]}
               /\ \/ new[x].final = {}
                  \/ /\ new[x].final = snap[x].final
                     /\ new[x].man = snap[x].man
                     /\ new[x].status \in {snap[x].status, "ended"}
    BY <1>2 DEF Without, Unlisted
  <1> HIDE DEF new
  <1>4. Sound(new, mans)
    BY <1>1, <1>3, EditSound
  <1>5. QED
    BY <1>4 DEF new, p

LEMMA EditsFit ==
    ASSUME NEW idx \in Indexes, NEW mans \in [Episodes -> Manifests],
           Sound(idx, mans)
    PROVE  /\ \A ids : Sound(MarkEnded(idx, ids), mans)
           /\ \A e \in Episodes, r \in 0..MaxReopens :
                 Sound(Reopen(idx, e, r), mans)
           /\ \A e \in Episodes : Sound(DropFinal(idx, e), mans)
  <1>1. \A x \in Episodes : idx[x] \in Entries
    BY DEF Indexes
  <1>2. ASSUME NEW ids PROVE Sound(MarkEnded(idx, ids), mans)
    <2> DEFINE new == MarkEnded(idx, ids)
    <2>1. new \in Indexes
      BY MarkEndedTyped
    <2>2. ASSUME NEW x \in Episodes
          PROVE  /\ new[x].man = idx[x].man /\ new[x].final = idx[x].final
                 /\ new[x].status \in {idx[x].status, "ended"}
      BY <1>1 DEF MarkEnded, Entries
    <2> HIDE DEF new
    <2>3. Sound(new, mans)
      BY <2>1, <2>2, EditSound
    <2>4. QED
      BY <2>3 DEF new
  <1>3. ASSUME NEW e \in Episodes, NEW r \in 0..MaxReopens
        PROVE  Sound(Reopen(idx, e, r), mans)
    <2> DEFINE new == Reopen(idx, e, r)
    <2>1. new \in Indexes
      BY ReopenTyped
    <2>2. ASSUME NEW x \in Episodes
          PROVE  /\ new[x].man = idx[x].man
                 /\ \/ new[x].final = {}
                    \/ /\ new[x].final = idx[x].final
                       /\ new[x].status = idx[x].status
      <3>1. CASE x = e
        BY <1>1, <3>1 DEF Reopen, Indexes, Entries
      <3>2. CASE x # e
        BY <3>2 DEF Reopen, Indexes
      <3>3. QED
        BY <3>1, <3>2
    <2> HIDE DEF new
    <2>3. Sound(new, mans)
      BY <2>1, <2>2, EditSound
    <2>4. QED
      BY <2>3 DEF new
  <1>4. ASSUME NEW e \in Episodes PROVE Sound(DropFinal(idx, e), mans)
    <2> DEFINE new == DropFinal(idx, e)
    <2>1. new \in Indexes
      BY DropFinalTyped
    <2>2. ASSUME NEW x \in Episodes
          PROVE  /\ new[x].man = idx[x].man
                 /\ \/ new[x].final = {}
                    \/ /\ new[x].final = idx[x].final
                       /\ new[x].status = idx[x].status
      <3>1. CASE x = e
        BY <1>1, <3>1 DEF DropFinal, Indexes, Entries
      <3>2. CASE x # e
        BY <3>2 DEF DropFinal, Indexes
      <3>3. QED
        BY <3>1, <3>2
    <2> HIDE DEF new
    <2>3. Sound(new, mans)
      BY <2>1, <2>2, EditSound
    <2>4. QED
      BY <2>3 DEF new
  <1>5. QED
    BY <1>2, <1>3, <1>4

LEMMA MergeFits ==
    ASSUME NEW idx \in Indexes, NEW mans \in [Episodes -> Manifests],
           Sound(idx, mans), NEW target \in Episodes,
           NEW group \in SUBSET Episodes, NEW man \in Manifests,
           mans[target] = man, Merge(idx, target, group, man) \in Indexes
    PROVE  Sound(Merge(idx, target, group, man), mans)
  <1> DEFINE new == Merge(idx, target, group, man)
  <1>1. ASSUME NEW x \in Episodes
        PROVE  /\ new[x].man \in {idx[x].man, mans[x]}
               /\ \/ new[x].final = {}
                  \/ /\ new[x].final = idx[x].final
                     /\ new[x].man = idx[x].man
                     /\ new[x].status = idx[x].status
    <2>1. idx[x] \in Entries
      BY DEF Indexes
    <2>2. CASE x = target
      <3>1. \E record : new[x] = [idx[x] EXCEPT !.status = "ended",
                                !.man = man, !.final = {}, !.merged = record]
        BY <2>2 DEF Merge
      <3> HIDE DEF new
      <3>2. new[x].man = man /\ new[x].final = {}
        BY <2>1, <3>1 DEF Entries
      <3>3. QED
        BY <2>2, <3>2
    <2>3. CASE x # target
      <3>1. new[x] = idx[x] \/ new[x] = [idx[x] EXCEPT !.into = target]
        BY <2>3 DEF Merge
      <3> HIDE DEF new
      <3>2. QED
        BY <2>1, <3>1 DEF Entries
    <2>4. QED
      BY <2>2, <2>3
  <1> HIDE DEF new
  <1>2. new \in Indexes
    BY DEF new
  <1>3. Sound(new, mans)
    BY <1>1, <1>2, EditSound
  <1>4. QED
    BY <1>3 DEF new

\* A final is written onto the entry it was computed for.
LEMMA FinalsFitIn ==
    ASSUME NEW idx \in Indexes, NEW mans \in [Episodes -> Manifests],
           Sound(idx, mans), NEW got \in SUBSET Scored, NEW began,
           \A g \in got : \A m \in g.final : Fits(g.was, m)
    PROVE  Sound(WriteFinals(idx, got, began), mans)
  <1> DEFINE new == WriteFinals(idx, got, began)
  <1>1. ASSUME NEW x \in Episodes
        PROVE  \/ new[x] = idx[x]
               \/ \E g \in got : /\ ~FinalStale(idx[x], began, g.was)
                               /\ new[x] = [idx[x] EXCEPT !.final = g.final]
    <2> DEFINE mine == {g \in got : /\ g.ev = x
                                    /\ ~FinalStale(idx[x], began, g.was)}
    <2>1. CASE mine = {}
      BY <2>1 DEF WriteFinals
    <2>2. CASE mine # {}
      <3> DEFINE g == CHOOSE h \in mine : TRUE
      <3>1. g \in mine
        BY <2>2
      <3>2. new[x] = [idx[x] EXCEPT !.final = g.final]
        BY <2>2 DEF WriteFinals
      <3>3. QED
        BY <3>1, <3>2
    <2>3. QED
      BY <2>1, <2>2
  <1> HIDE DEF new
  <1>2. ASSUME NEW x \in Episodes
        PROVE  /\ new[x].man.gen <= mans[x].gen
               /\ \A m \in new[x].final :
                     new[x].status = "ended" /\ Fits(new[x], m)
    <2>1. idx[x] \in Entries
      BY DEF Indexes
    <2>2. CASE new[x] = idx[x]
      BY <2>2 DEF Sound, Behind, IndexFits
    <2>3. ASSUME NEW g \in got, ~FinalStale(idx[x], began, g.was),
                 new[x] = [idx[x] EXCEPT !.final = g.final]
          PROVE  /\ new[x].man.gen <= mans[x].gen
                 /\ \A m \in new[x].final :
                       new[x].status = "ended" /\ Fits(new[x], m)
      <3>1. /\ new[x].man = idx[x].man /\ new[x].status = idx[x].status
            /\ new[x].final = g.final
        BY <2>1, <2>3 DEF Entries
      <3>2. idx[x].status = "ended" /\ idx[x].man.gen = g.was.man.gen
        BY <2>3 DEF FinalStale
      <3>3. QED
        BY <2>3, <3>1, <3>2 DEF Sound, Behind, Fits
    <2>4. QED
      BY <1>1, <2>2, <2>3
  <1>3. Sound(new, mans)
    BY <1>2 DEF Sound, Behind, IndexFits
  <1>4. QED
    BY <1>3 DEF new
-----------------------------------------------------------------------------
(* The steps. *)

LEMMA InitFits == Init => FitsInv
  <1> SUFFICES ASSUME Init PROVE FitsInv
    OBVIOUS
  <1>1. Typed
    BY InitTyped
  <1>2. ASSUME NEW e \in Episodes
        PROVE  \/ index[e] = Unlisted
               \/ /\ index[e].status = "ended" /\ e <= Past
                  /\ index[e].man.gen = e /\ index[e].final = {index[e].man}
    <2>1. CASE e > Past
      BY <2>1 DEF Init
    <2>2. CASE ~(e > Past)
      <3>1. e <= Past
        BY <2>2, EpisodeIndexAssumption, EpisodesNat
      <3> DEFINE m == [gen |-> e, parts |-> {e}]
      <3>2. index[e] = [Unlisted EXCEPT !.status = "ended", !.man = m,
                                        !.final = {m}, !.pos = 1 + Past - e]
        BY <2>2 DEF Init
      <3>3. m.gen = e
        OBVIOUS
      <3> HIDE DEF m
      <3>4. /\ index[e].status = "ended" /\ index[e].man = m
            /\ index[e].final = {m}
        BY <3>2 DEF Unlisted
      <3>5. QED
        BY <3>1, <3>3, <3>4
    <2>3. QED
      BY <2>1, <2>2
  <1>3. /\ gen = Past /\ tick.fresh = EmptyIndex
        /\ \A e \in Episodes : manifest[e] = index[e].man
        /\ \A w \in Workers : worker[w].snap = EmptyIndex
                              /\ worker[w].man = NoManifest
        /\ \A f \in Finalizers : fin[f] = IdleFin
    BY DEF Init, IdleTick, IdleWorker
  <1>4. manifest \in [Episodes -> Manifests] /\ Past \in Nat
    BY <1>1, EpisodeIndexAssumption, EpisodesNat DEF Typed, TypeOK
  <1>5. \A e \in Episodes : index[e].man.gen <= Past
    BY <1>2, <1>4, EpisodesNat DEF Unlisted, NoManifest
  <1>6. StampsFit
    BY <1>3, <1>4, <1>5 DEF StampsFit, NoManifest
  <1>7. Sound(index, manifest)
    <2>1. \A e \in Episodes : index[e].man.gen \in Nat
      BY <1>1 DEF Typed, TypeOK, Indexes, Entries, Manifests
    <2>2. Behind(index, manifest)
      BY <1>3, <2>1 DEF Behind
    <2>3. ASSUME NEW e \in Episodes, NEW m \in index[e].final
          PROVE  index[e].status = "ended" /\ Fits(index[e], m)
      BY <1>2, <2>1, <2>3 DEF Unlisted, Fits
    <2>4. QED
      BY <2>2, <2>3 DEF Sound, IndexFits
  <1>8. Sound(EmptyIndex, manifest)
    BY <1>4, EmptySound
  <1>9. \A f \in Finalizers : FinFits(fin[f], manifest)
    BY <1>3 DEF FinFits, IdleFin
  <1>10. QED
    BY <1>1, <1>3, <1>6, <1>7, <1>8, <1>9 DEF FitsInv

\* A step of the worker w that publishes nothing.
LEMMA WorkerFits ==
    ASSUME FitsInv, Typed', NEW w \in Workers,
           \/ \E e \in Episodes : ReadIndex(w, e)
           \/ CarryFrames(w) \/ Consume(w) \/ WorkerCrash(w)
    PROVE  FitsInv'
  <1>1. /\ worker \in [Workers -> WorkerState] /\ StampsFit
        /\ manifest \in [Episodes -> Manifests] /\ gen \in Nat
        /\ worker[w] \in WorkerState /\ worker[w].man.gen \in Nat
    BY EpisodeStoreAssumption
       DEF FitsInv, Typed, TypeOK, WorkerState, Manifests
  <1>2. UNCHANGED <<index, manifest, tick, fin>>
    BY DEF ReadIndex, CarryFrames, Consume, WorkerCrash, storeVars
  <1>3. /\ gen' \in {gen, gen + 1}
        /\ \A v \in Workers \ {w} : worker'[v] = worker[v]
        /\ worker'[w].snap \in {worker[w].snap, index, EmptyIndex}
        /\ worker'[w].man.gen <= gen'
    <2>1. ASSUME NEW e \in Episodes, ReadIndex(w, e)
          PROVE  /\ gen' \in {gen, gen + 1}
                 /\ \A v \in Workers \ {w} : worker'[v] = worker[v]
                 /\ worker'[w].snap \in {worker[w].snap, index, EmptyIndex}
                 /\ worker'[w].man.gen <= gen'
      BY <1>1, <2>1 DEF ReadIndex
    <2>2. CASE CarryFrames(w)
      <3>1. \/ \E p : worker' = [worker EXCEPT ![w].pc = "carried",
                                              ![w].man.parts = p]
            \/ worker' = [worker EXCEPT ![w].pc = "carried"]
        BY <2>2 DEF CarryFrames
      <3>2. /\ \A v \in Workers \ {w} : worker'[v] = worker[v]
            /\ worker'[w].snap = worker[w].snap
            /\ worker'[w].man.gen = worker[w].man.gen
        BY <1>1, <3>1 DEF WorkerState, Manifests
      <3>3. gen' = gen /\ worker[w].man.gen <= gen
        BY <1>1, <2>2 DEF CarryFrames, StampsFit
      <3>4. QED
        BY <3>2, <3>3
    <2>3. CASE Consume(w) \/ WorkerCrash(w)
      <3>1. worker' = [worker EXCEPT ![w] = IdleWorker] /\ gen' = gen
        BY <2>3 DEF Consume, WorkerCrash
      <3>2. QED
        BY <1>1, <3>1 DEF IdleWorker, NoManifest
    <2>4. QED
      BY <2>1, <2>2, <2>3
  <1>4. StampsFit'
    BY <1>1, <1>2, <1>3 DEF StampsFit, WorkerState, Manifests
  <1>5. \A e \in Episodes : manifest[e].gen <= manifest'[e].gen
    BY <1>1, <1>2 DEF Manifests
  <1>6. Sound(index', manifest')
    BY <1>2 DEF FitsInv
  <1>7. QED
    BY <1>2, <1>3, <1>4, <1>5, <1>6, FitsKept

\* One that publishes, and overtakes nobody.
LEMMA PublishStepFits ==
    ASSUME FitsInv, Typed', NEW w \in Workers, PublishCommit(w),
           ~Overtakes(w)
    PROVE  FitsInv'
  <1> DEFINE e == worker[w].ev
             man == worker[w].man
  <1>1. /\ worker \in [Workers -> WorkerState] /\ StampsFit
        /\ manifest \in [Episodes -> Manifests] /\ index \in Indexes
        /\ worker[w] \in WorkerState /\ man \in Manifests
        /\ worker[w].snap \in Indexes /\ Sound(worker[w].snap, manifest)
        /\ Sound(index, manifest)
        /\ e \in Episodes /\ worker[w].pc = "carried" /\ gen \in Nat
        /\ man.gen <= gen
    BY EpisodeStoreAssumption
       DEF StampsFit, FitsInv, Typed, TypeOK, WorkerState, ActorsNamed,
           PublishCommit
  <1>2. UNCHANGED <<tick, fin, gen>>
    BY DEF PublishCommit
  <1>3. /\ \A v \in Workers \ {w} : worker'[v] = worker[v]
        /\ worker'[w].snap = EmptyIndex /\ worker'[w].man.gen = 0
    <2>1. \/ worker' = [worker EXCEPT ![w] =
                          [IdleWorker EXCEPT !.pc = "published", !.ev = e]]
          \/ worker' = [worker EXCEPT ![w] = IdleWorker]
      BY DEF PublishCommit
    <2> DEFINE out == [IdleWorker EXCEPT !.pc = "published", !.ev = e]
    <2>2. /\ out.snap = EmptyIndex /\ out.man.gen = 0
          /\ IdleWorker.snap = EmptyIndex /\ IdleWorker.man.gen = 0
      BY DEF IdleWorker, NoManifest
    <2> HIDE DEF out
    <2>3. worker' = [worker EXCEPT ![w] = out]
          \/ worker' = [worker EXCEPT ![w] = IdleWorker]
      BY <2>1 DEF out
    <2>4. QED
      BY <1>1, <2>2, <2>3
  <1>4. CASE UNCHANGED storeVars
    <2>1. UNCHANGED <<index, manifest>>
      BY <1>4 DEF storeVars
    <2>2. StampsFit'
      BY <1>1, <1>2, <1>3, <2>1 DEF StampsFit, WorkerState, Manifests
    <2>3. \A x \in Episodes : manifest[x].gen <= manifest'[x].gen
      BY <1>1, <2>1 DEF Manifests
    <2>4. QED
      BY <1>1, <1>2, <1>3, <2>1, <2>2, <2>3, FitsKept
  <1>5. ASSUME NEW status \in {"active", "ended"}, NEW gone \in SUBSET Episodes,
               index' = Without(Prepend(worker[w].snap, e, man, status), gone),
               manifest' = [manifest EXCEPT ![e] = man]
        PROVE  FitsInv'
    <2>1. manifest[e].gen <= man.gen
      BY <1>1 DEF Overtakes, Manifests
    <2>2. /\ manifest' \in [Episodes -> Manifests] /\ manifest'[e] = man
          /\ \A x \in Episodes \ {e} : manifest'[x] = manifest[x]
          /\ \A x \in Episodes : manifest[x].gen <= manifest'[x].gen
      BY <1>1, <1>5, <2>1 DEF Manifests
    <2>3. Sound(worker[w].snap, manifest')
      BY <1>1, <2>2, NewerSound
    <2>4. Sound(index', manifest')
      BY <1>1, <1>5, <2>2, <2>3, PublishFits
    <2>5. StampsFit'
      <3>1. \A x \in Episodes : manifest'[x].gen <= gen
        BY <1>1, <2>2 DEF StampsFit
      <3>2. \A v \in Workers : worker'[v].man.gen <= gen
        BY <1>1, <1>3 DEF StampsFit
      <3>3. QED
        BY <1>2, <3>1, <3>2 DEF StampsFit
    <2>6. QED
      BY <1>2, <1>3, <2>2, <2>4, <2>5, FitsKept
  <1>6. \/ UNCHANGED storeVars
        \/ \E status \in {"active", "ended"}, gone \in SUBSET Episodes :
              /\ index' = Without(Prepend(worker[w].snap, e, man, status), gone)
              /\ manifest' = [manifest EXCEPT ![e] = man]
    <2>1. CASE UNCHANGED storeVars
      BY <2>1
    <2>2. CASE ~UNCHANGED storeVars
      <3>1. PICK status \in {"active", "ended"}, pinsRead \in BOOLEAN :
              LET listed == Prepend(worker[w].snap, e, man, status)
                  dropped == IF pinsRead THEN OverCap(listed) \ {e} ELSE {}
              IN /\ index' = Without(listed, dropped)
                 /\ manifest' = [manifest EXCEPT ![e] = man]
        BY <2>2 DEF PublishCommit
      <3> DEFINE listed == Prepend(worker[w].snap, e, man, status)
                 gone == IF pinsRead THEN OverCap(listed) \ {e} ELSE {}
      <3>2. gone \in SUBSET Episodes
        BY DEF OverCap, Listed
      <3>3. QED
        BY <3>1, <3>2
    <2>3. QED
      BY <2>1, <2>2
  <1>7. QED
    BY <1>4, <1>5, <1>6

\* A step that touches no manifest, worker or finalizer.
LEMMA IndexStepFits ==
    ASSUME FitsInv, Typed', UNCHANGED <<manifest, worker, fin, gen>>,
           Sound(index', manifest),
           \/ tick'.fresh = tick.fresh \/ tick'.fresh = index
           \/ tick'.fresh = EmptyIndex
    PROVE  FitsInv'
  <1>1. manifest \in [Episodes -> Manifests] /\ StampsFit
    BY DEF FitsInv, Typed, TypeOK
  <1>2. StampsFit' /\ \A e \in Episodes : manifest[e].gen <= manifest'[e].gen
    BY <1>1 DEF StampsFit, Manifests
  <1>3. QED
    BY <1>2, FitsKept

\* A finalizer begins.
LEMMA FinalStarts ==
    ASSUME NEW f \in Finalizers, NEW todo, StartFinal(f, todo), FitsInv
    PROVE  \A d \in Finalizers : fin'[d] = fin[d] \/ FinFits(fin'[d], manifest')
  <1>1. fin \in [Finalizers -> FinState]
    BY DEF FitsInv, Typed, TypeOK
  <1>2. \A d \in Finalizers \ {f} : fin'[d] = fin[d]
    BY <1>1 DEF StartFinal
  <1>3. fin'[f].pc = "reading" /\ fin'[f].got = {}
    BY <1>1 DEF StartFinal, IdleFin
  <1>4. QED
    BY <1>2, <1>3 DEF FinFits

LEMMA TickFits ==
    ASSUME FitsInv, Typed', TickStart \/ TickStep PROVE FitsInv'
  <1>1. /\ index \in Indexes /\ tick \in TickState /\ tick.fresh \in Indexes
        /\ manifest \in [Episodes -> Manifests]
        /\ Sound(index, manifest) /\ Sound(tick.fresh, manifest)
    BY DEF FitsInv, Typed, TypeOK, TickState
  <1>2. CASE \/ TickStart \/ MarkRead \/ Pick \/ ReopenRead \/ RunJobs
             \/ SweepRead \/ SweepList
    <2>1. UNCHANGED <<index, manifest, worker, fin, gen>>
      BY <1>2 DEF TickStart, MarkRead, Pick, ReopenRead, RunJobs, SweepRead,
                  SweepList, storeVars, boundVars
    <2>2. \/ tick'.fresh = tick.fresh \/ tick'.fresh = index
          \/ tick'.fresh = EmptyIndex
      <3>1. CASE TickStart \/ RunJobs
        BY <3>1 DEF TickStart, RunJobs, IdleTick
      <3>2. CASE MarkRead \/ ReopenRead \/ SweepRead
        BY <1>1, <3>2 DEF MarkRead, ReopenRead, SweepRead, GoTo, Decide,
                          TickState
      <3>3. CASE Pick \/ SweepList
        <4> DEFINE orphans == Orphans(tick.fresh)
        <4>1. \/ tick' = IdleTick
              \/ tick' = [tick EXCEPT !.pc = "finals", !.start = "new"]
              \/ \E e : tick' = [tick EXCEPT !.pc = "reopen", !.cand = e]
              \/ tick' = [tick EXCEPT !.pc = "finals"]
              \/ tick' = [tick EXCEPT !.pc = "sweeping", !.ended = orphans]
          <5>1. CASE Pick
            BY <5>1 DEF Pick
          <5>2. CASE SweepList
            BY <5>2 DEF SweepList
          <5>3. QED
            BY <3>3, <5>1, <5>2
        <4> HIDE DEF orphans
        <4>2. IdleTick.fresh = EmptyIndex
          BY DEF IdleTick
        <4>3. ASSUME NEW e, tick' = [tick EXCEPT !.pc = "reopen", !.cand = e]
              PROVE  tick'.fresh = tick.fresh
          BY <1>1, <4>3 DEF TickState
        <4>4. CASE \/ tick' = [tick EXCEPT !.pc = "finals", !.start = "new"]
                   \/ tick' = [tick EXCEPT !.pc = "finals"]
                   \/ tick' = [tick EXCEPT !.pc = "sweeping", !.ended = orphans]
          BY <1>1, <4>4 DEF TickState
        <4>5. QED
          BY <4>1, <4>2, <4>3, <4>4
      <3>4. QED
        BY <1>2, <3>1, <3>2, <3>3
    <2>3. QED
      BY <1>1, <2>1, <2>2, IndexStepFits
  <1>3. CASE MarkCommit \/ ReopenCommit \/ SweepCommit
    <2>1. UNCHANGED <<manifest, worker, fin, gen>>
      BY <1>3 DEF MarkCommit, ReopenCommit, SweepCommit
    <2>2. tick'.fresh = EmptyIndex
      <3>1. CASE MarkCommit
        BY <1>1, <3>1 DEF MarkCommit, TickState
      <3>2. CASE ReopenCommit
        <4>1. \/ tick' = [tick EXCEPT !.pc = "finals", !.fresh = EmptyIndex]
              \/ tick' = [tick EXCEPT !.pc = "finals", !.fresh = EmptyIndex,
                                     !.start = "reopened"]
          BY <3>2 DEF ReopenCommit
        <4>2. QED
          BY <1>1, <4>1 DEF TickState
      <3>3. CASE SweepCommit
        BY <3>3 DEF SweepCommit, IdleTick
      <3>4. QED
        BY <1>3, <3>1, <3>2, <3>3
    <2>3. Sound(index', manifest)
      <3>1. CASE MarkCommit
        <4>1. index' = MarkEnded(tick.fresh, tick.ended) \/ index' = index
          BY <3>1 DEF MarkCommit
        <4>2. QED
          BY <1>1, <4>1, EditsFit
      <3>2. CASE ReopenCommit
        <4>1. \/ /\ reopens + 1 \in 0..MaxReopens
                 /\ index' = Reopen(tick.fresh, tick.cand, reopens + 1)
              \/ index' = index
          BY <3>2, EpisodeStoreAssumption
             DEF ReopenCommit, FitsInv, Typed, TypeOK
        <4>2. tick.cand \in Episodes
          BY <3>2 DEF ReopenCommit, FitsInv, Typed, ActorsNamed
        <4>3. QED
          BY <1>1, <4>1, <4>2, EditsFit
      <3>3. CASE SweepCommit
        BY <1>1, <3>3 DEF SweepCommit
      <3>4. QED
        BY <1>3, <3>1, <3>2, <3>3
    <2>4. QED
      BY <2>1, <2>2, <2>3, IndexStepFits
  <1>4. CASE DispatchFinals
    <2>1. /\ UNCHANGED <<index, manifest, worker, gen>>
          /\ tick'.fresh = tick.fresh
      BY <1>1, <1>4 DEF DispatchFinals, GoTo, storeVars, boundVars, TickState
    <2>2. \A d \in Finalizers : fin'[d] = fin[d] \/ FinFits(fin'[d], manifest')
      BY <1>4, FinalStarts, ThreadsFinalize DEF DispatchFinals
    <2>3. StampsFit' /\ \A e \in Episodes : manifest[e].gen <= manifest'[e].gen
      BY <1>1, <2>1 DEF FitsInv, StampsFit, Manifests
    <2>4. QED
      BY <1>1, <2>1, <2>2, <2>3, FitsKept
  <1>5. QED
    BY <1>2, <1>3, <1>4 DEF TickStep

LEMMA FinStepFits ==
    ASSUME FitsInv, Typed', NEW f \in Finalizers, FinStep(f)
    PROVE  FitsInv'
  <1>1. /\ index \in Indexes /\ manifest \in [Episodes -> Manifests]
        /\ fin \in [Finalizers -> FinState] /\ fin[f] \in FinState
        /\ Sound(index, manifest) /\ FinFits(fin[f], manifest)
    BY DEF FitsInv, Typed, TypeOK
  <1>2. UNCHANGED <<manifest, worker, tick, gen>>
    BY DEF FinStep, FinalRead, FinalScore, FinalCommit, storeVars
  <1>3. StampsFit' /\ \A e \in Episodes : manifest[e].gen <= manifest'[e].gen
    BY <1>1, <1>2 DEF FitsInv, StampsFit, Manifests
  <1>4. SUFFICES /\ Sound(index', manifest)
                 /\ \A d \in Finalizers \ {f} : fin'[d] = fin[d]
                 /\ FinFits(fin'[f], manifest)
    BY <1>2, <1>3, FitsKept
  <1>5. ASSUME NEW e \in Episodes, FinalRead(f, e)
        PROVE  /\ Sound(index', manifest)
               /\ \A d \in Finalizers \ {f} : fin'[d] = fin[d]
               /\ FinFits(fin'[f], manifest)
    <2>1. index' = index /\ fin[f].pc = "reading"
      BY <1>5 DEF FinalRead, storeVars
    <2>2. PICK got \in {index, EmptyIndex} :
            \/ fin' = [fin EXCEPT ![f].pc = "scoring", ![f].ev = e,
                                  ![f].was = got[e]]
            \/ fin' = [fin EXCEPT ![f].todo = @ \ {e}]
      BY <1>5 DEF FinalRead
    <2>3. Behind(got, manifest)
      BY <1>1, <2>2, EmptySound DEF Sound
    <2>4. \A d \in Finalizers \ {f} : fin'[d] = fin[d]
      BY <1>1, <2>2
    <2>5. fin'[f].got = fin[f].got
          /\ (fin'[f].pc = "scoring" => fin'[f].was = got[e] /\ fin'[f].ev = e)
      BY <1>1, <2>1, <2>2 DEF FinState
    <2>6. QED
      BY <1>1, <2>1, <2>3, <2>4, <2>5 DEF FinFits, Behind
  <1>6. CASE FinalScore(f)
    <2> DEFINE s == fin[f]
    <2>1. /\ index' = index /\ s.pc = "scoring"
          /\ s.ev \in Episodes
      BY <1>6 DEF FinalScore, storeVars, FitsInv, Typed, ActorsNamed
    <2>2. PICK man \in {manifest[s.ev], NoManifest} :
            fin' = [fin EXCEPT ![f] =
                [s EXCEPT !.pc = "reading", !.todo = @ \ {s.ev}, !.ev = 0,
                          !.was = Unlisted,
                          !.got = @ \cup {[ev |-> s.ev, was |-> s.was,
                                           final |-> {man}]}]]
      BY <1>6 DEF FinalScore
    <2> DEFINE g == [ev |-> s.ev, was |-> s.was, final |-> {man}]
    <2>3. /\ \A d \in Finalizers \ {f} : fin'[d] = fin[d]
          /\ fin'[f].pc = "reading" /\ fin'[f].got = s.got \cup {g}
      BY <1>1, <2>2 DEF FinState
    <2>4. \A m \in g.final : Fits(g.was, m)
      BY <1>1, <2>1 DEF FinFits, Fits, FinState, Entries, Manifests
    <2> HIDE DEF g, s
    <2>5. FinFits(fin'[f], manifest)
      BY <1>1, <2>3, <2>4 DEF FinFits, s
    <2>6. QED
      BY <1>1, <2>1, <2>3, <2>5
  <1>7. CASE FinalCommit(f)
    <2>1. /\ fin' = [fin EXCEPT ![f] = IdleFin]
          /\ \/ index' = WriteFinals(index, fin[f].got, fin[f].began)
             \/ index' = index
      BY <1>7 DEF FinalCommit
    <2>2. /\ fin[f].got \in SUBSET Scored
          /\ \A g \in fin[f].got : \A m \in g.final : Fits(g.was, m)
      BY <1>1 DEF FinState, FinFits
    <2>3. Sound(index', manifest)
      BY <1>1, <2>1, <2>2, FinalsFitIn
    <2>4. /\ FinFits(fin'[f], manifest)
          /\ \A d \in Finalizers \ {f} : fin'[d] = fin[d]
      BY <1>1, <2>1 DEF FinFits, IdleFin
    <2>5. QED
      BY <2>3, <2>4
  <1>8. QED
    BY <1>5, <1>6, <1>7 DEF FinStep

LEMMA MergerFits ==
    ASSUME FitsInv, Typed', MergerStep PROVE FitsInv'
  <1>1. /\ index \in Indexes /\ manifest \in [Episodes -> Manifests]
        /\ fin \in [Finalizers -> FinState] /\ StampsFit /\ gen \in Nat
        /\ Sound(index, manifest) /\ worker \in [Workers -> WorkerState]
        /\ merger \in MergerState
    BY EpisodeStoreAssumption DEF FitsInv, Typed, TypeOK
  <1>2. UNCHANGED <<worker, tick>> /\ Merger \in Finalizers
    BY ThreadsFinalize
       DEF MergerStep, MergePass, MergeBuild, MergeCommit, DropStale, MergeDone
  <1>3. \A d \in Finalizers : fin'[d] = fin[d] \/ FinFits(fin'[d], manifest')
    <2>1. fin' = fin \/ \E todo : StartFinal(Merger, todo)
      BY DEF MergerStep, MergePass, FinishMerged, PlanMerge, MergeBuild,
             MergeCommit, DropStale, MergeDone
    <2>2. QED
      BY <1>2, <2>1, FinalStarts
  <1>4. CASE UNCHANGED <<manifest, gen>>
    <2>1. Sound(index', manifest)
      <3>1. CASE index' = index
        BY <1>1, <3>1
      <3>2. CASE DropStale
        <4>1. index' = index \/ \E t \in Episodes : index' = DropFinal(index, t)
          BY <3>2 DEF DropStale, Planned
        <4>2. QED
          BY <1>1, <4>1, EditsFit
      <3>3. CASE MergeCommit
        BY <1>1, <1>4, <3>3 DEF MergeCommit, storeVars
      <3>4. QED
        BY <3>1, <3>2, <3>3 DEF MergerStep, MergePass, MergeBuild, MergeDone,
                                storeVars
    <2>2. StampsFit' /\ \A e \in Episodes : manifest[e].gen <= manifest'[e].gen
      BY <1>1, <1>2, <1>4 DEF StampsFit, Manifests
    <2>3. QED
      BY <1>2, <1>3, <1>4, <2>1, <2>2, FitsKept
  <1>5. CASE ~UNCHANGED <<manifest, gen>>
    <2> DEFINE man == [gen |-> gen + 1, parts |-> merger.parts]
    <2>1. PICK target \in Episodes :
             /\ gen < MaxGen /\ gen' = gen + 1
             /\ index' = Merge(index, target, Planned, man)
             /\ manifest' = [manifest EXCEPT ![target] = man]
      BY <1>5 DEF MergerStep, MergePass, MergeBuild, MergeCommit, DropStale,
                  MergeDone, storeVars, boundVars
    <2>2. man \in Manifests /\ Planned \in SUBSET Episodes /\ man.gen = gen + 1
      BY <1>1, <2>1, EpisodeStoreAssumption
         DEF Manifests, MergerState, Planned
    <2> HIDE DEF man
    <2>3. /\ manifest' \in [Episodes -> Manifests] /\ manifest'[target] = man
          /\ \A x \in Episodes : manifest[x].gen <= manifest'[x].gen
          /\ \A x \in Episodes : manifest'[x].gen <= gen'
      BY <1>1, <2>1, <2>2 DEF Manifests, StampsFit
    <2>4. StampsFit'
      BY <1>1, <1>2, <2>1, <2>3 DEF StampsFit, WorkerState, Manifests
    <2>5. Sound(index, manifest') /\ index' \in Indexes
      BY <1>1, <2>3, NewerSound DEF Typed, TypeOK
    <2>6. Sound(index', manifest')
      BY <1>1, <2>1, <2>2, <2>3, <2>5, MergeFits
    <2>7. QED
      BY <1>2, <1>3, <2>3, <2>4, <2>6, FitsKept
  <1>6. QED
    BY <1>4, <1>5

LEMMA FitsStep ==
    ASSUME FitsInv, [Next]_vars, \A w \in Workers : ~Overtakes(w)
    PROVE  FitsInv'
  <1>1. Typed'
    BY TypedStep DEF FitsInv
  <1>2. CASE UNCHANGED vars
    <2>1. UNCHANGED <<index, manifest, gen, worker, fin, tick>>
      BY <1>2 DEF vars, storeVars, actorVars, boundVars
    <2>2. QED
      BY <1>1, <2>1, IndexStepFits DEF FitsInv
  <1>3. ASSUME NEW w \in Workers,
               \/ \E e \in Episodes : ReadIndex(w, e)
               \/ WorkerStep(w) \/ WorkerCrash(w)
        PROVE  FitsInv'
    BY <1>1, <1>3, WorkerFits, PublishStepFits DEF WorkerStep
  <1>4. CASE TickStart \/ TickStep
    BY <1>1, <1>4, TickFits
  <1>5. CASE \E f \in Finalizers : FinStep(f)
    BY <1>1, <1>5, FinStepFits
  <1>6. CASE MergerStep
    BY <1>1, <1>6, MergerFits
  <1>7. CASE RunnerCrash \/ MergerCrash
    <2>1. /\ UNCHANGED <<index, manifest, gen, worker>>
          /\ tick'.fresh = tick.fresh \/ tick'.fresh = EmptyIndex
          /\ \A f \in Finalizers : fin'[f] = fin[f] \/ fin'[f] = IdleFin
      BY <1>7 DEF RunnerCrash, MergerCrash, storeVars, IdleTick, FitsInv, Typed,
                  TypeOK
    <2>2. \A f \in Finalizers : fin'[f] = fin[f] \/ FinFits(fin'[f], manifest')
      BY <2>1 DEF FinFits, IdleFin
    <2>3. StampsFit' /\ \A e \in Episodes : manifest[e].gen <= manifest'[e].gen
      BY <2>1 DEF FitsInv, StampsFit, Typed, TypeOK, Manifests
    <2>4. QED
      BY <1>1, <2>1, <2>2, <2>3, FitsKept DEF FitsInv
  <1>8. QED
    BY <1>2, <1>3, <1>4, <1>5, <1>6, <1>7 DEF Next

\* However many workers, ticks and finalizers write back what they read long
\* ago, and however often they fail, no episode that goes on carries a final
\* and no final counts an older manifest than its entry describes: unless a
\* worker replaces a manifest by an older one.  It can, since the merger looks
\* at the job queue when it plans and not when it commits (_finalize_commit
\* and _final_stale of eventstore.py, recheck of merge_episodes.py).
THEOREM FinalsFit ==
    Spec => ([](\A w \in Workers : ~Overtakes(w)) => []FinalFits)
  <1> DEFINE Calm == \A w \in Workers : ~Overtakes(w)
  <1>1. FitsInv /\ Calm /\ [Next]_vars => FitsInv'
    BY FitsStep
  <1>2. FitsInv => FinalFits
    BY DEF FitsInv, Sound, IndexFits, Fits, FinalFits
  <1> HIDE DEF Calm
  <1>3. Spec => ([]Calm => []FinalFits)
    BY <1>1, <1>2, InitFits, PTL DEF Spec
  <1>4. QED
    BY <1>3 DEF Calm
-----------------------------------------------------------------------------
(* Frames.  No index that somebody may still write back counts frames its    *)
(* episode's manifest has lost, as long as nobody replaces a manifest by one *)
(* with less in it.                                                          *)

Covered(idx, mans) ==
    \A e \in Episodes : idx[e].man.parts \subseteq mans[e].parts

\* The worker is making a manifest it has not published.
Making(w) == worker[w].pc \in {"read", "carried"}

\* A manifest being made has a stamp and an episode of its own.
Apart(w) ==
    /\ worker[w].man.gen <= gen /\ worker[w].ev \in worker[w].man.parts
    /\ \A e \in Episodes : manifest[e].gen # worker[w].man.gen
    /\ merger.pc = "committing"
         => \A e \in Episodes : merger.read[e] # worker[w].man.gen
    /\ \A v \in Workers \ {w} :
          Making(v) => /\ worker[v].man.gen # worker[w].man.gen
                       /\ worker[v].ev # worker[w].ev

\* What a worker and the merger bring includes what the manifest holds that
\* they are going to replace, if it is still the one they read.
Brings(w) ==
    worker[w].pc = "carried" /\ manifest[worker[w].ev].gen <= worker[w].man.gen
      => manifest[worker[w].ev].parts \subseteq worker[w].man.parts

MergerBrings ==
    merger.pc = "committing"
      => \A e \in Episodes :
            /\ merger.read[e] <= gen
            /\ e \in merger.sources /\ manifest[e].gen = merger.read[e]
                 => manifest[e].parts \subseteq merger.parts

BringsInv ==
    /\ \A e \in Episodes : manifest[e].gen <= gen
    /\ \A w \in Workers : Making(w) => Apart(w)
    /\ \A w \in Workers : Brings(w)
    /\ MergerBrings

CoversInv ==
    /\ Covered(index, manifest)
    /\ \A w \in Workers : Covered(worker[w].snap, manifest)
    /\ Covered(tick.fresh, manifest)

CountsInv == Typed /\ BringsInv /\ CoversInv

\* A worker leaves out frames merged into its episode: the index it read does
\* not list the episode, the store has dropped the frames, or the old manifest
\* cannot be read.
StartsOver(w) ==
    /\ CarryFrames(w)
    /\ ~(manifest[worker[w].ev].parts \subseteq {worker[w].ev})
    /\ \/ faults' # faults
       \/ worker[w].ev \notin Listed(worker[w].snap) \cap anim

\* The merger is about to replace a manifest whose frames the store has
\* dropped, or that is not the one it read.
MergesOld ==
    /\ merger.pc = "committing" /\ Recheck(index, merger.gens)
    /\ \E t \in Episodes : /\ IsNewest(t, Planned)
                           /\ \/ t \notin merger.sources
                              \/ manifest[t].gen # merger.read[t]

KeepsFrames ==
    ~MergesOld /\ \A w \in Workers : ~Overtakes(w) /\ ~StartsOver(w)

LEMMA EmptyCovered == ASSUME NEW mans PROVE Covered(EmptyIndex, mans)
  BY DEF Covered, EmptyIndex, Unlisted, NoManifest

\* An edit that gives an entry the manifest of its folder, or none.
LEMMA EditCovered ==
    ASSUME NEW idx \in Indexes, NEW new, NEW mans, Covered(idx, mans),
           \A e \in Episodes :
              new[e].man \in {idx[e].man, NoManifest, mans[e]}
    PROVE  Covered(new, mans)
  BY DEF Covered, NoManifest

LEMMA MoreCovered ==
    ASSUME NEW idx, NEW mans, NEW news, Covered(idx, mans),
           \A e \in Episodes : mans[e].parts \subseteq news[e].parts
    PROVE  Covered(idx, news)
  BY DEF Covered

LEMMA PublishCovered ==
    ASSUME NEW snap \in Indexes, NEW e \in Episodes, NEW man \in Manifests,
           NEW mans, mans[e] = man, NEW status, NEW gone, Covered(snap, mans)
    PROVE  Covered(Without(Prepend(snap, e, man, status), gone), mans)
  <1> DEFINE p == Prepend(snap, e, man, status)
             new == Without(p, gone)
  <1>1. ASSUME NEW x \in Episodes
        PROVE  p[x].man \in {snap[x].man, mans[x]}
    <2>1. CASE x = e
      <3>1. p[x] = PublishedEntry(snap, e, man, status)
        BY <2>1 DEF Prepend
      <3>2. p[x].man = man
        BY <3>1 DEF PublishedEntry, Unlisted
      <3>3. QED
        BY <2>1, <3>2
    <2>2. CASE x # e
      <3>1. p[x] = snap[x] \/ p[x] = [snap[x] EXCEPT !.pos = snap[x].pos + 1]
        BY <2>2 DEF Prepend
      <3>2. snap[x] \in Entries
        BY DEF Indexes
      <3> HIDE DEF p
      <3>3. QED
        BY <3>1, <3>2 DEF Entries
    <2>3. QED
      BY <2>1, <2>2
  <1> HIDE DEF p
  <1>2. \A x \in Episodes : new[x].man \in {snap[x].man, NoManifest, mans[x]}
    BY <1>1 DEF Without, Unlisted
  <1> HIDE DEF new
  <1>3. Covered(new, mans)
    BY <1>2, EditCovered
  <1>4. QED
    BY <1>3 DEF new, p

LEMMA EditsCovered ==
    ASSUME NEW idx \in Indexes, NEW mans, Covered(idx, mans)
    PROVE  /\ \A ids : Covered(MarkEnded(idx, ids), mans)
           /\ \A e \in Episodes : \A r : Covered(Reopen(idx, e, r), mans)
           /\ \A e \in Episodes : Covered(DropFinal(idx, e), mans)
           /\ \A got, began : Covered(WriteFinals(idx, got, began), mans)
  <1>1. \A x \in Episodes : idx[x] \in Entries
    BY DEF Indexes
  <1>2. ASSUME NEW ids PROVE Covered(MarkEnded(idx, ids), mans)
    <2>1. \A x \in Episodes : MarkEnded(idx, ids)[x].man = idx[x].man
      BY <1>1 DEF MarkEnded, Entries
    <2>2. QED
      BY <2>1, EditCovered
  <1>3. ASSUME NEW e \in Episodes, NEW r
        PROVE  Covered(Reopen(idx, e, r), mans)
    <2>1. \A x \in Episodes : Reopen(idx, e, r)[x].man = idx[x].man
      BY <1>1 DEF Reopen, Indexes, Entries
    <2>2. QED
      BY <2>1, EditCovered
  <1>4. ASSUME NEW e \in Episodes PROVE Covered(DropFinal(idx, e), mans)
    <2>1. \A x \in Episodes : DropFinal(idx, e)[x].man = idx[x].man
      BY <1>1 DEF DropFinal, Indexes, Entries
    <2>2. QED
      BY <2>1, EditCovered
  <1>5. ASSUME NEW got, NEW began
        PROVE  Covered(WriteFinals(idx, got, began), mans)
    <2>1. ASSUME NEW x \in Episodes
          PROVE  WriteFinals(idx, got, began)[x].man = idx[x].man
      <3>1. \/ WriteFinals(idx, got, began)[x] = idx[x]
            \/ \E f : WriteFinals(idx, got, began)[x]
                        = [idx[x] EXCEPT !.final = f]
        BY DEF WriteFinals
      <3>2. idx[x] \in Entries
        BY <1>1
      <3>3. QED
        BY <3>1, <3>2 DEF Entries
    <2>2. QED
      BY <2>1, EditCovered
  <1>6. QED
    BY <1>2, <1>3, <1>4, <1>5

LEMMA MergeCovered ==
    ASSUME NEW idx \in Indexes, NEW mans, Covered(idx, mans),
           NEW target \in Episodes, NEW group, NEW man, mans[target] = man
    PROVE  Covered(Merge(idx, target, group, man), mans)
  <1> DEFINE new == Merge(idx, target, group, man)
  <1>1. ASSUME NEW x \in Episodes PROVE new[x].man \in {idx[x].man, mans[x]}
    <2>1. idx[x] \in Entries
      BY DEF Indexes
    <2>2. CASE x = target
      <3>1. \E record : new[x] = [idx[x] EXCEPT !.status = "ended",
                                !.man = man, !.final = {}, !.merged = record]
        BY <2>2 DEF Merge
      <3> HIDE DEF new
      <3>2. QED
        BY <2>1, <2>2, <3>1 DEF Entries
    <2>3. CASE x # target
      <3>1. new[x] = idx[x] \/ new[x] = [idx[x] EXCEPT !.into = target]
        BY <2>3 DEF Merge
      <3> HIDE DEF new
      <3>2. QED
        BY <2>1, <3>1 DEF Entries
    <2>4. QED
      BY <2>2, <2>3
  <1> HIDE DEF new
  <1>2. Covered(new, mans)
    BY <1>1, EditCovered
  <1>3. QED
    BY <1>2 DEF new

\* What a step has to show of the indexes.
LEMMA CoversKept ==
    ASSUME CoversInv,
           \A e \in Episodes : manifest[e].parts \subseteq manifest'[e].parts,
           Covered(index', manifest'),
           \A w \in Workers : \/ worker'[w].snap = worker[w].snap
                              \/ worker'[w].snap = index
                              \/ worker'[w].snap = EmptyIndex,
           \/ tick'.fresh = tick.fresh \/ tick'.fresh = index
           \/ tick'.fresh = EmptyIndex
    PROVE  CoversInv'
  <1>1. /\ Covered(index, manifest') /\ Covered(EmptyIndex, manifest')
        /\ Covered(tick.fresh, manifest')
        /\ \A w \in Workers : Covered(worker[w].snap, manifest')
    BY MoreCovered, EmptyCovered DEF CoversInv
  <1>2. \A w \in Workers : Covered(worker'[w].snap, manifest')
    BY <1>1
  <1>3. Covered(tick'.fresh, manifest')
    BY <1>1
  <1>4. QED
    BY <1>2, <1>3 DEF CoversInv

\* A step that writes no manifest, makes none and plans no merge.
LEMMA BringsKept ==
    ASSUME Typed, BringsInv, UNCHANGED <<manifest, worker, gen>>,
           UNCHANGED merger \/ merger'.pc # "committing"
    PROVE  BringsInv'
  <1>1. \A w \in Workers : Making(w)' <=> Making(w)
    BY DEF Making
  <1>2. ASSUME NEW w \in Workers, Making(w)' PROVE Apart(w)'
    <2>1. Apart(w)
      BY <1>1, <1>2 DEF BringsInv
    <2>2. QED
      BY <1>1, <2>1 DEF Apart
  <1>3. \A w \in Workers : Brings(w)'
    BY DEF BringsInv, Brings
  <1>4. MergerBrings'
    BY DEF BringsInv, MergerBrings
  <1>5. \A e \in Episodes : manifest'[e].gen <= gen'
    BY DEF BringsInv
  <1>6. QED
    BY <1>2, <1>3, <1>4, <1>5 DEF BringsInv

\* A worker stops making its manifest, whether it was published or not.
LEMMA StopMaking ==
    ASSUME Typed, BringsInv, UNCHANGED <<manifest, gen, merger>>,
           NEW w \in Workers, worker' \in [Workers -> WorkerState],
           \A v \in Workers \ {w} : worker'[v] = worker[v],
           worker'[w].pc \in {"idle", "published"}
    PROVE  BringsInv'
  <1>1. ~Making(w)' /\ \A v \in Workers \ {w} : Making(v)' <=> Making(v)
    BY DEF Making
  <1>2. ASSUME NEW v \in Workers, Making(v)' PROVE Apart(v)'
    <2>1. v # w /\ worker'[v] = worker[v] /\ Apart(v)
      BY <1>1, <1>2 DEF BringsInv
    <2>2. ASSUME NEW u \in Workers \ {v}, Making(u)'
          PROVE  /\ worker'[u].man.gen # worker'[v].man.gen
                 /\ worker'[u].ev # worker'[v].ev
      <3>1. u # w /\ Making(u) /\ worker'[u] = worker[u]
        BY <1>1, <2>2
      <3>2. QED
        BY <2>1, <3>1 DEF Apart
    <2>3. QED
      BY <2>1, <2>2 DEF Apart
  <1>3. ASSUME NEW v \in Workers PROVE Brings(v)'
    <2>1. CASE v = w
      BY <2>1 DEF Brings
    <2>2. CASE v # w
      BY <2>2 DEF Brings, BringsInv
    <2>3. QED
      BY <2>1, <2>2
  <1>4. MergerBrings' /\ \A e \in Episodes : manifest'[e].gen <= gen'
    BY DEF BringsInv, MergerBrings
  <1>5. QED
    BY <1>2, <1>3, <1>4 DEF BringsInv

\* Its manifest is stamped when the worker begins.
LEMMA ReadBrings ==
    ASSUME Typed, BringsInv, NEW w \in Workers, NEW e \in Episodes,
           ReadIndex(w, e)
    PROVE  BringsInv'
  <1>1. /\ worker \in [Workers -> WorkerState] /\ gen \in Nat
        /\ manifest \in [Episodes -> Manifests] /\ merger \in MergerState
        /\ \A x \in Episodes : manifest[x].gen \in Nat
        /\ \A v \in Workers : worker[v].man.gen \in Nat
        /\ \A x \in Episodes : merger.read[x] \in Nat
    BY EpisodeStoreAssumption
       DEF Typed, TypeOK, WorkerState, MergerState, Manifests
  <1>2. /\ UNCHANGED <<manifest, merger>> /\ gen' = gen + 1
        /\ \A v \in Workers : worker[v].ev # e
    BY DEF ReadIndex, storeVars
  <1>3. /\ \A v \in Workers \ {w} : worker'[v] = worker[v]
        /\ worker'[w].pc = "read" /\ worker'[w].ev = e
        /\ worker'[w].man.gen = gen + 1 /\ worker'[w].man.parts = {e}
    BY <1>1 DEF ReadIndex
  <1>4. \A v \in Workers \ {w} : Making(v)' <=> Making(v)
    BY <1>3 DEF Making
  <1>5. Apart(w)'
    <2>1. /\ \A x \in Episodes : manifest'[x].gen # worker'[w].man.gen
          /\ worker'[w].man.gen <= gen'
          /\ worker'[w].ev \in worker'[w].man.parts
      BY <1>1, <1>2, <1>3 DEF BringsInv
    <2>2. merger'.pc = "committing"
            => \A x \in Episodes : merger'.read[x] # worker'[w].man.gen
      BY <1>1, <1>2, <1>3 DEF BringsInv, MergerBrings
    <2>3. ASSUME NEW v \in Workers \ {w}, Making(v)'
          PROVE  /\ worker'[v].man.gen # worker'[w].man.gen
                 /\ worker'[v].ev # worker'[w].ev
      <3>1. Apart(v) /\ worker[v].man.gen <= gen
        BY <1>4, <2>3 DEF BringsInv, Apart
      <3>2. QED
        BY <1>1, <1>2, <1>3, <3>1
    <2>4. QED
      BY <2>1, <2>2, <2>3 DEF Apart
  <1>6. ASSUME NEW v \in Workers \ {w}, Making(v)' PROVE Apart(v)'
    <2>1. worker'[v] = worker[v] /\ Apart(v) /\ Making(v)
      BY <1>3, <1>4, <1>6 DEF BringsInv
    <2>2. ASSUME NEW u \in Workers \ {v}, Making(u)'
          PROVE  /\ worker'[u].man.gen # worker'[v].man.gen
                 /\ worker'[u].ev # worker'[v].ev
      <3>1. CASE u = w
        BY <1>1, <1>2, <1>3, <2>1, <3>1 DEF Apart
      <3>2. CASE u # w
        <4>1. Making(u) /\ worker'[u] = worker[u]
          BY <1>3, <1>4, <2>2, <3>2
        <4>2. QED
          BY <2>1, <4>1 DEF Apart
      <3>3. QED
        BY <3>1, <3>2
    <2>3. worker'[v].man.gen <= gen'
      BY <1>1, <1>2, <2>1 DEF Apart
    <2>4. QED
      BY <1>2, <2>1, <2>2, <2>3 DEF Apart
  <1>7. ASSUME NEW v \in Workers PROVE Brings(v)'
    <2>1. CASE v = w
      BY <1>3, <2>1 DEF Brings
    <2>2. CASE v # w
      BY <1>2, <1>3, <2>2 DEF Brings, BringsInv
    <2>3. QED
      BY <2>1, <2>2
  <1>8. MergerBrings' /\ \A x \in Episodes : manifest'[x].gen <= gen'
    BY <1>1, <1>2 DEF BringsInv, MergerBrings
  <1>9. QED
    BY <1>5, <1>6, <1>7, <1>8 DEF BringsInv

\* The frames of a listed episode come along.
LEMMA CarryBrings ==
    ASSUME Typed, BringsInv, NEW w \in Workers, CarryFrames(w), ~StartsOver(w)
    PROVE  BringsInv'
  <1> DEFINE e == worker[w].ev
             more == {e} \cup Carried(e, worker[w].snap)
  <1>1. /\ worker \in [Workers -> WorkerState] /\ worker[w] \in WorkerState
        /\ worker[w].pc = "read" /\ faults \in Nat
        /\ Making(w) /\ Apart(w) /\ UNCHANGED <<manifest, gen, merger>>
    BY DEF Typed, TypeOK, CarryFrames, Making, storeVars, BringsInv
  <1>2. \/ /\ faults' = faults
           /\ worker' = [worker EXCEPT ![w].pc = "carried",
                                       ![w].man.parts = more]
        \/ /\ faults' # faults
           /\ worker' = [worker EXCEPT ![w].pc = "carried"]
    BY <1>1 DEF CarryFrames, NoFault, Fault
  <1> HIDE DEF more
  <1>3. /\ \A v \in Workers \ {w} : worker'[v] = worker[v]
        /\ worker'[w].pc = "carried" /\ worker'[w].ev = e
        /\ worker'[w].man.gen = worker[w].man.gen
        /\ worker'[w].man.parts
             = IF faults' = faults THEN more ELSE worker[w].man.parts
    BY <1>1, <1>2 DEF WorkerState, Manifests
  <1>4. /\ e \in worker'[w].man.parts
        /\ manifest[e].parts \subseteq worker'[w].man.parts
    <2>1. e \in worker[w].man.parts /\ e \in more
      BY <1>1 DEF Apart, more
    <2>2. CASE manifest[e].parts \subseteq {e}
      BY <1>3, <2>1, <2>2
    <2>3. CASE ~(manifest[e].parts \subseteq {e})
      <3>1. faults' = faults /\ e \in Listed(worker[w].snap) \cap anim
        BY <2>3 DEF StartsOver
      <3>2. manifest[e].parts \subseteq more
        BY <3>1 DEF more, Carried
      <3>3. QED
        BY <1>3, <2>1, <3>1, <3>2
    <2>4. QED
      BY <2>2, <2>3
  <1>5. \A v \in Workers : /\ Making(v)' <=> Making(v)
                           /\ worker'[v].ev = worker[v].ev
                           /\ worker'[v].man.gen = worker[v].man.gen
    BY <1>1, <1>3 DEF Making
  <1>6. ASSUME NEW v \in Workers, Making(v)' PROVE Apart(v)'
    <2>1. Apart(v)
      BY <1>5, <1>6 DEF BringsInv
    <2>2. worker'[v].ev \in worker'[v].man.parts
      BY <1>3, <1>4, <2>1 DEF Apart
    <2>3. QED
      BY <1>1, <1>5, <2>1, <2>2 DEF Apart
  <1>7. ASSUME NEW v \in Workers PROVE Brings(v)'
    BY <1>1, <1>3, <1>4 DEF Brings, BringsInv
  <1>8. MergerBrings' /\ \A x \in Episodes : manifest'[x].gen <= gen'
    BY <1>1 DEF BringsInv, MergerBrings
  <1>9. QED
    BY <1>6, <1>7, <1>8 DEF BringsInv

\* A step of the worker w that publishes nothing.
LEMMA WorkerCounts ==
    ASSUME CountsInv, Typed', NEW w \in Workers, ~StartsOver(w),
           \/ \E e \in Episodes : ReadIndex(w, e)
           \/ CarryFrames(w) \/ Consume(w) \/ WorkerCrash(w)
    PROVE  CountsInv'
  <1>1. /\ worker \in [Workers -> WorkerState]
        /\ worker' \in [Workers -> WorkerState]
    BY DEF CountsInv, Typed, TypeOK
  <1>2. UNCHANGED <<index, manifest, tick>>
    BY DEF ReadIndex, CarryFrames, Consume, WorkerCrash, storeVars
  <1>3. CASE \E e \in Episodes : ReadIndex(w, e)
    <2>1. \A v \in Workers : \/ worker'[v].snap = worker[v].snap
                             \/ worker'[v].snap = index
                             \/ worker'[v].snap = EmptyIndex
      BY <1>1, <1>3 DEF ReadIndex
    <2>2. CoversInv'
      BY <1>2, <2>1, CoversKept DEF CountsInv, CoversInv
    <2>3. QED
      BY <1>3, <2>2, ReadBrings DEF CountsInv
  <1>4. CASE CarryFrames(w)
    <2>1. \A v \in Workers : worker'[v].snap = worker[v].snap
      <3>1. \/ \E p : worker' = [worker EXCEPT ![w].pc = "carried",
                                              ![w].man.parts = p]
            \/ worker' = [worker EXCEPT ![w].pc = "carried"]
        BY <1>4 DEF CarryFrames
      <3>2. QED
        BY <1>1, <3>1 DEF WorkerState
    <2>2. CoversInv'
      BY <1>2, <2>1, CoversKept DEF CountsInv, CoversInv
    <2>3. QED
      BY <1>4, <2>2, CarryBrings DEF CountsInv
  <1>5. CASE Consume(w) \/ WorkerCrash(w)
    <2>1. worker' = [worker EXCEPT ![w] = IdleWorker]
          /\ UNCHANGED <<gen, merger>>
      BY <1>5 DEF Consume, WorkerCrash
    <2>2. /\ worker'[w].pc = "idle" /\ worker'[w].snap = EmptyIndex
          /\ \A v \in Workers \ {w} : worker'[v] = worker[v]
      BY <1>1, <2>1 DEF IdleWorker
    <2>3. CoversInv'
      BY <1>2, <2>2, CoversKept DEF CountsInv, CoversInv
    <2>4. QED
      BY <1>1, <1>2, <2>1, <2>2, <2>3, StopMaking DEF CountsInv
  <1>6. QED
    BY <1>3, <1>4, <1>5

\* The published manifest is the worker's, and the worker makes none any more.
LEMMA PublishBrings ==
    ASSUME Typed, BringsInv, NEW w \in Workers,
           worker[w].pc = "carried", worker[w].ev \in Episodes,
           manifest' = [manifest EXCEPT ![worker[w].ev] = worker[w].man],
           UNCHANGED <<gen, merger>>,
           \A v \in Workers \ {w} : worker'[v] = worker[v],
           worker'[w].pc = "published"
    PROVE  BringsInv'
  <1> DEFINE e == worker[w].ev
  <1>1. /\ manifest \in [Episodes -> Manifests] /\ manifest'[e] = worker[w].man
        /\ \A x \in Episodes \ {e} : manifest'[x] = manifest[x]
    BY DEF Typed, TypeOK
  <1>2. Apart(w) /\ ~Making(w)'
    BY DEF Making, BringsInv
  <1>3. ASSUME NEW v \in Workers, Making(v)'
        PROVE  /\ v # w /\ Making(v) /\ worker'[v] = worker[v] /\ Apart(v)
               /\ worker[v].man.gen # worker[w].man.gen /\ worker[v].ev # e
    <2>1. v # w
      BY <1>2, <1>3
    <2>2. Making(v) /\ worker'[v] = worker[v]
      BY <1>3, <2>1 DEF Making
    <2>3. QED
      BY <1>2, <2>1, <2>2 DEF BringsInv, Apart
  <1>4. ASSUME NEW v \in Workers, Making(v)' PROVE Apart(v)'
    <2>1. \A x \in Episodes : manifest'[x].gen # worker[v].man.gen
      BY <1>1, <1>3, <1>4 DEF Apart
    <2>2. \A u \in Workers \ {v} :
             Making(u)' => /\ worker'[u].man.gen # worker'[v].man.gen
                           /\ worker'[u].ev # worker'[v].ev
      BY <1>3, <1>4 DEF Apart
    <2>3. QED
      BY <1>3, <1>4, <2>1, <2>2 DEF Apart
  <1>5. ASSUME NEW v \in Workers PROVE Brings(v)'
    <2>1. CASE worker'[v].pc = "carried"
      <3>1. Making(v)'
        BY <2>1 DEF Making
      <3>2. worker'[v] = worker[v] /\ worker[v].ev \in Episodes \ {e}
        BY <1>3, <2>1, <3>1 DEF Typed, ActorsNamed
      <3>3. QED
        BY <1>1, <3>2 DEF Brings, BringsInv
    <2>2. CASE worker'[v].pc # "carried"
      BY <2>2 DEF Brings
    <2>3. QED
      BY <2>1, <2>2
  <1>6. MergerBrings'
    <2>1. ASSUME merger.pc = "committing", NEW x \in Episodes
          PROVE  /\ merger.read[x] <= gen
                 /\ x \in merger.sources /\ manifest'[x].gen = merger.read[x]
                      => manifest'[x].parts \subseteq merger.parts
      <3>1. merger.read[x] <= gen
            /\ (x \in merger.sources /\ manifest[x].gen = merger.read[x]
                      => manifest[x].parts \subseteq merger.parts)
        BY <2>1 DEF BringsInv, MergerBrings
      <3>2. CASE x = e
        <4>1. merger.read[e] # worker[w].man.gen
          BY <1>2, <2>1 DEF Apart
        <4>2. QED
          BY <1>1, <3>1, <3>2, <4>1
      <3>3. CASE x # e
        BY <1>1, <3>1, <3>3
      <3>4. QED
        BY <3>2, <3>3
    <2>2. QED
      BY <2>1 DEF MergerBrings
  <1>7. \A x \in Episodes : manifest'[x].gen <= gen'
    BY <1>1, <1>2 DEF BringsInv, Apart
  <1>8. QED
    BY <1>4, <1>5, <1>6, <1>7 DEF BringsInv

LEMMA PublishCounts ==
    ASSUME CountsInv, Typed', NEW w \in Workers, PublishCommit(w),
           ~Overtakes(w)
    PROVE  CountsInv'
  <1> DEFINE e == worker[w].ev
             man == worker[w].man
             out == [IdleWorker EXCEPT !.pc = "published", !.ev = e]
  <1>1. /\ worker \in [Workers -> WorkerState] /\ worker[w] \in WorkerState
        /\ worker' \in [Workers -> WorkerState]
        /\ manifest \in [Episodes -> Manifests] /\ worker[w].pc = "carried"
        /\ worker[w].snap \in Indexes /\ man \in Manifests /\ e \in Episodes
        /\ BringsInv /\ CoversInv /\ Typed
    BY DEF CountsInv, Typed, TypeOK, WorkerState, ActorsNamed, PublishCommit
  <1>2. UNCHANGED <<tick, fin, gen, merger>>
    BY DEF PublishCommit
  <1>3. /\ out.snap = EmptyIndex /\ out.pc = "published"
        /\ IdleWorker.snap = EmptyIndex /\ IdleWorker.pc = "idle"
    BY DEF IdleWorker
  <1>4. \/ /\ worker' = [worker EXCEPT ![w] = out]
           /\ manifest' = [manifest EXCEPT ![e] = man]
           /\ \E status, gone :
                 index' = Without(Prepend(worker[w].snap, e, man, status), gone)
        \/ worker' = [worker EXCEPT ![w] = IdleWorker] /\ UNCHANGED storeVars
    BY DEF PublishCommit
  <1> HIDE DEF out
  <1>5. CASE UNCHANGED storeVars /\ worker' = [worker EXCEPT ![w] = IdleWorker]
    <2>1. /\ UNCHANGED <<index, manifest>> /\ worker'[w].pc = "idle"
          /\ worker'[w].snap = EmptyIndex
          /\ \A v \in Workers \ {w} : worker'[v] = worker[v]
      BY <1>1, <1>3, <1>5 DEF storeVars
    <2>2. BringsInv'
      BY <1>1, <1>2, <2>1, StopMaking
    <2>3. CoversInv'
      BY <1>1, <1>2, <2>1, CoversKept DEF CoversInv
    <2>4. QED
      BY <2>2, <2>3 DEF CountsInv
  <1>6. ASSUME worker' = [worker EXCEPT ![w] = out], NEW status, NEW gone,
               manifest' = [manifest EXCEPT ![e] = man],
               index' = Without(Prepend(worker[w].snap, e, man, status), gone)
        PROVE  CountsInv'
    <2>1. /\ worker'[w].pc = "published" /\ worker'[w].snap = EmptyIndex
          /\ \A v \in Workers \ {w} : worker'[v] = worker[v]
      BY <1>1, <1>3, <1>6
    <2>2. BringsInv'
      BY <1>1, <1>2, <1>6, <2>1, PublishBrings
    <2>3. \A x \in Episodes : manifest[x].parts \subseteq manifest'[x].parts
      <3>1. manifest[e].gen <= man.gen
        BY <1>1 DEF Overtakes, Manifests
      <3>2. manifest[e].parts \subseteq man.parts
        BY <1>1, <3>1 DEF BringsInv, Brings
      <3>3. QED
        BY <1>1, <1>6, <3>2
    <2>4. Covered(worker[w].snap, manifest') /\ manifest'[e] = man
      BY <1>1, <1>6, <2>3, MoreCovered DEF CoversInv
    <2>5. Covered(index', manifest')
      BY <1>1, <1>6, <2>4, PublishCovered
    <2>6. CoversInv'
      BY <1>1, <1>2, <2>1, <2>3, <2>5, CoversKept
    <2>7. QED
      BY <2>2, <2>6 DEF CountsInv
  <1>7. QED
    BY <1>4, <1>5, <1>6

\* A step that writes the index only.
LEMMA IndexStepCounts ==
    ASSUME CountsInv, Typed', UNCHANGED <<manifest, worker, gen>>,
           UNCHANGED merger \/ merger'.pc # "committing",
           Covered(index', manifest),
           \/ tick'.fresh = tick.fresh \/ tick'.fresh = index
           \/ tick'.fresh = EmptyIndex
    PROVE  CountsInv'
  <1>1. BringsInv'
    BY BringsKept DEF CountsInv
  <1>2. CoversInv'
    BY CoversKept DEF CountsInv
  <1>3. QED
    BY <1>1, <1>2 DEF CountsInv

\* What the tick writes, and what it may write back later.
LEMMA TickWrites ==
    ASSUME Typed, TickStart \/ TickStep
    PROVE  /\ UNCHANGED <<manifest, worker, gen, merger>>
           /\ \/ tick'.fresh = tick.fresh \/ tick'.fresh = index
              \/ tick'.fresh = EmptyIndex
           /\ \/ index' = index
              \/ \E ids : index' = MarkEnded(tick.fresh, ids)
              \/ \E e \in Episodes : \E r : index' = Reopen(tick.fresh, e, r)
              \/ index' = tick.fresh
  <1>1. tick \in TickState
    BY DEF Typed, TypeOK
  <1>2. CASE TickStart \/ RunJobs
    BY <1>2 DEF TickStart, RunJobs, IdleTick, storeVars, boundVars
  <1>3. CASE MarkRead \/ ReopenRead \/ SweepRead
    BY <1>1, <1>3 DEF MarkRead, ReopenRead, SweepRead, GoTo, Decide,
                      TickState, storeVars
  <1>4. CASE Pick
    <2>1. \/ tick' = [tick EXCEPT !.pc = "finals", !.start = "new"]
          \/ \E e : tick' = [tick EXCEPT !.pc = "reopen", !.cand = e]
          \/ tick' = [tick EXCEPT !.pc = "finals"]
      BY <1>4 DEF Pick
    <2>2. tick'.fresh = tick.fresh
      BY <1>1, <2>1 DEF TickState
    <2>3. QED
      BY <1>4, <2>2 DEF Pick, storeVars
  <1>5. CASE SweepList
    <2> DEFINE orphans == Orphans(tick.fresh)
    <2>1. \/ tick' = IdleTick
          \/ tick' = [tick EXCEPT !.pc = "sweeping", !.ended = orphans]
      BY <1>5 DEF SweepList
    <2> HIDE DEF orphans
    <2>2. CASE tick' = IdleTick
      BY <1>5, <2>2 DEF SweepList, storeVars, boundVars, IdleTick
    <2>3. CASE tick' = [tick EXCEPT !.pc = "sweeping", !.ended = orphans]
      <3>1. tick'.fresh = tick.fresh
        BY <1>1, <2>3 DEF TickState
      <3>2. QED
        BY <1>5, <3>1 DEF SweepList, storeVars, boundVars
    <2>4. QED
      BY <2>1, <2>2, <2>3
  <1>6. CASE MarkCommit
    BY <1>1, <1>6 DEF MarkCommit, TickState
  <1>7. CASE ReopenCommit
    <2>1. \/ tick' = [tick EXCEPT !.pc = "finals", !.fresh = EmptyIndex]
          \/ tick' = [tick EXCEPT !.pc = "finals", !.fresh = EmptyIndex,
                                 !.start = "reopened"]
      BY <1>7 DEF ReopenCommit
    <2>2. tick'.fresh = EmptyIndex
      BY <1>1, <2>1 DEF TickState
    <2>3. tick.cand \in Episodes
      BY <1>7 DEF ReopenCommit, Typed, ActorsNamed
    <2>4. QED
      BY <1>7, <2>2, <2>3 DEF ReopenCommit
  <1>8. CASE SweepCommit
    BY <1>8 DEF SweepCommit, IdleTick
  <1>9. CASE DispatchFinals
    BY <1>1, <1>9 DEF DispatchFinals, GoTo, storeVars, boundVars, TickState
  <1>10. QED
    BY <1>2, <1>3, <1>4, <1>5, <1>6, <1>7, <1>8, <1>9 DEF TickStep

LEMMA TickCounts ==
    ASSUME CountsInv, Typed', TickStart \/ TickStep PROVE CountsInv'
  <1>1. /\ tick.fresh \in Indexes /\ Covered(tick.fresh, manifest)
        /\ Covered(index, manifest) /\ Typed
    BY DEF CountsInv, CoversInv, Typed, TypeOK, TickState
  <1>2. Covered(index', manifest)
    BY <1>1, TickWrites, EditsCovered
  <1>3. QED
    BY <1>1, <1>2, TickWrites, IndexStepCounts

LEMMA FinCounts ==
    ASSUME CountsInv, Typed', NEW f \in Finalizers, FinStep(f)
    PROVE  CountsInv'
  <1>1. UNCHANGED <<manifest, worker, tick, merger, gen>>
    BY DEF FinStep, FinalRead, FinalScore, FinalCommit, storeVars
  <1>2. index' = index \/ index' = WriteFinals(index, fin[f].got, fin[f].began)
    BY DEF FinStep, FinalRead, FinalScore, FinalCommit, storeVars
  <1>3. index \in Indexes /\ Covered(index, manifest)
    BY DEF CountsInv, CoversInv, Typed, TypeOK
  <1>4. Covered(index', manifest)
    BY <1>2, <1>3, EditsCovered
  <1>5. QED
    BY <1>1, <1>4, IndexStepCounts

\* The merger brings what it read.
LEMMA BuildBrings ==
    ASSUME Typed, BringsInv, MergeBuild PROVE BringsInv'
  <1> DEFINE sources == Planned \cap anim
             parts == UNION {manifest[m].parts : m \in sources}
             read == [e \in Episodes |-> manifest[e].gen]
  <1>1. UNCHANGED <<manifest, worker, gen>>
    BY DEF MergeBuild, storeVars
  <1>2. \/ merger' = IdleMerger
        \/ merger' = [merger EXCEPT !.pc = "committing", !.parts = parts,
                                    !.sources = sources, !.read = read]
    BY DEF MergeBuild
  <1>3. CASE merger' = IdleMerger
    BY <1>1, <1>3, BringsKept DEF IdleMerger
  <1>4. CASE merger' = [merger EXCEPT !.pc = "committing", !.parts = parts,
                                      !.sources = sources, !.read = read]
    <2>1. /\ merger'.parts = parts /\ merger'.sources = sources
          /\ \A e \in Episodes : merger'.read[e] = manifest[e].gen
      <3> HIDE DEF parts, sources
      <3>1. merger \in MergerState
        BY DEF Typed, TypeOK
      <3>2. /\ merger'.parts = parts /\ merger'.sources = sources
            /\ merger'.read = read
        BY <1>4, <3>1 DEF MergerState
      <3>3. QED
        BY <3>2
    <2>2. \A w \in Workers : Making(w)' <=> Making(w)
      BY <1>1 DEF Making
    <2>3. ASSUME NEW w \in Workers, Making(w)' PROVE Apart(w)'
      <3>1. Apart(w)
        BY <2>2, <2>3 DEF BringsInv
      <3>2. \A e \in Episodes : merger'.read[e] # worker'[w].man.gen
        BY <1>1, <2>1, <3>1 DEF Apart
      <3>3. QED
        BY <1>1, <2>2, <3>1, <3>2 DEF Apart
    <2>4. MergerBrings'
      <3>1. ASSUME NEW e \in Episodes
            PROVE  /\ merger'.read[e] <= gen
                   /\ e \in sources => manifest[e].parts \subseteq parts
        BY <2>1 DEF BringsInv
      <3> HIDE DEF parts, sources
      <3>2. QED
        BY <1>1, <2>1, <3>1 DEF MergerBrings
    <2>5. (\A w \in Workers : Brings(w)')
          /\ \A e \in Episodes : manifest'[e].gen <= gen'
      BY <1>1 DEF BringsInv, Brings
    <2>6. QED
      BY <2>3, <2>4, <2>5 DEF BringsInv
  <1>5. QED
    BY <1>2, <1>3, <1>4

\* The merged manifest has the newest stamp, and the merger makes none.
LEMMA MergeBrings ==
    ASSUME Typed, BringsInv, NEW target \in Episodes,
           NEW man, man.gen = gen + 1,
           manifest' = [manifest EXCEPT ![target] = man],
           gen' = gen + 1, UNCHANGED worker, merger'.pc # "committing"
    PROVE  BringsInv'
  <1>1. /\ manifest \in [Episodes -> Manifests] /\ gen \in Nat
        /\ \A x \in Episodes : manifest[x].gen \in Nat
        /\ \A v \in Workers : worker[v].man.gen \in Nat
    BY EpisodeStoreAssumption DEF Typed, TypeOK, WorkerState, Manifests
  <1>2. /\ manifest'[target] = man
        /\ \A x \in Episodes \ {target} : manifest'[x] = manifest[x]
    BY <1>1
  <1>3. \A w \in Workers : Making(w)' <=> Making(w)
    BY DEF Making
  <1>4. ASSUME NEW w \in Workers, Making(w)' PROVE Apart(w)'
    <2>1. Apart(w)
      BY <1>3, <1>4 DEF BringsInv
    <2>2. \A x \in Episodes : manifest'[x].gen # worker[w].man.gen
      BY <1>1, <1>2, <2>1 DEF Apart
    <2>3. worker[w].man.gen <= gen + 1
      BY <1>1, <2>1 DEF Apart
    <2>4. QED
      BY <1>3, <2>1, <2>2, <2>3 DEF Apart
  <1>5. ASSUME NEW w \in Workers PROVE Brings(w)'
    <2>1. CASE worker[w].pc = "carried"
      <3>1. worker[w].man.gen <= gen /\ worker[w].ev \in Episodes
        BY <2>1 DEF BringsInv, Making, Apart, Typed, ActorsNamed
      <3>2. CASE worker[w].ev = target
        BY <1>1, <1>2, <3>1, <3>2 DEF Brings
      <3>3. CASE worker[w].ev # target
        BY <1>2, <3>1, <3>3 DEF Brings, BringsInv
      <3>4. QED
        BY <3>2, <3>3
    <2>2. CASE worker[w].pc # "carried"
      BY <2>2 DEF Brings
    <2>3. QED
      BY <2>1, <2>2
  <1>6. MergerBrings' /\ \A x \in Episodes : manifest'[x].gen <= gen'
    BY <1>1, <1>2 DEF BringsInv, MergerBrings
  <1>7. QED
    BY <1>4, <1>5, <1>6 DEF BringsInv

LEMMA MergerCounts ==
    ASSUME CountsInv, Typed', MergerStep, ~MergesOld PROVE CountsInv'
  <1>1. /\ index \in Indexes /\ manifest \in [Episodes -> Manifests]
        /\ Typed /\ BringsInv /\ CoversInv /\ Covered(index, manifest)
    BY DEF CountsInv, Typed, TypeOK, CoversInv
  <1>2. UNCHANGED <<worker, tick>>
    BY DEF MergerStep, MergePass, MergeBuild, MergeCommit, DropStale, MergeDone
  <1>3. CASE MergePass \/ DropStale \/ MergeDone
    <2>1. UNCHANGED <<manifest, gen>> /\ merger'.pc # "committing"
      <3>1. /\ IdleMerger.pc = "idle"
            /\ [IdleMerger EXCEPT !.pc = "finalizing"].pc = "finalizing"
            /\ \A gens : /\ [IdleMerger EXCEPT !.pc = "building",
                                               !.gens = gens].pc = "building"
                         /\ [IdleMerger EXCEPT !.pc = "dropping",
                                               !.gens = gens].pc = "dropping"
        BY DEF IdleMerger
      <3>2. CASE MergePass
        BY <3>1, <3>2
           DEF MergePass, FinishMerged, PlanMerge, storeVars, boundVars
      <3>3. CASE DropStale \/ MergeDone
        BY <3>1, <3>3 DEF DropStale, MergeDone, storeVars, boundVars
      <3>4. QED
        BY <1>3, <3>2, <3>3
    <2>2. index' = index \/ \E t \in Episodes : index' = DropFinal(index, t)
      BY <1>3 DEF MergePass, DropStale, MergeDone, storeVars, Planned
    <2>3. Covered(index', manifest)
      BY <1>1, <2>2, EditsCovered
    <2>4. QED
      BY <1>2, <2>1, <2>3, IndexStepCounts
  <1>4. CASE MergeBuild
    <2>1. UNCHANGED <<index, manifest>>
      BY <1>4 DEF MergeBuild, storeVars
    <2>2. CoversInv'
      BY <1>1, <1>2, <2>1, CoversKept
    <2>3. QED
      BY <1>1, <1>4, <2>2, BuildBrings DEF CountsInv
  <1>5. CASE MergeCommit
    <2> DEFINE man == [gen |-> gen + 1, parts |-> merger.parts]
    <2>1. PICK target \in Episodes :
            /\ IsNewest(target, Planned)
            /\ \/ /\ Recheck(index, merger.gens) /\ gen' = gen + 1
                  /\ index' = Merge(index, target, Planned, man)
                  /\ manifest' = [manifest EXCEPT ![target] = man]
                  /\ merger' = [IdleMerger EXCEPT !.pc = "finalizing"]
               \/ merger' = IdleMerger /\ UNCHANGED <<index, manifest, gen>>
      BY <1>5 DEF MergeCommit, storeVars
    <2>2. man.gen = gen + 1 /\ man.parts = merger.parts
      OBVIOUS
    <2> HIDE DEF man
    <2>3. merger'.pc # "committing" /\ merger.pc = "committing"
      BY <1>5, <2>1 DEF IdleMerger, MergeCommit
    <2>4. CASE UNCHANGED <<index, manifest, gen>>
      BY <1>1, <1>2, <2>3, <2>4, IndexStepCounts
    <2>5. CASE /\ Recheck(index, merger.gens) /\ gen' = gen + 1
               /\ index' = Merge(index, target, Planned, man)
               /\ manifest' = [manifest EXCEPT ![target] = man]
      <3>1. BringsInv'
        BY <1>1, <1>2, <2>2, <2>3, <2>5, MergeBrings
      <3>2. target \in merger.sources
            /\ manifest[target].gen = merger.read[target]
        BY <2>1, <2>3, <2>5 DEF MergesOld
      <3>3. manifest[target].parts \subseteq man.parts
        BY <1>1, <2>2, <2>3, <3>2 DEF BringsInv, MergerBrings
      <3>4. /\ manifest'[target] = man
            /\ \A x \in Episodes :
                  manifest[x].parts \subseteq manifest'[x].parts
        BY <1>1, <2>5, <3>3
      <3>5. Covered(index, manifest')
        BY <1>1, <3>4, MoreCovered
      <3>6. Covered(index', manifest')
        BY <1>1, <2>5, <3>4, <3>5, MergeCovered
      <3>7. CoversInv'
        BY <1>1, <1>2, <3>4, <3>6, CoversKept
      <3>8. QED
        BY <3>1, <3>7 DEF CountsInv
    <2>6. QED
      BY <2>1, <2>4, <2>5
  <1>6. QED
    BY <1>3, <1>4, <1>5 DEF MergerStep

LEMMA InitCounts == Init => CountsInv
  <1> SUFFICES ASSUME Init PROVE CountsInv
    OBVIOUS
  <1>1. Typed /\ FitsInv
    BY InitTyped, InitFits
  <1>2. /\ \A e \in Episodes : manifest[e] = index[e].man
        /\ \A w \in Workers : /\ worker[w].snap = EmptyIndex
                              /\ worker[w].pc = "idle"
        /\ tick.fresh = EmptyIndex /\ merger.pc = "idle"
    BY DEF Init, IdleWorker, IdleTick, IdleMerger
  <1>3. CoversInv
    BY <1>2, EmptyCovered DEF CoversInv, Covered
  <1>4. \A e \in Episodes : manifest[e].gen <= gen
    BY <1>1 DEF FitsInv, StampsFit
  <1>5. BringsInv
    BY <1>2, <1>4 DEF BringsInv, Making, Brings, MergerBrings
  <1>6. QED
    BY <1>1, <1>3, <1>5 DEF CountsInv

LEMMA CountsStep ==
    ASSUME CountsInv, [Next]_vars, [KeepsFrames]_vars PROVE CountsInv'
  <1>1. Typed' /\ Typed
    BY TypedStep DEF CountsInv
  <1>2. CASE UNCHANGED vars
    <2>1. UNCHANGED <<index, manifest, gen, worker, tick, merger>>
      BY <1>2 DEF vars, storeVars, actorVars, boundVars
    <2>2. QED
      BY <1>1, <2>1, IndexStepCounts DEF CountsInv, CoversInv
  <1>3. CASE Next /\ KeepsFrames
    <2>1. ASSUME NEW w \in Workers,
                 \/ \E e \in Episodes : ReadIndex(w, e)
                 \/ WorkerStep(w) \/ WorkerCrash(w)
          PROVE  CountsInv'
      <3>1. ~Overtakes(w) /\ ~StartsOver(w)
        BY <1>3 DEF KeepsFrames
      <3>2. QED
        BY <1>1, <2>1, <3>1, WorkerCounts, PublishCounts DEF WorkerStep
    <2>2. CASE TickStart \/ TickStep
      BY <1>1, <2>2, TickCounts
    <2>3. CASE \E f \in Finalizers : FinStep(f)
      BY <1>1, <2>3, FinCounts
    <2>4. CASE MergerStep
      BY <1>1, <1>3, <2>4, MergerCounts DEF KeepsFrames
    <2>5. CASE RunnerCrash \/ MergerCrash
      <3>1. /\ UNCHANGED <<index, manifest, gen, worker>>
            /\ tick'.fresh = tick.fresh \/ tick'.fresh = EmptyIndex
            /\ UNCHANGED merger \/ merger'.pc # "committing"
        BY <2>5 DEF RunnerCrash, MergerCrash, storeVars, IdleTick, IdleMerger
      <3>2. QED
        BY <1>1, <3>1, IndexStepCounts DEF CountsInv, CoversInv
    <2>6. QED
      BY <1>3, <2>1, <2>2, <2>3, <2>4, <2>5 DEF Next
  <1>4. QED
    BY <1>2, <1>3

\* However many workers, ticks and finalizers write back an index they read
\* long ago, and however often they fail, no entry of the list counts frames
\* that its manifest does not hold (publish_event and reopen_episodes of
\* eventstore.py, commit_group of merge_episodes.py), while KeepsFrames holds:
\* no worker overtakes the merger, no worker publishes a merged episode without
\* the frames merged into it, and no merge replaces a manifest it has not read
\* or whose frames are gone.  Neither of the last two can be left out: TLC then
\* finds an entry that counts frames nobody serves.
THEOREM CountedFramesKept ==
    Spec /\ [][KeepsFrames]_vars => []CountedFramesServed
  <1>1. CountsInv /\ [Next]_vars /\ [KeepsFrames]_vars => CountsInv'
    BY CountsStep
  <1>2. CountsInv => CountedFramesServed
    BY DEF CountsInv, CoversInv, Covered, CountedFramesServed
  <1>3. QED
    BY <1>1, <1>2, InitCounts, PTL DEF Spec

-----------------------------------------------------------------------------
(* Absorbed episodes.  Whoever may still write an index back has the final   *)
(* an absorbed episode was absorbed with, as long as no episode that a stale *)
(* write brought back is absorbed again while an older copy shows it so.     *)

\* A copy j of the index says nothing else of the absorbed episodes.
Frozen(j, idx) ==
    \A e \in Episodes :
        j[e].into # 0 => /\ j[e].status = "ended"
                         /\ idx[e].into # 0 => j[e].final = idx[e].final

\* The copies that somebody may write back.
Copies == {worker[w].snap : w \in Workers} \cup {tick.fresh}

FrozenInv ==
    /\ Typed
    /\ Frozen(index, index)
    /\ \A j \in Copies : Frozen(j, index)
    /\ tick.pc = "reopening" => tick.fresh[tick.cand].into = 0
    /\ merger.pc = "dropping" => \A t \in Planned : index[t].into = 0

\* An episode is absorbed, by a merge or a stale write, while somebody holds
\* a copy of an earlier index in which it was absorbed too.
Reabsorbs ==
    \E e \in Episodes : /\ index[e].into = 0 /\ index'[e].into # 0
                        /\ \E j \in Copies : j[e].into # 0

LEMMA EmptyFrozen == ASSUME NEW idx PROVE Frozen(EmptyIndex, idx)
  BY DEF Frozen, EmptyIndex, Unlisted

\* The index new shows no more absorbed episodes than j, nor others.
From(j, new) ==
    \A e \in Episodes :
        new[e].into # 0 => /\ j[e].into # 0 /\ new[e].final = j[e].final
                           /\ new[e].status \in {j[e].status, "ended"}

LEMMA FromFrozen ==
    ASSUME NEW j, NEW new, NEW idx, Frozen(j, idx), From(j, new)
    PROVE  Frozen(new, idx)
  BY DEF Frozen, From

LEMMA PublishFrom ==
    ASSUME NEW snap \in Indexes, NEW e, NEW man, NEW status, NEW gone
    PROVE  From(snap, Without(Prepend(snap, e, man, status), gone))
  <1> DEFINE p == Prepend(snap, e, man, status)
             new == Without(p, gone)
  <1>1. ASSUME NEW x \in Episodes
        PROVE  \/ p[x].into = 0
               \/ /\ p[x].into = snap[x].into /\ p[x].final = snap[x].final
                  /\ p[x].status = snap[x].status
    <2>1. CASE x = e
      <3>1. p[x] = PublishedEntry(snap, e, man, status)
        BY <2>1 DEF Prepend
      <3>2. p[x].into = 0
        BY <3>1 DEF PublishedEntry, Unlisted
      <3>3. QED
        BY <3>2
    <2>2. CASE x # e
      <3>1. p[x] = snap[x] \/ p[x] = [snap[x] EXCEPT !.pos = snap[x].pos + 1]
        BY <2>2 DEF Prepend
      <3>2. snap[x] \in Entries
        BY DEF Indexes
      <3> HIDE DEF p
      <3>3. QED
        BY <3>1, <3>2 DEF Entries
    <2>3. QED
      BY <2>1, <2>2
  <1> HIDE DEF p
  <1>2. \A x \in Episodes : new[x] = p[x] \/ new[x].into = 0
    BY DEF Without, Unlisted
  <1> HIDE DEF new
  <1>3. From(snap, new)
    BY <1>1, <1>2 DEF From
  <1>4. QED
    BY <1>3 DEF new, p

LEMMA EditsFrom ==
    ASSUME NEW j \in Indexes
    PROVE  /\ \A ids : From(j, MarkEnded(j, ids))
           /\ \A e \in Episodes : \A r :
                j[e].into = 0 => From(j, Reopen(j, e, r))
           /\ \A e \in Episodes :
                j[e].into = 0 => From(j, DropFinal(j, e))
           /\ \A got, began : From(j, WriteFinals(j, got, began))
  <1>1. \A x \in Episodes : j[x] \in Entries
    BY DEF Indexes
  <1>2. ASSUME NEW ids PROVE From(j, MarkEnded(j, ids))
    <2>1. \A x \in Episodes :
             LET m == MarkEnded(j, ids)[x]
             IN /\ m.into = j[x].into /\ m.final = j[x].final
                /\ m.status \in {j[x].status, "ended"}
      BY <1>1 DEF MarkEnded, Entries
    <2>2. QED
      BY <2>1 DEF From
  <1>3. ASSUME NEW e \in Episodes, NEW r, j[e].into = 0
        PROVE  From(j, Reopen(j, e, r))
    <2>1. \A x \in Episodes : /\ Reopen(j, e, r)[x].into = j[x].into
                              /\ x # e => Reopen(j, e, r)[x] = j[x]
      BY <1>1 DEF Reopen, Indexes, Entries
    <2>2. QED
      BY <1>3, <2>1 DEF From
  <1>4. ASSUME NEW e \in Episodes, j[e].into = 0
        PROVE  From(j, DropFinal(j, e))
    <2>1. \A x \in Episodes : /\ DropFinal(j, e)[x].into = j[x].into
                              /\ x # e => DropFinal(j, e)[x] = j[x]
      BY <1>1 DEF DropFinal, Indexes, Entries
    <2>2. QED
      BY <1>4, <2>1 DEF From
  <1>5. ASSUME NEW got, NEW began
        PROVE  From(j, WriteFinals(j, got, began))
    <2>1. ASSUME NEW x \in Episodes
          PROVE  LET m == WriteFinals(j, got, began)[x]
                 IN m.into = j[x].into /\ (j[x].into # 0 => m = j[x])
      <3>1. \/ WriteFinals(j, got, began)[x] = j[x]
            \/ /\ j[x].into = 0
               /\ \E f : WriteFinals(j, got, began)[x]
                           = [j[x] EXCEPT !.final = f]
        BY DEF WriteFinals, FinalStale
      <3>2. j[x] \in Entries
        BY <1>1
      <3>3. QED
        BY <3>1, <3>2 DEF Entries
    <2>2. QED
      BY <2>1 DEF From
  <1>6. QED
    BY <1>2, <1>3, <1>4, <1>5

\* A merge absorbs ended episodes, and touches no absorbed one.
LEMMA MergeFrozen ==
    ASSUME NEW idx \in Indexes, Frozen(idx, idx), NEW target \in Episodes,
           NEW group, NEW man, target \in group,
           \A m \in group : m \in Members(idx) /\ idx[m].status = "ended"
    PROVE  Frozen(Merge(idx, target, group, man), idx)
  <1> DEFINE new == Merge(idx, target, group, man)
  <1>1. ASSUME NEW x \in Episodes
        PROVE  new[x].into # 0 =>
                  /\ new[x].status = "ended"
                  /\ idx[x].into # 0 => new[x].final = idx[x].final
    <2>1. idx[x] \in Entries
      BY DEF Indexes
    <2>2. CASE x = target
      <3>1. \E record : new[x] = [idx[x] EXCEPT !.status = "ended",
                                !.man = man, !.final = {}, !.merged = record]
        BY <2>2 DEF Merge
      <3>2. idx[x].into = 0
        BY <2>2 DEF Members
      <3> HIDE DEF new
      <3>3. QED
        BY <2>1, <3>1, <3>2 DEF Entries
    <2>3. CASE x # target /\ x \in group
      <3>1. new[x] = [idx[x] EXCEPT !.into = target]
        BY <2>3 DEF Merge
      <3>2. idx[x].status = "ended"
        BY <2>3
      <3> HIDE DEF new
      <3>3. QED
        BY <2>1, <3>1, <3>2 DEF Entries
    <2>4. CASE x # target /\ x \notin group
      <3>1. new[x] = idx[x]
        BY <2>4 DEF Merge
      <3>2. QED
        BY <3>1 DEF Frozen
    <2>5. QED
      BY <2>2, <2>3, <2>4
  <1>2. QED
    BY <1>1 DEF Frozen

\* What a step has to show of the index and of its copies.
LEMMA FrozenKept ==
    ASSUME FrozenInv, Typed', ~Reabsorbs, Frozen(index', index),
           Copies' \subseteq Copies \cup {index, EmptyIndex},
           tick'.pc = "reopening" => tick'.fresh[tick'.cand].into = 0,
           merger'.pc = "dropping" => \A t \in Planned' : index'[t].into = 0
    PROVE  FrozenInv'
  <1>1. Frozen(index', index')
    BY DEF Frozen
  <1>2. ASSUME NEW j \in Copies PROVE Frozen(j, index')
    <2>1. Frozen(j, index)
      BY DEF FrozenInv
    <2>2. \A e \in Episodes :
             index'[e].into # 0 /\ j[e].into # 0 => index[e].into # 0
      BY DEF Reabsorbs
    <2>3. QED
      BY <2>1, <2>2 DEF Frozen
  <1>3. Frozen(index, index') /\ Frozen(EmptyIndex, index')
    <2>1. Frozen(index, index)
      BY DEF FrozenInv
    <2>2. QED
      BY <2>1, EmptyFrozen DEF Frozen
  <1>4. \A j \in Copies' : Frozen(j, index')
    BY <1>2, <1>3
  <1>5. QED
    BY <1>1, <1>4 DEF FrozenInv

\* A step other than a merge's commit writes back what the index, or a copy
\* of it, says of the absorbed episodes.
LEMMA WriteKept ==
    ASSUME FrozenInv, Typed', ~Reabsorbs,
           NEW j \in Copies \cup {index}, From(j, index'),
           Copies' \subseteq Copies \cup {index, EmptyIndex},
           tick'.pc = "reopening" => tick'.fresh[tick'.cand].into = 0,
           merger'.pc = "dropping" =>
              UNCHANGED merger \/ \A t \in Planned' : index[t].into = 0
    PROVE  FrozenInv' /\ Frozen(index', index)
  <1>1. Frozen(index', index)
    <2>1. Frozen(j, index)
      BY DEF FrozenInv
    <2>2. QED
      BY <2>1, FromFrozen
  <1>2. \A e \in Episodes : index'[e].into # 0 => index[e].into # 0
    BY DEF From, Reabsorbs
  <1>3. ASSUME merger'.pc = "dropping", NEW t \in Planned'
        PROVE  index'[t].into = 0
    <2>1. t \in Episodes
      BY DEF Planned
    <2>2. index[t].into = 0
      <3>1. CASE UNCHANGED merger
        <4>1. merger.pc = "dropping" /\ t \in Planned
          BY <1>3, <3>1 DEF Planned
        <4>2. QED
          BY <4>1 DEF FrozenInv
      <3>2. QED
        BY <1>3, <3>1
    <2>3. QED
      BY <1>2, <2>1, <2>2
  <1>4. QED
    BY <1>1, <1>3, FrozenKept

LEMMA FromSelf == ASSUME NEW idx PROVE From(idx, idx)
  BY DEF From

\* Workers read the index, forget their copy, or write it back.
LEMMA WorkerFreezes ==
    ASSUME FrozenInv, Typed', ~Reabsorbs, NEW w \in Workers,
           (\E e \in Episodes : ReadIndex(w, e)) \/ WorkerStep(w)
             \/ WorkerCrash(w)
    PROVE  FrozenInv' /\ Frozen(index', index)
  <1>1. /\ worker \in [Workers -> WorkerState]
        /\ worker[w] \in WorkerState /\ worker[w].snap \in Indexes
    BY DEF FrozenInv, Typed, TypeOK, WorkerState
  <1>2. UNCHANGED <<tick, merger>>
    BY DEF ReadIndex, WorkerStep, CarryFrames, PublishCommit, Consume,
           WorkerCrash
  <1>3. \A v \in Workers : \/ worker'[v].snap = worker[v].snap
                           \/ worker'[v].snap = index
                           \/ worker'[v].snap = EmptyIndex
    <2>1. CASE \E e \in Episodes : ReadIndex(w, e)
      BY <1>1, <2>1 DEF ReadIndex
    <2>2. CASE CarryFrames(w)
      <3>1. \/ \E p : worker' = [worker EXCEPT ![w].pc = "carried",
                                              ![w].man.parts = p]
            \/ worker' = [worker EXCEPT ![w].pc = "carried"]
        BY <2>2 DEF CarryFrames
      <3>2. QED
        BY <1>1, <3>1 DEF WorkerState
    <2>3. CASE PublishCommit(w) \/ Consume(w) \/ WorkerCrash(w)
      <3>1. \E out : /\ out.snap = EmptyIndex
                     /\ worker' = [worker EXCEPT ![w] = out]
        BY <2>3 DEF PublishCommit, Consume, WorkerCrash, IdleWorker
      <3>2. QED
        BY <1>1, <3>1
    <2>4. QED
      BY <2>1, <2>2, <2>3 DEF WorkerStep
  <1>4. Copies' \subseteq Copies \cup {index, EmptyIndex}
    BY <1>2, <1>3 DEF Copies
  <1>5. index' = index
          \/ \E e, man, status, gone :
                index' = Without(Prepend(worker[w].snap, e, man, status), gone)
    BY DEF ReadIndex, WorkerStep, CarryFrames, PublishCommit, Consume,
           WorkerCrash, storeVars
  <1>6. From(index, index') \/ From(worker[w].snap, index')
    BY <1>1, <1>5, FromSelf, PublishFrom
  <1>7. tick'.pc = "reopening" => tick'.fresh[tick'.cand].into = 0
    BY <1>2 DEF FrozenInv
  <1>8. worker[w].snap \in Copies
    BY DEF Copies
  <1>9. QED
    BY <1>2, <1>4, <1>6, <1>7, <1>8, WriteKept

\* The tick reopens no absorbed episode.
LEMMA TickReopens ==
    ASSUME Typed, TickStart \/ TickStep, tick'.pc = "reopening"
    PROVE  tick'.fresh[tick'.cand].into = 0
  <1>1. tick \in TickState
    BY DEF Typed, TypeOK
  <1>2. ReopenRead
    <2>1. ~TickStart /\ ~RunJobs
      BY DEF TickStart, RunJobs, IdleTick
    <2>2. ~MarkRead /\ ~SweepRead
      BY <1>1 DEF MarkRead, SweepRead, GoTo, TickState
    <2>3. ~MarkCommit /\ ~DispatchFinals
      BY <1>1 DEF MarkCommit, DispatchFinals, GoTo, TickState
    <2>4. ~Pick
      <3>1. Pick => \/ tick' = [tick EXCEPT !.pc = "finals", !.start = "new"]
                    \/ \E e : tick' = [tick EXCEPT !.pc = "reopen", !.cand = e]
                    \/ tick' = [tick EXCEPT !.pc = "finals"]
        BY DEF Pick
      <3>2. QED
        BY <1>1, <3>1 DEF TickState
    <2>5. ~ReopenCommit
      <3>1. ReopenCommit =>
              \/ tick' = [tick EXCEPT !.pc = "finals", !.fresh = EmptyIndex]
              \/ tick' = [tick EXCEPT !.pc = "finals", !.fresh = EmptyIndex,
                                      !.start = "reopened"]
        BY DEF ReopenCommit
      <3>2. QED
        BY <1>1, <3>1 DEF TickState
    <2>6. ~SweepList /\ ~SweepCommit
      <3> DEFINE o == Orphans(tick.fresh)
      <3>1. SweepList \/ SweepCommit =>
              \/ tick' = IdleTick
              \/ tick' = [tick EXCEPT !.pc = "sweeping", !.ended = o]
        BY DEF SweepList, SweepCommit
      <3> HIDE DEF o
      <3>2. tick' # IdleTick
        BY DEF IdleTick
      <3>3. tick' # [tick EXCEPT !.pc = "sweeping", !.ended = o]
        BY <1>1 DEF TickState
      <3>4. QED
        BY <3>1, <3>2, <3>3
    <2>7. QED
      BY <2>1, <2>2, <2>3, <2>4, <2>5, <2>6 DEF TickStep
  <1>3. \E got : /\ tick' = [tick EXCEPT !.pc = "reopening", !.fresh = got]
                 /\ ~Superseded(got, tick.cand)
    <2>1. ~Decide("new") /\ ~Decide("none") /\ ~Decide("reopened")
      BY <1>1 DEF Decide, TickState
    <2>2. QED
      BY <1>2, <2>1 DEF ReopenRead
  <1>4. QED
    BY <1>1, <1>3 DEF TickState, Superseded

LEMMA TickFreezes ==
    ASSUME FrozenInv, Typed', ~Reabsorbs, TickStart \/ TickStep
    PROVE  FrozenInv' /\ Frozen(index', index)
  <1>1. /\ Typed /\ tick \in TickState /\ tick.fresh \in Indexes
        /\ tick.fresh \in Copies
    BY DEF FrozenInv, Typed, TypeOK, TickState, Copies
  <1>2. UNCHANGED <<worker, merger>>
    BY <1>1, TickWrites
  <1>3. Copies' \subseteq Copies \cup {index, EmptyIndex}
    BY <1>1, <1>2, TickWrites DEF Copies
  <1>4. From(index, index') \/ From(tick.fresh, index')
    <2>1. CASE ReopenCommit
      <3>1. /\ tick.cand \in Episodes /\ tick.fresh[tick.cand].into = 0
            /\ \/ index' = index
               \/ index' = Reopen(tick.fresh, tick.cand, reopens + 1)
        BY <2>1 DEF ReopenCommit, FrozenInv, Typed, ActorsNamed
      <3>2. QED
        BY <1>1, <3>1, FromSelf, EditsFrom
    <2>2. CASE ~ReopenCommit
      <3>1. \/ index' = index \/ index' = tick.fresh
            \/ \E ids : index' = MarkEnded(tick.fresh, ids)
        BY <2>2 DEF TickStart, TickStep, MarkRead, MarkCommit, Pick,
                    ReopenRead, DispatchFinals, RunJobs, SweepRead, SweepList,
                    SweepCommit, storeVars
      <3>2. QED
        BY <1>1, <3>1, FromSelf, EditsFrom
    <2>3. QED
      BY <2>1, <2>2
  <1>5. QED
    BY <1>1, <1>2, <1>3, <1>4, TickReopens, WriteKept

LEMMA FinFreezes ==
    ASSUME FrozenInv, Typed', ~Reabsorbs, NEW f \in Finalizers, FinStep(f)
    PROVE  FrozenInv' /\ Frozen(index', index)
  <1>1. index \in Indexes
    BY DEF FrozenInv, Typed, TypeOK
  <1>2. UNCHANGED <<worker, tick, merger>>
    BY DEF FinStep, FinalRead, FinalScore, FinalCommit, storeVars
  <1>3. index' = index \/ index' = WriteFinals(index, fin[f].got, fin[f].began)
    BY DEF FinStep, FinalRead, FinalScore, FinalCommit, storeVars
  <1>4. From(index, index')
    BY <1>1, <1>3, FromSelf, EditsFrom
  <1>5. Copies' \subseteq Copies \cup {index, EmptyIndex}
    BY <1>2 DEF Copies
  <1>6. tick'.pc = "reopening" => tick'.fresh[tick'.cand].into = 0
    BY <1>2 DEF FrozenInv
  <1>7. QED
    BY <1>2, <1>4, <1>5, <1>6, WriteKept

LEMMA MergerFreezes ==
    ASSUME FrozenInv, Typed', ~Reabsorbs, MergerStep
    PROVE  FrozenInv' /\ Frozen(index', index)
  <1>1. index \in Indexes /\ Frozen(index, index) /\ merger \in MergerState
    BY DEF FrozenInv, Typed, TypeOK
  <1>2. UNCHANGED <<worker, tick>>
    BY DEF MergerStep, MergePass, MergeBuild, MergeCommit, DropStale, MergeDone
  <1>3. Copies' \subseteq Copies \cup {index, EmptyIndex}
    BY <1>2 DEF Copies
  <1>4. tick'.pc = "reopening" => tick'.fresh[tick'.cand].into = 0
    BY <1>2 DEF FrozenInv
  <1>5. CASE MergePass
    <2>1. index' = index
      BY <1>5 DEF MergePass, storeVars
    <2>2. ASSUME merger'.pc = "dropping", NEW t \in Planned'
          PROVE  index[t].into = 0
      <3>1. \E u \in Members(index) :
               merger' = [IdleMerger EXCEPT
                            !.pc = "dropping",
                            !.gens = [NoPlan EXCEPT ![u] = index[u].man.gen]]
        <4>1. ~(\E waited \in BOOLEAN : PlanMerge(waited))
          BY <2>2 DEF PlanMerge, IdleMerger
        <4>2. merger' # [IdleMerger EXCEPT !.pc = "finalizing"]
          BY <2>2 DEF IdleMerger
        <4>3. QED
          BY <1>5, <4>1, <4>2 DEF MergePass, FinishMerged
      <3>2. PICK u \in Members(index) :
               merger'.gens = [NoPlan EXCEPT ![u] = index[u].man.gen]
        BY <3>1 DEF IdleMerger
      <3>3. t \in Episodes /\ merger'.gens[t] # 0
        BY <2>2 DEF Planned
      <3>4. t = u
        BY <3>2, <3>3 DEF NoPlan
      <3>5. QED
        BY <3>4 DEF Members
    <2>3. merger'.pc = "dropping" => \A t \in Planned' : index[t].into = 0
      BY <2>2
    <2>4. From(index, index')
      BY <2>1, FromSelf
    <2>5. QED
      BY <1>3, <1>4, <2>3, <2>4, WriteKept
  <1>6. CASE MergeBuild \/ MergeDone
    <2>1. index' = index
      BY <1>6 DEF MergeBuild, MergeDone, storeVars
    <2>2. merger'.pc # "dropping"
      <3>1. \/ merger' = IdleMerger
            \/ \E parts, sources, read :
                 merger' = [merger EXCEPT !.pc = "committing", !.parts = parts,
                                          !.sources = sources, !.read = read]
        BY <1>6 DEF MergeBuild, MergeDone
      <3>2. CASE merger' = IdleMerger
        BY <3>2 DEF IdleMerger
      <3>3. ASSUME NEW parts, NEW sources, NEW read,
                   merger' = [merger EXCEPT
                                !.pc = "committing", !.parts = parts,
                                !.sources = sources, !.read = read]
            PROVE  merger'.pc # "dropping"
        BY <1>1, <3>3 DEF MergerState
      <3>4. QED
        BY <3>1, <3>2, <3>3
    <2>3. QED
      BY <1>3, <1>4, <2>1, <2>2, FromSelf, WriteKept
  <1>7. CASE DropStale
    <2>1. merger'.pc # "dropping"
      BY <1>7 DEF DropStale, IdleMerger
    <2>2. \/ index' = index
          \/ \E t \in Planned : index' = DropFinal(index, t)
      BY <1>7 DEF DropStale
    <2>3. \A t \in Planned : t \in Episodes /\ index[t].into = 0
      BY <1>7 DEF DropStale, FrozenInv, Planned
    <2>4. From(index, index')
      BY <1>1, <2>2, <2>3, FromSelf, EditsFrom
    <2>5. QED
      BY <1>3, <1>4, <2>1, <2>4, WriteKept
  <1>8. CASE MergeCommit
    <2> DEFINE man == [gen |-> gen + 1, parts |-> merger.parts]
    <2>1. PICK target \in Episodes :
            /\ IsNewest(target, Planned)
            /\ \/ /\ Recheck(index, merger.gens)
                  /\ index' = Merge(index, target, Planned, man)
               \/ index' = index
      BY <1>8 DEF MergeCommit, storeVars
    <2>2. merger'.pc # "dropping"
      BY <1>8 DEF MergeCommit, IdleMerger
    <2> HIDE DEF man
    <2>3. CASE index' = index
      BY <1>3, <1>4, <2>2, <2>3, FromSelf, WriteKept
    <2>4. CASE /\ Recheck(index, merger.gens)
               /\ index' = Merge(index, target, Planned, man)
      <3>1. target \in Planned
        BY <2>1 DEF IsNewest
      <3>2. \A m \in Planned : m \in Members(index)
                               /\ index[m].status = "ended"
        BY <2>4 DEF Recheck, Planned
      <3>3. Frozen(index', index)
        BY <1>1, <2>4, <3>1, <3>2, MergeFrozen
      <3>4. QED
        BY <1>3, <1>4, <2>2, <3>3, FrozenKept
    <2>5. QED
      BY <2>1, <2>3, <2>4
  <1>9. QED
    BY <1>5, <1>6, <1>7, <1>8 DEF MergerStep

LEMMA InitFrozen == Init => FrozenInv
  <1> SUFFICES ASSUME Init PROVE FrozenInv
    OBVIOUS
  <1>1. \A e \in Episodes : index[e].into = 0
    BY DEF Init, Unlisted
  <1>2. /\ \A w \in Workers : worker[w].snap = EmptyIndex
        /\ tick.fresh = EmptyIndex /\ tick.pc = "idle" /\ merger.pc = "idle"
    BY DEF Init, IdleWorker, IdleTick, IdleMerger
  <1>3. \A j \in Copies : j = EmptyIndex
    BY <1>2 DEF Copies
  <1>4. QED
    BY <1>1, <1>2, <1>3, InitTyped, EmptyFrozen DEF FrozenInv, Frozen

LEMMA FrozenStep ==
    ASSUME FrozenInv, [Next]_vars, [~Reabsorbs]_vars
    PROVE  FrozenInv' /\ Frozen(index', index)
  <1>1. Typed' /\ Typed /\ Frozen(index, index)
    BY TypedStep DEF FrozenInv
  <1>2. CASE UNCHANGED vars
    <2>1. UNCHANGED <<index, worker, tick, merger>>
      BY <1>2 DEF vars, storeVars, actorVars
    <2>2. Frozen(index', index) /\ Copies' = Copies /\ Planned' = Planned
      BY <1>1, <2>1 DEF Copies, Planned
    <2>3. FrozenInv'
      BY <1>1, <2>1, <2>2 DEF FrozenInv
    <2>4. QED
      BY <2>2, <2>3
  <1>3. CASE Next /\ ~Reabsorbs
    <2>1. CASE RunnerCrash \/ MergerCrash
      <3>1. UNCHANGED <<index, worker>>
        BY <2>1 DEF RunnerCrash, MergerCrash, storeVars
      <3>2. \/ UNCHANGED tick
            \/ tick'.fresh = EmptyIndex /\ tick'.pc = "idle"
        BY <2>1 DEF RunnerCrash, MergerCrash, IdleTick
      <3>3. UNCHANGED merger \/ merger'.pc = "idle"
        BY <2>1 DEF RunnerCrash, MergerCrash, IdleMerger
      <3>4. Copies' \subseteq Copies \cup {index, EmptyIndex}
        BY <3>1, <3>2 DEF Copies
      <3>5. tick'.pc = "reopening" => tick'.fresh[tick'.cand].into = 0
        BY <3>2 DEF FrozenInv
      <3>6. QED
        BY <1>1, <1>3, <3>1, <3>3, <3>4, <3>5, FromSelf, WriteKept
    <2>2. QED
      BY <1>1, <1>3, <2>1, WorkerFreezes, TickFreezes, FinFreezes,
         MergerFreezes DEF Next
  <1>4. QED
    BY <1>2, <1>3

\* Nobody ends, reopens, scores or drops the final of an absorbed episode
\* (merge_episodes.py: "never final or status on an absorbed member"), however
\* many workers, ticks and finalizers run and whatever they write back: a
\* stale write may bring an absorbed episode back, but as long as it stays
\* absorbed it stays as it was.  The condition is that an episode brought back
\* so is not absorbed once more while somebody still holds a copy of the index
\* from the first time: the copy could have another final.
THEOREM AbsorbedKept ==
    Spec /\ [][~Reabsorbs]_vars => AbsorbedFrozen
  <1> DEFINE Freezes ==
        \A e \in Episodes :
          index[e].into # 0 /\ index'[e].into # 0
            => /\ index'[e].status = index[e].status
               /\ index'[e].final = index[e].final
  <1>1. FrozenInv /\ [Next]_vars /\ [~Reabsorbs]_vars => FrozenInv'
    BY FrozenStep
  <1>2. FrozenInv /\ [Next]_vars /\ [~Reabsorbs]_vars => Freezes
    <2> SUFFICES ASSUME FrozenInv, [Next]_vars, [~Reabsorbs]_vars
                 PROVE  Freezes
      OBVIOUS
    <2>1. Frozen(index, index) /\ Frozen(index', index)
      BY FrozenStep DEF FrozenInv
    <2>2. QED
      BY <2>1 DEF Frozen
  <1>3. QED
    BY <1>1, <1>2, InitFrozen, PTL DEF Spec, AbsorbedFrozen

-----------------------------------------------------------------------------
(* The files of the episodes. *)

\* What the episodes off X of a list are owed by the manifests man, the stored
\* frames dep and the folders fol.
SoundList(l, man, dep, fol, X) ==
    \A e \in OnList(l) \ X :
        /\ e \in fol
        /\ ~l[e].demoted => man[e] \subseteq dep[e]

\* What an operation under way relies on: the list it read is as sound as the
\* stored one, what it deletes leaves that list, and what it will write has its
\* files, and its rows in the archive, unless its folder was changed meanwhile.
ListSafe(o, man, dep, fol, cro) ==
    /\ o.pc \in {"read", "swept", "sweep", "repair"} =>
          SoundList(o.list, man, dep, fol, cro)
    /\ o.pc = "publish" => SoundList(o.list, man, dep, fol, cro \cup {o.ev})
GoneSafe(o) ==
    o.pc \in {"publish", "sweep"} =>
        /\ o.ev \notin o.purge
        /\ o.ev \in Eps => o.gone[o.ev] \cap (o.local \cup o.frames[o.ev]) = {}
        /\ \A x \in Eps \ {o.ev} :
              /\ x \in o.purge => x \notin OnList(o.list)
              /\ o.gone[x] # {} /\ x \in OnList(o.list) => o.list[x].demoted
FramesSafe(o, man, dep) ==
    /\ o.pc = "publish" /\ o.wholly /\ o.ev \notin o.robbed =>
          o.frames[o.ev] \subseteq o.local \cup dep[o.ev]
    /\ o.pc = "merge" /\ o.ev \notin o.robbed =>
          o.frames[o.ev] \subseteq o.local \cup dep[o.ev]
    /\ o.pc = "repair" =>
          \A x \in Eps : o.plan[x] = 1 /\ x \notin o.robbed =>
              o.frames[x] \subseteq man[x] \cap dep[x]
ArchSafe(o, man, sho) ==
    /\ o.pc \in {"solved", "read", "publish"} => o.local \subseteq o.arch
    /\ o.pc \in {"solved", "read"} /\ o.all
            /\ o.ev \notin o.robbed \cup sho =>
          man[o.ev] \subseteq o.arch
    /\ o.pc = "publish" /\ o.all /\ o.ev \notin o.robbed \cup sho =>
          o.frames[o.ev] \subseteq o.arch
    /\ o.pc = "merge" /\ o.all => o.frames[o.ev] \subseteq o.arch
EvSafe(o) ==
    /\ o.pc \in {"solved", "read", "publish", "merge"} => o.ev \in Eps
    /\ o.pc \in {"idle", "swept", "sweep", "repair"} => o.ev = 0
DemosSafe(o) == \A e \in Demo \ {o.ev} : o.gone[e] = {} /\ e \notin o.purge

OpSafe(o, man, dep, fol, cro, sho) ==
    /\ ListSafe(o, man, dep, fol, cro) /\ GoneSafe(o) /\ FramesSafe(o, man, dep)
    /\ ArchSafe(o, man, sho) /\ EvSafe(o) /\ DemosSafe(o)

OpsSafe ==
    \A p \in Writers : OpSafe(op[p], listing, depth, folders, crossed, short)

FilesInv == /\ FilesTypeOK /\ FramesStored /\ ArchiveSpans /\ OpsSafe
            /\ pins = Demo

LEMMA EmptyType == OffList \in ListEntries /\ EmptyList \in Lists
  <1>1. OffList \in ListEntries
    BY EpisodeFilesAssumption DEF OffList, ListEntries
  <1> QED
    BY <1>1 DEF EmptyList, Lists

LEMMA IdleSafe ==
    ASSUME NEW man, NEW dep, NEW fol, NEW cro, NEW sho
    PROVE  /\ OpSafe(IdleOp, man, dep, fol, cro, sho) /\ IdleOp.pc = "idle"
           /\ FilesTypeOK => IdleOp \in Ops
  <1>1. OpSafe(IdleOp, man, dep, fol, cro, sho)
    <2> 0 \notin Eps /\ Demo \subseteq Eps
      BY EpisodeFilesAssumption
    <2> QED
      BY DEF IdleOp, OpSafe, ListSafe, GoneSafe, FramesSafe, ArchSafe, EvSafe,
             DemosSafe, NoFrames
  <1>2. FilesTypeOK => IdleOp \in Ops
    BY EpisodeFilesAssumption DEF IdleOp, Ops, EmptyList, OffList, Lists,
       ListEntries, NoFrames, NoStamps, FilesTypeOK
  <1> QED
    BY <1>1, <1>2 DEF IdleOp

\* A step that only changes what p is doing.
LEMMA OneOp ==
    ASSUME FilesInv, NEW p \in Writers, NEW o \in Ops,
           op' = [op EXCEPT ![p] = o],
           UNCHANGED <<fileVars, crossed, short>>,
           aged' \in [Eps -> 0..2], stamp' \in 0..MaxStamps,
           misses' \in 0..MaxMisses,
           OpSafe(o, listing, depth, folders, crossed, short)
    PROVE  FilesInv'
  <1>1. FilesTypeOK'
    BY DEF FilesInv, FilesTypeOK, fileVars
  <1>2. FramesStored' /\ ArchiveSpans'
    BY DEF FilesInv, FramesStored, ArchiveSpans, OnList, fileVars
  <1>3. OpsSafe'
    <2> SUFFICES ASSUME NEW q \in Writers
                 PROVE  OpSafe(op'[q], listing', depth', folders', crossed',
                               short')
      BY DEF OpsSafe
    <2>1. op'[q] = IF q = p THEN o ELSE op[q]
      BY DEF FilesInv, FilesTypeOK
    <2>2. OpSafe(op[q], listing, depth, folders, crossed, short)
      BY DEF FilesInv, OpsSafe
    <2> QED
      BY <2>1, <2>2 DEF fileVars
  <1> QED
    BY <1>1, <1>2, <1>3 DEF FilesInv, fileVars

\* A commit of folders X, seen by the other writers: it leaves each of them
\* whole, or marks it; and it tells those who are busy.
LEMMA Bystander ==
    ASSUME NEW o \in Ops, NEW X \in SUBSET Eps,
           OpSafe(o, listing, depth, folders, crossed, short),
           \A e \in Eps \ X : /\ listing'[e] = listing[e]
                              /\ depth'[e] = depth[e]
                              /\ e \in folders => e \in folders'
                              /\ e \in crossed => e \in crossed'
                              /\ e \in short => e \in short',
           \A e \in X : \/ e \in crossed'
                        \/ e \in folders' /\ listing'[e] \subseteq depth'[e]
    PROVE  OpSafe([o EXCEPT !.robbed = @ \cup X],
                  listing', depth', folders', crossed', short')
  <1> DEFINE man == listing
             man2 == listing'
             dep == depth
             dep2 == depth'
             fol == folders
             fol2 == folders'
             cro == crossed
             cro2 == crossed'
             sho == short
             sho2 == short'
  <1>0. /\ OpSafe(o, man, dep, fol, cro, sho)
        /\ \A e \in Eps \ X : /\ man2[e] = man[e] /\ dep2[e] = dep[e]
                              /\ e \in fol => e \in fol2
                              /\ e \in cro => e \in cro2
                              /\ e \in sho => e \in sho2
        /\ \A e \in X : \/ e \in cro2
                        \/ e \in fol2 /\ man2[e] \subseteq dep2[e]
    OBVIOUS
  <1> DEFINE b == [o EXCEPT !.robbed = @ \cup X]
  <1>1. /\ b.pc = o.pc /\ b.ev = o.ev /\ b.list = o.list /\ b.gone = o.gone
        /\ b.purge = o.purge /\ b.local = o.local /\ b.frames = o.frames
        /\ b.arch = o.arch /\ b.all = o.all /\ b.wholly = o.wholly
        /\ b.plan = o.plan /\ b.robbed = o.robbed \cup X
    BY DEF Ops
  <1>2. o.list \in Lists /\ OnList(o.list) \subseteq Eps
    BY DEF Ops, OnList
  <1> HIDE DEF b, man, man2, dep, dep2, fol, fol2, cro, cro2, sho, sho2
  <1>3. ListSafe(b, man2, dep2, fol2, cro2)
    <2>1. ASSUME NEW Y, NEW Z, SoundList(o.list, man, dep, fol, Y),
                 \A e \in Eps \ X : e \in Y => e \in Z,
                 \A e \in X : \/ e \in Z
                              \/ e \in fol2 /\ man2[e] \subseteq dep2[e]
          PROVE  SoundList(o.list, man2, dep2, fol2, Z)
      <3> SUFFICES ASSUME NEW e \in OnList(o.list) \ Z
                   PROVE  /\ e \in fol2
                          /\ ~o.list[e].demoted => man2[e] \subseteq dep2[e]
        BY DEF SoundList
      <3>1. CASE e \in X
        BY <2>1, <3>1
      <3>2. CASE e \notin X
        <4>1. e \in Eps \ X /\ e \notin Y
          BY <2>1, <1>2, <3>2
        <4> QED
          BY <1>0, <2>1, <4>1 DEF SoundList
      <3> QED
        BY <3>1, <3>2
    <2>2. o.pc = "publish" =>
            SoundList(o.list, man2, dep2, fol2, cro2 \cup {o.ev})
      <3> SUFFICES ASSUME o.pc = "publish"
                   PROVE  SoundList(o.list, man2, dep2, fol2, cro2 \cup {o.ev})
        OBVIOUS
      <3>1. SoundList(o.list, man, dep, fol, cro \cup {o.ev})
        BY <1>0 DEF OpSafe, ListSafe
      <3> QED
        BY <1>0, <3>1, <2>1
    <2>3. o.pc \in {"read", "swept", "sweep", "repair"} =>
            SoundList(o.list, man2, dep2, fol2, cro2)
      BY <1>0, <2>1 DEF OpSafe, ListSafe
    <2> QED
      BY <1>1, <2>2, <2>3 DEF ListSafe
  <1>4. GoneSafe(b) /\ EvSafe(b) /\ DemosSafe(b)
    BY <1>0, <1>1 DEF OpSafe, GoneSafe, EvSafe, DemosSafe
  <1>5. FramesSafe(b, man2, dep2)
    BY <1>0, <1>1 DEF OpSafe, FramesSafe, EvSafe
  <1>6. ArchSafe(b, man2, sho2)
    BY <1>0, <1>1 DEF OpSafe, ArchSafe, EvSafe
  <1> QED
    <2>1. OpSafe(b, man2, dep2, fol2, cro2, sho2)
      BY <1>3, <1>4, <1>5, <1>6 DEF OpSafe
    <2> QED
      BY <2>1 DEF b, man2, dep2, fol2, cro2, sho2

\* A commit: what is left to show is about the stored files alone.
LEMMA Committed ==
    ASSUME FilesInv, NEW p \in Writers, NEW X \in SUBSET Eps, Done(p, X),
           list' \in Lists, listing' \in [Eps -> SUBSET Hours],
           depth' \in [Eps -> SUBSET Hours],
           archive' \in [Eps -> SUBSET Hours], folders' \in SUBSET Eps,
           crossed' \in SUBSET Eps, short' \in SUBSET Eps,
           UNCHANGED <<pins, aged, stamp>>, misses' \in 0..MaxMisses,
           FramesStored', ArchiveSpans',
           \A e \in Eps \ X : /\ listing'[e] = listing[e]
                              /\ depth'[e] = depth[e]
                              /\ e \in folders => e \in folders'
                              /\ e \in crossed => e \in crossed'
                              /\ e \in short => e \in short',
           Busy(p) # {} =>
             \A e \in X : \/ e \in crossed'
                          \/ e \in folders' /\ listing'[e] \subseteq depth'[e]
    PROVE  FilesInv'
  <1> DEFINE told(q) == [op[q] EXCEPT !.robbed = @ \cup X]
  <1>1. ASSUME NEW q \in Writers
        PROVE  /\ op'[q] \in Ops
               /\ OpSafe(op'[q], listing', depth', folders', crossed', short')
    <2>0. /\ op[q] \in Ops
          /\ OpSafe(op[q], listing, depth, folders, crossed, short)
      BY DEF FilesInv, FilesTypeOK, OpsSafe
    <2>1. CASE q = p
      BY <2>1, IdleSafe DEF Done, FilesInv
    <2>2. CASE q \in Busy(p)
      <3>1. op'[q] = told(q)
        BY <2>2 DEF Done, Busy
      <3>2. told(q) \in Ops
        BY <2>0 DEF Ops
      <3>3. OpSafe(told(q), listing', depth', folders', crossed', short')
        <4>1. \A e \in X : \/ e \in crossed'
                           \/ e \in folders' /\ listing'[e] \subseteq depth'[e]
          BY <2>2
        <4>2. \A e \in Eps \ X :
                  /\ listing'[e] = listing[e] /\ depth'[e] = depth[e]
                  /\ e \in folders => e \in folders'
                  /\ e \in crossed => e \in crossed'
                  /\ e \in short => e \in short'
          OBVIOUS
        <4> QED
          BY <2>0, <4>1, <4>2, Bystander
      <3> QED
        BY <3>1, <3>2, <3>3
    <2>3. CASE q # p /\ q \notin Busy(p)
      <3>1. op'[q] = op[q] /\ op[q].pc = "idle"
        BY <2>3 DEF Done, Busy
      <3> QED
        BY <3>1, <2>0 DEF OpSafe, ListSafe, GoneSafe, FramesSafe, ArchSafe,
           EvSafe, DemosSafe
    <2> QED
      BY <2>1, <2>2, <2>3
  <1>2. op' \in [Writers -> Ops]
    BY <1>1 DEF Done
  <1>3. FilesTypeOK'
    BY <1>2 DEF FilesInv, FilesTypeOK
  <1> QED
    BY <1>1, <1>3 DEF FilesInv, OpsSafe

\* A failure changes nothing but the count of failures.
LEMMA MissType ==
    ASSUME FilesTypeOK, NEW failed, Miss(failed)
    PROVE  misses' \in 0..MaxMisses
  BY EpisodeFilesAssumption DEF FilesTypeOK, Miss

LEMMA GivenUp ==
    ASSUME FilesInv, NEW p \in Writers, GiveUp(p), misses' \in 0..MaxMisses,
           UNCHANGED <<fileVars, aged, stamp, crossed, short>>
    PROVE  FilesInv'
  <1>1. IdleOp \in Ops
        /\ OpSafe(IdleOp, listing, depth, folders, crossed, short)
    BY IdleSafe DEF FilesInv
  <1>2. aged' \in [Eps -> 0..2] /\ stamp' \in 0..MaxStamps
    BY DEF FilesInv, FilesTypeOK
  <1> QED
    BY <1>1, <1>2, OneOp DEF GiveUp

\* The older rows stay in the archive, and the run's own are in it.
LEMMA SolveSafe ==
    ASSUME FilesInv, NEW p \in Writers, NEW e \in Eps, SolveEpisode(p, e)
    PROVE  FilesInv'
  <1>1. PICK from \in Hours, to \in Hours, fetched \in BOOLEAN :
          /\ Miss(~fetched)
          /\ op' = [op EXCEPT ![p] =
                [IdleOp EXCEPT !.pc = "solved", !.ev = e, !.stamp = stamp + 1,
                               !.local = from..to, !.all = fetched,
                               !.arch = IF fetched
                                        THEN archive[e] \cup (from..to)
                                        ELSE from..to]]
    BY Zenon DEF SolveEpisode
  <1> DEFINE o == op'[p]
  <1>2. from..to \subseteq Hours /\ archive[e] \subseteq Hours
    BY EpisodeFilesAssumption DEF Hours, FilesInv, FilesTypeOK
  <1>3. IdleOp \in Ops /\ stamp + 1 \in 0..MaxStamps
    <2>1. IdleOp \in Ops
      BY IdleSafe DEF FilesInv
    <2>2. stamp \in 0..MaxStamps /\ MaxStamps \in Nat /\ stamp < MaxStamps
      BY EpisodeFilesAssumption DEF FilesInv, FilesTypeOK, SolveEpisode
    <2> QED
      BY <2>1, <2>2
  <1>4. /\ o.pc = "solved" /\ o.ev = e /\ o.local = from..to /\ o.all = fetched
        /\ o.arch = IF fetched THEN archive[e] \cup (from..to) ELSE from..to
        /\ o.gone = NoFrames /\ o.purge = {} /\ o.robbed = {}
    BY <1>1 DEF FilesInv, FilesTypeOK, IdleOp
  <1>5. o \in Ops
    BY <1>1, <1>2, <1>3 DEF FilesInv, FilesTypeOK, Ops
  <1>6. OpSafe(o, listing, depth, folders, crossed, short)
    BY <1>4, EpisodeFilesAssumption
       DEF OpSafe, ListSafe, GoneSafe, FramesSafe, ArchSafe, EvSafe, DemosSafe,
           NoFrames, FilesInv, ArchiveSpans
  <1>7. op' = [op EXCEPT ![p] = o]
    BY <1>1 DEF FilesInv, FilesTypeOK
  <1>8. misses' \in 0..MaxMisses
    BY <1>1, MissType DEF FilesInv
  <1> QED
    BY <1>3, <1>5, <1>6, <1>7, <1>8, OneOp
       DEF SolveEpisode, FilesInv, FilesTypeOK

\* The list that was read is the stored one, or empty: both are sound.
LEMMA ReadSafe ==
    ASSUME FilesInv, NEW p \in Writers, ReadList(p)
    PROVE  FilesInv'
  <1>1. PICK got \in {list, EmptyList} :
          /\ Miss(got # list)
          /\ op' = [op EXCEPT ![p].pc = "read", ![p].list = got]
    BY DEF ReadList
  <1> DEFINE o == [op[p] EXCEPT !.pc = "read", !.list = got]
  <1>2. op[p] \in Ops /\ got \in Lists
    BY EmptyType DEF FilesInv, FilesTypeOK
  <1>3. /\ o \in Ops /\ o.pc = "read" /\ o.ev = op[p].ev /\ o.list = got
        /\ o.gone = op[p].gone /\ o.purge = op[p].purge
        /\ o.local = op[p].local /\ o.all = op[p].all /\ o.arch = op[p].arch
        /\ o.robbed = op[p].robbed
    BY <1>2 DEF Ops
  <1>4. SoundList(got, listing, depth, folders, crossed)
    BY DEF SoundList, FilesInv, FramesStored, EmptyList, OffList, OnList
  <1>5. op' = [op EXCEPT ![p] = o]
    BY <1>1 DEF FilesInv, FilesTypeOK
  <1>6. OpSafe(op[p], listing, depth, folders, crossed, short)
        /\ op[p].pc = "solved"
    BY DEF FilesInv, OpsSafe, ReadList
  <1>7. misses' \in 0..MaxMisses
    BY <1>1, MissType DEF FilesInv
  <1> HIDE DEF o
  <1>8. OpSafe(o, listing, depth, folders, crossed, short)
    BY <1>3, <1>4, <1>6
       DEF OpSafe, ListSafe, GoneSafe, FramesSafe, ArchSafe, EvSafe, DemosSafe
  <1> QED
    BY <1>3, <1>5, <1>7, <1>8, OneOp DEF ReadList, FilesInv, FilesTypeOK

\* The episodes that leave the list, or are demoted, lose files; the frames
\* that are carried forward are stored, unless the store could not be listed:
\* then those of an episode no one crossed are.
LEMMA PrepareSafe ==
    ASSUME FilesInv, NEW p \in Writers, PreparePublish(p)
    PROVE  FilesInv'
  <1> DEFINE o == op[p]
             e == o.ev
             prior == e \in OnList(o.list)
             others == OnList(o.list) \ {e}
  <1>0. /\ o \in Ops /\ o.pc = "read" /\ e \in Eps
        /\ OpSafe(o, listing, depth, folders, crossed, short)
        /\ o.list \in Lists /\ o.stamp \in 0..MaxStamps
        /\ o.local \subseteq Hours
    BY DEF FilesInv, FilesTypeOK, OpsSafe, PreparePublish, OpSafe, EvSafe, Ops
  <1>1. PICK listed \in BOOLEAN, manRead \in BOOLEAN, again \in BOOLEAN,
             known \in BOOLEAN, drop \in SUBSET others,
             demote \in SUBSET others :
        LET frames == NewFrames(o, listed, manRead)
            purge == {d \in drop : aged[d] = 2}
            demoted == IF again THEN demote ELSE {}
            hidden == IF again THEN (drop \ purge) \cup demote ELSE {}
        IN
        /\ Miss(~(listed /\ manRead /\ again))
        /\ ReadPins(known, drop \cup demote)
        /\ drop \cap demote = {} /\ (demote # {} => Demotes)
        /\ op' = [op EXCEPT ![p] =
              [o EXCEPT !.pc = "publish",
                        !.list = NewList(o, drop, demoted),
                        !.frames = [NoFrames EXCEPT ![o.ev] = frames],
                        !.gone = [AnimFiles(hidden) EXCEPT
                                    ![o.ev] = Replaced(o, listed, frames)],
                        !.purge = purge,
                        !.wholly = \/ listed
                                   \/ /\ ~o.list[o.ev].demoted
                                      /\ o.ev \notin crossed]]
    BY Zenon DEF PreparePublish
  <1> DEFINE carried == OlderFrames(o, manRead)
             frames == NewFrames(o, listed, manRead)
             replaced == Replaced(o, listed, frames)
             purge == {d \in drop : aged[d] = 2}
             demoted == IF again THEN demote ELSE {}
             hidden == IF again THEN (drop \ purge) \cup demote ELSE {}
             L == NewList(o, drop, demoted)
             F == [NoFrames EXCEPT ![e] = frames]
             G == [AnimFiles(hidden) EXCEPT ![e] = replaced]
             W == listed \/ (~o.list[e].demoted /\ e \notin crossed)
             n == [o EXCEPT !.pc = "publish", !.list = L, !.frames = F,
                            !.gone = G, !.purge = purge, !.wholly = W]
  <1>2. /\ Miss(~(listed /\ manRead /\ again))
        /\ ReadPins(known, drop \cup demote)
        /\ op' = [op EXCEPT ![p] = n]
    BY <1>1, Zenon
  <1>3. listing[e] \subseteq Hours /\ depth[e] \subseteq Hours
    BY <1>0 DEF FilesInv, FilesTypeOK
  <1>4. drop \subseteq Eps \ {e} /\ demote \subseteq Eps \ {e}
        /\ hidden \subseteq (drop \cup demote) /\ purge \subseteq drop
        /\ hidden \subseteq (drop \ purge) \cup demoted
    BY DEF OnList
  <1>5. /\ carried \subseteq listing[e] /\ (carried # {} => prior)
        /\ frames \subseteq o.local \cup carried
        /\ prior /\ listed => frames \subseteq o.local \cup depth[e]
        /\ replaced \subseteq depth[e]
        /\ replaced \cap (o.local \cup frames) = {}
    BY DEF OlderFrames, NewFrames, Replaced, Serviceable
  <1> HIDE DEF carried, frames, replaced, purge, hidden, demoted
  <1>6. L \in Lists
    <2> SUFFICES ASSUME NEW x \in Eps PROVE L[x] \in ListEntries
      BY DEF Lists, NewList
    <2>1. OffList \in ListEntries /\ o.list[x] \in ListEntries
      BY <1>0, EmptyType DEF Lists
    <2>2. /\ [OffList EXCEPT !.stamp = o.stamp] \in ListEntries
          /\ [o.list[x] EXCEPT !.demoted = TRUE] \in ListEntries
      BY <1>0, <2>1 DEF ListEntries
    <2> QED
      BY <2>1, <2>2 DEF NewList
  <1>7. F \in [Eps -> SUBSET Hours] /\ F[e] = frames
    BY <1>0, <1>3, <1>5 DEF NoFrames
  <1>8. /\ AnimFiles(hidden) \in [Eps -> SUBSET (Hours \cup {ArchiveFile})]
        /\ \A x \in Eps \ hidden : AnimFiles(hidden)[x] = {}
    BY DEF AnimFiles, FilesInv, FilesTypeOK
  <1>9. /\ G \in [Eps -> SUBSET (Hours \cup {ArchiveFile})] /\ G[e] = replaced
        /\ \A x \in Eps \ {e} : G[x] # {} => x \in hidden
    BY <1>0, <1>3, <1>5, <1>8
  <1>10. /\ n \in Ops /\ n.pc = "publish" /\ n.list = L /\ n.frames = F
         /\ n.gone = G /\ n.purge = purge /\ n.wholly = W /\ n.ev = e
         /\ n.local = o.local /\ n.arch = o.arch /\ n.all = o.all
         /\ n.robbed = o.robbed
    <2> HIDE DEF L, F, G, W
    <2>1. W \in BOOLEAN
      BY DEF W
    <2> QED
      BY <1>0, <1>4, <1>6, <1>7, <1>9, <2>1 DEF Ops
  <1>11. \A x \in Eps \ {e} :
           /\ x \in drop => x \notin OnList(L)
           /\ x \in OnList(L) => x \in OnList(o.list)
           /\ x \notin drop => /\ x \in demoted => L[x].demoted
                               /\ L[x].demoted \/ L[x] = o.list[x]
    <2> SUFFICES ASSUME NEW x \in Eps \ {e}
                 PROVE  /\ x \in drop => x \notin OnList(L)
                        /\ x \in OnList(L) => x \in OnList(o.list)
                        /\ x \notin drop =>
                             /\ x \in demoted => L[x].demoted
                             /\ L[x].demoted \/ L[x] = o.list[x]
      OBVIOUS
    <2>1. o.list[x] \in ListEntries
      BY <1>0 DEF Lists
    <2>2. L[x] = IF x \in drop THEN OffList
                 ELSE IF x \in demoted
                      THEN [o.list[x] EXCEPT !.demoted = TRUE]
                 ELSE o.list[x]
      BY DEF NewList
    <2> HIDE DEF L, n
    <2>3. CASE x \in drop
      BY <2>2, <2>3 DEF OnList, OffList
    <2>4. CASE x \notin drop
      BY <2>1, <2>2, <2>4 DEF OnList, ListEntries
    <2> QED
      BY <2>3, <2>4
  <1> HIDE DEF L, F, G, n
  <1>12. OpSafe(n, listing, depth, folders, crossed, short)
    <2>1. ListSafe(n, listing, depth, folders, crossed)
      <3>1. SoundList(o.list, listing, depth, folders, crossed)
        BY <1>0 DEF OpSafe, ListSafe
      <3>2. SoundList(L, listing, depth, folders, crossed \cup {e})
        <4> SUFFICES ASSUME NEW x \in OnList(L) \ (crossed \cup {e})
                     PROVE  /\ x \in folders
                            /\ ~L[x].demoted => listing[x] \subseteq depth[x]
          BY DEF SoundList
        <4>1. x \in Eps \ {e}
          BY DEF OnList
        <4> QED
          BY <1>11, <3>1, <4>1 DEF SoundList
      <3> QED
        BY <1>10, <3>2 DEF ListSafe
    <2>2. GoneSafe(n)
      <3>1. /\ e \notin purge
            /\ G[e] \cap (o.local \cup F[e]) = {}
        BY <1>4, <1>5, <1>7, <1>9
      <3>2. \A x \in Eps \ {e} :
              /\ x \in purge => x \notin OnList(L)
              /\ G[x] # {} /\ x \in OnList(L) => L[x].demoted
        BY <1>4, <1>9, <1>11
      <3> QED
        BY <1>10, <3>1, <3>2 DEF GoneSafe
    <2>3. FramesSafe(n, listing, depth)
      <3> SUFFICES ASSUME W PROVE frames \subseteq o.local \cup depth[e]
        BY <1>7, <1>10 DEF FramesSafe
      <3>1. CASE prior /\ listed
        BY <1>5, <3>1
      <3>2. CASE ~prior
        BY <1>5, <3>2
      <3>3. CASE prior /\ ~listed
        <4>1. listing[e] \subseteq depth[e]
          BY <1>0, <3>3 DEF OpSafe, ListSafe, SoundList
        <4> QED
          BY <1>5, <4>1
      <3> QED
        BY <3>1, <3>2, <3>3
    <2>4. ArchSafe(n, listing, short)
      BY <1>0, <1>5, <1>7, <1>10 DEF OpSafe, ArchSafe
    <2>5. EvSafe(n)
      BY <1>0, <1>10 DEF EvSafe
    <2>6. DemosSafe(n)
      BY <1>2, <1>4, <1>9, <1>10, EpisodeFilesAssumption
         DEF DemosSafe, ReadPins, FilesInv
    <2> QED
      BY <2>1, <2>2, <2>3, <2>4, <2>5, <2>6 DEF OpSafe
  <1>13. misses' \in 0..MaxMisses
    BY <1>2, MissType DEF FilesInv
  <1>14. UNCHANGED <<fileVars, aged, stamp, crossed, short>>
    BY Zenon DEF PreparePublish
  <1>15. aged' \in [Eps -> 0..2] /\ stamp' \in 0..MaxStamps
    BY <1>14 DEF FilesInv, FilesTypeOK
  <1> QED
    BY <1>2, <1>10, <1>12, <1>13, <1>14, <1>15, OneOp

\* What a commit deletes: nothing off the folders it hides.
LEMMA Lessened ==
    ASSUME FilesTypeOK, NEW o \in Ops
    PROVE  /\ DepthLess(o) \in [Eps -> SUBSET Hours]
           /\ ArchiveLess(o) \in [Eps -> SUBSET Hours]
           /\ ListingLess(o) \in [Eps -> SUBSET Hours]
           /\ \A x \in Eps :
                 /\ DepthLess(o)[x] \subseteq depth[x]
                 /\ o.ev = x /\ x \notin o.purge =>
                       DepthLess(o)[x] = depth[x] \ o.gone[x]
                 /\ x \notin Removed(o.gone) \cup o.purge =>
                       /\ DepthLess(o)[x] = depth[x]
                       /\ ArchiveLess(o)[x] = archive[x]
                       /\ ListingLess(o)[x] = listing[x]
                 /\ x \notin o.purge => ListingLess(o)[x] = listing[x]
  <1>1. /\ depth \in [Eps -> SUBSET Hours] /\ archive \in [Eps -> SUBSET Hours]
        /\ listing \in [Eps -> SUBSET Hours]
        /\ o.gone \in [Eps -> SUBSET (Hours \cup {ArchiveFile})]
    BY DEF FilesTypeOK, Ops
  <1> QED
    BY <1>1 DEF DepthLess, ArchiveLess, ListingLess, Removed

\* A commit against the list that was read: an episode it neither hides nor
\* writes is as it was, one it hides is off that list or demoted.
LEMMA ListKept ==
    ASSUME FilesInv, NEW o \in Ops, o.pc \in {"publish", "sweep"},
           OpSafe(o, listing, depth, folders, crossed, short),
           NEW Z, crossed \subseteq Z, NEW man2, NEW dep2,
           NEW fol2, folders \ o.purge \subseteq fol2,
           \A x \in Eps \ {o.ev} : man2[x] = ListingLess(o)[x]
                                  /\ dep2[x] = DepthLess(o)[x]
    PROVE  SoundList(o.list, man2, dep2, fol2, Z \cup {o.ev})
  <1>1. SoundList(o.list, listing, depth, folders, crossed \cup {o.ev})
    BY DEF OpSafe, ListSafe, SoundList
  <1> SUFFICES ASSUME NEW x \in OnList(o.list) \ (Z \cup {o.ev})
               PROVE  /\ x \in fol2
                      /\ ~o.list[x].demoted => man2[x] \subseteq dep2[x]
    BY DEF SoundList
  <1>2. x \in Eps \ {o.ev} /\ x \notin o.purge
        /\ (o.gone[x] # {} => o.list[x].demoted)
    BY DEF OnList, OpSafe, GoneSafe
  <1>3. x \in folders /\ (~o.list[x].demoted => listing[x] \subseteq depth[x])
    BY <1>1 DEF SoundList
  <1>4. o.gone[x] = {} => x \notin Removed(o.gone) \cup o.purge
    BY <1>2 DEF Removed
  <1> QED
    BY <1>2, <1>3, <1>4, Lessened DEF FilesInv

\* A publish: the episode is marked unless its frames are stored.
LEMMA PublishFilesSafe ==
    ASSUME FilesInv, NEW p \in Writers, PublishFiles(p)
    PROVE  FilesInv'
  <1> DEFINE o == op[p]
             e == o.ev
             fresh == o.frames[e] \subseteq o.local
             hidden == (Removed(o.gone) \ {e}) \cup o.purge
  <1>0. /\ o \in Ops /\ o.pc = "publish" /\ e \in Eps
        /\ OpSafe(o, listing, depth, folders, crossed, short)
        /\ UNCHANGED <<aged, stamp>>
    BY DEF FilesInv, FilesTypeOK, OpsSafe, PublishFiles, OpSafe, EvSafe
  <1>1. CASE /\ Miss(FALSE) /\ Done(p, {e} \cup hidden)
             /\ UNCHANGED pins
             /\ list' = o.list
             /\ listing' = [ListingLess(o) EXCEPT ![e] = o.frames[e]]
             /\ depth' = [DepthLess(o) EXCEPT ![e] = @ \cup o.local]
             /\ archive' = [ArchiveLess(o) EXCEPT ![e] = o.arch]
             /\ folders' = (folders \ o.purge) \cup {e}
             /\ crossed' = (IF fresh \/ (o.wholly /\ e \notin o.robbed)
                            THEN crossed \ {e} ELSE crossed \cup {e})
                           \cup IF Busy(p) = {} THEN {} ELSE hidden
             /\ short' = hidden \cup IF fresh THEN short \ {e}
                          ELSE IF o.all /\ e \notin o.robbed THEN short
                          ELSE short \cup {e}
    <2>1. /\ o.frames \in [Eps -> SUBSET Hours] /\ o.local \subseteq Hours
          /\ o.arch \subseteq Hours /\ o.list \in Lists /\ o.purge \subseteq Eps
          /\ o.gone \in [Eps -> SUBSET (Hours \cup {ArchiveFile})]
      BY <1>0 DEF Ops
    <2>2. e \notin o.purge /\ o.gone[e] \cap (o.local \cup o.frames[e]) = {}
      BY <1>0 DEF OpSafe, GoneSafe
    <2>3. hidden \subseteq Eps \ {e}
      BY <2>1, <2>2 DEF Removed
    <2>4. /\ listing'[e] = o.frames[e] /\ archive'[e] = o.arch
          /\ depth'[e] = (depth[e] \ o.gone[e]) \cup o.local
          /\ \A x \in Eps \ {e} : /\ listing'[x] = ListingLess(o)[x]
                                  /\ depth'[x] = DepthLess(o)[x]
                                  /\ archive'[x] = ArchiveLess(o)[x]
      BY <1>0, <1>1, <2>2, Lessened DEF FilesInv
    <2>5. e \in crossed' \/ listing'[e] \subseteq depth'[e]
      <3>1. CASE fresh
        BY <2>4, <3>1
      <3>2. CASE ~fresh /\ o.wholly /\ e \notin o.robbed
        BY <1>0, <2>2, <2>4, <3>2 DEF OpSafe, FramesSafe
      <3> QED
        BY <1>1, <3>1, <3>2
    <2> HIDE DEF hidden, fresh
    <2>6. FramesStored'
      <3>1. SoundList(o.list, listing', depth', folders',
                      (crossed \cup crossed') \cup {e})
        BY <1>0, <1>1, <2>4, ListKept
      <3> QED
        BY <1>1, <2>5, <3>1 DEF FramesStored, SoundList, OnList
    <2>7. \A x \in (Eps \ {e}) \ hidden :
             /\ listing'[x] = listing[x] /\ depth'[x] = depth[x]
             /\ archive'[x] = archive[x]
      <3> SUFFICES ASSUME NEW x \in (Eps \ {e}) \ hidden
                   PROVE  /\ listing'[x] = listing[x] /\ depth'[x] = depth[x]
                          /\ archive'[x] = archive[x]
        OBVIOUS
      <3>1. x \notin Removed(o.gone) \cup o.purge
        BY DEF hidden
      <3> QED
        BY <1>0, <2>4, <3>1, Lessened DEF FilesInv
    <2>8. ArchiveSpans'
      <3> SUFFICES ASSUME NEW x \in Eps \ short'
                   PROVE  listing'[x] \subseteq archive'[x]
        BY DEF ArchiveSpans
      <3>1. CASE x = e
        <4>1. fresh \/ (o.all /\ e \notin o.robbed \cup short)
          BY <1>1, <3>1
        <4>2. o.frames[e] \subseteq o.arch
          BY <1>0, <4>1 DEF OpSafe, ArchSafe, fresh
        <4> QED
          BY <2>4, <3>1, <4>2
      <3>2. CASE x # e
        <4>1. x \notin hidden /\ x \notin short
          BY <1>1, <3>2
        <4> QED
          BY <2>7, <3>2, <4>1 DEF FilesInv, ArchiveSpans
      <3> QED
        BY <3>1, <3>2
    <2>9. misses' \in 0..MaxMisses
      BY <1>1, MissType DEF FilesInv
    <2>10. /\ list' \in Lists /\ listing' \in [Eps -> SUBSET Hours]
           /\ depth' \in [Eps -> SUBSET Hours]
           /\ archive' \in [Eps -> SUBSET Hours] /\ folders' \in SUBSET Eps
           /\ crossed' \in SUBSET Eps /\ short' \in SUBSET Eps
      <3>1. /\ ListingLess(o) \in [Eps -> SUBSET Hours]
            /\ DepthLess(o) \in [Eps -> SUBSET Hours]
            /\ ArchiveLess(o) \in [Eps -> SUBSET Hours]
            /\ folders \subseteq Eps /\ crossed \subseteq Eps
            /\ short \subseteq Eps
        BY <1>0, Lessened DEF FilesInv, FilesTypeOK
      <3> QED
        BY <1>0, <1>1, <2>1, <2>3, <3>1
    <2>11. \A x \in Eps \ ({e} \cup hidden) :
              /\ listing'[x] = listing[x] /\ depth'[x] = depth[x]
              /\ x \in folders => x \in folders'
              /\ x \in crossed => x \in crossed'
              /\ x \in short => x \in short'
      <3>1. o.purge \subseteq hidden
        BY DEF hidden
      <3> QED
        BY <1>1, <2>7, <3>1
    <2>12. Busy(p) # {} =>
             \A x \in {e} \cup hidden :
                \/ x \in crossed'
                \/ x \in folders' /\ listing'[x] \subseteq depth'[x]
      BY <1>1, <2>5
    <2> QED
      BY <1>0, <1>1, <2>3, <2>6, <2>8, <2>9, <2>10, <2>11, <2>12, Committed
  <1>2. CASE /\ Miss(TRUE) /\ GiveUp(p)
             /\ UNCHANGED <<fileVars, crossed, short>>
    <2>1. misses' \in 0..MaxMisses
      BY <1>2, MissType DEF FilesInv
    <2> QED
      BY <1>0, <1>2, <2>1, GivenUp
  <1> QED
    BY <1>1, <1>2, Zenon DEF PublishFiles

\* A sweep, or a drop: marked, unless nobody else is at work and the list
\* that is written lets go of what it deletes.
LEMMA SweepSafe ==
    ASSUME FilesInv, NEW p \in Writers, SweepEnd(p)
    PROVE  FilesInv'
  <1> DEFINE o == op[p]
             hidden == Removed(o.gone) \cup o.purge
  <1>0. /\ o \in Ops /\ o.pc = "sweep" /\ o.ev = 0
        /\ OpSafe(o, listing, depth, folders, crossed, short)
        /\ UNCHANGED <<aged, stamp>>
    BY DEF FilesInv, FilesTypeOK, OpsSafe, SweepEnd, OpSafe, EvSafe
  <1>1. CASE /\ Miss(FALSE) /\ Done(p, hidden)
             /\ UNCHANGED pins
             /\ list' = IF o.relist THEN o.list ELSE list
             /\ listing' = ListingLess(o) /\ depth' = DepthLess(o)
             /\ archive' = ArchiveLess(o) /\ folders' = folders \ o.purge
             /\ crossed' = crossed \cup
                   IF o.relist /\ Busy(p) = {} THEN {} ELSE hidden
             /\ short' = short \cup hidden
    <2>1. o.list \in Lists /\ o.purge \subseteq Eps /\ hidden \subseteq Eps
      BY <1>0 DEF Ops, Removed
    <2>2. \A x \in Eps \ hidden :
             /\ listing'[x] = listing[x] /\ depth'[x] = depth[x]
             /\ archive'[x] = archive[x]
      BY <1>0, <1>1, Lessened DEF FilesInv
    <2>3. o.purge \subseteq hidden
      OBVIOUS
    <2> HIDE DEF hidden
    <2>4. FramesStored'
      <3>1. CASE o.relist
        <4>1. SoundList(o.list, listing', depth', folders',
                        crossed' \cup {o.ev})
          BY <1>0, <1>1, ListKept
        <4>2. 0 \notin Eps
          BY EpisodeFilesAssumption
        <4> QED
          BY <1>0, <1>1, <3>1, <4>1, <4>2 DEF FramesStored, SoundList, OnList
      <3>2. CASE ~o.relist
        BY <1>1, <2>1, <2>2, <2>3, <3>2 DEF FilesInv, FramesStored, OnList
      <3> QED
        BY <3>1, <3>2
    <2>5. ArchiveSpans'
      BY <1>1, <2>2 DEF FilesInv, ArchiveSpans
    <2>6. misses' \in 0..MaxMisses
      BY <1>1, MissType DEF FilesInv
    <2>7. /\ list' \in Lists /\ listing' \in [Eps -> SUBSET Hours]
          /\ depth' \in [Eps -> SUBSET Hours]
          /\ archive' \in [Eps -> SUBSET Hours] /\ folders' \in SUBSET Eps
          /\ crossed' \in SUBSET Eps /\ short' \in SUBSET Eps
      BY <1>0, <1>1, <2>1, Lessened DEF FilesInv, FilesTypeOK
    <2> QED
      BY <1>0, <1>1, <2>1, <2>2, <2>3, <2>4, <2>5, <2>6, <2>7, Committed
  <1>2. CASE /\ Miss(TRUE) /\ GiveUp(p)
             /\ UNCHANGED <<fileVars, crossed, short>>
    <2>1. misses' \in 0..MaxMisses
      BY <1>2, MissType DEF FilesInv
    <2> QED
      BY <1>0, <1>2, <2>1, GivenUp
  <1> QED
    BY <1>1, <1>2, Zenon DEF SweepEnd

\* A repair lists what is stored, of the manifests nobody changed meanwhile.
LEMMA RepairSafe ==
    ASSUME FilesInv, NEW p \in Writers, RepairEnd(p)
    PROVE  FilesInv'
  <1> DEFINE o == op[p]
             torn == {e \in Eps : o.plan[e] = 1}
  <1>0. /\ o \in Ops /\ o.pc = "repair"
        /\ OpSafe(o, listing, depth, folders, crossed, short)
        /\ UNCHANGED <<aged, stamp>>
    BY DEF FilesInv, FilesTypeOK, OpsSafe, RepairEnd
  <1>1. CASE /\ Miss(FALSE) /\ Done(p, torn)
             /\ list' = o.list
             /\ listing' = [x \in Eps |-> IF x \in torn THEN o.frames[x]
                                          ELSE listing[x]]
             /\ folders' = folders \cup torn
             /\ crossed' = (crossed \ torn) \cup (torn \cap o.robbed)
             /\ short' = short \cup (torn \cap o.robbed)
             /\ UNCHANGED <<depth, archive, pins>>
    <2>1. o.list \in Lists /\ o.frames \in [Eps -> SUBSET Hours]
      BY <1>0 DEF Ops
    <2>2. \A x \in torn \ o.robbed :
             o.frames[x] \subseteq listing[x] \cap depth[x]
      BY <1>0 DEF OpSafe, FramesSafe
    <2>3. torn \subseteq Eps
      OBVIOUS
    <2> HIDE DEF torn
    <2>4. SoundList(o.list, listing, depth, folders, crossed)
      BY <1>0 DEF OpSafe, ListSafe
    <2>5. FramesStored'
      BY <1>1, <2>2, <2>4 DEF FramesStored, SoundList, OnList
    <2>6. ArchiveSpans'
      BY <1>1, <2>2 DEF FilesInv, ArchiveSpans
    <2>7. misses' \in 0..MaxMisses
      BY <1>1, MissType DEF FilesInv
    <2>8. /\ list' \in Lists /\ listing' \in [Eps -> SUBSET Hours]
          /\ depth' \in [Eps -> SUBSET Hours]
          /\ archive' \in [Eps -> SUBSET Hours] /\ folders' \in SUBSET Eps
          /\ crossed' \in SUBSET Eps /\ short' \in SUBSET Eps
      BY <1>0, <1>1, <2>1, <2>3 DEF FilesInv, FilesTypeOK
    <2>9. \A x \in torn :
             \/ x \in crossed'
             \/ x \in folders' /\ listing'[x] \subseteq depth'[x]
      <3> SUFFICES ASSUME NEW x \in torn, x \notin o.robbed
                   PROVE  x \in folders' /\ listing'[x] \subseteq depth'[x]
        BY <1>1
      <3>1. listing'[x] = o.frames[x] /\ depth'[x] = depth[x]
        BY <1>1, <2>3
      <3> QED
        BY <1>1, <2>2, <3>1
    <2>10. \A x \in Eps \ torn :
             /\ listing'[x] = listing[x] /\ depth'[x] = depth[x]
             /\ x \in folders => x \in folders'
             /\ x \in crossed => x \in crossed'
             /\ x \in short => x \in short'
      BY <1>1
    <2> QED
      BY <1>0, <1>1, <2>3, <2>5, <2>6, <2>7, <2>8, <2>9, <2>10, Committed
  <1>2. CASE /\ Miss(TRUE) /\ GiveUp(p)
             /\ UNCHANGED <<fileVars, crossed, short>>
    <2>1. misses' \in 0..MaxMisses
      BY <1>2, MissType DEF FilesInv
    <2> QED
      BY <1>0, <1>2, <2>1, GivenUp
  <1> QED
    BY <1>1, <1>2, Zenon DEF RepairEnd

\* A merge: its target has its own frames, and those that were copied.
LEMMA MergeSafe ==
    ASSUME FilesInv, NEW p \in Writers, MergeFiles(p)
    PROVE  FilesInv'
  <1> DEFINE o == op[p]
             t == o.ev
             M == {m \in Eps : o.plan[m] # 0}
             current == /\ \A m \in M :
                              list[m].stamp = o.plan[m] /\ ~list[m].into
                        /\ \A h \in o.local :
                              \E m \in M \ {t} : h \in depth[m]
  <1>0. /\ o \in Ops /\ o.pc = "merge" /\ t \in Eps
        /\ OpSafe(o, listing, depth, folders, crossed, short)
        /\ UNCHANGED <<aged, stamp>>
    BY DEF FilesInv, FilesTypeOK, OpsSafe, MergeFiles, OpSafe, EvSafe
  <1>1. CASE /\ current /\ Miss(FALSE) /\ Done(p, {t})
             /\ UNCHANGED pins
             /\ list' = [x \in Eps |->
                           IF x = t THEN [list[x] EXCEPT !.stamp = o.stamp]
                           ELSE IF x \in M THEN [list[x] EXCEPT !.into = TRUE]
                           ELSE list[x]]
             /\ listing' = [listing EXCEPT ![t] = o.frames[t]]
             /\ depth' = [depth EXCEPT ![t] = @ \cup o.local]
             /\ archive' = [archive EXCEPT ![t] = o.arch]
             /\ folders' = folders \cup {t}
             /\ crossed' = (crossed \ {t}) \cup ({t} \cap o.robbed)
             /\ short' = IF o.all THEN short \ {t} ELSE short \cup {t}
    <2>1. /\ o.frames \in [Eps -> SUBSET Hours] /\ o.local \subseteq Hours
          /\ o.arch \subseteq Hours /\ o.stamp \in 0..MaxStamps
      BY <1>0 DEF Ops
    <2>2. /\ list \in Lists /\ listing \in [Eps -> SUBSET Hours]
          /\ depth \in [Eps -> SUBSET Hours]
          /\ archive \in [Eps -> SUBSET Hours] /\ folders \subseteq Eps
          /\ crossed \subseteq Eps /\ short \subseteq Eps
      BY DEF FilesInv, FilesTypeOK
    <2>3. /\ t \notin o.robbed => o.frames[t] \subseteq o.local \cup depth[t]
          /\ o.all => o.frames[t] \subseteq o.arch
      BY <1>0 DEF OpSafe, FramesSafe, ArchSafe
    <2>4. \A x \in Eps :
            /\ list'[x] \in ListEntries /\ list'[x].demoted = list[x].demoted
            /\ x # t => list'[x].stamp = list[x].stamp
      BY <1>0, <1>1, <2>1, <2>2 DEF Lists, ListEntries
    <2>5. t \in crossed' \/ (t \in folders' /\ listing'[t] \subseteq depth'[t])
      BY <1>0, <1>1, <2>2, <2>3
    <2>6. \A x \in Eps \ {t} :
            /\ listing'[x] = listing[x] /\ depth'[x] = depth[x]
            /\ archive'[x] = archive[x]
            /\ x \in folders => x \in folders'
            /\ x \in crossed <=> x \in crossed'
            /\ x \in short <=> x \in short'
      BY <1>0, <1>1, <2>2
    <2>7. FramesStored'
      <3> SUFFICES ASSUME NEW x \in Eps, list'[x].stamp # 0, x \notin crossed'
                   PROVE  /\ x \in folders'
                          /\ ~list'[x].demoted =>
                                listing'[x] \subseteq depth'[x]
        BY DEF FramesStored, OnList
      <3>1. CASE x = t
        BY <2>5, <3>1
      <3>2. CASE x # t
        BY <2>4, <2>6, <3>2 DEF FilesInv, FramesStored, OnList
      <3> QED
        BY <3>1, <3>2
    <2>8. ArchiveSpans'
      <3> SUFFICES ASSUME NEW x \in Eps, x \notin short'
                   PROVE  listing'[x] \subseteq archive'[x]
        BY DEF ArchiveSpans
      <3>1. CASE x = t
        BY <1>0, <1>1, <2>2, <2>3, <3>1
      <3>2. CASE x # t
        BY <2>6, <3>2 DEF FilesInv, ArchiveSpans
      <3> QED
        BY <3>1, <3>2
    <2>9. misses' \in 0..MaxMisses
      BY <1>1, MissType DEF FilesInv
    <2>10. /\ list' \in Lists /\ listing' \in [Eps -> SUBSET Hours]
           /\ depth' \in [Eps -> SUBSET Hours]
           /\ archive' \in [Eps -> SUBSET Hours] /\ folders' \in SUBSET Eps
           /\ crossed' \in SUBSET Eps /\ short' \in SUBSET Eps
      BY <1>0, <1>1, <2>1, <2>2, <2>4 DEF Lists
    <2> QED
      BY <1>0, <1>1, <2>5, <2>6, <2>7, <2>8, <2>9, <2>10, Committed
  <1>2. CASE /\ Miss(current) /\ GiveUp(p)
             /\ UNCHANGED <<fileVars, crossed, short>>
    <2>1. misses' \in 0..MaxMisses
      BY <1>2, MissType DEF FilesInv
    <2> QED
      BY <1>0, <1>2, <2>1, GivenUp
  <1> QED
    BY <1>1, <1>2, Zenon DEF MergeFiles

\* The list that was read, the stored one or an empty one, is a sound one.
LEMMA GotSound ==
    ASSUME FilesInv, NEW got \in {list, EmptyList}
    PROVE  got \in Lists /\ SoundList(got, listing, depth, folders, crossed)
  <1>1. got \in Lists
    BY EmptyType DEF FilesInv, FilesTypeOK
  <1>2. SoundList(got, listing, depth, folders, crossed)
    BY DEF SoundList, FilesInv, FramesStored, EmptyList, OffList, OnList
  <1> QED
    BY <1>1, <1>2

LEMMA SweepBeginSafe ==
    ASSUME FilesInv, NEW p \in Writers, SweepBegin(p)
    PROVE  FilesInv'
  <1>1. PICK got \in {list, EmptyList} :
          /\ Miss(got # list)
          /\ op' = [op EXCEPT ![p] =
                [IdleOp EXCEPT !.pc = "swept", !.list = got]]
    BY DEF SweepBegin
  <1> DEFINE n == [IdleOp EXCEPT !.pc = "swept", !.list = got]
  <1>2. IdleOp \in Ops /\ got \in Lists
        /\ SoundList(got, listing, depth, folders, crossed)
    BY IdleSafe, GotSound DEF FilesInv
  <1>3. n \in Ops
    BY <1>2 DEF Ops
  <1>4. /\ n.pc = "swept" /\ n.ev = 0 /\ n.list = got /\ n.gone = NoFrames
        /\ n.purge = {}
    BY DEF IdleOp
  <1> HIDE DEF n
  <1>5. OpSafe(n, listing, depth, folders, crossed, short)
    BY <1>2, <1>4, EpisodeFilesAssumption
       DEF OpSafe, ListSafe, GoneSafe, FramesSafe, ArchSafe, EvSafe, DemosSafe,
           NoFrames
  <1>6. misses' \in 0..MaxMisses
    BY <1>1, MissType DEF FilesInv
  <1> QED
    BY <1>1, <1>3, <1>5, <1>6, OneOp DEF SweepBegin, FilesInv, FilesTypeOK, n

\* The episodes that leave the list lose their animations, and those that are
\* off it lose theirs, or everything; the demo events neither.
LEMMA SweepFilesSafe ==
    ASSUME FilesInv, NEW p \in Writers, SweepFiles(p)
    PROVE  FilesInv'
  <1> DEFINE o == op[p]
  <1>0. /\ o \in Ops /\ o.pc = "swept" /\ o.ev = 0 /\ o.list \in Lists
        /\ OpSafe(o, listing, depth, folders, crossed, short)
        /\ UNCHANGED <<fileVars, aged, stamp, crossed, short>>
    BY DEF FilesInv, FilesTypeOK, OpsSafe, SweepFiles, OpSafe, EvSafe, Ops
  <1>1. PICK leave \in SUBSET {e \in OnList(o.list) \ pins :
                                AgesOut /\ aged[e] > 0}, listed \in BOOLEAN :
        LET orphans == IF listed THEN FileOrphans(o.list, leave) ELSE {}
            purge == {e \in orphans : aged[e] = 2}
            gone == IF listed THEN AnimFiles(leave \cup (orphans \ purge))
                    ELSE NoFrames
        IN
        /\ Miss(~listed)
        /\ IF \/ o.list = EmptyList /\ listed /\ folders # {}
              \/ gone = NoFrames /\ purge = {}
           THEN GiveUp(p)
           ELSE op' = [op EXCEPT ![p] =
                  [o EXCEPT !.pc = "sweep", !.gone = gone, !.purge = purge,
                            !.list = [x \in Eps |-> IF x \in leave THEN OffList
                                                    ELSE o.list[x]]]]
    BY <1>0, Zenon DEF SweepFiles
  <1> DEFINE orphans == IF listed THEN FileOrphans(o.list, leave) ELSE {}
             purge == {e \in orphans : aged[e] = 2}
             gone == IF listed THEN AnimFiles(leave \cup (orphans \ purge))
                     ELSE NoFrames
             L == [x \in Eps |-> IF x \in leave THEN OffList ELSE o.list[x]]
             n == [o EXCEPT !.pc = "sweep", !.gone = gone, !.purge = purge,
                            !.list = L]
  <1>2. misses' \in 0..MaxMisses /\ (GiveUp(p) \/ op' = [op EXCEPT ![p] = n])
    <2>1. Miss(~listed)
      BY <1>1
    <2>2. GiveUp(p) \/ op' = [op EXCEPT ![p] = n]
      BY <1>1
    <2> QED
      BY <2>1, <2>2, MissType DEF FilesInv
  <1>3. /\ orphans \subseteq (Eps \ Demo) /\ orphans \cap OnList(o.list) = {}
        /\ purge \subseteq orphans
        /\ leave \subseteq Eps \ Demo /\ leave \subseteq OnList(o.list)
    BY DEF FileOrphans, FilesInv, FilesTypeOK, OnList
  <1> HIDE DEF orphans, purge
  <1>4. gone \in [Eps -> SUBSET (Hours \cup {ArchiveFile})]
        /\ \A x \in Eps : gone[x] # {} => x \in leave \cup (orphans \ purge)
    BY DEF AnimFiles, FilesInv, FilesTypeOK, NoFrames
  <1> HIDE DEF gone
  <1>5. L \in Lists /\ OnList(L) = OnList(o.list) \ leave
        /\ \A x \in OnList(L) : L[x] = o.list[x]
    <2>1. OffList \in ListEntries
      BY EmptyType
    <2> QED
      BY <1>0, <1>3, <2>1 DEF Lists, OnList, OffList
  <1> HIDE DEF L
  <1>6. /\ n \in Ops /\ n.pc = "sweep" /\ n.ev = 0 /\ n.list = L
        /\ n.gone = gone /\ n.purge = purge
    BY <1>0, <1>3, <1>4, <1>5 DEF Ops
  <1> HIDE DEF n
  <1>7. OpSafe(n, listing, depth, folders, crossed, short)
    <2>1. SoundList(L, listing, depth, folders, crossed)
      BY <1>0, <1>5 DEF OpSafe, ListSafe, SoundList
    <2>2. 0 \notin Eps /\ Demo \subseteq Eps
      BY EpisodeFilesAssumption
    <2>3. GoneSafe(n)
      BY <1>3, <1>4, <1>5, <1>6, <2>2 DEF GoneSafe, OnList
    <2>4. DemosSafe(n)
      BY <1>3, <1>4, <1>6, <2>2 DEF DemosSafe
    <2> QED
      BY <1>6, <2>1, <2>3, <2>4
         DEF OpSafe, ListSafe, FramesSafe, ArchSafe, EvSafe
  <1>8. CASE GiveUp(p)
    BY <1>0, <1>2, <1>8, GivenUp
  <1>9. CASE op' = [op EXCEPT ![p] = n]
    BY <1>0, <1>2, <1>6, <1>7, <1>9, OneOp DEF FilesInv, FilesTypeOK
  <1> QED
    BY <1>2, <1>8, <1>9

LEMMA DropSafe ==
    ASSUME FilesInv, NEW p \in Writers, DropEvents(p)
    PROVE  FilesInv'
  <1>1. PICK got \in {list, EmptyList}, listed \in BOOLEAN,
             ids \in SUBSET (Eps \ pins) \ {{}} :
        LET purge == IF listed THEN ids \cap folders ELSE {}
            relist == ids \cap OnList(got) # {}
        IN
        /\ Miss(got # list \/ ~listed) /\ (relist \/ purge # {})
        /\ op' = [op EXCEPT ![p] =
              [IdleOp EXCEPT !.pc = "sweep", !.relist = relist, !.purge = purge,
                             !.list = [x \in Eps |-> IF x \in ids THEN OffList
                                                     ELSE got[x]]]]
    BY Zenon DEF DropEvents
  <1> DEFINE purge == IF listed THEN ids \cap folders ELSE {}
             relist == ids \cap OnList(got) # {}
             L == [x \in Eps |-> IF x \in ids THEN OffList ELSE got[x]]
             n == [IdleOp EXCEPT !.pc = "sweep", !.relist = relist,
                                 !.purge = purge, !.list = L]
  <1>2. Miss(got # list \/ ~listed) /\ op' = [op EXCEPT ![p] = n]
    BY <1>1
  <1>3. IdleOp \in Ops /\ got \in Lists
        /\ SoundList(got, listing, depth, folders, crossed)
    BY IdleSafe, GotSound DEF FilesInv
  <1>4. purge \subseteq ids /\ purge \subseteq Eps \ Demo /\ relist \in BOOLEAN
    BY DEF FilesInv
  <1>5. L \in Lists /\ OnList(L) = OnList(got) \ ids
        /\ \A x \in OnList(L) : L[x] = got[x]
    <2>1. OffList \in ListEntries
      BY EmptyType
    <2> QED
      BY <1>3, <2>1 DEF Lists, OnList, OffList
  <1> HIDE DEF purge, relist, L
  <1>6. n \in Ops
    BY <1>3, <1>4, <1>5 DEF Ops
  <1>7. /\ n.pc = "sweep" /\ n.ev = 0 /\ n.list = L /\ n.gone = NoFrames
        /\ n.purge = purge
    BY DEF IdleOp
  <1> HIDE DEF n
  <1>8. OpSafe(n, listing, depth, folders, crossed, short)
    <2>1. SoundList(L, listing, depth, folders, crossed)
      BY <1>3, <1>5 DEF SoundList
    <2>2. 0 \notin Eps /\ Demo \subseteq Eps
      BY EpisodeFilesAssumption
    <2> QED
      BY <1>4, <1>5, <1>7, <2>1, <2>2
         DEF OpSafe, ListSafe, GoneSafe, FramesSafe, ArchSafe, EvSafe,
             DemosSafe, NoFrames
  <1>9. misses' \in 0..MaxMisses
    BY <1>2, MissType DEF FilesInv
  <1>10. UNCHANGED <<fileVars, aged, stamp, crossed, short>>
    BY Zenon DEF DropEvents
  <1> QED
    BY <1>2, <1>6, <1>8, <1>9, <1>10, OneOp DEF FilesInv, FilesTypeOK

LEMMA RepairBeginSafe ==
    ASSUME FilesInv, NEW p \in Writers, RepairBegin(p)
    PROVE  FilesInv'
  <1> DEFINE keep == [e \in Eps |-> Serviceable(listing[e], {}, depth[e])]
  <1>1. PICK unreadable \in SUBSET folders, got \in {list, EmptyList} :
        LET torn == {e \in folders \ unreadable : keep[e] # listing[e]}
        IN
        /\ Miss(unreadable # {} \/ got # list) /\ torn # {}
        /\ op' = [op EXCEPT ![p] =
              [IdleOp EXCEPT !.pc = "repair", !.list = got, !.frames = keep,
                             !.plan = [e \in Eps |->
                                         IF e \in torn THEN 1 ELSE 0]]]
    BY Zenon DEF RepairBegin
  <1> DEFINE torn == {e \in folders \ unreadable : keep[e] # listing[e]}
             plan == [e \in Eps |-> IF e \in torn THEN 1 ELSE 0]
             n == [IdleOp EXCEPT !.pc = "repair", !.list = got,
                                 !.frames = keep, !.plan = plan]
  <1>2. Miss(unreadable # {} \/ got # list) /\ op' = [op EXCEPT ![p] = n]
    BY <1>1
  <1>3. IdleOp \in Ops /\ got \in Lists
        /\ SoundList(got, listing, depth, folders, crossed)
    BY IdleSafe, GotSound DEF FilesInv
  <1>4. /\ keep \in [Eps -> SUBSET Hours]
        /\ \A e \in Eps : keep[e] \subseteq listing[e] \cap depth[e]
    BY DEF Serviceable, FilesInv, FilesTypeOK
  <1>5. plan \in [Eps -> 0..MaxStamps]
    BY EpisodeFilesAssumption
  <1> HIDE DEF keep, plan
  <1>6. n \in Ops
    BY <1>3, <1>4, <1>5 DEF Ops
  <1>7. /\ n.pc = "repair" /\ n.ev = 0 /\ n.list = got /\ n.gone = NoFrames
        /\ n.purge = {} /\ n.frames = keep
    BY DEF IdleOp
  <1> HIDE DEF n
  <1>8. OpSafe(n, listing, depth, folders, crossed, short)
    BY <1>3, <1>4, <1>7, EpisodeFilesAssumption
       DEF OpSafe, ListSafe, GoneSafe, FramesSafe, ArchSafe, EvSafe, DemosSafe,
           NoFrames
  <1>9. misses' \in 0..MaxMisses
    BY <1>2, MissType DEF FilesInv
  <1>10. UNCHANGED <<fileVars, aged, stamp, crossed, short>>
    BY Zenon DEF RepairBegin
  <1> QED
    BY <1>2, <1>6, <1>8, <1>9, <1>10, OneOp DEF FilesInv, FilesTypeOK

LEMMA Least ==
    ASSUME NEW S \in SUBSET Nat, S # {}
    PROVE  \E m \in S : \A k \in S : m <= k
  <1>0. S \subseteq Nat
    OBVIOUS
  <1>1. PICK m \in S : \A k \in S : ~(<<k, m>> \in OpToRel(<, Nat))
    BY <1>0, NatLessThanWellFounded, WFMin, ZenonT(30)
  <1>2. \A k \in S : ~(k < m)
    BY <1>0, <1>1 DEF OpToRel
  <1> QED
    BY <1>0, <1>2

\* A frame that some member stores is supplied by one that does.
LEMMA Supplier ==
    ASSUME NEW M \in SUBSET Eps, NEW t \in M, \A m \in M : m <= t,
           NEW h, \E m \in M : h \in StoredFrames(m)
    PROVE  /\ SuppliedBy(M, t, h) \in M
           /\ h \in StoredFrames(SuppliedBy(M, t, h))
  <1> DEFINE have == {m \in M : h \in StoredFrames(m)}
             below == {t - m : m \in have}
  <1>1. Eps \subseteq Nat
    BY EpisodeFilesAssumption
  <1>2. below \subseteq Nat /\ below # {}
    BY <1>1
  <1> HIDE DEF below
  <1>3. PICK b \in below : \A a \in below : b <= a
    BY <1>2, Least
  <1>4. PICK m \in have : b = t - m
    BY <1>3 DEF below
  <1>5. \A o \in have : o <= m
    <2> SUFFICES ASSUME NEW o \in have PROVE o <= m
      OBVIOUS
    <2>1. t - m <= t - o
      BY <1>3, <1>4 DEF below
    <2> QED
      BY <1>1, <2>1
  <1>6. (CHOOSE k \in have : \A o \in have : o <= k) \in have
    BY <1>4, <1>5
  <1>7. SuppliedBy(M, t, h) \in have
    BY <1>6 DEF SuppliedBy
  <1> QED
    BY <1>7

\* What is merged: frames that some member stores, and their rows.
LEMMA PlanSafe ==
    ASSUME FilesInv, NEW p \in Writers, NEW M \in SUBSET Eps, NEW t \in M,
           MergePlan(p, M, t)
    PROVE  FilesInv'
  <1> DEFINE frames == UNION {StoredFrames(m) : m \in M}
             plan == [e \in Eps |-> IF e \in M THEN list[e].stamp ELSE 0]
             arch == MergedArchive(M, t, frames)
             n == [IdleOp EXCEPT !.pc = "merge", !.ev = t, !.stamp = stamp + 1,
                         !.local = frames \ StoredFrames(t),
                         !.frames = [NoFrames EXCEPT ![t] = frames],
                         !.arch = arch, !.plan = plan,
                         !.all = M \cap short = {}]
  <1>1. /\ op' = [op EXCEPT ![p] = n] /\ stamp < MaxStamps
        /\ stamp' = stamp + 1 /\ \A m \in M : m <= t
        /\ UNCHANGED <<fileVars, aged, misses, crossed, short>>
    BY DEF MergePlan
  <1>2. \A m \in Eps : StoredFrames(m) \subseteq Hours
                      /\ StoredFrames(m) \subseteq listing[m]
                      /\ StoredFrames(m) \subseteq depth[m]
    BY DEF StoredFrames, FilesInv, FilesTypeOK
  <1>3. frames \subseteq Hours
    BY <1>2
  <1>4. arch \subseteq Hours /\ plan \in [Eps -> 0..MaxStamps]
    <2>1. list \in Lists
      BY DEF FilesInv, FilesTypeOK
    <2>2. \A e \in Eps : plan[e] \in 0..MaxStamps
      BY <2>1, EpisodeFilesAssumption DEF Lists, ListEntries
    <2> QED
      BY <2>2 DEF MergedArchive
  <1>5. IdleOp \in Ops /\ stamp + 1 \in 0..MaxStamps
    <2>1. IdleOp \in Ops
      BY IdleSafe DEF FilesInv
    <2>2. stamp \in 0..MaxStamps /\ MaxStamps \in Nat
      BY EpisodeFilesAssumption DEF FilesInv, FilesTypeOK
    <2> QED
      BY <1>1, <2>1, <2>2
  <1>6. M \cap short = {} => frames \subseteq arch
    <2> SUFFICES ASSUME M \cap short = {}, NEW h \in frames
                 PROVE  h \in arch
      OBVIOUS
    <2>1. /\ SuppliedBy(M, t, h) \in M
          /\ h \in StoredFrames(SuppliedBy(M, t, h))
      BY <1>1, Supplier
    <2>2. h \in archive[SuppliedBy(M, t, h)]
      BY <1>2, <2>1 DEF FilesInv, ArchiveSpans
    <2> QED
      BY <1>3, <2>2 DEF MergedArchive
  <1> HIDE DEF frames, plan, arch
  <1>7. [NoFrames EXCEPT ![t] = frames] \in [Eps -> SUBSET Hours]
        /\ [NoFrames EXCEPT ![t] = frames][t] = frames
    BY <1>3 DEF NoFrames
  <1>8. n \in Ops
    <2>1. /\ frames \ StoredFrames(t) \in SUBSET Hours
          /\ (M \cap short = {}) \in BOOLEAN
          /\ t \in Eps \cup {0} /\ arch \in SUBSET Hours
      BY <1>3, <1>4
    <2> DEFINE local == frames \ StoredFrames(t)
               all == M \cap short = {}
               F == [NoFrames EXCEPT ![t] = frames]
               s == stamp + 1
    <2> HIDE DEF local, all, F, s
    <2>2. /\ local \in SUBSET Hours /\ all \in BOOLEAN /\ s \in 0..MaxStamps
          /\ F \in [Eps -> SUBSET Hours]
      BY <1>5, <1>7, <2>1 DEF local, all, F, s
    <2>3. [IdleOp EXCEPT !.pc = "merge", !.ev = t, !.stamp = s,
                         !.local = local, !.frames = F, !.arch = arch,
                         !.plan = plan, !.all = all] \in Ops
      BY <1>4, <1>5, <2>1, <2>2 DEF Ops
    <2> QED
      BY <2>3 DEF local, all, F, s
  <1>9. /\ n.pc = "merge" /\ n.ev = t /\ n.gone = NoFrames /\ n.purge = {}
        /\ n.local = frames \ StoredFrames(t) /\ n.frames[t] = frames
        /\ n.arch = arch /\ (n.all <=> M \cap short = {})
    BY <1>7 DEF IdleOp
  <1> HIDE DEF n
  <1>10. OpSafe(n, listing, depth, folders, crossed, short)
    BY <1>2, <1>6, <1>9, EpisodeFilesAssumption
       DEF OpSafe, ListSafe, GoneSafe, FramesSafe, ArchSafe, EvSafe, DemosSafe,
           NoFrames
  <1> QED
    BY <1>1, <1>5, <1>8, <1>10, OneOp DEF FilesInv, FilesTypeOK

\* A folder only grows old.
LEMMA OldSafe ==
    ASSUME FilesInv, NEW e \in Eps, GrowOld(e)
    PROVE  FilesInv'
  <1>1. FilesTypeOK'
    BY DEF GrowOld, FilesInv, FilesTypeOK, fileVars
  <1>2. FramesStored' /\ ArchiveSpans' /\ OpsSafe'
    BY DEF GrowOld, FilesInv, FramesStored, ArchiveSpans, OpsSafe, OnList,
           fileVars
  <1> QED
    BY <1>1, <1>2 DEF FilesInv, GrowOld, fileVars

LEMMA FilesInitSafe == FilesInit => FilesInv
  <1> SUFFICES ASSUME FilesInit PROVE FilesInv
    OBVIOUS
  <1>1. IdleOp \in Ops
        /\ OpSafe(IdleOp, listing, depth, folders, crossed, short)
    <2>1. FilesTypeOK => IdleOp \in Ops
      BY IdleSafe
    <2>2. IdleOp \in Ops
      BY EpisodeFilesAssumption, EmptyType
         DEF IdleOp, Ops, NoFrames, NoStamps
    <2> QED
      BY <2>2, IdleSafe
  <1>2. list \in Lists
    <2>1. \A e \in Eps : list[e] = [stamp |-> IF e \in folders THEN 1 ELSE 0,
                                   demoted |-> FALSE, into |-> FALSE]
      BY DEF FilesInit, OffList
    <2>2. 0 \in 0..MaxStamps /\ 1 \in 0..MaxStamps
      BY EpisodeFilesAssumption
    <2>3. \A e \in Eps : list[e] \in ListEntries
      <3> SUFFICES ASSUME NEW e \in Eps PROVE list[e] \in ListEntries
        OBVIOUS
      <3>1. CASE e \in folders
        <4>1. list[e] = [stamp |-> 1, demoted |-> FALSE, into |-> FALSE]
          BY <2>1, <3>1
        <4> QED
          BY <2>2, <4>1 DEF ListEntries
      <3>2. CASE e \notin folders
        <4>1. list[e] = [stamp |-> 0, demoted |-> FALSE, into |-> FALSE]
          BY <2>1, <3>2
        <4> QED
          BY <2>2, <4>1 DEF ListEntries
      <3> QED
        BY <3>1, <3>2
    <2> QED
      BY <2>3 DEF FilesInit, Lists
  <1>3. FilesTypeOK
    BY <1>1, <1>2, EpisodeFilesAssumption DEF FilesInit, FilesTypeOK, Hours
  <1>4. FramesStored /\ ArchiveSpans
    BY DEF FilesInit, FramesStored, ArchiveSpans, OnList, OffList
  <1>5. OpsSafe
    BY <1>1 DEF FilesInit, OpsSafe
  <1> QED
    BY <1>3, <1>4, <1>5 DEF FilesInv, FilesInit

LEMMA FilesStep == FilesInv /\ [FilesNext]_filesVars => FilesInv'
  <1> SUFFICES ASSUME FilesInv, [FilesNext]_filesVars PROVE FilesInv'
    OBVIOUS
  <1>1. CASE UNCHANGED filesVars
    BY <1>1 DEF filesVars, fileVars, FilesInv, FilesTypeOK, FramesStored,
       ArchiveSpans, OpsSafe, OnList
  <1>2. ASSUME NEW p \in Writers, WriterStep(p) PROVE FilesInv'
    <2>1. ASSUME WriterDies(p) PROVE FilesInv'
      <3>1. misses' \in 0..MaxMisses
        BY <2>1, MissType DEF FilesInv, WriterDies
      <3> QED
        BY <2>1, <3>1, GivenUp DEF WriterDies
    <2> QED
      BY <1>2, <2>1, SolveSafe, ReadSafe, PrepareSafe, PublishFilesSafe,
         SweepBeginSafe, SweepFilesSafe, DropSafe, SweepSafe, RepairBeginSafe,
         RepairSafe, PlanSafe, MergeSafe DEF WriterStep
  <1> QED
    BY <1>1, <1>2, OldSafe DEF FilesNext

\* Whatever the writers read and commit in between, and whatever fails: a
\* listed episode that no two of them crossed has the frames its manifest
\* lists, an archive that was neither restarted nor deleted has a row of each,
\* and nothing of a demo event is deleted (eventstore.py, merge_episodes.py).
THEOREM FilesAreSound == FilesSpec => []FilesSound
  <1>1. FilesInit => FilesInv
    BY FilesInitSafe
  <1>2. FilesInv /\ [FilesNext]_filesVars => FilesInv'
    BY FilesStep
  <1>3. FilesInv => FilesSound
    BY DEF FilesInv, FilesTypeOK, FilesSound, OpsSafe, OpSafe, DemosSafe,
           DemosWhole
  <1> QED
    BY <1>1, <1>2, <1>3, PTL DEF FilesSpec
=============================================================================
