------------------------ MODULE MergerProcess_proofs ------------------------
(***************************************************************************)
(* Proofs about the merger's process, for any number of process ids, any   *)
(* cap, hour, limits and backoff, and however many crashes, hangs and full *)
(* disks.                                                                  *)
(***************************************************************************)
EXTENDS MergerProcess, FiniteSetTheorems, TLAPS

Children ==
    [mode : Modes, stuck : BOOLEAN, term : BOOLEAN, doomed : BOOLEAN,
     owes : BOOLEAN, wait : 0..BackMax, back : 0..BackMax, fails : 0..FailsMax,
     budget : 0..MaxPerHour, recent : SUBSET Slots, news : BOOLEAN,
     waiting : BOOLEAN]
Lines == [pid : Pids \cup {None}, age : 0..(HungLimit + 1),
          stopped : BOOLEAN, recent : SUBSET Slots]

Supervisors == [at : {"start", "launched", "watch", "term", "linger",
                      "backoff", "down"},
                back : 0..BackMax, left : 0..BackMax]

\* No process but the one the supervisor knows, and none when it starts one.
Alone ==
    /\ \A p \in Pids : child[p].mode # "off" =>
         p = proc /\ sup.at \notin {"start", "backoff"}
    /\ \A p \in Pids : child[p].mode = "off" => child[p] = NoChild
    /\ \A p \in Pids : child[p].mode = "boot" =>
         child[p].recent = {} /\ child[p].budget = 0

\* The merges that a status file or a process remembers, ...
Kept == {s \in Slots : \/ \E f \in StatusFiles : s \in status[f].recent
                       \/ \E p \in Pids : s \in child[p].recent}
\* ... and of them those of the last hour.
Load == {s \in Kept : merged[s] < Hour}

\* Nothing of the last hour is forgotten that is not lost, a younger status
\* file has what an older one has, a merger has what the files have, and what
\* is remembered leaves room for its budget.
Remembers ==
    /\ \A s \in Slots : merged[s] < Hour /\ s \notin lost => s \in Kept
    /\ \A f, g \in StatusFiles : status[f].age < status[g].age =>
         status[g].recent \subseteq status[f].recent
    /\ \A p \in Pids : child[p].mode \notin {"off", "boot"} =>
         \A f \in StatusFiles : status[f].recent \subseteq child[p].recent
    /\ \A p \in Pids : Cardinality(Load) + child[p].budget <= MaxPerHour

\* How old the last word of a merger may be: each interval it tries once.
Silence(c) == IF c.mode \in {"pass", "nap"} /\ ~c.owes THEN c.fails
              ELSE Least(c.fails + 1, FailsMax)
HeardOf(p, n) ==
    \/ \E f \in StatusFiles : status[f].pid = p /\ status[f].age <= n
    \/ started <= n
Talks ==
    \A p \in Pids : Healthy(p) =>
        /\ HeardOf(p, Silence(child[p]))
        /\ child[p].fails = FailsMax => child[p].term

\* Only a merger that hangs is told to end by the watchdog.
Reasons ==
    /\ \A p \in Pids : child[p].doomed => sup.at \in {"linger", "down"}
    /\ sup.at = "term" => child[proc].mode = "off" \/ child[proc].stuck
    /\ sup.at \in {"launched", "watch", "term", "linger"} => proc \in Pids

\* A step that sends no SIGKILL.
Sparing == \A p \in Pids : child'[p].doomed => child[p].doomed

MergerInv == MergerTypeOK /\ Alone /\ Remembers /\ Talks /\ Reasons

-----------------------------------------------------------------------------
(* What the steps share.                                                   *)

\* What the assumption says of each limit.
LEMMA Limits ==
    /\ Hour \in Nat \ {0} /\ HungLimit \in Nat \ {0} /\ BackMax \in Nat \ {0}
    /\ FailsMax \in Nat \ {0} /\ FailsMax < HungLimit
    /\ MaxPerHour \in Nat /\ MaxChildFaults \in Nat
  BY MergerAssumption

\* A process that is no more has nothing and owes nothing.
LEMMA Nobody ==
    /\ NoChild \in Children /\ NoChild.mode = "off" /\ NoChild.recent = {}
    /\ NoChild.budget = 0 /\ ~NoChild.stuck /\ ~NoChild.doomed
    /\ ~NoChild.term /\ NoChild.fails = 0
  BY Limits DEF NoChild, Children, Modes

\* The load is at most the cap, since it is a finite set.
LEMMA LoadFinite ==
    /\ IsFiniteSet(Load) /\ Cardinality(Load) \in Nat
    /\ \A T \in SUBSET Load : IsFiniteSet(T) /\ Cardinality(T) \in Nat
                              /\ Cardinality(T) <= Cardinality(Load)
  <1>1. Load \in SUBSET Slots
    BY DEF Load, Kept
  <1>2. IsFiniteSet(Load)
    BY <1>1, MergerAssumption, FS_Subset
  <1>3. QED
    BY <1>2, FS_Subset, FS_CardinalityType

\* Who was heard of within m intervals was within n.
LEMMA HeardLonger ==
    ASSUME NEW p, NEW l \in Nat, NEW m \in Nat, NEW n \in Nat,
           HeardOf(p, l), l <= m, m <= n, started \in Nat,
           \A f \in StatusFiles : status[f].age \in Nat
    PROVE  HeardOf(p, n)
  BY DEF HeardOf

\* A process that runs and writes its status, or cannot, keeps the invariant
\* if it remembers everything that is remembered and its budget fits.
LEMMA WriteKeeps ==
    ASSUME MergerInv, NEW p \in Pids, child[p].mode # "off",
           NEW d \in Children, d.mode \notin {"off", "boot"},
           ~d.stuck, ~d.doomed, d.recent = Kept,
           Cardinality(Load) + d.budget <= MaxPerHour,
           d.fails = FailsMax => d.term,
           child[p].stuck = FALSE,
           child' = [child EXCEPT ![p] = d],
           UNCHANGED <<supVars, full, merged, lost>>,
           mergerFaults' \in 0..MaxChildFaults,
           \/ status' = status /\ HeardOf(p, Silence(d))
           \/ \E g \in StatusFiles, line \in Lines :
                /\ status' = [status EXCEPT ![g] = line]
                /\ line.pid = p /\ line.age = 0 /\ line.recent = Kept
    PROVE  MergerInv' /\ Sparing
  <1>1. /\ child \in [Pids -> Children] /\ status \in [StatusFiles -> Lines]
        /\ Alone /\ Remembers /\ Talks /\ Reasons
    BY DEF MergerInv, MergerTypeOK, Children, Lines
  <1>2. /\ \A f \in StatusFiles : status'[f] = status[f]
                                  \/ /\ status'[f] \in Lines
                                     /\ status'[f].pid = p
                                     /\ status'[f].age = 0
                                     /\ status'[f].recent = Kept
        /\ status' \in [StatusFiles -> Lines]
    BY <1>1
  <1>3. /\ child' \in [Pids -> Children] /\ child'[p] = d
        /\ \A q \in Pids \ {p} : child'[q] = child[q] /\ child[q] = NoChild
    BY <1>1 DEF Alone
  <1>4. Kept' = Kept
    <2>1. \A f \in StatusFiles : status[f].recent \subseteq Kept
      BY <1>1 DEF Kept, Lines
    <2>2. \A f \in StatusFiles : status'[f].recent \subseteq Kept
      BY <1>2, <2>1
    <2>3. \A q \in Pids : child'[q].recent \subseteq Kept
      BY <1>3, Nobody
    <2>4. Kept' = {s \in Slots :
                        \/ \E f \in StatusFiles : s \in status'[f].recent
                        \/ \E q \in Pids : s \in child'[q].recent}
      BY DEF Kept
    <2>5. Kept' \subseteq Kept
      BY <2>2, <2>3, <2>4
    <2>6. Kept \subseteq Kept'
      BY <1>3, <2>4 DEF Kept
    <2>7. QED
      BY <2>5, <2>6
  <1>5. Load' = Load
    BY <1>4 DEF Load
  <1>6. MergerTypeOK'
    BY <1>2, <1>3 DEF MergerInv, MergerTypeOK, Children, Lines, supVars
  <1>7. Alone'
    BY <1>1, <1>3 DEF Alone, supVars
  <1>8. Remembers'
    <2>1. \A s \in Slots : (merged[s] < Hour /\ s \notin lost) => s \in Kept
      BY <1>1 DEF Remembers
    <2>2. \A f, g \in StatusFiles : status'[f].age < status'[g].age =>
            status'[g].recent \subseteq status'[f].recent
      <3> SUFFICES ASSUME NEW f \in StatusFiles, NEW g \in StatusFiles,
                          status'[f].age < status'[g].age
                   PROVE  status'[g].recent \subseteq status'[f].recent
        OBVIOUS
      <3>1. status'[g].age # 0
        BY <1>2 DEF Lines
      <3>2. status'[g] = status[g] /\ status[g].recent \subseteq Kept
        BY <1>1, <1>2, <3>1 DEF Kept, Lines
      <3>3. CASE status'[f] = status[f]
        BY <1>1, <3>2, <3>3 DEF Remembers
      <3>4. CASE status'[f].recent = Kept
        BY <3>2, <3>4
      <3>5. QED
        BY <1>2, <3>3, <3>4
    <2>3. \A q \in Pids : child'[q].mode \notin {"off", "boot"} =>
            \A f \in StatusFiles : status'[f].recent \subseteq child'[q].recent
      <3>1. \A f \in StatusFiles : status'[f].recent \subseteq Kept
        BY <1>1, <1>2 DEF Kept, Lines
      <3>2. QED
        BY <1>3, <3>1, Nobody
    <2>4. \A q \in Pids : Cardinality(Load) + child'[q].budget <= MaxPerHour
      <3>1. \A q \in Pids \ {p} : child'[q].budget = child[q].budget
        BY <1>3
      <3>2. QED
        BY <1>1, <1>3, <3>1 DEF Remembers
    <2>5. QED
      BY <1>4, <1>5, <2>1, <2>2, <2>3, <2>4 DEF Remembers
  <1>9. Talks'
    <2> SUFFICES ASSUME NEW q \in Pids, Healthy(q)'
                 PROVE  /\ HeardOf(q, Silence(child[q]))'
                        /\ child'[q].fails = FailsMax => child'[q].term
      BY DEF Talks
    <2>1. q = p
      BY <1>3, Nobody DEF Healthy
    <2>2. Silence(d) \in Nat
      BY Limits DEF Silence, Children, Least
    <2>3. HeardOf(p, Silence(d))'
      <3>1. CASE status' = status /\ HeardOf(p, Silence(d))
        BY <3>1 DEF HeardOf, supVars
      <3>2. CASE ~(status' = status /\ HeardOf(p, Silence(d)))
        <4>1. PICK g \in StatusFiles, line \in Lines :
                /\ status' = [status EXCEPT ![g] = line]
                /\ line.pid = p /\ line.age = 0
          BY <3>2
        <4>2. status'[g].pid = p /\ status'[g].age = 0
          BY <1>1, <4>1
        <4>3. status'[g].age <= Silence(d)
          BY <2>2, <4>2
        <4>4. QED
          BY <4>2, <4>3 DEF HeardOf
      <3>3. QED
        BY <3>1, <3>2
    <2>4. QED
      BY <1>3, <2>1, <2>3
  <1>10. Reasons'
    <2>1. sup' = sup /\ proc' = proc
      BY DEF supVars
    <2>2. \A q \in Pids : child'[q].doomed => child[q].doomed
      BY <1>3
    <2>3. ASSUME sup.at = "term"
          PROVE  child'[proc].mode = "off" \/ child'[proc].stuck
      <3>1. proc \in Pids /\ proc = p
        BY <1>1, <2>3 DEF Alone, Reasons
      <3>2. child[p].stuck
        BY <1>1, <2>3, <3>1 DEF Reasons
      <3>3. QED
        BY <3>2
    <2>4. QED
      BY <1>1, <2>1, <2>2, <2>3 DEF Reasons
  <1>11. Sparing
    BY <1>3 DEF Sparing
  <1>12. QED
    BY <1>6, <1>7, <1>8, <1>9, <1>10, <1>11 DEF MergerInv

\* save, of a process that runs.
LEMMA SaveKeeps ==
    ASSUME MergerInv, NEW p \in Pids, Healthy(p),
           NEW c \in Children, c.mode \notin {"off", "boot"},
           ~c.stuck, ~c.doomed, c.recent = Kept,
           Cardinality(Load) + c.budget <= MaxPerHour,
           c.fails = child[p].fails, child[p].term => c.term,
           Saves(p, c, FALSE),
           UNCHANGED <<supVars, full, merged, lost>>,
           mergerFaults' \in 0..MaxChildFaults
    PROVE  MergerInv' /\ Sparing
  <1> DEFINE line == [pid |-> p, age |-> 0, stopped |-> FALSE,
                      recent |-> c.recent]
             fails == Least(c.fails + 1, FailsMax)
             file == IF "main" \in full THEN "fallback" ELSE "main"
             worse == [c EXCEPT !.fails = fails,
                                !.term = @ \/ (fails = FailsMax /\ ~FALSE)]
             well == [c EXCEPT !.fails = 0]
  <1>1. child[p].mode # "off" /\ child[p].stuck = FALSE /\ child[p] \in Children
    BY DEF Healthy, MergerInv, MergerTypeOK, Children
  <1>2. c.fails \in 0..FailsMax /\ fails \in 0..FailsMax
    BY Limits DEF Children, Least
  <1>3. CASE full = StatusFiles
    <2>1. child' = [child EXCEPT ![p] = worse] /\ status' = status
      BY <1>3 DEF Saves
    <2>2. /\ worse \in Children /\ worse.mode = c.mode
          /\ worse.stuck = c.stuck /\ worse.doomed = c.doomed
          /\ worse.recent = c.recent /\ worse.budget = c.budget
          /\ worse.fails = fails /\ (fails = FailsMax => worse.term)
      BY <1>2 DEF Children
    <2>3. HeardOf(p, Silence(worse))
      <3>1. HeardOf(p, Silence(child[p]))
        BY DEF MergerInv, Talks
      <3>2. /\ Silence(child[p]) <= fails /\ fails <= Silence(worse)
            /\ Silence(child[p]) \in Nat /\ Silence(worse) \in Nat
            /\ fails \in Nat
        BY <1>1, <1>2, <2>2, Limits DEF Silence, Least, Children
      <3>3. /\ started \in Nat
            /\ \A f \in StatusFiles : status[f].age \in Nat
        BY DEF MergerInv, MergerTypeOK
      <3>4. QED
        BY <3>1, <3>2, <3>3, HeardLonger
    <2> HIDE DEF worse, fails
    <2>4. QED
      BY <1>1, <2>1, <2>2, <2>3, WriteKeeps
  <1>4. CASE full # StatusFiles
    <2>1. /\ child' = [child EXCEPT ![p] = well]
          /\ status' = [status EXCEPT ![file] = line]
      BY <1>4 DEF Saves
    <2>2. /\ well \in Children /\ well.mode = c.mode
          /\ well.stuck = c.stuck /\ well.doomed = c.doomed
          /\ well.recent = c.recent /\ well.budget = c.budget
          /\ well.fails # FailsMax
      BY Limits DEF Children
    <2>3. /\ line \in Lines /\ file \in StatusFiles
          /\ line.pid = p /\ line.age = 0 /\ line.recent = Kept
      <3>1. c.recent \in SUBSET Slots /\ 0 \in 0..(HungLimit + 1)
        BY Limits DEF Children
      <3>2. QED
        BY <3>1 DEF Lines, StatusFiles
    <2> HIDE DEF well, line, file
    <2>4. QED
      BY <1>1, <2>1, <2>2, <2>3, WriteKeeps
  <1>5. QED
    BY <1>3, <1>4

\* A process at work remembers all there is to remember.
LEMMA WorkerKnows ==
    ASSUME MergerInv, NEW p \in Pids, child[p].mode \notin {"off", "boot"}
    PROVE  child[p].recent = Kept /\ Counted(child[p].recent) = Load
  <1>1. /\ child[p] \in Children
        /\ \A q \in Pids \ {p} : child[q].recent = {}
        /\ \A f \in StatusFiles : status[f].recent \subseteq child[p].recent
    BY Nobody DEF MergerInv, MergerTypeOK, Children, Alone, Remembers
  <1>2. child[p].recent = Kept
    BY <1>1 DEF Kept, Children
  <1>3. QED
    BY <1>2 DEF Counted, Load

\* A process ends: what it remembered is noted, or is lost.
LEMMA DieKeeps ==
    ASSUME MergerInv, NEW p \in Pids, child[p].mode # "off",
           child' = [child EXCEPT ![p] = NoChild],
           UNCHANGED <<supVars, full, merged>>,
           mergerFaults' \in 0..MaxChildFaults,
           \/ status' = status /\ lost' = lost \cup Unnoted(p)
           \/ /\ lost' = lost /\ child[p].mode # "boot"
              /\ \E g \in StatusFiles, line \in Lines :
                    /\ status' = [status EXCEPT ![g] = line]
                    /\ line.age = 0 /\ line.recent = child[p].recent
    PROVE  MergerInv'
  <1>1. /\ child \in [Pids -> Children] /\ status \in [StatusFiles -> Lines]
        /\ Alone /\ Remembers /\ Talks /\ Reasons
    BY DEF MergerInv, MergerTypeOK, Children, Lines
  <1>2. /\ child' \in [Pids -> Children]
        /\ \A q \in Pids : child'[q] = NoChild
        /\ \A q \in Pids \ {p} : child[q].recent = {}
    BY <1>1, Nobody DEF Alone
  <1>3. /\ Unnoted(p) \subseteq Slots
        /\ \A s \in child[p].recent : s \in Unnoted(p)
              \/ \E f \in StatusFiles : s \in status[f].recent
    BY <1>1 DEF Unnoted, Children
  <1>4. \/ status' = status /\ lost' = lost \cup Unnoted(p)
        \/ /\ lost' = lost /\ child[p].recent = Kept
           /\ \E g \in StatusFiles : status'[g].recent = Kept
           /\ \A f \in StatusFiles :
                \/ status'[f] = status[f]
                \/ status'[f].age = 0 /\ status'[f].recent = Kept
    BY <1>1, WorkerKnows
  <1>5. status' \in [StatusFiles -> Lines]
    BY <1>1
  <1>6. MergerTypeOK'
    BY <1>2, <1>3, <1>5 DEF MergerInv, MergerTypeOK, Children, Lines, supVars
  <1>7. Alone'
    BY <1>2, Nobody DEF Alone
  <1>8. Remembers'
    <2>1. Kept' = {s \in Slots : \E f \in StatusFiles : s \in status'[f].recent}
      BY <1>2, Nobody DEF Kept
    <2>2. \A f \in StatusFiles : status'[f].recent \subseteq Kept
      BY <1>1, <1>4 DEF Kept, Lines
    <2>3. Load' \in SUBSET Load
      BY <2>1, <2>2 DEF Load
    <2>4. ASSUME NEW s \in Slots, merged[s] < Hour, s \notin lost'
          PROVE  s \in Kept'
      <3>1. s \in Kept
        BY <1>1, <1>4, <2>4 DEF Remembers
      <3>2. CASE status' = status /\ lost' = lost \cup Unnoted(p)
        BY <1>2, <1>3, <2>1, <2>4, <3>1, <3>2 DEF Kept
      <3>3. CASE \E g \in StatusFiles : status'[g].recent = Kept
        BY <2>1, <3>1, <3>3
      <3>4. QED
        BY <1>4, <3>2, <3>3
    <2>5. \A f, g \in StatusFiles : status'[f].age < status'[g].age =>
            status'[g].recent \subseteq status'[f].recent
      <3> SUFFICES ASSUME NEW f \in StatusFiles, NEW g \in StatusFiles,
                          status'[f].age < status'[g].age
                   PROVE  status'[g].recent \subseteq status'[f].recent
        OBVIOUS
      <3>1. status'[g].age # 0
        BY <1>5 DEF Lines
      <3>2. status'[g] = status[g]
        BY <1>4, <3>1
      <3>3. CASE status'[f] = status[f]
        BY <1>1, <3>2, <3>3 DEF Remembers
      <3>4. CASE status'[f].recent = Kept
        BY <2>2, <3>4
      <3>5. QED
        BY <1>4, <3>3, <3>4
    <2>6. Cardinality(Load') <= MaxPerHour
      <3>1. /\ Cardinality(Load) + child[p].budget <= MaxPerHour
            /\ child[p].budget \in Nat
        BY <1>1 DEF Remembers, Children
      <3>2. /\ Cardinality(Load') <= Cardinality(Load)
            /\ Cardinality(Load) \in Nat /\ Cardinality(Load') \in Nat
        BY <2>3, LoadFinite
      <3>3. QED
        BY <3>1, <3>2, Limits
    <2>7. \A q \in Pids : Cardinality(Load') + child'[q].budget <= MaxPerHour
      <3>1. Cardinality(Load') \in Nat
        BY <2>3, LoadFinite
      <3>2. QED
        BY <1>2, <2>6, <3>1, Nobody
    <2>8. \A q \in Pids : child'[q].mode = "off"
      BY <1>2, Nobody
    <2>9. merged' = merged
      OBVIOUS
    <2>10. QED
      BY <2>4, <2>5, <2>7, <2>8, <2>9 DEF Remembers
  <1>9. Talks'
    BY <1>2, Nobody DEF Talks, Healthy
  <1>10. Reasons'
    BY <1>1, <1>2, Nobody DEF Reasons, supVars
  <1>11. QED
    BY <1>6, <1>7, <1>8, <1>9, <1>10 DEF MergerInv

\* What nobody's memory is touched by keeps what is remembered.
LEMMA MemoryStays ==
    ASSUME Remembers, UNCHANGED <<status, merged, lost>>,
           \A q \in Pids : /\ child'[q].recent = child[q].recent
                           /\ child'[q].budget = child[q].budget
                           /\ child'[q].mode \notin {"off", "boot"} =>
                                child[q].mode \notin {"off", "boot"}
    PROVE  Remembers'
  <1>1. Kept' = Kept
    BY DEF Kept
  <1>2. Load' = Load
    BY <1>1 DEF Load
  <1>3. QED
    BY <1>1, <1>2 DEF Remembers

-----------------------------------------------------------------------------
(* The child's steps.                                                      *)

LEMMA InitMergerInv == MergerInit => MergerInv
  <1> SUFFICES ASSUME MergerInit PROVE MergerInv
    OBVIOUS
  <1> USE DEF MergerInit
  <1>1. NoStatus \in Lines /\ NoStatus.recent = {}
    BY Limits DEF NoStatus, Lines
  <1>2. MergerTypeOK
    BY <1>1, Limits, Nobody DEF MergerTypeOK, Lines, Children, StatusFiles
  <1>3. Alone
    BY Nobody DEF Alone
  <1>4. Remembers
    <2>1. Kept = {} /\ Load = {}
      BY <1>1, Nobody DEF Kept, Load
    <2>2. Cardinality(Load) = 0
      BY <2>1, FS_EmptySet
    <2>3. \A f \in StatusFiles : status[f].recent = {}
      BY <1>1
    <2>4. \A s \in Slots : ~(merged[s] < Hour)
      BY Limits
    <2>5. QED
      BY <2>2, <2>3, <2>4, Nobody, Limits DEF Remembers
  <1>5. Talks /\ Reasons
    BY Nobody DEF Talks, Reasons, Healthy
  <1>6. QED
    BY <1>2, <1>3, <1>4, <1>5 DEF MergerInv

\* A new child remembers all that the status files do.
LEMMA BootKeeps ==
    ASSUME MergerInv, NEW p \in Pids, ChildBoots(p)
    PROVE  MergerInv' /\ Sparing
  <1> DEFINE c == [child[p] EXCEPT !.mode = "cycle", !.recent = Remembered,
                                   !.news = TRUE]
  <1>1. /\ Healthy(p) /\ child[p].mode = "boot" /\ Saves(p, c, FALSE)
        /\ UNCHANGED <<supVars, full, merged, mergerFaults, lost>>
    BY DEF ChildBoots
  <1>2. /\ child[p] \in Children /\ child[p].budget = 0
        /\ \A q \in Pids : child[q].recent = {}
        /\ \A f \in StatusFiles : /\ status[f].recent \subseteq Slots
                                  /\ status[f].age \in Nat
    BY <1>1, Nobody DEF MergerInv, MergerTypeOK, Children, Alone
  <1>3. Remembered = Kept
    <2>1. \A f \in StatusFiles : status[f].recent \subseteq Remembered
      <3> SUFFICES ASSUME NEW f \in StatusFiles, ~Latest(f)
                   PROVE  status[f].recent \subseteq Remembered
        BY DEF Remembered
      <3>1. PICK g \in StatusFiles : ~(status[f].age <= status[g].age)
        BY DEF Latest
      <3>2. status[g].age < status[f].age
        BY <1>2, <3>1
      <3>3. Latest(g)
        BY <1>2, <3>2 DEF Latest, StatusFiles
      <3>4. status[f].recent \subseteq status[g].recent
        BY <3>2 DEF MergerInv, Remembers
      <3>5. QED
        BY <3>3, <3>4 DEF Remembered
    <2>2. Remembered \subseteq Kept
      BY <1>2 DEF Remembered, Kept
    <2>3. Kept \subseteq Remembered
      BY <1>2, <2>1 DEF Kept
    <2>4. QED
      BY <2>2, <2>3
  <1>4. Kept \subseteq Slots
    BY DEF Kept
  <1>5. /\ c \in Children /\ c.mode = "cycle" /\ c.stuck = child[p].stuck
        /\ c.doomed = child[p].doomed /\ c.recent = Kept /\ c.budget = 0
        /\ c.fails = child[p].fails /\ c.term = child[p].term
    BY <1>2, <1>3, <1>4 DEF Children, Modes
  <1>6. ~child[p].stuck /\ ~child[p].doomed
    BY <1>1 DEF Healthy
  <1>7. Cardinality(Load) + child[p].budget <= MaxPerHour
    BY DEF MergerInv, Remembers
  <1>8. mergerFaults' \in 0..MaxChildFaults
    BY <1>1 DEF MergerInv, MergerTypeOK
  <1> HIDE DEF c
  <1>9. QED
    BY <1>1, <1>2, <1>5, <1>6, <1>7, <1>8, SaveKeeps

\* A child at work that saves keeps the invariant if its memory stays and its
\* budget does not grow, or is what the load leaves of the cap.
LEMMA WorkKeeps ==
    ASSUME MergerInv, NEW p \in Pids, Healthy(p), child[p].mode # "boot",
           NEW c \in Children, c.mode \notin {"off", "boot"},
           ~c.stuck, ~c.doomed, c.recent = child[p].recent,
           \/ c.budget <= child[p].budget
           \/ Cardinality(Load) + c.budget <= MaxPerHour,
           c.fails = child[p].fails, child[p].term => c.term,
           Saves(p, c, FALSE),
           UNCHANGED <<supVars, full, merged, lost>>,
           mergerFaults' = mergerFaults \/ ChildFault
    PROVE  MergerInv' /\ Sparing
  <1>1. c.recent = Kept
    BY WorkerKnows DEF Healthy
  <1>2. Cardinality(Load) + c.budget <= MaxPerHour
    <2>1. /\ Cardinality(Load) + child[p].budget <= MaxPerHour
          /\ child[p].budget \in Nat /\ c.budget \in Nat
      BY DEF MergerInv, MergerTypeOK, Remembers, Children
    <2>2. QED
      BY <2>1, Limits, LoadFinite
  <1>3. mergerFaults' \in 0..MaxChildFaults
    BY Limits DEF MergerInv, MergerTypeOK, ChildFault
  <1>4. QED
    BY <1>1, <1>2, <1>3, SaveKeeps

\* A pass, a nap, a heartbeat, a failure: all save.
LEMMA SavesKeep ==
    ASSUME MergerInv, NEW p \in Pids,
           \/ Look(p) \/ NothingDue(p) \/ NoteMerge(p) \/ Beat(p)
           \/ PassEnds(p) \/ StepFails(p)
    PROVE  MergerInv' /\ Sparing
  <1>1. child[p] \in Children
    BY DEF MergerInv, MergerTypeOK, Children
  <1>2. BackMax \in Nat \ {0} /\ 1 \in 0..BackMax /\ 0 \in 0..BackMax
        /\ 0 \in 0..MaxPerHour
    BY Limits
  <1>3. CASE Look(p)
    <2> DEFINE b == MaxPerHour -
                    Least(MaxPerHour, Cardinality(Counted(child[p].recent)))
               c == [child[p] EXCEPT !.mode = "pass", !.news = FALSE,
                                     !.owes = FALSE, !.budget = b]
    <2>1. /\ Healthy(p) /\ child[p].mode = "cycle" /\ Saves(p, c, FALSE)
          /\ UNCHANGED <<supVars, full, merged, mergerFaults, lost>>
      BY <1>3 DEF Look, Going
    <2>2. b = MaxPerHour - Least(MaxPerHour, Cardinality(Load))
      BY <2>1, WorkerKnows
    <2>3. /\ b \in 0..MaxPerHour /\ Cardinality(Load) + b <= MaxPerHour
      <3>1. /\ Cardinality(Load) + child[p].budget <= MaxPerHour
            /\ child[p].budget \in Nat
        BY <1>1 DEF MergerInv, Remembers, Children
      <3>2. QED
        BY <2>2, <3>1, LoadFinite, Limits DEF Least
    <2> HIDE DEF b
    <2>4. /\ c \in Children /\ c.mode = "pass" /\ c.stuck = child[p].stuck
          /\ c.doomed = child[p].doomed /\ c.recent = child[p].recent
          /\ c.budget = b /\ c.fails = child[p].fails
          /\ c.term = child[p].term
      BY <1>1, <2>3 DEF Children, Modes
    <2>5. ~child[p].stuck /\ ~child[p].doomed
      BY <2>1 DEF Healthy
    <2> HIDE DEF c
    <2>6. QED
      BY <2>1, <2>3, <2>4, <2>5, WorkKeeps
  <1>4. CASE NothingDue(p)
    <2> DEFINE c == Naps([child[p] EXCEPT !.back = 0], 1)
    <2>1. /\ Healthy(p) /\ child[p].mode # "boot" /\ Saves(p, c, FALSE)
          /\ UNCHANGED <<supVars, full, merged, lost>>
          /\ mergerFaults' = mergerFaults \/ ChildFault
      BY <1>4 DEF NothingDue, Going
    <2>2. /\ c \in Children /\ c.mode = "nap" /\ c.stuck = child[p].stuck
          /\ c.doomed = child[p].doomed /\ c.recent = child[p].recent
          /\ c.budget = 0 /\ c.fails = child[p].fails
          /\ c.term = child[p].term
      BY <1>1, <1>2 DEF Children, Modes, Naps
    <2>3. ~child[p].stuck /\ ~child[p].doomed
      BY <2>1 DEF Healthy
    <2>4. c.budget <= child[p].budget
      BY <1>1, <2>2 DEF Children
    <2> HIDE DEF c
    <2>5. QED
      BY <2>1, <2>2, <2>3, <2>4, WorkKeeps
  <1>5. CASE NoteMerge(p)
    <2> DEFINE c == [child[p] EXCEPT !.mode = "pass"]
    <2>1. /\ Healthy(p) /\ child[p].mode # "boot" /\ Saves(p, c, FALSE)
          /\ UNCHANGED <<supVars, full, merged, lost>>
          /\ mergerFaults' = mergerFaults \/ ChildFault
      BY <1>5 DEF NoteMerge, Going
    <2>2. /\ c \in Children /\ c.mode = "pass" /\ c.stuck = child[p].stuck
          /\ c.doomed = child[p].doomed /\ c.recent = child[p].recent
          /\ c.budget = child[p].budget /\ c.fails = child[p].fails
          /\ c.term = child[p].term
      BY <1>1, <1>2 DEF Children, Modes, Naps
    <2>3. ~child[p].stuck /\ ~child[p].doomed
      BY <2>1 DEF Healthy
    <2>4. c.budget <= child[p].budget
      BY <1>1, <2>2 DEF Children
    <2> HIDE DEF c
    <2>5. QED
      BY <2>1, <2>2, <2>3, <2>4, WorkKeeps
  <1>6. CASE Beat(p)
    <2> DEFINE c == [child[p] EXCEPT !.owes = FALSE]
    <2>1. /\ Healthy(p) /\ child[p].mode # "boot" /\ Saves(p, c, FALSE)
          /\ UNCHANGED <<supVars, full, merged, lost>>
          /\ mergerFaults' = mergerFaults \/ ChildFault
      BY <1>6 DEF Beat, Going
    <2>2. /\ c \in Children /\ c.mode \in {"pass", "nap"}
          /\ c.stuck = child[p].stuck
          /\ c.doomed = child[p].doomed /\ c.recent = child[p].recent
          /\ c.budget = child[p].budget /\ c.fails = child[p].fails
          /\ c.term = child[p].term
      BY <1>1, <1>2, <1>6 DEF Children, Modes, Beat
    <2>3. ~child[p].stuck /\ ~child[p].doomed
      BY <2>1 DEF Healthy
    <2>4. c.budget <= child[p].budget
      BY <1>1, <2>2 DEF Children
    <2> HIDE DEF c
    <2>5. QED
      BY <2>1, <2>2, <2>3, <2>4, WorkKeeps
  <1>7. CASE PassEnds(p)
    <2> PICK w \in BOOLEAN :
            Saves(p, Naps([child[p] EXCEPT !.back = 0, !.waiting = w], 1),
                  FALSE)
      BY <1>7 DEF PassEnds
    <2> DEFINE c == Naps([child[p] EXCEPT !.back = 0, !.waiting = w], 1)
    <2>1. /\ Healthy(p) /\ child[p].mode # "boot" /\ Saves(p, c, FALSE)
          /\ UNCHANGED <<supVars, full, merged, lost>>
          /\ mergerFaults' = mergerFaults \/ ChildFault
      BY <1>7 DEF PassEnds, Going
    <2>2. /\ c \in Children /\ c.mode = "nap" /\ c.stuck = child[p].stuck
          /\ c.doomed = child[p].doomed /\ c.recent = child[p].recent
          /\ c.budget = 0 /\ c.fails = child[p].fails
          /\ c.term = child[p].term
      BY <1>1, <1>2 DEF Children, Modes, Naps
    <2>3. ~child[p].stuck /\ ~child[p].doomed
      BY <2>1 DEF Healthy
    <2>4. c.budget <= child[p].budget
      BY <1>1, <2>2 DEF Children
    <2> HIDE DEF c
    <2>5. QED
      BY <2>1, <2>2, <2>3, <2>4, WorkKeeps
  <1>8. CASE StepFails(p)
    <2> DEFINE b == IF child[p].back = 0 THEN 1
                    ELSE Least(BackMax, 2 * child[p].back)
    <2>b. b \in 0..BackMax
      BY <1>1, Limits DEF Children, Least
    <2> DEFINE c == Naps([child[p] EXCEPT !.back = b,
                       !.news = @ \/ child[p].mode = "pass"], b)
    <2>1. /\ Healthy(p) /\ child[p].mode # "boot" /\ Saves(p, c, FALSE)
          /\ UNCHANGED <<supVars, full, merged, lost>>
          /\ mergerFaults' = mergerFaults \/ ChildFault
      BY <1>8 DEF StepFails, Going
    <2>2. /\ c \in Children /\ c.mode = "nap" /\ c.stuck = child[p].stuck
          /\ c.doomed = child[p].doomed /\ c.recent = child[p].recent
          /\ c.budget = 0 /\ c.fails = child[p].fails
          /\ c.term = child[p].term
      BY ZenonT(40), <1>1, <1>2, <2>b DEF Children, Modes, Naps
    <2>3. ~child[p].stuck /\ ~child[p].doomed
      BY <2>1 DEF Healthy
    <2>4. c.budget <= child[p].budget
      BY <1>1, <2>2 DEF Children
    <2> HIDE DEF c
    <2>5. QED
      BY <2>1, <2>2, <2>3, <2>4, WorkKeeps
  <1>9. QED
    BY <1>3, <1>4, <1>5, <1>6, <1>7, <1>8

\* A merge adds one to the load and takes one from the budget.
LEMMA MergeKeeps ==
    ASSUME MergerInv, NEW p \in Pids, NEW s \in Slots, MergeGroup(p, s)
    PROVE  MergerInv'
  <1> DEFINE d == [child[p] EXCEPT !.mode = "merged", !.recent = @ \cup {s},
                                   !.budget = @ - 1, !.news = TRUE]
  <1>1. /\ child \in [Pids -> Children] /\ merged \in [Slots -> 0..Hour]
        /\ Alone /\ Remembers /\ Talks /\ Reasons
    BY DEF MergerInv, MergerTypeOK, Children
  <1>2. /\ Healthy(p) /\ child[p].mode = "pass" /\ child[p].budget > 0
        /\ merged' = [merged EXCEPT ![s] = 0]
        /\ UNCHANGED <<supVars, status, full, mergerFaults, lost>>
        /\ child' = [child EXCEPT ![p] = d]
    BY DEF MergeGroup, Going
  <1>3. /\ d \in Children /\ d.mode = "merged" /\ d.stuck = child[p].stuck
        /\ d.doomed = child[p].doomed /\ d.recent = child[p].recent \cup {s}
        /\ d.budget = child[p].budget - 1 /\ d.fails = child[p].fails
        /\ d.term = child[p].term
    <2>1. child[p].budget - 1 \in 0..MaxPerHour
      BY <1>1, <1>2, Limits DEF Children
    <2>2. QED
      BY ZenonT(40), <1>1, <2>1 DEF Children, Modes
  <1> HIDE DEF d
  <1>4. /\ child' \in [Pids -> Children] /\ child'[p] = d
        /\ \A q \in Pids \ {p} : child'[q] = child[q] /\ child[q] = NoChild
    BY <1>1, <1>2, <1>3 DEF Alone
  <1>5. Kept' = Kept \cup {s}
    BY <1>2, <1>3, <1>4 DEF Kept
  <1>6. Load' = Load \cup {s}
    <2>1. /\ merged'[s] < Hour
          /\ \A t \in Slots \ {s} : merged'[t] = merged[t]
      BY <1>1, <1>2, Limits
    <2>2. Load' = {t \in Kept' : merged'[t] < Hour}
      BY DEF Load
    <2>3. QED
      BY <1>5, <2>1, <2>2 DEF Load, Kept
  <1>7. MergerTypeOK'
    <2>1. merged' \in [Slots -> 0..Hour]
      BY <1>1, <1>2, Limits
    <2>2. QED
      BY <1>2, <1>4, <2>1 DEF MergerInv, MergerTypeOK, Children, supVars
  <1>8. Alone'
    BY <1>1, <1>2, <1>3, <1>4 DEF Alone, supVars
  <1>9. Remembers'
    <2>1. \A t \in Slots : (merged'[t] < Hour /\ t \notin lost) => t \in Kept'
      BY <1>1, <1>2, <1>5 DEF Remembers
    <2>2. \A q \in Pids : child'[q].mode \notin {"off", "boot"} =>
            \A f \in StatusFiles : status[f].recent \subseteq child'[q].recent
      BY <1>1, <1>2, <1>3, <1>4, Nobody DEF Remembers
    <2>3. \A q \in Pids : Cardinality(Load') + child'[q].budget <= MaxPerHour
      <3>1. /\ Cardinality(Load) \in Nat /\ Cardinality(Load') \in Nat
            /\ Cardinality(Load') <= Cardinality(Load) + 1
        BY <1>6, LoadFinite, FS_AddElement
      <3>2. /\ Cardinality(Load) + child[p].budget <= MaxPerHour
            /\ child[p].budget \in Nat
        BY <1>1 DEF Remembers, Children
      <3>3. Cardinality(Load') + d.budget <= MaxPerHour
        BY <1>3, <3>1, <3>2, Limits
      <3>4. Cardinality(Load') <= MaxPerHour
        BY <1>2, <3>1, <3>2, Limits
      <3>5. QED
        BY <1>4, <3>1, <3>3, <3>4, Nobody
    <2>4. status' = status /\ lost' = lost
      BY <1>2
    <2>5. \A f, g \in StatusFiles : status[f].age < status[g].age =>
            status[g].recent \subseteq status[f].recent
      BY <1>1 DEF Remembers
    <2>6. QED
      BY <2>1, <2>2, <2>3, <2>4, <2>5 DEF Remembers
  <1>10. Talks'
    <2> SUFFICES ASSUME NEW q \in Pids, Healthy(q)'
                 PROVE  /\ HeardOf(q, Silence(child[q]))'
                        /\ child'[q].fails = FailsMax => child'[q].term
      BY DEF Talks
    <2>1. q = p
      BY <1>4, Nobody DEF Healthy
    <2>2. /\ HeardOf(p, Silence(child[p]))
          /\ child[p].fails = FailsMax => child[p].term
      BY <1>1, <1>2 DEF Talks
    <2>3. /\ Silence(child[p]) \in Nat /\ Silence(d) \in Nat
          /\ Silence(child[p]) <= Silence(d)
      BY <1>1, <1>3, Limits DEF Silence, Least, Children
    <2>4. started \in Nat /\ \A f \in StatusFiles : status[f].age \in Nat
      BY DEF MergerInv, MergerTypeOK
    <2>5. HeardOf(p, Silence(d))
      BY <2>2, <2>3, <2>4, HeardLonger
    <2>6. started' = started /\ status' = status
      BY <1>2 DEF supVars
    <2>7. HeardOf(p, Silence(child[p]))'
      BY <1>4, <2>5, <2>6 DEF HeardOf
    <2>8. QED
      BY <1>3, <1>4, <2>1, <2>2, <2>7
  <1>11. Reasons'
    <2>1. sup' = sup /\ proc' = proc
      BY <1>2 DEF supVars
    <2>2. \A q \in Pids : child'[q].doomed => child[q].doomed
      BY <1>3, <1>4
    <2>3. sup.at # "term"
      BY <1>1, <1>2 DEF Reasons, Alone, Healthy
    <2>4. QED
      BY <1>1, <2>1, <2>2, <2>3 DEF Reasons
  <1>12. QED
    BY <1>7, <1>8, <1>9, <1>10, <1>11 DEF MergerInv

\* A process that stops has noted what it remembers, if it could.
LEMMA EndsKeep ==
    ASSUME MergerInv, NEW p \in Pids,
           Stops(p) \/ Killed(p) \/ ChildCrashes(p)
    PROVE  MergerInv'
  <1>1. CASE Stops(p)
    <2> DEFINE line == [pid |-> p, age |-> 0, stopped |-> TRUE,
                        recent |-> child[p].recent]
               file == IF "main" \in full THEN "fallback" ELSE "main"
    <2>1. /\ child[p].mode \notin {"off", "boot"}
          /\ child' = [child EXCEPT ![p] = NoChild]
          /\ UNCHANGED <<supVars, full, merged, mergerFaults>>
          /\ mergerFaults' \in 0..MaxChildFaults
      BY <1>1 DEF Stops, MergerInv, MergerTypeOK
    <2>2. CASE full = StatusFiles
      BY <1>1, <2>1, <2>2, DieKeeps DEF Stops
    <2>3. CASE full # StatusFiles
      <3>1. lost' = lost /\ status' = [status EXCEPT ![file] = line]
        BY <1>1, <2>3 DEF Stops
      <3>2. /\ line \in Lines /\ file \in StatusFiles
            /\ line.age = 0 /\ line.recent = child[p].recent
        BY Limits DEF MergerInv, MergerTypeOK, Lines, StatusFiles
      <3> HIDE DEF line, file
      <3>3. QED
        BY <2>1, <3>1, <3>2, DieKeeps
    <2>4. QED
      BY <2>2, <2>3
  <1>2. CASE Killed(p)
    <2>1. child[p].mode # "off"
      BY <1>2, Nobody DEF Killed, MergerInv, Alone
    <2>2. QED
      BY <1>2, <2>1, DieKeeps DEF Killed, Dies, MergerInv, MergerTypeOK
  <1>3. CASE ChildCrashes(p)
    <2>1. child[p].mode # "off" /\ mergerFaults' \in 0..MaxChildFaults
      BY <1>3, Limits
         DEF ChildCrashes, Alive, ChildFault, MergerInv, MergerTypeOK
    <2>2. QED
      BY <1>3, <2>1, DieKeeps DEF ChildCrashes, Dies
  <1>4. QED
    BY <1>1, <1>2, <1>3

-----------------------------------------------------------------------------
(* The supervisor's steps, the time, and what else happens.                *)

\* A step that changes no more than what a process does, was told or knows of
\* the index, and where the supervisor is, keeps the invariant if no process
\* is asked to speak earlier for it.
LEMMA FlagsKeep ==
    ASSUME MergerInv, child' \in [Pids -> Children],
           \A q \in Pids :
                \/ child'[q] = child[q]
                \/ /\ child[q].mode # "off" /\ child'[q].mode # "off"
                   /\ child'[q].mode = "boot" <=> child[q].mode = "boot"
                   /\ child'[q].recent = child[q].recent
                   /\ child'[q].budget = child[q].budget
                   /\ child'[q].fails = child[q].fails
                   /\ child[q].term => child'[q].term
                   /\ child[q].stuck => child'[q].stuck
                   /\ child[q].doomed => child'[q].doomed
                   /\ Silence(child[q]) <= Silence(child'[q]),
           UNCHANGED <<status, merged, lost, proc, started>>,
           sup' \in Supervisors, stopper' \in {"no", "set", "done"},
           full' \subseteq StatusFiles, mergerFaults' \in 0..MaxChildFaults,
           sup'.at \in {"start", "backoff"} =>
                \A q \in Pids : child[q].mode = "off",
           Reasons'
    PROVE  MergerInv'
  <1>1. /\ child \in [Pids -> Children]
        /\ Alone /\ Remembers /\ Talks
    BY DEF MergerInv, MergerTypeOK, Children
  <1>2. MergerTypeOK'
    BY DEF MergerInv, MergerTypeOK, Children, Supervisors
  <1>3. Alone'
    <2>1. \A q \in Pids : child'[q].mode # "off" => child[q].mode # "off"
      OBVIOUS
    <2>2. \A q \in Pids : child'[q].mode = "off" => child'[q] = NoChild
      BY <1>1 DEF Alone
    <2>3. \A q \in Pids : child'[q].mode = "boot" =>
            child'[q].recent = {} /\ child'[q].budget = 0
      BY <1>1 DEF Alone
    <2>4. QED
      BY <1>1, <2>1, <2>2, <2>3 DEF Alone
  <1>4. Remembers'
    BY <1>1, MemoryStays
  <1>5. Talks'
    <2> SUFFICES ASSUME NEW q \in Pids, Healthy(q)'
                 PROVE  /\ HeardOf(q, Silence(child[q]))'
                        /\ child'[q].fails = FailsMax => child'[q].term
      BY DEF Talks
    <2>1. Healthy(q)
      BY DEF Healthy
    <2>2. /\ HeardOf(q, Silence(child[q]))
          /\ child[q].fails = FailsMax => child[q].term
      BY <1>1, <2>1 DEF Talks
    <2>3. /\ Silence(child[q]) \in Nat /\ Silence(child'[q]) \in Nat
          /\ Silence(child[q]) <= Silence(child'[q])
      <3>1. child[q] \in Children /\ child'[q] \in Children
        BY <1>1
      <3>2. \A c \in Children : Silence(c) \in Nat
        BY Limits DEF Silence, Least, Children
      <3>3. QED
        BY <3>1, <3>2
    <2>4. started \in Nat /\ \A f \in StatusFiles : status[f].age \in Nat
      BY DEF MergerInv, MergerTypeOK
    <2>5. HeardOf(q, Silence(child'[q]))
      BY <2>2, <2>3, <2>4, HeardLonger
    <2>6. HeardOf(q, Silence(child[q]))'
      BY <2>5 DEF HeardOf
    <2>7. QED
      BY <2>2, <2>6
  <1>6. QED
    BY <1>2, <1>3, <1>4, <1>5 DEF MergerInv

\* The child's other steps: it wakes up or hangs; the index changes.
LEMMA SilentKeeps ==
    ASSUME MergerInv, NEW p \in Pids, Wakes(p) \/ Hang(p) \/ IndexChanges
    PROVE  MergerInv'
  <1>1. /\ child \in [Pids -> Children] /\ sup \in Supervisors
        /\ Alone /\ Reasons
    BY DEF MergerInv, MergerTypeOK, Children, Supervisors
  <1>2. /\ UNCHANGED <<status, merged, lost, proc, started, sup, stopper>>
        /\ full' \subseteq StatusFiles /\ mergerFaults' \in 0..MaxChildFaults
        /\ stopper' \in {"no", "set", "done"}
    BY Limits DEF Wakes, Hang, IndexChanges, supVars, ChildFault, MergerInv,
                  MergerTypeOK
  <1>3. \A c \in Children : Silence(c) <= Least(c.fails + 1, FailsMax)
    BY Limits DEF Silence, Least, Children
  <1>4. /\ child' \in [Pids -> Children]
        /\ \A q \in Pids :
                \/ child'[q] = child[q]
                \/ /\ child[q].mode # "off" /\ child'[q].mode # "off"
                   /\ child'[q].mode = "boot" <=> child[q].mode = "boot"
                   /\ child'[q].recent = child[q].recent
                   /\ child'[q].budget = child[q].budget
                   /\ child'[q].fails = child[q].fails
                   /\ child[q].term => child'[q].term
                   /\ child[q].stuck => child'[q].stuck
                   /\ child[q].doomed = child'[q].doomed
                   /\ Silence(child[q]) <= Silence(child'[q])
    <2>1. CASE Wakes(p)
      <3> DEFINE d == [child[p] EXCEPT !.mode = "cycle", !.owes = FALSE]
      <3>1. child' = [child EXCEPT ![p] = d] /\ child[p].mode = "nap"
        BY <2>1 DEF Wakes, Going
      <3>2. /\ d \in Children /\ d.mode = "cycle"
            /\ d.recent = child[p].recent /\ d.budget = child[p].budget
            /\ d.fails = child[p].fails /\ d.term = child[p].term
            /\ d.stuck = child[p].stuck /\ d.doomed = child[p].doomed
        BY ZenonT(40), <1>1 DEF Children, Modes
      <3> HIDE DEF d
      <3>3. Silence(child[p]) <= Silence(d)
        BY <1>1, <1>3, <3>2 DEF Silence
      <3>4. QED
        BY <1>1, <3>1, <3>2, <3>3
    <2>2. CASE Hang(p)
      <3> DEFINE d == [child[p] EXCEPT !.stuck = TRUE]
      <3>1. child' = [child EXCEPT ![p] = d] /\ child[p].mode # "off"
        BY <2>2 DEF Hang, Healthy
      <3>2. /\ d \in Children /\ d.mode = child[p].mode
            /\ d.recent = child[p].recent /\ d.budget = child[p].budget
            /\ d.fails = child[p].fails /\ d.term = child[p].term
            /\ d.stuck /\ d.doomed = child[p].doomed
            /\ d.owes = child[p].owes
        BY <1>1 DEF Children
      <3> HIDE DEF d
      <3>3. Silence(child[p]) <= Silence(d)
        BY <1>1, <3>2, Limits DEF Silence, Least, Children
      <3>4. QED
        BY <1>1, <3>1, <3>2, <3>3
    <2>3. CASE IndexChanges
      <3> DEFINE N(c) == [c EXCEPT !.news = TRUE]
      <3>1. \A c \in Children :
                /\ N(c) \in Children /\ N(c).mode = c.mode
                /\ N(c).recent = c.recent /\ N(c).budget = c.budget
                /\ N(c).fails = c.fails /\ N(c).term = c.term
                /\ N(c).stuck = c.stuck /\ N(c).doomed = c.doomed
                /\ N(c).owes = c.owes
        BY DEF Children
      <3>2. \A q \in Pids :
                \/ child'[q] = child[q]
                \/ child[q].mode # "off" /\ child'[q] = N(child[q])
        BY <2>3 DEF IndexChanges, Alive
      <3>3. child' = [q \in Pids |-> child'[q]]
        BY <2>3 DEF IndexChanges
      <3> HIDE DEF N
      <3>4. \A c \in Children : Silence(c) <= Silence(N(c))
        BY <3>1, Limits DEF Silence, Least, Children
      <3>5. QED
        BY <1>1, <3>1, <3>2, <3>3, <3>4
    <2>4. QED
      BY <2>1, <2>2, <2>3
  <1>5. Reasons'
    <2>1. \A q \in Pids : child'[q].doomed = child[q].doomed
      BY <1>4
    <2>2. ASSUME sup.at = "term"
          PROVE  child'[proc].mode = "off" \/ child'[proc].stuck
      BY <1>1, <1>4, <2>2 DEF Reasons
    <2>3. QED
      BY <1>1, <1>2, <2>1, <2>2 DEF Reasons
  <1>6. sup.at \in {"start", "backoff"} => \A q \in Pids : child[q].mode = "off"
    BY <1>1 DEF Alone
  <1>7. QED
    BY <1>1, <1>2, <1>4, <1>5, <1>6, FlagsKeep

\* A merger at work has been heard of within the limit: whom the watchdog
\* finds silent hangs.
LEMMA SilentHangs ==
    ASSUME MergerInv, NEW p \in Pids, child[p].mode # "off", Hung(p)
    PROVE  child[p].stuck \/ child[p].doomed
  <1> SUFFICES ASSUME Healthy(p)
               PROVE  FALSE
    BY DEF Healthy
  <1>1. HeardOf(p, Silence(child[p])) /\ child[p] \in Children
    BY DEF MergerInv, MergerTypeOK, Talks, Children
  <1>2. Silence(child[p]) \in Nat /\ Silence(child[p]) < HungLimit
    BY <1>1, Limits DEF Silence, Least, Children
  <1>3. started \in Nat /\ \A f \in StatusFiles : status[f].age \in Nat
    BY DEF MergerInv, MergerTypeOK
  <1>4. CASE started <= Silence(child[p])
    BY <1>2, <1>3, <1>4, Limits DEF Hung
  <1>5. ASSUME NEW f \in StatusFiles, status[f].pid = p,
               status[f].age <= Silence(child[p])
        PROVE  FALSE
    <2>1. status[f] \in Heartbeat(p)
      BY <1>5 DEF Heartbeat
    <2>2. status[f].age > HungLimit
      BY <2>1 DEF Hung
    <2>3. QED
      BY <1>2, <1>3, <1>5, <2>2, Limits
  <1>6. QED
    BY <1>1, <1>4, <1>5 DEF HeardOf

\* A process is told to end, or killed.
LEMMA SignalKeeps ==
    ASSUME MergerInv, Terminate \/ SigKill \/ StopChild
    PROVE  MergerInv'
  <1>1. /\ child \in [Pids -> Children] /\ sup \in Supervisors
        /\ Alone /\ Reasons
    BY DEF MergerInv, MergerTypeOK, Children, Supervisors
  <1>2. /\ UNCHANGED <<status, merged, lost, proc, started, full>>
        /\ full' \subseteq StatusFiles /\ mergerFaults' \in 0..MaxChildFaults
        /\ stopper' \in {"no", "set", "done"}
    BY DEF Terminate, SigKill, StopChild, MergerInv, MergerTypeOK
  <1>3. /\ sup' \in Supervisors
        /\ sup'.at = IF Terminate THEN "term"
                     ELSE IF SigKill THEN "linger" ELSE sup.at
    BY <1>1 DEF Terminate, SigKill, StopChild, Supervisors
  <1> DEFINE T(c) == [c EXCEPT !.term = TRUE]
             D(c) == [c EXCEPT !.doomed = TRUE]
  <1>4. \A c \in Children :
            /\ T(c) \in Children /\ T(c).mode = c.mode
            /\ T(c).recent = c.recent /\ T(c).budget = c.budget
            /\ T(c).fails = c.fails /\ T(c).term
            /\ T(c).stuck = c.stuck /\ T(c).doomed = c.doomed
            /\ T(c).owes = c.owes
    BY DEF Children
  <1>5. \A c \in Children :
            /\ D(c) \in Children /\ D(c).mode = c.mode
            /\ D(c).recent = c.recent /\ D(c).budget = c.budget
            /\ D(c).fails = c.fails /\ D(c).term = c.term
            /\ D(c).stuck = c.stuck /\ D(c).doomed
            /\ D(c).owes = c.owes
    BY DEF Children
  <1>6. \/ child' = child
        \/ /\ proc \in Pids /\ child[proc].mode # "off"
           /\ \/ child' = [child EXCEPT ![proc] = T(child[proc])]
              \/ SigKill /\ child' = [child EXCEPT ![proc] = D(child[proc])]
    <2>1. CASE Terminate
      BY <2>1 DEF Terminate, Alive
    <2>2. CASE SigKill
      BY <2>2 DEF SigKill, Alive
    <2>3. CASE StopChild
      BY <2>3 DEF StopChild, Alive
    <2>4. QED
      BY <2>1, <2>2, <2>3
  <1> HIDE DEF T, D
  <1>7. /\ child' \in [Pids -> Children]
        /\ \A q \in Pids :
            \/ child'[q] = child[q]
            \/ child[q].mode # "off" /\ child'[q] = T(child[q])
            \/ SigKill /\ child[q].mode # "off" /\ child'[q] = D(child[q])
    BY <1>1, <1>4, <1>5, <1>6
  <1>8. \A c \in Children :
            Silence(c) <= Silence(T(c)) /\ Silence(c) <= Silence(D(c))
    BY <1>4, <1>5, Limits DEF Silence, Least, Children
  <1>9. Reasons'
    <2>1. \A q \in Pids : child'[q].stuck = child[q].stuck
                          /\ child'[q].mode = child[q].mode
      BY <1>1, <1>4, <1>5, <1>7
    <2>2. ASSUME NEW q \in Pids, child'[q].doomed
          PROVE  child[q].doomed \/ SigKill
      BY <1>1, <1>4, <1>7, <2>2
    <2>3. CASE Terminate
      <3>1. /\ sup.at = "watch" /\ proc \in Pids
            /\ child[proc].mode # "off" /\ Hung(proc)
        BY <2>3 DEF Terminate, Alive
      <3>2. child[proc].stuck
        BY <1>1, <3>1, SilentHangs DEF Reasons
      <3>3. \A q \in Pids : ~child'[q].doomed
        <4>1. ~SigKill
          BY <3>1 DEF SigKill
        <4>2. QED
          BY <1>1, <2>2, <3>1, <4>1 DEF Reasons
      <3>4. QED
        BY <1>2, <1>3, <2>1, <2>3, <3>1, <3>2, <3>3 DEF Reasons
    <2>4. CASE SigKill
      <3>1. sup.at = "term" /\ proc \in Pids
        BY <2>4 DEF SigKill, Alive
      <3>2. sup'.at = "linger"
        BY <1>3, <2>4, <3>1 DEF Terminate
      <3>3. QED
        BY <1>2, <3>1, <3>2 DEF Reasons
    <2>5. CASE ~Terminate /\ ~SigKill
      <3>1. sup'.at = sup.at
        BY <1>3, <2>5
      <3>2. ASSUME sup.at = "term"
            PROVE  child'[proc].mode = "off" \/ child'[proc].stuck
        BY <1>1, <2>1, <3>2 DEF Reasons
      <3>3. \A q \in Pids : child'[q].doomed => child[q].doomed
        BY <2>2, <2>5
      <3>4. QED
        BY <1>1, <1>2, <3>1, <3>2, <3>3 DEF Reasons
    <2>6. QED
      BY <2>3, <2>4, <2>5
  <1>10. sup'.at \in {"start", "backoff"} =>
            \A q \in Pids : child[q].mode = "off"
    BY <1>1, <1>3 DEF Alone
  <1>11. \A q \in Pids :
                \/ child'[q] = child[q]
                \/ /\ child[q].mode # "off" /\ child'[q].mode # "off"
                   /\ child'[q].mode = "boot" <=> child[q].mode = "boot"
                   /\ child'[q].recent = child[q].recent
                   /\ child'[q].budget = child[q].budget
                   /\ child'[q].fails = child[q].fails
                   /\ child[q].term => child'[q].term
                   /\ child[q].stuck => child'[q].stuck
                   /\ child[q].doomed => child'[q].doomed
                   /\ Silence(child[q]) <= Silence(child'[q])
    BY <1>1, <1>4, <1>5, <1>7, <1>8
  <1>12. QED
    BY <1>2, <1>3, <1>7, <1>9, <1>10, <1>11, FlagsKeep

\* The supervisor goes on, or only what the disks hold or stop() says changes.
LEMMA SupervisorKeeps ==
    ASSUME MergerInv,
           \/ LaunchFails \/ Register \/ SeesExit \/ BackoffEnds \/ SeesStop
           \/ Stop \/ \E f \in StatusFiles : DiskFills(f) \/ DiskHasRoom(f)
    PROVE  MergerInv'
  <1> USE DEF hostVars
  <1>1. /\ child \in [Pids -> Children] /\ sup \in Supervisors
        /\ full \subseteq StatusFiles /\ stopper \in {"no", "set", "done"}
        /\ mergerFaults \in 0..MaxChildFaults
        /\ Alone /\ Reasons
    BY DEF MergerInv, MergerTypeOK, Children, Supervisors
  <1>2. /\ UNCHANGED <<child, status, merged, lost, proc, started>>
        /\ full' \subseteq StatusFiles /\ mergerFaults' \in 0..MaxChildFaults
        /\ stopper' \in {"no", "set", "done"}
    BY <1>1, Limits
       DEF LaunchFails, Register, SeesExit, BackoffEnds, SeesStop, Stop,
           DiskFills, DiskHasRoom, supVars, ChildFault
  <1>3. CASE LaunchFails \/ SeesExit
    <2>1. sup' \in Supervisors /\ sup'.at = "backoff"
      BY <1>1, <1>3, Limits
         DEF LaunchFails, SeesExit, Backs, Supervisors, Least
    <2>2. \A q \in Pids : child[q].mode = "off"
      BY <1>1, <1>3 DEF LaunchFails, SeesExit, Alone, Alive
    <2>3. Reasons'
      BY <1>1, <1>2, <2>1, <2>2, Nobody DEF Reasons, Alone
    <2>4. QED
      BY <1>1, <1>2, <2>1, <2>2, <2>3, FlagsKeep
  <1>4. CASE Register
    <2>1. sup' \in Supervisors /\ sup.at = "launched" /\ sup'.at = "watch"
      BY <1>1, <1>4 DEF Register, Supervisors
    <2>2. Reasons'
      BY <1>1, <1>2, <2>1 DEF Reasons
    <2>3. QED
      BY <1>1, <1>2, <2>1, <2>2, FlagsKeep
  <1>5. CASE BackoffEnds
    <2>1. sup' \in Supervisors /\ sup.at = "backoff" /\ sup'.at = "start"
      BY <1>1, <1>5 DEF BackoffEnds, Supervisors
    <2>2. Reasons'
      BY <1>1, <1>2, <2>1 DEF Reasons
    <2>3. \A q \in Pids : child[q].mode = "off"
      BY <1>1, <2>1 DEF Alone
    <2>4. QED
      BY <1>1, <1>2, <2>1, <2>2, <2>3, FlagsKeep
  <1>6. CASE SeesStop
    <2>1. sup' \in Supervisors /\ sup'.at = "down"
      <3>1. 0 \in 0..BackMax
        BY Limits
      <3>2. sup' = [sup EXCEPT !.at = "down", !.left = 0]
        BY <1>6 DEF SeesStop
      <3>3. QED
        BY <1>1, <3>1, <3>2 DEF Supervisors
    <2>2. Reasons'
      BY <1>1, <1>2, <2>1 DEF Reasons
    <2>3. QED
      BY <1>1, <1>2, <2>1, <2>2, FlagsKeep
  <1>7. CASE Stop \/ \E f \in StatusFiles : DiskFills(f) \/ DiskHasRoom(f)
    <2>1. sup' = sup
      BY <1>7 DEF Stop, DiskFills, DiskHasRoom, supVars
    <2>2. Reasons'
      BY <1>1, <1>2, <2>1 DEF Reasons
    <2>3. sup'.at \in {"start", "backoff"} =>
            \A q \in Pids : child[q].mode = "off"
      BY <1>1, <2>1 DEF Alone
    <2>4. QED
      BY <1>1, <1>2, <2>1, <2>2, <2>3, FlagsKeep
  <1>8. QED
    BY <1>3, <1>4, <1>5, <1>6, <1>7

\* A process is started only when none is left, with an id of its own.
LEMMA LaunchKeeps ==
    ASSUME MergerInv, Launch
    PROVE  MergerInv'
  <1> DEFINE boot == [NoChild EXCEPT !.mode = "boot"]
  <1>1. /\ child \in [Pids -> Children] /\ sup \in Supervisors
        /\ Alone /\ Remembers /\ Reasons
        /\ \A f \in StatusFiles : status[f].pid \in Pids \cup {None}
    BY DEF MergerInv, MergerTypeOK, Children, Supervisors
  <1>2. /\ sup.at = "start" /\ proc' = FreshPid
        /\ child' = [child EXCEPT ![proc'] = boot]
        /\ sup' = [sup EXCEPT !.at = "launched"] /\ started' = 0
        /\ UNCHANGED <<stopper, status, full, merged, mergerFaults, lost>>
    BY DEF Launch
  <1>3. \A q \in Pids : child[q].mode = "off" /\ child[q] = NoChild
    BY <1>1, <1>2 DEF Alone
  <1>4. proc' \in Pids
    <2>1. Pids \ {status["main"].pid, status["fallback"].pid} # {}
      BY <1>1, MergerAssumption DEF StatusFiles
    <2>2. \E q \in Pids \ Alive : \A f \in StatusFiles : status[f].pid # q
      BY <1>3, <2>1 DEF Alive, StatusFiles
    <2>3. QED
      BY <1>2, <2>2 DEF FreshPid
  <1>5. /\ boot \in Children /\ boot.mode = "boot" /\ boot.recent = {}
        /\ boot.budget = 0 /\ boot.fails = 0 /\ ~boot.doomed
    BY Nobody DEF Children, Modes
  <1> HIDE DEF boot
  <1>6. /\ child' \in [Pids -> Children] /\ child'[proc'] = boot
        /\ \A q \in Pids \ {proc'} : child'[q] = NoChild
    BY <1>1, <1>2, <1>3, <1>4, <1>5
  <1>7. sup' \in Supervisors /\ sup'.at = "launched"
    BY <1>1, <1>2 DEF Supervisors
  <1>8. MergerTypeOK'
    BY <1>2, <1>4, <1>6, <1>7, Limits
       DEF MergerInv, MergerTypeOK, Children, Supervisors
  <1>9. Alone'
    BY <1>4, <1>5, <1>6, <1>7, Nobody DEF Alone
  <1>10. Remembers'
    <2>1. \A q \in Pids : /\ child'[q].recent = child[q].recent
                          /\ child'[q].budget = child[q].budget
                          /\ child'[q].mode \in {"off", "boot"}
      BY <1>3, <1>4, <1>5, <1>6, Nobody
    <2>2. QED
      BY <1>1, <1>2, <2>1, MemoryStays
  <1>11. Talks'
    <2> SUFFICES ASSUME NEW q \in Pids, Healthy(q)'
                 PROVE  /\ HeardOf(q, Silence(child[q]))'
                        /\ child'[q].fails = FailsMax => child'[q].term
      BY DEF Talks
    <2>1. child'[q] = boot
      BY <1>6, Nobody DEF Healthy
    <2>2. Silence(child'[q]) \in Nat
      BY <1>5, <2>1, Limits DEF Silence, Least
    <2>3. HeardOf(q, Silence(child[q]))'
      BY <1>2, <2>2 DEF HeardOf
    <2>4. QED
      BY <1>5, <2>1, <2>3, Limits
  <1>12. Reasons'
    BY <1>4, <1>5, <1>6, <1>7, Nobody DEF Reasons
  <1>13. QED
    BY <1>8, <1>9, <1>10, <1>11, <1>12 DEF MergerInv

\* In an interval every merger at work has spoken; what has left the hour is
\* forgotten everywhere.
LEMMA TickKeeps ==
    ASSUME MergerInv, Tick
    PROVE  MergerInv'
  <1> DEFINE gone == {s \in Slots : merged[s] + 1 >= Hour}
  <1>1. /\ child \in [Pids -> Children] /\ status \in [StatusFiles -> Lines]
        /\ merged \in [Slots -> 0..Hour] /\ sup \in Supervisors
        /\ started \in 0..(HungLimit + 1)
        /\ Alone /\ Remembers /\ Talks /\ Reasons
    BY DEF MergerInv, MergerTypeOK, Children, Lines, Supervisors
  <1>2. /\ \A p \in Alive : Quiet(p)
        /\ started' = Least(started + 1, HungLimit + 1)
        /\ sup' = [sup EXCEPT !.left = IF @ > 0 THEN @ - 1 ELSE 0]
        /\ merged' = [s \in Slots |-> Least(merged[s] + 1, Hour)]
        /\ child' = [p \in Pids |-> [Elapse(p) EXCEPT !.recent = @ \ gone]]
        /\ status' = [f \in StatusFiles |-> [status[f] EXCEPT
                !.age = Least(@ + 1, HungLimit + 1), !.recent = @ \ gone]]
        /\ lost' = lost \ gone
        /\ UNCHANGED <<proc, stopper, full, mergerFaults>>
    BY DEF Tick
  <1>3. /\ status' \in [StatusFiles -> Lines]
        /\ \A f \in StatusFiles :
            /\ status'[f].recent = status[f].recent \ gone
            /\ status'[f].age = Least(status[f].age + 1, HungLimit + 1)
            /\ status'[f].pid = status[f].pid
    <2> SUFFICES ASSUME NEW f \in StatusFiles
                 PROVE  /\ status'[f] \in Lines
                        /\ status'[f].recent = status[f].recent \ gone
                        /\ status'[f].age =
                             Least(status[f].age + 1, HungLimit + 1)
                        /\ status'[f].pid = status[f].pid
      BY <1>2
    <2> DEFINE age == Least(status[f].age + 1, HungLimit + 1)
               recent == status[f].recent \ gone
    <2>1. status[f] \in Lines
      BY <1>1
    <2>2. age \in 0..(HungLimit + 1) /\ recent \in SUBSET Slots
      BY <2>1, Limits DEF Lines, Least
    <2>3. status'[f] = [status[f] EXCEPT !.age = age, !.recent = recent]
      BY <1>2
    <2> HIDE DEF age, recent
    <2>4. /\ status'[f] \in Lines /\ status'[f].age = age
          /\ status'[f].recent = recent /\ status'[f].pid = status[f].pid
      BY <2>1, <2>2, <2>3 DEF Lines
    <2>5. QED
      BY <2>4 DEF age, recent
  <1> DEFINE Aged(p) ==
            /\ child'[p].recent = child[p].recent \ gone
            /\ child'[p].mode = child[p].mode
            /\ child'[p].budget = child[p].budget
            /\ child'[p].fails = child[p].fails
            /\ child'[p].term = child[p].term
            /\ child'[p].stuck = child[p].stuck
            /\ child'[p].doomed = child[p].doomed
            /\ child[p].mode \in {"pass", "nap"} /\ Healthy(p) => child'[p].owes
            /\ child[p] = NoChild => child'[p] = NoChild
  <1>4. child' \in [Pids -> Children] /\ \A p \in Pids : Aged(p)
    <2> SUFFICES ASSUME NEW p \in Pids
                 PROVE  child'[p] \in Children /\ Aged(p)
      BY <1>2
    <2>1. child[p] \in Children
      BY <1>1
    <2> DEFINE e == Elapse(p)
               wait == IF child[p].wait > 0 THEN child[p].wait - 1 ELSE 0
               recent == child[p].recent \ gone
    <2>2. wait \in 0..BackMax /\ recent \in SUBSET Slots
      BY <2>1, Limits DEF Children
    <2>3. \/ /\ e = [child[p] EXCEPT !.owes = TRUE, !.wait = wait]
             /\ child[p].mode \in {"pass", "nap"}
          \/ /\ e = child[p]
             /\ ~(child[p].mode \in {"pass", "nap"} /\ Healthy(p))
      BY DEF Elapse
    <2> HIDE DEF wait, e
    <2>4. /\ e \in Children /\ e.recent = child[p].recent
          /\ e.mode = child[p].mode /\ e.budget = child[p].budget
          /\ e.fails = child[p].fails /\ e.term = child[p].term
          /\ e.stuck = child[p].stuck /\ e.doomed = child[p].doomed
          /\ child[p].mode \in {"pass", "nap"} /\ Healthy(p) => e.owes
          /\ child[p] = NoChild => e = NoChild
      BY <2>1, <2>2, <2>3, Nobody DEF Children
    <2>5. child'[p] = [e EXCEPT !.recent = recent]
      BY <1>2, <2>4 DEF e
    <2> HIDE DEF recent
    <2>6. /\ child'[p] \in Children /\ child'[p].recent = recent
          /\ child'[p].mode = e.mode /\ child'[p].budget = e.budget
          /\ child'[p].fails = e.fails /\ child'[p].term = e.term
          /\ child'[p].stuck = e.stuck /\ child'[p].doomed = e.doomed
          /\ child'[p].owes = e.owes
      BY <2>2, <2>4, <2>5 DEF Children
    <2>7. child[p] = NoChild => child'[p] = NoChild
      <3>1. [NoChild EXCEPT !.recent = {}] = NoChild
        BY DEF NoChild
      <3>2. QED
        BY <2>4, <2>5, <3>1, Nobody DEF recent
    <2>8. QED
      BY <2>4, <2>6, <2>7 DEF recent
  <1>5. /\ merged' \in [Slots -> 0..Hour]
        /\ \A s \in Slots : merged'[s] < Hour =>
             merged[s] < Hour /\ s \notin gone
    <2>1. merged \in [Slots -> 0..Hour]
      BY <1>1
    <2>2. merged' = [s \in Slots |-> Least(merged[s] + 1, Hour)]
      BY <1>2
    <2>3. \A n \in 0..Hour : /\ Least(n + 1, Hour) \in 0..Hour
                            /\ Least(n + 1, Hour) < Hour =>
                                 n < Hour /\ ~(n + 1 >= Hour)
      BY Limits DEF Least
    <2>4. \A s \in Slots : /\ merged[s] \in 0..Hour
                           /\ merged'[s] = Least(merged[s] + 1, Hour)
                           /\ s \in gone <=> merged[s] + 1 >= Hour
      BY <2>1, <2>2
    <2>5. merged' \in [Slots -> 0..Hour]
      <3>1. \A s \in Slots : Least(merged[s] + 1, Hour) \in 0..Hour
        BY <2>1, Limits DEF Least
      <3>2. QED
        BY <2>2, <3>1
    <2>6. QED
      BY <2>3, <2>4, <2>5
  <1>6. /\ started' \in 0..(HungLimit + 1)
        /\ sup' \in Supervisors /\ sup'.at = sup.at
    <2>1. started' \in 0..(HungLimit + 1)
      <3>1. /\ started \in 0..(HungLimit + 1)
            /\ started' = Least(started + 1, HungLimit + 1)
        BY <1>1, <1>2
      <3>2. QED
        BY <3>1, Limits DEF Least
    <2> DEFINE left == IF sup.left > 0 THEN sup.left - 1 ELSE 0
    <2>2. left \in 0..BackMax
      BY <1>1, Limits DEF Supervisors
    <2>3. sup' = [sup EXCEPT !.left = left]
      BY <1>2
    <2> HIDE DEF left
    <2>4. QED
      BY <1>1, <2>1, <2>2, <2>3 DEF Supervisors
  <1> HIDE DEF gone
  <1>7. MergerTypeOK'
    BY <1>2, <1>3, <1>4, <1>5, <1>6
       DEF MergerInv, MergerTypeOK, Children, Lines, Supervisors
  <1>8. Alone'
    <2>1. proc' = proc
      BY <1>2
    <2>2. \A p \in Pids : child'[p].mode = "off" => child'[p] = NoChild
      BY <1>1, <1>4 DEF Alone
    <2>3. \A p \in Pids : child'[p].mode = "boot" =>
            child'[p].recent = {} /\ child'[p].budget = 0
      BY <1>1, <1>4 DEF Alone
    <2>4. QED
      BY <1>1, <1>4, <1>6, <2>1, <2>2, <2>3 DEF Alone
  <1>9. Remembers'
    <2>1. Kept' = Kept \ gone
      BY <1>3, <1>4 DEF Kept
    <2>2. Load' \in SUBSET Load
      BY <1>5, <2>1 DEF Load, Kept
    <2>3. \A s \in Slots : (merged'[s] < Hour /\ s \notin lost') => s \in Kept'
      BY <1>1, <1>2, <1>5, <2>1 DEF Remembers
    <2>4. \A f, g \in StatusFiles : status'[f].age < status'[g].age =>
            status'[g].recent \subseteq status'[f].recent
      <3> SUFFICES ASSUME NEW f \in StatusFiles, NEW g \in StatusFiles,
                          status'[f].age < status'[g].age
                   PROVE  status'[g].recent \subseteq status'[f].recent
        OBVIOUS
      <3>1. status[f].age < status[g].age
        BY <1>1, <1>3, Limits DEF Lines, Least
      <3>2. QED
        BY <1>1, <1>3, <3>1 DEF Remembers
    <2>5. \A p \in Pids : child'[p].mode \notin {"off", "boot"} =>
            \A f \in StatusFiles : status'[f].recent \subseteq child'[p].recent
      BY <1>1, <1>3, <1>4 DEF Remembers
    <2>6. \A p \in Pids : Cardinality(Load') + child'[p].budget <= MaxPerHour
      <3> SUFFICES ASSUME NEW p \in Pids
                   PROVE  Cardinality(Load') + child'[p].budget <= MaxPerHour
        OBVIOUS
      <3>1. /\ Cardinality(Load') <= Cardinality(Load)
            /\ Cardinality(Load) \in Nat /\ Cardinality(Load') \in Nat
        BY <2>2, LoadFinite
      <3>2. /\ Cardinality(Load) + child[p].budget <= MaxPerHour
            /\ child'[p].budget = child[p].budget /\ child[p].budget \in Nat
        BY <1>1, <1>4 DEF Remembers, Children
      <3>3. QED
        BY <3>1, <3>2, Limits
    <2>7. QED
      BY <2>3, <2>4, <2>5, <2>6 DEF Remembers
  <1>10. Talks'
    <2> SUFFICES ASSUME NEW p \in Pids, Healthy(p)'
                 PROVE  /\ HeardOf(p, Silence(child[p]))'
                        /\ child'[p].fails = FailsMax => child'[p].term
      BY DEF Talks
    <2>1. Healthy(p) /\ p \in Alive
      BY <1>4 DEF Healthy, Alive
    <2>2. /\ child[p].mode \in {"pass", "nap"} /\ ~child[p].owes
          /\ ~child[p].term
      BY <1>2, <2>1 DEF Quiet, Healthy
    <2>3. /\ HeardOf(p, child[p].fails) /\ child[p].fails # FailsMax
          /\ child[p].fails \in Nat /\ child[p].fails < FailsMax
      BY <1>1, <2>1, <2>2, Limits DEF Talks, Silence, Children
    <2>4. /\ Silence(child'[p]) = child[p].fails + 1
          /\ child'[p].fails = child[p].fails
      BY <1>4, <2>1, <2>2, <2>3, Limits DEF Silence, Least
    <2>5. \/ \E f \in StatusFiles : /\ status'[f].pid = p
                                    /\ status'[f].age <= child[p].fails + 1
          \/ started' <= child[p].fails + 1
      <3>1. CASE started <= child[p].fails
        <4>1. /\ started \in 0..(HungLimit + 1)
              /\ started' = Least(started + 1, HungLimit + 1)
          BY <1>1, <1>2
        <4>2. QED
          BY <2>3, <3>1, <4>1, Limits DEF Least
      <3>2. ASSUME NEW f \in StatusFiles, status[f].pid = p,
                   status[f].age <= child[p].fails
            PROVE  status'[f].pid = p /\ status'[f].age <= child[p].fails + 1
        BY <1>1, <1>3, <2>3, <3>2, Limits DEF Least, Lines
      <3>3. QED
        BY <2>3, <3>1, <3>2 DEF HeardOf
    <2>6. HeardOf(p, Silence(child[p]))'
      BY <2>4, <2>5 DEF HeardOf
    <2>7. QED
      BY <2>3, <2>4, <2>6
  <1>11. Reasons'
    BY ZenonT(40), <1>1, <1>2, <1>4, <1>6 DEF Reasons
  <1>12. QED
    BY <1>7, <1>8, <1>9, <1>10, <1>11 DEF MergerInv

\* Every step keeps the invariant.
LEMMA StepKeepsMergerInv == MergerInv /\ [MergerNext]_mergerVars => MergerInv'
  <1> SUFFICES ASSUME MergerInv, [MergerNext]_mergerVars
               PROVE  MergerInv'
    OBVIOUS
  <1>1. CASE UNCHANGED mergerVars
    <2>1. UNCHANGED <<child, status, merged, lost, proc, started, sup, stopper,
                      full, mergerFaults>>
      BY <1>1 DEF mergerVars
    <2>2. /\ MergerTypeOK /\ Alone /\ Reasons
      BY DEF MergerInv
    <2>3. Reasons'
      BY <2>1, <2>2 DEF Reasons
    <2>4. MergerTypeOK'
      BY <2>1, <2>2 DEF MergerTypeOK
    <2>5. QED
      BY <2>1, <2>2, <2>3, <2>4, FlagsKeep
         DEF MergerTypeOK, Children, Supervisors, Alone
  <1>2. CASE SupervisorStep
    BY <1>2, LaunchKeeps, SignalKeeps, SupervisorKeeps DEF SupervisorStep
  <1>3. CASE LaunchFails \/ Stop \/ StopChild \/ Tick
    BY <1>3, SignalKeeps, SupervisorKeeps, TickKeeps
  <1>4. CASE IndexChanges
    <2>1. \E p \in Pids : TRUE
      BY MergerAssumption
    <2>2. QED
      BY <1>4, <2>1, SilentKeeps
  <1>5. ASSUME NEW p \in Pids, ChildStep(p)
        PROVE  MergerInv'
    BY <1>5, BootKeeps, SavesKeep, SilentKeeps, EndsKeep DEF ChildStep
  <1>6. ASSUME NEW p \in Pids,
               \/ PassEnds(p) \/ StepFails(p) \/ Killed(p) \/ ChildCrashes(p)
               \/ Hang(p) \/ \E s \in Slots : MergeGroup(p, s)
        PROVE  MergerInv'
    BY <1>6, SavesKeep, SilentKeeps, EndsKeep, MergeKeeps
  <1>7. CASE \E f \in StatusFiles : DiskFills(f) \/ DiskHasRoom(f)
    BY <1>7, SupervisorKeeps
  <1>8. QED
    BY <1>1, <1>2, <1>3, <1>4, <1>5, <1>6, <1>7 DEF MergerNext

-----------------------------------------------------------------------------
(* The merger's soundness.                                                 *)

\* No step but the supervisor's SIGKILL dooms a process, and what it dooms
\* hangs.
LEMMA OnlyHungDoomed ==
    ASSUME MergerInv, [MergerNext]_mergerVars, NEW p \in Pids,
           child'[p].doomed, ~child[p].doomed
    PROVE  child[p].stuck
  <1>1. /\ child \in [Pids -> Children] /\ Alone /\ Reasons
    BY DEF MergerInv, MergerTypeOK, Children
  <1>2. CASE SigKill
    <2>1. sup.at = "term" /\ proc \in Pids /\ child[proc].mode # "off"
      BY <1>2 DEF SigKill, Alive
    <2>2. child' = [child EXCEPT ![proc].doomed = TRUE]
      BY <1>2 DEF SigKill
    <2>3. p = proc
      BY <1>1, <2>1, <2>2
    <2>4. QED
      BY <1>1, <2>1, <2>3 DEF Reasons
  <1>3. ASSUME NEW q \in Pids,
               \/ Look(q) \/ NothingDue(q) \/ NoteMerge(q) \/ Beat(q)
               \/ PassEnds(q) \/ StepFails(q) \/ ChildBoots(q)
        PROVE  FALSE
    BY <1>3, BootKeeps, SavesKeep DEF Sparing
  <1>4. ASSUME NEW q \in Pids, Stops(q) \/ Killed(q) \/ ChildCrashes(q)
        PROVE  FALSE
    BY <1>1, <1>4, Nobody DEF Stops, Killed, ChildCrashes, Dies
  <1>5. ASSUME NEW q \in Pids, Wakes(q) \/ Hang(q)
        PROVE  FALSE
    <2>1. \A c \in Children :
            /\ [c EXCEPT !.mode = "cycle", !.owes = FALSE].doomed = c.doomed
            /\ [c EXCEPT !.stuck = TRUE].doomed = c.doomed
      BY DEF Children
    <2>2. QED
      BY <1>1, <1>5, <2>1 DEF Wakes, Hang
  <1>6. ASSUME NEW q \in Pids, NEW s \in Slots, MergeGroup(q, s)
        PROVE  FALSE
    <2>1. PICK recent, budget :
            child' = [child EXCEPT ![q] = [child[q] EXCEPT !.mode = "merged",
                        !.recent = recent, !.budget = budget, !.news = TRUE]]
      BY <1>6 DEF MergeGroup
    <2>2. [child[q] EXCEPT !.mode = "merged", !.recent = recent,
                           !.budget = budget, !.news = TRUE].doomed
            = child[q].doomed
      BY <1>1 DEF Children
    <2>3. QED
      BY <1>1, <2>1, <2>2
  <1>7. CASE IndexChanges
    <2>1. \A c \in Children : [c EXCEPT !.news = TRUE].doomed = c.doomed
      BY DEF Children
    <2>2. child'[p] = child[p] \/ child'[p] = [child[p] EXCEPT !.news = TRUE]
      BY <1>7 DEF IndexChanges
    <2>3. QED
      BY <1>1, <2>1, <2>2
  <1>8. CASE Tick
    <2>1. \E wait, recent :
            \/ child'[p] = [child[p] EXCEPT !.owes = TRUE, !.wait = wait,
                                            !.recent = recent]
            \/ child'[p] = [child[p] EXCEPT !.recent = recent]
      BY <1>1, <1>8 DEF Tick, Elapse, Children
    <2>2. \A wait, recent :
            /\ [child[p] EXCEPT !.owes = TRUE, !.wait = wait,
                                !.recent = recent].doomed = child[p].doomed
            /\ [child[p] EXCEPT !.recent = recent].doomed = child[p].doomed
      BY <1>1 DEF Children
    <2>3. QED
      BY <2>1, <2>2
  <1>9. CASE Launch
    <2>1. child' = [child EXCEPT ![proc'] = [NoChild EXCEPT !.mode = "boot"]]
      BY <1>9 DEF Launch
    <2>2. ~[NoChild EXCEPT !.mode = "boot"].doomed
      BY DEF NoChild
    <2>3. QED
      BY <1>1, <2>1, <2>2
  <1>10. CASE Terminate \/ StopChild
    <2>1. \/ child' = child
          \/ child' = [child EXCEPT ![proc] =
                [child[proc] EXCEPT !.term = TRUE]]
      BY <1>1, <1>10 DEF Terminate, StopChild
    <2>2. \A c \in Children : [c EXCEPT !.term = TRUE].doomed = c.doomed
      BY DEF Children
    <2>3. QED
      BY <1>1, <2>1, <2>2
  <1>11. CASE \/ LaunchFails \/ Register \/ SeesExit \/ BackoffEnds \/ SeesStop
              \/ Stop \/ \E f \in StatusFiles : DiskFills(f) \/ DiskHasRoom(f)
    <2>1. child' = child
      BY <1>11 DEF LaunchFails, Register, SeesExit, BackoffEnds, SeesStop, Stop,
                   DiskFills, DiskHasRoom, hostVars
    <2>2. QED
      BY <2>1
  <1>12. CASE UNCHANGED mergerVars
    BY <1>12 DEF mergerVars
  <1>13. QED
    BY <1>2, <1>3, <1>4, <1>5, <1>6, <1>7, <1>8, <1>9, <1>10, <1>11, <1>12
       DEF MergerNext, SupervisorStep, ChildStep

\* However many processes crash, hang or cannot write their status: no two
\* mergers run, no more than MaxPerHour merges are made in an hour but for
\* those whose process died before it noted them, and the watchdog kills only
\* a process that hangs (Supervisor._wait and hung of eventmerger.py, save and
\* the budget of merge_episodes.py's watch loop).
THEOREM MergerIsSound == MergerSpec => MergerSound
  <1>1. MergerInit => MergerInv
    BY InitMergerInv
  <1>2. MergerInv /\ [MergerNext]_mergerVars => MergerInv'
    BY StepKeepsMergerInv
  <1>3. MergerInv => MergerTypeOK
    BY DEF MergerInv
  <1>4. MergerInv => OneMerger
    <2> SUFFICES ASSUME MergerInv PROVE OneMerger
      OBVIOUS
    <2>1. Alive = {} \/ Alive = {proc}
      BY DEF MergerInv, Alone, Alive
    <2>2. Cardinality(Alive) = 0 \/ Cardinality(Alive) = 1
      <3>1. CASE Alive = {}
        BY <3>1, FS_EmptySet
      <3>2. CASE Alive = {proc}
        <4>1. Cardinality({proc}) = 1
          BY FS_Singleton
        <4>2. QED
          BY <3>2, <4>1
      <3>3. QED
        BY <2>1, <3>1, <3>2
    <2>3. QED
      BY <2>2 DEF OneMerger
  <1>5. MergerInv => HourlyCap
    <2> SUFFICES ASSUME MergerInv PROVE HourlyCap
      OBVIOUS
    <2> DEFINE T == {s \in Slots : merged[s] < Hour} \ lost
    <2>1. T \in SUBSET Load
      BY DEF MergerInv, Remembers, Load
    <2>2. PICK p \in Pids : TRUE
      BY MergerAssumption
    <2>3. /\ Cardinality(Load) + child[p].budget <= MaxPerHour
          /\ child[p].budget \in Nat
      BY DEF MergerInv, MergerTypeOK, Remembers
    <2>4. /\ Cardinality(T) <= Cardinality(Load)
          /\ Cardinality(T) \in Nat /\ Cardinality(Load) \in Nat
      BY <2>1, LoadFinite
    <2>5. Cardinality(T) <= MaxPerHour
      BY <2>3, <2>4, Limits
    <2>6. QED
      BY <2>5 DEF HourlyCap
  <1>6. MergerInv /\ [MergerNext]_mergerVars =>
          [\A p \in Pids : child'[p].doomed /\ ~child[p].doomed =>
                child[p].stuck \/ full = StatusFiles]_mergerVars
    BY OnlyHungDoomed
  <1>7. QED
    BY <1>1, <1>2, <1>3, <1>4, <1>5, <1>6, PTL
       DEF MergerSpec, MergerSound, OnlyHungKilled
=============================================================================
