---------------------------- MODULE Stores_proofs ----------------------------
(***************************************************************************)
(* Proofs about the stores that outlive a run: the warm-state cache        *)
(* (WarmCache), the records of the autocalibration Space (Autocal) and the *)
(* observations of a gauge (ObsStore).                                     *)
(***************************************************************************)
EXTENDS Autocal, WarmCache, ObsStore, NaturalsInduction, FiniteSetTheorems,
        FunctionTheorems, SequenceTheorems, WellFoundedInduction, TLAPS

LEMMA LeastOne ==
    ASSUME NEW S \in SUBSET Nat, S # {}
    PROVE  \E m \in S : \A k \in S : m <= k
<1> DEFINE R == OpToRel(<, Nat)
<1>1. PICK m \in S : \A k \in S : ~(<<k, m>> \in R)
  BY NatLessThanWellFounded, WFMin
<1>2. \A k \in S : ~(k < m)
  BY <1>1 DEF OpToRel
<1>3. \A k \in S : m <= k
  BY <1>2
<1>4. QED
  BY <1>3

LEMMA LastOne ==
    ASSUME NEW n \in Nat, NEW S \in SUBSET (0..n), S # {}
    PROVE  \E m \in S : \A k \in S : k <= m
<1> DEFINE T == {n - k : k \in S}
<1>1. T \in SUBSET Nat /\ T # {}
  <2>1. \A k \in S : n - k \in Nat /\ n - k \in T
    OBVIOUS
  <2>2. QED
    BY <2>1
<1>2. PICK m \in T : \A k \in T : m <= k
  BY <1>1, LeastOne
<1>3. PICK s \in S : m = n - s
  BY <1>2
<1>4. \A k \in S : s >= k
  <2> TAKE k \in S
  <2>1. n - k \in T
    OBVIOUS
  <2>2. m <= n - k
    BY <1>2, <2>1
  <2>3. QED
    BY <1>3, <2>2
<1>5. QED
  BY <1>4

-----------------------------------------------------------------------------
(* The warm-state cache.                                                   *)

OfConfig(S, variant, key) == \A x \in S : x.variant = variant /\ x.key = key
At(S) == {x.at : x \in S}
Plain(rec, k) == rec \in Records /\ OfConfig(rec.rows, rec.variant, k)

\* A run, typed but for the files it moves.
RunsWith(load, staged, warm, todo) ==
          [at : {"idle", "queue", "prep", "plan", "mosaic", "stage", "commit",
                 "dump", "ended"},
           kind : Kinds, from : Hours, to : Hours, first : Hours,
           waits : Configs, key : Configs, variant : Variants \cup {Nil},
           cached : SUBSET Rows, replay : BOOLEAN, load : {load},
           staged : {staged}, warm : {warm}, new : SUBSET Rows,
           ok : BOOLEAN, todo : {todo}, rec : Records]
IsRun(x) == x \in RunsWith(x.load, x.staged, x.warm, x.todo)

\* What a run has shown so far, and is about to write.
RunSound(x) ==
    /\ x.todo \subseteq Files
    /\ OfConfig(x.cached \cup x.new, x.variant, x.key)
    /\ x.at \in {"idle", "queue", "prep", "plan", "mosaic"} =>
          x.cached = {} /\ x.new = {} /\ ~x.replay
    /\ x.at \in {"stage", "commit", "dump"} =>
          (x.from + 1)..(IF x.replay THEN x.to ELSE x.first)
              \subseteq At(x.cached)
    /\ x.at \in {"plan", "mosaic", "stage", "commit", "dump"} =>
          x.variant \in Variants
    /\ x.at \in {"commit", "dump"} /\ x.ok =>
          (x.first + 1)..x.to \subseteq At(x.new)
    /\ x.at = "dump" => Plain(x.rec, x.key)
    /\ x.at = "ended" /\ x.ok =>
          (x.from + 1)..x.to \subseteq At(x.cached \cup x.new)

CacheInv ==
    /\ params \in 0..1
    /\ record \in [Configs -> Records] /\ \A k \in Configs : Plain(record[k], k)
    /\ lock \in [Configs -> Runs \cup {Nil}] /\ LocksReleased
    /\ run \in [Runs -> {run[r] : r \in Runs}] /\ grids \subseteq Files
    /\ \A r \in Runs : IsRun(run[r]) /\ RunSound(run[r])
    /\ janitor \in [at : {"idle", "pruned", "open", "dump"}, key : Configs,
                   rec : Records]
    /\ Plain(janitor.rec, janitor.key)

LEMMA RunTyped ==
    ASSUME NEW load, NEW staged, NEW warm, NEW todo,
           NEW x \in RunsWith(load, staged, warm, todo)
    PROVE  IsRun(x)
BY DEF IsRun, RunsWith

LEMMA BlankRecords ==
    /\ NoRecord \in Records /\ Torn \in Records
    /\ \A k \in Configs : Plain(NoRecord, k) /\ Plain(Torn, k)
    /\ NoRecord.rows = {} /\ Torn.rows = {}
BY DEF NoRecord, Torn, Records, Plain, OfConfig

LEMMA CacheInvImplies == CacheInv => CacheSound
<1> SUFFICES ASSUME CacheInv PROVE CacheSound
  OBVIOUS
<1>1. RowsOneConfig
  BY DEF CacheInv, RowsOneConfig, Plain, OfConfig
<1>2. AnswerWhole
  <2> SUFFICES ASSUME NEW r \in Runs, run[r].at = "ended", run[r].ok
               PROVE  LET x == run[r]
                          shown == x.cached \cup x.new
                      IN  /\ (x.from + 1)..x.to \subseteq {y.at : y \in shown}
                          /\ \A y, z \in shown : y.at = z.at => y = z
                          /\ \A y \in shown :
                                y.variant = x.variant /\ y.key = x.key
    BY DEF AnswerWhole
  <2> DEFINE x == run[r]
             shown == x.cached \cup x.new
  <2>1. IsRun(x) /\ RunSound(x)
    BY DEF CacheInv
  <2>2. (x.from + 1)..x.to \subseteq At(shown)
    BY <2>1 DEF RunSound
  <2>3. \A y \in shown : y.variant = x.variant /\ y.key = x.key
    BY <2>1 DEF RunSound, OfConfig
  <2>4. shown \subseteq Rows
    BY <2>1 DEF IsRun, RunsWith
  <2>5. \A y, z \in shown : y.at = z.at => y = z
    BY <2>3, <2>4 DEF Rows
  <2>6. QED
    BY <2>2, <2>3, <2>5 DEF At
<1>3. LocksReleased
  BY DEF CacheInv
<1>4. QED
  BY <1>1, <1>2, <1>3 DEF CacheSound

\* New rows win over old ones; the rows of both are of one configuration.
LEMMA UpdatedOfConfig ==
    ASSUME NEW old \in SUBSET Rows, NEW new \in SUBSET Rows,
           NEW variant, NEW key,
           OfConfig(old, variant, key), OfConfig(new, variant, key)
    PROVE  /\ Updated(old, new) \in SUBSET Rows
           /\ OfConfig(Updated(old, new), variant, key)
BY DEF Updated, OfConfig

\* A record that is read is sound for its key.
LEMMA LoadPlain ==
    ASSUME CacheInv, NEW k \in Configs
    PROVE  Plain(Load(k), k)
BY BlankRecords DEF CacheInv, Load

\* save_record: rows of another variant go, whatever the file held.
LEMMA SavedPlain ==
    ASSUME CacheInv, NEW r \in Runs, NEW states \in SUBSET Hours
    PROVE  LET x == run[r]
           IN  Plain(Saved(x.key, x, Updated(x.cached, x.new), states), x.key)
<1> DEFINE x == run[r]
           rec == Load(x.key)
           old == IF rec.variant = x.variant THEN rec.rows ELSE {}
           shown == Updated(x.cached, x.new)
           all == Updated(old, shown)
           out == Saved(x.key, x, shown, states)
<1>1. IsRun(x) /\ RunSound(x) /\ x.key \in Configs
  BY DEF CacheInv, IsRun, RunsWith
<1>2. shown \in SUBSET Rows /\ OfConfig(shown, x.variant, x.key)
  <2>1. /\ x.cached \in SUBSET Rows /\ x.new \in SUBSET Rows
        /\ OfConfig(x.cached, x.variant, x.key)
        /\ OfConfig(x.new, x.variant, x.key)
    BY <1>1 DEF IsRun, RunsWith, RunSound, OfConfig
  <2>2. QED
    BY <2>1, UpdatedOfConfig
<1>3. rec \in Records /\ OfConfig(rec.rows, rec.variant, x.key)
  BY <1>1, LoadPlain DEF Plain
<1>4. old \in SUBSET Rows /\ OfConfig(old, x.variant, x.key)
  BY <1>3 DEF Records, OfConfig
<1>5. all \in SUBSET Rows /\ OfConfig(all, x.variant, x.key)
  BY <1>2, <1>4, UpdatedOfConfig
<1>6. out = [rec EXCEPT !.is = "whole", !.variant = x.variant,
                        !.rows = all, !.listed = @ \cup states]
  BY DEF Saved
<1> HIDE DEF all, old, shown, rec, x
<1>7. out \in Records /\ out.rows = all /\ out.variant = x.variant
  <2>1. rec.listed \cup states \in SUBSET Hours
    BY <1>3 DEF Records
  <2>2. x.variant \in Variants \cup {Nil}
    BY <1>1 DEF IsRun, RunsWith
  <2>3. QED
    BY <1>3, <1>5, <1>6, <2>1, <2>2 DEF Records
<1>8. Plain(out, x.key)
  BY <1>5, <1>7 DEF Plain
<1>9. QED
  BY <1>8 DEF x, out, shown

\* _merge_rows: the fleet's rows join those of their own variant only.
LEMMA FleetPlain ==
    ASSUME CacheInv, NEW variant \in Variants
    PROVE  Plain(FleetMerged(BaseKey, variant), BaseKey)
<1> DEFINE k == BaseKey
           loc == Load(k)
           theirs == {[at |-> t, variant |-> FleetVariant, key |-> k] :
                         t \in FleetHours}
           fleet(x) == [is |-> "whole", variant |-> FleetVariant, rows |-> x,
                        listed |-> loc.listed \cup {FleetState},
                        fleet |-> TRUE]
           both == Updated(theirs, loc.rows)
<1>1. k \in Configs
  BY DEF BaseKey, Configs
<1>2. Plain(loc, k) /\ Plain(record[k], k)
  BY <1>1, LoadPlain DEF CacheInv
<1>3. theirs \in SUBSET Rows /\ OfConfig(theirs, FleetVariant, k)
  BY <1>1, CacheAssumption DEF Rows, OfConfig
<1>4. ASSUME NEW S \in SUBSET Rows, OfConfig(S, FleetVariant, k)
      PROVE  Plain(fleet(S), k)
  BY <1>2, <1>4, CacheAssumption DEF Plain, Records
<1>5. loc.rows \in SUBSET Rows
  BY <1>2 DEF Plain, Records
<1>6. loc.variant = FleetVariant =>
        both \in SUBSET Rows /\ OfConfig(both, FleetVariant, k)
  <2> SUFFICES ASSUME loc.variant = FleetVariant
               PROVE  both \in SUBSET Rows /\ OfConfig(both, FleetVariant, k)
    OBVIOUS
  <2>1. OfConfig(loc.rows, FleetVariant, k)
    BY <1>2 DEF Plain
  <2>2. QED
    BY <1>3, <1>5, <2>1, UpdatedOfConfig
<1>7. FleetMerged(k, variant) =
        IF loc.fleet THEN record[k]
        ELSE IF loc.rows = {} THEN fleet(theirs)
        ELSE IF loc.variant = FleetVariant THEN fleet(both)
        ELSE IF variant = FleetVariant THEN fleet(theirs)
        ELSE record[k]
  BY DEF FleetMerged
<1> HIDE DEF fleet, both, theirs, loc, k
<1>8. Plain(FleetMerged(k, variant), k)
  BY <1>2, <1>3, <1>4, <1>6, <1>7
<1>9. QED
  BY <1>8 DEF k

\* Who opens a record tears it; who writes it leaves it whole or torn.
LEMMA TruncateKeeps ==
    ASSUME CacheInv, NEW w, NEW k \in Configs, Truncate(w, k)
    PROVE  /\ record' \in [Configs -> Records]
           /\ \A c \in Configs : Plain(record'[c], c)
BY BlankRecords DEF CacheInv, Truncate

LEMMA DumpKeeps ==
    ASSUME CacheInv, NEW w, NEW k \in Configs, NEW rec, Plain(rec, k),
           JsonDump(w, k, rec)
    PROVE  /\ record' \in [Configs -> Records]
           /\ \A c \in Configs : Plain(record'[c], c)
<1>1. PICK x \in {record[k], rec, Torn} :
        record' = [record EXCEPT ![k] = x]
  BY DEF JsonDump
<1>2. Plain(x, k)
  BY <1>1, BlankRecords DEF CacheInv
<1>3. x \in Records
  BY <1>2 DEF Plain
<1>4. QED
  BY <1>1, <1>2, <1>3 DEF CacheInv

\* The rows a run reuses reach from its start without a gap.
LEMMA GreatestOne ==
    ASSUME NEW n \in Nat, NEW S \in SUBSET (0..n), S # {}
    PROVE  Max(S) \in S /\ \A k \in S : k <= Max(S)
<1>1. \E m \in S : \A k \in S : m >= k
  BY LastOne
<1>2. QED
  BY <1>1 DEF Max

LEMMA ReusedReach ==
    ASSUME CacheInv, NEW r \in Runs
    PROVE  LET x == run[r]
               S == Cached(x)
           IN  /\ S \in SUBSET Rows /\ OfConfig(S, x.variant, x.key)
               /\ End(x, S) \in Hours
               /\ (x.from + 1)..End(x, S) \subseteq At(S)
<1> DEFINE x == run[r]
           rec == Load(x.key)
           own == IF rec.variant = x.variant THEN rec.rows ELSE {}
           ats == {y.at : y \in {z \in own : z.at \in x.from..x.to}}
           good == {n \in x.from..x.to : (x.from + 1)..n \subseteq ats}
           S == Cached(x)
<1>1. /\ x.key \in Configs /\ x.from \in Hours /\ x.to \in Hours
      /\ x.from \in Nat /\ x.to \in Nat
  BY CacheAssumption DEF CacheInv, IsRun, RunsWith
<1>2. own \in SUBSET Rows /\ OfConfig(own, x.variant, x.key)
  BY <1>1, LoadPlain DEF Plain, Records, OfConfig
<1>3. CASE S = {}
  BY <1>1, <1>3 DEF End, OfConfig
<1>4. CASE S # {}
  <2>1. S = {y \in own : y.at \in x.from..Reach(x, own)}
    BY <1>4 DEF Cached, Reusable
  <2>2. S \in SUBSET Rows /\ OfConfig(S, x.variant, x.key)
    BY <1>2, <2>1 DEF OfConfig
  <2>3. Reach(x, own) =
          IF ats = {} \/ Min(ats) > x.from + 1 THEN x.from ELSE Max(good)
    BY DEF Reach
  <2> HIDE DEF S, own
  <2>4. Reach(x, own) \in Nat /\ (x.from + 1)..Reach(x, own) \subseteq ats
        /\ (Reach(x, own) = x.from \/ Reach(x, own) <= x.to)
    <3>1. CASE ats = {} \/ Min(ats) > x.from + 1
      <4>1. Reach(x, own) = x.from
        BY <2>3, <3>1
      <4>2. (x.from + 1)..x.from = {}
        BY <1>1
      <4>3. QED
        BY <1>1, <4>1, <4>2
    <3>2. CASE ~(ats = {} \/ Min(ats) > x.from + 1)
      <4>1. ats # {} /\ \A t \in ats : t \in x.from..x.to
        BY <3>2
      <4>2. x.from \in good
        BY <1>1, <4>1
      <4>3. good \in SUBSET (0..x.to) /\ good # {}
        BY <1>1, <4>2
      <4>4. Max(good) \in good
        BY <1>1, <4>3, GreatestOne
      <4>5. QED
        BY <1>1, <2>3, <3>2, <4>4
    <3>3. QED
      BY <3>1, <3>2
  <2>5. \A t \in (x.from + 1)..Reach(x, own) : t \in At(S)
    BY <1>1, <2>1, <2>4 DEF At
  <2>6. At(S) \in SUBSET (0..Reach(x, own)) /\ At(S) # {}
    BY <1>1, <1>4, <2>1, <2>4 DEF At
  <2>7. End(x, S) = Max(At(S))
    BY <1>4 DEF End, At
  <2>8. End(x, S) \in At(S) /\ End(x, S) <= Reach(x, own)
    <3>1. Max(At(S)) \in At(S)
      BY <2>4, <2>6, GreatestOne
    <3>2. Max(At(S)) \in 0..Reach(x, own)
      BY <2>6, <3>1
    <3>3. QED
      BY <2>4, <2>7, <3>1, <3>2
  <2>9. End(x, S) \in Hours
    BY <2>2, <2>8 DEF At, Rows
  <2>10. (x.from + 1)..End(x, S) \subseteq At(S)
    <3>1. End(x, S) \in Nat
      BY <2>9, CacheAssumption
    <3>2. QED
      BY <1>1, <2>4, <2>5, <2>8, <3>1
  <2>11. QED
    BY <2>2, <2>9, <2>10 DEF S
<1>5. QED
  BY <1>3, <1>4

UnderWay == {"prep", "plan", "mosaic", "stage", "commit", "dump"}

\* A step of one run keeps what holds of all.
LEMMA RunMoves ==
    ASSUME CacheInv, NEW r \in Runs, NEW y, IsRun(y), RunSound(y),
           run' = [run EXCEPT ![r] = y],
           params' = params, janitor' = janitor, grids' \subseteq Files,
           record' \in [Configs -> Records],
           \A k \in Configs : Plain(record'[k], k),
           \/ lock' = lock /\ (run[r].at \in UnderWay => y.at \in UnderWay)
           \/ lock' = EndLocks(r)
           \/ y.at \in UnderWay /\ \E k \in Configs :
                 lock' = [lock EXCEPT ![k] = r]
    PROVE  CacheInv'
<1>1. /\ run' \in [Runs -> {run'[q] : q \in Runs}] /\ run'[r] = y
      /\ \A q \in Runs \ {r} : run'[q] = run[q]
  BY DEF CacheInv
<1>2. \A q \in Runs : IsRun(run'[q]) /\ RunSound(run'[q])
  BY <1>1 DEF CacheInv
<1>3. lock' \in [Configs -> Runs \cup {Nil}]
  BY DEF CacheInv, EndLocks
<1>4. ASSUME NEW k \in Configs, lock'[k] # Nil
      PROVE  run'[lock'[k]].at \in UnderWay
  <2>1. lock[k] \in Runs => run[lock[k]].at \in UnderWay
    BY CacheAssumption DEF CacheInv, LocksReleased, UnderWay
  <2>2. lock'[k] \in Runs /\ lock[k] \in Runs \cup {Nil}
    BY <1>3, <1>4 DEF CacheInv
  <2>3. CASE lock'[k] = r
    <3>1. lock' # EndLocks(r)
      BY <2>3, <1>4 DEF EndLocks
    <3>2. QED
      BY <1>1, <2>1, <2>3, <3>1
  <2>4. CASE lock'[k] # r
    <3>1. lock'[k] = lock[k]
      BY <1>4, <2>4 DEF CacheInv, EndLocks
    <3>2. QED
      BY <1>1, <2>1, <2>2, <2>4, <3>1
  <2>5. QED
    BY <2>3, <2>4
<1>5. LocksReleased'
  BY <1>4 DEF LocksReleased, UnderWay
<1>6. QED
  BY <1>1, <1>2, <1>3, <1>5 DEF CacheInv

\* The file a run moves next is one of those it has to move.
LEMMA NextIsOne ==
    ASSUME NEW todo \in SUBSET Files, todo # {}
    PROVE  NextFile(todo) \in todo
<1> DEFINE parts == {f[2] : f \in todo}
<1>1. \A f \in todo : f[1] \in Nat /\ f[2] \in Nat
  BY CacheAssumption DEF Files
<1>2. PICK p \in parts : \A q \in parts : p <= q
  <2>1. parts \in SUBSET Nat /\ parts # {}
    BY <1>1
  <2>2. QED
    BY <2>1, LeastOne
<1> DEFINE hours == {f[1] : f \in {g \in todo : g[2] = p}}
<1>3. PICK h \in hours : \A n \in hours : h <= n
  <2>1. hours \in SUBSET Nat /\ hours # {}
    BY <1>1
  <2>2. QED
    BY <2>1, LeastOne
<1>4. PICK f \in todo : f[1] = h /\ f[2] = p
  BY <1>3
<1>5. \A g \in todo : f[2] < g[2] \/ (f[2] = g[2] /\ f[1] <= g[1])
  <2> TAKE g \in todo
  <2>1. p <= g[2]
    BY <1>2
  <2>2. g[2] = p => h <= g[1]
    BY <1>3
  <2>3. QED
    BY <1>1, <1>4, <2>1, <2>2
<1>6. QED
  BY <1>5 DEF NextFile

LEMMA IdleRun == IsRun(Idle) /\ RunSound(Idle)
<1>1. BaseKey \in Configs /\ NoRecord \in Records /\ 0 \in Hours
  BY BlankRecords, CacheAssumption DEF BaseKey, Configs
<1>2. IsRun(Idle)
  BY <1>1 DEF IsRun, RunsWith, Idle, Kinds
<1>3. RunSound(Idle)
  BY DEF RunSound, Idle, OfConfig
<1>4. QED
  BY <1>2, <1>3

LEMMA AskStep ==
    ASSUME CacheInv, NEW r \in Runs, NEW kind \in Kinds, NEW from \in Hours,
           NEW to \in Hours, Ask(r, kind, from, to)
    PROVE  CacheInv'
<1> DEFINE y == [Idle EXCEPT
                   !.at = IF kind = "nowcast" THEN "prep" ELSE "queue",
                   !.kind = kind, !.from = from, !.to = to,
                   !.waits = [params |-> params, custom |-> kind = "custom"]]
<1>1. run' = [run EXCEPT ![r] = y]
  BY DEF Ask, Set
<1>2. IsRun(y)
  <2>1. [params |-> params, custom |-> kind = "custom"] \in Configs
    BY DEF CacheInv, Configs
  <2>2. Idle \in RunsWith({}, {}, FALSE, {})
    BY IdleRun DEF IsRun, Idle
  <2>3. y \in RunsWith({}, {}, FALSE, {})
    BY <2>1, <2>2 DEF RunsWith
  <2>4. QED
    BY <2>3, RunTyped
<1>3. RunSound(y)
  BY DEF RunSound, Idle, OfConfig
<1>4. run[r].at \notin UnderWay
  BY DEF Ask, UnderWay
<1> HIDE DEF y
<1>5. QED
  BY <1>1, <1>2, <1>3, <1>4, RunMoves DEF Ask, CacheInv

LEMMA AcquireStep ==
    ASSUME CacheInv, NEW r \in Runs, Acquire(r)
    PROVE  CacheInv'
<1> DEFINE x == run[r]
           y == [x EXCEPT !.at = "prep"]
<1>1. IsRun(x) /\ RunSound(x) /\ x.at = "queue" /\ x.waits \in Configs
  BY DEF CacheInv, Acquire, IsRun, RunsWith
<1>2. y \in RunsWith(x.load, x.staged, x.warm, x.todo)
  BY <1>1 DEF IsRun, RunsWith
<1>3. /\ y.at = "prep" /\ y.cached = x.cached /\ y.new = x.new
      /\ y.variant = x.variant /\ y.key = x.key /\ y.replay = x.replay
      /\ y.todo = x.todo
  BY <1>1 DEF IsRun, RunsWith
<1>4. run' = [run EXCEPT ![r] = y] /\ lock' = [lock EXCEPT ![x.waits] = r]
  BY DEF Acquire, Set
<1> HIDE DEF y, x
<1>5. IsRun(y) /\ RunSound(y)
  BY <1>1, <1>2, <1>3, RunTyped DEF RunSound
<1>6. QED
  BY <1>1, <1>3, <1>4, <1>5, RunMoves DEF Acquire, CacheInv, UnderWay

\* A run that ends lets go of its lock; of a good one, what it showed stays.
LEMMA EndRunKeeps ==
    ASSUME CacheInv, NEW r \in Runs, NEW ok \in BOOLEAN,
           NEW old \in SUBSET Rows, EndRun(r, ok, old),
           OfConfig(old, run[r].variant, run[r].key),
           ok => LET x == run[r]
                     new == IF x.replay THEN {} ELSE x.new
                 IN  (x.from + 1)..x.to \subseteq At(old \cup new),
           params' = params, janitor' = janitor, grids' \subseteq Files,
           record' \in [Configs -> Records],
           \A k \in Configs : Plain(record'[k], k)
    PROVE  CacheInv'
<1> DEFINE x == run[r]
           new == IF x.replay THEN {} ELSE x.new
           y == IF ok THEN [Idle EXCEPT !.at = "ended", !.ok = TRUE,
                                !.from = x.from, !.to = x.to, !.key = x.key,
                                !.variant = x.variant, !.cached = old,
                                !.new = new]
                ELSE [Idle EXCEPT !.at = "ended"]
<1>1. IsRun(x) /\ RunSound(x)
  BY DEF CacheInv
<1>2. run' = [run EXCEPT ![r] = y] /\ lock' = EndLocks(r)
  BY DEF EndRun, Set
<1>3. Idle \in RunsWith({}, {}, FALSE, {})
  BY IdleRun DEF IsRun, Idle
<1>4. /\ y \in RunsWith({}, {}, FALSE, {}) /\ y.at = "ended" /\ y.ok = ok
      /\ y.todo = {}
  BY ZenonT(40), <1>1, <1>3 DEF IsRun, RunsWith, Idle
<1>5. ok => /\ y.cached = old /\ y.new = new /\ y.variant = x.variant
            /\ y.key = x.key /\ y.from = x.from /\ y.to = x.to
  BY <1>3 DEF RunsWith
<1>6. ~ok => y.cached = {} /\ y.new = {}
  BY DEF Idle
<1>7. OfConfig(old \cup new, x.variant, x.key)
  BY <1>1 DEF RunSound, OfConfig
<1>8. ok => (x.from + 1)..x.to \subseteq At(old \cup new)
  OBVIOUS
<1> HIDE DEF y, x, new
<1>9. OfConfig(y.cached \cup y.new, y.variant, y.key)
  BY <1>5, <1>6, <1>7 DEF OfConfig
<1>10. RunSound(y)
  BY <1>4, <1>5, <1>8, <1>9 DEF RunSound
<1>11. IsRun(y)
  BY <1>4, RunTyped
<1>12. QED
  BY <1>2, <1>10, <1>11, RunMoves

LEMMA GiveUpStep ==
    ASSUME CacheInv, NEW r \in Runs, GiveUp(r)
    PROVE  CacheInv'
BY EndRunKeeps DEF GiveUp, CacheInv, OfConfig

LEMMA PrepareStep ==
    ASSUME CacheInv, NEW r \in Runs, NEW variant \in Variants,
           Prepare(r, variant)
    PROVE  CacheInv'
<1> DEFINE x == run[r]
           k == [params |-> params, custom |-> x.kind = "custom"]
<1>0. PICK merged \in FleetRecords(k, variant), missing \in FleetFiles :
         /\ record' = [record EXCEPT ![k] = merged]
         /\ run' = [run EXCEPT ![r] = [x EXCEPT !.at = "plan", !.key = k,
                         !.variant = variant, !.todo = missing]]
  BY DEF Prepare, Set
<1> DEFINE y == [x EXCEPT !.at = "plan", !.key = k, !.variant = variant,
                          !.todo = missing]
<1>1. IsRun(x) /\ RunSound(x) /\ x.at = "prep"
  BY DEF CacheInv, Prepare
<1>2. k \in Configs
  BY DEF CacheInv, Configs
<1>3. Plain(merged, k) /\ missing \subseteq Files
  BY <1>0, <1>2, FleetPlain DEF CacheInv, FleetRecords, FleetFiles
<1>4. record' = [record EXCEPT ![k] = merged] /\ run' = [run EXCEPT ![r] = y]
  BY <1>0
<1>5. y \in RunsWith(x.load, x.staged, x.warm, missing)
  BY <1>1, <1>2 DEF IsRun, RunsWith
<1>6. /\ y.at = "plan" /\ y.cached = x.cached /\ y.new = x.new
      /\ y.replay = x.replay /\ y.variant = variant
      /\ y.todo \subseteq Files
  BY <1>1, <1>3 DEF IsRun, RunsWith
<1>7. UNCHANGED <<params, lock, grids, janitor>>
  BY DEF Prepare
<1> HIDE DEF y, x, k
<1>8. RunSound(y)
  BY <1>1, <1>6 DEF RunSound, OfConfig
<1>9. /\ record' \in [Configs -> Records]
      /\ \A c \in Configs : Plain(record'[c], c)
  BY <1>2, <1>3, <1>4 DEF CacheInv, Plain
<1>10. IsRun(y)
  BY <1>5, RunTyped
<1>11. QED
  BY <1>4, <1>6, <1>7, <1>8, <1>9, <1>10, RunMoves DEF UnderWay, CacheInv

\* A file more of those the run has to move.
LEMMA FileStep ==
    ASSUME CacheInv, NEW r \in Runs, NEW left \in SUBSET Files,
           grids' \subseteq Files,
           run' = [run EXCEPT ![r] = [run[r] EXCEPT !.todo = left]],
           UNCHANGED <<params, record, lock, janitor>>
    PROVE  CacheInv'
<1> DEFINE x == run[r]
           y == [x EXCEPT !.todo = left]
<1>1. IsRun(x) /\ RunSound(x)
  BY DEF CacheInv
<1>2. y \in RunsWith(x.load, x.staged, x.warm, left)
  BY <1>1 DEF IsRun, RunsWith
<1>3. /\ y.at = x.at /\ y.cached = x.cached /\ y.new = x.new
      /\ y.variant = x.variant /\ y.key = x.key /\ y.replay = x.replay
      /\ y.from = x.from /\ y.to = x.to /\ y.first = x.first
      /\ y.ok = x.ok /\ y.rec = x.rec /\ y.todo = left
  BY <1>1 DEF IsRun, RunsWith
<1>4. run' = [run EXCEPT ![r] = y]
  OBVIOUS
<1> HIDE DEF y, x
<1>5. IsRun(y) /\ RunSound(y)
  BY <1>1, <1>2, <1>3, RunTyped DEF RunSound
<1>6. run[r].at \in UnderWay => y.at \in UnderWay
  BY <1>3 DEF x
<1>7. QED
  BY <1>4, <1>5, <1>6, RunMoves DEF CacheInv

LEMMA PlanStep ==
    ASSUME CacheInv, NEW r \in Runs, Plan(r)
    PROVE  CacheInv'
<1> DEFINE x == run[r]
           S == Cached(x)
           end == End(x, S)
<1>1. IsRun(x) /\ RunSound(x) /\ x.at \in {"plan", "mosaic"}
  BY DEF CacheInv, Plan
<1>2. /\ S \in SUBSET Rows /\ OfConfig(S, x.variant, x.key)
      /\ end \in Hours /\ (x.from + 1)..end \subseteq At(S)
  BY ReusedReach
<1>3. /\ x.from \in Hours /\ x.to \in Hours /\ x.new = {}
      /\ x.variant \in Variants
  BY <1>1 DEF IsRun, RunsWith, RunSound
<1>4. UNCHANGED <<params, record, grids, janitor>>
  BY DEF Plan
<1>5. CASE end = x.to /\ EndRun(r, TRUE, S)
  <2>1. (x.from + 1)..x.to \subseteq
           At(S \cup (IF x.replay THEN {} ELSE x.new))
    BY <1>2, <1>5 DEF At
  <2> HIDE DEF S, end
  <2>2. QED
    BY <1>2, <1>4, <1>5, <2>1, EndRunKeeps DEF CacheInv
<1>6. ASSUME NEW first \in {end, x.from}, first = end => end < x.to,
             first # end => end = x.to, UNCHANGED lock,
             Set(r, [run[r] EXCEPT !.at = "stage", !.cached = S,
                       !.first = first, !.replay = first # end,
                       !.load = StateChoice(first)])
      PROVE  CacheInv'
  <2> DEFINE load == StateChoice(first)
             y == [x EXCEPT !.at = "stage", !.cached = S, !.first = first,
                            !.replay = first # end, !.load = load]
  <2>1. run' = [run EXCEPT ![r] = y]
    BY <1>6 DEF Set
  <2> HIDE DEF S, end, load
  <2>2. y \in RunsWith(load, x.staged, x.warm, x.todo)
    BY <1>1, <1>2, <1>3, <1>6 DEF IsRun, RunsWith
  <2>3. /\ y.at = "stage" /\ y.cached = S /\ y.new = x.new
        /\ y.first = first /\ y.replay = (first # end)
        /\ y.from = x.from /\ y.to = x.to
        /\ y.variant = x.variant /\ y.key = x.key /\ y.todo = x.todo
    BY <1>1 DEF IsRun, RunsWith
  <2> HIDE DEF y, x
  <2>4. RunSound(y)
    <3>1. y.todo \subseteq Files
      BY <1>1, <2>3 DEF RunSound
    <3>2. OfConfig(y.cached \cup y.new, y.variant, y.key)
      BY <1>2, <1>3, <2>3 DEF OfConfig
    <3>3. (y.from + 1)..(IF y.replay THEN y.to ELSE y.first)
            \subseteq At(y.cached)
      BY <1>2, <1>6, <2>3
    <3>4. QED
      BY <1>3, <2>3, <3>1, <3>2, <3>3 DEF RunSound
  <2>5. IsRun(y)
    BY <2>2, RunTyped
  <2>6. QED
    BY <1>4, <1>6, <2>1, <2>3, <2>4, <2>5, RunMoves DEF UnderWay, CacheInv
<1>7. QED
  BY <1>5, <1>6 DEF Plan

LEMMA SimulateStep ==
    ASSUME CacheInv, NEW r \in Runs, NEW staged, NEW warm \in BOOLEAN,
           NEW last \in Hours, Simulate(r, staged, warm, last)
    PROVE  CacheInv'
<1> DEFINE x == run[r]
           new == RowsTo(x, last)
           todo == Shares(x, warm, last) \X Parts
           y == [x EXCEPT !.at = "commit", !.staged = staged, !.warm = warm,
                          !.ok = last = x.to, !.new = new, !.load = {},
                          !.todo = todo]
<1>1. IsRun(x) /\ RunSound(x) /\ x.at = "stage"
  BY DEF CacheInv, Simulate
<1>2. /\ x.first \in Nat /\ last \in x.first..x.to /\ x.key \in Configs
      /\ x.variant \in Variants /\ x.to \in Nat
  BY <1>1, CacheAssumption DEF IsRun, RunsWith, RunSound, Simulate
<1>3. new \in SUBSET Rows /\ OfConfig(new, x.variant, x.key)
  <2>1. \A t \in (x.first + 1)..last : t \in Hours
    <3>1. 0..last \subseteq Hours /\ last \in Nat
      BY CacheAssumption
    <3>2. QED
      BY <1>2, <3>1
  <2>2. QED
    BY <1>2, <2>1 DEF RowsTo, Rows, OfConfig
<1>4. (x.first + 1)..last \subseteq At(new)
  <2>1. \A t \in (x.first + 1)..last :
           /\ [at |-> t, variant |-> x.variant, key |-> x.key] \in new
           /\ [at |-> t, variant |-> x.variant, key |-> x.key].at = t
    BY DEF RowsTo
  <2>2. QED
    BY <2>1 DEF At
<1>5. /\ run' = [run EXCEPT ![r] = y]
      /\ UNCHANGED <<params, record, lock, grids, janitor>>
  BY DEF Simulate, Set
<1>11. todo \subseteq Files
  BY DEF Files, Shares
<1> HIDE DEF new, todo
<1>6. y \in RunsWith({}, staged, warm, todo)
  BY <1>1, <1>3 DEF IsRun, RunsWith
<1>7. /\ y.at = "commit" /\ y.cached = x.cached /\ y.new = new
      /\ y.first = x.first /\ y.replay = x.replay /\ y.ok = (last = x.to)
      /\ y.from = x.from /\ y.to = x.to
      /\ y.variant = x.variant /\ y.key = x.key /\ y.todo = todo
  BY <1>1 DEF IsRun, RunsWith
<1> HIDE DEF y, x
<1>8. RunSound(y)
  BY <1>1, <1>2, <1>3, <1>4, <1>7, <1>11 DEF RunSound, OfConfig
<1>9. IsRun(y)
  BY <1>6, RunTyped
<1>10. QED
  BY <1>5, <1>7, <1>8, <1>9, RunMoves DEF UnderWay, CacheInv

\* What a run that ends after its simulation has shown.
LEMMA ShownWhole ==
    ASSUME CacheInv, NEW r \in Runs, run[r].at \in {"commit", "dump"}
    PROVE  /\ run[r].cached \in SUBSET Rows /\ run[r].ok \in BOOLEAN
           /\ OfConfig(run[r].cached, run[r].variant, run[r].key)
           /\ run[r].ok => LET x == run[r]
                               new == IF x.replay THEN {} ELSE x.new
                           IN  (x.from + 1)..x.to \subseteq
                                  At(x.cached \cup new)
<1> DEFINE x == run[r]
           new == IF x.replay THEN {} ELSE x.new
<1>1. IsRun(x) /\ RunSound(x)
  BY DEF CacheInv
<1>2. x.from \in Nat /\ x.to \in Nat /\ x.first \in Nat
  BY <1>1, CacheAssumption DEF IsRun, RunsWith
<1>3. ASSUME x.ok, NEW t \in (x.from + 1)..x.to
      PROVE  t \in At(x.cached \cup new)
  <2>1. CASE x.replay
    BY <1>1, <1>3, <2>1 DEF RunSound, At
  <2>2. CASE ~x.replay /\ t <= x.first
    <3>1. t \in (x.from + 1)..x.first
      BY <1>2, <2>2
    <3>2. t \in At(x.cached)
      BY <1>1, <2>2, <3>1 DEF RunSound
    <3>3. QED
      BY <3>2 DEF At
  <2>3. CASE ~x.replay /\ ~(t <= x.first)
    <3>1. t \in (x.first + 1)..x.to
      BY <1>2, <2>3
    <3>2. t \in At(x.new)
      BY <1>1, <1>3, <3>1 DEF RunSound
    <3>3. QED
      BY <2>3, <3>2 DEF At
  <2>4. QED
    BY <2>1, <2>2, <2>3
<1>4. x.cached \in SUBSET Rows /\ x.ok \in BOOLEAN
  BY <1>1 DEF IsRun, RunsWith
<1>5. OfConfig(x.cached, x.variant, x.key)
  BY <1>1 DEF RunSound, OfConfig
<1>6. QED
  BY <1>3, <1>4, <1>5

LEMMA CommitStep ==
    ASSUME CacheInv, NEW r \in Runs, Commit(r)
    PROVE  CacheInv'
<1>1. UNCHANGED <<params, record, janitor>> /\ run[r].at = "commit"
  BY DEF Commit
<1>2. CASE run[r].todo # {}
  <2> DEFINE f == NextFile(run[r].todo)
  <2>1. run[r].todo \in SUBSET Files
    BY DEF CacheInv, RunSound
  <2>2. f \in Files /\ run[r].todo \ {f} \in SUBSET Files
    BY <1>2, <2>1, NextIsOne
  <2>3. /\ run' = [run EXCEPT ![r] = [run[r] EXCEPT !.todo = @ \ {f}]]
        /\ grids' = grids \cup {f} /\ lock' = lock
    BY <1>2 DEF Commit, Set
  <2> HIDE DEF f
  <2>4. QED
    BY <1>1, <2>2, <2>3, FileStep DEF CacheInv
<1>3. CASE run[r].todo = {}
  BY ZenonT(40), <1>1, <1>3, ShownWhole, EndRunKeeps DEF Commit, CacheInv
<1>4. QED
  BY <1>2, <1>3

LEMMA UnpackStep ==
    ASSUME CacheInv, NEW r \in Runs, Unpack(r)
    PROVE  CacheInv'
<1> DEFINE f == NextFile(run[r].todo)
<1>1. run[r].todo \in SUBSET Files /\ run[r].todo # {}
  BY DEF CacheInv, RunSound, Unpack
<1>2. f \in Files /\ run[r].todo \ {f} \in SUBSET Files
  BY <1>1, NextIsOne
<1>3. UNCHANGED <<params, record, lock, janitor>>
  BY DEF Unpack
<1>4. CASE /\ run' = [run EXCEPT ![r] = [run[r] EXCEPT !.todo = @ \ {f}]]
           /\ grids' = grids \cup {f}
  <2> HIDE DEF f
  <2>1. QED
    BY <1>2, <1>3, <1>4, FileStep DEF CacheInv
<1>5. CASE /\ run' = [run EXCEPT ![r] = [run[r] EXCEPT !.todo = {}]]
           /\ grids' = grids
  <2>1. grids' \subseteq Files /\ {} \in SUBSET Files
    BY <1>5 DEF CacheInv
  <2>2. QED
    BY <1>3, <1>5, <2>1, FileStep
<1>6. QED
  BY <1>4, <1>5 DEF Unpack, Set

LEMMA StitchStep ==
    ASSUME CacheInv, NEW r \in Runs, Stitch(r)
    PROVE  CacheInv'
<1> DEFINE x == run[r]
           todo == Mosaic(StateFor(r))
           y == [x EXCEPT !.at = "mosaic", !.todo = todo]
<1>1. IsRun(x) /\ RunSound(x) /\ x.at = "plan"
  BY DEF CacheInv, Stitch
<1>2. todo \subseteq Files
  BY CacheAssumption DEF Files, Mosaic
<1>3. /\ run' = [run EXCEPT ![r] = y]
      /\ UNCHANGED <<params, record, lock, grids, janitor>>
  BY DEF Stitch, Set
<1> HIDE DEF todo
<1>4. y \in RunsWith(x.load, x.staged, x.warm, todo)
  BY <1>1 DEF IsRun, RunsWith
<1>5. /\ y.at = "mosaic" /\ y.cached = x.cached /\ y.new = x.new
      /\ y.replay = x.replay /\ y.variant = x.variant /\ y.key = x.key
      /\ y.todo = todo
  BY <1>1 DEF IsRun, RunsWith
<1> HIDE DEF y, x
<1>6. IsRun(y) /\ RunSound(y)
  BY <1>1, <1>2, <1>4, <1>5, RunTyped DEF RunSound
<1>7. QED
  BY <1>3, <1>5, <1>6, RunMoves DEF UnderWay, CacheInv

LEMMA SaveStep ==
    ASSUME CacheInv, NEW r \in Runs, Save(r)
    PROVE  CacheInv'
<1> DEFINE x == run[r]
           states == IF x.ok THEN Shares(x, x.warm, x.to) ELSE {}
           rec == Saved(x.key, x, Updated(x.cached, x.new), states)
           y == [x EXCEPT !.at = "dump", !.rec = rec]
<1>1. IsRun(x) /\ RunSound(x) /\ x.at = "commit" /\ x.key \in Configs
  BY DEF CacheInv, Save, IsRun, RunsWith
<1>2. states \in SUBSET Hours
  BY DEF Shares
<1>3. Plain(rec, x.key)
  BY <1>2, SavedPlain
<1>4. /\ run' = [run EXCEPT ![r] = y] /\ Truncate(r, x.key)
      /\ UNCHANGED <<params, lock, grids, janitor>>
  BY DEF Save, Set
<1> HIDE DEF rec, states
<1>5. y \in RunsWith(x.load, x.staged, x.warm, x.todo)
  BY <1>1, <1>3 DEF IsRun, RunsWith, Plain
<1>6. /\ y.at = "dump" /\ y.cached = x.cached /\ y.new = x.new
      /\ y.variant = x.variant /\ y.key = x.key /\ y.replay = x.replay
      /\ y.from = x.from /\ y.to = x.to /\ y.first = x.first
      /\ y.ok = x.ok /\ y.rec = rec /\ y.todo = x.todo
  BY <1>1 DEF IsRun, RunsWith
<1>7. /\ record' \in [Configs -> Records]
      /\ \A k \in Configs : Plain(record'[k], k)
  BY <1>1, <1>4, TruncateKeeps
<1> HIDE DEF y, x
<1>8. IsRun(y) /\ RunSound(y)
  BY <1>1, <1>3, <1>5, <1>6, RunTyped DEF RunSound
<1>9. QED
  BY <1>4, <1>6, <1>7, <1>8, RunMoves DEF UnderWay, CacheInv

LEMMA SaveDumpStep ==
    ASSUME CacheInv, NEW r \in Runs, SaveDump(r)
    PROVE  CacheInv'
<1>1. /\ run[r].at = "dump" /\ JsonDump(r, run[r].key, run[r].rec)
      /\ EndRun(r, run[r].ok, run[r].cached)
      /\ UNCHANGED <<params, grids, janitor>>
  BY DEF SaveDump
<1>2. Plain(run[r].rec, run[r].key) /\ run[r].key \in Configs
  BY <1>1 DEF CacheInv, IsRun, RunsWith, RunSound
<1>3. /\ record' \in [Configs -> Records]
      /\ \A k \in Configs : Plain(record'[k], k)
  BY <1>1, <1>2, DumpKeeps
<1>4. QED
  BY <1>1, <1>3, ShownWhole, EndRunKeeps DEF CacheInv

LEMMA CompactStep ==
    ASSUME CacheInv, (\E k \in Configs : CompactRead(k)) \/ CompactOpen
                        \/ CompactDump
    PROVE  CacheInv'
<1>1. UNCHANGED <<params, lock, grids, run>>
  BY DEF CompactRead, CompactOpen, CompactDump
<1>2. LocksReleased'
  BY <1>1 DEF CacheInv, LocksReleased
<1>3. ASSUME NEW k \in Configs, CompactRead(k)
      PROVE  CacheInv'
  <2> DEFINE disk == IF k = BaseKey THEN {f[1] : f \in grids} ELSE {}
             rec == record[k]
             new == [rec EXCEPT !.listed = @ \cup disk]
  <2>1. disk \subseteq Hours
    BY DEF CacheInv, Files
  <2>2. Plain(rec, k)
    BY DEF CacheInv
  <2>3. Plain(new, k)
    BY <2>1, <2>2 DEF Plain, Records
  <2>4. janitor' = [at |-> "open", key |-> k, rec |-> new] /\ record' = record
    BY <1>3 DEF CompactRead
  <2> HIDE DEF new
  <2>5. QED
    BY <1>1, <1>2, <2>3, <2>4 DEF CacheInv, Plain
<1>4. ASSUME CompactOpen
      PROVE  CacheInv'
  BY <1>1, <1>2, <1>4, TruncateKeeps DEF CacheInv, CompactOpen
<1>5. ASSUME CompactDump
      PROVE  CacheInv'
  <2>1. BaseKey \in Configs
    BY DEF BaseKey, Configs
  <2>2. QED
    BY <1>1, <1>2, <1>5, <2>1, DumpKeeps, BlankRecords
       DEF CacheInv, CompactDump, JanitorRests
<1>6. QED
  BY <1>3, <1>4, <1>5

LEMMA PruneStep ==
    ASSUME CacheInv, PruneFiles \/ PruneIndex
    PROVE  CacheInv'
<1>1. UNCHANGED <<params, lock, record, run>> /\ grids' \subseteq Files
  BY DEF PruneFiles, PruneIndex, CacheInv
<1>2. LocksReleased'
  BY <1>1 DEF CacheInv, LocksReleased
<1>3. BaseKey \in Configs
  BY DEF BaseKey, Configs
<1>4. ASSUME PruneFiles
      PROVE  CacheInv'
  <2> DEFINE kept == Spaced({f[1] : f \in grids})
             rec == [NoRecord EXCEPT !.listed = kept]
  <2>1. kept \subseteq Hours
    BY DEF Spaced, CacheInv, Files
  <2>2. janitor' = [at |-> "pruned", key |-> BaseKey, rec |-> rec]
    BY <1>4 DEF PruneFiles
  <2> HIDE DEF kept
  <2>3. Plain(rec, BaseKey)
    BY <2>1 DEF Plain, OfConfig, NoRecord, Records
  <2> HIDE DEF rec
  <2>4. QED
    BY <1>1, <1>2, <1>3, <2>2, <2>3 DEF CacheInv, Plain
<1>5. ASSUME PruneIndex
      PROVE  CacheInv'
  <2> DEFINE rec == Load(BaseKey)
             new == [rec EXCEPT !.listed = @ \cap janitor.rec.listed]
  <2>1. Plain(rec, BaseKey)
    BY <1>3, BlankRecords DEF Load, CacheInv
  <2>2. Plain(new, BaseKey)
    BY <2>1 DEF Plain, OfConfig, Records
  <2>3. janitor' \in {JanitorRests,
                      [at |-> "open", key |-> BaseKey, rec |-> new]}
    BY <1>5 DEF PruneIndex
  <2> HIDE DEF new, rec
  <2>4. CASE janitor' = JanitorRests
    BY <1>1, <1>2, <1>3, <2>4, BlankRecords DEF CacheInv, JanitorRests
  <2>5. CASE janitor' = [at |-> "open", key |-> BaseKey, rec |-> new]
    BY <1>1, <1>2, <1>3, <2>2, <2>5 DEF CacheInv, Plain
  <2>6. QED
    BY <2>3, <2>4, <2>5
<1>6. QED
  BY <1>4, <1>5

LEMMA CacheInitial == CacheInit => CacheInv
<1> SUFFICES ASSUME CacheInit PROVE CacheInv
  OBVIOUS
<1>1. BaseKey \in Configs
  BY DEF BaseKey, Configs
<1>2. QED
  BY <1>1, BlankRecords, IdleRun
     DEF CacheInit, CacheInv, LocksReleased, JanitorRests

LEMMA CacheKept == CacheInv /\ [CacheNext]_cacheVars => CacheInv'
<1> SUFFICES ASSUME CacheInv, [CacheNext]_cacheVars PROVE CacheInv'
  OBVIOUS
<1>1. ASSUME NEW r \in Runs, RunStep(r)
      PROVE  CacheInv'
  <2>1. CASE \E v \in Variants : Prepare(r, v)
    BY <2>1, PrepareStep
  <2>2. CASE \E staged \in {{}, StagedFrom(run[r].load)}, warm \in BOOLEAN,
                last \in Hours : Simulate(r, staged, warm, last)
    BY <2>2, SimulateStep
  <2>3. QED
    BY <1>1, <2>1, <2>2, AcquireStep, UnpackStep, StitchStep, PlanStep,
       CommitStep, SaveStep, SaveDumpStep DEF RunStep
<1>2. ASSUME NEW r \in Runs, NEW ask \in Asks[r],
             Ask(r, ask[1], ask[2], ask[3])
      PROVE  CacheInv'
  <2>1. ask[1] \in Kinds /\ ask[2] \in Hours /\ ask[3] \in Hours
    BY CacheAssumption
  <2>2. QED
    BY <1>2, <2>1, AskStep
<1>3. CASE Calibrated
  BY <1>3 DEF Calibrated, CacheInv, LocksReleased
<1>4. ASSUME NEW f \in Files, Evict(f)
      PROVE  CacheInv'
  BY <1>4 DEF Evict, CacheInv, LocksReleased
<1>5. CASE UNCHANGED cacheVars
  BY <1>5 DEF cacheVars, CacheInv, LocksReleased
<1>6. QED
  BY <1>1, <1>2, <1>3, <1>4, <1>5, GiveUpStep, CompactStep, PruneStep
     DEF CacheNext

\* The warm-state cache is sound for any runs, windows, sets of boundary
\* gauges and files: whatever is torn, evicted, compacted or calibrated
\* meanwhile, a record holds rows of one configuration, a run that ended
\* well has shown each hour of its window once and under its own
\* configuration, and a lock is held only by a run under way
\* (statecache.py, runstates.py, fleetstore.py, pipeline.run_gauge).
THEOREM CacheIsSound == CacheSpec => []CacheSound
<1>1. CacheInit => CacheInv
  BY CacheInitial
<1>2. CacheInv /\ [CacheNext]_cacheVars => CacheInv'
  BY CacheKept
<1>3. CacheInv => CacheSound
  BY CacheInvImplies
<1>4. QED
  BY <1>1, <1>2, <1>3, PTL DEF CacheSpec

-----------------------------------------------------------------------------
(* Autocalibration.                                                        *)

Busy == pc \in {"running", "ended"}
Finished == cur.out \in {"finished", "unpushed"}
CurKey == <<cur.gauge, cur.events, "ran", cur.at>>

CurTyped ==
    /\ cur \in [gauge : Gauges \cup {None}, events : SUBSET Episodes,
                at : Times, fin : Times,
                out : {"none", "finished", "unpushed", "outage", "error",
                       "obs"},
                floods : SUBSET Episodes, known : {cur.known}]
    /\ wake <= clock + 1 /\ outage \in [Gauges -> [n : Nat, at : Times]]

\* A record of a calibration: it did not end before it started.
SoundRow(r) ==
    /\ r \in Row /\ r.kind = "ran" /\ r.gauge \in Gauges
    /\ r.at <= clock /\ r.fin <= clock /\ r.at <= r.fin
RanSound == \A x \in ran : SoundRow(x.row)

\* What waits here has one record each, which does not end before the
\* calibration did.
MemSound(m) ==
    /\ m \in Mem /\ IsFiniteSet(m.pending) /\ IsFiniteSet(m.unpushed)
    /\ \A r \in m.pending \cup m.unpushed : SoundRow(r)
    /\ \A r, x \in m.pending \cup m.unpushed : RowKey(r) = RowKey(x) => r = x
    /\ m.pending \cap m.unpushed = {}
    /\ \A r \in m.pending, x \in RowsRan :
          RowKey(r) = RowKey(x) => x.fin <= r.fin

\* The Hub has a record once, and its ledger covers all that it ever had.
HubSound ==
    /\ FiledOnce /\ Keys(ToSet(rows)) \subseteq filed
    /\ \A k \in filed : k[3] = "ran" =>
          /\ k[1] \in Gauges /\ k[4] \in Times
          /\ ledger[k[1]].last # Never /\ k[4] <= ledger[k[1]].last
          /\ ledger[k[1]].fin # Never /\ k[4] <= ledger[k[1]].fin
    /\ \A r \in RowsRan : RowKey(r) \in filed => r.fin <= ledger[r.gauge].fin

\* What is calibrated is of no record yet.
LoopSound ==
    /\ pc # "dump" => skipRun < MaxSkipRun
    /\ pc = "flush" => Keys(mem.pending) \cap Keys(ToSet(rows)) = {}
    /\ Busy => /\ file = mem /\ cur.gauge \in Gauges /\ cur.at <= clock
               /\ CurKey \notin filed \cup Kept(mem)
    /\ pc = "running" => cur.out = "none"
    /\ pc = "ended" /\ Finished =>
          /\ cur.at <= cur.fin /\ cur.fin <= clock
          /\ \A x \in ran : x.row.fin <= cur.fin

Remembered ==
    \A r \in ran \ forgotten :
        \/ RowKey(r.row) \in filed \cup Kept(mem)
        \/ pc = "ended" /\ Finished /\ r.row = CurRow(cur.fin)

Cooling ==
    /\ CooldownHeld
    /\ pc = "running" /\ forgotten = {} =>
          \A r \in RowsRan : r.gauge = cur.gauge => cur.at - r.at >= Cooldown

NewFloods(g, floods, known) ==
    \A k \in known : k[1] = g => k[2] \cap floods = {}
FloodsNew ==
    /\ \A x \in ran : NewFloods(x.row.gauge, x.floods, x.known)
    /\ Busy => NewFloods(cur.gauge, cur.floods, cur.known)

\* An entry was generated when it was simulated, or re-stamped by a merge;
\* what was absorbed had not absorbed another.
EpisodesTrue ==
    \A e \in Episodes :
        LET x == episode[e]
        IN  /\ x.on => x.gen = x.t0 \/ x.gen = x.merged
            /\ x.into # None => x.on /\ x.merged = Never
            /\ x.t0 <= clock /\ x.gen <= clock

AutocalInv ==
    /\ AutocalTypeOK /\ CurTyped /\ RanSound
    /\ MemSound(mem) /\ MemSound(file) /\ HubSound /\ LoopSound
    /\ Remembered /\ Cooling /\ FloodsNew /\ EpisodesTrue

LEMMA AutocalLimits ==
    /\ MaxTime \in Nat /\ Cooldown \in Nat /\ Day \in Nat /\ IdleFor \in Nat
    /\ MaxPerDay \in Nat /\ MaxPerDay > 0
    /\ MaxSkipRun \in Nat /\ MaxSkipRun > 0
    /\ Strikes \in Nat /\ Strikes > 0 /\ Keep \in Nat /\ Keep > 0
    /\ SummaryEvery \in Nat /\ SummaryEvery > 0
    /\ Never = MaxTime + 1 /\ Never \notin Times /\ Times \subseteq Nat
    /\ NoSkip \in Skips /\ NoRow.skips \in [Gauges -> Skips]
BY SMTT(30), AutocalAssumption DEF Never, Times, NoSkip, Skips, NoRow

LEMMA InOrder ==
    ASSUME NEW s \in Times, NEW t \in Times, NEW u \in Times, s <= t, t <= u
    PROVE  s <= u
<1>1. s \in Nat /\ t \in Nat /\ u \in Nat
  BY AutocalLimits
<1>2. QED
  BY <1>1

LEMMA RowKeys ==
    ASSUME NEW r
    PROVE  /\ RowKey(r)[1] = r.gauge /\ RowKey(r)[2] = r.events
           /\ RowKey(r)[3] = r.kind /\ RowKey(r)[4] = r.at
           /\ \A x : RowKey(x) = RowKey(r) <=>
                /\ x.gauge = r.gauge /\ x.events = r.events
                /\ x.kind = r.kind /\ x.at = r.at
BY DEF RowKey

LEMMA AutocalInvImplies ==
    AutocalInv => AutocalTypeOK /\ NoneForgotten /\ CooldownHeld /\ OnceEach
<1> SUFFICES ASSUME AutocalInv
             PROVE  /\ AutocalTypeOK /\ NoneForgotten /\ CooldownHeld
                    /\ FloodOnce /\ FiledOnce
  BY DEF OnceEach
<1>1. NoneForgotten
  <2>1. CurRow(cur.fin).at = cur.at
    BY DEF CurRow, NoRow
  <2>2. QED
    BY <2>1 DEF AutocalInv, NoneForgotten, Remembered
<1>2. FloodOnce
  <2> SUFFICES ASSUME NEW r \in ran, NEW x \in ran, r.row.gauge = x.row.gauge,
                      RowKey(r.row) \in x.known
               PROVE  r.row.events \cap x.floods = {}
    BY DEF FloodOnce
  <2>1. NewFloods(x.row.gauge, x.floods, x.known)
    BY DEF AutocalInv, FloodsNew
  <2>2. QED
    BY <2>1, RowKeys DEF NewFloods
<1>3. QED
  BY <1>1, <1>2 DEF AutocalInv, Cooling, HubSound

-----------------------------------------------------------------------------
(* The log.                                                                *)

LEMMA NotedRows ==
    ASSUME rows \in Seq(Row), Len(rows) <= Keep, NEW r \in Row, Noted(r)
    PROVE  /\ rows' \in Seq(Row) /\ Len(rows') <= Keep
           /\ r \in ToSet(rows') /\ ToSet(rows') \subseteq ToSet(rows) \cup {r}
           /\ FiledOnce /\ RowKey(r) \notin Keys(ToSet(rows)) => FiledOnce'
<1> DEFINE s == Append(rows, r)
           n == Len(rows)
<1>1. /\ s \in Seq(Row) /\ Len(s) = n + 1 /\ n \in Nat /\ n <= Keep
      /\ \A i \in 1..n : s[i] = rows[i]
      /\ s[n + 1] = r
  OBVIOUS
<1>2. ASSUME NEW k \in {0, 1}, NEW t, t \in Seq(Row), Len(t) = n + 1 - k,
             \A i \in 1..(n + 1 - k) : t[i] = s[i + k],
             rows' = t, n + 1 - k >= 1
      PROVE  /\ r \in ToSet(t) /\ ToSet(t) \subseteq ToSet(rows) \cup {r}
             /\ FiledOnce /\ RowKey(r) \notin Keys(ToSet(rows)) => FiledOnce'
  <2>1. DOMAIN t = 1..(n + 1 - k) /\ DOMAIN rows = 1..n
    BY <1>2
  <2>2. t[n + 1 - k] = r
    BY <1>1, <1>2
  <2>3. \A i \in 1..(n - k) : t[i] = rows[i + k] /\ i + k \in 1..n
    BY SMTT(30), <1>1, <1>2
  <2>4. \A i \in 1..(n + 1 - k) : i \in 1..(n - k) \/ i = n + 1 - k
    BY <1>1
  <2>5. r \in ToSet(t) /\ ToSet(t) \subseteq ToSet(rows) \cup {r}
    BY SMTT(30), <1>1, <1>2, <2>1, <2>2, <2>3, <2>4 DEF ToSet
  <2>6. ASSUME FiledOnce, RowKey(r) \notin Keys(ToSet(rows)),
               NEW i \in DOMAIN t, NEW j \in DOMAIN t,
               RowKey(t[i]) = RowKey(t[j])
        PROVE  i = j
    <3>1. \A m \in 1..n : RowKey(rows[m]) # RowKey(r)
      BY <2>1, <2>6 DEF Keys, ToSet
    <3>2. CASE i \in 1..(n - k) /\ j \in 1..(n - k)
      <4>1. RowKey(rows[i + k]) = RowKey(rows[j + k])
        BY <2>3, <2>6, <3>2
      <4>2. i + k = j + k
        BY <2>1, <2>3, <2>6, <3>2, <4>1 DEF FiledOnce
      <4>3. QED
        BY <3>2, <4>2
    <3>3. CASE ~(i \in 1..(n - k) /\ j \in 1..(n - k))
      BY <2>1, <2>2, <2>3, <2>4, <2>6, <3>1, <3>3
    <3>4. QED
      BY <3>2, <3>3
  <2>7. QED
    BY <1>2, <2>5, <2>6 DEF FiledOnce
<1>3. CASE n + 1 > Keep
  <2> DEFINE t == SubSeq(s, 2, n + 1)
  <2>1. rows' = t
    BY <1>1, <1>3 DEF Noted
  <2>2. /\ t \in Seq(Row) /\ Len(t) = n
        /\ \A i \in 1..n : t[i] = s[i + 1]
    BY <1>1
  <2>3. n >= 1
    BY <1>1, <1>3, AutocalLimits
  <2> HIDE DEF t, s
  <2>4. /\ r \in ToSet(t) /\ ToSet(t) \subseteq ToSet(rows) \cup {r}
        /\ FiledOnce /\ RowKey(r) \notin Keys(ToSet(rows)) => FiledOnce'
    <3>1. 1 \in {0, 1} /\ n + 1 - 1 = n
      BY <1>1
    <3>2. QED
      BY <1>2, <2>1, <2>2, <2>3, <3>1
  <2>5. QED
    BY <1>1, <2>1, <2>2, <2>4
<1>4. CASE ~(n + 1 > Keep)
  <2> DEFINE t == SubSeq(s, 1, n + 1)
  <2>1. rows' = t
    BY <1>1, <1>4 DEF Noted
  <2>2. /\ t \in Seq(Row) /\ Len(t) = n + 1
        /\ \A i \in 1..(n + 1) : t[i] = s[i]
    BY <1>1
  <2> HIDE DEF t, s
  <2>3. /\ r \in ToSet(t) /\ ToSet(t) \subseteq ToSet(rows) \cup {r}
        /\ FiledOnce /\ RowKey(r) \notin Keys(ToSet(rows)) => FiledOnce'
    <3>1. 0 \in {0, 1} /\ n + 1 - 0 = n + 1 /\ \A i \in 1..(n + 1) : i + 0 = i
      BY <1>1
    <3>2. QED
      BY <1>1, <1>2, <2>1, <2>2, <3>1
  <2>4. QED
    BY <1>1, <1>4, <2>1, <2>2, <2>3, AutocalLimits
<1>5. QED
  BY <1>3, <1>4

LEMMA LatestOfTwo ==
    ASSUME NEW s \in Times \cup {Never}, NEW t \in Times
    PROVE  LET u == Newest(Known({s, t}))
           IN  /\ u \in Times /\ t <= u
               /\ s # Never => s <= u
               /\ u \in {s, t}
<1> DEFINE S == Known({s, t})
<1>1. S \subseteq Times /\ t \in S /\ S \subseteq {s, t}
  BY AutocalLimits DEF Known
<1>2. \E u \in S : \A v \in S : v <= u
  <2>1. CASE s = Never
    BY <1>1, <2>1, AutocalLimits DEF Known
  <2>2. CASE s # Never
    <3>1. S = {s, t} /\ s \in Nat /\ t \in Nat
      BY <2>2, AutocalLimits DEF Known
    <3>2. CASE s <= t
      BY <3>1, <3>2
    <3>3. CASE ~(s <= t)
      BY <3>1, <3>3
    <3>4. QED
      BY <3>2, <3>3
  <2>3. QED
    BY <2>1, <2>2
<1>3. Newest(S) \in S /\ \A v \in S : v <= Newest(S)
  BY <1>2 DEF Newest
<1>4. s # Never => s \in S
  BY DEF Known
<1>5. QED
  BY <1>1, <1>3, <1>4

\* A record that is filed: the Hub and its ledger stay sound.
LEMMA FilingKeeps ==
    ASSUME AutocalInv, NEW r \in Row, Noted(r),
           RowKey(r) \notin Keys(ToSet(rows)),
           r.kind = "ran" =>
             /\ SoundRow(r)
             /\ \A x \in RowsRan : RowKey(x) = RowKey(r) => x.fin <= r.fin,
           UNCHANGED ran
    PROVE  /\ HubSound' /\ rows' \in Seq(Row) /\ Len(rows') <= Keep
           /\ ledger' \in [Gauges -> [last : Times \cup {Never},
                                     fin : Times \cup {Never}]]
           /\ filed' = filed \cup {RowKey(r)}
           /\ RowKey(r) \in Keys(ToSet(rows'))
           /\ ToSet(rows') \subseteq ToSet(rows) \cup {r}
<1> DEFINE L == [last : Times \cup {Never}, fin : Times \cup {Never}]
           g == r.gauge
           new == [last |-> Newest(Known({ledger[g].last, r.at})),
                   fin |-> Newest(Known({ledger[g].fin, r.fin}))]
<1>1. /\ rows' \in Seq(Row) /\ Len(rows') <= Keep
      /\ r \in ToSet(rows') /\ ToSet(rows') \subseteq ToSet(rows) \cup {r}
      /\ FiledOnce'
  BY NotedRows DEF AutocalInv, AutocalTypeOK, HubSound
<1>2. /\ filed' = filed \cup {RowKey(r)}
      /\ r.kind # "ran" => ledger' = ledger
      /\ r.kind = "ran" => ledger' = [ledger EXCEPT ![g] = new]
  BY DEF Noted
<1>3. ledger \in [Gauges -> L]
  BY DEF AutocalInv, AutocalTypeOK
<1>4. r.at \in Times /\ r.fin \in Times
  BY DEF Row
<1>5. r.kind = "ran" =>
        /\ g \in Gauges /\ r.at <= r.fin
        /\ new.last \in Times /\ r.at <= new.last
        /\ ledger[g].last # Never => ledger[g].last <= new.last
        /\ new.fin \in Times /\ r.fin <= new.fin
        /\ ledger[g].fin # Never => ledger[g].fin <= new.fin
  <2> SUFFICES ASSUME r.kind = "ran"
               PROVE  /\ g \in Gauges /\ r.at <= r.fin
                      /\ new.last \in Times /\ r.at <= new.last
                      /\ ledger[g].last # Never => ledger[g].last <= new.last
                      /\ new.fin \in Times /\ r.fin <= new.fin
                      /\ ledger[g].fin # Never => ledger[g].fin <= new.fin
    OBVIOUS
  <2>1. g \in Gauges /\ r.at <= r.fin
    BY DEF SoundRow
  <2>2. /\ ledger[g].last \in Times \cup {Never}
        /\ ledger[g].fin \in Times \cup {Never}
    BY <1>3, <2>1
  <2>3. QED
    BY <1>4, <2>1, <2>2, LatestOfTwo
<1> HIDE DEF new
<1>6. ledger' \in [Gauges -> L]
  <2>1. r.kind = "ran" => new \in L
    BY <1>5 DEF new
  <2>2. QED
    BY <1>2, <1>3, <2>1
<1>7. ASSUME NEW k \in filed', k[3] = "ran"
      PROVE  /\ k[1] \in Gauges /\ k[4] \in Times
             /\ ledger'[k[1]].last # Never /\ k[4] <= ledger'[k[1]].last
             /\ ledger'[k[1]].fin # Never /\ k[4] <= ledger'[k[1]].fin
  <2>1. CASE k = RowKey(r)
    <3>1. k[1] = g /\ k[3] = r.kind /\ k[4] = r.at
      BY <2>1, RowKeys
    <3>2. r.kind = "ran" /\ ledger'[g] = new /\ g \in Gauges
      BY <1>2, <1>3, <1>5, <1>7, <3>1
    <3>3. r.at <= new.fin
      <4>1. r.at <= r.fin /\ r.fin <= new.fin /\ new.fin \in Times
        BY <1>5, <3>2
      <4>2. QED
        BY <1>4, <4>1, InOrder
    <3>4. QED
      BY <1>4, <1>5, <3>1, <3>2, <3>3, AutocalLimits
  <2>2. CASE k \in filed
    <3>1. /\ k[1] \in Gauges /\ k[4] \in Times
          /\ ledger[k[1]].last # Never /\ k[4] <= ledger[k[1]].last
          /\ ledger[k[1]].fin # Never /\ k[4] <= ledger[k[1]].fin
      BY <1>7, <2>2 DEF AutocalInv, HubSound
    <3>2. CASE r.kind = "ran" /\ k[1] = g
      <4>1. ledger'[g] = new
        BY <1>2, <1>3, <3>1, <3>2
      <4>2. ledger[g].last \in Times /\ ledger[g].fin \in Times
        BY <1>3, <3>1, <3>2
      <4>3. k[4] <= new.last /\ k[4] <= new.fin
        BY <1>5, <3>1, <3>2, <4>2, InOrder
      <4>4. QED
        BY <1>5, <3>1, <3>2, <4>1, <4>3, AutocalLimits
    <3>3. CASE ~(r.kind = "ran" /\ k[1] = g)
      BY <1>2, <1>3, <3>1, <3>3
    <3>4. QED
      BY <3>2, <3>3
  <2>3. QED
    BY <1>2, <1>7, <2>1, <2>2
<1>8. ASSUME NEW x \in RowsRan, RowKey(x) \in filed'
      PROVE  x.fin <= ledger'[x.gauge].fin
  <2>1. x \in Row /\ x.kind = "ran" /\ x.gauge \in Gauges /\ x.fin \in Times
    BY <1>8 DEF AutocalInv, RanSound, RowsRan, SoundRow, Row
  <2>2. CASE RowKey(x) = RowKey(r)
    <3>1. r.kind = "ran" /\ x.gauge = g /\ x.fin <= r.fin
      BY <1>8, <2>1, <2>2, RowKeys
    <3>2. ledger'[x.gauge] = new /\ r.fin <= new.fin /\ new.fin \in Times
      BY <1>2, <1>3, <1>5, <2>1, <3>1
    <3>3. QED
      BY <1>4, <2>1, <3>1, <3>2, InOrder
  <2>3. CASE RowKey(x) \in filed
    <3>1. x.fin <= ledger[x.gauge].fin
      BY <1>8, <2>3 DEF AutocalInv, HubSound
    <3>2. RowKey(x)[1] = x.gauge /\ RowKey(x)[3] = "ran"
      BY <2>1, RowKeys
    <3>3. ledger[x.gauge].fin # Never /\ ledger[x.gauge].fin \in Times
      BY <1>3, <2>1, <2>3, <3>2 DEF AutocalInv, HubSound
    <3>4. CASE r.kind = "ran" /\ x.gauge = g
      <4>1. ledger'[x.gauge] = new
        BY <1>2, <1>3, <2>1, <3>4
      <4>2. ledger[x.gauge].fin <= new.fin /\ new.fin \in Times
        BY <1>5, <3>3, <3>4
      <4>3. QED
        BY <2>1, <3>1, <3>3, <4>1, <4>2, InOrder
    <3>5. CASE ~(r.kind = "ran" /\ x.gauge = g)
      BY <1>2, <1>3, <2>1, <3>1, <3>5
    <3>6. QED
      BY <3>4, <3>5
  <2>4. QED
    BY <1>2, <1>8, <2>2, <2>3
<1>9. Keys(ToSet(rows')) \subseteq filed' /\ RowKey(r) \in Keys(ToSet(rows'))
  BY <1>1, <1>2 DEF Keys, AutocalInv, HubSound
<1>10. RowsRan' = RowsRan
  BY DEF RowsRan
<1>11. HubSound'
  BY <1>1, <1>7, <1>8, <1>9, <1>10 DEF HubSound
<1>12. QED
  BY <1>1, <1>2, <1>6, <1>9, <1>11

-----------------------------------------------------------------------------
(* The others: the clock, publications and merges.                         *)

LEMMA WorldMoves ==
    ASSUME AutocalInv, clock' \in Times, clock <= clock',
           UNCHANGED <<hubVars, loopVars, historyVars>>,
           episode' \in [Episodes -> [on : BOOLEAN, gen : Times,
                         t0 : Times, merged : Times \cup {Never},
                         into : Episodes \cup {None}]],
           EpisodesTrue'
    PROVE  AutocalInv'
<1>1. /\ UNCHANGED <<rows, ledger, mem, file, outage, pc, wake, idle, skipRun>>
      /\ UNCHANGED <<cur, ran, forgotten, filed>>
  BY DEF hubVars, loopVars, historyVars
<1>2. AutocalTypeOK'
  BY <1>1 DEF AutocalInv, AutocalTypeOK
<1>3. CurTyped'
  <2>1. wake \in Nat /\ clock \in Nat /\ clock' \in Nat
    BY AutocalLimits DEF AutocalInv, AutocalTypeOK
  <2>2. QED
    BY <1>1, <2>1 DEF AutocalInv, CurTyped
<1>4. RowsRan' = RowsRan
  BY <1>1 DEF RowsRan
<1>5. ASSUME NEW r, SoundRow(r)
      PROVE  SoundRow(r)'
  <2>1. r \in Row /\ r.at \in Times /\ r.fin \in Times /\ clock \in Times
    BY <1>5 DEF SoundRow, Row, AutocalInv, AutocalTypeOK
  <2>2. QED
    BY <1>5, <2>1, InOrder DEF SoundRow
<1>6. RanSound'
  BY <1>1, <1>5 DEF AutocalInv, RanSound
<1>7. MemSound(mem)' /\ MemSound(file)'
  BY <1>1, <1>4, <1>5 DEF AutocalInv, MemSound
<1>8. HubSound'
  BY <1>1, <1>4 DEF AutocalInv, HubSound, FiledOnce
<1>9. LoopSound'
  <2>1. clock \in Times /\ cur.at \in Times /\ cur.fin \in Times
    BY DEF AutocalInv, AutocalTypeOK, CurTyped
  <2>2. Kept(mem)' = Kept(mem) /\ CurKey' = CurKey
    BY <1>1 DEF Kept, CurKey
  <2>3. cur.at <= clock => cur.at <= clock'
    BY <2>1, InOrder
  <2>4. cur.fin <= clock => cur.fin <= clock'
    BY <2>1, InOrder
  <2>5. QED
    BY <1>1, <2>2, <2>3, <2>4 DEF AutocalInv, LoopSound, Busy, Finished
<1>10. Remembered'
  BY <1>1 DEF AutocalInv, Remembered, Kept, Finished, CurRow
<1>11. Cooling' /\ FloodsNew'
  BY <1>1, <1>4
     DEF AutocalInv, Cooling, CooldownHeld, FloodsNew, NewFloods, Busy
<1>12. QED
  BY <1>2, <1>3, <1>6, <1>7, <1>8, <1>9, <1>10, <1>11 DEF AutocalInv

LEMMA WorldStep ==
    ASSUME AutocalInv,
           \/ Tick \/ \E e \in Episodes : Publish(e)
           \/ \E d, e \in Episodes : Merge(d, e)
    PROVE  AutocalInv'
<1> DEFINE X == [on : BOOLEAN, gen : Times, t0 : Times,
                 merged : Times \cup {Never}, into : Episodes \cup {None}]
<1>0. /\ clock \in Times /\ clock \in Nat /\ episode \in [Episodes -> X]
      /\ clock <= clock
  BY AutocalLimits DEF AutocalInv, AutocalTypeOK
<1>1. CASE Tick
  <2>1. clock' = clock + 1 /\ clock' \in Times /\ clock <= clock'
    BY <1>0, <1>1, AutocalLimits DEF Tick, Times
  <2>2. EpisodesTrue'
    <3> SUFFICES ASSUME NEW e \in Episodes
                 PROVE  /\ episode[e].t0 <= clock'
                        /\ episode[e].gen <= clock'
      BY <1>1 DEF Tick, EpisodesTrue, AutocalInv
    <3>1. /\ episode[e].t0 \in Times /\ episode[e].gen \in Times
          /\ episode[e].t0 <= clock /\ episode[e].gen <= clock
      BY <1>0 DEF AutocalInv, EpisodesTrue
    <3>2. QED
      BY <1>0, <2>1, <3>1, InOrder
  <2>3. QED
    BY <1>0, <1>1, <2>1, <2>2, WorldMoves DEF Tick
<1>2. ASSUME NEW e \in Episodes, Publish(e)
      PROVE  AutocalInv'
  <2> DEFINE x == [episode[e] EXCEPT !.on = TRUE, !.gen = clock, !.t0 = clock]
  <2>1. episode' = [episode EXCEPT ![e] = x]
    BY <1>2 DEF Publish
  <2>2. /\ x \in X /\ x.on /\ x.gen = clock /\ x.t0 = clock
        /\ x.into = None
    BY <1>0, <1>2 DEF Publish
  <2> HIDE DEF x
  <2>3. EpisodesTrue'
    BY ZenonT(40), <1>0, <1>2, <2>1, <2>2 DEF Publish, EpisodesTrue, AutocalInv
  <2>4. episode' \in [Episodes -> X]
    BY <1>0, <2>1, <2>2
  <2>5. QED
    BY <1>0, <1>2, <2>3, <2>4, WorldMoves DEF Publish
<1>3. ASSUME NEW d \in Episodes, NEW e \in Episodes, Merge(d, e)
      PROVE  AutocalInv'
  <2> DEFINE x == [episode[d] EXCEPT !.into = e]
             y == [episode[e] EXCEPT !.gen = clock, !.merged = clock]
  <2>0. d # e
    BY <1>3 DEF Merge
  <2>1. episode' = [episode EXCEPT ![d] = x, ![e] = y]
    BY <1>0, <1>3 DEF Merge
  <2>2. /\ x \in X /\ x.on /\ x.merged = Never /\ x.gen = episode[d].gen
        /\ x.t0 = episode[d].t0
    BY ZenonT(40), <1>0, <1>3 DEF Merge
  <2>3. /\ y \in X /\ y.on /\ y.gen = clock /\ y.merged = clock
        /\ y.into = None /\ y.t0 = episode[e].t0
    BY ZenonT(40), <1>0, <1>3 DEF Merge
  <2>4. /\ x.gen = x.t0 \/ x.gen = x.merged
        /\ x.t0 <= clock /\ x.gen <= clock /\ y.t0 <= clock
    BY <2>2, <2>3, <1>3 DEF Merge, AutocalInv, EpisodesTrue
  <2> HIDE DEF x, y
  <2>5. episode' \in [Episodes -> X]
    BY <1>0, <2>1, <2>2, <2>3
  <2>6. /\ episode'[d] = x /\ episode'[e] = y
        /\ \A c \in Episodes \ {d, e} : episode'[c] = episode[c]
    BY <1>0, <2>0, <2>1
  <2>7. EpisodesTrue'
    <3> SUFFICES ASSUME NEW c \in Episodes
                 PROVE  LET z == episode'[c]
                        IN  /\ z.on => z.gen = z.t0 \/ z.gen = z.merged
                            /\ z.into # None => z.on /\ z.merged = Never
                            /\ z.t0 <= clock /\ z.gen <= clock
      BY <1>3 DEF EpisodesTrue, Merge
    <3>1. CASE c = d
      BY <2>2, <2>4, <2>6, <3>1
    <3>2. CASE c = e
      BY <1>0, <2>3, <2>4, <2>6, <3>2
    <3>3. CASE c \notin {d, e}
      BY <2>6, <3>3 DEF AutocalInv, EpisodesTrue
    <3>4. QED
      BY <3>1, <3>2, <3>3
  <2>8. QED
    BY <1>0, <1>3, <2>5, <2>7, WorldMoves DEF Merge
<1>4. QED
  BY <1>1, <1>2, <1>3

-----------------------------------------------------------------------------
(* The loop between two calibrations.                                      *)

LEMMA HubMoves ==
    ASSUME AutocalInv, UNCHANGED <<clock, episode, ran, forgotten>>,
           AutocalTypeOK', CurTyped', MemSound(mem)', MemSound(file)',
           HubSound',
           filed \cup Kept(mem) \subseteq filed' \cup Kept(mem'),
           pc = "ended" /\ Finished => CurKey \in filed' \cup Kept(mem'),
           pc' \notin {"running", "ended"},
           pc' # "dump" => skipRun' < MaxSkipRun,
           pc' = "flush" => Keys(mem'.pending) \cap Keys(ToSet(rows')) = {}
    PROVE  AutocalInv'
<1>1. RowsRan' = RowsRan
  BY DEF RowsRan
<1>2. RanSound'
  BY DEF AutocalInv, RanSound, SoundRow
<1>3. LoopSound'
  BY DEF LoopSound, Busy
<1>4. Remembered'
  <2> SUFFICES ASSUME NEW r \in ran \ forgotten
               PROVE  RowKey(r.row) \in filed' \cup Kept(mem')
    BY DEF Remembered
  <2>1. CASE RowKey(r.row) \in filed \cup Kept(mem)
    BY <2>1
  <2>2. CASE pc = "ended" /\ Finished /\ r.row = CurRow(cur.fin)
    <3>1. RowKey(CurRow(cur.fin)) = CurKey
      BY DEF RowKey, CurKey, CurRow, NoRow
    <3>2. QED
      BY <2>2, <3>1
  <2>3. QED
    BY <2>1, <2>2 DEF AutocalInv, Remembered
<1>5. Cooling' /\ FloodsNew'
  BY <1>1
     DEF AutocalInv, Cooling, CooldownHeld, FloodsNew, NewFloods, Busy
<1>6. EpisodesTrue'
  BY DEF AutocalInv, EpisodesTrue
<1>7. QED
  BY <1>2, <1>3, <1>4, <1>5, <1>6 DEF AutocalInv

LEMMA LoopMoves ==
    ASSUME AutocalInv, UNCHANGED <<clock, episode, hubVars, historyVars>>,
           AutocalTypeOK', CurTyped', MemSound(mem)', MemSound(file)',
           Kept(mem) \subseteq filed \cup Kept(mem'),
           pc' \notin {"running", "ended"}, ~(pc = "ended" /\ Finished),
           pc' # "dump" => skipRun' < MaxSkipRun,
           pc' = "flush" => Keys(mem'.pending) \cap Keys(ToSet(rows)) = {}
    PROVE  AutocalInv'
<1>1. UNCHANGED <<rows, ledger, ran, forgotten, filed>>
  BY DEF hubVars, historyVars
<1>2. RowsRan' = RowsRan
  BY <1>1 DEF RowsRan
<1>3. HubSound'
  BY <1>1, <1>2 DEF AutocalInv, HubSound, FiledOnce
<1>4. QED
  BY <1>1, <1>3, HubMoves

LEMMA SameMem ==
    ASSUME NEW m, MemSound(m), UNCHANGED <<clock, ran>>, NEW n, n = m
    PROVE  /\ n \in Mem /\ IsFiniteSet(n.pending) /\ IsFiniteSet(n.unpushed)
           /\ \A r \in n.pending \cup n.unpushed : SoundRow(r)'
           /\ \A r, x \in n.pending \cup n.unpushed :
                 RowKey(r) = RowKey(x) => r = x
           /\ n.pending \cap n.unpushed = {}
           /\ \A r \in n.pending, x \in RowsRan' :
                 RowKey(r) = RowKey(x) => x.fin <= r.fin
BY DEF MemSound, SoundRow, RowsRan

LEMMA DumpTypes ==
    ASSUME AutocalInv, NEW n \in {0, 1}, DumpAnd(n, mem), clock' = clock,
           UNCHANGED <<episode, hubVars, historyVars>>,
           cur' \in {cur, NoCand}, idle' \in Times \cup {Never},
           skipRun' \in 0..MaxSkipRun, skipRun' < MaxSkipRun,
           outage' \in [Gauges -> [n : 0..(Strikes - 1), at : Times]],
           ~(pc = "ended" /\ Finished)
    PROVE  AutocalInv'
<1>1. /\ mem' = mem /\ file' = mem /\ pc' = "top" /\ wake' = clock + n
      /\ UNCHANGED <<rows, ledger, ran>>
  BY DEF DumpAnd, Sleep, hubVars, historyVars
<1>2. clock \in Nat /\ clock \in Times /\ clock <= MaxTime /\ 0 \in Times
  BY AutocalLimits DEF AutocalInv, AutocalTypeOK, Times
<1>3. cur' \in [gauge : Gauges \cup {None}, events : SUBSET Episodes,
                at : Times, fin : Times,
                out : {"none", "finished", "unpushed", "outage", "error",
                       "obs"},
                floods : SUBSET Episodes, known : {cur'.known}]
  BY <1>2 DEF AutocalInv, CurTyped, NoCand
<1>4. wake' \in 0..(MaxTime + IdleFor + 1) /\ wake' <= clock + 1
  BY <1>1, <1>2, AutocalLimits
<1>5. AutocalTypeOK'
  BY <1>1, <1>3, <1>4 DEF AutocalInv, AutocalTypeOK
<1>6. CurTyped'
  BY <1>3, <1>4, AutocalLimits DEF CurTyped
<1>7. MemSound(mem)' /\ MemSound(file)'
  BY <1>1, SameMem DEF AutocalInv, MemSound
<1>8. QED
  BY <1>1, <1>5, <1>6, <1>7, LoopMoves

LEMMA YieldStep ==
    ASSUME AutocalInv, Yield \/ HistoryUnreadable \/ Preempt
    PROVE  AutocalInv'
<1>1. /\ UNCHANGED <<clock, episode, hubVars, historyVars, outage>>
      /\ DumpAnd(1, mem) \/ DumpAnd(0, mem)
      /\ cur' \in {cur, NoCand} /\ skipRun' \in {skipRun, 0}
      /\ idle' \in {idle, clock, Never} /\ pc \in {"gates", "running"}
  BY DEF Yield, HistoryUnreadable, Preempt, Dropped, IdleLong, IdleMark,
         historyVars
<1>2. /\ skipRun' \in 0..MaxSkipRun /\ skipRun' < MaxSkipRun
      /\ idle' \in Times \cup {Never}
  BY <1>1, AutocalLimits DEF AutocalInv, AutocalTypeOK, LoopSound
<1>3. outage' \in [Gauges -> [n : 0..(Strikes - 1), at : Times]]
  BY <1>1 DEF AutocalInv, AutocalTypeOK
<1>4. QED
  BY <1>1, <1>2, <1>3, DumpTypes

\* An outage on the gauge: nothing is recorded, or it is struck.
LEMMA OutageTyped ==
    ASSUME AutocalInv, NEW g \in Gauges, NEW n \in 0..(Strikes - 1),
           NEW at \in Times,
           outage' = [outage EXCEPT ![g] = [n |-> n, at |-> at]]
    PROVE  outage' \in [Gauges -> [n : 0..(Strikes - 1), at : Times]]
BY DEF AutocalInv, AutocalTypeOK

LEMMA DumpStep ==
    ASSUME AutocalInv, Dump
    PROVE  AutocalInv'
<1>1. /\ UNCHANGED <<clock, episode, hubVars, outage, idle, historyVars>>
      /\ cur' = NoCand /\ pc = "dump"
      /\ DumpAnd(1, mem) \/ DumpAnd(0, mem)
      /\ skipRun' = IF skipRun >= MaxSkipRun THEN 0 ELSE skipRun
  BY DEF Dump
<1>2. skipRun' \in 0..MaxSkipRun /\ skipRun' < MaxSkipRun
  BY <1>1, AutocalLimits DEF AutocalInv, AutocalTypeOK
<1>3. /\ outage' \in [Gauges -> [n : 0..(Strikes - 1), at : Times]]
      /\ idle' \in Times \cup {Never}
  BY <1>1 DEF AutocalInv, AutocalTypeOK
<1>4. QED
  BY <1>1, <1>2, <1>3, DumpTypes

\* A finite set of records, each with another end.
LEMMA PushedFinite ==
    ASSUME NEW S, IsFiniteSet(S), NEW t, NEW T,
           \A y \in T : \E r \in S : y = [r EXCEPT !.fin = t]
    PROVE  IsFiniteSet(T)
<1> DEFINE U == {[r EXCEPT !.fin = t] : r \in S}
           f == [r \in S |-> [r EXCEPT !.fin = t]]
<1>1. f \in Surjection(S, U)
  BY DEF Surjection
<1>2. IsFiniteSet(U)
  BY <1>1, FS_Surjection
<1>3. T \subseteq U
  OBVIOUS
<1>4. QED
  BY <1>2, <1>3, FS_Subset

LEMMA PushStep ==
    ASSUME AutocalInv, Push
    PROVE  AutocalInv'
<1>1. /\ UNCHANGED <<clock, episode, hubVars, file, outage, wake, idle>>
      /\ UNCHANGED <<skipRun, cur, historyVars, rows, ledger, ran>>
      /\ pc = "top" /\ pc' = "gates"
  BY DEF Push, hubVars, historyVars
<1>2. PICK ok \in SUBSET mem.unpushed :
        mem' = [mem EXCEPT
                  !.unpushed = @ \ ok,
                  !.pending = @ \cup {[r EXCEPT !.fin = clock] : r \in ok}]
  BY DEF Push
<1> DEFINE f(r) == [r EXCEPT !.fin = clock]
           P == {f(r) : r \in ok}
<1>3. MemSound(mem) /\ mem \in Mem
  BY DEF AutocalInv, MemSound
<1>4. /\ mem'.pending = mem.pending \cup P
      /\ mem'.unpushed = mem.unpushed \ ok
      /\ mem'.skipped = mem.skipped /\ mem'.summarized = mem.summarized
  BY <1>2, <1>3 DEF Mem
<1>5. ASSUME NEW r \in ok
      PROVE  /\ f(r) \in Row /\ f(r).fin = clock
             /\ SoundRow(f(r)) /\ RowKey(f(r)) = RowKey(r)
  <2>1. SoundRow(r) /\ r \in Row /\ clock \in Times /\ clock \in Nat
    BY <1>3, AutocalLimits
       DEF MemSound, SoundRow, AutocalInv, AutocalTypeOK
  <2>2. /\ f(r) \in Row /\ f(r).fin = clock /\ f(r).kind = r.kind
        /\ f(r).gauge = r.gauge /\ f(r).at = r.at /\ f(r).events = r.events
    BY <2>1 DEF Row
  <2>3. QED
    BY <2>1, <2>2 DEF SoundRow, RowKey
<1>6. \A x \in RowsRan : x.fin <= clock
  BY DEF AutocalInv, RanSound, RowsRan, SoundRow
<1>7. IsFiniteSet(P) /\ IsFiniteSet(mem'.pending) /\ IsFiniteSet(mem'.unpushed)
  <2>1. IsFiniteSet(ok) /\ IsFiniteSet(mem.unpushed \ ok)
    BY <1>3, FS_Subset DEF MemSound
  <2>2. \A y \in P : \E r \in ok : y = [r EXCEPT !.fin = clock]
    OBVIOUS
  <2> HIDE DEF P
  <2>3. IsFiniteSet(P)
    BY <2>1, <2>2, PushedFinite
  <2>4. IsFiniteSet(mem.pending \cup P)
    <3>1. IsFiniteSet(mem.pending)
      BY <1>3 DEF MemSound
    <3>2. QED
      BY <2>3, <3>1, FS_Union
  <2>5. QED
    BY <1>4, <2>1, <2>3, <2>4
<1>8. mem' \in Mem
  <2>1. /\ P \subseteq Row /\ mem.pending \subseteq Row
        /\ mem.unpushed \subseteq Row
    BY <1>3, <1>5 DEF Mem
  <2>2. mem.pending \cup P \in SUBSET Row /\ mem.unpushed \ ok \in SUBSET Row
    BY <2>1
  <2> HIDE DEF P
  <2>3. QED
    BY <1>2, <1>3, <2>2 DEF Mem, P
<1> HIDE DEF f
<1>9. \A r \in mem'.pending \cup mem'.unpushed : SoundRow(r)
  BY <1>3, <1>4, <1>5 DEF MemSound
<1>10. ASSUME NEW r \in mem'.pending \cup mem'.unpushed,
              NEW x \in mem'.pending \cup mem'.unpushed,
              RowKey(r) = RowKey(x)
       PROVE  r = x
  <2>1. \A y \in mem'.pending \cup mem'.unpushed :
          \/ y \in mem.pending \cup (mem.unpushed \ ok)
          \/ \E z \in ok : y = f(z) /\ RowKey(y) = RowKey(z)
    BY <1>4, <1>5
  <2>2. \A y, z \in mem.pending \cup mem.unpushed :
          RowKey(y) = RowKey(z) => y = z
    BY <1>3 DEF MemSound
  <2>3. ok \subseteq mem.unpushed /\ mem.pending \cap mem.unpushed = {}
    BY <1>3 DEF MemSound
  <2>4. CASE r \in mem.pending \cup (mem.unpushed \ ok)
    <3>1. x \in mem.pending \cup (mem.unpushed \ ok)
      BY <1>10, <2>1, <2>2, <2>3, <2>4
    <3>2. QED
      BY <1>10, <2>2, <2>4, <3>1
  <2>5. CASE \E z \in ok : r = f(z) /\ RowKey(r) = RowKey(z)
    <3>1. PICK z \in ok : r = f(z) /\ RowKey(r) = RowKey(z)
      BY <2>5
    <3>2. x \notin mem.pending \cup (mem.unpushed \ ok)
      BY <1>10, <2>2, <2>3, <3>1
    <3>3. PICK y \in ok : x = f(y) /\ RowKey(x) = RowKey(y)
      BY <2>1, <3>2
    <3>4. y = z
      BY <1>10, <2>2, <3>1, <3>3
    <3>5. QED
      BY <3>1, <3>3, <3>4
  <2>6. QED
    BY <2>1, <2>4, <2>5
<1>11. mem'.pending \cap mem'.unpushed = {}
  <2> SUFFICES ASSUME NEW x \in P, x \in mem.unpushed \ ok
               PROVE  FALSE
    BY <1>3, <1>4 DEF MemSound
  <2>1. PICK z \in ok : x = f(z) /\ RowKey(x) = RowKey(z)
    BY <1>5
  <2>2. x = z
    BY <1>3, <2>1 DEF MemSound
  <2>3. QED
    BY <2>2
<1>12. \A r \in mem'.pending, x \in RowsRan :
          RowKey(r) = RowKey(x) => x.fin <= r.fin
  BY <1>3, <1>4, <1>5, <1>6 DEF MemSound
<1>13. MemSound(mem)'
  BY <1>1, <1>7, <1>8, <1>9, <1>10, <1>11, <1>12
     DEF MemSound, SoundRow, RowsRan
<1>14. MemSound(file)'
  BY <1>1, SameMem DEF AutocalInv, MemSound
<1>15. AutocalTypeOK' /\ CurTyped'
  BY <1>1, <1>8 DEF AutocalInv, AutocalTypeOK, CurTyped
<1>16. Kept(mem) \subseteq Kept(mem')
  BY <1>4, <1>5 DEF Kept, Keys
<1>17. skipRun' < MaxSkipRun
  BY <1>1 DEF AutocalInv, LoopSound
<1>18. QED
  BY <1>1, <1>13, <1>14, <1>15, <1>16, <1>17, LoopMoves

\* What waits here is less than before.
LEMMA LessMem ==
    ASSUME NEW m, MemSound(m), UNCHANGED <<clock, ran>>, NEW n \in Mem,
           n.pending \subseteq m.pending, n.unpushed \subseteq m.unpushed
    PROVE  /\ n \in Mem /\ IsFiniteSet(n.pending) /\ IsFiniteSet(n.unpushed)
           /\ \A r \in n.pending \cup n.unpushed : SoundRow(r)'
           /\ \A r, x \in n.pending \cup n.unpushed :
                 RowKey(r) = RowKey(x) => r = x
           /\ n.pending \cap n.unpushed = {}
           /\ \A r \in n.pending, x \in RowsRan' :
                 RowKey(r) = RowKey(x) => x.fin <= r.fin
<1>1. IsFiniteSet(n.pending) /\ IsFiniteSet(n.unpushed)
  BY FS_Subset DEF MemSound
<1>2. \A r \in n.pending \cup n.unpushed : SoundRow(r)'
  BY DEF MemSound, SoundRow
<1>3. /\ \A r, x \in n.pending \cup n.unpushed :
            RowKey(r) = RowKey(x) => r = x
      /\ n.pending \cap n.unpushed = {}
  BY DEF MemSound
<1>4. \A r \in n.pending, x \in RowsRan' :
         RowKey(r) = RowKey(x) => x.fin <= r.fin
  BY DEF MemSound, RowsRan
<1>5. QED
  BY <1>1, <1>2, <1>3, <1>4

LEMMA ReadStep ==
    ASSUME AutocalInv, Read
    PROVE  AutocalInv'
<1>1. /\ UNCHANGED <<clock, episode, hubVars, file, outage, wake>>
      /\ UNCHANGED <<skipRun, cur, historyVars, rows, ledger, ran>>
      /\ pc = "gates" /\ pc' = "flush" /\ idle' \in {idle, clock}
      /\ mem' = [mem EXCEPT !.pending = Unseen]
  BY DEF Read, hubVars, historyVars, IdleLong, IdleMark
<1>2. MemSound(mem) /\ mem \in Mem
  BY DEF AutocalInv, MemSound
<1>3. Unseen \subseteq mem.pending
  BY DEF Unseen
<1>4. /\ mem' \in Mem
      /\ mem'.pending = Unseen /\ mem'.unpushed = mem.unpushed
  BY <1>1, <1>2, <1>3 DEF Mem
<1>5. MemSound(mem)'
  BY <1>1, <1>2, <1>3, <1>4, LessMem DEF MemSound
<1>6. MemSound(file)'
  BY <1>1, SameMem DEF AutocalInv, MemSound
<1>7. AutocalTypeOK' /\ CurTyped'
  BY <1>1, <1>4 DEF AutocalInv, AutocalTypeOK, CurTyped
<1>8. Kept(mem) \subseteq filed \cup Kept(mem')
  <2>1. Keys(ToSet(rows)) \subseteq filed
    BY DEF AutocalInv, HubSound
  <2>2. \A r \in mem.pending : r \in Unseen \/ RowKey(r) \in filed
    BY <2>1 DEF Unseen
  <2>3. QED
    BY <1>4, <2>2 DEF Kept, Keys
<1>9. Keys(mem'.pending) \cap Keys(ToSet(rows)) = {}
  BY <1>4 DEF Unseen, Keys
<1>10. skipRun' < MaxSkipRun
  BY <1>1 DEF AutocalInv, LoopSound
<1>11. QED
  BY <1>1, <1>5, <1>6, <1>7, <1>8, <1>9, <1>10, LoopMoves

\* A record that waits here is committed: it is new to the Hub.
LEMMA PendingIsNew ==
    ASSUME AutocalInv, pc = "flush", NEW r \in mem.pending, Noted(r),
           UNCHANGED ran
    PROVE  /\ HubSound' /\ rows' \in Seq(Row) /\ Len(rows') <= Keep
           /\ ledger' \in [Gauges -> [last : Times \cup {Never},
                                     fin : Times \cup {Never}]]
           /\ filed' = filed \cup {RowKey(r)}
           /\ ToSet(rows') \subseteq ToSet(rows) \cup {r}
<1>1. SoundRow(r) /\ r \in Row
  BY DEF AutocalInv, MemSound, SoundRow
<1>2. RowKey(r) \notin Keys(ToSet(rows))
  BY DEF AutocalInv, LoopSound, Keys
<1>3. \A x \in RowsRan : RowKey(x) = RowKey(r) => x.fin <= r.fin
  BY DEF AutocalInv, MemSound
<1>4. QED
  BY <1>1, <1>2, <1>3, FilingKeeps

LEMMA FlushStep ==
    ASSUME AutocalInv, FlushOne \/ FlushEnds
    PROVE  AutocalInv'
<1>1. /\ UNCHANGED <<clock, episode, file, outage, wake, idle, skipRun, cur>>
      /\ UNCHANGED <<ran, forgotten>>
      /\ pc = "flush" /\ pc' \in {"flush", "pick"}
  BY DEF FlushOne, FlushEnds
<1>2. MemSound(mem) /\ mem \in Mem
  BY DEF AutocalInv, MemSound
<1>3. MemSound(file)'
  BY <1>1, SameMem DEF AutocalInv, MemSound
<1>4. skipRun' < MaxSkipRun
  BY <1>1 DEF AutocalInv, LoopSound
<1>5. CASE FlushOne
  <2>1. PICK r \in mem.pending :
          Noted(r) /\ mem' = [mem EXCEPT !.pending = @ \ {r}]
    BY <1>5 DEF FlushOne, Accepted
  <2>2. /\ mem' \in Mem /\ mem'.pending = mem.pending \ {r}
        /\ mem'.unpushed = mem.unpushed
    BY <1>2, <2>1 DEF Mem
  <2>3. MemSound(mem)'
    BY <1>1, <1>2, <2>2, LessMem DEF MemSound
  <2>4. /\ HubSound' /\ rows' \in Seq(Row) /\ Len(rows') <= Keep
        /\ ledger' \in [Gauges -> [last : Times \cup {Never},
                                  fin : Times \cup {Never}]]
        /\ filed' = filed \cup {RowKey(r)}
        /\ ToSet(rows') \subseteq ToSet(rows) \cup {r}
    BY <1>1, <2>1, PendingIsNew
  <2>5. AutocalTypeOK' /\ CurTyped'
    BY <1>1, <2>2, <2>4 DEF AutocalInv, AutocalTypeOK, CurTyped
  <2>6. filed \cup Kept(mem) \subseteq filed' \cup Kept(mem')
    BY <2>2, <2>4 DEF Kept, Keys
  <2>7. Keys(mem'.pending) \cap Keys(ToSet(rows')) = {}
    <3> SUFFICES ASSUME NEW x \in mem.pending, x # r, NEW y \in ToSet(rows'),
                        RowKey(x) = RowKey(y)
                 PROVE  FALSE
      BY <2>2 DEF Keys
    <3>1. RowKey(x) # RowKey(r)
      BY <1>2 DEF MemSound
    <3>2. y \in ToSet(rows)
      BY <2>4, <3>1
    <3>3. Keys(mem.pending) \cap Keys(ToSet(rows)) = {}
      BY <1>1 DEF AutocalInv, LoopSound
    <3>4. QED
      BY <3>2, <3>3 DEF Keys
  <2>8. QED
    BY <1>1, <1>3, <1>4, <2>3, <2>4, <2>5, <2>6, <2>7, HubMoves
<1>6. CASE FlushEnds
  <2>1. /\ mem' = mem /\ pc' = "pick"
        /\ \/ UNCHANGED <<hubVars, filed>>
           \/ \E r \in mem.pending : Noted(r)
    BY <1>6 DEF FlushEnds, Failed
  <2>2. /\ HubSound' /\ rows' \in Seq(Row) /\ Len(rows') <= Keep
        /\ ledger' \in [Gauges -> [last : Times \cup {Never},
                                  fin : Times \cup {Never}]]
        /\ filed \subseteq filed'
    <3>1. CASE UNCHANGED <<hubVars, filed>>
      BY <1>1, <3>1
         DEF hubVars, AutocalInv, AutocalTypeOK, HubSound, FiledOnce, RowsRan
    <3>2. CASE \E r \in mem.pending : Noted(r)
      BY <1>1, <3>2, PendingIsNew
    <3>3. QED
      BY <2>1, <3>1, <3>2
  <2>3. MemSound(mem)'
    BY <1>1, <2>1, SameMem DEF AutocalInv, MemSound
  <2>4. AutocalTypeOK' /\ CurTyped'
    BY <1>1, <2>1, <2>2 DEF AutocalInv, AutocalTypeOK, CurTyped
  <2>5. filed \cup Kept(mem) \subseteq filed' \cup Kept(mem')
    BY <2>1, <2>2
  <2>6. QED
    BY <1>1, <1>3, <1>4, <2>1, <2>2, <2>3, <2>4, <2>5, HubMoves
<1>7. QED
  BY <1>5, <1>6

LEMMA SkipsTyped ==
    ASSUME NEW skipped \in [Gauges -> Skips], NEW t
    PROVE  /\ Standing(skipped, t) \in [Gauges -> Skips]
           /\ NewSkips(skipped) \in [Gauges -> Skips]
BY AutocalLimits DEF Standing, NewSkips

\* A summary of the skips is new to the Hub: the last one is older.
LEMMA SummaryIsNew ==
    ASSUME NEW t \in Times, NEW r, r.kind = "skips", r.at = t,
           \A u \in SummaryTimes : t >= u + SummaryEvery
    PROVE  RowKey(r) \notin Keys(ToSet(rows))
<1> SUFFICES ASSUME NEW x \in ToSet(rows), RowKey(x) = RowKey(r)
             PROVE  FALSE
  BY DEF Keys
<1>1. x.kind = "skips" /\ x.at = t
  BY RowKeys
<1>2. x \in Done
  BY DEF Done
<1>3. t \in SummaryTimes
  BY <1>1, <1>2, AutocalLimits DEF SummaryTimes, Known
<1>4. QED
  BY <1>3, AutocalLimits

LEMMA SummarizeKeeps ==
    ASSUME AutocalInv, NEW t \in Times, NEW m \in Mem,
           m.pending = mem.pending, m.unpushed = mem.unpushed,
           Summarize(m, t), UNCHANGED <<ran, clock>>
    PROVE  /\ HubSound' /\ rows' \in Seq(Row) /\ Len(rows') <= Keep
           /\ ledger' \in [Gauges -> [last : Times \cup {Never},
                                     fin : Times \cup {Never}]]
           /\ filed \subseteq filed' /\ Kept(mem') = Kept(mem)
           /\ mem' \in Mem /\ MemSound(mem)'
<1> DEFINE kept == [m EXCEPT !.skipped = Standing(@, t)]
           new == NewSkips(kept.skipped)
           r == [NoRow EXCEPT !.kind = "skips", !.at = t, !.skips = new]
<1>1. /\ kept \in Mem /\ kept.pending = mem.pending
      /\ kept.unpushed = mem.unpushed /\ new \in [Gauges -> Skips]
  BY SkipsTyped DEF Mem
<1>2. \/ /\ \A u \in SummaryTimes : t >= u + SummaryEvery
         /\ Noted(r) /\ mem' \in {kept, [kept EXCEPT !.summarized = t]}
      \/ mem' = kept /\ UNCHANGED <<hubVars, filed>>
  BY DEF Summarize, Accepted, Failed
<1> HIDE DEF kept
<1>3. /\ mem' \in Mem /\ mem'.pending = mem.pending
      /\ mem'.unpushed = mem.unpushed
  BY <1>1, <1>2 DEF Mem
<1>4. MemSound(mem)'
  BY <1>3, LessMem DEF AutocalInv, MemSound
<1>5. Kept(mem') = Kept(mem)
  BY <1>3 DEF Kept
<1>6. CASE /\ \A u \in SummaryTimes : t >= u + SummaryEvery
           /\ Noted(r)
  <2> HIDE DEF new
  <2>1. r \in Row /\ r.kind = "skips" /\ r.at = t
    <3>1. 0 \in Times
      BY AutocalLimits DEF Times
    <3>2. QED
      BY <1>1, <3>1 DEF NoRow, Row
  <2> HIDE DEF r
  <2>2. RowKey(r) \notin Keys(ToSet(rows))
    BY <1>6, <2>1, SummaryIsNew
  <2>3. /\ HubSound' /\ rows' \in Seq(Row) /\ Len(rows') <= Keep
        /\ ledger' \in [Gauges -> [last : Times \cup {Never},
                                  fin : Times \cup {Never}]]
        /\ filed \subseteq filed'
    BY <1>6, <2>1, <2>2, FilingKeeps
  <2>4. QED
    BY <1>3, <1>4, <1>5, <2>3
<1>7. CASE UNCHANGED <<hubVars, filed>>
  <2>1. /\ HubSound' /\ rows' \in Seq(Row) /\ Len(rows') <= Keep
        /\ ledger' \in [Gauges -> [last : Times \cup {Never},
                                  fin : Times \cup {Never}]]
        /\ filed \subseteq filed'
    BY <1>7 DEF hubVars, AutocalInv, AutocalTypeOK, HubSound, FiledOnce, RowsRan
  <2>2. QED
    BY <1>3, <1>4, <1>5, <2>1
<1>8. QED
  BY <1>2, <1>6, <1>7

LEMMA NothingStep ==
    ASSUME AutocalInv, NothingToDo
    PROVE  AutocalInv'
<1>1. /\ UNCHANGED <<clock, episode, outage, idle, cur, ran, forgotten>>
      /\ pc = "pick" /\ pc' = "top" /\ wake' = clock + 1 /\ skipRun' = 0
      /\ file' = mem' /\ Summarize(mem, clock)
  BY DEF NothingToDo, Sleep
<1>2. clock \in Times /\ mem \in Mem
  BY DEF AutocalInv, AutocalTypeOK
<1>3. /\ HubSound' /\ rows' \in Seq(Row) /\ Len(rows') <= Keep
      /\ ledger' \in [Gauges -> [last : Times \cup {Never},
                                fin : Times \cup {Never}]]
      /\ filed \subseteq filed' /\ Kept(mem') = Kept(mem)
      /\ mem' \in Mem /\ MemSound(mem)'
  BY <1>1, <1>2, SummarizeKeeps
<1>4. MemSound(file)'
  BY <1>1, <1>3 DEF MemSound
<1>5. AutocalTypeOK' /\ CurTyped'
  <2>1. wake' \in 0..(MaxTime + IdleFor + 1) /\ wake' <= clock + 1
    BY <1>1, <1>2, AutocalLimits DEF Times
  <2>2. skipRun' \in 0..MaxSkipRun
    BY <1>1, AutocalLimits
  <2>3. QED
    BY <1>1, <1>3, <2>1, <2>2 DEF AutocalInv, AutocalTypeOK, CurTyped
<1>6. filed \cup Kept(mem) \subseteq filed' \cup Kept(mem')
  BY <1>3
<1>7. QED
  BY <1>1, <1>3, <1>4, <1>5, <1>6, AutocalLimits, HubMoves

-----------------------------------------------------------------------------
(* The end of a calibration.                                               *)

LEMMA CurRowSound ==
    ASSUME AutocalInv, Busy, NEW t \in Times, cur.at <= t, t <= clock
    PROVE  /\ SoundRow(CurRow(t)) /\ CurRow(t) \in Row /\ CurRow(t).fin = t
           /\ CurRow(t).kind = "ran" /\ CurRow(t).gauge = cur.gauge
           /\ CurRow(t).events = cur.events /\ CurRow(t).at = cur.at
           /\ RowKey(CurRow(t)) = CurKey
<1>1. cur.gauge \in Gauges /\ cur.at <= clock
  BY DEF AutocalInv, LoopSound
<1>2. cur.at \in Times /\ cur.events \in SUBSET Episodes
  BY DEF AutocalInv, CurTyped
<1>3. /\ CurRow(t) \in Row /\ CurRow(t).fin = t
      /\ CurRow(t).kind = "ran" /\ CurRow(t).gauge = cur.gauge
      /\ CurRow(t).events = cur.events /\ CurRow(t).at = cur.at
  BY <1>1, <1>2, AutocalLimits DEF CurRow, NoRow, Row
<1>4. QED
  BY <1>1, <1>3 DEF SoundRow, RowKey, CurKey

LEMMA EndedTypes ==
    ASSUME AutocalInv, Ended
    PROVE  /\ UNCHANGED <<clock, episode, file, wake, idle, cur, ran>>
           /\ UNCHANGED forgotten
           /\ Busy /\ pc = "ended" /\ pc' = "dump" /\ CurTyped'
           /\ MemSound(file)' /\ skipRun < MaxSkipRun
           /\ outage' \in [Gauges -> [n : 0..(Strikes - 1), at : Times]]
<1>1. /\ UNCHANGED <<clock, episode, file, wake, idle, cur, ran, forgotten>>
      /\ Busy /\ pc = "ended" /\ pc' = "dump"
      /\ outage' = [outage EXCEPT ![cur.gauge] = [n |-> 0, at |-> 0]]
  BY DEF Ended, Busy
<1>2. outage' \in [Gauges -> [n : 0..(Strikes - 1), at : Times]]
  <2>1. cur.gauge \in Gauges /\ 0 \in 0..(Strikes - 1) /\ 0 \in Times
    BY <1>1, AutocalLimits DEF AutocalInv, LoopSound, Times
  <2>2. QED
    BY <1>1, <2>1, OutageTyped
<1>3. CurTyped'
  <2>1. outage' \in [Gauges -> [n : Nat, at : Times]]
    BY <1>2, AutocalLimits
  <2>2. QED
    BY <1>1, <2>1 DEF AutocalInv, CurTyped
<1>4. MemSound(file)'
  BY <1>1, SameMem DEF AutocalInv, MemSound
<1>5. skipRun < MaxSkipRun
  BY <1>1 DEF AutocalInv, LoopSound
<1>6. QED
  BY <1>1, <1>2, <1>3, <1>4, <1>5

LEMMA NoteSkipStep ==
    ASSUME AutocalInv, NoteSkip
    PROVE  AutocalInv'
<1> DEFINE skip == [at |-> cur.at, ttl |-> cur.out, events |-> cur.events]
           m == [mem EXCEPT !.skipped[cur.gauge] = skip]
<1>1. /\ Ended /\ cur.out \in {"outage", "error", "obs"}
      /\ Summarize(m, cur.at) /\ skipRun' = skipRun + 1
  BY DEF NoteSkip
<1>2. /\ UNCHANGED <<clock, episode, file, wake, idle, cur, ran, forgotten>>
      /\ Busy /\ pc = "ended" /\ pc' = "dump" /\ CurTyped'
      /\ MemSound(file)' /\ skipRun < MaxSkipRun
      /\ outage' \in [Gauges -> [n : 0..(Strikes - 1), at : Times]]
  BY <1>1, EndedTypes
<1>3. mem \in Mem /\ cur.at \in Times /\ cur.events \in SUBSET Episodes
  BY DEF AutocalInv, AutocalTypeOK, CurTyped
<1>4. skip \in Skips
  BY <1>1, <1>3 DEF Skips
<1>5. m \in Mem /\ m.pending = mem.pending /\ m.unpushed = mem.unpushed
  BY <1>3, <1>4 DEF Mem
<1> HIDE DEF m
<1>6. /\ HubSound' /\ rows' \in Seq(Row) /\ Len(rows') <= Keep
      /\ ledger' \in [Gauges -> [last : Times \cup {Never},
                                fin : Times \cup {Never}]]
      /\ filed \subseteq filed' /\ Kept(mem') = Kept(mem)
      /\ mem' \in Mem /\ MemSound(mem)'
  BY <1>1, <1>2, <1>3, <1>5, SummarizeKeeps
<1>7. AutocalTypeOK'
  <2>1. skipRun' \in 0..MaxSkipRun
    BY <1>1, <1>2, AutocalLimits DEF AutocalInv, AutocalTypeOK
  <2>2. QED
    BY <1>2, <1>6, <2>1 DEF AutocalInv, AutocalTypeOK
<1>8. filed \cup Kept(mem) \subseteq filed' \cup Kept(mem')
  BY <1>6
<1>9. ~Finished
  BY <1>1 DEF Finished
<1>10. QED
  BY <1>2, <1>6, <1>7, <1>8, <1>9, HubMoves

\* A record of the calibration that ended joins what waits here.
LEMMA WaitsToo ==
    ASSUME AutocalInv, Busy, NEW t \in Times, cur.at <= t, t <= clock,
           UNCHANGED <<clock, ran>>,
           \/ /\ mem' = [mem EXCEPT !.pending = @ \cup {CurRow(t)}]
              /\ \A x \in RowsRan : x.fin <= t
           \/ mem' = [mem EXCEPT !.unpushed = @ \cup {CurRow(t)}]
    PROVE  /\ mem' \in Mem /\ MemSound(mem)' /\ Kept(mem) \subseteq Kept(mem')
           /\ CurKey \in Kept(mem')
<1> DEFINE r == CurRow(t)
<1>1. SoundRow(r) /\ r \in Row /\ r.fin = t /\ RowKey(r) = CurKey
  BY CurRowSound
<1> HIDE DEF r
<1>2. MemSound(mem) /\ mem \in Mem
  BY DEF AutocalInv, MemSound
<1>3. \A x \in mem.pending \cup mem.unpushed : RowKey(x) # RowKey(r)
  BY <1>1 DEF AutocalInv, LoopSound, Kept, Keys
<1>4. /\ mem' \in Mem
      /\ \/ /\ mem'.pending = mem.pending \cup {r}
            /\ mem'.unpushed = mem.unpushed
            /\ \A x \in RowsRan : x.fin <= t
         \/ /\ mem'.unpushed = mem.unpushed \cup {r}
            /\ mem'.pending = mem.pending
  <2>1. /\ mem.pending \cup {r} \in SUBSET Row
        /\ mem.unpushed \cup {r} \in SUBSET Row
    BY <1>1, <1>2 DEF Mem
  <2>2. QED
    BY <1>2, <2>1 DEF Mem, r
<1>5. IsFiniteSet(mem'.pending) /\ IsFiniteSet(mem'.unpushed)
  <2>1. IsFiniteSet(mem.pending \cup {r}) /\ IsFiniteSet(mem.unpushed \cup {r})
    BY <1>2, FS_AddElement DEF MemSound
  <2>2. QED
    BY <1>2, <1>4, <2>1 DEF MemSound
<1>6. mem'.pending \cup mem'.unpushed = mem.pending \cup mem.unpushed \cup {r}
  BY <1>4
<1>7. \A x \in mem'.pending \cup mem'.unpushed : SoundRow(x)'
  BY <1>1, <1>2, <1>6 DEF MemSound, SoundRow
<1>8. \A x, y \in mem'.pending \cup mem'.unpushed :
         RowKey(x) = RowKey(y) => x = y
  BY <1>2, <1>3, <1>6 DEF MemSound
<1>9. mem'.pending \cap mem'.unpushed = {}
  BY <1>2, <1>3, <1>4 DEF MemSound
<1>10. \A x \in mem'.pending, y \in RowsRan' :
          RowKey(x) = RowKey(y) => y.fin <= x.fin
  BY <1>1, <1>2, <1>4 DEF MemSound, RowsRan
<1>11. MemSound(mem)'
  BY <1>4, <1>5, <1>7, <1>8, <1>9, <1>10 DEF MemSound
<1>12. Kept(mem) \subseteq Kept(mem') /\ CurKey \in Kept(mem')
  BY <1>1, <1>6 DEF Kept, Keys
<1>13. QED
  BY <1>4, <1>11, <1>12

LEMMA FiledStep ==
    ASSUME AutocalInv, FileRecord
    PROVE  AutocalInv'
<1> DEFINE t == cur.fin
           r == CurRow(t)
<1>1. /\ Ended /\ cur.out = "finished" /\ skipRun' = 0
      /\ \/ Noted(r) /\ mem' = mem
         \/ /\ Noted(r) \/ UNCHANGED <<hubVars, filed>>
            /\ mem' = [mem EXCEPT !.pending = @ \cup {r}]
  BY DEF FileRecord, Accepted, Failed
<1>2. /\ UNCHANGED <<clock, episode, file, wake, idle, cur, ran, forgotten>>
      /\ Busy /\ pc = "ended" /\ pc' = "dump" /\ CurTyped'
      /\ MemSound(file)' /\ skipRun < MaxSkipRun
      /\ outage' \in [Gauges -> [n : 0..(Strikes - 1), at : Times]]
  BY <1>1, EndedTypes
<1>3. /\ t \in Times /\ cur.at <= t /\ t <= clock
      /\ \A x \in RowsRan : x.fin <= t
  BY <1>1, <1>2 DEF AutocalInv, CurTyped, LoopSound, Finished, RowsRan
<1>4. SoundRow(r) /\ r \in Row /\ r.fin = t /\ RowKey(r) = CurKey
  BY <1>2, <1>3, CurRowSound
<1> HIDE DEF r
<1>5. CurKey \notin filed /\ Keys(ToSet(rows)) \subseteq filed
  BY <1>2 DEF AutocalInv, LoopSound, HubSound
<1>6. Noted(r) =>
        /\ HubSound' /\ rows' \in Seq(Row) /\ Len(rows') <= Keep
        /\ ledger' \in [Gauges -> [last : Times \cup {Never},
                                  fin : Times \cup {Never}]]
        /\ filed' = filed \cup {CurKey}
  <2> SUFFICES ASSUME Noted(r)
               PROVE  /\ HubSound' /\ rows' \in Seq(Row) /\ Len(rows') <= Keep
                      /\ ledger' \in [Gauges -> [last : Times \cup {Never},
                                                fin : Times \cup {Never}]]
                      /\ filed' = filed \cup {CurKey}
    OBVIOUS
  <2>1. RowKey(r) \notin Keys(ToSet(rows))
    BY <1>4, <1>5
  <2>2. \A x \in RowsRan : RowKey(x) = RowKey(r) => x.fin <= r.fin
    BY <1>3, <1>4
  <2>3. QED
    BY <1>2, <1>4, <2>1, <2>2, FilingKeeps
<1>7. UNCHANGED <<hubVars, filed>> =>
        /\ HubSound' /\ rows' \in Seq(Row) /\ Len(rows') <= Keep
        /\ ledger' \in [Gauges -> [last : Times \cup {Never},
                                  fin : Times \cup {Never}]]
  BY <1>2 DEF hubVars, AutocalInv, AutocalTypeOK, HubSound, FiledOnce, RowsRan
<1>8. /\ HubSound' /\ rows' \in Seq(Row) /\ Len(rows') <= Keep
      /\ ledger' \in [Gauges -> [last : Times \cup {Never},
                                fin : Times \cup {Never}]]
      /\ filed \subseteq filed'
  BY <1>1, <1>6, <1>7
<1>9. /\ mem' \in Mem /\ MemSound(mem)' /\ Kept(mem) \subseteq Kept(mem')
      /\ CurKey \in filed' \cup Kept(mem')
  <2>1. CASE Noted(r) /\ mem' = mem
    BY <1>2, <1>6, <2>1, SameMem DEF AutocalInv, MemSound
  <2>2. CASE mem' = [mem EXCEPT !.pending = @ \cup {r}]
    BY <1>2, <1>3, <2>2, WaitsToo DEF r
  <2>3. QED
    BY <1>1, <2>1, <2>2
<1>10. AutocalTypeOK'
  <2>1. skipRun' \in 0..MaxSkipRun
    BY <1>1, AutocalLimits
  <2>2. QED
    BY <1>2, <1>8, <1>9, <2>1 DEF AutocalInv, AutocalTypeOK
<1>11. filed \cup Kept(mem) \subseteq filed' \cup Kept(mem')
  BY <1>8, <1>9
<1>12. QED
  BY <1>2, <1>8, <1>9, <1>10, <1>11, HubMoves

LEMMA KeepStep ==
    ASSUME AutocalInv, KeepUnpushed
    PROVE  AutocalInv'
<1>1. /\ Ended /\ cur.out = "unpushed" /\ skipRun' = 0
      /\ mem' = [mem EXCEPT !.unpushed = @ \cup {CurRow(cur.at)}]
      /\ UNCHANGED <<rows, ledger, filed>>
  BY DEF KeepUnpushed, hubVars
<1>2. /\ UNCHANGED <<clock, episode, file, wake, idle, cur, ran, forgotten>>
      /\ Busy /\ pc = "ended" /\ pc' = "dump" /\ CurTyped'
      /\ MemSound(file)' /\ skipRun < MaxSkipRun
      /\ outage' \in [Gauges -> [n : 0..(Strikes - 1), at : Times]]
  BY <1>1, EndedTypes
<1>3. cur.at \in Times /\ cur.at <= cur.at /\ cur.at <= clock
  BY <1>2, AutocalLimits DEF AutocalInv, CurTyped, LoopSound
<1>4. /\ mem' \in Mem /\ MemSound(mem)' /\ Kept(mem) \subseteq Kept(mem')
      /\ CurKey \in Kept(mem')
  BY <1>1, <1>2, <1>3, WaitsToo
<1>5. HubSound'
  BY <1>1, <1>2 DEF AutocalInv, HubSound, FiledOnce, RowsRan
<1>6. AutocalTypeOK'
  <2>1. skipRun' \in 0..MaxSkipRun
    BY <1>1, AutocalLimits
  <2>2. QED
    BY <1>1, <1>2, <1>4, <2>1 DEF AutocalInv, AutocalTypeOK
<1>7. filed \cup Kept(mem) \subseteq filed' \cup Kept(mem')
  BY <1>1, <1>4
<1>8. QED
  BY <1>1, <1>2, <1>4, <1>5, <1>6, <1>7, HubMoves

-----------------------------------------------------------------------------
(* A calibration, until it ends.                                           *)

\* It did not run, or struck out: nothing is recorded.
LEMMA DidNotEnd ==
    ASSUME AutocalInv, pc = "running", pc' = "ended",
           NEW why \in {"outage", "error", "obs"},
           cur' = [cur EXCEPT !.out = why],
           UNCHANGED <<clock, episode, hubVars, historyVars>>,
           UNCHANGED <<mem, file, wake, idle, skipRun>>,
           outage' \in [Gauges -> [n : 0..(Strikes - 1), at : Times]]
    PROVE  AutocalInv'
<1>1. UNCHANGED <<rows, ledger, ran, forgotten, filed>>
  BY DEF hubVars, historyVars
<1>2. /\ CurTyped' /\ cur'.out = why
      /\ cur'.gauge = cur.gauge /\ cur'.events = cur.events
      /\ cur'.at = cur.at /\ cur'.floods = cur.floods /\ cur'.known = cur.known
  <2>1. outage' \in [Gauges -> [n : Nat, at : Times]]
    BY AutocalLimits
  <2>2. QED
    BY <2>1 DEF AutocalInv, CurTyped
<1>3. AutocalTypeOK'
  BY <1>1, <1>2 DEF AutocalInv, AutocalTypeOK
<1>4. RowsRan' = RowsRan
  BY <1>1 DEF RowsRan
<1>5. RanSound' /\ MemSound(mem)' /\ MemSound(file)' /\ HubSound'
  BY <1>1, <1>4
     DEF AutocalInv, RanSound, MemSound, SoundRow, HubSound, FiledOnce
<1>6. LoopSound'
  BY <1>1, <1>2 DEF AutocalInv, LoopSound, Busy, Finished, CurKey, Kept
<1>7. Remembered'
  BY <1>1 DEF AutocalInv, Remembered, Kept
<1>8. Cooling' /\ FloodsNew'
  BY <1>1, <1>2, <1>4
     DEF AutocalInv, Cooling, CooldownHeld, FloodsNew, NewFloods, Busy
<1>9. EpisodesTrue'
  BY DEF AutocalInv, EpisodesTrue
<1>10. QED
  BY <1>2, <1>3, <1>5, <1>6, <1>7, <1>8, <1>9 DEF AutocalInv

LEMMA DidNotRunStep ==
    ASSUME AutocalInv, NEW why \in {"error", "obs"}, DidNotRun(why)
    PROVE  AutocalInv'
BY DidNotEnd DEF DidNotRun, AutocalInv, AutocalTypeOK

LEMMA OutageStep ==
    ASSUME AutocalInv, OutageHit
    PROVE  AutocalInv'
<1> DEFINE g == cur.gauge
           n == Struck(g)
<1>1. /\ pc = "running" /\ UNCHANGED <<idle, clock, episode, hubVars>>
      /\ UNCHANGED <<ran, forgotten, filed>>
  BY DEF OutageHit, Dropped
<1>2. g \in Gauges /\ cur.at \in Times /\ 0 \in Times
  BY <1>1, AutocalLimits DEF AutocalInv, LoopSound, Busy, CurTyped, Times
<1>3. n \in Nat
  BY <1>2 DEF Struck, AutocalInv, CurTyped
<1> HIDE DEF n
<1>4. CASE n < Strikes
  <2>1. /\ outage' = [outage EXCEPT ![g] = [n |-> n, at |-> cur.at]]
        /\ skipRun' = 0 /\ cur' = NoCand /\ DumpAnd(1, mem)
    BY <1>4 DEF OutageHit, Dropped, n
  <2>2. n \in 0..(Strikes - 1)
    BY <1>3, <1>4, AutocalLimits
  <2>3. outage' \in [Gauges -> [n : 0..(Strikes - 1), at : Times]]
    BY <1>2, <2>1, <2>2, OutageTyped
  <2>4. skipRun' \in 0..MaxSkipRun /\ skipRun' < MaxSkipRun
    BY <2>1, AutocalLimits
  <2>5. idle' \in Times \cup {Never}
    BY <1>1 DEF AutocalInv, AutocalTypeOK
  <2>6. QED
    BY <1>1, <2>1, <2>3, <2>4, <2>5, DumpTypes DEF historyVars
<1>5. CASE ~(n < Strikes)
  <2>1. /\ outage' = [outage EXCEPT ![g] = [n |-> 0, at |-> 0]]
        /\ cur' = [cur EXCEPT !.out = "outage"] /\ pc' = "ended"
        /\ UNCHANGED <<mem, file, wake, skipRun>>
    BY <1>5 DEF OutageHit, n
  <2>2. 0 \in 0..(Strikes - 1)
    BY AutocalLimits
  <2>3. outage' \in [Gauges -> [n : 0..(Strikes - 1), at : Times]]
    BY <1>2, <2>1, <2>2, OutageTyped
  <2>4. QED
    BY <1>1, <2>1, <2>3, DidNotEnd DEF historyVars
<1>6. QED
  BY <1>4, <1>5

LEMMA SearchStep ==
    ASSUME AutocalInv, NEW out \in {"finished", "unpushed"}, SearchEnds(out)
    PROVE  AutocalInv'
<1> DEFINE new == [row |-> CurRow(clock), floods |-> cur.floods,
                   known |-> cur.known]
           r == CurRow(clock)
<1>1. /\ pc = "running" /\ pc' = "ended" /\ ran' = ran \cup {new}
      /\ cur' = [cur EXCEPT !.out = out, !.fin = clock]
      /\ UNCHANGED <<clock, episode, rows, ledger, mem, file, outage, wake>>
      /\ UNCHANGED <<idle, skipRun, forgotten, filed>>
  BY DEF SearchEnds, hubVars
<1>2. /\ Busy /\ file = mem /\ cur.at <= clock /\ clock \in Times
      /\ clock <= clock /\ CurKey \notin filed \cup Kept(mem)
      /\ cur.gauge \in Gauges /\ cur.at \in Times
  BY SMTT(30), <1>1, AutocalLimits
     DEF AutocalInv, LoopSound, Busy, AutocalTypeOK, CurTyped
<1>3. /\ SoundRow(r) /\ r \in Row /\ r.fin = clock /\ r.kind = "ran"
      /\ r.gauge = cur.gauge /\ r.at = cur.at /\ RowKey(r) = CurKey
  BY <1>2, CurRowSound
<1>4. /\ CurTyped' /\ cur'.out = out /\ cur'.fin = clock
      /\ cur'.gauge = cur.gauge /\ cur'.events = cur.events
      /\ cur'.at = cur.at /\ cur'.floods = cur.floods /\ cur'.known = cur.known
  BY <1>1, <1>2 DEF AutocalInv, CurTyped
<1>5. CurRow(cur.fin)' = r /\ CurKey' = CurKey
  BY <1>1, <1>4 DEF CurRow, CurKey
<1> HIDE DEF r
<1>6. /\ RowsRan' = RowsRan \cup {r} /\ new.row = r
      /\ new.floods = cur.floods /\ new.known = cur.known
  <2>1. new.row = r /\ new.floods = cur.floods /\ new.known = cur.known
    BY DEF r
  <2> HIDE DEF new
  <2>2. RowsRan' = RowsRan \cup {r}
    BY <1>1, <2>1 DEF RowsRan
  <2>3. QED
    BY <2>1, <2>2
<1> HIDE DEF new
<1>7. AutocalTypeOK'
  BY <1>1, <1>4 DEF AutocalInv, AutocalTypeOK
<1>8. RanSound'
  BY <1>1, <1>3, <1>6 DEF AutocalInv, RanSound, SoundRow
<1>9. MemSound(mem)' /\ MemSound(file)'
  <2>1. \A x \in mem.pending : RowKey(x) # RowKey(r)
    BY <1>2, <1>3 DEF Kept, Keys
  <2>2. /\ MemSound(mem)
        /\ \A x \in mem.pending, y \in RowsRan' :
              RowKey(x) = RowKey(y) => y.fin <= x.fin
    BY <1>6, <2>1 DEF AutocalInv, MemSound
  <2>3. QED
    BY <1>1, <1>2, <2>2 DEF MemSound, SoundRow
<1>10. HubSound'
  BY <1>1, <1>2, <1>3, <1>6 DEF AutocalInv, HubSound, FiledOnce
<1>11. LoopSound'
  <2>1. \A x \in ran' : x.row.fin <= clock
    BY <1>1, <1>3, <1>6, <1>2 DEF AutocalInv, RanSound, SoundRow
  <2>2. pc' # "dump" => skipRun' < MaxSkipRun
    BY <1>1 DEF AutocalInv, LoopSound
  <2>3. QED
    BY <1>1, <1>2, <1>4, <1>5, <2>1, <2>2 DEF LoopSound, Busy, Kept
<1>12. Remembered'
  <2> SUFFICES ASSUME NEW x \in ran' \ forgotten
               PROVE  \/ RowKey(x.row) \in filed \cup Kept(mem)
                      \/ x.row = r
    BY <1>1, <1>4, <1>5 DEF Remembered, Finished, Kept
  <2>1. QED
    BY <1>1, <1>6 DEF AutocalInv, Remembered
<1>13. Cooling'
  <2> SUFFICES ASSUME forgotten = {}, NEW x \in RowsRan', NEW y \in RowsRan',
                      x.gauge = y.gauge, x.at < y.at
               PROVE  y.at - x.at >= Cooldown
    BY <1>1 DEF Cooling, CooldownHeld
  <2>1. \A z \in RowsRan : z.gauge = cur.gauge => cur.at - z.at >= Cooldown
    BY <1>1 DEF AutocalInv, Cooling
  <2>2. \A z \in RowsRan : z.at \in Nat
    BY AutocalLimits DEF AutocalInv, RanSound, SoundRow, Row, RowsRan
  <2>3. cur.at \in Nat /\ Cooldown \in Nat
    BY <1>2, AutocalLimits
  <2>4. CASE x \in RowsRan /\ y \in RowsRan
    BY <2>4 DEF AutocalInv, Cooling, CooldownHeld
  <2>5. CASE x \in RowsRan /\ y = r
    BY <1>3, <2>1, <2>5
  <2>6. CASE x = r /\ y \in RowsRan
    BY <1>3, <2>1, <2>2, <2>3, <2>6
  <2>7. CASE x = r /\ y = r
    BY <1>3, <2>3, <2>7
  <2>8. QED
    BY <1>6, <2>4, <2>5, <2>6, <2>7
<1>14. FloodsNew'
  BY <1>1, <1>2, <1>3, <1>4, <1>6 DEF AutocalInv, FloodsNew, NewFloods
<1>15. EpisodesTrue'
  BY <1>1 DEF AutocalInv, EpisodesTrue
<1>16. QED
  BY <1>4, <1>7, <1>8, <1>9, <1>10, <1>11, <1>12, <1>13, <1>14, <1>15
     DEF AutocalInv

-----------------------------------------------------------------------------
(* The start of a calibration.                                             *)

LEMMA FirstIsOne ==
    ASSUME NEW S \in SUBSET Gauges, S # {}
    PROVE  FirstOf(S) \in S
<1> DEFINE D == {i \in DOMAIN Order : Order[i] \in S}
<1>1. Order \in Seq(Gauges) /\ DOMAIN Order \subseteq Nat
  BY AutocalAssumption
<1>2. D \in SUBSET Nat /\ D # {}
  BY <1>1 DEF Gauges, ToSet
<1>3. PICK i \in D : \A k \in D : i <= k
  BY <1>2, LeastOne
<1>4. \A j \in 1..(i - 1) : Order[j] \notin S
  <2> SUFFICES ASSUME NEW j \in 1..(i - 1), Order[j] \in S
               PROVE  FALSE
    OBVIOUS
  <2>1. i \in 1..Len(Order) /\ Len(Order) \in Nat
    BY <1>1
  <2>2. j \in D
    BY <1>1, <2>1
  <2>3. QED
    BY <1>3, <2>1, <2>2
<1>5. QED
  BY <1>3, <1>4 DEF FirstOf

\* When an episode was published is when one of those it stands for was
\* simulated.
LEMMA PublishedIs ==
    ASSUME AutocalInv, NEW e \in Episodes, episode[e].on
    PROVE  \E d \in StandsFor(e) :
              /\ PublishedAt(e) = episode[d].t0
              /\ episode[d].t0 \in Times /\ episode[d].t0 <= clock
<1>1. episode \in [Episodes -> [on : BOOLEAN, gen : Times, t0 : Times,
                                merged : Times \cup {Never},
                                into : Episodes \cup {None}]]
  BY DEF AutocalInv, AutocalTypeOK
<1>2. \A d \in Episodes :
         /\ episode[d].t0 \in Times /\ episode[d].t0 <= clock
         /\ episode[d].gen \in Times
  BY <1>1 DEF AutocalInv, EpisodesTrue
<1>3. e \in StandsFor(e) /\ StandsFor(e) \subseteq Episodes
  BY DEF StandsFor, Absorbed
<1>4. CASE episode[e].gen # episode[e].merged
  <2>1. PublishedAt(e) = episode[e].t0
    BY <1>4 DEF PublishedAt, AutocalInv, EpisodesTrue
  <2>2. QED
    BY <1>2, <1>3, <2>1
<1>5. CASE episode[e].gen = episode[e].merged
  <2> DEFINE S == {episode[d].gen : d \in Absorbed(e)} \cup {episode[e].t0}
  <2>1. S \in SUBSET (0..MaxTime) /\ S # {}
    BY <1>2 DEF Absorbed, Times
  <2>2. Newest(S) \in S
    <3> HIDE DEF S
    <3>1. \E m \in S : \A k \in S : k <= m
      BY <2>1, AutocalLimits, LastOne
    <3>2. QED
      BY <3>1 DEF Newest
  <2>4. PublishedAt(e) \in S
    BY <1>5, <2>2 DEF PublishedAt
  <2>5. \A d \in Absorbed(e) :
           episode[d].gen = episode[d].t0 /\ d \in StandsFor(e)
    <3> SUFFICES ASSUME NEW d \in Episodes, episode[d].into = e
                 PROVE  episode[d].gen = episode[d].t0
      BY DEF Absorbed, StandsFor
    <3>1. episode[d].into # None
      BY AutocalAssumption
    <3>2. episode[d].on /\ episode[d].merged = Never
      BY <3>1 DEF AutocalInv, EpisodesTrue
    <3>3. episode[d].gen # Never
      BY <1>2, AutocalLimits
    <3>4. QED
      BY <3>2, <3>3 DEF AutocalInv, EpisodesTrue
  <2>6. QED
    BY <1>2, <1>3, <2>4, <2>5
<1>6. QED
  BY <1>4, <1>5

\* A row of the gauge that calibrations are counted by: on the Hub, or here
\* and not there.
LEMMA KnownHere ==
    ASSUME AutocalInv, NEW k \in Kept(mem)
    PROVE  \/ k \in filed
           \/ \E y \in mem.pending \cup mem.unpushed :
                 RowKey(y) = k /\ y \in Ran(Done) /\ SoundRow(y)
<1>1. PICK y \in mem.pending \cup mem.unpushed : RowKey(y) = k
  BY DEF Kept, Keys
<1>2. SoundRow(y) /\ y.kind = "ran"
  BY DEF AutocalInv, MemSound, SoundRow
<1>3. Keys(ToSet(rows)) \subseteq filed
  BY DEF AutocalInv, HubSound
<1>4. CASE RowKey(y) \in Keys(ToSet(rows))
  BY <1>1, <1>3, <1>4
<1>5. CASE RowKey(y) \notin Keys(ToSet(rows))
  <2>1. y \in Done
    BY <1>5 DEF Done
  <2>2. y \in Ran(Done)
    BY <1>2, <2>1 DEF Ran
  <2>3. QED
    BY <1>1, <1>2, <2>2
<1>6. QED
  BY <1>4, <1>5

\* What the ledger and the records say of the gauge's last calibrations.
LEMMA Counted ==
    ASSUME AutocalInv, NEW g \in Gauges
    PROVE  /\ ledger[g].last # Never => ledger[g].last \in LastRun(Done, g)
           /\ ledger[g].fin # Never => ledger[g].fin \in Finishes(Done, g)
           /\ \A y \in Ran(Done) : y.gauge = g /\ y.at # Never =>
                 y.at \in LastRun(Done, g) /\ y.at \in Finishes(Done, g)
           /\ \A y \in Ran(Done) : y.gauge = g /\ y.fin # Never =>
                 y.fin \in Finishes(Done, g)
<1>1. ledger[g].last # Never => ledger[g].last \in LastRun(Done, g)
  BY DEF LastRun, Known
<1>2. ledger[g].fin # Never => ledger[g].fin \in Finishes(Done, g)
  BY DEF Finishes, Known
<1>3. ASSUME NEW y \in Ran(Done), y.gauge = g
      PROVE  /\ y.at # Never =>
                  y.at \in LastRun(Done, g) /\ y.at \in Finishes(Done, g)
             /\ y.fin # Never => y.fin \in Finishes(Done, g)
  <2>1. y \in {x \in Ran(Done) : x.gauge = g}
    BY <1>3
  <2>2. y.at # Never => y.at \in LastRun(Done, g)
    BY <2>1 DEF LastRun, Known
  <2>3. /\ y.at # Never => y.at \in Finishes(Done, g)
        /\ y.fin # Never => y.fin \in Finishes(Done, g)
    <3>1. {y.fin, y.at} \in
            {{r.fin, r.at} : r \in {x \in Ran(Done) : x.gauge = g}}
      BY <2>1
    <3>2. {y.fin, y.at} \subseteq
            UNION {{r.fin, r.at} : r \in {x \in Ran(Done) : x.gauge = g}}
      BY <3>1
    <3>3. QED
      BY <3>2 DEF Finishes, Known
  <2>4. QED
    BY <2>2, <2>3
<1>4. QED
  BY <1>1, <1>2, <1>3

\* What starts is the first live gauge's eligible episodes.
LEMMA Starts ==
    ASSUME AutocalInv, Start
    PROVE  LET g == FirstOf(Live(Done))
           IN  /\ g \in Gauges /\ cur'.gauge = g /\ cur'.at = clock
               /\ cur'.out = "none" /\ CurTyped'
               /\ cur'.events = CandEvents(Done, g)
               /\ cur'.floods = UNION {StandsFor(e) : e \in CandEvents(Done, g)}
               /\ cur'.known = {RowKey(r) : r \in Ran(Done)}
               /\ cur'.events # {} /\ cur'.events \subseteq Episodes
<1> DEFINE g == FirstOf(Live(Done))
           E == CandEvents(Done, g)
           floods == UNION {StandsFor(e) : e \in E}
           known == {RowKey(r) : r \in Ran(Done)}
<1>1. cur' = [NoCand EXCEPT !.gauge = g, !.at = clock, !.events = E,
                            !.floods = floods, !.known = known]
  BY DEF Start
<1>2. Live(Done) \in SUBSET Gauges /\ Live(Done) # {}
  BY DEF Start, Live
<1>3. g \in Live(Done) /\ g \in Gauges
  BY <1>2, FirstIsOne
<1>4. E # {} /\ E \subseteq Episodes
  BY <1>3 DEF Live, CandEvents
<1>5. floods \subseteq Episodes
  BY <1>4 DEF StandsFor, Absorbed
<1>6. clock \in Times /\ 0 \in Times /\ wake' = wake /\ clock' = clock
  BY AutocalLimits DEF AutocalInv, AutocalTypeOK, Start, Times
<1> HIDE DEF g, E, floods, known
<1>7. /\ cur'.gauge = g /\ cur'.at = clock /\ cur'.out = "none"
      /\ cur'.events = E /\ cur'.floods = floods /\ cur'.known = known
  BY <1>1 DEF NoCand
<1>8. cur' \in [gauge : Gauges \cup {None}, events : SUBSET Episodes,
                at : Times, fin : Times,
                out : {"none", "finished", "unpushed", "outage", "error",
                       "obs"},
                floods : SUBSET Episodes, known : {cur'.known}]
  BY <1>1, <1>3, <1>4, <1>5, <1>6, <1>7 DEF NoCand
<1>9. CurTyped'
  BY <1>6, <1>8 DEF Start, AutocalInv, CurTyped
<1>10. QED
  BY <1>3, <1>4, <1>7, <1>9 DEF g, E, floods, known

\* Its episodes were published after every calibration of the gauge, and it
\* is cooled.
LEMMA Fresh ==
    ASSUME AutocalInv, NEW g \in Gauges, NEW e \in CandEvents(Done, g)
    PROVE  /\ \E d \in StandsFor(e) :
                 /\ PublishedAt(e) = episode[d].t0
                 /\ episode[d].t0 \in Times /\ episode[d].t0 <= clock
           /\ \A t \in Finishes(Done, g) : PublishedAt(e) > t
           /\ \A t \in LastRun(Done, g) : clock - t >= Cooldown
           /\ StandsFor(e) \cap Handled(Done, g) = {}
<1>1. e \in Episodes /\ Eligible(Done, e) /\ EpisodeGauge[e] = g
  BY DEF CandEvents
<1>2. episode[e].on
  BY <1>1 DEF Eligible
<1>3. QED
  BY <1>1, <1>2, PublishedIs DEF Eligible, Cooled

\* A calibration that ran ended before what starts was published, and the
\* gauge has cooled since it started.
LEMMA RanBefore ==
    ASSUME AutocalInv, NEW g \in Gauges, NEW e \in CandEvents(Done, g),
           NEW k \in filed \cup Kept(mem), k[1] = g, k[3] = "ran"
    PROVE  /\ k[4] \in Times /\ clock - k[4] >= Cooldown
           /\ k[4] < clock
<1>1. PICK d \in StandsFor(e) :
         /\ PublishedAt(e) = episode[d].t0
         /\ episode[d].t0 \in Times /\ episode[d].t0 <= clock
  BY Fresh
<1>2. clock \in Nat /\ Cooldown \in Nat /\ episode[d].t0 \in Nat
  BY <1>1, AutocalLimits DEF AutocalInv, AutocalTypeOK
<1>3. CASE k \in filed
  <2>1. /\ k[4] \in Times
        /\ ledger[g].last # Never /\ k[4] <= ledger[g].last
        /\ ledger[g].fin # Never /\ k[4] <= ledger[g].fin
    BY <1>3 DEF AutocalInv, HubSound
  <2>2. /\ ledger[g].last \in Nat /\ ledger[g].fin \in Nat /\ k[4] \in Nat
    BY <2>1, AutocalLimits DEF AutocalInv, AutocalTypeOK
  <2>3. clock - ledger[g].last >= Cooldown /\ episode[d].t0 > ledger[g].fin
    BY <1>1, <2>1, Counted, Fresh
  <2>4. QED
    BY <1>1, <1>2, <2>1, <2>2, <2>3
<1>4. CASE k \in Kept(mem) \ filed
  <2>1. PICK y \in mem.pending \cup mem.unpushed :
           RowKey(y) = k /\ y \in Ran(Done) /\ SoundRow(y)
    BY <1>4, KnownHere
  <2>2. y.gauge = g /\ y.at = k[4] /\ y.at \in Times
    BY <2>1, RowKeys DEF SoundRow, Row
  <2>3. y.at # Never /\ y.at \in Nat
    BY <2>2, AutocalLimits
  <2>4. clock - y.at >= Cooldown /\ episode[d].t0 > y.at
    BY <1>1, <2>1, <2>2, <2>3, Counted, Fresh
  <2>5. QED
    BY <1>1, <1>2, <2>2, <2>3, <2>4
<1>5. QED
  BY <1>3, <1>4

LEMMA StartStep ==
    ASSUME AutocalInv, Start
    PROVE  AutocalInv'
<1> DEFINE g == FirstOf(Live(Done))
<1>1. /\ pc = "pick" /\ pc' = "running" /\ file' = mem
      /\ UNCHANGED <<clock, episode, rows, ledger, mem, outage, wake, idle>>
      /\ UNCHANGED <<skipRun, ran, forgotten, filed>>
  BY DEF Start, hubVars
<1>2. /\ g \in Gauges /\ cur'.gauge = g /\ cur'.at = clock
      /\ cur'.out = "none" /\ CurTyped'
      /\ cur'.events = CandEvents(Done, g)
      /\ cur'.floods = UNION {StandsFor(e) : e \in CandEvents(Done, g)}
      /\ cur'.known = {RowKey(r) : r \in Ran(Done)}
      /\ cur'.events # {} /\ cur'.events \subseteq Episodes
  BY Starts
<1> HIDE DEF g
<1>3. PICK e \in CandEvents(Done, g) : TRUE
  BY <1>2
<1>4. AutocalTypeOK'
  BY <1>1, <1>2 DEF AutocalInv, AutocalTypeOK
<1>5. RowsRan' = RowsRan /\ clock \in Nat /\ clock <= clock
  BY <1>1, AutocalLimits DEF RowsRan, AutocalInv, AutocalTypeOK
<1>6. RanSound' /\ MemSound(mem)' /\ MemSound(file)' /\ HubSound'
  BY <1>1, <1>5
     DEF AutocalInv, RanSound, MemSound, SoundRow, HubSound, FiledOnce
<1>7. LoopSound'
  <2>1. CurKey' \notin filed \cup Kept(mem)
    <3>1. /\ CurKey'[1] = g /\ CurKey'[3] = "ran" /\ CurKey'[4] = clock
      BY <1>2 DEF CurKey
    <3>2. CurKey' \in filed \cup Kept(mem) => clock < clock
      BY <1>2, <1>3, <3>1, RanBefore
    <3>3. QED
      BY <1>5, <3>2
  <2>2. skipRun' < MaxSkipRun
    BY <1>1 DEF AutocalInv, LoopSound
  <2>3. QED
    BY <1>1, <1>2, <1>5, <2>1, <2>2 DEF LoopSound, Busy, Kept
<1>8. Remembered'
  BY <1>1 DEF AutocalInv, Remembered, Kept
<1>9. Cooling'
  <2> SUFFICES ASSUME forgotten = {}, NEW r \in RowsRan, r.gauge = g
               PROVE  clock - r.at >= Cooldown
    BY <1>1, <1>2, <1>5 DEF Cooling, AutocalInv, CooldownHeld
  <2>1. RowKey(r) \in filed \cup Kept(mem)
    BY <1>1 DEF RowsRan, AutocalInv, Remembered
  <2>2. r.kind = "ran"
    BY DEF AutocalInv, RanSound, SoundRow, RowsRan
  <2>3. RowKey(r)[1] = g /\ RowKey(r)[3] = "ran" /\ RowKey(r)[4] = r.at
    BY <2>2, RowKeys
  <2>4. QED
    BY <1>2, <1>3, <2>1, <2>3, RanBefore
<1>10. FloodsNew'
  <2>1. NewFloods(g, cur'.floods, cur'.known)
    <3> SUFFICES ASSUME NEW r \in Ran(Done), RowKey(r)[1] = g
                 PROVE  RowKey(r)[2] \cap cur'.floods = {}
      BY <1>2 DEF NewFloods
    <3>1. RowKey(r)[2] = r.events /\ r.gauge = g
      BY RowKeys
    <3>2. r.events \subseteq Handled(Done, g)
      BY <3>1 DEF Handled
    <3>3. \A c \in CandEvents(Done, g) : StandsFor(c) \cap r.events = {}
      BY <1>2, <3>2, Fresh
    <3>4. QED
      BY <1>2, <3>1, <3>3
  <2>2. QED
    BY <1>1, <1>2, <2>1 DEF AutocalInv, FloodsNew, NewFloods
<1>11. EpisodesTrue'
  BY <1>1 DEF AutocalInv, EpisodesTrue
<1>12. QED
  BY <1>2, <1>4, <1>6, <1>7, <1>8, <1>9, <1>10, <1>11 DEF AutocalInv

-----------------------------------------------------------------------------
(* Restarts, and the invariant.                                            *)

LEMMA EmptyMem ==
    ASSUME AutocalInv
    PROVE  MemSound(NoMem)
<1>1. NoMem.pending = {} /\ NoMem.unpushed = {} /\ NoMem \in Mem
  BY AutocalLimits DEF NoMem, Mem
<1>2. QED
  BY <1>1, FS_EmptySet DEF MemSound

LEMMA RestartStep ==
    ASSUME AutocalInv, NEW m, MemSound(m), RestartWith(m)
    PROVE  AutocalInv'
<1>1. /\ mem' = m /\ file' = m /\ pc' = "top" /\ wake' = clock + 1
      /\ outage' = [g \in Gauges |-> [n |-> 0, at |-> 0]]
      /\ idle' = Never /\ skipRun' = 0 /\ cur' = NoCand
      /\ forgotten' = forgotten \cup
            {r \in ran : RowKey(r.row) \notin filed \cup Kept(m)}
      /\ UNCHANGED <<clock, episode, rows, ledger, ran, filed>>
  BY DEF RestartWith, Sleep, hubVars
<1>2. m \in Mem /\ clock \in Times
  BY DEF MemSound, AutocalInv, AutocalTypeOK
<1>3. CurTyped' /\ wake' \in 0..(MaxTime + IdleFor + 1)
  <2>1. 0 \in Times /\ 0 \in Nat /\ clock \in Nat /\ clock <= MaxTime
    BY <1>2, AutocalLimits DEF Times
  <2>2. wake' \in 0..(MaxTime + IdleFor + 1) /\ wake' <= clock + 1
    BY <1>1, <2>1, AutocalLimits
  <2>3. outage' \in [Gauges -> [n : Nat, at : Times]]
    BY <1>1, <2>1
  <2>4. QED
    BY <1>1, <2>1, <2>2, <2>3 DEF CurTyped, NoCand
<1>4. AutocalTypeOK'
  <2>1. 0 \in Times /\ 0 \in 0..(Strikes - 1) /\ 0 \in 0..MaxSkipRun
    BY AutocalLimits DEF Times
  <2>2. outage' \in [Gauges -> [n : 0..(Strikes - 1), at : Times]]
    BY <1>1, <2>1
  <2>3. cur'.gauge \in Gauges \cup {None} /\ cur'.events \subseteq Episodes
    BY <1>3 DEF CurTyped
  <2>4. QED
    BY <1>1, <1>2, <1>3, <2>1, <2>2, <2>3 DEF AutocalInv, AutocalTypeOK
<1>5. RowsRan' = RowsRan
  BY <1>1 DEF RowsRan
<1>6. RanSound' /\ HubSound'
  BY <1>1, <1>5 DEF AutocalInv, RanSound, SoundRow, HubSound, FiledOnce
<1>7. MemSound(mem)' /\ MemSound(file)'
  BY <1>1, SameMem DEF MemSound
<1>8. LoopSound'
  BY <1>1, AutocalLimits DEF LoopSound, Busy
<1>9. Remembered'
  BY <1>1 DEF Remembered
<1>10. Cooling' /\ FloodsNew'
  <2>1. forgotten' = {} => forgotten = {}
    BY <1>1
  <2>2. QED
    BY <1>1, <1>5, <2>1
       DEF AutocalInv, Cooling, CooldownHeld, FloodsNew, NewFloods, Busy
<1>11. EpisodesTrue'
  BY <1>1 DEF AutocalInv, EpisodesTrue
<1>12. QED
  BY <1>3, <1>4, <1>6, <1>7, <1>8, <1>9, <1>10, <1>11 DEF AutocalInv

LEMMA AutocalInvInit == AutocalInit => AutocalInv
<1> SUFFICES ASSUME AutocalInit PROVE AutocalInv
  OBVIOUS
<1>1. /\ clock = 0 /\ wake = 0
      /\ episode = [e \in Episodes |-> Absent]
      /\ rows = <<>>
      /\ ledger = [g \in Gauges |-> [last |-> Never, fin |-> Never]]
      /\ mem = NoMem /\ file = NoMem
      /\ outage = [g \in Gauges |-> [n |-> 0, at |-> 0]]
      /\ pc = "top" /\ idle = Never /\ skipRun = 0 /\ cur = NoCand
      /\ ran = {} /\ forgotten = {} /\ filed = {}
  BY DEF AutocalInit
<1>2. /\ 0 \in Times /\ 0 \in 0..(Strikes - 1) /\ 0 \in 0..MaxSkipRun
      /\ 0 \in 0..(MaxTime + IdleFor + 1) /\ 0 <= clock + 1 /\ 0 \in Nat
      /\ 0 < MaxSkipRun /\ 0 <= Keep
  BY <1>1, AutocalLimits DEF Times
<1>3. NoMem.pending = {} /\ NoMem.unpushed = {} /\ NoMem \in Mem
  BY AutocalLimits DEF NoMem, Mem
<1>4. CurTyped
  BY <1>1, <1>2 DEF CurTyped, NoCand
<1>5. episode \in [Episodes -> [on : BOOLEAN, gen : Times,
                    t0 : Times, merged : Times \cup {Never},
                    into : Episodes \cup {None}]]
  BY <1>1, <1>2 DEF Absent
<1>6. rows \in Seq(Row) /\ Len(rows) = 0 /\ ToSet(rows) = {}
      /\ DOMAIN rows = {}
  BY <1>1 DEF ToSet
<1>7. AutocalTypeOK
  <2>1. cur.gauge \in Gauges \cup {None} /\ cur.events \subseteq Episodes
    BY <1>4 DEF CurTyped
  <2>2. ledger \in [Gauges -> [last : Times \cup {Never},
                               fin : Times \cup {Never}]]
    BY <1>1
  <2>3. outage \in [Gauges -> [n : 0..(Strikes - 1), at : Times]]
    BY <1>1, <1>2
  <2>4. QED
    BY <1>1, <1>2, <1>3, <1>5, <1>6, <2>1, <2>2, <2>3 DEF AutocalTypeOK
<1>8. RowsRan = {}
  BY <1>1 DEF RowsRan
<1>9. RanSound /\ HubSound
  BY <1>1, <1>6, <1>8 DEF RanSound, HubSound, FiledOnce, Keys
<1>10. MemSound(mem) /\ MemSound(file)
  BY <1>1, <1>3, FS_EmptySet DEF MemSound
<1>11. LoopSound
  BY <1>1, <1>2 DEF LoopSound, Busy
<1>12. Remembered /\ Cooling /\ FloodsNew
  BY <1>1, <1>8 DEF Remembered, Cooling, CooldownHeld, FloodsNew, Busy
<1>13. EpisodesTrue
  <2>1. \A e \in Episodes : episode[e] = Absent
    BY <1>1
  <2>2. QED
    BY <1>1, <1>2, <2>1 DEF EpisodesTrue, Absent
<1>14. QED
  BY <1>4, <1>7, <1>9, <1>10, <1>11, <1>12, <1>13 DEF AutocalInv

LEMMA AutocalInvNext == AutocalInv /\ [AutocalNext]_acVars => AutocalInv'
<1> SUFFICES ASSUME AutocalInv, [AutocalNext]_acVars PROVE AutocalInv'
  OBVIOUS
<1>1. CASE UNCHANGED acVars
  <2>1. /\ UNCHANGED <<clock, episode, hubVars, loopVars, historyVars>>
        /\ UNCHANGED <<rows, ledger, mem, file, outage, pc, wake, idle>>
        /\ UNCHANGED <<skipRun, cur, ran, forgotten, filed>>
    BY <1>1 DEF acVars, hubVars, loopVars, historyVars
  <2>2. clock \in Times /\ clock <= clock
    BY AutocalLimits DEF AutocalInv, AutocalTypeOK
  <2>3. EpisodesTrue' /\ episode' = episode
    BY <2>1 DEF AutocalInv, EpisodesTrue
  <2>4. QED
    BY <2>1, <2>2, <2>3, WorldMoves DEF AutocalInv, AutocalTypeOK
<1>2. CASE \/ Tick \/ \E e \in Episodes : Publish(e)
           \/ \E d, e \in Episodes : Merge(d, e)
  BY <1>2, WorldStep
<1>3. CASE Push
  BY <1>3, PushStep
<1>4. CASE Yield \/ HistoryUnreadable \/ Preempt
  BY <1>4, YieldStep
<1>5. CASE Read
  BY <1>5, ReadStep
<1>6. CASE FlushOne \/ FlushEnds
  BY <1>6, FlushStep
<1>7. CASE NothingToDo
  BY <1>7, NothingStep
<1>8. CASE Start
  BY <1>8, StartStep
<1>9. CASE OutageHit
  BY <1>9, OutageStep
<1>10. CASE \E why \in {"error", "obs"} : DidNotRun(why)
  BY <1>10, DidNotRunStep
<1>11. CASE \E out \in {"finished", "unpushed"} : SearchEnds(out)
  BY <1>11, SearchStep
<1>12. CASE FileRecord
  BY <1>12, FiledStep
<1>13. CASE KeepUnpushed
  BY <1>13, KeepStep
<1>14. CASE NoteSkip
  BY <1>14, NoteSkipStep
<1>15. CASE Dump
  BY <1>15, DumpStep
<1>16. CASE LoopRestarts \/ SpaceRestarts
  <2>1. MemSound(file) /\ MemSound(NoMem)
    BY EmptyMem DEF AutocalInv
  <2>2. QED
    BY <1>16, <2>1, RestartStep DEF LoopRestarts, SpaceRestarts
<1>17. QED
  BY <1>1, <1>2, <1>3, <1>4, <1>5, <1>6, <1>7, <1>8, <1>9, <1>10, <1>11,
     <1>12, <1>13, <1>14, <1>15, <1>16 DEF AutocalNext

LEMMA AutocalAlways == AutocalSpec => []AutocalInv
<1>1. AutocalInit => AutocalInv
  BY AutocalInvInit
<1>2. AutocalInv /\ [AutocalNext]_acVars => AutocalInv'
  BY AutocalInvNext
<1>3. QED
  BY <1>1, <1>2, PTL DEF AutocalSpec

\* Every state is of its type, no calibration is lost from what the cap is
\* counted by but by a restart, and no gauge is calibrated within its cooldown.
THEOREM NothingForgotten ==
    AutocalSpec => [](AutocalTypeOK /\ NoneForgotten /\ CooldownHeld)
<1>1. AutocalInv => AutocalTypeOK /\ NoneForgotten /\ CooldownHeld
  BY AutocalInvImplies
<1>2. QED
  BY <1>1, AutocalAlways, PTL

\* A flood is calibrated for once and its record is filed once, whatever
\* requests fail and however often the loop and the Space start again.
THEOREM FloodsOnce == AutocalSpec => []OnceEach
<1>1. AutocalInv => OnceEach
  BY AutocalInvImplies
<1>2. QED
  BY <1>1, AutocalAlways, PTL

LEMMA FreshStep ==
    ASSUME AutocalInv, Start, forgotten = {}, NEW e \in cur'.events
    PROVE  \E d \in StandsFor(e) : \A r \in RowsRan :
              r.gauge = cur'.gauge /\ RowKey(r) \notin Keys(mem.unpushed) =>
                  episode[d].t0 > r.fin
<1> DEFINE g == FirstOf(Live(Done))
<1>1. g \in Gauges /\ cur'.gauge = g /\ e \in CandEvents(Done, g)
  BY Starts
<1> HIDE DEF g
<1>2. PICK d \in StandsFor(e) :
         /\ PublishedAt(e) = episode[d].t0
         /\ episode[d].t0 \in Times /\ episode[d].t0 <= clock
  BY <1>1, Fresh
<1>3. ASSUME NEW r \in RowsRan, r.gauge = g, RowKey(r) \notin Keys(mem.unpushed)
      PROVE  episode[d].t0 > r.fin
  <2>1. r.fin \in Nat /\ episode[d].t0 \in Nat /\ r.kind = "ran"
    BY <1>2, AutocalLimits DEF AutocalInv, RanSound, SoundRow, RowsRan, Row
  <2>2. RowKey(r) \in filed \cup Kept(mem)
    BY DEF RowsRan, AutocalInv, Remembered, Start
  <2>3. CASE RowKey(r) \in filed
    <3>1. /\ r.fin <= ledger[g].fin /\ ledger[g].fin # Never
          /\ ledger[g].fin \in Times
      <4>1. RowKey(r)[1] = g /\ RowKey(r)[3] = "ran"
        BY <1>3, <2>1, RowKeys
      <4>2. r.fin <= ledger[g].fin /\ ledger[g].fin # Never
        BY <1>3, <2>3, <4>1 DEF AutocalInv, HubSound
      <4>3. ledger[g].fin \in Times \cup {Never}
        BY <1>1 DEF AutocalInv, AutocalTypeOK
      <4>4. QED
        BY <4>2, <4>3
    <3>2. episode[d].t0 > ledger[g].fin /\ ledger[g].fin \in Nat
      BY <1>1, <1>2, <3>1, Counted, Fresh, AutocalLimits
    <3>3. QED
      BY <2>1, <3>1, <3>2
  <2>4. CASE RowKey(r) \in Kept(mem) \ filed
    <3>1. PICK y \in mem.pending \cup mem.unpushed :
             RowKey(y) = RowKey(r) /\ y \in Ran(Done) /\ SoundRow(y)
      BY <2>4, KnownHere
    <3>2. y \in mem.pending
      BY <1>3, <3>1 DEF Keys
    <3>3. r.fin <= y.fin
      BY <3>1, <3>2 DEF AutocalInv, MemSound
    <3>4. y.gauge = g /\ y.fin \in Times
      BY <1>3, <3>1, RowKeys DEF SoundRow, Row
    <3>5. episode[d].t0 > y.fin /\ y.fin \in Nat
      BY <1>1, <1>2, <3>1, <3>4, Counted, Fresh, AutocalLimits
    <3>6. QED
      BY <2>1, <3>3, <3>5
  <2>5. QED
    BY <2>2, <2>3, <2>4
<1>4. QED
  BY <1>1, <1>2, <1>3

LEMMA OnlyStart ==
    ASSUME [AutocalNext]_acVars, pc = "pick", pc' = "running"
    PROVE  Start
BY DEF AutocalNext, acVars, Tick, Publish, Merge, Push, Yield,
       HistoryUnreadable, Read, FlushOne, FlushEnds, NothingToDo, Preempt,
       Dropped, DumpAnd, OutageHit, DidNotRun, SearchEnds, FileRecord,
       KeepUnpushed, NoteSkip, Ended, Dump, LoopRestarts, SpaceRestarts,
       RestartWith, loopVars

\* A calibration is started only for floods that were simulated after the
\* last one of the gauge had ended.
THEOREM OnlyFreshFloods == AutocalSpec => FreshFloods
<1> DEFINE A == pc = "pick" /\ pc' = "running" /\ forgotten = {} =>
                  \A e \in cur'.events : \E d \in StandsFor(e) :
                      \A r \in RowsRan :
                          r.gauge = cur'.gauge /\
                          RowKey(r) \notin Keys(mem.unpushed) =>
                              episode[d].t0 > r.fin
<1>1. AutocalInv /\ [AutocalNext]_acVars => A
  BY OnlyStart, FreshStep
<1>2. AutocalInv /\ [AutocalNext]_acVars => [A]_acVars
  BY <1>1
<1> HIDE DEF A
<1>3. AutocalSpec => [][A]_acVars
  BY <1>2, AutocalAlways, PTL DEF AutocalSpec
<1>4. QED
  BY <1>3 DEF FreshFloods, A

-----------------------------------------------------------------------------
(* The cap.  Calibrations are counted by their records, and the log keeps  *)
(* the last Keep of them: the cap holds as long as no record rolls off the *)
(* log before it is a day old.                                             *)

KeepsYoung ==
    \A r \in Ran(ToSet(rows)) :
        r.at + Day > clock => RowKey(r) \in Keys(ToSet(rows'))

YoungAt(t) == {x \in RowsRan : x.at + Day > t}

CapInv ==
    /\ CapHeld /\ IsFiniteSet(ran)
    /\ forgotten = {} => \A r, x \in RowsRan : RowKey(r) = RowKey(x) => r = x
    /\ \A k \in filed : k[3] = "ran" /\ k[4] + Day > clock =>
          k \in Keys(ToSet(rows))
    /\ pc = "running" /\ forgotten = {} =>
          Cardinality(YoungAt(cur.at)) < MaxPerDay

LEMMA RowsRanFinite ==
    ASSUME IsFiniteSet(ran)
    PROVE  IsFiniteSet(RowsRan)
<1> DEFINE f == [x \in ran |-> x.row]
<1>1. f \in Surjection(ran, RowsRan)
  BY DEF Surjection, RowsRan
<1>2. QED
  BY <1>1, FS_Surjection

LEMMA DoneFinite ==
    ASSUME AutocalInv
    PROVE  IsFiniteSet(Done)
<1>1. rows \in Seq(Row) /\ IsFiniteSet(mem.pending) /\ IsFiniteSet(mem.unpushed)
  BY DEF AutocalInv, AutocalTypeOK, MemSound
<1>2. IsFiniteSet(ToSet(rows))
  <2>1. rows \in Surjection(1..Len(rows), ToSet(rows)) /\ Len(rows) \in Nat
    BY <1>1 DEF Surjection, ToSet
  <2>2. IsFiniteSet(1..Len(rows))
    BY <2>1, FS_Interval
  <2>3. QED
    BY <2>1, <2>2, FS_Surjection
<1>3. IsFiniteSet(mem.pending \cup mem.unpushed)
  BY <1>1, FS_Union
<1>4. IsFiniteSet(ToSet(rows) \cup (mem.pending \cup mem.unpushed))
  BY <1>2, <1>3, FS_Union
<1>5. Done \subseteq ToSet(rows) \cup (mem.pending \cup mem.unpushed)
  BY DEF Done
<1>6. QED
  BY <1>4, <1>5, FS_Subset

\* The calibrations of the last day that ran are all counted.
LEMMA CountedToday ==
    ASSUME AutocalInv, CapInv, pc = "pick", forgotten = {}
    PROVE  Cardinality(YoungAt(clock)) <= Today(Done)
<1> DEFINE S == YoungAt(clock)
           T == {r \in Ran(Done) : r.at + Day > clock}
<1>1. IsFiniteSet(T)
  <2>1. T \subseteq Done
    BY DEF Ran
  <2>2. QED
    BY <2>1, DoneFinite, FS_Subset
<1>2. ASSUME NEW x \in S
      PROVE  \E y \in T : RowKey(y) = RowKey(x)
  <2>1. x \in RowsRan /\ x.at + Day > clock /\ x.kind = "ran"
    BY DEF YoungAt, AutocalInv, RanSound, SoundRow, RowsRan
  <2>2. RowKey(x) \in filed \cup Kept(mem)
    BY <2>1 DEF RowsRan, AutocalInv, Remembered
  <2>3. RowKey(x)[3] = "ran" /\ RowKey(x)[4] = x.at
    BY <2>1, RowKeys
  <2>4. CASE RowKey(x) \in filed
    <3>1. PICK y \in ToSet(rows) : RowKey(y) = RowKey(x)
      BY <2>1, <2>3, <2>4 DEF CapInv, Keys
    <3>2. y.kind = "ran" /\ y.at = x.at
      BY <2>1, <3>1, RowKeys
    <3>3. y \in Ran(Done)
      BY <3>2 DEF Ran, Done
    <3>4. QED
      BY <2>1, <3>1, <3>2, <3>3
  <2>5. CASE RowKey(x) \in Kept(mem) \ filed
    <3>1. PICK y \in mem.pending \cup mem.unpushed :
             RowKey(y) = RowKey(x) /\ y \in Ran(Done)
      BY <2>5, KnownHere
    <3>2. y.at = x.at
      BY <3>1, RowKeys
    <3>3. QED
      BY <2>1, <3>1, <3>2
  <2>6. QED
    BY <2>2, <2>4, <2>5
<1> DEFINE f == [x \in S |-> CHOOSE y \in T : RowKey(y) = RowKey(x)]
<1>3. \A x \in S : f[x] \in T /\ RowKey(f[x]) = RowKey(x)
  BY <1>2
<1>4. \A x, z \in S : RowKey(x) = RowKey(z) => x = z
  BY DEF CapInv, YoungAt
<1>5. f \in [S -> T]
  BY <1>2
<1> HIDE DEF f, S, T
<1>6. f \in Injection(S, T)
  BY <1>3, <1>4, <1>5 DEF Injection, IsInjective
<1>7. Cardinality(S) <= Cardinality(T)
  BY <1>1, <1>6, FS_Injection
<1>8. QED
  BY <1>7 DEF S, T, Today

LEMMA NotedLast ==
    ASSUME rows \in Seq(Row), NEW r, Noted(r)
    PROVE  RowKey(r) \in Keys(ToSet(rows')) /\ filed' = filed \cup {RowKey(r)}
<1> DEFINE R == Row \cup {r}
           s == Append(rows, r)
           n == Len(rows)
<1>1. s \in Seq(R) /\ Len(s) = n + 1 /\ s[n + 1] = r /\ n \in Nat
  OBVIOUS
<1>2. PICK k \in {1, 2} : rows' = SubSeq(s, k, n + 1) /\ k <= n + 1
  BY <1>1, AutocalLimits DEF Noted
<1> HIDE DEF s
<1>3. /\ rows' \in Seq(R) /\ Len(rows') = n + 2 - k
      /\ rows'[n + 2 - k] = s[n + 1]
  BY <1>1, <1>2
<1>4. r \in ToSet(rows')
  <2>1. n + 2 - k \in DOMAIN rows' /\ rows'[n + 2 - k] = r
    BY <1>1, <1>2, <1>3
  <2>2. QED
    BY <2>1 DEF ToSet
<1>5. QED
  BY <1>4 DEF Keys, Noted

\* How a step moves what the cap is about.
LEMMA StepShape ==
    ASSUME AutocalInv, [AutocalNext]_acVars
    PROVE  /\ clock' \in {clock, clock + 1}
           /\ UNCHANGED <<rows, filed>> \/ \E r : Noted(r)
           /\ pc' = "running" => Start \/ (pc = "running" /\ cur' = cur)
           /\ \/ ran' = ran /\ forgotten \subseteq forgotten'
              \/ \E out \in {"finished", "unpushed"} : SearchEnds(out)
<1>1. clock' \in {clock, clock + 1}
  BY DEF AutocalNext, acVars, Tick, Publish, Merge, Push, Yield,
         HistoryUnreadable, Read, FlushOne, FlushEnds, NothingToDo, Start,
         Preempt, Dropped, OutageHit, DidNotRun, SearchEnds, FileRecord,
         KeepUnpushed, NoteSkip, Ended, Dump, LoopRestarts, SpaceRestarts,
         RestartWith
<1>2. UNCHANGED <<rows, filed>> \/ \E r : Noted(r)
  BY DEF AutocalNext, acVars, Tick, Publish, Merge, Push, Yield,
         HistoryUnreadable, Read, FlushOne, FlushEnds, NothingToDo, Start,
         Preempt, Dropped, OutageHit, DidNotRun, SearchEnds, FileRecord,
         KeepUnpushed, NoteSkip, Ended, Dump, LoopRestarts, SpaceRestarts,
         RestartWith, Accepted, Failed, Summarize, hubVars, historyVars
<1>3. pc' = "running" => Start \/ (pc = "running" /\ cur' = cur)
  BY DEF AutocalNext, acVars, Tick, Publish, Merge, Push, Yield,
         HistoryUnreadable, Read, FlushOne, FlushEnds, NothingToDo,
         Preempt, Dropped, DumpAnd, OutageHit, DidNotRun, SearchEnds,
         FileRecord, KeepUnpushed, NoteSkip, Ended, Dump, LoopRestarts,
         SpaceRestarts, RestartWith, loopVars
<1>4. \/ ran' = ran /\ forgotten \subseteq forgotten'
      \/ \E out \in {"finished", "unpushed"} : SearchEnds(out)
  BY DEF AutocalNext, acVars, Tick, Publish, Merge, Push, Yield,
         HistoryUnreadable, Read, FlushOne, FlushEnds, NothingToDo, Start,
         Preempt, Dropped, OutageHit, DidNotRun, FileRecord,
         KeepUnpushed, NoteSkip, Ended, Dump, LoopRestarts, SpaceRestarts,
         RestartWith, historyVars
<1>5. QED
  BY <1>1, <1>2, <1>3, <1>4

\* A window of a day holds the calibration that ends only with less than a
\* full day's others.
LEMMA CapSearch ==
    ASSUME AutocalInv, CapInv, NEW out \in {"finished", "unpushed"},
           SearchEnds(out)
    PROVE  CapHeld'
<1> DEFINE r == CurRow(clock)
           new == [row |-> r, floods |-> cur.floods, known |-> cur.known]
<1>1. /\ ran' = ran \cup {new}
      /\ pc = "running" /\ forgotten' = forgotten
  BY DEF SearchEnds
<1>2. r.at = cur.at /\ cur.at \in Nat
  BY AutocalLimits DEF CurRow, NoRow, AutocalInv, CurTyped
<1>3. RowsRan' = RowsRan \cup {r}
  <2>1. new.row = r
    OBVIOUS
  <2> HIDE DEF new
  <2>2. QED
    BY <1>1, <2>1 DEF RowsRan
<1> HIDE DEF r
<1>4. \A x \in RowsRan : x.at \in Nat
  BY AutocalLimits DEF AutocalInv, RanSound, SoundRow, Row, RowsRan
<1>5. IsFiniteSet(RowsRan) /\ Day \in Nat /\ MaxPerDay \in Nat /\ MaxPerDay > 0
  BY RowsRanFinite, AutocalLimits DEF CapInv
<1> SUFFICES ASSUME forgotten = {}, NEW q \in RowsRan'
             PROVE  Cardinality({x \in RowsRan' :
                        q.at <= x.at /\ x.at < q.at + Day}) <= MaxPerDay
  BY <1>1 DEF CapHeld
<1> DEFINE W == {x \in RowsRan : q.at <= x.at /\ x.at < q.at + Day}
           V == {x \in RowsRan' : q.at <= x.at /\ x.at < q.at + Day}
<1>6. q.at \in Nat
  BY <1>2, <1>3, <1>4
<1>7. IsFiniteSet(W) /\ Cardinality(W) \in Nat
  <2>1. W \subseteq RowsRan
    OBVIOUS
  <2>2. IsFiniteSet(W)
    BY <1>5, <2>1, FS_Subset
  <2>3. QED
    BY <2>2, FS_CardinalityType
<1>8. CASE q.at <= r.at /\ r.at < q.at + Day
  <2>1. V = W \cup {r}
    BY <1>3, <1>8
  <2>2. W \subseteq YoungAt(cur.at)
    BY <1>2, <1>4, <1>5, <1>6, <1>8 DEF YoungAt
  <2>3. IsFiniteSet(YoungAt(cur.at))
    <3>1. YoungAt(cur.at) \subseteq RowsRan
      BY DEF YoungAt
    <3>2. QED
      BY <1>5, <3>1, FS_Subset
  <2>4. Cardinality(W) <= Cardinality(YoungAt(cur.at))
    BY <2>2, <2>3, FS_Subset
  <2>5. /\ Cardinality(YoungAt(cur.at)) < MaxPerDay
        /\ Cardinality(YoungAt(cur.at)) \in Nat
    BY <1>1, <2>3, FS_CardinalityType DEF CapInv
  <2> HIDE DEF W, V
  <2>6. Cardinality(V) <= Cardinality(W) + 1
    <3>1. Cardinality(W \cup {r}) =
            IF r \in W THEN Cardinality(W) ELSE Cardinality(W) + 1
      BY <1>7, FS_AddElement
    <3>2. QED
      BY <1>7, <2>1, <3>1
  <2>7. Cardinality(V) \in Nat
    <3>1. IsFiniteSet(W \cup {r})
      BY <1>7, FS_AddElement
    <3>2. QED
      BY <2>1, <3>1, FS_CardinalityType
  <2>8. QED
    BY <1>5, <1>7, <2>4, <2>5, <2>6, <2>7 DEF V
<1>9. CASE ~(q.at <= r.at /\ r.at < q.at + Day)
  <2>1. V = W
    BY <1>3, <1>9
  <2>2. CASE q \in RowsRan
    BY <2>1, <2>2 DEF CapInv, CapHeld
  <2>3. CASE q = r
    <3>1. W = {}
      BY <1>2, <1>4, <1>5, <1>9, <2>3
    <3>2. QED
      BY <1>5, <2>1, <3>1, FS_EmptySet
  <2>4. QED
    BY <1>3, <2>2, <2>3
<1>10. QED
  BY <1>8, <1>9

LEMMA CapInvInit == AutocalInit => CapInv
<1> SUFFICES ASSUME AutocalInit PROVE CapInv
  OBVIOUS
<1>1. ran = {} /\ filed = {} /\ pc = "top" /\ RowsRan = {}
  BY DEF AutocalInit, RowsRan
<1>2. QED
  BY <1>1, FS_EmptySet DEF CapInv, CapHeld

LEMMA CapInvNext ==
    ASSUME AutocalInv, AutocalInv', CapInv, [AutocalNext]_acVars,
           KeepsYoung \/ UNCHANGED acVars
    PROVE  CapInv'
<1>1. /\ clock' \in {clock, clock + 1}
      /\ UNCHANGED <<rows, filed>> \/ \E r : Noted(r)
      /\ pc' = "running" => Start \/ (pc = "running" /\ cur' = cur)
      /\ \/ ran' = ran /\ forgotten \subseteq forgotten'
         \/ \E out \in {"finished", "unpushed"} : SearchEnds(out)
  BY StepShape
<1>2. clock \in Nat /\ Day \in Nat /\ rows \in Seq(Row)
  BY AutocalLimits DEF AutocalInv, AutocalTypeOK
<1>3. \A k \in filed' : k[3] = "ran" /\ k[4] + Day > clock' =>
          k \in Keys(ToSet(rows'))
  <2> SUFFICES ASSUME NEW k \in filed', k[3] = "ran", k[4] + Day > clock'
               PROVE  k \in Keys(ToSet(rows'))
    OBVIOUS
  <2>1. k[4] \in Nat
    BY AutocalLimits DEF AutocalInv, HubSound
  <2>2. k[4] + Day > clock
    BY <1>1, <1>2, <2>1
  <2>3. CASE k \in filed
    <3>1. k \in Keys(ToSet(rows))
      BY <2>2, <2>3 DEF CapInv
    <3>2. PICK r \in ToSet(rows) : RowKey(r) = k
      BY <3>1 DEF Keys
    <3>3. r.kind = "ran" /\ r.at = k[4]
      BY <3>2, RowKeys
    <3>4. CASE KeepsYoung
      BY <2>2, <3>2, <3>3, <3>4 DEF KeepsYoung, Ran
    <3>5. CASE UNCHANGED acVars
      BY <3>1, <3>5 DEF acVars, hubVars
    <3>6. QED
      BY <3>4, <3>5
  <2>4. CASE k \notin filed
    <3>1. PICK r : Noted(r)
      BY <1>1, <2>4
    <3>2. QED
      BY <1>2, <2>4, <3>1, NotedLast
  <2>5. QED
    BY <2>3, <2>4
<1>4. CASE ran' = ran /\ forgotten \subseteq forgotten'
  <2>1. RowsRan' = RowsRan /\ (forgotten' = {} => forgotten = {})
    BY <1>4 DEF RowsRan
  <2>2. CapHeld' /\ IsFiniteSet(ran)'
    BY <1>4, <2>1 DEF CapInv, CapHeld
  <2>3. forgotten' = {} =>
          \A r, x \in RowsRan' : RowKey(r) = RowKey(x) => r = x
    BY <2>1 DEF CapInv
  <2>4. ASSUME pc' = "running", forgotten' = {}
        PROVE  Cardinality(YoungAt(cur.at))' < MaxPerDay
    <3>1. YoungAt(cur.at)' = YoungAt(cur'.at)
      BY <2>1 DEF YoungAt
    <3>2. CASE Start
      <4>1. cur'.at = clock
        BY <3>2, Starts
      <4>2. /\ Cardinality(YoungAt(clock)) <= Today(Done)
            /\ Today(Done) < MaxPerDay
        BY <2>1, <2>4, <3>2, CountedToday DEF Start
      <4>3. Cardinality(YoungAt(clock)) \in Nat /\ Today(Done) \in Nat
        <5>1. IsFiniteSet(YoungAt(clock))
          <6>1. YoungAt(clock) \subseteq RowsRan
            BY DEF YoungAt
          <6>2. QED
            BY <6>1, RowsRanFinite, FS_Subset DEF CapInv
        <5> DEFINE T == {r \in Ran(Done) : r.at + Day > clock}
        <5>2. T \subseteq Done
          BY DEF Ran
        <5>3. IsFiniteSet(T)
          BY <5>2, DoneFinite, FS_Subset
        <5>4. Today(Done) = Cardinality(T)
          BY DEF Today
        <5> HIDE DEF T
        <5>5. QED
          BY <5>1, <5>3, <5>4, FS_CardinalityType
      <4>4. Cardinality(YoungAt(clock)) < MaxPerDay
        BY <4>2, <4>3, AutocalLimits
      <4>5. QED
        BY <3>1, <4>1, <4>4
    <3>3. CASE pc = "running" /\ cur' = cur
      BY <2>1, <2>4, <3>1, <3>3 DEF CapInv
    <3>4. QED
      BY <1>1, <2>4, <3>2, <3>3
  <2>5. QED
    BY <1>3, <2>2, <2>3, <2>4 DEF CapInv
<1>5. ASSUME NEW out \in {"finished", "unpushed"}, SearchEnds(out)
      PROVE  CapInv'
  <2> DEFINE new == [row |-> CurRow(clock), floods |-> cur.floods,
                     known |-> cur.known]
             r == CurRow(clock)
  <2>1. CapHeld'
    BY <1>5, CapSearch
  <2>2. /\ ran' = ran \cup {new} /\ pc = "running" /\ pc' = "ended"
        /\ forgotten' = forgotten
    BY <1>5 DEF SearchEnds
  <2>3. RowsRan' = RowsRan \cup {r}
    <3>1. new.row = r
      OBVIOUS
    <3> HIDE DEF new
    <3>2. QED
      BY <2>2, <3>1 DEF RowsRan
  <2>4. RowKey(r) = CurKey
    BY DEF RowKey, CurRow, CurKey, NoRow
  <2> HIDE DEF new, r
  <2>5. IsFiniteSet(ran)'
    <3>1. IsFiniteSet(ran \cup {new})
      BY FS_AddElement DEF CapInv
    <3>2. QED
      BY <2>2, <3>1
  <2>6. forgotten = {} => \A x \in RowsRan : RowKey(x) # CurKey
    <3>1. CurKey \notin filed \cup Kept(mem)
      BY <2>2 DEF AutocalInv, LoopSound, Busy
    <3>2. QED
      BY <2>2, <3>1 DEF AutocalInv, Remembered, RowsRan
  <2>7. forgotten' = {} =>
          \A z, x \in RowsRan' : RowKey(z) = RowKey(x) => z = x
    BY <2>2, <2>3, <2>4, <2>6 DEF CapInv
  <2>8. QED
    BY <1>3, <2>1, <2>2, <2>5, <2>7 DEF CapInv
<1>6. QED
  BY <1>1, <1>4, <1>5

\* No more than MAX_PER_DAY calibrations start within a day, and what they
\* are counted by is not lost, when no record rolls off the log (it keeps
\* AUTOCAL_KEEP of them) before it is a day old.
THEOREM CalibrationsRationed ==
    AutocalSpec /\ [][KeepsYoung]_acVars => []Rationed
<1>1. AutocalInit => AutocalInv /\ CapInv
  BY AutocalInvInit, CapInvInit
<1>2. /\ AutocalInv /\ CapInv
      /\ [AutocalNext]_acVars /\ [KeepsYoung]_acVars
      => (AutocalInv /\ CapInv)'
  BY AutocalInvNext, CapInvNext
<1>3. AutocalInv /\ CapInv => Rationed
  BY AutocalInvImplies DEF CapInv, Rationed
<1>4. QED
  BY <1>1, <1>2, <1>3, PTL DEF AutocalSpec

-----------------------------------------------------------------------------
(* The observations of a gauge. *)

\* The copy a call works on: what it covers is true, the days it has yet to
\* ask were covered before or not at all, and it has all the store has.
CopySound(x) ==
    /\ x.held \subseteq x.cov /\ x.left \cap (x.cov \ x.held) = {}
    /\ \A d \in x.cov \ x.doubt : d \in Final /\ x.rows[d] = usgs[d]
    /\ \A d \in obs.cov \ obs.doubt :
          obs.rows[d] # NoFlow => d \in x.cov \ x.doubt

ObsInv ==
    /\ ObsTypeOK /\ StoreTrue
    /\ \A c \in Callers : call[c].open => CopySound(call[c])
    /\ \A c, o \in Callers : call[c].open /\ call[o].open => c = o

Copies == [open : BOOLEAN, left : SUBSET Days, rows : Series,
           cov : SUBSET Days, held : SUBSET Days, doubt : SUBSET Days]

\* A covered day with a row is trusted (_trusted).
LEMMA TrustsRows ==
    ASSUME NEW cov \in SUBSET Days, NEW series, NEW d \in cov,
           series[d] # NoFlow
    PROVE  d \in Trusted(cov, series)
  <1>1. d \in Window(cov, d)
    BY ObsAssumption DEF Window, Days
  <1>2. QED
    BY <1>1 DEF Trusted

\* What a call loads is sound.
LEMMA LoadedSound ==
    ASSUME ObsTypeOK, StoreTrue, NEW a \in Days, NEW b \in 1..(LastDay + 1),
           NEW refresh \in BOOLEAN
    PROVE  /\ Loaded(a, b, refresh) \in Copies
           /\ CopySound(Loaded(a, b, refresh))
  <1> DEFINE kept == Trusted(obs.cov, obs.rows)
  <1>1. kept \subseteq obs.cov
    BY DEF Trusted
  <1>2. \A d \in obs.cov : obs.rows[d] # NoFlow => d \in kept
    BY TrustsRows DEF ObsTypeOK
  <1> HIDE DEF kept
  <1>3. Loaded(a, b, refresh) =
           [open |-> TRUE,
            left |-> IF refresh THEN {d \in Days : a <= d /\ d < b}
                     ELSE {d \in Days : a <= d /\ d < b} \ kept,
            rows |-> obs.rows, cov |-> kept, held |-> kept,
            doubt |-> obs.doubt \cap kept]
    BY DEF Loaded, kept
  <1>4. Loaded(a, b, refresh) \in Copies
    BY <1>1, <1>3 DEF ObsTypeOK, Copies
  <1>5. CopySound(Loaded(a, b, refresh))
    BY <1>1, <1>2, <1>3 DEF CopySound, StoreTrue
  <1>6. QED
    BY <1>4, <1>5

\* An answer for a window of the days left, whole or empty, leaves the copy
\* sound.
LEMMA TakenSound ==
    ASSUME ObsTypeOK, NEW x \in Copies, x.open, CopySound(x),
           NEW a \in x.left, NEW b \in 1..(LastDay + 1), IsGap(x.left, a, b),
           NEW got \in Series, got = NoRows \/ got = Heard(a, b)
    PROVE  /\ Taken(x, a, b, got) \in Copies /\ Taken(x, a, b, got).open
           /\ CopySound(Taken(x, a, b, got))
  <1> DEFINE some == got # NoRows
             filled == [d \in Days |->
                          IF got[d] # NoFlow THEN got[d]
                          ELSE IF a <= d /\ d < b /\ (some \/ d \notin x.held)
                               THEN NoFlow ELSE x.rows[d]]
             until == IF b < today - Lag THEN b ELSE today - Lag
             covers == IF some
                  THEN Inside(filled, a, until) \/ Bracketed(filled, a, until)
                  ELSE Bracketed(filled, a, until) /\ ~Inside(filled, a, until)
             new == {d \in Final : covers /\ a <= d /\ d < b}
             y == Taken(x, a, b, got)
  <1>1. y = [x EXCEPT !.left = {d \in @ : d >= b},
                      !.rows = filled, !.cov = @ \cup new,
                      !.doubt = IF some THEN @ \ new ELSE @ \cup (new \ x.cov)]
    BY DEF Taken, Filled
  <1>2. new \subseteq Final /\ \A d \in new : a <= d /\ d < b
    OBVIOUS
  <1>3. Final \subseteq Days /\ a \in Days
    BY DEF Final, Copies
  <1>4. \A d \in Days : a <= d /\ d < b => d \in x.left
    BY DEF IsGap
  <1> HIDE DEF new, y
  <1>5. filled \in Series
    BY DEF Series, Copies
  <1>6. y \in Copies /\ y.open
    BY <1>1, <1>2, <1>3, <1>5 DEF Copies
  <1>7. /\ y.left = {d \in x.left : d >= b} /\ y.rows = filled
        /\ y.cov = x.cov \cup new /\ y.held = x.held
        /\ y.doubt = IF some THEN x.doubt \ new
                     ELSE x.doubt \cup (new \ x.cov)
    BY <1>1 DEF Copies
  <1>8. y.held \subseteq y.cov /\ y.left \cap (y.cov \ y.held) = {}
    <2>1. ASSUME NEW d \in y.left, d \in new
          PROVE  FALSE
      <3>1. d \in Days /\ d >= b /\ d < b
        BY <1>2, <1>7, <2>1 DEF Copies
      <3>2. QED
        BY <3>1 DEF Days
    <2>2. QED
      BY <1>7, <2>1 DEF CopySound
  <1>9. ASSUME NEW d \in y.cov \ y.doubt
        PROVE  d \in Final /\ filled[d] = usgs[d]
    <2>1. d \in Days
      BY <1>6 DEF Copies
    <2>2. CASE some
      <3>1. got[d] = IF a - 1 <= d /\ d <= b THEN usgs[d] ELSE NoFlow
        BY <2>1, <2>2 DEF Heard
      <3>2. d \in new \/ d \in x.cov \ x.doubt
        BY <1>7, <1>9, <2>2
      <3>3. CASE a <= d /\ d < b
        <4>1. a - 1 <= d /\ d <= b
          BY <1>3, <2>1, <3>3 DEF Days
        <4>2. filled[d] = usgs[d]
          BY <2>1, <2>2, <3>1, <3>3, <4>1
        <4>3. QED
          BY <1>2, <3>2, <4>2 DEF CopySound
      <3>4. CASE ~(a <= d /\ d < b)
        <4>1. d \in x.cov \ x.doubt
          BY <1>2, <3>2, <3>4
        <4>2. filled[d] = IF got[d] # NoFlow THEN got[d] ELSE x.rows[d]
          BY <2>1, <3>4
        <4>3. QED
          BY <3>1, <4>1, <4>2 DEF CopySound
      <3>5. QED
        BY <3>3, <3>4
    <2>3. CASE ~some
      <3>1. d \in x.cov \ x.doubt
        BY <1>7, <1>9, <2>3
      <3>2. got[d] = NoFlow
        BY <2>1, <2>3 DEF NoRows
      <3>3. a <= d /\ d < b => d \in x.held
        BY <1>4, <2>1, <3>1 DEF CopySound
      <3>4. filled[d] = x.rows[d]
        BY <2>1, <2>3, <3>2, <3>3
      <3>5. QED
        BY <3>1, <3>4 DEF CopySound
    <2>4. QED
      BY <2>2, <2>3
  <1>10. \A d \in obs.cov \ obs.doubt :
            obs.rows[d] # NoFlow => d \in y.cov \ y.doubt
    BY <1>7 DEF CopySound
  <1>11. CopySound(y)
    BY <1>7, <1>8, <1>9, <1>10 DEF CopySound
  <1>12. QED
    BY <1>6, <1>11 DEF y

LEMMA ObsInvInit == ObsInit => ObsInv
  <1> SUFFICES ASSUME ObsInit
               PROVE  ObsInv
    OBVIOUS
  <1>1. NoRows \in Series /\ Final \subseteq Days
    BY DEF NoRows, Series, Final
  <1>2. Closed \in Copies /\ ~Closed.open
    BY <1>1 DEF Closed, Copies
  <1>3. ObsTypeOK
    BY <1>1, <1>2, ObsAssumption DEF ObsInit, ObsTypeOK, Copies
  <1>4. StoreTrue
    BY DEF ObsInit, StoreTrue
  <1>5. \A c \in Callers : ~call[c].open
    BY <1>2 DEF ObsInit
  <1>6. QED
    BY <1>3, <1>4, <1>5 DEF ObsInv

\* One call changes and the store stands still.
LEMMA CallMoves ==
    ASSUME ObsInv, NEW c \in Callers, NEW x \in Copies,
           call' = [call EXCEPT ![c] = x], UNCHANGED <<today, usgs, obs>>,
           troubles' \in 0..MaxTroubles,
           x.open => /\ CopySound(x)
                     /\ \A o \in Callers : call[o].open => o = c
    PROVE  ObsInv'
  <1>1. \A o \in Callers : call'[o] = IF o = c THEN x ELSE call[o]
    BY DEF ObsInv, ObsTypeOK
  <1>2. ObsTypeOK'
    BY DEF ObsInv, ObsTypeOK, Copies
  <1>3. StoreTrue'
    BY DEF ObsInv, StoreTrue, Final
  <1>4. ASSUME NEW o \in Callers, call'[o].open
        PROVE  CopySound(call[o])'
    <2>1. CASE o = c
      <3>1. call'[o] = x /\ CopySound(x)
        BY <1>1, <1>4, <2>1
      <3>2. QED
        BY <3>1 DEF CopySound, Final
    <2>2. CASE o # c
      <3>1. call'[o] = call[o] /\ CopySound(call[o])
        BY <1>1, <1>4, <2>2 DEF ObsInv
      <3>2. QED
        BY <3>1 DEF CopySound, Final
    <2>3. QED
      BY <2>1, <2>2
  <1>5. \A o \in Callers : (call[o].open => CopySound(call[o]))'
    BY <1>4
  <1>6. \A o, p \in Callers : call'[o].open /\ call'[p].open => o = p
    BY <1>1 DEF ObsInv
  <1>7. QED
    BY <1>2, <1>3, <1>5, <1>6 DEF ObsInv

LEMMA ObsInvNext == ObsInv /\ [ObsNext]_obsVars => ObsInv'
  <1> SUFFICES ASSUME ObsInv, [ObsNext]_obsVars
               PROVE  ObsInv'
    OBVIOUS
  <1>1. ObsTypeOK /\ StoreTrue /\ call \in [Callers -> Copies]
        /\ MaxTroubles \in Nat
    BY ObsAssumption DEF ObsInv, ObsTypeOK, Copies
  <1>2. troubles \in 0..MaxTroubles /\ (Trouble => troubles' \in 0..MaxTroubles)
    BY <1>1 DEF ObsTypeOK, Trouble
  <1>3. NoRows \in Series /\ Closed \in Copies /\ ~Closed.open
    BY DEF NoRows, Series, Closed, Copies
  <1>4. ASSUME NEW c \in Callers, Open(c)
        PROVE  ObsInv'
    <2>1. PICK r \in Requests[c] :
             call' = [call EXCEPT ![c] = Loaded(r[1], r[2], r[3])]
      BY <1>4 DEF Open
    <2>2. r[1] \in Days /\ r[2] \in 1..(LastDay + 1) /\ r[3] \in BOOLEAN
      BY <2>1, ObsAssumption
    <2>3. /\ Loaded(r[1], r[2], r[3]) \in Copies
          /\ CopySound(Loaded(r[1], r[2], r[3]))
      BY <1>1, <2>2, LoadedSound
    <2>4. QED
      BY <1>2, <1>4, <2>1, <2>3, CallMoves DEF Open
  <1>5. ASSUME NEW c \in Callers, Fetch(c)
        PROVE  ObsInv'
    <2> DEFINE x == call[c]
    <2>1. PICK a \in x.left, b \in 1..(LastDay + 1) :
             /\ x.open /\ IsGap(x.left, a, b)
             /\ \/ /\ call' = [call EXCEPT ![c] = Taken(@, a, b, Heard(a, b))]
                   /\ UNCHANGED troubles
                \/ /\ call' = [call EXCEPT ![c] = Taken(@, a, b, NoRows)]
                   /\ Trouble
                \/ /\ call' = [call EXCEPT ![c].left = {d \in @ : d >= b}]
                   /\ Trouble
             /\ UNCHANGED <<today, usgs, obs>>
      BY <1>5 DEF Fetch
    <2> DEFINE part == [x EXCEPT !.left = {d \in @ : d >= b}]
    <2>2. /\ x \in Copies /\ x.open /\ CopySound(x)
          /\ \A o \in Callers : call[o].open => o = c
          /\ troubles' \in 0..MaxTroubles /\ UNCHANGED <<today, usgs, obs>>
      BY <1>1, <1>2, <2>1 DEF ObsInv
    <2>3. Heard(a, b) \in Series
      BY <1>1 DEF Heard, Series, ObsTypeOK
    <2>4. /\ Taken(x, a, b, Heard(a, b)) \in Copies
          /\ CopySound(Taken(x, a, b, Heard(a, b)))
      BY <1>1, <2>1, <2>2, <2>3, TakenSound
    <2>5. /\ Taken(x, a, b, NoRows) \in Copies
          /\ CopySound(Taken(x, a, b, NoRows))
      BY <1>1, <1>3, <2>1, <2>2, TakenSound
    <2>6. part \in Copies /\ CopySound(part)
      BY <2>2 DEF Copies, CopySound
    <2>7. \E y \in {Taken(x, a, b, Heard(a, b)), Taken(x, a, b, NoRows), part} :
             call' = [call EXCEPT ![c] = y]
      BY <2>1
    <2>8. QED
      BY <2>2, <2>4, <2>5, <2>6, <2>7, CallMoves
  <1>6. ASSUME NEW c \in Callers, Killed(c)
        PROVE  ObsInv'
    BY <1>2, <1>3, <1>6, CallMoves DEF Killed
  <1>7. ASSUME NEW c \in Callers, Store(c)
        PROVE  ObsInv'
    <2>1. call[c] \in Copies /\ CopySound(call[c])
      BY <1>1, <1>7 DEF ObsInv, Store
    <2>2. ObsTypeOK'
      BY <1>1, <1>3, <1>7, <2>1 DEF ObsTypeOK, Store, Copies
    <2>3. StoreTrue'
      BY <1>7, <2>1 DEF Store, StoreTrue, CopySound, Final
    <2>4. \A o \in Callers : ~call'[o].open
      BY <1>1, <1>3, <1>7 DEF Store, ObsInv
    <2>5. QED
      BY <2>2, <2>3, <2>4 DEF ObsInv
  <1>8. CASE Gauged
    <2>1. /\ today' \in FirstDay..LastDay /\ today' >= today
          /\ usgs' \in Series /\ UNCHANGED <<obs, call, troubles>>
          /\ \A d \in Final : usgs'[d] = usgs[d]
      BY <1>1, <1>8, ObsAssumption DEF Gauged, ObsTypeOK, Days
    <2>2. Final \subseteq Final'
      BY <1>1, <2>1, ObsAssumption DEF Final, ObsTypeOK, Days
    <2>3. ObsTypeOK'
      BY <1>1, <2>1 DEF ObsTypeOK
    <2>4. StoreTrue'
      BY <1>1, <2>1, <2>2 DEF StoreTrue
    <2>5. \A c \in Callers : (call[c].open => CopySound(call[c]))'
      BY <2>1, <2>2 DEF ObsInv, CopySound
    <2>6. QED
      BY <2>1, <2>3, <2>4, <2>5 DEF ObsInv
  <1>9. CASE UNCHANGED obsVars
    <2>1. \A c \in Callers : (call[c].open => CopySound(call[c]))'
      BY <1>9 DEF ObsInv, CopySound, Final, obsVars
    <2>2. QED
      BY <1>9, <2>1 DEF ObsInv, ObsTypeOK, StoreTrue, Final, obsVars
  <1>10. QED
    BY <1>4, <1>5, <1>6, <1>7, <1>8, <1>9 DEF ObsNext

\* No save takes a covered row away.
LEMMA RowsKeptStep ==
    ASSUME ObsInv, [ObsNext]_obsVars
    PROVE  [RowsKept]_obsVars
  <1>1. ASSUME NEW c \in Callers, Store(c)
        PROVE  RowsKept
    <2>1. CopySound(call[c]) /\ StoreTrue
      BY <1>1 DEF ObsInv, Store
    <2>2. obs' = [rows |-> call[c].rows, cov |-> call[c].cov,
                  doubt |-> call[c].doubt]
      BY <1>1 DEF Store
    <2>3. QED
      BY <2>1, <2>2 DEF RowsKept, CopySound, StoreTrue
  <1>2. CASE UNCHANGED obs
    BY <1>2 DEF RowsKept
  <1>3. UNCHANGED obs \/ \E c \in Callers : Store(c)
    BY DEF ObsNext, Open, Fetch, Killed, Gauged, obsVars
  <1>4. QED
    BY <1>1, <1>2, <1>3

\* What the store covers, but on an empty answer, is what USGS has, and no
\* caller's save takes a covered row away, for any callers and requests, any
\* lag and any revisions of USGS (get_series, _trusted, _store_lock).
THEOREM ObservationsSound == ObsSpec => ObsSound
  <1>1. ObsInit => ObsInv
    BY ObsInvInit
  <1>2. ObsInv /\ [ObsNext]_obsVars => ObsInv'
    BY ObsInvNext
  <1>3. ObsInv /\ [ObsNext]_obsVars => [RowsKept]_obsVars
    BY RowsKeptStep
  <1>4. ObsInv => ObsTypeOK /\ StoreTrue
    BY DEF ObsInv
  <1>5. QED
    BY <1>1, <1>2, <1>3, <1>4, PTL DEF ObsSpec, ObsSound
=============================================================================
