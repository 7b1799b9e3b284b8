------------------------------ MODULE Ungauged ------------------------------
(***************************************************************************)
(* The keep-warm Space of the ungauged points (ungauged_space/runner.py):  *)
(* once per issue time of the gauged nowcast every point is advanced by an *)
(* hour, the rows are published as one parquet, and new ten-day check-     *)
(* points go to CREST_fleet in batches.  What the Space knows it knows in  *)
(* RAM (carry, uploaded, ineligible, pending) and rebuilds from the Hub    *)
(* when it boots.                                                          *)
(*                                                                         *)
(* Time is kept as ages, in hours behind the newest issue of the gauged    *)
(* nowcast, so that the Space may run forever in finitely many states.     *)
(***************************************************************************)
EXTENDS Integers, Sequences, FiniteSets

CONSTANTS
  Points,        \* the shard's ungauged points
  Headwaters,    \* those without any gauge upstream
  PublishEvery,  \* routed rows between two publishes within a pass
  BigBatch,      \* bundles that together pass the 150 MB of a batch
  PendingCap,    \* bundles kept when a batch could not be committed
  CarryTTL,      \* hours a row is served without being recomputed
  Decade,        \* hours between two checkpoints of a point
  Ahead,         \* hours the wall clock runs ahead of the gauged nowcast
  MaxLag,        \* bound: issue times that may pass during one pass
  MaxFailures,     \* bound: failures and restarts
  ScanMayFail    \* the upstream-gauge scan of a run may fail

ASSUME UngaugedAssumption ==
  /\ Headwaters \subseteq Points /\ ScanMayFail \in BOOLEAN
  /\ {PublishEvery, BigBatch, Decade} \subseteq Nat \ {0}
  /\ {PendingCap, CarryTTL, Ahead, MaxLag, MaxFailures} \subseteq Nat

VARIABLES
  served,     \* the published parquet: the age of each point's row
  fleet,      \* CREST_fleet: the age of each point's newest checkpoint
  noUpstream, \* the published list of points without an upstream gauge
  carry,      \* RAM: the rows to publish, by age
  uploaded,   \* RAM: the points whose key is in the fleet
  ineligible, \* RAM: the points dropped as headwaters
  steady,     \* history: this boot read the published rows, none of them
              \* of a guessed hour still to come, and has guessed none
  pending,    \* RAM: packed bundles that await their commit
  local,      \* disk: the age of each point's newest checkpoint
  ustep,      \* where the Space is
  todo,       \* points of the pass that have not answered
  force,      \* points of the pass whose bundle is wanted in any case
  at,         \* the age of the pass's issue time
  lastAt,     \* the age of the last finished pass's issue time
  unpub,      \* rows of this pass since its last publish
  heads,      \* headwaters met in this pass: none, new, or saved
  failures      \* failures and restarts so far

hub == <<served, fleet, noUpstream>>
ram == <<carry, uploaded, ineligible, pending, steady>>
upass == <<todo, force, at, lastAt, unpub, heads>>
uvars == <<hub, ram, local, ustep, upass, failures>>

(* An age that no longer counts, which is also the age of no row at all. *)
Expired == CarryTTL + MaxLag + 1
(* The age of the checkpoint of a point that has none. *)
NoCkpt == Decade + 1

Older(age, most) == IF age < most THEN age + 1 ELSE age
Aged(ages, most) == [p \in Points |-> Older(ages[p], most)]
AgedCkpts(ages) ==
  [p \in Points |-> IF ages[p] = NoCkpt THEN NoCkpt
                                        ELSE Older(ages[p], Decade)]

Failure(n) == failures + n <= MaxFailures /\ failures' = failures + n
NoFailure == UNCHANGED failures
(* A request to the Hub: done, or failed as far as the Space can tell.  A  *)
(* request that failed may still have reached the Hub.                     *)
Request(ok, landed) == IF ok THEN landed /\ NoFailure ELSE Failure(1)

-----------------------------------------------------------------------------
UInit ==
  /\ served = [p \in Points |-> Expired] /\ carry = [p \in Points |-> Expired]
  /\ fleet = [p \in Points |-> NoCkpt] /\ local = [p \in Points |-> NoCkpt]
  /\ noUpstream = {} /\ uploaded = {} /\ ineligible = {} /\ pending = <<>>
  /\ ustep = "boot" /\ todo = {} /\ force = {} /\ unpub = 0
  /\ at = 0 /\ lastAt = MaxLag + 1 /\ heads = "none" /\ failures = 0
  /\ steady = FALSE

(* A new hour of the gauged nowcast: everything is an hour older.  While a *)
(* pass runs, at most MaxLag of them are counted.                          *)
NewIssue ==
  /\ ustep \in {"boot", "idle"} \/ at < MaxLag
  /\ served' = Aged(served, Expired) /\ carry' = Aged(carry, Expired)
  /\ fleet' = AgedCkpts(fleet) /\ local' = AgedCkpts(local)
  /\ pending' = [i \in DOMAIN pending |->
       [pending[i] EXCEPT !.ckpt = Older(@, Decade)]]
  /\ at' = IF ustep \in {"boot", "idle"} THEN at ELSE at + 1
  /\ lastAt' = Older(lastAt, MaxLag + 1)
  /\ UNCHANGED <<noUpstream, uploaded, ineligible, steady, ustep, todo,
                 force, unpub, heads, failures>>

(* The boot reads the three ledgers from the Hub; a read that fails leaves *)
(* its ledger empty.                                                       *)
Boot ==
  /\ ustep = "boot"
  /\ \E read \in SUBSET {"keys", "list", "rows"} :
       /\ uploaded' = IF "keys" \in read
                      THEN {p \in Points : fleet[p] # NoCkpt} ELSE {}
       /\ ineligible' = IF "list" \in read THEN noUpstream ELSE {}
       /\ carry' = IF "rows" \in read THEN served
                                      ELSE [p \in Points |-> Expired]
       /\ steady' = ("rows" \in read /\ \A p \in Points : served[p] >= 0)
       /\ Failure(3 - Cardinality(read))
  /\ ustep' = "idle"
  /\ UNCHANGED <<hub, pending, local, upass>>

(* The issue time a pass is for: the gauged nowcast's, or the hour of the  *)
(* clock when that cannot be read.                                         *)
IssueTime(t0) == \/ t0 = 0 /\ NoFailure
                 \/ t0 = -Ahead /\ Failure(1)

(* A pass begins for an issue time that is not the last one's: every point *)
(* that is not known as a headwater is submitted, and its bundle asked for *)
(* when the ledger does not list its key.                                  *)
StartPass ==
  /\ ustep = "idle"
  /\ \E t0 \in {0, -Ahead} :
       /\ IssueTime(t0) /\ t0 # lastAt /\ at' = t0
       /\ steady' = (steady /\ t0 = 0)
  /\ todo' = Points \ ineligible
  /\ force' = todo' \ uploaded
  /\ unpub' = 0 /\ heads' = "none" /\ ustep' = "pass"
  /\ UNCHANGED <<hub, carry, uploaded, ineligible, pending, local, lastAt>>

-----------------------------------------------------------------------------
(* What a run finds on the disk: its own states, or after a restart what   *)
(* the fleet has, if it can be fetched.                                    *)
Found(p, fetched) ==
  IF local[p] # NoCkpt \/ ~fetched THEN local[p] ELSE fleet[p]
(* The newest checkpoint after a run: ten days after the last one, or the  *)
(* first of a cold start.                                                  *)
Marched(ckpt) == IF ckpt \in {Decade, NoCkpt} THEN 0 ELSE ckpt
(* Slip: only a key that the ledger does not list is sent. *)
WantedForced(p) == p \in force
(* The bundle of a run is packed when its key is not in the ledger, or     *)
(* when the disk holds a checkpoint that it did not hold before the run.   *)
Wanted(p) == p \in force \/ local[p] \in {Decade, NoCkpt}

(* The parent has a point's answer: it publishes every PublishEvery rows   *)
(* and when the bundles are large, else goes on.                           *)
Answered(p) ==
  /\ ustep = "pass" /\ p \in todo /\ todo' = todo \ {p}
  /\ ustep' = IF unpub' >= PublishEvery \/ Len(pending') >= BigBatch
              THEN "publish" ELSE "pass"
  /\ UNCHANGED <<hub, uploaded, steady, force, at, lastAt>>

(* The run failed, perhaps after its hindcast had already advanced the     *)
(* states on the disk.                                                     *)
RunFails(p) ==
  /\ \E ran \in BOOLEAN :
       local' = IF ran THEN [local EXCEPT ![p] = Marched(Found(p, TRUE))]
                       ELSE local
  /\ Failure(1)
  /\ UNCHANGED <<carry, ineligible, pending, unpub, heads>>
  /\ Answered(p)

(* The run was routed: its row replaces the carried one, and its bundle is *)
(* packed when it is wanted or new.                                        *)
RunRouted(p) ==
  /\ p \notin Headwaters
  /\ \E fetched, packed \in BOOLEAN :
       /\ local' = [local EXCEPT ![p] = Marched(Found(p, fetched))]
       /\ pending' = IF packed /\ Wanted(p)
                     THEN Append(pending, [point |-> p, ckpt |-> local'[p]])
                     ELSE pending
       /\ IF fetched /\ packed THEN NoFailure ELSE Failure(1)
  /\ carry' = [carry EXCEPT ![p] = at]
  /\ unpub' = unpub + 1
  /\ UNCHANGED <<ineligible, heads>>
  /\ Answered(p)

(* No cut gauge qualified this hour: the run took the full basin, which    *)
(* keeps states of its own, and there is no row.                           *)
RunFull(p) ==
  /\ p \notin Headwaters /\ Failure(1)
  /\ UNCHANGED <<carry, ineligible, pending, local, unpub, heads>>
  /\ Answered(p)

(* The run found no gauge upstream - because there is none, or because the *)
(* scan for one failed: the point is dropped for good.                     *)
RunNoUpstream(p) ==
  /\ \/ p \in Headwaters /\ NoFailure
     \/ ScanMayFail /\ Failure(1)
  /\ ineligible' = ineligible \cup {p}
  /\ heads' = IF p \in ineligible THEN heads ELSE "new"
  /\ UNCHANGED <<carry, pending, local, unpub>>
  /\ Answered(p)

(* The last answer is in: what has not been published is. *)
PassAnswered ==
  /\ ustep = "pass" /\ todo = {}
  /\ ustep' = IF unpub > 0 THEN "lastPublish" ELSE "lastFlush"
  /\ UNCHANGED <<hub, ram, local, upass, failures>>

-----------------------------------------------------------------------------
(* The rows a publish takes from the carry ledger: those whose own issue   *)
(* time is neither too old nor ahead of the pass's.                        *)
Servable(age) == age - at \in -1..CarryTTL
(* Slip: only this pass's rows are published. *)
ServedNowFresh == [p \in Points |-> IF carry[p] = at THEN at ELSE Expired]
ServedNow == [p \in Points |-> IF Servable(carry[p]) THEN carry[p] ELSE Expired]

Publish ==
  /\ ustep \in {"publish", "lastPublish"}
  /\ \E ok, landed \in BOOLEAN :
       /\ Request(ok, landed)
       /\ served' = IF landed THEN ServedNow ELSE served
  /\ unpub' = 0
  /\ ustep' = IF ustep = "publish" THEN "flush" ELSE "lastFlush"
  /\ UNCHANGED <<fleet, noUpstream, ram, local, todo, force, at, lastAt,
                 heads>>

(* The newest bundle of a point in a batch wins. *)
Bundles(p) == {i \in DOMAIN pending : pending[i].point = p}
Batched(p) == pending[CHOOSE i \in Bundles(p) :
                        \A j \in Bundles(p) : j <= i].ckpt
WithBatch == [p \in Points |-> IF Bundles(p) = {} THEN fleet[p]
                                                  ELSE Batched(p)]
(* What is left of a batch that could not be committed. *)
Kept == IF Len(pending) <= PendingCap THEN pending
        ELSE SubSeq(pending, 1, PendingCap)

(* Slip: a batch is in the ledger once it has been sent. *)
ListedSent(ok) == {p \in Points : Bundles(p) # {}}
(* The points whose keys a commit puts into the ledger. *)
Listed(ok) == {p \in Points : ok /\ Bundles(p) # {}}

(* One commit for every pending bundle; only then are they in the ledger. *)
Flush ==
  /\ ustep \in {"flush", "lastFlush"}
  /\ IF pending = <<>> THEN UNCHANGED <<fleet, uploaded, pending, failures>>
     ELSE \E ok, landed \in BOOLEAN :
       /\ Request(ok, landed)
       /\ fleet' = IF landed THEN WithBatch ELSE fleet
       /\ uploaded' = uploaded \cup Listed(ok)
       /\ pending' = IF ok THEN <<>> ELSE Kept
  /\ ustep' = IF ustep = "flush" THEN "list" ELSE "lastList"
  /\ UNCHANGED <<served, noUpstream, carry, ineligible, steady, local, upass>>

(* Headwaters met since the last save are saved, and at the end of a pass  *)
(* all that it met; a save that fails is not repeated within the pass.     *)
SaveList ==
  /\ ustep \in {"list", "lastList"}
  /\ IF heads = "new" \/ (heads = "saved" /\ ustep = "lastList")
     THEN /\ \E ok, landed \in BOOLEAN :
               /\ Request(ok, landed)
               /\ noUpstream' = IF landed THEN ineligible ELSE noUpstream
          /\ heads' = "saved"
     ELSE UNCHANGED <<noUpstream, heads, failures>>
  /\ IF ustep = "list" THEN ustep' = "pass" /\ UNCHANGED lastAt
     ELSE ustep' = "idle" /\ lastAt' = at
  /\ UNCHANGED <<served, fleet, ram, local, todo, force, at, unpub>>

(* The Space restarts: what it had in RAM and on its disk is gone. *)
SpaceRestarts ==
  /\ ustep # "boot" /\ Failure(1)
  /\ carry' = [p \in Points |-> Expired] /\ local' = [p \in Points |-> NoCkpt]
  /\ uploaded' = {} /\ ineligible' = {} /\ pending' = <<>>
  /\ steady' = FALSE /\ todo' = {} /\ force' = {} /\ unpub' = 0
  /\ heads' = "none" /\ at' = 0 /\ lastAt' = MaxLag + 1
  /\ ustep' = "boot"
  /\ UNCHANGED hub

RunEnds(p) == RunFails(p) \/ RunRouted(p) \/ RunFull(p) \/ RunNoUpstream(p)
SpaceStep == \/ Boot \/ StartPass \/ PassAnswered \/ Publish \/ Flush
             \/ SaveList \/ (\E p \in Points : RunEnds(p))
UNext == NewIssue \/ SpaceStep \/ SpaceRestarts

(* The loop of the Space goes on, every child process answers, and every   *)
(* hour has its nowcast.                                                   *)
UFairness == WF_uvars(SpaceStep) /\ WF_uvars(NewIssue)
USpec == UInit /\ [][UNext]_uvars /\ UFairness

-----------------------------------------------------------------------------
UTypeOK ==
  /\ {served[p] : p \in Points} \cup {carry[p] : p \in Points}
       \subseteq -Ahead..Expired
  /\ {fleet[p] : p \in Points} \cup {local[p] : p \in Points}
       \subseteq 0..NoCkpt
  /\ noUpstream \cup uploaded \cup ineligible \cup todo \cup force
       \subseteq Points
  /\ at \in -Ahead..MaxLag /\ lastAt \in -Ahead..(MaxLag + 1)
  /\ failures \in 0..MaxFailures

(* The ledger of uploaded keys, which decides what is never sent again,    *)
(* lists only what the fleet has; and a publish never takes a row off the  *)
(* map, nor puts an older one in its place, while the row is within the    *)
(* hours it is served for - unless the boot could not read what had been   *)
(* published, or a pass, of this boot or of one before it whose rows are   *)
(* still of an hour to come, had to guess its hour.                        *)
LedgerTrue == \A p \in uploaded : fleet[p] # NoCkpt
InTime(p) == served[p] - at \in 0..CarryTTL
CoverageKept ==
  [][served' # Aged(served, Expired) => \A p \in Points :
       steady /\ InTime(p) => served'[p] <= served[p]]_uvars
UngaugedSound == [](UTypeOK /\ LedgerTrue) /\ CoverageKept

(* However requests fail, bundles are dropped and the Space restarts: a    *)
(* point that is routed gets a row of the newest hours again and again,    *)
(* and the fleet a checkpoint of its last decade.                          *)
Dropped(p) == p \in ineligible
RowNew(p) == Dropped(p) \/ served[p] <= MaxLag
CkptNew(p) == Dropped(p) \/ fleet[p] < Decade
KeepsUp ==
  \A p \in Points \ Headwaters : []<>RowNew(p) /\ []<>CkptNew(p)

(* Only points without any gauge upstream are dropped for good. *)
OnlyHeadwatersDropped == ineligible \subseteq Headwaters
=============================================================================
