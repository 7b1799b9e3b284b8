---------------------------- MODULE Nation_proofs ----------------------------
(***************************************************************************)
(* Proofs about five parts of the back office, for any number of gauges,   *)
(* points, files, jobs, failures and restarts: the mirrors of CREST_state  *)
(* (StateMirror), the keep-warm Space of the ungauged points (Ungauged),   *)
(* the hourly nowcast (Nowcast), the fleet run of a period (Fleet) and the *)
(* calibration jobs (Calibration).  The parts share no state, and each has *)
(* an invariant of its own: MirrorInv and PapersInv, UInv, NowcastInv,     *)
(* FleetInv, CalInv.                                                       *)
(***************************************************************************)
EXTENDS StateMirror, Ungauged, Nowcast, Fleet, Calibration,
        FiniteSetTheorems, SequenceTheorems, WellFoundedInduction, TLAPS

-----------------------------------------------------------------------------
(* The mirrors of CREST_state.                                             *)

(* The saves are numbered: nothing goes back to one that is still to come. *)
Numbered(c) == \A w \in c : w <= saves
RecordsNumbered ==
  /\ Numbered(repo[Record]) /\ Numbered(pushing)
  /\ \A s \in Spaces : /\ Numbered(disk[s][Record])
                       /\ Numbered(snap[s][Record])
                       /\ Numbered(pass[s].data[Record])

(* No backup is about to delete a parameter record. *)
RecordSpared == \A s \in Spaces : Record \notin pass[s].gone

MirrorInv == TypeOK /\ RecordsNumbered /\ RecordSpared

LEMMA MirrorLimits ==
  /\ MaxSaves \in Nat /\ MaxRestarts \in Nat /\ MaxFaults \in Nat
  /\ Autocal \notin Mirrors /\ Record \notin Papers
  /\ Mirrors \subseteq Spaces /\ Autocal \in Spaces
  /\ Papers \subseteq Files /\ Record \in Files
BY StateMirrorAssumption DEF StateMirrorAssumption, Spaces, Files

LEMMA Blanks ==
  /\ {} \in Contents /\ NoFiles \in [Files -> Contents]
  /\ NoFiles[Record] = {} /\ NoPass \in Passes
  /\ NoPass.data = NoFiles /\ NoPass.gone = {} /\ NoPass.at = "none"
  <1>1. {} \in Contents
    BY DEF Contents
  <1>2. NoFiles \in [Files -> Contents]
    BY <1>1 DEF NoFiles
  <1>3. NoFiles[Record] = {}
    BY MirrorLimits DEF NoFiles
  <1>4. /\ NoPass \in Passes
        /\ NoPass.data = NoFiles /\ NoPass.gone = {} /\ NoPass.at = "none"
    BY <1>2 DEF NoPass, Passes
  <1> QED
    BY <1>1, <1>2, <1>3, <1>4

LEMMA MirrorInit == Init => MirrorInv
  <1> SUFFICES ASSUME Init PROVE MirrorInv
    OBVIOUS
  <1>1. TypeOK
    <2>1. /\ disk \in [Spaces -> [Files -> Contents]]
          /\ manifest \in [Spaces -> [Files -> Contents]]
          /\ snap \in [Spaces -> [Files -> Contents]]
          /\ repo \in [Files -> Contents] /\ pass \in [Spaces -> Passes]
      BY Blanks DEF Init
    <2>2. /\ boot \in [Spaces -> {"down", "restoring", "up"}]
          /\ unread \in [Spaces -> SUBSET Files]
          /\ evicted \in [Spaces -> SUBSET Files]
          /\ gaps \in [Spaces -> SUBSET Files]
      BY DEF Init
    <2>3. /\ saves \in 0..MaxSaves /\ restarts \in 0..MaxRestarts
          /\ faults \in 0..MaxFaults
      BY MirrorLimits DEF Init
    <2> QED
      BY <2>1, <2>2, <2>3, Blanks DEF Init, TypeOK
  <1>2. RecordsNumbered
    BY Blanks DEF Init, RecordsNumbered, Numbered
  <1>3. RecordSpared
    BY Blanks DEF Init, RecordSpared
  <1> QED
    BY <1>1, <1>2, <1>3 DEF MirrorInv

LEMMA FaultCounted ==
  ASSUME TypeOK
  PROVE  /\ Fault => faults' \in 0..MaxFaults
         /\ UNCHANGED faults => faults' \in 0..MaxFaults
BY MirrorLimits DEF TypeOK, Fault

(* What a Space gets when it consults the records is one of the two it     *)
(* sees, and never the older one.                                          *)
LEMMA FetchedNewest ==
  ASSUME NEW s \in Spaces
  PROVE  /\ Fetched(s) \in {repo[Record], disk[s][Record]}
         /\ TypeOK => ~Newer(disk[s][Record], Fetched(s))
  <1>1. Fetched(s) \in {repo[Record], disk[s][Record]}
    BY DEF Fetched
  <1>2. ASSUME TypeOK
        PROVE  ~Newer(disk[s][Record], Fetched(s))
    <2>1. /\ \A w \in disk[s][Record] : w \in Int
          /\ \A w \in repo[Record] : w \in Int
      BY <1>2, MirrorLimits DEF TypeOK, Contents
    <2> QED
      BY <2>1 DEF Fetched, Newer
  <1> QED
    BY <1>1, <1>2

(* The step of one action from the invariant: every variable keeps its     *)
(* type, no record goes, and none is replaced by an older one.             *)
Safe == /\ MirrorInv'
        /\ repo[Record] # {} => repo'[Record] # {}
        /\ restarts' = restarts => \A s \in Spaces :
             ~Newer(disk[s][Record], disk'[s][Record])

(* A step that leaves disk, repository, saves and pushes alone is safe,    *)
(* if its snapshots and backups are.                                       *)
LEMMA SafeIfKept ==
  ASSUME MirrorInv, TypeOK',
         UNCHANGED <<repo, saves, pushing>>,
         \A s \in Spaces : \/ disk'[s][Record] = disk[s][Record]
                           \/ disk[s][Record] = {} /\
                              disk'[s][Record] = snap[s][Record]
                           \/ disk'[s][Record] = Fetched(s)
                           \/ restarts' # restarts /\ disk'[s][Record] = {},
         \A s \in Spaces : snap'[s][Record] \in
                             {{}, snap[s][Record], repo[Record]},
         \A s \in Spaces : pass'[s].data[Record] \in
                             {{}, pass[s].data[Record], disk[s][Record]},
         \A s \in Spaces : pass'[s].gone \subseteq pass[s].gone \cup Papers
  PROVE  Safe
  <1>1. TypeOK /\ RecordsNumbered /\ RecordSpared
    BY DEF MirrorInv
  <1>2. \A s \in Spaces : /\ Numbered(disk[s][Record])
                          /\ Numbered(snap[s][Record])
                          /\ Numbered(pass[s].data[Record])
                          /\ Numbered(repo[Record]) /\ Numbered({})
                          /\ Numbered(Fetched(s)) /\ Numbered(pushing)
    BY <1>1, FetchedNewest DEF RecordsNumbered, Numbered
  <1>3. \A s \in Spaces : /\ Numbered(disk'[s][Record])
                          /\ Numbered(snap'[s][Record])
                          /\ Numbered(pass'[s].data[Record])
    BY <1>2
  <1>4. RecordsNumbered'
    BY <1>1, <1>3 DEF RecordsNumbered, Numbered
  <1>5. RecordSpared'
    BY <1>1, MirrorLimits DEF RecordSpared
  <1>6. ASSUME restarts' = restarts, NEW s \in Spaces
        PROVE  ~Newer(disk[s][Record], disk'[s][Record])
    <2>1. \A w \in disk[s][Record] : w \in Int
      BY <1>1, MirrorLimits DEF TypeOK, Contents
    <2>2. ~Newer(disk[s][Record], disk[s][Record])
      BY <2>1 DEF Newer
    <2>3. disk[s][Record] = {} =>
             ~Newer(disk[s][Record], snap[s][Record])
      BY DEF Newer
    <2> QED
      BY <1>1, <1>6, <2>2, <2>3, FetchedNewest
  <1> QED
    BY <1>4, <1>5, <1>6 DEF Safe, MirrorInv

(* Boot. *)
LEMMA DownloadSafe ==
  ASSUME MirrorInv, NEW s \in Mirrors, Download(s)
  PROVE  Safe
  <1>0. TypeOK /\ s \in Spaces
    BY MirrorLimits DEF MirrorInv
  <1>1. TypeOK'
    BY <1>0 DEF TypeOK, Download, recordVars
  <1>2. \A t \in Spaces : snap'[t][Record] \in {snap[t][Record], repo[Record]}
    BY <1>0 DEF TypeOK, Download
  <1> QED
    BY <1>1, <1>2, SafeIfKept DEF Download, recordVars

LEMMA BootStepsSafe ==
  ASSUME MirrorInv, NEW s \in Mirrors, RestoreFails(s) \/ RestoreEnds(s)
  PROVE  Safe
  <1>0. TypeOK /\ s \in Spaces
    BY MirrorLimits DEF MirrorInv
  <1>1. faults' \in 0..MaxFaults
    BY <1>0, FaultCounted DEF RestoreFails, RestoreEnds
  <1>2. TypeOK'
    BY <1>0, <1>1, Blanks
    DEF TypeOK, RestoreFails, RestoreEnds, recordVars, historyVars
  <1>3. \A t \in Spaces : snap'[t][Record] \in {snap[t][Record], {}}
    BY <1>0, Blanks DEF TypeOK, RestoreFails, RestoreEnds
  <1> QED
    BY <1>2, <1>3, SafeIfKept DEF RestoreFails, RestoreEnds, recordVars

LEMMA RestoreSafe ==
  ASSUME MirrorInv, NEW s \in Mirrors, NEW f \in Files, Restore(s, f)
  PROVE  Safe
  <1>0. TypeOK /\ s \in Spaces
    BY MirrorLimits DEF MirrorInv
  <1>1. faults' \in 0..MaxFaults
    BY <1>0, FaultCounted DEF Restore, KeepLocal, CopyIn, CopyFails
  <1>2. \/ UNCHANGED <<disk, manifest, gaps>>
        \/ /\ disk[s][f] = {}
           /\ disk' = [disk EXCEPT ![s][f] = snap[s][f]]
           /\ manifest' = [manifest EXCEPT ![s][f] = snap[s][f]]
           /\ gaps' = [gaps EXCEPT ![s] = @ \ {f}]
    BY DEF Restore, KeepLocal, CopyIn, CopyFails
  <1>3. /\ disk' \in [Spaces -> [Files -> Contents]]
        /\ manifest' \in [Spaces -> [Files -> Contents]]
        /\ gaps' \in [Spaces -> SUBSET Files]
    <2>1. snap[s][f] \in Contents
      BY <1>0 DEF TypeOK
    <2>2. CASE UNCHANGED <<disk, manifest, gaps>>
      BY <1>0, <2>2 DEF TypeOK
    <2>3. CASE /\ disk' = [disk EXCEPT ![s][f] = snap[s][f]]
               /\ manifest' = [manifest EXCEPT ![s][f] = snap[s][f]]
               /\ gaps' = [gaps EXCEPT ![s] = @ \ {f}]
      BY <1>0, <2>1, <2>3 DEF TypeOK
    <2> QED
      BY <1>2, <2>2, <2>3
  <1>4. TypeOK'
    BY <1>0, <1>1, <1>3 DEF TypeOK, Restore, recordVars
  <1>5. \A t \in Spaces : \/ disk'[t][Record] = disk[t][Record]
                          \/ disk[t][Record] = {} /\
                             disk'[t][Record] = snap[t][Record]
    <2>1. disk \in [Spaces -> [Files -> Contents]]
      BY <1>0 DEF TypeOK
    <2>2. ASSUME NEW t \in Spaces,
                 disk' = [disk EXCEPT ![s][f] = snap[s][f]]
          PROVE  \/ disk'[t][Record] = disk[t][Record]
                 \/ t = s /\ f = Record /\ disk'[t][Record] = snap[t][Record]
      <3>1. disk[t] \in [Files -> Contents] /\ disk[s] \in [Files -> Contents]
        BY <1>0, <2>1
      <3> QED
        BY <1>0, <2>1, <2>2, <3>1, MirrorLimits
    <2> QED
      BY <1>2, <2>2
  <1> QED
    BY <1>4, <1>5, SafeIfKept DEF Restore, recordVars

LEMMA RestartSafe ==
  ASSUME MirrorInv, NEW s \in Spaces, Restart(s)
  PROVE  Safe
  <1>0. TypeOK
    BY DEF MirrorInv
  <1>1. restarts' \in 0..MaxRestarts /\ restarts' # restarts
    BY <1>0, MirrorLimits DEF TypeOK, Restart
  <1>2. pushing' \in Contents /\ unpushed' \in BOOLEAN
    BY <1>0, Blanks DEF TypeOK, Restart
  <1>3. /\ disk' \in [Spaces -> [Files -> Contents]]
        /\ manifest' \in [Spaces -> [Files -> Contents]]
        /\ snap' \in [Spaces -> [Files -> Contents]]
        /\ pass' \in [Spaces -> Passes]
    BY <1>0, Blanks DEF TypeOK, Restart
  <1>4. /\ boot' \in [Spaces -> {"down", "restoring", "up"}]
        /\ unread' \in [Spaces -> SUBSET Files]
        /\ evicted' \in [Spaces -> SUBSET Files]
        /\ gaps' \in [Spaces -> SUBSET Files] /\ seen' \in SUBSET Spaces
    BY <1>0 DEF TypeOK, Restart
  <1>5. TypeOK'
    BY <1>0, <1>1, <1>2, <1>3, <1>4 DEF TypeOK, Restart
  <1>6. \A t \in Spaces :
          /\ disk'[t][Record] \in {disk[t][Record], {}}
          /\ snap'[t][Record] \in {snap[t][Record], {}}
          /\ pass'[t].data[Record] \in {pass[t].data[Record], {}}
          /\ pass'[t].gone \subseteq pass[t].gone
    BY <1>0, Blanks DEF TypeOK, Restart
  <1>7. RecordsNumbered'
    BY <1>6 DEF MirrorInv, RecordsNumbered, Numbered, Restart
  <1>8. RecordSpared'
    BY <1>6 DEF MirrorInv, RecordSpared
  <1> QED
    BY <1>1, <1>5, <1>7, <1>8 DEF Safe, MirrorInv, Restart

(* The files of users and runs. *)
LEMMA SaveSafe ==
  ASSUME MirrorInv, NEW s \in Mirrors, NEW f \in Papers, Save(s, f)
  PROVE  Safe
  <1>0. TypeOK /\ s \in Spaces /\ f \in Files /\ f # Record
    BY MirrorLimits DEF MirrorInv
  <1>1. saves' = saves + 1 /\ saves' \in 1..MaxSaves /\ saves \in Nat
    BY <1>0, MirrorLimits DEF TypeOK, Save
  <1>2. disk' \in [Spaces -> [Files -> Contents]]
    <2>1. disk[s][f] \cup {saves + 1} \in Contents
      BY <1>0, <1>1 DEF TypeOK, Contents
    <2> QED
      BY <1>0, <2>1 DEF TypeOK, Save
  <1>3. TypeOK'
    BY <1>0, <1>1, <1>2 DEF TypeOK, Save, recordVars, historyVars
  <1>4. \A t \in Spaces : disk'[t][Record] = disk[t][Record]
    BY <1>0 DEF TypeOK, Save
  <1>5. RecordsNumbered'
    <2>1. \A t \in Spaces : /\ disk[t][Record] \in Contents
                            /\ snap[t][Record] \in Contents
                            /\ pass[t].data[Record] \in Contents
                            /\ repo[Record] \in Contents
                            /\ pushing \in Contents
      BY <1>0, MirrorLimits DEF TypeOK, Passes
    <2> QED
      BY <1>0, <1>1, <1>4, <2>1, MirrorLimits
      DEF MirrorInv, RecordsNumbered, Numbered, Contents, Save, recordVars
  <1>6. RecordSpared'
    BY DEF MirrorInv, RecordSpared, Save
  <1>7. \A t \in Spaces : ~Newer(disk[t][Record], disk'[t][Record])
    <2> TAKE t \in Spaces
    <2>1. disk[t][Record] \in SUBSET (1..MaxSaves)
      BY <1>0, MirrorLimits DEF TypeOK, Contents
    <2>2. \A w \in disk[t][Record] : w \in Int
      BY <2>1, MirrorLimits
    <2> QED
      BY <1>4, <2>2 DEF Newer
  <1> QED
    BY <1>3, <1>5, <1>6, <1>7 DEF Safe, MirrorInv, Save

LEMMA EvictSafe ==
  ASSUME MirrorInv, NEW s \in Mirrors, NEW f \in Papers, Evict(s, f)
  PROVE  Safe
  <1>0. TypeOK /\ s \in Spaces /\ f \in Files /\ f # Record
    BY MirrorLimits DEF MirrorInv
  <1>1. TypeOK'
    BY <1>0, Blanks DEF TypeOK, Evict, recordVars
  <1>2. \A t \in Spaces : disk'[t][Record] = disk[t][Record]
    BY <1>0 DEF TypeOK, Evict
  <1> QED
    BY <1>1, <1>2, SafeIfKept DEF Evict, recordVars

(* The backup. *)
LEMMA ScanSafe ==
  ASSUME MirrorInv, NEW s \in Mirrors, Scan(s)
  PROVE  Safe
  <1>0. TypeOK /\ s \in Spaces
    BY MirrorLimits DEF MirrorInv
  <1> DEFINE p == [NoPass EXCEPT !.at = "scanned",
                     !.expected = {f \in Files : disk[s][f] # {}}]
  <1>1. p \in Passes /\ p.data = NoFiles /\ p.gone = {}
    BY Blanks DEF Passes
  <1>2. pass' = [pass EXCEPT ![s] = p]
    BY DEF Scan
  <1> HIDE DEF p
  <1>3. TypeOK'
    BY <1>0, <1>1, <1>2 DEF TypeOK, Scan, recordVars, historyVars
  <1>4. \A t \in Spaces : pass'[t] \in {pass[t], p}
    BY <1>0, <1>2 DEF TypeOK
  <1>5. \A t \in Spaces : /\ pass'[t].data[Record] \in
                               {{}, pass[t].data[Record]}
                          /\ pass'[t].gone \subseteq pass[t].gone
    BY <1>1, <1>4, Blanks
  <1> QED
    BY <1>3, <1>5, SafeIfKept DEF Scan, recordVars

LEMMA CollectSafe ==
  ASSUME MirrorInv, NEW s \in Mirrors, Collect(s) \/ CollectBlind(s)
  PROVE  Safe
  <1>0. TypeOK /\ s \in Spaces
    BY MirrorLimits DEF MirrorInv
  <1>1. PICK listed \in SUBSET Files : CollectWith(s, listed)
    BY DEF Collect, CollectBlind
  <1>2. faults' \in 0..MaxFaults
    BY <1>0, FaultCounted DEF Collect, CollectBlind
  <1> DEFINE data == [f \in Files |-> IF f \in Changed(s) THEN disk[s][f]
                                                          ELSE {}]
             full == [at |-> "collected", expected |-> {}, data |-> data,
                      gone |-> Gone(s, listed)]
  <1>3. pass' = [pass EXCEPT ![s] = full] \/ pass' = [pass EXCEPT ![s] = NoPass]
    BY <1>1 DEF CollectWith
  <1>4. data \in [Files -> Contents] /\ data[Record] \in {{}, disk[s][Record]}
    BY <1>0, Blanks, MirrorLimits DEF TypeOK
  <1>5. Gone(s, listed) \subseteq Papers
    BY MirrorLimits DEF Gone, Files
  <1> HIDE DEF data
  <1>6. /\ full \in Passes /\ full.data = data
        /\ full.gone = Gone(s, listed)
    BY <1>4, <1>5, MirrorLimits DEF Passes, Files
  <1> HIDE DEF full
  <1>7. TypeOK'
    BY ZenonT(40), <1>0, <1>1, <1>2, <1>3, <1>6, Blanks
    DEF TypeOK, CollectWith, recordVars, historyVars
  <1>8. \A t \in Spaces : \/ pass'[t] \in {pass[t], NoPass}
                          \/ t = s /\ pass'[t] = full
    BY <1>0, <1>3 DEF TypeOK
  <1>9. \A t \in Spaces :
          /\ pass'[t].data[Record] \in
               {{}, pass[t].data[Record], disk[t][Record]}
          /\ pass'[t].gone \subseteq pass[t].gone \cup Papers
    BY <1>4, <1>5, <1>6, <1>8, Blanks
  <1> QED
    BY <1>1, <1>7, <1>9, SafeIfKept DEF CollectWith, recordVars

(* A commit brings what it collected, a record among it, and deletes no    *)
(* record.                                                                 *)
LEMMA CommitSafe ==
  ASSUME MirrorInv, NEW s \in Mirrors, Commit(s)
  PROVE  Safe
  <1>0. /\ TypeOK /\ RecordsNumbered /\ RecordSpared
        /\ s \in Spaces /\ Record \in Files
    BY MirrorLimits DEF MirrorInv
  <1>1. pass[s].data \in [Files -> Contents] /\ pass[s].gone \subseteq Files
    BY <1>0 DEF TypeOK, Passes
  <1>2. repo' \in [Files -> Contents]
    BY <1>0, <1>1, Blanks DEF TypeOK, Commit
  <1>3. Synced(s) \in [Files -> Contents]
    BY <1>0, <1>1 DEF TypeOK, Synced
  <1>4. manifest' \in [Spaces -> [Files -> Contents]]
    BY <1>0, <1>3 DEF TypeOK, Commit
  <1>5. TypeOK'
    BY <1>0, <1>2, <1>4, Blanks
    DEF TypeOK, Commit, recordVars, historyVars
  <1>6. repo'[Record] = IF pass[s].data[Record] # {} THEN pass[s].data[Record]
                                                    ELSE repo[Record]
    BY <1>0 DEF Commit, RecordSpared
  <1>7. \A t \in Spaces : pass'[t] \in {pass[t], NoPass}
    BY <1>0 DEF TypeOK, Commit
  <1>8. RecordsNumbered'
    BY <1>0, <1>6, <1>7, Blanks
    DEF RecordsNumbered, Numbered, Commit, recordVars
  <1>9. RecordSpared'
    BY <1>0, <1>7, Blanks DEF RecordSpared
  <1>10. \A t \in Spaces : ~Newer(disk[t][Record], disk'[t][Record])
    <2> TAKE t \in Spaces
    <2>1. disk[t][Record] \in SUBSET (1..MaxSaves)
      BY <1>0, MirrorLimits DEF TypeOK, Contents
    <2>2. \A w \in disk[t][Record] : w \in Int
      BY <2>1, MirrorLimits
    <2> QED
      BY <2>2 DEF Newer, Commit
  <1> QED
    BY <1>5, <1>6, <1>8, <1>9, <1>10 DEF Safe, MirrorInv

LEMMA CommitRefusedSafe ==
  ASSUME MirrorInv, NEW s \in Mirrors, CommitRefused(s)
  PROVE  Safe
  <1>0. TypeOK /\ s \in Spaces
    BY MirrorLimits DEF MirrorInv
  <1>1. faults' \in 0..MaxFaults
    BY <1>0, FaultCounted DEF CommitRefused
  <1>2. TypeOK'
    BY <1>0, <1>1, Blanks
    DEF TypeOK, CommitRefused, recordVars, historyVars
  <1>3. \A t \in Spaces : pass'[t] \in {pass[t], NoPass}
    BY <1>0 DEF TypeOK, CommitRefused
  <1> QED
    BY <1>2, <1>3, Blanks, SafeIfKept DEF CommitRefused, recordVars

(* The parameter record. *)
LEMMA ConsultSafe ==
  ASSUME MirrorInv, NEW s \in Spaces, Consult(s)
  PROVE  Safe
  <1>0. TypeOK /\ Record \in Files
    BY MirrorLimits DEF MirrorInv
  <1>1. faults' \in 0..MaxFaults
    BY <1>0, FaultCounted DEF Consult
  <1>2. disk' = disk \/ disk' = [disk EXCEPT ![s][Record] = Fetched(s)]
    BY DEF Consult
  <1>3. Fetched(s) \in Contents
    <2>1. repo[Record] \in Contents /\ disk[s][Record] \in Contents
      BY <1>0 DEF TypeOK
    <2>2. Fetched(s) \in {repo[Record], disk[s][Record]}
      BY FetchedNewest
    <2> QED
      BY <2>1, <2>2
  <1>4. disk' \in [Spaces -> [Files -> Contents]]
    <2>1. CASE disk' = disk
      BY <1>0, <2>1 DEF TypeOK
    <2>2. CASE disk' = [disk EXCEPT ![s][Record] = Fetched(s)]
      BY <1>0, <1>3, <2>2 DEF TypeOK
    <2> QED
      BY <1>2, <2>1, <2>2
  <1>5. TypeOK'
    BY <1>0, <1>1, <1>4 DEF TypeOK, Consult, historyVars
  <1>6. \A t \in Spaces : disk'[t][Record] \in {disk[t][Record], Fetched(t)}
    BY <1>0, <1>2 DEF TypeOK
  <1> QED
    BY <1>5, <1>6, SafeIfKept DEF Consult

LEMMA TtlPassesSafe ==
  ASSUME MirrorInv, NEW s \in Spaces, TtlPasses(s)
  PROVE  Safe
  <1>1. TypeOK'
    BY DEF MirrorInv, TypeOK, TtlPasses, diskVars, historyVars
  <1> QED
    BY <1>1, SafeIfKept DEF TtlPasses, diskVars

(* A new record is newer than every one there is. *)
LEMMA WinSafe ==
  ASSUME MirrorInv, NEW s \in Spaces, Win(s)
  PROVE  Safe
  <1>0. TypeOK /\ RecordsNumbered /\ RecordSpared /\ Record \in Files
    BY MirrorLimits DEF MirrorInv
  <1>1. saves' = saves + 1 /\ saves' \in 1..MaxSaves /\ saves \in Nat
    BY <1>0, MirrorLimits DEF TypeOK, Win
  <1>2. {saves + 1} \in Contents
    BY <1>1 DEF Contents
  <1>3. /\ disk' = [disk EXCEPT ![s][Record] = {saves + 1}]
        /\ pushing' = IF s = Autocal THEN {saves + 1} ELSE pushing
    BY DEF Win
  <1>4. disk' \in [Spaces -> [Files -> Contents]] /\ pushing' \in Contents
    BY <1>0, <1>2, <1>3 DEF TypeOK
  <1>5. TypeOK'
    <2>1. seen' \in SUBSET Spaces
      BY <1>0 DEF TypeOK, Win
    <2> QED
      BY <1>0, <1>1, <1>4, <2>1 DEF TypeOK, Win, historyVars
  <1>6. \A t \in Spaces :
          \/ disk'[t][Record] = disk[t][Record]
          \/ t = s /\ disk'[t][Record] = {saves + 1}
    BY <1>0, <1>3 DEF TypeOK
  <1>7. \A t \in Spaces : /\ disk[t][Record] \in Contents
                          /\ snap[t][Record] \in Contents
                          /\ pass[t].data[Record] \in Contents
                          /\ repo[Record] \in Contents
                          /\ pushing \in Contents
    BY <1>0, MirrorLimits DEF TypeOK, Passes
  <1>8. \A c \in Contents : \A w \in c : w \in Nat
    BY MirrorLimits DEF Contents
  <1>9. RecordsNumbered'
    <2>1. \A c \in Contents : (\A w \in c : w <= saves) =>
                                 \A w \in c : w <= saves'
      BY <1>1, <1>8
    <2>2. \A w \in {saves + 1} : w <= saves'
      BY <1>1
    <2>3. repo' = repo /\ snap' = snap /\ pass' = pass
      BY DEF Win
    <2> QED
      BY <1>0, <1>3, <1>6, <1>7, <2>1, <2>2, <2>3
      DEF RecordsNumbered, Numbered
  <1>10. RecordSpared'
    BY <1>0 DEF RecordSpared, Win
  <1>11. ASSUME NEW t \in Spaces
         PROVE  ~Newer(disk[t][Record], disk'[t][Record])
    <2>1. \A w \in disk[t][Record] : w \in Nat /\ w <= saves
      BY <1>0, <1>7, <1>8 DEF RecordsNumbered, Numbered
    <2>2. CASE disk'[t][Record] = disk[t][Record]
      BY <2>1, <2>2 DEF Newer
    <2>3. CASE disk'[t][Record] = {saves + 1}
      BY <1>1, <2>1, <2>3 DEF Newer
    <2> QED
      BY <1>6, <2>2, <2>3
  <1> QED
    BY <1>5, <1>9, <1>10, <1>11 DEF Safe, MirrorInv, Win

LEMMA PushesSafe ==
  ASSUME MirrorInv, PushLands \/ PushFails
  PROVE  Safe
  <1>0. TypeOK /\ RecordsNumbered /\ RecordSpared /\ Record \in Files
    BY MirrorLimits DEF MirrorInv
  <1>1. faults' \in 0..MaxFaults
    BY <1>0, FaultCounted DEF PushLands, PushFails, historyVars
  <1>2. repo' \in [Files -> Contents] /\ pushing' = {} /\ pushing' \in Contents
    BY <1>0, Blanks DEF TypeOK, PushLands, PushFails
  <1>3. TypeOK'
    BY <1>0, <1>1, <1>2
    DEF TypeOK, PushLands, PushFails, diskVars, historyVars
  <1>4. /\ repo'[Record] \in {repo[Record], pushing}
        /\ repo[Record] # {} => repo'[Record] # {}
    BY <1>0 DEF TypeOK, PushLands, PushFails
  <1>5. UNCHANGED <<disk, snap, pass, saves, restarts>>
    BY DEF PushLands, PushFails, diskVars
  <1>6. RecordsNumbered'
    BY <1>0, <1>2, <1>4, <1>5 DEF RecordsNumbered, Numbered
  <1>7. RecordSpared'
    BY <1>0, <1>5 DEF RecordSpared
  <1>8. \A t \in Spaces : ~Newer(disk[t][Record], disk'[t][Record])
    <2> TAKE t \in Spaces
    <2>1. disk[t][Record] \in SUBSET (1..MaxSaves)
      BY <1>0, MirrorLimits DEF TypeOK, Contents
    <2>2. \A w \in disk[t][Record] : w \in Int
      BY <2>1, MirrorLimits
    <2> QED
      BY <1>5, <2>2 DEF Newer
  <1> QED
    BY <1>3, <1>4, <1>6, <1>7, <1>8 DEF Safe, MirrorInv

LEMMA RepushSafe ==
  ASSUME MirrorInv, Repush
  PROVE  Safe
  <1>0. TypeOK /\ RecordsNumbered /\ RecordSpared /\ Record \in Files
    BY MirrorLimits DEF MirrorInv
  <1>1. /\ disk' = [disk EXCEPT ![Autocal][Record] = Fetched(Autocal)]
        /\ pushing' = disk'[Autocal][Record] /\ Autocal \in Spaces
    BY MirrorLimits DEF Repush
  <1>2. Fetched(Autocal) \in {repo[Record], disk[Autocal][Record]}
    BY <1>1, FetchedNewest
  <1>3. disk' \in [Spaces -> [Files -> Contents]]
    BY <1>0, <1>1, <1>2 DEF TypeOK
  <1>4. TypeOK'
    <2>1. pushing' \in Contents /\ seen' \in SUBSET Spaces
      BY <1>0, <1>1, <1>3 DEF TypeOK, Repush
    <2> QED
      BY <1>0, <1>3, <2>1 DEF TypeOK, Repush, historyVars
  <1>5. /\ \A t \in Spaces : disk'[t][Record] \in
                               {disk[t][Record], Fetched(t)}
        /\ pushing' \in {repo[Record], disk[Autocal][Record]}
    BY <1>0, <1>1, <1>2 DEF TypeOK
  <1>6. UNCHANGED <<repo, snap, pass, saves, restarts>>
    BY DEF Repush
  <1>7. RecordsNumbered'
    BY <1>0, <1>1, <1>5, <1>6, FetchedNewest DEF RecordsNumbered, Numbered
  <1>8. RecordSpared'
    BY <1>0, <1>6 DEF RecordSpared
  <1>9. ASSUME NEW t \in Spaces
        PROVE  ~Newer(disk[t][Record], disk'[t][Record])
    <2>1. disk[t][Record] \in SUBSET (1..MaxSaves)
      BY <1>0, MirrorLimits DEF TypeOK, Contents
    <2>2. \A w \in disk[t][Record] : w \in Int
      BY <2>1, MirrorLimits
    <2>3. ~Newer(disk[t][Record], disk[t][Record])
      BY <2>2 DEF Newer
    <2> QED
      BY <1>0, <1>5, <2>3, FetchedNewest
  <1> QED
    BY <1>4, <1>6, <1>7, <1>8, <1>9 DEF Safe, MirrorInv

LEMMA EveryStepSafe ==
  ASSUME MirrorInv, [Next]_vars
  PROVE  Safe
  <1>1. ASSUME NEW s \in Mirrors,
               \/ Download(s) \/ RestoreFails(s) \/ RestoreEnds(s)
               \/ Scan(s) \/ Collect(s) \/ CollectBlind(s)
               \/ Commit(s) \/ CommitRefused(s)
               \/ \E f \in Files : Restore(s, f)
               \/ \E f \in Papers : Save(s, f) \/ Evict(s, f)
        PROVE  Safe
    BY <1>1, DownloadSafe, BootStepsSafe, RestoreSafe, SaveSafe, EvictSafe,
       ScanSafe, CollectSafe, CommitSafe, CommitRefusedSafe
  <1>2. ASSUME NEW s \in Spaces,
               Restart(s) \/ Consult(s) \/ TtlPasses(s) \/ Win(s)
        PROVE  Safe
    BY <1>2, RestartSafe, ConsultSafe, TtlPassesSafe, WinSafe
  <1>3. CASE PushLands \/ PushFails \/ Repush
    BY <1>3, PushesSafe, RepushSafe
  <1>4. CASE UNCHANGED vars
    <2>1. TypeOK'
      BY <1>4
      DEF MirrorInv, TypeOK, vars, diskVars, recordVars, historyVars
    <2> QED
      BY <1>4, <2>1, SafeIfKept DEF vars, diskVars, recordVars, historyVars
  <1> QED
    BY <1>1, <1>2, <1>3, <1>4 DEF Next

(* However many mirrors there are and whenever they are asked for a        *)
(* backup: no parameter record leaves CREST_state, and no Space goes back  *)
(* to an older one.                                                        *)
THEOREM RecordsStay == Spec => []TypeOK /\ RecordsKept /\ RecordNeverOlder
  <1>1. Init => MirrorInv
    BY MirrorInit
  <1> DEFINE Kept1 == repo[Record] # {} => repo'[Record] # {}
             Newest == restarts' = restarts => \A s \in Spaces :
                         ~Newer(disk[s][Record], disk'[s][Record])
  <1>2. ASSUME MirrorInv, [Next]_vars
        PROVE  MirrorInv' /\ [Kept1]_repo /\ [Newest]_vars
    BY <1>2, EveryStepSafe DEF Safe
  <1>3. MirrorInv => TypeOK
    BY DEF MirrorInv
  <1> QED
    BY <1>1, <1>2, <1>3, PTL DEF Spec, RecordsKept, RecordNeverOlder

-----------------------------------------------------------------------------
(* One mirror, as deployed, and backups only once it has restored: what it *)
(* does not know to hold less of than CREST_state, and has not evicted, is *)
(* on its disk, in the snapshot it restores from, and in the backup under  *)
(* way, in full.                                                           *)
Excepted(s) == evicted[s] \cup gaps[s]
BackupAfterRestore(s) == pass[s].at # "none" => boot[s] = "up"
SnapshotCurrent(s) ==
  boot[s] = "restoring" => \A f \in Papers : snap[s][f] = repo[f]
Held(s, f) ==
  /\ repo[f] \subseteq disk[s][f]
  /\ pass[s].at = "scanned" /\ f \notin pass[s].expected => repo[f] = {}
  /\ pass[s].at = "collected" =>
       /\ f \notin pass[s].gone
       /\ pass[s].data[f] # {} => /\ repo[f] \subseteq pass[s].data[f]
                                 /\ pass[s].data[f] \subseteq disk[s][f]

PapersInv ==
  \A s \in Mirrors :
    /\ BackupAfterRestore(s) /\ SnapshotCurrent(s)
    /\ \A f \in Papers \ Excepted(s) : Held(s, f)

(* What a step must not do to a paper: make less of it. *)
Gentle == \A f \in Papers : ~(repo[f] \subseteq repo'[f]) =>
            \E s \in Mirrors : f \in Excepted(s)

OneMirror == ~EarlyPosts /\ \A s, t \in Mirrors : s = t

LEMMA PapersInit == Init => PapersInv
  <1> SUFFICES ASSUME Init, NEW s \in Mirrors
               PROVE  /\ BackupAfterRestore(s) /\ SnapshotCurrent(s)
                      /\ \A f \in Papers \ Excepted(s) : Held(s, f)
    BY DEF PapersInv
  <1>1. pass[s].at = "none" /\ boot[s] = "down" /\ gaps[s] = Files
    BY MirrorLimits, Blanks DEF Init
  <1> QED
    BY <1>1, MirrorLimits
    DEF BackupAfterRestore, SnapshotCurrent, Excepted

(* A step that leaves the papers of CREST_state alone, and of each mirror  *)
(* either everything of a paper or has it excepted.                        *)
LEMMA PapersIfKept ==
  ASSUME PapersInv, \A f \in Papers : repo'[f] = repo[f],
         UNCHANGED <<boot, pass, snap, evicted, gaps>>,
         \A s \in Mirrors : \A f \in Papers :
           disk[s][f] \subseteq disk'[s][f]
  PROVE  PapersInv' /\ Gentle
  <1>1. Gentle
    BY DEF Gentle
  <1>2. ASSUME NEW s \in Mirrors
        PROVE  /\ BackupAfterRestore(s)' /\ SnapshotCurrent(s)'
               /\ \A f \in Papers \ Excepted(s)' : Held(s, f)'
    BY DEF PapersInv, BackupAfterRestore, SnapshotCurrent, Excepted, Held
  <1> QED
    BY <1>1, <1>2 DEF PapersInv

(* With one mirror there is nothing to show of another. *)
LEMMA TheMirror ==
  ASSUME OneMirror, NEW s \in Mirrors,
         BackupAfterRestore(s)', SnapshotCurrent(s)',
         \A f \in Papers \ Excepted(s)' : Held(s, f)'
  PROVE  PapersInv'
  <1>1. ASSUME NEW t \in Mirrors
        PROVE  /\ BackupAfterRestore(t)' /\ SnapshotCurrent(t)'
               /\ \A f \in Papers \ Excepted(t)' : Held(t, f)'
    <2>1. t = s
      BY DEF OneMirror
    <2> QED
      BY <2>1
  <1> QED
    BY <1>1 DEF PapersInv

LEMMA BootPapers ==
  ASSUME MirrorInv, PapersInv, OneMirror, NEW s \in Mirrors,
         Download(s) \/ RestoreFails(s) \/ RestoreEnds(s)
  PROVE  PapersInv' /\ Gentle
  <1>0. /\ TypeOK /\ s \in Spaces
        /\ BackupAfterRestore(s) /\ \A f \in Papers \ Excepted(s) : Held(s, f)
    BY MirrorLimits DEF MirrorInv, PapersInv
  <1>1. /\ UNCHANGED <<repo, disk, pass, evicted>> /\ boot[s] # "up"
        /\ boot' = [boot EXCEPT ![s] = boot'[s]]
    BY <1>0 DEF Download, RestoreFails, RestoreEnds, historyVars, TypeOK
  <1>2. pass'[s].at = "none"
    BY <1>0, <1>1 DEF BackupAfterRestore
  <1>3. ASSUME NEW f \in Papers \ Excepted(s)'
        PROVE  repo[f] \subseteq disk[s][f]
    <2>1. CASE f \in gaps[s]
      BY <1>0, <1>3, <2>1, MirrorLimits DEF Excepted, Download, RestoreFails,
         RestoreEnds, historyVars, TypeOK
    <2>2. CASE f \notin gaps[s]
      BY <1>0, <1>1, <1>3, <2>2 DEF Excepted, Held
    <2> QED
      BY <2>1, <2>2
  <1>4. \A f \in Papers \ Excepted(s)' : Held(s, f)'
    BY <1>1, <1>2, <1>3 DEF Held
  <1>5. BackupAfterRestore(s)'
    BY <1>2 DEF BackupAfterRestore
  <1>6. SnapshotCurrent(s)'
    BY <1>0, <1>1, MirrorLimits DEF SnapshotCurrent, Download, RestoreFails,
       RestoreEnds, TypeOK
  <1>7. Gentle
    BY <1>1 DEF Gentle
  <1> QED
    BY <1>4, <1>5, <1>6, <1>7, TheMirror

LEMMA RestorePapers ==
  ASSUME MirrorInv, PapersInv, OneMirror, NEW s \in Mirrors, NEW g \in Files,
         Restore(s, g)
  PROVE  PapersInv' /\ Gentle
  <1>0. /\ TypeOK /\ s \in Spaces
        /\ BackupAfterRestore(s) /\ SnapshotCurrent(s)
        /\ \A f \in Papers \ Excepted(s) : Held(s, f)
    BY MirrorLimits DEF MirrorInv, PapersInv
  <1>1. /\ UNCHANGED <<repo, boot, snap, pass, evicted>>
        /\ boot[s] = "restoring"
    BY DEF Restore
  <1>2. pass'[s].at = "none"
    BY <1>0, <1>1 DEF BackupAfterRestore
  <1>3. \/ UNCHANGED <<disk, gaps>>
        \/ /\ disk[s][g] = {}
           /\ disk' = [disk EXCEPT ![s][g] = snap[s][g]]
           /\ gaps' = [gaps EXCEPT ![s] = @ \ {g}]
    BY DEF Restore, KeepLocal, CopyIn, CopyFails
  <1>4. ASSUME NEW f \in Papers \ Excepted(s)'
        PROVE  repo[f] \subseteq disk'[s][f]
    <2>0. /\ f \in Files /\ f \in Papers
          /\ disk \in [Spaces -> [Files -> Contents]]
          /\ disk[s] \in [Files -> Contents]
          /\ gaps \in [Spaces -> SUBSET Files]
      BY <1>0, MirrorLimits DEF TypeOK
    <2>1. CASE UNCHANGED <<disk, gaps>>
      BY <1>0, <1>1, <1>4, <2>1 DEF Excepted, Held
    <2>2. CASE /\ disk' = [disk EXCEPT ![s][g] = snap[s][g]]
               /\ gaps' = [gaps EXCEPT ![s] = @ \ {g}] /\ f = g
      <3>1. disk'[s][f] = snap[s][f]
        BY <1>0, <2>0, <2>2
      <3> QED
        BY <1>0, <1>1, <2>0, <3>1 DEF SnapshotCurrent
    <2>3. CASE /\ disk' = [disk EXCEPT ![s][g] = snap[s][g]]
               /\ gaps' = [gaps EXCEPT ![s] = @ \ {g}] /\ f # g
      <3>1. disk'[s][f] = disk[s][f]
        BY <1>0, <2>0, <2>3
      <3>2. gaps'[s] = gaps[s] \ {g} /\ evicted'[s] = evicted[s]
        BY <1>0, <1>1, <2>0, <2>3
      <3>3. f \notin Excepted(s)
        BY <1>4, <2>3, <3>2 DEF Excepted
      <3> QED
        BY <1>0, <2>0, <3>1, <3>3 DEF Held
    <2> QED
      BY <1>3, <2>1, <2>2, <2>3
  <1>5. \A f \in Papers \ Excepted(s)' : Held(s, f)'
    BY <1>1, <1>2, <1>4 DEF Held
  <1>6. BackupAfterRestore(s)' /\ SnapshotCurrent(s)'
    BY <1>0, <1>1 DEF BackupAfterRestore, SnapshotCurrent
  <1>7. Gentle
    BY <1>1 DEF Gentle
  <1> QED
    BY <1>5, <1>6, <1>7, TheMirror

LEMMA RestartPapers ==
  ASSUME MirrorInv, PapersInv, NEW s \in Spaces, Restart(s)
  PROVE  PapersInv' /\ Gentle
  <1>1. ASSUME NEW t \in Mirrors
        PROVE  /\ BackupAfterRestore(t)' /\ SnapshotCurrent(t)'
               /\ \A f \in Papers \ Excepted(t)' : Held(t, f)'
    <2>0. TypeOK /\ t \in Spaces
      BY MirrorLimits DEF MirrorInv
    <2>1. CASE t = s
      <3>1. /\ pass'[t].at = "none" /\ boot'[t] = "down" /\ gaps'[t] = Files
        BY <2>0, <2>1, Blanks DEF Restart, TypeOK
      <3> QED
        BY <3>1, MirrorLimits
        DEF BackupAfterRestore, SnapshotCurrent, Excepted
    <2>2. CASE t # s
      <3>1. /\ pass'[t] = pass[t] /\ boot'[t] = boot[t] /\ gaps'[t] = gaps[t]
            /\ disk'[t] = disk[t] /\ snap'[t] = snap[t] /\ repo' = repo
            /\ evicted'[t] = evicted[t]
        BY <2>0, <2>2 DEF Restart, TypeOK
      <3> QED
        BY <3>1 DEF PapersInv, BackupAfterRestore, SnapshotCurrent, Excepted,
           Held
    <2> QED
      BY <2>1, <2>2
  <1>2. Gentle
    BY DEF Restart, Gentle
  <1> QED
    BY <1>1, <1>2 DEF PapersInv

LEMMA EvictPapers ==
  ASSUME MirrorInv, PapersInv, OneMirror, NEW s \in Mirrors, NEW g \in Papers,
         Evict(s, g)
  PROVE  PapersInv' /\ Gentle
  <1>0. /\ TypeOK /\ s \in Spaces
        /\ BackupAfterRestore(s) /\ SnapshotCurrent(s)
        /\ \A f \in Papers \ Excepted(s) : Held(s, f)
    BY MirrorLimits DEF MirrorInv, PapersInv
  <1>1. UNCHANGED <<repo, boot, snap, pass, gaps>>
    BY DEF Evict
  <1>2. evicted'[s] = evicted[s] \cup {g}
    BY <1>0 DEF Evict, TypeOK
  <1>3. ASSUME NEW f \in Papers \ Excepted(s)'
        PROVE  Held(s, f)'
    <2>1. f # g /\ f \notin Excepted(s)
      BY <1>1, <1>2, <1>3 DEF Excepted
    <2>2. disk'[s][f] = disk[s][f]
      BY <1>0, <2>1, MirrorLimits DEF Evict, TypeOK
    <2> QED
      BY <1>0, <1>1, <1>3, <2>1, <2>2 DEF Held
  <1>4. BackupAfterRestore(s)' /\ SnapshotCurrent(s)'
    BY <1>0, <1>1 DEF BackupAfterRestore, SnapshotCurrent
  <1>5. Gentle
    BY <1>1 DEF Gentle
  <1> QED
    BY <1>3, <1>4, <1>5, TheMirror

LEMMA ScanPapers ==
  ASSUME MirrorInv, PapersInv, OneMirror, NEW s \in Mirrors, Scan(s)
  PROVE  PapersInv' /\ Gentle
  <1>0. /\ TypeOK /\ s \in Spaces
        /\ BackupAfterRestore(s) /\ SnapshotCurrent(s)
        /\ \A f \in Papers \ Excepted(s) : Held(s, f)
    BY MirrorLimits DEF MirrorInv, PapersInv
  <1>1. /\ UNCHANGED <<repo, disk, boot, snap, evicted, gaps>>
        /\ boot[s] = "up"
    BY DEF Scan, historyVars, OneMirror
  <1>2. /\ pass'[s].at = "scanned"
        /\ pass'[s].expected = {f \in Files : disk[s][f] # {}}
    BY <1>0, Blanks DEF Scan, TypeOK, Passes
  <1>3. ASSUME NEW f \in Papers \ Excepted(s)'
        PROVE  Held(s, f)'
    <2>1. repo[f] \subseteq disk[s][f]
      BY <1>0, <1>1, <1>3 DEF Excepted, Held
    <2>2. f \in Files
      BY MirrorLimits
    <2> QED
      BY <1>1, <1>2, <2>1, <2>2 DEF Held
  <1>4. BackupAfterRestore(s)' /\ SnapshotCurrent(s)'
    BY <1>0, <1>1 DEF BackupAfterRestore, SnapshotCurrent
  <1>5. Gentle
    BY <1>1 DEF Gentle
  <1> QED
    BY <1>3, <1>4, <1>5, TheMirror

LEMMA CollectPapers ==
  ASSUME MirrorInv, PapersInv, OneMirror, NEW s \in Mirrors,
         Collect(s) \/ CollectBlind(s)
  PROVE  PapersInv' /\ Gentle
  <1>0. /\ TypeOK /\ s \in Spaces
        /\ BackupAfterRestore(s) /\ SnapshotCurrent(s)
        /\ \A f \in Papers \ Excepted(s) : Held(s, f)
    BY MirrorLimits DEF MirrorInv, PapersInv
  <1>1. PICK listed \in SUBSET {f \in Files : repo[f] # {}} :
          CollectWith(s, listed)
    BY DEF Collect, CollectBlind
  <1> DEFINE data == [f \in Files |-> IF f \in Changed(s) THEN disk[s][f]
                                                          ELSE {}]
             full == [at |-> "collected", expected |-> {}, data |-> data,
                      gone |-> Gone(s, listed)]
  <1>2. /\ UNCHANGED <<repo, disk, boot, snap, evicted, gaps>>
        /\ pass[s].at = "scanned"
    BY <1>1 DEF CollectWith, historyVars
  <1>3. pass'[s] = full \/ pass'[s] = NoPass
    BY <1>0, <1>1 DEF CollectWith, TypeOK
  <1>4. full.at = "collected" /\ full.gone = Gone(s, listed) /\ full.data = data
    OBVIOUS
  <1> HIDE DEF full
  <1>5. ASSUME NEW f \in Papers \ Excepted(s)'
        PROVE  Held(s, f)'
    <2>1. Held(s, f)
      BY <1>0, <1>2, <1>5 DEF Excepted
    <2>2. f \notin Gone(s, listed)
      BY <1>2, <2>1 DEF Held, Gone
    <2>3. data[f] # {} => data[f] = disk[s][f]
      BY MirrorLimits
    <2> HIDE DEF data
    <2>4. CASE pass'[s] = full
      BY <1>2, <1>4, <2>1, <2>2, <2>3, <2>4 DEF Held
    <2>5. CASE pass'[s] = NoPass
      BY <1>2, <2>1, <2>5, Blanks DEF Held
    <2> QED
      BY <1>3, <2>4, <2>5
  <1>6. BackupAfterRestore(s)' /\ SnapshotCurrent(s)'
    BY <1>0, <1>2 DEF BackupAfterRestore, SnapshotCurrent
  <1>7. Gentle
    BY <1>2 DEF Gentle
  <1> QED
    BY <1>5, <1>6, <1>7, TheMirror

LEMMA CommitPapers ==
  ASSUME MirrorInv, PapersInv, OneMirror, NEW s \in Mirrors, Commit(s)
  PROVE  PapersInv' /\ Gentle
  <1>0. /\ TypeOK /\ s \in Spaces
        /\ BackupAfterRestore(s) /\ SnapshotCurrent(s)
        /\ \A f \in Papers \ Excepted(s) : Held(s, f)
    BY MirrorLimits DEF MirrorInv, PapersInv
  <1>1. /\ UNCHANGED <<disk, boot, snap, evicted, gaps>>
        /\ pass[s].at = "collected" /\ boot[s] = "up"
    BY <1>0 DEF Commit, historyVars, BackupAfterRestore
  <1>2. pass'[s].at = "none"
    BY <1>0, Blanks DEF Commit, TypeOK
  <1>3. ASSUME NEW f \in Papers \ Excepted(s)
        PROVE  repo[f] \subseteq repo'[f] /\ repo'[f] \subseteq disk[s][f]
    <2>1. Held(s, f) /\ f \in Files
      BY <1>0, MirrorLimits
    <2>2. repo'[f] = IF pass[s].data[f] # {} THEN pass[s].data[f] ELSE repo[f]
      BY <1>1, <2>1 DEF Commit, Held
    <2> QED
      BY <1>1, <2>1, <2>2 DEF Held
  <1>4. \A f \in Papers \ Excepted(s)' : Held(s, f)'
    BY <1>1, <1>2, <1>3 DEF Held, Excepted
  <1>5. BackupAfterRestore(s)' /\ SnapshotCurrent(s)'
    BY <1>1, <1>2 DEF BackupAfterRestore, SnapshotCurrent
  <1>6. Gentle
    BY <1>3 DEF Gentle
  <1> QED
    BY <1>4, <1>5, <1>6, TheMirror

LEMMA CommitRefusedPapers ==
  ASSUME MirrorInv, PapersInv, OneMirror, NEW s \in Mirrors, CommitRefused(s)
  PROVE  PapersInv' /\ Gentle
  <1>0. /\ TypeOK /\ s \in Spaces
        /\ BackupAfterRestore(s) /\ SnapshotCurrent(s)
        /\ \A f \in Papers \ Excepted(s) : Held(s, f)
    BY MirrorLimits DEF MirrorInv, PapersInv
  <1>1. UNCHANGED <<repo, disk, boot, snap, evicted, gaps>>
    BY DEF CommitRefused, historyVars
  <1>2. pass'[s].at = "none"
    BY <1>0, Blanks DEF CommitRefused, TypeOK
  <1>3. \A f \in Papers \ Excepted(s)' : Held(s, f)'
    BY <1>0, <1>1, <1>2 DEF Held, Excepted
  <1>4. BackupAfterRestore(s)' /\ SnapshotCurrent(s)'
    BY <1>0, <1>1, <1>2 DEF BackupAfterRestore, SnapshotCurrent
  <1>5. Gentle
    BY <1>1 DEF Gentle
  <1> QED
    BY <1>3, <1>4, <1>5, TheMirror

(* The steps that touch no paper but to add to it. *)
LEMMA OtherPapers ==
  ASSUME MirrorInv, PapersInv,
         \/ \E s \in Mirrors, f \in Papers : Save(s, f)
         \/ \E s \in Spaces : Consult(s) \/ TtlPasses(s) \/ Win(s)
         \/ PushLands \/ PushFails \/ Repush \/ UNCHANGED vars
  PROVE  PapersInv' /\ Gentle
  <1>0. TypeOK /\ \A f \in Papers : f \in Files /\ f # Record
    BY MirrorLimits DEF MirrorInv
  <1>1. UNCHANGED <<boot, pass, snap, evicted, gaps>>
    BY DEF Save, Consult, TtlPasses, Win, PushLands, PushFails, Repush, vars,
       diskVars, historyVars
  <1>2. repo' = repo \/ PushLands
    BY DEF Save, Consult, TtlPasses, Win, PushFails, Repush, vars
  <1>3. \A f \in Papers : repo'[f] = repo[f]
    BY <1>0, <1>2 DEF PushLands, TypeOK
  <1>4. ASSUME NEW t \in Mirrors, NEW f \in Papers
        PROVE  disk[t][f] \subseteq disk'[t][f]
    <2>0. /\ t \in Spaces /\ f \in Files /\ f # Record
          /\ disk \in [Spaces -> [Files -> Contents]]
      BY <1>0, MirrorLimits DEF TypeOK
    <2>1. CASE disk' = disk
      BY <2>1
    <2>2. ASSUME NEW s \in Mirrors, NEW g \in Papers, Save(s, g)
          PROVE  disk[t][f] \subseteq disk'[t][f]
      <3>1. disk' = [disk EXCEPT ![s][g] = disk[s][g] \cup {saves + 1}]
        BY <2>2 DEF Save
      <3>2. g \in Files /\ s \in Spaces
        BY MirrorLimits
      <3>3. CASE t = s /\ f = g
        BY <2>0, <3>1, <3>2, <3>3
      <3>4. CASE ~(t = s /\ f = g)
        BY <2>0, <3>1, <3>2, <3>4
      <3> QED
        BY <3>3, <3>4
    <2>3. ASSUME NEW s \in Spaces, NEW c,
                 disk' = [disk EXCEPT ![s][Record] = c]
          PROVE  disk'[t][f] = disk[t][f]
      BY <2>0, <2>3
    <2>4. ASSUME NEW s \in Spaces, Consult(s) \/ TtlPasses(s) \/ Win(s)
          PROVE  disk' = disk \/ \E c : disk' = [disk EXCEPT ![s][Record] = c]
      BY <2>4 DEF Consult, TtlPasses, Win, diskVars
    <2>5. ASSUME PushLands \/ PushFails \/ Repush \/ UNCHANGED vars
          PROVE  \/ disk' = disk
                 \/ \E c : disk' = [disk EXCEPT ![Autocal][Record] = c]
      BY <2>5 DEF PushLands, PushFails, Repush, vars, diskVars
    <2>6. Autocal \in Spaces
      BY MirrorLimits
    <2> QED
      BY <2>1, <2>2, <2>3, <2>4, <2>5, <2>6
  <1> QED
    BY <1>1, <1>3, <1>4, PapersIfKept

(* With one mirror, which backs up only once it has restored: what users   *)
(* saved leaves CREST_state only by an eviction or where the mirror could  *)
(* not have known of it, no record leaves it, and none grows older.        *)
THEOREM RecordsAreSafe ==
  ASSUME OneMirror
  PROVE  Spec => RecordsSafe
  <1>1. Init => MirrorInv /\ PapersInv
    BY MirrorInit, PapersInit
  <1>2. ASSUME MirrorInv, PapersInv, [Next]_vars
        PROVE  MirrorInv' /\ PapersInv' /\ [Gentle]_repo
    <2>1. MirrorInv'
      BY <1>2, EveryStepSafe DEF Safe
    <2>2. ASSUME NEW s \in Mirrors,
                 \/ Download(s) \/ RestoreFails(s) \/ RestoreEnds(s)
                 \/ Scan(s) \/ Collect(s) \/ CollectBlind(s)
                 \/ Commit(s) \/ CommitRefused(s)
                 \/ \E f \in Files : Restore(s, f)
                 \/ \E f \in Papers : Save(s, f) \/ Evict(s, f)
          PROVE  PapersInv' /\ Gentle
      BY <1>2, <2>2, OneMirror, BootPapers, ScanPapers, CollectPapers,
         CommitPapers, CommitRefusedPapers, RestorePapers, EvictPapers,
         OtherPapers
    <2>3. ASSUME NEW s \in Spaces,
                 Restart(s) \/ Consult(s) \/ TtlPasses(s) \/ Win(s)
          PROVE  PapersInv' /\ Gentle
      BY <1>2, <2>3, RestartPapers, OtherPapers
    <2>4. CASE PushLands \/ PushFails \/ Repush \/ UNCHANGED vars
      BY <1>2, <2>1, <2>4, OtherPapers
    <2> QED
      BY <1>2, <2>1, <2>2, <2>3, <2>4 DEF Next
  <1>3. Spec => LostOnlyByEviction
    <2>1. Gentle => \A f \in Papers : ~(repo[f] \subseteq repo'[f]) =>
                      \E s \in Mirrors : f \in evicted[s] \cup gaps[s]
      BY DEF Gentle, Excepted
    <2> QED
      BY <1>1, <1>2, <2>1, PTL DEF Spec, LostOnlyByEviction
  <1> QED
    BY <1>3, RecordsStay, PTL DEF RecordsSafe

-----------------------------------------------------------------------------
(* The keep-warm Space of the ungauged points.                             *)

RowsBundle == [point : Points, ckpt : 0..Decade]
USteps == {"boot", "idle", "pass", "publish", "flush", "list",
           "lastPublish", "lastFlush", "lastList"}

UTyped ==
  /\ served \in [Points -> -Ahead..Expired]
  /\ carry \in [Points -> -Ahead..Expired]
  /\ fleet \in [Points -> 0..NoCkpt] /\ local \in [Points -> 0..NoCkpt]
  /\ noUpstream \subseteq Points /\ uploaded \subseteq Points
  /\ ineligible \subseteq Points
  /\ todo \subseteq Points /\ force \subseteq Points
  /\ pending \in Seq(RowsBundle)
  /\ at \in -Ahead..MaxLag /\ lastAt \in -Ahead..(MaxLag + 1)
  /\ failures \in 0..MaxFailures
  /\ steady \in BOOLEAN /\ ustep \in USteps

(* The age from which on this boot writes rows: that of its pass, or of a  *)
(* pass still to come.                                                     *)
Low == IF ustep \in {"boot", "idle"} THEN 0 ELSE at

(* Of a boot that read the published rows and guessed no hour: what it     *)
(* carries of a point is as new as what is published, and is of no hour    *)
(* still to come.                                                          *)
RowsOrdered ==
  steady => /\ ustep # "boot" /\ Low >= 0
            /\ \A p \in Points : Low <= carry[p] /\ carry[p] <= served[p]

UInv == UTyped /\ LedgerTrue /\ RowsOrdered

(* The limits are numbers of hours and of bundles. *)
LEMMA ULimits ==
  /\ PendingCap \in Nat /\ CarryTTL \in Nat /\ Ahead \in Nat
  /\ MaxLag \in Nat /\ MaxFailures \in Nat
  /\ Decade \in Nat /\ Decade > 0 /\ Headwaters \subseteq Points
  /\ Expired = CarryTTL + MaxLag + 1 /\ Expired \in Nat
  /\ NoCkpt = Decade + 1 /\ NoCkpt \in Nat
BY UngaugedAssumption DEF UngaugedAssumption, Expired, NoCkpt

(* A set of places in a sequence has a last one. *)
LEMMA LastPlace ==
  ASSUME NEW n \in Nat, NEW B \in SUBSET (1..n), B # {}
  PROVE  \E i \in B : \A j \in B : j <= i
  <1> DEFINE T == {n - i : i \in B}
  <1>1. T \subseteq Nat /\ T # {}
    <2>1. \A i \in B : n - i \in Nat
      OBVIOUS
    <2> QED
      BY <2>1
  <1>2. PICK x \in T : \A y \in T : ~(<<y, x>> \in OpToRel(<, Nat))
    BY <1>1, NatLessThanWellFounded, WFMin
  <1>3. \A y \in T : ~(y < x)
    BY <1>1, <1>2 DEF OpToRel
  <1>4. PICK i \in B : x = n - i
    OBVIOUS
  <1>5. ASSUME NEW j \in B
        PROVE  j <= i
    <2>1. n - j \in T /\ j \in Int /\ i \in Int
      OBVIOUS
    <2>2. ~(n - j < x)
      BY <1>3, <2>1
    <2> QED
      BY <1>4, <2>1, <2>2
  <1> QED
    BY <1>5

(* A batch commits, of each point it has bundles of, one of them. *)
LEMMA BatchOfBundles ==
  ASSUME UTyped
  PROVE  /\ WithBatch \in [Points -> 0..NoCkpt]
         /\ \A p \in Points :
              WithBatch[p] = NoCkpt => /\ Bundles(p) = {}
                                       /\ fleet[p] = NoCkpt
  <1>0. Decade \in Nat /\ NoCkpt = Decade + 1
    BY ULimits
  <1>1. /\ Len(pending) \in Nat /\ DOMAIN pending = 1..Len(pending)
        /\ \A i \in 1..Len(pending) : pending[i] \in RowsBundle
    BY LenProperties, ElementOfSeq DEF UTyped
  <1>2. ASSUME NEW p \in Points, Bundles(p) # {}
        PROVE  Batched(p) \in 0..Decade
    <2>1. Bundles(p) \in SUBSET (1..Len(pending))
      BY <1>1 DEF Bundles
    <2>2. \E i \in Bundles(p) : \A j \in Bundles(p) : j <= i
      BY <1>1, <1>2, <2>1, LastPlace
    <2> DEFINE last == CHOOSE i \in Bundles(p) : \A j \in Bundles(p) : j <= i
    <2>3. last \in Bundles(p)
      BY <2>2
    <2>4. Batched(p) = pending[last].ckpt
      BY DEF Batched
    <2> QED
      BY <1>1, <2>1, <2>3, <2>4 DEF RowsBundle
  <1>3. fleet \in [Points -> 0..NoCkpt]
    BY DEF UTyped
  <1> QED
    BY <1>0, <1>2, <1>3 DEF WithBatch

(* A set grows by at most one with an element. *)
LEMMA OneMore ==
  ASSUME NEW S, NEW x, NEW n \in Nat, IsFiniteSet(S), Cardinality(S) <= n
  PROVE  IsFiniteSet(S \cup {x}) /\ Cardinality(S \cup {x}) <= n + 1
  <1>1. Cardinality(S) \in Nat
    BY FS_CardinalityType
  <1>2. /\ IsFiniteSet(S \cup {x})
        /\ Cardinality(S \cup {x}) =
             IF x \in S THEN Cardinality(S) ELSE Cardinality(S) + 1
    BY FS_AddElement
  <1> QED
    BY <1>1, <1>2

(* The boot meets at most as many failures as it reads ledgers. *)
LEMMA ReadsCounted ==
  ASSUME NEW read \in SUBSET {"keys", "list", "rows"}
  PROVE  3 - Cardinality(read) \in Nat
  <1> DEFINE A == {} \cup {"keys"}
             B == A \cup {"list"}
             C == B \cup {"rows"}
  <1>1. read \in SUBSET C
    OBVIOUS
  <1>2. IsFiniteSet(A) /\ Cardinality(A) <= 1
    <2>1. IsFiniteSet({}) /\ Cardinality({}) <= 0 /\ 0 \in Nat
      BY FS_EmptySet
    <2>2. IsFiniteSet(A) /\ Cardinality(A) <= 0 + 1
      BY ONLY <2>1, OneMore, Zenon
    <2> QED
      BY <2>2
  <1>3. IsFiniteSet(B) /\ Cardinality(B) <= 2
    <2> HIDE DEF A
    <2>1. IsFiniteSet(B) /\ Cardinality(B) <= 1 + 1
      BY ONLY <1>2, 1 \in Nat, OneMore, Zenon
    <2> QED
      BY <2>1
  <1>4. IsFiniteSet(C) /\ Cardinality(C) <= 3
    <2> HIDE DEF B
    <2>1. IsFiniteSet(C) /\ Cardinality(C) <= 2 + 1
      BY ONLY <1>3, 2 \in Nat, OneMore, Zenon
    <2> QED
      BY <2>1
  <1> HIDE DEF C
  <1>5. IsFiniteSet(read) /\ Cardinality(read) <= Cardinality(C)
    BY <1>1, <1>4, FS_Subset
  <1>6. Cardinality(read) \in Nat /\ Cardinality(C) \in Nat
    BY <1>4, <1>5, FS_CardinalityType
  <1> QED
    BY <1>4, <1>5, <1>6

(* Growing older keeps ages in their range and in their order. *)
LEMMA AgesGrow ==
  /\ \A a, b \in -Ahead..Expired :
       /\ Older(a, Expired) \in -Ahead..Expired /\ Older(a, Expired) >= a
       /\ a <= b => Older(a, Expired) <= Older(b, Expired)
       /\ \A l \in 0..(MaxLag - 1) : l <= a => l + 1 <= Older(a, Expired)
  /\ \A c \in 0..Decade : Older(c, Decade) \in 0..Decade
BY ULimits DEF Older

(* What a run leaves on the disk is a checkpoint. *)
LEMMA RunLeavesCheckpoint ==
  ASSUME UTyped, NEW p \in Points, NEW fetched \in BOOLEAN
  PROVE  Marched(Found(p, fetched)) \in 0..Decade
  <1>1. Found(p, fetched) \in 0..NoCkpt
    BY DEF UTyped, Found
  <1> QED
    BY <1>1, ULimits DEF Marched

LEMMA UngaugedInit == UInit => UInv
  <1> SUFFICES ASSUME UInit PROVE UInv
    OBVIOUS
  <1>1. /\ Expired \in -Ahead..Expired /\ NoCkpt \in 0..NoCkpt
        /\ 0 \in -Ahead..MaxLag /\ MaxLag + 1 \in -Ahead..(MaxLag + 1)
        /\ 0 \in 0..MaxFailures
    BY ULimits
  <1>2. pending \in Seq(RowsBundle)
    BY EmptySeq DEF UInit
  <1>3. UTyped
    BY <1>1, <1>2 DEF UInit, UTyped, USteps
  <1> QED
    BY <1>3 DEF UInit, UInv, LedgerTrue, RowsOrdered

(* An hour later every age is an hour more, in the order they were in. *)
LEMMA NewIssueKeeps ==
  ASSUME UInv, NewIssue
  PROVE  UInv' /\ served' = Aged(served, Expired)
  <1>0. /\ MaxLag \in Nat /\ Ahead \in Nat /\ Decade \in Nat
        /\ NoCkpt = Decade + 1 /\ Expired \in Nat
    BY ULimits
  <1>1. UTyped /\ LedgerTrue /\ RowsOrdered
    BY DEF UInv
  <1>2. /\ served' \in [Points -> -Ahead..Expired]
        /\ carry' \in [Points -> -Ahead..Expired]
        /\ \A p \in Points : /\ served'[p] = Older(served[p], Expired)
                             /\ carry'[p] = Older(carry[p], Expired)
    BY <1>1, AgesGrow DEF UTyped, NewIssue, Aged
  <1>3. ASSUME NEW ages \in [Points -> 0..NoCkpt]
        PROVE  /\ AgedCkpts(ages) \in [Points -> 0..NoCkpt]
               /\ \A p \in Points :
                    ages[p] # NoCkpt => AgedCkpts(ages)[p] # NoCkpt
    <2>1. \A p \in Points : ages[p] # NoCkpt =>
             Older(ages[p], Decade) \in 0..Decade
      BY <1>0, AgesGrow
    <2> QED
      BY <1>0, <2>1 DEF AgedCkpts
  <1>4. /\ fleet' \in [Points -> 0..NoCkpt] /\ local' \in [Points -> 0..NoCkpt]
        /\ LedgerTrue'
    BY <1>1, <1>3 DEF UTyped, LedgerTrue, NewIssue
  <1>5. pending' \in Seq(RowsBundle)
    <2>1. /\ Len(pending) \in Nat /\ DOMAIN pending = 1..Len(pending)
          /\ \A i \in 1..Len(pending) : pending[i] \in RowsBundle
      BY <1>1, LenProperties, ElementOfSeq DEF UTyped
    <2>2. pending' \in [1..Len(pending) -> RowsBundle]
      <3>1. ASSUME NEW i \in 1..Len(pending)
            PROVE  [pending[i] EXCEPT !.ckpt = Older(@, Decade)] \in RowsBundle
        BY <2>1, AgesGrow DEF RowsBundle
      <3> QED
        BY <2>1, <3>1 DEF NewIssue
    <2> QED
      BY <2>1, <2>2, IsASeq
  <1>6. at' \in -Ahead..MaxLag /\ lastAt' \in -Ahead..(MaxLag + 1)
    BY <1>0, <1>1 DEF UTyped, NewIssue, Older
  <1>7. UTyped'
    BY <1>1, <1>2, <1>4, <1>5, <1>6 DEF UTyped, NewIssue
  <1>8. RowsOrdered'
    <2> SUFFICES ASSUME steady'
                 PROVE  /\ ustep' # "boot" /\ Low' >= 0
                        /\ \A p \in Points :
                             Low' <= carry'[p] /\ carry'[p] <= served'[p]
      BY DEF RowsOrdered
    <2>1. /\ ustep' = ustep /\ ustep # "boot" /\ Low >= 0
          /\ \A p \in Points : Low <= carry[p] /\ carry[p] <= served[p]
      BY <1>1 DEF RowsOrdered, NewIssue
    <2>2. \A p \in Points : /\ carry[p] \in -Ahead..Expired
                            /\ served[p] \in -Ahead..Expired
      BY <1>1 DEF UTyped
    <2>3. CASE ustep = "idle"
      <3>1. Low = 0 /\ Low' = 0
        BY <2>1, <2>3 DEF Low
      <3> QED
        BY <1>0, <1>2, <2>1, <2>2, <3>1, AgesGrow
    <2>4. CASE ustep # "idle"
      <3>1. Low = at /\ Low' = at + 1 /\ at \in 0..(MaxLag - 1)
        BY <1>0, <1>1, <2>1, <2>4 DEF Low, NewIssue, UTyped
      <3>2. \A p \in Points : at + 1 <= carry'[p] /\ carry'[p] <= served'[p]
        BY <1>2, <2>1, <2>2, <3>1, AgesGrow
      <3> QED
        BY <2>1, <2>4, <3>1, <3>2
    <2> QED
      BY <2>3, <2>4
  <1> QED
    BY <1>4, <1>7, <1>8 DEF UInv, NewIssue

(* A step that leaves the ages of the rows alone keeps their order, if it  *)
(* goes on with the pass, or ends it. *)
LEMMA OrderKept ==
  ASSUME UInv, UNCHANGED <<served, carry, steady, at>>,
         ustep \notin {"boot", "idle"}, ustep' \in USteps \ {"boot"}
  PROVE  RowsOrdered'
  <1>1. at \in Int /\ \A p \in Points : carry[p] \in Int
    BY ULimits DEF UInv, UTyped
  <1>2. steady => at >= 0 /\ \A p \in Points : at <= carry[p]
    BY DEF UInv, RowsOrdered, Low
  <1>3. Low' \in {0, at}
    BY DEF Low
  <1> QED
    BY <1>1, <1>2, <1>3 DEF UInv, RowsOrdered

(* A request or a failure is counted, and a request that is done has       *)
(* reached the Hub.                                                        *)
LEMMA FailuresCounted ==
  ASSUME UTyped
  PROVE  /\ \A n \in Nat : Failure(n) => failures' \in 0..MaxFailures
         /\ NoFailure => failures' \in 0..MaxFailures
         /\ \A ok, landed \in BOOLEAN : Request(ok, landed) =>
              failures' \in 0..MaxFailures /\ (ok => landed)
BY ULimits DEF UTyped, Failure, NoFailure, Request

LEMMA BootKeeps ==
  ASSUME UInv, Boot
  PROVE  UInv' /\ served' = served
  <1>1. UTyped /\ LedgerTrue /\ RowsOrdered /\ ~steady
    BY DEF UInv, RowsOrdered, Boot
  <1>2. PICK read \in SUBSET {"keys", "list", "rows"} :
          /\ uploaded' = IF "keys" \in read
                         THEN {p \in Points : fleet[p] # NoCkpt} ELSE {}
          /\ ineligible' = IF "list" \in read THEN noUpstream ELSE {}
          /\ carry' = IF "rows" \in read THEN served
                                         ELSE [p \in Points |-> Expired]
          /\ steady' = ("rows" \in read /\ \A p \in Points : served[p] >= 0)
          /\ Failure(3 - Cardinality(read))
    BY DEF Boot
  <1>3. failures' \in 0..MaxFailures
    BY <1>1, <1>2, ReadsCounted, FailuresCounted
  <1>4. carry' \in [Points -> -Ahead..Expired]
    BY <1>1, <1>2, ULimits DEF UTyped
  <1>5. UTyped'
    BY <1>1, <1>2, <1>3, <1>4 DEF UTyped, Boot, hub, upass, USteps
  <1>6. LedgerTrue'
    BY <1>2 DEF LedgerTrue, Boot, hub
  <1>7. RowsOrdered'
    <2>1. served' = served /\ ustep' = "idle" /\ Low' = 0
      BY DEF Boot, hub, Low
    <2>2. steady' => carry' = served /\ \A p \in Points : served[p] >= 0
      BY <1>2
    <2>3. \A p \in Points : served[p] \in Int
      BY <1>1, ULimits DEF UTyped
    <2> QED
      BY <2>1, <2>2, <2>3 DEF RowsOrdered
  <1> QED
    BY <1>5, <1>6, <1>7 DEF UInv, Boot, hub

LEMMA StartPassKeeps ==
  ASSUME UInv, StartPass
  PROVE  UInv' /\ served' = served
  <1>1. UTyped /\ LedgerTrue /\ RowsOrdered /\ ustep = "idle"
    BY DEF UInv, StartPass
  <1>2. PICK t0 \in {0, -Ahead} :
          /\ IssueTime(t0) /\ t0 # lastAt /\ at' = t0
          /\ steady' = (steady /\ t0 = 0)
    BY DEF StartPass
  <1>3. failures' \in 0..MaxFailures
    BY <1>1, <1>2, FailuresCounted DEF IssueTime
  <1>4. at' \in -Ahead..MaxLag
    BY <1>2, ULimits
  <1>5. UTyped'
    BY <1>1, <1>2, <1>3, <1>4 DEF UTyped, StartPass, hub, USteps
  <1>6. LedgerTrue'
    BY <1>1 DEF LedgerTrue, StartPass, hub
  <1>7. RowsOrdered'
    BY <1>1, <1>2 DEF RowsOrdered, StartPass, hub, Low
  <1> QED
    BY <1>5, <1>6, <1>7 DEF UInv, StartPass, hub

(* What is common to the ends of a run. *)
LEMMA AnsweredKeeps ==
  ASSUME UInv, NEW p \in Points, Answered(p)
  PROVE  /\ UNCHANGED <<hub, uploaded, steady, force, at, lastAt>>
         /\ todo' \subseteq Points /\ ustep = "pass"
         /\ ustep' \in {"publish", "pass"}
         /\ LedgerTrue'
BY DEF Answered, UInv, UTyped, LedgerTrue, hub

LEMMA RunFailsKeeps ==
  ASSUME UInv, NEW p \in Points, RunFails(p)
  PROVE  UInv' /\ served' = served
  <1>1. /\ UNCHANGED <<hub, uploaded, steady, force, at, lastAt>>
        /\ todo' \subseteq Points /\ ustep = "pass"
        /\ ustep' \in {"publish", "pass"}
        /\ LedgerTrue'
    BY AnsweredKeeps DEF RunFails
  <1>2. local' \in [Points -> 0..NoCkpt]
    <2>1. Marched(Found(p, TRUE)) \in 0..Decade
      BY RunLeavesCheckpoint DEF UInv
    <2>2. 0..Decade \subseteq 0..NoCkpt
      BY ULimits
    <2>3. Marched(Found(p, TRUE)) \in 0..NoCkpt
      BY <2>1, <2>2
    <2> QED
      BY <2>3 DEF RunFails, UInv, UTyped
  <1>3. failures' \in 0..MaxFailures
    BY FailuresCounted DEF UInv, RunFails
  <1>4. UTyped'
    BY <1>1, <1>2, <1>3 DEF RunFails, UInv, UTyped, hub, USteps
  <1>5. RowsOrdered'
    BY <1>1, OrderKept DEF RunFails, hub, USteps
  <1> QED
    BY <1>1, <1>4, <1>5 DEF UInv, hub

LEMMA RunRoutedKeeps ==
  ASSUME UInv, NEW p \in Points, RunRouted(p)
  PROVE  UInv' /\ served' = served
  <1>0. UTyped /\ LedgerTrue /\ RowsOrdered
    BY DEF UInv
  <1>1. /\ UNCHANGED <<hub, uploaded, steady, force, at, lastAt>>
        /\ todo' \subseteq Points /\ ustep = "pass"
        /\ ustep' \in {"publish", "pass"}
        /\ LedgerTrue'
    BY AnsweredKeeps DEF RunRouted
  <1>2. PICK fetched \in BOOLEAN, packed \in BOOLEAN :
          /\ local' = [local EXCEPT ![p] = Marched(Found(p, fetched))]
          /\ pending' = IF packed /\ Wanted(p)
                        THEN Append(pending,
                                    [point |-> p, ckpt |-> local'[p]])
                        ELSE pending
          /\ IF fetched /\ packed THEN NoFailure ELSE Failure(1)
    BY DEF RunRouted
  <1>3. Marched(Found(p, fetched)) \in 0..Decade
    BY <1>0, RunLeavesCheckpoint
  <1>4. local' \in [Points -> 0..NoCkpt] /\ local'[p] \in 0..Decade
    BY <1>0, <1>2, <1>3, ULimits DEF UTyped
  <1>5. pending' \in Seq(RowsBundle)
    <2>1. [point |-> p, ckpt |-> local'[p]] \in RowsBundle
      BY <1>4 DEF RowsBundle
    <2>2. Append(pending, [point |-> p, ckpt |-> local'[p]]) \in Seq(RowsBundle)
      BY <1>0, <2>1, AppendProperties DEF UTyped
    <2> QED
      BY <1>0, <1>2, <2>2 DEF UTyped
  <1>6. failures' \in 0..MaxFailures
    BY <1>0, <1>2, FailuresCounted
  <1>7. carry' = [carry EXCEPT ![p] = at] /\ at \in -Ahead..Expired
    BY <1>0, ULimits DEF RunRouted, UTyped
  <1>8. UTyped'
    BY <1>0, <1>1, <1>4, <1>5, <1>6, <1>7 DEF RunRouted, UTyped, hub, USteps
  <1>9. RowsOrdered'
    <2>1. Low' = at /\ Low = at
      BY <1>1 DEF Low
    <2>2. at \in Int /\ \A q \in Points : /\ carry[q] \in Int
                                          /\ served[q] \in Int
      BY <1>0, ULimits DEF UTyped
    <2>3. carry \in [Points -> -Ahead..Expired]
      BY <1>0 DEF UTyped
    <2>4. ASSUME steady', NEW q \in Points
          PROVE  at <= carry'[q] /\ carry'[q] <= served'[q]
      <3>1. at <= carry[q] /\ carry[q] <= served[q]
        BY <1>0, <1>1, <2>1, <2>4 DEF RowsOrdered
      <3>2. carry'[q] \in {at, carry[q]} /\ served' = served
        BY <1>1, <1>7, <2>3 DEF hub
      <3> QED
        BY <2>2, <3>1, <3>2
    <2> QED
      BY <1>0, <1>1, <2>1, <2>4 DEF RowsOrdered
  <1> QED
    BY <1>1, <1>8, <1>9 DEF UInv, hub

LEMMA RunFullKeeps ==
  ASSUME UInv, NEW p \in Points, RunFull(p)
  PROVE  UInv' /\ served' = served
  <1>1. /\ UNCHANGED <<hub, uploaded, steady, force, at, lastAt>>
        /\ todo' \subseteq Points /\ ustep = "pass"
        /\ ustep' \in {"publish", "pass"}
        /\ LedgerTrue'
    BY AnsweredKeeps DEF RunFull
  <1>2. failures' \in 0..MaxFailures
    BY FailuresCounted DEF UInv, RunFull
  <1>3. UTyped'
    BY <1>1, <1>2 DEF RunFull, UInv, UTyped, hub, USteps
  <1>4. RowsOrdered'
    BY <1>1, OrderKept DEF RunFull, hub, USteps
  <1> QED
    BY <1>1, <1>3, <1>4 DEF UInv, hub

LEMMA RunNoUpstreamKeeps ==
  ASSUME UInv, NEW p \in Points, RunNoUpstream(p)
  PROVE  UInv' /\ served' = served
  <1>1. /\ UNCHANGED <<hub, uploaded, steady, force, at, lastAt>>
        /\ todo' \subseteq Points /\ ustep = "pass"
        /\ ustep' \in {"publish", "pass"}
        /\ LedgerTrue'
    BY AnsweredKeeps DEF RunNoUpstream
  <1>2. failures' \in 0..MaxFailures
    BY FailuresCounted DEF UInv, RunNoUpstream
  <1>3. UTyped'
    BY <1>1, <1>2 DEF RunNoUpstream, UInv, UTyped, hub, USteps
  <1>4. RowsOrdered'
    BY <1>1, OrderKept DEF RunNoUpstream, hub, USteps
  <1> QED
    BY <1>1, <1>3, <1>4 DEF UInv, hub

LEMMA PassAnsweredKeeps ==
  ASSUME UInv, PassAnswered
  PROVE  UInv' /\ served' = served
  <1>1. UTyped' /\ LedgerTrue'
    BY DEF PassAnswered, UInv, UTyped, LedgerTrue, hub, ram, upass, USteps
  <1>2. RowsOrdered'
    BY OrderKept DEF PassAnswered, hub, ram, upass, USteps
  <1> QED
    BY <1>1, <1>2 DEF UInv, PassAnswered, hub

(* A publish puts what is carried on the map, but for what is too old to   *)
(* be served; in a boot that knows what was published, that takes no row   *)
(* off it and puts no older one in a row's place.                          *)
LEMMA PublishKeeps ==
  ASSUME UInv, Publish
  PROVE  /\ UInv'
         /\ \A p \in Points : steady /\ InTime(p) => served'[p] <= served[p]
  <1>0. /\ UTyped /\ LedgerTrue /\ RowsOrdered
        /\ ustep \in {"publish", "lastPublish"}
    BY DEF UInv, Publish
  <1>1. PICK ok \in BOOLEAN, landed \in BOOLEAN :
          /\ Request(ok, landed)
          /\ served' = IF landed THEN ServedNow ELSE served
    BY DEF Publish
  <1>2. failures' \in 0..MaxFailures
    BY <1>0, <1>1, FailuresCounted
  <1>3. /\ Expired = CarryTTL + MaxLag + 1
        /\ CarryTTL \in Nat /\ MaxLag \in Nat /\ Ahead \in Nat
    BY ULimits
  <1>4. ServedNow \in [Points -> -Ahead..Expired]
    BY <1>0, <1>3 DEF ServedNow, UTyped
  <1>5. ustep' \in {"flush", "lastFlush"}
    BY DEF Publish
  <1>6. UTyped'
    BY <1>0, <1>1, <1>2, <1>4, <1>5 DEF Publish, UTyped, ram, USteps
  <1>7. LedgerTrue'
    BY <1>0 DEF Publish, LedgerTrue, ram
  <1>8. ASSUME NEW p \in Points
        PROVE  /\ served[p] \in -Ahead..Expired /\ carry[p] \in -Ahead..Expired
               /\ at \in -Ahead..MaxLag
               /\ steady => at <= carry[p] /\ carry[p] <= served[p]
               /\ served'[p] = served[p] \/ served'[p] =
                    IF Servable(carry[p]) THEN carry[p] ELSE Expired
    BY <1>0, <1>1 DEF RowsOrdered, UTyped, ServedNow, Low
  <1>9. RowsOrdered'
    <2>1. Low' = Low /\ steady' = steady /\ carry' = carry
      BY <1>0, <1>5 DEF Low, Publish, ram
    <2>2. \A p \in Points : steady => carry[p] <= served'[p]
      BY <1>3, <1>8
    <2> QED
      BY <1>0, <1>5, <2>1, <2>2 DEF RowsOrdered
  <1>10. ASSUME NEW p \in Points, steady, InTime(p)
         PROVE  served'[p] <= served[p]
    BY <1>3, <1>8, <1>10 DEF InTime, Servable
  <1> QED
    BY <1>6, <1>7, <1>9, <1>10 DEF UInv

(* Keys enter the ledger with a commit that is known to have landed. *)
LEMMA FlushKeeps ==
  ASSUME UInv, Flush
  PROVE  UInv' /\ served' = served
  <1>0. UTyped /\ LedgerTrue /\ RowsOrdered
    BY DEF UInv
  <1>1. /\ served' = served
        /\ UNCHANGED <<noUpstream, carry, ineligible, steady, local, upass>>
        /\ ustep \in {"flush", "lastFlush"}
        /\ ustep' \in {"list", "lastList"}
    BY DEF Flush
  <1>2. /\ fleet' \in [Points -> 0..NoCkpt] /\ uploaded' \subseteq Points
        /\ pending' \in Seq(RowsBundle) /\ failures' \in 0..MaxFailures
        /\ LedgerTrue'
    <2>1. CASE UNCHANGED <<fleet, uploaded, pending, failures>>
      BY <1>0, <2>1 DEF UTyped, LedgerTrue
    <2>2. CASE \E ok, landed \in BOOLEAN :
                 /\ Request(ok, landed)
                 /\ fleet' = IF landed THEN WithBatch ELSE fleet
                 /\ uploaded' = uploaded \cup Listed(ok)
                 /\ pending' = IF ok THEN <<>> ELSE Kept
      <3>1. PICK ok \in BOOLEAN, landed \in BOOLEAN :
              /\ Request(ok, landed)
              /\ fleet' = IF landed THEN WithBatch ELSE fleet
              /\ uploaded' = uploaded \cup Listed(ok)
              /\ pending' = IF ok THEN <<>> ELSE Kept
        BY <2>2
      <3>2. failures' \in 0..MaxFailures /\ (ok => landed)
        BY <1>0, <3>1, FailuresCounted
      <3>3. /\ WithBatch \in [Points -> 0..NoCkpt]
            /\ \A p \in Points : WithBatch[p] = NoCkpt =>
                 Bundles(p) = {} /\ fleet[p] = NoCkpt
        BY <1>0, BatchOfBundles
      <3>4. fleet' \in [Points -> 0..NoCkpt] /\ uploaded' \subseteq Points
        BY <1>0, <3>1, <3>3 DEF UTyped, Listed
      <3>5. pending' \in Seq(RowsBundle)
        <4>1. CASE Len(pending) > PendingCap
          <5>1. \A i \in 1..PendingCap : pending[i] \in RowsBundle
            BY <1>0, <4>1, LenProperties, ElementOfSeq, ULimits DEF UTyped
          <5>2. SubSeq(pending, 1, PendingCap) \in Seq(RowsBundle)
            BY <5>1, SubSeqProperties, ULimits
          <5> QED
            BY <1>0, <3>1, <5>2, EmptySeq DEF Kept, UTyped
        <4>2. CASE ~(Len(pending) > PendingCap)
          <5>1. Len(pending) <= PendingCap
            BY <1>0, <4>2, LenProperties, ULimits DEF UTyped
          <5> QED
            BY <1>0, <3>1, <5>1, EmptySeq DEF Kept, UTyped
        <4> QED
          BY <4>1, <4>2
      <3>6. LedgerTrue'
        BY <1>0, <3>1, <3>2, <3>3 DEF LedgerTrue, Listed, UTyped
      <3> QED
        BY <3>2, <3>4, <3>5, <3>6
    <2> QED
      BY <2>1, <2>2 DEF Flush
  <1>3. UTyped'
    BY <1>0, <1>1, <1>2 DEF UTyped, upass, USteps
  <1>4. RowsOrdered'
    BY <1>1, OrderKept DEF upass, USteps
  <1> QED
    BY <1>1, <1>2, <1>3, <1>4 DEF UInv

LEMMA SaveListKeeps ==
  ASSUME UInv, SaveList
  PROVE  UInv' /\ served' = served
  <1>0. UTyped
    BY DEF UInv
  <1>1. /\ UNCHANGED <<served, fleet, ram, local, todo, force, at, unpub>>
        /\ ustep \in {"list", "lastList"} /\ ustep' \in {"pass", "idle"}
        /\ lastAt' \in {lastAt, at}
    BY DEF SaveList
  <1>2. noUpstream' \subseteq Points /\ failures' \in 0..MaxFailures
    BY <1>0, FailuresCounted DEF SaveList, UTyped
  <1>3. lastAt' \in -Ahead..(MaxLag + 1)
    BY <1>0, <1>1, ULimits DEF UTyped
  <1>4. UTyped' /\ LedgerTrue'
    BY <1>1, <1>2, <1>3 DEF UInv, UTyped, LedgerTrue, ram, USteps
  <1>5. RowsOrdered'
    BY <1>1, OrderKept DEF ram, USteps
  <1> QED
    BY <1>1, <1>4, <1>5 DEF UInv

LEMMA SpaceRestartsKeeps ==
  ASSUME UInv, SpaceRestarts
  PROVE  UInv' /\ served' = served
  <1>1. /\ Expired \in -Ahead..Expired /\ NoCkpt \in 0..NoCkpt
        /\ 0 \in -Ahead..MaxLag /\ MaxLag + 1 \in -Ahead..(MaxLag + 1)
    BY ULimits
  <1>2. failures' \in 0..MaxFailures
    BY FailuresCounted DEF UInv, SpaceRestarts
  <1>3. pending' \in Seq(RowsBundle)
    BY EmptySeq DEF SpaceRestarts
  <1>4. UTyped'
    BY <1>1, <1>2, <1>3 DEF UInv, UTyped, SpaceRestarts, hub, USteps
  <1> QED
    BY <1>4 DEF UInv, LedgerTrue, RowsOrdered, SpaceRestarts, hub

(* However requests and runs fail, in whatever state the Space restarts:   *)
(* its ledger lists no key that the fleet lacks, and no publish takes a    *)
(* row in time off the map or makes it older, unless the boot could not    *)
(* read what was published or an hour was guessed.                         *)
THEOREM UngaugedIsSound == USpec => UngaugedSound
  <1>1. UInit => UInv
    BY UngaugedInit
  <1> DEFINE Covered == served' # Aged(served, Expired) => \A p \in Points :
                          steady /\ InTime(p) => served'[p] <= served[p]
  <1>2. ASSUME UInv, [UNext]_uvars
        PROVE  UInv' /\ [Covered]_uvars
    <2>0. ASSUME served' = served PROVE Covered
      <3>1. \A p \in Points : served[p] \in Int
        BY <1>2, ULimits DEF UInv, UTyped
      <3> QED
        BY <2>0, <3>1
    <2> DEFINE Goal == UInv' /\ Covered
    <2>1. CASE NewIssue
      BY <1>2, <2>1, NewIssueKeeps
    <2>2. CASE Boot
      BY <1>2, <2>0, <2>2, BootKeeps
    <2>3. CASE StartPass
      BY <1>2, <2>0, <2>3, StartPassKeeps
    <2>4. CASE PassAnswered
      BY <1>2, <2>0, <2>4, PassAnsweredKeeps
    <2>5. CASE Publish
      BY <1>2, <2>5, PublishKeeps
    <2>6. CASE Flush
      BY <1>2, <2>0, <2>6, FlushKeeps
    <2>7. CASE SaveList
      BY <1>2, <2>0, <2>7, SaveListKeeps
    <2>8. CASE SpaceRestarts
      BY <1>2, <2>0, <2>8, SpaceRestartsKeeps
    <2>9. ASSUME NEW p \in Points, RunEnds(p)
          PROVE  Goal
      BY <1>2, <2>0, <2>9, RunFailsKeeps, RunRoutedKeeps, RunFullKeeps,
         RunNoUpstreamKeeps DEF RunEnds
    <2>10. CASE UNCHANGED uvars
      BY <1>2, <2>10 DEF uvars, hub, ram, upass, UInv, UTyped, LedgerTrue,
         RowsOrdered, Low
    <2> QED
      BY <1>2, <2>1, <2>2, <2>3, <2>4, <2>5, <2>6, <2>7, <2>8, <2>9, <2>10
      DEF UNext, SpaceStep
  <1>3. UInv => UTypeOK /\ LedgerTrue
    BY DEF UInv, UTyped, UTypeOK
  <1> QED
    BY <1>1, <1>2, <1>3, PTL DEF USpec, UngaugedSound, CoverageKept

-----------------------------------------------------------------------------
(* The hourly nowcast.                                                     *)

(* What makes a verdict fair from run to run: a streak is never longer     *)
(* than the time since the gauge's last confirmed gap, and of a gauge with *)
(* a streak the state file says whether its last fetched hour was dark.    *)
StreakTrue ==
  \A g \in Stations :
    /\ since[g] <= clean[g]
    /\ since[g] >= 0 => (g \in strike <=> kept[g] \in {"suspect", "gap"})

(* No archived issue is newer than the virtual file. *)
ArchiveBehind == \A a \in arch : a >= vage

NowcastInv ==
  /\ NTypeOK
  /\ StreakTrue /\ ArchiveBehind
  /\ V1Clean /\ HistoryWhole

(* The limits are numbers of hours. *)
LEMMA NowcastLimits ==
  /\ Probation \in Nat /\ Probation > 0
  /\ Week \in Nat /\ Week > 0 /\ NoFile \in Nat /\ NoFile = Week + 1
  /\ Winners \subseteq Stations
BY NowcastAssumption DEF NowcastAssumption, NoFile

(* What a verdict is made of, in the four cases of the code. *)
LEMMA Verdicts ==
  ASSUME NEW g \in Stations, NEW dark, NEW lost,
         NEW streak \in Unknown..Probation,
         NEW health \in {"none", "healthy", "probation", "suspect", "gap"}
  PROVE  LET v == Verdict(g, dark, lost, streak, health)
         IN /\ v.since \in Unknown..Probation
            /\ v.kept \in {"healthy", "probation", "suspect", "gap"}
            /\ v.since >= 0 /\ streak >= 0 => v.since = streak
            /\ v.since >= 0 /\ streak < 0 => v.since = 0 /\ g \notin dark
            /\ g \notin dark => /\ v.since >= 0
                                /\ v.kept \in {"healthy", "probation"}
            /\ g \in dark /\ Excused(g, dark, lost) /\ streak >= 0 =>
                 /\ v.since >= 0
                 /\ v.kept \in {"suspect", "gap"} <=>
                      health \in {"suspect", "gap"}
            /\ g \in dark /\ ~Excused(g, dark, lost) /\ streak >= 0 =>
                 v.since < 0 <=> health \in {"suspect", "gap"}
            /\ g \in dark /\ ~Excused(g, dark, lost) =>
                 v.kept \in {"suspect", "gap"}
            /\ v.shown = "healthy" => g \notin dark /\ streak = Probation
  <1>0. Probation \in Nat /\ Probation > 0
    BY NowcastLimits
  <1>1. CASE g \in dark /\ Excused(g, dark, lost)
    <2>1. Verdict(g, dark, lost, streak, health) =
            [since |-> IF streak = Unknown THEN NoStreak ELSE streak,
             kept |-> StoredExcused(health), shown |-> "suspect"]
      BY <1>1 DEF Verdict
    <2>2. QED
      BY <1>0, <1>1, <2>1 DEF StoredExcused, Unknown, NoStreak
  <1>2. CASE /\ g \in dark /\ ~Excused(g, dark, lost)
             /\ Confirmed(streak, health)
    <2>1. Verdict(g, dark, lost, streak, health) =
            [since |-> NoStreak, kept |-> "gap", shown |-> "gap"]
      BY <1>2 DEF Verdict
    <2>2. QED
      BY <1>0, <1>2, <2>1 DEF Confirmed, Unknown, NoStreak
  <1>3. CASE /\ g \in dark /\ ~Excused(g, dark, lost)
             /\ ~Confirmed(streak, health)
    <2>1. Verdict(g, dark, lost, streak, health) =
            [since |-> streak, kept |-> "suspect", shown |-> "suspect"]
      BY <1>3 DEF Verdict
    <2>2. QED
      BY <1>0, <1>3, <2>1 DEF Confirmed, Unknown, NoStreak
  <1>4. CASE g \notin dark
    <2> DEFINE h == IF Streak(streak) >= Probation THEN "healthy"
                                                   ELSE "probation"
    <2>1. Verdict(g, dark, lost, streak, health) =
            [since |-> Streak(streak), kept |-> h, shown |-> h]
      BY <1>4 DEF Verdict
    <2>2. QED
      BY <1>0, <1>4, <2>1 DEF Streak, Unknown, NoStreak
  <1>5. QED
    BY <1>1, <1>2, <1>3, <1>4

(* The gauged part of a run keeps what is true of the gauges, and ends no  *)
(* streak that was not to end.                                             *)
LEMMA GaugedKeeps ==
  ASSUME NTypeOK, StreakTrue, V1Clean,
         NEW dark, NEW lost, NEW state \in BOOLEAN, NEW table \in BOOLEAN,
         NEW v3 \in BOOLEAN, Gauged(dark, lost, state, table, v3)
  PROVE  /\ since' \in [Stations -> Unknown..Probation]
         /\ kept' \in [Stations -> {"none", "healthy", "probation",
                                    "suspect", "gap"}]
         /\ (dark \subseteq Stations => strike' \subseteq Stations)
         /\ v1' \subseteq Stations /\ pure' \in BOOLEAN
         /\ clean' \in [Stations -> 0..Probation]
         /\ StreakTrue' /\ V1Clean'
         /\ \A g \in Stations : since[g] >= 0 /\ since'[g] < since[g] =>
              clean'[g] = 0
  <1> DEFINE streak(g) == IF state THEN since[g] ELSE Unknown
             health(g) == IF state THEN kept[g] ELSE "none"
             judged == [g \in Stations |->
                          Verdict(g, dark, lost, streak(g), health(g))]
             healthy == {g \in Stations : judged[g].shown = "healthy"}
             fetched == {g \in Stations : ~(g \in dark /\
                                            Excused(g, dark, lost))}
             v(g) == Verdict(g, dark, lost, streak(g), health(g))
  <1>0. Probation \in Nat /\ Probation > 0 /\ Winners \subseteq Stations
    BY NowcastLimits
  <1>1. /\ since' = [g \in Stations |-> judged[g].since]
        /\ kept' = [g \in Stations |-> judged[g].kept]
        /\ v1' = IF ~v3 THEN Stations
                 ELSE IF table THEN healthy \cap Winners ELSE healthy
        /\ pure' = ~v3
        /\ strike' = (strike \ fetched) \cup (dark \cap fetched)
        /\ clean' = [g \in Stations |->
             IF ~state \/ (g \in dark \cap fetched \cap strike) THEN 0
             ELSE clean[g]]
    BY DEF Gauged
  <1>2. /\ since \in [Stations -> Unknown..Probation]
        /\ kept \in [Stations -> {"none", "healthy", "probation", "suspect",
                                  "gap"}]
        /\ clean \in [Stations -> 0..Probation]
        /\ strike \subseteq Stations
    BY DEF NTypeOK
  <1>3. ASSUME NEW g \in Stations
        PROVE  /\ streak(g) \in Unknown..Probation
               /\ health(g) \in {"none", "healthy", "probation", "suspect",
                                 "gap"}
               /\ state => streak(g) = since[g] /\ health(g) = kept[g]
               /\ ~state => streak(g) = Unknown
               /\ since'[g] = v(g).since /\ kept'[g] = v(g).kept
               /\ since[g] \in Unknown..Probation
               /\ clean[g] \in 0..Probation
               /\ g \in strike' <=> IF g \in fetched THEN g \in dark
                                                     ELSE g \in strike
               /\ g \in fetched <=> ~(g \in dark /\ Excused(g, dark, lost))
               /\ clean'[g] =
                    IF ~state \/ (g \in dark \cap fetched \cap strike) THEN 0
                    ELSE clean[g]
    <2>1. streak(g) \in Unknown..Probation
      BY <1>0, <1>2 DEF Unknown
    <2>2. health(g) \in {"none", "healthy", "probation", "suspect", "gap"}
      BY <1>2
    <2>3. since'[g] = v(g).since /\ kept'[g] = v(g).kept
      BY <1>1
    <2>4. g \in strike' <=> IF g \in fetched THEN g \in dark
                                             ELSE g \in strike
      BY <1>1
    <2> QED
      BY <1>1, <1>2, <2>1, <2>2, <2>3, <2>4
  <1> HIDE DEF streak, health
  <1>4. ASSUME NEW g \in Stations
        PROVE  /\ v(g).since \in Unknown..Probation
               /\ v(g).kept \in {"healthy", "probation", "suspect", "gap"}
               /\ v(g).since >= 0 /\ streak(g) >= 0 => v(g).since = streak(g)
               /\ v(g).since >= 0 /\ streak(g) < 0 =>
                    v(g).since = 0 /\ g \notin dark
               /\ g \notin dark => /\ v(g).since >= 0
                                   /\ v(g).kept \in {"healthy", "probation"}
               /\ g \in dark /\ Excused(g, dark, lost) /\ streak(g) >= 0 =>
                    /\ v(g).since >= 0
                    /\ v(g).kept \in {"suspect", "gap"} <=>
                         health(g) \in {"suspect", "gap"}
               /\ g \in dark /\ ~Excused(g, dark, lost) /\ streak(g) >= 0 =>
                    v(g).since < 0 <=> health(g) \in {"suspect", "gap"}
               /\ g \in dark /\ ~Excused(g, dark, lost) =>
                    v(g).kept \in {"suspect", "gap"}
               /\ v(g).shown = "healthy" =>
                    g \notin dark /\ streak(g) = Probation
    BY <1>3, Verdicts
  <1>5. /\ since' \in [Stations -> Unknown..Probation]
        /\ kept' \in [Stations -> {"none", "healthy", "probation",
                                   "suspect", "gap"}]
    <2>1. \A g \in Stations :
            /\ judged[g].since \in Unknown..Probation
            /\ judged[g].kept \in {"none", "healthy", "probation",
                                   "suspect", "gap"}
      BY <1>4
    <2> QED
      BY <1>1, <2>1
  <1>6. clean' \in [Stations -> 0..Probation]
    BY <1>0, <1>1, <1>2
  <1>7. v1' \subseteq Stations /\ pure' \in BOOLEAN
    BY <1>0, <1>1
  <1>8. dark \subseteq Stations => strike' \subseteq Stations
    BY <1>1, <1>2
  <1>9. ASSUME NEW g \in Stations
        PROVE  /\ since'[g] <= clean'[g]
               /\ since'[g] >= 0 =>
                    (g \in strike' <=> kept'[g] \in {"suspect", "gap"})
               /\ since[g] >= 0 /\ since'[g] < since[g] => clean'[g] = 0
    <2> HIDE DEF v, fetched, judged, healthy
    <2>1. /\ since[g] <= clean[g]
          /\ since[g] >= 0 =>
               (g \in strike <=> kept[g] \in {"suspect", "gap"})
      BY DEF StreakTrue
    <2>2. CASE ~state
      BY <1>0, <1>3, <1>4, <2>1, <2>2 DEF Unknown
    <2>3. CASE state /\ since[g] < 0
      BY <1>0, <1>3, <1>4, <2>1, <2>3 DEF Unknown
    <2>4. CASE state /\ since[g] >= 0
      BY <1>0, <1>3, <1>4, <2>1, <2>4 DEF Unknown
    <2> QED
      BY <1>3, <2>2, <2>3, <2>4
  <1>10. StreakTrue'
    BY <1>9 DEF StreakTrue
  <1>11. V1Clean'
    <2>1. SUFFICES ASSUME v3, NEW g \in healthy
                   PROVE  clean'[g] = Probation /\ g \notin strike'
      BY <1>1 DEF V1Clean
    <2>2. g \in Stations /\ v(g).shown = "healthy"
      OBVIOUS
    <2>3. g \notin dark /\ streak(g) = Probation
      BY <1>4, <2>2
    <2>4. state /\ since[g] = Probation
      BY <1>0, <1>3, <2>2, <2>3 DEF Unknown
    <2>5. clean[g] = Probation
      BY <1>0, <1>2, <2>2, <2>4 DEF StreakTrue
    <2> QED
      BY <1>3, <2>2, <2>3, <2>4, <2>5
  <1> QED
    BY <1>5, <1>6, <1>7, <1>8, <1>9, <1>10, <1>11

(* A new virtual file has every archived hour before its own, or counts it *)
(* among the lost; a run without one leaves both.                          *)
LEMMA VirtualKeeps ==
  ASSUME NTypeOK, ArchiveBehind, HistoryWhole, Virtual
  PROVE  /\ vage' \in 0..NoFile /\ arch' \subseteq 0..Week
         /\ vhist' \cup holes' \subseteq 0..(Week - 1)
         /\ ArchiveBehind' /\ HistoryWhole'
  <1>0. /\ Week \in Nat /\ Week > 0 /\ NoFile = Week + 1
        /\ vage \in 0..NoFile /\ arch \subseteq 0..Week
        /\ vhist \cup holes \subseteq 0..(Week - 1)
    BY NowcastLimits DEF NTypeOK
  <1>1. CASE UNCHANGED virtual
    BY <1>0, <1>1 DEF virtual, ArchiveBehind, HistoryWhole
  <1>2. CASE /\ vage' = 0 /\ arch' = arch \cup {0}
             /\ \/ vage # NoFile /\ vhist' = Extended /\ holes' = holes
                \/ \E unseen \in SUBSET Archived :
                     vhist' = Archived \ unseen /\ holes' = unseen
                \/ vhist' = {} /\ holes' = Archived
    <2>1. Archived \subseteq 0..(Week - 1)
      BY <1>0 DEF Archived
    <2>2. Extended \subseteq 0..(Week - 1)
      BY <1>0 DEF Extended
    <2>3. /\ vage' \in 0..NoFile /\ arch' \subseteq 0..Week
          /\ vhist' \cup holes' \subseteq 0..(Week - 1)
      <3>1. 0 \in 0..NoFile /\ 0 \in 0..Week
        BY <1>0
      <3>2. vhist' \subseteq 0..(Week - 1) /\ holes' \subseteq 0..(Week - 1)
        BY <1>0, <1>2, <2>1, <2>2
      <3> QED
        BY <1>0, <1>2, <3>1, <3>2
    <2>4. ArchiveBehind'
      BY <1>0, <1>2 DEF ArchiveBehind
    <2>5. ASSUME NEW a \in arch \cap 1..Week
          PROVE  a - 1 \in vhist' \cup holes'
      <3>1. CASE vhist' = Extended /\ holes' = holes
        <4>1. a >= vage
          BY DEF ArchiveBehind
        <4>2. CASE a > vage
          BY <3>1, <4>2 DEF HistoryWhole, Extended
        <4>3. CASE a = vage
          BY <1>0, <3>1, <4>3 DEF Extended
        <4> QED
          BY <1>0, <4>1, <4>2, <4>3
      <3>2. CASE Archived \subseteq vhist' \cup holes'
        BY <3>2 DEF Archived
      <3> QED
        BY <1>2, <3>1, <3>2
    <2>6. HistoryWhole'
      BY <1>0, <1>2, <2>5 DEF HistoryWhole
    <2> QED
      BY <2>3, <2>4, <2>6
  <1> QED
    BY <1>1, <1>2 DEF Virtual, History

LEMMA NowcastInit == NInit => NowcastInv
  <1> SUFFICES ASSUME NInit PROVE NowcastInv
    OBVIOUS
  <1>0. /\ Probation \in Nat /\ Probation > 0
        /\ Week \in Nat /\ Week > 0 /\ NoFile \in Nat
    BY NowcastLimits
  <1>1. /\ Unknown \in Unknown..Probation /\ 0 \in 0..Probation
        /\ NoFile \in 0..NoFile
    BY <1>0 DEF Unknown
  <1>2. NTypeOK
    BY <1>1 DEF NInit, NTypeOK
  <1>3. StreakTrue
    BY DEF NInit, StreakTrue, Unknown
  <1>4. ArchiveBehind /\ V1Clean /\ HistoryWhole
    BY DEF NInit, ArchiveBehind, V1Clean, HistoryWhole
  <1> QED
    BY <1>2, <1>3, <1>4 DEF NowcastInv

(* An hour later everything is an hour older, within the weeks kept. *)
LEMMA RadarHourKeeps ==
  ASSUME NowcastInv, RadarHour
  PROVE  /\ NowcastInv'
         /\ \A g \in Stations : since[g] >= 0 => since'[g] >= since[g]
  <1>0. /\ Probation \in Nat /\ Probation > 0
        /\ Week \in Nat /\ Week > 0 /\ NoFile \in Nat /\ NoFile = Week + 1
    BY NowcastLimits
  <1>1. /\ since \in [Stations -> Unknown..Probation]
        /\ clean \in [Stations -> 0..Probation]
        /\ issue \in 0..NoFile /\ vage \in 0..NoFile
        /\ vhist \cup holes \subseteq 0..(Week - 1) /\ arch \subseteq 0..Week
    BY DEF NowcastInv, NTypeOK
  <1>2. /\ since' \in [Stations -> Unknown..Probation]
        /\ clean' \in [Stations -> 0..Probation]
    BY <1>0, <1>1 DEF RadarHour, Capped, Unknown
  <1>3. /\ issue' \in 0..NoFile /\ vage' \in 0..NoFile
        /\ vhist' \cup holes' \subseteq 0..(Week - 1)
        /\ arch' \subseteq 0..Week
    BY <1>0, <1>1 DEF RadarHour, Capped, Later
  <1>4. NTypeOK'
    BY <1>2, <1>3 DEF NowcastInv, NTypeOK, RadarHour
  <1>5. ASSUME NEW g \in Stations
        PROVE  /\ since'[g] = IF since[g] < 0 THEN since[g]
                              ELSE Capped(since[g] + 1, Probation)
               /\ clean'[g] = Capped(clean[g] + 1, Probation)
               /\ since[g] \in Unknown..Probation /\ clean[g] \in 0..Probation
               /\ strike' = strike /\ kept' = kept
               /\ v1' = v1 /\ pure' = pure
    BY <1>1 DEF RadarHour
  <1>6. StreakTrue'
    <2>1. ASSUME NEW g \in Stations
          PROVE  /\ since'[g] <= clean'[g]
                 /\ since'[g] >= 0 => since[g] >= 0
      BY <1>0, <1>5 DEF NowcastInv, StreakTrue, Capped, Unknown
    <2> QED
      BY <1>5, <2>1 DEF NowcastInv, StreakTrue
  <1>7. V1Clean'
    <2>1. ASSUME NEW g \in Stations, clean[g] = Probation
          PROVE  clean'[g] = Probation
      BY <1>0, <1>5, <2>1 DEF Capped
    <2>2. v1 \subseteq Stations
      BY DEF NowcastInv, NTypeOK
    <2> QED
      BY <2>1, <2>2 DEF NowcastInv, V1Clean, RadarHour
  <1>8. ArchiveBehind'
    BY <1>0, <1>1 DEF NowcastInv, ArchiveBehind, RadarHour, Later, Capped
  <1>9. HistoryWhole'
    <2> SUFFICES ASSUME NEW b \in arch' \cap 1..Week, b > vage'
                 PROVE  b - 1 \in vhist' \cup holes'
      BY DEF HistoryWhole
    <2>1. PICK a \in arch : b = a + 1
      BY DEF RadarHour, Later
    <2>2. a \in 0..(Week - 1)
      BY <1>0, <1>1, <2>1
    <2>3. a > vage
      BY <1>0, <1>1, <2>1, <2>2 DEF RadarHour, Capped
    <2>4. a \in 1..Week
      BY <1>0, <1>1, <2>2, <2>3
    <2>5. a - 1 \in vhist \cup holes
      BY <2>3, <2>4 DEF NowcastInv, HistoryWhole
    <2>6. (a - 1) + 1 = a /\ a \in 0..(Week - 1)
      BY <1>0, <2>2
    <2> QED
      BY <2>1, <2>5, <2>6 DEF RadarHour, Later
  <1>10. ASSUME NEW g \in Stations, since[g] >= 0
         PROVE  since'[g] >= since[g]
    BY <1>0, <1>5, <1>10 DEF Capped
  <1> QED
    BY <1>4, <1>6, <1>7, <1>8, <1>9, <1>10 DEF NowcastInv

LEMMA RunKeeps ==
  ASSUME NowcastInv, Run
  PROVE  /\ NowcastInv'
         /\ \A g \in Stations : since[g] >= 0 /\ since'[g] < since[g] =>
              clean'[g] = 0
  <1>1. /\ NTypeOK /\ StreakTrue /\ ArchiveBehind
        /\ V1Clean /\ HistoryWhole
    BY DEF NowcastInv
  <1>a. PICK lost \in SUBSET {Chunk(g) : g \in Stations}, state \in BOOLEAN :
          \E quiet \in SUBSET {g \in Stations : Chunk(g) \notin lost} :
          LET dark == {g \in Stations : Chunk(g) \in lost} \cup quiet
          IN \/ \E table \in BOOLEAN :
                  Gauged(dark, lost, state, table, TRUE) /\ Virtual
             \/ Gauged(dark, lost, state, TRUE, FALSE) /\ UNCHANGED virtual
    BY DEF Run
  <1>2. PICK quiet \in SUBSET {g \in Stations : Chunk(g) \notin lost} :
          LET dark == {g \in Stations : Chunk(g) \in lost} \cup quiet
          IN \/ \E table \in BOOLEAN :
                  Gauged(dark, lost, state, table, TRUE) /\ Virtual
             \/ Gauged(dark, lost, state, TRUE, FALSE) /\ UNCHANGED virtual
    BY <1>a
  <1> DEFINE dark == {g \in Stations : Chunk(g) \in lost} \cup quiet
  <1>3. dark \subseteq Stations
    OBVIOUS
  <1>4. PICK table \in BOOLEAN, v3 \in BOOLEAN :
          Gauged(dark, lost, state, table, v3)
    BY <1>2
  <1>5. Virtual
    BY <1>2 DEF Virtual
  <1> HIDE DEF dark
  <1>6. issue' \in 0..NoFile
    BY NowcastLimits DEF Run
  <1>7. /\ since' \in [Stations -> Unknown..Probation]
        /\ kept' \in [Stations -> {"none", "healthy", "probation",
                                   "suspect", "gap"}]
        /\ strike' \subseteq Stations
        /\ v1' \subseteq Stations /\ pure' \in BOOLEAN
        /\ clean' \in [Stations -> 0..Probation]
        /\ StreakTrue' /\ V1Clean'
        /\ \A g \in Stations : since[g] >= 0 /\ since'[g] < since[g] =>
             clean'[g] = 0
    BY <1>1, <1>3, <1>4, GaugedKeeps
  <1>8. /\ vage' \in 0..NoFile /\ arch' \subseteq 0..Week
        /\ vhist' \cup holes' \subseteq 0..(Week - 1)
        /\ ArchiveBehind' /\ HistoryWhole'
    BY <1>1, <1>5, VirtualKeeps
  <1>9. NTypeOK'
    BY <1>6, <1>7, <1>8 DEF NTypeOK
  <1> QED
    BY <1>7, <1>8, <1>9 DEF NowcastInv

(* However long observations fail, files are unseenable and runs stop: no  *)
(* gauge loses a streak but for two dark hours of its own or a lost state  *)
(* file, v1 is shown only after a clean streak, and the week of analyses   *)
(* misses no archived hour that could be read.                             *)
THEOREM NowcastIsSound == NSpec => NowcastSound
  <1>1. NInit => NowcastInv
    BY NowcastInit
  <1>2. ASSUME NowcastInv, [NNext]_nvars
        PROVE  /\ NowcastInv'
               /\ [\A g \in Stations : since[g] >= 0 /\ since'[g] < since[g]
                     => clean'[g] = 0]_nvars
    <2>1. CASE RadarHour
      <3>1. /\ NowcastInv'
            /\ \A g \in Stations : since[g] >= 0 => since'[g] >= since[g]
        BY <1>2, <2>1, RadarHourKeeps
      <3>2. ASSUME NEW g \in Stations
            PROVE  since[g] \in Int /\ since'[g] \in Int
        BY <1>2, <3>1, NowcastLimits DEF NowcastInv, NTypeOK, Unknown
      <3>3. \A g \in Stations : ~(since[g] >= 0 /\ since'[g] < since[g])
        BY <3>1, <3>2
      <3> QED
        BY <3>1, <3>3
    <2>2. CASE Run
      BY <1>2, <2>2, RunKeeps
    <2>3. CASE UNCHANGED nvars
      BY <1>2, <2>3 DEF nvars, gauged, virtual, NowcastInv, NTypeOK,
         StreakTrue, ArchiveBehind, V1Clean, HistoryWhole
    <2> QED
      BY <1>2, <2>1, <2>2, <2>3 DEF NNext
  <1>3. NowcastInv => V1Clean /\ HistoryWhole
    BY DEF NowcastInv
  <1> QED
    BY <1>1, <1>2, <1>3, PTL DEF NSpec, NowcastSound, StreakFair

-----------------------------------------------------------------------------
(* The fleet's passes.                                                     *)

USE FleetAssumption

Records == [cuts : Cuts \cup {None}, have : SUBSET Nat, revs : SUBSET Revs]
TaskPlaces == {"none", "stamp", "drop", "plan", "chunk", "ef5", "clean", "end"}
Tasks == [at : TaskPlaces, chunk : Nat, cuts : Cuts \cup {None}, tag : Tags]
Disks == [stamp : SUBSET Revs, states : SUBSET Revs, recs : [Tags -> Records]]

FleetTyped ==
    /\ world \in [main : Revs, tag : Tags, local : Tags]
    /\ host \in [kind : Hosts, code : Revs, at : {"off", "up", "pass"},
                 todo : SUBSET Outlets]
    /\ task \in [Outlets -> Tasks]
    /\ workdir \in [Outlets -> Disks]
    /\ results \in [Outlets -> Records]

\* No outlet is run outside a pass, twice in one, or once it is uploaded.
OncePerPass ==
    /\ host.at # "pass" => \A o \in Outlets : task[o].at = "none"
    /\ \A o \in Outlets : task[o].at # "none" => o \notin host.todo
    /\ \A o \in Outlets : results[o] # Blank =>
          o \notin host.todo /\ task[o].at \in {"none", "clean", "end"}

\* All work on the disk for o is of these revisions.
Of(o, revs) == /\ workdir[o].states \subseteq revs
               /\ \A t \in Tags : workdir[o].recs[t].revs \subseteq revs

\* What a stamp on a VM's disk vouches for; a run works under its own.
Stamped ==
    OnVM => \A o \in Outlets :
        /\ workdir[o].stamp # {} => Of(o, workdir[o].stamp)
        /\ task[o].at \in {"plan", "chunk", "ef5"}
              => workdir[o].stamp = {host.code}
        /\ task[o].at = "drop" => workdir[o].states = {}

\* A Space's disk holds what its own code computed, and goes with it.
OfItsCode ==
    ~OnVM => \A o \in Outlets :
        Of(o, IF host.at = "off" THEN {} ELSE {host.code})

\* A record with rows has a revision, and after the first chunk the record
\* that the run will upload has rows.
HasRows ==
    \A o \in Outlets :
        /\ \A t \in Tags : workdir[o].recs[t].cuts # None
                             => workdir[o].recs[t].revs # {}
        /\ task[o].at \in {"stamp", "drop", "plan"} => task[o].chunk = 1
        /\ task[o].at \in {"chunk", "ef5"} =>
              /\ task[o].cuts \in Cuts
              /\ task[o].chunk > 1 => workdir[o].recs[task[o].tag].revs # {}

OfOneCode == \A o \in Outlets : results[o] # Blank =>
                 \E r \in Revs : results[o].revs = {r}

FleetInv == /\ FleetTyped /\ OncePerPass /\ Stamped /\ OfItsCode /\ HasRows
            /\ OfOneCode /\ SiblingKept

-----------------------------------------------------------------------------
LEMMA BlankTyped == Blank \in Records /\ Blank.revs = {} /\ Blank.cuts = None
  BY DEF Blank, Records, None

LEMMA IdleTyped ==
    Idle \in Tasks /\ Idle.at = "none" /\ Idle.chunk = 1
  BY DEF Idle, Tasks, TaskPlaces, Tags, None

LEMMA EmptyTyped ==
    /\ Empty \in Disks /\ Empty.stamp = {} /\ Empty.states = {}
    /\ \A t \in Tags : Empty.recs[t] = Blank
  BY BlankTyped DEF Empty, Disks

\* What save_record leaves: a record with rows, of the revisions before and
\* the one that computed the chunk.
LEMMA WithRows ==
    ASSUME NEW rec \in Records, rec.cuts # None => rec.revs # {},
           NEW cuts \in Cuts, NEW n \in Nat, NEW rev \in Revs
    PROVE  LET new == With(rec, cuts, n, rev) IN
              /\ new \in Records
              /\ new.cuts # None /\ new.revs # {}
              /\ new.revs \subseteq rec.revs \cup {rev}
  BY DEF With, Records, Cuts, None

\* A step of the worker of o leaves the other outlets alone.
LEMMA GoesTyped ==
    ASSUME FleetTyped, NEW o \in Outlets, NEW loc \in TaskPlaces, Goes(o, loc)
    PROVE  /\ task' \in [Outlets -> Tasks]
           /\ task'[o] = [task[o] EXCEPT !.at = loc]
           /\ task'[o].at = loc /\ task'[o].cuts = task[o].cuts
           /\ task'[o].chunk = task[o].chunk /\ task'[o].tag = task[o].tag
           /\ \A p \in Outlets \ {o} : task'[p] = task[p]
  BY DEF Goes, FleetTyped, Tasks, TaskPlaces

LEMMA InitFleetInv == FleetInit => FleetInv
  <1> SUFFICES ASSUME FleetInit PROVE FleetInv
    OBVIOUS
  <1>1. FleetTyped
    BY IdleTyped, EmptyTyped, BlankTyped
       DEF FleetInit, FleetTyped, Revs, Tags
  <1>2. /\ host.at = "off" /\ host.todo = {}
        /\ \A o \in Outlets : task[o].at = "none" /\ results[o] = Blank
    BY IdleTyped DEF FleetInit
  <1>3. \A o \in Outlets :
           /\ workdir[o].states = {} /\ workdir[o].stamp = {}
           /\ \A t \in Tags : workdir[o].recs[t] = Blank
    BY EmptyTyped DEF FleetInit
  <1>4. OncePerPass /\ OfOneCode /\ SiblingKept
    BY <1>2 DEF OncePerPass, OfOneCode, SiblingKept
  <1>5. Stamped /\ OfItsCode /\ HasRows
    BY <1>2, <1>3, BlankTyped DEF Stamped, OfItsCode, HasRows, Of
  <1>6. QED
    BY <1>1, <1>4, <1>5 DEF FleetInv

-----------------------------------------------------------------------------
(* The host and the world.                                                 *)

LEMMA WorldKeepsInv ==
    ASSUME FleetInv, Pushed \/ Calibrated PROVE FleetInv'
  <1>1. world' \in [main : Revs, tag : Tags, local : Tags]
    BY DEF Pushed, Calibrated, FleetInv, FleetTyped, Revs, Tags
  <1>2. UNCHANGED <<host, task, workdir, stores, results>>
    BY DEF Pushed, Calibrated
  <1>3. QED
    BY <1>1, <1>2
       DEF FleetInv, FleetTyped, OncePerPass, Stamped, OfItsCode, HasRows,
           OfOneCode,
           SiblingKept, Of, OnVM

\* The pool is gone; a Space that is killed takes its disk along.
LEMMA KilledKeepsInv ==
    ASSUME FleetInv, Killed \/ PoolBreaks PROVE FleetInv'
  <1>1. /\ host'.kind = host.kind /\ host'.code = host.code
        /\ host'.at \in {"off", "up"} /\ host'.todo = {}
        /\ task' = [o \in Outlets |-> Idle] /\ results' = results
        /\ host' \in [kind : Hosts, code : Revs, at : {"off", "up", "pass"},
                      todo : SUBSET Outlets]
    BY DEF Killed, PoolBreaks, FleetInv, FleetTyped
  <1>2. \A o \in Outlets : task'[o] \in Tasks /\ task'[o].at = "none"
    BY <1>1, IdleTyped
  <1>3. \/ workdir' = workdir /\ world' = world
        \/ /\ workdir' = [o \in Outlets |-> Empty]
           /\ world' = [world EXCEPT !.local = 0]
    BY DEF Killed, PoolBreaks
  <1>4. FleetTyped'
    <2>1. world' \in [main : Revs, tag : Tags, local : Tags]
      BY <1>3 DEF FleetInv, FleetTyped, Tags
    <2>2. workdir' \in [Outlets -> Disks]
      BY <1>3, EmptyTyped DEF FleetInv, FleetTyped
    <2>3. task' \in [Outlets -> Tasks]
      BY <1>1, IdleTyped
    <2>4. QED
      BY <1>1, <2>1, <2>2, <2>3 DEF FleetInv, FleetTyped
  <1>5. OncePerPass' /\ OfOneCode' /\ SiblingKept'
    BY <1>1, <1>2 DEF FleetInv, OncePerPass, OfOneCode, SiblingKept
  <1>6. CASE workdir' = [o \in Outlets |-> Empty]
    <2>1. \A o \in Outlets :
             /\ workdir'[o].states = {} /\ workdir'[o].stamp = {}
             /\ \A t \in Tags : workdir'[o].recs[t] = Blank
      BY <1>6, EmptyTyped
    <2>2. Stamped' /\ OfItsCode' /\ HasRows'
      BY <1>2, <2>1, BlankTyped DEF Stamped, OfItsCode, HasRows, Of
    <2>3. QED
      BY <1>4, <1>5, <2>2 DEF FleetInv
  <1>7. CASE /\ workdir' = workdir
             /\ (OnVM \/ (host.at # "off" /\ host'.at # "off"))
    <2>1. Stamped' /\ HasRows'
      BY <1>1, <1>2, <1>7 DEF FleetInv, Stamped, HasRows, Of, OnVM
    <2>2. OfItsCode'
      BY <1>1, <1>7 DEF FleetInv, OfItsCode, Of, OnVM
    <2>3. QED
      BY <1>4, <1>5, <2>1, <2>2 DEF FleetInv
  <1>8. CASE Killed
    <2>1. OnVM => workdir' = workdir
      BY <1>8 DEF Killed
    <2>2. ~OnVM => workdir' = [o \in Outlets |-> Empty]
      BY <1>8 DEF Killed
    <2>3. QED
      BY <1>6, <1>7, <2>1, <2>2
  <1>9. CASE PoolBreaks
    <2>1. host.at = "pass" /\ workdir' = workdir
      BY <1>9 DEF PoolBreaks
    <2>2. ~OnVM => host'.at = "up"
      BY <1>9 DEF PoolBreaks, FleetInv, FleetTyped
    <2>3. QED
      BY <1>7, <2>1, <2>2
  <1>10. QED
    BY <1>8, <1>9

\* The host boots new code only once its pool is gone.
LEMMA HostKeepsInv ==
    ASSUME FleetInv, HostStep \/ ListingFails PROVE FleetInv'
  <1>1. /\ UNCHANGED <<world, task, workdir, stores, results>>
        /\ host'.kind = host.kind
        /\ \/ host'.code = host.code
           \/ host.at = "off" /\ host'.code \in Revs
        /\ host' \in [kind : Hosts, code : Revs, at : {"off", "up", "pass"},
                      todo : SUBSET Outlets]
    BY ZenonT(40) DEF HostStep, Boots, PassStarts, PassEnds, ListingFails,
                    NextPass, FleetInv, FleetTyped
  <1>2. FleetTyped' /\ OfOneCode' /\ SiblingKept' /\ HasRows'
    BY <1>1 DEF FleetInv, FleetTyped, OfOneCode, SiblingKept, HasRows
  <1>3. OncePerPass'
    <2>1. CASE PassStarts
      BY <1>1, <2>1 DEF PassStarts, Landed, FleetInv, OncePerPass, FleetTyped
    <2>2. CASE Boots \/ PassEnds \/ ListingFails
      BY <1>1, <2>2 DEF Boots, PassEnds, Busy, ListingFails, NextPass,
                        FleetInv, OncePerPass, FleetTyped
    <2>3. QED
      BY <2>1, <2>2 DEF HostStep
  <1>4. Stamped'
    BY <1>1 DEF FleetInv, Stamped, OncePerPass, OnVM, Of
  <1>5. OfItsCode'
    BY <1>1 DEF HostStep, Boots, PassStarts, PassEnds, ListingFails, NextPass,
                FleetInv, OfItsCode, OnVM, Of, FleetTyped
  <1>6. QED
    BY <1>2, <1>3, <1>4, <1>5 DEF FleetInv

-----------------------------------------------------------------------------
(* The worker of one outlet.                                               *)

\* A step that only moves the worker of o on, to a place where less is
\* known of the disk.
LEMMA MoveKeepsInv ==
    ASSUME FleetInv, NEW o \in Outlets, NEW loc \in TaskPlaces,
           Goes(o, loc), task[o].at # "none", loc # "none",
           loc \in {"plan", "chunk", "ef5", "stamp", "drop"} => 
              loc = "ef5" /\ task[o].at = "chunk" /\ Extent(o) \in stores',
           stores \subseteq stores', UNCHANGED <<world, host, workdir, results>>
    PROVE  FleetInv'
  <1>1. /\ task' \in [Outlets -> Tasks] /\ task'[o].at = loc
        /\ task'[o].cuts = task[o].cuts /\ task'[o].chunk = task[o].chunk
        /\ task'[o].tag = task[o].tag
        /\ \A p \in Outlets \ {o} : task'[p] = task[p]
    BY GoesTyped DEF FleetInv
  <1>2. \/ loc = "ef5" /\ task[o].at = "chunk" /\ Extent(o) \in stores'
        \/ loc \in {"clean", "end"}
    BY DEF TaskPlaces
  <1>3. FleetTyped' /\ OfOneCode'
    BY <1>1 DEF FleetInv, FleetTyped, OfOneCode
  <1>4. OncePerPass'
    BY <1>1, <1>2 DEF FleetInv, OncePerPass
  <1>5. HasRows'
    BY <1>1, <1>2 DEF FleetInv, HasRows
  <1>6. Stamped'
    BY <1>1, <1>2 DEF FleetInv, Stamped, OnVM, Of
  <1>7. OfItsCode' /\ SiblingKept'
    BY <1>1, <1>2 DEF FleetInv, OfItsCode, SiblingKept, OnVM, Of
  <1>8. QED
    BY <1>3, <1>4, <1>5, <1>6, <1>7 DEF FleetInv

LEMMA TakeKeepsInv ==
    ASSUME FleetInv, NEW o \in Outlets, Take(o) PROVE FleetInv'
  <1>1. /\ UNCHANGED <<world, workdir, stores, results>>
        /\ host' = [host EXCEPT !.todo = @ \ {o}]
        /\ task' = [task EXCEPT ![o] = [Idle EXCEPT !.at = "stamp"]]
        /\ host.at = "pass" /\ o \in host.todo
    BY DEF Take
  <1>2. /\ task' \in [Outlets -> Tasks] /\ task'[o].at = "stamp"
        /\ task'[o].chunk = 1
        /\ \A p \in Outlets \ {o} : task'[p] = task[p]
    BY <1>1, IdleTyped DEF FleetInv, FleetTyped, Tasks, TaskPlaces
  <1>3. FleetTyped'
    BY <1>1, <1>2 DEF FleetInv, FleetTyped
  <1>4. OncePerPass'
    BY <1>1, <1>2 DEF FleetInv, FleetTyped, OncePerPass
  <1>5. OfOneCode' /\ SiblingKept' /\ HasRows'
    BY <1>1, <1>2 DEF FleetInv, OfOneCode, SiblingKept, HasRows
  <1>6. Stamped' /\ OfItsCode'
    BY <1>1, <1>2 DEF FleetInv, FleetTyped, Stamped, OfItsCode, OnVM, Of
  <1>7. QED
    BY <1>3, <1>4, <1>5, <1>6 DEF FleetInv

\* A commit that lands brings a bundle of one revision.
LEMMA BundleOfOneCode ==
    ASSUME FleetInv, NEW o \in Outlets, AtEnd(o)
    PROVE  /\ Bundle(o) \in Records
           /\ \E r \in Revs : Bundle(o).revs = {r}
  <1> DEFINE rec == workdir[o].recs[task[o].tag]
  <1>1. /\ rec \in Records /\ workdir[o].states \subseteq Revs
        /\ task[o].tag \in Tags /\ task[o].chunk > 1
        /\ task[o].at = "chunk" /\ host.code \in Revs
    BY DEF AtEnd, FleetInv, FleetTyped, Tasks, Disks
  <1>2. rec.revs # {}
    BY <1>1 DEF FleetInv, HasRows
  <1>3. Of(o, {host.code})
    <2>1. CASE OnVM
      BY <1>1, <2>1 DEF FleetInv, Stamped
    <2>2. CASE ~OnVM
      <3>1. host.at = "pass"
        BY <1>1 DEF FleetInv, OncePerPass
      <3>2. QED
        BY <2>2, <3>1 DEF FleetInv, OfItsCode
    <2>3. QED
      BY <2>1, <2>2
  <1>4. rec.revs \cup workdir[o].states = {host.code}
    BY <1>1, <1>2, <1>3 DEF Of
  <1>5. QED
    BY <1>1, <1>4 DEF Bundle, Records

LEMMA UploadKeepsInv ==
    ASSUME FleetInv, NEW o \in Outlets, Uploaded(o) \/ UploadFails(o)
    PROVE  FleetInv'
  <1>1. PICK loc \in {"clean", "end"} : Goes(o, loc)
    BY DEF Uploaded, UploadFails
  <1>2. /\ UNCHANGED <<world, host, workdir, stores>> /\ AtEnd(o)
        /\ results' \in {results, [results EXCEPT ![o] = Bundle(o)]}
    BY DEF Uploaded, UploadFails
  <1>3. /\ task' \in [Outlets -> Tasks] /\ task'[o].at = loc
        /\ \A p \in Outlets \ {o} : task'[p] = task[p]
        /\ task[o].at = "chunk"
    BY <1>1, <1>2, GoesTyped DEF TaskPlaces, FleetInv, AtEnd
  <1>4. FleetTyped'
    BY <1>2, <1>3, BundleOfOneCode DEF FleetInv, FleetTyped
  <1>5. OfOneCode'
    BY <1>2, BundleOfOneCode DEF FleetInv, FleetTyped, OfOneCode
  <1>6. OncePerPass'
    BY <1>2, <1>3 DEF FleetInv, FleetTyped, OncePerPass
  <1>7. SiblingKept' /\ HasRows'
    BY <1>2, <1>3 DEF FleetInv, SiblingKept, HasRows
  <1>8. Stamped' /\ OfItsCode'
    BY <1>2, <1>3 DEF FleetInv, Stamped, OfItsCode, OnVM, Of
  <1>9. QED
    BY <1>4, <1>5, <1>6, <1>7, <1>8 DEF FleetInv

LEMMA EndedKeepsInv ==
    ASSUME FleetInv, NEW o \in Outlets, Ended(o) PROVE FleetInv'
  <1>1. /\ UNCHANGED <<world, host, workdir, results>>
        /\ task' = [task EXCEPT ![o] = Idle] /\ task[o].at = "end"
        /\ stores' = IF OnVM /\ ~Shared(o) THEN stores \ {Extent(o)}
                     ELSE stores
    BY DEF Ended
  <1>2. /\ task' \in [Outlets -> Tasks] /\ task'[o].at = "none"
        /\ \A p \in Outlets \ {o} : task'[p] = task[p]
    BY <1>1, IdleTyped DEF FleetInv, FleetTyped
  <1>3. FleetTyped' /\ OfOneCode'
    BY <1>1, <1>2 DEF FleetInv, FleetTyped, OfOneCode
  <1>4. OncePerPass' /\ HasRows'
    BY <1>1, <1>2 DEF FleetInv, OncePerPass, HasRows
  <1>5. Stamped' /\ OfItsCode'
    BY <1>1, <1>2 DEF FleetInv, Stamped, OfItsCode, OnVM, Of
  <1>6. SiblingKept'
    BY <1>1, <1>2 DEF FleetInv, SiblingKept, Shared
  <1>7. QED
    BY <1>3, <1>4, <1>5, <1>6 DEF FleetInv

-----------------------------------------------------------------------------
(* The disk of one outlet.                                                 *)

\* A step of the worker of o that changes its own disk keeps the invariant
\* when it keeps what is known of that disk.
LEMMA DiskKeepsInv ==
    ASSUME FleetInv, NEW o \in Outlets, NEW d \in Disks,
           NEW loc \in TaskPlaces \ {"none", "ef5"},
           workdir' = [workdir EXCEPT ![o] = d], Goes(o, loc),
           task[o].at # "none",
           results[o] # Blank => loc \in {"clean", "end"},
           loc = "chunk" => task[o].at = "chunk",
           loc \in {"stamp", "drop", "plan"} => task[o].at \in {"stamp",
           "drop"},
           d.states \subseteq workdir[o].states,
           \A t \in Tags : d.recs[t] \in {workdir[o].recs[t], Blank},
           loc = "chunk" => d.recs = workdir[o].recs,
           OnVM => /\ d.stamp # {} =>
                        /\ d.states \subseteq d.stamp
                        /\ \A t \in Tags : d.recs[t].revs \subseteq d.stamp
                   /\ loc \in {"plan", "chunk"} => d.stamp = {host.code}
                   /\ loc = "drop" => d.states = {},
           UNCHANGED <<world, host, stores, results>>
    PROVE  FleetInv'
  <1>1. /\ workdir' \in [Outlets -> Disks] /\ workdir'[o] = d
        /\ \A p \in Outlets \ {o} : workdir'[p] = workdir[p]
    BY DEF FleetInv, FleetTyped
  <1>2. /\ task' \in [Outlets -> Tasks] /\ task'[o].at = loc
        /\ task'[o].cuts = task[o].cuts /\ task'[o].chunk = task[o].chunk
        /\ task'[o].tag = task[o].tag
        /\ \A p \in Outlets \ {o} : task'[p] = task[p]
    BY GoesTyped DEF FleetInv
  <1>3. FleetTyped' /\ OfOneCode' /\ SiblingKept'
    BY <1>1, <1>2 DEF FleetInv, FleetTyped, OfOneCode, SiblingKept
  <1>4. OncePerPass'
    BY <1>2 DEF FleetInv, OncePerPass
  <1>5. HasRows'
    <2>1. \A p \in Outlets \ {o} :
             workdir'[p] = workdir[p] /\ task'[p] = task[p]
      BY <1>1, <1>2
    <2>2. \A t \in Tags : d.recs[t].cuts # None => d.recs[t].revs # {}
      BY BlankTyped DEF FleetInv, HasRows
    <2>3. loc = "chunk" => /\ task[o].cuts \in Cuts
                           /\ task[o].chunk > 1
                                => d.recs[task[o].tag].revs # {}
      BY DEF FleetInv, HasRows
    <2>4. loc \in {"stamp", "drop", "plan"} => task[o].chunk = 1
      BY DEF FleetInv, HasRows
    <2>5. QED
      BY SMTT(30), <1>1, <1>2, <2>1, <2>2, <2>3, <2>4 DEF FleetInv, HasRows
  <1>6. Stamped'
    BY <1>1, <1>2 DEF FleetInv, Stamped, OnVM, Of
  <1>7. OfItsCode'
    BY <1>1, BlankTyped DEF FleetInv, OfItsCode, OnVM, Of
  <1>8. QED
    BY <1>3, <1>4, <1>5, <1>6, <1>7 DEF FleetInv

\* The stamp on a VM, before a run.
LEMMA StampKeepsInv ==
    ASSUME FleetInv, NEW o \in Outlets,
           \/ StampKept(o) \/ StatesDropped(o) \/ RecordDropped(o)
           \/ Restamped(o)
    PROVE  FleetInv'
  <1> DEFINE d == workdir'[o]
  <1>0. /\ workdir[o] \in Disks /\ task[o].at \in {"stamp", "drop"}
        /\ results[o] = Blank /\ host.code \in Revs
        /\ UNCHANGED <<world, host, stores, results>>
    BY DEF FleetInv, FleetTyped, OncePerPass, StampKept, StatesDropped,
           RecordDropped, Restamped
  <1>1. CASE StampKept(o)
    <2>1. CASE ~OnVM
      <3>1. workdir' = [workdir EXCEPT ![o] = workdir[o]]
        BY <1>1, <2>1 DEF StampKept, FleetInv, FleetTyped
      <3>2. QED
        BY <1>0, <1>1, <2>1, <3>1, DiskKeepsInv DEF StampKept, TaskPlaces
    <2>2. CASE OnVM
      <3> DEFINE e == [workdir[o] EXCEPT !.stamp = {host.code}]
      <3>1. /\ workdir' = [workdir EXCEPT ![o] = e] /\ e \in Disks
            /\ e.states = workdir[o].states /\ e.recs = workdir[o].recs
            /\ e.stamp = {host.code}
        BY <1>0, <1>1, <2>2 DEF StampKept, FleetInv, FleetTyped, Disks
      <3>2. Of(o, {host.code})
        BY <1>0, <1>1, <2>2, BlankTyped
           DEF StampKept, Suspect, Partial, FleetInv, Stamped, Of
      <3>3. QED
        BY <1>0, <1>1, <2>2, <3>1, <3>2, DiskKeepsInv DEF StampKept,
                                                          TaskPlaces, Of
    <2>3. QED
      BY <2>1, <2>2
  <1>2. CASE StatesDropped(o)
    <2> DEFINE e == [workdir[o] EXCEPT !.stamp = {}, !.states = {}]
    <2>1. /\ workdir' = [workdir EXCEPT ![o] = e] /\ e \in Disks
          /\ e.states = {} /\ e.recs = workdir[o].recs /\ e.stamp = {}
      BY <1>0, <1>2 DEF StatesDropped, FleetInv, FleetTyped, Disks
    <2>2. QED
      BY <1>0, <1>2, <2>1, DiskKeepsInv DEF StatesDropped, TaskPlaces
  <1>3. CASE RecordDropped(o)
    <2>1. PICK t \in Tags : workdir' = [workdir EXCEPT ![o].recs[t] = Blank]
      BY <1>3 DEF RecordDropped, Partial
    <2> DEFINE e == [workdir[o] EXCEPT !.recs[t] = Blank]
    <2>2. /\ workdir' = [workdir EXCEPT ![o] = e] /\ e \in Disks
          /\ e.states = workdir[o].states /\ e.stamp = workdir[o].stamp
          /\ \A u \in Tags : e.recs[u] = IF u = t THEN Blank
                                          ELSE workdir[o].recs[u]
      BY <1>0, <2>1, BlankTyped DEF FleetInv, FleetTyped, Disks
    <2>3. task[o].at = "drop" /\ Goes(o, "drop")
      BY <1>3 DEF RecordDropped, Goes, FleetInv, FleetTyped, Tasks
    <2>4. OnVM => /\ e.states = {}
                  /\ e.stamp # {} =>
                       \A u \in Tags : e.recs[u].revs \subseteq e.stamp
      BY <2>2, <2>3, BlankTyped DEF FleetInv, Stamped, Of
    <2> HIDE DEF e
    <2>5. /\ e.states \subseteq workdir[o].states
          /\ \A u \in Tags : e.recs[u] \in {workdir[o].recs[u], Blank}
          /\ OnVM /\ e.stamp # {} => e.states \subseteq e.stamp
      BY <2>2, <2>4
    <2>6. QED
      BY <1>0, <2>2, <2>3, <2>4, <2>5, DiskKeepsInv DEF TaskPlaces
  <1>4. CASE Restamped(o)
    <2> DEFINE e == [workdir[o] EXCEPT !.stamp = {host.code}]
    <2>1. /\ workdir' = [workdir EXCEPT ![o] = e] /\ e \in Disks
          /\ e.states = workdir[o].states /\ e.recs = workdir[o].recs
          /\ e.stamp = {host.code}
      BY <1>0, <1>4 DEF Restamped, FleetInv, FleetTyped, Disks
    <2>2. OnVM => e.states = {} /\ \A t \in Tags : e.recs[t].revs = {}
      BY <1>4, <2>1, BlankTyped
         DEF Restamped, Partial, FleetInv, Stamped
    <2>3. QED
      BY <1>0, <1>4, <2>1, <2>2, DiskKeepsInv DEF Restamped, TaskPlaces
  <1>5. QED
    BY <1>1, <1>2, <1>3, <1>4

\* The cut set, the clip, a chunk that fails.
LEMMA PlanKeepsInv ==
    ASSUME FleetInv, NEW o \in Outlets,
           Planned(o) \/ Clipped(o) \/ ChunkFails(o)
    PROVE  FleetInv'
  <1>1. CASE Clipped(o) \/ ChunkFails(o)
    BY <1>1, MoveKeepsInv DEF Clipped, ChunkFails, TaskPlaces
  <1>2. CASE Planned(o)
    <2>1. PICK c \in Cuts :
             task' = [task EXCEPT ![o].at = "chunk", ![o].cuts = c]
      BY <1>2 DEF Planned
    <2>2. /\ UNCHANGED <<world, host, workdir, stores, results>>
          /\ task[o].at = "plan"
      BY <1>2 DEF Planned
    <2>3. /\ task' \in [Outlets -> Tasks] /\ task'[o].at = "chunk"
          /\ task'[o].cuts = c /\ task'[o].chunk = task[o].chunk
          /\ \A p \in Outlets \ {o} : task'[p] = task[p]
      <3> DEFINE t == [task[o] EXCEPT !.at = "chunk", !.cuts = c]
      <3>1. task \in [Outlets -> Tasks] /\ task' = [task EXCEPT ![o] = t]
        BY <2>1 DEF FleetInv, FleetTyped
      <3>2. t \in Tasks /\ t.at = "chunk" /\ t.cuts = c
            /\ t.chunk = task[o].chunk
        BY <3>1 DEF Tasks, TaskPlaces
      <3> HIDE DEF t
      <3>3. QED
        BY <3>1, <3>2
    <2>4. FleetTyped' /\ OfOneCode' /\ SiblingKept'
      BY <2>2, <2>3 DEF FleetInv, FleetTyped, OfOneCode, SiblingKept
    <2>5. OncePerPass'
      BY <2>2, <2>3 DEF FleetInv, OncePerPass
    <2>6. HasRows'
      BY <2>2, <2>3 DEF FleetInv, HasRows
    <2>7. Stamped' /\ OfItsCode'
      BY <2>2, <2>3 DEF FleetInv, Stamped, OfItsCode, OnVM, Of
    <2>8. QED
      BY <2>4, <2>5, <2>6, <2>7 DEF FleetInv
  <1>3. QED
    BY <1>1, <1>2

\* A chunk: the record gains a row of this code, or had it, and a state
\* comes with new rows only.
LEMMA ChunkKeepsInv ==
    ASSUME FleetInv, NEW o \in Outlets, ChunkDone(o)
    PROVE  FleetInv'
  <1> DEFINE rec(t) == workdir[o].recs[t]
             new(t) == With(rec(t), task[o].cuts, task[o].chunk, host.code)
             d(t) == [workdir[o] EXCEPT !.recs[t] = new(t),
                        !.states = @ \cup IF new(t) = rec(t) THEN {}
                                          ELSE {host.code}]
             k(t) == [task[o] EXCEPT !.at = "chunk", !.chunk = @ + 1,
                                     !.tag = t]
  <1>1. /\ UNCHANGED <<host, stores, results>> /\ task[o].at = "ef5"
        /\ workdir[o] \in Disks /\ task[o] \in Tasks
        /\ task[o].cuts \in Cuts /\ task[o].chunk \in Nat
        /\ host.code \in Revs /\ results[o] = Blank
        /\ world.local \in Tags /\ world.tag \in Tags
    BY DEF ChunkDone, FleetInv, FleetTyped, Tasks, HasRows, OncePerPass
  <1>2. PICK t \in {world.local, world.tag} :
           /\ world' = [world EXCEPT !.local = t]
           /\ workdir' = [workdir EXCEPT ![o] = d(t)]
           /\ task' = [task EXCEPT ![o] = k(t)]
    <2>1. PICK t \in {world.local, world.tag} :
             /\ world' = [world EXCEPT !.local = t]
             /\ workdir' = [workdir EXCEPT ![o].recs[t] = new(t),
                            ![o].states = @ \cup IF new(t) = rec(t) THEN {}
                                                 ELSE {host.code}]
             /\ task' = [task EXCEPT ![o].at = "chunk", ![o].chunk = @ + 1,
                                     ![o].tag = t]
      BY DEF ChunkDone
    <2> HIDE DEF new
    <2>2. workdir' = [workdir EXCEPT ![o] = d(t)]
      BY <1>1, <2>1 DEF FleetInv, FleetTyped, Disks
    <2>3. task' = [task EXCEPT ![o] = k(t)]
      BY <1>1, <2>1 DEF FleetInv, FleetTyped, Tasks
    <2>4. QED
      BY <2>1, <2>2, <2>3
  <1>2a. t \in Tags /\ rec(t) \in Records
    BY <1>1 DEF Disks
  <1>3. /\ new(t) \in Records /\ new(t).cuts # None /\ new(t).revs # {}
        /\ new(t).revs \subseteq rec(t).revs \cup {host.code}
    BY <1>1, <1>2a, WithRows DEF FleetInv, HasRows
  <1>4. /\ d(t) \in Disks /\ d(t).stamp = workdir[o].stamp
        /\ d(t).states \subseteq workdir[o].states \cup {host.code}
        /\ d(t).recs[t] = new(t)
        /\ \A u \in Tags \ {t} : d(t).recs[u] = rec(u)
    <2> HIDE DEF new
    <2>1. QED
      BY <1>1, <1>2a, <1>3 DEF Disks
  <1>5. k(t) \in Tasks /\ k(t).at = "chunk" /\ k(t).tag = t
        /\ k(t).cuts = task[o].cuts
    <2> DEFINE k1 == [task[o] EXCEPT !.at = "chunk"]
               k2 == [k1 EXCEPT !.chunk = task[o].chunk + 1]
    <2>1. k1 \in Tasks /\ k1.at = "chunk" /\ k1.cuts = task[o].cuts
      BY <1>1 DEF Tasks, TaskPlaces
    <2> HIDE DEF k1
    <2>2. k2 \in Tasks /\ k2.at = "chunk" /\ k2.cuts = task[o].cuts
      BY <1>1, <2>1 DEF Tasks
    <2>3. k(t) = [k2 EXCEPT !.tag = t]
      BY DEF k1
    <2> HIDE DEF k, k2
    <2>4. QED
      BY <1>2a, <2>2, <2>3 DEF Tasks
  <1>6. /\ workdir' \in [Outlets -> Disks] /\ workdir'[o] = d(t)
        /\ task' \in [Outlets -> Tasks] /\ task'[o] = k(t)
        /\ \A p \in Outlets \ {o} :
              workdir'[p] = workdir[p] /\ task'[p] = task[p]
    <2> HIDE DEF d, k
    <2>1. QED
      BY <1>2, <1>4, <1>5 DEF FleetInv, FleetTyped
  <1> HIDE DEF d, k, new
  <1>7. FleetTyped'
    BY <1>1, <1>2, <1>2a, <1>6 DEF FleetInv, FleetTyped
  <1>8. OfOneCode' /\ SiblingKept' /\ OncePerPass'
    BY <1>1, <1>5, <1>6 DEF FleetInv, OfOneCode, SiblingKept, OncePerPass
  <1>9. HasRows'
    <2>1. \A u \in Tags : d(t).recs[u].cuts # None => d(t).recs[u].revs # {}
      BY <1>3, <1>4 DEF FleetInv, HasRows
    <2>2. task'[o].at = "chunk" /\ task'[o].cuts \in Cuts
          /\ workdir'[o].recs[task'[o].tag].revs # {}
      BY <1>1, <1>2a, <1>3, <1>4, <1>5, <1>6
    <2>3. ASSUME NEW p \in Outlets \ {o}
          PROVE  workdir'[p] = workdir[p] /\ task'[p] = task[p]
      BY <1>6
    <2>4. workdir'[o].recs = d(t).recs
      BY <1>6
    <2> SUFFICES ASSUME NEW p \in Outlets
                 PROVE  HasRows!(p)'
      BY DEF HasRows
    <2>5. QED
      BY <2>1, <2>2, <2>3, <2>4 DEF FleetInv, HasRows
  <1>10. Of(o, {host.code})
         => /\ d(t).states \subseteq {host.code}
            /\ \A u \in Tags : d(t).recs[u].revs \subseteq {host.code}
    BY <1>3, <1>4 DEF Of
  <1>11. Stamped'
    <2>1. OnVM => workdir[o].stamp = {host.code} /\ Of(o, {host.code})
      BY <1>1 DEF FleetInv, Stamped
    <2>2. QED
      BY <1>1, <1>4, <1>5, <1>6, <1>10, <2>1
         DEF FleetInv, Stamped, OnVM, Of
  <1>12. OfItsCode'
    <2>1. host.at # "off"
      BY <1>1 DEF FleetInv, OncePerPass
    <2>2. QED
      BY <1>1, <1>6, <1>10, <2>1 DEF FleetInv, OfItsCode, OnVM, Of
  <1>13. QED
    BY <1>7, <1>8, <1>9, <1>11, <1>12 DEF FleetInv

\* Once the bundle is up, the states go with the stamp, then the records.
LEMMA CleanKeepsInv ==
    ASSUME FleetInv, NEW o \in Outlets,
           StatesRemoved(o) \/ RecordsRemoved(o)
    PROVE  FleetInv'
  <1>1. /\ workdir[o] \in Disks /\ task[o].at = "clean"
        /\ UNCHANGED <<world, host, stores, results>>
    BY DEF FleetInv, FleetTyped, StatesRemoved, RecordsRemoved
  <1>2. CASE StatesRemoved(o)
    <2> DEFINE e == [workdir[o] EXCEPT !.states = {}, !.stamp = {}]
    <2>1. /\ workdir' = [workdir EXCEPT ![o] = e] /\ e \in Disks
          /\ e.states = {} /\ e.recs = workdir[o].recs /\ e.stamp = {}
      BY <1>1, <1>2 DEF StatesRemoved, FleetInv, FleetTyped, Disks
    <2>2. Goes(o, "clean")
      BY <1>1, <1>2 DEF StatesRemoved, Goes, FleetInv, FleetTyped, Tasks
    <2> HIDE DEF e
    <2>3. QED
      BY <1>1, <2>1, <2>2, DiskKeepsInv DEF TaskPlaces
  <1>3. CASE RecordsRemoved(o)
    <2> DEFINE e == [workdir[o] EXCEPT !.recs = Empty.recs]
    <2>1. /\ workdir' = [workdir EXCEPT ![o] = e] /\ e \in Disks
          /\ e.states = {} /\ e.recs = Empty.recs
          /\ \A t \in Tags : e.recs[t] = Blank
      BY <1>1, <1>3, EmptyTyped DEF RecordsRemoved, FleetInv, FleetTyped, Disks
    <2>2. Goes(o, "end")
      BY <1>3 DEF RecordsRemoved
    <2>3. \A t \in Tags : e.recs[t].revs \subseteq e.stamp
      BY <2>1, BlankTyped
    <2> HIDE DEF e
    <2>4. QED
      BY <1>1, <2>1, <2>2, <2>3, DiskKeepsInv DEF TaskPlaces
  <1>4. QED
    BY <1>2, <1>3

LEMMA StepKeepsInv ==
    FleetInv /\ [FleetNext]_flvars => FleetInv'
  <1> SUFFICES ASSUME FleetInv, [FleetNext]_flvars PROVE FleetInv'
    OBVIOUS
  <1>1. CASE UNCHANGED flvars
    BY <1>1 DEF flvars, FleetInv, FleetTyped, OncePerPass, Stamped, OfItsCode,
                HasRows,
                OfOneCode, SiblingKept, Of, OnVM
  <1>2. ASSUME NEW o \in Outlets, TaskStep(o) PROVE FleetInv'
    BY <1>2, TakeKeepsInv, StampKeepsInv, PlanKeepsInv, ChunkKeepsInv,
       UploadKeepsInv, CleanKeepsInv, EndedKeepsInv DEF TaskStep
  <1>3. CASE FleetFailure
    BY <1>3, HostKeepsInv, PlanKeepsInv, UploadKeepsInv DEF FleetFailure
  <1>4. QED
    BY <1>1, <1>2, <1>3, WorldKeepsInv, KilledKeepsInv, HostKeepsInv
       DEF FleetNext

-----------------------------------------------------------------------------
(* The properties.                                                         *)

\* The commit of an outlet is its last: no step of the fleet changes what
\* is there, or takes the outlet up again.
LEMMA DoneKept ==
    ASSUME FleetInv, FleetNext, NEW o \in Outlets, results[o] # Blank
    PROVE  /\ results'[o] = results[o]
           /\ task[o].at = "none" => task'[o].at = "none"
  <1>1. /\ o \notin host.todo /\ task[o].at \in {"none", "clean", "end"}
        /\ ~AtEnd(o)
    BY DEF FleetInv, OncePerPass, AtEnd
  <1>2. CASE Pushed \/ Calibrated \/ HostStep \/ ListingFails
    BY <1>2 DEF Pushed, Calibrated, HostStep, Boots, PassStarts, PassEnds,
                ListingFails
  <1>3. CASE Killed \/ PoolBreaks
    BY <1>3, IdleTyped DEF Killed, PoolBreaks
  <1>4. ASSUME NEW p \in Outlets, TaskStep(p) \/ ChunkFails(p) \/ UploadFails(p)
        PROVE  /\ results'[o] = results[o]
               /\ task[o].at = "none" => task'[o].at = "none"
    <2>1. results'[o] = results[o]
      BY <1>1, <1>4
         DEF TaskStep, Take, StampKept, StatesDropped, RecordDropped,
             Restamped, Planned, Clipped, ChunkDone, Uploaded, StatesRemoved,
             RecordsRemoved, Ended, ChunkFails, UploadFails, FleetInv,
             FleetTyped
    <2>2. CASE p # o
      <3>1. task'[o] = task[o]
        BY <1>4, <2>2
           DEF TaskStep, Take, StampKept, StatesDropped, RecordDropped,
               Restamped, Planned, Clipped, ChunkDone, Uploaded, StatesRemoved,
               RecordsRemoved, Ended, ChunkFails, UploadFails, Goes, FleetInv,
               FleetTyped
      <3>2. QED
        BY <2>1, <3>1
    <2>3. CASE p = o
      <3>1. task[o].at # "none"
        BY <1>1, <1>4, <2>3
           DEF TaskStep, Take, StampKept, StatesDropped, RecordDropped,
               Restamped, Planned, Clipped, ChunkDone, Uploaded, StatesRemoved,
               RecordsRemoved, Ended, ChunkFails, UploadFails, AtEnd
      <3>2. QED
        BY <2>1, <3>1
    <2>4. QED
      BY <2>2, <2>3
  <1>5. QED
    BY <1>2, <1>3, <1>4 DEF FleetNext, FleetFailure

\* For any kills, failed commits, pushes and calibrations: an uploaded record
\* and its states are of one revision of the code (_check_code_rev, the
\* disk of a Space that goes with its code), no clip store is pruned under a
\* run (_shared_store_keys), and an uploaded outlet is never run or written
\* again (_done_keys).
THEOREM FleetIsSound == FleetSpec => FleetSound
  <1> DEFINE DoneStays == \A o \in Outlets : results[o] # Blank =>
                /\ results'[o] = results[o]
                /\ task[o].at = "none" => task'[o].at = "none"
  <1>1. FleetInit => FleetInv
    BY InitFleetInv
  <1>2. FleetInv /\ [FleetNext]_flvars => FleetInv'
    BY StepKeepsInv
  <1>3. FleetInv => OneRevision /\ SiblingKept
    BY FS_Singleton DEF FleetInv, OfOneCode, OneRevision
  <1>4. FleetInv /\ [FleetNext]_flvars => [DoneStays]_flvars
    BY DoneKept
  <1>5. QED
    BY <1>1, <1>2, <1>3, <1>4, PTL DEF FleetSpec, FleetSound, DoneIsDone

-----------------------------------------------------------------------------
(* A calibration, its recorder, its log and its streams.                   *)

USE CalibrationAssumption

SearchPlaces == {"start", "search", "judge", "save", "push", "pushed", "done",
           "over", "failed", "preempted"}
Searches == [at : SearchPlaces, base : Scores, best : Scores, round : Nat,
             left : Nat, extended : BOOLEAN, llm : Nat, runs : Nat,
             stopped : BOOLEAN, saved : BOOLEAN, cur : Scores]
Statuses == {"complete", "incomplete", "stopped"}
Traces == [over : BOOLEAN, rounds : Nat, up : SUBSET (Statuses \X Nat)]
Logs == [n : Nat, ended : BOOLEAN, done : BOOLEAN]

CalTyped ==
    /\ cal \in [Cals -> Searches]
    /\ trace \in [Cals -> Traces]
    /\ stored \in [{"dash", "autocal"} -> Scores]
    /\ log \in [Users -> Logs]

\* A winner is stored once it was judged worth it and found to beat what it
\* is compared with; a calibration that is saved goes on to its end.
SavedWell(c, k) ==
    /\ k.at = "save" /\ c \in Autos => k.llm > 0
    /\ k.saved =>
          /\ k.at \in {"push", "pushed", "done", "over"}
          /\ c \in Autos => k.llm > 0
          /\ c \in Autos /\ k.base # NoNse => k.best > k.base
    /\ k.at \in {"push", "pushed"} => k.saved
    /\ c \in Autos /\ k.at \in {"done", "over"} /\ k.llm > 0
         /\ k.base # NoNse /\ ~k.saved => k.best <= k.base
    /\ k.stopped => /\ c \in Autos /\ k.llm = 0
                    /\ k.at \in {"judge", "done", "over", "preempted"}

\* What a recorder has uploaded: nothing until it is finished, then one
\* trace at most, with the rounds of the search.
TracedWell(k, t) ==
    /\ t.rounds = k.round
    /\ t.over => k.at \in {"over", "failed", "preempted"}
    /\ t.up # {} =>
          \E status \in Statuses :
             /\ t.up = {<<status, k.round>>} /\ t.over
             /\ status = "complete" => k.at = "over"
             /\ k.stopped => k.at = "preempted"

\* cal_done is logged exactly when the calibration is over.
LoggedWell(k, l) == /\ k.at \in {"over", "failed"} <=> l.ended
                    /\ l.done => l.ended

\* The runs a search has spent and may still spend in its stage.
SpentWell(k) ==
    /\ k.at = "start" => k.runs = 0 /\ k.left = Rounds /\ ~k.extended
    /\ k.extended => k.runs + k.left * ExtK
                         <= 1 + Rounds * K + ExtRounds * ExtK
    /\ ~k.extended => k.runs + k.left * K <= 1 + Rounds * K

CalInv ==
    /\ CalTyped
    /\ \A c \in Cals : /\ SavedWell(c, cal[c]) /\ TracedWell(cal[c], trace[c])
                       /\ SpentWell(cal[c])
    /\ \A c \in Users : LoggedWell(cal[c], log[c])

-----------------------------------------------------------------------------
\* The arithmetic of budgets.
LEMMA Budgets ==
    /\ \A a, b \in Nat : a * b \in Nat
    /\ \A a, b \in Nat : a > 0 => (a - 1) * b = a * b - b
    /\ \A b \in Nat : 0 * b = 0
  OBVIOUS

LEMMA InitCalInv == CalibrationInit => CalInv
  <1> SUFFICES ASSUME CalibrationInit PROVE CalInv
    OBVIOUS
  <1>1. /\ Fresh \in Searches /\ Fresh.at = "start" /\ Fresh.left = Rounds
        /\ Fresh.runs = 0 /\ Fresh.round = 0
        /\ ~Fresh.extended /\ ~Fresh.saved /\ ~Fresh.stopped
    BY DEF Fresh, Searches, SearchPlaces, Scores, NoNse
  <1>2. CalTyped
    BY <1>1 DEF CalibrationInit, CalTyped, Traces, Logs, Scores, NoNse
  <1>3. ASSUME NEW c \in Cals
        PROVE  /\ SavedWell(c, cal[c]) /\ TracedWell(cal[c], trace[c])
               /\ SpentWell(cal[c])
    <2>1. cal[c] = Fresh /\ trace[c] = [over |-> FALSE, rounds |-> 0, up |-> {}]
      BY DEF CalibrationInit
    <2>2. SavedWell(c, Fresh) /\ TracedWell(Fresh, trace[c])
      BY <1>1, <2>1 DEF SavedWell, TracedWell
    <2>3. SpentWell(Fresh)
      BY <1>1, Budgets DEF SpentWell
    <2>4. QED
      BY <2>1, <2>2, <2>3
  <1>4. \A c \in Users : LoggedWell(cal[c], log[c])
    BY <1>1 DEF CalibrationInit, LoggedWell, Cals
  <1>5. QED
    BY <1>2, <1>3, <1>4 DEF CalInv

\* A step of one calibration c, of which k and t are the new search and trace:
\* one that logs something, and one that does not.
LEMMA SilentStep ==
    ASSUME CalInv, NEW c \in Cals, NEW k \in Searches, NEW t \in Traces,
           cal' = [cal EXCEPT ![c] = k], trace' = [trace EXCEPT ![c] = t],
           stored' \in [{"dash", "autocal"} -> Scores],
           log' = log, SavedWell(c, k), TracedWell(k, t), SpentWell(k),
           c \in Users => (k.at \in {"over", "failed"}
                             <=> cal[c].at \in {"over", "failed"})
    PROVE  CalInv'
  <1>1. CalTyped'
    BY DEF CalInv, CalTyped
  <1>2. /\ cal'[c] = k /\ trace'[c] = t
        /\ \A d \in Cals \ {c} : cal'[d] = cal[d] /\ trace'[d] = trace[d]
    BY DEF CalInv, CalTyped
  <1>3. \A d \in Users : LoggedWell(cal'[d], log'[d])
    BY <1>2 DEF CalInv, LoggedWell, Cals
  <1>4. \A d \in Cals : /\ SavedWell(d, cal'[d])
                        /\ TracedWell(cal'[d], trace'[d])
                        /\ SpentWell(cal'[d])
    BY <1>2 DEF CalInv
  <1>5. QED
    BY <1>1, <1>3, <1>4 DEF CalInv

LEMMA YieldingStep ==
    ASSUME CalInv, NEW c \in Cals, NEW k \in Searches, NEW t \in Traces,
           NEW ends \in BOOLEAN, ends <=> k.at \in {"over", "failed"},
           cal' = [cal EXCEPT ![c] = k], trace' = [trace EXCEPT ![c] = t],
           stored' = stored, Yields(c, ends),
           SavedWell(c, k), TracedWell(k, t), SpentWell(k),
           cal[c].at \notin {"over", "failed"}
    PROVE  CalInv'
  <1>1. /\ cal'[c] = k /\ trace'[c] = t
        /\ \A d \in Cals \ {c} : cal'[d] = cal[d] /\ trace'[d] = trace[d]
    BY DEF CalInv, CalTyped
  <1>2. log' \in [Users -> Logs]
    <2>1. CASE c \in Users
      <3> DEFINE l1 == [log[c] EXCEPT !.n = @ + 1]
                 l2 == [l1 EXCEPT !.ended = ends]
      <3>1. log[c] \in Logs /\ log' = [log EXCEPT ![c] = l2]
        BY <2>1 DEF Yields, CalInv, CalTyped
      <3>2. l1 \in Logs
        BY <3>1 DEF Logs
      <3>3. l2 \in Logs
        <4> HIDE DEF l1
        <4>1. QED
          BY <3>2 DEF Logs
      <3>4. QED
        BY <3>1, <3>3 DEF CalInv, CalTyped
    <2>2. CASE c \notin Users
      BY <2>2 DEF Yields, CalInv, CalTyped
    <2>3. QED
      BY <2>1, <2>2
  <1>3. \A d \in Users \ {c} : log'[d] = log[d]
    BY DEF Yields, CalInv, CalTyped
  <1>4. c \in Users => log'[c].ended = ends /\ log'[c].done = log[c].done
    BY DEF Yields, CalInv, CalTyped, Logs
  <1>5. c \in Users => ~log[c].done
    BY DEF CalInv, LoggedWell
  <1>6. \A d \in Users : LoggedWell(cal'[d], log'[d])
    BY <1>1, <1>3, <1>4, <1>5 DEF CalInv, LoggedWell, Cals
  <1>7. \A d \in Cals : /\ SavedWell(d, cal'[d])
                        /\ TracedWell(cal'[d], trace'[d])
                        /\ SpentWell(cal'[d])
    BY <1>1 DEF CalInv
  <1>8. CalTyped'
    BY <1>2 DEF CalInv, CalTyped
  <1>9. QED
    BY <1>6, <1>7, <1>8 DEF CalInv

\* A recorder that is finished while its search is on its way.
LEMMA Finishes ==
    ASSUME CalInv, NEW c \in Cals, NEW status \in Statuses,
           cal[c].at \notin {"over", "failed", "preempted"}
    PROVE  \E t \in Traces :
              /\ Finish(c, status, trace) = [trace EXCEPT ![c] = t]
              /\ t.over /\ t.rounds = cal[c].round
              /\ t.up = IF cal[c].at = "start" THEN {}
                        ELSE {<<status, cal[c].round>>}
  <1>1. /\ trace \in [Cals -> Traces] /\ cal[c] \in Searches
        /\ trace[c] \in Traces
        /\ trace[c].rounds = cal[c].round /\ ~trace[c].over /\ trace[c].up = {}
    BY DEF CalInv, CalTyped, TracedWell
  <1> DEFINE up == IF cal[c].at = "start" THEN {}
                   ELSE {<<status, cal[c].round>>}
             t == [trace[c] EXCEPT !.over = TRUE, !.up = up]
  <1>2. cal[c].round \in Nat
    BY <1>1 DEF Searches
  <1>3. up \in SUBSET (Statuses \X Nat)
    BY <1>2
  <1>4. Finish(c, status, trace) = [trace EXCEPT ![c] = t]
    BY <1>1 DEF Finish, Traces
  <1>5. t \in Traces /\ t.over /\ t.rounds = cal[c].round /\ t.up = up
    <2> HIDE DEF up
    <2>1. QED
      BY <1>1, <1>3 DEF Traces
  <1>6. QED
    BY <1>4, <1>5

-----------------------------------------------------------------------------
(* The search.                                                             *)

LEMMA BaselineStep == ASSUME CalInv, NEW c \in Cals, Baseline(c) PROVE CalInv'
  <1>1. PICK s \in Scores :
           cal' = [cal EXCEPT ![c].at = "search", ![c].base = s,
                              ![c].best = s, ![c].runs = 1]
    BY DEF Baseline
  <1> DEFINE k == [cal[c] EXCEPT !.at = "search", !.base = s, !.best = s,
                                 !.runs = 1]
  <1>2. /\ cal[c].at = "start" /\ cal[c] \in Searches /\ trace[c] \in Traces
        /\ trace' = [trace EXCEPT ![c] = trace[c]] /\ stored' = stored
        /\ Yields(c, FALSE)
    BY DEF Baseline, CalInv, CalTyped
  <1>3. cal' = [cal EXCEPT ![c] = k]
    BY <1>1 DEF CalInv, CalTyped
  <1>4. /\ k \in Searches /\ k.at = "search" /\ k.base = s /\ k.best = s
        /\ k.runs = 1 /\ k.left = cal[c].left /\ k.round = cal[c].round
        /\ k.extended = cal[c].extended /\ k.stopped = cal[c].stopped
        /\ k.saved = cal[c].saved
    BY <1>2 DEF Searches, SearchPlaces
  <1> HIDE DEF k
  <1>5. SavedWell(c, k) /\ TracedWell(k, trace[c])
    BY <1>2, <1>4 DEF CalInv, SavedWell, TracedWell
  <1>6. SpentWell(k)
    BY <1>2, <1>4 DEF CalInv, SpentWell
  <1>7. QED
    BY <1>2, <1>3, <1>4, <1>5, <1>6, YieldingStep

LEMMA RoundStep == ASSUME CalInv, NEW c \in Cals, Round(c) PROVE CalInv'
  <1>1. PICK source \in Sources, best \in cal[c].best..Top :
           cal' = [cal EXCEPT ![c].round = @ + 1, ![c].left = @ - 1,
                      ![c].llm = @ + IF source = "llm" THEN 1 ELSE 0,
                      ![c].runs = @ + Size(c), ![c].best = best]
    BY DEF Round
  <1> DEFINE l == cal[c].llm + (IF source = "llm" THEN 1 ELSE 0)
             k == [cal[c] EXCEPT !.round = @ + 1, !.left = @ - 1, !.llm = l,
                                 !.runs = @ + Size(c), !.best = best]
             t == [trace[c] EXCEPT !.rounds = @ + 1]
  <1>2. /\ cal[c].at = "search" /\ cal[c].left > 0 /\ stored' = stored
        /\ cal[c] \in Searches /\ trace[c] \in Traces
        /\ trace' = [trace EXCEPT ![c] = t] /\ Yields(c, FALSE)
    BY DEF Round, CalInv, CalTyped
  <1>3. cal' = [cal EXCEPT ![c] = k]
    BY <1>1 DEF CalInv, CalTyped
  <1>4. Size(c) \in Nat /\ best \in Scores /\ l \in Nat
        /\ cal[c].left - 1 \in Nat
    BY <1>2 DEF Size, Searches, Scores, NoNse
  <1>5. /\ k \in Searches /\ k.at = "search" /\ k.runs = cal[c].runs + Size(c)
        /\ k.left = cal[c].left - 1 /\ k.round = cal[c].round + 1
        /\ k.extended = cal[c].extended /\ k.stopped = cal[c].stopped
        /\ k.saved = cal[c].saved
    <2> DEFINE r == cal[c].round + 1
               f == cal[c].left - 1
               n == cal[c].runs + Size(c)
    <2>1. r \in Nat /\ f \in Nat /\ n \in Nat
      BY <1>2, <1>4 DEF Searches
    <2>2. k = [cal[c] EXCEPT !.round = r, !.left = f, !.llm = l, !.runs = n,
                             !.best = best]
      OBVIOUS
    <2> HIDE DEF l, r, f, n, k
    <2>3. k \in Searches /\ k.round = r /\ k.left = f /\ k.runs = n
          /\ k.at = cal[c].at /\ k.extended = cal[c].extended
          /\ k.stopped = cal[c].stopped /\ k.saved = cal[c].saved
      BY <1>2, <1>4, <2>1, <2>2 DEF Searches
    <2>4. QED
      BY <1>2, <2>3 DEF r, f, n
  <1>6. /\ t \in Traces /\ t.rounds = trace[c].rounds + 1
        /\ t.over = trace[c].over /\ t.up = trace[c].up
    BY <1>2 DEF Traces
  <1> HIDE DEF k, t, l
  <1>7. ~cal[c].saved /\ ~cal[c].stopped /\ ~trace[c].over /\ trace[c].up = {}
        /\ trace[c].rounds = cal[c].round
    BY <1>2 DEF CalInv, SavedWell, TracedWell
  <1>8. SavedWell(c, k) /\ TracedWell(k, t)
    BY <1>2, <1>5, <1>6, <1>7 DEF SavedWell, TracedWell
  <1>9. SpentWell(k)
    <2>1. /\ cal[c].runs \in Nat /\ cal[c].left \in Nat
          /\ cal[c].left * K \in Nat /\ cal[c].left * ExtK \in Nat
          /\ (cal[c].left - 1) * K = cal[c].left * K - K
          /\ (cal[c].left - 1) * ExtK = cal[c].left * ExtK - ExtK
          /\ Rounds * K \in Nat /\ ExtRounds * ExtK \in Nat
      BY <1>2, Budgets DEF Searches
    <2>2. SpentWell(cal[c])
      BY DEF CalInv
    <2>3. CASE cal[c].extended
      BY <1>2, <1>5, <2>1, <2>2, <2>3 DEF SpentWell, Size
    <2>4. CASE ~cal[c].extended
      BY <1>2, <1>5, <2>1, <2>2, <2>4 DEF SpentWell, Size
    <2>5. QED
      BY <2>3, <2>4
  <1>10. QED
    BY <1>2, <1>3, <1>5, <1>6, <1>8, <1>9, YieldingStep

LEMMA StopsStep == ASSUME CalInv, NEW c \in Cals, Stops(c) PROVE CalInv'
  <1> DEFINE k == [cal[c] EXCEPT !.at = "judge", !.stopped = TRUE]
  <1>1. /\ cal[c].at = "search" /\ c \in Autos /\ cal[c].llm = 0
        /\ cal[c] \in Searches /\ trace[c] \in Traces /\ stored' = stored
        /\ trace' = [trace EXCEPT ![c] = trace[c]] /\ Yields(c, FALSE)
        /\ cal' = [cal EXCEPT ![c] = k]
    BY DEF Stops, Unwanted, OfLoop, CalInv, CalTyped
  <1>2. /\ k \in Searches /\ k.at = "judge" /\ k.stopped
        /\ k.llm = cal[c].llm /\ k.runs = cal[c].runs
        /\ k.left = cal[c].left /\ k.round = cal[c].round
        /\ k.extended = cal[c].extended /\ k.saved = cal[c].saved
    BY <1>1 DEF Searches, SearchPlaces
  <1> HIDE DEF k
  <1>3. ~cal[c].saved /\ ~trace[c].over /\ trace[c].up = {}
        /\ trace[c].rounds = cal[c].round
    BY <1>1 DEF CalInv, SavedWell, TracedWell
  <1>4. SavedWell(c, k) /\ TracedWell(k, trace[c]) /\ SpentWell(k)
    BY <1>1, <1>2, <1>3 DEF CalInv, SavedWell, TracedWell, SpentWell
  <1>5. QED
    BY <1>1, <1>2, <1>4, YieldingStep

LEMMA StageEndsStep == ASSUME CalInv, NEW c \in Cals, StageEnds(c)
                       PROVE  CalInv'
  <1>1. /\ cal[c].at = "search" /\ cal[c].left = 0
        /\ cal[c] \in Searches /\ trace[c] \in Traces
        /\ stored' \in [{"dash", "autocal"} -> Scores] /\ log' = log
        /\ trace' = [trace EXCEPT ![c] = trace[c]]
        /\ ~cal[c].saved /\ ~cal[c].stopped /\ trace[c].up = {}
        /\ ~trace[c].over /\ trace[c].rounds = cal[c].round
        /\ SpentWell(cal[c])
    BY DEF StageEnds, CalInv, CalTyped, SavedWell, TracedWell
  <1>2. CASE StillPoor(c)
    <2> DEFINE k == [cal[c] EXCEPT !.extended = TRUE, !.left = ExtRounds]
    <2>1. cal' = [cal EXCEPT ![c] = k]
      BY <1>2 DEF StageEnds, CalInv, CalTyped
    <2>2. /\ k \in Searches /\ k.at = "search" /\ k.left = ExtRounds
          /\ k.extended /\ k.runs = cal[c].runs /\ k.round = cal[c].round
          /\ ~k.saved /\ ~k.stopped /\ ~cal[c].extended
      BY <1>1, <1>2 DEF Searches, StillPoor
    <2> HIDE DEF k
    <2>3. SavedWell(c, k) /\ TracedWell(k, trace[c])
      BY <1>1, <2>2 DEF SavedWell, TracedWell
    <2>4. cal[c].runs \in Nat /\ cal[c].left * K = 0 /\ Rounds * K \in Nat
          /\ ExtRounds * ExtK \in Nat
      BY <1>1, Budgets DEF Searches
    <2>5. SpentWell(k)
      BY <1>1, <2>2, <2>4 DEF SpentWell
    <2>6. QED
      BY <1>1, <2>1, <2>2, <2>3, <2>5, SilentStep
  <1>3. CASE ~StillPoor(c)
    <2> DEFINE k == [cal[c] EXCEPT !.at = "judge"]
    <2>1. cal' = [cal EXCEPT ![c] = k]
      BY <1>3 DEF StageEnds, CalInv, CalTyped
    <2>2. /\ k \in Searches /\ k.at = "judge" /\ k.left = cal[c].left
          /\ k.extended = cal[c].extended /\ k.runs = cal[c].runs
          /\ k.round = cal[c].round /\ ~k.saved /\ ~k.stopped
      BY <1>1 DEF Searches, SearchPlaces
    <2> HIDE DEF k
    <2>3. SavedWell(c, k) /\ TracedWell(k, trace[c]) /\ SpentWell(k)
      BY <1>1, <2>2 DEF SavedWell, TracedWell, SpentWell
    <2>4. QED
      BY <1>1, <2>1, <2>2, <2>3, SilentStep
  <1>4. QED
    BY <1>2, <1>3

LEMMA RaisesStep == ASSUME CalInv, NEW c \in Cals, Raises(c) PROVE CalInv'
  <1> DEFINE k == [cal[c] EXCEPT !.at = "failed"]
  <1>1. /\ cal[c].at = "start" /\ cal[c] \in Searches /\ stored' = stored
        /\ cal' = [cal EXCEPT ![c] = k] /\ Yields(c, TRUE)
        /\ trace' = Finish(c, "incomplete", trace)
        /\ ~cal[c].saved /\ ~cal[c].stopped /\ SpentWell(cal[c])
    BY DEF Raises, CalInv, CalTyped, SavedWell
  <1>2. PICK t \in Traces : /\ trace' = [trace EXCEPT ![c] = t]
                            /\ t.over /\ t.rounds = cal[c].round /\ t.up = {}
    BY <1>1, Finishes DEF Statuses
  <1>3. /\ k \in Searches /\ k.at = "failed" /\ k.left = cal[c].left
        /\ k.extended = cal[c].extended /\ k.runs = cal[c].runs
        /\ k.round = cal[c].round /\ ~k.saved /\ ~k.stopped
    BY <1>1 DEF Searches, SearchPlaces
  <1> HIDE DEF k
  <1>4. SavedWell(c, k) /\ TracedWell(k, t) /\ SpentWell(k)
    BY <1>1, <1>2, <1>3 DEF SavedWell, TracedWell, SpentWell
  <1>5. QED
    BY <1>1, <1>2, <1>3, <1>4, YieldingStep

-----------------------------------------------------------------------------
(* The end.                                                                *)

LEMMA JudgesStep == ASSUME CalInv, NEW c \in Cals, Judges(c) PROVE CalInv'
  <1>1. /\ cal[c].at = "judge"
        /\ cal[c] \in Searches /\ trace[c] \in Traces
        /\ stored' \in [{"dash", "autocal"} -> Scores] /\ log' = log
        /\ trace' = [trace EXCEPT ![c] = trace[c]]
        /\ ~cal[c].saved /\ trace[c].up = {}
        /\ ~trace[c].over /\ trace[c].rounds = cal[c].round
        /\ SpentWell(cal[c]) /\ SavedWell(c, cal[c])
    BY DEF Judges, CalInv, CalTyped, SavedWell, TracedWell
  <1>2. CASE WorthSaving(c)
    <2> DEFINE s == stored[Store(c)]
               k == [cal[c] EXCEPT !.at = "save", !.cur = s]
    <2>1. cal' = [cal EXCEPT ![c] = k]
      BY <1>2 DEF Judges, CalInv, CalTyped
    <2>2. s \in Scores
      BY DEF CalInv, CalTyped, Store
    <2> HIDE DEF s
    <2>3. /\ k \in Searches /\ k.at = "save" /\ k.left = cal[c].left
          /\ k.extended = cal[c].extended /\ k.runs = cal[c].runs
          /\ k.round = cal[c].round /\ k.llm = cal[c].llm
          /\ ~k.saved /\ k.stopped = cal[c].stopped
      BY <1>1, <2>2 DEF Searches, SearchPlaces
    <2>4. c \in Autos => cal[c].llm > 0
      BY <1>1, <1>2 DEF WorthSaving, OfLoop, Searches
    <2> HIDE DEF k
    <2>5. SavedWell(c, k) /\ TracedWell(k, trace[c]) /\ SpentWell(k)
      BY <1>1, <2>3, <2>4 DEF SavedWell, TracedWell, SpentWell
    <2>6. QED
      BY <1>1, <2>1, <2>3, <2>5, SilentStep
  <1>3. CASE ~WorthSaving(c)
    <2> DEFINE k == [cal[c] EXCEPT !.at = "done"]
    <2>1. cal' = [cal EXCEPT ![c] = k]
      BY <1>3 DEF Judges, CalInv, CalTyped
    <2>2. /\ k \in Searches /\ k.at = "done" /\ k.left = cal[c].left
          /\ k.extended = cal[c].extended /\ k.runs = cal[c].runs
          /\ k.round = cal[c].round /\ k.llm = cal[c].llm
          /\ k.base = cal[c].base /\ k.best = cal[c].best
          /\ ~k.saved /\ k.stopped = cal[c].stopped
      BY <1>1 DEF Searches, SearchPlaces
    <2>3. c \in Autos /\ cal[c].llm > 0 /\ cal[c].base # NoNse
            => cal[c].best <= cal[c].base
      BY <1>1, <1>3 DEF WorthSaving, OfLoop, Searches, Scores, NoNse
    <2> HIDE DEF k
    <2>4. SavedWell(c, k) /\ TracedWell(k, trace[c]) /\ SpentWell(k)
      BY <1>1, <2>2, <2>3 DEF SavedWell, TracedWell, SpentWell
    <2>5. QED
      BY <1>1, <2>1, <2>2, <2>4, SilentStep
  <1>4. QED
    BY <1>2, <1>3

LEMMA SavesStep == ASSUME CalInv, NEW c \in Cals, Saves(c) PROVE CalInv'
  <1>1. /\ cal[c].at = "save" /\ log' = log
        /\ cal[c] \in Searches /\ trace[c] \in Traces
        /\ trace' = [trace EXCEPT ![c] = trace[c]]
        /\ ~cal[c].saved /\ ~cal[c].stopped /\ trace[c].up = {}
        /\ ~trace[c].over /\ trace[c].rounds = cal[c].round
        /\ SpentWell(cal[c]) /\ (c \in Autos => cal[c].llm > 0)
    BY DEF Saves, CalInv, CalTyped, SavedWell, TracedWell
  <1>2. stored' \in [{"dash", "autocal"} -> Scores]
    <2>1. cal[c].best \in Scores
      BY <1>1 DEF Searches
    <2>2. QED
      BY <2>1 DEF Saves, CalInv, CalTyped
  <1>3. CASE Beats(c)
    <2> DEFINE p == IF c \in Autos THEN "push" ELSE "done"
               k == [cal[c] EXCEPT !.saved = TRUE, !.at = p]
    <2>1. cal' = [cal EXCEPT ![c] = k]
      BY <1>3 DEF Saves, OfLoop, CalInv, CalTyped
    <2>2. p \in SearchPlaces /\ p \in {"push", "done"}
      BY DEF SearchPlaces
    <2> HIDE DEF p
    <2>3. /\ k \in Searches /\ k.at = p /\ k.left = cal[c].left
          /\ k.extended = cal[c].extended /\ k.runs = cal[c].runs
          /\ k.round = cal[c].round /\ k.llm = cal[c].llm
          /\ k.base = cal[c].base /\ k.best = cal[c].best
          /\ k.saved /\ ~k.stopped
      BY <1>1, <2>2 DEF Searches
    <2>4. c \in Autos /\ cal[c].base # NoNse => cal[c].best > cal[c].base
      BY <1>3 DEF Beats, OfLoop
    <2> HIDE DEF k
    <2>5. SavedWell(c, k) /\ TracedWell(k, trace[c]) /\ SpentWell(k)
      BY <1>1, <2>2, <2>3, <2>4 DEF SavedWell, TracedWell, SpentWell
    <2>6. QED
      BY <1>1, <1>2, <2>1, <2>2, <2>3, <2>5, SilentStep
  <1>4. CASE ~Beats(c)
    <2> DEFINE k == [cal[c] EXCEPT !.at = "done"]
    <2>1. cal' = [cal EXCEPT ![c] = k]
      BY <1>4 DEF Saves, CalInv, CalTyped
    <2>2. /\ k \in Searches /\ k.at = "done" /\ k.left = cal[c].left
          /\ k.extended = cal[c].extended /\ k.runs = cal[c].runs
          /\ k.round = cal[c].round /\ k.llm = cal[c].llm
          /\ k.base = cal[c].base /\ k.best = cal[c].best
          /\ ~k.saved /\ ~k.stopped
      BY <1>1 DEF Searches, SearchPlaces
    <2>3. c \in Autos /\ cal[c].base # NoNse => cal[c].best <= cal[c].base
      BY <1>1, <1>4 DEF Beats, OfLoop, Searches, Scores, NoNse
    <2> HIDE DEF k
    <2>4. SavedWell(c, k) /\ TracedWell(k, trace[c]) /\ SpentWell(k)
      BY <1>1, <2>2, <2>3 DEF SavedWell, TracedWell, SpentWell
    <2>5. QED
      BY <1>1, <1>2, <2>1, <2>2, <2>4, SilentStep
  <1>5. QED
    BY <1>3, <1>4

LEMMA PushesStep == ASSUME CalInv, NEW c \in Cals, Pushes(c) \/ GoesOn(c)
                  PROVE  CalInv'
  <1> DEFINE p == IF cal[c].at = "push" THEN "pushed" ELSE "done"
             k == [cal[c] EXCEPT !.at = p]
  <1>1. /\ cal[c].at \in {"push", "pushed"} /\ log' = log
        /\ cal[c] \in Searches /\ trace[c] \in Traces
        /\ trace' = [trace EXCEPT ![c] = trace[c]]
        /\ stored' \in [{"dash", "autocal"} -> Scores]
        /\ cal' = [cal EXCEPT ![c] = k]
        /\ ~cal[c].stopped /\ trace[c].up = {}
        /\ ~trace[c].over /\ trace[c].rounds = cal[c].round
        /\ SpentWell(cal[c]) /\ SavedWell(c, cal[c])
    BY DEF Pushes, GoesOn, CalInv, CalTyped, SavedWell, TracedWell
  <1>2. p \in SearchPlaces /\ p \in {"pushed", "done"}
    BY DEF SearchPlaces
  <1> HIDE DEF p
  <1>3. /\ k \in Searches /\ k.at = p /\ k.left = cal[c].left
        /\ k.extended = cal[c].extended /\ k.runs = cal[c].runs
        /\ k.round = cal[c].round /\ k.llm = cal[c].llm
        /\ k.base = cal[c].base /\ k.best = cal[c].best
        /\ k.saved = cal[c].saved /\ ~k.stopped
    BY <1>1, <1>2 DEF Searches
  <1> HIDE DEF k
  <1>4. SavedWell(c, k) /\ TracedWell(k, trace[c]) /\ SpentWell(k)
    BY <1>1, <1>2, <1>3 DEF SavedWell, TracedWell, SpentWell
  <1>5. QED
    BY <1>1, <1>2, <1>3, <1>4, SilentStep

LEMMA DoneStep == ASSUME CalInv, NEW c \in Cals, Done(c) PROVE CalInv'
  <1> DEFINE k == [cal[c] EXCEPT !.at = "over"]
  <1>1. /\ cal[c].at = "done" /\ cal[c] \in Searches /\ trace[c] \in Traces
        /\ stored' = stored /\ cal' = [cal EXCEPT ![c] = k]
        /\ Yields(c, TRUE) /\ trace' = Recorded(c)
        /\ trace[c].up = {} /\ trace[c].rounds = cal[c].round
        /\ SpentWell(cal[c]) /\ SavedWell(c, cal[c])
    BY DEF Done, CalInv, CalTyped, TracedWell
  <1>2. /\ k \in Searches /\ k.at = "over" /\ k.left = cal[c].left
        /\ k.extended = cal[c].extended /\ k.runs = cal[c].runs
        /\ k.round = cal[c].round /\ k.llm = cal[c].llm
        /\ k.base = cal[c].base /\ k.best = cal[c].best
        /\ k.saved = cal[c].saved /\ k.stopped = cal[c].stopped
    BY <1>1 DEF Searches, SearchPlaces
  <1> HIDE DEF k
  <1>3. SavedWell(c, k) /\ SpentWell(k)
    BY <1>1, <1>2 DEF SavedWell, SpentWell
  <1>4. PICK t \in Traces : /\ trace' = [trace EXCEPT ![c] = t]
                            /\ TracedWell(k, t)
    <2>1. CASE cal[c].stopped
      <3> DEFINE t == [trace[c] EXCEPT !.over = TRUE]
      <3>1. trace' = [trace EXCEPT ![c] = t]
        BY <1>1, <2>1 DEF Recorded, Discard, CalInv, CalTyped
      <3>2. t \in Traces /\ t.rounds = trace[c].rounds /\ t.up = trace[c].up
        BY <1>1 DEF Traces
      <3>3. TracedWell(k, t)
        BY <1>1, <1>2, <3>2 DEF TracedWell
      <3>4. QED
        BY <3>1, <3>2, <3>3
    <2>2. CASE ~cal[c].stopped
      <3>1. PICK t \in Traces :
               /\ trace' = [trace EXCEPT ![c] = t]
               /\ t.over /\ t.rounds = cal[c].round
               /\ t.up = {<<"complete", cal[c].round>>}
        BY <1>1, <2>2, Finishes DEF Recorded, Statuses
      <3>2. TracedWell(k, t)
        BY <1>2, <2>2, <3>1 DEF TracedWell, Statuses
      <3>3. QED
        BY <3>1, <3>2
    <2>3. QED
      BY <2>1, <2>2
  <1>5. QED
    BY <1>1, <1>2, <1>3, <1>4, YieldingStep

LEMMA PreemptedStep == ASSUME CalInv, NEW c \in Cals, Preempted(c)
                       PROVE  CalInv'
  <1> DEFINE k == [cal[c] EXCEPT !.at = "preempted"]
  <1>1. /\ cal[c].at \in {"start", "search", "judge"} /\ cal[c] \in Searches
        /\ stored' \in [{"dash", "autocal"} -> Scores] /\ log' = log
        /\ cal' = [cal EXCEPT ![c] = k]
        /\ trace' = Finish(c, "stopped", trace)
        /\ SpentWell(cal[c]) /\ SavedWell(c, cal[c])
    BY DEF Preempted, Preemptable, CalInv, CalTyped
  <1>2. PICK t \in Traces :
           /\ trace' = [trace EXCEPT ![c] = t]
           /\ t.over /\ t.rounds = cal[c].round
           /\ t.up = IF cal[c].at = "start" THEN {}
                     ELSE {<<"stopped", cal[c].round>>}
    BY <1>1, Finishes DEF Statuses
  <1>3. /\ k \in Searches /\ k.at = "preempted" /\ k.left = cal[c].left
        /\ k.extended = cal[c].extended /\ k.runs = cal[c].runs
        /\ k.round = cal[c].round /\ k.llm = cal[c].llm
        /\ k.saved = cal[c].saved /\ k.stopped = cal[c].stopped
    BY <1>1 DEF Searches, SearchPlaces
  <1> HIDE DEF k
  <1>4. SavedWell(c, k) /\ SpentWell(k)
    BY <1>1, <1>3 DEF SavedWell, SpentWell
  <1>5. TracedWell(k, t)
    BY <1>2, <1>3 DEF TracedWell, Statuses
  <1>6. QED
    BY <1>1, <1>2, <1>3, <1>4, <1>5, SilentStep

LEMMA ThreadEndsStep == ASSUME CalInv, NEW c \in Cals, ThreadEnds(c)
                        PROVE  CalInv'
  <1>1. /\ c \in Users /\ cal[c].at \in {"over", "failed"} /\ log[c] \in Logs
        /\ log' = [log EXCEPT ![c].done = TRUE] /\ log[c].ended
        /\ UNCHANGED <<cal, trace, stored>>
    BY DEF ThreadEnds, ThreadDone, CalInv, CalTyped, LoggedWell
  <1>2. /\ log' \in [Users -> Logs] /\ log'[c].ended /\ log'[c].done
        /\ \A d \in Users \ {c} : log'[d] = log[d]
    BY <1>1 DEF CalInv, CalTyped, Logs
  <1>3. \A d \in Users : LoggedWell(cal'[d], log'[d])
    BY <1>1, <1>2 DEF CalInv, LoggedWell
  <1>4. QED
    BY <1>1, <1>2, <1>3 DEF CalInv, CalTyped

-----------------------------------------------------------------------------
LEMMA StepCalInv == CalInv /\ [CalibrationNext]_calVars => CalInv'
  <1> SUFFICES ASSUME CalInv, [CalibrationNext]_calVars PROVE CalInv'
    OBVIOUS
  <1>1. ASSUME UNCHANGED <<cal, trace, stored, log>> PROVE CalInv'
    BY <1>1 DEF CalInv, CalTyped
  <1>2. ASSUME NEW c \in Cals, Search(c) PROVE CalInv'
    BY <1>2, BaselineStep, RoundStep, StopsStep, StageEndsStep, RaisesStep
       DEF Search
  <1>3. ASSUME NEW c \in Cals, End(c) PROVE CalInv'
    BY <1>3, JudgesStep, SavesStep, PushesStep, DoneStep, ThreadEndsStep DEF End
  <1>4. ASSUME NEW c \in Users, NEW w \in Watchers(c), Drain(c, w) \/ Breaks(w)
        PROVE  CalInv'
    BY <1>1, <1>4 DEF Drain, Opens, Sends, NothingNew, Waits, Closes, Moves,
                      Breaks
  <1>5. QED
    BY <1>1, <1>2, <1>3, <1>4, PreemptedStep DEF CalibrationNext, calVars

LEMMA CalInvIsSound == CalInv => CalibrationSound
  <1> SUFFICES ASSUME CalInv PROVE CalibrationSound
    OBVIOUS
  <1>1. LoopSavesSoundly
    BY DEF LoopSavesSoundly, CalInv, SavedWell, Cals
  <1>2. LoopLosesNone
    BY DEF LoopLosesNone, CalInv, SavedWell, Cals
  <1>3. ASSUME NEW c \in Cals
        PROVE  /\ Cardinality(trace[c].up) <= 1
               /\ cal[c].stopped /\ cal[c].at # "preempted" => trace[c].up = {}
               /\ \A u \in trace[c].up :
                     /\ u[1] = "complete" => cal[c].at = "over"
                     /\ u[2] = cal[c].round
    <2>1. TracedWell(cal[c], trace[c])
      BY DEF CalInv
    <2>2. CASE trace[c].up = {}
      BY <2>2, FS_EmptySet
    <2>3. CASE trace[c].up # {}
      <3>1. PICK status \in Statuses :
               /\ trace[c].up = {<<status, cal[c].round>>}
               /\ status = "complete" => cal[c].at = "over"
               /\ cal[c].stopped => cal[c].at = "preempted"
        BY <2>1, <2>3 DEF TracedWell
      <3>2. Cardinality(trace[c].up) = 1
        BY <3>1, FS_Singleton
      <3>3. QED
        BY <3>1, <3>2
    <2>4. QED
      BY <2>2, <2>3
  <1>4. ASSUME NEW c \in Cals
        PROVE  cal[c].runs <= 1 + Rounds * K + ExtRounds * ExtK
    <2>1. /\ cal[c].runs \in Nat /\ cal[c].left * K \in Nat
          /\ cal[c].left * ExtK \in Nat
          /\ Rounds * K \in Nat /\ ExtRounds * ExtK \in Nat
      <3>1. cal[c].runs \in Nat /\ cal[c].left \in Nat
        BY DEF CalInv, CalTyped, Searches
      <3>2. QED
        BY <3>1, Budgets
    <2>2. SpentWell(cal[c]) /\ cal[c].extended \in BOOLEAN
      BY DEF CalInv, CalTyped, Searches
    <2>3. QED
      BY <2>1, <2>2 DEF SpentWell
  <1>5. TracedOnce
    BY <1>3 DEF TracedOnce
  <1>6. LogEnds
    BY <1>4 DEF LogEnds, CalInv, LoggedWell
  <1>7. QED
    BY <1>1, <1>2, <1>5, <1>6 DEF CalibrationSound

(* For any calibrations, budgets and consumers: the loop stores only what  *)
(* the LLM's candidates found and what beats the baseline, a trace is      *)
(* uploaded once at most and says what the calibration did, the log ends   *)
(* with the calibration, and no search runs more than its two budgets      *)
(* (calibrate.py, caljobs.py, autocal_run.calibrate_one, caltrace.py).     *)
THEOREM CalibrationIsSound == CalibrationSpec => []CalibrationSound
  <1>1. CalibrationInit => CalInv
    BY InitCalInv
  <1>2. CalInv /\ [CalibrationNext]_calVars => CalInv'
    BY StepCalInv
  <1>3. CalInv => CalibrationSound
    BY CalInvIsSound
  <1>4. QED
    BY <1>1, <1>2, <1>3, PTL DEF CalibrationSpec
=============================================================================
