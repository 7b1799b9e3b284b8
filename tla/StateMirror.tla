---------------------------- MODULE StateMirror ----------------------------
(***************************************************************************)
(* The private dataset CREST_state and the Spaces that copy it             *)
(* (hf_data/persist.py, hf_data/paramstore.py).  A dashboard Space loses   *)
(* its disk at a restart; it restores the dataset at boot, while it        *)
(* already serves users, and then mirrors its disk to it: files saved      *)
(* since the last pass go up, files that are gone are deleted.  The        *)
(* autocalibration Space runs no mirror: it pushes its parameter records   *)
(* one by one and repeats a push that failed (autocal/autocal_run.py).     *)
(*                                                                         *)
(* A file is the set of saves its content goes back to: every writer of a  *)
(* profile, a result record or a report library reads the local file and   *)
(* adds to it.  The parameter record is replaced by each save and carries  *)
(* the number of that save, its `when'.  {} is a file that does not exist. *)
(* The signature in the manifest is taken for the content: a rewrite of    *)
(* the same size in the same second is left out.                           *)
(***************************************************************************)
EXTENDS Naturals, FiniteSets

CONSTANTS
    Mirrors,        \* Spaces that run server.py
    Autocal,        \* the autocalibration Space
    Papers,         \* files under states, results, users, reports and obs
    Record,         \* the file of one gauge and model under params
    EarlyPosts,     \* POST /api/persist is called before restore has ended
    MaxSaves,       \* bound: saves of any file
    MaxRestarts,    \* bound: restarts
    MaxFaults       \* bound: requests to the Hub that fail

ASSUME StateMirrorAssumption ==
    /\ Autocal \notin Mirrors /\ Record \notin Papers
    /\ EarlyPosts \in BOOLEAN
    /\ MaxSaves \in Nat /\ MaxRestarts \in Nat /\ MaxFaults \in Nat

Spaces == Mirrors \cup {Autocal}
Files == Papers \cup {Record}
Contents == SUBSET (1..MaxSaves)

VARIABLES
    disk,       \* disk[s][f]: the file under CACHE_DIR of s
    manifest,   \* manifest[s][f]: _manifest, the content last synchronised
    repo,       \* repo[f]: the file in CREST_state
    boot,       \* boot[s]: the thread _loop up to the end of restore
    snap,       \* snap[s]: the snapshot restore downloaded
    unread,     \* unread[s]: files of it not yet copied
    pass,       \* pass[s]: the backup that holds _lock
    seen,       \* Spaces that read the remote record within REMOTE_TTL_S
    pushing,    \* what the push under way uploads, {} when there is none
    unpushed,   \* the state "unpushed" of the autocalibration Space
    saves, restarts, faults,    \* counters
    evicted,    \* history: evicted[s], files deleted on s since its boot
    gaps        \* history: gaps[s], files s may hold less of than CREST_state

diskVars == <<disk, manifest, boot, snap, unread, pass>>
recordVars == <<seen, pushing, unpushed>>
historyVars == <<evicted, gaps>>
vars == <<diskVars, repo, recordVars, saves, restarts, faults, historyVars>>

NoFiles == [f \in Files |-> {}]
NoPass == [at |-> "none", expected |-> {}, data |-> NoFiles, gone |-> {}]
Passes == [at : {"none", "scanned", "collected"}, expected : SUBSET Files,
           data : [Files -> Contents], gone : SUBSET Files]

TypeOK ==
    /\ disk \in [Spaces -> [Files -> Contents]]
    /\ manifest \in [Spaces -> [Files -> Contents]]
    /\ repo \in [Files -> Contents]
    /\ boot \in [Spaces -> {"down", "restoring", "up"}]
    /\ snap \in [Spaces -> [Files -> Contents]]
    /\ unread \in [Spaces -> SUBSET Files]
    /\ pass \in [Spaces -> Passes]
    /\ seen \in SUBSET Spaces
    /\ pushing \in Contents /\ unpushed \in BOOLEAN
    /\ saves \in 0..MaxSaves
    /\ restarts \in 0..MaxRestarts /\ faults \in 0..MaxFaults
    /\ evicted \in [Spaces -> SUBSET Files]
    /\ gaps \in [Spaces -> SUBSET Files]

Init ==
    /\ disk = [s \in Spaces |-> NoFiles] /\ manifest = disk
    /\ repo = NoFiles
    /\ boot = [s \in Spaces |-> IF s \in Mirrors THEN "down" ELSE "up"]
    /\ snap = [s \in Spaces |-> NoFiles] /\ unread = [s \in Spaces |-> {}]
    /\ pass = [s \in Spaces |-> NoPass]
    /\ seen = {} /\ pushing = {} /\ unpushed = FALSE
    /\ saves = 0 /\ restarts = 0 /\ faults = 0
    /\ evicted = [s \in Spaces |-> {}]
    /\ gaps = [s \in Spaces |-> Files]

Fault == faults < MaxFaults /\ faults' = faults + 1

-----------------------------------------------------------------------------
(* Boot: the thread _loop restores, and goes on whatever comes of it.      *)

Download(s) ==
    /\ boot[s] = "down"
    /\ boot' = [boot EXCEPT ![s] = "restoring"]
    /\ snap' = [snap EXCEPT ![s] = repo]
    /\ unread' = [unread EXCEPT ![s] = {f \in Files : repo[f] # {}}]
    /\ gaps' = [gaps EXCEPT ![s] = @ \ {f \in Files : repo[f] = {}}]
    /\ UNCHANGED <<disk, manifest, pass, repo, recordVars, saves, restarts,
                   faults, evicted>>

RestoreFails(s) ==
    /\ boot[s] = "down" /\ Fault
    /\ boot' = [boot EXCEPT ![s] = "up"]
    /\ UNCHANGED <<disk, manifest, snap, unread, pass, repo, recordVars,
                   saves, restarts, historyVars>>

\* A local file wins; one that cannot be copied is only counted.
KeepLocal(s, f) ==
    /\ disk[s][f] # {}
    /\ UNCHANGED <<disk, manifest, gaps, faults>>

CopyIn(s, f) ==
    /\ disk[s][f] = {}
    /\ disk' = [disk EXCEPT ![s][f] = snap[s][f]]
    /\ manifest' = [manifest EXCEPT ![s][f] = snap[s][f]]
    /\ gaps' = [gaps EXCEPT ![s] = @ \ {f}]
    /\ UNCHANGED faults

CopyFails(s, f) ==
    /\ disk[s][f] = {} /\ Fault
    /\ UNCHANGED <<disk, manifest, gaps>>

Restore(s, f) ==
    /\ boot[s] = "restoring" /\ f \in unread[s]
    /\ unread' = [unread EXCEPT ![s] = @ \ {f}]
    /\ KeepLocal(s, f) \/ CopyIn(s, f) \/ CopyFails(s, f)
    /\ UNCHANGED <<boot, snap, pass, repo, recordVars, saves, restarts,
                   evicted>>

RestoreEnds(s) ==
    /\ boot[s] = "restoring" /\ unread[s] = {}
    /\ boot' = [boot EXCEPT ![s] = "up"]
    /\ snap' = [snap EXCEPT ![s] = NoFiles]
    /\ UNCHANGED <<disk, manifest, unread, pass, repo, recordVars, saves,
                   restarts, faults, historyVars>>

Restart(s) ==
    /\ restarts < MaxRestarts /\ restarts' = restarts + 1
    /\ disk' = [disk EXCEPT ![s] = NoFiles]
    /\ manifest' = [manifest EXCEPT ![s] = NoFiles]
    /\ boot' = [boot EXCEPT ![s] = IF s \in Mirrors THEN "down" ELSE "up"]
    /\ snap' = [snap EXCEPT ![s] = NoFiles]
    /\ unread' = [unread EXCEPT ![s] = {}]
    /\ pass' = [pass EXCEPT ![s] = NoPass]
    /\ seen' = seen \ {s}
    /\ pushing' = IF s = Autocal THEN {} ELSE pushing
    /\ unpushed' = (unpushed /\ s # Autocal)
    /\ evicted' = [evicted EXCEPT ![s] = {}]
    /\ gaps' = [gaps EXCEPT ![s] = Files]
    /\ UNCHANGED <<repo, saves, faults>>

-----------------------------------------------------------------------------
(* The files of users and runs.                                            *)

Save(s, f) ==
    /\ saves < MaxSaves /\ saves' = saves + 1
    /\ disk' = [disk EXCEPT ![s][f] = @ \cup {saves + 1}]
    /\ UNCHANGED <<manifest, boot, snap, unread, pass, repo, recordVars,
                   restarts, faults, historyVars>>

\* The janitor's caps and a user's delete; parameters are never evicted.
Evict(s, f) ==
    /\ disk[s][f] # {}
    /\ disk' = [disk EXCEPT ![s][f] = {}]
    /\ evicted' = [evicted EXCEPT ![s] = @ \cup {f}]
    /\ UNCHANGED <<manifest, boot, snap, unread, pass, repo, recordVars,
                   saves, restarts, faults, gaps>>

-----------------------------------------------------------------------------
(* backup: from the loop once restore has ended, from POST /api/persist    *)
(* at any time.                                                            *)

Scan(s) ==
    /\ pass[s].at = "none" /\ (boot[s] = "up" \/ EarlyPosts)
    /\ pass' = [pass EXCEPT ![s] =
            [NoPass EXCEPT !.at = "scanned",
                           !.expected = {f \in Files : disk[s][f] # {}}]]
    /\ UNCHANGED <<disk, manifest, boot, snap, unread, repo, recordVars,
                   saves, restarts, faults, historyVars>>

Changed(s) ==
    {f \in pass[s].expected : disk[s][f] \notin {{}, manifest[s][f]}}

\* Slip: a file that did not change is not among the expected ones.
GoneUnchanged(s, listed) == (listed \ Changed(s)) \ {Record}

\* Slip: everything that is not local is an eviction.
GoneAll(s, listed) == listed \ pass[s].expected

\* params/ is append-only across Spaces.
Gone(s, listed) == (listed \ pass[s].expected) \ {Record}

\* The files that changed are read, then the repository is listed; a
\* listing that fails reads as an empty repository.
CollectWith(s, listed) ==
    /\ pass[s].at = "scanned"
    /\ LET data == [f \in Files |-> IF f \in Changed(s) THEN disk[s][f]
                                                        ELSE {}]
           gone == Gone(s, listed)
           some == data # NoFiles \/ gone # {}
       IN pass' = [pass EXCEPT ![s] =
            IF some THEN [at |-> "collected", expected |-> {},
                          data |-> data, gone |-> gone]
                    ELSE NoPass]
    /\ UNCHANGED <<disk, manifest, boot, snap, unread, repo, recordVars,
                   saves, restarts, historyVars>>

Collect(s) ==
    /\ CollectWith(s, {f \in Files : repo[f] # {}})
    /\ UNCHANGED faults

CollectBlind(s) == Fault /\ CollectWith(s, {})

Synced(s) ==
    [f \in Files |-> IF pass[s].data[f] # {} THEN pass[s].data[f]
                                             ELSE manifest[s][f]]

\* create_commit refuses the deletion of a file that is not there.
Commit(s) ==
    /\ pass[s].at = "collected"
    /\ \A f \in pass[s].gone : repo[f] # {}
    /\ repo' = [f \in Files |-> IF f \in pass[s].gone THEN {}
                                ELSE IF pass[s].data[f] # {}
                                     THEN pass[s].data[f] ELSE repo[f]]
    /\ manifest' = [manifest EXCEPT ![s] = Synced(s)]
    /\ pass' = [pass EXCEPT ![s] = NoPass]
    /\ UNCHANGED <<disk, boot, snap, unread, recordVars, saves, restarts,
                   faults, historyVars>>

\* Slip: the manifest is written before the commit.
CommitRefusedNoted(s) ==
    /\ pass[s].at = "collected" /\ Fault
    /\ manifest' = [manifest EXCEPT ![s] = Synced(s)]
    /\ pass' = [pass EXCEPT ![s] = NoPass]
    /\ UNCHANGED <<disk, boot, snap, unread, repo, recordVars, saves,
                   restarts, historyVars>>

CommitRefused(s) ==
    /\ pass[s].at = "collected"
    /\ \/ Fault
       \/ (\E f \in pass[s].gone : repo[f] = {}) /\ UNCHANGED faults
    /\ pass' = [pass EXCEPT ![s] = NoPass]
    /\ UNCHANGED <<disk, manifest, boot, snap, unread, repo, recordVars,
                   saves, restarts, historyVars>>

-----------------------------------------------------------------------------
(* The parameter record.                                                   *)

Newer(a, b) == \E w \in a : \A v \in b : w > v

\* Slip: the remote record is taken whenever there is one.
FetchedAny(s) == IF repo[Record] # {} THEN repo[Record] ELSE disk[s][Record]

\* paramstore.get: what the local file is after it, when the remote record
\* is read at most every REMOTE_TTL_S and wins by its `when'.
Fetched(s) ==
    IF s \notin seen /\ Newer(repo[Record], disk[s][Record])
    THEN repo[Record] ELSE disk[s][Record]

\* A run or a request reads the record; the remote read may fail.
Consult(s) ==
    /\ s \notin seen /\ seen' = seen \cup {s}
    /\ \/ UNCHANGED <<disk, faults>> /\ Fetched(s) = disk[s][Record]
       \/ /\ Fetched(s) # disk[s][Record] /\ UNCHANGED faults
          /\ disk' = [disk EXCEPT ![s][Record] = Fetched(s)]
       \/ Fault /\ UNCHANGED disk
    /\ UNCHANGED <<manifest, boot, snap, unread, pass, repo, pushing,
                   unpushed, saves, restarts, historyVars>>

TtlPasses(s) ==
    /\ s \in seen /\ seen' = seen \ {s}
    /\ UNCHANGED <<diskVars, repo, pushing, unpushed, saves, restarts, faults,
                   historyVars>>

\* maybe_save; on the autocalibration Space the push follows at once, and
\* the next calibration only once this one has come back.
Win(s) ==
    /\ saves < MaxSaves /\ saves' = saves + 1
    /\ s = Autocal => pushing = {}
    /\ seen' = seen \cup {s}
    /\ disk' = [disk EXCEPT ![s][Record] = {saves + 1}]
    /\ pushing' = IF s = Autocal THEN {saves + 1} ELSE pushing
    /\ UNCHANGED <<manifest, boot, snap, unread, pass, repo, unpushed,
                   restarts, faults, historyVars>>

PushLands ==
    /\ pushing # {}
    /\ repo' = [repo EXCEPT ![Record] = pushing]
    /\ pushing' = {} /\ unpushed' = FALSE
    /\ UNCHANGED <<diskVars, seen, saves, restarts, faults, historyVars>>

PushFails ==
    /\ pushing # {} /\ Fault
    /\ pushing' = {} /\ unpushed' = TRUE
    /\ UNCHANGED <<diskVars, repo, seen, saves, restarts, historyVars>>

\* Slip: a push that failed is not repeated.
RepushNever == FALSE /\ UNCHANGED vars

\* _push_unpushed: paramstore.get, then the local file goes up.
Repush ==
    /\ unpushed /\ pushing = {}
    /\ seen' = seen \cup {Autocal}
    /\ disk' = [disk EXCEPT ![Autocal][Record] = Fetched(Autocal)]
    /\ pushing' = disk'[Autocal][Record]
    /\ UNCHANGED <<manifest, boot, snap, unread, pass, repo, unpushed, saves,
                   restarts, faults, historyVars>>

-----------------------------------------------------------------------------
Next ==
    \/ \E s \in Mirrors :
        \/ Download(s) \/ RestoreFails(s) \/ RestoreEnds(s)
        \/ Scan(s) \/ Collect(s) \/ CollectBlind(s)
        \/ Commit(s) \/ CommitRefused(s)
        \/ \E f \in Files : Restore(s, f)
        \/ \E f \in Papers : Save(s, f) \/ Evict(s, f)
    \/ \E s \in Spaces : Restart(s) \/ Consult(s) \/ TtlPasses(s) \/ Win(s)
    \/ PushLands \/ PushFails \/ Repush

Spec == Init /\ [][Next]_vars

BootStep(s) ==
    Download(s) \/ RestoreEnds(s) \/ \E f \in Files : Restore(s, f)
PassStep(s) == (boot[s] = "up" /\ Scan(s)) \/ Collect(s) \/ Commit(s)
PushStep == PushLands \/ Repush

\* The loop of a mirror wakes every EVERY_S, that of the autocalibration
\* Space every poll; requests come to an end.
Fairness ==
    /\ \A s \in Mirrors : WF_vars(BootStep(s)) /\ WF_vars(PassStep(s))
    /\ WF_vars(PushStep)

FairSpec == Spec /\ Fairness

-----------------------------------------------------------------------------
(* Properties.                                                             *)

\* What a user saved leaves CREST_state only when a Space that has restored
\* the file deleted it itself, as backup's "deletions" say.
LostOnlyByEviction ==
    [][\A f \in Papers : ~(repo[f] \subseteq repo'[f]) =>
        \E s \in Mirrors : f \in evicted[s] \cup gaps[s]]_repo

\* A parameter record stays in CREST_state: no mirror takes a record of
\* another Space for an eviction.
RecordsKept == [][repo[Record] # {} => repo'[Record] # {}]_repo

\* The record a Space works with is never replaced by an older one.
RecordNeverOlder ==
    [][restarts' = restarts => \A s \in Spaces :
        ~Newer(disk[s][Record], disk'[s][Record])]_vars

\* What no mirror, sync or pull may do, in one: lose a file or a record, or
\* put an older record in the place of a newer one.
RecordsSafe ==
    []TypeOK /\ LostOnlyByEviction /\ RecordsKept /\ RecordNeverOlder

\* When saves, faults and restarts have ended, CREST_state ends up with the
\* files of the mirror, evictions included.
Mirrored ==
    \A s \in Mirrors : <>[](\A f \in Papers : repo[f] = disk[s][f])

\* A winner whose push failed reaches CREST_state, or is replaced there by a
\* newer record, unless the Space that found it restarts.
WinnerArrives == []<>~unpushed

\* Both ways the repository catches up with the Spaces.
CatchesUp == Mirrored /\ WinnerArrives

\* The caches "survive Space restarts" (persist.py, first line): what
\* CREST_state holds of a file goes only when the file was evicted.
SurvivesRestart ==
    [][\A f \in Papers : ~(repo[f] \subseteq repo'[f]) =>
        \E s \in Mirrors : f \in evicted[s]]_repo
=============================================================================
