---------------------------- MODULE EpisodeFiles ----------------------------
(***************************************************************************)
(* The files of the episodes, and the manifests that list them:            *)
(*                                                                         *)
(*   events/<e>/depth_*.tif, .png   the frames         (depth)             *)
(*   events/<e>/archive.parquet     every frame, small (archive)           *)
(*   events/<e>/manifest.json       the frames served  (listing)           *)
(*                                                                         *)
(* A publish carries older frames forward and deletes re-simulated ones,   *)
(* episodes that leave the list lose their frames and keep their results,  *)
(* results that grow too old go altogether, a merge copies frames from one *)
(* folder to another, and a repair trims manifests.  All of them look at   *)
(* what is stored first and commit against it later, each process under a  *)
(* lock of its own (hf_data/eventstore.py, eventsim._update_archive,       *)
(* scripts/merge_episodes.py).                                             *)
(*                                                                         *)
(* A frame is the hour it shows; which episodes the cap picks is           *)
(* EpisodeStore's OverCap, who reads which index when is EpisodeIndex.     *)
(***************************************************************************)
EXTENDS Integers, FiniteSets

CONSTANTS
    Eps,            \* episodes: numbers, by start
    LastHour,       \* bound: hours of a flood
    Writers,        \* processes that commit
    Demo,           \* what the owner pinned
    Demotes,        \* EVENT_DEMOTE=1: the oldest listed lose their frames
    AgesOut,        \* EVENT_MAX_AGE_D > 0: old episodes leave the list
    FirstFrames,    \* FirstFrames[e]: the frames of e at the start
    MaxStamps,      \* bound: publishes and merges
    MaxMisses       \* bound: failed reads, listings, commits; crashes

ASSUME EpisodeFilesAssumption ==
    /\ Eps \subseteq Nat \ {0} /\ Demo \subseteq Eps /\ LastHour \in Nat
    /\ FirstFrames \in [Eps -> SUBSET (1..LastHour)]
    /\ MaxStamps \in Nat \ {0} /\ MaxMisses \in Nat
    /\ Demotes \in BOOLEAN /\ AgesOut \in BOOLEAN

Hours == 1..LastHour
ArchiveFile == 0               \* among the files to delete: archive.parquet

VARIABLES
    list,       \* index.json: when the entry was generated, 0 if off the list
    listing,    \* listing[e]: the frames manifest.json lists
    depth,      \* depth[e]: the frames stored
    archive,    \* archive[e]: the frames in archive.parquet
    folders,    \* episodes with a result folder
    pins,       \* events/pinned.json, which no part of the system writes
    aged,       \* 1: past MAX_AGE_D, 2: past RESULTS_MAX_AGE_D
    op,         \* op[p]: what p is doing
    stamp,      \* last `generated' stamp
    misses,     \* failures so far
    crossed,    \* history: episodes that lost files behind a writer's back
    short       \* history: episodes whose archive was restarted or deleted

fileVars == <<list, listing, depth, archive, folders, pins>>
filesVars == <<fileVars, aged, op, stamp, misses, crossed, short>>

ListEntries == [stamp : 0..MaxStamps, demoted : BOOLEAN, into : BOOLEAN]
OffList == [stamp |-> 0, demoted |-> FALSE, into |-> FALSE]
Lists == [Eps -> ListEntries]
EmptyList == [e \in Eps |-> OffList]
OnList(l) == {e \in Eps : l[e].stamp # 0}

NoFrames == [e \in Eps |-> {}]
NoStamps == [e \in Eps |-> 0]

\* list, frames, gone, purge: what the commit will write and delete.  wholly:
\* what it lists was there.  all: its archive was not restarted.  robbed:
\* folders somebody else changed meanwhile.
IdleOp == [pc |-> "idle", ev |-> 0, stamp |-> 0, list |-> EmptyList,
           relist |-> TRUE, local |-> {}, frames |-> NoFrames, arch |-> {},
           gone |-> NoFrames, purge |-> {}, plan |-> NoStamps,
           wholly |-> FALSE, all |-> FALSE, robbed |-> {}]
Ops == [pc : {"idle", "solved", "read", "publish", "swept", "sweep", "repair",
              "merge"},
        ev : Eps \cup {0}, stamp : 0..MaxStamps, list : Lists, relist : BOOLEAN,
        local : SUBSET Hours, frames : [Eps -> SUBSET Hours],
        arch : SUBSET Hours,
        gone : [Eps -> SUBSET (Hours \cup {ArchiveFile})], purge : SUBSET Eps,
        plan : [Eps -> 0..MaxStamps], wholly : BOOLEAN, all : BOOLEAN,
        robbed : SUBSET Eps]

FilesTypeOK ==
    /\ list \in Lists
    /\ listing \in [Eps -> SUBSET Hours] /\ depth \in [Eps -> SUBSET Hours]
    /\ archive \in [Eps -> SUBSET Hours] /\ folders \in SUBSET Eps
    /\ pins \in SUBSET Eps
    /\ aged \in [Eps -> 0..2] /\ op \in [Writers -> Ops]
    /\ stamp \in 0..MaxStamps /\ misses \in 0..MaxMisses
    /\ crossed \in SUBSET Eps /\ short \in SUBSET Eps

FilesInit ==
    /\ folders = {e \in Eps : FirstFrames[e] # {}}
    /\ list = [e \in Eps |->
                 [OffList EXCEPT !.stamp = IF e \in folders THEN 1 ELSE 0]]
    /\ listing = FirstFrames /\ depth = FirstFrames
    /\ archive = FirstFrames /\ pins = Demo
    /\ aged = [e \in Eps |-> 0] /\ op = [p \in Writers |-> IdleOp]
    /\ stamp = 1 /\ misses = 0 /\ crossed = {} /\ short = {}

Miss(failed) ==
    IF failed THEN misses < MaxMisses /\ misses' = misses + 1
    ELSE UNCHANGED misses

Busy(p) == {q \in Writers \ {p} : op[q].pc # "idle"}

\* p is done, and changed the folders X under the eyes of the others.
Done(p, X) ==
    op' = [q \in Writers |->
             IF q = p THEN IdleOp
             ELSE IF q \in Busy(p) THEN [op[q] EXCEPT !.robbed = @ \cup X]
             ELSE op[q]]

GiveUp(p) == op' = [op EXCEPT ![p] = IdleOp]

\* Slip: frames that the store lost stay in the manifest.
ServiceableAll(frames, local, stored) == frames

\* Frames whose files are stored, or about to be: all a manifest may list.
Serviceable(frames, local, stored) == frames \cap (local \cup stored)

\* The animation files of the episodes X: their results stay.
AnimFiles(X) ==
    [e \in Eps |-> IF e \notin X THEN {}
                   ELSE depth[e] \cup IF archive[e] = {} THEN {}
                                      ELSE {ArchiveFile}]

Removed(gone) == {e \in Eps : gone[e] # {}}

\* pinned_ids: a set that was read once is kept when the file cannot be read;
\* without one (known is FALSE) none of the episodes X is dropped or swept.
ReadPins(known, X) == (known \/ X = {}) /\ X \cap pins = {}

-----------------------------------------------------------------------------
(* A solved episode is published. *)

\* The run simulated the hours from..to.  Its frames replace those of the same
\* hours in the archive, older ones stay: if the old archive can be fetched
\* and has the same grid.
SolveEpisode(p, e) ==
    /\ op[p].pc = "idle"
    /\ \A q \in Writers : op[q].ev = e => op[q].pc = "merge"
    /\ stamp < MaxStamps /\ stamp' = stamp + 1
    /\ \E from, to \in Hours, fetched \in BOOLEAN :
          LET local == from..to IN
          /\ from <= to
          /\ Miss(~fetched)
          /\ op' = [op EXCEPT ![p] =
                [IdleOp EXCEPT !.pc = "solved", !.ev = e, !.stamp = stamp + 1,
                               !.local = local, !.all = fetched,
                               !.arch = IF fetched THEN archive[e] \cup local
                                        ELSE local]]
    /\ UNCHANGED <<fileVars, aged, crossed, short>>

ReadList(p) ==
    /\ op[p].pc = "solved"
    /\ \E got \in {list, EmptyList} :
          /\ Miss(got # list)
          /\ op' = [op EXCEPT ![p].pc = "read", ![p].list = got]
    /\ UNCHANGED <<fileVars, aged, stamp, crossed, short>>

\* The run's frames, and the older ones of the manifest: a publish replaces
\* only what it simulated again.
OlderFrames(o, manRead) ==
    IF o.ev \in OnList(o.list) /\ manRead
    THEN {h \in listing[o.ev] : \A l \in o.local : h < l}
    ELSE {}

NewFrames(o, listed, manRead) ==
    IF o.ev \in OnList(o.list) /\ listed
    THEN Serviceable(OlderFrames(o, manRead) \cup o.local, o.local, depth[o.ev])
    ELSE OlderFrames(o, manRead) \cup o.local

\* Stored frames that the new manifest does not list; those of the run are
\* replaced in place.
Replaced(o, listed, frames) ==
    IF o.ev \in OnList(o.list) /\ listed
    THEN depth[o.ev] \ (o.local \cup frames)
    ELSE {}

NewList(o, drop, demote) ==
    [x \in Eps |-> IF x = o.ev THEN [OffList EXCEPT !.stamp = o.stamp]
                   ELSE IF x \in drop THEN OffList
                   ELSE IF x \in demote THEN [o.list[x] EXCEPT !.demoted = TRUE]
                   ELSE o.list[x]]

\* The store is listed, and the manifest to replace is read, for an episode
\* that was on the list.  The episodes the cap and the age limit drop, and
\* those to demote, lose their animations (a second listing) or, when old
\* enough, everything.
PreparePublish(p) ==
    LET o == op[p]
        others == OnList(o.list) \ {o.ev}
    IN
    /\ o.pc = "read"
    /\ \E listed, manRead, again, known \in BOOLEAN,
          drop \in SUBSET others, demote \in SUBSET others :
        LET frames == NewFrames(o, listed, manRead)
            purge == {d \in drop : aged[d] = 2}
            demoted == IF again THEN demote ELSE {}
            hidden == IF again THEN (drop \ purge) \cup demote ELSE {}
        IN
        /\ Miss(~(listed /\ manRead /\ again))
        /\ ReadPins(known, drop \cup demote)
        /\ drop \cap demote = {} /\ (demote # {} => Demotes)
        /\ op' = [op EXCEPT ![p] =
              [o EXCEPT !.pc = "publish",
                        !.list = NewList(o, drop, demoted),
                        !.frames = [NoFrames EXCEPT ![o.ev] = frames],
                        !.gone = [AnimFiles(hidden) EXCEPT
                                    ![o.ev] = Replaced(o, listed, frames)],
                        !.purge = purge,
                        !.wholly = \/ listed
                                   \/ /\ ~o.list[o.ev].demoted
                                      /\ o.ev \notin crossed]]
    /\ UNCHANGED <<fileVars, aged, stamp, crossed, short>>

\* The files each commit deletes; what else it writes is up to the commit.
DepthLess(o) ==
    [x \in Eps |-> IF x \in o.purge THEN {} ELSE depth[x] \ o.gone[x]]
ArchiveLess(o) ==
    [x \in Eps |-> IF x \in o.purge \/ ArchiveFile \in o.gone[x] THEN {}
                   ELSE archive[x]]
ListingLess(o) == [x \in Eps |-> IF x \in o.purge THEN {} ELSE listing[x]]

\* One commit.  Frames nobody else touched are served from now on.
PublishFiles(p) ==
    LET o == op[p]
        e == o.ev
        fresh == o.frames[e] \subseteq o.local
        hidden == (Removed(o.gone) \ {e}) \cup o.purge
    IN
    /\ o.pc = "publish"
    /\ \/ /\ Miss(FALSE) /\ Done(p, {e} \cup hidden)
          /\ UNCHANGED pins
          /\ list' = o.list
          /\ listing' = [ListingLess(o) EXCEPT ![e] = o.frames[e]]
          /\ depth' = [DepthLess(o) EXCEPT ![e] = @ \cup o.local]
          /\ archive' = [ArchiveLess(o) EXCEPT ![e] = o.arch]
          /\ folders' = (folders \ o.purge) \cup {e}
          /\ crossed' = (IF fresh \/ (o.wholly /\ e \notin o.robbed)
                       THEN crossed \ {e} ELSE crossed \cup {e})
                      \cup IF Busy(p) = {} THEN {} ELSE hidden
          /\ short' = hidden \cup IF fresh THEN short \ {e}
                                  ELSE IF o.all /\ e \notin o.robbed THEN short
                                  ELSE short \cup {e}
       \/ /\ Miss(TRUE) /\ GiveUp(p)
          /\ UNCHANGED <<fileVars, crossed, short>>
    /\ UNCHANGED <<aged, stamp>>

-----------------------------------------------------------------------------
(* Retention: retention_sweep, and drop_events, which nobody calls. *)

SweepBegin(p) ==
    /\ op[p].pc = "idle"
    /\ \E got \in {list, EmptyList} :
          /\ Miss(got # list)
          /\ op' = [op EXCEPT ![p] = [IdleOp EXCEPT !.pc = "swept",
                                                    !.list = got]]
    /\ UNCHANGED <<fileVars, aged, stamp, crossed, short>>

\* Slip: a folder off the list loses its frames, pinned or not.
OrphansOfAll(l, leave) == (folders \ OnList(l)) \ leave

\* Result folders off the list, and of no demo event.
FileOrphans(l, leave) == ((folders \ OnList(l)) \ leave) \ pins

\* Episodes that grew too old leave the list and lose their animations, like
\* those that left it earlier; the oldest results go.  An empty index next to
\* stored folders is a failed read.  (An active episode does not age out.)
SweepFiles(p) ==
    LET o == op[p] IN
    /\ o.pc = "swept"
    /\ \E leave \in SUBSET {e \in OnList(o.list) \ pins :
                               AgesOut /\ aged[e] > 0}, listed \in BOOLEAN :
        LET orphans == IF listed THEN FileOrphans(o.list, leave) ELSE {}
            purge == {e \in orphans : aged[e] = 2}
            gone == IF listed THEN AnimFiles(leave \cup (orphans \ purge))
                    ELSE NoFrames
        IN
        /\ Miss(~listed)
        /\ IF \/ o.list = EmptyList /\ listed /\ folders # {}
              \/ gone = NoFrames /\ purge = {}
           THEN GiveUp(p)
           ELSE op' = [op EXCEPT ![p] =
                  [o EXCEPT !.pc = "sweep", !.gone = gone, !.purge = purge,
                            !.list = [x \in Eps |-> IF x \in leave THEN OffList
                                                    ELSE o.list[x]]]]
    /\ UNCHANGED <<fileVars, aged, stamp, crossed, short>>

\* drop_events: off the list, folder and all.
DropEvents(p) ==
    /\ op[p].pc = "idle"
    /\ \E got \in {list, EmptyList}, listed \in BOOLEAN,
          ids \in SUBSET (Eps \ pins) \ {{}} :
        LET purge == IF listed THEN ids \cap folders ELSE {}
            relist == ids \cap OnList(got) # {}
        IN
        /\ Miss(got # list \/ ~listed) /\ (relist \/ purge # {})
        /\ op' = [op EXCEPT ![p] =
              [IdleOp EXCEPT !.pc = "sweep", !.relist = relist, !.purge = purge,
                             !.list = [x \in Eps |-> IF x \in ids THEN OffList
                                                     ELSE got[x]]]]
    /\ UNCHANGED <<fileVars, aged, stamp, crossed, short>>

SweepEnd(p) ==
    LET o == op[p]
        hidden == Removed(o.gone) \cup o.purge
    IN
    /\ o.pc = "sweep"
    /\ \/ /\ Miss(FALSE) /\ Done(p, hidden)
          /\ UNCHANGED pins
          /\ list' = IF o.relist THEN o.list ELSE list
          /\ listing' = ListingLess(o) /\ depth' = DepthLess(o)
          /\ archive' = ArchiveLess(o) /\ folders' = folders \ o.purge
          /\ crossed' = crossed \cup
                IF o.relist /\ Busy(p) = {} THEN {} ELSE hidden
          /\ short' = short \cup hidden
       \/ /\ Miss(TRUE) /\ GiveUp(p)
          /\ UNCHANGED <<fileVars, crossed, short>>
    /\ UNCHANGED <<aged, stamp>>

-----------------------------------------------------------------------------
(* reconcile_store: maintenance, by hand. *)

\* Manifests that list frames the store does not hold.
RepairBegin(p) ==
    /\ op[p].pc = "idle"
    /\ \E unreadable \in SUBSET folders, got \in {list, EmptyList} :
        LET keep == [e \in Eps |-> Serviceable(listing[e], {}, depth[e])]
            torn == {e \in folders \ unreadable : keep[e] # listing[e]}
        IN
        /\ Miss(unreadable # {} \/ got # list) /\ torn # {}
        /\ op' = [op EXCEPT ![p] =
              [IdleOp EXCEPT !.pc = "repair", !.list = got, !.frames = keep,
                             !.plan = [e \in Eps |->
                                         IF e \in torn THEN 1 ELSE 0]]]
    /\ UNCHANGED <<fileVars, aged, stamp, crossed, short>>

RepairEnd(p) ==
    LET o == op[p]
        torn == {e \in Eps : o.plan[e] = 1}
    IN
    /\ o.pc = "repair"
    /\ \/ /\ Miss(FALSE) /\ Done(p, torn)
          /\ list' = o.list
          /\ listing' = [x \in Eps |-> IF x \in torn THEN o.frames[x]
                                       ELSE listing[x]]
          /\ folders' = folders \cup torn
          /\ crossed' = (crossed \ torn) \cup (torn \cap o.robbed)
          /\ short' = short \cup (torn \cap o.robbed)
          /\ UNCHANGED <<depth, archive, pins>>
       \/ /\ Miss(TRUE) /\ GiveUp(p)
          /\ UNCHANGED <<fileVars, crossed, short>>
    /\ UNCHANGED <<aged, stamp>>

-----------------------------------------------------------------------------
(* merge_episodes: plan_group, build_products, commit_group. *)

StoredFrames(e) == listing[e] \cap depth[e]

\* frame_plan: the target's own frame, else that of the newest other member.
SuppliedBy(M, t, h) ==
    LET have == {m \in M : h \in StoredFrames(m)}
    IN IF t \in have THEN t
       ELSE CHOOSE m \in have : \A o \in have : o <= m

\* Slip: the archive of the target serves as it is.
MergedArchiveOwn(M, t, frames) == archive[t]

\* archive_takes: a frame's rows come from the member that supplies the frame,
\* those of other times from whoever has them.
MergedArchive(M, t, frames) ==
    {h \in Hours :
        IF h \in frames THEN h \in archive[SuppliedBy(M, t, h)]
        ELSE \E m \in M : h \in archive[m]}

\* The newest of the members that have no job is the target.  Skipped without
\* stored frames, with different grids or clashing files.  The frames of the
\* others are copied.
MergePlan(p, M, t) ==
    LET frames == UNION {StoredFrames(m) : m \in M} IN
    /\ op[p].pc = "idle" /\ stamp < MaxStamps /\ stamp' = stamp + 1
    /\ M \subseteq OnList(list) \ pins /\ M \subseteq folders /\ M # {t}
    /\ t \in M /\ \A m \in M : m <= t /\ ~list[m].into
    /\ \A q \in Writers : op[q].ev \notin M
    /\ frames # {}
    /\ op' = [op EXCEPT ![p] =
          [IdleOp EXCEPT !.pc = "merge", !.ev = t, !.stamp = stamp + 1,
                         !.local = frames \ StoredFrames(t),
                         !.frames = [NoFrames EXCEPT ![t] = frames],
                         !.arch = MergedArchive(M, t, frames),
                         !.plan = [e \in Eps |-> IF e \in M THEN list[e].stamp
                                                 ELSE 0],
                         !.all = M \cap short = {}]]
    /\ UNCHANGED <<fileVars, aged, misses, crossed, short>>

\* Against the index the members were planned from; a frame to copy that is
\* gone refuses the commit.
MergeFiles(p) ==
    LET o == op[p]
        t == o.ev
        M == {m \in Eps : o.plan[m] # 0}
        current == /\ \A m \in M : list[m].stamp = o.plan[m] /\ ~list[m].into
                   /\ \A h \in o.local : \E m \in M \ {t} : h \in depth[m]
    IN
    /\ o.pc = "merge"
    /\ \/ /\ current /\ Miss(FALSE) /\ Done(p, {t})
          /\ UNCHANGED pins
          /\ list' = [x \in Eps |->
                        IF x = t THEN [list[x] EXCEPT !.stamp = o.stamp]
                        ELSE IF x \in M THEN [list[x] EXCEPT !.into = TRUE]
                        ELSE list[x]]
          /\ listing' = [listing EXCEPT ![t] = o.frames[t]]
          /\ depth' = [depth EXCEPT ![t] = @ \cup o.local]
          /\ archive' = [archive EXCEPT ![t] = o.arch]
          /\ folders' = folders \cup {t}
          /\ crossed' = (crossed \ {t}) \cup ({t} \cap o.robbed)
          /\ short' = IF o.all THEN short \ {t} ELSE short \cup {t}
       \/ /\ Miss(current) /\ GiveUp(p)
          /\ UNCHANGED <<fileVars, crossed, short>>
    /\ UNCHANGED <<aged, stamp>>

-----------------------------------------------------------------------------
\* A restart forgets what was in the works.
WriterDies(p) ==
    /\ op[p].pc # "idle" /\ Miss(TRUE) /\ GiveUp(p)
    /\ UNCHANGED <<fileVars, aged, stamp, crossed, short>>

GrowOld(e) ==
    /\ aged[e] < 2 /\ e \in folders
    /\ \A p \in Writers : op[p].ev # e
    /\ aged' = [aged EXCEPT ![e] = IF AgesOut THEN @ + 1 ELSE 2]
    /\ UNCHANGED <<fileVars, op, stamp, misses, crossed, short>>

WriterStep(p) ==
    \/ \E e \in Eps : SolveEpisode(p, e)
    \/ ReadList(p) \/ PreparePublish(p) \/ PublishFiles(p)
    \/ SweepBegin(p) \/ SweepFiles(p) \/ DropEvents(p) \/ SweepEnd(p)
    \/ RepairBegin(p) \/ RepairEnd(p)
    \/ \E M \in SUBSET Eps : \E t \in M : MergePlan(p, M, t)
    \/ MergeFiles(p) \/ WriterDies(p)

FilesNext == (\E p \in Writers : WriterStep(p)) \/ \E e \in Eps : GrowOld(e)

FilesSpec == FilesInit /\ [][FilesNext]_filesVars

-----------------------------------------------------------------------------
(* Properties. *)

\* Every frame that the manifest of a listed episode lists is stored, unless
\* the episode was demoted or two writers were at it at once: the player finds
\* no blanks (eventstore.py: "the only ones a manifest may list").
FramesStored ==
    \A e \in OnList(list) \ crossed :
        /\ e \in folders
        /\ ~list[e].demoted => listing[e] \subseteq depth[e]

\* The archive of an episode has every frame of its manifest, unless it was
\* restarted or deleted, or its folder changed between run and publish: it
\* spans the whole episode (eventsim._update_archive, archive_takes).
ArchiveSpans == \A e \in Eps \ short : listing[e] \subseteq archive[e]

\* No commit deletes anything of another episode that is pinned.
DemosWhole ==
    \A p \in DOMAIN op : \A e \in pins \ {op[p].ev} :
        op[p].gone[e] = {} /\ e \notin op[p].purge

FilesSound == FramesStored /\ ArchiveSpans /\ DemosWhole
=============================================================================
