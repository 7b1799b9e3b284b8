---------------------------- MODULE EpisodeStore ----------------------------
(***************************************************************************)
(* The episode list events/index.json of the CREST_data dataset and the    *)
(* edits hf_data/eventstore.py and scripts/merge_episodes.py make to it,   *)
(* as functions from one index to the next.  Who reads and commits it, and *)
(* when, is EpisodeIndex.                                                  *)
(*                                                                         *)
(* All episodes belong to one gauge and lie within the merge gap of each   *)
(* other (eventlist.groups makes them one group).  Ids order by start, so  *)
(* an episode is a number.  A manifest is its `generated' stamp and the    *)
(* episodes whose frames it lists; frame counts are counts of those.       *)
(***************************************************************************)
EXTENDS Integers, FiniteSets

CONSTANTS
    N,              \* episodes 1..N
    Pinned,         \* ids in events/pinned.json
    KeepEvents,     \* KEEP_EVENTS: unpinned entries the list may hold
    MaxGen,         \* bound: manifests ever written (solves and merges)
    MaxReopens      \* bound: reopens

ASSUME EpisodeStoreAssumption ==
    /\ N \in Nat /\ Pinned \subseteq 1..N
    /\ KeepEvents \in Nat /\ MaxGen \in Nat /\ MaxReopens \in Nat

Episodes == 1..N

Manifests == [gen : 0..MaxGen, parts : SUBSET Episodes]
NoManifest == [gen |-> 0, parts |-> {}]
Finals == SUBSET Manifests             \* no final, or the one

\* One entry: final is the manifest it was computed from, merged the ids of
\* the merged record, into the episode that absorbed it, pos its place in the
\* list (1 is the front).
Entries == [status : {"none", "active", "ended"}, man : Manifests,
            reopened : 0..MaxReopens, final : Finals,
            merged : SUBSET Episodes, into : 0..N, pos : Nat]
Indexes == [Episodes -> Entries]

Unlisted == [status |-> "none", man |-> NoManifest, reopened |-> 0,
             final |-> {}, merged |-> {}, into |-> 0, pos |-> 0]
EmptyIndex == [e \in Episodes |-> Unlisted]

Listed(idx) == {e \in Episodes : idx[e].status # "none"}
Active(idx) == {e \in Episodes : idx[e].status = "active"}
Members(idx) == {e \in Listed(idx) : idx[e].into = 0}

IsNewest(e, S) == e \in S /\ \A m \in S : m <= e

-----------------------------------------------------------------------------
(* eventlist.groups: whom a member stands for. *)

\* Where the merged_into chain of an episode ends.
ChainEnd(idx) ==
    LET end[e \in Episodes] == IF idx[e].into = 0 THEN e ELSE end[idx[e].into]
    IN end

Held(idx, e) ==
    {e} \cup {x \in Listed(idx) : ChainEnd(idx)[x] = e} \cup idx[e].merged

-----------------------------------------------------------------------------
(* publish_event *)

\* Slip: demo events count, and may be dropped.
OverCapOfAll(idx) ==
    {d \in Listed(idx) :
       Cardinality({x \in Listed(idx) : idx[x].pos < idx[d].pos})
         >= KeepEvents}

\* Unpinned entries past the KEEP_EVENTS newest.
OverCap(idx) ==
    LET unpinned == Listed(idx) \ Pinned
    IN {d \in unpinned :
          Cardinality({x \in unpinned : idx[x].pos < idx[d].pos})
            >= KeepEvents}

\* The entry of a published episode: its merged record is kept; a final, a
\* reopen stamp and merged_into are not.
PublishedEntry(idx, e, man, status) ==
    [Unlisted EXCEPT !.status = status, !.man = man,
                     !.merged = idx[e].merged, !.pos = 1]

\* The others keep their order behind it.
Prepend(idx, e, man, status) ==
    [x \in Episodes |->
        IF x = e THEN PublishedEntry(idx, e, man, status)
        ELSE IF x \in Listed(idx)
                /\ (e \in Listed(idx) => idx[x].pos < idx[e].pos)
        THEN [idx[x] EXCEPT !.pos = @ + 1]
        ELSE idx[x]]

Without(idx, gone) ==
    [e \in Episodes |-> IF e \in gone THEN Unlisted ELSE idx[e]]

-----------------------------------------------------------------------------
(* mark_ended, reopen_episodes *)

Endable(idx, ids) == {e \in ids \cap Listed(idx) : idx[e].status # "ended"}

MarkEnded(idx, ids) ==
    [e \in Episodes |-> IF e \in ids \cap Listed(idx)
                        THEN [idx[e] EXCEPT !.status = "ended"] ELSE idx[e]]

\* Absorbed, or the gauge has a newer or an active episode.
Superseded(idx, e) ==
    \/ idx[e].into # 0
    \/ \E o \in Members(idx) \ {e} : o > e \/ o \in Active(idx)

Reopen(idx, e, stamp) ==
    [idx EXCEPT ![e].status = "active", ![e].reopened = stamp,
                ![e].final = {}]

-----------------------------------------------------------------------------
(* finalize_episodes *)

Unfinished(s) == s.status # "none" /\ s.final = {} /\ s.into = 0

\* Slip: an episode published again meanwhile is not noticed.
FinalStaleByStatus(s, began, was) ==
    s.status # "ended" \/ s.into # 0 \/ s.merged # was.merged

\* _final_stale: a final computed from `was' by a pass begun at `began' must
\* not be written onto s.
FinalStale(s, began, was) ==
    \/ s.status = "none"
    \/ s.into # 0
    \/ s.status # "ended"
    \/ s.reopened # 0 /\ s.reopened >= began
    \/ s.merged # was.merged
    \/ s.man.gen # was.man.gen

\* Slip: an absorbed episode gets the final of the one it went into.
WriteFinalsAlong(idx, got, began) ==
    [e \in Episodes |->
        LET t == IF idx[e].into = 0 THEN e ELSE idx[e].into
            mine == {g \in got : /\ g.ev = t
                                 /\ ~FinalStale(idx[t], began, g.was)}
        IN IF mine = {} THEN idx[e]
           ELSE [idx[e] EXCEPT !.final = (CHOOSE g \in mine : TRUE).final]]

\* _finalize_commit: the finals of `got' that are still right.
WriteFinals(idx, got, began) ==
    [e \in Episodes |->
        LET mine == {g \in got : /\ g.ev = e
                                 /\ ~FinalStale(idx[e], began, g.was)}
        IN IF mine = {} THEN idx[e]
           ELSE [idx[e] EXCEPT !.final = (CHOOSE g \in mine : TRUE).final]]

-----------------------------------------------------------------------------
(* merge_episodes *)

\* classify: more than one member, all ended, none a demo event, none with a
\* job in the worker queue.  (A newest member without a final waits
\* FINAL_WAIT_H: EpisodeIndex.)
Mergeable(idx, queued) ==
    LET group == Members(idx) IN
    /\ Cardinality(group) > 1
    /\ \A m \in group : idx[m].status = "ended" /\ m \notin Pinned \cup queued

\* stale_final: the final of a merged target counts other frames.
StaleFinal(s) ==
    /\ s.merged # {}
    /\ \E m \in s.final : Cardinality(m.parts) # Cardinality(s.man.parts)

\* recheck, on the index the commit will replace; gens[m] = 0 off the plan.
Recheck(idx, gens) ==
    LET planned == {m \in Episodes : gens[m] # 0} IN
    /\ Members(idx) = planned
    /\ \A m \in planned : idx[m].status = "ended" /\ idx[m].man.gen = gens[m]

\* rewrite_index with index_entry
Merge(idx, target, group, man) ==
    LET record == UNION {Held(idx, m) : m \in group}
    IN [e \in Episodes |->
          IF e = target THEN [idx[e] EXCEPT !.status = "ended", !.man = man,
                                            !.final = {}, !.merged = record]
          ELSE IF e \in group THEN [idx[e] EXCEPT !.into = target]
          ELSE idx[e]]

DropFinal(idx, e) == [idx EXCEPT ![e].final = {}]
=============================================================================
