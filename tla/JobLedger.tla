----------------------------- MODULE JobLedger -----------------------------
(***************************************************************************)
(* What the event job queue promises, without claims, heartbeats, listings *)
(* or commits: a job is queued until it is closed, and newer jobs replace  *)
(* older ones of their event.  EventQueue implements it.                   *)
(***************************************************************************)
EXTENDS Naturals

CONSTANTS Events, MaxStamp

VARIABLES
    queued,     \* queued[e]: the job of e in the queue, 0 if none
    published,  \* jobs solved and published
    closed      \* jobs that may leave the queue without being published:
                \* reported as failed, swept as old, or enqueued over a job
                \* whose consuming commit was already decided

Stamps == 1..MaxStamp

Init == queued = [e \in Events |-> 0] /\ published = {} /\ closed = {}

\* A job is newer than all that are queued.  The commit may close old jobs of
\* other events, and the job itself may arrive into a decided consumption.
Enqueue(e, s) ==
    /\ \A x \in Events : queued[x] < s
    /\ closed \subseteq closed'
    /\ \A x \in Events \ {e} :
          queued'[x] \in {queued[x]} \cup (IF queued[x] \in closed'
                                          THEN {0} ELSE {})
    /\ queued' = [queued' EXCEPT ![e] = s]
    /\ closed' \subseteq closed \cup {s} \cup {queued[x] : x \in Events \ {e}}
    /\ UNCHANGED published

\* Queued still, or replaced while it was solved; two workers may both do it.
Publish(s) ==
    /\ published' = published \cup {s}
    /\ UNCHANGED <<queued, closed>>

\* A failed job s is closed as it leaves, or as the one over it leaves.
Consume(e, s) ==
    /\ 1 <= s /\ s <= queued[e]
    /\ closed' \in {closed, closed \cup {s}}
    /\ queued[e] \in published \cup closed'
    /\ queued' = [queued EXCEPT ![e] = 0]
    /\ UNCHANGED published

Next ==
    \/ \E e \in Events, s \in Stamps : Enqueue(e, s) \/ Consume(e, s)
    \/ \E s \in Stamps : Publish(s)

vars == <<queued, published, closed>>
Spec == Init /\ [][Next]_vars
=============================================================================
