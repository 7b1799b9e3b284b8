--------------------------- MODULE MergerProcess ---------------------------
(***************************************************************************)
(* The episode merger as a process (hf_data/eventmerger.py and the watch   *)
(* loop of scripts/merge_episodes.py): a supervisor thread of the server   *)
(* starts the child, restarts it with a backoff and kills it when its      *)
(* status file says nothing for too long; the child looks at the index     *)
(* every interval and merges, at most MaxPerHour in an hour, which it      *)
(* remembers in the status file.  EpisodeIndex has what a merge does.      *)
(*                                                                         *)
(* Time counts intervals; a child that works has something to do in each,  *)
(* so that Tick waits for it, and for the supervisor, whose poll is short. *)
(***************************************************************************)
EXTENDS Naturals, FiniteSets

CONSTANTS
    Pids,           \* process ids
    Slots,          \* names for merges of the last hour
    MaxPerHour,     \* --max-merges-per-hour
    Hour,           \* an hour in intervals
    HungLimit,      \* max(HUNG_MIN_S, 6 intervals) in intervals
    FailsMax,       \* STATUS_FAILS_MAX
    BackMax,        \* BACKOFF_MAX_S in intervals; BACKOFF_MIN_S is one
    MaxChildFaults  \* bound: crashes, hangs, disks that fill up, failed starts

None == "none"

ASSUME MergerAssumption ==
    /\ None \notin Pids /\ MaxPerHour \in Nat /\ MaxChildFaults \in Nat
    /\ \A a, b \in Pids \cup {None} : Pids \ {a, b} # {}   \* FreshPid
    /\ IsFiniteSet(Slots)
    /\ \A n \in {Hour, HungLimit, FailsMax, BackMax} : n \in Nat \ {0}
    /\ FailsMax < HungLimit     \* 5 intervals against at least 6

VARIABLES
    sup,        \* the supervisor: where it is, its backoff, the wait left
    proc,       \* self.proc
    started,    \* intervals since it started the last child
    stopper,    \* the thread that calls stop()
    child,      \* the processes
    status,     \* the status files
    full,       \* which of them cannot be written
    merged,     \* of each merge, Hour when it no longer counts
    mergerFaults,
    lost        \* history: merges whose child died before it noted them

mergerVars == <<sup, proc, started, stopper, child, status, full, merged,
                mergerFaults, lost>>
supVars == <<sup, proc, started, stopper>>
hostVars == <<child, status, merged, lost>>

StatusFiles == {"main", "fallback"}
Modes == {"off", "boot", "cycle", "pass", "merged", "nap"}
NoChild == [mode |-> "off", stuck |-> FALSE, term |-> FALSE, doomed |-> FALSE,
            owes |-> FALSE, wait |-> 0, back |-> 0, fails |-> 0, budget |-> 0,
            recent |-> {}, news |-> FALSE, waiting |-> FALSE]
NoStatus == [pid |-> None, age |-> HungLimit + 1, stopped |-> FALSE,
             recent |-> {}]

MergerTypeOK ==
    /\ sup \in [at : {"start", "launched", "watch", "term", "linger",
                      "backoff", "down"},
                back : 0..BackMax, left : 0..BackMax]
    /\ proc \in Pids \cup {None} /\ started \in 0..(HungLimit + 1)
    /\ stopper \in {"no", "set", "done"}
    /\ child \in [Pids -> [mode : Modes, stuck : BOOLEAN, term : BOOLEAN,
                doomed : BOOLEAN, owes : BOOLEAN, wait : 0..BackMax,
                back : 0..BackMax, fails : 0..FailsMax, budget : 0..MaxPerHour,
                recent : SUBSET Slots, news : BOOLEAN, waiting : BOOLEAN]]
    /\ status \in [StatusFiles ->
                   [pid : Pids \cup {None}, age : 0..(HungLimit + 1),
                             stopped : BOOLEAN, recent : SUBSET Slots]]
    /\ full \subseteq StatusFiles
    /\ merged \in [Slots -> 0..Hour]
    /\ mergerFaults \in 0..MaxChildFaults /\ lost \subseteq Slots

MergerInit ==
    /\ sup = [at |-> "start", back |-> 0, left |-> 0]
    /\ proc = None /\ started = 0 /\ stopper = "no"
    /\ child = [p \in Pids |-> NoChild]
    /\ status = [f \in StatusFiles |-> NoStatus]
    /\ full \in {{}, {"main"}} /\ merged = [s \in Slots |-> Hour]
    /\ mergerFaults = 0 /\ lost = {}

Alive == {p \in Pids : child[p].mode # "off"}
Stopping == stopper # "no"
ChildFault == mergerFaults < MaxChildFaults /\ mergerFaults' = mergerFaults + 1
Least(m, n) == IF m < n THEN m ELSE n
Unnoted(p) == child[p].recent \ UNION {status[f].recent : f \in StatusFiles}

\* A process ends: what it had not written to a status file is forgotten.
Dies(p) ==
    /\ child' = [child EXCEPT ![p] = NoChild]
    /\ lost' = lost \cup Unnoted(p)

-----------------------------------------------------------------------------
(* The child.                                                              *)

\* freshest: of the two files, the one that was written last.
Latest(f) == \A g \in StatusFiles : status[f].age <= status[g].age

\* Slip: a new child looks at its own status file only.
RememberedMain == status["main"].recent

Remembered == UNION {status[f].recent : f \in {g \in StatusFiles : Latest(g)}}

Counted(recent) == {s \in recent : merged[s] < Hour}

\* save: to the status file, else to the fallback, else not; after FailsMax
\* failures in a row the child stops.
Saves(p, c, stopped) ==
    LET line == [pid |-> p, age |-> 0, stopped |-> stopped,
                 recent |-> c.recent]
        fails == Least(c.fails + 1, FailsMax)
    IN  IF full = StatusFiles
        THEN /\ child' = [child EXCEPT ![p] = [c EXCEPT
                    !.fails = fails,
                    !.term = @ \/ (fails = FailsMax /\ ~stopped)]]
             /\ UNCHANGED status
        ELSE /\ child' = [child EXCEPT ![p] = [c EXCEPT !.fails = 0]]
             /\ status' = [status EXCEPT
                    ![IF "main" \in full THEN "fallback" ELSE "main"] = line]

Healthy(p) == child[p].mode # "off" /\ ~child[p].stuck /\ ~child[p].doomed

ChildBoots(p) ==
    /\ Healthy(p) /\ child[p].mode = "boot"
    /\ Saves(p, [child[p] EXCEPT !.mode = "cycle", !.recent = Remembered,
                                 !.news = TRUE], FALSE)
    /\ UNCHANGED <<supVars, full, merged, mergerFaults, lost>>

Due(c) == c.news \/ c.waiting

Going(p, mode) == Healthy(p) /\ child[p].mode = mode /\ ~child[p].term

\* A pass starts: the budget is what the last hour leaves of the cap.
Look(p) ==
    /\ Going(p, "cycle") /\ Due(child[p])
    /\ Saves(p, [child[p] EXCEPT
            !.mode = "pass", !.news = FALSE, !.owes = FALSE,
            !.budget = MaxPerHour -
                Least(MaxPerHour, Cardinality(Counted(child[p].recent)))],
          FALSE)
    /\ UNCHANGED <<supVars, full, merged, mergerFaults, lost>>

Naps(c, n) == [c EXCEPT !.mode = "nap", !.wait = n, !.owes = FALSE,
                        !.budget = 0]

NothingDue(p) ==
    /\ Going(p, "cycle") /\ ~Due(child[p])
    /\ Saves(p, Naps([child[p] EXCEPT !.back = 0], 1), FALSE)
    /\ UNCHANGED <<supVars, full, merged, mergerFaults, lost>>

\* A group is merged and committed.  It is built in the temporary directory,
\* where the fallback file is.  The commit changes the index.
MergeGroup(p, s) ==
    /\ Going(p, "pass") /\ child[p].budget > 0
    /\ "fallback" \notin full /\ merged[s] = Hour
    /\ merged' = [merged EXCEPT ![s] = 0]
    /\ child' = [child EXCEPT ![p] = [child[p] EXCEPT
            !.mode = "merged", !.recent = @ \cup {s}, !.budget = @ - 1,
            !.news = TRUE]]
    /\ UNCHANGED <<supVars, status, full, mergerFaults, lost>>

\* _merged: "recorded before anything else can fail".
NoteMerge(p) ==
    /\ Healthy(p) /\ child[p].mode = "merged"
    /\ Saves(p, [child[p] EXCEPT !.mode = "pass"], FALSE)
    /\ UNCHANGED <<supVars, full, merged, mergerFaults, lost>>

\* The heartbeat inside a pass, and between the naps of a long wait.
Beat(p) ==
    /\ Healthy(p) /\ child[p].owes
    /\ child[p].mode = "pass" \/ (child[p].mode = "nap" /\ child[p].wait > 0)
    /\ Saves(p, [child[p] EXCEPT !.owes = FALSE], FALSE)
    /\ UNCHANGED <<supVars, full, merged, mergerFaults, lost>>

PassEnds(p) ==
    /\ Going(p, "pass")
    /\ \E w \in BOOLEAN :
        Saves(p, Naps([child[p] EXCEPT !.back = 0, !.waiting = w], 1), FALSE)
    /\ UNCHANGED <<supVars, full, merged, mergerFaults, lost>>

\* Slip: the revision counts as seen before the pass is through.
StepFailsSeen(p) ==
    LET b == IF child[p].back = 0 THEN 1 ELSE Least(BackMax, 2 * child[p].back)
    IN  /\ Going(p, "cycle") \/ Going(p, "pass")
        /\ ChildFault
        /\ Saves(p, Naps([child[p] EXCEPT !.back = b, !.news = FALSE], b),
                 FALSE)
        /\ UNCHANGED <<supVars, full, merged, lost>>

\* The revision cannot be read, or the pass raises.
StepFails(p) ==
    LET b == IF child[p].back = 0 THEN 1 ELSE Least(BackMax, 2 * child[p].back)
    IN  /\ Going(p, "cycle") \/ Going(p, "pass")
        /\ ChildFault
        /\ Saves(p, Naps([child[p] EXCEPT !.back = b,
                    !.news = @ \/ child[p].mode = "pass"], b), FALSE)
        /\ UNCHANGED <<supVars, full, merged, lost>>

Wakes(p) ==
    /\ Going(p, "nap") /\ child[p].wait = 0
    /\ child' = [child EXCEPT ![p] = [@ EXCEPT !.mode = "cycle",
                                               !.owes = FALSE]]
    /\ UNCHANGED <<supVars, status, full, merged, mergerFaults, lost>>

\* SIGTERM, or a status file that cannot be written: it stops between groups.
Stops(p) ==
    /\ Healthy(p) /\ child[p].term /\ child[p].mode \in {"cycle", "pass", "nap"}
    /\ status' = IF full = StatusFiles THEN status
                 ELSE [status EXCEPT
                    ![IF "main" \in full THEN "fallback" ELSE "main"] =
                        [pid |-> p, age |-> 0, stopped |-> TRUE,
                         recent |-> child[p].recent]]
    /\ child' = [child EXCEPT ![p] = NoChild]
    /\ lost' = IF full = StatusFiles THEN lost \cup Unnoted(p) ELSE lost
    /\ UNCHANGED <<supVars, full, merged, mergerFaults>>

-----------------------------------------------------------------------------
(* What goes wrong, and the time.                                          *)

ChildCrashes(p) ==
    /\ p \in Alive /\ ChildFault /\ Dies(p)
    /\ UNCHANGED <<supVars, status, full, merged>>

Hang(p) ==
    /\ Healthy(p) /\ ChildFault
    /\ child' = [child EXCEPT ![p].stuck = TRUE]
    /\ UNCHANGED <<supVars, status, full, merged, lost>>

DiskFills(f) ==
    /\ f \notin full /\ ChildFault /\ full' = full \cup {f}
    /\ UNCHANGED <<supVars, hostVars>>

DiskHasRoom(f) ==
    /\ f \in full /\ full' = full \ {f}
    /\ UNCHANGED <<supVars, hostVars, mergerFaults>>

\* Another writer commits the index.
IndexChanges ==
    /\ child' = [p \in Pids |-> IF p \in Alive
                    THEN [child[p] EXCEPT !.news = TRUE] ELSE child[p]]
    /\ child' # child
    /\ UNCHANGED <<supVars, status, full, merged, mergerFaults, lost>>

\* Slip: the watchdog does not look at the fallback.
HeartbeatMain(p) ==
    {status[f] : f \in {g \in {"main"} : status[g].pid = p}}

\* _child_status: what this process wrote, if anything.
Heartbeat(p) == {status[f] : f \in {g \in StatusFiles : status[g].pid = p}}

\* Slip: a child that has never written its status is not hung.
HungSpoken(p) ==
    /\ \E s \in Heartbeat(p) : s.age > HungLimit /\ ~s.stopped
    /\ \A s \in Heartbeat(p) : s.age > HungLimit

\* hung
Hung(p) ==
    /\ \A s \in Heartbeat(p) : s.age > HungLimit
    /\ \A s \in Heartbeat(p) : ~s.stopped
    /\ started > HungLimit

Quiet(p) == \/ child[p].stuck \/ child[p].doomed
            \/ /\ child[p].mode \in {"pass", "nap"} /\ ~child[p].owes
               /\ ~child[p].term
               /\ child[p].mode = "nap" => child[p].wait > 0

Patient == \/ sup.at = "watch" /\ ~Stopping /\ proc \in Alive /\ ~Hung(proc)
           \/ sup.at = "linger" /\ proc \in Alive
           \/ sup.at = "backoff" /\ sup.left > 0
           \/ sup.at = "down"

Elapse(p) ==
    IF child[p].mode \in {"pass", "nap"} /\ Healthy(p)
    THEN [child[p] EXCEPT !.owes = TRUE,
                          !.wait = IF @ > 0 THEN @ - 1 ELSE 0]
    ELSE child[p]

Tick ==
    LET gone == {s \in Slots : merged[s] + 1 >= Hour}
    IN  /\ Patient /\ \A p \in Alive : Quiet(p)
        /\ started' = Least(started + 1, HungLimit + 1)
        /\ sup' = [sup EXCEPT !.left = IF @ > 0 THEN @ - 1 ELSE 0]
        /\ merged' = [s \in Slots |-> Least(merged[s] + 1, Hour)]
        /\ child' = [p \in Pids |-> [Elapse(p) EXCEPT !.recent = @ \ gone]]
        /\ status' = [f \in StatusFiles |-> [status[f] EXCEPT
                !.age = Least(@ + 1, HungLimit + 1), !.recent = @ \ gone]]
        /\ lost' = lost \ gone
        /\ UNCHANGED <<proc, stopper, full, mergerFaults>>

-----------------------------------------------------------------------------
(* The supervisor.                                                         *)

\* A process id that no status file names.
FreshPid == CHOOSE p \in Pids \ Alive : \A f \in StatusFiles : status[f].pid # p

\* Supervisor.run: popen ...
Launch ==
    /\ sup.at = "start" /\ ~Stopping
    /\ proc' = FreshPid
    /\ child' = [child EXCEPT ![proc'] = [NoChild EXCEPT !.mode = "boot"]]
    /\ sup' = [sup EXCEPT !.at = "launched"]
    /\ started' = 0
    /\ UNCHANGED <<stopper, status, full, merged, mergerFaults, lost>>

\* The next backoff: from the start again after a child that ran for long.
Backs ==
    LET b == IF sup.back = 0 \/ started >= BackMax THEN 1
             ELSE Least(BackMax, 2 * sup.back)
    IN  sup' = [at |-> "backoff", back |-> b, left |-> b]

\* Slip: a start that fails ends the supervision.
LaunchFailsForGood ==
    /\ sup.at = "start" /\ ~Stopping /\ ChildFault
    /\ sup' = [sup EXCEPT !.at = "down"]
    /\ UNCHANGED <<proc, started, stopper, hostVars, full>>

LaunchFails ==
    /\ sup.at = "start" /\ ~Stopping /\ ChildFault
    /\ Backs
    /\ UNCHANGED <<proc, started, stopper, hostVars, full>>

\* ... and self.proc, which stop() reads.
Register ==
    /\ sup.at = "launched"
    /\ sup' = [sup EXCEPT !.at = "watch"]
    /\ UNCHANGED <<proc, started, stopper, hostVars, full, mergerFaults>>

\* _wait: the child has ended, ...
SeesExit ==
    /\ sup.at \in {"watch", "term", "linger"} /\ proc \notin Alive
    /\ ~Stopping
    /\ Backs
    /\ UNCHANGED <<proc, started, stopper, hostVars, full, mergerFaults>>

\* ... or is hung: SIGTERM, which a child that hangs does not act upon.
Terminate ==
    /\ sup.at = "watch" /\ ~Stopping /\ proc \in Alive /\ Hung(proc)
    /\ sup' = [sup EXCEPT !.at = "term"]
    /\ child' = [child EXCEPT ![proc].term = TRUE]
    /\ UNCHANGED <<proc, started, stopper, status, full, merged, mergerFaults,
                   lost>>

\* Slip: the supervisor does not wait for the end of what it killed.
SigKillAndOn ==
    /\ sup.at = "term" /\ proc \in Alive
    /\ child' = [child EXCEPT ![proc].doomed = TRUE]
    /\ Backs
    /\ UNCHANGED <<proc, started, stopper, status, full, merged, mergerFaults,
                   lost>>

\* _kill, _gone: SIGKILL after KILL_WAIT_S; it may take its time to die.
SigKill ==
    /\ sup.at = "term" /\ proc \in Alive
    /\ child' = [child EXCEPT ![proc].doomed = TRUE]
    /\ sup' = [sup EXCEPT !.at = "linger"]
    /\ UNCHANGED <<proc, started, stopper, status, full, merged, mergerFaults,
                   lost>>

Killed(p) ==
    /\ child[p].doomed /\ Dies(p)
    /\ UNCHANGED <<supVars, status, full, merged, mergerFaults>>

BackoffEnds ==
    /\ sup.at = "backoff" /\ sup.left = 0 /\ ~Stopping
    /\ sup' = [sup EXCEPT !.at = "start"]
    /\ UNCHANGED <<proc, started, stopper, hostVars, full, mergerFaults>>

SeesStop ==
    /\ Stopping /\ sup.at \notin {"launched", "down"}
    /\ sup' = [sup EXCEPT !.at = "down", !.left = 0]
    /\ UNCHANGED <<proc, started, stopper, hostVars, full, mergerFaults>>

\* stop(), at the interpreter's exit: the flag, then self.proc.
Stop ==
    /\ stopper = "no" /\ stopper' = "set"
    /\ UNCHANGED <<sup, proc, started, hostVars, full, mergerFaults>>

StopChild ==
    /\ stopper = "set" /\ stopper' = "done"
    /\ child' = IF sup.at = "launched" \/ proc \notin Alive THEN child
                ELSE [child EXCEPT ![proc].term = TRUE]
    /\ UNCHANGED <<sup, proc, started, status, full, merged, mergerFaults,
                   lost>>

-----------------------------------------------------------------------------
ChildStep(p) ==
    \/ ChildBoots(p) \/ Look(p) \/ NothingDue(p) \/ NoteMerge(p) \/ Beat(p)
    \/ Wakes(p) \/ Stops(p)

SupervisorStep ==
    \/ Launch \/ Register \/ SeesExit \/ Terminate \/ SigKill \/ BackoffEnds
    \/ SeesStop

MergerNext ==
    \/ SupervisorStep \/ LaunchFails \/ Stop \/ StopChild \/ Tick
    \/ IndexChanges
    \/ \E p \in Pids : \/ ChildStep(p) \/ PassEnds(p) \/ StepFails(p)
                       \/ Killed(p) \/ ChildCrashes(p) \/ Hang(p)
                       \/ \E s \in Slots : MergeGroup(p, s)
    \/ \E f \in StatusFiles : DiskFills(f) \/ DiskHasRoom(f)

\* Threads and processes run, a pass ends, a killed process goes in the end.
MergerFairness ==
    /\ WF_mergerVars(SupervisorStep) /\ WF_mergerVars(StopChild)
    /\ WF_mergerVars(Tick)
    /\ WF_mergerVars(\E p \in Pids : ChildStep(p))
    /\ SF_mergerVars(\E p \in Pids : PassEnds(p))
    /\ WF_mergerVars(\E p \in Pids : Killed(p))

MergerSpec == MergerInit /\ [][MergerNext]_mergerVars /\ MergerFairness

-----------------------------------------------------------------------------
(* Properties.                                                             *)

\* "Never two children" (eventmerger): two mergers would not know of each
\* other's merges.
OneMerger == Cardinality(Alive) <= 1

\* "Merges of an earlier run count toward the cap": no more than MaxPerHour
\* in any hour, but for those a child had no time to note before it died.
HourlyCap ==
    Cardinality({s \in Slots : merged[s] < Hour} \ lost) <= MaxPerHour

\* A child is only killed when it hangs, and never between a merge's commit
\* and its record, as long as it can write its status somewhere.
OnlyHungKilled ==
    [][\A p \in Pids : child'[p].doomed /\ ~child[p].doomed =>
        child[p].stuck \/ full = StatusFiles]_mergerVars

\* One merger at a time, within its cap across its successors, and killed
\* only for a reason.
MergerSound == [](MergerTypeOK /\ OneMerger /\ HourlyCap) /\ OnlyHungKilled

\* There is a merger, or the server stops.
Manned == Alive # {} \/ Stopping
\* No merger hangs, or the server stops.
Awake(p) == ~child[p].stuck \/ Stopping
\* What the index changed to is still to be looked at by a merger at work.
Unseen == \E p \in Alive : child[p].news /\ ~child[p].stuck /\ ~child[p].term

\* A merger forgets that the index changed only as a pass over it begins, and
\* remembers it when that pass fails.
NewsOnlyByPass ==
    [][\A p \in Alive :
        /\ child[p].news /\ ~child'[p].news =>
             child'[p].mode \in {"pass", "off"}
        /\ child[p].mode = "pass" /\ child'[p].mode = "nap"
             /\ child'[p].back # 0 => child'[p].news]_mergerVars

\* The supervisor's promise: a merger runs again and again, one that hangs is
\* replaced, and what the index changed to is looked at.
MergerServes ==
    /\ []<>Manned /\ (\A p \in Pids : []<>Awake(p))
    /\ []<>~Unseen /\ NewsOnlyByPass
=============================================================================
