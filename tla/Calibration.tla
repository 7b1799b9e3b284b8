---------------------------- MODULE Calibration ----------------------------
(***************************************************************************)
(* A calibration (hf_data/calibrate.py) and who consumes it: a job of the  *)
(* dashboard, whose append-only log each watcher follows with a cursor of  *)
(* its own (hf_data/caljobs.py, server._drain), or the autocalibration     *)
(* loop, which stops consuming when user work appears                      *)
(* (autocal_run.calibrate_one).  The calibration is a generator: it goes   *)
(* on at its consumer's pace, and is recorded on the side                  *)
(* (hf_data/caltrace.py).                                                  *)
(*                                                                         *)
(* An NSE is one of 0..Top, NoNse where a run gave none.                   *)
(***************************************************************************)
EXTENDS Integers, FiniteSets

CONSTANTS
    Users,          \* calibrations asked for on the dashboard
    Autos,          \* the autocalibration loop's
    Watchers(_),    \* the streams a job's page opens
    Rounds, K,      \* the standard stage
    ExtRounds, ExtK,\* the extended stage
    Top, ExtNse,    \* the best NSE; what is poor enough to go on
    MaxBreaks       \* bound: streams the client breaks off

ASSUME CalibrationAssumption ==
    /\ Rounds \in Nat /\ K \in Nat /\ ExtRounds \in Nat /\ ExtK \in Nat
    /\ Top \in Nat

NoNse == -1
Scores == NoNse..Top
Cals == Users \cup Autos

VARIABLES
    cal,        \* per calibration: where it is and what it has found
    trace,      \* per calibration: finished, and what was uploaded
    stored,     \* NSE of the parameters stored: the dashboard's, autocal's
    log,        \* per job: events so far, ended (cal_done is the last),
                \* done (the thread is over)
    stream,     \* per watcher: where it is, its cursor
    breaks

calVars == <<cal, trace, stored, log, stream, breaks>>

Fresh == [at |-> "start", base |-> NoNse, best |-> NoNse, round |-> 0,
          left |-> Rounds, extended |-> FALSE, llm |-> 0, runs |-> 0,
          stopped |-> FALSE, saved |-> FALSE, cur |-> NoNse]
Streams == UNION {Watchers(c) : c \in Users}

CalibrationInit ==
    /\ cal = [c \in Cals |-> Fresh]
    /\ trace = [c \in Cals |-> [over |-> FALSE, rounds |-> 0, up |-> {}]]
    /\ stored \in [{"dash", "autocal"} -> {NoNse, 0}]
    /\ log = [c \in Users |-> [n |-> 0, ended |-> FALSE, done |-> FALSE]]
    /\ stream = [w \in Streams |-> [at |-> "none", cursor |-> 0]]
    /\ breaks = 0

Store(c) == IF c \in Users THEN "dash" ELSE "autocal"
\* the job's thread logs what the calibration yields
Yields(c, ends) ==
    log' = IF c \in Users
           THEN [log EXCEPT ![c].n = @ + 1, ![c].ended = ends] ELSE log

\* Recorder.finish: uploads once, if there is a baseline to look at
Finish(c, status, t) ==
    IF t[c].over THEN t
    ELSE [t EXCEPT ![c].over = TRUE,
            ![c].up = IF cal[c].at = "start" THEN {}
                      ELSE @ \cup {<<status, t[c].rounds>>}]
Discard(c, t) == [t EXCEPT ![c].over = TRUE]

-----------------------------------------------------------------------------
(* The search.                                                             *)

Baseline(c) ==
    /\ cal[c].at = "start"
    /\ \E s \in Scores :
          cal' = [cal EXCEPT ![c].at = "search", ![c].base = s,
                             ![c].best = s, ![c].runs = 1]
    /\ Yields(c, FALSE) /\ UNCHANGED <<trace, stored, stream, breaks>>

\* propose: the LLM's candidates, or the ladder's when there is no LLM, it
\* fails, or none of its candidates changes a parameter that may change.
Sources == {"llm", "heuristic"}

OfLoop(c) == c \in Autos
\* require_llm: no round before this one had the LLM's candidates
Unwanted(c, source) == OfLoop(c) /\ cal[c].llm = 0 /\ source # "llm"

Size(c) == IF cal[c].extended THEN ExtK ELSE K
Round(c) ==
    /\ cal[c].at = "search" /\ cal[c].left > 0
    /\ \E source \in Sources, best \in cal[c].best..Top :
          /\ ~Unwanted(c, source)
          /\ cal' = [cal EXCEPT ![c].round = @ + 1, ![c].left = @ - 1,
                        ![c].llm = @ + IF source = "llm" THEN 1 ELSE 0,
                        ![c].runs = @ + Size(c), ![c].best = best]
          /\ trace' = [trace EXCEPT ![c].rounds = @ + 1]
    /\ Yields(c, FALSE) /\ UNCHANGED <<stored, stream, breaks>>
\* a heuristic-only search is not wanted here
Stops(c) ==
    /\ cal[c].at = "search" /\ cal[c].left > 0 /\ Unwanted(c, "heuristic")
    /\ cal' = [cal EXCEPT ![c].at = "judge", ![c].stopped = TRUE]
    /\ Yields(c, FALSE) /\ UNCHANGED <<trace, stored, stream, breaks>>

\* Slip: a fit that stays poor is extended again.
StillPoorAgain(c) == cal[c].best < ExtNse
StillPoor(c) == ~cal[c].extended /\ cal[c].best < ExtNse
StageEnds(c) ==
    /\ cal[c].at = "search" /\ cal[c].left = 0
    /\ cal' = IF StillPoor(c)
              THEN [cal EXCEPT ![c].extended = TRUE, ![c].left = ExtRounds]
              ELSE [cal EXCEPT ![c].at = "judge"]
    /\ UNCHANGED <<trace, stored, log, stream, breaks>>

\* a run of the model raises where nothing catches it: the baseline's, or
\* the reading of the stored parameters
Raises(c) ==
    /\ cal[c].at = "start"
    /\ cal' = [cal EXCEPT ![c].at = "failed"]
    /\ trace' = Finish(c, "incomplete", trace)
    /\ Yields(c, TRUE) /\ UNCHANGED <<stored, stream, breaks>>

-----------------------------------------------------------------------------
(* The end.                                                                *)

WorthSaving(c) == /\ cal[c].best # NoNse
                  /\ ~(OfLoop(c) /\ cal[c].llm = 0)

\* maybe_save: reads what is stored, which another may replace meanwhile
Judges(c) ==
    /\ cal[c].at = "judge"
    /\ cal' = IF WorthSaving(c)
              THEN [cal EXCEPT ![c].at = "save", ![c].cur = stored[Store(c)]]
              ELSE [cal EXCEPT ![c].at = "done"]
    /\ UNCHANGED <<trace, stored, log, stream, breaks>>

\* Slip: the winner is judged by the stored NSE, of whatever window.
BeatsStored(c) == cal[c].best > cal[c].cur
\* of the baseline on this window, for the loop; else of what is stored
Beats(c) == IF OfLoop(c) /\ cal[c].base # NoNse THEN cal[c].best > cal[c].base
            ELSE cal[c].best > cal[c].cur
Saves(c) ==
    /\ cal[c].at = "save"
    /\ IF Beats(c)
       THEN /\ stored' = [stored EXCEPT ![Store(c)] = cal[c].best]
            /\ cal' = [cal EXCEPT ![c].saved = TRUE,
                          ![c].at = IF OfLoop(c) THEN "push" ELSE "done"]
       ELSE /\ cal' = [cal EXCEPT ![c].at = "done"]
            /\ UNCHANGED stored
    /\ UNCHANGED <<trace, log, stream, breaks>>
\* push_remote, as it may; then a status the loop sees
Pushes(c) == /\ cal[c].at = "push"
             /\ cal' = [cal EXCEPT ![c].at = "pushed"]
             /\ UNCHANGED <<trace, stored, log, stream, breaks>>
GoesOn(c) == /\ cal[c].at = "pushed"
             /\ cal' = [cal EXCEPT ![c].at = "done"]
             /\ UNCHANGED <<trace, stored, log, stream, breaks>>
\* Slip: the trace of a search that stopped is uploaded like any other.
RecordedAlways(c) == Finish(c, "complete", trace)
Recorded(c) == IF cal[c].stopped THEN Discard(c, trace)
               ELSE Finish(c, "complete", trace)
Done(c) == /\ cal[c].at = "done"
           /\ cal' = [cal EXCEPT ![c].at = "over"]
           /\ trace' = Recorded(c)
           /\ Yields(c, TRUE) /\ UNCHANGED <<stored, stream, breaks>>

\* Slip: the loop yields to user work at any status.
PreemptableAny == {"start", "search", "pushed"}
\* user work appears: the loop drops the generator between two steps, never
\* once the winner is saved
Preemptable == {"start", "search"}
Preempted(c) == /\ OfLoop(c)
                /\ \/ cal[c].at \in Preemptable
                   \/ cal[c].at = "judge" /\ cal[c].stopped
                /\ cal' = [cal EXCEPT ![c].at = "preempted"]
                /\ trace' = Finish(c, "stopped", trace)
                /\ UNCHANGED <<stored, log, stream, breaks>>

\* Slip: the thread is over before its last event is logged.
ThreadDoneEarly(c) == cal[c].at \in {"done", "over", "failed"}
ThreadDone(c) == cal[c].at \in {"over", "failed"}
ThreadEnds(c) == /\ c \in Users /\ ~log[c].done /\ ThreadDone(c)
                 /\ log' = [log EXCEPT ![c].done = TRUE]
                 /\ UNCHANGED <<cal, trace, stored, stream, breaks>>

-----------------------------------------------------------------------------
(* The streams: _drain looks at the log, and then at the thread.           *)

Moves(w, at, cursor) ==
    /\ stream' = [stream EXCEPT ![w] = [at |-> at, cursor |-> cursor]]
    /\ UNCHANGED <<cal, trace, stored, log, breaks>>

Opens(c, w) == /\ stream[w].at = "none" /\ cal[c].at # "start"
               /\ Moves(w, "log", 0)
Sends(c, w) ==
    /\ stream[w].at = "log" /\ stream[w].cursor < log[c].n
    /\ LET last == log[c].ended /\ stream[w].cursor + 1 = log[c].n IN
       Moves(w, IF last THEN "told" ELSE "log", stream[w].cursor + 1)
NothingNew(c, w) == /\ stream[w].at = "log" /\ stream[w].cursor = log[c].n
                    /\ Moves(w, "thread", stream[w].cursor)
Waits(c, w) == /\ stream[w].at = "thread" /\ ~log[c].done
               /\ Moves(w, "log", stream[w].cursor)
Closes(c, w) == /\ stream[w].at = "thread" /\ log[c].done
                /\ Moves(w, "closed", stream[w].cursor)
\* the page is left or reloaded, and asks again from the start
Breaks(w) == /\ stream[w].at \in {"log", "thread"} /\ breaks < MaxBreaks
             /\ breaks' = breaks + 1
             /\ stream' = [stream EXCEPT ![w] = [at |-> "none", cursor |-> 0]]
             /\ UNCHANGED <<cal, trace, stored, log>>

-----------------------------------------------------------------------------
Search(c) == Baseline(c) \/ Round(c) \/ Stops(c) \/ StageEnds(c) \/ Raises(c)
End(c) == \/ Judges(c) \/ Saves(c) \/ Pushes(c) \/ GoesOn(c) \/ Done(c)
          \/ ThreadEnds(c)
Drain(c, w) == \/ Opens(c, w) \/ Sends(c, w) \/ NothingNew(c, w)
               \/ Waits(c, w) \/ Closes(c, w)

CalibrationNext ==
    \/ \E c \in Cals : Search(c) \/ End(c) \/ Preempted(c)
    \/ \E c \in Users : \E w \in Watchers(c) : Drain(c, w) \/ Breaks(w)

(* The job's thread runs, the loop consumes, and the server follows a log  *)
(* for as long as the client listens.                                      *)
CalibrationSpec ==
    /\ CalibrationInit /\ [][CalibrationNext]_calVars
    /\ \A c \in Cals : WF_calVars(Search(c) \/ End(c))
    /\ \A c \in Users : \A w \in Watchers(c) : WF_calVars(Drain(c, w))

-----------------------------------------------------------------------------
(* Properties.                                                             *)

(* The loop saves a winner only of a search that had the LLM's candidates  *)
(* and that beats the baseline of its own window; and once it is saved,    *)
(* the calibration is not dropped: it is recorded, not repeated            *)
(* (autocal_run.py 921-922).                                               *)
LoopSavesSoundly ==
    \A c \in Autos : cal[c].saved =>
        /\ cal[c].llm > 0
        /\ cal[c].base # NoNse => cal[c].best > cal[c].base
        /\ cal[c].at # "preempted"
LoopLosesNone ==
    \A c \in Autos :
        cal[c].at = "over" /\ cal[c].llm > 0 /\ cal[c].base # NoNse
            => cal[c].saved \/ cal[c].best <= cal[c].base

(* A calibration's trace is uploaded once at most, "complete" only when it *)
(* is over and with all its rounds, and never that of a search that was    *)
(* stopped for want of the LLM.                                            *)
TracedOnce ==
    \A c \in Cals :
        /\ Cardinality(trace[c].up) <= 1
        /\ cal[c].stopped /\ cal[c].at # "preempted" => trace[c].up = {}
        /\ \A u \in trace[c].up :
              /\ u[1] = "complete" => cal[c].at = "over"
              /\ u[2] = cal[c].round

(* The thread of a job is not over before cal_done is logged, which is the *)
(* last event; and a search never runs more than its two budgets.          *)
LogEnds ==
    /\ \A c \in Users : /\ log[c].done => log[c].ended
                        /\ log[c].ended => cal[c].at \in {"over", "failed"}
    /\ \A c \in Cals :
          cal[c].runs <= 1 + Rounds * K + ExtRounds * ExtK

CalibrationSound ==
    LoopSavesSoundly /\ LoopLosesNone /\ TracedOnce /\ LogEnds

(* Every calibration ends, poor fits included, and so does every stream    *)
(* that was opened: with cal_done, or because the thread is over.          *)
Over(c) == cal[c].at \in {"over", "failed", "preempted"}
Followed(w) == stream[w].at \in {"told", "closed"}
CalibrationsEnd == /\ \A c \in Cals : <>Over(c)
                   /\ \A w \in Streams : <>[]Followed(w)
=============================================================================
