------------------------------ MODULE ObsStore ------------------------------
(***************************************************************************)
(* The observations of one gauge (hf_data/obs.py): a file of rows and of   *)
(* the windows it covers, which simulations, the nowcast, the feeds and    *)
(* the autocalibration fill from USGS.  A covered window is never asked    *)
(* for again, so what it holds had better be true.                         *)
(*                                                                         *)
(* Time is in days: a day has one row or none, a window is a set of days   *)
(* in a row.  USGS may revise, add and delete the rows of the last Lag     *)
(* days, and lets older ones be.  An answer is whole or empty.             *)
(***************************************************************************)
EXTENDS Integers, FiniteSetsExt

CONSTANTS
    Callers,        \* threads and processes that call get_series
    Requests,       \* what each may ask for: <<from, until, refresh>>
    FirstDay,       \* today, in the initial states
    LastDay,        \* bound: the last day
    Values,         \* discharges, numbered
    Lag, Near,      \* LAG_H and _NEAR in days
    MaxTroubles     \* bound: quiet failures, errors and killed processes

Days == 0..LastDay
NoFlow == 0     \* a day without a row

ASSUME ObsAssumption ==
    /\ FirstDay \in Nat /\ LastDay \in Nat /\ FirstDay <= LastDay
    /\ Values \subseteq Nat \ {NoFlow} /\ Lag \in Nat /\ Near \in Nat
    /\ \A c \in Callers :
          Requests[c] \subseteq Days \X (1..LastDay + 1) \X BOOLEAN
    /\ MaxTroubles \in Nat

VARIABLES
    today,
    usgs,       \* what USGS would answer for each day
    obs,        \* the file; its doubt is history: days covered on an empty
                \* answer, or by an older release
    call,       \* per caller: the copy it works on, and the days left to ask
    troubles

obsVars == <<today, usgs, obs, call, troubles>>

Series == [Days -> Values \cup {NoFlow}]
NoRows == [d \in Days |-> NoFlow]
Closed == [open |-> FALSE, left |-> {}, rows |-> NoRows, cov |-> {},
           held |-> {}, doubt |-> {}]

ObsTypeOK ==
    /\ today \in FirstDay..LastDay /\ usgs \in Series
    /\ obs \in [rows : Series, cov : SUBSET Days, doubt : SUBSET Days]
    /\ call \in [Callers -> [open : BOOLEAN, left : SUBSET Days,
                             rows : Series, cov : SUBSET Days,
                             held : SUBSET Days, doubt : SUBSET Days]]
    /\ troubles \in 0..MaxTroubles

\* The days that are covered at most, and do not change at USGS.
Final == {d \in Days : d < today - Lag}

\* An older release may have covered days on empty answers.
ObsInit ==
    /\ today = FirstDay
    /\ usgs \in {s \in Series : \A d \in Days : d > today => s[d] = NoFlow}
    /\ \E old \in SUBSET Final :
          obs = [rows |-> NoRows, cov |-> old, doubt |-> old]
    /\ call = [c \in Callers |-> Closed] /\ troubles = 0

----------------------------------------------------------------------------
\* Coverage.

\* _inside: a row in the window from a until b
Inside(rows, a, b) == \E d \in Days : a <= d /\ d < b /\ rows[d] # NoFlow

\* _bracketed
Bracketed(rows, a, b) ==
    /\ \E d \in Days : a - Near <= d /\ d < a /\ rows[d] # NoFlow
    /\ \E d \in Days : b <= d /\ d < b + Near /\ rows[d] # NoFlow

\* The covered window day d is in: windows that touch are one (_merge_cov).
Window(cov, d) ==
    {e \in cov : \A x \in Days :
        (e <= x /\ x <= d) \/ (d <= x /\ x <= e) => x \in cov}

\* _trusted
Trusted(cov, rows) ==
    {d \in cov : LET w == Window(cov, d) IN
        \/ \E e \in w : rows[e] # NoFlow
        \/ Bracketed(rows, Min(w), Max(w) + 1)}

\* Slip: rows that USGS has deleted stay.
FilledMerged(x, a, b, got) ==
    [d \in Days |-> IF got[d] # NoFlow THEN got[d] ELSE x.rows[d]]

\* The rows after an answer for the window from a until b: it replaces those
\* of the window, but an empty one leaves the covered ones alone.
Filled(x, a, b, got) ==
    [d \in Days |->
        IF got[d] # NoFlow THEN got[d]
        ELSE IF a <= d /\ d < b /\ (got # NoRows \/ d \notin x.held)
             THEN NoFlow ELSE x.rows[d]]

\* What the answer does to the copy x: the part of the window before the last
\* Lag days is covered, where rows are in it or bracket it.
Taken(x, a, b, got) ==
    LET some == got # NoRows
        rows == Filled(x, a, b, got)
        until == IF b < today - Lag THEN b ELSE today - Lag
        covers == IF some
                  THEN Inside(rows, a, until) \/ Bracketed(rows, a, until)
                  ELSE Bracketed(rows, a, until) /\ ~Inside(rows, a, until)
        new == {d \in Final : covers /\ a <= d /\ d < b}
    IN  [x EXCEPT !.left = {d \in @ : d >= b},
                  !.rows = rows, !.cov = @ \cup new,
                  !.doubt = IF some THEN @ \ new ELSE @ \cup (new \ x.cov)]

----------------------------------------------------------------------------
\* get_series.

\* _load_store, _trusted and _gaps
Loaded(a, b, refresh) ==
    LET kept == Trusted(obs.cov, obs.rows)
        asked == {d \in Days : a <= d /\ d < b}
    IN  [open |-> TRUE, left |-> IF refresh THEN asked ELSE asked \ kept,
         rows |-> obs.rows, cov |-> kept, held |-> kept,
         doubt |-> obs.doubt \cap kept]

\* Slip: no lock across processes.
OpenAnyway(c) ==
    /\ ~call[c].open
    /\ \E r \in Requests[c] :
          call' = [call EXCEPT ![c] = Loaded(r[1], r[2], r[3])]
    /\ UNCHANGED <<today, usgs, obs, troubles>>

\* It opens the store under both locks.
Open(c) ==
    /\ \A o \in Callers : ~call[o].open
    /\ \E r \in Requests[c] :
          call' = [call EXCEPT ![c] = Loaded(r[1], r[2], r[3])]
    /\ UNCHANGED <<today, usgs, obs, troubles>>

Trouble == troubles < MaxTroubles /\ troubles' = troubles + 1

\* The first of the windows left: from its first day until a day not left.
IsGap(left, a, b) ==
    /\ a \in left /\ \A d \in left : a <= d
    /\ b \in 1..(LastDay + 1) /\ a < b /\ b \notin left
    /\ \A d \in Days : a <= d /\ d < b => d \in left

\* fetch_usgs_discharge asks for a day more on each side.
Heard(a, b) ==
    [d \in Days |-> IF a - 1 <= d /\ d <= b THEN usgs[d] ELSE NoFlow]

\* An answer, which is empty where USGS fails quietly, or an error, and the
\* window stays uncovered.
Fetch(c) ==
    \E a \in call[c].left : \E b \in 1..(LastDay + 1) :
        /\ call[c].open /\ IsGap(call[c].left, a, b)
        /\ \/ /\ call' = [call EXCEPT ![c] = Taken(@, a, b, Heard(a, b))]
              /\ UNCHANGED troubles
           \/ /\ call' = [call EXCEPT ![c] = Taken(@, a, b, NoRows)]
              /\ Trouble
           \/ /\ call' = [call EXCEPT ![c].left = {d \in @ : d >= b}]
              /\ Trouble
        /\ UNCHANGED <<today, usgs, obs>>

\* _save_store replaces the file; a call that changed nothing writes nothing.
Store(c) ==
    /\ call[c].open /\ call[c].left = {}
    /\ obs' = [rows |-> call[c].rows, cov |-> call[c].cov,
               doubt |-> call[c].doubt]
    /\ call' = [call EXCEPT ![c] = Closed]
    /\ UNCHANGED <<today, usgs, troubles>>

\* Its locks go with it.
Killed(c) ==
    /\ call[c].open /\ call' = [call EXCEPT ![c] = Closed] /\ Trouble
    /\ UNCHANGED <<today, usgs, obs>>

\* USGS gets the rows of a new day, or revises those of the last days; a
\* fetch and the look at the clock after it are one step.
Gauged ==
    /\ today' \in {today, today + 1} \cap Days
    /\ usgs' \in {s \in Series :
                    /\ \A d \in Final : s[d] = usgs[d]
                    /\ \A d \in Days : d > today' => s[d] = NoFlow}
    /\ UNCHANGED <<obs, call, troubles>>

ObsNext ==
    \/ \E c \in Callers : Open(c) \/ Fetch(c) \/ Store(c) \/ Killed(c)
    \/ Gauged

ObsSpec == ObsInit /\ [][ObsNext]_obsVars

----------------------------------------------------------------------------
\* What is covered, and not on an empty answer alone, is what USGS has.
StoreTrue ==
    \A d \in obs.cov \ obs.doubt : d \in Final /\ obs.rows[d] = usgs[d]

\* A row that is covered stays so, whoever saves next.
RowsKept ==
    \A d \in obs.cov \ obs.doubt :
        obs.rows[d] # NoFlow => /\ d \in obs'.cov \ obs'.doubt
                                /\ obs'.rows[d] = obs.rows[d]

\* The covered part of the store is true and stays: USGS's late revisions and
\* deletions reach it, an empty answer, a failed or a killed call and the
\* call of another process take nothing from it (get_series, _store_lock).
ObsSound == [](ObsTypeOK /\ StoreTrue) /\ [][RowsKept]_obsVars
=============================================================================
