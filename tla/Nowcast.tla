------------------------------ MODULE Nowcast -------------------------------
(***************************************************************************)
(* The hourly nowcast (scripts/run_nowcast_all.py).  A run is issued for   *)
(* the newest stored radar hour and ends in one commit.  It decides per    *)
(* gauge which of two models is shown, from a streak of clean hours kept   *)
(* in a state file; a fetch that failed must not count against a gauge.    *)
(* And it extends the week of hourly analyses of the virtual points, which *)
(* exists nowhere but in the file of the last run and in its archive.      *)
(*                                                                         *)
(* Ages are in hours behind the newest radar hour.                         *)
(***************************************************************************)
EXTENDS Integers, FiniteSets

CONSTANTS
  Stations,      \* the gauges
  Chunk(_),      \* the request a gauge's observations come with
  Winners,       \* gauges where the table says v1 is the better model
  OutageTenths,  \* more dark gauges than this many tenths: our outage
  Probation,     \* hours of a clean streak before a gauge is healthy
  Week           \* hours of analysis the virtual file keeps

ASSUME NowcastAssumption ==
  Winners \subseteq Stations /\ {Probation, Week} \subseteq Nat \ {0}

VARIABLES
  since,   \* state file: hours of the clean streak, or none, or unknown
  kept,    \* state file: the health of the last run that counted
  issue,   \* the age of the published issue
  v1,      \* the gauges it shows v1 at
  pure,    \* whether it was issued without v3
  strike,  \* gauges dark when their data was last really fetched
  clean,   \* hours since a gauge's last confirmed gap or unread state
  vage,    \* the age of the virtual file
  vhist,   \* the hours of analysis in it, by age
  arch,    \* the archived virtual issues, by age
  holes    \* hours of analysis that failed reads have lost

gauged == <<since, kept, v1, pure, strike, clean>>
virtual == <<vage, vhist, arch, holes>>
nvars == <<gauged, issue, virtual>>

Unknown == -2
NoStreak == -1
Capped(n, most) == IF n < most THEN n ELSE most
(* The virtual file is older than the week it holds, or there is none. *)
NoFile == Week + 1

-----------------------------------------------------------------------------
NInit ==
  /\ since = [g \in Stations |-> Unknown]
  /\ kept = [g \in Stations |-> "none"]
  /\ v1 = {} /\ pure = FALSE /\ issue = NoFile
  /\ strike = {} /\ clean = [g \in Stations |-> 0]
  /\ vage = NoFile /\ vhist = {} /\ arch = {} /\ holes = {}

(* A new radar hour is stored. *)
Later(hours, most) == {a + 1 : a \in hours} \cap 0..most
RadarHour ==
  /\ since' = [g \in Stations |->
       IF since[g] < 0 THEN since[g] ELSE Capped(since[g] + 1, Probation)]
  /\ clean' = [g \in Stations |-> Capped(clean[g] + 1, Probation)]
  /\ issue' = Capped(issue + 1, NoFile) /\ vage' = Capped(vage + 1, NoFile)
  /\ vhist' = Later(vhist, Week - 1) /\ holes' = Later(holes, Week - 1)
  /\ arch' = Later(arch, Week)
  /\ UNCHANGED <<kept, v1, pure, strike>>

-----------------------------------------------------------------------------
(* So many gauges are dark that the fetch must have failed as a whole. *)
Outage(dark) == 10 * Cardinality(dark) > OutageTenths * Cardinality(Stations)
(* A dark gauge whose silence may be ours: nothing is held against it. *)
Excused(g, dark, lost) == Outage(dark) \/ Chunk(g) \in lost
(* Slip: a lost request is kept as a first dark hour. *)
StoredExcusedSuspect(health) == "suspect"
(* What an excused gauge's stored health becomes: what it was. *)
StoredExcused(health) == IF health = "none" THEN "probation" ELSE health
(* Slip: only a gap is followed by a gap. *)
ConfirmedGap(streak, health) == health = "gap" \/ streak = Unknown
(* A second dark run in a row, or the first of an unknown gauge: a gap. *)
Confirmed(streak, health) ==
  health \in {"suspect", "gap"} \/ streak = Unknown
(* The streak of a gauge that reports: it goes on, or begins now. *)
Streak(streak) == IF streak < 0 THEN 0 ELSE streak

(* The verdict on a gauge: its streak, the health to store and to show. *)
Verdict(g, dark, lost, streak, health) ==
  CASE g \in dark /\ Excused(g, dark, lost) ->
         [since |-> IF streak = Unknown THEN NoStreak ELSE streak,
          kept |-> StoredExcused(health), shown |-> "suspect"]
    [] g \in dark /\ ~Excused(g, dark, lost) /\ Confirmed(streak, health) ->
         [since |-> NoStreak, kept |-> "gap", shown |-> "gap"]
    [] g \in dark /\ ~Excused(g, dark, lost) /\ ~Confirmed(streak, health) ->
         [since |-> streak, kept |-> "suspect", shown |-> "suspect"]
    [] OTHER ->
         LET health2 == IF Streak(streak) >= Probation THEN "healthy"
                                                       ELSE "probation"
         IN [since |-> Streak(streak), kept |-> health2, shown |-> health2]

(* The gauged part: `dark` gauges have no observation of the last hours,   *)
(* among them all those of the lost requests; the state file, the table of *)
(* winners and v3 may be unreadable.                                       *)
Gauged(dark, lost, state, table, v3) ==
  LET judged == [g \in Stations |->
        Verdict(g, dark, lost, IF state THEN since[g] ELSE Unknown,
                               IF state THEN kept[g] ELSE "none")]
      healthy == {g \in Stations : judged[g].shown = "healthy"}
      fetched == {g \in Stations : ~(g \in dark /\ Excused(g, dark, lost))}
  IN /\ since' = [g \in Stations |-> judged[g].since]
     /\ kept' = [g \in Stations |-> judged[g].kept]
     /\ v1' = IF ~v3 THEN Stations
              ELSE IF table THEN healthy \cap Winners ELSE healthy
     /\ pure' = ~v3
     /\ strike' = (strike \ fetched) \cup (dark \cap fetched)
     /\ clean' = [g \in Stations |->
          IF ~state \/ (g \in dark \cap fetched \cap strike) THEN 0
          ELSE clean[g]]

(* What the new virtual file's history is made of: the last file's, with   *)
(* the hour its first prediction was for - not again when the run repeats  *)
(* the file's own hour.  Without a readable file it is filled from the     *)
(* archive, as far as that can be read.                                    *)
Extended == vhist \cup ({vage - 1} \cap 0..(Week - 1))
(* Slip: the archive is read up to the hour before the last issue's. *)
ArchivedBut == {a - 1 : a \in arch \cap 2..Week}
Archived == {a - 1 : a \in arch \cap 1..Week}
History(readable, unread) ==
  IF readable THEN Extended ELSE Archived \ unread

Virtual ==
  \/ UNCHANGED virtual                       \* v3 or the points failed
  \/ /\ \/ /\ vage # NoFile
           /\ vhist' = History(TRUE, {}) /\ holes' = holes
        \/ \E unread \in SUBSET Archived :
             vhist' = History(FALSE, unread) /\ holes' = unread
        \/ vhist' = {} /\ holes' = Archived  \* the history itself failed
     /\ vage' = 0 /\ arch' = arch \cup {0}

(* One run, for the newest radar hour.  One that fails or stops before its *)
(* commit changes nothing.                                                 *)
Run ==
  /\ \E lost \in SUBSET {Chunk(g) : g \in Stations}, state \in BOOLEAN :
     \E quiet \in SUBSET {g \in Stations : Chunk(g) \notin lost} :
       LET dark == {g \in Stations : Chunk(g) \in lost} \cup quiet
       IN \/ \E table \in BOOLEAN :
               Gauged(dark, lost, state, table, TRUE) /\ Virtual
          \/ Gauged(dark, lost, state, TRUE, FALSE) /\ UNCHANGED virtual
  /\ issue' = 0

NNext == RadarHour \/ Run
NSpec == NInit /\ [][NNext]_nvars

-----------------------------------------------------------------------------
(* A clean streak ends only by two runs that really got a gauge's data and *)
(* found it dark, or when the state file could not be read; and v1 is      *)
(* shown at a gauge, unless v3 is gone, only after a month without either, *)
(* and where the gauge's data was fetched this hour.                       *)
StreakFair ==
  [][\A g \in Stations : since[g] >= 0 /\ since'[g] < since[g] =>
       clean'[g] = 0]_nvars
V1Clean == pure \/ \A g \in v1 : clean[g] = Probation /\ g \notin strike

(* The week of analyses has the hour of every archived issue before the    *)
(* file's own, whichever runs failed or were repeated, but for the hours   *)
(* that failed reads have lost.                                            *)
HistoryWhole ==
  \A a \in arch \cap 1..Week : a > vage => a - 1 \in vhist \cup holes

NowcastSound == StreakFair /\ [](V1Clean /\ HistoryWhole)

NTypeOK ==
  /\ since \in [Stations -> Unknown..Probation]
  /\ kept \in [Stations -> {"none", "healthy", "probation", "suspect",
                            "gap"}]
  /\ v1 \cup strike \subseteq Stations /\ pure \in BOOLEAN
  /\ clean \in [Stations -> 0..Probation]
  /\ issue \in 0..NoFile /\ vage \in 0..NoFile
  /\ vhist \cup holes \subseteq 0..(Week - 1) /\ arch \subseteq 0..Week
=============================================================================
