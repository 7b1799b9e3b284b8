------------------------------ MODULE Updater -------------------------------
(***************************************************************************)
(* The Space that refreshes the data feeds (updater_space/app.py) and the  *)
(* month tars its scripts write (scripts/forcing_update_common.py).  One   *)
(* run at a time, under a lock: the scripts it was asked for, the light    *)
(* hourly ones first, then the freshness check, whose report decides which *)
(* stalled archive feed the same run then repairs.  The Space starts a run *)
(* of its own at :58, when the radar hour has just been posted.            *)
(*                                                                         *)
(* The dial goes round the hour: "early" from :58 to :48, "late" until the *)
(* new radar hour is posted around :50, "posted" until :58.  Ages are in   *)
(* hours; an archive member stands for an hour as well.                    *)
(***************************************************************************)
EXTENDS Integers, FiniteSets, FiniteSetsExt

CONSTANTS
  Heavy,        \* the archive feeds: temp, pet, mrms
  HealThresh,   \* a lag above this is repaired
  Cooldown,     \* hours between two repairs of a feed
  SourceLag,    \* hours after which a source has a member
  Back,         \* hours that an update looks back
  MaxPosts,     \* bound: runs asked for from outside
  MaxMishaps    \* bound: scripts, requests and runs that fail, restarts

ASSUME UpdaterAssumption ==
  /\ Heavy \cap {"mrms_recent", "nowcast"} = {}
  /\ {Cooldown, Back, MaxPosts, MaxMishaps} \subseteq Nat
  /\ SourceLag \in 0..HealThresh /\ HealThresh \in 0..(Back - 1)

VARIABLES
  dial,       \* the part of the hour
  phase,      \* what the run that holds the lock is at, or "idle"
  queued,     \* scripts it has still to run
  lastFeeds,  \* _state["last_feeds"]
  finished,   \* the last run finished within ten minutes
  healed,     \* hours since a feed's last repair, Cooldown for long ago
  booting,    \* the run after the boot has not begun
  tars,       \* the archive: the ages of each feed's members
  radar,      \* the age of the newest radar hour stored
  shown,      \* the age of the published nowcast
  moved,      \* moves of the dial since the script at work began
  posts,      \* runs asked for from outside so far
  mishaps     \* failures and restarts so far

schedule == <<phase, queued, lastFeeds, finished, healed, booting, moved>>
store == <<tars, radar, shown>>
fvars == <<dial, schedule, store, posts, mishaps>>

AutoFeeds == {"mrms_recent", "nowcast"}
Feeds == AutoFeeds \cup Heavy
MaxAge == 2
UpTo(n, most) == IF n < most THEN n + 1 ELSE most

(* The lag that the check finds: that of a feed's newest member. *)
LagOf(f) == Min(tars[f] \cup {Back + 1})

Mishap == mishaps < MaxMishaps /\ mishaps' = mishaps + 1
NoMishap == UNCHANGED mishaps

-----------------------------------------------------------------------------
FInit ==
  /\ dial = "early" /\ phase = "idle" /\ queued = {} /\ lastFeeds = {}
  /\ finished = FALSE /\ healed = [f \in Heavy |-> Cooldown]
  /\ booting = TRUE /\ moved = 0
  /\ tars = [f \in Heavy |-> SourceLag..Back]
  /\ radar = 0 /\ shown = 0 /\ posts = 0 /\ mishaps = 0

(* _start, with the lock free. *)
Start(feeds) ==
  /\ phase' = "feeds" /\ queued' = feeds /\ lastFeeds' = feeds /\ moved' = 0

KickOff ==
  /\ booting /\ booting' = FALSE
  /\ IF phase = "idle" THEN Start(AutoFeeds)
                       ELSE UNCHANGED <<phase, queued, lastFeeds, moved>>
  /\ UNCHANGED <<dial, finished, healed, store, posts, mishaps>>

(* POST /api/run; while a run is going it is refused. *)
PostRun(feeds) ==
  /\ phase = "idle" /\ posts < MaxPosts /\ posts' = posts + 1
  /\ Start(feeds)
  /\ UNCHANGED <<dial, finished, healed, booting, store, mishaps>>

(* Slip: any run that has finished counts, however long ago. *)
JustRunEver(done) == AutoFeeds \subseteq lastFeeds
(* A run that finished ten minutes ago and was asked for the hourly feeds. *)
JustRun(done) == done /\ AutoFeeds \subseteq lastFeeds

(* The light scripts take minutes, the archive feeds any time. *)
Quick == phase = "feeds" /\ queued \cap AutoFeeds # {}
DialMoves ==
  /\ Quick => moved = 0
  /\ moved' = IF phase = "idle" THEN 0 ELSE 1

(* :48, from when on a run that finishes counts as recent at :58. *)
TurnsLate ==
  /\ dial = "early" /\ dial' = "late" /\ DialMoves
  /\ finished' = FALSE
  /\ UNCHANGED <<phase, queued, lastFeeds, healed, booting, store, posts,
                 mishaps>>

(* The radar hour is posted, and everything is an hour older. *)
HourPosted ==
  /\ dial = "late" /\ dial' = "posted" /\ DialMoves
  /\ tars' = [f \in Heavy |-> {a + 1 : a \in tars[f]} \cap 0..Back]
  /\ radar' = UpTo(radar, MaxAge) /\ shown' = UpTo(shown, MaxAge)
  /\ healed' = [f \in Heavy |-> UpTo(healed[f], Cooldown)]
  /\ UNCHANGED <<phase, queued, lastFeeds, finished, booting, posts,
                 mishaps>>

(* :58, the Space's own run, unless one is going or has just been. *)
SelfRun ==
  /\ dial = "posted" /\ dial' = "early"
  /\ IF phase = "idle" /\ ~JustRun(finished)
     THEN Start(AutoFeeds)
     ELSE DialMoves /\ UNCHANGED <<phase, queued, lastFeeds>>
  /\ UNCHANGED <<finished, healed, booting, store, posts, mishaps>>

-----------------------------------------------------------------------------
(* Scripts run in the order of FEEDS. *)
Turn(f) ==
  /\ phase \in {"feeds", "heal"} /\ f \in queued
  /\ f # "mrms_recent" => "mrms_recent" \notin queued
  /\ f \in Heavy => "nowcast" \notin queued

(* A script ends, whatever comes of it; the check is the next when it was  *)
(* the last.                                                               *)
ScriptEnds(f) ==
  /\ Turn(f) /\ queued' = queued \ {f} /\ moved' = 0
  /\ phase' = IF queued' # {} THEN phase
              ELSE IF phase = "feeds" THEN "check" ELSE "recheck"
  /\ UNCHANGED <<dial, lastFeeds, finished, booting, posts>>

ScriptFails(f) ==
  /\ ScriptEnds(f) /\ Mishap /\ UNCHANGED store
  /\ healed' = IF phase = "heal" THEN [healed EXCEPT ![f] = 0] ELSE healed

(* update_mrms_recent.py: the hours NCEP has and the store lacks. *)
StoreRadar ==
  /\ ScriptEnds("mrms_recent") /\ NoMishap
  /\ radar' = 0
  /\ UNCHANGED <<tars, shown, healed>>

(* run_nowcast_all.py issues for the newest radar hour stored. *)
IssueNowcast ==
  /\ ScriptEnds("nowcast") /\ NoMishap
  /\ shown' = radar
  /\ UNCHANGED <<tars, radar, healed>>

(* update_month: the members the tar lacks are fetched, and a tar of the   *)
(* old and the new ones replaces it.  A tar that cannot be downloaded is   *)
(* taken for one that does not exist yet.  A source may fail to give some  *)
(* of the members.                                                         *)
UpdateMonth(f) ==
  /\ ScriptEnds(f)
  /\ \E have \in {tars[f], {}} :
     \E got \in SUBSET (SourceLag..Back \ have) :
       LET bad == Cardinality({have} \ {tars[f]})
                  + Cardinality({got} \ {SourceLag..Back \ have})
       IN /\ mishaps + bad <= MaxMishaps /\ mishaps' = mishaps + bad
          /\ tars' = [tars EXCEPT ![f] = IF got = {} THEN @ ELSE have \cup got]
  /\ healed' = IF phase = "heal" THEN [healed EXCEPT ![f] = 0] ELSE healed
  /\ UNCHANGED <<radar, shown>>

-----------------------------------------------------------------------------
(* _run_all is over: the lock is free. *)
RunOver ==
  /\ phase' = "idle" /\ queued' = {} /\ moved' = 0
  /\ finished' = (dial # "early")
  /\ UNCHANGED <<dial, lastFeeds, booting, store, posts>>

(* The feeds that a report shows to lag, when this run was not for them    *)
(* and they have not just been repaired.                                   *)
Healable(f, report) ==
  /\ f \in report /\ f \notin lastFeeds /\ LagOf(f) > HealThresh
  /\ healed[f] = Cooldown

(* The check reports the lag of each feed it can read, the tick is asked   *)
(* for, and the stalled feeds are repaired or the run is over.             *)
CheckEnds ==
  /\ phase = "check"
  /\ \E report \in {Heavy, {}} :
       /\ IF report = Heavy THEN NoMishap ELSE Mishap
       /\ LET heal == {f \in Heavy : Healable(f, report)}
          IN IF heal = {} THEN RunOver /\ UNCHANGED healed
             ELSE /\ phase' = "heal" /\ queued' = heal /\ moved' = 0
                  /\ UNCHANGED <<dial, lastFeeds, finished, healed, booting,
                                 store, posts>>

RecheckEnds == phase = "recheck" /\ RunOver /\ NoMishap /\ UNCHANGED healed

(* An exception ends the run where it is; a repair it began counts. *)
RunCrashes ==
  /\ phase # "idle" /\ Mishap /\ RunOver
  /\ healed' = [f \in Heavy |->
                  IF phase = "heal" /\ Turn(f) THEN 0 ELSE healed[f]]

(* The Space restarts: the store is its only memory. *)
UpdaterRestarts ==
  /\ Mishap
  /\ phase' = "idle" /\ queued' = {} /\ lastFeeds' = {} /\ moved' = 0
  /\ finished' = FALSE /\ healed' = [f \in Heavy |-> Cooldown]
  /\ booting' = TRUE
  /\ UNCHANGED <<dial, store, posts>>

HourPasses == TurnsLate \/ HourPosted \/ SelfRun
RunGoesOn == \/ StoreRadar \/ IssueNowcast \/ CheckEnds \/ RecheckEnds
             \/ \E f \in Heavy : UpdateMonth(f)
FNext == \/ KickOff \/ HourPasses \/ RunGoesOn \/ RunCrashes
         \/ UpdaterRestarts
         \/ \E feeds \in SUBSET Feeds \ {{}} : PostRun(feeds)
         \/ \E f \in Feeds : ScriptFails(f)

(* Every script ends, and the clock does not stop. *)
FFairness == WF_fvars(RunGoesOn) /\ WF_fvars(HourPasses) /\ WF_fvars(KickOff)
FSpec == FInit /\ [][FNext]_fvars /\ FFairness

-----------------------------------------------------------------------------
FTypeOK ==
  /\ dial \in {"early", "late", "posted"} /\ moved \in 0..1
  /\ phase \in {"idle", "feeds", "check", "heal", "recheck"}
  /\ queued \cup lastFeeds \subseteq Feeds
  /\ finished \in BOOLEAN /\ booting \in BOOLEAN
  /\ healed \in [Heavy -> 0..Cooldown] /\ tars \in [Heavy -> SUBSET (0..Back)]
  /\ radar \in 0..MaxAge /\ shown \in 0..MaxAge
  /\ posts \in 0..MaxPosts /\ mishaps \in 0..MaxMishaps

(* Whatever failed, whatever was asked for from outside and whenever the   *)
(* Space restarted: the nowcast is brought up to the hour again, and every *)
(* archive feed that stalled is repaired without anybody asking for it.    *)
KeepsFresh ==
  /\ []<>(shown <= 1)
  /\ \A f \in Heavy : []<>(LagOf(f) <= HealThresh)

(* "only APPENDS hours missing [...]; existing members are never touched"  *)
(* (update_mrms.py): an update takes no member out of a month tar.         *)
AppendOnly ==
  [][dial' = dial => \A f \in Heavy : tars[f] \subseteq tars'[f]]_fvars
=============================================================================
