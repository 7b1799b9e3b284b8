------------------------------- MODULE MCCore -------------------------------
(***************************************************************************)
(* Parts that share no state, checked for safety in one run: each          *)
(* behaviour is one of one part, chosen at the start.  "pins" and "index"  *)
(* are EpisodeIndex, with a pinned episode and a list of one, and with a   *)
(* longer list; "shadowed" is the queue with a worker that shadows the one *)
(* that publishes; "page" and "points" are the dashboard page of a gauge   *)
(* with an event, and of a point without a gauge; "files" are the files of *)
(* two published episodes and two writers, "demos" those of a pinned one   *)
(* with every kind of retention and a failure; "space", "asked" and        *)
(* "daemon" are the health of the tick: of a Space that ticks, of one that *)
(* another asks and that may die, and of a daemon, by its status file.     *)
(***************************************************************************)
EXTENDS EpisodeIndex, EpisodeFiles, Page, TickHealth, TLC

VARIABLE part

CONSTANTS w1, t1
Index == INSTANCE EpisodeIndex WITH
    Pinned <- {}, KeepEvents <- 3, Workers <- {w1}, Past <- 2, MaxTicks <- 2

CONSTANTS e1, w2, Nobody, Former
VARIABLES spec, claim, failed, age, runner, qWorker, done, sess, qClock,
          qFaults, crashes, newest, published, reported, swept, raced
Shadowed == INSTANCE EventQueue WITH
    Events <- {e1}, Workers <- {w1, w2}, Publishers <- {w1}, MaxStamp <- 2,
    MaxFaults <- 2, MaxCrashes <- 0, MaxSessions <- 1,
    worker <- qWorker, clock <- qClock, faults <- qFaults
shadowedVars == <<spec, claim, failed, age, runner, qWorker, done, sess, qClock,
                  qFaults, crashes, newest, published, reported, swept, raced>>

CONSTANTS g, v
TriggerDef == e1 :> g
Points == INSTANCE Page WITH
    Gauges <- {}, Virtual <- {v}, Events <- {}, MaxAsks <- 1

FirstDef == 1 :> {1, 2} @@ 2 :> {2}
Demos == INSTANCE EpisodeFiles WITH
    Writers <- {w1}, Demo <- {2}, Demotes <- TRUE, AgesOut <- TRUE,
    MaxStamps <- 3, MaxMisses <- 1

\* Who answers, by the way it takes; and who does in a part.
KindDef == [a \in Askers |-> a]
OnlyAsked(W) == \A a \in Askers \ W :
    <<report[a], copy[a], fetched[a]>>' = <<report[a], copy[a], fetched[a]>>

CoreInit == /\ part \in {"index", "pins", "shadowed", "page", "points",
                        "files", "demos", "space", "asked", "daemon"}
            /\ IF part = "pins" THEN Init ELSE Index!Init
            /\ Shadowed!Init
            /\ IF part = "points" THEN Points!PageInit ELSE PageInit
            /\ IF part = "demos" THEN Demos!FilesInit ELSE FilesInit
            /\ HealthInit
IndexNext == /\ part = "index" /\ Index!Next
             /\ UNCHANGED <<shadowedVars, pageVars, filesVars, tickVars>>
PinsNext == /\ part = "pins" /\ Next
            /\ UNCHANGED <<shadowedVars, pageVars, filesVars, tickVars>>
ShadowedNext == /\ part = "shadowed" /\ Shadowed!Next
                /\ UNCHANGED <<vars, pageVars, filesVars, tickVars>>
ThePageNext == /\ part = "page" /\ PageNext
               /\ UNCHANGED <<vars, shadowedVars, filesVars, tickVars>>
PointsNext == /\ part = "points" /\ Points!PageNext
              /\ UNCHANGED <<vars, shadowedVars, filesVars, tickVars>>
TheFilesNext == /\ part = "files" /\ FilesNext
                /\ UNCHANGED <<vars, shadowedVars, pageVars, tickVars>>
DemosNext == /\ part = "demos" /\ Demos!FilesNext
             /\ UNCHANGED <<vars, shadowedVars, pageVars, tickVars>>
TickTellsNext ==
    /\ HealthNext
    /\ \/ /\ part = "space" /\ OnlyAsked({"here"})
          /\ UNCHANGED <<post, deaths>>
       \/ /\ part = "asked" /\ OnlyAsked({"here", "url"})
          /\ UNCHANGED <<post, runs>>
       \/ /\ part = "daemon" /\ OnlyAsked({"file"}) /\ UNCHANGED report
          /\ mem'.job = 0 /\ ~mem'.sorted
          /\ clock' <= 3 /\ deaths' + runs' <= 1
    /\ UNCHANGED <<vars, shadowedVars, pageVars, filesVars>>
CoreNext ==
    /\ UNCHANGED part
    /\ \/ IndexNext \/ PinsNext \/ ShadowedNext \/ ThePageNext \/ PointsNext
       \/ TheFilesNext \/ DemosNext
       \/ part \in {"space", "asked", "daemon"} /\ TickTellsNext

CoreSpec ==
    CoreInit /\ [][CoreNext]_<<part, vars, shadowedVars, pageVars, filesVars,
                               tickVars>>

PublishedOnce == Shadowed!PublishedOnce
=============================================================================
