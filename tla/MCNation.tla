------------------------------ MODULE MCNation ------------------------------
(***************************************************************************)
(* The back office, in one run under fairness: the mirror of a Space's     *)
(* disk, the keep-warm Space of the ungauged points, the hourly nowcast,   *)
(* the Space that refreshes the feeds, the fleet's passes, and a           *)
(* calibration, of the dashboard ("job") or of the loop ("loop").  They    *)
(* meet on the Hub only, and share no state here: each behaviour is one of *)
(* one part, chosen at the start.                                          *)
(***************************************************************************)
EXTENDS StateMirror, Ungauged, Nowcast, Updater, Fleet, Calibration

VARIABLE part

MCChunk(g) == g

\* Two outlets on one extent.
CONSTANTS nested, inner
MCExtent(o) == "north"

\* A calibration of the dashboard, with one page that follows it, and one of
\* the loop.
CONSTANTS asked, auto, page
MCWatchers(c) == {page}

moreVars == <<flvars, calVars>>
allVars == <<part, vars, uvars, nvars, fvars, moreVars>>

NationInit ==
    /\ part \in {"mirror", "ungauged", "nowcast", "feeds", "fleet", "job",
                 "loop"}
    /\ Init /\ UInit /\ NInit /\ FInit /\ FleetInit
    /\ CalibrationInit
    \* the parts that stand still start in one state
    /\ part # "fleet" => host.kind = CHOOSE k \in Hosts : TRUE
    /\ \A s \in DOMAIN stored :
          stored[s] = 0 \/ part = IF s = "dash" THEN "job" ELSE "loop"

InMirror(A) == /\ part = "mirror" /\ A
               /\ UNCHANGED <<part, uvars, nvars, fvars, moreVars>>
InUngauged(A) == /\ part = "ungauged" /\ A
                 /\ UNCHANGED <<part, vars, nvars, fvars, moreVars>>
InNowcast(A) == /\ part = "nowcast" /\ A
                /\ UNCHANGED <<part, vars, uvars, fvars, moreVars>>
InFeeds(A) == /\ part = "feeds" /\ A
              /\ UNCHANGED <<part, vars, uvars, nvars, moreVars>>
InFleet(A) == /\ part = "fleet" /\ A
              /\ UNCHANGED <<part, vars, uvars, nvars, fvars, calVars>>
InCal(which, A) == /\ part = which /\ A
                   /\ UNCHANGED <<part, vars, uvars, nvars, fvars, flvars>>

\* The two calibrations are parts of their own.
JobNext == CalibrationNext /\ UNCHANGED cal[auto]
LoopNext == CalibrationNext /\ UNCHANGED <<cal[asked], log, stream>>

NationNext == \/ InMirror(Next) \/ InUngauged(UNext) \/ InNowcast(NNext)
              \/ InFeeds(FNext) \/ InFleet(FleetNext)
              \/ InCal("job", JobNext) \/ InCal("loop", LoopNext)

(* The fairness of each part: a conjunct joins an action of each, and is   *)
(* in a behaviour of one part the fairness of that part's action.          *)
NationFairness ==
  /\ \A s \in Mirrors :
      /\ WF_allVars(\/ InMirror(BootStep(s)) \/ InUngauged(SpaceStep)
                    \/ InFeeds(RunGoesOn) \/ InFleet(HostStep)
                    \/ InCal("job", Search(asked) \/ End(asked))
                    \/ InCal("loop", Search(auto) \/ End(auto)))
      /\ WF_allVars(\/ InMirror(PassStep(s)) \/ InUngauged(NewIssue)
                    \/ InFeeds(HourPasses) \/ InFleet(TaskStep(nested))
                    \/ InCal("job", Drain(asked, page)))
  /\ WF_allVars(\/ InMirror(PushStep) \/ InFeeds(KickOff)
                \/ InFleet(TaskStep(inner)))

NationSpec == NationInit /\ [][NationNext]_allVars /\ NationFairness

\* KeepsUp; CatchesUp and KeepsFresh hold where nothing happens.
PointsKeepUp == \A p \in Points \ Headwaters :
  /\ []<>(part = "ungauged" => RowNew(p))
  /\ []<>(part = "ungauged" => CkptNew(p))

\* FleetFinishes and CalibrationsEnd: every outlet is uploaded, and every
\* calibration and every stream of its log ends, and stays so.
JobsEnd ==
    <>[](/\ part = "fleet" => \A o \in Outlets : results[o] # Blank
         /\ part = "job" => Over(asked) /\ Followed(page)
         /\ part = "loop" => Over(auto))
=============================================================================
