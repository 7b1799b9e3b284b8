------------------------------ MODULE MCStores ------------------------------
(***************************************************************************)
(* The autocalibration loop, the warm-state cache and the observations of  *)
(* a gauge, which share no state here, checked for safety in one run: each *)
(* behaviour is one of one part, chosen at the start.  "autocal" has three *)
(* episodes of two gauges, "longer" the two of one gauge and one more      *)
(* publication or merge.                                                   *)
(***************************************************************************)
EXTENDS Autocal, WarmCache, ObsStore, TLC

VARIABLE part

CONSTANTS west, east, a, b, d
OrderDef == <<west, east>>
GaugeDef == (a :> west) @@ (b :> west) @@ (d :> east)
Longer == INSTANCE Autocal WITH MaxWrites <- 3

CONSTANTS r1, r2
AsksDef == (r1 :> {<<"plain", 0, 2>>}) @@
           (r2 :> {<<"plain", 1, 2>>, <<"custom", 0, 1>>, <<"nowcast", 1, 2>>})

\* The feeds and the nowcast ask for the last days, a run for one of them,
\* and the autocalibration for all again.
CONSTANTS feed, calib
RequestsDef == (feed :> {<<0, 4, FALSE>>}) @@
               (calib :> {<<1, 2, FALSE>>, <<0, 3, TRUE>>})

StoresInit ==
    /\ part \in {"autocal", "longer", "cache", "obs"}
    /\ AutocalInit
    /\ CacheInit
    /\ ObsInit
    \* where the observations stand still they start in one state
    /\ part # "obs" => usgs = NoRows /\ obs.cov = {}
LoopNext == /\ part = "autocal" /\ AutocalNext
            /\ UNCHANGED <<part, cacheVars, obsVars>>
LongerNext == /\ part = "longer" /\ Longer!AutocalNext
              /\ episode'[d] = episode[d]
              /\ UNCHANGED <<part, cacheVars, obsVars>>
\* bound: the janitor evicts or compacts, not both
ServesNext == /\ part = "cache" /\ CacheNext
              /\ evictions' + compacts' <= 1
              /\ UNCHANGED <<part, acVars, obsVars>>
GaugeNext == /\ part = "obs" /\ ObsNext
             /\ UNCHANGED <<part, acVars, cacheVars>>
StoresNext == LoopNext \/ LongerNext \/ ServesNext \/ GaugeNext

StoresSpec ==
    StoresInit /\ [][StoresNext]_<<part, acVars, cacheVars, obsVars>>
=============================================================================
