-------------------------------- MODULE Page --------------------------------
(***************************************************************************)
(* The dashboard page (frontend/app.js) in one browser tab.  Its state is  *)
(* global and every fetch is answered later, or never, in any order: what  *)
(* an answer changes is decided by the state it finds.  Of the server      *)
(* there is the list of simulation jobs; the page names the last one in    *)
(* localStorage.                                                           *)
(***************************************************************************)
EXTENDS Naturals, FiniteSets

CONSTANTS
    Gauges,         \* gauges with observations
    Virtual,        \* ungauged points, with a nowcast of their own
    Events,         \* stored inundation events
    Trigger,        \* Trigger[e]: the gauge that started e
    None,
    MaxJobs,        \* bound: simulations ever started
    MaxAsks         \* bound: fetches under way

ASSUME PageAssumption == MaxJobs \in Nat

Places == Gauges \cup Virtual
Sims == 1..MaxJobs
Modes == {"hindcast", "nowcast", "events"}

VARIABLES
    page,   \* the flags of the page: mode, selection, the run it follows
    plots,  \* the results panel and the hydrographs behind it
    evts,   \* the inundation view, and who owns the time bar
    server, \* the jobs, lastSimId, and the job another tab follows
    asks    \* fetches under way

pageVars == <<page, plots, evts, server, asks>>

\* What simHydro holds of a place, and what splits its line (routedNowcast).
Rows == {"none", "run", "cal", "routed", "event"}
Splits == {"none", "routed", "event"}

Ask == [kind : {"sim", "job", "routed", "nowcast", "event", "list", "radar",
                "cal"},
        what : SUBSET (Places \cup Events), job : 0..MaxJobs]
A(kind, what, job) == [kind |-> kind, what |-> what, job |-> job]

PageTypeOK ==
    /\ page \in [mode : Modes, selected : SUBSET Places, busy : BOOLEAN,
                 es : 0..MaxJobs, timer : {"none", "picked", "view"}]
    /\ plots \in [rows : [Places -> Rows], split : [Places -> Splits],
                  panel : Places \cup {None}, live : BOOLEAN]
    /\ evts \in [man : Events \cup {None},
                 list : BOOLEAN, poll : BOOLEAN,
                 bar : {"sim", "event", "radar"}]
    /\ server \in [job : [Sims -> {"none", "running", "stopped", "done"}],
                   ids : [Sims -> SUBSET Places], last : 0..MaxJobs]
    /\ asks \subseteq Ask

FreshPage == [mode |-> "hindcast", selected |-> {}, busy |-> FALSE,
              es |-> 0, timer |-> "none"]
FreshPlots == [rows |-> [g \in Places |-> "none"],
               split |-> [g \in Places |-> "none"],
               panel |-> None, live |-> FALSE]
FreshEvts == [man |-> None, list |-> FALSE, poll |-> FALSE,
              bar |-> "sim"]

PageInit ==
    /\ page = FreshPage /\ plots = FreshPlots /\ evts = FreshEvts
    /\ server = [job |-> [n \in Sims |-> "none"],
                 ids |-> [n \in Sims |-> {}], last |-> 0]
    /\ asks = {}

\* A page that has just been loaded asks what became of its last run, unless
\* another tab drives it (reattach, drivenElsewhere).
Reload ==
    /\ page' = FreshPage /\ plots' = FreshPlots /\ evts' = FreshEvts
    /\ \/ asks' = {}
       \/ server.last # 0 /\ asks' = {A("job", {}, server.last)}
    /\ UNCHANGED server

Asking(a) == Cardinality(asks) < MaxAsks /\ asks' = asks \cup {a}
Answered(a) == a \in asks /\ asks' = asks \ {a}

-----------------------------------------------------------------------------
(* The panel and the map. *)

\* focusGauge: the panel shows the simulation of g.
Focus(p, g) == [p EXCEPT !.panel = g, !.live = FALSE]
Shows(p, g, what) == Focus([p EXCEPT !.rows[g] = what, !.split[g] = what], g)
SetRows(p, ids, what) ==
    [p EXCEPT
        !.rows = [g \in Places |-> IF g \in ids THEN what ELSE @[g]],
        !.split = [g \in Places |-> IF g \in ids THEN "none" ELSE @[g]]]

\* mrmsOff: the radar goes, and the bar gets its hindcast handlers back.
RadarOff(e) == [e EXCEPT !.bar = "sim"]

\* setMode(false), to the hindcast: the panel returns to the simulation.
LeaveNowcast ==
    /\ evts' = RadarOff(evts)
    /\ plots' = IF plots.panel # None /\ plots.rows[plots.panel] # "none"
                THEN Focus(plots, plots.panel) ELSE plots

\* Slip: the refresh that was scheduled goes on.
LeftEventsPolling(e) ==
    [e EXCEPT !.man = None, !.list = FALSE, !.bar = "sim"]

\* leaveEventsMode: what belongs to events leaves the page.
LeftEvents(e) ==
    [e EXCEPT !.man = None, !.list = FALSE, !.poll = FALSE,
              !.bar = "sim"]
EventPlaces == {g \in Places : plots.split[g] = "event"}
LeaveEvents ==
    /\ evts' = LeftEvents(evts)
    /\ plots' = SetRows(plots, EventPlaces, "none")

\* setMode(true) looks at what is in view a little later (scheduleAutoView).
ToNowcast ==
    /\ page.mode # "nowcast"
    /\ page' = [page EXCEPT !.mode = "nowcast", !.timer = "view"]
    /\ IF page.mode = "events" THEN LeaveEvents ELSE UNCHANGED <<plots, evts>>
    /\ UNCHANGED <<server, asks>>

ToHindcast ==
    /\ page.mode # "hindcast"
    /\ page' = [page EXCEPT !.mode = "hindcast"]
    /\ IF page.mode = "events" THEN LeaveEvents ELSE LeaveNowcast
    /\ UNCHANGED <<server, asks>>

\* enterEventsMode takes the list; the time bar waits for an event.
ToEvents ==
    /\ page.mode # "events"
    /\ page' = [page EXCEPT !.mode = "events"]
    /\ IF page.mode = "nowcast" THEN LeaveNowcast ELSE UNCHANGED <<plots, evts>>
    /\ Asking(A("list", {}, 0))
    /\ UNCHANGED server

-----------------------------------------------------------------------------
(* Places. *)

\* toggleGauge, in each mode; an event's gauge opens the event.
Toggle(g) ==
    LET sel == IF g \in page.selected THEN page.selected \ {g}
               ELSE page.selected \cup {g}
        picked == g \in sel
        opens == page.mode = "events" /\ evts.list
                   /\ \E e \in Events : Trigger[e] = g
    IN
    /\ UNCHANGED <<evts, server>>
    /\ IF opens
       THEN /\ \E e \in Events : /\ Trigger[e] = g
                                 /\ Asking(A("event", {e}, 0))
            /\ UNCHANGED <<page, plots>>
       ELSE /\ page' = [page EXCEPT !.selected = sel,
                   !.timer = IF page.mode = "nowcast" /\ g \notin Virtual
                             THEN "picked" ELSE @]
            /\ plots' = IF page.mode # "nowcast" /\ plots.rows[g] # "none"
                        THEN Focus(plots, g) ELSE plots
            /\ IF page.mode = "nowcast" /\ g \in Virtual /\ picked
               THEN Asking(A("routed", {g}, 0)) ELSE UNCHANGED asks

\* The timer of scheduleNowcast and scheduleAutoView.
TimerFires ==
    /\ page.timer # "none"
    /\ page' = [page EXCEPT !.timer = "none"]
    /\ \/ page.timer = "picked" /\ page.selected # {}
          /\ Asking(A("nowcast", page.selected, 0))
       \/ /\ page.timer = "view" /\ page.mode = "nowcast"
          /\ page.selected = {}
          /\ Asking(A("nowcast", Gauges, 0))
       \/ UNCHANGED asks
    /\ UNCHANGED <<plots, evts, server>>

\* closeSimTab and closeNowcastTab: another tab gets the panel, if any.
CloseTab(g) ==
    LET gone == SetRows(plots, {g}, "none")
        rest == {h \in Places : gone.rows[h] # "none"}
    IN
    /\ page' = [page EXCEPT !.selected = @ \ {g}]
    /\ IF plots.live
       THEN /\ plots.panel # None
            /\ \/ UNCHANGED plots
               \/ plots.panel = g
                  /\ plots' = [plots EXCEPT !.panel = None, !.live = FALSE]
       ELSE /\ plots.rows[g] # "none"
            /\ plots' = IF plots.panel # g THEN gone
                        ELSE [gone EXCEPT !.panel =
                                IF rest = {} THEN None
                                ELSE CHOOSE h \in rest : TRUE]
    /\ UNCHANGED <<evts, server, asks>>

-----------------------------------------------------------------------------
(* Simulations. *)

\* simulate.  The button is grey for the selection that runs, or ran, until
\* any option is changed (allowResim): the user may always press it.  In
\* nowcast mode it shows the precomputed nowcasts instead.
Simulate ==
    /\ page.selected # {}
    /\ IF page.mode = "nowcast"
       THEN Asking(A("nowcast", page.selected, 0)) /\ UNCHANGED page
       ELSE /\ Asking(A("sim", page.selected, server.last))
            /\ page' = [page EXCEPT !.busy = TRUE]
    /\ UNCHANGED <<plots, evts, server>>

\* Slip: the page goes on waiting for a run that was refused.
SimRefusedWaiting(a) ==
    /\ a.kind = "sim" /\ Answered(a)
    /\ UNCHANGED <<page, plots, evts, server>>

SimRefused(a) ==
    /\ a.kind = "sim" /\ Answered(a)
    /\ page' = [page EXCEPT !.busy = FALSE]
    /\ UNCHANGED <<plots, evts, server>>

\* openStream: never two streams.
Opens(p, n) == [p EXCEPT !.es = n]

\* /api/simulate: a new job; the previous one named in the request stops.
\* The page then forgets the rows of the run before.
SimStarted(a) ==
    LET free == {n \in Sims : server.job[n] = "none"}
        n == CHOOSE m \in free : \A k \in free : m <= k
        begun == SetRows(plots, a.what, "run")
    IN
    /\ a.kind = "sim" /\ Answered(a) /\ free # {}
    /\ server' = [server EXCEPT !.last = n, !.ids[n] = a.what,
          !.job = [m \in Sims |->
                     IF m = n THEN "running"
                     ELSE IF m = a.job /\ @[m] = "running" THEN "stopped"
                     ELSE @[m]]]
    /\ page' = Opens(page, n)
    /\ plots' = IF plots.panel # None THEN begun
                ELSE Focus(begun, CHOOSE g \in a.what : TRUE)
    /\ UNCHANGED evts

\* reattach: the run is followed again from its first event.
Reattached(a) ==
    /\ a.kind = "job" /\ Answered(a)
    /\ page' = [Opens(page, a.job) EXCEPT
                   !.busy = @ \/ server.job[a.job] = "running"]
    /\ \E g \in server.ids[a.job] :
          plots' = Focus(SetRows(plots, server.ids[a.job], "run"), g)
    /\ UNCHANGED <<evts, server>>

\* handleSimEvent of the stream that is open.
RowsArrive(g) ==
    /\ page.es # 0 /\ g \in server.ids[page.es]
    /\ plots' = [plots EXCEPT !.rows[g] = "run"]
    /\ UNCHANGED <<page, evts, server, asks>>

AllDone ==
    /\ page.es # 0 /\ server.job[page.es] # "running"
    /\ page' = [page EXCEPT !.es = 0, !.busy = FALSE]
    /\ UNCHANGED <<plots, evts, server, asks>>

\* The stream breaks: it is not opened again.
StreamBreaks ==
    /\ page.es # 0
    /\ page' = [page EXCEPT !.es = 0, !.busy = FALSE]
    /\ UNCHANGED <<plots, evts, server, asks>>

JobEnds(n) ==
    /\ server.job[n] = "running"
    /\ \E s \in {"stopped", "done"} : server' = [server EXCEPT !.job[n] = s]
    /\ UNCHANGED <<page, plots, evts, asks>>

\* startCalibration: the fit is previewed, and at its end the simulation is
\* run again - of what is selected by then.
Calibrate(g) ==
    /\ server.last # 0 /\ plots.rows[g] # "none"
    /\ Asking(A("cal", {g}, 0))
    /\ UNCHANGED <<page, plots, evts, server>>

CalPreview(a) ==
    /\ a.kind = "cal" /\ a \in asks
    /\ plots' = [plots EXCEPT !.rows =
                    [g \in Places |-> IF g \in a.what THEN "cal" ELSE @[g]]]
    /\ UNCHANGED <<page, evts, server, asks>>

CalDone(a) ==
    /\ a.kind = "cal" /\ a \in asks
    /\ IF page.mode = "nowcast"
       THEN /\ asks' = (asks \ {a}) \cup {A("nowcast", page.selected, 0)}
            /\ UNCHANGED page
       ELSE /\ page' = [page EXCEPT !.busy = TRUE]
            /\ asks' = (asks \ {a})
                         \cup {A("sim", page.selected, server.last)}
    /\ page.selected # {}
    /\ UNCHANGED <<plots, evts, server>>

-----------------------------------------------------------------------------
(* Nowcasts. *)

\* showNowcastsFor, whatever the mode is by now.
NowcastShown(a) ==
    /\ a.kind = "nowcast" /\ Answered(a)
    /\ \E g \in a.what \cap Gauges :
          /\ plots.panel \in a.what \cap Gauges => g = plots.panel
          /\ plots' = [plots EXCEPT !.panel = g, !.live = TRUE]
    /\ UNCHANGED <<page, evts, server>>

\* runRoutedNowcast: of a point without a nowcast the selection is dropped.
RoutedShown(a) ==
    /\ a.kind = "routed" /\ Answered(a)
    /\ \E g \in a.what :
          \/ plots' = Shows(plots, g, "routed") /\ UNCHANGED page
          \/ /\ page' = [page EXCEPT !.selected = @ \ {g}]
             /\ UNCHANGED plots
    /\ UNCHANGED <<evts, server>>

-----------------------------------------------------------------------------
(* Events. *)

\* Slip: the list is drawn in whatever mode it finds.
ListShownAnywhere(a) ==
    /\ a.kind = "list" /\ Answered(a)
    /\ \E again \in BOOLEAN :
          evts' = [evts EXCEPT !.list = TRUE, !.poll = again]
    /\ UNCHANGED <<page, plots, server>>

\* loadEvents; while a runner works the list is asked for again.
ListShown(a) ==
    /\ a.kind = "list" /\ Answered(a)
    /\ IF page.mode # "events" THEN UNCHANGED evts
       ELSE \E again \in BOOLEAN :
               evts' = [evts EXCEPT !.list = TRUE, !.poll = again]
    /\ UNCHANGED <<page, plots, server>>

Poll ==
    /\ evts.poll /\ evts' = [evts EXCEPT !.poll = FALSE]
    /\ Asking(A("list", {}, 0))
    /\ UNCHANGED <<page, plots, server>>

SelectEvent(e) ==
    /\ page.mode = "events" /\ evts.list
    /\ Asking(A("event", {e}, 0))
    /\ UNCHANGED <<page, plots, evts, server>>

\* selectEvent after its fetch, whatever the mode is by now.  An event whose
\* frames are pruned leaves the bar to the hindcast.
EventShown(a) ==
    /\ a.kind = "event" /\ Answered(a)
    /\ \E e \in a.what, frames, hydro \in BOOLEAN :
          /\ evts' = [evts EXCEPT !.man = e,
                          !.bar = IF frames THEN "event" ELSE "sim"]
          /\ plots' = IF hydro THEN Shows(plots, Trigger[e], "event")
                      ELSE plots
    /\ UNCHANGED <<page, server>>

\* setMrmsRange: off, or after a fetch on, whatever the mode is by now.
Radar ==
    /\ page.mode = "nowcast"
    /\ \/ evts' = RadarOff(evts) /\ UNCHANGED asks
       \/ Asking(A("radar", {}, 0)) /\ UNCHANGED evts
    /\ UNCHANGED <<page, plots, server>>

RadarShown(a) ==
    /\ a.kind = "radar" /\ Answered(a)
    /\ \/ evts' = [evts EXCEPT !.bar = "radar"]
       \/ evts' = RadarOff(evts)              \* no frames are published
    /\ UNCHANGED <<page, plots, server>>

\* Another fetch that fails changes nothing; a refused job is forgotten.
Fails(a) ==
    /\ a.kind # "sim" /\ Answered(a)
    /\ server' = IF a.kind = "job" THEN [server EXCEPT !.last = 0] ELSE server
    /\ UNCHANGED <<page, plots, evts>>

-----------------------------------------------------------------------------
User ==
    \/ ToNowcast \/ ToHindcast \/ ToEvents \/ Simulate
    \/ Radar \/ Reload
    \/ \E g \in Places : Toggle(g) \/ CloseTab(g) \/ Calibrate(g)
    \/ \E e \in Events : SelectEvent(e)

Answer(a) ==
    \/ SimRefused(a) \/ SimStarted(a) \/ Reattached(a) \/ Fails(a)
    \/ CalPreview(a) \/ CalDone(a)
    \/ NowcastShown(a) \/ RoutedShown(a) \/ RadarShown(a)
    \/ ListShown(a) \/ EventShown(a)

Stream ==
    \/ \E g \in Places : RowsArrive(g)
    \/ AllDone \/ StreamBreaks

PageNext ==
    \/ User \/ Stream \/ TimerFires \/ Poll
    \/ \E a \in asks : Answer(a)
    \/ \E n \in Sims : JobEnds(n)

PageSpec == PageInit /\ [][PageNext]_pageVars

-----------------------------------------------------------------------------
(* Properties.                                                             *)

\* The button says "Simulating" only while a run is asked for or followed:
\* whatever fails, is superseded or is closed, the page does not hang.
NeverHangs ==
    page.busy => page.es # 0 \/ \E a \in asks : a.kind = "sim"

\* Nothing of the inundation list outlives events mode, and no list that was
\* asked for there brings it back ("the user left 2D inundation while this
\* loaded").
EventsEnd == evts.list \/ evts.poll => page.mode = "events"

\* Together: late answers do none of the harm that the code guards against.
PageSound == NeverHangs /\ EventsEnd
=============================================================================
