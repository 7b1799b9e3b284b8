----------------------------- MODULE Page_proofs -----------------------------
(***************************************************************************)
(* Proofs about what a reader of the dashboard sees: the page (Page), for  *)
(* any gauges, points, events, simulations and fetches under way, answered *)
(* in any order or never; and what /api/health says of the hourly tick     *)
(* (TickHealth), for any gauges, limits, processes and requests.           *)
(***************************************************************************)
EXTENDS Page, TickHealth, WellFoundedInduction, TLAPS

\* A new simulation has a number of its own, and none is numbered 0.
LEMMA FirstFree ==
    ASSUME NEW S \in SUBSET Sims, S # {}
    PROVE  (CHOOSE m \in S : \A k \in S : m <= k) \in Sims
  <1>1. S \subseteq Nat
    BY PageAssumption DEF Sims
  <1>2. PICK m \in S : \A k \in S : ~(<<k, m>> \in OpToRel(<, Nat))
    BY <1>1, NatLessThanWellFounded, WFMin
  <1>3. \A k \in S : ~(k < m)
    BY <1>1, <1>2 DEF OpToRel
  <1>4. \A k \in S : m <= k
    BY <1>1, <1>3
  <1>5. QED
    BY <1>4

-----------------------------------------------------------------------------
(* PageSound is inductive with what a page that was loaded again asks for: *)
(* the last job, which is a job; so that a page that follows the answer    *)
(* follows a job, and one that is busy is so until it ends or breaks.      *)

AsksOfJobs == \A a \in asks : a.kind = "job" => a.job # 0
IsPage(p) ==
    p \in [mode : Modes, selected : SUBSET Places, busy : BOOLEAN,
           es : {p.es}, timer : {"none", "picked", "view"}]
IsView(v) ==
    v \in [man : {v.man}, list : BOOLEAN, poll : BOOLEAN,
           bar : {"sim", "event", "radar"}]
PageInv ==
    /\ IsPage(page) /\ IsView(evts)
    /\ AsksOfJobs /\ NeverHangs /\ EventsEnd

\* A view that drops the radar, or all of events, lists and asks no more
\* than before.
LEMMA ViewLeft ==
    ASSUME IsView(evts)
    PROVE  /\ IsView(RadarOff(evts)) /\ IsView(LeftEvents(evts))
           /\ RadarOff(evts).list = evts.list
           /\ RadarOff(evts).poll = evts.poll
           /\ ~LeftEvents(evts).list /\ ~LeftEvents(evts).poll
  BY DEF RadarOff, LeftEvents, IsView

\* A step that takes back no request for a run, and does not make the page
\* busy, leaves it waiting for what it waited for.
LEMMA StillWaits ==
    ASSUME NeverHangs, page'.busy => page.busy,
           page'.es = page.es \/ page'.es # 0,
           \A a \in asks : a.kind = "sim" => a \in asks'
    PROVE  NeverHangs'
  BY DEF NeverHangs

LEMMA AskMade ==
    ASSUME NEW kind, NEW what, NEW job
    PROVE  /\ A(kind, what, job).kind = kind
           /\ A(kind, what, job).job = job
  BY DEF A

\* Steps that change neither the page's flags nor what belongs to events.
LEMMA AsideStep ==
    ASSUME PageInv, UNCHANGED <<page, evts>>, AsksOfJobs',
           \A a \in asks : a.kind = "sim" => a \in asks'
    PROVE  PageInv'
  <1>1. NeverHangs'
    BY StillWaits DEF PageInv
  <1>2. QED
    BY <1>1 DEF PageInv, EventsEnd

LEMMA ModeStep ==
    ASSUME PageInv, ToNowcast \/ ToHindcast \/ ToEvents
    PROVE  PageInv'
  <1>1. /\ IsPage(page') /\ page'.busy = page.busy /\ page'.es = page.es
        /\ page'.mode # page.mode
    BY DEF PageInv, ToNowcast, ToHindcast, ToEvents, IsPage, Modes
  <1>2. asks' = asks \/ asks' = asks \cup {A("list", {}, 0)}
    BY DEF ToNowcast, ToHindcast, ToEvents, Asking
  <1>3. AsksOfJobs' /\ NeverHangs'
    BY <1>1, <1>2, AskMade, StillWaits DEF PageInv, AsksOfJobs
  <1>4. \/ evts' = evts /\ page.mode # "events"
        \/ evts' = RadarOff(evts) /\ page.mode # "events"
        \/ evts' = LeftEvents(evts)
    BY DEF PageInv, ToNowcast, ToHindcast, ToEvents, LeaveEvents, LeaveNowcast
  <1>5. IsView(evts') /\ EventsEnd'
    BY <1>4, ViewLeft DEF PageInv, EventsEnd
  <1>6. QED
    BY <1>1, <1>3, <1>5 DEF PageInv

LEMMA PlaceStep ==
    ASSUME PageInv, NEW g \in Places, Toggle(g) \/ CloseTab(g) \/ Calibrate(g)
    PROVE  PageInv'
  <1>1. /\ IsPage(page') /\ page'.busy = page.busy /\ page'.es = page.es
        /\ page'.mode = page.mode /\ evts' = evts
    <2>1. CASE Toggle(g)
      <3>1. PICK sel \in {page.selected \ {g}, page.selected \cup {g}},
                 timer \in {page.timer, "picked"} :
               \/ page' = page
               \/ page' = [page EXCEPT !.selected = sel, !.timer = timer]
        BY <2>1 DEF Toggle
      <3>2. UNCHANGED evts
        BY <2>1 DEF Toggle
      <3>3. sel \in SUBSET Places /\ timer \in {"none", "picked", "view"}
        BY DEF PageInv, IsPage
      <3>4. QED
        BY <3>1, <3>2, <3>3 DEF PageInv, IsPage
    <2>2. CASE CloseTab(g) \/ Calibrate(g)
      BY <2>2 DEF PageInv, CloseTab, Calibrate, IsPage
    <2>3. QED
      BY <2>1, <2>2
  <1>2. \/ asks' = asks
        \/ \E kind \in {"event", "routed", "cal"} : \E what :
              asks' = asks \cup {A(kind, what, 0)}
    BY DEF Toggle, CloseTab, Calibrate, Asking
  <1>3. AsksOfJobs' /\ NeverHangs'
    BY <1>1, <1>2, AskMade, StillWaits DEF PageInv, AsksOfJobs
  <1>4. QED
    BY <1>1, <1>3 DEF PageInv, EventsEnd

LEMMA UserStep ==
    ASSUME PageInv, User
    PROVE  PageInv'
  <1>1. CASE Simulate
    <2>1. /\ IsPage(page') /\ page'.es = page.es /\ page'.mode = page.mode
          /\ evts' = evts
      BY <1>1 DEF PageInv, Simulate, IsPage
    <2>2. \/ /\ page' = page
             /\ asks' = asks \cup {A("nowcast", page.selected, 0)}
          \/ asks' = asks \cup {A("sim", page.selected, server.last)}
      BY <1>1 DEF Simulate, Asking
    <2>3. AsksOfJobs' /\ NeverHangs'
      BY <2>1, <2>2, AskMade, StillWaits DEF PageInv, AsksOfJobs, NeverHangs
    <2>4. QED
      BY <2>1, <2>3 DEF PageInv, EventsEnd
  <1>2. CASE Radar
    <2>1. evts' \in {evts, RadarOff(evts)} /\ page' = page
      BY <1>2 DEF Radar
    <2>2. asks' = asks \/ asks' = asks \cup {A("radar", {}, 0)}
      BY <1>2 DEF Radar, Asking
    <2>3. AsksOfJobs' /\ NeverHangs'
      BY <2>1, <2>2, AskMade, StillWaits DEF PageInv, AsksOfJobs
    <2>4. QED
      BY <2>1, <2>3, ViewLeft DEF PageInv, EventsEnd
  <1>3. CASE Reload
    <2>1. page' = FreshPage /\ evts' = FreshEvts
      BY <1>3 DEF Reload
    <2>2. \/ asks' = {}
          \/ server.last # 0 /\ asks' = {A("job", {}, server.last)}
      BY <1>3 DEF Reload
    <2>3. AsksOfJobs'
      BY <2>2, AskMade DEF AsksOfJobs
    <2>4. IsPage(page') /\ IsView(evts') /\ NeverHangs' /\ EventsEnd'
      BY <2>1, PageAssumption DEF FreshPage, FreshEvts, IsPage, Modes, IsView,
                                  NeverHangs, EventsEnd
    <2>5. QED
      BY <2>3, <2>4 DEF PageInv
  <1>4. CASE \E e \in Events : SelectEvent(e)
    <2>1. UNCHANGED <<page, evts>>
          /\ \E what : asks' = asks \cup {A("event", what, 0)}
      BY <1>4 DEF SelectEvent, Asking
    <2>2. AsksOfJobs' /\ \A a \in asks : a \in asks'
      BY <2>1, AskMade DEF PageInv, AsksOfJobs
    <2>3. QED
      BY <2>1, <2>2, AsideStep
  <1>5. QED
    BY <1>1, <1>2, <1>3, <1>4, ModeStep, PlaceStep DEF User

LEMMA AnswerStep ==
    ASSUME PageInv, NEW a \in asks, Answer(a)
    PROVE  PageInv'
  <1>1. CASE Fails(a) \/ CalPreview(a)
    <2>1. /\ UNCHANGED <<page, evts>> /\ asks' \in {asks, asks \ {a}}
          /\ a.kind # "sim"
      BY <1>1 DEF Fails, CalPreview, Answered
    <2>2. QED
      BY <2>1, AsideStep DEF PageInv, AsksOfJobs
  <1>2. CASE SimRefused(a)
    BY <1>2 DEF PageInv, SimRefused, Answered, AsksOfJobs, NeverHangs,
                EventsEnd, IsPage
  <1>3. CASE SimStarted(a)
    <2> DEFINE free == {n \in Sims : server.job[n] = "none"}
               n == CHOOSE m \in free : \A k \in free : m <= k
    <2>1. free # {} /\ page' = Opens(page, n) /\ asks' = asks \ {a}
      BY <1>3 DEF SimStarted, Answered
    <2>2. n \in 1..MaxJobs
      BY <2>1, FirstFree DEF Sims
    <2>3. UNCHANGED evts
      BY <1>3 DEF SimStarted
    <2> HIDE DEF free, n
    <2>4. QED
      BY <2>1, <2>2, <2>3, PageAssumption
         DEF PageInv, Opens, IsPage, AsksOfJobs, NeverHangs, EventsEnd
  <1>4. CASE Reattached(a)
    <2>1. /\ a.job # 0 /\ asks' = asks \ {a} /\ evts' = evts
          /\ page' = [Opens(page, a.job) EXCEPT
                        !.busy = @ \/ server.job[a.job] = "running"]
      BY <1>4 DEF Reattached, Answered, PageInv, AsksOfJobs
    <2>2. page'.es = a.job /\ page'.mode = page.mode
      BY <2>1 DEF Opens, PageInv, IsPage
    <2>3. IsPage(page')
      BY <2>1 DEF Opens, PageInv, IsPage
    <2>4. QED
      BY <2>1, <2>2, <2>3 DEF PageInv, AsksOfJobs, NeverHangs, EventsEnd
  <1>5. CASE CalDone(a)
    <2>1. /\ IsPage(page') /\ page'.mode = page.mode /\ evts' = evts
          /\ page'.es = page.es /\ a.kind = "cal"
      BY <1>5 DEF CalDone, PageInv, IsPage
    <2>2. \/ /\ page' = page
             /\ asks' = (asks \ {a}) \cup {A("nowcast", page.selected, 0)}
          \/ asks' = (asks \ {a})
                       \cup {A("sim", page.selected, server.last)}
      BY <1>5 DEF CalDone
    <2>3. AsksOfJobs' /\ NeverHangs'
      BY <2>1, <2>2, AskMade, StillWaits DEF PageInv, AsksOfJobs, NeverHangs
    <2>4. QED
      BY <2>1, <2>3 DEF PageInv, EventsEnd
  <1>6. CASE NowcastShown(a) \/ RoutedShown(a)
    <2>1. /\ IsPage(page') /\ page'.mode = page.mode /\ evts' = evts
          /\ page'.es = page.es /\ page'.busy = page.busy
          /\ asks' = asks \ {a} /\ a.kind # "sim"
      BY <1>6 DEF NowcastShown, RoutedShown, Answered, PageInv, IsPage
    <2>2. AsksOfJobs' /\ NeverHangs'
      BY <2>1, StillWaits DEF PageInv, AsksOfJobs
    <2>3. QED
      BY <2>1, <2>2 DEF PageInv, EventsEnd
  <1>7. CASE RadarShown(a) \/ ListShown(a) \/ EventShown(a)
    <2>1. page' = page /\ asks' = asks \ {a} /\ a.kind # "sim"
      BY <1>7 DEF RadarShown, ListShown, EventShown, Answered
    <2>2. AsksOfJobs' /\ NeverHangs'
      BY <2>1, StillWaits DEF PageInv, AsksOfJobs
    <2>3. /\ IsView(evts')
          /\ \/ page.mode = "events"
             \/ evts'.list = evts.list /\ evts'.poll = evts.poll
      <3>1. CASE RadarShown(a)
        BY <3>1, ViewLeft DEF RadarShown, PageInv, IsView
      <3>2. CASE ListShown(a)
        BY <3>2 DEF ListShown, PageInv, IsView
      <3>3. CASE EventShown(a)
        BY <3>3 DEF EventShown, PageInv, IsView
      <3>4. QED
        BY <1>7, <3>1, <3>2, <3>3
    <2>4. QED
      BY <2>1, <2>2, <2>3 DEF PageInv, EventsEnd
  <1>8. QED
    BY <1>1, <1>2, <1>3, <1>4, <1>5, <1>6, <1>7 DEF Answer

LEMMA OtherStep ==
    ASSUME PageInv, \/ Stream \/ TimerFires \/ Poll
                    \/ \E n \in Sims : JobEnds(n)
                    \/ UNCHANGED pageVars
    PROVE  PageInv'
  <1>1. CASE \/ \E g \in Places : RowsArrive(g)
             \/ \E n \in Sims : JobEnds(n)
             \/ UNCHANGED pageVars
    BY <1>1, AsideStep DEF RowsArrive, JobEnds, pageVars, PageInv, AsksOfJobs
  <1>2. CASE AllDone \/ StreamBreaks
    <2>1. /\ page' = [page EXCEPT !.es = 0, !.busy = FALSE]
          /\ UNCHANGED <<evts, asks>>
      BY <1>2 DEF AllDone, StreamBreaks
    <2>2. QED
      BY <2>1, PageAssumption
         DEF PageInv, IsPage, AsksOfJobs, NeverHangs, EventsEnd
  <1>3. CASE TimerFires
    <2>1. /\ IsPage(page') /\ page'.busy = page.busy /\ page'.es = page.es
          /\ page'.mode = page.mode /\ evts' = evts
      BY <1>3 DEF TimerFires, PageInv, IsPage
    <2>2. asks' = asks \/ \E what : asks' = asks \cup {A("nowcast", what, 0)}
      BY <1>3 DEF TimerFires, Asking
    <2>3. AsksOfJobs' /\ NeverHangs'
      BY <2>1, <2>2, AskMade, StillWaits DEF PageInv, AsksOfJobs
    <2>4. QED
      BY <2>1, <2>3 DEF PageInv, EventsEnd
  <1>4. CASE Poll
    <2>1. /\ page' = page /\ asks' = asks \cup {A("list", {}, 0)}
          /\ evts' = [evts EXCEPT !.poll = FALSE]
      BY <1>4 DEF Poll, Asking
    <2>2. AsksOfJobs' /\ NeverHangs'
      BY <2>1, AskMade, StillWaits DEF PageInv, AsksOfJobs
    <2>3. QED
      BY <2>1, <2>2 DEF PageInv, EventsEnd, IsView
  <1>5. QED
    BY <1>1, <1>2, <1>3, <1>4 DEF Stream

\* Whatever is asked for and in whatever order the answers come, or none: a
\* page that says "Simulating" asks for a run or follows one, and nothing of
\* the event list is left outside events mode.
THEOREM PageIsSound == PageSpec => []PageSound
  <1>1. PageInit => PageInv
    BY PageAssumption
       DEF PageInit, FreshPage, FreshEvts, PageInv, IsPage, Modes, IsView,
           AsksOfJobs, NeverHangs, EventsEnd
  <1>2. PageInv /\ [PageNext]_pageVars => PageInv'
    BY UserStep, AnswerStep, OtherStep DEF PageNext
  <1>3. PageInv => PageSound
    BY DEF PageInv, PageSound
  <1>4. QED
    BY <1>1, <1>2, <1>3, PTL DEF PageSpec

-----------------------------------------------------------------------------
(* What /api/health says of the tick.                                      *)

\* The gauges the tick has left alone since it looked count as deferred.
LeftCounts ==
    /\ \A g \in Basins : left[g] # 0 => g \in mem.blocked
    /\ ~mem.sorted => left = NothingLeft

\* Every stamp the rules take for a sign of life is one.
Signs ==
    /\ sign <= clock /\ schedule <= sign /\ generated <= sign
    /\ mem.up <= sign /\ mem.asked <= sign /\ mem.attempt <= sign

\* A status tells of all that has been going on since it was built.
TellsOf(then, now, at) == now # 0 => now >= at \/ then = now
StatusSound(d) == d # NoStatus =>
    /\ d.at <= clock /\ d.mem.up <= sign /\ d.mem.attempt <= sign
    /\ d.schedule <= sign
    /\ d.mem.started # 0 => d.at <= sign
    /\ TellsOf(d.mem.started, mem.started, d.at)
    /\ TellsOf(d.mem.job, mem.job, d.at)
    /\ TellsOf(d.mem.waits, mem.waits, d.at)
    /\ TellsOf(d.mem.failed, mem.failed, d.at)
    /\ d.stalled <=> d.mem.waits # 0 /\ d.at - d.mem.waits >= StallMax
    /\ \A g \in Basins :
          left[g] # 0 => left[g] >= d.at \/ g \in d.mem.blocked
StatusesSound ==
    /\ StatusSound(post) /\ StatusSound(file)
    /\ \A a \in Askers :
          StatusSound(copy[a]) /\ \A d \in fetched[a] : StatusSound(d)

ReportSound(a) == report[a] # NoReport =>
    /\ report[a].at <= clock
    /\ report[a].ok => Told(report[a].at - CacheMax)
    /\ report[a].published => report[a].at - sign <= TickMax
ReportsSound == \A a \in Askers : ReportSound(a)

HealthInv ==
    HealthTypeOK /\ LeftCounts /\ Signs /\ StatusesSound /\ ReportsSound

\* What a step does to the stamps: it sets one to now, or takes one away.
Moves(old, new) == new \in {0, clock, old}
StampsMove ==
    /\ clock' >= clock /\ sign' \in {clock, sign}
    /\ Moves(mem.started, mem'.started) /\ Moves(mem.job, mem'.job)
    /\ Moves(mem.waits, mem'.waits) /\ Moves(mem.failed, mem'.failed)
    /\ \A g \in Basins : Moves(left[g], left'[g])

LEMMA HealthConstants ==
    /\ StallMax \in Nat \ {0} /\ TickMax \in Nat /\ WedgeMax \in Nat
    /\ CacheMax \in Nat /\ LastUnit \in Nat \ {0}
    /\ 0 \in Stamps /\ 1 \in Stamps /\ Stamps \subseteq Nat
  BY TickHealthAssumption DEF Stamps

LEMMA HealthNone ==
    Down \in Mems /\ NothingLeft \in [Basins -> Stamps]
  BY HealthConstants DEF Down, Mems, NothingLeft

LEMMA HealthInitType == HealthInit => HealthTypeOK
  <1>1. [Down EXCEPT !.up = 1] \in Mems
    BY HealthConstants, HealthNone DEF Mems
  <1>2. QED
    BY <1>1, HealthConstants, HealthNone DEF HealthInit, HealthTypeOK

\* The memory after a step of the process that ticks.
LEMMA MemType ==
    ASSUME HealthTypeOK, NEW x \in Stamps, NEW y \in Stamps, NEW b \in BOOLEAN,
           NEW G \in SUBSET Basins, NEW H \in SUBSET Basins
    PROVE  /\ [mem EXCEPT !.up = x] \in Mems
           /\ [mem EXCEPT !.asked = x] \in Mems
           /\ [mem EXCEPT !.attempt = x] \in Mems
           /\ [mem EXCEPT !.waits = x] \in Mems
           /\ [mem EXCEPT !.attempt = clock, !.failed = 0, !.sorted = FALSE,
                          !.started = x, !.waits = y] \in Mems
           /\ [mem EXCEPT !.sorted = TRUE, !.blocked = G] \in Mems
           /\ [mem EXCEPT !.started = 0, !.waits = 0, !.failed = x] \in Mems
           /\ [mem EXCEPT !.blocked = G] \in Mems
           /\ [mem EXCEPT !.job = x, !.run = G, !.waits = y] \in Mems
           /\ [mem EXCEPT !.job = 0, !.run = {}, !.skips = G,
                          !.blocked = H] \in Mems
           /\ [mem EXCEPT !.skips = G, !.blocked = H, !.waits = x] \in Mems
           /\ [mem EXCEPT !.job = 0, !.run = {}] \in Mems
  BY HealthConstants DEF HealthTypeOK, Mems

\* What a memory and a status are made of.
LEMMA MemParts ==
    ASSUME NEW m \in Mems
    PROVE  /\ m.up \in Stamps /\ m.asked \in Stamps /\ m.attempt \in Stamps
           /\ m.started \in Stamps /\ m.waits \in Stamps
           /\ m.failed \in Stamps /\ m.sorted \in BOOLEAN
           /\ m.job \in Stamps /\ m.run \in SUBSET Basins
           /\ m.skips \in SUBSET Basins /\ m.blocked \in SUBSET Basins
  BY DEF Mems

LEMMA HealthTypeStep == HealthTypeOK /\ [HealthNext]_tickVars => HealthTypeOK'
  <1> SUFFICES ASSUME HealthTypeOK, [HealthNext]_tickVars PROVE HealthTypeOK'
    OBVIOUS
  <1> USE HealthConstants, HealthNone
  <1>p. /\ mem.attempt \in Stamps /\ mem.waits \in Stamps
        /\ mem.skips \in SUBSET Basins /\ mem.blocked \in SUBSET Basins
        /\ mem.asked \in Stamps
    BY MemParts DEF HealthTypeOK
  <1>t. clock \in Stamps /\ clock \in Nat
    BY DEF HealthTypeOK
  <1>1. CASE Ping
    <2>1. mem' \in Mems /\ schedule' \in Stamps
      <3>1. CASE mem' = [mem EXCEPT !.attempt = clock]
        BY <1>t, <3>1, MemType, <1>1 DEF Ping, HealthTypeOK
      <3>2. CASE mem' # [mem EXCEPT !.attempt = clock]
        <4>1. PICK x \in Stamps, y \in Stamps :
                mem' = [mem EXCEPT !.attempt = clock, !.failed = 0,
                                   !.sorted = FALSE, !.started = x,
                                   !.waits = y]
          BY <1>t, <3>2, <1>1 DEF Ping
        <4>2. QED
          BY <1>t, <3>2, <4>1, MemType, <1>1 DEF Ping
      <3>3. QED
        BY <3>1, <3>2
    <2>2. QED
      BY <1>1, <1>t, <2>1 DEF Ping, HealthTypeOK, statusVars, askVars, counters
  <1>2. CASE TickMoves
    <2>1. mem' \in Mems
      BY <1>2, <1>t, MemType DEF TickMoves
    <2>2. QED
      BY <1>2, <2>1 DEF TickMoves, HealthTypeOK, statusVars, askVars, counters
  <1>3. CASE Reconcile
    <2>1. mem' \in Mems
      BY <1>3, <1>p, MemType DEF Reconcile
    <2>2. QED
      BY <1>3, <2>1 DEF Reconcile, HealthTypeOK, statusVars, askVars, counters
  <1>4. CASE TickEnds
    <2>1. mem' \in Mems
      BY <1>4, <1>t, MemType DEF TickEnds
    <2>2. QED
      BY <1>4, <2>1 DEF TickEnds, HealthTypeOK, statusVars, askVars, counters
  <1>l. \A g \in Basins : LeftAlone(g) \in [Basins -> Stamps]
    BY <1>t DEF LeftAlone, HealthTypeOK
  <1>5. ASSUME NEW g \in Basins, Defers(g) PROVE HealthTypeOK'
    <2>1. mem' \in Mems
      BY <1>5, <1>p, MemType DEF Defers, Marked
    <2>2. QED
      BY <1>5, <1>l, <2>1 DEF Defers, HealthTypeOK, statusVars, askVars,
         counters
  <1>6. ASSUME NEW g \in Basins, RunBegins(g) PROVE HealthTypeOK'
    <2>1. PICK y \in Stamps :
            mem' = [mem EXCEPT !.job = clock, !.run = {g}, !.waits = y]
      BY <1>6, <1>t, <1>p DEF RunBegins
    <2>2. mem' \in Mems
      BY <2>1, <1>t, MemType
    <2>3. QED
      BY <1>6, <2>2 DEF RunBegins, HealthTypeOK, statusVars, askVars
  <1>7. ASSUME NEW g \in Basins, RunDefers(g) PROVE HealthTypeOK'
    <2>1. mem' \in Mems
      BY <1>7, <1>p, MemType DEF RunDefers
    <2>2. QED
      BY <1>7, <1>l, <2>1 DEF RunDefers, HealthTypeOK, statusVars, askVars,
         counters
  <1>8. ASSUME NEW g \in Basins, RunPasses(g) PROVE HealthTypeOK'
    <2>1. PICK y \in Stamps :
            mem' = [mem EXCEPT !.skips = mem.skips \ {g},
                               !.blocked = mem.blocked \ {g}, !.waits = y]
      BY <1>8, <1>p DEF RunPasses
    <2>2. mem' \in Mems
      BY <2>1, <1>p, MemType
    <2>3. QED
      BY <1>8, <2>2 DEF RunPasses, HealthTypeOK, statusVars, askVars, counters
  <1>9. CASE RunEnds
    <2>1. mem' \in Mems
      BY <1>9, MemType, <1>t DEF RunEnds
    <2>2. QED
      BY <1>9, <2>1 DEF RunEnds, HealthTypeOK, statusVars, askVars, counters
  <1>10. CASE HostDies
    BY <1>10 DEF HostDies, HealthTypeOK, statusVars, askVars
  <1>11. CASE HostStarts
    <2>1. mem' \in Mems
      BY <1>11, <1>t DEF HostStarts, Mems
    <2>2. QED
      BY <1>11, <1>t, <2>1 DEF HostStarts, HealthTypeOK, statusVars, askVars,
         counters
  <1>12. CASE EpisodePublished
    BY <1>12, <1>t DEF EpisodePublished, HealthTypeOK, statusVars, askVars
  <1>13. CASE Build
    <2>1. PICK over \in BOOLEAN :
            /\ post' = [at |-> clock, mem |-> mem, stalled |-> Stalled,
                        schedule |-> schedule, over |-> over]
            /\ mem' = IF over THEN Down ELSE mem
            /\ left' = IF over THEN NothingLeft ELSE left
      BY <1>13, Zenon DEF Build
    <2>2. post' \in Statuses /\ mem' \in Mems /\ left' \in [Basins -> Stamps]
      BY <2>1, <1>t DEF Statuses, HealthTypeOK, Stalled
    <2>3. QED
      BY <1>13, <1>t, <2>2 DEF Build, HealthTypeOK, askVars
  <1>14. CASE Committed
    BY <1>14 DEF Committed, HealthTypeOK, hostVars, askVars, counters
  <1>15. ASSUME NEW a \in Askers, Fetch(a) PROVE HealthTypeOK'
    BY <1>15 DEF Fetch, HealthTypeOK, hostVars, statusVars, counters
  <1>16. ASSUME NEW a \in Askers, Cache(a) PROVE HealthTypeOK'
    BY <1>16 DEF Cache, HealthTypeOK, hostVars, statusVars, counters
  <1>17. ASSUME NEW a \in Askers, Report(a) PROVE HealthTypeOK'
    <2>1. mem' \in Mems
      <3>1. Asked \in Mems
        <4>1. PICK x \in Stamps : Asked = [mem EXCEPT !.asked = x]
          BY <1>t, <1>p DEF Asked
        <4>2. QED
          BY <4>1, MemType, <1>t
      <3>2. QED
        BY <1>17, <3>1 DEF Report, HealthTypeOK
    <2>2. report' \in [Askers -> Reports \cup {NoReport}]
      <3>1. PICK ok \in BOOLEAN, published \in BOOLEAN :
              report' = [report EXCEPT ![a] = [at |-> clock, ok |-> ok,
                                               published |-> published]]
        BY <1>17, Zenon DEF Report
      <3>2. [at |-> clock, ok |-> ok, published |-> published] \in Reports
        BY <1>t DEF Reports
      <3>3. \A r \in Reports : [report EXCEPT ![a] = r]
                               \in [Askers -> Reports \cup {NoReport}]
        BY DEF HealthTypeOK
      <3>4. QED
        BY <3>1, <3>2, <3>3
    <2>3. QED
      BY <1>17, <1>t, <2>1, <2>2 DEF Report, HealthTypeOK, statusVars, counters
  <1>18. CASE TimePasses
    BY <1>18 DEF TimePasses, HealthTypeOK, Stamps, hostVars, statusVars,
       askVars, counters
  <1>19. CASE UNCHANGED tickVars
    BY <1>19 DEF tickVars, HealthTypeOK
  <1>20. QED
    BY <1>1, <1>2, <1>3, <1>4, <1>5, <1>6, <1>7, <1>8, <1>9, <1>10, <1>11,
       <1>12, <1>13, <1>14, <1>15, <1>16, <1>17, <1>18, <1>19 DEF HealthNext

LEMMA HealthStamps ==
    ASSUME HealthTypeOK
    PROVE  /\ clock \in Nat /\ sign \in Nat /\ schedule \in Nat
           /\ generated \in Nat
           /\ mem.up \in Nat /\ mem.asked \in Nat /\ mem.attempt \in Nat
           /\ mem.started \in Nat /\ mem.waits \in Nat /\ mem.failed \in Nat
           /\ mem.job \in Nat /\ \A g \in Basins : left[g] \in Nat
  BY HealthConstants, MemParts DEF HealthTypeOK

\* Every step moves the stamps of the process that ticks so.
LEMMA StampsOnlyMove ==
    ASSUME HealthTypeOK, [HealthNext]_tickVars
    PROVE  StampsMove
  <1> USE DEF Moves, StampsMove
  <1>m. mem \in Mems /\ left \in [Basins -> Stamps]
    BY DEF HealthTypeOK
  <1>c. clock \in Nat
    BY HealthStamps
  <1>1. CASE Ping
    <2>1. clock' = clock /\ sign' = clock
      BY <1>1 DEF Ping
    <2>2. CASE mem' = [mem EXCEPT !.attempt = clock] /\ left' = left
      BY <2>1, <2>2, <1>m, <1>c DEF Mems
    <2>3. CASE /\ left' = NothingLeft
               /\ mem' = [mem EXCEPT !.attempt = clock, !.failed = 0,
                     !.sorted = FALSE,
                     !.started = IF mem.job = 0 THEN clock ELSE 0,
                     !.waits = IF mem.job = 0 THEN clock ELSE 0]
      BY <2>1, <2>3, <1>m, <1>c DEF Mems, NothingLeft
    <2>4. QED
      BY <2>2, <2>3, <1>1, Zenon DEF Ping
  <1>2. CASE TickMoves
    BY <1>2, <1>m, <1>c DEF TickMoves, Mems
  <1>3. CASE Reconcile
    BY <1>3, <1>m, <1>c DEF Reconcile, Mems
  <1>4. CASE TickEnds
    BY <1>4, <1>m, <1>c DEF TickEnds, Mems
  <1>l. \A g, h \in Basins : LeftAlone(g)[h] \in {0, clock, left[h]}
    BY <1>m DEF LeftAlone
  <1>5. ASSUME NEW g \in Basins, Defers(g) PROVE StampsMove
    BY <1>5, <1>l, <1>m, <1>c DEF Defers, Mems
  <1>6. ASSUME NEW g \in Basins, RunBegins(g) PROVE StampsMove
    BY <1>6, <1>m, <1>c DEF RunBegins, Mems
  <1>7. ASSUME NEW g \in Basins, RunDefers(g) PROVE StampsMove
    BY <1>7, <1>l, <1>m, <1>c DEF RunDefers, Mems
  <1>8. ASSUME NEW g \in Basins, RunPasses(g) PROVE StampsMove
    BY <1>8, <1>m, <1>c DEF RunPasses, Mems
  <1>9. CASE RunEnds
    BY <1>9, <1>m, <1>c DEF RunEnds, Mems
  <1>10. CASE HostDies
    BY <1>10, <1>c DEF HostDies, Down, NothingLeft
  <1>11. CASE HostStarts
    BY <1>11, <1>c DEF HostStarts, Down, NothingLeft
  <1>12. CASE EpisodePublished
    BY <1>12, <1>c DEF EpisodePublished
  <1>13. CASE Build
    BY <1>13, <1>c DEF Build, Down, NothingLeft
  <1>14. CASE Committed
    BY <1>14, <1>c DEF Committed, hostVars
  <1>15. ASSUME NEW a \in Askers, Fetch(a) \/ Cache(a) PROVE StampsMove
    BY <1>15, <1>c DEF Fetch, Cache, hostVars
  <1>16. ASSUME NEW a \in Askers, Report(a) PROVE StampsMove
    BY <1>16, <1>m, <1>c DEF Report, Asked, Mems
  <1>17. CASE TimePasses
    BY <1>17, <1>c DEF TimePasses, hostVars
  <1>18. CASE UNCHANGED tickVars
    BY <1>18, <1>c DEF tickVars
  <1>19. QED
    BY <1>1, <1>2, <1>3, <1>4, <1>5, <1>6, <1>7, <1>8, <1>9, <1>10, <1>11,
       <1>12, <1>13, <1>14, <1>15, <1>16, <1>17, <1>18 DEF HealthNext

\* What has been told of a time holds of it from then on, and of any earlier.
LEMMA ToldStays ==
    ASSUME HealthTypeOK, HealthTypeOK', StampsMove, Signs,
           NEW t \in Int, t <= clock, Told(t)
    PROVE  Told(t)'
  <1> USE HealthConstants, HealthStamps DEF Told, StampsMove, Moves
  <1>1. Longest \in Nat /\ Longest' = Longest
    BY DEF Longest
  <1>2. (t - sign <= TickMax)'
    OBVIOUS
  <1>3. /\ (mem.started # 0 => t - mem.started <= Longest)'
        /\ (mem.job # 0 => t - mem.job <= Longest)'
    BY <1>1
  <1>4. /\ (mem.waits # 0 => t - mem.waits < StallMax + TickMax)'
        /\ (mem.failed # 0 => t - mem.failed <= TickMax)'
    OBVIOUS
  <1>5. ASSUME NEW g \in Basins, left'[g] # 0 PROVE t - left'[g] <= TickMax
    BY <1>5
  <1>6. QED
    BY <1>2, <1>3, <1>4, <1>5

LEMMA ToldOfEarlier ==
    ASSUME HealthTypeOK, NEW t \in Int, NEW u \in Int, u <= t, Told(t)
    PROVE  Told(u)
  <1>1. Longest \in Nat
    BY HealthConstants DEF Longest
  <1>2. QED
    BY <1>1, HealthConstants, HealthStamps DEF Told

LEMMA StatusParts ==
    ASSUME NEW d \in Statuses
    PROVE  /\ d.at \in Nat /\ d.schedule \in Nat /\ d.stalled \in BOOLEAN
           /\ d.over \in BOOLEAN
           /\ d.mem \in Mems /\ d.mem.up \in Nat /\ d.mem.attempt \in Nat
           /\ d.mem.started \in Nat /\ d.mem.waits \in Nat
           /\ d.mem.failed \in Nat /\ d.mem.job \in Nat
  BY HealthConstants, MemParts DEF Statuses

\* A status that has been built stays sound.
LEMMA StatusStays ==
    ASSUME HealthTypeOK, HealthTypeOK', StampsMove, Signs,
           NEW d \in Statuses \cup {NoStatus}, StatusSound(d)
    PROVE  StatusSound(d)'
  <1> USE HealthConstants, HealthStamps, StatusParts DEF StampsMove, Moves
  <1> SUFFICES ASSUME d # NoStatus PROVE StatusSound(d)'
    BY DEF StatusSound
  <1>0. clock' \in Nat /\ sign' \in Nat /\ sign' >= sign
    BY HealthConstants DEF HealthTypeOK, Signs
  <1>1. (/\ d.at <= clock /\ d.mem.up <= sign /\ d.mem.attempt <= sign
         /\ d.schedule <= sign /\ (d.mem.started # 0 => d.at <= sign))'
    BY <1>0 DEF StatusSound
  <1>2. (/\ TellsOf(d.mem.started, mem.started, d.at)
         /\ TellsOf(d.mem.job, mem.job, d.at))'
    BY DEF StatusSound, TellsOf
  <1>3. (/\ TellsOf(d.mem.waits, mem.waits, d.at)
         /\ TellsOf(d.mem.failed, mem.failed, d.at))'
    BY DEF StatusSound, TellsOf
  <1>4. ASSUME NEW g \in Basins, left'[g] # 0
        PROVE  left'[g] >= d.at \/ g \in d.mem.blocked
    BY <1>4 DEF StatusSound
  <1>5. d.stalled <=> d.mem.waits # 0 /\ d.at - d.mem.waits >= StallMax
    BY DEF StatusSound
  <1>6. QED
    BY <1>1, <1>2, <1>3, <1>4, <1>5 DEF StatusSound

\* A gauge is left alone only as one that counts, by a tick that has looked.
LEMMA LeftStep ==
    ASSUME HealthTypeOK, LeftCounts, [HealthNext]_tickVars
    PROVE  LeftCounts'
  <1> USE DEF LeftCounts
  <1>m. mem \in Mems /\ left \in [Basins -> Stamps]
    BY DEF HealthTypeOK
  <1>n. \A g \in Basins : NothingLeft[g] = 0
    BY DEF NothingLeft
  <1>1. CASE Ping
    <2>1. CASE mem' = [mem EXCEPT !.attempt = clock] /\ left' = left
      BY <2>1, <1>m DEF Mems
    <2>2. CASE left' = NothingLeft
      BY <2>2, <1>n
    <2>3. QED
      BY <2>1, <2>2, <1>1, Zenon DEF Ping
  <1>2. CASE TickMoves
    BY <1>2, <1>m DEF TickMoves, Mems
  <1>3. CASE Reconcile
    <2>1. left' = NothingLeft
      BY <1>3 DEF Reconcile
    <2>2. QED
      BY <2>1, <1>n
  <1>4. CASE TickEnds
    BY <1>4, <1>m DEF TickEnds, Mems
  <1>l. ASSUME NEW g \in Basins
        PROVE  /\ \A h \in Basins \ {g} : LeftAlone(g)[h] = left[h]
               /\ ~mem.sorted => LeftAlone(g) = left
    BY <1>m DEF LeftAlone
  <1>5. ASSUME NEW g \in Basins, Defers(g) PROVE LeftCounts'
    BY <1>5, <1>l, <1>m DEF Defers, Marked, Mems
  <1>6. ASSUME NEW g \in Basins, RunBegins(g) PROVE LeftCounts'
    BY <1>6, <1>m DEF RunBegins, Mems
  <1>7. ASSUME NEW g \in Basins, RunDefers(g) PROVE LeftCounts'
    BY <1>7, <1>l, <1>m DEF RunDefers, Mems
  <1>8. ASSUME NEW g \in Basins, RunPasses(g) PROVE LeftCounts'
    <2>1. /\ mem'.blocked = mem.blocked \ {g} /\ mem'.sorted = mem.sorted
          /\ left' = [left EXCEPT ![g] = 0]
      BY <1>8, <1>m DEF RunPasses, Mems
    <2>2. left = NothingLeft => left' = NothingLeft
      BY <2>1, <1>m DEF NothingLeft
    <2>3. QED
      BY <2>1, <2>2, <1>m
  <1>9. CASE RunEnds
    BY <1>9, <1>m DEF RunEnds, Mems
  <1>10. CASE HostDies
    BY <1>10, <1>n DEF HostDies
  <1>11. CASE HostStarts
    BY <1>11, <1>n DEF HostStarts
  <1>12. CASE EpisodePublished
    BY <1>12 DEF EpisodePublished
  <1>13. CASE Build
    BY <1>13, <1>n DEF Build
  <1>14. CASE Committed
    BY <1>14 DEF Committed, hostVars
  <1>15. ASSUME NEW a \in Askers, Fetch(a) \/ Cache(a) PROVE LeftCounts'
    BY <1>15 DEF Fetch, Cache, hostVars
  <1>16. ASSUME NEW a \in Askers, Report(a) PROVE LeftCounts'
    BY <1>16, <1>m DEF Report, Asked, Mems
  <1>17. CASE TimePasses
    BY <1>17 DEF TimePasses, hostVars
  <1>18. CASE UNCHANGED tickVars
    BY <1>18 DEF tickVars
  <1>19. QED
    BY <1>1, <1>2, <1>3, <1>4, <1>5, <1>6, <1>7, <1>8, <1>9, <1>10, <1>11,
       <1>12, <1>13, <1>14, <1>15, <1>16, <1>17, <1>18 DEF HealthNext

LEMMA SignsStep ==
    ASSUME HealthTypeOK, Signs, [HealthNext]_tickVars
    PROVE  Signs'
  <1> USE HealthStamps DEF Signs
  <1>m. mem \in Mems
    BY DEF HealthTypeOK
  <1>1. CASE Ping
    <2>1. CASE /\ mem' = [mem EXCEPT !.attempt = clock]
               /\ schedule' = schedule
      BY <1>1, <2>1, <1>m DEF Ping, Mems
    <2>2. CASE /\ schedule' = clock
               /\ mem' = [mem EXCEPT !.attempt = clock, !.failed = 0,
                     !.sorted = FALSE,
                     !.started = IF mem.job = 0 THEN clock ELSE 0,
                     !.waits = IF mem.job = 0 THEN clock ELSE 0]
      BY <1>1, <2>2, <1>m DEF Ping, Mems
    <2>3. QED
      BY <2>1, <2>2, <1>1, Zenon DEF Ping
  <1>2. CASE TickMoves \/ Reconcile \/ TickEnds
    BY <1>2, <1>m DEF TickMoves, Reconcile, TickEnds, Mems
  <1>3. ASSUME NEW g \in Basins, Defers(g) \/ RunBegins(g) PROVE Signs'
    BY <1>3, <1>m DEF Defers, RunBegins, Mems
  <1>4. ASSUME NEW g \in Basins, RunDefers(g) \/ RunPasses(g) PROVE Signs'
    BY <1>4, <1>m DEF RunDefers, RunPasses, Mems
  <1>5. CASE RunEnds
    BY <1>5, <1>m DEF RunEnds, Mems
  <1>6. CASE HostDies
    BY <1>6 DEF HostDies, Down
  <1>7. CASE HostStarts
    BY <1>7 DEF HostStarts, Down
  <1>8. CASE EpisodePublished
    BY <1>8 DEF EpisodePublished
  <1>9. CASE Build
    BY <1>9 DEF Build, Down
  <1>10. CASE Committed
    BY <1>10 DEF Committed, hostVars
  <1>11. ASSUME NEW a \in Askers, Fetch(a) \/ Cache(a) PROVE Signs'
    BY <1>11 DEF Fetch, Cache, hostVars
  <1>12. ASSUME NEW a \in Askers, Report(a) PROVE Signs'
    <2>1. CASE mem' = mem
      BY <1>12, <2>1 DEF Report
    <2>2. CASE mem' = Asked /\ mem' # mem
      BY <1>12, <2>2, <1>m DEF Report, Asked, Mems
    <2>3. QED
      BY <1>12, <2>1, <2>2 DEF Report
  <1>13. CASE TimePasses
    BY <1>13 DEF TimePasses, hostVars
  <1>14. CASE UNCHANGED tickVars
    BY <1>14 DEF tickVars
  <1>15. QED
    BY <1>1, <1>2, <1>3, <1>4, <1>5, <1>6, <1>7, <1>8, <1>9, <1>10, <1>11,
       <1>12, <1>13, <1>14 DEF HealthNext

\* What a step does to the statuses: it moves them, or builds one.
LEMMA StatusesMove ==
    ASSUME HealthTypeOK, [HealthNext]_tickVars
    PROVE  /\ file' \in {post, file}
           /\ post' \in {post, NoStatus} \/ Build
           /\ \A a \in Askers :
                 /\ fetched'[a] \subseteq fetched[a] \cup {file}
                 /\ copy'[a] \in fetched[a] \cup {copy[a]}
  <1> DEFINE Goal == /\ file' \in {post, file}
                     /\ post' \in {post, NoStatus} \/ Build
                     /\ \A a \in Askers :
                           /\ fetched'[a] \subseteq fetched[a] \cup {file}
                           /\ copy'[a] \in fetched[a] \cup {copy[a]}
  <1>1. CASE UNCHANGED <<statusVars, fetched, copy>>
    BY <1>1 DEF statusVars
  <1>2. CASE Build
    BY <1>2 DEF Build, askVars
  <1>3. CASE Committed
    BY <1>3 DEF Committed, askVars
  <1>4. ASSUME NEW a \in Askers, Fetch(a) PROVE Goal
    BY <1>4 DEF Fetch, statusVars, HealthTypeOK
  <1>5. ASSUME NEW a \in Askers, Cache(a) PROVE Goal
    BY <1>5 DEF Cache, statusVars, HealthTypeOK
  <1>6. CASE Ping \/ TickMoves \/ Reconcile \/ TickEnds \/ RunEnds
    BY <1>1, <1>6 DEF Ping, TickMoves, Reconcile, TickEnds, RunEnds, askVars
  <1>7. ASSUME NEW g \in Basins,
               Defers(g) \/ RunBegins(g) \/ RunDefers(g) \/ RunPasses(g)
        PROVE  Goal
    BY <1>1, <1>7 DEF Defers, RunBegins, RunDefers, RunPasses, askVars
  <1>8. CASE HostDies \/ HostStarts \/ EpisodePublished \/ TimePasses
    BY <1>1, <1>8 DEF HostDies, HostStarts, EpisodePublished, TimePasses,
       askVars
  <1>9. ASSUME NEW a \in Askers, Report(a) PROVE Goal
    BY <1>1, <1>9 DEF Report
  <1>10. CASE UNCHANGED tickVars
    BY <1>1, <1>10 DEF tickVars, statusVars
  <1>11. QED
    BY <1>2, <1>3, <1>4, <1>5, <1>6, <1>7, <1>8, <1>9, <1>10 DEF HealthNext

\* The status that is built tells of all that goes on.
LEMMA BuiltSound ==
    ASSUME HealthTypeOK, HealthTypeOK', LeftCounts, Signs, Build,
           NEW d, d = post'
    PROVE  StatusSound(d)'
  <1> USE HealthConstants, HealthStamps
  <1>1. PICK over \in BOOLEAN :
          /\ post' = [at |-> clock, mem |-> mem, stalled |-> Stalled,
                      schedule |-> schedule, over |-> over]
          /\ mem' = IF over THEN Down ELSE mem
          /\ left' = IF over THEN NothingLeft ELSE left
    BY Zenon DEF Build
  <1>2. clock' = clock /\ sign' = IF Ticking THEN clock ELSE sign
    BY DEF Build
  <1>3. /\ d.at = clock /\ d.mem = mem /\ d.stalled = Stalled
        /\ d.schedule = schedule
    BY <1>1
  <1>4. /\ d.at <= clock' /\ d.mem.up <= sign' /\ d.mem.attempt <= sign'
        /\ d.schedule <= sign' /\ (d.mem.started # 0 => d.at <= sign')
    BY <1>2, <1>3 DEF Signs, Ticking
  <1>5. d.stalled <=> d.mem.waits # 0 /\ d.at - d.mem.waits >= StallMax
    BY <1>3 DEF Stalled
  <1>6. /\ mem'.started \in {0, mem.started} /\ mem'.job \in {0, mem.job}
        /\ mem'.waits \in {0, mem.waits} /\ mem'.failed \in {0, mem.failed}
    BY <1>1 DEF Down
  <1>7. \A g \in Basins : left'[g] # 0 => g \in d.mem.blocked
    BY <1>1, <1>3 DEF NothingLeft, LeftCounts
  <1>8. QED
    BY <1>3, <1>4, <1>5, <1>6, <1>7 DEF StatusSound, TellsOf

LEMMA StatusesStep ==
    ASSUME HealthTypeOK, HealthTypeOK', LeftCounts, Signs, StatusesSound,
           [HealthNext]_tickVars
    PROVE  StatusesSound'
  <1> DEFINE Docs == Statuses \cup {NoStatus}
  <1>1. StampsMove
    BY StampsOnlyMove
  <1>2. \A d \in Docs : StatusSound(d) => StatusSound(d)'
    BY <1>1, StatusStays
  <1>3. /\ post \in Docs /\ file \in Docs
        /\ \A a \in Askers :
              copy[a] \in Docs /\ fetched[a] \subseteq Docs
    BY DEF HealthTypeOK
  <1>4. StatusSound(NoStatus)'
    BY DEF StatusSound
  <1>5. /\ \A d \in Docs : d = file' => StatusSound(d)'
        /\ \A d \in Docs : d = post' => StatusSound(d)'
    BY <1>2, <1>3, <1>4, StatusesMove, BuiltSound DEF StatusesSound
  <1>6. ASSUME NEW a \in Askers
        PROVE  /\ \A d \in Docs : d = copy'[a] => StatusSound(d)'
               /\ \A d \in fetched'[a] : StatusSound(d)'
    BY <1>2, <1>3, StatusesMove DEF StatusesSound
  <1>7. /\ post' \in Docs /\ file' \in Docs
        /\ \A a \in Askers : copy'[a] \in Docs
    BY DEF HealthTypeOK
  <1>8. StatusSound(post)' /\ StatusSound(file)'
    BY <1>5, <1>7 DEF StatusSound
  <1>9. \A a \in Askers : StatusSound(copy[a])'
    BY <1>6, <1>7 DEF StatusSound
  <1>10. QED
    BY <1>6, <1>8, <1>9 DEF StatusesSound

\* What is told by the rules holds, where a publish of late is one.
LEMMA WellTold ==
    ASSUME HealthTypeOK, LeftCounts, Signs, StatusesSound,
           NEW a \in Askers, NEW published \in BOOLEAN, NEW t \in Int,
           t <= clock, published => t - sign <= TickMax, Ok(a, published)
    PROVE  Told(t)
  <1> USE HealthConstants, HealthStamps
  <1>c. Longest \in Nat /\ WedgeMax <= Longest /\ TickMax <= Longest
    BY DEF Longest
  <1>1. CASE Kind[a] = "here"
    <2>1. WellHere(mem, published)
      BY <1>1 DEF Ok
    <2>2. /\ ~Stalled /\ mem.failed = 0 /\ mem.blocked = {}
          /\ \A busy \in BusyNow(mem, clock) : busy <= WedgeMax
          /\ \/ mem.attempt # 0 /\ clock - mem.attempt <= TickMax
             \/ published
             \/ clock - mem.asked < TickMax
      BY <2>1 DEF WellHere, Well
    <2>3. t - sign <= TickMax
      BY <2>2 DEF Signs
    <2>4. /\ mem.started # 0 => clock - mem.started \in BusyNow(mem, clock)
          /\ mem.job # 0 => clock - mem.job \in BusyNow(mem, clock)
      BY DEF BusyNow
    <2>5. /\ mem.started # 0 => t - mem.started <= Longest
          /\ mem.job # 0 => t - mem.job <= Longest
      BY <1>c, <2>2, <2>4
    <2>6. mem.waits # 0 => t - mem.waits < StallMax + TickMax
      BY <2>2 DEF Stalled
    <2>7. \A g \in Basins : left[g] = 0
      BY <2>2 DEF LeftCounts
    <2>8. QED
      BY <2>2, <2>3, <2>5, <2>6, <2>7 DEF Told
  <1>2. CASE Kind[a] # "here"
    <2> DEFINE d == copy[a]
               last == IF d.mem.started # 0 /\ ~Stale(d) THEN d.at
                       ELSE IF d.mem.attempt # 0 THEN d.mem.attempt
                            ELSE d.schedule
    <2>1. WellByFile(d, published)
      BY <1>2 DEF Ok
    <2>2. /\ d # NoStatus /\ ~Stale(d) /\ ~d.stalled
          /\ d.mem.failed = 0 /\ d.mem.blocked = {}
          /\ \A busy \in BusyNow(d.mem, d.at) : busy <= WedgeMax
          /\ \/ last # 0 /\ clock - last <= TickMax
             \/ last = 0 /\ published
             \/ clock - d.mem.up < TickMax
      BY <2>1 DEF WellByFile, Well
    <2>d. d \in Statuses /\ StatusSound(d)
      BY <2>2 DEF HealthTypeOK, StatusesSound
    <2>p. /\ d.at \in Nat /\ d.schedule \in Nat /\ d.mem.up \in Nat
          /\ d.mem.attempt \in Nat /\ d.mem.started \in Nat
          /\ d.mem.waits \in Nat /\ d.mem.job \in Nat
      BY <2>d, StatusParts
    <2>s. /\ d.at <= clock /\ d.mem.up <= sign /\ d.mem.attempt <= sign
          /\ d.schedule <= sign /\ (d.mem.started # 0 => d.at <= sign)
      BY <2>d, <2>2 DEF StatusSound
    <2>r. clock - d.at <= TickMax
      BY <2>2, <2>p DEF Stale
    <2>3. t - sign <= TickMax
      <3>1. last \in Nat /\ last <= sign
        BY <2>p, <2>s
      <3>2. QED
        BY <3>1, <2>2, <2>p, <2>s
    <2>4. /\ d.mem.started # 0 => clock - d.mem.started <= WedgeMax
          /\ d.mem.job # 0 => clock - d.mem.job <= WedgeMax
      BY <2>2 DEF BusyNow
    <2>5. /\ mem.started # 0 => t - mem.started <= Longest
          /\ mem.job # 0 => t - mem.job <= Longest
      BY <1>c, <2>2, <2>4, <2>d, <2>p, <2>r DEF StatusSound, TellsOf
    <2>6. mem.waits # 0 => t - mem.waits < StallMax + TickMax
      BY <2>2, <2>d, <2>p, <2>r DEF StatusSound, TellsOf
    <2>7. mem.failed # 0 => t - mem.failed <= TickMax
      BY <2>2, <2>d, <2>p, <2>r DEF StatusSound, TellsOf
    <2>8. \A g \in Basins : left[g] # 0 => t - left[g] <= TickMax
      BY <2>2, <2>d, <2>p, <2>r DEF StatusSound
    <2>9. QED
      BY <2>3, <2>5, <2>6, <2>7, <2>8 DEF Told
  <1>3. QED
    BY <1>1, <1>2

\* What an answer says that is not another process's, cached or not.
OwnReportsSound == \A a \in Askers : Kind[a] # "url" => ReportSound(a)
LEMMA AfreshTold ==
    HealthTypeOK /\ LeftCounts /\ Signs /\ StatusesSound /\ OwnReportsSound
    => \A a \in Askers : OkAfresh(a) => Told(clock - CacheMax)
  <1> USE HealthConstants, HealthStamps
  <1> SUFFICES ASSUME HealthTypeOK, LeftCounts, Signs, StatusesSound,
                      OwnReportsSound, NEW a \in Askers, OkAfresh(a)
               PROVE  Told(clock - CacheMax)
    OBVIOUS
  <1>1. ASSUME NEW b \in Askers, Ok(b, Lately) PROVE Told(clock - CacheMax)
    <2>1. Lately \in BOOLEAN /\ (Lately => clock - sign <= TickMax)
      BY DEF Lately, Signs
    <2>2. Told(clock)
      BY <1>1, <2>1, WellTold
    <2>3. QED
      BY <2>2, ToldOfEarlier
  <1>2. ASSUME NEW b \in Askers, Kind[b] # "url", OkCached(b)
        PROVE  Told(clock - CacheMax)
    <2>1. /\ clock - report[b].at <= CacheMax
          /\ Ok(b, report[b].published) /\ ReportSound(b)
      BY <1>2 DEF OkCached, OwnReportsSound
    <2>2. report[b].published \in BOOLEAN /\ report[b].at \in Nat
      BY <1>2 DEF HealthTypeOK, Reports, OkCached
    <2>3. report[b].published => clock - CacheMax - sign <= TickMax
      BY <1>2, <2>1, <2>2 DEF ReportSound, OkCached
    <2>4. clock - CacheMax \in Int /\ clock - CacheMax <= clock
      OBVIOUS
    <2>5. QED
      BY <2>1, <2>2, <2>3, <2>4, WellTold
  <1>3. QED
    BY <1>1, <1>2 DEF OkAfresh

LEMMA AfreshToldNext ==
    (HealthTypeOK /\ LeftCounts /\ Signs /\ StatusesSound /\ OwnReportsSound)'
    => (\A a \in Askers : OkAfresh(a) => Told(clock - CacheMax))'
  BY AfreshTold, PTL

\* A report that is cached stays sound.
LEMMA ReportStays ==
    ASSUME HealthTypeOK, HealthTypeOK', StampsMove, Signs,
           NEW a \in Askers, ReportSound(a), report'[a] = report[a]
    PROVE  ReportSound(a)'
  <1> USE HealthConstants, HealthStamps
  <1> SUFFICES ASSUME report[a] # NoReport PROVE ReportSound(a)'
    BY DEF ReportSound
  <1>1. report[a].at \in Nat /\ clock' \in Nat /\ sign' \in Nat
    BY DEF HealthTypeOK, Reports
  <1>2. /\ report[a].at <= clock /\ clock' >= clock /\ sign' >= sign
        /\ report[a].published => report[a].at - sign <= TickMax
    BY <1>1 DEF ReportSound, StampsMove, Signs
  <1>3. report[a].ok => Told(report[a].at - CacheMax)'
    <2>1. /\ report[a].at - CacheMax \in Int
          /\ report[a].at - CacheMax <= clock
      BY <1>1, <1>2
    <2> DEFINE t == report[a].at - CacheMax
    <2>2. Told(t) => \A u \in Int : u = t => Told(u)'
      BY <2>1, ToldStays
    <2>3. \A u \in Int : u = t /\ Told(u)' => Told(report[a].at - CacheMax)'
      BY DEF Told
    <2>4. QED
      BY <2>1, <2>2, <2>3 DEF ReportSound
  <1>4. QED
    BY <1>1, <1>2, <1>3 DEF ReportSound

LEMMA ReportsStep ==
    ASSUME HealthTypeOK, HealthTypeOK', LeftCounts', Signs, Signs',
           StatusesSound', ReportsSound, [HealthNext]_tickVars
    PROVE  ReportsSound'
  <1> USE HealthConstants, HealthStamps
  <1>m. StampsMove
    BY StampsOnlyMove
  <1>1. ASSUME NEW a \in Askers, Report(a) PROVE ReportsSound'
    <2>1. PICK ok \in BOOLEAN, published \in BOOLEAN :
            /\ report' = [report EXCEPT ![a] = [at |-> clock, ok |-> ok,
                                                published |-> published]]
            /\ clock' = clock
            /\ ok => Kind[a] = "url" /\ OkAfresh(a)'
            /\ published => Lately
      BY <1>1, Zenon DEF Report
    <2>2. ASSUME NEW b \in Askers, b # a PROVE ReportSound(b)'
      <3>1. report'[b] = report[b]
        BY <2>1, <2>2 DEF HealthTypeOK
      <3>2. QED
        BY <3>1, <1>m, ReportStays DEF ReportsSound
    <2>3. /\ report'[a].at = clock /\ report'[a].ok = ok
          /\ report'[a].published = published
      BY <2>1 DEF HealthTypeOK
    <2>4. published => clock - sign' <= TickMax
      <3>1. sign' \in Nat /\ sign' >= sign
        BY <1>m DEF HealthTypeOK, StampsMove, Moves, Signs
      <3>2. QED
        BY <2>1, <3>1 DEF Lately, Signs
    <2>5. (report[a].at <= clock)'
          /\ (report[a].published => report[a].at - sign <= TickMax)'
      BY <2>1, <2>3, <2>4
    <2>6. CASE ~ok
      <3>1. ReportSound(a)'
        BY <2>3, <2>5, <2>6 DEF ReportSound
      <3>2. QED
        BY <2>2, <3>1 DEF ReportsSound
    <2>7. CASE ok
      <3>1. Kind[a] = "url" /\ OkAfresh(a)'
        BY <2>1, <2>7
      <3>2. OwnReportsSound'
        BY <2>2, <3>1 DEF OwnReportsSound
      <3>3. (\A b \in Askers : OkAfresh(b) => Told(clock - CacheMax))'
        BY <3>2, AfreshToldNext
      <3>4. Told(clock - CacheMax)'
        BY <3>1, <3>3
      <3>5. ReportSound(a)'
        BY <2>1, <2>3, <2>5, <3>4 DEF ReportSound
      <3>6. QED
        BY <2>2, <3>5 DEF ReportsSound
    <2>8. QED
      BY <2>6, <2>7
  <1>2. ASSUME UNCHANGED report PROVE ReportsSound'
    BY <1>2, <1>m, ReportStays DEF ReportsSound
  <1>3. CASE Ping \/ TickMoves \/ Reconcile \/ TickEnds \/ RunEnds
    BY <1>2, <1>3 DEF Ping, TickMoves, Reconcile, TickEnds, RunEnds, askVars
  <1>4. ASSUME NEW g \in Basins,
               Defers(g) \/ RunBegins(g) \/ RunDefers(g) \/ RunPasses(g)
        PROVE  ReportsSound'
    BY <1>2, <1>4 DEF Defers, RunBegins, RunDefers, RunPasses, askVars
  <1>5. CASE HostDies \/ HostStarts \/ EpisodePublished \/ TimePasses
    BY <1>2, <1>5 DEF HostDies, HostStarts, EpisodePublished, TimePasses,
       askVars
  <1>6. CASE Build \/ Committed
    BY <1>2, <1>6 DEF Build, Committed, askVars
  <1>7. ASSUME NEW a \in Askers, Fetch(a) \/ Cache(a) PROVE ReportsSound'
    BY <1>2, <1>7 DEF Fetch, Cache
  <1>8. CASE UNCHANGED tickVars
    BY <1>2, <1>8 DEF tickVars
  <1>9. QED
    BY <1>1, <1>3, <1>4, <1>5, <1>6, <1>7, <1>8 DEF HealthNext

LEMMA HealthInitInv == HealthInit => HealthInv
  <1> SUFFICES ASSUME HealthInit PROVE HealthInv
    OBVIOUS
  <1> USE HealthConstants DEF HealthInit
  <1>1. mem.up = 1 /\ \A f \in {mem.asked, mem.attempt, mem.started} : f = 0
    BY DEF Down
  <1>2. LeftCounts /\ Signs
    BY <1>1 DEF LeftCounts, NothingLeft, Signs
  <1>3. StatusesSound
    BY DEF StatusesSound, StatusSound
  <1>4. ReportsSound
    BY DEF ReportsSound, ReportSound
  <1>5. QED
    BY <1>2, <1>3, <1>4, HealthInitType DEF HealthInv

LEMMA HealthStep == HealthInv /\ [HealthNext]_tickVars => HealthInv'
  <1> SUFFICES ASSUME HealthInv, [HealthNext]_tickVars PROVE HealthInv'
    OBVIOUS
  <1>1. /\ HealthTypeOK /\ LeftCounts /\ Signs /\ StatusesSound
        /\ ReportsSound
    BY DEF HealthInv
  <1>2. HealthTypeOK'
    BY <1>1, HealthTypeStep
  <1>3. LeftCounts' /\ Signs'
    BY <1>1, LeftStep, SignsStep
  <1>4. StatusesSound'
    BY <1>1, <1>2, StatusesStep
  <1>5. ReportsSound'
    BY <1>1, <1>2, <1>3, <1>4, ReportsStep
  <1>6. QED
    BY <1>2, <1>3, <1>4, <1>5 DEF HealthInv

LEMMA HealthTold == HealthInv => TickTold
  <1> SUFFICES ASSUME HealthInv, NEW a \in Askers,
                      OkAfresh(a) \/ OkCached(a)
               PROVE  Told(clock - 2 * CacheMax)
    BY Zenon DEF TickTold
  <1> USE HealthConstants, HealthStamps DEF HealthInv
  <1>1. ASSUME NEW t \in Int, t >= clock - 2 * CacheMax, Told(t)
        PROVE  Told(clock - 2 * CacheMax)
    BY <1>1, ToldOfEarlier
  <1>2. CASE OkAfresh(a)
    <2>1. Told(clock - CacheMax)
      BY <1>2, AfreshTold DEF OwnReportsSound, ReportsSound
    <2>2. QED
      BY <2>1, <1>1
  <1>3. CASE OkCached(a) /\ Kind[a] = "url"
    <2>1. /\ clock - report[a].at <= CacheMax
          /\ Told(report[a].at - CacheMax)
      BY <1>3 DEF OkCached, ReportsSound, ReportSound
    <2>2. report[a].at \in Nat
      BY <1>3 DEF HealthTypeOK, Reports, OkCached
    <2>3. QED
      BY <2>1, <2>2, <1>1
  <1>4. CASE OkCached(a) /\ Kind[a] # "url"
    <2>1. /\ clock - report[a].at <= CacheMax
          /\ Ok(a, report[a].published)
          /\ report[a].published => report[a].at - sign <= TickMax
      BY <1>4 DEF OkCached, ReportsSound, ReportSound
    <2>2. report[a].published \in BOOLEAN /\ report[a].at \in Nat
      BY <1>4 DEF HealthTypeOK, Reports, OkCached
    <2>3. /\ clock - CacheMax \in Int /\ clock - CacheMax <= clock
          /\ report[a].published => clock - CacheMax - sign <= TickMax
      BY <2>1, <2>2
    <2>4. Told(clock - CacheMax)
      BY <2>1, <2>2, <2>3, WellTold
    <2>5. QED
      BY <2>4, <1>1
  <1>5. QED
    BY <1>2, <1>3, <1>4

\* What /api/health says is "ok" of the tick is so, but for the limits and the
\* caches: TickTold, from whatever process and by whichever way it is asked.
THEOREM HealthTellsOfTheTick == HealthSpec => []TickTold
  <1>1. HealthInit => HealthInv
    BY HealthInitInv
  <1>2. HealthInv /\ [HealthNext]_tickVars => HealthInv'
    BY HealthStep
  <1>3. HealthInv => TickTold
    BY HealthTold
  <1>4. QED
    BY <1>1, <1>2, <1>3, PTL DEF HealthSpec
=============================================================================
