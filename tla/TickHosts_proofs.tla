-------------------------- MODULE TickHosts_proofs --------------------------
(***************************************************************************)
(* Proofs about TickHosts, for any bounds: no commit of the status file    *)
(* hides a change of the daemon's state, no issue ticks twice for its      *)
(* advance, and a block of the guard lasts.                                *)
(***************************************************************************)
EXTENDS TickHosts, TLAPS

\* TypeOK in two parts: the variables that are true or false, and the others.

Flags ==
    /\ stop \in BOOLEAN /\ polled \in BOOLEAN /\ failed \in BOOLEAN
    /\ blocked \in BOOLEAN /\ reachable \in BOOLEAN /\ spaceTick \in BOOLEAN
    /\ busy \in BOOLEAN

Ranges ==
    /\ unit \in {"off", "active", "failed"}
    /\ at \in {"loop", "poll", "guard", "pump", "commit", "grace", "final"}
    /\ want \in {"none", "start", "issue", "max_gap"} \X (0..MaxIssue)
    /\ state \in States /\ pending \in SUBSET Reasons
    /\ flight \in Flights \cup {NoFlight}
    /\ tries \in 0..2
    /\ tick \in {"none", "running", "ended"}
    /\ lastIssue \in 0..MaxIssue /\ age \in (0..MaxBusy) \cup {Never}
    /\ issue \in 0..MaxIssue /\ ticked \in SUBSET (1..MaxIssue)
    /\ heard \in {"none", "block", "clear"}
    /\ remote \in Docs \cup {NoDoc} /\ seen \in Docs \cup {NoDoc}
    /\ source \in {"local", "remote"} /\ manual \in {"none", "setup", "run"}
    /\ faults \in 0..MaxFaults /\ orders \in 0..MaxOrders

LEMMA FlagsStep ==
    ASSUME Flags, [Next]_vars
    PROVE  Flags'
  <1> USE DEF Flags, processVars, savedVars, daemonVars, spaceVars, bounds
  <1>1. CASE Reap
    BY <1>1 DEF Reap, Request
  <1>2. CASE Pass
    BY <1>2 DEF Pass, Request
  <1>3. CASE Wedged
    BY <1>3 DEF Wedged, Request
  <1>4. CASE Poll
    BY <1>4 DEF Poll, WhyDue
  <1>5. CASE GuardAnswers
    BY <1>5 DEF GuardAnswers, Request
  <1>6. CASE Pump
    BY <1>6 DEF Pump, Flight, Doc
  <1>7. CASE Pumped
    BY <1>7 DEF Pumped
  <1>8. CASE BeginStop
    BY <1>8 DEF BeginStop, Request
  <1>9. CASE GracePump
    BY <1>9 DEF GracePump, Flight, Doc
  <1>10. CASE GraceOver
    BY <1>10 DEF GraceOver
  <1>11. CASE FinalTry
    BY <1>11 DEF FinalTry, Flight, Doc
  <1>12. CASE Ended
    BY <1>12 DEF Ended, Exit, Afresh
  <1>13. CASE FlightLands
    BY <1>13 DEF FlightLands
  <1>14. CASE FlightFails
    BY <1>14 DEF FlightFails, Fault
  <1>15. CASE Crash
    BY <1>15 DEF Crash, Exit, Afresh, Fault
  <1>16. CASE Restart
    BY <1>16 DEF Restart, Boot, Afresh
  <1>17. CASE Ping
    BY <1>17 DEF Ping, Read, Fault
  <1>18. CASE SpaceTickEnds
    BY <1>18 DEF SpaceTickEnds
  <1>19. CASE EventRun
    BY <1>19 DEF EventRun, Read, Order
  <1>20. CASE EventMarked
    BY <1>20 DEF EventMarked
  <1>21. CASE EventEnds
    BY <1>21 DEF EventEnds
  <1>22. CASE SpaceDown
    BY <1>22 DEF SpaceDown, Fault
  <1>23. CASE SpaceUp
    BY <1>23 DEF SpaceUp
  <1>24. CASE SetTick
    BY <1>24 DEF SetTick, Order
  <1>25. CASE Enable
    BY <1>25 DEF Enable, Boot, Afresh, Order
  <1>26. CASE Disable
    BY <1>26 DEF Disable, Order
  <1>27. CASE NewIssue
    BY <1>27 DEF NewIssue
  <1>28. CASE TickEnds
    BY <1>28 DEF TickEnds
  <1>29. CASE HourPasses
    BY <1>29 DEF HourPasses, Older, UpTo
  <1>30. CASE UNCHANGED vars
    BY <1>30 DEF vars, daemonVars, spaceVars, bounds
  <1>31. QED
    BY <1>1, <1>2, <1>3, <1>4, <1>5, <1>6, <1>7, <1>8, <1>9, <1>10, <1>11,
       <1>12, <1>13, <1>14, <1>15, <1>16, <1>17, <1>18, <1>19, <1>20, <1>21,
       <1>22, <1>23, <1>24, <1>25, <1>26, <1>27, <1>28, <1>29, <1>30
       DEF Next, Daemon

LEMMA RangesStep ==
    ASSUME TypeOK, [Next]_vars
    PROVE  Ranges'
  <1> USE DEF TypeOK, Ranges, processVars, savedVars, daemonVars, spaceVars,
              bounds, NoFlight
  <1>1. CASE Reap
    BY <1>1 DEF Reap, Request, Reasons, States
  <1>2. CASE Pass
    <2>1. CASE tick = "none"
      BY <1>2, <2>1, TickHostsAssumption DEF Pass
    <2>2. CASE tick # "none"
      <3>1. pending' \in SUBSET Reasons
        <4>1. CASE polled
          BY <1>2, <2>2, <4>1 DEF Pass
        <4>2. CASE ~polled
          BY <1>2, <2>2, <4>2 DEF Pass, Request, Reasons
        <4>3. QED
          BY <4>1, <4>2
      <3>2. at' = "pump"
        BY <1>2, <2>2 DEF Pass
      <3>3. QED
        BY <1>2, <3>1, <3>2 DEF Pass
    <2>3. QED
      BY <2>1, <2>2
  <1>3. CASE Wedged
    BY <1>3 DEF Wedged, Request, Reasons, States
  <1>4. CASE Poll
    BY <1>4, TickHostsAssumption DEF Poll, WhyDue
  <1>5. CASE GuardAnswers
    <2>1. at' = "pump"
      BY <1>5 DEF GuardAnswers
    <2>2. /\ state' \in States /\ pending' \in SUBSET Reasons
          /\ tick' \in {"none", "running", "ended"}
      BY <1>5 DEF GuardAnswers, Request, States, Reasons
    <2>3. /\ age' \in (0..MaxBusy) \cup {Never}
          /\ heard' \in {"none", "block", "clear"}
      BY <1>5, TickHostsAssumption DEF GuardAnswers
    <2>4. lastIssue' \in 0..MaxIssue /\ ticked' \in SUBSET (1..MaxIssue)
      <3>1. want[2] \in 0..MaxIssue
        OBVIOUS
      <3>2. \/ UNCHANGED <<lastIssue, ticked>>
            \/ /\ want[2] # 0 /\ lastIssue' = want[2]
               /\ ticked' = ticked \cup {want[2]}
        BY <1>5 DEF GuardAnswers
      <3>3. lastIssue \in 0..MaxIssue /\ ticked \in SUBSET (1..MaxIssue)
        OBVIOUS
      <3>4. want[2] # 0 => want[2] \in 1..MaxIssue
        BY ONLY <3>1, TickHostsAssumption
      <3>5. QED
        BY ONLY <3>1, <3>2, <3>3, <3>4
    <2>5. UNCHANGED <<unit, want, flight, tries, issue, remote, bounds>>
      BY <1>5 DEF GuardAnswers
    <2>6. UNCHANGED <<seen, source, manual>>
      BY <1>5 DEF GuardAnswers
    <2>7. QED
      BY ONLY TypeOK, <2>1, <2>2, <2>3, <2>4, <2>5, <2>6
         DEF TypeOK, Ranges, bounds
  <1>6. CASE Pump
    <2>1. pending' \in SUBSET Reasons
      BY <1>6 DEF Pump, Reasons
    <2>2. Doc \in Docs
      BY TickHostsAssumption DEF Doc, Docs
    <2>3. Flight(pending') \in Flights
      BY <2>1, <2>2 DEF Flight, Flights
    <2>4. /\ at' \in {"loop", "commit"}
          /\ flight' \in {flight, Flight(pending')}
      BY <1>6 DEF Pump
    <2>5. QED
      BY <1>6, <2>1, <2>3, <2>4 DEF Pump
  <1>7. CASE Pumped
    BY <1>7 DEF Pumped
  <1>8. CASE BeginStop
    <2>1. at' \in {"grace", "final"} /\ state' \in States
      BY <1>8 DEF BeginStop, States
    <2>2. pending' \in SUBSET Reasons
      BY <1>8 DEF BeginStop, Request, Reasons
    <2>3. QED
      BY <1>8, <2>1, <2>2 DEF BeginStop
  <1>9. CASE GracePump
    BY <1>9, TickHostsAssumption DEF GracePump, Flight, Doc, Flights, Docs
  <1>10. CASE GraceOver
    BY <1>10 DEF GraceOver, Reasons, States
  <1>11. CASE FinalTry
    BY <1>11, TickHostsAssumption DEF FinalTry, Flight, Doc, Flights, Docs
  <1>12. CASE Ended
    BY <1>12, TickHostsAssumption DEF Ended, Exit, Afresh, Reasons, States,
       Flights
  <1>13. CASE FlightLands
    BY <1>13 DEF FlightLands, Flights
  <1>14. CASE FlightFails
    BY <1>14, TickHostsAssumption DEF FlightFails, Fault, Flights
  <1>15. CASE Crash
    BY <1>15, TickHostsAssumption DEF Crash, Exit, Afresh, Fault, Reasons,
       States, Flights
  <1>16. CASE Restart
    BY <1>16, TickHostsAssumption DEF Restart, Boot, Afresh, Reasons, States
  <1>17. CASE Ping
    BY <1>17, TickHostsAssumption DEF Ping, Read, Fault
  <1>18. CASE SpaceTickEnds
    BY <1>18 DEF SpaceTickEnds
  <1>19. CASE EventRun
    BY <1>19, TickHostsAssumption DEF EventRun, Read, Order
  <1>20. CASE EventMarked
    BY <1>20 DEF EventMarked
  <1>21. CASE EventEnds
    BY <1>21 DEF EventEnds
  <1>22. CASE SpaceDown
    BY <1>22, TickHostsAssumption DEF SpaceDown, Fault
  <1>23. CASE SpaceUp
    BY <1>23 DEF SpaceUp
  <1>24. CASE SetTick
    BY <1>24, TickHostsAssumption DEF SetTick, Order
  <1>25. CASE Enable
    BY <1>25, TickHostsAssumption DEF Enable, Boot, Afresh, Order, Reasons,
       States
  <1>26. CASE Disable
    BY <1>26, TickHostsAssumption DEF Disable, Order
  <1>27. CASE NewIssue
    BY <1>27, TickHostsAssumption DEF NewIssue
  <1>28. CASE TickEnds
    BY <1>28 DEF TickEnds
  <1>29. CASE HourPasses
    BY <1>29, TickHostsAssumption DEF HourPasses, Older, UpTo, Docs
  <1>30. CASE UNCHANGED vars
    BY <1>30 DEF vars, daemonVars, spaceVars, bounds
  <1>31. QED
    BY <1>1, <1>2, <1>3, <1>4, <1>5, <1>6, <1>7, <1>8, <1>9, <1>10, <1>11,
       <1>12, <1>13, <1>14, <1>15, <1>16, <1>17, <1>18, <1>19, <1>20, <1>21,
       <1>22, <1>23, <1>24, <1>25, <1>26, <1>27, <1>28, <1>29, <1>30
       DEF Next, Daemon

\* A block the guard answered is in the state file.
Sticky == heard = "block" => blocked

LEMMA StickyStep ==
    ASSUME Sticky, [Next]_vars
    PROVE  Sticky'
  <1> USE DEF Sticky, processVars, savedVars, daemonVars, spaceVars, bounds
  <1>1. CASE Reap
    BY <1>1 DEF Reap, Request
  <1>2. CASE Pass
    BY <1>2 DEF Pass, Request
  <1>3. CASE Wedged
    BY <1>3 DEF Wedged, Request
  <1>4. CASE Poll
    BY <1>4 DEF Poll, WhyDue
  <1>5. CASE GuardAnswers
    BY <1>5 DEF GuardAnswers, Blocks
  <1>6. CASE Pump
    BY <1>6 DEF Pump, Flight, Doc
  <1>7. CASE Pumped
    BY <1>7 DEF Pumped
  <1>8. CASE BeginStop
    BY <1>8 DEF BeginStop, Request
  <1>9. CASE GracePump
    BY <1>9 DEF GracePump, Flight, Doc
  <1>10. CASE GraceOver
    BY <1>10 DEF GraceOver
  <1>11. CASE FinalTry
    BY <1>11 DEF FinalTry, Flight, Doc
  <1>12. CASE Ended
    BY <1>12 DEF Ended, Exit, Afresh
  <1>13. CASE FlightLands
    BY <1>13 DEF FlightLands
  <1>14. CASE FlightFails
    BY <1>14 DEF FlightFails, Fault
  <1>15. CASE Crash
    BY <1>15 DEF Crash, Exit, Afresh, Fault
  <1>16. CASE Restart
    BY <1>16 DEF Restart, Boot
  <1>17. CASE Ping
    BY <1>17 DEF Ping, Read, Fault
  <1>18. CASE SpaceTickEnds
    BY <1>18 DEF SpaceTickEnds
  <1>19. CASE EventRun
    BY <1>19 DEF EventRun, Read, Order
  <1>20. CASE EventMarked
    BY <1>20 DEF EventMarked
  <1>21. CASE EventEnds
    BY <1>21 DEF EventEnds
  <1>22. CASE SpaceDown
    BY <1>22 DEF SpaceDown, Fault
  <1>23. CASE SpaceUp
    BY <1>23 DEF SpaceUp
  <1>24. CASE SetTick
    BY <1>24 DEF SetTick, Order
  <1>25. CASE Enable
    BY <1>25 DEF Enable, Boot
  <1>26. CASE Disable
    BY <1>26 DEF Disable, Order
  <1>27. CASE NewIssue
    BY <1>27 DEF NewIssue
  <1>28. CASE TickEnds
    BY <1>28 DEF TickEnds
  <1>29. CASE HourPasses
    BY <1>29 DEF HourPasses, Older, UpTo
  <1>30. CASE UNCHANGED vars
    BY <1>30 DEF vars, daemonVars, spaceVars, bounds
  <1>31. QED
    BY <1>1, <1>2, <1>3, <1>4, <1>5, <1>6, <1>7, <1>8, <1>9, <1>10, <1>11,
       <1>12, <1>13, <1>14, <1>15, <1>16, <1>17, <1>18, <1>19, <1>20, <1>21,
       <1>22, <1>23, <1>24, <1>25, <1>26, <1>27, <1>28, <1>29, <1>30
       DEF Next, Daemon

\* A daemon that does not run is at the start of its loop, with no commit.
Off == unit # "active" => at = "loop" /\ flight = NoFlight

LEMMA OffStep ==
    ASSUME Off, [Next]_vars
    PROVE  Off'
  <1> USE DEF Off, Running, processVars, savedVars, daemonVars, spaceVars,
              bounds
  <1>1. CASE Reap
    BY <1>1 DEF Reap, Request
  <1>2. CASE Pass
    BY <1>2 DEF Pass, Request
  <1>3. CASE Wedged
    BY <1>3 DEF Wedged, Request
  <1>4. CASE Poll
    BY <1>4 DEF Poll, WhyDue
  <1>5. CASE GuardAnswers
    BY <1>5 DEF GuardAnswers, Request
  <1>6. CASE Pump
    BY <1>6 DEF Pump, Flight, Doc
  <1>7. CASE Pumped
    BY <1>7 DEF Pumped
  <1>8. CASE BeginStop
    BY <1>8 DEF BeginStop, Request
  <1>9. CASE GracePump
    BY <1>9 DEF GracePump, Flight, Doc
  <1>10. CASE GraceOver
    BY <1>10 DEF GraceOver
  <1>11. CASE FinalTry
    BY <1>11 DEF FinalTry, Flight, Doc
  <1>12. CASE Ended
    BY <1>12 DEF Ended, Exit, Afresh
  <1>13. CASE FlightLands
    BY <1>13 DEF FlightLands
  <1>14. CASE FlightFails
    BY <1>14 DEF FlightFails, Fault
  <1>15. CASE Crash
    BY <1>15 DEF Crash, Exit, Afresh, Fault
  <1>16. CASE Restart
    BY <1>16 DEF Restart, Boot, Afresh
  <1>17. CASE Ping
    BY <1>17 DEF Ping, Read, Fault
  <1>18. CASE SpaceTickEnds
    BY <1>18 DEF SpaceTickEnds
  <1>19. CASE EventRun
    BY <1>19 DEF EventRun, Read, Order
  <1>20. CASE EventMarked
    BY <1>20 DEF EventMarked
  <1>21. CASE EventEnds
    BY <1>21 DEF EventEnds
  <1>22. CASE SpaceDown
    BY <1>22 DEF SpaceDown, Fault
  <1>23. CASE SpaceUp
    BY <1>23 DEF SpaceUp
  <1>24. CASE SetTick
    BY <1>24 DEF SetTick, Order
  <1>25. CASE Enable
    BY <1>25 DEF Enable, Boot, Afresh, Order
  <1>26. CASE Disable
    BY <1>26 DEF Disable, Order
  <1>27. CASE NewIssue
    BY <1>27 DEF NewIssue
  <1>28. CASE TickEnds
    BY <1>28 DEF TickEnds
  <1>29. CASE HourPasses
    BY <1>29 DEF HourPasses, Older, UpTo
  <1>30. CASE UNCHANGED vars
    BY <1>30 DEF vars, daemonVars, spaceVars, bounds
  <1>31. QED
    BY <1>1, <1>2, <1>3, <1>4, <1>5, <1>6, <1>7, <1>8, <1>9, <1>10, <1>11,
       <1>12, <1>13, <1>14, <1>15, <1>16, <1>17, <1>18, <1>19, <1>20, <1>21,
       <1>22, <1>23, <1>24, <1>25, <1>26, <1>27, <1>28, <1>29, <1>30
       DEF Next, Daemon

\* The saved issue is the newest that has had a tick; the tick the guard is
\* asked about was due of an issue no older.
Scheduled ==
    /\ lastIssue <= issue /\ \A i \in ticked : i <= lastIssue
    /\ at = "guard" => /\ want[1] = WhyDue(want[2])
                       /\ want[2] # 0 => want[2] \in lastIssue..issue

LEMMA ScheduledStep ==
    ASSUME TypeOK, Off, Scheduled, [Next]_vars
    PROVE  Scheduled'
  <1> Ranges /\ Ranges'
    BY RangesStep DEF TypeOK, Ranges
  <1> USE DEF Ranges, Scheduled, WhyDue, processVars, savedVars, daemonVars,
              spaceVars, bounds
  <1>1. CASE Reap
    BY <1>1 DEF Reap, Request
  <1>2. CASE Pass
    BY <1>2 DEF Pass, Request
  <1>3. CASE Wedged
    BY <1>3 DEF Wedged, Request
  <1>4. CASE Poll
    BY <1>4 DEF Poll, WhyDue
  <1>5. CASE GuardAnswers
    BY <1>5 DEF GuardAnswers, Request
  <1>6. CASE Pump
    BY <1>6 DEF Pump, Flight, Doc
  <1>7. CASE Pumped
    BY <1>7 DEF Pumped
  <1>8. CASE BeginStop
    BY <1>8 DEF BeginStop, Request
  <1>9. CASE GracePump
    BY <1>9 DEF GracePump, Flight, Doc
  <1>10. CASE GraceOver
    BY <1>10 DEF GraceOver
  <1>11. CASE FinalTry
    BY <1>11 DEF FinalTry, Flight, Doc
  <1>12. CASE Ended
    BY <1>12 DEF Ended, Exit, Afresh
  <1>13. CASE FlightLands
    BY <1>13 DEF FlightLands
  <1>14. CASE FlightFails
    BY <1>14 DEF FlightFails, Fault
  <1>15. CASE Crash
    BY <1>15 DEF Crash, Exit, Afresh, Fault
  <1>16. CASE Restart
    BY <1>16 DEF Restart, Boot, Afresh
  <1>17. CASE Ping
    BY <1>17 DEF Ping, Read, Fault
  <1>18. CASE SpaceTickEnds
    BY <1>18 DEF SpaceTickEnds
  <1>19. CASE EventRun
    BY <1>19 DEF EventRun, Read, Order
  <1>20. CASE EventMarked
    BY <1>20 DEF EventMarked
  <1>21. CASE EventEnds
    BY <1>21 DEF EventEnds
  <1>22. CASE SpaceDown
    BY <1>22 DEF SpaceDown, Fault
  <1>23. CASE SpaceUp
    BY <1>23 DEF SpaceUp
  <1>24. CASE SetTick
    BY <1>24 DEF SetTick, Order
  <1>25. CASE Enable
    BY <1>25 DEF Enable, Boot, Afresh, Order
  <1>26. CASE Disable
    BY <1>26 DEF Disable, Order
  <1>27. CASE NewIssue
    BY <1>27 DEF NewIssue
  <1>28. CASE TickEnds
    BY <1>28 DEF TickEnds
  <1>29. CASE HourPasses
    <2>1. at = "loop" /\ at' = at
      BY <1>29 DEF HourPasses, AtRest, Off, Running
    <2>2. QED
      BY <1>29, <2>1 DEF HourPasses
  <1>30. CASE UNCHANGED vars
    BY <1>30 DEF vars, daemonVars, spaceVars, bounds
  <1>31. QED
    BY <1>1, <1>2, <1>3, <1>4, <1>5, <1>6, <1>7, <1>8, <1>9, <1>10, <1>11,
       <1>12, <1>13, <1>14, <1>15, <1>16, <1>17, <1>18, <1>19, <1>20, <1>21,
       <1>22, <1>23, <1>24, <1>25, <1>26, <1>27, <1>28, <1>29, <1>30
       DEF Next, Daemon

\* A commit in flight holds reasons still pending, and the state as it is
\* unless something was requested since.
Current ==
    flight # NoFlight =>
        /\ flight.reasons # {} /\ flight.reasons \subseteq pending
        /\ pending \subseteq flight.reasons =>
              flight.doc.state = state /\ flight.doc.blocked = blocked

\* The main thread waits for its own commits; the stop is requested last.
Orderly ==
    /\ at \in {"loop", "poll", "guard", "pump"} => flight = NoFlight
    /\ at # "final" => "stop" \notin pending

Said == Orderly /\ Current /\ NothingUnsaid

LEMMA SaidStep ==
    ASSUME TypeOK, Off, Said, [Next]_vars
    PROVE  Said'
  <1> USE DEF Said, Orderly, Current, NothingUnsaid, Running, NoFlight,
              processVars, savedVars, daemonVars, spaceVars, bounds
  <1>1. CASE Reap
    BY <1>1 DEF Reap, Request
  <1>2. CASE Pass
    BY <1>2 DEF Pass, Request
  <1>3. CASE Wedged
    BY <1>3 DEF Wedged, Request
  <1>4. CASE Poll
    BY <1>4 DEF Poll, WhyDue
  <1>5. CASE GuardAnswers
    <2>1. /\ at = "guard" /\ at' = "pump" /\ flight = NoFlight
          /\ flight' = flight /\ "stop" \notin pending /\ remote' = remote
          /\ unit' = unit
      BY <1>5 DEF GuardAnswers
    <2>2. CASE /\ stop
               /\ UNCHANGED <<state, pending, tick, savedVars, ticked, heard>>
      BY <2>1, <2>2
    <2>3. CASE pending' # {} /\ "stop" \notin pending'
      BY <2>1, <2>3
    <2>4. CASE /\ blocked' = TRUE /\ blocked = TRUE /\ state' = state
               /\ pending' = pending
      BY <2>1, <2>4
    <2>5. QED
      <3>1. CASE ~stop /\ Blocks /\ blocked
        BY <1>5, <2>4, <3>1 DEF GuardAnswers, TypeOK
      <3>2. CASE ~stop /\ Blocks /\ ~blocked
        BY <1>5, <2>1, <2>3, <3>2 DEF GuardAnswers, Request
      <3>3. CASE ~stop /\ ~Blocks
        BY <1>5, <2>1, <2>3, <3>3 DEF GuardAnswers, Request
      <3>4. CASE stop
        BY <1>5, <2>2, <3>4 DEF GuardAnswers
      <3>5. QED
        BY <3>1, <3>2, <3>3, <3>4
  <1>6. CASE Pump
    <2>1. /\ at = "pump" /\ flight = NoFlight /\ "stop" \notin pending
          /\ UNCHANGED <<unit, state, blocked, remote>>
      BY <1>6 DEF Pump
    <2>2. "stop" \notin pending' /\ (pending' = {} => pending' = pending)
      BY <1>6, <2>1 DEF Pump
    <2>3. CASE pending' = {}
      BY <1>6, <2>1, <2>2, <2>3 DEF Pump
    <2>4. CASE pending' # {}
      <3>1. at' = "commit" /\ flight' = Flight(pending')
        BY <1>6, <2>4 DEF Pump
      <3>2. /\ flight'.reasons = pending' /\ flight'.doc.state = state
            /\ flight'.doc.blocked = blocked
        BY <3>1 DEF Flight, Doc
      <3>3. QED
        BY <2>1, <2>2, <2>4, <3>1, <3>2
    <2>5. QED
      BY <2>3, <2>4
  <1>7. CASE Pumped
    BY <1>7 DEF Pumped
  <1>8. CASE BeginStop
    BY <1>8 DEF BeginStop, Request
  <1>9. CASE GracePump
    BY <1>9 DEF GracePump, Flight, Doc
  <1>10. CASE GraceOver
    BY <1>10 DEF GraceOver
  <1>11. CASE FinalTry
    BY <1>11 DEF FinalTry, Flight, Doc
  <1>12. CASE Ended
    BY <1>12 DEF Ended, Exit, Afresh
  <1>13. CASE FlightLands
    <2>1. flight.doc \in Docs
      BY <1>13 DEF FlightLands, TypeOK, Flights
    <2>2. /\ remote' = flight.doc /\ remote' # NoDoc /\ flight' = NoFlight
          /\ pending' = pending \ flight.reasons
          /\ UNCHANGED <<unit, at, state, blocked>>
      BY <1>13, <2>1, TickHostsAssumption DEF FlightLands
    <2>3. pending' = {} => pending \subseteq flight.reasons
      BY <2>2
    <2>4. QED
      BY <1>13, <2>2, <2>3 DEF FlightLands
  <1>14. CASE FlightFails
    BY <1>14 DEF FlightFails, Fault
  <1>15. CASE Crash
    BY <1>15 DEF Crash, Exit, Afresh, Fault
  <1>16. CASE Restart
    BY <1>16 DEF Restart, Boot, Afresh
  <1>17. CASE Ping
    BY <1>17 DEF Ping, Read, Fault
  <1>18. CASE SpaceTickEnds
    BY <1>18 DEF SpaceTickEnds
  <1>19. CASE EventRun
    BY <1>19 DEF EventRun, Read, Order
  <1>20. CASE EventMarked
    BY <1>20 DEF EventMarked
  <1>21. CASE EventEnds
    BY <1>21 DEF EventEnds
  <1>22. CASE SpaceDown
    BY <1>22 DEF SpaceDown, Fault
  <1>23. CASE SpaceUp
    BY <1>23 DEF SpaceUp
  <1>24. CASE SetTick
    BY <1>24 DEF SetTick, Order
  <1>25. CASE Enable
    BY <1>25 DEF Enable, Boot, Afresh, Order
  <1>26. CASE Disable
    BY <1>26 DEF Disable, Order
  <1>27. CASE NewIssue
    BY <1>27 DEF NewIssue
  <1>28. CASE TickEnds
    BY <1>28 DEF TickEnds
  <1>29. CASE HourPasses
    <2>1. /\ remote' = Older(remote)
          /\ UNCHANGED <<unit, at, state, pending, flight, blocked>>
      BY <1>29 DEF HourPasses
    <2>2. remote # NoDoc => /\ remote' # NoDoc
                            /\ remote'.state = remote.state
                            /\ remote'.blocked = remote.blocked
      <3>1. SUFFICES ASSUME remote \in Docs, remote # NoDoc
                     PROVE  /\ remote' \in Docs
                            /\ remote'.state = remote.state
                            /\ remote'.blocked = remote.blocked
        BY TickHostsAssumption DEF TypeOK
      <3>2. remote' = [remote EXCEPT !.age = UpTo(remote.age + 1, Fresh + 1)]
        BY <2>1, <3>1 DEF Older
      <3>3. QED
        BY <3>1, <3>2, TickHostsAssumption DEF Docs, UpTo
    <2>3. QED
      BY <2>1, <2>2
  <1>30. CASE UNCHANGED vars
    BY <1>30 DEF vars, daemonVars, spaceVars, bounds
  <1>31. QED
    BY <1>1, <1>2, <1>3, <1>4, <1>5, <1>6, <1>7, <1>8, <1>9, <1>10, <1>11,
       <1>12, <1>13, <1>14, <1>15, <1>16, <1>17, <1>18, <1>19, <1>20, <1>21,
       <1>22, <1>23, <1>24, <1>25, <1>26, <1>27, <1>28, <1>29, <1>30
       DEF Next, Daemon

-----------------------------------------------------------------------------

\* The inductive invariant.
Inv == TypeOK /\ Off /\ Sticky /\ Scheduled /\ Said

LEMMA InvInit == Init => Inv
  <1> SUFFICES ASSUME Init
               PROVE  Inv
    OBVIOUS
  <1>1. TypeOK
    <2>1. Flags
      BY DEF Init, Flags
    <2>2. Ranges
      BY TickHostsAssumption DEF Init, Ranges, States, NoFlight
    <2>3. QED
      BY <2>1, <2>2 DEF TypeOK, Flags, Ranges
  <1>2. Off /\ Sticky /\ Scheduled
    BY TickHostsAssumption DEF Init, Off, Sticky, Scheduled
  <1>3. Said
    BY DEF Init, Said, Orderly, Current, NothingUnsaid, Running
  <1>4. QED
    BY <1>1, <1>2, <1>3 DEF Inv

LEMMA InvStep == Inv /\ [Next]_vars => Inv'
  <1> SUFFICES ASSUME Inv, [Next]_vars
               PROVE  Inv'
    OBVIOUS
  <1>1. Flags' /\ Ranges'
    BY FlagsStep, RangesStep DEF Inv, TypeOK, Flags
  <1>2. TypeOK'
    BY <1>1 DEF TypeOK, Flags, Ranges
  <1>3. Off' /\ Sticky' /\ Scheduled' /\ Said'
    BY OffStep, StickyStep, ScheduledStep, SaidStep DEF Inv
  <1>4. QED
    BY <1>2, <1>3 DEF Inv

LEMMA Invariant == Spec => []Inv
  BY InvInit, InvStep, PTL DEF Spec

\* Every variable keeps its type; above all the final commit is tried at most
\* twice and the document's age never runs past its bound.
THEOREM TypeCorrect == Spec => []TypeOK
  <1>1. Inv => TypeOK
    BY DEF Inv
  <1>2. QED
    BY <1>1, Invariant, PTL

\* The status file says what the daemon is unless a commit is due: whatever
\* commit was in flight when its state changed (Publisher.pump).
THEOREM StatusTold == Spec => []NothingUnsaid
  <1>1. Inv => NothingUnsaid
    BY DEF Inv, Said
  <1>2. QED
    BY <1>1, Invariant, PTL

\* Only GuardAnswers starts a tick of the daemon.
LEMMA StartsAfterGuard ==
    ASSUME [Next]_vars, DaemonStarts
    PROVE  GuardAnswers
  <1> USE DEF DaemonStarts, processVars, savedVars, daemonVars, spaceVars,
              bounds
  <1>1. CASE Reap
    BY <1>1 DEF Reap, Request
  <1>2. CASE Pass
    BY <1>2 DEF Pass, Request
  <1>3. CASE Wedged
    BY <1>3 DEF Wedged, Request
  <1>4. CASE Poll
    BY <1>4 DEF Poll, WhyDue
  <1>5. CASE GuardAnswers
    BY <1>5 DEF GuardAnswers, Request
  <1>6. CASE Pump
    BY <1>6 DEF Pump, Flight, Doc
  <1>7. CASE Pumped
    BY <1>7 DEF Pumped
  <1>8. CASE BeginStop
    BY <1>8 DEF BeginStop, Request
  <1>9. CASE GracePump
    BY <1>9 DEF GracePump, Flight, Doc
  <1>10. CASE GraceOver
    BY <1>10 DEF GraceOver
  <1>11. CASE FinalTry
    BY <1>11 DEF FinalTry, Flight, Doc
  <1>12. CASE Ended
    BY <1>12 DEF Ended, Exit, Afresh
  <1>13. CASE FlightLands
    BY <1>13 DEF FlightLands
  <1>14. CASE FlightFails
    BY <1>14 DEF FlightFails, Fault
  <1>15. CASE Crash
    BY <1>15 DEF Crash, Exit, Afresh, Fault
  <1>16. CASE Restart
    BY <1>16 DEF Restart, Boot, Afresh
  <1>17. CASE Ping
    BY <1>17 DEF Ping, Read, Fault
  <1>18. CASE SpaceTickEnds
    BY <1>18 DEF SpaceTickEnds
  <1>19. CASE EventRun
    BY <1>19 DEF EventRun, Read, Order
  <1>20. CASE EventMarked
    BY <1>20 DEF EventMarked
  <1>21. CASE EventEnds
    BY <1>21 DEF EventEnds
  <1>22. CASE SpaceDown
    BY <1>22 DEF SpaceDown, Fault
  <1>23. CASE SpaceUp
    BY <1>23 DEF SpaceUp
  <1>24. CASE SetTick
    BY <1>24 DEF SetTick, Order
  <1>25. CASE Enable
    BY <1>25 DEF Enable, Boot, Afresh, Order
  <1>26. CASE Disable
    BY <1>26 DEF Disable, Order
  <1>27. CASE NewIssue
    BY <1>27 DEF NewIssue
  <1>28. CASE TickEnds
    BY <1>28 DEF TickEnds
  <1>29. CASE HourPasses
    BY <1>29 DEF HourPasses, Older, UpTo
  <1>30. CASE UNCHANGED vars
    BY <1>30 DEF vars, daemonVars, spaceVars, bounds
  <1>31. QED
    BY <1>1, <1>2, <1>3, <1>4, <1>5, <1>6, <1>7, <1>8, <1>9, <1>10, <1>11,
       <1>12, <1>13, <1>14, <1>15, <1>16, <1>17, <1>18, <1>19, <1>20, <1>21,
       <1>22, <1>23, <1>24, <1>25, <1>26, <1>27, <1>28, <1>29, <1>30
       DEF Next, Daemon

\* An advance of the issue starts no tick for an issue that has had one,
\* across restarts and wedged ticks (_why_due over the state file).
THEOREM IssueTicksOnce == Spec => OncePerIssue
  <1>1. ASSUME Inv, [Next]_vars, DaemonStarts, want[1] = "issue"
        PROVE  want[2] \notin ticked
    <2>1. at = "guard"
      BY <1>1, StartsAfterGuard DEF GuardAnswers
    <2>2. want[2] > lastIssue
      BY <1>1, <2>1 DEF Inv, Scheduled, WhyDue
    <2>3. QED
      BY <1>1, <2>2, TickHostsAssumption DEF Inv, TypeOK, Scheduled
  <1>2. Inv /\ [Next]_vars
          => [DaemonStarts /\ want[1] = "issue" => want[2] \notin ticked]_vars
    BY <1>1
  <1>3. QED
    BY <1>2, Invariant, PTL DEF Spec, OncePerIssue

\* No tick starts while the guard's last answer was a block, through
\* unreachable spells and restarts (runner_guard's sticky).
THEOREM BlockLasts == Spec => BlockIsSticky
  <1>1. ASSUME Inv, [Next]_vars, DaemonStarts
        PROVE  heard' # "block"
    <2>1. GuardAnswers
      BY <1>1, StartsAfterGuard
    <2>2. ~Blocks /\ heard' = IF reachable THEN "clear" ELSE heard
      BY <1>1, <2>1 DEF GuardAnswers, DaemonStarts
    <2>3. QED
      BY <1>1, <2>2 DEF Inv, Sticky, Blocks
  <1>2. Inv /\ [Next]_vars => [DaemonStarts => heard' # "block"]_vars
    BY <1>1
  <1>3. QED
    BY <1>2, Invariant, PTL DEF Spec, BlockIsSticky

=============================================================================
