-------------------------- MODULE WebServer_proofs --------------------------
(***************************************************************************)
(* The web server stops a wave that runs with other values than its start  *)
(* asked for, and never stops the laboratory early, for any number of      *)
(* requests and any timeout.                                               *)
(***************************************************************************)
EXTENDS WebServer, TLAPS

\* What has become of the check of the present wave's start: its announcement is
\* still to be taken, or was compared with the right result, or the stop is sent.
Unheard == news = "announced" /\ req[wave.by] = "check" /\ heard[wave.by] = "none"
Compared == /\ req[wave.by] = "check"
            /\ heard[wave.by] = IF Same(wave.by) THEN "same" ELSE "other"
CheckInv ==
  wave.watched =>
    /\ wave.by \in Requests
    /\ st \in Watched /\ up => Unheard \/ Compared \/ (Wrong => stopping)

\* The count of the automatic stop is at most a tick ahead.
CountInv == idle <= quiet + 1

\* A wave that has met a tick keeps the count at zero.
RecentInv == st \in Busy /\ ~wave.recent => quiet = 0

IInv == TypeOK /\ CheckInv /\ CountInv /\ RecentInv
-----------------------------------------------------------------------------
(* The steps that begin, report or end a wave. *)

\* After a report the wave is the same if it was compared before, and is not watched
\* otherwise.
LEMMA OverwrittenWave ==
  ASSUME TypeOK, wave' = Overwritten
  PROVE  /\ wave' \in Waves /\ wave'.recent = wave.recent
         /\ wave'.watched => wave' = wave /\ news # "announced"
BY DEF TypeOK, Waves, Values, Overwritten, Unwatched, NoWave

\* A wave that is stopped is not watched, and is recent if it comes from idle.
LEMMA HaltedWave ==
  ASSUME TypeOK, wave' = [Unwatched EXCEPT !.recent = @ \/ st = "Idle"]
  PROVE  /\ wave' \in Waves /\ ~wave'.watched
         /\ (wave'.recent <=> wave.recent \/ st = "Idle")
BY DEF TypeOK, Waves, Values, Unwatched, NoWave

LEMMA NoWaveType == NoWave \in Waves /\ ~NoWave.watched
BY DEF NoWave, Waves, Values

\* The bridge's own steps keep its part of the types.
LEMMA ContractTypes ==
  ASSUME TypeOK, Activated \/ Left \/ Wave PROVE active' \in BOOLEAN /\ st' \in States
                                                 /\ alive' \in BOOLEAN
BY DEF TypeOK, Activated, Left, Wave, Begun, Accepted, Halted, Ended, States, Busy, Watched

LEMMA StopsTypes ==
  ASSUME TypeOK, BridgeStops
  PROVE  /\ active' \in BOOLEAN /\ st' \in States /\ alive' \in BOOLEAN
         /\ wave' \in Waves /\ news' = "text" /\ UNCHANGED <<height, period>>
         /\ st' \notin Watched
<1> USE DEF BridgeStops, Report
<1>1. CASE st = "Idle" /\ UNCHANGED <<contractVars, wave>>
  BY <1>1 DEF TypeOK, contractVars, Watched
<1>2. CASE Wave /\ Halted /\ wave' = [Unwatched EXCEPT !.recent = @ \/ st = "Idle"]
  BY <1>2, ContractTypes, HaltedWave DEF Halted, Watched
<1>3. CASE Wave /\ Ended /\ wave' = NoWave
  BY <1>3, ContractTypes, NoWaveType DEF Ended, Watched
<1> QED
  BY <1>1, <1>2, <1>3

LEMMA LeavesTypes ==
  ASSUME TypeOK, BridgeLeaves
  PROVE  /\ active' \in BOOLEAN /\ st' \in States /\ alive' \in BOOLEAN
         /\ wave' \in Waves /\ news' = "text" /\ UNCHANGED <<height, period, other_beats>>
         /\ heights' = {} /\ periods' = {} /\ starts' = {} /\ stopping' = FALSE
         /\ st' \notin Watched
BY ContractTypes, NoWaveType DEF BridgeLeaves, Report, Left, Watched

LEMMA StartsTypes ==
  ASSUME TypeOK, NEW r \in Values, BridgeStarts(r)
  PROVE  /\ active' \in BOOLEAN /\ st' \in States /\ alive' \in BOOLEAN
         /\ wave' \in Waves /\ news' \in {"text", "announced"}
<1> USE DEF BridgeStarts, Report
<1>1. CASE Wave /\ news' = "announced" /\ wave' = [h |-> height, p |-> period, by |-> r,
                                                   watched |-> Waiting(r), recent |-> TRUE]
  <2>1. Waiting(r) \in BOOLEAN
    BY DEF Waiting
  <2> HIDE DEF BridgeStarts
  <2>2. wave' \in Waves
    BY <1>1, <2>1 DEF TypeOK, Waves
  <2> QED
    BY <1>1, <2>2, ContractTypes
<1>2. CASE wave' = Overwritten /\ news' = "text" /\ UNCHANGED contractVars
  BY <1>2, OverwrittenWave DEF TypeOK, contractVars
<1> QED
  BY <1>1, <1>2

LEMMA TypeStep == TypeOK /\ [Next]_vars => TypeOK'
<1> SUFFICES ASSUME TypeOK, [Next]_vars PROVE TypeOK'
  OBVIOUS
<1> USE DEF bridgeVars, contractVars, topicVars, serverVars, idleVars
<1>0. 0 \in 0 .. IdleTimeout /\ 0 \in 0 .. IdleTimeout - 1
  BY WebAssumption
<1>1. CASE UNCHANGED vars
  BY <1>1 DEF TypeOK, vars
<1>2. CASE BridgeActivates
  BY <1>2, ContractTypes DEF TypeOK, BridgeActivates, Report
<1>3. CASE BridgeWatch \/ TakeStop \/ OtherStop
  BY <1>3, StopsTypes DEF TypeOK, BridgeWatch, TakeStop, OtherStop
<1>4. CASE GoalAccepted
  BY <1>4, ContractTypes, OverwrittenWave DEF TypeOK, GoalAccepted, Report
<1>5. CASE WaveEnds
  BY <1>5, ContractTypes, NoWaveType DEF TypeOK, WaveEnds, Report
<1>6. CASE ManagerStops \/ LaunchStops
  BY <1>6, LeavesTypes DEF TypeOK, ManagerStops, LaunchStops
<1>7. CASE OtherStart
  <2>1. Other \in Values
    BY DEF Values
  <2> QED
    BY <1>7, <2>1, StartsTypes DEF TypeOK, OtherStart, BridgeStarts
<1>8. ASSUME NEW r \in Requests, TakeStart(r) PROVE TypeOK'
  <2>1. r \in Values
    BY DEF Values
  <2> QED
    BY <1>8, <2>1, StartsTypes DEF TypeOK, TakeStart, BridgeStarts
<1>9. CASE OtherValues
  BY <1>9 DEF TypeOK, OtherValues, Values
<1>10. ASSUME NEW r \in Requests, TakeHeight(r) \/ TakePeriod(r) PROVE TypeOK'
  BY <1>10 DEF TypeOK, TakeHeight, TakePeriod, Values
<1>11. CASE Repeat
  BY <1>11 DEF TypeOK, Repeat
<1>23. CASE HeartbeatArrives \/ HeartbeatMissed
  <2>1. alive' \in BOOLEAN
    BY <1>23 DEF HeartbeatArrives, HeartbeatMissed
  <2> QED
    BY <1>23, <2>1 DEF TypeOK, HeartbeatArrives, HeartbeatMissed
<1>22. CASE OnMessage
  BY <1>22 DEF TypeOK, OnMessage
<1>21. CASE OtherBeats
  <2>1. other_beats' \in BOOLEAN
    BY <1>21 DEF OtherBeats
  <2> QED
    BY <1>21, <2>1 DEF TypeOK, OtherBeats
<1>12. CASE OnState
  BY <1>12 DEF TypeOK, OnState, Kind
<1>13. ASSUME NEW a \in BOOLEAN, Acknowledge(a) PROVE TypeOK'
  BY <1>13 DEF TypeOK, Acknowledge
<1>14. ASSUME NEW r \in Requests, StartRequest(r) \/ SendStart(r) PROVE TypeOK'
  BY <1>14 DEF TypeOK, StartRequest, SendStart
<1>15. ASSUME NEW r \in Requests, CheckStart(r) \/ CheckExpires(r) PROVE TypeOK'
  BY <1>15 DEF TypeOK, CheckStart, CheckExpires
<1>16. CASE StopRequest \/ KeepRunning
  BY <1>0, <1>16 DEF TypeOK, StopRequest, KeepRunning
<1>17. CASE ShutdownNodes
  BY <1>17, LeavesTypes DEF TypeOK, ShutdownNodes
<1>18. CASE ServerEnds
  <2>1. idle' \in 0 .. IdleTimeout /\ quiet' \in 0 .. IdleTimeout - 1
    BY <1>0, <1>18 DEF ServerEnds
  <2> QED
    BY <1>18, <2>1 DEF TypeOK, ServerEnds
<1>19. CASE Tick
  <2>1. idle' \in 0 .. IdleTimeout /\ quiet' \in 0 .. IdleTimeout - 1
    BY <1>19, WebAssumption DEF TypeOK, Tick
  <2>2. wave' \in Waves
    BY <1>19 DEF TypeOK, Tick, Waves
  <2> QED
    BY <1>19, <2>1, <2>2 DEF TypeOK, Tick
<1>20. CASE CheckIdle
  BY <1>0, <1>20 DEF TypeOK, CheckIdle, SinceActivity
<1> QED
  BY <1>1, <1>2, <1>3, <1>4, <1>5, <1>6, <1>7, <1>8, <1>9, <1>10, <1>11, <1>12, <1>13,
     <1>14, <1>15, <1>16, <1>17, <1>18, <1>19, <1>20, <1>21, <1>22, <1>23
     DEF Next, Delivery, Checking, AutoStop, AutoStopExits
-----------------------------------------------------------------------------
(* The check of a start. *)

\* A step that leaves the wave and the check of its start alone.
LEMMA CheckKept ==
  ASSUME CheckInv, UNCHANGED <<wave.h, wave.p, wave.by, wave.watched, st>>,
         up' => up, stopping => stopping',
         wave.by \in Requests => UNCHANGED <<req[wave.by], heard[wave.by]>>,
         news' = news \/ news' = "announced"
  PROVE  CheckInv'
BY DEF CheckInv, Unheard, Compared, Wrong, Same

\* A report on the present wave: if it takes the place of the announcement, the
\* wave is no longer watched.
LEMMA CheckReported ==
  ASSUME TypeOK, CheckInv, wave' = Overwritten, st' \in Watched => st \in Watched,
         UNCHANGED <<up, stopping, req, heard>>
  PROVE  CheckInv'
<1>1. wave'.watched => wave' = wave /\ news # "announced"
  BY OverwrittenWave
<1> QED
  BY <1>1 DEF CheckInv, Unheard, Compared, Wrong, Same

\* A step that ends the wave.
LEMMA CheckOver ==
  ASSUME CheckInv, st' \notin Watched, wave'.watched => wave'.by = wave.by /\ wave.watched
  PROVE  CheckInv'
BY DEF CheckInv

LEMMA StartsCheck ==
  ASSUME TypeOK, CheckInv, NEW r \in Values, BridgeStarts(r),
         UNCHANGED <<up, stopping, req, heard>>
  PROVE  CheckInv'
<1> USE DEF BridgeStarts
<1>1. CASE wave' = Overwritten /\ UNCHANGED contractVars
  BY <1>1, CheckReported DEF contractVars
<1>2. CASE news' = "announced" /\ wave' = [h |-> height, p |-> period, by |-> r,
                                           watched |-> Waiting(r), recent |-> TRUE]
  BY <1>2 DEF CheckInv, Unheard, Waiting
<1> QED
  BY <1>1, <1>2

LEMMA CheckStep == IInv /\ [Next]_vars => CheckInv'
<1> SUFFICES ASSUME TypeOK, CheckInv, [Next]_vars PROVE CheckInv'
  BY DEF IInv
<1> USE DEF bridgeVars, contractVars, topicVars, serverVars, idleVars
<1>1. CASE UNCHANGED vars
  BY <1>1, CheckKept DEF vars
<1>2. CASE BridgeActivates
  BY <1>2 DEF CheckInv, BridgeActivates, Activated, Watched
<1>3. CASE BridgeWatch \/ TakeStop \/ OtherStop
  <2>1. BridgeStops
    BY <1>3 DEF BridgeWatch, TakeStop, OtherStop
  <2>2. st' \notin Watched
    BY <2>1, StopsTypes
  <2>3. wave'.watched => wave'.by = wave.by /\ wave.watched
    BY <2>1, HaltedWave, NoWaveType DEF BridgeStops
  <2> QED
    BY <2>2, <2>3, CheckOver
<1>4. CASE GoalAccepted
  BY <1>4, CheckReported DEF GoalAccepted, Accepted, Watched
<1>5. CASE WaveEnds \/ ManagerStops \/ LaunchStops \/ (ShutdownNodes /\ BridgeLeaves)
  BY <1>5, NoWaveType DEF CheckInv, WaveEnds, ManagerStops, LaunchStops, BridgeLeaves
<1>6. CASE OtherStart
  BY <1>6, StartsCheck DEF OtherStart, Values, BridgeStarts
<1>7. ASSUME NEW r \in Requests, TakeStart(r) PROVE CheckInv'
  BY <1>7, StartsCheck DEF TakeStart, Values, BridgeStarts
<1>8. CASE OtherValues \/ Repeat \/ OtherBeats \/ HeartbeatArrives \/ HeartbeatMissed \/ OnState
  BY <1>8, CheckKept
     DEF OtherValues, Repeat, OtherBeats, HeartbeatArrives, HeartbeatMissed, OnState
<1>9. ASSUME NEW r \in Requests, TakeHeight(r) \/ TakePeriod(r) PROVE CheckInv'
  BY <1>9, CheckKept DEF TakeHeight, TakePeriod
<1>10. CASE OnMessage
  BY <1>10 DEF CheckInv, OnMessage, Unheard, Compared, Wrong, Same
<1>11. ASSUME NEW a \in BOOLEAN, Acknowledge(a) PROVE CheckInv'
  BY <1>11, CheckKept DEF Acknowledge
<1>12. ASSUME NEW r \in Requests, StartRequest(r) PROVE CheckInv'
  <2>1. r # wave.by
    BY <1>12 DEF StartRequest
  <2> QED
    BY <1>12, <2>1, CheckKept DEF StartRequest, TypeOK
<1>13. ASSUME NEW r \in Requests, SendStart(r) PROVE CheckInv'
  BY <1>13 DEF CheckInv, SendStart, TypeOK, Unheard, Compared, Wrong, Same
<1>14. ASSUME NEW r \in Requests, CheckStart(r) PROVE CheckInv'
  <2>1. CASE r = wave.by
    BY <1>14, <2>1 DEF CheckInv, CheckStart, TypeOK, Unheard, Compared, Wrong, Same
  <2>2. CASE r # wave.by
    BY <1>14, <2>2, CheckKept DEF CheckStart, TypeOK
  <2> QED
    BY <2>1, <2>2
<1>15. ASSUME NEW r \in Requests, CheckExpires(r) PROVE CheckInv'
  <2>1. CASE r = wave.by
    BY <1>15, <2>1 DEF CheckInv, CheckExpires
  <2>2. CASE r # wave.by
    BY <1>15, <2>2, CheckKept DEF CheckExpires, TypeOK
  <2> QED
    BY <2>1, <2>2
<1>16. CASE StopRequest \/ KeepRunning \/ CheckIdle
  BY <1>16, CheckKept DEF StopRequest, KeepRunning, CheckIdle
<1>19. CASE Tick
  <2>1. UNCHANGED <<wave.h, wave.p, wave.by, wave.watched>>
    BY <1>19 DEF Tick, TypeOK, Waves
  <2> QED
    BY <1>19, <2>1, CheckKept DEF Tick
<1>17. CASE ShutdownNodes /\ ~BridgeLeaves
  BY <1>17, CheckKept DEF ShutdownNodes
<1>18. CASE ServerEnds
  BY <1>18 DEF CheckInv, ServerEnds
<1> QED
  BY <1>1, <1>2, <1>3, <1>4, <1>5, <1>6, <1>7, <1>8, <1>9, <1>10, <1>11, <1>12, <1>13,
     <1>14, <1>15, <1>16, <1>17, <1>18, <1>19
     DEF Next, Delivery, Checking, AutoStop, AutoStopExits
-----------------------------------------------------------------------------
(* The count of the automatic stop. *)

\* Only these steps touch the count, and only one begins the automatic stop.
LEMMA CountSteps ==
  ASSUME [Next]_vars PROVE \/ UNCHANGED <<idle, auto, quiet>>
                           \/ KeepRunning \/ CheckIdle \/ ShutdownNodes
                           \/ ServerEnds \/ Tick
<1> USE DEF serverVars, idleVars
<1>1. CASE Delivery \/ OtherStart
  BY <1>1 DEF Delivery, OtherStart, TakeHeight, TakePeriod, TakeStart, BridgeStarts
<1>2. CASE Checking \/ \E r \in Requests : StartRequest(r)
  BY <1>2 DEF Checking, SendStart, CheckStart, CheckExpires, StartRequest
<1>3. CASE BridgeActivates \/ BridgeWatch \/ GoalAccepted \/ WaveEnds \/ Repeat
          \/ ManagerStops \/ LaunchStops
  BY <1>3 DEF BridgeActivates, BridgeWatch, GoalAccepted, WaveEnds, Repeat, ManagerStops,
              LaunchStops
<1>4. CASE OtherValues \/ OtherStop \/ TakeStop \/ OnState \/ OnMessage
          \/ OtherBeats \/ HeartbeatArrives \/ HeartbeatMissed
  BY <1>4 DEF OtherValues, OtherStop, TakeStop, OnState, OnMessage, OtherBeats,
              HeartbeatArrives, HeartbeatMissed
<1>5. CASE StopRequest \/ \E a \in BOOLEAN : Acknowledge(a)
  BY <1>5 DEF StopRequest, Acknowledge
<1>6. CASE UNCHANGED vars
  BY <1>6 DEF vars
<1> QED
  BY <1>1, <1>2, <1>3, <1>4, <1>5, <1>6 DEF Next, AutoStop, AutoStopExits

LEMMA CountStep == IInv /\ [Next]_vars => CountInv'
<1> SUFFICES ASSUME TypeOK, CountInv, [Next]_vars PROVE CountInv'
  BY DEF IInv
<1>1. idle \in Nat /\ quiet \in Nat /\ idle <= IdleTimeout /\ quiet <= IdleTimeout - 1
  BY WebAssumption DEF TypeOK
<1>2. CASE UNCHANGED <<idle, auto, quiet>> \/ ShutdownNodes
  BY <1>2 DEF CountInv, ShutdownNodes
<1>3. CASE KeepRunning \/ ServerEnds
  BY <1>3 DEF CountInv, KeepRunning, ServerEnds
<1>4. CASE CheckIdle
  BY <1>1, <1>4 DEF CountInv, CheckIdle, SinceActivity
<1>5. CASE Tick
  <2>1. ASSUME st \in Busy PROVE idle = 0
    <3>1. Kind(st) = "busy"
      BY <2>1 DEF Kind, Busy, Watched
    <3> QED
      BY <1>5, <3>1 DEF Tick, SinceActivity
  <2> QED
    BY <1>1, <1>5, <2>1, WebAssumption DEF CountInv, Tick
<1> QED
  BY <1>2, <1>3, <1>4, <1>5, CountSteps

\* What a step does to the wave: it goes on, or is recent, or there is none.
LEMMA WaveSteps ==
  ASSUME TypeOK, [Next]_vars, ~Tick
  PROVE  \/ st' \notin Busy \/ wave'.recent
         \/ st \in Busy /\ wave'.recent = wave.recent
<1> USE DEF bridgeVars, contractVars, Busy, Watched
<1>1. CASE BridgeWatch \/ TakeStop \/ OtherStop
  <2>1. BridgeStops
    BY <1>1 DEF BridgeWatch, TakeStop, OtherStop
  <2>2. CASE Wave /\ Halted /\ wave' = [Unwatched EXCEPT !.recent = @ \/ st = "Idle"]
    <3>1. st \in Busy \cup {"Idle"}
      BY <2>2 DEF Halted
    <3>2. wave'.recent <=> wave.recent \/ st = "Idle"
      BY <2>2, HaltedWave
    <3>3. wave'.recent \in BOOLEAN /\ wave.recent \in BOOLEAN
      BY <2>2, HaltedWave DEF TypeOK, Waves
    <3> QED
      BY <3>1, <3>2, <3>3
  <2>3. CASE Wave /\ Ended
    BY <2>3 DEF Ended
  <2>4. CASE st = "Idle" /\ UNCHANGED contractVars
    BY <2>4
  <2> QED
    BY <2>1, <2>2, <2>3, <2>4 DEF BridgeStops
<1>2. CASE Delivery \/ OtherStart
  <2>1. CASE UNCHANGED <<st, wave>>
    BY <2>1
  <2>2. ASSUME NEW r \in Values, BridgeStarts(r)
        PROVE  wave'.recent \/ (UNCHANGED st /\ wave'.recent = wave.recent)
    <3>1. CASE wave' = Overwritten /\ UNCHANGED contractVars
      BY <3>1, OverwrittenWave
    <3>2. CASE wave' = [h |-> height, p |-> period, by |-> r, watched |-> Waiting(r),
                        recent |-> TRUE]
      BY <3>2
    <3> QED
      BY <2>2, <3>1, <3>2 DEF BridgeStarts
  <2> QED
    BY <1>2, <2>1, <2>2 DEF Delivery, OtherStart, TakeHeight, TakePeriod, TakeStart, Values
<1>3. CASE BridgeActivates \/ WaveEnds \/ ManagerStops \/ LaunchStops
  BY <1>3 DEF BridgeActivates, Activated, WaveEnds, Ended, ManagerStops, LaunchStops,
              BridgeLeaves, Left
<1>4. CASE GoalAccepted
  BY <1>4, OverwrittenWave DEF GoalAccepted, Accepted
<1>5. CASE ShutdownNodes
  BY <1>5 DEF ShutdownNodes, BridgeLeaves, Left
<1>6. CASE UNCHANGED <<st, wave>>
  BY <1>6
<1>7. CASE Repeat \/ OtherValues \/ OnState \/ OnMessage \/ OtherBeats \/ HeartbeatArrives
          \/ HeartbeatMissed \/ \E a \in BOOLEAN : Acknowledge(a)
  <2>1. UNCHANGED <<st, wave>>
    BY <1>7 DEF Repeat, OtherValues, OnState, OnMessage, OtherBeats, HeartbeatArrives,
                HeartbeatMissed, Acknowledge
  <2> QED
    BY <1>6, <2>1
<1>8. CASE Checking \/ StopRequest \/ KeepRunning \/ CheckIdle \/ ServerEnds
          \/ \E r \in Requests : StartRequest(r)
  <2>1. UNCHANGED <<st, wave>>
    BY <1>8 DEF Checking, SendStart, CheckStart, CheckExpires, StopRequest, KeepRunning,
                CheckIdle, ServerEnds, StartRequest
  <2> QED
    BY <1>6, <2>1
<1> QED
  BY <1>1, <1>2, <1>3, <1>4, <1>5, <1>6, <1>7, <1>8 DEF Next, AutoStop, AutoStopExits, vars

LEMMA RecentStep == IInv /\ [Next]_vars => RecentInv'
<1> SUFFICES ASSUME TypeOK, RecentInv, [Next]_vars PROVE RecentInv'
  BY DEF IInv
<1>1. CASE Tick
  BY <1>1 DEF Tick, RecentInv, contractVars
<1>2. CASE ~Tick
  <2>1. quiet' = quiet \/ quiet' = 0
    BY <1>2, CountSteps DEF KeepRunning, CheckIdle, ShutdownNodes, ServerEnds
  <2> QED
    BY <1>2, <2>1, WaveSteps DEF RecentInv
<1> QED
  BY <1>1, <1>2
-----------------------------------------------------------------------------
(* What they show. *)

\* The invariant holds in every state the server and the bridge reach.
LEMMA Inductive == Spec => []IInv
<1>1. Init => IInv
  <2> SUFFICES ASSUME Init PROVE IInv
    OBVIOUS
  <2> USE DEF Init, ContractInit
  <2>1. TypeOK
    <3>1. idle \in 0 .. IdleTimeout /\ quiet \in 0 .. IdleTimeout - 1
      BY WebAssumption
    <3>2. /\ req \in [Requests -> {"none", "sending", "check"}]
          /\ heard \in [Requests -> {"none", "same", "other"}]
      OBVIOUS
    <3> QED
      BY <3>1, <3>2, NoWaveType DEF TypeOK, Values, States
  <2>2. CheckInv /\ CountInv /\ RecentInv
    BY NoWaveType DEF CheckInv, CountInv, RecentInv
  <2> QED
    BY <2>1, <2>2 DEF IInv
<1>2. IInv /\ [Next]_vars => IInv'
  BY TypeStep, CheckStep, CountStep, RecentStep DEF IInv
<1> QED
  BY <1>1, <1>2, PTL DEF Spec

\* The topics, the request threads and the automatic stop stay within their types.
THEOREM TypeCorrect == Spec => []TypeOK
<1>1. IInv => TypeOK
  BY DEF IInv
<1> QED
  BY <1>1, Inductive, PTL

\* A wave that runs with other values than its start asked for is stopped by the
\* check of that start, although its messages, the announcements and the stop
\* overtake each other and other requests and clients interfere.
THEOREM WrongWavesStop == Spec => []WrongWaveStops
<1>1. IInv => WrongWaveStops
  BY DEF IInv, CheckInv, Unheard, Compared, Wrong, Same, WrongWaveStops
<1> QED
  BY <1>1, Inductive, PTL

\* The automatic stop begins only when no wave has run at a tick of the timeout, less
\* one, and Keep running was not pressed; a wave that runs at that moment began after
\* the last tick.
THEOREM NotEarly == Spec => NoEarlyStop
<1>1. IInv /\ [Next]_vars =>
        [auto = "no" /\ auto' # "no" => /\ quiet + 1 >= IdleTimeout
                                        /\ st \in Busy => wave.recent]_vars
  <2> SUFFICES ASSUME IInv, [Next]_vars, auto = "no", auto' # "no"
               PROVE  quiet + 1 >= IdleTimeout /\ (st \in Busy => wave.recent)
    OBVIOUS
  <2>1. CheckIdle
    BY CountSteps DEF KeepRunning, ShutdownNodes, ServerEnds, Tick
  <2>2. quiet \in Nat /\ idle = IdleTimeout /\ idle <= quiet + 1
    BY <2>1, WebAssumption DEF IInv, TypeOK, CountInv, CheckIdle
  <2>3. quiet + 1 >= IdleTimeout /\ quiet # 0
    BY <2>2, WebAssumption
  <2> QED
    BY <2>3 DEF IInv, RecentInv
<1> QED
  BY <1>1, Inductive, PTL DEF Spec, NoEarlyStop
=============================================================================
