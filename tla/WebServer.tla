----------------------------- MODULE WebServer -----------------------------
(***************************************************************************)
(* The web server (wavemaker_web/scripts/web_server.py) in front of a      *)
(* bridge that keeps BridgeContract.  HTTP requests, ROS callbacks, the    *)
(* check of each start and the automatic stop run on threads of their own; *)
(* a section of _lock, or a publication, is one step.  The topics height,  *)
(* period, start and stop are not ordered among each other.  The status    *)
(* topics keep one sample: what the server has not taken is overwritten.   *)
(*                                                                         *)
(* Every request asks for values of its own, so the request stands for its *)
(* height and for its period.  The message topic only matters while it     *)
(* carries the values of the present wave (an announcement), and the state *)
(* topic by the kind of its state.                                         *)
(***************************************************************************)
EXTENDS Naturals, BridgeContract

CONSTANTS
  Requests,     \* calls of start() with values of their own
  Other,        \* another client of the bridge; its values, or none yet
  IdleTimeout   \* idle_timeout_s, in ticks longer than every delay and timer

ASSUME WebAssumption ==
  Other \notin Requests /\ IdleTimeout \in Nat \ {0, 1}

VARIABLES
  height, period,   \* height_ and period_ of the bridge
  wave,             \* its wave, see Waves
  news,             \* what wavemaker_message holds
  heights, periods, starts,   \* requests whose messages are on their way
  stopping,         \* a stop message is on its way; more of them merge with it
  other_beats,      \* another client sends heartbeats
  up,               \* the server runs
  seen,             \* _state
  req,              \* where each request's threads are
  heard,            \* _started_with against the request's values, if it is newer
                    \* than its first_message
  acked,            \* page_alive()
  idle,             \* ticks since _last_activity
  auto,             \* _auto_stopping, and how far _auto_stop is
  quiet             \* history: ticks since one with a wave, or Keep running; capped

topicVars  == <<heights, periods, starts, stopping, other_beats>>
bridgeVars == <<contractVars, height, period, wave, news>>
idleVars   == <<idle, auto, quiet>>
serverVars == <<up, seen, req, heard, acked, idleVars>>
vars == <<bridgeVars, topicVars, serverVars>>

Values == Requests \cup {Other}
\* h, p: its values, as long as they may be compared; by: the client whose start it
\* obeyed; watched: that request's check has not missed the announcement; recent
\* (history): it began after the last tick.
Waves == [h : Values, p : Values, by : Values, watched : BOOLEAN, recent : BOOLEAN]
NoWave == [h |-> Other, p |-> Other, by |-> Other, watched |-> FALSE, recent |-> FALSE]
Kind(state) == CASE state \in Busy  -> "busy"
                 [] state = "Idle" -> "idle"
                 [] OTHER          -> "off"

TypeOK ==
  /\ active \in BOOLEAN /\ st \in States /\ alive \in BOOLEAN
  /\ height \in Values /\ period \in Values /\ wave \in Waves
  /\ news \in {"text", "announced", "taken"}
  /\ heights \subseteq Requests /\ periods \subseteq Requests
  /\ starts \subseteq Requests
  /\ seen \in {"off", "idle", "busy"}
  /\ req \in [Requests -> {"none", "sending", "check"}]
  /\ heard \in [Requests -> {"none", "same", "other"}]
  /\ stopping \in BOOLEAN /\ up \in BOOLEAN /\ acked \in BOOLEAN /\ other_beats \in BOOLEAN
  /\ idle \in 0 .. IdleTimeout /\ quiet \in 0 .. IdleTimeout - 1
  /\ auto \in {"no", "shutdown", "exit"}

Init ==
  /\ ContractInit
  /\ height = Other /\ period = Other /\ wave = NoWave /\ news = "text"
  /\ heights = {} /\ periods = {} /\ starts = {} /\ stopping = FALSE
  /\ other_beats = FALSE
  /\ up = TRUE /\ seen = "off"
  /\ req = [r \in Requests |-> "none"] /\ heard = [r \in Requests |-> "none"]
  /\ acked = FALSE /\ idle = 0 /\ auto = "no" /\ quiet = 0
-----------------------------------------------------------------------------
(* The bridge. *)

\* Another report takes the place of an announcement; if that has not been taken,
\* the check misses it, and the wave's values are of no more use to the server.
Report == news' = "text"
Unwatched   == [NoWave EXCEPT !.recent = wave.recent]
Overwritten == IF wave.watched /\ news # "announced" THEN wave ELSE Unwatched

\* The lifecycle manager brings the bridge up, and not after its own shutdown or
\* that of the launch.
BridgeActivates ==
  /\ up /\ auto = "no" /\ Activated /\ Report
  /\ UNCHANGED <<height, period, wave, topicVars, serverVars>>

TakeHeight(r) ==
  /\ active /\ r \in heights /\ heights' = heights \ {r} /\ height' = r
  /\ UNCHANGED <<contractVars, period, wave, news, periods, starts, stopping,
                 other_beats, serverVars>>
TakePeriod(r) ==
  /\ active /\ r \in periods /\ periods' = periods \ {r} /\ period' = r
  /\ UNCHANGED <<contractVars, height, wave, news, heights, starts, stopping,
                 other_beats, serverVars>>

\* start(): refused without values or a heartbeat, when not idle, or when the
\* controller cannot be reached.
Waiting(r) == r \in Requests /\ req[r] = "check" /\ heard[r] = "none"
BridgeStarts(r) ==
  /\ active
  /\ \/ /\ Wave /\ Begun
        /\ wave' = [h |-> height, p |-> period, by |-> r, watched |-> Waiting(r),
                    recent |-> TRUE]
        /\ news' = "announced"
     \/ wave' = Overwritten /\ Report /\ UNCHANGED contractVars
  /\ UNCHANGED <<height, period, heights, periods, stopping, other_beats, serverVars>>
TakeStart(r) == r \in starts /\ starts' = starts \ {r} /\ BridgeStarts(r)

\* Other clients (LabVIEW, a page of another server) send the same topics.
OtherValues ==
  /\ active
  /\ height' \in {height, Other} /\ period' \in {period, Other}
  /\ UNCHANGED <<contractVars, wave, news, topicVars, serverVars>>
OtherStart == BridgeStarts(Other) /\ UNCHANGED starts

\* stop(): a wave, or a goal requested before the bridge was deactivated and
\* activated, goes to stopping, or is given up when the controller is absent; an idle
\* bridge without one stays idle.
BridgeStops ==
  /\ \/ Wave /\ Halted /\ wave' = [Unwatched EXCEPT !.recent = @ \/ st = "Idle"]
     \/ Wave /\ Ended /\ wave' = NoWave
     \/ st = "Idle" /\ UNCHANGED <<contractVars, wave>>
  /\ Report /\ UNCHANGED <<height, period>>

OtherStop == active /\ BridgeStops /\ UNCHANGED <<topicVars, serverVars>>
TakeStop ==
  /\ active /\ stopping /\ stopping' = FALSE /\ BridgeStops
  /\ UNCHANGED <<heights, periods, starts, other_beats, serverVars>>

BridgeWatch ==
  st \in Watched /\ ~alive /\ BridgeStops /\ UNCHANGED <<topicVars, serverVars>>

GoalAccepted ==
  /\ Wave /\ Accepted /\ wave' = Overwritten /\ Report
  /\ UNCHANGED <<height, period, topicVars, serverVars>>
WaveEnds ==
  /\ Wave /\ Ended /\ wave' = NoWave /\ Report
  /\ UNCHANGED <<height, period, topicVars, serverVars>>

\* watch() repeats the last report every second.
Repeat ==
  /\ active /\ news = "taken" /\ news' = "announced"
  /\ UNCHANGED <<contractVars, height, period, wave, topicVars, serverVars>>

\* Messages to a bridge that is gone are lost.
BridgeLeaves ==
  /\ Left /\ wave' = NoWave /\ Report
  /\ heights' = {} /\ periods' = {} /\ starts' = {} /\ stopping' = FALSE
  /\ UNCHANGED <<height, period, other_beats>>
\* The lifecycle manager takes the bridge down with a controller that failed or a
\* node whose bond broke.
ManagerStops == up /\ BridgeLeaves /\ UNCHANGED serverVars
\* The launch ends every node when the server exits.
LaunchStops == ~up /\ BridgeLeaves /\ UNCHANGED serverVars
-----------------------------------------------------------------------------
(* The server's ROS callbacks. *)

OnState ==
  /\ up /\ seen # Kind(st) /\ seen' = Kind(st)
  /\ UNCHANGED <<bridgeVars, topicVars, up, req, heard, acked, idleVars>>

\* _on_message, and the comparison of _check_start.
\* Mutant: only the height is compared.
SameHeight(r) == wave.h = r
Same(r) == wave.h = r /\ wave.p = r
OnMessage ==
  /\ up /\ news = "announced" /\ news' = "taken"
  /\ heard' = [r \in Requests |-> CASE req[r] = "none" -> "none"
                                    [] Same(r)         -> "same"
                                    [] OTHER           -> "other"]
  /\ UNCHANGED <<contractVars, height, period, wave, topicVars, up, seen, req,
                 acked, idleVars>>

\* _send_heartbeat.  Mutant: sent whether or not a page is there.
AnyPage == TRUE
SendsHeartbeat == acked
\* The heartbeat topic is anyone's: LabVIEW, another server, a terminal.
Beating == (up /\ SendsHeartbeat) \/ other_beats
OtherBeats ==
  /\ other_beats' = ~other_beats
  /\ UNCHANGED <<bridgeVars, heights, periods, starts, stopping, serverVars>>
HeartbeatArrives ==
  /\ Beating /\ active /\ ~alive /\ alive' = TRUE
  /\ UNCHANGED <<active, st, height, period, wave, news, topicVars, serverVars>>
\* Heartbeats are sent with best effort, so they may also be lost.
HeartbeatMissed ==
  /\ alive /\ alive' = FALSE
  /\ UNCHANGED <<active, st, height, period, wave, news, topicVars, serverVars>>
HeartbeatStops == ~Beating /\ HeartbeatMissed
-----------------------------------------------------------------------------
(* The HTTP requests. *)

\* acknowledge(), and the time after the last one.
Acknowledge(a) ==
  /\ up /\ acked = ~a /\ acked' = a
  /\ UNCHANGED <<bridgeVars, topicVars, up, seen, req, heard, idleVars>>

\* start(), up to the sleep; a request that is not admitted changes nothing.
StartRequest(r) ==
  /\ up /\ auto = "no" /\ seen = "idle"
  /\ req[r] = "none" /\ r \notin UNION {heights, periods, starts, {wave.by}}
  /\ req' = [req EXCEPT ![r] = "sending"]
  /\ heights' = heights \cup {r} /\ periods' = periods \cup {r}
  /\ UNCHANGED <<bridgeVars, starts, stopping, other_beats, up, seen, heard, acked,
                 idleVars>>

SendStart(r) ==
  /\ up /\ req[r] = "sending" /\ req' = [req EXCEPT ![r] = "check"]
  /\ starts' = starts \cup {r}
  /\ UNCHANGED <<bridgeVars, heights, periods, stopping, other_beats, up, seen, heard,
                 acked, idleVars>>

CheckStart(r) ==
  /\ up /\ req[r] = "check" /\ heard[r] # "none"
  /\ req' = [req EXCEPT ![r] = "none"] /\ heard' = [heard EXCEPT ![r] = "none"]
  /\ stopping' = (stopping \/ heard[r] = "other")
  /\ UNCHANGED <<bridgeVars, heights, periods, starts, other_beats, up, seen, acked,
                 idleVars>>

\* The check gives up after START_CHECK_S, which outlasts the way of the start
\* and of its announcement.
CheckExpires(r) ==
  /\ up /\ req[r] = "check" /\ heard[r] = "none"
  /\ r \notin starts /\ ~(wave.by = r /\ wave.watched)
  /\ req' = [req EXCEPT ![r] = "none"]
  /\ UNCHANGED <<bridgeVars, topicVars, up, seen, heard, acked, idleVars>>

StopRequest ==
  /\ up /\ ~stopping /\ stopping' = TRUE
  /\ UNCHANGED <<bridgeVars, heights, periods, starts, other_beats, serverVars>>

KeepRunning ==
  /\ up /\ auto = "no" /\ idle' = 0 /\ quiet' = 0
  /\ UNCHANGED <<bridgeVars, topicVars, up, seen, req, heard, acked, auto>>
-----------------------------------------------------------------------------
(* The automatic stop. *)

\* Mutant: a wave does not restart the count.
CountsOn == idle
SinceActivity == IF seen = "busy" THEN 0 ELSE idle

CheckIdle ==
  /\ up /\ auto = "no" /\ idle' = SinceActivity
  /\ auto' = IF seen # "busy" /\ idle = IdleTimeout THEN "shutdown" ELSE "no"
  /\ UNCHANGED <<bridgeVars, topicVars, up, seen, req, heard, acked, quiet>>

\* _shutdown_managed_nodes(): the lifecycle manager does it, or fails, or is not
\* there.
ShutdownNodes ==
  /\ up /\ auto = "shutdown" /\ auto' = "exit"
  /\ BridgeLeaves \/ UNCHANGED <<bridgeVars, topicVars>>
  /\ UNCHANGED <<up, seen, req, heard, acked, idle, quiet>>

\* The process ends: after the automatic stop, by a crash or by Ctrl-C.
ServerEnds ==
  /\ up /\ up' = FALSE
  /\ seen' = "off" /\ acked' = FALSE
  /\ req' = [r \in Requests |-> "none"] /\ heard' = [r \in Requests |-> "none"]
  /\ idle' = 0 /\ auto' = "no" /\ quiet' = 0
  /\ UNCHANGED <<bridgeVars, topicVars>>

\* Mutant: the server stays up when the manager failed.
StaysUp == auto = "exit" /\ ~active
Exits   == auto = "exit"
AutoStopExits == Exits /\ ServerEnds

\* Time passes in ticks, which begin at a check and are long enough for the state
\* to be received.
Tick ==
  /\ up /\ auto = "no" /\ seen = Kind(st) /\ idle = SinceActivity
  /\ idle < IdleTimeout /\ idle' = idle + 1
  /\ quiet' = IF st \in Busy THEN 0
              ELSE IF quiet < IdleTimeout - 1 THEN quiet + 1 ELSE quiet
  /\ wave' = [wave EXCEPT !.recent = FALSE]
  /\ UNCHANGED <<contractVars, height, period, news, topicVars, up, seen, req, heard,
                 acked, auto>>
-----------------------------------------------------------------------------
Delivery == \E r \in Requests : TakeHeight(r) \/ TakePeriod(r) \/ TakeStart(r)
Checking == \E r \in Requests : SendStart(r) \/ CheckStart(r) \/ CheckExpires(r)
AutoStop == ShutdownNodes \/ AutoStopExits

Next ==
  \/ BridgeActivates \/ BridgeWatch \/ GoalAccepted \/ WaveEnds \/ Repeat
  \/ ManagerStops \/ LaunchStops
  \/ OtherValues \/ OtherStart \/ OtherStop \/ OtherBeats \/ Delivery \/ TakeStop
  \/ OnState \/ OnMessage \/ HeartbeatArrives \/ HeartbeatMissed
  \/ \E a \in BOOLEAN : Acknowledge(a)
  \/ \E r \in Requests : StartRequest(r)
  \/ Checking \/ StopRequest \/ KeepRunning
  \/ CheckIdle \/ AutoStop \/ ServerEnds \/ Tick

Spec == Init /\ [][Next]_vars

\* Threads and timers run, a heartbeat that is not sent times out, the bridge
\* watches, and the launch ends what it started.
Fairness ==
  /\ WF_vars(AutoStop) /\ WF_vars(HeartbeatStops) /\ WF_vars(BridgeWatch)
  /\ WF_vars(LaunchStops)
FairSpec == Spec /\ Fairness
-----------------------------------------------------------------------------
\* "Stops the wave if they differ from what was sent": as long as a wave with other
\* values than its start asked for runs, its announcement has yet to be taken, or
\* the check has taken it and will send a stop, or the stop is on its way.  Exempt
\* are waves whose announcement was overwritten before it was taken, and starts
\* that arrive when their check is over.
Wrong == st \in Watched /\ ~(wave.h = wave.by /\ wave.p = wave.by)
WrongWaveStops ==
  Wrong /\ wave.watched /\ up =>
    \/ news = "announced"
    \/ req[wave.by] = "check" /\ heard[wave.by] = "other"
    \/ stopping

\* "Closing the page, a frozen browser or a lost network stops the wave", and so
\* does a crash of the server: provided no other client sends heartbeats, which
\* watch() does not tell from the server's.
NoPageNoWave ==
  <>[]((~acked \/ ~up) /\ ~other_beats) => <>[](st \notin Watched)

\* Once the automatic stop has begun it is not called off and does not hang, whatever
\* the lifecycle manager does; it ends with the exit of the server.  And when the
\* server has exited, in that way or by a crash, the bridge goes down for good,
\* although a start may have passed its check just before.
AutoStopEnds ==
  /\ [][auto # "no" /\ auto' = "no" => ~up']_vars
  /\ []<>(auto = "no")
  /\ <>[]~up => <>[](st = "Inactive")

\* When the automatic stop begins, no wave has run at a tick, and Keep running was
\* not pressed, within the timeout less a tick.  A wave that runs at that moment
\* began after the last tick: its state is on its way to the server, or came too
\* late for the check.  Waves that came and went between two ticks do not count.
NoEarlyStop ==
  [][auto = "no" /\ auto' # "no" =>
       /\ quiet + 1 >= IdleTimeout
       /\ st \in Busy => wave.recent]_vars
=============================================================================
