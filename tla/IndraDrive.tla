----------------------------- MODULE IndraDrive -----------------------------
(***************************************************************************)
(* The drive behind the gateway: IndraDrive                                *)
(* (drivers/mgate5101_driver/src/indradrive.cpp) and its one user,         *)
(* IndraDriveActuator (wavemaker_controller/src/indradrive_actuator.cpp),  *)
(* on top of MGateDriver, whose cycle callback is on_cycle().              *)
(*                                                                         *)
(* Two threads share the control word, enabled_ and fault_, none of them   *)
(* under a lock that spans a check and what follows from it: the command   *)
(* thread, which runs start(), write_setpoint(), halt() and stop() one     *)
(* after the other, and the poll thread.                                   *)
(***************************************************************************)
EXTENDS MGateDriver

CONSTANTS
  Positions,      \* positions of the axis
  Prompt          \* does the command thread get from one wait to the next
                  \* while the poll thread sleeps between two cycles?

\* Control words: nothing, operating mode, with drive ON, with drive start.
Words == {"off", "OM", "ON", "RUN"}

\* What the drive's input area may hold.
Telegrams == [word : Words, err : BOOLEAN, position : Positions, still : BOOLEAN]

ASSUME IndraAssumption ==
  /\ Tags = {"control", "target"}
  /\ BytesOf("control") \cap BytesOf("target") = {}
  /\ \A t \in Tags : Offset[t] < 2 * MaxWriteRegs   \* sent by the first transaction
  /\ Zero = "off" /\ Words \cup Positions \subseteq Values
  /\ Inputs = Telegrams /\ Statuses = BOOLEAN
  /\ Prompt \in BOOLEAN /\ ~WriteOnlyDirty

VARIABLES
  enabled, fault,       \* enabled_ and fault_
  reported,             \* history: fault_callback_ was called for this fault
  kpc,                  \* the poll thread inside on_cycle()
  apc,                  \* the command thread
  target,               \* last_target_ if has_target_, else "none"
  confirmed,            \* disable() returned true
  applied, position,    \* the drive: the word it obeys and where the axis is
  health                \* "ok", class 1 error, or out of data exchange

cmdVars   == <<apc, target, confirmed>>
driveVars == <<applied, position, health>>
vars == <<mgateVars, enabled, fault, reported, kpc, cmdVars, driveVars>>

control      == out[Offset["control"]]
sentControl  == image[Offset["control"]]
sentTarget   == image[Offset["target"]]
Torque       == {"ON", "RUN"}

\* What the gateway reports of the drive.
Telegram   == [word |-> applied, err |-> health = "error", position |-> position,
               still |-> applied # "RUN" \/ position = sentTarget]
slave_live == online /\ status

Resting == {"idle", "data", "join"}
Labels  == Resting \cup
  {"check", "reset", "park", "mode", "w_mode", "enabled", "on", "w_torque",
   "repark", "run", "w_follow", "give_up", "abort", "stop", "d_enabled",
   "d_online", "d_halt", "w_still", "d_clear", "d_off", "d_confirm", "w_off",
   "set", "hold"}

TypeInv ==
  /\ TypeOK
  /\ enabled \in BOOLEAN /\ fault \in BOOLEAN
  /\ reported \in BOOLEAN /\ confirmed \in BOOLEAN
  /\ kpc \in {"idle", "check", "control", "disable", "fault", "report", "return"}
  /\ apc \in Labels
  /\ target \in Positions \cup {"none"}
  /\ applied \in Words /\ position \in Positions
  /\ health \in {"ok", "error", "down"}

Init ==
  /\ position \in Positions /\ applied = "off" /\ health = "ok"
  /\ InitWith([word |-> "off", err |-> FALSE, position |-> position,
               still |-> TRUE], FALSE)
  /\ enabled = FALSE /\ fault = FALSE /\ reported = FALSE
  /\ kpc = "idle" /\ apc = "idle" /\ target = "none" /\ confirmed = FALSE
-----------------------------------------------------------------------------
(* on_cycle(), on the poll thread after every cycle. *)

\* set_control(0).  Mutant: the last word stays.
DropMutant  == UNCHANGED mgateVars
DropControl == Write("control", "off")

\* A failed cycle always drops the control word.
CycleFailed ==
  /\ ppc = "callback" /\ kpc = "idle" /\ ~ok
  /\ DropControl /\ kpc' = "check"
  /\ UNCHANGED <<enabled, fault, reported, cmdVars, driveVars>>

\* Latch a fault if the drive was enabled and the link, the bus or the drive
\* failed; otherwise the callback returns.
\* Mutant: only a drive error counts.
AlarmMutant == ~ok \/ inputs.err
Alarm == ~ok \/ ~slave_live \/ inputs.err
Judge ==
  /\ ppc = "callback" /\ kpc = IF ok THEN "idle" ELSE "check"
  /\ kpc' = IF enabled /\ Alarm THEN "control" ELSE "return"
  /\ UNCHANGED <<mgateVars, enabled, fault, reported, cmdVars, driveVars>>

\* latch_fault(), statement by statement.
LatchControl ==
  /\ kpc = "control" /\ kpc' = "disable"
  /\ DropControl
  /\ UNCHANGED <<enabled, fault, reported, cmdVars, driveVars>>

LatchDisable ==
  /\ kpc = "disable" /\ kpc' = "fault"
  /\ enabled' = FALSE
  /\ UNCHANGED <<mgateVars, fault, reported, cmdVars, driveVars>>

\* Mutant: whether the fault is new is decided from enabled_, already cleared.
FaultStored(new) ==
  /\ kpc = "fault" /\ kpc' = IF new THEN "report" ELSE "return"
  /\ fault' = TRUE
  /\ UNCHANGED <<mgateVars, enabled, reported, cmdVars, driveVars>>
LatchMutant == FaultStored(enabled)
LatchFault  == FaultStored(~fault)

ReportFault ==
  /\ kpc = "report" /\ kpc' = "return"
  /\ reported' = TRUE
  /\ UNCHANGED <<mgateVars, enabled, fault, cmdVars, driveVars>>

\* The wait for the next cycle is over: poll_interval_ms, or reconnect_ms after a
\* failure, in which a wait_for() that has to give up does so.
Settled ==
  \/ apc \in Resting \cup {"set", "hold"}
  \/ apc \in {"w_still", "w_off"} /\ online
  \/ apc \in {"w_mode", "w_torque", "w_follow"} /\ online /\ ~fault
Return ==
  /\ kpc = "return" /\ kpc' = "idle"
  /\ Prompt => Settled
  /\ NextCycle
  /\ UNCHANGED <<enabled, fault, reported, cmdVars, driveVars>>

OnCycle ==
  \/ CycleFailed \/ Judge \/ LatchControl \/ LatchDisable \/ LatchFault
  \/ ReportFault \/ Return
-----------------------------------------------------------------------------
(* The command thread: IndraDriveActuator and the calls it makes. *)

At(label, next) == apc = label /\ apc' = next
flags == <<enabled, fault, reported>>

\* A step of the command thread that writes one tag, or none.
Stage(label, next, t, v) ==
  /\ At(label, next) /\ Write(t, v)
  /\ UNCHANGED <<flags, kpc, target, confirmed, driveVars>>
Branch(label, next) ==
  /\ At(label, next)
  /\ UNCHANGED <<mgateVars, flags, kpc, target, confirmed, driveVars>>

\* wait_for(): the condition is met, or the wait is given up: the gateway is
\* offline, a fault was latched (if stoppable), or the deadline has passed.
WaitFor(label, next, failed, stoppable, cond) ==
  \/ /\ online /\ ~(stoppable /\ fault) /\ cond
     /\ Branch(label, next)
  \/ /\ ~(online /\ ~(stoppable /\ fault) /\ cond)
     /\ Branch(label, failed)

\* start()
StartDriver ==
  /\ At("idle", "data") /\ Start
  /\ target' = "none" /\ confirmed' = FALSE
  /\ UNCHANGED <<flags, kpc, driveVars>>

\* wait_for_data() and the checks of the statistics, with 200 ms between them: time
\* for the drive to obey what the gateway sends now, and for a cycle to tell.
AwaitData ==
  \/ /\ have_data
     /\ Prompt => inputs.word \notin Torque
     /\ Branch("data", "check")
  \/ Branch("data", "stop")

\* The checks before enable() touches anything.
CheckDrive == \/ slave_live /\ Branch("check", "reset")
              \/ Branch("check", "stop")

ForgetFault ==
  /\ At("reset", IF inputs.err THEN "stop" ELSE "park")
  /\ fault' = FALSE /\ reported' = FALSE
  /\ UNCHANGED <<mgateVars, enabled, kpc, target, confirmed, driveVars>>

\* enable(): operating mode and power, torque, start, each confirmed by the drive.
Park     == Stage("park", "mode", "target", inputs.position)
SetMode  == Stage("mode", "w_mode", "control", "OM")
WaitMode == WaitFor("w_mode", "enabled", "give_up", TRUE, inputs.word # "off")
SetEnabled ==
  /\ At("enabled", "on") /\ enabled' = TRUE
  /\ UNCHANGED <<mgateVars, fault, reported, kpc, target, confirmed, driveVars>>
DriveOn  == Stage("on", "w_torque", "control", "ON")
WaitTorque ==
  WaitFor("w_torque", "repark", "give_up", TRUE, inputs.word \in Torque)
\* Mutant: the target of before torque came on is kept.
ReparkMutant == Branch("repark", "run")
Repark   == Stage("repark", "run", "target", inputs.position)
DriveStart == Stage("run", "w_follow", "control", "RUN")
WaitFollow ==
  WaitFor("w_follow", "idle", "give_up", TRUE, inputs.word = "RUN")

\* abort_enable(false), after which start() stops the gateway driver.
GiveUp ==
  /\ At("give_up", "abort") /\ enabled' = FALSE
  /\ UNCHANGED <<mgateVars, fault, reported, kpc, target, confirmed, driveVars>>
\* Mutant: the control word is left as it is.
AbortMutant == Branch("abort", "stop")
AbortEnable == Stage("abort", "stop", "control", "OM")

Enable ==
  \/ CheckDrive \/ ForgetFault \/ Park \/ SetMode \/ WaitMode \/ SetEnabled
  \/ DriveOn \/ WaitTorque \/ Repark \/ DriveStart \/ WaitFollow
  \/ GiveUp \/ AbortEnable

\* write_setpoint(p) and halt(): move_to() checks, then stages the velocity (see
\* MGateOutputs) and the target.  A refused call changes nothing.
Movable == enabled /\ ~fault
WriteSetpoint == Movable /\ Branch("idle", "set")
MoveTarget ==
  /\ \E p \in Positions : /\ Write("target", p) /\ target' = p
  /\ At("set", "idle")
  /\ UNCHANGED <<flags, kpc, confirmed, driveVars>>
Halt == Movable /\ Branch("idle", "hold")
MoveHold == Stage("hold", "idle", "target",
                  IF target = "none" THEN inputs.position ELSE target)

\* stop(): disable(), then the gateway driver's stop().
\* Mutant: the drive's answer to "torque off" is not awaited.
DropTarget ==
  /\ At("idle", "d_enabled")
  /\ target' = "none" /\ confirmed' = FALSE
  /\ UNCHANGED <<mgateVars, flags, kpc, driveVars>>
IfEnabled == Branch("d_enabled", IF enabled THEN "d_online" ELSE "d_clear")
IfOnline  == Branch("d_online", IF online THEN "d_halt" ELSE "d_clear")
DriveHalt == Stage("d_halt", "w_still", "control", "ON")
WaitStill == WaitFor("w_still", "d_clear", "d_clear", FALSE, inputs.still)
ClearEnabled ==
  /\ At("d_clear", "d_off") /\ enabled' = FALSE
  /\ UNCHANGED <<mgateVars, fault, reported, kpc, target, confirmed, driveVars>>
TorqueOff == Stage("d_off", "d_confirm", "control", "OM")
Confirm   == Branch("d_confirm", IF online THEN "w_off" ELSE "stop")
ConfirmedIf(cond) ==
  /\ At("w_off", "stop")
  /\ confirmed' = (online /\ cond)
  /\ UNCHANGED <<mgateVars, flags, kpc, target, driveVars>>
WaitOffMutant == ConfirmedIf(inputs.still)
WaitOff       == ConfirmedIf(inputs.word \notin Torque)

StopDriver ==
  \/ /\ At("stop", "join") /\ Stop
     /\ UNCHANGED <<flags, kpc, target, confirmed, driveVars>>
  \/ ~running /\ Branch("stop", "idle")
JoinDriver ==
  /\ At("join", "idle") /\ Join
  /\ UNCHANGED <<flags, kpc, target, confirmed, driveVars>>

Disable ==
  \/ IfEnabled \/ IfOnline \/ DriveHalt \/ WaitStill \/ ClearEnabled
  \/ TorqueOff \/ Confirm \/ WaitOff

CommandStep ==
  \/ AwaitData \/ Enable \/ MoveTarget \/ MoveHold \/ Disable
  \/ StopDriver \/ JoinDriver
Commands == StartDriver \/ WriteSetpoint \/ Halt \/ DropTarget
-----------------------------------------------------------------------------
(* The drive and the bus. *)

rest == <<mgateVars, flags, kpc, cmdVars>>

\* PROFIBUS carries the gateway's outputs to the drive.
DriveObeys ==
  /\ health = "ok" /\ applied' = sentControl
  /\ UNCHANGED <<rest, position, health>>

\* With drive start the axis goes to its target; without torque the water may
\* push it anywhere.
AxisMoves ==
  /\ \/ applied = "RUN" /\ sentTarget \in Positions /\ position' = sentTarget
     \/ applied \notin Torque /\ position' \in Positions
  /\ UNCHANGED <<rest, applied, health>>

DriveFails ==
  /\ health = "ok" /\ applied' = "off" /\ health' \in {"error", "down"}
  /\ UNCHANGED <<rest, position>>

\* An operator repairs it; bus start-up and the gateway's fault value timeout
\* outlast the driver's reaction, so the gateway no longer asks for torque.
DriveRepaired ==
  /\ sentControl \notin Torque
  /\ health' = "ok"
  /\ UNCHANGED <<rest, applied, position>>

Gateway == GatewayRestarts /\ UNCHANGED <<flags, kpc, cmdVars, driveVars>>
Plant == DriveObeys \/ AxisMoves \/ DriveFails \/ DriveRepaired
-----------------------------------------------------------------------------
PollStep ==
  \/ OnCycle
  \/ /\ Cycle(Telegram, health # "down")
     /\ UNCHANGED <<flags, kpc, cmdVars, driveVars>>

Next == PollStep \/ CommandStep \/ Commands \/ Gateway \/ Plant

Spec == Init /\ [][Next]_vars

\* Both threads are scheduled: a cycle ends by its time-outs, a wait by its
\* deadline.
FairSpec == Spec /\ WF_vars(PollStep) /\ WF_vars(CommandStep)
-----------------------------------------------------------------------------
\* Activation causes no motion: whenever the drive starts to follow command
\* values, the target it is given is where the axis is, although the axis may
\* have been pushed between enable()'s first park and the torque.
NoJump ==
  [][applied # "RUN" /\ applied' = "RUN" => sentTarget = position]_vars

\* "A reconnect sends off, never the last run command."
ReconnectSendsOff ==
  [][connected = "no" /\ connected' = "yes" => control \notin Torque]_vars

\* When the drive has confirmed torque off to disable(), it stays without torque
\* although stop() no longer talks to it.
ConfirmedOff == confirmed => applied \notin Torque

\* No command leaves torque requested behind a latched fault, however the two
\* threads' writes of the control word interleaved.
FaultedRestsOff == fault /\ apc \in Resting => control \notin Torque

\* Every latched fault is reported once it is visible to the other threads.
FaultIsReported == fault /\ kpc # "report" => reported

\* An enabled drive that fails or drops off the bus is noticed.
FailureIsNoticed ==
  enabled /\ health # "ok" ~> ~enabled \/ health = "ok"
=============================================================================
