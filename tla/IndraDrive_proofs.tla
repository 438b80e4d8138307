-------------------------- MODULE IndraDrive_proofs --------------------------
(***************************************************************************)
(* Torque: the drive reconnects without it, loses it behind a fault, keeps *)
(* off once it has said so, and starts without a jump, for every layout of *)
(* the outputs, every number of registers and every set of positions.      *)
(***************************************************************************)
EXTENDS IndraDrive, MGateDriver_proofs

\* The control word and the target in the driver's image, in the registers of a
\* flush under way, and (sentControl, sentTarget) in the gateway.
outTarget  == out[Offset["target"]]
regControl == regs[Offset["control"]]
regTarget  == regs[Offset["target"]]

\* Every copy of the control word is a word; a flush takes all outputs, and its
\* first transaction carries both tags.
WordsInv ==
  /\ control \in Words /\ regControl \in Words /\ sentControl \in Words
  /\ ppc \in {"copy", "wire", "clear"} => lo = 0 /\ hi = 2 * WordCount
  /\ ppc = "wire" => sent = 0 \/ sent >= MaxWriteRegs
  /\ ppc = "wire" /\ connected = "yes" /\ sent # 0 =>
       sentControl = regControl /\ sentTarget = regTarget

BaseInv == TypeInv /\ WordsInv
-----------------------------------------------------------------------------
(* What the steps do to the control word, the target and the flags. *)

\* The two tags lie apart, within the reach of the first transaction.
LEMMA TagsApart ==
  /\ "control" \in Tags /\ "target" \in Tags
  /\ Offset["control"] \in Bytes /\ Offset["target"] \in Bytes
  /\ Offset["control"] \in BytesOf("control") /\ Offset["control"] \notin BytesOf("target")
  /\ Offset["target"] \in BytesOf("target") /\ Offset["target"] \notin BytesOf("control")
  /\ Offset["control"] < 2 * MaxWriteRegs /\ Offset["target"] < 2 * MaxWriteRegs
<1>1. "control" \in Tags /\ "target" \in Tags
  BY IndraAssumption
<1> QED
  BY <1>1, TagBytes, IndraAssumption

\* The copies that a step leaves alone.
LEMMA Frames ==
  /\ out' = out => control' = control /\ outTarget' = outTarget
  /\ regs' = regs => regControl' = regControl /\ regTarget' = regTarget
  /\ image' = image => sentControl' = sentControl /\ sentTarget' = sentTarget
BY DEF control, outTarget, regControl, regTarget, sentControl, sentTarget

LinkFrame == UNCHANGED <<running, online, have_data, connected, ppc>>
OwnFrame  == UNCHANGED <<ok, inputs, status, regs, image, lo, hi, sent>>

\* DropControl and Stage() write one tag and leave the other, and the link, alone.
LEMMA WriteControl ==
  ASSUME NEW v, Write("control", v)
  PROVE  control' = v /\ outTarget' = outTarget /\ LinkFrame /\ OwnFrame
BY TagsApart DEF Write, control, outTarget, LinkFrame, OwnFrame, flushVars, readVars

LEMMA WriteTarget ==
  ASSUME NEW v, Write("target", v)
  PROVE  control' = control /\ outTarget' = v /\ LinkFrame /\ OwnFrame
BY TagsApart DEF Write, control, outTarget, LinkFrame, OwnFrame, flushVars, readVars

Go(from, to) == apc = from /\ apc' = to

\* A step of the command thread that goes on, or goes back, on what it sees.
Decides ==
  /\ LinkFrame /\ UNCHANGED <<enabled, fault, reported, confirmed, control, outTarget>>
  /\ \/ Go("data", "check") /\ have_data /\ (Prompt => inputs.word \notin Torque)
     \/ Go("data", "stop") \/ Go("check", "stop")
     \/ Go("check", "reset") /\ online
     \/ Go("w_mode", "enabled") /\ online
     \/ Go("w_torque", "repark") /\ online /\ ~fault /\ inputs.word \in Torque
     \/ Go("w_follow", "idle") /\ online /\ ~fault /\ inputs.word = "RUN"
     \/ apc \in {"w_mode", "w_torque", "w_follow"} /\ apc' = "give_up"
     \/ apc = "idle" /\ apc' \in {"set", "hold"} /\ enabled /\ ~fault
     \/ Go("d_enabled", "d_online") /\ enabled
     \/ Go("d_enabled", "d_clear") /\ ~enabled
     \/ Go("d_online", "d_halt") /\ online
     \/ Go("d_online", "d_clear") /\ ~online
     \/ Go("w_still", "d_clear")
     \/ Go("d_confirm", "w_off") /\ online
     \/ Go("d_confirm", "stop")
     \/ Go("stop", "idle") /\ ~running

\* One that writes the control word, the target, or a flag.
SetsControl ==
  /\ LinkFrame /\ UNCHANGED <<enabled, fault, reported, confirmed, outTarget>>
  /\ \/ Go("mode", "w_mode") /\ control' = "OM"
     \/ Go("on", "w_torque") /\ control' = "ON"
     \/ Go("run", "w_follow") /\ control' = "RUN"
     \/ Go("abort", "stop") /\ control' = "OM"
     \/ Go("d_halt", "w_still") /\ control' = "ON"
     \/ Go("d_off", "d_confirm") /\ control' = "OM"
SetsTarget ==
  /\ LinkFrame /\ UNCHANGED <<enabled, fault, reported, confirmed, control>>
  /\ \/ Go("park", "mode")
     \/ Go("repark", "run") /\ outTarget' = inputs.position
     \/ Go("set", "idle") \/ Go("hold", "idle")
SetsFlag ==
  /\ LinkFrame /\ UNCHANGED <<control, outTarget>>
  /\ \/ /\ apc = "reset" /\ apc' \in {"stop", "park"} /\ fault' = FALSE
        /\ reported' = FALSE /\ UNCHANGED <<enabled, confirmed>>
     \/ /\ Go("enabled", "on") /\ enabled' = TRUE
        /\ UNCHANGED <<fault, reported, confirmed>>
     \/ /\ Go("give_up", "abort") \/ Go("d_clear", "d_off")
        /\ enabled' = FALSE /\ UNCHANGED <<fault, reported, confirmed>>
     \/ /\ Go("w_off", "stop") /\ (confirmed' => online /\ inputs.word \notin Torque)
        /\ UNCHANGED <<enabled, fault, reported>>
     \/ /\ Go("idle", "d_enabled") /\ confirmed' = FALSE
        /\ UNCHANGED <<enabled, fault, reported>>

\* One that starts, stops or joins the poll thread.
Switches ==
  /\ UNCHANGED <<enabled, fault, reported, control, outTarget, have_data>>
  /\ \/ /\ Go("idle", "data") /\ ~running /\ running' = TRUE /\ ppc = "off" /\ ppc' = "top"
        /\ confirmed' = FALSE /\ UNCHANGED <<online, connected>>
     \/ /\ Go("stop", "join") /\ running' = FALSE
        /\ UNCHANGED <<ppc, online, connected, confirmed>>
     \/ /\ Go("join", "idle") /\ ppc = "exited" /\ ppc' = "off"
        /\ connected' = "no" /\ online' = FALSE /\ UNCHANGED <<running, confirmed>>

CommandMoves == Decides \/ SetsControl \/ SetsTarget \/ SetsFlag \/ Switches

\* Every step of the command thread is one of these, and leaves the rest alone.
LEMMA CommandView ==
  ASSUME CommandStep \/ Commands
  PROVE  /\ CommandMoves
         /\ UNCHANGED <<kpc, ok, inputs, regs, image, lo, hi, sent, applied, position, health>>
<1> USE Frames DEF Go, LinkFrame, At, flags, driveVars, mgateVars, ownVars, flushVars, readVars
<1>1. CASE AwaitData \/ CheckDrive
  BY <1>1 DEF AwaitData, CheckDrive, Branch, slave_live, CommandMoves, Decides
<1>2. CASE WaitMode \/ WaitTorque
  BY <1>2 DEF WaitMode, WaitTorque, WaitFor, Branch, CommandMoves, Decides
<1>3. CASE WaitFollow \/ WaitStill
  BY <1>3 DEF WaitFollow, WaitStill, WaitFor, Branch, CommandMoves, Decides
<1>4. CASE WriteSetpoint \/ Halt
  BY <1>4 DEF WriteSetpoint, Halt, Movable, Branch, CommandMoves, Decides
<1>5. CASE IfEnabled \/ IfOnline \/ Confirm
  <2>1. CASE IfEnabled
    BY <2>1 DEF IfEnabled, Branch, CommandMoves, Decides
  <2>2. CASE IfOnline
    BY <2>2 DEF IfOnline, Branch, CommandMoves, Decides
  <2>3. CASE Confirm
    BY <2>3 DEF Confirm, Branch, CommandMoves, Decides
  <2> QED
    BY <1>5, <2>1, <2>2, <2>3
<1>6. CASE SetMode \/ DriveOn \/ DriveStart \/ AbortEnable \/ DriveHalt \/ TorqueOff
  <2>1. PICK a, c, v : Stage(a, c, "control", v) /\ <<a, c, v>> \in
          {<<"mode", "w_mode", "OM">>, <<"on", "w_torque", "ON">>, <<"run", "w_follow", "RUN">>,
           <<"abort", "stop", "OM">>, <<"d_halt", "w_still", "ON">>, <<"d_off", "d_confirm", "OM">>}
    BY <1>6 DEF SetMode, DriveOn, DriveStart, AbortEnable, DriveHalt, TorqueOff
  <2>2. control' = v /\ outTarget' = outTarget /\ LinkFrame /\ OwnFrame
    BY <2>1, WriteControl DEF Stage
  <2> QED
    BY <2>1, <2>2 DEF Stage, OwnFrame, CommandMoves, SetsControl
<1>7. CASE Park \/ Repark \/ MoveHold
  <2>1. CASE Park \/ Repark
    <3>1. control' = control /\ outTarget' = inputs.position /\ LinkFrame /\ OwnFrame
      BY <2>1, WriteTarget DEF Park, Repark, Stage
    <3> QED
      BY <2>1, <3>1 DEF Park, Repark, Stage, OwnFrame, CommandMoves, SetsTarget
  <2>2. CASE MoveHold
    <3>1. control' = control /\ LinkFrame /\ OwnFrame
      BY <2>2, WriteTarget DEF MoveHold, Stage
    <3> QED
      BY <2>2, <3>1 DEF MoveHold, Stage, OwnFrame, CommandMoves, SetsTarget
  <2> QED
    BY <1>7, <2>1, <2>2
<1>8. CASE MoveTarget
  <2>1. control' = control /\ LinkFrame /\ OwnFrame
    BY <1>8, WriteTarget DEF MoveTarget
  <2> QED
    BY <1>8, <2>1 DEF MoveTarget, OwnFrame, CommandMoves, SetsTarget
<1>9. CASE ForgetFault \/ SetEnabled \/ GiveUp \/ ClearEnabled
  BY <1>9 DEF ForgetFault, SetEnabled, GiveUp, ClearEnabled, CommandMoves, SetsFlag
<1>10. CASE WaitOff \/ DropTarget
  BY <1>10 DEF WaitOff, ConfirmedIf, DropTarget, CommandMoves, SetsFlag
<1>11. CASE StopDriver
  BY <1>11 DEF StopDriver, Stop, Branch, CommandMoves, Switches, Decides
<1>12. CASE StartDriver \/ JoinDriver
  BY <1>12 DEF StartDriver, Start, JoinDriver, Join, CommandMoves, Switches
<1> QED
  BY <1>1, <1>2, <1>3, <1>4, <1>5, <1>6, <1>7, <1>8, <1>9, <1>10, <1>11, <1>12
     DEF CommandStep, Commands, Enable, Disable
-----------------------------------------------------------------------------
(* Types, and the control word's copies. *)

\* What a step writes is a word or a position.
LEMMA TypeStep ==
  ASSUME BaseInv, [Next]_vars PROVE TypeInv'
<1> USE DEF ownVars, flushVars, readVars, cmdVars, driveVars, mgateVars, flags, rest
<1> TypeInv
  BY DEF BaseInv
<1>1. /\ "control" \in Tags /\ "target" \in Tags /\ Words \subseteq Values
      /\ Positions \subseteq Values /\ Inputs = Telegrams /\ Statuses = BOOLEAN
  BY IndraAssumption
<1>2. inputs \in Telegrams /\ inputs.position \in Positions
  BY <1>1 DEF TypeInv, TypeOK, Telegrams
<1>3. CASE OnCycle
  <2>1. CASE CycleFailed \/ LatchControl
    <3>1. TypeOK'
      BY <1>1, <2>1, WriteType DEF CycleFailed, LatchControl, DropControl, TypeInv, Words
    <3> QED
      BY <2>1, <3>1 DEF CycleFailed, LatchControl, TypeInv
  <2>2. CASE Judge \/ LatchDisable \/ LatchFault \/ ReportFault
    <3>1. TypeOK'
      BY <2>2 DEF Judge, LatchDisable, LatchFault, FaultStored, ReportFault, TypeInv, TypeOK, FlagsOK
    <3> QED
      BY <2>2, <3>1 DEF Judge, LatchDisable, LatchFault, FaultStored, ReportFault, TypeInv
  <2>3. CASE Return
    <3>1. TypeOK'
      BY <2>3, OwnerType DEF Return, TypeInv
    <3> QED
      BY <2>3, <3>1 DEF Return, TypeInv
  <2> QED
    BY <1>3, <2>1, <2>2, <2>3 DEF OnCycle
<1>4. CASE /\ Cycle(Telegram, health # "down")
           /\ UNCHANGED <<flags, kpc, cmdVars, driveVars>>
  <2>1. Telegram \in Telegrams
    BY DEF TypeInv, Telegram, Telegrams
  <2>2. TypeOK'
    BY <1>1, <1>4, <2>1, CycleType DEF TypeInv
  <2> QED
    BY <1>4, <2>2 DEF TypeInv
<1>5. ASSUME NEW a, NEW c \in Labels, NEW t \in Tags, NEW v \in Words \cup Positions,
             Stage(a, c, t, v)
      PROVE  TypeInv'
  <2>1. TypeOK'
    BY <1>1, <1>5, WriteType DEF Stage, TypeInv
  <2> QED
    BY <1>5, <2>1 DEF Stage, At, TypeInv
<1>6. ASSUME NEW a, NEW c \in Labels, Branch(a, c) PROVE TypeInv'
  <2>1. TypeOK'
    BY <1>6 DEF Branch, TypeInv, TypeOK, FlagsOK
  <2> QED
    BY <1>6, <2>1 DEF Branch, At, TypeInv
<1>7. CASE AwaitData \/ CheckDrive \/ WaitMode \/ WaitTorque \/ WaitFollow \/ WaitStill
  BY <1>6, <1>7 DEF AwaitData, CheckDrive, WaitMode, WaitTorque, WaitFollow,
                    WaitStill, WaitFor, Labels, Resting
<1>8. CASE WriteSetpoint \/ Halt \/ IfEnabled \/ IfOnline \/ Confirm
  BY <1>6, <1>8 DEF WriteSetpoint, Halt, IfEnabled, IfOnline, Confirm, Labels, Resting
<1>9. CASE SetMode \/ DriveOn \/ DriveStart \/ AbortEnable \/ DriveHalt \/ TorqueOff
  BY <1>1, <1>5, <1>9 DEF SetMode, DriveOn, DriveStart, AbortEnable, DriveHalt,
                          TorqueOff, Labels, Words
<1>10. CASE Park \/ Repark
  BY <1>1, <1>2, <1>5, <1>10 DEF Park, Repark, Labels
<1>11. CASE MoveHold
  <2>1. (IF target = "none" THEN inputs.position ELSE target) \in Positions
    BY <1>2 DEF TypeInv
  <2> QED
    BY <1>1, <1>5, <1>11, <2>1 DEF MoveHold, Labels, Resting
<1>12. CASE MoveTarget
  <2>1. PICK p \in Positions : Write("target", p) /\ target' = p
    BY <1>12 DEF MoveTarget
  <2>2. TypeOK'
    BY <1>1, <2>1, WriteType DEF TypeInv
  <2> QED
    BY <1>12, <2>1, <2>2 DEF MoveTarget, At, TypeInv, Labels, Resting
<1>13. CASE ForgetFault \/ SetEnabled \/ GiveUp \/ ClearEnabled \/ WaitOff \/ DropTarget
  <2>1. TypeOK'
    BY <1>13 DEF ForgetFault, SetEnabled, GiveUp, ClearEnabled, WaitOff, ConfirmedIf,
                 DropTarget, TypeInv, TypeOK, FlagsOK
  <2>2. CASE ForgetFault \/ SetEnabled \/ GiveUp \/ ClearEnabled
    BY <2>1, <2>2 DEF ForgetFault, SetEnabled, GiveUp, ClearEnabled, At, TypeInv, Labels
  <2>3. CASE WaitOff \/ DropTarget
    <3>1. confirmed' \in BOOLEAN
      BY <2>3 DEF WaitOff, ConfirmedIf, DropTarget
    <3> QED
      BY <2>1, <2>3, <3>1 DEF WaitOff, ConfirmedIf, DropTarget, At, TypeInv, Labels
  <2> QED
    BY <1>13, <2>2, <2>3
<1>14. CASE StopDriver
  <2>1. CASE Branch("stop", "idle")
    BY <1>6, <2>1 DEF Labels, Resting
  <2>2. CASE At("stop", "join") /\ Stop /\ UNCHANGED <<flags, kpc, target, confirmed, driveVars>>
    <3>1. TypeOK'
      BY <2>2, OwnerType DEF TypeInv
    <3> QED
      BY <2>2, <3>1 DEF At, TypeInv, Labels, Resting
  <2> QED
    BY <1>14, <2>1, <2>2 DEF StopDriver
<1>15. CASE StartDriver \/ JoinDriver
  <2>1. TypeOK'
    BY <1>15, OwnerType DEF StartDriver, JoinDriver, TypeInv
  <2> QED
    BY <1>15, <2>1 DEF StartDriver, JoinDriver, At, TypeInv, Labels, Resting
<1>16. CASE Gateway
  <2>1. TypeOK'
    BY <1>16, OwnerType DEF Gateway, TypeInv
  <2> QED
    BY <1>16, <2>1 DEF Gateway, TypeInv
<1>17. CASE Plant \/ UNCHANGED vars
  <2>1. sentControl \in Words /\ sentTarget \in Values
    BY TagsApart DEF BaseInv, WordsInv, sentTarget, TypeInv, TypeOK
  <2>2. UNCHANGED <<mgateVars, flags, kpc, apc, target, confirmed>>
    BY <1>17 DEF Plant, DriveObeys, AxisMoves, DriveFails, DriveRepaired, vars
  <2>3. TypeOK'
    BY <2>2 DEF TypeInv, TypeOK, FlagsOK
  <2>4. applied' \in Words /\ position' \in Positions /\ health' \in {"ok", "error", "down"}
    BY <1>17, <2>1 DEF Plant, DriveObeys, AxisMoves, DriveFails, DriveRepaired, vars,
                       TypeInv, Words
  <2> QED
    BY <2>2, <2>3, <2>4 DEF TypeInv
<1> QED
  BY <1>3, <1>4, <1>7, <1>8, <1>9, <1>10, <1>11, <1>12, <1>13, <1>14, <1>15, <1>16, <1>17
     DEF Next, PollStep, CommandStep, Commands, Enable, Disable
-----------------------------------------------------------------------------
(* The other steps, in the same terms. *)

AxisFrame   == UNCHANGED <<applied, position, health>>
ThreadFrame == UNCHANGED <<enabled, fault, reported, confirmed, apc>>

Poll(from, to) == ppc = from /\ ppc' = to

\* A step of a cycle that exchanges nothing with the gateway.
Prepares ==
  /\ UNCHANGED <<sentControl, sentTarget, inputs>>
  /\ \/ /\ Poll("top", "connect") /\ running
        /\ UNCHANGED <<online, have_data, connected, ok>>
     \/ /\ Poll("top", "exited") /\ ~running /\ ~online' /\ ~have_data'
        /\ UNCHANGED <<connected, ok>>
     \/ /\ Poll("connect", "span")
        /\ \/ connected # "no" /\ UNCHANGED connected
           \/ connected = "no" /\ connected' = "yes"
        /\ UNCHANGED <<online, have_data, ok>>
     \/ /\ Poll("connect", "callback") /\ connected = "no" /\ connected' = "no"
        /\ ~online' /\ ~have_data' /\ ~ok'
     \/ /\ Poll("span", "copy") \/ Poll("clear", "read")
        /\ UNCHANGED <<online, have_data, connected, ok>>
     \/ /\ Poll("copy", "wire") /\ regControl' = control /\ regTarget' = outTarget
        /\ UNCHANGED <<online, have_data, connected, ok>>

\* One that does, or fails to.
Exchanges ==
  \/ /\ ppc = "wire" /\ ppc' \in {"wire", "clear"} /\ connected = "yes"
     /\ sentControl' = regControl /\ sentTarget' = regTarget
     /\ UNCHANGED <<regControl, regTarget, inputs, online, have_data, connected, ok>>
  \/ /\ Poll("read", "read_status") /\ connected = "yes" /\ have_data'
     /\ inputs' = Telegram
     /\ UNCHANGED <<sentControl, sentTarget, online, connected, ok>>
  \/ /\ Poll("read_status", "callback") /\ connected = "yes" /\ online' /\ ok'
     /\ UNCHANGED <<sentControl, sentTarget, inputs, have_data, connected>>
  \/ /\ ppc \in {"wire", "read", "read_status"} /\ ppc' = "callback"
     /\ connected' \in {"no", connected} /\ ~online' /\ ~ok'
     /\ \/ UNCHANGED <<sentControl, sentTarget>>
        \/ /\ ppc = "wire" /\ connected = "yes"
           /\ sentControl' = regControl /\ sentTarget' = regTarget
     /\ UNCHANGED <<inputs, have_data>>

CycleMoves ==
  /\ Prepares \/ Exchanges
  /\ UNCHANGED <<control, outTarget, running, kpc>> /\ ThreadFrame /\ AxisFrame

\* A step of on_cycle().
CallbackMoves ==
  /\ \/ /\ kpc = "idle" /\ kpc' = "check" /\ ppc = "callback" /\ ~ok /\ control' = "off"
        /\ UNCHANGED <<enabled, fault, reported, ppc>>
     \/ /\ kpc \in {"idle", "check"} /\ kpc' \in {"control", "return"} /\ ppc = "callback"
        /\ kpc = IF ok THEN "idle" ELSE "check"
        /\ kpc' = "control" => enabled
        /\ kpc' = "return" /\ enabled => ok /\ online
        /\ UNCHANGED <<control, enabled, fault, reported, ppc>>
     \/ /\ kpc = "control" /\ kpc' = "disable" /\ control' = "off"
        /\ UNCHANGED <<enabled, fault, reported, ppc>>
     \/ /\ kpc = "disable" /\ kpc' = "fault" /\ enabled' = FALSE
        /\ UNCHANGED <<control, fault, reported, ppc>>
     \/ /\ kpc = "fault" /\ kpc' = (IF fault THEN "return" ELSE "report") /\ fault' = TRUE
        /\ UNCHANGED <<control, enabled, reported, ppc>>
     \/ /\ kpc = "report" /\ kpc' = "return" /\ reported' = TRUE
        /\ UNCHANGED <<control, enabled, fault, ppc>>
     \/ /\ kpc = "return" /\ kpc' = "idle" /\ ppc = "callback" /\ ppc' = "top"
        /\ Prompt => Settled
        /\ UNCHANGED <<control, enabled, fault, reported>>
  /\ UNCHANGED <<outTarget, regControl, regTarget, sentControl, sentTarget, running,
                 online, have_data, connected, ok, inputs, apc, confirmed, lo, hi, sent>>
  /\ AxisFrame

\* The gateway's outputs are cleared, or the drive obeys, moves, fails or is repaired.
PlantMoves ==
  /\ UNCHANGED <<control, outTarget, regControl, regTarget, running, online, have_data,
                 ppc, kpc, ok, inputs, lo, hi, sent>>
  /\ ThreadFrame
  /\ \/ /\ sentControl' = "off"
        /\ connected' = (IF connected = "yes" THEN "broken" ELSE connected) /\ AxisFrame
     \/ /\ UNCHANGED <<sentControl, sentTarget, connected>>
        /\ \/ health = "ok" /\ applied' = sentControl /\ UNCHANGED <<position, health>>
           \/ /\ \/ applied = "RUN" /\ position' = sentTarget
                 \/ applied \notin Torque
              /\ UNCHANGED <<applied, health>>
           \/ applied' = "off" /\ health' # "ok" /\ UNCHANGED position
           \/ sentControl \notin Torque /\ health' = "ok" /\ UNCHANGED <<applied, position>>

\* Inputs and locals that a command leaves alone.
CommandFrame ==
  /\ UNCHANGED <<kpc, ok, inputs, regControl, regTarget, sentControl, sentTarget,
                 lo, hi, sent>>
  /\ AxisFrame

view == <<control, outTarget, regControl, regTarget, sentControl, sentTarget, running,
          online, have_data, connected, ppc, kpc, ok, inputs, lo, hi, sent,
          enabled, fault, reported, confirmed, apc, applied, position, health>>

\* A cycle takes both tags from the image to the registers and, in the first
\* transaction of the flush, to the gateway.
LEMMA CycleView ==
  ASSUME BaseInv, Cycle(Telegram, health # "down"), UNCHANGED <<flags, kpc, cmdVars, driveVars>>
  PROVE  CycleMoves
<1> USE Frames DEF Poll, ownVars, flushVars, readVars, cmdVars, driveVars, flags
<1>1. SUFFICES Prepares \/ Exchanges
  <2>1. out' = out /\ running' = running
    BY DEF Cycle, Loop, LeaveLoop, Connected, LockSpan, StoreRegs, ClearDirty, Connect,
           ConnectFails, WriteRegisters, ReadInputs, ReadStatus, TransactionFails
  <2> QED
    BY <2>1 DEF CycleMoves, ThreadFrame, AxisFrame
<1>2. CASE Loop \/ Connected \/ Connect
  <2>1. image' = image /\ inputs' = inputs
    BY <1>2 DEF Loop, LeaveLoop, Connected, Connect
  <2>2. CASE Loop
    BY <2>1, <2>2 DEF Loop, LeaveLoop, Prepares
  <2>3. CASE Connected \/ Connect
    BY <2>1, <2>3 DEF Connected, Connect, Prepares, BaseInv, TypeInv, TypeOK
  <2> QED
    BY <1>2, <2>2, <2>3
<1>3. CASE ConnectFails \/ LockSpan \/ ClearDirty
  <2>1. CASE ConnectFails
    BY <2>1 DEF ConnectFails, Prepares
  <2>2. CASE LockSpan \/ ClearDirty
    BY <2>2, IndraAssumption DEF LockSpan, ClearDirty, Prepares
  <2> QED
    BY <1>3, <2>1, <2>2
<1>4. CASE StoreRegs
  <2>1. regControl' = control /\ regTarget' = outTarget
    <3>1. lo = 0 /\ hi = 2 * WordCount /\ TypeOK
      BY <1>4 DEF StoreRegs, BaseInv, WordsInv, TypeInv
    <3> QED
      BY <1>4, <3>1, CopyStep, TagsApart DEF regControl, regTarget, control, outTarget
  <2> QED
    BY <1>4, <2>1 DEF StoreRegs, Prepares
<1>5. ASSUME ppc = "wire", connected = "yes", ChunkDelivered
      PROVE  sentControl' = regControl /\ sentTarget' = regTarget
  <2>1. TypeOK /\ hi = 2 * WordCount
    BY <1>5 DEF BaseInv, WordsInv, TypeInv
  <2>2. sent \in Nat /\ MaxWriteRegs \in Nat \ {0} /\ WordCount \in Nat
    BY <2>1, MGateAssumption DEF TypeOK
  <2>3. \A b \in Bytes : image'[b] = IF 2 * sent <= b /\ b < 2 * ChunkEnd
                                    THEN regs[b] ELSE image[b]
    BY <1>5, <2>1, ChunkStep
  <2>4. CASE sent = 0
    <3>1. ChunkEnd = SmallerOf(MaxWriteRegs, WordCount)
      BY <1>5, <2>1, <2>2, <2>4, ChunkStep
    <3>2. \A b \in Bytes : b < 2 * MaxWriteRegs => 2 * sent <= b /\ b < 2 * ChunkEnd
      BY <2>2, <2>4, <3>1 DEF Bytes, SmallerOf
    <3> QED
      BY <2>3, <3>2, TagsApart DEF sentControl, sentTarget, regControl, regTarget
  <2>5. CASE sent # 0
    <3>1. sentControl = regControl /\ sentTarget = regTarget
      BY <1>5, <2>5 DEF BaseInv, WordsInv
    <3> QED
      BY <2>3, <3>1, TagsApart DEF sentControl, sentTarget, regControl, regTarget
  <2> QED
    BY <2>4, <2>5
<1>6. CASE WriteRegisters
  BY <1>5, <1>6 DEF WriteRegisters, Exchanges
<1>7. CASE ReadInputs(Telegram) \/ ReadStatus(health # "down")
  BY <1>7 DEF ReadInputs, ReadStatus, Exchanges
<1>8. CASE TransactionFails
  BY <1>5, <1>8 DEF TransactionFails, Exchanges
<1> QED
  BY <1>2, <1>3, <1>4, <1>6, <1>7, <1>8 DEF Cycle

\* on_cycle() only ever takes the control word back.
LEMMA CallbackView ==
  ASSUME BaseInv, OnCycle PROVE CallbackMoves
<1> USE Frames DEF ownVars, flushVars, readVars, cmdVars, driveVars, flags, mgateVars, AxisFrame
<1>1. CASE CycleFailed \/ LatchControl
  <2>1. control' = "off" /\ outTarget' = outTarget /\ LinkFrame /\ OwnFrame
    BY <1>1, WriteControl DEF CycleFailed, LatchControl, DropControl
  <2> QED
    BY <1>1, <2>1 DEF CycleFailed, LatchControl, LinkFrame, OwnFrame, CallbackMoves
<1>2. CASE Judge
  <2>1. kpc \in {"idle", "check"} /\ kpc' \in {"control", "return"}
    BY <1>2 DEF Judge
  <2>2. kpc' = "control" => enabled
    BY <1>2 DEF Judge
  <2>3. kpc' = "return" /\ enabled => ok /\ online
    BY <1>2 DEF Judge, Alarm, slave_live
  <2> QED
    BY <1>2, <2>1, <2>2, <2>3 DEF Judge, CallbackMoves
<1>3. CASE LatchDisable \/ ReportFault
  BY <1>3 DEF LatchDisable, ReportFault, CallbackMoves
<1>4. CASE LatchFault
  BY <1>4 DEF LatchFault, FaultStored, CallbackMoves
<1>5. CASE Return
  BY <1>5 DEF Return, NextCycle, CallbackMoves
<1> QED
  BY <1>1, <1>2, <1>3, <1>4, <1>5 DEF OnCycle

\* What the gateway and the drive do by themselves.
LEMMA PlantView ==
  ASSUME BaseInv, Gateway \/ Plant PROVE PlantMoves
<1> USE Frames DEF ownVars, flushVars, readVars, cmdVars, driveVars, flags, mgateVars, rest,
                   AxisFrame, ThreadFrame
<1>1. CASE Gateway
  <2>1. sentControl' = "off"
    BY <1>1, TagsApart, IndraAssumption DEF Gateway, GatewayRestarts, Blank, sentControl
  <2> QED
    BY <1>1, <2>1 DEF Gateway, GatewayRestarts, PlantMoves
<1>2. CASE Plant
  BY <1>2 DEF Plant, DriveObeys, AxisMoves, DriveFails, DriveRepaired, PlantMoves
<1> QED
  BY <1>1, <1>2

\* Every step, in these terms.
LEMMA StepView ==
  ASSUME BaseInv, [Next]_vars
  PROVE  \/ CommandMoves /\ CommandFrame
         \/ CycleMoves \/ CallbackMoves \/ PlantMoves
         \/ UNCHANGED view
<1>1. CASE CommandStep \/ Commands
  <2>1. CommandFrame
    BY <1>1, CommandView, Frames DEF CommandFrame, AxisFrame
  <2> QED
    BY <1>1, <2>1, CommandView
<1>2. CASE UNCHANGED vars
  <2>1. UNCHANGED <<out, regs, image>>
    BY <1>2 DEF vars, mgateVars, ownVars, flushVars
  <2> QED
    BY <1>2, <2>1, Frames DEF vars, mgateVars, ownVars, flushVars, readVars, cmdVars, driveVars, view
<1> QED
  BY <1>1, <1>2, CycleView, CallbackView, PlantView DEF Next, PollStep

\* The copies stay words, and the first transaction of a flush carries both tags.
LEMMA WordsStep ==
  ASSUME BaseInv, [Next]_vars PROVE WordsInv'
<1> USE DEF BaseInv, WordsInv
<1>1. CASE CommandMoves /\ CommandFrame
  BY <1>1 DEF CommandMoves, CommandFrame, Decides, SetsControl, SetsTarget, SetsFlag,
              Switches, LinkFrame, Words, Go
<1>2. CASE CallbackMoves
  BY <1>2 DEF CallbackMoves, Words
<1>3. CASE PlantMoves
  BY <1>3 DEF PlantMoves, Words
<1>4. CASE /\ Cycle(Telegram, health # "down")
           /\ UNCHANGED <<flags, kpc, cmdVars, driveVars>>
  <2> USE Frames DEF ownVars, flushVars
  <2>1. CycleMoves
    BY <1>4, CycleView
  <2>2. TypeOK /\ MaxWriteRegs \in Nat \ {0} /\ sent \in Nat /\ (hi = 2 * WordCount => LastWord = WordCount)
    BY MGateAssumption, SpanWords DEF TypeInv, TypeOK, LastWord
  <2>3. LocalsEnd => regControl' \in Words
    BY TagsApart, IndraAssumption DEF LocalsEnd, Blank, regControl, Words
  <2>4. regControl' \in Words
    <3>1. CASE StoreRegs
      BY <2>1, <3>1 DEF StoreRegs, CycleMoves, Prepares, Exchanges, Poll
    <3>2. CASE ~StoreRegs
      BY <1>4, <2>3, <3>2 DEF Cycle, Loop, LeaveLoop, Connected, LockSpan, ClearDirty, Connect,
           ConnectFails, WriteRegisters, ReadInputs, ReadStatus, TransactionFails
    <3> QED
      BY <3>1, <3>2
  <2>5. control' \in Words /\ sentControl' \in Words
    BY <2>1 DEF CycleMoves, Prepares, Exchanges
  <2>6. ppc' \in {"copy", "wire", "clear"} => lo' = 0 /\ hi' = 2 * WordCount
    BY <1>4, IndraAssumption DEF Cycle, Loop, LeaveLoop, Connected, LockSpan, StoreRegs,
         ClearDirty, Connect, ConnectFails, WriteRegisters, ReadInputs, ReadStatus, TransactionFails
  <2>7. CASE WriteRegisters
    <3>1. ppc' = "wire" => ChunkEnd = sent + MaxWriteRegs
      BY <2>2, <2>7 DEF WriteRegisters, ChunkEnd, SmallerOf
    <3>2. ppc' = "wire" => sent' = 0 \/ sent' >= MaxWriteRegs
      BY <2>2, <2>7, <3>1 DEF WriteRegisters
    <3>3. sentControl' = regControl' /\ sentTarget' = regTarget'
      BY <2>1, <2>7 DEF WriteRegisters, CycleMoves, Prepares, Exchanges, Poll
    <3> QED
      BY <2>4, <2>5, <2>6, <3>2, <3>3
  <2>8. CASE StoreRegs
    <3>1. sent' = 0
      BY <2>2, <2>8, CopyStep DEF StoreRegs
    <3> QED
      BY <2>4, <2>5, <2>6, <3>1
  <2>9. CASE ~WriteRegisters /\ ~StoreRegs
    <3>1. ppc' # "wire"
      BY <1>4, <2>9 DEF Cycle, Loop, LeaveLoop, Connected, LockSpan, ClearDirty, Connect,
           ConnectFails, ReadInputs, ReadStatus, TransactionFails
    <3> QED
      BY <2>4, <2>5, <2>6, <3>1
  <2> QED
    BY <2>7, <2>8, <2>9
<1>5. CASE UNCHANGED view
  BY <1>5 DEF view
<1> QED
  <2>1. CASE OnCycle \/ Gateway \/ Plant
    BY <2>1, <1>2, <1>3, CallbackView, PlantView
  <2>2. CASE CommandStep \/ Commands
    <3>1. CommandFrame
      BY <2>2, CommandView, Frames DEF CommandFrame, AxisFrame
    <3> QED
      BY <2>2, <3>1, <1>1, CommandView
  <2>3. CASE UNCHANGED vars
    BY <2>3, Frames DEF vars, mgateVars, ownVars, flushVars, readVars
  <2> QED
    BY <1>4, <2>1, <2>2, <2>3 DEF Next, PollStep
-----------------------------------------------------------------------------
(* The two threads. *)

\* Where the command thread is: before it has asked for torque, while torque comes
\* up, while the axis may move, and while disable() stops it.
Early   == {"data", "check", "reset", "park", "mode", "w_mode", "enabled"}
Rising  == {"w_torque", "repark", "run", "w_follow"}
Moving  == {"idle", "set", "hold", "d_enabled"}
Halting == {"d_online", "d_halt", "w_still", "d_clear"}

\* The poll thread lives between start() and the join; torque is asked for, and the
\* drive counts as enabled, only in between.
ThreadInv ==
  /\ kpc # "idle" => ppc = "callback"
  /\ ppc = "callback" => (online <=> ok)
  /\ connected = "no" => ~online
  /\ ppc = "off" => connected = "no"
  /\ ppc \in {"off", "exited"} => ~running /\ ~online /\ ~have_data
  /\ ~running /\ apc # "join" => ppc = "off"
  /\ ~running => apc \in {"idle", "d_enabled", "d_clear", "d_off", "d_confirm", "stop", "join"}
  /\ apc = "join" => ~running
  /\ enabled => running /\ apc \in {"on", "give_up"} \cup Rising \cup Moving \cup Halting
  /\ control \in Torque =>
       running /\ apc \in {"give_up", "abort", "d_off"} \cup Rising \cup Moving \cup Halting

\* enable() does not run while a fault is being latched, so it cannot undo half of it.
LatchInv ==
  /\ kpc \in {"control", "disable", "fault", "report"} => apc \notin Early
  /\ kpc = "fault" => ~enabled
  /\ kpc = "report" => fault
  /\ FaultIsReported


\* Every step preserves ThreadInv.
LEMMA ThreadStep ==
  ASSUME BaseInv, ThreadInv, [Next]_vars PROVE ThreadInv'
<1> USE DEF ThreadInv, Early, Rising, Moving, Halting, Torque
<1>0. /\ enabled \in BOOLEAN /\ running \in BOOLEAN /\ online \in BOOLEAN /\ ok \in BOOLEAN
  BY DEF BaseInv, TypeInv, TypeOK, FlagsOK
<1>1. CASE CommandMoves /\ CommandFrame
  <2> USE <1>1 DEF CommandFrame, LinkFrame, Go
  <2>1. CASE Decides
    BY <2>1 DEF Decides
  <2>2. CASE SetsControl \/ SetsTarget
    BY <2>2 DEF SetsControl, SetsTarget
  <2>3. CASE SetsFlag
    BY <2>3 DEF SetsFlag
  <2>4. CASE Switches
    BY <2>4 DEF Switches
  <2> QED
    BY <2>1, <2>2, <2>3, <2>4 DEF CommandMoves
<1>2. CASE CycleMoves
  <2> USE <1>2 DEF CycleMoves, ThreadFrame
  <2>1. CASE Prepares
    BY <2>1 DEF Prepares, Poll
  <2>2. CASE Exchanges
    BY <2>2 DEF Exchanges, Poll
  <2> QED
    BY <2>1, <2>2
<1>3. CASE CallbackMoves
  BY <1>3 DEF CallbackMoves
<1>4. CASE PlantMoves \/ UNCHANGED view
  BY <1>4 DEF PlantMoves, ThreadFrame, view
<1> QED
  BY <1>1, <1>2, <1>3, <1>4, StepView

\* Every step preserves LatchInv.
LEMMA LatchStep ==
  ASSUME BaseInv, ThreadInv, LatchInv, [Next]_vars PROVE LatchInv'
<1> USE DEF ThreadInv, LatchInv, FaultIsReported, Early, Rising, Moving, Halting
<1>1. CASE CommandMoves /\ CommandFrame
  <2> USE <1>1 DEF CommandFrame, LinkFrame, Go
  <2>1. CASE Decides
    BY <2>1 DEF Decides
  <2>2. CASE SetsControl \/ SetsTarget
    BY <2>2 DEF SetsControl, SetsTarget
  <2>3. CASE SetsFlag
    BY <2>3 DEF SetsFlag
  <2>4. CASE Switches
    BY <2>4 DEF Switches
  <2> QED
    BY <2>1, <2>2, <2>3, <2>4 DEF CommandMoves
<1>2. CASE CycleMoves
  BY <1>2 DEF CycleMoves, ThreadFrame
<1>3. CASE CallbackMoves
  BY <1>3 DEF CallbackMoves
<1>4. CASE PlantMoves \/ UNCHANGED view
  BY <1>4 DEF PlantMoves, ThreadFrame, view
<1> QED
  BY <1>1, <1>2, <1>3, <1>4, StepView

\* The invariant of the threads, and what it needs.
IInv == BaseInv /\ ThreadInv /\ LatchInv

\* It holds initially, and every step preserves it.
LEMMA InitBase == Init => IInv
<1> SUFFICES ASSUME Init PROVE IInv
  OBVIOUS
<1> USE DEF Init, InitWith
<1>1. Blank \in [Bytes -> Values] /\ Zero = "off" /\ WordCount \in Nat
  BY MGateAssumption, IndraAssumption DEF Blank
<1>2. control = "off" /\ regControl = "off" /\ sentControl = "off"
  BY <1>1, TagsApart DEF Blank, control, regControl, sentControl
<1>3. inputs \in Inputs /\ status \in Statuses
  BY IndraAssumption DEF Telegrams, Words
<1>4. TypeOK
  <2>1. 0 \in 0 .. 2 * WordCount /\ 0 \in 0 .. WordCount
    BY <1>1
  <2>2. {dirty_lo, dirty_hi, lo, hi} \subseteq 0 .. 2 * WordCount
    BY <2>1
  <2> QED
    BY <1>1, <1>3, <2>1, <2>2 DEF TypeOK, FlagsOK
<1>5. TypeInv
  BY <1>4 DEF TypeInv, Labels, Resting, Words
<1>6. WordsInv
  BY <1>2 DEF WordsInv, Words
<1> QED
  BY <1>2, <1>5, <1>6 DEF IInv, BaseInv, ThreadInv, LatchInv, FaultIsReported, Torque, Early

LEMMA StepBase == IInv /\ [Next]_vars => IInv'
BY TypeStep, WordsStep, ThreadStep, LatchStep DEF IInv, BaseInv

LEMMA AlwaysBase == Spec => []IInv
BY InitBase, StepBase, PTL DEF Spec

\* Every variable of the two threads, the gateway and the drive keeps its type: what
\* the driver, the actuator and the drive hand each other is a word or a position.
THEOREM TypeCorrect == Spec => []TypeInv
<1>1. IInv => TypeInv
  BY DEF IInv, BaseInv
<1> QED
  BY <1>1, AlwaysBase, PTL

\* latch_fault() calls fault_callback_ for every fault it makes visible, whatever
\* enable() and disable() do meanwhile.
THEOREM FaultsAreReported == Spec => []FaultIsReported
<1>1. IInv => FaultIsReported
  BY DEF IInv, LatchInv
<1> QED
  BY <1>1, AlwaysBase, PTL
-----------------------------------------------------------------------------
(* A prompt command thread: reconnecting, and faults. *)

\* Between two cycles of a lost link torque is neither requested nor about to be.
\* While a failed cycle is being handled the drive is not to be moved.
OfflineInv ==
  /\ ~online /\ ppc # "callback" =>
       /\ control \notin Torque /\ ~enabled
       /\ apc \notin {"enabled", "on", "repark", "run", "d_halt"}
  /\ ~ok /\ ppc = "callback" /\ kpc # "idle" /\ apc \in {"idle", "set", "hold"} =>
       control \notin Torque /\ (kpc \in {"fault", "report", "return"} => ~enabled)

\* A new connection clears what an earlier one left in the gateway and the drive,
\* before enable() begins.
DataInv ==
  apc = "data" =>
    /\ ppc = "wire" => regControl \notin Torque
    /\ have_data \/ ppc \in {"clear", "read", "read_status"} => sentControl \notin Torque
    /\ have_data /\ inputs.word \notin Torque => applied \notin Torque
CleanInv ==
  apc \in (Early \ {"data"}) \cup {"on"} =>
    /\ ppc = "wire" => regControl \notin Torque
    /\ sentControl \notin Torque /\ applied \notin Torque /\ inputs.word \notin Torque
BeforeRun ==
  apc \in {"w_torque", "repark", "run"} =>
    /\ ppc = "wire" => regControl # "RUN"
    /\ "RUN" \notin {control, sentControl, applied, inputs.word}

\* While a fault is being latched, and after, a command that has ended has not
\* left torque requested.
Dropping == kpc \in {"disable", "fault"}
FaultInv ==
  /\ Dropping /\ apc \in Moving => control \notin Torque
  /\ Dropping /\ apc = "w_follow" /\ control \in Torque => inputs.word # "RUN"
  /\ fault /\ apc \in Moving => control \notin Torque

\* Return waits for the command thread, so a link that is lost is found lost by it.
LEMMA OfflineStep ==
  ASSUME Prompt, IInv, OfflineInv, [Next]_vars PROVE OfflineInv'
<1> USE DEF IInv, ThreadInv, LatchInv, OfflineInv, Settled, Resting, Early, Rising, Moving, Halting, Torque
<1>1. CASE CommandMoves /\ CommandFrame
  <2> USE <1>1 DEF CommandFrame, LinkFrame, AxisFrame, Go
  <2>1. CASE Decides
    BY <2>1 DEF Decides
  <2>2. CASE SetsControl \/ SetsTarget
    BY <2>2 DEF SetsControl, SetsTarget
  <2>3. CASE SetsFlag
    BY <2>3 DEF SetsFlag
  <2>4. CASE Switches
    BY <2>4 DEF Switches
  <2> QED
    BY <2>1, <2>2, <2>3, <2>4 DEF CommandMoves
<1>2. CASE CycleMoves
  <2> USE <1>2 DEF CycleMoves, ThreadFrame, AxisFrame, Poll
  <2>1. CASE Prepares
    BY <2>1 DEF Prepares
  <2>2. CASE Exchanges
    BY <2>2 DEF Exchanges, Telegram
  <2> QED
    BY <2>1, <2>2
<1>3. CASE CallbackMoves
  BY <1>3 DEF CallbackMoves, AxisFrame
<1>4. CASE PlantMoves \/ UNCHANGED view
  BY <1>4 DEF PlantMoves, ThreadFrame, AxisFrame, view
<1> QED
  BY <1>1, <1>2, <1>3, <1>4, StepView DEF IInv

\* The first flush of a connection carries a word without torque.
LEMMA DataStep ==
  ASSUME Prompt, IInv, DataInv, [Next]_vars PROVE DataInv'
<1> USE DEF IInv, ThreadInv, DataInv, Early, Rising, Moving, Halting, Torque
<1>1. CASE CommandMoves /\ CommandFrame
  <2> USE <1>1 DEF CommandFrame, LinkFrame, AxisFrame, Go
  <2>1. CASE Decides
    BY <2>1 DEF Decides
  <2>2. CASE SetsControl \/ SetsTarget
    BY <2>2 DEF SetsControl, SetsTarget
  <2>3. CASE SetsFlag
    BY <2>3 DEF SetsFlag
  <2>4. CASE Switches
    BY <2>4 DEF Switches
  <2> QED
    BY <2>1, <2>2, <2>3, <2>4 DEF CommandMoves
<1>2. CASE CycleMoves
  <2> USE <1>2 DEF CycleMoves, ThreadFrame, AxisFrame, Poll
  <2>1. CASE Prepares
    BY <2>1 DEF Prepares
  <2>2. CASE Exchanges
    BY <2>2 DEF Exchanges, Telegram
  <2> QED
    BY <2>1, <2>2
<1>3. CASE CallbackMoves
  BY <1>3 DEF CallbackMoves, AxisFrame
<1>4. CASE PlantMoves \/ UNCHANGED view
  BY <1>4 DEF PlantMoves, ThreadFrame, AxisFrame, view
<1> QED
  BY <1>1, <1>2, <1>3, <1>4, StepView DEF IInv

\* start() has waited until the drive shows that it has no torque.
LEMMA CleanStep ==
  ASSUME Prompt, IInv, DataInv, CleanInv, [Next]_vars PROVE CleanInv'
<1> USE DEF IInv, ThreadInv, DataInv, CleanInv, Early, Rising, Moving, Halting, Torque
<1>1. CASE CommandMoves /\ CommandFrame
  <2> USE <1>1 DEF CommandFrame, LinkFrame, AxisFrame, Go
  <2>1. CASE Decides
    BY <2>1 DEF Decides
  <2>2. CASE SetsControl \/ SetsTarget
    BY <2>2 DEF SetsControl, SetsTarget
  <2>3. CASE SetsFlag
    BY <2>3 DEF SetsFlag
  <2>4. CASE Switches
    BY <2>4 DEF Switches
  <2> QED
    BY <2>1, <2>2, <2>3, <2>4 DEF CommandMoves
<1>2. CASE CycleMoves
  <2> USE <1>2 DEF CycleMoves, ThreadFrame, AxisFrame, Poll
  <2>1. CASE Prepares
    BY <2>1 DEF Prepares
  <2>2. CASE Exchanges
    BY <2>2 DEF Exchanges, Telegram
  <2> QED
    BY <2>1, <2>2
<1>3. CASE CallbackMoves
  BY <1>3 DEF CallbackMoves, AxisFrame
<1>4. CASE PlantMoves \/ UNCHANGED view
  BY <1>4 DEF PlantMoves, ThreadFrame, AxisFrame, view
<1> QED
  BY <1>1, <1>2, <1>3, <1>4, StepView DEF IInv

\* Nothing asks for drive start before enable() does.
LEMMA BeforeRunStep ==
  ASSUME IInv, CleanInv, BeforeRun, [Next]_vars PROVE BeforeRun'
<1> USE DEF IInv, ThreadInv, CleanInv, BeforeRun, Early, Rising, Moving, Halting, Torque
<1>1. CASE CommandMoves /\ CommandFrame
  <2> USE <1>1 DEF CommandFrame, LinkFrame, AxisFrame, Go
  <2>1. CASE Decides
    BY <2>1 DEF Decides
  <2>2. CASE SetsControl \/ SetsTarget
    BY <2>2 DEF SetsControl, SetsTarget
  <2>3. CASE SetsFlag
    BY <2>3 DEF SetsFlag
  <2>4. CASE Switches
    BY <2>4 DEF Switches
  <2> QED
    BY <2>1, <2>2, <2>3, <2>4 DEF CommandMoves
<1>2. CASE CycleMoves
  <2> USE <1>2 DEF CycleMoves, ThreadFrame, AxisFrame, Poll
  <2>1. CASE Prepares
    BY <2>1 DEF Prepares
  <2>2. CASE Exchanges
    BY <2>2 DEF Exchanges, Telegram
  <2> QED
    BY <2>1, <2>2
<1>3. CASE CallbackMoves
  BY <1>3 DEF CallbackMoves, AxisFrame
<1>4. CASE PlantMoves \/ UNCHANGED view
  BY <1>4 DEF PlantMoves, ThreadFrame, AxisFrame, view
<1> QED
  BY <1>1, <1>2, <1>3, <1>4, StepView DEF IInv

\* A command that goes on after the word was taken back has not seen the fault, but
\* it has not seen the drive follow either.
LEMMA FaultStep ==
  ASSUME IInv, BeforeRun, FaultInv, [Next]_vars PROVE FaultInv'
<1> USE DEF IInv, ThreadInv, LatchInv, BeforeRun, FaultInv, Dropping, Early, Rising, Moving, Halting, Torque
<1>1. CASE CommandMoves /\ CommandFrame
  <2> USE <1>1 DEF CommandFrame, LinkFrame, AxisFrame, Go
  <2>1. CASE Decides
    BY <2>1 DEF Decides
  <2>2. CASE SetsControl \/ SetsTarget
    BY <2>2 DEF SetsControl, SetsTarget
  <2>3. CASE SetsFlag
    BY <2>3 DEF SetsFlag
  <2>4. CASE Switches
    BY <2>4 DEF Switches
  <2> QED
    BY <2>1, <2>2, <2>3, <2>4 DEF CommandMoves
<1>2. CASE CycleMoves
  <2> USE <1>2 DEF CycleMoves, ThreadFrame, AxisFrame, Poll
  <2>1. CASE Prepares
    BY <2>1 DEF Prepares
  <2>2. CASE Exchanges
    BY <2>2 DEF Exchanges, Telegram
  <2> QED
    BY <2>1, <2>2
<1>3. CASE CallbackMoves
  BY <1>3 DEF CallbackMoves, AxisFrame
<1>4. CASE PlantMoves \/ UNCHANGED view
  BY <1>4 DEF PlantMoves, ThreadFrame, AxisFrame, view
<1> QED
  BY <1>1, <1>2, <1>3, <1>4, StepView DEF IInv
-----------------------------------------------------------------------------
(* A prompt command thread: torque off stays off, and no jump. *)

Up == Moving \cup Halting \cup {"d_off", "d_confirm", "w_off"}

\* Torque requested is torque confirmed: what the gateway sends a healthy drive,
\* the drive obeys.  As long as the connection lasts the gateway goes on sending.
Sound == sentControl \in Torque /\ health = "ok" => applied \in Torque
Held  == Sound /\ (connected = "yes" => sentControl \in Torque)

\* The callback has found a failure of a drive that is being enabled.
Dropped == ppc = "callback" /\ (~online \/ fault \/ Dropping)

RisingInv ==
  /\ apc \in Rising \cup {"on"} => enabled \/ fault \/ kpc = "fault"
  /\ apc \in Rising =>
       /\ control \in Torque \/ Dropped
       /\ ppc = "wire" /\ sentControl \in Torque => regControl \in Torque
       /\ connected = "yes" /\ applied \in Torque => sentControl \in Torque
       /\ apc # "w_torque" \/ inputs.word \in Torque =>
            Held /\ (ppc = "wire" => regControl \in Torque)

UpInv ==
  apc \in Up /\ running =>
    /\ Sound
    /\ ppc = "wire" /\ regControl \in Torque => Held
    /\ online /\ (control \in Torque \/ enabled \/ apc \in {"d_online", "d_halt"}) =>
         Held /\ (ppc = "wire" => regControl \in Torque)
    /\ apc \in {"d_online", "d_halt"} => enabled \/ ppc = "callback"
    /\ enabled /\ online => control \in Torque \/ kpc = "disable"
    /\ (online \/ ppc = "read_status") /\ inputs.word \notin Torque => applied \notin Torque

\* disable() has returned true.
OffInv ==
  confirmed =>
    /\ apc \in {"stop", "join", "idle"} /\ (apc = "idle" => ~running)
    /\ control \notin Torque /\ applied \notin Torque /\ Sound
    /\ ppc = "wire" /\ regControl \in Torque => Held

\* A drive that is told to follow is already following, or is held by torque where
\* the target is: in the gateway, in the registers of a flush, and in the image.
Parked(t) == applied = "ON" /\ t = position
Follows == applied = "RUN" /\ sentControl = "RUN"
SentInv ==
  /\ sentControl = "RUN" /\ health = "ok" => applied = "RUN" \/ Parked(sentTarget)
  /\ health # "ok" => applied = "off"
RegsInv ==
  ppc = "wire" /\ connected = "yes" /\ regControl = "RUN" =>
    /\ sentControl \in Torque
    /\ health = "ok" => Follows \/ Parked(regTarget)
ImageInv ==
  /\ apc = "w_follow" => control = "RUN" \/ Dropped
  /\ connected = "yes" /\ health = "ok" =>
       /\ apc = "repark" \/ (apc = "w_torque" /\ inputs.word \in Torque)
            => Parked(inputs.position)
       /\ apc = "run" => Parked(outTarget)
  /\ connected = "yes" /\ control = "RUN" =>
       /\ sentControl \in Torque
       /\ ppc = "wire" => /\ regControl \in Torque
                          /\ sentControl = "RUN" => regControl = "RUN"
       /\ health = "ok" => Follows \/ Parked(outTarget)
       /\ apc \in Up \/ (apc = "w_follow" /\ inputs.word = "RUN") =>
            sentControl = "RUN" /\ (health = "ok" => applied = "RUN")

PromptInv ==
  /\ IInv /\ OfflineInv /\ DataInv /\ CleanInv /\ BeforeRun /\ FaultInv
  /\ RisingInv /\ UpInv /\ OffInv /\ SentInv /\ RegsInv /\ ImageInv

\* Torque comes up only as the drive confirms it.
LEMMA RisingStep ==
  ASSUME Prompt, PromptInv, [Next]_vars PROVE RisingInv'
<1> USE DEF PromptInv, IInv, ThreadInv, LatchInv, OfflineInv, DataInv, CleanInv, BeforeRun, FaultInv, Dropping, Settled, Resting, Early, Rising, Moving, Halting, Torque, Up, Sound, Held, Dropped, RisingInv, UpInv, OffInv
<1>1. CASE CommandMoves /\ CommandFrame
  <2> USE <1>1 DEF CommandFrame, LinkFrame, AxisFrame, Go
  <2>1. CASE Decides
    BY <2>1 DEF Decides
  <2>2. CASE SetsControl \/ SetsTarget
    BY <2>2 DEF SetsControl, SetsTarget
  <2>3. CASE SetsFlag
    BY <2>3 DEF SetsFlag
  <2>4. CASE Switches
    BY <2>4 DEF Switches
  <2> QED
    BY <2>1, <2>2, <2>3, <2>4 DEF CommandMoves
<1>2. CASE CycleMoves
  <2> USE <1>2 DEF CycleMoves, ThreadFrame, AxisFrame, Poll
  <2>1. CASE Prepares
    BY <2>1 DEF Prepares
  <2>2. CASE Exchanges
    BY <2>2 DEF Exchanges, Telegram
  <2> QED
    BY <2>1, <2>2
<1>3. CASE CallbackMoves
  BY <1>3 DEF CallbackMoves, AxisFrame
<1>4. CASE PlantMoves \/ UNCHANGED view
  BY <1>4 DEF PlantMoves, ThreadFrame, AxisFrame, view
<1> QED
  BY <1>1, <1>2, <1>3, <1>4, StepView

\* It is kept until disable() takes it back, or a fault does.
LEMMA UpStep ==
  ASSUME Prompt, PromptInv, [Next]_vars PROVE UpInv'
<1> USE DEF PromptInv, IInv, ThreadInv, LatchInv, OfflineInv, DataInv, CleanInv, BeforeRun, FaultInv, Dropping, Settled, Resting, Early, Rising, Moving, Halting, Torque, Up, Sound, Held, Dropped, RisingInv, UpInv, OffInv
<1>1. CASE CommandMoves /\ CommandFrame
  <2> USE <1>1 DEF CommandFrame, LinkFrame, AxisFrame, Go
  <2>1. CASE Decides
    BY <2>1 DEF Decides
  <2>2. CASE SetsControl \/ SetsTarget
    <3>1. CASE SetsTarget
      BY <3>1 DEF SetsTarget
    <3>2. CASE SetsControl /\ apc = "d_halt"
      BY <3>2 DEF SetsControl
    <3>3. CASE SetsControl /\ apc = "d_off"
      BY <3>3 DEF SetsControl
    <3>4. CASE SetsControl /\ apc \notin {"d_halt", "d_off"}
      BY <3>4 DEF SetsControl
    <3> QED
      BY <2>2, <3>1, <3>2, <3>3, <3>4
  <2>3. CASE SetsFlag
    BY <2>3 DEF SetsFlag
  <2>4. CASE Switches
    BY <2>4 DEF Switches
  <2> QED
    BY <2>1, <2>2, <2>3, <2>4 DEF CommandMoves
<1>2. CASE CycleMoves
  <2> USE <1>2 DEF CycleMoves, ThreadFrame, AxisFrame, Poll
  <2>1. CASE Prepares
    BY <2>1 DEF Prepares
  <2>2. CASE Exchanges
    BY <2>2 DEF Exchanges, Telegram
  <2> QED
    BY <2>1, <2>2
<1>3. CASE CallbackMoves
  BY <1>3 DEF CallbackMoves, AxisFrame
<1>4. CASE PlantMoves \/ UNCHANGED view
  BY <1>4 DEF PlantMoves, ThreadFrame, AxisFrame, view
<1> QED
  BY <1>1, <1>2, <1>3, <1>4, StepView

\* After the drive has confirmed, nothing that is still to be sent asks for torque.
LEMMA OffStep ==
  ASSUME Prompt, PromptInv, [Next]_vars PROVE OffInv'
<1> USE DEF PromptInv, IInv, ThreadInv, LatchInv, OfflineInv, DataInv, CleanInv, BeforeRun, FaultInv, Dropping, Settled, Resting, Early, Rising, Moving, Halting, Torque, Up, Sound, Held, Dropped, RisingInv, UpInv, OffInv
<1>1. CASE CommandMoves /\ CommandFrame
  <2> USE <1>1 DEF CommandFrame, LinkFrame, AxisFrame, Go
  <2>1. CASE Decides
    BY <2>1 DEF Decides
  <2>2. CASE SetsControl \/ SetsTarget
    BY <2>2 DEF SetsControl, SetsTarget
  <2>3. CASE SetsFlag
    BY <2>3 DEF SetsFlag
  <2>4. CASE Switches
    BY <2>4 DEF Switches
  <2> QED
    BY <2>1, <2>2, <2>3, <2>4 DEF CommandMoves
<1>2. CASE CycleMoves
  <2> USE <1>2 DEF CycleMoves, ThreadFrame, AxisFrame, Poll
  <2>1. CASE Prepares
    BY <2>1 DEF Prepares
  <2>2. CASE Exchanges
    BY <2>2 DEF Exchanges, Telegram
  <2> QED
    BY <2>1, <2>2
<1>3. CASE CallbackMoves
  BY <1>3 DEF CallbackMoves, AxisFrame
<1>4. CASE PlantMoves \/ UNCHANGED view
  BY <1>4 DEF PlantMoves, ThreadFrame, AxisFrame, view
<1> QED
  BY <1>1, <1>2, <1>3, <1>4, StepView

\* No jump from what the gateway holds,
LEMMA SentStep ==
  ASSUME Prompt, PromptInv, [Next]_vars PROVE SentInv'
<1> USE DEF PromptInv, IInv, ThreadInv, LatchInv, OfflineInv, DataInv, CleanInv, BeforeRun, FaultInv, Dropping, Settled, Resting, Early, Rising, Moving, Halting, Torque, Up, Sound, Held, Dropped, RisingInv, UpInv, OffInv, Parked, Follows, SentInv, RegsInv, ImageInv
<1>1. CASE CommandMoves /\ CommandFrame
  <2> USE <1>1 DEF CommandFrame, LinkFrame, AxisFrame, Go
  <2>1. CASE Decides
    BY <2>1 DEF Decides
  <2>2. CASE SetsControl \/ SetsTarget
    BY <2>2 DEF SetsControl, SetsTarget
  <2>3. CASE SetsFlag
    BY <2>3 DEF SetsFlag
  <2>4. CASE Switches
    BY <2>4 DEF Switches
  <2> QED
    BY <2>1, <2>2, <2>3, <2>4 DEF CommandMoves
<1>2. CASE CycleMoves
  <2> USE <1>2 DEF CycleMoves, ThreadFrame, AxisFrame, Poll
  <2>1. CASE Prepares
    BY <2>1 DEF Prepares
  <2>2. CASE Exchanges
    BY <2>2 DEF Exchanges, Telegram
  <2> QED
    BY <2>1, <2>2
<1>3. CASE CallbackMoves
  BY <1>3 DEF CallbackMoves, AxisFrame
<1>4. CASE PlantMoves \/ UNCHANGED view
  BY <1>4 DEF PlantMoves, ThreadFrame, AxisFrame, view
<1> QED
  BY <1>1, <1>2, <1>3, <1>4, StepView

\* from what a flush is about to send,
LEMMA RegsStep ==
  ASSUME Prompt, PromptInv, [Next]_vars PROVE RegsInv'
<1> USE DEF PromptInv, IInv, ThreadInv, LatchInv, OfflineInv, DataInv, CleanInv, BeforeRun, FaultInv, Dropping, Settled, Resting, Early, Rising, Moving, Halting, Torque, Up, Sound, Held, Dropped, RisingInv, UpInv, OffInv, Parked, Follows, SentInv, RegsInv, ImageInv
<1>1. CASE CommandMoves /\ CommandFrame
  <2> USE <1>1 DEF CommandFrame, LinkFrame, AxisFrame, Go
  <2>1. CASE Decides
    BY <2>1 DEF Decides
  <2>2. CASE SetsControl \/ SetsTarget
    BY <2>2 DEF SetsControl, SetsTarget
  <2>3. CASE SetsFlag
    BY <2>3 DEF SetsFlag
  <2>4. CASE Switches
    BY <2>4 DEF Switches
  <2> QED
    BY <2>1, <2>2, <2>3, <2>4 DEF CommandMoves
<1>2. CASE CycleMoves
  <2> USE <1>2 DEF CycleMoves, ThreadFrame, AxisFrame, Poll
  <2>1. CASE Prepares
    BY <2>1 DEF Prepares
  <2>2. CASE Exchanges
    BY <2>2 DEF Exchanges, Telegram
  <2> QED
    BY <2>1, <2>2
<1>3. CASE CallbackMoves
  BY <1>3 DEF CallbackMoves, AxisFrame
<1>4. CASE PlantMoves \/ UNCHANGED view
  BY <1>4 DEF PlantMoves, ThreadFrame, AxisFrame, view
<1> QED
  BY <1>1, <1>2, <1>3, <1>4, StepView

\* or from what a command has staged.
LEMMA ImageStep ==
  ASSUME Prompt, PromptInv, [Next]_vars PROVE ImageInv'
<1> USE DEF PromptInv, IInv, ThreadInv, LatchInv, OfflineInv, DataInv, CleanInv, BeforeRun, FaultInv, Dropping, Settled, Resting, Early, Rising, Moving, Halting, Torque, Up, Sound, Held, Dropped, RisingInv, UpInv, OffInv, Parked, Follows, SentInv, RegsInv, ImageInv
<1>1. CASE CommandMoves /\ CommandFrame
  <2> USE <1>1 DEF CommandFrame, LinkFrame, AxisFrame, Go
  <2>1. CASE Decides
    BY <2>1 DEF Decides
  <2>2. CASE SetsControl \/ SetsTarget
    BY <2>2 DEF SetsControl, SetsTarget
  <2>3. CASE SetsFlag
    BY <2>3 DEF SetsFlag
  <2>4. CASE Switches
    BY <2>4 DEF Switches
  <2> QED
    BY <2>1, <2>2, <2>3, <2>4 DEF CommandMoves
<1>2. CASE CycleMoves
  <2> USE <1>2 DEF CycleMoves, ThreadFrame, AxisFrame, Poll
  <2>1. CASE Prepares
    BY <2>1 DEF Prepares
  <2>2. CASE Exchanges
    BY <2>2 DEF Exchanges, Telegram
  <2> QED
    BY <2>1, <2>2
<1>3. CASE CallbackMoves
  BY <1>3 DEF CallbackMoves, AxisFrame
<1>4. CASE PlantMoves \/ UNCHANGED view
  BY <1>4 DEF PlantMoves, ThreadFrame, AxisFrame, view
<1> QED
  BY <1>1, <1>2, <1>3, <1>4, StepView

\* The invariants hold initially, and with a prompt command thread for ever.
LEMMA InitPrompt == Init => PromptInv
<1> SUFFICES ASSUME Init PROVE PromptInv
  OBVIOUS
<1>1. control = "off" /\ regControl = "off" /\ sentControl = "off"
  BY TagsApart, IndraAssumption DEF Init, InitWith, Blank, control, regControl, sentControl
<1>2. IInv
  BY InitBase
<1>3. OfflineInv /\ DataInv /\ CleanInv /\ BeforeRun /\ FaultInv
  BY <1>1 DEF Init, InitWith, OfflineInv, DataInv, CleanInv, BeforeRun, FaultInv,
              Dropping, Early, Moving, Torque
<1>4. RisingInv /\ UpInv /\ OffInv
  BY <1>1 DEF Init, InitWith, RisingInv, UpInv, OffInv, Rising
<1>5. SentInv /\ RegsInv /\ ImageInv
  BY <1>1 DEF Init, InitWith, SentInv, RegsInv, ImageInv
<1> QED
  BY <1>2, <1>3, <1>4, <1>5 DEF PromptInv

LEMMA AlwaysPrompt == Prompt /\ Spec => []PromptInv
<1>1. CASE Prompt
  <2>1. PromptInv /\ [Next]_vars => PromptInv'
    <3> SUFFICES ASSUME PromptInv, [Next]_vars PROVE PromptInv'
      OBVIOUS
    <3>1. IInv'
      BY StepBase DEF PromptInv
    <3>2. OfflineInv' /\ DataInv' /\ CleanInv' /\ BeforeRun' /\ FaultInv'
      BY <1>1, OfflineStep, DataStep, CleanStep, BeforeRunStep, FaultStep DEF PromptInv
    <3>3. RisingInv' /\ UpInv' /\ OffInv' /\ SentInv' /\ RegsInv' /\ ImageInv'
      BY <1>1, RisingStep, UpStep, OffStep, SentStep, RegsStep, ImageStep
    <3> QED
      BY <3>1, <3>2, <3>3 DEF PromptInv
  <2> QED
    BY <2>1, InitPrompt, PTL DEF Spec
<1> QED
  BY <1>1
-----------------------------------------------------------------------------
\* A connection is made only after the failed cycle's callback has taken the control
\* word back and no command can put it there again: what the first flush of a new
\* connection sends does not ask for torque.
THEOREM ReconnectsOff == Prompt /\ Spec => ReconnectSendsOff
<1>1. PromptInv /\ [Next]_vars =>
        [connected = "no" /\ connected' = "yes" => control \notin Torque]_vars
  <2> SUFFICES ASSUME PromptInv, [Next]_vars, connected = "no", connected' = "yes"
               PROVE  control \notin Torque
    OBVIOUS
  <2>1. ppc = "connect"
    BY StepView DEF PromptInv, IInv, CommandMoves, Decides, SetsControl, SetsTarget, SetsFlag,
       Switches, LinkFrame, CycleMoves, Prepares, Exchanges, Poll, CallbackMoves, PlantMoves, view
  <2> QED
    BY <2>1 DEF PromptInv, IInv, ThreadInv, OfflineInv
<1> QED
  BY <1>1, AlwaysPrompt, PTL DEF Spec, ReconnectSendsOff

\* Behind a latched fault no command of IndraDriveActuator comes to rest with torque
\* still requested, wherever latch_fault() found it.
THEOREM FaultedIsOff == Prompt /\ Spec => []FaultedRestsOff
<1>1. PromptInv => FaultedRestsOff
  BY DEF PromptInv, IInv, ThreadInv, FaultInv, FaultedRestsOff, Resting, Rising, Moving, Halting
<1> QED
  BY <1>1, AlwaysPrompt, PTL

\* Once disable() has returned true the drive stays without torque: what the gateway
\* goes on sending after stop() does not ask for it.
THEOREM StaysOff == Prompt /\ Spec => []ConfirmedOff
<1>1. PromptInv => ConfirmedOff
  BY DEF PromptInv, OffInv, ConfirmedOff
<1> QED
  BY <1>1, AlwaysPrompt, PTL

\* The drive begins to follow command values only where it stands: enable() parks the
\* target again under torque, and the target goes out no later than the start bit.
THEOREM NoJumps == Prompt /\ Spec => NoJump
<1>1. PromptInv /\ [Next]_vars =>
        [applied # "RUN" /\ applied' = "RUN" => sentTarget = position]_vars
  <2> SUFFICES ASSUME PromptInv, [Next]_vars, applied # "RUN", applied' = "RUN"
               PROVE  sentTarget = position
    OBVIOUS
  <2>1. health = "ok" /\ sentControl = "RUN"
    BY StepView DEF PromptInv, IInv, CommandFrame, CycleMoves, CallbackMoves, PlantMoves,
       AxisFrame, view
  <2> QED
    BY <2>1 DEF PromptInv, SentInv, Parked
<1> QED
  BY <1>1, AlwaysPrompt, PTL DEF Spec, NoJump
=============================================================================
