------------------------- MODULE MGateOutputs_proofs -------------------------
(***************************************************************************)
(* What the gateway driver delivers, for every layout of the output tags,  *)
(* every number of registers and every number of moves.                    *)
(***************************************************************************)
EXTENDS MGateOutputs, MGateDriver_proofs

TypeInv ==
  /\ TypeOK
  /\ moves \in 0 .. Moves /\ mpc \in {"idle", "target"}
  /\ written \subseteq Bytes /\ fresh \in BOOLEAN

\* A poll thread that is gone has forgotten that it had data.
FreshInv == DataIsFresh /\ (ppc \in {"off", "exited"} => ~have_data)

\* The configuration of the controller node (the default): every cycle sends all
\* outputs.
SendsAll == ~WriteOnlyDirty

\* How far a flush has come: what was copied, and what of it has arrived.
Delivery ==
  /\ ppc \in {"copy", "wire", "clear"} => lo = 0 /\ hi = 2 * WordCount
  /\ ppc = "wire" => \A b \in Bytes \ written : regs[b] = out[b]
  /\ ppc = "wire" /\ connected = "yes" =>
       \A b \in Bytes : b < 2 * sent => image[b] = regs[b]
  /\ CycleDelivers

\* The layout of the drive's outputs: tags do not overlap, and the target and the
\* velocity begin within what one transaction carries.
DriveLayout ==
  /\ \A s, t \in Tags : s # t => BytesOf(s) \cap BytesOf(t) = {}
  /\ Offset["velocity"] < 2 * MaxWriteRegs /\ Offset["target"] < 2 * MaxWriteRegs

\* The velocity is ahead of the target wherever a pair of them is kept, and a
\* transaction carries both or neither.
Paired(f) ==
  /\ f[Offset["target"]] \in Nat /\ f[Offset["velocity"]] \in Nat
  /\ f[Offset["target"]] <= f[Offset["velocity"]]
Pairing ==
  /\ out[Offset["velocity"]] = moves
  /\ Paired(out) /\ Paired(regs) /\ Paired(image)
  /\ ppc \in {"copy", "wire", "clear"} => lo = 0 /\ hi = 2 * WordCount
  /\ ppc = "wire" => sent = 0 \/ sent >= MaxWriteRegs
-----------------------------------------------------------------------------
(* The parts of a step. *)

\* Only the copy of the registers takes bytes out of the history.
LEMMA HistoryStep ==
  ASSUME History, ppc # "copy" \/ ppc' # "wire"
  PROVE  written' = written \cup {b \in Bytes : out'[b] # out[b]}
BY DEF History, StoreRegs
-----------------------------------------------------------------------------
(* Types. *)

LEMMA TypeStep == TypeInv /\ [Next]_vars => TypeInv'
<1> SUFFICES ASSUME TypeInv, [Next]_vars PROVE TypeInv'
  OBVIOUS
<1> USE DEF ownVars, flushVars, readVars
<1>1. CASE UNCHANGED vars
  BY <1>1 DEF TypeInv, vars, mgateVars, TypeOK, FlagsOK
<1>2. ASSUME Next PROVE TypeInv'
  <2>1. written' \subseteq Bytes /\ fresh' \in BOOLEAN
    BY <1>2 DEF Next, History, TypeInv
  <2>2. moves' \in 0 .. Moves /\ mpc' \in {"idle", "target"}
    BY <1>2, MovesAssumption
       DEF Next, TypeInv, MoveTo, StageFirst, StageSecond, WriteOther, PollStep, Owner
  <2>3. TypeOK
    BY DEF TypeInv
  <2>4. ASSUME MoveTo PROVE TypeOK'
    <3>1. "velocity" \in Tags /\ "target" \in Tags
      BY MovesAssumption
    <3>2. moves \in Values /\ (moves < Moves => moves + 1 \in Values)
      BY MovesAssumption DEF TypeInv
    <3>3. CASE StageFirst("velocity")
      BY <2>3, <3>1, <3>2, <3>3, WriteType DEF StageFirst
    <3>4. CASE StageSecond("target")
      BY <2>3, <3>1, <3>2, <3>4, WriteType DEF StageSecond
    <3> QED
      BY <2>4, <3>3, <3>4 DEF MoveTo
  <2>5. ASSUME WriteOther PROVE TypeOK'
    <3>1. "override" \in Tags /\ "control" \in Tags /\ 0 \in Values /\ 1 \in Values
      BY MovesAssumption
    <3>2. PICK t \in Tags, v \in Values : Write(t, v)
      BY <2>5, <3>1 DEF WriteOther
    <3> QED
      BY <2>3, <3>2, WriteType
  <2>6. ASSUME NextCycle \/ Start \/ Stop \/ Join \/ GatewayRestarts PROVE TypeOK'
    BY <2>3, <2>6, OwnerType
  <2>7. ASSUME NEW in \in Inputs, NEW st \in Statuses, Cycle(in, st) PROVE TypeOK'
    BY <2>3, <2>7, CycleType
  <2>8. TypeOK'
    BY <1>2, <2>4, <2>5, <2>6, <2>7 DEF Next, PollStep, Owner
  <2> QED
    BY <2>1, <2>2, <2>8 DEF TypeInv
<1> QED
  BY <1>1, <1>2

LEMMA InitType == Init => TypeInv
<1> SUFFICES ASSUME Init PROVE TypeInv
  OBVIOUS
<1>1. FlagsOK /\ fresh \in BOOLEAN
  BY DEF Init, InitWith, FlagsOK
<1>2. Blank \in [Bytes -> Values]
  BY MGateAssumption DEF Blank
<1>3. TypeOK
  BY <1>1, <1>2, MGateAssumption DEF Init, InitWith, TypeOK
<1> QED
  BY <1>1, <1>3, MovesAssumption DEF Init, TypeInv

\* The driver's variables stay within their types: the dirty span and the flush
\* within the outputs, the words sent within their number.
THEOREM TypeCorrect == Spec => []TypeOK
<1>1. TypeInv => TypeOK
  BY DEF TypeInv
<1> QED
  BY <1>1, InitType, TypeStep, PTL DEF Spec
-----------------------------------------------------------------------------
(* Fresh inputs. *)

\* start() never takes inputs of an earlier poll thread for data of its own: the
\* flag it waits for is lowered before the thread that raised it is gone.
THEOREM FreshData == Spec => []DataIsFresh
<1>1. Init => FreshInv
  BY DEF Init, InitWith, FreshInv, DataIsFresh
<1>2. FreshInv /\ [Next]_vars => FreshInv'
  <2> SUFFICES ASSUME FreshInv, [Next]_vars PROVE FreshInv'
    OBVIOUS
  <2> USE DEF FreshInv, DataIsFresh, ownVars, flushVars, readVars
  <2>1. CASE UNCHANGED vars
    BY <2>1 DEF vars, mgateVars
  <2>2. ASSUME Next PROVE FreshInv'
    <3>1. ppc' # "off" /\ (fresh \/ ppc' = "read_status") => fresh'
      BY <2>2 DEF Next, History
    <3>2. CASE MoveTo \/ WriteOther
      <4>1. UNCHANGED <<have_data, ppc>>
        BY <3>2 DEF MoveTo, StageFirst, StageSecond, WriteOther, Write
      <4> QED
        BY <3>1, <4>1
    <3>3. CASE NextCycle \/ Start \/ Stop \/ Join \/ GatewayRestarts
      BY <3>1, <3>3 DEF NextCycle, Start, Stop, Join, GatewayRestarts
    <3>4. CASE Loop \/ Connected \/ LockSpan \/ StoreRegs \/ ClearDirty
      BY <3>1, <3>4 DEF Loop, LeaveLoop, Connected, LockSpan, StoreRegs, ClearDirty
    <3>5. CASE Connect \/ ConnectFails \/ WriteRegisters \/ TransactionFails
      BY <3>1, <3>5 DEF Connect, ConnectFails, WriteRegisters, TransactionFails
    <3>6. ASSUME NEW in \in Inputs, NEW st \in Statuses, ReadInputs(in) \/ ReadStatus(st)
          PROVE  FreshInv'
      BY <3>1, <3>6 DEF ReadInputs, ReadStatus
    <3> QED
      BY <2>2, <3>2, <3>3, <3>4, <3>5, <3>6 DEF Next, PollStep, Cycle, Owner
  <2> QED
    BY <2>1, <2>2
<1>3. FreshInv => DataIsFresh
  BY DEF FreshInv
<1> QED
  BY <1>1, <1>2, <1>3, PTL DEF Spec
-----------------------------------------------------------------------------
(* Delivery. *)

LEMMA DeliveryStep == SendsAll /\ TypeInv /\ Delivery /\ [Next]_vars => Delivery'
<1> SUFFICES ASSUME SendsAll, TypeInv, Delivery, [Next]_vars PROVE Delivery'
  OBVIOUS
<1> USE MGateAssumption DEF Delivery, CycleDelivers, Succeeded, ownVars, flushVars, readVars
<1>1. CASE UNCHANGED vars
  BY <1>1 DEF vars, mgateVars, Bytes
<1>2. ASSUME Next PROVE Delivery'
  <2>1. History /\ TypeOK
    BY <1>2 DEF Next, TypeInv
  <2>2. ppc # "copy" \/ ppc' # "wire" =>
          \A b \in Bytes \ written' : b \in Bytes \ written /\ out'[b] = out[b]
    BY <2>1, HistoryStep
  <2>3. CASE MoveTo \/ WriteOther
    <3>1. UNCHANGED <<running, online, have_data, connected, ppc, flushVars, ok,
                      readVars, image>>
      BY <2>3 DEF MoveTo, StageFirst, StageSecond, WriteOther, Write
    <3> QED
      BY <2>2, <3>1
  <2>4. CASE NextCycle \/ Start \/ Stop \/ Join
    BY <2>2, <2>4 DEF NextCycle, Start, Stop, Join
  <2>5. CASE GatewayRestarts
    BY <2>2, <2>5 DEF GatewayRestarts
  <2>6. CASE Loop \/ Connected \/ Connect \/ ConnectFails
    BY <2>2, <2>6 DEF Loop, LeaveLoop, Connected, Connect, ConnectFails
  <2>7. CASE LockSpan
    BY <2>2, <2>7 DEF LockSpan, SendsAll
  <2>8. CASE StoreRegs
    <3>1. FirstWord = 0 /\ LastWord = WordCount
      BY <2>1, <2>8, SpanWords DEF StoreRegs, FirstWord, LastWord, TypeOK
    <3>2. \A b \in Bytes : regs'[b] = out[b]
      BY <2>8, <3>1 DEF StoreRegs, Bytes, BytesOfWords
    <3>3. \A b \in Bytes : ~(b < 2 * sent')
      BY <2>8, <3>1 DEF StoreRegs, Bytes
    <3> QED
      BY <2>8, <3>2, <3>3 DEF StoreRegs
  <2>9. CASE ClearDirty
    BY <2>2, <2>9 DEF ClearDirty
  <2>10. CASE WriteRegisters
    <3>1. /\ image' = [b \in Bytes |-> IF 2 * sent <= b /\ b < 2 * sent'
                                       THEN regs[b] ELSE image[b]]
          /\ LastWord = WordCount
      BY <2>1, <2>10, ChunkStep, SpanWords DEF WriteRegisters, LastWord, TypeOK
    <3>2. \A b \in Bytes : b < 2 * sent' => image'[b] = regs[b]
      BY <2>1, <2>10, <3>1 DEF WriteRegisters, Bytes, TypeOK
    <3>3. sent' = WordCount => \A b \in Bytes : image'[b] = regs[b]
      BY <3>2 DEF Bytes
    <3>4. CASE ppc' = "clear"
      <4>1. sent' = WordCount
        BY <2>10, <3>1, <3>4 DEF WriteRegisters
      <4> QED
        BY <2>2, <2>10, <3>3, <3>4, <4>1 DEF WriteRegisters
    <3>5. CASE ppc' = "wire"
      BY <2>2, <2>10, <3>2, <3>5 DEF WriteRegisters
    <3> QED
      BY <2>10, <3>4, <3>5 DEF WriteRegisters
  <2>11. CASE TransactionFails
    BY <2>11 DEF TransactionFails
  <2>12. ASSUME NEW in \in Inputs, NEW st \in Statuses, ReadInputs(in) \/ ReadStatus(st)
         PROVE  Delivery'
    BY <2>2, <2>12 DEF ReadInputs, ReadStatus
  <2> QED
    BY <1>2, <2>3, <2>4, <2>5, <2>6, <2>7, <2>8, <2>9, <2>10, <2>11, <2>12
       DEF Next, PollStep, Cycle, Owner
<1> QED
  BY <1>1, <1>2

\* A cycle of flush_outputs() that succeeds leaves in the gateway every byte that
\* was staged before its copy, in however many transactions it takes.
THEOREM Delivers == SendsAll /\ Spec => []CycleDelivers
<1>1. Init => Delivery
  BY DEF Init, InitWith, Delivery, CycleDelivers, Succeeded
<1>2. Delivery => CycleDelivers
  BY DEF Delivery
<1>3. CASE SendsAll
  <2>1. TypeInv /\ Delivery /\ [Next]_vars => Delivery'
    BY <1>3, DeliveryStep
  <2> QED
    BY <1>1, <1>2, <2>1, InitType, TypeStep, PTL DEF Spec
<1> QED
  BY <1>3
-----------------------------------------------------------------------------
(* The velocity and the target of a move. *)

LEMMA PairBytes ==
  /\ Offset["velocity"] \in Bytes /\ Offset["target"] \in Bytes
  /\ Offset["velocity"] \in Nat /\ Offset["target"] \in Nat
  /\ Offset["velocity"] < 2 * WordCount /\ Offset["target"] < 2 * WordCount
<1>1. "velocity" \in Tags /\ "target" \in Tags
  BY MovesAssumption
<1>2. Offset["velocity"] \in Bytes /\ Offset["target"] \in Bytes
  BY <1>1, TagBytes
<1> QED
  BY <1>2, MGateAssumption DEF Bytes

\* A write of one tag leaves the first byte of another alone.
LEMMA WriteOne ==
  ASSUME DriveLayout, NEW t \in Tags, NEW v, Write(t, v), NEW u \in Tags
  PROVE  out'[Offset[u]] = IF u = t THEN v ELSE out[Offset[u]]
<1>1. Offset[u] \in Bytes /\ Offset[u] \in BytesOf(u)
  BY TagBytes
<1>2. u # t => Offset[u] \notin BytesOf(t)
  BY <1>1 DEF DriveLayout
<1> QED
  BY <1>1, <1>2 DEF Write

LEMMA PairingStep == SendsAll /\ DriveLayout /\ TypeInv /\ Pairing /\ [Next]_vars => Pairing'
<1> SUFFICES ASSUME SendsAll, DriveLayout, TypeInv, Pairing, [Next]_vars PROVE Pairing'
  OBVIOUS
<1> USE DEF Pairing, ownVars, flushVars, readVars
<1>1. CASE UNCHANGED vars
  BY <1>1 DEF vars, mgateVars, Paired
<1>2. ASSUME Next PROVE Pairing'
  <2>1. /\ TypeOK /\ moves \in Nat /\ MaxWriteRegs \in Nat /\ WordCount \in Nat
        /\ MaxWriteRegs > 0
    BY MGateAssumption, MovesAssumption DEF TypeInv
  <2>2. {"velocity", "target", "override", "control"} = Tags
    BY MovesAssumption
  <2>3. ASSUME MoveTo PROVE Pairing'
    <3>1. /\ out'[Offset["velocity"]] = moves' /\ moves' \in Nat
          /\ out'[Offset["target"]] \in Nat /\ out'[Offset["target"]] <= moves'
      <4>1. CASE StageFirst("velocity")
        <5>1. out'[Offset["velocity"]] = moves + 1 /\ moves' = moves + 1
          BY <2>2, <4>1, WriteOne DEF StageFirst
        <5>2. out'[Offset["target"]] = out[Offset["target"]]
          BY <2>2, <4>1, WriteOne DEF StageFirst
        <5> QED
          BY <2>1, <5>1, <5>2 DEF Paired
      <4>2. CASE StageSecond("target")
        <5>1. out'[Offset["velocity"]] = out[Offset["velocity"]] /\ moves' = moves
          BY <2>2, <4>2, WriteOne DEF StageSecond
        <5>2. out'[Offset["target"]] = moves
          BY <2>2, <4>2, WriteOne DEF StageSecond
        <5> QED
          BY <2>1, <5>1, <5>2 DEF Paired
      <4> QED
        BY <2>3, <4>1, <4>2 DEF MoveTo
    <3>2. UNCHANGED <<ppc, regs, image, lo, hi, sent>>
      BY <2>3 DEF MoveTo, StageFirst, StageSecond, Write
    <3> QED
      BY <3>1, <3>2 DEF Paired
  <2>4. ASSUME WriteOther PROVE Pairing'
    <3>1. PICK t \in {"override", "control"}, v \in {0, 1} : Write(t, v)
      BY <2>4 DEF WriteOther
    <3>2. out'[Offset["velocity"]] = out[Offset["velocity"]]
      BY <2>2, <3>1, WriteOne
    <3>3. out'[Offset["target"]] = out[Offset["target"]]
      BY <2>2, <3>1, WriteOne
    <3>4. UNCHANGED <<moves, ppc, regs, image, lo, hi, sent>>
      BY <2>4, <3>1 DEF WriteOther, Write
    <3> QED
      BY <3>2, <3>3, <3>4 DEF Paired
  <2>5. ASSUME NextCycle \/ Start \/ Stop \/ Join, UNCHANGED moves PROVE Pairing'
    BY <2>5 DEF NextCycle, Start, Stop, Join, Paired
  <2>6. Paired(Blank)
    BY PairBytes, MovesAssumption DEF Paired, Blank
  <2>7. ASSUME GatewayRestarts, UNCHANGED moves PROVE Pairing'
    BY <2>6, <2>7 DEF GatewayRestarts, Paired
  <2>8. ASSUME Loop \/ Connected \/ Connect \/ ConnectFails, UNCHANGED moves PROVE Pairing'
    BY <2>8 DEF Loop, LeaveLoop, Connected, Connect, ConnectFails, Paired
  <2>9. ASSUME LockSpan, UNCHANGED moves PROVE Pairing'
    BY <2>9 DEF LockSpan, SendsAll, Paired
  <2>10. ASSUME StoreRegs, UNCHANGED moves PROVE Pairing'
    <3>1. FirstWord = 0 /\ LastWord = WordCount
      BY <2>1, <2>10, SpanWords DEF StoreRegs, FirstWord, LastWord, TypeOK
    <3>2. \A b \in Bytes : regs'[b] = out[b]
      BY <2>1, <2>10, <3>1 DEF StoreRegs, Bytes, BytesOfWords
    <3>3. Paired(regs')
      BY <3>2, PairBytes DEF Paired
    <3> QED
      BY <2>10, <3>1, <3>3 DEF StoreRegs, Paired
  <2>11. ASSUME ClearDirty, UNCHANGED moves PROVE Pairing'
    BY <2>6, <2>11 DEF ClearDirty, LocalsEnd, Paired
  <2>12. ASSUME ppc = "wire", ChunkDelivered
         PROVE  /\ Paired(image')
                /\ ChunkEnd = WordCount \/ ChunkEnd >= MaxWriteRegs
    <3>1. /\ image' = [b \in Bytes |-> IF 2 * sent <= b /\ b < 2 * ChunkEnd
                                       THEN regs[b] ELSE image[b]]
          /\ ChunkEnd = (IF sent + MaxWriteRegs < WordCount THEN sent + MaxWriteRegs
                                                           ELSE WordCount)
          /\ sent \in 0 .. WordCount
      BY <2>1, <2>12, ChunkStep DEF SmallerOf, TypeOK
    <3>2. CASE sent = 0
      <4>1. /\ Offset["velocity"] < 2 * ChunkEnd /\ Offset["target"] < 2 * ChunkEnd
            /\ 2 * sent <= Offset["velocity"] /\ 2 * sent <= Offset["target"]
        BY <2>1, <3>1, <3>2, PairBytes DEF DriveLayout
      <4>2. /\ image'[Offset["velocity"]] = regs[Offset["velocity"]]
            /\ image'[Offset["target"]] = regs[Offset["target"]]
        BY <3>1, <4>1, PairBytes
      <4> QED
        BY <2>1, <3>1, <3>2, <4>2 DEF Paired
    <3>3. CASE sent >= MaxWriteRegs
      <4>1. ~(2 * sent <= Offset["velocity"]) /\ ~(2 * sent <= Offset["target"])
        BY <2>1, <3>1, <3>3, PairBytes DEF DriveLayout
      <4>2. /\ image'[Offset["velocity"]] = image[Offset["velocity"]]
            /\ image'[Offset["target"]] = image[Offset["target"]]
        BY <3>1, <4>1, PairBytes
      <4> QED
        BY <2>1, <3>1, <3>3, <4>2 DEF Paired
    <3> QED
      BY <2>12, <3>2, <3>3
  <2>13. ASSUME WriteRegisters, UNCHANGED moves PROVE Pairing'
    <3>1. Paired(image') /\ (ChunkEnd = WordCount \/ ChunkEnd >= MaxWriteRegs)
      BY <2>12, <2>13 DEF WriteRegisters
    <3>2. LastWord = WordCount
      BY <2>1, <2>13, SpanWords DEF WriteRegisters, LastWord, TypeOK
    <3> QED
      BY <2>13, <3>1, <3>2 DEF WriteRegisters, Paired
  <2>14. ASSUME TransactionFails, UNCHANGED moves PROVE Pairing'
    <3>1. Paired(image')
      BY <2>12, <2>14 DEF TransactionFails, Paired
    <3> QED
      BY <2>6, <2>14, <3>1 DEF TransactionFails, LocalsEnd, Paired
  <2>15. ASSUME NEW in \in Inputs, NEW st \in Statuses, ReadInputs(in) \/ ReadStatus(st),
                UNCHANGED moves
         PROVE  Pairing'
    BY <2>15 DEF ReadInputs, ReadStatus, Paired
  <2> QED
    BY <1>2, <2>3, <2>4, <2>5, <2>7, <2>8, <2>9, <2>10, <2>11, <2>13, <2>14, <2>15
       DEF Next, PollStep, Cycle, Owner
<1> QED
  BY <1>1, <1>2

\* The gateway never holds a new target with an older velocity, whatever goes out
\* between the two writes of move_to() and whichever transaction fails, for every
\* layout that begins both tags in the first transaction.
THEOREM VelocityLeads == SendsAll /\ DriveLayout /\ Spec => []NoStaleVelocity
<1>1. Init => Pairing
  <2> SUFFICES ASSUME Init PROVE Pairing
    OBVIOUS
  <2>1. Blank[Offset["velocity"]] = 0 /\ Blank[Offset["target"]] = 0
    BY PairBytes, MovesAssumption DEF Blank
  <2> QED
    BY <2>1 DEF Init, InitWith, Pairing, Paired
<1>2. Pairing => NoStaleVelocity
  BY DEF Pairing, Paired, NoStaleVelocity
<1>3. CASE SendsAll /\ DriveLayout
  <2>1. TypeInv /\ Pairing /\ [Next]_vars => Pairing'
    BY <1>3, PairingStep
  <2> QED
    BY <1>1, <1>2, <2>1, InitType, TypeStep, PTL DEF Spec
<1> QED
  BY <1>3
=============================================================================
