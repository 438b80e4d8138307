-------------------------- MODULE MGateDriver_proofs --------------------------
(***************************************************************************)
(* What the gateway driver's steps do, for every layout of the tags and    *)
(* every number of registers: lemmas for the proofs about its users.       *)
(***************************************************************************)
EXTENDS MGateDriver, TLAPS

\* Words and bytes: a span of all bytes is a span of all words.
LEMMA SpanWords ==
  ASSUME NEW n \in Nat, NEW h \in 0 .. 2 * n
  PROVE  /\ h \div 2 \in 0 .. n /\ (h + 1) \div 2 \in 0 .. n
         /\ h = 0 => h \div 2 = 0
         /\ h = 2 * n => (h + 1) \div 2 = n
OBVIOUS

\* The first byte of a tag is a byte of the outputs, and so is its last.
LEMMA TagBytes ==
  ASSUME NEW t \in Tags
  PROVE  /\ Offset[t] \in Nat /\ Length[t] \in Nat /\ Length[t] > 0
         /\ Offset[t] \in BytesOf(t) /\ Offset[t] \in Bytes
         /\ Offset[t] + Length[t] <= 2 * WordCount
<1> USE MGateAssumption
<1>1. Offset[t] \in Nat /\ Length[t] \in Nat /\ Length[t] > 0
  OBVIOUS
<1>2. Offset[t] \in BytesOf(t) /\ Offset[t] + Length[t] - 1 \in BytesOf(t)
  BY <1>1 DEF BytesOf
<1>3. BytesOf(t) \subseteq Bytes
  OBVIOUS
<1>4. Offset[t] \in Bytes /\ Offset[t] + Length[t] - 1 \in Bytes
  BY <1>2, <1>3
<1> QED
  BY <1>1, <1>2, <1>4 DEF Bytes

\* What a transaction carries, byte for byte.
LEMMA ChunkStep ==
  ASSUME TypeOK, ChunkDelivered
  PROVE  /\ image' = [b \in Bytes |-> IF 2 * sent <= b /\ b < 2 * ChunkEnd
                                      THEN regs[b] ELSE image[b]]
         /\ ChunkEnd \in 0 .. WordCount
         /\ hi = 2 * WordCount => ChunkEnd = SmallerOf(sent + MaxWriteRegs, WordCount)
<1> USE MGateAssumption
<1>1. LastWord \in 0 .. WordCount /\ (hi = 2 * WordCount => LastWord = WordCount)
  BY SpanWords DEF TypeOK, LastWord
<1>2. ChunkEnd \in 0 .. WordCount
  BY <1>1 DEF TypeOK, ChunkEnd, SmallerOf
<1>3. \A b \in Bytes : /\ b \in BytesOfWords(sent, ChunkEnd) <=> 2 * sent <= b /\ b < 2 * ChunkEnd
                       /\ 2 * sent + b - 2 * sent = b
  BY <1>2 DEF Bytes, BytesOfWords, TypeOK
<1> QED
  BY <1>1, <1>2, <1>3 DEF ChunkDelivered, Received, ChunkEnd

\* A flush of all outputs copies every register, whole.
LEMMA CopyStep ==
  ASSUME TypeOK, StoreRegs, lo = 0, hi = 2 * WordCount
  PROVE  /\ \A b \in Bytes : regs'[b] = out[b]
         /\ sent' = 0
<1> USE MGateAssumption
<1>1. FirstWord = 0 /\ LastWord = WordCount
  BY SpanWords DEF FirstWord, LastWord, TypeOK
<1> QED
  BY <1>1 DEF StoreRegs, Bytes, BytesOfWords
-----------------------------------------------------------------------------
(* Types. *)

LEMMA WriteType ==
  ASSUME TypeOK, NEW t \in Tags, NEW v \in Values, Write(t, v) PROVE TypeOK'
<1> USE MGateAssumption DEF ownVars, flushVars, readVars
<1>1. /\ Offset[t] \in 0 .. 2 * WordCount
      /\ Offset[t] + Length[t] \in 0 .. 2 * WordCount
  BY TagBytes
<1>2. dirty_lo' \in 0 .. 2 * WordCount /\ dirty_hi' \in 0 .. 2 * WordCount
  BY <1>1 DEF Write, Touched, SmallerOf, LargerOf, TypeOK
<1>3. out' \in [Bytes -> Values]
  BY DEF Write, TypeOK
<1> QED
  BY <1>2, <1>3 DEF Write, TypeOK, FlagsOK

\* start(), stop() and its join, the end of a callback, and a gateway's restart.
LEMMA OwnerType ==
  ASSUME TypeOK, NextCycle \/ Start \/ Stop \/ Join \/ GatewayRestarts PROVE TypeOK'
<1> USE DEF ownVars, flushVars, readVars
<1>1. FlagsOK'
  <2>1. FlagsOK
    BY DEF TypeOK
  <2>2. CASE NextCycle \/ Stop
    BY <2>1, <2>2 DEF NextCycle, Stop, FlagsOK
  <2>3. CASE Start
    BY <2>1, <2>3 DEF Start, FlagsOK
  <2>4. CASE Join \/ GatewayRestarts
    BY <2>1, <2>4 DEF Join, GatewayRestarts, FlagsOK
  <2> QED
    BY <2>2, <2>3, <2>4
<1>2. Blank \in [Bytes -> Values]
  BY MGateAssumption DEF Blank
<1> QED
  BY <1>1, <1>2 DEF NextCycle, Start, Stop, Join, GatewayRestarts, TypeOK

\* A step of the poll thread.
LEMMA CycleType ==
  ASSUME TypeOK, NEW in \in Inputs, NEW st \in Statuses, Cycle(in, st) PROVE TypeOK'
<1> USE DEF ownVars, flushVars, readVars
<1>1. FlagsOK'
  <2>1. FlagsOK
    BY DEF TypeOK
  <2>2. CASE Loop
    BY <2>1, <2>2 DEF Loop, LeaveLoop, FlagsOK
  <2>3. CASE Connected \/ LockSpan \/ StoreRegs \/ ClearDirty \/ Connect
    BY <2>1, <2>3 DEF Connected, LockSpan, StoreRegs, ClearDirty, Connect, FlagsOK
  <2>4. CASE ConnectFails
    BY <2>1, <2>4 DEF ConnectFails, FlagsOK
  <2>5. CASE WriteRegisters \/ TransactionFails
    BY <2>1, <2>5 DEF WriteRegisters, TransactionFails, FlagsOK
  <2>6. CASE ReadInputs(in) \/ ReadStatus(st)
    BY <2>1, <2>6 DEF ReadInputs, ReadStatus, FlagsOK
  <2> QED
    BY <2>2, <2>3, <2>4, <2>5, <2>6 DEF Cycle
<1>2. Blank \in [Bytes -> Values] /\ WordCount \in Nat
  BY MGateAssumption DEF Blank
<1>3. CASE Loop \/ Connected \/ LockSpan
  BY <1>1, <1>2, <1>3 DEF Loop, LeaveLoop, Connected, LockSpan, TypeOK
<1>4. CASE StoreRegs
  <2>1. FirstWord \in 0 .. WordCount
    BY <1>2, SpanWords DEF FirstWord, TypeOK
  <2>2. regs' \in [Bytes -> Values]
    BY <1>4, MGateAssumption DEF StoreRegs, TypeOK
  <2> QED
    BY <1>1, <1>4, <2>1, <2>2 DEF StoreRegs, TypeOK
<1>5. CASE ClearDirty \/ Connect \/ ConnectFails
  BY <1>1, <1>2, <1>5 DEF ClearDirty, LocalsEnd, Connect, ConnectFails, TypeOK
<1>6. ChunkDelivered => image' \in [Bytes -> Values] /\ ChunkEnd \in 0 .. WordCount
  BY ChunkStep DEF TypeOK
<1>7. CASE WriteRegisters
  BY <1>1, <1>6, <1>7 DEF WriteRegisters, TypeOK
<1>8. CASE TransactionFails
  <2>1. image' \in [Bytes -> Values]
    BY <1>6, <1>8 DEF TransactionFails, TypeOK
  <2> QED
    BY <1>1, <1>2, <1>8, <2>1 DEF TransactionFails, LocalsEnd, TypeOK
<1>9. CASE ReadInputs(in) \/ ReadStatus(st)
  BY <1>1, <1>9 DEF ReadInputs, ReadStatus, TypeOK
<1> QED
  BY <1>3, <1>4, <1>5, <1>7, <1>8, <1>9 DEF Cycle
=============================================================================
