----------------------------- MODULE MGateDriver -----------------------------
(***************************************************************************)
(* The cyclic driver of the MGate gateway                                  *)
(* (drivers/mgate5101_driver/src/mgate_driver.cpp).                        *)
(*                                                                         *)
(* Its owner writes tags into the output image at any time; a poll thread  *)
(* carries the image to the gateway and the gateway's inputs back, once a  *)
(* cycle, and reconnects when the link fails.  mtx_ guards the images, but *)
(* only for the length of one access: a label of the poll thread names the *)
(* section or transaction that comes next.                                 *)
(***************************************************************************)
EXTENDS Integers, FiniteSets

CONSTANTS
  Tags,            \* the output tags
  Offset, Length,  \* [Tags -> Nat]: byte_offset and size_bytes() of each
  Values, Zero,    \* what a byte may hold; Zero in a new or restarted gateway
  WordCount,       \* output_word_count
  MaxWriteRegs,    \* kMaxWriteRegs, the longest write in one transaction
  WriteOnlyDirty,  \* write_only_dirty
  Inputs, Statuses \* what the gateway's input and status areas may hold

Bytes == 0 .. 2 * WordCount - 1
BytesOf(t) == Offset[t] .. Offset[t] + Length[t] - 1

ASSUME MGateAssumption ==
  /\ WordCount \in Nat \ {0} /\ MaxWriteRegs \in Nat \ {0}
  /\ Offset \in [Tags -> Nat] /\ Length \in [Tags -> Nat \ {0}]
  /\ \A t \in Tags : BytesOf(t) \subseteq Bytes
  /\ Zero \in Values
  /\ WriteOnlyDirty \in BOOLEAN

VARIABLES
  out, dirty_lo, dirty_hi,  \* out_ and the bytes [lo, hi) still to be sent
  running, online, have_data,
  connected,                \* client_: "no", "yes", or "broken" if the peer left
  ppc,                      \* the poll thread
  lo, hi, regs, sent,       \* flush_outputs(): span, copied words, next word
  ok,                       \* what the cycle callback is told
  inputs, status,           \* in_ and status_
  image                     \* the gateway's output memory

ownVars   == <<out, dirty_lo, dirty_hi>>
flushVars == <<lo, hi, regs, sent>>
readVars  == <<inputs, status>>
mgateVars == <<ownVars, running, online, have_data, connected, ppc, flushVars, ok,
               readVars, image>>

Blank == [b \in Bytes |-> Zero]

FlagsOK ==
  /\ running \in BOOLEAN /\ online \in BOOLEAN
  /\ have_data \in BOOLEAN /\ ok \in BOOLEAN

TypeOK ==
  /\ out \in [Bytes -> Values] /\ image \in [Bytes -> Values]
  /\ regs \in [Bytes -> Values]
  /\ {dirty_lo, dirty_hi, lo, hi} \subseteq 0 .. 2 * WordCount
  /\ sent \in 0 .. WordCount
  /\ FlagsOK
  /\ connected \in {"no", "yes", "broken"}
  /\ ppc \in {"off", "top", "connect", "span", "copy", "wire", "clear", "read",
              "read_status", "callback", "exited"}
  /\ inputs \in Inputs /\ status \in Statuses

InitWith(in0, st0) ==
  /\ out = Blank /\ dirty_lo = 0 /\ dirty_hi = 0
  /\ running = FALSE /\ online = FALSE /\ have_data = FALSE
  /\ connected = "no" /\ ppc = "off"
  /\ lo = 0 /\ hi = 0 /\ regs = Blank /\ sent = 0
  /\ ok = FALSE
  /\ inputs = in0 /\ status = st0
  /\ image = Blank
-----------------------------------------------------------------------------
(* The owner's side. *)

\* touch(): widen the dirty span.
SmallerOf(a, b) == IF a < b THEN a ELSE b
LargerOf(a, b)  == IF a < b THEN b ELSE a
Touched(t) ==
  IF dirty_lo >= dirty_hi
  THEN <<Offset[t], Offset[t] + Length[t]>>
  ELSE <<SmallerOf(dirty_lo, Offset[t]), LargerOf(dirty_hi, Offset[t] + Length[t])>>

\* write(), write_int(), write_bool(), write_raw(): the tag takes the value v.
Write(t, v) ==
  /\ out' = [b \in Bytes |-> IF b \in BytesOf(t) THEN v ELSE out[b]]
  /\ dirty_lo' = Touched(t)[1] /\ dirty_hi' = Touched(t)[2]
  /\ UNCHANGED <<running, online, have_data, connected, ppc, flushVars, ok,
                 readVars, image>>

Start ==
  /\ ~running /\ ppc = "off"
  /\ running' = TRUE /\ ppc' = "top"
  /\ UNCHANGED <<ownVars, online, have_data, connected, flushVars, ok, inputs,
                 status, image>>

\* stop(): ask, and join.
Stop ==
  /\ running /\ running' = FALSE
  /\ UNCHANGED <<ownVars, online, have_data, connected, ppc, flushVars, ok,
                 readVars, image>>

Join ==
  /\ ~running /\ ppc = "exited" /\ ppc' = "off"
  /\ connected' = "no" /\ online' = FALSE
  /\ UNCHANGED <<ownVars, running, have_data, flushVars, ok, readVars, image>>
-----------------------------------------------------------------------------
(* The poll thread. *)

\* poll_loop()'s condition; on the way out it forgets that it had data.
\* Mutants: the data outlive the thread that read them; a thread whose link is
\* down keeps trying.
LeaveLoop(data, go_on) ==
  /\ ppc = "top"
  /\ IF go_on THEN ppc' = "connect" /\ UNCHANGED <<online, have_data>>
                ELSE ppc' = "exited" /\ online' = FALSE /\ have_data' = data
  /\ UNCHANGED <<ownVars, running, connected, flushVars, ok, readVars, image>>
StaleDataMutant == LeaveLoop(have_data, running)
KeepTryingMutant == LeaveLoop(FALSE, running \/ ~online)
Loop == LeaveLoop(FALSE, running)

\* ensure_connected(): after a reconnect everything has to be sent again.
Connected ==
  /\ ppc = "connect" /\ connected # "no" /\ ppc' = "span"
  /\ UNCHANGED <<ownVars, running, online, have_data, connected, flushVars, ok,
                 readVars, image>>

Connect ==
  /\ ppc = "connect" /\ connected = "no" /\ ppc' = "span"
  /\ connected' = "yes"
  /\ dirty_lo' = 0 /\ dirty_hi' = 2 * WordCount
  /\ UNCHANGED <<out, running, online, have_data, flushVars, ok, readVars, image>>

ConnectFails ==
  /\ ppc = "connect" /\ connected = "no" /\ ppc' = "callback"
  /\ online' = FALSE /\ have_data' = FALSE /\ ok' = FALSE
  /\ UNCHANGED <<ownVars, running, connected, flushVars, readVars, image>>

\* flush_outputs(), first section: which bytes to send.
LockSpan ==
  /\ ppc = "span"
  /\ IF WriteOnlyDirty /\ dirty_lo >= dirty_hi
     THEN ppc' = "read" /\ UNCHANGED <<lo, hi>>
     ELSE /\ ppc' = "copy"
          /\ lo' = IF WriteOnlyDirty THEN dirty_lo ELSE 0
          /\ hi' = IF WriteOnlyDirty THEN dirty_hi ELSE 2 * WordCount
  /\ UNCHANGED <<ownVars, running, online, have_data, connected, regs, sent, ok,
                 readVars, image>>

\* Second section: copy the registers that hold them.
FirstWord == lo \div 2
LastWord  == (hi + 1) \div 2
BytesOfWords(first, last) == 2 * first .. 2 * last - 1

StoreRegs ==
  /\ ppc = "copy" /\ ppc' = "wire"
  /\ regs' = [b \in Bytes |-> IF b \in BytesOfWords(FirstWord, LastWord)
                              THEN out[b] ELSE Zero]
  /\ sent' = FirstWord
  /\ UNCHANGED <<ownVars, running, online, have_data, connected, lo, hi, ok,
                 readVars, image>>

\* One write transaction.
\* Mutant: every chunk is taken from the start of the copied registers.
ChunkEnd == SmallerOf(sent + MaxWriteRegs, LastWord)
Received(first, last, from) ==
  image' = [b \in Bytes |-> IF b \in BytesOfWords(first, last)
                            THEN regs[from + b - 2 * first] ELSE image[b]]
ChunkMutant    == Received(sent, ChunkEnd, 2 * FirstWord)
ChunkDelivered == Received(sent, ChunkEnd, 2 * sent)

WriteRegisters ==
  /\ ppc = "wire" /\ connected = "yes"
  /\ ChunkDelivered
  /\ sent' = ChunkEnd
  /\ ppc' = IF ChunkEnd = LastWord THEN "clear" ELSE "wire"
  /\ UNCHANGED <<ownVars, running, online, have_data, connected, lo, hi, regs,
                 ok, readVars>>

\* flush_outputs() returns.
LocalsEnd == lo' = 0 /\ hi' = 0 /\ regs' = Blank /\ sent' = 0

\* A transaction fails.  A socket or protocol error closes the connection; a
\* timeout or an exception response does not, and the gateway may have acted.
TransactionFails ==
  /\ ppc \in {"wire", "read", "read_status"} /\ ppc' = "callback"
  /\ connected' \in {"no", connected}
  /\ \/ UNCHANGED image
     \/ ppc = "wire" /\ connected = "yes" /\ ChunkDelivered
  /\ ok' = FALSE /\ online' = FALSE
  /\ LocalsEnd
  /\ UNCHANGED <<ownVars, running, have_data, readVars>>

\* flush_outputs(), last section.
ClearDirty ==
  /\ ppc = "clear" /\ ppc' = "read"
  /\ IF dirty_lo >= lo /\ dirty_hi <= hi
     THEN dirty_lo' = 0 /\ dirty_hi' = 0
     ELSE /\ dirty_lo' = IF dirty_lo < hi /\ dirty_hi > hi THEN hi ELSE dirty_lo
          /\ UNCHANGED dirty_hi
  /\ LocalsEnd
  /\ UNCHANGED <<out, running, online, have_data, connected, ok, readVars, image>>

\* read_inputs(), when the gateway's input memory holds in.
ReadInputs(in) ==
  /\ ppc = "read" /\ connected = "yes" /\ ppc' = "read_status"
  /\ inputs' = in /\ have_data' = TRUE
  /\ UNCHANGED <<ownVars, running, online, connected, flushVars, ok, status,
                 image>>

\* read_status(), and poll_loop() stores that the exchange succeeded.
ReadStatus(st) ==
  /\ ppc = "read_status" /\ connected = "yes" /\ ppc' = "callback"
  /\ status' = st
  /\ ok' = TRUE /\ online' = TRUE
  /\ UNCHANGED <<ownVars, running, have_data, connected, flushVars, inputs,
                 image>>

\* The cycle callback has returned, and the wait until the next cycle is over.
NextCycle ==
  /\ ppc = "callback" /\ ppc' = "top"
  /\ UNCHANGED <<ownVars, running, online, have_data, connected, flushVars, ok,
                 readVars, image>>

Cycle(in, st) ==
  \/ Loop \/ Connected \/ LockSpan \/ StoreRegs \/ ClearDirty
  \/ Connect \/ ConnectFails
  \/ WriteRegisters \/ ReadInputs(in) \/ ReadStatus(st) \/ TransactionFails
-----------------------------------------------------------------------------
(* The gateway. *)

\* It restarts with empty outputs; the driver's socket is left without a peer.
GatewayRestarts ==
  /\ image' = Blank
  /\ connected' = IF connected = "yes" THEN "broken" ELSE connected
  /\ UNCHANGED <<ownVars, running, online, have_data, ppc, flushVars, ok,
                 readVars>>
=============================================================================
