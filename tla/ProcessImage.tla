---------------------------- MODULE ProcessImage ----------------------------
(***************************************************************************)
(* The byte-addressed view of the gateway's buffers                        *)
(* (drivers/mgate5101_driver/src/process_image.cpp): tags of several types *)
(* and byte orders, packed back to back, carried in 16-bit registers.      *)
(*                                                                         *)
(* An image is a function from byte offsets to bytes.  ByteSize is 256 in  *)
(* the code.  Engineering values are integers in units so small that a     *)
(* tag's scale (units per raw step) and bias are integers too.  Floating   *)
(* and raw tags, which the drive does not have, are left out.              *)
(***************************************************************************)
EXTENDS Integers, Sequences, SequencesExt

CONSTANTS
  ByteSize,   \* the number of values of a byte
  BitCount    \* the number of its bits

ASSUME ByteAssumption == BitCount \in Nat \ {0} /\ ByteSize = 2 ^ BitCount

Octet == 0 .. ByteSize - 1
ByteOrders == {"big", "little", "big_swap", "little_swap"}

\* type_size()
TypeSize == [bit |-> 1, u8 |-> 1, i8 |-> 1, u16 |-> 2, i16 |-> 2, u32 |-> 4, i32 |-> 4]
DataTypes == DOMAIN TypeSize
IsSigned(type) == type \in {"i8", "i16", "i32"}

\* check(): the throwing accesses are those with ~InRange.
InRange(img, off, len) == \A b \in off .. off + len - 1 : b \in DOMAIN img

\* reorder(): between wire order and big-endian order, in either direction.
\* Mutant: the registers keep their order.
SwapWords(b) == [i \in 1 .. Len(b) |-> LET word == (Len(b) - i) \div 2
                                       IN  b[2 * word + 2 - (i % 2)]]
SwapBytes(b) == [i \in 1 .. Len(b) |-> IF i % 2 = 1 THEN b[i + 1] ELSE b[i - 1]]
ReorderMutant(b, order) ==
  CASE order \in {"big", "big_swap"} -> b [] order = "little" -> Reverse(b)
    [] order = "little_swap" -> SwapBytes(b)
Reorder(b, order) ==
  CASE order = "big"         -> b
    [] order = "little"      -> Reverse(b)
    [] order = "big_swap"    -> SwapWords(b)
    [] order = "little_swap" -> SwapBytes(b)

\* be_to_u64() and u64_to_be(), the latter keeping the low n bytes of any integer:
\* the casts of set_int() to the tag's type.
ToUnsigned(b) ==
  LET v[i \in 0 .. Len(b)] == IF i = 0 THEN 0 ELSE v[i - 1] * ByteSize + b[i]
  IN  v[Len(b)]
ToBytes(v, n) == [i \in 1 .. n |-> (v \div ByteSize ^ (n - i)) % ByteSize]

\* The casts of get_i8(), get_i16() and get_i32(): two's complement.
ToSigned(u, n) == IF 2 * u >= ByteSize ^ n THEN u - ByteSize ^ n ELSE u

\* The value an integer has as a value of the type.
Wrapped(v, type) ==
  LET u == v % ByteSize ^ TypeSize[type]
  IN  CASE type = "bit"   -> IF v = 0 THEN 0 ELSE 1
        [] IsSigned(type) -> ToSigned(u, TypeSize[type])
        [] OTHER          -> u
-----------------------------------------------------------------------------
(* Tags: [type, offset, bit, order, scale, bias]. *)

\* A one-byte value has no order.
OrderOf(tag) == IF TypeSize[tag.type] = 1 THEN "big" ELSE tag.order
BytesAt(img, off, n) == [i \in 1 .. n |-> img[off + i - 1]]

\* get_bit() .. get_i32(), get_int()
GetInt(img, tag) ==
  LET n == TypeSize[tag.type]
      u == ToUnsigned(Reorder(BytesAt(img, tag.offset, n), OrderOf(tag)))
  IN  CASE tag.type = "bit"   -> (img[tag.offset] \div 2 ^ tag.bit) % 2
        [] IsSigned(tag.type) -> ToSigned(u, n)
        [] OTHER              -> u

\* set_bit(): the other bits of the byte stay.
WithBit(byte, bit, v) ==
  byte + (v - ((byte \div 2 ^ bit) % 2)) * 2 ^ bit

\* set_bit() .. set_i32(), set_int()
SetInt(img, tag, raw) ==
  LET n == TypeSize[tag.type]
      b == IF tag.type = "bit"
           THEN <<WithBit(img[tag.offset], tag.bit, IF raw = 0 THEN 0 ELSE 1)>>
           ELSE Reorder(ToBytes(raw, n), OrderOf(tag))
  IN  [i \in DOMAIN img |-> IF i \in tag.offset .. tag.offset + n - 1
                            THEN b[i - tag.offset + 1] ELSE img[i]]

\* llround(num / den), den > 0: halves away from zero.
\* Mutant: the fraction is cut off.
CutOffMutant(num, den) == IF num >= 0 THEN num \div den ELSE -((-num) \div den)
LLRound(num, den) ==
  IF num >= 0 THEN (2 * num + den) \div (2 * den) ELSE -((den - 2 * num) \div (2 * den))

\* get_scaled(), set_scaled()
GetScaled(img, tag) == GetInt(img, tag) * tag.scale + tag.bias
SetScaled(img, tag, value) == SetInt(img, tag, LLRound(value - tag.bias, tag.scale))
-----------------------------------------------------------------------------
(* Registers, high byte first. *)

\* store_to_registers()
StoreToRegisters(img, count, off) ==
  [r \in 0 .. count - 1 |-> img[off + 2 * r] * ByteSize + img[off + 2 * r + 1]]

\* load_from_registers()
LoadFromRegisters(img, regs, count, off) ==
  [i \in DOMAIN img |->
     LET r == (i - off) \div 2
     IN  IF i \notin off .. off + 2 * count - 1 THEN img[i]
         ELSE IF (i - off) % 2 = 0 THEN regs[r] \div ByteSize ELSE regs[r] % ByteSize]
=============================================================================
