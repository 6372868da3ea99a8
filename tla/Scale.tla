------------------------------- MODULE Scale -------------------------------
(***************************************************************************)
(* packages/chain/scale/src/index.ts and the heartbeat payload of          *)
(* packages/chain/node-manager/src/index.ts: compact integers, u64s and    *)
(* byte strings as the SCALE codec lays them out.  The pallet verifies a   *)
(* signature over exactly these bytes.                                     *)
(*                                                                         *)
(* The widths are parameters, so that TLC reaches every mode: a byte has 8 *)
(* bits in the code, two of which tell the mode of a compact integer.      *)
(***************************************************************************)
EXTENDS Integers, Sequences, SequencesExt, FiniteSetsExt, Powers

CONSTANTS
  ByteBits,    \* 8 in the code
  WordBytes,   \* bytes of a u64: 8 in the code
  Contexts,    \* byte strings; HEARTBEAT_CONTEXT in the code
  Integral,    \* the numbers compact is called with
  Words64      \* the bigints u64le is called with

Byte == Pow(2, ByteBits)

\* The most bytes the prefix of the big-integer mode can announce: 67 in the code.
MaxBytes == 4 + Pow(2, ByteBits - 2) - 1

ASSUME WidthAssumption ==
  /\ ByteBits \in Nat /\ ByteBits > 2 /\ WordBytes \in Nat \ {0}
  /\ Integral \subseteq Int /\ \A v \in Integral : v < Pow(Byte, MaxBytes)
  /\ Words64 \subseteq Int
  /\ \A c \in Contexts : c \in Seq(0 .. Byte - 1) /\ Len(c) < Pow(Byte, MaxBytes)

VARIABLE coded   \* the last call: [call, input, bytes]

NotCoded == [call |-> "none", input |-> << >>, bytes |-> << >>]

ScaleInit == coded = NotCoded

-----------------------------------------------------------------------------
\* The n low bytes of v, the lowest first.
LittleEndian(v, n) == [i \in 1 .. n |-> (v \div Pow(Byte, i - 1)) % Byte]

\* How many bytes the loop of the big-integer mode pushes.
ByteLength(v) == Min({n \in 1 .. MaxBytes : v < Pow(Byte, n)})

\* Fault: the first value that needs two bytes is put into one.
FitsOneInclusive(v) == v <= Pow(2, ByteBits - 2)

FitsOne(v) == v < Pow(2, ByteBits - 2)
FitsTwo(v) == v < Pow(2, 2 * ByteBits - 2)
FitsFour(v) == v < Pow(2, 4 * ByteBits - 2)

\* Two mode bits below the value; past four bytes, below the number of bytes.
compact(v) ==
  CASE FitsOne(v) -> <<4 * v % Byte>>
    [] ~FitsOne(v) /\ FitsTwo(v) -> LittleEndian(4 * v + 1, 2)
    [] ~FitsTwo(v) /\ FitsFour(v) -> LittleEndian(4 * v + 2, 4)
    [] OTHER -> <<(4 * (ByteLength(v) - 4) + 3) % Byte>> \o LittleEndian(v, ByteLength(v))

\* BigInt.asUintN: what does not fit is cut off, a negative number wraps.
u64le(v) == LittleEndian(v % Pow(Byte, WordBytes), WordBytes)

concatBytes(parts) == FlattenSeq(parts)

scaleBytes(bytes) == concatBytes(<<compact(Len(bytes)), bytes>>)

heartbeatSigningPayload(context, count, period) ==
  concatBytes(<<scaleBytes(context), u64le(count), u64le(period)>>)

-----------------------------------------------------------------------------
Compacts(v) ==
  /\ v >= 0
  /\ coded' = [call |-> "compact", input |-> <<v>>, bytes |-> compact(v)]

CompactThrows(v) ==
  /\ v < 0
  /\ coded' = [call |-> "threw", input |-> <<v>>, bytes |-> << >>]

SignsHeartbeat(context, count, period) ==
  coded' = [call |-> "heartbeat", input |-> <<context, count, period>>,
            bytes |-> heartbeatSigningPayload(context, count, period)]

ScaleNext ==
  \/ coded = NotCoded /\ \E v \in Integral : Compacts(v) \/ CompactThrows(v)
  \/ coded = NotCoded /\ \E context \in Contexts, count, period \in Words64 :
                             SignsHeartbeat(context, count, period)
  \/ coded # NotCoded /\ UNCHANGED coded

ScaleSpec == ScaleInit /\ [][ScaleNext]_coded

-----------------------------------------------------------------------------
\* The decoder on the other side, as SCALE defines it.
ValueOf(bytes) ==
  LET v[k \in 0 .. Len(bytes)] == IF k = 0 THEN 0 ELSE v[k - 1] + bytes[k] * Pow(Byte, k - 1)
  IN v[Len(bytes)]
From(bytes, i) == SubSeq(bytes, i, Len(bytes))
DecodeCompact(bytes) ==
  LET low(n) == [value |-> ValueOf(SubSeq(bytes, 1, n)) \div 4, rest |-> From(bytes, n + 1)]
      n == bytes[1] \div 4 + 4
  IN CASE bytes[1] % 4 = 0 -> low(1)
       [] bytes[1] % 4 = 1 -> low(2)
       [] bytes[1] % 4 = 2 -> low(4)
       [] OTHER -> [value |-> ValueOf(SubSeq(bytes, 2, n + 1)), rest |-> From(bytes, n + 2)]

\* What the chain decodes is what was encoded, and nothing is left over: a
\* compact integer of any size, and the context, count and period of a
\* heartbeat, up to the width of a u64.
ReadsBack ==
  /\ coded.call = "compact" =>
       DecodeCompact(coded.bytes) = [value |-> coded.input[1], rest |-> << >>]
  /\ coded.call = "heartbeat" =>
       LET context == coded.input[1]
           head == DecodeCompact(coded.bytes)
           words == From(head.rest, head.value + 1)
           mod(v) == v % Pow(Byte, WordBytes)
       IN /\ SubSeq(head.rest, 1, head.value) = context
          /\ ValueOf(SubSeq(words, 1, WordBytes)) = mod(coded.input[2])
          /\ ValueOf(From(words, WordBytes + 1)) = mod(coded.input[3])
=============================================================================
