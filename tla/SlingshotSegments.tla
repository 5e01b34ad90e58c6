-------------------------- MODULE SlingshotSegments --------------------------
(***************************************************************************)
(* split_client_wire_envelope_for_transport of codex-slingshot: how one    *)
(* client message becomes one envelope or a number of chunks.  Sizes are   *)
(* in bytes; the text of a message is abstracted to its size, and what an  *)
(* envelope adds around its message or chunk to Overhead.                  *)
(***************************************************************************)
EXTENDS Integers

CONSTANTS
  Target,       \* REMOTE_CONTROL_SEGMENT_TARGET_BYTES
  SegmentMax,   \* REMOTE_CONTROL_SEGMENT_MAX_BYTES
  Reassembled,  \* REMOTE_CONTROL_REASSEMBLED_MAX_BYTES
  CountMax,     \* REMOTE_CONTROL_SEGMENT_COUNT_MAX
  Overhead      \* of an envelope

\* As in the source, the target is far above the number of segments, and an
\* envelope that is over the limit has a message of more than two bytes.
ASSUME SegmentsAssumption ==
  /\ Target \in Nat \ {0} /\ SegmentMax \in Nat /\ Reassembled \in Nat /\ CountMax \in Nat
  /\ Overhead \in Nat
  /\ Target >= 2 * CountMax
  /\ SegmentMax >= Overhead + 2

Larger(a, b)  == IF a >= b THEN a ELSE b
Smaller(a, b) == IF a <= b THEN a ELSE b

\* usize::div_ceil
DivCeil(a, b) == (a + b - 1) \div b

\* The length of n bytes in base64 with padding.
Base64(n) == 4 * DivCeil(n, 3)

\* The segment_count every chunk carries.
SegmentCount(n) == Larger(2, DivCeil(n, Target))

ChunkSize(n) == Larger(1, DivCeil(n, SegmentCount(n)))

\* What raw.chunks(ChunkSize(n)) yields: how many chunks, and the length of
\* the i-th.
ChunkCount(n)  == DivCeil(n, ChunkSize(n))
ChunkLen(n, i) == Smaller(ChunkSize(n), n - (i - 1) * ChunkSize(n))

\* The ways out of the function: the whole envelope, an error, or chunks.
FitsWhole(n) == n + Overhead <= SegmentMax
Refused(n) ==
  \/ n > Reassembled
  \/ SegmentCount(n) > CountMax
  \/ \E i \in 1 .. ChunkCount(n) : Base64(ChunkLen(n, i)) + Overhead > SegmentMax
=============================================================================
