----------------------------- MODULE MCSlingshot -----------------------------
(* Instances of Slingshot for TLC.                                         *)
EXTENDS Slingshot

\* With a target of 6 and a limit of 10 bytes: 3 bytes are one envelope, 9 are
\* two chunks, 30 are over the limit of segments.
Outbound4 == [sizes |-> <<9, 3, 30, 3>>, log |-> <<>>, faults |-> 2]

Chunk(m, i, n, c, f) == [msg |-> m, seg |-> i, count |-> n, cursor |-> c, fault |-> f]
\* A message in two chunks around a whole one without a cursor; then bad
\* envelopes among sound ones: an index out of range, a chunk that disagrees
\* about the count, a message that does not decode; then, behind a sound message,
\* one that is no envelope, between the two chunks of another.
Inbound12 ==
  [sizes |-> <<>>, faults |-> 3, log |->
         << Chunk(1, 0, 2, TRUE, "none"), Chunk(2, 0, 1, FALSE, "none"),
            Chunk(1, 1, 2, TRUE, "none"), Chunk(3, 2, 2, TRUE, "index"),
            Chunk(4, 0, 2, TRUE, "none"), Chunk(4, 1, 3, TRUE, "garbled"),
            Chunk(5, 0, 2, TRUE, "garbled"), Chunk(5, 1, 2, TRUE, "none"),
            Chunk(6, 0, 1, TRUE, "none"), Chunk(7, 0, 2, TRUE, "none"),
            Chunk(8, 0, 1, TRUE, "frame"), Chunk(7, 1, 2, TRUE, "none") >>]

\* Both directions at once.
BothWays ==
  [sizes |-> <<9>>, faults |-> 1, log |->
         << Chunk(1, 0, 2, TRUE, "none"), Chunk(1, 1, 2, TRUE, "none") >>]

\* A line to send while the first envelope of the log costs every connection.
Poisoned ==
  [sizes |-> <<3>>, faults |-> 0, log |-> << Chunk(1, 0, 1, TRUE, "frame") >>]

MCWorkloads == {Outbound4, Inbound12, Poisoned, BothWays}
=============================================================================
