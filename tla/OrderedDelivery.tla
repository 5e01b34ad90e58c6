--------------------------- MODULE OrderedDelivery ---------------------------
(***************************************************************************)
(* What a reliable stream over breaking connections promises to its two    *)
(* ends: messages are numbered as they are accepted, and the far end gets  *)
(* each at most once, in order, skipping only those declared lost.         *)
(***************************************************************************)
EXTENDS Naturals, Sequences

VARIABLES
  accepted,   \* how many messages have been accepted
  lost,       \* the numbers of those that will not arrive
  got         \* the numbers that have arrived, in order of arrival

vars == <<accepted, lost, got>>

Arrived == {got[i] : i \in DOMAIN got}
LastGot == IF got = <<>> THEN 0 ELSE got[Len(got)]

Init == accepted = 0 /\ lost = {} /\ got = <<>>

\* A message is accepted, or refused once it has its number.
Accept ==
  /\ accepted' = accepted + 1
  /\ lost' \in {lost, lost \cup {accepted + 1}}
  /\ UNCHANGED got

Lose ==
  /\ \E s \in 1 .. accepted : s \notin Arrived /\ lost' = lost \cup {s}
  /\ UNCHANGED <<accepted, got>>

Receive ==
  /\ \E s \in (LastGot + 1) .. accepted :
       /\ s \notin lost
       /\ (LastGot + 1) .. (s - 1) \subseteq lost
       /\ got' = Append(got, s)
  /\ UNCHANGED <<accepted, lost>>

Next == Accept \/ Lose \/ Receive

Spec == Init /\ [][Next]_vars
=============================================================================
