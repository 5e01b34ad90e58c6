--------------------------- MODULE MCServerSession ---------------------------
(* Instances of ServerSession for TLC.                                     *)
EXTENDS ServerSession, TLC

CONSTANTS codex, pi, r1, n1

\* A request on one worker and a notification on the other.
Routes == (r1 :> codex) @@ (n1 :> pi)

OneRoute == (r1 :> codex)
=============================================================================
