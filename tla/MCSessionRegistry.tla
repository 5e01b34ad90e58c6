------------------------- MODULE MCSessionRegistry -------------------------
(***************************************************************************)
(* SessionRegistry with the functions of its connects: between them the    *)
(* calls take every path, and a call that announces the server meets one   *)
(* that does not.                                                          *)
(***************************************************************************)
EXTENDS SessionRegistry, TLC

CONSTANTS c1, c2

MCPathsOf == (c1 :> {"ssh", "alleycat"}) @@ (c2 :> {"direct", "slingshot", "bridges"})
=============================================================================
