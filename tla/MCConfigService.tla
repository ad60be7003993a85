--------------------------- MODULE MCConfigService ---------------------------
(***************************************************************************)
(* Three configurations: the first, a change of it, the first with the     *)
(* wlan adapter, and one that cannot be built.                             *)
(***************************************************************************)
EXTENDS ConfigService, TLC

CONSTANTS c1, c2, cw, cx

MCContent == {c1, c2, cw, cx}
MCAddWlan == (c1 :> cw) @@ (c2 :> c2) @@ (cw :> cw) @@ (cx :> cx)
NoWlan == [c \in MCContent |-> c]
=============================================================================
