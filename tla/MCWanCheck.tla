----------------------------- MODULE MCWanCheck -----------------------------
(* A cable and a wireless WAN, each with the events that concern it.       *)
EXTENDS WanCheck, TLC

CONSTANTS a, b

MCTests == {a, b}
W(wlan, force, ping, kinds, nets, n) ==
  [wlan |-> wlan, force |-> force, ping |-> ping, kinds |-> kinds,
   nets |-> nets, events |-> n]

Cable == W(FALSE, None, TRUE, {"plug", "net"}, {"dead"}, 3)
Wireless == W(TRUE, None, TRUE, {"net", "wpa"}, {"portal", "dead"}, 2)
Changed == W(FALSE, None, TRUE, {"net", "reapply", "queue"}, {"nodns"}, 3)
Forced == W(FALSE, TRUE, FALSE, {"net", "plug"}, {"portal"}, 2)
Silent == W(FALSE, None, TRUE, {"net", "ip"}, {"noping", "portal"}, 2)

MCSetups == {Cable, Wireless, Changed, Forced, Silent}
=============================================================================
