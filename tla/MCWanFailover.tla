---------------------------- MODULE MCWanFailover ----------------------------
(* Boxes with two or three WANs, each with the events that matter to the   *)
(* type of its routing; a bound on events for each keeps them small.       *)
EXTENDS WanFailover, TLC

CONSTANTS w1, w2, w3

MCWan == {w1, w2, w3}
Two == {w1, w2}
Conf(type, order, failback) ==
  [type |-> type, order |-> order, failback |-> failback]
Box(wans, start, others, smooth, kinds, n) ==
  [wans |-> wans, start |-> start, configs |-> {start} \cup others,
   smooth |-> smooth, kinds |-> kinds, events |-> n]

Back == Conf("primary_standby", <<w1, w2>>, TRUE)
BackSwapped == Conf("primary_standby", <<w2, w1>>, TRUE)
BackOne == Conf("primary_standby", <<w1>>, TRUE)
BackThree == Conf("primary_standby", <<w1, w2, w3>>, TRUE)
Balance == Conf("load_balance", <<w1, w2>>, FALSE)

\* a device that is plugged in and out, and configurations that differ
StandbyBox == Box(Two, Back, {BackSwapped, BackOne}, FALSE,
                  {"check", "hotplug", "ip6", "reapply"}, 3)
\* smooth failover, which rebuilds nothing when an address changes
SmoothBox == Box(Two, Back, {}, TRUE, {"check", "hotplug", "ip6", "ip"}, 4)
\* three WANs and more reports than there are WANs
ThreeBox == Box(MCWan, BackThree, {}, FALSE, {"check"}, 5)
\* carriers that come and go faster than they are tested
CarrierBox == Box(Two, Back, {}, FALSE, {"check", "carrier", "flap"}, 4)
BalanceBox == Box(Two, Balance, {}, FALSE, {"check", "carrier"}, 4)

Boxes == {StandbyBox, SmoothBox, ThreeBox, CarrierBox, BalanceBox}
=============================================================================
