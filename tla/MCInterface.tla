----------------------------- MODULE MCInterface -----------------------------
(* Interfaces of every kind with the changes that concern them.            *)
EXTENDS InterfaceAgreement, TLC

CONSTANTS x, y

C == [enabled |-> TRUE, type |-> "auto", link |-> x, stp |-> TRUE, tuned |-> FALSE,
      ipv4 |-> FALSE, gateway |-> FALSE, nameservers |-> FALSE, dhcp |-> FALSE,
      dhcp6 |-> FALSE, ipv6 |-> FALSE, delegate |-> FALSE, passthrough |-> FALSE,
      isolated |-> FALSE, noSelfRoute |-> FALSE,
      peers |-> "own", listens |-> FALSE, autonomous |-> FALSE]

Dhcp == [C EXCEPT !.dhcp = TRUE]
Dual == [C EXCEPT !.dhcp = TRUE, !.dhcp6 = TRUE, !.type = "wan"]
Static == [C EXCEPT !.ipv4 = TRUE, !.gateway = TRUE, !.nameservers = TRUE]
Lan == [C EXCEPT !.ipv4 = TRUE]
Isolated == [Lan EXCEPT !.isolated = TRUE, !.ipv6 = TRUE]
Delegated == [Lan EXCEPT !.delegate = TRUE]
Passed == [Lan EXCEPT !.passthrough = TRUE, !.noSelfRoute = TRUE]
Six == [C EXCEPT !.dhcp6 = TRUE]
Off == [C EXCEPT !.enabled = FALSE]
Other(c) == [c EXCEPT !.link = y]

S(k, configs, events, n) ==
  [kind |-> k, configs |-> configs, events |-> events,
   changes |-> n, limit |-> 2]

\* an uplink whose cable is pulled, between configurations with DHCP
Cable == S("phy", {Dhcp, [Dhcp EXCEPT !.tuned = TRUE], [Dhcp EXCEPT !.type = "wan"]},
           {"link"}, 4)
\* with DHCPv6 as well
Cable6 == S("phy", {Dual, [Dual EXCEPT !.tuned = TRUE]}, {"link"}, 3)
\* roles given by the user, and a structural change with each of them
Roles == S("phy", {None, [Static EXCEPT !.type = "wan"], [Isolated EXCEPT !.type = "lan"],
                         [Passed EXCEPT !.type = "lan", !.tuned = TRUE], Off}, {}, 4)
Vlan == S("vlan", {Lan, Other(Lan), Delegated}, {"pd"}, 4)
Removed == S("vlan", {None, Lan, Other(Isolated), Delegated}, {}, 4)
Bridge == S("bridge", {None, Lan, [Lan EXCEPT !.stp = FALSE], Delegated}, {}, 4)
Bond == S("bond", {None, Lan, [Lan EXCEPT !.isolated = TRUE], Other(Isolated)}, {}, 4)
Tun == S("tun", {None, Lan, Off, Other(Lan)}, {}, 4)
Docker == S("docker", {None, Lan, Other(Lan)}, {}, 4)
Pppoe == S("pppoe", {C, Off}, {}, 4)
Pppoe6 == S("pppoe", {Six, [Six EXCEPT !.tuned = TRUE]}, {"ppp"}, 4)
\* peers in the subnet of the tunnel, in networks of their own, as default route
Vpn == [Lan EXCEPT !.listens = TRUE]
Tunnels == S("wireguard",
  {None, Vpn, [Vpn EXCEPT !.peers = "far", !.autonomous = TRUE],
   [Vpn EXCEPT !.peers = "default", !.delegate = TRUE], [Vpn EXCEPT !.ipv6 = TRUE],
   [Vpn EXCEPT !.enabled = FALSE]}, {}, 4)
Stations == S("wg_ap", {None, Vpn, [Vpn EXCEPT !.peers = "more", !.autonomous = TRUE],
                        [Vpn EXCEPT !.peers = "more"]}, {}, 4)

MCSetups == {Cable, Cable6, Roles, Vlan, Removed, Bridge, Bond, Tun, Docker, Pppoe, Pppoe6,
             Tunnels, Stations}

\* what is proved of configurations that agree is proved of these
ASSUME MCAgreement == Agreement
=============================================================================
