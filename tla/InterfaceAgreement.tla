-------------------------- MODULE InterfaceAgreement --------------------------
(***************************************************************************)
(* The configurations of an interface that the code of Interface brings    *)
(* about one after the other without a fault.  Each condition leaves out   *)
(* one thing that it does not put right.                                   *)
(***************************************************************************)
EXTENDS Interface

-----------------------------------------------------------------------------
(* The role, for a kind of interface                                       *)

Wg(k) == k \in {"wireguard", "wg_ap"}

WanOf(k, c) ==
  \/ k = "pppoe" \/ c.type = "wan"
  \/ c.dhcp \/ (c.ipv4 /\ c.gateway)
  \/ Wg(k) /\ c.peers = "default"

LanOf(k, c) ==
  k # "pppoe" /\ (c.type = "lan" \/ (c.ipv4 /\ ~c.dhcp /\ ~c.gateway))

\* name servers are written
Named(k, c) == k = "pppoe" \/ c.dhcp \/ c.dhcp6 \/ c.nameservers

-----------------------------------------------------------------------------
(* The configurations that agree                                           *)

Keys == {"enabled", "type", "link", "stp", "tuned", "ipv4", "gateway", "nameservers",
         "dhcp", "dhcp6", "ipv6", "delegate", "passthrough", "isolated", "noSelfRoute",
         "peers", "listens", "autonomous"}

Same(b, c, keys) == \A x \in keys : b[x] = c[x]

Given(s) == s.configs \ {None}

\* a change of soft keys keeps the role and what flush() alone takes away, as
\* only flushIP() goes before it
RolesKept(k, b, c) ==
  /\ (WanOf(k, b) <=> WanOf(k, c)) /\ (LanOf(k, b) <=> LanOf(k, c))
  /\ (b.dhcp <=> c.dhcp) /\ (b.dhcp6 <=> c.dhcp6)
  /\ (Named(k, b) <=> Named(k, c))
  /\ WanOf(k, b) /\ ~b.dhcp => (b.ipv4 <=> c.ipv4)

\* an event that waits for the lock is never handled for an instance that was
\* removed, disabled or made a LAN meanwhile
LeasesAgree(s) ==
  /\ s.kind = "pppoe" => None \notin s.configs
  /\ s.kind # "pppoe" /\ (\E c \in Given(s) : c.dhcp) =>
       None \notin s.configs /\ \A c \in Given(s) : c.enabled /\ WanOf(s.kind, c)

\* the cable may be pulled
Pluggable(s) == "link" \in s.events /\ s.kind \notin {"tun", "pppoe", "wireguard", "wg_ap"}

\* it is that of an uplink which stays one with DHCP, and with DHCPv6 if it has
\* that: the handler empties the tables and only starts the clients again
CablesAgree(s) ==
  Pluggable(s) =>
    /\ \A c \in Given(s) : c.dhcp /\ ~c.ipv4 /\ (c.dhcp6 => ~c.ipv6)
    /\ \A b, c \in Given(s) : b.dhcp6 <=> c.dhcp6

\* who follows the parent interface is always flushed before it is applied, and
\* is neither removed nor disabled while a handler waits
PrefixesAgree(s) ==
  "pd" \in s.events =>
    /\ s.kind \notin {"bridge", "wg_ap", "pppoe"} /\ None \notin s.configs
    /\ \A c \in Given(s) : c.enabled

\* peers that come and go without a flush are neither a default route nor in
\* networks of their own
PeersAgree(s, b, c) ==
  s.kind = "wg_ap" /\ Same(b, c, Keys \ {"peers"}) =>
    /\ (b.peers = "far" <=> c.peers = "far")
    /\ (b.peers = "default" <=> c.peers = "default")

\* the link of an interface that is disabled is not deleted
LinksAgree(s) ==
  \A b \in Given(s) : ~b.enabled =>
    /\ s.kind \in {"vlan", "bond", "bridge"} => None \notin s.configs
    /\ s.kind \in {"vlan", "bond"} => \A c \in Given(s) : c.link = b.link

Agrees(s) ==
  /\ \A c \in Given(s) : DOMAIN c = Keys
  /\ LeasesAgree(s) /\ CablesAgree(s) /\ PrefixesAgree(s) /\ LinksAgree(s)
  /\ \A b, c \in Given(s) :
       /\ b.enabled /\ c.enabled /\ Same(b, c, Keys \ Soft) => RolesKept(s.kind, b, c)
       /\ PeersAgree(s, b, c)

Agreement == \A s \in Setups : Agrees(s)
===============================================================================
