------------------------------ MODULE Interface ------------------------------
(***************************************************************************)
(* One network interface: what flush(), flushFast() and apply() of         *)
(* plugins/interface/intf_base_plugin.js and of its subclasses leave in    *)
(* the kernel and on the disk while the configuration changes, the DHCP    *)
(* client obtains leases, the link goes up and the delegated IPv6 prefix   *)
(* changes.                                                                *)
(*                                                                         *)
(* "box" is the set of objects of the interface that exist: routing rules, *)
(* routes, firewall rules, addresses, files and clients, one name for what *)
(* is always made and removed together for IPv4 and IPv6.  apply() goes    *)
(* through its stages in order, each one an action, because the events of  *)
(* the link and of the clients come between them.                          *)
(***************************************************************************)
EXTENDS Naturals, Sequences, FiniteSets

CONSTANTS
  Setups,   \* what is looked at: kind, configs (None: it is
            \* removed), events (kinds of events that
            \* happen), changes (bound on reapplies), limit (bound on each kind
            \* of event)
  None

Kinds == {"phy", "vlan", "bond", "bridge", "tun", "docker", "pppoe", "wireguard", "wg_ap"}

ASSUME SetupAssumption ==
  \A s \in Setups : /\ s.kind \in Kinds
                    /\ s.changes \in Nat /\ s.limit \in Nat

VARIABLES
  setup,      \* the interface looked at
  conf,       \* networkConfig, None if there is no such instance
  next,       \* _nextConfig
  stage,      \* what the plugin loader is doing to it; "idle": lock free
  box,        \* the objects that exist
  link,       \* the parameters the link was made with, None if there is none
  waiting,    \* the events that wait for the apply lock
  plugged,    \* the IPv4 half of the handler of EVENT_IF_UP: "idle", or its
              \* next step
  plugged6,   \* its IPv6 half, likewise
  bare,       \* history: it has taken the link-local routes away, and apply()
              \* has not brought them back
  marking,    \* a markOutputConnection() that nobody waits for
  pd,         \* a prefix is delegated by the parent interface
  count       \* configurations and events so far

cable == <<plugged, plugged6, bare>>
vars == <<setup, conf, next, stage, box, link, waiting, cable, marking, pd, count>>
jobs == <<waiting, plugged, plugged6, marking>>
plan == <<setup, next>>

kind == setup.kind

WireGuard == kind \in {"wireguard", "wg_ap"}

-----------------------------------------------------------------------------
(* The role                                                                *)

TunnelIsWAN(c) == c # None /\ WireGuard /\ c.peers = "default"

IsWAN(c) ==
  \/ kind = "pppoe"
  \/ c # None /\ (c.type = "wan" \/ c.dhcp \/ (c.ipv4 /\ c.gateway))
  \/ TunnelIsWAN(c)

IsLAN(c) ==
  /\ kind # "pppoe" /\ c # None
  /\ c.type = "lan" \/ (c.ipv4 /\ ~c.dhcp /\ ~c.gateway)

HasRole(c) == IsWAN(c) \/ IsLAN(c)

IPv6Enabled(c) == c.dhcp6 \/ c.ipv6 \/ c.delegate \/ c.passthrough

\* the keys that need no teardown
Soft == {"ipv4", "gateway", "nameservers", "dhcp", "dhcp6", "ipv6", "delegate"}

\* Changed: isolation counts as a soft key too
FullButIsolated(c, new) == \E k \in DOMAIN c \ (Soft \cup {"isolated"}) : c[k] # new[k]

Full(c, new) == \E k \in DOMAIN c \ Soft : c[k] # new[k]

NoFlush ==
  CASE kind = "bridge" -> {"stp"} [] kind = "wg_ap" -> {"peers"} [] OTHER -> {}

FlushNeeded(c, new) == NoFlush = {} \/ \E k \in DOMAIN c \ NoFlush : c[k] # new[k]

-----------------------------------------------------------------------------
(* Objects.  The kernel drops the routes over a device with its last       *)
(* address, whatever table they are in; the unreachable default route is   *)
(* not over the device.                                                    *)

Over4 == {"local4", "default4", "wan4", "lan4", "dns4", "peer4"}
Over6 == {"local6", "default6", "wan6", "lan6"}
InTables == {"local4", "default4", "dns4", "local6", "default6", "unreachable"}

\* what comes with a lease, after apply() has ended
Leased == {"bound", "addr4", "local4", "default4", "dns4", "outmark"}

LanRules == {"rule3000"}
WanRules == {"rp_filter", "rule6001", "lo499", "connmark"}

Client == IF kind = "pppoe" THEN "pppd" ELSE "dhclient"

WithoutIPv4(c, b) ==
  b \ ({"addr4"} \cup Over4 \cup (IF c.dhcp THEN {"dhclient", "bound"} ELSE {}))

WithoutIPv6(c, b) ==
  b \ ({"addr6"} \cup Over6
       \cup (IF c.dhcp6 THEN {"dhcpcd6"} ELSE {})
       \cup (IF c.delegate THEN {"pdcache"} ELSE {}))

\* flushIP()
WithoutIP(c, b) ==
  IF kind = "pppoe"
  THEN b \ ({"up", "pppd", "bound", "pppconf", "dhcpcd6", "addr4", "addr6"}
            \cup Over4 \cup Over6)
  ELSE WithoutIPv6(c, WithoutIPv4(c, b))

\* a rule that is deleted by its priority goes with its mark or without
WithoutRole(c, b) ==
  LET tables == IF HasRole(c)
                THEN b \ (InTables \cup {"rule501", "lo501", "lo501marked", "rule8001",
                                        "rule10001"})
                ELSE b
      lan == IF IsLAN(c) THEN tables \ LanRules ELSE tables
  IN  IF IsWAN(c) THEN lan \ (WanRules \cup {"rule5001", "outmark"}) ELSE lan

\* the rest of flush()
Flushed(c, b) ==
  WithoutRole(c, b)
    \ ({"resolv"}
       \cup (IF c.ipv4 THEN {"wan4"} \cup (IF c.isolated THEN {} ELSE {"lan4"}) ELSE {})
       \cup (IF c.ipv6 THEN {"lan6"} ELSE {})
       \cup (IF c.delegate THEN {"pdcache"} ELSE {})
       \cup (IF c.passthrough THEN {"ndppd"} ELSE {})
       \cup (IF c.dhcp6 THEN {"dhcpcd6conf"} ELSE {})
       \cup (IF c.dhcp THEN {"dhclientconf"} ELSE {})
       \cup (IF HasRole(c) THEN {"rule5002"} ELSE {}))

\* the mesh automaton, the binding to an uplink, the open port and the file of a
\* WireGuard interface, which its flush() removes
Tunnel == {"automaton", "rule5999", "ports", "wgconf"}

\* a deleted link takes its addresses and routes with it
Unlinked(b) == b \ ({"addr4", "addr6", "up"} \cup Over4 \cup Over6 \cup Tunnel)

\* the part of flush() of a subclass
Deleted(c) == kind \in {"tun", "docker", "wireguard", "wg_ap"}
              \/ (kind \in {"vlan", "bond", "bridge"} /\ c.enabled)

-----------------------------------------------------------------------------
(* The stages of apply()                                                   *)

\* createInterface(): what exists already stays as it is, but for a bridge,
\* whose ports are brought up to date, and a WireGuard interface, which gets its
\* keys and peers by setconf or syncconf
Linked(c, old) ==
  CASE kind \in {"phy", "pppoe"} -> None
    [] kind = "bridge" -> c.link
    [] WireGuard -> <<c.link, c.peers>>
    [] OTHER -> IF old = None THEN c.link ELSE old

TunnelCreated(c, b) ==
  b \cup {"wgconf"} \cup IF c.listens /\ c.enabled THEN {"ports"} ELSE {}

Created(c, b) ==
  CASE kind = "pppoe" -> b \cup {"pppconf"}
    [] WireGuard -> TunnelCreated(c, b)
    [] OTHER -> b

Prepared(c, b) ==
  LET emptied == IF HasRole(c) THEN b \ InTables ELSE b IN
  IF HasRole(c) /\ c.enabled
  THEN emptied
       \cup {"rule501", "rule10001", IF IsWAN(c) THEN "lo501marked" ELSE "lo501"}
       \cup (IF c.noSelfRoute THEN {} ELSE {"rule8001"})
       \cup (IF IsLAN(c) THEN LanRules ELSE {})
       \cup (IF IsWAN(c) THEN WanRules ELSE {})
  ELSE emptied

\* interfaceUpDown(): a link that goes down loses its routes
UpDown(c, b) ==
  IF c.enabled
  THEN IF kind = "pppoe" THEN (b \ {"bound"}) \cup {"up", "pppd"} ELSE b \cup {"up"}
  ELSE IF kind = "pppoe" THEN b \ ({"up", "pppd", "bound", "addr4"} \cup Over4)
  ELSE b \ ({"up", "addr6"} \cup Over4 \cup Over6)

\* setHardwareAddress(), setMTU(), setSysOpts() follow the configuration
Tuned(c, b) == IF c.tuned THEN b \cup {"tuned"} ELSE b \ {"tuned"}

IPv6Applied(c, b) ==
  LET fe80 == {"local6", "default6"}
      delegated == IF c.delegate /\ pd
                   THEN b \cup {"addr6", "pdcache"} \cup fe80 ELSE b
      static == IF c.ipv6 THEN delegated \cup {"addr6"} \cup fe80 ELSE delegated
  IN  IF ~IPv6Enabled(c) THEN b \ ({"addr6"} \cup Over6)
      ELSE IF c.dhcp6 THEN b \cup {"dhcpcd6conf", "dhcpcd6"} \cup fe80
      ELSE IF c.passthrough THEN static \cup {"addr6", "ndppd"}
      ELSE static \ {"ndppd"}

Restarted(b) == (b \ {"bound"}) \cup {"dhclient"}

IPApplied(c, b) ==
  IF kind = "pppoe" THEN b
  ELSE IPv6Applied(c, IF c.dhcp THEN Restarted(b \cup {"dhclientconf"})
                      ELSE IF c.ipv4 THEN b \cup {"addr4"} ELSE b)

DnsApplied(c, b) ==
  IF kind = "pppoe" \/ c.dhcp \/ c.dhcp6 \/ c.nameservers THEN b \cup {"resolv"} ELSE b

\* there is an uplink to bind to
TunnelRouted(c, b) ==
  b \cup {"rule5999"}
    \cup (IF c.peers = "far" THEN {"peer4"} ELSE {})
    \cup (IF c.peers = "default" THEN {"default4"} ELSE {})
    \cup (IF c.autonomous THEN {"automaton"} ELSE {})

\* changeRoutingTables()
Routed(c, b) ==
  LET v6 == c.ipv6 \/ (c.delegate /\ "pdcache" \in b) IN
  (IF WireGuard THEN TunnelRouted(c, b) ELSE b)
    \cup (IF c.ipv4 THEN {"local4"} ELSE {})
    \cup (IF v6 THEN {"local6"} ELSE {})
    \cup (IF c.gateway \/ kind = "tun" THEN {"default4"} ELSE {})
    \cup (IF IsWAN(c) THEN {"unreachable", "rule5001"} ELSE {})
    \cup (IF IsLAN(c)
          THEN (IF c.ipv4 THEN {"wan4"} ELSE {}) \cup (IF v6 THEN {"wan6"} ELSE {})
               \cup (IF c.isolated THEN {}
                     ELSE {"rule5002"} \cup (IF c.ipv4 THEN {"lan4"} ELSE {})
                          \cup (IF v6 THEN {"lan6"} ELSE {}))
          ELSE {})

\* updateRouteForDNS(): through the gateway that is known by now
DnsRouted(b) ==
  IF {"default4", "resolv"} \subseteq b THEN b \cup {"dns4"} ELSE b \ {"dns4"}

Marked(b) == IF "addr4" \in b THEN b \cup {"outmark"} ELSE b

WanApplied(c, b) == IF IsWAN(c) THEN Marked(DnsRouted(b)) ELSE b

\* what apply() of c makes of a box that has nothing of the interface
Clean(c) ==
  LET there == UpDown(c, Prepared(c, Created(c, {}))) IN
  IF c = None THEN {}
  ELSE IF ~c.enabled THEN there
  ELSE WanApplied(c, Routed(c, DnsApplied(c, IPApplied(c, Tuned(c, there)))))

-----------------------------------------------------------------------------
(* The plugin loader and this interface                                    *)

Init ==
  /\ setup \in Setups
  /\ conf = None /\ next = None /\ stage = "idle"
  /\ box = {} /\ link = None
  /\ waiting = <<>> /\ plugged = "idle" /\ plugged6 = "idle" /\ bare = FALSE
  /\ marking = FALSE
  /\ pd = TRUE
  /\ count = [k \in {"config", "link", "pd"} |-> 0]

Tick(k, bound) == count[k] < bound /\ count' = [count EXCEPT ![k] = @ + 1]

\* what the flush phase of the loader does; a new instance is flushed with its
\* own configuration
Treatment(new) ==
  CASE new = None -> "flush"
    [] conf = None -> IF kind = "bridge" THEN "keep" ELSE "fast"
    [] OTHER -> IF ~FlushNeeded(conf, new) THEN "keep"
                ELSE IF Full(conf, new) THEN "flush" ELSE "fast"

\* a new configuration, or the old one because a lower interface has changed
Reapply(c) ==
  /\ stage = "idle" /\ waiting = <<>>
  /\ conf # None \/ c # None
  /\ Tick("config", setup.changes)
  /\ next' = c
  /\ conf' = IF conf = None THEN c ELSE conf
  /\ stage' = Treatment(c)
  /\ UNCHANGED <<setup, box, link, jobs, bare, pd>>

\* flushFast(), or no flush at all
FlushFast ==
  /\ stage \in {"fast", "keep"} /\ stage' = "create"
  /\ box' = IF stage = "fast" THEN WithoutIP(conf, box) ELSE box
  /\ conf' = next
  /\ UNCHANGED <<plan, link, jobs, bare, pd, count>>

FlushIP ==
  /\ stage = "flush" /\ stage' = "teardown"
  /\ box' = IF conf.enabled THEN WithoutIP(conf, box) ELSE box
  /\ UNCHANGED <<plan, conf, link, jobs, bare, pd, count>>

TearDown ==
  /\ stage = "teardown"
  /\ LET rest == IF conf.enabled THEN Flushed(conf, box) ELSE box IN
     IF Deleted(conf) THEN box' = Unlinked(rest) /\ link' = None
     ELSE box' = rest /\ UNCHANGED link
  /\ conf' = next
  /\ stage' = IF next = None THEN "idle" ELSE "create"
  /\ UNCHANGED <<plan, jobs, bare, pd, count>>

Become(at, to, b) ==
  /\ stage = at /\ stage' = to /\ box' = b
  /\ UNCHANGED <<plan, conf, jobs, pd, count>>

Create ==
  /\ Become("create", "env", Created(conf, box))
  /\ link' = Linked(conf, link) /\ UNCHANGED bare

Prepare ==
  /\ Become("env", "updown", Prepared(conf, box))
  /\ UNCHANGED <<link, bare>>

Raise ==
  /\ Become("updown", IF conf.enabled THEN "ip" ELSE "idle",
            IF conf.enabled THEN Tuned(conf, UpDown(conf, box)) ELSE UpDown(conf, box))
  /\ UNCHANGED <<link, bare>>

ApplyIP ==
  /\ Become("ip", "dns", IPApplied(conf, box))
  /\ bare' = FALSE /\ UNCHANGED link

ApplyDns == Become("dns", "routes", DnsApplied(conf, box)) /\ UNCHANGED <<link, bare>>

Route == Become("routes", "wan", Routed(conf, box)) /\ UNCHANGED <<link, bare>>

ApplyWan == Become("wan", "idle", WanApplied(conf, box)) /\ UNCHANGED <<link, bare>>

-----------------------------------------------------------------------------
(* Events                                                                  *)

\* the client obtains an address; its hooks add the routes and publish it
Lease ==
  /\ {Client, "up"} \subseteq box /\ "bound" \notin box
  /\ box' = box \cup {"bound", "addr4", "local4", "default4"}
  /\ waiting' = IF IsWAN(conf) THEN Append(waiting, [what |-> "ip", of |-> conf])
                ELSE waiting
  /\ UNCHANGED <<plan, conf, stage, link, cable, marking, pd, count>>

\* EVENT_IF_UP of a WAN with a hardware address: flushIP(4), then renewDHCPLease(),
\* and at the same time flushIP(6), then renewDHCP6Lease()
PlugIn ==
  /\ "link" \in setup.events /\ Tick("link", setup.limit)
  /\ plugged = "idle" /\ plugged6 = "idle"
  /\ kind \notin {"tun", "pppoe", "wireguard", "wg_ap"}
  /\ "up" \in box /\ conf # None /\ IsWAN(conf) /\ (conf.dhcp \/ conf.dhcp6)
  /\ plugged' = IF conf.dhcp THEN "flush" ELSE "idle"
  /\ plugged6' = IF conf.dhcp6 THEN "flush" ELSE "idle"
  /\ UNCHANGED <<plan, conf, stage, box, link, waiting, bare, marking, pd>>

PluggedFlush ==
  /\ plugged = "flush" /\ plugged' = "renew"
  /\ box' = IF conf = None THEN box \ ({"addr4"} \cup Over4) ELSE WithoutIPv4(conf, box)
  /\ UNCHANGED <<plan, conf, stage, link, waiting, plugged6, bare, marking, pd, count>>

\* Changed: a lease is not asked for while a configuration is applied
PluggedRenewIdle ==
  /\ plugged = "renew" /\ plugged' = "idle"
  /\ box' = IF stage = "idle" THEN Restarted(box) ELSE box
  /\ UNCHANGED <<plan, conf, stage, link, waiting, plugged6, bare, marking, pd, count>>

PluggedRenew ==
  /\ plugged = "renew" /\ plugged' = "idle"
  /\ box' = Restarted(box)
  /\ UNCHANGED <<plan, conf, stage, link, waiting, plugged6, bare, marking, pd, count>>

PluggedFlush6 ==
  /\ plugged6 = "flush" /\ plugged6' = "renew" /\ bare' = TRUE
  /\ box' = IF conf = None THEN box \ ({"addr6"} \cup Over6) ELSE WithoutIPv6(conf, box)
  /\ UNCHANGED <<plan, conf, stage, link, waiting, plugged, marking, pd, count>>

\* only the client is started again: the link-local routes are those of apply()
PluggedRenew6 ==
  /\ plugged6 = "renew" /\ plugged6' = "idle"
  /\ box' = box \cup {"dhcpcd6"}
  /\ UNCHANGED <<plan, conf, stage, link, waiting, plugged, bare, marking, pd, count>>

\* EVENT_PPPOE_IPV6_UP: without the lock
PppoeIpv6Up ==
  /\ "ppp" \in setup.events
  /\ {"pppd", "bound"} \subseteq box /\ "dhcpcd6" \notin box /\ conf.dhcp6
  /\ box' = IPv6Applied(conf, box)
  /\ UNCHANGED <<plan, conf, stage, link, jobs, bare, pd, count>>

\* the delegated prefix comes or goes; who follows the parent hears of it
PdChange ==
  /\ "pd" \in setup.events /\ Tick("pd", setup.limit)
  /\ pd' = ~pd
  /\ waiting' = IF /\ conf # None /\ conf.delegate /\ conf.enabled
                   /\ stage \notin {"create", "env", "updown", "ip"}
                THEN Append(waiting, [what |-> "pd", of |-> conf]) ELSE waiting
  /\ UNCHANGED <<plan, conf, stage, box, link, cable, marking>>

\* a handler has the lock; the instance may have been removed meanwhile
Handler(what, b) ==
  /\ stage = "idle" /\ waiting # <<>> /\ Head(waiting).what = what
  /\ waiting' = Tail(waiting)
  /\ box' = b
  /\ UNCHANGED <<plan, conf, stage, link, cable, pd, count>>

Handled == IF conf = None THEN Head(waiting).of ELSE conf

\* EVENT_IP_CHANGE: the marks are left to themselves
IpChanged ==
  /\ Handler("ip", DnsRouted(DnsApplied(Handled, box)))
  /\ marking' = (marking \/ IsWAN(Handled))

MarkOutputConnection ==
  /\ marking /\ marking' = FALSE
  /\ box' = Marked(box)
  /\ UNCHANGED <<plan, conf, stage, link, waiting, cable, pd, count>>

\* EVENT_PD_CHANGE: reapplyIpv6Settings()
PdChanged ==
  /\ Handler("pd", Routed(Handled, IPv6Applied(Handled, WithoutIPv6(Handled, box))))
  /\ UNCHANGED marking

Loader == FlushFast \/ FlushIP \/ TearDown \/ Create \/ Prepare \/ Raise
          \/ ApplyIP \/ ApplyDns \/ Route \/ ApplyWan
Handlers == IpChanged \/ PdChanged

Next ==
  \/ \E c \in setup.configs : Reapply(c)
  \/ Loader \/ Handlers \/ MarkOutputConnection
  \/ PlugIn \/ PluggedFlush \/ PluggedRenew \/ PluggedFlush6 \/ PluggedRenew6
  \/ Lease \/ PppoeIpv6Up \/ PdChange

\* A command that was started ends, and a DHCP client is answered.
Spec == /\ Init /\ [][Next]_vars
        /\ WF_vars(Loader) /\ WF_vars(Handlers) /\ WF_vars(MarkOutputConnection)
        /\ WF_vars(PluggedFlush) /\ WF_vars(PluggedRenew)
        /\ WF_vars(PluggedFlush6) /\ WF_vars(PluggedRenew6) /\ WF_vars(Lease)

-----------------------------------------------------------------------------
(* Properties                                                              *)

Objects ==
  Over4 \cup Over6 \cup InTables \cup Leased \cup LanRules \cup WanRules
  \cup {"addr6", "rule501", "rule8001", "rule10001", "lo501", "lo501marked",
        "rule5001", "rule5002", "up", "tuned", "resolv", "pdcache", "ndppd",
        "dhclient", "dhclientconf", "dhcpcd6", "dhcpcd6conf", "pppd", "pppconf"}
  \cup Tunnel

\* The type of every variable.
TypeOK ==
  /\ setup \in Setups
  /\ conf \in setup.configs \cup {None} /\ next \in setup.configs \cup {None}
  /\ stage \in {"idle", "fast", "keep", "flush", "teardown", "create", "env",
                "updown", "ip", "dns", "routes", "wan"}
  /\ stage \notin {"idle", "fast", "flush", "keep", "teardown"} => conf = next
  /\ box \subseteq Objects
  /\ {plugged, plugged6} \subseteq {"idle", "flush", "renew"}
  /\ {bare, marking, pd} \subseteq BOOLEAN

AtRest == stage = "idle" /\ waiting = <<>> /\ plugged = "idle" /\ plugged6 = "idle" /\ ~marking

Uplink == conf # None /\ conf.enabled /\ IsWAN(conf)

\* a lease may be there or not; the hardware stays up, and with its MTU when it
\* is no longer used; the name servers of an address that was obtained while the
\* uplink was switched off are written when it is off; after its cable was pulled
\* an uplink with DHCPv6 is without its link-local routes until it is applied
Optional ==
  (IF kind = "pppoe" THEN {"dhcpcd6", "dhcpcd6conf", "local6", "default6"} ELSE {})
  \cup (IF Uplink /\ (conf.dhcp \/ kind = "pppoe") THEN Leased ELSE {})
  \cup (IF conf = None THEN {"up"} ELSE {})
  \cup (IF conf = None \/ ~conf.enabled THEN {"tuned"} ELSE {})
  \cup (IF kind = "pppoe" /\ conf # None /\ ~conf.enabled THEN {"resolv"} ELSE {})
  \cup (IF Uplink /\ conf.dhcp6 /\ bare THEN {"local6", "default6"} ELSE {})

SameAsNew ==
  /\ box \ Optional = Clean(conf) \ Optional
  /\ link = IF conf = None THEN None ELSE Linked(conf, None)

\* Whatever configurations came before and whatever happened meanwhile: once
\* everything is done, the box holds of the interface exactly what a box that
\* starts with this configuration would (flush() and apply()), except for what is
\* optional.
NothingLeft == AtRest => SameAsNew

\* An uplink with a dynamic address ends up with its address, its routes, the
\* routes to its DNS servers and the mark of its connections, whatever order
\* the lease, the cable and the configuration came in (onEvent(), apply()).
Served ==
  <>[](Uplink /\ (conf.dhcp \/ kind = "pppoe") => Leased \subseteq box)
=============================================================================
