------------------------------ MODULE Services ------------------------------
(***************************************************************************)
(* The plugins that run a service on an interface: plugins/dns, dhcp,      *)
(* mdns_reflector, sshd, upnp, igmp_proxy, mroute, icmp, docker, nat and   *)
(* nat_passthrough, a few instances of one of them at a time.              *)
(*                                                                         *)
(* An instance writes files and rules into the box, which other instances  *)
(* of its class share, from what its interface and the routing plugin look *)
(* like while it is applied, and asks for a restart of a daemon that may   *)
(* serve all of them. The plugin loader flushes and applies the instances  *)
(* of a class concurrently; addresses and WANs change meanwhile.           *)
(***************************************************************************)
EXTENDS Naturals, FiniteSets

CONSTANTS
  Inst,     \* instances of the class; each has an interface of its name
  Address,  \* addresses an interface may have
  Wan,      \* uplinks
  Setups,   \* what is looked at: kind (the plugin), plans (configurations),
            \* moves (things that change meanwhile), limit, proto (the protocol
            \* that an instance of nat_passthrough is named for), spare (the
            \* uplink that is not chosen: extIntf, or the one whose name
            \* servers are used while no WAN is active)
  None

Kinds == {"dns", "default", "dhcp", "mdns", "sshd", "upnp", "igmp", "mroute", "icmp",
          "docker", "nat", "pass"}

\* The configuration of an instance: on (enabled), wan (follows the active WAN),
\* v (the rest of it)
Conf == [on : BOOLEAN, wan : BOOLEAN, v : 1 .. 2]

ASSUME SetupAssumption ==
  \A s \in Setups :
    /\ s.kind \in Kinds /\ s.proto \in [Inst -> {"pptp", "l2tp", "ipsec", "h323", "sip"}]
    /\ s.plans \subseteq [conf : [Inst -> Conf \cup {None}], on : [Inst -> BOOLEAN]]
    /\ s.moves \subseteq {"config", "ip", "wan", "plug", "prefix"}
    /\ s.limit \in Nat /\ s.spare \in Wan \cup {None}

ASSUME AddressAssumption ==
  /\ Address # {} /\ None \notin Address \cup Inst
  /\ \A files \in SUBSET ({"conf"} \X Inst \X Address) : files # None

\* what an instance reads while it is applied
Views == [up : BOOLEAN, on : BOOLEAN, ip : Address, wan : Wan \cup {None},
          add : SUBSET (1 .. 2), del : SUBSET (1 .. 2)]

ASSUME ViewAssumption == None \notin Views

VARIABLES
  setup,      \* what is looked at
  phase,      \* of the reapply: idle, remove, flush, apply
  next,       \* the configuration that is being applied
  conf,       \* networkConfig of each instance, None if there is none
  todo,       \* the instances this phase still has to see
  need,       \* _reapplyNeeded
  subs,       \* the plugins an instance follows: intf, routing
  view,       \* what an instance that is being applied has read, else None
  mem,        \* the addresses it remembers: _ip4s, _ip6s, _currentExtIp4, _oifHWAddrs
  nat,        \* subnetsState of the uplink: users, subnets
  scheduled,  \* pl.scheduleReapply() was called
  intf,       \* of each interface: on (enabled), up (present), ip
  wan,        \* the active WAN, None if there is none
  plug,       \* interfaces whose event of presence waits for the lock
  box,        \* the files and rules, <<what, owner, detail>>
  daemon,     \* the files that the daemons were started with
  timer,      \* _restartTask, _reloadTask
  script,     \* what reload_sshd.sh of an instance has read
  lost,       \* <<instance, what went wrong>>: see Observation
  count       \* changes so far, by move

loader == <<phase, next, conf, todo, need, subs, view, mem, nat>>
world == <<intf, wan, plug>>
vars == <<setup, loader, scheduled, world, box, daemon, timer, script, lost, count>>

kind == setup.kind
There(c) == {i \in Inst : c[i] # None}

Own(what, i, b) == {o \in b : o[1] \in what /\ o[2] = i}
Without(what, i, b) == b \ Own(what, i, b)
Set(what, i, detail, b) == Without({what}, i, b) \cup {<<what, i, detail>>}
Files(b) == {o \in b : o[1] = "conf"}

-----------------------------------------------------------------------------
(* flush() and apply() of each plugin: what they leave of the box b. c is  *)
(* the configuration, w what was read of the interface and the WANs.       *)

DnsFlushed(i, b) == Without({"conf", "resolv"}, i, b)

Upstream(w) == IF w.wan = None THEN setup.spare ELSE w.wan

Resolv(i, c, w, b) ==
  IF ~c.wan THEN Set("resolv", i, c.v, b)
  ELSE IF Upstream(w) = None THEN b ELSE Set("resolv", i, Upstream(w), b)

DnsApplied(i, c, w, b) ==
  IF w.up /\ w.on /\ w.ip # None
  THEN Resolv(i, c, w, DnsFlushed(i, b) \cup {<<"conf", i, None>>})
  ELSE DnsFlushed(i, b)

\* the instance called default, for the box itself
DefaultApplied(i, c, w, b) == Resolv(i, c, w, DnsFlushed(i, b))

DhcpFlushed(i, b) == Without({"conf"}, i, b)
DhcpApplied(i, c, w, b) == IF w.up THEN Set("conf", i, c.v, b) ELSE b

MdnsFlushed(i, b) == Without({"conf"}, i, b)
MdnsApplied(i, c, w, b) ==
  IF ~c.on THEN Without({"conf"}, i, b)
  ELSE IF w.on /\ w.up THEN Set("conf", i, None, b) ELSE b

SshdFlushed(i, b) == Without({"conf", "accept", "drop"}, i, b)
SshdApplied(i, c, w, b) ==
  IF c.on
  THEN LET b1 == IF w.ip = None THEN b ELSE Set("conf", i, w.ip, b)
       IN  Set("accept", i, None, Without({"drop"}, i, b1))
  ELSE Set("drop", i, None, Without({"conf", "accept"}, i, b))

\* Changed: the jump of the external address is forgotten
JumpForgotten(i, b) == Without({"conf", "filter", "post"}, i, b)
UpnpFlushed(i, b) ==
  Without({"conf", "filter", "post"}, i, b) \ {<<"jump", i, a>> : a \in mem[i]}
External(c, w) == IF c.wan THEN w.wan ELSE setup.spare
UpnpApplied(i, c, w, b) ==
  IF External(c, w) = None \/ w.ip = None THEN b
  ELSE Set("conf", i, <<External(c, w), w.ip>>, b)
         \cup {<<"jump", i, External(c, w)>>, <<"filter", i, None>>, <<"post", i, None>>}

\* the chain and the file are shared, and there can be no other instance
Alone(i) == There(conf) = {i}
IgmpFlushed(i, b) == b \ {o \in b : o[1] = "igmp"}
IgmpApplied(i, c, w, b) ==
  IF w.up /\ Alone(i)
  THEN (b \ Files(b)) \cup {<<"conf", i, c.v>>, <<"igmp", i, c.v>>}
  ELSE b

\* v routes, each to an interface of its own; the last one is remembered
MrouteFlushed(i, b) ==
  Without({"conf"}, i, b) \ {<<what, i, a>> : what \in {"ttl", "hw"}, a \in mem[i]}
MrouteApplied(i, c, w, b) ==
  IF w.up
  THEN Set("conf", i, c.v, b)
         \cup (IF w.ip = None THEN {} ELSE {<<"ttl", i, w.ip>>})
         \cup {<<"hw", i, route>> : route \in 1 .. c.v}
  ELSE b

IcmpFlushed(i, b) == Without({"accept", "drop"}, i, b)
IcmpApplied(i, c, w, b) ==
  IF c.on THEN Set("accept", i, None, Without({"drop"}, i, b))
  ELSE Set("drop", i, None, Without({"accept"}, i, b))

\* the compose file stays
DockerFlushed(i, b) == b
DockerApplied(i, c, w, b) == Set("conf", i, c, b)

\* addresses that are no longer those of the interface go, and the subnets of
\* the uplink with its last user; on stands for ipv6
Snat(c) == {"snat"} \cup (IF c.on THEN {"snat6"} ELSE {})
NatFlushed(i, b) ==
  LET own == b \ {<<what, i, a>> : what \in Snat(conf[i]), a \in mem[i]}
  IN  IF nat.users \subseteq {i} THEN own \ {o \in own : o[1] = "subnet"} ELSE own
NatApplied(i, c, w, b) ==
  LET shared == (b \cup {<<"subnet", None, s>> : s \in w.add})
                  \ {<<"subnet", None, s>> : s \in w.del}
  IN  IF ~w.on THEN NatFlushed(i, shared)
      ELSE (shared \ {<<what, i, a>> : what \in Snat(c), a \in mem[i] \ {w.ip}})
             \cup {<<what, i, w.ip>> : what \in IF w.ip = None THEN {} ELSE Snat(c)}

\* kernel modules, helpers and the rules of a protocol
Modules == {"pptp", "h323", "sip"}
Helped == {"pptp", "sip"}
Dropped == {"pptp", "l2tp", "ipsec"}
Parts(i, table) ==
  {<<part, i, None>> : part \in {q \in DOMAIN table : setup.proto[i] \in table[q]}}
PassFlushed(i, b) ==
  b \ Parts(i, [module |-> Modules, helper |-> Helped, drop |-> Dropped])
PassApplied(i, c, w, b) ==
  LET open == Parts(i, [module |-> Modules, helper |-> Helped, accept |-> {"pptp"}])
      shut == Parts(i, [drop |-> Dropped])
  IN  IF c.on THEN (b \ shut) \cup open ELSE (b \ open) \cup shut

Flushed(i, b) ==
  CASE kind = "dns"    -> DnsFlushed(i, b)    [] kind = "default" -> DnsFlushed(i, b)
    [] kind = "dhcp"   -> DhcpFlushed(i, b)   [] kind = "mdns"    -> MdnsFlushed(i, b)
    [] kind = "sshd"   -> SshdFlushed(i, b)   [] kind = "upnp"    -> UpnpFlushed(i, b)
    [] kind = "igmp"   -> IgmpFlushed(i, b)   [] kind = "mroute"  -> MrouteFlushed(i, b)
    [] kind = "icmp"   -> IcmpFlushed(i, b)   [] kind = "docker"  -> DockerFlushed(i, b)
    [] kind = "nat"    -> NatFlushed(i, b)    [] kind = "pass"    -> PassFlushed(i, b)

Applied(i, c, w, b) ==
  CASE kind = "dns"    -> DnsApplied(i, c, w, b)
    [] kind = "default" -> DefaultApplied(i, c, w, b)
    [] kind = "dhcp"   -> DhcpApplied(i, c, w, b)
    [] kind = "mdns"   -> MdnsApplied(i, c, w, b)
    [] kind = "sshd"   -> SshdApplied(i, c, w, b)
    [] kind = "upnp"   -> UpnpApplied(i, c, w, b)
    [] kind = "igmp"   -> IgmpApplied(i, c, w, b)
    [] kind = "mroute" -> MrouteApplied(i, c, w, b)
    [] kind = "icmp"   -> IcmpApplied(i, c, w, b)
    [] kind = "docker" -> DockerApplied(i, c, w, b)
    [] kind = "nat"    -> NatApplied(i, c, w, b)
    [] kind = "pass"   -> PassApplied(i, c, w, b)

\* what an instance that has been applied remembers of it
Remembered(i, c, w) ==
  CASE kind = "upnp" /\ External(c, w) # None /\ w.ip # None -> {External(c, w)}
    [] kind = "mroute" /\ w.up -> {c.v} \cup ({w.ip} \ {None})
    [] kind = "nat" -> IF w.on THEN {w.ip} \ {None} ELSE {}
    [] OTHER -> mem[i]

\* subnetsState without a user, and with one
Unused(i) == [users |-> nat.users \ {i},
              subnets |-> IF nat.users \subseteq {i} THEN {} ELSE nat.subnets]
Used(i) == [users |-> nat.users \cup {i}, subnets |-> 1 .. conf[i].v]

\* what an instance that is being applied reads
Seen(i) == [up |-> intf[i].up, on |-> intf[i].on, ip |-> intf[i].ip, wan |-> wan,
            add |-> (1 .. conf[i].v) \ nat.subnets, del |-> nat.subnets \ (1 .. conf[i].v)]

\* the plugins it subscribes to
FollowsWan(i, w) ==
  \/ kind = "dns" /\ w.up /\ w.on /\ w.ip # None
  \/ kind \in {"default", "upnp"}
FollowsIntf(i, w) ==
  \/ kind \in {"dns", "dhcp", "mroute", "docker", "nat"}
  \/ kind \in {"mdns", "sshd"} /\ conf[i].on
  \/ kind = "upnp" /\ External(conf[i], w) # None
  \/ kind = "igmp" /\ Alone(i)
Follows(i, w) == (IF FollowsIntf(i, w) THEN {"intf"} ELSE {})
                   \cup (IF conf[i].wan /\ FollowsWan(i, w) THEN {"routing"} ELSE {})

-----------------------------------------------------------------------------
(* Daemons                                                                 *)

\* one for all instances, restarted some time after it was asked for; one for
\* all, restarted at once; and one for each instance
Later == {"dns", "default", "dhcp", "mdns"}
AtOnce == {"mroute"}
Each == {"upnp", "igmp", "docker"}

\* is the daemon to be started once the instance is applied?
Starts(i, c, w) ==
  CASE kind = "dns" -> w.up /\ w.on /\ w.ip # None
    [] kind \in {"dhcp", "mroute"} -> w.up
    [] kind = "mdns" -> TRUE
    [] kind = "upnp" -> External(c, w) # None /\ w.ip # None
    [] kind = "igmp" -> w.up /\ Alone(i) /\ c.on
    [] kind = "docker" -> c.on
    [] OTHER -> FALSE

Stopped(i) ==
  /\ timer' = (timer \/ kind \in Later)
  /\ daemon' = IF kind \in Each THEN Without({"conf"}, i, daemon)
               ELSE IF kind \in AtOnce THEN Files(box') ELSE daemon
  /\ script' = IF kind = "sshd" THEN [script EXCEPT ![i] = Files(box')] ELSE script

\* Changed: only what is taken away is made known
StartedByFlush(i, w) == UNCHANGED <<timer, daemon, script>>

Started(i, w) ==
  /\ timer' = (timer \/ (kind \in Later /\ Starts(i, conf[i], w)))
  /\ daemon' = IF kind \in Each /\ Starts(i, conf[i], w)
               THEN Without({"conf"}, i, daemon) \cup Own({"conf"}, i, box')
               ELSE IF kind \in AtOnce /\ Starts(i, conf[i], w) THEN Files(box') ELSE daemon
  /\ script' = IF kind = "sshd" THEN [script EXCEPT ![i] = Files(box')] ELSE script

-----------------------------------------------------------------------------
(* The plugin loader                                                       *)

NoPlan == [conf |-> [i \in Inst |-> None], on |-> [i \in Inst |-> TRUE]]

Init ==
  /\ setup \in Setups
  /\ phase = "idle" /\ next = NoPlan /\ conf = NoPlan.conf /\ todo = {} /\ need = {}
  /\ subs = [i \in Inst |-> {}] /\ view = [i \in Inst |-> None]
  /\ mem = [i \in Inst |-> {}] /\ nat = [users |-> {}, subnets |-> {}]
  /\ scheduled = FALSE
  /\ intf \in [Inst -> [on : {TRUE}, up : {TRUE}, ip : {CHOOSE a \in Address : TRUE}]]
  /\ wan = setup.spare /\ plug = {}
  /\ box = {} /\ daemon = {} /\ timer = FALSE /\ script = [i \in Inst |-> None]
  /\ lost = {} /\ count = [m \in {"config", "ip", "wan", "plug", "prefix"} |-> 0]

Tick(m) ==
  /\ m \in setup.moves /\ count[m] < setup.limit
  /\ count' = [count EXCEPT ![m] = @ + 1]

\* reapply() of a new configuration
Reapply(p) ==
  /\ phase = "idle" /\ phase' = "remove" /\ Tick("config")
  /\ next' = p
  /\ todo' = There(conf) \ There(p.conf)
  /\ need' = need \cup {i \in There(p.conf) : conf[i] # p.conf[i]}
                  \cup {i \in Inst : "intf" \in subs[i] /\ p.on[i] # intf[i].on}
  /\ UNCHANGED <<setup, conf, subs, view, mem, nat, scheduled, world, box, daemon, timer,
                 script, lost>>

\* the reapply that was scheduled, of the configuration in effect
Rerun ==
  /\ phase = "idle" /\ phase' = "flush"
  /\ scheduled /\ scheduled' = FALSE
  /\ next' = [conf |-> conf, on |-> [i \in Inst |-> intf[i].on]]
  /\ todo' = There(conf)
  /\ UNCHANGED <<setup, conf, need, subs, view, mem, nat, world, box, daemon, timer,
                 script, lost, count>>

Remove(i) ==
  /\ phase = "remove" /\ i \in todo /\ todo' = todo \ {i}
  /\ box' = Flushed(i, box) /\ Stopped(i)
  /\ conf' = [conf EXCEPT ![i] = None] /\ mem' = [mem EXCEPT ![i] = {}]
  /\ nat' = Unused(i)
  /\ need' = need \ {i} /\ subs' = [subs EXCEPT ![i] = {}]
  /\ UNCHANGED <<setup, phase, next, view, scheduled, world, lost, count>>

Flush(i) ==
  /\ phase = "flush" /\ i \in todo /\ todo' = todo \ {i}
  /\ IF i \in need
     THEN /\ subs' = [subs EXCEPT ![i] = {}]
          /\ IF kind = "nat" THEN UNCHANGED <<box, timer, daemon, script>>
             ELSE box' = Flushed(i, box) /\ Stopped(i)
     ELSE UNCHANGED <<subs, box, timer, daemon, script>>
  /\ conf' = [conf EXCEPT ![i] = next.conf[i]]
  /\ UNCHANGED <<setup, phase, next, need, view, mem, nat, scheduled, world, lost, count>>

\* every instance has been seen, and every script has ended; interfaces are
\* applied before the services
Turn ==
  /\ phase # "idle" /\ todo = {} /\ \A i \in Inst : script[i] = None
  /\ phase' = CASE phase = "remove" -> "flush" [] phase = "flush" -> "apply"
                [] phase = "apply" -> "idle"
  /\ todo' = CASE phase = "remove" -> There(next.conf) [] phase = "flush" -> There(conf)
               [] phase = "apply" -> {}
  /\ intf' = IF phase = "flush" THEN [i \in Inst |-> [intf[i] EXCEPT !.on = next.on[i]]]
             ELSE intf
  /\ UNCHANGED <<setup, next, conf, need, subs, view, mem, nat, scheduled, wan, plug, box,
                 daemon, timer, script, lost, count>>

\* apply() subscribes and reads; the instance was not flushed if it still follows
\* someone
Look(i) ==
  /\ phase = "apply" /\ i \in todo \cap need /\ view[i] = None
  /\ view' = [view EXCEPT ![i] = Seen(i)]
  /\ subs' = [subs EXCEPT ![i] = @ \cup Follows(i, Seen(i))]
  /\ nat' = IF kind = "nat" THEN Used(i) ELSE nat
  /\ lost' = (lost \ {<<i, "event">>})
              \cup (IF subs[i] # {} THEN {<<i, "flush">>} ELSE {})
  /\ UNCHANGED <<setup, phase, next, conf, todo, need, mem, scheduled, world, box, daemon,
                 timer, script, count>>

\* there is nothing to apply
Skip(i) ==
  /\ phase = "apply" /\ i \in todo \ need /\ todo' = todo \ {i}
  /\ UNCHANGED <<setup, phase, next, conf, need, subs, view, mem, nat, scheduled, world,
                 box, daemon, timer, script, lost, count>>

Finished(i) == /\ todo' = todo \ {i} /\ need' = need \ {i}
               /\ view' = [view EXCEPT ![i] = None]

\* apply() writes, and asks for the restart
Build(i) ==
  /\ view[i] # None /\ script[i] = None
  /\ box' = Applied(i, conf[i], view[i], box)
  /\ Started(i, view[i])
  /\ mem' = [mem EXCEPT ![i] = Remembered(i, conf[i], view[i])]
  /\ nat' = IF kind = "nat" /\ ~view[i].on THEN Unused(i) ELSE nat
  /\ IF kind = "sshd" THEN UNCHANGED <<todo, need, view>> ELSE Finished(i)
  /\ UNCHANGED <<setup, phase, next, conf, subs, scheduled, world, lost, count>>

\* reload_sshd.sh writes the file of all instances and reloads the daemon
Install(i) ==
  /\ script[i] # None /\ script' = [script EXCEPT ![i] = None]
  /\ daemon' = script[i]
  /\ IF view[i] = None THEN UNCHANGED <<todo, need, view>> ELSE Finished(i)
  /\ lost' = lost \cup (IF \E j \in Inst \ {i} : script[j] # None
                        THEN {<<None, "script">>} ELSE {})
  /\ UNCHANGED <<setup, phase, next, conf, subs, mem, nat, scheduled, world, box, timer,
                 count>>

\* the timer of the restart
Fire ==
  /\ timer /\ timer' = FALSE
  /\ daemon' = Files(box)
  /\ UNCHANGED <<setup, loader, scheduled, world, box, script, lost, count>>

-----------------------------------------------------------------------------
(* Events                                                                  *)

\* Changed: nobody looks again
FlaggedOnly(S) == need' = need \cup S /\ UNCHANGED <<scheduled, lost>>

\* onEvent() of those in S; it is in vain for one that is being applied
Flagged(S) ==
  /\ need' = need \cup S
  /\ scheduled' = (scheduled \/ S # {})
  /\ lost' = lost \cup {<<i, "event">> : i \in {j \in S : view[j] # None}}

\* EVENT_IP_CHANGE
IpChange(i, a) ==
  /\ kind \in {"dns", "mdns", "sshd", "upnp", "igmp"} /\ Tick("ip")
  /\ a # intf[i].ip /\ intf' = [intf EXCEPT ![i].ip = a]
  /\ Flagged({j \in {i} : "intf" \in subs[j]})
  /\ UNCHANGED <<setup, phase, next, conf, todo, subs, view, mem, nat, wan, plug, box,
                 daemon, timer, script>>

\* EVENT_WAN_SWITCHED
WanSwitch(x) ==
  /\ Tick("wan") /\ x # wan /\ wan' = x
  /\ Flagged({j \in Inst : "routing" \in subs[j]})
  /\ UNCHANGED <<setup, phase, next, conf, todo, subs, view, mem, nat, intf, plug, box,
                 daemon, timer, script>>

\* a device comes or goes; its event waits for the apply lock
Plug(i) ==
  /\ Tick("plug") /\ intf' = [intf EXCEPT ![i].up = ~@]
  /\ plug' = plug \cup {i}
  /\ UNCHANGED <<setup, loader, scheduled, wan, box, daemon, timer, script, lost>>

Plugged(i) ==
  /\ phase = "idle" /\ i \in plug /\ plug' = plug \ {i}
  /\ Flagged({j \in {i} : "intf" \in subs[j]})
  /\ UNCHANGED <<setup, phase, next, conf, todo, subs, view, mem, nat, intf, wan, box,
                 daemon, timer, script, count>>

\* reapplyIpv6Settings() of the interface, with the apply lock
Prefix(i, a) ==
  /\ phase = "idle" /\ kind = "nat" /\ Tick("prefix")
  /\ a # intf[i].ip /\ intf' = [intf EXCEPT ![i].ip = a]
  /\ Flagged({j \in {i} : "intf" \in subs[j]})
  /\ UNCHANGED <<setup, phase, next, conf, todo, subs, view, mem, nat, wan, plug, box,
                 daemon, timer, script>>

Step(i) == Remove(i) \/ Flush(i) \/ Look(i) \/ Skip(i) \/ Build(i) \/ Install(i)

Next ==
  \/ \E p \in setup.plans : Reapply(p)
  \/ Rerun \/ Turn \/ Fire
  \/ \E i \in Inst : \/ Step(i) \/ Plug(i) \/ Plugged(i)
                     \/ \E a \in Address : IpChange(i, a) \/ Prefix(i, a)
  \/ \E x \in Wan \cup {None} : WanSwitch(x)

\* Commands end, timers fire, and the apply lock is passed on.
Spec == /\ Init /\ [][Next]_vars
        /\ WF_vars(Rerun) /\ WF_vars(Turn) /\ WF_vars(Fire)
        /\ \A i \in Inst : WF_vars(Step(i)) /\ WF_vars(Plugged(i))

-----------------------------------------------------------------------------
(* Properties                                                              *)

Tags == {"conf", "resolv", "accept", "drop", "jump", "filter", "post", "igmp", "ttl", "hw",
         "snat", "snat6", "subnet", "module", "helper"}

\* The type of every variable.
TypeOK ==
  /\ setup \in Setups /\ phase \in {"idle", "remove", "flush", "apply"}
  /\ next \in setup.plans \/ next.conf \in [Inst -> Conf \cup {None}]
  /\ conf \in [Inst -> Conf \cup {None}] /\ todo \cup need \subseteq Inst
  /\ subs \in [Inst -> SUBSET {"intf", "routing"}]
  /\ \A o \in box \cup daemon : o[1] \in Tags /\ o[2] \in Inst \cup {None}
  /\ nat.users \subseteq There(conf) \/ phase # "idle"
  /\ {scheduled, timer} \subseteq BOOLEAN
  /\ wan \in Wan \cup {None} /\ plug \subseteq Inst

\* A restart is never lost: whenever the loader rests, the daemon was started with
\* the files that are there, or its restart is to come (_restartService(),
\* reloadMDNSReflector()), unless two runs of reload_sshd.sh overlapped.
RunsTheFiles ==
  phase = "idle" /\ kind \notin Each =>
    \/ timer \/ <<None, "script">> \in lost
    \/ daemon = IF kind \in {"nat", "icmp", "pass", "default"} THEN {} ELSE Files(box)

\* what the plugins are known to leave behind
Left(o) ==
  \/ kind = "docker" /\ o[1] = "conf"   \* the converted compose file
  \/ kind = "igmp" /\ o[1] = "conf"     \* igmpproxy.conf
  \/ kind = "mroute" /\ o[1] = "hw"     \* of all routes but the last
  \/ kind = "nat" /\ o[1] = "snat6"     \* when ipv6 is turned off
  \/ kind = "pass" /\ o[1] = "accept"   \* pptp that was enabled
  \/ <<o[2], "flush">> \in lost         \* an event between flush() and apply()

\* Nothing of an instance outlives it, and no instance is served twice: flush()
\* and apply() of every plugin take away what an earlier apply() had added.
NothingLeft ==
  phase = "idle" => \A o \in box :
    \/ Left(o)
    \/ o[1] = "subnet" /\ nat.users # {} /\ o[3] \in nat.subnets
    \/ /\ o[2] \in There(conf)
       /\ \A q \in Own({o[1]}, o[2], box) : q = o
       /\ ~({<<"accept", o[2], None>>, <<"drop", o[2], None>>} \subseteq box)

\* what the box would have, were everything applied to an empty one now
Fresh == UNION {Applied(i, conf[i], [Seen(i) EXCEPT !.add = 1 .. conf[i].v, !.del = {}], {})
                  : i \in There(conf)}

\* In the end the box has what applying the configuration to an empty box would
\* give with the addresses and the WANs of the moment, except where an event
\* arrived while apply() ran (subscribeChangeFrom() and onEvent() of each plugin).
Served ==
  <>[](\A o \in (box \ Fresh) \cup (Fresh \ box) :
         Left(o) \/ <<o[2], "event">> \in lost)
=============================================================================
