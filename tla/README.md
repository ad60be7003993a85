# A TLA+ model of firerouter

Firerouter is the network service of Firewalla boxes: a Node.js process that
takes a network configuration (interfaces, routing, NAT, DNS, DHCP, access
points), turns it into the state of a Linux box, keeps it so while devices and
uplinks come and go, and stores it. This directory specifies what is hard about
it: configuration changes that are applied step by step while events arrive,
that fail half way, that are rolled back, that belong to transactions with a
timeout and that a crash interrupts; the choice of the uplink that carries the
traffic; what the plugins leave in the kernel; the sharing of a delegated
prefix; the mesh of WireGuard boxes; and the radio that access points and a
Wi-Fi station share.

The specifications are read against the source; `PROJECT.json` maps each
definition to the lines it stands for. Paths below are relative to the root of
the repository.

## 1. Inventory

| Component | State | Operations | Hard part | Modelled |
|---|---|---|---|---|
| Plugin loader (`plugins/plugin_loader.js`) and plugin base class (`plugins/plugin.js`) | plugin map, order of the classes, `applyInProgress`, `LOCK_REAPPLY`; per instance `networkConfig`, `_nextConfig`, `_reapplyNeeded`, subscribers | `reapply`, `acquireApplyLock`, `scheduleReapply`, `propagateConfigChanged` | three passes over all instances with an await per instance; failures in the middle; order; subscriptions that come and go | partly, `PluginReapply` |
| Configuration manager (`core/network_config_mgr.js`) and HTTP API (`service/routes/config.js`) | stored and transaction configuration in redis, `inTransaction`, `transactionTask`, `LOCK_CONFIG_RW` | `tryApplyConfig`, `validateNcidOrReqId`, `saveConfig`, `POST /set` (plain, append, commit, revert), `POST /apply_current_config` | rollback; optimistic concurrency; a timeout that races everything else | partly, `ConfigService` |
| Start (`service/bin/main.js`, `run.js`) | none | dry run of the stored configuration | what runs after a crash is not what is stored | partly, `PluginReapply`, `ConfigService` |
| Interface plugins (`plugins/interface`) | links, addresses, rules, routes, files and clients in the kernel and on the disk | `flush`, `flushFast`, `apply`, events of link, lease and prefix | events between the stages of `apply()`; roles that change | partly, `Interface`, `PrefixDelegation` |
| WireGuard mesh (`wireguard_intf_plugin.js`) | endpoints, relays, `peerInfo` | `reapply`, route requests and decisions, peer infos | a protocol among boxes over a lossy network | partly, `WireguardMesh` |
| WAN check (`sensors/wan_conn_check_sensor.js`, `intf_base_plugin.js`) | `_wanConnState`, `_pendingTest`, `_wanStatus.http` | ping, DNS and HTTP tests, `WAN_CONN_CHECK` | overlapping tests; results that are stale when they arrive | partly, `WanCheck` |
| Routing plugin (`plugins/routing/routing_plugin.js`) | `_wanStatus`, default routes | failover, failback, load balancing, refresh, reapply | state that changes between the awaits of a switch | partly, `WanFailover`, `ActiveWan` |
| Service plugins (NAT, DNS, DHCP, UPnP, mDNS, IGMP, sshd, docker, ICMP...) | files, rules, daemons, timers of restarts | `flush`, `apply`, `onEvent` | one restart for all instances; addresses that change while applying | partly, `Services` |
| Access points (`plugins/hostapd`), platform Orange (`platform/orange`) | files, `apStateAutomata`, `apPause`, timers | merge and restart hostapd, silences, reapply after one | timers, clients and automata that undo each other | partly, `AccessPoint` |
| Wi-Fi station (`switchWifi`, `plugins/interface/wlan_intf_plugin.js`) | networks of wpa_supplicant | switch, test, restore | one of many commands fails | partly, `AccessPoint`, `WanCheck` |
| Presence sensor (`sensors/if_presence_sensor.js`) | watched directories | defers events while a configuration is applied | events against reapplies | partly, `PluginReapply` |
| Sensor for wireless adapters (`sensors/wlan_conf_update_sensor.js`) | timer | changes the stored configuration under `LOCK_CONFIG_RW` | updates against clients | partly, `ConfigService` |
| Other sensors | none | turn messages of the kernel into events | none of their own | partly, where the events are handled |
| Routing table ids (`util/routing.js`) | `/etc/iproute2/rt_tables` | allocation | read, choose, write | rules and tables only, `Interface` |
| Access point controller, event bus, platforms, scripts | none, or constants of the hardware | run commands, forward messages | none | no |

How they interact. Clients and two sensors change the configuration under
`LOCK_CONFIG_RW`: `tryApplyConfig()` calls `reapply()`, which runs under
`LOCK_REAPPLY`, and calls it a second time with the old configuration if the
first one returned errors. Kernel events reach the plugins through the sensors
and `propagateEvent()`; a handler flags its instance and those that subscribed
to it, most of them under `LOCK_REAPPLY`, and schedules a `reapply(null)` four
seconds later. The WAN check reports to the interface, whose readiness reaches
the routing plugin as an event; the routing plugin switches the default routes
under a lock of its own and tells DNS, UPnP and WireGuard. The timeout of a
transaction calls `tryApplyConfig()` without `LOCK_CONFIG_RW`.

What makes each part correct:

- loader: at rest every instance is built as configured, or is known not to be;
  nothing outlives its instance; teardown from the top, building from the
  bottom; every request is answered;
- configuration: what is stored works and was not derived from something that
  was replaced meanwhile; a transaction ends;
- interfaces and services: once all is quiet the box holds exactly what a clean
  start with the last configuration would give, whatever came before;
- WAN check: readiness changes on evidence only and comes to agree with the
  network; failover: in the end the first ready WAN carries the traffic, and
  routes, LED, name servers and subscribers agree with that;
- delegation: no /64 is given out twice, and each LAN has one that is valid;
- mesh: boxes that have a path find it, at both ends, and leave one that is dead;
- radio: access points are silent only while the station needs it.

## 2. Modules

| Module | Models | Instance checked |
|---|---|---|
| `PluginReapply` | loader, base class, apply lock, scheduled reapply, hot-plug, rollback, restart | `MCPluginReapply`: two physical interfaces, a VLAN, an access point |
| `ConfigService` | requests, sensors, transactions, ncid, storage, timeout, restart | `MCConfigService`: four configurations, one of which cannot be built |
| `ActiveWan` | what the routing plugin promises; abstract | |
| `WanFailover` | `_wanStatus`, the switch WAN by WAN, the routes | `MCWanFailover`: five boxes with two or three WANs |
| `WanCheck` | overlapping tests of one WAN and its readiness | `MCWanCheck`: five WANs |
| `Interface` | objects of one interface through the stages of flush and apply | `MCInterface`: twelve setups of nine kinds |
| `PrefixDelegation` | LANs that share delegated prefixes | `MCPrefixDelegation`: three LANs, and eleven |
| `Services` | two instances of one of twelve service plugins | `MCServices`: fourteen setups |
| `WireguardMesh` | three boxes of a mesh and the network between them | `MCWireguardMesh`: eight setups of faults |
| `AccessPoint` | hostapd, the automata of Orange, `switchWifi` | `MCAccessPoint`: eight setups |
| `PluginReapplyProofs` | theorems about `PluginReapply`: types, saving, order of building, leftovers; convergence, order of teardown | |
| `ConfigServiceProofs` | theorems about `ConfigService` | |
| `WanFailoverProofs` | theorems about `WanFailover`: the queue, subscribers, LED, `inUse`; routes and the steps of `ActiveWan` | |
| `InterfaceAgreement` | which configurations of an interface agree, the hypothesis of its theorem | `MCInterface` assumes it of its setups |
| `InterfaceProofs` | theorems about the interface plugins: `Interface` and `PrefixDelegation` | |
| `WanCheckProofs`, `ServicesProofs`, `WireguardMeshProofs`, `AccessPointProofs` | theorems about these modules | |

The modules from `WanFailover` to `AccessPoint` have a variable `setup`, chosen in `Init` among
`Setups` and never changed (`delegation` and `Delegations` in `PrefixDelegation`,
whose names differ from those of `Interface` because one module has the proofs of
both): one run covers several small boxes, each with the
configurations, the kinds of events and the bounds that belong together.

### PluginReapply

An instance has a class with a position (`Pos`, the rank of its `init_seq` in
`config.json`), a configuration or `None`, and the instances its `apply()` looks
up and subscribes to (`Uses`). `FastFlush` and `InPlace` say which changes
`flushFast()` copes with, or no flush at all; `IpBlind` are the instances that
ignore a change of addresses (hostapd).

The variables `present`, `cfg`, `next`, `need`, `subs` are the plugin map,
`networkConfig`, `_nextConfig`, `_reapplyNeeded` and the subscriptions.
`phase`, `job`, `queue`, `left`, `todo`, `busy` are the holder of
`LOCK_REAPPLY`, what it is doing and who waits: one action per await of
`reapply()`. The lock passes to the next waiter synchronously and the
continuation that clears `applyInProgress` runs later (`Release`), as
`async-lock` does it. `runtime` and `stale` are the box: with which
configuration an instance was built, and whether something under it changed
since. No guard of the loader reads them; the commands of the plugins do
(`ApplyOk`), and so do the properties.

| Action | Code |
|---|---|
| `TryApplyConfig`, `RollbackConfig`, `ScheduledReapply` | callers of `reapply()` |
| `MarkClass`, `Remove` | mark loop, `remove` |
| `StartFlush`, `Flush`, `FlushRejects` | flush loop; a rejection ends the reapply |
| `StartApply`, `ApplyStart`, `ApplyOk`, `ApplyDeferred`, `ApplyRejects` | apply loop; a concurrent class starts all its instances at once |
| `FinishReapply` | end of `reapply()`; the answer decides between save and rollback |
| `Plug` | the device goes or comes |
| `Poll`, `SendEvent` | the sensor sees it at its next poll (`if_presence_sensor.js:57`), and hands the event over when no reapply is in progress |
| `Rewatch` | its watchers are replaced after an applied configuration: what is there counts as seen |
| `RunEvent` | handler under the lock |
| `UnlockedEvent` | handler of IF_UP without the lock |
| `Restart` | orderly restart, or crash if `CrashAnytime` |

Left out: messages on redis; `prepareWLANRegDomainChange`; subscriptions for
prefix delegation between interfaces of one class (`ClassAssumption`; they are in
`PrefixDelegation`); flushes of a concurrent class that go on after one of them
rejected; a hot-plug subscriber of a hot-plug device.

`unseen` are the devices whose state differs from what the sensor saw last:
`Plug` puts one in or, when the device returns before a poll, takes it out again,
and then there is no event. Such an absence is remembered in `missed`, a history
variable, until an event of the device rebuilds it; `Converged` and `Rebuilt`
except these devices and no other.

### ConfigService

`reapply()` is one step here: it brings the box to a configuration or fails.
The holder of `LOCK_CONFIG_RW` has a program counter `pc`, the request `req`,
and the local variables `newConfig` and `txParam`; each step ends at an await.
`txParam` is `inTransaction` as it was passed to `validateNcidOrReqId()` and to
`saveConfig()`: the callback of the timeout may change the flag in between. The
callback (`Fire`, `RevertApply`, `RevertEnd`) interleaves with the holder at
every await. Requests that are rejected at once are not actions.
`validateConfig` is a check of syntax without effect. Failures of redis and the
answers to clients are left out.

### ActiveWan and WanFailover

`ActiveWan` has four variables (configuration, ready WANs, active WANs,
settled) and says: while nothing is settled the active WANs may be anything on
the way; what is settled is acceptable, that is, the first ready WAN in order,
or all ready ones when the traffic is balanced; and it settles again and again.

`WanFailover` is the instance `global` of the routing plugin. `jobs` is
`LOCK_SHARED`, a queue in the order of arrival whose head holds the lock; `run`
holds the local variables of `_applyActiveGlobalDefaultRouting()`. `Begin`,
`Turn`, `TurnRead`, `TurnWrite`, `End` are the switch with an action for each
await that matters; `Flush`, `Apply*` the reapply with its own loop;
`RefreshRead`, `RefreshWrite`, `Flush6` the refresh of single routes;
`TimerFires` the task that replaces an earlier one; `Check`, `DeviceChange`,
`IpChange`, `Ip6Change`, `Reconfigure` the events, which arrive between any two
of these and only from WANs that the plugin has subscribed to (`subs`). A WAN
has one default route per family; the tables main and `global_default` get the
same routes and are one here. The texts of messages, SNAT rules, DNS and static
routes, and the instances for LANs are left out.

The refinement: `AW == INSTANCE ActiveWan WITH ready <- Ready(status), active <-
Active(status), settled <- Settled`, and the run checks `AW!Spec`, with its
liveness, as the property `Promise`. Routing of type `single` and primary
standby without failback are not among the boxes: there the promise does not
hold (see section 5).

### WanCheck

A test is a record that goes through carrier, ping, conntrack and DNS, and reads
link and network once in each phase. Two of them overlap. The HTTP test for
portals runs beside them. `Counted` and `Discarded` are the handler of
`EVENT_WAN_CONN_CHECK` and the three reasons for which the sensor gives up a
result; `Apply`, `Publishes`, `ReapplyEnds` are the loader as far as the test sees
it: `applyInProgress` is cleared first (`plugin_loader.js:372`), the time is noted
after the publications (`:381`), and the flag is cleared once more after the lock
has passed on. The counts are capped at
their thresholds. `seen` and `stale` are history variables. Left out: the restart
of DHCP at the 4th, 8th... failure, and the contents of the status.

### Interface

`box` is the set of objects an interface has: rules, routes, addresses, files,
clients, one name for what is always made and removed together. The stages of
`flush()` and `apply()` are actions in the order of the code, so that leases,
links and prefixes come between them; the handlers under the apply lock wait in
`waiting`, the one of IF_UP does not: its two halves, `PluggedFlush` and
`PluggedRenew` for IPv4, `PluggedFlush6` and `PluggedRenew6` for IPv6, run beside
the stages and beside each other. `bare` is a history variable: the link-local
routes were taken away since the last `apply()`. `Clean(c)` is what the stages leave on an
empty box. Kinds: phy, vlan, bond, bridge, tun, docker, pppoe, wireguard, wg_ap.
The contents of addresses and files are abstract.

### PrefixDelegation

A sub-prefix is the number of a /64, a prefix a range of them. A LAN goes
through `Flush`, `Subscribe`, `Enter` (LOCK_PD_CALC), `Pick`, `Assign`, `Route`;
`BindPd` and `RenewPd` are the two cases of the hook of the DHCPv6 client, which
always replace the record (`RecordPd`) and publish only what they count as a
change; `Renumber` is the handler. `unheard`, a history variable, has the LANs
whose prefix was taken from the record without a message. `Hex`
is the conversion of the code: decimal digits read as hexadecimal ones.

### Services

Two instances of one plugin go through `Remove`, `Flush`, `Look` (what `apply()`
reads), `Build` and `Install` or `Skip`, concurrently in a class as the loader
runs them. `Applied` and `Flushed` say for each of the twelve plugins what they
add to and take from the box, from what they read; `Fire` is the timer that
restarts the daemon of all instances. `lost` records the cases in which the code
is known to lose an event, and the properties except just those.

### WireguardMesh

Time goes in periods of the interval of `reapply()`: in each, every box tells
its peers what it knows and reapplies once, in any order; ages of handshakes are
counted in periods. `kernel` is what WireGuard has and `via` what the automaton
believes (`effectiveAllowedIPs`). `Reapply` decides endpoints and relays and
sends requests; `HandleRouteRequest` and `HandleRouteDecision` are the other two
parties. Datagrams may be lost or late; commands may fail; boxes move and are
configured anew. `Recreate` is the way by `flush()`, which stops the automaton
before the interface is created again. After `flushFast()` (a new WAN, a soft key)
there are two steps: `Setconf` gives the living interface the peers of the
configuration (`wireguard_intf_plugin.js:179`), and the automaton of before goes on,
with whole passes of `reapply()`, until `Restart` replaces it (`:271`). `replaced`
has the boxes between the two. `damaged`, a history variable, marks a box where a
command failed, where the new automaton found something that the old one had
written, or where an old pass wrote after it. A status that has not changed is
told in every period; the code suppresses it for 120 seconds (`:611`), which only
delays it.

### AccessPoint

A band has a timer (`hostapdRestartTasks`), a pause and an automaton, `normal`
or `silence`. `RestartHostapd` reads the files of the band, `HostapdRestarted`
starts or stops the service. `Authenticating` and `Connected` are the lines of
the log under LOCK_AP_STATE_AUTOMATA; `CheckBand`, `CheckStatus`, `CheckReapply`
the interval that ends silences. `SwitchWifi` and its steps are `switchWifi()`
against the flags of wpa_supplicant, which is external. A command may fail where
the code goes on without it (`Fails`): the list of the networks, which is then
empty (`SwitchUnlisted`), the status, `reconfigure`, the way back and each
`enable_network`. `skipped`, the networks that nothing will enable again, and
`began` are history variables.

## 3. Runs

| Run | Checks | Shows |
|---|---|---|
| `reapply_core` | `TypeOK`, `Converged`, `NoLeftover`, `TearDownFromTop`, `BuildFromBottom`, `Rebuilt` | changes, hot-plug, scheduled reapplies and orderly restarts in any interleaving: the box ends as configured or is known not to be, in the right order, and a device whose return was seen is rebuilt |
| `reapply_faults` | `SavedIsLoaded`, `RequestAnswered` | flushes and applies that reject, configurations that do not fit together, events without the lock: what is stored is what is loaded, every request is answered |
| `reapply_rollback` | `RollbackRestores`, violated | a rollback does not restore what failed |
| `config_all` | `TypeOK`, `TransactionBounded`, `OnlyWorkingStored`, `NoLostUpdate`, `TransactionEnds` | all requests, sensors, timeouts and crashes |
| `wan_boxes` | `Promise`, `TrafficFollowsActive`, `V6OnlyActive`, `NoForeignRoute`, `SubscribersKnow`, `SomeInUse`, `LedAsked` | the routing plugin implements `ActiveWan`; routes, subscribers, name servers and LED agree with it at rest |
| `check_all` | `Evidence`, `FreshAfterApply`, `TestEnds`, `ReadyInTheEnd` | readiness under overlapping tests, portals, reapplies and changes of link and network |
| `interface_all` | `NothingLeft`, `Served` | every kind of interface ends as a clean start would leave it; an uplink gets its address and routes |
| `delegation_all` | `NoneShared`, `Renumbered` | /64s are unique, and valid in the end |
| `delegation_inside` | `InsidePrefix`, violated | the eleventh LAN of a /60 gets a /64 of somebody else |
| `services_all` | `RunsTheFiles`, `NothingLeft`, `Served` | daemons run with the files that are there, nothing outlives its instance, and in the end all is as a clean start would make it |
| `mesh_all` | `KernelFollows`, `RelaysHeard`, `Converges`, `DeadRelaysEnd`, `Found` | the relays that both ends choose work and are left when they are dead; boxes that move are found |
| `accesspoint_all` | `ServesAsConfigured`, `SwitchRestores`, `AccessPointsReturn`, `SwitchAnswers` | hostapd against silences, clients and timers; networks against switches |

`TypeOK` of the modules with a `setup` documents their variables; the proofs have
an invariant of their own, or prove it.

Bounds, and why they are enough.

- `PluginReapply`: four instances, because a change must travel two levels up
  (interface, VLAN, access point) and move from one interface to another; the
  configurations contain a change of addresses, one that needs a rebuild, a
  removal and a VLAN that moves. `MaxQueue` bounds the jobs that wait for the
  lock: a client and a scheduled reapply or an event; one in the run with faults.
- `ConfigService`: `MaxNcid` bounds what is stored: two, enough for a client that
  is overtaken by another. Two timeouts, for a transaction that is extended.
- `WanFailover`: three to five events. Two WANs show standby and smooth failover,
  and a switch between reads of both; three, a WAN that is passed over. A switch
  that is scheduled, one that waits and one that runs need three events.
- `WanCheck`: two tests overlap, two or three events. A test lasts up to half a
  minute and one is started every 20 seconds: more than two at once need a series
  of cables that are unplugged.
- `Interface`: up to four configurations and two events of each kind: one
  structural change, one of soft keys, a removal and a return.
- `PrefixDelegation`: three LANs, two of which change at a time, two new prefixes:
  two that search at once, and one that is there. Eleven for the number that needs
  a second digit.
- `Services`: two instances share what is shared; two new configurations and two
  events of each kind, so that one can be pending while another arrives.
- `WireguardMesh`: three boxes, the least with a relay; each setup has the faults
  of one question (links, loss, failing commands, moves, new configurations).
  Endpoints are learnt where boxes move or have no fixed one (`Roams`); elsewhere
  they would be those that are configured. The
  thresholds, 150, 180 and 225 seconds in the code, are a period apart. One box
  at a time tells its peers, in the order of the keys, which bounds the datagrams
  under way.
- `AccessPoint`: two access points, two networks, two bands. `lines` bounds the
  lines of the log that wait for the lock, `restarts` those of wpa_supplicant,
  `failures` the commands that fail: two, so that one may undo what made up for
  another, with one restart between them.

`CHECK_DEADLOCK FALSE`: in all modules but `PluginReapply` and `WanCheck` the
environment is bounded, and a box at rest that gets no more events may stop.

Fairness. Awaits are commands and redis calls that return; the code has no
timeout for one that never does, and it would stop the service.

- `PluginReapply`: weak fairness of the steps of `reapply()` and of the handlers;
  strong fairness of `ScheduledReapply`, `RollbackConfig`, `SendEvent`: their turn
  comes at once or from a timer that is set again, and only `MaxQueue` or a
  reapply in progress disables them for a while. `SendEvent` polls every three
  seconds; strong fairness says that reapplies do pause that long. Weak fairness
  of `Poll \/ Rewatch`: the interval of `fs.watchFile`, or the watchers of after.
- `ConfigService`: weak fairness of each timeout and of the holder of the lock.
  `TransactionEnds` says that a transaction that its owner stops to extend ends:
  `MaxNcid` bounds the extensions, as the code does not.
- `WanFailover`: weak fairness of `System`, which is one queue and one timer; none
  of the environment.
- `WanCheck`: weak fairness of each test, of the HTTP test and of the loader: the
  intervals of the sensor go on and commands have timeouts (ping, dig).
- `Interface`, `PrefixDelegation`, `Services`: weak fairness of the stages, of
  the handlers that have the lock or wait in its queue, of timers, and in
  `Interface` of both halves of IF_UP and of the DHCP server, without which
  `Served` is not to be expected.
- `WireguardMesh`: weak fairness of `System`: intervals, clock, handshakes and
  datagrams that are not lost go on within each period. Weak fairness of
  `Restart`: `apply()` comes to its routes.
- `AccessPoint`: weak fairness of timers, handlers and steps of `switchWifi`;
  strong fairness of `CheckReapply`, as `async-lock` serves whoever waits for
  `LOCK_CONFIG_RW` in its turn although clients take it again and again. None of
  clients and of the station.

## 4. Proofs

Every theorem is about all values of the constants: instances, boxes, WANs,
configurations, bounds. Where one has a hypothesis beyond the assumptions of the
modules on their constants, which the runs evaluate, it is named here, with the
reason why the statement fails without it. The runs' own instances satisfy the
hypotheses, where not said otherwise.

### The loader

`PluginReapplyProofs!Typed` proves `TypeOK` for any instances, classes,
configurations, faults and crashes. `TypeOK` is more than types: `need`, `todo`,
`busy` and both ends of `subs` are within `present`, that is, nothing refers to
an instance that was removed. It is not inductive: a queued event may refer to
an instance that is removed before it runs (`JobsOwned`), work lists must be
empty where they have no meaning (`PhaseWork`), and what has a configuration is
in the map (`Configured`). Their conjunction, `TypeInv`, is. The lemmas
`DownSelf`, `DownWithin`, `DownClosed`, `ReachedWithin` say that propagation
reaches the instance itself, all that is subscribed to what it reached, and
nothing outside of the map.

`PluginReapplyProofs!Saving` proves `SavedIsLoaded` under the same weak
conditions. Its invariant, `LoadInv`, says where a reapply has got to: the
classes that are marked have the next configuration of the job's target, the
instances that are flushed have it as their configuration. What an instance had
before does not matter, and that is why a reapply that was given up half way, or
a crash, does no harm here. `NextKnown` is needed for the instances that the
target does not name and that are not in the map either.

`PluginReapplyProofs!AppliedFromBottom` proves `BuildFromBottom` when no flush
rejects (`FlushFails = {}`), with all other faults and crashes. Its invariant,
`OrderInv`: the array of classes is reversed exactly during mark and flush
(`Turned`), the instances inside `apply()` are of one class, the least one not
done (`BusyFirst`), and whatever is applied has a configuration (`Planned`,
`Prepared`), without which it would not be known what it uses. The condition is
needed: a flush that rejects leaves the array reversed.

`PluginReapplyProofs!NothingLeftOver` proves `NoLeftover` when no flush rejects
and the service does not die half way (`CrashAnytime = FALSE`). `LeftInv` says
who removes: an instance that runs is in the map, or its removal is due in the
reapply that marks (`RemovalsDue`), and there is one request at a time. A flush
that rejects ends a rollback with removed instances still built; a crash loses
the plugin map.

`PluginReapplyProofs` also proves `Converged` (`ConvergedAlways`) and
`TearDownFromTop` (`TornDownFromTop`), for any interleaving of changes, events,
hot-plug and orderly restarts, under `Tame`:

- `Faultless`: no flush and no apply rejects, handlers take the lock, no crash
  half way. Each of the four breaks convergence (section 5).
- `Complete`: a configuration names all that it uses.
- `SoftChanges`: a change without a teardown leaves what the instance uses as it
  is, or nothing stands on the instance, as on NAT, whose `isFlushNeeded` is
  always false (`nat_plugin.js:33`); and it does not give up a hot-plug device.
- `BlindChanges`: hostapd, which ignores changes of addresses, has no fast
  changes itself, and stands on interfaces, where a reapply without a change is
  soft (`intf_base_plugin.js:271`).

The last three are what the plugins do; they are hypotheses because `Uses` and
`FastFlush` are constants. The invariant has three parts. `HeldInv` is the
loader's own view: what a reapply is past is configured as it is to be, what is
to change is flagged, what is flagged will be applied. `BuiltInv` relates that
view to the box: an instance is built as it was configured last, or not at all,
and a device that is not there runs nothing. `GraphInv` is about the instances
that stand on each other: each has its subscription or is flagged (`Subscribed`);
a flag is on all that stands on the flagged (`FlaggedAbove`, `ToldThrough` while
classes are marked one after the other, `FlaggedUp` but for the blind); whatever
stands on what will be torn down is flagged (`HardTold`); and each instance is
flagged, or well, or above a device whose event is on its way, is still to be seen,
or was missed (`Cared`). The
last is the property, in the form in which it survives a step. The hard cases are
the marking, where the flags go along subscriptions that may be missing until
the next apply renews them, and an instance that loses its ground while it is
inside `apply()` (`BusyGround`).

### The configuration manager

`ConfigServiceProofs` proves the four invariants of `config_all`, for any
configurations, clients, timeouts, ncids and crashes:

- `Typed`: with `Room`, as the ncid is generated steps after the bound is
  checked;
- `Bounded`: `TransactionBounded` is inductive given the types: whoever disarms
  a timeout closes the transaction, arms another one or becomes the callback;
- `StoredWorks`: from `Proven`, which says at each program point what the local
  configuration is known to be: built, or already stored;
- `NothingLost`: from `Compared`: between the comparison of the ncids and the
  save nobody else stores, as the lock is held and the callback does not store.

### The routing plugin

`WanFailoverProofs` rests on `Base` (theorem `Invariant`): types, and `Queue`:
who holds the lock is doing what its job says, there is at most one flush and
one apply at a time, and the loop has a tail of the order before it. Without any
hypothesis, for any box: `SubscribersKnowAlways`, `LedAskedAlways`,
`SomeInUseAlways`. Each follows from an invariant that says what was told last
while jobs wait: either it is still true, or a switch that will tell is queued,
armed or running and has not passed the WAN.

Its second half is about the routes, and has four hypotheses:

- `Steady`, for `NoForeignRouteAlways` and `V6OnlyActiveAlways`: failover is not
  smooth, or the configuration is applied again and not changed. Otherwise a
  switch that was scheduled may run between `flush()` and `apply()`.
- `Returning`, for `ActiveWanImplemented`: a WAN that comes back takes its place
  again. Primary standby without failback loses a wake-up
  (`routing_plugin.js:1201`), and type single does not follow the tests.
- `Few`, at most a hundred WANs in an order: a penalty of the metric then
  outweighs the ranks; and for `TrafficFollowsActiveAlways`, which needs all of
  these, no load balancing over hot-plug devices: one that returns is not in the
  multipath route until the plugin is rebuilt.

TLC has a counterexample without each of the first two and without the last.
`ActiveWanImplemented` proves `AW!Init /\ [][AW!Next]_(AW!vars)`: initial states
map to initial states, each step maps to a step or a stutter. Its invariant,
`ChoiceInv`, says of the loop which WANs it has decided about, and on what, and
of the time before it that a switch is due whenever the active WANs are not the
right ones. The liveness of the promise stays with the run. The other invariants
are `Placed` and `V6Inv` (whose routes there are, at rest and inside the loop),
`CheapInv` and `HopsInv` (the metrics and the multipath hops that the loop and
the refresh computed at different times agree with the active flags).

### The WAN check

`WanCheckProofs`: `FreshAfterApplyAlways`, for any number of tests and reapplies:
from `StaleMarked`, a test under which the interface was applied is outdated once
that reapply ends. `GivenUpOnEvidence`: a WAN is given up only on a failure that
is the first result, a second one in a row, or a result without a carrier. And
`EvidenceAlways`, which proves `Evidence`, also for the way back. The invariants
say what the counts stand for: below its threshold a count is covered by results
of its kind in a row, or was preset and meets the first result; at its threshold
it has had its effect. `NoPortalUnplugged` is needed for the way back: a wireless
WAN does not lose its link while it is behind a portal (section 5).

### Interfaces

`InterfaceProofs!NothingLeftAlways` proves `NothingLeft` for interfaces of any
kind, any configurations that agree, any number of reapplies and of events, in any
order. The operators of the model are sets computed from sets; the first part of
the proof gives each of them as a condition on one object (`PreparedHas`, `IPHas`,
`RoutedHas`, ...), so that `Made(kind, c, pd, o)`, what apply() of `c` makes, is a
disjunction over its stages, and `CleanHas` says that this is `Clean(c)`.

The invariant `IInv` puts `box` between two bounds. `Lower`: what the stages that
are done have made is there (`Done`), but for what a lease brings and for the
client between the two steps of the handler of IF_UP. `Upper`: whatever is there is
made by the configuration or may be there, and is rough until the link is raised:
what the last configuration left must be something the next one has as well
(`Allowed`, `Rough`). This is where flush() is right or wrong: `SoftKeeps` says what
flushIP() leaves after a change of soft keys, `StayKeeps` what a bridge or a `wg_ap`
is built on that is not flushed, `FlushedLeaves` and `RuinsKept` what a whole
flush() leaves. The delegated prefix may be lost or found between the stages: the
lower bound counts it only while no event waits (`Lo`), the upper one as long as one
does (`Hi`). `Plans`, `Waits` and `Links` say which configuration is on its way,
which events can wait, and with which parameters the link was made. At rest both
bounds are `Clean(conf)` up to `Optional`.

The hypothesis, `Agreement`, is in `InterfaceAgreement`; `MCInterface` assumes it, so
that the run evaluates it for its setups. Each of its conditions leaves out
something of section 5, and TLC has a counterexample to `NothingLeft` among
configurations that satisfy all conditions but that one:

- `RolesKept`: a change of soft keys alone does not change the role, DHCP, whether
  name servers are written, nor the static address of a WAN;
- `LeasesAgree`: an interface with DHCP is not removed, disabled or made a LAN, as
  its events may wait for the lock behind it; a PPPoE interface is not removed, as
  one that was disabled before keeps the file of its daemon;
- `CablesAgree`: an uplink whose cable is pulled has DHCP in all its
  configurations, DHCPv6 in all of them or in none, and no addresses of its own
  beside them;
- `PrefixesAgree`: who follows a delegated prefix that changes is flushed before it
  is applied, and not removed or disabled, for the same reason;
- `PeersAgree`: peers of a `wg_ap` that come without a flush do not bring the first
  route, or take the last one, to networks behind them;
- `LinksAgree`: a VLAN, bond or bridge that is disabled is not removed, and a VLAN
  or bond not made with other parameters.

### Prefixes

`InterfaceProofs!NoneSharedAlways` proves `NoneShared` for any LANs,
bridges, prefixes and interleavings of reapplies, events and renewals, without a
hypothesis. What makes it true is the lock: the numbers that are in use are read,
and the one that was chosen is stored, under `LOCK_PD_CALC`
(`intf_base_plugin.js:576`). The invariant says so: only the holder is between the
two (`Locked`), what it found is still nobody's (`FoundFree`), the caches of two
LANs never agree (`Apart`), and, but for bridges, the address and the route of a
LAN are those of its cache, which is empty while it searches (`Filed`).

The least free number is found by a search, so `LeastNumber` is proved from the
well-founded order of the numbers. A number becomes a part of the address by its
decimal digits; `HexDiffers` proves that the conversion never maps two numbers
to one part, by uniqueness of quotient and remainder, digit by digit. The setups
are assumed to have at most 30 free bits, since `1 << bits` is a shift of 32 bits
in the language.

`InsidePrefix` is violated by the run with eleven LANs. `InsideUpToTen` proves where
it holds: under `Fits`, which says that there are at most ten LANs, or room for ten
/64s at most in each prefix, and that the LANs that are there at first are different
ones with room in the first prefix. Nine other LANs take nine of the numbers 0 to 9
at most (`OneOfTen`), so the least free one is among them, and those are their own
decimal digits (`FirstTen`). What a LAN has found, keeps in its file or has an
address of was delegated (`Within`, with the invariant above). `MCPrefixDelegation`
assumes `Fits` of its setups with three LANs.

### Services

`ServicesProofs` has two theorems, for any of the twelve plugins, any instances,
addresses, uplinks, configurations and interleavings of events with the reapply.

`RunsTheFilesAlways` proves `RunsTheFiles`. The invariant `IInv` keeps, with each
daemon that is restarted later or at once, that a restart is pending or the files
are those it was started with (`Runs`); with sshd, that the last of its scripts
has read the files of now unless two overlap (`Reloads`). DNS needs more than
that: it removes its file and does not restart anything when its interface is
disabled or absent, which is right only if a flush did that before. So whoever has
a file of DNS has an enabled interface, or is flagged and will be flushed
(`DnsFiles`). `DnsPresent`, the hypothesis, is needed: TLC has a counterexample if
the device of a DNS interface may vanish (section 5). In the run the plugins that
look whether their device is there have that event, DNS has the events of
addresses and WANs.

`NothingLeftAlways` proves `NothingLeft`, with `Left`, the list of what is known
to stay, as the only exception. Its invariant, `LeftInv`, holds in every phase: of
what `apply()` adds and does not replace (the jump of UPnP, the ttl rules, the
chain of IGMP) an instance has nothing once it follows nobody (`Cleared`), because
whatever was added was subscribed for, and the flush that ends the subscription
takes it away; what is to be found again is remembered (`InMem`); there is one
thing of a sort (`Single`), and not both of accept and drop (`Either`).
`FlushedGone` says what `flush()` of each plugin takes away, `AppliedServes` what
`apply()` of each keeps. For the subnets of NAT, which belong to the uplink and not
to an instance, `Subnets` says that they are the ones stored last, or about to be
deleted by an instance that has read them as old. That has the hypothesis
`NatAgrees`: the instances of a configuration name the same subnets for their
uplink. TLC has a counterexample otherwise (section 5).

### Mesh and radio

`WireguardMeshProofs!Invariant` is the inductive invariant for any number of
boxes: well-formed tables, messages and jobs, ages that follow the periods
(`Heard`), and the kernel as the automaton believes it. From it
`KernelFollowsAlways` and `RelaysHeardAlways`: the allowed IPs are where the
automaton believes them to be although only differences are written, and a relay
in use is a third box that was heard of lately and that offers itself. Both hold
outside of `replaced` and `damaged`. While a box is in `replaced` the invariant
knows of the relays of its old automaton only that they offered themselves; at
`Restart` the new automaton believes all ways direct, which the kernel has unless
the box becomes damaged (`RestartKeeps`). Nothing
is proved of chains: with four boxes a relay may use a relay, which three boxes
cannot show.

`AccessPointProofs!Invariant` relates files, timers, pauses and automata;
`ServesAsConfiguredAlways` and `SwitchRestoresAlways` follow from it, for any
access points, networks, configurations and failing commands. `SwitchInv` follows
a switch: every network of the configuration is usable, is still to be enabled, or
is one that the switch leaves out, which is in `skipped` from the command on that
disables it.

### Only model-checked

Liveness, which is out of the prover's reach: `Rebuilt`, `RequestAnswered`,
`TransactionEnds`, `TestEnds`, `ReadyInTheEnd`, `Renumbered`, both `Served`,
`Converges`, `DeadRelaysEnd`, `Found`, `AccessPointsReturn`, `SwitchAnswers` and
the fairness of `Promise`. Every other property of the passing runs is a
theorem.

## 5. Where code and intent differ

Two runs end in a counterexample.

- `reapply_rollback`: the flag of an instance is cleared even if its `apply()`
  rejected (`plugins/plugin_loader.js:351`). The rollback compares
  configurations, finds nothing to do for it and answers that the previous setup
  is restored.
- `delegation_inside`: the bound on the number of a sub-prefix is compared with
  the number, the address is made of its decimal digits
  (`plugins/interface/intf_base_plugin.js:397`).

Others were met while modelling. They are in the models; the properties of the
passing runs name the exception (by a set-up that leaves the case out, or by a
variable that records it).

Loader and configuration:

- a hot-plug device that goes and returns between two polls of `fs.watchFile`
  (`if_presence_sensor.js:57`), or around the moment when the watchers are replaced
  (`:46`), makes no event: what was built on it stays away (`missed`);
- a flush that rejects leaves the array of classes reversed
  (`plugin_loader.js:184`), and the next reapply builds from the top;
- IF_UP of an interface that is being applied flags it without the lock
  (`intf_base_plugin.js:2116`), and the end of `apply()` clears the flag;
- after a crash in the middle of a reapply the dry run takes the stored
  configuration for the running one (`plugin_loader.js:238`);
- `apply_current_config` within a transaction stores it as the persistent
  configuration (`routes/config.js:407`);
- the callback of the transaction timeout does not take `LOCK_CONFIG_RW`
  (`routes/config.js:342`): a commit may be answered with success while the box
  goes back to the previous configuration;
- an append that fails rolls the box back while the transaction stays open
  (`network_config_mgr.js:776`): a commit then stores what does not run;
- after a restart the transaction is forgotten, the box goes on with its
  configuration and no timeout reverts it (`routes/config.js:42`).

WAN check and failover:

- without failback a switch may be decided from active flags that a switch in
  progress has not updated (`routing_plugin.js:1201`), with type single likewise
  (`:1208`); `inUse` is then left to the order of events (`:1234`);
- with smooth failover a switch that was scheduled before a rebuild may run
  between its `flush()` and its `apply()`, with the old WANs and the new
  configuration (`:473`);
- load balancing reads ready, awaits the state of the interface and uses the old
  value after (`:637`);
- two calls that set the LED may overtake each other (`:1353`);
- a cable that is unplugged and plugged in again while an earlier change is
  pending is not seen by the comparison of `pendingTest`
  (`wan_conn_check_sensor.js:112`): the failure of a test of the time before
  counts;
- a result counts while another reapply that was queued applies: the flag
  `applyInProgress` is cleared late (`plugin_loader.js:384`); and one of a test from
  before the reapply counts between the end of `apply()` and the time that is noted
  after the publications (`:372`, `:381`). `FreshAfterApply` begins after both;
- a test of a wireless WAN that found no carrier counts as a success if a portal
  was seen (`wan_conn_check_sensor.js:98`, which does not look at `carrier`): after
  a change of the link the next result then makes the WAN ready, the second one
  and not the fifth (met while proving `Evidence`; the wireless WAN of the run
  is not unplugged);
- with smooth failover and no failback the refresh of a WAN that is ready and not
  active gives its route a better metric than that of the active one.

Interfaces and prefixes:

- "no need to tear down the interface; flushIP + apply() is sufficient"
  (`intf_base_plugin.js:268`) is not so when a soft key changes the role: rules,
  marks and routes of the former role stay;
- EVENT_PD_CHANGE and EVENT_IP_CHANGE that wait for the lock behind a reapply
  that removes or disables the interface work on the dead instance;
- IF_UP between two configurations restarts the DHCP client although the new one
  is static; a VLAN, bond or PPPoE that is disabled is not torn down; sysctls and
  MTU are never reset; routes of a `wg_ap` to networks of former peers stay;
- a cable that comes back empties the tables of IPv4 and renews the lease: static
  IPv4 addresses beside DHCP, routes of a LAN and of peers are not set again. The
  IPv6 half (`intf_base_plugin.js:2108`) takes the link-local routes away, which
  only `apply()` adds (`:507`): they are missing until the next one (`bare`, an
  exception of `NothingLeft`). Its client is started even if the interface has lost
  DHCPv6 in between;
- BOUND6 or REBOOT6 without a prefix empties the record and publishes nothing
  (`scripts/firerouter_dhcpcd_record_pd:45`, `:106`): LANs keep a /64 of a prefix
  that is no longer delegated (`unheard`, an exception of `Renumbered`);
- a bridge that is applied without a flush keeps the address of a former prefix.

Services: two instances of NAT that name different `srcSubnets` for one uplink
undo each other: `apply()` stores its list, then awaits the commands that add and
delete (`nat_plugin.js:120` to `:123`), so a rule that one adds after the other
has deleted it stays, and nobody has it in its list (met while proving
`NothingLeft`); DNS removes its file from an interface whose device vanished
between flush and apply, and does not restart the daemon (met while proving
`RunsTheFiles`); an event during `apply()` is lost with the flag; one between `flush()`
and `apply()` of two reapplies leaves the jump of the old external address
(`upnp_plugin.js:169`); two runs of `reload_sshd.sh` overwrite each other; NAT
does not find the rules of a former outgoing interface again, nor the IPv6 rules
when IPv6 is turned off (`nat_plugin.js:34`; `Left` excepts the IPv6 rules of NAT
altogether); the multicast routes remember
the hardware addresses of the last one only (`mroute_plugin.js:119`); the ACCEPT
rules of pptp, `igmpproxy.conf` and the compose file stay.

Mesh: "it will try original endpoint next time" (`wireguard_intf_plugin.js:812`)
does not hold for a round in which the name of an earlier peer cannot be
resolved; a `wg set` that fails is not repeated (`:897`); a `reapply()` that is
looking up names when its automaton is stopped writes to the new interface
(`:866`); after `flushFast()` the automaton of before lives on between `setconf`
(`:179`) and the start of the new one (`:271`): a relay that it writes there is
unknown to the new one, which believes that all ways are direct and never takes it
back; the timer after an error of the socket restarts an automaton that was
disposed of (`:481`).

Radio: the attempt that begins a silence is not remembered
(`OrangePlatform.js:883`), so that a station that tries a network less often than
every 45 seconds silences its band each time, although the log says that it is
skipped "to avoid consecutive failed attempts"; an attempt within the two seconds
before hostapd is started again keeps it stopped, for ever if this repeats; if
`getActiveConfig()` fails the access points stay paused (`:965`);
`includes("DISABLED")` is true of TEMP-DISABLED (`network_config_mgr.js:207`), and
such networks stay disabled after a switch; so do all networks but the new one if
`list_networks` fails (`:150`), and one whose `enable_network` fails (`:208`,
`:234`), which nobody looks at; overlapping callbacks of the interval (`:199`) may
decide twice.

## 6. Not modelled

- Access point controller: an external binary. Event bus, platforms, scripts: no
  state, constants of the hardware, commands.
- Allocation of routing table ids (`util/routing.js:49`): it lives in a file that
  other programs change as well; the lock covers the write only.
- OpenVPN: its client is outside of the repository. AmneziaWG: options of
  WireGuard. The monitor of bridge ports (`bridge_intf_plugin.js:224`), whose
  first read can overwrite a newer state. DHCPv6 DUID, statistics of `state()`.
- Static routes and the routing instances of LANs: policy rules without a
  state of their own.
- Scans and the exclusive use of the radio on Gold Plus; regulatory domains.
- Failures of redis; the texts of answers, messages and files.
- In `Services`, events of an explicit `extIntf`, and the fatal paths (no such
  interface). In `WireguardMesh`, the cache of names, the socket and its errors.
  In `AccessPoint`, access points whose bridge is missing.

## 7. Plan

1. The composition of `ConfigService` and `PluginReapply`, with crashes inside
   transactions, under an abstract specification of the configuration.
