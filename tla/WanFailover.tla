----------------------------- MODULE WanFailover -----------------------------
(***************************************************************************)
(* plugins/routing/routing_plugin.js, the instance "global": which WAN     *)
(* carries the traffic of the box, and the default routes that make it so. *)
(*                                                                         *)
(* _wanStatus holds a record for every WAN of the configuration.  Events   *)
(* change it at any time, in one go; the functions that turn it into       *)
(* routes await between two WANs and are serialized by LOCK_SHARED, here   *)
(* the sequence "jobs", whose head holds the lock.  A step of a job is     *)
(* what it does between two awaits that matter.  Each WAN stands for one   *)
(* IPv4 and one IPv6 default route; the tables global_default and main get *)
(* the same ones and are one table here.                                   *)
(***************************************************************************)
EXTENDS Integers, Sequences, FiniteSets

CONSTANTS
  Wan,         \* the interfaces that a configuration may use as WAN
  Setups,      \* the boxes that are looked at, one of which is chosen:
               \*   wans: the interfaces it has
               \*   configs, start: its configurations, the one it starts with,
               \*     [type, order: sequence of WANs, failback]
               \*   smooth: pluginConfig.smooth_failover
               \*   kinds: the kinds of events of the environment that occur
               \*   events: bound on the number of these events
  None

Families == {4, 6}

ASSUME SetupAssumption ==
  /\ None \notin Wan
  /\ \A b \in Setups :
       /\ b.wans \subseteq Wan /\ b.start \in b.configs /\ b.events \in Nat
       /\ \A c \in b.configs :
            /\ c.type \in {"single", "primary_standby", "load_balance"}
            /\ c.failback \in BOOLEAN
            /\ c.order \in Seq(b.wans) /\ c.order # <<>>
            /\ \A i, j \in 1..Len(c.order) : c.order[i] = c.order[j] => i = j

VARIABLES
  setup,      \* the box, which stays
  conf,       \* networkConfig.default
  hw,         \* the device of each WAN: gone, down (no carrier) or up
  up,         \* isReady() of each WAN's interface plugin
  status,     \* _wanStatus
  route,      \* metric of the default route by family and WAN, 0 for none
  multi,      \* the WANs in the multipath default route of each family
  jobs,       \* holder of LOCK_SHARED and those that wait for it
  run,        \* the local variables of the holder
  timer,      \* applyActiveGlobalDefaultRoutingTask is set
  reapply,    \* where the plugin loader is with this plugin
  subs,       \* the WANs whose events reach this plugin
  told,       \* the active WANs that the subscribers know of
  lastAnyUp,  \* the field of the same name, None when undefined
  led, leds,  \* what the LED shows, and the calls on their way to it
  events      \* events so far

vars == <<setup, conf, hw, up, status, route, multi, jobs, run, timer, reapply, subs,
          told, lastAnyUp, led, leds, events>>
env == <<setup, hw, up, events>>
leaves == <<led, leds, lastAnyUp>>

Kinds == setup.kinds
Configs == UNION {b.configs : b \in Setups}

Idle == [pc |-> "idle", todo |-> <<>>, new |-> <<>>, before |-> {},
         current |-> None, last |-> None, inUseFound |-> FALSE,
         read |-> None, hops |-> {}, metric |-> 0]

Job(op, af, arg) == [op |-> op, af |-> af, arg |-> arg]
Holder == Head(jobs)
Holds(op, pc) == jobs # <<>> /\ Holder.op = op /\ run.pc = pc

Failover == conf.type # "load_balance"
Standby == conf.type = "primary_standby"
SmoothNow == setup.smooth /\ Standby

Known == DOMAIN status
Ready(st) == {w \in DOMAIN st : st[w].ready}
Active(st) == {w \in DOMAIN st : st[w].active}
InUse(st) == {w \in DOMAIN st : st[w].inUse}
\* the WANs in the order of their seq
ByRank(st) ==
  [i \in 1..Cardinality(DOMAIN st) |-> CHOOSE w \in DOMAIN st : st[w].seq = i - 1]
\* w comes before every WAN of the set
Outranks(w, set) == \A v \in set : status[w].seq < status[v].seq

Init ==
  /\ setup \in Setups
  /\ conf = setup.start
  /\ \E unplugged \in SUBSET (IF "hotplug" \in Kinds THEN setup.wans ELSE {}) :
       hw = [w \in Wan |-> IF w \in unplugged THEN "gone" ELSE "up"]
  /\ up = [w \in Wan |-> TRUE]
  /\ status = <<>>
  /\ route = [f \in Families |-> [w \in Wan |-> 0]]
  /\ multi = [f \in Families |-> {}]
  /\ jobs = <<>> /\ run = Idle
  /\ timer = FALSE /\ reapply = "flushed"
  /\ subs = {} /\ told = {}
  /\ lastAnyUp = None /\ led = None /\ leds = {}
  /\ events = 0

-----------------------------------------------------------------------------
(* processWANConnChange(): the LED and the messages of "any up" and "all   *)
(* down"; the calls it makes are not awaited by anybody.                   *)

\* Changed: only "all down" is taken note of
NotedWhenDown(st) ==
  /\ lastAnyUp' = (lastAnyUp = TRUE /\ Ready(st) # {})
  /\ UNCHANGED <<led, leds>>

ProcessChange(st) ==
  LET anyUp == Ready(st) # {} IN
  /\ lastAnyUp' = anyUp
  /\ leds' = IF anyUp = lastAnyUp THEN leds ELSE leds \cup {anyUp}
  /\ UNCHANGED led

Notified(anyUp) ==
  /\ anyUp \in leds
  /\ leds' = leds \ {anyUp}
  /\ led' = anyUp
  /\ UNCHANGED <<setup, conf, hw, up, status, route, multi, jobs, run, timer,
                 reapply, subs, told, lastAnyUp, events>>

-----------------------------------------------------------------------------
(* _applyActiveGlobalDefaultRouting(): from _wanStatus to routes           *)

\* Changed: a WAN that is not ready has no penalty
MetricOfRank(w, carrier) == status[w].seq + 1 + (IF carrier THEN 0 ELSE 10)

Metric(w, carrier) ==
  status[w].seq + 1 + (IF status[w].ready THEN 0 ELSE 100)
                    + (IF carrier THEN 0 ELSE 10)

\* the default routes without those of the WANs in gone, for some families
Without(gone, af) ==
  [f \in Families |-> [w \in Wan |->
     IF f \in af /\ w \in gone THEN 0 ELSE route[f][w]]]
With(w, metric, af) ==
  [route EXCEPT ![4][w] = IF 4 \in af THEN metric ELSE @,
                ![6][w] = IF 6 \in af THEN metric ELSE @]
Linked(w) == hw[w] = "up"
HasGateway(w) == hw[w] # "gone"

\* Changed: only the routes of WANs that are not ready are taken
GoneUnready == Known \ Ready(status)

\* smooth failover only takes the routes of the WANs that are not ready
Gone == IF SmoothNow THEN Known \ Ready(status) ELSE Wan

Begin ==
  /\ Holds("switch", "idle") \/ Holds("apply", "begin")
  /\ route' = Without(Gone, Holder.af)
  /\ multi' = [f \in Families |-> IF f \in Holder.af THEN multi[f] \ Gone
                                                      ELSE multi[f]]
  /\ run' = [Idle EXCEPT !.pc = "loop", !.todo = ByRank(status),
                         !.before = Active(status)]
  /\ UNCHANGED <<conf, status, jobs, timer, reapply, subs, told, env, leaves>>

InLoop == jobs # <<>> /\ Holder.op \in {"switch", "apply"} /\ run.pc = "loop"

\* Changed: every ready WAN gets an IPv6 route
V6IfReady(w, act) == status[w].ready \/ ~Standby

\* IPv6 is for the active WAN alone, unless there is only one
V6Allowed(w, act) == (act \/ ~Standby) /\ (status[w].ready \/ ~Standby)

\* single and primary_standby: the first ready WAN becomes the active one
Turn ==
  /\ InLoop /\ run.todo # <<>> /\ Failover
  /\ LET w == Head(run.todo)
         s == status[w]
         act == s.ready /\ run.current = None
         found == act \/ run.current # None
         inUse == IF found THEN act ELSE Linked(w) /\ ~run.inUseFound
         af == {f \in Holder.af :
                  /\ HasGateway(w)
                  /\ f = 6 => V6Allowed(w, act)}
     IN /\ status' = [v \in Known |->
                        IF v = w
                          THEN [s EXCEPT !.active = act, !.inUse = inUse]
                          ELSE [status[v] EXCEPT !.inUse = @ /\ ~act]]
        /\ run' = [run EXCEPT
                     !.todo = Tail(@),
                     !.current = IF act THEN w ELSE @,
                     !.last = IF s.active THEN w ELSE @,
                     !.inUseFound = @ \/ (inUse /\ ~found)]
        /\ route' = With(w, Metric(w, Linked(w)), af)
  /\ UNCHANGED <<conf, multi, jobs, timer, reapply, subs, told, env, leaves>>

\* load_balance: "ready" is read, then state() is awaited
TurnRead ==
  /\ InLoop /\ run.todo # <<>> /\ ~Failover /\ run.read = None
  /\ run' = [run EXCEPT !.read = status[Head(run.todo)].ready]
  /\ UNCHANGED <<conf, status, route, multi, jobs, timer, reapply, subs, told, env,
                 leaves>>

TurnWrite ==
  /\ InLoop /\ run.todo # <<>> /\ ~Failover /\ run.read # None
  /\ LET w == Head(run.todo)
         metric == status[w].seq + 1 + (IF run.read THEN 0 ELSE 100)
                                     + (IF Linked(w) THEN 0 ELSE 10)
     IN /\ status' = [status EXCEPT ![w].active = run.read,
                                    ![w].inUse = run.read,
                                    ![w].carrier = Linked(w)]
        /\ route' = IF run.read \/ ~HasGateway(w) THEN route
                    ELSE With(w, metric, Holder.af \cap {4})
        /\ run' = [run EXCEPT
                     !.todo = Tail(@), !.read = None,
                     !.hops = IF run.read /\ HasGateway(w) THEN @ \cup {w} ELSE @]
  /\ UNCHANGED <<conf, multi, jobs, timer, reapply, subs, told, env, leaves>>

\* the first WAN when the loop found none with a carrier, and also when it
\* found an active one
FirstInUse ==
  IF run.inUseFound THEN status
  ELSE [status EXCEPT ![ByRank(status)[1]].inUse = TRUE]

PluggedInUse ==
  LET plugged == {w \in Known : status[w].carrier = TRUE} IN
  IF Active(status) # {} THEN status
  ELSE [w \in Known |-> [status[w] EXCEPT
          !.inUse = w \in plugged /\ Outranks(w, plugged \ {w})]]

\* Changed: nobody is in use unless active
TentativeNever == status

\* who is in use when the loop has ended
Tentative == IF Failover THEN FirstInUse ELSE PluggedInUse

\* smooth failover: IPv6 leaves the WAN that was active before
Retired == IF SmoothNow THEN {run.last} \ {None, run.current} ELSE {}

\* Changed: only a WAN that became active counts
SwitchedOn == Active(status) \ run.before # {}

Switched == Active(status) # run.before

\* the lock is released; EVENT_WAN_SWITCHED if other WANs are active now,
\* and after apply() the subscribers are rebuilt anyway
End ==
  /\ InLoop /\ run.todo = <<>>
  /\ status' = Tentative
  /\ route' = Without(Retired, {6})
  /\ multi' = [f \in Families |-> IF f \in Holder.af /\ run.hops # {}
                                    THEN run.hops ELSE multi[f]]
  /\ told' = IF Switched \/ Holder.op = "apply"
               THEN Active(status) ELSE told
  /\ ProcessChange(status)
  /\ reapply' = IF Holder.op = "apply" THEN "no" ELSE reapply
  /\ jobs' = Tail(jobs) /\ run' = Idle
  /\ UNCHANGED <<conf, timer, subs, env>>

\* the timer of scheduleApplyActiveGlobalDefaultRouting() goes off
TimerFires ==
  /\ timer
  /\ timer' = FALSE
  /\ jobs' = Append(jobs, Job("switch", Families, None))
  /\ UNCHANGED <<conf, status, route, multi, run, reapply, subs, told, env, leaves>>

-----------------------------------------------------------------------------
(* flush() and apply(), called by the plugin loader                        *)

\* flush(): all the routes go; the loader then sets the new configuration
Flush ==
  /\ Holds("flush", "idle")
  /\ route' = Without(Wan, Holder.af)
  /\ multi' = [f \in Families |-> {}]
  /\ conf' = Holder.arg
  /\ reapply' = "flushed"
  /\ subs' = {}
  /\ jobs' = Tail(jobs)
  /\ UNCHANGED <<status, run, timer, told, env, leaves>>

Apply ==
  /\ reapply = "flushed"
  /\ reapply' = "applying"
  /\ jobs' = Append(jobs, Job("apply", Families, None))
  /\ UNCHANGED <<conf, status, route, multi, run, timer, subs, told, env, leaves>>

ApplyStart ==
  /\ Holds("apply", "idle")
  /\ run' = [Idle EXCEPT !.pc = "build", !.todo = conf.order]
  /\ UNCHANGED <<conf, status, route, multi, jobs, timer, reapply, subs, told, env,
                 leaves>>

Rank == Len(conf.order) - Len(run.todo)

\* active and ready are taken from the WAN that had the same rank before
ApplyBuild ==
  /\ Holds("apply", "build") /\ run.todo # <<>>
  /\ LET w == Head(run.todo)
         old == {v \in Known : status[v].seq = Rank}
         there == hw[w] # "gone"
         rec == [seq |-> Rank, inUse |-> FALSE, carrier |-> None,
                 active |-> there /\ \E v \in old : status[v].active,
                 ready |-> there /\ \A v \in old : status[v].ready]
         done == DOMAIN run.new
     IN /\ run' = [run EXCEPT
                  !.todo = Tail(@),
                  !.new = [v \in done \cup {w} |-> IF v = w THEN rec
                                                   ELSE run.new[v]]]
        /\ subs' = subs \cup {w}
  /\ UNCHANGED <<conf, status, route, multi, jobs, timer, reapply, told, env,
                 leaves>>

ApplyCommit ==
  /\ Holds("apply", "build") /\ run.todo = <<>>
  /\ status' = run.new
  /\ run' = [Idle EXCEPT !.pc = "begin"]
  /\ UNCHANGED <<conf, route, multi, jobs, timer, reapply, subs, told, env, leaves>>

-----------------------------------------------------------------------------
(* The events                                                              *)

Happens(kind) ==
  /\ kind \in Kinds /\ events < setup.events
  /\ events' = events + 1
  /\ UNCHANGED setup

\* A device appears, vanishes (with its routes), gains or loses its carrier;
\* only a "flap" is over before a test has reported it
DeviceChange(w, s) ==
  /\ {s, hw[w]} \in {{"up", "gone"}, {"up", "down"}}
  /\ Happens(IF "gone" \in {s, hw[w]} THEN "hotplug" ELSE "carrier")
  /\ \/ "flap" \in Kinds
     \/ w \in Known => status[w].carrier \in {None, Linked(w)}
  /\ hw' = [hw EXCEPT ![w] = s]
  /\ route' = IF s = "gone" THEN Without({w}, Families) ELSE route
  /\ multi' = IF s = "gone" THEN [f \in Families |-> multi[f] \ {w}] ELSE multi
  /\ UNCHANGED <<conf, up, status, jobs, run, timer, reapply, subs, told, leaves>>

\* Changed: a failback is forgotten
FailbackForgotten(w, b) ==
  \/ status[w].ready /\ ~b /\ status[w].active /\ conf.type # "single"
  \/ ~status[w].ready /\ b /\ (~Failover \/ (Standby /\ Active(status) = {}))

\* EVENT_WAN_CONN_CHECK: the interface plugin has just decided on b
ChangeActiveNeeded(w, b) ==
  LET s == status[w] IN
  \/ s.ready /\ ~b /\ s.active /\ conf.type # "single"
  \/ ~s.ready /\ b /\ ~Failover
  \/ /\ ~s.ready /\ b /\ Standby
     /\ Active(status) = {} \/ (conf.failback /\ Outranks(w, Active(status)))

CarrierSwitchNeeded(w, carrier) ==
  /\ Standby /\ carrier # status[w].carrier
  /\ IF carrier
       THEN /\ Active(status) = {}
            /\ \/ InUse(status) = {}
               \/ conf.failback /\ Outranks(w, InUse(status))
       ELSE status[w].inUse

Check(w, b) ==
  /\ Happens("check")
  /\ b => (up[w] \/ Linked(w))
  /\ up' = [up EXCEPT ![w] = b]
  /\ IF w \notin Known \cap subs THEN UNCHANGED <<status, timer, leaves>>
     ELSE LET changes == status[w].ready # b IN
          /\ status' = [status EXCEPT ![w].ready = b, ![w].carrier = Linked(w)]
          /\ timer' = (timer \/ IF changes THEN ChangeActiveNeeded(w, b)
                                ELSE CarrierSwitchNeeded(w, Linked(w)))
          /\ IF changes THEN ProcessChange(status') ELSE UNCHANGED leaves
  /\ UNCHANGED <<conf, hw, route, multi, jobs, run, reapply, subs, told>>

\* EVENT_IP_CHANGE under smooth failover: refreshGlobalIntfRoutes(intf, 4)
IpChange(w) ==
  /\ Happens("ip") /\ SmoothNow /\ w \in Known \cap subs
  /\ jobs' = Append(jobs, Job("refresh", {4}, w))
  /\ UNCHANGED <<conf, hw, up, status, route, multi, run, timer, reapply, subs,
                 told, leaves>>

RefreshRead ==
  /\ Holds("refresh", "idle")
  /\ IF Holder.arg \notin Known
       THEN jobs' = Tail(jobs) /\ UNCHANGED run
       ELSE /\ run' = [run EXCEPT !.pc = "refresh",
                                  !.metric = Metric(Holder.arg, TRUE)]
            /\ UNCHANGED jobs
  /\ UNCHANGED <<conf, status, route, multi, timer, reapply, subs, told, env, leaves>>

RefreshWrite ==
  /\ Holds("refresh", "refresh")
  /\ route' = IF HasGateway(Holder.arg)
                THEN With(Holder.arg, run.metric, Holder.af) ELSE route
  /\ jobs' = Tail(jobs) /\ run' = Idle
  /\ UNCHANGED <<conf, status, multi, timer, reapply, subs, told, env, leaves>>

\* EVENT_IP6_CHANGE: flush(6), then the loop for IPv6
Ip6Change ==
  /\ Happens("ip6") /\ Known # {} /\ subs # {}
  /\ jobs' = Append(jobs, Job("flush6", {6}, None))
  /\ UNCHANGED <<conf, hw, up, status, route, multi, run, timer, reapply, subs,
                 told, leaves>>

Flush6 ==
  /\ Holds("flush6", "idle")
  /\ route' = Without(Wan, {6})
  /\ multi' = [multi EXCEPT ![6] = {}]
  /\ jobs' = Append(Tail(jobs), Job("switch", {6}, None))
  /\ UNCHANGED <<conf, status, run, timer, reapply, subs, told, env, leaves>>

\* A new configuration, or EVENT_IP_CHANGE and EVENT_IF_UP, which rebuild
\* the plugin with the configuration it has
Reconfigure(c) ==
  /\ Happens("reapply") /\ reapply = "no"
  /\ reapply' = "flushing"
  /\ jobs' = Append(jobs, Job("flush", Families, c))
  /\ UNCHANGED <<conf, hw, up, status, route, multi, run, timer, subs, told,
                 leaves>>

-----------------------------------------------------------------------------
System ==
  \/ Begin \/ Turn \/ TurnRead \/ TurnWrite \/ End \/ TimerFires
  \/ Flush \/ Apply \/ ApplyStart \/ ApplyBuild \/ ApplyCommit
  \/ RefreshRead \/ RefreshWrite \/ Flush6
  \/ \E b \in BOOLEAN : Notified(b)

Environment ==
  \/ \E w \in setup.wans, s \in {"gone", "down", "up"} : DeviceChange(w, s)
  \/ \E w \in setup.wans, b \in BOOLEAN : Check(w, b)
  \/ \E w \in setup.wans : IpChange(w)
  \/ Ip6Change
  \/ \E c \in setup.configs : Reconfigure(c)

Next == System \/ Environment

Spec == Init /\ [][Next]_vars
FairSpec == Spec /\ WF_vars(System)

-----------------------------------------------------------------------------
TypeOK ==
  /\ setup \in Setups /\ conf \in setup.configs
  /\ hw \in [Wan -> {"gone", "down", "up"}] /\ up \in [Wan -> BOOLEAN]
  /\ Known \subseteq Wan
  /\ \A w \in Known : status[w] \in
       [seq : 0..Cardinality(Known) - 1, ready : BOOLEAN, active : BOOLEAN,
        inUse : BOOLEAN, carrier : BOOLEAN \cup {None}]
  /\ route \in [Families -> [Wan -> 0..110 + Cardinality(Wan)]]
  /\ multi \in [Families -> SUBSET Wan]
  /\ timer \in BOOLEAN
  /\ reapply \in {"no", "flushing", "flushed", "applying"}
  /\ subs \subseteq Wan /\ told \subseteq Wan
  /\ lastAnyUp \in BOOLEAN \cup {None} /\ led \in BOOLEAN \cup {None}
  /\ leds \subseteq BOOLEAN

Settled == jobs = <<>> /\ ~timer /\ reapply = "no"

\* the WANs the kernel sends new traffic of the family to
Preferred(f) ==
  LET via == {w \in Wan : route[f][w] > 0} IN
  IF multi[f] # {} THEN multi[f]
  ELSE {w \in via : \A v \in via : route[f][w] <= route[f][v]}

\* What ActiveWan promises: when nothing is scheduled or running, the active
\* WANs are those that the order of the configuration and the tests demand,
\* whatever the tests reported while _applyActiveGlobalDefaultRouting() was
\* between two WANs; they do not change until something is scheduled; and
\* the plugin does come to rest.
AW == INSTANCE ActiveWan WITH ready <- Ready(status), active <- Active(status),
                              settled <- Settled
Promise == AW!Spec

\* At rest IPv4 traffic leaves through the active WAN: the metrics that
\* _applyActiveGlobalDefaultRouting() and refreshGlobalIntfRoutes() computed
\* at different times agree with the active flags.  A carrier that is lost
\* before the test notices leaves its penalty in the metric: not so there.
TrafficFollowsActive ==
  Settled /\ "carrier" \notin Kinds =>
    \A w \in Active(status) :
      (route[4][w] > 0 \/ multi[4] # {}) => w \in Preferred(4)

\* "only add IPv6 default router for primary WAN for primary_standby mode":
\* at rest a WAN that is not active has no IPv6 default route.
V6OnlyActive ==
  Settled /\ Standby => {w \in Wan : route[6][w] > 0} \subseteq Active(status)

\* At rest there are no default routes through interfaces that are not WANs
\* of the configuration: what flush() removed stayed removed.
NoForeignRoute ==
  Settled => \A f \in Families :
    {w \in Wan : route[f][w] > 0} \cup multi[f] \subseteq Known

\* The plugins that follow the active WAN (dns, upnp, wireguard) know the
\* right one at rest: each change of the list was followed by
\* EVENT_WAN_SWITCHED or by their own rebuild.
SubscribersKnow == Settled => told = Active(status)

\* The DNS servers take their upstream from the active WAN or else from one
\* in use: at rest there always is one, whatever carriers come and go.
SomeInUse == Settled /\ Failover => InUse(status) # {}

\* "call this func again to ensure led is set correctly": at rest the last
\* call that processWANConnChange() made was for the state as it is, although
\* apply() replaces _wanStatus between the tests.
LedAsked == Settled => lastAnyUp = (Ready(status) # {})
=============================================================================
