------------------------------ MODULE WanCheck ------------------------------
(***************************************************************************)
(* How the box finds out whether a WAN is connected: the tests that        *)
(* sensors/wan_conn_check_sensor.js starts, checkWanConnectivity() and     *)
(* checkHttpStatus() of plugins/interface/intf_base_plugin.js, which run   *)
(* them, and the handler of EVENT_WAN_CONN_CHECK there, which turns their  *)
(* results into "ready".                                                   *)
(*                                                                         *)
(* One WAN is looked at.  A test takes up to half a minute and another one *)
(* is started every 20 seconds and whenever a cable is unplugged, so tests *)
(* overlap, end in any order, and see the link and the network of          *)
(* different moments.  A test is a record that goes through its phases; it *)
(* reads its surroundings once in each of them.                            *)
(***************************************************************************)
EXTENDS Integers, Sequences, FiniteSets

CONSTANTS
  Tests,      \* bound on the tests that run at the same time
  Setups,     \* the WANs that are looked at:
              \*   wlan: it is a wireless one
              \*   force: networkConfig.extra.forceState, None if not set
              \*   ping: networkConfig.extra.pingTestEnabled
              \*   kinds, events: kinds of events and bound on their number
  None

ON_OFF_THRESHOLD == 2
OFF_ON_THRESHOLD == 5

\* good, no answer to pings, no DNS, behind a captive portal, dead
Nets == {"good", "noping", "nodns", "portal", "dead"}

ASSUME SetupAssumption ==
  \A s \in Setups :
    /\ s.wlan \in BOOLEAN /\ s.ping \in BOOLEAN /\ s.force \in BOOLEAN \cup {None}
    /\ s.events \in Nat /\ s.nets \subseteq Nets

ASSUME NoneAssumption == None \notin BOOLEAN

VARIABLES
  setup,       \* the WAN, which stays
  link, net,   \* readyToConnect(), and what there is behind it
  state,       \* _wanConnState: ready, and the counts up to their thresholds
  pending,     \* _pendingTest
  http,        \* _wanStatus.http; "aged" when it is no longer of use
  test,        \* the tests in progress
  web,         \* the HTTP tests in progress: not yet asked, or their results
  loader,      \* plugin loader: idle, applying, applied (this interface
               \*   is done), published (all are)
  queued,      \* another reapply waits for the lock
  inProgress,  \* applyInProgress of the plugin loader
  seen,        \* history: the last result that counted since the last change,
               \*   how many like it there were in a row, if it was the first
  events       \* events so far

vars == <<setup, link, net, state, pending, http, test, web, loader, queued,
          inProgress, seen, events>>
env == <<setup, link, net, events>>
reapply == <<loader, queued, inProgress>>

\* was: the flag pendingTest at the start; outdated: a reapply has ended since,
\* or this interface was applied (stale: history)
NoTest == [pc |-> "idle", was |-> FALSE, outdated |-> FALSE, stale |-> FALSE]

Nothing == [first |-> FALSE, last |-> "none", run |-> 0]

Init ==
  /\ setup \in Setups
  /\ link = TRUE /\ net = "good"
  /\ state = [ready |-> TRUE, ok |-> OFF_ON_THRESHOLD - 1,
              bad |-> ON_OFF_THRESHOLD - 1]
  /\ pending = TRUE
  /\ http = "none" /\ web = {}
  /\ test = [t \in Tests |-> NoTest]
  /\ loader = "idle" /\ queued = FALSE /\ inProgress = FALSE
  /\ seen = Nothing /\ events = 0

-----------------------------------------------------------------------------
(* The result of a test                                                    *)

\* Changed: the count of failures survives a success
KeepFailures(s, active) ==
  [s EXCEPT !.ok = IF active /\ @ < OFF_ON_THRESHOLD THEN @ + 1
                   ELSE IF active THEN @ ELSE 0,
            !.bad = IF ~active /\ @ < ON_OFF_THRESHOLD THEN @ + 1 ELSE @]

\* the counts, which matter up to their thresholds
Counted(s, active) ==
  [s EXCEPT !.ok = IF ~active THEN 0
                   ELSE IF @ < OFF_ON_THRESHOLD THEN @ + 1 ELSE @,
            !.bad = IF active THEN 0
                    ELSE IF @ < ON_OFF_THRESHOLD THEN @ + 1 ELSE @]

\* forceState: TRUE, FALSE or None
Ready(s, force) ==
  LET kept == s.ready /\ ~(force = FALSE
                           \/ (force # TRUE /\ s.bad >= ON_OFF_THRESHOLD))
  IN  \/ kept
      \/ force = TRUE
      \/ force = None /\ s.ok >= OFF_ON_THRESHOLD

\* EVENT_WAN_CONN_CHECK; who follows the interface hears of it right after
Handle(active, carrier) ==
  LET s == Counted(state, active) IN
  /\ state' = [s EXCEPT !.ready = Ready(s, IF carrier THEN setup.force ELSE FALSE)]
  /\ pending' = FALSE
  /\ seen' = [first |-> seen.last = "none",
              last |-> IF ~carrier THEN "cut" ELSE IF active THEN "good" ELSE "bad",
              run |-> IF active # (seen.last = "good") THEN 1
                      ELSE IF seen.run < OFF_ON_THRESHOLD THEN seen.run + 1
                      ELSE seen.run]

\* Changed: the time of the last reapply is not looked at; a test is always,
\* or never, given up when a change is pending
IgnoresReapply(t) == inProgress \/ (~test[t].was /\ pending)
PendingDiscards(t) == inProgress \/ test[t].outdated \/ pending

Discarded(t) ==
  inProgress \/ test[t].outdated \/ (~test[t].was /\ pending)

\* Changed: any WAN behind a portal counts as connected
CaptiveAnyway == http = "redirect"

\* "consider it as connected although connectivity test failed"
Captive == setup.wlan /\ http = "redirect"

Goes(t, pc) ==
  /\ test' = [test EXCEPT ![t].pc = pc]
  /\ UNCHANGED <<state, pending, http, web, seen, env, reapply>>

Start(t) ==
  /\ test[t].pc = "idle" /\ ~inProgress
  /\ test' = [test EXCEPT ![t] = [NoTest EXCEPT !.pc = "carrier", !.was = pending]]
  /\ UNCHANGED <<state, pending, http, web, seen, env, reapply>>

Carrier(t) ==
  /\ test[t].pc = "carrier"
  /\ Goes(t, CASE ~link -> "cut"
               [] link /\ setup.ping -> "ping"
               [] OTHER -> "dns")

\* real traffic to public addresses, and an answer of a name server
Traffic == link /\ net \in {"good", "noping", "nodns"}
Resolves == link /\ net \in {"good", "noping"}

\* "at least one ping target gives responses" is a failure, none at all may
\* mean that the targets do not answer: then real traffic is looked for
Ping(t) ==
  /\ test[t].pc = "ping"
  /\ IF link /\ net \in {"good", "nodns"} THEN Goes(t, "dns")
     ELSE \/ Goes(t, "conntrack")
          \/ net # "noping" /\ Goes(t, "bad")

Conntrack(t) ==
  /\ test[t].pc = "conntrack"
  /\ Goes(t, IF Traffic THEN "dns" ELSE "bad")

Dns(t) ==
  /\ test[t].pc = "dns"
  /\ Goes(t, IF Resolves THEN "good" ELSE "bad")

\* A test has its result: _wanStatus takes it, the HTTP test is started
\* without waiting for it, and the sensor decides what the result is good for
End(t) ==
  LET active == test[t].pc = "good"
      carrier == test[t].pc # "cut"
  IN
  /\ test[t].pc \in {"good", "bad", "cut"}
  /\ http' = IF ~active /\ http = "ok" THEN "aged" ELSE http
  /\ web' = web \cup {"ask"}
  /\ test' = [test EXCEPT ![t] = NoTest]
  /\ IF Discarded(t) THEN UNCHANGED <<state, pending, seen>>
     ELSE Handle(active \/ Captive, carrier)
  /\ UNCHANGED <<env, reapply>>

Step(t) ==
  Start(t) \/ Carrier(t) \/ Ping(t) \/ Conntrack(t) \/ Dns(t) \/ End(t)

-----------------------------------------------------------------------------
(* The HTTP test: a redirection tells a captive portal                     *)

HttpAsk ==
  /\ "ask" \in web
  /\ LET rest == web \ {"ask"} IN
     CASE ~link -> http' = "none" /\ web' = rest
       [] link /\ http = "ok" -> UNCHANGED http /\ web' = rest
       [] OTHER ->
            /\ UNCHANGED http
            /\ web' = CASE net \in {"good", "noping"} -> rest \cup {"ok"}
                        [] net = "portal" -> rest \cup {"redirect"}
                        [] OTHER -> rest
  /\ UNCHANGED <<state, pending, test, seen, env, reapply>>

HttpAnswer ==
  /\ \E v \in web \ {"ask"} : http' = v /\ web' = web \ {v}
  /\ UNCHANGED <<state, pending, test, seen, env, reapply>>

\* A redirection counts for 60 seconds; behind a portal there is a new one
\* every 20 seconds
HttpAges ==
  /\ http = "redirect" /\ ~(link /\ net = "portal")
  /\ http' = "aged"
  /\ UNCHANGED <<state, pending, test, web, seen, env, reapply>>

-----------------------------------------------------------------------------
(* What happens to the WAN                                                 *)

Happens(kind) ==
  /\ kind \in setup.kinds /\ events < setup.events
  /\ events' = events + 1
  /\ UNCHANGED setup

\* the next result decides on its own
Preset ==
  state' = [state EXCEPT !.ok = OFF_ON_THRESHOLD - 1, !.bad = ON_OFF_THRESHOLD - 1]

Changes(field) ==
  [t \in Tests |-> IF test[t].pc = "idle" THEN NoTest
                   ELSE [test[t] EXCEPT ![field] = TRUE]]

\* ifdown: the tests that follow are those of Start
Unplug ==
  /\ Happens("plug") /\ link
  /\ link' = FALSE
  /\ UNCHANGED <<net, state, pending, http, test, web, seen, reapply>>

\* EVENT_IF_UP
Plug ==
  /\ Happens("plug") /\ ~link
  /\ link' = TRUE
  /\ pending' = TRUE /\ Preset /\ seen' = Nothing
  /\ UNCHANGED <<net, http, test, web, reapply>>

NetChange(n) ==
  /\ Happens("net") /\ net # n
  /\ net' = n
  /\ UNCHANGED <<link, state, pending, http, test, web, seen, reapply>>

\* EVENT_IP_CHANGE presets the counts, and no more
IpChange ==
  /\ Happens("ip")
  /\ Preset /\ seen' = Nothing
  /\ UNCHANGED <<link, net, pending, http, test, web, reapply>>

\* EVENT_WPA_CONNECTED: "need to re-check connectivity status after wifi is
\* switched"; with DHCP it resets _wanStatus, too
WpaConnected ==
  /\ Happens("wpa") /\ setup.wlan
  /\ pending' = TRUE
  /\ http' \in {http, "none"}
  /\ UNCHANGED <<link, net, state, test, web, seen, reapply>>

\* reapply() takes the lock, or waits for it
Reapply ==
  /\ \/ Happens("reapply") /\ loader = "idle"
     \/ Happens("queue") /\ loader # "idle" /\ ~queued
  /\ IF loader = "idle" THEN loader' = "applying" /\ inProgress' = TRUE
                             /\ UNCHANGED queued
     ELSE queued' = TRUE /\ UNCHANGED <<loader, inProgress>>
  /\ UNCHANGED <<link, net, state, pending, http, test, web, seen>>

\* apply() of the interface
Apply ==
  /\ loader = "applying"
  /\ loader' = "applied"
  /\ http' = "none"
  /\ Preset /\ pending' = TRUE /\ seen' = Nothing
  /\ test' = Changes("stale")
  /\ UNCHANGED <<web, queued, inProgress, env>>

\* All is applied: applyInProgress is cleared before the publications, and the
\* time is only noted after them, so that a test that ends meanwhile counts
Publishes ==
  /\ loader = "applied"
  /\ loader' = "published" /\ inProgress' = FALSE
  /\ UNCHANGED <<state, pending, http, test, web, seen, queued, env>>

\* The lock passes to a reapply that waits, and only then the continuation
\* of the one that has ended clears applyInProgress
ReapplyEnds ==
  /\ loader = "published"
  /\ loader' = IF queued THEN "applying" ELSE "idle"
  /\ queued' = FALSE
  /\ inProgress' = FALSE
  /\ test' = Changes("outdated")
  /\ UNCHANGED <<state, pending, http, web, seen, env>>

-----------------------------------------------------------------------------
System ==
  \/ \E t \in Tests : Step(t)
  \/ HttpAsk \/ HttpAnswer \/ HttpAges \/ Apply \/ Publishes \/ ReapplyEnds

Environment ==
  Unplug \/ Plug \/ (\E n \in setup.nets : NetChange(n)) \/ IpChange
  \/ WpaConnected \/ Reapply

Next == System \/ Environment

Spec == Init /\ [][Next]_vars

\* A test ends, whatever others do, and another one is started: the timers
\* of the sensor and those of ping, conntrack and dig
FairSpec ==
  /\ Spec
  /\ \A t \in Tests : WF_vars(Step(t))
  /\ WF_vars(HttpAsk) /\ WF_vars(HttpAnswer) /\ WF_vars(HttpAges)
  /\ WF_vars(Apply) /\ WF_vars(Publishes) /\ WF_vars(ReapplyEnds)

-----------------------------------------------------------------------------
TypeOK ==
  /\ setup \in Setups /\ link \in BOOLEAN /\ net \in Nets
  /\ state \in [ready : BOOLEAN, ok : 0..OFF_ON_THRESHOLD, bad : 0..ON_OFF_THRESHOLD]
  /\ pending \in BOOLEAN /\ inProgress \in BOOLEAN /\ queued \in BOOLEAN
  /\ http \in {"none", "ok", "redirect", "aged"}
  /\ web \subseteq {"ask", "ok", "redirect"}
  /\ loader \in {"idle", "applying", "applied", "published"}
  /\ seen \in [first : BOOLEAN, last : {"none", "good", "bad", "cut"},
               run : 0..OFF_ON_THRESHOLD]
  /\ test \in [Tests ->
       [pc : {"idle", "carrier", "ping", "conntrack", "dns", "good", "bad", "cut"},
        was : BOOLEAN, outdated : BOOLEAN, stale : BOOLEAN]]

\* a result counts in this step, and it is that of test t
Counts(t) == test[t].pc # "idle" /\ test'[t].pc = "idle" /\ seen' # seen

\* A WAN is given up, and taken again, on evidence only: two failures or five
\* successes in a row, the first result after a change, or a cable that is
\* unplugged, whatever tests of other moments end in between.
Evidence ==
  [][setup.force = None =>
       /\ state.ready /\ ~state'.ready =>
            /\ seen'.last \in {"bad", "cut"}
            /\ seen'.first \/ seen'.last = "cut" \/ seen'.run >= ON_OFF_THRESHOLD
       /\ ~state.ready /\ state'.ready =>
            /\ seen'.last = "good"
            /\ seen'.first \/ seen'.run >= OFF_ON_THRESHOLD]_vars

\* "A network config was just applied during the current WAN connectivity
\* test, discard": once a reapply has ended, no test that began before it
\* applied the interface counts.
FreshAfterApply ==
  [][\A t \in Tests : Counts(t) /\ loader = "idle" => ~test[t].stale]_vars

\* Whoever waits for the test after a change gets its result.
TestEnds == pending ~> ~pending

\* What the WAN is good for, as long as neither link nor network change
Usable ==
  /\ link
  /\ IF setup.force # None THEN setup.force
     ELSE \/ net \in {"good", "noping"}
          \/ ~setup.ping /\ net = "noping"
          \/ setup.wlan /\ net = "portal"

\* When link and network stay as they are, "ready" comes to agree with them
\* and stays so: overlapping tests, results that are given up and portals
\* that are recognized late only delay that.
ReadyInTheEnd == <>[](state.ready = Usable)
=============================================================================
