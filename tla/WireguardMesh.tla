---------------------------- MODULE WireguardMesh ----------------------------
(***************************************************************************)
(* The mesh of WireGuard boxes of the class WireguardMeshAutomata in       *)
(* plugins/interface/wireguard_intf_plugin.js.  A box tells its peers with *)
(* which of them it is connected and where it sees them.  A peer that      *)
(* cannot be reached directly gets another endpoint, and after a while a   *)
(* relay: its allowed IPs are given to a third box.  A tunnel takes a      *)
(* packet only if its source belongs to the allowed IPs of the peer it     *)
(* comes from, so both ends have to choose the same relay.                 *)
(*                                                                         *)
(* Time goes in periods of the length of the interval of reapply(): in     *)
(* each, every box tells once and reapplies once, in any order.  Ages are  *)
(* counted in periods, and the three thresholds are a period apart.        *)
(***************************************************************************)
EXTENDS Naturals, FiniteSets

CONSTANTS
  Nodes,    \* the boxes: their public keys, in alphabetic order
  Setups,   \* what is looked at: willing (boxes with asRouter), origin
            \* (the endpoint the configurations have of each box: "fixed",
            \* "name" or "none"), down (pairs that have no path yet), slow (boxes whose commands and lookups take
            \* time), faults (how often each of them happens) and where
            \* they do: links, boxes
  None

Faults == {"link", "move", "dns", "loss", "fail", "recreate"}
Origins == {"fixed", "name", "none"}

ASSUME NodesAssumption == Nodes \subseteq Nat

ASSUME SetupAssumption ==
  \A s \in Setups : /\ s.willing \subseteq Nodes
                    /\ s.origin \in [Nodes -> Origins]
                    /\ s.faults \in [Faults -> Nat] /\ s.slow \subseteq Nodes

VARIABLES
  setup,      \* the mesh looked at
  faults,     \* faults that may still happen
  up,         \* pairs of boxes with a network path between them
  place,      \* where each box is: a new place each time it moves
  dns,        \* names can be resolved
  willing,    \* boxes configured with asRouter
  age,        \* age[n][p]: latestHandshake of p in the dump of n
  endpoint,   \* endpoint[n][p]: the endpoint of p in the kernel of n
  kernel,     \* kernel[n][p]: the peer that has the allowed IPs of p at n
  info,       \* info[n][p]: peerInfo of n
  via,        \* via[n][p]: the same as kernel, as effectiveAllowedIPs has it
  job,        \* job[n]: the reapply() that has LOCK_PEER_INFO
  todo,       \* what is still to do in this period
  msgs,       \* datagrams under way
  replaced,   \* boxes whose kernel is configured anew while the old automaton
              \* still runs
  damaged     \* history: boxes where "wg set" failed, or where an old automaton
              \* has written what the new one does not know of

vars == <<setup, faults, up, place, dns, willing, age, endpoint, kernel, info,
          via, job, todo, msgs, replaced, damaged>>
world == <<setup, place, dns, willing, up>>
tables == <<kernel, via, replaced, damaged>>

T0 == 0
T1 == 1
T2 == 2
Never == 3

Peers(n) == Nodes \ {n}
Pairs == {pair \in SUBSET Nodes : Cardinality(pair) = 2}

Period == {"tell", "reapply"} \X Nodes

Idle == [kind |-> "idle"]

Spend(f) == faults[f] > 0 /\ faults' = [faults EXCEPT ![f] = @ - 1]

-----------------------------------------------------------------------------
(* A new automaton, and the kernel that setconf has configured             *)

NewInfo(n) ==
  [p \in Peers(n) |-> [router |-> None, connected |-> {}, asRouter |-> FALSE,
                       learnt |-> None, useOrigEndpoint |-> TRUE]]

Direct(n) == [p \in Peers(n) |-> p]

\* a name is not resolved before the automaton runs
Configured(s, n) == [p \in Peers(n) |-> IF s.origin[p] = "fixed" THEN 0 ELSE None]

\* the boxes that have a path have just met and heard each other
\* where all boxes stay at the endpoints that are configured, what is learnt
\* is what is known: it is left out
Roams == setup.faults["move"] > 0 \/ \E n \in Nodes : setup.origin[n] # "fixed"

Init ==
  /\ setup \in Setups
  /\ faults = setup.faults /\ willing = setup.willing
  /\ up = Pairs \ setup.down
  /\ place = [n \in Nodes |-> 0] /\ dns = TRUE
  /\ age = [n \in Nodes |-> [p \in Peers(n) |-> IF {n, p} \in up THEN T0 ELSE Never]]
  /\ endpoint = [n \in Nodes |-> [p \in Peers(n) |->
                   IF {n, p} \in up THEN 0 ELSE Configured(setup, n)[p]]]
  /\ kernel = [n \in Nodes |-> Direct(n)]
  /\ via = [n \in Nodes |-> Direct(n)]
  /\ info = [n \in Nodes |-> [p \in Peers(n) |->
       LET heard == {q \in Peers(n) : {n, q} \in up}
           met(q) == {r \in Peers(q) \ {n} : {q, r} \in up}
       IN  [NewInfo(n)[p] EXCEPT
              !.connected = IF p \in heard THEN met(p) ELSE {},
              !.asRouter = p \in heard \cap willing,
              !.learnt = IF Roams /\ \E q \in heard : p \in met(q) THEN 0 ELSE None]]]
  /\ job = [n \in Nodes |-> Idle]
  /\ todo = Period /\ msgs = {} /\ replaced = {} /\ damaged = {}

-----------------------------------------------------------------------------
(* Datagrams between the tunnel addresses of two boxes                     *)

Open(a, b) == {a, b} \in up /\ age[a][b] <= T1 /\ age[b][a] <= T1

\* through the tunnel that has the allowed IPs of the other end, at both ends
Reaches(a, b) ==
  LET r == kernel[a][b] IN
  /\ r # None /\ kernel[b][a] = IF r = b THEN a ELSE r
  /\ IF r = b THEN Open(a, b)
     ELSE Open(a, r) /\ Open(r, b) /\ kernel[r][b] = b /\ kernel[r][a] = a

Datagram(type, a, b, body) == [type |-> type, from |-> a, to |-> b, body |-> body]

Connected(n) == {p \in Peers(n) : age[n][p] <= T0 /\ endpoint[n][p] # None}

Known(n) == [p \in Connected(n) |-> endpoint[n][p]]

\* sendPeerEndpointInfoMsg(): nothing, if there is nobody to tell of; bounded
\* to one box at a time, in the order of the keys (an unchanged status is told
\* again after two minutes only: here after a period)
Tell(n) ==
  /\ <<"tell", n>> \in todo /\ todo' = todo \ {<<"tell", n>>}
  /\ \A m \in msgs : m.type # "info"
  /\ \A q \in Nodes : q < n => <<"tell", q>> \notin todo
  /\ msgs' = msgs \cup
       {Datagram("info", n, p, [peers |-> Known(n), asRouter |-> n \in willing])
        : p \in {q \in Peers(n) : Connected(n) # {}}}
  /\ UNCHANGED <<world, faults, age, endpoint, info, tables, job>>

\* the datagram is taken and answered; it is dropped if it has no way now
Take(m, type, answers) ==
  m \in msgs /\ m.type = type /\ msgs' = (msgs \ {m}) \cup answers

\* Changed: what was learnt first is kept
HandlePeerEndpointInfoOnce(m) ==
  LET n == m.to
      told == m.body.peers
      heard(p) ==
        [info[n][p] EXCEPT
           !.connected = IF p = m.from THEN DOMAIN told \ {n} ELSE @,
           !.asRouter = IF p = m.from THEN m.body.asRouter ELSE @,
           !.learnt = IF Roams /\ p \in DOMAIN told /\ @ = None THEN told[p] ELSE @]
  IN
  /\ Take(m, "info", {}) /\ job[n] = Idle
  /\ info' = IF Reaches(m.from, n)
             THEN [info EXCEPT ![n] = [p \in Peers(n) |-> heard(p)]] ELSE info
  /\ UNCHANGED <<world, faults, age, endpoint, tables, job, todo>>

\* handlePeerEndpointInfoMsg(), under the lock
HandlePeerEndpointInfo(m) ==
  LET n == m.to
      told == m.body.peers
      heard(p) ==
        [info[n][p] EXCEPT
           !.connected = IF p = m.from THEN DOMAIN told \ {n} ELSE @,
           !.asRouter = IF p = m.from THEN m.body.asRouter ELSE @,
           !.learnt = IF Roams /\ p \in DOMAIN told /\ (@ = None \/ told[p] > @)
                      THEN told[p] ELSE @]
  IN
  /\ Take(m, "info", {}) /\ job[n] = Idle
  /\ info' = IF Reaches(m.from, n)
             THEN [info EXCEPT ![n] = [p \in Peers(n) |-> heard(p)]] ELSE info
  /\ UNCHANGED <<world, faults, age, endpoint, tables, job, todo>>

\* handleRouteRequestMsg(): the relay tells the other end
HandleRouteRequest(m) ==
  LET r == m.to IN
  /\ Take(m, "request",
          IF Reaches(m.from, r) /\ r \in willing
          THEN {Datagram("decision", r, m.body, m.from)} ELSE {})
  /\ UNCHANGED <<world, faults, age, endpoint, info, tables, job, todo>>

\* handleRouteDecisionMsg(), under the lock
HandleRouteDecision(m) ==
  LET n == m.to
      accepted == Reaches(m.from, n) /\ info[n][m.from].asRouter IN
  /\ Take(m, "decision", {}) /\ job[n] = Idle
  /\ info' = IF accepted THEN [info EXCEPT ![n][m.body].router = m.from] ELSE info
  /\ UNCHANGED <<world, faults, age, endpoint, tables, job, todo>>

-----------------------------------------------------------------------------
(* reapply()                                                               *)

\* the ages in the dump that it begins with; the lock is held until it ends
Dump(n) ==
  /\ job[n] = Idle /\ n \in setup.slow
  /\ <<"reapply", n>> \in todo /\ todo' = todo \ {<<"reapply", n>>}
  /\ job' = [job EXCEPT ![n] = [kind |-> "run", seen |-> age[n]]]
  /\ UNCHANGED <<world, faults, age, endpoint, info, tables, msgs>>

Within(seen, t) == {p \in DOMAIN seen : seen[p] <= t}
Beyond(seen, t) == {p \in DOMAIN seen : seen[p] > t}

\* Changed: a relay is kept when its peer is connected again
KeptRouterConnected(n, seen, p) ==
  LET r == info[n][p].router IN
  IF r # None /\ \/ r \in Beyond(seen, T1)
                 \/ p \notin info[n][r].connected
                 \/ ~info[n][r].asRouter
  THEN None ELSE r

\* Changed: what the relay is connected with is not looked at again
KeptRouterBlind(n, seen, p) ==
  LET r == info[n][p].router IN
  IF \/ p \in Within(seen, T0)
     \/ r # None /\ (r \in Beyond(seen, T1) \/ ~info[n][r].asRouter)
  THEN None ELSE r

\* the relays that are still good
KeptRouter(n, seen, p) ==
  LET r == info[n][p].router IN
  IF \/ p \in Within(seen, T0)
     \/ r # None /\ \/ r \in Beyond(seen, T1)
                    \/ p \notin info[n][r].connected
                    \/ ~info[n][r].asRouter
  THEN None ELSE r

\* Changed: a relay is taken without looking whether it is connected here
RelaysAway(n, seen, p) ==
  {r \in Peers(n) : info[n][r].asRouter /\ p \in info[n][r].connected}

Relays(n, seen, p) ==
  {r \in Within(seen, T0) : info[n][r].asRouter /\ p \in info[n][r].connected}

\* the peer with the smaller key looks for a relay
NewRouter(n, seen, p) ==
  LET kept == KeptRouter(n, seen, p) IN
  IF kept = None /\ p \in Beyond(seen, T2) /\ n < p /\ Relays(n, seen, p) # {}
  THEN CHOOSE r \in Relays(n, seen, p) : \A q \in Relays(n, seen, p) : r <= q
  ELSE kept

\* a learnt endpoint and the original one are tried in turn
UseLearnt(n, seen, p) ==
  p \in Beyond(seen, T1) /\ info[n][p].learnt # None /\ info[n][p].useOrigEndpoint

\* once a name could not be resolved, no more original endpoints are set
DnsFailed(n, seen, p) ==
  ~dns /\ \E q \in Beyond(seen, T1) :
            q <= p /\ ~UseLearnt(n, seen, q) /\ setup.origin[q] = "name"

NewEndpoint(n, seen, p) ==
  CASE UseLearnt(n, seen, p) -> info[n][p].learnt
    [] p \in Beyond(seen, T1) /\ ~UseLearnt(n, seen, p)
       /\ setup.origin[p] # "none" /\ ~DnsFailed(n, seen, p)
       -> IF setup.origin[p] = "fixed" THEN 0 ELSE place[p]
    [] OTHER -> endpoint[n][p]

Target(n, seen) ==
  [p \in Peers(n) |-> IF NewRouter(n, seen, p) = None THEN p ELSE NewRouter(n, seen, p)]

Of(table, x) == {p \in DOMAIN table : table[p] = x}

\* "wg set ... allowed-ips" for each peer of changed: they are taken from
\* whoever has them, and what is not among them is no longer this peer's
Written(now, target, changed) ==
  [p \in DOMAIN now |-> CASE target[p] \in changed -> target[p]
                          [] target[p] \notin changed /\ now[p] \in changed -> None
                          [] OTHER -> now[p]]

\* Changed: a peer that only gets more is left out
ChangedLess(n, target) == {x \in Peers(n) : ~(Of(via[n], x) \subseteq Of(target, x))}

Changed(n, target) == {x \in Peers(n) : Of(target, x) # Of(via[n], x)}

\* the rest of it, and enforceAllowedIPsAndSendRouteReqMsg(); the commands for
\* the peers of failed fail, and are not repeated
Reapply(n, failed) ==
  LET seen == IF n \in setup.slow THEN job[n].seen ELSE age[n]
      target == Target(n, seen)
      asked == {p \in Peers(n) : target[p] # p /\ n < p}
  IN
  /\ IF n \in setup.slow THEN job[n].kind = "run" /\ UNCHANGED todo
     ELSE <<"reapply", n>> \in todo /\ todo' = todo \ {<<"reapply", n>>}
  /\ job' = [job EXCEPT ![n] = Idle]
  /\ failed \subseteq Changed(n, target)
  /\ IF failed = {} THEN UNCHANGED faults ELSE Spend("fail")
  /\ info' = [info EXCEPT ![n] = [p \in Peers(n) |->
                [info[n][p] EXCEPT
                   !.router = NewRouter(n, seen, p),
                   !.useOrigEndpoint = IF p \in Beyond(seen, T1)
                                       THEN ~UseLearnt(n, seen, p) ELSE @]]]
  /\ endpoint' = [endpoint EXCEPT ![n] = [p \in Peers(n) |-> NewEndpoint(n, seen, p)]]
  /\ kernel' = [kernel EXCEPT ![n] = Written(@, target, Changed(n, target) \ failed)]
  /\ via' = [via EXCEPT ![n] = target]
  /\ damaged' = IF failed = {} THEN damaged ELSE damaged \cup {n}
  /\ msgs' = msgs \cup {Datagram("request", n, target[p], p) : p \in asked}
  /\ UNCHANGED <<world, age, replaced>>

-----------------------------------------------------------------------------
(* The plugin: the interface and its automaton are replaced                *)

\* setconf: the peers of the configuration, without a handshake
NewKernel(n) ==
  /\ age' = [age EXCEPT ![n] = [p \in Peers(n) |-> Never]]
  /\ endpoint' = [endpoint EXCEPT ![n] = Configured(setup, n)]
  /\ kernel' = [kernel EXCEPT ![n] = Direct(n)]

\* the old automaton is stopped, but not the reapply() that is running
NewAutomaton(n) ==
  /\ job' = [job EXCEPT ![n] =
               IF @.kind = "run"
               THEN [kind |-> "old", target |-> Target(n, @.seen),
                     changed |-> Changed(n, Target(n, @.seen))]
               ELSE @]
  /\ via' = [via EXCEPT ![n] = Direct(n)]
  /\ info' = [info EXCEPT ![n] = NewInfo(n)]

\* a new configuration: flush() removes the interface and stops the automaton
\* before the interface is created again
Recreate(n, routers) ==
  /\ n \in setup.boxes \ replaced /\ Spend("recreate")
  /\ willing' = routers /\ routers \ {n} = willing \ {n}
  /\ NewKernel(n) /\ NewAutomaton(n)
  /\ UNCHANGED <<setup, up, place, dns, todo, msgs, replaced, damaged>>

\* another WAN, or a change of addresses only: flushFast() leaves the interface
\* and the automaton alone, and createInterface() configures the kernel
Setconf(n) ==
  /\ n \in setup.boxes \ replaced /\ Spend("recreate")
  /\ replaced' = replaced \cup {n}
  /\ NewKernel(n)
  /\ UNCHANGED <<world, info, via, damaged, job, todo, msgs>>

\* the routes are there: changeRoutingTables() replaces the automaton, which
\* may have written to the kernel since
Restart(n) ==
  /\ n \in replaced /\ replaced' = replaced \ {n}
  /\ NewAutomaton(n)
  /\ damaged' = IF kernel[n] = Direct(n) THEN damaged ELSE damaged \cup {n}
  /\ UNCHANGED <<world, faults, age, endpoint, kernel, todo, msgs>>

\* the old automaton writes to the new interface
OldReapply(n) ==
  /\ job[n].kind = "old" /\ job' = [job EXCEPT ![n] = Idle]
  /\ kernel' = [kernel EXCEPT ![n] = Written(@, job[n].target, job[n].changed)]
  /\ damaged' = IF kernel'[n] = kernel[n] THEN damaged ELSE damaged \cup {n}
  /\ UNCHANGED <<world, faults, age, endpoint, info, via, todo, msgs, replaced>>

-----------------------------------------------------------------------------
(* WireGuard and the network                                               *)

\* a handshake starts from the end that has the place of the other
Meet(a, b) ==
  {a, b} \in up /\ (endpoint[a][b] = place[b] \/ endpoint[b][a] = place[a])

Met(a, b) ==
  age[a][b] <= T0 /\ age[b][a] <= T0 /\ endpoint[a][b] = place[b] /\ endpoint[b][a] = place[a]

\* both ends keep the place they see
Handshake(a, b) ==
  /\ Meet(a, b) /\ ~Met(a, b)
  /\ age' = [age EXCEPT ![a][b] = 0, ![b][a] = 0]
  /\ endpoint' = [endpoint EXCEPT ![a][b] = place[b], ![b][a] = place[a]]
  /\ UNCHANGED <<world, faults, info, tables, job, todo, msgs>>

\* a datagram arrives or is lost, and a handshake that is possible takes place
\* or is renewed, within a period
Pass ==
  /\ todo = {} /\ msgs = {}
  /\ \A n \in Nodes : \A p \in Peers(n) : Meet(n, p) => Met(n, p)
  /\ todo' = Period
  /\ age' = [n \in Nodes |-> [p \in Peers(n) |->
               IF Meet(n, p) \/ age[n][p] = Never THEN age[n][p] ELSE age[n][p] + 1]]
  /\ UNCHANGED <<world, faults, endpoint, info, tables, job, msgs>>

\* what was learnt is older than T1
Forget(n, p) ==
  /\ info[n][p].learnt # None
  /\ \A q \in Peers(p) \ {n} : age[q][p] > T1
  /\ info' = [info EXCEPT ![n][p].learnt = None]
  /\ UNCHANGED <<world, faults, age, endpoint, tables, job, todo, msgs>>

Lose(m) ==
  /\ Spend("loss") /\ m \in msgs /\ msgs' = msgs \ {m}
  /\ UNCHANGED <<world, age, endpoint, info, tables, job, todo>>

Changes(f) ==
  Spend(f) /\ UNCHANGED <<setup, willing, age, endpoint, info, tables, job, todo, msgs>>

Cut(pair) ==
  /\ pair \in setup.links /\ Changes("link") /\ UNCHANGED <<place, dns>>
  /\ up' = IF pair \in up THEN up \ {pair} ELSE up \cup {pair}

Move(n) ==
  /\ n \in setup.boxes /\ Changes("move") /\ UNCHANGED <<up, dns>>
  /\ place' = [place EXCEPT ![n] = @ + 1]

DnsChange ==
  /\ Changes("dns") /\ UNCHANGED <<up, place>>
  /\ dns' = ~dns

-----------------------------------------------------------------------------
Receive(n) ==
  \E m \in msgs : /\ m.to = n
                  /\ \/ HandlePeerEndpointInfo(m) \/ HandleRouteRequest(m)
                     \/ HandleRouteDecision(m)

System ==
  \/ \E n \in Nodes : \/ Tell(n) \/ Receive(n) \/ Dump(n) \/ Reapply(n, {}) \/ OldReapply(n)
                      \/ \E p \in Peers(n) : (n < p /\ Handshake(n, p)) \/ Forget(n, p)
  \/ Pass

Next ==
  \/ System
  \/ \E n \in Nodes :
       \/ Move(n)
       \/ \E failed \in SUBSET Peers(n) : failed # {} /\ Reapply(n, failed)
       \/ \E routers \in SUBSET Nodes : Recreate(n, routers)
       \/ Setconf(n) \/ Restart(n)
  \/ \E pair \in Pairs : Cut(pair)
  \/ \E m \in msgs : Lose(m)
  \/ DnsChange

\* The intervals and the clock go on, and what apply() has begun it ends.
Spec == /\ Init /\ [][Next]_vars
        /\ WF_vars(System) /\ WF_vars(\E n \in Nodes : Restart(n))

-----------------------------------------------------------------------------
(* Properties                                                              *)

\* The type of every variable.
TypeOK ==
  /\ setup \in Setups /\ dns \in BOOLEAN /\ up \subseteq Pairs
  /\ willing \subseteq Nodes /\ todo \subseteq Period /\ damaged \subseteq Nodes
  /\ replaced \subseteq Nodes
  /\ \A n \in Nodes :
       /\ place[n] \in Nat /\ age[n] \in [Peers(n) -> 0..Never]
       /\ DOMAIN endpoint[n] = Peers(n) /\ DOMAIN info[n] = Peers(n)
       /\ kernel[n] \in [Peers(n) -> Peers(n) \cup {None}]
       /\ via[n] \in [Peers(n) -> Peers(n)]
       /\ job[n].kind \in {"idle", "run", "old"}
       /\ \A p \in Peers(n) : info[n][p].router \in (Peers(n) \ {p}) \cup {None}

\* The allowed IPs of every peer are at the one peer where the automaton
\* believes them to be, although it only writes what it thinks has changed: the
\* exceptions are a box where a command failed, one whose automaton is about to
\* be replaced, and one where the new automaton found something written by the
\* old one, or the old one wrote after it (enforceAllowedIPsAndSendRouteReqMsg(),
\* createInterface() and changeRoutingTables()).
KernelFollows == \A n \in Nodes \ (replaced \cup damaged) : kernel[n] = via[n]

\* A box that a tunnel uses as a relay is a third one, was heard of at most a
\* period after T1, and, if no interface was replaced, wants to be used,
\* whoever chose it and however old the datagrams are that it was chosen by
\* (reapply() and handleRouteDecisionMsg() together).  The exceptions are those
\* of KernelFollows, and a box whose commands take time.
RelaysHeard ==
  \A n \in Nodes \ (setup.slow \cup replaced \cup damaged) : \A p \in Peers(n) :
    LET r == kernel[n][p] IN
    r # p => /\ r \in Peers(n) /\ age[n][r] <= T2
             /\ faults["recreate"] = setup.faults["recreate"] => r \in willing

Talk(a, b) == Reaches(a, b) /\ Reaches(b, a)

Path(a, b) ==
  \/ Open(a, b)
  \/ \E r \in willing \ {a, b} : Open(a, r) /\ Open(r, b)

\* Two boxes that have a path in the end, their own or through a box that lets
\* itself be used, end up with their packets on it at both ends, the own path
\* first, and nobody uses a box that does not want to be used (the whole
\* protocol).
Converges ==
  <>[](damaged = {} => \A a, b \in Nodes : a # b =>
         /\ Path(a, b) => Talk(a, b)
         /\ Open(a, b) => kernel[a][b] = b
         /\ kernel[a][b] \in willing \cup {b})

\* A relay that has lost the peer, or is lost itself, is not used for ever: two
\* boxes that relay for each other after both have lost the same peer find out
\* (reapply() holds the relays against what they told last).
DeadRelaysEnd ==
  <>[](damaged = {} => \A a, b, r \in Nodes :
         Cardinality({a, b, r}) = 3 /\ kernel[a][b] = r => Open(a, r) /\ Open(r, b))

\* A box that has moved is found again by everyone, when a third box that has
\* met it tells where it is or its name can be resolved (the endpoints learnt
\* and the original ones are tried in turn).
Findable(a, b) ==
  /\ {a, b} \in up
  /\ \/ dns /\ setup.origin[b] = "name"
     \/ \E q \in Nodes \ {a, b} : Open(a, q) /\ Open(q, b)

Found == <>[](\A a, b \in Nodes : a # b /\ Findable(a, b) => Open(a, b))
=============================================================================
