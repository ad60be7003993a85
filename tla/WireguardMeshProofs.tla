-------------------------- MODULE WireguardMeshProofs --------------------------
(***************************************************************************)
(* Theorems about WireguardMesh, for any number of boxes and any setup.    *)
(***************************************************************************)
EXTENDS WireguardMesh, WellFoundedInduction, TLAPS

(***************************************************************************)
(* The inductive invariant.                                                *)
(***************************************************************************)
Ages(n) == [Peers(n) -> 0..Never]
Choices(n) == [Peers(n) -> Peers(n)]

\* as long as no interface was replaced, r wants to be used
Agreed(r) == faults["recreate"] = setup.faults["recreate"] => r \in willing

\* a relay is a third box; what was told by others is well formed
InfoType(n, p) ==
  [router : (Peers(n) \ {p}) \cup {None}, connected : SUBSET Nodes,
   asRouter : BOOLEAN, learnt : Nat \cup {None}, useOrigEndpoint : BOOLEAN]

JobOK(n, j) ==
  /\ j.kind \in {"idle", "run", "old"}
  /\ j.kind = "run" => j.seen \in Ages(n)
  /\ j.kind = "old" => j.target \in Choices(n) /\ j.changed \subseteq Peers(n)

\* a request or a decision is about a third box
MsgOK(m) ==
  /\ m.from \in Nodes /\ m.to \in Peers(m.from)
  /\ m.type = "info" =>
       /\ DOMAIN m.body.peers \subseteq Peers(m.from)
       /\ \A p \in DOMAIN m.body.peers : m.body.peers[p] \in Nat
       /\ m.body.asRouter \in BOOLEAN /\ (m.body.asRouter => Agreed(m.from))
  /\ m.type \in {"request", "decision"} => m.body \in Nodes \ {m.from, m.to}

\* the tables have a row for each box
Rows ==
  /\ setup \in Setups /\ willing \subseteq Nodes /\ todo \subseteq Period
  /\ replaced \subseteq Nodes
  /\ faults \in [Faults -> Nat] /\ faults["recreate"] <= setup.faults["recreate"]
  /\ place \in [Nodes -> Nat]
  /\ DOMAIN age = Nodes /\ DOMAIN endpoint = Nodes /\ DOMAIN kernel = Nodes
  /\ DOMAIN via = Nodes /\ DOMAIN info = Nodes /\ DOMAIN job = Nodes

AgeInv == \A n \in Nodes : age[n] \in Ages(n)
EndpointInv == \A n \in Nodes : endpoint[n] \in [Peers(n) -> Nat \cup {None}]
InfoInv ==
  \A n \in Nodes : /\ info[n] = [p \in Peers(n) |-> info[n][p]]
                   /\ \A p \in Peers(n) : /\ info[n][p] \in InfoType(n, p)
                                          /\ info[n][p].asRouter => Agreed(p)
JobInv == \A n \in Nodes : JobOK(n, job[n])
MsgInv == \A m \in msgs : MsgOK(m)
TableInv ==
  \A n \in Nodes : /\ kernel[n] \in [Peers(n) -> Peers(n) \cup {None}]
                   /\ via[n] \in Choices(n)

\* a relay in use agreed when it was chosen, and what was heard of it gets
\* older by one period before the next reapply() looks at it; an automaton that
\* is about to be replaced has relays of before
Heard(n, r) ==
  age[n][r] <= T1 \/ (<<"reapply", n>> \in todo /\ age[n][r] <= T2)

RelayInv ==
  \A n \in Nodes : \A p \in Peers(n) :
    via[n][p] # p => /\ Agreed(via[n][p])
                     /\ n \notin setup.slow \cup replaced => Heard(n, via[n][p])

Tables == TableInv /\ RelayInv /\ KernelFollows

IInv ==
  Rows /\ AgeInv /\ EndpointInv /\ InfoInv /\ JobInv /\ MsgInv /\ Tables

-----------------------------------------------------------------------------
(* Lemmas about the operators of the model.                                *)

\* A nonempty set of boxes has a first one in the order of the keys: the relay
\* that is chosen is one of those that qualify (reapply()).
LEMMA FirstBox ==
  ASSUME NEW S \in SUBSET Nodes, S # {}
  PROVE  (CHOOSE r \in S : \A q \in S : r <= q) \in S
<1>1. S \subseteq Nat
  BY NodesAssumption
<1> DEFINE less == {d \in Nat \X Nat : d[1] < d[2]}
<1>2. IsWellFoundedOn(less, Nat)
  <2>1. OpToRel(<, Nat) = less
    BY DEF OpToRel
  <2> QED BY <2>1, NatLessThanWellFounded
<1> HIDE DEF less
<1>3. PICK x \in S : \A y \in S : ~ (<<y, x>> \in less)
  BY <1>1, <1>2, WFMin
<1>4. ASSUME NEW y \in S PROVE x <= y
  <2>1. <<y, x>> \notin less /\ x \in Nat /\ y \in Nat
    BY <1>1, <1>3
  <2>2. ~ (y < x)
    BY <2>1 DEF less
  <2> QED BY <2>1, <2>2
<1> QED BY <1>4

\* A relay that reapply() leaves or sets is a third box that was heard of at
\* most T1 ago and that said it wants to be used.
LEMMA NewRouterIsGood ==
  ASSUME InfoInv, NEW n \in Nodes, NEW seen \in Ages(n), NEW p \in Peers(n)
  PROVE  LET r == NewRouter(n, seen, p) IN
         /\ r \in (Peers(n) \ {p}) \cup {None}
         /\ r # None => seen[r] <= T1 /\ info[n][r].asRouter
<1> DEFINE kept == KeptRouter(n, seen, p)
           relays == Relays(n, seen, p)
<1>1. info[n][p].router \in (Peers(n) \ {p}) \cup {None} /\ DOMAIN seen = Peers(n)
  BY DEF InfoInv, InfoType, Ages
<1>2. /\ kept \in (Peers(n) \ {p}) \cup {None}
      /\ kept # None => seen[kept] <= T1 /\ info[n][kept].asRouter
  <2>1. CASE kept = None
    BY <2>1
  <2>2. CASE kept # None
    <3> DEFINE r == info[n][p].router
    <3>1. kept = r /\ r \notin Beyond(seen, T1) /\ info[n][r].asRouter
      BY <2>2 DEF KeptRouter
    <3>2. r \in Peers(n) \ {p}
      BY <1>1, <2>2, <3>1
    <3>3. seen[r] \in 0..Never /\ ~(seen[r] > T1)
      BY <1>1, <3>1, <3>2 DEF Beyond, Ages
    <3> QED BY <3>1, <3>2, <3>3 DEF T1, Never
  <2> QED BY <2>1, <2>2
<1>3. CASE kept = None /\ p \in Beyond(seen, T2) /\ n < p /\ relays # {}
  <2> DEFINE r == CHOOSE r \in relays : \A q \in relays : r <= q
  <2>1. relays \subseteq Nodes
    BY <1>1 DEF Relays, Within, Peers
  <2>2. r \in relays
    BY <1>3, <2>1, FirstBox
  <2>3. r \in Peers(n) /\ seen[r] <= T0 /\ info[n][r].asRouter
    BY <1>1, <2>2 DEF Relays, Within
  <2>4. NewRouter(n, seen, p) = r
    BY <1>3 DEF NewRouter
  <2> HIDE DEF r
  <2>5. r # p /\ seen[r] <= T1
    <3>1. seen[p] > T2
      BY <1>3 DEF Beyond
    <3> QED BY <2>3, <3>1 DEF Ages, T0, T1, T2, Never
  <2> QED BY <2>3, <2>4, <2>5
<1>4. CASE ~ (kept = None /\ p \in Beyond(seen, T2) /\ n < p /\ relays # {})
  <2>1. NewRouter(n, seen, p) = kept
    BY <1>4 DEF NewRouter
  <2> QED BY <2>1, <1>2
<1> QED BY <1>3, <1>4

\* The allowed IPs of each peer are given to one peer, and to another than
\* the peer itself only if that one is a good relay.
LEMMA TargetIsGood ==
  ASSUME InfoInv, NEW n \in Nodes, NEW seen \in Ages(n)
  PROVE  /\ Target(n, seen) \in Choices(n)
         /\ \A p \in Peers(n) : Target(n, seen)[p] # p =>
              /\ Target(n, seen)[p] = NewRouter(n, seen, p)
              /\ seen[Target(n, seen)[p]] <= T1 /\ Agreed(Target(n, seen)[p])
<1>1. \A p \in Peers(n) :
        LET r == NewRouter(n, seen, p) IN
        /\ r \in (Peers(n) \ {p}) \cup {None}
        /\ r # None => seen[r] <= T1 /\ info[n][r].asRouter
  BY NewRouterIsGood
<1>2. \A r \in Peers(n) : info[n][r].asRouter => Agreed(r)
  BY DEF InfoInv
<1> HIDE DEF NewRouter
<1>3. \A p \in Peers(n) :
        /\ Target(n, seen)[p] = IF NewRouter(n, seen, p) = None THEN p ELSE NewRouter(n, seen, p)
        /\ Target(n, seen)[p] \in Peers(n)
  BY <1>1 DEF Target
<1>4. Target(n, seen) \in Choices(n)
  BY <1>3 DEF Target, Choices
<1> QED BY <1>1, <1>2, <1>3, <1>4

\* What is written of a choice keeps the shape of the table.
LEMMA WrittenType ==
  ASSUME NEW n, NEW now \in [Peers(n) -> Peers(n) \cup {None}],
         NEW target \in Choices(n), NEW changed
  PROVE  Written(now, target, changed) \in [Peers(n) -> Peers(n) \cup {None}]
BY DEF Written, Choices

\* Writing only what has changed writes the whole choice, if the kernel had the
\* last one (enforceAllowedIPsAndSendRouteReqMsg()).
LEMMA WrittenIsTarget ==
  ASSUME NEW n \in Nodes, via[n] \in Choices(n), kernel[n] = via[n],
         NEW target \in Choices(n)
  PROVE  Written(kernel[n], target, Changed(n, target)) = target
<1> DEFINE new == Written(kernel[n], target, Changed(n, target))
<1>1. DOMAIN via[n] = Peers(n) /\ DOMAIN target = Peers(n)
  BY DEF Choices
<1>2. \A p \in Peers(n) : target[p] \notin Changed(n, target) => via[n][p] = target[p]
  <2> SUFFICES ASSUME NEW p \in Peers(n), target[p] \notin Changed(n, target)
               PROVE  via[n][p] = target[p]
    OBVIOUS
  <2>1. target[p] \in Peers(n)
    BY DEF Choices
  <2>2. Of(target, target[p]) = Of(via[n], target[p])
    BY <2>1 DEF Changed
  <2>3. p \in Of(target, target[p])
    BY <1>1 DEF Of
  <2> QED BY <2>2, <2>3 DEF Of
<1>3. \A p \in Peers(n) : new[p] = target[p]
  <2> SUFFICES ASSUME NEW p \in Peers(n) PROVE new[p] = target[p]
    OBVIOUS
  <2>1. new[p] = CASE target[p] \in Changed(n, target) -> target[p]
                   [] target[p] \notin Changed(n, target) /\ kernel[n][p] \in Changed(n, target) -> None
                   [] OTHER -> kernel[n][p]
    BY <1>1 DEF Written
  <2> HIDE DEF new
  <2>2. CASE target[p] \in Changed(n, target)
    BY <2>1, <2>2
  <2>3. CASE target[p] \notin Changed(n, target)
    BY <2>1, <2>3, <1>2
  <2> QED BY <2>2, <2>3
<1>4. DOMAIN new = Peers(n)
  BY <1>1 DEF Written
<1>5. new = [p \in Peers(n) |-> new[p]] /\ target = [p \in Peers(n) |-> target[p]]
  BY <1>4 DEF Written, Choices
<1> QED BY <1>3, <1>5

-----------------------------------------------------------------------------
(* What every step keeps.                                                  *)

\* Only a change of the configuration changes who wants to be used.
LEMMA StepAgrees ==
  ASSUME Rows, Next
  PROVE  /\ setup' = setup
         /\ faults' \in [Faults -> Nat] /\ faults'["recreate"] <= setup'.faults["recreate"]
         /\ \A r : Agreed(r) => Agreed(r)'
<1> DEFINE quiet == UNCHANGED <<setup, faults, willing>>
           fault(f) == setup' = setup /\ Spend(f) /\ (f = "recreate" \/ willing' = willing)
<1>0. setup.faults \in [Faults -> Nat] /\ "recreate" \in Faults
  BY SetupAssumption DEF Rows, Faults
<1>1. quiet \/ \E f \in Faults : fault(f)
  <2>1. ASSUME NEW n \in Nodes, Tell(n) \/ Receive(n) \/ Dump(n) \/ OldReapply(n) PROVE quiet
    BY <2>1 DEF Tell, Receive, Dump, OldReapply, HandlePeerEndpointInfo, HandleRouteRequest,
                HandleRouteDecision, world
  <2>2. ASSUME NEW n \in Nodes, NEW failed, Reapply(n, failed) PROVE quiet \/ fault("fail")
    BY <2>2 DEF Reapply, world
  <2>3. ASSUME NEW n \in Nodes, NEW p \in Peers(n), Handshake(n, p) \/ Forget(n, p) PROVE quiet
    BY <2>3 DEF Handshake, Forget, world
  <2>4. ASSUME Pass PROVE quiet
    BY <2>4 DEF Pass, world
  <2>5. ASSUME NEW n \in Nodes, Move(n) PROVE fault("move")
    BY <2>5 DEF Move, Changes
  <2>6. ASSUME NEW n \in Nodes, NEW routers, Recreate(n, routers) \/ Setconf(n) PROVE fault("recreate")
    BY <2>6 DEF Recreate, Setconf, world
  <2>7. ASSUME NEW pair \in Pairs, Cut(pair) PROVE fault("link")
    BY <2>7 DEF Cut, Changes
  <2>8. ASSUME NEW m \in msgs, Lose(m) PROVE fault("loss")
    BY <2>8 DEF Lose, world
  <2>9. ASSUME DnsChange PROVE fault("dns")
    BY <2>9 DEF DnsChange, Changes
  <2>11. ASSUME NEW n \in Nodes, Restart(n) PROVE quiet
    BY <2>11 DEF Restart, world
  <2>10. {"fail", "move", "recreate", "link", "loss", "dns"} \subseteq Faults
    BY DEF Faults
  <2> HIDE DEF quiet, fault
  <2> QED BY <2>1, <2>2, <2>3, <2>4, <2>5, <2>6, <2>7, <2>8, <2>9, <2>10, <2>11 DEF Next, System
<1>2. CASE quiet
  BY <1>2 DEF Rows, Agreed
<1>3. ASSUME NEW f \in Faults, fault(f)
      PROVE  /\ setup' = setup
             /\ faults' \in [Faults -> Nat] /\ faults'["recreate"] <= setup'.faults["recreate"]
             /\ \A r : Agreed(r) => Agreed(r)'
  <2>1. faults[f] \in Nat /\ faults[f] > 0 /\ faults' = [faults EXCEPT ![f] = faults[f] - 1]
    BY <1>3 DEF Rows, Spend
  <2>2. faults' \in [Faults -> Nat]
    BY <2>1 DEF Rows
  <2>3. CASE f = "recreate"
    <3>1. faults'["recreate"] = faults["recreate"] - 1
      BY <2>1, <2>3, <1>0 DEF Rows
    <3>2. faults'["recreate"] < setup'.faults["recreate"]
      BY <3>1, <1>0, <1>3 DEF Rows
    <3> QED BY <3>2, <2>2, <1>3, <1>0 DEF Agreed
  <2>4. CASE f # "recreate"
    <3>1. faults'["recreate"] = faults["recreate"]
      BY <2>1, <2>4, <1>0 DEF Rows
    <3> QED BY <3>1, <2>2, <2>4, <1>3 DEF Agreed, Rows
  <2> QED BY <2>3, <2>4
<1> QED BY <1>1, <1>2, <1>3

\* What was found out about who wants to be used stays true.
LEMMA StillAgreed ==
  ASSUME \A r : Agreed(r) => Agreed(r)'
  PROVE  \A m : MsgOK(m) => MsgOK(m)'
BY DEF MsgOK

\* Datagrams, tables and relays under a step that leaves the variables they
\* speak of.
LEMMA Unaffected ==
  ASSUME IInv, setup' = setup, \A r : Agreed(r) => Agreed(r)'
  PROVE  /\ age' = age => AgeInv'
         /\ endpoint' = endpoint => EndpointInv'
         /\ info' = info => InfoInv'
         /\ job' = job => JobInv'
         /\ msgs' \subseteq msgs => MsgInv'
         /\ tables' = tables /\ age' = age /\ todo' = todo => Tables'
<1>0. \A m : MsgOK(m) => MsgOK(m)'
  BY StillAgreed
<1>1. age' = age => AgeInv'
  BY DEF IInv, AgeInv
<1>2. endpoint' = endpoint => EndpointInv'
  BY DEF IInv, EndpointInv
<1>3. info' = info => InfoInv'
  BY DEF IInv, InfoInv
<1>4. job' = job => JobInv'
  BY DEF IInv, JobInv, JobOK
<1>5. msgs' \subseteq msgs => MsgInv'
  BY <1>0 DEF IInv, MsgInv
<1>6. ASSUME tables' = tables, age' = age, todo' = todo PROVE Tables'
  <2>1. TableInv' /\ KernelFollows'
    BY <1>6 DEF IInv, Tables, TableInv, KernelFollows, tables
  <2>2. RelayInv'
    BY <1>6 DEF IInv, Tables, RelayInv, Heard, tables
  <2> QED BY <2>1, <2>2 DEF Tables
<1> QED BY <1>1, <1>2, <1>3, <1>4, <1>5, <1>6

-----------------------------------------------------------------------------
(* Every action preserves the invariant.                                   *)

\* What the action lemmas assume: a state of the invariant, and what StepAgrees
\* says of the step.
Step ==
  /\ IInv /\ setup' = setup
  /\ faults' \in [Faults -> Nat] /\ faults'["recreate"] <= setup'.faults["recreate"]
  /\ \A r : Agreed(r) => Agreed(r)'

\* sendPeerEndpointInfoMsg() sends what is well formed.
LEMMA TellKeeps ==
  ASSUME Step, NEW n \in Nodes, Tell(n)
  PROVE  IInv'
<1>1. Rows'
  BY DEF Step, IInv, Rows, Tell, world, tables
<1>2. AgeInv' /\ EndpointInv' /\ InfoInv' /\ JobInv'
  BY Unaffected DEF Step, Tell
<1>3. MsgInv'
  <2> SUFFICES ASSUME NEW m \in msgs' PROVE MsgOK(m)'
    BY DEF MsgInv
  <2>1. CASE m \in msgs
    BY <2>1, StillAgreed DEF Step, IInv, MsgInv
  <2>2. CASE m \notin msgs
    <3> DEFINE agreed == n \in willing
    <3>1. PICK p \in Peers(n) :
            m = Datagram("info", n, p, [peers |-> Known(n), asRouter |-> agreed])
      BY <2>2 DEF Tell
    <3>0. agreed \in BOOLEAN /\ (agreed => n \in willing)
      OBVIOUS
    <3> HIDE DEF agreed
    <3>2. m.type = "info" /\ m.from = n /\ m.to = p /\ m.body.peers = Known(n)
          /\ m.body.asRouter = agreed
      BY <3>1 DEF Datagram
    <3>3. DOMAIN Known(n) \subseteq Peers(n)
          /\ \A q \in DOMAIN Known(n) : Known(n)[q] \in Nat
      BY DEF Known, Connected, Step, IInv, EndpointInv
    <3>4. (n \in willing) => Agreed(n)'
      BY DEF Step, Tell, world, Agreed
    <3> QED BY <3>0, <3>2, <3>3, <3>4 DEF MsgOK
  <2> QED BY <2>1, <2>2
<1>4. Tables'
  <2>1. /\ kernel' = kernel /\ via' = via /\ replaced' = replaced /\ damaged' = damaged /\ age' = age
        /\ \A q : (<<"reapply", q>> \in todo') = (<<"reapply", q>> \in todo)
    BY DEF Tell, tables
  <2> QED BY <2>1 DEF Step, IInv, Tables, TableInv, RelayInv, Heard, KernelFollows
<1> QED BY <1>1, <1>2, <1>3, <1>4 DEF IInv

\* What a box is told is kept as it was sent.
LEMMA HandlePeerEndpointInfoKeeps ==
  ASSUME Step, NEW m \in msgs, HandlePeerEndpointInfo(m)
  PROVE  IInv'
<1> DEFINE n == m.to
           told == m.body.peers
<1>0. MsgOK(m) /\ MsgOK(m)' /\ m.type = "info" /\ n \in Nodes /\ m.from \in Peers(n)
  BY StillAgreed DEF Step, IInv, MsgInv, HandlePeerEndpointInfo, Take, MsgOK, Peers
<1>1. Rows'
  BY DEF Step, IInv, Rows, HandlePeerEndpointInfo, world, tables
<1>2. AgeInv' /\ EndpointInv' /\ JobInv' /\ MsgInv' /\ Tables'
  BY Unaffected DEF Step, HandlePeerEndpointInfo, Take
<1>3. InfoInv'
  <2>1. CASE info' = info
    BY <2>1, Unaffected DEF Step
  <2>2. CASE info' # info
    <3> DEFINE heard(p) ==
          [info[n][p] EXCEPT
             !.connected = IF p = m.from THEN DOMAIN told \ {n} ELSE @,
             !.asRouter = IF p = m.from THEN m.body.asRouter ELSE @,
             !.learnt = IF Roams /\ p \in DOMAIN told /\ (@ = None \/ told[p] > @)
                        THEN told[p] ELSE @]
    <3>1. info' = [info EXCEPT ![n] = [p \in Peers(n) |-> heard(p)]]
      BY <2>2 DEF HandlePeerEndpointInfo
    <3>2. ASSUME NEW p \in Peers(n)
          PROVE  heard(p) \in InfoType(n, p) /\ (heard(p).asRouter => Agreed(p)')
      <4> DEFINE i == info[n][p]
      <4>1. i \in InfoType(n, p) /\ (i.asRouter => Agreed(p)')
        BY <1>0, <3>2 DEF Step, IInv, InfoInv
      <4>2. /\ DOMAIN told \subseteq Nodes /\ \A q \in DOMAIN told : told[q] \in Nat
            /\ m.body.asRouter \in BOOLEAN
            /\ m.body.asRouter => Agreed(m.from)'
        BY <1>0 DEF MsgOK, Peers
      <4> DEFINE c == IF p = m.from THEN DOMAIN told \ {n} ELSE i.connected
                 a == IF p = m.from THEN m.body.asRouter ELSE i.asRouter
                 l == IF Roams /\ p \in DOMAIN told /\ (i.learnt = None \/ told[p] > i.learnt)
                      THEN told[p] ELSE i.learnt
      <4>3. heard(p) = [i EXCEPT !.connected = c, !.asRouter = a, !.learnt = l]
        OBVIOUS
      <4>4. c \in SUBSET Nodes /\ l \in Nat \cup {None} /\ a \in BOOLEAN
        <5>1. /\ i.connected \in SUBSET Nodes /\ i.learnt \in Nat \cup {None}
              /\ i.asRouter \in BOOLEAN
          BY <4>1 DEF InfoType
        <5> HIDE DEF i
        <5>2. c \in SUBSET Nodes /\ l \in Nat \cup {None}
          BY <4>2, <5>1
        <5>3. a \in BOOLEAN
          BY <4>2, <5>1, Zenon
        <5> QED BY <5>2, <5>3
      <4>5. a => Agreed(p)'
        BY <4>1, <4>2, Zenon
      <4> HIDE DEF heard, i, c, a, l
      <4>6. heard(p) \in InfoType(n, p)
        BY <4>1, <4>3, <4>4 DEF InfoType
      <4>7. heard(p).asRouter = a
        BY <4>1, <4>3 DEF InfoType
      <4> QED BY <4>5, <4>6, <4>7
    <3> HIDE DEF heard
    <3>3. info'[n] = [p \in Peers(n) |-> heard(p)]
      BY <1>0, <3>1 DEF Step, IInv, Rows
    <3>4. \A q \in Nodes : q # n => info'[q] = info[q]
      BY <3>1 DEF Step, IInv, Rows
    <3>5. ASSUME NEW q \in Nodes
          PROVE  /\ info'[q] = [p \in Peers(q) |-> info'[q][p]]
                 /\ \A p \in Peers(q) : /\ info'[q][p] \in InfoType(q, p)
                                        /\ info'[q][p].asRouter => Agreed(p)'
      <4>1. CASE q = n
        <5>1. \A p \in Peers(n) : info'[n][p] = heard(p)
          BY <3>3
        <5>2. info'[n] = [p \in Peers(n) |-> info'[n][p]]
          BY <3>3
        <5> QED BY <4>1, <5>1, <5>2, <3>2
      <4>2. CASE q # n
        BY <4>2, <3>4 DEF Step, IInv, InfoInv
      <4> QED BY <4>1, <4>2
    <3> QED BY <3>5 DEF InfoInv
  <2> QED BY <2>1, <2>2
<1> QED BY <1>1, <1>2, <1>3 DEF IInv

\* The decision of a relay is about the third box that asked it.
LEMMA HandleRouteRequestKeeps ==
  ASSUME Step, NEW m \in msgs, HandleRouteRequest(m)
  PROVE  IInv'
<1>1. Rows'
  BY DEF Step, IInv, Rows, HandleRouteRequest, world, tables
<1>2. AgeInv' /\ EndpointInv' /\ InfoInv' /\ JobInv' /\ Tables'
  BY Unaffected DEF Step, HandleRouteRequest
<1>3. MsgInv'
  <2>1. MsgOK(m) /\ m.type = "request"
    BY DEF Step, IInv, MsgInv, HandleRouteRequest, Take
  <2> DEFINE d == Datagram("decision", m.to, m.body, m.from)
  <2>2. msgs' \subseteq msgs \cup {d}
    BY DEF HandleRouteRequest, Take
  <2>3. MsgOK(d)'
    BY <2>1 DEF MsgOK, Datagram, Peers
  <2> QED BY <2>2, <2>3, StillAgreed DEF Step, IInv, MsgInv
<1> QED BY <1>1, <1>2, <1>3 DEF IInv

\* The relay that a decision names is a third box.
LEMMA HandleRouteDecisionKeeps ==
  ASSUME Step, NEW m \in msgs, HandleRouteDecision(m)
  PROVE  IInv'
<1> DEFINE n == m.to
           p == m.body
<1>0. MsgOK(m) /\ n \in Nodes /\ p \in Peers(n) /\ m.from \in Peers(n) \ {p}
  BY DEF Step, IInv, MsgInv, HandleRouteDecision, Take, MsgOK, Peers
<1>1. Rows'
  BY DEF Step, IInv, Rows, HandleRouteDecision, world, tables
<1>2. AgeInv' /\ EndpointInv' /\ JobInv' /\ MsgInv' /\ Tables'
  BY Unaffected DEF Step, HandleRouteDecision, Take
<1>3. InfoInv'
  <2>1. CASE info' = info
    BY <2>1, Unaffected DEF Step
  <2>2. CASE info' # info
    <3>1. info' = [info EXCEPT ![n][p].router = m.from]
      BY <2>2 DEF HandleRouteDecision
    <3>2. /\ DOMAIN info = Nodes /\ \A q \in Nodes : DOMAIN info[q] = Peers(q)
          /\ \A q \in Nodes : \A r \in Peers(q) :
               info[q][r] \in InfoType(q, r) /\ (info[q][r].asRouter => Agreed(r)')
      BY DEF Step, IInv, Rows, InfoInv
    <3>3. /\ info'[n] = [info[n] EXCEPT ![p] = [info[n][p] EXCEPT !.router = m.from]]
          /\ \A q \in Nodes : q # n => info'[q] = info[q]
      BY <3>1, <3>2, <1>0
    <3>4. /\ info'[n][p] = [info[n][p] EXCEPT !.router = m.from]
          /\ \A r \in Peers(n) : r # p => info'[n][r] = info[n][r]
      BY <3>2, <3>3, <1>0
    <3>5. info'[n][p] \in InfoType(n, p) /\ info'[n][p].asRouter = info[n][p].asRouter
      <4> DEFINE i == info[n][p]
      <4>1. i \in InfoType(n, p) /\ info'[n][p] = [i EXCEPT !.router = m.from]
        BY <3>2, <3>4, <1>0
      <4> HIDE DEF i
      <4>2. info'[n][p] \in InfoType(n, p) /\ info'[n][p].asRouter = i.asRouter
        BY <4>1, <1>0 DEF InfoType
      <4> QED BY <4>2 DEF i
    <3>6. \A q \in Nodes : \A r \in Peers(q) :
            info'[q][r] \in InfoType(q, r) /\ (info'[q][r].asRouter => Agreed(r)')
      <4> SUFFICES ASSUME NEW q \in Nodes, NEW r \in Peers(q)
                   PROVE  info'[q][r] \in InfoType(q, r) /\ (info'[q][r].asRouter => Agreed(r)')
        OBVIOUS
      <4>1. CASE q = n /\ r = p
        BY <4>1, <3>2, <3>5, Zenon
      <4>2. CASE ~ (q = n /\ r = p)
        <5>1. info'[q][r] = info[q][r]
          BY <4>2, <3>3, <3>4
        <5> QED BY <5>1, <3>2, Zenon
      <4> QED BY <4>1, <4>2
    <3>7. \A q \in Nodes : info'[q] = [r \in Peers(q) |-> info'[q][r]]
      BY <3>3, <1>0 DEF Step, IInv, InfoInv
    <3> QED BY <3>6, <3>7 DEF InfoInv
  <2> QED BY <2>1, <2>2
<1> QED BY <1>1, <1>2, <1>3 DEF IInv

\* reapply() of a slow box begins with the ages of the dump.
LEMMA DumpKeeps ==
  ASSUME Step, NEW n \in Nodes, Dump(n)
  PROVE  IInv'
<1>1. Rows'
  BY DEF Step, IInv, Rows, Dump, world, tables
<1>2. AgeInv' /\ EndpointInv' /\ InfoInv' /\ MsgInv'
  BY Unaffected DEF Step, Dump
<1>3. JobInv'
  <2>1. job' = [job EXCEPT ![n] = [kind |-> "run", seen |-> age[n]]]
    BY DEF Dump
  <2>2. JobOK(n, [kind |-> "run", seen |-> age[n]])
    BY DEF Step, IInv, AgeInv, JobOK
  <2> QED BY <2>1, <2>2 DEF Step, IInv, Rows, JobInv, JobOK
<1>4. Tables'
  <2>1. /\ kernel' = kernel /\ via' = via /\ replaced' = replaced /\ damaged' = damaged /\ age' = age /\ n \in setup.slow
        /\ \A q : q # n => (<<"reapply", q>> \in todo') = (<<"reapply", q>> \in todo)
    BY DEF Dump, tables
  <2> QED BY <2>1 DEF Step, IInv, Tables, TableInv, RelayInv, Heard, KernelFollows
<1> QED BY <1>1, <1>2, <1>3, <1>4 DEF IInv

\* reapply(): what it writes is what it believes, and its relays are good by the
\* ages of the dump; those of a box that is not slow are the present ones.
LEMMA ReapplyKeeps ==
  ASSUME Step, NEW n \in Nodes, NEW failed, Reapply(n, failed)
  PROVE  IInv'
<1> DEFINE seen == IF n \in setup.slow THEN job[n].seen ELSE age[n]
           target == Target(n, seen)
           new(p) == [info[n][p] EXCEPT
                        !.router = NewRouter(n, seen, p),
                        !.useOrigEndpoint = IF p \in Beyond(seen, T1)
                                            THEN ~UseLearnt(n, seen, p) ELSE @]
           asked == {p \in Peers(n) : target[p] # p /\ n < p}
<1>0. seen \in Ages(n)
  BY DEF Step, IInv, AgeInv, JobInv, JobOK, Reapply
<1>1. /\ target \in Choices(n)
      /\ \A p \in Peers(n) : target[p] # p => /\ target[p] \in Peers(n) \ {p}
                                              /\ seen[target[p]] <= T1 /\ Agreed(target[p])
  <2> HIDE DEF seen
  <2>1. /\ target \in Choices(n)
        /\ \A p \in Peers(n) : target[p] # p => seen[target[p]] <= T1 /\ Agreed(target[p])
    BY <1>0, TargetIsGood DEF Step, IInv
  <2> QED BY <2>1 DEF Choices
<1>2. /\ job' = [job EXCEPT ![n] = Idle]
      /\ info' = [info EXCEPT ![n] = [p \in Peers(n) |-> new(p)]]
      /\ endpoint' = [endpoint EXCEPT ![n] = [p \in Peers(n) |-> NewEndpoint(n, seen, p)]]
      /\ kernel' = [kernel EXCEPT ![n] = Written(@, target, Changed(n, target) \ failed)]
      /\ via' = [via EXCEPT ![n] = target]
      /\ damaged' = IF failed = {} THEN damaged ELSE damaged \cup {n}
      /\ msgs' = msgs \cup {Datagram("request", n, target[p], p) : p \in asked}
      /\ age' = age /\ place' = place /\ willing' = willing /\ replaced' = replaced
      /\ IF n \in setup.slow THEN todo' = todo ELSE todo' = todo \ {<<"reapply", n>>}
  BY DEF Reapply, world
<1>3. \A p \in Peers(n) : NewRouter(n, seen, p) \in (Peers(n) \ {p}) \cup {None}
  <2> HIDE DEF seen
  <2> QED BY <1>0, NewRouterIsGood DEF Step, IInv
<1>4. \A p \in Peers(n) : NewEndpoint(n, seen, p) \in Nat \cup {None}
  <2> SUFFICES ASSUME NEW p \in Peers(n) PROVE NewEndpoint(n, seen, p) \in Nat \cup {None}
    OBVIOUS
  <2> HIDE DEF seen
  <2>1. /\ info[n][p].learnt \in Nat \cup {None} /\ endpoint[n][p] \in Nat \cup {None}
        /\ place[p] \in Nat
    BY DEF Step, IInv, InfoInv, InfoType, EndpointInv, Rows, Peers
  <2> QED BY <2>1 DEF NewEndpoint
<1> HIDE DEF seen, target
<1>5. Rows'
  BY <1>2 DEF Step, IInv, Rows
<1>6. AgeInv'
  BY <1>2, Unaffected DEF Step
<1>7. EndpointInv'
  <2>1. [p \in Peers(n) |-> NewEndpoint(n, seen, p)] \in [Peers(n) -> Nat \cup {None}]
    BY <1>4
  <2> HIDE DEF NewEndpoint
  <2> QED BY <1>2, <2>1 DEF Step, IInv, Rows, EndpointInv
<1>8. InfoInv'
  <2>1. ASSUME NEW p \in Peers(n)
        PROVE  new(p) \in InfoType(n, p) /\ (new(p).asRouter => Agreed(p)')
    <3> DEFINE i == info[n][p]
               r == NewRouter(n, seen, p)
               u == IF p \in Beyond(seen, T1) THEN ~UseLearnt(n, seen, p) ELSE i.useOrigEndpoint
    <3>1. i \in InfoType(n, p) /\ (i.asRouter => Agreed(p)')
      BY DEF Step, IInv, InfoInv
    <3>2. u \in BOOLEAN
      <4>1. i.useOrigEndpoint \in BOOLEAN
        BY <3>1 DEF InfoType
      <4> QED BY <4>1, Zenon
    <3>3. r \in (Peers(n) \ {p}) \cup {None}
      BY <1>3
    <3>4. new(p) = [i EXCEPT !.router = r, !.useOrigEndpoint = u]
      OBVIOUS
    <3> HIDE DEF i, r, u, new
    <3>5. new(p) \in InfoType(n, p) /\ new(p).asRouter = i.asRouter
      BY <3>1, <3>2, <3>3, <3>4 DEF InfoType
    <3> QED BY <3>1, <3>5
  <2> HIDE DEF new
  <2>2. /\ info'[n] = [p \in Peers(n) |-> new(p)]
        /\ \A q \in Nodes : q # n => info'[q] = info[q]
    BY <1>2 DEF Step, IInv, Rows
  <2>3. ASSUME NEW q \in Nodes
        PROVE  /\ info'[q] = [p \in Peers(q) |-> info'[q][p]]
               /\ \A p \in Peers(q) : /\ info'[q][p] \in InfoType(q, p)
                                      /\ info'[q][p].asRouter => Agreed(p)'
    <3>1. CASE q = n
      <4>1. \A p \in Peers(n) : info'[n][p] = new(p)
        BY <2>2
      <4>2. info'[n] = [p \in Peers(n) |-> info'[n][p]]
        BY <2>2
      <4> QED BY <3>1, <4>1, <4>2, <2>1
    <3>2. CASE q # n
      BY <3>2, <2>2 DEF Step, IInv, InfoInv
    <3> QED BY <3>1, <3>2
  <2> QED BY <2>3 DEF InfoInv
<1>9. JobInv'
  BY <1>2 DEF Step, IInv, Rows, JobInv, JobOK, Idle
<1>10. MsgInv'
  <2> SUFFICES ASSUME NEW m \in msgs' PROVE MsgOK(m)'
    BY DEF MsgInv
  <2>1. CASE m \in msgs
    BY <2>1, StillAgreed DEF Step, IInv, MsgInv
  <2>2. CASE m \notin msgs
    <3>1. PICK p \in asked : m = Datagram("request", n, target[p], p)
      BY <1>2, <2>2
    <3>2. p \in Peers(n) /\ target[p] \in Peers(n) \ {p}
      BY <1>1
    <3>3. m.type = "request" /\ m.from = n /\ m.to = target[p] /\ m.body = p
      BY <3>1 DEF Datagram
    <3> QED BY <3>2, <3>3 DEF MsgOK, Peers
  <2> QED BY <2>1, <2>2
<1>11. Tables'
  <2>0. /\ \A q \in Nodes : q # n => kernel'[q] = kernel[q] /\ via'[q] = via[q]
        /\ via'[n] = target
        /\ kernel'[n] = Written(kernel[n], target, Changed(n, target) \ failed)
    BY <1>2 DEF Step, IInv, Rows
  <2>1. TableInv'
    <3>1. kernel'[n] \in [Peers(n) -> Peers(n) \cup {None}]
      BY <1>1, <2>0, WrittenType DEF Step, IInv, Tables, TableInv
    <3> QED BY <1>1, <2>0, <3>1 DEF Step, IInv, Tables, TableInv
  <2>2. KernelFollows'
    <3>1. CASE failed = {} /\ n \notin replaced \cup damaged
      <4>1. kernel[n] = via[n] /\ via[n] \in Choices(n)
        BY <3>1 DEF Step, IInv, Tables, TableInv, KernelFollows
      <4>2. Written(kernel[n], target, Changed(n, target)) = target
        BY <4>1, <1>1, WrittenIsTarget
      <4>3. Changed(n, target) \ failed = Changed(n, target)
        BY <3>1
      <4>4. kernel'[n] = via'[n]
        BY <4>2, <4>3, <2>0
      <4> QED BY <4>4, <3>1, <1>2, <2>0 DEF Step, IInv, Tables, KernelFollows
    <3>2. CASE ~ (failed = {} /\ n \notin replaced \cup damaged)
      BY <3>2, <1>2, <2>0 DEF Step, IInv, Tables, KernelFollows
    <3> QED BY <3>1, <3>2
  <2>3. RelayInv'
    <3> SUFFICES ASSUME NEW q \in Nodes, NEW p \in Peers(q), NEW r, r = via'[q][p], r # p
                 PROVE  Agreed(r)' /\ (q \notin setup.slow \cup replaced' => Heard(q, r)')
      BY DEF RelayInv, Step
    <3>1. CASE q = n
      <4>1. r = target[p] /\ Agreed(r) /\ seen[r] <= T1
        BY <3>1, <2>0, <1>1
      <4>2. n \notin setup.slow => seen = age'[n]
        BY <1>2 DEF seen
      <4> QED BY <3>1, <4>1, <4>2 DEF Step, Heard
    <3>2. CASE q # n
      <4>1. r = via[q][p] /\ (<<"reapply", q>> \in todo => <<"reapply", q>> \in todo')
        BY <3>2, <2>0, <1>2
      <4>2. Agreed(r) /\ (q \notin setup.slow \cup replaced' => Heard(q, r))
        BY <1>2, <4>1 DEF Step, IInv, Tables, RelayInv
      <4> QED BY <1>2, <4>1, <4>2 DEF Step, Heard
    <3> QED BY <3>1, <3>2
  <2> QED BY <2>1, <2>2, <2>3 DEF Tables
<1> QED BY <1>5, <1>6, <1>7, <1>8, <1>9, <1>10, <1>11 DEF IInv

\* What setconf leaves is a table without a relay, and no age.
LEMMA NewKernelKeeps ==
  ASSUME Step, NEW n \in Nodes, NewKernel(n)
  PROVE  /\ AgeInv' /\ EndpointInv'
         /\ DOMAIN age' = Nodes /\ DOMAIN endpoint' = Nodes /\ DOMAIN kernel' = Nodes
         /\ kernel'[n] = Direct(n)
         /\ \A q \in Nodes : q # n => kernel'[q] = kernel[q] /\ age'[q] = age[q]
<1>2. /\ age' = [age EXCEPT ![n] = [p \in Peers(n) |-> Never]]
      /\ endpoint' = [endpoint EXCEPT ![n] = Configured(setup, n)]
      /\ kernel' = [kernel EXCEPT ![n] = Direct(n)]
  BY DEF NewKernel
<1>3. AgeInv'
  <2>1. [p \in Peers(n) |-> Never] \in Ages(n)
    BY DEF Ages, Never
  <2> QED BY <1>2, <2>1 DEF Step, IInv, Rows, AgeInv
<1>4. EndpointInv'
  <2>1. Configured(setup, n) \in [Peers(n) -> Nat \cup {None}]
    BY DEF Configured
  <2> QED BY <1>2, <2>1 DEF Step, IInv, Rows, EndpointInv
<1> QED BY <1>2, <1>3, <1>4 DEF Step, IInv, Rows

\* A new automaton knows nothing and has no relay, and an old one that is still
\* running writes what it has chosen.
LEMMA NewAutomatonKeeps ==
  ASSUME Step, NEW n \in Nodes, NewAutomaton(n)
  PROVE  /\ InfoInv' /\ JobInv'
         /\ DOMAIN via' = Nodes /\ DOMAIN info' = Nodes /\ DOMAIN job' = Nodes
         /\ via'[n] = Direct(n) /\ \A q \in Nodes : q # n => via'[q] = via[q]
<1> DEFINE j == job[n]
           old == [kind |-> "old", target |-> Target(n, j.seen),
                   changed |-> Changed(n, Target(n, j.seen))]
<1>2. /\ via' = [via EXCEPT ![n] = Direct(n)]
      /\ info' = [info EXCEPT ![n] = NewInfo(n)]
      /\ job' = [job EXCEPT ![n] = IF j.kind = "run" THEN old ELSE j]
  BY DEF NewAutomaton
<1>5. InfoInv'
  <2>1. /\ NewInfo(n) = [p \in Peers(n) |-> NewInfo(n)[p]]
        /\ \A p \in Peers(n) : NewInfo(n)[p] \in InfoType(n, p) /\ ~ NewInfo(n)[p].asRouter
    BY DEF NewInfo, InfoType
  <2>2. info'[n] = NewInfo(n) /\ \A q \in Nodes : q # n => info'[q] = info[q]
    BY <1>2 DEF Step, IInv, Rows
  <2>3. ASSUME NEW q \in Nodes
        PROVE  /\ info'[q] = [p \in Peers(q) |-> info'[q][p]]
               /\ \A p \in Peers(q) : /\ info'[q][p] \in InfoType(q, p)
                                      /\ info'[q][p].asRouter => Agreed(p)'
    <3>1. CASE q = n
      BY <3>1, <2>1, <2>2, Zenon
    <3>2. CASE q # n
      BY <3>2, <2>2 DEF Step, IInv, InfoInv
    <3> QED BY <3>1, <3>2
  <2> QED BY <2>3 DEF InfoInv
<1>6. JobInv'
  <2>1. JobOK(n, j)
    BY DEF Step, IInv, JobInv
  <2>2. j.kind = "run" => JobOK(n, old)
    <3>1. j.kind = "run" => Target(n, j.seen) \in Choices(n)
      BY <2>1, TargetIsGood DEF JobOK, Step, IInv
    <3>2. Changed(n, Target(n, j.seen)) \subseteq Peers(n)
      BY DEF Changed
    <3> HIDE DEF j
    <3> QED BY <3>1, <3>2 DEF JobOK
  <2> HIDE DEF j, old
  <2>3. job' = [job EXCEPT ![n] = IF j.kind = "run" THEN old ELSE j]
    BY <1>2 DEF j, old
  <2>4. JobOK(n, job'[n]) /\ \A q \in Nodes : q # n => job'[q] = job[q]
    BY <2>1, <2>2, <2>3 DEF Step, IInv, Rows
  <2> QED BY <2>4 DEF Step, IInv, JobInv, JobOK
<1> QED BY <1>2, <1>5, <1>6 DEF Step, IInv, Rows

\* A table without a relay is a choice.
LEMMA DirectIsChoice ==
  ASSUME NEW n \in Nodes
  PROVE  /\ Direct(n) \in Choices(n) /\ Choices(n) \subseteq [Peers(n) -> Peers(n) \cup {None}]
         /\ \A p \in Peers(n) : Direct(n)[p] = p
BY DEF Direct, Choices

\* A new automaton begins with the tables that setconf has written.
LEMMA RecreateKeeps ==
  ASSUME Step, NEW n \in Nodes, NEW routers \in SUBSET Nodes, Recreate(n, routers)
  PROVE  IInv'
<1>1. /\ NewKernel(n) /\ NewAutomaton(n)
      /\ setup' = setup /\ willing' = routers /\ place' = place /\ todo' = todo
      /\ msgs' = msgs /\ replaced' = replaced /\ damaged' = damaged
  BY DEF Recreate
<1>2. Rows'
  BY <1>1, NewKernelKeeps, NewAutomatonKeeps DEF Step, IInv, Rows
<1>3. AgeInv' /\ EndpointInv' /\ InfoInv' /\ JobInv'
  BY <1>1, NewKernelKeeps, NewAutomatonKeeps
<1>4. MsgInv'
  BY <1>1, Unaffected DEF Step
<1>5. Tables'
  <2>1. /\ kernel'[n] = Direct(n) /\ via'[n] = Direct(n)
        /\ \A q \in Nodes : q # n => kernel'[q] = kernel[q] /\ via'[q] = via[q] /\ age'[q] = age[q]
    BY <1>1, NewKernelKeeps, NewAutomatonKeeps
  <2>2. TableInv'
    BY <2>1, DirectIsChoice DEF Step, IInv, Tables, TableInv
  <2>3. KernelFollows'
    BY <1>1, <2>1 DEF Step, IInv, Tables, KernelFollows
  <2>4. RelayInv'
    BY <1>1, <2>1, DirectIsChoice DEF Step, IInv, Tables, RelayInv, Heard
  <2> QED BY <2>2, <2>3, <2>4 DEF Tables
<1> QED BY <1>2, <1>3, <1>4, <1>5 DEF IInv

\* The kernel is configured under an automaton that goes on: until that one is
\* replaced nothing is said of what they agree on.
LEMMA SetconfKeeps ==
  ASSUME Step, NEW n \in Nodes, Setconf(n)
  PROVE  IInv'
<1>1. /\ NewKernel(n)
      /\ setup' = setup /\ willing' = willing /\ place' = place /\ todo' = todo
      /\ info' = info /\ via' = via /\ job' = job /\ msgs' = msgs /\ damaged' = damaged
      /\ replaced' = replaced \cup {n}
  BY DEF Setconf, world
<1>2. Rows'
  BY <1>1, NewKernelKeeps DEF Step, IInv, Rows
<1>3. AgeInv' /\ EndpointInv' /\ InfoInv' /\ JobInv' /\ MsgInv'
  BY <1>1, NewKernelKeeps, Unaffected DEF Step
<1>4. Tables'
  <2>1. /\ kernel'[n] = Direct(n)
        /\ \A q \in Nodes : q # n => kernel'[q] = kernel[q] /\ age'[q] = age[q]
    BY <1>1, NewKernelKeeps
  <2>2. TableInv'
    BY <1>1, <2>1, DirectIsChoice DEF Step, IInv, Tables, TableInv
  <2>3. KernelFollows'
    BY <1>1, <2>1 DEF Step, IInv, Tables, KernelFollows
  <2>4. RelayInv'
    BY <1>1, <2>1 DEF Step, IInv, Tables, RelayInv, Heard
  <2> QED BY <2>2, <2>3, <2>4 DEF Tables
<1> QED BY <1>2, <1>3, <1>4 DEF IInv

\* The automaton that takes over agrees with the kernel, unless the old one has
\* written to it, which marks the box as damaged.
LEMMA RestartKeeps ==
  ASSUME Step, NEW n \in Nodes, Restart(n)
  PROVE  IInv'
<1>1. /\ NewAutomaton(n)
      /\ setup' = setup /\ willing' = willing /\ place' = place /\ todo' = todo
      /\ age' = age /\ endpoint' = endpoint /\ kernel' = kernel /\ msgs' = msgs
      /\ replaced' = replaced \ {n}
      /\ damaged' = IF kernel[n] = Direct(n) THEN damaged ELSE damaged \cup {n}
  BY DEF Restart, world
<1>2. Rows'
  BY <1>1, NewAutomatonKeeps DEF Step, IInv, Rows
<1>3. AgeInv' /\ EndpointInv' /\ InfoInv' /\ JobInv' /\ MsgInv'
  BY <1>1, NewAutomatonKeeps, Unaffected DEF Step
<1>4. Tables'
  <2>1. via'[n] = Direct(n) /\ \A q \in Nodes : q # n => via'[q] = via[q]
    BY <1>1, NewAutomatonKeeps
  <2>2. TableInv'
    BY <1>1, <2>1, DirectIsChoice DEF Step, IInv, Tables, TableInv
  <2>3. KernelFollows'
    BY <1>1, <2>1 DEF Step, IInv, Tables, KernelFollows
  <2>4. RelayInv'
    BY <1>1, <2>1, DirectIsChoice DEF Step, IInv, Tables, RelayInv, Heard
  <2> QED BY <2>2, <2>3, <2>4 DEF Tables
<1> QED BY <1>2, <1>3, <1>4 DEF IInv

\* What an old automaton writes marks the box as damaged, unless it is what is
\* there.
LEMMA OldReapplyKeeps ==
  ASSUME Step, NEW n \in Nodes, OldReapply(n)
  PROVE  IInv'
<1>1. Rows'
  BY DEF Step, IInv, Rows, OldReapply, world
<1>2. AgeInv' /\ EndpointInv' /\ InfoInv' /\ MsgInv'
  BY Unaffected DEF Step, OldReapply
<1>3. JobInv'
  BY DEF Step, IInv, Rows, JobInv, JobOK, OldReapply, Idle
<1>4. Tables'
  <2>1. /\ kernel' = [kernel EXCEPT ![n] = Written(@, job[n].target, job[n].changed)]
        /\ damaged' = IF kernel'[n] = kernel[n] THEN damaged ELSE damaged \cup {n}
        /\ via' = via /\ age' = age /\ todo' = todo /\ replaced' = replaced
    BY DEF OldReapply
  <2>2. job[n].target \in Choices(n)
    BY DEF Step, IInv, JobInv, JobOK, OldReapply
  <2>3. /\ kernel'[n] = Written(kernel[n], job[n].target, job[n].changed)
        /\ \A q \in Nodes : q # n => kernel'[q] = kernel[q]
    BY <2>1 DEF Step, IInv, Rows
  <2>4. TableInv'
    <3>1. kernel'[n] \in [Peers(n) -> Peers(n) \cup {None}]
      BY <2>2, <2>3, WrittenType DEF Step, IInv, Tables, TableInv
    <3> QED BY <2>1, <2>3, <3>1 DEF Step, IInv, Tables, TableInv
  <2>5. KernelFollows'
    BY <2>1, <2>3 DEF Step, IInv, Tables, KernelFollows
  <2>6. RelayInv'
    BY <2>1 DEF Step, IInv, Tables, RelayInv, Heard
  <2> QED BY <2>4, <2>5, <2>6 DEF Tables
<1> QED BY <1>1, <1>2, <1>3, <1>4 DEF IInv

\* A handshake makes two ages young, whatever they were.
LEMMA HandshakeKeeps ==
  ASSUME Step, NEW a \in Nodes, NEW b \in Peers(a), Handshake(a, b)
  PROVE  IInv'
<1>0. a \in Peers(b) /\ b \in Nodes /\ a # b
  BY DEF Peers
<1>1. Rows'
  BY DEF Step, IInv, Rows, Handshake, world, tables
<1>2. InfoInv' /\ JobInv' /\ MsgInv'
  BY Unaffected DEF Step, Handshake
<1>3. /\ age' = [age EXCEPT ![a][b] = 0, ![b][a] = 0]
      /\ endpoint' = [endpoint EXCEPT ![a][b] = place[b], ![b][a] = place[a]]
      /\ kernel' = kernel /\ via' = via /\ replaced' = replaced /\ damaged' = damaged /\ todo' = todo
  BY DEF Handshake, tables
<1>4. /\ age'[a] = [age[a] EXCEPT ![b] = 0] /\ age'[b] = [age[b] EXCEPT ![a] = 0]
      /\ \A q \in Nodes : q # a /\ q # b => age'[q] = age[q]
  BY <1>0, <1>3 DEF Step, IInv, Rows
<1>5. AgeInv'
  <2>1. age'[a] \in Ages(a) /\ age'[b] \in Ages(b)
    BY <1>0, <1>4 DEF Step, IInv, AgeInv, Ages, Never
  <2> QED BY <1>4, <2>1 DEF Step, IInv, AgeInv
<1>6. EndpointInv'
  <2>1. /\ endpoint'[a] = [endpoint[a] EXCEPT ![b] = place[b]]
        /\ endpoint'[b] = [endpoint[b] EXCEPT ![a] = place[a]]
        /\ \A q \in Nodes : q # a /\ q # b => endpoint'[q] = endpoint[q]
    BY <1>0, <1>3 DEF Step, IInv, Rows
  <2>2. place[a] \in Nat /\ place[b] \in Nat
    BY <1>0 DEF Step, IInv, Rows
  <2> QED BY <1>0, <2>1, <2>2 DEF Step, IInv, EndpointInv
<1>7. Tables'
  <2>1. \A q \in Nodes : \A r \in Peers(q) : age'[q][r] = 0 \/ age'[q][r] = age[q][r]
    BY <1>0, <1>4 DEF Step, IInv, AgeInv, Ages
  <2>2. RelayInv'
    <3> SUFFICES ASSUME NEW n \in Nodes, NEW p \in Peers(n), NEW r, r = via[n][p], r # p
                 PROVE  Agreed(r)' /\ (n \notin setup.slow \cup replaced' => Heard(n, r)')
      BY <1>3 DEF RelayInv, Step
    <3>1. r \in Peers(n) /\ Agreed(r) /\ (n \notin setup.slow \cup replaced' => Heard(n, r))
      BY <1>3 DEF Step, IInv, Tables, TableInv, Choices, RelayInv
    <3>2. age'[n][r] = 0 \/ age'[n][r] = age[n][r]
      BY <2>1, <3>1
    <3> QED BY <1>3, <3>1, <3>2 DEF Step, Heard, T1, T2
  <2> QED BY <1>3, <2>2 DEF Step, IInv, Tables, TableInv, KernelFollows
<1> QED BY <1>1, <1>2, <1>5, <1>6, <1>7 DEF IInv

\* In the next period the ages are one higher at most, and every box has to
\* look at its relays again.
LEMMA PassKeeps ==
  ASSUME Step, Pass
  PROVE  IInv'
<1>1. Rows'
  BY DEF Step, IInv, Rows, Pass, world, tables
<1>2. EndpointInv' /\ InfoInv' /\ JobInv' /\ MsgInv'
  BY Unaffected DEF Step, Pass
<1>3. \A n \in Nodes : \A p \in Peers(n) :
        age'[n][p] = IF Meet(n, p) \/ age[n][p] = Never THEN age[n][p] ELSE age[n][p] + 1
  BY DEF Pass
<1>4. \A n \in Nodes : \A p \in Peers(n) :
        /\ age[n][p] \in 0..Never /\ age'[n][p] \in 0..Never
        /\ age'[n][p] <= age[n][p] + 1
  BY <1>3 DEF Step, IInv, AgeInv, Ages, Never
<1>5. AgeInv'
  BY <1>4 DEF Pass, AgeInv, Ages
<1>6. Tables'
  <2>1. RelayInv'
    <3> SUFFICES ASSUME NEW n \in Nodes, NEW p \in Peers(n), NEW r, r = via[n][p], r # p
                 PROVE  Agreed(r)' /\ (n \notin setup.slow \cup replaced' => Heard(n, r)')
      BY DEF RelayInv, Step, Pass, tables
    <3>1. r \in Peers(n) /\ Agreed(r) /\ (n \notin setup.slow \cup replaced => age[n][r] <= T1)
      BY DEF Step, IInv, Tables, TableInv, Choices, RelayInv, Heard, Pass
    <3>2. <<"reapply", n>> \in todo'
      BY DEF Pass, Period
    <3> QED BY <3>1, <3>2, <1>4 DEF Step, Heard, T1, T2, Never, Pass, tables
  <2> QED BY <2>1 DEF Step, IInv, Tables, TableInv, KernelFollows, Pass, tables
<1> QED BY <1>1, <1>2, <1>5, <1>6 DEF IInv

\* What was learnt is forgotten.
LEMMA ForgetKeeps ==
  ASSUME Step, NEW n \in Nodes, NEW p \in Peers(n), Forget(n, p)
  PROVE  IInv'
<1>1. Rows'
  BY DEF Step, IInv, Rows, Forget, world, tables
<1>2. AgeInv' /\ EndpointInv' /\ JobInv' /\ MsgInv' /\ Tables'
  BY Unaffected DEF Step, Forget
<1>3. InfoInv'
  <2> DEFINE i == info[n][p]
  <2>1. /\ info'[n] = [info[n] EXCEPT ![p] = [i EXCEPT !.learnt = None]]
        /\ \A q \in Nodes : q # n => info'[q] = info[q]
    BY DEF Forget, Step, IInv, Rows, InfoInv
  <2>2. i \in InfoType(n, p) /\ (i.asRouter => Agreed(p)')
    BY DEF Step, IInv, InfoInv
  <2>3. /\ info'[n][p] = [i EXCEPT !.learnt = None]
        /\ \A r \in Peers(n) : r # p => info'[n][r] = info[n][r]
    BY <2>1 DEF Step, IInv, InfoInv
  <2>4. info'[n][p] \in InfoType(n, p) /\ info'[n][p].asRouter = i.asRouter
    <3> HIDE DEF i
    <3> QED BY <2>2, <2>3 DEF InfoType
  <2>5. info'[n][p].asRouter => Agreed(p)'
    BY <2>2, <2>4
  <2>6. \A q \in Nodes : info'[q] = [r \in Peers(q) |-> info'[q][r]]
    BY <2>1 DEF Step, IInv, InfoInv
  <2>7. ASSUME NEW q \in Nodes, NEW r \in Peers(q)
        PROVE  info'[q][r] \in InfoType(q, r) /\ (info'[q][r].asRouter => Agreed(r)')
    <3>1. CASE q = n /\ r = p
      BY <3>1, <2>4, <2>5, Zenon
    <3>2. CASE ~ (q = n /\ r = p)
      <4>1. info'[q][r] = info[q][r]
        BY <3>2, <2>1, <2>3
      <4> QED BY <4>1 DEF Step, IInv, InfoInv
    <3> QED BY <3>1, <3>2
  <2> QED BY <2>6, <2>7 DEF InfoInv
<1> QED BY <1>1, <1>2, <1>3 DEF IInv

\* Faults of the network: a datagram is lost, a path comes or goes, a box moves,
\* names cannot be resolved.
LEMMA FaultsKeep ==
  ASSUME Step,
         \/ \E m \in msgs : Lose(m)
         \/ \E pair \in Pairs : Cut(pair)
         \/ \E n \in Nodes : Move(n)
         \/ DnsChange
  PROVE  IInv'
<1>1. /\ willing' = willing /\ todo' = todo /\ age' = age /\ endpoint' = endpoint /\ info' = info
      /\ tables' = tables /\ job' = job /\ msgs' \subseteq msgs
      /\ place' \in [Nodes -> Nat]
  <2>1. ASSUME NEW n \in Nodes, Move(n) PROVE place' \in [Nodes -> Nat]
    BY <2>1 DEF Move, Step, IInv, Rows
  <2> QED BY <2>1 DEF Lose, Cut, Move, DnsChange, Changes, world, Step, IInv, Rows
<1>2. Rows'
  BY <1>1 DEF Step, IInv, Rows, tables
<1>3. AgeInv' /\ EndpointInv' /\ InfoInv' /\ JobInv' /\ MsgInv' /\ Tables'
  BY <1>1, Unaffected DEF Step
<1> QED BY <1>2, <1>3 DEF IInv

-----------------------------------------------------------------------------
(* The invariant and what follows from it.                                 *)

\* The state in which the boxes have just met and heard each other.
LEMMA InitInv == Init => IInv
<1> SUFFICES ASSUME Init PROVE IInv
  OBVIOUS
<1>0. /\ setup.willing \subseteq Nodes /\ setup.faults \in [Faults -> Nat]
      /\ setup.origin \in [Nodes -> Origins] /\ "recreate" \in Faults
  BY SetupAssumption DEF Init, Faults
<1>1. Rows
  <2>1. /\ setup \in Setups /\ faults = setup.faults /\ willing = setup.willing
        /\ todo \subseteq Period /\ place = [n \in Nodes |-> 0]
        /\ replaced = {}
    BY DEF Init
  <2>2. /\ DOMAIN age = Nodes /\ DOMAIN endpoint = Nodes /\ DOMAIN kernel = Nodes
        /\ DOMAIN via = Nodes /\ DOMAIN info = Nodes /\ DOMAIN job = Nodes
    BY DEF Init
  <2>3. faults["recreate"] \in Nat /\ place \in [Nodes -> Nat]
    BY <1>0, <2>1
  <2> QED BY <1>0, <2>1, <2>2, <2>3 DEF Rows
<1>2. AgeInv
  <2>1. T0 \in 0..Never /\ Never \in 0..Never
    BY DEF T0, Never
  <2>2. ASSUME NEW n \in Nodes PROVE age[n] \in Ages(n)
    <3>1. age[n] = [p \in Peers(n) |-> IF {n, p} \in up THEN T0 ELSE Never]
      BY DEF Init
    <3> QED BY <2>1, <3>1 DEF Ages
  <2> QED BY <2>2 DEF AgeInv
<1>3. EndpointInv
  <2>1. ASSUME NEW n \in Nodes PROVE endpoint[n] \in [Peers(n) -> Nat \cup {None}]
    <3>1. endpoint[n] = [p \in Peers(n) |-> IF {n, p} \in up THEN 0 ELSE Configured(setup, n)[p]]
      BY DEF Init
    <3>2. \A p \in Peers(n) : Configured(setup, n)[p] \in Nat \cup {None}
      BY DEF Configured
    <3> QED BY <3>1, <3>2
  <2> QED BY <2>1 DEF EndpointInv
<1>4. InfoInv
  <2> SUFFICES ASSUME NEW n \in Nodes
               PROVE  /\ info[n] = [p \in Peers(n) |-> info[n][p]]
                      /\ \A p \in Peers(n) : /\ info[n][p] \in InfoType(n, p)
                                             /\ info[n][p].asRouter => Agreed(p)
    BY DEF InfoInv
  <2> DEFINE heard == {q \in Peers(n) : {n, q} \in up}
             met(q) == {r \in Peers(q) \ {n} : {q, r} \in up}
             i(p) == [NewInfo(n)[p] EXCEPT
                        !.connected = IF p \in heard THEN met(p) ELSE {},
                        !.asRouter = p \in heard \cap willing,
                        !.learnt = IF Roams /\ \E q \in heard : p \in met(q) THEN 0 ELSE None]
  <2>1. info[n] = [p \in Peers(n) |-> i(p)]
    BY DEF Init
  <2>2. ASSUME NEW p \in Peers(n)
        PROVE  i(p) \in InfoType(n, p) /\ (i(p).asRouter => p \in willing)
    <3> DEFINE c == IF p \in heard THEN met(p) ELSE {}
               a == p \in heard \cap willing
               l == IF Roams /\ \E q \in heard : p \in met(q) THEN 0 ELSE None
               old == NewInfo(n)[p]
    <3>1. old \in InfoType(n, p)
      BY DEF NewInfo, InfoType
    <3>2. c \in SUBSET Nodes /\ a \in BOOLEAN /\ l \in Nat \cup {None} /\ (a => p \in willing)
      BY DEF Peers
    <3>3. i(p) = [old EXCEPT !.connected = c, !.asRouter = a, !.learnt = l]
      OBVIOUS
    <3> HIDE DEF old, c, a, l, i
    <3>4. i(p) \in InfoType(n, p) /\ i(p).asRouter = a
      BY <3>1, <3>2, <3>3 DEF InfoType
    <3> QED BY <3>2, <3>4
  <2> HIDE DEF i
  <2>3. \A p \in Peers(n) : info[n][p] = i(p)
    BY <2>1
  <2>4. info[n] = [p \in Peers(n) |-> info[n][p]]
    BY <2>1
  <2> QED BY <2>2, <2>3, <2>4 DEF Agreed
<1>5. JobInv
  BY DEF Init, JobInv, JobOK, Idle
<1>6. MsgInv
  BY DEF Init, MsgInv
<1>7. Tables
  BY DEF Init, Tables, TableInv, RelayInv, KernelFollows, Direct, Choices
<1> QED BY <1>1, <1>2, <1>3, <1>4, <1>5, <1>6, <1>7 DEF IInv

\* Every step preserves the invariant.
LEMMA NextInv == IInv /\ [Next]_vars => IInv'
<1> SUFFICES ASSUME IInv, [Next]_vars PROVE IInv'
  OBVIOUS
<1>1. CASE UNCHANGED vars
  <2>1. Rows' /\ \A r : Agreed(r) => Agreed(r)'
    BY <1>1 DEF vars, IInv, Rows, Agreed
  <2>2. AgeInv' /\ EndpointInv' /\ InfoInv' /\ JobInv' /\ MsgInv' /\ Tables'
    BY <1>1, <2>1, Unaffected DEF vars, tables
  <2> QED BY <2>1, <2>2 DEF IInv
<1>2. CASE Next
  <2>1. Step
    BY <1>2, StepAgrees DEF Step, IInv
  <2>2. ASSUME NEW n \in Nodes, Tell(n) \/ Receive(n) \/ Dump(n) \/ OldReapply(n) PROVE IInv'
    BY <2>1, <2>2, TellKeeps, HandlePeerEndpointInfoKeeps, HandleRouteRequestKeeps,
       HandleRouteDecisionKeeps, DumpKeeps, OldReapplyKeeps DEF Receive
  <2>3. ASSUME NEW n \in Nodes, NEW failed, Reapply(n, failed) PROVE IInv'
    BY <2>1, <2>3, ReapplyKeeps
  <2>4. ASSUME NEW n \in Nodes, NEW p \in Peers(n), Handshake(n, p) \/ Forget(n, p) PROVE IInv'
    BY <2>1, <2>4, HandshakeKeeps, ForgetKeeps
  <2>5. ASSUME Pass PROVE IInv'
    BY <2>1, <2>5, PassKeeps
  <2>6. ASSUME NEW n \in Nodes, NEW routers \in SUBSET Nodes, Recreate(n, routers) PROVE IInv'
    BY <2>1, <2>6, RecreateKeeps
  <2>8. ASSUME NEW n \in Nodes, Setconf(n) \/ Restart(n) PROVE IInv'
    BY <2>1, <2>8, SetconfKeeps, RestartKeeps
  <2>7. ASSUME \/ \E m \in msgs : Lose(m)
               \/ \E pair \in Pairs : Cut(pair)
               \/ \E n \in Nodes : Move(n)
               \/ DnsChange
        PROVE  IInv'
    BY <2>1, <2>7, FaultsKeep
  <2> QED BY <1>2, <2>2, <2>3, <2>4, <2>5, <2>6, <2>7, <2>8 DEF Next, System
<1> QED BY <1>1, <1>2

\* The invariant holds in every reachable state.
THEOREM Invariant == Spec => []IInv
<1>1. Init => IInv
  BY InitInv
<1>2. IInv /\ [Next]_vars => IInv'
  BY NextInv
<1> QED BY <1>1, <1>2, PTL DEF Spec

\* The allowed IPs are where the automaton believes them to be, although it
\* writes only what it thinks has changed, for any number of boxes, and whatever
\* happens while setconf and the end of the old automaton are apart
\* (enforceAllowedIPsAndSendRouteReqMsg(), createInterface() and
\* changeRoutingTables()).
THEOREM KernelFollowsAlways == Spec => []KernelFollows
<1>1. IInv => KernelFollows
  BY DEF IInv, Tables
<1> QED BY <1>1, Invariant, PTL

\* A relay in use is a third box that was heard of lately and that wants to be
\* used, for any number of boxes, datagrams lost and paths that come and go
\* (reapply() and handleRouteDecisionMsg()).
THEOREM RelaysHeardAlways == Spec => []RelaysHeard
<1>1. IInv => RelaysHeard
  <2> SUFFICES ASSUME IInv, NEW n \in Nodes \ (setup.slow \cup replaced \cup damaged), NEW p \in Peers(n),
                      NEW r, r = kernel[n][p], r # p
               PROVE  /\ r \in Peers(n) /\ age[n][r] <= T2
                      /\ faults["recreate"] = setup.faults["recreate"] => r \in willing
    BY DEF RelaysHeard
  <2>1. r = via[n][p]
    BY DEF IInv, Tables, KernelFollows
  <2>2. r \in Peers(n) /\ Agreed(r) /\ Heard(n, r)
    BY <2>1 DEF IInv, Tables, TableInv, Choices, RelayInv
  <2>3. age[n][r] <= T2
    BY <2>2 DEF Heard, IInv, AgeInv, Ages, T1, T2, Never
  <2> QED BY <2>2, <2>3 DEF Agreed
<1> QED BY <1>1, Invariant, PTL
=============================================================================
