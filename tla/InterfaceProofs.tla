--------------------------- MODULE InterfaceProofs ---------------------------
(***************************************************************************)
(* Proofs about the interface plugins.                                     *)
(*                                                                         *)
(* PrefixDelegation, for any LANs, bridges, prefixes and interleavings of  *)
(* reapplies, renumbering and searches: no /64 is given out twice, and     *)
(* with at most ten LANs none outside of the prefixes.                     *)
(*                                                                         *)
(* Interface, for interfaces of any kind with any configurations that      *)
(* agree, and any order of leases, cables, prefixes and reapplies: nothing *)
(* is left over and nothing is missing.                                    *)
(***************************************************************************)
EXTENDS PrefixDelegation, InterfaceAgreement, FiniteSetTheorems, WellFoundedInduction,
        TLAPS

-----------------------------------------------------------------------------
(* PrefixDelegation: the inductive invariant                               *)

Steps == {"idle", "flush", "apply", "calc", "pick", "assign", "route"}

\* each LAN has its row, and has read prefixes or nothing
Rows ==
  /\ delegation \in Delegations /\ pdfile \in delegation.delegated
  /\ pc \in [Lans -> Steps]
  /\ cache = [l \in Lans |-> cache[l]] /\ picked = [l \in Lans |-> picked[l]]
  /\ addr = [l \in Lans |-> addr[l]] /\ route = [l \in Lans |-> route[l]]
  /\ read \in [Lans -> delegation.delegated \cup {<<>>}]

\* who searches or has found has LOCK_PD_CALC; who does anything, the apply lock
Locked ==
  /\ \A l \in Lans : pc[l] \in {"pick", "assign"} => calc = l
  /\ holder = "none" => \A l \in Lans : pc[l] = "idle"

Apart == \A l, m \in Lans : l # m => cache[l] # cache[m] \/ cache[l] = Nothing

\* what was found is its own, or still nobody's
FoundFree ==
  \A l \in Lans : pc[l] = "assign" =>
    picked[l] \in {Nothing, cache[l]} \/ \A m \in Lans : picked[l] # cache[m]

\* but for bridges, the file of a LAN says what it has, and whoever searches
\* has nothing
Filed ==
  \A l \in Lans \ delegation.bridges :
    /\ addr[l] \subseteq {cache[l]} \ {Nothing} /\ route[l] \subseteq {cache[l]} \ {Nothing}
    /\ pc[l] \in {"apply", "calc", "pick", "assign"} => cache[l] = Nothing

PdInv == Rows /\ Locked /\ Apart /\ FoundFree /\ Filed

-----------------------------------------------------------------------------
(* PrefixDelegation: numbers                                               *)

\* A nonempty set of numbers has a least one.
LEMMA LeastNumber ==
  ASSUME NEW S \in SUBSET Nat, S # {}
  PROVE  Min(S) \in S /\ \A y \in S : Min(S) <= y
<1> DEFINE less == {d \in Nat \X Nat : d[1] < d[2]}
<1>1. IsWellFoundedOn(less, Nat)
  <2>1. OpToRel(<, Nat) = less
    BY DEF OpToRel
  <2> QED BY <2>1, NatLessThanWellFounded
<1> HIDE DEF less
<1>2. PICK x \in S : \A y \in S : <<y, x>> \notin less
  BY <1>1, WFMin
<1>3. \A y \in S : x <= y
  <2> SUFFICES ASSUME NEW y \in S PROVE x <= y
    OBVIOUS
  <2>1. <<y, x>> \notin less /\ x \in Nat /\ y \in Nat
    BY <1>2
  <2>2. ~ (y < x)
    BY <2>1 DEF less
  <2> QED BY <2>1, <2>2
<1> QED BY <1>2, <1>3 DEF Min

\* A number and its digits.
LEMMA Digits ==
  ASSUME NEW n \in Nat
  PROVE  /\ n \div 1000 \in Nat /\ (n \div 100) % 10 \in 0..9
         /\ (n \div 10) % 10 \in 0..9 /\ n % 10 \in 0..9
         /\ n = 1000 * (n \div 1000) + 100 * ((n \div 100) % 10)
               + 10 * ((n \div 10) % 10) + (n % 10)
<1>1. n \div 1000 \in Nat /\ n \div 100 \in Nat /\ n \div 10 \in Nat
  OBVIOUS
<1>2. (n \div 100) % 10 \in 0..9 /\ (n \div 10) % 10 \in 0..9 /\ n % 10 \in 0..9
  BY <1>1
<1>3. n = 10 * (n \div 10) + (n % 10)
  OBVIOUS
<1>4. n \div 10 = 10 * (n \div 100) + ((n \div 10) % 10)
  OBVIOUS
<1>5. n \div 100 = 10 * (n \div 1000) + ((n \div 100) % 10)
  OBVIOUS
<1> DEFINE a == n \div 1000
           b == (n \div 100) % 10
           c == (n \div 10) % 10
           d == n % 10
           x == n \div 10
           y == n \div 100
<1> HIDE DEF a, b, c, d, x, y
<1>6. /\ a \in Nat /\ b \in 0..9 /\ c \in 0..9 /\ d \in 0..9 /\ x \in Nat /\ y \in Nat
      /\ n = 10 * x + d /\ x = 10 * y + c /\ y = 10 * a + b
  BY <1>1, <1>2, <1>3, <1>4, <1>5 DEF a, b, c, d, x, y
<1>7. n = 1000 * a + 100 * b + 10 * c + d
  BY <1>6
<1> QED BY <1>1, <1>2, <1>7 DEF a, b, c, d

\* The digits of a number are those of no other one, also when they are read
\* as hexadecimal ones (_calculateSubPrefix()).
LEMMA HexDiffers ==
  ASSUME NEW i \in Nat, NEW j \in Nat, Hex(i) = Hex(j)
  PROVE  i = j
<1> DEFINE a == i \div 1000
           b == (i \div 100) % 10
           c == (i \div 10) % 10
           d == i % 10
           p == j \div 1000
           q == (j \div 100) % 10
           r == (j \div 10) % 10
           s == j % 10
<1>1. /\ a \in Nat /\ b \in 0..9 /\ c \in 0..9 /\ d \in 0..9
      /\ i = 1000 * a + 100 * b + 10 * c + d
  BY Digits
<1>2. /\ p \in Nat /\ q \in 0..9 /\ r \in 0..9 /\ s \in 0..9
      /\ j = 1000 * p + 100 * q + 10 * r + s
  BY Digits
<1>3. /\ Hex(i) = 4096 * a + 256 * b + 16 * c + d
      /\ Hex(j) = 4096 * p + 256 * q + 16 * r + s
  <2>1. i \div 1 = i /\ j \div 1 = j
    OBVIOUS
  <2> QED BY <2>1 DEF Hex, Digit
<1> HIDE DEF a, b, c, d, p, q, r, s
<1>4. a = p
  BY <1>1, <1>2, <1>3
<1>5. b = q
  BY <1>1, <1>2, <1>3, <1>4
<1>6. c = r
  BY <1>1, <1>2, <1>3, <1>4, <1>5
<1> QED BY <1>1, <1>2, <1>3, <1>4, <1>5, <1>6

\* What _findSubPrefix() finds is what the LAN has, or what nobody has.
LEMMA FoundFacts ==
  ASSUME NEW l \in Lans, NEW prefixes, DOMAIN prefixes \subseteq Nat
  PROVE  \/ Found(l, prefixes) \in {Nothing, cache[l]}
         \/ \A m \in Lans : Found(l, prefixes) # cache[m]
<1> DEFINE good == UNION {Range64(prefixes[i]) : i \in DOMAIN prefixes}
           taken == {cache[m] : m \in Lans}
           free(i) == {id \in 0 .. Size(prefixes[i]) - 1 :
                         SubPrefix(prefixes[i], id) \notin taken}
           roomy == {i \in DOMAIN prefixes : free(i) # {}}
<1>1. Found(l, prefixes) =
        IF prefixes # <<>> /\ cache[l] \in good THEN cache[l]
        ELSE IF roomy = {} THEN Nothing
        ELSE SubPrefix(prefixes[Min(roomy)], Min(free(Min(roomy))))
  BY DEF Found
<1>2. ASSUME roomy # {}
      PROVE  SubPrefix(prefixes[Min(roomy)], Min(free(Min(roomy)))) \notin taken
  <2>1. Min(roomy) \in roomy
    BY <1>2, LeastNumber
  <2> DEFINE i == Min(roomy)
  <2>2. free(i) # {} /\ free(i) \in SUBSET Nat
    BY <2>1
  <2>3. Min(free(i)) \in free(i)
    <3> HIDE DEF free, i
    <3> QED BY <2>2, LeastNumber
  <2> QED BY <2>3
<1> HIDE DEF good, roomy, free
<1>3. CASE Found(l, prefixes) \in {Nothing, cache[l]}
  BY <1>3
<1>4. CASE roomy # {} /\ Found(l, prefixes) = SubPrefix(prefixes[Min(roomy)], Min(free(Min(roomy))))
  <2>1. Found(l, prefixes) \notin taken
    BY <1>2, <1>4
  <2> QED BY <2>1
<1> QED BY <1>1, <1>3, <1>4

-----------------------------------------------------------------------------
(* PrefixDelegation: the invariant is kept                                 *)

\* The elements of a sequence have numbers, and the first one the number 1.
LEMMA FirstOf ==
  ASSUME NEW S, NEW s \in Seq(S)
  PROVE  /\ DOMAIN s \subseteq Nat /\ \A i \in DOMAIN s : s[i] \in S
         /\ s # <<>> => 1 \in DOMAIN s /\ s[1] \in S
<1>1. Len(s) \in Nat /\ DOMAIN s = 1 .. Len(s)
  OBVIOUS
<1>2. DOMAIN s \subseteq Nat /\ \A i \in DOMAIN s : s[i] \in S
  BY <1>1
<1>3. ASSUME s # <<>> PROVE 1 \in DOMAIN s /\ s[1] \in S
  <2>1. Len(s) > 0
    BY <1>1, <1>3
  <2> QED BY <1>1, <2>1
<1> QED BY <1>2, <1>3

\* The LANs that are there at first have got different sub-prefixes.
LEMMA InitApart ==
  ASSUME PdInit
  PROVE  Apart
<1> DEFINE index(l) == CHOOSE i \in DOMAIN Order : Order[i] = l
<1>1. ASSUME NEW l \in Lans
      PROVE  index(l) \in DOMAIN Order /\ Order[index(l)] = l /\ index(l) - 1 \in Nat
  <2>1. \E i \in DOMAIN Order : Order[i] = l
    BY DEF Lans
  <2>2. index(l) \in DOMAIN Order /\ Order[index(l)] = l
    BY <2>1
  <2>3. DOMAIN Order = 1 .. Len(Order)
    BY OrderAssumption
  <2> HIDE DEF index
  <2>4. index(l) \in 1 .. Len(Order) /\ Len(Order) \in Nat
    BY <2>2, <2>3, OrderAssumption
  <2> QED BY <2>2, <2>4
<1>2. pdfile[1].base \in Nat
  <2>1. pdfile \in Seq([base : Nat, bits : 0 .. 30]) /\ pdfile # <<>>
    BY DelegationAssumption DEF PdInit
  <2>2. pdfile[1] \in [base : Nat, bits : 0 .. 30]
    BY <2>1, FirstOf
  <2> QED BY <2>2
<1>3. \A l \in Lans : cache[l] = IF l \in lans THEN SubPrefix(pdfile[1], index(l) - 1) ELSE Nothing
  BY DEF PdInit
<1> HIDE DEF index
<1>4. ASSUME NEW l \in Lans, NEW m \in Lans, l # m, cache[l] = cache[m], cache[l] # Nothing
      PROVE  FALSE
  <2>1. /\ cache[l] = pdfile[1].base + Hex(index(l) - 1)
        /\ cache[m] = pdfile[1].base + Hex(index(m) - 1)
    BY <1>3, <1>4 DEF SubPrefix
  <2>2. index(l) - 1 \in Nat /\ index(m) - 1 \in Nat
    BY <1>1
  <2>3. ASSUME NEW n \in Nat PROVE Hex(n) \in Nat
    BY Digits DEF Hex, Digit
  <2>4. Hex(index(l) - 1) = Hex(index(m) - 1)
    <3> DEFINE x == Hex(index(l) - 1)
               y == Hex(index(m) - 1)
    <3>1. x \in Nat /\ y \in Nat
      BY <2>2, <2>3
    <3>2. pdfile[1].base + x = pdfile[1].base + y
      BY <1>4, <2>1
    <3> HIDE DEF x, y
    <3>3. x = y
      BY <1>2, <3>1, <3>2
    <3> QED BY <3>3 DEF x, y
  <2>5. index(l) - 1 = index(m) - 1
    BY <2>2, <2>4, HexDiffers
  <2>6. index(l) = index(m)
    <3>1. index(l) \in Nat /\ index(m) \in Nat
      BY <1>1, OrderAssumption
    <3> QED BY <2>5, <3>1
  <2> QED BY <1>1, <1>4, <2>6
<1> QED BY <1>4 DEF Apart

\* The rest holds at first: nobody does anything.
LEMMA PdInitInv == PdInit => PdInv
<1> SUFFICES ASSUME PdInit PROVE PdInv
  OBVIOUS
<1>1. Apart
  BY InitApart
<1>2. Rows
  <2>1. <<>> \in delegation.delegated \cup {<<>>} /\ "idle" \in Steps
    BY DEF Steps
  <2> QED BY <2>1 DEF PdInit, Rows
<1>3. \A l \in Lans : /\ pc[l] = "idle"
                      /\ addr[l] = {cache[l]} \ {Nothing} /\ route[l] = addr[l]
  BY DEF PdInit
<1>4. Locked /\ FoundFree /\ Filed
  BY <1>3 DEF Locked, FoundFree, Filed
<1> QED BY <1>1, <1>2, <1>4 DEF PdInv

\* Taking everything of IPv6 from a LAN frees its sub-prefix.
LEMMA ClearedInv ==
  ASSUME PdInv, NEW l \in Lans, NEW to \in {"apply", "idle"},
         pc[l] \in {"flush", "idle"}, pc' = [pc EXCEPT ![l] = to], WithoutSubPrefix(l),
         UNCHANGED <<delegation, pdfile, search>>, holder' # "none"
  PROVE  PdInv'
<1>1. /\ cache' = [cache EXCEPT ![l] = Nothing] /\ addr' = [addr EXCEPT ![l] = {}]
      /\ route' = [route EXCEPT ![l] = {}]
      /\ delegation' = delegation /\ pdfile' = pdfile /\ read' = read /\ picked' = picked /\ calc' = calc
  BY DEF WithoutSubPrefix, search
<1>2. Rows
  BY DEF PdInv
<1>3. /\ pc'[l] = to /\ cache'[l] = Nothing /\ addr'[l] = {} /\ route'[l] = {}
      /\ \A m \in Lans \ {l} : /\ pc'[m] = pc[m] /\ cache'[m] = cache[m]
                               /\ addr'[m] = addr[m] /\ route'[m] = route[m]
  BY <1>1, <1>2 DEF Rows
<1>4. Rows'
  <2>1. pc' \in [Lans -> Steps]
    BY <1>2 DEF Rows, Steps
  <2>2. /\ cache' = [m \in Lans |-> cache'[m]] /\ addr' = [m \in Lans |-> addr'[m]]
        /\ route' = [m \in Lans |-> route'[m]]
    BY <1>1, <1>2 DEF Rows
  <2> QED BY <1>1, <1>2, <2>1, <2>2 DEF Rows
<1>5. Locked'
  BY <1>1, <1>3 DEF PdInv, Locked
<1>6. Apart'
  BY <1>3 DEF PdInv, Apart
<1>7. FoundFree'
  <2> SUFFICES ASSUME NEW m \in Lans, pc'[m] = "assign"
               PROVE  picked'[m] \in {Nothing, cache'[m]} \/ \A k \in Lans : picked'[m] # cache'[k]
    BY DEF FoundFree
  <2>1. m # l /\ pc[m] = "assign" /\ cache'[m] = cache[m] /\ picked'[m] = picked[m]
    BY <1>1, <1>3
  <2>2. picked[m] \in {Nothing, cache[m]} \/ \A k \in Lans : picked[m] # cache[k]
    BY <2>1 DEF PdInv, FoundFree
  <2> QED BY <1>3, <2>1, <2>2
<1>8. Filed'
  BY <1>1, <1>3 DEF PdInv, Filed
<1> QED BY <1>4, <1>5, <1>6, <1>7, <1>8 DEF PdInv

\* A LAN that goes on without changing what it has.
LEMMA GoesOn ==
  ASSUME PdInv, NEW l \in Lans, NEW to \in Steps, pc' = [pc EXCEPT ![l] = to],
         to \in {"calc", "pick", "assign"} => pc[l] \in {"apply", "calc", "pick", "assign"},
         to # "apply",
         \/ UNCHANGED calc /\ (to \in {"pick", "assign"} => calc = l)
         \/ calc = Nothing /\ calc' = l,
         UNCHANGED <<delegation, pdfile, cache, addr, route>>,
         read' \in [Lans -> delegation.delegated \cup {<<>>}],
         \/ picked' = picked /\ to # "assign"
         \/ picked' = [picked EXCEPT ![l] = Found(l, read[l])] /\ to = "assign",
         holder' # "none"
  PROVE  PdInv'
<1>1. Rows
  BY DEF PdInv
<1>2. /\ pc'[l] = to
      /\ \A m \in Lans \ {l} : pc'[m] = pc[m] /\ picked'[m] = picked[m]
  BY <1>1 DEF Rows
<1>3. Rows'
  <2>1. pc' \in [Lans -> Steps]
    BY <1>1 DEF Rows
  <2>2. picked' = [m \in Lans |-> picked'[m]]
    BY <1>1 DEF Rows
  <2> QED BY <1>1, <2>1, <2>2 DEF Rows
<1>4. Locked'
  BY <1>2, OrderAssumption DEF PdInv, Locked
<1>5. Apart'
  BY DEF PdInv, Apart
<1>6. FoundFree'
  <2> SUFFICES ASSUME NEW m \in Lans, pc'[m] = "assign"
               PROVE  picked'[m] \in {Nothing, cache[m]} \/ \A k \in Lans : picked'[m] # cache[k]
    BY DEF FoundFree
  <2>1. CASE m # l
    BY <1>2, <2>1 DEF PdInv, FoundFree
  <2>2. CASE m = l
    <3>1. picked'[l] = Found(l, read[l])
      BY <1>1, <1>2, <2>2 DEF Rows
    <3>2. DOMAIN read[l] \subseteq Nat
      <4>1. read[l] \in delegation.delegated \cup {<<>>} /\ delegation \in Delegations
        BY <1>1 DEF Rows
      <4>2. delegation.delegated \cup {<<>>} \subseteq Seq([base : Nat, bits : 0 .. 30])
        <5>1. delegation.delegated \subseteq Seq([base : Nat, bits : 0 .. 30])
          BY <4>1, DelegationAssumption
        <5>2. <<>> \in Seq([base : Nat, bits : 0 .. 30])
          OBVIOUS
        <5> QED BY <5>1, <5>2
      <4>3. read[l] \in Seq([base : Nat, bits : 0 .. 30])
        BY <4>1, <4>2
      <4> QED BY <4>3, FirstOf
    <3> QED BY <2>2, <3>1, <3>2, FoundFacts
  <2> QED BY <2>1, <2>2
<1>7. Filed'
  BY <1>2 DEF PdInv, Filed
<1> QED BY <1>3, <1>4, <1>5, <1>6, <1>7 DEF PdInv

\* The file of a LAN gets what nobody has.
LEMMA AssignInv ==
  ASSUME PdInv, NEW l \in Lans, Assign(l), holder # "none"
  PROVE  PdInv'
<1>1. Rows
  BY DEF PdInv
<1>2. /\ pc[l] = "assign" /\ calc = l
      /\ pc' = [pc EXCEPT ![l] = "route"] /\ calc' = Nothing
      /\ read' = [read EXCEPT ![l] = <<>>] /\ picked' = [picked EXCEPT ![l] = Nothing]
      /\ UNCHANGED <<delegation, pdfile, route, holder>>
      /\ \/ picked[l] = Nothing /\ UNCHANGED <<cache, addr>>
         \/ /\ picked[l] # Nothing /\ cache' = [cache EXCEPT ![l] = picked[l]]
            /\ addr' = [addr EXCEPT ![l] = addr[l] \cup {picked[l]}]
  BY DEF Assign, network, PdInv, Locked
<1>3. /\ pc'[l] = "route"
      /\ \A m \in Lans \ {l} : /\ pc'[m] = pc[m] /\ picked'[m] = picked[m]
                               /\ cache'[m] = cache[m] /\ addr'[m] = addr[m]
      /\ picked[l] = Nothing => cache'[l] = cache[l] /\ addr'[l] = addr[l]
      /\ picked[l] # Nothing => cache'[l] = picked[l] /\ addr'[l] = addr[l] \cup {picked[l]}
  BY <1>1, <1>2 DEF Rows
<1>4. \A m \in Lans \ {l} : pc'[m] \notin {"pick", "assign"}
  BY <1>2, <1>3 DEF PdInv, Locked
<1>5. Rows'
  <2>1. pc' \in [Lans -> Steps] /\ read' \in [Lans -> delegation.delegated \cup {<<>>}]
    BY <1>1, <1>2 DEF Rows, Steps
  <2>2. /\ cache' = [m \in Lans |-> cache'[m]] /\ addr' = [m \in Lans |-> addr'[m]]
        /\ picked' = [m \in Lans |-> picked'[m]]
    BY <1>1, <1>2 DEF Rows
  <2> QED BY <1>1, <1>2, <2>1, <2>2 DEF Rows
<1>6. Locked'
  BY <1>2, <1>3, <1>4 DEF Locked
<1>7. picked[l] # Nothing => picked[l] = cache[l] \/ \A m \in Lans : picked[l] # cache[m]
  BY <1>2 DEF PdInv, FoundFree
<1>8. Apart'
  BY <1>3, <1>7 DEF PdInv, Apart
<1>9. FoundFree'
  BY <1>3, <1>4 DEF FoundFree
<1>10. Filed'
  <2> SUFFICES ASSUME NEW m \in Lans \ delegation.bridges
               PROVE  /\ addr'[m] \subseteq {cache'[m]} \ {Nothing}
                      /\ route[m] \subseteq {cache'[m]} \ {Nothing}
                      /\ pc'[m] \in {"apply", "calc", "pick", "assign"} => cache'[m] = Nothing
    BY <1>2 DEF Filed
  <2>1. /\ addr[m] \subseteq {cache[m]} \ {Nothing} /\ route[m] \subseteq {cache[m]} \ {Nothing}
        /\ pc[m] \in {"apply", "calc", "pick", "assign"} => cache[m] = Nothing
    BY DEF PdInv, Filed
  <2>2. CASE m = l
    <3>1. cache[l] = Nothing /\ addr[l] = {} /\ route[l] = {}
      BY <1>2, <2>1, <2>2
    <3> QED BY <1>3, <2>2, <3>1
  <2> QED BY <1>3, <2>1, <2>2
<1> QED BY <1>5, <1>6, <1>8, <1>9, <1>10 DEF PdInv

\* A LAN that goes on.
LEMMA StepInv ==
  ASSUME PdInv, NEW l \in Lans, Step(l)
  PROVE  PdInv'
<1>1. holder # "none" /\ holder' = holder
  BY DEF PdInv, Locked, Step, Flush, Subscribe, Enter, Pick, Assign, RouteLan
<1>2. Rows
  BY DEF PdInv
<1>3. CASE Flush(l)
  <2>1. /\ IF l \in lans THEN pc' = [pc EXCEPT ![l] = "apply"] ELSE pc' = [pc EXCEPT ![l] = "idle"]
        /\ pc[l] = "flush" /\ WithoutSubPrefix(l) /\ UNCHANGED <<delegation, pdfile, search>>
    BY <1>3 DEF Flush, network
  <2> QED BY <1>1, <2>1, ClearedInv
<1>4. CASE Subscribe(l)
  <2>1. /\ pc[l] = "apply" /\ pc' = [pc EXCEPT ![l] = "calc"]
        /\ UNCHANGED <<delegation, pdfile, cache, addr, route, read, picked, calc>>
    BY <1>4 DEF Subscribe, network, settings, search
  <2>2. read' \in [Lans -> delegation.delegated \cup {<<>>}] /\ "calc" \in Steps
    BY <1>2, <2>1 DEF Rows, Steps
  <2> QED BY <1>1, <2>1, <2>2, GoesOn
<1>5. CASE Enter(l)
  <2>1. /\ pc[l] = "calc" /\ pc' = [pc EXCEPT ![l] = "pick"] /\ calc = Nothing /\ calc' = l
        /\ read' = [read EXCEPT ![l] = pdfile]
        /\ UNCHANGED <<delegation, pdfile, cache, addr, route, picked>>
    BY <1>5 DEF Enter, network, settings
  <2>2. read' \in [Lans -> delegation.delegated \cup {<<>>}] /\ "pick" \in Steps
    BY <1>2, <2>1 DEF Rows, Steps
  <2> QED BY <1>1, <2>1, <2>2, GoesOn
<1>6. CASE Pick(l)
  <2>1. /\ pc[l] = "pick" /\ pc' = [pc EXCEPT ![l] = "assign"] /\ calc = l
        /\ picked' = [picked EXCEPT ![l] = Found(l, read[l])]
        /\ UNCHANGED <<delegation, pdfile, cache, addr, route, read, calc>>
    BY <1>6 DEF Pick, network, settings, PdInv, Locked
  <2>2. read' \in [Lans -> delegation.delegated \cup {<<>>}] /\ "assign" \in Steps
    BY <1>2, <2>1 DEF Rows, Steps
  <2> QED BY <1>1, <2>1, <2>2, GoesOn
<1>7. CASE Assign(l)
  BY <1>1, <1>7, AssignInv
<1>8. CASE RouteLan(l)
  <2>1. /\ pc[l] = "route" /\ pc' = [pc EXCEPT ![l] = "idle"]
        /\ route' = [route EXCEPT ![l] = route[l] \cup ({cache[l]} \ {Nothing})]
        /\ UNCHANGED <<delegation, pdfile, cache, addr, read, picked, calc>>
    BY <1>8 DEF RouteLan, network, search
  <2>2. /\ pc'[l] = "idle" /\ route'[l] = route[l] \cup ({cache[l]} \ {Nothing})
        /\ \A m \in Lans \ {l} : pc'[m] = pc[m] /\ route'[m] = route[m]
    BY <1>2, <2>1 DEF Rows
  <2>3. Rows'
    <3>1. pc' \in [Lans -> Steps]
      BY <1>2, <2>1 DEF Rows, Steps
    <3>2. route' = [m \in Lans |-> route'[m]]
      BY <1>2, <2>1 DEF Rows
    <3> QED BY <1>2, <2>1, <3>1, <3>2 DEF Rows
  <2>4. Locked' /\ Apart'
    BY <1>1, <2>1, <2>2 DEF PdInv, Locked, Apart
  <2>5. FoundFree'
    BY <2>1, <2>2 DEF PdInv, FoundFree
  <2>6. Filed'
    BY <2>1, <2>2 DEF PdInv, Filed
  <2> QED BY <2>3, <2>4, <2>5, <2>6 DEF PdInv
<1> QED BY <1>3, <1>4, <1>5, <1>6, <1>7, <1>8 DEF Step

\* A reapply begins while nobody does anything.
LEMMA ReapplyInv ==
  ASSUME PdInv, NEW gone, NEW changed, NEW kept, ReapplyLans(gone, changed, kept)
  PROVE  PdInv'
<1>1. /\ \A l \in Lans : pc[l] = "idle"
      /\ kept \subseteq delegation.bridges /\ holder' = "reapply"
      /\ pc' = [l \in Lans |-> IF l \in gone \cup changed THEN "flush"
                               ELSE IF l \in kept THEN "apply" ELSE "idle"]
      /\ UNCHANGED <<delegation, pdfile, cache, addr, route, read, picked, calc>>
  BY DEF ReapplyLans, PdInv, Locked, settings, search
<1>2. \A l \in Lans : pc'[l] \in {"flush", "apply", "idle"} /\ (pc'[l] = "apply" => l \in kept)
  BY <1>1
<1>3. Rows'
  <2>1. pc' \in [Lans -> Steps]
    BY <1>1 DEF Steps
  <2> QED BY <1>1, <2>1 DEF PdInv, Rows
<1>4. Locked' /\ FoundFree'
  BY <1>1, <1>2 DEF Locked, FoundFree
<1>5. Apart' /\ Filed'
  BY <1>1, <1>2 DEF PdInv, Apart, Filed
<1> QED BY <1>3, <1>4, <1>5 DEF PdInv

\* Every step keeps the invariant.
LEMMA PdNextInv == PdInv /\ [PdNext]_pdVars => PdInv'
<1> SUFFICES ASSUME PdInv, [PdNext]_pdVars PROVE PdInv'
  OBVIOUS
<1>1. CASE UNCHANGED pdVars
  BY <1>1 DEF pdVars, PdInv, Rows, Locked, Apart, FoundFree, Filed
<1>2. ASSUME NEW p \in delegation.delegated, RecordPd(p) PROVE PdInv'
  <2>1. pdfile' = p /\ UNCHANGED <<delegation, pc, cache, addr, route, read, picked, calc, holder>>
    BY <1>2 DEF RecordPd, settings, search
  <2> QED BY <2>1 DEF PdInv, Rows, Locked, Apart, FoundFree, Filed
<1>3. ASSUME NEW l \in Lans, Renumber(l) PROVE PdInv'
  <2>1. /\ pc[l] = "idle" /\ pc' = [pc EXCEPT ![l] = "apply"] /\ holder' = "event"
        /\ WithoutSubPrefix(l) /\ UNCHANGED <<delegation, pdfile, search>>
    BY <1>3 DEF Renumber, network, PdInv, Locked
  <2> QED BY <2>1, ClearedInv
<1>4. CASE Unlock
  <2>1. /\ \A l \in Lans : pc[l] = "idle"
        /\ UNCHANGED <<delegation, pdfile, pc, cache, addr, route, read, picked, calc>>
    BY <1>4 DEF Unlock, network, settings, search
  <2> QED BY <2>1 DEF PdInv, Rows, Locked, Apart, FoundFree, Filed
<1> QED BY <1>1, <1>2, <1>3, <1>4, StepInv, ReapplyInv DEF PdNext, BindPd, RenewPd

\* For any LANs, bridges, prefixes and interleavings: no sub-prefix is given
\* out twice (LOCK_PD_CALC and the cache directory in applyIpv6Settings(),
\* _findSubPrefix()).
THEOREM NoneSharedAlways == PdSpec => []NoneShared
<1>1. PdInv => NoneShared
  BY DEF PdInv, Apart, Filed, NoneShared
<1> QED BY <1>1, PdInitInv, PdNextInv, PTL DEF PdSpec

-----------------------------------------------------------------------------
(* PrefixDelegation: up to ten LANs                                        *)

Delegated == UNION {UNION {Range64(d[i]) : i \in DOMAIN d} : d \in delegation.delegated}

\* what a LAN has, or has found, was delegated
Within ==
  \A l \in Lans : /\ cache[l] \in Delegated \cup {Nothing}
                  /\ picked[l] \in Delegated \cup {Nothing}
                  /\ addr[l] \subseteq Delegated

\* A prefix has a first number and a size.
LEMMA Sized ==
  ASSUME NEW p \in [base : Nat, bits : 0 .. 30]
  PROVE  p.base \in Nat /\ Size(p) \in Int
<1> DEFINE bits == p.bits
<1>1. p.base \in Nat /\ bits \in 0 .. 30
  OBVIOUS
<1> HIDE DEF bits
<1>2. 2 ^ bits \in Int
  BY <1>1
<1> QED BY <1>1, <1>2 DEF Size, bits

\* Sub-prefixes below the tenth are those of their number.
LEMMA FirstTen ==
  ASSUME NEW p \in [base : Nat, bits : 0 .. 30], NEW n \in 0 .. 9
  PROVE  /\ SubPrefix(p, n) = p.base + n
         /\ n < Size(p) => SubPrefix(p, n) \in Range64(p)
<1>1. Hex(n) = n
  <2>1. n \div 1000 = 0 /\ n \div 100 = 0 /\ n \div 10 = 0 /\ n \div 1 = n
    OBVIOUS
  <2>2. n % 10 = n /\ 0 % 10 = 0
    OBVIOUS
  <2> QED BY <2>1, <2>2 DEF Hex, Digit
<1>2. p.base \in Nat /\ Size(p) \in Int
  BY Sized
<1> QED BY <1>1, <1>2 DEF SubPrefix, Range64

\* There are at most as many LANs as names.
LEMMA LansFinite == IsFiniteSet(Lans) /\ Cardinality(Lans) <= Len(Order)
<1>1. Len(Order) \in Nat /\ DOMAIN Order = 1 .. Len(Order)
  BY OrderAssumption
<1>2. IsFiniteSet(1 .. Len(Order)) /\ Cardinality(1 .. Len(Order)) = Len(Order)
  <2> DEFINE n == Len(Order)
  <2>1. n \in Nat
    BY <1>1
  <2> HIDE DEF n
  <2>2. /\ IsFiniteSet(1 .. n)
        /\ Cardinality(1 .. n) = IF 1 > n THEN 0 ELSE n - 1 + 1
    BY <2>1, FS_Interval
  <2> QED BY <2>1, <2>2 DEF n
<1>3. Order \in Surjection(1 .. Len(Order), Lans)
  BY <1>1, OrderAssumption DEF Surjection, Lans
<1> QED BY <1>2, <1>3, FS_Surjection

\* When ten numbers are looked at and there are nine other LANs, one is free.
LEMMA OneOfTen ==
  ASSUME NEW l \in Lans, Len(Order) <= 10, NEW base \in Nat, cache[l] \notin base .. base + 9
  PROVE  \E n \in 0 .. 9 : base + n \notin {cache[m] : m \in Lans}
<1> DEFINE others == Lans \ {l}
           taken == {cache[m] : m \in others}
           f == [m \in others |-> cache[m]]
<1>1. IsFiniteSet(others) /\ Cardinality(others) \in Nat /\ Cardinality(others) <= 9
  <2>1. Len(Order) \in Nat
    BY OrderAssumption
  <2>2. Cardinality(Lans) \in Nat
    BY LansFinite, FS_CardinalityType
  <2>3. IsFiniteSet(others) /\ Cardinality(others) = Cardinality(Lans) - 1
    BY LansFinite, FS_RemoveElement
  <2>4. Cardinality(others) \in Nat
    BY <2>3, FS_CardinalityType
  <2> QED BY <2>1, <2>2, <2>3, <2>4, LansFinite
<1>2. IsFiniteSet(taken) /\ Cardinality(taken) <= 9
  <2>1. f \in Surjection(others, taken)
    BY DEF Surjection
  <2> HIDE DEF others, taken, f
  <2>2. IsFiniteSet(taken) /\ Cardinality(taken) <= Cardinality(others)
    BY <1>1, <2>1, FS_Surjection
  <2>3. Cardinality(taken) \in Nat
    BY <2>2, FS_CardinalityType
  <2> QED BY <1>1, <2>2, <2>3
<1>3. Cardinality(base .. base + 9) = 10 /\ IsFiniteSet(base .. base + 9)
  <2> DEFINE top == base + 9
  <2>1. base \in Int /\ top \in Int /\ ~ (base > top) /\ top - base + 1 = 10
    OBVIOUS
  <2> HIDE DEF top
  <2>2. /\ IsFiniteSet(base .. top)
        /\ Cardinality(base .. top) = IF base > top THEN 0 ELSE top - base + 1
    BY <2>1, FS_Interval
  <2> QED BY <2>1, <2>2 DEF top
<1>4. ~ (base .. base + 9 \subseteq taken)
  <2> HIDE DEF taken
  <2> SUFFICES ASSUME base .. base + 9 \subseteq taken PROVE FALSE
    OBVIOUS
  <2>1. Cardinality(base .. base + 9) <= Cardinality(taken)
    BY <1>2, FS_Subset
  <2>2. Cardinality(taken) \in Nat
    BY <1>2, FS_CardinalityType
  <2> QED BY <1>2, <1>3, <2>1, <2>2
<1>5. PICK x \in base .. base + 9 : x \notin taken
  BY <1>4
<1>6. x - base \in 0 .. 9 /\ base + (x - base) = x /\ x # cache[l]
  BY <1>5
<1>7. x \notin {cache[m] : m \in Lans}
  BY <1>5, <1>6
<1> QED BY <1>6, <1>7

\* The least number that is free is below ten, so that what is found is inside of
\* the prefixes it is looked for in (_findSubPrefix()).
LEMMA FoundWithin ==
  ASSUME NEW l \in Lans, NEW ps \in Seq([base : Nat, bits : 0 .. 30]),
         \A i \in DOMAIN ps : Len(Order) <= 10 \/ Size(ps[i]) <= 10
  PROVE  Found(l, ps) \in {Nothing} \cup (UNION {Range64(ps[i]) : i \in DOMAIN ps})
<1> DEFINE good == UNION {Range64(ps[i]) : i \in DOMAIN ps}
           taken == {cache[m] : m \in Lans}
           free(i) == {id \in 0 .. Size(ps[i]) - 1 : SubPrefix(ps[i], id) \notin taken}
           roomy == {i \in DOMAIN ps : free(i) # {}}
<1>1. Found(l, ps) =
        IF ps # <<>> /\ cache[l] \in good THEN cache[l]
        ELSE IF roomy = {} THEN Nothing
        ELSE SubPrefix(ps[Min(roomy)], Min(free(Min(roomy))))
  BY DEF Found
<1>2. DOMAIN ps \subseteq Nat
  BY FirstOf
<1>3. ASSUME cache[l] \notin good, roomy # {}
      PROVE  SubPrefix(ps[Min(roomy)], Min(free(Min(roomy)))) \in good
  <2>1. Min(roomy) \in roomy
    BY <1>2, <1>3, LeastNumber
  <2> DEFINE i == Min(roomy)
             open == free(i)
  <2>2. i \in DOMAIN ps /\ open # {} /\ open \in SUBSET Nat
    <3> HIDE DEF i
    <3>1. i \in roomy
      BY <2>1 DEF i
    <3> QED BY <3>1
  <2> DEFINE p == ps[i]
             n == Min(open)
  <2>3. \A m : m \in open <=> m \in 0 .. Size(p) - 1 /\ SubPrefix(p, m) \notin taken
    OBVIOUS
  <2>4. p \in [base : Nat, bits : 0 .. 30]
    <3> HIDE DEF i
    <3>1. \A j \in DOMAIN ps : ps[j] \in [base : Nat, bits : 0 .. 30]
      BY FirstOf
    <3> QED BY <2>2, <3>1
  <2>5. /\ Range64(p) \subseteq good
        /\ Len(Order) <= 10 \/ Size(p) <= 10
    BY <2>2
  <2> HIDE DEF i, p, open, n, free, roomy
  <2>6. p.base \in Nat /\ Size(p) \in Int
    BY <2>4, Sized
  <2>7. n \in open /\ \A m \in open : n <= m
    BY <2>2, LeastNumber DEF n
  <2>8. n \in Nat /\ n < Size(p) /\ n \in 0 .. Size(p) - 1
    BY <2>3, <2>6, <2>7
  <2>9. CASE n > 9
    <3>1. Size(p) > 10 /\ Len(Order) <= 10
      BY <2>5, <2>6, <2>8, <2>9, OrderAssumption
    <3>2. p.base .. p.base + 9 \subseteq Range64(p)
      BY <2>6, <3>1 DEF Range64
    <3>3. cache[l] \notin p.base .. p.base + 9
      BY <1>3, <2>5, <3>2
    <3>4. PICK m \in 0 .. 9 : p.base + m \notin taken
      BY <2>6, <3>1, <3>3, OneOfTen
    <3>5. SubPrefix(p, m) = p.base + m
      BY <2>4, FirstTen
    <3>6. m \in 0 .. Size(p) - 1
      BY <2>6, <3>1
    <3>7. n <= m
      BY <2>3, <2>7, <3>4, <3>5, <3>6
    <3> QED BY <2>8, <2>9, <3>7
  <2>10. CASE n \in 0 .. 9
    <3>1. SubPrefix(p, n) \in Range64(p)
      BY <2>4, <2>8, <2>10, FirstTen
    <3> QED BY <2>5, <3>1 DEF n, open, p, i
  <2> QED BY <2>8, <2>9, <2>10
<1> HIDE DEF good, free, roomy
<1>4. CASE cache[l] \in good
  <2>1. ps # <<>>
    BY <1>4 DEF good
  <2> QED BY <1>1, <1>4, <2>1 DEF good
<1>5. CASE cache[l] \notin good
  BY <1>1, <1>3, <1>5 DEF good
<1> QED BY <1>4, <1>5

\* The first LANs got theirs from the first prefix.
LEMMA InitWithin ==
  ASSUME Fits, PdInit
  PROVE  Within
<1> DEFINE index(l) == CHOOSE i \in DOMAIN Order : Order[i] = l
<1>1. /\ delegation \in Delegations /\ pdfile \in delegation.delegated /\ pdfile # <<>>
      /\ lans = {Order[i] : i \in 1 .. delegation.start}
      /\ \A l \in Lans : /\ cache[l] = IF l \in lans THEN SubPrefix(pdfile[1], index(l) - 1)
                                      ELSE Nothing
                         /\ addr[l] = {cache[l]} \ {Nothing} /\ picked[l] = Nothing
  BY DEF PdInit
<1>2. pdfile \in Seq([base : Nat, bits : 0 .. 30]) /\ delegation.start \in 0 .. Len(Order)
  BY <1>1, DelegationAssumption
<1>3. pdfile[1] \in [base : Nat, bits : 0 .. 30] /\ 1 \in DOMAIN pdfile
  BY <1>1, <1>2, FirstOf
<1>4. Len(Order) \in Nat /\ DOMAIN Order = 1 .. Len(Order)
  BY OrderAssumption
<1>5. Range64(pdfile[1]) \subseteq Delegated
  BY <1>1, <1>3 DEF Delegated
<1>6. ASSUME NEW l \in lans
      PROVE  SubPrefix(pdfile[1], index(l) - 1) \in Range64(pdfile[1])
  <2>1. PICK i \in 1 .. delegation.start : Order[i] = l
    BY <1>1
  <2>2. i \in DOMAIN Order
    BY <1>2, <1>4
  <2>3. index(l) = i
    <3>1. index(l) \in DOMAIN Order /\ Order[index(l)] = l
      BY <2>1, <2>2
    <3> QED BY <2>1, <2>2, <3>1 DEF Fits
  <2>4. /\ delegation.start <= Size(pdfile[1])
        /\ Len(Order) <= 10 \/ Size(pdfile[1]) <= 10
    BY <1>1, <1>3 DEF Fits
  <2>5. Size(pdfile[1]) \in Int
    BY <1>3, Sized
  <2>6. i - 1 \in 0 .. 9 /\ i - 1 < Size(pdfile[1])
    BY <1>2, <1>4, <2>4, <2>5
  <2> HIDE DEF index
  <2> QED BY <1>3, <2>3, <2>6, FirstTen
<1> HIDE DEF index
<1>7. \A l \in Lans : cache[l] \in Delegated \cup {Nothing}
  BY <1>1, <1>5, <1>6
<1> QED BY <1>1, <1>7 DEF Within

\* A step gives a LAN what it has found, or nothing.
LEMMA NextWithin ==
  ASSUME Fits, Rows, Within, [PdNext]_pdVars
  PROVE  Within'
<1>1. Delegated' = Delegated
  BY DEF Delegated, PdNext, pdVars, RecordPd, BindPd, RenewPd, ReapplyLans, Step, Flush, Subscribe, Enter, Pick,
         Assign, RouteLan, Renumber, Unlock, network
<1>2. CASE UNCHANGED <<cache, picked, addr>>
  BY <1>1, <1>2 DEF Within
<1>3. ASSUME NEW l \in Lans, WithoutSubPrefix(l), UNCHANGED picked
      PROVE  Within'
  <2>1. \A m \in Lans : /\ cache'[m] \in {cache[m], Nothing} /\ addr'[m] \subseteq addr[m]
                        /\ picked'[m] = picked[m]
    BY <1>3 DEF Rows, WithoutSubPrefix
  <2> QED BY <1>1, <2>1 DEF Within
<1>4. ASSUME NEW l \in Lans, Pick(l)
      PROVE  Within'
  <2>1. /\ delegation \in Delegations /\ read[l] \in delegation.delegated \cup {<<>>}
        /\ delegation.delegated \subseteq Seq([base : Nat, bits : 0 .. 30])
    BY DelegationAssumption DEF Rows
  <2>2. read[l] \in Seq([base : Nat, bits : 0 .. 30])
    <3>1. <<>> \in Seq([base : Nat, bits : 0 .. 30])
      OBVIOUS
    <3> QED BY <2>1, <3>1
  <2>3. \A i \in DOMAIN read[l] : Len(Order) <= 10 \/ Size(read[l][i]) <= 10
    BY <2>1 DEF Fits
  <2>4. UNION {Range64(read[l][i]) : i \in DOMAIN read[l]} \subseteq Delegated
    BY <2>1 DEF Delegated
  <2>5. Found(l, read[l]) \in Delegated \cup {Nothing}
    BY <2>2, <2>3, <2>4, FoundWithin
  <2>6. /\ \A m \in Lans : picked'[m] \in {picked[m], Found(l, read[l])}
        /\ cache' = cache /\ addr' = addr
    BY <1>4 DEF Pick, Rows, settings
  <2> QED BY <1>1, <2>5, <2>6 DEF Within
<1>5. ASSUME NEW l \in Lans, Assign(l)
      PROVE  Within'
  <2>1. \A m \in Lans : /\ picked'[m] \in {picked[m], Nothing}
                        /\ cache'[m] = cache[m] \/ cache'[m] = picked[m]
                        /\ \/ addr'[m] = addr[m]
                           \/ addr'[m] = addr[m] \cup {picked[m]} /\ picked[m] # Nothing
    BY <1>5 DEF Assign, Rows
  <2> QED BY <1>1, <2>1 DEF Within
<1>6. ASSUME NEW l \in Lans, Step(l)
      PROVE  Within'
  <2>1. CASE Flush(l)
    BY <1>3, <2>1 DEF Flush, search
  <2>2. CASE Subscribe(l) \/ Enter(l) \/ RouteLan(l)
    BY <1>2, <2>2 DEF Subscribe, Enter, RouteLan, settings, search
  <2> QED BY <1>4, <1>5, <1>6, <2>1, <2>2 DEF Step
<1>7. ASSUME NEW l \in Lans, Renumber(l)
      PROVE  Within'
  BY <1>3, <1>7 DEF Renumber, search
<1>8. ASSUME NEW p, RecordPd(p) PROVE Within'
  BY <1>2, <1>8 DEF RecordPd, settings, search
<1>9. ASSUME NEW gone, NEW changed, NEW kept, ReapplyLans(gone, changed, kept) PROVE Within'
  BY <1>2, <1>9 DEF ReapplyLans, settings, search
<1>10. CASE Unlock \/ UNCHANGED pdVars
  BY <1>2, <1>10 DEF Unlock, pdVars, settings, search
<1> QED BY <1>6, <1>7, <1>8, <1>9, <1>10 DEF PdNext, BindPd, RenewPd

\* Up to ten LANs, or in prefixes with room for ten at most, a sub-prefix that is
\* handed out belongs to a prefix that was delegated, whatever the number of
\* prefixes and the interleaving: the number that is written in decimal where
\* hexadecimal digits are read does no harm before the eleventh LAN
\* (_calculateSubPrefix()).
THEOREM InsideUpToTen == ASSUME Fits PROVE PdSpec => []InsidePrefix
<1>1. PdInit => PdInv /\ Within
  BY PdInitInv, InitWithin
<1>2. PdInv /\ Within /\ [PdNext]_pdVars => (PdInv /\ Within)'
  <2>1. PdInv => Rows
    BY DEF PdInv
  <2> QED BY <2>1, PdNextInv, NextWithin
<1>3. Within => InsidePrefix
  BY DEF Within, InsidePrefix, Delegated
<1> QED BY <1>1, <1>2, <1>3, PTL DEF PdSpec

-----------------------------------------------------------------------------
(* Interface: what the configuration decides                               *)

\* routes are set to
V6(k, c, p) == c.ipv6 \/ (c.delegate /\ p /\ k # "pppoe" /\ ~c.dhcp6)

\* there is a default route that no lease brings
Gate(k, c) == c.gateway \/ k = "tun" \/ (Wg(k) /\ c.peers = "default")

Static4(k, c) == k # "pppoe" /\ c.ipv4 /\ ~c.dhcp

Leasing(k, c) == c.enabled /\ (c.dhcp \/ k = "pppoe")

-----------------------------------------------------------------------------
(* Interface: what each stage of apply() makes, whatever it finds          *)

CreatedBy(k, c, o) ==
  \/ o = "pppconf" /\ k = "pppoe"
  \/ o = "wgconf" /\ Wg(k)
  \/ o = "ports" /\ Wg(k) /\ c.listens /\ c.enabled

PreparedBy(k, c, o) ==
  /\ c.enabled
  /\ \/ o \in {"rule501", "rule10001"} /\ (WanOf(k, c) \/ LanOf(k, c))
     \/ o = "rule8001" /\ (WanOf(k, c) \/ LanOf(k, c)) /\ ~c.noSelfRoute
     \/ o = "lo501marked" /\ WanOf(k, c)
     \/ o = "lo501" /\ LanOf(k, c) /\ ~WanOf(k, c)
     \/ o \in WanRules /\ WanOf(k, c)
     \/ o \in LanRules /\ LanOf(k, c)

RaisedBy(k, c, o) ==
  c.enabled /\ (o = "up" \/ (o = "pppd" /\ k = "pppoe") \/ (o = "tuned" /\ c.tuned))

FourBy(c, o) ==
  \/ o \in {"dhclient", "dhclientconf"} /\ c.dhcp
  \/ o = "addr4" /\ c.ipv4 /\ ~c.dhcp

SixBy(c, p, o) ==
  \/ o \in {"dhcpcd6", "dhcpcd6conf"} /\ c.dhcp6
  \/ o \in {"local6", "default6"} /\ (c.dhcp6 \/ c.ipv6 \/ (c.delegate /\ p))
  \/ o = "addr6" /\ ~c.dhcp6 /\ (c.passthrough \/ c.ipv6 \/ (c.delegate /\ p))
  \/ o = "pdcache" /\ ~c.dhcp6 /\ c.delegate /\ p
  \/ o = "ndppd" /\ ~c.dhcp6 /\ c.passthrough

AddressedBy(k, c, p, o) ==
  c.enabled /\ k # "pppoe" /\ (FourBy(c, o) \/ SixBy(c, p, o))

NamedBy(k, c, o) == c.enabled /\ o = "resolv" /\ Named(k, c)

\* v: IPv6 routes are set, too
RouteOf(k, c, v, o) ==
  \/ o = "rule5999" /\ Wg(k)
  \/ o = "peer4" /\ Wg(k) /\ c.peers = "far"
  \/ o = "automaton" /\ Wg(k) /\ c.autonomous
  \/ o = "default4" /\ Gate(k, c)
  \/ o = "local4" /\ c.ipv4
  \/ o = "local6" /\ v
  \/ o \in {"unreachable", "rule5001"} /\ WanOf(k, c)
  \/ /\ LanOf(k, c)
     /\ \/ o = "wan4" /\ c.ipv4
        \/ o = "wan6" /\ v
        \/ /\ ~c.isolated
           /\ o = "rule5002" \/ (o = "lan4" /\ c.ipv4) \/ (o = "lan6" /\ v)

RoutedBy(k, c, p, o) == c.enabled /\ RouteOf(k, c, V6(k, c, p), o)

MarkedBy(k, c, o) ==
  /\ c.enabled /\ WanOf(k, c)
  /\ (o = "dns4" /\ Gate(k, c) /\ Named(k, c)) \/ (o = "outmark" /\ Static4(k, c))

\* what the stages before st have made
Done(st, k, c, p, o) ==
  \/ st # "create" /\ CreatedBy(k, c, o)
  \/ st \notin {"create", "env"} /\ PreparedBy(k, c, o)
  \/ st \notin {"create", "env", "updown"} /\ RaisedBy(k, c, o)
  \/ st \in {"dns", "routes", "wan", "idle"} /\ AddressedBy(k, c, p, o)
  \/ st \in {"routes", "wan", "idle"} /\ NamedBy(k, c, o)
  \/ st \in {"wan", "idle"} /\ RoutedBy(k, c, p, o)
  \/ st = "idle" /\ MarkedBy(k, c, o)

\* what apply() of c makes, with a delegated prefix (p) or without
Made(k, c, p, o) == Done("idle", k, c, p, o)

\* what may be there or not (Optional)
Spare(k, c, o) ==
  \/ k = "pppoe" /\ o \in {"dhcpcd6", "dhcpcd6conf", "local6", "default6"}
  \/ Leasing(k, c) /\ o \in Leased
  \/ ~c.enabled /\ o = "tuned"
  \/ k = "pppoe" /\ ~c.enabled /\ o = "resolv"

\* what stays of an interface that was removed
Scraps == {"up", "tuned"}

\* what flushIP() takes away
Emptied4(c, o) == o = "addr4" \/ o \in Over4 \/ (c.dhcp /\ o \in {"dhclient", "bound"})

Emptied6(c, o) ==
  o = "addr6" \/ o \in Over6 \/ (c.dhcp6 /\ o = "dhcpcd6") \/ (c.delegate /\ o = "pdcache")

Emptied(k, c, o) ==
  IF k = "pppoe"
  THEN o \in {"up", "pppd", "bound", "pppconf", "dhcpcd6", "addr4", "addr6"} \cup Over4 \cup Over6
  ELSE Emptied4(c, o) \/ Emptied6(c, o)

-----------------------------------------------------------------------------
(* The operators of Interface, by what they leave                          *)

\* The role of a configuration is that of its kind of interface.
LEMMA Roles ==
  ASSUME NEW c, c # None
  PROVE  (IsWAN(c) <=> WanOf(kind, c)) /\ (IsLAN(c) <=> LanOf(kind, c))
         /\ (HasRole(c) <=> WanOf(kind, c) \/ LanOf(kind, c))
BY DEF IsWAN, IsLAN, HasRole, WanOf, LanOf, TunnelIsWAN, WireGuard, Wg

\* createInterface() adds files and ports.
LEMMA CreatedHas ==
  ASSUME NEW c, NEW b, NEW o
  PROVE  o \in Created(c, b) <=> o \in b \/ CreatedBy(kind, c, o)
BY DEF Created, TunnelCreated, CreatedBy, WireGuard, Wg

\* Preparing the environment empties the tables and adds rules.
LEMMA PreparedHas ==
  ASSUME NEW c, c # None, NEW b, NEW o
  PROVE  o \in Prepared(c, b) <=>
           \/ o \in b /\ ~(o \in InTables /\ (WanOf(kind, c) \/ LanOf(kind, c)))
           \/ PreparedBy(kind, c, o)
BY Roles DEF Prepared, PreparedBy, LanRules, WanRules, InTables

\* interfaceUpDown() and the settings of the hardware, of an enabled interface.
LEMMA RaisedHas ==
  ASSUME NEW c, c.enabled, NEW b, NEW o
  PROVE  o \in Tuned(c, UpDown(c, b)) <=>
           \/ o \in b /\ o # "tuned" /\ ~(kind = "pppoe" /\ o = "bound")
           \/ RaisedBy(kind, c, o)
BY DEF Tuned, UpDown, RaisedBy

\* interfaceUpDown() of a disabled one.
LEMMA LoweredHas ==
  ASSUME NEW c, ~c.enabled, NEW b, NEW o
  PROVE  o \in UpDown(c, b) <=>
           /\ o \in b /\ o # "up" /\ o \notin Over4
           /\ kind = "pppoe" => o \notin {"pppd", "bound", "addr4"}
           /\ kind # "pppoe" => o # "addr6" /\ o \notin Over6
BY DEF UpDown

\* applyIpv6Settings().
LEMMA SixHas ==
  ASSUME NEW c, NEW b, NEW o
  PROVE  o \in IPv6Applied(c, b) <=>
           \/ /\ o \in b
              /\ ~IPv6Enabled(c) => o # "addr6" /\ o \notin Over6
              /\ o = "ndppd" => ~IPv6Enabled(c) \/ c.dhcp6 \/ c.passthrough
           \/ SixBy(c, pd, o)
BY DEF IPv6Applied, IPv6Enabled, SixBy, Over6

\* applyIpSettings().
LEMMA IPHas ==
  ASSUME NEW c, c.enabled, NEW b, NEW o
  PROVE  o \in IPApplied(c, b) <=>
           \/ /\ o \in b
              /\ kind # "pppoe" =>
                   /\ c.dhcp => o # "bound"
                   /\ ~IPv6Enabled(c) => o # "addr6" /\ o \notin Over6
                   /\ o = "ndppd" => ~IPv6Enabled(c) \/ c.dhcp6 \/ c.passthrough
           \/ AddressedBy(kind, c, pd, o)
<1>1. CASE kind = "pppoe"
  BY <1>1 DEF IPApplied, AddressedBy
<1>2. CASE kind # "pppoe"
  <2> DEFINE four == IF c.dhcp THEN Restarted(b \cup {"dhclientconf"})
                     ELSE IF c.ipv4 THEN b \cup {"addr4"} ELSE b
  <2>1. o \in four <=> (o \in b /\ ~(c.dhcp /\ o = "bound")) \/ FourBy(c, o)
    BY DEF Restarted, FourBy
  <2>2. IPApplied(c, b) = IPv6Applied(c, four)
    BY <1>2 DEF IPApplied
  <2>3. FourBy(c, o) => o # "addr6" /\ o \notin Over6 /\ o # "ndppd"
    BY DEF FourBy, Over6
  <2> HIDE DEF four
  <2> QED BY <1>2, <2>1, <2>2, <2>3, SixHas DEF AddressedBy
<1> QED BY <1>1, <1>2

\* applyDnsSettings().
LEMMA DnsHas ==
  ASSUME NEW c, NEW b, NEW o
  PROVE  o \in DnsApplied(c, b) <=> o \in b \/ (o = "resolv" /\ Named(kind, c))
BY DEF DnsApplied, Named

\* changeRoutingTables().
LEMMA RoutedHas ==
  ASSUME NEW c, c # None, NEW b, NEW o
  PROVE  o \in Routed(c, b) <=>
           o \in b \/ RouteOf(kind, c, c.ipv6 \/ (c.delegate /\ "pdcache" \in b), o)
<1> DEFINE v == c.ipv6 \/ (c.delegate /\ "pdcache" \in b)
<1>1. o \in (IF WireGuard THEN TunnelRouted(c, b) ELSE b) <=>
        \/ o \in b
        \/ o = "rule5999" /\ Wg(kind)
        \/ o = "peer4" /\ Wg(kind) /\ c.peers = "far"
        \/ o = "automaton" /\ Wg(kind) /\ c.autonomous
        \/ o = "default4" /\ Wg(kind) /\ c.peers = "default"
  BY DEF TunnelRouted, WireGuard, Wg
<1> QED BY <1>1, Roles DEF Routed, RouteOf, Gate

\* updateRouteForDNS().
LEMMA DnsRoutedHas ==
  ASSUME NEW b, NEW o
  PROVE  o \in DnsRouted(b) <=>
           \/ o \in b /\ o # "dns4"
           \/ o = "dns4" /\ "default4" \in b /\ "resolv" \in b
BY DEF DnsRouted

\* markOutputConnection().
LEMMA MarkedHas ==
  ASSUME NEW b, NEW o
  PROVE  o \in Marked(b) <=> o \in b \/ (o = "outmark" /\ "addr4" \in b)
BY DEF Marked

\* The end of apply().
LEMMA WanHas ==
  ASSUME NEW c, c # None, NEW b, NEW o
  PROVE  o \in WanApplied(c, b) <=>
           IF WanOf(kind, c)
           THEN \/ o \in b /\ o # "dns4"
                \/ o = "dns4" /\ "default4" \in b /\ "resolv" \in b
                \/ o = "outmark" /\ "addr4" \in b
           ELSE o \in b
BY Roles, DnsRoutedHas, MarkedHas DEF WanApplied

\* flushIP().
LEMMA EmptiedHas ==
  ASSUME NEW c, NEW b, NEW o
  PROVE  /\ o \in WithoutIPv4(c, b) <=> o \in b /\ ~Emptied4(c, o)
         /\ o \in WithoutIPv6(c, b) <=> o \in b /\ ~Emptied6(c, o)
         /\ o \in WithoutIP(c, b) <=> o \in b /\ ~Emptied(kind, c, o)
<1>1. o \in WithoutIPv4(c, b) <=> o \in b /\ ~Emptied4(c, o)
  BY DEF WithoutIPv4, Emptied4
<1>2. \A d : o \in WithoutIPv6(c, d) <=> o \in d /\ ~Emptied6(c, o)
  BY DEF WithoutIPv6, Emptied6
<1> QED BY <1>1, <1>2 DEF WithoutIP, Emptied

\* The rest of flush().
LEMMA FlushedHas ==
  ASSUME NEW c, c # None, NEW b, NEW o, o \in Flushed(c, b)
  PROVE  /\ o \in b /\ o # "resolv"
         /\ WanOf(kind, c) \/ LanOf(kind, c) =>
              o \notin InTables \cup {"rule501", "lo501", "lo501marked", "rule8001", "rule10001",
                                    "rule5002"}
         /\ LanOf(kind, c) => o \notin LanRules
         /\ WanOf(kind, c) => o \notin WanRules \cup {"rule5001", "outmark"}
         /\ c.passthrough => o # "ndppd"
         /\ c.dhcp6 => o # "dhcpcd6conf"
         /\ c.dhcp => o # "dhclientconf"
<1>1. o \in WithoutRole(c, b) =>
         /\ o \in b
         /\ WanOf(kind, c) \/ LanOf(kind, c) =>
              o \notin InTables \cup {"rule501", "lo501", "lo501marked", "rule8001", "rule10001"}
         /\ LanOf(kind, c) => o \notin LanRules
         /\ WanOf(kind, c) => o \notin WanRules \cup {"rule5001", "outmark"}
  BY Roles DEF WithoutRole
<1> QED BY <1>1, Roles DEF Flushed

-----------------------------------------------------------------------------
(* What a clean box gets, and what comes to the same                       *)

\* What apply() makes of a box that has nothing is what its stages make.
LEMMA CleanHas ==
  ASSUME NEW c, c # None, NEW o
  PROVE  o \in Clean(c) <=> Made(kind, c, pd, o)
<1> DEFINE b1 == Created(c, {})
           b2 == Prepared(c, b1)
           b3 == Tuned(c, UpDown(c, b2))
           b4 == IPApplied(c, b3)
           b5 == DnsApplied(c, b4)
           b6 == Routed(c, b5)
<1>1. \A x : x \in b1 <=> CreatedBy(kind, c, x)
  BY CreatedHas
<1>2. \A x : x \in b2 <=> CreatedBy(kind, c, x) \/ PreparedBy(kind, c, x)
  <2>1. \A x : CreatedBy(kind, c, x) => x \notin InTables
    BY DEF CreatedBy, InTables
  <2> HIDE DEF b1
  <2> QED BY <1>1, <2>1, PreparedHas
<1>3. CASE ~c.enabled
  <2>1. Clean(c) = UpDown(c, b2)
    BY <1>3 DEF Clean
  <2>2. \A x : PreparedBy(kind, c, x) <=> FALSE
    BY <1>3 DEF PreparedBy
  <2>3. CreatedBy(kind, c, o) => o \notin {"up", "pppd", "bound", "addr4", "addr6"} \cup Over4 \cup Over6
    BY DEF CreatedBy, Over4, Over6
  <2>4. Made(kind, c, pd, o) <=> CreatedBy(kind, c, o)
    BY <1>3 DEF Made, Done, PreparedBy, RaisedBy, AddressedBy, NamedBy, RoutedBy, MarkedBy
  <2> HIDE DEF b2
  <2> QED BY <1>2, <1>3, <2>1, <2>2, <2>3, <2>4, LoweredHas
<1>4. CASE c.enabled
  <2>1. \A x : x \in b3 <=> \/ CreatedBy(kind, c, x) \/ PreparedBy(kind, c, x)
                            \/ RaisedBy(kind, c, x)
    <3>1. \A x : CreatedBy(kind, c, x) \/ PreparedBy(kind, c, x) => x \notin {"tuned", "bound"}
      BY DEF CreatedBy, PreparedBy, WanRules, LanRules
    <3> HIDE DEF b2
    <3> QED BY <1>2, <1>4, <3>1, RaisedHas
  <2>2. \A x : x \in b4 <=> \/ CreatedBy(kind, c, x) \/ PreparedBy(kind, c, x)
                            \/ RaisedBy(kind, c, x) \/ AddressedBy(kind, c, pd, x)
    <3>1. \A x : CreatedBy(kind, c, x) \/ PreparedBy(kind, c, x) \/ RaisedBy(kind, c, x)
                   => x \notin {"bound", "addr6", "ndppd"} \cup Over6
      BY DEF CreatedBy, PreparedBy, RaisedBy, WanRules, LanRules, Over6
    <3> HIDE DEF b3
    <3> QED BY <1>4, <2>1, <3>1, IPHas
  <2>3. \A x : x \in b5 <=> x \in b4 \/ NamedBy(kind, c, x)
    <3> HIDE DEF b4
    <3> QED BY <1>4, DnsHas DEF NamedBy
  <2>4. \A x : x \in b6 <=> x \in b5 \/ RoutedBy(kind, c, pd, x)
    <3>1. (c.ipv6 \/ (c.delegate /\ "pdcache" \in b5)) <=> V6(kind, c, pd)
      <4>1. "pdcache" \in b5 <=> kind # "pppoe" /\ ~c.dhcp6 /\ c.delegate /\ pd
        <5> HIDE DEF b4, b5
        <5> QED BY <1>4, <2>2, <2>3
              DEF CreatedBy, PreparedBy, RaisedBy, AddressedBy, FourBy, SixBy, NamedBy,
                  WanRules, LanRules
      <4> HIDE DEF b5
      <4> QED BY <4>1 DEF V6
    <3> HIDE DEF b5
    <3> QED BY <1>4, <3>1, RoutedHas DEF RoutedBy, RouteOf
  <2>5. Clean(c) = WanApplied(c, b6)
    BY <1>4 DEF Clean
  <2>6. "default4" \in b6 <=> Gate(kind, c)
    <3> HIDE DEF b4, b5, b6
    <3> QED BY <1>4, <2>2, <2>3, <2>4
          DEF CreatedBy, PreparedBy, RaisedBy, AddressedBy, FourBy, SixBy, NamedBy, RoutedBy,
              RouteOf, WanRules, LanRules
  <2>7. "resolv" \in b6 <=> Named(kind, c)
    <3> HIDE DEF b4, b5, b6
    <3> QED BY <1>4, <2>2, <2>3, <2>4
          DEF CreatedBy, PreparedBy, RaisedBy, AddressedBy, FourBy, SixBy, NamedBy, RoutedBy,
              RouteOf, WanRules, LanRules
  <2>8. "addr4" \in b6 <=> Static4(kind, c)
    <3> HIDE DEF b4, b5, b6
    <3> QED BY <1>4, <2>2, <2>3, <2>4
          DEF CreatedBy, PreparedBy, RaisedBy, AddressedBy, FourBy, SixBy, NamedBy, RoutedBy,
              RouteOf, WanRules, LanRules, Static4
  <2>9. o \in b6 => o # "dns4"
    <3> HIDE DEF b4, b5, b6
    <3> QED BY <1>4, <2>2, <2>3, <2>4
          DEF CreatedBy, PreparedBy, RaisedBy, AddressedBy, FourBy, SixBy, NamedBy, RoutedBy,
              RouteOf, WanRules, LanRules
  <2>10. o \in Clean(c) <=> o \in b6 \/ MarkedBy(kind, c, o)
    <3> HIDE DEF b6
    <3> QED BY <1>4, <2>5, <2>6, <2>7, <2>8, <2>9, WanHas DEF MarkedBy
  <2> HIDE DEF b4, b5, b6
  <2> QED BY <2>2, <2>3, <2>4, <2>10 DEF Made, Done
<1> QED BY <1>3, <1>4

\* More is made with a prefix than without.
LEMMA DoneGrows ==
  ASSUME NEW st, NEW k, NEW c, NEW p, NEW q, p => q, NEW o, Done(st, k, c, p, o)
  PROVE  Done(st, k, c, q, o)
BY DEF Done, AddressedBy, SixBy, RoutedBy, RouteOf, V6

\* A prefix is nothing to who does not follow the parent interface.
LEMMA DoneAnyway ==
  ASSUME NEW st, NEW k, NEW c, ~c.delegate \/ ~c.enabled, NEW p, NEW q, NEW o
  PROVE  Done(st, k, c, p, o) <=> Done(st, k, c, q, o)
BY DEF Done, AddressedBy, SixBy, RoutedBy, RouteOf, V6

-----------------------------------------------------------------------------
(* From one configuration to the next                                      *)

Kept(k, c, p, o) == Made(k, c, p, o) \/ Spare(k, c, o)

\* what is there before interfaceUpDown() has put it right
Rough(k, c, p, o) ==
  \/ Kept(k, c, p, o)
  \/ o = "tuned" /\ c.enabled
  \/ o = "up" /\ ~c.enabled

\* After a soft change flushIP() of the old configuration leaves only what the
\* new one has as well, if the two agree.
LEMMA SoftKeeps ==
  ASSUME NEW s, Agrees(s), NEW b \in Given(s), NEW c \in Given(s),
         Same(b, c, Keys \ Soft), NEW p, NEW o,
         Kept(s.kind, b, TRUE, o) \/ o \in {"up", "tuned"}, ~Emptied(s.kind, b, o)
  PROVE  Rough(s.kind, c, p, o)
<1>1. /\ b.enabled = c.enabled /\ b.tuned = c.tuned /\ b.passthrough = c.passthrough
      /\ b.isolated = c.isolated /\ b.noSelfRoute = c.noSelfRoute /\ b.peers = c.peers
      /\ b.listens = c.listens /\ b.autonomous = c.autonomous
  BY DEF Same, Keys, Soft
<1>2. CASE ~b.enabled
  BY <1>1, <1>2 DEF Kept, Rough, Made, Done, CreatedBy, PreparedBy, RaisedBy, AddressedBy,
    NamedBy, RoutedBy, MarkedBy, Spare, Leasing
<1>3. CASE b.enabled
  <2>1. RolesKept(s.kind, b, c)
    BY <1>1, <1>3 DEF Agrees
  <2>2. CreatedBy(s.kind, b, o) => CreatedBy(s.kind, c, o)
    BY <1>1 DEF CreatedBy
  <2>3. PreparedBy(s.kind, b, o) => PreparedBy(s.kind, c, o)
    BY <1>1, <2>1 DEF PreparedBy, RolesKept
  <2>4. RaisedBy(s.kind, b, o) => RaisedBy(s.kind, c, o)
    BY <1>1 DEF RaisedBy
  <2>5. AddressedBy(s.kind, b, TRUE, o) => AddressedBy(s.kind, c, p, o)
    BY <1>1, <1>3, <2>1 DEF AddressedBy, FourBy, SixBy, Emptied, Emptied4, Emptied6, RolesKept, Over6
  <2>6. NamedBy(s.kind, b, o) => NamedBy(s.kind, c, o)
    BY <1>1, <2>1 DEF NamedBy, RolesKept
  <2>7. RoutedBy(s.kind, b, TRUE, o) => RoutedBy(s.kind, c, p, o)
    BY <1>1, <2>1 DEF RoutedBy, RouteOf, Emptied, Emptied4, Emptied6, RolesKept, Over4, Over6
  <2>8. MarkedBy(s.kind, b, o) => MarkedBy(s.kind, c, o)
    BY <1>1, <2>1 DEF MarkedBy, Static4, Emptied, Emptied4, RolesKept, Over4
  <2>9. Spare(s.kind, b, o) => Spare(s.kind, c, o)
    BY <1>1, <1>3, <2>1 DEF Spare, Leasing, RolesKept
  <2>10. o \in {"up", "tuned"} => Rough(s.kind, c, p, o)
    BY <1>1, <1>3 DEF Rough, Kept, Made, Done, RaisedBy
  <2> QED BY <2>2, <2>3, <2>4, <2>5, <2>6, <2>7, <2>8, <2>9, <2>10 DEF Rough, Kept, Made, Done
<1> QED BY <1>2, <1>3

\* A change that needs no flush at all leaves what the new configuration has.
LEMMA StayKeeps ==
  ASSUME NEW s, Agrees(s), NEW b \in Given(s), NEW c \in Given(s),
         \/ s.kind = "bridge" /\ Same(b, c, Keys \ {"stp"})
         \/ s.kind = "wg_ap" /\ Same(b, c, Keys \ {"peers"}),
         NEW o, Kept(s.kind, b, TRUE, o)
  PROVE  Kept(s.kind, c, TRUE, o)
<1>1. /\ b.enabled = c.enabled /\ b.type = c.type /\ b.tuned = c.tuned
      /\ b.ipv4 = c.ipv4 /\ b.gateway = c.gateway /\ b.nameservers = c.nameservers
      /\ b.dhcp = c.dhcp /\ b.dhcp6 = c.dhcp6 /\ b.ipv6 = c.ipv6 /\ b.delegate = c.delegate
      /\ b.passthrough = c.passthrough /\ b.isolated = c.isolated
      /\ b.noSelfRoute = c.noSelfRoute /\ b.listens = c.listens /\ b.autonomous = c.autonomous
  BY DEF Same, Keys
<1>2. Wg(s.kind) => /\ b.peers = "far" <=> c.peers = "far"
                    /\ b.peers = "default" <=> c.peers = "default"
  BY DEF Agrees, PeersAgree, Wg
<1>3. (WanOf(s.kind, b) <=> WanOf(s.kind, c)) /\ (LanOf(s.kind, b) <=> LanOf(s.kind, c))
      /\ (Named(s.kind, b) <=> Named(s.kind, c)) /\ (Gate(s.kind, b) <=> Gate(s.kind, c))
      /\ (V6(s.kind, b, TRUE) <=> V6(s.kind, c, TRUE)) /\ (Static4(s.kind, b) <=> Static4(s.kind, c))
  BY <1>1, <1>2 DEF WanOf, LanOf, Named, Gate, V6, Static4
<1>4. CreatedBy(s.kind, b, o) => CreatedBy(s.kind, c, o)
  BY <1>1 DEF CreatedBy
<1>5. PreparedBy(s.kind, b, o) => PreparedBy(s.kind, c, o)
  BY <1>1, <1>3 DEF PreparedBy
<1>6. RaisedBy(s.kind, b, o) => RaisedBy(s.kind, c, o)
  BY <1>1 DEF RaisedBy
<1>7. AddressedBy(s.kind, b, TRUE, o) => AddressedBy(s.kind, c, TRUE, o)
  BY <1>1 DEF AddressedBy, FourBy, SixBy
<1>8. NamedBy(s.kind, b, o) => NamedBy(s.kind, c, o)
  BY <1>1, <1>3 DEF NamedBy
<1>9. RoutedBy(s.kind, b, TRUE, o) => RoutedBy(s.kind, c, TRUE, o)
  BY <1>1, <1>2, <1>3 DEF RoutedBy, RouteOf
<1>10. MarkedBy(s.kind, b, o) => MarkedBy(s.kind, c, o)
  BY <1>1, <1>3 DEF MarkedBy
<1>11. Spare(s.kind, b, o) => Spare(s.kind, c, o)
  BY <1>1, <1>3 DEF Spare, Leasing
<1> QED BY <1>4, <1>5, <1>6, <1>7, <1>8, <1>9, <1>10, <1>11 DEF Kept, Made, Done

\* the cable of an uplink may have asked for a lease meanwhile
Asked(s, c, o) ==
  Pluggable(s) /\ ((c.dhcp /\ o \in Leased \cup {"dhclient"}) \/ (c.dhcp6 /\ o = "dhcpcd6"))

\* what is left of an interface that was torn down
Ruins(s, c, o) ==
  \/ o \in Scraps
  \/ s.kind = "pppoe" /\ o \in {"pppconf", "dhcpcd6", "dhcpcd6conf", "local6", "default6", "resolv"}
  \/ Asked(s, c, o)

\* flushIP() and the rest of flush() of an enabled interface leave ruins.
LEMMA FlushedLeaves ==
  ASSUME NEW c, c # None, c.enabled, NEW b, NEW o, o \in Flushed(c, b),
         Deleted(c) /\ Wg(kind) => o \notin Tunnel,
         Kept(kind, c, TRUE, o),
         ~Emptied(kind, c, o) \/ Asked(setup, c, o)
  PROVE  Ruins(setup, c, o)
<1> SUFFICES ASSUME ~Emptied(kind, c, o), o \notin Scraps, kind # "pppoe" PROVE FALSE
  <2>1. CASE kind # "pppoe" BY <2>1 DEF Ruins
  <2>2. CASE kind = "pppoe" /\ ~Emptied(kind, c, o)
    <3>1. /\ o \in b /\ o # "resolv"
          /\ o \notin InTables \cup {"rule501", "lo501", "lo501marked", "rule8001", "rule10001",
                                    "rule5002"}
          /\ o \notin WanRules \cup {"rule5001", "outmark"}
      BY <2>2, FlushedHas DEF WanOf
    <3>2. ~LanOf(kind, c) /\ WanOf(kind, c) /\ ~Wg(kind) /\ Leasing(kind, c)
      BY <2>2 DEF LanOf, WanOf, Wg, Leasing
    <3>3. o \in Scraps \/ o \in {"pppconf", "dhcpcd6", "dhcpcd6conf", "local6", "default6", "resolv"}
      BY <2>2, <3>1, <3>2 DEF Kept, Made, Done, CreatedBy, PreparedBy, RaisedBy, AddressedBy,
        NamedBy, RoutedBy, RouteOf, MarkedBy, Spare, Scraps, Leased, Emptied, Over4, Over6,
        InTables, WanRules
    <3> QED BY <2>2, <3>3 DEF Ruins, kind
  <2> QED BY <2>1, <2>2 DEF Ruins
<1>1. ~CreatedBy(kind, c, o)
  BY DEF CreatedBy, Deleted, Wg, Tunnel
<1>2. ~PreparedBy(kind, c, o)
  BY FlushedHas DEF PreparedBy, Scraps
<1>3. ~RaisedBy(kind, c, o)
  BY DEF RaisedBy, Scraps
<1>4. ~AddressedBy(kind, c, TRUE, o)
  BY FlushedHas DEF AddressedBy, FourBy, SixBy, Emptied, Emptied4, Emptied6, Over6
<1>5. ~NamedBy(kind, c, o)
  BY FlushedHas DEF NamedBy
<1>6. ~RoutedBy(kind, c, TRUE, o)
  BY FlushedHas DEF RoutedBy, RouteOf, Emptied, Emptied4, Emptied6, Over4, Over6, InTables,
    Deleted, Wg, Tunnel
<1>7. ~MarkedBy(kind, c, o)
  BY FlushedHas DEF MarkedBy, Emptied, Emptied4, Over4
<1>8. ~Spare(kind, c, o)
  BY FlushedHas DEF Spare, Leasing, Leased, Emptied, Emptied4, Over4, WanOf, Scraps
<1> QED BY <1>1, <1>2, <1>3, <1>4, <1>5, <1>6, <1>7, <1>8 DEF Kept, Made, Done

\* The ruins are built on, or are scraps if the interface is removed.
LEMMA RuinsKept ==
  ASSUME NEW s, Agrees(s), NEW b \in Given(s), NEW o, Ruins(s, b, o)
  PROVE  /\ \A c \in Given(s) : \A p : Rough(s.kind, c, p, o)
         /\ None \in s.configs => o \in Scraps
<1>1. None \in s.configs => o \in Scraps
  BY DEF Agrees, LeasesAgree, CablesAgree, Ruins, Asked, Pluggable
<1>2. ASSUME NEW c \in Given(s), NEW p PROVE Rough(s.kind, c, p, o)
  <2>1. CASE o \in Scraps
    BY <2>1 DEF Scraps, Rough, Kept, Made, Done, Spare, RaisedBy, PreparedBy
  <2>2. CASE s.kind = "pppoe" /\ o \in {"pppconf", "dhcpcd6", "dhcpcd6conf", "local6", "default6",
                                        "resolv"}
    BY <2>2 DEF Rough, Kept, Made, Done, Spare, CreatedBy, NamedBy, Named
  <2>3. CASE Asked(s, b, o)
    <3>1. c.enabled /\ c.dhcp /\ (b.dhcp6 => c.dhcp6)
      BY <2>3 DEF Asked, Agrees, CablesAgree, LeasesAgree, Pluggable
    <3>2. o \in {"dhclient", "dhcpcd6"} => AddressedBy(s.kind, c, p, o)
      BY <2>3, <3>1 DEF Asked, AddressedBy, FourBy, SixBy, Pluggable, Leased
    <3>3. o \in Leased \cup {"dhclient", "dhcpcd6"}
      BY <2>3 DEF Asked
    <3> QED BY <3>1, <3>2, <3>3 DEF Rough, Kept, Made, Done, Spare, Leasing
  <2> QED BY <2>1, <2>2, <2>3 DEF Ruins
<1> QED BY <1>1, <1>2

-----------------------------------------------------------------------------
(* Interface: the inductive invariant                                      *)

Leaving == {"fast", "keep", "flush", "teardown"}
Before == {"create", "env", "updown", "ip"}
After == {"dns", "routes", "wan", "idle"}

\* an event of this sort waits
Has(w, x) == \E i \in DOMAIN w : w[i].what = x

\* the delegated prefix may be in the box, or must be
Hi == \/ stage \in Before /\ "pd" \notin setup.events
      \/ stage \in After /\ (pd \/ Has(waiting, "pd"))
Lo == pd /\ ~Has(waiting, "pd")

\* what may be in the box at a stage
Allowed(st, s, c, h, o) ==
  /\ st = "idle" /\ c = None => o \in Scraps
  /\ st \in {"idle", "ip", "dns", "routes", "wan"} /\ c # None => Kept(s.kind, c, h, o)
  /\ st \in {"create", "env", "updown"} => Rough(s.kind, c, h, o)
  /\ st \in Leaving => Kept(s.kind, c, TRUE, o) \/ (st \in {"fast", "keep"} /\ o \in {"up", "tuned"})
  /\ st = "teardown" /\ c.enabled =>
       ~Emptied(s.kind, c, o) \/ Asked(s, c, o)

Upper == \A o \in box : Allowed(stage, setup, conf, Hi, o)

\* what may be missing: the handler of EVENT_IF_UP starts the clients again, and
\* takes the link-local routes away
Excused(o) ==
  \/ Spare(setup.kind, conf, o)
  \/ plugged = "renew" /\ o = "dhclient"
  \/ plugged6 = "renew" /\ o = "dhcpcd6"
  \/ bare /\ o \in {"local6", "default6"}

\* what must be in the box
Lower ==
  conf # None /\ stage \notin Leaving =>
    \A o : Done(stage, setup.kind, conf, Lo, o) => Excused(o) \/ o \in box

\* what is being done to which configuration
Plans ==
  /\ setup \in Setups /\ Agrees(setup)
  /\ conf \in Given(setup) \cup {None}
  /\ stage \in {"idle"} \cup Leaving \cup Before \cup After
  /\ stage # "idle" => conf # None /\ next \in setup.configs
  /\ stage \notin {"idle", "flush", "teardown"} => next # None
  /\ stage \notin {"idle"} \cup Leaving => next = conf
  /\ stage \in {"ip", "dns", "routes", "wan"} => conf.enabled
  /\ stage = "fast" => Same(conf, next, Keys \ Soft)
  /\ stage = "keep" => \/ setup.kind = "bridge" /\ Same(conf, next, Keys \ {"stp"})
                       \/ setup.kind = "wg_ap" /\ Same(conf, next, Keys \ {"peers"})

\* which events wait
Waits ==
  /\ waiting \in Seq([what : {"ip", "pd"}, of : Given(setup)])
  /\ waiting # <<>> => conf # None
  /\ marking \/ Has(waiting, "ip") =>
       setup.kind = "pppoe" \/ \E c \in Given(setup) : c.dhcp
  /\ Has(waiting, "pd") => "pd" \in setup.events
  /\ "pd" \notin setup.events => pd
  /\ plugged # "idle" \/ plugged6 # "idle" => Pluggable(setup) /\ conf # None
  /\ plugged6 # "idle" \/ bare => Pluggable(setup) /\ \E c \in Given(setup) : c.dhcp6

\* the parameters the link of a configuration is made with
LinkOf(k, c) ==
  IF k \in {"phy", "pppoe"} THEN None
  ELSE IF Wg(k) THEN <<c.link, c.peers>> ELSE c.link

Links ==
  /\ stage = "idle" => link = IF conf = None THEN None ELSE LinkOf(setup.kind, conf)
  /\ stage \in {"fast", "keep"} =>
       link = LinkOf(setup.kind, conf) \/ (link = None /\ next = conf)
  /\ stage = "create" /\ setup.kind \in {"vlan", "bond", "tun", "docker"} =>
       link \in {None, LinkOf(setup.kind, conf)}
  /\ stage \notin {"idle", "fast", "keep", "create"} => link = LinkOf(setup.kind, conf)

IInv == Plans /\ Waits /\ Links /\ Upper /\ Lower

\* An event that is queued, and one that is taken from the queue.
LEMMA Queued ==
  ASSUME NEW T, NEW w \in Seq(T), NEW x
  PROVE  /\ \A e \in T : /\ Append(w, e) \in Seq(T) /\ Append(w, e) # <<>>
                         /\ Has(Append(w, e), x) <=> Has(w, x) \/ e.what = x
         /\ w # <<>> => /\ Tail(w) \in Seq(T) /\ Head(w) \in T
                        /\ Has(w, x) <=> Head(w).what = x \/ Has(Tail(w), x)
<1>1. ASSUME NEW e \in T
      PROVE  /\ Append(w, e) \in Seq(T) /\ Append(w, e) # <<>>
             /\ Has(Append(w, e), x) <=> Has(w, x) \/ e.what = x
  <2>1. /\ Append(w, e) \in Seq(T) /\ Append(w, e) # <<>>
        /\ Len(w) \in Nat /\ DOMAIN w = 1 .. Len(w)
        /\ Len(Append(w, e)) = Len(w) + 1
        /\ DOMAIN Append(w, e) = 1 .. Len(w) + 1
    OBVIOUS
  <2>2. \A i \in 1 .. Len(w) : Append(w, e)[i] = w[i]
    OBVIOUS
  <2>3. Append(w, e)[Len(w) + 1] = e
    OBVIOUS
  <2> QED BY <2>1, <2>2, <2>3 DEF Has
<1>2. ASSUME w # <<>>
      PROVE  /\ Tail(w) \in Seq(T) /\ Head(w) \in T
             /\ Has(w, x) <=> Head(w).what = x \/ Has(Tail(w), x)
  <2>1. /\ Tail(w) \in Seq(T) /\ Head(w) \in T /\ Head(w) = w[1]
        /\ Len(w) \in Nat \ {0} /\ DOMAIN w = 1 .. Len(w)
        /\ DOMAIN Tail(w) = 1 .. Len(w) - 1
    BY <1>2
  <2>2. \A i \in 1 .. Len(w) - 1 : Tail(w)[i] = w[i + 1]
    BY <1>2
  <2>3. \A i \in 1 .. Len(w) : i = 1 \/ (i - 1 \in 1 .. Len(w) - 1 /\ Tail(w)[i - 1] = w[i])
    BY <2>1, <2>2
  <2>4. \A i \in 1 .. Len(w) - 1 : i + 1 \in 1 .. Len(w)
    BY <2>1
  <2>5. 1 \in 1 .. Len(w)
    BY <2>1
  <2> QED BY <2>1, <2>2, <2>3, <2>4, <2>5 DEF Has
<1> QED BY <1>1, <1>2

\* Only an enabled interface with a dynamic address has a client.
LEMMA ClientFrom ==
  ASSUME Plans, Upper, Client \in box
  PROVE  /\ conf # None /\ Leasing(setup.kind, conf)
         /\ stage = "teardown" => Pluggable(setup)
<1>1. Client \in {"dhclient", "pppd"} /\ (Client = "pppd" <=> setup.kind = "pppoe")
  BY DEF Client, kind
<1>2. Allowed(stage, setup, conf, Hi, Client)
  BY DEF Upper
<1>3. \A h : Rough(setup.kind, conf, h, Client) => Leasing(setup.kind, conf)
  BY <1>1 DEF Rough, Kept, Made, Done, CreatedBy, PreparedBy, RaisedBy, AddressedBy, FourBy,
    SixBy, NamedBy, RoutedBy, RouteOf, MarkedBy, Spare, WanRules, LanRules, Leased, Leasing
<1>4. Client \notin Scraps \cup {"up", "tuned"}
  BY <1>1 DEF Scraps
<1>5. conf # None
  BY <1>2, <1>4 DEF Plans, Allowed
<1>6. \A h : Kept(setup.kind, conf, h, Client) => Leasing(setup.kind, conf)
  BY <1>3 DEF Rough
<1>7. Leasing(setup.kind, conf)
  BY <1>2, <1>3, <1>4, <1>5, <1>6 DEF Plans, Allowed, Leaving, Before, After
<1>8. stage = "teardown" => Pluggable(setup)
  BY <1>1, <1>2, <1>7 DEF Allowed, Emptied, Emptied4, Leasing, Asked
<1> QED BY <1>5, <1>7, <1>8

-----------------------------------------------------------------------------
(* The stages, the events and the link                                     *)

\* Every kind that is not in Treatment's special cases is flushed or emptied.
LEMMA Treated ==
  ASSUME Plans, NEW c \in setup.configs, conf # None \/ c # None,
         NEW b, b = IF conf = None THEN c ELSE conf
  PROVE  /\ b \in Given(setup) /\ b # None
         /\ Treatment(c) \in {"fast", "keep", "flush"}
         /\ Treatment(c) # "flush" => c # None
         /\ conf = None => Treatment(c) # "flush"
         /\ Treatment(c) = "fast" => Same(b, c, Keys \ Soft)
         /\ Treatment(c) = "keep" => \/ setup.kind = "bridge" /\ Same(b, c, Keys \ {"stp"})
                                     \/ setup.kind = "wg_ap" /\ Same(b, c, Keys \ {"peers"})
<1>1. b \in Given(setup) /\ b # None
  BY DEF Plans, Given
<1>2. CASE c = None
  BY <1>1, <1>2 DEF Treatment
<1>3. CASE c # None /\ conf = None
  <2>1. Treatment(c) = IF kind = "bridge" THEN "keep" ELSE "fast"
    BY <1>3 DEF Treatment
  <2> QED BY <1>1, <1>3, <2>1 DEF Same, kind
<1>4. CASE c # None /\ conf # None
  <2>1. Treatment(c) = IF ~FlushNeeded(conf, c) THEN "keep"
                       ELSE IF Full(conf, c) THEN "flush" ELSE "fast"
    BY <1>4 DEF Treatment
  <2>2. DOMAIN conf = Keys
    BY <1>4 DEF Plans, Agrees, Given
  <2>3. ~Full(conf, c) => Same(conf, c, Keys \ Soft)
    BY <2>2 DEF Full, Same
  <2>4. ~FlushNeeded(conf, c) => \/ setup.kind = "bridge" /\ Same(conf, c, Keys \ {"stp"})
                                 \/ setup.kind = "wg_ap" /\ Same(conf, c, Keys \ {"peers"})
    BY <2>2 DEF FlushNeeded, NoFlush, Same, kind
  <2> QED BY <1>1, <1>4, <2>1, <2>3, <2>4
<1> QED BY <1>2, <1>3, <1>4

\* The loader goes through its stages.
LEMMA NextPlans == IInv /\ [Next]_vars => Plans'
<1> SUFFICES ASSUME Plans, Waits, [Next]_vars PROVE Plans'
  BY DEF IInv
<1> USE DEF Leaving, Before, After
<1>1. ASSUME NEW c \in setup.configs, Reapply(c) PROVE Plans'
  <2>1. conf' = (IF conf = None THEN c ELSE conf) /\ next' = c /\ setup' = setup
        /\ stage' = Treatment(c) /\ (conf # None \/ c # None)
    BY <1>1 DEF Reapply
  <2> QED BY <2>1, Treated DEF Plans, Given
<1>2. ASSUME FlushFast PROVE Plans'
  BY <1>2 DEF FlushFast, Plans, plan, Given
<1>3. ASSUME FlushIP PROVE Plans'
  BY <1>3 DEF FlushIP, Plans, plan
<1>4. ASSUME TearDown PROVE Plans'
  BY <1>4 DEF TearDown, Plans, plan, Given
<1>5. ASSUME Create \/ Prepare \/ Raise PROVE Plans'
  BY <1>5 DEF Create, Prepare, Raise, Become, Plans, plan
<1>6. ASSUME ApplyIP \/ ApplyDns \/ Route \/ ApplyWan PROVE Plans'
  BY <1>6 DEF ApplyIP, ApplyDns, Route, ApplyWan, Become, Plans, plan
<1>7. ASSUME Handlers \/ MarkOutputConnection PROVE Plans'
  BY <1>7 DEF Handlers, IpChanged, PdChanged, Handler, MarkOutputConnection, Plans, plan
<1>8. ASSUME \/ PlugIn \/ PluggedFlush \/ PluggedRenew \/ PluggedFlush6 \/ PluggedRenew6
             \/ Lease \/ PppoeIpv6Up \/ PdChange
      PROVE  Plans'
  BY <1>8 DEF PlugIn, PluggedFlush, PluggedRenew, PluggedFlush6, PluggedRenew6, Lease, PppoeIpv6Up, PdChange, Plans, plan
<1>9. CASE UNCHANGED vars
  BY <1>9 DEF vars, cable, Plans
<1> QED BY <1>1, <1>2, <1>3, <1>4, <1>5, <1>6, <1>7, <1>8, <1>9 DEF Next, Loader

\* What waits can still be handled.
LEMMA NextWaits == IInv /\ [Next]_vars => Waits'
<1> USE DEF cable
<1> SUFFICES ASSUME Plans, Waits, Upper, [Next]_vars PROVE Waits'
  BY DEF IInv
<1> DEFINE T == [what : {"ip", "pd"}, of : Given(setup)]
<1>1. ASSUME UNCHANGED <<setup, waiting, plugged, plugged6, marking, pd>>, bare' => bare,
             conf' # None
      PROVE  Waits'
  BY <1>1 DEF Waits, Has
<1>2. ASSUME NEW c \in setup.configs, Reapply(c) PROVE Waits'
  <2>1. conf' # None
    BY <1>2, Treated DEF Reapply
  <2> QED BY <1>1, <1>2, <2>1 DEF Reapply, jobs
<1>3. ASSUME FlushFast \/ FlushIP PROVE Waits'
  BY <1>1, <1>3 DEF FlushFast, FlushIP, plan, jobs, Plans
<1>4. ASSUME TearDown PROVE Waits'
  <2>1. CASE next # None
    BY <1>1, <1>4, <2>1 DEF TearDown, plan, jobs
  <2>2. CASE next = None
    <3>1. None \in setup.configs
      BY <1>4, <2>2 DEF TearDown, Plans
    <3>2. ~Has(waiting, "ip") /\ ~Has(waiting, "pd")
      BY <3>1 DEF Waits, Plans, Agrees, LeasesAgree, PrefixesAgree
    <3>3. waiting = <<>>
      <4> SUFFICES ASSUME waiting # <<>> PROVE FALSE
        OBVIOUS
      <4>1. Head(waiting) \in T /\ (Head(waiting).what = "ip" => Has(waiting, "ip"))
            /\ (Head(waiting).what = "pd" => Has(waiting, "pd"))
        <5> HIDE DEF T
        <5> QED BY Queued DEF Waits, T
      <4> QED BY <3>2, <4>1
    <3>4. plugged = "idle" /\ plugged6 = "idle" /\ ~bare
      BY <3>1 DEF Waits, Plans, Agrees, LeasesAgree, CablesAgree, Pluggable, Given
    <3> QED BY <1>4, <3>3, <3>4 DEF TearDown, plan, jobs, Waits, Has
  <2> QED BY <2>1, <2>2
<1>5. ASSUME Create \/ Prepare \/ Raise \/ ApplyIP \/ ApplyDns \/ Route \/ ApplyWan PROVE Waits'
  BY <1>1, <1>5 DEF Create, Prepare, Raise, ApplyIP, ApplyDns, Route, ApplyWan, Become, plan,
    jobs, Plans
<1>6. ASSUME NEW x, NEW b, Handler(x, b) PROVE
        /\ waiting' \in Seq([what : {"ip", "pd"}, of : Given(setup)])
        /\ Has(waiting', "ip") => Has(waiting, "ip")
        /\ Has(waiting', "pd") => Has(waiting, "pd")
        /\ Has(waiting, x)
        /\ waiting # <<>>
  <2>1. waiting # <<>> /\ waiting' = Tail(waiting) /\ waiting \in Seq(T) /\ Head(waiting).what = x
    BY <1>6 DEF Handler, Waits
  <2> HIDE DEF T
  <2>2. waiting' \in Seq(T)
    BY <2>1, Queued
  <2> QED BY <2>1, <2>2, Queued DEF T
<1>7. ASSUME IpChanged PROVE Waits'
  <2>1. Handler("ip", DnsRouted(DnsApplied(Handled, box))) /\ marking' \in BOOLEAN
    BY <1>7 DEF IpChanged
  <2> QED BY <1>7, <2>1, <1>6 DEF IpChanged, Handler, Waits, plan
<1>8. ASSUME PdChanged PROVE Waits'
  <2>1. Handler("pd", Routed(Handled, IPv6Applied(Handled, WithoutIPv6(Handled, box))))
        /\ marking' = marking
    BY <1>8 DEF PdChanged
  <2> QED BY <2>1, <1>6 DEF Handler, Waits, plan
<1>9. ASSUME MarkOutputConnection PROVE Waits'
  BY <1>9 DEF MarkOutputConnection, Waits, plan
<1>10. ASSUME PlugIn PROVE Waits'
  <2>1. conf \in Given(setup)
    BY <1>10 DEF PlugIn, Plans, Given
  <2> QED BY <1>10, <2>1 DEF PlugIn, Waits, Pluggable, kind, plan
<1>11. ASSUME PluggedFlush \/ PluggedRenew \/ PluggedFlush6 \/ PluggedRenew6 PROVE Waits'
  <2>1. /\ setup' = setup /\ conf' = conf /\ waiting' = waiting /\ marking' = marking /\ pd' = pd
        /\ plugged # "idle" \/ plugged6 # "idle"
        /\ plugged6' # "idle" \/ bare' => plugged6 # "idle" \/ bare
    BY <1>11 DEF PluggedFlush, PluggedRenew, PluggedFlush6, PluggedRenew6, plan
  <2> QED BY <2>1 DEF Waits
<1>12. ASSUME Lease PROVE Waits'
  <2>1. conf # None /\ Leasing(setup.kind, conf) /\ conf \in Given(setup)
    BY <1>12, ClientFrom DEF Lease, Plans, Given
  <2>2. CASE waiting' = waiting
    BY <1>12, <2>2 DEF Lease, Waits, plan
  <2>3. CASE waiting' = Append(waiting, [what |-> "ip", of |-> conf])
    <3>1. [what |-> "ip", of |-> conf] \in T /\ waiting \in Seq(T)
      BY <2>1 DEF Waits
    <3>2. setup.kind = "pppoe" \/ \E c \in Given(setup) : c.dhcp
      BY <2>1 DEF Leasing
    <3> HIDE DEF T
    <3>3. waiting' \in Seq(T) /\ (Has(waiting', "pd") => Has(waiting, "pd"))
      BY <2>3, <3>1, Queued
    <3> QED BY <1>12, <2>1, <3>2, <3>3 DEF Lease, Waits, plan, T
  <2> QED BY <1>12, <2>2, <2>3 DEF Lease
<1>13. ASSUME PppoeIpv6Up PROVE Waits'
  BY <1>13 DEF PppoeIpv6Up, Waits, plan, jobs
<1>14. ASSUME PdChange PROVE Waits'
  <2>1. "pd" \in setup.events
    BY <1>14 DEF PdChange
  <2>2. CASE waiting' = waiting
    BY <1>14, <2>1, <2>2 DEF PdChange, Waits, plan
  <2>3. CASE conf # None /\ waiting' = Append(waiting, [what |-> "pd", of |-> conf])
    <3>1. [what |-> "pd", of |-> conf] \in T /\ waiting \in Seq(T)
      BY <2>3 DEF Waits, Plans, Given
    <3> HIDE DEF T
    <3>2. waiting' \in Seq(T) /\ (Has(waiting', "ip") => Has(waiting, "ip"))
      BY <2>3, <3>1, Queued
    <3> QED BY <1>14, <2>1, <2>3, <3>2 DEF PdChange, Waits, plan, T
  <2> QED BY <1>14, <2>2, <2>3 DEF PdChange
<1>15. CASE UNCHANGED vars
  BY <1>15 DEF vars, cable, Waits
<1> QED BY <1>2, <1>3, <1>4, <1>5, <1>7, <1>8, <1>9, <1>10, <1>11, <1>12, <1>13, <1>14, <1>15
      DEF Next, Loader, Handlers

\* The link is that of the configuration, or there is none yet.
LEMMA NextLinks == IInv /\ [Next]_vars => Links'
<1> SUFFICES ASSUME Plans, Links, [Next]_vars PROVE Links'
  BY DEF IInv
<1> USE DEF Leaving, Before, After
<1>0. setup.kind \in Kinds
  BY SetupAssumption DEF Plans
<1>1. ASSUME NEW c \in setup.configs, Reapply(c) PROVE Links'
  <2>1. conf' = (IF conf = None THEN c ELSE conf) /\ next' = c /\ setup' = setup
        /\ stage' = Treatment(c) /\ (conf # None \/ c # None) /\ stage = "idle" /\ link' = link
    BY <1>1 DEF Reapply
  <2>2. stage' \in {"fast", "keep", "flush"} /\ (conf = None => stage' # "flush")
    BY <2>1, Treated
  <2> QED BY <2>1, <2>2 DEF Links
<1>2. ASSUME FlushFast PROVE Links'
  <2>1. stage \in {"fast", "keep"} /\ stage' = "create" /\ conf' = next /\ link' = link
        /\ setup' = setup
    BY <1>2 DEF FlushFast, plan
  <2>2. setup.kind \in {"vlan", "bond", "tun", "docker"} =>
          /\ LinkOf(setup.kind, conf) = conf.link /\ LinkOf(setup.kind, next) = next.link
          /\ next.link = conf.link
    BY <2>1 DEF LinkOf, Plans, Same, Keys, Soft, Wg
  <2> QED BY <2>1, <2>2 DEF Links
<1>3. ASSUME FlushIP PROVE Links'
  BY <1>3 DEF FlushIP, Links, plan, Plans
<1>4. ASSUME TearDown PROVE Links'
  <2>1. stage = "teardown" /\ conf' = next /\ stage' = (IF next = None THEN "idle" ELSE "create")
        /\ setup' = setup /\ link' = IF Deleted(conf) THEN None ELSE link
    BY <1>4 DEF TearDown, plan
  <2>2. link = LinkOf(setup.kind, conf) /\ conf \in Given(setup) /\ next \in setup.configs
    BY <2>1 DEF Links, Plans, Given
  <2>3. CASE setup.kind \in {"phy", "pppoe"} \/ Deleted(conf)
    <3>1. link' = None
      BY <2>1, <2>2, <2>3 DEF LinkOf
    <3> QED BY <2>1, <3>1 DEF Links
  <2>4. CASE setup.kind \notin {"phy", "pppoe"} /\ ~Deleted(conf)
    <3>1. setup.kind \in {"vlan", "bond", "bridge"} /\ ~conf.enabled
      BY <1>0, <2>4 DEF Deleted, Kinds, kind
    <3>2. next \in Given(setup)
      BY <2>2, <3>1 DEF Plans, Agrees, LinksAgree, Given
    <3>3. setup.kind \in {"vlan", "bond"} => next.link = conf.link
      BY <2>2, <3>1, <3>2 DEF Plans, Agrees, LinksAgree
    <3> QED BY <2>1, <2>2, <2>4, <3>1, <3>2, <3>3 DEF Links, LinkOf, Wg, Given
  <2> QED BY <2>3, <2>4
<1>5. ASSUME Create PROVE Links'
  <2>1. stage = "create" /\ stage' = "env" /\ conf' = conf /\ setup' = setup
        /\ link' = Linked(conf, link)
    BY <1>5 DEF Create, Become, plan
  <2>2. Linked(conf, link) = LinkOf(setup.kind, conf)
    BY <1>0, <2>1 DEF Linked, LinkOf, Links, Kinds, kind, Wg, WireGuard
  <2> QED BY <2>1, <2>2 DEF Links
<1>6. ASSUME Prepare \/ Raise \/ ApplyIP \/ ApplyDns \/ Route \/ ApplyWan PROVE Links'
  BY <1>6 DEF Prepare, Raise, ApplyIP, ApplyDns, Route, ApplyWan, Become, plan, Links, Plans
<1>7. ASSUME Handlers \/ MarkOutputConnection PROVE Links'
  BY <1>7 DEF Handlers, IpChanged, PdChanged, Handler, MarkOutputConnection, Links, plan
<1>8. ASSUME \/ PlugIn \/ PluggedFlush \/ PluggedRenew \/ PluggedFlush6 \/ PluggedRenew6
             \/ Lease \/ PppoeIpv6Up \/ PdChange
      PROVE  Links'
  BY <1>8 DEF PlugIn, PluggedFlush, PluggedRenew, PluggedFlush6, PluggedRenew6, Lease, PppoeIpv6Up, PdChange, Links, plan
<1>9. CASE UNCHANGED vars
  BY <1>9 DEF vars, cable, Links
<1> QED BY <1>1, <1>2, <1>3, <1>4, <1>5, <1>6, <1>7, <1>8, <1>9 DEF Next, Loader

-----------------------------------------------------------------------------
(* Nothing else is there                                                   *)

\* What may be there with a prefix at hand may be there with more of it, and
\* without one for who does not follow the parent interface.
LEMMA KeptGrows ==
  ASSUME NEW k, NEW c, NEW p, NEW q, NEW o, Kept(k, c, p, o),
         (p => q) \/ ~c.delegate \/ ~c.enabled
  PROVE  Kept(k, c, q, o)
BY DoneGrows, DoneAnyway DEF Kept, Made

\* Routes to the DNS servers and marks may be there with what they follow from.
LEMMA FollowUps ==
  ASSUME NEW k, NEW c, NEW h, WanOf(k, c)
  PROVE  /\ Kept(k, c, h, "default4") /\ (Kept(k, c, h, "resolv") \/ Named(k, c))
              => Kept(k, c, h, "dns4")
         /\ Kept(k, c, h, "addr4") => Kept(k, c, h, "outmark")
<1>1. Kept(k, c, h, "default4") => Leasing(k, c) \/ (c.enabled /\ Gate(k, c))
  BY DEF Kept, Made, Done, CreatedBy, PreparedBy, RaisedBy, AddressedBy, FourBy, SixBy,
    NamedBy, RoutedBy, RouteOf, MarkedBy, Spare, WanRules, LanRules
<1>2. Kept(k, c, h, "addr4") => Leasing(k, c) \/ (c.enabled /\ Static4(k, c))
  BY DEF Kept, Made, Done, CreatedBy, PreparedBy, RaisedBy, AddressedBy, FourBy, SixBy,
    NamedBy, RoutedBy, RouteOf, MarkedBy, Spare, WanRules, LanRules, Static4
<1>3. Kept(k, c, h, "resolv") /\ c.enabled => Named(k, c)
  BY DEF Kept, Made, Done, CreatedBy, PreparedBy, RaisedBy, AddressedBy, FourBy, SixBy,
    NamedBy, RoutedBy, RouteOf, MarkedBy, Spare, WanRules, LanRules, Leased
<1>4. Leasing(k, c) => Kept(k, c, h, "dns4") /\ Kept(k, c, h, "outmark")
  BY DEF Kept, Spare, Leased
<1>5. c.enabled /\ Gate(k, c) /\ Named(k, c) => Kept(k, c, h, "dns4")
  BY DEF Kept, Made, Done, MarkedBy
<1>6. c.enabled /\ Static4(k, c) => Kept(k, c, h, "outmark")
  BY DEF Kept, Made, Done, MarkedBy
<1> QED BY <1>1, <1>2, <1>3, <1>4, <1>5, <1>6

\* A reapply and its flush leave what the new configuration may have.
LEMMA FlushUpper ==
  ASSUME IInv, (\E c \in setup.configs : Reapply(c)) \/ FlushFast \/ FlushIP
  PROVE  Upper'
<1> USE DEF Leaving, Before, After
<1>1. ASSUME NEW c \in setup.configs, Reapply(c) PROVE Upper'
  <2>1. /\ conf' = (IF conf = None THEN c ELSE conf) /\ setup' = setup /\ box' = box
        /\ stage' = Treatment(c) /\ (conf # None \/ c # None) /\ stage = "idle"
    BY <1>1 DEF Reapply
  <2>2. stage' \in {"fast", "keep", "flush"} /\ (conf = None => stage' # "flush")
    BY <2>1, Treated DEF IInv
  <2>3. ASSUME NEW o \in box PROVE Allowed(stage', setup, conf', Hi', o)
    <3>1. Allowed("idle", setup, conf, Hi, o)
      BY <2>1 DEF IInv, Upper
    <3>2. conf # None => Kept(setup.kind, conf, TRUE, o)
      BY <3>1, KeptGrows DEF Allowed
    <3>3. conf = None => Kept(setup.kind, conf', TRUE, o) \/ o \in {"up", "tuned"}
      BY <3>1 DEF Allowed, Scraps
    <3> QED BY <2>1, <2>2, <3>2, <3>3 DEF Allowed
  <2> QED BY <2>1, <2>3 DEF Upper
<1>2. ASSUME FlushFast PROVE Upper'
  <2>1. /\ stage \in {"fast", "keep"} /\ stage' = "create" /\ conf' = next /\ setup' = setup
        /\ box' = IF stage = "fast" THEN WithoutIP(conf, box) ELSE box
    BY <1>2 DEF FlushFast, plan
  <2>2. Agrees(setup) /\ conf \in Given(setup) /\ next \in Given(setup)
    BY <2>1 DEF IInv, Plans, Given
  <2>3. ASSUME NEW o \in box' PROVE Rough(setup.kind, next, Hi', o)
    <3>1. CASE stage = "fast"
      <4>1. o \in box /\ ~Emptied(setup.kind, conf, o)
        BY <2>1, <3>1, EmptiedHas DEF kind
      <4>2. Kept(setup.kind, conf, TRUE, o) \/ o \in {"up", "tuned"}
        BY <3>1, <4>1 DEF IInv, Upper, Allowed
      <4>3. Same(conf, next, Keys \ Soft)
        BY <3>1 DEF IInv, Plans
      <4> QED BY <2>2, <4>1, <4>2, <4>3, SoftKeeps
    <3>2. CASE stage = "keep"
      <4>1. Kept(setup.kind, conf, TRUE, o) \/ o \in {"up", "tuned"}
        BY <2>1, <3>2 DEF IInv, Upper, Allowed
      <4>2. \/ setup.kind = "bridge" /\ Same(conf, next, Keys \ {"stp"})
            \/ setup.kind = "wg_ap" /\ Same(conf, next, Keys \ {"peers"})
        BY <3>2 DEF IInv, Plans
      <4>3. Hi'
        BY <2>1, <2>2, <4>2 DEF Hi, Agrees, PrefixesAgree
      <4>4. Kept(setup.kind, conf, TRUE, o) => Kept(setup.kind, next, Hi', o)
        BY <2>2, <4>2, <4>3, StayKeeps, KeptGrows
      <4>5. o \in {"up", "tuned"} => Rough(setup.kind, next, Hi', o)
        BY DEF Rough, Kept, Made, Done, RaisedBy, Spare
      <4> QED BY <4>1, <4>4, <4>5 DEF Rough
    <3> QED BY <2>1, <3>1, <3>2
  <2> QED BY <2>1, <2>3 DEF Upper, Allowed
<1>3. ASSUME FlushIP PROVE Upper'
  <2>1. /\ stage = "flush" /\ stage' = "teardown" /\ conf' = conf /\ setup' = setup
        /\ box' = IF conf.enabled THEN WithoutIP(conf, box) ELSE box
    BY <1>3 DEF FlushIP, plan
  <2>2. ASSUME NEW o \in box' PROVE Allowed("teardown", setup, conf, Hi', o)
    <3>1. o \in box /\ (conf.enabled => ~Emptied(setup.kind, conf, o))
      BY <2>1, EmptiedHas DEF kind
    <3>2. Kept(setup.kind, conf, TRUE, o)
      BY <2>1, <3>1 DEF IInv, Upper, Allowed
    <3> QED BY <3>1, <3>2 DEF Allowed
  <2> QED BY <2>1, <2>2 DEF Upper
<1> QED BY <1>1, <1>2, <1>3

\* The rest of flush() leaves ruins.
LEMMA TearDownUpper ==
  ASSUME IInv, TearDown
  PROVE  Upper'
<1> USE DEF Leaving, Before, After
<1> DEFINE rest == IF conf.enabled THEN Flushed(conf, box) ELSE box
<1>1. /\ stage = "teardown" /\ conf' = next /\ stage' = (IF next = None THEN "idle" ELSE "create")
      /\ setup' = setup /\ box' = IF Deleted(conf) THEN Unlinked(rest) ELSE rest
  BY DEF TearDown, plan
<1>2. Agrees(setup) /\ conf \in Given(setup) /\ conf # None /\ next \in setup.configs
  BY <1>1 DEF IInv, Plans, Given
<1>3. \A x \in box : /\ Kept(setup.kind, conf, TRUE, x)
                     /\ conf.enabled => ~Emptied(setup.kind, conf, x) \/ Asked(setup, conf, x)
  BY <1>1 DEF IInv, Upper, Allowed
<1>4. ASSUME NEW o \in box' PROVE Ruins(setup, conf, o)
  <2>1. o \in rest /\ (Deleted(conf) => o \notin Tunnel)
    BY <1>1 DEF Unlinked
  <2>2. CASE conf.enabled
    <3>1. o \in Flushed(conf, box) /\ o \in box
      BY <1>2, <2>1, <2>2, FlushedHas
    <3> HIDE DEF rest
    <3> QED BY <1>2, <1>3, <2>1, <2>2, <3>1, FlushedLeaves DEF kind
  <2>3. CASE ~conf.enabled
    <3>1. o \in box
      BY <2>1, <2>3
    <3>2. Wg(setup.kind) => o \notin Tunnel
      BY <2>1 DEF Deleted, Wg, kind
    <3>3. Kept(setup.kind, conf, TRUE, o)
      BY <1>3, <3>1
    <3> HIDE DEF rest
    <3> QED BY <2>3, <3>2, <3>3 DEF Kept, Made, Done, CreatedBy, PreparedBy, RaisedBy, AddressedBy,
          NamedBy, RoutedBy, MarkedBy, Spare, Leasing, Ruins, Scraps, Tunnel
  <2> QED BY <2>2, <2>3
<1> HIDE DEF rest
<1>5. next # None => \A o \in box' : Rough(setup.kind, next, Hi', o)
  BY <1>2, <1>4, RuinsKept DEF Given
<1>6. next = None => \A o \in box' : o \in Scraps
  BY <1>2, <1>4, RuinsKept
<1> QED BY <1>1, <1>5, <1>6 DEF Upper, Allowed

\* The stages of apply() add what they make, and put right what is rough.
LEMMA ApplyUpper ==
  ASSUME IInv, Create \/ Prepare \/ Raise \/ ApplyIP \/ ApplyDns \/ Route \/ ApplyWan
  PROVE  Upper'
<1> USE DEF Leaving, Before, After
<1>0. /\ conf' = conf /\ setup' = setup /\ waiting' = waiting /\ pd' = pd
      /\ stage \notin Leaving /\ conf # None /\ kind = setup.kind /\ Agrees(setup)
  BY DEF IInv, Plans, Create, Prepare, Raise, ApplyIP, ApplyDns, Route, ApplyWan, Become, plan, jobs,
         kind
<1>1. ASSUME Create \/ Prepare PROVE Upper'
  <2>1. /\ stage \in {"create", "env"} /\ stage' \in {"env", "updown"}
        /\ box' = Created(conf, box) \/ box' = Prepared(conf, box)
    BY <1>1 DEF Create, Prepare, Become
  <2>2. Hi' <=> Hi
    BY <1>0, <2>1 DEF Hi
  <2>3. ASSUME NEW o \in box' PROVE Rough(setup.kind, conf, Hi, o)
    <3>1. o \in box \/ CreatedBy(setup.kind, conf, o) \/ PreparedBy(setup.kind, conf, o)
      BY <1>0, <2>1, CreatedHas, PreparedHas
    <3>2. o \in box => Rough(setup.kind, conf, Hi, o)
      BY <1>0, <2>1 DEF IInv, Upper, Allowed
    <3> QED BY <3>1, <3>2 DEF Rough, Kept, Made, Done
  <2>4. ASSUME NEW o \in box' PROVE Rough(setup.kind, conf, Hi', o)
    BY <2>2, <2>3
  <2> QED BY <1>0, <2>1, <2>4 DEF Upper, Allowed
<1>2. ASSUME Raise, conf.enabled PROVE Upper'
  <2>1. /\ stage = "updown" /\ stage' = "ip"
        /\ box' = Tuned(conf, UpDown(conf, box))
    BY <1>2 DEF Raise, Become
  <2>2. Hi' <=> Hi
    BY <1>0, <2>1 DEF Hi
  <2>3. ASSUME NEW o \in box' PROVE Kept(setup.kind, conf, Hi, o)
    <3>1. (o \in box /\ o # "tuned") \/ RaisedBy(setup.kind, conf, o)
      BY <1>0, <1>2, <2>1, RaisedHas
    <3>2. o \in box => Rough(setup.kind, conf, Hi, o)
      BY <1>0, <2>1 DEF IInv, Upper, Allowed
    <3> QED BY <1>2, <3>1, <3>2 DEF Rough, Kept, Made, Done
  <2>4. ASSUME NEW o \in box' PROVE Kept(setup.kind, conf, Hi', o)
    BY <2>2, <2>3
  <2> QED BY <1>0, <2>1, <2>4 DEF Upper, Allowed
<1>3. ASSUME Raise, ~conf.enabled PROVE Upper'
  <2>1. stage = "updown" /\ stage' = "idle" /\ box' = UpDown(conf, box)
    BY <1>3 DEF Raise, Become
  <2>2. ASSUME NEW o \in box' PROVE Kept(setup.kind, conf, Hi', o)
    <3>1. o \in box /\ o # "up"
      BY <1>3, <2>1, LoweredHas
    <3>2. Rough(setup.kind, conf, Hi, o)
      BY <1>0, <2>1, <3>1 DEF IInv, Upper, Allowed
    <3>3. Kept(setup.kind, conf, Hi, o)
      BY <1>3, <3>1, <3>2 DEF Rough
    <3> QED BY <1>3, <3>3, KeptGrows
  <2> QED BY <1>0, <2>1, <2>2 DEF Upper, Allowed
<1>4. ASSUME ApplyIP PROVE Upper'
  <2>1. stage = "ip" /\ stage' = "dns" /\ box' = IPApplied(conf, box) /\ conf.enabled
    BY <1>4 DEF ApplyIP, Become, IInv, Plans
  <2>2. (Hi => pd) /\ (pd => Hi')
    BY <1>0, <2>1 DEF Hi, IInv, Waits
  <2>3. ASSUME NEW o \in box' PROVE Kept(setup.kind, conf, Hi', o)
    <3>1. o \in box \/ AddressedBy(setup.kind, conf, pd, o)
      BY <1>0, <2>1, IPHas
    <3>2. o \in box => Kept(setup.kind, conf, Hi, o)
      BY <1>0, <2>1 DEF IInv, Upper, Allowed
    <3>3. AddressedBy(setup.kind, conf, pd, o) => Kept(setup.kind, conf, pd, o)
      BY DEF Kept, Made, Done
    <3> QED BY <2>2, <3>1, <3>2, <3>3, KeptGrows
  <2> QED BY <1>0, <2>1, <2>3 DEF Upper, Allowed
<1>5. ASSUME ApplyDns PROVE Upper'
  <2>1. stage = "dns" /\ stage' = "routes" /\ box' = DnsApplied(conf, box) /\ conf.enabled
    BY <1>5 DEF ApplyDns, Become, IInv, Plans
  <2>2. Hi' <=> Hi
    BY <1>0, <2>1 DEF Hi
  <2>3. ASSUME NEW o \in box' PROVE Kept(setup.kind, conf, Hi, o)
    <3>1. o \in box \/ NamedBy(setup.kind, conf, o)
      BY <1>0, <2>1, DnsHas DEF NamedBy
    <3>2. o \in box => Kept(setup.kind, conf, Hi, o)
      BY <1>0, <2>1 DEF IInv, Upper, Allowed
    <3> QED BY <3>1, <3>2 DEF Kept, Made, Done
  <2>4. ASSUME NEW o \in box' PROVE Kept(setup.kind, conf, Hi', o)
    BY <2>2, <2>3
  <2> QED BY <1>0, <2>1, <2>4 DEF Upper, Allowed
<1>6. ASSUME Route PROVE Upper'
  <2>1. stage = "routes" /\ stage' = "wan" /\ box' = Routed(conf, box) /\ conf.enabled
    BY <1>6 DEF Route, Become, IInv, Plans
  <2>2. Hi' <=> Hi
    BY <1>0, <2>1 DEF Hi
  <2>3. \A x \in box : Kept(setup.kind, conf, Hi, x)
    BY <1>0, <2>1 DEF IInv, Upper, Allowed
  <2>4. "pdcache" \in box /\ conf.delegate => V6(setup.kind, conf, Hi)
    <3>1. Kept(setup.kind, conf, Hi, "pdcache") => setup.kind # "pppoe" /\ ~conf.dhcp6 /\ Hi
      BY DEF Kept, Made, Done, CreatedBy, PreparedBy, RaisedBy, AddressedBy, FourBy, SixBy,
        NamedBy, RoutedBy, RouteOf, MarkedBy, Spare, LanRules, WanRules, Leased
    <3> QED BY <2>3, <3>1 DEF V6
  <2>5. ASSUME NEW o \in box' PROVE Kept(setup.kind, conf, Hi, o)
    <3>1. o \in box \/ RouteOf(setup.kind, conf, conf.ipv6 \/ (conf.delegate /\ "pdcache" \in box), o)
      BY <1>0, <2>1, RoutedHas
    <3>2. o \in box \/ RoutedBy(setup.kind, conf, Hi, o)
      <4>1. V6(setup.kind, conf, Hi) \/ ~(conf.ipv6 \/ (conf.delegate /\ "pdcache" \in box))
        BY <2>4 DEF V6
      <4> QED BY <2>1, <3>1, <4>1 DEF RoutedBy, RouteOf
    <3> QED BY <2>3, <3>2 DEF Kept, Made, Done
  <2>6. ASSUME NEW o \in box' PROVE Kept(setup.kind, conf, Hi', o)
    BY <2>2, <2>5
  <2> QED BY <1>0, <2>1, <2>6 DEF Upper, Allowed
<1>7. ASSUME ApplyWan PROVE Upper'
  <2>1. stage = "wan" /\ stage' = "idle" /\ box' = WanApplied(conf, box)
    BY <1>7 DEF ApplyWan, Become
  <2>2. Hi' <=> Hi
    BY <1>0, <2>1 DEF Hi
  <2>3. \A x \in box : Kept(setup.kind, conf, Hi, x)
    BY <1>0, <2>1 DEF IInv, Upper, Allowed
  <2>4. ASSUME NEW o \in box' PROVE Kept(setup.kind, conf, Hi, o)
    <3>1. \/ o \in box
          \/ WanOf(setup.kind, conf) /\ o = "dns4" /\ "default4" \in box /\ "resolv" \in box
          \/ WanOf(setup.kind, conf) /\ o = "outmark" /\ "addr4" \in box
      BY <1>0, <2>1, WanHas
    <3> QED BY <2>3, <3>1, FollowUps
  <2>5. ASSUME NEW o \in box' PROVE Kept(setup.kind, conf, Hi', o)
    BY <2>2, <2>4
  <2> QED BY <1>0, <2>1, <2>5 DEF Upper, Allowed
<1> QED BY <1>1, <1>2, <1>3, <1>4, <1>5, <1>6, <1>7

\* What the prefix decides is taken away by flushIP(6).
LEMMA WithoutPrefix ==
  ASSUME NEW k, NEW c, NEW p, NEW q, NEW o, Kept(k, c, p, o), ~Emptied6(c, o)
  PROVE  Kept(k, c, q, o)
BY DEF Kept, Made, Done, AddressedBy, SixBy, RoutedBy, RouteOf, V6, Emptied6, Over6

\* Who has pppd is a PPPoE interface.
LEMMA PppdFrom ==
  ASSUME Plans, Upper, "pppd" \in box
  PROVE  setup.kind = "pppoe"
<1>1. \A h : Rough(setup.kind, conf, h, "pppd") => setup.kind = "pppoe"
  BY DEF Rough, Kept, Made, Done, CreatedBy, PreparedBy, RaisedBy, AddressedBy, FourBy,
    SixBy, NamedBy, RoutedBy, RouteOf, MarkedBy, Spare, WanRules, LanRules, Leased
<1>2. \A h : Kept(setup.kind, conf, h, "pppd") => setup.kind = "pppoe"
  BY <1>1 DEF Rough
<1> QED BY <1>1, <1>2 DEF Upper, Allowed, Plans, Leaving, Before, After, Scraps

\* Nothing comes with the events but what may be there.
LEMMA EventUpper ==
  ASSUME IInv, \/ PlugIn \/ PluggedFlush \/ PluggedRenew \/ PluggedFlush6 \/ PluggedRenew6
               \/ Lease \/ PppoeIpv6Up \/ PdChange \/ MarkOutputConnection
  PROVE  Upper'
<1> USE DEF Leaving, Before, After
<1>0. conf' = conf /\ setup' = setup /\ stage' = stage /\ kind = setup.kind
  BY DEF PlugIn, PluggedFlush, PluggedRenew, PluggedFlush6, PluggedRenew6, Lease, PppoeIpv6Up,
         PdChange, MarkOutputConnection, plan, kind
<1>1. ASSUME NEW new, \A o \in new : conf # None /\ Allowed(stage, setup, conf, Hi, o),
             \A o \in box' : o \in box \/ o \in new,
             pd' = pd, Has(waiting', "pd") <=> Has(waiting, "pd")
      PROVE  Upper'
  <2>1. Hi' <=> Hi
    BY <1>0, <1>1 DEF Hi
  <2>2. ASSUME NEW o \in box' PROVE Allowed(stage, setup, conf, Hi, o)
    BY <1>1 DEF IInv, Upper
  <2>3. ASSUME NEW o \in box' PROVE Allowed(stage, setup, conf, Hi', o)
    BY <2>1, <2>2
  <2> QED BY <1>0, <2>3 DEF Upper
<1>10. ASSUME \A o \in box' : o \in box, pd' = pd, waiting' = waiting PROVE Upper'
  <2>1. Hi' <=> Hi
    BY <1>0, <1>10 DEF Hi
  <2>2. ASSUME NEW o \in box' PROVE Allowed(stage, setup, conf, Hi, o)
    BY <1>10 DEF IInv, Upper
  <2>3. ASSUME NEW o \in box' PROVE Allowed(stage, setup, conf, Hi', o)
    BY <2>1, <2>2
  <2> QED BY <1>0, <2>3 DEF Upper
<1>2. ASSUME PlugIn PROVE Upper'
  <2>1. box' = box /\ pd' = pd /\ waiting' = waiting
    BY <1>2 DEF PlugIn
  <2> QED BY <1>10, <2>1
<1>3. ASSUME PluggedFlush PROVE Upper'
  <2>1. (\A o \in box' : o \in box) /\ pd' = pd /\ waiting' = waiting
    BY <1>3 DEF PluggedFlush, WithoutIPv4
  <2> QED BY <1>10, <2>1
<1>4. ASSUME PluggedRenew PROVE Upper'
  <2>1. (\A o \in box' : o \in box \/ o \in {"dhclient"}) /\ pd' = pd /\ waiting' = waiting
        /\ plugged = "renew"
    BY <1>4 DEF PluggedRenew, Restarted
  <2>2. conf # None /\ conf.enabled /\ conf.dhcp /\ Pluggable(setup)
    BY <2>1 DEF IInv, Waits, Plans, Agrees, LeasesAgree, CablesAgree, Pluggable, Given
  <2>3. \A h : Kept(setup.kind, conf, h, "dhclient")
    BY <2>2 DEF Kept, Made, Done, AddressedBy, FourBy, Pluggable
  <2>4. \A o \in {"dhclient"} : conf # None /\ Allowed(stage, setup, conf, Hi, o)
    BY <2>2, <2>3 DEF Allowed, Rough, Asked
  <2> QED BY <1>1, <2>1, <2>4
<1>9. ASSUME PluggedFlush6 PROVE Upper'
  <2>1. (\A o \in box' : o \in box) /\ pd' = pd /\ waiting' = waiting
    BY <1>9 DEF PluggedFlush6, WithoutIPv6
  <2> QED BY <1>10, <2>1
<1>11. ASSUME PluggedRenew6 PROVE Upper'
  <2>1. (\A o \in box' : o \in box \/ o \in {"dhcpcd6"}) /\ pd' = pd /\ waiting' = waiting
        /\ plugged6 = "renew"
    BY <1>11 DEF PluggedRenew6
  <2>2. conf # None /\ conf.enabled /\ conf.dhcp6 /\ Pluggable(setup)
    BY <2>1 DEF IInv, Waits, Plans, Agrees, LeasesAgree, CablesAgree, Pluggable, Given
  <2>3. \A h : Kept(setup.kind, conf, h, "dhcpcd6")
    BY <2>2 DEF Kept, Made, Done, AddressedBy, SixBy, Pluggable
  <2>4. \A o \in {"dhcpcd6"} : conf # None /\ Allowed(stage, setup, conf, Hi, o)
    BY <2>2, <2>3 DEF Allowed, Rough, Asked
  <2> QED BY <1>1, <2>1, <2>4
<1>5. ASSUME Lease PROVE Upper'
  <2>1. /\ Client \in box /\ box' = box \cup {"bound", "addr4", "local4", "default4"} /\ pd' = pd
        /\ waiting' = waiting \/ waiting' = Append(waiting, [what |-> "ip", of |-> conf])
    BY <1>5 DEF Lease
  <2>2. /\ conf # None /\ Leasing(setup.kind, conf) /\ conf \in Given(setup)
        /\ stage = "teardown" => Pluggable(setup)
    BY <2>1, ClientFrom DEF IInv, Plans, Given
  <2>3. Has(waiting', "pd") <=> Has(waiting, "pd")
    <3> DEFINE T == [what : {"ip", "pd"}, of : Given(setup)]
               e == [what |-> "ip", of |-> conf]
    <3>1. waiting \in Seq(T) /\ e \in T /\ e.what = "ip"
      BY <2>2 DEF IInv, Waits
    <3>2. waiting' = waiting \/ waiting' = Append(waiting, e)
      BY <2>1
    <3> HIDE DEF T, e
    <3>3. Has(Append(waiting, e), "pd") <=> Has(waiting, "pd") \/ e.what = "pd"
      BY <3>1, Queued
    <3>4. e.what # "pd"
      BY <3>1
    <3>5. CASE waiting' = waiting
      BY <3>5
    <3>6. CASE waiting' = Append(waiting, e)
      BY <3>3, <3>4, <3>6
    <3> QED BY <3>2, <3>5, <3>6
  <2>4. \A o \in {"bound", "addr4", "local4", "default4"} : \A h : Kept(setup.kind, conf, h, o)
    BY <2>2 DEF Kept, Spare, Leased
  <2>5. \A o \in {"bound", "addr4", "local4", "default4"} :
           conf # None /\ Allowed(stage, setup, conf, Hi, o)
    BY <2>2, <2>4 DEF Allowed, Rough, Leased, Leasing, Pluggable, Asked
  <2>6. \A o \in box' : o \in box \/ o \in {"bound", "addr4", "local4", "default4"}
    BY <2>1
  <2> QED BY <1>1, <2>1, <2>3, <2>5, <2>6
<1>6. ASSUME PppoeIpv6Up PROVE Upper'
  <2>1. /\ "pppd" \in box /\ conf.dhcp6 /\ box' = IPv6Applied(conf, box)
        /\ pd' = pd /\ waiting' = waiting
    BY <1>6 DEF PppoeIpv6Up, jobs
  <2>2. setup.kind = "pppoe"
    BY <2>1, PppdFrom DEF IInv
  <2>3. conf # None /\ stage # "teardown"
    BY <1>0, <2>1, <2>2, ClientFrom DEF IInv, Client, Pluggable
  <2> DEFINE new == {"dhcpcd6", "dhcpcd6conf", "local6", "default6"}
  <2>4. \A o \in box' : o \in box \/ o \in new
    BY <2>1, SixHas DEF SixBy
  <2>5. \A o \in new : \A h : Kept(setup.kind, conf, h, o)
    BY <2>2 DEF Kept, Spare
  <2>6. \A o \in new : conf # None /\ Allowed(stage, setup, conf, Hi, o)
    BY <2>3, <2>5 DEF Allowed, Rough
  <2> HIDE DEF new
  <2> QED BY <1>1, <2>1, <2>4, <2>6
<1>7. ASSUME PdChange PROVE Upper'
  <2>1. /\ box' = box /\ "pd" \in setup.events
        /\ waiting' = IF /\ conf # None /\ conf.delegate /\ conf.enabled /\ stage \notin Before
                      THEN Append(waiting, [what |-> "pd", of |-> conf]) ELSE waiting
    BY <1>7 DEF PdChange
  <2>2. ASSUME NEW o \in box PROVE Allowed(stage, setup, conf, Hi', o)
    <3>1. Allowed(stage, setup, conf, Hi, o)
      BY DEF IInv, Upper
    <3>2. CASE stage \in Before
      <4>1. Hi' <=> Hi
        BY <1>0, <3>2 DEF Hi
      <4>2. \A h : (h <=> Hi) => Allowed(stage, setup, conf, h, o)
        <5>1. \A h : (h <=> Hi) /\ Kept(setup.kind, conf, Hi, o) => Kept(setup.kind, conf, h, o)
          BY KeptGrows
        <5> QED BY <3>1, <3>2, <5>1 DEF Allowed, Rough
      <4> QED BY <4>1, <4>2
    <3>3. CASE stage \in Leaving \/ conf = None
      BY <3>1, <3>3 DEF Allowed, IInv, Plans
    <3>4. CASE stage \in After /\ conf # None
      <4>1. Kept(setup.kind, conf, Hi, o)
        BY <3>1, <3>4 DEF Allowed
      <4>2. CASE conf.delegate /\ conf.enabled
        <5>1. waiting' = Append(waiting, [what |-> "pd", of |-> conf])
          BY <2>1, <3>4, <4>2
        <5>2. Has(waiting', "pd")
          <6> DEFINE T == [what : {"ip", "pd"}, of : Given(setup)]
                     e == [what |-> "pd", of |-> conf]
          <6>1. waiting \in Seq(T) /\ e \in T /\ e.what = "pd"
            BY <3>4 DEF IInv, Waits, Plans, Given
          <6>2. waiting' = Append(waiting, e)
            BY <5>1
          <6> HIDE DEF T, e
          <6> QED BY <6>1, <6>2, Queued
        <5>3. Hi'
          BY <1>0, <3>4, <5>2 DEF Hi
        <5>4. Kept(setup.kind, conf, Hi', o)
          BY <4>1, <5>3, KeptGrows
        <5> QED BY <3>4, <5>4 DEF Allowed
      <4>3. CASE ~conf.delegate \/ ~conf.enabled
        <5>1. Kept(setup.kind, conf, Hi', o)
          BY <4>1, <4>3, KeptGrows
        <5> QED BY <3>4, <5>1 DEF Allowed
      <4> QED BY <4>2, <4>3
    <3> QED BY <3>2, <3>3, <3>4 DEF IInv, Plans
  <2> QED BY <1>0, <2>1, <2>2 DEF Upper
<1>8. ASSUME MarkOutputConnection PROVE Upper'
  <2>1. marking /\ box' = Marked(box) /\ pd' = pd /\ waiting' = waiting
    BY <1>8 DEF MarkOutputConnection
  <2>2. CASE "addr4" \in box
    <3>1. Allowed(stage, setup, conf, Hi, "addr4")
      BY <2>2 DEF IInv, Upper
    <3>2. conf # None
      BY <3>1 DEF Allowed, IInv, Plans, Scraps
    <3>3. WanOf(setup.kind, conf)
      BY <2>1, <3>2 DEF IInv, Waits, Plans, Agrees, LeasesAgree, Given, WanOf
    <3>4. \A h : Kept(setup.kind, conf, h, "addr4") => Kept(setup.kind, conf, h, "outmark")
      BY <3>3, FollowUps
    <3>5. /\ Rough(setup.kind, conf, Hi, "addr4") => Rough(setup.kind, conf, Hi, "outmark")
          /\ Emptied(setup.kind, conf, "addr4")
      BY <3>4 DEF Rough, Emptied, Emptied4
    <3>6. Allowed(stage, setup, conf, Hi, "outmark")
      BY <3>1, <3>2, <3>4, <3>5 DEF Allowed, Leased, Asked
    <3>7. \A o \in {"outmark"} : conf # None /\ Allowed(stage, setup, conf, Hi, o)
      BY <3>2, <3>6
    <3>8. \A o \in box' : o \in box \/ o \in {"outmark"}
      BY <2>1, MarkedHas
    <3> QED BY <1>1, <2>1, <3>7, <3>8
  <2>3. CASE "addr4" \notin box
    <3>1. \A o \in box' : o \in box
      BY <2>1, <2>3, MarkedHas
    <3> QED BY <1>10, <2>1, <3>1
  <2> QED BY <2>2, <2>3
<1> QED BY <1>2, <1>3, <1>4, <1>5, <1>6, <1>7, <1>8, <1>9, <1>11

\* A handler that has the lock works on the instance itself.
LEMMA HandledIs ==
  ASSUME IInv, NEW x \in {"ip", "pd"}, NEW b, Handler(x, b)
  PROVE  /\ stage = "idle" /\ conf # None /\ conf \in Given(setup) /\ Handled = conf
         /\ Has(waiting, x)
         /\ Has(waiting, "pd") <=> x = "pd" \/ Has(waiting', "pd")
         /\ conf' = conf /\ setup' = setup /\ stage' = stage /\ pd' = pd /\ box' = b
         /\ plugged' = plugged /\ plugged6' = plugged6 /\ bare' = bare
<1> DEFINE T == [what : {"ip", "pd"}, of : Given(setup)]
<1>1. /\ stage = "idle" /\ waiting # <<>> /\ Head(waiting).what = x /\ waiting' = Tail(waiting)
      /\ conf' = conf /\ setup' = setup /\ stage' = stage /\ pd' = pd /\ box' = b
      /\ plugged' = plugged /\ plugged6' = plugged6 /\ bare' = bare
  BY DEF Handler, plan, cable
<1>2. waiting \in Seq(T) /\ conf # None
  BY <1>1 DEF IInv, Waits
<1> HIDE DEF T
<1>3. /\ Has(waiting, x) <=> Head(waiting).what = x \/ Has(Tail(waiting), x)
      /\ Has(waiting, "pd") <=> Head(waiting).what = "pd" \/ Has(Tail(waiting), "pd")
  BY <1>1, <1>2, Queued
<1>4. Handled = conf /\ conf \in Given(setup)
  BY <1>2 DEF Handled, IInv, Plans
<1>5. Has(waiting', "pd") <=> Has(Tail(waiting), "pd")
  BY <1>1
<1> QED BY <1>1, <1>2, <1>3, <1>4, <1>5

\* The handlers make nothing but what apply() makes.
LEMMA HandlersUpper ==
  ASSUME IInv, Handlers
  PROVE  Upper'
<1> USE DEF Leaving, Before, After
<1>1. ASSUME IpChanged PROVE Upper'
  <2>1. Handler("ip", DnsRouted(DnsApplied(Handled, box)))
    BY <1>1 DEF IpChanged
  <2>2. /\ stage = "idle" /\ conf # None /\ Has(waiting, "ip")
        /\ Has(waiting, "pd") <=> Has(waiting', "pd")
        /\ conf' = conf /\ setup' = setup /\ stage' = stage /\ pd' = pd
        /\ box' = DnsRouted(DnsApplied(conf, box))
    BY <2>1, HandledIs
  <2>3. Hi' <=> Hi
    BY <2>2 DEF Hi
  <2>4. \A x \in box : Kept(setup.kind, conf, Hi, x)
    BY <2>2 DEF IInv, Upper, Allowed
  <2>5. WanOf(setup.kind, conf) /\ (conf.enabled \/ setup.kind = "pppoe")
    <3>1. setup.kind = "pppoe" \/ \E c \in Given(setup) : c.dhcp
      BY <2>2 DEF IInv, Waits
    <3>2. conf \in Given(setup) /\ Agrees(setup)
      BY <2>2 DEF IInv, Plans
    <3> QED BY <3>1, <3>2 DEF Agrees, LeasesAgree, WanOf
  <2>6. Named(setup.kind, conf) => Kept(setup.kind, conf, Hi, "resolv")
    BY <2>5 DEF Kept, Made, Done, NamedBy, Spare
  <2>7. ASSUME NEW o \in box' PROVE Kept(setup.kind, conf, Hi, o)
    <3> DEFINE b == DnsApplied(conf, box)
    <3>1. \A x : x \in b <=> x \in box \/ (x = "resolv" /\ Named(setup.kind, conf))
      BY DnsHas DEF kind
    <3>2. \A x : x \in b => Kept(setup.kind, conf, Hi, x)
      BY <2>4, <2>6, <3>1
    <3>3. (o \in b /\ o # "dns4") \/ (o = "dns4" /\ "default4" \in b /\ "resolv" \in b)
      <4> HIDE DEF b
      <4>1. o \in DnsRouted(b)
        BY <2>2 DEF b
      <4> QED BY <4>1, DnsRoutedHas
    <3> HIDE DEF b
    <3>4. CASE o \in b
      BY <3>2, <3>4
    <3>5. CASE o = "dns4" /\ "default4" \in b /\ "resolv" \in b
      <4>1. Kept(setup.kind, conf, Hi, "default4") /\ Kept(setup.kind, conf, Hi, "resolv")
        BY <3>2, <3>5
      <4> QED BY <2>5, <3>5, <4>1, FollowUps
    <3> QED BY <3>3, <3>4, <3>5
  <2>8. ASSUME NEW o \in box' PROVE Kept(setup.kind, conf, Hi', o)
    BY <2>3, <2>7
  <2> QED BY <2>2, <2>8 DEF Upper, Allowed
<1>2. ASSUME PdChanged PROVE Upper'
  <2> DEFINE b == WithoutIPv6(conf, box)
             d == IPv6Applied(conf, b)
  <2>1. Handler("pd", Routed(Handled, IPv6Applied(Handled, WithoutIPv6(Handled, box))))
    BY <1>2 DEF PdChanged
  <2>2. /\ stage = "idle" /\ conf # None /\ Has(waiting, "pd") /\ conf \in Given(setup)
        /\ conf' = conf /\ setup' = setup /\ stage' = stage /\ pd' = pd
        /\ box' = Routed(conf, d)
    BY <2>1, HandledIs
  <2>3. setup.kind # "pppoe" /\ conf.enabled
    BY <2>2 DEF IInv, Waits, Plans, Agrees, PrefixesAgree
  <2>4. pd => Hi'
    BY <2>2 DEF Hi
  <2>5. \A x : x \in b => Kept(setup.kind, conf, Hi', x)
    <3>1. \A x : x \in b => x \in box /\ ~Emptied6(conf, x)
      BY EmptiedHas
    <3>2. \A x \in box : Kept(setup.kind, conf, Hi, x)
      BY <2>2 DEF IInv, Upper, Allowed
    <3> HIDE DEF b
    <3> QED BY <3>1, <3>2, WithoutPrefix
  <2>6. \A x : x \in d => x \in b \/ SixBy(conf, pd, x)
    <3> HIDE DEF b
    <3> QED BY SixHas
  <2>7. \A x : SixBy(conf, pd, x) => Kept(setup.kind, conf, pd, x)
    BY <2>3 DEF Kept, Made, Done, AddressedBy
  <2>8. \A x : SixBy(conf, pd, x) => Kept(setup.kind, conf, Hi', x)
    BY <2>4, <2>7, KeptGrows
  <2> HIDE DEF b
  <2>9. \A x : x \in d => Kept(setup.kind, conf, Hi', x)
    BY <2>5, <2>6, <2>8
  <2>10. conf.ipv6 \/ (conf.delegate /\ "pdcache" \in d) => V6(setup.kind, conf, Hi')
    <3>1. \A h : Kept(setup.kind, conf, h, "pdcache") => setup.kind # "pppoe" /\ ~conf.dhcp6 /\ h
      BY DEF Kept, Made, Done, CreatedBy, PreparedBy, RaisedBy, AddressedBy, FourBy, SixBy,
        NamedBy, RoutedBy, RouteOf, MarkedBy, Spare, LanRules, WanRules, Leased
    <3>2. "pdcache" \in d => setup.kind # "pppoe" /\ ~conf.dhcp6 /\ Hi'
      BY <2>9, <3>1
    <3> QED BY <3>2 DEF V6
  <2> HIDE DEF d
  <2>11. ASSUME NEW o \in box' PROVE Kept(setup.kind, conf, Hi', o)
    <3>1. o \in d \/ RouteOf(setup.kind, conf, conf.ipv6 \/ (conf.delegate /\ "pdcache" \in d), o)
      BY <2>2, RoutedHas DEF kind
    <3>2. o \in d \/ RoutedBy(setup.kind, conf, Hi', o)
      BY <2>3, <2>10, <3>1 DEF RoutedBy, RouteOf
    <3>3. RoutedBy(setup.kind, conf, Hi', o) => Kept(setup.kind, conf, Hi', o)
      BY DEF Kept, Made, Done
    <3> QED BY <2>9, <3>2, <3>3
  <2> QED BY <2>2, <2>11 DEF Upper, Allowed
<1> QED BY <1>1, <1>2 DEF Handlers

\* Nothing comes into the box that should not be there.
LEMMA NextUpper == IInv /\ [Next]_vars => Upper'
<1> SUFFICES ASSUME IInv, [Next]_vars PROVE Upper'
  OBVIOUS
<1>1. CASE UNCHANGED vars
  <2>1. /\ conf' = conf /\ setup' = setup /\ stage' = stage /\ pd' = pd /\ box' = box
        /\ waiting' = waiting
    BY <1>1 DEF vars
  <2>2. Hi' <=> Hi
    BY <2>1 DEF Hi
  <2>3. ASSUME NEW o \in box PROVE Allowed(stage, setup, conf, Hi', o)
    BY <2>2 DEF IInv, Upper
  <2> QED BY <2>1, <2>3 DEF Upper
<1> QED BY <1>1, FlushUpper, TearDownUpper, ApplyUpper, EventUpper, HandlersUpper
      DEF Next, Loader

-----------------------------------------------------------------------------
(* Nothing is missing                                                      *)

\* Nothing is made before createInterface().
LEMMA FlushLower ==
  ASSUME IInv, (\E c \in setup.configs : Reapply(c)) \/ FlushFast \/ FlushIP \/ TearDown
  PROVE  Lower'
<1> USE DEF Leaving
<1>1. ASSUME NEW c \in setup.configs, Reapply(c) PROVE Lower'
  <2>1. stage' = Treatment(c) /\ (conf # None \/ c # None)
    BY <1>1 DEF Reapply
  <2>2. stage' \in {"fast", "keep", "flush"}
    BY <2>1, Treated DEF IInv
  <2> QED BY <2>2 DEF Lower
<1>2. ASSUME FlushFast \/ FlushIP PROVE Lower'
  BY <1>2 DEF FlushFast, FlushIP, Lower, Done
<1>3. ASSUME TearDown PROVE Lower'
  BY <1>3 DEF TearDown, Lower, Done
<1> QED BY <1>1, <1>2, <1>3

\* Each stage adds what it makes, and takes away nothing of the stages before.
LEMMA ApplyLower ==
  ASSUME IInv, Create \/ Prepare \/ Raise \/ ApplyIP \/ ApplyDns \/ Route \/ ApplyWan
  PROVE  Lower'
<1> USE DEF Leaving, Before, After
<1>0. /\ conf' = conf /\ setup' = setup /\ waiting' = waiting /\ pd' = pd /\ plugged' = plugged
      /\ plugged6' = plugged6 /\ (bare' = bare \/ (stage = "ip" /\ ~bare'))
      /\ stage \notin Leaving /\ conf # None /\ kind = setup.kind
  BY DEF IInv, Plans, Create, Prepare, Raise, ApplyIP, ApplyDns, Route, ApplyWan, Become, plan, jobs,
         kind
<1>1. Lo' <=> Lo
  BY <1>0 DEF Lo
<1>2. \A o : Done(stage, setup.kind, conf, Lo, o) => Excused(o) \/ o \in box
  BY <1>0 DEF IInv, Lower, Excused
<1> DEFINE spared(o) == \/ Spare(setup.kind, conf, o)
                        \/ plugged = "renew" /\ o = "dhclient"
                        \/ plugged6 = "renew" /\ o = "dhcpcd6"
                        \/ bare' /\ o \in {"local6", "default6"}
<1>3. SUFFICES ASSUME NEW o, Done(stage', setup.kind, conf, Lo, o), ~spared(o) PROVE o \in box'
  <2>1. \A o : Done(stage', setup.kind, conf, Lo, o) => spared(o) \/ o \in box'
    BY <1>3
  <2>2. \A o : Done(stage', setup.kind, conf, Lo', o) => Done(stage', setup.kind, conf, Lo, o)
    BY <1>1, DoneGrows
  <2> QED BY <1>0, <2>1, <2>2 DEF Lower, Excused
<1>4. Done(stage, setup.kind, conf, Lo, o) => o \in box
  <2>1. CASE stage # "ip"
    BY <1>0, <1>2, <1>3, <2>1 DEF Excused
  <2>2. CASE stage = "ip"
    <3>1. Done("ip", setup.kind, conf, Lo, o) => o \notin {"local6", "default6"}
      BY DEF Done, CreatedBy, PreparedBy, RaisedBy, WanRules, LanRules
    <3> QED BY <1>0, <1>2, <1>3, <2>2, <3>1 DEF Excused
  <2> QED BY <2>1, <2>2
<1>5. CASE Create
  <2>1. stage' = "env" /\ box' = Created(conf, box)
    BY <1>5 DEF Create, Become
  <2> QED BY <1>0, <1>3, <2>1, CreatedHas DEF Done
<1>6. CASE Prepare
  <2>1. stage = "env" /\ stage' = "updown" /\ box' = Prepared(conf, box)
    BY <1>6 DEF Prepare, Become
  <2>2. PreparedBy(setup.kind, conf, o) \/ (o \in box /\ CreatedBy(setup.kind, conf, o))
    BY <1>3, <1>4, <2>1 DEF Done
  <2> QED BY <1>0, <2>1, <2>2, PreparedHas DEF CreatedBy, InTables
<1>7. CASE Raise
  <2>1. stage = "updown"
    BY <1>7 DEF Raise, Become
  <2>2. CASE conf.enabled
    <3>1. stage' = "ip" /\ box' = Tuned(conf, UpDown(conf, box))
      BY <1>7, <2>2 DEF Raise, Become
    <3>2. \/ RaisedBy(setup.kind, conf, o)
          \/ o \in box /\ (CreatedBy(setup.kind, conf, o) \/ PreparedBy(setup.kind, conf, o))
      BY <1>3, <1>4, <2>1, <3>1 DEF Done
    <3>3. CreatedBy(setup.kind, conf, o) \/ PreparedBy(setup.kind, conf, o)
            => o \notin {"tuned", "bound"}
      BY DEF CreatedBy, PreparedBy, WanRules, LanRules
    <3> QED BY <1>0, <2>2, <3>1, <3>2, <3>3, RaisedHas
  <2>3. CASE ~conf.enabled
    <3>1. stage' = "idle" /\ box' = UpDown(conf, box)
      BY <1>7, <2>3 DEF Raise, Become
    <3>2. CreatedBy(setup.kind, conf, o)
      BY <1>3, <2>3 DEF Done, PreparedBy, RaisedBy, AddressedBy, NamedBy, RoutedBy, MarkedBy
    <3>3. o \in box
      BY <1>4, <2>1, <3>2 DEF Done
    <3>4. o \notin {"up", "pppd", "bound", "addr4", "addr6"} \cup Over4 \cup Over6
      BY <3>2 DEF CreatedBy, Over4, Over6
    <3> QED BY <2>3, <3>1, <3>3, <3>4, LoweredHas
  <2> QED BY <2>2, <2>3
<1>8. CASE ApplyIP
  <2>1. stage = "ip" /\ stage' = "dns" /\ box' = IPApplied(conf, box) /\ conf.enabled
    BY <1>8 DEF ApplyIP, Become, IInv, Plans
  <2>2. \/ AddressedBy(setup.kind, conf, Lo, o)
        \/ o \in box /\ \/ CreatedBy(setup.kind, conf, o) \/ PreparedBy(setup.kind, conf, o)
                        \/ RaisedBy(setup.kind, conf, o)
    BY <1>3, <1>4, <2>1 DEF Done
  <2>3. AddressedBy(setup.kind, conf, Lo, o) => AddressedBy(setup.kind, conf, pd, o)
    BY DEF AddressedBy, SixBy, Lo
  <2>4. CreatedBy(setup.kind, conf, o) \/ PreparedBy(setup.kind, conf, o)
          \/ RaisedBy(setup.kind, conf, o) => o \notin {"bound", "addr6", "ndppd"} \cup Over6
    BY DEF CreatedBy, PreparedBy, RaisedBy, WanRules, LanRules, Over6
  <2> QED BY <1>0, <2>1, <2>2, <2>3, <2>4, IPHas
<1>9. CASE ApplyDns
  <2>1. stage = "dns" /\ stage' = "routes" /\ box' = DnsApplied(conf, box)
    BY <1>9 DEF ApplyDns, Become
  <2>2. o \in box \/ NamedBy(setup.kind, conf, o)
    BY <1>3, <1>4, <2>1 DEF Done
  <2> QED BY <1>0, <2>1, <2>2, DnsHas DEF NamedBy
<1>10. CASE Route
  <2>1. stage = "routes" /\ stage' = "wan" /\ box' = Routed(conf, box) /\ conf.enabled
    BY <1>10 DEF Route, Become, IInv, Plans
  <2>2. o \in box \/ RoutedBy(setup.kind, conf, Lo, o)
    BY <1>3, <1>4, <2>1 DEF Done
  <2>3. V6(setup.kind, conf, Lo) => conf.ipv6 \/ (conf.delegate /\ "pdcache" \in box)
    <3>1. SUFFICES ASSUME conf.delegate, Lo, setup.kind # "pppoe", ~conf.dhcp6
                   PROVE  "pdcache" \in box
      BY DEF V6
    <3>2. Done(stage, setup.kind, conf, Lo, "pdcache")
      BY <2>1, <3>1 DEF Done, AddressedBy, SixBy
    <3> QED BY <1>2, <3>1, <3>2 DEF Excused, Spare, Leased
  <2>4. RoutedBy(setup.kind, conf, Lo, o) =>
          RouteOf(setup.kind, conf, conf.ipv6 \/ (conf.delegate /\ "pdcache" \in box), o)
    BY <2>3 DEF RoutedBy, RouteOf
  <2> QED BY <1>0, <2>1, <2>2, <2>4, RoutedHas
<1>11. CASE ApplyWan
  <2>1. stage = "wan" /\ stage' = "idle" /\ box' = WanApplied(conf, box)
    BY <1>11 DEF ApplyWan, Become
  <2>2. MarkedBy(setup.kind, conf, o) \/ (o \in box /\ Done("wan", setup.kind, conf, Lo, o))
    BY <1>3, <1>4, <2>1 DEF Done
  <2>3. CASE o \in box /\ Done("wan", setup.kind, conf, Lo, o)
    <3>1. o # "dns4"
      BY <2>3 DEF Done, CreatedBy, PreparedBy, RaisedBy, AddressedBy, FourBy, SixBy, NamedBy,
        RoutedBy, RouteOf, WanRules, LanRules
    <3> QED BY <1>0, <2>1, <2>3, <3>1, WanHas
  <2>4. CASE MarkedBy(setup.kind, conf, o)
    <3>1. WanOf(setup.kind, conf) /\ conf.enabled /\ ~Leasing(setup.kind, conf)
          /\ o \in {"dns4", "outmark"}
      BY <1>3, <2>4 DEF MarkedBy, Spare, Leased
    <3>2. CASE o = "dns4"
      <4>1. Gate(setup.kind, conf) /\ Named(setup.kind, conf)
        BY <2>4, <3>2 DEF MarkedBy
      <4>2. /\ Done(stage, setup.kind, conf, Lo, "default4")
            /\ Done(stage, setup.kind, conf, Lo, "resolv")
        BY <2>1, <3>1, <4>1 DEF Done, RoutedBy, RouteOf, NamedBy
      <4>3. "default4" \in box /\ "resolv" \in box
        BY <1>2, <3>1, <4>2 DEF Excused, Spare, Leased, Leasing
      <4> QED BY <1>0, <2>1, <3>1, <3>2, <4>3, WanHas
    <3>3. CASE o = "outmark"
      <4>1. Static4(setup.kind, conf)
        BY <2>4, <3>3 DEF MarkedBy
      <4>2. Done(stage, setup.kind, conf, Lo, "addr4")
        BY <2>1, <3>1, <4>1 DEF Done, AddressedBy, FourBy, Static4
      <4>3. "addr4" \in box
        BY <1>2, <3>1, <4>2 DEF Excused, Spare
      <4> QED BY <1>0, <2>1, <3>1, <3>3, <4>3, WanHas
    <3> QED BY <3>1, <3>2, <3>3
  <2> QED BY <2>2, <2>3, <2>4
<1> QED BY <1>5, <1>6, <1>7, <1>8, <1>9, <1>10, <1>11

\* The events take away nothing but what comes again.
LEMMA EventLower ==
  ASSUME IInv, \/ PlugIn \/ PluggedFlush \/ PluggedRenew \/ PluggedFlush6 \/ PluggedRenew6
               \/ Lease \/ PppoeIpv6Up \/ PdChange \/ MarkOutputConnection
  PROVE  Lower'
<1> USE DEF Leaving, Before, After
<1>0. conf' = conf /\ setup' = setup /\ stage' = stage /\ kind = setup.kind
  BY DEF PlugIn, PluggedFlush, PluggedRenew, PluggedFlush6, PluggedRenew6, Lease, PppoeIpv6Up,
         PdChange, MarkOutputConnection, plan, kind
<1> DEFINE gone(p, q, r, x) == \/ p = "renew" /\ x = "dhclient"
                               \/ q = "renew" /\ x = "dhcpcd6"
                               \/ r /\ x \in {"local6", "default6"}
<1>1. SUFFICES ASSUME conf # None, stage \notin Leaving,
                      NEW o, Done(stage, setup.kind, conf, Lo', o), ~Spare(setup.kind, conf, o)
               PROVE  o \in box' \/ gone(plugged', plugged6', bare', o)
  <2>1. conf # None /\ stage \notin Leaving =>
          \A o : Done(stage, setup.kind, conf, Lo', o) =>
                   Spare(setup.kind, conf, o) \/ o \in box' \/ gone(plugged', plugged6', bare', o)
    BY <1>1
  <2> QED BY <1>0, <2>1 DEF Lower, Excused
<1>2. \A x : Done(stage, setup.kind, conf, Lo, x) /\ ~Spare(setup.kind, conf, x) =>
               x \in box \/ gone(plugged, plugged6, bare, x)
  BY <1>1 DEF IInv, Lower, Excused
<1>3. ASSUME pd' = pd, Has(waiting', "pd") <=> Has(waiting, "pd")
      PROVE  o \in box \/ gone(plugged, plugged6, bare, o)
  <2>1. Lo' => Lo
    BY <1>3 DEF Lo
  <2>2. Done(stage, setup.kind, conf, Lo, o)
    BY <1>1, <2>1, DoneGrows
  <2> QED BY <1>1, <1>2, <2>2
<1>4. CASE PlugIn
  <2>1. /\ pd' = pd /\ waiting' = waiting /\ box' = box
        /\ plugged = "idle" /\ plugged6 = "idle" /\ bare' = bare
    BY <1>4 DEF PlugIn
  <2> QED BY <1>3, <2>1
<1>5. CASE PluggedFlush
  <2>1. /\ pd' = pd /\ waiting' = waiting /\ plugged = "flush" /\ plugged' = "renew"
        /\ plugged6' = plugged6 /\ bare' = bare /\ box' = WithoutIPv4(conf, box)
    BY <1>1, <1>5 DEF PluggedFlush
  <2>2. /\ conf.enabled /\ conf.dhcp /\ ~conf.ipv4 /\ ~Wg(setup.kind) /\ setup.kind # "pppoe"
    BY <1>1, <2>1 DEF IInv, Waits, Plans, Agrees, LeasesAgree, CablesAgree, Pluggable, Given, Wg
  <2>3. o \in box \/ gone(plugged', plugged6', bare', o)
    BY <1>3, <2>1
  <2>4. o \notin Leased
    BY <1>1, <2>2 DEF Spare, Leasing
  <2>5. Emptied4(conf, o) => o \in {"wan4", "lan4", "peer4", "dhclient"}
    BY <2>4 DEF Emptied4, Over4, Leased
  <2>6. o \notin {"wan4", "lan4", "peer4"}
    BY <1>1, <2>2 DEF Done, CreatedBy, PreparedBy, RaisedBy, AddressedBy, FourBy, SixBy, NamedBy,
      RoutedBy, RouteOf, MarkedBy, LanRules, WanRules
  <2> QED BY <2>1, <2>3, <2>5, <2>6, EmptiedHas
<1>6. CASE PluggedRenew
  <2>1. /\ pd' = pd /\ waiting' = waiting /\ box' = (box \ {"bound"}) \cup {"dhclient"}
        /\ plugged6' = plugged6 /\ bare' = bare
    BY <1>6 DEF PluggedRenew, Restarted
  <2>2. o \in box \/ o = "dhclient" \/ gone(plugged', plugged6', bare', o)
    BY <1>3, <2>1
  <2>3. o # "bound"
    BY <1>1 DEF Done, CreatedBy, PreparedBy, RaisedBy, AddressedBy, FourBy, SixBy, NamedBy,
      RoutedBy, RouteOf, MarkedBy, LanRules, WanRules
  <2> QED BY <2>1, <2>2, <2>3
<1>11. CASE PluggedFlush6
  <2>1. /\ pd' = pd /\ waiting' = waiting /\ plugged6 = "flush" /\ plugged6' = "renew" /\ bare'
        /\ plugged' = plugged /\ box' = WithoutIPv6(conf, box)
    BY <1>1, <1>11 DEF PluggedFlush6
  <2>2. conf.dhcp6 /\ ~conf.ipv6
    BY <1>1, <2>1 DEF IInv, Waits, Plans, Agrees, CablesAgree, Given
  <2>3. o \in box \/ gone(plugged', plugged6', bare', o)
    BY <1>3, <2>1
  <2>4. Emptied6(conf, o) => o \in {"addr6", "wan6", "lan6", "pdcache"} \/ gone(plugged', plugged6', bare', o)
    BY <2>1 DEF Emptied6, Over6
  <2>5. o \notin {"addr6", "wan6", "lan6", "pdcache"}
    BY <1>1, <2>2 DEF Done, CreatedBy, PreparedBy, RaisedBy, AddressedBy, FourBy, SixBy, NamedBy,
      RoutedBy, RouteOf, V6, MarkedBy, LanRules, WanRules
  <2> QED BY <2>1, <2>3, <2>4, <2>5, EmptiedHas
<1>12. CASE PluggedRenew6
  <2>1. /\ pd' = pd /\ waiting' = waiting /\ box' = box \cup {"dhcpcd6"}
        /\ plugged' = plugged /\ bare' = bare
    BY <1>12 DEF PluggedRenew6
  <2> QED BY <1>3, <2>1
<1>7. CASE Lease
  <2>1. /\ Client \in box /\ box \subseteq box' /\ pd' = pd
        /\ plugged' = plugged /\ plugged6' = plugged6 /\ bare' = bare
        /\ waiting' = waiting \/ waiting' = Append(waiting, [what |-> "ip", of |-> conf])
    BY <1>7 DEF Lease, cable
  <2>2. Has(waiting', "pd") <=> Has(waiting, "pd")
    <3> DEFINE T == [what : {"ip", "pd"}, of : Given(setup)]
               e == [what |-> "ip", of |-> conf]
    <3>1. waiting \in Seq(T) /\ e \in T /\ e.what = "ip"
      BY <1>1 DEF IInv, Waits, Plans, Given
    <3>2. waiting' = waiting \/ waiting' = Append(waiting, e)
      BY <2>1
    <3> HIDE DEF T, e
    <3>3. Has(Append(waiting, e), "pd") <=> Has(waiting, "pd") \/ e.what = "pd"
      BY <3>1, Queued
    <3>4. e.what # "pd"
      BY <3>1
    <3>5. CASE waiting' = waiting
      BY <3>5
    <3>6. CASE waiting' = Append(waiting, e)
      BY <3>3, <3>4, <3>6
    <3> QED BY <3>2, <3>5, <3>6
  <2> QED BY <1>3, <2>1, <2>2
<1>8. CASE PppoeIpv6Up
  <2>1. /\ conf.dhcp6 /\ box' = IPv6Applied(conf, box) /\ pd' = pd /\ waiting' = waiting
        /\ plugged' = plugged /\ plugged6' = plugged6 /\ bare' = bare
    BY <1>8 DEF PppoeIpv6Up, jobs
  <2>2. \A x \in box : x \in box'
    BY <2>1, SixHas DEF IPv6Enabled
  <2> QED BY <1>3, <2>1, <2>2
<1>9. CASE MarkOutputConnection
  <2>1. box' = Marked(box) /\ pd' = pd /\ waiting' = waiting
        /\ plugged' = plugged /\ plugged6' = plugged6 /\ bare' = bare
    BY <1>9 DEF MarkOutputConnection, cable
  <2>2. \A x \in box : x \in box'
    BY <2>1, MarkedHas
  <2> QED BY <1>3, <2>1, <2>2
<1>10. CASE PdChange
  <2>1. /\ box' = box /\ plugged' = plugged /\ plugged6' = plugged6 /\ bare' = bare
        /\ waiting' = IF /\ conf # None /\ conf.delegate /\ conf.enabled /\ stage \notin Before
                      THEN Append(waiting, [what |-> "pd", of |-> conf]) ELSE waiting
    BY <1>10 DEF PdChange, cable
  <2>2. Done(stage, setup.kind, conf, Lo, o)
    <3>1. CASE ~conf.delegate \/ ~conf.enabled
      BY <1>1, <3>1, DoneAnyway
    <3>2. CASE stage \in Before
      <4>1. \A p : Done(stage, setup.kind, conf, p, o) <=> Done(stage, setup.kind, conf, Lo, o)
        BY <3>2 DEF Done
      <4> QED BY <1>1, <4>1
    <3>3. CASE conf.delegate /\ conf.enabled /\ stage \notin Before
      <4> DEFINE T == [what : {"ip", "pd"}, of : Given(setup)]
                 e == [what |-> "pd", of |-> conf]
      <4>1. waiting \in Seq(T) /\ e \in T /\ e.what = "pd"
        BY <1>1 DEF IInv, Waits, Plans, Given
      <4>2. waiting' = Append(waiting, e)
        BY <1>1, <2>1, <3>3
      <4> HIDE DEF T, e
      <4>3. Has(waiting', "pd")
        BY <4>1, <4>2, Queued
      <4>4. Lo' => Lo
        BY <4>3 DEF Lo
      <4> QED BY <1>1, <4>4, DoneGrows
    <3> QED BY <3>1, <3>2, <3>3
  <2> QED BY <1>1, <1>2, <2>1, <2>2
<1> QED BY <1>4, <1>5, <1>6, <1>7, <1>8, <1>9, <1>10, <1>11, <1>12

\* The handlers make again what they take away.
LEMMA HandlersLower ==
  ASSUME IInv, Handlers
  PROVE  Lower'
<1> USE DEF Leaving
<1>1. ASSUME NEW x \in {"ip", "pd"}, NEW b, Handler(x, b)
      PROVE  /\ conf # None /\ setup' = setup /\ conf' = conf /\ stage = "idle" /\ stage' = "idle"
             /\ pd' = pd /\ Handled = conf /\ box' = b
             /\ Has(waiting, x) /\ (Has(waiting, "pd") <=> x = "pd" \/ Has(waiting', "pd"))
             /\ \A o : Made(setup.kind, conf, Lo, o) => Excused(o) \/ o \in box
             /\ (\A o : Made(setup.kind, conf, Lo', o) => Excused(o) \/ o \in b) => Lower'
  <2>1. /\ conf # None /\ setup' = setup /\ conf' = conf /\ stage = "idle" /\ stage' = "idle"
        /\ plugged' = plugged /\ plugged6' = plugged6 /\ bare' = bare
        /\ pd' = pd /\ Handled = conf /\ box' = b
        /\ Has(waiting, x) /\ (Has(waiting, "pd") <=> x = "pd" \/ Has(waiting', "pd"))
    BY <1>1, HandledIs
  <2>2. \A o : Made(setup.kind, conf, Lo, o) => Excused(o) \/ o \in box
    BY <2>1 DEF IInv, Lower, Made, Excused
  <2>3. (\A o : Made(setup.kind, conf, Lo', o) => Excused(o) \/ o \in b) => Lower'
    BY <2>1 DEF Lower, Made, Excused
  <2> QED BY <2>1, <2>2, <2>3
<1>2. ASSUME IpChanged PROVE Lower'
  <2> DEFINE b == DnsApplied(conf, box)
  <2>1. Handler("ip", DnsRouted(DnsApplied(Handled, box)))
    BY <1>2 DEF IpChanged
  <2>2. /\ pd' = pd /\ (Has(waiting, "pd") <=> Has(waiting', "pd")) /\ Handled = conf
        /\ conf # None
        /\ \A o : Made(setup.kind, conf, Lo, o) => Excused(o) \/ o \in box
    BY <1>1, <2>1
  <2>3. \A o : o \in box => o \in b
    BY DnsHas
  <2> HIDE DEF b
  <2>4. (\A o : Made(setup.kind, conf, Lo', o) => Excused(o) \/ o \in DnsRouted(b)) => Lower'
    <3>1. Handler("ip", DnsRouted(b))
      BY <2>1, <2>2 DEF b
    <3> QED BY <1>1, <3>1
  <2>5. ASSUME NEW o, Made(setup.kind, conf, Lo', o), ~Excused(o) PROVE o \in DnsRouted(b)
    <3>1. Lo' => Lo
      BY <2>2 DEF Lo
    <3>2. Made(setup.kind, conf, Lo, o)
      BY <2>5, <3>1, DoneGrows DEF Made
    <3>3. o \in b
      BY <2>2, <2>3, <2>5, <3>2
    <3>4. CASE o = "dns4"
      <4>1. MarkedBy(setup.kind, conf, o)
        BY <3>2, <3>4 DEF Made, Done, CreatedBy, PreparedBy, RaisedBy, AddressedBy, FourBy, SixBy,
          NamedBy, RoutedBy, RouteOf, LanRules, WanRules
      <4>2. conf.enabled /\ Gate(setup.kind, conf) /\ Named(setup.kind, conf)
        BY <3>4, <4>1 DEF MarkedBy
      <4>3. ~Leasing(setup.kind, conf)
        BY <2>5, <3>4 DEF Excused, Spare, Leased
      <4>4. /\ Made(setup.kind, conf, Lo, "default4") /\ ~Excused("default4")
            /\ Made(setup.kind, conf, Lo, "resolv") /\ ~Excused("resolv")
        BY <4>2, <4>3 DEF Made, Done, RoutedBy, RouteOf, NamedBy, Excused, Spare
      <4>5. "default4" \in b /\ "resolv" \in b
        BY <2>2, <2>3, <4>4
      <4> QED BY <3>4, <4>5, DnsRoutedHas
    <3> QED BY <3>3, <3>4, DnsRoutedHas
  <2> QED BY <2>4, <2>5
<1>3. ASSUME PdChanged PROVE Lower'
  <2> DEFINE b == WithoutIPv6(conf, box)
             d == IPv6Applied(conf, b)
  <2>1. Handler("pd", Routed(Handled, IPv6Applied(Handled, WithoutIPv6(Handled, box))))
    BY <1>3 DEF PdChanged
  <2>2. /\ pd' = pd /\ Has(waiting, "pd") /\ Handled = conf /\ conf # None
        /\ \A o : Made(setup.kind, conf, Lo, o) => Excused(o) \/ o \in box
    BY <1>1, <2>1
  <2>3. (\A o : Made(setup.kind, conf, Lo', o) => Excused(o) \/ o \in Routed(conf, d)) => Lower'
    <3>1. Handler("pd", Routed(conf, d))
      BY <2>1, <2>2
    <3> HIDE DEF d
    <3> QED BY <1>1, <3>1
  <2>4. setup.kind # "pppoe" /\ conf.enabled
    BY <2>2 DEF IInv, Waits, Plans, Agrees, PrefixesAgree, Given
  <2>5. \A x : x \in b <=> x \in box /\ ~Emptied6(conf, x)
    BY EmptiedHas
  <2> HIDE DEF b
  <2>6. \A x : SixBy(conf, pd, x) => x \in d
    BY SixHas
  <2>7. \A x : x \in box /\ ~Emptied6(conf, x) /\ x # "ndppd" => x \in d
    BY <2>5, SixHas DEF Emptied6
  <2> HIDE DEF d
  <2>8. V6(setup.kind, conf, Lo') => conf.ipv6 \/ (conf.delegate /\ "pdcache" \in d)
    <3>1. conf.delegate /\ Lo' /\ ~conf.dhcp6 => SixBy(conf, pd, "pdcache")
      BY <2>2 DEF SixBy, Lo
    <3> QED BY <2>6, <3>1 DEF V6
  <2>9. ASSUME NEW o, Made(setup.kind, conf, Lo', o), ~Excused(o) PROVE o \in Routed(conf, d)
    <3>1. CASE SixBy(conf, Lo', o)
      <4>1. SixBy(conf, pd, o)
        BY <2>2, <3>1 DEF SixBy, Lo
      <4> QED BY <2>2, <2>6, <4>1, RoutedHas
    <3>2. CASE RouteOf(setup.kind, conf, V6(setup.kind, conf, Lo'), o)
      <4>1. RouteOf(setup.kind, conf, conf.ipv6 \/ (conf.delegate /\ "pdcache" \in d), o)
        BY <2>8, <3>2 DEF RouteOf
      <4> QED BY <2>2, <4>1, RoutedHas DEF kind
    <3>3. CASE \/ CreatedBy(setup.kind, conf, o) \/ PreparedBy(setup.kind, conf, o)
               \/ RaisedBy(setup.kind, conf, o) \/ FourBy(conf, o) \/ NamedBy(setup.kind, conf, o)
               \/ MarkedBy(setup.kind, conf, o)
      <4>1. o # "ndppd" /\ ~Emptied6(conf, o)
        BY <3>3 DEF CreatedBy, PreparedBy, RaisedBy, FourBy, NamedBy, MarkedBy, LanRules, WanRules,
          Emptied6, Over6
      <4>2. Made(setup.kind, conf, Lo, o)
        BY <2>4, <3>3 DEF Made, Done, AddressedBy
      <4>3. o \in d
        BY <2>2, <2>7, <2>9, <4>1, <4>2
      <4> QED BY <2>2, <4>3, RoutedHas
    <3> QED BY <2>9, <3>1, <3>2, <3>3 DEF Made, Done, AddressedBy, RoutedBy
  <2> QED BY <2>3, <2>9
<1> QED BY <1>2, <1>3 DEF Handlers

\* Everything that was made is there.
LEMMA NextLower == IInv /\ [Next]_vars => Lower'
<1> SUFFICES ASSUME IInv, [Next]_vars PROVE Lower'
  OBVIOUS
<1>1. CASE UNCHANGED vars
  <2>1. /\ conf' = conf /\ setup' = setup /\ stage' = stage /\ pd' = pd /\ box' = box
        /\ waiting' = waiting /\ plugged' = plugged /\ plugged6' = plugged6 /\ bare' = bare
    BY <1>1 DEF vars, cable
  <2>2. Lo' => Lo
    BY <2>1 DEF Lo
  <2>3. \A o : Done(stage, setup.kind, conf, Lo', o) => Done(stage, setup.kind, conf, Lo, o)
    BY <2>2, DoneGrows
  <2> QED BY <2>1, <2>3 DEF IInv, Lower, Excused
<1> QED BY <1>1, FlushLower, ApplyLower, EventLower, HandlersLower DEF Next, Loader

-----------------------------------------------------------------------------
(* The invariant, and what follows from it                                 *)

\* It holds of an interface that is not there yet.
LEMMA InitInv ==
  ASSUME Agreement
  PROVE  Init => IInv
<1> SUFFICES ASSUME Init PROVE IInv
  OBVIOUS
<1>1. Plans
  BY DEF Init, Plans, Agreement
<1>2. Waits
  BY DEF Init, Waits, Has
<1>3. Links
  BY DEF Init, Links
<1>4. Upper
  BY DEF Init, Upper
<1>5. Lower
  BY DEF Init, Lower
<1> QED BY <1>1, <1>2, <1>3, <1>4, <1>5 DEF IInv

\* Every step keeps it.
LEMMA NextInv == IInv /\ [Next]_vars => IInv'
BY NextPlans, NextWaits, NextLinks, NextUpper, NextLower DEF IInv

\* What may be there or not, of an interface that exists.
LEMMA OptionalIs ==
  ASSUME conf # None, NEW o
  PROVE  o \in Optional <=>
           \/ Spare(setup.kind, conf, o)
           \/ Uplink /\ conf.dhcp6 /\ bare /\ o \in {"local6", "default6"}
<1>1. IsWAN(conf) <=> WanOf(setup.kind, conf)
  BY Roles DEF kind
<1>2. Uplink <=> conf.enabled /\ WanOf(setup.kind, conf)
  BY <1>1 DEF Uplink
<1>3. Uplink /\ (conf.dhcp \/ setup.kind = "pppoe") <=> Leasing(setup.kind, conf)
  BY <1>2 DEF Leasing, WanOf
<1> QED BY <1>2, <1>3 DEF Optional, Spare, kind

\* Once everything is done, the box holds of the interface what a new box would.
LEMMA AtRestSame == IInv => NothingLeft
<1> SUFFICES ASSUME IInv, AtRest PROVE SameAsNew
  BY DEF NothingLeft
<1>1. stage = "idle" /\ waiting = <<>> /\ plugged = "idle" /\ plugged6 = "idle"
  BY DEF AtRest
<1>2. (Hi <=> pd) /\ (Lo <=> pd)
  BY <1>1 DEF Hi, Lo, Has, After, Before
<1>3. link = IF conf = None THEN None ELSE Linked(conf, None)
  <2>1. link = IF conf = None THEN None ELSE LinkOf(setup.kind, conf)
    BY <1>1 DEF IInv, Links
  <2>2. Linked(conf, None) = LinkOf(setup.kind, conf)
    BY DEF Linked, LinkOf, kind, Wg, WireGuard
  <2> QED BY <2>1, <2>2
<1>4. CASE conf = None
  <2>1. Clean(conf) = {}
    BY <1>4 DEF Clean
  <2>2. \A o \in box : o \in Scraps
    BY <1>1, <1>4 DEF IInv, Upper, Allowed
  <2>3. Scraps \subseteq Optional
    BY <1>4 DEF Scraps, Optional, Uplink
  <2> QED BY <1>3, <2>1, <2>2, <2>3 DEF SameAsNew
<1>5. CASE conf # None
  <2>1. ASSUME NEW o \in box PROVE o \in Clean(conf) \/ o \in Optional
    <3>1. Kept(setup.kind, conf, Hi, o)
      BY <1>1, <1>5 DEF IInv, Upper, Allowed
    <3>2. Kept(setup.kind, conf, pd, o)
      BY <1>2, <3>1, KeptGrows
    <3> QED BY <1>5, <3>2, CleanHas, OptionalIs DEF Kept, kind
  <2>2. ASSUME NEW o \in Clean(conf) PROVE o \in box \/ o \in Optional
    <3>1. Made(setup.kind, conf, pd, o)
      BY <1>5, CleanHas DEF kind
    <3>2. Done("idle", setup.kind, conf, Lo, o)
      BY <1>2, <3>1, DoneGrows DEF Made
    <3>3. Excused(o) \/ o \in box
      BY <1>1, <1>5, <3>2 DEF IInv, Lower, Leaving
    <3>4. bare => Uplink /\ conf.dhcp6
      BY <1>5, Roles DEF IInv, Waits, Plans, Agrees, LeasesAgree, CablesAgree, Pluggable, Given, Uplink,
        WanOf, kind
    <3> QED BY <1>1, <1>5, <3>3, <3>4, OptionalIs DEF Excused
  <2>3. box \ Optional = Clean(conf) \ Optional
    BY <2>1, <2>2
  <2> QED BY <1>3, <2>3 DEF SameAsNew
<1> QED BY <1>4, <1>5

\* Whatever configurations came before and whatever happened meanwhile: once
\* everything is done, the box holds of the interface exactly what a box that
\* starts with this configuration would (flush() and apply()), for interfaces of
\* any kind whose configurations agree, any number of changes and events.
THEOREM NothingLeftAlways ==
  ASSUME Agreement
  PROVE  Spec => []NothingLeft
<1>1. Init => IInv
  BY InitInv
<1>2. IInv /\ [Next]_vars => IInv'
  BY NextInv
<1>3. IInv => NothingLeft
  BY AtRestSame
<1> QED BY <1>1, <1>2, <1>3, PTL DEF Spec

=============================================================================
