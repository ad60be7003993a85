-------------------------- MODULE PrefixDelegation --------------------------
(***************************************************************************)
(* How the LANs of the box share the IPv6 prefix that is delegated to an   *)
(* uplink: applyIpv6Settings(), reapplyIpv6Settings(), _findSubPrefix()    *)
(* and _calculateSubPrefix() of plugins/interface/intf_base_plugin.js,     *)
(* the hook of the DHCPv6 client that records the prefix, and the part of  *)
(* the plugin loader that applies several LANs at the same time.           *)
(*                                                                         *)
(* A sub-prefix is the number of a /64 network, a prefix a range of them.  *)
(* The files of the cache directory, one for each LAN, say which numbers   *)
(* are taken.                                                              *)
(***************************************************************************)
EXTENDS Naturals, Sequences, FiniteSets, FiniteSetsExt

CONSTANTS
  Order,    \* the LANs, in the order in which they were set up first
  Delegations,
            \* what is looked at: start (the number of LANs that are there and
            \* have their sub-prefix), delegated (sequences of prefixes that
            \* the client may obtain; the first one is there at the start),
            \* bridges (a bridge may be applied without having been flushed),
            \* changes, batch and hooks (bounds on reapplies, on the LANs of
            \* a reapply and on new prefixes)
  Nothing   \* no sub-prefix, nobody

Lans == {Order[i] : i \in DOMAIN Order}

ASSUME DelegationAssumption ==
  \A s \in Delegations :
    /\ s.start \in 0 .. Len(Order) /\ s.bridges \subseteq Lans
    /\ s.changes \in Nat /\ s.batch \in Nat /\ s.hooks \in Nat
    /\ s.delegated \subseteq Seq([base : Nat, bits : 0 .. 30])

ASSUME OrderAssumption == Order \in Seq(Lans) /\ Nothing \notin Lans

VARIABLES
  delegation, \* what is looked at
  pdfile,   \* the prefixes in the file delegated_prefix of the uplink
  lans,     \* the LANs that are configured
  former,   \* those that were removed; they do not come back
  pc,       \* what each of them is about to do
  cache,    \* its file in the cache directory
  addr,     \* the sub-prefixes it has an address of
  route,    \* the sub-prefixes that are routed to it
  subs,     \* the LANs that follow the uplink
  read,     \* the prefixes a LAN has read from the file
  picked,   \* the sub-prefix it has found
  calc,     \* who holds LOCK_PD_CALC
  holder,   \* who holds the apply lock: none, reapply, event
  pending,  \* the LANs whose handler of EVENT_PD_CHANGE waits for it
  unheard,  \* history: the LANs that were not told when the file was emptied
  seen      \* reapplies and new prefixes so far

pdVars == <<delegation, pdfile, lans, former, pc, cache, addr, route, subs, read, picked,
            calc, holder, pending, unheard, seen>>
network == <<delegation, pdfile, lans, former>>
settings == <<cache, addr, route>>
search == <<read, picked, calc>>
news == <<pending, unheard>>

-----------------------------------------------------------------------------
(* Sub-prefixes                                                            *)

Size(p) == 2 ^ p.bits
Range64(p) == p.base .. p.base + Size(p) - 1

\* the number is written in decimal where the four hexadecimal digits of a group
\* are read (the first of them for all that remains, at ten thousand LANs)
Digit(n, weight) == (n \div weight) % 10
Hex(n) ==
  4096 * (n \div 1000) + 256 * Digit(n, 100) + 16 * Digit(n, 10) + Digit(n, 1)

SubPrefix(p, id) == p.base + Hex(id)

\* _findSubPrefix(): the one it has, if it is still good, else the first that is
\* free in the first prefix that has one
Found(l, prefixes) ==
  LET good == UNION {Range64(prefixes[i]) : i \in DOMAIN prefixes}
      taken == {cache[m] : m \in Lans}
      free(i) == {id \in 0 .. Size(prefixes[i]) - 1 :
                    SubPrefix(prefixes[i], id) \notin taken}
      roomy == {i \in DOMAIN prefixes : free(i) # {}}
  IN  IF prefixes # <<>> /\ cache[l] \in good THEN cache[l]
      ELSE IF roomy = {} THEN Nothing
      ELSE SubPrefix(prefixes[Min(roomy)], Min(free(Min(roomy))))

-----------------------------------------------------------------------------
(* The DHCPv6 client and the plugin loader                                 *)

PdInit ==
  /\ delegation \in Delegations
  /\ pdfile \in delegation.delegated /\ pdfile # <<>>
  /\ lans = {Order[i] : i \in 1 .. delegation.start}
  /\ former = {}
  /\ pc = [l \in Lans |-> "idle"]
  /\ cache = [l \in Lans |-> IF l \in lans
                THEN SubPrefix(pdfile[1], (CHOOSE i \in DOMAIN Order : Order[i] = l) - 1)
                ELSE Nothing]
  /\ addr = [l \in Lans |-> {cache[l]} \ {Nothing}]
  /\ route = addr
  /\ subs = lans
  /\ read = [l \in Lans |-> <<>>] /\ picked = [l \in Lans |-> Nothing]
  /\ calc = Nothing /\ holder = "none" /\ pending = {} /\ unheard = {}
  /\ seen = [config |-> 0, pd |-> 0]

\* firerouter_dhcpcd_record_pd: the file is replaced
RecordPd(prefixes) ==
  /\ seen.pd < delegation.hooks /\ seen' = [seen EXCEPT !.pd = @ + 1]
  /\ pdfile' = prefixes
  /\ UNCHANGED <<delegation, lans, former, pc, settings, subs, search, holder>>

\* then the change is published, to those who follow the uplink
Publish == pending' = pending \cup subs /\ UNCHANGED unheard

\* BOUND6, REBOOT6: only prefixes count as a change, to have none does not
BindPd(prefixes) ==
  /\ RecordPd(prefixes)
  /\ IF prefixes # <<>> THEN Publish
     ELSE /\ unheard' = IF pdfile # <<>> THEN unheard \cup subs ELSE unheard
          /\ UNCHANGED pending

\* RENEW6, REBIND6: the old prefixes are those that were recorded
RenewPd(prefixes) ==
  /\ RecordPd(prefixes)
  /\ IF prefixes # pdfile THEN Publish ELSE UNCHANGED news

\* a new configuration: the LANs in gone are removed, those in changed are
\* flushed, also new ones; bridges in kept are applied as they are
ReapplyLans(gone, changed, kept) ==
  /\ holder = "none" /\ holder' = "reapply"
  /\ seen.config < delegation.changes /\ seen' = [seen EXCEPT !.config = @ + 1]
  /\ gone \subseteq lans /\ kept \subseteq delegation.bridges
  /\ (changed \cup kept) \cap former = {}
  /\ lans' = (lans \ gone) \cup changed \cup kept
  /\ former' = former \cup gone
  /\ pc' = [l \in Lans |-> IF l \in gone \cup changed THEN "flush"
                           ELSE IF l \in kept THEN "apply" ELSE "idle"]
  /\ subs' = subs \ (gone \cup changed \cup kept)
  /\ UNCHANGED <<delegation, pdfile, settings, search, news>>

\* flushIP(6)
WithoutSubPrefix(l) ==
  /\ cache' = [cache EXCEPT ![l] = Nothing]
  /\ addr' = [addr EXCEPT ![l] = {}]
  /\ route' = [route EXCEPT ![l] = {}]
  /\ unheard' = unheard \ {l}

Flush(l) ==
  /\ pc[l] = "flush"
  /\ pc' = [pc EXCEPT ![l] = IF l \in lans THEN "apply" ELSE "idle"]
  /\ WithoutSubPrefix(l)
  /\ UNCHANGED <<network, subs, search, holder, pending, seen>>

\* Changed: the LAN does not follow the uplink again
NotFollowed(l) ==
  /\ pc[l] = "apply" /\ \A m \in Lans : pc[m] # "flush"
  /\ pc' = [pc EXCEPT ![l] = "calc"]
  /\ UNCHANGED <<network, settings, subs, search, holder, news, seen>>

\* every instance is flushed before the first one is applied
Subscribe(l) ==
  /\ pc[l] = "apply" /\ \A m \in Lans : pc[m] # "flush"
  /\ pc' = [pc EXCEPT ![l] = "calc"]
  /\ subs' = subs \cup {l}
  /\ UNCHANGED <<network, settings, search, holder, news, seen>>

\* Changed: LOCK_PD_CALC is not taken
EnterUnlocked(l) ==
  /\ pc[l] = "calc"
  /\ pc' = [pc EXCEPT ![l] = "pick"]
  /\ read' = [read EXCEPT ![l] = pdfile]
  /\ UNCHANGED <<network, settings, subs, picked, calc, holder, news, seen>>

\* LOCK_PD_CALC, and the file
Enter(l) ==
  /\ pc[l] = "calc" /\ calc = Nothing /\ calc' = l
  /\ pc' = [pc EXCEPT ![l] = "pick"]
  /\ read' = [read EXCEPT ![l] = pdfile]
  /\ UNCHANGED <<network, settings, subs, picked, holder, news, seen>>

Pick(l) ==
  /\ pc[l] = "pick"
  /\ pc' = [pc EXCEPT ![l] = "assign"]
  /\ picked' = [picked EXCEPT ![l] = Found(l, read[l])]
  /\ UNCHANGED <<network, settings, subs, read, calc, holder, news, seen>>

Assign(l) ==
  /\ pc[l] = "assign" /\ calc' = Nothing
  /\ pc' = [pc EXCEPT ![l] = "route"]
  /\ IF picked[l] = Nothing THEN UNCHANGED <<cache, addr>>
     ELSE /\ cache' = [cache EXCEPT ![l] = picked[l]]
          /\ addr' = [addr EXCEPT ![l] = @ \cup {picked[l]}]
  /\ read' = [read EXCEPT ![l] = <<>>] /\ picked' = [picked EXCEPT ![l] = Nothing]
  /\ UNCHANGED <<network, route, subs, holder, news, seen>>

\* changeRoutingTables()
RouteLan(l) ==
  /\ pc[l] = "route"
  /\ pc' = [pc EXCEPT ![l] = "idle"]
  /\ route' = [route EXCEPT ![l] = @ \cup ({cache[l]} \ {Nothing})]
  /\ UNCHANGED <<network, cache, addr, subs, search, holder, news, seen>>

Unlock ==
  /\ holder # "none" /\ holder' = "none"
  /\ \A l \in Lans : pc[l] = "idle"
  /\ UNCHANGED <<network, pc, settings, subs, search, news, seen>>

\* EVENT_PD_CHANGE: reapplyIpv6Settings() has the lock
Renumber(l) ==
  /\ holder = "none" /\ holder' = "event"
  /\ l \in pending /\ pending' = pending \ {l}
  /\ pc' = [pc EXCEPT ![l] = "apply"]
  /\ WithoutSubPrefix(l)
  /\ UNCHANGED <<network, subs, search, seen>>

Step(l) == Flush(l) \/ Subscribe(l) \/ Enter(l) \/ Pick(l) \/ Assign(l) \/ RouteLan(l)

PdNext ==
  \/ \E p \in delegation.delegated : BindPd(p) \/ RenewPd(p)
  \/ \E some \in UNION {kSubset(n, Lans) : n \in 1 .. delegation.batch} :
       \E gone, changed \in SUBSET some :
         gone \cap changed = {} /\ ReapplyLans(gone, changed, some \ (gone \cup changed))
  \/ \E l \in Lans : Step(l) \/ Renumber(l)
  \/ Unlock

\* Commands end, and the apply lock is passed on.
PdSpec == /\ PdInit /\ [][PdNext]_pdVars
          /\ \A l \in Lans : WF_pdVars(Step(l)) /\ WF_pdVars(Renumber(l))
          /\ WF_pdVars(Unlock)

-----------------------------------------------------------------------------
(* Properties                                                              *)

\* The type of every variable.
PdTypeOK ==
  /\ delegation \in Delegations /\ pdfile \in delegation.delegated
  /\ lans \subseteq Lans /\ former \subseteq Lans \ lans /\ subs \subseteq Lans
  /\ pending \subseteq Lans /\ unheard \subseteq Lans
  /\ \A l \in Lans :
       /\ pc[l] \in {"idle", "flush", "apply", "calc", "pick", "assign", "route"}
       /\ cache[l] \in Nat \cup {Nothing} /\ picked[l] \in Nat \cup {Nothing}
       /\ addr[l] \subseteq Nat /\ route[l] \subseteq Nat
       /\ read[l] \in delegation.delegated \cup {<<>>}
  /\ calc \in Lans \cup {Nothing} /\ holder \in {"none", "reapply", "event"}

\* No sub-prefix is ever assigned to two LANs, and none is on two of them or
\* routed to two of them, except one that a bridge should have been flushed of
\* (LOCK_PD_CALC and the cache directory in applyIpv6Settings(), _findSubPrefix()).
NoneShared ==
  \A l, m \in Lans : l # m =>
    /\ cache[l] # cache[m] \/ cache[l] = Nothing
    /\ {l, m} \cap delegation.bridges = {} =>
         addr[l] \cap addr[m] = {} /\ route[l] \cap route[m] = {}

\* Every LAN ends up with a routed sub-prefix of a prefix that is delegated now,
\* even if the prefix changes while the LAN is being set up (EVENT_PD_CHANGE
\* and the order of subscribeChangeFrom() and reading in applyIpv6Settings()),
\* and with no other, except a bridge that was applied without a flush.  When no
\* prefix is delegated it has none, if it was told.
Renumbered ==
  <>[](\A l \in lans :
         IF pdfile = <<>> THEN l \in delegation.bridges \cup unheard \/ addr[l] = {}
         ELSE /\ cache[l] \in UNION {Range64(pdfile[i]) : i \in DOMAIN pdfile}
              /\ cache[l] \in addr[l] \cap route[l]
              /\ l \in delegation.bridges \/ addr[l] \cup route[l] = {cache[l]})

\* "Sub id is too large to accomodate in sub prefix": a sub-prefix that is handed
\* out belongs to one of the prefixes that were delegated (_calculateSubPrefix()).
InsidePrefix ==
  \A l \in Lans : addr[l] \subseteq
    UNION {UNION {Range64(d[i]) : i \in DOMAIN d} : d \in delegation.delegated}

\* Where that holds: the LANs are different ones, at most ten, or a prefix has room
\* for ten at most; and the first ones have their sub-prefixes in the first prefix.
\* Up to ten a number and its decimal digits are the same.
Fits ==
  /\ \A i, j \in DOMAIN Order : Order[i] = Order[j] => i = j
  /\ \A s \in Delegations : \A d \in s.delegated :
       /\ d # <<>> => s.start <= Size(d[1])
       /\ \A i \in DOMAIN d : Len(Order) <= 10 \/ Size(d[i]) <= 10
=============================================================================
