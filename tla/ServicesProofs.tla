---------------------------- MODULE ServicesProofs ----------------------------
(***************************************************************************)
(* Proofs about Services, for any plugin, instances, configurations and    *)
(* events. Whenever the loader rests, the daemons run with the files that  *)
(* are there, or will be restarted; and what is in the box belongs to an   *)
(* instance that is configured, once. The first rests on IInv, the second  *)
(* on IInv and LeftInv: an instance that is not being applied and follows  *)
(* nobody has nothing that apply() would add once more.                    *)
(***************************************************************************)
EXTENDS Services, TLAPS

\* DNS removes its file from an interface that is not present, and does not
\* restart the daemon; its interface does not vanish.
DnsPresent == \A s \in Setups : s.kind = "dns" => "plug" \notin s.moves
DnsVanishes == kind = "dns" /\ "plug" \in setup.moves

\* plugins that have no daemon, or no file of it
Bare == {"nat", "icmp", "pass", "default"}

HasFile(i, b) == \E o \in b : o[1] = "conf" /\ o[2] = i

Interfaces == [Inst -> [on : BOOLEAN, up : BOOLEAN, ip : Address]]

Rows ==
  /\ setup \in Setups /\ phase \in {"idle", "remove", "flush", "apply"}
  /\ intf \in Interfaces /\ next.on \in [Inst -> BOOLEAN]
  /\ conf = [i \in Inst |-> conf[i]] /\ subs = [i \in Inst |-> subs[i]]
  /\ view = [i \in Inst |-> view[i]] /\ script = [i \in Inst |-> script[i]]

\* what is applied was read while classes were applied, and the interface is still
\* enabled or disabled as it was
Viewed ==
  /\ phase = "apply" => todo \subseteq There(conf)
  /\ \A i \in Inst : view[i] # None =>
       /\ phase = "apply" /\ i \in todo \cap need
       /\ view[i].on = intf[i].on /\ view[i].on \in BOOLEAN
       /\ view[i].up \in BOOLEAN /\ view[i].ip \in Address
       /\ kind = "dns" => "intf" \in subs[i]
       /\ kind = "dns" /\ ~DnsVanishes => view[i].up = TRUE

\* whoever has a file of DNS has an enabled interface, or is about to lose it
DnsFiles ==
  kind = "dns" /\ ~DnsVanishes => \A i \in Inst : intf[i].up = TRUE /\ (HasFile(i, box) =>
    /\ "intf" \in subs[i] /\ conf[i] # None /\ intf[i].on = TRUE
    /\ phase = "remove" => /\ i \in todo \/ next.conf[i] # None
                           /\ next.on[i] # TRUE => i \in need
    /\ phase = "flush" => /\ next.conf[i] # None
                          /\ next.on[i] # TRUE => i \in need \cap todo)

SshdFiles == kind = "sshd" => Files(box) \subseteq {"conf"} \X Inst \X Address

\* the last of the scripts, unless they overlap, has the files of now
Reloads ==
  \/ <<None, "script">> \in lost
  \/ /\ (\A i \in Inst : script[i] = None) => daemon = Files(box)
     /\ \A i \in Inst :
          script[i] # None /\ (\A j \in Inst \ {i} : script[j] = None)
            => script[i] = Files(box)

Runs ==
  /\ kind \in Later \cup AtOnce /\ ~DnsVanishes =>
       (kind \in Later /\ timer = TRUE) \/ daemon = Files(box)
  /\ kind \in Bare => daemon = {} /\ Files(box) = {}
  /\ kind = "sshd" => Reloads

\* a phase waits for the scripts
Scripts == kind # "sshd" \/ phase = "idle" => \A i \in Inst : script[i] = None

IInv == Rows /\ Viewed /\ DnsFiles /\ SshdFiles /\ Runs /\ Scripts

-----------------------------------------------------------------------------
(* flush() and apply()                                                     *)

\* flush() only takes away.
LEMMA FlushedWithin ==
  ASSUME NEW i, NEW b, kind \in Kinds
  PROVE  Flushed(i, b) \subseteq b
<1>1. CASE kind \in {"dns", "default"}
  BY <1>1 DEF Flushed, DnsFlushed, Without, Own
<1>2. CASE kind \in {"dhcp", "mdns"}
  BY <1>2 DEF Flushed, DhcpFlushed, MdnsFlushed, Without, Own
<1>3. CASE kind \in {"sshd", "icmp"}
  BY <1>3 DEF Flushed, SshdFlushed, IcmpFlushed, Without, Own
<1>4. CASE kind \in {"upnp", "mroute"}
  BY <1>4 DEF Flushed, UpnpFlushed, MrouteFlushed, Without, Own
<1>5. CASE kind \in {"igmp", "docker", "pass"}
  BY <1>5 DEF Flushed, IgmpFlushed, DockerFlushed, PassFlushed
<1>6. CASE kind = "nat"
  <2>1. Flushed(i, b) = NatFlushed(i, b)
    BY <1>6 DEF Flushed
  <2>2. NatFlushed(i, b) \subseteq b
    BY DEF NatFlushed
  <2> QED BY <2>1, <2>2
<1> QED BY <1>1, <1>2, <1>3, <1>4, <1>5, <1>6 DEF Kinds

\* NAT, ICMP, the passthroughs and the name servers of the box write no file of
\* a daemon.
LEMMA BareApplied ==
  ASSUME NEW i, NEW c, NEW w, NEW b, kind \in Bare, Files(b) = {}
  PROVE  Files(Applied(i, c, w, b)) = {}
<1>1. CASE kind = "default"
  <2>1. Applied(i, c, w, b) = Resolv(i, c, w, DnsFlushed(i, b))
    BY <1>1 DEF Applied, DefaultApplied
  <2> QED BY <2>1 DEF Resolv, Set, DnsFlushed, Without, Own, Files
<1>2. CASE kind = "icmp"
  <2>1. Applied(i, c, w, b) = IcmpApplied(i, c, w, b)
    BY <1>2 DEF Applied
  <2> QED BY <2>1 DEF IcmpApplied, Set, Without, Own, Files
<1>3. CASE kind = "nat"
  <2>1. Applied(i, c, w, b) = NatApplied(i, c, w, b)
    BY <1>3 DEF Applied
  <2> DEFINE shared == (b \cup {<<"subnet", None, s>> : s \in w.add})
                         \ {<<"subnet", None, s>> : s \in w.del}
  <2>2. \A o \in shared : o[1] # "conf"
    BY DEF Files
  <2>3. NatFlushed(i, shared) \subseteq shared
    BY DEF NatFlushed
  <2>4. \A o \in {<<what, i, w.ip>> : what \in IF w.ip = None THEN {} ELSE Snat(c)} :
          o[1] # "conf"
    BY DEF Snat
  <2> HIDE DEF shared
  <2>5. \A o \in NatApplied(i, c, w, b) : o[1] # "conf"
    <3>1. NatApplied(i, c, w, b) =
            IF ~w.on THEN NatFlushed(i, shared)
            ELSE (shared \ {<<what, i, a>> : what \in Snat(c), a \in mem[i] \ {w.ip}})
                   \cup {<<what, i, w.ip>> : what \in IF w.ip = None THEN {} ELSE Snat(c)}
      BY DEF NatApplied, shared
    <3>2. CASE ~w.on
      BY <2>2, <2>3, <3>1, <3>2
    <3>3. CASE ~~w.on
      <4> DEFINE new == {<<what, i, w.ip>> : what \in IF w.ip = None THEN {} ELSE Snat(c)}
                 old == {<<what, i, a>> : what \in Snat(c), a \in mem[i] \ {w.ip}}
      <4>1. NatApplied(i, c, w, b) = (shared \ old) \cup new
        BY <3>1, <3>3
      <4>2. \A o \in new : o[1] # "conf"
        BY <2>4
      <4> HIDE DEF new, old
      <4> QED BY <2>2, <4>1, <4>2
    <3> QED BY <3>2, <3>3
  <2> QED BY <2>1, <2>5 DEF Files
<1>4. CASE kind = "pass"
  <2>1. Applied(i, c, w, b) = PassApplied(i, c, w, b)
    BY <1>4 DEF Applied
  <2>2. ASSUME NEW o \in Parts(i, [module |-> Modules, helper |-> Helped, accept |-> {"pptp"}])
        PROVE  o[1] # "conf"
    BY <2>2 DEF Parts
  <2>3. ASSUME NEW o \in Parts(i, [drop |-> Dropped])
        PROVE  o[1] # "conf"
    BY <2>3 DEF Parts
  <2> QED BY <2>1, <2>2, <2>3 DEF PassApplied, Files
<1> QED BY <1>1, <1>2, <1>3, <1>4 DEF Bare

\* DHCP and the multicast routes do not write when the interface is not present.
LEMMA AbsentApplied ==
  ASSUME NEW i, NEW c, NEW w, NEW b, kind \in {"dhcp", "mroute"}, ~w.up
  PROVE  Applied(i, c, w, b) = b
<1>1. CASE kind = "dhcp"
  BY <1>1 DEF Applied, DhcpApplied
<1>2. CASE kind = "mroute"
  BY <1>2 DEF Applied, MrouteApplied
<1> QED BY <1>1, <1>2

\* DNS writes the file of an interface that is enabled, and removes the other one.
LEMMA DnsFilesApplied ==
  ASSUME NEW i, NEW c, NEW w, NEW b, kind = "dns",
         w.up = TRUE, w.on \in BOOLEAN, w.ip # None
  PROVE  /\ \A o : o[2] # i => (o \in Files(Applied(i, c, w, b)) <=> o \in Files(b))
         /\ HasFile(i, Applied(i, c, w, b)) => w.on = TRUE
         /\ Starts(i, c, w) \/ HasFile(i, b) \/ Files(Applied(i, c, w, b)) = Files(b)
         /\ Starts(i, c, w) => w.on = TRUE
<1>1. Applied(i, c, w, b) = DnsApplied(i, c, w, b) /\ (Starts(i, c, w) <=> w.on = TRUE)
  BY DEF Applied, Starts
<1> DEFINE empty == DnsFlushed(i, b)
<1>2. \A o : o \in Files(empty) <=> o \in Files(b) /\ o[2] # i
  BY DEF DnsFlushed, Without, Own, Files
<1>3. CASE w.on = TRUE
  <2> DEFINE full == empty \cup {<<"conf", i, None>>}
  <2>1. DnsApplied(i, c, w, b) = Resolv(i, c, w, full)
    BY <1>3 DEF DnsApplied
  <2>2. \A o : o \in Files(full) <=> o \in Files(empty) \/ o = <<"conf", i, None>>
    BY DEF Files
  <2> HIDE DEF full
  <2>3. Files(Resolv(i, c, w, full)) = Files(full)
    BY DEF Resolv, Set, Without, Own, Files
  <2>4. \A o : o[2] # i => (o \in Files(DnsApplied(i, c, w, b)) <=> o \in Files(b))
    BY <1>2, <2>1, <2>2, <2>3
  <2> QED BY <1>1, <1>3, <2>4
<1>4. CASE w.on # TRUE
  <2>1. DnsApplied(i, c, w, b) = empty
    BY <1>4 DEF DnsApplied
  <2>2. ~HasFile(i, empty)
    BY DEF HasFile, DnsFlushed, Without, Own
  <2>3. HasFile(i, b) \/ Files(empty) = Files(b)
    BY <1>2 DEF HasFile, Files
  <2> QED BY <1>1, <1>2, <1>4, <2>1, <2>2, <2>3
<1> QED BY <1>3, <1>4

\* sshd writes its file with the address of its interface.
LEMMA SshdFilesApplied ==
  ASSUME NEW i \in Inst, NEW c, NEW w, NEW b, kind = "sshd", w.ip \in Address,
         Files(b) \subseteq {"conf"} \X Inst \X Address
  PROVE  Files(Applied(i, c, w, b)) \subseteq {"conf"} \X Inst \X Address
<1>1. Applied(i, c, w, b) = SshdApplied(i, c, w, b)
  BY DEF Applied
<1> DEFINE new == <<"conf", i, w.ip>>
<1>2. new \in {"conf"} \X Inst \X Address
  OBVIOUS
<1>3. Files(SshdApplied(i, c, w, b)) \subseteq Files(b) \cup {new}
  BY DEF SshdApplied, Set, Without, Own, Files
<1> QED BY <1>1, <1>2, <1>3

-----------------------------------------------------------------------------
(* What runs                                                               *)

\* A script that reads the files of sshd has read something.
LEMMA Reading ==
  ASSUME SshdFiles, kind = "sshd"
  PROVE  Files(box) # None
BY AddressAssumption DEF SshdFiles

\* Another script, which has the files of now.
LEMMA ReadsAgain ==
  ASSUME Rows, NEW i \in Inst, SshdFiles', kind' = "sshd", lost' = lost,
         script' = [script EXCEPT ![i] = Files(box')]
  PROVE  Reloads'
<1>1. Files(box') # None
  BY AddressAssumption DEF SshdFiles
<1>2. script'[i] = Files(box') /\ script'[i] # None
  BY <1>1 DEF Rows
<1> QED BY <1>2 DEF Reloads

\* A flush asks for the restart.
LEMMA FlushedRuns ==
  ASSUME IInv, NEW i \in Inst, box' = Flushed(i, box), Stopped(i),
         setup' = setup, lost' = lost
  PROVE  Runs' /\ SshdFiles'
<1>1. kind' = kind /\ kind \in Kinds
  BY SetupAssumption DEF IInv, Rows, kind
<1>2. box' \subseteq box /\ Files(box') \subseteq Files(box)
  BY <1>1, FlushedWithin DEF Files
<1>3. SshdFiles'
  BY <1>1, <1>2 DEF IInv, SshdFiles
<1>4. CASE kind = "sshd"
  <2>1. script' = [script EXCEPT ![i] = Files(box')]
    BY <1>4 DEF Stopped
  <2>2. Reloads'
    BY <1>1, <1>3, <1>4, <2>1, ReadsAgain DEF IInv
  <2> QED BY <1>1, <1>3, <1>4, <2>2 DEF Runs, Later, AtOnce, Bare
<1>5. CASE kind \in Later
  <2>1. timer' = TRUE /\ daemon' = daemon
    BY <1>5 DEF Stopped, Later, Each, AtOnce
  <2>2. kind = "default" => daemon' = {} /\ Files(box') = {}
    BY <1>2, <2>1 DEF IInv, Runs, Bare
  <2> QED BY <1>1, <1>3, <1>5, <2>1, <2>2 DEF Runs, Later, AtOnce, Bare
<1>6. CASE kind \in AtOnce
  <2>1. daemon' = Files(box')
    BY <1>6 DEF Stopped, Each, AtOnce
  <2> QED BY <1>1, <1>3, <1>6, <2>1 DEF Runs, AtOnce, Bare, Later
<1>7. CASE kind \in {"nat", "icmp", "pass"}
  <2>1. daemon' = daemon
    BY <1>7 DEF Stopped, Each, AtOnce
  <2>2. daemon' = {} /\ Files(box') = {}
    BY <1>2, <1>7, <2>1 DEF IInv, Runs, Bare
  <2> QED BY <1>1, <1>3, <1>7, <2>2 DEF Runs, AtOnce, Later
<1>8. CASE kind \in Each
  BY <1>1, <1>3, <1>8 DEF Runs, Each, AtOnce, Later, Bare
<1> QED BY <1>1, <1>4, <1>5, <1>6, <1>7, <1>8 DEF Kinds, Later, AtOnce, Each

\* apply() asks for the restart, or has not changed a file.
LEMMA BuiltRuns ==
  ASSUME IInv, NEW i \in Inst, Build(i)
  PROVE  Runs' /\ SshdFiles'
<1> DEFINE w == view[i]
           c == conf[i]
<1>1. kind' = kind /\ kind \in Kinds /\ lost' = lost /\ (DnsVanishes' <=> DnsVanishes)
  BY SetupAssumption DEF IInv, Rows, kind, Build, DnsVanishes
<1>2. box' = Applied(i, c, w, box) /\ Started(i, w)
  BY DEF Build
<1>3. /\ w # None /\ i \in todo \cap need /\ w.on = intf[i].on /\ w.on \in BOOLEAN
      /\ w.up \in BOOLEAN /\ w.ip \in Address /\ w.ip # None
      /\ kind = "dns" /\ ~DnsVanishes => w.up = TRUE
  BY AddressAssumption DEF Build, IInv, Viewed
<1>4. SshdFiles'
  BY <1>1, <1>2, <1>3, SshdFilesApplied DEF IInv, SshdFiles
<1>5. CASE kind = "sshd"
  <2>1. script' = [script EXCEPT ![i] = Files(box')]
    BY <1>2, <1>5 DEF Started
  <2>2. Reloads'
    BY <1>1, <1>4, <1>5, <2>1, ReadsAgain DEF IInv
  <2> QED BY <1>1, <1>4, <1>5, <2>2 DEF Runs, Later, AtOnce, Bare
<1>6. CASE kind \in {"dns", "dhcp", "mdns"} /\ ~DnsVanishes
  <2>1. timer' = (timer \/ Starts(i, c, w)) /\ daemon' = daemon
    BY <1>2, <1>6 DEF Started, Later, AtOnce, Each
  <2>2. Starts(i, c, w) \/ Files(box') = Files(box)
    <3>1. CASE kind = "dns"
      <4>1. ~Starts(i, c, w) => w.on # TRUE
        BY <1>3, <1>6, <3>1 DEF Starts
      <4>2. w.on # TRUE => ~HasFile(i, box)
        BY <1>3, <1>6, <3>1 DEF IInv, DnsFiles
      <4> QED BY <1>2, <1>3, <1>6, <3>1, <4>1, <4>2, DnsFilesApplied
    <3>2. CASE kind = "dhcp"
      <4>1. Starts(i, c, w) <=> w.up
        BY <3>2 DEF Starts
      <4> QED BY <1>2, <3>2, <4>1, AbsentApplied
    <3>3. CASE kind = "mdns"
      BY <3>3 DEF Starts
    <3> QED BY <1>6, <3>1, <3>2, <3>3
  <2>3. timer = TRUE \/ daemon = Files(box)
    BY <1>6 DEF IInv, Runs, Later
  <2>4. timer' = TRUE \/ daemon' = Files(box')
    BY <2>1, <2>2, <2>3
  <2> QED BY <1>1, <1>4, <1>6, <2>4 DEF Runs, Later, AtOnce, Bare
<1>7. CASE kind \in AtOnce
  <2>1. daemon' = IF Starts(i, c, w) THEN Files(box') ELSE daemon
    BY <1>2, <1>7 DEF Started, AtOnce, Each
  <2>2. Starts(i, c, w) <=> w.up
    BY <1>7 DEF Starts, AtOnce
  <2>3. ~w.up => box' = box
    BY <1>2, <1>7, AbsentApplied DEF AtOnce
  <2>4. daemon = Files(box)
    BY <1>7 DEF IInv, Runs, AtOnce, Later, DnsVanishes
  <2>5. daemon' = Files(box')
    BY <2>1, <2>2, <2>3, <2>4
  <2> QED BY <1>1, <1>4, <1>7, <2>5 DEF Runs, AtOnce, Later, Bare
<1>8. CASE kind \in Bare
  <2>1. ~Starts(i, c, w)
    BY <1>8 DEF Starts, Bare
  <2>2. daemon' = daemon
    BY <1>2, <1>8, <2>1 DEF Started, Bare, AtOnce, Each
  <2>3. daemon' = {} /\ Files(box') = {}
    BY <1>2, <1>8, <2>2, BareApplied DEF IInv, Runs
  <2> QED BY <1>1, <1>4, <1>8, <2>3 DEF Runs, AtOnce, Later, Bare
<1>9. CASE kind \in Each
  BY <1>1, <1>4, <1>9 DEF Runs, Each, AtOnce, Later, Bare
<1>10. CASE kind = "dns" /\ DnsVanishes
  BY <1>1, <1>4, <1>10 DEF Runs, AtOnce, Later, Bare
<1> QED BY <1>1, <1>5, <1>6, <1>7, <1>8, <1>9, <1>10 DEF Kinds, AtOnce, Each, Bare, DnsVanishes

\* Steps that leave the files and the daemons alone.
LEMMA SameRuns ==
  ASSUME IInv, UNCHANGED <<setup, box, daemon, timer, script>>,
         <<None, "script">> \in lost => <<None, "script">> \in lost'
  PROVE  Runs' /\ SshdFiles'
BY DEF IInv, Runs, SshdFiles, Reloads, DnsVanishes, kind, Files

\* The timer.
LEMMA FireRuns ==
  ASSUME IInv, Fire
  PROVE  Runs' /\ SshdFiles'
<1>1. kind' = kind /\ box' = box /\ daemon' = Files(box) /\ script' = script /\ lost' = lost
  BY DEF Fire, kind
<1>2. SshdFiles'
  BY <1>1 DEF IInv, SshdFiles
<1> QED BY <1>1, <1>2 DEF IInv, Runs, Reloads, Files

\* A script ends.
LEMMA InstallRuns ==
  ASSUME IInv, NEW i \in Inst, Install(i)
  PROVE  Runs' /\ SshdFiles'
<1>1. /\ kind' = kind /\ box' = box /\ daemon' = script[i] /\ script[i] # None
      /\ script' = [script EXCEPT ![i] = None]
      /\ lost' = lost \cup (IF \E j \in Inst \ {i} : script[j] # None
                            THEN {<<None, "script">>} ELSE {})
  BY DEF Install, kind
<1>2. kind' = "sshd"
  BY <1>1 DEF IInv, Scripts
<1>3. SshdFiles'
  BY <1>1 DEF IInv, SshdFiles
<1>4. script'[i] = None /\ \A j \in Inst \ {i} : script'[j] = script[j]
  BY <1>1 DEF IInv, Rows
<1>5. Reloads'
  <2>1. CASE <<None, "script">> \in lost'
    BY <2>1 DEF Reloads
  <2>2. CASE <<None, "script">> \notin lost'
    <3>1. \A j \in Inst \ {i} : script[j] = None
      BY <1>1, <2>2
    <3>2. script[i] = Files(box)
      BY <1>1, <1>2, <2>2, <3>1 DEF IInv, Runs, Reloads
    <3>3. \A j \in Inst : script'[j] = None
      BY <1>4, <3>1
    <3> QED BY <1>1, <3>2, <3>3 DEF Reloads
  <2> QED BY <2>1, <2>2
<1> QED BY <1>2, <1>3, <1>5 DEF Runs, Later, AtOnce, Bare

-----------------------------------------------------------------------------
(* The loader and the events                                               *)

\* What is there at first.
LEMMA InitInv == Init => IInv
<1> SUFFICES ASSUME Init PROVE IInv
  OBVIOUS
<1>1. Rows
  <2>1. \A i \in Inst : intf[i] \in [on : {TRUE}, up : {TRUE}, ip : Address]
    BY AddressAssumption DEF Init
  <2>2. intf \in Interfaces
    BY <2>1 DEF Init, Interfaces
  <2> QED BY <2>2 DEF Init, Rows, NoPlan
<1>2. \A i \in Inst : intf[i].up = TRUE
  BY DEF Init
<1>3. /\ box = {} /\ daemon = {} /\ Files(box) = {} /\ phase = "idle"
      /\ \A i \in Inst : view[i] = None /\ script[i] = None
  BY DEF Init, Files
<1> QED BY <1>1, <1>2, <1>3
        DEF IInv, Viewed, DnsFiles, SshdFiles, Scripts, HasFile, Runs, Reloads

\* A new configuration begins.
LEMMA ReapplyInv ==
  ASSUME IInv, NEW p \in setup.plans, Reapply(p)
  PROVE  IInv'
<1>1. /\ phase = "idle" /\ phase' = "remove" /\ next' = p
      /\ todo' = There(conf) \ There(p.conf)
      /\ need \subseteq need'
      /\ \A i \in Inst : "intf" \in subs[i] /\ p.on[i] # intf[i].on => i \in need'
      /\ UNCHANGED <<setup, conf, subs, view, intf, box, daemon, timer, script, lost>>
  BY DEF Reapply, world
<1>2. p.on \in [Inst -> BOOLEAN]
  BY SetupAssumption DEF IInv, Rows
<1>3. Rows' /\ Scripts'
  BY <1>1, <1>2 DEF IInv, Rows, Scripts, kind
<1>4. Runs' /\ SshdFiles'
  BY <1>1, SameRuns
<1>5. \A i \in Inst : view[i] = None
  BY <1>1 DEF IInv, Viewed
<1>6. Viewed'
  BY <1>1, <1>5 DEF Viewed
<1>7. DnsFiles'
  <2> SUFFICES ASSUME kind = "dns", ~DnsVanishes, NEW i \in Inst
               PROVE  intf[i].up = TRUE /\ (HasFile(i, box) =>
                        /\ "intf" \in subs[i] /\ conf[i] # None /\ intf[i].on = TRUE
                        /\ i \in todo' \/ p.conf[i] # None
                        /\ p.on[i] # TRUE => i \in need')
    BY <1>1 DEF DnsFiles, DnsVanishes, kind
  <2>1. intf[i].up = TRUE /\
        (HasFile(i, box) => "intf" \in subs[i] /\ conf[i] # None /\ intf[i].on = TRUE)
    BY DEF IInv, DnsFiles
  <2> QED BY <1>1, <2>1 DEF There
<1> QED BY <1>3, <1>4, <1>6, <1>7 DEF IInv

\* The configuration in effect is applied again.
LEMMA RerunInv ==
  ASSUME IInv, Rerun
  PROVE  IInv'
<1>1. /\ phase = "idle" /\ phase' = "flush" /\ todo' = There(conf)
      /\ next' = [conf |-> conf, on |-> [i \in Inst |-> intf[i].on]]
      /\ UNCHANGED <<setup, conf, need, subs, view, intf, box, daemon, timer, script, lost>>
  BY DEF Rerun, world
<1>2. next'.on \in [Inst -> BOOLEAN] /\ next'.conf = conf
      /\ \A i \in Inst : next'.on[i] = intf[i].on
  BY <1>1 DEF IInv, Rows, Interfaces
<1>3. Rows' /\ Scripts'
  BY <1>1, <1>2 DEF IInv, Rows, Scripts, kind
<1>4. Runs' /\ SshdFiles'
  BY <1>1, SameRuns
<1>5. Viewed'
  BY <1>1 DEF IInv, Viewed
<1>6. DnsFiles'
  BY <1>1, <1>2 DEF IInv, DnsFiles, DnsVanishes, kind
<1> QED BY <1>3, <1>4, <1>5, <1>6 DEF IInv

\* Without an instance its file is gone.
LEMMA NoFileFlushed ==
  ASSUME kind = "dns", NEW i
  PROVE  /\ ~HasFile(i, Flushed(i, box))
         /\ \A j : HasFile(j, Flushed(i, box)) => HasFile(j, box)
<1>1. Flushed(i, box) = DnsFlushed(i, box)
  BY DEF Flushed
<1> QED BY <1>1 DEF DnsFlushed, HasFile, Without, Own

\* An instance is removed.
LEMMA RemoveInv ==
  ASSUME IInv, NEW i \in Inst, Remove(i)
  PROVE  IInv'
<1>1. /\ phase = "remove" /\ phase' = phase /\ todo' = todo \ {i} /\ need' = need \ {i}
      /\ conf' = [conf EXCEPT ![i] = None] /\ subs' = [subs EXCEPT ![i] = {}]
      /\ box' = Flushed(i, box) /\ Stopped(i)
      /\ UNCHANGED <<setup, next, view, intf, lost>>
  BY DEF Remove, world
<1>2. Runs' /\ SshdFiles'
  BY <1>1, FlushedRuns
<1>3. \A j \in Inst \ {i} : conf'[j] = conf[j] /\ subs'[j] = subs[j]
  BY <1>1 DEF IInv, Rows
<1>4. Rows' /\ Scripts'
  BY <1>1 DEF IInv, Rows, Scripts, kind, Stopped
<1>5. Viewed'
  BY <1>1 DEF IInv, Viewed
<1>6. DnsFiles'
  <2> SUFFICES ASSUME kind = "dns", ~DnsVanishes, NEW j \in Inst
               PROVE  intf[j].up = TRUE /\ (HasFile(j, box') =>
                        /\ "intf" \in subs'[j] /\ conf'[j] # None /\ intf[j].on = TRUE
                        /\ j \in todo' \/ next.conf[j] # None
                        /\ next.on[j] # TRUE => j \in need')
    BY <1>1 DEF DnsFiles, DnsVanishes, kind
  <2>1. HasFile(j, box') => j # i /\ HasFile(j, box)
    BY <1>1, NoFileFlushed
  <2> QED BY <1>1, <1>3, <2>1 DEF IInv, DnsFiles
<1> QED BY <1>2, <1>4, <1>5, <1>6 DEF IInv

\* An instance gets its configuration, and is flushed if that is needed.
LEMMA FlushInv ==
  ASSUME IInv, NEW i \in Inst, Flush(i)
  PROVE  IInv'
<1>1. /\ phase = "flush" /\ phase' = phase /\ todo' = todo \ {i} /\ need' = need
      /\ conf' = [conf EXCEPT ![i] = next.conf[i]]
      /\ UNCHANGED <<setup, next, view, intf, lost>>
  BY DEF Flush, world
<1>2. \/ /\ i \in need /\ subs' = [subs EXCEPT ![i] = {}]
         /\ \/ kind = "nat" /\ UNCHANGED <<box, timer, daemon, script>>
            \/ kind # "nat" /\ box' = Flushed(i, box) /\ Stopped(i)
      \/ i \notin need /\ UNCHANGED <<subs, box, timer, daemon, script>>
  BY DEF Flush
<1>3. Runs' /\ SshdFiles'
  BY <1>1, <1>2, FlushedRuns, SameRuns
<1>4. /\ conf'[i] = next.conf[i]
      /\ \A j \in Inst \ {i} : conf'[j] = conf[j] /\ subs'[j] = subs[j]
  BY <1>1, <1>2 DEF IInv, Rows
<1>5. Rows' /\ Scripts'
  <2>1. subs' = [j \in Inst |-> subs'[j]]
    BY <1>2 DEF IInv, Rows
  <2>2. conf' = [j \in Inst |-> conf'[j]]
    BY <1>1 DEF IInv, Rows
  <2>3. \/ script' = script
        \/ kind = "sshd" /\ script' = [script EXCEPT ![i] = Files(box')]
    BY <1>2 DEF Stopped
  <2>4. script' = [j \in Inst |-> script'[j]]
    BY <2>3 DEF IInv, Rows
  <2> QED BY <1>1, <2>1, <2>2, <2>3, <2>4 DEF IInv, Rows, Scripts, kind
<1>6. Viewed'
  BY <1>1 DEF IInv, Viewed
<1>7. DnsFiles'
  <2> SUFFICES ASSUME kind = "dns", ~DnsVanishes, NEW j \in Inst
               PROVE  intf[j].up = TRUE /\ (HasFile(j, box') =>
                        /\ "intf" \in subs'[j] /\ conf'[j] # None /\ intf[j].on = TRUE
                        /\ next.conf[j] # None
                        /\ next.on[j] # TRUE => j \in need \cap todo')
    BY <1>1 DEF DnsFiles, DnsVanishes, kind
  <2>1. CASE i \in need
    <3>1. HasFile(j, box') => j # i /\ HasFile(j, box)
      BY <1>2, <2>1, NoFileFlushed
    <3> QED BY <1>1, <1>4, <3>1 DEF IInv, DnsFiles
  <2>2. CASE i \notin need
    <3>1. box' = box /\ subs' = subs
      BY <1>2, <2>2
    <3> QED BY <1>1, <1>4, <2>2, <3>1 DEF IInv, DnsFiles
  <2> QED BY <2>1, <2>2
<1> QED BY <1>3, <1>5, <1>6, <1>7 DEF IInv

\* The next phase.
LEMMA TurnInv ==
  ASSUME IInv, Turn
  PROVE  IInv'
<1>1. /\ todo = {} /\ \A i \in Inst : script[i] = None
      /\ \/ phase = "remove" /\ phase' = "flush" /\ todo' = There(next.conf) /\ intf' = intf
         \/ /\ phase = "flush" /\ phase' = "apply" /\ todo' = There(conf)
            /\ intf' = [i \in Inst |-> [intf[i] EXCEPT !.on = next.on[i]]]
         \/ phase = "apply" /\ phase' = "idle" /\ todo' = {} /\ intf' = intf
      /\ UNCHANGED <<setup, next, conf, need, subs, view, box, daemon, timer, script, lost>>
  BY DEF Turn, IInv, Rows
<1>2. Runs' /\ SshdFiles'
  BY <1>1, SameRuns
<1>3. \A i \in Inst : view[i] = None
  BY <1>1 DEF IInv, Viewed
<1>4. Viewed'
  BY <1>1, <1>3 DEF Viewed
<1>5. /\ \A i \in Inst : intf'[i].up = intf[i].up /\ intf'[i].ip = intf[i].ip
      /\ intf' \in Interfaces
      /\ phase = "flush" => \A i \in Inst : intf'[i].on = next.on[i]
  <2>1. CASE intf' = intf /\ phase # "flush"
    BY <2>1 DEF IInv, Rows
  <2>2. CASE intf' = [i \in Inst |-> [intf[i] EXCEPT !.on = next.on[i]]]
    <3>1. \A i \in Inst : intf[i] \in [on : BOOLEAN, up : BOOLEAN, ip : Address]
      BY DEF IInv, Rows, Interfaces
    <3>2. \A i \in Inst : next.on[i] \in BOOLEAN
      BY DEF IInv, Rows
    <3> QED BY <2>2, <3>1, <3>2 DEF Interfaces
  <2> QED BY <1>1, <2>1, <2>2
<1>6. Rows' /\ Scripts'
  BY <1>1, <1>5 DEF IInv, Rows, Scripts, kind
<1>7. DnsFiles'
  <2> SUFFICES ASSUME kind = "dns", ~DnsVanishes, NEW i \in Inst
               PROVE  intf'[i].up = TRUE /\ (HasFile(i, box) =>
                        /\ "intf" \in subs[i] /\ conf[i] # None /\ intf'[i].on = TRUE
                        /\ phase' # "remove"
                        /\ phase' = "flush" => /\ next.conf[i] # None
                                               /\ next.on[i] # TRUE => i \in need \cap todo')
    BY <1>1 DEF DnsFiles, DnsVanishes, kind
  <2>1. intf'[i].up = TRUE
    BY <1>5 DEF IInv, DnsFiles
  <2>2. ASSUME HasFile(i, box)
        PROVE  /\ "intf" \in subs[i] /\ conf[i] # None /\ intf'[i].on = TRUE
               /\ phase' # "remove"
               /\ phase' = "flush" => /\ next.conf[i] # None
                                      /\ next.on[i] # TRUE => i \in need \cap todo'
    <3>1. "intf" \in subs[i] /\ conf[i] # None /\ intf[i].on = TRUE
      BY <2>2 DEF IInv, DnsFiles
    <3>2. CASE phase = "remove"
      BY <1>1, <2>2, <3>1, <3>2 DEF IInv, DnsFiles, There
    <3>3. CASE phase = "flush"
      <4>1. next.on[i] = TRUE
        BY <1>1, <2>2, <3>3 DEF IInv, DnsFiles
      <4> QED BY <1>1, <1>5, <3>1, <3>3, <4>1
    <3>4. CASE phase = "apply"
      BY <1>1, <3>1, <3>4
    <3> QED BY <1>1, <3>2, <3>3, <3>4
  <2> QED BY <2>1, <2>2
<1> QED BY <1>2, <1>4, <1>6, <1>7 DEF IInv

\* apply() begins.
LEMMA LookInv ==
  ASSUME IInv, NEW i \in Inst, Look(i)
  PROVE  IInv'
<1>1. /\ phase = "apply" /\ i \in todo \cap need
      /\ view' = [view EXCEPT ![i] = Seen(i)]
      /\ subs' = [subs EXCEPT ![i] = subs[i] \cup Follows(i, Seen(i))]
      /\ <<None, "script">> \in lost => <<None, "script">> \in lost'
      /\ UNCHANGED <<setup, phase, next, conf, todo, need, intf, box, daemon, timer, script>>
  BY DEF Look, world
<1>2. Runs' /\ SshdFiles'
  BY <1>1, SameRuns
<1>3. /\ view'[i] = Seen(i) /\ subs'[i] = subs[i] \cup Follows(i, Seen(i))
      /\ \A j \in Inst \ {i} : view'[j] = view[j] /\ subs'[j] = subs[j]
  BY <1>1 DEF IInv, Rows
<1>4. Rows' /\ Scripts'
  <2>1. view' = [j \in Inst |-> view'[j]] /\ subs' = [j \in Inst |-> subs'[j]]
    BY <1>1 DEF IInv, Rows
  <2> QED BY <1>1, <2>1 DEF IInv, Rows, Scripts, kind
<1>5. /\ intf[i] \in [on : BOOLEAN, up : BOOLEAN, ip : Address]
      /\ Seen(i).up = intf[i].up /\ Seen(i).on = intf[i].on /\ Seen(i).ip = intf[i].ip
  BY DEF IInv, Rows, Interfaces, Seen
<1>6. kind = "dns" => "intf" \in subs'[i] /\ (~DnsVanishes => intf[i].up = TRUE)
  <2>1. kind = "dns" => "intf" \in Follows(i, Seen(i))
    BY DEF Follows, FollowsIntf
  <2> QED BY <1>3, <2>1 DEF IInv, DnsFiles
<1>7. Viewed'
  <2> SUFFICES ASSUME NEW j \in Inst, view'[j] # None
               PROVE  /\ j \in todo \cap need
                      /\ view'[j].on = intf[j].on /\ view'[j].on \in BOOLEAN
                      /\ view'[j].up \in BOOLEAN /\ view'[j].ip \in Address
                      /\ kind = "dns" => /\ "intf" \in subs'[j]
                                         /\ ~DnsVanishes => view'[j].up = TRUE
    BY <1>1 DEF IInv, Viewed, There, DnsVanishes, kind
  <2>1. CASE j = i
    BY <1>1, <1>3, <1>5, <1>6, <2>1
  <2>2. CASE j # i
    BY <1>3, <2>2 DEF IInv, Viewed
  <2> QED BY <2>1, <2>2
<1>8. DnsFiles'
  <2>1. \A j \in Inst : "intf" \in subs[j] => "intf" \in subs'[j]
    BY <1>3
  <2> QED BY <1>1, <2>1 DEF IInv, DnsFiles, DnsVanishes, kind
<1> QED BY <1>2, <1>4, <1>7, <1>8 DEF IInv

\* apply() ends; nothing else has a view of what it has applied.
LEMMA BuildInv ==
  ASSUME IInv, NEW i \in Inst, Build(i)
  PROVE  IInv'
<1>1. /\ view[i] # None /\ box' = Applied(i, conf[i], view[i], box)
      /\ UNCHANGED <<setup, phase, next, conf, subs, intf, lost>>
      /\ \/ UNCHANGED <<todo, need, view>>
         \/ todo' = todo \ {i} /\ need' = need \ {i} /\ view' = [view EXCEPT ![i] = None]
      /\ \/ script' = script
         \/ kind = "sshd" /\ script' = [script EXCEPT ![i] = Files(box')]
  BY DEF Build, world, Finished, Started
<1>2. Runs' /\ SshdFiles'
  BY BuiltRuns
<1>3. /\ \A j \in Inst \ {i} : view'[j] = view[j]
      /\ (view' = view /\ todo' = todo /\ need' = need) \/ view'[i] = None
  BY <1>1 DEF IInv, Rows
<1>4. Rows' /\ Scripts'
  <2>1. view' = [j \in Inst |-> view'[j]]
    BY <1>1 DEF IInv, Rows
  <2>2. script' = [j \in Inst |-> script'[j]]
    BY <1>1 DEF IInv, Rows
  <2> QED BY <1>1, <2>1, <2>2 DEF IInv, Rows, Scripts, Viewed, kind
<1>5. Viewed'
  <2>1. phase' = "apply" => todo' \subseteq There(conf')
    BY <1>1 DEF IInv, Viewed
  <2>2. ASSUME NEW j \in Inst, view'[j] # None
        PROVE  view'[j] = view[j] /\ (j \in todo \cap need => j \in todo' \cap need')
    BY <1>1, <1>3, <2>2
  <2> QED BY <1>1, <2>1, <2>2 DEF IInv, Viewed, DnsVanishes, kind
<1>6. DnsFiles'
  <2> SUFFICES ASSUME kind = "dns", ~DnsVanishes, NEW j \in Inst
               PROVE  intf[j].up = TRUE /\ (HasFile(j, box') =>
                        "intf" \in subs[j] /\ conf[j] # None /\ intf[j].on = TRUE)
    BY <1>1 DEF DnsFiles, DnsVanishes, kind, IInv, Viewed
  <2>1. /\ phase = "apply" /\ i \in todo /\ view[i].on = intf[i].on /\ "intf" \in subs[i]
        /\ view[i].up = TRUE /\ view[i].on \in BOOLEAN /\ view[i].ip # None
    BY <1>1, AddressAssumption DEF IInv, Viewed
  <2>2. conf[i] # None
    BY <2>1 DEF IInv, Viewed, There
  <2>3. CASE j = i
    <3>1. HasFile(i, box') => view[i].on = TRUE
      BY <1>1, <2>1, DnsFilesApplied
    <3> QED BY <2>1, <2>2, <2>3, <3>1 DEF IInv, DnsFiles
  <2>4. CASE j # i
    <3>1. HasFile(j, box') => HasFile(j, box)
      <4>1. \A o : o[2] # i => (o \in Files(box') <=> o \in Files(box))
        BY <1>1, <2>1, DnsFilesApplied
      <4> QED BY <2>4, <4>1 DEF HasFile, Files
    <3> QED BY <3>1 DEF IInv, DnsFiles
  <2> QED BY <2>3, <2>4
<1> QED BY <1>2, <1>4, <1>5, <1>6 DEF IInv

\* reload_sshd.sh ends.
LEMMA InstallInv ==
  ASSUME IInv, NEW i \in Inst, Install(i)
  PROVE  IInv'
<1>1. /\ UNCHANGED <<setup, phase, next, conf, subs, intf, box>>
      /\ \/ UNCHANGED <<todo, need, view>>
         \/ todo' = todo \ {i} /\ need' = need \ {i} /\ view' = [view EXCEPT ![i] = None]
      /\ script' = [script EXCEPT ![i] = None] /\ script[i] # None
  BY DEF Install, world, Finished
<1>2. Runs' /\ SshdFiles'
  BY InstallRuns
<1>3. kind' = "sshd"
  BY <1>1 DEF IInv, Scripts, kind
<1>4. /\ \A j \in Inst \ {i} : view'[j] = view[j]
      /\ (view' = view /\ todo' = todo /\ need' = need) \/ view'[i] = None
  BY <1>1 DEF IInv, Rows
<1>5. Rows' /\ Scripts'
  <2>1. view' = [j \in Inst |-> view'[j]]
    BY <1>1 DEF IInv, Rows
  <2>2. script' = [j \in Inst |-> script'[j]]
    BY <1>1 DEF IInv, Rows
  <2> QED BY <1>1, <1>3, <2>1, <2>2 DEF IInv, Rows, Scripts
<1>6. Viewed'
  <2>1. phase' = "apply" => todo' \subseteq There(conf')
    BY <1>1 DEF IInv, Viewed
  <2>2. ASSUME NEW j \in Inst, view'[j] # None
        PROVE  view'[j] = view[j] /\ (j \in todo \cap need => j \in todo' \cap need')
    BY <1>1, <1>4, <2>2
  <2> QED BY <1>1, <1>3, <2>1, <2>2 DEF IInv, Viewed
<1>7. DnsFiles'
  BY <1>3 DEF DnsFiles
<1> QED BY <1>2, <1>5, <1>6, <1>7 DEF IInv

\* Flags, and what an interface or an uplink looks like; the interface of DNS
\* is present.
LEMMA EventInv ==
  ASSUME IInv, UNCHANGED <<setup, phase, next, conf, todo, subs, view, box, daemon, timer, script>>,
         need \subseteq need', intf' \in Interfaces,
         \A i \in Inst : intf'[i].on = intf[i].on,
         kind = "dns" /\ ~DnsVanishes => \A i \in Inst : intf'[i].up = intf[i].up,
         <<None, "script">> \in lost => <<None, "script">> \in lost'
  PROVE  IInv'
<1>1. Runs' /\ SshdFiles'
  BY SameRuns
<1>2. Rows' /\ Scripts' /\ kind' = kind /\ (DnsVanishes' <=> DnsVanishes)
  BY DEF IInv, Rows, Scripts, DnsVanishes, kind
<1>3. Viewed'
  BY <1>2 DEF IInv, Viewed, There
<1>4. DnsFiles'
  BY <1>2 DEF IInv, DnsFiles
<1> QED BY <1>1, <1>2, <1>3, <1>4 DEF IInv

\* What changes of an interface.
LEMMA NewAddress ==
  ASSUME IInv, NEW i \in Inst, NEW a \in Address, intf' = [intf EXCEPT ![i].ip = a]
  PROVE  /\ intf' \in Interfaces
         /\ \A j \in Inst : intf'[j].on = intf[j].on /\ intf'[j].up = intf[j].up
<1>1. \A j \in Inst : intf[j] \in [on : BOOLEAN, up : BOOLEAN, ip : Address]
  BY DEF IInv, Rows, Interfaces
<1>2. intf' = [j \in Inst |-> IF j = i THEN [intf[j] EXCEPT !.ip = a] ELSE intf[j]]
  BY DEF IInv, Rows, Interfaces
<1> QED BY <1>1, <1>2 DEF Interfaces

\* A step of an instance.
LEMMA StepInv ==
  ASSUME IInv, NEW i \in Inst, Step(i)
  PROVE  IInv'
<1>1. CASE Skip(i)
  <2>1. /\ i \notin need /\ todo' = todo \ {i}
        /\ UNCHANGED <<setup, phase, next, conf, need, subs, view, intf, box, daemon, timer,
                       script, lost>>
    BY <1>1 DEF Skip, world
  <2>2. Runs' /\ SshdFiles'
    BY <2>1, SameRuns
  <2>3. Rows' /\ Scripts' /\ kind' = kind /\ (DnsVanishes' <=> DnsVanishes)
    BY <2>1 DEF IInv, Rows, Scripts, DnsVanishes, kind
  <2>4. Viewed'
    BY <2>1, <2>3 DEF IInv, Viewed, There
  <2>5. phase = "apply" /\ phase' = "apply"
    BY <1>1 DEF Skip
  <2>6. DnsFiles'
    BY <2>1, <2>3, <2>5 DEF IInv, DnsFiles
  <2> QED BY <2>2, <2>3, <2>4, <2>6 DEF IInv
<1> QED BY <1>1, RemoveInv, FlushInv, LookInv, BuildInv, InstallInv DEF Step

\* Every step keeps the invariant.
LEMMA NextInv == IInv /\ [Next]_vars => IInv'
<1> SUFFICES ASSUME IInv, [Next]_vars PROVE IInv'
  OBVIOUS
<1>1. CASE UNCHANGED vars
  <2>1. intf' \in Interfaces
    BY <1>1 DEF IInv, Rows, vars, world
  <2> QED BY <1>1, <2>1, EventInv DEF vars, loader, world
<1>2. CASE Fire
  <2>1. UNCHANGED <<setup, phase, next, conf, todo, need, subs, view, intf, box, script>>
    BY <1>2 DEF Fire, loader, world
  <2>2. Runs' /\ SshdFiles'
    BY <1>2, FireRuns
  <2> QED BY <2>1, <2>2 DEF IInv, Rows, Scripts, Viewed, There, DnsFiles, DnsVanishes, kind
<1>3. ASSUME NEW i \in Inst, NEW a \in Address, IpChange(i, a) \/ Prefix(i, a)
      PROVE  IInv'
  <2>1. /\ intf' = [intf EXCEPT ![i].ip = a]
        /\ need \subseteq need'
        /\ <<None, "script">> \in lost => <<None, "script">> \in lost'
        /\ UNCHANGED <<setup, phase, next, conf, todo, subs, view, box, daemon, timer, script>>
    BY <1>3 DEF IpChange, Prefix, Flagged
  <2> QED BY <2>1, NewAddress, EventInv
<1>4. ASSUME NEW x, WanSwitch(x)
      PROVE  IInv'
  <2>1. /\ intf' = intf /\ need \subseteq need'
        /\ <<None, "script">> \in lost => <<None, "script">> \in lost'
        /\ UNCHANGED <<setup, phase, next, conf, todo, subs, view, box, daemon, timer, script>>
    BY <1>4 DEF WanSwitch, Flagged
  <2> QED BY <2>1, EventInv DEF IInv, Rows
<1>5. ASSUME NEW i \in Inst, Plugged(i)
      PROVE  IInv'
  <2>1. /\ intf' = intf /\ need \subseteq need'
        /\ <<None, "script">> \in lost => <<None, "script">> \in lost'
        /\ UNCHANGED <<setup, phase, next, conf, todo, subs, view, box, daemon, timer, script>>
    BY <1>5 DEF Plugged, Flagged
  <2> QED BY <2>1, EventInv DEF IInv, Rows
<1>6. ASSUME NEW i \in Inst, Plug(i)
      PROVE  IInv'
  <2>1. /\ intf' = [intf EXCEPT ![i].up = ~intf[i].up]
        /\ UNCHANGED <<setup, phase, next, conf, todo, need, subs, view, box, daemon, timer,
                       script, lost>>
        /\ "plug" \in setup.moves
    BY <1>6 DEF Plug, loader, Tick
  <2>2. kind # "dns" \/ DnsVanishes
    BY <2>1 DEF DnsVanishes
  <2>3. /\ intf' \in Interfaces
        /\ \A j \in Inst : intf'[j].on = intf[j].on
    <3>1. \A j \in Inst : intf[j] \in [on : BOOLEAN, up : BOOLEAN, ip : Address]
      BY DEF IInv, Rows, Interfaces
    <3>2. intf' = [j \in Inst |-> IF j = i THEN [intf[j] EXCEPT !.up = ~intf[i].up] ELSE intf[j]]
      BY <2>1 DEF IInv, Rows, Interfaces
    <3> QED BY <3>1, <3>2 DEF Interfaces
  <2> QED BY <2>1, <2>2, <2>3, EventInv
<1>7. \A p \in setup.plans : Reapply(p) => IInv'
  BY ReapplyInv
<1> QED BY <1>1, <1>2, <1>3, <1>4, <1>5, <1>6, <1>7, RerunInv, TurnInv, StepInv DEF Next

\* For any plugin, instances, configurations and events: no restart is lost,
\* unless scripts of sshd overlap (_restartService() and the others).
THEOREM RunsTheFilesAlways ==
  ASSUME DnsPresent
  PROVE  Spec => []RunsTheFiles
<1>1. IInv => ~DnsVanishes
  BY DEF DnsPresent, DnsVanishes, IInv, Rows, kind
<1>2. IInv => RunsTheFiles
  <2> SUFFICES ASSUME IInv, kind \notin Each
               PROVE  RunsTheFiles
    BY DEF RunsTheFiles
  <2>1. CASE kind \in Bare
    BY <2>1 DEF IInv, Runs, Bare, RunsTheFiles
  <2>2. CASE kind \in {"dns", "dhcp", "mdns", "mroute"}
    BY <1>1, <2>2 DEF IInv, Runs, Later, AtOnce, RunsTheFiles
  <2>3. CASE kind = "sshd"
    <3>1. phase = "idle" => \A i \in Inst : script[i] = None
      BY DEF IInv, Scripts
    <3> QED BY <2>3, <3>1 DEF IInv, Runs, Reloads, RunsTheFiles
  <2> QED BY <2>1, <2>2, <2>3, SetupAssumption DEF IInv, Rows, kind, Kinds, Each, Bare
<1>3. IInv /\ [Next]_vars => IInv'
  BY NextInv
<1> QED BY <1>2, <1>3, InitInv, PTL DEF Spec

-----------------------------------------------------------------------------
(* What is left                                                            *)

\* NAT: the instances of a configuration have the same uplink, and with it the
\* same subnets; the routes of the uplink are those that were configured last.
SameSubnets(c) == \A i, j \in There(c) : c[i].v = c[j].v
NatAgrees ==
  \A s \in Setups : s.kind = "nat" => \A p \in s.plans : SameSubnets(p.conf)

TagsOf ==
  CASE kind \in {"dns", "default"} -> {"conf", "resolv"}
    [] kind \in {"dhcp", "mdns", "docker"} -> {"conf"}
    [] kind = "sshd" -> {"conf", "accept", "drop"}
    [] kind = "icmp" -> {"accept", "drop"}
    [] kind = "upnp" -> {"conf", "jump", "filter", "post"}
    [] kind = "igmp" -> {"conf", "igmp"}
    [] kind = "mroute" -> {"conf", "ttl", "hw"}
    [] kind = "nat" -> {"snat", "snat6", "subnet"}
    [] kind = "pass" -> {"module", "helper", "drop", "accept"}

\* what stays behind, or is not taken away before it is made again
Loose(what) ==
  <<kind, what>> \in {<<"docker", "conf">>, <<"igmp", "conf">>, <<"mroute", "hw">>,
                      <<"nat", "snat6">>, <<"pass", "accept">>}

PassPart(o) ==
  o \in Parts(o[2], [module |-> Modules, helper |-> Helped, drop |-> Dropped,
                     accept |-> {"pptp"}])

Tidy(b) ==
  \A o \in b :
    /\ o = <<o[1], o[2], o[3]>> /\ o[1] \in TagsOf
    /\ IF o[1] = "subnet" THEN o[2] = None ELSE o[2] \in Inst
    /\ o[1] \in {"accept", "drop", "filter", "post", "module", "helper"} => o[3] = None
    /\ kind = "pass" => PassPart(o)

\* one thing of each sort, what is remembered, nothing of those that are added only
Single(i, b) ==
  \A o, q \in b : o[2] = i /\ q[2] = i /\ o[1] = q[1] /\ ~Loose(o[1]) => o = q
Either(i, b) == <<"accept", i, None>> \notin b \/ <<"drop", i, None>> \notin b
InMem(i, b, m) ==
  \A o \in b : o[2] = i /\ o[1] \in {"jump", "ttl", "snat"} => o[3] \in m
Added == {"jump", "igmp", "ttl"}
Cleared(i, b) == \A o \in b : o[2] = i => o[1] \notin Added
Gone(i, b) == \A o \in b : o[2] = i => Loose(o[1])

\* an event came between flush() and apply()
Late(i) == <<i, "flush">> \in lost

\* what an instance has is its own, and it will find it again
InOrder(i) ==
  /\ Single(i, box) /\ Either(i, box) /\ InMem(i, box, mem[i])
  /\ i \in There(conf) \/ Gone(i, box)
  /\ view[i] # None \/ subs[i] = {} => Cleared(i, box)

Tidied == Tidy(box) /\ \A i \in Inst : Late(i) \/ InOrder(i)

Following == \A i \in Inst : view[i] # None /\ FollowsIntf(i, view[i]) => "intf" \in subs[i]

\* each instance gets its configuration
Configured ==
  /\ kind = "nat" => SameSubnets(next.conf)
  /\ phase \in {"idle", "apply"} /\ kind = "nat" => SameSubnets(conf)
  /\ phase = "remove" => \A i \in Inst \ todo : next.conf[i] = None => conf[i] = None
  /\ phase = "flush" => /\ \A i \in Inst \ todo : next.conf[i] = conf[i]
                        /\ todo \subseteq There(next.conf)

\* the subnets are those of the uplink, or about to go
Subnets ==
  kind = "nat" =>
    /\ \A o \in box : o[1] = "subnet" =>
         \/ nat.users # {} /\ o[3] \in nat.subnets
         \/ \E i \in Inst : view[i] # None /\ o[3] \in view[i].del
    /\ \A i \in Inst : view[i] # None =>
         /\ i \in nat.users /\ nat.subnets = 1 .. conf[i].v
         /\ view[i].add \subseteq nat.subnets

Typed ==
  /\ mem = [i \in Inst |-> mem[i]] /\ wan \in Wan \cup {None} /\ nat.subnets \subseteq 1 .. 2
  /\ \A i \in Inst : conf[i] \in Conf \cup {None} /\ next.conf[i] \in Conf \cup {None}

LeftInv == Typed /\ Tidied /\ Following /\ Configured /\ Subnets

\* What Set() makes.
LEMMA SetFacts ==
  ASSUME NEW what, NEW i, NEW d, NEW b
  PROVE  \A o : o \in Set(what, i, d, b) <=>
           o = <<what, i, d>> \/ (o \in b /\ ~(o[1] = what /\ o[2] = i))
BY DEF Set, Without, Own

\* What Without() leaves.
LEMMA WithoutFacts ==
  ASSUME NEW what, NEW i, NEW b
  PROVE  \A o : o \in Without(what, i, b) <=> o \in b /\ ~(o[1] \in what /\ o[2] = i)
BY DEF Without, Own

\* Taking away keeps order.
LEMMA FewerTidy ==
  ASSUME NEW b, NEW a, a \subseteq b
  PROVE  /\ Tidy(b) => Tidy(a)
         /\ \A i : /\ Single(i, b) => Single(i, a)
                   /\ Either(i, b) => Either(i, a)
                   /\ Cleared(i, b) => Cleared(i, a)
                   /\ Gone(i, b) => Gone(i, a)
                   /\ \A m : InMem(i, b, m) => InMem(i, a, m)
<1>1. Tidy(b) => Tidy(a)
  BY DEF Tidy
<1>2. \A i : (Single(i, b) => Single(i, a)) /\ (Either(i, b) => Either(i, a))
  BY DEF Single, Either
<1>3. \A i : (Cleared(i, b) => Cleared(i, a)) /\ (Gone(i, b) => Gone(i, a))
  BY DEF Cleared, Gone
<1>4. \A i, m : InMem(i, b, m) => InMem(i, a, m)
  BY DEF InMem
<1> QED BY <1>1, <1>2, <1>3, <1>4

\* flush() takes all of an instance, if it remembers what it has added.
LEMMA FlushedGone ==
  ASSUME NEW i \in Inst, NEW b, kind \in Kinds, Tidy(b), InMem(i, b, mem[i])
  PROVE  Gone(i, Flushed(i, b)) /\ Cleared(i, Flushed(i, b))
<1> DEFINE a == Flushed(i, b)
<1> SUFFICES ASSUME NEW o \in a, o[2] = i
             PROVE  Loose(o[1]) /\ o[1] \notin Added
  BY DEF Gone, Cleared
<1>1. /\ o \in b /\ o = <<o[1], i, o[3]>> /\ o[1] \in TagsOf /\ o[1] # "subnet"
      /\ o[1] \in {"accept", "drop", "filter", "post", "module", "helper"} => o[3] = None
      /\ kind = "pass" => PassPart(o)
      /\ o[1] \in {"jump", "ttl", "snat"} => o[3] \in mem[i]
  BY FlushedWithin, AddressAssumption DEF Tidy, InMem
<1>2. CASE kind \in {"dns", "default"}
  BY <1>1, <1>2, WithoutFacts DEF Flushed, DnsFlushed, TagsOf
<1>3. CASE kind \in {"dhcp", "mdns"}
  BY <1>1, <1>3, WithoutFacts DEF Flushed, DhcpFlushed, MdnsFlushed, TagsOf
<1>4. CASE kind \in {"sshd", "icmp"}
  BY <1>1, <1>4, WithoutFacts DEF Flushed, SshdFlushed, IcmpFlushed, TagsOf
<1>5. CASE kind = "upnp"
  <2>1. a = Without({"conf", "filter", "post"}, i, b) \ {<<"jump", i, x>> : x \in mem[i]}
    BY <1>5 DEF Flushed, UpnpFlushed
  <2> QED BY <1>1, <1>5, <2>1, WithoutFacts DEF TagsOf
<1>6. CASE kind = "mroute"
  <2>1. a = Without({"conf"}, i, b) \ {<<what, i, x>> : what \in {"ttl", "hw"}, x \in mem[i]}
    BY <1>6 DEF Flushed, MrouteFlushed
  <2>2. o[1] # "conf"
    BY <2>1, WithoutFacts
  <2>3. o[1] # "ttl"
    BY <1>1, <2>1
  <2> QED BY <1>1, <1>6, <2>2, <2>3 DEF TagsOf, Loose, Added
<1>7. CASE kind = "igmp"
  BY <1>1, <1>7 DEF Flushed, IgmpFlushed, TagsOf, Loose, Added
<1>8. CASE kind = "docker"
  BY <1>1, <1>8 DEF TagsOf, Loose, Added
<1>9. CASE kind = "nat"
  <2>1. a \subseteq b \ {<<what, i, x>> : what \in Snat(conf[i]), x \in mem[i]}
    <3>1. a = NatFlushed(i, b)
      BY <1>9 DEF Flushed
    <3> QED BY <3>1 DEF NatFlushed
  <2>2. "snat" \in Snat(conf[i])
    BY DEF Snat
  <2>3. o[1] # "snat"
    BY <1>1, <2>1, <2>2
  <2> QED BY <1>1, <1>9, <2>3 DEF TagsOf, Loose, Added
<1>10. CASE kind = "pass"
  <2>1. o \notin Parts(i, [module |-> Modules, helper |-> Helped, drop |-> Dropped])
    BY <1>10 DEF Flushed, PassFlushed
  <2>2. o[1] \notin {"module", "helper", "drop"}
    BY <1>1, <1>10, <2>1 DEF PassPart, Parts
  <2> QED BY <1>1, <1>10, <2>2 DEF TagsOf, Loose, Added
<1> QED BY <1>2, <1>3, <1>4, <1>5, <1>6, <1>7, <1>8, <1>9, <1>10 DEF Kinds

\* a is as much in order as b was, and nothing is new but what is of i.
Better(i, b, a) ==
  /\ Tidy(b) => Tidy(a)
  /\ \A o \in a : o[2] # i /\ o[1] # "subnet" => o \in b
  /\ Single(i, b) => Single(i, a)
  /\ Either(i, b) => Either(i, a)
  /\ \A m : InMem(i, b, m) => InMem(i, a, m)
  /\ Cleared(i, b) => Cleared(i, a)

\* One after the other.
LEMMA BetterTwice ==
  ASSUME NEW i, NEW b, NEW a, NEW x, Better(i, b, a), Better(i, a, x)
  PROVE  Better(i, b, x)
BY DEF Better

\* To take away, or to write a file that belongs there.
LEMMA BetterSet ==
  ASSUME NEW i \in Inst, NEW d, NEW b, NEW what \in TagsOf, kind \in Kinds \ {"pass"},
         what \notin {"subnet", "accept", "drop", "filter", "post", "snat"} \cup Added
  PROVE  Better(i, b, Set(what, i, d, b))
<1> DEFINE a == Set(what, i, d, b)
           new == <<what, i, d>>
<1>1. \A o : o \in a <=> o = new \/ (o \in b /\ ~(o[1] = what /\ o[2] = i))
  BY SetFacts
<1>2. new[1] = what /\ new[2] = i /\ new[3] = d /\ what \notin {"module", "helper"}
  BY DEF TagsOf, Kinds
<1> HIDE DEF a
<1>3. Tidy(b) => Tidy(a)
  BY <1>1, <1>2 DEF Tidy
<1>4. \A o \in a : o[2] # i /\ o[1] # "subnet" => o \in b
  BY <1>1, <1>2
<1>5. Single(i, b) => Single(i, a)
  BY <1>1, <1>2 DEF Single
<1>6. Either(i, b) => Either(i, a)
  BY <1>1, <1>2 DEF Either
<1>7. \A m : InMem(i, b, m) => InMem(i, a, m)
  BY <1>1, <1>2 DEF InMem, Added
<1>8. Cleared(i, b) => Cleared(i, a)
  BY <1>1, <1>2 DEF Cleared
<1> QED BY <1>3, <1>4, <1>5, <1>6, <1>7, <1>8 DEF Better, a

\* To take away.
LEMMA BetterFewer ==
  ASSUME NEW i, NEW b, NEW a, a \subseteq b
  PROVE  Better(i, b, a)
BY FewerTidy DEF Better

\* apply() of the plugins that only write files of their own.
LEMMA BetterFiles ==
  ASSUME NEW i \in Inst, NEW c, NEW w, NEW b,
         kind \in {"dns", "default", "dhcp", "mdns", "docker"}
  PROVE  Better(i, b, Applied(i, c, w, b))
<1> DEFINE a == Applied(i, c, w, b)
           empty == DnsFlushed(i, b)
<1>1. kind \in Kinds \ {"pass"} /\ "conf" \in TagsOf
  BY DEF Kinds, TagsOf
<1>2. \A d, x : Better(i, x, Set("conf", i, d, x))
  BY <1>1, BetterSet DEF Added
<1>3. Better(i, b, b) /\ Better(i, b, Without({"conf"}, i, b)) /\ Better(i, b, empty)
  BY BetterFewer DEF Without, DnsFlushed
<1>4. CASE kind \in {"dhcp", "mdns", "docker"}
  <2>1. \/ a = b \/ a = Without({"conf"}, i, b)
        \/ \E d : a = Set("conf", i, d, b)
    BY <1>4 DEF Applied, DhcpApplied, MdnsApplied, DockerApplied
  <2> QED BY <1>2, <1>3, <2>1
<1>5. CASE kind \in {"dns", "default"}
  <2> DEFINE full == empty \cup {<<"conf", i, None>>}
  <2>1. full = Set("conf", i, None, empty)
    <3>1. \A o \in empty : ~(o[1] = "conf" /\ o[2] = i)
      BY DEF DnsFlushed, Without, Own
    <3> QED BY <3>1, SetFacts
  <2>2. Better(i, b, full)
    <3> HIDE DEF full, empty
    <3>1. Better(i, empty, full)
      BY <1>2, <2>1
    <3> QED BY <1>3, <3>1, BetterTwice
  <2>3. \A d, x : Better(i, x, Set("resolv", i, d, x))
    BY <1>1, <1>5, BetterSet DEF Added, TagsOf
  <2>4. \A x : Better(i, b, x) => Better(i, b, Resolv(i, c, w, x))
    <3> SUFFICES ASSUME NEW x, Better(i, b, x)
                 PROVE  Better(i, b, Resolv(i, c, w, x))
      OBVIOUS
    <3>1. Better(i, x, x)
      BY BetterFewer
    <3>2. Better(i, x, Resolv(i, c, w, x))
      BY <2>3, <3>1 DEF Resolv
    <3> QED BY <3>2, BetterTwice
  <2>5. a \in {empty, Resolv(i, c, w, empty), Resolv(i, c, w, full)}
    BY <1>5 DEF Applied, DnsApplied, DefaultApplied
  <2> HIDE DEF full, empty, a
  <2> QED BY <1>3, <2>2, <2>4, <2>5 DEF a
<1> QED BY <1>4, <1>5

\* The rules of sshd and ICMP: one of accept and drop.
LEMMA BetterRules ==
  ASSUME NEW i \in Inst, NEW c, NEW w, NEW b, kind \in {"sshd", "icmp"}
  PROVE  Better(i, b, Applied(i, c, w, b))
<1> DEFINE open(x) == Set("accept", i, None, Without({"drop"}, i, x))
           shut(x) == Set("drop", i, None, Without({"accept"}, i, x))
<1>1. kind \in Kinds \ {"pass"} /\ {"accept", "drop"} \subseteq TagsOf
  BY DEF Kinds, TagsOf
<1>2. ASSUME NEW x, NEW rule \in {"accept", "drop"}, NEW other \in {"accept", "drop"}, rule # other
      PROVE  Better(i, x, Set(rule, i, None, Without({other}, i, x)))
  <2> DEFINE y == Set(rule, i, None, Without({other}, i, x))
             new == <<rule, i, None>>
  <2>1. \A o : o \in y <=> o = new \/ (o \in x /\ ~(o[1] \in {rule, other} /\ o[2] = i))
    BY SetFacts, WithoutFacts
  <2>2. new[1] = rule /\ new[2] = i /\ new[3] = None
    OBVIOUS
  <2> HIDE DEF y
  <2>3. Tidy(x) => Tidy(y)
    BY <1>1, <2>1, <2>2 DEF Tidy
  <2>4. \A o \in y : o[2] # i /\ o[1] # "subnet" => o \in x
    BY <2>1, <2>2
  <2>5. Single(i, x) => Single(i, y)
    BY <2>1, <2>2 DEF Single
  <2>6. Either(i, y)
    <3>1. <<other, i, None>> \notin y
      BY <1>2, <2>1
    <3> QED BY <1>2, <3>1 DEF Either
  <2>7. \A m : InMem(i, x, m) => InMem(i, y, m)
    BY <2>1, <2>2 DEF InMem
  <2>8. Cleared(i, x) => Cleared(i, y)
    BY <2>1, <2>2 DEF Cleared, Added
  <2> QED BY <2>3, <2>4, <2>5, <2>6, <2>7, <2>8 DEF Better, y
<1>3. \A x : Better(i, x, open(x)) /\ Better(i, x, shut(x))
  BY <1>2
<1>4. CASE kind = "icmp"
  BY <1>3, <1>4 DEF Applied, IcmpApplied
<1>5. CASE kind = "sshd"
  <2> DEFINE b1 == IF w.ip = None THEN b ELSE Set("conf", i, w.ip, b)
             b2 == Without({"conf"}, i, b)
  <2>1. Better(i, b, b1)
    <3>1. Better(i, b, b)
      BY BetterFewer
    <3>2. Better(i, b, Set("conf", i, w.ip, b))
      BY <1>1, <1>5, BetterSet DEF Added, TagsOf
    <3> QED BY <3>1, <3>2
  <2>2. Better(i, b, b2)
    BY BetterFewer DEF Without
  <2>3. Without({"conf", "accept"}, i, b) = Without({"accept"}, i, b2)
    BY DEF Without, Own
  <2>4. Applied(i, c, w, b) = IF c.on THEN open(b1) ELSE shut(b2)
    BY <1>5, <2>3 DEF Applied, SshdApplied
  <2> HIDE DEF open, shut, b1, b2
  <2> QED BY <1>3, <2>1, <2>2, <2>4, BetterTwice
<1> QED BY <1>4, <1>5

\* apply() of i leaves the box in order, and what it adds is remembered, or
\* subscribed for.
Orderly(i, b, m) == Tidy(b) /\ Single(i, b) /\ Either(i, b) /\ InMem(i, b, m)
Serves(i, w, b, a) ==
  /\ Tidy(b) => Tidy(a)
  /\ \A o \in a : o[2] # i /\ o[1] # "subnet" => o \in b
  /\ Orderly(i, b, mem[i]) /\ Cleared(i, b) =>
       /\ Orderly(i, a, Remembered(i, conf[i], w))
       /\ Cleared(i, a) \/ FollowsIntf(i, w)

\* Plugins that keep the order remember nothing.
LEMMA BetterServes ==
  ASSUME NEW i \in Inst, NEW w, NEW b,
         kind \in {"dns", "default", "dhcp", "mdns", "docker", "sshd", "icmp"}
  PROVE  Serves(i, w, b, Applied(i, conf[i], w, b))
<1>1. Better(i, b, Applied(i, conf[i], w, b))
  BY BetterFiles, BetterRules
<1>2. Remembered(i, conf[i], w) = mem[i]
  BY DEF Remembered
<1> QED BY <1>1, <1>2 DEF Better, Serves, Orderly

\* UPnP: the jump of the external address is remembered.
LEMMA UpnpServes ==
  ASSUME NEW i \in Inst, NEW w, NEW b, kind = "upnp"
  PROVE  Serves(i, w, b, Applied(i, conf[i], w, b))
<1> DEFINE a == Applied(i, conf[i], w, b)
           e == External(conf[i], w)
<1>1. a = UpnpApplied(i, conf[i], w, b)
  BY DEF Applied
<1>2. TagsOf = {"conf", "jump", "filter", "post"} /\ \A what : ~Loose(what)
  BY DEF TagsOf, Loose
<1>3. CASE e = None \/ w.ip = None
  <2>1. a = b
    BY <1>1, <1>3 DEF UpnpApplied
  <2>2. Remembered(i, conf[i], w) = mem[i]
    BY <1>3 DEF Remembered
  <2> QED BY <2>1, <2>2 DEF Serves
<1>4. CASE e # None /\ w.ip # None
  <2> DEFINE new == {<<"conf", i, <<e, w.ip>>>>, <<"jump", i, e>>, <<"filter", i, None>>,
                     <<"post", i, None>>}
  <2>1. \A o : o \in a <=> o \in new \/ (o \in b /\ ~(o[1] = "conf" /\ o[2] = i))
    BY <1>1, <1>4, SetFacts DEF UpnpApplied
  <2>2. Remembered(i, conf[i], w) = {e}
    BY <1>4 DEF Remembered
  <2>3. \A o \in new : /\ o = <<o[1], i, o[3]>> /\ o[2] = i /\ o[1] \in TagsOf
                       /\ o[1] \in {"filter", "post"} => o[3] = None
                       /\ o[1] = "jump" => o[3] = e
    BY <1>2
  <2>4. \A o, q \in new : o[1] = q[1] => o = q
    OBVIOUS
  <2> HIDE DEF a, new, e
  <2>5. Tidy(b) => Tidy(a)
    BY <1>2, <2>1, <2>3 DEF Tidy
  <2>6. \A o \in a : o[2] # i => o \in b
    BY <2>1, <2>3
  <2>7. ASSUME Orderly(i, b, mem[i]), Cleared(i, b)
        PROVE  Single(i, a) /\ Either(i, a) /\ InMem(i, a, {e})
    <3>1. ASSUME NEW o \in a, o[2] = i
          PROVE  /\ o[1] \in {"conf", "jump"} => o \in new
                 /\ o[1] \in {"filter", "post"} => o = <<o[1], i, None>>
                 /\ o[1] \in TagsOf
      BY <2>1, <2>3, <2>7, <3>1 DEF Orderly, Cleared, Tidy, Added
    <3>2. Single(i, a)
      BY <1>2, <2>4, <3>1 DEF Single
    <3>3. Either(i, a)
      <4>1. <<"accept", i, None>> \notin a
        BY <1>2, <3>1
      <4> QED BY <4>1 DEF Either
    <3>4. InMem(i, a, {e})
      BY <1>2, <2>3, <3>1 DEF InMem
    <3> QED BY <3>2, <3>3, <3>4
  <2>8. FollowsIntf(i, w)
    BY <1>4 DEF FollowsIntf, e
  <2> QED BY <2>2, <2>5, <2>6, <2>7, <2>8 DEF Serves, Orderly, a
<1> QED BY <1>3, <1>4

\* IGMP: the chain was empty.
LEMMA IgmpServes ==
  ASSUME NEW i \in Inst, NEW w, NEW b, kind = "igmp"
  PROVE  Serves(i, w, b, Applied(i, conf[i], w, b))
<1> DEFINE a == Applied(i, conf[i], w, b)
<1>1. a = IgmpApplied(i, conf[i], w, b)
  BY DEF Applied
<1>2. TagsOf = {"conf", "igmp"} /\ Loose("conf") /\ Remembered(i, conf[i], w) = mem[i]
  BY DEF TagsOf, Loose, Remembered
<1>3. CASE ~(w.up /\ Alone(i))
  BY <1>1, <1>2, <1>3 DEF IgmpApplied, Serves
<1>4. CASE w.up /\ Alone(i)
  <2> DEFINE new == {<<"conf", i, conf[i].v>>, <<"igmp", i, conf[i].v>>}
  <2>1. \A o : o \in a <=> o \in new \/ (o \in b /\ o[1] # "conf")
    BY <1>1, <1>4 DEF IgmpApplied, Files
  <2>2. \A o \in new : o = <<o[1], i, o[3]>> /\ o[2] = i /\ o[1] \in TagsOf
    BY <1>2
  <2>3. \A o, q \in new : o[1] = q[1] => o = q
    OBVIOUS
  <2> HIDE DEF a, new
  <2>4. Tidy(b) => Tidy(a)
    BY <1>2, <2>1, <2>2 DEF Tidy
  <2>5. \A o \in a : o[2] # i => o \in b
    BY <2>1, <2>2
  <2>6. ASSUME Orderly(i, b, mem[i]), Cleared(i, b)
        PROVE  Single(i, a) /\ Either(i, a) /\ InMem(i, a, mem[i])
    <3>1. ASSUME NEW o \in a, o[2] = i
          PROVE  o \in new /\ o[1] \in TagsOf
      BY <1>2, <2>1, <2>2, <2>6, <3>1 DEF Orderly, Cleared, Tidy, Added
    <3>2. Single(i, a)
      BY <2>3, <3>1 DEF Single
    <3>3. Either(i, a)
      <4>1. <<"accept", i, None>> \notin a
        BY <1>2, <3>1
      <4> QED BY <4>1 DEF Either
    <3>4. InMem(i, a, mem[i])
      BY <1>2, <3>1 DEF InMem
    <3> QED BY <3>2, <3>3, <3>4
  <2>7. FollowsIntf(i, w)
    BY <1>4 DEF FollowsIntf
  <2> QED BY <1>2, <2>4, <2>5, <2>6, <2>7 DEF Serves, Orderly, a
<1> QED BY <1>3, <1>4

\* The multicast routes: the last one, and the address, are remembered.
LEMMA MrouteServes ==
  ASSUME NEW i \in Inst, NEW w, NEW b, kind = "mroute"
  PROVE  Serves(i, w, b, Applied(i, conf[i], w, b))
<1> DEFINE a == Applied(i, conf[i], w, b)
           m == Remembered(i, conf[i], w)
<1>1. a = MrouteApplied(i, conf[i], w, b)
  BY DEF Applied
<1>2. TagsOf = {"conf", "ttl", "hw"} /\ Loose("hw") /\ FollowsIntf(i, w)
  BY DEF TagsOf, Loose, FollowsIntf
<1>3. CASE ~w.up
  <2>1. a = b
    BY <1>1, <1>3 DEF MrouteApplied
  <2>2. m = mem[i]
    BY <1>3 DEF Remembered
  <2> QED BY <2>1, <2>2 DEF Serves
<1>4. CASE ~~w.up
  <2> DEFINE ttl == IF w.ip = None THEN {} ELSE {<<"ttl", i, w.ip>>}
             hw == {<<"hw", i, route>> : route \in 1 .. conf[i].v}
             new == {<<"conf", i, conf[i].v>>} \cup ttl \cup hw
  <2>1. a = Set("conf", i, conf[i].v, b) \cup ttl \cup hw
    BY <1>1, <1>4 DEF MrouteApplied
  <2>2. m = {conf[i].v} \cup ({w.ip} \ {None})
    BY <1>4 DEF Remembered
  <2>3. /\ \A o \in ttl : o = <<"ttl", i, w.ip>> /\ o[2] = i /\ o[1] = "ttl" /\ o[3] \in m
        /\ \A o \in hw : o = <<o[1], i, o[3]>> /\ o[2] = i /\ o[1] = "hw"
    BY <2>2
  <2>4. \A o, q \in new : o[1] = q[1] /\ o[1] # "hw" => o = q
    <3> HIDE DEF ttl, hw
    <3> QED BY <2>3
  <2>5. \A o \in new : /\ o = <<o[1], i, o[3]>> /\ o[2] = i /\ o[1] \in TagsOf
                       /\ o[1] = "ttl" => o[3] \in m
    <3> HIDE DEF ttl, hw, m
    <3> QED BY <1>2, <2>3
  <2>6. \A o : o \in a <=> o \in new \/ (o \in b /\ ~(o[1] = "conf" /\ o[2] = i))
    <3> HIDE DEF ttl, hw
    <3> QED BY <2>1, SetFacts
  <2> HIDE DEF a, new, m
  <2>7. Tidy(b) => Tidy(a)
    BY <1>2, <2>5, <2>6 DEF Tidy
  <2>8. \A o \in a : o[2] # i => o \in b
    BY <2>5, <2>6
  <2>9. ASSUME Orderly(i, b, mem[i]), Cleared(i, b)
        PROVE  Single(i, a) /\ Either(i, a) /\ InMem(i, a, m)
    <3>1. ASSUME NEW o \in a, o[2] = i
          PROVE  (o \in new \/ o[1] = "hw") /\ o[1] \in TagsOf
      BY <1>2, <2>5, <2>6, <2>9, <3>1 DEF Orderly, Cleared, Tidy, Added
    <3>2. Single(i, a)
      BY <1>2, <2>4, <3>1 DEF Single
    <3>3. Either(i, a)
      <4>1. <<"accept", i, None>> \notin a
        BY <1>2, <3>1
      <4> QED BY <4>1 DEF Either
    <3>4. InMem(i, a, m)
      BY <1>2, <2>5, <3>1 DEF InMem
    <3> QED BY <3>2, <3>3, <3>4
  <2> QED BY <1>2, <2>7, <2>8, <2>9 DEF Serves, Orderly, a, m
<1> QED BY <1>3, <1>4

\* The passthroughs: what a protocol needs is fixed, one of accept and drop.
LEMMA PassServes ==
  ASSUME NEW i \in Inst, NEW w, NEW b, kind = "pass"
  PROVE  Serves(i, w, b, Applied(i, conf[i], w, b))
<1> DEFINE a == Applied(i, conf[i], w, b)
           open == Parts(i, [module |-> Modules, helper |-> Helped, accept |-> {"pptp"}])
           shut == Parts(i, [drop |-> Dropped])
           all == Parts(i, [module |-> Modules, helper |-> Helped, drop |-> Dropped,
                            accept |-> {"pptp"}])
<1>1. a = IF conf[i].on THEN (b \ shut) \cup open ELSE (b \ open) \cup shut
  BY DEF Applied, PassApplied
<1>2. TagsOf = {"module", "helper", "drop", "accept"} /\ Remembered(i, conf[i], w) = mem[i]
  BY DEF TagsOf, Remembered
<1>3. open \cup shut \subseteq all
  BY DEF Parts
<1>4. \A o \in all : o = <<o[1], i, None>> /\ o[2] = i /\ o[3] = None /\ o[1] \in TagsOf
  BY <1>2 DEF Parts
<1>5. /\ <<"accept", i, None>> \in all <=> <<"accept", i, None>> \in open
      /\ <<"drop", i, None>> \in all <=> <<"drop", i, None>> \in shut
      /\ <<"accept", i, None>> \notin shut /\ <<"drop", i, None>> \notin open
  BY DEF Parts
<1>6. \A o : o[2] = i => (PassPart(o) <=> o \in all)
  BY DEF PassPart
<1> HIDE DEF a, open, shut, all
<1>7. Tidy(b) => Tidy(a)
  <2>1. \A o \in a : o \in b \/ o \in all
    BY <1>1, <1>3
  <2>2. \A o \in all : /\ o = <<o[1], o[2], o[3]>> /\ o[1] \in TagsOf /\ o[1] # "subnet"
                       /\ o[2] \in Inst /\ o[3] = None /\ PassPart(o)
    BY <1>2, <1>4, <1>6
  <2> QED BY <2>1, <2>2 DEF Tidy
<1>8. \A o \in a : o[2] # i => o \in b
  BY <1>1, <1>3, <1>4
<1>9. ASSUME Orderly(i, b, mem[i])
      PROVE  Single(i, a) /\ Either(i, a) /\ InMem(i, a, mem[i]) /\ Cleared(i, a)
  <2>1. Tidy(a) /\ \A o \in a : o[1] \in TagsOf
    BY <1>7, <1>9 DEF Orderly, Tidy
  <2>2. Single(i, a)
    BY <1>2, <2>1 DEF Single, Tidy
  <2>3. Either(i, a)
    <3>1. /\ <<"accept", i, None>> \in b => <<"accept", i, None>> \in all
          /\ <<"drop", i, None>> \in b => <<"drop", i, None>> \in all
      <4>1. \A o \in b : PassPart(o)
        BY <1>9 DEF Orderly, Tidy
      <4> QED BY <4>1, <1>6
    <3> QED BY <1>1, <1>5, <3>1 DEF Either
  <2>4. InMem(i, a, mem[i]) /\ Cleared(i, a)
    BY <1>2, <2>1 DEF InMem, Cleared, Added
  <2> QED BY <2>2, <2>3, <2>4
<1> QED BY <1>2, <1>7, <1>8, <1>9 DEF Serves, Orderly, a

\* NAT: no address but that of the interface, which is remembered.
LEMMA NatServes ==
  ASSUME NEW i \in Inst, NEW w, NEW b, kind = "nat", w.ip # None
  PROVE  Serves(i, w, b, Applied(i, conf[i], w, b))
<1> DEFINE a == Applied(i, conf[i], w, b)
           added == {<<"subnet", None, s>> : s \in w.add}
           taken == {<<"subnet", None, s>> : s \in w.del}
           shared == (b \cup added) \ taken
<1>1. a = NatApplied(i, conf[i], w, b)
  BY DEF Applied
<1>2. /\ TagsOf = {"snat", "snat6", "subnet"} /\ Loose("snat6") /\ FollowsIntf(i, w)
      /\ "snat" \in Snat(conf[i]) /\ Snat(conf[i]) \subseteq {"snat", "snat6"}
  BY DEF TagsOf, Loose, FollowsIntf, Snat
<1>3. \A o \in added : o = <<o[1], None, o[3]>> /\ o[1] = "subnet" /\ o[2] = None
  OBVIOUS
<1>4. /\ \A o \in shared : o \in b \/ o \in added
      /\ Tidy(b) => Tidy(shared)
  <2> HIDE DEF added
  <2>1. \A o \in shared : o \in b \/ o \in added
    OBVIOUS
  <2> HIDE DEF shared
  <2> QED BY <1>2, <1>3, <2>1 DEF Tidy
<1>5. ASSUME Orderly(i, b, mem[i])
      PROVE  \A o \in shared : o[2] = i => o \in b /\ (o[1] = "snat" => o[3] \in mem[i])
  <2> HIDE DEF shared, added
  <2> QED BY <1>3, <1>4, <1>5, AddressAssumption DEF Orderly, InMem
<1>6. ASSUME Orderly(i, b, mem[i])
      PROVE  Tidy(shared) /\ \A o \in shared : o = <<o[1], o[2], o[3]>> /\ o[1] \in TagsOf
  BY <1>4, <1>6 DEF Orderly, Tidy
<1> HIDE DEF shared, added, taken
<1>7. CASE ~w.on
  <2>1. /\ a \subseteq shared \ {<<what, i, x>> : what \in Snat(conf[i]), x \in mem[i]}
        /\ Remembered(i, conf[i], w) = {}
    BY <1>1, <1>7 DEF NatApplied, NatFlushed, shared, added, taken, Remembered
  <2>2. Tidy(b) => Tidy(a)
    BY <1>4, <2>1, FewerTidy
  <2>3. \A o \in a : o[2] # i /\ o[1] # "subnet" => o \in b
    BY <1>3, <1>4, <2>1
  <2>4. ASSUME Orderly(i, b, mem[i])
        PROVE  Single(i, a) /\ Either(i, a) /\ InMem(i, a, {})
    <3>1. ASSUME NEW o \in a, o[2] = i
          PROVE  o[1] = "snat6" \/ o[1] = "subnet"
      <4>1. o = <<o[1], i, o[3]>> /\ o[1] \in TagsOf /\ (o[1] = "snat" => o[3] \in mem[i])
        BY <1>5, <1>6, <2>1, <2>4, <3>1
      <4>2. o \notin {<<what, i, x>> : what \in Snat(conf[i]), x \in mem[i]}
        BY <2>1
      <4>3. o[1] # "snat"
        BY <1>2, <4>1, <4>2
      <4> QED BY <1>2, <4>1, <4>3
    <3>2. \A o \in a : o[1] = "subnet" => o[2] # i
      BY <2>1, <1>6, <2>4, AddressAssumption DEF Tidy
    <3>3. Single(i, a)
      BY <1>2, <3>1, <3>2 DEF Single
    <3>4. Either(i, a)
      <4>1. <<"accept", i, None>> \notin a
        BY <3>1
      <4> QED BY <4>1 DEF Either
    <3>5. InMem(i, a, {})
      BY <3>1 DEF InMem
    <3> QED BY <3>3, <3>4, <3>5
  <2> QED BY <1>2, <2>1, <2>2, <2>3, <2>4 DEF Serves, Orderly, a
<1>8. CASE ~~w.on
  <2> DEFINE old == {<<what, i, x>> : what \in Snat(conf[i]), x \in mem[i] \ {w.ip}}
             new == {<<what, i, w.ip>> : what \in IF w.ip = None THEN {} ELSE Snat(conf[i])}
  <2>1. a = (shared \ old) \cup new /\ Remembered(i, conf[i], w) = {w.ip}
    <3>1. a = (shared \ old) \cup new
      BY <1>1, <1>8 DEF NatApplied, shared, added, taken
    <3>2. Remembered(i, conf[i], w) = {w.ip}
      BY <1>8 DEF Remembered
    <3> QED BY <3>1, <3>2
  <2>2. \A o \in new : /\ o = <<o[1], i, w.ip>> /\ o[2] = i /\ o[3] = w.ip
                       /\ o[1] \in {"snat", "snat6"}
    BY <1>2
  <2>3. \A x \in mem[i] : x # w.ip => <<"snat", i, x>> \in old
    BY <1>2
  <2> HIDE DEF old, new
  <2>4. Tidy(b) => Tidy(a)
    <3>1. Tidy(shared) => Tidy(a)
      BY <1>2, <2>1, <2>2 DEF Tidy
    <3> QED BY <1>4, <3>1
  <2>5. \A o \in a : o[2] # i /\ o[1] # "subnet" => o \in b
    BY <1>3, <1>4, <2>1, <2>2
  <2>6. ASSUME Orderly(i, b, mem[i])
        PROVE  Single(i, a) /\ Either(i, a) /\ InMem(i, a, {w.ip})
    <3>1. ASSUME NEW o \in a, o[2] = i
          PROVE  o[1] = "snat6" \/ o = <<"snat", i, w.ip>>
      <4>1. CASE o \in new
        BY <2>2, <4>1
      <4>2. CASE o \in shared \ old
        <5>1. /\ o = <<o[1], i, o[3]>> /\ o[1] \in TagsOf
              /\ o[1] = "snat" => o[3] \in mem[i]
          BY <1>5, <1>6, <2>6, <3>1, <4>2
        <5>2. o[1] # "subnet"
          BY <1>6, <2>6, <3>1, <4>2, AddressAssumption DEF Tidy
        <5>3. o[1] = "snat" => o[3] = w.ip
          BY <2>3, <4>2, <5>1
        <5> QED BY <1>2, <5>1, <5>2, <5>3
      <4> QED BY <2>1, <4>1, <4>2
    <3>2. Single(i, a)
      <4>1. <<"snat", i, w.ip>>[1] = "snat"
        OBVIOUS
      <4> QED BY <1>2, <3>1, <4>1 DEF Single
    <3>3. Either(i, a)
      <4>1. <<"accept", i, None>> \notin a
        BY <3>1
      <4> QED BY <4>1 DEF Either
    <3>4. InMem(i, a, {w.ip})
      BY <3>1 DEF InMem
    <3> QED BY <3>2, <3>3, <3>4
  <2> QED BY <1>2, <2>1, <2>4, <2>5, <2>6 DEF Serves, Orderly, a
<1> QED BY <1>7, <1>8

\* apply() of any plugin.
LEMMA AppliedServes ==
  ASSUME NEW i \in Inst, NEW w, NEW b, kind \in Kinds, w.ip # None
  PROVE  Serves(i, w, b, Applied(i, conf[i], w, b))
BY BetterServes, UpnpServes, IgmpServes, MrouteServes, PassServes, NatServes DEF Kinds

-----------------------------------------------------------------------------
(* What is left, step by step                                              *)

\* The box of one instance stays in order while it only loses, and nothing that
\* the instance has is forgotten.
LEMMA InOrderNext ==
  ASSUME NEW i \in Inst, InOrder(i), kind' = kind, mem'[i] = mem[i],
         \A o \in box' : o[2] = i => o \in box,
         i \in There(conf) => i \in There(conf'),
         view'[i] # None \/ subs'[i] = {} => view[i] # None \/ subs[i] = {}
  PROVE  InOrder(i)'
<1>1. Single(i, box)'
  BY DEF InOrder, Single, Loose
<1>2. Either(i, box)'
  <2>1. \A d : <<d, i, None>>[2] = i
    OBVIOUS
  <2> QED BY <2>1 DEF InOrder, Either
<1>3. InMem(i, box, mem[i])'
  BY DEF InOrder, InMem
<1>4. (i \in There(conf) \/ Gone(i, box))'
  BY DEF InOrder, Gone, Loose
<1>5. (view[i] # None \/ subs[i] = {} => Cleared(i, box))'
  BY DEF InOrder, Cleared
<1> QED BY <1>1, <1>2, <1>3, <1>4, <1>5 DEF InOrder

\* Tidiness of the box depends on what is looked at.
LEMMA TidyNext ==
  ASSUME setup' = setup, Tidy(box) => Tidy(box')
  PROVE  kind' = kind /\ (Tidy(box) => Tidy(box)')
<1>1. kind' = kind
  BY DEF kind
<1>2. TagsOf' = TagsOf
  BY <1>1 DEF TagsOf
<1>3. \A o : PassPart(o)' = PassPart(o)
  BY DEF PassPart, Parts
<1>4. Tidy(box)' = Tidy(box')
  BY <1>1, <1>2, <1>3 DEF Tidy
<1> QED BY <1>1, <1>4

\* Steps that leave the box and what is remembered alone.
LEMMA TidiedQuiet ==
  ASSUME Tidied, UNCHANGED <<setup, box, mem>>,
         \A i \in Inst : /\ Late(i) => Late(i)'
                         /\ i \in There(conf) => i \in There(conf')
                         /\ \/ view'[i] # None \/ subs'[i] = {} =>
                                 view[i] # None \/ subs[i] = {}
                            \/ Late(i)'
  PROVE  Tidied'
<1>1. kind' = kind /\ Tidy(box)'
  BY TidyNext DEF Tidied
<1>2. ASSUME NEW i \in Inst PROVE (Late(i) \/ InOrder(i))'
  BY <1>1, InOrderNext DEF Tidied
<1> QED BY <1>1, <1>2 DEF Tidied

\* Steps of one instance.
LEMMA TidiedOne ==
  ASSUME Tidied, NEW i \in Inst, setup' = setup, lost' = lost,
         Tidy(box) => Tidy(box'), \A o \in box' : o[2] # i /\ o[1] # "subnet" => o \in box,
         \A j \in Inst \ {i} : /\ mem'[j] = mem[j] /\ view'[j] = view[j] /\ subs'[j] = subs[j]
                               /\ j \in There(conf) => j \in There(conf'),
         InOrder(i) => InOrder(i)'
  PROVE  Tidied'
<1>1. kind' = kind /\ Tidy(box)' /\ Tidy(box')
  BY TidyNext DEF Tidied
<1>2. \A j \in Inst : Late(j) => Late(j)'
  BY DEF Late
<1>3. ASSUME NEW j \in Inst \ {i}, InOrder(j) PROVE InOrder(j)'
  <2>1. ASSUME NEW o \in box', o[2] = j PROVE o \in box
    BY <1>1, <2>1, AddressAssumption DEF Tidy
  <2> QED BY <1>1, <1>3, <2>1, InOrderNext
<1> QED BY <1>1, <1>2, <1>3 DEF Tidied

\* apply() takes no time where an event is concerned: what it follows stays.
LEMMA FollowingNext ==
  ASSUME Following, NEW i \in Inst, UNCHANGED <<setup, conf>>,
         view'[i] = None \/ view'[i] = view[i], subs'[i] = subs[i]
  PROVE  (view[i] # None /\ FollowsIntf(i, view[i]) => "intf" \in subs[i])'
<1>1. CASE view'[i] = None
  BY <1>1
<1>2. CASE view'[i] = view[i]
  <2>1. \A w : FollowsIntf(i, w)' = FollowsIntf(i, w)
    BY DEF FollowsIntf, kind, External, Alone, There
  <2> QED BY <1>2, <2>1 DEF Following
<1> QED BY <1>1, <1>2

\* Steps of nobody that is looked at here.
LEMMA LeftQuiet ==
  ASSUME LeftInv, UNCHANGED <<setup, phase, next, conf, subs, mem, nat, box, todo>>,
         \A i \in Inst : view'[i] = view[i], \A i \in Inst : Late(i) => Late(i)',
         wan' \in Wan \cup {None}
  PROVE  LeftInv'
<1>1. kind' = kind
  BY DEF kind
<1>2. Tidied'
  BY TidiedQuiet DEF LeftInv
<1>3. Following'
  BY FollowingNext DEF LeftInv, Following
<1>4. Configured'
  BY <1>1 DEF LeftInv, Configured, SameSubnets, There
<1>5. Subnets'
  BY <1>1 DEF LeftInv, Subnets
<1>6. Typed'
  BY DEF LeftInv, Typed
<1> QED BY <1>2, <1>3, <1>4, <1>5, <1>6 DEF LeftInv

\* At the start there is nothing.
LEMMA InitLeft == Init => LeftInv
<1> SUFFICES ASSUME Init PROVE LeftInv
  OBVIOUS
<1>1. /\ box = {} /\ phase = "idle" /\ There(conf) = {} /\ There(next.conf) = {}
      /\ \A i \in Inst : view[i] = None
  BY DEF Init, NoPlan, There
<1>2. Typed
  BY SetupAssumption DEF Init, NoPlan, Typed
<1>3. Tidied
  BY <1>1 DEF Tidied, Tidy, InOrder, Single, Either, InMem, Cleared, Gone
<1>4. Following /\ Subnets
  BY <1>1 DEF Following, Subnets
<1>5. Configured
  BY <1>1 DEF Configured, SameSubnets
<1> QED BY <1>2, <1>3, <1>4, <1>5 DEF LeftInv

\* A new configuration: what is not in it will be removed.
LEMMA ReapplyLeft ==
  ASSUME LeftInv, IInv, NatAgrees, NEW p \in setup.plans, Reapply(p)
  PROVE  LeftInv'
<1>1. /\ phase' = "remove" /\ next' = p /\ todo' = There(conf) \ There(p.conf)
      /\ UNCHANGED <<setup, conf, subs, view, mem, nat, wan, box, lost>>
  BY DEF Reapply, world
<1>2. kind' = kind
  BY <1>1 DEF kind
<1>3. Following'
  BY <1>1, FollowingNext DEF LeftInv, Following
<1>4. Tidied'
  BY <1>1, TidiedQuiet DEF LeftInv, Late
<1>5. Subnets'
  BY <1>1, <1>2 DEF LeftInv, Subnets
<1>6. kind = "nat" => SameSubnets(p.conf)
  BY DEF NatAgrees, IInv, Rows, kind
<1>7. Configured'
  BY <1>1, <1>2, <1>6 DEF Configured, There, SameSubnets
<1>8. Typed'
  <2>1. p.conf \in [Inst -> Conf \cup {None}]
    BY SetupAssumption DEF IInv, Rows
  <2> QED BY <1>1, <2>1 DEF LeftInv, Typed
<1> QED BY <1>3, <1>4, <1>5, <1>7, <1>8 DEF LeftInv

\* The configuration in effect, once more.
LEMMA RerunLeft ==
  ASSUME LeftInv, Rerun
  PROVE  LeftInv'
<1>1. /\ phase = "idle" /\ phase' = "flush" /\ next'.conf = conf /\ todo' = There(conf)
      /\ UNCHANGED <<setup, conf, subs, view, mem, nat, wan, box, lost>>
  BY DEF Rerun, world
<1>2. kind' = kind
  BY <1>1 DEF kind
<1>3. Following'
  BY <1>1, FollowingNext DEF LeftInv, Following
<1>4. Tidied'
  BY <1>1, TidiedQuiet DEF LeftInv, Late
<1>5. Subnets'
  BY <1>1, <1>2 DEF LeftInv, Subnets
<1>6. Configured'
  BY <1>1, <1>2 DEF LeftInv, Configured, There, SameSubnets
<1>7. Typed'
  BY <1>1 DEF LeftInv, Typed
<1> QED BY <1>3, <1>4, <1>5, <1>6, <1>7 DEF LeftInv

\* The next phase: every instance has the configuration it was to get.
LEMMA TurnLeft ==
  ASSUME LeftInv, IInv, Turn
  PROVE  LeftInv'
<1>1. /\ todo = {}
      /\ \/ phase = "remove" /\ phase' = "flush" /\ todo' = There(next.conf)
         \/ phase = "flush" /\ phase' = "apply" /\ todo' = There(conf)
         \/ phase = "apply" /\ phase' = "idle" /\ todo' = {}
      /\ UNCHANGED <<setup, next, conf, subs, view, mem, nat, wan, box, lost>>
  BY DEF Turn, IInv, Rows
<1>2. kind' = kind
  BY <1>1 DEF kind
<1>3. Following'
  BY <1>1, FollowingNext DEF LeftInv, Following
<1>4. Tidied'
  BY <1>1, TidiedQuiet DEF LeftInv, Late
<1>5. Subnets'
  BY <1>1, <1>2 DEF LeftInv, Subnets
<1>6. Configured'
  <2>1. CASE phase = "remove"
    BY <1>1, <1>2, <2>1 DEF LeftInv, Configured, There, SameSubnets
  <2>2. CASE phase = "flush"
    BY <1>1, <1>2, <2>2 DEF LeftInv, Configured, There, SameSubnets
  <2>3. CASE phase = "apply"
    BY <1>1, <1>2, <2>3 DEF LeftInv, Configured, There, SameSubnets
  <2> QED BY <1>1, <2>1, <2>2, <2>3
<1>7. Typed'
  BY <1>1 DEF LeftInv, Typed
<1> QED BY <1>3, <1>4, <1>5, <1>6, <1>7 DEF LeftInv

\* The subnets stay while somebody uses the uplink.
LEMMA SubnetsFlushed ==
  ASSUME NEW i, NEW b, NEW o \in NatFlushed(i, b), o[1] = "subnet"
  PROVE  o \in b /\ ~(nat.users \subseteq {i})
BY DEF NatFlushed

\* An instance is removed, and all it has.
LEMMA RemoveLeft ==
  ASSUME LeftInv, IInv, NEW i \in Inst, Remove(i)
  PROVE  LeftInv'
<1>1. /\ phase = "remove" /\ phase' = phase /\ todo' = todo \ {i}
      /\ conf' = [conf EXCEPT ![i] = None] /\ mem' = [mem EXCEPT ![i] = {}]
      /\ subs' = [subs EXCEPT ![i] = {}] /\ box' = Flushed(i, box) /\ nat' = Unused(i)
      /\ UNCHANGED <<setup, next, view, wan, lost>>
  BY DEF Remove, world
<1>2. kind' = kind /\ kind \in Kinds
  BY <1>1, SetupAssumption DEF IInv, Rows, kind
<1>3. /\ conf'[i] = None /\ mem'[i] = {} /\ subs'[i] = {}
      /\ \A j \in Inst \ {i} : conf'[j] = conf[j] /\ mem'[j] = mem[j] /\ subs'[j] = subs[j]
      /\ \A j \in Inst : view[j] = None
  BY <1>1 DEF IInv, Rows, Viewed, LeftInv, Typed
<1>4. Typed'
  BY <1>1, <1>3 DEF LeftInv, Typed, Unused
<1>5. box' \subseteq box
  BY <1>1, <1>2, FlushedWithin
<1>6. InOrder(i) => InOrder(i)'
  <2> SUFFICES ASSUME InOrder(i) PROVE InOrder(i)'
    OBVIOUS
  <2>1. Gone(i, box') /\ Cleared(i, box')
    BY <1>1, <1>2, FlushedGone DEF InOrder, LeftInv, Tidied
  <2>2. \A o \in box' : o[2] = i => Loose(o[1]) /\ o[1] \notin {"jump", "ttl", "snat"}
    BY <2>1 DEF Gone, Loose
  <2>3. (Gone(i, box) /\ Single(i, box) /\ InMem(i, box, {}))'
    BY <1>2, <2>2 DEF Gone, Single, InMem, Loose
  <2>4. Either(i, box)'
    BY <1>5 DEF InOrder, Either
  <2>5. Cleared(i, box)'
    BY <2>1 DEF Cleared
  <2> QED BY <1>3, <2>3, <2>4, <2>5 DEF InOrder, InMem
<1>7. Tidied'
  <2>1. Tidy(box) => Tidy(box')
    BY <1>5, FewerTidy
  <2>2. \A j \in Inst \ {i} : j \in There(conf) => j \in There(conf')
    BY <1>3 DEF There
  <2> QED BY <1>1, <1>3, <1>5, <1>6, <2>1, <2>2, TidiedOne DEF LeftInv
<1>8. Following'
  BY <1>1, <1>3 DEF Following
<1>9. Configured'
  <2>1. \A j \in Inst \ todo' : next.conf[j] = None => conf'[j] = None
    BY <1>1, <1>3 DEF LeftInv, Configured
  <2> QED BY <1>1, <1>2, <2>1 DEF LeftInv, Configured, SameSubnets, There
<1>10. Subnets'
  <2> SUFFICES ASSUME kind = "nat", NEW o \in box', o[1] = "subnet"
               PROVE  nat'.users # {} /\ o[3] \in nat'.subnets
    BY <1>1, <1>2, <1>3 DEF Subnets
  <2>1. o \in box /\ ~(nat.users \subseteq {i})
    <3>1. box' = NatFlushed(i, box)
      BY <1>1 DEF Flushed
    <3> QED BY <3>1, SubnetsFlushed
  <2>2. nat'.users # {} /\ nat'.subnets = nat.subnets
    BY <1>1, <2>1 DEF Unused
  <2> QED BY <1>3, <2>1, <2>2 DEF LeftInv, Subnets
<1> QED BY <1>4, <1>7, <1>8, <1>9, <1>10 DEF LeftInv

\* An instance gets its configuration; it is flushed if that is needed, but for NAT.
LEMMA FlushLeft ==
  ASSUME LeftInv, IInv, NEW i \in Inst, Flush(i)
  PROVE  LeftInv'
<1>1. /\ phase = "flush" /\ phase' = phase /\ i \in todo /\ todo' = todo \ {i}
      /\ conf' = [conf EXCEPT ![i] = next.conf[i]]
      /\ UNCHANGED <<setup, next, view, mem, nat, wan, lost>>
  BY DEF Flush, world
<1>2. \/ /\ i \in need /\ subs' = [subs EXCEPT ![i] = {}]
         /\ IF kind = "nat" THEN box' = box ELSE box' = Flushed(i, box)
      \/ i \notin need /\ subs' = subs /\ box' = box
  BY DEF Flush
<1>3. kind' = kind /\ kind \in Kinds
  BY <1>1, SetupAssumption DEF IInv, Rows, kind
<1>4. /\ conf'[i] = next.conf[i] /\ i \in There(conf')
      /\ \A j \in Inst \ {i} : conf'[j] = conf[j] /\ subs'[j] = subs[j]
      /\ \A j \in Inst : view[j] = None
  <2>1. next.conf[i] # None
    BY <1>1 DEF LeftInv, Configured, There
  <2>2. conf'[i] = next.conf[i] /\ \A j \in Inst \ {i} : conf'[j] = conf[j]
    BY <1>1 DEF IInv, Rows
  <2>3. \A j \in Inst \ {i} : subs'[j] = subs[j]
    BY <1>2 DEF IInv, Rows
  <2>4. \A j \in Inst : view[j] = None
    BY <1>1 DEF IInv, Viewed
  <2> QED BY <2>1, <2>2, <2>3, <2>4 DEF There
<1>5. box' \subseteq box
  BY <1>2, <1>3, FlushedWithin
<1>6. InOrder(i) => InOrder(i)'
  <2> SUFFICES ASSUME InOrder(i) PROVE InOrder(i)'
    OBVIOUS
  <2>1. (Single(i, box) /\ Either(i, box) /\ InMem(i, box, mem[i]))'
    BY <1>1, <1>3, <1>5 DEF InOrder, Single, Either, InMem, Loose
  <2>2. (subs[i] = {} => Cleared(i, box))'
    <3>1. CASE subs' = subs /\ box' = box
      BY <3>1 DEF InOrder, Cleared
    <3>2. CASE kind = "nat" /\ box' = box
      <4>1. Tidy(box) /\ \A what \in TagsOf : what \notin Added
        BY <3>2 DEF LeftInv, Tidied, TagsOf, Added
      <4>2. Cleared(i, box')
        BY <3>2, <4>1 DEF Cleared, Tidy
      <4> QED BY <4>2 DEF Cleared
    <3>3. CASE box' = Flushed(i, box)
      <4>1. Cleared(i, box')
        BY <1>3, <3>3, FlushedGone DEF InOrder, LeftInv, Tidied
      <4> QED BY <4>1 DEF Cleared
    <3> QED BY <1>2, <3>1, <3>2, <3>3
  <2> QED BY <1>1, <1>4, <2>1, <2>2 DEF InOrder
<1>7. Tidied'
  <2>1. Tidy(box) => Tidy(box')
    BY <1>5, FewerTidy
  <2>2. \A j \in Inst \ {i} : j \in There(conf) => j \in There(conf')
    BY <1>4 DEF There
  <2> QED BY <1>1, <1>4, <1>5, <1>6, <2>1, <2>2, TidiedOne DEF LeftInv
<1>8. Typed' /\ Following'
  BY <1>1, <1>4 DEF LeftInv, Typed, Following
<1>9. Configured'
  <2>1. \A j \in Inst \ todo' : next.conf[j] = conf'[j]
    BY <1>1, <1>4 DEF LeftInv, Configured
  <2>2. todo' \subseteq There(next.conf)
    BY <1>1 DEF LeftInv, Configured
  <2> QED BY <1>1, <1>3, <2>1, <2>2 DEF LeftInv, Configured, SameSubnets, There
<1>10. Subnets'
  BY <1>1, <1>3, <1>4, <1>5 DEF LeftInv, Subnets
<1> QED BY <1>7, <1>8, <1>9, <1>10 DEF LeftInv

\* apply() subscribes and reads; an instance that still follows somebody is late.
LEMMA LookLeft ==
  ASSUME LeftInv, IInv, NEW i \in Inst, Look(i)
  PROVE  LeftInv'
<1>1. /\ phase = "apply" /\ i \in todo \cap need /\ view[i] = None
      /\ view' = [view EXCEPT ![i] = Seen(i)]
      /\ subs' = [subs EXCEPT ![i] = @ \cup Follows(i, Seen(i))]
      /\ nat' = (IF kind = "nat" THEN Used(i) ELSE nat)
      /\ lost' = (lost \ {<<i, "event">>}) \cup (IF subs[i] # {} THEN {<<i, "flush">>} ELSE {})
      /\ UNCHANGED <<setup, phase, next, conf, todo, mem, wan, box>>
  BY DEF Look, world
<1>2. kind' = kind /\ conf[i] \in Conf
  BY <1>1 DEF kind, IInv, Viewed, There, LeftInv, Typed
<1>3. /\ view'[i] = Seen(i) /\ subs'[i] = subs[i] \cup Follows(i, Seen(i))
      /\ \A j \in Inst \ {i} : view'[j] = view[j] /\ subs'[j] = subs[j]
  BY <1>1 DEF IInv, Rows
<1>4. Tidied'
  <2>1. ASSUME NEW j \in Inst PROVE Late(j) => Late(j)'
    <3>1. <<j, "flush">> # <<i, "event">>
      OBVIOUS
    <3> QED BY <1>1, <3>1 DEF Late
  <2>2. subs[i] # {} => Late(i)'
    BY <1>1 DEF Late
  <2> QED BY <1>1, <1>3, <2>1, <2>2, TidiedQuiet DEF LeftInv
<1>5. Following'
  <2>1. ASSUME NEW j \in Inst, view'[j] # None, FollowsIntf(j, view[j])'
        PROVE  "intf" \in subs'[j]
    <3>1. \A w : FollowsIntf(j, w)' = FollowsIntf(j, w)
      BY <1>1 DEF FollowsIntf, kind, External, Alone, There
    <3>2. FollowsIntf(j, view'[j])
      BY <2>1, <3>1
    <3>3. CASE j = i
      BY <1>3, <3>2, <3>3 DEF Follows
    <3>4. CASE j # i
      BY <1>3, <2>1, <3>2, <3>4 DEF LeftInv, Following
    <3> QED BY <3>3, <3>4
  <2> QED BY <2>1 DEF Following
<1>6. Typed' /\ Configured'
  <2>1. nat'.subnets \subseteq 1 .. 2
    BY <1>1, <1>2 DEF Used, Conf, LeftInv, Typed
  <2> QED BY <1>1, <1>2, <2>1 DEF LeftInv, Typed, Configured, SameSubnets, There
<1>7. Subnets'
  <2> SUFFICES ASSUME kind = "nat" PROVE Subnets'
    BY <1>2 DEF Subnets
  <2> DEFINE new == 1 .. conf[i].v
  <2>1. /\ nat'.users = nat.users \cup {i} /\ nat'.subnets = new
        /\ Seen(i).del = nat.subnets \ new /\ Seen(i).add = new \ nat.subnets
    BY <1>1 DEF Used, Seen
  <2>2. Seen(i) # None
    <3>1. intf[i] \in [on : BOOLEAN, up : BOOLEAN, ip : Address]
      BY DEF IInv, Rows, Interfaces
    <3>2. new \subseteq 1 .. 2
      BY <1>2 DEF Conf
    <3>3. new \ nat.subnets \in SUBSET (1 .. 2) /\ nat.subnets \ new \in SUBSET (1 .. 2)
      BY <3>2 DEF LeftInv, Typed
    <3>4. Seen(i) \in Views
      BY <3>1, <3>3 DEF Seen, Views, LeftInv, Typed
    <3> QED BY <3>4, ViewAssumption
  <2> HIDE DEF new
  <2>3. ASSUME NEW o \in box, o[1] = "subnet"
        PROVE  \/ nat'.users # {} /\ o[3] \in nat'.subnets
               \/ \E j \in Inst : view'[j] # None /\ o[3] \in view'[j].del
    <3>1. CASE \E j \in Inst : view[j] # None /\ o[3] \in view[j].del
      BY <1>1, <1>3, <3>1
    <3>2. CASE o[3] \in nat.subnets
      BY <1>3, <2>1, <2>2, <3>2
    <3> QED BY <2>3, <3>1, <3>2 DEF LeftInv, Subnets
  <2>4. ASSUME NEW j \in Inst, view'[j] # None
        PROVE  /\ j \in nat'.users /\ nat'.subnets = 1 .. conf[j].v
               /\ view'[j].add \subseteq nat'.subnets
    <3>1. CASE j = i
      BY <1>3, <2>1, <3>1 DEF new
    <3>2. CASE j # i
      <4>1. view[j] # None /\ j \in nat.users /\ view[j].add \subseteq nat.subnets
            /\ nat.subnets = 1 .. conf[j].v
        BY <1>3, <2>4, <3>2 DEF LeftInv, Subnets
      <4>2. i \in There(conf) /\ j \in There(conf)
        BY <1>1, <4>1 DEF IInv, Viewed
      <4>3. conf[i].v = conf[j].v
        BY <1>1, <4>2 DEF LeftInv, Configured, SameSubnets
      <4> QED BY <1>3, <2>1, <3>2, <4>1, <4>3 DEF new
    <3> QED BY <3>1, <3>2
  <2> QED BY <1>1, <2>3, <2>4 DEF Subnets
<1> QED BY <1>4, <1>5, <1>6, <1>7 DEF LeftInv

\* There is nothing to apply.
LEMMA SkipLeft ==
  ASSUME LeftInv, IInv, NEW i \in Inst, Skip(i)
  PROVE  LeftInv'
<1>1. /\ phase = "apply" /\ UNCHANGED <<setup, phase, next, conf, subs, view, mem, nat, wan,
                                       box, lost>>
  BY DEF Skip, world
<1>2. kind' = kind
  BY <1>1 DEF kind
<1>3. Tidied'
  BY <1>1, TidiedQuiet DEF LeftInv, Late
<1>4. Typed' /\ Following'
  BY <1>1, FollowingNext DEF LeftInv, Typed, Following
<1>5. Configured' /\ Subnets'
  BY <1>1, <1>2 DEF LeftInv, Configured, SameSubnets, There, Subnets
<1> QED BY <1>3, <1>4, <1>5 DEF LeftInv

\* What NAT has of the subnets once it is applied.
LEMMA SubnetsApplied ==
  ASSUME NEW i, NEW c, NEW w, NEW b, NEW o \in NatApplied(i, c, w, b), o[1] = "subnet"
  PROVE  /\ o \in b \/ o[3] \in w.add
         /\ o = <<o[1], None, o[3]>> => o[3] \notin w.del
         /\ ~w.on => ~(nat.users \subseteq {i})
<1> DEFINE added == {<<"subnet", None, s>> : s \in w.add}
           taken == {<<"subnet", None, s>> : s \in w.del}
           shared == (b \cup added) \ taken
           new == {<<what, i, w.ip>> : what \in IF w.ip = None THEN {} ELSE Snat(c)}
<1>1. /\ \A x \in new : x[1] # "subnet"
      /\ \A x \in added : x[3] \in w.add
      /\ o = <<"subnet", None, o[3]>> /\ o[3] \in w.del => o \in taken
  BY DEF Snat
<1>2. o \in shared /\ (~w.on => ~(nat.users \subseteq {i}))
  <2>1. CASE ~w.on
    <3>1. o \in NatFlushed(i, shared)
      BY <2>1 DEF NatApplied
    <3> HIDE DEF shared
    <3> QED BY <3>1, SubnetsFlushed
  <2>2. CASE ~~w.on
    <3>1. o \in shared \/ o \in new
      BY <2>2 DEF NatApplied
    <3> QED BY <1>1, <2>2, <3>1
  <2> QED BY <2>1, <2>2
<1>3. o \in b \/ o \in added
  BY <1>2
<1>4. o \notin taken
  BY <1>2
<1> HIDE DEF added, taken, shared, new
<1> QED BY <1>1, <1>2, <1>3, <1>4

\* apply() writes: the rules of i are in order, and its subnets are those of the
\* uplink.
LEMMA BuildLeft ==
  ASSUME LeftInv, IInv, NEW i \in Inst, Build(i)
  PROVE  LeftInv'
<1> DEFINE w == view[i]
<1>1. /\ w # None /\ box' = Applied(i, conf[i], w, box)
      /\ mem' = [mem EXCEPT ![i] = Remembered(i, conf[i], w)]
      /\ nat' = (IF kind = "nat" /\ ~w.on THEN Unused(i) ELSE nat)
      /\ \/ kind = "sshd" /\ view' = view
         \/ kind # "sshd" /\ view' = [view EXCEPT ![i] = None]
      /\ UNCHANGED <<setup, phase, next, conf, subs, wan, lost>>
  BY DEF Build, Finished, world
<1>2. kind' = kind /\ kind \in Kinds
  BY <1>1, SetupAssumption DEF IInv, Rows, kind
<1>3. /\ phase = "apply" /\ i \in There(conf) /\ w.ip # None
      /\ \A j \in Inst : view[j] # None => j \in There(conf)
  BY <1>1, AddressAssumption DEF IInv, Viewed
<1>4. /\ mem'[i] = Remembered(i, conf[i], w)
      /\ kind # "sshd" => view'[i] = None
      /\ \A j \in Inst \ {i} : mem'[j] = mem[j] /\ view'[j] = view[j]
      /\ \A j \in Inst : view'[j] = None \/ view'[j] = view[j]
  BY <1>1 DEF LeftInv, Typed, IInv, Rows
<1>5. Serves(i, w, box, box')
  BY <1>1, <1>2, <1>3, AppliedServes
<1> HIDE DEF w
<1>6. InOrder(i) => InOrder(i)'
  <2> SUFFICES ASSUME InOrder(i) PROVE InOrder(i)'
    OBVIOUS
  <2>1. Orderly(i, box, mem[i]) /\ Cleared(i, box)
    BY <1>1 DEF InOrder, Orderly, LeftInv, Tidied, w
  <2>2. /\ Orderly(i, box', Remembered(i, conf[i], w))
        /\ Cleared(i, box') \/ FollowsIntf(i, w)
    BY <1>5, <2>1 DEF Serves
  <2>3. (Single(i, box) /\ Either(i, box) /\ InMem(i, box, mem[i]))'
    BY <1>2, <1>4, <2>2 DEF Orderly, Single, Either, InMem, Loose
  <2>4. (i \in There(conf))'
    BY <1>1, <1>3 DEF There
  <2>5. view'[i] # None \/ subs'[i] = {} => Cleared(i, box')
    <3>1. CASE kind = "sshd"
      <4>1. Tidy(box')
        BY <2>2 DEF Orderly
      <4> QED BY <3>1, <4>1 DEF Cleared, Tidy, TagsOf, Added
    <3>2. CASE kind # "sshd"
      <4>1. FollowsIntf(i, w) => subs'[i] # {}
        BY <1>1 DEF LeftInv, Following, w
      <4> QED BY <1>4, <2>2, <3>2, <4>1
    <3> QED BY <3>1, <3>2
  <2>6. (view[i] # None \/ subs[i] = {} => Cleared(i, box))'
    BY <2>5 DEF Cleared
  <2> QED BY <2>3, <2>4, <2>6 DEF InOrder
<1>7. Tidied'
  <2>1. /\ Tidy(box) => Tidy(box')
        /\ \A o \in box' : o[2] # i /\ o[1] # "subnet" => o \in box
    BY <1>5 DEF Serves
  <2> QED BY <1>1, <1>4, <1>6, <2>1, TidiedOne DEF LeftInv
<1>8. Following'
  BY <1>1, <1>4, FollowingNext DEF Following, LeftInv
<1>9. Configured'
  BY <1>1, <1>2, <1>3 DEF LeftInv, Configured, SameSubnets, There
<1>10. Typed'
  <2>1. mem' = [j \in Inst |-> mem'[j]]
    BY <1>1 DEF LeftInv, Typed
  <2>2. nat'.subnets \subseteq 1 .. 2
    BY <1>1 DEF LeftInv, Typed, Unused
  <2> QED BY <1>1, <2>1, <2>2 DEF LeftInv, Typed
<1>11. Subnets'
  <2> SUFFICES ASSUME kind = "nat" PROVE Subnets'
    BY <1>2 DEF Subnets
  <2>1. box' = NatApplied(i, conf[i], w, box) /\ view'[i] = None
    BY <1>1, <1>4 DEF Applied
  <2>2. /\ i \in nat.users /\ w.add \subseteq nat.subnets
        /\ \A j \in Inst : view[j] # None => j \in nat.users
    BY <1>1 DEF LeftInv, Subnets, w
  <2>3. /\ nat'.users = IF w.on THEN nat.users ELSE nat.users \ {i}
        /\ w.on \/ ~(nat.users \subseteq {i}) => nat'.subnets = nat.subnets
    <3>1. CASE w.on
      BY <1>1, <3>1
    <3>2. CASE ~w.on
      BY <1>1, <3>2 DEF Unused
    <3> QED BY <3>1, <3>2
  <2>4. ASSUME NEW o \in box', o[1] = "subnet"
        PROVE  \/ nat'.users # {} /\ o[3] \in nat'.subnets
               \/ \E j \in Inst : view'[j] # None /\ o[3] \in view'[j].del
    <3>1. /\ o \in box \/ o[3] \in w.add
          /\ o = <<o[1], None, o[3]>> => o[3] \notin w.del
          /\ ~w.on => ~(nat.users \subseteq {i})
      BY <2>1, <2>4, SubnetsApplied
    <3>2. o = <<o[1], None, o[3]>>
      <4>1. Tidy(box)'
        BY <1>7 DEF Tidied
      <4> QED BY <2>4, <4>1 DEF Tidy
    <3>3. nat'.users # {} /\ nat'.subnets = nat.subnets
      <4>1. CASE w.on
        BY <2>2, <2>3, <4>1
      <4>2. CASE ~w.on
        BY <2>3, <3>1, <4>2
      <4> QED BY <4>1, <4>2
    <3>4. CASE o[3] \in nat.subnets
      BY <3>3, <3>4
    <3>5. CASE \E j \in Inst : view[j] # None /\ o[3] \in view[j].del
      BY <1>4, <3>1, <3>2, <3>5 DEF w
    <3>6. o \in box => \/ o[3] \in nat.subnets
                       \/ \E j \in Inst : view[j] # None /\ o[3] \in view[j].del
      BY <2>4 DEF LeftInv, Subnets
    <3> QED BY <2>2, <3>1, <3>4, <3>5, <3>6
  <2>5. ASSUME NEW j \in Inst, view'[j] # None
        PROVE  /\ j \in nat'.users /\ nat'.subnets = 1 .. conf[j].v
               /\ view'[j].add \subseteq nat'.subnets
    <3>1. j # i /\ view'[j] = view[j] /\ view[j] # None
      BY <1>4, <2>1, <2>5
    <3>2. /\ j \in nat.users /\ nat.subnets = 1 .. conf[j].v
          /\ view[j].add \subseteq nat.subnets
      BY <3>1 DEF LeftInv, Subnets
    <3>3. ~(nat.users \subseteq {i})
      BY <3>1, <3>2
    <3>4. nat'.subnets = nat.subnets /\ j \in nat'.users
      BY <2>3, <3>1, <3>2, <3>3
    <3> QED BY <3>1, <3>2, <3>4
  <2> QED BY <1>1, <2>4, <2>5 DEF Subnets
<1> QED BY <1>7, <1>8, <1>9, <1>10, <1>11 DEF LeftInv

\* reload_sshd.sh ends.
LEMMA InstallLeft ==
  ASSUME LeftInv, IInv, NEW i \in Inst, Install(i)
  PROVE  LeftInv'
<1>1. /\ UNCHANGED <<setup, phase, next, conf, subs, mem, nat, wan, box>>
      /\ \/ view[i] = None /\ todo' = todo /\ view' = view
         \/ view[i] # None /\ todo' = todo \ {i} /\ view' = [view EXCEPT ![i] = None]
      /\ lost \subseteq lost'
  BY DEF Install, world, Finished
<1>2. kind' = kind
  BY <1>1 DEF kind
<1>3. \A j \in Inst : view'[j] = None \/ view'[j] = view[j]
  BY <1>1 DEF IInv, Rows
<1>4. Tidied'
  BY <1>1, <1>3, TidiedQuiet DEF LeftInv, Late
<1>5. Typed' /\ Following'
  BY <1>1, <1>3, FollowingNext DEF LeftInv, Typed, Following
<1>6. Configured'
  <2>1. todo' = todo \/ phase = "apply"
    BY <1>1 DEF IInv, Viewed
  <2> QED BY <1>1, <1>2, <2>1 DEF LeftInv, Configured, SameSubnets, There
<1>7. Subnets'
  <2>1. kind # "sshd" => view' = view
    BY <1>1 DEF IInv, Scripts, Install
  <2>2. CASE view' = view
    BY <1>1, <1>2, <2>2 DEF LeftInv, Subnets
  <2>3. CASE kind = "sshd"
    BY <1>2, <2>3 DEF Subnets
  <2> QED BY <2>1, <2>2, <2>3
<1> QED BY <1>4, <1>5, <1>6, <1>7 DEF LeftInv

\* Every step keeps things in order.
LEMMA NextLeft ==
  ASSUME NatAgrees, LeftInv, IInv, [Next]_vars
  PROVE  LeftInv'
<1> DEFINE Quiet ==
             /\ UNCHANGED <<setup, phase, next, conf, subs, view, mem, nat, box, todo>>
             /\ lost \subseteq lost' /\ wan' \in Wan \cup {None}
<1>1. Quiet => LeftInv'
  BY LeftQuiet DEF Late
<1>2. wan \in Wan \cup {None}
  BY DEF LeftInv, Typed
<1>3. CASE UNCHANGED vars
  BY <1>1, <1>2, <1>3 DEF vars, loader, world
<1>4. CASE Fire
  BY <1>1, <1>2, <1>4 DEF Fire, loader, world
<1>5. ASSUME NEW i \in Inst, NEW a \in Address, IpChange(i, a) \/ Prefix(i, a)
      PROVE  LeftInv'
  <2>1. Quiet
    BY <1>2, <1>5 DEF IpChange, Prefix, Flagged
  <2> QED BY <1>1, <2>1
<1>6. ASSUME NEW x \in Wan \cup {None}, WanSwitch(x)
      PROVE  LeftInv'
  <2>1. Quiet
    BY <1>6 DEF WanSwitch, Flagged
  <2> QED BY <1>1, <2>1
<1>7. ASSUME NEW i \in Inst, Plug(i) \/ Plugged(i)
      PROVE  LeftInv'
  <2>1. Quiet
    BY <1>2, <1>7 DEF Plug, Plugged, Flagged, loader
  <2> QED BY <1>1, <2>1
<1>8. \A p \in setup.plans : Reapply(p) => LeftInv'
  BY ReapplyLeft
<1>9. \A i \in Inst : Step(i) => LeftInv'
  BY RemoveLeft, FlushLeft, LookLeft, SkipLeft, BuildLeft, InstallLeft DEF Step
<1> QED BY <1>3, <1>4, <1>5, <1>6, <1>7, <1>8, <1>9, RerunLeft, TurnLeft DEF Next

\* For any plugin, instances, configurations and events: whatever is in the box
\* belongs to an instance that is configured, and is there once (flush() and
\* apply() of each plugin), but for what Left() says is known to stay.
THEOREM NothingLeftAlways ==
  ASSUME NatAgrees
  PROVE  Spec => []NothingLeft
<1>1. LeftInv /\ IInv => NothingLeft
  <2> SUFFICES ASSUME LeftInv, IInv, phase = "idle", NEW o \in box, ~Left(o)
               PROVE  \/ o[1] = "subnet" /\ nat.users # {} /\ o[3] \in nat.subnets
                      \/ /\ o[2] \in There(conf)
                         /\ \A q \in Own({o[1]}, o[2], box) : q = o
                         /\ ~({<<"accept", o[2], None>>, <<"drop", o[2], None>>}
                                \subseteq box)
    BY DEF NothingLeft
  <2>1. Tidy(box) /\ o[1] \in TagsOf /\ (o[1] # "subnet" => o[2] \in Inst)
    BY DEF LeftInv, Tidied, Tidy
  <2>2. \A i \in Inst : view[i] = None
    BY DEF IInv, Viewed
  <2>3. CASE o[1] = "subnet"
    <3>1. kind = "nat"
      BY <2>1, <2>3, SetupAssumption DEF TagsOf, IInv, Rows, kind, Kinds
    <3> QED BY <2>2, <2>3, <3>1 DEF LeftInv, Subnets
  <2>4. CASE o[1] # "subnet"
    <3> DEFINE i == o[2]
    <3>1. i \in Inst /\ ~Late(i) /\ ~Loose(o[1])
      BY <2>1, <2>4 DEF Left, Late, Loose
    <3>2. InOrder(i)
      BY <3>1 DEF LeftInv, Tidied
    <3>3. i \in There(conf)
      BY <3>1, <3>2 DEF InOrder, Gone
    <3>4. \A q \in Own({o[1]}, i, box) : q = o
      BY <3>1, <3>2 DEF InOrder, Single, Own
    <3>5. ~({<<"accept", i, None>>, <<"drop", i, None>>} \subseteq box)
      BY <3>2 DEF InOrder, Either
    <3> QED BY <3>3, <3>4, <3>5
  <2> QED BY <2>3, <2>4
<1>2. Init => LeftInv /\ IInv
  BY InitLeft, InitInv
<1>3. LeftInv /\ IInv /\ [Next]_vars => (LeftInv /\ IInv)'
  BY NextLeft, NextInv
<1> QED BY <1>1, <1>2, <1>3, PTL DEF Spec

=============================================================================
