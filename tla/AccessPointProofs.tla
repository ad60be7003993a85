--------------------------- MODULE AccessPointProofs ---------------------------
(***************************************************************************)
(* Theorems about AccessPoint, for any number of access points and         *)
(* networks and any configurations.                                        *)
(***************************************************************************)
EXTENDS AccessPoint, TLAPS

(***************************************************************************)
(* The inductive invariant.                                                *)
(***************************************************************************)
Waiting == {"status", "lock", "reapply"}

Checks == {Idle} \cup [at : {"band"} \cup Waiting, band : {1, 2}]

Jobs ==
  [kind : {"check"}] \cup [kind : {"connected"}, pid : Nat]
  \cup [kind : {"authenticating"}, pid : Nat, ssid : Ssids]

Automata ==
  [Band -> [state : {"normal", "silence"}, due : BOOLEAN, attempted : SUBSET Ssids]]

Tried == {"status", "add", "select", "wait", "reconfigure", "back"}

Trying ==
  [at : Tried, ssid : Ssids, testOnly : BOOLEAN, late : BOOLEAN, added : Nat \cup {None},
   listed : SUBSET Ssids, usable : SUBSET Ssids, current : Ssids \cup {None}, out : SUBSET Ssids]

Switching == {Idle} \cup [at : {"enable"}, left : SUBSET Ssids] \cup Trying

PluginTypes ==
  /\ setup \in Setups /\ want \in [Aps -> Config \cup {None}]
  /\ conf \in [Aps -> Config \cup {None}] /\ target \in [Aps -> Config \cup {None}]
  /\ todo \in [Aps -> {"none", "flush", "apply", "enable"}]

HostapdTypes ==
  /\ files \in [Aps -> Nat \cup {None}] /\ timer \subseteq Band
  /\ merged = [b \in Band |-> merged[b]] /\ service = [b \in Band |-> service[b]]
  /\ pause \in [Band -> BOOLEAN]

AutomataTypes == auto \in Automata /\ queue \in Seq(Jobs) /\ check \in Checks

StationTypes ==
  /\ nets \in [Ssids -> {"absent", "disabled", "temp", "enabled"}]
  /\ sta \in [pid : Nat, cur : Ssids \cup {None}, complete : BOOLEAN]
  /\ sta.complete => sta.cur \in Ssids
  /\ sw \in Switching /\ skipped \subseteq Ssids

Types == PluginTypes /\ HostapdTypes /\ AutomataTypes /\ StationTypes

\* a file is there while its instance is configured and not in between
FilesInv ==
  /\ \A a \in Aps :
       /\ todo[a] \in {"none", "flush"} => files[a] = Files(conf)[a]
       /\ todo[a] \in {"apply", "enable"} => files[a] = None /\ conf[a] # None
       /\ todo[a] = "enable" => conf[a].enabled
  /\ holder = None => Reapplied

Served(b) == IF pause[b] THEN {} ELSE OnBand(b, files)

\* without a timer hostapd serves the files, or is about to
ServiceInv ==
  \A b \in Band \ timer :
    IF merged[b] = {} THEN service[b] = Served(b) ELSE merged[b] = {OnBand(b, files)}

\* a band is paused while it is silent, and until the check that ended its
\* silence resumes it
Ending(b) == check.at \in Waiting /\ Bands[check.band] = b

PauseInv ==
  \A b \in Band : /\ pause[b] <=> auto[b].state = "silence" \/ Ending(b)
                  /\ Ending(b) => auto[b].state = "normal"

\* what switchWifi() has to enable again is kept until it is, and what it leaves
\* out is skipped from when the networks are disabled
Kept == setup.known \ skipped

Usable(S) == \A n \in S : nets[n] # "disabled"

SwitchInv ==
  /\ \A n \in setup.known : nets[n] # "absent"
  /\ sw.at \in Tried => setup.known \subseteq sw.usable \cup sw.out
  /\ sw.at \in {"idle", "status", "add", "select"} => Usable(Kept)
  /\ sw.at \in {"wait", "reconfigure", "back"} => Usable(Kept \ (sw.usable \ {sw.ssid}))
  /\ sw.at = "enable" => Usable(Kept \ sw.left)

IInv == Types /\ FilesInv /\ ServiceInv /\ PauseInv /\ SwitchInv

-----------------------------------------------------------------------------
(* Lemmas about the operators of the model.                                *)

\* Each channel is of one band.
LEMMA BandType == \A channel : BandOf(channel) \in Band
BY DEF BandOf, Band

\* Boxes that are looked at.
LEMMA SetupFacts ==
  ASSUME PluginTypes
  PROVE  /\ {setup.want} \cup setup.changes \subseteq [Aps -> Config \cup {None}]
         /\ setup.known \subseteq Ssids /\ setup.channel \in [Ssids -> Nat]
         /\ setup.switches \subseteq Ssids \X BOOLEAN
BY SetupsAssumption DEF PluginTypes

\* What the parts of the invariant depend on.
LEMMA Unaffected ==
  ASSUME IInv
  PROVE  /\ UNCHANGED <<setup, want, conf, target, todo>> => PluginTypes'
         /\ UNCHANGED <<files, timer, merged, service, pause>> => HostapdTypes' /\ ServiceInv'
         /\ UNCHANGED <<auto, queue, check>> => AutomataTypes'
         /\ UNCHANGED station => StationTypes'
         /\ UNCHANGED <<conf, todo, files, holder>> => FilesInv'
         /\ UNCHANGED <<pause, auto, check>> => PauseInv'
         /\ UNCHANGED <<setup, station>> => SwitchInv'
<1>1. UNCHANGED <<setup, want, conf, target, todo>> => PluginTypes'
  BY DEF IInv, Types, PluginTypes
<1>2. UNCHANGED <<files, timer, merged, service, pause>> => HostapdTypes' /\ ServiceInv'
  <2>1. ASSUME UNCHANGED <<files, timer, merged, service, pause>> PROVE HostapdTypes'
    BY <2>1 DEF IInv, Types, HostapdTypes
  <2>2. ASSUME UNCHANGED <<files, timer, merged, service, pause>> PROVE ServiceInv'
    <3>1. \A b : OnBand(b, files') = OnBand(b, files)
      BY <2>2
    <3> QED BY <2>2, <3>1 DEF IInv, ServiceInv, Served
  <2> QED BY <2>1, <2>2
<1>3. UNCHANGED <<auto, queue, check>> => AutomataTypes'
  BY DEF IInv, Types, AutomataTypes
<1>4. UNCHANGED station => StationTypes'
  BY DEF IInv, Types, StationTypes, station
<1>5. UNCHANGED <<conf, todo, files, holder>> => FilesInv'
  BY DEF IInv, FilesInv, Files, Reapplied
<1>6. UNCHANGED <<pause, auto, check>> => PauseInv'
  BY DEF IInv, PauseInv, Ending
<1>7. UNCHANGED <<setup, station>> => SwitchInv'
  BY DEF IInv, SwitchInv, Usable, Kept, station
<1> QED BY <1>1, <1>2, <1>3, <1>4, <1>5, <1>6, <1>7

\* A file that comes or goes changes what is on the air on its band only, and
\* there a timer is set (disableHostapd() and enableHostapd()).
LEMMA OtherBands ==
  ASSUME IInv, NEW a \in Aps, NEW f, files' = [files EXCEPT ![a] = f],
         NEW bands, timer' = timer \cup bands,
         files[a] # None => BandOf(files[a]) \in bands,
         f # None => BandOf(f) \in bands,
         UNCHANGED <<merged, pause, service>>
  PROVE  ServiceInv'
<1> SUFFICES ASSUME NEW b \in Band \ timer'
             PROVE  (IF merged[b] = {} THEN service[b] = Served(b)
                     ELSE merged[b] = {OnBand(b, files)})'
  BY DEF ServiceInv
<1>1. b \in Band \ timer /\ b \notin bands
  OBVIOUS
<1>2. OnBand(b, files') = OnBand(b, files)
  <2>1. /\ \A x \in Aps : x # a => files'[x] = files[x]
        /\ files'[a] = f
    BY DEF IInv, Types, HostapdTypes
  <2>2. {x \in Aps : files'[x] # None /\ BandOf(files'[x]) = b}
          = {x \in Aps : files[x] # None /\ BandOf(files[x]) = b}
    BY <1>1, <2>1
  <2>3. \A x \in Aps : (files[x] # None /\ BandOf(files[x]) = b) => files'[x] = files[x]
    BY <1>1, <2>1
  <2> QED BY <2>2, <2>3 DEF OnBand
<1> QED BY <1>1, <1>2 DEF IInv, ServiceInv, Served

\* A band whose pause changes has a timer (pauseAP() and resumeAP()).
LEMMA PauseChanges ==
  ASSUME IInv, NEW b \in Band, NEW p \in BOOLEAN,
         pause' = [pause EXCEPT ![b] = p], timer' = timer \cup {b},
         UNCHANGED <<files, merged, service>>
  PROVE  HostapdTypes' /\ ServiceInv'
<1>1. HostapdTypes'
  BY DEF IInv, Types, HostapdTypes
<1>2. \A c \in Band : c # b => pause'[c] = pause[c]
  BY DEF IInv, Types, HostapdTypes
<1>3. ServiceInv'
  <2>1. \A c : OnBand(c, files') = OnBand(c, files)
    OBVIOUS
  <2> QED BY <1>2, <2>1 DEF IInv, ServiceInv, Served
<1> QED BY <1>1, <1>3

-----------------------------------------------------------------------------
(* Every action preserves the invariant: hostapd and its plugins.          *)

\* The callback of the timer reads the files.
LEMMA RestartHostapdKeeps ==
  ASSUME IInv, NEW b \in Band, RestartHostapd(b)
  PROVE  IInv'
<1>1. PluginTypes' /\ AutomataTypes' /\ StationTypes' /\ FilesInv' /\ PauseInv' /\ SwitchInv'
  BY Unaffected DEF RestartHostapd, box, plugins, automata
<1>2. HostapdTypes'
  BY DEF IInv, Types, HostapdTypes, RestartHostapd
<1>3. ServiceInv'
  <2>1. /\ merged'[b] = {OnBand(b, files)} /\ \A c \in Band : c # b => merged'[c] = merged[c]
        /\ files' = files /\ pause' = pause /\ service' = service /\ timer' = timer \ {b}
    BY DEF IInv, Types, HostapdTypes, RestartHostapd
  <2> QED BY <2>1 DEF IInv, ServiceInv, Served
<1> QED BY <1>1, <1>2, <1>3 DEF IInv, Types

\* It restarts hostapd with what it has read, or stops it.
LEMMA HostapdRestartedKeeps ==
  ASSUME IInv, NEW b \in Band, HostapdRestarted(b)
  PROVE  IInv'
<1>1. PluginTypes' /\ AutomataTypes' /\ StationTypes' /\ FilesInv' /\ PauseInv' /\ SwitchInv'
  BY Unaffected DEF HostapdRestarted, box, plugins, automata
<1>2. HostapdTypes'
  BY DEF IInv, Types, HostapdTypes, HostapdRestarted
<1>3. ServiceInv'
  <2>1. /\ merged'[b] = {} /\ service'[b] = IF pause[b] THEN {} ELSE UNION merged[b]
        /\ \A c \in Band : c # b => merged'[c] = merged[c] /\ service'[c] = service[c]
        /\ files' = files /\ pause' = pause /\ timer' = timer /\ merged[b] # {}
    BY DEF IInv, Types, HostapdTypes, HostapdRestarted
  <2>2. b \notin timer => service'[b] = Served(b)
    <3>1. b \notin timer => merged[b] = {OnBand(b, files)}
      BY <2>1 DEF IInv, ServiceInv
    <3>2. UNION {OnBand(b, files)} = OnBand(b, files)
      OBVIOUS
    <3> QED BY <2>1, <3>1, <3>2 DEF Served
  <2> QED BY <2>1, <2>2 DEF IInv, ServiceInv, Served
<1> QED BY <1>1, <1>2, <1>3 DEF IInv, Types

\* flush() and apply() of an instance take its file away.
LEMMA FlushApplyKeep ==
  ASSUME IInv, NEW a \in Aps, Flush(a) \/ Apply(a)
  PROVE  IInv'
<1>1. AutomataTypes' /\ StationTypes' /\ PauseInv' /\ SwitchInv'
  BY Unaffected DEF Flush, Apply, box, automata
<1>2. /\ files' = [files EXCEPT ![a] = None]
      /\ timer' = timer \cup (IF files[a] = None THEN {} ELSE {BandOf(files[a])})
      /\ UNCHANGED <<merged, pause, service, target, holder, setup, want>>
  BY DEF Flush, Apply, DisableHostapd, ScheduleHostapdRestart, box
<1>3. /\ conf' = IF todo[a] = "flush" THEN [conf EXCEPT ![a] = target[a]] ELSE conf
      /\ todo[a] = "flush" =>
           todo' = [todo EXCEPT ![a] = IF target[a] = None THEN "none" ELSE "apply"]
      /\ todo[a] # "flush" =>
           /\ todo[a] = "apply"
           /\ todo' = [todo EXCEPT ![a] = IF conf[a].enabled THEN "enable" ELSE "none"]
  BY DEF Flush, Apply
<1>4. PluginTypes'
  BY <1>2, <1>3 DEF IInv, Types, PluginTypes
<1>5. HostapdTypes'
  BY <1>2, BandType DEF IInv, Types, HostapdTypes
<1>6. ServiceInv'
  <2> DEFINE bands == IF files[a] = None THEN {} ELSE {BandOf(files[a])}
  <2>1. files[a] # None => BandOf(files[a]) \in bands
    OBVIOUS
  <2> HIDE DEF bands
  <2>2. timer' = timer \cup bands
    BY <1>2 DEF bands
  <2> QED BY <1>2, <2>1, <2>2, OtherBands
<1>7. FilesInv'
  <2>1. /\ files'[a] = None /\ \A x \in Aps : x # a => files'[x] = files[x]
        /\ \A x \in Aps : x # a => conf'[x] = conf[x] /\ todo'[x] = todo[x]
    BY <1>2, <1>3 DEF IInv, Types, HostapdTypes, PluginTypes
  <2>2. holder' # None
    BY <1>2, <1>3 DEF IInv, FilesInv, Reapplied
  <2>3. ASSUME NEW x \in Aps, x # a
        PROVE  /\ todo'[x] \in {"none", "flush"} => files'[x] = Files(conf)'[x]
               /\ todo'[x] \in {"apply", "enable"} => files'[x] = None /\ conf'[x] # None
               /\ todo'[x] = "enable" => conf'[x].enabled
    BY <2>1, <2>3 DEF IInv, FilesInv, Files
  <2>4. CASE todo[a] = "flush"
    <3>1. conf'[a] = target[a] /\ todo'[a] = IF target[a] = None THEN "none" ELSE "apply"
      BY <1>3, <2>4 DEF IInv, Types, PluginTypes
    <3> QED BY <2>1, <2>2, <2>3, <3>1 DEF FilesInv, Files
  <2>5. CASE todo[a] # "flush"
    <3>1. conf'[a] = conf[a] /\ todo'[a] = IF conf[a].enabled THEN "enable" ELSE "none"
      BY <1>3, <2>5 DEF IInv, Types, PluginTypes
    <3>2. conf[a] # None
      BY <1>3, <2>5 DEF IInv, FilesInv
    <3> QED BY <2>1, <2>2, <2>3, <3>1, <3>2 DEF FilesInv, Files
  <2> QED BY <2>4, <2>5
<1> QED BY <1>1, <1>4, <1>5, <1>6, <1>7 DEF IInv, Types

\* The new file is for another band than the old one was: that one is gone
\* before.
LEMMA EnableKeeps ==
  ASSUME IInv, NEW a \in Aps, Enable(a)
  PROVE  IInv'
<1>1. AutomataTypes' /\ StationTypes' /\ PauseInv' /\ SwitchInv'
  BY Unaffected DEF Enable, box, automata
<1>2. /\ todo[a] = "enable" /\ todo' = [todo EXCEPT ![a] = "none"]
      /\ files' = [files EXCEPT ![a] = conf[a].channel]
      /\ timer' = timer \cup {BandOf(conf[a].channel)}
      /\ UNCHANGED <<merged, pause, service, conf, target, holder, setup, want>>
  BY DEF Enable, EnableHostapd, ScheduleHostapdRestart, box
<1>3. files[a] = None /\ conf[a] \in Config /\ conf[a] # None /\ conf[a].enabled
  BY <1>2 DEF IInv, Types, PluginTypes, FilesInv
<1>4. PluginTypes'
  BY <1>2 DEF IInv, Types, PluginTypes
<1>5. HostapdTypes'
  <2>1. conf[a].channel \in Nat
    BY <1>3 DEF Config
  <2> QED BY <1>2, <2>1, BandType DEF IInv, Types, HostapdTypes
<1>6. ServiceInv'
  <2> DEFINE f == conf[a].channel
             bands == {BandOf(f)}
  <2>1. f # None => BandOf(f) \in bands
    OBVIOUS
  <2> HIDE DEF f, bands
  <2>2. files' = [files EXCEPT ![a] = f] /\ timer' = timer \cup bands
    BY <1>2 DEF f, bands
  <2> QED BY <1>2, <1>3, <2>1, <2>2, OtherBands
<1>7. FilesInv'
  <2>1. /\ files'[a] = conf[a].channel /\ todo'[a] = "none"
        /\ \A x \in Aps : x # a => files'[x] = files[x] /\ todo'[x] = todo[x]
    BY <1>2 DEF IInv, Types, HostapdTypes, PluginTypes
  <2>2. holder' # None
    BY <1>2 DEF IInv, FilesInv, Reapplied
  <2> QED BY <1>2, <1>3, <2>1, <2>2 DEF IInv, FilesInv, Files
<1> QED BY <1>1, <1>4, <1>5, <1>6, <1>7 DEF IInv, Types

\* A reapply begins with every file as configured, and leaves it to the
\* instances whose configuration changes to take theirs away.
LEMMA StartReapplyKeeps ==
  ASSUME IInv, NEW who, who # None, NEW w \in [Aps -> Config \cup {None}],
         StartReapply(who, w), files' = files, setup' = setup, want' \in {want, w}
  PROVE  PluginTypes' /\ FilesInv'
<1>1. /\ holder = None /\ holder' = who /\ conf' = conf
      /\ target' \in ConvertIntegratedAPConfig(w)
      /\ todo' = [a \in Aps |-> IF conf[a] = target'[a] THEN "none" ELSE "flush"]
  BY DEF StartReapply
<1>2. target' \in [Aps -> Config \cup {None}]
  <2>1. CASE target' = w
    BY <2>1
  <2>2. CASE target' # w
    <3>1. sta.complete /\ target' = Followed(w)
      BY <1>1, <2>2 DEF ConvertIntegratedAPConfig
    <3> DEFINE channel == setup.channel[sta.cur]
    <3>2. channel \in Nat
      BY <3>1, SetupFacts DEF IInv, Types, StationTypes
    <3>3. \A a \in Aps : w[a] # None => [w[a] EXCEPT !.channel = channel] \in Config
      BY <3>2 DEF Config
    <3> HIDE DEF channel
    <3>4. target' = [a \in Aps |-> IF w[a] # None /\ BandOf(w[a].channel) = BandOf(channel)
                                  THEN [w[a] EXCEPT !.channel = channel] ELSE w[a]]
      BY <3>1 DEF Followed, channel
    <3> QED BY <3>3, <3>4
  <2> QED BY <2>1, <2>2
<1>3. PluginTypes'
  BY <1>1, <1>2 DEF IInv, Types, PluginTypes
<1>4. FilesInv'
  <2>1. \A a \in Aps : files[a] = Files(conf)[a] /\ todo'[a] \in {"none", "flush"}
    BY <1>1 DEF IInv, FilesInv, Reapplied
  <2> QED BY <1>1, <2>1 DEF FilesInv, Files
<1> QED BY <1>3, <1>4

\* A client changes the configuration, and gives the lock back.
LEMMA SetConfigKeeps ==
  ASSUME IInv, SetConfig \/ ConfigSet
  PROVE  IInv'
<1>1. HostapdTypes' /\ ServiceInv' /\ AutomataTypes' /\ StationTypes' /\ PauseInv' /\ SwitchInv'
  BY Unaffected DEF SetConfig, ConfigSet, box, hostapd, automata
<1>2. CASE SetConfig
  <2>1. want' \in [Aps -> Config \cup {None}]
    BY <1>2, SetupFacts DEF SetConfig, IInv, Types
  <2>2. "client" # None
    BY NoneAssumption
  <2>3. StartReapply("client", want') /\ files' = files /\ setup' = setup
    BY <1>2 DEF SetConfig, hostapd
  <2>4. PluginTypes' /\ FilesInv'
    BY <2>1, <2>2, <2>3, StartReapplyKeeps
  <2> QED BY <1>1, <2>4 DEF IInv, Types
<1>3. CASE ConfigSet
  <2>1. PluginTypes'
    BY <1>3, Unaffected DEF ConfigSet, box
  <2>2. FilesInv'
    BY <1>3 DEF ConfigSet, hostapd, IInv, FilesInv, Files, Reapplied
  <2> QED BY <1>1, <2>1, <2>2 DEF IInv, Types
<1> QED BY <1>2, <1>3

-----------------------------------------------------------------------------
(* Every action preserves the invariant: the automata.                     *)

\* Automata whose attempts are forgotten are automata, in the same states.
LEMMA RememberedType ==
  ASSUME auto \in Automata, NEW job
  PROVE  /\ Remembered(job) \in Automata
         /\ \A b \in Band : Remembered(job)[b].state = auto[b].state
BY DEF Remembered, Automata

\* A band is silent from the attempt that pauses it (onEvent()).
LEMMA OnEventKeeps ==
  ASSUME IInv, OnEvent
  PROVE  IInv'
<1> DEFINE job == Head(queue)
           remembered == Remembered(job)
           b == BandOf(setup.channel[job.ssid])
           new == IsNew(job.ssid, remembered[b])
<1>1. PluginTypes' /\ StationTypes' /\ SwitchInv' /\ FilesInv'
  BY Unaffected DEF OnEvent, box, plugins
<1>2. /\ queue # <<>> /\ queue \in Seq(Jobs) /\ check = Idle /\ check' = Idle
      /\ job.kind = "authenticating" \/ job.kind = "connected"
      /\ job.kind = "authenticating" => Authenticating(job)
      /\ job.kind = "connected" => Connected
      /\ queue' = Tail(queue) /\ UNCHANGED <<files, merged, service, setup>>
  BY DEF OnEvent, IInv, Types, AutomataTypes, box
<1>3. job \in Jobs /\ queue' \in Seq(Jobs)
  BY <1>2
<1>4. /\ remembered \in Automata /\ b \in Band
      /\ \A c \in Band : remembered[c].state = auto[c].state
  BY RememberedType, BandType DEF IInv, Types, AutomataTypes
<1>5. /\ PauseInv' <=> \A c \in Band : pause'[c] <=> auto'[c].state = "silence"
      /\ \A c \in Band : pause[c] <=> auto[c].state = "silence"
  BY <1>2 DEF PauseInv, Ending, Waiting, Idle, IInv
<1>6. CASE job.kind = "connected"
  <2>1. auto' = [c \in Band |-> [auto[c] EXCEPT !.attempted = {}, !.due = FALSE]]
        /\ timer' = timer /\ pause' = pause
    BY <1>2, <1>6 DEF Connected
  <2>2. auto' \in Automata /\ \A c \in Band : auto'[c].state = auto[c].state
    BY <2>1 DEF Automata, IInv, Types, AutomataTypes
  <2>3. HostapdTypes' /\ ServiceInv'
    BY <2>1, <1>2, Unaffected
  <2>4. PauseInv'
    BY <2>1, <2>2, <1>5
  <2> QED BY <1>1, <1>2, <1>3, <2>2, <2>3, <2>4 DEF IInv, Types, AutomataTypes, Checks
<1>7. CASE job.kind = "authenticating"
  <2>0. job.ssid \in Ssids /\ new \in BOOLEAN
    BY <1>3, <1>7 DEF Jobs, IsNew
  <2>1. \/ /\ remembered[b].state = "silence"
           /\ auto' = [remembered EXCEPT ![b].due = @ /\ ~new, ![b].attempted = @ \cup {job.ssid}]
           /\ timer' = timer /\ pause' = pause
        \/ /\ remembered[b].state # "silence"
           /\ auto' = [remembered EXCEPT ![b].state = "silence", ![b].due = FALSE]
           /\ pause' = [pause EXCEPT ![b] = TRUE] /\ timer' = timer \cup {b}
        \/ auto' = remembered /\ timer' = timer /\ pause' = pause
    BY <1>2, <1>7 DEF Authenticating, PauseAP, ScheduleHostapdRestart
  <2> HIDE DEF job, remembered, b, new
  <2>2. CASE timer' = timer /\ pause' = pause
    <3>1. auto' \in Automata /\ \A c \in Band : auto'[c].state = auto[c].state
      <4>1. CASE auto' = remembered
        BY <4>1, <1>4
      <4>2. CASE auto' = [remembered EXCEPT ![b].due = @ /\ ~new, ![b].attempted = @ \cup {job.ssid}]
        <5> DEFINE due == remembered[b].due /\ ~new
                   attempted == remembered[b].attempted \cup {job.ssid}
                   band == [remembered[b] EXCEPT !.due = due, !.attempted = attempted]
        <5>1. due \in BOOLEAN /\ attempted \in SUBSET Ssids
          BY <1>4, <2>0 DEF Automata
        <5>2. auto' = [remembered EXCEPT ![b] = band]
          BY <4>2, <1>4 DEF Automata
        <5> HIDE DEF due, attempted
        <5>3. band \in [state : {"normal", "silence"}, due : BOOLEAN, attempted : SUBSET Ssids]
              /\ band.state = remembered[b].state
          BY <5>1, <1>4 DEF Automata
        <5> HIDE DEF band
        <5> QED BY <5>2, <5>3, <1>4 DEF Automata
      <4>3. CASE remembered[b].state # "silence"
                 /\ auto' = [remembered EXCEPT ![b].state = "silence", ![b].due = FALSE]
                 /\ timer' = timer \cup {b} /\ pause' = [pause EXCEPT ![b] = TRUE]
        <5>1. pause[b] = TRUE
          BY <2>2, <4>3, <1>4 DEF IInv, Types, HostapdTypes
        <5> QED BY <5>1, <4>3, <1>4, <1>5
      <4> QED BY <2>1, <4>1, <4>2, <4>3
    <3>2. HostapdTypes' /\ ServiceInv'
      BY <2>2, <1>2, Unaffected
    <3>3. PauseInv'
      BY <2>2, <3>1, <1>5
    <3> QED BY <1>1, <1>2, <1>3, <3>1, <3>2, <3>3 DEF IInv, Types, AutomataTypes, Checks
  <2>3. CASE /\ remembered[b].state # "silence"
             /\ auto' = [remembered EXCEPT ![b].state = "silence", ![b].due = FALSE]
             /\ pause' = [pause EXCEPT ![b] = TRUE] /\ timer' = timer \cup {b}
    <3>1. HostapdTypes' /\ ServiceInv'
      BY <2>3, <1>2, <1>4, PauseChanges
    <3>2. auto' \in Automata /\ auto'[b].state = "silence"
          /\ \A c \in Band : c # b => auto'[c].state = remembered[c].state
      BY <2>3, <1>4 DEF Automata
    <3>3. pause'[b] = TRUE /\ \A c \in Band : c # b => pause'[c] = pause[c]
      BY <2>3, <1>4 DEF IInv, Types, HostapdTypes
    <3>4. PauseInv'
      BY <3>2, <3>3, <1>4, <1>5
    <3> QED BY <1>1, <1>2, <1>3, <3>1, <3>2, <3>4 DEF IInv, Types, AutomataTypes, Checks
  <2> QED BY <2>1, <2>2, <2>3
<1> QED BY <1>2, <1>6, <1>7

\* Time and the interval.
LEMMA IntervalsKeep ==
  ASSUME IInv,
         (\E b \in Band : SilenceEnds(b)) \/ CheckAPStateAutomata \/ CheckStarts
  PROVE  IInv'
<1>1. /\ PluginTypes' /\ StationTypes' /\ SwitchInv' /\ FilesInv' /\ HostapdTypes' /\ ServiceInv'
      /\ pause' = pause
  BY Unaffected DEF SilenceEnds, CheckAPStateAutomata, CheckStarts, box, plugins, hostapd
<1>2. CASE \E b \in Band : SilenceEnds(b)
  <2>1. PICK b \in Band : SilenceEnds(b)
    BY <1>2
  <2>2. auto' = [auto EXCEPT ![b].due = TRUE] /\ queue' = queue /\ check' = check
    BY <2>1 DEF SilenceEnds
  <2>3. auto' \in Automata /\ \A c \in Band : auto'[c].state = auto[c].state
    BY <2>2 DEF Automata, IInv, Types, AutomataTypes
  <2>4. AutomataTypes' /\ PauseInv'
    BY <1>1, <2>2, <2>3 DEF IInv, Types, AutomataTypes, PauseInv, Ending
  <2> QED BY <1>1, <2>4 DEF IInv, Types
<1>3. CASE CheckAPStateAutomata
  <2>1. /\ queue' = Append(queue, [kind |-> "check"]) /\ auto' = auto /\ check' = check
    BY <1>3 DEF CheckAPStateAutomata
  <2>2. queue' \in Seq(Jobs)
    BY <2>1 DEF IInv, Types, AutomataTypes, Jobs
  <2>3. AutomataTypes' /\ PauseInv'
    BY <1>1, <2>1, <2>2 DEF IInv, Types, AutomataTypes, PauseInv, Ending
  <2> QED BY <1>1, <2>3 DEF IInv, Types
<1>4. CASE CheckStarts
  <2>1. /\ queue # <<>> /\ queue' = Tail(queue) /\ auto' = auto /\ check = Idle
        /\ check' = [at |-> "band", band |-> 1]
    BY <1>4 DEF CheckStarts
  <2>2. queue' \in Seq(Jobs) /\ check' \in Checks
    BY <2>1 DEF IInv, Types, AutomataTypes, Checks
  <2>3. AutomataTypes'
    BY <2>1, <2>2 DEF IInv, Types, AutomataTypes
  <2>4. check.at \notin Waiting /\ check'.at \notin Waiting
    BY <2>1 DEF Waiting, Idle
  <2>5. PauseInv'
    BY <1>1, <2>1, <2>4 DEF IInv, PauseInv, Ending
  <2> QED BY <1>1, <2>3, <2>5 DEF IInv, Types
<1> QED BY <1>2, <1>3, <1>4

\* Where a check goes after a band, it waits for none.
LEMMA NextBandType ==
  ASSUME check \in Checks, check # Idle
  PROVE  /\ NextBand \in Checks /\ NextBand.at \notin Waiting
         /\ check.at \in {"band"} \cup Waiting /\ check.band \in {1, 2} /\ Bands[check.band] \in Band
         /\ \A at \in {"band"} \cup Waiting :
              /\ [check EXCEPT !.at = at] \in Checks /\ [check EXCEPT !.at = at].at = at
              /\ [check EXCEPT !.at = at].band = check.band
<1>1. check \in [at : {"band"} \cup Waiting, band : {1, 2}] /\ Len(Bands) = 2
  BY DEF Checks, Bands
<1>2. NextBand \in Checks /\ NextBand.at \notin Waiting
  <2>1. CASE check.band = Len(Bands)
    BY <2>1 DEF NextBand, Checks, Waiting, Idle
  <2>2. CASE check.band # Len(Bands)
    <3>1. check.band + 1 \in {1, 2}
      BY <1>1, <2>2
    <3> QED BY <2>2, <3>1 DEF NextBand, Checks, Waiting
  <2> QED BY <2>1, <2>2
<1>3. Bands[check.band] \in Band
  BY <1>1 DEF Bands, Band
<1>4. \A at \in {"band"} \cup Waiting :
        /\ [check EXCEPT !.at = at] \in Checks /\ [check EXCEPT !.at = at].at = at
        /\ [check EXCEPT !.at = at].band = check.band
  BY <1>1 DEF Checks
<1> QED BY <1>1, <1>2, <1>3, <1>4

\* checkAPStateAutomata() takes a band out of its silence, and its pause ends
\* at once or after a reapply.
LEMMA CheckBandKeeps ==
  ASSUME IInv, CheckBand
  PROVE  IInv'
<1> DEFINE b == Bands[check.band]
           over == auto[b].state = "silence" /\ auto[b].due
           none == \A a \in Aps : conf[a] = None
<1>1. PluginTypes' /\ StationTypes' /\ SwitchInv' /\ FilesInv'
  BY Unaffected DEF CheckBand, box, plugins
<1>2. /\ check.at = "band" /\ queue' = queue /\ UNCHANGED <<files, merged, service>>
      /\ over => auto' = [auto EXCEPT ![b].state = "normal", ![b].due = FALSE]
      /\ ~over => auto' = auto
      /\ over /\ none => pause' = [pause EXCEPT ![b] = FALSE] /\ timer' = timer \cup {b}
      /\ ~ (over /\ none) => timer' = timer /\ pause' = pause
      /\ check' = IF over /\ ~none THEN [check EXCEPT !.at = "status"] ELSE NextBand
  BY DEF CheckBand, ResumeAP, ScheduleHostapdRestart
<1>3. /\ b \in Band /\ NextBand \in Checks /\ NextBand.at \notin Waiting
      /\ [check EXCEPT !.at = "status"] \in Checks
      /\ [check EXCEPT !.at = "status"].at = "status"
      /\ [check EXCEPT !.at = "status"].band = check.band
  BY <1>2, NextBandType DEF IInv, Types, AutomataTypes, Idle, Waiting
<1>4. check' \in Checks /\ \A c \in Band : pause[c] <=> auto[c].state = "silence"
  BY <1>2, <1>3 DEF IInv, PauseInv, Ending, Waiting
<1> HIDE DEF none
<1>5. CASE ~over
  <2>1. AutomataTypes'
    BY <1>2, <1>4, <1>5 DEF IInv, Types, AutomataTypes
  <2>2. HostapdTypes' /\ ServiceInv'
    BY <1>2, <1>5, Unaffected
  <2>3. PauseInv'
    BY <1>2, <1>3, <1>4, <1>5 DEF PauseInv, Ending
  <2> QED BY <1>1, <2>1, <2>2, <2>3 DEF IInv, Types
<1>6. CASE over
  <2>1. auto' \in Automata /\ auto'[b].state = "normal" /\ auto[b].state = "silence"
        /\ \A c \in Band : c # b => auto'[c].state = auto[c].state
    <3> HIDE DEF b
    <3> QED BY <1>2, <1>3, <1>6 DEF Automata, IInv, Types, AutomataTypes
  <2>2. AutomataTypes'
    BY <1>2, <1>4, <2>1 DEF IInv, Types, AutomataTypes
  <2>3. CASE none
    <3>1. pause' = [pause EXCEPT ![b] = FALSE] /\ timer' = timer \cup {b} /\ check' = NextBand
      BY <1>2, <1>6, <2>3
    <3>2. HostapdTypes' /\ ServiceInv'
      BY <1>2, <1>3, <3>1, PauseChanges
    <3>3. pause'[b] = FALSE /\ \A c \in Band : c # b => pause'[c] = pause[c]
      BY <1>3, <3>1 DEF IInv, Types, HostapdTypes
    <3>4. PauseInv'
      BY <1>3, <1>4, <2>1, <3>1, <3>3 DEF PauseInv, Ending
    <3> QED BY <1>1, <2>2, <3>2, <3>4 DEF IInv, Types
  <2>4. CASE ~none
    <3>1. timer' = timer /\ pause' = pause /\ check'.at = "status" /\ check'.band = check.band
      BY <1>2, <1>3, <1>6, <2>4
    <3>2. HostapdTypes' /\ ServiceInv'
      BY <1>2, <3>1, Unaffected
    <3>3. PauseInv'
      BY <1>4, <2>1, <3>1 DEF PauseInv, Ending, Waiting
    <3> QED BY <1>1, <2>2, <3>2, <3>3 DEF IInv, Types
  <2> QED BY <2>3, <2>4
<1> QED BY <1>5, <1>6

\* A band that was taken out of its silence stays paused while its check waits.
LEMMA WaitingKeeps ==
  ASSUME IInv, check.at \in Waiting, auto' = auto, queue' = queue,
         \/ /\ check' = NextBand
            /\ ResumeAP(Bands[check.band]) /\ UNCHANGED <<files, merged, service>>
         \/ /\ \E at \in Waiting : check' = [check EXCEPT !.at = at]
            /\ UNCHANGED <<files, timer, merged, pause, service>>
  PROVE  HostapdTypes' /\ ServiceInv' /\ AutomataTypes' /\ PauseInv'
<1> DEFINE b == Bands[check.band]
<1>1. /\ check # Idle /\ b \in Band /\ NextBand \in Checks /\ NextBand.at \notin Waiting
      /\ \A at \in Waiting :
           /\ [check EXCEPT !.at = at] \in Checks /\ [check EXCEPT !.at = at].at = at
           /\ [check EXCEPT !.at = at].band = check.band
  <2>1. check # Idle
    BY DEF Idle, Waiting
  <2> QED BY <2>1, NextBandType DEF IInv, Types, AutomataTypes
<1>2. pause[b] /\ \A c \in Band : c # b => (pause[c] <=> auto[c].state = "silence")
  BY <1>1 DEF IInv, PauseInv, Ending
<1>3. AutomataTypes'
  BY <1>1 DEF IInv, Types, AutomataTypes
<1>4. CASE /\ check' = NextBand
           /\ ResumeAP(Bands[check.band]) /\ UNCHANGED <<files, merged, service>>
  <2>1. pause' = [pause EXCEPT ![b] = FALSE] /\ timer' = timer \cup {b}
    BY <1>4 DEF ResumeAP, ScheduleHostapdRestart
  <2>2. HostapdTypes' /\ ServiceInv'
    BY <1>1, <1>4, <2>1, PauseChanges
  <2>3. pause'[b] = FALSE /\ \A c \in Band : c # b => pause'[c] = pause[c]
    BY <1>1, <2>1 DEF IInv, Types, HostapdTypes
  <2>4. auto[b].state = "normal"
    BY <1>1 DEF IInv, PauseInv, Ending
  <2>5. PauseInv'
    BY <1>1, <1>2, <1>4, <2>3, <2>4 DEF PauseInv, Ending
  <2> QED BY <1>3, <2>2, <2>5
<1>5. CASE /\ \E at \in Waiting : check' = [check EXCEPT !.at = at]
           /\ UNCHANGED <<files, timer, merged, pause, service>>
  <2>1. HostapdTypes' /\ ServiceInv'
    BY <1>5, Unaffected
  <2>2. check'.at \in Waiting /\ check'.band = check.band
    BY <1>1, <1>5
  <2>3. PauseInv'
    BY <1>5, <2>2 DEF IInv, PauseInv, Ending
  <2> QED BY <1>3, <2>1, <2>3
<1> QED BY <1>4, <1>5

\* checkAPStateAutomata() looks at the station, and applies the configuration
\* again.
LEMMA CheckKeeps ==
  ASSUME IInv, CheckStatus \/ CheckReapply \/ CheckReapplied
  PROVE  IInv'
<1>1. StationTypes' /\ SwitchInv'
  BY Unaffected DEF CheckStatus, CheckReapply, CheckReapplied, box
<1>2. CASE CheckStatus
  <2>1. PluginTypes' /\ FilesInv'
    BY <1>2, Unaffected DEF CheckStatus, box, plugins
  <2>2. /\ check.at \in Waiting /\ auto' = auto /\ queue' = queue
        /\ \/ /\ check' = NextBand
              /\ ResumeAP(Bands[check.band]) /\ UNCHANGED <<files, merged, service>>
           \/ /\ check' = [check EXCEPT !.at = "lock"]
              /\ UNCHANGED <<files, timer, merged, pause, service>>
    BY <1>2 DEF CheckStatus, Waiting
  <2>3. HostapdTypes' /\ ServiceInv' /\ AutomataTypes' /\ PauseInv'
    BY <2>2, WaitingKeeps DEF Waiting
  <2> QED BY <1>1, <2>1, <2>3 DEF IInv, Types
<1>3. CASE CheckReapply
  <2>1. "check" # None /\ want \in [Aps -> Config \cup {None}]
    BY NoneAssumption DEF IInv, Types, PluginTypes
  <2>2. PluginTypes' /\ FilesInv'
    BY <1>3, <2>1, StartReapplyKeeps DEF CheckReapply, box, hostapd
  <2>3. /\ check.at \in Waiting /\ auto' = auto /\ queue' = queue
        /\ check' = [check EXCEPT !.at = "reapply"]
        /\ UNCHANGED <<files, timer, merged, pause, service>>
    BY <1>3 DEF CheckReapply, Waiting, hostapd
  <2>4. HostapdTypes' /\ ServiceInv' /\ AutomataTypes' /\ PauseInv'
    BY <2>3, WaitingKeeps DEF Waiting
  <2> QED BY <1>1, <2>2, <2>4 DEF IInv, Types
<1>4. CASE CheckReapplied
  <2>1. PluginTypes'
    BY <1>4, Unaffected DEF CheckReapplied, box
  <2>2. FilesInv'
    BY <1>4 DEF CheckReapplied, IInv, FilesInv, Files, Reapplied
  <2>3. /\ check.at \in Waiting /\ auto' = auto /\ queue' = queue /\ check' = NextBand
        /\ ResumeAP(Bands[check.band]) /\ UNCHANGED <<files, merged, service>>
    BY <1>4 DEF CheckReapplied, Waiting
  <2>4. HostapdTypes' /\ ServiceInv' /\ AutomataTypes' /\ PauseInv'
    BY <2>3, WaitingKeeps
  <2> QED BY <1>1, <2>1, <2>2, <2>4 DEF IInv, Types
<1> QED BY <1>2, <1>3, <1>4

-----------------------------------------------------------------------------
(* Every action preserves the invariant: the station.                      *)

\* What the station and switchWifi() leave alone.
LEMMA StationOnly ==
  ASSUME IInv, UNCHANGED box, UNCHANGED plugins, UNCHANGED hostapd, check' = check,
         auto' = auto, queue' \in Seq(Jobs), StationTypes', SwitchInv'
  PROVE  IInv'
<1>1. PluginTypes' /\ HostapdTypes' /\ ServiceInv' /\ FilesInv' /\ PauseInv'
  BY Unaffected DEF box, plugins, hostapd
<1>2. AutomataTypes'
  BY DEF IInv, Types, AutomataTypes
<1> QED BY <1>1, <1>2 DEF IInv, Types

\* wpa_supplicant tries networks, and logs it.
LEMMA TriesKeep ==
  ASSUME IInv,
         (\E n \in Ssids : Authenticate(n)) \/ Connect \/ Disconnect
  PROVE  IInv'
<1>1. /\ UNCHANGED <<box, plugins, hostapd>> /\ check' = check /\ auto' = auto
      /\ nets' = nets /\ sw' = sw /\ skipped' = skipped
  BY DEF Authenticate, Connect, Disconnect, automata, losses
<1>2. setup.works \subseteq Ssids
  BY SetupsAssumption DEF IInv, Types, PluginTypes
<1>3. queue' \in Seq(Jobs) /\ StationTypes'
  <2>0. queue \in Seq(Jobs) /\ sta \in [pid : Nat, cur : Ssids \cup {None}, complete : BOOLEAN]
    BY DEF IInv, Types, AutomataTypes, StationTypes
  <2>1. ASSUME NEW n \in Ssids, Authenticate(n)
        PROVE  queue' \in Seq(Jobs) /\ StationTypes'
    <3>1. queue' = Append(queue, [kind |-> "authenticating", pid |-> sta.pid, ssid |-> n])
          /\ sta' = [sta EXCEPT !.cur = n] /\ ~sta.complete
      BY <2>1 DEF Authenticate, Log
    <3>2. queue' \in Seq(Jobs)
      BY <2>0, <3>1 DEF Jobs
    <3> QED BY <1>1, <2>0, <3>1, <3>2 DEF IInv, Types, StationTypes
  <2>2. ASSUME Connect PROVE queue' \in Seq(Jobs) /\ StationTypes'
    <3>1. queue' = Append(queue, [kind |-> "connected", pid |-> sta.pid])
          /\ sta' = [sta EXCEPT !.complete = TRUE] /\ sta.cur \in Ssids
      BY <2>2, <1>2 DEF Connect, Log
    <3>2. queue' \in Seq(Jobs)
      BY <2>0, <3>1 DEF Jobs
    <3> QED BY <1>1, <2>0, <3>1, <3>2 DEF IInv, Types, StationTypes
  <2>3. ASSUME Disconnect PROVE queue' \in Seq(Jobs) /\ StationTypes'
    <3>1. queue' = queue /\ sta' = [sta EXCEPT !.complete = FALSE, !.cur = None]
      BY <2>3 DEF Disconnect, automata
    <3> QED BY <1>1, <2>0, <3>1 DEF IInv, Types, StationTypes
  <2> QED BY <2>1, <2>2, <2>3
<1>4. SwitchInv'
  BY <1>1 DEF IInv, SwitchInv, Usable, Kept, box
<1> QED BY <1>1, <1>3, <1>4, StationOnly

\* It disables networks for a while, and reads its file when it starts.
LEMMA NetworksKeep ==
  ASSUME IInv, TempDisable \/ (\E n \in Ssids : TempEnable(n)) \/ RestartWpaSupplicant
  PROVE  IInv'
<1>1. /\ UNCHANGED <<box, plugins, hostapd, auto, queue, check>>
      /\ sw' = sw /\ skipped' \in {skipped, {}} /\ setup' = setup
  BY DEF TempDisable, TempEnable, RestartWpaSupplicant, automata, box, losses
<1>2. queue' \in Seq(Jobs)
  BY <1>1 DEF IInv, Types, AutomataTypes
<1>3. StationTypes'
  <2>0. StationTypes
    BY DEF IInv, Types
  <2>1. CASE TempDisable
    <3>1. nets' \in [Ssids -> {"absent", "disabled", "temp", "enabled"}]
      BY <2>0, <2>1 DEF TempDisable, StationTypes
    <3>2. sta' = [sta EXCEPT !.cur = None] /\ ~sta.complete
      BY <2>1 DEF TempDisable
    <3> QED BY <1>1, <2>0, <3>1, <3>2 DEF StationTypes
  <2>2. CASE \E n \in Ssids : TempEnable(n)
    <3>1. nets' \in [Ssids -> {"absent", "disabled", "temp", "enabled"}] /\ sta' = sta
      BY <2>0, <2>2 DEF TempEnable, StationTypes
    <3> QED BY <1>1, <2>0, <3>1 DEF StationTypes
  <2>3. CASE RestartWpaSupplicant
    <3>1. nets' \in [Ssids -> {"absent", "disabled", "temp", "enabled"}]
      BY <2>3 DEF RestartWpaSupplicant, FromFile
    <3>2. sta' = [pid |-> sta.pid + 1, cur |-> None, complete |-> FALSE] /\ sta.pid \in Nat
      BY <2>0, <2>3 DEF RestartWpaSupplicant, StationTypes
    <3> QED BY <1>1, <2>0, <3>1, <3>2 DEF StationTypes
  <2> QED BY <2>1, <2>2, <2>3
<1>4. \/ \A n \in setup.known : nets'[n] = "enabled"
      \/ /\ skipped' = skipped
         /\ \A n \in setup.known : nets'[n] \in {nets[n], "temp", "enabled"}
  <2>1. setup.known \subseteq Ssids /\ DOMAIN nets = Ssids
    BY SetupFacts DEF IInv, Types, StationTypes
  <2>2. ASSUME NEW x, NEW v, nets' = [nets EXCEPT ![x] = v], v \in {"temp", "enabled"}
        PROVE  \A n \in setup.known : nets'[n] \in {nets[n], "temp", "enabled"}
    BY <2>1, <2>2
  <2>3. ASSUME RestartWpaSupplicant PROVE \A n \in setup.known : nets'[n] = "enabled"
    BY <2>1, <2>3 DEF RestartWpaSupplicant, FromFile
  <2> QED BY <2>2, <2>3 DEF TempDisable, TempEnable, losses
<1>5. SwitchInv'
  <2>0. SwitchInv
    BY DEF IInv
  <2>1. CASE \A n \in setup.known : nets'[n] = "enabled"
    BY <1>1, <2>0, <2>1 DEF SwitchInv, Usable, Kept
  <2>2. CASE /\ skipped' = skipped
             /\ \A n \in setup.known : nets'[n] \in {nets[n], "temp", "enabled"}
    BY <1>1, <2>0, <2>2 DEF SwitchInv, Usable, Kept
  <2> QED BY <1>4, <2>1, <2>2
<1> QED BY <1>1, <1>2, <1>3, <1>5, StationOnly

\* A network that is selected can be used, and no other is lost from the list.
LEMMA SelectFacts ==
  ASSUME StationTypes, NEW n \in Ssids, NEW added, Select(n, added)
  PROVE  /\ nets' \in [Ssids -> {"absent", "disabled", "temp", "enabled"}]
         /\ sta' \in [pid : Nat, cur : Ssids \cup {None}, complete : BOOLEAN]
         /\ sta'.complete => sta'.cur \in Ssids
         /\ \A x \in Ssids : nets[x] # "absent" => nets'[x] # "absent"
         /\ nets[n] # "absent" => nets'[n] = "enabled"
         /\ nets[n] = "absent" => nets' = nets
<1>1. CASE nets[n] = "absent"
  BY <1>1 DEF Select, StationTypes
<1>2. CASE nets[n] # "absent"
  <2>1. nets' = [x \in Ssids |-> CASE nets[x] = "absent" -> "absent"
                                   [] x = n -> "enabled"
                                   [] OTHER -> "disabled"]
        /\ sta' = IF sta.cur = n /\ ~added THEN sta
                  ELSE [sta EXCEPT !.cur = None, !.complete = FALSE]
    BY <1>2 DEF Select
  <2>2. \A x \in Ssids : nets'[x] = IF nets[x] = "absent" THEN "absent"
                                    ELSE IF x = n THEN "enabled" ELSE "disabled"
    <3> SUFFICES ASSUME NEW x \in Ssids
                 PROVE  nets'[x] = IF nets[x] = "absent" THEN "absent"
                                   ELSE IF x = n THEN "enabled" ELSE "disabled"
      OBVIOUS
    <3>1. nets'[x] = CASE nets[x] = "absent" -> "absent"
                       [] x = n -> "enabled"
                       [] OTHER -> "disabled"
      BY <2>1
    <3>2. CASE nets[x] = "absent"
      <4>1. x # n BY <1>2, <3>2
      <4> QED BY <3>1, <3>2, <4>1
    <3>3. CASE nets[x] # "absent" /\ x = n
      BY <3>1, <3>3
    <3>4. CASE nets[x] # "absent" /\ x # n
      BY <3>1, <3>4
    <3> QED BY <3>2, <3>3, <3>4
  <2>3. nets' \in [Ssids -> {"absent", "disabled", "temp", "enabled"}]
    <3>1. \A x \in Ssids : nets'[x] \in {"absent", "disabled", "temp", "enabled"}
      BY <2>2
    <3>2. nets' = [x \in Ssids |-> nets'[x]]
      BY <2>1
    <3> QED BY <3>1, <3>2
  <2>4. sta' \in [pid : Nat, cur : Ssids \cup {None}, complete : BOOLEAN]
        /\ (sta'.complete => sta'.cur \in Ssids)
    BY <2>1 DEF StationTypes
  <2> QED BY <1>2, <2>2, <2>3, <2>4
<1> QED BY <1>1, <1>2

\* So is one that is put into a state, if it is listed.
LEMMA PutFacts ==
  ASSUME StationTypes, NEW n \in Ssids, NEW v \in {"disabled", "enabled"}, Put(n, v)
  PROVE  /\ nets' \in [Ssids -> {"absent", "disabled", "temp", "enabled"}]
         /\ sta' \in [pid : Nat, cur : Ssids \cup {None}, complete : BOOLEAN]
         /\ sta'.complete => sta'.cur \in Ssids
         /\ \A x \in Ssids : nets[x] # "absent" => nets'[x] # "absent"
         /\ nets[n] # "absent" => nets'[n] = v
         /\ \A x \in Ssids : x # n => nets'[x] = nets[x]
BY DEF Put, StationTypes

\* A step of switchWifi() that leaves all but the station alone.
LEMMA SwitchStep ==
  ASSUME IInv, UNCHANGED <<box, plugins, hostapd, automata>>, StationTypes', SwitchInv'
  PROVE  IInv'
BY StationOnly DEF automata, IInv, Types, AutomataTypes

\* switchWifi() lists the networks: those of the configuration are usable or
\* left out.
LEMMA SwitchBeginKeeps ==
  ASSUME IInv, NEW x \in setup.switches,
         SwitchWifi(x[1], x[2]) \/ SwitchUnlisted(x[1], x[2])
  PROVE  IInv'
<1>0. /\ StationTypes /\ SwitchInv /\ setup.known \subseteq Ssids
      /\ x[1] \in Ssids /\ x[2] \in BOOLEAN
  BY SetupFacts DEF IInv, Types
<1>1. /\ sw = Idle /\ UNCHANGED <<nets, sta, skipped, setup>>
      /\ UNCHANGED <<box, plugins, hostapd, automata>>
  BY DEF SwitchWifi, SwitchUnlisted, losses, box
<1>2. \E listed, usable, out \in SUBSET Ssids, current \in Ssids \cup {None} :
        /\ sw' = Begin(x[1], x[2], listed, usable, current, out)
        /\ setup.known \subseteq usable \cup out
  <2>1. CASE SwitchWifi(x[1], x[2])
    <3> DEFINE listed == {n \in Ssids : nets[n] # "absent"}
               usable == {n \in Ssids : nets[n] = "enabled"}
               out == skipped \cup {n \in Ssids : nets[n] = "temp"}
    <3>1. sw' = Begin(x[1], x[2], listed, usable, sta.cur, out)
      BY <2>1 DEF SwitchWifi
    <3>2. /\ listed \in SUBSET Ssids /\ usable \in SUBSET Ssids /\ out \in SUBSET Ssids
          /\ sta.cur \in Ssids \cup {None}
      BY <1>0 DEF StationTypes
    <3>3. ASSUME NEW n \in setup.known PROVE n \in usable \cup out
      <4>1. n \in Ssids /\ nets[n] \in {"disabled", "temp", "enabled"}
        BY <1>0 DEF SwitchInv, StationTypes
      <4>2. nets[n] = "disabled" => n \in skipped
        BY <1>0, <1>1 DEF SwitchInv, Usable, Kept, Idle
      <4> QED BY <4>1, <4>2
    <3> HIDE DEF listed, usable, out
    <3>4. setup.known \subseteq usable \cup out
      BY <3>3
    <3> QED BY <3>1, <3>2, <3>4
  <2>2. CASE SwitchUnlisted(x[1], x[2])
    <3>1. sw' = Begin(x[1], x[2], {}, {}, None, Ssids)
      BY <2>2 DEF SwitchUnlisted
    <3> QED BY <3>1, <1>0
  <2> QED BY <2>1, <2>2
<1>3. PICK listed \in SUBSET Ssids, usable \in SUBSET Ssids, out \in SUBSET Ssids,
           current \in Ssids \cup {None} :
        /\ sw' = Begin(x[1], x[2], listed, usable, current, out)
        /\ setup.known \subseteq usable \cup out
  BY <1>2
<1>4. /\ sw' \in Switching /\ sw'.at = "status" /\ sw'.usable = usable /\ sw'.out = out
  BY <1>0, <1>3 DEF Begin, Switching, Trying, Tried
<1>5. StationTypes'
  BY <1>0, <1>1, <1>4 DEF StationTypes
<1>6. Usable(Kept)'
  BY <1>0, <1>1 DEF SwitchInv, Usable, Kept, Idle
<1>7. SwitchInv'
  BY <1>0, <1>1, <1>3, <1>4, <1>6 DEF SwitchInv
<1> QED BY <1>1, <1>5, <1>7, SwitchStep

\* What a switch in the middle of its way needs to know of its record.
LEMMA Middle ==
  ASSUME StationTypes, sw.at \in Tried
  PROVE  /\ sw \in Trying /\ Trying \subseteq Switching
         /\ \A x : /\ Others(x) \in Switching /\ Others(x).at = "enable"
                   /\ Others(x).left = sw.usable \ {x}
<1>1. sw \in Trying
  BY DEF StationTypes, Switching, Trying, Tried, Idle
<1>2. sw.usable \subseteq Ssids
  BY <1>1 DEF Trying
<1>3. \A x : Others(x) \in Switching
  BY <1>2 DEF Others, Switching
<1> QED BY <1>1, <1>3 DEF Others, Switching

\* The record goes on to the next step, and the networks do not change.
LEMMA SwitchGoesOn ==
  ASSUME IInv, setup' = setup, nets' = nets, sta' = sta, skipped' = skipped,
         sw' \in Switching, sw.at \in Tried,
         \/ sw'.at = "idle" /\ sw.at \in {"status", "add", "select"}
         \/ /\ sw'.at \in Tried /\ sw'.ssid = sw.ssid /\ sw'.usable = sw.usable /\ sw'.out = sw.out
            /\ \/ sw.at \in {"status", "add", "select"} /\ sw'.at \in {"status", "add", "select"}
               \/ sw.at \in {"wait", "reconfigure"} /\ sw'.at \in {"wait", "reconfigure", "back"}
         \/ sw.at = "wait" /\ sw'.at = "enable" /\ sw'.left = sw.usable \ {sw.ssid}
  PROVE  StationTypes' /\ SwitchInv'
<1>1. StationTypes'
  BY DEF IInv, Types, StationTypes
<1>2. Kept' = Kept /\ \A S : Usable(S) => Usable(S)'
  BY DEF Kept, Usable
<1>3. SwitchInv'
  BY <1>2 DEF IInv, SwitchInv, Usable, Tried
<1> QED BY <1>1, <1>3

\* It looks at the station, and adds the network if it was not listed.
LEMMA SwitchAddKeeps ==
  ASSUME IInv, SwitchStatus \/ SwitchAdd
  PROVE  IInv'
<1>0. /\ StationTypes /\ SwitchInv /\ sta' = sta /\ skipped' = skipped /\ setup' = setup
      /\ setup.known \subseteq Ssids /\ sw.at \in Tried
  BY SetupFacts DEF IInv, Types, SwitchStatus, SwitchAdd, box, losses, Tried
<1>1. CASE SwitchStatus
  <2>1. /\ sw.at = "status" /\ nets' = nets
        /\ \/ sw' = Idle /\ auto' = auto
           \/ /\ sw' = [sw EXCEPT !.at = "add"]
              /\ auto' = [b \in Band |-> [auto[b] EXCEPT !.attempted = {}]]
        /\ UNCHANGED <<box, plugins, hostapd, queue, check>>
    BY <1>1 DEF SwitchStatus
  <2>2. PluginTypes' /\ HostapdTypes' /\ ServiceInv' /\ FilesInv'
    BY <2>1, Unaffected DEF box, plugins, hostapd
  <2>3. auto' \in Automata /\ \A b \in Band : auto'[b].state = auto[b].state
    <3>1. auto \in Automata
      BY DEF IInv, Types, AutomataTypes
    <3>2. CASE auto' = [b \in Band |-> [auto[b] EXCEPT !.attempted = {}]]
      BY <3>1, <3>2 DEF Automata
    <3> QED BY <2>1, <3>1, <3>2
  <2>4. AutomataTypes' /\ PauseInv'
    BY <2>1, <2>3 DEF IInv, Types, AutomataTypes, PauseInv, Ending, hostapd
  <2>5. \/ sw' = Idle /\ sw' \in Switching /\ sw'.at = "idle"
        \/ /\ sw' \in Switching /\ sw'.at = "add" /\ sw'.ssid = sw.ssid
           /\ sw'.usable = sw.usable /\ sw'.out = sw.out
    <3>1. CASE sw' = Idle
      BY <3>1 DEF Switching, Idle
    <3>2. CASE sw' = [sw EXCEPT !.at = "add"]
      BY <3>2, <1>0, Middle DEF Trying, Tried
    <3> QED BY <2>1, <3>1, <3>2
  <2>6. StationTypes' /\ SwitchInv'
    BY <1>0, <2>1, <2>5, SwitchGoesOn DEF Tried
  <2> QED BY <2>2, <2>4, <2>6 DEF IInv, Types
<1>2. CASE SwitchAdd
  <2>1. /\ sw.at = "add" /\ UNCHANGED <<box, plugins, hostapd, automata>>
        /\ nets' \in {nets, [nets EXCEPT ![sw.ssid] = IF @ = "absent" THEN "disabled" ELSE @]}
        /\ sw' \in {[sw EXCEPT !.at = "select"], [sw EXCEPT !.at = "select", !.added = sta.pid]}
    BY <1>2 DEF SwitchAdd
  <2>2. sta.pid \in Nat
    BY <1>0 DEF StationTypes
  <2>3. sw' \in Switching /\ sw'.at = "select" /\ sw'.usable = sw.usable /\ sw'.out = sw.out
    <3>1. sw \in Trying /\ Trying \subseteq Switching
      BY <1>0, Middle
    <3>2. CASE sw' = [sw EXCEPT !.at = "select"]
      BY <3>1, <3>2 DEF Trying, Tried
    <3>3. CASE sw' = [sw EXCEPT !.at = "select", !.added = sta.pid]
      BY <2>2, <3>1, <3>3 DEF Trying, Tried
    <3> QED BY <2>1, <3>2, <3>3
  <2>4. nets' \in [Ssids -> {"absent", "disabled", "temp", "enabled"}]
    BY <1>0, <2>1 DEF StationTypes
  <2>5. StationTypes'
    BY <1>0, <2>3, <2>4 DEF StationTypes
  <2>6. \A n \in setup.known : nets'[n] = nets[n]
    BY <1>0, <2>1 DEF SwitchInv, StationTypes
  <2>7. SwitchInv'
    BY <1>0, <2>1, <2>3, <2>6 DEF SwitchInv, Usable, Kept, Tried
  <2> QED BY <2>1, <2>5, <2>7, SwitchStep
<1> QED BY <1>1, <1>2

\* select_network disables what is usable, and it is to be enabled again, or
\* left out.
LEMMA SwitchSelectKeeps ==
  ASSUME IInv, SwitchSelect
  PROVE  IInv'
<1>0. /\ StationTypes /\ SwitchInv /\ setup' = setup /\ setup.known \subseteq Ssids
      /\ UNCHANGED <<box, plugins, hostapd, automata>>
      /\ sw.at = "select" /\ sw.at \in Tried
  BY SetupFacts DEF IInv, Types, SwitchSelect, box, Tried
<1>1. CASE Present
  <2>1. /\ Select(sw.ssid, sw.ssid \notin sw.listed) /\ sw' = [sw EXCEPT !.at = "wait"]
        /\ skipped' = (skipped \cup sw.out) \ {sw.ssid}
    BY <1>1 DEF SwitchSelect
  <2>2. /\ sw' \in Switching /\ sw'.at = "wait" /\ sw'.ssid = sw.ssid
        /\ sw'.usable = sw.usable /\ sw'.out = sw.out
        /\ sw.ssid \in Ssids /\ sw.out \subseteq Ssids
    BY <1>0, <2>1, Middle DEF Trying, Tried
  <2>3. /\ nets' \in [Ssids -> {"absent", "disabled", "temp", "enabled"}]
        /\ sta' \in [pid : Nat, cur : Ssids \cup {None}, complete : BOOLEAN]
        /\ sta'.complete => sta'.cur \in Ssids
        /\ \A x \in Ssids : nets[x] # "absent" => nets'[x] # "absent"
        /\ nets[sw.ssid] # "absent" => nets'[sw.ssid] = "enabled"
    BY <1>0, <2>1, <2>2, SelectFacts
  <2>4. StationTypes'
    BY <1>0, <2>1, <2>2, <2>3 DEF StationTypes
  <2>5. Usable(Kept \ (sw.usable \ {sw.ssid}))'
    <3> SUFFICES ASSUME NEW n \in setup.known, n \notin skipped', n \notin sw.usable \ {sw.ssid}
                 PROVE  nets'[n] # "disabled"
      BY <1>0, <2>2 DEF Usable, Kept
    <3>1. n = sw.ssid
      BY <1>0, <2>1 DEF SwitchInv
    <3> QED BY <3>1, <1>0, <2>3 DEF SwitchInv
  <2>6. SwitchInv'
    BY <1>0, <2>2, <2>3, <2>5 DEF SwitchInv, Tried
  <2> QED BY <1>0, <2>4, <2>6, SwitchStep
<1>2. CASE ~ Present
  <2>1. sw' = Idle /\ UNCHANGED <<nets, sta, skipped>>
    BY <1>2 DEF SwitchSelect
  <2>2. sw' \in Switching /\ sw'.at = "idle"
    BY <2>1 DEF Switching, Idle
  <2> QED BY <1>0, <2>1, <2>2, SwitchGoesOn, SwitchStep
<1> QED BY <1>1, <1>2

\* It waits, and reads the file again if the network is not to be kept.
LEMMA SwitchWaitKeeps ==
  ASSUME IInv, SwitchLate \/ SwitchTick \/ SwitchReconfigure
  PROVE  IInv'
<1>0. /\ StationTypes /\ SwitchInv /\ setup' = setup /\ setup.known \subseteq Ssids
      /\ UNCHANGED <<box, plugins, hostapd, automata>>
      /\ sw.at \in {"wait", "reconfigure"} /\ sw.at \in Tried
  BY SetupFacts DEF IInv, Types, SwitchLate, SwitchTick, SwitchReconfigure, box, Tried
<1>1. CASE UNCHANGED <<nets, sta, skipped>>
  <2>1. \/ sw.at = "wait" /\ sw' = [sw EXCEPT !.late = TRUE]
        \/ sw.at = "wait" /\ sw' = Others(sw.ssid)
        \/ sw.at = "wait" /\ sw' = [sw EXCEPT !.at = "reconfigure"]
        \/ sw.at = "reconfigure" /\ sw' = [sw EXCEPT !.at = "back"]
        \/ sw.at = "reconfigure" /\ sw' = [sw EXCEPT !.at = "back", !.added = None]
    BY DEF SwitchLate, SwitchTick, SwitchReconfigure
  <2>2. /\ sw' \in Switching
        /\ \/ /\ sw'.at \in {"wait", "reconfigure", "back"} /\ sw'.ssid = sw.ssid
              /\ sw'.usable = sw.usable /\ sw'.out = sw.out
           \/ sw.at = "wait" /\ sw'.at = "enable" /\ sw'.left = sw.usable \ {sw.ssid}
    <3>1. sw \in Trying /\ Trying \subseteq Switching
      BY <1>0, Middle
    <3>2. CASE \/ sw' = [sw EXCEPT !.late = TRUE] /\ sw.at = "wait"
               \/ sw' = [sw EXCEPT !.at = "reconfigure"] \/ sw' = [sw EXCEPT !.at = "back"]
      BY <3>1, <3>2 DEF Trying, Tried
    <3>3. CASE sw' = [sw EXCEPT !.at = "back", !.added = None]
      BY <3>1, <3>3 DEF Trying, Tried
    <3>4. CASE sw.at = "wait" /\ sw' = Others(sw.ssid)
      BY <3>4, <1>0, Middle
    <3> QED BY <2>1, <3>2, <3>3, <3>4
  <2> QED BY <1>0, <1>1, <2>2, SwitchGoesOn, SwitchStep DEF Tried
<1>2. CASE /\ sw.at = "reconfigure" /\ nets' = FromFile /\ skipped' = {}
           /\ sta' = [sta EXCEPT !.cur = None, !.complete = FALSE]
           /\ sw' = [sw EXCEPT !.at = "back", !.added = None]
  <2>1. /\ sw' \in Switching /\ sw'.at = "back" /\ sw'.ssid = sw.ssid
        /\ sw'.usable = sw.usable /\ sw'.out = sw.out
    BY <1>0, <1>2, Middle DEF Trying, Tried
  <2>2. /\ nets' \in [Ssids -> {"absent", "disabled", "temp", "enabled"}]
        /\ \A n \in setup.known : nets'[n] = "enabled"
    BY <1>0, <1>2 DEF FromFile
  <2>3. StationTypes'
    BY <1>0, <1>2, <2>1, <2>2 DEF StationTypes
  <2>4. SwitchInv'
    BY <1>0, <2>1, <2>2 DEF SwitchInv, Usable, Kept, Tried
  <2> QED BY <1>0, <2>3, <2>4, SwitchStep
<1> QED BY <1>0, <1>1, <1>2 DEF SwitchLate, SwitchTick, SwitchReconfigure, losses

\* It goes back to the network it came from, which disables the others again.
LEMMA SwitchBackKeeps ==
  ASSUME IInv, SwitchBack
  PROVE  IInv'
<1>0. /\ StationTypes /\ SwitchInv /\ setup' = setup /\ setup.known \subseteq Ssids
      /\ UNCHANGED <<box, plugins, hostapd, automata>>
      /\ sw.at = "back" /\ sw.at \in Tried /\ sw' = Others(sw.current)
  BY SetupFacts DEF IInv, Types, SwitchBack, box, Tried
<1>1. /\ sw' \in Switching /\ sw'.at = "enable" /\ sw'.left = sw.usable \ {sw.current}
      /\ sw.ssid \in Ssids /\ sw.current \in Ssids \cup {None} /\ sw.out \subseteq Ssids
  <2>1. sw \in Trying
    BY <1>0, Middle
  <2>2. Others(sw.current) \in Switching
    BY <1>0, Middle
  <2> QED BY <1>0, <2>1, <2>2 DEF Trying, Others
<1>2. /\ \A n \in Kept : n \notin sw.usable \/ n = sw.ssid => nets[n] # "disabled"
      /\ setup.known \subseteq sw.usable \cup sw.out
      /\ \A n \in setup.known : nets[n] # "absent"
  BY <1>0 DEF SwitchInv, Usable
<1>3. ASSUME StationTypes', \A n \in setup.known : nets'[n] # "absent",
             \A n \in setup.known \ skipped' :
               n \notin sw.usable \/ n = sw.current => nets'[n] # "disabled"
      PROVE  IInv'
  <2>1. SwitchInv'
    BY <1>0, <1>1, <1>3 DEF SwitchInv, Usable, Kept, Tried
  <2> QED BY <1>0, <1>3, <2>1, SwitchStep
<1>4. CASE sw.current # None /\ Select(sw.current, FALSE)
           /\ skipped' = IF nets[sw.current] = "absent" THEN skipped
                         ELSE (skipped \cup sw.out) \ {sw.current}
  <2>1. /\ nets' \in [Ssids -> {"absent", "disabled", "temp", "enabled"}]
        /\ sta' \in [pid : Nat, cur : Ssids \cup {None}, complete : BOOLEAN]
        /\ sta'.complete => sta'.cur \in Ssids
        /\ \A x \in Ssids : nets[x] # "absent" => nets'[x] # "absent"
        /\ nets[sw.current] # "absent" => nets'[sw.current] = "enabled"
        /\ nets[sw.current] = "absent" => nets' = nets
    BY <1>0, <1>1, <1>4, SelectFacts
  <2>2. skipped' \subseteq Ssids
    BY <1>0, <1>1, <1>4 DEF StationTypes
  <2>3. StationTypes'
    BY <1>0, <1>1, <2>1, <2>2 DEF StationTypes
  <2>4. ASSUME NEW n \in setup.known, n \notin skipped', n \notin sw.usable \/ n = sw.current
        PROVE  nets'[n] # "disabled"
    <3>1. CASE nets[sw.current] = "absent"
      <4>1. n # sw.current /\ n \in Kept
        BY <3>1, <1>2, <1>4, <2>4 DEF Kept
      <4> QED BY <3>1, <4>1, <1>2, <2>1, <2>4
    <3>2. CASE nets[sw.current] # "absent"
      <4>1. n = sw.current
        BY <3>2, <1>2, <1>4, <2>4
      <4> QED BY <3>2, <4>1, <2>1
    <3> QED BY <3>1, <3>2
  <2>5. \A n \in setup.known : nets'[n] # "absent"
    BY <1>0, <1>2, <2>1
  <2> QED BY <1>3, <2>3, <2>4, <2>5
<1>5. CASE /\ sw.current = None /\ skipped' = skipped \cup (sw.out \cap {sw.ssid})
           /\ IF Present THEN Put(sw.ssid, "disabled") ELSE UNCHANGED <<nets, sta>>
  <2>1. /\ nets' \in [Ssids -> {"absent", "disabled", "temp", "enabled"}]
        /\ sta' \in [pid : Nat, cur : Ssids \cup {None}, complete : BOOLEAN]
        /\ sta'.complete => sta'.cur \in Ssids
        /\ \A x \in Ssids : nets[x] # "absent" => nets'[x] # "absent"
        /\ \A x \in Ssids : x # sw.ssid => nets'[x] = nets[x]
    <3>1. CASE Present
      BY <3>1, <1>0, <1>1, <1>5, PutFacts
    <3>2. CASE ~ Present
      BY <3>2, <1>0, <1>5 DEF StationTypes
    <3> QED BY <3>1, <3>2
  <2>2. skipped' \subseteq Ssids
    BY <1>0, <1>1, <1>5 DEF StationTypes
  <2>3. StationTypes'
    BY <1>0, <1>1, <2>1, <2>2 DEF StationTypes
  <2>4. ASSUME NEW n \in setup.known, n \notin skipped', n \notin sw.usable \/ n = sw.current
        PROVE  nets'[n] # "disabled"
    <3>1. n \notin sw.usable /\ n \in Ssids
      BY <1>0, <1>5, <2>4, NoneAssumption
    <3>2. n # sw.ssid /\ n \in Kept
      BY <1>2, <1>5, <2>4, <3>1 DEF Kept
    <3> QED BY <1>2, <2>1, <3>1, <3>2
  <2>5. \A n \in setup.known : nets'[n] # "absent"
    BY <1>0, <1>2, <2>1
  <2> QED BY <1>3, <2>3, <2>4, <2>5
<1>6. CASE /\ UNCHANGED <<nets, sta>>
           /\ skipped' = skipped \cup {n \in {sw.current} \ {None} : nets[n] = "disabled"}
  <2>1. skipped' \subseteq Ssids
    BY <1>0, <1>1, <1>6 DEF StationTypes
  <2>2. StationTypes'
    BY <1>0, <1>1, <1>6, <2>1 DEF StationTypes
  <2>3. ASSUME NEW n \in setup.known, n \notin skipped', n \notin sw.usable \/ n = sw.current
        PROVE  nets'[n] # "disabled"
    <3>1. n \in Kept /\ n # None
      BY <1>0, <1>6, <2>3, NoneAssumption DEF Kept
    <3> QED BY <1>2, <1>6, <2>3, <3>1
  <2> QED BY <1>2, <1>3, <1>6, <2>2, <2>3
<1> QED BY <1>4, <1>5, <1>6 DEF SwitchBack

\* It enables the others one by one, or gives up before it has selected a
\* network.
LEMMA SwitchEndKeeps ==
  ASSUME IInv, SwitchEnable \/ SwitchRejects
  PROVE  IInv'
<1>0. /\ StationTypes /\ SwitchInv /\ setup.known \subseteq Ssids
      /\ UNCHANGED <<box, plugins, hostapd, automata>> /\ setup' = setup
  BY SetupFacts DEF IInv, Types, SwitchEnable, SwitchRejects, box
<1>1. CASE sw' = Idle /\ UNCHANGED <<nets, sta, skipped>>
  <2>1. sw.at \in {"add", "select"} \/ (sw.at = "enable" /\ sw.left = {})
    BY <1>1 DEF SwitchEnable, SwitchRejects, Idle, IInv, Types, StationTypes, Switching
  <2>2. StationTypes'
    BY <1>0, <1>1 DEF StationTypes, Switching
  <2>3. Usable(Kept)
    BY <1>0, <2>1 DEF SwitchInv
  <2>4. SwitchInv'
    BY <1>0, <1>1, <2>3 DEF SwitchInv, Usable, Kept, Idle, Tried
  <2> QED BY <1>0, <2>2, <2>4, SwitchStep
<1>2. ASSUME NEW n \in sw.left, sw.at = "enable", sw' = [sw EXCEPT !.left = @ \ {n}],
             \/ Put(n, "enabled") /\ skipped' = skipped
             \/ /\ UNCHANGED <<nets, sta>>
                /\ skipped' = skipped \cup ({n} \cap {x \in Ssids : nets[x] = "disabled"})
      PROVE  IInv'
  <2>1. sw \in [at : {"enable"}, left : SUBSET Ssids]
    BY <1>0, <1>2 DEF StationTypes, Switching, Trying, Tried, Idle
  <2>2. sw' \in Switching /\ sw'.at = "enable" /\ sw'.left = sw.left \ {n} /\ n \in Ssids
    BY <1>2, <2>1 DEF Switching
  <2>3. /\ nets' \in [Ssids -> {"absent", "disabled", "temp", "enabled"}]
        /\ sta' \in [pid : Nat, cur : Ssids \cup {None}, complete : BOOLEAN]
        /\ sta'.complete => sta'.cur \in Ssids
        /\ \A x \in Ssids : nets[x] # "absent" => nets'[x] # "absent"
        /\ nets[n] # "absent" => nets'[n] = "enabled" \/ n \in skipped' \/ nets'[n] # "disabled"
        /\ \A x \in Ssids : x # n => nets'[x] = nets[x]
    <3>1. CASE Put(n, "enabled")
      BY <3>1, <1>0, <2>2, PutFacts
    <3>2. CASE UNCHANGED <<nets, sta>>
               /\ skipped' = skipped \cup ({n} \cap {x \in Ssids : nets[x] = "disabled"})
      BY <3>2, <1>0, <2>2 DEF StationTypes
    <3> QED BY <3>1, <3>2, <1>2
  <2>4. skipped' \subseteq Ssids /\ skipped \subseteq skipped'
    BY <1>0, <1>2 DEF StationTypes
  <2>5. StationTypes'
    BY <1>0, <2>2, <2>3, <2>4 DEF StationTypes
  <2>6. ASSUME NEW x \in setup.known, x \notin skipped', x \notin sw.left \ {n}
        PROVE  nets'[x] # "disabled"
    <3>1. CASE x = n
      BY <3>1, <1>0, <2>3, <2>6 DEF SwitchInv
    <3>2. CASE x # n
      BY <3>2, <1>0, <1>2, <2>3, <2>4, <2>6 DEF SwitchInv, Usable, Kept
    <3> QED BY <3>1, <3>2
  <2>7. SwitchInv'
    BY <1>0, <2>2, <2>3, <2>6 DEF SwitchInv, Usable, Kept, Tried
  <2> QED BY <1>0, <2>5, <2>7, SwitchStep
<1> QED BY <1>1, <1>2 DEF SwitchEnable, SwitchRejects, losses

-----------------------------------------------------------------------------
(* The invariant and what follows from it.                                 *)

\* hostapd serves what is configured when the box starts.
LEMMA InitInv == Init => IInv
<1> SUFFICES ASSUME Init PROVE IInv
  OBVIOUS
<1>1. PluginTypes
  BY SetupsAssumption DEF Init, PluginTypes
<1>2. HostapdTypes
  <2>1. files \in [Aps -> Nat \cup {None}]
    BY <1>1 DEF Init, Files, PluginTypes, Config
  <2> QED BY <2>1 DEF Init, HostapdTypes
<1>3. AutomataTypes
  BY DEF Init, AutomataTypes, Automata, Jobs, Checks
<1>4. StationTypes
  BY DEF Init, FromFile, StationTypes, Switching
<1>5. FilesInv
  BY <1>1 DEF Init, FilesInv, Reapplied, Files, PluginTypes
<1>6. ServiceInv
  BY DEF Init, ServiceInv, Served
<1>7. PauseInv
  BY DEF Init, PauseInv, Ending, Idle, Waiting
<1>8. SwitchInv
  <2>1. \A n \in setup.known : nets[n] = "enabled"
    BY <1>1, SetupFacts DEF Init, FromFile
  <2>2. sw.at = "idle"
    BY DEF Init, Idle
  <2> QED BY <2>1, <2>2 DEF SwitchInv, Usable, Kept, Tried
<1> QED BY <1>1, <1>2, <1>3, <1>4, <1>5, <1>6, <1>7, <1>8 DEF IInv, Types

\* Every step preserves the invariant.
LEMMA NextInv == IInv /\ [Next]_vars => IInv'
<1> SUFFICES ASSUME IInv, [Next]_vars PROVE IInv'
  OBVIOUS
<1>1. CASE UNCHANGED vars
  BY <1>1, Unaffected DEF vars, box, plugins, hostapd, automata, station, IInv, Types
<1>2. CASE \E b \in Band : RestartHostapd(b) \/ HostapdRestarted(b)
  BY <1>2, RestartHostapdKeeps, HostapdRestartedKeeps
<1>3. CASE Reapply \/ SetConfig \/ ConfigSet
  BY <1>3, FlushApplyKeep, EnableKeeps, SetConfigKeeps DEF Reapply
<1>4. CASE OnEvent \/ CheckAPStateAutomata \/ \E b \in Band : SilenceEnds(b)
  BY <1>4, OnEventKeeps, IntervalsKeep
<1>5. CASE Check \/ CheckReapply
  BY <1>5, IntervalsKeep, CheckBandKeeps, CheckKeeps DEF Check
<1>6. CASE \/ \E n \in Ssids : Authenticate(n) \/ TempEnable(n)
           \/ Connect \/ Disconnect \/ TempDisable \/ RestartWpaSupplicant
  BY <1>6, TriesKeep, NetworksKeep
<1>7. CASE \/ \E x \in setup.switches : SwitchWifi(x[1], x[2])
           \/ \E x \in setup.switches : SwitchUnlisted(x[1], x[2])
           \/ SwitchRejects \/ SwitchLate \/ Switch
  BY <1>7, SwitchBeginKeeps, SwitchAddKeeps, SwitchSelectKeeps, SwitchWaitKeeps,
     SwitchBackKeeps, SwitchEndKeeps DEF Switch
<1> QED BY <1>1, <1>2, <1>3, <1>4, <1>5, <1>6, <1>7 DEF Next

\* The invariant holds in every reachable state.
THEOREM Invariant == Spec => []IInv
<1>1. Init => IInv
  BY InitInv
<1>2. IInv /\ [Next]_vars => IInv'
  BY NextInv
<1> QED BY <1>1, <1>2, PTL DEF Spec

\* When its timers have fired, hostapd serves just what is configured, or
\* nothing in a silence, however the reapplies of clients, the automata and
\* the timers interleave (scheduleHostapdRestart(), pauseAP() and resumeAP()).
THEOREM ServesAsConfiguredAlways == Spec => []ServesAsConfigured
<1>1. IInv => ServesAsConfigured
  <2> SUFFICES ASSUME IInv, NEW b \in Band, Settled(b)
               PROVE  service[b] = IF auto[b].state = "silence" THEN {} ELSE OnBand(b, Files(conf))
    BY DEF ServesAsConfigured
  <2>1. holder = None /\ b \notin timer /\ merged[b] = {} /\ ~ Ending(b)
    BY DEF Settled, Ending, Idle, Waiting
  <2>2. service[b] = Served(b)
    BY <2>1 DEF IInv, ServiceInv
  <2>3. pause[b] <=> auto[b].state = "silence"
    BY <2>1 DEF IInv, PauseInv
  <2>4. files = Files(conf)
    <3>1. \A a \in Aps : files[a] = Files(conf)[a]
      BY <2>1 DEF IInv, FilesInv, Reapplied
    <3>2. files \in [Aps -> Nat \cup {None}] /\ DOMAIN Files(conf) = Aps
      BY DEF IInv, Types, HostapdTypes, Files
    <3>3. files = [a \in Aps |-> files[a]] /\ Files(conf) = [a \in Aps |-> Files(conf)[a]]
      BY <3>2 DEF Files
    <3> QED BY <3>1, <3>3
  <2> QED BY <2>2, <2>3, <2>4 DEF Served
<1> QED BY <1>1, Invariant, PTL

\* After a switch every network of the configuration can be used again,
\* whatever wpa_supplicant does meanwhile and whichever commands fail, but for
\* those that the failures themselves leave out (switchWifi()).
THEOREM SwitchRestoresAlways == Spec => []SwitchRestores
<1>1. IInv => SwitchRestores
  BY DEF IInv, SwitchInv, SwitchRestores, Usable, Kept, Idle
<1> QED BY <1>1, Invariant, PTL
=============================================================================
