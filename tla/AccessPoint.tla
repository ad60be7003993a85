----------------------------- MODULE AccessPoint -----------------------------
(***************************************************************************)
(* Access point and Wi-Fi station of a box with one radio per band         *)
(* (platform/orange/OrangePlatform.js, plugins/hostapd/hostapd_plugin.js,  *)
(* switchWifi() of core/network_config_mgr.js).  A station that tries a    *)
(* network on another channel of the same radio needs the access point to  *)
(* be silent.  The platform reads the log of wpa_supplicant, pauses        *)
(* hostapd when a new network is tried, and resumes it when the silence    *)
(* ends.  The hostapd plugins write a file per access point, and a timer   *)
(* of the platform merges the files of a band and restarts hostapd.        *)
(***************************************************************************)
EXTENDS Naturals, Sequences

CONSTANTS
  Aps,       \* the hostapd instances
  Ssids,     \* the networks of the station
  Setups,    \* the boxes looked at: want (configuration of the access
             \* points), changes (others that clients apply), channel and
             \* works of each network, known (those in the file of
             \* wpa_supplicant), switches (arguments of switchWifi), temp
             \* (wpa_supplicant disables networks that fail for a while),
             \* restarts (how often it is restarted), and as bounds lines
             \* (lines of its log that wait for the lock) and failures (of
             \* commands whose failure switchWifi() does not look at)
  None

Bands == <<"2.4g", "5g">>
Band == {"2.4g", "5g"}
BandOf(channel) == IF channel \in 1..14 THEN "2.4g" ELSE "5g"

\* an access point is configured with a channel, and may be disabled
Config == [channel : Nat, enabled : BOOLEAN]

ASSUME NoneAssumption == None \notin Ssids \cup {"client", "check"}

ASSUME SetupsAssumption ==
  \A s \in Setups :
    /\ {s.want} \cup s.changes \subseteq [Aps -> Config \cup {None}]
    /\ s.channel \in [Ssids -> Nat] /\ s.works \subseteq Ssids /\ s.known \subseteq Ssids
    /\ s.switches \subseteq Ssids \X BOOLEAN /\ s.temp \in BOOLEAN /\ s.restarts \in Nat
    /\ s.lines \in Nat \ {0} /\ s.failures \in Nat

VARIABLES
  setup,    \* the box looked at
  want,     \* the stored configuration of the access points
  conf,     \* networkConfig of the hostapd instances, None if there is none
  target,   \* what the reapply in progress brings them to
  todo,     \* todo[a]: the next step of that reapply for a
  holder,   \* who has LOCK_CONFIG_RW: "client", "check" or None
  files,    \* files[a]: the channel in the file of a, None if there is none
  timer,    \* bands in hostapdRestartTasks
  merged,   \* merged[b]: what the callback of the timer has read, {} if there is none
  pause,    \* apPause
  service,  \* what hostapd serves on each band, {} if it is stopped
  auto,     \* apStateAutomata.bands
  pid,      \* apStateAutomata.wpaSupplicantPID
  queue,    \* what waits for LOCK_AP_STATE_AUTOMATA
  check,    \* the check that has it: band and next step
  nets,     \* networks in wpa_supplicant
  sta,      \* the process wpa_supplicant, the network it tries, wpa_state
  sw,       \* the running switchWifi()
  skipped,  \* history: networks that a switchWifi() left out, since the file
            \* was read last
  failed,   \* failures of commands so far
  began     \* history: the network that began the last silence of each band

box == <<setup, want>>
plugins == <<conf, target, todo, holder>>
hostapd == <<files, timer, merged, pause, service>>
automata == <<auto, pid, queue, check, began>>
station == <<nets, sta, sw, skipped, failed>>
losses == <<skipped, failed>>
vars == <<box, plugins, hostapd, automata, station>>

Idle == [at |-> "idle"]

\* what the file of wpa_supplicant says
FromFile == [n \in Ssids |-> IF n \in setup.known THEN "enabled" ELSE "absent"]

OnBand(b, f) == {<<a, f[a]>> : a \in {x \in Aps : f[x] # None /\ BandOf(f[x]) = b}}

\* the files that the configuration c stands for
Files(c) ==
  [a \in Aps |-> IF c[a] # None /\ c[a].enabled THEN c[a].channel ELSE None]

Init ==
  /\ setup \in Setups /\ want = setup.want
  /\ conf = want /\ target = want
  /\ todo = [a \in Aps |-> "none"] /\ holder = None
  /\ files = Files(want)
  /\ timer = {} /\ merged = [b \in Band |-> {}]
  /\ pause = [b \in Band |-> FALSE]
  /\ service = [b \in Band |-> OnBand(b, files)]
  /\ auto = [b \in Band |-> [state |-> "normal", due |-> FALSE, attempted |-> {}]]
  /\ pid = None /\ queue = <<>> /\ check = Idle
  /\ began = [b \in Band |-> None]
  /\ nets = FromFile
  /\ sta = [pid |-> 0, cur |-> None, complete |-> FALSE]
  /\ sw = Idle /\ skipped = {} /\ failed = 0

-----------------------------------------------------------------------------
(* The restart of hostapd                                                  *)

\* a new timer takes the place of the old one
ScheduleHostapdRestart(bands) == timer' = timer \cup bands

\* Two seconds later.  The callback has read the files before the next timer
\* of its band can fire.
RestartHostapd(b) ==
  /\ b \in timer /\ merged[b] = {}
  /\ timer' = timer \ {b}
  /\ merged' = [merged EXCEPT ![b] = {OnBand(b, files)}]
  /\ UNCHANGED <<files, pause, service, box, plugins, automata, station>>

HostapdRestarted(b) ==
  /\ merged[b] # {}
  /\ service' = [service EXCEPT ![b] = IF pause[b] THEN {} ELSE UNION merged[b]]
  /\ merged' = [merged EXCEPT ![b] = {}]
  /\ UNCHANGED <<files, timer, pause, box, plugins, automata, station>>

PauseAP(b) ==
  /\ pause' = [pause EXCEPT ![b] = TRUE]
  /\ ScheduleHostapdRestart({b})

\* Changed: the flag is cleared and hostapd left as it is
ResumeAPUnscheduled(b) ==
  /\ pause' = [pause EXCEPT ![b] = FALSE]
  /\ UNCHANGED timer

ResumeAP(b) ==
  /\ pause' = [pause EXCEPT ![b] = FALSE]
  /\ ScheduleHostapdRestart({b})

-----------------------------------------------------------------------------
(* The hostapd plugins in a reapply                                        *)

DisableHostapd(a) ==
  /\ files' = [files EXCEPT ![a] = None]
  /\ ScheduleHostapdRestart(IF files[a] = None THEN {} ELSE {BandOf(files[a])})

EnableHostapd(a) ==
  /\ files' = [files EXCEPT ![a] = conf[a].channel]
  /\ ScheduleHostapdRestart({BandOf(conf[a].channel)})

\* fwapc may move the access points of a band to the channel of the station
Followed(w) ==
  LET channel == setup.channel[sta.cur] IN
    [a \in Aps |-> IF w[a] # None /\ BandOf(w[a].channel) = BandOf(channel)
                   THEN [w[a] EXCEPT !.channel = channel] ELSE w[a]]

ConvertIntegratedAPConfig(w) == {w} \cup (IF sta.complete THEN {Followed(w)} ELSE {})

StartReapply(who, w) ==
  /\ holder = None /\ holder' = who
  /\ target' \in ConvertIntegratedAPConfig(w)
  /\ todo' = [a \in Aps |-> IF conf[a] = target'[a] THEN "none" ELSE "flush"]
  /\ UNCHANGED conf

Flush(a) ==
  /\ todo[a] = "flush"
  /\ DisableHostapd(a)
  /\ conf' = [conf EXCEPT ![a] = target[a]]
  /\ todo' = [todo EXCEPT ![a] = IF target[a] = None THEN "none" ELSE "apply"]
  /\ UNCHANGED <<merged, pause, service, target, holder, box, automata, station>>

Apply(a) ==
  /\ todo[a] = "apply" /\ \A x \in Aps : todo[x] # "flush"
  /\ DisableHostapd(a)
  /\ todo' = [todo EXCEPT ![a] = IF conf[a].enabled THEN "enable" ELSE "none"]
  /\ UNCHANGED <<merged, pause, service, conf, target, holder, box, automata, station>>

Enable(a) ==
  /\ todo[a] = "enable"
  /\ EnableHostapd(a)
  /\ todo' = [todo EXCEPT ![a] = "none"]
  /\ UNCHANGED <<merged, pause, service, conf, target, holder, box, automata, station>>

Reapplied == \A a \in Aps : todo[a] = "none"

\* a client stores another configuration
SetConfig ==
  /\ want' \in setup.changes \ {want}
  /\ StartReapply("client", want')
  /\ UNCHANGED <<setup, hostapd, automata, station>>

ConfigSet ==
  /\ holder = "client" /\ Reapplied
  /\ holder' = None
  /\ UNCHANGED <<conf, target, todo, box, hostapd, automata, station>>

-----------------------------------------------------------------------------
(* The state automata of the bands                                         *)

\* the attempts are forgotten when wpa_supplicant was restarted
Remembered(job) ==
  IF job.pid = pid THEN auto ELSE [b \in Band |-> [auto[b] EXCEPT !.attempted = {}]]

\* Changed: every attempt counts as new
IsNewAlways(ssid, automaton) == TRUE

IsNew(ssid, automaton) == ssid \notin automaton.attempted

Authenticating(job) ==
  LET remembered == Remembered(job)
      channel == setup.channel[job.ssid]
      b == BandOf(channel)
      new == IsNew(job.ssid, remembered[b])
      elsewhere == (\E a \in Aps : conf[a] # None)
                   /\ \A a \in Aps : conf[a] # None => conf[a].channel # channel
  IN  IF remembered[b].state = "silence"
      THEN /\ auto' = [remembered EXCEPT ![b].due = @ /\ ~new,
                                         ![b].attempted = @ \cup {job.ssid}]
           /\ UNCHANGED <<began, timer, pause>>
      ELSE IF new /\ elsewhere
      THEN /\ auto' = [remembered EXCEPT ![b].state = "silence", ![b].due = FALSE]
           /\ began' = [began EXCEPT ![b] = job.ssid]
           /\ PauseAP(b)
      ELSE /\ auto' = remembered
           /\ UNCHANGED <<began, timer, pause>>

\* a silence is due five seconds later
Connected ==
  /\ auto' = [b \in Band |-> [auto[b] EXCEPT !.attempted = {}, !.due = FALSE]]
  /\ UNCHANGED <<began, timer, pause>>

OnEvent ==
  /\ queue # <<>> /\ Head(queue).kind # "check" /\ check = Idle
  /\ LET job == Head(queue) IN
       /\ pid' = job.pid
       /\ \/ job.kind = "authenticating" /\ Authenticating(job)
          \/ job.kind = "connected" /\ Connected
  /\ queue' = Tail(queue)
  /\ UNCHANGED <<check, files, merged, service, box, plugins, station>>

\* the end of the silence is reached
SilenceEnds(b) ==
  /\ auto[b].state = "silence" /\ ~auto[b].due
  /\ auto' = [auto EXCEPT ![b].due = TRUE]
  /\ UNCHANGED <<began, pid, queue, check, box, plugins, hostapd, station>>

\* The interval; a check without a silence that is due has no effect.
CheckAPStateAutomata ==
  /\ \E b \in Band : auto[b].state = "silence" /\ auto[b].due
  /\ check = Idle /\ \A i \in DOMAIN queue : queue[i].kind # "check"
  /\ queue' = Append(queue, [kind |-> "check"])
  /\ UNCHANGED <<auto, began, pid, check, box, plugins, hostapd, station>>

CheckStarts ==
  /\ queue # <<>> /\ Head(queue).kind = "check" /\ check = Idle
  /\ queue' = Tail(queue)
  /\ check' = [at |-> "band", band |-> 1]
  /\ UNCHANGED <<auto, began, pid, box, plugins, hostapd, station>>

NextBand == IF check.band = Len(Bands) THEN Idle ELSE [at |-> "band", band |-> check.band + 1]

\* a band whose silence is over becomes normal before the first await
CheckBand ==
  /\ check.at = "band"
  /\ LET b == Bands[check.band]
         over == auto[b].state = "silence" /\ auto[b].due
         none == \A a \in Aps : conf[a] = None IN
       /\ auto' = IF over THEN [auto EXCEPT ![b].state = "normal", ![b].due = FALSE] ELSE auto
       /\ IF over /\ none THEN ResumeAP(b) ELSE UNCHANGED <<timer, pause>>
       /\ check' = IF over /\ ~none THEN [check EXCEPT !.at = "status"] ELSE NextBand
  /\ UNCHANGED <<began, pid, queue, files, merged, service, box, plugins, station>>

\* The configuration is applied again unless an access point of the band is on
\* the channel of the station (the first one is looked at).
CheckStatus ==
  /\ check.at = "status"
  /\ LET b == Bands[check.band]
         same(a) == conf[a] # None /\ BandOf(conf[a].channel) = b IN
       \/ /\ sta.complete
          /\ \E a \in Aps : same(a) /\ conf[a].channel = setup.channel[sta.cur]
          /\ ResumeAP(b) /\ check' = NextBand
       \/ /\ sta.complete => \/ \A a \in Aps : ~same(a)
                             \/ \E a \in Aps : same(a) /\ conf[a].channel # setup.channel[sta.cur]
          /\ check' = [check EXCEPT !.at = "lock"]
          /\ UNCHANGED <<timer, pause>>
  /\ UNCHANGED <<auto, began, pid, queue, files, merged, service, box, plugins, station>>

CheckReapply ==
  /\ check.at = "lock"
  /\ StartReapply("check", want)
  /\ check' = [check EXCEPT !.at = "reapply"]
  /\ UNCHANGED <<auto, began, pid, queue, box, hostapd, station>>

CheckReapplied ==
  /\ check.at = "reapply" /\ Reapplied
  /\ holder' = None
  /\ ResumeAP(Bands[check.band])
  /\ check' = NextBand
  /\ UNCHANGED <<auto, began, pid, queue, files, merged, service, conf, target, todo, box, station>>

-----------------------------------------------------------------------------
(* wpa_supplicant, and the lines that it logs                              *)

Log(job) == Len(queue) < setup.lines /\ queue' = Append(queue, job)

Authenticate(n) ==
  /\ ~sta.complete /\ nets[n] = "enabled"
  /\ sta' = [sta EXCEPT !.cur = n]
  /\ Log([kind |-> "authenticating", pid |-> sta.pid, ssid |-> n])
  /\ UNCHANGED <<auto, began, pid, check, nets, sw, losses, box, plugins, hostapd>>

\* the radio can only be on one channel
Audible(n) == \A x \in service[BandOf(setup.channel[n])] : x[2] = setup.channel[n]

Connect ==
  /\ ~sta.complete /\ sta.cur \in setup.works /\ Audible(sta.cur)
  /\ sta' = [sta EXCEPT !.complete = TRUE]
  /\ Log([kind |-> "connected", pid |-> sta.pid])
  /\ UNCHANGED <<auto, began, pid, check, nets, sw, losses, box, plugins, hostapd>>

Disconnect ==
  /\ sta.complete
  /\ sta' = [sta EXCEPT !.complete = FALSE, !.cur = None]
  /\ UNCHANGED <<nets, sw, losses, box, plugins, hostapd, automata>>

TempDisable ==
  /\ setup.temp /\ ~sta.complete /\ sta.cur \in Ssids \ setup.works
  /\ nets' = [nets EXCEPT ![sta.cur] = "temp"]
  /\ sta' = [sta EXCEPT !.cur = None]
  /\ UNCHANGED <<sw, losses, box, plugins, hostapd, automata>>

TempEnable(n) ==
  /\ nets[n] = "temp"
  /\ nets' = [nets EXCEPT ![n] = "enabled"]
  /\ UNCHANGED <<sta, sw, losses, box, plugins, hostapd, automata>>

RestartWpaSupplicant ==
  /\ sta.pid < setup.restarts
  /\ nets' = FromFile
  /\ sta' = [pid |-> sta.pid + 1, cur |-> None, complete |-> FALSE]
  /\ skipped' = {}
  /\ UNCHANGED <<sw, failed, box, plugins, hostapd, automata>>

\* select_network disables the others; enable_network, disable_network.  The
\* networks of a name are one here, which is enabled if one of them is: another
\* one of the name is left for it, if it was added by switchWifi().
Select(n, added) ==
  IF nets[n] = "absent" THEN UNCHANGED <<nets, sta>> ELSE
    /\ nets' = [x \in Ssids |-> CASE nets[x] = "absent" -> "absent"
                                  [] x = n -> "enabled"
                                  [] OTHER -> "disabled"]
    /\ sta' = IF sta.cur = n /\ ~added THEN sta
              ELSE [sta EXCEPT !.cur = None, !.complete = FALSE]

Put(n, state) ==
  /\ nets' = [nets EXCEPT ![n] = IF @ = "absent" THEN @ ELSE state]
  /\ sta' = IF state = "disabled" /\ sta.cur = n
            THEN [sta EXCEPT !.cur = None, !.complete = FALSE] ELSE sta

-----------------------------------------------------------------------------
(* switchWifi()                                                            *)

\* a command that fails, and nobody looks at it
Fails == failed < setup.failures /\ failed' = failed + 1

Begin(ssid, testOnly, listed, usable, current, out) ==
  [at |-> "status", ssid |-> ssid, testOnly |-> testOnly, late |-> FALSE, added |-> None,
   listed |-> listed, usable |-> usable, current |-> current, out |-> out]

\* The networks are listed with their flags: one that is disabled for a while
\* has the flag TEMP-DISABLED.  Those that are left out are not enabled again.
SwitchWifi(ssid, testOnly) ==
  /\ sw = Idle
  /\ sw' = Begin(ssid, testOnly, {n \in Ssids : nets[n] # "absent"},
                 {n \in Ssids : nets[n] = "enabled"}, sta.cur,
                 skipped \cup {n \in Ssids : nets[n] = "temp"})
  /\ UNCHANGED <<nets, sta, losses, box, plugins, hostapd, automata>>

\* list_networks fails, or its answer cannot be parsed: an empty list
SwitchUnlisted(ssid, testOnly) ==
  /\ sw = Idle /\ Fails
  /\ sw' = Begin(ssid, testOnly, {}, {}, None, Ssids)
  /\ UNCHANGED <<nets, sta, skipped, box, plugins, hostapd, automata>>

\* wpa_state, which fails like a state that is not complete, and
\* prepareSwitchWifi() unless it is the current network
SwitchStatus ==
  LET current == sta.complete /\ sw.current = sw.ssid IN
  /\ sw.at = "status"
  /\ \/ current /\ sw' = Idle /\ UNCHANGED <<auto, failed>>
     \/ /\ IF current THEN Fails ELSE UNCHANGED failed
        /\ sw' = [sw EXCEPT !.at = "add"]
        /\ auto' = [b \in Band |-> [auto[b] EXCEPT !.attempted = {}]]
  /\ UNCHANGED <<began, pid, queue, check, nets, sta, skipped, box, plugins, hostapd>>

\* add_network, if the network is not listed
SwitchAdd ==
  /\ sw.at = "add"
  /\ IF sw.ssid \in sw.listed THEN sw' = [sw EXCEPT !.at = "select"] /\ UNCHANGED nets
     ELSE /\ sw' = [sw EXCEPT !.at = "select", !.added = sta.pid]
          /\ nets' = [nets EXCEPT ![sw.ssid] = IF @ = "absent" THEN "disabled" ELSE @]
  /\ UNCHANGED <<sta, losses, box, plugins, hostapd, automata>>

\* add_network fails, or set_network rejects a parameter
SwitchRejects ==
  /\ sw.at \in {"add", "select"}
  /\ sw' = Idle
  /\ UNCHANGED <<nets, sta, losses, box, plugins, hostapd, automata>>

\* the network is still there; one that was added is not in the file
Present == IF sw.ssid \in sw.listed THEN nets[sw.ssid] # "absent" ELSE sw.added = sta.pid

SwitchSelect ==
  /\ sw.at = "select"
  /\ IF Present
     THEN /\ Select(sw.ssid, sw.ssid \notin sw.listed)
          /\ sw' = [sw EXCEPT !.at = "wait"]
          /\ skipped' = (skipped \cup sw.out) \ {sw.ssid}
     ELSE sw' = Idle /\ UNCHANGED <<nets, sta, skipped>>
  /\ UNCHANGED <<failed, box, plugins, hostapd, automata>>

\* thirty seconds are over
SwitchLate ==
  /\ sw.at = "wait" /\ ~sw.late
  /\ sw' = [sw EXCEPT !.late = TRUE]
  /\ UNCHANGED <<nets, sta, losses, box, plugins, hostapd, automata>>

\* Changed: the network that was tried is left out
OthersUntried(x) == [at |-> "enable", left |-> sw.usable \ {x, sw.ssid}]

Others(x) == [at |-> "enable", left |-> sw.usable \ {x}]

\* Changed: the time is only looked at when the station is connected
SwitchTickConnected ==
  /\ sw.at = "wait" /\ sta.complete
  /\ sw' = IF ~sw.testOnly THEN Others(sw.ssid) ELSE [sw EXCEPT !.at = "reconfigure"]
  /\ UNCHANGED <<nets, sta, losses, box, plugins, hostapd, automata>>

\* The interval; its callback is done before the next one.
SwitchTick ==
  /\ sw.at = "wait"
  /\ \/ sta.complete /\ ~sw.testOnly /\ sw' = Others(sw.ssid) /\ UNCHANGED failed
     \/ /\ \/ (IF sta.complete THEN sw.testOnly ELSE sw.late) /\ UNCHANGED failed
           \/ sta.complete /\ sw.late /\ Fails
        /\ sw' = [sw EXCEPT !.at = "reconfigure"]
  /\ UNCHANGED <<nets, sta, skipped, box, plugins, hostapd, automata>>

SwitchReconfigure ==
  /\ sw.at = "reconfigure"
  /\ \/ /\ nets' = FromFile /\ skipped' = {}
        /\ sta' = [sta EXCEPT !.cur = None, !.complete = FALSE]
        /\ sw' = [sw EXCEPT !.at = "back", !.added = None]
        /\ UNCHANGED failed
     \/ Fails /\ sw' = [sw EXCEPT !.at = "back"] /\ UNCHANGED <<nets, sta, skipped>>
  /\ UNCHANGED <<box, plugins, hostapd, automata>>

\* select_network or disable_network, or the command fails
SwitchBack ==
  /\ sw.at = "back"
  /\ sw' = Others(sw.current)
  /\ \/ /\ sw.current # None /\ Select(sw.current, FALSE)
        /\ skipped' = IF nets[sw.current] = "absent" THEN skipped
                      ELSE (skipped \cup sw.out) \ {sw.current}
        /\ UNCHANGED failed
     \/ /\ sw.current = None
        /\ IF Present THEN Put(sw.ssid, "disabled") ELSE UNCHANGED <<nets, sta>>
        /\ skipped' = skipped \cup (sw.out \cap {sw.ssid})
        /\ UNCHANGED failed
     \/ /\ Fails /\ UNCHANGED <<nets, sta>>
        /\ skipped' = skipped \cup {n \in {sw.current} \ {None} : nets[n] = "disabled"}
  /\ UNCHANGED <<box, plugins, hostapd, automata>>

SwitchEnable ==
  /\ sw.at = "enable"
  /\ \/ \E n \in sw.left :
          /\ sw' = [sw EXCEPT !.left = @ \ {n}]
          /\ \/ Put(n, "enabled") /\ UNCHANGED losses
             \/ /\ Fails /\ UNCHANGED <<nets, sta>>
                /\ skipped' = skipped \cup ({n} \cap {x \in Ssids : nets[x] = "disabled"})
     \/ sw.left = {} /\ sw' = Idle /\ UNCHANGED <<nets, sta, losses>>
  /\ UNCHANGED <<box, plugins, hostapd, automata>>

-----------------------------------------------------------------------------
Reapply == \E a \in Aps : Flush(a) \/ Apply(a) \/ Enable(a)
Check == CheckStarts \/ CheckBand \/ CheckStatus \/ CheckReapplied
Switch == \/ SwitchStatus \/ SwitchAdd \/ SwitchSelect \/ SwitchTick
          \/ SwitchReconfigure \/ SwitchBack \/ SwitchEnable

Next ==
  \/ \E b \in Band : RestartHostapd(b) \/ HostapdRestarted(b) \/ SilenceEnds(b)
  \/ Reapply \/ SetConfig \/ ConfigSet
  \/ OnEvent \/ CheckAPStateAutomata \/ Check \/ CheckReapply
  \/ \E n \in Ssids : Authenticate(n) \/ TempEnable(n)
  \/ Connect \/ Disconnect \/ TempDisable \/ RestartWpaSupplicant
  \/ \E x \in setup.switches : SwitchWifi(x[1], x[2]) \/ SwitchUnlisted(x[1], x[2])
  \/ SwitchRejects \/ SwitchLate \/ Switch

\* Timers and intervals fire, commands return, and async-lock serves a check
\* that waits for LOCK_CONFIG_RW in its turn.  Nothing is asked of clients and
\* of the station.
Fairness ==
  /\ \A b \in Band : /\ WF_vars(RestartHostapd(b)) /\ WF_vars(HostapdRestarted(b))
                     /\ WF_vars(SilenceEnds(b))
  /\ WF_vars(Reapply) /\ WF_vars(ConfigSet)
  /\ WF_vars(OnEvent) /\ WF_vars(CheckAPStateAutomata) /\ WF_vars(Check)
  /\ SF_vars(CheckReapply)
  /\ WF_vars(SwitchLate) /\ WF_vars(Switch)

Spec == Init /\ [][Next]_vars /\ Fairness

-----------------------------------------------------------------------------
(* Properties                                                              *)

\* The type of every variable.
TypeOK ==
  /\ setup \in Setups /\ want \in {setup.want} \cup setup.changes
  /\ \A a \in Aps : {conf[a], target[a]} \subseteq Config \cup {None}
  /\ todo \in [Aps -> {"none", "flush", "apply", "enable"}]
  /\ holder \in {"client", "check", None}
  /\ files \in [Aps -> Nat \cup {None}] /\ timer \subseteq Band
  /\ pause \in [Band -> BOOLEAN] /\ DOMAIN service = Band /\ DOMAIN merged = Band
  /\ auto \in [Band -> [state : {"normal", "silence"}, due : BOOLEAN, attempted : SUBSET Ssids]]
  /\ nets \in [Ssids -> {"absent", "disabled", "temp", "enabled"}]
  /\ sta.complete => sta.cur \in Ssids
  /\ skipped \subseteq Ssids /\ failed \in 0 .. setup.failures

Settled(b) ==
  /\ holder = None /\ b \notin timer /\ merged[b] = {}
  /\ check # Idle => Bands[check.band] # b

\* Whenever the timers of a band have fired and neither a client nor the
\* automata are at work on it, hostapd serves just the access points that are
\* configured, or is stopped if the band is silent: a change of the
\* configuration does not end a silence, and none outlives its end
\* (scheduleHostapdRestart(), pauseAP() and resumeAP() against the plugins).
ServesAsConfigured ==
  \A b \in Band : Settled(b) =>
    service[b] = IF auto[b].state = "silence" THEN {} ELSE OnBand(b, Files(conf))

\* After a switch that succeeds, fails or only tests, every network of the
\* configuration can be used again, wherever it gives up and whatever
\* wpa_supplicant does meanwhile (select_network disables the others).  The
\* exceptions, until the file is read again, are a network that the list showed
\* as TEMP-DISABLED or did not show, because it failed, and one that no command
\* has enabled because that command failed.
SwitchRestores ==
  sw = Idle => \A n \in setup.known \ skipped : nets[n] # "disabled"

\* Attempts alone do not keep the access points off: once the station gets and
\* loses no connection any more, and tries a network that silences a band again
\* before the silence ends, they are on the air again and again, however often
\* it tries (onEvent() extends a silence once per network and then skips what
\* was attempted, checkAPStateAutomata() ends it).
Attempts ==
  /\ sta'.complete = sta.complete /\ sw' = sw
  /\ \A b \in Band : auto'[b].due /\ ~auto[b].due => began[b] \in auto[b].attempted

AccessPointsReturn ==
  <>[][Attempts]_vars =>
    \A b \in Band : []<>(service[b] # {} \/ OnBand(b, files) = {})

\* Every switchWifi() answers, whatever wpa_supplicant does (the interval of
\* switchWifi() gives up after thirty seconds).
SwitchAnswers == sw # Idle ~> sw = Idle
=============================================================================
