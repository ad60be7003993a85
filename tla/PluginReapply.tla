---------------------------- MODULE PluginReapply ----------------------------
(***************************************************************************)
(* plugins/plugin_loader.js and plugins/plugin.js: how a network           *)
(* configuration becomes the state of the box.                             *)
(*                                                                         *)
(* Every part of a configuration (an interface, the routing of a LAN, a    *)
(* DNS server...) belongs to one plugin instance.  reapply() runs under    *)
(* the apply lock and visits all the instances three times, plugin class   *)
(* by plugin class: it marks what changed and removes what is gone,        *)
(* flushes what must be rebuilt, both from the highest init_seq down, and  *)
(* applies what must be rebuilt, from the lowest init_seq up.  What must   *)
(* be rebuilt is known by a flag per instance, and the flag travels from   *)
(* an instance to those that subscribed to it when they were applied.      *)
(*                                                                         *)
(* The awaits of the code are the ends of the actions: while a class is    *)
(* flushed or applied, kernel events, requests and timers get their turn.  *)
(* The running system is represented by "runtime" and "stale"; no code     *)
(* reads them, they are what the properties are about.                     *)
(***************************************************************************)
EXTENDS Integers, Sequences, FiniteSets

CONSTANTS
  Instance,     \* plugin instances, each a category and a name
  CfgVal,       \* the configurations an instance can have
  None,         \* not configured, not there
  NetConfigs,   \* network configurations: [Instance -> CfgVal or None]
  InitConfig,   \* the configuration stored when the service starts first
  Pos,          \* Pos[p]: place of p's class in config.json, by init_seq
  Uses,         \* Uses[p][v]: the instances that apply() of p looks up
  FastFlush,    \* FastFlush[p]: changes with isFullFlushNeeded() = false
  InPlace,      \* InPlace[p]: changes with isFlushNeeded() = false
  IpBlind,      \* instances that ignore CHANGE_IP_ONLY (hostapd)
  Concurrent,   \* classes with allow_concurrent
  Hotplug,      \* instances whose device may vanish (handler takes the lock)
  Unlocked,     \* instances with a handler that does not take the lock
  FlushFails,   \* instances whose flush() may reject
  ApplyFails,   \* instances whose apply() may reject
  CrashAnytime, \* may the service die while a configuration is applied?
  MaxQueue      \* bound on the jobs waiting for the apply lock

Change == CfgVal \X CfgVal

ASSUME ConfigAssumption ==
  /\ None \notin CfgVal /\ None \notin Instance
  /\ NetConfigs \subseteq [Instance -> CfgVal \cup {None}]
  /\ InitConfig \in NetConfigs

ASSUME ClassAssumption ==
  /\ Pos \in [Instance -> Nat]
  /\ Uses \in [Instance -> [CfgVal -> SUBSET Instance]]
  /\ \A p \in Instance, v \in CfgVal : \A d \in Uses[p][v] : Pos[d] < Pos[p]

ASSUME FlushAssumption ==
  /\ FastFlush \in [Instance -> SUBSET Change]
  /\ InPlace \in [Instance -> SUBSET Change]
  /\ IpBlind \subseteq Instance

ASSUME EnvironmentAssumption ==
  /\ Hotplug \subseteq Instance /\ Unlocked \subseteq Instance
  /\ FlushFails \subseteq Instance /\ ApplyFails \subseteq Instance
  /\ \A p \in FlushFails : Pos[p] \notin Concurrent
  /\ CrashAnytime \in BOOLEAN /\ MaxQueue \in Nat

VARIABLES
  \* plugin_loader.js, in memory
  present,      \* pluginCategoryMap
  cfg,          \* instance.networkConfig
  next,         \* instance._nextConfig
  need,         \* the instances with _reapplyNeeded
  subs,         \* <<publisher, subscriber>>: changeSubscribers
  ascending,    \* is the array pluginConfs in init_seq order?
  inProgress,   \* applyInProgress
  timer,        \* scheduledReapplyTask is due
  \* the holder of LOCK_REAPPLY and its progress
  phase,        \* what the holder does, "idle" if there is none
  job,          \* the job of the holder
  queue,        \* the jobs that wait for the lock
  left,         \* classes still to mark
  todo,         \* instances still to be removed, flushed or applied
  busy,         \* instances inside apply()
  errors,       \* did this reapply meet an error?
  \* tryApplyConfig() and the stored configuration
  client,       \* where the caller that holds LOCK_CONFIG_RW is
  active,       \* sysdb:networkConfig
  \* the box
  runtime,      \* the configuration p was built with, None if torn down
  stale,        \* instances whose ground changed since they were built
  absent,       \* hotplug devices that are not there
  \* if_presence_sensor.js
  unseen,       \* devices that are not as its last poll found them
  unsent,       \* devices that came or went, event not sent yet
  missed        \* devices that were away without an event (read by no code)

instVars == <<present, cfg, next, need, subs>>
lockVars == <<phase, job, queue, left, todo, busy, errors>>
boxVars  == <<runtime, stale, absent>>
sensorVars == <<unseen, unsent, missed>>
vars == <<present, cfg, next, need, subs, ascending, inProgress, timer,
          phase, job, queue, left, todo, busy, errors, client, active,
          runtime, stale, absent, unseen, unsent, missed>>

-----------------------------------------------------------------------------
(* Jobs under LOCK_REAPPLY.                                                *)

Effective == [kind |-> "effective", arg |-> None]   \* reapply(null)
SetJob(c) == [kind |-> "set", arg |-> c]
Rollback(c) == [kind |-> "rollback", arg |-> c]
DryJob(c) == [kind |-> "dry", arg |-> c]
EventJob(p) == [kind |-> "event", arg |-> p]

Job == {Effective}
       \cup [kind : {"set", "rollback", "dry"}, arg : NetConfigs]
       \cup [kind : {"event"}, arg : Instance \cup {None}]

Phases == {"idle", "event", "mark", "flush", "apply"}

IsReapply(j) == j.kind # "event"
HasConfig(j) == j.kind \in {"set", "rollback", "dry"}
Dry == job.kind = "dry"

-----------------------------------------------------------------------------
(* Propagation of changes and events along the subscriptions.              *)

Closed(S, edges) == \A e \in edges : e[1] \in S => e[2] \in S

\* p and every direct or indirect subscriber of p
Down(p, edges) ==
  {q \in Instance : \A S \in SUBSET Instance :
                      (p \in S /\ Closed(S, edges)) => q \in S}

\* a mistaken Reached: only the direct subscribers are told
ReachedOneLevel(p, full) == {p} \cup {q \in Instance : <<p, q>> \in subs}

\* propagateConfigChanged: who gets _reapplyNeeded from a change of p
Reached(p, full) == IF full THEN Down(p, subs) ELSE Down(p, subs) \ IpBlind

\* getConfigChangeType: full unless flushFast() is enough
IsFull(p, old, new) == <<old, new>> \notin FastFlush[p]

Unsubscribed(S) == {e \in subs : e[2] \notin S}

\* a mistaken Detached: the publishers of p keep it among their subscribers
DetachedFromSubscribers(p) == {e \in subs : e[1] # p}

\* p is removed: it unsubscribes, and nothing propagates through it any more
Detached(p) == {e \in subs : e[1] # p /\ e[2] # p}

-----------------------------------------------------------------------------
(* The box.                                                                *)

UsedBy(p) == IF runtime[p] = None THEN {} ELSE Uses[p][runtime[p]]
Users(p) == {q \in Instance : p \in UsedBy(q)}

\* p is torn down: whatever is built on it has lost its ground
TornDown(p) == /\ runtime' = [runtime EXCEPT ![p] = None]
               /\ stale' = (stale \cup Users(p)) \ {p}

\* flushIP: p stays, its addresses go
AddressesGone(p) == /\ UNCHANGED runtime
                    /\ stale' = stale \cup {p} \cup (Users(p) \ IpBlind)

Ready(p) == runtime[p] # None /\ runtime[p] = cfg[p] /\ p \notin stale

-----------------------------------------------------------------------------
(* The lock (async-lock).  A job that asks for a free lock starts at once, *)
(* otherwise it waits in a queue.                                          *)

Positions == {Pos[p] : p \in Instance}

Start(j) ==
  /\ job' = j
  /\ phase' = IF IsReapply(j) THEN "mark" ELSE "event"
  /\ left' = IF HasConfig(j) THEN Positions ELSE {}
  /\ todo' = {} /\ busy' = {} /\ errors' = FALSE
  \* pluginConfs.reverse() reverses the array in place
  /\ ascending' = IF IsReapply(j) THEN ~ascending ELSE ascending

Acquire(j) ==
  IF phase = "idle"
  THEN /\ Start(j)
       /\ inProgress' = (inProgress \/ IsReapply(j))
       /\ UNCHANGED queue
  ELSE /\ Len(queue) < MaxQueue
       /\ queue' = Append(queue, j)
       /\ UNCHANGED <<phase, job, left, todo, busy, errors, ascending,
                      inProgress>>

\* The lock passes to the next job synchronously; only then does the
\* continuation of a reapply that ended clear applyInProgress.
Release ==
  /\ IF queue = <<>>
     THEN /\ phase' = "idle"
          /\ left' = {} /\ todo' = {} /\ busy' = {}
          /\ UNCHANGED <<job, queue, errors, ascending>>
     ELSE /\ Start(Head(queue))
          /\ queue' = Tail(queue)
  /\ inProgress' = /\ ~IsReapply(job)
                   /\ inProgress \/ (queue # <<>> /\ IsReapply(Head(queue)))

\* a mistaken Answer: the rollback is tried again until it succeeds
AnswerRetrying(failed) ==
  IF job.kind = "effective" THEN client
  ELSE IF failed THEN "rollbackDue" ELSE "free"

\* where tryApplyConfig() goes on when its reapply() returns
Answer(failed) ==
  IF job.kind = "effective" THEN client
  ELSE IF failed /\ job.kind # "rollback" THEN "rollbackDue" ELSE "free"

\* a mistaken Saved: the answer of reapply() is not looked at
SavedAnyway(failed) == IF job.kind = "set" THEN job.arg ELSE active

Saved(failed) == IF job.kind = "set" /\ ~failed THEN job.arg ELSE active

\* reapply() returns to its caller
EndReapply(failed) ==
  /\ Release
  /\ client' = Answer(failed)
  /\ active' = Saved(failed)

-----------------------------------------------------------------------------
(* The callers.                                                            *)

\* POST /set and the like: tryApplyConfig() under LOCK_CONFIG_RW
TryApplyConfig(c) ==
  /\ client = "free"
  /\ client' = "applying"
  /\ Acquire(SetJob(c))
  /\ UNCHANGED <<instVars, boxVars, timer, active, sensorVars>>

\* "Failed to apply network config, rollback to previous setup"
RollbackConfig ==
  /\ client = "rollbackDue"
  /\ client' = "rollingBack"
  /\ Acquire(Rollback(active))
  /\ UNCHANGED <<instVars, boxVars, timer, active, sensorVars>>

\* the task of scheduleReapply()
ScheduledReapply ==
  /\ timer
  /\ timer' = FALSE
  /\ Acquire(Effective)
  /\ UNCHANGED <<instVars, boxVars, client, active, sensorVars>>

-----------------------------------------------------------------------------
(* reapply(): the mark phase.                                              *)

\* a mistaken Foremost: the array of classes is never reversed
ForemostUpwards(k, S) == \A j \in S : k <= j

\* k comes first in the current order of pluginConfs
Foremost(k, S) == \A j \in S : IF ascending THEN k <= j ELSE k >= j

\* the instances flagged when p, new or not, is to be configured as v
Told(p, v) ==
  IF cfg[p] = None THEN Reached(p, TRUE)
  ELSE IF cfg[p] = v THEN {}
  ELSE Reached(p, IsFull(p, cfg[p], v))

MarkClass(k) ==
  LET target == job.arg
      class == {p \in Instance : Pos[p] = k}
      wanted == {p \in class : target[p] # None}
      fresh == {p \in wanted : cfg[p] = None}
  IN
  /\ phase = "mark" /\ todo = {}
  /\ k \in left /\ Foremost(k, left)
  /\ present' = present \cup wanted
  /\ next' = [p \in Instance |-> IF p \in wanted THEN target[p] ELSE next[p]]
  /\ need' = need \cup UNION {Told(p, target[p]) : p \in wanted}
  /\ subs' = Unsubscribed(fresh)
  /\ left' = left \ {k}
  /\ todo' = (present \cap class) \ wanted
  /\ UNCHANGED <<boxVars, cfg, ascending, inProgress, timer, phase, job,
                 queue, busy, errors, client, active, sensorVars>>

\* an event job of a plugin object that is no longer in the map
Disowned(q, p) ==
  [i \in DOMAIN q |-> IF q[i] = EventJob(p) THEN EventJob(None) ELSE q[i]]

\* a mistaken RemoveBox: a removed instance is only flushed fast
RemoveBoxFast(p) ==
  IF Dry THEN UNCHANGED <<runtime, stale>> ELSE AddressesGone(p)

RemoveBox(p) == IF Dry THEN UNCHANGED <<runtime, stale>> ELSE TornDown(p)

Remove(p) ==
  /\ phase = "mark" /\ p \in todo
  /\ RemoveBox(p)
  /\ need' = (need \cup Reached(p, TRUE)) \ {p}
  /\ subs' = Detached(p)
  /\ present' = present \ {p}
  /\ cfg' = [cfg EXCEPT ![p] = None]
  /\ next' = [next EXCEPT ![p] = None]
  /\ queue' = Disowned(queue, p)
  /\ unseen' = unseen \ {p} /\ unsent' = unsent \ {p} /\ missed' = missed \ {p}
  /\ todo' = todo \ {p}
  /\ UNCHANGED <<absent, ascending, inProgress, timer, phase, job, left,
                 busy, errors, client, active>>

-----------------------------------------------------------------------------
(* reapply(): the flush phase.                                             *)

StartFlush ==
  /\ phase = "mark" /\ left = {} /\ todo = {}
  /\ phase' = "flush"
  /\ todo' = present
  /\ UNCHANGED <<instVars, boxVars, ascending, inProgress, timer, job, queue,
                 left, busy, errors, client, active, sensorVars>>

FlushTurn(p) ==
  /\ phase = "flush" /\ p \in todo
  /\ Foremost(Pos[p], {Pos[q] : q \in todo})

\* a new instance is configured before it is asked what it needs
FlushConfig(p) == IF cfg[p] = None THEN next[p] ELSE cfg[p]
FlushChange(p) == <<FlushConfig(p), next[p]>>

FlushBox(p) ==
  IF Dry \/ FlushChange(p) \in InPlace[p] THEN UNCHANGED <<runtime, stale>>
  ELSE IF FlushChange(p) \in FastFlush[p] THEN AddressesGone(p)
  ELSE TornDown(p)

Flush(p) ==
  /\ FlushTurn(p)
  /\ IF p \in need
     THEN FlushBox(p) /\ subs' = Unsubscribed({p})
     ELSE UNCHANGED <<runtime, stale, subs>>
  /\ cfg' = [cfg EXCEPT ![p] = IF HasConfig(job) THEN next[p] ELSE FlushConfig(p)]
  /\ todo' = todo \ {p}
  /\ UNCHANGED <<absent, present, next, need, ascending, inProgress, timer,
                 phase, job, queue, left, busy, errors, client, active, sensorVars>>

\* flush() rejects: nothing in reapply() catches it but the last .catch
FlushRejects(p) ==
  /\ p \in FlushFails /\ ~Dry
  /\ \/ FlushTurn(p) /\ p \in need /\ cfg' = [cfg EXCEPT ![p] = FlushConfig(p)]
     \/ phase = "mark" /\ p \in todo /\ UNCHANGED cfg
  /\ TornDown(p)
  /\ EndReapply(TRUE)
  /\ UNCHANGED <<absent, present, next, need, subs, timer, sensorVars>>

-----------------------------------------------------------------------------
(* reapply(): the apply phase.                                             *)

StartApply ==
  /\ phase = "flush" /\ todo = {}
  /\ ascending' = ~ascending
  /\ phase' = "apply"
  /\ todo' = IF Dry THEN {} ELSE present
  /\ UNCHANGED <<instVars, boxVars, inProgress, timer, job, queue, left, busy,
                 errors, client, active, sensorVars>>

\* a mistaken ApplyTurn: one Promise.all for the instances of all classes
ApplyTurnAll(S) == S = todo

\* the instances of a class are applied at once if the class allows it,
\* else the next one is applied when the previous one is done
ApplyTurn(S) ==
  /\ S \subseteq todo
  /\ \A p \in S : Foremost(Pos[p], {Pos[q] : q \in todo})
  /\ IF \E p \in S : Pos[p] \in Concurrent
     THEN \A q \in todo \ S : \A p \in S : Pos[q] # Pos[p]
     ELSE Cardinality(S) = 1

ApplyStart(S) ==
  /\ phase = "apply" /\ busy = {}
  /\ S # {} /\ ApplyTurn(S)
  /\ todo' = todo \ S
  /\ busy' = S \cap need
  /\ stale' = stale \ (S \cap need)
  /\ UNCHANGED <<instVars, runtime, absent, ascending, inProgress, timer,
                 phase, job, queue, left, errors, client, active, sensorVars>>

\* the trailing propagateConfigChanged(CHANGE_NONE)
Applied(p) ==
  /\ busy' = busy \ {p}
  /\ need' = need \ {p}
  /\ UNCHANGED <<present, cfg, next, absent, ascending, inProgress, timer,
                 phase, job, queue, left, todo, client, active, sensorVars>>

Lowers(p) == Uses[p][cfg[p]]

\* what is still there from before can be taken over by the new apply()
Fits(p) == \/ runtime[p] = None
           \/ <<runtime[p], cfg[p]>> \in FastFlush[p] \cup InPlace[p]

ApplyOk(p) ==
  /\ p \in busy \ absent
  /\ Lowers(p) \subseteq present
  /\ runtime' = IF Fits(p) THEN [runtime EXCEPT ![p] = cfg[p]] ELSE runtime
  /\ stale' = IF \A d \in Lowers(p) : Ready(d) THEN stale ELSE stale \cup {p}
  /\ subs' = subs \cup {<<d, p>> : d \in Lowers(p)}
  /\ Applied(p)
  /\ UNCHANGED errors

\* "Interface is not present yet, defer applying config until hotplugged"
ApplyDeferred(p) ==
  /\ p \in busy \cap absent
  /\ Applied(p)
  /\ UNCHANGED <<runtime, stale, subs, errors>>

\* a lower plugin is missing, or a command failed; a part of the
\* subscriptions may have been made before
ApplyRejects(p) ==
  /\ p \in busy \ absent
  /\ p \in ApplyFails \/ ~(Lowers(p) \subseteq present)
  /\ \E S \in SUBSET (Lowers(p) \cap present) :
        subs' = subs \cup {<<d, p>> : d \in S}
  /\ errors' = TRUE
  /\ stale' = stale \cup {p}
  /\ Applied(p)
  /\ UNCHANGED runtime

FinishReapply ==
  /\ phase = "apply" /\ todo = {} /\ busy = {}
  /\ EndReapply(errors)
  /\ UNCHANGED <<instVars, boxVars, timer, sensorVars>>

-----------------------------------------------------------------------------
(* Events.                                                                 *)

\* A hotplug device goes or comes.  The sensor looks every two seconds
\* (fs.watchFile): an absence between two polls is not seen.
Plug(p) ==
  /\ p \in Hotplug
  /\ IF p \in absent
     THEN /\ absent' = absent \ {p}
          /\ UNCHANGED <<runtime, stale>>
     ELSE /\ absent' = absent \cup {p}
          /\ TornDown(p)
  /\ IF p \in present
     THEN /\ unseen' = (unseen \cup {p}) \ (unseen \cap {p})
          /\ missed' = IF p \in absent \cap unseen /\ p \notin unsent
                       THEN missed \cup {p} ELSE missed
     ELSE UNCHANGED <<unseen, missed>>
  /\ UNCHANGED <<instVars, lockVars, ascending, inProgress, timer, client,
                 active, unsent>>

\* the listener of fs.watchFile() finds the device gone or back
Poll(p) ==
  /\ p \in unseen
  /\ unseen' = unseen \ {p} /\ unsent' = unsent \cup {p} /\ missed' = missed \ {p}
  /\ UNCHANGED <<instVars, lockVars, boxVars, ascending, inProgress, timer,
                 client, active>>

\* After a configuration was applied the watchers are replaced: the new ones
\* take what is there for what was there before.
Rewatch(p) ==
  /\ p \in unseen
  /\ unseen' = unseen \ {p}
  /\ missed' = IF p \in absent \cup unsent THEN missed ELSE missed \cup {p}
  /\ UNCHANGED <<instVars, lockVars, boxVars, ascending, inProgress, timer,
                 client, active, unsent>>

\* a mistaken SendEvent: an event during a reapply is dropped, not deferred
SendEventOrDrop(p) ==
  /\ p \in unsent
  /\ unsent' = unsent \ {p} /\ UNCHANGED <<unseen, missed>>
  /\ IF cfg[p] # None /\ ~inProgress
     THEN Acquire(EventJob(p))
     ELSE UNCHANGED <<lockVars, ascending, inProgress>>
  /\ UNCHANGED <<instVars, boxVars, timer, client, active>>

\* if_presence_sensor defers the event while a config is applied
SendEvent(p) ==
  /\ p \in unsent /\ ~inProgress
  /\ unsent' = unsent \ {p} /\ UNCHANGED <<unseen, missed>>
  /\ IF cfg[p] # None
     THEN Acquire(EventJob(p))
     ELSE UNCHANGED <<lockVars, ascending, inProgress>>
  /\ UNCHANGED <<instVars, boxVars, timer, client, active>>

\* the handler of IF_PRESENT and IF_DISAPPEAR, under the apply lock
RunEvent ==
  /\ phase = "event"
  /\ need' = IF job.arg = None THEN need ELSE need \cup Reached(job.arg, TRUE)
  /\ timer' = TRUE
  /\ missed' = missed \ {job.arg}
  /\ Release
  /\ UNCHANGED <<boxVars, present, cfg, next, subs, client, active, unseen,
                 unsent>>

\* a handler that flags the instance without the lock, like that of IF_UP
\* on an interface without a hardware address
UnlockedEvent(p) ==
  /\ p \in Unlocked \cap present
  /\ stale' = stale \cup {p}
  /\ need' = need \cup Reached(p, TRUE)
  /\ timer' = TRUE
  /\ UNCHANGED <<runtime, absent, present, cfg, next, subs, lockVars, ascending,
                 inProgress, client, active, sensorVars>>

\* the service is stopped or dies and is started again: the kernel keeps
\* what was built, the process starts with a dry run of the stored config
Restart ==
  /\ CrashAnytime \/ (phase = "idle" /\ client = "free")
  /\ present' = {} /\ need' = {} /\ subs' = {}
  /\ cfg' = [p \in Instance |-> None] /\ next' = [p \in Instance |-> None]
  /\ timer' = FALSE /\ queue' = <<>>
  /\ unseen' = {} /\ unsent' = {} /\ missed' = {}
  /\ job' = DryJob(active) /\ phase' = "mark" /\ left' = Positions
  /\ todo' = {} /\ busy' = {} /\ errors' = FALSE
  /\ ascending' = FALSE /\ inProgress' = TRUE /\ client' = "applying"
  /\ UNCHANGED <<boxVars, active>>

-----------------------------------------------------------------------------
Init ==
  /\ present = {} /\ need = {} /\ subs = {}
  /\ cfg = [p \in Instance |-> None] /\ next = [p \in Instance |-> None]
  /\ timer = FALSE /\ queue = <<>>
  /\ unseen = {} /\ unsent = {} /\ missed = {}
  /\ job = DryJob(InitConfig) /\ phase = "mark" /\ left = Positions
  /\ todo = {} /\ busy = {} /\ errors = FALSE
  /\ ascending = FALSE /\ inProgress = TRUE /\ client = "applying"
  /\ active = InitConfig
  /\ runtime = [p \in Instance |-> None] /\ stale = {} /\ absent = {}

Reapply ==
  \/ \E k \in left : MarkClass(k)
  \/ \E p \in todo : Remove(p) \/ Flush(p) \/ FlushRejects(p)
  \/ StartFlush
  \/ StartApply
  \/ \E S \in SUBSET todo : ApplyStart(S)
  \/ \E p \in busy : ApplyOk(p) \/ ApplyDeferred(p) \/ ApplyRejects(p)
  \/ FinishReapply

Events ==
  \/ RunEvent
  \/ \E p \in unsent : SendEvent(p)
  \/ \E p \in unseen : Poll(p) \/ Rewatch(p)

Environment ==
  \/ \E c \in NetConfigs : TryApplyConfig(c)
  \/ \E p \in Hotplug : Plug(p)
  \/ \E p \in Unlocked : UnlockedEvent(p)
  \/ Restart

Next == Reapply \/ Events \/ ScheduledReapply \/ RollbackConfig \/ Environment

Spec == Init /\ [][Next]_vars

\* The process runs what is due; SendEvent and the callers may meet a full
\* queue again and again, their turn comes nevertheless.
Fairness ==
  /\ WF_vars(Reapply) /\ WF_vars(RunEvent)
  /\ SF_vars(ScheduledReapply) /\ SF_vars(RollbackConfig)
  /\ \A p \in Hotplug : WF_vars(Poll(p) \/ Rewatch(p)) /\ SF_vars(SendEvent(p))

FairSpec == Spec /\ Fairness

-----------------------------------------------------------------------------
(* Properties.                                                             *)

\* Every variable has its type, and whatever refers to an instance refers
\* to one that is still in the plugin map.
TypeOK ==
  /\ present \subseteq Instance /\ need \subseteq present
  /\ cfg \in [Instance -> CfgVal \cup {None}]
  /\ next \in [Instance -> CfgVal \cup {None}]
  /\ subs \subseteq present \X present
  /\ ascending \in BOOLEAN /\ inProgress \in BOOLEAN /\ timer \in BOOLEAN
  /\ phase \in Phases /\ job \in Job /\ queue \in Seq(Job)
  /\ left \subseteq Positions /\ errors \in BOOLEAN
  /\ todo \subseteq present /\ busy \subseteq present
  /\ client \in {"free", "applying", "rollbackDue", "rollingBack"}
  /\ active \in NetConfigs
  /\ runtime \in [Instance -> CfgVal \cup {None}]
  /\ stale \subseteq Instance /\ absent \subseteq Hotplug
  /\ unseen \subseteq Hotplug /\ unsent \subseteq Hotplug /\ missed \subseteq Hotplug

\* instances that a device change will reach, or cannot do without, or would
\* have reached if the sensor had seen it
Awaited ==
  UNION {Down(d, subs) : d \in absent \cup unseen \cup unsent \cup missed
            \cup {d \in Instance : \E i \in DOMAIN queue : queue[i] = EventJob(d)}}

\* When nobody holds the apply lock, every configured instance is built as
\* configured on ground that has not changed since, or the loader knows that
\* it is to be rebuilt, or a device change that is on its way will tell it:
\* no change of a lower plugin is forgotten (plugin.js:124, plugin_loader.js:234)
\* but the absence of a device that falls between two polls of the sensor
\* (if_presence_sensor.js:57-79).
Converged ==
  phase = "idle" => \A p \in present : p \in need \cup Awaited \/ Ready(p)

\* When nobody holds the apply lock, nothing is left in the system of an
\* instance that was removed from the configuration (plugin_loader.js:187).
NoLeftover ==
  phase = "idle" => \A p \in Instance \ present : runtime[p] = None

\* The flush phase never tears an instance down while another one is still
\* built on it: those on top have been flushed before ("flush all changed
\* plugins in descending order by init sequence", plugin_loader.js:304).
TearDownFromTop ==
  [][\A p \in todo :
        (phase = "flush" /\ p \notin todo' /\ runtime[p] # None /\ runtime'[p] = None)
        => \A u \in Users(p) : u \notin present \/ (u \in need /\ u \notin todo)]_vars

\* An instance is applied only after all those it uses have had their turn
\* ("apply plugin configs in ascending order by init sequence",
\* plugin_loader.js:325).
BuildFromBottom ==
  [][\A p \in busy : p \notin busy' /\ phase = "apply" /\ phase' = "apply" =>
        Lowers(p) \cap (todo \cup (busy \ {p})) = {}]_vars

\* When a configuration is rejected the previous one is restored: a rollback
\* that met no error leaves every instance of it built ("Failed to apply
\* network config, rollback to previous setup", network_config_mgr.js:777).
RollbackRestores ==
  (phase = "idle" /\ job.kind = "rollback" /\ ~errors) =>
     \A p \in present : p \in need \cup Awaited \/ Ready(p)

AllBuilt == \A p \in present : Ready(p)

\* A device that came back is built again, with all that stands on it: the
\* poll, the deferred event, the flag and the timer lead to a reapply that
\* reaches it (if_presence_sensor.js:94, intf_base_plugin.js:2123,
\* plugin_loader.js:396), unless the device goes again, was not seen to be away,
\* or the service restarts in between.
Rebuilt == unseen \cup unsent # {} ~> (AllBuilt \/ absent \cup missed # {} \/ Dry)

\* Whatever was given up half way before, the configuration that is stored is
\* the one the loader holds when its reapply is over (routes/config.js:330-361).
SavedIsLoaded == [][active' # active => cfg = active']_vars

\* Whatever fails, a caller that holds the configuration lock gets its answer
\* (reapply() returns on every path, plugin_loader.js:389).
RequestAnswered == client # "free" ~> client = "free"
=============================================================================
