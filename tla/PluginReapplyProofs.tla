-------------------------- MODULE PluginReapplyProofs --------------------------
(***************************************************************************)
(* Theorems about PluginReapply, for any instances, configurations and     *)
(* plugin classes: types, saving, the order of building, nothing left      *)
(* over; and, as long as no flush() and no apply() fails, that it ends as  *)
(* configured and tears down from the top.                                 *)
(***************************************************************************)
EXTENDS PluginReapply, TLAPS

-----------------------------------------------------------------------------
(* Propagation along the subscriptions.                                    *)

\* p is told of its own change.
LEMMA DownSelf ==
  ASSUME NEW p \in Instance, NEW edges
  PROVE  p \in Down(p, edges)
  BY DEF Down

\* Nobody is told but what some closed set around p holds.
LEMMA DownWithin ==
  ASSUME NEW p \in Instance, NEW edges, NEW S \in SUBSET Instance,
         p \in S, Closed(S, edges)
  PROVE  Down(p, edges) \subseteq S
  BY DEF Down

\* Whoever is subscribed to somebody who is told is told, too.
LEMMA DownClosed ==
  ASSUME NEW p \in Instance, NEW edges, edges \subseteq Instance \X Instance
  PROVE  Closed(Down(p, edges), edges)
<1> SUFFICES ASSUME NEW d \in edges, d[1] \in Down(p, edges)
             PROVE  d[2] \in Down(p, edges)
  BY DEF Closed
<1>1. d[2] \in Instance
  OBVIOUS
<1>2. ASSUME NEW S \in SUBSET Instance, p \in S, Closed(S, edges)
      PROVE  d[2] \in S
  <2>1. d[1] \in S
    BY <1>2 DEF Down
  <2>2. QED
    BY <1>2, <2>1 DEF Closed
<1>3. QED
  BY <1>1, <1>2 DEF Down

\* Only instances of the plugin map are told, as only they subscribe.
LEMMA ReachedWithin ==
  ASSUME NEW S \in SUBSET Instance, subs \subseteq S \X S,
         NEW p \in S, NEW full
  PROVE  Reached(p, full) \subseteq S
<1>1. Closed(S, subs)
  BY DEF Closed
<1>2. Down(p, subs) \subseteq S
  BY <1>1, DownWithin
<1>3. QED
  BY <1>2 DEF Reached

-----------------------------------------------------------------------------
(* Types.                                                                  *)

\* What TypeOK rests on: the jobs that wait or run refer to instances that
\* are in the plugin map, and each phase has only the work of its own.
JobsOwned ==
  /\ \A i \in DOMAIN queue :
        queue[i].kind = "event" => queue[i].arg \in present \cup {None}
  /\ phase = "event" => job.arg \in present \cup {None}

PhaseWork ==
  /\ left # {} => HasConfig(job)
  /\ phase # "apply" => busy = {}
  /\ phase = "event" <=> (phase # "idle" /\ ~IsReapply(job))

Configured == \A p \in Instance : cfg[p] # None => p \in present

TypeInv == TypeOK /\ JobsOwned /\ PhaseWork /\ Configured

\* The three parts of TypeInv, for the proof: the lock and its holder,
LockInv ==
  /\ ascending \in BOOLEAN /\ inProgress \in BOOLEAN /\ errors \in BOOLEAN
  /\ phase \in Phases /\ job \in Job /\ queue \in Seq(Job)
  /\ left \subseteq Positions
  /\ todo \subseteq present /\ busy \subseteq present
  /\ JobsOwned /\ PhaseWork

\* the instances,
InstInv ==
  /\ present \subseteq Instance /\ need \subseteq present
  /\ cfg \in [Instance -> CfgVal \cup {None}]
  /\ next \in [Instance -> CfgVal \cup {None}]
  /\ subs \subseteq present \X present
  /\ Configured

\* and the rest.
BoxInv ==
  /\ timer \in BOOLEAN
  /\ client \in {"free", "applying", "rollbackDue", "rollingBack"}
  /\ active \in NetConfigs
  /\ runtime \in [Instance -> CfgVal \cup {None}]
  /\ stale \subseteq Instance /\ absent \subseteq Hotplug
  /\ unseen \subseteq Hotplug /\ unsent \subseteq Hotplug /\ missed \subseteq Hotplug

\* The invariant is its three parts.
LEMMA TypeParts == TypeInv <=> LockInv /\ InstInv /\ BoxInv
  BY DEF TypeInv, TypeOK, LockInv, InstInv, BoxInv

\* The same of the next state.
LEMMA TypePartsPrime == TypeInv' <=> LockInv' /\ InstInv' /\ BoxInv'
  BY DEF TypeInv, TypeOK, LockInv, InstInv, BoxInv

\* A job to apply a configuration comes with one.
LEMMA JobArg ==
  ASSUME NEW j \in Job
  PROVE  /\ HasConfig(j) => j.arg \in NetConfigs
         /\ j.kind = "event" => j.arg \in Instance \cup {None}
         /\ HasConfig(j) => IsReapply(j)
  BY DEF Job, Effective, HasConfig, IsReapply

\* A job that starts has no work but its own.
LEMMA StartLock ==
  ASSUME TypeInv, NEW j \in Job, Start(j),
         j.kind = "event" => j.arg \in present' \cup {None}
  PROVE  /\ ascending' \in BOOLEAN /\ errors' \in BOOLEAN
         /\ phase' \in Phases /\ job' \in Job
         /\ left' \subseteq Positions
         /\ todo' = {} /\ busy' = {}
         /\ phase' = "event" => job'.arg \in present' \cup {None}
         /\ PhaseWork'
<1>1. ascending' \in BOOLEAN
  BY DEF Start, TypeInv, TypeOK
<1>2. phase' \in Phases /\ (phase' = "event" => j.kind = "event")
  BY DEF Start, Phases, IsReapply
<1>3. PhaseWork'
  BY DEF Start, PhaseWork, HasConfig, IsReapply
<1>4. QED
  BY <1>1, <1>2, <1>3 DEF Start

\* To ask for the lock keeps the lock and its queue in order.
LEMMA AcquireLock ==
  ASSUME TypeInv, NEW j \in Job, Acquire(j), UNCHANGED present,
         j.kind = "event" => j.arg \in present \cup {None}
  PROVE  LockInv'
<1>1. CASE phase = "idle"
  <2>1. Start(j) /\ UNCHANGED queue /\ inProgress' \in BOOLEAN
    BY <1>1 DEF Acquire
  <2>2. QED
    BY <2>1, StartLock DEF LockInv, TypeInv, TypeOK, JobsOwned
<1>2. CASE phase # "idle"
  <2>1. /\ queue' = Append(queue, j)
        /\ UNCHANGED <<phase, job, left, todo, busy, errors, ascending, inProgress>>
    BY <1>2 DEF Acquire
  <2>2. queue' \in Seq(Job)
    BY <2>1 DEF TypeInv, TypeOK
  <2>3. JobsOwned'
    BY <2>1 DEF TypeInv, TypeOK, JobsOwned
  <2>4. PhaseWork'
    BY <2>1 DEF TypeInv, PhaseWork
  <2>5. QED
    BY <2>1, <2>2, <2>3, <2>4 DEF LockInv, TypeInv, TypeOK
<1>3. QED
  BY <1>1, <1>2

\* To release the lock does, whoever is next.
LEMMA ReleaseLock ==
  ASSUME TypeInv, Release, UNCHANGED present
  PROVE  LockInv'
<1>1. CASE queue = <<>>
  BY <1>1 DEF Release, LockInv, TypeInv, TypeOK, JobsOwned, PhaseWork, Phases
<1>2. CASE queue # <<>>
  <2>1. Start(Head(queue)) /\ queue' = Tail(queue)
    BY <1>2 DEF Release
  <2>2. /\ Head(queue) \in Job /\ Tail(queue) \in Seq(Job)
        /\ 1 \in DOMAIN queue /\ Head(queue) = queue[1]
    BY <1>2 DEF TypeInv, TypeOK
  <2>3. Head(queue).kind = "event" => Head(queue).arg \in present' \cup {None}
    BY <2>2 DEF TypeInv, JobsOwned
  <2>4. \A i \in DOMAIN Tail(queue) : i + 1 \in DOMAIN queue /\ Tail(queue)[i] = queue[i + 1]
    BY <1>2 DEF TypeInv, TypeOK
  <2>5. JobsOwned'
    BY <2>1, <2>2, <2>3, <2>4, StartLock DEF TypeInv, JobsOwned
  <2>6. inProgress' \in BOOLEAN
    BY DEF Release
  <2>7. QED
    BY <2>1, <2>2, <2>3, <2>5, <2>6, StartLock DEF LockInv
<1>3. QED
  BY <1>1, <1>2

\* The service starts with a dry run of the stored configuration.
LEMMA InitType == Init => TypeInv
<1> USE ConfigAssumption, ClassAssumption
<1> SUFFICES ASSUME Init PROVE TypeInv
  OBVIOUS
<1>1. InitConfig \in [Instance -> CfgVal \cup {None}]
  OBVIOUS
<1>2. job \in Job
  BY DEF Init, Job, DryJob
<1>3. TypeOK
  <2>1. ascending \in BOOLEAN /\ inProgress \in BOOLEAN /\ timer \in BOOLEAN /\ errors \in BOOLEAN
    BY DEF Init
  <2>2. queue \in Seq(Job)
    BY DEF Init
  <2>3. /\ present \subseteq Instance /\ need \subseteq present
        /\ subs \subseteq present \X present
        /\ todo \subseteq present /\ busy \subseteq present
        /\ stale \subseteq Instance /\ absent \subseteq Hotplug
        /\ unseen \subseteq Hotplug /\ unsent \subseteq Hotplug /\ missed \subseteq Hotplug
        /\ left \subseteq Positions
    BY DEF Init
  <2>4. /\ cfg \in [Instance -> CfgVal \cup {None}]
        /\ next \in [Instance -> CfgVal \cup {None}]
        /\ runtime \in [Instance -> CfgVal \cup {None}]
    BY DEF Init
  <2>5. phase \in Phases /\ active \in NetConfigs
        /\ client \in {"free", "applying", "rollbackDue", "rollingBack"}
    BY DEF Init, Phases
  <2>6. QED
    BY <1>2, <2>1, <2>2, <2>3, <2>4, <2>5 DEF TypeOK
<1>4. JobsOwned /\ Configured
  BY DEF Init, JobsOwned, Configured
<1>5. PhaseWork
  BY DEF Init, PhaseWork, DryJob, HasConfig, IsReapply
<1>6. QED
  BY <1>3, <1>4, <1>5 DEF TypeInv

\* Every step keeps the invariant: one step below per action.
LEMMA NextType == TypeInv /\ [Next]_vars => TypeInv'
<1> USE ConfigAssumption, ClassAssumption, EnvironmentAssumption
<1> SUFFICES ASSUME TypeInv, [Next]_vars PROVE TypeInv'
  OBVIOUS
<1> USE TypeParts, TypePartsPrime DEF sensorVars
<1>1. ASSUME NEW c \in NetConfigs, TryApplyConfig(c) PROVE TypeInv'
  <2>1. SetJob(c) \in Job /\ SetJob(c).kind # "event"
    BY DEF SetJob, Job
  <2>2. LockInv'
    BY <1>1, <2>1, AcquireLock DEF TryApplyConfig, instVars
  <2>3. InstInv' /\ BoxInv'
    BY <1>1 DEF TryApplyConfig, InstInv, BoxInv, instVars, boxVars, Configured
  <2>4. QED
    BY <2>2, <2>3
<1>2. ASSUME RollbackConfig PROVE TypeInv'
  <2>1. Rollback(active) \in Job /\ Rollback(active).kind # "event"
    BY DEF Rollback, Job, BoxInv
  <2>2. LockInv'
    BY <1>2, <2>1, AcquireLock DEF RollbackConfig, instVars
  <2>3. InstInv' /\ BoxInv'
    BY <1>2 DEF RollbackConfig, InstInv, BoxInv, instVars, boxVars, Configured
  <2>4. QED
    BY <2>2, <2>3
<1>3. ASSUME ScheduledReapply PROVE TypeInv'
  <2>1. Effective \in Job /\ Effective.kind # "event"
    BY DEF Effective, Job
  <2>2. LockInv'
    BY <1>3, <2>1, AcquireLock DEF ScheduledReapply, instVars
  <2>3. InstInv' /\ BoxInv'
    BY <1>3 DEF ScheduledReapply, InstInv, BoxInv, instVars, boxVars, Configured
  <2>4. QED
    BY <2>2, <2>3
<1>4. ASSUME NEW k \in left, MarkClass(k) PROVE TypeInv'
  <2> DEFINE target == job.arg
             class == {p \in Instance : Pos[p] = k}
             wanted == {p \in class : target[p] # None}
  <2>1. target \in [Instance -> CfgVal \cup {None}]
    BY JobArg DEF LockInv, PhaseWork
  <2>2. present' = present \cup wanted
    BY <1>4 DEF MarkClass
  <2>3. present' \subseteq Instance /\ present \subseteq present' /\ wanted \subseteq present'
    BY <2>2 DEF InstInv
  <2>4. ASSUME NEW p \in wanted, NEW full
        PROVE  Reached(p, full) \subseteq present'
    <3>1. subs \subseteq (present \cup wanted) \X (present \cup wanted)
      BY DEF InstInv
    <3>2. p \in present \cup wanted /\ present \cup wanted \in SUBSET Instance
      BY <2>2, <2>3
    <3>3. Reached(p, full) \subseteq present \cup wanted
      BY <3>1, <3>2, ReachedWithin
    <3>4. QED
      BY <2>2, <3>3
  <2>5. need' \subseteq present'
    <3>1. need' = need \cup UNION {Told(p, target[p]) : p \in wanted}
      BY <1>4 DEF MarkClass
    <3>2. \A p \in wanted : Told(p, target[p]) \subseteq present'
      BY <2>4 DEF Told
    <3>3. need \subseteq present'
      BY <2>3 DEF InstInv
    <3> HIDE DEF target, wanted
    <3>4. QED
      BY <3>1, <3>2, <3>3
  <2>6. next' \in [Instance -> CfgVal \cup {None}]
    BY <1>4, <2>1 DEF MarkClass, InstInv
  <2>7. subs' \subseteq present' \X present'
    BY <1>4, <2>3 DEF MarkClass, InstInv, Unsubscribed
  <2>8. InstInv'
    BY <1>4, <2>3, <2>5, <2>6, <2>7 DEF MarkClass, InstInv, Configured
  <2>9. JobsOwned'
    BY <1>4, <2>3 DEF MarkClass, LockInv, JobsOwned
  <2>10. LockInv'
    BY <1>4, <2>3, <2>9 DEF MarkClass, LockInv, PhaseWork
  <2>11. BoxInv'
    BY <1>4 DEF MarkClass, BoxInv, boxVars
  <2>12. QED
    BY <2>8, <2>10, <2>11
<1>5. ASSUME NEW p \in todo, Remove(p) PROVE TypeInv'
  <2>1. p \in present /\ p \in Instance
    BY DEF LockInv, InstInv
  <2>2. present' = present \ {p} /\ subs' = Detached(p) /\ cfg' = [cfg EXCEPT ![p] = None]
    BY <1>5 DEF Remove
  <2>3. need' \subseteq present'
    BY <1>5, <2>1, ReachedWithin DEF Remove, InstInv
  <2>4. subs' \subseteq present' \X present'
    BY <2>2 DEF Detached, InstInv
  <2>5. InstInv'
    <3>1. /\ cfg' \in [Instance -> CfgVal \cup {None}]
          /\ next' \in [Instance -> CfgVal \cup {None}]
      BY <1>5, <2>1, <2>2 DEF Remove, InstInv
    <3>2. Configured'
      BY <2>1, <2>2 DEF InstInv, Configured
    <3>3. QED
      BY <2>2, <2>3, <2>4, <3>1, <3>2 DEF InstInv
  <2>6. BoxInv'
    <3>1. /\ runtime' \in [Instance -> CfgVal \cup {None}]
          /\ stale' \subseteq Instance
      BY <1>5, <2>1 DEF Remove, RemoveBox, TornDown, Users, BoxInv
    <3>2. QED
      BY <1>5, <3>1 DEF Remove, BoxInv
  <2>7. queue' \in Seq(Job) /\ DOMAIN queue' = DOMAIN queue
    <3>1. EventJob(None) \in Job
      BY DEF EventJob, Job
    <3>2. QED
      BY <1>5, <3>1 DEF Remove, Disowned, LockInv
  <2>8. JobsOwned'
    <3>1. phase = "mark" /\ phase' = "mark"
      BY <1>5 DEF Remove
    <3>2. ASSUME NEW i \in DOMAIN queue', queue'[i].kind = "event"
          PROVE  queue'[i].arg \in present' \cup {None}
      <4>1. CASE queue[i] = EventJob(p)
        BY <1>5, <2>7, <4>1 DEF Remove, Disowned, EventJob
      <4>2. CASE queue[i] # EventJob(p)
        <5>1. queue'[i] = queue[i] /\ queue[i] \in Job /\ i \in DOMAIN queue
          BY <1>5, <2>7, <4>2 DEF Remove, Disowned, LockInv
        <5>2. queue[i].arg \in present \cup {None}
          BY <3>2, <5>1 DEF LockInv, JobsOwned
        <5>3. queue[i].arg # p
          BY <3>2, <4>2, <5>1 DEF Job, EventJob, Effective
        <5>4. QED
          BY <2>2, <5>1, <5>2, <5>3
      <4>3. QED
        BY <4>1, <4>2
    <3>3. QED
      BY <3>1, <3>2 DEF JobsOwned
  <2>9. LockInv'
    BY <1>5, <2>2, <2>7, <2>8 DEF Remove, LockInv, PhaseWork
  <2>10. QED
    BY <2>5, <2>6, <2>9
<1>6. ASSUME NEW p \in todo, Flush(p) PROVE TypeInv'
  <2>1. p \in present /\ p \in Instance
    BY DEF LockInv, InstInv
  <2>2. FlushConfig(p) \in CfgVal \cup {None} /\ next[p] \in CfgVal \cup {None}
    BY <2>1 DEF FlushConfig, InstInv
  <2>3. /\ runtime' \in [Instance -> CfgVal \cup {None}]
        /\ stale' \subseteq Instance
    <3>1. CASE p \in need
      BY <1>6, <2>1, <3>1 DEF Flush, FlushBox, TornDown, AddressesGone, Users, BoxInv
    <3>2. CASE p \notin need
      BY <1>6, <3>2 DEF Flush, BoxInv
    <3>3. QED
      BY <3>1, <3>2
  <2>4. subs' \subseteq subs
    BY <1>6 DEF Flush, Unsubscribed
  <2>5. cfg' \in [Instance -> CfgVal \cup {None}] /\ Configured'
    BY <1>6, <2>1, <2>2 DEF Flush, InstInv, Configured
  <2>6. InstInv' /\ BoxInv'
    BY <1>6, <2>3, <2>4, <2>5 DEF Flush, InstInv, BoxInv
  <2>7. LockInv'
    BY <1>6 DEF Flush, LockInv, JobsOwned, PhaseWork
  <2>8. QED
    BY <2>6, <2>7
<1>7. ASSUME NEW p \in todo, FlushRejects(p) PROVE TypeInv'
  <2>1. p \in present /\ p \in Instance
    BY DEF LockInv, InstInv
  <2>2. FlushConfig(p) \in CfgVal \cup {None}
    BY <2>1 DEF FlushConfig, InstInv
  <2>3. cfg' \in [Instance -> CfgVal \cup {None}] /\ Configured'
    <3>1. cfg' = [cfg EXCEPT ![p] = FlushConfig(p)] \/ cfg' = cfg
      BY <1>7 DEF FlushRejects
    <3>2. UNCHANGED present
      BY <1>7 DEF FlushRejects
    <3>3. QED
      BY <2>1, <2>2, <3>1, <3>2 DEF InstInv, Configured
  <2>4. /\ runtime' \in [Instance -> CfgVal \cup {None}]
        /\ stale' \subseteq Instance
    BY <1>7, <2>1 DEF FlushRejects, TornDown, Users, BoxInv
  <2>5. EndReapply(TRUE) /\ UNCHANGED present
    BY <1>7 DEF FlushRejects
  <2>6. LockInv'
    BY <2>5, ReleaseLock DEF EndReapply
  <2>7. /\ client' \in {"free", "applying", "rollbackDue", "rollingBack"}
        /\ active' \in NetConfigs
    BY <2>5 DEF EndReapply, Answer, Saved, BoxInv
  <2>8. QED
    BY <1>7, <2>3, <2>4, <2>6, <2>7 DEF FlushRejects, InstInv, BoxInv
<1>8. ASSUME StartFlush PROVE TypeInv'
  BY <1>8 DEF StartFlush, LockInv, InstInv, BoxInv, JobsOwned, PhaseWork, Phases,
              Configured, instVars, boxVars, IsReapply
<1>9. ASSUME StartApply PROVE TypeInv'
  <2>1. todo' \subseteq present
    BY <1>9 DEF StartApply
  <2>2. QED
    BY <1>9, <2>1 DEF StartApply, LockInv, InstInv, BoxInv, JobsOwned, PhaseWork,
              Phases, Configured, instVars, boxVars, IsReapply
<1>10. ASSUME NEW S \in SUBSET todo, ApplyStart(S) PROVE TypeInv'
  BY <1>10 DEF ApplyStart, LockInv, InstInv, BoxInv, JobsOwned, PhaseWork,
               Configured, instVars
<1>11. ASSUME NEW p \in busy, ApplyOk(p) \/ ApplyDeferred(p) \/ ApplyRejects(p)
       PROVE  TypeInv'
  <2>1. p \in present /\ p \in Instance
    BY DEF LockInv, InstInv
  <2>2. Applied(p)
    BY <1>11 DEF ApplyOk, ApplyDeferred, ApplyRejects
  <2>3. subs' \subseteq present \X present
    BY <1>11, <2>1 DEF ApplyOk, ApplyDeferred, ApplyRejects, InstInv
  <2>4. /\ runtime' \in [Instance -> CfgVal \cup {None}]
        /\ stale' \subseteq Instance
    <3>1. CASE ApplyOk(p)
      <4>1. cfg[p] \in CfgVal \cup {None}
        BY <2>1 DEF InstInv
      <4>2. runtime' = runtime \/ runtime' = [runtime EXCEPT ![p] = cfg[p]]
        BY <3>1 DEF ApplyOk
      <4>3. stale' = stale \/ stale' = stale \cup {p}
        BY <3>1 DEF ApplyOk
      <4>4. QED
        BY <2>1, <4>1, <4>2, <4>3 DEF BoxInv
    <3>2. CASE ApplyDeferred(p)
      BY <3>2 DEF ApplyDeferred, BoxInv
    <3>3. CASE ApplyRejects(p)
      BY <2>1, <3>3 DEF ApplyRejects, BoxInv
    <3>4. QED
      BY <1>11, <3>1, <3>2, <3>3
  <2>5. errors' \in BOOLEAN
    BY <1>11 DEF ApplyOk, ApplyDeferred, ApplyRejects, LockInv
  <2>6. InstInv' /\ BoxInv'
    BY <2>2, <2>3, <2>4 DEF Applied, InstInv, BoxInv, Configured
  <2>7. phase = "apply"
    BY DEF LockInv, PhaseWork
  <2>8. LockInv'
    BY <2>2, <2>5, <2>7 DEF Applied, LockInv, JobsOwned, PhaseWork
  <2>9. QED
    BY <2>6, <2>8
<1>12. ASSUME FinishReapply PROVE TypeInv'
  <2>1. EndReapply(errors) /\ UNCHANGED <<instVars, boxVars, timer, sensorVars>>
    BY <1>12 DEF FinishReapply
  <2>2. LockInv'
    BY <2>1, ReleaseLock DEF EndReapply, instVars
  <2>3. /\ client' \in {"free", "applying", "rollbackDue", "rollingBack"}
        /\ active' \in NetConfigs
    <3>1. job.kind = "set" => job.arg \in NetConfigs
      BY JobArg DEF LockInv, HasConfig
    <3>2. QED
      BY <2>1, <3>1 DEF EndReapply, Answer, Saved, BoxInv
  <2>4. QED
    BY <2>1, <2>2, <2>3 DEF InstInv, BoxInv, instVars, boxVars, Configured
<1>13. ASSUME NEW p \in Hotplug, Plug(p) PROVE TypeInv'
  <2>1. p \in Instance
    OBVIOUS
  <2>2. /\ runtime' \in [Instance -> CfgVal \cup {None}]
        /\ stale' \subseteq Instance /\ absent' \subseteq Hotplug
        /\ unseen' \subseteq Hotplug /\ unsent' \subseteq Hotplug /\ missed' \subseteq Hotplug
    BY <1>13, <2>1 DEF Plug, TornDown, Users, BoxInv
  <2>3. LockInv' /\ InstInv'
    BY <1>13 DEF Plug, LockInv, InstInv, JobsOwned, PhaseWork, Configured,
                 instVars, lockVars, IsReapply, HasConfig
  <2>4. QED
    BY <1>13, <2>2, <2>3 DEF Plug, BoxInv
<1>14. ASSUME NEW p \in unsent, SendEvent(p) PROVE TypeInv'
  <2>1. p \in Instance /\ UNCHANGED <<instVars, boxVars, timer, client, active>>
    BY <1>14 DEF SendEvent, BoxInv
  <2>2. LockInv'
    <3>1. CASE cfg[p] # None
      <4>1. EventJob(p) \in Job /\ EventJob(p).arg \in present
        BY <2>1, <3>1 DEF EventJob, Job, InstInv, Configured
      <4>2. QED
        BY <1>14, <2>1, <3>1, <4>1, AcquireLock DEF SendEvent, instVars
    <3>2. CASE cfg[p] = None
      BY <1>14, <2>1, <3>2 DEF SendEvent, LockInv, JobsOwned, PhaseWork,
                               lockVars, instVars, IsReapply, HasConfig
    <3>3. QED
      BY <3>1, <3>2
  <2>3. QED
    BY <1>14, <2>1, <2>2 DEF SendEvent, InstInv, BoxInv, Configured, instVars, boxVars
<1>20. ASSUME NEW p \in unseen, Poll(p) \/ Rewatch(p) PROVE TypeInv'
  <2>1. UNCHANGED <<instVars, lockVars, boxVars, ascending, inProgress, timer, client, active>>
    BY <1>20 DEF Poll, Rewatch
  <2>2. unseen' \subseteq Hotplug /\ unsent' \subseteq Hotplug /\ missed' \subseteq Hotplug
    BY <1>20 DEF Poll, Rewatch, BoxInv
  <2> QED
    BY <2>1, <2>2 DEF LockInv, InstInv, BoxInv, JobsOwned, PhaseWork, Configured,
                      instVars, lockVars, boxVars, IsReapply, HasConfig
<1>15. ASSUME RunEvent PROVE TypeInv'
  <2>1. need' \subseteq present
    <3>1. job.arg # None => Reached(job.arg, TRUE) \subseteq present
      <4>1. job.arg # None => job.arg \in present
        BY <1>15 DEF RunEvent, LockInv, JobsOwned
      <4>2. QED
        BY <4>1, ReachedWithin DEF InstInv
    <3>2. QED
      BY <1>15, <3>1 DEF RunEvent, InstInv
  <2>2. LockInv'
    BY <1>15, ReleaseLock DEF RunEvent
  <2>3. QED
    BY <1>15, <2>1, <2>2 DEF RunEvent, InstInv, BoxInv, Configured, boxVars
<1>16. ASSUME NEW p \in Unlocked, UnlockedEvent(p) PROVE TypeInv'
  <2>1. p \in present
    BY <1>16 DEF UnlockedEvent
  <2>2. need' \subseteq present /\ stale' \subseteq Instance
    <3>1. present \in SUBSET Instance /\ subs \subseteq present \X present
      BY DEF InstInv
    <3>2. Reached(p, TRUE) \subseteq present
      BY <2>1, <3>1, ReachedWithin
    <3>3. QED
      BY <1>16, <2>1, <3>1, <3>2 DEF UnlockedEvent, InstInv, BoxInv
  <2>3. LockInv'
    BY <1>16 DEF UnlockedEvent, LockInv, JobsOwned, PhaseWork, lockVars,
                 IsReapply, HasConfig
  <2>4. QED
    BY <1>16, <2>2, <2>3 DEF UnlockedEvent, InstInv, BoxInv, Configured
<1>17. ASSUME Restart PROVE TypeInv'
  <2>1. job' \in Job
    BY <1>17 DEF Restart, DryJob, Job, BoxInv
  <2>2. LockInv'
    <3>1. queue' \in Seq(Job)
      BY <1>17 DEF Restart
    <3>2. JobsOwned'
      BY <1>17 DEF Restart, JobsOwned
    <3>3. PhaseWork'
      BY <1>17 DEF Restart, PhaseWork, DryJob, IsReapply, HasConfig
    <3>4. phase' \in Phases /\ todo' \subseteq present' /\ busy' \subseteq present'
      BY <1>17 DEF Restart, Phases
    <3>5. ascending' \in BOOLEAN /\ inProgress' \in BOOLEAN /\ errors' \in BOOLEAN
      BY <1>17 DEF Restart
    <3>6. left' \subseteq Positions
      BY <1>17 DEF Restart
    <3>7. QED
      BY <2>1, <3>1, <3>2, <3>3, <3>4, <3>5, <3>6 DEF LockInv
  <2>3. InstInv'
    BY <1>17 DEF Restart, InstInv, Configured
  <2>4. BoxInv'
    BY <1>17 DEF Restart, BoxInv, boxVars
  <2>5. QED
    BY <2>2, <2>3, <2>4
<1>18. CASE UNCHANGED vars
  BY <1>18 DEF vars, LockInv, InstInv, BoxInv, JobsOwned, PhaseWork, Configured,
               IsReapply, HasConfig
<1>19. QED
  BY <1>1, <1>2, <1>3, <1>4, <1>5, <1>6, <1>7, <1>8, <1>9, <1>10, <1>11, <1>12,
     <1>13, <1>14, <1>15, <1>16, <1>17, <1>18, <1>20
     DEF Next, Reapply, Events, Environment

-----------------------------------------------------------------------------
\* Every variable keeps its type and nothing ever refers to an instance that
\* is not in the plugin map: not a subscription, not a pending rebuild, not
\* a reapply under way (plugin_loader.js:201-203, plugin.js:111).
THEOREM Typed == Spec => []TypeOK
<1>1. TypeInv => TypeOK
  BY DEF TypeInv
<1>2. QED
  BY <1>1, InitType, NextType, PTL DEF Spec

-----------------------------------------------------------------------------
(* What is stored is what is loaded.                                       *)

\* What an instance outside the plugin map is to become: nothing.
NextKnown == \A p \in Instance : next[p] # None => p \in present

\* A reapply under way has brought what it is past to the configuration it
\* was given: the next configuration of the classes it has marked, but for
\* the instances still to be removed, and the configuration of the instances
\* it has flushed.  Events, timers and other jobs come between its steps.
MarkedOnTarget(p) ==
  phase = "mark" /\ Pos[p] \notin left /\ p \notin todo => next[p] = job.arg[p]
RemovedByTarget(p) ==
  phase = "mark" /\ p \in todo => job.arg[p] = None /\ Pos[p] \notin left
NextOnTarget(p) == phase \in {"flush", "apply"} => next[p] = job.arg[p]
FlushedOnTarget(p) ==
  phase = "apply" \/ (phase = "flush" /\ p \notin todo) => cfg[p] = job.arg[p]

OnTarget ==
  HasConfig(job) =>
    \A p \in Instance : /\ MarkedOnTarget(p) /\ RemovedByTarget(p)
                        /\ NextOnTarget(p) /\ FlushedOnTarget(p)

LoadInv == NextKnown /\ OnTarget

\* A job that starts is not past anything.
LEMMA StartOnTarget == ASSUME NEW j, Start(j) PROVE OnTarget'
  BY ClassAssumption DEF Start, OnTarget, HasConfig, Positions, MarkedOnTarget,
     RemovedByTarget, NextOnTarget, FlushedOnTarget

\* Nor is the lock's next holder, if there is one.
LEMMA ReleaseOnTarget == ASSUME Release PROVE OnTarget'
<1>1. CASE queue = <<>>
  BY <1>1 DEF Release, OnTarget, MarkedOnTarget, RemovedByTarget, NextOnTarget,
              FlushedOnTarget
<1>2. CASE queue # <<>>
  BY <1>2, StartOnTarget DEF Release
<1>3. QED
  BY <1>1, <1>2

\* A step that leaves the holder and its instances alone keeps it on target.
LEMMA HeldOnTarget ==
  ASSUME OnTarget, UNCHANGED <<phase, job, left, todo, cfg, next>>
  PROVE  OnTarget'
  BY DEF OnTarget, HasConfig, MarkedOnTarget, RemovedByTarget, NextOnTarget,
         FlushedOnTarget

\* To ask for the lock disturbs nobody who holds it.
LEMMA AcquireOnTarget ==
  ASSUME OnTarget, NEW j, Acquire(j), UNCHANGED <<cfg, next>>
  PROVE  OnTarget'
<1>1. CASE phase = "idle"
  BY <1>1, StartOnTarget DEF Acquire
<1>2. CASE phase # "idle"
  BY <1>2, HeldOnTarget DEF Acquire
<1>3. QED
  BY <1>1, <1>2

\* Every step keeps the loader on target: one step below per action that
\* takes part in a reapply, one for all the others.
LEMMA NextLoad == TypeInv /\ LoadInv /\ [Next]_vars => LoadInv'
<1> USE ConfigAssumption, ClassAssumption
<1> SUFFICES ASSUME TypeInv, LoadInv, [Next]_vars PROVE LoadInv'
  OBVIOUS
<1> USE DEF LoadInv
<1>1. ASSUME NEW k \in left, MarkClass(k) PROVE LoadInv'
  <2> DEFINE wanted == {p \in Instance : Pos[p] = k /\ job.arg[p] # None}
  <2>1. /\ present' = present \cup wanted
        /\ next' = [p \in Instance |-> IF p \in wanted THEN job.arg[p] ELSE next[p]]
        /\ todo' = {p \in present : Pos[p] = k /\ p \notin wanted}
        /\ todo = {} /\ left' = left \ {k} /\ phase = "mark"
        /\ UNCHANGED <<cfg, phase, job>>
    BY <1>1, TypeParts DEF MarkClass, InstInv
  <2>2. NextKnown'
    BY <2>1 DEF NextKnown
  <2>3. ASSUME HasConfig(job), NEW p \in Instance
        PROVE  /\ MarkedOnTarget(p)' /\ RemovedByTarget(p)'
               /\ NextOnTarget(p)' /\ FlushedOnTarget(p)'
    <3>1. MarkedOnTarget(p)'
      <4>1. CASE Pos[p] = k
        BY <2>1, <4>1 DEF MarkedOnTarget, NextKnown
      <4>2. CASE Pos[p] # k
        BY <2>1, <2>3, <4>2 DEF MarkedOnTarget, OnTarget
      <4>3. QED
        BY <4>1, <4>2
    <3>2. RemovedByTarget(p)'
      BY <2>1 DEF RemovedByTarget
    <3>3. QED
      BY <2>1, <3>1, <3>2 DEF NextOnTarget, FlushedOnTarget
  <2>4. OnTarget'
    BY <2>1, <2>3 DEF OnTarget, HasConfig
  <2>5. QED
    BY <2>2, <2>4
<1>2. ASSUME NEW p \in todo, Remove(p) PROVE LoadInv'
  <2>1. /\ present' = present \ {p} /\ next' = [next EXCEPT ![p] = None]
        /\ todo' = todo \ {p} /\ phase = "mark" /\ UNCHANGED <<phase, job, left>>
    BY <1>2 DEF Remove
  <2>2. next \in [Instance -> CfgVal \cup {None}]
    BY TypeParts DEF InstInv
  <2>3. NextKnown'
    BY <2>1, <2>2 DEF NextKnown
  <2>4. ASSUME HasConfig(job), NEW q \in Instance
        PROVE  /\ MarkedOnTarget(q)' /\ RemovedByTarget(q)'
               /\ NextOnTarget(q)' /\ FlushedOnTarget(q)'
    BY <2>1, <2>2, <2>4
       DEF OnTarget, MarkedOnTarget, RemovedByTarget, NextOnTarget, FlushedOnTarget
  <2>5. OnTarget'
    BY <2>1, <2>4 DEF OnTarget, HasConfig
  <2>6. QED
    BY <2>3, <2>5
<1>3. ASSUME StartFlush PROVE LoadInv'
  <2>1. /\ phase = "mark" /\ left = {} /\ todo = {} /\ phase' = "flush"
        /\ todo' = present /\ UNCHANGED <<present, cfg, next, job, left>>
    BY <1>3 DEF StartFlush, instVars
  <2>2. \A p \in Instance : p \notin present => cfg[p] = None /\ next[p] = None
    BY TypeParts DEF InstInv, Configured, NextKnown
  <2>3. OnTarget'
    BY <2>1, <2>2 DEF OnTarget, HasConfig, MarkedOnTarget, RemovedByTarget,
                      NextOnTarget, FlushedOnTarget
  <2>4. QED
    BY <2>1, <2>3 DEF NextKnown
<1>4. ASSUME NEW p \in todo, Flush(p) PROVE LoadInv'
  <2>1. /\ phase = "flush" /\ todo' = todo \ {p}
        /\ cfg' = [cfg EXCEPT ![p] = IF HasConfig(job) THEN next[p] ELSE FlushConfig(p)]
        /\ UNCHANGED <<present, next, phase, job, left>>
    BY <1>4 DEF Flush, FlushTurn
  <2>2. cfg \in [Instance -> CfgVal \cup {None}]
    BY TypeParts DEF InstInv
  <2>3. ASSUME HasConfig(job), NEW q \in Instance
        PROVE  /\ MarkedOnTarget(q)' /\ RemovedByTarget(q)'
               /\ NextOnTarget(q)' /\ FlushedOnTarget(q)'
    BY <2>1, <2>2, <2>3
       DEF OnTarget, MarkedOnTarget, RemovedByTarget, NextOnTarget, FlushedOnTarget
  <2>4. OnTarget'
    BY <2>1, <2>3 DEF OnTarget, HasConfig
  <2>5. QED
    BY <2>1, <2>4 DEF NextKnown
<1>5. ASSUME StartApply PROVE LoadInv'
  <2>1. /\ phase = "flush" /\ todo = {} /\ phase' = "apply"
        /\ UNCHANGED <<present, cfg, next, job, left>>
    BY <1>5 DEF StartApply, instVars
  <2>2. OnTarget'
    BY <2>1 DEF OnTarget, HasConfig, MarkedOnTarget, RemovedByTarget,
                NextOnTarget, FlushedOnTarget
  <2>3. QED
    BY <2>1, <2>2 DEF NextKnown
<1>6. ASSUME NEW S \in SUBSET todo, ApplyStart(S) PROVE LoadInv'
  <2>1. phase = "apply" /\ UNCHANGED <<present, cfg, next, phase, job, left>>
    BY <1>6 DEF ApplyStart, instVars
  <2>2. OnTarget'
    BY <2>1 DEF OnTarget, HasConfig, MarkedOnTarget, RemovedByTarget,
                NextOnTarget, FlushedOnTarget
  <2>3. QED
    BY <2>1, <2>2 DEF NextKnown
<1>7. ASSUME NEW p \in busy, Applied(p) PROVE LoadInv'
  BY <1>7, HeldOnTarget DEF Applied, NextKnown
<1>8. ASSUME Release, UNCHANGED <<present, next>> PROVE LoadInv'
  BY <1>8, ReleaseOnTarget DEF NextKnown
<1>9. ASSUME NEW j, Acquire(j), UNCHANGED <<present, cfg, next>> PROVE LoadInv'
  BY <1>9, AcquireOnTarget DEF NextKnown
<1>10. ASSUME UNCHANGED <<present, cfg, next, phase, job, left, todo>> PROVE LoadInv'
  BY <1>10, HeldOnTarget DEF NextKnown
<1>11. ASSUME Restart PROVE LoadInv'
  <2>1. NextKnown'
    BY <1>11 DEF Restart, NextKnown
  <2>2. OnTarget'
    BY <1>11 DEF Restart, OnTarget, HasConfig, Positions, MarkedOnTarget,
                 RemovedByTarget, NextOnTarget, FlushedOnTarget
  <2>3. QED
    BY <2>1, <2>2
<1>12. ASSUME NEW p \in todo, FlushRejects(p) PROVE LoadInv'
  BY <1>12, <1>8 DEF FlushRejects, EndReapply
<1>13. CASE FinishReapply
  BY <1>13, <1>8 DEF FinishReapply, EndReapply, instVars
<1>14. CASE RunEvent
  BY <1>14, <1>8 DEF RunEvent
<1>20. ASSUME NEW p \in unseen, Poll(p) \/ Rewatch(p) PROVE LoadInv'
  BY <1>20, <1>10 DEF Poll, Rewatch, instVars, lockVars
<1>15. ASSUME NEW p \in unsent, SendEvent(p) PROVE LoadInv'
  BY <1>15, <1>9, <1>10 DEF SendEvent, instVars, lockVars
<1>16. CASE ScheduledReapply \/ RollbackConfig \/ \E c \in NetConfigs : TryApplyConfig(c)
  BY <1>16, <1>9 DEF ScheduledReapply, RollbackConfig, TryApplyConfig, instVars
<1>17. CASE UNCHANGED vars \/ (\E p \in Hotplug : Plug(p)) \/ \E p \in Unlocked : UnlockedEvent(p)
  BY <1>17, <1>10 DEF vars, Plug, UnlockedEvent, instVars, lockVars
<1>18. QED
  BY <1>1, <1>2, <1>3, <1>4, <1>5, <1>6, <1>7, <1>11, <1>12, <1>13, <1>14, <1>15,
     <1>16, <1>17, <1>20
     DEF Next, Reapply, Events, Environment, ApplyOk, ApplyDeferred, ApplyRejects

\* The stored configuration changes in one way only: a reapply that was given
\* the new one ends without an error.
LEMMA SaveStep == TypeInv /\ LoadInv /\ [Next]_vars => (active' # active => cfg = active')
<1> SUFFICES ASSUME TypeInv, LoadInv, [Next]_vars, active' # active
             PROVE  cfg = active'
  OBVIOUS
<1>1. FinishReapply
  <2>1. ~ \E p \in todo : FlushRejects(p)
    BY DEF FlushRejects, EndReapply, Saved
  <2>2. QED
    BY <2>1 DEF Next, Reapply, Events, Environment, vars, TryApplyConfig, Plug,
       Poll, Rewatch, UnlockedEvent, Restart, RunEvent, SendEvent, ScheduledReapply, RollbackConfig,
       MarkClass, Remove, Flush, StartFlush, StartApply, ApplyStart, ApplyOk,
       ApplyDeferred, ApplyRejects, Applied
<1>2. job.kind = "set" /\ active' = job.arg /\ phase = "apply"
  BY <1>1 DEF FinishReapply, EndReapply, Saved
<1>3. \A p \in Instance : cfg[p] = job.arg[p]
  BY <1>2 DEF LoadInv, OnTarget, HasConfig, FlushedOnTarget
<1>4. cfg \in [Instance -> CfgVal \cup {None}] /\ job.arg \in [Instance -> CfgVal \cup {None}]
  BY <1>2, TypeParts, JobArg, ConfigAssumption DEF InstInv, LockInv, HasConfig
<1>5. QED
  BY <1>2, <1>3, <1>4

\* Whatever fails and whenever the service dies, the configuration that is
\* stored is the one the loader holds at that moment, instance by instance
\* (network_config_mgr.js:770-799, plugin_loader.js:220-300).
THEOREM Saving == Spec => SavedIsLoaded
<1>1. Init => LoadInv
  BY ClassAssumption DEF Init, LoadInv, NextKnown, OnTarget, Positions, MarkedOnTarget,
     RemovedByTarget, NextOnTarget, FlushedOnTarget
<1>2. QED
  BY <1>1, InitType, NextType, NextLoad, SaveStep, PTL DEF Spec, SavedIsLoaded

-----------------------------------------------------------------------------
(* The order of the apply phase.                                           *)

\* The array of classes is in order but while it is visited from its end.
Turned == ascending <=> phase \notin {"mark", "flush"}

\* The instances being applied are of one class, the least one not yet done.
BusyFirst ==
  \A p \in busy : /\ \A q \in busy : Pos[p] = Pos[q]
                  /\ \A q \in todo : phase = "apply" => Pos[p] <= Pos[q]

\* Whatever is in the plugin map has a next configuration, and once it is
\* flushed it has a configuration.
Planned == \A p \in present : next[p] # None
Prepared ==
  \A p \in present :
     phase = "apply" \/ (phase = "flush" /\ p \notin todo) => cfg[p] # None

OrderInv == Turned /\ BusyFirst /\ Planned /\ Prepared

\* A job that starts finds the array in order and turns it if it is a reapply.
LEMMA StartOrder ==
  ASSUME NEW j, Start(j), ascending = TRUE
  PROVE  Turned' /\ BusyFirst' /\ Prepared'
  BY DEF Start, Turned, BusyFirst, Prepared

\* So does the lock's next holder.
LEMMA ReleaseOrder ==
  ASSUME Release, ascending = TRUE
  PROVE  Turned' /\ BusyFirst' /\ Prepared'
<1>1. CASE queue = <<>>
  BY <1>1 DEF Release, Turned, BusyFirst, Prepared
<1>2. CASE queue # <<>>
  BY <1>2, StartOrder DEF Release
<1>3. QED
  BY <1>1, <1>2

\* A step that leaves the holder and its instances alone keeps the order.
LEMMA HeldOrder ==
  ASSUME OrderInv, UNCHANGED <<present, cfg, next, ascending, phase, todo>>,
         busy' \subseteq busy
  PROVE  OrderInv'
  BY DEF OrderInv, Turned, BusyFirst, Planned, Prepared

\* To ask for the lock does not turn the array under its holder.
LEMMA AcquireOrder ==
  ASSUME OrderInv, TypeInv, NEW j, Acquire(j), UNCHANGED <<present, cfg, next>>
  PROVE  OrderInv'
<1>1. CASE phase = "idle"
  <2>1. Start(j) /\ ascending = TRUE
    BY <1>1 DEF Acquire, OrderInv, Turned, TypeInv, TypeOK
  <2>2. QED
    BY <2>1, StartOrder DEF OrderInv, Planned
<1>2. CASE phase # "idle"
  BY <1>2, HeldOrder DEF Acquire
<1>3. QED
  BY <1>1, <1>2

\* Two classes that are each before the other are the same.
LEMMA SamePlace == ASSUME NEW m \in Nat, NEW n \in Nat, m <= n, n <= m PROVE m = n
  OBVIOUS

\* As long as no flush() rejects, every step keeps the order: one step below
\* per action that takes part in a reapply, one for all the others.
LEMMA NextOrder ==
  ASSUME FlushFails = {}
  PROVE  TypeInv /\ OrderInv /\ [Next]_vars => OrderInv'
<1> USE ConfigAssumption, ClassAssumption
<1> SUFFICES ASSUME TypeInv, OrderInv, [Next]_vars PROVE OrderInv'
  OBVIOUS
<1>0. /\ present \subseteq Instance /\ cfg \in [Instance -> CfgVal \cup {None}]
      /\ next \in [Instance -> CfgVal \cup {None}] /\ ascending \in BOOLEAN
      /\ todo \subseteq present /\ busy \subseteq present
      /\ (phase # "apply" => busy = {})
  BY DEF TypeInv, TypeOK, PhaseWork
<1>1. ASSUME NEW k \in left, MarkClass(k) PROVE OrderInv'
  <2> DEFINE wanted == {p \in Instance : Pos[p] = k /\ job.arg[p] # None}
  <2>1. /\ present' = present \cup wanted
        /\ next' = [p \in Instance |-> IF p \in wanted THEN job.arg[p] ELSE next[p]]
        /\ phase = "mark" /\ UNCHANGED <<phase, ascending, busy>>
    BY <1>1, <1>0 DEF MarkClass
  <2>2. \A p \in wanted : p \in Instance /\ job.arg[p] # None
    OBVIOUS
  <2>3. Planned'
    BY <2>1, <2>2, <1>0 DEF OrderInv, Planned
  <2>4. QED
    BY <2>1, <2>3, <1>0 DEF OrderInv, Turned, BusyFirst, Prepared
<1>2. ASSUME NEW p \in todo, Remove(p) PROVE OrderInv'
  <2>1. /\ present' = present \ {p} /\ next' = [next EXCEPT ![p] = None]
        /\ phase = "mark" /\ UNCHANGED <<phase, ascending, busy>>
    BY <1>2 DEF Remove
  <2>2. QED
    BY <2>1, <1>0 DEF OrderInv, Turned, BusyFirst, Planned, Prepared
<1>3. ASSUME StartFlush PROVE OrderInv'
  BY <1>3, <1>0 DEF StartFlush, OrderInv, Turned, BusyFirst, Planned, Prepared, instVars
<1>4. ASSUME NEW p \in todo, Flush(p) PROVE OrderInv'
  <2>1. /\ phase = "flush" /\ todo' = todo \ {p}
        /\ cfg' = [cfg EXCEPT ![p] = IF HasConfig(job) THEN next[p] ELSE FlushConfig(p)]
        /\ UNCHANGED <<present, next, phase, ascending, busy>>
    BY <1>4 DEF Flush, FlushTurn
  <2>2. p \in Instance /\ next[p] # None /\ FlushConfig(p) # None
    BY <1>0 DEF OrderInv, Planned, FlushConfig
  <2>3. Prepared'
    BY <2>1, <2>2, <1>0 DEF OrderInv, Prepared
  <2>4. QED
    BY <2>1, <2>3, <1>0 DEF OrderInv, Turned, BusyFirst, Planned
<1>5. ASSUME StartApply PROVE OrderInv'
  BY <1>5, <1>0 DEF StartApply, OrderInv, Turned, BusyFirst, Planned, Prepared, instVars
<1>6. ASSUME NEW S \in SUBSET todo, ApplyStart(S) PROVE OrderInv'
  <2>1. /\ phase = "apply" /\ todo' = todo \ S /\ busy' \subseteq S
        /\ UNCHANGED <<present, cfg, next, phase, ascending>>
    BY <1>6 DEF ApplyStart, instVars
  <2>2. ascending = TRUE
    BY <2>1, <1>0 DEF OrderInv, Turned
  <2>3. \A p \in S : \A q \in todo : Pos[p] <= Pos[q]
    <3>1. \A p \in S : Foremost(Pos[p], {Pos[q] : q \in todo})
      BY <1>6 DEF ApplyStart, ApplyTurn
    <3>2. QED
      BY <2>2, <3>1 DEF Foremost
  <2>4. \A p, q \in S : Pos[p] = Pos[q]
    <3> SUFFICES ASSUME NEW p \in S, NEW q \in S PROVE Pos[p] = Pos[q]
      OBVIOUS
    <3>1. p \in todo /\ q \in todo
      OBVIOUS
    <3>2. Pos[p] \in Nat /\ Pos[q] \in Nat
      BY <1>0, <3>1
    <3>3. Pos[p] <= Pos[q] /\ Pos[q] <= Pos[p]
      BY <2>3, <3>1
    <3>4. QED
      BY <3>2, <3>3, SamePlace
  <2>5. BusyFirst'
    <3>1. ASSUME NEW p \in busy' PROVE p \in S
      BY <2>1, <3>1
    <3>2. ASSUME NEW q \in todo' PROVE q \in todo
      BY <2>1, <3>2
    <3>3. QED
      BY <2>3, <2>4, <3>1, <3>2 DEF BusyFirst
  <2>6. QED
    BY <2>1, <2>5 DEF OrderInv, Turned, Planned, Prepared
<1>7. ASSUME NEW p \in busy, Applied(p) PROVE OrderInv'
  BY <1>7, HeldOrder DEF Applied
<1>8. ASSUME Release, phase \in {"event", "apply"}, UNCHANGED <<present, next>>
      PROVE  OrderInv'
  <2>1. ascending = TRUE
    BY <1>8, <1>0 DEF OrderInv, Turned
  <2>2. QED
    BY <1>8, <2>1, ReleaseOrder DEF OrderInv, Planned
<1>9. ASSUME NEW j, Acquire(j), UNCHANGED <<present, cfg, next>> PROVE OrderInv'
  BY <1>9, AcquireOrder
<1>10. ASSUME UNCHANGED <<present, cfg, next, ascending, phase, todo, busy>>
       PROVE  OrderInv'
  BY <1>10, HeldOrder
<1>11. ASSUME Restart PROVE OrderInv'
  BY <1>11 DEF Restart, OrderInv, Turned, BusyFirst, Planned, Prepared
<1>12. ASSUME NEW p \in todo, FlushRejects(p) PROVE OrderInv'
  BY <1>12 DEF FlushRejects
<1>13. CASE FinishReapply
  BY <1>13, <1>8 DEF FinishReapply, EndReapply, instVars
<1>14. CASE RunEvent
  BY <1>14, <1>8 DEF RunEvent
<1>20. ASSUME NEW p \in unseen, Poll(p) \/ Rewatch(p) PROVE OrderInv'
  BY <1>20, <1>10 DEF Poll, Rewatch, instVars, lockVars
<1>15. ASSUME NEW p \in unsent, SendEvent(p) PROVE OrderInv'
  BY <1>15, <1>9, <1>10 DEF SendEvent, instVars, lockVars
<1>16. CASE ScheduledReapply \/ RollbackConfig \/ \E c \in NetConfigs : TryApplyConfig(c)
  BY <1>16, <1>9 DEF ScheduledReapply, RollbackConfig, TryApplyConfig, instVars
<1>17. CASE UNCHANGED vars \/ (\E p \in Hotplug : Plug(p)) \/ \E p \in Unlocked : UnlockedEvent(p)
  BY <1>17, <1>10 DEF vars, Plug, UnlockedEvent, instVars, lockVars
<1>18. QED
  BY <1>1, <1>2, <1>3, <1>4, <1>5, <1>6, <1>7, <1>11, <1>12, <1>13, <1>14, <1>15,
     <1>16, <1>17, <1>20
     DEF Next, Reapply, Events, Environment, ApplyOk, ApplyDeferred, ApplyRejects

\* In order, whoever is applied finds nothing it uses before or beside it.
LEMMA OrderStep ==
  ASSUME TypeInv, OrderInv, NEW p \in busy, phase = "apply"
  PROVE  Lowers(p) \cap (todo \cup (busy \ {p})) = {}
<1>1. /\ p \in Instance /\ p \in present /\ busy \subseteq Instance /\ todo \subseteq Instance
      /\ cfg[p] \in CfgVal \cup {None}
  BY DEF TypeInv, TypeOK
<1>2. cfg[p] \in CfgVal
  BY <1>1 DEF OrderInv, Prepared
<1>3. \A d \in Lowers(p) : Pos[d] < Pos[p]
  BY <1>1, <1>2, ClassAssumption DEF Lowers
<1>4. \A q \in todo \cup busy : Pos[q] \in Nat /\ Pos[p] \in Nat /\ Pos[p] <= Pos[q]
  BY <1>1, ClassAssumption DEF OrderInv, BusyFirst
<1>5. \A d \in Lowers(p) : d \notin todo \cup busy
  BY <1>3, <1>4, <1>1, ClassAssumption
<1>6. QED
  BY <1>5

\* As long as no flush() rejects, an instance is applied only when all the
\* instances it uses have had their turn, whatever events, crashes and failing
\* apply()s come between (plugin_loader.js:325-352).
THEOREM AppliedFromBottom ==
  ASSUME FlushFails = {}
  PROVE  Spec => BuildFromBottom
<1>1. Init => OrderInv
  BY DEF Init, OrderInv, Turned, BusyFirst, Planned, Prepared
<1>2. TypeInv /\ OrderInv =>
        \A p \in busy : p \notin busy' /\ phase = "apply" /\ phase' = "apply" =>
          Lowers(p) \cap (todo \cup (busy \ {p})) = {}
  BY OrderStep
<1>3. QED
  BY <1>1, <1>2, InitType, NextType, NextOrder, PTL DEF Spec, BuildFromBottom

-----------------------------------------------------------------------------
(* Nothing is left of what was removed.                                    *)

\* A reapply() that tryApplyConfig() waits for: the one of its request, or
\* the rollback to the stored configuration; after a start, the dry run.
Awaiting(j, c, stored) ==
  HasConfig(j) => /\ c \in {"applying", "rollingBack"}
                  /\ j.kind = "rollback" <=> c = "rollingBack"
                  /\ j.kind \in {"rollback", "dry"} => j.arg = stored
Mine(j) == Awaiting(j, client, active)

\* There is one of them at most, in the queue or in possession of the lock.
OneAtATime ==
  /\ phase # "idle" => Mine(job)
  /\ \A i \in 1..Len(queue) :
        /\ Mine(queue[i]) /\ queue[i].kind # "dry"
        /\ HasConfig(queue[i]) =>
             /\ phase # "idle" /\ ~HasConfig(job)
             /\ \A k \in 1..Len(queue) : HasConfig(queue[k]) => k = i

\* Only a job with a configuration removes instances.
RemovalsDue == phase = "mark" /\ todo # {} => HasConfig(job)

\* Between two requests the plugin map is that of the stored configuration.
StoredIsMapped ==
  client = "free" => \A p \in Instance : p \in present <=> active[p] # None

\* What is in the system is in the plugin map, or the dry run after a start
\* has yet to put it there.
DryRun == phase # "idle" /\ Dry
Mapped ==
  \A p \in Instance :
    runtime[p] # None => IF DryRun THEN job.arg[p] # None ELSE p \in present

\* A dry run applies nothing.
DryApply == DryRun /\ phase = "apply" => todo = {} /\ busy = {}

LeftInv == OneAtATime /\ RemovalsDue /\ StoredIsMapped /\ Mapped /\ DryApply

\* A step that leaves the lock and the caller alone leaves the requests alone.
LEMMA HeldOneAtATime ==
  ASSUME OneAtATime, UNCHANGED <<phase, job, queue, client, active>>
  PROVE  OneAtATime'
  BY DEF OneAtATime, Mine, Awaiting, HasConfig

\* A job without a configuration may ask for the lock at any time.
LEMMA AcquireBare ==
  ASSUME TypeInv, OneAtATime, NEW j \in Job, ~HasConfig(j), Acquire(j),
         UNCHANGED <<client, active>>
  PROVE  OneAtATime'
<1>1. CASE phase = "idle"
  <2>1. job' = j /\ UNCHANGED queue
    BY <1>1 DEF Acquire, Start
  <2>2. \A i \in 1..Len(queue) : ~HasConfig(queue[i])
    BY <1>1 DEF OneAtATime
  <2>3. Awaiting(job', client', active')
    BY <2>1 DEF Mine, Awaiting, HasConfig
  <2>4. \A i \in 1..Len(queue) : Awaiting(queue[i], client', active') /\ queue[i].kind # "dry" /\ ~HasConfig(queue[i])
    BY <2>1, <2>2 DEF OneAtATime, Mine, Awaiting, HasConfig
  <2> QED BY <2>1, <2>3, <2>4 DEF OneAtATime, HasConfig, Mine, Awaiting
<1>2. CASE phase # "idle"
  <2>1. queue' = Append(queue, j) /\ UNCHANGED <<phase, job>>
    BY <1>2 DEF Acquire
  <2>2. queue \in Seq(Job)
    BY DEF TypeInv, TypeOK
  <2>3. /\ Len(queue') = Len(queue) + 1 /\ Len(queue) \in Nat
        /\ \A i \in 1..Len(queue) : queue'[i] = queue[i]
        /\ queue'[Len(queue) + 1] = j
    BY <2>1, <2>2
  <2>4. ASSUME NEW i \in 1..Len(queue')
        PROVE  \/ i \in 1..Len(queue) /\ queue'[i] = queue[i]
               \/ queue'[i] = j
    BY <2>3
  <2>5. Awaiting(job', client', active')
    BY <1>2, <2>1 DEF OneAtATime, Mine, Awaiting, HasConfig
  <2>6. ASSUME NEW i \in 1..Len(queue')
        PROVE  /\ Awaiting(queue'[i], client', active') /\ queue'[i].kind # "dry"
               /\ HasConfig(queue'[i]) =>
                    /\ phase # "idle" /\ ~HasConfig(job)
                    /\ \A k \in 1..Len(queue') : HasConfig(queue'[k]) => k = i
    <3>1. CASE i \in 1..Len(queue) /\ queue'[i] = queue[i]
      BY <3>1, <2>4, <2>1 DEF OneAtATime, Mine, Awaiting, HasConfig
    <3>2. CASE queue'[i] = j
      BY <3>2 DEF Mine, Awaiting, HasConfig
    <3> QED BY <3>1, <3>2, <2>4
  <2> QED BY <2>1, <2>5, <2>6 DEF OneAtATime, HasConfig, Mine, Awaiting
<1> QED BY <1>1, <1>2

\* A caller that waits for nothing may ask for the lock with a configuration.
LEMMA AcquireMine ==
  ASSUME TypeInv, OneAtATime, NEW j \in Job, j.kind # "dry", Acquire(j),
         client \in {"free", "rollbackDue"}, Awaiting(j, client', active'), UNCHANGED active
  PROVE  OneAtATime'
<1>0. /\ phase # "idle" => ~HasConfig(job)
      /\ \A i \in 1..Len(queue) : ~HasConfig(queue[i]) /\ queue[i].kind # "dry"
  BY DEF OneAtATime, Mine, Awaiting
<1>1. CASE phase = "idle"
  <2>1. job' = j /\ UNCHANGED queue
    BY <1>1 DEF Acquire, Start
  <2> QED BY <1>0, <2>1 DEF OneAtATime, Mine, Awaiting, HasConfig
<1>2. CASE phase # "idle"
  <2>1. queue' = Append(queue, j) /\ UNCHANGED <<phase, job>>
    BY <1>2 DEF Acquire
  <2>2. queue \in Seq(Job)
    BY DEF TypeInv, TypeOK
  <2>3. /\ Len(queue') = Len(queue) + 1 /\ Len(queue) \in Nat
        /\ \A i \in 1..Len(queue) : queue'[i] = queue[i]
        /\ queue'[Len(queue) + 1] = j
    BY <2>1, <2>2
  <2>4. ASSUME NEW i \in 1..Len(queue')
        PROVE  /\ i # Len(queue) + 1 => ~HasConfig(queue'[i])
               /\ Awaiting(queue'[i], client', active') /\ queue'[i].kind # "dry"
    BY <2>3, <1>0 DEF Mine, Awaiting, HasConfig
  <2>5. ~HasConfig(job')
    BY <1>0, <1>2, <2>1 DEF HasConfig
  <2> QED BY <1>2, <2>1, <2>4, <2>5 DEF OneAtATime, HasConfig, Mine, Awaiting
<1> QED BY <1>1, <1>2

\* Whoever releases the lock passes it to a request that is still waited for.
LEMMA ReleaseMine ==
  ASSUME TypeInv, OneAtATime, Release, phase # "idle",
         HasConfig(job) \/ UNCHANGED <<client, active>>
  PROVE  /\ OneAtATime' /\ ~DryRun'
<1>0. \A i \in 1..Len(queue) : HasConfig(queue[i]) => UNCHANGED <<client, active>>
  BY DEF OneAtATime
<1>1. CASE queue = <<>>
  <2>1. phase' = "idle" /\ queue' = <<>> /\ Len(queue') = 0
    BY <1>1 DEF Release
  <2>2. \A i \in 1..0 : FALSE
    OBVIOUS
  <2> QED BY <2>1, <2>2 DEF OneAtATime, DryRun
<1>2. CASE queue # <<>>
  <2>1. job' = Head(queue) /\ queue' = Tail(queue) /\ phase' # "idle"
    BY <1>2 DEF Release, Start
  <2>2. queue \in Seq(Job)
    BY DEF TypeInv, TypeOK
  <2>3. /\ 1 \in 1..Len(queue) /\ Head(queue) = queue[1]
        /\ \A i \in 1..Len(queue') : i + 1 \in 1..Len(queue) /\ queue'[i] = queue[i + 1] /\ i + 1 # 1
    BY <1>2, <2>1, <2>2
  <2>4. \A i \in 1..Len(queue) : Awaiting(queue[i], client', active') /\ queue[i].kind # "dry"
    BY <1>0 DEF OneAtATime, Mine, Awaiting, HasConfig
  <2>5. Awaiting(job', client', active') /\ job'.kind # "dry"
    BY <2>1, <2>3, <2>4 DEF Mine, Awaiting, HasConfig
  <2>6. ASSUME NEW i \in 1..Len(queue')
        PROVE  /\ Awaiting(queue'[i], client', active') /\ queue'[i].kind # "dry"
               /\ HasConfig(queue'[i]) =>
                    /\ ~HasConfig(job')
                    /\ \A k \in 1..Len(queue') : HasConfig(queue'[k]) => k = i
    <3>1. i + 1 \in 1..Len(queue) /\ queue'[i] = queue[i + 1] /\ i + 1 # 1
      BY <2>3
    <3>2. Awaiting(queue'[i], client', active') /\ queue'[i].kind # "dry"
      BY <2>4, <3>1 DEF Mine, Awaiting, HasConfig
    <3>3. ASSUME HasConfig(queue'[i]) PROVE ~HasConfig(job')
      BY <3>1, <3>3, <2>1, <2>3 DEF OneAtATime
    <3>4. ASSUME HasConfig(queue'[i]), NEW k \in 1..Len(queue'), HasConfig(queue'[k])
          PROVE  k = i
      <4>1. k + 1 \in 1..Len(queue) /\ queue'[k] = queue[k + 1]
        BY <2>3
      <4>2. k + 1 = i + 1
        BY <3>1, <3>4, <4>1 DEF OneAtATime
      <4> QED BY <4>2
    <3> QED BY <3>2, <3>3, <3>4
  <2> QED BY <2>1, <2>5, <2>6 DEF OneAtATime, DryRun, Dry, HasConfig, Mine, Awaiting
<1> QED BY <1>1, <1>2

\* When a reapply with a configuration is over, the plugin map is that of its
\* configuration.
LEMMA MapOnTarget ==
  ASSUME TypeInv, LoadInv, OrderInv, HasConfig(job), phase = "apply"
  PROVE  \A p \in Instance : p \in present <=> job.arg[p] # None
  BY DEF LoadInv, NextKnown, OnTarget, NextOnTarget, OrderInv, Planned

\* As long as no flush() rejects and the service does not die half way, every
\* step keeps the invariant: one step below per action that takes part in a
\* reapply, one for all the others.
LEMMA NextLeft ==
  ASSUME FlushFails = {}, CrashAnytime = FALSE
  PROVE  TypeInv /\ LoadInv /\ OrderInv /\ LeftInv /\ [Next]_vars => LeftInv'
<1> USE ConfigAssumption, ClassAssumption
<1> SUFFICES ASSUME TypeInv, LoadInv, OrderInv, LeftInv, [Next]_vars PROVE LeftInv'
  OBVIOUS
<1>0. /\ present \subseteq Instance /\ cfg \in [Instance -> CfgVal \cup {None}]
      /\ runtime \in [Instance -> CfgVal \cup {None}] /\ job \in Job
      /\ todo \subseteq present /\ busy \subseteq present
      /\ (phase # "apply" => busy = {}) /\ (left # {} => HasConfig(job))
      /\ active \in NetConfigs
  BY DEF TypeInv, TypeOK, PhaseWork
<1>a. ASSUME UNCHANGED <<phase, job, queue, client, active>> PROVE OneAtATime'
  BY <1>a, HeldOneAtATime DEF LeftInv
<1>b. ASSUME UNCHANGED <<phase, job, todo, busy>> PROVE RemovalsDue' /\ DryApply'
  BY <1>b DEF LeftInv, RemovalsDue, DryApply, DryRun, Dry, HasConfig
<1>c. ASSUME UNCHANGED <<present, client, active>> PROVE StoredIsMapped'
  BY <1>c DEF LeftInv, StoredIsMapped
<1>d. ASSUME UNCHANGED <<present, phase, job>>,
             \A p \in Instance : runtime'[p] # None => runtime[p] # None \/ (p \in present /\ ~DryRun)
      PROVE  Mapped'
  BY <1>d DEF LeftInv, Mapped, DryRun, Dry
<1>1. ASSUME NEW k \in left, MarkClass(k) PROVE LeftInv'
  <2>1. /\ present \subseteq present'
        /\ phase = "mark" /\ UNCHANGED <<phase, job, queue, client, active, runtime>>
    BY <1>1 DEF MarkClass, boxVars
  <2>2. HasConfig(job) /\ client # "free"
    BY <1>0, <2>1 DEF LeftInv, OneAtATime, Mine, Awaiting
  <2>3. RemovalsDue' /\ DryApply' /\ StoredIsMapped'
    BY <2>1, <2>2 DEF RemovalsDue, DryApply, StoredIsMapped, HasConfig
  <2>4. Mapped'
    BY <2>1 DEF LeftInv, Mapped, DryRun, Dry
  <2> QED BY <1>a, <2>1, <2>3, <2>4 DEF LeftInv
<1>2. ASSUME NEW p \in todo, Remove(p) PROVE LeftInv'
  <2>1. /\ present' = present \ {p}
        /\ phase = "mark" /\ UNCHANGED <<phase, job, client, active>>
    BY <1>2 DEF Remove
  <2>2. HasConfig(job) /\ client # "free"
    BY <1>0, <2>1 DEF LeftInv, OneAtATime, RemovalsDue, Mine, Awaiting
  <2>3. RemovalsDue' /\ DryApply' /\ StoredIsMapped'
    BY <2>1, <2>2 DEF RemovalsDue, DryApply, StoredIsMapped, HasConfig
  <2>4. Mapped'
    <3>1. CASE Dry
      BY <1>2, <2>1, <3>1 DEF Remove, RemoveBox, LeftInv, Mapped, DryRun, Dry
    <3>2. CASE ~Dry
      <4>1. runtime' = [runtime EXCEPT ![p] = None]
        BY <1>2, <3>2 DEF Remove, RemoveBox, TornDown
      <4> QED BY <1>0, <2>1, <3>2, <4>1 DEF LeftInv, Mapped, DryRun, Dry
    <3> QED BY <3>1, <3>2
  <2>5. OneAtATime'
    <3>1. \A i \in 1..Len(queue) : ~HasConfig(queue[i]) /\ queue[i].kind # "dry"
      BY <2>2 DEF LeftInv, OneAtATime
    <3>2. queue \in Seq(Job) /\ queue' = Disowned(queue, p)
      BY <1>2 DEF Remove, TypeInv, TypeOK
    <3>3. /\ Len(queue') = Len(queue)
          /\ \A i \in 1..Len(queue) : queue'[i] = queue[i] \/ queue'[i] = EventJob(None)
      BY <3>2 DEF Disowned
    <3>4. ~HasConfig(EventJob(None)) /\ EventJob(None).kind # "dry"
      BY DEF HasConfig, EventJob
    <3>5. \A i \in 1..Len(queue') : ~HasConfig(queue'[i]) /\ queue'[i].kind # "dry"
      BY <3>1, <3>3, <3>4
    <3> QED BY <2>1, <3>5 DEF LeftInv, OneAtATime, Mine, Awaiting, HasConfig
  <2> QED BY <2>3, <2>4, <2>5 DEF LeftInv
<1>3. ASSUME StartFlush PROVE LeftInv'
  <2>1. /\ phase = "mark" /\ phase' = "flush"
        /\ UNCHANGED <<present, job, queue, client, active, runtime>>
    BY <1>3 DEF StartFlush, boxVars, instVars
  <2>2. RemovalsDue' /\ DryApply' /\ Mapped'
    BY <2>1 DEF LeftInv, RemovalsDue, DryApply, Mapped, DryRun, Dry
  <2>3. OneAtATime'
    BY <2>1 DEF LeftInv, OneAtATime, Mine, Awaiting, HasConfig
  <2> QED BY <1>c, <2>1, <2>2, <2>3 DEF LeftInv
<1>4. ASSUME NEW p \in todo, Flush(p) PROVE LeftInv'
  <2>1. /\ phase = "flush"
        /\ UNCHANGED <<present, phase, job, queue, client, active, busy>>
    BY <1>4 DEF Flush, FlushTurn
  <2>2. runtime' = runtime \/ runtime' = [runtime EXCEPT ![p] = None]
    BY <1>4 DEF Flush, FlushBox, AddressesGone, TornDown
  <2>3. RemovalsDue' /\ DryApply'
    BY <2>1 DEF RemovalsDue, DryApply
  <2>4. Mapped'
    BY <1>d, <1>0, <2>1, <2>2
  <2> QED BY <1>a, <1>c, <2>1, <2>3, <2>4 DEF LeftInv
<1>5. ASSUME StartApply PROVE LeftInv'
  <2>1. /\ phase = "flush" /\ phase' = "apply" /\ todo' = (IF Dry THEN {} ELSE present)
        /\ UNCHANGED <<present, job, queue, client, active, runtime, busy>>
    BY <1>5 DEF StartApply, boxVars, instVars
  <2>2. RemovalsDue' /\ DryApply' /\ Mapped'
    BY <1>0, <2>1 DEF LeftInv, RemovalsDue, DryApply, Mapped, DryRun, Dry
  <2>3. OneAtATime'
    BY <2>1 DEF LeftInv, OneAtATime, Mine, Awaiting, HasConfig
  <2> QED BY <1>c, <2>1, <2>2, <2>3 DEF LeftInv
<1>6. ASSUME NEW S \in SUBSET todo, ApplyStart(S) PROVE LeftInv'
  <2>1. /\ phase = "apply" /\ todo' \subseteq todo /\ busy' \subseteq S
        /\ UNCHANGED <<present, phase, job, queue, client, active, runtime>>
    BY <1>6 DEF ApplyStart, instVars
  <2>2. RemovalsDue' /\ DryApply' /\ Mapped'
    BY <2>1 DEF LeftInv, RemovalsDue, DryApply, Mapped, DryRun, Dry
  <2> QED BY <1>a, <1>c, <2>1, <2>2 DEF LeftInv
<1>7. ASSUME NEW p \in busy, Applied(p), runtime' = runtime \/ runtime' = [runtime EXCEPT ![p] = cfg[p]]
      PROVE  LeftInv'
  <2>1. /\ phase = "apply" /\ todo' = todo /\ busy' \subseteq busy
        /\ UNCHANGED <<present, phase, job, queue, client, active>>
    BY <1>7, <1>0 DEF Applied
  <2>2. ~DryRun
    BY <2>1 DEF LeftInv, DryApply
  <2>3. RemovalsDue' /\ DryApply'
    BY <2>1, <2>2 DEF RemovalsDue, DryApply, DryRun, Dry
  <2>4. Mapped'
    BY <1>0, <1>7, <1>d, <2>1, <2>2
  <2> QED BY <1>a, <1>c, <2>1, <2>3, <2>4 DEF LeftInv
<1>8. ASSUME FinishReapply PROVE LeftInv'
  <2>1. /\ phase = "apply" /\ Release
        /\ client' = Answer(errors) /\ active' = Saved(errors)
        /\ UNCHANGED <<present, runtime>>
    BY <1>8 DEF FinishReapply, EndReapply, instVars, boxVars
  <2>2. HasConfig(job) \/ job.kind = "effective"
    BY <1>0, <2>1 DEF TypeInv, PhaseWork, IsReapply, HasConfig, Job, Effective
  <2>3. HasConfig(job) \/ UNCHANGED <<client, active>>
    BY <2>1, <2>2 DEF Answer, Saved
  <2>4. OneAtATime' /\ ~DryRun'
    BY <2>1, <2>3, ReleaseMine DEF LeftInv
  <2>5. RemovalsDue' /\ DryApply'
    <3>1. todo' = {}
      BY <2>1 DEF Release, Start
    <3> QED BY <2>4, <3>1 DEF RemovalsDue, DryApply
  <2>6. HasConfig(job) => \A p \in Instance : p \in present <=> job.arg[p] # None
    BY <2>1, MapOnTarget
  <2>7. Mapped'
    BY <2>1, <2>4, <2>6 DEF LeftInv, Mapped, DryRun, Dry, HasConfig
  <2>8. StoredIsMapped'
    <3>1. CASE HasConfig(job)
      <4>1. client' = "free" => active' = job.arg
        BY <2>1, <3>1 DEF Answer, Saved, LeftInv, OneAtATime, Mine, Awaiting, HasConfig
      <4> QED BY <4>1, <2>1, <2>6, <3>1 DEF StoredIsMapped
    <3>2. CASE ~HasConfig(job)
      BY <3>2, <2>1, <2>3, <1>c
    <3> QED BY <3>1, <3>2
  <2> QED BY <2>4, <2>5, <2>7, <2>8 DEF LeftInv
<1>9. ASSUME NEW p \in Hotplug, Plug(p) PROVE LeftInv'
  <2>1. UNCHANGED <<present, phase, job, queue, todo, busy, client, active>>
    BY <1>9 DEF Plug, instVars, lockVars
  <2>2. runtime' = runtime \/ runtime' = [runtime EXCEPT ![p] = None]
    BY <1>9 DEF Plug, TornDown
  <2>3. Mapped'
    BY <1>d, <1>0, <2>1, <2>2
  <2> QED BY <1>a, <1>b, <1>c, <2>1, <2>3 DEF LeftInv
<1>10. ASSUME NEW p, UnlockedEvent(p) PROVE LeftInv'
  <2>1. UNCHANGED <<present, phase, job, queue, todo, busy, client, active, runtime>>
    BY <1>10 DEF UnlockedEvent, lockVars
  <2> QED BY <1>a, <1>b, <1>c, <1>d, <2>1 DEF LeftInv
<1>11. ASSUME NEW j \in Job, j.kind # "dry", Acquire(j), OneAtATime',
              UNCHANGED <<present, runtime>>, client' # "free" \/ UNCHANGED <<client, active>>
       PROVE  LeftInv'
  <2>1. StoredIsMapped'
    BY <1>11 DEF LeftInv, StoredIsMapped
  <2>2. CASE phase = "idle"
    <3>1. phase' # "apply" /\ todo' = {} /\ job' = j
      BY <1>11, <2>2 DEF Acquire, Start
    <3> QED BY <1>11, <2>1, <2>2, <3>1 DEF LeftInv, RemovalsDue, DryApply, Mapped, DryRun, Dry
  <2>3. CASE phase # "idle"
    <3>1. UNCHANGED <<phase, job, todo, busy>>
      BY <1>11, <2>3 DEF Acquire
    <3> QED BY <1>11, <1>b, <1>d, <2>1, <3>1 DEF LeftInv
  <2> QED BY <2>2, <2>3
<1>12. ASSUME NEW c \in NetConfigs, TryApplyConfig(c) PROVE LeftInv'
  <2>1. /\ SetJob(c) \in Job /\ SetJob(c).kind = "set" /\ client = "free" /\ client' = "applying"
        /\ Acquire(SetJob(c)) /\ UNCHANGED <<present, runtime, active>>
    BY <1>12 DEF TryApplyConfig, SetJob, Job, instVars, boxVars
  <2>2. OneAtATime'
    <3>1. Awaiting(SetJob(c), client', active')
      BY <2>1 DEF Awaiting, HasConfig
    <3> QED BY <2>1, <3>1, AcquireMine DEF LeftInv
  <2> QED BY <1>11, <2>1, <2>2
<1>13. ASSUME RollbackConfig PROVE LeftInv'
  <2>1. /\ Rollback(active) \in Job /\ Rollback(active).kind = "rollback"
        /\ Rollback(active).arg = active
        /\ client = "rollbackDue" /\ client' = "rollingBack"
        /\ Acquire(Rollback(active)) /\ UNCHANGED <<present, runtime, active>>
    BY <1>0, <1>13 DEF RollbackConfig, Rollback, Job, instVars, boxVars
  <2>2. OneAtATime'
    <3>1. Awaiting(Rollback(active), client', active')
      BY <2>1 DEF Awaiting, HasConfig
    <3> QED BY <2>1, <3>1, AcquireMine DEF LeftInv
  <2> QED BY <1>11, <2>1, <2>2
<1>14. ASSUME ScheduledReapply PROVE LeftInv'
  <2>1. /\ Effective \in Job /\ ~HasConfig(Effective) /\ Effective.kind # "dry"
        /\ Acquire(Effective) /\ UNCHANGED <<present, runtime, client, active>>
    BY <1>14 DEF ScheduledReapply, Effective, Job, HasConfig, instVars, boxVars
  <2> QED BY <1>11, <2>1, AcquireBare DEF LeftInv
<1>21. ASSUME NEW p \in unseen, Poll(p) \/ Rewatch(p) PROVE LeftInv'
  <2>1. UNCHANGED <<present, runtime, client, active, lockVars>>
    BY <1>21 DEF Poll, Rewatch, instVars, boxVars
  <2> QED BY <1>a, <1>b, <1>c, <1>d, <2>1 DEF LeftInv, lockVars
<1>15. ASSUME NEW p \in unsent, SendEvent(p) PROVE LeftInv'
  <2>1. /\ UNCHANGED <<present, runtime, client, active>> /\ p \in Instance
        /\ Acquire(EventJob(p)) \/ UNCHANGED lockVars
    BY <1>15, EnvironmentAssumption DEF SendEvent, TypeInv, TypeOK, instVars, boxVars
  <2>2. EventJob(p) \in Job /\ ~HasConfig(EventJob(p)) /\ EventJob(p).kind # "dry"
    BY <2>1 DEF EventJob, Job, HasConfig
  <2>3. CASE Acquire(EventJob(p))
    BY <1>11, <2>1, <2>2, <2>3, AcquireBare DEF LeftInv
  <2>4. CASE UNCHANGED lockVars
    BY <1>a, <1>b, <1>c, <1>d, <2>1, <2>4 DEF LeftInv, lockVars
  <2> QED BY <2>1, <2>3, <2>4
<1>16. ASSUME RunEvent PROVE LeftInv'
  <2>1. /\ phase = "event" /\ Release /\ UNCHANGED <<present, runtime, client, active>>
    BY <1>16 DEF RunEvent, boxVars
  <2>2. OneAtATime' /\ ~DryRun'
    BY <2>1, ReleaseMine DEF LeftInv
  <2>3. ~DryRun
    BY <2>1 DEF TypeInv, PhaseWork, DryRun, Dry, IsReapply
  <2>4. Mapped'
    BY <2>1, <2>2, <2>3 DEF LeftInv, Mapped
  <2>5. RemovalsDue' /\ DryApply'
    <3>1. todo' = {}
      BY <2>1 DEF Release, Start
    <3> QED BY <2>2, <3>1 DEF RemovalsDue, DryApply
  <2> QED BY <1>c, <2>1, <2>2, <2>4, <2>5 DEF LeftInv
<1>17. ASSUME Restart PROVE LeftInv'
  <2>1. /\ phase = "idle" /\ client = "free" /\ client' = "applying" /\ phase' = "mark"
        /\ job' = DryJob(active) /\ todo' = {} /\ queue' = <<>>
        /\ UNCHANGED <<runtime, active>>
    BY <1>17 DEF Restart, boxVars
  <2>2. OneAtATime'
    BY <2>1 DEF OneAtATime, Mine, Awaiting, HasConfig, DryJob
  <2>3. Mapped'
    <3>1. \A p \in Instance : runtime[p] # None => active[p] # None
      BY <2>1 DEF LeftInv, Mapped, DryRun, StoredIsMapped
    <3>2. job'.arg = active /\ DryRun'
      BY <2>1 DEF DryJob, DryRun, Dry
    <3> QED BY <2>1, <3>1, <3>2 DEF Mapped
  <2> QED BY <2>1, <2>2, <2>3 DEF LeftInv, RemovalsDue, StoredIsMapped, DryApply
<1>18. CASE UNCHANGED vars
  BY <1>18, <1>a, <1>b, <1>c, <1>d DEF vars, LeftInv
<1>19. ASSUME NEW p \in busy, ApplyOk(p) \/ ApplyDeferred(p) \/ ApplyRejects(p) PROVE LeftInv'
  BY <1>19, <1>7 DEF ApplyOk, ApplyDeferred, ApplyRejects
<1>20. ~ \E p \in todo : FlushRejects(p)
  BY DEF FlushRejects
<1> QED
  BY <1>1, <1>2, <1>3, <1>4, <1>5, <1>6, <1>8, <1>9, <1>10, <1>12, <1>13, <1>14, <1>15,
     <1>16, <1>17, <1>18, <1>19, <1>20, <1>21
     DEF Next, Reapply, Events, Environment

\* As long as no flush() rejects and the service is only stopped in an orderly
\* way, nothing is left in the system of an instance that was removed, whatever
\* apply()s fail, devices go and handlers interfere (plugin_loader.js:187).
THEOREM NothingLeftOver ==
  ASSUME FlushFails = {}, CrashAnytime = FALSE
  PROVE  Spec => []NoLeftover
<1>1. Init => LoadInv /\ OrderInv
  BY ClassAssumption DEF Init, LoadInv, NextKnown, OnTarget, Positions, MarkedOnTarget,
     RemovedByTarget, NextOnTarget, FlushedOnTarget, OrderInv, Turned, BusyFirst,
     Planned, Prepared
<1>2. Init => LeftInv
  <2> SUFFICES ASSUME Init PROVE LeftInv
    OBVIOUS
  <2>1. OneAtATime
    BY DEF Init, OneAtATime, Mine, Awaiting, HasConfig, DryJob
  <2> QED BY <2>1 DEF Init, LeftInv, RemovalsDue, StoredIsMapped, Mapped, DryApply
<1>3. LeftInv => NoLeftover
  BY DEF LeftInv, Mapped, DryRun, NoLeftover
<1>4. QED
  BY <1>1, <1>2, <1>3, InitType, NextType, NextLoad, NextOrder, NextLeft, PTL DEF Spec

-----------------------------------------------------------------------------
(* Convergence and teardown.                                               *)

\* Nothing fails, every handler takes the lock, the service does not die
\* half way.  Each of these can break the convergence (see PluginReapply).
Faultless ==
  /\ FlushFails = {} /\ ApplyFails = {} /\ Unlocked = {}
  /\ CrashAnytime = FALSE

\* Whatever a configuration uses is configured.
Complete ==
  \A c \in NetConfigs, p \in Instance :
    c[p] # None => \A d \in Uses[p][c[p]] : c[d] # None

\* A change that does not tear p down leaves what p uses as it is, or nothing
\* stands on p, as on NAT, and p does not turn its back on a hot-plug device.
Soft(p) == FastFlush[p] \cup InPlace[p]
SoftChanges ==
  \A p \in Instance : \A ch \in Soft(p) :
    /\ \/ Uses[p][ch[1]] = Uses[p][ch[2]]
       \/ \A q \in Instance, v \in CfgVal : p \notin Uses[q][v]
    /\ Uses[p][ch[1]] \cap Hotplug \subseteq Uses[p][ch[2]]

\* An instance that ignores changes of addresses has no fast changes itself,
\* and stands on instances that are not torn down without a change (hostapd
\* stands on interfaces).
BlindChanges ==
  \A h \in IpBlind :
    /\ \A ch \in FastFlush[h] : ch[1] = ch[2]
    /\ \A v, x \in CfgVal : \A d \in Uses[h][v] : <<x, x>> \in Soft(d)

Tame == Faultless /\ Complete /\ SoftChanges /\ BlindChanges

-----------------------------------------------------------------------------
(* What the loader holds.                                                  *)

\* Whatever a reapply is past, or has not come to, is configured as it is to be.
Loaded ==
  \A p \in present :
    \/ phase \in {"idle", "event", "apply"} \/ ~HasConfig(job)
    \/ phase = "mark" /\ Pos[p] \in left
    \/ phase = "flush" /\ p \notin todo
    => cfg[p] = next[p]

\* Whatever is to change is flagged.
Unchanged == \A p \in present : p \in need \/ cfg[p] = next[p]

\* What an instance uses is in the plugin map, but for a moment: the target of
\* the reapply removes it, and it will have configured the instance anew.
Grounded ==
  \A p \in present : cfg[p] # None =>
    \A x \in Uses[p][cfg[p]] :
      \/ x \in present
      \/ /\ phase \in {"mark", "flush"} /\ HasConfig(job)
         /\ job.arg[x] = None /\ Pos[x] \notin left

\* Between two requests the loader holds the stored configuration.
StoredIsNext == client = "free" => \A p \in Instance : next[p] = active[p]

\* A dry run flags whatever it puts into the map.
DryFlags == DryRun => present \subseteq need

\* Whatever is flagged will be applied.
StillDue ==
  phase = "apply" /\ ~DryRun => need \subseteq todo \cup busy /\ busy \subseteq need

HeldInv == Loaded /\ Unchanged /\ Grounded /\ StoredIsNext /\ DryFlags /\ StillDue

\* All that was proved before.
Base == TypeInv /\ LoadInv /\ OrderInv /\ LeftInv

\* The instances are what they are: types.
LEMMA Types ==
  ASSUME TypeInv
  PROVE  /\ present \subseteq Instance /\ need \subseteq present
         /\ todo \subseteq present /\ busy \subseteq present
         /\ cfg \in [Instance -> CfgVal \cup {None}]
         /\ next \in [Instance -> CfgVal \cup {None}]
         /\ runtime \in [Instance -> CfgVal \cup {None}]
         /\ subs \subseteq Instance \X Instance
         /\ job \in Job /\ queue \in Seq(Job)
         /\ active \in NetConfigs
         /\ absent \subseteq Instance /\ unseen \subseteq Instance
         /\ unsent \subseteq Instance /\ missed \subseteq Instance
         /\ stale \subseteq Instance
         /\ phase # "apply" => busy = {}
         /\ left # {} => HasConfig(job)
         /\ phase = "event" => ~IsReapply(job)
         /\ \A p \in Instance : cfg[p] # None => p \in present
  BY EnvironmentAssumption DEF TypeInv, TypeOK, PhaseWork, Configured

\* Whoever marks or removes was given a configuration.
LEMMA MarkTarget ==
  ASSUME Base, phase = "mark", left # {} \/ todo # {}
  PROVE  /\ HasConfig(job) /\ client # "free" /\ job.arg \in NetConfigs
  BY JobArg, Types DEF Base, LeftInv, RemovalsDue, OneAtATime, Mine, Awaiting

\* From the flush phase on the plugin map is that of the target.
LEMMA MapTarget ==
  ASSUME Base, HasConfig(job), phase \in {"flush", "apply"}
  PROVE  /\ \A p \in Instance : p \in present <=> job.arg[p] # None
         /\ \A p \in Instance : next[p] = job.arg[p]
         /\ job.arg \in NetConfigs
  BY JobArg, Types DEF Base, LoadInv, NextKnown, OnTarget, NextOnTarget, OrderInv, Planned

\* The lock is taken over by a job that is not a dry run, or by nobody.
LEMMA ReleaseHolder ==
  ASSUME Base, Release, phase \in {"event", "apply"},
         HasConfig(job) \/ UNCHANGED <<client, active>>
  PROVE  phase' \in {"idle", "event", "mark"} /\ ~DryRun' /\ todo' = {} /\ busy' = {}
  <1>1. ~DryRun'
    BY ReleaseMine DEF Base, LeftInv
  <1> QED BY <1>1 DEF Release, Start

\* The end of a reapply.
LEMMA FinishFacts ==
  ASSUME Base, FinishReapply
  PROVE  /\ phase = "apply" /\ todo = {} /\ busy = {} /\ Release
         /\ phase' \in {"idle", "event", "mark"} /\ ~DryRun' /\ todo' = {} /\ busy' = {}
         /\ UNCHANGED <<present, cfg, next, need, subs, runtime, stale, absent, unseen, unsent, missed>>
         /\ HasConfig(job) \/ UNCHANGED <<client, active>>
         /\ HasConfig(job) /\ client' = "free" => active' = job.arg
<1>1. /\ phase = "apply" /\ todo = {} /\ busy = {} /\ Release
      /\ client' = Answer(errors) /\ active' = Saved(errors)
      /\ UNCHANGED <<present, cfg, next, need, subs, runtime, stale, absent, unseen, unsent, missed>>
  BY DEF FinishReapply, EndReapply, instVars, boxVars, sensorVars
<1>2. HasConfig(job) \/ job.kind = "effective"
  BY <1>1, Types DEF Base, TypeInv, PhaseWork, IsReapply, HasConfig, Job, Effective
<1>3. HasConfig(job) \/ UNCHANGED <<client, active>>
  BY <1>1, <1>2 DEF Answer, Saved
<1>4. HasConfig(job) /\ client' = "free" => active' = job.arg
  BY <1>1 DEF Answer, Saved, Base, LeftInv, OneAtATime, Mine, Awaiting, HasConfig
<1> QED BY <1>1, <1>3, <1>4, ReleaseHolder

\* A configuration in use is the one of the target, whose parts are all there.
LEMMA TargetGrounded ==
  ASSUME Complete, Base, HasConfig(job), phase \in {"flush", "apply"},
         NEW p \in present, NEW x, x \in Uses[p][next[p]]
  PROVE  x \in present
<1>1. /\ p \in Instance /\ job.arg[p] = next[p] /\ job.arg[p] # None
      /\ job.arg \in NetConfigs
  BY MapTarget, Types DEF Base
<1>2. job.arg[x] # None
  BY <1>1 DEF Complete
<1>3. next[p] \in CfgVal
  BY <1>1, Types DEF Base
<1>4. x \in Instance
  BY <1>1, <1>3, ClassAssumption
<1> QED BY <1>2, <1>4, MapTarget

\* Instances that are asked to come in find what they use.
LEMMA LowersThere ==
  ASSUME Base, HeldInv, phase = "apply", NEW p \in present
  PROVE  /\ cfg[p] # None /\ cfg[p] \in CfgVal /\ cfg[p] = next[p]
         /\ Lowers(p) \subseteq present
<1>1. cfg[p] # None /\ cfg[p] = next[p]
  BY DEF Base, OrderInv, Prepared, HeldInv, Loaded
<1>2. cfg[p] \in CfgVal
  BY <1>1, Types DEF Base
<1>3. Lowers(p) \subseteq present
  BY <1>1 DEF HeldInv, Grounded, Lowers
<1> QED BY <1>1, <1>2, <1>3

\* A step outside of reapplies, or between them, leaves the instances alone.
LEMMA HeldAside ==
  ASSUME Base, HeldInv, UNCHANGED <<present, cfg, next>>, need \subseteq need',
         \/ UNCHANGED <<phase, job, left, todo, busy, need>>
         \/ /\ phase \in {"idle", "event"} \/ (phase = "apply" /\ todo = {} /\ busy = {})
            /\ phase' \in {"idle", "event", "mark"} /\ ~DryRun',
         StoredIsNext'
  PROVE  HeldInv'
<1>1. CASE UNCHANGED <<phase, job, left, todo, busy, need>>
  BY <1>1 DEF HeldInv, Loaded, Unchanged, Grounded, DryFlags, StillDue, DryRun, Dry, HasConfig
<1>2. CASE /\ phase \in {"idle", "event"} \/ (phase = "apply" /\ todo = {} /\ busy = {})
           /\ phase' \in {"idle", "event", "mark"} /\ ~DryRun'
  <2>1. \A p \in present : cfg[p] = next[p]
    BY <1>2 DEF HeldInv, Loaded
  <2>2. Loaded' /\ Unchanged'
    BY <2>1 DEF Loaded, Unchanged
  <2>3. Grounded'
    BY <1>2 DEF HeldInv, Grounded
  <2>4. DryFlags' /\ StillDue'
    BY <1>2 DEF DryFlags, StillDue
  <2> QED BY <2>2, <2>3, <2>4 DEF HeldInv
<1> QED BY <1>1, <1>2

\* Marking keeps the loader's view.
LEMMA HeldMark ==
  ASSUME Tame, Base, HeldInv, NEW k \in left, MarkClass(k)
  PROVE  HeldInv'
<1> USE ConfigAssumption, ClassAssumption
<1> DEFINE wanted == {p \in Instance : Pos[p] = k /\ job.arg[p] # None}
<1>1. /\ present' = present \cup wanted
      /\ next' = [p \in Instance |-> IF p \in wanted THEN job.arg[p] ELSE next[p]]
      /\ need' = need \cup UNION {Told(p, job.arg[p]) : p \in wanted}
      /\ left' = left \ {k}
      /\ phase = "mark" /\ UNCHANGED <<phase, job, cfg, client, active>>
  <2>1. {p \in {q \in Instance : Pos[q] = k} : job.arg[p] # None} = wanted
    OBVIOUS
  <2> HIDE DEF wanted
  <2> QED BY <2>1 DEF MarkClass
<1>2. HasConfig(job) /\ client # "free"
  BY <1>1, MarkTarget
<1>3. \A p \in wanted : p \in need' \/ cfg[p] = job.arg[p]
  <2> SUFFICES ASSUME NEW p \in wanted, cfg[p] # job.arg[p] PROVE p \in need'
    OBVIOUS
  <2>0. p \in Instance /\ cfg[p] \in CfgVal \cup {None} /\ job.arg[p] # None
    BY Types DEF Base
  <2>1. p \in Told(p, job.arg[p])
    <3>1. CASE cfg[p] = None
      BY <2>0, <3>1, DownSelf DEF Told, Reached
    <3>2. CASE cfg[p] # None
      <4>1. Told(p, job.arg[p]) = Reached(p, IsFull(p, cfg[p], job.arg[p]))
        BY <3>2 DEF Told
      <4>2. IsFull(p, cfg[p], job.arg[p]) \/ p \notin IpBlind
        <5>1. p \in IpBlind => \A ch \in FastFlush[p] : ch[1] = ch[2]
          BY DEF Tame, BlindChanges
        <5> QED BY <5>1 DEF IsFull
      <4> QED BY <2>0, <4>1, <4>2, DownSelf DEF Reached
    <3> QED BY <3>1, <3>2
  <2> HIDE DEF wanted
  <2> QED BY <1>1, <2>1
<1>4. Loaded'
  <2> SUFFICES ASSUME NEW p \in present', Pos[p] \in left' PROVE cfg'[p] = next'[p]
    BY <1>1, <1>2 DEF Loaded, HasConfig
  <2>1. p \in present /\ p \notin wanted /\ p \in Instance /\ Pos[p] \in left
    BY <1>1, Types DEF Base
  <2> HIDE DEF wanted
  <2> QED BY <1>1, <2>1 DEF HeldInv, Loaded
<1>5. Unchanged'
  <2> SUFFICES ASSUME NEW p \in present' PROVE p \in need' \/ cfg[p] = next'[p]
    BY <1>1 DEF Unchanged
  <2>1. p \in Instance
    BY <1>1, Types DEF Base
  <2>2. CASE p \in wanted
    <3> HIDE DEF wanted
    <3> QED BY <1>1, <1>3, <2>1, <2>2
  <2>3. CASE p \notin wanted
    <3> HIDE DEF wanted
    <3> QED BY <1>1, <2>1, <2>3 DEF HeldInv, Unchanged
  <2> QED BY <2>2, <2>3
<1>6. Grounded'
  <2> SUFFICES ASSUME NEW p \in present', cfg[p] # None, NEW x \in Uses[p][cfg[p]],
                      x \notin present'
               PROVE  job.arg[x] = None /\ Pos[x] \notin left'
    BY <1>1, <1>2 DEF Grounded, HasConfig
  <2>1. p \in present
    BY <1>1, Types DEF Base
  <2>2. x \notin present
    BY <1>1
  <2> HIDE DEF wanted
  <2> QED BY <1>1, <2>1, <2>2 DEF HeldInv, Grounded
<1>7. DryFlags'
  <2> SUFFICES ASSUME DryRun, NEW p \in present' PROVE p \in need'
    BY <1>1 DEF DryFlags, DryRun, Dry
  <2>1. CASE p \in present
    BY <1>1, <2>1 DEF HeldInv, DryFlags
  <2>2. CASE p \notin present
    <3>1. p \in wanted /\ cfg[p] = None /\ job.arg[p] # None
      BY <1>1, <2>2, Types DEF Base
    <3> HIDE DEF wanted
    <3> QED BY <1>3, <3>1
  <2> QED BY <2>1, <2>2
<1> QED BY <1>1, <1>2, <1>4, <1>5, <1>6, <1>7 DEF HeldInv, StoredIsNext, StillDue

\* Removing does.
LEMMA HeldRemove ==
  ASSUME Tame, Base, HeldInv, NEW p \in todo, Remove(p)
  PROVE  HeldInv'
<1> USE ConfigAssumption, ClassAssumption
<1>1. /\ present' = present \ {p}
      /\ cfg' = [cfg EXCEPT ![p] = None] /\ next' = [next EXCEPT ![p] = None]
      /\ need' = (need \cup Reached(p, TRUE)) \ {p}
      /\ phase = "mark" /\ UNCHANGED <<phase, job, left, client, active>>
  BY DEF Remove
<1>2. HasConfig(job) /\ client # "free"
  BY <1>1, MarkTarget
<1>3. /\ p \in Instance /\ job.arg[p] = None /\ Pos[p] \notin left
  BY <1>1, <1>2, Types DEF Base, LoadInv, OnTarget, RemovedByTarget
<1>4. \A q \in present' : /\ q \in present /\ q \in Instance /\ cfg'[q] = cfg[q]
                          /\ next'[q] = next[q] /\ (q \in need => q \in need')
  BY <1>1, Types DEF Base
<1>5. Loaded' /\ Unchanged'
  BY <1>1, <1>2, <1>4 DEF HeldInv, Loaded, Unchanged, HasConfig
<1>6. Grounded'
  <2> SUFFICES ASSUME NEW q \in present', cfg'[q] # None, NEW x \in Uses[q][cfg'[q]],
                      x \notin present'
               PROVE  job.arg[x] = None /\ Pos[x] \notin left
    BY <1>1, <1>2 DEF Grounded, HasConfig
  <2>1. x = p \/ x \notin present
    BY <1>1
  <2> QED BY <1>3, <1>4, <2>1 DEF HeldInv, Grounded
<1> QED BY <1>1, <1>2, <1>4, <1>5, <1>6 DEF HeldInv, StoredIsNext, StillDue, DryFlags, DryRun, Dry

\* Flushing does.
LEMMA HeldFlush ==
  ASSUME Tame, Base, HeldInv, NEW p \in todo, Flush(p)
  PROVE  HeldInv'
<1> USE ConfigAssumption, ClassAssumption
<1>1. /\ phase = "flush" /\ todo' = todo \ {p}
      /\ cfg' = [cfg EXCEPT ![p] = IF HasConfig(job) THEN next[p] ELSE FlushConfig(p)]
      /\ UNCHANGED <<present, next, need, phase, job, left, client, active>>
  BY DEF Flush, FlushTurn
<1>2. p \in Instance /\ p \in present /\ next[p] # None /\ cfg \in [Instance -> CfgVal \cup {None}]
  BY Types DEF Base, OrderInv, Planned
<1>3. ~HasConfig(job) => cfg[p] = next[p]
  BY <1>2 DEF HeldInv, Loaded
<1>4. cfg' = [cfg EXCEPT ![p] = next[p]]
  BY <1>1, <1>2, <1>3 DEF FlushConfig
<1>5. \A q \in present : q \in Instance /\ cfg'[q] = IF q = p THEN next[p] ELSE cfg[q]
  BY <1>2, <1>4, Types DEF Base
<1>6. Loaded'
  <2> SUFFICES ASSUME NEW q \in present, ~HasConfig(job) \/ q \notin todo' PROVE cfg'[q] = next[q]
    BY <1>1 DEF Loaded, HasConfig
  <2>1. CASE q = p
    BY <1>5, <2>1
  <2>2. CASE q # p
    BY <1>1, <1>5, <2>2 DEF HeldInv, Loaded
  <2> QED BY <2>1, <2>2
<1>7. Unchanged'
  BY <1>1, <1>5 DEF HeldInv, Unchanged
<1>8. Grounded'
  <2> SUFFICES ASSUME NEW q \in present, cfg'[q] # None, NEW x \in Uses[q][cfg'[q]], x \notin present
               PROVE  HasConfig(job) /\ job.arg[x] = None /\ Pos[x] \notin left
    BY <1>1 DEF Grounded, HasConfig
  <2>1. CASE cfg'[q] = cfg[q]
    BY <1>1, <2>1 DEF HeldInv, Grounded
  <2>2. CASE cfg'[q] # cfg[q]
    <3>1. q = p /\ HasConfig(job) /\ x \in Uses[p][next[p]]
      BY <1>3, <1>5, <2>2
    <3> QED BY <1>1, <1>2, <3>1, TargetGrounded DEF Tame
  <2> QED BY <2>1, <2>2
<1> QED BY <1>1, <1>6, <1>7, <1>8 DEF HeldInv, StoredIsNext, StillDue, DryFlags, DryRun, Dry

\* The turns from one pass to the next do.
LEMMA HeldTurns ==
  ASSUME Tame, Base, HeldInv, StartFlush \/ StartApply
  PROVE  HeldInv'
<1>1. CASE StartFlush
  <2>1. /\ phase = "mark" /\ phase' = "flush" /\ left = {} /\ todo' = present
        /\ UNCHANGED <<present, cfg, next, need, job, left, client, active>>
    BY <1>1 DEF StartFlush, instVars
  <2>2. Loaded'
    BY <2>1 DEF HeldInv, Loaded, HasConfig
  <2>3. Grounded'
    BY <2>1 DEF HeldInv, Grounded, HasConfig
  <2> QED BY <2>1, <2>2, <2>3
          DEF HeldInv, Unchanged, StoredIsNext, DryFlags, StillDue, DryRun, Dry
<1>2. CASE StartApply
  <2>1. /\ phase = "flush" /\ phase' = "apply" /\ todo = {}
        /\ todo' = (IF Dry THEN {} ELSE present)
        /\ UNCHANGED <<present, cfg, next, need, job, left, busy, client, active>>
    BY <1>2 DEF StartApply, instVars
  <2>2. \A p \in present : cfg[p] = next[p]
    BY <2>1 DEF HeldInv, Loaded
  <2>3. Grounded'
    <3> SUFFICES ASSUME NEW p \in present, cfg[p] # None, NEW x \in Uses[p][cfg[p]]
                 PROVE  x \in present
      BY <2>1 DEF Grounded
    <3>1. CASE HasConfig(job)
      BY <2>1, <2>2, <3>1, TargetGrounded DEF Tame
    <3>2. CASE ~HasConfig(job)
      BY <3>2 DEF HeldInv, Grounded
    <3> QED BY <3>1, <3>2
  <2>4. StillDue'
    <3>1. busy = {} /\ need \subseteq present
      BY <2>1, Types DEF Base
    <3>2. ~DryRun' => todo' = present
      BY <2>1 DEF DryRun, Dry
    <3> QED BY <2>1, <3>1, <3>2 DEF StillDue, Base, TypeInv, TypeOK, HeldInv
  <2> QED BY <2>1, <2>2, <2>3, <2>4
          DEF HeldInv, Loaded, Unchanged, StoredIsNext, DryFlags, DryRun, Dry
<1> QED BY <1>1, <1>2

\* Applying does.
LEMMA HeldApply ==
  ASSUME Tame, Base, HeldInv,
         \/ \E S \in SUBSET todo : ApplyStart(S)
         \/ \E p \in busy : Applied(p)
  PROVE  HeldInv'
<1>1. CASE \E S \in SUBSET todo : ApplyStart(S)
  <2>1. PICK S \in SUBSET todo : ApplyStart(S)
    BY <1>1
  <2>2. /\ phase = "apply" /\ busy = {} /\ todo' = todo \ S /\ busy' = S \cap need
        /\ UNCHANGED <<present, cfg, next, need, phase, job, left, client, active>>
    BY <2>1 DEF ApplyStart, instVars
  <2>3. StillDue'
    BY <2>2 DEF HeldInv, StillDue, DryRun, Dry
  <2> QED BY <2>2, <2>3 DEF HeldInv, Loaded, Unchanged, Grounded, StoredIsNext,
          DryFlags, DryRun, Dry, HasConfig
<1>2. CASE \E p \in busy : Applied(p)
  <2>1. PICK p \in busy : Applied(p)
    BY <1>2
  <2>2. /\ phase = "apply" /\ todo' = todo /\ busy' = busy \ {p} /\ need' = need \ {p}
        /\ UNCHANGED <<present, cfg, next, phase, job, left, client, active>>
    BY <2>1, Types DEF Applied, Base
  <2>3. ~DryRun
    BY <2>2 DEF Base, LeftInv, DryApply
  <2>4. \A q \in present : cfg[q] = next[q]
    BY <2>2 DEF HeldInv, Loaded
  <2>5. Loaded' /\ Unchanged'
    BY <2>2, <2>4 DEF Loaded, Unchanged
  <2>6. Grounded' /\ StoredIsNext'
    BY <2>2 DEF HeldInv, Grounded, StoredIsNext
  <2>7. DryFlags' /\ StillDue'
    BY <2>2, <2>3 DEF HeldInv, DryFlags, StillDue, DryRun, Dry
  <2> QED BY <2>5, <2>6, <2>7 DEF HeldInv
<1> QED BY <1>1, <1>2

\* No apply() is rejected.
LEMMA NoneRejected ==
  ASSUME Tame, Base, HeldInv
  PROVE  /\ ~ \E p \in todo : FlushRejects(p)
         /\ ~ \E p \in busy : ApplyRejects(p)
<1>1. ~ \E p \in todo : FlushRejects(p)
  BY DEF FlushRejects, Tame, Faultless
<1>2. ASSUME NEW p \in busy, ApplyRejects(p) PROVE FALSE
  <2>1. p \in present /\ phase = "apply"
    BY Types DEF Base
  <2>2. Lowers(p) \subseteq present /\ p \notin ApplyFails
    BY <2>1, LowersThere DEF Tame, Faultless
  <2> QED BY <1>2, <2>2 DEF ApplyRejects
<1> QED BY <1>1, <1>2

\* To ask for the lock starts the job or leaves the holder alone.
LEMMA AcquireHolder ==
  ASSUME NEW j, j.kind # "dry", Acquire(j)
  PROVE  \/ UNCHANGED <<phase, job, left, todo, busy>>
         \/ /\ phase = "idle" /\ phase' \in {"event", "mark"} /\ ~DryRun'
            /\ todo' = {} /\ busy' = {}
<1>1. CASE phase = "idle"
  BY <1>1 DEF Acquire, Start, DryRun, Dry
<1>2. CASE phase # "idle"
  BY <1>2 DEF Acquire
<1> QED BY <1>1, <1>2

\* All other steps, in one form each.
LEMMA AsideFacts ==
  ASSUME Tame, Base,
         \/ \E c \in NetConfigs : TryApplyConfig(c)
         \/ RollbackConfig \/ ScheduledReapply
         \/ \E p \in unsent : SendEvent(p)
         \/ \E p \in unseen : Poll(p) \/ Rewatch(p)
         \/ \E p \in Hotplug : Plug(p)
         \/ UNCHANGED vars
  PROVE  /\ UNCHANGED <<present, cfg, next, need, subs>>
         /\ UNCHANGED active
         /\ client' # "free" \/ UNCHANGED client
         /\ \/ UNCHANGED <<phase, job, left, todo, busy>>
            \/ /\ phase = "idle" /\ phase' \in {"event", "mark"} /\ ~DryRun'
               /\ todo' = {} /\ busy' = {}
         /\ UNCHANGED <<runtime, stale, absent>> \/ \E p \in Hotplug : Plug(p)
<1>1. CASE \E c \in NetConfigs : TryApplyConfig(c)
  <2>1. PICK c \in NetConfigs : TryApplyConfig(c)
    BY <1>1
  <2>2. SetJob(c).kind # "dry"
    BY DEF SetJob
  <2> QED BY <2>1, <2>2, AcquireHolder DEF TryApplyConfig, instVars, boxVars
<1>2. CASE RollbackConfig
  <2>1. Rollback(active).kind # "dry"
    BY DEF Rollback
  <2> QED BY <1>2, <2>1, AcquireHolder DEF RollbackConfig, instVars, boxVars
<1>3. CASE ScheduledReapply
  <2>1. Effective.kind # "dry"
    BY DEF Effective
  <2> QED BY <1>3, <2>1, AcquireHolder DEF ScheduledReapply, instVars, boxVars
<1>4. CASE \E p \in unsent : SendEvent(p)
  <2>1. PICK p \in unsent : SendEvent(p)
    BY <1>4
  <2>2. EventJob(p).kind # "dry"
    BY DEF EventJob
  <2>3. Acquire(EventJob(p)) \/ UNCHANGED lockVars
    BY <2>1 DEF SendEvent
  <2>4. \/ UNCHANGED <<phase, job, left, todo, busy>>
        \/ /\ phase = "idle" /\ phase' \in {"event", "mark"} /\ ~DryRun'
           /\ todo' = {} /\ busy' = {}
    BY <2>2, <2>3, AcquireHolder DEF lockVars
  <2> QED BY <2>1, <2>4 DEF SendEvent, instVars, boxVars
<1>5. CASE \E p \in Hotplug : Plug(p)
  BY <1>5 DEF Plug, instVars, lockVars
<1>6. CASE UNCHANGED vars
  BY <1>6 DEF vars
<1>7. CASE \E p \in unseen : Poll(p) \/ Rewatch(p)
  BY <1>7 DEF Poll, Rewatch, instVars, lockVars, boxVars
<1> QED BY <1>1, <1>2, <1>3, <1>4, <1>5, <1>6, <1>7

\* The steps there are.
LEMMA StepKinds ==
  ASSUME Tame, Base, HeldInv, [Next]_vars
  PROVE  \/ \E k \in left : MarkClass(k)
         \/ \E p \in todo : Remove(p)
         \/ \E p \in todo : Flush(p)
         \/ StartFlush \/ StartApply
         \/ \E S \in SUBSET todo : ApplyStart(S)
         \/ \E p \in busy : ApplyOk(p)
         \/ \E p \in busy : ApplyDeferred(p)
         \/ FinishReapply \/ RunEvent \/ Restart
         \/ \/ \E c \in NetConfigs : TryApplyConfig(c)
            \/ RollbackConfig \/ ScheduledReapply
            \/ \E p \in unsent : SendEvent(p)
            \/ \E p \in unseen : Poll(p) \/ Rewatch(p)
            \/ \E p \in Hotplug : Plug(p)
            \/ UNCHANGED vars
  BY NoneRejected DEF Next, Reapply, Events, Environment, Tame, Faultless

\* Every step keeps what the loader holds.
LEMMA NextHeld == Tame => (Base /\ HeldInv /\ [Next]_vars => HeldInv')
<1> SUFFICES ASSUME Tame, Base, HeldInv, [Next]_vars PROVE HeldInv'
  OBVIOUS
<1>1. CASE FinishReapply
  <2>1. StoredIsNext'
    <3>1. CASE HasConfig(job)
      <4>1. client' = "free" => active' = job.arg
        BY <1>1, <3>1, FinishFacts
      <4>2. \A p \in Instance : next'[p] = job.arg[p]
        BY <1>1, <3>1, FinishFacts, MapTarget
      <4> QED BY <4>1, <4>2 DEF StoredIsNext
    <3>2. CASE ~HasConfig(job)
      BY <1>1, <3>2, FinishFacts DEF HeldInv, StoredIsNext
    <3> QED BY <3>1, <3>2
  <2> QED BY <1>1, <2>1, FinishFacts, HeldAside
<1>2. CASE RunEvent
  <2>1. /\ phase = "event" /\ Release /\ need \subseteq need'
        /\ UNCHANGED <<present, cfg, next, client, active>>
    BY <1>2 DEF RunEvent
  <2>2. StoredIsNext'
    BY <2>1 DEF HeldInv, StoredIsNext
  <2> QED BY <2>1, <2>2, ReleaseHolder, HeldAside
<1>3. CASE Restart
  <2>1. /\ present' = {} /\ phase' = "mark" /\ client' = "applying"
    BY <1>3 DEF Restart
  <2> QED BY <2>1 DEF HeldInv, Loaded, Unchanged, Grounded, StoredIsNext, DryFlags, StillDue
<1>4. CASE \/ \E c \in NetConfigs : TryApplyConfig(c)
           \/ RollbackConfig \/ ScheduledReapply
           \/ \E p \in unsent : SendEvent(p)
           \/ \E p \in unseen : Poll(p) \/ Rewatch(p)
           \/ \E p \in Hotplug : Plug(p)
           \/ UNCHANGED vars
  <2>1. StoredIsNext'
    BY <1>4, AsideFacts DEF HeldInv, StoredIsNext
  <2> QED BY <1>4, <2>1, AsideFacts, HeldAside
<1>5. CASE (\E p \in busy : ApplyOk(p)) \/ (\E p \in busy : ApplyDeferred(p))
  BY <1>5, HeldApply DEF ApplyOk, ApplyDeferred
<1> QED BY <1>1, <1>2, <1>3, <1>4, <1>5, StepKinds, HeldMark, HeldRemove, HeldFlush,
           HeldTurns, HeldApply

-----------------------------------------------------------------------------
(* What is in the system.                                                  *)

\* the instances that are flushed and yet to be applied
Flushed(p) == p \in need /\ (phase = "apply" \/ (phase = "flush" /\ p \notin todo))

\* An instance is built with its configuration, or not at all; one that was
\* flushed may still have been built with a configuration that the new one
\* takes over.  Before a dry run it is the stored configuration.
TakeOver ==
  \A p \in Instance :
    IF DryRun THEN runtime[p] \in {None, job.arg[p]}
    ELSE p \in present => IF Flushed(p) THEN runtime[p] = None \/ <<runtime[p], cfg[p]>> \in Soft(p)
                          ELSE runtime[p] \in {None, cfg[p]}

\* A device that is not there runs nothing.
AbsentDown == \A p \in absent : runtime[p] = None

BuiltInv == TakeOver /\ AbsentDown

\* Outside of flush and apply passes all is built as configured, or not at all.
LEMMA BuiltAtRest ==
  ASSUME Base, HeldInv, BuiltInv, NEW p \in present, ~DryRun, ~Flushed(p)
  PROVE  runtime[p] \in {None, cfg[p]}
  BY Types DEF Base, BuiltInv, TakeOver

\* A step that builds nothing and keeps the passes keeps what is built.
LEMMA BuiltAside ==
  ASSUME Base, HeldInv, BuiltInv, UNCHANGED <<present, cfg, phase, job, todo, need>>,
         \A p \in Instance : runtime'[p] \in {None, runtime[p]},
         \A p \in absent' : runtime'[p] = None
  PROVE  BuiltInv'
<1>1. ASSUME NEW p \in Instance
      PROVE  IF DryRun THEN runtime'[p] \in {None, job.arg[p]}
             ELSE p \in present => IF Flushed(p) THEN runtime'[p] = None \/ <<runtime'[p], cfg[p]>> \in Soft(p)
                                   ELSE runtime'[p] \in {None, cfg[p]}
  BY DEF BuiltInv, TakeOver
<1>2. (DryRun' <=> DryRun) /\ \A p : Flushed(p)' <=> Flushed(p)
  BY DEF DryRun, Dry, Flushed
<1>3. TakeOver'
  BY <1>1, <1>2 DEF TakeOver
<1> QED BY <1>3 DEF BuiltInv, AbsentDown

\* When a job ends or starts nothing is flushed.
LEMMA BuiltBetween ==
  ASSUME Base, HeldInv, BuiltInv, UNCHANGED <<present, cfg, runtime, absent>>,
         phase' \in {"idle", "event", "mark"}, ~DryRun',
         phase \in {"idle", "event"} \/ (phase = "apply" /\ todo = {} /\ busy = {})
  PROVE  BuiltInv'
<1>1. ASSUME NEW p \in Instance, p \in present PROVE runtime[p] \in {None, cfg[p]}
  <2>1. CASE DryRun /\ phase = "apply"
    <3>1. HasConfig(job)
      BY <2>1 DEF DryRun, Dry, HasConfig
    <3>2. cfg[p] = job.arg[p]
      BY <2>1, <3>1 DEF Base, LoadInv, OnTarget, FlushedOnTarget
    <3> QED BY <2>1, <3>2 DEF BuiltInv, TakeOver
  <2>2. CASE DryRun /\ phase # "apply"
    <3>1. phase = "event" /\ job.kind = "dry"
      BY <2>2 DEF DryRun, Dry
    <3>2. job.kind = "event"
      BY <3>1, Types DEF Base, IsReapply
    <3> QED BY <3>1, <3>2
  <2>3. CASE ~DryRun
    <3>1. ~Flushed(p)
      BY <2>3 DEF HeldInv, StillDue, Flushed
    <3> QED BY <1>1, <2>3, <3>1, BuiltAtRest
  <2> QED BY <2>1, <2>2, <2>3
<1>2. \A p : ~Flushed(p)'
  BY DEF Flushed
<1>3. TakeOver'
  BY <1>1, <1>2 DEF TakeOver
<1> QED BY <1>3 DEF BuiltInv, AbsentDown

\* Every step keeps what is built.
LEMMA NextBuilt == Tame => (Base /\ HeldInv /\ BuiltInv /\ [Next]_vars => BuiltInv')
<1> USE ConfigAssumption, ClassAssumption
<1> SUFFICES ASSUME Tame, Base, HeldInv, BuiltInv, [Next]_vars PROVE BuiltInv'
  OBVIOUS
<1>0. /\ runtime \in [Instance -> CfgVal \cup {None}] /\ cfg \in [Instance -> CfgVal \cup {None}]
      /\ present \subseteq Instance /\ todo \subseteq present /\ busy \subseteq present
      /\ need \subseteq present /\ absent \subseteq Instance
  BY Types DEF Base
<1>1. ASSUME NEW k \in left, MarkClass(k) PROVE BuiltInv'
  <2>1. /\ phase = "mark" /\ present \subseteq present'
        /\ UNCHANGED <<phase, job, cfg, runtime, absent>>
    BY <1>1 DEF MarkClass, boxVars
  <2>2. \A p \in Instance : p \notin present /\ ~DryRun => runtime[p] = None
    BY DEF Base, LeftInv, Mapped
  <2>3. \A p \in Instance : p \in present /\ ~DryRun => runtime[p] \in {None, cfg[p]}
    BY <2>1 DEF BuiltInv, TakeOver, Flushed
  <2>4. (DryRun' <=> DryRun) /\ \A p : ~Flushed(p)'
    BY <2>1 DEF DryRun, Dry, Flushed
  <2>5. TakeOver'
    BY <2>1, <2>2, <2>3, <2>4 DEF TakeOver, BuiltInv
  <2> QED BY <2>1, <2>5 DEF BuiltInv, AbsentDown
<1>2. ASSUME NEW p \in todo, Remove(p) PROVE BuiltInv'
  <2>1. /\ phase = "mark" /\ present' = present \ {p} /\ cfg' = [cfg EXCEPT ![p] = None]
        /\ UNCHANGED <<phase, job, absent>>
    BY <1>2 DEF Remove
  <2>2. runtime' = runtime \/ runtime' = [runtime EXCEPT ![p] = None]
    BY <1>2 DEF Remove, RemoveBox, TornDown
  <2>3. \A q \in Instance : runtime'[q] \in {None, runtime[q]}
    BY <1>0, <2>2
  <2>4. (DryRun' <=> DryRun) /\ \A q : ~Flushed(q)' /\ ~Flushed(q)
    BY <2>1 DEF DryRun, Dry, Flushed
  <2>5. TakeOver'
    <3> SUFFICES ASSUME NEW q \in Instance
                 PROVE  IF DryRun THEN runtime'[q] \in {None, job.arg[q]}
                        ELSE q \in present' => runtime'[q] \in {None, cfg'[q]}
      BY <2>1, <2>4 DEF TakeOver
    <3>1. q \in present' => q \in present /\ cfg'[q] = cfg[q]
      BY <1>0, <2>1
    <3> QED BY <2>3, <2>4, <3>1 DEF BuiltInv, TakeOver
  <2> QED BY <1>0, <2>1, <2>3, <2>5 DEF BuiltInv, AbsentDown
<1>3. ASSUME StartFlush PROVE BuiltInv'
  <2>1. /\ phase = "mark" /\ phase' = "flush" /\ todo' = present
        /\ UNCHANGED <<present, job, cfg, need, runtime, absent>>
    BY <1>3 DEF StartFlush, boxVars, instVars
  <2>2. (DryRun' <=> DryRun) /\ \A p \in present : ~Flushed(p)' /\ ~Flushed(p)
    BY <2>1 DEF DryRun, Dry, Flushed
  <2>3. TakeOver'
    BY <2>1, <2>2 DEF BuiltInv, TakeOver
  <2> QED BY <2>1, <2>3 DEF BuiltInv, AbsentDown
<1>4. ASSUME NEW p \in todo, Flush(p) PROVE BuiltInv'
  <2>1. /\ phase = "flush" /\ todo' = todo \ {p}
        /\ UNCHANGED <<present, next, phase, job, need, absent>>
    BY <1>4 DEF Flush, FlushTurn
  <2>2. p \in present /\ p \in Instance /\ ~Flushed(p) /\ next[p] # None
    BY <1>0, <2>1 DEF Flushed, Base, OrderInv, Planned, TypeInv, PhaseWork
  <2>3. cfg' = [cfg EXCEPT ![p] = next[p]]
    <3>1. ~HasConfig(job) => cfg[p] = next[p]
      BY <2>2 DEF HeldInv, Loaded
    <3> QED BY <1>4, <2>2, <3>1 DEF Flush, FlushConfig
  <2>4. runtime' = runtime \/ runtime' = [runtime EXCEPT ![p] = None]
    BY <1>4 DEF Flush, FlushBox, AddressesGone, TornDown
  <2>5. \A q \in Instance : runtime'[q] \in {None, runtime[q]} /\ (q # p => runtime'[q] = runtime[q])
    BY <1>0, <2>4
  <2>6. DryRun' <=> DryRun
    BY <2>1 DEF DryRun, Dry
  <2>7. \A q \in Instance : q # p => (Flushed(q)' <=> Flushed(q)) /\ cfg'[q] = cfg[q]
    BY <1>0, <2>1, <2>3 DEF Flushed
  <2>8. ~DryRun => IF Flushed(p)' THEN runtime'[p] = None \/ <<runtime'[p], next[p]>> \in Soft(p)
                   ELSE runtime'[p] \in {None, next[p]}
    <3> SUFFICES ASSUME ~DryRun PROVE IF Flushed(p)' THEN runtime'[p] = None \/ <<runtime'[p], next[p]>> \in Soft(p)
                   ELSE runtime'[p] \in {None, next[p]}
      OBVIOUS
    <3>1. runtime[p] \in {None, cfg[p]}
      BY <2>2, BuiltAtRest
    <3>2. CASE p \in need
      <4>1. Flushed(p)'
        BY <2>1, <3>2 DEF Flushed
      <4>2. ~Dry
        BY <2>1 DEF DryRun
      <4>3. FlushBox(p)
        BY <1>4, <3>2 DEF Flush
      <4>4. runtime'[p] = None \/ (runtime'[p] = runtime[p] /\ FlushChange(p) \in Soft(p))
        BY <1>0, <2>2, <4>2, <4>3 DEF FlushBox, AddressesGone, TornDown, Soft
      <4>5. runtime[p] = None \/ FlushChange(p) = <<runtime[p], next[p]>>
        BY <3>1 DEF FlushChange, FlushConfig
      <4> QED BY <4>1, <4>4, <4>5
    <3>3. CASE p \notin need
      <4>1. ~Flushed(p)' /\ cfg[p] = next[p]
        BY <2>1, <2>2, <3>3 DEF Flushed, HeldInv, Unchanged
      <4> QED BY <2>2, <2>5, <3>1, <4>1
    <3> QED BY <3>2, <3>3
  <2>9. TakeOver'
    <3> SUFFICES ASSUME NEW q \in Instance
                 PROVE  IF DryRun THEN runtime'[q] \in {None, job.arg[q]}
                        ELSE q \in present => IF Flushed(q)' THEN runtime'[q] = None \/ <<runtime'[q], cfg'[q]>> \in Soft(q)
                                              ELSE runtime'[q] \in {None, cfg'[q]}
      BY <2>1, <2>6 DEF TakeOver
    <3>1. CASE q = p
      <4>1. cfg'[q] = next[p]
        BY <1>0, <2>2, <2>3, <3>1
      <4> QED BY <2>5, <2>8, <3>1, <4>1 DEF BuiltInv, TakeOver
    <3>2. CASE q # p
      BY <2>5, <2>7, <3>2 DEF BuiltInv, TakeOver
    <3> QED BY <3>1, <3>2
  <2> QED BY <1>0, <2>1, <2>5, <2>9 DEF BuiltInv, AbsentDown
<1>5. ASSUME StartApply PROVE BuiltInv'
  <2>1. /\ phase = "flush" /\ phase' = "apply" /\ todo = {}
        /\ UNCHANGED <<present, job, cfg, need, runtime, absent>>
    BY <1>5 DEF StartApply, boxVars, instVars
  <2>2. (DryRun' <=> DryRun) /\ \A p : Flushed(p)' <=> Flushed(p)
    BY <2>1 DEF DryRun, Dry, Flushed
  <2>3. TakeOver'
    BY <2>1, <2>2 DEF BuiltInv, TakeOver
  <2> QED BY <2>1, <2>3 DEF BuiltInv, AbsentDown
<1>6. ASSUME NEW S \in SUBSET todo, ApplyStart(S) PROVE BuiltInv'
  <2>1. /\ phase = "apply"
        /\ UNCHANGED <<present, phase, job, cfg, need, runtime, absent>>
    BY <1>6 DEF ApplyStart, instVars
  <2>2. (DryRun' <=> DryRun) /\ \A p : Flushed(p)' <=> Flushed(p)
    BY <2>1 DEF DryRun, Dry, Flushed
  <2>3. TakeOver'
    BY <2>1, <2>2 DEF BuiltInv, TakeOver
  <2> QED BY <2>1, <2>3 DEF BuiltInv, AbsentDown
<1>7. ASSUME NEW p \in busy, ApplyOk(p) \/ ApplyDeferred(p) PROVE BuiltInv'
  <2>1. /\ phase = "apply" /\ need' = need \ {p} /\ p \in present /\ p \in Instance
        /\ UNCHANGED <<present, phase, job, cfg, absent>>
    BY <1>0, <1>7, Types DEF ApplyOk, ApplyDeferred, Applied, Base
  <2>2. ~DryRun /\ ~DryRun' /\ p \in need
    BY <2>1 DEF Base, LeftInv, DryApply, HeldInv, StillDue, DryRun, Dry
  <2>3. Flushed(p) /\ ~Flushed(p)' /\ \A q : q # p => (Flushed(q)' <=> Flushed(q))
    BY <2>1, <2>2 DEF Flushed
  <2>4. runtime'[p] \in {None, cfg[p]} /\ \A q \in Instance : q # p => runtime'[q] = runtime[q]
    <3>1. CASE ApplyOk(p)
      <4>1. Fits(p)
        BY <2>1, <2>2, <2>3 DEF BuiltInv, TakeOver, Fits, Soft
      <4>2. runtime' = [runtime EXCEPT ![p] = cfg[p]]
        BY <3>1, <4>1 DEF ApplyOk
      <4> QED BY <1>0, <2>1, <4>2
    <3>2. CASE ApplyDeferred(p)
      BY <3>2 DEF ApplyDeferred, BuiltInv, AbsentDown
    <3> QED BY <1>7, <3>1, <3>2
  <2>5. TakeOver'
    <3> SUFFICES ASSUME NEW q \in Instance, q \in present
                 PROVE  IF Flushed(q)' THEN runtime'[q] = None \/ <<runtime'[q], cfg[q]>> \in Soft(q)
                        ELSE runtime'[q] \in {None, cfg[q]}
      BY <2>1, <2>2 DEF TakeOver
    <3>1. CASE q = p
      BY <2>3, <2>4, <3>1
    <3>2. CASE q # p
      BY <2>2, <2>3, <2>4, <3>2 DEF BuiltInv, TakeOver
    <3> QED BY <3>1, <3>2
  <2>6. AbsentDown'
    <3>1. p \in absent => ApplyDeferred(p)
      BY <1>7 DEF ApplyOk
    <3>2. ApplyDeferred(p) => runtime' = runtime
      BY DEF ApplyDeferred
    <3> QED BY <1>0, <2>1, <2>4, <3>1, <3>2 DEF BuiltInv, AbsentDown
  <2> QED BY <2>5, <2>6 DEF BuiltInv
<1>8. ASSUME FinishReapply PROVE BuiltInv'
  BY <1>8, FinishFacts, BuiltBetween
<1>9. ASSUME RunEvent PROVE BuiltInv'
  <2>1. /\ phase = "event" /\ Release
        /\ UNCHANGED <<present, cfg, runtime, absent, client, active>>
    BY <1>9 DEF RunEvent, boxVars
  <2> QED BY <2>1, ReleaseHolder, BuiltBetween
<1>10. ASSUME NEW p \in Hotplug, Plug(p) PROVE BuiltInv'
  <2>1. UNCHANGED <<present, cfg, phase, job, todo, need>>
    BY <1>10 DEF Plug, instVars, lockVars
  <2>2. /\ \A q \in Instance : runtime'[q] \in {None, runtime[q]}
        /\ \A q \in absent' : runtime'[q] = None
    <3>1. CASE p \in absent
      BY <1>0, <1>10, <3>1 DEF Plug, BuiltInv, AbsentDown
    <3>2. CASE p \notin absent
      <4>1. runtime' = [runtime EXCEPT ![p] = None] /\ absent' = absent \cup {p}
        BY <1>10, <3>2 DEF Plug, TornDown
      <4>2. p \in Instance
        BY EnvironmentAssumption
      <4> QED BY <1>0, <4>1, <4>2 DEF BuiltInv, AbsentDown
    <3> QED BY <3>1, <3>2
  <2> QED BY <2>1, <2>2, BuiltAside
<1>11. CASE /\ \/ \E c \in NetConfigs : TryApplyConfig(c)
               \/ RollbackConfig \/ ScheduledReapply
               \/ \E p \in unsent : SendEvent(p)
               \/ \E p \in unseen : Poll(p) \/ Rewatch(p)
               \/ \E p \in Hotplug : Plug(p)
               \/ UNCHANGED vars
            /\ ~ \E p \in Hotplug : Plug(p)
  <2>1. UNCHANGED <<present, cfg, need, runtime, absent>>
    BY <1>11, AsideFacts
  <2>2. CASE UNCHANGED <<phase, job, left, todo, busy>>
    BY <1>0, <2>1, <2>2, BuiltAside DEF BuiltInv, AbsentDown
  <2>3. CASE ~UNCHANGED <<phase, job, left, todo, busy>>
    BY <1>11, <2>1, <2>3, AsideFacts, BuiltBetween
  <2> QED BY <2>2, <2>3
<1>12. ASSUME Restart PROVE BuiltInv'
  <2>1. /\ phase = "idle" /\ client = "free" /\ phase' = "mark"
        /\ job' = DryJob(active) /\ UNCHANGED <<runtime, absent, active>>
    BY <1>12 DEF Restart, boxVars, Tame, Faultless
  <2>2. ~DryRun /\ \A p : ~Flushed(p)
    BY <2>1 DEF DryRun, Flushed
  <2>3. \A p \in Instance : runtime[p] \in {None, active[p]}
    <3> SUFFICES ASSUME NEW p \in Instance, runtime[p] # None PROVE runtime[p] = active[p]
      OBVIOUS
    <3>1. p \in present
      BY <2>2 DEF Base, LeftInv, Mapped
    <3>2. runtime[p] = cfg[p] /\ cfg[p] = next[p]
      BY <2>1, <2>2, <3>1 DEF BuiltInv, TakeOver, HeldInv, Loaded
    <3> QED BY <2>1, <3>2 DEF HeldInv, StoredIsNext
  <2>4. DryRun' /\ job'.arg = active
    BY <2>1 DEF DryRun, Dry, DryJob
  <2>5. TakeOver'
    BY <2>1, <2>3, <2>4 DEF TakeOver
  <2> QED BY <2>1, <2>5 DEF BuiltInv, AbsentDown
<1> QED BY <1>1, <1>2, <1>3, <1>4, <1>5, <1>6, <1>7, <1>8, <1>9, <1>10, <1>11, <1>12, StepKinds

-----------------------------------------------------------------------------
(* Propagation, once more.                                                 *)

\* With more edges more are reached.
LEMMA DownMore ==
  ASSUME NEW edges, NEW more, edges \subseteq more, NEW p \in Instance
  PROVE  Down(p, edges) \subseteq Down(p, more)
  BY DEF Down, Closed

\* Reaching goes on from whoever is reached.
LEMMA DownOn ==
  ASSUME NEW edges, edges \subseteq Instance \X Instance,
         NEW p \in Instance, NEW q \in Down(p, edges)
  PROVE  Down(q, edges) \subseteq Down(p, edges)
<1>1. Closed(Down(p, edges), edges)
  BY DownClosed
<1>2. q \in Instance /\ Down(p, edges) \in SUBSET Instance
  BY DEF Down
<1> QED BY <1>1, <1>2, DownWithin

\* When only the edges to p are different, whoever is no longer reached from d
\* is reached from p.
LEMMA DownDetour ==
  ASSUME NEW edges, NEW others, edges \subseteq Instance \X Instance,
         others \subseteq Instance \X Instance,
         NEW p \in Instance, NEW d \in Instance,
         \A e \in edges : e[2] # p => e \in others
  PROVE  /\ Down(d, edges) \subseteq Down(d, others) \cup Down(p, others)
         /\ Down(p, edges) \subseteq Down(p, others)
<1>1. p \in Down(p, others) /\ d \in Down(d, others)
  BY DownSelf
<1>2. Closed(Down(p, others), others) /\ Closed(Down(d, others), others)
  BY DownClosed
<1>3. Down(p, others) \in SUBSET Instance /\ Down(d, others) \in SUBSET Instance
  BY DEF Down
<1>4. Closed(Down(d, others) \cup Down(p, others), edges)
  BY <1>1, <1>2 DEF Closed
<1>5. Closed(Down(p, others), edges)
  BY <1>1, <1>2 DEF Closed
<1> QED BY <1>1, <1>3, <1>4, <1>5, DownWithin

\* Whoever should be reached from p is subscribed all the way, or flagged.
LEMMA DownTold ==
  ASSUME NEW edges, NEW known, NEW flagged, edges \subseteq Instance \X Instance,
         known \subseteq Instance \X Instance,
         \A e \in edges : e \in known \/ Down(e[2], edges) \subseteq flagged,
         NEW p \in Instance
  PROVE  Down(p, edges) \subseteq Down(p, known) \cup flagged
<1> DEFINE T == {q \in Instance : q \in Down(p, known) \/ Down(q, edges) \subseteq flagged}
<1>1. p \in T /\ T \in SUBSET Instance
  BY DownSelf
<1>2. Closed(T, edges)
  <2> SUFFICES ASSUME NEW e \in edges, e[1] \in T PROVE e[2] \in T
    BY DEF Closed
  <2>0. e[1] \in Instance /\ e[2] \in Instance
    OBVIOUS
  <2>1. CASE Down(e[2], edges) \subseteq flagged
    BY <2>0, <2>1
  <2>2. CASE ~(Down(e[2], edges) \subseteq flagged)
    <3>1. e \in known
      BY <2>2
    <3>2. CASE e[1] \in Down(p, known)
      <4>1. Closed(Down(p, known), known)
        BY DownClosed
      <4> QED BY <2>0, <3>1, <3>2, <4>1 DEF Closed
    <3>3. CASE Down(e[1], edges) \subseteq flagged
      <4>1. e[1] \in Down(e[1], edges) /\ Closed(Down(e[1], edges), edges)
        BY <2>0, DownSelf, DownClosed
      <4>2. e[2] \in Down(e[1], edges)
        BY <4>1 DEF Closed
      <4>3. Down(e[2], edges) \subseteq Down(e[1], edges)
        BY <2>0, <4>2, DownOn
      <4> QED BY <2>2, <3>3, <4>3
    <3> QED BY <3>1, <3>2, <3>3
  <2> QED BY <2>1, <2>2
<1>3. Down(p, edges) \subseteq T
  BY <1>1, <1>2, DownWithin
<1>4. \A q \in T : q \in Down(p, known) \/ q \in flagged
  BY DownSelf
<1> HIDE DEF T
<1> QED BY <1>3, <1>4

-----------------------------------------------------------------------------
(* What stands on what.                                                    *)

\* devices whose event waits for the lock, or has it
Called ==
  {d \in Instance : \/ \E i \in 1..Len(queue) : queue[i] = EventJob(d)
                    \/ phase = "event" /\ job.arg = d}

\* devices whose change has yet to reach the loader, or that are not there
Pending == absent \cup unseen \cup unsent \cup missed \cup Called

\* an instance that was torn down by its device and waits for it
Lost(p) == p \in Pending /\ runtime[p] = None

\* who stands on whom, as configured
Ground ==
  {e \in present \X present : /\ cfg[e[2]] # None /\ ~Lost(e[2])
                              /\ e[1] \in Uses[e[2]][cfg[e[2]]]}

\* a change that whatever stands on p must be rebuilt for
Hard(p) == cfg[p] = None \/ (cfg[p] # next[p] /\ IsFull(p, cfg[p], next[p]))

\* Whoever stands on something is subscribed to it, or flagged.
Subscribed == \A e \in Ground : e \in subs \/ e[2] \in need

\* Between the passes, a flag is on all that stands on the flagged.
FlaggedAbove == phase \in {"idle", "event"} => Closed(need, Ground)

\* While instances are marked, that is so where subscriptions are missing.
ToldThrough ==
  phase = "mark" => \A e \in Ground : e \in subs \/ Down(e[2], Ground) \subseteq need

\* Whoever stands on a flagged instance is flagged or does not mind addresses.
FlaggedUp == \A e \in Ground : e[1] \in need => e[2] \in need \cup IpBlind

\* Whatever stands on an instance that is to be torn down is flagged.
HardTold == \A q \in present : Hard(q) => Down(q, Ground) \subseteq need

\* Every instance is flagged, or well, or a pending device will reach it.
Cared ==
  \A p \in present : p \in need \/ Ready(p) \/ \E d \in Pending : p \in Down(d, Ground)

\* What loses its ground while it is applied does so by a pending device.
BusyGround == \A p \in busy \cap stale : \E x \in Lowers(p) : x \in Pending

\* Whoever is built and is not flagged finds what it uses in the plugin map.
UsesMapped ==
  \A p \in present :
    cfg[p] # None /\ runtime[p] # None /\ p \notin need => Uses[p][cfg[p]] \subseteq present

GraphInv ==
  /\ Subscribed /\ FlaggedAbove /\ ToldThrough /\ FlaggedUp /\ HardTold
  /\ Cared /\ BusyGround /\ UsesMapped

\* The edges are between instances, and nothing stands on what is not there.
LEMMA GroundFacts ==
  ASSUME Base
  PROVE  /\ Ground \subseteq Instance \X Instance /\ subs \subseteq Instance \X Instance
         /\ Ground \subseteq present \X present
         /\ Pending \subseteq Instance
<1>1. present \subseteq Instance /\ subs \subseteq Instance \X Instance
      /\ absent \subseteq Instance /\ unseen \subseteq Instance
         /\ unsent \subseteq Instance /\ missed \subseteq Instance
  BY Types DEF Base
<1>2. Ground \subseteq present \X present
  BY DEF Ground
<1>3. Pending \subseteq Instance
  BY <1>1 DEF Pending, Called
<1> QED BY <1>1, <1>2, <1>3

\* Whoever should be reached from p is told, or flagged already.
LEMMA ToldAll ==
  ASSUME Base, GraphInv, phase \in {"idle", "event", "mark"}, NEW p \in Instance
  PROVE  Down(p, Ground) \subseteq Down(p, subs) \cup need
<1>1. \A e \in Ground : e \in subs \/ Down(e[2], Ground) \subseteq need
  <2>1. CASE phase = "mark"
    BY <2>1 DEF GraphInv, ToldThrough
  <2>2. CASE phase # "mark"
    <3>1. Closed(need, Ground) /\ need \in SUBSET Instance
      BY <2>2, Types DEF GraphInv, FlaggedAbove, Base
    <3>2. ASSUME NEW e \in Ground, e \notin subs PROVE Down(e[2], Ground) \subseteq need
      <4>1. e[2] \in need
        BY <3>2 DEF GraphInv, Subscribed
      <4> QED BY <3>1, <4>1, DownWithin
    <3> QED BY <3>2
  <2> QED BY <2>1, <2>2
<1> QED BY <1>1, GroundFacts, DownTold

\* Instances on p that are built and not flagged have an edge from p.
LEMMA UserEdge ==
  ASSUME Base, HeldInv, BuiltInv, NEW p \in present, NEW u \in Users(p),
         u \in present, u \notin need, ~DryRun
  PROVE  <<p, u>> \in Ground
<1>1. u \in Instance /\ runtime[u] # None /\ p \in Uses[u][runtime[u]]
  BY DEF Users, UsedBy
<1>2. runtime[u] = cfg[u]
  BY <1>1, BuiltAtRest DEF Flushed
<1> QED BY <1>1, <1>2 DEF Ground, Lost

\* At rest the box ends as configured, or is known not to be.
LEMMA CaredConverged ==
  ASSUME Base, GraphInv
  PROVE  Converged
<1> SUFFICES ASSUME phase = "idle", NEW p \in present, p \notin need, ~Ready(p)
             PROVE  p \in Awaited
  BY DEF Converged
<1>1. PICK d \in Pending : p \in Down(d, Ground)
  BY DEF GraphInv, Cared
<1>2. d \in Instance
  BY <1>1, GroundFacts
<1>3. p \in Down(d, subs)
  BY <1>1, <1>2, ToldAll
<1>4. d \in absent \cup unseen \cup unsent \cup missed \cup {x \in Instance : \E i \in DOMAIN queue : queue[i] = EventJob(x)}
  <2>1. DOMAIN queue = 1..Len(queue)
    BY Types DEF Base
  <2> QED BY <2>1, <1>2 DEF Pending, Called
<1> QED BY <1>3, <1>4 DEF Awaited

\* Who asks for the lock is called, besides those who were.
LEMMA CalledAcquire ==
  ASSUME Base, NEW j \in Job, Acquire(j)
  PROVE  Called' = Called \cup {d \in Instance : j = EventJob(d)}
<1>0. queue \in Seq(Job)
  BY Types DEF Base
<1>1. CASE phase = "idle"
  <2>1. job' = j /\ queue' = queue /\ (phase' = "event" <=> j.kind = "event")
    BY <1>1 DEF Acquire, Start, IsReapply
  <2>2. \A d \in Instance : j = EventJob(d) <=> (j.kind = "event" /\ j.arg = d)
    BY DEF EventJob, Job, Effective
  <2> QED BY <1>1, <2>1, <2>2 DEF Called
<1>2. CASE phase # "idle"
  <2>1. queue' = Append(queue, j) /\ UNCHANGED <<phase, job>>
    BY <1>2 DEF Acquire
  <2>2. /\ Len(queue') = Len(queue) + 1 /\ Len(queue) \in Nat
        /\ \A i \in 1..Len(queue) : i \in 1..Len(queue') /\ queue'[i] = queue[i]
        /\ Len(queue) + 1 \in 1..Len(queue') /\ queue'[Len(queue) + 1] = j
        /\ \A i \in 1..Len(queue') : i \in 1..Len(queue) \/ i = Len(queue) + 1
    BY <1>0, <2>1
  <2>3. \A d \in Instance : (\E i \in 1..Len(queue') : queue'[i] = EventJob(d))
                            <=> (\E i \in 1..Len(queue) : queue[i] = EventJob(d)) \/ j = EventJob(d)
    BY <2>2
  <2> QED BY <2>1, <2>3 DEF Called
<1> QED BY <1>1, <1>2

\* Who releases the lock was heard; the others who were called still are.
LEMMA CalledRelease ==
  ASSUME Base, Release, phase # "idle"
  PROVE  /\ phase # "event" => Called' = Called
         /\ Called' \subseteq Called
         /\ \A d \in Called : d \in Called' \/ (phase = "event" /\ job.arg = d)
<1>0. queue \in Seq(Job)
  BY Types DEF Base
<1>1. CASE queue = <<>>
  <2>1. phase' = "idle" /\ queue' = queue
    BY <1>1 DEF Release
  <2> QED BY <2>1 DEF Called
<1>2. CASE queue # <<>>
  <2>1. /\ job' = Head(queue) /\ queue' = Tail(queue)
        /\ phase' = "event" <=> Head(queue).kind = "event"
    BY <1>2 DEF Release, Start, IsReapply
  <2>2. /\ 1 \in 1..Len(queue) /\ Head(queue) = queue[1] /\ Head(queue) \in Job
        /\ \A i \in 1..Len(queue') : i + 1 \in 1..Len(queue) /\ queue'[i] = queue[i + 1]
        /\ \A i \in 1..Len(queue) : i = 1 \/ (i - 1 \in 1..Len(queue') /\ queue'[i - 1] = queue[i])
    BY <1>0, <1>2, <2>1
  <2>3. \A d \in Instance : Head(queue) = EventJob(d) <=> (phase' = "event" /\ job'.arg = d)
    BY <2>1, <2>2 DEF EventJob, Job, Effective
  <2>4. \A d \in Instance : d \in Called' <=> \E i \in 1..Len(queue) : queue[i] = EventJob(d)
    BY <2>2, <2>3 DEF Called
  <2> QED BY <2>4 DEF Called
<1> QED BY <1>1, <1>2

\* A step that leaves the instances and what they stand on alone.
LEMMA GraphHeld ==
  ASSUME Base, HeldInv, GraphInv,
         UNCHANGED <<present, cfg, next, need, subs, runtime, stale>>,
         Ground' = Ground,
         \/ phase' = phase
         \/ phase \in {"idle", "event"} /\ phase' \in {"idle", "event", "mark"}
         \/ phase' \in {"flush", "apply"},
         busy' = {} \/ (busy' = busy /\ \A d \in Pending : d \in Pending' \/ d \notin present),
         \A d \in Pending : d \in Pending' \/ d \notin present \/ Down(d, Ground) \subseteq need
  PROVE  GraphInv'
<1> USE GroundFacts
<1>1. Subscribed' /\ FlaggedUp'
  BY DEF GraphInv, Subscribed, FlaggedUp
<1>2. FlaggedAbove'
  BY DEF GraphInv, FlaggedAbove
<1>3. ToldThrough'
  <2>1. CASE phase = "mark"
    BY <2>1 DEF GraphInv, ToldThrough
  <2>2. CASE phase # "mark" /\ phase' = "mark"
    <3>1. Closed(need, Ground) /\ need \in SUBSET Instance
      BY <2>2, Types DEF GraphInv, FlaggedAbove, Base
    <3>2. ASSUME NEW e \in Ground, e \notin subs PROVE Down(e[2], Ground) \subseteq need
      <4>1. e[2] \in need
        BY <3>2 DEF GraphInv, Subscribed
      <4> QED BY <3>1, <4>1, DownWithin
    <3> QED BY <3>2 DEF ToldThrough
  <2> QED BY <2>1, <2>2 DEF ToldThrough
<1>4. HardTold'
  BY DEF GraphInv, HardTold, Hard
<1>5. Cared'
  <2> SUFFICES ASSUME NEW p \in present, p \notin need, ~Ready(p)
               PROVE  \E d \in Pending' : p \in Down(d, Ground)
    BY DEF Cared, Ready
  <2>1. PICK d \in Pending : p \in Down(d, Ground)
    BY DEF GraphInv, Cared
  <2>2. d \in present
    <3>1. CASE p = d
      BY <3>1
    <3>2. CASE p # d
      <4>1. SUFFICES ASSUME d \notin present PROVE FALSE
        OBVIOUS
      <4>2. Closed({d}, Ground) /\ d \in Instance
        BY <4>1 DEF Closed
      <4>3. Down(d, Ground) \subseteq {d}
        BY <4>2, DownWithin
      <4> QED BY <2>1, <3>2, <4>3
    <3> QED BY <3>1, <3>2
  <2> QED BY <2>1, <2>2
<1>6. BusyGround'
  <2> SUFFICES ASSUME NEW p \in busy, p \in stale, busy' = busy
               PROVE  \E x \in Lowers(p) : x \in Pending'
    BY DEF BusyGround, Lowers
  <2>1. PICK x \in Lowers(p) : x \in Pending
    BY DEF GraphInv, BusyGround
  <2>2. phase = "apply" /\ p \in present
    BY Types DEF Base
  <2>3. x \in present
    BY <2>1, <2>2, LowersThere
  <2>4. x \in Pending'
    BY <2>1, <2>3
  <2> QED BY <2>1, <2>4
<1>7. UsesMapped'
  BY DEF GraphInv, UsesMapped
<1> QED BY <1>1, <1>2, <1>3, <1>4, <1>5, <1>6, <1>7 DEF GraphInv

\* The edges are the same if the same are lost.
LEMMA GroundSame ==
  ASSUME UNCHANGED <<present, cfg>>,
         \A p \in present : cfg[p] # None => (Lost(p)' <=> Lost(p))
  PROVE  Ground' = Ground
  BY DEF Ground

\* An instance that has no configuration yet is new to this reapply.
LEMMA NewPhase ==
  ASSUME Base, HeldInv, NEW p \in present, cfg[p] = None
  PROVE  phase \in {"mark", "flush"} /\ busy = {}
<1>1. next[p] # None
  BY DEF Base, OrderInv, Planned
<1>2. phase \notin {"idle", "event", "apply"}
  BY <1>1 DEF HeldInv, Loaded
<1> QED BY <1>2, Types DEF Base, TypeInv, TypeOK, Phases

\* A job that is asked for, but not for an event, calls nobody.
LEMMA GraphAcquire ==
  ASSUME Base, HeldInv, GraphInv, NEW j \in Job, j.kind # "dry", Acquire(j),
         UNCHANGED <<present, cfg, next, need, subs, runtime, stale, absent, unseen, missed>>,
         \/ j.kind # "event" /\ unsent' = unsent
         \/ \E p \in unsent : j = EventJob(p) /\ unsent' = unsent \ {p}
  PROVE  GraphInv'
<1>1. Called' = Called \cup {d \in Instance : j = EventJob(d)}
  BY CalledAcquire
<1>2. Pending' = Pending
  <2>1. CASE j.kind # "event" /\ unsent' = unsent
    <3>1. \A d : j # EventJob(d)
      BY <2>1 DEF EventJob
    <3> QED BY <1>1, <2>1, <3>1 DEF Pending
  <2>2. CASE \E p \in unsent : j = EventJob(p) /\ unsent' = unsent \ {p}
    <3>1. PICK p \in unsent : j = EventJob(p) /\ unsent' = unsent \ {p}
      BY <2>2
    <3>2. {d \in Instance : j = EventJob(d)} = {p}
      BY <3>1, Types DEF EventJob, Base
    <3> QED BY <1>1, <3>1, <3>2 DEF Pending
  <2> QED BY <2>1, <2>2
<1>3. Ground' = Ground
  BY <1>2, GroundSame DEF Lost
<1>4. \/ UNCHANGED <<phase, busy>>
      \/ phase = "idle" /\ phase' \in {"event", "mark"} /\ busy' = {}
  BY AcquireHolder
<1> QED BY <1>2, <1>3, <1>4, GraphHeld

\* Neither do the callers and the sensor change what stands on what.
LEMMA GraphAside ==
  ASSUME Tame, Base, HeldInv, GraphInv,
         \/ \E c \in NetConfigs : TryApplyConfig(c)
         \/ RollbackConfig \/ ScheduledReapply
         \/ \E p \in unsent : SendEvent(p)
         \/ \E p \in unseen : Poll(p) \/ Rewatch(p)
         \/ UNCHANGED vars
  PROVE  GraphInv'
<1>1. CASE \E c \in NetConfigs : TryApplyConfig(c)
  <2>1. PICK c \in NetConfigs : TryApplyConfig(c)
    BY <1>1
  <2>2. SetJob(c) \in Job /\ SetJob(c).kind = "set"
    BY DEF SetJob, Job
  <2> QED BY <2>1, <2>2, GraphAcquire DEF TryApplyConfig, instVars, boxVars, sensorVars
<1>2. CASE RollbackConfig
  <2>1. Rollback(active) \in Job /\ Rollback(active).kind = "rollback"
    BY Types DEF Rollback, Job, Base
  <2> QED BY <1>2, <2>1, GraphAcquire DEF RollbackConfig, instVars, boxVars, sensorVars
<1>3. CASE ScheduledReapply
  <2>1. Effective \in Job /\ Effective.kind = "effective"
    BY DEF Effective, Job
  <2> QED BY <1>3, <2>1, GraphAcquire DEF ScheduledReapply, instVars, boxVars, sensorVars
<1>4. CASE \E p \in unsent : SendEvent(p)
  <2>1. PICK p \in unsent : SendEvent(p)
    BY <1>4
  <2>2. /\ UNCHANGED <<present, cfg, next, need, subs, runtime, stale, absent, unseen, missed>>
        /\ unsent' = unsent \ {p} /\ p \in Instance
    BY <2>1, Types DEF SendEvent, instVars, boxVars, Base
  <2>3. CASE cfg[p] # None
    <3>1. Acquire(EventJob(p)) /\ EventJob(p) \in Job /\ EventJob(p).kind = "event"
      BY <2>1, <2>2, <2>3 DEF SendEvent, EventJob, Job
    <3> QED BY <2>2, <3>1, GraphAcquire
  <2>4. CASE cfg[p] = None
    <3>1. UNCHANGED lockVars
      BY <2>1, <2>4 DEF SendEvent
    <3>2. \A d : d # p => (d \in Pending' <=> d \in Pending)
      BY <2>2, <3>1 DEF Pending, Called, lockVars
    <3>3. Ground' = Ground
      BY <2>2, <2>4, <3>2, GroundSame DEF Lost
    <3>4. CASE p \in present
      <4>1. busy = {} /\ Down(p, Ground) \subseteq need
        BY <2>4, <3>4, NewPhase DEF GraphInv, HardTold, Hard
      <4>2. busy' = {} /\ phase' = phase
        BY <3>1, <4>1 DEF lockVars
      <4>3. \A d \in Pending : d \in Pending' \/ Down(d, Ground) \subseteq need
        BY <3>2, <4>1
      <4> QED BY <2>2, <3>3, <4>2, <4>3, GraphHeld
    <3>5. CASE p \notin present
      <4>1. \A d \in Pending : d \in Pending' \/ d \notin present
        BY <3>2, <3>5
      <4>2. busy' = busy /\ phase' = phase
        BY <3>1 DEF lockVars
      <4> QED BY <2>2, <3>3, <4>1, <4>2, GraphHeld
    <3> QED BY <3>4, <3>5
  <2> QED BY <2>3, <2>4
<1>5. CASE UNCHANGED vars
  <2>1. UNCHANGED <<present, cfg, next, need, subs, runtime, stale, phase, job, queue, busy, absent, unseen, unsent, missed>>
    BY <1>5 DEF vars
  <2>2. Pending' = Pending
    BY <2>1 DEF Pending, Called
  <2>3. Ground' = Ground
    BY <2>1, <2>2, GroundSame DEF Lost
  <2> QED BY <2>1, <2>2, <2>3, GraphHeld
<1>6. CASE \E p \in unseen : Poll(p) \/ Rewatch(p)
  <2>1. PICK p \in unseen : Poll(p) \/ Rewatch(p)
    BY <1>6
  <2>2. UNCHANGED <<present, cfg, next, need, subs, runtime, stale, phase, job, queue, busy, absent>>
    BY <2>1 DEF Poll, Rewatch, instVars, lockVars, boxVars
  <2>3. unseen' \cup unsent' \cup missed' \cup absent = unseen \cup unsent \cup missed \cup absent
    BY <2>1 DEF Poll, Rewatch
  <2>4. Pending' = Pending
    BY <2>2, <2>3 DEF Pending, Called
  <2>5. Ground' = Ground
    BY <2>2, <2>4, GroundSame DEF Lost
  <2> QED BY <2>2, <2>4, <2>5, GraphHeld
<1> QED BY <1>1, <1>2, <1>3, <1>4, <1>5, <1>6

\* The turns from pass to pass leave the instances alone.
LEMMA GraphTurns ==
  ASSUME Tame, Base, HeldInv, GraphInv, StartFlush \/ StartApply
  PROVE  GraphInv'
<1>1. /\ UNCHANGED <<present, cfg, next, need, subs, runtime, stale, absent, unseen, unsent, missed, job, queue, busy>>
      /\ phase \in {"mark", "flush"} /\ phase' \in {"flush", "apply"}
  BY DEF StartFlush, StartApply, instVars, boxVars, sensorVars
<1>2. Pending' = Pending
  BY <1>1 DEF Pending, Called
<1>3. Ground' = Ground
  BY <1>1, <1>2, GroundSame DEF Lost
<1> QED BY <1>1, <1>2, <1>3, GraphHeld

\* An instance that is to be built is no longer stale.
LEMMA GraphStart ==
  ASSUME Tame, Base, HeldInv, GraphInv, NEW S \in SUBSET todo, ApplyStart(S)
  PROVE  GraphInv'
<1>1. /\ UNCHANGED <<present, cfg, next, need, subs, runtime, absent, unseen, unsent, missed, job, queue, phase>>
      /\ phase = "apply" /\ busy' = S \cap need /\ stale' = stale \ (S \cap need)
  BY DEF ApplyStart, instVars, sensorVars
<1>2. Pending' = Pending
  BY <1>1 DEF Pending, Called
<1>3. Ground' = Ground
  BY <1>1, <1>2, GroundSame DEF Lost
<1>4. Subscribed' /\ FlaggedAbove' /\ ToldThrough' /\ FlaggedUp' /\ UsesMapped'
  BY <1>1, <1>3 DEF GraphInv, Subscribed, FlaggedAbove, ToldThrough, FlaggedUp, UsesMapped
<1>5. HardTold'
  BY <1>1, <1>3 DEF GraphInv, HardTold, Hard
<1>6. Cared'
  <2>1. \A p \in present : Ready(p) => Ready(p)'
    BY <1>1 DEF Ready
  <2> QED BY <1>1, <1>2, <1>3, <2>1 DEF GraphInv, Cared
<1>7. BusyGround'
  BY <1>1 DEF BusyGround
<1> QED BY <1>4, <1>5, <1>6, <1>7 DEF GraphInv

\* At the end of a reapply nothing is flagged, or all after a dry run.
LEMMA GraphFinish ==
  ASSUME Tame, Base, HeldInv, GraphInv, FinishReapply
  PROVE  GraphInv'
<1>1. /\ phase = "apply" /\ todo = {} /\ busy = {} /\ Release /\ busy' = {}
      /\ UNCHANGED <<present, cfg, next, need, subs, runtime, stale, absent, unseen, unsent, missed>>
  BY FinishFacts
<1>2. Pending' = Pending
  BY <1>1, CalledRelease DEF Pending
<1>3. Ground' = Ground
  BY <1>1, <1>2, GroundSame DEF Lost
<1>4. need = {} \/ need = present
  <2>1. CASE DryRun
    BY <2>1, Types DEF HeldInv, DryFlags, Base
  <2>2. CASE ~DryRun
    BY <1>1, <2>2 DEF HeldInv, StillDue
  <2> QED BY <2>1, <2>2
<1>5. Closed(need, Ground)
  BY <1>4, GroundFacts DEF Closed
<1>6. Subscribed' /\ FlaggedUp' /\ UsesMapped'
  BY <1>1, <1>3 DEF GraphInv, Subscribed, FlaggedUp, UsesMapped
<1>7. FlaggedAbove'
  BY <1>1, <1>3, <1>5 DEF FlaggedAbove
<1>8. ToldThrough'
  <2> SUFFICES ASSUME NEW e \in Ground, e \notin subs PROVE Down(e[2], Ground) \subseteq need
    BY <1>1, <1>3 DEF ToldThrough
  <2>1. e[2] \in need
    BY DEF GraphInv, Subscribed
  <2>2. need \in SUBSET Instance
    BY Types DEF Base
  <2> QED BY <1>5, <2>1, <2>2, DownWithin
<1>9. HardTold'
  BY <1>1, <1>3 DEF GraphInv, HardTold, Hard
<1>10. Cared'
  <2>1. \A p \in present : Ready(p) => Ready(p)'
    BY <1>1 DEF Ready
  <2> QED BY <1>1, <1>2, <1>3, <2>1 DEF GraphInv, Cared
<1>11. BusyGround'
  BY <1>1 DEF BusyGround
<1> QED BY <1>6, <1>7, <1>8, <1>9, <1>10, <1>11 DEF GraphInv

\* After a start nothing stands on anything.
LEMMA GraphRestart ==
  ASSUME Restart
  PROVE  GraphInv'
<1>1. present' = {} /\ need' = {} /\ busy' = {}
  BY DEF Restart
<1>2. Ground' = {}
  BY <1>1 DEF Ground
<1> QED BY <1>1, <1>2 DEF GraphInv, Subscribed, FlaggedAbove, ToldThrough, FlaggedUp,
        HardTold, Cared, BusyGround, UsesMapped, Closed

\* The handler of an event flags all that stands on its instance.
LEMMA GraphEvent ==
  ASSUME Tame, Base, HeldInv, HeldInv', GraphInv, RunEvent
  PROVE  GraphInv'
<1>1. /\ phase = "event" /\ Release /\ busy' = {} /\ phase' \in {"idle", "event", "mark"}
      /\ UNCHANGED <<present, cfg, next, subs, runtime, stale, absent, unseen, unsent>>
      /\ missed' = missed \ {job.arg}
  BY ReleaseHolder DEF RunEvent, boxVars
<1>2. /\ Called' \subseteq Called
      /\ \A d \in Called : d \in Called' \/ job.arg = d
  BY <1>1, CalledRelease
<1>3. /\ Pending' \subseteq Pending
      /\ \A d \in Pending : d \in Pending' \/ job.arg = d
  BY <1>1, <1>2 DEF Pending
<1>4. CASE job.arg = None
  <2>1. need' = need
    BY <1>4 DEF RunEvent
  <2>2. Pending' = Pending
    BY <1>3, <1>4, GroundFacts, ConfigAssumption
  <2>3. Ground' = Ground
    BY <1>1, <2>2, GroundSame DEF Lost
  <2> QED BY <1>1, <2>1, <2>2, <2>3, GraphHeld
<1>5. CASE job.arg # None
  <2> DEFINE a == job.arg
  <2>1. a \in present /\ a \in Instance
    BY <1>1, <1>5, Types DEF Base, TypeInv, JobsOwned, IsReapply
  <2>2. need' = need \cup Down(a, subs)
    BY <1>5 DEF RunEvent, Reached
  <2>3. Down(a, Ground) \subseteq need' /\ a \in need'
    BY <1>1, <2>1, <2>2, ToldAll, DownSelf
  <2>4. /\ Ground \subseteq Ground' /\ \A e \in Ground' : e \in Ground \/ e[2] = a
        /\ Ground' \subseteq Instance \X Instance
    <3>1. \A p \in present : (Lost(p)' => Lost(p)) /\ (Lost(p) => Lost(p)' \/ p = a)
      BY <1>1, <1>3 DEF Lost
    <3>2. present' = present /\ cfg' = cfg
      BY <1>1
    <3> HIDE DEF a
    <3>3. Ground \subseteq Ground' /\ \A e \in Ground' : e \in Ground \/ e[2] = a
      BY <3>1, <3>2 DEF Ground
    <3>4. Ground' \subseteq present \X present /\ present \subseteq Instance
      BY <3>2, Types DEF Ground, Base
    <3> QED BY <3>3, <3>4
  <2>5. Closed(need', Ground')
    <3> SUFFICES ASSUME NEW e \in Ground', e[1] \in need' PROVE e[2] \in need'
      BY DEF Closed
    <3>1. CASE e \in Ground /\ e[1] \in need
      BY <1>1, <2>2, <3>1 DEF GraphInv, FlaggedAbove, Closed
    <3>2. CASE e \in Ground /\ e[1] \in Down(a, subs)
      <4>1. Closed(Down(a, subs), subs)
        BY <2>1, GroundFacts, DownClosed
      <4> QED BY <2>2, <3>2, <4>1 DEF GraphInv, Subscribed, Closed
    <3> QED BY <2>2, <2>3, <2>4, <3>1, <3>2
  <2>6. Subscribed' /\ FlaggedUp' /\ FlaggedAbove'
    <3> HIDE DEF a
    <3>1. Subscribed'
      BY <1>1, <2>2, <2>3, <2>4 DEF GraphInv, Subscribed
    <3> QED BY <2>5, <3>1 DEF FlaggedUp, FlaggedAbove, Closed
  <2>7. need' \in SUBSET Instance
    BY <2>2, Types DEF Base, Down
  <2>8. ToldThrough'
    BY <2>4, <2>5, <2>6, <2>7, DownWithin DEF ToldThrough, Subscribed
  <2>9. HardTold'
    <3>1. \A q \in present : cfg[q] = next[q] /\ next[q] # None
      BY <1>1 DEF HeldInv, Loaded, Base, OrderInv, Planned
    <3> QED BY <1>1, <3>1 DEF HardTold, Hard
  <2>10. Cared'
    <3> SUFFICES ASSUME NEW p \in present, p \notin need', ~Ready(p)
                 PROVE  \E d \in Pending' : p \in Down(d, Ground')
      BY <1>1 DEF Cared, Ready
    <3>1. PICK d \in Pending : p \in Down(d, Ground)
      BY <2>2 DEF GraphInv, Cared
    <3>2. d # a
      BY <2>3, <3>1
    <3>3. d \in Pending' /\ d \in Instance
      BY <1>3, <3>2, GroundFacts
    <3>4. p \in Down(d, Ground')
      BY <2>4, <3>1, <3>3, DownMore
    <3> QED BY <3>3, <3>4
  <2>11. UsesMapped' /\ BusyGround'
    <3> HIDE DEF a
    <3> QED BY <1>1, <2>2 DEF GraphInv, UsesMapped, BusyGround
  <2> QED BY <2>6, <2>8, <2>9, <2>10, <2>11 DEF GraphInv
<1> QED BY <1>4, <1>5

\* An instance whose device is not there waits for it.
LEMMA GraphDeferred ==
  ASSUME Tame, Base, HeldInv, BuiltInv, GraphInv, NEW p \in busy, ApplyDeferred(p)
  PROVE  GraphInv'
<1>1. /\ need' = need \ {p} /\ busy' = busy \ {p} /\ p \in absent
      /\ UNCHANGED <<present, cfg, next, subs, runtime, stale, absent, unseen, unsent, missed, phase, job, queue>>
  BY DEF ApplyDeferred, Applied, sensorVars
<1>2. Pending' = Pending
  BY <1>1 DEF Pending, Called
<1>3. Ground' = Ground
  BY <1>1, <1>2, GroundSame DEF Lost
<1>4. phase = "apply" /\ p \in Instance /\ p \in Pending /\ Lost(p)
  BY <1>1, Types DEF Base, Pending, Lost, BuiltInv, AbsentDown
<1>5. \A e \in Ground : e[2] # p
  BY <1>4 DEF Ground
<1>6. Subscribed' /\ FlaggedAbove' /\ ToldThrough' /\ FlaggedUp'
  BY <1>1, <1>3, <1>4, <1>5 DEF GraphInv, Subscribed, FlaggedAbove, ToldThrough, FlaggedUp
<1>7. HardTold'
  <2>1. \A q \in present : cfg[q] = next[q] /\ cfg[q] # None
    BY <1>4, LowersThere
  <2> QED BY <1>1, <2>1 DEF HardTold, Hard
<1>8. Cared'
  <2>1. \A q \in present : Ready(q) => Ready(q)'
    BY <1>1 DEF Ready
  <2>2. p \in Down(p, Ground)
    BY <1>4, DownSelf
  <2> QED BY <1>1, <1>2, <1>3, <1>4, <2>1, <2>2 DEF GraphInv, Cared
<1>9. BusyGround'
  BY <1>1, <1>2 DEF GraphInv, BusyGround, Lowers
<1>10. UsesMapped'
  BY <1>1, <1>4, Types DEF GraphInv, UsesMapped, Base, BuiltInv, AbsentDown
<1> QED BY <1>6, <1>7, <1>8, <1>9, <1>10 DEF GraphInv

\* An instance that is applied is subscribed to all it stands on, and stale
\* only if some of that is waited for.
LEMMA GraphApply ==
  ASSUME Tame, Base, HeldInv, BuiltInv, GraphInv, NEW p \in busy, ApplyOk(p)
  PROVE  GraphInv'
<1>1. /\ need' = need \ {p} /\ busy' = busy \ {p}
      /\ subs' = subs \cup {<<d, p>> : d \in Lowers(p)}
      /\ stale' = IF \A d \in Lowers(p) : Ready(d) THEN stale ELSE stale \cup {p}
      /\ UNCHANGED <<present, cfg, next, absent, unseen, unsent, missed, phase, job, queue, todo>>
  BY DEF ApplyOk, Applied, sensorVars
<1>2. Pending' = Pending
  BY <1>1 DEF Pending, Called
<1>3. /\ phase = "apply" /\ p \in Instance /\ p \in present /\ ~DryRun /\ p \in need
      /\ need \subseteq todo \cup busy
  BY Types DEF Base, LeftInv, DryApply, HeldInv, StillDue
<1>4. /\ cfg[p] # None /\ cfg[p] = next[p] /\ Lowers(p) \subseteq present
  BY <1>3, LowersThere
<1>5. runtime' = [runtime EXCEPT ![p] = cfg[p]]
  <2>1. Flushed(p)
    BY <1>3 DEF Flushed
  <2>2. Fits(p)
    BY <1>3, <2>1 DEF BuiltInv, TakeOver, Fits, Soft
  <2> QED BY <2>2 DEF ApplyOk
<1>6. /\ runtime'[p] = cfg[p] /\ \A q \in Instance : q # p => runtime'[q] = runtime[q]
  BY <1>3, <1>5, Types DEF Base
<1>7. present \subseteq Instance
  BY Types DEF Base
<1>8. /\ Ground \subseteq Ground'
      /\ \A e \in Ground' : e \in Ground \/ (e[2] = p /\ e[1] \in Lowers(p))
      /\ \A d \in Lowers(p) : <<d, p>> \in Ground'
  <2>1. ~Lost(p)' /\ \A q \in present : q # p => (Lost(q)' <=> Lost(q))
    BY <1>2, <1>4, <1>6, <1>7 DEF Lost
  <2> QED BY <1>1, <1>3, <1>4, <2>1 DEF Ground, Lowers
<1>9. \A d \in Lowers(p) : d \notin need
  <2>1. Lowers(p) \cap (todo \cup (busy \ {p})) = {}
    BY <1>3, OrderStep DEF Base
  <2>2. p \notin Lowers(p)
    BY <1>3, <1>4, ClassAssumption, Types DEF Lowers, Base
  <2> QED BY <1>3, <2>1, <2>2
<1>10. Subscribed'
  <2> SUFFICES ASSUME NEW e \in Ground', e \notin subs' PROVE e[2] \in need'
    BY DEF Subscribed
  <2>1. ~(e[2] = p /\ e[1] \in Lowers(p))
    <3>1. e \in present \X present
      BY <1>1 DEF Ground
    <3>2. e = <<e[1], e[2]>>
      BY <3>1
    <3> QED BY <1>1, <3>2
  <2>2. e \in Ground /\ e \notin subs
    BY <1>1, <1>8, <2>1
  <2>3. e[2] \in need /\ e[1] \in Uses[e[2]][cfg[e[2]]]
    BY <2>2 DEF GraphInv, Subscribed, Ground
  <2> QED BY <1>1, <2>1, <2>3 DEF Lowers
<1>11. FlaggedUp'
  <2> SUFFICES ASSUME NEW e \in Ground', e[1] \in need', e[2] \notin IpBlind PROVE e[2] \in need'
    BY DEF FlaggedUp
  <2>1. e \in Ground
    BY <1>1, <1>8, <1>9
  <2>2. e[2] \in need /\ e[1] \in Uses[e[2]][cfg[e[2]]]
    BY <1>1, <2>1 DEF GraphInv, FlaggedUp, Ground
  <2> QED BY <1>1, <1>9, <2>2 DEF Lowers
<1>12. FlaggedAbove' /\ ToldThrough'
  BY <1>1, <1>3 DEF FlaggedAbove, ToldThrough
<1>13. HardTold'
  <2>1. \A q \in present : cfg[q] = next[q] /\ cfg[q] # None
    BY <1>3, LowersThere
  <2> QED BY <1>1, <2>1 DEF HardTold, Hard
<1>14. ASSUME NEW q \in present, \E d \in Pending : q \in Down(d, Ground)
       PROVE  \E d \in Pending' : q \in Down(d, Ground')
  <2>1. PICK d \in Pending : q \in Down(d, Ground)
    BY <1>14
  <2>2. q \in Down(d, Ground')
    BY <1>8, <2>1, GroundFacts, DownMore
  <2> QED BY <1>2, <2>1, <2>2
<1>15. Ground' \subseteq Instance \X Instance
  <2>1. Ground' \subseteq present \X present
    BY <1>1 DEF Ground
  <2> QED BY <1>7, <2>1
<1>16. ASSUME NEW x \in Lowers(p), NEW d \in Pending, x \in Down(d, Ground')
       PROVE  \E y \in Pending' : p \in Down(y, Ground')
  <2>1. Closed(Down(d, Ground'), Ground') /\ <<x, p>> \in Ground'
    BY <1>8, <1>15, GroundFacts, DownClosed
  <2>2. p \in Down(d, Ground')
    BY <1>16, <2>1 DEF Closed
  <2> QED BY <1>2, <2>2
<1>17. Cared'
  <2> SUFFICES ASSUME NEW q \in present, q \notin need', ~Ready(q)'
               PROVE  \E d \in Pending' : q \in Down(d, Ground')
    BY <1>1 DEF Cared
  <2>1. CASE q # p
    <3>1. q \notin need /\ ~Ready(q)
      BY <1>1, <1>6, <1>7, <2>1 DEF Ready
    <3> QED BY <1>14, <3>1 DEF GraphInv, Cared
  <2>2. CASE q = p
    <3>1. p \in stale'
      BY <1>1, <1>4, <1>6, <2>2 DEF Ready
    <3>2. CASE p \in stale
      <4>1. PICK x \in Lowers(p) : x \in Pending
        BY <3>2 DEF GraphInv, BusyGround
      <4>2. x \in Down(x, Ground')
        BY <4>1, GroundFacts, DownSelf
      <4> QED BY <1>16, <2>2, <4>1, <4>2
    <3>3. CASE p \notin stale
      <4>1. PICK x \in Lowers(p) : ~Ready(x)
        BY <1>1, <3>1, <3>3
      <4>2. PICK d \in Pending : x \in Down(d, Ground)
        BY <1>4, <1>9, <4>1 DEF GraphInv, Cared
      <4>3. x \in Down(d, Ground')
        BY <1>8, <4>2, GroundFacts, DownMore
      <4> QED BY <1>16, <2>2, <4>2, <4>3
    <3> QED BY <3>2, <3>3
  <2> QED BY <2>1, <2>2
<1>18. BusyGround'
  <2> SUFFICES ASSUME NEW q \in busy, q # p, q \in stale'
               PROVE  \E x \in Lowers(q) : x \in Pending
    BY <1>1, <1>2 DEF BusyGround, Lowers
  <2> QED BY <1>1 DEF GraphInv, BusyGround
<1>19. UsesMapped'
  <2>1. \A q \in present : Lowers(q) \subseteq present
    BY <1>3, LowersThere
  <2> QED BY <1>1, <2>1 DEF UsesMapped, Lowers
<1> QED BY <1>10, <1>11, <1>12, <1>13, <1>17, <1>18, <1>19 DEF GraphInv

\* A device that goes is waited for by all that stands on it.
LEMMA GraphPlug ==
  ASSUME Tame, Base, HeldInv, BuiltInv, GraphInv, NEW p \in Hotplug, Plug(p)
  PROVE  GraphInv'
<1>0. /\ UNCHANGED <<present, cfg, next, need, subs, phase, job, queue, busy>>
      /\ p \in Instance /\ present \subseteq Instance
  BY EnvironmentAssumption, Types DEF Plug, instVars, lockVars, Base
<1>1. CASE p \in absent
  <2>1. /\ UNCHANGED <<runtime, stale>> /\ absent' = absent \ {p}
        /\ unsent' = unsent /\ unseen \ {p} \subseteq unseen' /\ unseen' \ {p} \subseteq unseen
        /\ missed \subseteq missed' /\ missed' \ {p} \subseteq missed
        /\ p \in present => p \in unseen' \cup unsent' \cup missed'
    BY <1>1 DEF Plug
  <2>2. \A d \in present : d \in Pending' <=> d \in Pending
    BY <1>0, <1>1, <2>1 DEF Pending, Called
  <2>3. Ground' = Ground
    BY <1>0, <2>1, <2>2, GroundSame DEF Lost
  <2> QED BY <1>0, <2>1, <2>2, <2>3, GraphHeld
<1>2. CASE p \notin absent
  <2>1. /\ runtime' = [runtime EXCEPT ![p] = None] /\ absent' = absent \cup {p}
        /\ stale' = (stale \cup Users(p)) \ {p}
        /\ unsent' = unsent /\ unseen \ {p} \subseteq unseen' /\ unseen' \ {p} \subseteq unseen
        /\ missed' = missed
    BY <1>2 DEF Plug, TornDown
  <2>2. /\ Pending' = Pending \cup {p}
    BY <1>0, <2>1 DEF Pending, Called
  <2>3. /\ runtime'[p] = None /\ \A q \in Instance : q # p => runtime'[q] = runtime[q]
    BY <1>0, <2>1, Types DEF Base
  <2>4. Lost(p)' /\ \A q \in Instance : q # p => (Lost(q)' <=> Lost(q))
    BY <2>2, <2>3 DEF Lost
  <2>5. /\ Ground' \subseteq Ground
        /\ \A e \in Ground : e[2] # p => e \in Ground'
    BY <1>0, <2>4 DEF Ground
  <2>6. ASSUME NEW q \in Instance PROVE Down(q, Ground') \subseteq Down(q, Ground)
    BY <2>5, DownMore
  <2>7. Subscribed' /\ FlaggedUp' /\ FlaggedAbove'
    BY <1>0, <2>5 DEF GraphInv, Subscribed, FlaggedUp, FlaggedAbove, Closed
  <2>8. ToldThrough'
    <3>1. \A e \in Ground' : e[2] \in Instance
      BY <2>5, GroundFacts
    <3> QED BY <1>0, <2>5, <2>6, <3>1 DEF GraphInv, ToldThrough
  <2>9. HardTold'
    BY <1>0, <2>6 DEF GraphInv, HardTold, Hard
  <2>10. Cared'
    <3> SUFFICES ASSUME NEW q \in present, q \notin need, ~Ready(q)'
                 PROVE  \E d \in Pending' : q \in Down(d, Ground')
      BY <1>0 DEF Cared
    <3>0. p \in Down(p, Ground')
      BY <1>0, DownSelf
    <3>1. CASE q = p
      BY <2>2, <3>0, <3>1
    <3>2. CASE q # p /\ Ready(q)
      <4>1. /\ q \in Instance /\ runtime[q] = cfg[q] /\ cfg[q] # None /\ q \notin stale
        BY <1>0, <3>2 DEF Ready
      <4>2. q \in Users(p)
        BY <1>0, <2>1, <2>3, <3>2, <4>1 DEF Ready
      <4>3. p \in Uses[q][cfg[q]]
        BY <4>1, <4>2 DEF Users, UsedBy
      <4>4. p \in present
        BY <4>1, <4>3 DEF GraphInv, UsesMapped
      <4>5. <<p, q>> \in Ground
        BY <4>1, <4>3, <4>4 DEF Ground, Lost
      <4>6. <<p, q>> \in Ground'
        BY <2>5, <3>2, <4>5
      <4>7. Closed(Down(p, Ground'), Ground')
        BY <1>0, <2>5, GroundFacts, DownClosed
      <4>8. q \in Down(p, Ground')
        BY <3>0, <4>6, <4>7 DEF Closed
      <4> QED BY <2>2, <4>8
    <3>3. CASE ~Ready(q)
      <4>1. PICK d \in Pending : q \in Down(d, Ground)
        BY <3>3 DEF GraphInv, Cared
      <4>2. Down(d, Ground) \subseteq Down(d, Ground') \cup Down(p, Ground')
        BY <1>0, <2>5, GroundFacts, DownDetour
      <4> QED BY <2>2, <4>1, <4>2
    <3> QED BY <3>1, <3>2, <3>3
  <2>11. BusyGround'
    <3> SUFFICES ASSUME NEW q \in busy, q \in stale' PROVE \E x \in Lowers(q) : x \in Pending'
      BY <1>0 DEF BusyGround, Lowers
    <3>1. CASE q \in stale
      BY <2>2, <3>1 DEF GraphInv, BusyGround
    <3>2. CASE q \notin stale
      <4>1. q \in Users(p) /\ q # p
        BY <2>1, <3>2
      <4>2. phase = "apply" /\ q \in present /\ q \in Instance
        BY <1>0, Types DEF Base
      <4>3. ~DryRun /\ q \in need
        BY <4>2 DEF Base, LeftInv, DryApply, HeldInv, StillDue
      <4>4. runtime[q] # None /\ p \in Uses[q][runtime[q]]
        BY <4>1 DEF Users, UsedBy
      <4>5. <<runtime[q], cfg[q]>> \in Soft(q)
        <5>1. Flushed(q)
          BY <4>2, <4>3 DEF Flushed
        <5> QED BY <4>2, <4>3, <4>4, <5>1 DEF BuiltInv, TakeOver
      <4>6. Uses[q][runtime[q]] \cap Hotplug \subseteq Uses[q][cfg[q]]
        <5>1. \A ch \in Soft(q) : Uses[q][ch[1]] \cap Hotplug \subseteq Uses[q][ch[2]]
          BY <4>2 DEF Tame, SoftChanges
        <5> QED BY <4>5, <5>1
      <4> QED BY <2>2, <4>4, <4>6 DEF Lowers
    <3> QED BY <3>1, <3>2
  <2>12. UsesMapped'
    BY <1>0, <2>3 DEF GraphInv, UsesMapped
  <2> QED BY <2>7, <2>8, <2>9, <2>10, <2>11, <2>12 DEF GraphInv
<1> QED BY <1>1, <1>2

\* An instance that is removed tells all that stands on it.
LEMMA GraphRemove ==
  ASSUME Tame, Base, HeldInv, BuiltInv, GraphInv, NEW p \in todo, Remove(p)
  PROVE  GraphInv'
<1>1. /\ phase = "mark" /\ present' = present \ {p} /\ subs' = Detached(p)
      /\ need' = (need \cup Down(p, subs)) \ {p}
      /\ cfg' = [cfg EXCEPT ![p] = None] /\ next' = [next EXCEPT ![p] = None]
      /\ queue' = Disowned(queue, p) /\ unsent' = unsent \ {p}
      /\ unseen' = unseen \ {p} /\ missed' = missed \ {p}
      /\ UNCHANGED <<absent, phase, job, busy>>
  BY DEF Remove, Reached
<1>2. \/ UNCHANGED <<runtime, stale>>
      \/ /\ ~DryRun /\ runtime' = [runtime EXCEPT ![p] = None]
         /\ stale' = (stale \cup Users(p)) \ {p}
  BY <1>1 DEF Remove, RemoveBox, TornDown, DryRun
<1>3. p \in present /\ p \in Instance /\ present \subseteq Instance /\ busy = {} /\ need \subseteq Instance
  BY <1>1, Types DEF Base
<1>4. \A q \in Instance : q # p => /\ cfg'[q] = cfg[q] /\ next'[q] = next[q]
                                   /\ runtime'[q] = runtime[q]
  BY <1>1, <1>2, <1>3, Types DEF Base
<1>5. \A d \in Instance : d # p => (d \in Called' <=> d \in Called)
  <2>1. queue \in Seq(Job)
    BY Types DEF Base
  <2>2. /\ DOMAIN queue = 1..Len(queue) /\ DOMAIN queue' = 1..Len(queue)
        /\ \A i \in 1..Len(queue) :
             queue'[i] = IF queue[i] = EventJob(p) THEN EventJob(None) ELSE queue[i]
    BY <1>1, <2>1 DEF Disowned
  <2>3. Len(queue') = Len(queue)
    <3>1. queue' = [i \in 1..Len(queue) |-> queue'[i]]
      BY <1>1, <2>2 DEF Disowned
    <3>2. Len(queue) \in Nat
      BY <2>1
    <3> QED BY <3>1, <3>2
  <2>4. \A d \in Instance : d # p => EventJob(p) # EventJob(d) /\ EventJob(None) # EventJob(d)
    BY ConfigAssumption DEF EventJob
  <2>5. \A d \in Instance : d # p =>
          \A i \in 1..Len(queue) : queue'[i] = EventJob(d) <=> queue[i] = EventJob(d)
    BY <2>2, <2>4
  <2> QED BY <1>1, <2>3, <2>5 DEF Called
<1>6. \A d \in Instance : d # p => (d \in Pending' <=> d \in Pending)
  BY <1>1, <1>5 DEF Pending
<1>7. Ground' = {e \in Ground : e[1] # p /\ e[2] # p}
  <2>1. \A q \in present' : q # p /\ q \in present /\ q \in Instance
                            /\ cfg'[q] = cfg[q] /\ (Lost(q)' <=> Lost(q))
    BY <1>1, <1>3, <1>4, <1>6 DEF Lost
  <2>2. \A q \in present : q # p => q \in present'
    BY <1>1
  <2> QED BY <2>1, <2>2 DEF Ground
<1>8. /\ Ground' \subseteq Ground /\ Ground \subseteq Instance \X Instance
      /\ Ground' \subseteq Instance \X Instance
  BY <1>7, GroundFacts
<1>9. ASSUME NEW q \in Instance, q # p
      PROVE  Down(q, Ground') \subseteq Down(q, Ground) /\ p \notin Down(q, Ground')
  <2>1. Closed(Instance \ {p}, Ground')
    BY <1>7, <1>8 DEF Closed
  <2>2. Down(q, Ground') \subseteq Instance \ {p}
    BY <1>9, <2>1, DownWithin
  <2> QED BY <1>8, <2>2, DownMore
<1>10. Down(p, Ground) \subseteq Down(p, subs) \cup need
  BY <1>1, <1>3, ToldAll
<1>11. Closed(Down(p, subs), subs) /\ p \in Down(p, subs) /\ p \in Down(p, Ground)
       /\ Closed(Down(p, Ground), Ground)
  BY <1>3, GroundFacts, DownClosed, DownSelf
<1>12. \A e \in Ground' : /\ e \in Ground /\ e[1] # p /\ e[2] # p /\ e[2] \in Instance
                          /\ e \in subs => e \in subs'
  BY <1>1, <1>7, <1>8 DEF Detached
<1>13. Subscribed'
  BY <1>1, <1>12 DEF GraphInv, Subscribed
<1>14. ToldThrough' /\ FlaggedAbove'
  <2>1. ASSUME NEW e \in Ground', e \notin subs' PROVE Down(e[2], Ground') \subseteq need'
    <3>1. Down(e[2], Ground) \subseteq need
      BY <1>1, <1>12, <2>1 DEF GraphInv, ToldThrough
    <3>2. Down(e[2], Ground') \subseteq Down(e[2], Ground) /\ p \notin Down(e[2], Ground')
      BY <1>9, <1>12
    <3> QED BY <1>1, <3>1, <3>2
  <2> QED BY <1>1, <2>1 DEF ToldThrough, FlaggedAbove
<1>15. FlaggedUp'
  <2> SUFFICES ASSUME NEW e \in Ground', e[1] \in need' PROVE e[2] \in need' \cup IpBlind
    BY DEF FlaggedUp
  <2>1. CASE e[1] \in need
    BY <1>1, <1>12, <2>1 DEF GraphInv, FlaggedUp
  <2>2. CASE e[1] \in Down(p, subs)
    BY <1>1, <1>11, <1>12, <2>2 DEF GraphInv, Subscribed, Closed
  <2> QED BY <1>1, <2>1, <2>2
<1>16. HardTold'
  <2> SUFFICES ASSUME NEW q \in present', Hard(q)' PROVE Down(q, Ground') \subseteq need'
    BY DEF HardTold
  <2>1. q \in present /\ q # p /\ q \in Instance /\ Hard(q)
    BY <1>1, <1>3, <1>4 DEF Hard
  <2>2. Down(q, Ground) \subseteq need
    BY <2>1 DEF GraphInv, HardTold
  <2> QED BY <1>1, <1>9, <2>1, <2>2
<1>17. Cared'
  <2> SUFFICES ASSUME NEW q \in present', q \notin need', ~Ready(q)'
               PROVE  \E d \in Pending' : q \in Down(d, Ground')
    BY DEF Cared
  <2>1. /\ q \in present /\ q # p /\ q \in Instance /\ q \notin need /\ q \notin Down(p, subs)
        /\ q \notin Down(p, Ground)
    BY <1>1, <1>3, <1>10
  <2>2. ~Ready(q)
    <3> SUFFICES ASSUME Ready(q) PROVE FALSE
      OBVIOUS
    <3>1. ~DryRun /\ q \in Users(p)
      BY <1>2, <1>4, <2>1 DEF Ready
    <3>2. <<p, q>> \in Ground
      BY <1>3, <2>1, <3>1, UserEdge
    <3> QED BY <1>11, <2>1, <3>2 DEF Closed
  <2>3. PICK d \in Pending : q \in Down(d, Ground)
    BY <2>1, <2>2 DEF GraphInv, Cared
  <2>4. d # p /\ d \in Instance
    BY <2>1, <2>3, GroundFacts
  <2>5. q \in Down(d, Ground')
    <3> DEFINE S == Down(d, Ground') \cup Down(p, Ground)
    <3>1. d \in Down(d, Ground') /\ Closed(Down(d, Ground'), Ground')
      BY <1>8, <2>4, DownSelf, DownClosed
    <3>2. Closed(S, Ground)
      <4> SUFFICES ASSUME NEW e \in Ground, e[1] \in S PROVE e[2] \in S
        BY DEF Closed
      <4>1. CASE e[1] \in Down(p, Ground) \/ e[2] = p \/ e[1] = p
        BY <1>11, <4>1 DEF Closed
      <4>2. CASE e[1] \in Down(d, Ground') /\ e[2] # p /\ e[1] # p
        BY <1>7, <3>1, <4>2 DEF Closed
      <4> QED BY <4>1, <4>2
    <3>3. S \in SUBSET Instance /\ d \in S
      BY <3>1 DEF Down
    <3> HIDE DEF S
    <3>4. q \in S
      BY <2>3, <2>4, <3>2, <3>3, DownWithin
    <3> QED BY <2>1, <3>4 DEF S
  <2> QED BY <1>6, <2>3, <2>4, <2>5
<1>18. BusyGround'
  BY <1>1, <1>3 DEF BusyGround
<1>19. UsesMapped'
  <2> SUFFICES ASSUME NEW q \in present', cfg'[q] # None, runtime'[q] # None, q \notin need',
                      NEW x \in Uses[q][cfg'[q]]
               PROVE  x \in present'
    BY DEF UsesMapped
  <2>1. /\ q \in present /\ q # p /\ q \in Instance /\ q \notin need /\ q \notin Down(p, subs)
        /\ cfg'[q] = cfg[q] /\ runtime'[q] = runtime[q]
    BY <1>1, <1>3, <1>4
  <2>2. x \in present
    BY <2>1 DEF GraphInv, UsesMapped
  <2>3. x # p
    <3> SUFFICES ASSUME x = p PROVE FALSE
      OBVIOUS
    <3>1. <<p, q>> \in Ground
      BY <1>3, <2>1 DEF Ground, Lost
    <3>2. <<p, q>> \in subs
      BY <2>1, <3>1 DEF GraphInv, Subscribed
    <3> QED BY <1>11, <2>1, <3>2 DEF Closed
  <2> QED BY <1>1, <2>2, <2>3
<1> QED BY <1>13, <1>14, <1>15, <1>16, <1>17, <1>18, <1>19 DEF GraphInv

\* Whatever loses its ground by a flush is flagged.
LEMMA FlushTold ==
  ASSUME Tame, Base, HeldInv, BuiltInv, GraphInv, NEW p \in todo, Flush(p), p \in need,
         NEW q \in present, q \notin need, q \in Users(p)
  PROVE  /\ q \notin stale' \/ q \in stale
         /\ runtime[p] = None \/ runtime'[p] # None
<1>1. phase = "flush" /\ p \in present /\ p \in Instance /\ next[p] \in CfgVal /\ next[p] # None
  BY Types DEF Flush, FlushTurn, Base, OrderInv, Planned
<1>2. FlushBox(p)
  BY DEF Flush
<1>3. CASE Dry \/ FlushChange(p) \in InPlace[p]
  BY <1>2, <1>3 DEF FlushBox
<1>4. CASE ~Dry /\ FlushChange(p) \notin InPlace[p]
  <2>1. ~DryRun
    BY <1>4 DEF DryRun
  <2>2. <<p, q>> \in Ground
    BY <1>1, <2>1, UserEdge
  <2>3. q \in IpBlind
    BY <2>2 DEF GraphInv, FlaggedUp
  <2>4. CASE FlushChange(p) \in FastFlush[p]
    BY <1>2, <1>4, <2>3, <2>4 DEF FlushBox, AddressesGone
  <2>5. CASE FlushChange(p) \notin FastFlush[p]
    <3>1. ~Hard(p)
      <4> SUFFICES ASSUME Hard(p) PROVE FALSE
        OBVIOUS
      <4>1. Down(p, Ground) \subseteq need
        BY <1>1 DEF GraphInv, HardTold
      <4>2. p \in Down(p, Ground) /\ Closed(Down(p, Ground), Ground)
        BY <1>1, GroundFacts, DownSelf, DownClosed
      <4> QED BY <2>2, <4>1, <4>2 DEF Closed
    <3>2. cfg[p] = next[p] /\ FlushChange(p) = <<next[p], next[p]>>
      BY <2>5, <3>1 DEF Hard, IsFull, FlushChange, FlushConfig
    <3>3. p \in Uses[q][runtime[q]] /\ runtime[q] \in CfgVal
      BY Types DEF Users, UsedBy, Base
    <3>4. <<next[p], next[p]>> \in Soft(p)
      BY <1>1, <2>3, <3>3 DEF Tame, BlindChanges
    <3> QED BY <1>4, <2>5, <3>2, <3>4 DEF Soft
  <2> QED BY <2>4, <2>5
<1> QED BY <1>3, <1>4

\* A change that is not hard changes nothing of what stands on what below.
LEMMA FlushSoft ==
  ASSUME Tame, Base, HeldInv, GraphInv, NEW p \in present, p \in need, ~Hard(p)
  PROVE  cfg[p] # None /\ (Uses[p][cfg[p]] = Uses[p][next[p]] \/ Down(p, Ground) \subseteq need)
<1>1. /\ cfg[p] # None /\ (cfg[p] = next[p] \/ <<cfg[p], next[p]>> \in Soft(p))
      /\ p \in Instance
  BY Types DEF Hard, IsFull, Soft, Base
<1>2. CASE cfg[p] = next[p]
  BY <1>1, <1>2
<1>3. CASE <<cfg[p], next[p]>> \in Soft(p)
  <2>1. \/ Uses[p][cfg[p]] = Uses[p][next[p]]
        \/ \A q \in Instance, v \in CfgVal : p \notin Uses[q][v]
    <3>1. \A ch \in Soft(p) : \/ Uses[p][ch[1]] = Uses[p][ch[2]]
                              \/ \A q \in Instance, v \in CfgVal : p \notin Uses[q][v]
      BY <1>1 DEF Tame, SoftChanges
    <3> QED BY <1>3, <3>1
  <2>2. CASE \A q \in Instance, v \in CfgVal : p \notin Uses[q][v]
    <3>1. \A e \in Ground : e[1] # p
      <4> SUFFICES ASSUME NEW e \in Ground, e[1] = p PROVE FALSE
        OBVIOUS
      <4>1. e[2] \in Instance /\ cfg[e[2]] \in CfgVal
        BY GroundFacts, Types DEF Base, Ground
      <4> QED BY <2>2, <4>1 DEF Ground
    <3>2. Closed({p}, Ground)
      BY <3>1 DEF Closed
    <3>3. Down(p, Ground) \subseteq {p}
      BY <1>1, <3>2, DownWithin
    <3> QED BY <1>1, <3>3
  <2> QED BY <1>1, <2>1, <2>2
<1> QED BY <1>1, <1>2, <1>3

\* An instance that is flushed takes its next configuration; all that stands
\* on it is flagged, or stands on it as before, or waits for a device.
LEMMA GraphFlush ==
  ASSUME Tame, Base, HeldInv, BuiltInv, GraphInv, NEW p \in todo, Flush(p)
  PROVE  GraphInv'
<1>1. /\ phase = "flush" /\ p \in present /\ p \in Instance /\ next[p] # None
      /\ UNCHANGED <<present, next, need, absent, unseen, unsent, missed, phase, job, queue, busy>>
  BY Types DEF Flush, FlushTurn, Base, OrderInv, Planned, sensorVars
<1>2. cfg' = [cfg EXCEPT ![p] = next[p]]
  <2>1. ~HasConfig(job) => cfg[p] = next[p]
    BY <1>1 DEF HeldInv, Loaded
  <2> QED BY <1>1, <2>1 DEF Flush, FlushConfig
<1>3. Pending' = Pending
  BY <1>1 DEF Pending, Called
<1>4. CASE p \notin need
  <2>1. cfg[p] = next[p]
    BY <1>1, <1>4 DEF HeldInv, Unchanged
  <2>2. cfg' = cfg
    BY <1>1, <1>2, <2>1, Types DEF Base
  <2>3. UNCHANGED <<runtime, stale, subs>>
    BY <1>4 DEF Flush
  <2>4. Ground' = Ground
    BY <1>1, <1>3, <2>2, <2>3, GroundSame DEF Lost
  <2> QED BY <1>1, <1>3, <2>2, <2>3, <2>4, GraphHeld
<1>5. CASE p \in need
  <2>1. subs' = Unsubscribed({p})
    BY <1>5 DEF Flush
  <2>2. runtime' = runtime \/ runtime' = [runtime EXCEPT ![p] = None]
    BY <1>5 DEF Flush, FlushBox, AddressesGone, TornDown
  <2>3. /\ cfg'[p] = next[p]
        /\ \A q \in Instance : q # p => cfg'[q] = cfg[q] /\ runtime'[q] = runtime[q]
        /\ runtime'[p] \in {None, runtime[p]}
    BY <1>1, <1>2, <2>2, Types DEF Base
  <2>4. present \subseteq Instance /\ need \subseteq present /\ busy = {}
    BY <1>1, Types DEF Base
  <2>5. /\ \A q \in Instance : q # p => (Lost(q)' <=> Lost(q))
        /\ Lost(p) => Lost(p)'
        /\ Lost(p)' => p \in Pending'
    BY <1>3, <2>3 DEF Lost
  <2>6. \A e \in Instance \X Instance : e[2] # p => (e \in Ground' <=> e \in Ground)
    BY <1>1, <2>3, <2>4, <2>5 DEF Ground
  <2>7. Ground' \subseteq Instance \X Instance /\ Ground \subseteq Instance \X Instance
    <3>1. Ground' \subseteq present \X present
      BY <1>1 DEF Ground
    <3> QED BY <2>4, <3>1, GroundFacts
  <2>8. Down(p, Ground') = Down(p, Ground)
    <3>1. Down(p, Ground) \subseteq Down(p, Ground')
      BY <1>1, <2>6, <2>7, DownDetour
    <3>2. Down(p, Ground') \subseteq Down(p, Ground)
      BY <1>1, <2>6, <2>7, DownDetour
    <3> QED BY <3>1, <3>2
  <2>9. ASSUME NEW d \in Instance
        PROVE  /\ Down(d, Ground) \subseteq Down(d, Ground') \cup Down(p, Ground)
               /\ Down(d, Ground') \subseteq Down(d, Ground) \cup Down(p, Ground)
    <3>1. Down(d, Ground) \subseteq Down(d, Ground') \cup Down(p, Ground')
      BY <1>1, <2>6, <2>7, DownDetour
    <3>2. Down(d, Ground') \subseteq Down(d, Ground) \cup Down(p, Ground)
      BY <1>1, <2>6, <2>7, DownDetour
    <3> QED BY <2>8, <3>1, <3>2
  <2>10. \/ Down(p, Ground) \subseteq need
         \/ Ground' \subseteq Ground /\ (Ground \subseteq Ground' \/ p \in Pending')
    <3>1. CASE Hard(p)
      BY <1>1, <3>1 DEF GraphInv, HardTold
    <3>2. CASE ~Hard(p)
      <4>1. CASE Uses[p][cfg[p]] = Uses[p][next[p]]
        <5>1. cfg[p] # None
          BY <1>1, <1>5, <3>2, FlushSoft
        <5>2. \A e \in Ground' : e[2] = p => e \in Ground
          BY <1>1, <2>3, <2>5, <4>1, <5>1 DEF Ground
        <5>3. ~Lost(p)' => \A e \in Ground : e[2] = p => e \in Ground'
          BY <1>1, <2>3, <4>1, <5>1 DEF Ground
        <5>4. Ground' \subseteq Ground
          BY <2>6, <2>7, <5>2
        <5>5. ~Lost(p)' => Ground \subseteq Ground'
          BY <2>6, <2>7, <5>3
        <5> QED BY <2>5, <5>4, <5>5
      <4> QED BY <1>1, <1>5, <3>2, <4>1, FlushSoft
    <3> QED BY <3>1, <3>2
  <2>11. Subscribed'
    <3> SUFFICES ASSUME NEW e \in Ground', e[2] # p PROVE e \in subs' \/ e[2] \in need
      BY <1>1, <1>5 DEF Subscribed
    <3>1. e \in Ground
      BY <2>6, <2>7
    <3> QED BY <2>1, <3>1 DEF GraphInv, Subscribed, Unsubscribed
  <2>12. FlaggedAbove' /\ ToldThrough'
    BY <1>1 DEF FlaggedAbove, ToldThrough
  <2>13. FlaggedUp'
    <3> SUFFICES ASSUME NEW e \in Ground', e[2] # p, e[1] \in need PROVE e[2] \in need \cup IpBlind
      BY <1>1, <1>5 DEF FlaggedUp
    <3>1. e \in Ground
      BY <2>6, <2>7
    <3> QED BY <3>1 DEF GraphInv, FlaggedUp
  <2>14. HardTold'
    <3> SUFFICES ASSUME NEW q \in present, Hard(q)' PROVE Down(q, Ground') \subseteq need
      BY <1>1 DEF HardTold
    <3>1. q # p
      BY <1>1, <2>3 DEF Hard
    <3>2. q \in Instance /\ Hard(q)
      BY <1>1, <2>3, <2>4, <3>1 DEF Hard
    <3>3. Down(q, Ground) \subseteq need
      BY <3>2 DEF GraphInv, HardTold
    <3>4. CASE Down(p, Ground) \subseteq need
      BY <2>9, <3>2, <3>3, <3>4
    <3>5. CASE Ground' \subseteq Ground
      BY <3>2, <3>3, <3>5, DownMore
    <3> QED BY <2>10, <3>4, <3>5
  <2>15. Cared'
    <3> SUFFICES ASSUME NEW q \in present, q \notin need, ~Ready(q)'
                 PROVE  \E d \in Pending' : q \in Down(d, Ground')
      BY <1>1 DEF Cared
    <3>1. q # p /\ q \in Instance
      BY <1>5, <2>4
    <3>2. CASE Ready(q)
      <4>1. q \in stale' /\ q \notin stale
        BY <2>3, <3>1, <3>2 DEF Ready
      <4>2. q \in Users(p)
        BY <1>5, <3>1, <4>1 DEF Flush, FlushBox, AddressesGone, TornDown
      <4> QED BY <1>5, <4>1, <4>2, FlushTold
    <3>3. CASE ~Ready(q)
      <4>1. PICK d \in Pending : q \in Down(d, Ground)
        BY <3>3 DEF GraphInv, Cared
      <4>2. d \in Instance
        BY GroundFacts
      <4>3. CASE q \in Down(d, Ground')
        BY <1>3, <4>1, <4>3
      <4>4. CASE q \notin Down(d, Ground')
        <5>1. q \in Down(p, Ground)
          BY <2>9, <4>1, <4>2, <4>4
        <5>2. ~(Ground \subseteq Ground')
          BY <4>1, <4>2, <4>4, DownMore
        <5>3. p \in Pending'
          BY <2>10, <5>1, <5>2
        <5> QED BY <2>8, <5>1, <5>3
      <4> QED BY <4>3, <4>4
    <3> QED BY <3>2, <3>3
  <2>16. BusyGround'
    BY <1>1, <2>4 DEF BusyGround
  <2>17. UsesMapped'
    <3> SUFFICES ASSUME NEW q \in present, cfg'[q] # None, runtime'[q] # None, q \notin need
                 PROVE  Uses[q][cfg'[q]] \subseteq present
      BY <1>1 DEF UsesMapped
    <3>1. q # p /\ q \in Instance
      BY <1>5, <2>4
    <3> QED BY <2>3, <3>1 DEF GraphInv, UsesMapped
  <2> QED BY <2>11, <2>12, <2>13, <2>14, <2>15, <2>16, <2>17 DEF GraphInv
<1> QED BY <1>4, <1>5

\* An instance that is new, or is to change, tells all that stands on it.
LEMMA GraphMark ==
  ASSUME Tame, Base, HeldInv, GraphInv, NEW k \in left, MarkClass(k)
  PROVE  GraphInv'
<1> DEFINE wanted == {p \in Instance : Pos[p] = k /\ job.arg[p] # None}
           told == UNION {Told(p, job.arg[p]) : p \in wanted}
<1>1. /\ present' = present \cup wanted
      /\ next' = [p \in Instance |-> IF p \in wanted THEN job.arg[p] ELSE next[p]]
      /\ need' = need \cup told
      /\ subs' = {e \in subs : e[2] \notin {p \in wanted : cfg[p] = None}}
      /\ phase = "mark"
      /\ UNCHANGED <<phase, job, cfg, runtime, stale, absent, unseen, unsent, missed, queue, busy>>
  <2>1. {p \in {q \in Instance : Pos[q] = k} : job.arg[p] # None} = wanted
    OBVIOUS
  <2> HIDE DEF wanted
  <2> QED BY <2>1 DEF MarkClass, boxVars, sensorVars, Unsubscribed
<1>2. HasConfig(job) /\ present \subseteq Instance /\ need \subseteq Instance /\ busy = {}
  BY <1>1, MarkTarget, Types DEF Base
<1>3. \A p \in wanted : p \in Instance /\ Pos[p] = k /\ job.arg[p] # None
  OBVIOUS
<1>4. /\ \A x \in told : \E p \in wanted : x \in Told(p, job.arg[p])
      /\ \A p \in wanted : Told(p, job.arg[p]) \subseteq told
  OBVIOUS
<1> HIDE DEF wanted, told
<1>5. ASSUME NEW p \in wanted, cfg[p] = None
      PROVE  p \notin present
  BY <1>1, <1>2, <1>3, <1>5 DEF HeldInv, Loaded, Base, OrderInv, Planned
<1>6. Pending' = Pending
  BY <1>1 DEF Pending, Called
<1>7. Ground' = Ground
  <2>1. \A p : Lost(p)' <=> Lost(p)
    BY <1>1, <1>6 DEF Lost
  <2>2. \A p \in present' : p \in Instance /\ (cfg[p] # None => p \in present)
    BY <1>1, <1>2, <1>3, Types DEF Base
  <2>3. \A p \in present : cfg[p] # None =>
          \A x \in Uses[p][cfg[p]] : x \in present' => x \in present
    BY <1>1, <1>3 DEF HeldInv, Grounded
  <2> QED BY <1>1, <2>1, <2>2, <2>3 DEF Ground
<1>8. Ground \subseteq Instance \X Instance /\ subs \subseteq Instance \X Instance
  BY GroundFacts
<1>9. \A e \in Ground : e \in subs => e \in subs'
  <2>1. \A e \in Ground : e[2] \in present
    BY DEF Ground
  <2> QED BY <1>1, <1>5, <2>1
<1>10. ASSUME NEW p \in wanted
       PROVE  \/ Told(p, job.arg[p]) = {}
              \/ Told(p, job.arg[p]) = Down(p, subs)
              \/ Told(p, job.arg[p]) = Down(p, subs) \ IpBlind
  BY DEF Told, Reached
<1>11. Subscribed' /\ ToldThrough' /\ FlaggedAbove'
  BY <1>1, <1>7, <1>9 DEF GraphInv, Subscribed, ToldThrough, FlaggedAbove
<1>12. FlaggedUp'
  <2> SUFFICES ASSUME NEW e \in Ground, e[1] \in need' PROVE e[2] \in need' \cup IpBlind
    BY <1>7 DEF FlaggedUp
  <2>1. CASE e[1] \in need \/ e \notin subs
    BY <1>1, <2>1 DEF GraphInv, FlaggedUp, Subscribed
  <2>2. CASE e[1] \in told /\ e \in subs
    <3>1. PICK p \in wanted : e[1] \in Told(p, job.arg[p])
      BY <1>4, <2>2
    <3>2. Closed(Down(p, subs), subs)
      BY <1>3, <1>8, DownClosed
    <3>3. e[2] \in Down(p, subs)
      BY <1>10, <2>2, <3>1, <3>2 DEF Closed
    <3>4. e[2] \in told \cup IpBlind
      BY <1>4, <1>10, <3>1, <3>3
    <3> QED BY <1>1, <3>4
  <2> QED BY <1>1, <2>1, <2>2
<1>13. HardTold'
  <2> SUFFICES ASSUME NEW q \in present', Hard(q)' PROVE Down(q, Ground) \subseteq need'
    BY <1>7 DEF HardTold
  <2>0. q \in Instance /\ (q \in wanted => next'[q] = job.arg[q])
        /\ (q \notin wanted => q \in present /\ next'[q] = next[q])
    BY <1>1, <1>2, <1>3
  <2>1. CASE q \in present /\ Hard(q)
    BY <1>1, <2>1 DEF GraphInv, HardTold
  <2>2. CASE q \notin present
    <3>1. q \in wanted /\ cfg[q] = None
      BY <1>1, <2>0, <2>2, Types DEF Base
    <3>2. q \in Told(q, job.arg[q])
      BY <2>0, <3>1, DownSelf DEF Told, Reached
    <3>3. Closed({q}, Ground)
      BY <2>2, GroundFacts DEF Closed
    <3>4. Down(q, Ground) \subseteq {q}
      BY <2>0, <3>3, DownWithin
    <3> QED BY <1>1, <1>4, <3>1, <3>2, <3>4
  <2>3. CASE q \in present /\ ~Hard(q)
    <3>1. q \in wanted
      BY <1>1, <2>0, <2>3 DEF Hard
    <3>2. cfg[q] # None /\ cfg[q] # job.arg[q] /\ IsFull(q, cfg[q], job.arg[q])
      BY <1>1, <2>0, <2>3, <3>1 DEF Hard, IsFull
    <3>3. Told(q, job.arg[q]) = Down(q, subs)
      BY <3>2 DEF Told, Reached
    <3>4. Down(q, Ground) \subseteq Down(q, subs) \cup need
      BY <1>1, <2>0, ToldAll
    <3> QED BY <1>1, <1>4, <3>1, <3>3, <3>4
  <2> QED BY <2>1, <2>2, <2>3
<1>14. Cared'
  <2> SUFFICES ASSUME NEW q \in present', q \notin need', ~Ready(q)
               PROVE  \E d \in Pending : q \in Down(d, Ground)
    BY <1>1, <1>6, <1>7 DEF Cared, Ready
  <2>1. CASE q \in present
    BY <1>1, <2>1 DEF GraphInv, Cared
  <2>2. CASE q \notin present
    <3>1. q \in wanted /\ cfg[q] = None
      BY <1>1, <1>3, <2>2, Types DEF Base
    <3>2. q \in Told(q, job.arg[q])
      BY <1>3, <3>1, DownSelf DEF Told, Reached
    <3> QED BY <1>1, <1>4, <3>1, <3>2
  <2> QED BY <2>1, <2>2
<1>15. BusyGround'
  BY <1>1, <1>2 DEF BusyGround
<1>16. UsesMapped'
  <2> SUFFICES ASSUME NEW q \in present', cfg[q] # None, runtime[q] # None, q \notin need'
               PROVE  Uses[q][cfg[q]] \subseteq present'
    BY <1>1 DEF UsesMapped
  <2>1. q \in present /\ q \notin need
    BY <1>1, <1>2, <1>3, Types DEF Base
  <2> QED BY <1>1, <2>1 DEF GraphInv, UsesMapped
<1> QED BY <1>11, <1>12, <1>13, <1>14, <1>15, <1>16 DEF GraphInv

-----------------------------------------------------------------------------
(* The theorems.                                                           *)

\* Every step keeps what stands on what.
LEMMA NextGraph ==
  Tame => (Base /\ HeldInv /\ HeldInv' /\ BuiltInv /\ GraphInv /\ [Next]_vars => GraphInv')
<1> SUFFICES ASSUME Tame, Base, HeldInv, HeldInv', BuiltInv, GraphInv, [Next]_vars
             PROVE  GraphInv'
  OBVIOUS
<1> QED BY StepKinds, GraphMark, GraphRemove, GraphFlush, GraphTurns, GraphStart,
           GraphApply, GraphDeferred, GraphFinish, GraphEvent, GraphRestart,
           GraphAside, GraphPlug

\* A start has nothing in the plugin map.
LEMMA InitHeld == Init => Base /\ HeldInv /\ BuiltInv /\ GraphInv
<1> SUFFICES ASSUME Init PROVE Base /\ HeldInv /\ BuiltInv /\ GraphInv
  OBVIOUS
<1>1. LoadInv /\ OrderInv
  BY ClassAssumption DEF Init, LoadInv, NextKnown, OnTarget, Positions, MarkedOnTarget,
     RemovedByTarget, NextOnTarget, FlushedOnTarget, OrderInv, Turned, BusyFirst,
     Planned, Prepared
<1>2. LeftInv
  <2>1. OneAtATime
    BY DEF Init, OneAtATime, Mine, Awaiting, HasConfig, DryJob
  <2> QED BY <2>1 DEF Init, LeftInv, RemovalsDue, StoredIsMapped, Mapped, DryApply
<1>3. HeldInv
  BY DEF Init, HeldInv, Loaded, Unchanged, Grounded, StoredIsNext, DryFlags, StillDue
<1>4. BuiltInv
  BY DEF Init, BuiltInv, TakeOver, AbsentDown
<1>5. GraphInv
  <2>1. Ground = {}
    BY DEF Init, Ground
  <2> QED BY <2>1 DEF Init, GraphInv, Subscribed, FlaggedAbove, ToldThrough, FlaggedUp,
          HardTold, Cared, BusyGround, UsesMapped, Closed
<1> QED BY <1>1, <1>2, <1>3, <1>4, <1>5, InitType DEF Base

\* Every step keeps what was proved before.
LEMMA NextBase == Tame => (Base /\ [Next]_vars => Base')
  BY NextType, NextLoad, NextOrder, NextLeft DEF Tame, Faultless, Base

\* As long as nothing fails, when nobody holds the apply lock every configured
\* instance is built as configured on ground that has not changed since, or it
\* is flagged, or a device change on its way will flag it: no change of a lower
\* plugin is forgotten, whatever requests, devices and timers come in between
\* (plugin.js:124, plugin_loader.js:234).
THEOREM ConvergedAlways ==
  ASSUME Tame
  PROVE  Spec => []Converged
<1>1. Base /\ HeldInv /\ BuiltInv /\ GraphInv /\ [Next]_vars
      => Base' /\ HeldInv' /\ BuiltInv' /\ GraphInv'
  BY NextBase, NextHeld, NextBuilt, NextGraph
<1>2. Base /\ GraphInv => Converged
  BY CaredConverged
<1>3. QED
  BY <1>1, <1>2, InitHeld, PTL DEF Spec

\* A flush pass tears an instance down only when all that is built on it has
\* had its turn and will be rebuilt (plugin_loader.js:304).
LEMMA TopFirst ==
  ASSUME Tame, Base, HeldInv, BuiltInv, GraphInv, [Next]_vars,
         NEW p \in todo, phase = "flush", p \notin todo', runtime[p] # None, runtime'[p] = None,
         NEW u \in Users(p), u \in present
  PROVE  u \in need /\ u \notin todo
<1>1. Flush(p)
  <2>1. \E q \in todo : Flush(q)
    <3>1. ~ \E k \in left : MarkClass(k)
      BY DEF MarkClass
    <3>2. ~ \E q \in todo : Remove(q)
      BY DEF Remove
    <3>3. ~StartFlush /\ ~StartApply
      BY DEF StartFlush, StartApply
    <3>4. ~ \E S \in SUBSET todo : ApplyStart(S)
      BY DEF ApplyStart
    <3>5. busy = {}
      BY Types DEF Base
    <3>6. ~FinishReapply /\ ~RunEvent
      BY DEF FinishReapply, RunEvent
    <3>7. ~Restart
      BY DEF Restart, Tame, Faultless
    <3>8. ~ \/ \E c \in NetConfigs : TryApplyConfig(c)
            \/ RollbackConfig \/ ScheduledReapply
            \/ \E q \in unsent : SendEvent(q)
            \/ \E q \in unseen : Poll(q) \/ Rewatch(q)
            \/ \E q \in Hotplug : Plug(q)
            \/ UNCHANGED vars
      BY AsideFacts
    <3> QED BY <3>1, <3>2, <3>3, <3>4, <3>5, <3>6, <3>7, <3>8, StepKinds
  <2>2. PICK q \in todo : Flush(q)
    BY <2>1
  <2>3. q = p
    BY <2>2 DEF Flush
  <2> QED BY <2>2, <2>3
<1>2. p \in need
  BY <1>1 DEF Flush
<1>3. u \in need
  BY <1>1, <1>2, FlushTold
<1>4. u \notin todo
  <2> SUFFICES ASSUME u \in todo PROVE FALSE
    OBVIOUS
  <2>1. p \in Instance /\ u \in Instance /\ runtime[u] \in CfgVal /\ p \in Uses[u][runtime[u]]
    BY Types DEF Base, Users, UsedBy
  <2>2. Pos[p] < Pos[u] /\ Pos[p] \in Nat /\ Pos[u] \in Nat
    BY <2>1, ClassAssumption
  <2>3. ascending = FALSE
    BY DEF Base, OrderInv, Turned, TypeInv, TypeOK
  <2>4. Pos[p] >= Pos[u]
    BY <1>1, <2>3 DEF Flush, FlushTurn, Foremost
  <2> QED BY <2>2, <2>4
<1> QED BY <1>3, <1>4

\* As long as nothing fails, no flush pass tears an instance down while another
\* one is still built on it (plugin_loader.js:304).
THEOREM TornDownFromTop ==
  ASSUME Tame
  PROVE  Spec => TearDownFromTop
<1>1. Base /\ HeldInv /\ BuiltInv /\ GraphInv /\ [Next]_vars
      => Base' /\ HeldInv' /\ BuiltInv' /\ GraphInv'
  BY NextBase, NextHeld, NextBuilt, NextGraph
<1>2. Base /\ HeldInv /\ BuiltInv /\ GraphInv /\ [Next]_vars
      => \A p \in todo :
           (phase = "flush" /\ p \notin todo' /\ runtime[p] # None /\ runtime'[p] = None)
           => \A u \in Users(p) : u \notin present \/ (u \in need /\ u \notin todo)
  BY TopFirst
<1>3. QED
  BY <1>1, <1>2, InitHeld, PTL DEF Spec, TearDownFromTop

=============================================================================
