--------------------------- MODULE WanCheckProofs ---------------------------
(***************************************************************************)
(* Proofs about WanCheck, for any number of tests that overlap, any WANs   *)
(* and any number of events: on what evidence "ready" changes, and which   *)
(* results count.                                                          *)
(*                                                                         *)
(* What the counts of _wanConnState stand for is related to the history    *)
(* of the results: a count below its threshold is covered by results of    *)
(* its kind in a row, or was preset and meets the first result; and a      *)
(* count at its threshold has had its effect already.                      *)
(***************************************************************************)
EXTENDS WanCheck, TLAPS

\* An unplugged interface is never taken for one behind a portal
NoPortalUnplugged == \A s \in Setups : s.wlan => "plug" \notin s.kinds

\* the counts as they are preset, before any result
Fresh ==
  seen.last = "none" => /\ state.ok = OFF_ON_THRESHOLD - 1
                        /\ state.bad = ON_OFF_THRESHOLD - 1

\* the count of failures is that of the results, or has had its effect
FailuresMeant ==
  /\ seen.last = "good" => state.bad = 0
  /\ seen.last \in {"bad", "cut"} =>
       state.bad <= seen.run \/ state.bad = ON_OFF_THRESHOLD
  /\ setup.force = None /\ state.bad = ON_OFF_THRESHOLD => ~state.ready

\* and so is that of successes
SuccessesMeant ==
  /\ seen.last \in {"bad", "cut"} => state.ok = 0
  /\ seen.last = "good" =>
       state.ok <= seen.run \/ state.ok = OFF_ON_THRESHOLD
  /\ setup.force = None /\ state.ok = OFF_ON_THRESHOLD => state.ready

\* a wireless WAN is never found unplugged
NoCut ==
  setup.wlan => /\ link
                /\ \A t \in Tests : test[t].pc # "cut"

\* a test that began before the interface was applied is marked outdated when
\* that reapply ends
StaleMarked ==
  \A t \in Tests : test[t].stale => test[t].outdated \/ loader \in {"applied", "published"}

FailuresInv == TypeOK /\ Fresh /\ FailuresMeant
SuccessesInv == FailuresInv /\ SuccessesMeant /\ NoCut
FreshInv == TypeOK /\ StaleMarked

-----------------------------------------------------------------------------
(* Types                                                                   *)

\* What handling a result does to the counts, to "ready" and to the history.
LEMMA HandleFacts ==
  ASSUME TypeOK, NEW active \in BOOLEAN, NEW carrier \in BOOLEAN,
         Handle(active, carrier)
  PROVE  /\ state' \in [ready : BOOLEAN, ok : 0..OFF_ON_THRESHOLD,
                        bad : 0..ON_OFF_THRESHOLD]
         /\ state'.ok = IF ~active THEN 0
                        ELSE IF state.ok < OFF_ON_THRESHOLD THEN state.ok + 1
                        ELSE state.ok
         /\ state'.bad = IF active THEN 0
                         ELSE IF state.bad < ON_OFF_THRESHOLD THEN state.bad + 1
                         ELSE state.bad
         /\ pending' = FALSE
         /\ seen' \in [first : BOOLEAN, last : {"none", "good", "bad", "cut"},
                       run : 0..OFF_ON_THRESHOLD]
         /\ seen'.last = IF ~carrier THEN "cut" ELSE IF active THEN "good" ELSE "bad"
         /\ seen'.first <=> seen.last = "none"
         /\ seen'.run = IF active # (seen.last = "good") THEN 1
                        ELSE IF seen.run < OFF_ON_THRESHOLD THEN seen.run + 1
                        ELSE seen.run
<1> DEFINE ok == IF ~active THEN 0
                 ELSE IF state.ok < OFF_ON_THRESHOLD THEN state.ok + 1 ELSE state.ok
           bad == IF active THEN 0
                  ELSE IF state.bad < ON_OFF_THRESHOLD THEN state.bad + 1 ELSE state.bad
           force == IF carrier THEN setup.force ELSE FALSE
           ready == Ready(Counted(state, active), force)
<1>1. state \in [ready : BOOLEAN, ok : 0..OFF_ON_THRESHOLD, bad : 0..ON_OFF_THRESHOLD]
  BY DEF TypeOK
<1>2. ok \in 0..OFF_ON_THRESHOLD /\ bad \in 0..ON_OFF_THRESHOLD
  BY <1>1 DEF OFF_ON_THRESHOLD, ON_OFF_THRESHOLD
<1>3. Counted(state, active) = [state EXCEPT !.ok = ok, !.bad = bad]
  BY <1>1 DEF Counted
<1>4. ready \in BOOLEAN
  BY DEF Ready
<1>5. state' = [Counted(state, active) EXCEPT !.ready = ready]
  BY DEF Handle
<1> HIDE DEF ok, bad, ready
<1>6. /\ state' \in [ready : BOOLEAN, ok : 0..OFF_ON_THRESHOLD, bad : 0..ON_OFF_THRESHOLD]
      /\ state'.ok = ok /\ state'.bad = bad
  BY <1>1, <1>2, <1>3, <1>4, <1>5
<1> DEFINE run == IF active # (seen.last = "good") THEN 1
                  ELSE IF seen.run < OFF_ON_THRESHOLD THEN seen.run + 1
                  ELSE seen.run
           first == seen.last = "none"
           last == IF ~carrier THEN "cut" ELSE IF active THEN "good" ELSE "bad"
<1>7. run \in 0..OFF_ON_THRESHOLD
  BY DEF TypeOK, OFF_ON_THRESHOLD
<1>8. first \in BOOLEAN /\ last \in {"none", "good", "bad", "cut"}
  OBVIOUS
<1>9. seen' = [first |-> first, last |-> last, run |-> run] /\ pending' = FALSE
  BY DEF Handle
<1> HIDE DEF run, first, last
<1>10. /\ seen' \in [first : BOOLEAN, last : {"none", "good", "bad", "cut"},
                     run : 0..OFF_ON_THRESHOLD]
       /\ seen'.last = last /\ seen'.run = run
  BY <1>7, <1>8, <1>9
<1>11. seen'.first = first
  BY <1>9
<1>12. QED
  BY <1>6, <1>9, <1>10, <1>11 DEF ok, bad, first, last, run

\* Whatever forceState is not set to: a result without a carrier ends "ready",
\* and one with a carrier asks the counts.
LEMMA HandleReady ==
  ASSUME TypeOK, setup.force = None, NEW active \in BOOLEAN,
         NEW carrier \in BOOLEAN, Handle(active, carrier)
  PROVE  state'.ready <=>
           /\ carrier
           /\ \/ state.ready /\ ~(state'.bad >= ON_OFF_THRESHOLD)
              \/ state'.ok >= OFF_ON_THRESHOLD
<1> DEFINE s == Counted(state, active)
           force == IF carrier THEN setup.force ELSE FALSE
<1>1. state \in [ready : BOOLEAN, ok : 0..OFF_ON_THRESHOLD, bad : 0..ON_OFF_THRESHOLD]
  BY DEF TypeOK
<1>2. DOMAIN s = {"ready", "ok", "bad"} /\ s.ready = state.ready
  BY <1>1 DEF Counted
<1>3. state' = [s EXCEPT !.ready = Ready(s, force)]
  BY DEF Handle
<1>4. state'.ok = s.ok /\ state'.bad = s.bad
  BY <1>2, <1>3
<1>5. state'.ready = Ready(s, force)
  <2> HIDE DEF s, force
  <2> QED BY <1>2, <1>3
<1>6. None # FALSE /\ None # TRUE
  BY NoneAssumption
<1>7. CASE carrier
  <2>1. force = None
    BY <1>7
  <2>2. Ready(s, force) <=> \/ s.ready /\ ~(s.bad >= ON_OFF_THRESHOLD)
                            \/ s.ok >= OFF_ON_THRESHOLD
    <3> HIDE DEF s, force
    <3> QED BY <2>1, <1>6, Zenon DEF Ready
  <2> HIDE DEF s, force
  <2> QED BY <1>7, <1>2, <1>4, <1>5, <2>2, Zenon
<1>8. CASE ~carrier
  <2>1. force = FALSE
    BY <1>8
  <2>2. ~Ready(s, force)
    <3> HIDE DEF s, force
    <3> QED BY <2>1, <1>6, Zenon DEF Ready
  <2> HIDE DEF s, force
  <2> QED BY <1>8, <1>5, <2>2, Zenon
<1>9. QED
  BY <1>7, <1>8

\* The phases of a test and the record of one.
Phases == {"idle", "carrier", "ping", "conntrack", "dns", "good", "bad", "cut"}
Record == [pc : Phases, was : BOOLEAN, outdated : BOOLEAN, stale : BOOLEAN]

\* Marking the tests that run keeps them records of tests.
LEMMA ChangesType ==
  ASSUME test \in [Tests -> Record], NEW field \in {"outdated", "stale"}
  PROVE  /\ Changes(field) \in [Tests -> Record]
         /\ \A t \in Tests : Changes(field)[t].pc = test[t].pc
<1>1. NoTest \in Record /\ NoTest.pc = "idle"
  BY DEF NoTest, Record, Phases
<1>2. \A t \in Tests : [test[t] EXCEPT ![field] = TRUE] \in Record
  BY DEF Record
<1>3. \A t \in Tests : [test[t] EXCEPT ![field] = TRUE].pc = test[t].pc
  BY DEF Record
<1>4. QED
  BY <1>1, <1>2, <1>3 DEF Changes

\* A test that goes on changes its phase only.
LEMMA GoesType ==
  ASSUME TypeOK, NEW t \in Tests, NEW pc \in Phases, Goes(t, pc)
  PROVE  /\ TypeOK'
         /\ test' \in [Tests -> Record]
         /\ test'[t] = [test[t] EXCEPT !.pc = pc]
         /\ \A u \in Tests \ {t} : test'[u] = test[u]
<1>1. test \in [Tests -> Record]
  BY DEF TypeOK, Record, Phases
<1>2. test' = [test EXCEPT ![t] = [test[t] EXCEPT !.pc = pc]]
  BY DEF Goes
<1>3. [test[t] EXCEPT !.pc = pc] \in Record
  BY <1>1 DEF Record
<1>4. test' \in [Tests -> Record]
  BY <1>1, <1>2, <1>3
<1>5. QED
  BY <1>1, <1>2, <1>4 DEF TypeOK, Goes, env, reapply, Record, Phases

\* A result is good for Handle or for nothing; either keeps the types.
LEMMA EndType ==
  ASSUME TypeOK, NEW t \in Tests, End(t)
  PROVE  /\ TypeOK'
         /\ test' = [test EXCEPT ![t] = NoTest]
         /\ UNCHANGED <<env, reapply>>
         /\ \/ Discarded(t) /\ UNCHANGED <<state, pending, seen>>
            \/ /\ ~Discarded(t)
               /\ Handle(test[t].pc = "good" \/ Captive, test[t].pc # "cut")
<1> DEFINE active == test[t].pc = "good" \/ Captive
           carrier == test[t].pc # "cut"
<1>1. active \in BOOLEAN /\ carrier \in BOOLEAN
  OBVIOUS
<1>2. /\ test' = [test EXCEPT ![t] = NoTest]
      /\ http' \in {http, "aged"}
      /\ web' = web \cup {"ask"}
      /\ UNCHANGED <<env, reapply>>
  BY DEF End
<1>3. \/ Discarded(t) /\ UNCHANGED <<state, pending, seen>>
      \/ ~Discarded(t) /\ Handle(active, carrier)
  BY DEF End
<1>4. /\ state' \in [ready : BOOLEAN, ok : 0..OFF_ON_THRESHOLD, bad : 0..ON_OFF_THRESHOLD]
      /\ pending' \in BOOLEAN
      /\ seen' \in [first : BOOLEAN, last : {"none", "good", "bad", "cut"},
                    run : 0..OFF_ON_THRESHOLD]
  <2>1. CASE UNCHANGED <<state, pending, seen>>
    BY <2>1 DEF TypeOK
  <2>2. CASE Handle(active, carrier)
    <3> HIDE DEF active, carrier
    <3> QED BY <1>1, <2>2, HandleFacts
  <2>3. QED
    BY <1>3, <2>1, <2>2
<1>5. test' \in [Tests -> Record]
  <2>1. NoTest \in Record
    BY DEF NoTest, Record, Phases
  <2>2. test \in [Tests -> Record]
    BY DEF TypeOK, Record, Phases
  <2>3. QED
    BY <1>2, <2>1, <2>2
<1>6. TypeOK'
  BY <1>2, <1>4, <1>5 DEF TypeOK, env, reapply, Record, Phases
<1>7. QED
  BY <1>2, <1>3, <1>6

\* A step of a test keeps the types.
LEMMA StepType ==
  ASSUME TypeOK, NEW t \in Tests, Step(t)
  PROVE  TypeOK'
<1>1. CASE Start(t)
  <2> DEFINE new == [NoTest EXCEPT !.pc = "carrier", !.was = pending]
  <2>1. new \in Record
    BY DEF TypeOK, NoTest, Record, Phases
  <2>2. test \in [Tests -> Record]
    BY DEF TypeOK, Record, Phases
  <2>3. test' = [test EXCEPT ![t] = new]
    BY <1>1 DEF Start
  <2> HIDE DEF new
  <2>4. test' \in [Tests -> Record]
    BY <2>1, <2>2, <2>3
  <2>5. QED
    BY <1>1, <2>4 DEF TypeOK, Start, env, reapply, Record, Phases
<1>2. CASE Carrier(t)
  BY <1>2, GoesType DEF Carrier, Phases
<1>3. CASE Ping(t)
  BY <1>3, GoesType DEF Ping, Phases
<1>4. CASE Conntrack(t)
  BY <1>4, GoesType DEF Conntrack, Phases
<1>5. CASE Dns(t)
  BY <1>5, GoesType DEF Dns, Phases
<1>6. CASE End(t)
  BY <1>6, EndType
<1>7. QED
  BY <1>1, <1>2, <1>3, <1>4, <1>5, <1>6 DEF Step

\* Presetting the counts leaves "ready" as it is.
LEMMA PresetFacts ==
  ASSUME state \in [ready : BOOLEAN, ok : 0..OFF_ON_THRESHOLD,
                    bad : 0..ON_OFF_THRESHOLD],
         Preset, seen' = Nothing
  PROVE  /\ state' \in [ready : BOOLEAN, ok : 0..OFF_ON_THRESHOLD,
                        bad : 0..ON_OFF_THRESHOLD]
         /\ state'.ready = state.ready
         /\ state'.ok = OFF_ON_THRESHOLD - 1
         /\ state'.bad = ON_OFF_THRESHOLD - 1
         /\ seen' \in [first : BOOLEAN, last : {"none", "good", "bad", "cut"},
                       run : 0..OFF_ON_THRESHOLD]
         /\ seen'.last = "none"
<1> DEFINE four == OFF_ON_THRESHOLD - 1
           one == ON_OFF_THRESHOLD - 1
<1>1. four \in 0..OFF_ON_THRESHOLD /\ one \in 0..ON_OFF_THRESHOLD
  BY DEF OFF_ON_THRESHOLD, ON_OFF_THRESHOLD
<1>2. state' = [state EXCEPT !.ok = four, !.bad = one]
  BY DEF Preset
<1> HIDE DEF four, one
<1>3. /\ state' \in [ready : BOOLEAN, ok : 0..OFF_ON_THRESHOLD,
                     bad : 0..ON_OFF_THRESHOLD]
      /\ state'.ok = four /\ state'.bad = one
  BY <1>1, <1>2
<1>4. state'.ready = state.ready
  BY <1>2
<1>5. 0 \in 0..OFF_ON_THRESHOLD
  BY DEF OFF_ON_THRESHOLD
<1>6. QED
  BY <1>3, <1>4, <1>5 DEF Nothing, four, one

\* So do the steps of the HTTP tests and of a reapply.
LEMMA SystemType ==
  ASSUME TypeOK, HttpAsk \/ HttpAnswer \/ HttpAges \/ Apply \/ Publishes \/ ReapplyEnds
  PROVE  TypeOK'
<1>1. CASE HttpAsk
  BY <1>1 DEF TypeOK, HttpAsk, env, reapply
<1>2. CASE HttpAnswer
  <2>1. PICK v \in web \ {"ask"} : http' = v /\ web' = web \ {v}
    BY <1>2 DEF HttpAnswer
  <2>2. v \in {"ok", "redirect"}
    BY <2>1 DEF TypeOK
  <2>3. QED
    BY <1>2, <2>1, <2>2 DEF TypeOK, HttpAnswer, env, reapply
<1>3. CASE HttpAges
  BY <1>3 DEF TypeOK, HttpAges, env, reapply
<1>4. test \in [Tests -> Record]
  BY DEF TypeOK, Record, Phases
<1>5. CASE Apply
  <2>1. test' \in [Tests -> Record]
    BY <1>4, <1>5, ChangesType DEF Apply
  <2>2. /\ state' \in [ready : BOOLEAN, ok : 0..OFF_ON_THRESHOLD, bad : 0..ON_OFF_THRESHOLD]
        /\ seen' \in [first : BOOLEAN, last : {"none", "good", "bad", "cut"},
                      run : 0..OFF_ON_THRESHOLD]
    BY <1>5, PresetFacts DEF Apply, TypeOK
  <2>3. QED
    BY <1>5, <2>1, <2>2 DEF TypeOK, Apply, env, Record, Phases
<1>6. CASE ReapplyEnds
  <2>1. test' \in [Tests -> Record]
    BY <1>4, <1>6, ChangesType DEF ReapplyEnds
  <2>2. QED
    BY <1>6, <2>1 DEF TypeOK, ReapplyEnds, env, Record, Phases
<1>7. CASE Publishes
  BY <1>7 DEF TypeOK, Publishes, env
<1>8. QED
  BY <1>1, <1>2, <1>3, <1>5, <1>6, <1>7

\* And so do the events.
LEMMA EventType ==
  ASSUME TypeOK, Environment
  PROVE  TypeOK'
<1>1. CASE Unplug
  BY <1>1 DEF TypeOK, Unplug, Happens, reapply
<1>2. Preset /\ seen' = Nothing =>
        /\ state' \in [ready : BOOLEAN, ok : 0..OFF_ON_THRESHOLD,
                       bad : 0..ON_OFF_THRESHOLD]
        /\ seen' \in [first : BOOLEAN, last : {"none", "good", "bad", "cut"},
                      run : 0..OFF_ON_THRESHOLD]
  BY PresetFacts DEF TypeOK
<1>3. CASE Plug
  BY <1>2, <1>3 DEF TypeOK, Plug, Happens, reapply
<1>4. CASE \E n \in setup.nets : NetChange(n)
  <2>1. PICK n \in setup.nets : NetChange(n)
    BY <1>4
  <2>2. n \in Nets
    BY <2>1, SetupAssumption DEF TypeOK
  <2>3. QED
    BY <2>1, <2>2 DEF TypeOK, NetChange, Happens, reapply
<1>5. CASE IpChange
  BY <1>2, <1>5 DEF TypeOK, IpChange, Happens, reapply
<1>6. CASE WpaConnected
  BY <1>6 DEF TypeOK, WpaConnected, Happens, reapply
<1>7. CASE Reapply
  BY <1>7 DEF TypeOK, Reapply, Happens
<1>8. QED
  BY <1>1, <1>3, <1>4, <1>5, <1>6, <1>7 DEF Environment

\* The types at the start.
LEMMA InitType == Init => TypeOK
<1> SUFFICES ASSUME Init PROVE TypeOK
  OBVIOUS
<1>1. NoTest \in [pc : {"idle", "carrier", "ping", "conntrack", "dns", "good",
                        "bad", "cut"},
                  was : BOOLEAN, outdated : BOOLEAN, stale : BOOLEAN]
  BY DEF NoTest
<1>2. state \in [ready : BOOLEAN, ok : 0..OFF_ON_THRESHOLD, bad : 0..ON_OFF_THRESHOLD]
  BY DEF Init, OFF_ON_THRESHOLD, ON_OFF_THRESHOLD
<1>3. seen \in [first : BOOLEAN, last : {"none", "good", "bad", "cut"},
                run : 0..OFF_ON_THRESHOLD]
  BY DEF Init, Nothing, OFF_ON_THRESHOLD
<1>4. QED
  BY <1>1, <1>2, <1>3 DEF TypeOK, Init, Nets

\* Every step keeps the types.
LEMMA NextType == TypeOK /\ [Next]_vars => TypeOK'
<1> SUFFICES ASSUME TypeOK, [Next]_vars PROVE TypeOK'
  OBVIOUS
<1>1. CASE UNCHANGED vars
  BY <1>1 DEF TypeOK, vars
<1>2. CASE Next
  BY <1>2, StepType, SystemType, EventType DEF Next, System
<1>3. QED
  BY <1>1, <1>2

-----------------------------------------------------------------------------
(* On what evidence "ready" changes                                        *)

\* The counts and the history change together: when a result counts, or when
\* the counts are preset and the history starts again.
LEMMA Moves ==
  ASSUME TypeOK, [Next]_vars
  PROVE  /\ setup' = setup
         /\ \/ UNCHANGED <<state, seen>>
            \/ Preset /\ seen' = Nothing
            \/ \E t \in Tests :
                 Handle(test[t].pc = "good" \/ Captive, test[t].pc # "cut")
<1>1. CASE UNCHANGED vars
  BY <1>1 DEF vars
<1>2. ASSUME NEW t \in Tests, Step(t)
      PROVE  /\ setup' = setup
             /\ UNCHANGED <<state, seen>>
                \/ Handle(test[t].pc = "good" \/ Captive, test[t].pc # "cut")
  <2>1. CASE End(t)
    BY <2>1, EndType DEF env
  <2>2. CASE ~End(t)
    BY <1>2, <2>2 DEF Step, Start, Carrier, Ping, Conntrack, Dns, Goes, env
  <2>3. QED
    BY <2>1, <2>2
<1>3. CASE \E t \in Tests : Step(t)
  BY <1>2, <1>3
<1>4. CASE HttpAsk \/ HttpAnswer \/ HttpAges \/ Apply \/ Publishes \/ ReapplyEnds
  BY <1>4 DEF HttpAsk, HttpAnswer, HttpAges, Apply, Publishes, ReapplyEnds, env
<1>5. CASE Environment
  BY <1>5 DEF Environment, Unplug, Plug, NetChange, IpChange, WpaConnected,
              Reapply, Happens
<1>6. QED
  BY <1>1, <1>3, <1>4, <1>5 DEF Next, System

\* A result that counts leaves the count of failures meaning what it says.
LEMMA HandleFailures ==
  ASSUME FailuresInv, NEW active \in BOOLEAN, NEW carrier \in BOOLEAN,
         Handle(active, carrier), setup' = setup
  PROVE  Fresh' /\ FailuresMeant'
<1>1. TypeOK /\ Fresh /\ FailuresMeant
  BY DEF FailuresInv
<1>2. /\ state'.bad = IF active THEN 0
                      ELSE IF state.bad < ON_OFF_THRESHOLD THEN state.bad + 1
                      ELSE state.bad
      /\ state'.ok = IF ~active THEN 0
                     ELSE IF state.ok < OFF_ON_THRESHOLD THEN state.ok + 1
                     ELSE state.ok
      /\ seen'.last = IF ~carrier THEN "cut" ELSE IF active THEN "good" ELSE "bad"
      /\ seen'.run = IF active # (seen.last = "good") THEN 1
                     ELSE IF seen.run < OFF_ON_THRESHOLD THEN seen.run + 1
                     ELSE seen.run
  BY <1>1, HandleFacts
<1>3. /\ state.ok \in 0..OFF_ON_THRESHOLD /\ state.bad \in 0..ON_OFF_THRESHOLD
      /\ seen.run \in 0..OFF_ON_THRESHOLD
      /\ seen.last \in {"none", "good", "bad", "cut"}
  BY <1>1 DEF TypeOK
<1>4. Fresh'
  BY <1>2 DEF Fresh
<1>5. seen'.last = "good" => state'.bad = 0
  BY <1>2
<1>6. state'.bad <= seen'.run \/ state'.bad = ON_OFF_THRESHOLD
  <2>1. CASE active
    <3>1. seen'.run \in 0..OFF_ON_THRESHOLD
      BY <1>1, HandleFacts
    <3>2. state'.bad = 0
      BY <2>1, <1>2
    <3>3. QED
      BY <3>1, <3>2 DEF OFF_ON_THRESHOLD
  <2>2. CASE ~active /\ seen.last = "none"
    BY <2>2, <1>1, <1>2, <1>3 DEF Fresh, OFF_ON_THRESHOLD, ON_OFF_THRESHOLD
  <2>3. CASE ~active /\ seen.last = "good"
    BY <2>3, <1>1, <1>2, <1>3 DEF FailuresMeant, OFF_ON_THRESHOLD, ON_OFF_THRESHOLD
  <2>4. CASE ~active /\ seen.last \in {"bad", "cut"}
    <3>1. state.bad <= seen.run \/ state.bad = ON_OFF_THRESHOLD
      BY <2>4, <1>1 DEF FailuresMeant
    <3>2. QED
      BY <2>4, <3>1, <1>2, <1>3 DEF OFF_ON_THRESHOLD, ON_OFF_THRESHOLD
  <2>5. QED
    BY <2>1, <2>2, <2>3, <2>4, <1>3
<1>7. ASSUME setup.force = None, state'.bad = ON_OFF_THRESHOLD
      PROVE  ~state'.ready
  <2>1. state'.ready <=>
          /\ carrier
          /\ \/ state.ready /\ ~(state'.bad >= ON_OFF_THRESHOLD)
             \/ state'.ok >= OFF_ON_THRESHOLD
    BY <1>1, <1>7, HandleReady
  <2>2. state'.bad >= ON_OFF_THRESHOLD /\ ~(state'.ok >= OFF_ON_THRESHOLD)
    BY <1>7, <1>2, <1>3 DEF OFF_ON_THRESHOLD, ON_OFF_THRESHOLD
  <2>3. QED
    BY <2>1, <2>2
<1>8. FailuresMeant'
  BY <1>5, <1>6, <1>7 DEF FailuresMeant
<1>9. QED
  BY <1>4, <1>8

\* The count of failures means what it says in every reachable state.
LEMMA FailuresStep == FailuresInv /\ [Next]_vars => FailuresInv'
<1> SUFFICES ASSUME FailuresInv, [Next]_vars PROVE FailuresInv'
  OBVIOUS
<1>1. TypeOK /\ Fresh /\ FailuresMeant
  BY DEF FailuresInv
<1>2. TypeOK'
  BY <1>1, NextType
<1>3. setup' = setup
  BY <1>1, Moves
<1>4. CASE UNCHANGED <<state, seen>>
  BY <1>1, <1>2, <1>3, <1>4 DEF FailuresInv, Fresh, FailuresMeant
<1>5. CASE Preset /\ seen' = Nothing
  <2>1. /\ state'.bad = ON_OFF_THRESHOLD - 1 /\ state'.ok = OFF_ON_THRESHOLD - 1
        /\ seen'.last = "none"
    BY <1>1, <1>5, PresetFacts DEF TypeOK
  <2>2. ON_OFF_THRESHOLD - 1 # ON_OFF_THRESHOLD
    BY DEF ON_OFF_THRESHOLD
  <2>3. QED
    BY <1>2, <2>1, <2>2 DEF FailuresInv, Fresh, FailuresMeant
<1>6. CASE \E t \in Tests : Handle(test[t].pc = "good" \/ Captive, test[t].pc # "cut")
  <2>1. PICK t \in Tests : Handle(test[t].pc = "good" \/ Captive, test[t].pc # "cut")
    BY <1>6
  <2> DEFINE active == test[t].pc = "good" \/ Captive
             carrier == test[t].pc # "cut"
  <2>2. active \in BOOLEAN /\ carrier \in BOOLEAN /\ Handle(active, carrier)
    BY <2>1
  <2> HIDE DEF active, carrier
  <2>3. Fresh' /\ FailuresMeant'
    BY <1>3, <2>2, HandleFailures
  <2>4. QED
    BY <1>2, <2>3 DEF FailuresInv
<1>7. QED
  BY <1>1, <1>4, <1>5, <1>6, Moves

\* It does at the start.
LEMMA FailuresInit == Init => FailuresInv
<1> SUFFICES ASSUME Init PROVE FailuresInv
  OBVIOUS
<1>1. /\ seen.last = "none" /\ state.ok = OFF_ON_THRESHOLD - 1
      /\ state.bad = ON_OFF_THRESHOLD - 1
  BY DEF Init, Nothing
<1>2. ON_OFF_THRESHOLD - 1 # ON_OFF_THRESHOLD
  BY DEF ON_OFF_THRESHOLD
<1>3. QED
  BY <1>1, <1>2, InitType DEF FailuresInv, Fresh, FailuresMeant

\* The count of failures means what it says.
LEMMA FailuresAlways == Spec => []FailuresInv
<1>1. QED
  BY FailuresInit, FailuresStep, PTL DEF Spec

\* A WAN is given up on evidence: a failure that is the first result since the
\* last change, a second failure in a row, or a result without a carrier.
GivenUp ==
  [][setup.force = None /\ state.ready /\ ~state'.ready =>
       /\ seen'.last \in {"bad", "cut"}
       /\ seen'.first \/ seen'.last = "cut" \/ seen'.run >= ON_OFF_THRESHOLD]_vars

\* A step that gives up a WAN has the evidence.
LEMMA GivenUpStep ==
  ASSUME FailuresInv, [Next]_vars, setup.force = None, state.ready, ~state'.ready
  PROVE  /\ seen'.last \in {"bad", "cut"}
         /\ seen'.first \/ seen'.last = "cut" \/ seen'.run >= ON_OFF_THRESHOLD
<1>1. TypeOK /\ Fresh /\ FailuresMeant
  BY DEF FailuresInv
<1>2. state' # state /\ ~(Preset /\ seen' = Nothing)
  BY <1>1, PresetFacts DEF TypeOK
<1>3. PICK t \in Tests : Handle(test[t].pc = "good" \/ Captive, test[t].pc # "cut")
  BY <1>1, <1>2, Moves
<1> DEFINE active == test[t].pc = "good" \/ Captive
           carrier == test[t].pc # "cut"
<1>4. active \in BOOLEAN /\ carrier \in BOOLEAN /\ Handle(active, carrier)
  BY <1>3
<1> HIDE DEF active, carrier
<1>5. /\ state'.bad = IF active THEN 0
                      ELSE IF state.bad < ON_OFF_THRESHOLD THEN state.bad + 1
                      ELSE state.bad
      /\ seen'.last = IF ~carrier THEN "cut" ELSE IF active THEN "good" ELSE "bad"
      /\ seen'.first <=> seen.last = "none"
      /\ seen'.run = IF active # (seen.last = "good") THEN 1
                     ELSE IF seen.run < OFF_ON_THRESHOLD THEN seen.run + 1
                     ELSE seen.run
  BY <1>1, <1>4, HandleFacts
<1>6. ~carrier \/ state'.bad >= ON_OFF_THRESHOLD
  <2>1. state'.ready <=>
          /\ carrier
          /\ \/ state.ready /\ ~(state'.bad >= ON_OFF_THRESHOLD)
             \/ state'.ok >= OFF_ON_THRESHOLD
    BY <1>1, <1>4, HandleReady
  <2>2. QED
    BY <2>1
<1>7. CASE ~carrier
  BY <1>5, <1>7
<1>8. CASE carrier
  <2>1. ~active
    BY <1>5, <1>6, <1>8 DEF ON_OFF_THRESHOLD
  <2>2. state.bad \in 0..ON_OFF_THRESHOLD /\ seen.run \in 0..OFF_ON_THRESHOLD
        /\ seen.last \in {"none", "good", "bad", "cut"}
    BY <1>1 DEF TypeOK
  <2>3. state.bad # ON_OFF_THRESHOLD
    BY <1>1 DEF FailuresMeant
  <2>4. state.bad = ON_OFF_THRESHOLD - 1
    BY <1>5, <1>6, <1>8, <2>1, <2>2, <2>3 DEF ON_OFF_THRESHOLD
  <2>5. seen.last # "good"
    BY <1>1, <2>4 DEF FailuresMeant, ON_OFF_THRESHOLD
  <2>6. CASE seen.last = "none"
    BY <1>5, <1>8, <2>1, <2>6
  <2>7. CASE seen.last \in {"bad", "cut"}
    <3>1. state.bad <= seen.run
      BY <1>1, <2>3, <2>7 DEF FailuresMeant
    <3>2. seen'.run = IF seen.run < OFF_ON_THRESHOLD THEN seen.run + 1 ELSE seen.run
      <4>1. ~(active # (seen.last = "good"))
        BY <1>4, <2>1, <2>7
      <4>2. QED
        BY <1>5, <4>1
    <3>3. seen'.run >= ON_OFF_THRESHOLD
      BY <2>2, <2>4, <3>1, <3>2 DEF ON_OFF_THRESHOLD, OFF_ON_THRESHOLD
    <3>4. QED
      BY <1>5, <1>8, <2>1, <3>3
  <2>8. QED
    BY <2>2, <2>5, <2>6, <2>7
<1>9. QED
  BY <1>7, <1>8

\* However many tests overlap and whatever happens between them, a WAN, of
\* whichever kind, is given up on evidence only.
THEOREM GivenUpOnEvidence == Spec => GivenUp
<1>1. FailuresInv /\ [Next]_vars =>
        (setup.force = None /\ state.ready /\ ~state'.ready =>
           /\ seen'.last \in {"bad", "cut"}
           /\ seen'.first \/ seen'.last = "cut" \/ seen'.run >= ON_OFF_THRESHOLD)
  BY GivenUpStep
<1>2. QED
  BY <1>1, FailuresAlways, PTL DEF Spec, GivenUp

\* Without a portal a result that lacks the carrier is a failure.
LEMMA CutFails ==
  ASSUME TypeOK, NoCut, NEW t \in Tests, ~(test[t].pc # "cut")
  PROVE  ~(test[t].pc = "good" \/ Captive)
<1>1. QED
  BY DEF NoCut, Captive

\* A result that counts leaves the count of successes meaning what it says,
\* as long as one without a carrier is a failure.
LEMMA HandleSuccesses ==
  ASSUME FailuresInv, SuccessesMeant, NEW active \in BOOLEAN,
         NEW carrier \in BOOLEAN, ~carrier => ~active,
         Handle(active, carrier), setup' = setup
  PROVE  SuccessesMeant'
<1>1. TypeOK /\ Fresh /\ FailuresMeant
  BY DEF FailuresInv
<1>2. /\ state'.ok = IF ~active THEN 0
                     ELSE IF state.ok < OFF_ON_THRESHOLD THEN state.ok + 1
                     ELSE state.ok
      /\ state'.bad = IF active THEN 0
                      ELSE IF state.bad < ON_OFF_THRESHOLD THEN state.bad + 1
                      ELSE state.bad
      /\ seen'.last = IF ~carrier THEN "cut" ELSE IF active THEN "good" ELSE "bad"
      /\ seen'.run = IF active # (seen.last = "good") THEN 1
                     ELSE IF seen.run < OFF_ON_THRESHOLD THEN seen.run + 1
                     ELSE seen.run
      /\ seen'.run \in 0..OFF_ON_THRESHOLD
  BY <1>1, HandleFacts
<1>3. /\ state.ok \in 0..OFF_ON_THRESHOLD /\ seen.run \in 0..OFF_ON_THRESHOLD
      /\ seen.last \in {"none", "good", "bad", "cut"}
  BY <1>1 DEF TypeOK
<1>4. CASE ~active
  <2>1. state'.ok = 0 /\ seen'.last \in {"bad", "cut"}
    BY <1>2, <1>4
  <2>2. state'.ok # OFF_ON_THRESHOLD
    BY <2>1 DEF OFF_ON_THRESHOLD
  <2>3. QED
    BY <2>1, <2>2 DEF SuccessesMeant
<1>5. CASE active
  <2>1. seen'.last = "good" /\ carrier
    BY <1>2, <1>5
  <2>2. state'.ok <= seen'.run \/ state'.ok = OFF_ON_THRESHOLD
    <3>1. state'.ok = IF state.ok < OFF_ON_THRESHOLD THEN state.ok + 1 ELSE state.ok
      BY <1>2, <1>5
    <3>2. CASE seen.last = "none"
      BY <3>1, <3>2, <1>1 DEF Fresh, OFF_ON_THRESHOLD
    <3>3. CASE seen.last = "good"
      <4>1. seen'.run = IF seen.run < OFF_ON_THRESHOLD THEN seen.run + 1 ELSE seen.run
        <5>1. ~(active # (seen.last = "good"))
          BY <1>5, <3>3
        <5>2. QED
          BY <1>2, <5>1
      <4>2. state.ok <= seen.run \/ state.ok = OFF_ON_THRESHOLD
        BY <3>3 DEF SuccessesMeant
      <4>3. QED
        BY <1>3, <3>1, <4>1, <4>2 DEF OFF_ON_THRESHOLD
    <3>4. CASE seen.last \in {"bad", "cut"}
      <4>1. state'.ok = 1
        BY <3>1, <3>4 DEF SuccessesMeant, OFF_ON_THRESHOLD
      <4>2. active # (seen.last = "good")
        BY <1>5, <3>4
      <4>3. seen'.run = 1
        BY <1>2, <4>2
      <4>4. QED
        BY <4>1, <4>3
    <3>5. QED
      BY <1>3, <3>2, <3>3, <3>4
  <2>3. ASSUME setup.force = None, state'.ok = OFF_ON_THRESHOLD
        PROVE  state'.ready
    <3>1. state'.ready <=>
            /\ carrier
            /\ \/ state.ready /\ ~(state'.bad >= ON_OFF_THRESHOLD)
               \/ state'.ok >= OFF_ON_THRESHOLD
      BY <1>1, <2>3, HandleReady
    <3>2. state'.ok >= OFF_ON_THRESHOLD
      BY <2>3 DEF OFF_ON_THRESHOLD
    <3>3. QED
      BY <2>1, <3>1, <3>2
  <2>4. QED
    BY <2>1, <2>2, <2>3 DEF SuccessesMeant
<1>6. QED
  BY <1>4, <1>5

\* No step finds a wireless WAN unplugged that cannot be unplugged.
LEMMA NoCutStep ==
  ASSUME NoPortalUnplugged, TypeOK, NoCut, [Next]_vars
  PROVE  NoCut'
<1>1. setup \in Setups /\ setup' = setup
  BY Moves DEF TypeOK
<1> SUFFICES ASSUME setup.wlan
             PROVE  link' /\ \A t \in Tests : test'[t].pc # "cut"
  BY <1>1 DEF NoCut
<1>2. link /\ (\A t \in Tests : test[t].pc # "cut") /\ "plug" \notin setup.kinds
  BY <1>1 DEF NoCut, NoPortalUnplugged
<1>3. test \in [Tests -> Record]
  BY DEF TypeOK, Record, Phases
<1>4. CASE UNCHANGED vars
  BY <1>2, <1>4 DEF vars
<1>5. ASSUME NEW t \in Tests, Step(t)
      PROVE  link' /\ \A u \in Tests : test'[u].pc # "cut"
  <2>1. link' = link
    BY <1>5 DEF Step, Start, Carrier, Ping, Conntrack, Dns, End, Goes, env
  <2>2. CASE Start(t)
    <3>1. /\ test' = [test EXCEPT ![t] = [NoTest EXCEPT !.pc = "carrier", !.was = pending]]
          /\ [NoTest EXCEPT !.pc = "carrier", !.was = pending].pc = "carrier"
      BY <2>2 DEF Start, NoTest
    <3>2. \A u \in Tests : test'[u].pc = test[u].pc \/ test'[u].pc = "carrier"
      BY <1>3, <3>1
    <3>3. QED
      BY <1>2, <2>1, <3>2
  <2>3. CASE End(t)
    <3>1. test' = [test EXCEPT ![t] = NoTest] /\ NoTest.pc = "idle"
      BY <2>3, EndType DEF NoTest
    <3>2. \A u \in Tests : test'[u].pc = test[u].pc \/ test'[u].pc = "idle"
      BY <1>3, <3>1
    <3>3. QED
      BY <1>2, <2>1, <3>2
  <2>4. CASE ~Start(t) /\ ~End(t)
    <3>1. PICK pc \in Phases \ {"cut"} : Goes(t, pc)
      BY <1>2, <1>5, <2>4 DEF Step, Carrier, Ping, Conntrack, Dns, Phases
    <3>2. /\ test'[t] = [test[t] EXCEPT !.pc = pc]
          /\ \A u \in Tests \ {t} : test'[u] = test[u]
      BY <3>1, GoesType
    <3>3. test'[t].pc = pc
      BY <1>3, <3>2 DEF Record
    <3>4. QED
      BY <1>2, <2>1, <3>1, <3>2, <3>3
  <2>5. QED
    BY <2>2, <2>3, <2>4
<1>6. CASE \E t \in Tests : Step(t)
  BY <1>5, <1>6
<1>7. CASE HttpAsk \/ HttpAnswer \/ HttpAges \/ Publishes
  BY <1>2, <1>7 DEF HttpAsk, HttpAnswer, HttpAges, Publishes, env
<1>8. CASE Apply \/ ReapplyEnds
  <2>1. PICK field \in {"outdated", "stale"} : test' = Changes(field)
    BY <1>8 DEF Apply, ReapplyEnds
  <2>2. link' = link
    BY <1>8 DEF Apply, ReapplyEnds, env
  <2>3. \A t \in Tests : Changes(field)[t].pc = test[t].pc
    BY <1>3, ChangesType
  <2>4. \A t \in Tests : test'[t].pc = test[t].pc
    BY <2>1, <2>3
  <2>5. QED
    BY <1>2, <2>2, <2>4
<1>9. CASE Environment
  BY <1>2, <1>9 DEF Environment, Unplug, Plug, NetChange, IpChange, WpaConnected,
                    Reapply, Happens
<1>10. QED
  BY <1>4, <1>6, <1>7, <1>8, <1>9 DEF Next, System

\* The counts mean what they say in every reachable state.
LEMMA SuccessesStep ==
  ASSUME NoPortalUnplugged
  PROVE  SuccessesInv /\ [Next]_vars => SuccessesInv'
<1> SUFFICES ASSUME SuccessesInv, [Next]_vars PROVE SuccessesInv'
  OBVIOUS
<1>1. FailuresInv /\ SuccessesMeant /\ NoCut /\ TypeOK
  BY DEF SuccessesInv, FailuresInv
<1>2. FailuresInv' /\ NoCut' /\ setup' = setup
  BY <1>1, FailuresStep, NoCutStep, Moves
<1>3. CASE UNCHANGED <<state, seen>>
  BY <1>1, <1>2, <1>3 DEF SuccessesInv, SuccessesMeant
<1>4. CASE Preset /\ seen' = Nothing
  <2>1. state'.ok = OFF_ON_THRESHOLD - 1 /\ seen'.last = "none"
    BY <1>1, <1>4, PresetFacts DEF TypeOK
  <2>2. OFF_ON_THRESHOLD - 1 # OFF_ON_THRESHOLD
    BY DEF OFF_ON_THRESHOLD
  <2>3. QED
    BY <1>2, <2>1, <2>2 DEF SuccessesInv, SuccessesMeant
<1>5. CASE \E t \in Tests : Handle(test[t].pc = "good" \/ Captive, test[t].pc # "cut")
  <2>1. PICK t \in Tests : Handle(test[t].pc = "good" \/ Captive, test[t].pc # "cut")
    BY <1>5
  <2> DEFINE active == test[t].pc = "good" \/ Captive
             carrier == test[t].pc # "cut"
  <2>2. active \in BOOLEAN /\ carrier \in BOOLEAN /\ Handle(active, carrier)
    BY <2>1
  <2>3. ~carrier => ~active
    BY <1>1, CutFails
  <2> HIDE DEF active, carrier
  <2>4. SuccessesMeant'
    BY <1>1, <1>2, <2>2, <2>3, HandleSuccesses
  <2>5. QED
    BY <1>2, <2>4 DEF SuccessesInv
<1>6. QED
  BY <1>1, <1>3, <1>4, <1>5, Moves

\* They do at the start.
LEMMA SuccessesInit == Init => SuccessesInv
<1> SUFFICES ASSUME Init PROVE SuccessesInv
  OBVIOUS
<1>1. seen.last = "none" /\ state.ok = OFF_ON_THRESHOLD - 1
  BY DEF Init, Nothing
<1>2. OFF_ON_THRESHOLD - 1 # OFF_ON_THRESHOLD
  BY DEF OFF_ON_THRESHOLD
<1>3. link /\ \A t \in Tests : test[t].pc # "cut"
  BY DEF Init, NoTest
<1>4. QED
  BY <1>1, <1>2, <1>3, FailuresInit DEF SuccessesInv, SuccessesMeant, NoCut

\* A step that takes a WAN again has the evidence.
LEMMA TakenStep ==
  ASSUME SuccessesInv, [Next]_vars, setup.force = None, ~state.ready, state'.ready
  PROVE  /\ seen'.last = "good"
         /\ seen'.first \/ seen'.run >= OFF_ON_THRESHOLD
<1>1. TypeOK /\ Fresh /\ SuccessesMeant /\ NoCut
  BY DEF SuccessesInv, FailuresInv
<1>2. state' # state /\ ~(Preset /\ seen' = Nothing)
  BY <1>1, PresetFacts DEF TypeOK
<1>3. PICK t \in Tests : Handle(test[t].pc = "good" \/ Captive, test[t].pc # "cut")
  BY <1>1, <1>2, Moves
<1> DEFINE active == test[t].pc = "good" \/ Captive
           carrier == test[t].pc # "cut"
<1>4. active \in BOOLEAN /\ carrier \in BOOLEAN /\ Handle(active, carrier)
  BY <1>3
<1> HIDE DEF active, carrier
<1>5. /\ state'.ok = IF ~active THEN 0
                     ELSE IF state.ok < OFF_ON_THRESHOLD THEN state.ok + 1
                     ELSE state.ok
      /\ seen'.last = IF ~carrier THEN "cut" ELSE IF active THEN "good" ELSE "bad"
      /\ seen'.first <=> seen.last = "none"
      /\ seen'.run = IF active # (seen.last = "good") THEN 1
                     ELSE IF seen.run < OFF_ON_THRESHOLD THEN seen.run + 1
                     ELSE seen.run
  BY <1>1, <1>4, HandleFacts
<1>6. carrier /\ state'.ok >= OFF_ON_THRESHOLD
  <2>1. state'.ready <=>
          /\ carrier
          /\ \/ state.ready /\ ~(state'.bad >= ON_OFF_THRESHOLD)
             \/ state'.ok >= OFF_ON_THRESHOLD
    BY <1>1, <1>4, HandleReady
  <2>2. QED
    BY <2>1
<1>7. active
  BY <1>5, <1>6 DEF OFF_ON_THRESHOLD
<1>8. /\ state.ok \in 0..OFF_ON_THRESHOLD /\ seen.run \in 0..OFF_ON_THRESHOLD
      /\ seen.last \in {"none", "good", "bad", "cut"}
  BY <1>1 DEF TypeOK
<1>9. state.ok # OFF_ON_THRESHOLD
  BY <1>1 DEF SuccessesMeant
<1>10. state.ok = OFF_ON_THRESHOLD - 1
  BY <1>5, <1>6, <1>7, <1>8, <1>9 DEF OFF_ON_THRESHOLD
<1>11. seen.last \notin {"bad", "cut"}
  BY <1>1, <1>10 DEF SuccessesMeant, OFF_ON_THRESHOLD
<1>12. CASE seen.last = "none"
  BY <1>5, <1>6, <1>7, <1>12
<1>13. CASE seen.last = "good"
  <2>1. state.ok <= seen.run
    BY <1>1, <1>9, <1>13 DEF SuccessesMeant
  <2>2. ~(active # (seen.last = "good"))
    BY <1>7, <1>13
  <2>3. seen'.run = IF seen.run < OFF_ON_THRESHOLD THEN seen.run + 1 ELSE seen.run
    BY <1>5, <2>2
  <2>4. seen'.run >= OFF_ON_THRESHOLD
    BY <1>8, <1>10, <2>1, <2>3 DEF OFF_ON_THRESHOLD
  <2>5. QED
    BY <1>5, <1>6, <1>7, <2>4
<1>14. QED
  BY <1>8, <1>11, <1>12, <1>13

\* And it is taken again on evidence only: the first result since the last
\* change, or five successes in a row.
THEOREM EvidenceAlways ==
  ASSUME NoPortalUnplugged
  PROVE  Spec => Evidence
<1>1. SuccessesInv /\ [Next]_vars => SuccessesInv'
  BY SuccessesStep
<1> DEFINE Sound ==
      setup.force = None =>
        /\ state.ready /\ ~state'.ready =>
             /\ seen'.last \in {"bad", "cut"}
             /\ seen'.first \/ seen'.last = "cut" \/ seen'.run >= ON_OFF_THRESHOLD
        /\ ~state.ready /\ state'.ready =>
             /\ seen'.last = "good"
             /\ seen'.first \/ seen'.run >= OFF_ON_THRESHOLD
<1>2. SuccessesInv /\ [Next]_vars => Sound
  BY GivenUpStep, TakenStep DEF SuccessesInv
<1>3. Evidence <=> [][Sound]_vars
  BY DEF Evidence
<1> HIDE DEF Sound
<1>4. Spec => [][Sound]_vars
  BY <1>1, <1>2, SuccessesInit, PTL DEF Spec
<1>5. QED
  BY <1>3, <1>4

-----------------------------------------------------------------------------
(* Which results count                                                     *)

\* A step of a test marks nothing, and a test that starts is not marked.
LEMMA StepMarks ==
  ASSUME TypeOK, NEW t \in Tests, Step(t)
  PROVE  /\ loader' = loader
         /\ \A u \in Tests : test'[u].stale =>
              test[u].stale /\ test'[u].outdated = test[u].outdated
<1>1. test \in [Tests -> Record]
  BY DEF TypeOK, Record, Phases
<1>2. loader' = loader
  BY DEF Step, Start, Carrier, Ping, Conntrack, Dns, End, Goes, reapply
<1>3. CASE Start(t)
  <2> DEFINE new == [NoTest EXCEPT !.pc = "carrier", !.was = pending]
  <2>1. ~new.stale
    BY DEF NoTest
  <2>2. test' = [test EXCEPT ![t] = new]
    BY <1>3 DEF Start
  <2> HIDE DEF new
  <2>3. QED
    BY <1>1, <1>2, <2>1, <2>2
<1>4. CASE End(t)
  <2>1. test' = [test EXCEPT ![t] = NoTest] /\ ~NoTest.stale
    BY <1>4, EndType DEF NoTest
  <2>2. QED
    BY <1>1, <1>2, <2>1
<1>5. CASE ~Start(t) /\ ~End(t)
  <2>1. PICK pc \in Phases : Goes(t, pc)
    BY <1>5 DEF Step, Carrier, Ping, Conntrack, Dns, Phases
  <2>2. /\ test'[t] = [test[t] EXCEPT !.pc = pc]
        /\ \A u \in Tests \ {t} : test'[u] = test[u]
    BY <2>1, GoesType
  <2>3. test[t] \in Record
    BY <1>1
  <2>4. test'[t].stale = test[t].stale /\ test'[t].outdated = test[t].outdated
    BY <2>2, <2>3 DEF Record
  <2>5. QED
    BY <1>2, <2>2, <2>4
<1>6. QED
  BY <1>3, <1>4, <1>5

\* The marks that the end of a reapply sets.
LEMMA ChangesMarks ==
  ASSUME test \in [Tests -> Record], NEW t \in Tests
  PROVE  Changes("outdated")[t].stale =>
           test[t].stale /\ Changes("outdated")[t].outdated
<1>1. test[t] \in Record
  OBVIOUS
<1>2. CASE test[t].pc = "idle"
  BY <1>2 DEF Changes, NoTest
<1>3. CASE test[t].pc # "idle"
  <2>1. Changes("outdated")[t] = [test[t] EXCEPT !["outdated"] = TRUE]
    BY <1>3 DEF Changes
  <2>2. QED
    BY <1>1, <2>1 DEF Record
<1>4. QED
  BY <1>2, <1>3

\* A test that the interface was applied under is outdated once the reapply
\* that did so has ended.
LEMMA FreshStep == FreshInv /\ [Next]_vars => FreshInv'
<1> SUFFICES ASSUME TypeOK, StaleMarked, [Next]_vars PROVE StaleMarked'
  BY NextType DEF FreshInv
<1>1. test \in [Tests -> Record]
  BY DEF TypeOK, Record, Phases
<1>2. CASE UNCHANGED vars
  BY <1>2 DEF StaleMarked, vars
<1>3. CASE \E t \in Tests : Step(t)
  <2>1. PICK t \in Tests : Step(t)
    BY <1>3
  <2>2. /\ loader' = loader
        /\ \A u \in Tests : test'[u].stale =>
             test[u].stale /\ test'[u].outdated = test[u].outdated
    BY <2>1, StepMarks
  <2>3. QED
    BY <2>2 DEF StaleMarked
<1>4. CASE HttpAsk \/ HttpAnswer \/ HttpAges \/ Publishes
  BY <1>4 DEF StaleMarked, HttpAsk, HttpAnswer, HttpAges, Publishes, reapply
<1>5. CASE Apply
  BY <1>5 DEF StaleMarked, Apply
<1>6. CASE ReapplyEnds
  <2>1. test' = Changes("outdated")
    BY <1>6 DEF ReapplyEnds
  <2>2. QED
    BY <1>1, <2>1, ChangesMarks DEF StaleMarked
<1>7. CASE Environment
  BY <1>7 DEF StaleMarked, Environment, Unplug, Plug, NetChange, IpChange,
              WpaConnected, Reapply, reapply
<1>8. QED
  BY <1>2, <1>3, <1>4, <1>5, <1>6, <1>7 DEF Next, System

\* No test is marked at the start.
LEMMA FreshInit == Init => FreshInv
<1> SUFFICES ASSUME Init PROVE StaleMarked
  BY InitType DEF FreshInv
<1>1. \A t \in Tests : ~test[t].stale
  BY DEF Init, NoTest
<1>2. QED
  BY <1>1 DEF StaleMarked

\* A result counts in the step that ends its test, unless it is discarded.
LEMMA CountsEnds ==
  ASSUME TypeOK, [Next]_vars, NEW t \in Tests, Counts(t)
  PROVE  ~Discarded(t)
<1>1. test[t].pc # "idle" /\ test'[t].pc = "idle" /\ seen' # seen
  BY DEF Counts
<1>2. test \in [Tests -> Record]
  BY DEF TypeOK, Record, Phases
<1>3. ASSUME NEW u \in Tests, Step(u), u # t
      PROVE  test'[t] = test[t]
  <2>1. CASE Start(u)
    BY <1>2, <1>3, <2>1 DEF Start
  <2>2. CASE End(u)
    BY <1>2, <1>3, <2>2, EndType
  <2>3. CASE ~Start(u) /\ ~End(u)
    BY <1>2, <1>3, <2>3 DEF Step, Carrier, Ping, Conntrack, Dns, Goes
  <2>4. QED
    BY <2>1, <2>2, <2>3
<1>4. CASE UNCHANGED vars
  BY <1>1, <1>4 DEF vars
<1>5. CASE \E u \in Tests : Step(u)
  <2>1. Step(t)
    BY <1>1, <1>3, <1>5
  <2>2. End(t)
    BY <1>1, <2>1 DEF Step, Start, Carrier, Ping, Conntrack, Dns, Goes
  <2>3. QED
    BY <1>1, <2>2, EndType
<1>6. CASE HttpAsk \/ HttpAnswer \/ HttpAges \/ Publishes
  BY <1>1, <1>6 DEF HttpAsk, HttpAnswer, HttpAges, Publishes
<1>7. CASE Apply \/ ReapplyEnds
  <2>1. PICK field \in {"outdated", "stale"} : test' = Changes(field)
    BY <1>7 DEF Apply, ReapplyEnds
  <2>2. Changes(field)[t].pc = test[t].pc
    BY <1>2, ChangesType
  <2>3. QED
    BY <1>1, <2>1, <2>2
<1>8. CASE Environment
  BY <1>1, <1>8 DEF Environment, Unplug, Plug, NetChange, IpChange, WpaConnected,
                    Reapply
<1>9. QED
  BY <1>4, <1>5, <1>6, <1>7, <1>8 DEF Next, System

\* However tests and reapplies overlap: once a reapply has ended, no result of
\* a test that began before it applied the interface counts.
THEOREM FreshAfterApplyAlways == Spec => FreshAfterApply
<1> DEFINE Now == \A t \in Tests : Counts(t) /\ loader = "idle" => ~test[t].stale
<1>1. FreshInv /\ [Next]_vars => Now
  <2> SUFFICES ASSUME FreshInv, [Next]_vars, NEW t \in Tests, Counts(t),
                      loader = "idle"
               PROVE  ~test[t].stale
    OBVIOUS
  <2>1. ~test[t].outdated
    BY CountsEnds DEF FreshInv, Discarded
  <2>2. QED
    BY <2>1 DEF FreshInv, StaleMarked
<1>2. FreshAfterApply <=> [][Now]_vars
  BY DEF FreshAfterApply
<1> HIDE DEF Now
<1>3. Spec => [][Now]_vars
  BY <1>1, FreshInit, FreshStep, PTL DEF Spec
<1>4. QED
  BY <1>2, <1>3

=============================================================================
