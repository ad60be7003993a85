-------------------------- MODULE ConfigServiceProofs --------------------------
(***************************************************************************)
(* Theorems about ConfigService, for any number of configurations, clients *)
(* and timeouts, and with crashes at any time.                             *)
(***************************************************************************)
EXTENDS ConfigService, TLAPS

(***************************************************************************)
(* What the holder of the lock has made sure of by the time it gets to pc. *)
(***************************************************************************)

\* a configuration about to be stored has been built, or is stored already
Works(c) == c.content \notin Failing

Proven ==
  /\ Works(persisted) /\ Works(aside)
  /\ pc \in {"applied", "save"} => Works(newConfig)
  /\ pc = "commitSave" => Works(newConfig)

\* a request that is not part of a transaction is compared with the
\* persisted configuration, and that one stays until the request replaces it
Claims == req.op = "plain" /\ ~req.ignoreNcid /\ req.ncid # None

Current == IsRetry(persisted) \/ req.ncid = persisted.ncid

Compared ==
  /\ pc = "check" /\ req.op = "plain" => ~txParam
  /\ pc \in {"apply", "applied", "save"} /\ Claims => Current

\* a change for which an ncid will be generated started below the bound
Room ==
  (/\ pc \in {"revertRead", "check", "apply", "applied"}
   /\ req.op \notin {"current", "reapply"}) => ncids < MaxNcid

-----------------------------------------------------------------------------
(* Types.                                                                  *)

\* Facts about the sets of TypeOK that SMT would have to rediscover.
LEMMA BareRequest ==
  /\ \A op \in Internal \cup {"none"} :
        Bare(op, None) \in {Bare(o, None) : o \in Internal \cup {"none"}}
  /\ NoRequest \in {Bare(o, None) : o \in Internal \cup {"none"}}
  /\ InitialConfig \in Config
PROOF BY ContentAssumption, IdAssumption DEF Internal, NoRequest, Bare, InitialConfig, Config, Ncid

\* A configuration with another ncid or content is a configuration.
LEMMA ConfigExcept ==
  ASSUME NEW c \in Config
  PROVE  /\ c.content \in Content /\ c.ncid \in Ncid
         /\ \A n \in Ncid : [c EXCEPT !.ncid = n] \in Config
         /\ [c EXCEPT !.content = AddWlan[c.content]] \in Config
PROOF BY ContentAssumption DEF Config

\* The configuration that a request brings.
LEMMA RequestConfig ==
  ASSUME NEW r \in Request
  PROVE  /\ [content |-> r.content, ncid |-> 0, reqId |-> r.reqId] \in Config
         /\ r.trans \in TransId
<1>1. CASE r \in Change
  BY <1>1, IdAssumption DEF Change, Config, Ncid
<1>2. CASE r \in {Bare(op, x) : op \in {"commit", "revert"}, x \in TransId}
  BY <1>2, IdAssumption, ContentAssumption DEF Bare, Config, Ncid
<1> QED BY <1>1, <1>2 DEF Request

\* The service starts with the types right and below the bound.
LEMMA InitType == Init => TypeOK /\ Room
PROOF BY BareRequest, ContentAssumption, IdAssumption
      DEF Init, TypeOK, Room, Steps, Ncid, Config, InitialConfig

\* The handler of a lock holder that starts: requests and sensors.
LEMMA BeginType ==
  ASSUME TypeOK, Room, Begin
  PROVE  TypeOK' /\ Room'
<1>1. ASSUME NEW r \in Request, SetConfig(r) PROVE TypeOK' /\ Room'
  <2>1. newConfig' \in Config BY <1>1, RequestConfig DEF SetConfig
  <2>2. pc' \in {"commitRead", "revertRead", "check"} BY <1>1 DEF SetConfig
  <2>3. pc' # "commitRead" => ncids < MaxNcid BY <1>1 DEF SetConfig
  <2>4. TypeOK'
    BY <1>1, <2>1, <2>2 DEF SetConfig, TypeOK, storeVars, txVars, timerVars, Steps
  <2>5. Room' BY <1>1, <2>2, <2>3 DEF SetConfig, Room
  <2> QED BY <2>4, <2>5
<1>2. CASE ApplyCurrent
  BY <1>2, BareRequest DEF ApplyCurrent, ActiveConfig, TypeOK, Room, storeVars, txVars,
     timerVars, Steps, Bare, Internal
<1>3. CASE UpdateWlan
  <2>1. newConfig' \in Config BY <1>3, ConfigExcept DEF UpdateWlan, TypeOK
  <2> QED BY <1>3, <2>1, BareRequest DEF UpdateWlan, TypeOK, Room, storeVars,
          txVars, timerVars, Steps, Internal
<1>4. CASE ReapplyCurrent
  BY <1>4, BareRequest DEF ReapplyCurrent, TypeOK, Room, storeVars, txVars,
     timerVars, Steps, Bare, Internal
<1> QED BY <1>1, <1>2, <1>3, <1>4 DEF Begin

\* What reapply() leaves on the box.
LEMMA BuiltType == \A c \in Content : Built(c) \in Content \cup {Mixed}
PROOF BY DEF Built

\* The transaction variables keep their types.
LEMMA TransactionType ==
  ASSUME TypeOK, CloseTransaction \/ OpenTransaction
  PROVE  /\ inTransaction' \in BOOLEAN /\ armed' \subseteq TimerId
         /\ currentTransID' \in TransId \cup {None}
         /\ transactionTask' \in TimerId \cup {None}
<1>1. CASE req \in Request
  BY <1>1, RequestConfig DEF TypeOK, CloseTransaction, OpenTransaction, FreeTimers
<1>2. CASE req \in {Bare(op, None) : op \in Internal \cup {"none"}}
  <2>1. req.trans = None BY <1>2 DEF Bare
  <2> QED BY <2>1 DEF TypeOK, CloseTransaction, OpenTransaction, FreeTimers
<1> QED BY <1>1, <1>2 DEF TypeOK

\* The steps of the handler that holds the lock.
LEMMA HandleType ==
  ASSUME TypeOK, Room, Handle
  PROVE  TypeOK' /\ Room'
<1> USE DEF storeVars, txVars, timerVars, Steps
<1>1. CASE CommitRead
  BY <1>1 DEF CommitRead, TypeOK, Room
<1>2. CASE CommitSave
  BY <1>2, BareRequest, TransactionType DEF CommitSave, Return, TypeOK, Room
<1>3. CASE RevertRead
  BY <1>3, TransactionType DEF RevertRead, TypeOK, Room
<1>4. CASE ValidateNcid
  BY <1>4, BareRequest DEF ValidateNcid, Return, TypeOK, Room
<1>5. CASE Apply
  <2>1. box' \in Content \cup {Mixed}
    BY <1>5, BuiltType, ConfigExcept DEF Apply, TypeOK
  <2>2. pc' \in {"failed", "applied"} BY <1>5 DEF Apply, Outcome
  <2> QED BY <1>5, <2>1, <2>2 DEF Apply, TypeOK, Room
<1>6. CASE RollbackToPersisted
  <2>1. box' \in Content \cup {Mixed}
    BY <1>6, BuiltType, ConfigExcept DEF RollbackToPersisted, TypeOK
  <2> QED BY <1>6, <2>1, BareRequest DEF RollbackToPersisted, Return, TypeOK, Room
<1>7. CASE Conclude
  <2>1. /\ inTransaction' \in BOOLEAN /\ armed' \subseteq TimerId
        /\ currentTransID' \in TransId \cup {None}
        /\ transactionTask' \in TimerId \cup {None}
    BY <1>7, TransactionType DEF Conclude, TypeOK
  <2>2. ncids' \in Ncid
    BY <1>7, IdAssumption DEF Conclude, TypeOK, Room, Ncid
  <2>3. newConfig' \in Config
    BY <1>7, <2>2, BareRequest, ConfigExcept DEF Conclude, Return, TypeOK, Config
  <2>4. req' \in Request \cup {Bare(op, None) : op \in Internal \cup {"none"}}
    BY <1>7, BareRequest DEF Conclude, Return, TypeOK
  <2>5. txParam' \in BOOLEAN /\ pc' \in {"free", "save"}
    BY <1>7, <2>1 DEF Conclude, Return
  <2> QED BY <1>7, <2>1, <2>2, <2>3, <2>4, <2>5 DEF Conclude, TypeOK, Room
<1>8. CASE SaveConfig
  BY <1>8, BareRequest DEF SaveConfig, Return, TypeOK, Room
<1> QED BY <1>1, <1>2, <1>3, <1>4, <1>5, <1>6, <1>7, <1>8 DEF Handle

\* The callback of a timeout.
LEMMA TimeoutType ==
  ASSUME TypeOK, Room, NEW t \in TimerId, Timeout(t)
  PROVE  TypeOK' /\ Room'
<1> USE DEF storeVars, txVars, timerVars
<1>1. CASE Fire(t)
  BY <1>1, ConfigExcept DEF Fire, TypeOK, Room
<1>2. CASE RevertApply(t)
  BY <1>2, BuiltType DEF RevertApply, TypeOK, Room
<1>3. CASE RevertEnd(t)
  BY <1>3, ContentAssumption DEF RevertEnd, TypeOK, Room
<1> QED BY <1>1, <1>2, <1>3 DEF Timeout

\* Every step keeps the types.
LEMMA NextType == TypeOK /\ Room /\ [Next]_vars => (TypeOK /\ Room)'
<1> SUFFICES ASSUME TypeOK, Room, [Next]_vars PROVE TypeOK' /\ Room'
  OBVIOUS
<1>1. CASE Restart
  BY <1>1, BareRequest, ContentAssumption
  DEF Restart, Return, TypeOK, Room, storeVars, Steps
<1>2. CASE UNCHANGED vars
  BY <1>2 DEF vars, TypeOK, Room
<1> QED BY <1>1, <1>2, BeginType, HandleType, TimeoutType DEF Next

\* Every variable keeps its type; the ncids that are generated stay below
\* their bound (all of routes/config.js:253-418).
THEOREM Typed == Spec => []TypeOK
<1>1. Init => TypeOK /\ Room BY InitType
<1>2. TypeOK /\ Room /\ [Next]_vars => (TypeOK /\ Room)' BY NextType
<1> QED BY <1>1, <1>2, PTL DEF Spec


-----------------------------------------------------------------------------
(* An open transaction has a timeout.                                      *)

\* Closing a transaction is the only way to lose its timeout.
LEMMA NextBounded ==
  TypeOK /\ TransactionBounded /\ [Next]_vars => TransactionBounded'
<1> SUFFICES ASSUME TypeOK, TransactionBounded, [Next]_vars
             PROVE  TransactionBounded'
  OBVIOUS
<1> USE DEF TransactionBounded
<1>1. CASE UNCHANGED <<inTransaction, armed, callback>>
  BY <1>1
<1>2. CASE ~inTransaction'
  BY <1>2
<1>3. CASE OpenTransaction /\ UNCHANGED callback
  BY <1>3 DEF OpenTransaction, FreeTimers
<1>4. ASSUME NEW t \in TimerId, Timeout(t) PROVE TransactionBounded'
  <2>1. CASE Fire(t) BY <2>1 DEF Fire, TypeOK
  <2>2. CASE RevertApply(t) BY <2>2 DEF RevertApply, txVars, TypeOK
  <2>3. CASE RevertEnd(t) BY <2>3 DEF RevertEnd
  <2> QED BY <1>4, <2>1, <2>2, <2>3 DEF Timeout
<1>5. CASE Begin
  BY <1>5, <1>1 DEF Begin, SetConfig, ApplyCurrent, UpdateWlan, ReapplyCurrent,
     txVars, timerVars
<1>6. CASE Handle
  <2>1. CASE CommitSave \/ RevertRead
    BY <2>1, <1>2 DEF CommitSave, RevertRead, CloseTransaction
  <2>2. CASE Conclude
    BY <2>2, <1>1, <1>3 DEF Conclude, txVars, timerVars
  <2>3. CASE CommitRead \/ ValidateNcid \/ Apply \/ RollbackToPersisted \/ SaveConfig
    BY <2>3, <1>1 DEF CommitRead, ValidateNcid, Apply, RollbackToPersisted,
       SaveConfig, txVars, timerVars
  <2> QED BY <1>6, <2>1, <2>2, <2>3 DEF Handle
<1>7. CASE Restart BY <1>7, <1>2 DEF Restart
<1>8. CASE UNCHANGED vars BY <1>8, <1>1 DEF vars
<1> QED BY <1>4, <1>5, <1>6, <1>7, <1>8 DEF Next

\* An open transaction cannot be forgotten: a timeout that will fire, or a
\* callback that runs, ends it (routes/config.js:336-357).
THEOREM Bounded == Spec => []TransactionBounded
<1>1. Init => TransactionBounded BY DEF Init, TransactionBounded
<1>2. TypeOK /\ TransactionBounded /\ [Next]_vars => TransactionBounded'
  BY NextBounded
<1> QED BY <1>1, <1>2, Typed, PTL DEF Spec

-----------------------------------------------------------------------------
(* What is stored works.                                                   *)

\* Only what reapply() built, or was stored already, gets to be stored.
LEMMA NextProven == Proven /\ [Next]_vars => Proven'
<1> SUFFICES ASSUME Proven, [Next]_vars PROVE Proven'
  OBVIOUS
<1> USE DEF Proven, Works, storeVars
<1>1. CASE Begin
  BY <1>1 DEF Begin, SetConfig, ApplyCurrent, UpdateWlan, ReapplyCurrent
<1>2. CASE Handle
  <2>1. CASE CommitRead BY <2>1 DEF CommitRead
  <2>2. CASE CommitSave BY <2>2 DEF CommitSave, Return
  <2>3. CASE RevertRead BY <2>3 DEF RevertRead
  <2>4. CASE ValidateNcid BY <2>4 DEF ValidateNcid, Return
  <2>5. CASE Apply BY <2>5 DEF Apply, Outcome
  <2>6. CASE RollbackToPersisted BY <2>6 DEF RollbackToPersisted, Return
  <2>7. CASE Conclude
    <3>1. CASE req.op = "reapply" BY <2>7, <3>1 DEF Conclude, Return
    <3>2. CASE req.op # "reapply"
      <4>1. Works(newConfig) /\ pc' = "save" BY <2>7, <3>2 DEF Conclude
      <4>2. PICK n : newConfig' = [newConfig EXCEPT !.ncid = n]
        BY <2>7, <3>2 DEF Conclude
      <4>3. newConfig'.content = newConfig.content BY <4>2
      <4> QED BY <2>7, <4>1, <4>3 DEF Conclude
    <3> QED BY <3>1, <3>2
  <2>8. CASE SaveConfig BY <2>8 DEF SaveConfig, Return
  <2> QED BY <1>2, <2>1, <2>2, <2>3, <2>4, <2>5, <2>6, <2>7, <2>8 DEF Handle
<1>3. CASE \E t \in TimerId : Timeout(t)
  BY <1>3 DEF Timeout, Fire, RevertApply, RevertEnd
<1>4. CASE Restart BY <1>4 DEF Restart, Return
<1>5. CASE UNCHANGED vars BY <1>5 DEF vars
<1> QED BY <1>1, <1>2, <1>3, <1>4, <1>5 DEF Next

\* Whatever is stored could be built once: by a request, by the sensor, by a
\* commit, and across crashes (network_config_mgr.js:768-788, 818).
THEOREM StoredWorks == Spec => []OnlyWorkingStored
<1>1. Init => Proven
  BY ContentAssumption DEF Init, Proven, Works, InitialConfig
<1>2. Proven /\ [Next]_vars => Proven' BY NextProven
<1>3. Proven => OnlyWorkingStored BY DEF Proven, Works, OnlyWorkingStored
<1> QED BY <1>1, <1>2, <1>3, PTL DEF Spec

-----------------------------------------------------------------------------
(* No update is lost.                                                      *)

\* The comparison with the persisted configuration stays true up to the save.
LEMMA NextCompared == TypeOK /\ Compared /\ [Next]_vars => Compared'
<1> SUFFICES ASSUME TypeOK, Compared, [Next]_vars PROVE Compared'
  OBVIOUS
<1> USE DEF Compared, Claims, Current, IsRetry, storeVars
<1>1. CASE pc' = "free"
  BY <1>1
<1>2. CASE Begin
  <2>1. ASSUME NEW r \in Request, SetConfig(r) PROVE Compared'
    <3>1. pc' \in {"commitRead", "revertRead", "check"} /\ req' = r
      BY <2>1 DEF SetConfig
    <3>2. r.op = "plain" => txParam' = FALSE
      BY <2>1 DEF SetConfig, TypeOK
    <3> QED BY <3>1, <3>2
  <2>2. CASE ApplyCurrent BY <2>2 DEF ApplyCurrent, Bare
  <2>3. CASE UpdateWlan BY <2>3 DEF UpdateWlan, Bare
  <2>4. CASE ReapplyCurrent BY <2>4 DEF ReapplyCurrent, Bare
  <2> QED BY <1>2, <2>1, <2>2, <2>3, <2>4 DEF Begin
<1>3. CASE Handle
  <2>1. CASE CommitRead BY <2>1 DEF CommitRead
  <2>2. CASE CommitSave BY <2>2, <1>1 DEF CommitSave, Return
  <2>3. CASE RevertRead BY <2>3 DEF RevertRead
  <2>4. CASE ValidateNcid
    BY <2>4, <1>1 DEF ValidateNcid, Return, Origin, ClaimedNcid
  <2>5. CASE Apply
    BY <2>5 DEF Apply, Outcome
  <2>6. CASE RollbackToPersisted BY <2>6, <1>1 DEF RollbackToPersisted, Return
  <2>7. CASE Conclude
    <3>1. CASE req.op = "reapply" BY <2>7, <3>1, <1>1 DEF Conclude, Return
    <3>2. CASE req.op # "reapply"
      <4>1. pc = "applied" /\ pc' = "save" /\ UNCHANGED <<req, persisted>>
        BY <2>7, <3>2 DEF Conclude
      <4>2. PICK n : newConfig' = [newConfig EXCEPT !.ncid = n]
        BY <2>7, <3>2 DEF Conclude
      <4>3. newConfig'.reqId = newConfig.reqId BY <4>2 DEF TypeOK, Config
      <4> QED BY <4>1, <4>3
    <3> QED BY <3>1, <3>2
  <2>8. CASE SaveConfig BY <2>8, <1>1 DEF SaveConfig, Return
  <2> QED BY <1>3, <2>1, <2>2, <2>3, <2>4, <2>5, <2>6, <2>7, <2>8 DEF Handle
<1>4. CASE \E t \in TimerId : Timeout(t)
  BY <1>4 DEF Timeout, Fire, RevertApply, RevertEnd
<1>5. CASE Restart BY <1>5, <1>1 DEF Restart, Return
<1>6. CASE UNCHANGED vars BY <1>6 DEF vars
<1> QED BY <1>2, <1>3, <1>4, <1>5, <1>6 DEF Next

\* A request that names the configuration it was derived from replaces that
\* one and no other, unless it is a retry (network_config_mgr.js:805-816).
THEOREM NothingLost == Spec => []NoLostUpdate
<1>1. Init => Compared BY DEF Init, Compared
<1>2. TypeOK /\ Compared /\ [Next]_vars => Compared' BY NextCompared
<1>3. Compared => NoLostUpdate
  BY DEF Compared, Claims, Current, NoLostUpdate
<1> QED BY <1>1, <1>2, <1>3, Typed, PTL DEF Spec
=============================================================================
