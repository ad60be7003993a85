----------------------------- MODULE ConfigService -----------------------------
(***************************************************************************)
(* service/routes/config.js on core/network_config_mgr.js: how the network *)
(* configuration is changed, and stored.                                   *)
(*                                                                         *)
(* Requests and sensors change the configuration one at a time, under      *)
(* LOCK_CONFIG_RW.  A change is checked against the ncid of the            *)
(* configuration it was derived from, applied to the box and, if that      *)
(* worked, stored.  In a transaction it is stored aside: the transaction   *)
(* is committed, reverted, or reverted by a timer after two minutes.  The  *)
(* callback of the timer does not take the lock.                           *)
(*                                                                         *)
(* Every action ends at an await of the code; an await on redis or on      *)
(* reapply() takes effect when it is over.  What reapply() does inside is  *)
(* the subject of PluginReapply: here it brings the box to a configuration *)
(* or fails, and LOCK_REAPPLY makes each reapply one step.  A request that *)
(* is rejected at once changes nothing and is not an action.               *)
(***************************************************************************)
EXTENDS Integers, FiniteSets

CONSTANTS
  Content,      \* what a network configuration says, but its ids
  Failing,      \* contents that reapply() cannot build
  InitContent,  \* what is stored when the service starts first
  AddWlan,      \* AddWlan[c]: c with the wlan interface of a new adapter
  ReqId,        \* ids that clients give to their requests
  TransId,      \* ids that clients give to their transactions
  TimerId,      \* identities of timeouts
  None,         \* null or undefined
  Mixed,        \* what the box runs after a reapply that failed
  MaxNcid,      \* bound on the ncids that are generated
  Crashes       \* may the service die and start again?

ASSUME ContentAssumption ==
  /\ Failing \subseteq Content /\ InitContent \in Content \ Failing
  /\ AddWlan \in [Content -> Content]
  /\ Mixed \notin Content /\ None \notin Content

ASSUME IdAssumption ==
  /\ None \notin ReqId /\ None \notin TransId /\ None \notin TimerId
  /\ None \notin Nat /\ MaxNcid \in Nat /\ Crashes \in BOOLEAN

VARIABLES
  persisted,      \* sysdb:networkConfig
  aside,          \* sysdb:transaction:networkConfig
  box,            \* the content that runs on the box
  \* routes/config.js, in memory
  inTransaction, currentTransID,
  transactionTask,  \* the timeout that can be cleared
  armed,            \* the timeouts that will fire
  callback,         \* callback[t]: where the callback of t is
  oldConfig,        \* oldConfig[t]: the content that t is about to restore
  \* the holder of LOCK_CONFIG_RW
  pc, req,
  newConfig,        \* the configuration it is about to apply and store
  txParam,          \* inTransaction, as it was passed on to the call awaited
  ncids             \* ncids generated so far

txVars == <<inTransaction, currentTransID, transactionTask, armed>>
timerVars == <<callback, oldConfig>>
storeVars == <<persisted, aside>>
vars == <<persisted, aside, box, inTransaction, currentTransID,
          transactionTask, armed, callback, oldConfig, pc, req, newConfig,
          txParam, ncids>>

Ncid == 0 .. MaxNcid

Config == [content : Content, ncid : Ncid, reqId : ReqId \cup {None}]

\* POST /set with a configuration; an unrecognized transactionOp is answered
\* with an error, yet handled like none
Change == [op : {"plain", "append"}, content : Content,
           ncid : Ncid \cup {None}, reqId : ReqId \cup {None},
           trans : TransId, ignoreNcid : BOOLEAN]

\* users of the lock that bring no configuration of their own: the ends of a
\* transaction, POST /apply_current_config, and two sensors
Internal == {"current", "wlan", "reapply"}
Bare(op, trans) == [op |-> op, content |-> InitContent, ncid |-> None,
                    reqId |-> None, trans |-> trans, ignoreNcid |-> FALSE]

Request == Change \cup {Bare(op, x) : op \in {"commit", "revert"}, x \in TransId}

NoRequest == Bare("none", None)
InitialConfig == [content |-> InitContent, ncid |-> 0, reqId |-> None]

Steps == {"free", "commitRead", "commitSave", "revertRead", "check",
          "apply", "applied", "failed", "save"}

-----------------------------------------------------------------------------
(* The lock is taken.                                                      *)

\* getActiveConfig(inTransaction)
ActiveConfig == IF inTransaction THEN aside ELSE persisted

FreeTimers == TimerId \ (armed \cup {t \in TimerId : callback[t] # "off"})

\* POST /set: the transaction context and that of the request must agree
SetConfig(r) ==
  /\ pc = "free" /\ (r.op = "commit" \/ ncids < MaxNcid)
  /\ IF inTransaction
     THEN r.op # "plain" /\ r.trans = currentTransID
     ELSE r.op \in {"plain", "append"}
  /\ r.op = "append" => FreeTimers # {}
  /\ req' = r
  /\ newConfig' = [content |-> r.content, ncid |-> 0, reqId |-> r.reqId]
  /\ pc' = CASE r.op = "commit" -> "commitRead"
             [] r.op = "revert" -> "revertRead"
             [] OTHER -> "check"
  /\ txParam' = inTransaction
  /\ UNCHANGED <<storeVars, box, txVars, timerVars, ncids>>

\* POST /apply_current_config
ApplyCurrent ==
  /\ pc = "free"
  /\ req' = Bare("current", None)
  /\ newConfig' = ActiveConfig
  /\ pc' = "apply"
  /\ UNCHANGED <<storeVars, box, txVars, timerVars, txParam, ncids>>

\* wlan_conf_update_sensor: an adapter was plugged that is not configured
UpdateWlan ==
  /\ pc = "free" /\ ncids < MaxNcid
  /\ AddWlan[persisted.content] # persisted.content
  /\ req' = Bare("wlan", None)
  /\ newConfig' = [persisted EXCEPT !.content = AddWlan[persisted.content]]
  /\ pc' = "apply"
  /\ UNCHANGED <<storeVars, box, txVars, timerVars, txParam, ncids>>

\* OrangePlatform: the channel of the access point must follow the station
ReapplyCurrent ==
  /\ pc = "free"
  /\ req' = Bare("reapply", None)
  /\ newConfig' = persisted
  /\ pc' = "apply"
  /\ UNCHANGED <<storeVars, box, txVars, timerVars, txParam, ncids>>

-----------------------------------------------------------------------------
(* The lock is held.                                                       *)

\* the handler returns, its local variables are gone
Return ==
  /\ pc' = "free" /\ req' = NoRequest
  /\ newConfig' = InitialConfig /\ txParam' = FALSE

CommitRead ==
  /\ pc = "commitRead"
  /\ newConfig' = aside
  /\ pc' = "commitSave"
  /\ UNCHANGED <<storeVars, box, txVars, timerVars, req, txParam, ncids>>

\* the transaction is over, its timer is cleared if it has not fired
CloseTransaction ==
  /\ inTransaction' = FALSE
  /\ currentTransID' = None
  /\ armed' = armed \ {transactionTask}
  /\ UNCHANGED transactionTask

CommitSave ==
  /\ pc = "commitSave"
  /\ persisted' = newConfig
  /\ CloseTransaction
  /\ Return
  /\ UNCHANGED <<aside, box, timerVars, ncids>>

RevertRead ==
  /\ pc = "revertRead"
  /\ newConfig' = persisted
  /\ CloseTransaction
  /\ pc' = "check"
  /\ txParam' = FALSE
  /\ UNCHANGED <<storeVars, box, timerVars, req, ncids>>

\* a mistaken Origin: the configurations are confused
OriginConfused == IF txParam THEN persisted ELSE aside

\* the configuration that the new one must have been derived from
Origin == IF txParam THEN aside ELSE persisted

\* what a request claims to have been derived from; a revert is the
\* persisted configuration itself
ClaimedNcid == IF req.op = "revert" THEN newConfig.ncid ELSE req.ncid

\* the same request again, whose answer did not reach the client
IsRetry(origin) == origin.reqId # None /\ origin.reqId = newConfig.reqId

\* validateNcidOrReqId
ValidateNcid ==
  /\ pc = "check"
  /\ IF \/ IsRetry(Origin) \/ req.ignoreNcid
        \/ ClaimedNcid \in {None, Origin.ncid}
     THEN pc' = "apply" /\ UNCHANGED <<req, newConfig, txParam>>
     ELSE Return
  /\ UNCHANGED <<storeVars, box, txVars, timerVars, ncids>>

\* a mistaken Built: a box on which a reapply failed runs nothing at all
BuiltNothing(c) == IF c \in Failing THEN None ELSE c

\* what runs after a reapply of c
Built(c) == IF c \in Failing THEN Mixed ELSE c

\* a mistaken Outcome: the errors that reapply() returned are not looked at
OutcomeIgnored(c) == "applied"

Outcome(c) == IF c \in Failing THEN "failed" ELSE "applied"

\* tryApplyConfig
Apply ==
  /\ pc = "apply"
  /\ box' = Built(newConfig.content)
  /\ pc' = Outcome(newConfig.content)
  /\ UNCHANGED <<storeVars, txVars, timerVars, req, newConfig, txParam, ncids>>

\* "rollback to previous setup", be it in a transaction or not
RollbackToPersisted ==
  /\ pc = "failed"
  /\ box' = Built(persisted.content)
  /\ Return
  /\ UNCHANGED <<storeVars, txVars, timerVars, ncids>>

\* a mistaken OpenTransaction: a timeout that was cleared counts as there
OpenTransactionOnce ==
  /\ inTransaction' = TRUE
  /\ currentTransID' = req.trans
  /\ IF transactionTask # None THEN UNCHANGED <<transactionTask, armed>>
     ELSE \E t \in FreeTimers : transactionTask' = t /\ armed' = armed \cup {t}

\* the transaction begins or goes on; "create or extend the timeout task"
OpenTransaction ==
  /\ inTransaction' = TRUE
  /\ currentTransID' = req.trans
  /\ \E t \in FreeTimers :
        /\ transactionTask' = t
        /\ armed' = (armed \ {transactionTask}) \cup {t}

\* what was applied is going to be stored; the silent reapply ends here
Conclude ==
  /\ pc = "applied"
  /\ IF req.op = "append" THEN OpenTransaction ELSE UNCHANGED txVars
  /\ IF req.op = "reapply"
     THEN Return /\ UNCHANGED ncids
     ELSE /\ ncids' = IF req.op = "current" THEN ncids ELSE ncids + 1
          /\ newConfig' = [newConfig EXCEPT !.ncid = IF req.op = "current" THEN @ ELSE ncids']
          /\ txParam' = (req.op \notin Internal /\ inTransaction')
          /\ pc' = "save"
          /\ UNCHANGED req
  /\ UNCHANGED <<storeVars, box, timerVars>>

SaveConfig ==
  /\ pc = "save"
  /\ IF txParam THEN aside' = newConfig /\ UNCHANGED persisted
     ELSE persisted' = newConfig /\ UNCHANGED aside
  /\ Return
  /\ UNCHANGED <<box, txVars, timerVars, ncids>>

-----------------------------------------------------------------------------
(* The callback of the timeout.                                            *)

\* T_REVERT_TIMEOUT has passed; the callback reads what is to be restored
Fire(t) ==
  /\ t \in armed
  /\ armed' = armed \ {t}
  /\ callback' = [callback EXCEPT ![t] = "apply"]
  /\ oldConfig' = [oldConfig EXCEPT ![t] = persisted.content]
  /\ UNCHANGED <<storeVars, box, inTransaction, currentTransID,
                 transactionTask, pc, req, newConfig, txParam, ncids>>

RevertApply(t) ==
  /\ callback[t] = "apply"
  /\ box' = Built(oldConfig[t])
  /\ callback' = [callback EXCEPT ![t] = "end"]
  /\ UNCHANGED <<storeVars, txVars, oldConfig, pc, req, newConfig, txParam, ncids>>

\* a mistaken RevertEnd: the transaction stays open
RevertEndOpen(t) ==
  /\ callback[t] = "end"
  /\ callback' = [callback EXCEPT ![t] = "off"]
  /\ oldConfig' = [oldConfig EXCEPT ![t] = InitContent]
  /\ transactionTask' = None
  /\ UNCHANGED <<storeVars, box, inTransaction, currentTransID, armed, pc, req, newConfig, txParam, ncids>>

RevertEnd(t) ==
  /\ callback[t] = "end"
  /\ callback' = [callback EXCEPT ![t] = "off"]
  /\ oldConfig' = [oldConfig EXCEPT ![t] = InitContent]
  /\ transactionTask' = None /\ inTransaction' = FALSE /\ currentTransID' = None
  /\ UNCHANGED <<storeVars, box, armed, pc, req, newConfig, txParam, ncids>>

-----------------------------------------------------------------------------
\* The service starts again with a dry run: what is stored is loaded, and
\* the box is left as it is.
Restart ==
  /\ Crashes
  /\ inTransaction' = FALSE /\ currentTransID' = None
  /\ transactionTask' = None /\ armed' = {}
  /\ callback' = [t \in TimerId |-> "off"]
  /\ oldConfig' = [t \in TimerId |-> InitContent]
  /\ Return
  /\ UNCHANGED <<storeVars, box, ncids>>

Init ==
  /\ persisted = InitialConfig /\ aside = InitialConfig /\ box = InitContent
  /\ inTransaction = FALSE /\ currentTransID = None
  /\ transactionTask = None /\ armed = {}
  /\ callback = [t \in TimerId |-> "off"]
  /\ oldConfig = [t \in TimerId |-> InitContent]
  /\ pc = "free" /\ req = NoRequest /\ newConfig = InitialConfig
  /\ txParam = FALSE /\ ncids = 0

Begin == \/ \E r \in Request : SetConfig(r)
         \/ ApplyCurrent \/ UpdateWlan \/ ReapplyCurrent

Handle == \/ CommitRead \/ CommitSave \/ RevertRead \/ ValidateNcid
          \/ Apply \/ RollbackToPersisted \/ Conclude \/ SaveConfig

Timeout(t) == Fire(t) \/ RevertApply(t) \/ RevertEnd(t)

Next == Begin \/ Handle \/ (\E t \in TimerId : Timeout(t)) \/ Restart

Spec == Init /\ [][Next]_vars

\* handlers go on, timeouts fire and their callbacks go on
FairSpec == Spec /\ WF_vars(Handle) /\ \A t \in TimerId : WF_vars(Timeout(t))

-----------------------------------------------------------------------------
(* Properties.                                                             *)

TypeOK ==
  /\ persisted \in Config /\ aside \in Config /\ newConfig \in Config
  /\ box \in Content \cup {Mixed}
  /\ inTransaction \in BOOLEAN /\ txParam \in BOOLEAN
  /\ currentTransID \in TransId \cup {None}
  /\ transactionTask \in TimerId \cup {None} /\ armed \subseteq TimerId
  /\ callback \in [TimerId -> {"off", "apply", "end"}]
  /\ oldConfig \in [TimerId -> Content]
  /\ pc \in Steps /\ ncids \in Ncid
  /\ req \in Request \cup {Bare(op, None) : op \in Internal \cup {"none"}}

\* Optimistic concurrency: a request that says which configuration it was
\* derived from replaces that configuration, not one that was stored since
\* (validateNcidOrReqId, network_config_mgr.js:805), unless it is a retry.
NoLostUpdate ==
  (pc = "save" /\ req.op = "plain" /\ ~req.ignoreNcid /\ req.ncid # None)
     => IsRetry(persisted) \/ req.ncid = persisted.ncid

\* An open transaction cannot be forgotten: there is always a timeout or a
\* callback that ends it (T_REVERT_TIMEOUT, config.js:51).
TransactionBounded ==
  inTransaction => \E t \in TimerId : t \in armed \/ callback[t] # "off"

\* What cannot be built is never stored, be it directly, by a commit or by
\* the sensor: the next start of the service would take it for good.
OnlyWorkingStored ==
  persisted.content \notin Failing /\ aside.content \notin Failing

\* A transaction ends, whatever fails and whoever gives up, once its owner
\* stops to extend it (MaxNcid bounds how often it is extended).
TransactionEnds == inTransaction ~> ~inTransaction
=============================================================================
