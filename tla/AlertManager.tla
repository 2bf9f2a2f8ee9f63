---------------------------- MODULE AlertManager ---------------------------
(***************************************************************************)
(* The life of alerts (internal/alerting/manager.go), for one rule and one *)
(* device.                                                                 *)
(*                                                                         *)
(* One goroutine evaluates the rule every 30 seconds: it takes a copy of   *)
(* the rules and of the device's policy and then watches, opens or closes  *)
(* an alert in several steps, some on the tables and some on the maps      *)
(* m.states and m.lastNotified.  Requests to edit the rule, to silence the *)
(* device, to resolve an alert and to reload the configuration interleave  *)
(* with it and change the same tables and maps.  AlertOutbox models how    *)
(* the notifications of the alerts are delivered.                          *)
(*                                                                         *)
(* Time is abstract: a state that is "fresh" becomes "aged" when           *)
(* duration_seconds have passed, and a cooldown runs until it elapses.     *)
(***************************************************************************)
EXTENDS Naturals, FiniteSets

CONSTANTS
  MaxAlerts,    \* bound: alerts opened
  Ops,          \* requests explored: "edit", "silence", "resolve", "reload"
  MaxOps,       \* bound: requests other than acknowledge and the end of a silence
  Reqs,         \* bound: requests that may run at the same time
  Immediate,    \* duration_seconds is zero
  MaxDbErrors,  \* bound: statements that fail
  MaxExits      \* bound: process exits

Alerts == 1..MaxAlerts
NoRule == MaxOps + 1

ASSUME ManagerAssumption ==
  /\ MaxAlerts \in Nat /\ MaxOps \in Nat
  /\ MaxDbErrors \in Nat /\ MaxExits \in Nat
  /\ Ops \subseteq {"edit", "silence", "resolve", "reload"}
  /\ Immediate \in BOOLEAN

VARIABLES
  \* the tables
  mode,      \* the rule: "on", "off" or "gone"
  ver,       \* its version, counted by edits
  silenced,  \* the device is not alertable, or silenced
  srow,      \* the row of alert_states
  occ,       \* occ[n]: status of the n-th alert
  opened,    \* number of alerts opened
  dbCool,    \* the last trigger since updated_at is within the cooldown
  \* the memory of the process
  mrule,     \* version of the rule in m.rules, or NoRule
  mstate,    \* m.states
  mcool,     \* m.lastNotified is within the cooldown
  \* Evaluate
  epc, erule, esilenced, enew, efire, ecopy,
  \* the requests in progress
  opc, orule, ostate, ocool,
  ops,       \* number of requests so far
  used,      \* history: their kinds
  \* the world
  cond,      \* the metric: "bad", "ok" (or missing), no live statistics: "absent"
  cooling,   \* history: an alert was opened within the cooldown
  dbErrors, exits

ruleVars  == <<mode, ver, silenced>>
alertVars == <<srow, occ, opened, dbCool>>
memVars   == <<mrule, mstate, mcool>>
evalVars  == <<epc, erule, esilenced, enew, efire, ecopy>>
loadVars  == <<orule, ostate, ocool>>
opVars    == <<ops, used>>
worldVars == <<cond, cooling, dbErrors, exits>>
vars == <<ruleVars, alertVars, memVars, evalVars, opc, loadVars, opVars,
          worldVars>>

Open == {"active", "acknowledged"}
Init ==
  /\ mode = "on" /\ ver = 0 /\ silenced = FALSE
  /\ srow = "none" /\ occ = [n \in Alerts |-> "absent"]
  /\ opened = 0 /\ dbCool = FALSE
  /\ mrule = 0 /\ mstate = "none" /\ mcool = FALSE
  /\ epc = "idle" /\ erule = 0 /\ esilenced = FALSE
  /\ enew = "old" /\ efire = FALSE /\ ecopy = "none"
  /\ opc = [r \in Reqs |-> "none"] /\ orule = [r \in Reqs |-> 0]
  /\ ostate = [r \in Reqs |-> "none"] /\ ocool = [r \in Reqs |-> FALSE]
  /\ ops = 0 /\ used = {}
  /\ cond = "ok" /\ cooling = FALSE /\ dbErrors = 0 /\ exits = 0

-----------------------------------------------------------------------------
(* resolveAlertTx on every open alert of the rule and device.              *)
Resolved(os) == [n \in Alerts |-> IF os[n] \in Open THEN "resolved" ELSE os[n]]
NewState == IF Immediate THEN "aged" ELSE "fresh"

(* The end of Evaluate, and the values its locals are forgotten to.        *)
EvalEnd ==
  /\ epc' = "idle" /\ erule' = 0 /\ esilenced' = FALSE
  /\ enew' = "old" /\ efire' = FALSE /\ ecopy' = "none"

(* A statement fails: the handler logs it and returns.                     *)
DbError ==
  /\ dbErrors < MaxDbErrors
  /\ dbErrors' = dbErrors + 1
  /\ UNCHANGED <<cond, cooling, exits>>

(* Between a commit and the update of memory that follows it, a request or *)
(* the evaluation only waits for m.mu: no tick of the 30 second ticker and *)
(* no end of a duration or cooldown falls in between.                      *)
InGap ==
  \/ epc = "note"
  \/ \E r \in Reqs : opc[r] \in {"clear", "forget", "unwatch"}

(***************************************************************************)
(* Evaluate, up to the choice between handleTriggered and handleResolved.  *)
(***************************************************************************)
BeginEvaluate ==
  /\ epc = "idle" /\ ~ InGap
  /\ mrule # NoRule
  /\ epc' = "policies"
  /\ erule' = mrule
  /\ UNCHANGED <<ruleVars, alertVars, memVars, esilenced, enew, efire, ecopy, opc,
                 loadVars, opVars, worldVars>>

LoadPolicies ==
  /\ epc = "policies"
  /\ epc' = "decide"
  /\ esilenced' = silenced
  /\ UNCHANGED <<ruleVars, alertVars, memVars, erule, enew, efire, ecopy, opc,
                 loadVars, opVars, worldVars>>

(* A device without live statistics is left alone.                         *)
SkipDevice ==
  /\ epc = "decide" /\ cond = "absent"
  /\ EvalEnd
  /\ UNCHANGED <<ruleVars, alertVars, memVars, opc, loadVars, opVars, worldVars>>

(* handleTriggered, first lock: find or create the state in memory.        *)
Triggered ==
  /\ epc = "decide" /\ cond = "bad" /\ ~ esilenced
  /\ epc' = "persist"
  /\ mstate' = IF mstate = "none" THEN NewState ELSE mstate
  /\ enew' = IF mstate = "none" THEN "own" ELSE "old"
  /\ ecopy' = mstate'
  /\ efire' = (mstate' = "aged" /\ ~ mcool /\ opened < MaxAlerts)
  /\ UNCHANGED <<ruleVars, alertVars, mrule, mcool, erule, esilenced, opc,
                 loadVars, opVars, worldVars>>

(* The state is written: a new one replaces the row, a known one only      *)
(* touches it.                                                             *)
PersistState ==
  /\ epc = "persist"
  /\ enew # "old" => mode # "gone"
  /\ srow' = IF enew = "old" THEN srow ELSE ecopy
  /\ IF efire
     THEN epc' = "open" /\ UNCHANGED <<erule, esilenced, enew, efire, ecopy>>
     ELSE EvalEnd
  /\ UNCHANGED <<ruleVars, occ, opened, dbCool, memVars, opc, loadVars,
                 opVars, worldVars>>

(* The write fails, at the latest on the foreign key of a deleted rule: a  *)
(* state that was created here is dropped again.                           *)
PersistFails ==
  /\ epc = "persist"
  /\ \/ enew # "old" /\ mode = "gone" /\ UNCHANGED worldVars
     \/ DbError
  /\ mstate' = IF enew = "own" THEN "none" ELSE mstate
  /\ EvalEnd
  /\ UNCHANGED <<ruleVars, alertVars, mrule, mcool, opc, loadVars, opVars>>

(* Mutant of OpenAlert: alert_states is not updated in the transaction.    *)
OpenAlertOnly ==
  /\ epc = "open" /\ mode # "gone"
  /\ opened' = opened + 1
  /\ occ' = [occ EXCEPT ![opened + 1] = "active"]
  /\ dbCool' = TRUE
  /\ epc' = "note"
  /\ cooling' = TRUE
  /\ UNCHANGED <<ruleVars, srow, memVars, erule, esilenced, enew, efire, ecopy, opc,
                 loadVars, opVars, cond, dbErrors, exits>>

(* The alert, its notifications and the notified flag, in one transaction. *)
(* Its time is that of the transaction's start: before or after the        *)
(* updated_at of an edit that has come between.                            *)
OpenAlert ==
  /\ epc = "open" /\ mode # "gone"
  /\ opened' = opened + 1
  /\ occ' = [occ EXCEPT ![opened + 1] = "active"]
  /\ srow' = IF srow = "none" THEN "none" ELSE "notified"
  /\ \E b \in BOOLEAN : (erule = ver => b) /\ dbCool' = b
  /\ epc' = "note"
  /\ cooling' = TRUE
  /\ UNCHANGED <<ruleVars, memVars, erule, esilenced, enew, efire, ecopy, opc,
                 loadVars, opVars, cond, dbErrors, exits>>

OpenFails ==
  /\ epc = "open"
  /\ \/ mode = "gone" /\ UNCHANGED worldVars
     \/ DbError
  /\ EvalEnd
  /\ UNCHANGED <<ruleVars, alertVars, memVars, opc, loadVars, opVars>>

(* The last lock: whatever state is there now is marked.                   *)
NoteAlert ==
  /\ epc = "note"
  /\ mstate' = IF mstate = "none" THEN "none" ELSE "notified"
  /\ mcool' = TRUE
  /\ EvalEnd
  /\ UNCHANGED <<ruleVars, alertVars, mrule, opc, loadVars, opVars, worldVars>>

-----------------------------------------------------------------------------
(***************************************************************************)
(* handleResolved.                                                         *)
(***************************************************************************)
(* Mutant of Normal: a state that has been notified is left alone.         *)
NormalUnnotified ==
  /\ epc = "decide"
  /\ cond = "ok" \/ (cond = "bad" /\ esilenced)
  /\ IF mstate \in {"none", "notified"}
     THEN EvalEnd
     ELSE /\ epc' = "close"
          /\ ecopy' = mstate
          /\ UNCHANGED <<erule, esilenced, enew, efire>>
  /\ UNCHANGED <<ruleVars, alertVars, memVars, opc, loadVars, opVars, worldVars>>

Normal ==
  /\ epc = "decide"
  /\ cond = "ok" \/ (cond = "bad" /\ esilenced)
  /\ IF mstate = "none"
     THEN EvalEnd
     ELSE /\ epc' = "close"
          /\ ecopy' = mstate
          /\ UNCHANGED <<erule, esilenced, enew, efire>>
  /\ UNCHANGED <<ruleVars, alertVars, memVars, opc, loadVars, opVars, worldVars>>

CloseAlerts ==
  /\ epc = "close"
  /\ occ' = IF ecopy = "notified" /\ mode # "gone" THEN Resolved(occ) ELSE occ
  /\ srow' = "none"
  /\ epc' = "forget"
  /\ UNCHANGED <<ruleVars, opened, dbCool, memVars, erule, esilenced, enew,
                 efire, ecopy, opc, loadVars, opVars, worldVars>>

(* The policies cannot be loaded, or the transaction fails: Evaluate does   *)
(* nothing more for the device.                                            *)
EvaluateFails ==
  /\ epc \in {"policies", "close"}
  /\ DbError
  /\ EvalEnd
  /\ UNCHANGED <<ruleVars, alertVars, memVars, opc, loadVars, opVars>>

ForgetState ==
  /\ epc = "forget"
  /\ mstate' = "none"
  /\ EvalEnd
  /\ UNCHANGED <<ruleVars, alertVars, mrule, mcool, opc, loadVars, opVars, worldVars>>

-----------------------------------------------------------------------------
(***************************************************************************)
(* Requests.                                                               *)
(***************************************************************************)
Begin(r, op, next) ==
  /\ op \in Ops /\ opc[r] = "none" /\ ops < MaxOps
  /\ ops' = ops + 1 /\ used' = used \cup {op}
  /\ opc' = [opc EXCEPT ![r] = next]

(* What a request has loaded, thrown away at its end.                      *)
EndLoad(r) ==
  /\ orule' = [orule EXCEPT ![r] = 0]
  /\ ostate' = [ostate EXCEPT ![r] = "none"]
  /\ ocool' = [ocool EXCEPT ![r] = FALSE]

(* What a lock holder does to the states of the rule or device.            *)
DropState ==
  /\ mstate' = "none"
  /\ enew' = IF enew = "own" THEN "lost" ELSE enew
  /\ UNCHANGED <<mrule, epc, erule, esilenced, efire, ecopy>>

(* UpdateRule and DeleteRule: the transaction ...                          *)
EditRule(r, m) ==
  /\ Begin(r, "edit", "clear")
  /\ mode # "gone"
  /\ mode' = m
  /\ ver' = ver + 1
  /\ occ' = Resolved(occ)
  /\ srow' = "none"
  /\ dbCool' = FALSE
  /\ cooling' = FALSE
  /\ UNCHANGED <<silenced, opened, memVars, evalVars, loadVars, cond,
                 dbErrors, exits>>

(* Mutant of ClearRuleState: the request ends without a Reload.            *)
ClearWithoutReload(r) ==
  /\ opc[r] = "clear"
  /\ opc' = [opc EXCEPT ![r] = "none"]
  /\ mcool' = FALSE
  /\ DropState
  /\ UNCHANGED <<ruleVars, alertVars, loadVars, opVars, worldVars>>

(* ... clearRuleStateMemory, then Reload.                                  *)
ClearRuleState(r) ==
  /\ opc[r] = "clear"
  /\ opc' = [opc EXCEPT ![r] = "rules"]
  /\ mcool' = FALSE
  /\ DropState
  /\ UNCHANGED <<ruleVars, alertVars, loadVars, opVars, worldVars>>

(* CreateRule of another rule, or a change of the settings, reloads too.   *)
BeginReload(r) ==
  /\ Begin(r, "reload", "rules")
  /\ UNCHANGED <<ruleVars, alertVars, memVars, evalVars, loadVars, worldVars>>

LoadRules(r) ==
  /\ opc[r] = "rules"
  /\ opc' = [opc EXCEPT ![r] = "states"]
  /\ orule' = [orule EXCEPT ![r] = IF mode = "on" THEN ver ELSE NoRule]
  /\ UNCHANGED <<ruleVars, alertVars, memVars, evalVars, ostate, ocool, opVars,
                 worldVars>>

LoadStates(r) ==
  /\ opc[r] = "states"
  /\ opc' = [opc EXCEPT ![r] = "last"]
  /\ ostate' = [ostate EXCEPT ![r] = IF mode = "on" THEN srow ELSE "none"]
  /\ UNCHANGED <<ruleVars, alertVars, memVars, evalVars, orule, ocool, opVars,
                 worldVars>>

LoadLastNotified(r) ==
  /\ opc[r] = "last"
  /\ opc' = [opc EXCEPT ![r] = "swap"]
  /\ ocool' = [ocool EXCEPT ![r] = (dbCool /\ mode # "gone")]
  /\ UNCHANGED <<ruleVars, alertVars, memVars, evalVars, orule, ostate, opVars,
                 worldVars>>

SwapConfig(r) ==
  /\ opc[r] = "swap"
  /\ opc' = [opc EXCEPT ![r] = "none"]
  /\ mrule' = orule[r] /\ mstate' = ostate[r] /\ mcool' = ocool[r]
  /\ enew' = IF enew = "own" THEN "lost" ELSE enew
  /\ EndLoad(r)
  /\ UNCHANGED <<ruleVars, alertVars, epc, erule, esilenced, efire, ecopy, opVars,
                 worldVars>>

(* A load fails: the request ends with an error, the old memory stays.     *)
ReloadFails(r) ==
  /\ opc[r] \in {"rules", "states", "last", "swap"}
  /\ DbError
  /\ opc' = [opc EXCEPT ![r] = "none"]
  /\ EndLoad(r)
  /\ UNCHANGED <<ruleVars, alertVars, memVars, evalVars, opVars>>

(* ResolveAlert, and its lock at the end, which keeps lastNotified.        *)
ResolveAlert(r, n) ==
  /\ Begin(r, "resolve", "forget")
  /\ occ[n] \in Open
  /\ occ' = [occ EXCEPT ![n] = "resolved"]
  /\ srow' = IF mode = "gone" THEN srow ELSE "none"
  /\ UNCHANGED <<ruleVars, opened, dbCool, memVars, evalVars, loadVars,
                 worldVars>>

(* Mutant of ForgetResolved: the cooldown is forgotten with the state.     *)
ForgetResolvedAll(r) ==
  /\ opc[r] = "forget"
  /\ opc' = [opc EXCEPT ![r] = "none"]
  /\ mcool' = FALSE
  /\ DropState
  /\ UNCHANGED <<ruleVars, alertVars, loadVars, opVars, worldVars>>

ForgetResolved(r) ==
  /\ opc[r] = "forget"
  /\ opc' = [opc EXCEPT ![r] = "none"]
  /\ DropState
  /\ UNCHANGED <<ruleVars, alertVars, mcool, loadVars, opVars, worldVars>>

(* The device is silenced or made not alertable; its policy is committed   *)
(* first, then ResolveDeviceAlerts runs.                                   *)
SilenceDevice(r) ==
  /\ Begin(r, "silence", "silence")
  /\ silenced' = TRUE
  /\ UNCHANGED <<mode, ver, alertVars, memVars, evalVars, loadVars, worldVars>>

ResolveDeviceAlerts(r) ==
  /\ opc[r] = "silence"
  /\ opc' = [opc EXCEPT ![r] = "unwatch"]
  /\ occ' = Resolved(occ)
  /\ srow' = "none"
  /\ UNCHANGED <<ruleVars, opened, dbCool, memVars, evalVars, loadVars,
                 opVars, worldVars>>

(* "alert policy saved but active alert resolution failed": the silence    *)
(* stays.                                                                  *)
SilenceFails(r) ==
  /\ opc[r] = "silence"
  /\ DbError
  /\ opc' = [opc EXCEPT ![r] = "none"]
  /\ UNCHANGED <<ruleVars, alertVars, memVars, evalVars, loadVars, opVars>>

ClearDeviceState(r) ==
  /\ opc[r] = "unwatch"
  /\ opc' = [opc EXCEPT ![r] = "none"]
  /\ mcool' = FALSE
  /\ cooling' = FALSE
  /\ DropState
  /\ UNCHANGED <<ruleVars, alertVars, loadVars, opVars, cond, dbErrors, exits>>

EndSilence ==
  /\ silenced
  /\ silenced' = FALSE
  /\ UNCHANGED <<mode, ver, alertVars, memVars, evalVars, opc, loadVars, opVars,
                 worldVars>>

AcknowledgeAlert(n) ==
  /\ occ[n] = "active"
  /\ occ' = [occ EXCEPT ![n] = "acknowledged"]
  /\ UNCHANGED <<ruleVars, srow, opened, dbCool, memVars, evalVars, opc,
                 loadVars, opVars, worldVars>>

-----------------------------------------------------------------------------
(***************************************************************************)
(* The world.                                                              *)
(***************************************************************************)
ConditionChanges(c) ==
  /\ cond # c
  /\ cond' = c
  /\ UNCHANGED <<ruleVars, alertVars, memVars, evalVars, opc, loadVars, opVars,
                 cooling, dbErrors, exits>>

Older(s) == IF s = "fresh" THEN "aged" ELSE s

(* duration_seconds have passed since the state was first seen.            *)
DurationPasses ==
  /\ ~ InGap
  /\ "fresh" \in {mstate, srow, ecopy} \cup {ostate[r] : r \in Reqs}
  /\ mstate' = Older(mstate) /\ srow' = Older(srow)
  /\ ostate' = [r \in Reqs |-> Older(ostate[r])] /\ ecopy' = Older(ecopy)
  /\ UNCHANGED <<ruleVars, occ, opened, dbCool, mrule, mcool, epc, erule,
                 esilenced, enew, efire, opc, orule, ocool, opVars, worldVars>>

CooldownPasses ==
  /\ cooling \/ mcool \/ dbCool \/ \E r \in Reqs : ocool[r]
  /\ ~ InGap
  /\ cooling' = FALSE /\ mcool' = FALSE /\ dbCool' = FALSE
  /\ ocool' = [r \in Reqs |-> FALSE]
  /\ UNCHANGED <<ruleVars, srow, occ, opened, mrule, mstate, evalVars, opc,
                 orule, ostate, opVars, cond, dbErrors, exits>>

(* The process exits; the next one loads everything before it evaluates.   *)
Restart ==
  /\ exits < MaxExits
  /\ exits' = exits + 1
  /\ mrule' = IF mode = "on" THEN ver ELSE NoRule
  /\ mstate' = IF mode = "on" THEN srow ELSE "none"
  /\ mcool' = (dbCool /\ mode # "gone")
  /\ EvalEnd
  /\ opc' = [r \in Reqs |-> "none"] /\ orule' = [r \in Reqs |-> 0]
  /\ ostate' = [r \in Reqs |-> "none"] /\ ocool' = [r \in Reqs |-> FALSE]
  /\ UNCHANGED <<ruleVars, alertVars, opVars, cond, cooling, dbErrors>>

EvalStep ==
  \/ BeginEvaluate \/ LoadPolicies \/ SkipDevice
  \/ Triggered \/ PersistState \/ PersistFails
  \/ OpenAlert \/ OpenFails \/ NoteAlert
  \/ Normal \/ CloseAlerts \/ EvaluateFails \/ ForgetState

OpStep(r) ==
  \/ ClearRuleState(r)
  \/ LoadRules(r) \/ LoadStates(r) \/ LoadLastNotified(r) \/ SwapConfig(r)
  \/ ReloadFails(r) \/ ForgetResolved(r)
  \/ ResolveDeviceAlerts(r) \/ SilenceFails(r) \/ ClearDeviceState(r)

Next ==
  \/ EvalStep
  \/ \E r \in Reqs :
       \/ OpStep(r)
       \/ \E m \in {"on", "off", "gone"} : EditRule(r, m)
       \/ BeginReload(r) \/ SilenceDevice(r)
       \/ \E n \in Alerts : ResolveAlert(r, n)
  \/ EndSilence
  \/ \E n \in Alerts : AcknowledgeAlert(n)
  \/ \E c \in {"bad", "ok", "absent"} : ConditionChanges(c)
  \/ DurationPasses \/ CooldownPasses
  \/ Restart

Spec == Init /\ [][Next]_vars

(* The ticker of the evaluation ticks, requests run to their end, and time *)
(* passes.                                                                 *)
FairSpec ==
  Spec /\ WF_vars(EvalStep) /\ (\A r \in Reqs : WF_vars(OpStep(r)))
       /\ WF_vars(DurationPasses) /\ WF_vars(CooldownPasses)

-----------------------------------------------------------------------------
(***************************************************************************)
(* Properties.                                                             *)
(***************************************************************************)
OpenAlerts == {n \in Alerts : occ[n] \in Open}

(* No rule was edited, device silenced or configuration reloaded: these    *)
(* change memory and tables behind the back of an evaluation, which then   *)
(* opens a second alert, or one that nothing closes.                       *)
Undisturbed == used \subseteq {"resolve"}

(* "One rule/device pair has at most one active occurrence" (SPEC.md:3506):*)
(* also when the process dies between the commit and the update of memory, *)
(* a statement fails, or a user resolves the alert in the middle.          *)
AtMostOneOpen == Undisturbed => Cardinality(OpenAlerts) <= 1

(* "an ongoing condition cannot bypass cooldown" (SPEC.md:3509): no alert  *)
(* is opened within the cooldown of the last one, though a user resolved   *)
(* that one and a restart reads the time back from the table.              *)
CooldownHeld == [][Undisturbed /\ opened' > opened => ~ cooling]_vars

(* An alert "resolves when the condition returns to normal"                *)
(* (docs/ALERTING.md:18): no alert stays open once the metric is, and      *)
(* stays, normal.                                                          *)
ClearedCloses ==
  <>[](cond = "ok" /\ Undisturbed) => <>[](OpenAlerts = {})

Served == \A r \in Reqs : opc[r] = "none"
(* Evaluation starts from "enabled rule" (SPEC.md:3502): while no request  *)
(* is in progress and no statement has failed, the rule in memory is the   *)
(* one in the table, and none if that is disabled or deleted.              *)
RulesCurrent ==
  Served /\ dbErrors = 0 => mrule = IF mode = "on" THEN ver ELSE NoRule

=============================================================================
