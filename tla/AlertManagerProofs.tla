------------------------- MODULE AlertManagerProofs -------------------------
(***************************************************************************)
(* Proofs about the life of alerts, for any number of alerts, requests,    *)
(* database errors and process exits, and with or without a duration.      *)
(*                                                                         *)
(* The two promises about occurrences hold while users only resolve and    *)
(* acknowledge alerts.  The argument follows the one row of alert_states   *)
(* and the one state in memory: InStep says where the two may differ, and  *)
(* what each of the windows in between still guarantees.                   *)
(***************************************************************************)
EXTENDS AlertManager, FiniteSetTheorems, TLAPS

States == {"none", "fresh", "aged", "notified"}

(* The Boolean variables, and the others.                                  *)
FlagsOK ==
  /\ silenced \in BOOLEAN /\ dbCool \in BOOLEAN /\ mcool \in BOOLEAN
  /\ esilenced \in BOOLEAN /\ efire \in BOOLEAN /\ cooling \in BOOLEAN
  /\ ocool \in [Reqs -> BOOLEAN]

ValuesOK ==
  /\ mode \in {"on", "off", "gone"} /\ ver \in Nat /\ srow \in States
  /\ occ \in [Alerts -> {"absent", "active", "acknowledged", "resolved"}]
  /\ opened \in Nat /\ mrule \in Nat /\ mstate \in States
  /\ epc \in {"idle", "policies", "decide", "persist", "open", "note", "close", "forget"}
  /\ erule \in Nat /\ enew \in {"old", "own", "lost"} /\ ecopy \in States
  /\ opc \in [Reqs -> {"none", "clear", "rules", "states", "last", "swap",
                       "forget", "silence", "unwatch"}]
  /\ orule \in [Reqs -> Nat] /\ ostate \in [Reqs -> States]
  /\ ops \in Nat /\ used \subseteq {"edit", "silence", "resolve", "reload"}
  /\ cond \in {"bad", "ok", "absent"} /\ dbErrors \in Nat /\ exits \in Nat

TypeOK == FlagsOK /\ ValuesOK

-----------------------------------------------------------------------------
(***************************************************************************)
(* The inductive invariant.                                                *)
(***************************************************************************)
(* A user's resolution is committed and its lock not yet taken.            *)
Pending == \E r \in Reqs : opc[r] = "forget"

(* Nothing but resolutions: the rule and the policy are the first ones.    *)
NoEdits ==
  /\ mode = "on" /\ ver = 0 /\ mrule = 0 /\ erule = 0
  /\ ~ silenced /\ ~ esilenced
  /\ \A r \in Reqs : opc[r] \in {"none", "forget"}
  /\ \A r, s \in Reqs : opc[r] = "forget" /\ opc[s] = "forget" => r = s

(* There is one open alert at most, its row says so, and no resolution of  *)
(* it is under way.                                                        *)
OneOpen ==
  /\ \A m, n \in Alerts : occ[m] \in Open /\ occ[n] \in Open => m = n
  /\ (\E n \in Alerts : occ[n] \in Open) =>
       /\ srow = "notified" /\ ~ Pending
       /\ epc = "close" => ecopy = "notified"

(* An evaluation that will open an alert saw an aged state that is still   *)
(* there, and neither an open alert nor a cooldown.                        *)
Firing ==
  /\ epc = "open" => efire
  /\ epc \in {"persist", "open"} /\ efire =>
       /\ \A n \in Alerts : occ[n] \notin Open
       /\ ~ Pending /\ ~ cooling /\ mstate = "aged" /\ ecopy = "aged"

(* Memory and table agree, but for the steps between a commit and the lock *)
(* that follows it, and between a new state and its row.                   *)
InStep ==
  /\ \/ epc \in {"idle", "policies", "decide", "close", "open"}
     \/ epc = "persist" /\ enew = "old"
     => Pending \/ mstate = srow
  /\ epc = "persist" /\ enew # "old" =>
       /\ enew = "own" /\ mstate = ecopy /\ srow = "none" /\ ~ Pending
       /\ ecopy \in {"fresh", "aged"}
  /\ epc = "note" =>
       /\ srow \in {"none", "notified"} /\ mstate \in {"none", "aged"}
       /\ mstate = "none" => srow = "none"
       /\ srow = "none" /\ ~ Pending => mstate = "none"
  /\ epc = "forget" => srow = "none"
  /\ Pending => /\ srow = "none"
                /\ epc \in {"policies", "decide"} => mstate = "notified"

(* A running cooldown is in the table, and in memory once the evaluation   *)
(* that started it has taken its last lock.                                *)
CoolKept == cooling => dbCool /\ (mcool \/ epc = "note")

Undisturbance == NoEdits /\ OneOpen /\ Firing /\ InStep /\ CoolKept
AlertInv == TypeOK /\ (Undisturbed => Undisturbance)

(* The version of the rule a load would read now.                          *)
TableRule == IF mode = "on" THEN ver ELSE NoRule

(* What the request r still owes to memory, when it is the only one.       *)
LoadInv(r) ==
  dbErrors = 0 =>
    /\ opc[r] \in {"states", "last", "swap"} => orule[r] = TableRule
    /\ opc[r] \in {"none", "forget", "silence", "unwatch"} => mrule = TableRule

-----------------------------------------------------------------------------
(***************************************************************************)
(* Types.                                                                  *)
(***************************************************************************)
LEMMA TypeInit == Init => TypeOK
<1> SUFFICES ASSUME Init PROVE TypeOK
  OBVIOUS
<1>1. FlagsOK
  BY Zenon DEF Init, FlagsOK
<1>2. ValuesOK
  BY DEF Init, ValuesOK, States, Alerts
<1> QED BY <1>1, <1>2 DEF TypeOK

(* Every action keeps the Boolean variables Boolean ...                    *)
LEMMA FlagsStep == TypeOK /\ [Next]_vars => FlagsOK'
<1> SUFFICES ASSUME TypeOK, [Next]_vars PROVE FlagsOK'
  OBVIOUS
<1> USE DEF TypeOK, FlagsOK
<1>1. CASE EvalStep
  <2>1. CASE BeginEvaluate
    BY <2>1, Zenon DEF BeginEvaluate, InGap, ruleVars, alertVars, memVars, loadVars,
      opVars, worldVars
  <2>2. CASE LoadPolicies
    BY <2>2, Zenon DEF LoadPolicies, ruleVars, alertVars, memVars, loadVars, opVars,
      worldVars
  <2>3. CASE SkipDevice
    BY <2>3, Zenon DEF SkipDevice, EvalEnd, ruleVars, alertVars, memVars, loadVars,
      opVars, worldVars
  <2>4. CASE Triggered
    BY <2>4, Zenon DEF Triggered, NewState, ruleVars, alertVars, loadVars, opVars,
      worldVars
  <2>5. CASE PersistState
    BY <2>5, Zenon DEF PersistState, EvalEnd, ruleVars, memVars, loadVars, opVars,
      worldVars
  <2>6. CASE PersistFails
    BY <2>6, Zenon DEF PersistFails, EvalEnd, DbError, ruleVars, alertVars, loadVars,
      opVars, worldVars
  <2>7. CASE OpenAlert
    BY <2>7, Zenon DEF OpenAlert, ruleVars, memVars, loadVars, opVars
  <2>8. CASE OpenFails
    BY <2>8, Zenon DEF OpenFails, EvalEnd, DbError, ruleVars, alertVars, memVars,
      loadVars, opVars, worldVars
  <2>9. CASE NoteAlert
    BY <2>9, Zenon DEF NoteAlert, EvalEnd, ruleVars, alertVars, loadVars, opVars,
      worldVars
  <2>10. CASE Normal
    BY <2>10, Zenon DEF Normal, EvalEnd, ruleVars, alertVars, memVars, loadVars, opVars,
      worldVars
  <2>11. CASE CloseAlerts
    BY <2>11, Zenon DEF CloseAlerts, Resolved, ruleVars, memVars, loadVars, opVars,
      worldVars
  <2>12. CASE EvaluateFails
    BY <2>12, Zenon DEF EvaluateFails, EvalEnd, DbError, ruleVars, alertVars, memVars,
      loadVars, opVars
  <2>13. CASE ForgetState
    BY <2>13, Zenon DEF ForgetState, EvalEnd, ruleVars, alertVars, loadVars, opVars,
      worldVars
  <2> QED BY <1>1, <2>1, <2>2, <2>3, <2>4, <2>5, <2>6, <2>7, <2>8, <2>9, <2>10, <2>11,
    <2>12, <2>13 DEF EvalStep
<1>2. ASSUME NEW r \in Reqs, OpStep(r) PROVE FlagsOK'
  <2>1. CASE ClearRuleState(r)
    BY <2>1, Zenon DEF ClearRuleState, DropState, ruleVars, alertVars, loadVars, opVars,
      worldVars
  <2>2. CASE LoadRules(r)
    BY <2>2, Zenon DEF LoadRules, NoRule, ruleVars, alertVars, memVars, evalVars, opVars,
      worldVars
  <2>3. CASE LoadStates(r)
    BY <2>3, Zenon DEF LoadStates, ruleVars, alertVars, memVars, evalVars, opVars,
      worldVars
  <2>4. CASE LoadLastNotified(r)
    BY <2>4, Zenon DEF LoadLastNotified, ruleVars, alertVars, memVars, evalVars, opVars,
      worldVars
  <2>5. CASE SwapConfig(r)
    BY <2>5, Zenon DEF SwapConfig, EndLoad, ruleVars, alertVars, opVars, worldVars
  <2>6. CASE ReloadFails(r)
    BY <2>6, Zenon DEF ReloadFails, DbError, EndLoad, ruleVars, alertVars, memVars,
      evalVars, opVars
  <2>7. CASE ForgetResolved(r)
    BY <2>7, Zenon DEF ForgetResolved, DropState, ruleVars, alertVars, loadVars, opVars,
      worldVars
  <2>8. CASE ResolveDeviceAlerts(r)
    BY <2>8, Zenon DEF ResolveDeviceAlerts, Resolved, ruleVars, memVars, evalVars,
      loadVars, opVars, worldVars
  <2>9. CASE SilenceFails(r)
    BY <2>9, Zenon DEF SilenceFails, DbError, ruleVars, alertVars, memVars, evalVars,
      loadVars, opVars
  <2>10. CASE ClearDeviceState(r)
    BY <2>10, Zenon DEF ClearDeviceState, DropState, ruleVars, alertVars, loadVars,
      opVars
  <2> QED BY <1>2, <2>1, <2>2, <2>3, <2>4, <2>5, <2>6, <2>7, <2>8, <2>9, <2>10 DEF OpStep
<1>3. ASSUME NEW r \in Reqs, NEW m \in {"on", "off", "gone"}, EditRule(r, m) PROVE FlagsOK'
  BY <1>3, Zenon DEF EditRule, Begin, Resolved, Open, memVars, evalVars, loadVars
<1>4. ASSUME NEW r \in Reqs, BeginReload(r) \/ SilenceDevice(r) PROVE FlagsOK'
  <2>1. CASE BeginReload(r)
    BY <2>1, Zenon DEF BeginReload, Begin, ruleVars, alertVars, memVars, evalVars, loadVars,
      worldVars
  <2>2. CASE SilenceDevice(r)
    BY <2>2, Zenon DEF SilenceDevice, Begin, alertVars, memVars, evalVars, loadVars, worldVars
  <2> QED BY <1>4, <2>1, <2>2
<1>5. ASSUME NEW r \in Reqs, NEW n \in Alerts, ResolveAlert(r, n) PROVE FlagsOK'
  BY <1>5, Zenon DEF ResolveAlert, Begin, ruleVars, memVars, evalVars, loadVars, worldVars
<1>6. CASE EndSilence
  BY <1>6, Zenon DEF EndSilence, alertVars, memVars, evalVars, loadVars, opVars, worldVars
<1>7. ASSUME NEW n \in Alerts, AcknowledgeAlert(n) PROVE FlagsOK'
  BY <1>7, Zenon DEF AcknowledgeAlert, ruleVars, memVars, evalVars, loadVars, opVars, worldVars
<1>8. ASSUME NEW c \in {"bad", "ok", "absent"}, ConditionChanges(c) PROVE FlagsOK'
  BY <1>8, Zenon DEF ConditionChanges, ruleVars, alertVars, memVars, evalVars, loadVars, opVars
<1>9. CASE DurationPasses
  BY <1>9, Zenon DEF DurationPasses, Older, ruleVars, opVars, worldVars
<1>10. CASE CooldownPasses
  BY <1>10, Zenon DEF CooldownPasses, ruleVars, evalVars, opVars
<1>11. CASE Restart
  BY <1>11, Zenon DEF Restart, EvalEnd, ruleVars, alertVars, opVars
<1>12. CASE UNCHANGED vars
  BY <1>12, Zenon DEF vars, ruleVars, alertVars, memVars, evalVars, loadVars, opVars, worldVars
<1> HIDE DEF TypeOK, FlagsOK
<1> QED
  BY <1>1, <1>2, <1>3, <1>4, <1>5, <1>6, <1>7, <1>8, <1>9, <1>10, <1>11, <1>12 DEF Next

(* ... and the others in their types.                                      *)
LEMMA ValuesStep == TypeOK /\ [Next]_vars => ValuesOK'
<1> SUFFICES ASSUME TypeOK, [Next]_vars PROVE ValuesOK'
  OBVIOUS
<1> USE ManagerAssumption DEF TypeOK, ValuesOK, States, NoRule
<1>1. CASE EvalStep
  <2>1. CASE BeginEvaluate
    BY <2>1 DEF BeginEvaluate, InGap, ruleVars, alertVars, memVars, loadVars, opVars,
      worldVars
  <2>2. CASE LoadPolicies
    BY <2>2 DEF LoadPolicies, ruleVars, alertVars, memVars, loadVars, opVars, worldVars
  <2>3. CASE SkipDevice
    BY <2>3 DEF SkipDevice, EvalEnd, ruleVars, alertVars, memVars, loadVars, opVars,
      worldVars
  <2>4. CASE Triggered
    BY <2>4 DEF Triggered, NewState, ruleVars, alertVars, loadVars, opVars, worldVars
  <2>5. CASE PersistState
    BY <2>5 DEF PersistState, EvalEnd, ruleVars, memVars, loadVars, opVars, worldVars
  <2>6. CASE PersistFails
    BY <2>6 DEF PersistFails, EvalEnd, DbError, ruleVars, alertVars, loadVars, opVars,
      worldVars
  <2>7. CASE OpenAlert
    <3>1. occ' \in [Alerts -> {"absent", "active", "acknowledged", "resolved"}]
      BY <2>7 DEF OpenAlert
    <3>2. opened' \in Nat /\ srow' \in States /\ epc' = "note"
      BY <2>7 DEF OpenAlert
    <3>3. UNCHANGED <<mode, ver, mrule, mstate, erule, enew, ecopy, opc, orule, ostate, ops,
                      used, cond, dbErrors, exits>>
      BY <2>7 DEF OpenAlert, ruleVars, memVars, loadVars, opVars
    <3> QED BY <3>1, <3>2, <3>3
  <2>8. CASE OpenFails
    BY <2>8 DEF OpenFails, EvalEnd, DbError, ruleVars, alertVars, memVars, loadVars,
      opVars, worldVars
  <2>9. CASE NoteAlert
    BY <2>9 DEF NoteAlert, EvalEnd, ruleVars, alertVars, loadVars, opVars, worldVars
  <2>10. CASE Normal
    BY <2>10 DEF Normal, EvalEnd, ruleVars, alertVars, memVars, loadVars, opVars,
      worldVars
  <2>11. CASE CloseAlerts
    BY <2>11 DEF CloseAlerts, Resolved, ruleVars, memVars, loadVars, opVars, worldVars
  <2>12. CASE EvaluateFails
    BY <2>12 DEF EvaluateFails, EvalEnd, DbError, ruleVars, alertVars, memVars, loadVars,
      opVars
  <2>13. CASE ForgetState
    BY <2>13 DEF ForgetState, EvalEnd, ruleVars, alertVars, loadVars, opVars, worldVars
  <2> QED BY <1>1, <2>1, <2>2, <2>3, <2>4, <2>5, <2>6, <2>7, <2>8, <2>9, <2>10, <2>11,
    <2>12, <2>13 DEF EvalStep
<1>2. ASSUME NEW r \in Reqs, OpStep(r) PROVE ValuesOK'
  <2>1. CASE ClearRuleState(r)
    BY <2>1 DEF ClearRuleState, DropState, ruleVars, alertVars, loadVars, opVars,
      worldVars
  <2>2. CASE LoadRules(r)
    BY <2>2 DEF LoadRules, NoRule, ruleVars, alertVars, memVars, evalVars, opVars,
      worldVars
  <2>3. CASE LoadStates(r)
    BY <2>3 DEF LoadStates, ruleVars, alertVars, memVars, evalVars, opVars, worldVars
  <2>4. CASE LoadLastNotified(r)
    BY <2>4 DEF LoadLastNotified, ruleVars, alertVars, memVars, evalVars, opVars,
      worldVars
  <2>5. CASE SwapConfig(r)
    BY <2>5 DEF SwapConfig, EndLoad, ruleVars, alertVars, opVars, worldVars
  <2>6. CASE ReloadFails(r)
    BY <2>6 DEF ReloadFails, DbError, EndLoad, ruleVars, alertVars, memVars, evalVars,
      opVars
  <2>7. CASE ForgetResolved(r)
    BY <2>7 DEF ForgetResolved, DropState, ruleVars, alertVars, loadVars, opVars,
      worldVars
  <2>8. CASE ResolveDeviceAlerts(r)
    BY <2>8 DEF ResolveDeviceAlerts, Resolved, ruleVars, memVars, evalVars, loadVars,
      opVars, worldVars
  <2>9. CASE SilenceFails(r)
    BY <2>9 DEF SilenceFails, DbError, ruleVars, alertVars, memVars, evalVars, loadVars,
      opVars
  <2>10. CASE ClearDeviceState(r)
    BY <2>10 DEF ClearDeviceState, DropState, ruleVars, alertVars, loadVars, opVars
  <2> QED BY <1>2, <2>1, <2>2, <2>3, <2>4, <2>5, <2>6, <2>7, <2>8, <2>9, <2>10 DEF OpStep
<1>3. ASSUME NEW r \in Reqs, NEW m \in {"on", "off", "gone"}, EditRule(r, m) PROVE ValuesOK'
  BY <1>3 DEF EditRule, Begin, Resolved, Open, memVars, evalVars, loadVars
<1>4. ASSUME NEW r \in Reqs, BeginReload(r) \/ SilenceDevice(r) PROVE ValuesOK'
  <2>1. CASE BeginReload(r)
    BY <2>1 DEF BeginReload, Begin, ruleVars, alertVars, memVars, evalVars, loadVars,
      worldVars
  <2>2. CASE SilenceDevice(r)
    BY <2>2 DEF SilenceDevice, Begin, alertVars, memVars, evalVars, loadVars, worldVars
  <2> QED BY <1>4, <2>1, <2>2
<1>5. ASSUME NEW r \in Reqs, NEW n \in Alerts, ResolveAlert(r, n) PROVE ValuesOK'
  BY <1>5 DEF ResolveAlert, Begin, ruleVars, memVars, evalVars, loadVars, worldVars
<1>6. CASE EndSilence
  BY <1>6 DEF EndSilence, alertVars, memVars, evalVars, loadVars, opVars, worldVars
<1>7. ASSUME NEW n \in Alerts, AcknowledgeAlert(n) PROVE ValuesOK'
  BY <1>7 DEF AcknowledgeAlert, ruleVars, memVars, evalVars, loadVars, opVars, worldVars
<1>8. ASSUME NEW c \in {"bad", "ok", "absent"}, ConditionChanges(c) PROVE ValuesOK'
  BY <1>8 DEF ConditionChanges, ruleVars, alertVars, memVars, evalVars, loadVars, opVars
<1>9. CASE DurationPasses
  BY <1>9 DEF DurationPasses, Older, ruleVars, opVars, worldVars
<1>10. CASE CooldownPasses
  BY <1>10 DEF CooldownPasses, ruleVars, evalVars, opVars
<1>11. CASE Restart
  BY <1>11 DEF Restart, EvalEnd, ruleVars, alertVars, opVars
<1>12. CASE UNCHANGED vars
  BY <1>12 DEF vars, ruleVars, alertVars, memVars, evalVars, loadVars, opVars, worldVars
<1> HIDE DEF TypeOK, ValuesOK
<1> QED
  BY <1>1, <1>2, <1>3, <1>4, <1>5, <1>6, <1>7, <1>8, <1>9, <1>10, <1>11, <1>12 DEF Next

(* Every step keeps the types.                                             *)
LEMMA TypeStep == TypeOK /\ [Next]_vars => TypeOK'
BY FlagsStep, ValuesStep DEF TypeOK

-----------------------------------------------------------------------------
(***************************************************************************)
(* While users only resolve and acknowledge.                               *)
(***************************************************************************)
LEMMA UndisturbedInit == Init => Undisturbance
<1> SUFFICES ASSUME Init PROVE Undisturbance
  OBVIOUS
<1>1. NoEdits
  BY DEF Init, NoEdits
<1>2. OneOpen /\ InStep /\ CoolKept
  BY DEF Init, OneOpen, InStep, CoolKept, Open, Pending
<1>3. Firing
  BY DEF Init, Firing
<1> QED BY <1>1, <1>2, <1>3 DEF Undisturbance

(* The requests of a past without edits, silences and reloads.             *)
QuietStep ==
  \/ EvalStep
  \/ \E r \in Reqs : ForgetResolved(r) \/ \E n \in Alerts : ResolveAlert(r, n)
  \/ \E n \in Alerts : AcknowledgeAlert(n)
  \/ \E c \in {"bad", "ok", "absent"} : ConditionChanges(c)
  \/ DurationPasses \/ CooldownPasses \/ Restart

(* No other action leads to such a state, and it comes from another one.   *)
LEMMA QuietSteps ==
  AlertInv /\ Next /\ Undisturbed' => Undisturbance /\ QuietStep
<1> SUFFICES ASSUME AlertInv, Next, Undisturbed' PROVE Undisturbance /\ QuietStep
  OBVIOUS
<1>1. used \subseteq used'
  <2>1. CASE EvalStep
    BY <2>1 DEF EvalStep, BeginEvaluate, LoadPolicies, SkipDevice, Triggered, PersistState,
      PersistFails, OpenAlert, OpenFails, NoteAlert, Normal, CloseAlerts, EvaluateFails,
      ForgetState, opVars
  <2>2. ASSUME NEW r \in Reqs, OpStep(r) PROVE used \subseteq used'
    BY <2>2 DEF OpStep, ClearRuleState, LoadRules, LoadStates, LoadLastNotified, SwapConfig,
      ReloadFails, ForgetResolved, ResolveDeviceAlerts, SilenceFails, ClearDeviceState, opVars
  <2>3. ASSUME NEW r \in Reqs, NEW m \in {"on", "off", "gone"}, EditRule(r, m)
        PROVE  used \subseteq used'
    BY <2>3 DEF EditRule, Begin
  <2>4. ASSUME NEW r \in Reqs, BeginReload(r) \/ SilenceDevice(r) PROVE used \subseteq used'
    BY <2>4 DEF BeginReload, SilenceDevice, Begin
  <2>5. ASSUME NEW r \in Reqs, NEW n \in Alerts, ResolveAlert(r, n) PROVE used \subseteq used'
    BY <2>5 DEF ResolveAlert, Begin
  <2>6. CASE EndSilence \/ DurationPasses \/ CooldownPasses \/ Restart
    BY <2>6 DEF EndSilence, DurationPasses, CooldownPasses, Restart, opVars
  <2>7. ASSUME NEW n \in Alerts, AcknowledgeAlert(n) PROVE used \subseteq used'
    BY <2>7 DEF AcknowledgeAlert, opVars
  <2>8. ASSUME NEW c \in {"bad", "ok", "absent"}, ConditionChanges(c) PROVE used \subseteq used'
    BY <2>8 DEF ConditionChanges, opVars
  <2> QED BY <2>1, <2>2, <2>3, <2>4, <2>5, <2>6, <2>7, <2>8 DEF Next
<1>2. Undisturbance
  BY <1>1 DEF AlertInv, Undisturbed
<1>3. NoEdits
  BY <1>2 DEF Undisturbance
<1>4. ASSUME NEW r \in Reqs, NEW m \in {"on", "off", "gone"} PROVE ~ EditRule(r, m)
  BY DEF EditRule, Begin, Undisturbed
<1>5. ASSUME NEW r \in Reqs PROVE ~ BeginReload(r) /\ ~ SilenceDevice(r)
  BY DEF BeginReload, SilenceDevice, Begin, Undisturbed
<1>6. ASSUME NEW r \in Reqs, OpStep(r) PROVE ForgetResolved(r)
  BY <1>3, <1>6 DEF NoEdits, OpStep, ClearRuleState, LoadRules, LoadStates, LoadLastNotified,
    SwapConfig, ReloadFails, ResolveDeviceAlerts, SilenceFails, ClearDeviceState
<1>7. ~ EndSilence
  BY <1>3 DEF NoEdits, EndSilence
<1> QED BY <1>2, <1>4, <1>5, <1>6, <1>7 DEF Next, QuietStep

(* Each of those actions keeps the invariant.                              *)
LEMMA UndisturbedStep ==
  AlertInv /\ Next /\ Undisturbed' => Undisturbance'
<1> SUFFICES ASSUME AlertInv, Next, Undisturbed' PROVE Undisturbance'
  OBVIOUS
<1>0. TypeOK /\ NoEdits /\ OneOpen /\ Firing /\ InStep /\ CoolKept /\ QuietStep
  BY QuietSteps DEF AlertInv, Undisturbance
<1> USE <1>0 DEF TypeOK, Undisturbance
<1>1. CASE EvalStep
  <2>1. CASE BeginEvaluate
    <3>1. NoEdits'
      BY <2>1 DEF BeginEvaluate, InGap, ValuesOK, ruleVars, alertVars, memVars, loadVars,
        opVars, worldVars, NoEdits
    <3>2. OneOpen'
      BY <2>1 DEF BeginEvaluate, InGap, ValuesOK, ruleVars, alertVars, memVars, loadVars,
        opVars, worldVars, OneOpen, Pending, Open, Firing, InStep, NoEdits
    <3>3. Firing'
      BY <2>1 DEF BeginEvaluate, InGap, ValuesOK, ruleVars, alertVars, memVars, loadVars,
        opVars, worldVars, Firing, Pending, Open, OneOpen, InStep, CoolKept, NoEdits
    <3>4. InStep'
      BY <2>1 DEF BeginEvaluate, InGap, ValuesOK, ruleVars, alertVars, memVars, loadVars,
        opVars, worldVars, InStep, Pending, OneOpen, Open, Firing, NoEdits
    <3>5. CoolKept'
      BY <2>1 DEF BeginEvaluate, InGap, ValuesOK, ruleVars, alertVars, memVars, loadVars,
        opVars, worldVars, CoolKept, NoEdits
    <3> QED BY <3>1, <3>2, <3>3, <3>4, <3>5
  <2>2. CASE LoadPolicies
    <3>1. NoEdits'
      BY <2>2 DEF LoadPolicies, ValuesOK, ruleVars, alertVars, memVars, loadVars, opVars,
        worldVars, NoEdits
    <3>2. OneOpen'
      BY <2>2 DEF LoadPolicies, ValuesOK, ruleVars, alertVars, memVars, loadVars, opVars,
        worldVars, OneOpen, Pending, Open, Firing, InStep, NoEdits
    <3>3. Firing'
      BY <2>2 DEF LoadPolicies, ValuesOK, ruleVars, alertVars, memVars, loadVars, opVars,
        worldVars, Firing, Pending, Open, OneOpen, InStep, CoolKept, NoEdits
    <3>4. InStep'
      BY <2>2 DEF LoadPolicies, ValuesOK, ruleVars, alertVars, memVars, loadVars, opVars,
        worldVars, InStep, Pending, OneOpen, Open, Firing, NoEdits
    <3>5. CoolKept'
      BY <2>2 DEF LoadPolicies, ValuesOK, ruleVars, alertVars, memVars, loadVars, opVars,
        worldVars, CoolKept, NoEdits
    <3> QED BY <3>1, <3>2, <3>3, <3>4, <3>5
  <2>3. CASE SkipDevice
    <3>1. NoEdits'
      BY <2>3 DEF SkipDevice, EvalEnd, ValuesOK, ruleVars, alertVars, memVars, loadVars,
        opVars, worldVars, NoEdits
    <3>2. OneOpen'
      BY <2>3 DEF SkipDevice, EvalEnd, ValuesOK, ruleVars, alertVars, memVars, loadVars,
        opVars, worldVars, OneOpen, Pending, Open, Firing, InStep, NoEdits
    <3>3. Firing'
      BY <2>3 DEF SkipDevice, EvalEnd, ValuesOK, ruleVars, alertVars, memVars, loadVars,
        opVars, worldVars, Firing, Pending, Open, OneOpen, InStep, CoolKept, NoEdits
    <3>4. InStep'
      BY <2>3 DEF SkipDevice, EvalEnd, ValuesOK, ruleVars, alertVars, memVars, loadVars,
        opVars, worldVars, InStep, Pending, OneOpen, Open, Firing, NoEdits
    <3>5. CoolKept'
      BY <2>3 DEF SkipDevice, EvalEnd, ValuesOK, ruleVars, alertVars, memVars, loadVars,
        opVars, worldVars, CoolKept, NoEdits
    <3> QED BY <3>1, <3>2, <3>3, <3>4, <3>5
  <2>4. CASE Triggered
    <3>1. NoEdits'
      BY <2>4 DEF Triggered, NewState, ValuesOK, ruleVars, alertVars, loadVars, opVars,
        worldVars, NoEdits
    <3>2. OneOpen'
      BY <2>4 DEF Triggered, NewState, ValuesOK, ruleVars, alertVars, loadVars, opVars,
        worldVars, OneOpen, Pending, Open, Firing, InStep, NoEdits
    <3>3. Firing'
      BY <2>4 DEF Triggered, NewState, ValuesOK, ruleVars, alertVars, loadVars, opVars,
        worldVars, Firing, Pending, Open, OneOpen, InStep, CoolKept, NoEdits
    <3>4. InStep'
      BY <2>4 DEF Triggered, NewState, ValuesOK, ruleVars, alertVars, loadVars, opVars,
        worldVars, InStep, Pending, OneOpen, Open, Firing, NoEdits
    <3>5. CoolKept'
      BY <2>4 DEF Triggered, NewState, ValuesOK, ruleVars, alertVars, loadVars, opVars,
        worldVars, CoolKept, NoEdits
    <3> QED BY <3>1, <3>2, <3>3, <3>4, <3>5
  <2>5. CASE PersistState
    <3>1. NoEdits'
      BY <2>5 DEF PersistState, EvalEnd, ValuesOK, ruleVars, memVars, loadVars, opVars,
        worldVars, NoEdits
    <3>2. OneOpen'
      BY <2>5 DEF PersistState, EvalEnd, ValuesOK, ruleVars, memVars, loadVars, opVars,
        worldVars, OneOpen, Pending, Open, Firing, InStep, NoEdits
    <3>3. Firing'
      BY <2>5 DEF PersistState, EvalEnd, ValuesOK, ruleVars, memVars, loadVars, opVars,
        worldVars, Firing, Pending, Open, OneOpen, InStep, CoolKept, NoEdits
    <3>4. InStep'
      BY <2>5 DEF PersistState, EvalEnd, ValuesOK, ruleVars, memVars, loadVars, opVars,
        worldVars, InStep, Pending, OneOpen, Open, Firing, NoEdits
    <3>5. CoolKept'
      BY <2>5 DEF PersistState, EvalEnd, ValuesOK, ruleVars, memVars, loadVars, opVars,
        worldVars, CoolKept, NoEdits
    <3> QED BY <3>1, <3>2, <3>3, <3>4, <3>5
  <2>6. CASE PersistFails
    <3>1. NoEdits'
      BY <2>6 DEF PersistFails, EvalEnd, DbError, ValuesOK, ruleVars, alertVars,
        loadVars, opVars, worldVars, NoEdits
    <3>2. OneOpen'
      BY <2>6 DEF PersistFails, EvalEnd, DbError, ValuesOK, ruleVars, alertVars,
        loadVars, opVars, worldVars, OneOpen, Pending, Open, Firing, InStep, NoEdits
    <3>3. Firing'
      BY <2>6 DEF PersistFails, EvalEnd, DbError, ValuesOK, ruleVars, alertVars,
        loadVars, opVars, worldVars, Firing, Pending, Open, OneOpen, InStep, CoolKept,
        NoEdits
    <3>4. InStep'
      BY <2>6 DEF PersistFails, EvalEnd, DbError, ValuesOK, ruleVars, alertVars,
        loadVars, opVars, worldVars, InStep, Pending, OneOpen, Open, Firing, NoEdits
    <3>5. CoolKept'
      BY <2>6 DEF PersistFails, EvalEnd, DbError, ValuesOK, ruleVars, alertVars,
        loadVars, opVars, worldVars, CoolKept, NoEdits
    <3> QED BY <3>1, <3>2, <3>3, <3>4, <3>5
  <2>7. CASE OpenAlert
    <3>1. NoEdits'
      BY <2>7 DEF OpenAlert, ValuesOK, ruleVars, memVars, loadVars, opVars, NoEdits
    <3>2. OneOpen'
      BY <2>7 DEF OpenAlert, ValuesOK, ruleVars, memVars, loadVars, opVars, OneOpen,
        Pending, Open, Firing, InStep, NoEdits
    <3>3. Firing'
      BY <2>7 DEF OpenAlert, ValuesOK, ruleVars, memVars, loadVars, opVars, Firing,
        Pending, Open, OneOpen, InStep, CoolKept, NoEdits
    <3>4. InStep'
      BY <2>7 DEF OpenAlert, ValuesOK, ruleVars, memVars, loadVars, opVars, InStep,
        Pending, OneOpen, Open, Firing, NoEdits
    <3>5. CoolKept'
      BY <2>7 DEF OpenAlert, ValuesOK, ruleVars, memVars, loadVars, opVars, CoolKept,
        NoEdits
    <3> QED BY <3>1, <3>2, <3>3, <3>4, <3>5
  <2>8. CASE OpenFails
    <3>1. NoEdits'
      BY <2>8 DEF OpenFails, EvalEnd, DbError, ValuesOK, ruleVars, alertVars, memVars,
        loadVars, opVars, worldVars, NoEdits
    <3>2. OneOpen'
      BY <2>8 DEF OpenFails, EvalEnd, DbError, ValuesOK, ruleVars, alertVars, memVars,
        loadVars, opVars, worldVars, OneOpen, Pending, Open, Firing, InStep, NoEdits
    <3>3. Firing'
      BY <2>8 DEF OpenFails, EvalEnd, DbError, ValuesOK, ruleVars, alertVars, memVars,
        loadVars, opVars, worldVars, Firing, Pending, Open, OneOpen, InStep, CoolKept,
        NoEdits
    <3>4. InStep'
      BY <2>8 DEF OpenFails, EvalEnd, DbError, ValuesOK, ruleVars, alertVars, memVars,
        loadVars, opVars, worldVars, InStep, Pending, OneOpen, Open, Firing, NoEdits
    <3>5. CoolKept'
      BY <2>8 DEF OpenFails, EvalEnd, DbError, ValuesOK, ruleVars, alertVars, memVars,
        loadVars, opVars, worldVars, CoolKept, NoEdits
    <3> QED BY <3>1, <3>2, <3>3, <3>4, <3>5
  <2>9. CASE NoteAlert
    <3>1. NoEdits'
      BY <2>9 DEF NoteAlert, EvalEnd, ValuesOK, ruleVars, alertVars, loadVars, opVars,
        worldVars, NoEdits
    <3>2. OneOpen'
      BY <2>9 DEF NoteAlert, EvalEnd, ValuesOK, ruleVars, alertVars, loadVars, opVars,
        worldVars, OneOpen, Pending, Open, Firing, InStep, NoEdits
    <3>3. Firing'
      BY <2>9 DEF NoteAlert, EvalEnd, ValuesOK, ruleVars, alertVars, loadVars, opVars,
        worldVars, Firing, Pending, Open, OneOpen, InStep, CoolKept, NoEdits
    <3>4. InStep'
      BY <2>9 DEF NoteAlert, EvalEnd, ValuesOK, ruleVars, alertVars, loadVars, opVars,
        worldVars, InStep, Pending, OneOpen, Open, Firing, NoEdits
    <3>5. CoolKept'
      BY <2>9 DEF NoteAlert, EvalEnd, ValuesOK, ruleVars, alertVars, loadVars, opVars,
        worldVars, CoolKept, NoEdits
    <3> QED BY <3>1, <3>2, <3>3, <3>4, <3>5
  <2>10. CASE Normal
    <3>1. NoEdits'
      BY <2>10 DEF Normal, EvalEnd, ValuesOK, ruleVars, alertVars, memVars, loadVars,
        opVars, worldVars, NoEdits
    <3>2. OneOpen'
      BY <2>10 DEF Normal, EvalEnd, ValuesOK, ruleVars, alertVars, memVars, loadVars,
        opVars, worldVars, OneOpen, Pending, Open, Firing, InStep, NoEdits
    <3>3. Firing'
      BY <2>10 DEF Normal, EvalEnd, ValuesOK, ruleVars, alertVars, memVars, loadVars,
        opVars, worldVars, Firing, Pending, Open, OneOpen, InStep, CoolKept, NoEdits
    <3>4. InStep'
      BY <2>10 DEF Normal, EvalEnd, ValuesOK, ruleVars, alertVars, memVars, loadVars,
        opVars, worldVars, InStep, Pending, OneOpen, Open, Firing, NoEdits
    <3>5. CoolKept'
      BY <2>10 DEF Normal, EvalEnd, ValuesOK, ruleVars, alertVars, memVars, loadVars,
        opVars, worldVars, CoolKept, NoEdits
    <3> QED BY <3>1, <3>2, <3>3, <3>4, <3>5
  <2>11. CASE CloseAlerts
    <3>1. NoEdits'
      BY <2>11 DEF CloseAlerts, Resolved, ValuesOK, ruleVars, memVars, loadVars, opVars,
        worldVars, NoEdits
    <3>2. OneOpen'
      BY <2>11 DEF CloseAlerts, Resolved, ValuesOK, ruleVars, memVars, loadVars, opVars,
        worldVars, OneOpen, Pending, Open, Firing, InStep, NoEdits
    <3>3. Firing'
      BY <2>11 DEF CloseAlerts, Resolved, ValuesOK, ruleVars, memVars, loadVars, opVars,
        worldVars, Firing, Pending, Open, OneOpen, InStep, CoolKept, NoEdits
    <3>4. InStep'
      BY <2>11 DEF CloseAlerts, Resolved, ValuesOK, ruleVars, memVars, loadVars, opVars,
        worldVars, InStep, Pending, OneOpen, Open, Firing, NoEdits
    <3>5. CoolKept'
      BY <2>11 DEF CloseAlerts, Resolved, ValuesOK, ruleVars, memVars, loadVars, opVars,
        worldVars, CoolKept, NoEdits
    <3> QED BY <3>1, <3>2, <3>3, <3>4, <3>5
  <2>12. CASE EvaluateFails
    <3>1. NoEdits'
      BY <2>12 DEF EvaluateFails, EvalEnd, DbError, ValuesOK, ruleVars, alertVars,
        memVars, loadVars, opVars, NoEdits
    <3>2. OneOpen'
      BY <2>12 DEF EvaluateFails, EvalEnd, DbError, ValuesOK, ruleVars, alertVars,
        memVars, loadVars, opVars, OneOpen, Pending, Open, Firing, InStep, NoEdits
    <3>3. Firing'
      BY <2>12 DEF EvaluateFails, EvalEnd, DbError, ValuesOK, ruleVars, alertVars,
        memVars, loadVars, opVars, Firing, Pending, Open, OneOpen, InStep, CoolKept,
        NoEdits
    <3>4. InStep'
      BY <2>12 DEF EvaluateFails, EvalEnd, DbError, ValuesOK, ruleVars, alertVars,
        memVars, loadVars, opVars, InStep, Pending, OneOpen, Open, Firing, NoEdits
    <3>5. CoolKept'
      BY <2>12 DEF EvaluateFails, EvalEnd, DbError, ValuesOK, ruleVars, alertVars,
        memVars, loadVars, opVars, CoolKept, NoEdits
    <3> QED BY <3>1, <3>2, <3>3, <3>4, <3>5
  <2>13. CASE ForgetState
    <3>1. NoEdits'
      BY <2>13 DEF ForgetState, EvalEnd, ValuesOK, ruleVars, alertVars, loadVars, opVars,
        worldVars, NoEdits
    <3>2. OneOpen'
      BY <2>13 DEF ForgetState, EvalEnd, ValuesOK, ruleVars, alertVars, loadVars, opVars,
        worldVars, OneOpen, Pending, Open, Firing, InStep, NoEdits
    <3>3. Firing'
      BY <2>13 DEF ForgetState, EvalEnd, ValuesOK, ruleVars, alertVars, loadVars, opVars,
        worldVars, Firing, Pending, Open, OneOpen, InStep, CoolKept, NoEdits
    <3>4. InStep'
      BY <2>13 DEF ForgetState, EvalEnd, ValuesOK, ruleVars, alertVars, loadVars, opVars,
        worldVars, InStep, Pending, OneOpen, Open, Firing, NoEdits
    <3>5. CoolKept'
      BY <2>13 DEF ForgetState, EvalEnd, ValuesOK, ruleVars, alertVars, loadVars, opVars,
        worldVars, CoolKept, NoEdits
    <3> QED BY <3>1, <3>2, <3>3, <3>4, <3>5
  <2> QED BY <1>1, <2>1, <2>2, <2>3, <2>4, <2>5, <2>6, <2>7, <2>8, <2>9, <2>10, <2>11,
    <2>12, <2>13 DEF EvalStep
<1>2. ASSUME NEW r \in Reqs, ForgetResolved(r) PROVE Undisturbance'
  <2>1. NoEdits'
    BY <1>2 DEF ForgetResolved, DropState, ValuesOK, ruleVars, alertVars, loadVars,
      opVars, worldVars, NoEdits
  <2>2. OneOpen'
    BY <1>2 DEF ForgetResolved, DropState, ValuesOK, ruleVars, alertVars, loadVars,
      opVars, worldVars, OneOpen, Pending, Open, Firing, InStep, NoEdits
  <2>3. Firing'
    BY <1>2 DEF ForgetResolved, DropState, ValuesOK, ruleVars, alertVars, loadVars,
      opVars, worldVars, Firing, Pending, Open, OneOpen, InStep, CoolKept, NoEdits
  <2>4. InStep'
    BY <1>2 DEF ForgetResolved, DropState, ValuesOK, ruleVars, alertVars, loadVars,
      opVars, worldVars, InStep, Pending, OneOpen, Open, Firing, NoEdits
  <2>5. CoolKept'
    BY <1>2 DEF ForgetResolved, DropState, ValuesOK, ruleVars, alertVars, loadVars,
      opVars, worldVars, CoolKept, NoEdits
  <2> QED BY <2>1, <2>2, <2>3, <2>4, <2>5
<1>3. ASSUME NEW r \in Reqs, NEW n \in Alerts, ResolveAlert(r, n) PROVE Undisturbance'
  <2>1. NoEdits'
    BY <1>3 DEF ResolveAlert, Begin, ValuesOK, ruleVars, memVars, evalVars, loadVars,
      worldVars, NoEdits, OneOpen, Pending, Open
  <2>2. OneOpen'
    BY <1>3 DEF ResolveAlert, Begin, ValuesOK, ruleVars, memVars, evalVars, loadVars,
      worldVars, OneOpen, Pending, Open, Firing, InStep, NoEdits
  <2>3. Firing'
    BY <1>3 DEF ResolveAlert, Begin, ValuesOK, ruleVars, memVars, evalVars, loadVars,
      worldVars, Firing, Pending, Open, OneOpen, InStep, CoolKept, NoEdits
  <2>4. InStep'
    BY <1>3 DEF ResolveAlert, Begin, ValuesOK, ruleVars, memVars, evalVars, loadVars,
      worldVars, InStep, Pending, OneOpen, Open, Firing, NoEdits
  <2>5. CoolKept'
    BY <1>3 DEF ResolveAlert, Begin, ValuesOK, ruleVars, memVars, evalVars, loadVars,
      worldVars, CoolKept, NoEdits
  <2> QED BY <2>1, <2>2, <2>3, <2>4, <2>5
<1>4. ASSUME NEW n \in Alerts, AcknowledgeAlert(n) PROVE Undisturbance'
  <2>1. NoEdits'
    BY <1>4 DEF AcknowledgeAlert, ValuesOK, ruleVars, memVars, evalVars, loadVars,
      opVars, worldVars, NoEdits
  <2>2. OneOpen'
    BY <1>4 DEF AcknowledgeAlert, ValuesOK, ruleVars, memVars, evalVars, loadVars,
      opVars, worldVars, OneOpen, Pending, Open, Firing, InStep, NoEdits
  <2>3. Firing'
    BY <1>4 DEF AcknowledgeAlert, ValuesOK, ruleVars, memVars, evalVars, loadVars,
      opVars, worldVars, Firing, Pending, Open, OneOpen, InStep, CoolKept, NoEdits
  <2>4. InStep'
    BY <1>4 DEF AcknowledgeAlert, ValuesOK, ruleVars, memVars, evalVars, loadVars,
      opVars, worldVars, InStep, Pending, OneOpen, Open, Firing, NoEdits
  <2>5. CoolKept'
    BY <1>4 DEF AcknowledgeAlert, ValuesOK, ruleVars, memVars, evalVars, loadVars,
      opVars, worldVars, CoolKept, NoEdits
  <2> QED BY <2>1, <2>2, <2>3, <2>4, <2>5
<1>5. ASSUME NEW c \in {"bad", "ok", "absent"}, ConditionChanges(c) PROVE Undisturbance'
  <2>1. NoEdits'
    BY <1>5 DEF ConditionChanges, ValuesOK, ruleVars, alertVars, memVars, evalVars,
      loadVars, opVars, NoEdits
  <2>2. OneOpen'
    BY <1>5 DEF ConditionChanges, ValuesOK, ruleVars, alertVars, memVars, evalVars,
      loadVars, opVars, OneOpen, Pending, Open, Firing, InStep, NoEdits
  <2>3. Firing'
    BY <1>5 DEF ConditionChanges, ValuesOK, ruleVars, alertVars, memVars, evalVars,
      loadVars, opVars, Firing, Pending, Open, OneOpen, InStep, CoolKept, NoEdits
  <2>4. InStep'
    BY <1>5 DEF ConditionChanges, ValuesOK, ruleVars, alertVars, memVars, evalVars,
      loadVars, opVars, InStep, Pending, OneOpen, Open, Firing, NoEdits
  <2>5. CoolKept'
    BY <1>5 DEF ConditionChanges, ValuesOK, ruleVars, alertVars, memVars, evalVars,
      loadVars, opVars, CoolKept, NoEdits
  <2> QED BY <2>1, <2>2, <2>3, <2>4, <2>5
<1>6. CASE DurationPasses
  <2>1. NoEdits'
    BY <1>6 DEF DurationPasses, Older, InGap, ValuesOK, ruleVars, opVars, worldVars,
      NoEdits
  <2>2. OneOpen'
    BY <1>6 DEF DurationPasses, Older, InGap, ValuesOK, ruleVars, opVars, worldVars,
      OneOpen, Pending, Open, Firing, InStep, NoEdits
  <2>3. Firing'
    BY <1>6 DEF DurationPasses, Older, InGap, ValuesOK, ruleVars, opVars, worldVars,
      Firing, Pending, Open, OneOpen, InStep, CoolKept, NoEdits
  <2>4. InStep'
    BY <1>6 DEF DurationPasses, Older, InGap, ValuesOK, ruleVars, opVars, worldVars,
      InStep, Pending, OneOpen, Open, Firing, NoEdits
  <2>5. CoolKept'
    BY <1>6 DEF DurationPasses, Older, InGap, ValuesOK, ruleVars, opVars, worldVars,
      CoolKept, NoEdits
  <2> QED BY <2>1, <2>2, <2>3, <2>4, <2>5
<1>7. CASE CooldownPasses
  <2>1. NoEdits'
    BY <1>7 DEF CooldownPasses, InGap, ValuesOK, ruleVars, evalVars, opVars, NoEdits
  <2>2. OneOpen'
    BY <1>7 DEF CooldownPasses, InGap, ValuesOK, ruleVars, evalVars, opVars, OneOpen,
      Pending, Open, Firing, InStep, NoEdits
  <2>3. Firing'
    BY <1>7 DEF CooldownPasses, InGap, ValuesOK, ruleVars, evalVars, opVars, Firing,
      Pending, Open, OneOpen, InStep, CoolKept, NoEdits
  <2>4. InStep'
    BY <1>7 DEF CooldownPasses, InGap, ValuesOK, ruleVars, evalVars, opVars, InStep,
      Pending, OneOpen, Open, Firing, NoEdits
  <2>5. CoolKept'
    BY <1>7 DEF CooldownPasses, InGap, ValuesOK, ruleVars, evalVars, opVars, CoolKept,
      NoEdits
  <2> QED BY <2>1, <2>2, <2>3, <2>4, <2>5
<1>8. CASE Restart
  <2>1. NoEdits'
    BY <1>8 DEF Restart, EvalEnd, ValuesOK, ruleVars, alertVars, opVars, NoEdits
  <2>2. OneOpen'
    BY <1>8 DEF Restart, EvalEnd, ValuesOK, ruleVars, alertVars, opVars, OneOpen,
      Pending, Open, Firing, InStep, NoEdits
  <2>3. Firing'
    BY <1>8 DEF Restart, EvalEnd, ValuesOK, ruleVars, alertVars, opVars, Firing, Pending,
      Open, OneOpen, InStep, CoolKept, NoEdits
  <2>4. InStep'
    BY <1>8 DEF Restart, EvalEnd, ValuesOK, ruleVars, alertVars, opVars, InStep, Pending,
      OneOpen, Open, Firing, NoEdits
  <2>5. CoolKept'
    BY <1>8 DEF Restart, EvalEnd, ValuesOK, ruleVars, alertVars, opVars, CoolKept,
      NoEdits
  <2> QED BY <2>1, <2>2, <2>3, <2>4, <2>5
<1> HIDE DEF Undisturbance, TypeOK
<1> QED BY <1>1, <1>2, <1>3, <1>4, <1>5, <1>6, <1>7, <1>8 DEF QuietStep
-----------------------------------------------------------------------------
(***************************************************************************)
(* The two promises about occurrences.                                     *)
(***************************************************************************)
LEMMA AlertInvariant == Spec => []AlertInv
<1>1. Init => AlertInv
  BY TypeInit, UndisturbedInit DEF AlertInv
<1>2. AlertInv /\ [Next]_vars => AlertInv'
  <2> SUFFICES ASSUME AlertInv, [Next]_vars PROVE AlertInv'
    OBVIOUS
  <2>1. TypeOK'
    BY TypeStep DEF AlertInv
  <2>2. ASSUME Undisturbed' PROVE Undisturbance'
    <3>1. CASE Next
      BY <2>2, <3>1, UndisturbedStep
    <3>2. CASE UNCHANGED vars
      <4>1. Undisturbed
        BY <2>2, <3>2 DEF Undisturbed, vars, opVars
      <4>2. Undisturbance
        BY <4>1 DEF AlertInv
      <4> QED
        BY <3>2, <4>2 DEF Undisturbance, NoEdits, OneOpen, Firing, InStep, CoolKept, Pending,
          vars, ruleVars, alertVars, memVars, evalVars, opVars, worldVars
    <3> QED BY <3>1, <3>2
  <2> QED BY <2>1, <2>2 DEF AlertInv
<1> QED BY <1>1, <1>2, PTL DEF Spec

(* A set in which any two members are the same one has one at most.        *)
LEMMA AtMostOne ==
  ASSUME NEW S, \A x, y \in S : x = y
  PROVE  Cardinality(S) <= 1
<1>1. CASE S = {}
  BY <1>1, FS_EmptySet
<1>2. ASSUME NEW x \in S PROVE Cardinality(S) <= 1
  <2>1. S = {x}
    OBVIOUS
  <2> QED BY <2>1, FS_Singleton
<1> QED BY <1>1, <1>2

(* While users only resolve and acknowledge alerts, a rule never has two   *)
(* open alerts for a device: wherever Evaluate is interrupted by a failed  *)
(* statement, a ResolveAlert in the middle or the end of the process,      *)
(* handleTriggered does not find an aged state while an alert is open.     *)
THEOREM OneOpenAlert == Spec => []AtMostOneOpen
<1>1. AlertInv => AtMostOneOpen
  <2> SUFFICES ASSUME AlertInv, Undisturbed PROVE Cardinality(OpenAlerts) <= 1
    BY DEF AtMostOneOpen
  <2>1. \A m, n \in OpenAlerts : m = n
    BY DEF AlertInv, Undisturbance, OneOpen, OpenAlerts
  <2> QED BY <2>1, AtMostOne
<1> QED BY AlertInvariant, <1>1, PTL

(* Nor does handleTriggered open an alert within the cooldown of the last  *)
(* one: a user's resolution keeps lastNotified, and Reload at the start of *)
(* the process reads it back from the table.                               *)
THEOREM CooldownIsKept == Spec => CooldownHeld
<1>1. AlertInv /\ [Next]_vars => [Undisturbed /\ opened' > opened => ~ cooling]_vars
  <2> SUFFICES ASSUME AlertInv, Next, Undisturbed, opened' > opened PROVE ~ cooling
    OBVIOUS
  <2>1. opened \in Nat
    BY DEF AlertInv, TypeOK, ValuesOK
  <2>2. CASE OpenAlert
    BY <2>2 DEF AlertInv, Undisturbance, Firing, OpenAlert
  <2>3. CASE opened' = opened
    BY <2>1, <2>3
  <2>4. OpenAlert \/ opened' = opened
    <3>1. CASE EvalStep
      BY <3>1 DEF EvalStep, BeginEvaluate, LoadPolicies, SkipDevice, Triggered, PersistState,
        PersistFails, OpenFails, NoteAlert, Normal, CloseAlerts, EvaluateFails, ForgetState,
        alertVars
    <3>2. ASSUME NEW r \in Reqs, OpStep(r) PROVE opened' = opened
      BY <3>2 DEF OpStep, ClearRuleState, LoadRules, LoadStates, LoadLastNotified,
        SwapConfig, ReloadFails, ForgetResolved, ResolveDeviceAlerts, SilenceFails,
        ClearDeviceState, alertVars
    <3>3. ASSUME NEW r \in Reqs, NEW m \in {"on", "off", "gone"}, EditRule(r, m)
          PROVE  opened' = opened
      BY <3>3 DEF EditRule
    <3>4. ASSUME NEW r \in Reqs, BeginReload(r) \/ SilenceDevice(r) PROVE opened' = opened
      BY <3>4 DEF BeginReload, SilenceDevice, alertVars
    <3>5. ASSUME NEW r \in Reqs, NEW n \in Alerts, ResolveAlert(r, n) PROVE opened' = opened
      BY <3>5 DEF ResolveAlert
    <3>6. CASE EndSilence \/ DurationPasses \/ CooldownPasses \/ Restart
      BY <3>6 DEF EndSilence, DurationPasses, CooldownPasses, Restart, alertVars
    <3>7. ASSUME NEW n \in Alerts, AcknowledgeAlert(n) PROVE opened' = opened
      BY <3>7 DEF AcknowledgeAlert
    <3>8. ASSUME NEW c \in {"bad", "ok", "absent"}, ConditionChanges(c)
          PROVE  opened' = opened
      BY <3>8 DEF ConditionChanges, alertVars
    <3> QED BY <3>1, <3>2, <3>3, <3>4, <3>5, <3>6, <3>7, <3>8 DEF Next
  <2> QED BY <2>2, <2>3, <2>4
<1> QED BY AlertInvariant, <1>1, PTL DEF Spec, CooldownHeld

-----------------------------------------------------------------------------
(***************************************************************************)
(* The rules in memory.                                                    *)
(***************************************************************************)
(* Requests that do not overlap: each brings the rule to memory, unless a  *)
(* statement failed.  (Two Reloads that overlap may swap in the order      *)
(* opposite to the one they loaded in.)                                    *)
LEMMA LoadStep ==
  ASSUME NEW q, Reqs = {q}, TypeOK, LoadInv(q), [Next]_vars
  PROVE  LoadInv(q)'
<1> USE DEF LoadInv, TableRule, TypeOK, ValuesOK
<1>1. CASE EvalStep
  <2>1. UNCHANGED <<mode, ver, mrule, opc, orule>>
    BY <1>1 DEF EvalStep, BeginEvaluate, LoadPolicies, SkipDevice, Triggered, PersistState,
      PersistFails, OpenAlert, OpenFails, NoteAlert, Normal, CloseAlerts, EvaluateFails,
      ForgetState, ruleVars, memVars, loadVars
  <2>2. dbErrors' = dbErrors \/ dbErrors' = dbErrors + 1
    BY <1>1 DEF EvalStep, BeginEvaluate, LoadPolicies, SkipDevice, Triggered, PersistState,
      PersistFails, OpenAlert, OpenFails, NoteAlert, Normal, CloseAlerts, EvaluateFails,
      ForgetState, DbError, worldVars
  <2> QED BY <2>1, <2>2
<1>2. CASE OpStep(q)
  <2>1. CASE ClearRuleState(q)
    BY <2>1 DEF ClearRuleState, DropState, ruleVars, loadVars, worldVars
  <2>2. CASE LoadRules(q)
    BY <2>2 DEF LoadRules, ruleVars, memVars, worldVars
  <2>3. CASE LoadStates(q)
    BY <2>3 DEF LoadStates, ruleVars, memVars, worldVars
  <2>4. CASE LoadLastNotified(q)
    BY <2>4 DEF LoadLastNotified, ruleVars, memVars, worldVars
  <2>5. CASE SwapConfig(q)
    BY <2>5 DEF SwapConfig, EndLoad, ruleVars, worldVars
  <2>6. CASE ReloadFails(q)
    BY <2>6 DEF ReloadFails, DbError
  <2>7. CASE ForgetResolved(q)
    BY <2>7 DEF ForgetResolved, DropState, ruleVars, loadVars, worldVars
  <2>8. CASE ResolveDeviceAlerts(q)
    BY <2>8 DEF ResolveDeviceAlerts, ruleVars, memVars, loadVars, worldVars
  <2>9. CASE SilenceFails(q)
    BY <2>9 DEF SilenceFails, DbError
  <2>10. CASE ClearDeviceState(q)
    BY <2>10 DEF ClearDeviceState, DropState, ruleVars, loadVars
  <2> QED BY <1>2, <2>1, <2>2, <2>3, <2>4, <2>5, <2>6, <2>7, <2>8, <2>9, <2>10 DEF OpStep
<1>3. ASSUME NEW m \in {"on", "off", "gone"}, EditRule(q, m) PROVE LoadInv(q)'
  BY <1>3 DEF EditRule, Begin
<1>4. CASE BeginReload(q)
  BY <1>4 DEF BeginReload, Begin
<1>5. CASE SilenceDevice(q)
  BY <1>5 DEF SilenceDevice, Begin, memVars, worldVars
<1>6. ASSUME NEW n \in Alerts, ResolveAlert(q, n) PROVE LoadInv(q)'
  BY <1>6 DEF ResolveAlert, Begin, ruleVars, memVars, worldVars
<1>7. CASE EndSilence
  BY <1>7 DEF EndSilence, memVars, loadVars, worldVars
<1>8. ASSUME NEW n \in Alerts, AcknowledgeAlert(n) PROVE LoadInv(q)'
  BY <1>8 DEF AcknowledgeAlert, ruleVars, memVars, loadVars, worldVars
<1>9. ASSUME NEW c \in {"bad", "ok", "absent"}, ConditionChanges(c) PROVE LoadInv(q)'
  BY <1>9 DEF ConditionChanges, ruleVars, memVars, loadVars
<1>10. CASE DurationPasses
  BY <1>10 DEF DurationPasses, ruleVars, worldVars
<1>11. CASE CooldownPasses
  BY <1>11 DEF CooldownPasses, ruleVars
<1>12. CASE Restart
  BY <1>12 DEF Restart, ruleVars
<1>13. CASE UNCHANGED vars
  BY <1>13 DEF vars, ruleVars, memVars, loadVars, worldVars
<1> HIDE DEF LoadInv
<1> QED
  BY <1>1, <1>2, <1>3, <1>4, <1>5, <1>6, <1>7, <1>8, <1>9, <1>10, <1>11, <1>12, <1>13
  DEF Next

(* When requests come one after the other, an evaluation that begins after *)
(* UpdateRule, DeleteRule or a reload has returned works with the rule of  *)
(* the table, unless a statement failed: also when the request came in the *)
(* middle of an evaluation, or the process ended during it.                *)
THEOREM RulesInMemory ==
  ASSUME NEW q, Reqs = {q}
  PROVE  Spec => []RulesCurrent
<1>1. Init => TypeOK /\ LoadInv(q)
  BY TypeInit DEF Init, LoadInv, TableRule
<1>2. TypeOK /\ LoadInv(q) /\ [Next]_vars => (TypeOK /\ LoadInv(q))'
  BY TypeStep, LoadStep
<1>3. LoadInv(q) => RulesCurrent
  BY DEF LoadInv, TableRule, RulesCurrent, Served
<1> QED BY <1>1, <1>2, <1>3, PTL DEF Spec
=============================================================================
