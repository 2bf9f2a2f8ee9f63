---------------------------- MODULE AlertOutbox ----------------------------
(***************************************************************************)
(* The durable notification outbox (internal/alerting/notifications.go).   *)
(*                                                                         *)
(* The model follows one rule and one device through a series of alerts.   *)
(* Opening an alert writes a triggered row for every channel of the rule;  *)
(* closing it cancels the triggers that have not left and writes resolved  *)
(* rows for the others.  Workers claim a row, deliver it to the channel    *)
(* and record the outcome, each in a transaction of its own; a claim that  *)
(* grows old is taken back.  The channel itself is modelled by the last    *)
(* event it received.                                                      *)
(*                                                                         *)
(* next_attempt_at is abstract: a row may be due at any time.              *)
(***************************************************************************)
EXTENDS Naturals, FiniteSets

CONSTANTS
  MaxAlerts,      \* bound: occurrences of the rule on the device
  Channels,       \* channels in use
  Sysmon,         \* those retried without limit, by a worker of their own
  Slow,           \* those whose send has no time limit (email)
  Recovers,       \* alerts whose rule has notify_recovery when they close
  Workers,        \* notification workers
  SysmonWorkers,  \* those started with sysmonOnly
  MaxAttempts,    \* attempts of a general row (8 in the code)
  MaxFailures,    \* bound: attempts of a sysmon row that may fail
  MaxLost,        \* bound: deliveries that arrive but whose answer is lost
  MaxDbErrors,    \* bound: outcomes that cannot be written
  MaxExits        \* bound: process exits

Alerts == 1..MaxAlerts
Events == {"triggered", "resolved"}
Rows == Alerts \X Channels \X Events
NoRow == <<0, "none", "none">>

ASSUME OutboxAssumption ==
  /\ MaxAlerts \in Nat
  /\ Sysmon \subseteq Channels /\ Slow \subseteq Channels
  /\ Recovers \subseteq Alerts
  /\ SysmonWorkers \subseteq Workers
  /\ MaxAttempts \in Nat \ {0} /\ MaxFailures \in Nat
  /\ MaxLost \in Nat /\ MaxDbErrors \in Nat /\ MaxExits \in Nat

VARIABLES
  alert,     \* alerts.status
  st, att,   \* status and attempts of the outbox rows
  stamped,   \* alert and event whose notified_at column is set
  wpc,       \* position of a worker
  item,      \* the row it claimed ...
  try,       \* ... and the attempt it claimed it for
  got,       \* history: the rows whose event the channel has received
  shown,     \* the last event each channel received
  lost, dbErrors, exits

rowVars    == <<alert, st, att, stamped>>
workerVars == <<wpc, item, try>>
chanVars   == <<got, shown>>
countVars  == <<lost, dbErrors, exits>>
vars == <<rowVars, workerVars, chanVars, countVars>>

Open == {"active", "acknowledged"}
RowStatuses == {"none", "pending", "sending", "failed", "sent", "dead"}

AlertOf(k) == k[1]
ChannelOf(k) == k[2]
EventOf(k) == k[3]

TypeOK ==
  /\ alert \in [Alerts -> {"absent", "active", "acknowledged", "resolved"}]
  /\ st \in [Rows -> RowStatuses]
  /\ att \in [Rows -> Nat]
  /\ stamped \subseteq Alerts \X Events
  /\ wpc \in [Workers -> {"idle", "deliver", "sent", "failed"}]
  /\ item \in [Workers -> Rows \cup {NoRow}]
  /\ try \in [Workers -> Nat]
  /\ got \subseteq Rows
  /\ shown \in [Channels -> Rows \cup {NoRow}]
  /\ lost \in Nat /\ dbErrors \in Nat /\ exits \in Nat

Init ==
  /\ alert = [a \in Alerts |-> "absent"]
  /\ st = [k \in Rows |-> "none"]
  /\ att = [k \in Rows |-> 0]
  /\ stamped = {}
  /\ wpc = [w \in Workers |-> "idle"]
  /\ item = [w \in Workers |-> NoRow]
  /\ try = [w \in Workers |-> 0]
  /\ got = {}
  /\ shown = [c \in Channels |-> NoRow]
  /\ lost = 0 /\ dbErrors = 0 /\ exits = 0

-----------------------------------------------------------------------------
(***************************************************************************)
(* The alert is opened by handleTriggered, acknowledged by a user, and     *)
(* closed on one path by recovery, by a user or by a change of the rule or *)
(* the device.                                                             *)
(***************************************************************************)
OpenAlert(a, cs) ==
  /\ alert[a] = "absent"
  /\ \A b \in Alerts : b < a => alert[b] = "resolved"
  /\ alert' = [alert EXCEPT ![a] = "active"]
  /\ st' = [k \in Rows |->
              IF AlertOf(k) = a /\ ChannelOf(k) \in cs /\ EventOf(k) = "triggered"
              THEN "pending" ELSE st[k]]
  /\ stamped' = IF cs = {} THEN stamped \cup {<<a, "triggered">>} ELSE stamped
  /\ UNCHANGED <<att, workerVars, chanVars, countVars>>

AcknowledgeAlert(a) ==
  /\ alert[a] = "active"
  /\ alert' = [alert EXCEPT ![a] = "acknowledged"]
  /\ UNCHANGED <<st, att, stamped, workerVars, chanVars, countVars>>

(* Mutant of LeftOutbox: every channel of the rule counts.                 *)
LeftOutboxAny(a, c) == st[<<a, c, "triggered">>] # "none"

(* The trigger has left the outbox, or is leaving it right now.            *)
LeftOutbox(a, c) == st[<<a, c, "triggered">>] \in {"sent", "sending"}

ResolveAlertTx(a) ==
  /\ alert[a] \in Open
  /\ alert' = [alert EXCEPT ![a] = "resolved"]
  /\ st' = [k \in Rows |->
              IF AlertOf(k) # a THEN st[k]
              ELSE IF EventOf(k) = "triggered"
                   THEN IF st[k] \in {"pending", "failed"} THEN "dead" ELSE st[k]
                   ELSE IF a \in Recovers /\ LeftOutbox(a, ChannelOf(k))
                        THEN "pending" ELSE st[k]]
  /\ UNCHANGED <<att, stamped, workerVars, chanVars, countVars>>

-----------------------------------------------------------------------------
(***************************************************************************)
(* claimNotification.                                                      *)
(***************************************************************************)
(* Mutant of Serves: the general workers take the sysmon rows too.         *)
ServesAll(w, k) == w \in SysmonWorkers => ChannelOf(k) \in Sysmon

Serves(w, k) == w \in SysmonWorkers <=> ChannelOf(k) \in Sysmon

(* Mutant of Relevant: an OK does not wait for its trigger.                *)
RelevantAtOnce(k) == EventOf(k) = "resolved" \/ alert[AlertOf(k)] \in Open

(* A trigger is worth sending while the alert is open, an OK once no       *)
(* trigger is on its way.                                                  *)
Relevant(k) ==
  IF EventOf(k) = "triggered"
  THEN alert[AlertOf(k)] \in Open
  ELSE st[<<AlertOf(k), ChannelOf(k), "triggered">>] # "sending"

HasAttempts(k) == ChannelOf(k) \in Sysmon \/ att[k] < MaxAttempts

ClaimNotification(w, k) ==
  /\ wpc[w] = "idle"
  /\ st[k] \in {"pending", "failed"}
  /\ Serves(w, k) /\ HasAttempts(k) /\ Relevant(k)
  /\ st' = [st EXCEPT ![k] = "sending"]
  /\ att' = [att EXCEPT ![k] = @ + 1]
  /\ wpc' = [wpc EXCEPT ![w] = "deliver"]
  /\ item' = [item EXCEPT ![w] = k]
  /\ try' = [try EXCEPT ![w] = att[k] + 1]
  /\ UNCHANGED <<alert, stamped, chanVars, countVars>>

(***************************************************************************)
(* deliverNotification: the channel receives the event or not, and the     *)
(* worker learns of it or not.                                             *)
(***************************************************************************)
Receive(k) ==
  /\ got' = got \cup {k}
  /\ shown' = [shown EXCEPT ![ChannelOf(k)] = k]

DeliverOk(w) ==
  /\ wpc[w] = "deliver"
  /\ wpc' = [wpc EXCEPT ![w] = "sent"]
  /\ Receive(item[w])
  /\ UNCHANGED <<rowVars, item, try, countVars>>

DeliverFails(w) ==
  /\ wpc[w] = "deliver"
  /\ ChannelOf(item[w]) \in Sysmon => try[w] <= MaxFailures
  /\ wpc' = [wpc EXCEPT ![w] = "failed"]
  /\ UNCHANGED <<rowVars, item, try, chanVars, countVars>>

AnswerLost(w) ==
  /\ wpc[w] = "deliver"
  /\ lost < MaxLost
  /\ lost' = lost + 1
  /\ wpc' = [wpc EXCEPT ![w] = "failed"]
  /\ Receive(item[w])
  /\ UNCHANGED <<rowVars, item, try, dbErrors, exits>>

-----------------------------------------------------------------------------
(***************************************************************************)
(* markNotificationSent and markNotificationFailed change the row only     *)
(* while it is in the attempt that the worker claimed.                     *)
(***************************************************************************)
(* Mutant of ClaimHolds: the attempt is not compared.                      *)
ClaimHoldsAny(w) == st[item[w]] = "sending"

ClaimHolds(w) == st[item[w]] = "sending" /\ att[item[w]] = try[w]

Release(w) ==
  /\ wpc' = [wpc EXCEPT ![w] = "idle"]
  /\ item' = [item EXCEPT ![w] = NoRow]
  /\ try' = [try EXCEPT ![w] = 0]

(* Mutant of AllSent: the stamp does not wait for the other channels.      *)
AllSentNow(a, e, status) == TRUE

AllSent(a, e, status) ==
  \A c \in Channels : status[<<a, c, e>>] \in {"none", "sent"}

MarkSent(w) ==
  LET k == item[w] IN
  /\ wpc[w] = "sent"
  /\ Release(w)
  /\ IF ClaimHolds(w)
     THEN /\ st' = [st EXCEPT ![k] = "sent"]
          /\ stamped' = IF AllSent(AlertOf(k), EventOf(k), st')
                        THEN stamped \cup {<<AlertOf(k), EventOf(k)>>}
                        ELSE stamped
     ELSE UNCHANGED <<st, stamped>>
  /\ UNCHANGED <<alert, att, chanVars, countVars>>

(* notificationFailurePolicy, and no retry of a trigger after the close.   *)
FailureStatus(w) ==
  IF \/ EventOf(item[w]) = "triggered" /\ alert[AlertOf(item[w])] = "resolved"
     \/ ChannelOf(item[w]) \notin Sysmon /\ try[w] >= MaxAttempts
  THEN "dead" ELSE "failed"

MarkFailed(w) ==
  /\ wpc[w] = "failed"
  /\ Release(w)
  /\ st' = IF ClaimHolds(w) THEN [st EXCEPT ![item[w]] = FailureStatus(w)] ELSE st
  /\ UNCHANGED <<alert, att, stamped, chanVars, countVars>>

(* The outcome cannot be written; the error is logged.                     *)
MarkError(w) ==
  /\ wpc[w] \in {"sent", "failed"}
  /\ dbErrors < MaxDbErrors
  /\ dbErrors' = dbErrors + 1
  /\ Release(w)
  /\ UNCHANGED <<rowVars, chanVars, lost, exits>>

(***************************************************************************)
(* recoverStaleNotificationClaims, called by the sysmon worker before each *)
(* scan.  Five minutes after its claim a row has no worker any more,       *)
(* unless its channel may take that long.                                  *)
(***************************************************************************)
Held(k) == \E w \in Workers : item[w] = k /\ try[w] = att[k]
MayBeStale == {k \in Rows : st[k] = "sending" /\ (~Held(k) \/ ChannelOf(k) \in Slow)}

BeforeScan == \E w \in SysmonWorkers : wpc[w] = "idle"

RecoverStaleClaims(S) ==
  /\ S # {} /\ BeforeScan
  /\ st' = [k \in Rows |->
              IF k \notin S THEN st[k]
              ELSE IF EventOf(k) = "triggered" /\ alert[AlertOf(k)] = "resolved"
                   THEN "dead" ELSE "failed"]
  /\ UNCHANGED <<alert, att, stamped, workerVars, chanVars, countVars>>

(* The process exits and another starts.                                   *)
ProcessExit ==
  /\ exits < MaxExits
  /\ exits' = exits + 1
  /\ wpc' = [w \in Workers |-> "idle"]
  /\ item' = [w \in Workers |-> NoRow]
  /\ try' = [w \in Workers |-> 0]
  /\ UNCHANGED <<rowVars, chanVars, lost, dbErrors>>

-----------------------------------------------------------------------------
Deliver(w) == DeliverOk(w) \/ DeliverFails(w) \/ AnswerLost(w)
Mark(w) == MarkSent(w) \/ MarkFailed(w) \/ MarkError(w)
Recover == \E S \in SUBSET MayBeStale : RecoverStaleClaims(S)
RecoverAll == RecoverStaleClaims(MayBeStale)

Next ==
  \/ \E a \in Alerts :
       \/ \E cs \in SUBSET Channels : OpenAlert(a, cs)
       \/ AcknowledgeAlert(a) \/ ResolveAlertTx(a)
  \/ \E w \in Workers :
       Deliver(w) \/ Mark(w) \/ \E k \in Rows : ClaimNotification(w, k)
  \/ Recover
  \/ ProcessExit

Spec == Init /\ [][Next]_vars

(* Workers run, a send ends, sooner or later, on every channel but sysmon, *)
(* of which nothing is assumed here, and the sysmon worker looks for old   *)
(* claims at least every 32 rows and every five seconds.  One of these     *)
(* happens as long as one can: less than that each of them does, and       *)
(* enough where attempts are bounded.                                      *)
ServiceStep ==
  \/ \E w \in Workers : Mark(w) \/ \E k \in Rows : ClaimNotification(w, k)
  \/ \E w \in Workers \ SysmonWorkers :
       wpc[w] = "deliver" /\ ChannelOf(item[w]) \notin Sysmon /\ Deliver(w)
  \/ RecoverAll

Fairness == WF_vars(ServiceStep)

FairSpec == Spec /\ Fairness

-----------------------------------------------------------------------------
(***************************************************************************)
(* Properties.                                                             *)
(***************************************************************************)

(* A worker whose claim was taken back or superseded changes nothing: what *)
(* is recorded as sent or dead stays that way, and a newer attempt is not  *)
(* answered by an older one (notifications.go:244 "Do not overwrite the    *)
(* newer durable state").                                                  *)
LateAnswersIgnored ==
  [][/\ \A k \in Rows : st[k] \in {"sent", "dead"} => st'[k] = st[k]
     /\ \A w \in Workers :
          wpc[w] # "idle" /\ wpc'[w] = "idle" /\ try[w] # att[item[w]] => st' = st]_vars

(* The alert shows a delivery time only when every channel of the rule has *)
(* received the event (notifications.go:248-262).                          *)
StampMeansDelivered ==
  \A m \in stamped : \A c \in Channels :
    st[<<m[1], c, m[2]>>] # "none" => <<m[1], c, m[2]>> \in got

(* No channel whose sends have a time limit receives the trigger of an     *)
(* alert after its OK: not from a retry, not from a recovered claim.  "the *)
(* stale trigger is canceled rather than arriving after recovery"          *)
(* (docs/ALERTING.md:91); the claim query waits for it                     *)
(* (notifications.go:166-173).                                             *)
TriggerNeverAfterOk ==
  \A a \in Alerts, c \in Channels \ Slow :
    <<a, c, "resolved">> \in got => shown[c] # <<a, c, "triggered">>

(* "Recovery is not sent to a channel where the trigger was canceled       *)
(* before delivery" (docs/ALERTING.md:95): an OK is queued only where a    *)
(* trigger was sent or given to the channel's server, and never beside one *)
(* that may still be sent.                                                 *)
OkOnlyAfterTrigger ==
  \A a \in Alerts, c \in Channels :
    st[<<a, c, "resolved">>] # "none" =>
      /\ att[<<a, c, "triggered">>] > 0
      /\ st[<<a, c, "triggered">>] \notin {"none", "pending", "failed"}

(* Every outcome of a delivery has been recorded, or is about to be: none  *)
(* was cut off by an exit, and none could not be written.                  *)
Recorded == dbErrors = 0 /\ exits = 0

(* Every event for email, webhook or Zabbix ends sent or given up, however *)
(* long sysmon stays away ("an unavailable sysmon server cannot delay      *)
(* email, webhook, or Zabbix notifications", manager.go:163-165).  If the  *)
(* send to sysmon does not hang for good, an event for sysmon ends sent,   *)
(* or given up because the alert was closed, across failures, lost         *)
(* outcomes and restarts (notifications.go:311-313 "recovery remains       *)
(* durable until sysmon-web accepts the matching OK").                     *)
RowSettled(k) ==
  IF ChannelOf(k) \in Sysmon
  THEN \/ st[k] \in {"none", "sent"}
       \/ st[k] = "dead" /\ EventOf(k) = "triggered"
       \/ \E w \in SysmonWorkers : wpc[w] = "deliver"
  ELSE st[k] \in {"none", "sent", "dead"} \/ ~ Recorded

NotificationsSettle ==
  <>[](\A k \in Rows : ChannelOf(k) \in Slow \/ RowSettled(k))

=============================================================================
