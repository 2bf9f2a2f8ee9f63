------------------------- MODULE AlertOutboxProofs -------------------------
(***************************************************************************)
(* Proofs about the notification outbox, for any number of alerts,         *)
(* channels and workers, any attempt limit, and any number of lost         *)
(* answers, database errors and process exits.                             *)
(***************************************************************************)
EXTENDS AlertOutbox, TLAPS

Busy(w) == wpc[w] # "idle"

(* A busy worker has a row and an attempt that row has reached.            *)
ItemInv ==
  \A w \in Workers :
    /\ Busy(w) => item[w] \in Rows /\ try[w] <= att[item[w]]
    /\ ~ Busy(w) => item[w] = NoRow

(* Rows exist only for alerts that were opened, OKs for closed ones, and a *)
(* row that was in a worker's hands has counted an attempt.                *)
RowsInv ==
  \A k \in Rows :
    /\ st[k] # "none" => alert[AlertOf(k)] # "absent"
    /\ st[k] # "none" /\ EventOf(k) = "resolved" => alert[AlertOf(k)] = "resolved"
    /\ st[k] \in {"sending", "sent", "failed"} => att[k] > 0

(* What is sent, or about to be recorded as sent, was received.            *)
GotInv ==
  /\ \A k \in Rows : st[k] = "sent" => k \in got
  /\ \A w \in Workers : wpc[w] = "sent" => item[w] \in got

(* A stamped event is complete: no row of it is unsent, none can follow.   *)
StampInv ==
  \A m \in stamped :
    /\ alert[m[1]] # "absent"
    /\ m[2] = "resolved" => alert[m[1]] = "resolved"
    /\ \A c \in Channels : st[<<m[1], c, m[2]>>] \in {"none", "sent"}

Inv == TypeOK /\ ItemInv /\ RowsInv /\ GotInv /\ StampInv /\ OkOnlyAfterTrigger

-----------------------------------------------------------------------------
(***************************************************************************)
(* Rows and their parts.                                                   *)
(***************************************************************************)
(* A row is its alert, channel and event, and NoRow is none of them.       *)
LEMMA RowParts ==
  /\ \A k \in Rows : AlertOf(k) \in Alerts /\ ChannelOf(k) \in Channels
                       /\ EventOf(k) \in Events
                       /\ k = <<AlertOf(k), ChannelOf(k), EventOf(k)>>
  /\ \A a \in Alerts, c \in Channels, e \in Events :
       /\ <<a, c, e>> \in Rows
       /\ AlertOf(<<a, c, e>>) = a /\ ChannelOf(<<a, c, e>>) = c
       /\ EventOf(<<a, c, e>>) = e
  /\ NoRow \notin Rows
<1>1. NoRow \notin Rows
  BY OutboxAssumption DEF Rows, NoRow, Alerts
<1> QED BY <1>1 DEF Rows, AlertOf, ChannelOf, EventOf

-----------------------------------------------------------------------------
(***************************************************************************)
(* Types.                                                                  *)
(***************************************************************************)
(* A row status a failed delivery leads to is a status of the table.       *)
LEMMA FailureStatusType ==
  \A w \in Workers : FailureStatus(w) \in {"dead", "failed"}
BY DEF FailureStatus

(* The initial state is well typed.                                        *)
LEMMA InitTypes == Init => TypeOK
BY DEF Init, TypeOK, RowStatuses

(* Every step keeps the types, given that a busy worker has a row.         *)
LEMMA NextTypes == TypeOK /\ ItemInv /\ [Next]_vars => TypeOK'
<1> SUFFICES ASSUME TypeOK, ItemInv, [Next]_vars PROVE TypeOK'
  OBVIOUS
<1> USE DEF TypeOK, RowStatuses
<1>1. CASE UNCHANGED vars
  BY <1>1 DEF vars, rowVars, workerVars, chanVars, countVars
<1>2. ASSUME NEW a \in Alerts, NEW cs \in SUBSET Channels, OpenAlert(a, cs)
      PROVE TypeOK'
  <2>1. st' \in [Rows -> RowStatuses] /\ alert' \in [Alerts -> {"absent", "active", "acknowledged", "resolved"}]
    BY <1>2 DEF OpenAlert
  <2>2. stamped' \subseteq Alerts \X Events
    BY <1>2 DEF OpenAlert, Events
  <2> QED BY <1>2, <2>1, <2>2 DEF OpenAlert, workerVars, chanVars, countVars
<1>3. ASSUME NEW a \in Alerts, AcknowledgeAlert(a) PROVE TypeOK'
  BY <1>3 DEF AcknowledgeAlert, workerVars, chanVars, countVars
<1>4. ASSUME NEW a \in Alerts, ResolveAlertTx(a) PROVE TypeOK'
  BY <1>4 DEF ResolveAlertTx, workerVars, chanVars, countVars
<1>5. ASSUME NEW w \in Workers, NEW k \in Rows, ClaimNotification(w, k)
      PROVE TypeOK'
  BY <1>5 DEF ClaimNotification, chanVars, countVars
<1>6. ASSUME NEW w \in Workers, Deliver(w) PROVE TypeOK'
  <2>0. item[w] \in Rows /\ ChannelOf(item[w]) \in Channels
    BY <1>6, RowParts DEF Deliver, DeliverOk, DeliverFails, AnswerLost, ItemInv, Busy
  <2>1. CASE DeliverOk(w)
    BY <2>0, <2>1 DEF DeliverOk, Receive, rowVars, countVars
  <2>2. CASE DeliverFails(w)
    BY <2>2 DEF DeliverFails, rowVars, chanVars, countVars
  <2>3. CASE AnswerLost(w)
    BY <2>0, <2>3 DEF AnswerLost, Receive, rowVars
  <2> QED BY <1>6, <2>1, <2>2, <2>3 DEF Deliver
<1>7. ASSUME NEW w \in Workers, Mark(w) PROVE TypeOK'
  <2>0. item[w] \in Rows /\ AlertOf(item[w]) \in Alerts /\ EventOf(item[w]) \in Events
    BY <1>7, RowParts DEF Mark, MarkSent, MarkFailed, MarkError, ItemInv, Busy
  <2>1. CASE MarkSent(w)
    BY <2>0, <2>1 DEF MarkSent, Release, chanVars, countVars
  <2>2. CASE MarkFailed(w)
    BY <2>0, <2>2, FailureStatusType DEF MarkFailed, Release, chanVars, countVars
  <2>3. CASE MarkError(w)
    BY <2>3 DEF MarkError, Release, rowVars, chanVars
  <2> QED BY <1>7, <2>1, <2>2, <2>3 DEF Mark
<1>8. ASSUME NEW S \in SUBSET MayBeStale, RecoverStaleClaims(S) PROVE TypeOK'
  BY <1>8 DEF RecoverStaleClaims, workerVars, chanVars, countVars
<1>9. CASE ProcessExit
  BY <1>9 DEF ProcessExit, rowVars, chanVars
<1> QED BY <1>1, <1>2, <1>3, <1>4, <1>5, <1>6, <1>7, <1>8, <1>9 DEF Next, Recover

-----------------------------------------------------------------------------
(***************************************************************************)
(* The inductive invariant.                                                *)
(***************************************************************************)
(* The invariant holds at the start.                                       *)
LEMMA InitInv == Init => Inv
<1> SUFFICES ASSUME Init PROVE Inv
  OBVIOUS
<1>1. TypeOK
  BY InitTypes
<1>2. ItemInv /\ RowsInv /\ GotInv /\ StampInv
  BY DEF Init, ItemInv, RowsInv, GotInv, StampInv, Busy
<1>3. OkOnlyAfterTrigger
  BY RowParts DEF Init, OkOnlyAfterTrigger, Events
<1> QED BY <1>1, <1>2, <1>3 DEF Inv

(* A step that leaves the table alone and gives no worker a row.           *)
LEMMA WorkersInv ==
  ASSUME Inv, TypeOK', UNCHANGED rowVars,
         got \subseteq got',
         \A w \in Workers :
           \/ wpc'[w] = "idle" /\ item'[w] = NoRow
           \/ /\ wpc'[w] # "idle" => wpc[w] # "idle"
              /\ wpc'[w] = "idle" => wpc[w] = "idle"
              /\ item'[w] = item[w] /\ try'[w] = try[w]
              /\ wpc'[w] = "sent" => wpc[w] = "sent" \/ item[w] \in got'
  PROVE  Inv'
<1>1. ItemInv'
  BY DEF Inv, ItemInv, Busy, rowVars
<1>2. RowsInv' /\ StampInv'
  BY DEF Inv, RowsInv, StampInv, rowVars
<1>3. GotInv'
  BY DEF Inv, GotInv, rowVars
<1>4. OkOnlyAfterTrigger'
  BY DEF Inv, OkOnlyAfterTrigger, rowVars
<1> QED BY <1>1, <1>2, <1>3, <1>4 DEF Inv

(* Every step keeps the invariant.                                         *)
LEMMA NextInv == Inv /\ [Next]_vars => Inv'
<1> SUFFICES ASSUME Inv, [Next]_vars PROVE Inv'
  OBVIOUS
<1>0. TypeOK /\ ItemInv /\ RowsInv /\ GotInv /\ StampInv /\ OkOnlyAfterTrigger
  BY DEF Inv
<1>t. TypeOK'
  BY <1>0, NextTypes
<1>1. CASE UNCHANGED vars
  BY <1>1, <1>t, WorkersInv
     DEF vars, workerVars, chanVars, Inv, ItemInv, Busy, GotInv
<1>2. ASSUME NEW a \in Alerts, NEW cs \in SUBSET Channels, OpenAlert(a, cs)
      PROVE Inv'
  <2>1. \A k \in Rows : AlertOf(k) = a => st[k] = "none"
    BY <1>0, <1>2, RowParts DEF OpenAlert, RowsInv
  <2>2. \A k \in Rows :
          \/ st'[k] = st[k]
          \/ AlertOf(k) = a /\ EventOf(k) = "triggered" /\ st'[k] = "pending"
    BY <1>2 DEF OpenAlert
  <2>3. /\ alert'[a] = "active" /\ alert[a] = "absent"
        /\ \A b \in Alerts : b # a => alert'[b] = alert[b]
    BY <1>2, <1>0 DEF OpenAlert, TypeOK
  <2>4. ItemInv' /\ GotInv'
    BY <1>0, <1>2, <2>2 DEF OpenAlert, ItemInv, GotInv, Busy, workerVars, chanVars
  <2>5. RowsInv'
    BY <1>0, <1>2, <2>1, <2>2, <2>3, RowParts DEF OpenAlert, RowsInv
  <2>6. StampInv'
    <3> SUFFICES ASSUME NEW m \in stamped'
                 PROVE  /\ alert'[m[1]] # "absent"
                        /\ m[2] = "resolved" => alert'[m[1]] = "resolved"
                        /\ \A c \in Channels : st'[<<m[1], c, m[2]>>] \in {"none", "sent"}
      BY DEF StampInv
    <3>1. m[1] \in Alerts /\ m[2] \in Events
      BY <1>t DEF TypeOK
    <3>2. CASE m \in stamped
      BY <3>1, <3>2, <1>0, <2>2, <2>3, RowParts DEF StampInv
    <3>3. CASE m \notin stamped
      <4>1. cs = {} /\ m = <<a, "triggered">>
        BY <3>3, <1>2 DEF OpenAlert
      <4>2. st' = st
        BY <4>1, <1>2, <1>0 DEF OpenAlert, TypeOK
      <4> QED BY <4>1, <4>2, <2>1, <2>3, <3>1, RowParts
    <3> QED BY <3>2, <3>3
  <2>7. OkOnlyAfterTrigger'
    <3> SUFFICES ASSUME NEW b \in Alerts, NEW c \in Channels,
                        st'[<<b, c, "resolved">>] # "none"
                 PROVE  /\ att'[<<b, c, "triggered">>] > 0
                        /\ st'[<<b, c, "triggered">>] \notin {"none", "pending", "failed"}
      BY DEF OkOnlyAfterTrigger
    <3>0. /\ <<b, c, "resolved">> \in Rows /\ <<b, c, "triggered">> \in Rows
          /\ EventOf(<<b, c, "resolved">>) = "resolved"
          /\ AlertOf(<<b, c, "resolved">>) = b /\ AlertOf(<<b, c, "triggered">>) = b
      BY RowParts DEF Events
    <3>1. st[<<b, c, "resolved">>] # "none" /\ b # a
      BY <3>0, <2>1, <2>2
    <3>2. st'[<<b, c, "triggered">>] = st[<<b, c, "triggered">>] /\ att' = att
      BY <3>0, <3>1, <2>2, <1>2 DEF OpenAlert
    <3> QED BY <3>1, <3>2, <1>0 DEF OkOnlyAfterTrigger
  <2> QED BY <1>t, <2>4, <2>5, <2>6, <2>7 DEF Inv
<1>3. ASSUME NEW a \in Alerts, AcknowledgeAlert(a) PROVE Inv'
  <2>1. /\ alert'[a] = "acknowledged" /\ alert[a] = "active"
        /\ \A b \in Alerts : b # a => alert'[b] = alert[b]
    BY <1>3, <1>0 DEF AcknowledgeAlert, TypeOK
  <2>2. ItemInv' /\ GotInv' /\ OkOnlyAfterTrigger'
    BY <1>0, <1>3 DEF AcknowledgeAlert, ItemInv, GotInv, OkOnlyAfterTrigger, Busy,
                      workerVars, chanVars
  <2>3. RowsInv'
    BY <1>0, <1>3, <2>1, RowParts DEF AcknowledgeAlert, RowsInv
  <2>4. StampInv'
    BY <1>0, <1>3, <1>t, <2>1 DEF AcknowledgeAlert, StampInv, TypeOK
  <2> QED BY <1>t, <2>2, <2>3, <2>4 DEF Inv
<1>4. ASSUME NEW a \in Alerts, ResolveAlertTx(a) PROVE Inv'
  <2>1. /\ alert'[a] = "resolved" /\ alert[a] \in Open
        /\ \A b \in Alerts : b # a => alert'[b] = alert[b]
    BY <1>4, <1>0 DEF ResolveAlertTx, TypeOK
  <2>2. \A k \in Rows : EventOf(k) = "resolved" /\ AlertOf(k) = a => st[k] = "none"
    BY <1>0, <2>1 DEF RowsInv, Open
  <2>3. \A k \in Rows : AlertOf(k) # a => st'[k] = st[k]
    BY <1>4 DEF ResolveAlertTx
  <2>4. \A k \in Rows : AlertOf(k) = a /\ EventOf(k) = "triggered" =>
          st'[k] = IF st[k] \in {"pending", "failed"} THEN "dead" ELSE st[k]
    BY <1>4 DEF ResolveAlertTx
  <2>5. \A k \in Rows : AlertOf(k) = a /\ EventOf(k) = "resolved" =>
          \/ st'[k] = "none"
          \/ st'[k] = "pending" /\ LeftOutbox(a, ChannelOf(k))
    BY <1>4, <2>2 DEF ResolveAlertTx
  <2>6. ItemInv'
    BY <1>0, <1>4 DEF ResolveAlertTx, ItemInv, Busy, workerVars
  <2>7. RowsInv'
    <3> SUFFICES ASSUME NEW k \in Rows
                 PROVE  /\ st'[k] # "none" => alert'[AlertOf(k)] # "absent"
                        /\ st'[k] # "none" /\ EventOf(k) = "resolved" =>
                             alert'[AlertOf(k)] = "resolved"
                        /\ st'[k] \in {"sending", "sent", "failed"} => att'[k] > 0
      BY DEF RowsInv
    <3>1. att' = att /\ AlertOf(k) \in Alerts /\ EventOf(k) \in Events
      BY <1>4, RowParts DEF ResolveAlertTx
    <3>2. CASE AlertOf(k) # a
      BY <3>1, <3>2, <2>1, <2>3, <1>0 DEF RowsInv
    <3>3. CASE AlertOf(k) = a /\ EventOf(k) = "triggered"
      BY <3>1, <3>3, <2>1, <2>4, <1>0 DEF RowsInv
    <3>4. CASE AlertOf(k) = a /\ EventOf(k) = "resolved"
      BY <3>1, <3>4, <2>1, <2>5
    <3> QED BY <3>1, <3>2, <3>3, <3>4 DEF Events
  <2>8. GotInv'
    <3>1. \A k \in Rows : st'[k] = "sent" => st[k] = "sent"
      BY <2>3, <2>4, <2>5, RowParts DEF Events
    <3> QED BY <3>1, <1>0, <1>4 DEF GotInv, ResolveAlertTx, workerVars, chanVars
  <2>9. StampInv'
    <3> SUFFICES ASSUME NEW m \in stamped
                 PROVE  /\ alert'[m[1]] # "absent"
                        /\ m[2] = "resolved" => alert'[m[1]] = "resolved"
                        /\ \A c \in Channels : st'[<<m[1], c, m[2]>>] \in {"none", "sent"}
      BY <1>4 DEF StampInv, ResolveAlertTx
    <3>1. m[1] \in Alerts /\ m[2] \in Events
      BY <1>0 DEF TypeOK
    <3>2. m[1] = a => m[2] = "triggered"
      BY <1>0, <2>1, <3>1 DEF StampInv, Open, Events
    <3> QED BY <1>0, <2>1, <2>3, <2>4, <3>1, <3>2, RowParts DEF StampInv
  <2>10. OkOnlyAfterTrigger'
    <3> SUFFICES ASSUME NEW b \in Alerts, NEW c \in Channels,
                        st'[<<b, c, "resolved">>] # "none"
                 PROVE  /\ att[<<b, c, "triggered">>] > 0
                        /\ st'[<<b, c, "triggered">>] \notin {"none", "pending", "failed"}
      BY <1>4 DEF OkOnlyAfterTrigger, ResolveAlertTx
    <3>1. CASE b # a
      BY <3>1, <1>0, <2>3, RowParts DEF OkOnlyAfterTrigger, Events
    <3>2. CASE b = a
      <4>1. LeftOutbox(a, c)
        BY <3>2, <2>5, RowParts DEF Events
      <4> QED BY <4>1, <3>2, <1>0, <2>4, RowParts DEF LeftOutbox, RowsInv, Events
    <3> QED BY <3>1, <3>2
  <2> QED BY <1>t, <2>6, <2>7, <2>8, <2>9, <2>10 DEF Inv
<1>5. ASSUME NEW w \in Workers, NEW k \in Rows, ClaimNotification(w, k)
      PROVE Inv'
  <2>1. /\ st[k] \in {"pending", "failed"} /\ st'[k] = "sending"
        /\ att'[k] = att[k] + 1 /\ try'[w] = att[k] + 1 /\ att[k] \in Nat
        /\ wpc'[w] = "deliver" /\ item'[w] = k
        /\ alert' = alert /\ got' = got /\ stamped' = stamped
    BY <1>0, <1>5 DEF ClaimNotification, TypeOK, chanVars
  <2>2. \A m \in Rows : m # k => st'[m] = st[m] /\ att'[m] = att[m]
    BY <1>0, <1>5 DEF ClaimNotification, TypeOK
  <2>3. \A v \in Workers : v # w =>
          wpc'[v] = wpc[v] /\ item'[v] = item[v] /\ try'[v] = try[v]
    BY <1>0, <1>5 DEF ClaimNotification, TypeOK
  <2>4. ItemInv'
    <3> SUFFICES ASSUME NEW v \in Workers
                 PROVE  /\ wpc'[v] # "idle" => item'[v] \in Rows /\ try'[v] <= att'[item'[v]]
                        /\ wpc'[v] = "idle" => item'[v] = NoRow
      BY DEF ItemInv, Busy
    <3>1. CASE v = w
      BY <3>1, <2>1
    <3>2. CASE v # w /\ wpc[v] = "idle"
      BY <3>2, <2>3, <1>0 DEF ItemInv, Busy
    <3>3. CASE v # w /\ wpc[v] # "idle"
      <4>1. item[v] \in Rows /\ try[v] <= att[item[v]] /\ try[v] \in Nat /\ att[item[v]] \in Nat
        BY <3>3, <1>0 DEF ItemInv, Busy, TypeOK
      <4>2. att'[item[v]] \in {att[item[v]], att[item[v]] + 1}
        BY <4>1, <2>1, <2>2
      <4> QED BY <3>3, <4>1, <4>2, <2>3
    <3> QED BY <3>1, <3>2, <3>3
  <2>5. RowsInv'
    BY <1>0, <2>1, <2>2 DEF RowsInv
  <2>6. GotInv'
    BY <1>0, <2>1, <2>2, <2>3 DEF GotInv
  <2>7. StampInv'
    <3>1. \A m \in stamped, c \in Channels : <<m[1], c, m[2]>> # k /\ <<m[1], c, m[2]>> \in Rows
      BY <1>0, <2>1, RowParts DEF StampInv, TypeOK
    <3> QED BY <3>1, <1>0, <2>1, <2>2 DEF StampInv
  <2>8. OkOnlyAfterTrigger'
    <3> SUFFICES ASSUME NEW b \in Alerts, NEW c \in Channels,
                        st'[<<b, c, "resolved">>] # "none"
                 PROVE  /\ att'[<<b, c, "triggered">>] > 0
                        /\ st'[<<b, c, "triggered">>] \notin {"none", "pending", "failed"}
      BY DEF OkOnlyAfterTrigger
    <3>1. <<b, c, "triggered">> \in Rows /\ <<b, c, "resolved">> \in Rows
      BY RowParts DEF Events
    <3>2. st[<<b, c, "resolved">>] # "none"
      BY <3>1, <2>1, <2>2
    <3>3. <<b, c, "triggered">> # k
      BY <3>2, <1>0, <2>1 DEF OkOnlyAfterTrigger
    <3> QED BY <3>1, <3>2, <3>3, <1>0, <2>2 DEF OkOnlyAfterTrigger
  <2> QED BY <1>t, <2>4, <2>5, <2>6, <2>7, <2>8 DEF Inv
<1>6. ASSUME NEW w \in Workers, Deliver(w) PROVE Inv'
  <2>1. UNCHANGED <<rowVars, item, try>>
    BY <1>6 DEF Deliver, DeliverOk, DeliverFails, AnswerLost
  <2>2. got \subseteq got' /\ (wpc'[w] = "sent" => item[w] \in got')
    BY <1>0, <1>6 DEF Deliver, DeliverOk, DeliverFails, AnswerLost, Receive, chanVars, TypeOK
  <2>3. /\ wpc[w] = "deliver" /\ wpc'[w] \in {"sent", "failed"}
        /\ \A v \in Workers : v # w => wpc'[v] = wpc[v]
    BY <1>0, <1>6 DEF Deliver, DeliverOk, DeliverFails, AnswerLost, TypeOK
  <2> QED BY <1>t, <2>1, <2>2, <2>3, WorkersInv
<1>7. ASSUME NEW w \in Workers, Mark(w) PROVE Inv'
  <2>0. item[w] \in Rows /\ wpc[w] # "idle"
    BY <1>0, <1>7 DEF Mark, MarkSent, MarkFailed, MarkError, ItemInv, Busy
  <2>1. /\ wpc'[w] = "idle" /\ item'[w] = NoRow
        /\ \A v \in Workers : v # w =>
             wpc'[v] = wpc[v] /\ item'[v] = item[v] /\ try'[v] = try[v]
    BY <1>0, <1>7 DEF Mark, MarkSent, MarkFailed, MarkError, Release, TypeOK
  <2>2. alert' = alert /\ att' = att /\ got' = got
    BY <1>7 DEF Mark, MarkSent, MarkFailed, MarkError, rowVars, chanVars
  <2>3. \/ UNCHANGED <<st, stamped>>
        \/ /\ st[item[w]] = "sending"
           /\ \/ /\ st' = [st EXCEPT ![item[w]] = FailureStatus(w)]
                 /\ stamped' = stamped
              \/ /\ st' = [st EXCEPT ![item[w]] = "sent"]
                 /\ item[w] \in got
                 /\ \/ stamped' = stamped
                    \/ /\ AllSent(AlertOf(item[w]), EventOf(item[w]), st')
                       /\ stamped' = stamped \cup {<<AlertOf(item[w]), EventOf(item[w])>>}
    <3>1. CASE MarkSent(w)
      BY <3>1, <1>0 DEF MarkSent, ClaimHolds, GotInv
    <3>2. CASE MarkFailed(w)
      BY <3>2 DEF MarkFailed, ClaimHolds
    <3>3. CASE MarkError(w)
      BY <3>3 DEF MarkError, rowVars
    <3> QED BY <1>7, <3>1, <3>2, <3>3 DEF Mark
  <2>4. CASE UNCHANGED <<st, stamped>>
    BY <1>t, <2>1, <2>2, <2>4, WorkersInv DEF rowVars
  <2>5. CASE /\ st[item[w]] = "sending"
             /\ st' # st
    <3>1. /\ st'[item[w]] \in {"sent", "dead", "failed"}
          /\ \A k \in Rows : k # item[w] => st'[k] = st[k]
      BY <2>0, <2>3, <2>5, <1>0, FailureStatusType DEF TypeOK
    <3>2. ItemInv'
      BY <1>0, <2>1, <2>2 DEF ItemInv, Busy
    <3>3. RowsInv'
      BY <1>0, <2>0, <2>2, <2>5, <3>1 DEF RowsInv
    <3>4. GotInv'
      <4>1. st'[item[w]] = "sent" => item[w] \in got
        BY <2>0, <2>3, <2>5, <1>0, FailureStatusType DEF TypeOK
      <4> QED BY <4>1, <1>0, <2>1, <2>2, <3>1 DEF GotInv
    <3>5. StampInv'
      <4> DEFINE a == AlertOf(item[w])
                 e == EventOf(item[w])
      <4>0. a \in Alerts /\ e \in Events
        BY <2>0, RowParts
      <4>1. \A m \in stamped, c \in Channels :
              <<m[1], c, m[2]>> # item[w] /\ <<m[1], c, m[2]>> \in Rows
        BY <1>0, <2>5, RowParts DEF StampInv, TypeOK
      <4>2. \A m \in stamped' : m \in stamped \/ (m = <<a, e>> /\ AllSent(a, e, st'))
        BY <2>3, <2>5
      <4>3. alert[a] # "absent" /\ (e = "resolved" => alert[a] = "resolved")
        BY <1>0, <2>0, <2>5 DEF RowsInv
      <4> SUFFICES ASSUME NEW m \in stamped'
                   PROVE  /\ alert[m[1]] # "absent"
                          /\ m[2] = "resolved" => alert[m[1]] = "resolved"
                          /\ \A c \in Channels : st'[<<m[1], c, m[2]>>] \in {"none", "sent"}
        BY <2>2 DEF StampInv
      <4>4. CASE m \in stamped
        BY <4>1, <4>4, <1>0, <3>1 DEF StampInv
      <4>5. CASE m = <<a, e>> /\ AllSent(a, e, st')
        BY <4>3, <4>5 DEF AllSent
      <4> QED BY <4>2, <4>4, <4>5
    <3>6. OkOnlyAfterTrigger'
      <4> SUFFICES ASSUME NEW b \in Alerts, NEW c \in Channels,
                          st'[<<b, c, "resolved">>] # "none"
                   PROVE  /\ att[<<b, c, "triggered">>] > 0
                          /\ st'[<<b, c, "triggered">>] \notin {"none", "pending", "failed"}
        BY <2>2 DEF OkOnlyAfterTrigger
      <4>1. <<b, c, "triggered">> \in Rows /\ <<b, c, "resolved">> \in Rows
        BY RowParts DEF Events
      <4>2. st[<<b, c, "resolved">>] # "none"
        BY <4>1, <2>5, <3>1
      <4>3. alert[b] = "resolved"
        BY <4>1, <4>2, <1>0, RowParts DEF RowsInv, Events
      <4>4. item[w] = <<b, c, "triggered">> => FailureStatus(w) = "dead"
        BY <4>3, RowParts DEF FailureStatus, Events
      <4>5. item[w] = <<b, c, "triggered">> => st'[item[w]] \in {"sent", "dead"}
        BY <4>4, <2>0, <2>3, <2>5, <1>0 DEF TypeOK
      <4> QED BY <4>1, <4>2, <4>5, <1>0, <3>1 DEF OkOnlyAfterTrigger
    <3> QED BY <1>t, <3>2, <3>3, <3>4, <3>5, <3>6 DEF Inv
  <2>6. \/ UNCHANGED <<st, stamped>>
        \/ st[item[w]] = "sending" /\ st' # st
    <3>1. st[item[w]] = "sending" /\ st' = [st EXCEPT ![item[w]] = "sent"] => st' # st
      BY <2>0, <1>0 DEF TypeOK
    <3>2. st[item[w]] = "sending" /\ st' = [st EXCEPT ![item[w]] = FailureStatus(w)] => st' # st
      BY <2>0, <1>0, FailureStatusType DEF TypeOK
    <3> QED BY <2>3, <3>1, <3>2
  <2> QED BY <2>4, <2>5, <2>6
<1>8. ASSUME NEW S \in SUBSET MayBeStale, RecoverStaleClaims(S) PROVE Inv'
  <2>1. /\ \A k \in Rows : st'[k] = st[k] \/
             /\ st[k] = "sending"
             /\ st'[k] \in {"dead", "failed"}
             /\ EventOf(k) = "triggered" /\ alert[AlertOf(k)] = "resolved" =>
                  st'[k] = "dead"
        /\ UNCHANGED <<alert, att, stamped, wpc, item, try, got>>
    BY <1>8 DEF RecoverStaleClaims, MayBeStale, workerVars, chanVars
  <2>2. ItemInv' /\ GotInv'
    BY <1>0, <2>1 DEF ItemInv, GotInv, Busy
  <2>3. RowsInv'
    BY <1>0, <2>1 DEF RowsInv
  <2>4. StampInv'
    <3>1. \A m \in stamped, c \in Channels : <<m[1], c, m[2]>> \in Rows
      BY <1>0, RowParts DEF TypeOK
    <3> QED BY <3>1, <1>0, <2>1 DEF StampInv
  <2>5. OkOnlyAfterTrigger'
    <3> SUFFICES ASSUME NEW b \in Alerts, NEW c \in Channels,
                        st'[<<b, c, "resolved">>] # "none"
                 PROVE  /\ att[<<b, c, "triggered">>] > 0
                        /\ st'[<<b, c, "triggered">>] \notin {"none", "pending", "failed"}
      BY <2>1 DEF OkOnlyAfterTrigger
    <3>1. <<b, c, "triggered">> \in Rows /\ <<b, c, "resolved">> \in Rows
      BY RowParts DEF Events
    <3>2. st[<<b, c, "resolved">>] # "none"
      BY <3>1, <2>1
    <3>3. alert[b] = "resolved"
      BY <3>1, <3>2, <1>0, RowParts DEF RowsInv, Events
    <3>4. EventOf(<<b, c, "triggered">>) = "triggered" /\ AlertOf(<<b, c, "triggered">>) = b
      BY RowParts DEF Events
    <3> QED BY <3>1, <3>2, <3>3, <3>4, <1>0, <2>1 DEF OkOnlyAfterTrigger
  <2> QED BY <1>t, <2>2, <2>3, <2>4, <2>5 DEF Inv
<1>9. CASE ProcessExit
  BY <1>9, <1>t, WorkersInv DEF ProcessExit, rowVars, chanVars
<1> QED BY <1>1, <1>2, <1>3, <1>4, <1>5, <1>6, <1>7, <1>8, <1>9 DEF Next, Recover

-----------------------------------------------------------------------------
(***************************************************************************)
(* Results that hold with any channels, slow ones included.                *)
(***************************************************************************)
(* The invariant holds throughout.                                         *)
LEMMA OutboxInv == Spec => []Inv
BY InitInv, NextInv, PTL DEF Spec

(* The outbox keeps its types: every status of every row is one the table  *)
(* admits (schema.sql:409-410), whatever the order of claims and answers.  *)
THEOREM OutboxTypes == Spec => []TypeOK
<1>1. Inv => TypeOK
  BY DEF Inv
<1> QED BY <1>1, OutboxInv, PTL

(* A delivery time on an alert means that every channel received the event *)
(* (markNotificationSent).                                                 *)
THEOREM StampedIsDelivered == Spec => []StampMeansDelivered
<1>1. Inv => StampMeansDelivered
  <2> SUFFICES ASSUME Inv, NEW m \in stamped, NEW c \in Channels,
                      st[<<m[1], c, m[2]>>] # "none"
               PROVE  <<m[1], c, m[2]>> \in got
    BY DEF StampMeansDelivered
  <2>1. <<m[1], c, m[2]>> \in Rows
    BY RowParts DEF Inv, TypeOK
  <2> QED BY <2>1 DEF Inv, StampInv, GotInv
<1> QED BY <1>1, OutboxInv, PTL

(* An OK is queued only where a trigger left the outbox, and no trigger of *)
(* a closed alert waits beside it (resolveAlertTx, markNotificationFailed, *)
(* recoverStaleNotificationClaims).                                        *)
THEOREM OkFollowsTrigger == Spec => []OkOnlyAfterTrigger
<1>1. Inv => OkOnlyAfterTrigger
  BY DEF Inv
<1> QED BY <1>1, OutboxInv, PTL

Settled(k) == st[k] \in {"sent", "dead"}

(* A row that is sent or dead keeps its status in every step.              *)
LEMMA SettledStays ==
  ASSUME Inv, [Next]_vars, NEW k \in Rows, Settled(k) PROVE st'[k] = st[k]
<1>0. TypeOK /\ ItemInv /\ RowsInv
  BY DEF Inv
<1>1. CASE UNCHANGED vars
  BY <1>1 DEF vars, rowVars
<1>2. ASSUME NEW a \in Alerts, NEW cs \in SUBSET Channels, OpenAlert(a, cs)
      PROVE st'[k] = st[k]
  <2>1. AlertOf(k) # a
    BY <1>0, <1>2 DEF OpenAlert, RowsInv, Settled
  <2> QED BY <1>2, <2>1 DEF OpenAlert
<1>3. ASSUME NEW a \in Alerts, AcknowledgeAlert(a) PROVE st'[k] = st[k]
  BY <1>3 DEF AcknowledgeAlert
<1>4. ASSUME NEW a \in Alerts, ResolveAlertTx(a) PROVE st'[k] = st[k]
  <2>1. AlertOf(k) = a => EventOf(k) = "triggered"
    BY <1>0, <1>4, RowParts DEF ResolveAlertTx, RowsInv, Settled, Open, Events
  <2> QED BY <1>4, <2>1 DEF ResolveAlertTx, Settled
<1>5. ASSUME NEW w \in Workers, NEW m \in Rows, ClaimNotification(w, m)
      PROVE st'[k] = st[k]
  BY <1>0, <1>5 DEF ClaimNotification, Settled, TypeOK
<1>6. ASSUME NEW w \in Workers, Deliver(w) PROVE st'[k] = st[k]
  BY <1>6 DEF Deliver, DeliverOk, DeliverFails, AnswerLost, rowVars
<1>7. ASSUME NEW w \in Workers, Mark(w) PROVE st'[k] = st[k]
  BY <1>0, <1>7 DEF Mark, MarkSent, MarkFailed, MarkError, ClaimHolds, Settled,
                    rowVars, TypeOK
<1>8. ASSUME NEW S \in SUBSET MayBeStale, RecoverStaleClaims(S)
      PROVE st'[k] = st[k]
  BY <1>8 DEF RecoverStaleClaims, MayBeStale, Settled
<1>9. CASE ProcessExit
  BY <1>9 DEF ProcessExit, rowVars
<1> QED BY <1>1, <1>2, <1>3, <1>4, <1>5, <1>6, <1>7, <1>8, <1>9 DEF Next, Recover

(* A worker that lost its claim goes idle without a change of any row.     *)
LEMMA SupersededIsMute ==
  ASSUME Inv, [Next]_vars, NEW w \in Workers,
         wpc[w] # "idle", wpc'[w] = "idle", try[w] # att[item[w]]
  PROVE  st' = st
<1>0. TypeOK
  BY DEF Inv
<1>1. CASE UNCHANGED vars
  BY <1>1 DEF vars, rowVars
<1>2. ASSUME NEW a \in Alerts, NEW cs \in SUBSET Channels, OpenAlert(a, cs)
      PROVE FALSE
  BY <1>2 DEF OpenAlert, workerVars
<1>3. ASSUME NEW a \in Alerts, AcknowledgeAlert(a) \/ ResolveAlertTx(a) PROVE FALSE
  BY <1>3 DEF AcknowledgeAlert, ResolveAlertTx, workerVars
<1>4. ASSUME NEW v \in Workers, NEW k \in Rows, ClaimNotification(v, k)
      PROVE FALSE
  BY <1>0, <1>4 DEF ClaimNotification, TypeOK
<1>5. ASSUME NEW v \in Workers, Deliver(v) PROVE FALSE
  BY <1>0, <1>5 DEF Deliver, DeliverOk, DeliverFails, AnswerLost, TypeOK
<1>6. ASSUME NEW v \in Workers, Mark(v) PROVE st' = st
  <2>1. v = w
    BY <1>0, <1>6 DEF Mark, MarkSent, MarkFailed, MarkError, Release, TypeOK
  <2>2. ~ ClaimHolds(v)
    BY <2>1 DEF ClaimHolds
  <2> QED BY <1>6, <2>2 DEF Mark, MarkSent, MarkFailed, MarkError, rowVars
<1>7. ASSUME NEW S \in SUBSET MayBeStale, RecoverStaleClaims(S) PROVE FALSE
  BY <1>7 DEF RecoverStaleClaims, workerVars
<1>8. CASE ProcessExit
  BY <1>8 DEF ProcessExit, rowVars
<1> QED BY <1>1, <1>2, <1>3, <1>4, <1>5, <1>6, <1>7, <1>8 DEF Next, Recover

(* Late answers are ignored: a sent or dead row never changes again, and a *)
(* worker whose attempt is not the row's current one records nothing       *)
(* (markNotificationSent, markNotificationFailed).                         *)
THEOREM LateAnswers == Spec => LateAnswersIgnored
<1>1. Inv /\ [Next]_vars =>
        /\ \A k \in Rows : st[k] \in {"sent", "dead"} => st'[k] = st[k]
        /\ \A w \in Workers :
             wpc[w] # "idle" /\ wpc'[w] = "idle" /\ try[w] # att[item[w]] => st' = st
  BY SettledStays, SupersededIsMute DEF Settled
<1> QED BY <1>1, OutboxInv, PTL DEF Spec, LateAnswersIgnored

-----------------------------------------------------------------------------
(***************************************************************************)
(* The order of trigger and OK, on the channels whose sends have a time    *)
(* limit below the five minutes after which a claim is taken back.         *)
(***************************************************************************)
Timed(w) == Busy(w) /\ ChannelOf(item[w]) \notin Slow

(* A worker that is busy with such a channel holds the current claim of    *)
(* its row, and holds it alone.                                            *)
HoldInv ==
  /\ \A w \in Workers : Timed(w) =>
       st[item[w]] = "sending" /\ try[w] = att[item[w]]
  /\ \A v, w \in Workers : v # w /\ Timed(v) /\ Timed(w) => item[v] # item[w]

(* No trigger of the alert is on its way to the channel, now or later.     *)
TriggersOver(a, c) ==
  /\ alert[a] = "resolved"
  /\ \A w \in Workers : item[w] # <<a, c, "triggered">>

(* An OK is in a worker's hands, or was received, only after the triggers. *)
OkInv ==
  \A a \in Alerts, c \in Channels \ Slow :
    (<<a, c, "resolved">> \in got \/ \E w \in Workers : item[w] = <<a, c, "resolved">>)
      => TriggersOver(a, c)

OrderInv == Inv /\ HoldInv /\ OkInv /\ TriggerNeverAfterOk

(* The invariant of the order holds at the start.                          *)
LEMMA InitOrder == Init => OrderInv
<1> SUFFICES ASSUME Init PROVE OrderInv
  OBVIOUS
<1>1. Inv
  BY InitInv
<1>2. HoldInv /\ OkInv /\ TriggerNeverAfterOk
  BY RowParts DEF Init, HoldInv, OkInv, TriggerNeverAfterOk, Timed, Busy, Events
<1> QED BY <1>1, <1>2 DEF OrderInv

(* A step that hands out no row, takes back no claim that is held, and     *)
(* delivers nothing.                                                       *)
LEMMA QuietOrder ==
  ASSUME OrderInv, Inv', chanVars' = chanVars,
         \A a \in Alerts : alert[a] = "resolved" => alert'[a] = "resolved",
         \A w \in Workers :
           \/ wpc'[w] = "idle" /\ item'[w] = NoRow
           \/ wpc'[w] = wpc[w] /\ item'[w] = item[w] /\ try'[w] = try[w],
         \A w \in Workers : wpc'[w] # "idle" /\ ChannelOf(item[w]) \notin Slow =>
           st'[item[w]] = st[item[w]] /\ att'[item[w]] = att[item[w]]
  PROVE  OrderInv'
<1>1. HoldInv'
  BY DEF OrderInv, HoldInv, Timed, Busy
<1>2. OkInv'
  <2> SUFFICES ASSUME NEW a \in Alerts, NEW c \in Channels \ Slow,
                      <<a, c, "resolved">> \in got \/
                        \E w \in Workers : item'[w] = <<a, c, "resolved">>
               PROVE  alert'[a] = "resolved" /\
                        \A w \in Workers : item'[w] # <<a, c, "triggered">>
    BY DEF OkInv, TriggersOver, chanVars
  <2>1. NoRow # <<a, c, "resolved">> /\ NoRow # <<a, c, "triggered">>
    BY RowParts DEF Events
  <2>2. TriggersOver(a, c)
    BY <2>1 DEF OrderInv, OkInv
  <2> QED BY <2>1, <2>2 DEF TriggersOver
<1>3. TriggerNeverAfterOk'
  BY DEF OrderInv, TriggerNeverAfterOk, chanVars
<1> QED BY <1>1, <1>2, <1>3 DEF OrderInv

(* Every step keeps the order on those channels.                           *)
LEMMA NextOrder == OrderInv /\ [Next]_vars => OrderInv'
<1> SUFFICES ASSUME OrderInv, [Next]_vars PROVE OrderInv'
  OBVIOUS
<1>0. TypeOK /\ ItemInv /\ RowsInv /\ HoldInv /\ OkInv /\ TriggerNeverAfterOk
  BY DEF OrderInv, Inv
<1>i. Inv /\ Inv'
  BY NextInv DEF OrderInv
<1>1. CASE UNCHANGED vars
  BY <1>1, <1>i, QuietOrder DEF vars, rowVars, workerVars
<1>2. ASSUME NEW a \in Alerts, NEW cs \in SUBSET Channels, OpenAlert(a, cs)
      PROVE OrderInv'
  <2>1. \A b \in Alerts : alert[b] = "resolved" => alert'[b] = "resolved"
    BY <1>0, <1>2 DEF OpenAlert, TypeOK
  <2>2. \A w \in Workers : Timed(w) => st'[item[w]] = st[item[w]]
    <3> SUFFICES ASSUME NEW w \in Workers, Timed(w) PROVE st'[item[w]] = st[item[w]]
      OBVIOUS
    <3>1. item[w] \in Rows /\ AlertOf(item[w]) # a
      BY <1>0, <1>2 DEF HoldInv, ItemInv, RowsInv, OpenAlert, Timed
    <3> QED BY <3>1, <1>2 DEF OpenAlert
  <2> QED BY <1>2, <1>i, <2>1, <2>2, QuietOrder DEF OpenAlert, workerVars, Timed, Busy
<1>3. ASSUME NEW a \in Alerts, AcknowledgeAlert(a) PROVE OrderInv'
  <2>1. \A b \in Alerts : alert[b] = "resolved" => alert'[b] = "resolved"
    BY <1>0, <1>3 DEF AcknowledgeAlert, TypeOK
  <2> QED BY <1>3, <1>i, <2>1, QuietOrder DEF AcknowledgeAlert, workerVars
<1>4. ASSUME NEW a \in Alerts, ResolveAlertTx(a) PROVE OrderInv'
  <2>1. \A b \in Alerts : alert[b] = "resolved" => alert'[b] = "resolved"
    BY <1>0, <1>4 DEF ResolveAlertTx, TypeOK
  <2>2. \A w \in Workers : Timed(w) => st'[item[w]] = st[item[w]]
    <3> SUFFICES ASSUME NEW w \in Workers, Timed(w) PROVE st'[item[w]] = st[item[w]]
      OBVIOUS
    <3>1. item[w] \in Rows /\ st[item[w]] = "sending"
      BY <1>0 DEF HoldInv, ItemInv, Timed
    <3>2. AlertOf(item[w]) = a => EventOf(item[w]) = "triggered"
      BY <1>0, <1>4, <3>1, RowParts DEF RowsInv, ResolveAlertTx, Open, Events
    <3> QED BY <3>1, <3>2, <1>4 DEF ResolveAlertTx
  <2> QED BY <1>4, <1>i, <2>1, <2>2, QuietOrder DEF ResolveAlertTx, workerVars, Timed, Busy
<1>5. ASSUME NEW w \in Workers, NEW k \in Rows, ClaimNotification(w, k)
      PROVE OrderInv'
  <2>1. /\ wpc[w] = "idle" /\ st[k] # "sending" /\ Relevant(k)
        /\ st'[k] = "sending" /\ att'[k] = att[k] + 1 /\ try'[w] = att[k] + 1
        /\ item'[w] = k
    BY <1>0, <1>5 DEF ClaimNotification, TypeOK
  <2>2. \A m \in Rows : m # k => st'[m] = st[m] /\ att'[m] = att[m]
    BY <1>0, <1>5 DEF ClaimNotification, TypeOK
  <2>3. \A v \in Workers : v # w =>
          wpc'[v] = wpc[v] /\ item'[v] = item[v] /\ try'[v] = try[v]
    BY <1>0, <1>5 DEF ClaimNotification, TypeOK
  <2>4. ChannelOf(k) \notin Slow => \A v \in Workers : item[v] # k
    BY <1>0, <2>1, RowParts DEF HoldInv, ItemInv, Timed, Busy
  <2>5. HoldInv'
    <3>1. \A v \in Workers : v # w /\ Busy(v) => item[v] \in Rows
      BY <1>0 DEF ItemInv
    <3> QED BY <3>1, <1>0, <2>1, <2>2, <2>3, <2>4 DEF HoldInv, Timed, Busy
  <2>6. OkInv'
    <3> SUFFICES ASSUME NEW a \in Alerts, NEW c \in Channels \ Slow,
                        \/ <<a, c, "resolved">> \in got
                        \/ \E v \in Workers : item'[v] = <<a, c, "resolved">>
                 PROVE  /\ alert[a] = "resolved"
                        /\ \A v \in Workers : item'[v] # <<a, c, "triggered">>
      BY <1>5 DEF OkInv, TriggersOver, ClaimNotification, chanVars
    <3>0. /\ <<a, c, "resolved">> \in Rows /\ <<a, c, "triggered">> \in Rows
          /\ <<a, c, "resolved">> # <<a, c, "triggered">>
          /\ AlertOf(<<a, c, "triggered">>) = a /\ EventOf(<<a, c, "triggered">>) = "triggered"
          /\ AlertOf(<<a, c, "resolved">>) = a /\ EventOf(<<a, c, "resolved">>) = "resolved"
          /\ ChannelOf(<<a, c, "resolved">>) = c
          /\ ChannelOf(<<a, c, "triggered">>) = c
      BY RowParts DEF Events
    <3>1. CASE TriggersOver(a, c)
      <4>1. k # <<a, c, "triggered">>
        BY <3>0, <3>1, <2>1 DEF Relevant, TriggersOver, Open
      <4> QED BY <3>1, <4>1, <2>1, <2>3 DEF TriggersOver
    <3>2. CASE k = <<a, c, "resolved">>
      <4>1. alert[a] = "resolved"
        BY <3>0, <3>2, <1>0, <1>5 DEF RowsInv, ClaimNotification
      <4>2. st[<<a, c, "triggered">>] # "sending"
        BY <3>0, <3>2, <2>1 DEF Relevant
      <4>3. \A v \in Workers : item[v] # <<a, c, "triggered">>
        BY <3>0, <4>2, <1>0, RowParts DEF HoldInv, ItemInv, Timed
      <4> QED BY <4>1, <4>3, <3>0, <3>2, <2>1, <2>3
    <3>3. TriggersOver(a, c) \/ k = <<a, c, "resolved">>
      BY <1>0, <2>1, <2>3 DEF OkInv
    <3> QED BY <3>1, <3>2, <3>3
  <2>7. TriggerNeverAfterOk'
    BY <1>0, <1>5 DEF TriggerNeverAfterOk, ClaimNotification, chanVars
  <2> QED BY <1>i, <2>5, <2>6, <2>7 DEF OrderInv
<1>6. ASSUME NEW w \in Workers, Deliver(w) PROVE OrderInv'
  <2>1. UNCHANGED <<rowVars, item, try>>
    BY <1>6 DEF Deliver, DeliverOk, DeliverFails, AnswerLost
  <2>2. wpc[w] = "deliver" /\ \A v \in Workers : v # w => wpc'[v] = wpc[v]
    BY <1>0, <1>6 DEF Deliver, DeliverOk, DeliverFails, AnswerLost, TypeOK
  <2>3. item[w] \in Rows
    BY <1>0, <2>2 DEF ItemInv, Busy
  <2>4. HoldInv'
    BY <1>0, <2>1, <2>2 DEF HoldInv, Timed, Busy, rowVars
  <2>5. UNCHANGED chanVars \/ Receive(item[w])
    BY <1>6 DEF Deliver, DeliverOk, DeliverFails, AnswerLost
  <2>6. OkInv'
    BY <1>0, <2>1, <2>5 DEF OkInv, TriggersOver, rowVars, chanVars, Receive
  <2>7. TriggerNeverAfterOk'
    <3>1. CASE UNCHANGED chanVars
      BY <3>1, <1>0 DEF TriggerNeverAfterOk, chanVars
    <3>2. CASE Receive(item[w])
      <4> SUFFICES ASSUME NEW a \in Alerts, NEW c \in Channels \ Slow,
                          <<a, c, "resolved">> \in got'
                   PROVE  shown'[c] # <<a, c, "triggered">>
        BY DEF TriggerNeverAfterOk
      <4>1. item[w] # <<a, c, "triggered">>
        <5>1. CASE <<a, c, "resolved">> \in got
          BY <5>1, <1>0 DEF OkInv, TriggersOver
        <5>2. CASE item[w] = <<a, c, "resolved">>
          BY <5>2, <1>0 DEF OkInv, TriggersOver
        <5> QED BY <3>2, <5>1, <5>2 DEF Receive
      <4>2. CASE ChannelOf(item[w]) = c
        <5>1. shown'[c] = item[w]
          BY <4>2, <3>2, <1>0 DEF Receive, TypeOK
        <5> QED BY <5>1, <4>1
      <4>3. CASE ChannelOf(item[w]) # c
        <5>1. shown'[c] = shown[c]
          BY <4>3, <3>2, <1>0 DEF Receive, TypeOK
        <5>2. <<a, c, "resolved">> \in got
          <6>1. ChannelOf(<<a, c, "resolved">>) = c
            BY DEF ChannelOf
          <6> QED BY <4>3, <3>2, <6>1 DEF Receive
        <5> QED BY <5>1, <5>2, <1>0 DEF TriggerNeverAfterOk
      <4> QED BY <4>2, <4>3
    <3> QED BY <2>5, <3>1, <3>2
  <2> QED BY <1>i, <2>4, <2>6, <2>7 DEF OrderInv
<1>7. ASSUME NEW w \in Workers, Mark(w) PROVE OrderInv'
  <2>1. /\ wpc'[w] = "idle" /\ item'[w] = NoRow /\ Busy(w)
        /\ \A v \in Workers : v # w =>
             wpc'[v] = wpc[v] /\ item'[v] = item[v] /\ try'[v] = try[v]
    BY <1>0, <1>7 DEF Mark, MarkSent, MarkFailed, MarkError, Release, TypeOK, Busy
  <2>2. alert' = alert /\ att' = att /\ chanVars' = chanVars
    BY <1>7 DEF Mark, MarkSent, MarkFailed, MarkError, rowVars, chanVars
  <2>3. \A k \in Rows : k # item[w] => st'[k] = st[k]
    BY <1>0, <1>7 DEF Mark, MarkSent, MarkFailed, MarkError, rowVars, TypeOK
  <2>4. \A v \in Workers : wpc'[v] # "idle" /\ ChannelOf(item[v]) \notin Slow =>
          st'[item[v]] = st[item[v]]
    BY <1>0, <2>1, <2>3 DEF HoldInv, ItemInv, Timed, Busy
  <2> QED BY <1>i, <2>1, <2>2, <2>4, QuietOrder
<1>8. ASSUME NEW S \in SUBSET MayBeStale, RecoverStaleClaims(S) PROVE OrderInv'
  <2>1. \A w \in Workers : Timed(w) => item[w] \in Rows /\ item[w] \notin S
    BY <1>0 DEF MayBeStale, Held, HoldInv, ItemInv, Timed
  <2>2. \A w \in Workers : Timed(w) => st'[item[w]] = st[item[w]]
    BY <2>1, <1>8 DEF RecoverStaleClaims
  <2> QED BY <1>8, <1>i, <2>2, QuietOrder DEF RecoverStaleClaims, workerVars, Timed, Busy
<1>9. CASE ProcessExit
  BY <1>9, <1>i, QuietOrder DEF ProcessExit, rowVars
<1> QED BY <1>1, <1>2, <1>3, <1>4, <1>5, <1>6, <1>7, <1>8, <1>9 DEF Next, Recover

(* No channel whose sends have a time limit receives the trigger of an     *)
(* alert after its OK, whatever answers are lost, outcomes unrecorded, and *)
(* processes restarted, and however slow the other channels are            *)
(* (claimNotification, resolveAlertTx).                                    *)
THEOREM TriggerBeforeOk == Spec => []TriggerNeverAfterOk
<1>1. OrderInv => TriggerNeverAfterOk
  BY DEF OrderInv
<1> QED BY <1>1, NextOrder, InitOrder, PTL DEF Spec

=============================================================================
