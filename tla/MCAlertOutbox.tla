--------------------------- MODULE MCAlertOutbox ---------------------------
(***************************************************************************)
(* An instance of AlertOutbox for TLC: mail, whose sends have no time      *)
(* limit, and a webhook, with two general workers and the one that serves  *)
(* sysmon and recovers old claims.                                         *)
(***************************************************************************)
EXTENDS AlertOutbox

Mail == {"email"}
Hook == {"email", "webhook"}
None == {}

SysWorker == {"s"}
TwoAndSys == {"g1", "g2", "s"}

First == {1}

=============================================================================
