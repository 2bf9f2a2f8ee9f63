----------------------------- MODULE MCServices -----------------------------
(***************************************************************************)
(* The services beside the polling: the client of sysmon-web, the hub of   *)
(* the open pages, the pinned certificates of the devices and the debug    *)
(* console. part says which of them moves; the others rest at their start, *)
(* where nothing fair is enabled.                                          *)
(***************************************************************************)
EXTENDS SysmonClient, WebSocketHub, TlsTrust, UltraDebug, TLC

VARIABLE part

Named == [text |-> "name", open |-> FALSE, close |-> FALSE, ported |-> FALSE]
Base == [enabled |-> TRUE, host |-> Named, port |-> 0, name |-> "n1", token |-> "t1", pem |-> <<"cert">>, padded |-> TRUE]
Off == [Base EXCEPT !.enabled = FALSE]
\* A new token under the same name, off, and three that may not be saved on.
MCConfigs == {Base, Off, [Base EXCEPT !.token = "t2", !.padded = FALSE],
              [Base EXCEPT !.pem = <<"cert", "key">>], [Base EXCEPT !.host.ported = TRUE], [Base EXCEPT !.host.open = TRUE]}

Page(scheme, host, tls) == [scheme |-> scheme, host |-> host, tls |-> tls]
MCOrigins == {Page("none", "", FALSE), Page("https", "here", TRUE), Page("http", "there", FALSE), Page("http", "else", FALSE)}
MCAllowed == {[scheme |-> "http", host |-> "there"]}

MCIP == ("d1" :> "i1")
MCCert == [i \in {"i1", "i2"} |-> "f1"]

MCSpellings == {[name |-> "h1", scheme |-> "https"], [name |-> "h1", scheme |-> "HTTP"]}
Body(n, binary, known) == [n |-> n, binary |-> binary, known |-> known]
\* Nothing, a long body, one known to be long, a binary one: entries of 1, 5 and 9.
MCBodies == {Body(0, FALSE, FALSE), Body(9, FALSE, FALSE), Body(9, FALSE, TRUE), Body(9, TRUE, FALSE)}

servicesVars == <<sysmonVars, hubVars, tlsVars, udebugVars, part>>

ServicesInit == /\ SysmonInit /\ HubInit /\ TlsInit /\ UdebugInit
                /\ part \in {"sysmon", "hub", "tls", "debug"}

ServicesNext ==
    \/ part = "sysmon" /\ SysmonNext /\ UNCHANGED <<hubVars, tlsVars, udebugVars, part>>
    \/ part = "hub" /\ HubNext /\ UNCHANGED <<sysmonVars, tlsVars, udebugVars, part>>
    \/ part = "tls" /\ TlsNext /\ UNCHANGED <<sysmonVars, hubVars, udebugVars, part>>
    \/ part = "debug" /\ UdebugNext /\ UNCHANGED <<sysmonVars, hubVars, tlsVars, part>>

ServicesSpec == ServicesInit /\ [][ServicesNext]_servicesVars /\ SysmonFairness /\ HubFairness
=============================================================================
