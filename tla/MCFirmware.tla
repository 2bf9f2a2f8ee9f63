----------------------------- MODULE MCFirmware -----------------------------
(***************************************************************************)
(* Three parts in one run: the directory of files under uploads and        *)
(* deletions, three radios under two requests, and the bulk controller     *)
(* with a fanout and a job.  part says which moves; the others stay where  *)
(* nothing fair is enabled.                                                *)
(***************************************************************************)
EXTENDS FirmwareUpgrade, BulkController

CONSTANTS a1, s1, m1, r1, r2

VARIABLE part

Named(dir, flavor, version) == [dir |-> dir, flavor |-> flavor, version |-> version]
Old == <<"8", "9">>
New == <<"8", "10">>

\* Duplicates in a subdirectory, a candidate, a customisation, a candidate of it.
StoreFiles == {Named("", "WA", v) : v \in {Old, New, <<"8", "9", "rc3">>, <<"8", "9", "cust1">>, <<"8", "9", "cust1", "rc3">>}}
              \cup {Named("sub", "WA", Old), Named("", "AFLTU", Old)}
FleetFiles == {Named("", flavor, New) : flavor \in {"GMC", "AFLTU", "WA"}}
MCFiles == StoreFiles \cup FleetFiles

\* A Wave access point with a station behind it, and an airMAX radio.
MCParent == (a1 :> NoRadio) @@ (s1 :> a1) @@ (m1 :> NoRadio)
MCFlavor == (a1 :> "GMC") @@ (s1 :> "AFLTU") @@ (m1 :> "WA")

Order(kind, ids, by, typed) ==
    [kind |-> kind, ids |-> ids, ref |-> [by |-> by, file |-> Named("", "GMC", New)], typed |-> typed, force |-> FALSE]

\* r1 upgrades or retries (with a pair the radio does not know); r2 meets it on
\* the station or the access point.
MCOrders == (r1 :> {Order("bulk", {a1, s1}, "version", NoPair), Order("retry", {m1}, "auto", NewPair)})
         @@ (r2 :> {Order("config", {s1}, "auto", NoPair), Order("fanout", {a1}, "auto", NoPair),
                    Order("retry", {s1}, "auto", "p1")})

\* A fanout of two stations and their access point, and a job of one device.
MCOps == ("fan" :> {1, 2}) @@ ("job" :> {3})
MCAp == ("fan" :> 9) @@ ("job" :> 0)

MCFwInit == /\ UpgradeInit(Old, {s1})
            /\ BulkInit
            /\ \/ part = "store" /\ StoreInit
               \/ part = "bulk" /\ shelf = {}
               \/ part = "upgrade" /\ shelf = FleetFiles

MCFwNext == /\ UNCHANGED part
            /\ \/ /\ part = "store" /\ ShelfNext
                  /\ UNCHANGED <<radio, row, order, batches, live, task, jobRow, losses, troubled, bulkVars>>
               \/ part = "upgrade" /\ UpgradeNext /\ UNCHANGED bulkVars
               \/ part = "bulk" /\ BulkNext /\ UNCHANGED fwVars

MCFirmwareSpec == MCFwInit /\ [][MCFwNext]_<<fwVars, bulkVars, part>> /\ UpgradeFairness /\ BulkFairness

\* SelectionSound, where the directory changes (it says nothing of the rest).
StoreSelectionSound == part = "store" => SelectionSound

\* ApAfterStations and BulkLimits: whichever service runs a fanout, the access
\* point waits for its stations, and no operation exceeds a limit.
FanoutOrdered == ApAfterStations /\ BulkLimits

\* RequestsOver and BulkJobsOver hold in the end: every request of the firmware service and every
\* job of the bulk controller ends, with each of its radios.
EveryoneEnds ==
    <>[](RequestsOver /\ BulkJobsOver)
=============================================================================
