---------------------------- MODULE MCInventory -----------------------------
(***************************************************************************)
(* Model checking of the live store, of the identity of devices and of the *)
(* topology of stations. They share no step, so each behaviour runs one of *)
(* the three, chosen at the start; the inventory of the others is empty,   *)
(* which leaves their polls nothing to do.                                 *)
(***************************************************************************)
EXTENDS DeviceIdentity, StationTopology

VARIABLE part

inventoryVars == <<store, identityVars, topologyVars, part>>

InventoryInit ==
    /\ part \in {"store", "identity", "topology"}
    /\ IdentityInit /\ TopologyInit
    /\ part # "identity" => /\ rows = [id \in Ids |-> NoRow]
                            /\ radioAt = [a \in Sites |-> CHOOSE m \in MACs : TRUE]
    /\ part # "topology" => /\ devices = [r \in Radios |-> None]
                            /\ heard = [s \in Stations |-> None]

InventoryNext ==
    \/ part = "store" /\ StoreNext /\ UNCHANGED <<identityVars, topologyVars, part>>
    \/ part = "identity" /\ IdentityNext /\ UNCHANGED <<topologyVars, part>>
    \/ part = "topology" /\ TopologyNext /\ UNCHANGED <<store, identityVars, part>>

InventorySpec ==
    /\ InventoryInit /\ [][InventoryNext]_inventoryVars
    /\ IdentityFairness /\ TopologyFairness

\* LookupsAgree and StatsBelong: every live entry is where its lookups say, and was stored
\* under the MAC of the radio that answered.
EntriesInPlace == LookupsAgree /\ StatsBelong

\* NoGhost, where entries come from polls: once its requests are through, a deleted device
\* or a replaced MAC leaves no entry behind unless a poll was running.
NoGhostEntry == part = "identity" => NoGhost

HeardForwards == {<<"y", "x">>}
=============================================================================
