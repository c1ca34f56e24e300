-------------------------- MODULE MCInventoryRows --------------------------
(* Two products, two sessions that mix locking and version checks. *)
EXTENDS InventoryRows, TLC

CONSTANTS p1, p2, s1, s2, MaxVersion

MCQuantity == p1 :> 2 @@ p2 :> 1

MCAmount == { p1 :> 1 @@ p2 :> 0, p1 :> 1 @@ p2 :> 1 }

\* MaxVersion caps the version counter: each row is committed that many times.
VersionBound ==
  /\ \A p \in Product : inventory[p].version <= MaxVersion
  /\ \A s \in Session, p \in Product :
        pending[s][p] # NoRow => pending[s][p].version <= MaxVersion + 1

=============================================================================
