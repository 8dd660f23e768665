-------------------------- MODULE PublishedRegister --------------------------
(***************************************************************************)
(* What the publication pipeline promises its readers (manifests, tablets, *)
(* administrators) about one dataset scope: a register of immutable        *)
(* versions, of which one is authoritative.  Once there is an              *)
(* authoritative version there always is one, a publication is newer than  *)
(* every earlier one, and a version that was retired never comes back.     *)
(***************************************************************************)
EXTENDS Naturals

CONSTANTS Values       \* what a version can hold

VARIABLES
    current,    \* the authoritative version; 0 before the first publication
    available,  \* the versions that can be served or restored, with their values
    highest     \* the highest version ever published

regVars == <<current, available, highest>>

Init ==
    /\ current = 0
    /\ available = [v \in {} |-> v]
    /\ highest = 0

(* A new version takes over; earlier ones stay available.                  *)
Publish(x) ==
    /\ current' \in Nat
    /\ current' > highest
    /\ available' = [u \in DOMAIN available \cup {current'} |->
                        IF u = current' THEN x ELSE available[u]]
    /\ highest' = current'

(* Rollback to an available version.                                       *)
Restore(v) ==
    /\ v \in DOMAIN available
    /\ current' = v
    /\ UNCHANGED <<available, highest>>

Without(v) == [u \in DOMAIN available \ {v} |-> available[u]]

(* A version that is not authoritative is withdrawn for good.              *)
Withdraw(v) ==
    /\ v \in DOMAIN available \ {current}
    /\ available' = Without(v)
    /\ UNCHANGED <<current, highest>>

(* The authoritative version is withdrawn: a predecessor takes its place   *)
(* in the same step.                                                       *)
Replace(v) ==
    /\ v \in DOMAIN available
    /\ v < current
    /\ available' = Without(current)
    /\ current' = v
    /\ UNCHANGED highest

Next ==
    \/ \E x \in Values : Publish(x)
    \/ \E v \in DOMAIN available : Restore(v) \/ Withdraw(v) \/ Replace(v)

Spec == Init /\ [][Next]_regVars
=============================================================================
