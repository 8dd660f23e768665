-------------------------- MODULE MCTabletDelivery --------------------------
(***************************************************************************)
(* Instances of TabletDelivery for TLC.  The versions of one dataset are   *)
(* interchangeable, and so are the vehicles; used where no liveness        *)
(* property is checked.                                                    *)
(***************************************************************************)
EXTENDS TabletDelivery, TLC

VersionSymmetry ==
    Permutations(JsonPubs) \cup Permutations(PlanPubs)
        \cup Permutations(LibraryPubs) \cup Permutations(Vehicles)
=============================================================================
