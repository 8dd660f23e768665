----------------------- MODULE MCPublicationLifecycle -----------------------
(* Small instances of PublicationLifecycle for TLC.                        *)
EXTENDS PublicationLifecycle, TLC

ContentSymmetry == Permutations(Contents)

=============================================================================
