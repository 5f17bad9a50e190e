-------------------------- MODULE MCReleaseRequests --------------------------
(***************************************************************************)
(* ReleaseRequests for TLC: the callers are interchangeable.               *)
(***************************************************************************)
EXTENDS ReleaseRequests, TLC

CallersAreAlike == Permutations(Requests)

=============================================================================
