---------------------------- MODULE MCMembership ----------------------------
(* Three accounts, one workspace, two requests at a time.                   *)
EXTENDS Membership, TLC

Symmetries == Permutations(Users) \cup Permutations(Requests)

(* Every property is about states before a request acts on stale checks.    *)
NotStale == ~stale
=============================================================================
