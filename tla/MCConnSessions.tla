---------------------------- MODULE MCConnSessions ----------------------------
(* Two requests for the targets of one connection that may hold one session. *)
EXTENDS ConnSessions, TLC

Symmetries == Permutations(Targets) \cup Permutations(Askers)
=============================================================================
