---------------------------- MODULE MCAuthSessions ----------------------------
(* One login on two processes, with two concurrent reads.                   *)
EXTENDS AuthSessions, TLC

(* Only sign-outs once the login is made, and of those only the ones by     *)
(* another process than the one that made it.                               *)
LoggedIn == revoke.at # "idle" => login.at = "done"
Elsewhere == LoggedIn /\ (revoke.at # "idle" => revoke.on # login.on)

Symmetries == Permutations(Processes) \cup Permutations(Reads)
=============================================================================
