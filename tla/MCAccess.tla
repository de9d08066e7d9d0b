------------------------------ MODULE MCAccess ------------------------------
(* Who may come in, for how long and to what: a login on two processes with *)
(* two concurrent reads, the failure count of one account that two requests *)
(* sign into, the sessions two requests hold on a connection that may have  *)
(* one, the role edits of two admins, the memo of one permission that two   *)
(* requests ask for while two others write.  The five share nothing, so     *)
(* that a behaviour is one of one of them.                                  *)
EXTENDS AuthSessions, LoginGuard, ConnSessions, RolePolicy, ResolveCache, TLC

VARIABLE part

accessVars == <<part, loginVars, guardVars, connVars, policyVars, vars>>

MCCustom == <<"editor", "editor-2">>

AccessTypeOK == LoginsTypeOK /\ GuardTypeOK /\ ConnTypeOK /\ PolicyTypeOK /\ TypeOK

(* The places are called like the processes: the node begins in the one     *)
(* called like the process that signs in, which is any of them.             *)
AccessInit ==
  /\ part \in {"logins", "guard", "connection", "roles", "memo"}
  /\ LoginsInit /\ GuardInit /\ ConnInit /\ PolicyInit /\ Init
  /\ part # "guard" => counter.role = "user"
  /\ place = login.on

AccessNext ==
  /\ UNCHANGED part
  /\ \/ /\ part = "logins" /\ LoginsNext
        /\ UNCHANGED <<guardVars, connVars, policyVars, vars>>
     \/ /\ part = "guard" /\ GuardNext
        /\ UNCHANGED <<loginVars, connVars, policyVars, vars>>
     \/ /\ part = "connection" /\ ConnNext
        /\ UNCHANGED <<loginVars, guardVars, policyVars, vars>>
     \/ /\ part = "roles" /\ PolicyNext
        /\ UNCHANGED <<loginVars, guardVars, connVars, vars>>
     \/ /\ part = "memo" /\ Next
        /\ UNCHANGED <<loginVars, guardVars, connVars, policyVars>>

AccessSpec == AccessInit /\ [][AccessNext]_accessVars

(* Bound: the memo's two counters together, and the open transactions too.  *)
Few == generation + version <= 3 /\ generation + version + open <= 4

(* The reads, the attempts, the requests and the admins are called alike,   *)
(* and two of the targets and the places like the processes, which keeps    *)
(* the group of symmetries small.                                           *)
AccessSymmetry ==
  Permutations(Processes) \cup Permutations(Reads) \cup Permutations(Writers)
=============================================================================
