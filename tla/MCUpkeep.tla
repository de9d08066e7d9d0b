------------------------------ MODULE MCUpkeep ------------------------------
(* What is kept up to date around the server and in the browser: the tunnel *)
(* of a connection, a storage destination, the instance's modules, the      *)
(* migrations and the update, the console's tabs, its staged changes and a  *)
(* schema's design.                                                         *)
(* They share nothing, so that a behaviour is one of one of them.           *)
EXTENDS Tunnel, Destinations, ModuleSettings, Upgrade, ConsoleTabs, StagedChanges,
  SchemaDesign

VARIABLE part

upkeepVars == <<part, tunnelVars, destVars, moduleVars, upgradeVars, tabVars, stageVars, designVars>>

MCViews == <<"messages", "config">>

UpkeepTypeOK ==
  /\ TunnelTypeOK /\ DestTypeOK /\ ModulesTypeOK
  /\ UpgradeTypeOK /\ TabsTypeOK /\ StageTypeOK /\ DesignTypeOK

(* Only the upgrade and the design begin in more than one state.            *)
UpkeepInit ==
  /\ part \in {"tunnel", "destination", "modules", "upgrade", "tabs", "changes", "design"}
  /\ TunnelInit /\ DestInit /\ ModulesInit /\ UpgradeInit /\ TabsInit /\ StageInit /\ DesignInit
  /\ part # "upgrade" => meta.version = 0
  /\ part # "design" => designs[1].kind = "scratch"

UpkeepNext ==
  /\ UNCHANGED part
  /\ \/ /\ part = "tunnel" /\ TunnelNext
        /\ UNCHANGED <<destVars, moduleVars, upgradeVars, tabVars, stageVars, designVars>>
     \/ /\ part = "destination" /\ DestNext
        /\ UNCHANGED <<tunnelVars, moduleVars, upgradeVars, tabVars, stageVars, designVars>>
     \/ /\ part = "modules" /\ ModulesNext
        /\ UNCHANGED <<tunnelVars, destVars, upgradeVars, tabVars, stageVars, designVars>>
     \/ /\ part = "upgrade" /\ UpgradeNext
        /\ UNCHANGED <<tunnelVars, destVars, moduleVars, tabVars, stageVars, designVars>>
     \/ /\ part = "tabs" /\ TabsNext
        /\ UNCHANGED <<tunnelVars, destVars, moduleVars, upgradeVars, stageVars, designVars>>
     \/ /\ part = "changes" /\ StageNext
        /\ UNCHANGED <<tunnelVars, destVars, moduleVars, upgradeVars, tabVars, designVars>>
     \/ /\ part = "design" /\ DesignNext
        /\ UNCHANGED <<tunnelVars, destVars, moduleVars, upgradeVars, tabVars, stageVars>>

UpkeepSpec == UpkeepInit /\ [][UpkeepNext]_upkeepVars

(* A bound: one tunnel is let go of while somebody is in it.                *)
FewCrossed == Cardinality(tunnelCrossed) < 2

(* The callers, the admins' updates, the artifacts and two of the jobs are  *)
(* called alike, which keeps the group of symmetries small.                 *)
UpkeepSymmetry == Permutations(Callers) \cup Permutations(Engines)
=============================================================================
