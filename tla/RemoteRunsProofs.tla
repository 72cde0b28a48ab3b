-------------------------- MODULE RemoteRunsProofs --------------------------
(***************************************************************************)
(* Three results on every one of the interleaved runs of RemoteMode, with  *)
(* the host to itself or not, for every value of the constants: it deploys *)
(* every play before it executes one, implements ProvisionRun, and uses no *)
(* file of another run.                                                    *)
(*                                                                         *)
(* AllDeployedBeforeAny comes first: the invariant that strengthens it,    *)
(* Progress, says how much of its current play a run has deployed at each  *)
(* operation of deployAnsibleData, and that it has deployed every enabled  *)
(* play before that one.                                                   *)
(***************************************************************************)
EXTENDS RemoteModeProofs

Deployed == {"installDir", "installUpload", "installRun", "play", "running", "cleanup", "done"}
Connecting == {"connect", "connectLate", "retryWait"}
Deploying == Connecting \cup {"deploy"} \cup (AtPlay \ {"running"})

(* The vault files and the roles of play i that a loop has gone past, and   *)
(* all of its vault files.                                                  *)
VaultsPast(r, i) ==
  \A k \in DOMAIN VaultSources(plays(r)[i]) :
    k < item[r] /\ VaultSources(plays(r)[i])[k] # 0 => VaultLoc(r, i, k) \in override[r][i].vault
RolesPast(r, i) ==
  \A k \in DOMAIN plays(r)[i].roles :
    k < item[r] /\ plays(r)[i].roles[k] # GalaxyRole => plays(r)[i].roles[k] \in override[r][i].roles
AllVaults(r, i) ==
  \A k \in DOMAIN VaultSources(plays(r)[i]) :
    VaultSources(plays(r)[i])[k] # 0 => VaultLoc(r, i, k) \in override[r][i].vault

InRoles(r) == pc[r] = "roles" \/ (pc[r] \in AtTarget /\ item[r] # 0)

(* What has been deployed of play i when it is the current one. *)
PartOf(r, i) ==
  /\ (pc[r] \in {"inventory", "vault"} \/ InRoles(r)) /\ plays(r)[i].kind = "playbook" =>
       override[r][i].file
  /\ (pc[r] = "vault" \/ InRoles(r)) /\ plays(r)[i].kind = "playbook" =>
       override[r][i].inventory # {}
  /\ pc[r] = "vault" => VaultsPast(r, i)
  /\ InRoles(r) \/ (pc[r] = "inventory" /\ plays(r)[i].kind = "module") => AllVaults(r, i)
  /\ InRoles(r) => RolesPast(r, i)

ProgressOf(r, i) ==
  /\ pc[r] \in Deployed /\ plays(r)[i].enabled => Complete(r, i)
  /\ pc[r] \in Deploying /\ i < cur[r] /\ plays(r)[i].enabled => Complete(r, i)
  /\ i = cur[r] => PartOf(r, i)

ProgressAt(r) ==
  /\ pc[r] \in {"idle"} \cup Connecting => cur[r] = 1
  /\ \A i \in DOMAIN plays(r) : ProgressOf(r, i)

Progress == \A r \in Runs : ProgressAt(r)

-----------------------------------------------------------------------------
(* A step of run r touches no other run, and of its own overrides only      *)
(* those of its current play.                                               *)
StepFrame(r) ==
  /\ \A q \in Runs \ {r} : /\ pc'[q] = pc[q] /\ cur'[q] = cur[q] /\ item'[q] = item[q]
                           /\ override'[q] = override[q]
  /\ \A i \in Index \ {cur[r]} : override'[r][i] = override[r][i]
  /\ settings' = settings /\ local' = local /\ exclusive' = exclusive

LEMMA StepFrames ==
  ASSUME TypeInv, NEW r \in Runs, Step(r)
  PROVE  StepFrame(r)
<1> USE DEF TypeInv, TypeOK, StepFrame, envVars, runVars, Goto
<1>2. CASE retryFunc(r)
  BY <1>2 DEF retryFunc, Connect, TimerFires, RetryPause, Silently
<1>3. CASE DeployDone(r) BY <1>3 DEF DeployDone, Silently
<1>4. CASE SkipDisabled(r) BY <1>4 DEF SkipDisabled, Silently
<1>5. CASE DeployEntity(r) BY <1>5 DEF DeployEntity, Silently
<1>6. CASE MakeBootstrap(r) BY <1>6 DEF MakeBootstrap, Succeeds, Fails
<1>7. CASE CheckDir(r) BY <1>7 DEF CheckDir, Succeeds, Fails, TakeTarget
<1>8. CASE BeginUpload(r) BY <1>8 DEF BeginUpload, Succeeds, Fails
<1>9. CASE FinishUpload(r) BY <1>9 DEF FinishUpload, Succeeds, Fails, TakeTarget
<1>10. CASE WriteInventory(r) BY <1>10 DEF WriteInventory, Succeeds, Fails
<1>11. CASE SkipVault(r) BY <1>11 DEF SkipVault, Silently
<1>12. CASE UploadVault(r) BY <1>12 DEF UploadVault, Succeeds, Fails
<1>13. CASE VaultDone(r) BY <1>13 DEF VaultDone, Silently
<1>14. CASE NextRole(r) BY <1>14 DEF NextRole, Silently
<1>15. CASE RolesDone(r) BY <1>15 DEF RolesDone, Silently
<1>16. CASE MakeModuleDir(r) BY <1>16 DEF MakeModuleDir, Succeeds, Fails
<1>17. CASE MakeRolesDir(r) BY <1>17 DEF MakeRolesDir, Succeeds, Fails
<1>18. CASE UploadRoleFile(r) BY <1>18 DEF UploadRoleFile, Succeeds, Fails
<1>19. CASE Install(r)
  BY <1>19 DEF Install, InstallDir, InstallUpload, InstallRun, Succeeds, Fails
<1>20. CASE ExecutePlay(r) \/ PlaysDone(r) BY <1>20 DEF ExecutePlay, PlaysDone, Silently, Fails
<1>21. CASE PlayEnds(r) BY <1>21 DEF PlayEnds, Succeeds, Fails
<1>22. CASE Cleanup(r) BY <1>22 DEF Cleanup, Succeeds
<1> QED
  BY <1>2, <1>3, <1>4, <1>5, <1>6, <1>7, <1>8, <1>9, <1>10, <1>11, <1>12, <1>13, <1>14,
     <1>15, <1>16, <1>17, <1>18, <1>19, <1>20, <1>21, <1>22 DEF Step, Deploy, Provision

(* What is said of play i does not change while its overrides do not. *)
LEMMA SameOverrides ==
  ASSUME NEW r \in Runs, NEW i \in Index, override'[r][i] = override[r][i], settings' = settings
  PROVE  /\ plays(r)' = plays(r)
         /\ Complete(r, i)' <=> Complete(r, i)
         /\ AllVaults(r, i)' <=> AllVaults(r, i)
         /\ item'[r] = item[r] => (VaultsPast(r, i)' <=> VaultsPast(r, i))
         /\ item'[r] = item[r] => (RolesPast(r, i)' <=> RolesPast(r, i))
<1>1. plays(r)' = plays(r)
  BY DEF plays
<1>2. Complete(r, i)' <=> Complete(r, i)
  BY <1>1 DEF Complete, VaultLoc
<1>3. AllVaults(r, i)' <=> AllVaults(r, i)
  BY <1>1 DEF AllVaults, VaultLoc
<1>4. ASSUME item'[r] = item[r]
      PROVE  (VaultsPast(r, i)' <=> VaultsPast(r, i)) /\ (RolesPast(r, i)' <=> RolesPast(r, i))
  BY <1>1, <1>4 DEF VaultsPast, RolesPast, VaultLoc
<1> QED
  BY <1>1, <1>2, <1>3, <1>4

LEMMA OthersProgress ==
  ASSUME TypeInv, Progress, NEW r \in Runs, StepFrame(r), NEW q \in Runs \ {r}
  PROVE  ProgressAt(q)'
<1>1. /\ pc'[q] = pc[q] /\ cur'[q] = cur[q] /\ item'[q] = item[q]
      /\ override'[q] = override[q] /\ settings' = settings
  BY DEF StepFrame
<1>2. ProgressAt(q) /\ plays(q)' = plays(q)
  BY <1>1 DEF Progress, plays
<1>3. ASSUME NEW i \in DOMAIN plays(q)
      PROVE  ProgressOf(q, i)'
  <2>1. i \in Index /\ ProgressOf(q, i)
    BY <1>2, <1>3, PlayFacts DEF TypeInv, ProgressAt
  <2> QED
    BY <1>1, <1>2, <2>1, SameOverrides DEF ProgressOf, PartOf, InRoles
<1> QED
  BY <1>1, <1>2, <1>3 DEF ProgressAt

-----------------------------------------------------------------------------
LEMMA FailedProgress ==
  ASSUME NEW r \in Runs, pc'[r] = "failed"
  PROVE  ProgressAt(r)'
BY DEF ProgressAt, ProgressOf, PartOf, Deployed, Deploying, Connecting, AtPlay, AtTarget, InRoles

(* What a step of r that leaves the overrides of play i alone has to show   *)
(* of play i, in terms of the state before it.                              *)
LEMMA PlayUnderStep ==
  ASSUME TypeInv, Progress, NEW r \in Runs, Step(r), NEW i \in DOMAIN plays(r),
         override'[r][i] = override[r][i]
  PROVE  /\ i \in Index /\ i \in Nat /\ plays(r)[i] \in Play
         /\ i <= Len(plays(r)) /\ Len(plays(r)) \in Nat
         /\ ProgressOf(r, i) /\ plays(r)' = plays(r)
         /\ Complete(r, i)' <=> Complete(r, i)
         /\ AllVaults(r, i)' <=> AllVaults(r, i)
         /\ item'[r] = item[r] => (VaultsPast(r, i)' <=> VaultsPast(r, i))
         /\ item'[r] = item[r] => (RolesPast(r, i)' <=> RolesPast(r, i))
<1>1. ProgressAt(r) /\ settings' = settings
  BY StepFrames DEF Progress, StepFrame
<1>2. i \in Index /\ i \in Nat /\ plays(r)[i] \in Play /\ i <= Len(plays(r)) /\ Len(plays(r)) \in Nat
  BY PlayFacts DEF TypeInv, Index
<1> QED
  BY <1>1, <1>2, SameOverrides DEF ProgressAt

(* Progress, while the connection is tried: no play is before the first.    *)
LEMMA ConnectProgress ==
  ASSUME TypeInv, Progress, NEW r \in Runs, Step(r), retryFunc(r)
  PROVE  ProgressAt(r)'
<1>1. ProgressAt(r) /\ pc \in [Runs -> Labels]
  BY DEF TypeInv, TypeOK, Progress
<1>2. /\ pc[r] \in Connecting /\ pc'[r] \in Connecting \cup {"deploy", "failed"}
      /\ override' = override /\ cur' = cur /\ cur[r] = 1
  BY <1>1 DEF retryFunc, Connect, TimerFires, RetryPause, Silently, Goto, runVars, Connecting,
     ProgressAt
<1>3. plays(r)' = plays(r)
  BY StepFrames DEF StepFrame, plays
<1>4. ASSUME NEW i \in DOMAIN plays(r) PROVE ProgressOf(r, i)'
  <2>1. i >= 1 /\ i \in Nat
    BY PlayFacts DEF TypeInv, Index
  <2> QED
    BY <1>2, <2>1 DEF ProgressOf, PartOf, Deployed, InRoles, AtTarget, Connecting
<1> QED
  BY <1>2, <1>3, <1>4 DEF ProgressAt

(* Progress, for the steps of the loop that deploys and of the uploads that *)
(* set no override.                                                         *)
LEMMA DeployProgress ==
  ASSUME TypeInv, Progress, NEW r \in Runs, Step(r),
         \/ DeployDone(r) \/ SkipDisabled(r) \/ DeployEntity(r)
         \/ MakeBootstrap(r) \/ BeginUpload(r) \/ MakeModuleDir(r) \/ MakeRolesDir(r)
  PROVE  ProgressAt(r)'
<1>1. ControlAt(r) /\ ProgressAt(r) /\ cur[r] \in Nat /\ item[r] \in Nat
      /\ pc \in [Runs -> Labels] /\ cur \in [Runs -> Nat] /\ item \in [Runs -> Nat]
  BY DEF TypeInv, TypeOK, Control, Progress
<1>2. SUFFICES ASSUME pc'[r] # "failed" PROVE ProgressAt(r)'
  BY FailedProgress
<1>3. override' = override
  BY <1>2 DEF DeployDone, SkipDisabled, DeployEntity, MakeBootstrap, BeginUpload,
             MakeModuleDir, MakeRolesDir, Succeeds, Fails, Silently, runVars
<1>4. plays(r)' = plays(r)
  BY StepFrames DEF StepFrame, plays
<1>5. pc'[r] \notin {"idle"} \cup Connecting
  BY <1>1 DEF Connecting, DeployDone, SkipDisabled, DeployEntity, MakeBootstrap, BeginUpload,
     MakeModuleDir, MakeRolesDir, Succeeds, Fails, Silently, Goto
<1>6. ASSUME NEW i \in DOMAIN plays(r) PROVE ProgressOf(r, i)'
  <2>1. /\ i \in Nat /\ plays(r)[i] \in Play /\ i <= Len(plays(r)) /\ Len(plays(r)) \in Nat
        /\ ProgressOf(r, i) /\ plays(r)' = plays(r)
        /\ Complete(r, i)' <=> Complete(r, i)
        /\ AllVaults(r, i)' <=> AllVaults(r, i)
        /\ item'[r] = item[r] => (RolesPast(r, i)' <=> RolesPast(r, i))
        /\ override'[r][i] = override[r][i]
    BY <1>3, PlayUnderStep
  <2> USE DEF ProgressOf, PartOf, Deployed, Deploying, Connecting, AtPlay, AtTarget, InRoles
  <2>3. CASE DeployDone(r)
    <3>1. pc[r] = "deploy" /\ pc'[r] \in {"play", "installDir"} /\ cur[r] > Len(plays(r))
      BY <1>1, <2>3 DEF DeployDone, Silently, Goto
    <3> QED
      BY <1>1, <2>1, <3>1
  <2>4. CASE SkipDisabled(r)
    <3>1. pc[r] = "deploy" /\ pc'[r] = "deploy" /\ cur'[r] = cur[r] + 1 /\ ~plays(r)[cur[r]].enabled
      BY <1>1, <2>4 DEF SkipDisabled, Silently, Goto, play
    <3> QED
      BY <1>1, <2>1, <3>1
  <2>5. CASE DeployEntity(r)
    <3>1. pc[r] = "deploy" /\ pc'[r] \in {"mkdir", "moduleDir"} /\ cur'[r] = cur[r]
      BY <1>1, <2>5 DEF DeployEntity, Silently, Goto
    <3> QED
      BY <1>1, <2>1, <3>1
  <2>6. CASE MakeBootstrap(r)
    <3>1. /\ pc[r] = "mkdir" /\ pc'[r] \in {"check", "rolesDir"} /\ cur'[r] = cur[r]
          /\ item'[r] = 0
      BY <1>1, <1>2, <2>6 DEF MakeBootstrap, Succeeds, Fails, Goto, runVars, ControlAt
    <3> QED
      BY <1>1, <2>1, <3>1
  <2>7. CASE BeginUpload(r)
    <3>1. /\ pc[r] = "upload" /\ pc'[r] = "uploading" /\ cur'[r] = cur[r]
          /\ item'[r] = item[r]
      BY <1>1, <1>2, <2>7 DEF BeginUpload, Succeeds, Fails, Goto, runVars
    <3> QED
      BY <1>1, <2>1, <3>1
  <2>8. CASE MakeModuleDir(r)
    <3>1. /\ pc[r] = "moduleDir" /\ pc'[r] = "vault" /\ cur'[r] = cur[r] /\ item'[r] = 1
          /\ play(r).kind = "module"
      BY <1>1, <1>2, <2>8 DEF MakeModuleDir, Succeeds, Fails, Goto, ControlAt
    <3>2. VaultsPast(r, i)'
      <4>1. \A k \in DOMAIN VaultSources(plays(r)[i]) : ~(k < 1)
        <5>1. VaultSources(plays(r)[i]) \in Seq(Nat)
          BY <2>1, VaultFacts
        <5> QED
          BY <5>1
      <4> QED
        BY <2>1, <3>1, <4>1 DEF VaultsPast
    <3> QED
      BY <1>1, <2>1, <3>1, <3>2 DEF play
  <2>9. CASE MakeRolesDir(r)
    <3>1. pc[r] = "rolesDir" /\ pc'[r] = "roleFile" /\ cur'[r] = cur[r]
      BY <1>1, <1>2, <2>9 DEF MakeRolesDir, Succeeds, Fails, Goto, runVars
    <3> QED
      BY <1>1, <2>1, <3>1
  <2> QED
    BY <2>3, <2>4, <2>5, <2>6, <2>7, <2>8, <2>9
<1> QED
  BY <1>4, <1>5, <1>6 DEF ProgressAt

(* Progress, for the steps that come after everything is deployed. *)
LEMMA LaterProgress ==
  ASSUME TypeInv, Progress, NEW r \in Runs, Step(r), Install(r) \/ Provision(r)
  PROVE  ProgressAt(r)'
<1>1. pc \in [Runs -> Labels]
  BY DEF TypeInv, TypeOK
<1>2. /\ pc[r] \in Deployed /\ override' = override
      /\ pc'[r] = "failed" \/ (pc'[r] \in Deployed /\ pc'[r] # "inventory")
  BY <1>1 DEF Install, InstallDir, InstallUpload, InstallRun, Provision, ExecutePlay, PlayEnds,
     PlaysDone, Cleanup, Succeeds, Fails, Silently, Goto, runVars, Deployed
<1>3. CASE pc'[r] = "failed"
  BY <1>3, FailedProgress
<1>4. CASE pc'[r] \in Deployed
  <2>1. plays(r)' = plays(r)
    BY StepFrames DEF StepFrame, plays
  <2>2. ASSUME NEW i \in DOMAIN plays(r) PROVE ProgressOf(r, i)'
    <3>1. /\ ProgressOf(r, i) /\ plays(r)' = plays(r)
          /\ Complete(r, i)' <=> Complete(r, i)
      BY <1>2, PlayUnderStep
    <3> QED
      BY <1>2, <1>4, <3>1
      DEF ProgressOf, PartOf, Deployed, Deploying, Connecting, AtPlay, AtTarget, InRoles
  <2> QED
    BY <1>4, <2>1, <2>2 DEF ProgressAt, Connecting, Deployed
<1> QED
  BY <1>2, <1>3, <1>4

-----------------------------------------------------------------------------
(* Progress, for the loops over vault files and roles. *)
LEMMA LoopProgress ==
  ASSUME TypeInv, Progress, NEW r \in Runs, Step(r),
         SkipVault(r) \/ VaultDone(r) \/ NextRole(r) \/ RolesDone(r)
  PROVE  ProgressAt(r)'
<1>1. ControlAt(r) /\ ProgressAt(r) /\ cur[r] \in Nat /\ item[r] \in Nat
      /\ pc \in [Runs -> Labels] /\ cur \in [Runs -> Nat] /\ item \in [Runs -> Nat]
  BY DEF TypeInv, TypeOK, Control, Progress
<1>2. override' = override
  BY DEF SkipVault, VaultDone, NextRole, RolesDone, runVars
<1>3. pc'[r] \notin {"idle"} \cup Connecting /\ plays(r)' = plays(r)
  <2>1. pc'[r] \in {"vault", "inventory", "roles", "check", "deploy"}
    BY <1>1 DEF SkipVault, VaultDone, NextRole, RolesDone, Silently, Goto
  <2> QED
    BY <2>1, StepFrames DEF StepFrame, plays, Connecting
<1>4. ASSUME NEW i \in DOMAIN plays(r) PROVE ProgressOf(r, i)'
  <2>1. /\ i \in Nat /\ plays(r)[i] \in Play /\ ProgressOf(r, i) /\ plays(r)' = plays(r)
        /\ Complete(r, i)' <=> Complete(r, i)
        /\ AllVaults(r, i)' <=> AllVaults(r, i)
        /\ item'[r] = item[r] => (RolesPast(r, i)' <=> RolesPast(r, i))
        /\ override'[r][i] = override[r][i]
    BY <1>2, PlayUnderStep
  <2>2. VaultSources(plays(r)[i]) \in Seq(Nat) /\ plays(r)[i].roles \in Seq(LocalDirs \cup {GalaxyRole})
    BY <2>1, VaultFacts DEF Play
  <2>3. VaultLoc(r, i, 0)' = VaultLoc(r, i, 0) /\ \A k : VaultLoc(r, i, k)' = VaultLoc(r, i, k)
    BY <1>3 DEF VaultLoc, FreshName
  <2> USE DEF ProgressOf, PartOf, Deployed, Deploying, Connecting, AtPlay, AtTarget, InRoles
  <2>4. CASE SkipVault(r)
    <3>1. /\ pc[r] = "vault" /\ pc'[r] = "vault" /\ cur'[r] = cur[r]
          /\ item'[r] = item[r] + 1
      BY <1>1, <2>4 DEF SkipVault, Silently, Goto
    <3>2. i = cur[r] => VaultsPast(r, i)'
      <4>1. SUFFICES ASSUME i = cur[r], NEW k \in DOMAIN VaultSources(plays(r)[i]), k < item[r] + 1,
                            VaultSources(plays(r)[i])[k] # 0
                     PROVE  VaultLoc(r, i, k) \in override[r][i].vault
        BY <1>2, <1>3, <2>3, <3>1 DEF VaultsPast
      <4>2. k \in Nat /\ k # item[r]
        BY <2>2, <2>4, <4>1 DEF SkipVault, play
      <4>3. k < item[r] /\ VaultsPast(r, i)
        BY <1>1, <2>1, <3>1, <4>1, <4>2
      <4> QED
        BY <4>1, <4>3 DEF VaultsPast
    <3> QED
      <4>1. CASE i = cur[r]
        <5>1. PartOf(r, i)'
          BY <1>1, <2>1, <3>1, <3>2, <4>1
        <5> QED
          BY <1>1, <2>1, <3>1, <3>2, <4>1, <5>1
      <4>2. CASE i # cur[r]
        BY <1>1, <2>1, <3>1, <3>2, <4>2
      <4> QED
        BY <4>1, <4>2
  <2>5. CASE VaultDone(r)
    <3>1. /\ pc[r] = "vault" /\ cur'[r] = cur[r] /\ item'[r] = 1
          /\ pc'[r] = IF play(r).kind = "module" THEN "inventory" ELSE "roles"
          /\ item[r] > Len(VaultSources(play(r))) /\ play(r).kind \in {"module", "playbook"}
      BY <1>1, <2>5 DEF VaultDone, Silently, Goto, ControlAt
    <3>2. i = cur[r] => AllVaults(r, i)
      <4>1. SUFFICES ASSUME i = cur[r], NEW k \in DOMAIN VaultSources(plays(r)[i]),
                            VaultSources(plays(r)[i])[k] # 0
                     PROVE  VaultLoc(r, i, k) \in override[r][i].vault
        BY DEF AllVaults
      <4>2. k < item[r] /\ VaultsPast(r, i)
        BY <1>1, <2>1, <2>2, <3>1, <4>1 DEF play
      <4> QED
        BY <4>1, <4>2 DEF VaultsPast
    <3>3. RolesPast(r, i)'
      <4>1. \A k \in DOMAIN plays(r)[i].roles : ~(k < 1)
        BY <2>2
      <4> QED
        BY <1>3, <3>1, <4>1 DEF RolesPast
    <3> QED
      <4>1. CASE i = cur[r]
        <5>1. PartOf(r, i)'
          BY <1>1, <2>1, <3>1, <3>2, <3>3, <4>1 DEF play
        <5> QED
          BY <1>1, <2>1, <3>1, <3>2, <3>3, <4>1, <5>1
      <4>2. CASE i # cur[r]
        BY <1>1, <2>1, <3>1, <3>2, <3>3, <4>2
      <4> QED
        BY <4>1, <4>2
  <2>6. CASE NextRole(r)
    <3>1. pc[r] = "roles" /\ cur'[r] = cur[r] /\ item[r] >= 1
      BY <1>1, <2>6 DEF NextRole, runVars, ControlAt
    <3>2. CASE pc'[r] = "roles" /\ item'[r] = item[r] + 1 /\ play(r).roles[item[r]] = GalaxyRole
      <4>1. i = cur[r] => RolesPast(r, i)'
        <5>1. SUFFICES ASSUME i = cur[r], NEW k \in DOMAIN plays(r)[i].roles, k < item[r] + 1,
                              plays(r)[i].roles[k] # GalaxyRole
                       PROVE  plays(r)[i].roles[k] \in override[r][i].roles
          BY <1>2, <1>3, <3>2 DEF RolesPast
        <5>2. k < item[r] /\ RolesPast(r, i)
          BY <1>1, <2>1, <2>2, <3>1, <3>2, <5>1 DEF play
        <5> QED
          BY <5>1, <5>2 DEF RolesPast
      <4>2. CASE i = cur[r]
        <5>1. PartOf(r, i)'
          BY <1>1, <2>1, <3>1, <3>2, <4>1, <4>2
        <5> QED
          BY <1>1, <2>1, <3>1, <3>2, <4>2, <5>1
      <4>3. CASE i # cur[r]
        BY <1>1, <2>1, <3>1, <3>2, <4>3
      <4> QED
        BY <4>2, <4>3
    <3>3. CASE pc'[r] = "check" /\ item'[r] = item[r]
      <4>1. CASE i = cur[r]
        <5>1. PartOf(r, i)'
          BY <1>1, <2>1, <3>1, <3>3, <4>1
        <5> QED
          BY <1>1, <2>1, <3>1, <3>3, <4>1, <5>1
      <4>2. CASE i # cur[r]
        BY <1>1, <2>1, <3>1, <3>3, <4>2
      <4> QED
        BY <4>1, <4>2
    <3> QED
      BY <1>1, <2>6, <3>2, <3>3 DEF NextRole, Silently, Goto, runVars
  <2>7. CASE RolesDone(r)
    <3>1. /\ pc[r] = "roles" /\ pc'[r] = "deploy" /\ cur'[r] = cur[r] + 1
          /\ item[r] > Len(play(r).roles) /\ play(r).kind = "playbook"
      BY <1>1, <2>7 DEF RolesDone, Silently, Goto, ControlAt
    <3>2. i = cur[r] => Complete(r, i)
      <4>1. SUFFICES ASSUME i = cur[r] PROVE Complete(r, i)
        OBVIOUS
      <4>2. /\ AllVaults(r, i) /\ RolesPast(r, i) /\ plays(r)[i].kind = "playbook"
            /\ override[r][i].file /\ override[r][i].inventory # {}
        BY <2>1, <3>1, <4>1 DEF play
      <4>3. \A k \in DOMAIN plays(r)[i].roles : k < item[r]
        BY <1>1, <2>2, <3>1, <4>1 DEF play
      <4> QED
        BY <4>2, <4>3 DEF Complete, AllVaults, RolesPast
    <3>3. CASE i = cur[r]
      BY <1>1, <2>1, <3>1, <3>2, <3>3
    <3>4. CASE i < cur[r]
      BY <1>1, <2>1, <3>1, <3>4
    <3>5. CASE i > cur[r]
      <4>1. i # cur[r] + 1 \/ PartOf(r, i)'
        BY <3>1
      <4> QED
        BY <1>1, <2>1, <3>1, <3>5, <4>1
    <3> QED
      BY <1>1, <2>1, <3>3, <3>4, <3>5
  <2> QED
    BY <2>4, <2>5, <2>6, <2>7
<1> QED
  BY <1>3, <1>4 DEF ProgressAt

(* Progress, for the steps that set an override of the current play.        *)
LEMMA TakeTargetProgress ==
  ASSUME TypeInv, Progress, NEW r \in Runs, Step(r), pc[r] \in AtTarget, TakeTarget(r),
         pc'[r] = AfterTarget(r)
  PROVE  ProgressAt(r)'
<1>1. ControlAt(r) /\ ProgressAt(r) /\ cur[r] \in Nat /\ item[r] \in Nat /\ cur'[r] = cur[r]
  BY DEF TypeInv, TypeOK, Control, Progress, TakeTarget
<1>2. plays(r)' = plays(r) /\ pc'[r] \in {"inventory", "roles"}
  BY StepFrames DEF StepFrame, plays, AfterTarget
<1>3. /\ cur[r] \in DOMAIN plays(r) /\ cur[r] \in Index /\ play(r) \in Play
      /\ play(r).kind = "playbook" /\ override[r][cur[r]] \in Override
  BY <1>1, AtPlayFacts DEF AtTarget, AtPlay, ControlAt, TypeInv, TypeOK
<1> USE DEF ProgressOf, PartOf, Deployed, Deploying, Connecting, AtPlay, AtTarget, InRoles
<1>4. ASSUME NEW i \in DOMAIN plays(r), i # cur[r] PROVE ProgressOf(r, i)'
  <2>1. i \in Index
    BY PlayFacts DEF TypeInv
  <2>2. override'[r][i] = override[r][i]
    BY <1>4, <2>1, StepFrames DEF StepFrame
  <2>3. ProgressOf(r, i) /\ (Complete(r, i)' <=> Complete(r, i))
    BY <2>2, PlayUnderStep
  <2> QED
    BY <1>1, <1>2, <1>4, <2>3
<1>5. ASSUME NEW i, i = cur[r] PROVE ProgressOf(r, i)'
  <2>1. ProgressOf(r, i) /\ i \in DOMAIN plays(r) /\ i \in Index /\ play(r) = plays(r)[i]
    BY <1>1, <1>3, <1>5 DEF ProgressAt, play
  <2>2. CASE item[r] = 0
    <3>1. pc'[r] = "inventory" /\ override'[r][i].file
      BY <1>3, <1>5, <2>2 DEF AfterTarget, TakeTarget, TypeInv, TypeOK, Override
    <3> QED
      BY <1>1, <1>3, <1>5, <1>2, <2>1, <3>1
  <2>3. CASE item[r] # 0
    <3>0. /\ override' = [override EXCEPT ![r][cur[r]].roles = @ \cup {Target(r)}]
          /\ item' = [item EXCEPT ![r] = @ + 1] /\ pc'[r] = "roles"
      BY <2>3 DEF TakeTarget, AfterTarget
    <3>1. /\ pc'[r] = "roles" /\ item'[r] = item[r] + 1
          /\ override'[r][i].file = override[r][i].file
          /\ override'[r][i].inventory = override[r][i].inventory
          /\ override'[r][i].vault = override[r][i].vault
          /\ override'[r][i].roles = override[r][i].roles \cup {Target(r)}
      <4>1. override[r] \in [Index -> Override] /\ override \in [Runs -> [Index -> Override]]
            /\ item \in [Runs -> Nat]
        BY DEF TypeInv, TypeOK
      <4>2. override'[r][i] = [override[r][i] EXCEPT !.roles = @ \cup {Target(r)}]
        BY <1>3, <1>5, <3>0, <4>1
      <4> QED
        BY <1>3, <1>5, <3>0, <4>1, <4>2 DEF Override
    <3>2. AllVaults(r, i)'
      <4>1. \A k : VaultLoc(r, i, k)' = VaultLoc(r, i, k)
        BY <1>2 DEF VaultLoc, FreshName
      <4>2. AllVaults(r, i)
        BY <1>5, <2>1, <2>3
      <4> QED
        BY <1>2, <3>1, <4>1, <4>2 DEF AllVaults
    <3>3. RolesPast(r, i)'
      <4>1. SUFFICES ASSUME NEW k \in DOMAIN plays(r)[i].roles, k < item[r] + 1,
                            plays(r)[i].roles[k] # GalaxyRole
                     PROVE  plays(r)[i].roles[k] \in override[r][i].roles \cup {Target(r)}
        BY <1>2, <3>1 DEF RolesPast
      <4>2. k \in Nat
        BY <1>3, <2>1 DEF Play
      <4>3. CASE k = item[r]
        BY <2>1, <2>3, <4>3 DEF Target
      <4>4. CASE k < item[r]
        BY <1>5, <2>1, <2>3, <4>1, <4>4 DEF RolesPast
      <4> QED
        BY <1>1, <4>1, <4>2, <4>3, <4>4
    <3>4. override[r][i].file /\ override[r][i].inventory # {}
      BY <1>3, <1>5, <2>1, <2>3
    <3> QED
      BY <1>1, <1>5, <2>1, <3>1, <3>2, <3>3, <3>4
  <2> QED
    BY <2>2, <2>3
<1> QED
  BY <1>2, <1>4, <1>5 DEF ProgressAt

LEMMA TargetProgress ==
  ASSUME TypeInv, Progress, NEW r \in Runs, Step(r), CheckDir(r) \/ FinishUpload(r)
  PROVE  ProgressAt(r)'
<1>1. ControlAt(r) /\ ProgressAt(r) /\ cur[r] \in Nat /\ pc \in [Runs -> Labels]
  BY DEF TypeInv, TypeOK, Control, Progress
<1>2. CASE pc'[r] = "failed"
  BY <1>2, FailedProgress
<1>3. CASE TakeTarget(r) /\ pc'[r] = AfterTarget(r)
  BY <1>3, TakeTargetProgress DEF CheckDir, FinishUpload, AtTarget
<1>4. CASE pc[r] = "check" /\ pc'[r] = "upload" /\ UNCHANGED runVars
  <2>1. override' = override /\ cur' = cur /\ item' = item /\ plays(r)' = plays(r)
    BY <1>4, StepFrames DEF runVars, StepFrame, plays
  <2>2. ASSUME NEW i \in DOMAIN plays(r) PROVE ProgressOf(r, i)'
    <3>1. /\ ProgressOf(r, i) /\ plays(r)' = plays(r)
          /\ Complete(r, i)' <=> Complete(r, i)
          /\ AllVaults(r, i)' <=> AllVaults(r, i)
          /\ RolesPast(r, i)' <=> RolesPast(r, i)
      BY <2>1, PlayUnderStep
    <3> QED
      BY <1>4, <2>1, <3>1
      DEF ProgressOf, PartOf, Deployed, Deploying, Connecting, AtPlay, AtTarget, InRoles
  <2> QED
    BY <1>4, <2>1, <2>2 DEF ProgressAt, Connecting
<1> QED
  BY <1>1, <1>2, <1>3, <1>4 DEF CheckDir, FinishUpload, Succeeds, Fails, Goto

(* The steps that upload a file finish one part of the current play: the    *)
(* other plays are as they were.                                            *)
LEMMA OtherPlays ==
  ASSUME TypeInv, Progress, NEW r \in Runs, Step(r), NEW i \in DOMAIN plays(r), i # cur[r],
         pc[r] \in Deploying,
         \/ cur'[r] = cur[r] /\ pc'[r] \in Deploying
         \/ cur'[r] = cur[r] + 1 /\ pc'[r] = "deploy"
  PROVE  ProgressOf(r, i)'
<1>1. i \in Index /\ i \in Nat /\ cur[r] \in Nat
  BY PlayFacts DEF TypeInv, TypeOK, Index
<1>2. override'[r][i] = override[r][i]
  BY <1>1, StepFrames DEF StepFrame
<1>3. ProgressOf(r, i) /\ (Complete(r, i)' <=> Complete(r, i)) /\ plays(r)' = plays(r)
  BY <1>2, PlayUnderStep
<1>4. CASE cur'[r] = cur[r] /\ pc'[r] \in Deploying
  BY <1>1, <1>3, <1>4 DEF ProgressOf, Deployed, Deploying, Connecting, AtPlay, AtTarget
<1>5. CASE cur'[r] = cur[r] + 1 /\ pc'[r] = "deploy"
  <2>1. PartOf(r, i)'
    BY <1>5 DEF PartOf, InRoles, AtTarget
  <2>2. i < cur[r] + 1 => i < cur[r]
    BY <1>1
  <2> QED
    BY <1>3, <1>5, <2>1, <2>2 DEF ProgressOf, Deployed, Deploying, Connecting
<1> QED
  BY <1>4, <1>5

LEMMA InventoryProgress ==
  ASSUME TypeInv, Progress, NEW r \in Runs, Step(r), WriteInventory(r), pc'[r] # "failed",
         NEW i, i = cur[r],
         NEW loc, loc = [dir |-> play(r).dir, name |-> FreshName(r, i, "inventory", 0)],
         NEW last, last = (play(r).kind = "module")
  PROVE  ProgressAt(r)'
<1>1. /\ ControlAt(r) /\ ProgressAt(r) /\ i \in Nat /\ item[r] \in Nat
      /\ pc \in [Runs -> Labels] /\ cur \in [Runs -> Nat] /\ item \in [Runs -> Nat]
      /\ override \in [Runs -> [Index -> Override]]
  BY DEF TypeInv, TypeOK, Control, Progress
<1>2. /\ i \in DOMAIN plays(r) /\ i \in Index /\ play(r) \in Play /\ play(r) = plays(r)[i]
      /\ pc[r] = "inventory" /\ play(r).kind # "galaxy_install"
  BY <1>1, AtPlayFacts DEF WriteInventory, AtPlay, ControlAt, TypeInv, TypeOK, play
<1>3. /\ override' = [override EXCEPT ![r][i].inventory = {loc}]
      /\ pc'[r] = IF last THEN "deploy" ELSE "vault"
      /\ item'[r] = IF last THEN 0 ELSE 1
      /\ cur'[r] = IF last THEN i + 1 ELSE i
  BY <1>1 DEF WriteInventory, Succeeds, Fails, Goto
<1>4. plays(r)' = plays(r)
  BY StepFrames DEF StepFrame, plays
<1>5. /\ override'[r][i].file = override[r][i].file
      /\ override'[r][i].inventory = {loc}
      /\ override'[r][i].vault = override[r][i].vault
      /\ override'[r][i].roles = override[r][i].roles
  BY <1>1, <1>2, <1>3 DEF Override
<1>6. PartOf(r, i)
  BY <1>1, <1>2 DEF ProgressAt, ProgressOf
<1>7. \A k : VaultLoc(r, i, k)' = VaultLoc(r, i, k)
  BY <1>4 DEF VaultLoc, FreshName
<1>8. last => Complete(r, i)'
  <2>1. last => AllVaults(r, i)
    BY <1>2, <1>6 DEF PartOf
  <2>2. last => AllVaults(r, i)'
    BY <1>4, <1>5, <1>7, <2>1 DEF AllVaults
  <2>3. ASSUME last PROVE plays(r)'[i].kind = "module" /\ override'[r][i].inventory # {}
    BY <1>2, <1>4, <1>5, <2>3
  <2> QED
    BY <2>2, <2>3 DEF Complete, AllVaults
<1>9. ProgressOf(r, i)'
  <2>1. CASE last
    <3>1. PartOf(r, i)'
      BY <1>3, <2>1 DEF PartOf, InRoles, AtTarget
    <3> QED
      BY <1>3, <1>8, <2>1, <3>1 DEF ProgressOf, Deployed, Deploying, Connecting
  <2>2. CASE ~last
    <3>1. VaultsPast(r, i)'
      <4>1. \A k \in DOMAIN VaultSources(plays(r)[i]) : ~(k < 1)
        BY <1>2, VaultFacts
      <4> QED
        BY <1>3, <1>4, <2>2, <4>1 DEF VaultsPast
    <3>2. override[r][i].file
      BY <1>2, <1>6, <2>2 DEF PartOf, Play
    <3>3. PartOf(r, i)'
      BY <1>3, <1>4, <1>5, <2>2, <3>1, <3>2 DEF PartOf, InRoles, AtTarget
    <3> QED
      BY <1>1, <1>3, <2>2, <3>3 DEF ProgressOf, Deployed, Deploying, Connecting, AtPlay, AtTarget
  <2> QED
    BY <2>1, <2>2
<1>10. ASSUME NEW j \in DOMAIN plays(r), j # i PROVE ProgressOf(r, j)'
  <2>1. \/ cur'[r] = cur[r] /\ pc'[r] \in Deploying
        \/ cur'[r] = cur[r] + 1 /\ pc'[r] = "deploy"
    BY <1>3 DEF Deploying, Connecting, AtPlay, AtTarget
  <2>2. pc[r] \in Deploying
    BY <1>2 DEF Deploying, Connecting, AtPlay
  <2> QED
    BY <1>10, <2>1, <2>2, OtherPlays
<1> QED
  BY <1>3, <1>4, <1>9, <1>10 DEF ProgressAt, Connecting

LEMMA VaultProgress ==
  ASSUME TypeInv, Progress, NEW r \in Runs, Step(r), UploadVault(r), pc'[r] # "failed",
         NEW i, i = cur[r]
  PROVE  ProgressAt(r)'
<1>1. /\ ControlAt(r) /\ ProgressAt(r) /\ i \in Nat /\ item[r] \in Nat
      /\ pc \in [Runs -> Labels] /\ cur \in [Runs -> Nat] /\ item \in [Runs -> Nat]
      /\ override \in [Runs -> [Index -> Override]]
  BY DEF TypeInv, TypeOK, Control, Progress
<1>2. /\ i \in DOMAIN plays(r) /\ i \in Index /\ play(r) \in Play /\ play(r) = plays(r)[i]
      /\ pc[r] = "vault"
  BY <1>1, AtPlayFacts DEF UploadVault, AtPlay, play
<1>3. /\ override' = [override EXCEPT ![r][i].vault = @ \cup {VaultLoc(r, i, item[r])}]
      /\ pc'[r] = "vault" /\ item'[r] = item[r] + 1 /\ cur'[r] = i
  BY <1>1, <1>2 DEF UploadVault, Succeeds, Fails, Goto, VaultLoc, play
<1>4. plays(r)' = plays(r)
  BY StepFrames DEF StepFrame, plays
<1>5. /\ override'[r][i].file = override[r][i].file
      /\ override'[r][i].inventory = override[r][i].inventory
      /\ override'[r][i].vault = override[r][i].vault \cup {VaultLoc(r, i, item[r])}
  BY <1>1, <1>2, <1>3 DEF Override
<1>6. PartOf(r, i)
  BY <1>1, <1>2 DEF ProgressAt, ProgressOf
<1>7. VaultsPast(r, i)'
  <2>1. \A k : VaultLoc(r, i, k)' = VaultLoc(r, i, k)
    BY <1>4 DEF VaultLoc, FreshName
  <2>2. SUFFICES ASSUME NEW k \in DOMAIN VaultSources(plays(r)[i]), k < item[r] + 1,
                        VaultSources(plays(r)[i])[k] # 0
                 PROVE  VaultLoc(r, i, k) \in override[r][i].vault \cup {VaultLoc(r, i, item[r])}
    BY <1>3, <1>4, <1>5, <2>1 DEF VaultsPast
  <2>3. k \in Nat
    BY <1>2, VaultFacts
  <2>4. k < item[r] => VaultLoc(r, i, k) \in override[r][i].vault
    BY <1>2, <1>6, <2>2 DEF PartOf, VaultsPast
  <2>5. item[r] \in Nat /\ k < item[r] + 1
    BY <1>1, <2>2
  <2>6. k < item[r] \/ k = item[r]
    BY <2>3, <2>5
  <2> QED
    BY <2>4, <2>6
<1>8. ProgressOf(r, i)'
  <2>1. PartOf(r, i)'
    BY <1>2, <1>3, <1>4, <1>5, <1>6, <1>7 DEF PartOf, InRoles, AtTarget
  <2> QED
    BY <1>1, <1>3, <2>1 DEF ProgressOf, Deployed, Deploying, Connecting, AtPlay, AtTarget
<1>9. ASSUME NEW j \in DOMAIN plays(r), j # i PROVE ProgressOf(r, j)'
  BY <1>2, <1>3, <1>9, OtherPlays DEF Deploying, Connecting, AtPlay
<1> QED
  BY <1>3, <1>4, <1>8, <1>9 DEF ProgressAt, Connecting

LEMMA RoleFileProgress ==
  ASSUME TypeInv, Progress, NEW r \in Runs, Step(r), UploadRoleFile(r), pc'[r] # "failed",
         NEW i, i = cur[r],
         NEW loc, loc = [dir |-> Bootstrap, name |-> RoleFileName(play(r))]
  PROVE  ProgressAt(r)'
<1>1. /\ ControlAt(r) /\ i \in Nat
      /\ pc \in [Runs -> Labels] /\ cur \in [Runs -> Nat]
      /\ override \in [Runs -> [Index -> Override]]
  BY DEF TypeInv, TypeOK, Control
<1>2. /\ i \in DOMAIN plays(r) /\ i \in Index /\ play(r) = plays(r)[i]
      /\ pc[r] = "roleFile" /\ play(r).kind = "galaxy_install"
  BY <1>1, AtPlayFacts DEF UploadRoleFile, AtPlay, play, ControlAt
<1>3. /\ override' = [override EXCEPT ![r][i].roleFile = {loc}]
      /\ pc'[r] = "deploy" /\ cur'[r] = i + 1
  BY <1>1 DEF UploadRoleFile, Succeeds, Fails, Goto
<1>4. plays(r)' = plays(r)
  BY StepFrames DEF StepFrame, plays
<1>5. override'[r][i].roleFile = {loc}
  BY <1>1, <1>2, <1>3 DEF Override
<1>6. ProgressOf(r, i)'
  <2>1. Complete(r, i)'
    BY <1>2, <1>4, <1>5 DEF Complete
  <2>2. PartOf(r, i)'
    BY <1>3 DEF PartOf, InRoles, AtTarget
  <2> QED
    BY <2>1, <2>2 DEF ProgressOf
<1>7. ASSUME NEW j \in DOMAIN plays(r), j # i PROVE ProgressOf(r, j)'
  BY <1>2, <1>3, <1>7, OtherPlays DEF Deploying, Connecting, AtPlay
<1> QED
  BY <1>3, <1>4, <1>6, <1>7 DEF ProgressAt, Connecting

LEMMA StepProgress ==
  ASSUME TypeInv, Progress, NEW r \in Runs, Step(r)
  PROVE  Progress'
<1>1. ProgressAt(r)'
  <2>1. CASE pc'[r] = "failed"
    BY <2>1, FailedProgress
  <2>2. CASE pc'[r] # "failed"
    BY <2>2, ConnectProgress, DeployProgress, LoopProgress, TargetProgress, InventoryProgress, VaultProgress,
       RoleFileProgress, LaterProgress DEF Step, Deploy
  <2> QED
    BY <2>1, <2>2
<1>2. \A q \in Runs \ {r} : ProgressAt(q)'
  BY StepFrames, OthersProgress
<1> QED
  BY <1>1, <1>2 DEF Progress

(* Starting another run, or editing a directory, changes no progress. *)
LEMMA EnvironmentProgress ==
  ASSUME TypeInv, Progress, (\E r \in Runs : Start(r)) \/ (\E d \in LocalDirs : Edit(d))
  PROVE  Progress'
<1> SUFFICES ASSUME NEW q \in Runs PROVE ProgressAt(q)'
  BY DEF Progress
<1>1. /\ cur' = cur /\ item' = item /\ override' = override /\ settings' = settings
      /\ pc'[q] = pc[q] \/ (pc[q] = "idle" /\ pc'[q] = "connect")
  BY DEF Start, Edit, Goto, runVars, TypeInv, TypeOK
<1>2. ProgressAt(q) /\ plays(q)' = plays(q)
  BY <1>1 DEF Progress, plays
<1>3. ASSUME NEW i \in DOMAIN plays(q) PROVE ProgressOf(q, i)'
  <2>1. i \in Index /\ i \in Nat /\ i >= 1 /\ ProgressOf(q, i)
    BY <1>2, PlayFacts DEF TypeInv, ProgressAt, Index
  <2>2. /\ Complete(q, i)' <=> Complete(q, i)
        /\ AllVaults(q, i)' <=> AllVaults(q, i)
        /\ VaultsPast(q, i)' <=> VaultsPast(q, i)
        /\ RolesPast(q, i)' <=> RolesPast(q, i)
    BY <1>1, <2>1, SameOverrides
  <2>3. CASE pc'[q] = pc[q]
    BY <1>1, <1>2, <2>1, <2>2, <2>3 DEF ProgressOf, PartOf, InRoles
  <2>4. CASE pc[q] = "idle" /\ pc'[q] = "connect"
    BY <1>1, <1>2, <2>1, <2>4
    DEF ProgressAt, ProgressOf, PartOf, InRoles, Deployed, AtTarget, Connecting
  <2> QED
    BY <1>1, <2>3, <2>4
<1> QED
  BY <1>1, <1>2, <1>3 DEF ProgressAt, Connecting

(* Progress is inductive, given the types. *)
THEOREM ProgressInductive ==
  /\ Init => Progress
  /\ TypeInv /\ Progress /\ [Next]_vars => Progress'
<1>1. ASSUME Init PROVE Progress
  BY <1>1 DEF Init, Progress, ProgressAt, ProgressOf, PartOf, Deployed, Deploying, Connecting, AtPlay,
     AtTarget, InRoles
<1>2. ASSUME TypeInv, Progress, [Next]_vars PROVE Progress'
  <2>1. CASE Next
    BY <1>2, <2>1, StepProgress, EnvironmentProgress DEF Next
  <2>2. CASE UNCHANGED vars
    <3> SUFFICES ASSUME NEW r \in Runs PROVE ProgressAt(r)'
      BY DEF Progress
    <3>1. /\ pc' = pc /\ cur' = cur /\ item' = item /\ override' = override
          /\ settings' = settings /\ plays(r)' = plays(r) /\ ProgressAt(r)
      BY <1>2, <2>2 DEF vars, Progress, plays
    <3>2. ASSUME NEW i \in DOMAIN plays(r) PROVE ProgressOf(r, i)'
      <4>1. i \in Index /\ ProgressOf(r, i)
        BY <1>2, <3>1, PlayFacts DEF TypeInv, ProgressAt
      <4> QED
        BY <3>1, <4>1, SameOverrides DEF ProgressOf, PartOf, InRoles
    <3> QED
      BY <3>1, <3>2 DEF ProgressAt
  <2> QED
    BY <1>2, <2>1, <2>2
<1> QED
  BY <1>1, <1>2

(* deployAnsibleData has finished with every enabled play, its uploads and  *)
(* its overrides, before installAnsible and before the first command: in    *)
(* every run, whatever the playlists and whatever other runs do to the host.*)
THEOREM DeployedBeforeAny == Spec => []AllDeployedBeforeAny
<1>1. Progress => AllDeployedBeforeAny
  BY DEF Progress, ProgressAt, ProgressOf, AllDeployedBeforeAny, Deployed
<1>2. Init => TypeInv /\ Progress
  BY TypeInductive, ProgressInductive
<1>3. TypeInv /\ Progress /\ [Next]_vars => (TypeInv /\ Progress)'
  BY TypeInductive, ProgressInductive
<1> QED
  BY <1>1, <1>2, <1>3, PTL DEF Spec

-----------------------------------------------------------------------------
(* Each play is executed once, in order, and files are a run's own. *)

Installing == {"installDir", "installUpload", "installRun"}

(* The plays that have run are those before the current one, once the       *)
(* second loop has begun, and all of them when it has ended.                *)
RefAt(r) ==
  /\ pc[r] \in {"idle"} \cup Deploying \cup Installing => ran[r] = {}
  /\ pc[r] \in Installing => cur[r] = 1
  /\ pc[r] \in {"play", "running"} => ran[r] = {i \in DOMAIN plays(r) : i < cur[r]}
  /\ pc[r] \in {"cleanup", "done"} => ran[r] = DOMAIN plays(r)

RefInv == \A r \in Runs : RefAt(r)

-----------------------------------------------------------------------------
(* What a step of r is, as far as ProvisionRun can tell. *)
PlaySucceeded(r) ==
  /\ pc[r] = "running" /\ pc'[r] = "play" /\ cur'[r] = cur[r] + 1
  /\ ran' = [ran EXCEPT ![r] = @ \cup {cur[r]}]

KindOfStep(r) ==
  \/ PlaySucceeded(r)
  \/ /\ ran' = ran
     /\ \/ pc[r] \in Deploying /\ pc'[r] \in Deploying
        \/ pc[r] \in Deploying /\ pc'[r] \in Installing \cup {"play"} /\ cur'[r] = 1
        \/ pc[r] \in Installing /\ pc'[r] \in Installing \cup {"play"} /\ cur'[r] = cur[r]
        \/ pc[r] \in Deploying \cup Installing \cup {"play", "running"} /\ pc'[r] = "failed"
        \/ pc[r] = "play" /\ pc'[r] = "running" /\ cur[r] <= Len(plays(r)) /\ cur'[r] = cur[r]
        \/ pc[r] = "play" /\ pc'[r] \in {"cleanup", "done"} /\ cur[r] > Len(plays(r))
        \/ pc[r] = "cleanup" /\ pc'[r] = "done"

(* Every step of r is of one of these kinds. *)
LEMMA StepKinds ==
  ASSUME TypeInv, NEW r \in Runs, Step(r)
  PROVE  KindOfStep(r)
<1> USE DEF Goto, runVars
<1>0. pc \in [Runs -> Labels] /\ cur \in [Runs -> Nat]
  BY DEF TypeInv, TypeOK
<1>1. CASE retryFunc(r)
  BY <1>0, <1>1
  DEF retryFunc, Connect, TimerFires, RetryPause, Silently, KindOfStep, Deploying, Connecting
<1>2. CASE DeployDone(r)
  BY <1>0, <1>2 DEF DeployDone, Silently, KindOfStep, Deploying, Installing
<1>3. CASE Deploy(r) /\ ~DeployDone(r)
  <2>1. ran' = ran /\ pc[r] \in Deploying /\ pc'[r] \in Deploying \cup {"failed"}
    <3> USE DEF Deploying, AtPlay
    <3>1. CASE SkipDisabled(r) \/ DeployEntity(r)
      BY <1>0, <3>1 DEF SkipDisabled, DeployEntity, Silently
    <3>2. CASE MakeBootstrap(r)
      BY <1>0, <3>2 DEF MakeBootstrap, Succeeds, Fails
    <3>3. CASE CheckDir(r) \/ FinishUpload(r)
      BY <1>0, <3>3 DEF CheckDir, FinishUpload, Succeeds, Fails, TakeTarget, AfterTarget
    <3>4. CASE BeginUpload(r) \/ WriteInventory(r) \/ UploadVault(r)
      BY <1>0, <3>4 DEF BeginUpload, WriteInventory, UploadVault, Succeeds, Fails
    <3>5. CASE SkipVault(r) \/ VaultDone(r) \/ NextRole(r) \/ RolesDone(r)
      BY <1>0, <3>5 DEF SkipVault, VaultDone, NextRole, RolesDone, Silently
    <3>6. CASE MakeModuleDir(r) \/ MakeRolesDir(r) \/ UploadRoleFile(r)
      BY <1>0, <3>6 DEF MakeModuleDir, MakeRolesDir, UploadRoleFile, Succeeds, Fails
    <3> QED
      BY <1>3, <3>1, <3>2, <3>3, <3>4, <3>5, <3>6 DEF Deploy
  <2> QED
    BY <2>1 DEF KindOfStep
<1>4. CASE Install(r)
  BY <1>0, <1>4
  DEF Install, InstallDir, InstallUpload, InstallRun, Succeeds, Fails, KindOfStep, Installing
<1>5. CASE ExecutePlay(r) \/ PlaysDone(r)
  BY <1>0, <1>5 DEF ExecutePlay, PlaysDone, Silently, Fails, KindOfStep
<1>6. CASE PlayEnds(r)
  BY <1>0, <1>6 DEF PlayEnds, Succeeds, Fails, KindOfStep, PlaySucceeded
<1>7. CASE Cleanup(r)
  BY <1>0, <1>7 DEF Cleanup, Succeeds, KindOfStep
<1> QED
  BY <1>1, <1>2, <1>3, <1>4, <1>5, <1>6, <1>7 DEF Step, Provision

(* A step of r keeps what is said of r's plays that have run. *)
LEMMA StepRefAt ==
  ASSUME TypeInv, RefInv, NEW r \in Runs, Step(r)
  PROVE  RefAt(r)'
<1>1. /\ RefAt(r) /\ KindOfStep(r) /\ plays(r)' = plays(r)
      /\ ran \in [Runs -> SUBSET Index] /\ cur[r] \in Nat
  BY StepKinds, StepFrames DEF RefInv, StepFrame, plays, TypeInv, TypeOK
<1>2. /\ \A i \in DOMAIN plays(r) : i \in Nat /\ i >= 1 /\ i <= Len(plays(r))
      /\ Len(plays(r)) \in Nat
  <2>1. plays(r) \in Seq(Play)
    BY RemoteAssumption DEF TypeInv, TypeOK, Settings, plays
  <2> QED
    BY <2>1
<1> USE DEF Deploying, Connecting, Installing, AtPlay
<1>3. CASE PlaySucceeded(r)
  <2>1. ran'[r] = ran[r] \cup {cur[r]} /\ cur[r] \in DOMAIN plays(r)
    BY <1>1, <1>3 DEF PlaySucceeded, TypeInv, Control, ControlAt
  <2>2. \A i \in DOMAIN plays(r) : i < cur[r] + 1 <=> i < cur[r] \/ i = cur[r]
    BY <1>1, <1>2
  <2> QED
    BY <1>1, <1>3, <2>1, <2>2 DEF PlaySucceeded, RefAt
<1>4. CASE ran' = ran /\ ~PlaySucceeded(r)
  <2>1. CASE pc[r] = "play" /\ pc'[r] \in {"cleanup", "done"} /\ cur[r] > Len(plays(r))
    <3>1. \A i \in DOMAIN plays(r) : i < cur[r]
      BY <1>1, <1>2, <2>1
    <3> QED
      BY <1>1, <1>4, <2>1, <3>1 DEF RefAt
  <2>2. CASE pc'[r] = "play" /\ ran[r] = {} /\ cur'[r] = 1
    <3>1. \A i \in DOMAIN plays(r) : ~(i < 1)
      BY <1>2
    <3> QED
      BY <1>1, <1>4, <2>2, <3>1 DEF RefAt
  <2>3. CASE pc'[r] \in {"failed"} \cup Deploying \cup Installing
    BY <1>1, <1>4, <2>3 DEF RefAt, KindOfStep
  <2>4. CASE pc[r] = "play" /\ pc'[r] = "running" /\ cur'[r] = cur[r]
    BY <1>1, <1>4, <2>4 DEF RefAt
  <2>5. CASE pc[r] = "cleanup" /\ pc'[r] = "done"
    BY <1>1, <1>4, <2>5 DEF RefAt
  <2> QED
    BY <1>1, <1>4, <2>1, <2>2, <2>3, <2>4, <2>5 DEF KindOfStep, RefAt
<1> QED
  BY <1>1, <1>3, <1>4 DEF KindOfStep

(* The other runs are where they were. *)
LEMMA OthersRefAt ==
  ASSUME RefInv, NEW q \in Runs, pc'[q] = pc[q], cur'[q] = cur[q], ran'[q] = ran[q],
         settings' = settings
  PROVE  RefAt(q)'
BY DEF RefInv, RefAt, plays

LEMMA StepRef ==
  ASSUME TypeInv, RefInv, NEW r \in Runs, Step(r)
  PROVE  RefInv'
<1>1. \A q \in Runs \ {r} : ran'[q] = ran[q]
  BY StepKinds DEF KindOfStep, PlaySucceeded, TypeInv, TypeOK
<1>2. ASSUME NEW q \in Runs, q # r PROVE RefAt(q)'
  BY <1>1, <1>2, StepFrames, OthersRefAt DEF StepFrame
<1> QED
  BY <1>2, StepRefAt DEF RefInv

-----------------------------------------------------------------------------
(* A step of r that changes its phase to p. *)
LEMMA Became ==
  ASSUME NEW r \in Runs, settings' = settings, \A q \in Runs \ {r} : pc'[q] = pc[q],
         NEW p, Phase(r)' = p
  PROVE  Promise!Become(r, p)
<1>1. \A q \in Runs \ {r} : Phase(q)' = Phase(q)
  BY DEF Phase
<1>2. \A q \in Runs : plays(q)' = plays(q)
  BY DEF plays
<1> QED
  BY <1>1, <1>2 DEF Promise!Become

(* No change of phase, no play that has succeeded: a stutter. *)
LEMMA MapsToStutter ==
  ASSUME NEW r \in Runs, settings' = settings, \A q \in Runs \ {r} : pc'[q] = pc[q],
         Phase(r)' = Phase(r), ran' = ran
  PROVE  UNCHANGED Promise!vars
<1>1. \A q \in Runs : Phase(q)' = Phase(q)
  BY DEF Phase
<1>2. \A q \in Runs : plays(q)' = plays(q)
  BY DEF plays
<1> QED
  BY <1>1, <1>2 DEF Promise!vars

(* At a play of the second loop, it is the first one not executed yet. *)
LEMMA CurIsNext ==
  ASSUME TypeInv, RefInv, NEW r \in Runs, pc[r] \in {"play", "running"},
         cur[r] \in DOMAIN plays(r)
  PROVE  cur[r] \in Index /\ Promise!IsNext(r, cur[r])
<1>1. /\ cur[r] \in Index /\ cur[r] \in Nat /\ DOMAIN plays(r) \subseteq Nat
      /\ ran[r] = {i \in DOMAIN plays(r) : i < cur[r]}
  BY PlayFacts DEF TypeInv, Index, RefInv, RefAt
<1>2. \A j \in DOMAIN plays(r) \ ran[r] : cur[r] <= j
  BY <1>1
<1> QED
  BY <1>1, <1>2 DEF Promise!IsNext

(* A step of r is one of ProvisionRun, or a stutter. *)
LEMMA StepMaps ==
  ASSUME TypeInv, RefInv, NEW r \in Runs, Step(r)
  PROVE  [Promise!Next]_Promise!vars
<1>1. /\ KindOfStep(r) /\ settings' = settings /\ \A q \in Runs \ {r} : pc'[q] = pc[q]
      /\ RefAt(r) /\ ran \in [Runs -> SUBSET Index] /\ cur[r] \in Nat
  BY StepKinds, StepFrames DEF RefInv, StepFrame, TypeInv, TypeOK
<1>2. \A p : Phase(r)' = p => Promise!Become(r, p)
  BY <1>1, Became
<1> USE DEF Deploying, Connecting, Installing, AtPlay
<1>3. CASE PlaySucceeded(r)
  <2>1. cur[r] \in DOMAIN plays(r) /\ pc[r] = "running"
    BY <1>3 DEF PlaySucceeded, TypeInv, Control, ControlAt
  <2>2. Phase(r) = "running" /\ Phase(r)' = "preparing"
    BY <1>3 DEF PlaySucceeded, Phase
  <2>3. Promise!PlaySucceeds(r)
    BY <1>2, <1>3, <2>1, <2>2, CurIsNext DEF PlaySucceeded, Promise!PlaySucceeds
  <2> QED
    BY <2>3 DEF Promise!Next
<1>4. CASE /\ ran' = ran
           /\ pc[r] \in Deploying \cup Installing \cup {"play", "running"} /\ pc'[r] = "failed"
  <2>1. Phase(r) \in {"preparing", "running"} /\ Phase(r)' = "failed"
    BY <1>4 DEF Phase
  <2>2. Promise!Fail(r)
    BY <1>2, <1>4, <2>1 DEF Promise!Fail
  <2> QED
    BY <2>2 DEF Promise!Next
<1>5. CASE ran' = ran /\ pc[r] = "play" /\ pc'[r] = "running" /\ cur[r] <= Len(plays(r))
  <2>1. cur[r] \in DOMAIN plays(r)
    <3>1. plays(r) \in Seq(Play) /\ cur[r] >= 1
      BY RemoteAssumption DEF TypeInv, TypeOK, Control, ControlAt, Settings, plays
    <3> QED
      BY <1>1, <1>5, <3>1
  <2>2. Phase(r) = "preparing" /\ Phase(r)' = "running"
    BY <1>5 DEF Phase
  <2>3. Promise!Execute(r)
    BY <1>2, <1>5, <2>1, <2>2, CurIsNext DEF Promise!Execute
  <2> QED
    BY <2>3 DEF Promise!Next
<1>6. CASE /\ ran' = ran /\ pc[r] = "play" /\ pc'[r] \in {"cleanup", "done"}
           /\ cur[r] > Len(plays(r))
  <2>1. ran[r] = DOMAIN plays(r)
    <3>1. pc'[r] \in {"cleanup", "done"} /\ RefAt(r)'
      BY <1>6, StepRefAt
    <3> QED
      BY <1>1, <1>6, <3>1 DEF RefAt, plays
  <2>2. Phase(r) = "preparing" /\ Phase(r)' = "ok"
    BY <1>6 DEF Phase
  <2>3. Promise!Succeed(r)
    BY <1>2, <1>6, <2>1, <2>2 DEF Promise!Succeed
  <2> QED
    BY <2>3 DEF Promise!Next
<1>7. CASE /\ ran' = ran
           /\ \/ pc[r] = "cleanup" /\ pc'[r] = "done"
              \/ /\ pc[r] \in Deploying \cup Installing
                 /\ pc'[r] \in Deploying \cup Installing \cup {"play"}
  <2>1. Phase(r)' = Phase(r)
    BY <1>7 DEF Phase
  <2> QED
    BY <1>1, <1>7, <2>1, MapsToStutter
<1> QED
  BY <1>1, <1>3, <1>4, <1>5, <1>6, <1>7 DEF KindOfStep

(* A run that starts begins. *)
LEMMA StartMaps ==
  ASSUME TypeInv, RefInv, NEW r \in Runs, Start(r)
  PROVE  RefInv' /\ Promise!Next
<1>1. /\ pc[r] = "idle" /\ pc' = [pc EXCEPT ![r] = "connect"] /\ settings' = settings
      /\ cur' = cur /\ ran' = ran /\ pc \in [Runs -> Labels]
  BY DEF Start, Goto, runVars, TypeInv, TypeOK
<1>2. RefInv'
  <2>1. RefAt(r)'
    BY <1>1 DEF RefInv, RefAt, Deploying, Connecting, Installing, AtPlay
  <2>2. ASSUME NEW q \in Runs, q # r PROVE RefAt(q)'
    BY <1>1, <2>2, OthersRefAt
  <2> QED
    BY <2>1, <2>2 DEF RefInv
<1>3. Phase(r) = "waiting" /\ Phase(r)' = "preparing"
  BY <1>1 DEF Phase
<1>4. Promise!Begin(r)
  <2>1. \A q \in Runs \ {r} : pc'[q] = pc[q]
    BY <1>1
  <2>2. Promise!Become(r, "preparing")
    BY <1>1, <1>3, <2>1, Became
  <2> QED
    BY <1>1, <1>3, <2>2 DEF Promise!Begin
<1> QED
  BY <1>2, <1>4 DEF Promise!Next

(* A step that moves no run is a stutter. *)
LEMMA NothingMoves ==
  ASSUME RefInv, UNCHANGED <<settings, pc, cur, ran>>
  PROVE  RefInv' /\ UNCHANGED Promise!vars
<1>1. ASSUME NEW q \in Runs PROVE RefAt(q)' /\ Phase(q)' = Phase(q) /\ plays(q)' = plays(q)
  BY OthersRefAt DEF Phase, plays
<1> QED
  BY <1>1 DEF RefInv, Promise!vars

(* The initial states map to initial states. *)
LEMMA InitMaps == ASSUME Init PROVE RefInv /\ Promise!Init
<1>1. TypeInv /\ ran = [r \in Runs |-> {}] /\ \A r \in Runs : pc[r] = "idle" /\ ran[r] = {}
  BY TypeInductive DEF Init
<1>2. RefInv
  BY <1>1 DEF RefInv, RefAt, Installing
<1>3. \A r \in Runs : DOMAIN plays(r) \in SUBSET Index
  BY <1>1, RemoteAssumption DEF TypeInv, TypeOK, Settings, plays
<1>4. \A r \in Runs : Phase(r) = "waiting"
  BY <1>1 DEF Phase
<1> QED
  BY <1>1, <1>2, <1>3, <1>4 DEF Promise!Init

(* Each run of remote mode does what ProvisionRun promises, whatever the    *)
(* other runs do and wherever it fails: all its plays, enabled or not, in   *)
(* order and one at a time, none after one that failed, and success is      *)
(* reported only when all have succeeded.                                   *)
THEOREM RemoteImplements == Spec => ImplementsProvisionRun
<1>1. Init => TypeInv /\ RefInv /\ Promise!Init
  BY InitMaps, TypeInductive
<1>2. TypeInv /\ RefInv /\ [Next]_vars => RefInv' /\ [Promise!Next]_Promise!vars
  <2> SUFFICES ASSUME TypeInv, RefInv, [Next]_vars
               PROVE  RefInv' /\ [Promise!Next]_Promise!vars
    OBVIOUS
  <2>1. CASE UNCHANGED vars \/ \E d \in LocalDirs : Edit(d)
    <3>1. UNCHANGED <<settings, pc, cur, ran>>
      BY <2>1 DEF vars, Edit, runVars
    <3> QED
      BY <3>1, NothingMoves
  <2> QED
    BY <2>1, StartMaps, StepRef, StepMaps DEF Next
<1>3. TypeInv /\ [Next]_vars => TypeInv'
  BY TypeInductive
<1> QED
  BY <1>1, <1>2, <1>3, PTL DEF Spec, ImplementsProvisionRun, Promise!Spec

-----------------------------------------------------------------------------
(* OwnFiles.  The invariant behind it: the uuid in the name of an inventory *)
(* or vault file was drawn by the run and for the play that put the file    *)
(* there, and the overrides of a play name files whose uuid was drawn for   *)
(* it.                                                                      *)
NamedFor(loc, r, i) == loc.name.run = r /\ loc.name.play = i /\ loc.name.kind # "rolefile"

WellNamed(f) == f.name.kind # "rolefile" => NamedFor(f, f.by, f.play)

FilesNamed == \A f \in host.files : WellNamed(f)

OverridesNamed(r) ==
  \A i \in Index : \A loc \in override[r][i].inventory \cup override[r][i].vault :
    NamedFor(loc, r, i)

NamesInv == FilesNamed /\ \A r \in Runs : OverridesNamed(r)

-----------------------------------------------------------------------------
(* What the operations of the host do to its files: only PutFile adds one.  *)
LEMMA NoNewFiles ==
  ASSUME NEW h \in Host, NEW d, NEW r, NEW v
  PROVE  /\ MakeDir(h, d).files = h.files
         /\ StartUpload(h, d, r, v).files = h.files
         /\ EndUpload(h, d, r).files = h.files
         /\ PutInstaller(h, r).files = h.files
         /\ RemoveAll(h).files = {}
BY DEF Host, MakeDir, StartUpload, EndUpload, PutInstaller, RemoveAll

LEMMA OneNewFile ==
  ASSUME NEW h \in Host, NEW f
  PROVE  PutFile(h, f).files \subseteq h.files \cup {f}
BY DEF Host, PutFile

LEMMA FreshIsNamed ==
  ASSUME NEW r, NEW i, NEW dir, NEW n, NEW kind \in {"inventory", "vault"},
         NEW loc, loc = [dir |-> dir, name |-> FreshName(r, i, kind, n)]
  PROVE  NamedFor(loc, r, i) /\ WellNamed(FileAt(loc, r, i))
BY DEF NamedFor, FreshName, WellNamed, FileAt

LEMMA RoleFileIsNamed ==
  ASSUME NEW r, NEW dir, NEW p, NEW loc, loc = [dir |-> dir, name |-> RoleFileName(p)]
  PROVE  WellNamed(FileAt(loc, r, 0))
BY DEF NamedFor, RoleFileName, WellNamed, FileAt

(* An operation leaves the host as it was, or as h. *)
LEMMA EitherHost ==
  ASSUME FilesNamed, NEW h, \A f \in h.files : WellNamed(f), host' \in {host, h}
  PROVE  FilesNamed'
BY DEF FilesNamed

LEMMA OperationHost ==
  ASSUME NEW r, NEW works, NEW h, NEW next,
         Succeeds(r, works, h, next) \/ Fails(r, works, h)
  PROVE  host' \in {host, h}
BY DEF Succeeds, Fails

(* A file put there by one of the three operations that upload one. *)
LEMMA PutNamed ==
  ASSUME TypeInv, FilesNamed, NEW f, WellNamed(f), host' \in {host, PutFile(host, f)}
  PROVE  FilesNamed'
<1>1. \A g \in PutFile(host, f).files : WellNamed(g)
  BY OneNewFile DEF TypeInv, TypeOK, FilesNamed
<1> QED
  BY <1>1, EitherHost

(* No step puts a file whose name is another run's or another play's. *)
LEMMA StepFiles ==
  ASSUME TypeInv, FilesNamed, NEW r \in Runs, Step(r)
  PROVE  FilesNamed'
<1>0. host \in Host
  BY DEF TypeInv, TypeOK
<1>1. CASE host'.files \subseteq host.files
  BY <1>1 DEF FilesNamed
<1>2. CASE WriteInventory(r)
  <2> DEFINE loc == [dir |-> play(r).dir, name |-> FreshName(r, cur[r], "inventory", 0)]
  <2>1. WellNamed(FileAt(loc, r, cur[r]))
    BY FreshIsNamed
  <2>2. host' \in {host, PutFile(host, FileAt(loc, r, cur[r]))}
    BY <1>2 DEF WriteInventory, Succeeds, Fails
  <2> QED
    BY <2>1, <2>2, PutNamed
<1>3. CASE UploadVault(r)
  <2> DEFINE loc == [dir |-> play(r).dir, name |-> FreshName(r, cur[r], "vault", item[r])]
  <2>1. WellNamed(FileAt(loc, r, cur[r]))
    BY FreshIsNamed
  <2>2. host' \in {host, PutFile(host, FileAt(loc, r, cur[r]))}
    BY <1>3 DEF UploadVault, Succeeds, Fails
  <2> QED
    BY <2>1, <2>2, PutNamed
<1>4. CASE UploadRoleFile(r)
  <2> DEFINE loc == [dir |-> Bootstrap, name |-> RoleFileName(play(r))]
  <2>1. WellNamed(FileAt(loc, r, 0))
    BY RoleFileIsNamed
  <2>2. host' \in {host, PutFile(host, FileAt(loc, r, 0))}
    BY <1>4 DEF UploadRoleFile, Succeeds, Fails
  <2> QED
    BY <2>1, <2>2, PutNamed
<1>5. CASE retryFunc(r) \/ DeployDone(r) \/ SkipDisabled(r) \/ DeployEntity(r) \/ SkipVault(r)
           \/ VaultDone(r) \/ NextRole(r) \/ RolesDone(r) \/ ExecutePlay(r) \/ PlaysDone(r)
  <2>1. host' = host
    BY <1>5
    DEF retryFunc, Connect, TimerFires, RetryPause, DeployDone, SkipDisabled, DeployEntity,
        SkipVault, VaultDone, NextRole, RolesDone, ExecutePlay, PlaysDone, Silently, Fails
  <2> QED
    BY <1>1, <2>1
<1>6. CASE MakeBootstrap(r) \/ MakeModuleDir(r) \/ MakeRolesDir(r)
  <2>1. host' = host \/ \E d : host' = MakeDir(host, d)
    BY <1>6 DEF MakeBootstrap, MakeModuleDir, MakeRolesDir, Succeeds, Fails
  <2> QED
    BY <1>0, <1>1, <2>1, NoNewFiles
<1>7. CASE CheckDir(r) \/ BeginUpload(r) \/ FinishUpload(r)
  <2>1. \/ host' = host
        \/ host' = StartUpload(host, Target(r), r, local[Target(r)])
        \/ host' = EndUpload(host, Target(r), r)
    BY <1>7 DEF CheckDir, BeginUpload, FinishUpload, Succeeds, Fails
  <2>2. host'.files = host.files
    BY <1>0, <2>1, NoNewFiles
  <2> QED
    BY <1>1, <2>2
<1>8. CASE Install(r) \/ PlayEnds(r) \/ Cleanup(r)
  <2>1. \/ host' = host \/ host' = RemoveAll(host)
        \/ host' = PutInstaller(host, r) \/ host' = PutInstaller(host, NoRun)
    BY <1>8
    DEF Install, InstallDir, InstallUpload, InstallRun, PlayEnds, Cleanup, Succeeds, Fails
  <2>2. host'.files \in {host.files, {}}
    BY <1>0, <2>1, NoNewFiles
  <2> QED
    BY <1>1, <2>2
<1> QED
  BY <1>2, <1>3, <1>4, <1>5, <1>6, <1>7, <1>8 DEF Step, Deploy, Provision

-----------------------------------------------------------------------------
(* A step names a file in an override only for the name it drew itself. *)
LEMMA StepOverrides ==
  ASSUME TypeInv, NEW r \in Runs, Step(r), OverridesNamed(r)
  PROVE  OverridesNamed(r)'
<1>1. /\ override \in [Runs -> [Index -> Override]]
      /\ \A i \in Index \ {cur[r]} : override'[r][i] = override[r][i]
  BY StepFrames DEF StepFrame, TypeInv, TypeOK
<1>2. SUFFICES ASSUME cur[r] \in Index,
                      NEW loc \in override'[r][cur[r]].inventory \cup override'[r][cur[r]].vault
               PROVE  NamedFor(loc, r, cur[r])
  <2>1. ASSUME NEW i \in Index, i # cur[r],
               NEW loc \in override'[r][i].inventory \cup override'[r][i].vault
        PROVE  NamedFor(loc, r, i)
    BY <1>1, <2>1 DEF OverridesNamed
  <2>2. ASSUME NEW i \in Index, i = cur[r],
               NEW loc \in override'[r][i].inventory \cup override'[r][i].vault
        PROVE  NamedFor(loc, r, i)
    BY <1>2, <2>2
  <2>3. \A i \in Index : \A loc \in override'[r][i].inventory \cup override'[r][i].vault :
          NamedFor(loc, r, i)
    BY <2>1, <2>2
  <2> QED
    BY <2>3 DEF OverridesNamed, NamedFor
<1> DEFINE o == override[r][cur[r]]
<1>3. /\ o \in Override
      /\ \A l \in o.inventory \cup o.vault : NamedFor(l, r, cur[r])
  BY <1>1, <1>2 DEF OverridesNamed
<1>4. CASE override'[r][cur[r]] = o
  BY <1>2, <1>3, <1>4
<1>5. CASE WriteInventory(r)
  <2> DEFINE new == [dir |-> play(r).dir, name |-> FreshName(r, cur[r], "inventory", 0)]
  <2>1. \/ override' = override
        \/ override' = [override EXCEPT ![r][cur[r]].inventory = {new}]
    BY <1>5 DEF WriteInventory, Fails, runVars
  <2> HIDE DEF new
  <2>2. override'[r][cur[r]] = o \/ override'[r][cur[r]] = [o EXCEPT !.inventory = {new}]
    BY <1>1, <1>2, <2>1
  <2>3. override'[r][cur[r]].inventory \cup override'[r][cur[r]].vault
          \subseteq o.inventory \cup o.vault \cup {new}
    BY <1>3, <2>2 DEF Override
  <2>4. NamedFor(new, r, cur[r])
    BY FreshIsNamed DEF new
  <2> QED
    BY <1>2, <1>3, <2>3, <2>4
<1>6. CASE UploadVault(r)
  <2> DEFINE new == [dir |-> play(r).dir, name |-> FreshName(r, cur[r], "vault", item[r])]
  <2>1. \/ override' = override
        \/ override' = [override EXCEPT ![r][cur[r]].vault = @ \cup {new}]
    BY <1>6 DEF UploadVault, Fails, runVars
  <2> HIDE DEF new
  <2>2. override'[r][cur[r]] = o \/ override'[r][cur[r]] = [o EXCEPT !.vault = @ \cup {new}]
    BY <1>1, <1>2, <2>1
  <2>3. override'[r][cur[r]].inventory \cup override'[r][cur[r]].vault
          \subseteq o.inventory \cup o.vault \cup {new}
    BY <1>3, <2>2 DEF Override
  <2>4. NamedFor(new, r, cur[r])
    BY FreshIsNamed DEF new
  <2> QED
    BY <1>2, <1>3, <2>3, <2>4
<1>7. CASE UploadRoleFile(r)
  <2> DEFINE new == {[dir |-> Bootstrap, name |-> RoleFileName(play(r))]}
  <2>1. \/ override' = override
        \/ override' = [override EXCEPT ![r][cur[r]].roleFile = new]
    BY <1>7 DEF UploadRoleFile, Fails, runVars
  <2> HIDE DEF new
  <2>2. override'[r][cur[r]] = o \/ override'[r][cur[r]] = [o EXCEPT !.roleFile = new]
    BY <1>1, <1>2, <2>1
  <2>3. /\ override'[r][cur[r]].inventory = o.inventory
        /\ override'[r][cur[r]].vault = o.vault
    BY <1>3, <2>2 DEF Override
  <2> QED
    BY <1>2, <1>3, <2>3
<1>8. CASE CheckDir(r) \/ FinishUpload(r)
  <2>1. \/ override' = override
        \/ override' = [override EXCEPT ![r][cur[r]].file = TRUE]
        \/ override' = [override EXCEPT ![r][cur[r]].roles = @ \cup {Target(r)}]
    BY <1>8 DEF CheckDir, FinishUpload, Fails, TakeTarget, runVars
  <2>2. \/ override'[r][cur[r]] = o
        \/ override'[r][cur[r]] = [o EXCEPT !.file = TRUE]
        \/ override'[r][cur[r]] = [o EXCEPT !.roles = @ \cup {Target(r)}]
    BY <1>1, <1>2, <2>1
  <2>3. /\ override'[r][cur[r]].inventory = o.inventory
        /\ override'[r][cur[r]].vault = o.vault
    BY <1>3, <2>2 DEF Override
  <2> QED
    BY <1>2, <1>3, <2>3
<1>9. CASE retryFunc(r) \/ DeployDone(r) \/ SkipDisabled(r) \/ DeployEntity(r) \/ SkipVault(r)
           \/ VaultDone(r) \/ NextRole(r) \/ RolesDone(r) \/ Provision(r)
  BY <1>4, <1>9
  DEF retryFunc, Connect, TimerFires, RetryPause, DeployDone, SkipDisabled, DeployEntity,
      SkipVault, VaultDone, NextRole, RolesDone, Provision, ExecutePlay, PlayEnds, PlaysDone,
      Cleanup, Fails, runVars
<1>10. CASE MakeBootstrap(r) \/ MakeModuleDir(r) \/ MakeRolesDir(r) \/ BeginUpload(r) \/ Install(r)
  BY <1>4, <1>10
  DEF MakeBootstrap, MakeModuleDir, MakeRolesDir, BeginUpload, Install, InstallDir,
      InstallUpload, InstallRun, Fails, runVars
<1> QED
  BY <1>5, <1>6, <1>7, <1>8, <1>9, <1>10 DEF Step, Deploy

LEMMA NamesInductive ==
  /\ Init => NamesInv
  /\ TypeInv /\ NamesInv /\ [Next]_vars => NamesInv'
<1>1. ASSUME Init PROVE NamesInv
  <2>1. host.files = {} /\ override = [r \in Runs |-> [i \in Index |-> NoOverride]]
    BY <1>1 DEF Init, EmptyHost
  <2> QED
    BY <2>1 DEF NamesInv, FilesNamed, OverridesNamed, NoOverride
<1>2. ASSUME TypeInv, NamesInv, [Next]_vars PROVE NamesInv'
  <2>1. ASSUME NEW r \in Runs, Step(r) PROVE NamesInv'
    <3>1. \A q \in Runs \ {r} : override'[q] = override[q]
      BY <1>2, <2>1, StepFrames DEF StepFrame
    <3>2. ASSUME NEW q \in Runs, q # r PROVE OverridesNamed(q)'
      BY <1>2, <3>1, <3>2 DEF NamesInv, OverridesNamed, NamedFor
    <3>3. FilesNamed' /\ OverridesNamed(r)'
      BY <1>2, <2>1, StepFiles, StepOverrides DEF NamesInv
    <3> QED
      BY <3>2, <3>3 DEF NamesInv
  <2>2. ASSUME UNCHANGED <<host, override>> PROVE NamesInv'
    BY <1>2, <2>2 DEF NamesInv, FilesNamed, OverridesNamed, NamedFor
  <2>3. CASE UNCHANGED vars \/ (\E r \in Runs : Start(r)) \/ (\E d \in LocalDirs : Edit(d))
    BY <2>2, <2>3 DEF vars, Start, Edit, runVars
  <2> QED
    BY <1>2, <2>1, <2>3 DEF Next
<1> QED
  BY <1>1, <1>2

(* However many runs interleave, and whatever they do to the host, the      *)
(* inventory and the vault files a command names are never another run's,   *)
(* or another play's: writeInventory and uploadVaultPasswordOrIDFile draw a *)
(* uuid for each.                                                           *)
THEOREM FilesAreOwn == Spec => []OwnFiles
<1>1. TypeInv /\ NamesInv => OwnFiles
  <2> SUFFICES ASSUME TypeInv, NamesInv, NEW r \in Runs, pc[r] = "running",
                      NEW loc \in override[r][cur[r]].inventory \cup override[r][cur[r]].vault,
                      NEW f \in host.files, f.dir = loc.dir, f.name = loc.name
               PROVE  f.by = r /\ f.play = cur[r]
    BY DEF OwnFiles
  <2>1. cur[r] \in Index
    BY AtPlayFacts DEF AtPlay
  <2>2. NamedFor(loc, r, cur[r])
    BY <2>1 DEF NamesInv, OverridesNamed
  <2>3. WellNamed(f)
    BY DEF NamesInv, FilesNamed
  <2> QED
    BY <2>2, <2>3 DEF NamedFor, WellNamed
<1> QED
  BY <1>1, NamesInductive, TypeInductive, PTL DEF Spec
=============================================================================
