-------------------------- MODULE RemoteModeProofs --------------------------
(***************************************************************************)
(* Theorems about RemoteMode, for every value of its constants.            *)
(***************************************************************************)
EXTENDS RemoteMode, TLAPS

(* Where a run stands and which play and item it is at fit together. *)
AtPlay == {"mkdir", "check", "upload", "uploading", "inventory", "vault", "roles",
           "moduleDir", "rolesDir", "roleFile", "running"}
AtTarget == {"check", "upload", "uploading"}

ControlAt(r) ==
  /\ cur[r] >= 1
  /\ pc[r] \in AtPlay => cur[r] \in DOMAIN plays(r)
  /\ pc[r] \in AtPlay \ {"running"} => play(r).enabled
  /\ pc[r] \in AtTarget \cup {"roles"} => play(r).kind = "playbook"
  /\ pc[r] \in AtTarget /\ item[r] # 0 =>
       item[r] \in DOMAIN play(r).roles /\ play(r).roles[item[r]] \in LocalDirs
  /\ pc[r] \in {"vault", "roles"} => item[r] >= 1
  /\ pc[r] = "vault" \/ pc[r] = "inventory" => play(r).kind \in {"playbook", "module"}
  /\ pc[r] = "inventory" /\ play(r).kind = "playbook" => item[r] = 0
  /\ pc[r] = "moduleDir" => play(r).kind = "module"
  /\ pc[r] \in {"rolesDir", "roleFile"} => play(r).kind = "galaxy_install"
  /\ pc[r] = "mkdir" => play(r).kind \in {"playbook", "galaxy_install"} /\ item[r] = 0

Control == \A r \in Runs : ControlAt(r)

TypeInv == TypeOK /\ Control

-----------------------------------------------------------------------------
(* A play of the list is a play, and its directory is one of the host's.    *)
LEMMA PlayFacts ==
  ASSUME TypeOK, NEW r \in Runs, NEW i \in DOMAIN plays(r)
  PROVE  /\ i \in Index
         /\ plays(r)[i] \in Play
         /\ plays(r)[i].dir \in Dirs
         /\ plays(r)[i].kind = "playbook" => plays(r)[i].dir \in LocalDirs
         /\ plays(r)[i].kind # "playbook" => plays(r)[i].dir \in MadeDirs
         /\ Len(plays(r)) \in Nat
         /\ DOMAIN plays(r) = 1 .. Len(plays(r))
<1>1. plays(r) \in Playlists
  BY DEF TypeOK, Settings, plays
<1>2. DOMAIN plays(r) \in SUBSET Index /\ plays(r) \in Seq(Play)
  BY <1>1, RemoteAssumption
<1>3. plays(r)[i].kind = "playbook" <=> plays(r)[i].dir \in LocalDirs
  BY <1>1, RemoteAssumption
<1>4. plays(r)[i] \in Play /\ Len(plays(r)) \in Nat /\ DOMAIN plays(r) = 1 .. Len(plays(r))
  BY <1>2
<1> QED
  BY <1>2, <1>3, <1>4 DEF Play, Dirs

(* The operators on the host's file system keep it one. *)
LEMMA MakeDirType ==
  ASSUME NEW h \in Host, NEW d \in Dirs
  PROVE  MakeDir(h, d) \in Host
<1>1. MadeDir \in DirState /\ h.dirs \in [Dirs -> DirState]
  BY DEF MadeDir, DirState, Host
<1> QED
  BY <1>1 DEF Host, MakeDir

LEMMA StartUploadType ==
  ASSUME NEW h \in Host, NEW d \in Dirs, NEW r \in Runs, NEW v \in Nat
  PROVE  StartUpload(h, d, r, v) \in Host
BY DEF Host, StartUpload, DirState

LEMMA EndUploadType ==
  ASSUME NEW h \in Host, NEW d \in Dirs, NEW r \in Runs
  PROVE  EndUpload(h, d, r) \in Host
BY DEF Host, EndUpload, DirState

LEMMA PutFileType ==
  ASSUME NEW h \in Host, NEW f \in File
  PROVE  PutFile(h, f) \in Host
BY DEF Host, PutFile

LEMMA PutInstallerType ==
  ASSUME NEW h \in Host, NEW r \in Runs \cup {NoRun}
  PROVE  PutInstaller(h, r) \in Host
BY DEF Host, PutInstaller

LEMMA RemoveAllType ==
  ASSUME NEW h \in Host
  PROVE  RemoveAll(h) \in Host
<1>1. AbsentDir \in DirState
  BY DEF AbsentDir, DirState
<1> QED
  BY <1>1 DEF Host, RemoveAll

(* The directory of an upload is one UploadDir fills. *)
LEMMA TargetFacts ==
  ASSUME TypeInv, NEW r \in Runs, pc[r] \in AtTarget
  PROVE  Target(r) \in LocalDirs
<1>1. cur[r] \in DOMAIN plays(r) /\ play(r).kind = "playbook" /\ ControlAt(r)
  BY DEF TypeInv, Control, ControlAt, AtTarget, AtPlay
<1>2. play(r).dir \in LocalDirs
  BY <1>1, PlayFacts DEF TypeInv, play
<1> QED
  BY <1>1, <1>2 DEF Target, ControlAt

LEMMA VaultFacts ==
  ASSUME NEW p \in Play
  PROVE  VaultSources(p) \in Seq(Nat)
BY DEF VaultSources, Play

-----------------------------------------------------------------------------
(* A step of run r: it changes r's control state, and everything in type.   *)
StepOf(r) ==
  /\ pc' \in [Runs -> Labels] /\ cur' \in [Runs -> Nat] /\ item' \in [Runs -> Nat]
  /\ \A q \in Runs \ {r} : pc'[q] = pc[q] /\ cur'[q] = cur[q] /\ item'[q] = item[q]
  /\ override' \in [Runs -> [Index -> Override]]
  /\ host' \in Host /\ faults' \in Nat
  /\ installed' \in [Runs -> Runs \cup {NoRun}]
  /\ ran' \in [Runs -> SUBSET Index]
  /\ UNCHANGED envVars

LEMMA StepKeepsType ==
  ASSUME TypeInv, NEW r \in Runs, StepOf(r), ControlAt(r)'
  PROVE  TypeInv'
<1>1. TypeOK'
  <2>1. pc' \in [Runs -> Labels] /\ cur' \in [Runs -> Nat] /\ item' \in [Runs -> Nat]
    BY DEF TypeInv, TypeOK, StepOf
  <2>2. settings' \in [Runs -> Settings] /\ local' \in [LocalDirs -> Nat]
        /\ exclusive' \in [Runs -> BOOLEAN]
    BY Zenon DEF TypeInv, TypeOK, StepOf, envVars
  <2> QED
    BY <2>1, <2>2 DEF TypeOK, StepOf
<1>2. ASSUME NEW q \in Runs, q # r
      PROVE  ControlAt(q)'
  <2>1. pc'[q] = pc[q] /\ cur'[q] = cur[q] /\ item'[q] = item[q] /\ settings' = settings
    BY <1>2 DEF TypeInv, TypeOK, StepOf, envVars
  <2>2. ControlAt(q)
    BY DEF TypeInv, Control
  <2> QED
    BY <2>1, <2>2 DEF ControlAt, play, plays
<1> QED
  BY <1>1, <1>2 DEF TypeInv, Control

(* A step that leaves the run's own variables alone. *)
LEMMA SameRunVars ==
  ASSUME TypeInv, NEW r \in Runs, NEW l \in Labels, UNCHANGED runVars,
         pc' = [pc EXCEPT ![r] = l], host' \in Host, faults' \in Nat, UNCHANGED envVars
  PROVE  /\ StepOf(r)
         /\ pc'[r] = l /\ cur'[r] = cur[r] /\ item'[r] = item[r] /\ settings' = settings
BY DEF StepOf, TypeInv, TypeOK, runVars, envVars

(* A run that fails keeps everything but the host and the fault count. *)
LEMMA FailureKeepsType ==
  ASSUME TypeInv, NEW r \in Runs, pc' = [pc EXCEPT ![r] = "failed"],
         host' \in Host, faults' \in Nat, UNCHANGED <<runVars, envVars>>
  PROVE  TypeInv'
<1>1. StepOf(r)
  BY SameRunVars DEF Labels
<1>2. pc'[r] = "failed" /\ cur'[r] = cur[r] /\ ControlAt(r)
  BY DEF TypeInv, TypeOK, Control, runVars
<1>3. ControlAt(r)'
  BY <1>2 DEF ControlAt, AtPlay, AtTarget
<1> QED
  BY <1>1, <1>3, StepKeepsType

LEMMA ConnectType ==
  ASSUME TypeInv, NEW r \in Runs, retryFunc(r)
  PROVE  TypeInv'
<1>1. PICK l \in {"deploy", "failed", "retryWait", "connectLate", "connect"} :
        pc' = [pc EXCEPT ![r] = l]
  BY DEF retryFunc, Connect, TimerFires, RetryPause, Silently, Goto
<1>2. UNCHANGED runVars /\ UNCHANGED envVars /\ host' \in Host /\ faults' \in Nat
  BY DEF retryFunc, Connect, TimerFires, RetryPause, Silently, TypeInv, TypeOK
<1>3. StepOf(r) /\ pc'[r] = l /\ cur'[r] = cur[r]
  BY <1>1, <1>2, SameRunVars DEF Labels
<1>4. ControlAt(r)'
  BY <1>1, <1>3 DEF TypeInv, Control, ControlAt, AtPlay, AtTarget
<1> QED
  BY <1>3, <1>4, StepKeepsType

LEMMA DeployLoopType ==
  ASSUME TypeInv, NEW r \in Runs, DeployDone(r) \/ SkipDisabled(r) \/ DeployEntity(r)
  PROVE  TypeInv'
<1>1. StepOf(r)
  <2>1. CASE DeployDone(r)
    BY <2>1 DEF DeployDone, StepOf, Silently, Goto, TypeInv, TypeOK, Labels
  <2>2. CASE SkipDisabled(r)
    BY <2>2 DEF SkipDisabled, StepOf, Silently, Goto, TypeInv, TypeOK, Labels
  <2>3. CASE DeployEntity(r)
    BY <2>3 DEF DeployEntity, StepOf, Silently, Goto, TypeInv, TypeOK, Labels
  <2> QED
    BY <2>1, <2>2, <2>3
<1>2. ControlAt(r)'
  <2>1. ControlAt(r) /\ pc[r] = "deploy"
    BY DEF TypeInv, Control, DeployDone, SkipDisabled, DeployEntity
  <2>2. CASE DeployDone(r) \/ SkipDisabled(r)
    BY <2>1, <2>2 DEF DeployDone, SkipDisabled, Silently, Goto, TypeInv, TypeOK, ControlAt,
                      AtPlay, AtTarget
  <2>3. CASE DeployEntity(r)
    <3>1. cur[r] \in DOMAIN plays(r) /\ play(r) \in Play
      <4>1. cur[r] \in 1 .. Len(plays(r)) /\ plays(r) \in Seq(Play)
        BY <2>1, <2>3, RemoteAssumption
        DEF DeployEntity, ControlAt, TypeInv, TypeOK, Settings, plays
      <4> QED
        BY <4>1 DEF play
    <3>2. play(r)' = play(r) /\ plays(r)' = plays(r) /\ cur'[r] = cur[r] /\ item'[r] = 0
          /\ pc'[r] = IF play(r).kind = "module" THEN "moduleDir" ELSE "mkdir"
      BY <2>3 DEF DeployEntity, Silently, Goto, envVars, play, plays, TypeInv, TypeOK
    <3>3. play(r).enabled /\ play(r).kind \in {"playbook", "module", "galaxy_install"}
      BY <2>3, <3>1 DEF DeployEntity, Play
    <3> QED
      BY <2>1, <3>1, <3>2, <3>3 DEF ControlAt, AtPlay, AtTarget
  <2> QED
    BY <2>2, <2>3
<1> QED
  BY <1>1, <1>2, StepKeepsType

(* The record a step at a play works on, and its directory. *)
LEMMA AtPlayFacts ==
  ASSUME TypeInv, NEW r \in Runs, pc[r] \in AtPlay
  PROVE  /\ ControlAt(r)
         /\ cur[r] \in DOMAIN plays(r) /\ cur[r] \in Index /\ cur[r] \in Nat /\ item[r] \in Nat
         /\ play(r) \in Play /\ play(r).dir \in Dirs
         /\ play(r).kind # "playbook" => play(r).dir \in MadeDirs
<1>1. ControlAt(r) /\ cur[r] \in DOMAIN plays(r)
  BY DEF TypeInv, Control, ControlAt
<1> QED
  BY <1>1, PlayFacts DEF TypeInv, TypeOK, play

LEMMA MakeBootstrapType ==
  ASSUME TypeInv, NEW r \in Runs, MakeBootstrap(r)
  PROVE  TypeInv'
<1> DEFINE made == MakeDir(host, Bootstrap)
<1>1. made \in Host
  BY MakeDirType DEF TypeInv, TypeOK, Dirs
<1>2. CASE Fails(r, TRUE, made)
  <2>1. host' \in Host /\ faults' \in Nat
    BY <1>1, <1>2 DEF Fails, TypeInv, TypeOK
  <2> QED
    BY <1>2, <2>1, FailureKeepsType DEF Fails, Goto
<1>3. CASE /\ Succeeds(r, TRUE, made, IF play(r).kind = "playbook" THEN "check" ELSE "rolesDir")
           /\ UNCHANGED runVars
  <2>1. StepOf(r)
    <3>1. pc' = [pc EXCEPT ![r] = IF play(r).kind = "playbook" THEN "check" ELSE "rolesDir"]
      BY <1>3 DEF Succeeds, Goto
    <3>2. (IF play(r).kind = "playbook" THEN "check" ELSE "rolesDir") \in Labels
      BY DEF Labels
    <3>3. host' \in Host /\ faults' \in Nat /\ UNCHANGED envVars /\ UNCHANGED runVars
      BY <1>1, <1>3 DEF Succeeds, TypeInv, TypeOK
    <3> QED
      BY <3>1, <3>2, <3>3, SameRunVars
  <2>2. pc[r] = "mkdir" /\ pc[r] \in AtPlay
    BY DEF MakeBootstrap, AtPlay
  <2>3. /\ pc'[r] = IF play(r).kind = "playbook" THEN "check" ELSE "rolesDir"
        /\ cur'[r] = cur[r] /\ item'[r] = item[r] /\ settings' = settings
    BY <1>3 DEF Succeeds, Goto, TypeInv, TypeOK, runVars, envVars
  <2>4. ControlAt(r)'
    BY <2>2, <2>3, AtPlayFacts DEF ControlAt, AtPlay, AtTarget, play, plays
  <2> QED
    BY <2>1, <2>4, StepKeepsType
<1> QED
  BY <1>2, <1>3 DEF MakeBootstrap

(* The end of an upload, or finding it unnecessary, sets one override. *)
LEMMA TakeTargetType ==
  ASSUME TypeInv, NEW r \in Runs, pc[r] \in AtTarget, TakeTarget(r),
         pc' = [pc EXCEPT ![r] = AfterTarget(r)],
         host' \in Host, faults' \in Nat, UNCHANGED envVars
  PROVE  TypeInv'
<1>1. pc[r] \in AtPlay
  BY DEF AtTarget, AtPlay
<1>2. Target(r) \in LocalDirs
  BY TargetFacts
<1>3. override' \in [Runs -> [Index -> Override]]
  <2>1. cur[r] \in Index /\ override[r][cur[r]] \in Override
    BY <1>1, AtPlayFacts DEF TypeInv, TypeOK
  <2>2. [override[r][cur[r]] EXCEPT !.file = TRUE] \in Override
    BY <2>1 DEF Override
  <2>3. [override[r][cur[r]] EXCEPT !.roles = @ \cup {Target(r)}] \in Override
    BY <1>2, <2>1 DEF Override
  <2>4. CASE item[r] = 0
    <3>1. override' = [override EXCEPT ![r][cur[r]].file = TRUE]
      BY <2>4 DEF TakeTarget
    <3> QED
      BY <2>1, <2>2, <3>1 DEF TypeInv, TypeOK
  <2>5. CASE item[r] # 0
    <3>1. override' = [override EXCEPT ![r][cur[r]].roles = @ \cup {Target(r)}]
      BY <2>5 DEF TakeTarget
    <3> QED
      BY <2>1, <2>3, <3>1 DEF TypeInv, TypeOK
  <2> QED
    BY <2>4, <2>5
<1>4. StepOf(r)
  <2>1. AfterTarget(r) \in Labels
    BY DEF AfterTarget, Labels
  <2>2. item' \in [Runs -> Nat] /\ \A q \in Runs \ {r} : item'[q] = item[q]
    BY DEF TypeInv, TypeOK, TakeTarget
  <2>3. pc' \in [Runs -> Labels] /\ \A q \in Runs \ {r} : pc'[q] = pc[q]
    BY <2>1 DEF TypeInv, TypeOK
  <2> QED
    BY <1>3, <2>2, <2>3 DEF StepOf, TypeInv, TypeOK, TakeTarget
<1>5. ControlAt(r)'
  <2>1. /\ pc'[r] = AfterTarget(r) /\ cur'[r] = cur[r] /\ settings' = settings
        /\ item'[r] = IF item[r] = 0 THEN 0 ELSE item[r] + 1
    BY DEF TakeTarget, TypeInv, TypeOK, envVars
  <2>2. plays(r)' = plays(r) /\ play(r)' = play(r)
    BY <2>1 DEF plays, play
  <2>3. pc[r] \in AtTarget => play(r).kind = "playbook"
    BY AtPlayFacts DEF ControlAt, AtPlay, AtTarget
  <2> QED
    BY <1>1, <2>1, <2>2, <2>3, AtPlayFacts DEF ControlAt, AfterTarget, AtPlay, AtTarget
<1> QED
  BY <1>4, <1>5, StepKeepsType

LEMMA CheckDirType ==
  ASSUME TypeInv, NEW r \in Runs, CheckDir(r)
  PROVE  TypeInv'
<1>1. pc[r] = "check" /\ pc[r] \in AtTarget /\ pc[r] \in AtPlay
  BY DEF CheckDir, AtTarget, AtPlay
<1>2. CASE Succeeds(r, TRUE, host, AfterTarget(r)) /\ TakeTarget(r)
  BY <1>1, <1>2, TakeTargetType DEF Succeeds, Goto, TypeInv, TypeOK
<1>3. CASE Succeeds(r, TRUE, host, "upload") /\ UNCHANGED runVars
  <2>1. StepOf(r)
    BY <1>3 DEF StepOf, Succeeds, Goto, TypeInv, TypeOK, runVars, Labels
  <2>2. /\ pc'[r] = "upload"
        /\ cur'[r] = cur[r] /\ item'[r] = item[r] /\ settings' = settings
    BY <1>3 DEF Succeeds, Goto, TypeInv, TypeOK, runVars, envVars
  <2>3. ControlAt(r)'
    BY <1>1, <2>2, AtPlayFacts DEF ControlAt, AtPlay, AtTarget, play, plays
  <2> QED
    BY <2>1, <2>3, StepKeepsType
<1>4. CASE Fails(r, TRUE, host)
  <2>1. host' \in Host /\ faults' \in Nat
    BY <1>4 DEF Fails, TypeInv, TypeOK
  <2> QED
    BY <1>4, <2>1, FailureKeepsType DEF Fails, Goto
<1> QED
  BY <1>2, <1>3, <1>4 DEF CheckDir

LEMMA BeginUploadType ==
  ASSUME TypeInv, NEW r \in Runs, BeginUpload(r)
  PROVE  TypeInv'
<1> DEFINE begun == StartUpload(host, Target(r), r, local[Target(r)])
<1>1. pc[r] = "upload" /\ pc[r] \in AtTarget /\ pc[r] \in AtPlay
  BY DEF BeginUpload, AtTarget, AtPlay
<1>2. begun \in Host
  <2>1. Target(r) \in LocalDirs /\ Target(r) \in Dirs
    BY <1>1, TargetFacts DEF Dirs
  <2>2. local[Target(r)] \in Nat
    BY <2>1 DEF TypeInv, TypeOK
  <2> QED
    BY <2>1, <2>2, StartUploadType DEF TypeInv, TypeOK
<1>3. CASE Succeeds(r, Exists(host, Bootstrap), begun, "uploading") /\ UNCHANGED runVars
  <2>1. StepOf(r)
    BY <1>2, <1>3 DEF StepOf, Succeeds, Goto, TypeInv, TypeOK, runVars, Labels
  <2>2. /\ pc'[r] = "uploading"
        /\ cur'[r] = cur[r] /\ item'[r] = item[r] /\ settings' = settings
    BY <1>3 DEF Succeeds, Goto, TypeInv, TypeOK, runVars, envVars
  <2>3. ControlAt(r)'
    BY <1>1, <2>2, AtPlayFacts DEF ControlAt, AtPlay, AtTarget, play, plays
  <2> QED
    BY <2>1, <2>3, StepKeepsType
<1>4. CASE Fails(r, Exists(host, Bootstrap), begun)
  <2>1. host' \in Host /\ faults' \in Nat
    BY <1>2, <1>4 DEF Fails, TypeInv, TypeOK
  <2> QED
    BY <1>4, <2>1, FailureKeepsType DEF Fails, Goto
<1> QED
  BY <1>3, <1>4 DEF BeginUpload

LEMMA FinishUploadType ==
  ASSUME TypeInv, NEW r \in Runs, FinishUpload(r)
  PROVE  TypeInv'
<1> DEFINE ended == EndUpload(host, Target(r), r)
<1>1. pc[r] = "uploading" /\ pc[r] \in AtTarget /\ pc[r] \in AtPlay
  BY DEF FinishUpload, AtTarget, AtPlay
<1>2. ended \in Host
  <2>1. Target(r) \in LocalDirs /\ Target(r) \in Dirs
    BY <1>1, TargetFacts DEF Dirs
  <2> QED
    BY <2>1, EndUploadType DEF TypeInv, TypeOK
<1>3. CASE /\ Succeeds(r, Exists(host, Target(r)), ended, AfterTarget(r))
           /\ TakeTarget(r)
  BY <1>1, <1>2, <1>3, TakeTargetType DEF Succeeds, Goto, TypeInv, TypeOK
<1>4. CASE Fails(r, Exists(host, Target(r)), host)
  <2>1. host' \in Host /\ faults' \in Nat
    BY <1>4 DEF Fails, TypeInv, TypeOK
  <2> QED
    BY <1>4, <2>1, FailureKeepsType DEF Fails, Goto
<1> QED
  BY <1>3, <1>4 DEF FinishUpload

LEMMA WriteInventoryType ==
  ASSUME TypeInv, NEW r \in Runs, WriteInventory(r)
  PROVE  TypeInv'
<1> DEFINE loc == [dir |-> play(r).dir, name |-> FreshName(r, cur[r], "inventory", 0)]
           put == PutFile(host, FileAt(loc, r, cur[r]))
           last == play(r).kind = "module"
<1>1. pc[r] = "inventory" /\ pc[r] \in AtPlay
  BY DEF WriteInventory, AtPlay
<1>2. loc \in Loc /\ FileAt(loc, r, cur[r]) \in File
  BY <1>1, AtPlayFacts DEF FreshName, FileAt, Loc, File, Name
<1>3. put \in Host
  BY <1>2, PutFileType DEF TypeInv, TypeOK
<1>4. CASE /\ Succeeds(r, Exists(host, loc.dir), put, IF last THEN "deploy" ELSE "vault")
           /\ override' = [override EXCEPT ![r][cur[r]].inventory = {loc}]
           /\ item' = [item EXCEPT ![r] = IF last THEN 0 ELSE 1]
           /\ cur' = [cur EXCEPT ![r] = IF last THEN @ + 1 ELSE @]
           /\ UNCHANGED <<installed, ran>>
  <2>1. override' \in [Runs -> [Index -> Override]]
    <3>1. cur[r] \in Index /\ override[r][cur[r]] \in Override
      BY <1>1, AtPlayFacts DEF TypeInv, TypeOK
    <3>2. [override[r][cur[r]] EXCEPT !.inventory = {loc}] \in Override
      BY <1>2, <3>1 DEF Override
    <3> HIDE DEF loc
    <3> QED
      BY <1>4, <3>1, <3>2 DEF TypeInv, TypeOK
  <2>2. /\ pc' = [pc EXCEPT ![r] = IF last THEN "deploy" ELSE "vault"]
        /\ host' = put /\ UNCHANGED faults /\ UNCHANGED envVars
    BY <1>4 DEF Succeeds, Goto
  <2>3. StepOf(r)
    <3>1. (IF last THEN "deploy" ELSE "vault") \in Labels
      BY DEF Labels
    <3>2. (IF last THEN 0 ELSE 1) \in Nat /\ (IF last THEN cur[r] + 1 ELSE cur[r]) \in Nat
      BY DEF TypeInv, TypeOK
    <3> HIDE DEF loc, put, last
    <3>3. host' \in Host /\ faults' \in Nat
      BY <1>3, <2>2 DEF TypeInv, TypeOK
    <3> QED
      BY <1>4, <2>1, <2>2, <3>1, <3>2, <3>3 DEF StepOf, TypeInv, TypeOK
  <2>4. /\ pc'[r] = IF last THEN "deploy" ELSE "vault"
        /\ cur'[r] = IF last THEN cur[r] + 1 ELSE cur[r]
        /\ item'[r] = IF last THEN 0 ELSE 1
        /\ settings' = settings
    BY <1>4, <2>2 DEF TypeInv, TypeOK, envVars
  <2>5. ControlAt(r)'
    <3>1. plays(r)' = plays(r)
      BY <2>4 DEF plays
    <3> HIDE DEF loc, put
    <3>2. CASE last
      BY <1>1, <2>4, <3>1, <3>2, AtPlayFacts DEF ControlAt, AtPlay, AtTarget
    <3>3. CASE ~last
      <4>1. pc'[r] = "vault" /\ cur'[r] = cur[r] /\ item'[r] = 1 /\ play(r)' = play(r)
        BY <2>4, <3>1, <3>3 DEF play
      <4> QED
        BY <1>1, <3>1, <4>1, AtPlayFacts DEF ControlAt, AtPlay, AtTarget
    <3> QED
      BY <3>2, <3>3
  <2> QED
    BY <2>3, <2>5, StepKeepsType
<1>5. CASE Fails(r, Exists(host, loc.dir), put)
  <2>1. host' \in Host /\ faults' \in Nat
    BY <1>3, <1>5 DEF Fails, TypeInv, TypeOK
  <2> QED
    BY <1>5, <2>1, FailureKeepsType DEF Fails, Goto
<1> QED
  BY <1>4, <1>5 DEF WriteInventory

LEMMA UploadVaultType ==
  ASSUME TypeInv, NEW r \in Runs, UploadVault(r)
  PROVE  TypeInv'
<1> DEFINE loc == [dir |-> play(r).dir, name |-> FreshName(r, cur[r], "vault", item[r])]
           put == PutFile(host, FileAt(loc, r, cur[r]))
<1>1. pc[r] = "vault" /\ pc[r] \in AtPlay
  BY DEF UploadVault, AtPlay
<1>2. loc \in Loc /\ FileAt(loc, r, cur[r]) \in File
  BY <1>1, AtPlayFacts DEF FreshName, FileAt, Loc, File, Name
<1>3. put \in Host
  BY <1>2, PutFileType DEF TypeInv, TypeOK
<1>4. CASE /\ Succeeds(r, Exists(host, loc.dir), put, "vault")
           /\ override' = [override EXCEPT ![r][cur[r]].vault = @ \cup {loc}]
           /\ item' = [item EXCEPT ![r] = @ + 1]
           /\ UNCHANGED <<cur, installed, ran>>
  <2>1. override' \in [Runs -> [Index -> Override]]
    <3>1. cur[r] \in Index /\ override[r][cur[r]] \in Override
      BY <1>1, AtPlayFacts DEF TypeInv, TypeOK
    <3>2. [override[r][cur[r]] EXCEPT !.vault = @ \cup {loc}] \in Override
      BY <1>2, <3>1 DEF Override
    <3> HIDE DEF loc
    <3> QED
      BY <1>4, <3>1, <3>2 DEF TypeInv, TypeOK
  <2>2. pc' = [pc EXCEPT ![r] = "vault"] /\ host' = put /\ UNCHANGED faults /\ UNCHANGED envVars
    BY <1>4 DEF Succeeds, Goto
  <2>3. StepOf(r)
    <3> HIDE DEF loc, put
    <3>1. host' \in Host /\ faults' \in Nat /\ "vault" \in Labels
      BY <1>3, <2>2 DEF TypeInv, TypeOK, Labels
    <3> QED
      BY <1>4, <2>1, <2>2, <3>1 DEF StepOf, TypeInv, TypeOK
  <2>4. pc'[r] = "vault" /\ cur'[r] = cur[r] /\ item'[r] = item[r] + 1 /\ settings' = settings
    BY <1>4, <2>2 DEF TypeInv, TypeOK, envVars
  <2>5. ControlAt(r)'
    BY <1>1, <2>4, AtPlayFacts DEF ControlAt, AtPlay, AtTarget, play, plays
  <2> QED
    BY <2>3, <2>5, StepKeepsType
<1>5. CASE Fails(r, Exists(host, loc.dir), put)
  <2>1. host' \in Host /\ faults' \in Nat
    BY <1>3, <1>5 DEF Fails, TypeInv, TypeOK
  <2> QED
    BY <1>5, <2>1, FailureKeepsType DEF Fails, Goto
<1> QED
  BY <1>4, <1>5 DEF UploadVault

LEMMA UploadRoleFileType ==
  ASSUME TypeInv, NEW r \in Runs, UploadRoleFile(r)
  PROVE  TypeInv'
<1> DEFINE loc == [dir |-> Bootstrap, name |-> RoleFileName(play(r))]
           put == PutFile(host, FileAt(loc, r, 0))
<1>1. pc[r] = "roleFile" /\ pc[r] \in AtPlay
  BY DEF UploadRoleFile, AtPlay
<1>2. loc \in Loc /\ FileAt(loc, r, 0) \in File
  BY <1>1, AtPlayFacts DEF RoleFileName, FileAt, Loc, File, Name, Play, Dirs
<1>3. put \in Host
  BY <1>2, PutFileType DEF TypeInv, TypeOK
<1>4. CASE /\ Succeeds(r, Exists(host, Bootstrap), put, "deploy")
           /\ override' = [override EXCEPT ![r][cur[r]].roleFile = {loc}]
           /\ cur' = [cur EXCEPT ![r] = @ + 1]
           /\ UNCHANGED <<item, installed, ran>>
  <2>1. override' \in [Runs -> [Index -> Override]]
    <3>1. cur[r] \in Index /\ override[r][cur[r]] \in Override
      BY <1>1, AtPlayFacts DEF TypeInv, TypeOK
    <3>2. [override[r][cur[r]] EXCEPT !.roleFile = {loc}] \in Override
      BY <1>2, <3>1 DEF Override
    <3> HIDE DEF loc
    <3> QED
      BY <1>4, <3>1, <3>2 DEF TypeInv, TypeOK
  <2>2. pc' = [pc EXCEPT ![r] = "deploy"] /\ host' = put /\ UNCHANGED faults /\ UNCHANGED envVars
    BY <1>4 DEF Succeeds, Goto
  <2>3. StepOf(r)
    <3> HIDE DEF loc, put
    <3>1. host' \in Host /\ faults' \in Nat /\ "deploy" \in Labels
      BY <1>3, <2>2 DEF TypeInv, TypeOK, Labels
    <3> QED
      BY <1>4, <2>1, <2>2, <3>1 DEF StepOf, TypeInv, TypeOK
  <2>4. pc'[r] = "deploy" /\ cur'[r] = cur[r] + 1
    BY <1>4, <2>2 DEF TypeInv, TypeOK
  <2>5. ControlAt(r)'
    BY <1>1, <2>4, AtPlayFacts DEF ControlAt, AtPlay, AtTarget
  <2> QED
    BY <2>3, <2>5, StepKeepsType
<1>5. CASE Fails(r, Exists(host, Bootstrap), put)
  <2>1. host' \in Host /\ faults' \in Nat
    BY <1>3, <1>5 DEF Fails, TypeInv, TypeOK
  <2> QED
    BY <1>5, <2>1, FailureKeepsType DEF Fails, Goto
<1> QED
  BY <1>4, <1>5 DEF UploadRoleFile

(* The steps of the loops over vault files and roles. *)
LEMMA LoopType ==
  ASSUME TypeInv, NEW r \in Runs,
         SkipVault(r) \/ VaultDone(r) \/ NextRole(r) \/ RolesDone(r)
  PROVE  TypeInv'
<1>1. pc[r] \in {"vault", "roles"} /\ pc[r] \in AtPlay
  BY DEF SkipVault, VaultDone, NextRole, RolesDone, AtPlay
<1>2. ControlAt(r) /\ play(r) \in Play /\ cur[r] \in DOMAIN plays(r) /\ item[r] >= 1
  BY <1>1, AtPlayFacts DEF ControlAt
<1>3. host' = host /\ faults' = faults /\ UNCHANGED envVars /\ settings' = settings
  BY DEF SkipVault, VaultDone, NextRole, RolesDone, Silently, envVars
<1>4. CASE SkipVault(r)
  <2>1. StepOf(r)
    BY <1>4 DEF SkipVault, StepOf, Silently, Goto, TypeInv, TypeOK, Labels
  <2>2. pc'[r] = "vault" /\ cur'[r] = cur[r] /\ item'[r] = item[r] + 1
    BY <1>4 DEF SkipVault, Silently, Goto, TypeInv, TypeOK
  <2>3. ControlAt(r)'
    BY <1>2, <1>3, <1>4, <2>2 DEF SkipVault, TypeInv, TypeOK, ControlAt, AtPlay, AtTarget, play, plays
  <2> QED
    BY <2>1, <2>3, StepKeepsType
<1>5. CASE VaultDone(r)
  <2>1. StepOf(r)
    BY <1>5 DEF VaultDone, StepOf, Silently, Goto, TypeInv, TypeOK, Labels
  <2>2. /\ pc'[r] = IF play(r).kind = "module" THEN "inventory" ELSE "roles"
        /\ cur'[r] = cur[r] /\ item'[r] = 1
    BY <1>5 DEF VaultDone, Silently, Goto, TypeInv, TypeOK
  <2>3. ControlAt(r)'
    <3>1. pc[r] = "vault" /\ plays(r)' = plays(r) /\ play(r)' = play(r)
      BY <1>5, <2>2 DEF VaultDone, Silently, envVars, plays, play
    <3> QED
      BY <1>2, <1>3, <2>2, <3>1 DEF ControlAt, AtPlay, AtTarget
  <2> QED
    BY <2>1, <2>3, StepKeepsType
<1>6. CASE RolesDone(r)
  <2>1. StepOf(r)
    BY <1>6 DEF RolesDone, StepOf, Silently, Goto, TypeInv, TypeOK, Labels
  <2>2. pc'[r] = "deploy" /\ cur'[r] = cur[r] + 1
    BY <1>6 DEF RolesDone, Silently, Goto, TypeInv, TypeOK
  <2>3. ControlAt(r)'
    BY <1>2, <2>2 DEF TypeInv, TypeOK, ControlAt, AtPlay, AtTarget
  <2> QED
    BY <2>1, <2>3, StepKeepsType
<1>7. CASE NextRole(r)
  <2>1. play(r).roles \in Seq(LocalDirs \cup {GalaxyRole}) /\ item[r] \in Nat
    BY <1>2 DEF Play, TypeInv, TypeOK
  <2>2. item[r] \in DOMAIN play(r).roles /\ play(r).roles[item[r]] \in LocalDirs \cup {GalaxyRole}
    BY <1>2, <1>7, <2>1 DEF NextRole
  <2>3. CASE /\ play(r).roles[item[r]] = GalaxyRole
             /\ Silently(r, "roles") /\ item' = [item EXCEPT ![r] = @ + 1]
             /\ UNCHANGED <<cur, override, installed, ran>>
    <3>1. StepOf(r)
      BY <2>3 DEF StepOf, Silently, Goto, TypeInv, TypeOK, Labels
    <3>2. pc'[r] = "roles" /\ cur'[r] = cur[r] /\ item'[r] = item[r] + 1
      BY <2>3 DEF Silently, Goto, TypeInv, TypeOK
    <3>3. pc[r] = "roles"
      BY <1>7 DEF NextRole
    <3>4. ControlAt(r)'
      BY <1>2, <1>3, <3>2, <3>3, <2>1 DEF ControlAt, AtPlay, AtTarget, play, plays
    <3> QED
      BY <3>1, <3>4, StepKeepsType
  <2>4. CASE /\ play(r).roles[item[r]] # GalaxyRole
             /\ Silently(r, "check") /\ UNCHANGED runVars
    <3>1. /\ StepOf(r)
          /\ pc'[r] = "check" /\ cur'[r] = cur[r] /\ item'[r] = item[r]
      BY <1>3, <2>4, SameRunVars DEF Silently, Goto, TypeInv, TypeOK, Labels
    <3>2. pc[r] = "roles"
      BY <1>7 DEF NextRole
    <3>3. ControlAt(r)'
      BY <1>2, <1>3, <2>2, <2>4, <3>1, <3>2 DEF ControlAt, AtPlay, AtTarget, play, plays
    <3> QED
      BY <3>1, <3>3, StepKeepsType
  <2> QED
    BY <1>7, <2>3, <2>4 DEF NextRole
<1> QED
  BY <1>4, <1>5, <1>6, <1>7

LEMMA MadeDirType ==
  ASSUME TypeInv, NEW r \in Runs, MakeModuleDir(r) \/ MakeRolesDir(r)
  PROVE  TypeInv'
<1> DEFINE made == MakeDir(host, play(r).dir)
<1>1. pc[r] \in {"moduleDir", "rolesDir"} /\ pc[r] \in AtPlay
  BY DEF MakeModuleDir, MakeRolesDir, AtPlay
<1>2. ControlAt(r) /\ play(r).dir \in Dirs
  BY <1>1, AtPlayFacts
<1>3. made \in Host
  BY <1>2, MakeDirType DEF TypeInv, TypeOK
<1>4. CASE Fails(r, TRUE, made)
  <2>1. host' \in Host /\ faults' \in Nat
    BY <1>3, <1>4 DEF Fails, TypeInv, TypeOK
  <2> QED
    BY <1>4, <2>1, FailureKeepsType DEF Fails, Goto
<1>5. CASE /\ pc[r] = "moduleDir" /\ Succeeds(r, TRUE, made, "vault")
           /\ item' = [item EXCEPT ![r] = 1] /\ UNCHANGED <<cur, override, installed, ran>>
  <2>1. StepOf(r)
    BY <1>3, <1>5 DEF StepOf, Succeeds, Goto, TypeInv, TypeOK, Labels
  <2>2. pc'[r] = "vault" /\ cur'[r] = cur[r] /\ item'[r] = 1 /\ settings' = settings
    BY <1>5 DEF Succeeds, Goto, TypeInv, TypeOK, envVars
  <2>3. ControlAt(r)'
    BY <1>2, <1>5, <2>2 DEF ControlAt, AtPlay, AtTarget, play, plays
  <2> QED
    BY <2>1, <2>3, StepKeepsType
<1>6. CASE pc[r] = "rolesDir" /\ Succeeds(r, TRUE, made, "roleFile") /\ UNCHANGED runVars
  <2>1. /\ StepOf(r) /\ settings' = settings
        /\ pc'[r] = "roleFile" /\ cur'[r] = cur[r] /\ item'[r] = item[r]
    BY <1>3, <1>6, SameRunVars DEF Succeeds, Goto, TypeInv, TypeOK, Labels
  <2>2. ControlAt(r)'
    BY <1>2, <1>6, <2>1 DEF ControlAt, AtPlay, AtTarget, play, plays
  <2> QED
    BY <2>1, <2>2, StepKeepsType
<1> QED
  BY <1>4, <1>5, <1>6 DEF MakeModuleDir, MakeRolesDir

LEMMA InstallType ==
  ASSUME TypeInv, NEW r \in Runs, Install(r)
  PROVE  TypeInv'
<1>1. PutInstaller(host, r) \in Host /\ PutInstaller(host, NoRun) \in Host
  BY PutInstallerType DEF TypeInv, TypeOK
<1>2. CASE pc'[r] = "failed"
  <2>1. /\ pc' = [pc EXCEPT ![r] = "failed"] /\ host' \in Host /\ faults' \in Nat
        /\ UNCHANGED <<runVars, envVars>>
    BY <1>1, <1>2 DEF Install, InstallDir, InstallUpload, InstallRun, Fails, Succeeds, Goto,
                      TypeInv, TypeOK
  <2> QED
    BY <2>1, FailureKeepsType
<1>3. CASE pc'[r] # "failed"
  <2>2. \/ Succeeds(r, TRUE, host, "installUpload") /\ UNCHANGED runVars
        \/ Succeeds(r, TRUE, PutInstaller(host, r), "installRun") /\ UNCHANGED runVars
        \/ /\ Succeeds(r, host.installer # NoRun, PutInstaller(host, NoRun), "play")
           /\ installed' = [installed EXCEPT ![r] = host.installer]
           /\ UNCHANGED <<cur, item, override, ran>>
    BY <1>3 DEF Install, InstallDir, InstallUpload, InstallRun, Fails, Goto, TypeInv, TypeOK
  <2>3. StepOf(r)
    <3>1. host.installer \in Runs \cup {NoRun}
      BY DEF TypeInv, TypeOK, Host
    <3>2. \E l \in Labels : pc' = [pc EXCEPT ![r] = l]
      BY <2>2 DEF Succeeds, Goto, Labels
    <3> QED
      BY <1>1, <2>2, <3>1, <3>2 DEF StepOf, Succeeds, TypeInv, TypeOK, runVars
  <2>4. pc'[r] \in {"installUpload", "installRun", "play"} /\ cur'[r] = cur[r]
    BY <2>2 DEF Succeeds, Goto, TypeInv, TypeOK, runVars
  <2>5. ControlAt(r)'
    BY <2>4 DEF TypeInv, Control, ControlAt, AtPlay, AtTarget
  <2> QED
    BY <2>3, <2>5, StepKeepsType
<1> QED
  BY <1>2, <1>3

LEMMA ProvisionType ==
  ASSUME TypeInv, NEW r \in Runs, Provision(r)
  PROVE  TypeInv'
<1>1. ControlAt(r) /\ cur[r] \in Nat
  BY DEF TypeInv, TypeOK, Control
<1>2. CASE ExecutePlay(r) /\ Silently(r, "running") /\ UNCHANGED runVars
  <2>1. /\ StepOf(r) /\ settings' = settings
        /\ pc'[r] = "running" /\ cur'[r] = cur[r] /\ item'[r] = item[r]
    BY <1>2, SameRunVars DEF ExecutePlay, Silently, Goto, TypeInv, TypeOK, Labels
  <2>2. cur[r] \in DOMAIN plays(r)
    <3>1. plays(r) \in Seq(Play)
      BY RemoteAssumption DEF TypeInv, TypeOK, Settings, plays
    <3> QED
      BY <1>1, <1>2, <3>1 DEF ExecutePlay, ControlAt
  <2>3. ControlAt(r)'
    BY <1>1, <2>1, <2>2 DEF ControlAt, AtPlay, AtTarget, play, plays
  <2> QED
    BY <2>1, <2>3, StepKeepsType
<1>5. CASE Fails(r, TRUE, host)
  <2>1. host' \in Host /\ faults' \in Nat
    BY <1>5 DEF Fails, TypeInv, TypeOK
  <2> QED
    BY <1>5, <2>1, FailureKeepsType DEF Fails, Goto
<1>3. CASE PlayEnds(r)
  <2> DEFINE runs == /\ \A loc \in References(r) : Holds(host, loc)
                     /\ \A d \in Directories(r) : Exists(host, d)
  <2>1. CASE Fails(r, runs, host)
    <3> HIDE DEF runs
    <3>1. host' \in Host /\ faults' \in Nat
      BY <2>1 DEF Fails, TypeInv, TypeOK
    <3> QED
      BY <2>1, <3>1, FailureKeepsType DEF Fails, Goto
  <2>2. CASE /\ Succeeds(r, runs, host, "play")
             /\ cur' = [cur EXCEPT ![r] = @ + 1] /\ ran' = [ran EXCEPT ![r] = @ \cup {cur[r]}]
             /\ UNCHANGED <<item, override, installed>>
    <3> HIDE DEF runs
    <3>1. cur[r] \in Index
      BY <1>3, AtPlayFacts DEF PlayEnds, AtPlay
    <3>3. StepOf(r)
      BY <1>1, <2>2, <3>1 DEF StepOf, Succeeds, Goto, TypeInv, TypeOK, Labels
    <3>4. pc'[r] = "play" /\ cur'[r] = cur[r] + 1
      BY <2>2 DEF Succeeds, Goto, TypeInv, TypeOK
    <3>5. ControlAt(r)'
      BY <1>1, <3>4 DEF ControlAt, AtPlay, AtTarget
    <3> QED
      BY <3>3, <3>5, StepKeepsType
  <2> QED
    BY <1>3, <2>1, <2>2 DEF PlayEnds
<1>4. CASE PlaysDone(r) \/ Cleanup(r)
  <2>1. RemoveAll(host) \in Host
    BY RemoveAllType DEF TypeInv, TypeOK
  <2>2. PICK l \in {"cleanup", "done"} : pc' = [pc EXCEPT ![r] = l]
    BY <1>4 DEF PlaysDone, Cleanup, Silently, Succeeds, Goto
  <2>3. host' \in Host /\ faults' \in Nat /\ UNCHANGED runVars /\ UNCHANGED envVars
    BY <1>4, <2>1 DEF PlaysDone, Cleanup, Silently, Succeeds, TypeInv, TypeOK
  <2>4. StepOf(r) /\ pc'[r] = l /\ cur'[r] = cur[r]
    BY <2>2, <2>3, SameRunVars DEF Labels
  <2>5. ControlAt(r)'
    BY <1>1, <2>4 DEF ControlAt, AtPlay, AtTarget
  <2> QED
    BY <2>4, <2>5, StepKeepsType
<1> QED
  BY <1>2, <1>3, <1>4, <1>5 DEF Provision, ExecutePlay

LEMMA StartType ==
  ASSUME TypeInv, NEW r \in Runs, Start(r)
  PROVE  TypeInv'
<1>1. TypeOK'
  <2>1. exclusive' \in [Runs -> BOOLEAN]
    BY Zenon DEF Start, Clean
  <2> QED
    BY <2>1 DEF Start, Goto, TypeInv, TypeOK, runVars, Labels
<1>2. ASSUME NEW q \in Runs
      PROVE  ControlAt(q)'
  <2>1. cur'[q] = cur[q] /\ item'[q] = item[q] /\ settings' = settings
        /\ (pc'[q] = pc[q] \/ pc'[q] = "connect")
    BY DEF Start, Goto, TypeInv, TypeOK, runVars
  <2>2. ControlAt(q)
    BY DEF TypeInv, Control
  <2> QED
    BY <2>1, <2>2 DEF ControlAt, AtPlay, AtTarget, play, plays
<1> QED
  BY <1>1, <1>2 DEF TypeInv, Control

LEMMA EditType ==
  ASSUME TypeInv, NEW d \in LocalDirs, Edit(d)
  PROVE  TypeInv'
<1>1. TypeOK'
  BY DEF Edit, TypeInv, TypeOK, runVars
<1>2. Control'
  BY DEF Edit, TypeInv, Control, ControlAt, runVars, play, plays
<1> QED
  BY <1>1, <1>2 DEF TypeInv

-----------------------------------------------------------------------------
(* Every state of remote mode has its type, and every run is at a play of   *)
(* its list, of the kind and with the item its next operation needs: no     *)
(* step of mode_remote.go indexes outside the plays, roles or vault files.  *)
LEMMA TypeInductive ==
  /\ Init => TypeInv
  /\ TypeInv /\ [Next]_vars => TypeInv'
<1>1. ASSUME Init PROVE TypeInv
  <2>1. host \in Host
    BY <1>1 DEF Init, EmptyHost, Host, AbsentDir, DirState
  <2>2. override \in [Runs -> [Index -> Override]]
    BY <1>1 DEF Init, NoOverride, Override
  <2>3. TypeOK
    BY <1>1, <2>1, <2>2 DEF Init, TypeOK, Labels
  <2>4. ASSUME NEW r \in Runs PROVE ControlAt(r)
    <3>1. pc[r] = "idle" /\ cur[r] = 1
      BY <1>1 DEF Init
    <3> QED
      BY <3>1 DEF ControlAt, AtPlay, AtTarget
  <2> QED
    BY <2>3, <2>4 DEF TypeInv, Control
<1>2. ASSUME TypeInv, [Next]_vars PROVE TypeInv'
  <2>1. CASE UNCHANGED vars
    BY <1>2, <2>1 DEF vars, TypeInv, TypeOK, Control, ControlAt, play, plays
  <2>2. ASSUME NEW r \in Runs, Step(r) PROVE TypeInv'
    BY <1>2, <2>2, ConnectType, DeployLoopType, MakeBootstrapType, CheckDirType,
       BeginUploadType, FinishUploadType, WriteInventoryType, UploadVaultType, LoopType,
       MadeDirType, UploadRoleFileType, InstallType, ProvisionType
    DEF Step, Deploy
  <2> QED
    BY <1>2, <2>1, <2>2, StartType, EditType DEF Next
<1> QED
  BY <1>1, <1>2

(* Whatever the runs and the plays, the state keeps its types. *)
THEOREM TypeCorrect == Spec => []TypeOK
<1>1. TypeInv => TypeOK
  BY DEF TypeInv
<1> QED
  BY <1>1, TypeInductive, PTL DEF Spec
=============================================================================
