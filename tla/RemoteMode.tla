----------------------------- MODULE RemoteMode -----------------------------
(***************************************************************************)
(* mode/mode_remote.go: RemoteMode.Run and everything it calls, for        *)
(* several provisioner runs against one host.  Each run is a process: one  *)
(* remote command, upload or local file operation is one step, and any of  *)
(* them may fail.  The runs share nothing but the host's file system: the  *)
(* bootstrap directory, and the path of the installer.                     *)
(***************************************************************************)
EXTENDS RemoteHost, Sequences

CONSTANTS
  Playlists,  \* the lists of plays a provisioner block may hold
  MaxPlays,   \* bound on their length
  GalaxyRole, \* a roles_path entry that begins with "galaxy_install:"
  Concurrent, \* may a run start while another is active?
  MaxFaults,  \* bound on the operations that fail though they could succeed
  MaxEdits    \* bound on the edits of a local directory between runs

Index == 1 .. MaxPlays

(* What mode_remote.go reads of a play.  dir is the remote directory of its *)
(* playbook's parent, of its module, or of galaxy_install's roles path;     *)
(* vault files are numbered and 0 is the empty string.                      *)
Play == [kind : {"playbook", "module", "galaxy_install"}, enabled : BOOLEAN,
         dir : LocalDirs \cup MadeDirs, vaultID : Seq(Nat), vaultPasswordFile : Nat,
         roles : Seq(LocalDirs \cup {GalaxyRole}), roleFile : Nat]

ASSUME RemoteAssumption ==
  /\ MaxPlays \in Nat /\ MaxFaults \in Nat /\ MaxEdits \in Nat
  /\ Concurrent \in BOOLEAN
  /\ GalaxyRole \notin Dirs
  /\ \A l \in Playlists :
       /\ DOMAIN l \in SUBSET Index /\ l \in Seq(Play)
       /\ \A i \in DOMAIN l : l[i].kind = "playbook" <=> l[i].dir \in LocalDirs

VARIABLES
  settings,  \* run -> its plays and its remote.skip_install, remote.skip_cleanup
  pc,        \* run -> the operation it is about to do
  cur,       \* run -> index of the play of the current loop
  item,      \* run -> index in that play's vault files or roles; 0: the playbook's directory
  override,  \* run -> play -> the override paths set on it
  host,      \* the host's file system
  local,     \* local directory -> its version on the controller
  faults,    \* operations that failed though they could succeed
  exclusive, \* history: the run found a clean host and has had it to itself
  installed, \* history: the run whose installer this run executed
  ran        \* history: the plays whose command exited with 0

runVars == <<cur, item, override, installed, ran>>
envVars == <<settings, local, exclusive>>
vars == <<settings, pc, cur, item, override, host, local, faults, exclusive, installed, ran>>

Labels == {"idle", "connect", "connectLate", "retryWait", "deploy", "mkdir", "check",
           "upload", "uploading", "inventory", "vault", "roles", "moduleDir", "rolesDir",
           "roleFile", "installDir", "installUpload", "installRun", "play", "running",
           "cleanup", "done", "failed"}

Override == [file : BOOLEAN, inventory : SUBSET Loc, vault : SUBSET Loc,
             roles : SUBSET LocalDirs, roleFile : SUBSET Loc]
NoOverride == [file |-> FALSE, inventory |-> {}, vault |-> {}, roles |-> {}, roleFile |-> {}]

Settings == [plays : Playlists, skipInstall : BOOLEAN, skipCleanup : BOOLEAN]

plays(r) == settings[r].plays
play(r) == plays(r)[cur[r]]
Active(r) == pc[r] \notin {"idle", "done", "failed"}

Init ==
  /\ settings \in [Runs -> Settings]
  /\ pc = [r \in Runs |-> "idle"]
  /\ cur = [r \in Runs |-> 1]
  /\ item = [r \in Runs |-> 0]
  /\ override = [r \in Runs |-> [i \in Index |-> NoOverride]]
  /\ host = EmptyHost
  /\ local = [d \in LocalDirs |-> 0]
  /\ faults = 0
  /\ exclusive = [r \in Runs |-> FALSE]
  /\ installed = [r \in Runs |-> NoRun]
  /\ ran = [r \in Runs |-> {}]

-----------------------------------------------------------------------------
(* Play.VaultID and Play.VaultPasswordFile: the ids win, else the one file. *)
VaultSources(p) == IF p.vaultID # <<>> THEN p.vaultID ELSE <<p.vaultPasswordFile>>

(* The directory the upload steps of r are about: the playbook's parent, or *)
(* the current entry of roles_path.                                         *)
Target(r) == IF item[r] = 0 THEN play(r).dir ELSE play(r).roles[item[r]]

(* Mutants, here and below, are named Bug: the definition that follows, with *)
(* a mistake its code could have had.  This one: fixed names, no uuid.       *)
BugFixedName(r, i, kind, n) == [run |-> NoRun, play |-> 0, kind |-> kind, n |-> 0]

(* filepath.Join(dir, ".inventory-<uuid>") and ".vault-file-<uuid>" *)
FreshName(r, i, kind, n) == [run |-> r, play |-> i, kind |-> kind, n |-> n]
(* filepath.Join(bootstrap, md5(role file) + ".yml"): the same in every run. *)
RoleFileName(p) == [run |-> NoRun, play |-> 0, kind |-> "rolefile", n |-> p.roleFile]

FileAt(loc, r, i) == [dir |-> loc.dir, name |-> loc.name, by |-> r, play |-> i]

Goto(r, label) == pc' = [pc EXCEPT ![r] = label]

(* An operation of run r that succeeds, leaving the host as h. *)
Succeeds(r, works, h, next) ==
  works /\ host' = h /\ Goto(r, next) /\ UNCHANGED <<faults, envVars>>

(* An operation that returns an error, which Run returns: the host was left *)
(* alone, or the command had its effect before the error.                   *)
Fails(r, works, h) ==
  /\ works => faults < MaxFaults
  /\ faults' = IF works THEN faults + 1 ELSE faults
  /\ host' \in (IF works THEN {host, h} ELSE {host})
  /\ Goto(r, "failed")
  /\ UNCHANGED <<runVars, envVars>>

(* A step of the program alone. *)
Silently(r, next) == Goto(r, next) /\ UNCHANGED <<host, faults, envVars>>

-----------------------------------------------------------------------------
(* Terraform applies the block of run r. *)
Start(r) ==
  /\ pc[r] = "idle"
  /\ Concurrent \/ \A q \in Runs : ~Active(q)
  /\ Goto(r, "connect")
  /\ exclusive' = [q \in Runs |-> q = r /\ Clean(host) /\ \A s \in Runs : ~Active(s)]
  /\ UNCHANGED <<settings, runVars, host, local, faults>>

(* retryFunc around comm.Connect.  Its timer fires once, and is looked at    *)
(* only after an attempt that failed ("connectLate": it fired during one).  *)

(* time.After within the loop: an attempt that outlasts the timer finds a   *)
(* new one.                                                                 *)
BugTimerRestarted(r) ==
  /\ pc[r] \in {"connect", "connectLate"}
  /\ Silently(r, "deploy") \/ Silently(r, "retryWait")
  /\ UNCHANGED runVars

(* The host may never answer: a failed attempt needs no fault. *)
Connect(r) ==
  /\ pc[r] \in {"connect", "connectLate"}
  /\ \/ Silently(r, "deploy")
     \/ Silently(r, IF pc[r] = "connectLate" THEN "failed" ELSE "retryWait")
  /\ UNCHANGED runVars

TimerFires(r) ==
  /\ \/ pc[r] = "connect" /\ Silently(r, "connectLate")
     \/ pc[r] = "retryWait" /\ Silently(r, "failed")
  /\ UNCHANGED runVars

(* The three seconds between attempts. *)
RetryPause(r) == pc[r] = "retryWait" /\ Silently(r, "connect") /\ UNCHANGED runVars

retryFunc(r) == Connect(r) \/ TimerFires(r) \/ RetryPause(r)

(* The head of deployAnsibleData's loop. *)
DeployDone(r) ==
  /\ pc[r] = "deploy" /\ cur[r] > Len(plays(r))
  /\ Silently(r, IF settings[r].skipInstall THEN "play" ELSE "installDir")
  /\ cur' = [cur EXCEPT ![r] = 1]
  /\ UNCHANGED <<item, override, installed, ran>>

(* break in place of continue. *)
BugStopAtDisabled(r) ==
  /\ pc[r] = "deploy" /\ cur[r] <= Len(plays(r)) /\ ~play(r).enabled
  /\ Silently(r, "play") /\ cur' = [cur EXCEPT ![r] = 1]
  /\ UNCHANGED <<item, override, installed, ran>>

SkipDisabled(r) ==
  /\ pc[r] = "deploy" /\ cur[r] <= Len(plays(r)) /\ ~play(r).enabled
  /\ Silently(r, "deploy") /\ cur' = [cur EXCEPT ![r] = @ + 1]
  /\ UNCHANGED <<item, override, installed, ran>>

DeployEntity(r) ==
  /\ pc[r] = "deploy" /\ cur[r] <= Len(plays(r)) /\ play(r).enabled
  /\ Silently(r, IF play(r).kind = "module" THEN "moduleDir" ELSE "mkdir")
  /\ item' = [item EXCEPT ![r] = 0]
  /\ UNCHANGED <<cur, override, installed, ran>>

(* mkdir -p of the bootstrap directory, after ResolvePath for a playbook. *)
MakeBootstrap(r) ==
  LET made == MakeDir(host, Bootstrap) IN
  /\ pc[r] = "mkdir"
  /\ \/ /\ Succeeds(r, TRUE, made, IF play(r).kind = "playbook" THEN "check" ELSE "rolesDir")
        /\ UNCHANGED runVars
     \/ Fails(r, TRUE, made)

(* What follows when the target directory is there: SetOverrideFilePath for *)
(* the playbook's, remoteRolesPath for a role's.                            *)
AfterTarget(r) == IF item[r] = 0 THEN "inventory" ELSE "roles"
TakeTarget(r) ==
  /\ \/ item[r] = 0 /\ override' = [override EXCEPT ![r][cur[r]].file = TRUE] /\ UNCHANGED item
     \/ /\ item[r] # 0
        /\ override' = [override EXCEPT ![r][cur[r]].roles = @ \cup {Target(r)}]
        /\ item' = [item EXCEPT ![r] = @ + 1]
  /\ UNCHANGED <<cur, installed, ran>>

(* checkRemoteDirExists: a directory that exists counts as uploaded. *)
CheckDir(r) ==
  /\ pc[r] = "check"
  /\ \/ /\ Exists(host, Target(r))
        /\ Succeeds(r, TRUE, host, AfterTarget(r)) /\ TakeTarget(r)
     \/ /\ ~Exists(host, Target(r))
        /\ Succeeds(r, TRUE, host, "upload") /\ UNCHANGED runVars
     \/ Fails(r, TRUE, host)

(* comm.UploadDir, from its first file to its last. *)
BeginUpload(r) ==
  LET begun == StartUpload(host, Target(r), r, local[Target(r)]) IN
  /\ pc[r] = "upload"
  /\ \/ Succeeds(r, Exists(host, Bootstrap), begun, "uploading") /\ UNCHANGED runVars
     \/ Fails(r, Exists(host, Bootstrap), begun)

(* The error of UploadDir dropped. *)
BugUploadErrorDropped(r) ==
  /\ pc[r] = "uploading"
  /\ \/ Succeeds(r, Exists(host, Target(r)), EndUpload(host, Target(r), r), AfterTarget(r))
     \/ /\ faults < MaxFaults /\ faults' = faults + 1
        /\ Goto(r, AfterTarget(r)) /\ UNCHANGED <<host, envVars>>
  /\ TakeTarget(r)

FinishUpload(r) ==
  /\ pc[r] = "uploading"
  /\ \/ /\ Succeeds(r, Exists(host, Target(r)), EndUpload(host, Target(r), r), AfterTarget(r))
        /\ TakeTarget(r)
     \/ Fails(r, Exists(host, Target(r)), host)

(* writeInventory: the provided file or the generated one goes to a fresh   *)
(* name in the play's directory.  It comes before a playbook's vault files  *)
(* and after a module's.                                                    *)
WriteInventory(r) ==
  LET loc == [dir |-> play(r).dir, name |-> FreshName(r, cur[r], "inventory", 0)]
      put == PutFile(host, FileAt(loc, r, cur[r]))
      last == play(r).kind = "module"
  IN
  /\ pc[r] = "inventory"
  /\ \/ /\ Succeeds(r, Exists(host, loc.dir), put, IF last THEN "deploy" ELSE "vault")
        /\ override' = [override EXCEPT ![r][cur[r]].inventory = {loc}]
        /\ item' = [item EXCEPT ![r] = IF last THEN 0 ELSE 1]
        /\ cur' = [cur EXCEPT ![r] = IF last THEN @ + 1 ELSE @]
        /\ UNCHANGED <<installed, ran>>
     \/ Fails(r, Exists(host, loc.dir), put)

(* uploadVaultPasswordOrIDFile for each vault id, or for the password file: *)
(* nothing for an empty source.                                             *)
SkipVault(r) ==
  /\ pc[r] = "vault" /\ item[r] <= Len(VaultSources(play(r)))
  /\ VaultSources(play(r))[item[r]] = 0
  /\ Silently(r, "vault") /\ item' = [item EXCEPT ![r] = @ + 1]
  /\ UNCHANGED <<cur, override, installed, ran>>

(* A vault file that cannot be uploaded is tried again, for ever. *)
BugVaultRetried(r) ==
  LET loc == [dir |-> play(r).dir, name |-> FreshName(r, cur[r], "vault", item[r])]
      put == PutFile(host, FileAt(loc, r, cur[r]))
  IN
  /\ pc[r] = "vault" /\ item[r] <= Len(VaultSources(play(r)))
  /\ VaultSources(play(r))[item[r]] # 0
  /\ Succeeds(r, Exists(host, loc.dir), put, "vault")
  /\ override' = [override EXCEPT ![r][cur[r]].vault = @ \cup {loc}]
  /\ item' = [item EXCEPT ![r] = @ + 1]
  /\ UNCHANGED <<cur, installed, ran>>

UploadVault(r) ==
  LET loc == [dir |-> play(r).dir, name |-> FreshName(r, cur[r], "vault", item[r])]
      put == PutFile(host, FileAt(loc, r, cur[r]))
  IN
  /\ pc[r] = "vault" /\ item[r] <= Len(VaultSources(play(r)))
  /\ VaultSources(play(r))[item[r]] # 0
  /\ \/ /\ Succeeds(r, Exists(host, loc.dir), put, "vault")
        /\ override' = [override EXCEPT ![r][cur[r]].vault = @ \cup {loc}]
        /\ item' = [item EXCEPT ![r] = @ + 1]
        /\ UNCHANGED <<cur, installed, ran>>
     \/ Fails(r, Exists(host, loc.dir), put)

VaultDone(r) ==
  /\ pc[r] = "vault" /\ item[r] > Len(VaultSources(play(r)))
  /\ Silently(r, IF play(r).kind = "module" THEN "inventory" ELSE "roles")
  /\ item' = [item EXCEPT ![r] = 1]
  /\ UNCHANGED <<cur, override, installed, ran>>

(* A galaxy_install: entry kept among the uploaded roles. *)
BugGalaxyRoleKept(r) ==
  /\ pc[r] = "roles" /\ item[r] <= Len(play(r).roles)
  /\ \/ /\ play(r).roles[item[r]] = GalaxyRole
        /\ Silently(r, "roles") /\ item' = [item EXCEPT ![r] = @ + 1]
        /\ override' = [override EXCEPT ![r][cur[r]].roles = @ \cup {GalaxyRole}]
        /\ UNCHANGED <<cur, installed, ran>>
     \/ /\ play(r).roles[item[r]] # GalaxyRole
        /\ Silently(r, "check") /\ UNCHANGED runVars

(* The loop over Playbook.RolesPath. *)
NextRole(r) ==
  /\ pc[r] = "roles" /\ item[r] <= Len(play(r).roles)
  /\ \/ /\ play(r).roles[item[r]] = GalaxyRole
        /\ Silently(r, "roles") /\ item' = [item EXCEPT ![r] = @ + 1]
        /\ UNCHANGED <<cur, override, installed, ran>>
     \/ /\ play(r).roles[item[r]] # GalaxyRole
        /\ Silently(r, "check") /\ UNCHANGED runVars

RolesDone(r) ==
  /\ pc[r] = "roles" /\ item[r] > Len(play(r).roles)
  /\ Silently(r, "deploy")
  /\ cur' = [cur EXCEPT ![r] = @ + 1] /\ item' = [item EXCEPT ![r] = 0]
  /\ UNCHANGED <<override, installed, ran>>

MakeModuleDir(r) ==
  LET made == MakeDir(host, play(r).dir) IN
  /\ pc[r] = "moduleDir"
  /\ \/ /\ Succeeds(r, TRUE, made, "vault")
        /\ item' = [item EXCEPT ![r] = 1] /\ UNCHANGED <<cur, override, installed, ran>>
     \/ Fails(r, TRUE, made)

MakeRolesDir(r) ==
  LET made == MakeDir(host, play(r).dir) IN
  /\ pc[r] = "rolesDir"
  /\ \/ Succeeds(r, TRUE, made, "roleFile") /\ UNCHANGED runVars
     \/ Fails(r, TRUE, made)

UploadRoleFile(r) ==
  LET loc == [dir |-> Bootstrap, name |-> RoleFileName(play(r))]
      put == PutFile(host, FileAt(loc, r, 0))
  IN
  /\ pc[r] = "roleFile"
  /\ \/ /\ Succeeds(r, Exists(host, Bootstrap), put, "deploy")
        /\ override' = [override EXCEPT ![r][cur[r]].roleFile = {loc}]
        /\ cur' = [cur EXCEPT ![r] = @ + 1]
        /\ UNCHANGED <<item, installed, ran>>
     \/ Fails(r, Exists(host, Bootstrap), put)

-----------------------------------------------------------------------------
(* installAnsible: mkdir -p of the installer's directory, UploadScript, and *)
(* "path" && rm "path" under sudo, which needs the script to be there.      *)
InstallDir(r) ==
  /\ pc[r] = "installDir"
  /\ \/ Succeeds(r, TRUE, host, "installUpload") /\ UNCHANGED runVars
     \/ Fails(r, TRUE, host)

InstallUpload(r) ==
  /\ pc[r] = "installUpload"
  /\ \/ Succeeds(r, TRUE, PutInstaller(host, r), "installRun") /\ UNCHANGED runVars
     \/ Fails(r, TRUE, PutInstaller(host, r))

(* Without the rm. *)
BugInstallerLeft(r) ==
  /\ pc[r] = "installRun"
  /\ \/ /\ Succeeds(r, host.installer # NoRun, host, "play")
        /\ installed' = [installed EXCEPT ![r] = host.installer]
        /\ UNCHANGED <<cur, item, override, ran>>
     \/ Fails(r, host.installer # NoRun, host)

InstallRun(r) ==
  LET there == host.installer # NoRun IN
  /\ pc[r] = "installRun"
  /\ \/ /\ Succeeds(r, there, PutInstaller(host, NoRun), "play")
        /\ installed' = [installed EXCEPT ![r] = host.installer]
        /\ UNCHANGED <<cur, item, override, ran>>
     \/ Fails(r, there, PutInstaller(host, NoRun))

(* Run's second loop: ToCommand, which may refuse the play, and then        *)
(* runCommandSudo, for every play.                                          *)
ExecutePlay(r) ==
  /\ pc[r] = "play" /\ cur[r] <= Len(plays(r))
  /\ \/ Silently(r, "running") /\ UNCHANGED runVars
     \/ Fails(r, TRUE, host)

(* The paths the play's command names, as Play.ToCommand reads them back.   *)
References(r) == LET o == override[r][cur[r]] IN o.inventory \cup o.vault \cup o.roleFile
Directories(r) ==
  LET o == override[r][cur[r]] IN (IF o.file THEN {play(r).dir} ELSE {}) \cup o.roles

(* The command's error logged and the loop continued. *)
BugPlayErrorDropped(r) ==
  /\ pc[r] = "running"
  /\ \/ Silently(r, "play") /\ ran' = [ran EXCEPT ![r] = @ \cup {cur[r]}]
     \/ /\ faults < MaxFaults /\ faults' = faults + 1
        /\ Goto(r, "play") /\ UNCHANGED <<host, envVars, ran>>
  /\ cur' = [cur EXCEPT ![r] = @ + 1]
  /\ UNCHANGED <<item, override, installed>>

(* Ansible fails for sure when a path is missing; a directory half uploaded *)
(* or out of date it cannot tell.                                           *)
PlayEnds(r) ==
  LET runs == /\ \A loc \in References(r) : Holds(host, loc)
              /\ \A d \in Directories(r) : Exists(host, d)
  IN
  /\ pc[r] = "running"
  /\ \/ /\ Succeeds(r, runs, host, "play")
        /\ cur' = [cur EXCEPT ![r] = @ + 1] /\ ran' = [ran EXCEPT ![r] = @ \cup {cur[r]}]
        /\ UNCHANGED <<item, override, installed>>
     \/ Fails(r, runs, host)

(* skip_cleanup negated once too often. *)
BugCleanupInverted(r) ==
  /\ pc[r] = "play" /\ cur[r] > Len(plays(r))
  /\ Silently(r, IF settings[r].skipCleanup THEN "cleanup" ELSE "done")
  /\ UNCHANGED runVars

PlaysDone(r) ==
  /\ pc[r] = "play" /\ cur[r] > Len(plays(r))
  /\ Silently(r, IF settings[r].skipCleanup THEN "done" ELSE "cleanup")
  /\ UNCHANGED runVars

(* cleanupAfterBootstrap: the error of rm -rf is dropped. *)
Cleanup(r) ==
  /\ pc[r] = "cleanup"
  /\ \/ Succeeds(r, TRUE, RemoveAll(host), "done") /\ UNCHANGED runVars
     \/ /\ faults < MaxFaults /\ faults' = faults + 1
        /\ Goto(r, "done") /\ UNCHANGED <<host, runVars, envVars>>

-----------------------------------------------------------------------------
(* Somebody edits a playbook or a role on the controller between runs. *)
Edit(d) ==
  /\ \A r \in Runs : ~Active(r)
  /\ local[d] < MaxEdits
  /\ local' = [local EXCEPT ![d] = @ + 1]
  /\ UNCHANGED <<settings, pc, runVars, host, faults, exclusive>>

Deploy(r) ==
  \/ DeployDone(r) \/ SkipDisabled(r) \/ DeployEntity(r) \/ MakeBootstrap(r)
  \/ CheckDir(r) \/ BeginUpload(r) \/ FinishUpload(r) \/ WriteInventory(r)
  \/ SkipVault(r) \/ UploadVault(r) \/ VaultDone(r) \/ NextRole(r) \/ RolesDone(r)
  \/ MakeModuleDir(r) \/ MakeRolesDir(r) \/ UploadRoleFile(r)

Install(r) == InstallDir(r) \/ InstallUpload(r) \/ InstallRun(r)

Provision(r) == ExecutePlay(r) \/ PlayEnds(r) \/ PlaysDone(r) \/ Cleanup(r)

Step(r) == retryFunc(r) \/ Deploy(r) \/ Install(r) \/ Provision(r)

Next ==
  \/ \E r \in Runs : Start(r) \/ Step(r)
  \/ \E d \in LocalDirs : Edit(d)

Spec == Init /\ [][Next]_vars

(* Terraform's goroutine runs Run to its end, if each attempt to connect,   *)
(* command and upload of the communicator returns: that is assumed, for Run *)
(* bounds none of them.  The timer, which nothing stops, fires.  How many   *)
(* attempts fail before it does is open.                                    *)
FairSpec == Spec /\ \A r \in Runs : WF_vars(Step(r)) /\ WF_vars(TimerFires(r))

-----------------------------------------------------------------------------
(* Properties *)

TypeOK ==
  /\ settings \in [Runs -> Settings]
  /\ pc \in [Runs -> Labels]
  /\ cur \in [Runs -> Nat] /\ item \in [Runs -> Nat]
  /\ override \in [Runs -> [Index -> Override]]
  /\ host \in Host
  /\ local \in [LocalDirs -> Nat]
  /\ faults \in Nat
  /\ exclusive \in [Runs -> BOOLEAN]
  /\ installed \in [Runs -> Runs \cup {NoRun}]
  /\ ran \in [Runs -> SUBSET Index]

(* Everything play i of run r needs has been uploaded or made, and the     *)
(* play's overrides point at it.                                           *)
VaultLoc(r, i, n) == [dir |-> plays(r)[i].dir, name |-> FreshName(r, i, "vault", n)]
Complete(r, i) ==
  LET p == plays(r)[i]
      o == override[r][i]
      sources == VaultSources(p)
  IN IF p.kind = "galaxy_install" THEN o.roleFile # {}
     ELSE /\ o.inventory # {}
          /\ \A n \in DOMAIN sources : sources[n] # 0 => VaultLoc(r, i, n) \in o.vault
          /\ p.kind = "playbook" =>
               /\ o.file
               /\ \A n \in DOMAIN p.roles : p.roles[n] # GalaxyRole => p.roles[n] \in o.roles

(* What the overrides of play i point at is on the host: whole, in the     *)
(* version the controller has, and put there by this run.                  *)
IsCurrent(d) == host.dirs[d].st = "full" /\ host.dirs[d].ver = local[d]
Arrived(r, i) ==
  LET o == override[r][i] IN
  /\ o.file => IsCurrent(plays(r)[i].dir)
  /\ \A d \in o.roles : IsCurrent(d)
  /\ \A loc \in o.inventory \cup o.vault \cup o.roleFile :
       \E f \in host.files : f.dir = loc.dir /\ f.name = loc.name /\ f.by = r

(* A run that found no bootstrap directory and has had the host to itself  *)
(* executes an enabled play only when its playbook, roles, vault files and *)
(* inventory are on the host, whole, its own and up to date: the check     *)
(* "already uploaded" of deployAnsibleData, the shared directories and the *)
(* failed uploads never let a command run against less.                    *)
StagedForUse ==
  \A r \in Runs :
    exclusive[r] /\ pc[r] = "running" /\ play(r).enabled
      => Complete(r, cur[r]) /\ Arrived(r, cur[r])

(* deployAnsibleData finishes with every enabled play before the first      *)
(* command, whatever other runs do meanwhile; and before installAnsible,    *)
(* which README.md:454 has the other way round (InstalledFirst below).      *)
AllDeployedBeforeAny ==
  \A r \in Runs :
    pc[r] \in {"installDir", "installUpload", "installRun", "play", "running", "cleanup", "done"}
      => \A i \in DOMAIN plays(r) : plays(r)[i].enabled => Complete(r, i)

(* However runs interleave, an inventory or vault file a command names is   *)
(* the one uploaded for that play of that run, or is gone: it is never one  *)
(* that another run or another play put there (the uuids of writeInventory  *)
(* and uploadVaultPasswordOrIDFile).                                        *)
OwnFiles ==
  \A r \in Runs : pc[r] = "running" =>
    \A loc \in override[r][cur[r]].inventory \cup override[r][cur[r]].vault :
      \A f \in host.files :
        f.dir = loc.dir /\ f.name = loc.name => f.by = r /\ f.play = cur[r]

(* With the host to itself a run executes the installer it uploaded, and    *)
(* when it succeeds that installer is gone.                                 *)
OwnInstaller ==
  \A r \in Runs : exclusive[r] =>
    /\ installed[r] \in {NoRun, r}
    /\ pc[r] = "done" /\ ~settings[r].skipInstall => host.installer = NoRun

(* A run that succeeds leaves nothing below the bootstrap directory, unless *)
(* it was told to or the one command whose error is dropped has failed.     *)
CleanAfterSuccess ==
  \A r \in Runs :
    exclusive[r] /\ pc[r] = "done" /\ ~settings[r].skipCleanup /\ faults = 0 => Clean(host)

(* Remote mode implements ProvisionRun with every play of the list to do:   *)
(* enabled or not, for Run's second loop does not look.                     *)
Phase(r) ==
  CASE pc[r] = "idle" -> "waiting"
    [] pc[r] = "running" -> "running"
    [] pc[r] = "done" -> "ok"
    [] pc[r] = "failed" -> "failed"
    [] OTHER -> IF pc[r] = "cleanup" THEN "ok" ELSE "preparing"

Promise == INSTANCE ProvisionRun WITH
  todo <- [r \in Runs |-> DOMAIN plays(r)],
  phase <- [r \in Runs |-> Phase(r)]

ImplementsProvisionRun == Promise!Spec

(* Every run that starts comes to an end. *)
EveryRunEnds == \A r \in Runs : Active(r) ~> ~Active(r)

-----------------------------------------------------------------------------
(* What the documentation says, for the runs that refute it. *)

(* README.md:31: playbooks, roles, vault files and the inventory are        *)
(* uploaded to the host prior to the Ansible run, with no proviso about     *)
(* what an earlier or a concurrent run left there.                          *)
UploadedBeforeRun ==
  \A r \in Runs : pc[r] = "running" /\ play(r).enabled => Arrived(r, cur[r])

(* README.md:454: unless told not to, the provisioner installs Ansible;     *)
(* "next" the inventory, playbooks, roles and vault files are uploaded.     *)
InstalledFirst ==
  \A r \in Runs :
    /\ ~settings[r].skipInstall
    /\ \/ \E f \in host.files : f.by = r
       \/ \E d \in Dirs : host.dirs[d].by = r
    => installed[r] # NoRun
=============================================================================
