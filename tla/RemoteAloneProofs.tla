-------------------------- MODULE RemoteAloneProofs --------------------------
(***************************************************************************)
(* What a run of RemoteMode that has the host to itself can rely on, for   *)
(* every value of the constants: it executes a play only with everything    *)
(* staged, executes its own installer, and leaves nothing behind when it   *)
(* succeeds.                                                               *)
(***************************************************************************)
EXTENDS RemoteRunsProofs

Executing == {"play", "running", "cleanup", "done"}
Working == Labels \ {"idle", "cleanup", "done", "failed"}

(* While a run is exclusive no other is active; and what a run that has not *)
(* begun, or not reached its installer, has done.                           *)
AloneAt(r) ==
  /\ exclusive[r] => pc[r] # "idle" /\ \A q \in Runs \ {r} : ~Active(q)
  /\ pc[r] = "idle" => \A i \in Index : override[r][i] = NoOverride
  /\ pc[r] \notin Executing \cup {"failed"} => installed[r] = NoRun

(* The installer's path. *)
InstallerAt(r) ==
  exclusive[r] =>
    /\ installed[r] \in {NoRun, r}
    /\ pc[r] = "installRun" => host.installer = r
    /\ pc[r] \in Executing /\ ~settings[r].skipInstall => host.installer = NoRun

(* What the success of rm -rf leaves, or its dropped error. *)
CleanedAt(r) ==
  exclusive[r] /\ pc[r] = "done" /\ ~settings[r].skipCleanup /\ faults = 0 => Clean(host)

(* Each directory that UploadDir fills is absent, or is whole and current,  *)
(* or is the one being uploaded; and what the overrides name is there.      *)
Whole(h, d) == Exists(h, d) => h.dirs[d].st = "full" /\ h.dirs[d].ver = local[d]
Begun(h, d, r) == h.dirs[d] = [st |-> "partial", ver |-> local[d], by |-> r]
HasFile(h, loc, r) == \E f \in h.files : f.dir = loc.dir /\ f.name = loc.name /\ f.by = r

DirsAt(r) ==
  \A d \in LocalDirs :
    Whole(host, d) \/ (pc[r] = "uploading" /\ d = Target(r) /\ Begun(host, d, r))

NamedPaths(o) == o.inventory \cup o.vault \cup o.roleFile
PathsOf(r, i) ==
  /\ override[r][i].file =>
       /\ i \in DOMAIN plays(r) /\ plays(r)[i].dir \in LocalDirs
       /\ Exists(host, plays(r)[i].dir)
  /\ \A d \in override[r][i].roles : Exists(host, d)
  /\ \A loc \in NamedPaths(override[r][i]) : HasFile(host, loc, r)

StagedAt(r) ==
  exclusive[r] /\ pc[r] \in Working =>
    /\ DirsAt(r)
    /\ \A i \in Index : PathsOf(r, i)
    /\ pc[r] = "upload" => ~Exists(host, Target(r))

AloneInv == \A r \in Runs : AloneAt(r) /\ InstallerAt(r) /\ CleanedAt(r) /\ StagedAt(r)

-----------------------------------------------------------------------------
(* The operations on the host, as far as run r relies on it. *)
Grows(h, k, r) ==
  /\ \A d \in Dirs : Exists(h, d) => Exists(k, d)
  /\ \A loc : HasFile(h, loc, r) => HasFile(k, loc, r)
SameUploads(h, k) == \A d \in LocalDirs : k.dirs[d] = h.dirs[d]

LEMMA SameHostGrows ==
  ASSUME NEW h, NEW r
  PROVE  Grows(h, h, r) /\ SameUploads(h, h)
BY DEF Grows, SameUploads

LEMMA MakeDirGrows ==
  ASSUME NEW h \in Host, NEW d \in Dirs \ LocalDirs, NEW r
  PROVE  Grows(h, MakeDir(h, d), r) /\ SameUploads(h, MakeDir(h, d))
<1> DEFINE k == MakeDir(h, d)
<1>1. /\ k.files = h.files
      /\ \A e \in Dirs : k.dirs[e] = IF e \in {d, Bootstrap} /\ h.dirs[e].st = "absent"
                                     THEN MadeDir ELSE h.dirs[e]
  BY DEF MakeDir, Host
<1> HIDE DEF k
<1>2. \A e \in LocalDirs : e \in Dirs /\ e \notin {d, Bootstrap}
  BY HostAssumption DEF Dirs
<1>3. SameUploads(h, k)
  BY <1>1, <1>2 DEF SameUploads
<1>4. \A e \in Dirs : Exists(h, e) => Exists(k, e)
  BY <1>1 DEF Exists
<1>5. \A loc : HasFile(h, loc, r) => HasFile(k, loc, r)
  BY <1>1 DEF HasFile
<1> QED
  BY <1>3, <1>4, <1>5 DEF Grows, k

LEMMA StartUploadGrows ==
  ASSUME NEW h \in Host, NEW d \in LocalDirs, NEW r, NEW v, ~Exists(h, d)
  PROVE  /\ Grows(h, StartUpload(h, d, r, v), r)
         /\ StartUpload(h, d, r, v).dirs[d] = [st |-> "partial", ver |-> v, by |-> r]
         /\ \A e \in LocalDirs \ {d} : StartUpload(h, d, r, v).dirs[e] = h.dirs[e]
<1> DEFINE new == [st |-> "partial", ver |-> v, by |-> r]
<1> DEFINE k == StartUpload(h, d, r, v)
<1>1. k = [h EXCEPT !.dirs[d] = new]
  BY DEF StartUpload
<1>2. k.files = h.files /\ k.dirs = [h.dirs EXCEPT ![d] = new]
  BY <1>1 DEF Host
<1>3. d \in Dirs /\ LocalDirs \subseteq Dirs
  BY DEF Dirs
<1> HIDE DEF k, new
<1>4. k.dirs[d] = new /\ \A e \in Dirs \ {d} : k.dirs[e] = h.dirs[e]
  BY <1>2, <1>3 DEF Host
<1>5. \A e \in Dirs : Exists(h, e) => Exists(k, e)
  BY <1>4 DEF Exists
<1>6. \A loc : HasFile(h, loc, r) => HasFile(k, loc, r)
  BY <1>2 DEF HasFile
<1> QED
  BY <1>3, <1>4, <1>5, <1>6 DEF Grows, k, new

LEMMA EndUploadGrows ==
  ASSUME NEW h \in Host, NEW d \in LocalDirs, NEW r
  PROVE  /\ Grows(h, EndUpload(h, d, r), r)
         /\ Whole(h, d) \/ Begun(h, d, r) => Whole(EndUpload(h, d, r), d)
         /\ \A e \in LocalDirs \ {d} : EndUpload(h, d, r).dirs[e] = h.dirs[e]
<1> DEFINE k == EndUpload(h, d, r)
<1>0. d \in Dirs /\ LocalDirs \subseteq Dirs
  BY DEF Dirs
<1>1. CASE ~(h.dirs[d].by = r /\ h.dirs[d].st = "partial")
  <2>1. k = h
    BY <1>1 DEF EndUpload
  <2>2. ~Begun(h, d, r)
    BY <1>1 DEF Begun
  <2> QED
    BY <2>1, <2>2, SameHostGrows
<1>2. CASE h.dirs[d].by = r /\ h.dirs[d].st = "partial"
  <2> DEFINE new == [h.dirs[d] EXCEPT !.st = "full"]
  <2>1. k = [h EXCEPT !.dirs[d].st = "full"]
    BY <1>2 DEF EndUpload
  <2>2. k.files = h.files /\ k.dirs = [h.dirs EXCEPT ![d] = new]
    BY <1>0, <2>1 DEF Host
  <2>3. new.st = "full" /\ new.ver = h.dirs[d].ver
    BY <1>0 DEF Host, DirState
  <2> HIDE DEF k, new
  <2>4. k.dirs[d] = new /\ \A e \in Dirs \ {d} : k.dirs[e] = h.dirs[e]
    BY <1>0, <2>2 DEF Host
  <2>5. \A e \in Dirs : Exists(h, e) => Exists(k, e)
    BY <2>3, <2>4 DEF Exists
  <2>6. \A loc : HasFile(h, loc, r) => HasFile(k, loc, r)
    BY <2>2 DEF HasFile
  <2>7. Whole(h, d) \/ Begun(h, d, r) => Whole(k, d)
    <3>1. ~Whole(h, d)
      BY <1>2 DEF Whole, Exists
    <3>2. Begun(h, d, r) => h.dirs[d].ver = local[d]
      BY DEF Begun
    <3> QED
      BY <2>3, <2>4, <3>1, <3>2 DEF Whole
  <2> QED
    BY <1>0, <2>4, <2>5, <2>6, <2>7 DEF Grows, k
<1> QED
  BY <1>1, <1>2

LEMMA PutFileGrows ==
  ASSUME NEW h \in Host, NEW loc, NEW r, NEW i
  PROVE  /\ Grows(h, PutFile(h, FileAt(loc, r, i)), r)
         /\ SameUploads(h, PutFile(h, FileAt(loc, r, i)))
         /\ HasFile(PutFile(h, FileAt(loc, r, i)), loc, r)
<1> DEFINE f == FileAt(loc, r, i)
<1> DEFINE k == PutFile(h, f)
<1>1. f.dir = loc.dir /\ f.name = loc.name /\ f.by = r
  BY DEF FileAt
<1> HIDE DEF f
<1>2. k.dirs = h.dirs /\ k.files = {g \in h.files : g.dir # f.dir \/ g.name # f.name} \cup {f}
  BY DEF PutFile, Host
<1> HIDE DEF k
<1>3. HasFile(k, loc, r)
  BY <1>1, <1>2 DEF HasFile
<1>4. ASSUME NEW l, HasFile(h, l, r) PROVE HasFile(k, l, r)
  <2>1. PICK g \in h.files : g.dir = l.dir /\ g.name = l.name /\ g.by = r
    BY <1>4 DEF HasFile
  <2>2. CASE g.dir # f.dir \/ g.name # f.name
    BY <1>2, <2>1, <2>2 DEF HasFile
  <2>3. CASE g.dir = f.dir /\ g.name = f.name
    BY <1>1, <1>2, <2>1, <2>3 DEF HasFile
  <2> QED
    BY <2>2, <2>3
<1> QED
  BY <1>2, <1>3, <1>4 DEF Grows, SameUploads, Exists, k, f

LEMMA PutInstallerGrows ==
  ASSUME NEW h \in Host, NEW r, NEW who
  PROVE  Grows(h, PutInstaller(h, who), r) /\ SameUploads(h, PutInstaller(h, who))
BY DEF Grows, SameUploads, PutInstaller, Host, Exists, HasFile

(* rm -rf leaves a clean host. *)
LEMMA RemoveAllCleans ==
  ASSUME NEW h \in Host
  PROVE  Clean(RemoveAll(h))
BY DEF RemoveAll, Host, Clean, Exists, AbsentDir

(* Only installAnsible touches the installer's path. *)
LEMMA InstallerKept ==
  ASSUME NEW h \in Host, NEW d, NEW r, NEW v, NEW f
  PROVE  /\ MakeDir(h, d).installer = h.installer
         /\ StartUpload(h, d, r, v).installer = h.installer
         /\ EndUpload(h, d, r).installer = h.installer
         /\ PutFile(h, f).installer = h.installer
         /\ RemoveAll(h).installer = h.installer
         /\ PutInstaller(h, r).installer = r
BY DEF Host, MakeDir, StartUpload, EndUpload, PutFile, RemoveAll, PutInstaller

-----------------------------------------------------------------------------
(* A run that takes a step is active. *)
LEMMA StepIsActive ==
  ASSUME NEW r \in Runs, Step(r)
  PROVE  Active(r)
BY DEF Step, retryFunc, Connect, TimerFires, RetryPause, Deploy, DeployDone, SkipDisabled,
   DeployEntity, MakeBootstrap, CheckDir, BeginUpload, FinishUpload, WriteInventory, SkipVault,
   UploadVault, VaultDone, NextRole, RolesDone, MakeModuleDir, MakeRolesDir, UploadRoleFile,
   Install, InstallDir, InstallUpload, InstallRun, Provision, ExecutePlay, PlayEnds, PlaysDone,
   Cleanup, Active

(* What the steps other than the installer's do about it. *)
NotAboutInstaller(r) ==
  /\ host'.installer = host.installer /\ installed' = installed
  /\ pc'[r] \notin {"idle", "installRun"}
  /\ pc'[r] \in Executing => pc[r] \in Executing \/ settings[r].skipInstall

LEMMA StepInstaller ==
  ASSUME TypeInv, NEW r \in Runs, Step(r), ~Install(r)
  PROVE  NotAboutInstaller(r)
<1>0. host \in Host /\ pc \in [Runs -> Labels]
  BY DEF TypeInv, TypeOK
<1> USE DEF NotAboutInstaller, Goto, runVars, Executing
<1>1. CASE retryFunc(r)
  BY <1>0, <1>1 DEF retryFunc, Connect, TimerFires, RetryPause, Silently
<1>2. CASE DeployDone(r) \/ SkipDisabled(r) \/ DeployEntity(r)
  BY <1>0, <1>2 DEF DeployDone, SkipDisabled, DeployEntity, Silently
<1>3. CASE SkipVault(r) \/ VaultDone(r) \/ NextRole(r) \/ RolesDone(r)
  BY <1>0, <1>3 DEF SkipVault, VaultDone, NextRole, RolesDone, Silently
<1>4. CASE ExecutePlay(r) \/ PlaysDone(r)
  BY <1>0, <1>4 DEF ExecutePlay, PlaysDone, Silently, Fails
<1>5. CASE MakeBootstrap(r) \/ MakeModuleDir(r) \/ MakeRolesDir(r)
  <2>1. \/ host' = host
        \/ \E d : host' = MakeDir(host, d)
    BY <1>5 DEF MakeBootstrap, MakeModuleDir, MakeRolesDir, Succeeds, Fails
  <2>2. host'.installer = host.installer
    BY <1>0, <2>1, InstallerKept
  <2> QED
    BY <1>0, <1>5, <2>2 DEF MakeBootstrap, MakeModuleDir, MakeRolesDir, Succeeds, Fails
<1>6. CASE CheckDir(r) \/ FinishUpload(r)
  <2>1. host' = host \/ host' = EndUpload(host, Target(r), r)
    BY <1>6 DEF CheckDir, FinishUpload, Succeeds, Fails
  <2>2. host'.installer = host.installer
    BY <1>0, <2>1, InstallerKept
  <2> QED
    BY <1>0, <1>6, <2>2 DEF CheckDir, FinishUpload, Succeeds, Fails, TakeTarget, AfterTarget
<1>7. CASE BeginUpload(r)
  <2>1. host' = host \/ host' = StartUpload(host, Target(r), r, local[Target(r)])
    BY <1>7 DEF BeginUpload, Succeeds, Fails
  <2>2. host'.installer = host.installer
    BY <1>0, <2>1, InstallerKept
  <2> QED
    BY <1>0, <1>7, <2>2 DEF BeginUpload, Succeeds, Fails
<1>8. CASE WriteInventory(r) \/ UploadVault(r) \/ UploadRoleFile(r)
  <2>1. host' = host \/ \E f : host' = PutFile(host, f)
    BY <1>8 DEF WriteInventory, UploadVault, UploadRoleFile, Succeeds, Fails
  <2>2. host'.installer = host.installer
    BY <1>0, <2>1, InstallerKept
  <2> QED
    BY <1>0, <1>8, <2>2 DEF WriteInventory, UploadVault, UploadRoleFile, Succeeds, Fails
<1>9. CASE PlayEnds(r)
  BY <1>0, <1>9 DEF PlayEnds, Succeeds, Fails
<1>10. CASE Cleanup(r)
  <2>1. host' = host \/ host' = RemoveAll(host)
    BY <1>10 DEF Cleanup, Succeeds
  <2>2. host'.installer = host.installer
    BY <1>0, <2>1, InstallerKept
  <2> QED
    BY <1>0, <1>10, <2>2 DEF Cleanup, Succeeds
<1> QED
  BY <1>1, <1>2, <1>3, <1>4, <1>5, <1>6, <1>7, <1>8, <1>9, <1>10 DEF Step, Deploy, Provision

(* A run that has the host to itself finds its own installer. *)
LEMMA InstallerStep ==
  ASSUME TypeInv, AloneInv, NEW r \in Runs, Step(r)
  PROVE  /\ InstallerAt(r)'
         /\ pc'[r] # "idle" /\ \A q \in Runs \ {r} : installed'[q] = installed[q]
         /\ pc'[r] \notin Executing \cup {"failed"} => installed'[r] = NoRun
<1>1. /\ AloneAt(r) /\ InstallerAt(r) /\ host \in Host /\ pc \in [Runs -> Labels]
      /\ settings' = settings /\ exclusive' = exclusive
      /\ installed \in [Runs -> Runs \cup {NoRun}]
  BY StepFrames DEF AloneInv, TypeInv, TypeOK, StepFrame
<1>2. Active(r)
  BY StepIsActive
<1>3. CASE ~Install(r)
  <2>1. NotAboutInstaller(r)
    BY <1>3, StepInstaller
  <2>2. pc'[r] \notin Executing \cup {"failed"} => pc[r] \notin Executing \cup {"failed"}
    <3>1. Step(r) /\ pc[r] \in Executing => pc'[r] \in Executing \cup {"failed"}
      BY <1>1, <1>3
      DEF Step, retryFunc, Connect, TimerFires, RetryPause, Deploy, DeployDone, SkipDisabled,
          DeployEntity, MakeBootstrap, CheckDir, BeginUpload, FinishUpload, WriteInventory,
          SkipVault, UploadVault, VaultDone, NextRole, RolesDone, MakeModuleDir, MakeRolesDir,
          UploadRoleFile, Provision, ExecutePlay, PlayEnds, PlaysDone, Cleanup, Succeeds, Fails,
          Silently, Goto, Executing
    <3> QED
      BY <1>2, <3>1 DEF Active
  <2> QED
    BY <1>1, <2>1, <2>2 DEF NotAboutInstaller, InstallerAt, AloneAt
<1>4. CASE Install(r)
  <2>1. installed[r] = NoRun /\ pc[r] \in {"installDir", "installUpload", "installRun"}
    BY <1>1, <1>4
    DEF Install, InstallDir, InstallUpload, InstallRun, AloneAt, Executing
  <2>2. CASE pc'[r] = "failed" /\ UNCHANGED runVars
    BY <1>1, <2>1, <2>2 DEF InstallerAt, runVars, Executing
  <2>3. CASE pc'[r] = "installUpload" /\ UNCHANGED runVars
    BY <1>1, <2>1, <2>3 DEF InstallerAt, runVars, Executing
  <2>4. CASE pc'[r] = "installRun" /\ UNCHANGED runVars /\ host' = PutInstaller(host, r)
    BY <1>1, <2>1, <2>4, InstallerKept DEF InstallerAt, runVars, Executing
  <2>5. CASE /\ pc[r] = "installRun" /\ pc'[r] = "play" /\ host' = PutInstaller(host, NoRun)
             /\ installed' = [installed EXCEPT ![r] = host.installer]
    <3>1. host'.installer = NoRun /\ installed'[r] = host.installer
      BY <1>1, <2>5, InstallerKept
    <3>2. \A q \in Runs \ {r} : installed'[q] = installed[q]
      BY <1>1, <2>5
    <3> QED
      BY <1>1, <2>5, <3>1, <3>2 DEF InstallerAt, Executing
  <2> QED
    BY <1>1, <1>4, <2>2, <2>3, <2>4, <2>5
    DEF Install, InstallDir, InstallUpload, InstallRun, Succeeds, Fails, Goto
<1> QED
  BY <1>3, <1>4

(* The end of a run that cleans up. *)
LEMMA CleanedStep ==
  ASSUME TypeInv, AloneInv, NEW r \in Runs, Step(r)
  PROVE  CleanedAt(r)'
<1>1. pc \in [Runs -> Labels] /\ host \in Host /\ faults \in Nat /\ settings' = settings
  BY StepFrames DEF TypeInv, TypeOK, StepFrame
<1>2. SUFFICES ASSUME pc'[r] = "done", ~settings[r].skipCleanup, faults' = 0
               PROVE  Clean(host)'
  BY <1>1 DEF CleanedAt
<1>3. Cleanup(r)
  BY <1>1, <1>2
  DEF Step, retryFunc, Connect, TimerFires, RetryPause, Deploy, DeployDone, SkipDisabled,
      DeployEntity, MakeBootstrap, CheckDir, BeginUpload, FinishUpload, WriteInventory,
      SkipVault, UploadVault, VaultDone, NextRole, RolesDone, MakeModuleDir, MakeRolesDir,
      UploadRoleFile, Install, InstallDir, InstallUpload, InstallRun, Provision, ExecutePlay,
      PlayEnds, PlaysDone, Succeeds, Fails, Silently, Goto, AfterTarget
<1>4. host' = RemoveAll(host)
  BY <1>1, <1>2, <1>3 DEF Cleanup, Succeeds
<1> QED
  BY <1>1, <1>4, RemoveAllCleans DEF Clean, Exists

-----------------------------------------------------------------------------
(* A step that ends no upload: what was staged still is. *)
LEMMA StagedKept ==
  ASSUME TypeInv, AloneInv, NEW r \in Runs, exclusive[r], pc[r] \in Working \ {"uploading"},
         Grows(host, host', r), SameUploads(host, host'), local' = local, settings' = settings
  PROVE  /\ DirsAt(r)'
         /\ \A i \in Index : override'[r][i] = override[r][i] => PathsOf(r, i)'
<1>1. DirsAt(r) /\ \A i \in Index : PathsOf(r, i)
  BY DEF AloneInv, StagedAt
<1>2. DirsAt(r)'
  BY <1>1 DEF DirsAt, Whole, SameUploads, Exists
<1>3. ASSUME NEW i \in Index, override'[r][i] = override[r][i] PROVE PathsOf(r, i)'
  <2>1. plays(r)' = plays(r) /\ PathsOf(r, i)
    BY <1>1 DEF plays
  <2>2. \A d \in Dirs : Exists(host, d) => Exists(host', d)
    BY DEF Grows
  <2>3. plays(r)[i].dir \in LocalDirs => plays(r)[i].dir \in Dirs
    BY DEF Dirs
  <2>4. override[r][i].roles \subseteq Dirs
    BY DEF TypeInv, TypeOK, Override, Dirs
  <2>5. \A loc : HasFile(host, loc, r) => HasFile(host', loc, r)
    BY DEF Grows
  <2>6. \A loc : HasFile(host, loc, r)' <=> HasFile(host', loc, r)
    BY DEF HasFile
  <2> QED
    BY <1>3, <2>1, <2>2, <2>3, <2>4, <2>5, <2>6 DEF PathsOf, NamedPaths, Exists
<1> QED
  BY <1>2, <1>3

(* Steps that change no override and upload nothing. *)
LEMMA QuietStaged ==
  ASSUME TypeInv, AloneInv, NEW r \in Runs, Step(r), exclusive[r],
         pc[r] \in Working \ {"uploading"}, pc'[r] # "upload",
         Grows(host, host', r), SameUploads(host, host'), override' = override
  PROVE  StagedAt(r)'
<1>1. local' = local /\ settings' = settings
  BY StepFrames DEF StepFrame
<1> QED
  BY <1>1, StagedKept DEF StagedAt

(* The file a step uploads is there when the override that names it is set. *)
LEMMA FileStaged ==
  ASSUME TypeInv, AloneInv, NEW r \in Runs, Step(r), exclusive[r],
         pc[r] \in Working \ {"uploading"}, pc'[r] # "upload", NEW i \in Index, i = cur[r],
         NEW loc, NEW n, host' = PutFile(host, FileAt(loc, r, n)),
         override'[r][i].file = override[r][i].file,
         override'[r][i].roles = override[r][i].roles,
         NamedPaths(override'[r][i]) \subseteq NamedPaths(override[r][i]) \cup {loc}
  PROVE  StagedAt(r)'
<1>1. host \in Host /\ local' = local /\ settings' = settings /\ plays(r)' = plays(r)
      /\ \A j \in Index \ {i} : override'[r][j] = override[r][j]
  BY StepFrames DEF StepFrame, TypeInv, TypeOK, plays
<1>2. Grows(host, host', r) /\ SameUploads(host, host') /\ HasFile(host', loc, r)
  BY <1>1, PutFileGrows
<1>3. DirsAt(r)' /\ \A j \in Index \ {i} : PathsOf(r, j)'
  BY <1>1, <1>2, StagedKept
<1>4. PathsOf(r, i)'
  <2>1. PathsOf(r, i)
    BY DEF AloneInv, StagedAt
  <2>2. \A d \in Dirs : Exists(host, d) => Exists(host', d)
    BY <1>2 DEF Grows
  <2>3. LocalDirs \subseteq Dirs /\ override[r][i].roles \subseteq Dirs
    BY DEF TypeInv, TypeOK, Override, Dirs
  <2>4. \A l \in NamedPaths(override'[r][i]) : HasFile(host', l, r)
    BY <1>2, <2>1 DEF Grows, PathsOf
  <2>5. \A l : HasFile(host, l, r)' <=> HasFile(host', l, r)
    BY DEF HasFile
  <2>6. override'[r][i].file =>
          /\ i \in DOMAIN plays(r) /\ plays(r)[i].dir \in LocalDirs
          /\ Exists(host', plays(r)[i].dir)
    BY <2>1, <2>2, <2>3 DEF PathsOf
  <2>7. \A d \in override'[r][i].roles : Exists(host', d)
    BY <2>1, <2>2, <2>3 DEF PathsOf
  <2>8. \A j : PathsOf(r, j)' <=>
          /\ override'[r][j].file =>
               /\ j \in DOMAIN plays(r) /\ plays(r)[j].dir \in LocalDirs
               /\ Exists(host', plays(r)[j].dir)
          /\ \A d \in override'[r][j].roles : Exists(host', d)
          /\ \A l \in NamedPaths(override'[r][j]) : HasFile(host', l, r)
    BY <1>1, <2>5 DEF PathsOf, Exists, NamedPaths
  <2> QED
    BY <2>4, <2>6, <2>7, <2>8
<1>5. \A j \in Index : PathsOf(r, j)'
  BY <1>3, <1>4
<1> QED
  BY <1>3, <1>5 DEF StagedAt

(* The end of an upload, or finding it unnecessary. *)
LEMMA TargetStaged ==
  ASSUME TypeInv, AloneInv, NEW r \in Runs, Step(r), exclusive[r], pc[r] \in AtTarget,
         NEW i, i = cur[r], Exists(host, Target(r)), TakeTarget(r), pc'[r] = AfterTarget(r),
         \/ pc[r] # "uploading" /\ host' = host
         \/ host' = EndUpload(host, Target(r), r)
  PROVE  StagedAt(r)'
<1> DEFINE t == Target(r)
<1>1. /\ host \in Host /\ local' = local /\ settings' = settings /\ plays(r)' = plays(r)
      /\ \A j \in Index \ {i} : override'[r][j] = override[r][j]
      /\ override \in [Runs -> [Index -> Override]]
  BY StepFrames DEF StepFrame, TypeInv, TypeOK, plays
<1>2. /\ t \in LocalDirs /\ t \in Dirs /\ i \in Index /\ i \in DOMAIN plays(r)
      /\ pc[r] \in Working /\ plays(r)[i] = play(r)
  BY TargetFacts, AtPlayFacts DEF AtTarget, AtPlay, Dirs, Working, Labels, play
<1>3. /\ Grows(host, host', r)
      /\ Whole(host, t) \/ (pc[r] = "uploading" /\ Begun(host, t, r)) => Whole(host', t)
      /\ \A e \in LocalDirs \ {t} : host'.dirs[e] = host.dirs[e]
  BY <1>1, <1>2, EndUploadGrows, SameHostGrows DEF SameUploads
<1>4. DirsAt(r) /\ \A j \in Index : PathsOf(r, j)
  BY <1>2 DEF AloneInv, StagedAt
<1> HIDE DEF t
<1>5. DirsAt(r)'
  <2>1. \A d \in LocalDirs : Whole(host', d)
    <3>1. Whole(host', t)
      BY <1>2, <1>3, <1>4 DEF DirsAt, t
    <3>2. ASSUME NEW d \in LocalDirs \ {t} PROVE Whole(host', d)
      BY <1>3, <1>4 DEF DirsAt, Whole, Exists, t
    <3> QED
      BY <3>1, <3>2
  <2>2. \A d : Whole(host, d)' <=> Whole(host', d)
    BY <1>1 DEF Whole, Exists
  <2> QED
    BY <2>1, <2>2 DEF DirsAt
<1>6. \A d \in Dirs : Exists(host, d) => Exists(host', d)
  BY <1>3 DEF Grows
<1>7. \A j : PathsOf(r, j)' <=>
        /\ override'[r][j].file =>
             /\ j \in DOMAIN plays(r) /\ plays(r)[j].dir \in LocalDirs
             /\ Exists(host', plays(r)[j].dir)
        /\ \A d \in override'[r][j].roles : Exists(host', d)
        /\ \A l \in NamedPaths(override'[r][j]) : HasFile(host', l, r)
  BY <1>1 DEF PathsOf, Exists, NamedPaths, HasFile
<1>8. ASSUME NEW j \in Index PROVE PathsOf(r, j)'
  <2>1. /\ PathsOf(r, j) /\ LocalDirs \subseteq Dirs /\ override[r][j].roles \subseteq Dirs
        /\ override[r][j] \in Override
    BY <1>1, <1>4 DEF Override, Dirs
  <2>2. /\ NamedPaths(override'[r][j]) = NamedPaths(override[r][j])
        /\ override'[r][j].file => override[r][j].file \/ (j = i /\ item[r] = 0)
        /\ override'[r][j].roles \subseteq override[r][j].roles
              \cup (IF j = i /\ item[r] # 0 THEN {t} ELSE {})
    <3>1. CASE j # i
      BY <1>1, <3>1
    <3>2. CASE j = i /\ item[r] = 0
      <4>1. override' = [override EXCEPT ![r][i].file = TRUE]
        BY <3>2 DEF TakeTarget
      <4>2. override'[r][i] = [override[r][i] EXCEPT !.file = TRUE]
        BY <1>1, <1>2, <4>1
      <4> QED
        BY <2>1, <3>2, <4>2 DEF Override, NamedPaths
    <3>3. CASE j = i /\ item[r] # 0
      <4>1. override' = [override EXCEPT ![r][i].roles = @ \cup {t}]
        BY <3>3 DEF TakeTarget, t
      <4>2. override'[r][i] = [override[r][i] EXCEPT !.roles = @ \cup {t}]
        BY <1>1, <1>2, <4>1
      <4> QED
        BY <2>1, <3>3, <4>2 DEF Override, NamedPaths
    <3> QED
      BY <3>1, <3>2, <3>3
  <2>3. Exists(host', t)
    BY <1>2, <1>6 DEF t
  <2>4. override'[r][j].file =>
          /\ j \in DOMAIN plays(r) /\ plays(r)[j].dir \in LocalDirs
          /\ Exists(host', plays(r)[j].dir)
    <3>1. CASE override[r][j].file
      BY <1>6, <2>1, <3>1 DEF PathsOf
    <3>2. CASE j = i /\ item[r] = 0
      BY <1>2, <2>3, <3>2 DEF Target, t
    <3> QED
      BY <2>2, <3>1, <3>2
  <2>5. \A d \in override'[r][j].roles : Exists(host', d)
    <3>1. \A d \in override[r][j].roles : Exists(host', d)
      BY <1>6, <2>1 DEF PathsOf
    <3> QED
      BY <2>2, <2>3, <3>1
  <2>6. \A l \in NamedPaths(override'[r][j]) : HasFile(host', l, r)
    BY <1>3, <2>1, <2>2 DEF PathsOf, Grows
  <2> QED
    BY <1>7, <2>4, <2>5, <2>6
<1> QED
  BY <1>5, <1>8 DEF StagedAt, AfterTarget

(* An upload begins into a directory that is not there. *)
LEMMA BeginStaged ==
  ASSUME TypeInv, AloneInv, NEW r \in Runs, Step(r), exclusive[r], pc[r] = "upload",
         host' = StartUpload(host, Target(r), r, local[Target(r)]), pc'[r] = "uploading",
         UNCHANGED runVars
  PROVE  StagedAt(r)'
<1> DEFINE t == Target(r)
<1>1. /\ host \in Host /\ local' = local /\ settings' = settings /\ plays(r)' = plays(r)
      /\ override' = override /\ Target(r)' = t
  BY StepFrames DEF StepFrame, TypeInv, TypeOK, plays, runVars, Target, play
<1>2. t \in LocalDirs /\ pc[r] \in Working /\ pc[r] # "uploading"
  BY TargetFacts DEF AtTarget, Working, Labels
<1>3. ~Exists(host, t) /\ DirsAt(r) /\ \A j \in Index : PathsOf(r, j)
  BY <1>2 DEF AloneInv, StagedAt
<1>4. /\ Grows(host, host', r) /\ Begun(host', t, r)
      /\ \A e \in LocalDirs \ {t} : host'.dirs[e] = host.dirs[e]
  BY <1>1, <1>2, <1>3, StartUploadGrows DEF Begun
<1> HIDE DEF t
<1>5. DirsAt(r)'
  <2>1. \A d \in LocalDirs \ {t} : Whole(host', d)
    BY <1>2, <1>3, <1>4 DEF DirsAt, Whole, Exists
  <2>2. \A d : Whole(host, d)' <=> Whole(host', d)
    BY <1>1 DEF Whole, Exists
  <2>3. Begun(host, t, r)' <=> Begun(host', t, r)
    BY <1>1 DEF Begun, t
  <2>4. \A d \in LocalDirs : Whole(host, d)' \/ (d = t /\ Begun(host, d, r)')
    BY <1>1, <1>4, <2>1, <2>2 DEF Begun
  <2> QED
    BY <1>1, <2>4 DEF DirsAt
<1>6. ASSUME NEW j \in Index PROVE PathsOf(r, j)'
  <2>1. PathsOf(r, j) /\ LocalDirs \subseteq Dirs /\ override[r][j].roles \subseteq Dirs
    BY <1>3 DEF TypeInv, TypeOK, Override, Dirs
  <2>2. \A d \in Dirs : Exists(host, d) => Exists(host', d)
    BY <1>4 DEF Grows
  <2>3. \A l : HasFile(host, l, r) => HasFile(host, l, r)'
    BY <1>4 DEF Grows, HasFile
  <2> QED
    BY <1>1, <2>1, <2>2, <2>3 DEF PathsOf, NamedPaths, Exists
<1> QED
  BY <1>5, <1>6 DEF StagedAt

(* What a run that has the host to itself has staged, it keeps staged.      *)
LEMMA StagedStep ==
  ASSUME TypeInv, AloneInv, NEW r \in Runs, Step(r)
  PROVE  StagedAt(r)'
<1>1. /\ exclusive' = exclusive /\ local' = local /\ settings' = settings
      /\ host \in Host /\ pc \in [Runs -> Labels] /\ Active(r)
      /\ override \in [Runs -> [Index -> Override]]
  BY StepFrames, StepIsActive DEF StepFrame, TypeInv, TypeOK
<1>2. SUFFICES ASSUME exclusive[r], pc'[r] # "failed", pc[r] \in Working
               PROVE  StagedAt(r)'
  <2>1. pc[r] = "cleanup" => pc'[r] \in {"done", "failed"}
    BY <1>1
    DEF Step, retryFunc, Connect, TimerFires, RetryPause, Deploy, DeployDone, SkipDisabled,
        DeployEntity, MakeBootstrap, CheckDir, BeginUpload, FinishUpload, WriteInventory,
        SkipVault, UploadVault, VaultDone, NextRole, RolesDone, MakeModuleDir, MakeRolesDir,
        UploadRoleFile, Install, InstallDir, InstallUpload, InstallRun, Provision, ExecutePlay,
        PlayEnds, PlaysDone, Cleanup, Succeeds, Silently, Goto
  <2>2. pc[r] \in Working \cup {"cleanup"}
    BY <1>1 DEF Active, Working
  <2> QED
    BY <1>1, <1>2, <2>1, <2>2 DEF StagedAt, Working
<1>3. CASE \/ retryFunc(r) \/ DeployDone(r) \/ SkipDisabled(r) \/ DeployEntity(r) \/ SkipVault(r)
           \/ VaultDone(r) \/ NextRole(r) \/ RolesDone(r) \/ ExecutePlay(r) \/ PlaysDone(r)
           \/ PlayEnds(r)
  <2>1. /\ host' = host /\ override' = override
        /\ pc[r] # "uploading" /\ pc'[r] # "upload"
    BY <1>1, <1>2, <1>3
    DEF retryFunc, Connect, TimerFires, RetryPause, DeployDone, SkipDisabled, DeployEntity,
        SkipVault, VaultDone, NextRole, RolesDone, ExecutePlay, PlaysDone, PlayEnds, Succeeds,
        Fails, Silently, Goto, runVars
  <2> QED
    BY <1>2, <2>1, SameHostGrows, QuietStaged
<1>4. CASE MakeBootstrap(r)
  <2>1. /\ host' = MakeDir(host, Bootstrap) /\ override' = override
        /\ pc[r] # "uploading" /\ pc'[r] # "upload"
    BY <1>1, <1>2, <1>4 DEF MakeBootstrap, Succeeds, Fails, Goto, runVars
  <2>2. Bootstrap \in Dirs \ LocalDirs
    BY HostAssumption DEF Dirs
  <2> QED
    BY <1>1, <1>2, <2>1, <2>2, MakeDirGrows, QuietStaged
<1>5. CASE MakeModuleDir(r) \/ MakeRolesDir(r)
  <2>1. /\ host' = MakeDir(host, play(r).dir) /\ override' = override
        /\ pc[r] \in {"moduleDir", "rolesDir"} /\ pc'[r] # "upload"
    BY <1>1, <1>2, <1>5 DEF MakeModuleDir, MakeRolesDir, Succeeds, Fails, Goto, runVars
  <2>2. play(r).dir \in Dirs \ LocalDirs
    <3>1. play(r).kind # "playbook" /\ play(r).dir \in MadeDirs
      BY <2>1, AtPlayFacts DEF AtPlay, ControlAt
    <3> QED
      BY <3>1, HostAssumption DEF Dirs
  <2> QED
    BY <1>1, <1>2, <2>1, <2>2, MakeDirGrows, QuietStaged
<1>6. CASE Install(r)
  <2>1. /\ host' = host \/ \E who : host' = PutInstaller(host, who)
        /\ override' = override /\ pc[r] # "uploading" /\ pc'[r] # "upload"
    BY <1>1, <1>2, <1>6
    DEF Install, InstallDir, InstallUpload, InstallRun, Succeeds, Fails, Goto, runVars
  <2>2. Grows(host, host', r) /\ SameUploads(host, host')
    BY <1>1, <2>1, SameHostGrows, PutInstallerGrows
  <2> QED
    BY <1>2, <2>1, <2>2, QuietStaged
<1>7. CASE WriteInventory(r) \/ UploadVault(r) \/ UploadRoleFile(r)
  <2>1. PICK i : i = cur[r]
    OBVIOUS
  <2>2. i \in Index /\ override[r][i] \in Override
    BY <1>1, <1>7, <2>1, AtPlayFacts
    DEF WriteInventory, UploadVault, UploadRoleFile, AtPlay
  <2> DEFINE o == override[r][i]
  <2>3. CASE WriteInventory(r)
    <3> DEFINE loc == [dir |-> play(r).dir, name |-> FreshName(r, cur[r], "inventory", 0)]
    <3>1. /\ host' = PutFile(host, FileAt(loc, r, cur[r]))
          /\ override' = [override EXCEPT ![r][i].inventory = {loc}]
          /\ pc[r] # "uploading" /\ pc'[r] # "upload"
      BY <1>1, <1>2, <2>1, <2>3 DEF WriteInventory, Succeeds, Fails, Goto
    <3> HIDE DEF loc
    <3>2. override'[r][i] = [o EXCEPT !.inventory = {loc}]
      BY <1>1, <2>2, <3>1
    <3>3. /\ override'[r][i].file = o.file /\ override'[r][i].roles = o.roles
          /\ NamedPaths(override'[r][i]) \subseteq NamedPaths(o) \cup {loc}
      BY <2>2, <3>2 DEF Override, NamedPaths
    <3> QED
      BY <1>2, <2>1, <2>2, <3>1, <3>3, FileStaged
  <2>4. CASE UploadVault(r)
    <3> DEFINE loc == [dir |-> play(r).dir, name |-> FreshName(r, cur[r], "vault", item[r])]
    <3>1. /\ host' = PutFile(host, FileAt(loc, r, cur[r]))
          /\ override' = [override EXCEPT ![r][i].vault = @ \cup {loc}]
          /\ pc[r] # "uploading" /\ pc'[r] # "upload"
      BY <1>1, <1>2, <2>1, <2>4 DEF UploadVault, Succeeds, Fails, Goto
    <3> HIDE DEF loc
    <3>2. override'[r][i] = [o EXCEPT !.vault = @ \cup {loc}]
      BY <1>1, <2>2, <3>1
    <3>3. /\ override'[r][i].file = o.file /\ override'[r][i].roles = o.roles
          /\ NamedPaths(override'[r][i]) \subseteq NamedPaths(o) \cup {loc}
      BY <2>2, <3>2 DEF Override, NamedPaths
    <3> QED
      BY <1>2, <2>1, <2>2, <3>1, <3>3, FileStaged
  <2>5. CASE UploadRoleFile(r)
    <3> DEFINE loc == [dir |-> Bootstrap, name |-> RoleFileName(play(r))]
    <3>1. /\ host' = PutFile(host, FileAt(loc, r, 0))
          /\ override' = [override EXCEPT ![r][i].roleFile = {loc}]
          /\ pc[r] # "uploading" /\ pc'[r] # "upload"
      BY <1>1, <1>2, <2>1, <2>5 DEF UploadRoleFile, Succeeds, Fails, Goto
    <3> HIDE DEF loc
    <3>2. override'[r][i] = [o EXCEPT !.roleFile = {loc}]
      BY <1>1, <2>2, <3>1
    <3>3. /\ override'[r][i].file = o.file /\ override'[r][i].roles = o.roles
          /\ NamedPaths(override'[r][i]) \subseteq NamedPaths(o) \cup {loc}
      BY <2>2, <3>2 DEF Override, NamedPaths
    <3> QED
      BY <1>2, <2>1, <2>2, <3>1, <3>3, FileStaged
  <2> QED
    BY <1>7, <2>3, <2>4, <2>5
<1>8. CASE CheckDir(r)
  <2>1. pc[r] = "check" /\ host' = host
    BY <1>8 DEF CheckDir, Succeeds, Fails
  <2>2. CASE Exists(host, Target(r)) /\ TakeTarget(r) /\ pc'[r] = AfterTarget(r)
    BY <1>2, <2>1, <2>2, TargetStaged DEF AtTarget
  <2>3. CASE ~Exists(host, Target(r)) /\ pc'[r] = "upload" /\ UNCHANGED runVars
    <3>1. Target(r)' = Target(r) /\ override' = override
      BY <1>1, <2>3 DEF runVars, Target, play, plays
    <3>2. DirsAt(r)' /\ \A i \in Index : PathsOf(r, i)'
      BY <1>1, <1>2, <2>1, <3>1, SameHostGrows, StagedKept
    <3>3. ~Exists(host, Target(r))'
      BY <2>1, <2>3, <3>1 DEF Exists
    <3> QED
      BY <3>2, <3>3 DEF StagedAt
  <2> QED
    BY <1>1, <1>2, <1>8, <2>2, <2>3 DEF CheckDir, Succeeds, Fails, Goto
<1>9. CASE BeginUpload(r)
  <2>1. /\ pc[r] = "upload" /\ pc'[r] = "uploading" /\ UNCHANGED runVars
        /\ host' = StartUpload(host, Target(r), r, local[Target(r)])
    BY <1>1, <1>2, <1>9 DEF BeginUpload, Succeeds, Fails, Goto
  <2> QED
    BY <1>2, <2>1, BeginStaged
<1>10. CASE FinishUpload(r)
  <2>1. /\ pc[r] = "uploading" /\ pc'[r] = AfterTarget(r) /\ TakeTarget(r)
        /\ Exists(host, Target(r)) /\ host' = EndUpload(host, Target(r), r)
    BY <1>1, <1>2, <1>10 DEF FinishUpload, Succeeds, Fails, Goto
  <2> QED
    BY <1>2, <2>1, TargetStaged DEF AtTarget
<1>11. CASE Cleanup(r)
  BY <1>2, <1>11 DEF Cleanup, Working
<1> QED
  BY <1>3, <1>4, <1>5, <1>6, <1>7, <1>8, <1>9, <1>10, <1>11 DEF Step, Deploy, Provision

-----------------------------------------------------------------------------
(* A step of r is no step of a run that has the host to itself, unless it   *)
(* is r.                                                                    *)
LEMMA AloneStep ==
  ASSUME TypeInv, AloneInv, NEW r \in Runs, Step(r)
  PROVE  AloneInv'
<1>1. /\ \A q \in Runs \ {r} : pc'[q] = pc[q] /\ override'[q] = override[q]
      /\ exclusive' = exclusive /\ settings' = settings /\ Active(r)
  BY StepFrames, StepIsActive DEF StepFrame
<1>2. ASSUME NEW q \in Runs, q # r
      PROVE  AloneAt(q)' /\ InstallerAt(q)' /\ CleanedAt(q)' /\ StagedAt(q)'
  <2>1. ~exclusive[q] /\ ~exclusive'[q]
    BY <1>1, <1>2 DEF AloneInv, AloneAt
  <2>2. installed'[q] = installed[q] /\ pc'[q] = pc[q] /\ override'[q] = override[q]
    BY <1>1, <1>2, InstallerStep
  <2> QED
    BY <2>1, <2>2 DEF AloneInv, AloneAt, InstallerAt, CleanedAt, StagedAt
<1>3. AloneAt(r)'
  <2>1. \A q \in Runs \ {r} : Active(q)' <=> Active(q)
    BY <1>1 DEF Active
  <2> QED
    BY <1>1, <2>1, InstallerStep DEF AloneInv, AloneAt
<1> QED
  BY <1>2, <1>3, InstallerStep, CleanedStep, StagedStep DEF AloneInv

(* A run that starts has the host to itself if it is clean and no other is  *)
(* active, and from then on no other run has.                               *)
LEMMA AloneStart ==
  ASSUME TypeInv, AloneInv, NEW r \in Runs, Start(r)
  PROVE  AloneInv'
<1>1. /\ pc[r] = "idle" /\ pc' = [pc EXCEPT ![r] = "connect"] /\ pc \in [Runs -> Labels]
      /\ exclusive' = [q \in Runs |-> q = r /\ Clean(host) /\ \A s \in Runs : ~Active(s)]
      /\ UNCHANGED <<settings, override, installed, host, local, item>>
  BY DEF Start, Goto, runVars, TypeInv, TypeOK
<1>2. ASSUME NEW q \in Runs, q # r
      PROVE  AloneAt(q)' /\ InstallerAt(q)' /\ CleanedAt(q)' /\ StagedAt(q)'
  <2>1. ~exclusive'[q] /\ pc'[q] = pc[q]
    BY <1>1, <1>2
  <2> QED
    BY <1>1, <2>1 DEF AloneInv, AloneAt, InstallerAt, CleanedAt, StagedAt
<1>3. AloneAt(r) /\ installed[r] = NoRun /\ pc'[r] = "connect"
      /\ \A i \in Index : override[r][i] = NoOverride
  BY <1>1 DEF AloneInv, AloneAt, Executing
<1>4. AloneAt(r)'
  <2>1. exclusive'[r] => \A s \in Runs \ {r} : pc'[s] = pc[s] /\ ~Active(s)
    BY <1>1
  <2> QED
    BY <1>1, <1>3, <2>1 DEF AloneAt, Active
<1>5. InstallerAt(r)' /\ CleanedAt(r)'
  BY <1>1, <1>3 DEF InstallerAt, CleanedAt, Executing
<1>6. StagedAt(r)'
  <2>1. SUFFICES ASSUME Clean(host) PROVE StagedAt(r)'
    BY <1>1 DEF StagedAt
  <2>2. \A d \in LocalDirs : ~Exists(host', d)
    BY <1>1, <2>1 DEF Clean, Exists, Dirs
  <2>3. DirsAt(r)'
    BY <2>2 DEF DirsAt, Whole, Exists
  <2>4. \A i \in Index : PathsOf(r, i)'
    BY <1>1, <1>3 DEF PathsOf, NamedPaths, NoOverride
  <2> QED
    BY <1>3, <2>3, <2>4 DEF StagedAt
<1> QED
  BY <1>2, <1>4, <1>5, <1>6 DEF AloneInv

(* While a directory is edited no run is active. *)
LEMMA AloneEdit ==
  ASSUME TypeInv, AloneInv, NEW d \in LocalDirs, Edit(d)
  PROVE  AloneInv'
<1>1. /\ \A r \in Runs : ~Active(r)
      /\ UNCHANGED <<settings, pc, host, faults, exclusive, override, installed>>
  BY DEF Edit, runVars
<1>2. ASSUME NEW r \in Runs
      PROVE  AloneAt(r)' /\ InstallerAt(r)' /\ CleanedAt(r)' /\ StagedAt(r)'
  <2>1. pc[r] \notin Working
    BY <1>1 DEF Active, Working
  <2> QED
    BY <1>1, <2>1
    DEF AloneInv, AloneAt, InstallerAt, CleanedAt, StagedAt, Active, Clean, Exists
<1> QED
  BY <1>2 DEF AloneInv

LEMMA AloneInductive ==
  /\ Init => AloneInv
  /\ TypeInv /\ AloneInv /\ [Next]_vars => AloneInv'
<1>1. ASSUME Init PROVE AloneInv
  BY <1>1 DEF Init, AloneInv, AloneAt, InstallerAt, CleanedAt, StagedAt, Executing
<1>2. ASSUME TypeInv, AloneInv, UNCHANGED vars PROVE AloneInv'
  <2>1. ASSUME NEW r \in Runs
        PROVE  AloneAt(r)' /\ InstallerAt(r)' /\ CleanedAt(r)' /\ StagedAt(r)'
    <3>1. AloneAt(r) /\ InstallerAt(r) /\ CleanedAt(r) /\ StagedAt(r)
      BY <1>2 DEF AloneInv
    <3>2. AloneAt(r)' /\ InstallerAt(r)' /\ CleanedAt(r)'
      BY <1>2, <3>1 DEF vars, AloneAt, InstallerAt, CleanedAt, Active, Clean, Exists
    <3>3. DirsAt(r)' <=> DirsAt(r)
      BY <1>2 DEF vars, DirsAt, Whole, Begun, Exists, Target, play, plays
    <3>4. \A i \in Index : PathsOf(r, i)' <=> PathsOf(r, i)
      BY <1>2 DEF vars, PathsOf, NamedPaths, HasFile, Exists, plays
    <3>5. Exists(host, Target(r))' <=> Exists(host, Target(r))
      BY <1>2 DEF vars, Exists, Target, play, plays
    <3>6. StagedAt(r)'
      BY <1>2, <3>1, <3>3, <3>4, <3>5 DEF vars, StagedAt
    <3> QED
      BY <3>2, <3>6
  <2> QED
    BY <2>1 DEF AloneInv
<1> QED
  BY <1>1, <1>2, AloneStep, AloneStart, AloneEdit DEF Next

LEMMA AloneAlways == Spec => [](TypeInv /\ AloneInv)
BY AloneInductive, TypeInductive, PTL DEF Spec

-----------------------------------------------------------------------------
(* With the host to itself a run executes the installer it uploaded, and it *)
(* is gone when the run succeeds.                                           *)
THEOREM InstallerIsOwn == Spec => []OwnInstaller
<1>1. AloneInv => OwnInstaller
  BY DEF AloneInv, InstallerAt, OwnInstaller, Executing
<1> QED
  BY <1>1, AloneAlways, PTL

(* A run that has the host to itself, succeeds and was not told otherwise   *)
(* leaves nothing, unless the error of rm -rf was dropped.                  *)
THEOREM CleansAfterSuccess == Spec => []CleanAfterSuccess
<1>1. AloneInv => CleanAfterSuccess
  BY DEF AloneInv, CleanedAt, CleanAfterSuccess
<1> QED
  BY <1>1, AloneAlways, PTL

(* A run that has the host to itself executes an enabled play only with all *)
(* its overrides set, and what they name on the host, whole, its own and in *)
(* the version the controller has: for any playlists, with directories      *)
(* shared among plays, and wherever an operation fails.                     *)
THEOREM EverythingIsStaged == Spec => []StagedForUse
<1>1. TypeInv /\ AloneInv /\ AllDeployedBeforeAny => StagedForUse
  <2> SUFFICES ASSUME TypeInv, AloneInv, AllDeployedBeforeAny, NEW r \in Runs,
                      exclusive[r], pc[r] = "running", play(r).enabled
               PROVE  Complete(r, cur[r]) /\ Arrived(r, cur[r])
    BY DEF StagedForUse
  <2>1. cur[r] \in DOMAIN plays(r) /\ cur[r] \in Index
    BY AtPlayFacts DEF AtPlay
  <2>2. Complete(r, cur[r])
    BY <2>1 DEF AllDeployedBeforeAny, play
  <2>3. DirsAt(r) /\ PathsOf(r, cur[r])
    BY <2>1 DEF AloneInv, StagedAt, Working, Labels
  <2>4. \A d \in LocalDirs : Exists(host, d) => IsCurrent(d)
    BY <2>3 DEF DirsAt, Whole, IsCurrent
  <2>5. override[r][cur[r]].roles \subseteq LocalDirs
    BY <2>1 DEF TypeInv, TypeOK, Override
  <2> QED
    BY <2>2, <2>3, <2>4, <2>5 DEF Arrived, PathsOf, NamedPaths, HasFile
<1> QED
  BY <1>1, AloneAlways, DeployedBeforeAny, PTL
=============================================================================
