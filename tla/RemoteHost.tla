----------------------------- MODULE RemoteHost -----------------------------
(***************************************************************************)
(* The file system of the host that remote mode provisions, below the      *)
(* bootstrap directory and at the installer path, with what terraform's    *)
(* SSH communicator (UploadDir, Upload, UploadScript) and the shell        *)
(* commands of mode_remote.go do to it.  The communicator is a library:    *)
(* these operators are modelled from how mode_remote.go uses it.           *)
(***************************************************************************)
EXTENDS Integers

CONSTANTS
  Runs,       \* provisioner runs: one per `provisioner "ansible"` block applied
  NoRun,      \* a value that is no run
  LocalDirs,  \* remote directories UploadDir fills: named by the md5 of a local path
  MadeDirs,   \* remote directories only mkdir -p makes: module and galaxy role paths
  Bootstrap   \* the bootstrap directory itself, parent of all the others

ASSUME HostAssumption ==
  /\ NoRun \notin Runs
  /\ Bootstrap \notin LocalDirs \cup MadeDirs
  /\ LocalDirs \cap MadeDirs = {}

Dirs == LocalDirs \cup MadeDirs \cup {Bootstrap}

(* "partial" is a directory whose upload has begun and not ended, for      *)
(* whatever reason; ver is the version of the local directory it was       *)
(* uploaded from, and by the run that uploads it.                          *)
DirState == [st : {"absent", "made", "partial", "full"}, ver : Nat, by : Runs \cup {NoRun}]

(* A file's name: a fresh uuid is named by who drew it, for which play, for *)
(* what and the how manyth; a galaxy role file by the md5 of its path.      *)
Name == [run : Runs \cup {NoRun}, play : Nat, kind : {"inventory", "vault", "rolefile"}, n : Nat]
Loc  == [dir : Dirs, name : Name]
File == [dir : Dirs, name : Name, by : Runs, play : Nat]

Host == [dirs : [Dirs -> DirState], files : SUBSET File, installer : Runs \cup {NoRun}]

AbsentDir == [st |-> "absent", ver |-> 0, by |-> NoRun]
MadeDir   == [st |-> "made", ver |-> 0, by |-> NoRun]

Exists(h, d) == h.dirs[d].st # "absent"
Clean(h) == h.files = {} /\ \A d \in Dirs : ~Exists(h, d)
Holds(h, loc) == \E f \in h.files : f.dir = loc.dir /\ f.name = loc.name

EmptyHost == [dirs |-> [d \in Dirs |-> AbsentDir], files |-> {}, installer |-> NoRun]

(* mkdir -p of d, a directory under the bootstrap directory or itself. *)
MakeDir(h, d) ==
  [h EXCEPT !.dirs = [e \in Dirs |->
     IF e \in {d, Bootstrap} /\ h.dirs[e].st = "absent" THEN MadeDir ELSE h.dirs[e]]]

(* scp -r starts to fill d.  A directory that is there already receives a  *)
(* nested copy and keeps its own content.                                  *)
StartUpload(h, d, r, v) ==
  IF Exists(h, d) THEN h
  ELSE [h EXCEPT !.dirs[d] = [st |-> "partial", ver |-> v, by |-> r]]

(* scp -r of run r comes to its end. *)
EndUpload(h, d, r) ==
  IF h.dirs[d].by = r /\ h.dirs[d].st = "partial"
  THEN [h EXCEPT !.dirs[d].st = "full"] ELSE h

PutFile(h, f) ==
  [h EXCEPT !.files = {g \in h.files : g.dir # f.dir \/ g.name # f.name} \cup {f}]

PutInstaller(h, r) == [h EXCEPT !.installer = r]

(* rm -rf of the bootstrap directory. *)
RemoveAll(h) == [h EXCEPT !.dirs = [d \in Dirs |-> AbsentDir], !.files = {}]
=============================================================================
