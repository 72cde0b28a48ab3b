----------------------------- MODULE LocalMode -----------------------------
(***************************************************************************)
(* mode/mode_local.go: LocalMode.Run, with the host key it needs for the   *)
(* target (targetHost.fetchHostKey, or bastionKeyScan.scan on the bastion) *)
(* and the temporary files it writes and removes by deferred calls.  The   *)
(* target is a machine that may still be booting: it comes up, accepts the *)
(* user, and may generate its host key anew while the run retries.  A       *)
(* bastion may stop answering in the middle of it.                          *)
(***************************************************************************)
EXTENDS SshHost, Integers, Sequences, SequencesExt

CONSTANTS
  Connections,    \* the connection blocks a run may be given
  Playlists,      \* the lists of plays
  MaxPlays,       \* bound on their length
  KeyscanSeconds, \* ansible_ssh_settings.ssh_keyscan_timeout
  MaxFaults,      \* bound on local and bastion operations that fail
  MaxRekeys       \* bound on the times the target changes its host key

Index == 1 .. MaxPlays

(* The connection block as Terraform hands it over (compute is Host # "",   *)
(* bastion is BastionHost # "") and, beside it, SSH_AUTH_SOCK: not set, the  *)
(* socket of an agent, or that of one that is gone.                         *)
Connection == [compute : BOOLEAN, bastion : BOOLEAN, privateKey : Pem, bastionPrivateKey : Pem,
               agent : {"", "true", "false"}, socket : {"none", "live", "stale"},
               hostKey : Keys \cup {NoKey}, bastionHostKey : Keys \cup {NoKey}]
(* hosts: is any host listed, by the play or the defaults? *)
Play == [enabled : BOOLEAN, hosts : BOOLEAN, inventoryFile : BOOLEAN]

ASSUME LocalAssumption ==
  /\ MaxPlays \in Nat /\ KeyscanSeconds \in Nat
  /\ MaxFaults \in Nat /\ MaxRekeys \in Nat
  /\ Connections \subseteq Connection
  /\ \A l \in Playlists : l \in Seq(Play) /\ DOMAIN l \in SUBSET Index

VARIABLES
  conn,      \* the connection block
  ssh,       \* insecure_no_strict_host_key_checking and user_known_hosts_file
  plays,
  pc,        \* the operation Run is about to do
  cur,       \* index of the current play
  outcome,   \* what Run returns, once it does
  files,     \* files on the controller: the temporary and the provided ones
  deferred,  \* the removals deferred, the last one on top
  args,      \* the paths LocalModeAnsibleArgs carries
  inventory, \* play -> the inventory it is given
  hostKey,   \* connInfo.HostKey
  bastionKey,\* connInfo.BastionHostKey
  entries,   \* the known_hosts entries: knownHostsTarget, knownHostsBastion
  scanned,   \* the temporary known hosts file on the bastion
  spentMs,   \* timeSpentMs of the retry loops
  target,    \* the target host
  rekeys,    \* how often its key has changed
  stalled,   \* has the bastion stopped answering?
  shown,     \* history: the keys it presented to fetchHostKey
  leaked,    \* history: files created by an operation that then failed
  faults,
  ran        \* history: the plays that have succeeded

config == <<conn, ssh, plays>>
keyVars == <<hostKey, bastionKey, entries, scanned, spentMs, shown>>
fileVars == <<files, deferred, args, inventory, leaked>>
hostVars == <<target, rekeys, stalled>>
vars == <<config, pc, cur, outcome, fileVars, keyVars, hostVars, faults, ran>>

Labels == {"idle", "new", "validate", "bastionPem", "targetPem", "bastion", "keys",
           "scanDir", "scan", "scanWait", "scanRead", "fetch", "fetchWait",
           "knownBastion", "knownTarget", "play", "running", "unwind", "done", "failed"}

Kinds == {"none", "bastionPem", "targetPem", "bastionHosts", "targetHosts", "inventory", "provided"}
File == [kind : Kinds, play : Nat]
Temp(kind) == [kind |-> kind, play |-> 0]
NoFile == Temp("none")
Provided(i) == [kind |-> "provided", play |-> i]

timeoutMs == KeyscanSeconds * 1000
intervalMs == 5000

play == plays[cur]
insecure == ssh.insecure \/ ~conn.compute
Ended == pc \in {"done", "failed"}

Init ==
  /\ conn \in Connections
  /\ ssh \in [insecure : BOOLEAN, userKnownHosts : BOOLEAN]
  /\ plays \in Playlists
  /\ pc = "idle" /\ cur = 1 /\ outcome = "none"
  /\ files = {Provided(i) : i \in {j \in DOMAIN plays : plays[j].inventoryFile}}
  /\ deferred = <<>> /\ leaked = {}
  /\ args = [targetPem |-> NoFile, bastionPem |-> NoFile,
             targetHosts |-> NoFile, bastionHosts |-> NoFile]
  /\ inventory = [i \in Index |-> IF Provided(i) \in files THEN Provided(i) ELSE NoFile]
  /\ hostKey = conn.hostKey /\ bastionKey = conn.bastionHostKey
  /\ entries = [target |-> <<>>, bastion |-> <<>>]
  /\ scanned = NoKey /\ spentMs = 0 /\ shown = <<>>
  /\ target \in Server /\ rekeys = 0 /\ stalled = FALSE
  /\ faults = 0 /\ ran = {}

-----------------------------------------------------------------------------
Goto(label) == pc' = label /\ UNCHANGED outcome
Return(result) == pc' = "unwind" /\ outcome' = result

Fault == faults < MaxFaults /\ faults' = faults + 1

(* TempFile, WriteFile, defer os.Remove: the path goes where the caller      *)
(* puts it.  When it is WriteFile that fails, the file stays and nobody      *)
(* knows its name.                                                           *)
Created(f, next) ==
  /\ files' = files \cup {f} /\ deferred' = Append(deferred, f)
  /\ Goto(next) /\ UNCHANGED <<leaked, faults>>
NotCreated(f) ==
  /\ Fault /\ Return("error")
  /\ \/ UNCHANGED <<files, leaked>>
     \/ files' = files \cup {f} /\ leaked' = leaked \cup {f}
  /\ UNCHANGED <<deferred, args, inventory>>

Start ==
  /\ pc = "idle" /\ Goto("new")
  /\ UNCHANGED <<config, cur, fileVars, keyVars, hostVars, faults, ran>>

(* parseConnectionInfo.  The bastion's key defaults to the target's, and is *)
(* looked at only when there is a bastion.                                  *)
bastionPrivateKey ==
  IF conn.bastion /\ conn.bastionPrivateKey = "none" THEN conn.privateKey
                                                     ELSE conn.bastionPrivateKey

(* Whether agent is given shows in the raw string only; without a socket it *)
(* is not assumed, but it may still be asked for.                           *)
useAgent == conn.agent = "true" \/ (conn.agent = "" /\ conn.socket # "none")
sshAgent == IF ~useAgent THEN "off" ELSE IF conn.socket = "live" THEN "on" ELSE "dead"

(* validatePrivateKey of the keys that will be used. *)
BugBastionKeyUnchecked == conn.privateKey # "bad"
KeysParse == conn.privateKey # "bad" /\ (conn.bastion => conn.bastionPrivateKey # "bad")

(* A connection that is not SSH, or whose values do not decode, is refused. *)
NewLocalMode ==
  /\ pc = "new"
  /\ \/ KeysParse /\ Goto("validate") /\ UNCHANGED faults
     \/ ~KeysParse /\ Return("error") /\ UNCHANGED faults
     \/ Fault /\ Return("error")
  /\ UNCHANGED <<config, cur, fileVars, keyVars, hostVars, ran>>

(* Only a null_resource needs hosts or an inventory on every play, enabled  *)
(* or not.                                                                  *)
Validate ==
  /\ pc = "validate"
  /\ \/ /\ conn.compute \/ \A i \in DOMAIN plays : plays[i].hosts \/ plays[i].inventoryFile
        /\ Goto("bastionPem")
     \/ /\ ~conn.compute /\ \E i \in DOMAIN plays : ~plays[i].hosts /\ ~plays[i].inventoryFile
        /\ Return("error")
  /\ UNCHANGED <<config, cur, fileVars, keyVars, hostVars, faults, ran>>

privateKeyGiven == conn.privateKey # "none"
bastionKeyGiven == bastionPrivateKey # "none"

(* writePem writes nothing unless the target has a key, whichever it is     *)
(* given; os.Remove of the empty path does nothing.                         *)
WriteBastionPem ==
  /\ pc = "bastionPem"
  /\ \/ /\ ~bastionKeyGiven \/ ~privateKeyGiven
        /\ Goto("targetPem") /\ UNCHANGED <<fileVars, faults>>
     \/ /\ bastionKeyGiven /\ privateKeyGiven
        /\ \/ /\ Created(Temp("bastionPem"), "targetPem")
              /\ args' = [args EXCEPT !.bastionPem = Temp("bastionPem")]
              /\ UNCHANGED inventory
           \/ NotCreated(Temp("bastionPem"))
  /\ UNCHANGED <<config, cur, keyVars, hostVars, ran>>

WriteTargetPem ==
  LET next == IF conn.bastion THEN "bastion" ELSE "keys" IN
  /\ pc = "targetPem"
  /\ \/ ~privateKeyGiven /\ Goto(next) /\ UNCHANGED <<fileVars, faults>>
     \/ /\ privateKeyGiven
        /\ \/ /\ Created(Temp("targetPem"), next)
              /\ args' = [args EXCEPT !.targetPem = Temp("targetPem")]
              /\ UNCHANGED inventory
           \/ NotCreated(Temp("targetPem"))
  /\ UNCHANGED <<config, cur, keyVars, hostVars, ran>>

-----------------------------------------------------------------------------
bastionClient == [pem |-> bastionPrivateKey, agent |-> sshAgent]
targetClient == [pem |-> conn.privateKey, agent |-> sshAgent]

(* A key the bastion showed and the connection info did not keep. *)
BugBastionKeyForgotten ==
  /\ pc = "bastion" /\ ~stalled
  /\ \E s \in Server : \E d \in Dial(bastionKey, s, bastionClient) :
       IF d.result = "ok" THEN Goto("keys") ELSE Return(d.result)
  /\ UNCHANGED <<config, cur, fileVars, keyVars, hostVars, faults, ran>>

(* bastionHost.connect, once; a panic unwinds Run like an error. *)
ConnectBastion ==
  /\ pc = "bastion" /\ ~stalled
  /\ \E s \in Server : \E d \in Dial(bastionKey, s, bastionClient) :
       /\ bastionKey' = d.key
       /\ IF d.result = "ok" THEN Goto("keys") ELSE Return(d.result)
  /\ UNCHANGED <<config, cur, fileVars, hostKey, entries, scanned, spentMs, shown,
                 hostVars, faults, ran>>

(* knownHostsTarget and knownHostsBastion when the branches meet again. *)
KeysKnown(known) ==
  /\ entries' = [target |-> known, bastion |-> IF conn.bastion THEN <<bastionKey>> ELSE <<>>]
  /\ Goto("knownBastion")

needsKey == ~insecure /\ ~ssh.userKnownHosts

TargetKeyGiven ==
  /\ pc = "keys" /\ (needsKey => hostKey # NoKey)
  /\ KeysKnown(IF needsKey THEN <<hostKey>> ELSE <<>>)
  /\ UNCHANGED <<config, cur, fileVars, hostKey, bastionKey, scanned, spentMs, shown,
                 hostVars, faults, ran>>

TargetKeyWanted ==
  /\ pc = "keys" /\ needsKey /\ hostKey = NoKey
  /\ Goto(IF conn.bastion THEN "scanDir" ELSE "fetch")
  /\ UNCHANGED <<config, cur, fileVars, keyVars, hostVars, faults, ran>>

(* The error of an attempt ignored, and the loop left with what it got. *)
BugErrorIgnored ==
  /\ pc = "fetch"
  /\ \E d \in Dial(hostKey, target, targetClient) :
       hostKey' = d.key /\ shown' = Append(shown, d.key) /\ KeysKnown(<<d.key>>)
  /\ UNCHANGED <<config, cur, fileVars, bastionKey, scanned, spentMs, hostVars,
                 faults, ran>>

(* One attempt of fetchHostKey's loop in Run.  A panic is recovered and the *)
(* unnamed result is nil: an attempt that got as far as the key.  (So the   *)
(* check for an empty key after the loop never fails.)                      *)
Fetch ==
  /\ pc = "fetch"
  /\ \E d \in Dial(hostKey, target, targetClient) :
       /\ hostKey' = d.key
       /\ shown' = IF d.key # hostKey \/ d.result # "error" THEN Append(shown, d.key) ELSE shown
       /\ \/ d.result = "error" /\ Goto("fetchWait") /\ UNCHANGED entries
          \/ d.result # "error" /\ KeysKnown(<<d.key>>)
  /\ UNCHANGED <<config, cur, fileVars, bastionKey, scanned, spentMs, hostVars, faults, ran>>

(* The sleep between attempts, in both loops. *)
Wait(here, back) ==
  /\ pc = here
  /\ spentMs' = spentMs + intervalMs
  /\ IF spentMs' > timeoutMs THEN Return("error") ELSE Goto(back)
  /\ UNCHANGED <<config, cur, fileVars, hostKey, bastionKey, entries, scanned, shown,
                 hostVars, faults, ran>>

(* time.Sleep and no timeSpentMs. *)
BugUntimed ==
  /\ pc = "fetchWait" /\ Goto("fetch")
  /\ UNCHANGED <<config, cur, fileVars, keyVars, hostVars, faults, ran>>
FetchWait == Wait("fetchWait", "fetch")
ScanWait == Wait("scanWait", "scan")

(* scan: mkdir -p ~/.ssh on the bastion. *)
ScanDir ==
  /\ pc = "scanDir" /\ ~stalled
  /\ \/ Goto("scan") /\ UNCHANGED faults
     \/ Fault /\ Return("error")
  /\ UNCHANGED <<config, cur, fileVars, keyVars, hostVars, ran>>

(* ssh-keyscan of the target into a file on the bastion: no authentication, *)
(* and a time limit of its own (-T) for a target that is silent.            *)
Scan ==
  /\ pc = "scan" /\ ~stalled
  /\ \/ target.status = "up" /\ scanned' = target.key /\ Goto("scanRead")
     \/ Goto("scanWait") /\ UNCHANGED scanned
  /\ UNCHANGED <<config, cur, fileVars, hostKey, bastionKey, entries, spentMs, shown,
                 hostVars, faults, ran>>

(* echo of what cat prints of that file: when the cat fails the echo does   *)
(* not, and the entry is empty.  The scan does not set connInfo.HostKey.    *)
ScanRead ==
  /\ pc = "scanRead" /\ ~stalled
  /\ \/ KeysKnown(<<scanned>>) /\ UNCHANGED faults
     \/ Fault /\ KeysKnown(<<NoKey>>)
     \/ Fault /\ Return("error") /\ UNCHANGED entries
  /\ UNCHANGED <<config, cur, fileVars, hostKey, bastionKey, scanned, spentMs, shown,
                 hostVars, ran>>

-----------------------------------------------------------------------------
WriteBastionHosts ==
  /\ pc = "knownBastion"
  /\ \/ /\ Created(Temp("bastionHosts"), "knownTarget")
        /\ args' = [args EXCEPT !.bastionHosts = Temp("bastionHosts")] /\ UNCHANGED inventory
     \/ NotCreated(Temp("bastionHosts"))
  /\ UNCHANGED <<config, cur, keyVars, hostVars, ran>>

(* defer os.Remove in writeKnownHosts, where it was meant for its caller. *)
BugRemovedTooSoon ==
  /\ pc = "knownTarget" /\ Goto("play")
  /\ args' = [args EXCEPT !.targetHosts = Temp("targetHosts")]
  /\ UNCHANGED <<config, cur, files, deferred, inventory, leaked, keyVars, hostVars, faults, ran>>

WriteTargetHosts ==
  /\ pc = "knownTarget"
  /\ \/ /\ Created(Temp("targetHosts"), "play")
        /\ args' = [args EXCEPT !.targetHosts = Temp("targetHosts")] /\ UNCHANGED inventory
     \/ NotCreated(Temp("targetHosts"))
  /\ UNCHANGED <<config, cur, keyVars, hostVars, ran>>

SkipDisabled ==
  /\ pc = "play" /\ cur <= Len(plays) /\ ~play.enabled
  /\ cur' = cur + 1
  /\ UNCHANGED <<config, pc, outcome, fileVars, keyVars, hostVars, faults, ran>>

(* The inventory removed whether or not Run made it. *)
BugAlwaysRemoved ==
  /\ pc = "play" /\ cur <= Len(plays) /\ play.enabled
  /\ LET f == IF inventory[cur] = NoFile THEN [kind |-> "inventory", play |-> cur]
                                         ELSE inventory[cur]
     IN /\ Created(f, "running") /\ inventory' = [inventory EXCEPT ![cur] = f]
        /\ UNCHANGED args
  /\ UNCHANGED <<config, cur, keyVars, hostVars, ran>>

(* writeInventory: the provided file is used where it is, and not removed;  *)
(* one that is made becomes the play's override.                            *)
ExecutePlay ==
  LET made == [kind |-> "inventory", play |-> cur] IN
  /\ pc = "play" /\ cur <= Len(plays) /\ play.enabled
  /\ \/ inventory[cur] # NoFile /\ Goto("running") /\ UNCHANGED <<fileVars, faults>>
     \/ /\ inventory[cur] = NoFile
        /\ \/ /\ Created(made, "running") /\ inventory' = [inventory EXCEPT ![cur] = made]
              /\ UNCHANGED args
           \/ NotCreated(made)
  /\ UNCHANGED <<config, cur, keyVars, hostVars, ran>>

(* Play.toCommandArguments, on the override inventory as on any other. *)
StrictHostKeyChecking == ~(insecure \/ inventory[cur] # NoFile)

(* The error of a play logged, and the next play executed. *)
BugPlayErrorDropped ==
  /\ pc = "running"
  /\ \/ ran' = ran \cup {cur} /\ UNCHANGED faults
     \/ Fault /\ UNCHANGED ran
  /\ Goto("play") /\ cur' = cur + 1
  /\ UNCHANGED <<config, fileVars, keyVars, hostVars>>

(* runCommand: terraform's local-exec provisioner. *)
PlayEnds ==
  /\ pc = "running"
  /\ \/ Goto("play") /\ cur' = cur + 1 /\ ran' = ran \cup {cur} /\ UNCHANGED faults
     \/ Fault /\ Return("error") /\ UNCHANGED <<cur, ran>>
  /\ UNCHANGED <<config, fileVars, keyVars, hostVars>>

PlaysDone ==
  /\ pc = "play" /\ cur > Len(plays) /\ Return("ok")
  /\ UNCHANGED <<config, cur, fileVars, keyVars, hostVars, faults, ran>>

(* The deferred removals, the last one first, then the result. *)
Unwind ==
  /\ pc = "unwind"
  /\ \/ /\ deferred # <<>>
        /\ files' = files \ {Last(deferred)} /\ deferred' = Front(deferred) /\ UNCHANGED pc
     \/ /\ deferred = <<>>
        /\ pc' = (IF outcome = "ok" THEN "done" ELSE "failed") /\ UNCHANGED <<files, deferred>>
  /\ UNCHANGED <<config, cur, outcome, args, inventory, leaked, keyVars, hostVars, faults, ran>>

-----------------------------------------------------------------------------
(* The target, meanwhile: what it does matters only while Run asks it for   *)
(* its key, and it may be in any state when Run starts.                     *)
Watched == pc \in {"fetch", "fetchWait", "scan", "scanWait"}
Boot ==
  /\ Watched
  /\ \/ target.status = "down" /\ target' = [target EXCEPT !.status = "silent"]
     \/ target.status # "up" /\ target' = [target EXCEPT !.status = "up"]
     \/ ~target.accepts /\ target' = [target EXCEPT !.accepts = TRUE]
  /\ UNCHANGED <<config, pc, cur, outcome, fileVars, keyVars, rekeys, stalled, faults, ran>>
Rekey ==
  /\ Watched /\ rekeys < MaxRekeys /\ rekeys' = rekeys + 1
  /\ \E k \in Keys \ {target.key} : target' = [target EXCEPT !.key = k]
  /\ UNCHANGED <<config, pc, cur, outcome, fileVars, keyVars, stalled, faults, ran>>

(* The bastion, or the way to it, goes silent while Run has something to    *)
(* ask of it: session.Run has no time limit, and the dial's handshake none. *)
Stall ==
  /\ conn.bastion /\ pc \in {"bastion", "scanDir", "scan", "scanRead"}
  /\ ~stalled /\ stalled' = TRUE
  /\ UNCHANGED <<config, pc, cur, outcome, fileVars, keyVars, target, rekeys, faults, ran>>

Prepare == Start \/ NewLocalMode \/ Validate \/ WriteBastionPem \/ WriteTargetPem
AcquireKeys ==
  \/ ConnectBastion \/ TargetKeyGiven \/ TargetKeyWanted \/ Fetch \/ FetchWait
  \/ ScanDir \/ Scan \/ ScanWait \/ ScanRead
Provision ==
  \/ WriteBastionHosts \/ WriteTargetHosts \/ SkipDisabled \/ ExecutePlay
  \/ PlayEnds \/ PlaysDone \/ Unwind

Step == Prepare \/ AcquireKeys \/ Provision
Next == Step \/ Boot \/ Rekey \/ Stall

Spec == Init /\ [][Next]_vars

(* Run is one goroutine, and an operation returns when what it waits for    *)
(* answers or refuses: local file operations, a play's local command, a     *)
(* dial to a server that is down or up, a command on a bastion that has not *)
(* gone silent.  A step that waits for a silent host is not enabled.        *)
FairSpec == Spec /\ WF_vars(Step)

-----------------------------------------------------------------------------
(* Properties *)

TypeOK ==
  /\ conn \in Connections /\ plays \in Playlists
  /\ ssh \in [insecure : BOOLEAN, userKnownHosts : BOOLEAN]
  /\ pc \in Labels /\ cur \in Nat /\ outcome \in {"none", "ok", "error", "panic"}
  /\ files \subseteq File /\ deferred \in Seq(File) /\ leaked \subseteq File
  /\ args \in [targetPem : File, bastionPem : File, targetHosts : File, bastionHosts : File]
  /\ inventory \in [Index -> File]
  /\ hostKey \in Keys \cup {NoKey} /\ bastionKey \in Keys \cup {NoKey}
  /\ entries \in [target : Seq(Keys \cup {NoKey}), bastion : Seq(Keys \cup {NoKey})]
  /\ scanned \in Keys \cup {NoKey} /\ shown \in Seq(Keys)
  /\ spentMs \in Nat
  /\ target \in Server /\ rekeys \in Nat /\ stalled \in BOOLEAN
  /\ faults \in Nat /\ ran \subseteq Index

(* Every file a play's command names is there while it runs, and its        *)
(* inventory is the provided one or the one made for that play: no deferred *)
(* removal and no other play's writeInventory interferes.                   *)
CommandFilesExist ==
  pc = "running" =>
    /\ {args.targetPem, args.bastionPem} \ {NoFile} \subseteq files
    /\ {args.targetHosts, args.bastionHosts, inventory[cur]} \subseteq files
    /\ inventory[cur].play = cur
    /\ inventory[cur].kind = IF play.inventoryFile THEN "provided" ELSE "inventory"

(* When Run has returned, in whatever way, only the provided inventories    *)
(* are left, and files whose own write failed.                              *)
provided == {Provided(i) : i \in {j \in DOMAIN plays : plays[j].inventoryFile}}
OnlyProvidedLeft == Ended => files = provided \cup leaked

(* A target key that fetchHostKey brought is the first one the target ever  *)
(* showed the run (README.md:341), and the one it showed in the attempt     *)
(* that ended the loop: a machine that changes its key in between is not    *)
(* recorded under the old one.                                              *)
FirstKeyKept ==
  conn.hostKey = NoKey /\ ~conn.bastion /\ entries.target # <<>> =>
    /\ entries.target = <<shown[1]>>
    /\ Last(shown) = shown[1]

(* A play runs with an entry for its target in the known_hosts file, unless *)
(* it is not to be checked or the user brought a file of his own, and with  *)
(* one for its bastion.  A key that was given is the one recorded, and one  *)
(* that was not has been received: only what the bastion scanned can be     *)
(* blank, although README.md:350 wants the target's key known.              *)
KnownHostsFilled ==
  LET recorded(given) == IF given = NoKey THEN Keys ELSE {given}
      blank == IF conn.bastion /\ conn.hostKey = NoKey THEN {NoKey} ELSE {}
  IN pc = "running" =>
       /\ needsKey => \E k \in recorded(conn.hostKey) \cup blank : entries.target = <<k>>
       /\ conn.bastion => \E k \in recorded(conn.bastionHostKey) : entries.bastion = <<k>>

(* A private key that does not parse, or is encrypted, is found before      *)
(* anything is dialled: an agent asked for and not there is all that makes  *)
(* a dial panic, and every pem file that a play's command names holds a key *)
(* ssh can read.                                                            *)
pemOf(kind) == IF kind = "targetPem" THEN conn.privateKey ELSE bastionPrivateKey
OnlyUsableKeys ==
  /\ outcome = "panic" => sshAgent = "dead"
  /\ pc = "running" =>
       \A f \in {args.targetPem} \cup (IF conn.bastion THEN {args.bastionPem} ELSE {}) :
         f # NoFile => pemOf(f.kind) = "good"

(* Local mode implements ProvisionRun with the enabled plays to do. *)
phase ==
  CASE pc = "idle" -> "waiting"
    [] pc = "running" -> "running"
    [] pc \in {"unwind", "done", "failed"} -> IF outcome = "ok" THEN "ok" ELSE "failed"
    [] OTHER -> "preparing"

Promise == INSTANCE ProvisionRun WITH
  Runs <- {"local"},
  todo <- [r \in {"local"} |-> {i \in DOMAIN plays : plays[i].enabled}],
  phase <- [r \in {"local"} |-> phase],
  ran <- [r \in {"local"} |-> ran]

ImplementsProvisionRun == Promise!Spec

(* Run returns unless a host that has gone silent keeps it waiting for ever: *)
(* whatever else the target and the bastion do, no retry goes on for ever.   *)
Waits == stalled \/ (pc = "fetch" /\ target.status = "silent")
RunEnds == []<>~Waits => (pc = "new" ~> Ended)

-----------------------------------------------------------------------------
(* What the documentation says, for the runs that refute it. *)

(* README.md:336: the known_hosts file is constructed to be fed to Ansible. *)
KnownHostsUsed ==
  pc = "running" /\ ~insecure /\ ~play.inventoryFile => StrictHostKeyChecking

(* README.md:289: ssh_keyscan_timeout is how long to try fetching the host  *)
(* key until failing.                                                       *)
KeyFetchTimesOut == pc = "fetch" ~> pc \notin {"fetch", "fetchWait"}
=============================================================================
