# TLA+ models of terraform-provisioner-ansible

This directory holds TLA+ models of the Ansible provisioner for Terraform, the TLC
configurations that check them, and proofs about them for TLAPS. The source is the
reference: every definition is translated from the Go code that `PROJECT.json` ("map") names.

## 1. The system

Terraform applies a `provisioner "ansible"` block: it starts the plugin, which decodes the
block into a list of plays, remote settings and SSH settings (`applyFn`, `decodeConfig`) and
runs them in one of two modes. A run is one goroutine that executes operations in order and
returns at the first error. Terraform may apply several blocks, at the same time or one after
the other, to one host. They share nothing but the host's files.

| Component | State | Operations | Interacts with |
|---|---|---|---|
| remote mode (`mode/mode_remote.go`) | the override paths set on the plays; on the host: the bootstrap directory, directories named by the md5 of a local path, inventory and vault files named by a uuid, the installer | `Run`: connect with retries, `deployAnsibleData`, `installAnsible`, a command per play, `cleanupAfterBootstrap` | terraform's SSH communicator; other runs, through the host |
| local mode (`mode/mode_local.go`) | temporary files (PEM, known_hosts, inventory), deferred removals, known_hosts entries | `Run`: validation, PEM files, host keys, known_hosts files, an inventory and a command per play | bastion and target over SSH; terraform's local-exec |
| SSH client (`ssh_configurable.go`, `ssh_bastion_host.go`, `ssh_target_host.go`) | host keys of the connection info | `sshConfig`, `connect`, `fetchHostKey` | golang.org/x/crypto/ssh, ssh-agent |
| key scan (`ssh_bastion_keyscan.go`) | a known_hosts file on the bastion | `scan` with retries, `execute` | the bastion's shell |
| command output (`runCommand`, `copyOutput`, `redirectOutputs`) | pipes, goroutines, done channels | start, wait, close, await | the SSH session, the UI |
| connection info (`local_connection_extractor.go`) | the decoded connection block | defaults, bastion defaults, PEM check | terraform's state |
| plays (`types/play.go` and the entities) | settings, overrides, defaults | accessors with their precedence, `ToCommand`, `ToLocalCommand` | `shellescape` |
| defaults (`types/defaults.go`) | the block of defaults, one for all plays | which of its settings are set | plays |
| shell escape (`shellescape/`) | input, position, output | `Safe` | the shell that reads `--extra-vars='...'` |
| glue (`provisioner/`, schemas in `types/`) | none | `validateFn`, `applyFn`, `decodeConfig` | terraform's SDK |

What makes each of them correct, and what is hard about it:

* **Remote mode.** The plays are deployed in one loop and executed in another, and meet only
  in the override paths and the host's files. A directory that exists counts as uploaded. An upload can
  stop half way; a run can fail anywhere; the bootstrap directory may be an earlier run's,
  or be removed by another run's cleanup. A play must be executed on what its own run
  deployed, whole and current, in order, and never on another run's inventory or secrets.
* **Local mode.** The target may be booting: it refuses connections, does not know the user
  yet, and may generate its host keys anew while it is asked for them. The key that is
  recorded must be one the target showed, files must exist while a command names them and
  be gone afterwards, and the retries must end, though a host may fall silent.
* **Command output.** Seven parties (a command and, per stream, the goroutine that fills the
  pipe, the pipe and `copyOutput`) wait for one another: output may be lost, goroutines
  left behind, or everyone may wait.
* **Plays and settings.** A setting has up to four sources: an override that a mode has set, the
  play's own value, the schema's default, the block of defaults. Validation sees only what
  is known before the apply: a value from a variable may arrive empty, or name nothing. Each command must get the values meant for its play, and no
  path of the controller where a copy of it on the host is meant.
* **Shell escape.** Look-aheads over a text that may or may not have been escaped before: quotes can be
  swallowed or doubled, and a text can leave its quotes.

`PROJECT.json` lists the hazards at their lines, with the properties that watch them.

## 2. Modules

| Module | What it is |
|---|---|
| `RemoteHost` | the provisioned host's files and what mkdir, scp and rm do to them; external, modelled from how `mode_remote.go` uses the communicator |
| `RemoteMode` | remote mode; a set of runs against one `RemoteHost` |
| `ProvisionRun` | abstract: what a run promises in either mode. The plays to do are executed one at a time and in order, none after a failure, and success means that all have succeeded |
| `RemoteModeProofs`, `RemoteRunsProofs`, `RemoteAloneProofs` | theorems about `RemoteMode`: types; what holds of every run; what holds of a run alone with the host |
| `SshHost` | an SSH server and the outcomes of a dial with `sshConfig` |
| `LocalMode` | local mode with the SSH client, the key scan and the target |
| `LocalModeProofs` | theorems about `LocalMode`: types, keys, files, and `ProvisionRun` |
| `PlaySettings` | a block on its way from the configuration to its commands, in either mode: validation, decoding, overrides, accessors, `ToCommand` |
| `PlaySettingsProofs` | theorems about `PlaySettings`: validation, and which values every command has |
| `ShellEscape`, `ShellEscapeProofs` | `Safe`, one rune a step, and the shell that reads its output; theorems about texts of any length |
| `SequenceRecursion` | lemmas, about no part of the system: induction over the natural numbers, and functions defined by recursion along a sequence |
| `CommandOutput`, `CommandOutputProofs` | the goroutines and pipes of a remote command, and theorems about them |
| `MCRemoteMode`, `MCLocalMode`, `MCPlaySettings` | values of the constants for TLC |

`RemoteMode` extends `RemoteHost`, `LocalMode` extends `SshHost`, and both are checked
against `ProvisionRun`, and proved to implement it (`Promise == INSTANCE ProvisionRun WITH ...`).
`PlaySettings` is the data side of both: they say when an override is set and what is then on
the host, it says which value the override and the command have.

Names beginning with `Bug` are deliberate mistakes, each put before the definition it is a variant of. No
specification uses them. Substituted for that definition, each makes one property fail, which
shows that the property says something about the code.

### RemoteMode and the code

`pc[r]` is the operation of `Run` that run `r` is about to do; `cur` and `item` are its loop
variables. One remote command, upload or template is one step, except that an upload of a
directory has two (`BeginUpload`, `FinishUpload`), for others see it half full. Every
operation can fail, with or without its effect (`Fails`); an operation that could succeed
may fail `MaxFaults` times, one that cannot (its directory is gone) always does.

| Action | Code |
|---|---|
| `Start` | `applyFn` |
| `Connect`, `RetryPause`, `TimerFires` | `retryFunc` around `comm.Connect`: an attempt, the three seconds after one that failed, and the timer, which is looked at only when an attempt has failed (`connectLate`: it fired during one). An attempt needs no fault to fail, for the host may be down |
| `SkipDisabled`, `DeployEntity`, `DeployDone` | head of `deployAnsibleData`'s loop |
| `MakeBootstrap`, `CheckDir`, `BeginUpload`, `FinishUpload` | a playbook's directory, and (the last three) each entry of its roles path |
| `WriteInventory`, `SkipVault`, `UploadVault`, `VaultDone` | `writeInventory`, `uploadVaultPasswordOrIDFile`: in this order for a playbook, in the other for a module |
| `NextRole`, `RolesDone` | the loop over `RolesPath`, with `galaxy_install:` entries kept as they are |
| `MakeModuleDir`; `MakeRolesDir`, `UploadRoleFile` | modules; galaxy_install |
| `InstallDir`, `InstallUpload`, `InstallRun` | `installAnsible` |
| `ExecutePlay`, `PlayEnds`, `PlaysDone` | `Run`'s second loop, which does not look at `Enabled`: `ToCommand`, which may refuse the play; the command; the end |
| `Cleanup` | `cleanupAfterBootstrap`, whose error is dropped |
| `Edit` | someone changes a playbook or role locally between runs |

Directories are values: the md5 of a path is the path. A directory has a state (absent,
made, partial, full), the version of the local one it was copied from and the run that
copied it. A fresh uuid is the run, play and number it was drawn for, so that names are
equal only if the code draws no uuid. A galaxy role file has the md5 of its path for a name, and is shared.

`exclusive[r]` is a history variable: `r` found a clean host and no other run was active
then or since. Several properties are claims about such runs. That they need the premise
is what the violated `UploadedBeforeRun` shows. `ran` and `installed` are
history variables too.

### LocalMode and the code

`pc` follows `Run`. `files` are the temporary and provided files that exist, `deferred` is
the stack of `os.Remove` calls, which `Unwind` pops one at a time after any return.
`leaked` records a file whose `WriteFile` failed after `TempFile` had made it. A dial
(`SshHost!Dial`) yields a result and the host key the connection info has afterwards: the
callback records the key before authentication, and `knownhosts` refuses any other once
there is one. A private key that does not parse, or an agent whose socket is gone, is a nil
authentication method, and a dial panics when its turn comes. The connection block is
parsed by `NewLocalMode` (`parseConnectionInfo`): the agent defaults to whether
`SSH_AUTH_SOCK` is set, the bastion's key to the target's, and the keys that will be used are
checked (`KeysParse`). Only what the control flow reads is kept of it. `Boot` and
`Rekey` are the target's own steps; they are enabled only while `Run` asks for its key.
Before that, and after, the target's state is not read: the initial state leaves it open.

A target that is `silent` has accepted the connection and does not go on with the handshake, as a host
does whose sshd is only starting. `ssh.Dial` then does not return, for `ClientConfig.Timeout` bounds
the TCP connect and nothing else: `Fetch` has no outcome until `Boot` brings the target up. A
command on the bastion has no timeout either, so that after `Stall` none of its steps is
enabled. `ScanRead` has the outcome that `echo -e "$(cat ...)"` gives it: when `cat` fails, `echo`
does not, and the entry is blank.

### PlaySettings and the code

A value is the list of its strings, empty when the setting is not configured. A path is a
name and where it leads: on the controller, there behind `galaxy_install:`, or on the host as the
copy made for a play (play 0 when the name is a hash and the same for all plays).

| Action | Code |
|---|---|
| `ValidateSchema` | terraform's use of the schemas: the validators of single values (`vfPath`, `vfBecomeMethod`). They see no value that is `unknown` then (one that comes from a variable or a resource), and look for no file whose name holds `${path.module}` or begins with `galaxy_install:` (`Unchecked`) |
| `ValidatePlay`, `ValidatePanics`, `Unreadable`, `Validated` | `validateFn`: one play of its loop; its deferred `recover`; its early return; its end |
| `decodeConfig` | `decodeConfig`, `NewPlayFromMapInterface`, what the schema fills in |
| `SkipDisabled`, `DeployPlay`, `DeployFails`, `DeployDone` | the overrides `deployAnsibleData` sets, and the files it has to read for them |
| `CheckHosts` | `LocalMode.Run`'s check of a null_resource |
| `RunPlay`, `SkipPlay`, `Unsupported`, `PlaysDone` | the loop that executes: `writeInventory` in local mode, then `ToCommand` or `ToLocalCommand` |

`Setting` is the precedence of the accessors, `PathSetting` that with an override before it,
`Given` the tests (`len`, `!= ""`, `> 0`) they make. An unknown value may turn out to be the empty text,
which those tests take for none; the properties say so themselves, in `Stated`. All of them are functions of a play, as
in the code, and of the overrides set on it. `ToCommand` keeps the parts of a command
that depend on more than one setting. `Text` is the set of strings. It names a few of them
because the provers do not know that a literal is a string.

### ShellEscape and CommandOutput

Runes are the delimiter, the backslash and any other. `pos` counts the runes consumed, so
`lookup` starts behind the current one. `ShellReads` is a shell's reading of the output from
inside the quotes, `EscapeQuotes` the reference: both recursive functions of a text's
positions, which TLC evaluates and the provers can reason about.

In `CommandOutput`, `caller` says which of the two similar functions runs: `runCommand`,
whose session is given the pipes' writers and waits for its own copying, or `execute`, which copies
from `StdoutPipe` in goroutines the session knows nothing of. Lines are counted, and a line
reader holds at most `Buffer` of them. A command exits, or the connection is `lost`: `Wait` returns
either way, and in the second what was written and not yet piped does not arrive.

## 3. Runs

| Run | Checks | Bounds |
|---|---|---|
| `remote_sequential` | `TypeOK`, `StagedForUse`, `AllDeployedBeforeAny`, `OwnInstaller`, `CleanAfterSuccess`, `ImplementsProvisionRun` | two runs, one after the other; playlists with each kind of entity, a directory shared by two plays, a role uploaded and one of galaxy_install, an empty vault id between two, a disabled play; one fault, one edit |
| `remote_concurrent` | `OwnFiles`, `EveryRunEnds` | two interleaved runs that share a playbook's or module's directory and the installer's path; one fault |
| `local` | `TypeOK`, `CommandFilesExist`, `OnlyProvidedLeft`, `FirstKeyKept`, `KnownHostsFilled`, `OnlyUsableKeys`, `ImplementsProvisionRun`, `RunEnds` | eleven connection blocks (keys good, bad and inherited; agents asked for, assumed, gone), two playlists, two host keys, a target that is down, silent or up, one fault, one change of key, a timeout of one interval (two attempts) |
| `settings` | `TypeOK`, `AcceptedWasChecked`, `HostPathsIffDeployed`, `SecretsAsConfigured`, `InventoryReaches` | nine lists of plays that validate, with three blocks of defaults, sixteen that fail at some stage or are validated only in part, and defaults that are unknown when validated; both modes; a resource with an address and without |
| `escape` | `StaysQuoted`, `QuotesEscapedOnce`, `EscapedKept`, `ReadsBack` | every input to eight runes, for both delimiters |
| `command_output` | `OutputComplete`, `CopiersEnd`, `ReturnsAfterExit` | two streams of up to three lines, a buffer of two, so that a pipe blocks; a connection that may be lost at any time |

One fault is enough to reach every error return, and two runs to meet what an earlier or a
concurrent one left behind: the second run may fail after the first has, in a state without a budget
only because its directory has gone. In `settings` values are given, empty
and missing, by the play and by the defaults, and where two plays could exchange values
there are two. Eight runes hold two complete escapes of a quote, of four runes each and next to one another, or
one among four other runes, and every sequence the three look-aheads tell apart; that
any number of adjacent escapes is kept is proved (`EscapedIsKept`). Deadlock is not
checked: all these programs end.

What the properties say is written above each of them. The central ones:

* `StagedForUse`: a run with the host to itself executes an enabled play only when its
  playbook, roles, vault files and inventory are on the host, whole, its own, and in the
  version the controller has. It connects the loop that deploys, the check for an existing
  directory and the loop that executes.
* `AllDeployedBeforeAny`: every enabled play is deployed before the installer and before
  the first command, whatever other runs do. The commands rely on the second half. The first is what
  the code does and not what README.md:454 says, which has the installer before the uploads:
  `remote_order` below.
* `OwnFiles`: an inventory or vault file a command names is the one its own run put there
  for that play, or is gone. Other runs may remove it but not replace it.
* `FirstKeyKept`: the key `fetchHostKey` brings is the first the target showed, and the one
  it showed in the attempt that succeeded.
* `OnlyProvidedLeft`, `CommandFilesExist`: the deferred removals neither leave anything nor
  come too soon. A file whose writing failed is never queued for removal, and is left.
* `KnownHostsFilled`: keys that were given are recorded as given, and keys that were fetched are keys; only
  the entry scanned on the bastion can be blank.
* `RunEnds`: `Run` returns unless it waits for a silent host for ever. Every retry ends, but an
  attempt need not: `local_silent`.
* `OnlyUsableKeys`: no client is made with a private key that does not parse, though the
  bastion's key is inherited after the target's has been checked.
* `AcceptedWasChecked`: what terraform applies has one entity in every play and no file, role, inventory or
  password file missing that was known and could be looked for, also when validation itself panics on an earlier play.
* `HostPathsIffDeployed`, `SecretsAsConfigured`: the command of a play that was deployed names nothing of the
  controller, and nothing uploaded for another play, but for the `.` that ids leave which are all empty; any other
  command, in local mode or of a disabled play that remote mode executes all the same, names nothing
  of the host. Each play gets its own secrets, in order, ids or a password file and never both.
* `InventoryReaches`: the inventory is the one configured, or, when that is not given or empty (README.md:266), one
  that lists what is to be provisioned; for a null_resource whose host
  names are all empty it lists nothing, which the code does not refuse.
* `ReadsBack`: the shell reads back the text that was escaped, unless a backslash stands right
  before a quote. What `escape_copy` finds is thus all that can go wrong.
* `ImplementsProvisionRun`: for remote mode with all plays to do, for local mode with the
  enabled ones. Remote mode does not skip a disabled play: see below.

### What the code does not do

Runs expected to find a violation state what the repository says of the program:

| Run | The statement | What the code does |
|---|---|---|
| `remote_partial` | playbooks and roles "will be uploaded to the each host prior to Ansible run" (README.md:31) | a directory that exists counts as uploaded: one that another run is still uploading (the trace), one whose upload failed half way, or an old one |
| `remote_order` | the provisioner installs Ansible and "Next" the inventory, playbooks, roles and vault files are uploaded (README.md:454) | everything is uploaded first |
| `local_known_hosts` | a known_hosts file is constructed "to feed to Ansible" (README.md:336) | `StrictHostKeyChecking=no` always: the generated inventory counts as the user's |
| `local_silent` | `ssh_keyscan_timeout`: "how long to try fetching the host key until failing" (README.md:289) | a target that accepts and says nothing holds the run for ever |
| `settings_defaults` | `become_method`, `become_user`, `forks` "can be specified in defaults" (README.md:274) | the play's schema fills them in first, and the defaults are never asked |
| `escape_copy` | "a safe to use copy of the input" (extra_vars_escape.go:7) | a backslash pair before a quote, as in JSON, loses one |

The models have these, too, and the properties that hold are stated around them:

* Remote mode executes a play that is not enabled (`mode_remote.go:152`), without having deployed it;
  README.md:259 says "set to `false` to skip execution". `ImplementsProvisionRun` counts it among
  the plays to do, so that a run succeeds only when it has executed it.
* A run that fails leaves the bootstrap directory, vault files included (`mode_remote.go:143`);
  README.md:308 leaves it for `skip_cleanup`. `CleanAfterSuccess` is about success.
* Concurrent runs can execute each other's installer (`mode_remote.go:429`). `OwnInstaller` is about a run
  alone with the host.
* A temporary file whose write fails is not removed (`mode_local.go:293`); README.md:332 says that files "are
  cleaned up after the provisioner finishes or fails". `OnlyProvidedLeft` leaves it out by name (`leaked`).
* A bastion's private key is written to a PEM file only when the target has one as well
  (`mode_local.go:300`); README.md:332 says "the pem file will be written to a temp file".
* When the scanned keys cannot be read back, the target's known_hosts entry is blank and the run goes on
  (`ssh_bastion_keyscan.go:176`); README.md:350 says "Ansible must know the host key of the target host".
  `KnownHostsFilled` says that nothing else leaves one blank.
* A play whose dynamic entity turns out not to be there is refused only when its turn comes, after the plays
  before it (`play.go:500`).

Also seen: the file of scanned keys stays on the bastion though a comment says it
is removed (`ssh_bastion_keyscan.go:168`). Attempts at a host key that do end are not counted against
`ssh_keyscan_timeout`, only the pauses. A galaxy_install's `roles_path` is a path of the host (README.md:251)
and is looked for on the controller (`galaxy_install.go:74`). With double quotes, in a constructor nothing calls,
a trailing backslash escapes the closing quote. `runCommand` leaves two goroutines behind when a command does
not start.

## 4. Fairness

`RemoteMode!FairSpec` and `LocalMode!FairSpec` assume weak fairness of a run's steps: a run
is one goroutine, and its retries are bounded by a timer or a counter. In `RemoteMode` each step is
an attempt to connect, a command or an upload of terraform's communicator, and is assumed to
return: the code here bounds none of them. In `LocalMode` local file operations, the
local command of a play, and a dial to a server that is down or up return; a dial to a silent target
and a command on a stalled bastion do not, and there the step is not enabled, so that
fairness does not ask for it. Nothing is assumed of the target: it may stay
down, or silent, for ever. `RunEnds` therefore starts from a run that does not wait for a silent host for
ever (`[]<>~Waits`); for the fetching of the key, the claim without that premise is the violated
`KeyFetchTimesOut`. In `RemoteMode` attempts to connect may fail any number of times, so weak
fairness of the steps would not end them; `TimerFires` has fairness of its own, for a Go
timer that nobody stops fires. That this is enough, and that the timer is one for all attempts, is
what `EveryRunEnds` shows of `retryFunc`.
`CommandOutput!FairSpec` assumes that the goroutines are scheduled and nothing of the
command: `ReturnsAfterExit` starts from its exit or from the loss of the connection.

## 5. Proofs

`tlapm` checks these for every value of the constants: any runs, hosts, playlists, blocks, lengths and
bounds. They rest on the named assumptions `HostAssumption` and `RemoteAssumption` (values of
the right kinds; a playbook's directory is one that is uploaded to, any other play's one that
is made), `KeyAssumption` (the empty key is no key), `LocalAssumption`, `OutputAssumption` (kinds; a
line reader holds at least one line) `EscapeAssumption` (the bound is a number) and `SettingsAssumption` (kinds; a setting that is no list
has at most one value; the empty name is not in `Unchecked`, for it neither holds `${path.module}` nor begins with
`galaxy_install:`), and on nothing else. TLC evaluates all of them.

Every safety property that a passing run checks is proved, and so are both refinements of
`ProvisionRun`. None of the properties is inductive; each
theorem has the three parts `Init => IInv`, `IInv /\ [Next]_vars => IInv'`, `IInv => Inv`.

**Remote mode**

* `RemoteModeProofs!TypeCorrect`. That `play(r)` is a play, and `Target(r)` a directory,
  depends on where `cur` and `item` can stand at each label. `Control` says so (at an operation on a
  play, `cur` is in the list and the play enabled and of the operation's kind; at an upload, `item`
  is 0 or the index of an entry that is no galaxy role; and so on). `TypeInv` is `TypeOK` and
  `Control`, and all other proofs use it.
* `RemoteRunsProofs!DeployedBeforeAny`. The property speaks of runs that have finished
  deploying. `Progress` strengthens it: a run in the loop has deployed every enabled play
  before `cur`, and of the current play what its label says (`PartOf`: the vault files and the roles
  before `item`, and so on). `StepFrames` states that a step of one run changes no other
  run and no other play's overrides, so that each lemma has only the current play to deal
  with. Nothing is said of the host, which is why the theorem holds however runs interleave.
* `RemoteRunsProofs!RemoteImplements`. `RefInv` relates `ran`, which the refinement maps, to
  the position in the second loop; `KindOfStep` sorts the steps into one that starts a play,
  one that ends it, one that ends the run, and stutters.
* `RemoteRunsProofs!FilesAreOwn`. `NamesInv` has both sides of a name: a file on the host was put there
  by the run and for the play its uuid was drawn for, and the overrides of a play name only
  such files. Neither side is inductive without the other's shape, and no other
  run's upload or `rm` can break them.
* `RemoteAloneProofs`: `InstallerIsOwn`, `CleansAfterSuccess` and `EverythingIsStaged`. `AloneInv` follows a run that has the host to itself: no other is
  active (`AloneAt`); each directory that is uploaded to is absent, whole and current, or the one
  being uploaded, and everything the overrides name is there (`StagedAt`); the installer is its
  own while it is executed and gone afterwards (`InstallerAt`); and the cleanup leaves nothing
  (`CleanedAt`). That a directory is never half full when the run executes comes from the
  failure of an upload being the end of the run. `EverythingIsStaged` joins `AloneInv` (what is named is
  there) and `Progress` (everything is named).

**Local mode**

* `LocalModeProofs`: `TypeCorrect`, with `Control` (`cur` in the list while a play runs, the
  bastion's operations only with a bastion, keys that parse from `NewLocalMode` on);
  `FirstKeyIsKept` and `KnownHostsAreFilled` from `KeyInv`: what is known of both keys at each
  operation, and that a target asked by `fetchHostKey` has only ever shown the recorded key, for a
  dial that meets another fails before it is recorded; that nothing but a scan leaves an entry blank is part of it; `OnlyUsableKeysUsed` from `UsableInv`
  (a PEM path is that of a key that is given; what panics is an agent).
* `LocalModeProofs`: `OnlyProvidedIsLeft` and `CommandFilesAreThere` from `FilesInv`: the
  files on the controller are exactly the provided, the leaked and the queued ones,
  nothing is queued twice, each kind is made once and in its turn, and what the arguments and inventories
  name exists until `Run` unwinds.
* `LocalModeProofs!LocalImplements`: `RefInv` says that the enabled plays before `cur`
  have run, and that there is a result only once `Run` returns.

**Command output**

* `CommandOutputProofs`: `OutputIsComplete` and `CopiersHaveEnded` from `OutputInv`: what was
  shown is at most what was piped, and that at most what was written; a copier ends only with its pipe
  closed and empty; and, for `runCommand`, the session has filled the pipes before the caller
  closes them, unless the connection was lost.

**Settings**

* `PlaySettingsProofs!OnlyCheckedAccepted`. The property reads the block that was accepted, and the
  code only counts errors: `CheckedInv` says that as long as the count is 0 every play has
  passed the schema's validators, and those before `cur` have passed `validateFn`. A panic ends
  the loop early, but never with a count of 0.
* The properties of commands speak of commands built long ago, from plays whose overrides have
  been set, perhaps changed, by other steps than the one that built them. `SettingsInv` brings
  that back to one play. `PlaysInv`: from `decodeConfig` on the plays are those of the block.
  `OverridesInv`: a play that has not been executed has just the overrides that deploying this
  play sets (`SetFor`), so that no step of another play has touched them. `CommandsInv`: every
  command is `CommandOf(i)`, a function of the block and of one play that was to be executed; and once
  there are commands, every play of a null_resource names its hosts (`HostsKnown`). What remains
  of each theorem is about `CommandOf` alone, by lemmas on the accessors (`ListsConfigured`,
  `FilesConfigured`), the overrides (`UploadedIs`, `InstalledIs`) and the fields (`SecretsOf`,
  `InventoryOf`).
* `TypesKept`, `DeployedNamesHost` (`HostPathsIffDeployed`), `OwnSecretsGiven`
  (`SecretsAsConfigured`) and `ProvisionedReached` (`InventoryReaches`). None of them rests on validation, which sees no
  unknown value: an empty `inventory_file` or `vault_password_file` is none, for the accessors as
  for `Stated` in the properties. What they do rest on is the check of a null_resource's hosts.

**Shell escape**

* `ShellEscapeProofs!OneWord`: `QuotedInv` is `StaysQuoted` itself, given the types. What is
  proved of a step is that it either appends an escape, which takes the shell out of the quotes
  and back in, or copies a rune that does neither.
* `PlainIsEscapedOnce`, `PlainIsReadBack`: `PlainInv` says that, where nothing looks like an
  escape, the output is at every position the reference of the runes consumed, and that the shell has read
  exactly those.
* `EscapedIsKept`: `KeptInv` says that Safe, given what the reference made of a text, stands at
  the boundary of a piece of it, with exactly the pieces before it written. That the look-ahead of
  three runes finds each escape whole, also where one is next to another, is `PieceTaken`.

**Induction over data**

`ShellReads`, `EscapeQuotes` and `NonEmpty` are recursive functions, and the theorems above need to
know what they compute for texts and lists of any length. The library's induction theorems take an operator as a parameter,
which the installed provers cannot instantiate. `SequenceRecursion!Induction` states the same with a set of
numbers, proved from the well-foundedness of `<`; `RecursionExists` and `RecursionFollows` then
give the function that follows a step, itself a function on pairs, along a sequence. Each
recursive function of the models is shown to be such a one (`ShellReadsOn`, `EscapeQuotesOn`,
`KeepFollows`). This is out of reach for RECURSIVE operators, and there are none.

Only model-checked: liveness (`EveryRunEnds`, `RunEnds`, `ReturnsAfterExit`), which is out of the
provers' reach together with fairness; the findings, which are counterexamples; and that the
properties can fail at all, which TLC shows with the mistakes named `Bug`.

## 6. Not modelled, and why

* Flags that are copied from one setting (`--tags`, `--diff`, `--check`, `--poll`, ...), the
  command lines themselves, templates and messages: text, and no state. What the parts of a
  command depend on is modelled where that is more than one setting.
* Schemas beyond their defaults and validators: type conversions of the SDK.
* How long anything takes: an attempt, a command and a pause are steps, and only pauses are counted, as in the code.
* The installer's wait for `boot-finished` (`mode_remote.go:36`): it has no limit and is inside
  one remote command, of which the models assume that it returns.
* Cancellation: `applyFn` is given a context and never asks it (`resource_provisioner.go:137`), so a
  cancelled run goes on to its end.
* SSH, scp, Ansible, terraform's communicator: libraries and programs outside the repository, as
  the operators and actions marked external, modelled from their use.
* Crashes of the plugin: for remote mode a crash is a failed run (nothing of a run survives
  it on the controller); for local mode it is a run that ends without its deferred removals, of which
  nothing is claimed.
* Tests, examples and packaging: not part of the program.

## 7. Plan

Done, in this order: remote mode, for it has the concurrency, the partial failures and most of the
code's weight; local mode, the escape and the output, each with its run; type correctness
and the order of deployment proved; settings, the connection block, `retryFunc`'s timer; the
remaining safety properties of the three concurrent modules and the refinements proved;
induction along sequences, and with it the properties of settings and of the escape.

What could be added: the bastion's known_hosts settings (`bastion_user_known_hosts_file`) and the
connection attempts, should the text of the proxy command become a subject.
