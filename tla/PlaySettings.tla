---------------------------- MODULE PlaySettings ----------------------------
(***************************************************************************)
(* A provisioner block on its way from the configuration to the commands   *)
(* that execute its plays: validateFn, decodeConfig and the constructors   *)
(* of types/, the overrides that remote and local mode set on the plays,   *)
(* and the accessors and ToCommand of types/play.go that read them back.   *)
(* What happens on the host is RemoteMode's subject, and the order of the  *)
(* run LocalMode's and RemoteMode's; here it is which value of a setting   *)
(* reaches which command.                                                  *)
(***************************************************************************)
EXTENDS Integers, FiniteSets, Sequences, SequencesExt

CONSTANTS
  Blocks,    \* the provisioner blocks of the configuration
  Missing,   \* the names of paths that do not exist on the controller
  Unchecked, \* the names vfPath does not look for: those that hold a ${path.module} or
             \* begin with galaxy_install:, neither of which an empty name does
  EnvRoles   \* ANSIBLE_ROLES_PATH or DEFAULT_ROLES_PATH of the plugin's environment

(* The strings; some by name, for the provers do not know a literal to be one. *)
Text     == STRING \cup {"", ".", "localhost", "inventory", "galaxy-roles"}
Entities == {"playbook", "module", "galaxy_install"}
Lists    == {"hosts", "groups", "extra_vars", "vault_id"}
Paths    == {"inventory_file", "vault_id", "vault_password_file"}
Settings == Lists \cup Paths \cup {"become_method", "become_user", "forks", "limit"}

(* A value is the list of its strings, at most one unless the setting is a   *)
(* list: <<>> when it is not configured.                                     *)
Values == {v \in [Settings -> Seq(Text)] : \A s \in Settings \ Lists : Len(v[s]) <= 1}
(* An entry of a playbook's roles_path, with or without galaxy_install:, or  *)
(* the roles_path of a galaxy_install.                                       *)
Role   == [galaxy : BOOLEAN, name : Text]
(* entities is what validateFn finds; when one is generated by a dynamic     *)
(* block it may not be known then, and not be there in the end.  unknown are *)
(* those of its values, here as they will be, that are not known then: of a  *)
(* variable or another resource.                                             *)
Block  == [entities : SUBSET Entities, known : BOOLEAN, there : BOOLEAN, enabled : BOOLEAN,
           file : Seq(Text), roles : Seq(Role), become : BOOLEAN, set : Values,
           unknown : SUBSET (Settings \cup {"file", "roles"})]

ASSUME SettingsAssumption ==
  /\ Missing \subseteq Text /\ Unchecked \subseteq Text \ {""} /\ EnvRoles \in Seq(Text)
  /\ \A b \in Blocks :
       /\ DOMAIN b = {"plays", "readable", "defaults", "unknown", "remote", "host", "user"}
       /\ b.plays \in Seq(Block) /\ b.defaults \in Values /\ b.unknown \subseteq Settings
       /\ \A p \in ToSet(b.plays) : p.known => (p.there <=> p.entities # {})
       /\ b.readable \in BOOLEAN /\ b.remote \in BOOLEAN
       /\ b.host \in Text /\ b.user \in Text

VARIABLES
  block,    \* the block: its plays, its defaults, is there a remote block; with the Host
            \* and User of the connection
  pc,
  cur,      \* index of the play of the current loop
  errors,   \* len(es) when terraform has validated
  plays,    \* the plays of decodeConfig
  override, \* the overrides of each
  commands  \* the commands built

vars == <<block, pc, cur, errors, plays, override, commands>>

Labels == {"schema", "validate", "decode", "deploy", "hosts", "play", "done", "rejected", "failed"}

(* A path in a command: on the controller as the configuration names it     *)
(* ("prefixed": behind galaxy_install:), or on the host, as the copy made   *)
(* for one play (0: the name is a hash, the same for all plays).  hosts and *)
(* groups are those of a generated inventory, a host with its address.      *)
Path == [at : {"controller", "prefixed", "host"}, name : Text, play : Nat,
         hosts : Seq(Seq(Text)), groups : Seq(Text)]
At(w, n, i) == [at |-> w, name |-> n, play |-> i, hosts |-> <<>>, groups |-> <<>>]
Local(n)    == At("controller", n, 0)
Copy(n, i)  == At("host", n, i)
Locals(names)    == [n \in DOMAIN names |-> Local(names[n])]
Copies(names, i) == [n \in DOMAIN names |-> Copy(names[n], i)]

NoOverride == [inventory_file |-> <<>>, vault_id |-> <<>>, vault_password_file |-> <<>>,
               file |-> <<>>, roles |-> <<>>]

Init ==
  /\ block \in Blocks
  /\ pc = "schema" /\ cur = 1 /\ errors = 0
  /\ plays = <<>> /\ override = <<>> /\ commands = <<>>

-----------------------------------------------------------------------------
(* Validation *)

becomeMethods == {"sudo", "su", "pbrun", "pfexec", "doas", "dzdo", "ksu", "runas"}

(* os.Stat finds no file of no name. *)
Absent == Missing \cup {""}

(* vfPath and VfPathDirectory: the file is there, as far as can be told. *)
vfPath(n) == n \in Unchecked \/ n \notin Absent

(* The validators of single values, of a play's settings as of a default's,  *)
(* which the schema calls for a value that is known; nothing validates       *)
(* vault_id.                                                                 *)
ValidValues(v, unknown) ==
  /\ "become_method" \notin unknown => ToSet(v["become_method"]) \subseteq becomeMethods
  /\ \A s \in {"inventory_file", "vault_password_file"} \ unknown :
       \A n \in ToSet(v[s]) : vfPath(n)

(* Of an entity that is known: its file and, though in remote mode it is     *)
(* one of the host, the roles_path of a galaxy_install.                      *)
ValidPlay(b) ==
  /\ ValidValues(b.set, b.unknown)
  /\ b.known /\ "file" \notin b.unknown => \A n \in ToSet(b.file) : vfPath(n)
  /\ b.known /\ b.entities = {"galaxy_install"} /\ "roles" \notin b.unknown =>
       \A x \in ToSet(b.roles) : x.galaxy \/ vfPath(x.name)

(* Terraform applies the schemas first, then calls validateFn. *)
ValidateSchema ==
  /\ pc = "schema" /\ pc' = "validate"
  /\ errors' = Cardinality({i \in DOMAIN block.plays : ~ValidPlay(block.plays[i])})
               + (IF ValidValues(block.defaults, block.unknown) THEN 0 ELSE 1)
  /\ UNCHANGED <<block, cur, plays, override, commands>>

(* A list that is not known is none to validateFn; that a single entry of it *)
(* is not known is an error, like a name that is missing.                    *)
RoleErrors(b) ==
  {n \in DOMAIN b.roles :
     "roles" \notin b.unknown /\ ~b.roles[n].galaxy /\ ~vfPath(b.roles[n].name)}

(* An unknown playbook is no list: the type assertion panics. *)
Panics(b) == ~b.known /\ b.entities = {"playbook"}

PlayErrors(b) ==
  IF Cardinality(b.entities) # 1 THEN 1
  ELSE IF b.entities = {"playbook"} THEN Cardinality(RoleErrors(b)) ELSE 0

ValidatePlay ==
  /\ pc = "validate" /\ block.readable /\ cur <= Len(block.plays)
  /\ ~Panics(block.plays[cur])
  /\ errors' = errors + PlayErrors(block.plays[cur])
  /\ cur' = cur + 1
  /\ UNCHANGED <<block, pc, plays, override, commands>>

(* recover, and es as it was. *)
BugPanicSwallowed ==
  /\ pc = "validate" /\ block.readable /\ cur <= Len(block.plays) /\ Panics(block.plays[cur])
  /\ pc' = (IF errors = 0 THEN "decode" ELSE "rejected") /\ cur' = 1
  /\ UNCHANGED <<block, errors, plays, override, commands>>

(* The deferred recover turns the panic into one more error: the plays      *)
(* after this one are not looked at.                                        *)
ValidatePanics ==
  /\ pc = "validate" /\ block.readable /\ cur <= Len(block.plays) /\ Panics(block.plays[cur])
  /\ errors' = errors + 1 /\ pc' = "rejected"
  /\ UNCHANGED <<block, cur, plays, override, commands>>

(* plays is not known, and thus no list of maps: an early return. *)
Unreadable ==
  /\ pc = "validate" /\ ~block.readable
  /\ errors' = errors + 1 /\ pc' = "rejected"
  /\ UNCHANGED <<block, cur, plays, override, commands>>

(* Nothing to play is a warning; terraform applies what has no error. *)
Validated ==
  /\ pc = "validate" /\ block.readable /\ cur > Len(block.plays)
  /\ pc' = (IF errors = 0 THEN "decode" ELSE "rejected") /\ cur' = 1
  /\ UNCHANGED <<block, errors, plays, override, commands>>

-----------------------------------------------------------------------------
(* decodeConfig *)

(* NewPlaySchema: what terraform fills in for a setting not configured. *)
schemaDefault ==
  [[s \in Settings |-> <<>>] EXCEPT
     !["become_method"] = <<"sudo">>, !["become_user"] = <<"root">>, !["forks"] = <<"5">>]

(* NewPlayFromMapInterface: the first of the three entities that is there. *)
EntityOf(b) ==
  CASE ~b.there -> "none"
    [] b.there /\ "playbook" \in b.entities -> "playbook"
    [] b.there /\ "module" \in b.entities /\ "playbook" \notin b.entities -> "module"
    [] OTHER -> "galaxy_install"

(* The roles_path of a galaxy_install is a text, not given when it is empty. *)
RolesOf(b) ==
  IF EntityOf(b) = "galaxy_install" /\ b.roles = <<[galaxy |-> FALSE, name |-> ""]>>
  THEN <<>> ELSE b.roles

NewPlay(b, defaults) ==
  [entity |-> EntityOf(b), enabled |-> b.enabled, become |-> b.become, file |-> b.file,
   roles |-> RolesOf(b), defaults |-> defaults,
   own |-> [s \in Settings |-> IF b.set[s] # <<>> THEN b.set[s] ELSE schemaDefault[s]]]

Enabled(p) == p.enabled

(* Disabled plays left out, which Enabled would have told apart later. *)
BugDisabledDropped ==
  /\ pc = "decode"
  /\ plays' = SelectSeq([i \in DOMAIN block.plays |-> NewPlay(block.plays[i], block.defaults)], Enabled)
  /\ override' = [i \in DOMAIN plays' |-> NoOverride]
  /\ pc' = (IF block.remote THEN "deploy" ELSE "hosts")
  /\ UNCHANGED <<block, cur, errors, commands>>

decodeConfig ==
  /\ pc = "decode"
  /\ plays' = [i \in DOMAIN block.plays |-> NewPlay(block.plays[i], block.defaults)]
  /\ override' = [i \in DOMAIN block.plays |-> NoOverride]
  /\ pc' = (IF block.remote THEN "deploy" ELSE "hosts")
  /\ UNCHANGED <<block, cur, errors, commands>>

-----------------------------------------------------------------------------
(* The accessors of Play, of a play p with the overrides o *)

(* len(list) > 0, or text # "" and number > 0: of a play's own setting and, *)
(* as the IsSet fields of Defaults, of a default.                           *)
Given(s, v) == v # <<>> /\ (s \notin Lists => v[1] # (IF s = "forks" THEN "0" ELSE ""))

fallback ==
  [[s \in Settings |-> <<>>] EXCEPT !["become_method"] = <<"sudo">>, !["forks"] = <<"5">>]

Setting(p, s) ==
  IF Given(s, p.own[s]) THEN p.own[s]
  ELSE IF Given(s, p.defaults[s]) THEN p.defaults[s] ELSE fallback[s]

(* The override looked at last. *)
BugOverrideLast(o, p, s) == IF Setting(p, s) # <<>> THEN Locals(Setting(p, s)) ELSE o[s]

PathSetting(o, p, s) == IF o[s] # <<>> THEN o[s] ELSE Locals(Setting(p, s))

FilePath(o, p) == IF o.file # <<>> THEN o.file ELSE Locals(p.file)

RolesPath(o, p) ==
  IF o.roles # <<>> THEN o.roles
  ELSE [n \in DOMAIN p.roles |->
          At(IF p.roles[n].galaxy THEN "prefixed" ELSE "controller", p.roles[n].name, 0)]

-----------------------------------------------------------------------------
(* Remote mode: deployAnsibleData, of play p, the i-th *)

Generated(w, p, i, hosts) ==
  [at |-> w, name |-> "inventory", play |-> i, hosts |-> hosts, groups |-> Setting(p, "groups")]

ensureLocalhostInHosts(hosts) ==
  IF Contains(hosts, "localhost") THEN hosts ELSE <<"localhost">> \o hosts

RemoteInventory(p, i) ==
  LET hosts == ensureLocalhostInHosts(Setting(p, "hosts")) IN
  Generated("host", p, i, [n \in DOMAIN hosts |-> <<hosts[n], "">>])

(* Those of a list that are not empty. *)
NonEmpty(names) ==
  LET kept[n \in 0 .. Len(names)] ==
        IF n = 0 THEN <<>>
        ELSE IF names[n] = "" THEN kept[n - 1] ELSE Append(kept[n - 1], names[n])
  IN  kept[Len(names)]

(* The secrets uploadVaultPasswordOrIDFile is called for, but the empty ones. *)
VaultFiles(p) ==
  NonEmpty(IF Setting(p, "vault_id") # <<>> THEN Setting(p, "vault_id")
           ELSE Setting(p, "vault_password_file"))

(* What is read on the controller to deploy a play. *)
Read(p) ==
  LET secrets == ToSet(VaultFiles(p)) \cup ToSet(Setting(p, "inventory_file"))
  IN CASE p.entity = "none" -> {}
       [] p.entity = "galaxy_install" -> ToSet(p.file)
       [] p.entity = "module" -> secrets
       [] p.entity = "playbook" ->
            secrets \cup ToSet(p.file) \cup {x.name : x \in {y \in ToSet(p.roles) : ~y.galaxy}}

(* The overrides set on a playbook or module; a list of ids that are all    *)
(* empty sets an empty one.                                                 *)
Uploaded(p, i) ==
  LET ids == Setting(p, "vault_id") # <<>>
  IN [inventory_file |-> IF Setting(p, "inventory_file") # <<>>
                         THEN Copies(Setting(p, "inventory_file"), i)
                         ELSE <<RemoteInventory(p, i)>>,
      vault_id |-> IF ids THEN Copies(VaultFiles(p), i) ELSE <<>>,
      vault_password_file |-> IF ids THEN <<>> ELSE Copies(VaultFiles(p), i),
      file |-> Copies(p.file, 0),
      roles |-> [n \in DOMAIN p.roles |-> Copy(p.roles[n].name, 0)]]

(* A galaxy_install has its role file and the directory it installs to.     *)
Installed(p) ==
  [NoOverride EXCEPT
     !.file = Copies(p.file, 0),
     !.roles = IF p.roles = <<>> THEN <<Copy("galaxy-roles", 0)>>
               ELSE [n \in DOMAIN p.roles |-> Copy(p.roles[n].name, 0)]]

Deployed(p, i) ==
  IF p.entity = "none" THEN NoOverride
  ELSE IF p.entity = "galaxy_install" THEN Installed(p) ELSE Uploaded(p, i)

SkipDisabled ==
  /\ pc = "deploy" /\ cur <= Len(plays) /\ ~plays[cur].enabled
  /\ cur' = cur + 1
  /\ UNCHANGED <<block, pc, errors, plays, override, commands>>

(* The overrides kept where the plays share them, with the defaults. *)
BugOverrideShared ==
  /\ pc = "deploy" /\ cur <= Len(plays) /\ plays[cur].enabled
  /\ Read(plays[cur]) \cap Absent = {}
  /\ override' = [i \in DOMAIN plays |->
       [Deployed(plays[cur], cur) EXCEPT !.file = IF i = cur THEN @ ELSE override[i].file]]
  /\ cur' = cur + 1
  /\ UNCHANGED <<block, pc, errors, plays, commands>>

DeployPlay ==
  /\ pc = "deploy" /\ cur <= Len(plays) /\ plays[cur].enabled
  /\ Read(plays[cur]) \cap Absent = {}
  /\ override' = [override EXCEPT ![cur] = Deployed(plays[cur], cur)]
  /\ cur' = cur + 1
  /\ UNCHANGED <<block, pc, errors, plays, commands>>

(* ResolvePath or ReadFile of a file that is not there. *)
DeployFails ==
  /\ pc = "deploy" /\ cur <= Len(plays) /\ plays[cur].enabled
  /\ Read(plays[cur]) \cap Absent # {}
  /\ pc' = "failed"
  /\ UNCHANGED <<block, cur, errors, plays, override, commands>>

DeployDone ==
  /\ pc = "deploy" /\ cur > Len(plays)
  /\ pc' = "play" /\ cur' = 1
  /\ UNCHANGED <<block, errors, plays, override, commands>>

-----------------------------------------------------------------------------
(* Local mode *)

(* connInfo.Host is empty for a null_resource, which has to name hosts on   *)
(* every play, enabled or not.                                              *)
HasHosts(p) == Setting(p, "hosts") # <<>> \/ Setting(p, "inventory_file") # <<>>

CheckHosts ==
  /\ pc = "hosts"
  /\ pc' = (IF block.host # "" \/ \A i \in DOMAIN plays : HasHosts(plays[i]) THEN "play" ELSE "failed")
  /\ UNCHANGED <<block, cur, errors, plays, override, commands>>

(* Every host listed, each at the address of the resource. *)
BugAllHostsListed(p, i, host) ==
  LET hosts == Setting(p, "hosts") IN
  Generated("controller", p, i,
    IF host # "" /\ hosts = <<>> THEN <<<<host, "">>>>
    ELSE [n \in DOMAIN hosts |-> <<hosts[n], host>>])

(* writeInventory: a resource has one host, named by the first of the list; *)
(* a null_resource has those that are listed.                               *)
LocalInventory(p, i, host) ==
  LET hosts == Setting(p, "hosts")
      named == NonEmpty(hosts)
  IN Generated("controller", p, i,
       IF host = "" THEN [n \in DOMAIN named |-> <<named[n], "">>]
       ELSE IF hosts # <<>> /\ hosts[1] # "" THEN <<<<hosts[1], host>>>> ELSE <<<<host, "">>>>)

-----------------------------------------------------------------------------
(* ToCommand *)

(* filepath.Clean of the empty string. *)
Clean(paths) == [n \in DOMAIN paths |-> IF paths[n] = Local("") THEN Local(".") ELSE paths[n]]

(* appendSharedArguments; galaxy_install has only its role file and path. *)
ToCommand(o, p, i, user) ==
  LET ids == PathSetting(o, p, "vault_id")
      shared(v) == IF p.entity = "galaxy_install" THEN <<>> ELSE v
      becoming(v) == IF p.become THEN shared(v) ELSE <<>>
  IN [play |-> i, entity |-> p.entity, file |-> FilePath(o, p),
      roles |-> IF p.entity = "playbook" THEN Locals(EnvRoles) \o Clean(RolesPath(o, p))
                ELSE IF p.entity = "module" THEN <<>> ELSE RolesPath(o, p),
      inventory_file |-> shared(PathSetting(o, p, "inventory_file")),
      become_method |-> becoming(Setting(p, "become_method")),
      become_user |-> becoming(IF Setting(p, "become_user") # <<>> THEN Setting(p, "become_user")
                               ELSE <<user>>),
      extra_vars |-> shared(Setting(p, "extra_vars")),
      forks |-> shared(Setting(p, "forks")),
      limit |-> shared(Setting(p, "limit")),
      vault_id |-> shared(Clean(ids)),
      vault_password_file |->
        shared(IF ids # <<>> THEN <<>> ELSE PathSetting(o, p, "vault_password_file"))]

(* Local mode looks at Enabled, remote mode does not. *)
Taken(i) == block.remote \/ plays[i].enabled

RunPlay ==
  LET p == plays[cur]
      o == IF block.remote \/ Setting(p, "inventory_file") # <<>> THEN override[cur]
           ELSE [override[cur] EXCEPT !.inventory_file = <<LocalInventory(p, cur, block.host)>>]
  IN
  /\ pc = "play" /\ cur <= Len(plays) /\ Taken(cur) /\ p.entity # "none"
  /\ override' = [override EXCEPT ![cur] = o]
  /\ commands' = Append(commands, ToCommand(o, p, cur, block.user))
  /\ cur' = cur + 1
  /\ UNCHANGED <<block, pc, errors, plays>>

SkipPlay ==
  /\ pc = "play" /\ cur <= Len(plays) /\ ~Taken(cur)
  /\ cur' = cur + 1
  /\ UNCHANGED <<block, pc, errors, plays, override, commands>>

(* A play without its entity is found out here, after the plays before it. *)
Unsupported ==
  /\ pc = "play" /\ cur <= Len(plays) /\ Taken(cur) /\ plays[cur].entity = "none"
  /\ pc' = "failed"
  /\ UNCHANGED <<block, cur, errors, plays, override, commands>>

PlaysDone ==
  /\ pc = "play" /\ cur > Len(plays) /\ pc' = "done"
  /\ UNCHANGED <<block, cur, errors, plays, override, commands>>

Next ==
  \/ ValidateSchema \/ ValidatePlay \/ ValidatePanics \/ Unreadable \/ Validated
  \/ decodeConfig
  \/ SkipDisabled \/ DeployPlay \/ DeployFails \/ DeployDone
  \/ CheckHosts \/ RunPlay \/ SkipPlay \/ Unsupported \/ PlaysDone

Spec == Init /\ [][Next]_vars

-----------------------------------------------------------------------------
(* Properties *)

TypeOK ==
  /\ block \in Blocks /\ pc \in Labels
  /\ cur \in 1 .. Len(block.plays) + 1 /\ errors \in Nat
  /\ Len(plays) = Len(override) /\ Len(plays) \in {0, Len(block.plays)}
  /\ \A c \in ToSet(commands) : \A s \in Paths : c[s] \in Seq(Path)

Accepted == pc \notin {"schema", "validate", "rejected"}

(* validateFn: terraform applies a block only when every play of it has one *)
(* entity, and every file, role, inventory and password file that was known *)
(* and could be looked for was found, also those of the plays after one     *)
(* whose validation panics.                                                 *)
AcceptedWasChecked ==
  Accepted => \A b \in ToSet(block.plays) :
    /\ Cardinality(b.entities) = 1
    /\ b.known /\ "file" \notin b.unknown => ToSet(b.file) \cap Missing \subseteq Unchecked
    /\ b.entities = {"playbook"} /\ "roles" \notin b.unknown =>
         \A x \in ToSet(b.roles) : ~x.galaxy /\ x.name \in Missing => x.name \in Unchecked
    /\ \A s \in {"inventory_file", "vault_password_file"} \ b.unknown :
         ToSet(b.set[s]) \cap Missing \subseteq Unchecked

(* What the play of a command was configured with, and what the defaults    *)
(* leave of it: an empty text says nothing, nor does a list without         *)
(* elements.                                                                *)
Own(c, s) == block.plays[c.play].set[s]
Stated(s, v) == v \notin IF s \in Lists THEN {<<>>} ELSE {<<>>, <<"">>}
Configured(c, s) ==
  IF Stated(s, Own(c, s)) THEN Own(c, s)
  ELSE IF Stated(s, block.defaults[s]) THEN block.defaults[s] ELSE <<>>
Ids(c) == Configured(c, "vault_id")
Names(paths) == [n \in DOMAIN paths |-> paths[n].name]
Shared(c) == c.entity # "galaxy_install"
WasDeployed(c) == block.remote /\ plays[c.play].enabled

(* The command of a play that was deployed names nothing of the controller: *)
(* deploying has replaced every path of the play, its roles (but those of   *)
(* the plugin's environment) and its secrets, and inventory and secrets by  *)
(* those uploaded for this play; only ids that are all empty leave          *)
(* something, a --vault-id='.' for each.  Where nothing was deployed, in    *)
(* local mode and for a disabled play, which remote mode executes all the   *)
(* same, a command names nothing of the host.                               *)
HostPathsIffDeployed ==
  \A c \in ToSet(commands) :
    LET secrets == c["vault_id"] \o c["vault_password_file"] \o c["inventory_file"]
        environment == IF c.entity = "playbook" THEN Len(EnvRoles) ELSE 0
        uploaded == c.file \o SubSeq(c.roles, environment + 1, Len(c.roles))
    IN IF WasDeployed(c)
       THEN /\ \A p \in ToSet(uploaded) : p.at = "host"
            /\ \A p \in ToSet(secrets) :
                 \/ p.at = "host" /\ p.play = c.play
                 \/ p = Local(".") /\ ToSet(Ids(c)) = {""}
       ELSE \A p \in ToSet(uploaded) \cup ToSet(secrets) : p.at # "host"

(* Each play is given its own secrets: the ids of its list, or those of the *)
(* defaults, in their order and without the empty ones when they are        *)
(* deployed; else the one password file.  Never both, and none lost: an id  *)
(* of the defaults displaces the play's own password file.                  *)
SecretsAsConfigured ==
  \A c \in ToSet(commands) : Shared(c) =>
    LET kept == NonEmpty(Ids(c)) IN
    /\ IF WasDeployed(c) /\ kept # <<>> THEN Names(c["vault_id"]) = kept
       ELSE Names(c["vault_id"]) =
              [n \in DOMAIN Ids(c) |-> IF Ids(c)[n] = "" THEN "." ELSE Ids(c)[n]]
    /\ Names(c["vault_password_file"]) =
         IF Ids(c) = <<>> THEN Configured(c, "vault_password_file") ELSE <<>>

(* The inventory of a command is the one configured, or when that is not    *)
(* given or empty a generated one, which names what is to be provisioned:   *)
(* in remote mode localhost and every host listed; the resource, alone and  *)
(* at its address; the hosts listed for a null_resource, none only when all *)
(* the names are empty.                                                     *)
InventoryReaches ==
  \A c \in ToSet(commands) : Shared(c) /\ plays[c.play].enabled =>
    LET inventory == c["inventory_file"][1]
        listed == ToSet(Configured(c, "hosts"))
        aliases == {h[1] : h \in ToSet(inventory.hosts)}
    IN /\ Len(c["inventory_file"]) = 1
       /\ IF Configured(c, "inventory_file") # <<>>
          THEN inventory.name = Configured(c, "inventory_file")[1] /\ inventory.hosts = <<>>
          ELSE IF block.remote THEN aliases = listed \cup {"localhost"}
          ELSE IF block.host # ""
          THEN Len(inventory.hosts) = 1 /\ block.host \in ToSet(inventory.hosts[1])
          ELSE aliases = listed \ {""} /\ listed # {}

(* README.md:274, of a list that holds these: any setting of it "can be     *)
(* specified in defaults", and thus holds for the plays that do not give it *)
(* themselves.                                                              *)
DefaultsApply ==
  \A c \in ToSet(commands) : Shared(c) =>
    \A s \in {"extra_vars", "forks", "limit"}
             \cup (IF plays[c.play].become THEN {"become_method", "become_user"} ELSE {}) :
      Own(c, s) = <<>> /\ Stated(s, block.defaults[s]) => c[s] = block.defaults[s]
=============================================================================
