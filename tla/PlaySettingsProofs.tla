------------------------- MODULE PlaySettingsProofs -------------------------
(***************************************************************************)
(* What PlaySettings guarantees of any provisioner block: the part of      *)
(* validation, and which values the commands have.  Every command is the   *)
(* one its play determines, whatever has happened to the plays before it:  *)
(* this is the invariant, and what the properties say of commands follows  *)
(* from the accessors alone.                                               *)
(***************************************************************************)
EXTENDS PlaySettings, SequenceRecursion, FiniteSetTheorems

(* The block does not change, and errors counts what was found in it: as    *)
(* long as there are none every play has passed the schema's validators,    *)
(* and those before cur have passed validateFn.                             *)
Counting ==
  /\ block \in Blocks /\ pc \in Labels /\ errors \in Nat
  /\ cur \in 1 .. Len(block.plays) + 1
  /\ pc \in {"schema", "decode"} => cur = 1

ValidBySchema ==
  /\ ValidValues(block.defaults, block.unknown)
  /\ \A i \in DOMAIN block.plays : ValidPlay(block.plays[i])

CheckedInv ==
  /\ Counting
  /\ pc = "validate" /\ errors = 0 =>
       ValidBySchema /\ \A i \in DOMAIN block.plays : i < cur => PlayErrors(block.plays[i]) = 0
  /\ Accepted => ValidBySchema /\ \A i \in DOMAIN block.plays : PlayErrors(block.plays[i]) = 0

(* The plays of a block, as its assumption has them. *)
LEMMA BlockPlays ==
  ASSUME block \in Blocks
  PROVE  /\ block.plays \in Seq(Block) /\ Len(block.plays) \in Nat
         /\ DOMAIN block.plays = 1 .. Len(block.plays)
         /\ \A i \in DOMAIN block.plays : block.plays[i] \in Block
         /\ block.defaults \in Values
<1>1. block.plays \in Seq(Block) /\ block.defaults \in Values
  BY SettingsAssumption
<1> QED
  BY <1>1

(* A count of plays or roles is zero only when there is none. *)
LEMMA NoneCounted ==
  ASSUME NEW s, NEW S, s \in Seq(S), NEW T \in SUBSET DOMAIN s
  PROVE  Cardinality(T) \in Nat /\ (Cardinality(T) = 0 <=> T = {})
<1>1. Len(s) \in Nat /\ DOMAIN s = 1 .. Len(s)
  OBVIOUS
<1>2. IsFiniteSet(DOMAIN s)
  BY <1>1, FS_Interval
<1>3. IsFiniteSet(T)
  BY <1>2, FS_Subset
<1> QED
  BY <1>3, FS_CardinalityType, FS_EmptySet

(* The errors validateFn finds in a play are a number. *)
LEMMA ErrorsCounted ==
  ASSUME NEW b \in Block
  PROVE  /\ PlayErrors(b) \in Nat
         /\ PlayErrors(b) = 0 => Cardinality(b.entities) = 1
         /\ PlayErrors(b) = 0 /\ b.entities = {"playbook"} => RoleErrors(b) = {}
<1>1. b.roles \in Seq(Role)
  BY DEF Block
<1>2. RoleErrors(b) \in SUBSET DOMAIN b.roles
  BY DEF RoleErrors
<1>3. Cardinality(RoleErrors(b)) \in Nat /\ (Cardinality(RoleErrors(b)) = 0 <=> RoleErrors(b) = {})
  BY <1>1, <1>2, NoneCounted
<1> QED
  BY <1>3 DEF PlayErrors

(* Every step of validation keeps the count. *)
LEMMA ValidationChecks ==
  ASSUME CheckedInv,
         ValidateSchema \/ ValidatePlay \/ ValidatePanics \/ Unreadable \/ Validated
  PROVE  CheckedInv'
<1> USE DEF CheckedInv, Counting, Labels, Accepted
<1>0. /\ block.plays \in Seq(Block) /\ Len(block.plays) \in Nat
      /\ DOMAIN block.plays = 1 .. Len(block.plays)
      /\ \A i \in DOMAIN block.plays : block.plays[i] \in Block
  BY BlockPlays
<1>1. CASE ValidateSchema
  <2>1. LET T == {i \in DOMAIN block.plays : ~ValidPlay(block.plays[i])} IN
        Cardinality(T) \in Nat /\ (Cardinality(T) = 0 <=> T = {})
    BY <1>0, NoneCounted
  <2>2. block' = block /\ cur' = 1 /\ pc' = "validate" /\ errors' \in Nat
    BY <1>1, <2>1 DEF ValidateSchema
  <2>3. errors' = 0 => ValidBySchema'
    BY <1>1, <2>1, <2>2 DEF ValidateSchema, ValidBySchema
  <2>4. \A i \in DOMAIN block.plays : ~(i < 1)
    BY <1>0
  <2> QED
    BY <2>2, <2>3, <2>4
<1>2. CASE ValidatePlay
  <2>1. cur \in DOMAIN block.plays /\ block' = block /\ pc' = pc /\ pc = "validate"
    BY <1>0, <1>2 DEF ValidatePlay
  <2>2. PlayErrors(block.plays[cur]) \in Nat
    BY <1>0, <2>1, ErrorsCounted
  <2>3. errors' \in Nat /\ cur' = cur + 1
        /\ (errors' = 0 => errors = 0 /\ PlayErrors(block.plays[cur]) = 0)
    BY <1>2, <2>2 DEF ValidatePlay
  <2>4. \A i \in DOMAIN block.plays : i < cur' => i < cur \/ i = cur
    BY <1>0, <2>3
  <2>5. cur' \in 1 .. Len(block.plays) + 1
    BY <1>0, <2>1, <2>3
  <2> QED
    BY <2>1, <2>3, <2>4, <2>5 DEF ValidBySchema
<1>3. CASE ValidatePanics
  BY <1>3 DEF ValidatePanics
<1>4. CASE Unreadable
  BY <1>4 DEF Unreadable
<1>5. CASE Validated
  <2>1. \A i \in DOMAIN block.plays : i < cur
    BY <1>0, <1>5 DEF Validated
  <2> QED
    BY <1>5, <2>1 DEF Validated, ValidBySchema
<1> QED
  BY <1>1, <1>2, <1>3, <1>4, <1>5

(* Nothing after validation finds errors or changes the block. *)
LEMMA AfterwardsChecked ==
  ASSUME CheckedInv, Accepted, pc' \in Labels, Accepted', UNCHANGED <<block, errors>>,
         pc # "schema", pc' # "decode", cur' \in 1 .. Len(block.plays) + 1
  PROVE  CheckedInv'
BY DEF CheckedInv, Counting, Accepted, ValidBySchema, PlayErrors, RoleErrors, ValidPlay,
       ValidValues, vfPath, Absent, Entities, Labels

-----------------------------------------------------------------------------
(* The overrides that play i has when its turn comes, those its command is  *)
(* built with, and that command.                                            *)
SetFor(i) == IF block.remote /\ plays[i].enabled THEN Deployed(plays[i], i) ELSE NoOverride
UsedFor(i) ==
  IF block.remote \/ Setting(plays[i], "inventory_file") # <<>> THEN SetFor(i)
  ELSE [SetFor(i) EXCEPT !.inventory_file = <<LocalInventory(plays[i], i, block.host)>>]
CommandOf(i) == ToCommand(UsedFor(i), plays[i], i, block.user)

Decoded == {"deploy", "hosts", "play", "done", "failed"}

(* The plays are those of the block from decodeConfig on. *)
PlaysInv ==
  IF pc \in Decoded
  THEN plays = [i \in DOMAIN block.plays |-> NewPlay(block.plays[i], block.defaults)]
       /\ DOMAIN override = DOMAIN plays
  ELSE plays = <<>> /\ override = <<>> /\ commands = <<>>

(* Those before cur have been deployed, none in local mode; and a play that *)
(* has not been executed keeps what deploying has set.                      *)
OverridesInv ==
  /\ pc = "deploy" => /\ block.remote
                      /\ \A i \in DOMAIN plays :
                           override[i] = IF i < cur THEN SetFor(i) ELSE NoOverride
  /\ pc = "hosts" => ~block.remote /\ \A i \in DOMAIN plays : override[i] = NoOverride
  /\ pc = "play" => \A i \in DOMAIN plays : i >= cur => override[i] = SetFor(i)

(* Every command is that of its play, which local mode executes only when   *)
(* it is enabled, and of a null_resource only when all name their hosts.    *)
HostsKnown == block.remote \/ block.host # "" \/ \A i \in DOMAIN plays : HasHosts(plays[i])

CommandsInv ==
  /\ pc \in {"deploy", "hosts"} => commands = <<>>
  /\ pc = "play" \/ commands # <<>> => HostsKnown
  /\ commands \in Seq(ToSet(commands))
  /\ \A c \in ToSet(commands) : \E i \in DOMAIN plays :
       c = CommandOf(i) /\ plays[i].entity # "none" /\ Taken(i)

(* All of these read the block and its plays. *)
LEMMA SamePlays ==
  ASSUME UNCHANGED <<block, plays>>
  PROVE  /\ \A i : SetFor(i)' = SetFor(i) /\ CommandOf(i)' = CommandOf(i) /\ Taken(i)' = Taken(i)
         /\ HostsKnown' = HostsKnown
BY DEF SetFor, UsedFor, CommandOf, Taken, HostsKnown

(* The lengths, once the plays are there. *)
LEMMA PlaysThere ==
  ASSUME CheckedInv, PlaysInv, pc \in Decoded
  PROVE  /\ Len(plays) = Len(block.plays) /\ Len(plays) \in Nat
         /\ DOMAIN plays = 1 .. Len(plays) /\ DOMAIN block.plays = DOMAIN plays
         /\ DOMAIN override = DOMAIN plays
         /\ \A i \in DOMAIN plays : plays[i] = NewPlay(block.plays[i], block.defaults)
<1>1. /\ DOMAIN block.plays = 1 .. Len(block.plays) /\ Len(block.plays) \in Nat
  BY BlockPlays DEF CheckedInv, Counting
<1>2. plays = [i \in DOMAIN block.plays |-> NewPlay(block.plays[i], block.defaults)]
      /\ DOMAIN override = DOMAIN plays
  BY DEF PlaysInv
<1> QED
  BY <1>1, <1>2

(* A command appended is the only new one. *)
LEMMA Appended ==
  ASSUME NEW s, s \in Seq(ToSet(s)), NEW c
  PROVE  ToSet(Append(s, c)) = ToSet(s) \cup {c} /\ Append(s, c) \in Seq(ToSet(Append(s, c)))
<1>1. s \in Seq(ToSet(s) \cup {c}) /\ Len(s) \in Nat /\ DOMAIN s = 1 .. Len(s)
  BY DEF ToSet
<1>2. /\ Append(s, c) \in Seq(ToSet(s) \cup {c})
      /\ DOMAIN Append(s, c) = 1 .. Len(s) + 1
      /\ Append(s, c)[Len(s) + 1] = c
      /\ \A k \in 1 .. Len(s) : Append(s, c)[k] = s[k]
  BY <1>1
<1>3. ToSet(Append(s, c)) = ToSet(s) \cup {c}
  <2>1. \A k \in 1 .. Len(s) + 1 : k = Len(s) + 1 \/ k \in 1 .. Len(s)
    BY <1>1
  <2>2. 1 .. Len(s) \subseteq 1 .. Len(s) + 1 /\ Len(s) + 1 \in 1 .. Len(s) + 1
    BY <1>1
  <2> QED
    BY <1>1, <1>2, <2>1, <2>2 DEF ToSet
<1> QED
  BY <1>2, <1>3

(* As long as no command is built. *)
LEMMA NoneBuilt ==
  ASSUME commands = <<>>, commands' = commands, pc' # "play"
  PROVE  CommandsInv'
<1>1. ToSet(commands') = {} /\ commands' \in Seq(ToSet(commands')) /\ commands' = <<>>
  BY DEF ToSet
<1> QED
  BY <1>1 DEF CommandsInv

LEMMA NoNewCommand ==
  ASSUME CommandsInv, UNCHANGED <<block, plays, commands>>,
         pc' \in {"deploy", "hosts"} => commands = <<>>, pc' = "play" => HostsKnown
  PROVE  CommandsInv'
BY SamePlays DEF CommandsInv

-----------------------------------------------------------------------------
(* The steps of validation and decodeConfig *)

LEMMA ValidationBuilt ==
  ASSUME PlaysInv, ValidateSchema \/ ValidatePlay \/ ValidatePanics \/ Unreadable \/ Validated
  PROVE  PlaysInv' /\ OverridesInv' /\ CommandsInv'
<1>1. pc \notin Decoded /\ pc' \notin Decoded /\ UNCHANGED <<block, plays, override, commands>>
  BY DEF ValidateSchema, ValidatePlay, ValidatePanics, Unreadable, Validated, Decoded
<1>2. PlaysInv' /\ commands = <<>>
  BY <1>1 DEF PlaysInv
<1>3. OverridesInv' /\ pc' # "play"
  BY <1>1 DEF OverridesInv, Decoded
<1> QED
  BY <1>1, <1>2, <1>3, NoneBuilt

LEMMA DecodeBuilt ==
  ASSUME CheckedInv, PlaysInv, decodeConfig
  PROVE  CheckedInv' /\ PlaysInv' /\ OverridesInv' /\ CommandsInv'
<1>1. /\ pc = "decode" /\ pc' = (IF block.remote THEN "deploy" ELSE "hosts")
      /\ UNCHANGED <<block, cur, errors, commands>>
      /\ plays' = [i \in DOMAIN block.plays |-> NewPlay(block.plays[i], block.defaults)]
      /\ override' = [i \in DOMAIN block.plays |-> NoOverride]
  BY DEF decodeConfig
<1>2. cur = 1 /\ DOMAIN block.plays = 1 .. Len(block.plays) /\ Len(block.plays) \in Nat
  BY <1>1, BlockPlays DEF CheckedInv, Counting
<1>3. PlaysInv'
  BY <1>1 DEF PlaysInv, Decoded
<1>4. OverridesInv'
  <2>1. \A i \in DOMAIN plays' : override'[i] = NoOverride /\ ~(i < cur')
    BY <1>1, <1>2
  <2> QED
    BY <1>1, <2>1 DEF OverridesInv
<1>5. CommandsInv'
  <2>1. commands = <<>> /\ pc' # "play"
    BY <1>1 DEF PlaysInv, Decoded
  <2> QED
    BY <1>1, <2>1, NoneBuilt
<1>6. CheckedInv'
  BY <1>1, AfterwardsChecked DEF CheckedInv, Counting, Accepted, Labels
<1> QED
  BY <1>3, <1>4, <1>5, <1>6

(* After decodeConfig the block and the plays stay. *)
LEMMA AfterDecode ==
  ASSUME CheckedInv, PlaysInv, pc \in Decoded, pc' \in Decoded,
         UNCHANGED <<block, errors, plays>>, DOMAIN override' = DOMAIN override,
         cur' \in 1 .. Len(block.plays) + 1
  PROVE  CheckedInv' /\ PlaysInv'
<1>1. Accepted /\ Accepted' /\ pc' \in Labels /\ pc # "schema" /\ pc' # "decode"
  BY DEF Accepted, Decoded, Labels
<1>2. CheckedInv'
  BY <1>1, AfterwardsChecked
<1>3. PlaysInv'
  BY DEF PlaysInv
<1> QED
  BY <1>2, <1>3

(* The steps of deployAnsibleData. *)
LEMMA DeployBuilt ==
  ASSUME CheckedInv, PlaysInv, OverridesInv, CommandsInv,
         SkipDisabled \/ DeployPlay \/ DeployFails \/ DeployDone
  PROVE  CheckedInv' /\ PlaysInv' /\ OverridesInv' /\ CommandsInv'
<1>0. /\ pc = "deploy" /\ pc \in Decoded /\ pc' \in Decoded /\ pc' # "hosts"
      /\ UNCHANGED <<block, errors, plays, commands>>
      /\ DOMAIN override' = DOMAIN override
  BY DEF SkipDisabled, DeployPlay, DeployFails, DeployDone, Decoded
<1>1. /\ Len(plays) = Len(block.plays) /\ Len(plays) \in Nat
      /\ DOMAIN plays = 1 .. Len(plays) /\ DOMAIN override = DOMAIN plays
      /\ cur \in 1 .. Len(block.plays) + 1 /\ cur \in Nat
  BY <1>0, PlaysThere DEF CheckedInv, Counting
<1>2. /\ block.remote /\ commands = <<>>
      /\ \A i \in DOMAIN plays : override[i] = IF i < cur THEN SetFor(i) ELSE NoOverride
  BY <1>0 DEF OverridesInv, CommandsInv
<1>3. \A i : SetFor(i)' = SetFor(i)
  BY <1>0, SamePlays
<1>4. cur' \in 1 .. Len(block.plays) + 1
  BY <1>1 DEF SkipDisabled, DeployPlay, DeployFails, DeployDone
<1>5. CheckedInv' /\ PlaysInv'
  BY <1>0, <1>4, AfterDecode
<1>6. CommandsInv'
  <2>1. HostsKnown
    BY <1>2 DEF HostsKnown
  <2> QED
    BY <1>0, <1>2, <2>1, NoNewCommand
<1>7. CASE SkipDisabled
  <2>1. pc' = "deploy" /\ override' = override /\ cur' = cur + 1 /\ cur \in DOMAIN plays
        /\ ~plays[cur].enabled
    BY <1>0, <1>1, <1>7 DEF SkipDisabled
  <2>2. SetFor(cur) = NoOverride
    BY <2>1 DEF SetFor
  <2>3. \A i \in DOMAIN plays : i < cur' <=> i < cur \/ i = cur
    BY <1>1, <2>1
  <2>4. \A i \in DOMAIN plays : override'[i] = IF i < cur' THEN SetFor(i) ELSE NoOverride
    BY <1>1, <1>2, <2>1, <2>2, <2>3
  <2> QED
    BY <1>0, <1>2, <1>3, <1>5, <1>6, <2>1, <2>4 DEF OverridesInv
<1>8. CASE DeployPlay
  <2>1. /\ pc' = "deploy" /\ cur' = cur + 1 /\ cur \in DOMAIN plays /\ plays[cur].enabled
        /\ override' = [override EXCEPT ![cur] = Deployed(plays[cur], cur)]
    BY <1>0, <1>1, <1>8 DEF DeployPlay
  <2>2. SetFor(cur) = Deployed(plays[cur], cur)
    BY <1>2, <2>1 DEF SetFor
  <2>3. \A i \in DOMAIN plays : i < cur' <=> i < cur \/ i = cur
    BY <1>1, <2>1
  <2>4. \A i \in DOMAIN plays : override'[i] = IF i = cur THEN SetFor(cur) ELSE override[i]
    BY <1>1, <2>1, <2>2
  <2>5. \A i \in DOMAIN plays : override'[i] = IF i < cur' THEN SetFor(i) ELSE NoOverride
    BY <1>2, <2>3, <2>4
  <2> QED
    BY <1>0, <1>2, <1>3, <1>5, <1>6, <2>1, <2>5 DEF OverridesInv
<1>9. CASE DeployFails
  <2>1. pc' = "failed"
    BY <1>9 DEF DeployFails
  <2> QED
    BY <1>5, <1>6, <2>1 DEF OverridesInv
<1>10. CASE DeployDone
  <2>1. pc' = "play" /\ override' = override /\ cur > Len(plays)
    BY <1>10 DEF DeployDone
  <2>2. \A i \in DOMAIN plays : i < cur
    BY <1>1, <2>1
  <2>3. \A i \in DOMAIN plays : override'[i] = SetFor(i)
    BY <1>2, <2>1, <2>2
  <2> QED
    BY <1>0, <1>3, <1>5, <1>6, <2>1, <2>3 DEF OverridesInv
<1> QED
  BY <1>7, <1>8, <1>9, <1>10

(* Local mode goes on to its plays with nothing overridden. *)
LEMMA CheckBuilt ==
  ASSUME CheckedInv, PlaysInv, OverridesInv, CommandsInv, CheckHosts
  PROVE  CheckedInv' /\ PlaysInv' /\ OverridesInv' /\ CommandsInv'
<1>0. /\ pc = "hosts" /\ pc \in Decoded /\ pc' \in Decoded /\ pc' \in {"play", "failed"}
      /\ UNCHANGED <<block, cur, errors, plays, override, commands>>
      /\ pc' = "play" => block.host # "" \/ \A i \in DOMAIN plays : HasHosts(plays[i])
  BY DEF CheckHosts, Decoded
<1>1. CheckedInv' /\ PlaysInv'
  BY <1>0, AfterDecode DEF CheckedInv, Counting
<1>2. CommandsInv'
  BY <1>0, NoNewCommand DEF HostsKnown, CommandsInv
<1>3. \A i \in DOMAIN plays : override[i] = SetFor(i)
  BY <1>0 DEF OverridesInv, SetFor
<1>4. OverridesInv'
  BY <1>0, <1>3, SamePlays DEF OverridesInv
<1> QED
  BY <1>1, <1>2, <1>4

(* The loop of the commands: the one command that is built is that of its   *)
(* play.                                                                    *)
LEMMA PlayBuilt ==
  ASSUME CheckedInv, PlaysInv, OverridesInv, CommandsInv,
         RunPlay \/ SkipPlay \/ Unsupported \/ PlaysDone
  PROVE  CheckedInv' /\ PlaysInv' /\ OverridesInv' /\ CommandsInv'
<1>0. /\ pc = "play" /\ pc \in Decoded /\ pc' \in {"play", "failed", "done"} /\ pc' \in Decoded
      /\ UNCHANGED <<block, errors, plays>> /\ DOMAIN override' = DOMAIN override
  BY DEF RunPlay, SkipPlay, Unsupported, PlaysDone, Decoded
<1>1. /\ Len(plays) = Len(block.plays) /\ Len(plays) \in Nat
      /\ DOMAIN plays = 1 .. Len(plays) /\ DOMAIN override = DOMAIN plays
      /\ cur \in 1 .. Len(block.plays) + 1 /\ cur \in Nat
  BY <1>0, PlaysThere DEF CheckedInv, Counting
<1>2. HostsKnown /\ \A i \in DOMAIN plays : i >= cur => override[i] = SetFor(i)
  BY <1>0 DEF OverridesInv, CommandsInv
<1>3. cur' \in 1 .. Len(block.plays) + 1
  BY <1>1 DEF RunPlay, SkipPlay, Unsupported, PlaysDone
<1>4. CheckedInv' /\ PlaysInv'
  BY <1>0, <1>3, AfterDecode
<1>5. CASE RunPlay
  <2>1. cur \in DOMAIN plays /\ cur' = cur + 1 /\ pc' = "play" /\ Taken(cur)
        /\ plays[cur].entity # "none"
    BY <1>1, <1>5 DEF RunPlay
  <2>2. override[cur] = SetFor(cur)
    BY <1>1, <1>2, <2>1
  <2>3. override' = [override EXCEPT ![cur] = UsedFor(cur)]
        /\ commands' = Append(commands, CommandOf(cur))
    BY <1>5, <2>2 DEF RunPlay, UsedFor, CommandOf
  <2>4. \A i \in DOMAIN plays : i >= cur' => override'[i] = SetFor(i)
    BY <1>1, <1>2, <2>1, <2>3
  <2>5. OverridesInv'
    BY <1>0, <2>1, <2>4, SamePlays DEF OverridesInv
  <2>6. /\ ToSet(commands') = ToSet(commands) \cup {CommandOf(cur)}
        /\ commands' \in Seq(ToSet(commands'))
    BY <2>3, Appended DEF CommandsInv
  <2>7. \A c \in ToSet(commands') : \E i \in DOMAIN plays :
          c = CommandOf(i) /\ plays[i].entity # "none" /\ Taken(i)
    BY <2>1, <2>6 DEF CommandsInv
  <2>8. CommandsInv'
    BY <1>0, <1>2, <2>1, <2>6, <2>7, SamePlays DEF CommandsInv
  <2> QED
    BY <1>4, <2>5, <2>8
<1>6. CASE SkipPlay \/ Unsupported \/ PlaysDone
  <2>1. override' = override /\ commands' = commands /\ cur' \in {cur, cur + 1}
    BY <1>6 DEF SkipPlay, Unsupported, PlaysDone
  <2>2. OverridesInv'
    <3>1. \A i \in DOMAIN plays : i >= cur' => i >= cur
      BY <1>1, <2>1
    <3> QED
      BY <1>0, <1>2, <2>1, <3>1, SamePlays DEF OverridesInv
  <2>3. CommandsInv'
    BY <1>0, <1>2, <2>1, NoNewCommand
  <2> QED
    BY <1>4, <2>2, <2>3
<1> QED
  BY <1>5, <1>6

(* The invariants hold of every block. *)
SettingsInv == CheckedInv /\ PlaysInv /\ OverridesInv /\ CommandsInv

LEMMA SettingsAlways == Spec => []SettingsInv
<1>1. ASSUME Init PROVE SettingsInv
  <2>1. /\ block \in Blocks /\ pc = "schema" /\ cur = 1 /\ errors = 0
        /\ plays = <<>> /\ override = <<>> /\ commands = <<>>
    BY <1>1 DEF Init
  <2>2. CheckedInv
    <3>1. 1 \in 1 .. Len(block.plays) + 1
      BY <2>1, BlockPlays
    <3> QED
      BY <2>1, <3>1 DEF CheckedInv, Counting, Accepted, Labels
  <2>3. PlaysInv /\ OverridesInv
    BY <2>1 DEF PlaysInv, OverridesInv, Decoded
  <2>4. ToSet(commands) = {} /\ commands \in Seq(ToSet(commands))
    BY <2>1 DEF ToSet
  <2> QED
    BY <2>1, <2>2, <2>3, <2>4 DEF SettingsInv, CommandsInv
<1>2. ASSUME SettingsInv, [Next]_vars PROVE SettingsInv'
  <2>1. CASE UNCHANGED vars
    <3>1. UNCHANGED <<block, pc, cur, errors, plays, override, commands>>
      BY <2>1 DEF vars
    <3>2. CheckedInv'
      BY <1>2, <3>1 DEF SettingsInv, CheckedInv, Counting, Accepted, ValidBySchema
    <3>3. PlaysInv'
      BY <1>2, <3>1 DEF SettingsInv, PlaysInv
    <3>4. OverridesInv' /\ CommandsInv'
      BY <1>2, <3>1, SamePlays DEF SettingsInv, OverridesInv, CommandsInv
    <3> QED
      BY <3>2, <3>3, <3>4 DEF SettingsInv
  <2>2. CASE ValidateSchema \/ ValidatePlay \/ ValidatePanics \/ Unreadable \/ Validated
    BY <1>2, <2>2, ValidationChecks, ValidationBuilt DEF SettingsInv
  <2>3. CASE decodeConfig
    BY <1>2, <2>3, DecodeBuilt DEF SettingsInv
  <2>4. CASE SkipDisabled \/ DeployPlay \/ DeployFails \/ DeployDone
    BY <1>2, <2>4, DeployBuilt DEF SettingsInv
  <2>5. CASE CheckHosts
    BY <1>2, <2>5, CheckBuilt DEF SettingsInv
  <2>6. CASE RunPlay \/ SkipPlay \/ Unsupported \/ PlaysDone
    BY <1>2, <2>6, PlayBuilt DEF SettingsInv
  <2> QED
    BY <1>2, <2>1, <2>2, <2>3, <2>4, <2>5, <2>6 DEF Next
<1> QED
  BY <1>1, <1>2, PTL DEF Spec

-----------------------------------------------------------------------------
(* What is kept of a list w without its elements e, one element at a time. *)
KeepStep(e, t, n) == IF n = e THEN t ELSE Append(t, n)

(* It keeps the type, and loses no element but e. *)
LEMMA KeepStepType ==
  ASSUME NEW T, NEW e, NEW t \in Seq(T), NEW n \in T
  PROVE  KeepStep(e, t, n) \in Seq(T)
BY DEF KeepStep

LEMMA KeepStepElements ==
  ASSUME NEW T, NEW t \in Seq(T), NEW e, NEW n
  PROVE  ToSet(KeepStep(e, t, n)) = ToSet(t) \cup ({n} \ {e})
<1>1. CASE n = e
  BY <1>1 DEF KeepStep
<1>2. CASE n # e
  <2>1. KeepStep(e, t, n) = Append(t, n)
    BY <1>2 DEF KeepStep
  <2>2. t \in Seq(ToSet(t))
    BY DEF ToSet
  <2>3. ToSet(Append(t, n)) = ToSet(t) \cup {n}
    BY <2>2, Appended
  <2> QED
    BY <1>2, <2>1, <2>3
<1> QED
  BY <1>1, <1>2

(* The equation of such a recursion, and what satisfies it. *)
Keeps(f, e, w) ==
  f = [n \in 0 .. Len(w) |->
         IF n = 0 THEN <<>> ELSE IF w[n] = e THEN f[n - 1] ELSE Append(f[n - 1], w[n])]
KeptBy(f, T, e, w) ==
  /\ f \in [0 .. Len(w) -> Seq(T)] /\ f[0] = <<>>
  /\ \A k \in 1 .. Len(w) : f[k] = KeepStep(e, f[k - 1], w[k])

(* There is one, as for every such recursion. *)
LEMMA KeepFollows ==
  ASSUME NEW T, NEW e, NEW w \in Seq(T)
  PROVE  (\E f : Keeps(f, e, w)) /\ \A kept : Keeps(kept, e, w) => KeptBy(kept, T, e, w)
<1> DEFINE X == Seq(T)
           step == [p \in X \X T |-> KeepStep(e, p[1], p[2])]
<1>0. Len(w) \in Nat /\ \A k \in 1 .. Len(w) : w[k] \in T
  OBVIOUS
<1>1. <<>> \in X
  OBVIOUS
<1>2. step \in [X \X T -> X]
  BY KeepStepType
<1>3. \A t \in X, n \in T : step[<<t, n>>] = KeepStep(e, t, n)
  OBVIOUS
<1> HIDE DEF step, X
<1>4. PICK f : Recurs(f, X, <<>>, step, w)
  BY <1>1, <1>2, RecursionExists
<1>5. ASSUME NEW n \in 0 .. Len(w), n # 0
      PROVE  step[<<f[n - 1], w[n]>>] = KeepStep(e, f[n - 1], w[n])
  <2>1. n - 1 \in 0 .. Len(w) /\ w[n] \in T
    BY <1>0, <1>5
  <2>2. f[n - 1] \in X
    BY <1>4, <2>1 DEF Recurs
  <2> QED
    BY <1>3, <2>1, <2>2
<1>6. f = [n \in 0 .. Len(w) |-> IF n = 0 THEN <<>> ELSE KeepStep(e, f[n - 1], w[n])]
  BY <1>4, <1>5 DEF Recurs
<1>7. Keeps(f, e, w)
  BY <1>6 DEF KeepStep, Keeps
<1>8. ASSUME NEW kept, Keeps(kept, e, w) PROVE KeptBy(kept, T, e, w)
  <2>1. kept = [n \in 0 .. Len(w) |-> IF n = 0 THEN <<>> ELSE KeepStep(e, kept[n - 1], w[n])]
    BY <1>8 DEF KeepStep, Keeps
  <2>2. kept = [n \in 0 .. Len(w) |-> kept[n]] /\ kept[0] = <<>>
    BY <1>0, <2>1
  <2>3. ASSUME NEW k \in 1 .. Len(w) PROVE kept[k] = KeepStep(e, kept[k - 1], w[k])
    <3>1. k \in 0 .. Len(w) /\ k # 0
      BY <1>0
    <3> QED
      BY <2>1, <3>1
  <2>4. \A k \in 1 .. Len(w) : kept[k - 1] \in X => kept[k] = step[<<kept[k - 1], w[k]>>]
    BY <1>0, <1>3, <2>3
  <2>5. Follows(kept, Len(w), X, <<>>, step, w)
    BY <1>1, <1>2, <2>2, <2>4, RecursionFollows
  <2> QED
    BY <2>2, <2>3, <2>5 DEF Follows, X, KeptBy
<1> QED
  BY <1>7, <1>8

(* The last of the lists has the elements of w but e; where there is no e   *)
(* to leave out it is w.                                                    *)
LEMMA KeptElements ==
  ASSUME NEW T, NEW e, NEW w \in Seq(T), NEW f, KeptBy(f, T, e, w)
  PROVE  f[Len(w)] \in Seq(T) /\ ToSet(f[Len(w)]) = ToSet(w) \ {e}
<1>0. Len(w) \in Nat /\ Len(w) \in 0 .. Len(w) /\ DOMAIN w = 1 .. Len(w)
      /\ \A k \in 1 .. Len(w) : w[k] \in T
  OBVIOUS
<1>1. /\ f \in [0 .. Len(w) -> Seq(T)] /\ f[0] = <<>>
      /\ \A k \in 1 .. Len(w) : f[k] = KeepStep(e, f[k - 1], w[k])
  BY DEF KeptBy
<1> DEFINE S == {k \in Nat : k <= Len(w) => ToSet(f[k]) = {w[j] : j \in 1 .. k} \ {e}}
<1>2. 0 \in S
  BY <1>1 DEF ToSet
<1>3. ASSUME NEW k \in Nat, k \in S PROVE k + 1 \in S
  <2> SUFFICES ASSUME k + 1 <= Len(w)
               PROVE  ToSet(f[k + 1]) = {w[j] : j \in 1 .. k + 1} \ {e}
    OBVIOUS
  <2>1. k \in 0 .. Len(w) /\ k + 1 \in 1 .. Len(w) /\ (k + 1) - 1 = k
    BY <1>0
  <2>2. f[k] \in Seq(T) /\ w[k + 1] \in T /\ f[k + 1] = KeepStep(e, f[k], w[k + 1])
    BY <1>0, <1>1, <2>1
  <2>3. ToSet(f[k + 1]) = ToSet(f[k]) \cup ({w[k + 1]} \ {e})
    <3> DEFINE t == f[k]
               n == w[k + 1]
    <3>1. t \in Seq(T) /\ n \in T /\ f[k + 1] = KeepStep(e, t, n)
      BY <2>2
    <3> HIDE DEF t, n
    <3>2. ToSet(KeepStep(e, t, n)) = ToSet(t) \cup ({n} \ {e})
      BY <3>1, KeepStepElements
    <3> QED
      BY <3>1, <3>2 DEF t, n
  <2>4. ToSet(f[k]) = {w[j] : j \in 1 .. k} \ {e}
    BY <1>0, <1>3, <2>1
  <2>5. {w[j] : j \in 1 .. k + 1} = {w[j] : j \in 1 .. k} \cup {w[k + 1]}
    <3>1. \A j : j \in 1 .. k + 1 <=> j \in 1 .. k \/ j = k + 1
      OBVIOUS
    <3> QED
      BY <3>1
  <2> QED
    BY <2>3, <2>4, <2>5
<1> HIDE DEF S
<1>4. Nat \subseteq S
  BY <1>2, <1>3, Induction
<1>5. ToSet(f[Len(w)]) = {w[j] : j \in 1 .. Len(w)} \ {e}
  <2>1. Len(w) \in S
    BY <1>0, <1>4
  <2> QED
    BY <1>0, <2>1 DEF S
<1>6. f[Len(w)] \in Seq(T)
  BY <1>0, <1>1
<1> QED
  BY <1>0, <1>5, <1>6 DEF ToSet

LEMMA KeptShort ==
  ASSUME NEW T, NEW e, NEW w \in Seq(T), NEW f, KeptBy(f, T, e, w),
         Len(w) = 0 \/ (Len(w) = 1 /\ w[1] # e)
  PROVE  f[Len(w)] = w
<1>1. /\ f[0] = <<>>
      /\ \A k \in 1 .. Len(w) : f[k] = KeepStep(e, f[k - 1], w[k])
  BY DEF KeptBy
<1>2. CASE Len(w) = 1 /\ w[1] # e
  <2>1. f[1] = KeepStep(e, <<>>, w[1])
    BY <1>2, <1>1
  <2>2. KeepStep(e, <<>>, w[1]) = <<w[1]>>
    BY <1>2 DEF KeepStep
  <2>3. w = <<w[1]>>
    BY <1>2
  <2> QED
    BY <1>2, <2>1, <2>2, <2>3
<1> QED
  BY <1>1, <1>2

(* NonEmpty keeps the names that are not empty, and no other. *)
LEMMA NonEmptyKeeps ==
  ASSUME NEW w \in Seq(Text)
  PROVE  /\ NonEmpty(w) \in Seq(Text) /\ ToSet(NonEmpty(w)) = ToSet(w) \ {""}
         /\ w = <<>> \/ (Len(w) = 1 /\ w[1] # "") => NonEmpty(w) = w
<1> DEFINE T == Text
           e == ""
           kept == CHOOSE f : Keeps(f, e, w)
<1>1. NonEmpty(w) = kept[Len(w)]
  BY DEF NonEmpty, Keeps
<1>2. w \in Seq(T)
  OBVIOUS
<1> HIDE DEF T, e
<1>3. Keeps(kept, e, w)
  BY <1>2, KeepFollows
<1> HIDE DEF kept
<1>4. KeptBy(kept, T, e, w)
  BY <1>2, <1>3, KeepFollows
<1>5. kept[Len(w)] \in Seq(T) /\ ToSet(kept[Len(w)]) = ToSet(w) \ {e}
  BY <1>2, <1>4, KeptElements
<1>6. w = <<>> \/ (Len(w) = 1 /\ w[1] # e) => kept[Len(w)] = w
  <2>1. w = <<>> => Len(w) = 0
    OBVIOUS
  <2> QED
    BY <1>2, <1>4, <2>1, KeptShort
<1> QED
  BY <1>1, <1>5, <1>6 DEF T, e
-----------------------------------------------------------------------------
(* Lists that are made of a list, one element for each of its own. *)
LEMMA SameLength ==
  ASSUME NEW S, NEW w \in Seq(S), NEW T, NEW f \in [DOMAIN w -> T]
  PROVE  /\ f \in Seq(T) /\ Len(f) = Len(w) /\ DOMAIN f = DOMAIN w
         /\ f = <<>> <=> w = <<>>
         /\ ToSet(f) = {f[n] : n \in DOMAIN w} /\ ToSet(f) \subseteq T
<1>1. Len(w) \in Nat /\ DOMAIN w = 1 .. Len(w) /\ DOMAIN f = DOMAIN w
  OBVIOUS
<1>2. f \in Seq(T) /\ Len(f) = Len(w)
  BY <1>1
<1>3. f = <<>> <=> w = <<>>
  BY <1>1, <1>2
<1>4. ToSet(f) = {f[n] : n \in DOMAIN w}
  BY <1>1 DEF ToSet
<1> QED
  BY <1>1, <1>2, <1>3, <1>4

(* The elements of a list, and of two in a row: the second can be taken     *)
(* from behind the first.                                                   *)
LEMMA ElementsIn ==
  ASSUME NEW T, NEW s \in Seq(T)
  PROVE  ToSet(s) \subseteq T /\ (ToSet(s) = {} <=> s = <<>>)
         /\ \A n \in DOMAIN s : s[n] \in ToSet(s)
<1>1. Len(s) \in Nat /\ DOMAIN s = 1 .. Len(s) /\ \A n \in 1 .. Len(s) : s[n] \in T
  OBVIOUS
<1>2. ToSet(s) = {s[n] : n \in 1 .. Len(s)}
  BY <1>1 DEF ToSet
<1>3. ASSUME s # <<>> PROVE 1 \in 1 .. Len(s)
  BY <1>1, <1>3
<1>4. ASSUME s = <<>> PROVE ToSet(s) = {}
  BY <1>4 DEF ToSet
<1> QED
  BY <1>1, <1>2, <1>3, <1>4

LEMMA Concatenated ==
  ASSUME NEW T, NEW s \in Seq(T), NEW t \in Seq(T)
  PROVE  /\ s \o t \in Seq(T) /\ ToSet(s \o t) = ToSet(s) \cup ToSet(t)
         /\ SubSeq(s \o t, Len(s) + 1, Len(s \o t)) = t
<1>1. /\ Len(s) \in Nat /\ Len(t) \in Nat
      /\ DOMAIN s = 1 .. Len(s) /\ DOMAIN t = 1 .. Len(t)
      /\ s \o t \in Seq(T) /\ Len(s \o t) = Len(s) + Len(t)
      /\ DOMAIN (s \o t) = 1 .. Len(s) + Len(t)
      /\ \A k \in 1 .. Len(s) : (s \o t)[k] = s[k]
      /\ \A k \in 1 .. Len(t) : (s \o t)[Len(s) + k] = t[k]
  OBVIOUS
<1>2. ToSet(s \o t) \subseteq ToSet(s) \cup ToSet(t)
  <2> SUFFICES ASSUME NEW k \in 1 .. Len(s) + Len(t)
               PROVE  (s \o t)[k] \in ToSet(s) \cup ToSet(t)
    BY <1>1 DEF ToSet
  <2>1. CASE k \in 1 .. Len(s)
    BY <1>1, <2>1 DEF ToSet
  <2>2. CASE k \notin 1 .. Len(s)
    <3>1. k - Len(s) \in 1 .. Len(t) /\ Len(s) + (k - Len(s)) = k
      BY <1>1, <2>2
    <3>2. (s \o t)[k] = t[k - Len(s)]
      BY <1>1, <3>1
    <3> QED
      BY <1>1, <3>1, <3>2 DEF ToSet
  <2> QED
    BY <2>1, <2>2
<1>3. ToSet(s) \cup ToSet(t) \subseteq ToSet(s \o t)
  <2>1. \A k \in 1 .. Len(s) : k \in 1 .. Len(s) + Len(t)
    BY <1>1
  <2>2. \A k \in 1 .. Len(t) : Len(s) + k \in 1 .. Len(s) + Len(t)
    BY <1>1
  <2> QED
    BY <1>1, <2>1, <2>2 DEF ToSet
<1>4. SubSeq(s \o t, Len(s) + 1, Len(s \o t)) = t
  BY <1>1
<1> QED
  BY <1>1, <1>2, <1>3, <1>4

(* Paths of the host that belong to play i. *)
HostPath(i) == {p \in Path : p.at = "host" /\ p.play = i}

(* A single path, and the paths of a list of names. *)
LEMMA PathsAre ==
  ASSUME NEW n \in Text, NEW i \in Nat
  PROVE  /\ Copy(n, i) \in HostPath(i) /\ Copy(n, i).name = n /\ Copy(n, i).hosts = <<>>
         /\ Local(n) \in Path /\ Local(n).name = n /\ Local(n).hosts = <<>>
<1>1. <<>> \in Seq(Seq(Text)) /\ <<>> \in Seq(Text) /\ 0 \in Nat
  OBVIOUS
<1> QED
  BY <1>1 DEF Copy, Local, At, HostPath, Path

LEMMA CopiesAre ==
  ASSUME NEW w \in Seq(Text), NEW i \in Nat
  PROVE  /\ Copies(w, i) \in Seq(HostPath(i)) /\ Copies(w, i) \in Seq(Path)
         /\ Len(Copies(w, i)) = Len(w) /\ DOMAIN Copies(w, i) = DOMAIN w
         /\ Copies(w, i) = <<>> <=> w = <<>>
         /\ \A n \in DOMAIN w : Copies(w, i)[n] = Copy(w[n], i)
<1>1. \A n \in DOMAIN w : w[n] \in Text
  OBVIOUS
<1>2. \A n \in DOMAIN w : Copy(w[n], i) \in HostPath(i)
  BY <1>1, PathsAre
<1>3. Copies(w, i) = [n \in DOMAIN w |-> Copy(w[n], i)]
  BY DEF Copies
<1>4. Copies(w, i) \in [DOMAIN w -> HostPath(i)]
  BY <1>2, <1>3
<1>5. Copies(w, i) \in [DOMAIN w -> Path]
  BY <1>4 DEF HostPath
<1>6. Copies(w, i) \in Seq(HostPath(i)) /\ Len(Copies(w, i)) = Len(w)
      /\ DOMAIN Copies(w, i) = DOMAIN w /\ (Copies(w, i) = <<>> <=> w = <<>>)
  BY <1>4, SameLength
<1>7. Copies(w, i) \in Seq(Path)
  BY <1>5, SameLength
<1> QED
  BY <1>3, <1>6, <1>7

LEMMA LocalsAre ==
  ASSUME NEW w \in Seq(Text)
  PROVE  /\ Locals(w) \in Seq(Path)
         /\ Len(Locals(w)) = Len(w) /\ DOMAIN Locals(w) = DOMAIN w
         /\ Locals(w) = <<>> <=> w = <<>>
         /\ \A n \in DOMAIN w : Locals(w)[n] = Local(w[n])
<1>1. \A n \in DOMAIN w : w[n] \in Text
  OBVIOUS
<1>2. \A n \in DOMAIN w : Local(w[n]) \in Path
  <2>1. 0 \in Nat
    OBVIOUS
  <2> QED
    BY <1>1, <2>1, PathsAre
<1>3. Locals(w) = [n \in DOMAIN w |-> Local(w[n])]
  BY DEF Locals
<1>4. Locals(w) \in [DOMAIN w -> Path]
  BY <1>2, <1>3
<1>5. Locals(w) \in Seq(Path) /\ Len(Locals(w)) = Len(w)
      /\ DOMAIN Locals(w) = DOMAIN w /\ (Locals(w) = <<>> <=> w = <<>>)
  BY <1>4, SameLength
<1> QED
  BY <1>3, <1>5

-----------------------------------------------------------------------------
(* The settings of a play: what is said of it, else of the defaults. *)
Preferred(s, own, default) ==
  IF Stated(s, own) THEN own ELSE IF Stated(s, default) THEN default ELSE <<>>

(* A list counts as given when it has elements, and the schema fills none   *)
(* in.                                                                      *)
LEMMA ListSetting ==
  ASSUME NEW b, NEW d, NEW s \in Lists
  PROVE  Setting(NewPlay(b, d), s) = Preferred(s, b.set[s], d[s])
<1> DEFINE p == NewPlay(b, d)
<1>1. s \in Settings /\ s \notin {"become_method", "become_user", "forks"}
  BY DEF Settings, Lists
<1>2. schemaDefault[s] = <<>> /\ fallback[s] = <<>>
  BY <1>1 DEF schemaDefault, fallback
<1>3. p.own[s] = IF b.set[s] # <<>> THEN b.set[s] ELSE schemaDefault[s]
  BY <1>1 DEF NewPlay
<1>4. p.defaults = d
  BY DEF NewPlay
<1> HIDE DEF p
<1>5. \A v : (Given(s, v) <=> v # <<>>) /\ (Stated(s, v) <=> v # <<>>)
  BY DEF Given, Stated
<1> QED
  BY <1>2, <1>3, <1>4, <1>5 DEF Setting, Preferred, p

(* A list of at most one is empty or has one. *)
LEMMA AtMostOne ==
  ASSUME NEW T, NEW w \in Seq(T), Len(w) <= 1, w # <<>>
  PROVE  Len(w) = 1 /\ 1 \in DOMAIN w
<1>1. Len(w) \in Nat /\ DOMAIN w = 1 .. Len(w)
  OBVIOUS
<1>2. Len(w) # 0
  OBVIOUS
<1>3. Len(w) = 1
  BY <1>1, <1>2
<1> QED
  BY <1>1, <1>3

(* The name of an inventory or password file counts when it is not empty.   *)
Files == {"inventory_file", "vault_password_file"}

LEMMA FileGiven ==
  ASSUME NEW v \in Values, NEW s \in Files
  PROVE  /\ v[s] \in Seq(Text) /\ (Given(s, v[s]) <=> Stated(s, v[s]))
         /\ Stated(s, v[s]) => Len(v[s]) = 1 /\ v[s][1] # ""
<1> DEFINE w == v[s]
<1>1. s \in Settings \ Lists /\ s # "forks"
  BY DEF Files, Settings, Lists, Paths
<1>2. w \in Seq(Text) /\ Len(w) <= 1
  BY <1>1 DEF Values
<1> HIDE DEF w
<1>3. Given(s, w) <=> w # <<>> /\ w[1] # ""
  BY <1>1 DEF Given
<1>4. Stated(s, w) <=> w # <<>> /\ w # <<"">>
  BY <1>1 DEF Stated
<1>5. CASE w = <<>>
  BY <1>2, <1>3, <1>4, <1>5 DEF w
<1>6. CASE w # <<>>
  <2>1. Len(w) = 1
    BY <1>2, <1>6, AtMostOne
  <2>2. w = <<w[1]>>
    BY <1>2, <2>1
  <2> DEFINE x == w[1]
  <2>3. w = <<"">> <=> w[1] = ""
    <3>1. w = <<x>>
      BY <2>2
    <3> HIDE DEF x
    <3>2. <<x>> = <<"">> <=> x = ""
      OBVIOUS
    <3> QED
      BY <3>1, <3>2 DEF x
  <2> QED
    BY <1>2, <1>3, <1>4, <1>6, <2>1, <2>3 DEF w
<1> QED
  BY <1>5, <1>6

(* So the file a play uses is its own, or that of the defaults. *)
LEMMA FileSetting ==
  ASSUME NEW b, b.set \in Values, NEW d \in Values, NEW s \in Files
  PROVE  Setting(NewPlay(b, d), s) = Preferred(s, b.set[s], d[s])
<1> DEFINE p == NewPlay(b, d)
<1>1. s \in Settings /\ s \notin {"become_method", "become_user", "forks"}
  BY DEF Settings, Files, Paths
<1>2. schemaDefault[s] = <<>> /\ fallback[s] = <<>>
  BY <1>1 DEF schemaDefault, fallback
<1>3. p.own[s] = b.set[s]
  BY <1>1, <1>2 DEF NewPlay
<1>4. p.defaults = d
  BY DEF NewPlay
<1> HIDE DEF p
<1>5. (Given(s, b.set[s]) <=> Stated(s, b.set[s])) /\ (Given(s, d[s]) <=> Stated(s, d[s]))
  BY FileGiven
<1> QED
  BY <1>2, <1>3, <1>4, <1>5 DEF Setting, Preferred, p

-----------------------------------------------------------------------------
(* What is known of play i when a command is built from it, and what is     *)
(* configured for it.                                                       *)
Source(i) == block.plays[i]
Conf(i, s) == Preferred(s, Source(i).set[s], block.defaults[s])

Runs(i) ==
  /\ i \in DOMAIN plays /\ i \in Nat /\ block \in Blocks
  /\ plays[i] = NewPlay(Source(i), block.defaults)
  /\ Source(i) \in Block /\ block.defaults \in Values
  /\ plays[i].entity # "none" /\ Taken(i) /\ HostsKnown

(* Every command is that of such a play. *)
LEMMA CommandRuns ==
  ASSUME SettingsInv, NEW c \in ToSet(commands)
  PROVE  \E i : Runs(i) /\ c = CommandOf(i)
<1>1. commands # <<>>
  BY DEF ToSet
<1>2. pc \in Decoded /\ HostsKnown
  BY <1>1 DEF SettingsInv, PlaysInv, CommandsInv
<1>3. PICK i \in DOMAIN plays : c = CommandOf(i) /\ plays[i].entity # "none" /\ Taken(i)
  BY DEF SettingsInv, CommandsInv
<1>4. block \in Blocks
  BY DEF SettingsInv, CheckedInv, Counting
<1>5. /\ i \in DOMAIN block.plays /\ i \in Nat
      /\ plays[i] = NewPlay(block.plays[i], block.defaults)
  BY <1>2, <1>3, PlaysThere DEF SettingsInv
<1>6. block.plays[i] \in Block /\ block.defaults \in Values
  BY <1>4, <1>5, BlockPlays
<1> QED
  BY <1>2, <1>3, <1>4, <1>5, <1>6 DEF Runs, Source

(* The lists and the files of a play are those configured. *)
LEMMA ListsConfigured ==
  ASSUME NEW i, Runs(i), NEW s \in Lists
  PROVE  Setting(plays[i], s) = Conf(i, s) /\ Conf(i, s) \in Seq(Text)
<1>1. s \in Settings
  BY DEF Settings
<1>2. Source(i).set \in Values /\ block.defaults \in Values
  BY DEF Runs, Block
<1>3. Source(i).set[s] \in Seq(Text) /\ block.defaults[s] \in Seq(Text)
  BY <1>1, <1>2 DEF Values
<1>4. Setting(plays[i], s) = Conf(i, s)
  BY ListSetting DEF Runs, Conf
<1> QED
  BY <1>3, <1>4 DEF Conf, Preferred

LEMMA FilesConfigured ==
  ASSUME NEW i, Runs(i), NEW s \in Files
  PROVE  /\ Setting(plays[i], s) = Conf(i, s) /\ Conf(i, s) \in Seq(Text)
         /\ Conf(i, s) = <<>> \/ (Len(Conf(i, s)) = 1 /\ Conf(i, s)[1] # "")
<1>1. Source(i).set \in Values /\ block.defaults \in Values
  BY DEF Runs, Block
<1>2. Setting(plays[i], s) = Conf(i, s)
  BY <1>1, FileSetting DEF Runs, Conf
<1> DEFINE v == Source(i).set
           d == block.defaults
<1>3. v \in Values /\ d \in Values /\ <<>> \in Seq(Text)
  BY <1>1
<1>4. Conf(i, s) = IF Stated(s, v[s]) THEN v[s] ELSE IF Stated(s, d[s]) THEN d[s] ELSE <<>>
  BY DEF Conf, Preferred
<1> HIDE DEF v, d
<1>5. /\ v[s] \in Seq(Text) /\ (Stated(s, v[s]) => Len(v[s]) = 1 /\ v[s][1] # "")
      /\ d[s] \in Seq(Text) /\ (Stated(s, d[s]) => Len(d[s]) = 1 /\ d[s][1] # "")
  BY <1>3, FileGiven
<1>6. /\ Conf(i, s) \in Seq(Text)
      /\ Conf(i, s) = <<>> \/ (Len(Conf(i, s)) = 1 /\ Conf(i, s)[1] # "")
  BY <1>3, <1>4, <1>5
<1> QED
  BY <1>2, <1>6

(* The files and roles of a play are those of its block. *)
LEMMA PlayIs ==
  ASSUME NEW i, Runs(i)
  PROVE  /\ plays[i].file \in Seq(Text) /\ plays[i].roles \in Seq(Role)
         /\ plays[i].enabled = Source(i).enabled
<1>1. plays[i] = NewPlay(Source(i), block.defaults) /\ Source(i) \in Block
  BY DEF Runs
<1>2. RolesOf(Source(i)) \in Seq(Role)
  <2>1. Source(i).roles \in Seq(Role) /\ <<>> \in Seq(Role)
    BY <1>1 DEF Block
  <2>2. RolesOf(Source(i)) \in {<<>>, Source(i).roles}
    BY DEF RolesOf
  <2> QED
    BY <2>1, <2>2
<1> QED
  BY <1>1, <1>2 DEF NewPlay, Block

-----------------------------------------------------------------------------
(* The fields of a command. *)
LEMMA CommandIs ==
  ASSUME NEW i, NEW c, c = CommandOf(i)
  PROVE  /\ c.play = i /\ c.entity = plays[i].entity /\ c.file = FilePath(UsedFor(i), plays[i])
         /\ c.roles = IF plays[i].entity = "playbook"
                      THEN Locals(EnvRoles) \o Clean(RolesPath(UsedFor(i), plays[i]))
                      ELSE IF plays[i].entity = "module" THEN <<>>
                      ELSE RolesPath(UsedFor(i), plays[i])
BY DEF CommandOf, ToCommand

LEMMA GalaxyCommand ==
  ASSUME NEW i, NEW c, c = CommandOf(i), plays[i].entity = "galaxy_install"
  PROVE  c["vault_id"] = <<>> /\ c["vault_password_file"] = <<>> /\ c["inventory_file"] = <<>>
BY DEF CommandOf, ToCommand

LEMMA SharedCommand ==
  ASSUME NEW i, NEW c, c = CommandOf(i), plays[i].entity # "galaxy_install"
  PROVE  LET path(s) == PathSetting(UsedFor(i), plays[i], s) IN
         /\ c["vault_id"] = Clean(path("vault_id"))
         /\ c["vault_password_file"] = IF path("vault_id") # <<>> THEN <<>>
                                       ELSE path("vault_password_file")
         /\ c["inventory_file"] = path("inventory_file")
BY DEF CommandOf, ToCommand

(* The overrides the command of play i is built with, field by field: those *)
(* set for a playbook or module, for a galaxy_install, and where nothing is *)
(* deployed.                                                                *)
LEMMA UploadedIs ==
  ASSUME NEW i, Runs(i), block.remote, plays[i].enabled, plays[i].entity # "galaxy_install",
         NEW o, o = UsedFor(i)
  PROVE  /\ o["inventory_file"] = IF Setting(plays[i], "inventory_file") # <<>>
                                  THEN Copies(Setting(plays[i], "inventory_file"), i)
                                  ELSE <<RemoteInventory(plays[i], i)>>
         /\ o["vault_id"] = IF Setting(plays[i], "vault_id") # <<>>
                            THEN Copies(VaultFiles(plays[i]), i) ELSE <<>>
         /\ o["vault_password_file"] = IF Setting(plays[i], "vault_id") # <<>> THEN <<>>
                                       ELSE Copies(VaultFiles(plays[i]), i)
         /\ o.file = Copies(plays[i].file, 0)
         /\ o.roles = [n \in DOMAIN plays[i].roles |-> Copy(plays[i].roles[n].name, 0)]
<1>1. plays[i].entity # "none"
  BY DEF Runs
<1>2. o = Uploaded(plays[i], i)
  BY <1>1 DEF UsedFor, SetFor, Deployed
<1> QED
  BY <1>2 DEF Uploaded

LEMMA InstalledIs ==
  ASSUME NEW i, block.remote, plays[i].enabled, plays[i].entity = "galaxy_install",
         NEW o, o = UsedFor(i)
  PROVE  /\ o.file = Copies(plays[i].file, 0)
         /\ o.roles = IF plays[i].roles = <<>> THEN <<Copy("galaxy-roles", 0)>>
                      ELSE [n \in DOMAIN plays[i].roles |-> Copy(plays[i].roles[n].name, 0)]
<1>1. o = Installed(plays[i])
  BY DEF UsedFor, SetFor, Deployed
<1> QED
  BY <1>1 DEF Installed, NoOverride

LEMMA UsedOtherwise ==
  ASSUME NEW i, ~(block.remote /\ plays[i].enabled), NEW o, o = UsedFor(i)
  PROVE  /\ o["vault_id"] = <<>> /\ o["vault_password_file"] = <<>>
         /\ o.file = <<>> /\ o.roles = <<>>
         /\ o["inventory_file"] = IF block.remote \/ Setting(plays[i], "inventory_file") # <<>>
                                  THEN <<>>
                                  ELSE <<LocalInventory(plays[i], i, block.host)>>
BY DEF UsedFor, SetFor, NoOverride

-----------------------------------------------------------------------------
(* Secrets *)

(* What is deployed of the secrets of a play. *)
LEMMA VaultFilesAre ==
  ASSUME NEW i, Runs(i)
  PROVE  /\ VaultFiles(plays[i]) \in Seq(Text)
         /\ Conf(i, "vault_id") # <<>> => VaultFiles(plays[i]) = NonEmpty(Conf(i, "vault_id"))
         /\ Conf(i, "vault_id") = <<>> => VaultFiles(plays[i]) = Conf(i, "vault_password_file")
<1>1. /\ Setting(plays[i], "vault_id") = Conf(i, "vault_id")
      /\ Conf(i, "vault_id") \in Seq(Text)
  BY ListsConfigured DEF Lists
<1>2. /\ Setting(plays[i], "vault_password_file") = Conf(i, "vault_password_file")
      /\ Conf(i, "vault_password_file") \in Seq(Text)
      /\ \/ Conf(i, "vault_password_file") = <<>>
         \/ Len(Conf(i, "vault_password_file")) = 1 /\ Conf(i, "vault_password_file")[1] # ""
  BY FilesConfigured DEF Files
<1> DEFINE ids == Conf(i, "vault_id")
           file == Conf(i, "vault_password_file")
<1>3. VaultFiles(plays[i]) = NonEmpty(IF ids # <<>> THEN ids ELSE file)
  BY <1>1, <1>2 DEF VaultFiles
<1>4. NonEmpty(ids) \in Seq(Text)
  BY <1>1, NonEmptyKeeps
<1>5. NonEmpty(file) = file
  BY <1>2, NonEmptyKeeps
<1> QED
  BY <1>2, <1>3, <1>4, <1>5

(* The ids of a command before filepath.Clean, and its password file. *)
LEMMA IdsAre ==
  ASSUME NEW i, Runs(i), plays[i].entity # "galaxy_install"
  PROVE  LET ids == Conf(i, "vault_id") IN
         PathSetting(UsedFor(i), plays[i], "vault_id") =
           IF block.remote /\ plays[i].enabled /\ NonEmpty(ids) # <<>>
           THEN Copies(NonEmpty(ids), i) ELSE Locals(ids)
<1> DEFINE ids == Conf(i, "vault_id")
           o == UsedFor(i)
<1>1. Setting(plays[i], "vault_id") = ids /\ ids \in Seq(Text)
  BY ListsConfigured DEF Lists
<1>2. /\ NonEmpty(ids) \in Seq(Text) /\ (ids = <<>> => NonEmpty(ids) = <<>>)
  BY <1>1, NonEmptyKeeps
<1>3. i \in Nat /\ plays[i].entity # "none"
  BY DEF Runs
<1>4. Copies(NonEmpty(ids), i) = <<>> <=> NonEmpty(ids) = <<>>
  BY <1>2, <1>3, CopiesAre
<1>5. CASE block.remote /\ plays[i].enabled
  <2>1. o["vault_id"] = IF ids # <<>> THEN Copies(VaultFiles(plays[i]), i) ELSE <<>>
    BY <1>1, <1>5, UploadedIs
  <2>2. ids # <<>> => VaultFiles(plays[i]) = NonEmpty(ids)
    BY VaultFilesAre
  <2> QED
    BY <1>1, <1>2, <1>4, <1>5, <2>1, <2>2 DEF PathSetting
<1>6. CASE ~(block.remote /\ plays[i].enabled)
  <2>1. o["vault_id"] = <<>>
    BY <1>6, UsedOtherwise
  <2> QED
    BY <1>1, <1>6, <2>1 DEF PathSetting
<1> QED
  BY <1>5, <1>6

(* Without ids the password file is used. *)
LEMMA PasswordIs ==
  ASSUME NEW i, Runs(i), plays[i].entity # "galaxy_install", Conf(i, "vault_id") = <<>>
  PROVE  LET file == Conf(i, "vault_password_file") IN
         PathSetting(UsedFor(i), plays[i], "vault_password_file") =
           IF block.remote /\ plays[i].enabled THEN Copies(file, i) ELSE Locals(file)
<1> DEFINE file == Conf(i, "vault_password_file")
           o == UsedFor(i)
<1>1. /\ Setting(plays[i], "vault_password_file") = file /\ file \in Seq(Text)
      /\ Setting(plays[i], "vault_id") = <<>>
  BY ListsConfigured, FilesConfigured DEF Lists, Files
<1>2. i \in Nat /\ plays[i].entity # "none"
  BY DEF Runs
<1>3. (Copies(file, i) = <<>> <=> file = <<>>) /\ (Locals(file) = <<>> <=> file = <<>>)
  BY <1>1, <1>2, CopiesAre, LocalsAre
<1>4. CASE block.remote /\ plays[i].enabled
  <2>1. o["vault_password_file"] = Copies(VaultFiles(plays[i]), i)
    BY <1>1, <1>4, UploadedIs
  <2>2. VaultFiles(plays[i]) = file
    BY VaultFilesAre
  <2> QED
    BY <1>1, <1>3, <1>4, <2>1, <2>2 DEF PathSetting
<1>5. CASE ~(block.remote /\ plays[i].enabled)
  <2>1. o["vault_password_file"] = <<>>
    BY <1>5, UsedOtherwise
  <2> QED
    BY <1>1, <1>5, <2>1 DEF PathSetting
<1> QED
  BY <1>4, <1>5

(* filepath.Clean leaves the paths of the host, and of the controller's     *)
(* makes such.                                                              *)
LEMMA CleanOnHost ==
  ASSUME NEW i, NEW w \in Seq(HostPath(i))
  PROVE  Clean(w) = w
<1>1. \A n \in DOMAIN w : w[n].at = "host"
  BY DEF HostPath
<1>2. Local("").at = "controller"
  BY DEF Local, At
<1>3. \A n \in DOMAIN w : w[n] # Local("")
  BY <1>1, <1>2
<1>4. w = [n \in DOMAIN w |-> w[n]]
  OBVIOUS
<1> QED
  BY <1>3, <1>4 DEF Clean

Elsewhere == {p \in Path : p.at # "host"}

LEMMA LocalElsewhere ==
  ASSUME NEW n \in Text
  PROVE  Local(n) \in Elsewhere
<1>1. Local(n) \in Path
  <2>1. 0 \in Nat
    OBVIOUS
  <2> QED
    BY <2>1, PathsAre
<1> QED
  BY <1>1 DEF Local, At, Elsewhere

LEMMA CleanElsewhere ==
  ASSUME NEW w \in Seq(Elsewhere)
  PROVE  Clean(w) \in Seq(Elsewhere)
<1>1. Local(".") \in Elsewhere
  BY LocalElsewhere DEF Text
<1>2. \A n \in DOMAIN w : w[n] \in Elsewhere
  OBVIOUS
<1>3. Clean(w) \in [DOMAIN w -> Elsewhere]
  BY <1>1, <1>2 DEF Clean
<1> QED
  BY <1>3, SameLength

LEMMA LocalsElsewhere ==
  ASSUME NEW w \in Seq(Text)
  PROVE  Locals(w) \in Seq(Elsewhere)
<1>1. \A n \in DOMAIN w : w[n] \in Text
  OBVIOUS
<1>2. \A n \in DOMAIN w : Local(w[n]) \in Elsewhere
  BY <1>1, LocalElsewhere
<1>3. Locals(w) \in [DOMAIN w -> Elsewhere]
  BY <1>2 DEF Locals
<1> QED
  BY <1>3, SameLength

(* The names of paths, cleaned or not. *)
LEMMA NamesOfCopies ==
  ASSUME NEW w \in Seq(Text), NEW i \in Nat
  PROVE  Names(Copies(w, i)) = w /\ Clean(Copies(w, i)) = Copies(w, i)
<1>1. /\ DOMAIN Copies(w, i) = DOMAIN w
      /\ \A n \in DOMAIN w : Copies(w, i)[n] = Copy(w[n], i) /\ w[n] \in Text
      /\ Copies(w, i) = [n \in DOMAIN Copies(w, i) |-> Copies(w, i)[n]]
  BY CopiesAre
<1>2. \A n \in DOMAIN w : Copies(w, i)[n].name = w[n]
  BY <1>1, PathsAre
<1>3. w = [n \in DOMAIN w |-> w[n]]
  OBVIOUS
<1>4. Names(Copies(w, i)) = w
  BY <1>1, <1>2, <1>3 DEF Names
<1>5. Clean(Copies(w, i)) = Copies(w, i)
  BY CopiesAre, CleanOnHost
<1> QED
  BY <1>4, <1>5

LEMMA NamesOfLocals ==
  ASSUME NEW w \in Seq(Text)
  PROVE  /\ Names(Locals(w)) = w /\ Clean(Locals(w)) \in Seq(Path)
         /\ Names(Clean(Locals(w))) = [n \in DOMAIN w |-> IF w[n] = "" THEN "." ELSE w[n]]
         /\ ToSet(w) \subseteq {""} => Clean(Locals(w)) \in Seq({Local(".")})
<1>0. "." \in Text
  BY DEF Text
<1>1. /\ DOMAIN Locals(w) = DOMAIN w
      /\ \A n \in DOMAIN w : Locals(w)[n] = Local(w[n]) /\ w[n] \in Text
  BY LocalsAre
<1>2. \A n \in DOMAIN w : Locals(w)[n].name = w[n] /\ Locals(w)[n] \in Path
  <2>1. 0 \in Nat
    OBVIOUS
  <2> QED
    BY <1>1, <2>1, PathsAre
<1>3. w = [n \in DOMAIN w |-> w[n]]
  OBVIOUS
<1>4. Names(Locals(w)) = w
  BY <1>1, <1>2, <1>3 DEF Names
<1>5. Clean(Locals(w)) = [n \in DOMAIN w |-> IF w[n] = "" THEN Local(".") ELSE Locals(w)[n]]
  <2>1. \A n \in DOMAIN w : Locals(w)[n] = Local("") <=> w[n] = ""
    <3>1. Local("").name = ""
      BY DEF Local, At
    <3> QED
      BY <1>1, <1>2, <3>1
  <2> QED
    BY <1>1, <2>1 DEF Clean
<1>6. Local(".").name = "." /\ Local(".") \in Path
  <2>1. 0 \in Nat
    OBVIOUS
  <2> QED
    BY <1>0, <2>1, PathsAre
<1>7. Names(Clean(Locals(w))) = [n \in DOMAIN w |-> IF w[n] = "" THEN "." ELSE w[n]]
  <2>1. DOMAIN Clean(Locals(w)) = DOMAIN w
    BY <1>5
  <2>2. \A n \in DOMAIN w : Clean(Locals(w))[n].name = IF w[n] = "" THEN "." ELSE w[n]
    BY <1>2, <1>5, <1>6
  <2> QED
    BY <2>1, <2>2 DEF Names
<1>8. Clean(Locals(w)) \in Seq(Path)
  <2>1. Clean(Locals(w)) \in [DOMAIN w -> Path]
    BY <1>2, <1>5, <1>6
  <2> QED
    BY <2>1, SameLength
<1>9. ASSUME ToSet(w) \subseteq {""} PROVE Clean(Locals(w)) \in Seq({Local(".")})
  <2>1. \A n \in DOMAIN w : w[n] = ""
    BY <1>9, ElementsIn
  <2>2. Clean(Locals(w)) \in [DOMAIN w -> {Local(".")}]
    BY <1>5, <2>1
  <2> QED
    BY <2>2, SameLength
<1> QED
  BY <1>4, <1>7, <1>8, <1>9

(* What the properties call the settings of a command are those of its play. *)
LEMMA OfCommand ==
  ASSUME NEW i, NEW c, c = CommandOf(i)
  PROVE  /\ c.play = i /\ c.entity = plays[i].entity
         /\ Shared(c) <=> plays[i].entity # "galaxy_install"
         /\ WasDeployed(c) <=> block.remote /\ plays[i].enabled
         /\ Ids(c) = Conf(i, "vault_id")
         /\ \A s : Configured(c, s) = Conf(i, s) /\ Own(c, s) = Source(i).set[s]
<1>1. c.play = i /\ c.entity = plays[i].entity
  BY CommandIs
<1>2. /\ Shared(c) <=> plays[i].entity # "galaxy_install"
      /\ WasDeployed(c) <=> block.remote /\ plays[i].enabled
  BY <1>1 DEF Shared, WasDeployed
<1>3. \A s : Own(c, s) = Source(i).set[s]
  BY <1>1 DEF Own, Source
<1>4. \A s : Configured(c, s) = Conf(i, s)
  BY <1>3 DEF Configured, Conf, Preferred
<1> QED
  BY <1>1, <1>2, <1>3, <1>4 DEF Ids

(* The secrets of the command of a play, and how many. *)
LEMMA SecretsOf ==
  ASSUME NEW i, Runs(i), NEW c, c = CommandOf(i), plays[i].entity # "galaxy_install"
  PROVE  LET ids == Conf(i, "vault_id")
             file == Conf(i, "vault_password_file")
             deployed == block.remote /\ plays[i].enabled
         IN /\ c["vault_id"] = IF deployed /\ NonEmpty(ids) # <<>> THEN Copies(NonEmpty(ids), i)
                               ELSE Clean(Locals(ids))
            /\ ids # <<>> => c["vault_password_file"] = <<>>
            /\ ids = <<>> => c["vault_password_file"] =
                               IF deployed THEN Copies(file, i) ELSE Locals(file)
<1> DEFINE ids == Conf(i, "vault_id")
           file == Conf(i, "vault_password_file")
           deployed == block.remote /\ plays[i].enabled
           set == PathSetting(UsedFor(i), plays[i], "vault_id")
<1>1. ids \in Seq(Text) /\ i \in Nat
  BY ListsConfigured DEF Lists, Runs
<1>2. NonEmpty(ids) \in Seq(Text) /\ (ids = <<>> => NonEmpty(ids) = <<>>)
  BY <1>1, NonEmptyKeeps
<1>3. set = IF deployed /\ NonEmpty(ids) # <<>> THEN Copies(NonEmpty(ids), i) ELSE Locals(ids)
  BY IdsAre
<1>4. Clean(Copies(NonEmpty(ids), i)) = Copies(NonEmpty(ids), i)
      /\ (Copies(NonEmpty(ids), i) = <<>> <=> NonEmpty(ids) = <<>>)
  BY <1>1, <1>2, NamesOfCopies, CopiesAre
<1>5. Locals(ids) = <<>> <=> ids = <<>>
  BY <1>1, LocalsAre
<1>6. /\ c["vault_id"] = Clean(set)
      /\ c["vault_password_file"] = IF set # <<>> THEN <<>>
                                    ELSE PathSetting(UsedFor(i), plays[i], "vault_password_file")
  BY SharedCommand
<1>7. set = <<>> <=> ids = <<>>
  BY <1>2, <1>3, <1>4, <1>5
<1>8. c["vault_id"] = IF deployed /\ NonEmpty(ids) # <<>> THEN Copies(NonEmpty(ids), i)
                      ELSE Clean(Locals(ids))
  BY <1>3, <1>4, <1>6
<1>9. ASSUME ids = <<>>
      PROVE  c["vault_password_file"] = IF deployed THEN Copies(file, i) ELSE Locals(file)
  <2>1. c["vault_password_file"] = PathSetting(UsedFor(i), plays[i], "vault_password_file")
    BY <1>6, <1>7, <1>9
  <2> QED
    BY <1>9, <2>1, PasswordIs
<1> QED
  BY <1>6, <1>7, <1>8, <1>9

(* Any play of any block is given its own secrets, all of them and no       *)
(* others, however the defaults and the plays are combined.                 *)
THEOREM OwnSecretsGiven == Spec => []SecretsAsConfigured
<1>1. ASSUME SettingsInv PROVE SecretsAsConfigured
  <2> SUFFICES ASSUME NEW c \in ToSet(commands), Shared(c)
               PROVE  /\ IF WasDeployed(c) /\ NonEmpty(Ids(c)) # <<>>
                         THEN Names(c["vault_id"]) = NonEmpty(Ids(c))
                         ELSE Names(c["vault_id"]) =
                                [n \in DOMAIN Ids(c) |-> IF Ids(c)[n] = "" THEN "." ELSE Ids(c)[n]]
                      /\ Names(c["vault_password_file"]) =
                           IF Ids(c) = <<>> THEN Configured(c, "vault_password_file") ELSE <<>>
    BY DEF SecretsAsConfigured
  <2>1. PICK i : Runs(i) /\ c = CommandOf(i)
    BY <1>1, CommandRuns
  <2> DEFINE ids == Conf(i, "vault_id")
             file == Conf(i, "vault_password_file")
  <2>2. /\ Ids(c) = ids /\ Configured(c, "vault_password_file") = file
        /\ WasDeployed(c) <=> block.remote /\ plays[i].enabled
        /\ plays[i].entity # "galaxy_install"
    BY <2>1, OfCommand
  <2>3. ids \in Seq(Text) /\ file \in Seq(Text) /\ i \in Nat
    BY <2>1, ListsConfigured, FilesConfigured DEF Lists, Files, Runs
  <2>4. NonEmpty(ids) \in Seq(Text)
    BY <2>3, NonEmptyKeeps
  <2>5. /\ c["vault_id"] = IF WasDeployed(c) /\ NonEmpty(ids) # <<>> THEN Copies(NonEmpty(ids), i)
                           ELSE Clean(Locals(ids))
        /\ ids # <<>> => c["vault_password_file"] = <<>>
        /\ ids = <<>> => c["vault_password_file"] =
                           IF WasDeployed(c) THEN Copies(file, i) ELSE Locals(file)
    BY <2>1, <2>2, SecretsOf
  <2>6. /\ Names(Copies(NonEmpty(ids), i)) = NonEmpty(ids)
        /\ Names(Clean(Locals(ids))) = [n \in DOMAIN ids |-> IF ids[n] = "" THEN "." ELSE ids[n]]
        /\ Names(Copies(file, i)) = file /\ Names(Locals(file)) = file
    BY <2>3, <2>4, NamesOfCopies, NamesOfLocals
  <2>7. Names(<<>>) = <<>>
    BY DEF Names
  <2> HIDE DEF ids, file
  <2> QED
    BY <2>2, <2>5, <2>6, <2>7
<1> QED
  BY <1>1, SettingsAlways, PTL

-----------------------------------------------------------------------------
(* Inventories *)

LEMMA LocalhostEnsured ==
  ASSUME NEW w \in Seq(Text)
  PROVE  /\ ensureLocalhostInHosts(w) \in Seq(Text)
         /\ ToSet(ensureLocalhostInHosts(w)) = ToSet(w) \cup {"localhost"}
<1>1. DOMAIN w = 1 .. Len(w)
  OBVIOUS
<1>2. Contains(w, "localhost") <=> "localhost" \in ToSet(w)
  BY <1>1 DEF Contains, ToSet
<1> DEFINE l == "localhost"
           one == <<l>>
<1>3. l \in Text
  BY DEF Text
<1> HIDE DEF l
<1>4. one \in Seq(Text) /\ ToSet(one) = {l}
  BY <1>3 DEF ToSet
<1> HIDE DEF one
<1>5. one \o w \in Seq(Text) /\ ToSet(one \o w) = {l} \cup ToSet(w)
  BY <1>4, Concatenated
<1>6. ensureLocalhostInHosts(w) = IF l \in ToSet(w) THEN w ELSE one \o w
  BY <1>2 DEF ensureLocalhostInHosts, l, one
<1> QED
  BY <1>5, <1>6 DEF l

(* Lists of one and of two. *)
LEMMA FirstIn ==
  ASSUME NEW T, NEW w \in Seq(T), w # <<>>
  PROVE  w[1] \in T
OBVIOUS

LEMMA PairIs ==
  ASSUME NEW T, NEW a \in T, NEW b \in T
  PROVE  <<a, b>> \in Seq(T) /\ <<a, b>>[1] = a /\ ToSet(<<a, b>>) = {a, b}
<1>1. <<a, b>> \in Seq(T) /\ <<a, b>>[1] = a
  OBVIOUS
<1>2. DOMAIN <<a, b>> = {1, 2} /\ <<a, b>>[2] = b
  OBVIOUS
<1>3. ToSet(<<a, b>>) = {a, b}
  BY <1>1, <1>2 DEF ToSet
<1> QED
  BY <1>1, <1>3

LEMMA SingleIs ==
  ASSUME NEW T, NEW a \in T
  PROVE  <<a>> \in Seq(T) /\ Len(<<a>>) = 1 /\ <<a>>[1] = a /\ <<a>> # <<>>
OBVIOUS

(* The hosts of an inventory are known by the names in its list. *)
LEMMA FirstOfEach ==
  ASSUME NEW S, NEW w \in Seq(S), NEW T, NEW f \in [DOMAIN w -> T],
         \A n \in DOMAIN w : f[n][1] = w[n]
  PROVE  f \in Seq(T) /\ {h[1] : h \in ToSet(f)} = ToSet(w)
<1>1. f \in Seq(T)
  BY SameLength
<1>2. \A x : x \in ToSet(w) <=> \E n \in DOMAIN w : x = w[n]
  BY DEF ToSet
<1>3. \A h : h \in ToSet(f) <=> \E n \in DOMAIN w : h = f[n]
  BY DEF ToSet
<1>4. ASSUME NEW h \in ToSet(f) PROVE h[1] \in ToSet(w)
  BY <1>2, <1>3
<1>5. ASSUME NEW x \in ToSet(w) PROVE \E h \in ToSet(f) : x = h[1]
  BY <1>2, <1>3
<1> QED
  BY <1>1, <1>4, <1>5

LEMMA Aliased ==
  ASSUME NEW w \in Seq(Text), NEW a \in Text
  PROVE  LET hosts == [n \in DOMAIN w |-> <<w[n], a>>] IN
         hosts \in Seq(Seq(Text)) /\ {h[1] : h \in ToSet(hosts)} = ToSet(w)
<1> DEFINE T == Seq(Text)
           hosts == [n \in DOMAIN w |-> <<w[n], a>>]
<1>1. \A n \in DOMAIN w : w[n] \in Text
  OBVIOUS
<1>2. \A n \in DOMAIN w : <<w[n], a>> \in T /\ <<w[n], a>>[1] = w[n]
  BY <1>1, PairIs
<1> HIDE DEF T
<1>3. hosts \in [DOMAIN w -> T] /\ \A n \in DOMAIN w : hosts[n][1] = w[n]
  BY <1>2
<1> HIDE DEF hosts
<1>4. hosts \in Seq(T) /\ {h[1] : h \in ToSet(hosts)} = ToSet(w)
  BY <1>3, FirstOfEach
<1> QED
  BY <1>4 DEF T, hosts

(* A generated inventory is a path with its hosts. *)
LEMMA GeneratedIs ==
  ASSUME NEW i, Runs(i), NEW hosts \in Seq(Seq(Text))
  PROVE  /\ Generated("host", plays[i], i, hosts) \in HostPath(i)
         /\ Generated("host", plays[i], i, hosts).hosts = hosts
         /\ Generated("controller", plays[i], i, hosts) \in Path
         /\ Generated("controller", plays[i], i, hosts).hosts = hosts
<1>1. Setting(plays[i], "groups") \in Seq(Text) /\ i \in Nat /\ "inventory" \in Text
  BY ListsConfigured DEF Lists, Runs, Text
<1> QED
  BY <1>1 DEF Generated, HostPath, Path

(* In remote mode: localhost and the hosts listed. *)
LEMMA RemoteInventoryIs ==
  ASSUME NEW i, Runs(i)
  PROVE  /\ RemoteInventory(plays[i], i) \in HostPath(i)
         /\ {h[1] : h \in ToSet(RemoteInventory(plays[i], i).hosts)}
              = ToSet(Conf(i, "hosts")) \cup {"localhost"}
<1> DEFINE w == ensureLocalhostInHosts(Conf(i, "hosts"))
           hosts == [n \in DOMAIN w |-> <<w[n], "">>]
<1>1. Setting(plays[i], "hosts") = Conf(i, "hosts") /\ Conf(i, "hosts") \in Seq(Text)
  BY ListsConfigured DEF Lists
<1>2. RemoteInventory(plays[i], i) = Generated("host", plays[i], i, hosts)
  BY <1>1 DEF RemoteInventory
<1>3. w \in Seq(Text) /\ ToSet(w) = ToSet(Conf(i, "hosts")) \cup {"localhost"}
  BY <1>1, LocalhostEnsured
<1>4. "" \in Text
  BY DEF Text
<1> HIDE DEF w
<1>5. hosts \in Seq(Seq(Text)) /\ {h[1] : h \in ToSet(hosts)} = ToSet(w)
  BY <1>3, <1>4, Aliased
<1> HIDE DEF hosts
<1>6. RemoteInventory(plays[i], i) \in HostPath(i) /\ RemoteInventory(plays[i], i).hosts = hosts
  BY <1>2, <1>5, GeneratedIs
<1> QED
  BY <1>3, <1>5, <1>6

(* In local mode: the resource, or the hosts listed for a null_resource. *)
LEMMA LocalInventoryIs ==
  ASSUME NEW i, Runs(i), NEW path, path = LocalInventory(plays[i], i, block.host)
  PROVE  /\ path \in Path
         /\ block.host # "" => Len(path.hosts) = 1 /\ block.host \in ToSet(path.hosts[1])
         /\ block.host = "" => {h[1] : h \in ToSet(path.hosts)} = ToSet(Conf(i, "hosts")) \ {""}
<1> DEFINE listed == Conf(i, "hosts")
           named == NonEmpty(listed)
           first == listed[1]
           host == block.host
<1>1. Setting(plays[i], "hosts") = listed /\ listed \in Seq(Text)
  BY ListsConfigured DEF Lists
<1>2. host \in Text /\ "" \in Text
  BY SettingsAssumption DEF Runs, Text
<1>3. named \in Seq(Text) /\ ToSet(named) = ToSet(listed) \ {""}
  BY <1>1, NonEmptyKeeps
<1>4. path = Generated("controller", plays[i], i,
               IF host = "" THEN [n \in DOMAIN named |-> <<named[n], "">>]
               ELSE IF listed # <<>> /\ first # "" THEN <<<<first, host>>>> ELSE <<<<host, "">>>>)
  BY <1>1 DEF LocalInventory
<1> HIDE DEF named
<1>5. CASE host = ""
  <2> DEFINE hosts == [n \in DOMAIN named |-> <<named[n], "">>]
  <2>1. path = Generated("controller", plays[i], i, hosts)
    BY <1>4, <1>5
  <2>2. hosts \in Seq(Seq(Text)) /\ {h[1] : h \in ToSet(hosts)} = ToSet(named)
    BY <1>2, <1>3, Aliased
  <2> HIDE DEF hosts
  <2>3. path \in Path /\ path.hosts = hosts
    BY <2>1, <2>2, GeneratedIs
  <2> QED
    BY <1>3, <1>5, <2>2, <2>3
<1>6. CASE host # ""
  <2> HIDE DEF host, first, listed
  <2>1. PICK h : /\ h \in Seq(Text) /\ host \in ToSet(h)
                 /\ path = Generated("controller", plays[i], i, <<h>>)
    <3> DEFINE h == IF listed # <<>> /\ first # "" THEN <<first, host>> ELSE <<host, "">>
    <3>1. listed # <<>> => first \in Text
      BY <1>1, FirstIn DEF first
    <3>2. ASSUME NEW a \in Text PROVE <<a, host>> \in Seq(Text) /\ host \in ToSet(<<a, host>>)
      <4>1. <<a, host>> \in Seq(Text)
        BY <1>2, PairIs
      <4>2. ToSet(<<a, host>>) = {a, host}
        BY <1>2, PairIs
      <4> QED
        BY <4>1, <4>2
    <3>3. ASSUME NEW a \in Text PROVE <<host, a>> \in Seq(Text) /\ host \in ToSet(<<host, a>>)
      <4>1. <<host, a>> \in Seq(Text)
        BY <1>2, PairIs
      <4>2. ToSet(<<host, a>>) = {host, a}
        BY <1>2, PairIs
      <4> QED
        BY <4>1, <4>2
    <3>4. path = Generated("controller", plays[i], i, <<h>>)
      BY <1>4, <1>6
    <3>5. h \in Seq(Text) /\ host \in ToSet(h)
      BY <1>2, <3>1, <3>2, <3>3
    <3> QED
      BY <3>4, <3>5
  <2>2. <<h>> \in Seq(Seq(Text)) /\ Len(<<h>>) = 1 /\ <<h>>[1] = h
    BY <2>1, SingleIs
  <2>3. path \in Path /\ path.hosts = <<h>>
    BY <2>1, <2>2, GeneratedIs
  <2> QED
    BY <1>6, <2>1, <2>2, <2>3 DEF host
<1> QED
  BY <1>5, <1>6

(* The inventory of the command of a play. *)
LEMMA InventoryOf ==
  ASSUME NEW i, Runs(i), NEW c, c = CommandOf(i), plays[i].entity # "galaxy_install"
  PROVE  LET file == Conf(i, "inventory_file") IN
         c["inventory_file"] =
           IF block.remote /\ plays[i].enabled
           THEN IF file # <<>> THEN Copies(file, i) ELSE <<RemoteInventory(plays[i], i)>>
           ELSE IF block.remote \/ file # <<>> THEN Locals(file)
           ELSE <<LocalInventory(plays[i], i, block.host)>>
<1> DEFINE file == Conf(i, "inventory_file")
           o == UsedFor(i)
<1>1. Setting(plays[i], "inventory_file") = file /\ file \in Seq(Text) /\ i \in Nat
  BY FilesConfigured DEF Files, Runs
<1>2. c["inventory_file"] = PathSetting(o, plays[i], "inventory_file")
  BY SharedCommand
<1>3. Copies(file, i) = <<>> <=> file = <<>>
  BY <1>1, CopiesAre
<1>4. \A x : <<x>> # <<>>
  OBVIOUS
<1>5. CASE block.remote /\ plays[i].enabled
  <2>1. o["inventory_file"] = IF file # <<>> THEN Copies(file, i)
                              ELSE <<RemoteInventory(plays[i], i)>>
    BY <1>1, <1>5, UploadedIs
  <2>2. o["inventory_file"] # <<>>
    BY <1>3, <1>4, <2>1
  <2> QED
    BY <1>2, <1>5, <2>1, <2>2 DEF PathSetting
<1>6. CASE ~(block.remote /\ plays[i].enabled)
  <2>1. o["inventory_file"] = IF block.remote \/ file # <<>> THEN <<>>
                              ELSE <<LocalInventory(plays[i], i, block.host)>>
    BY <1>1, <1>6, UsedOtherwise
  <2> QED
    BY <1>1, <1>2, <1>4, <1>6, <2>1 DEF PathSetting
<1> QED
  BY <1>5, <1>6

(* The command of any play of any block reaches the hosts it is meant for,  *)
(* in both modes and for both kinds of resource.                            *)
THEOREM ProvisionedReached == Spec => []InventoryReaches
<1>1. ASSUME SettingsInv PROVE InventoryReaches
  <2> SUFFICES ASSUME NEW c \in ToSet(commands), Shared(c), plays[c.play].enabled
               PROVE  LET inventory == c["inventory_file"][1]
                          listed == ToSet(Configured(c, "hosts"))
                          aliases == {h[1] : h \in ToSet(inventory.hosts)}
                      IN /\ Len(c["inventory_file"]) = 1
                         /\ IF Configured(c, "inventory_file") # <<>>
                            THEN inventory.name = Configured(c, "inventory_file")[1]
                                 /\ inventory.hosts = <<>>
                            ELSE IF block.remote THEN aliases = listed \cup {"localhost"}
                            ELSE IF block.host # ""
                            THEN Len(inventory.hosts) = 1
                                 /\ block.host \in ToSet(inventory.hosts[1])
                            ELSE aliases = listed \ {""} /\ listed # {}
    BY DEF InventoryReaches
  <2>1. PICK i : Runs(i) /\ c = CommandOf(i)
    BY <1>1, CommandRuns
  <2> DEFINE file == Conf(i, "inventory_file")
             hosts == Conf(i, "hosts")
             paths == c["inventory_file"]
  <2>2. /\ Configured(c, "inventory_file") = file /\ Configured(c, "hosts") = hosts
        /\ plays[i].enabled /\ plays[i].entity # "galaxy_install"
    BY <2>1, OfCommand
  <2>3. paths = IF block.remote
                THEN IF file # <<>> THEN Copies(file, i) ELSE <<RemoteInventory(plays[i], i)>>
                ELSE IF file # <<>> THEN Locals(file)
                ELSE <<LocalInventory(plays[i], i, block.host)>>
    BY <2>1, <2>2, InventoryOf
  <2>4. /\ Setting(plays[i], "inventory_file") = file /\ file \in Seq(Text)
        /\ file = <<>> \/ Len(file) = 1
    BY <2>1, FilesConfigured DEF Files
  <2>5. Setting(plays[i], "hosts") = hosts /\ hosts \in Seq(Text)
    BY <2>1, ListsConfigured DEF Lists
  <2>6. i \in Nat /\ i \in DOMAIN plays /\ HostsKnown
    BY <2>1 DEF Runs
  <2> HIDE DEF file, hosts, paths
  <2>7. ASSUME file # <<>>
        PROVE  Len(paths) = 1 /\ paths[1].name = file[1] /\ paths[1].hosts = <<>>
    <3>1. Len(file) = 1 /\ 1 \in DOMAIN file /\ file[1] \in Text
      BY <2>4, <2>7, FirstIn
    <3>2. CASE block.remote
      <4>1. paths = Copies(file, i)
        BY <2>3, <2>7, <3>2
      <4>2. Len(paths) = 1 /\ paths[1] = Copy(file[1], i)
        BY <2>4, <2>6, <3>1, <4>1, CopiesAre
      <4> QED
        BY <2>6, <3>1, <4>2, PathsAre
    <3>3. CASE ~block.remote
      <4>1. paths = Locals(file)
        BY <2>3, <2>7, <3>3
      <4>2. Len(paths) = 1 /\ paths[1] = Local(file[1])
        BY <2>4, <3>1, <4>1, LocalsAre
      <4> QED
        BY <2>6, <3>1, <4>2, PathsAre
    <3> QED
      BY <3>2, <3>3
  <2>8. ASSUME file = <<>>, block.remote
        PROVE  Len(paths) = 1
               /\ {h[1] : h \in ToSet(paths[1].hosts)} = ToSet(hosts) \cup {"localhost"}
    <3>1. paths = <<RemoteInventory(plays[i], i)>>
      BY <2>3, <2>8
    <3>2. Len(paths) = 1 /\ paths[1] = RemoteInventory(plays[i], i)
      BY <3>1
    <3> QED
      BY <2>1, <3>2, RemoteInventoryIs DEF hosts
  <2>9. ASSUME file = <<>>, ~block.remote
        PROVE  /\ Len(paths) = 1
               /\ block.host # "" =>
                    Len(paths[1].hosts) = 1 /\ block.host \in ToSet(paths[1].hosts[1])
               /\ block.host = "" => {h[1] : h \in ToSet(paths[1].hosts)} = ToSet(hosts) \ {""}
    <3>1. paths = <<LocalInventory(plays[i], i, block.host)>>
      BY <2>3, <2>9
    <3>2. Len(paths) = 1 /\ paths[1] = LocalInventory(plays[i], i, block.host)
      BY <3>1
    <3> QED
      BY <2>1, <3>2, LocalInventoryIs DEF hosts
  <2>10. ASSUME file = <<>>, ~block.remote, block.host = "" PROVE ToSet(hosts) # {}
    <3>1. hosts # <<>>
      BY <2>4, <2>5, <2>6, <2>10 DEF HostsKnown, HasHosts
    <3> QED
      BY <2>5, <3>1, ElementsIn
  <2> QED
    BY <2>2, <2>7, <2>8, <2>9, <2>10 DEF paths
<1> QED
  BY <1>1, SettingsAlways, PTL

-----------------------------------------------------------------------------
(* Paths of the host *)

(* The paths of the commands are paths, and of one with a galaxy_install    *)
(* there are none.                                                          *)
LEMMA PathsOf ==
  ASSUME NEW i, Runs(i), NEW c, c = CommandOf(i)
  PROVE  /\ c["vault_id"] \in Seq(Path) /\ c["vault_password_file"] \in Seq(Path)
         /\ c["inventory_file"] \in Seq(Path)
<1>0. i \in Nat /\ <<>> \in Seq(Path)
  BY DEF Runs
<1>1. CASE plays[i].entity = "galaxy_install"
  BY <1>0, <1>1, GalaxyCommand
<1>2. CASE plays[i].entity # "galaxy_install"
  <2> DEFINE ids == Conf(i, "vault_id")
             password == Conf(i, "vault_password_file")
             file == Conf(i, "inventory_file")
             deployed == block.remote /\ plays[i].enabled
  <2>1. /\ ids \in Seq(Text) /\ password \in Seq(Text) /\ file \in Seq(Text)
    BY ListsConfigured, FilesConfigured DEF Lists, Files
  <2>2. NonEmpty(ids) \in Seq(Text)
    BY <2>1, NonEmptyKeeps
  <2>3. c["vault_id"] \in Seq(Path)
    <3>1. c["vault_id"] = IF deployed /\ NonEmpty(ids) # <<>> THEN Copies(NonEmpty(ids), i)
                          ELSE Clean(Locals(ids))
      BY <1>2, SecretsOf
    <3>2. Copies(NonEmpty(ids), i) \in Seq(Path)
      BY <1>0, <2>2, CopiesAre
    <3>3. Clean(Locals(ids)) \in Seq(Path)
      BY <2>1, NamesOfLocals
    <3> QED
      BY <3>1, <3>2, <3>3
  <2>4. c["vault_password_file"] \in Seq(Path)
    <3>1. /\ ids # <<>> => c["vault_password_file"] = <<>>
          /\ ids = <<>> => c["vault_password_file"] =
                             IF deployed THEN Copies(password, i) ELSE Locals(password)
      BY <1>2, SecretsOf
    <3>2. Copies(password, i) \in Seq(Path)
      BY <1>0, <2>1, CopiesAre
    <3>3. Locals(password) \in Seq(Path)
      BY <2>1, LocalsAre
    <3> QED
      BY <1>0, <3>1, <3>2, <3>3
  <2>5. c["inventory_file"] \in Seq(Path)
    <3>1. c["inventory_file"] =
            IF deployed THEN IF file # <<>> THEN Copies(file, i) ELSE <<RemoteInventory(plays[i], i)>>
            ELSE IF block.remote \/ file # <<>> THEN Locals(file)
            ELSE <<LocalInventory(plays[i], i, block.host)>>
      BY <1>2, InventoryOf
    <3>2. Copies(file, i) \in Seq(Path)
      BY <1>0, <2>1, CopiesAre
    <3>3. Locals(file) \in Seq(Path)
      BY <2>1, LocalsAre
    <3>4. <<RemoteInventory(plays[i], i)>> \in Seq(Path)
      <4>1. RemoteInventory(plays[i], i) \in Path
        BY RemoteInventoryIs DEF HostPath
      <4> QED
        BY <4>1, SingleIs
    <3>5. <<LocalInventory(plays[i], i, block.host)>> \in Seq(Path)
      <4>1. LocalInventory(plays[i], i, block.host) \in Path
        BY LocalInventoryIs
      <4> QED
        BY <4>1, SingleIs
    <3> QED
      BY <3>1, <3>2, <3>3, <3>4, <3>5
  <2> QED
    BY <2>3, <2>4, <2>5
<1> QED
  BY <1>1, <1>2

(* The types, of any block. *)
THEOREM TypesKept == Spec => []TypeOK
<1>1. ASSUME SettingsInv PROVE TypeOK
  <2>1. block \in Blocks /\ pc \in Labels /\ cur \in 1 .. Len(block.plays) + 1 /\ errors \in Nat
    BY <1>1 DEF SettingsInv, CheckedInv, Counting
  <2>2. Len(plays) = Len(override) /\ Len(plays) \in {0, Len(block.plays)}
    <3>1. CASE pc \in Decoded
      <4>1. /\ Len(plays) = Len(block.plays) /\ Len(plays) \in Nat /\ DOMAIN plays = 1 .. Len(plays)
            /\ DOMAIN override = DOMAIN plays
        BY <1>1, <3>1, PlaysThere DEF SettingsInv
      <4>2. Len(override) = Len(plays)
        BY <4>1
      <4> QED
        BY <4>1, <4>2
    <3>2. CASE pc \notin Decoded
      BY <1>1, <3>2 DEF SettingsInv, PlaysInv
    <3> QED
      BY <3>1, <3>2
  <2>3. ASSUME NEW c \in ToSet(commands), NEW s \in Paths PROVE c[s] \in Seq(Path)
    <3>1. PICK i : Runs(i) /\ c = CommandOf(i)
      BY <1>1, CommandRuns
    <3>2. /\ c["vault_id"] \in Seq(Path) /\ c["vault_password_file"] \in Seq(Path)
          /\ c["inventory_file"] \in Seq(Path)
      BY <3>1, PathsOf
    <3> QED
      BY <3>2 DEF Paths
  <2> QED
    BY <2>1, <2>2, <2>3 DEF TypeOK
<1> QED
  BY <1>1, SettingsAlways, PTL

(* The copies of roles. *)
LEMMA RolesCopied ==
  ASSUME NEW w \in Seq(Role)
  PROVE  LET copies == [n \in DOMAIN w |-> Copy(w[n].name, 0)] IN
         copies \in Seq(HostPath(0)) /\ (copies = <<>> <=> w = <<>>)
<1> DEFINE copies == [n \in DOMAIN w |-> Copy(w[n].name, 0)]
<1>1. \A n \in DOMAIN w : w[n].name \in Text
  <2>1. \A n \in DOMAIN w : w[n] \in Role
    OBVIOUS
  <2> QED
    BY <2>1 DEF Role
<1>2. \A n \in DOMAIN w : Copy(w[n].name, 0) \in HostPath(0)
  <2>1. 0 \in Nat
    OBVIOUS
  <2> QED
    BY <1>1, <2>1, PathsAre
<1>3. copies \in [DOMAIN w -> HostPath(0)]
  BY <1>2
<1> HIDE DEF copies
<1>4. copies \in Seq(HostPath(0)) /\ (copies = <<>> <=> w = <<>>)
  BY <1>3, SameLength
<1> QED
  BY <1>4 DEF copies

(* Where a play has been deployed, its files and roles are those of the host. *)
LEMMA DeployedFiles ==
  ASSUME NEW i, Runs(i), block.remote, plays[i].enabled
  PROVE  FilePath(UsedFor(i), plays[i]) \in Seq(HostPath(0))
<1> DEFINE o == UsedFor(i)
           file == plays[i].file
<1>1. file \in Seq(Text) /\ 0 \in Nat
  BY PlayIs
<1>2. o.file = Copies(file, 0)
  BY UploadedIs, InstalledIs
<1>3. Copies(file, 0) \in Seq(HostPath(0)) /\ (Copies(file, 0) = <<>> <=> file = <<>>)
  BY <1>1, CopiesAre
<1>4. Locals(file) = <<>> <=> file = <<>>
  BY <1>1, LocalsAre
<1> QED
  BY <1>2, <1>3, <1>4 DEF FilePath

LEMMA DeployedRoles ==
  ASSUME NEW i, Runs(i), block.remote, plays[i].enabled
  PROVE  RolesPath(UsedFor(i), plays[i]) \in Seq(HostPath(0))
<1> DEFINE o == UsedFor(i)
           roles == plays[i].roles
           copies == [n \in DOMAIN roles |-> Copy(roles[n].name, 0)]
           directory == Copy("galaxy-roles", 0)
<1>1. roles \in Seq(Role)
  BY PlayIs
<1>2. copies \in Seq(HostPath(0)) /\ (copies = <<>> <=> roles = <<>>)
  BY <1>1, RolesCopied
<1>3. <<directory>> \in Seq(HostPath(0)) /\ <<directory>> # <<>>
  <2>1. "galaxy-roles" \in Text /\ 0 \in Nat
    BY DEF Text
  <2>2. directory \in HostPath(0)
    BY <2>1, PathsAre
  <2> HIDE DEF directory
  <2> QED
    BY <2>2, SingleIs
<1>4. CASE plays[i].entity = "galaxy_install"
  <2>1. o.roles = IF roles = <<>> THEN <<directory>> ELSE copies
    BY <1>4, InstalledIs
  <2>2. o.roles # <<>> /\ o.roles \in Seq(HostPath(0))
    BY <1>2, <1>3, <2>1
  <2> QED
    BY <2>2 DEF RolesPath
<1>5. CASE plays[i].entity # "galaxy_install"
  <2>1. o.roles = copies
    BY <1>5, UploadedIs
  <2>2. CASE roles = <<>>
    <3>1. o.roles = <<>>
      BY <1>2, <2>1, <2>2
    <3>2. RolesPath(o, plays[i]) = <<>>
      BY <2>2, <3>1 DEF RolesPath
    <3> QED
      BY <3>2
  <2>3. CASE roles # <<>>
    BY <1>2, <2>1, <2>3 DEF RolesPath
  <2> QED
    BY <2>2, <2>3
<1> QED
  BY <1>4, <1>5

(* What the command names besides the roles of the plugin's environment, of *)
(* which its files and roles are paths of the host, or none is.             *)
LEMMA UploadedOf ==
  ASSUME NEW i, Runs(i), NEW c, c = CommandOf(i), NEW S \in SUBSET Path,
         FilePath(UsedFor(i), plays[i]) \in Seq(S),
         RolesPath(UsedFor(i), plays[i]) \in Seq(S),
         Clean(RolesPath(UsedFor(i), plays[i])) \in Seq(S)
  PROVE  LET environment == IF c.entity = "playbook" THEN Len(EnvRoles) ELSE 0 IN
         c.file \o SubSeq(c.roles, environment + 1, Len(c.roles)) \in Seq(S)
<1> DEFINE roles == RolesPath(UsedFor(i), plays[i])
           cleaned == Clean(roles)
           env == Locals(EnvRoles)
           environment == IF c.entity = "playbook" THEN Len(EnvRoles) ELSE 0
           rest == SubSeq(c.roles, environment + 1, Len(c.roles))
<1>1. c.file \in Seq(S) /\ roles \in Seq(S) /\ cleaned \in Seq(S)
  BY CommandIs
<1>2. /\ c.entity = plays[i].entity
      /\ c.roles = IF plays[i].entity = "playbook" THEN env \o cleaned
                   ELSE IF plays[i].entity = "module" THEN <<>> ELSE roles
  BY CommandIs
<1>3. env \in Seq(Path) /\ Len(env) = Len(EnvRoles)
  BY SettingsAssumption, LocalsAre
<1>4. rest \in Seq(S)
  <2>1. CASE plays[i].entity = "playbook"
    <3>1. rest = SubSeq(env \o cleaned, Len(env) + 1, Len(env \o cleaned))
      BY <1>2, <1>3, <2>1
    <3>2. cleaned \in Seq(Path)
      BY <1>1
    <3> HIDE DEF cleaned, env
    <3>3. SubSeq(env \o cleaned, Len(env) + 1, Len(env \o cleaned)) = cleaned
      BY <1>3, <3>2, Concatenated
    <3> QED
      BY <1>1, <3>1, <3>3
  <2>2. CASE plays[i].entity = "module"
    <3>1. rest = SubSeq(<<>>, 1, 0)
      BY <1>2, <2>2
    <3>2. SubSeq(<<>>, 1, 0) \in Seq(S)
      OBVIOUS
    <3> QED
      BY <3>1, <3>2
  <2>3. CASE plays[i].entity \notin {"playbook", "module"}
    <3>1. rest = SubSeq(roles, 1, Len(roles))
      BY <1>2, <2>3
    <3> HIDE DEF roles
    <3>2. SubSeq(roles, 1, Len(roles)) = roles
      BY <1>1
    <3> QED
      BY <1>1, <3>1, <3>2
  <2> QED
    BY <2>1, <2>2, <2>3
<1> HIDE DEF rest
<1>5. c.file \o rest \in Seq(S)
  BY <1>1, <1>4, Concatenated
<1> QED
  BY <1>5 DEF rest

(* Where nothing was deployed, the files and roles are those configured.    *)
LEMMA ConfiguredFiles ==
  ASSUME NEW i, Runs(i), ~(block.remote /\ plays[i].enabled)
  PROVE  /\ FilePath(UsedFor(i), plays[i]) \in Seq(Elsewhere)
         /\ RolesPath(UsedFor(i), plays[i]) \in Seq(Elsewhere)
<1> DEFINE file == plays[i].file
           roles == plays[i].roles
           path(n) == At(IF roles[n].galaxy THEN "prefixed" ELSE "controller", roles[n].name, 0)
<1>1. file \in Seq(Text) /\ roles \in Seq(Role)
  BY PlayIs
<1>2. FilePath(UsedFor(i), plays[i]) = Locals(file)
  BY UsedOtherwise DEF FilePath
<1>3. RolesPath(UsedFor(i), plays[i]) = [n \in DOMAIN roles |-> path(n)]
  BY UsedOtherwise DEF RolesPath
<1>4. ASSUME NEW n \in DOMAIN roles PROVE path(n) \in Elsewhere
  <2>1. roles[n] \in Role
    BY <1>1
  <2>2. roles[n].name \in Text /\ <<>> \in Seq(Seq(Text)) /\ <<>> \in Seq(Text) /\ 0 \in Nat
    BY <2>1 DEF Role
  <2> QED
    BY <2>2 DEF At, Elsewhere, Path
<1>5. [n \in DOMAIN roles |-> path(n)] \in [DOMAIN roles -> Elsewhere]
  BY <1>4
<1> HIDE DEF path
<1>6. [n \in DOMAIN roles |-> path(n)] \in Seq(Elsewhere)
  BY <1>1, <1>5, SameLength
<1> QED
  BY <1>1, <1>2, <1>3, <1>6, LocalsElsewhere

(* And so are the secrets, and the inventory or the one generated here.     *)
LEMMA NotDeployedOf ==
  ASSUME NEW i, Runs(i), NEW c, c = CommandOf(i), ~(block.remote /\ plays[i].enabled)
  PROVE  /\ c["vault_id"] \in Seq(Elsewhere) /\ c["vault_password_file"] \in Seq(Elsewhere)
         /\ c["inventory_file"] \in Seq(Elsewhere)
<1>0. <<>> \in Seq(Elsewhere)
  OBVIOUS
<1>1. CASE plays[i].entity = "galaxy_install"
  BY <1>0, <1>1, GalaxyCommand
<1>2. CASE plays[i].entity # "galaxy_install"
  <2> DEFINE ids == Conf(i, "vault_id")
             password == Conf(i, "vault_password_file")
             file == Conf(i, "inventory_file")
             generated == LocalInventory(plays[i], i, block.host)
  <2>1. ids \in Seq(Text) /\ password \in Seq(Text) /\ file \in Seq(Text)
    BY ListsConfigured, FilesConfigured DEF Lists, Files
  <2>2. /\ c["vault_id"] = Clean(Locals(ids))
        /\ ids # <<>> => c["vault_password_file"] = <<>>
        /\ ids = <<>> => c["vault_password_file"] = Locals(password)
    BY <1>2, SecretsOf
  <2>3. c["inventory_file"] = IF block.remote \/ file # <<>> THEN Locals(file) ELSE <<generated>>
    BY <1>2, InventoryOf
  <2>4. <<generated>> \in Seq(Elsewhere)
    <3>1. generated \in Path
      BY LocalInventoryIs
    <3>2. generated.at = "controller"
      BY DEF LocalInventory, Generated
    <3>3. generated \in Elsewhere
      BY <3>1, <3>2 DEF Elsewhere
    <3> QED
      BY <3>3, SingleIs
  <2> HIDE DEF ids, password, file, generated
  <2>5. Clean(Locals(ids)) \in Seq(Elsewhere) /\ Locals(password) \in Seq(Elsewhere)
        /\ Locals(file) \in Seq(Elsewhere)
    BY <2>1, LocalsElsewhere, CleanElsewhere
  <2> QED
    BY <1>0, <2>2, <2>3, <2>4, <2>5
<1> QED
  BY <1>1, <1>2

(* And its secrets and inventory: those uploaded for the play, or a "." for *)
(* every id of a list whose ids are all empty.                              *)
LEMMA PrivateOf ==
  ASSUME NEW i, Runs(i), NEW c, c = CommandOf(i), block.remote, plays[i].enabled
  PROVE  /\ \/ c["vault_id"] \in Seq(HostPath(i))
            \/ c["vault_id"] \in Seq({Local(".")})
               /\ (c["vault_id"] = <<>> \/ ToSet(Conf(i, "vault_id")) = {""})
         /\ c["vault_password_file"] \in Seq(HostPath(i))
         /\ c["inventory_file"] \in Seq(HostPath(i))
<1>0. i \in Nat /\ <<>> \in Seq(HostPath(i))
  BY DEF Runs
<1>1. CASE plays[i].entity = "galaxy_install"
  BY <1>0, <1>1, GalaxyCommand
<1>2. CASE plays[i].entity # "galaxy_install"
  <2> DEFINE ids == Conf(i, "vault_id")
             password == Conf(i, "vault_password_file")
             file == Conf(i, "inventory_file")
  <2>1. ids \in Seq(Text) /\ password \in Seq(Text) /\ file \in Seq(Text)
    BY ListsConfigured, FilesConfigured DEF Lists, Files
  <2>2. NonEmpty(ids) \in Seq(Text) /\ ToSet(NonEmpty(ids)) = ToSet(ids) \ {""}
    BY <2>1, NonEmptyKeeps
  <2>3. /\ c["vault_id"] = IF NonEmpty(ids) # <<>> THEN Copies(NonEmpty(ids), i)
                           ELSE Clean(Locals(ids))
        /\ ids # <<>> => c["vault_password_file"] = <<>>
        /\ ids = <<>> => c["vault_password_file"] = Copies(password, i)
    BY <1>2, SecretsOf
  <2>4. c["inventory_file"] = IF file # <<>> THEN Copies(file, i)
                              ELSE <<RemoteInventory(plays[i], i)>>
    BY <1>2, InventoryOf
  <2> HIDE DEF ids, password, file
  <2>5. c["vault_password_file"] \in Seq(HostPath(i))
    <3>1. Copies(password, i) \in Seq(HostPath(i))
      BY <1>0, <2>1, CopiesAre
    <3> QED
      BY <1>0, <2>3, <3>1
  <2>6. c["inventory_file"] \in Seq(HostPath(i))
    <3>1. Copies(file, i) \in Seq(HostPath(i))
      BY <1>0, <2>1, CopiesAre
    <3>2. RemoteInventory(plays[i], i) \in HostPath(i)
      BY RemoteInventoryIs
    <3>3. <<RemoteInventory(plays[i], i)>> \in Seq(HostPath(i))
      BY <3>2, SingleIs
    <3> QED
      BY <2>4, <3>1, <3>3
  <2>7. CASE NonEmpty(ids) # <<>>
    <3>1. Copies(NonEmpty(ids), i) \in Seq(HostPath(i))
      BY <1>0, <2>2, CopiesAre
    <3>2. c["vault_id"] \in Seq(HostPath(i))
      BY <2>3, <2>7, <3>1
    <3> QED
      BY <2>5, <2>6, <3>2
  <2>8. CASE NonEmpty(ids) = <<>>
    <3>1. ToSet(ids) \subseteq {""}
      <4>1. ToSet(<<>>) = {}
        BY DEF ToSet
      <4> QED
        BY <2>2, <2>8, <4>1
    <3>2. c["vault_id"] = Clean(Locals(ids))
      BY <2>3, <2>8
    <3>3. c["vault_id"] \in Seq({Local(".")})
      BY <2>1, <3>1, <3>2, NamesOfLocals
    <3>4. CASE ids = <<>>
      <4>1. Locals(ids) = <<>>
        BY <2>1, <3>4, LocalsAre
      <4>2. c["vault_id"] = <<>>
        BY <3>2, <4>1 DEF Clean
      <4> QED
        BY <2>5, <2>6, <3>3, <4>2
    <3>5. CASE ids # <<>>
      <4>1. ToSet(ids) # {}
        BY <2>1, <3>5, ElementsIn
      <4>2. ToSet(ids) = {""}
        BY <3>1, <4>1
      <4> QED
        BY <2>5, <2>6, <3>3, <4>2 DEF ids
    <3> QED
      BY <3>4, <3>5
  <2> QED
    BY <2>7, <2>8
<1> QED
  BY <1>1, <1>2

(* The secrets of a command are the elements of its three lists. *)
LEMMA SecretsAre ==
  ASSUME NEW a \in Seq(Path), NEW b \in Seq(Path), NEW d \in Seq(Path)
  PROVE  ToSet(a \o b \o d) = ToSet(a) \cup ToSet(b) \cup ToSet(d)
<1>1. a \o b \in Seq(Path) /\ ToSet(a \o b) = ToSet(a) \cup ToSet(b)
  BY Concatenated
<1> DEFINE ab == a \o b
<1>2. ab \in Seq(Path)
  BY <1>1
<1> HIDE DEF ab
<1>3. ToSet(ab \o d) = ToSet(ab) \cup ToSet(d)
  BY <1>2, Concatenated
<1> QED
  BY <1>1, <1>3 DEF ab

(* The command of a play that was deployed, of any block, names no path of  *)
(* the controller nor the secrets and inventory of another play, and that   *)
(* of any other play no path of the host.                                   *)
THEOREM DeployedNamesHost == Spec => []HostPathsIffDeployed
<1>1. ASSUME SettingsInv PROVE HostPathsIffDeployed
  <2> SUFFICES ASSUME NEW c \in ToSet(commands)
               PROVE  LET secrets == c["vault_id"] \o c["vault_password_file"] \o c["inventory_file"]
                          environment == IF c.entity = "playbook" THEN Len(EnvRoles) ELSE 0
                          uploaded == c.file \o SubSeq(c.roles, environment + 1, Len(c.roles))
                      IN IF WasDeployed(c)
                         THEN /\ \A p \in ToSet(uploaded) : p.at = "host"
                              /\ \A p \in ToSet(secrets) :
                                   \/ p.at = "host" /\ p.play = c.play
                                   \/ p = Local(".") /\ ToSet(Ids(c)) = {""}
                         ELSE \A p \in ToSet(uploaded) \cup ToSet(secrets) : p.at # "host"
    BY DEF HostPathsIffDeployed
  <2>1. PICK i : Runs(i) /\ c = CommandOf(i)
    BY <1>1, CommandRuns
  <2> DEFINE a == c["vault_id"]
             b == c["vault_password_file"]
             d == c["inventory_file"]
             environment == IF c.entity = "playbook" THEN Len(EnvRoles) ELSE 0
             uploaded == c.file \o SubSeq(c.roles, environment + 1, Len(c.roles))
             file == FilePath(UsedFor(i), plays[i])
             roles == RolesPath(UsedFor(i), plays[i])
  <2>2. /\ c.play = i /\ Ids(c) = Conf(i, "vault_id")
        /\ WasDeployed(c) <=> block.remote /\ plays[i].enabled
    BY <2>1, OfCommand
  <2>3. a \in Seq(Path) /\ b \in Seq(Path) /\ d \in Seq(Path)
    BY <2>1, PathsOf
  <2>4. ToSet(a \o b \o d) = ToSet(a) \cup ToSet(b) \cup ToSet(d)
    BY <2>3, SecretsAre
  <2>5. CASE WasDeployed(c)
    <3>1. uploaded \in Seq(HostPath(0))
      <4>1. HostPath(0) \in SUBSET Path
        BY DEF HostPath
      <4>2. file \in Seq(HostPath(0)) /\ roles \in Seq(HostPath(0))
        BY <2>1, <2>2, <2>5, DeployedFiles, DeployedRoles
      <4>3. Clean(roles) = roles
        BY <4>2, CleanOnHost
      <4> QED
        BY <2>1, <4>1, <4>2, <4>3, UploadedOf
    <3>2. /\ \/ a \in Seq(HostPath(i))
             \/ a \in Seq({Local(".")}) /\ (a = <<>> \/ ToSet(Ids(c)) = {""})
          /\ b \in Seq(HostPath(i)) /\ d \in Seq(HostPath(i))
      BY <2>1, <2>2, <2>5, PrivateOf
    <3> HIDE DEF a, b, d, uploaded
    <3>3. ToSet(uploaded) \subseteq HostPath(0)
      BY <3>1, ElementsIn
    <3>4. ToSet(b) \subseteq HostPath(i) /\ ToSet(d) \subseteq HostPath(i)
      BY <3>2, ElementsIn
    <3>5. \/ ToSet(a) \subseteq HostPath(i)
          \/ ToSet(a) \subseteq {Local(".")} /\ ToSet(Ids(c)) = {""}
      <4>1. CASE a \in Seq(HostPath(i))
        BY <4>1, ElementsIn
      <4>2. CASE a \in Seq({Local(".")}) /\ (a = <<>> \/ ToSet(Ids(c)) = {""})
        <5> DEFINE dot == {Local(".")}
        <5>1. a \in Seq(dot)
          BY <4>2
        <5> HIDE DEF dot
        <5>2. ToSet(a) \subseteq dot /\ (ToSet(a) = {} <=> a = <<>>)
          BY <5>1, ElementsIn
        <5> QED
          BY <4>2, <5>2 DEF dot
      <4> QED
        BY <3>2, <4>1, <4>2
    <3>6. \A p \in ToSet(uploaded) : p.at = "host"
      BY <3>3 DEF HostPath
    <3>7. \A p \in HostPath(i) : p.at = "host" /\ p.play = c.play
      BY <2>2 DEF HostPath
    <3>8. \A p \in ToSet(a \o b \o d) :
            \/ p.at = "host" /\ p.play = c.play
            \/ p = Local(".") /\ ToSet(Ids(c)) = {""}
      BY <2>4, <3>4, <3>5, <3>7
    <3> QED
      BY <2>5, <3>6, <3>8 DEF a, b, d, uploaded
  <2>6. CASE ~WasDeployed(c)
    <3>1. uploaded \in Seq(Elsewhere)
      <4>1. Elsewhere \in SUBSET Path
        BY DEF Elsewhere
      <4>2. file \in Seq(Elsewhere) /\ roles \in Seq(Elsewhere)
        BY <2>1, <2>2, <2>6, ConfiguredFiles
      <4>3. Clean(roles) \in Seq(Elsewhere)
        BY <4>2, CleanElsewhere
      <4> QED
        BY <2>1, <4>1, <4>2, <4>3, UploadedOf
    <3>2. a \in Seq(Elsewhere) /\ b \in Seq(Elsewhere) /\ d \in Seq(Elsewhere)
      BY <2>1, <2>2, <2>6, NotDeployedOf
    <3> HIDE DEF a, b, d, uploaded
    <3>3. ToSet(uploaded) \subseteq Elsewhere /\ ToSet(a) \subseteq Elsewhere
          /\ ToSet(b) \subseteq Elsewhere /\ ToSet(d) \subseteq Elsewhere
      BY <3>1, <3>2, ElementsIn
    <3>4. \A p \in Elsewhere : p.at # "host"
      BY DEF Elsewhere
    <3>5. \A p \in ToSet(uploaded) \cup ToSet(a \o b \o d) : p.at # "host"
      BY <2>4, <3>3, <3>4
    <3> QED
      BY <2>6, <3>5 DEF a, b, d, uploaded
  <2> QED
    BY <2>5, <2>6
<1> QED
  BY <1>1, SettingsAlways, PTL

-----------------------------------------------------------------------------
(* Validation *)

(* However a block was validated, panics of the validation included, one    *)
(* that terraform goes on to apply has one entity in every play, and every  *)
(* file, role, inventory and password file that was known then and could be *)
(* looked for was there.                                                    *)
THEOREM OnlyCheckedAccepted == Spec => []AcceptedWasChecked
<1>1. ASSUME CheckedInv PROVE AcceptedWasChecked
  <2> SUFFICES ASSUME Accepted, NEW i \in DOMAIN block.plays
               PROVE  LET b == block.plays[i] IN
                      /\ Cardinality(b.entities) = 1
                      /\ b.known /\ "file" \notin b.unknown =>
                           ToSet(b.file) \cap Missing \subseteq Unchecked
                      /\ b.entities = {"playbook"} /\ "roles" \notin b.unknown =>
                           \A x \in ToSet(b.roles) :
                             ~x.galaxy /\ x.name \in Missing => x.name \in Unchecked
                      /\ \A s \in {"inventory_file", "vault_password_file"} \ b.unknown :
                           ToSet(b.set[s]) \cap Missing \subseteq Unchecked
    BY DEF AcceptedWasChecked, ToSet
  <2> DEFINE b == block.plays[i]
  <2>1. b \in Block /\ ValidPlay(b) /\ PlayErrors(b) = 0
    BY <1>1, BlockPlays DEF CheckedInv, Counting, ValidBySchema
  <2> HIDE DEF b
  <2>2. Cardinality(b.entities) = 1 /\ (b.entities = {"playbook"} => RoleErrors(b) = {})
    BY <2>1, ErrorsCounted
  <2>3. \A n \in Missing : vfPath(n) => n \in Unchecked
    BY DEF vfPath, Absent
  <2>4. b.known /\ "file" \notin b.unknown => ToSet(b.file) \cap Missing \subseteq Unchecked
    BY <2>1, <2>3 DEF ValidPlay
  <2>5. b.entities = {"playbook"} /\ "roles" \notin b.unknown =>
          \A x \in ToSet(b.roles) : ~x.galaxy /\ x.name \in Missing => x.name \in Unchecked
    BY <2>2, <2>3 DEF RoleErrors, ToSet
  <2>6. ASSUME NEW s \in {"inventory_file", "vault_password_file"} \ b.unknown
        PROVE  ToSet(b.set[s]) \cap Missing \subseteq Unchecked
    BY <2>1, <2>3 DEF ValidPlay, ValidValues
  <2> QED
    BY <2>2, <2>4, <2>5, <2>6 DEF b
<1>2. SettingsInv => CheckedInv
  BY DEF SettingsInv
<1> QED
  BY <1>1, <1>2, SettingsAlways, PTL
=============================================================================
