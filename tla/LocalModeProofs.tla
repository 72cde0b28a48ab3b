-------------------------- MODULE LocalModeProofs --------------------------
(***************************************************************************)
(* LocalMode for every value of its constants: type correctness, its       *)
(* safety properties about host keys and private keys, and what becomes of *)
(* a run: its temporary files are there while a command needs them and     *)
(* gone in the end, and its plays are executed as ProvisionRun promises.   *)
(***************************************************************************)
EXTENDS LocalMode, SequenceTheorems, TLAPS

Early == {"idle", "new", "validate", "bastionPem", "targetPem"}
Scanning == {"scanDir", "scan", "scanWait", "scanRead"}
Acquiring == {"bastion", "keys", "fetch", "fetchWait"} \cup Scanning
Keyed == {"knownBastion", "knownTarget", "play", "running"}
AtWork == Early \cup Acquiring \cup Keyed

(* Where cur can stand, and what is decided by the time of each operation.  *)
Control ==
  /\ cur >= 1
  /\ pc = "running" => cur \in DOMAIN plays
  /\ pc \in AtWork \ {"idle", "new"} => KeysParse
  /\ pc \in {"bastion"} \cup Scanning => conn.bastion
  /\ pc \in {"fetch", "fetchWait"} => ~conn.bastion

TypeInv == TypeOK /\ Control

-----------------------------------------------------------------------------
(* The list of plays, as a sequence. *)
LEMMA PlayFacts ==
  ASSUME plays \in Playlists
  PROVE  /\ plays \in Seq(Play) /\ Len(plays) \in Nat /\ DOMAIN plays \subseteq Index
         /\ \A i \in DOMAIN plays : plays[i] \in Play
BY LocalAssumption

(* Of a stack that is not empty: what is under its top, and its top. *)
LEMMA FrontFacts ==
  ASSUME NEW S, NEW s \in Seq(S), s # <<>>
  PROVE  /\ Len(s) \in Nat \ {0} /\ Last(s) = s[Len(s)] /\ Last(s) \in S
         /\ Front(s) \in Seq(S) /\ Len(Front(s)) = Len(s) - 1
         /\ \A i \in 1 .. Len(s) - 1 : Front(s)[i] = s[i]
<1>1. Len(s) \in Nat \ {0}
  BY EmptySeq
<1>2. \A i \in 1 .. Len(s) : s[i] \in S
  BY ElementOfSeq
<1> DEFINE n == Len(s) - 1
<1>3. n \in Int /\ \A i \in 1 .. n : s[i] \in S
  BY <1>1, <1>2
<1>4. /\ SubSeq(s, 1, n) \in Seq(S)
      /\ Len(SubSeq(s, 1, n)) = IF 1 <= n THEN n - 1 + 1 ELSE 0
      /\ \A i \in 1 .. n - 1 + 1 : SubSeq(s, 1, n)[i] = s[1 + i - 1]
  <2> HIDE DEF n
  <2>1. 1 \in Int
    OBVIOUS
  <2> QED
    BY <1>3, <2>1, SubSeqProperties, SMT
<1>5. n \in Nat
  BY <1>1
<1>6. Len(SubSeq(s, 1, n)) = n /\ \A i \in 1 .. n : SubSeq(s, 1, n)[i] = s[i]
  <2> HIDE DEF n
  <2>1. n - 1 + 1 = n /\ \A i \in 1 .. n : 1 + i - 1 = i
    BY <1>5
  <2>2. \A i \in 1 .. n : SubSeq(s, 1, n)[i] = s[i]
    BY <1>4, <2>1
  <2> QED
    BY <1>4, <1>5, <2>1, <2>2
<1> QED
  BY <1>1, <1>2, <1>4, <1>6 DEF Front, Last

(* What a dial can bring, by its outcome and what was known before it. *)
LEMMA DialFacts ==
  ASSUME NEW known \in Keys \cup {NoKey}, NEW s \in Server, NEW c \in Client,
         NEW d \in Dial(known, s, c)
  PROVE  /\ d.result \in {"ok", "error", "panic"} /\ d.key \in Keys \cup {NoKey}
         /\ known \in Keys => d.key = known
         /\ d.key # known \/ d.result # "error" => d.key \in Keys
         /\ d.result = "panic" => c.pem = "bad" \/ c.agent = "dead"
BY KeyAssumption DEF Dial, Server, Client, Pem

(* What the connection block gives the two clients. *)
LEMMA ClientFacts ==
  ASSUME TypeInv
  PROVE  /\ conn \in Connection
         /\ bastionClient \in Client /\ bastionClient.pem = bastionPrivateKey
         /\ bastionClient.agent = sshAgent
         /\ targetClient \in Client
BY LocalAssumption DEF TypeInv, TypeOK, Connection, bastionClient, targetClient, bastionPrivateKey,
   sshAgent, Client, Pem

(* A file made, or not: what becomes of the variables of files. *)
LEMMA FilesType ==
  ASSUME TypeInv, NEW kind \in Kinds, NEW i \in Nat,
         NEW f, f = [kind |-> kind, play |-> i], NEW next \in Labels,
         Created(f, next) \/ NotCreated(f)
  PROVE  /\ f \in File
         /\ files' \subseteq File /\ deferred' \in Seq(File) /\ leaked' \subseteq File
         /\ faults' \in Nat /\ pc' \in {next, "unwind"}
         /\ outcome' \in {"none", "ok", "error", "panic"}
<1>1. f \in File
  BY DEF File
<1>2. CASE Created(f, next)
  BY <1>1, <1>2 DEF Created, Goto, TypeInv, TypeOK
<1>3. CASE NotCreated(f)
  BY <1>1, <1>3 DEF NotCreated, Fault, Return, TypeInv, TypeOK
<1> QED
  BY <1>1, <1>2, <1>3

(* The paths of the command line after a file is made. *)
LEMMA ArgsType ==
  ASSUME TypeInv, NEW kind \in Kinds, NEW f, f = Temp(kind),
         \/ args' = args
         \/ args' = [args EXCEPT !.targetPem = f]
         \/ args' = [args EXCEPT !.bastionPem = f]
         \/ args' = [args EXCEPT !.targetHosts = f]
         \/ args' = [args EXCEPT !.bastionHosts = f]
  PROVE  args' \in [targetPem : File, bastionPem : File, targetHosts : File, bastionHosts : File]
<1>1. args \in [targetPem : File, bastionPem : File, targetHosts : File, bastionHosts : File]
  BY DEF TypeInv, TypeOK
<1>2. f \in File
  BY DEF Temp, File
<1> QED
  BY <1>1, <1>2

(* TypeInv, group by group of the actions. *)
LEMMA PrepareType ==
  ASSUME TypeInv, Prepare
  PROVE  TypeInv'
<1> USE DEF config, keyVars, hostVars
<1>1. CASE Start
  BY <1>1 DEF Start, Goto, fileVars, TypeInv, TypeOK, Control, Labels, AtWork, Early, Acquiring,
     Keyed, Scanning
<1>2. CASE NewLocalMode
  BY <1>2 DEF NewLocalMode, Fault, Goto, Return, fileVars, TypeInv, TypeOK, Control, Labels,
     AtWork, Early, Acquiring, Keyed, Scanning, KeysParse
<1>3. CASE Validate
  BY <1>3 DEF Validate, Goto, Return, fileVars, TypeInv, TypeOK, Control, Labels, AtWork, Early,
     Acquiring, Keyed, Scanning, KeysParse
<1>4. CASE WriteBastionPem
  <2>1. UNCHANGED <<config, cur, keyVars, hostVars, ran, inventory>> /\ pc = "bastionPem"
    BY <1>4 DEF WriteBastionPem, fileVars, NotCreated
  <2>2. /\ files' \subseteq File /\ deferred' \in Seq(File) /\ leaked' \subseteq File
        /\ faults' \in Nat /\ pc' \in {"targetPem", "unwind"}
        /\ outcome' \in {"none", "ok", "error", "panic"}
    BY <1>4, FilesType DEF WriteBastionPem, Goto, fileVars, TypeInv, TypeOK, Temp, Kinds, Labels
  <2>3. args' = args \/ args' = [args EXCEPT !.bastionPem = Temp("bastionPem")]
    BY <1>4 DEF WriteBastionPem, fileVars, NotCreated
  <2>4. args' \in [targetPem : File, bastionPem : File, targetHosts : File, bastionHosts : File]
    BY <2>3, ArgsType DEF Kinds
  <2> QED
    BY <2>1, <2>2, <2>4 DEF TypeInv, TypeOK, Control, Labels, AtWork, Early, Acquiring, Keyed,
       Scanning, KeysParse
<1>5. CASE WriteTargetPem
  <2>1. UNCHANGED <<config, cur, keyVars, hostVars, ran, inventory>> /\ pc = "targetPem"
    BY <1>5 DEF WriteTargetPem, fileVars, NotCreated
  <2>2. /\ files' \subseteq File /\ deferred' \in Seq(File) /\ leaked' \subseteq File
        /\ faults' \in Nat /\ pc' \in {IF conn.bastion THEN "bastion" ELSE "keys", "unwind"}
        /\ outcome' \in {"none", "ok", "error", "panic"}
    BY <1>5, FilesType DEF WriteTargetPem, Goto, fileVars, TypeInv, TypeOK, Temp, Kinds, Labels
  <2>3. args' = args \/ args' = [args EXCEPT !.targetPem = Temp("targetPem")]
    BY <1>5 DEF WriteTargetPem, fileVars, NotCreated
  <2>4. args' \in [targetPem : File, bastionPem : File, targetHosts : File, bastionHosts : File]
    BY <2>3, ArgsType DEF Kinds
  <2> QED
    BY <2>1, <2>2, <2>4 DEF TypeInv, TypeOK, Control, Labels, AtWork, Early, Acquiring, Keyed,
       Scanning, KeysParse
<1> QED
  BY <1>1, <1>2, <1>3, <1>4, <1>5 DEF Prepare

(* The entries written when the ways to the keys meet again. *)
LEMMA EntriesType ==
  ASSUME TypeInv, NEW known \in Seq(Keys \cup {NoKey}), KeysKnown(known)
  PROVE  /\ entries' \in [target : Seq(Keys \cup {NoKey}), bastion : Seq(Keys \cup {NoKey})]
         /\ pc' = "knownBastion" /\ outcome' = outcome
<1>1. <<bastionKey>> \in Seq(Keys \cup {NoKey}) /\ <<>> \in Seq(Keys \cup {NoKey})
  BY DEF TypeInv, TypeOK
<1>2. (IF conn.bastion THEN <<bastionKey>> ELSE <<>>) \in Seq(Keys \cup {NoKey})
  <2>1. CASE conn.bastion
    BY <1>1, <2>1
  <2>2. CASE ~conn.bastion
    BY <1>1, <2>2
  <2> QED
    BY <2>1, <2>2
<1> QED
  BY <1>2 DEF KeysKnown, Goto

(* The two sleeps. *)
LEMMA WaitType ==
  ASSUME TypeInv, NEW here, NEW back, Wait(here, back),
         \/ here = "fetchWait" /\ back = "fetch"
         \/ here = "scanWait" /\ back = "scan"
  PROVE  TypeInv'
<1>1. spentMs' \in Nat
  BY LocalAssumption DEF Wait, intervalMs, TypeInv, TypeOK
<1>2. pc' \in {back, "unwind"} /\ outcome' \in {outcome, "error"} /\ pc = here
  BY DEF Wait, Goto, Return
<1> QED
  BY <1>1, <1>2 DEF Wait, config, fileVars, hostVars, TypeInv, TypeOK, Control, Labels,
     AtWork, Early, Acquiring, Keyed, Scanning, KeysParse

(* The operations that find the host keys. *)
LEMMA AcquireType ==
  ASSUME TypeInv, AcquireKeys
  PROVE  TypeInv'
<1> USE DEF config, fileVars, keyVars, hostVars
<1>a. ConnectBastion => TypeInv'
  <2> SUFFICES ASSUME ConnectBastion PROVE TypeInv'
    OBVIOUS
  <2>1. bastionKey \in Keys \cup {NoKey} /\ bastionClient \in Client
    BY ClientFacts DEF TypeInv, TypeOK
  <2>2. PICK s \in Server : \E d \in Dial(bastionKey, s, bastionClient) :
          bastionKey' = d.key /\ IF d.result = "ok" THEN Goto("keys") ELSE Return(d.result)
    BY DEF ConnectBastion
  <2>3. PICK d \in Dial(bastionKey, s, bastionClient) :
          bastionKey' = d.key /\ IF d.result = "ok" THEN Goto("keys") ELSE Return(d.result)
    BY <2>2
  <2>4. d.result \in {"ok", "error", "panic"} /\ d.key \in Keys \cup {NoKey}
    BY <2>1, <2>2, <2>3, DialFacts
  <2>5. /\ bastionKey' \in Keys \cup {NoKey} /\ pc' \in {"keys", "unwind"}
        /\ outcome' \in {"none", "ok", "error", "panic"}
    BY <2>3, <2>4 DEF Goto, Return, TypeInv, TypeOK
  <2> QED
    BY <2>5 DEF ConnectBastion, TypeInv, TypeOK, Control, Labels, AtWork, Early, Acquiring,
       Keyed, Scanning, KeysParse
<1>b. TargetKeyGiven => TypeInv'
  <2> SUFFICES ASSUME TargetKeyGiven PROVE TypeInv'
    OBVIOUS
  <2>1. (IF needsKey THEN <<hostKey>> ELSE <<>>) \in Seq(Keys \cup {NoKey})
    <3>1. <<hostKey>> \in Seq(Keys \cup {NoKey}) /\ <<>> \in Seq(Keys \cup {NoKey})
      BY DEF TypeInv, TypeOK
    <3>2. CASE needsKey
      BY <3>1, <3>2
    <3>3. CASE ~needsKey
      BY <3>1, <3>3
    <3> QED
      BY <3>2, <3>3
  <2>2. /\ entries' \in [target : Seq(Keys \cup {NoKey}), bastion : Seq(Keys \cup {NoKey})]
        /\ pc' = "knownBastion" /\ outcome' = outcome
    BY <2>1, EntriesType DEF TargetKeyGiven
  <2> QED
    BY <2>2 DEF TargetKeyGiven, TypeInv, TypeOK, Control, Labels, AtWork, Early, Acquiring,
       Keyed, Scanning, KeysParse
<1>c. TargetKeyWanted => TypeInv'
  BY DEF TargetKeyWanted, Goto, TypeInv, TypeOK, Control, Labels, AtWork, Early, Acquiring,
     Keyed, Scanning, KeysParse
<1>d. Fetch => TypeInv'
  <2> SUFFICES ASSUME Fetch PROVE TypeInv'
    OBVIOUS
  <2>1. hostKey \in Keys \cup {NoKey} /\ targetClient \in Client /\ target \in Server
        /\ shown \in Seq(Keys)
    BY ClientFacts DEF TypeInv, TypeOK
  <2>2. PICK d \in Dial(hostKey, target, targetClient) :
          /\ hostKey' = d.key
          /\ shown' = IF d.key # hostKey \/ d.result # "error" THEN Append(shown, d.key)
                                                               ELSE shown
          /\ \/ d.result = "error" /\ Goto("fetchWait") /\ UNCHANGED entries
             \/ d.result # "error" /\ KeysKnown(<<d.key>>)
    BY DEF Fetch
  <2>3. /\ d.key \in Keys \cup {NoKey}
        /\ d.key # hostKey \/ d.result # "error" => d.key \in Keys
    BY <2>1, <2>2, DialFacts
  <2>4. shown' \in Seq(Keys) /\ hostKey' \in Keys \cup {NoKey}
    BY <2>1, <2>2, <2>3
  <2>5. <<d.key>> \in Seq(Keys \cup {NoKey})
    BY <2>3
  <2>6. /\ entries' \in [target : Seq(Keys \cup {NoKey}), bastion : Seq(Keys \cup {NoKey})]
        /\ pc' \in {"fetchWait", "knownBastion"} /\ outcome' = outcome
    <3>1. CASE d.result = "error"
      BY <2>2, <3>1 DEF Goto, TypeInv, TypeOK
    <3>2. CASE d.result # "error"
      BY <2>2, <2>5, <3>2, EntriesType
    <3> QED
      BY <3>1, <3>2
  <2>7. pc = "fetch" /\ UNCHANGED <<config, cur, fileVars, bastionKey, scanned, spentMs, hostVars,
                                    faults, ran>>
    BY DEF Fetch
  <2> QED
    BY <2>4, <2>6, <2>7 DEF TypeInv, TypeOK, Control, Labels, AtWork, Early, Acquiring,
       Keyed, Scanning, KeysParse
<1>e. FetchWait \/ ScanWait => TypeInv'
  BY WaitType DEF FetchWait, ScanWait
<1>f. ScanDir => TypeInv'
  BY DEF ScanDir, Goto, Return, Fault, TypeInv, TypeOK, Control, Labels, AtWork, Early,
     Acquiring, Keyed, Scanning, KeysParse
<1>g. Scan => TypeInv'
  <2> SUFFICES ASSUME Scan PROVE TypeInv'
    OBVIOUS
  <2>1. scanned' \in Keys \cup {NoKey} /\ pc' \in {"scanRead", "scanWait"} /\ outcome' = outcome
    BY DEF Scan, Goto, TypeInv, TypeOK, Server
  <2> QED
    BY <2>1 DEF Scan, TypeInv, TypeOK, Control, Labels, AtWork, Early, Acquiring,
       Keyed, Scanning, KeysParse
<1>h. ScanRead => TypeInv'
  <2> SUFFICES ASSUME ScanRead PROVE TypeInv'
    OBVIOUS
  <2>1. <<scanned>> \in Seq(Keys \cup {NoKey}) /\ <<NoKey>> \in Seq(Keys \cup {NoKey})
    BY DEF TypeInv, TypeOK
  <2>2. /\ entries' \in [target : Seq(Keys \cup {NoKey}), bastion : Seq(Keys \cup {NoKey})]
        /\ pc' \in {"knownBastion", "unwind"} /\ outcome' \in {outcome, "error"}
        /\ faults' \in Nat
    <3>0. /\ entries \in [target : Seq(Keys \cup {NoKey}), bastion : Seq(Keys \cup {NoKey})]
          /\ faults \in Nat
      BY DEF TypeInv, TypeOK
    <3>1. CASE KeysKnown(<<scanned>>) /\ UNCHANGED faults
      BY <2>1, <3>0, <3>1, EntriesType
    <3>2. CASE Fault /\ Return("error") /\ UNCHANGED entries
      BY <3>0, <3>2 DEF Fault, Return
    <3>3. CASE Fault /\ KeysKnown(<<NoKey>>)
      <4>1. faults' \in Nat
        BY <3>0, <3>3 DEF Fault
      <4>2. /\ entries' \in [target : Seq(Keys \cup {NoKey}), bastion : Seq(Keys \cup {NoKey})]
            /\ pc' = "knownBastion" /\ outcome' = outcome
        BY <2>1, <3>3, EntriesType
      <4> QED
        BY <4>1, <4>2
    <3> QED
      BY <3>1, <3>2, <3>3 DEF ScanRead
  <2> QED
    BY <2>2 DEF ScanRead, TypeInv, TypeOK, Control, Labels, AtWork, Early, Acquiring,
       Keyed, Scanning, KeysParse
<1> QED
  BY <1>a, <1>b, <1>c, <1>d, <1>e, <1>f, <1>g, <1>h DEF AcquireKeys

(* The operations from the known_hosts files to the result. *)
LEMMA ProvisionType ==
  ASSUME TypeInv, Provision
  PROVE  TypeInv'
<1> USE DEF config, keyVars, hostVars
<1> DEFINE ArgPaths == [targetPem : File, bastionPem : File,
                        targetHosts : File, bastionHosts : File]
<1>a. WriteBastionHosts => TypeInv'
  <2> SUFFICES ASSUME WriteBastionHosts PROVE TypeInv'
    OBVIOUS
  <2>1. UNCHANGED <<config, cur, keyVars, hostVars, ran, inventory>> /\ pc = "knownBastion"
    BY DEF WriteBastionHosts, NotCreated
  <2>2. /\ files' \subseteq File /\ deferred' \in Seq(File) /\ leaked' \subseteq File
        /\ faults' \in Nat /\ pc' \in {"knownTarget", "unwind"}
        /\ outcome' \in {"none", "ok", "error", "panic"}
    BY FilesType DEF WriteBastionHosts, Temp, Kinds, Labels
  <2>3. args' = args \/ args' = [args EXCEPT !.bastionHosts = Temp("bastionHosts")]
    BY DEF WriteBastionHosts, NotCreated
  <2>4. args' \in ArgPaths
    BY <2>3, ArgsType DEF Kinds
  <2> QED
    BY <2>1, <2>2, <2>4 DEF TypeInv, TypeOK, Control, Labels, AtWork, Early, Acquiring,
       Keyed, Scanning, KeysParse
<1>b. WriteTargetHosts => TypeInv'
  <2> SUFFICES ASSUME WriteTargetHosts PROVE TypeInv'
    OBVIOUS
  <2>1. UNCHANGED <<config, cur, keyVars, hostVars, ran, inventory>> /\ pc = "knownTarget"
    BY DEF WriteTargetHosts, NotCreated
  <2>2. /\ files' \subseteq File /\ deferred' \in Seq(File) /\ leaked' \subseteq File
        /\ faults' \in Nat /\ pc' \in {"play", "unwind"}
        /\ outcome' \in {"none", "ok", "error", "panic"}
    BY FilesType DEF WriteTargetHosts, Temp, Kinds, Labels
  <2>3. args' = args \/ args' = [args EXCEPT !.targetHosts = Temp("targetHosts")]
    BY DEF WriteTargetHosts, NotCreated
  <2>4. args' \in ArgPaths
    BY <2>3, ArgsType DEF Kinds
  <2> QED
    BY <2>1, <2>2, <2>4 DEF TypeInv, TypeOK, Control, Labels, AtWork, Early, Acquiring,
       Keyed, Scanning, KeysParse
<1>c. SkipDisabled => TypeInv'
  BY DEF SkipDisabled, fileVars, TypeInv, TypeOK, Control, Labels, AtWork, Early, Acquiring,
     Keyed, Scanning, KeysParse
<1>d. ExecutePlay => TypeInv'
  <2> SUFFICES ASSUME ExecutePlay PROVE TypeInv'
    OBVIOUS
  <2> DEFINE made == [kind |-> "inventory", play |-> cur]
  <2>1. /\ UNCHANGED <<config, cur, keyVars, hostVars, ran, args>> /\ pc = "play"
        /\ cur \in DOMAIN plays /\ made \in File
    BY PlayFacts DEF ExecutePlay, fileVars, NotCreated, TypeInv, TypeOK, Control, File, Kinds
  <2>2. CASE inventory[cur] # NoFile /\ Goto("running") /\ UNCHANGED <<fileVars, faults>>
    BY <2>1, <2>2 DEF fileVars, Goto, TypeInv, TypeOK, Control, Labels, AtWork, Early,
       Acquiring, Keyed, Scanning, KeysParse
  <2>3. CASE Created(made, "running") /\ inventory' = [inventory EXCEPT ![cur] = made]
    <3>1. /\ files' \subseteq File /\ deferred' \in Seq(File) /\ leaked' \subseteq File
          /\ faults' \in Nat /\ pc' \in {"running", "unwind"}
          /\ outcome' \in {"none", "ok", "error", "panic"}
      BY <2>3, FilesType DEF TypeInv, TypeOK, Kinds, Labels
    <3>2. inventory' \in [Index -> File]
      BY <2>1, <2>3 DEF TypeInv, TypeOK
    <3> QED
      BY <2>1, <3>1, <3>2 DEF TypeInv, TypeOK, Control, Labels, AtWork, Early,
         Acquiring, Keyed, Scanning, KeysParse
  <2>4. CASE NotCreated(made)
    <3>1. /\ files' \subseteq File /\ deferred' \in Seq(File) /\ leaked' \subseteq File
          /\ faults' \in Nat /\ pc' \in {"running", "unwind"}
          /\ outcome' \in {"none", "ok", "error", "panic"} /\ inventory' = inventory
      BY <2>4, FilesType DEF TypeInv, TypeOK, Kinds, Labels, NotCreated
    <3> QED
      BY <2>1, <3>1 DEF TypeInv, TypeOK, Control, Labels, AtWork, Early,
         Acquiring, Keyed, Scanning, KeysParse
  <2> QED
    BY <2>2, <2>3, <2>4 DEF ExecutePlay
<1>e. PlayEnds => TypeInv'
  <2> SUFFICES ASSUME PlayEnds PROVE TypeInv'
    OBVIOUS
  <2>1. cur \in Index /\ cur + 1 \in Nat /\ cur + 1 >= 1
    BY PlayFacts DEF PlayEnds, TypeInv, TypeOK, Control, Index
  <2>2. /\ cur' \in {cur, cur + 1} /\ ran' \subseteq Index /\ faults' \in Nat
        /\ pc' \in {"play", "unwind"} /\ outcome' \in {outcome, "error"}
    <3>1. ran \subseteq Index /\ faults \in Nat
      BY DEF TypeInv, TypeOK
    <3>2. CASE Goto("play") /\ cur' = cur + 1 /\ ran' = ran \cup {cur} /\ UNCHANGED faults
      BY <2>1, <3>1, <3>2 DEF Goto
    <3>3. CASE Fault /\ Return("error") /\ UNCHANGED <<cur, ran>>
      BY <3>1, <3>3 DEF Fault, Return
    <3> QED
      BY <3>2, <3>3 DEF PlayEnds
  <2>3. pc = "running" /\ UNCHANGED <<config, fileVars, keyVars, hostVars>>
    BY DEF PlayEnds
  <2>4. TypeOK'
    BY <2>1, <2>2, <2>3 DEF fileVars, TypeInv, TypeOK, Labels
  <2>5. Control'
    BY <2>1, <2>2, <2>3 DEF TypeInv, Control, AtWork, Early, Acquiring, Keyed, Scanning, KeysParse
  <2> QED
    BY <2>4, <2>5 DEF TypeInv
<1>f. PlaysDone => TypeInv'
  BY DEF PlaysDone, Return, fileVars, TypeInv, TypeOK, Control, Labels, AtWork, Early,
     Acquiring, Keyed, Scanning, KeysParse
<1>g. Unwind => TypeInv'
  <2> SUFFICES ASSUME Unwind PROVE TypeInv'
    OBVIOUS
  <2>1. files' \subseteq File /\ deferred' \in Seq(File) /\ pc' \in {"unwind", "done", "failed"}
    <3>1. files' \subseteq files /\ pc' \in {"unwind", "done", "failed"}
      BY DEF Unwind
    <3>2. CASE deferred # <<>> /\ deferred' = Front(deferred)
      BY <3>1, <3>2, FrontFacts DEF TypeInv, TypeOK
    <3>3. CASE deferred' = deferred
      BY <3>1, <3>3 DEF TypeInv, TypeOK
    <3> QED
      BY <3>1, <3>2, <3>3 DEF Unwind, TypeInv, TypeOK
  <2> QED
    BY <2>1 DEF Unwind, TypeInv, TypeOK, Control, Labels, AtWork, Early, Acquiring, Keyed,
       Scanning, KeysParse
<1> QED
  BY <1>a, <1>b, <1>c, <1>d, <1>e, <1>f, <1>g DEF Provision

(* The steps of the target and of the bastion. *)
LEMMA TargetType ==
  ASSUME TypeInv, Boot \/ Rekey \/ Stall
  PROVE  TypeInv'
<1> USE DEF config, fileVars, keyVars
<1>1. CASE Boot
  <2>1. target' \in Server
    BY <1>1 DEF Boot, TypeInv, TypeOK, Server
  <2> QED
    BY <1>1, <2>1 DEF Boot, TypeInv, TypeOK, Control, Labels, AtWork, Early, Acquiring, Keyed,
       Scanning, KeysParse
<1>2. CASE Rekey
  <2>1. target' \in Server
    BY <1>2 DEF Rekey, TypeInv, TypeOK, Server
  <2> QED
    BY <1>2, <2>1 DEF Rekey, TypeInv, TypeOK, Control, Labels, AtWork, Early, Acquiring, Keyed,
       Scanning, KeysParse
<1>3. CASE Stall
  BY <1>3 DEF Stall, TypeInv, TypeOK, Control, Labels, AtWork, Early, Acquiring, Keyed, Scanning,
     KeysParse
<1> QED
  BY <1>1, <1>2, <1>3

(* It holds at first. *)
LEMMA InitType == ASSUME Init PROVE TypeInv
<1>1. conn \in Connection
  BY LocalAssumption DEF Init
<1>2. files \subseteq File
  BY PlayFacts DEF Init, Provided, File, Kinds, Index
<1>3. inventory \in [Index -> File]
  BY DEF Init, Provided, NoFile, Temp, File, Kinds, Index
<1>4. args \in [targetPem : File, bastionPem : File, targetHosts : File, bastionHosts : File]
  BY DEF Init, NoFile, Temp, File, Kinds
<1>5. entries \in [target : Seq(Keys \cup {NoKey}), bastion : Seq(Keys \cup {NoKey})]
  BY DEF Init
<1>6. hostKey \in Keys \cup {NoKey} /\ bastionKey \in Keys \cup {NoKey}
  BY <1>1 DEF Init, Connection
<1>7. deferred \in Seq(File) /\ shown \in Seq(Keys)
  BY DEF Init
<1>8. TypeOK
  BY <1>2, <1>3, <1>4, <1>5, <1>6, <1>7 DEF Init, TypeOK, Labels
<1>9. Control
  BY DEF Init, Control, AtWork, Early, Acquiring, Keyed, Scanning
<1> QED
  BY <1>8, <1>9 DEF TypeInv

(* It depends on the variables alone. *)
LEMMA StutterType == ASSUME TypeInv, UNCHANGED vars PROVE TypeInv'
BY DEF TypeInv, TypeOK, Control, vars, config, keyVars, fileVars, hostVars, AtWork, Early,
   Acquiring, Keyed, Scanning, KeysParse

(* Every step preserves it. *)
LEMMA TypeInductive == ASSUME TypeInv, [Next]_vars PROVE TypeInv'
BY PrepareType, AcquireType, ProvisionType, TargetType, StutterType DEF Next, Step

(* The inductive invariant holds in every state. *)
LEMMA TypeAlways == Spec => []TypeInv
<1>1. Init => TypeInv
  BY InitType
<1>2. TypeInv /\ [Next]_vars => TypeInv'
  BY TypeInductive
<1> QED
  BY <1>1, <1>2, PTL DEF Spec

(* Every variable of a local run keeps its type, whatever it is given. *)
THEOREM TypeCorrect == Spec => []TypeOK
<1>1. TypeInv => TypeOK
  BY DEF TypeInv
<1> QED
  BY <1>1, TypeAlways, PTL

-----------------------------------------------------------------------------
(* Host keys.  What Run knows of keys at each operation, and for a target   *)
(* that fetchHostKey is sent to, that it never showed but one key: the      *)
(* first is known from then on, and a dial that meets another one fails     *)
(* before it is recorded.  A key that was given is never replaced, and no   *)
(* other is then asked for.                                                 *)
TargetKeys ==
  IF conn.hostKey # NoKey THEN {conn.hostKey}
  ELSE IF conn.bastion THEN Keys \cup {NoKey} ELSE Keys
BastionKeys == IF conn.bastionHostKey # NoKey THEN {conn.bastionHostKey} ELSE Keys

GivenKept ==
  /\ conn.hostKey # NoKey =>
       hostKey = conn.hostKey /\ pc \notin {"fetch", "fetchWait"} \cup Scanning
  /\ conn.bastionHostKey # NoKey => bastionKey = conn.bastionHostKey
NotYet == pc \in Early \cup Acquiring => entries.target = <<>>
BastionKeyKnown == conn.bastion /\ pc \in Acquiring \ {"bastion"} => bastionKey \in BastionKeys
ScannedKnown == pc = "scanRead" => scanned \in Keys
EntriesKnown ==
  pc \in Keyed =>
    /\ needsKey => \E k \in TargetKeys : entries.target = <<k>>
    /\ conn.bastion => \E k \in BastionKeys : entries.bastion = <<k>>
OneKeyShown ==
  conn.hostKey = NoKey /\ ~conn.bastion =>
    /\ \A i \in DOMAIN shown : shown[i] = hostKey
    /\ shown = <<>> <=> hostKey = NoKey
    /\ entries.target # <<>> => entries.target = <<hostKey>> /\ hostKey # NoKey
KeyInv ==
  GivenKept /\ NotYet /\ BastionKeyKnown /\ ScannedKnown /\ EntriesKnown /\ OneKeyShown

(* Where the operations that leave the keys alone can lead. *)
Onward ==
  \/ pc' = pc
  \/ pc' \in {"unwind", "done", "failed"}
  \/ pc \in Early /\ pc' \in Early
  \/ pc = "targetPem" /\ pc' = (IF conn.bastion THEN "bastion" ELSE "keys")
  \/ pc = "keys" /\ hostKey = NoKey /\ pc' \in {"scanDir", "fetch"}
  \/ pc \in Keyed /\ pc' \in Keyed

(* A step that leaves the keys alone preserves what is known of them. *)
LEMMA QuietKeys ==
  ASSUME TypeInv, KeyInv, UNCHANGED <<config, keyVars>>, Onward
  PROVE  KeyInv'
<1> USE DEF config, keyVars, Early, Acquiring, Scanning, Keyed
<1>1. NotYet' /\ ScannedKnown'
  BY DEF KeyInv, NotYet, ScannedKnown, Onward
<1>2. BastionKeyKnown'
  BY DEF KeyInv, BastionKeyKnown, BastionKeys, Onward
<1>3. EntriesKnown'
  BY DEF KeyInv, EntriesKnown, TargetKeys, BastionKeys, Onward, needsKey, insecure
<1>4. OneKeyShown'
  BY DEF KeyInv, OneKeyShown
<1>5. GivenKept'
  BY DEF KeyInv, GivenKept, Onward
<1> QED
  BY <1>1, <1>2, <1>3, <1>4, <1>5 DEF KeyInv

(* No operation before the keys are asked for touches them. *)
LEMMA PrepareKeys ==
  ASSUME TypeInv, KeyInv, Prepare
  PROVE  KeyInv'
<1> USE DEF Goto, Return, Created, NotCreated, Early
<1>1. UNCHANGED <<config, keyVars>>
  BY DEF Prepare, Start, NewLocalMode, Validate, WriteBastionPem, WriteTargetPem
<1>2. Onward
  BY DEF Prepare, Start, NewLocalMode, Validate, WriteBastionPem, WriteTargetPem, Onward
<1> QED
  BY <1>1, <1>2, QuietKeys

(* No operation after that touches them. *)
LEMMA ProvisionKeys ==
  ASSUME TypeInv, KeyInv, Provision
  PROVE  KeyInv'
<1> USE DEF Goto, Return, Created, NotCreated, Keyed
<1>1. UNCHANGED <<config, keyVars>>
  BY DEF Provision, WriteBastionHosts, WriteTargetHosts, SkipDisabled, ExecutePlay, PlayEnds,
     PlaysDone, Unwind
<1>2. Onward
  BY DEF Provision, WriteBastionHosts, WriteTargetHosts, SkipDisabled, ExecutePlay, PlayEnds,
     PlaysDone, Unwind, Onward
<1> QED
  BY <1>1, <1>2, QuietKeys

(* What KeysKnown writes when the key it is given is the right one. *)
LEMMA KeysKnownKeys ==
  ASSUME TypeInv, KeyInv, UNCHANGED config, NEW known, KeysKnown(known),
         pc \in Acquiring \ {"bastion"}, UNCHANGED bastionKey,
         conn.hostKey # NoKey => hostKey' = hostKey,
         needsKey => \E k \in TargetKeys : known = <<k>>
  PROVE  /\ GivenKept' /\ NotYet' /\ BastionKeyKnown' /\ ScannedKnown' /\ EntriesKnown'
         /\ entries'.target = known
<1> USE DEF config, Early, Acquiring, Scanning, Keyed
<1>1. /\ pc' = "knownBastion" /\ entries'.target = known
      /\ conn.bastion => entries'.bastion = <<bastionKey>> /\ bastionKey \in BastionKeys
  BY DEF KeysKnown, Goto, KeyInv, BastionKeyKnown
<1>2. TargetKeys' = TargetKeys /\ BastionKeys' = BastionKeys
  BY DEF TargetKeys, BastionKeys
<1>3. GivenKept'
  BY <1>1 DEF KeyInv, GivenKept
<1> QED
  BY <1>1, <1>2, <1>3 DEF NotYet, BastionKeyKnown, ScannedKnown, EntriesKnown, needsKey, insecure

(* The operations that find them. *)
LEMMA AcquireKeysKnown ==
  ASSUME TypeInv, KeyInv, AcquireKeys
  PROVE  KeyInv'
<1> USE DEF config, Early, Acquiring, Scanning, Keyed
<1>a. ConnectBastion => KeyInv'
  <2> SUFFICES ASSUME ConnectBastion PROVE KeyInv'
    OBVIOUS
  <2>1. bastionKey \in Keys \cup {NoKey} /\ bastionClient \in Client
    BY ClientFacts DEF TypeInv, TypeOK
  <2>2. PICK s \in Server : \E d \in Dial(bastionKey, s, bastionClient) :
          bastionKey' = d.key /\ IF d.result = "ok" THEN Goto("keys") ELSE Return(d.result)
    BY DEF ConnectBastion
  <2>3. PICK d \in Dial(bastionKey, s, bastionClient) :
          bastionKey' = d.key /\ IF d.result = "ok" THEN Goto("keys") ELSE Return(d.result)
    BY <2>2
  <2>4. /\ d.result \in {"ok", "error", "panic"} /\ (d.result # "error" => d.key \in Keys)
        /\ bastionKey \in Keys => d.key = bastionKey
    BY <2>1, <2>2, <2>3, DialFacts
  <2>5. pc = "bastion" /\ (pc' = "unwind" \/ (pc' = "keys" /\ bastionKey' \in Keys))
    BY <2>3, <2>4 DEF Goto, Return, ConnectBastion
  <2>6. UNCHANGED <<config, hostKey, entries, scanned, shown>>
    BY DEF ConnectBastion
  <2>7. conn.bastionHostKey # NoKey => bastionKey' = conn.bastionHostKey
    BY <2>1, <2>3, <2>4 DEF KeyInv, GivenKept
  <2>8. GivenKept'
    BY <2>5, <2>6, <2>7 DEF KeyInv, GivenKept
  <2>9. BastionKeyKnown'
    BY <2>5, <2>6, <2>7 DEF BastionKeyKnown, BastionKeys
  <2> QED
    BY <2>5, <2>6, <2>8, <2>9 DEF KeyInv, NotYet, ScannedKnown, EntriesKnown, OneKeyShown
<1>b. TargetKeyGiven => KeyInv'
  <2> SUFFICES ASSUME TargetKeyGiven PROVE KeyInv'
    OBVIOUS
  <2> DEFINE known == IF needsKey THEN <<hostKey>> ELSE <<>>
  <2>1. /\ pc = "keys" /\ KeysKnown(known) /\ UNCHANGED <<config, hostKey, bastionKey, shown>>
        /\ needsKey => hostKey \in TargetKeys
    BY DEF TargetKeyGiven, TypeInv, TypeOK, KeyInv, GivenKept, TargetKeys
  <2>2. /\ GivenKept' /\ NotYet' /\ BastionKeyKnown' /\ ScannedKnown' /\ EntriesKnown'
        /\ entries'.target = known
    BY <2>1, KeysKnownKeys
  <2>3. OneKeyShown'
    <3>1. OneKeyShown /\ (needsKey => hostKey # NoKey)
      BY DEF KeyInv, TargetKeyGiven
    <3>2. known = <<>> \/ (known = <<hostKey>> /\ hostKey # NoKey)
      BY <3>1
    <3> QED
      BY <2>1, <2>2, <3>1, <3>2 DEF OneKeyShown
  <2> QED
    BY <2>2, <2>3 DEF KeyInv
<1>c. TargetKeyWanted => KeyInv'
  <2> SUFFICES ASSUME TargetKeyWanted PROVE KeyInv'
    OBVIOUS
  <2>1. UNCHANGED <<config, keyVars>> /\ Onward
    BY DEF TargetKeyWanted, Onward, Goto
  <2> QED
    BY <2>1, QuietKeys
<1>d. Fetch => KeyInv'
  <2> SUFFICES ASSUME Fetch PROVE KeyInv'
    OBVIOUS
  <2>1. hostKey \in Keys \cup {NoKey} /\ targetClient \in Client /\ target \in Server
        /\ shown \in Seq(Keys)
    BY ClientFacts DEF TypeInv, TypeOK
  <2>2. PICK d \in Dial(hostKey, target, targetClient) :
          /\ hostKey' = d.key
          /\ shown' = IF d.key # hostKey \/ d.result # "error" THEN Append(shown, d.key)
                                                               ELSE shown
          /\ \/ d.result = "error" /\ Goto("fetchWait") /\ UNCHANGED entries
             \/ d.result # "error" /\ KeysKnown(<<d.key>>)
    BY DEF Fetch
  <2>3. /\ hostKey \in Keys => d.key = hostKey
        /\ d.key # hostKey \/ d.result # "error" => d.key \in Keys
    BY <2>1, <2>2, DialFacts
  <2>4. /\ pc = "fetch" /\ ~conn.bastion /\ conn.hostKey = NoKey
        /\ UNCHANGED <<config, bastionKey, scanned>> /\ entries.target = <<>>
    BY DEF Fetch, TypeInv, Control, KeyInv, NotYet, GivenKept
  <2>5. /\ GivenKept' /\ NotYet' /\ BastionKeyKnown' /\ ScannedKnown' /\ EntriesKnown'
        /\ entries'.target \in {<<>>, <<d.key>>}
        /\ entries'.target # <<>> => d.key \in Keys
    <3>1. CASE d.result = "error"
      BY <2>2, <2>4, <3>1
      DEF Goto, NotYet, BastionKeyKnown, ScannedKnown, EntriesKnown, KeyInv, GivenKept
    <3>2. CASE d.result # "error"
      <4>1. d.key \in TargetKeys
        BY <2>3, <2>4, <3>2 DEF TargetKeys
      <4> QED
        BY <2>2, <2>3, <2>4, <3>2, <4>1, KeysKnownKeys
    <3> QED
      BY <3>1, <3>2
  <2>6. OneKeyShown'
    <3> SUFFICES ASSUME conn.hostKey = NoKey
                 PROVE  /\ \A i \in DOMAIN shown' : shown'[i] = d.key
                        /\ shown' = <<>> <=> d.key = NoKey
      <4>1. conn' = conn /\ hostKey' = d.key /\ (entries'.target # <<>> => d.key # NoKey)
        BY <2>2, <2>4, <2>5, KeyAssumption
      <4> QED
        BY <2>5, <4>1 DEF OneKeyShown
    <3>1. /\ \A i \in DOMAIN shown : shown[i] = hostKey
          /\ shown = <<>> <=> hostKey = NoKey
      BY <2>4 DEF KeyInv, OneKeyShown
    <3>2. CASE hostKey = NoKey /\ shown' = Append(shown, d.key)
      BY <2>2, <2>3, <3>1, <3>2, KeyAssumption
    <3>3. CASE hostKey # NoKey /\ shown' = Append(shown, d.key)
      <4>1. d.key = hostKey /\ d.key # NoKey
        BY <2>1, <2>3, <3>3
      <4> QED
        BY <2>1, <3>1, <3>3, <4>1
    <3>4. CASE shown' = shown /\ d.key = hostKey
      BY <3>1, <3>4
    <3> QED
      BY <2>2, <3>2, <3>3, <3>4
  <2> QED
    BY <2>5, <2>6 DEF KeyInv
<1>e. FetchWait \/ ScanWait \/ ScanDir => KeyInv'
  <2> SUFFICES ASSUME FetchWait \/ ScanWait \/ ScanDir PROVE KeyInv'
    OBVIOUS
  <2>1. UNCHANGED <<config, hostKey, bastionKey, entries, scanned, shown>>
    BY DEF FetchWait, ScanWait, Wait, ScanDir, keyVars
  <2>2. \/ pc' = "unwind"
        \/ /\ pc = "fetchWait" /\ pc' = "fetch"
        \/ /\ pc \in {"scanWait", "scanDir"} /\ pc' = "scan"
    BY DEF FetchWait, ScanWait, Wait, ScanDir, Goto, Return
  <2>3. BastionKeys' = BastionKeys
    BY <2>1 DEF BastionKeys
  <2> QED
    BY <2>1, <2>2, <2>3
    DEF KeyInv, GivenKept, NotYet, BastionKeyKnown, ScannedKnown, EntriesKnown, OneKeyShown
<1>f. Scan => KeyInv'
  <2> SUFFICES ASSUME Scan PROVE KeyInv'
    OBVIOUS
  <2>1. /\ pc = "scan" /\ UNCHANGED <<config, hostKey, bastionKey, entries, shown>>
        /\ pc' = "scanWait" \/ (pc' = "scanRead" /\ scanned' \in Keys)
    BY DEF Scan, Goto, TypeInv, TypeOK, Server
  <2>2. BastionKeys' = BastionKeys
    BY <2>1 DEF BastionKeys
  <2> QED
    BY <2>1, <2>2
    DEF KeyInv, GivenKept, NotYet, BastionKeyKnown, ScannedKnown, EntriesKnown, OneKeyShown
<1>g. ScanRead => KeyInv'
  <2> SUFFICES ASSUME ScanRead PROVE KeyInv'
    OBVIOUS
  <2>1. /\ pc = "scanRead" /\ UNCHANGED <<config, hostKey, bastionKey, scanned, shown>>
        /\ conn.bastion /\ conn.hostKey = NoKey /\ scanned \in Keys
    BY DEF ScanRead, TypeInv, Control, KeyInv, ScannedKnown, GivenKept
  <2>2. ASSUME NEW k \in {scanned, NoKey}, KeysKnown(<<k>>)
        PROVE  KeyInv'
    <3>1. k \in TargetKeys
      BY <2>1 DEF TargetKeys
    <3>2. GivenKept' /\ NotYet' /\ BastionKeyKnown' /\ ScannedKnown' /\ EntriesKnown'
      BY <2>1, <2>2, <3>1, KeysKnownKeys
    <3> QED
      BY <2>1, <3>2 DEF KeyInv, OneKeyShown
  <2>3. CASE Return("error") /\ UNCHANGED entries
    BY <2>1, <2>3 DEF Return, KeyInv, GivenKept, NotYet, BastionKeyKnown, ScannedKnown,
       EntriesKnown, OneKeyShown
  <2> QED
    BY <2>2, <2>3 DEF ScanRead
<1> QED
  BY <1>a, <1>b, <1>c, <1>d, <1>e, <1>f, <1>g DEF AcquireKeys

(* Every step preserves KeyInv. *)
LEMMA KeysInductive == ASSUME TypeInv, KeyInv, [Next]_vars PROVE KeyInv'
<1>1. CASE Boot \/ Rekey \/ Stall \/ UNCHANGED vars
  <2>1. UNCHANGED <<config, keyVars>> /\ Onward
    BY <1>1 DEF Boot, Rekey, Stall, vars, Onward
  <2> QED
    BY <2>1, QuietKeys
<1> QED
  BY <1>1, PrepareKeys, AcquireKeysKnown, ProvisionKeys DEF Next, Step

(* KeyInv holds in every state. *)
LEMMA KeysAlways == Spec => [](TypeInv /\ KeyInv)
<1>1. Init => KeyInv
  BY LocalAssumption DEF Init, KeyInv, GivenKept, NotYet, BastionKeyKnown, ScannedKnown, EntriesKnown,
     OneKeyShown, Acquiring, Scanning, Keyed
<1>2. TypeInv /\ KeyInv /\ [Next]_vars => KeyInv'
  BY KeysInductive
<1> QED
  BY <1>1, <1>2, TypeAlways, PTL DEF Spec

(* The key fetchHostKey brings is the first the target ever showed, and the *)
(* one it showed last: of any number of dials and changes of key.           *)
THEOREM FirstKeyIsKept == Spec => []FirstKeyKept
<1>1. TypeInv /\ KeyInv => FirstKeyKept
  <2> SUFFICES ASSUME TypeInv, KeyInv, conn.hostKey = NoKey, ~conn.bastion, entries.target # <<>>
               PROVE  entries.target = <<shown[1]>> /\ Last(shown) = shown[1]
    BY DEF FirstKeyKept
  <2>1. /\ entries.target = <<hostKey>> /\ shown # <<>> /\ shown \in Seq(Keys)
        /\ \A i \in DOMAIN shown : shown[i] = hostKey
    BY DEF KeyInv, OneKeyShown, TypeInv, TypeOK
  <2>2. 1 \in DOMAIN shown /\ Len(shown) \in DOMAIN shown
    BY <2>1, EmptySeq
  <2> QED
    BY <2>1, <2>2 DEF Last
<1> QED
  BY <1>1, KeysAlways, PTL

(* No play is executed before the keys it is to be checked with are known:  *)
(* the given ones, those received, or what was scanned on the bastion,      *)
(* which alone may be blank.                                                *)
THEOREM KnownHostsAreFilled == Spec => []KnownHostsFilled
<1>1. KeyInv => KnownHostsFilled
  BY DEF KeyInv, EntriesKnown, TargetKeys, BastionKeys, KnownHostsFilled, Keyed
<1> QED
  BY <1>1, KeysAlways, PTL

-----------------------------------------------------------------------------
(* Private keys.  A path is one of the pem file made from a key that is     *)
(* given, and what panics is an agent.                                      *)
UsableInv ==
  /\ outcome = "panic" => sshAgent = "dead"
  /\ args.targetPem # NoFile => args.targetPem = Temp("targetPem") /\ privateKeyGiven
  /\ args.bastionPem # NoFile => args.bastionPem = Temp("bastionPem") /\ bastionKeyGiven

(* The steps that neither write a pem file nor dial the bastion. *)
LEMMA QuietUsable ==
  ASSUME UsableInv, UNCHANGED <<conn, args.targetPem, args.bastionPem>>,
         outcome' \in {outcome, "error", "ok"}
  PROVE  UsableInv'
BY DEF UsableInv, sshAgent, useAgent, privateKeyGiven, bastionKeyGiven, bastionPrivateKey

(* The pem files are made from keys that are given. *)
LEMMA PrepareUsable ==
  ASSUME TypeInv, UsableInv, Prepare
  PROVE  UsableInv'
<1> USE DEF config, Goto, Return, Created, NotCreated
<1>1. conn' = conn /\ outcome' \in {outcome, "error", "ok"}
  BY DEF Prepare, Start, NewLocalMode, Validate, WriteBastionPem, WriteTargetPem
<1>2. /\ sshAgent' = sshAgent
      /\ privateKeyGiven' <=> privateKeyGiven
      /\ bastionKeyGiven' <=> bastionKeyGiven
  BY <1>1 DEF sshAgent, useAgent, privateKeyGiven, bastionKeyGiven, bastionPrivateKey
<1>3. \/ args' = args
      \/ /\ args' = [args EXCEPT !.bastionPem = Temp("bastionPem")] /\ bastionKeyGiven
      \/ /\ args' = [args EXCEPT !.targetPem = Temp("targetPem")] /\ privateKeyGiven
  BY DEF Prepare, Start, NewLocalMode, Validate, WriteBastionPem, WriteTargetPem, fileVars
<1> QED
  BY <1>1, <1>2, <1>3 DEF UsableInv, TypeInv, TypeOK

(* The bastion is dialled with a key that parses. *)
LEMMA AcquireUsable ==
  ASSUME TypeInv, UsableInv, AcquireKeys
  PROVE  UsableInv'
<1> USE DEF config, fileVars
<1>1. conn' = conn /\ args' = args
  BY DEF AcquireKeys, ConnectBastion, TargetKeyGiven, TargetKeyWanted, Fetch, FetchWait, ScanDir,
     Scan, ScanWait, ScanRead, Wait
<1>2. CASE ConnectBastion
  <2>1. bastionKey \in Keys \cup {NoKey}
    BY DEF TypeInv, TypeOK
  <2>2. bastionClient.pem # "bad"
    BY <1>2, ClientFacts DEF ConnectBastion, TypeInv, Control, AtWork, Acquiring, KeysParse,
       bastionPrivateKey
  <2>3. PICK s \in Server : \E d \in Dial(bastionKey, s, bastionClient) :
          IF d.result = "ok" THEN Goto("keys") ELSE Return(d.result)
    BY <1>2 DEF ConnectBastion
  <2>4. PICK d \in Dial(bastionKey, s, bastionClient) :
          IF d.result = "ok" THEN Goto("keys") ELSE Return(d.result)
    BY <2>3
  <2>5. /\ d.result \in {"ok", "error", "panic"}
        /\ d.result = "panic" => sshAgent = "dead"
    BY <2>1, <2>2, <2>3, <2>4, ClientFacts, DialFacts
  <2>6. outcome' \in {outcome, "error"} \/ (outcome' = "panic" /\ sshAgent = "dead")
    BY <2>4, <2>5 DEF Goto, Return
  <2>7. /\ sshAgent' = sshAgent
        /\ privateKeyGiven' <=> privateKeyGiven
        /\ bastionKeyGiven' <=> bastionKeyGiven
    BY <1>1 DEF sshAgent, useAgent, privateKeyGiven, bastionKeyGiven, bastionPrivateKey
  <2> QED
    BY <1>1, <2>6, <2>7 DEF UsableInv
<1>3. CASE ~ConnectBastion
  <2>1. outcome' \in {outcome, "error", "ok"}
    BY <1>3 DEF AcquireKeys, TargetKeyGiven, TargetKeyWanted, Fetch, FetchWait, ScanDir,
       Scan, ScanWait, ScanRead, Wait, KeysKnown, Goto, Return
  <2> QED
    BY <1>1, <2>1, QuietUsable
<1> QED
  BY <1>2, <1>3

(* Nothing later touches the pem files. *)
LEMMA ProvisionUsable ==
  ASSUME TypeInv, UsableInv, Provision
  PROVE  UsableInv'
<1> USE DEF config, fileVars, Goto, Return, Created, NotCreated
<1>1. conn' = conn /\ outcome' \in {outcome, "error", "ok"}
  BY DEF Provision, WriteBastionHosts, WriteTargetHosts, SkipDisabled, ExecutePlay, PlayEnds,
     PlaysDone, Unwind
<1>2. \/ args' = args
      \/ args' = [args EXCEPT !.bastionHosts = Temp("bastionHosts")]
      \/ args' = [args EXCEPT !.targetHosts = Temp("targetHosts")]
  BY DEF Provision, WriteBastionHosts, WriteTargetHosts, SkipDisabled, ExecutePlay, PlayEnds,
     PlaysDone, Unwind
<1>3. args'.targetPem = args.targetPem /\ args'.bastionPem = args.bastionPem
  BY <1>2 DEF TypeInv, TypeOK
<1> QED
  BY <1>1, <1>3, QuietUsable

(* UsableInv holds in every state. *)
LEMMA UsableAlways == Spec => [](TypeInv /\ UsableInv)
<1>1. Init => UsableInv
  BY DEF Init, UsableInv
<1>2. TypeInv /\ UsableInv /\ [Next]_vars => UsableInv'
  <2> SUFFICES ASSUME TypeInv, UsableInv, [Next]_vars PROVE UsableInv'
    OBVIOUS
  <2>1. CASE Boot \/ Rekey \/ Stall \/ UNCHANGED vars
    <3>1. conn' = conn /\ args' = args /\ outcome' = outcome
      BY <2>1 DEF Boot, Rekey, Stall, vars, config, fileVars
    <3> QED
      BY <3>1, QuietUsable
  <2> QED
    BY <2>1, PrepareUsable, AcquireUsable, ProvisionUsable DEF Next, Step
<1> QED
  BY <1>1, <1>2, TypeAlways, PTL DEF Spec

(* Whatever the connection block holds, no dial panics for a private key    *)
(* that does not parse, and no command names a pem file with such a key.    *)
THEOREM OnlyUsableKeysUsed == Spec => []OnlyUsableKeys
<1>1. TypeInv /\ UsableInv => OnlyUsableKeys
  <2> SUFFICES ASSUME TypeInv, UsableInv, pc = "running",
                      NEW f \in {args.targetPem} \cup
                                (IF conn.bastion THEN {args.bastionPem} ELSE {}),
                      f # NoFile
               PROVE  pemOf(f.kind) = "good"
    BY DEF OnlyUsableKeys, UsableInv
  <2>1. conn \in Connection /\ KeysParse
    BY ClientFacts DEF TypeInv, Control, AtWork, Keyed
  <2>2. /\ conn.privateKey \in Pem /\ conn.privateKey # "bad"
        /\ conn.bastion => bastionPrivateKey \in Pem /\ bastionPrivateKey # "bad"
    BY <2>1 DEF Connection, KeysParse, bastionPrivateKey
  <2>3. CASE f = args.targetPem
    <3>1. f.kind = "targetPem" /\ conn.privateKey # "none"
      BY <2>3 DEF UsableInv, privateKeyGiven, Temp
    <3> QED
      BY <2>2, <3>1 DEF pemOf, Pem
  <2>4. CASE conn.bastion /\ f = args.bastionPem
    <3>1. f.kind = "bastionPem" /\ bastionPrivateKey # "none"
      BY <2>4 DEF UsableInv, bastionKeyGiven, Temp
    <3> QED
      BY <2>2, <2>4, <3>1 DEF pemOf, Pem
  <2> QED
    BY <2>3, <2>4
<1> QED
  BY <1>1, UsableAlways, PTL

-----------------------------------------------------------------------------
(* Files, and the promise *)

(* What is on the controller is what was provided, what was leaked         *)
(* and what is queued for removal, and these are apart; every file is made  *)
(* once, in its turn; and what the arguments and the inventories name is    *)
(* there until Run unwinds.                                                 *)
Queued == {deferred[i] : i \in DOMAIN deferred}
StackInv ==
  /\ files = provided \cup leaked \cup Queued
  /\ Queued \cap (provided \cup leaked) = {}
  /\ \A i, j \in DOMAIN deferred : deferred[i] = deferred[j] => i = j
  /\ Ended => deferred = <<>>

NoBastionPem == {"idle", "new", "validate", "bastionPem"}
NoBastionHosts == Early \cup Acquiring \cup {"knownBastion"}
NoTargetHosts == NoBastionHosts \cup {"knownTarget"}
NotMade ==
  /\ pc \in NoBastionPem => Temp("bastionPem") \notin files
  /\ pc \in Early => Temp("targetPem") \notin files
  /\ pc \in NoBastionHosts => Temp("bastionHosts") \notin files
  /\ pc \in NoTargetHosts => Temp("targetHosts") \notin files
  /\ pc \in AtWork => \A f \in files : f.kind = "inventory" =>
       f.play < cur \/ (f.play = cur /\ pc = "running")

ArgsThere ==
  pc \in AtWork =>
    /\ args.targetPem = NoFile \/ args.targetPem \in files
    /\ args.bastionPem = NoFile \/ args.bastionPem \in files
    /\ pc \notin NoBastionHosts => args.bastionHosts \in files
    /\ pc \notin NoTargetHosts => args.targetHosts \in files

Inventories ==
  pc \in AtWork =>
    /\ \A i \in DOMAIN plays : i > cur \/ (i = cur /\ pc # "running") =>
         inventory[i] = IF plays[i].inventoryFile THEN Provided(i) ELSE NoFile
    /\ pc = "running" =>
         /\ inventory[cur] \in files /\ inventory[cur].play = cur
         /\ inventory[cur].kind = IF plays[cur].inventoryFile THEN "provided" ELSE "inventory"

FilesInv == StackInv /\ NotMade /\ ArgsThere /\ Inventories

(* A sequence and the one with an element more. *)
LEMMA AppendRange ==
  ASSUME NEW S, NEW s \in Seq(S), NEW e \in S
  PROVE  /\ Append(s, e) \in Seq(S) /\ DOMAIN s = 1 .. Len(s) /\ Len(s) \in Nat
         /\ DOMAIN Append(s, e) = 1 .. Len(s) + 1
         /\ \A i \in 1 .. Len(s) : Append(s, e)[i] = s[i]
         /\ Append(s, e)[Len(s) + 1] = e
OBVIOUS

(* A new file is queued for removal. *)
LEMMA CreatedStack ==
  ASSUME TypeInv, StackInv, NEW f \in File, f \notin files, plays' = plays,
         NEW next, next \notin {"done", "failed"}, Created(f, next)
  PROVE  StackInv'
<1> DEFINE s == deferred
<1> DEFINE t == Append(deferred, f)
<1>1. /\ DOMAIN s = 1 .. Len(s) /\ Len(s) \in Nat /\ DOMAIN t = 1 .. Len(s) + 1
      /\ \A i \in 1 .. Len(s) : t[i] = s[i]
      /\ t[Len(s) + 1] = f
  BY AppendRange DEF TypeInv, TypeOK
<1>2. /\ deferred' = t /\ files' = files \cup {f} /\ leaked' = leaked /\ pc' = next
      /\ provided' = provided
  BY DEF Created, Goto, provided
<1> HIDE DEF t
<1>3. \A i \in 1 .. Len(s) : s[i] # f
  BY <1>1 DEF StackInv, Queued
<1>4. Queued' = Queued \cup {f}
  <2>1. Queued' = {t[i] : i \in 1 .. Len(s) + 1} /\ Queued = {s[i] : i \in 1 .. Len(s)}
    BY <1>1, <1>2 DEF Queued
  <2>2. \A i \in 1 .. Len(s) + 1 : i \in 1 .. Len(s) \/ i = Len(s) + 1
    BY <1>1
  <2>3. 1 .. Len(s) \subseteq 1 .. Len(s) + 1 /\ Len(s) + 1 \in 1 .. Len(s) + 1
    BY <1>1
  <2> QED
    BY <1>1, <2>1, <2>2, <2>3
<1>5. \A i, j \in DOMAIN deferred' : deferred'[i] = deferred'[j] => i = j
  BY <1>1, <1>2, <1>3 DEF StackInv
<1>6. f \notin provided \cup leaked
  BY DEF StackInv
<1>7. files' = provided' \cup leaked' \cup Queued'
  BY <1>2, <1>4 DEF StackInv
<1>8. Queued' \cap (provided' \cup leaked') = {}
  BY <1>2, <1>4, <1>6 DEF StackInv
<1> QED
  BY <1>2, <1>5, <1>7, <1>8 DEF StackInv, Ended

(* One that could not be made is not, whether it stays or not. *)
LEMMA NotCreatedStack ==
  ASSUME TypeInv, StackInv, NEW f, f \notin files, plays' = plays, NotCreated(f)
  PROVE  StackInv' /\ pc' = "unwind"
<1>1. /\ deferred' = deferred /\ pc' = "unwind" /\ provided' = provided /\ Queued' = Queued
      /\ \/ files' = files /\ leaked' = leaked
         \/ files' = files \cup {f} /\ leaked' = leaked \cup {f}
  BY DEF NotCreated, Return, provided, Queued
<1> QED
  BY <1>1 DEF StackInv, Ended

(* A removal takes the file off the disk and off the stack. *)
LEMMA UnwindStack ==
  ASSUME TypeInv, StackInv, Unwind
  PROVE  StackInv'
<1>1. provided' = provided /\ leaked' = leaked
  BY DEF Unwind, config, provided
<1>2. CASE deferred = <<>> /\ UNCHANGED <<files, deferred>>
  BY <1>1, <1>2 DEF StackInv, Queued, Ended
<1>3. CASE deferred # <<>> /\ files' = files \ {Last(deferred)} /\ deferred' = Front(deferred)
           /\ UNCHANGED pc
  <2> DEFINE n == Len(deferred)
  <2>1. /\ n \in Nat \ {0} /\ Last(deferred) = deferred[n] /\ Front(deferred) \in Seq(File)
        /\ Len(Front(deferred)) = n - 1 /\ \A i \in 1 .. n - 1 : Front(deferred)[i] = deferred[i]
    <3>1. deferred \in Seq(File) /\ deferred # <<>>
      BY <1>3 DEF TypeInv, TypeOK
    <3> QED
      BY <3>1, FrontFacts
  <2>2. DOMAIN deferred = 1 .. n /\ DOMAIN deferred' = 1 .. n - 1
        /\ \A i \in 1 .. n - 1 : deferred'[i] = deferred[i]
    BY <1>3, <2>1, LenProperties DEF TypeInv, TypeOK
  <2>3. 1 .. n - 1 \subseteq 1 .. n /\ n \in 1 .. n /\ n \notin 1 .. n - 1
        /\ \A i \in 1 .. n : i \in 1 .. n - 1 \/ i = n
    BY <2>1
  <2> HIDE DEF n
  <2>4. \A i \in 1 .. n - 1 : deferred[i] # deferred[n]
    BY <2>2, <2>3 DEF StackInv
  <2>5. Queued' = Queued \ {Last(deferred)} /\ Last(deferred) \in Queued
    <3>1. Queued' = {deferred[i] : i \in 1 .. n - 1} /\ Queued = {deferred[i] : i \in 1 .. n}
      BY <2>2 DEF Queued
    <3> QED
      BY <2>1, <2>3, <2>4, <3>1
  <2>6. \A i, j \in DOMAIN deferred' : deferred'[i] = deferred'[j] => i = j
    BY <2>2, <2>3 DEF StackInv
  <2>7. files' = provided' \cup leaked' \cup Queued'
        /\ Queued' \cap (provided' \cup leaked') = {}
    BY <1>1, <1>3, <2>5 DEF StackInv
  <2>8. ~Ended'
    BY <1>3 DEF Unwind, Ended
  <2> QED
    BY <2>6, <2>7, <2>8 DEF StackInv
<1> QED
  BY <1>2, <1>3 DEF Unwind

(* The steps that make and remove nothing. *)
FilesOnward ==
  \/ pc' = "unwind"
  \/ pc' = pc
  \/ pc \in {"idle", "new", "validate"} /\ pc' \in NoBastionPem
  \/ pc = "bastionPem" /\ pc' = "targetPem"
  \/ pc = "targetPem" /\ pc' \in {"bastion", "keys"}
  \/ pc \in Acquiring /\ pc' \in Acquiring \cup {"knownBastion"}

(* A step that leaves the files alone preserves what is known of them. *)
LEMMA QuietFiles ==
  ASSUME TypeInv, FilesInv, UNCHANGED <<config, cur, fileVars>>, FilesOnward
  PROVE  FilesInv'
<1> USE DEF config, fileVars
<1>1. /\ pc' \in AtWork => pc \in AtWork
      /\ pc' \in NoBastionPem => pc \in NoBastionPem
      /\ pc' \in Early => pc \in Early
      /\ pc' \in NoBastionHosts => pc \in NoBastionHosts
      /\ pc' \in NoTargetHosts => pc \in NoTargetHosts
      /\ pc' \in AtWork /\ pc' \notin NoBastionHosts => pc \notin NoBastionHosts
      /\ pc' \in AtWork /\ pc' \notin NoTargetHosts => pc \notin NoTargetHosts
      /\ pc' \in AtWork => (pc' = "running" <=> pc = "running")
  BY DEF FilesOnward, AtWork, Early, Acquiring, Scanning, Keyed, NoBastionPem, NoBastionHosts,
     NoTargetHosts
<1>2. StackInv'
  BY DEF FilesInv, StackInv, Queued, provided, Ended, FilesOnward, NoBastionPem, Acquiring,
     Scanning
<1>3. NotMade'
  BY <1>1 DEF FilesInv, NotMade
<1>4. ArgsThere'
  BY <1>1 DEF FilesInv, ArgsThere
<1>5. Inventories'
  BY <1>1 DEF FilesInv, Inventories
<1> QED
  BY <1>2, <1>3, <1>4, <1>5 DEF FilesInv

(* A file that cannot be made ends the work. *)
LEMMA FailedFiles ==
  ASSUME TypeInv, FilesInv, NEW f, f \notin files, plays' = plays, NotCreated(f)
  PROVE  FilesInv'
<1>1. StackInv' /\ pc' = "unwind"
  BY NotCreatedStack DEF FilesInv
<1> QED
  BY <1>1 DEF FilesInv, NotMade, ArgsThere, Inventories, AtWork, Early, Acquiring, Scanning, Keyed,
     NoBastionPem, NoBastionHosts, NoTargetHosts

(* A file made at its place: nothing of what was known of the others is lost. *)
LEMMA MadeFiles ==
  ASSUME TypeInv, FilesInv, NEW kind \in {"bastionPem", "targetPem", "bastionHosts", "targetHosts"},
         Temp(kind) \notin files, NEW next \in AtWork \ {"running"}, Created(Temp(kind), next),
         pc \in AtWork \ {"running"}, UNCHANGED <<config, cur, inventory>>
  PROVE  /\ StackInv' /\ Inventories'
         /\ \A k \in {"bastionPem", "targetPem", "bastionHosts", "targetHosts"} :
              k # kind /\ Temp(k) \notin files => Temp(k) \notin files'
         /\ \A f \in files' : f.kind = "inventory" => f.play < cur'
         /\ files' = files \cup {Temp(kind)} /\ pc' = next
<1> USE DEF config
<1>1. Temp(kind) \in File /\ next \notin {"done", "failed"}
  BY DEF Temp, File, Kinds, AtWork, Early, Acquiring, Scanning, Keyed
<1>2. StackInv'
  BY <1>1, CreatedStack DEF FilesInv
<1>3. files' = files \cup {Temp(kind)} /\ pc' = next
  BY DEF Created, Goto
<1>4. Inventories'
  BY <1>3 DEF FilesInv, Inventories
<1>5. \A f \in files' : f.kind = "inventory" => f.play < cur'
  BY <1>3 DEF FilesInv, NotMade, Temp
<1>6. \A k \in {"bastionPem", "targetPem", "bastionHosts", "targetHosts"} :
        k # kind /\ Temp(k) \notin files => Temp(k) \notin files'
  BY <1>3 DEF Temp
<1> QED
  BY <1>2, <1>3, <1>4, <1>5, <1>6

(* The pem files, each in its turn. *)
LEMMA PrepareFiles ==
  ASSUME TypeInv, FilesInv, Prepare
  PROVE  FilesInv'
<1> USE DEF config, keyVars, hostVars
<1> DEFINE Pem1 == Temp("bastionPem")
<1> DEFINE Pem2 == Temp("targetPem")
<1>1. CASE \/ Start \/ NewLocalMode \/ Validate
           \/ (WriteBastionPem /\ UNCHANGED fileVars /\ Goto("targetPem"))
           \/ (/\ WriteTargetPem /\ UNCHANGED fileVars
               /\ Goto(IF conn.bastion THEN "bastion" ELSE "keys"))
  <2>1. UNCHANGED <<config, cur, fileVars>> /\ FilesOnward
    BY <1>1 DEF Start, NewLocalMode, Validate, WriteBastionPem, WriteTargetPem, Goto, Return,
       FilesOnward, NoBastionPem
  <2> QED
    BY <2>1, QuietFiles
<1>2. CASE WriteBastionPem /\ Created(Pem1, "targetPem")
           /\ args' = [args EXCEPT !.bastionPem = Pem1] /\ UNCHANGED inventory
  <2>1. pc = "bastionPem" /\ Pem1 \notin files /\ UNCHANGED <<config, cur, inventory>>
    BY <1>2 DEF WriteBastionPem, FilesInv, NotMade, NoBastionPem
  <2>2. pc \in AtWork \ {"running"} /\ "targetPem" \in AtWork \ {"running"}
    BY <2>1 DEF AtWork, Early
  <2>3. /\ StackInv' /\ Inventories' /\ files' = files \cup {Pem1} /\ pc' = "targetPem"
        /\ \A k \in {"bastionPem", "targetPem", "bastionHosts", "targetHosts"} :
             k # "bastionPem" /\ Temp(k) \notin files => Temp(k) \notin files'
        /\ \A f \in files' : f.kind = "inventory" => f.play < cur'
    BY <1>2, <2>1, <2>2, MadeFiles
  <2>4. NotMade'
    BY <2>1, <2>3 DEF FilesInv, NotMade, NoBastionPem, NoBastionHosts, NoTargetHosts, Early
  <2>5. ArgsThere'
    BY <1>2, <2>1, <2>2, <2>3 DEF FilesInv, ArgsThere, TypeInv, TypeOK, NoBastionHosts,
       NoTargetHosts, Early
  <2> QED
    BY <2>3, <2>4, <2>5 DEF FilesInv
<1>3. CASE /\ WriteTargetPem /\ Created(Pem2, IF conn.bastion THEN "bastion" ELSE "keys")
           /\ args' = [args EXCEPT !.targetPem = Pem2] /\ UNCHANGED inventory
  <2> DEFINE next == IF conn.bastion THEN "bastion" ELSE "keys"
  <2>1. pc = "targetPem" /\ Pem2 \notin files /\ UNCHANGED <<config, cur, inventory>>
    BY <1>3 DEF WriteTargetPem, FilesInv, NotMade, Early
  <2>2. pc \in AtWork \ {"running"} /\ next \in AtWork \ {"running"} /\ next \in {"bastion", "keys"}
    BY <2>1 DEF AtWork, Early, Acquiring
  <2>3. /\ StackInv' /\ Inventories' /\ files' = files \cup {Pem2} /\ pc' = next
        /\ \A k \in {"bastionPem", "targetPem", "bastionHosts", "targetHosts"} :
             k # "targetPem" /\ Temp(k) \notin files => Temp(k) \notin files'
        /\ \A f \in files' : f.kind = "inventory" => f.play < cur'
    BY <1>3, <2>1, <2>2, MadeFiles
  <2> HIDE DEF next
  <2>4. NotMade'
    BY <2>1, <2>2, <2>3 DEF FilesInv, NotMade, NoBastionPem, NoBastionHosts, NoTargetHosts, Early,
       Acquiring
  <2>5. ArgsThere'
    BY <1>3, <2>1, <2>2, <2>3 DEF FilesInv, ArgsThere, TypeInv, TypeOK, NoBastionHosts,
       NoTargetHosts, Early, Acquiring
  <2> QED
    BY <2>3, <2>4, <2>5 DEF FilesInv
<1>4. CASE \/ (WriteBastionPem /\ NotCreated(Pem1)) \/ (WriteTargetPem /\ NotCreated(Pem2))
  <2>1. CASE WriteBastionPem /\ NotCreated(Pem1)
    <3>1. Pem1 \notin files /\ plays' = plays
      BY <2>1 DEF WriteBastionPem, FilesInv, NotMade, NoBastionPem
    <3> QED
      BY <2>1, <3>1, FailedFiles
  <2>2. CASE WriteTargetPem /\ NotCreated(Pem2)
    <3>1. Pem2 \notin files /\ plays' = plays
      BY <2>2 DEF WriteTargetPem, FilesInv, NotMade, Early
    <3> QED
      BY <2>2, <3>1, FailedFiles
  <2> QED
    BY <1>4, <2>1, <2>2
<1>5. WriteBastionPem =>
        \/ (UNCHANGED fileVars /\ Goto("targetPem")) \/ NotCreated(Pem1)
        \/ (/\ Created(Pem1, "targetPem")
            /\ args' = [args EXCEPT !.bastionPem = Pem1] /\ UNCHANGED inventory)
  BY DEF WriteBastionPem
<1>6. WriteTargetPem =>
        \/ (UNCHANGED fileVars /\ Goto(IF conn.bastion THEN "bastion" ELSE "keys"))
        \/ NotCreated(Pem2)
        \/ (/\ Created(Pem2, IF conn.bastion THEN "bastion" ELSE "keys")
            /\ args' = [args EXCEPT !.targetPem = Pem2] /\ UNCHANGED inventory)
  BY DEF WriteTargetPem
<1> QED
  BY <1>1, <1>2, <1>3, <1>4, <1>5, <1>6 DEF Prepare

(* Finding the host keys makes no file. *)
LEMMA AcquireFiles ==
  ASSUME TypeInv, FilesInv, AcquireKeys
  PROVE  FilesInv'
<1>1. UNCHANGED <<config, cur, fileVars>>
  BY DEF AcquireKeys, ConnectBastion, TargetKeyGiven, TargetKeyWanted, Fetch, FetchWait, ScanDir,
     Scan, ScanWait, ScanRead, Wait
<1>2. FilesOnward
  <2>1. CASE ConnectBastion
    <3>1. pc = "bastion" /\ pc' \in {"keys", "unwind"}
      BY <2>1 DEF ConnectBastion, Goto, Return
    <3> QED
      BY <3>1 DEF FilesOnward, Acquiring
  <2>2. CASE Fetch
    <3>1. pc = "fetch" /\ pc' \in {"fetchWait", "knownBastion"}
      BY <2>2 DEF Fetch, Goto, KeysKnown
    <3> QED
      BY <3>1 DEF FilesOnward, Acquiring
  <2>3. CASE AcquireKeys /\ ~ConnectBastion /\ ~Fetch
    BY <2>3 DEF AcquireKeys, TargetKeyGiven, TargetKeyWanted, FetchWait, ScanDir,
       Scan, ScanWait, ScanRead, Wait, KeysKnown, Goto, Return, FilesOnward, Acquiring, Scanning
  <2> QED
    BY <2>1, <2>2, <2>3
<1> QED
  BY <1>1, <1>2, QuietFiles

(* The known_hosts files. *)
LEMMA HostsFiles ==
  ASSUME TypeInv, FilesInv, WriteBastionHosts \/ WriteTargetHosts
  PROVE  FilesInv'
<1> USE DEF config, keyVars, hostVars
<1> DEFINE Hosts1 == Temp("bastionHosts")
<1> DEFINE Hosts2 == Temp("targetHosts")
<1>1. CASE WriteBastionHosts
  <2>1. pc = "knownBastion" /\ Hosts1 \notin files /\ UNCHANGED <<config, cur>>
    BY <1>1 DEF WriteBastionHosts, FilesInv, NotMade, NoBastionHosts
  <2>2. CASE NotCreated(Hosts1)
    BY <2>1, <2>2, FailedFiles
  <2>3. CASE /\ Created(Hosts1, "knownTarget") /\ UNCHANGED inventory
             /\ args' = [args EXCEPT !.bastionHosts = Hosts1]
    <3>1. pc \in AtWork \ {"running"} /\ "knownTarget" \in AtWork \ {"running"}
      BY <2>1 DEF AtWork, Keyed
    <3>2. /\ StackInv' /\ Inventories' /\ files' = files \cup {Hosts1} /\ pc' = "knownTarget"
          /\ \A k \in {"bastionPem", "targetPem", "bastionHosts", "targetHosts"} :
               k # "bastionHosts" /\ Temp(k) \notin files => Temp(k) \notin files'
          /\ \A f \in files' : f.kind = "inventory" => f.play < cur'
      BY <2>1, <2>3, <3>1, MadeFiles
    <3>3. NotMade'
      BY <2>1, <3>2 DEF FilesInv, NotMade, NoBastionPem, NoBastionHosts, NoTargetHosts, Early,
         Acquiring, Scanning
    <3>4. ArgsThere'
      BY <2>1, <2>3, <3>1, <3>2 DEF FilesInv, ArgsThere, TypeInv, TypeOK, NoBastionHosts,
         NoTargetHosts, Early
    <3> QED
      BY <3>2, <3>3, <3>4 DEF FilesInv
  <2> QED
    BY <1>1, <2>2, <2>3 DEF WriteBastionHosts
<1>2. CASE WriteTargetHosts
  <2>1. pc = "knownTarget" /\ Hosts2 \notin files /\ UNCHANGED <<config, cur>>
    BY <1>2 DEF WriteTargetHosts, FilesInv, NotMade, NoTargetHosts
  <2>2. CASE NotCreated(Hosts2)
    BY <2>1, <2>2, FailedFiles
  <2>3. CASE /\ Created(Hosts2, "play") /\ UNCHANGED inventory
             /\ args' = [args EXCEPT !.targetHosts = Hosts2]
    <3>1. pc \in AtWork \ {"running"} /\ "play" \in AtWork \ {"running"}
      BY <2>1 DEF AtWork, Keyed
    <3>2. /\ StackInv' /\ Inventories' /\ files' = files \cup {Hosts2} /\ pc' = "play"
          /\ \A f \in files' : f.kind = "inventory" => f.play < cur'
      BY <2>1, <2>3, <3>1, MadeFiles
    <3>3. NotMade'
      BY <2>1, <3>2 DEF FilesInv, NotMade, NoBastionPem, NoBastionHosts, NoTargetHosts, Early,
         Acquiring, Scanning
    <3>4. ArgsThere'
      BY <2>1, <2>3, <3>1, <3>2 DEF FilesInv, ArgsThere, TypeInv, TypeOK, NoBastionHosts,
         NoTargetHosts, Early, Acquiring, Scanning
    <3> QED
      BY <3>2, <3>3, <3>4 DEF FilesInv
  <2> QED
    BY <1>2, <2>2, <2>3 DEF WriteTargetHosts
<1> QED
  BY <1>1, <1>2

(* Going on to the next play, from a disabled one or one that has ended. *)
LEMMA NextPlayFiles ==
  ASSUME TypeInv, FilesInv, UNCHANGED <<config, fileVars>>, pc \in {"play", "running"},
         pc' = "play", cur' = cur + 1
  PROVE  FilesInv'
<1> USE DEF config, fileVars
<1>1. cur \in Nat /\ DOMAIN plays \subseteq Nat /\ \A f \in files : f.play \in Nat
  BY PlayFacts DEF TypeInv, TypeOK, File, Index
<1>2. StackInv'
  BY DEF FilesInv, StackInv, Queued, provided, Ended
<1>3. NotMade'
  <2>1. \A f \in files : f.kind = "inventory" => f.play < cur + 1
    BY <1>1 DEF FilesInv, NotMade, AtWork, Keyed
  <2> QED
    BY <2>1 DEF NotMade, NoBastionPem, NoBastionHosts, NoTargetHosts, Early, Acquiring, Scanning
<1>4. ArgsThere'
  BY DEF FilesInv, ArgsThere, AtWork, NoBastionHosts, NoTargetHosts, Early, Acquiring, Scanning,
     Keyed
<1>5. Inventories'
  <2>1. \A i \in DOMAIN plays : i > cur + 1 \/ i = cur + 1 => i > cur
    BY <1>1
  <2> QED
    BY <2>1 DEF FilesInv, Inventories, AtWork, Keyed
<1> QED
  BY <1>2, <1>3, <1>4, <1>5 DEF FilesInv

(* A play's inventory: its own, or made and queued. *)
LEMMA ExecuteFiles ==
  ASSUME TypeInv, FilesInv, ExecutePlay
  PROVE  FilesInv'
<1> USE DEF config
<1> DEFINE made == [kind |-> "inventory", play |-> cur]
<1>1. /\ pc = "play" /\ cur \in DOMAIN plays /\ cur \in Index /\ UNCHANGED <<config, cur>>
      /\ cur \in Nat /\ made \in File /\ DOMAIN plays \subseteq Index
      /\ inventory \in [Index -> File] /\ DOMAIN plays \subseteq Nat
  BY PlayFacts DEF ExecutePlay, TypeInv, TypeOK, Control, File, Kinds, Index
<1>2. inventory[cur] = IF plays[cur].inventoryFile THEN Provided(cur) ELSE NoFile
  BY <1>1 DEF FilesInv, Inventories, AtWork, Keyed
<1>3. /\ \A f \in files : f.kind = "inventory" => f.play < cur
      /\ args.targetPem = NoFile \/ args.targetPem \in files
      /\ args.bastionPem = NoFile \/ args.bastionPem \in files
      /\ args.bastionHosts \in files /\ args.targetHosts \in files
  BY <1>1 DEF FilesInv, NotMade, ArgsThere, AtWork, Keyed, NoBastionHosts, NoTargetHosts, Early,
     Acquiring, Scanning
<1>4. made \notin files
  BY <1>1, <1>3
<1>5. CASE inventory[cur] # NoFile /\ Goto("running") /\ UNCHANGED <<fileVars, faults>>
  <2> USE DEF fileVars
  <2>1. pc' = "running" /\ plays[cur].inventoryFile /\ inventory[cur] = Provided(cur)
    BY <1>2, <1>5 DEF Goto
  <2>2. Provided(cur) \in files
    BY <1>1, <2>1 DEF FilesInv, StackInv, provided
  <2>3. StackInv'
    BY <1>1, <1>5, <2>1 DEF FilesInv, StackInv, Queued, provided, Ended
  <2>4. NotMade'
    BY <1>1, <1>3, <1>5, <2>1 DEF NotMade, NoBastionPem, NoBastionHosts, NoTargetHosts, Early,
       Acquiring, Scanning
  <2>5. ArgsThere'
    BY <1>3, <1>5 DEF ArgsThere
  <2>6. Inventories'
    <3>1. \A i \in DOMAIN plays : i > cur =>
            inventory[i] = IF plays[i].inventoryFile THEN Provided(i) ELSE NoFile
      BY <1>1 DEF FilesInv, Inventories, AtWork, Keyed
    <3>2. Provided(cur).play = cur /\ Provided(cur).kind = "provided"
      BY DEF Provided
    <3> QED
      BY <1>1, <1>5, <2>1, <2>2, <3>1, <3>2 DEF Inventories
  <2> QED
    BY <2>3, <2>4, <2>5, <2>6 DEF FilesInv
<1>6. CASE /\ inventory[cur] = NoFile /\ Created(made, "running")
           /\ inventory' = [inventory EXCEPT ![cur] = made] /\ UNCHANGED args
  <2>1. pc' = "running" /\ files' = files \cup {made} /\ ~plays[cur].inventoryFile
    BY <1>2, <1>6 DEF Created, Goto, Provided, NoFile, Temp
  <2>2. StackInv'
    BY <1>1, <1>4, <1>6, CreatedStack DEF FilesInv
  <2>3. NotMade'
    <3>1. \A f \in files' : f.kind = "inventory" => f.play < cur \/ f.play = cur
      BY <1>3, <2>1
    <3> QED
      BY <1>1, <2>1, <3>1 DEF NotMade, NoBastionPem, NoBastionHosts, NoTargetHosts, Early,
         Acquiring, Scanning
  <2>4. ArgsThere'
    BY <1>3, <1>6, <2>1 DEF ArgsThere
  <2>5. Inventories'
    <3>1. \A i \in DOMAIN plays : i > cur =>
            inventory[i] = IF plays[i].inventoryFile THEN Provided(i) ELSE NoFile
      BY <1>1 DEF FilesInv, Inventories, AtWork, Keyed
    <3>2. inventory'[cur] = made /\ \A i \in DOMAIN plays : i > cur => inventory'[i] = inventory[i]
      BY <1>1, <1>6
    <3> QED
      BY <1>1, <2>1, <3>1, <3>2 DEF Inventories
  <2> QED
    BY <2>2, <2>3, <2>4, <2>5 DEF FilesInv
<1>7. CASE NotCreated(made)
  BY <1>1, <1>4, <1>7, FailedFiles
<1> QED
  BY <1>5, <1>6, <1>7 DEF ExecutePlay

(* The operations from the known_hosts files to the result. *)
LEMMA ProvisionFiles ==
  ASSUME TypeInv, FilesInv, Provision
  PROVE  FilesInv'
<1>1. CASE SkipDisabled
  <2>1. UNCHANGED <<config, fileVars>> /\ pc = "play" /\ pc' = "play" /\ cur' = cur + 1
    BY <1>1 DEF SkipDisabled
  <2> QED
    BY <2>1, NextPlayFiles
<1>2. CASE PlayEnds
  <2>1. UNCHANGED <<config, fileVars>> /\ pc = "running"
    BY <1>2 DEF PlayEnds
  <2>2. CASE Goto("play") /\ cur' = cur + 1
    BY <2>1, <2>2, NextPlayFiles DEF Goto
  <2>3. CASE Return("error") /\ UNCHANGED cur
    BY <2>1, <2>3, QuietFiles DEF Return, FilesOnward
  <2> QED
    BY <1>2, <2>2, <2>3 DEF PlayEnds
<1>3. CASE PlaysDone
  BY <1>3, QuietFiles DEF PlaysDone, Return, FilesOnward
<1>4. CASE Unwind
  <2>1. StackInv' /\ pc' \in {"unwind", "done", "failed"}
    BY <1>4, UnwindStack DEF Unwind, FilesInv
  <2> QED
    BY <2>1 DEF FilesInv, NotMade, ArgsThere, Inventories, AtWork, Early, Acquiring, Scanning,
       Keyed, NoBastionPem, NoBastionHosts, NoTargetHosts
<1> QED
  BY <1>1, <1>2, <1>3, <1>4, HostsFiles, ExecuteFiles DEF Provision

(* At first there are the provided inventories. *)
LEMMA InitFiles == ASSUME Init PROVE FilesInv
<1>1. deferred = <<>> /\ leaked = {} /\ files = provided
  BY DEF Init, provided
<1>2. Queued = {}
  BY <1>1 DEF Queued
<1>3. StackInv
  BY <1>1, <1>2 DEF StackInv
<1>4. \A f \in files : f.kind = "provided"
  BY <1>1 DEF provided, Provided
<1>5. NotMade
  BY <1>4 DEF NotMade, Temp
<1>6. ArgsThere
  BY DEF Init, ArgsThere, NoBastionHosts, NoTargetHosts, Early
<1>7. Inventories
  <2>1. ASSUME NEW i \in DOMAIN plays
        PROVE  inventory[i] = IF plays[i].inventoryFile THEN Provided(i) ELSE NoFile
    <3>1. i \in Index /\ inventory[i] = IF Provided(i) \in files THEN Provided(i) ELSE NoFile
      BY PlayFacts DEF Init
    <3>2. Provided(i) \in files <=> plays[i].inventoryFile
      BY <1>1 DEF provided, Provided
    <3> QED
      BY <3>1, <3>2
  <2> QED
    BY <2>1 DEF Inventories, Init
<1> QED
  BY <1>3, <1>5, <1>6, <1>7 DEF FilesInv

(* FilesInv holds in every state. *)
LEMMA FilesAlways == Spec => [](TypeInv /\ FilesInv)
<1>1. TypeInv /\ FilesInv /\ [Next]_vars => FilesInv'
  <2> SUFFICES ASSUME TypeInv, FilesInv, [Next]_vars PROVE FilesInv'
    OBVIOUS
  <2>1. CASE Boot \/ Rekey \/ Stall \/ UNCHANGED vars
    <3>1. UNCHANGED <<config, cur, fileVars>> /\ FilesOnward
      BY <2>1 DEF Boot, Rekey, Stall, vars, FilesOnward
    <3> QED
      BY <3>1, QuietFiles
  <2> QED
    BY <2>1, PrepareFiles, AcquireFiles, ProvisionFiles DEF Next, Step
<1> QED
  BY <1>1, InitFiles, TypeAlways, PTL DEF Spec

(* However a run ends, and wherever it failed, its deferred removals leave  *)
(* the provided inventories, and files whose own write failed.              *)
THEOREM OnlyProvidedIsLeft == Spec => []OnlyProvidedLeft
<1>1. FilesInv => OnlyProvidedLeft
  BY DEF FilesInv, StackInv, Queued, OnlyProvidedLeft
<1> QED
  BY <1>1, FilesAlways, PTL

(* Every file a play's command names is there while it runs, and the        *)
(* inventory is that play's own.                                            *)
THEOREM CommandFilesAreThere == Spec => []CommandFilesExist
<1>1. TypeInv /\ FilesInv => CommandFilesExist
  BY DEF FilesInv, ArgsThere, Inventories, CommandFilesExist, play, AtWork, Keyed,
     NoBastionHosts, NoTargetHosts, Early, Acquiring, Scanning
<1> QED
  BY <1>1, FilesAlways, PTL

-----------------------------------------------------------------------------
(* The refinement of ProvisionRun. *)

(* What has run are the enabled plays before the current one, and a result  *)
(* is there as soon as, and not before, Run returns.                        *)
RefInv ==
  /\ ran = {i \in DOMAIN plays : plays[i].enabled /\ i < cur}
  /\ pc = "running" => plays[cur].enabled
  /\ pc \in AtWork => outcome = "none"
  /\ pc \notin AtWork => outcome \in {"ok", "error", "panic"}

(* todo of ProvisionRun. *)
Todo == {i \in DOMAIN plays : plays[i].enabled}

(* A change of phase alone. *)
LEMMA Became ==
  ASSUME plays' = plays
  PROVE  \A p : phase' = p => Promise!Become("local", p)
BY DEF Promise!Become

(* No change of phase, no play that has succeeded: a stutter. *)
LEMMA MapsToStutter ==
  ASSUME plays' = plays, phase' = phase, ran' = ran
  PROVE  UNCHANGED Promise!vars
BY DEF Promise!vars

(* A failed run is one of ProvisionRun. *)
LEMMA MapsToFail ==
  ASSUME plays' = plays, ran' = ran, phase \in {"preparing", "running"}, phase' = "failed"
  PROVE  Promise!Next
<1>1. Promise!Fail("local")
  BY Became DEF Promise!Fail
<1> QED
  BY <1>1 DEF Promise!Next

(* At an enabled play, the play is the first one not executed yet. *)
LEMMA CurIsNext ==
  ASSUME TypeInv, RefInv, cur \in DOMAIN plays, plays[cur].enabled
  PROVE  cur \in Index /\ Promise!IsNext("local", cur)
<1>1. cur \in Index /\ cur \in Nat /\ DOMAIN plays \subseteq Nat
  BY PlayFacts DEF TypeInv, TypeOK, Index
<1>2. \A j \in Todo \ ran : cur <= j
  BY <1>1 DEF RefInv, Todo
<1>3. cur \in Todo \ ran
  BY <1>1 DEF RefInv, Todo
<1> QED
  BY <1>1, <1>2, <1>3 DEF Promise!IsNext, Todo

(* Steps before and between the plays, and after them. *)
LEMMA QuietRef ==
  ASSUME TypeInv, RefInv, UNCHANGED <<config, cur, ran, outcome>>,
         \/ pc' = pc
         \/ pc \in AtWork \ {"idle", "running"} /\ pc' \in AtWork \ {"idle", "running"}
         \/ pc = "unwind" /\ pc' = (IF outcome = "ok" THEN "done" ELSE "failed")
  PROVE  RefInv' /\ UNCHANGED Promise!vars
<1> USE DEF config, AtWork, Early, Acquiring, Scanning, Keyed
<1>1. RefInv'
  BY DEF RefInv
<1>2. phase' = phase
  BY DEF phase, RefInv
<1> QED
  BY <1>1, <1>2, MapsToStutter

(* An error return, from wherever. *)
LEMMA ReturnRef ==
  ASSUME TypeInv, RefInv, NEW result \in {"error", "panic"}, Return(result),
         UNCHANGED <<config, cur, ran>>, pc \in AtWork \ {"idle"}
  PROVE  RefInv' /\ Promise!Next
<1> USE DEF config, AtWork, Early, Acquiring, Scanning, Keyed
<1>1. RefInv'
  BY DEF RefInv, Return
<1>2. phase \in {"preparing", "running"} /\ phase' = "failed"
  BY DEF phase, Return
<1> QED
  BY <1>1, <1>2, MapsToFail

(* Start is Begin; until the keys are asked for a step fails or stutters. *)
LEMMA PrepareRef ==
  ASSUME TypeInv, RefInv, Prepare
  PROVE  RefInv' /\ [Promise!Next]_Promise!vars
<1>1. CASE Start
  <2>1. phase = "waiting" /\ phase' = "preparing" /\ UNCHANGED <<plays, cur, ran>>
    BY <1>1 DEF Start, Goto, config, phase
  <2>2. Promise!Begin("local")
    BY <2>1, Became DEF Promise!Begin
  <2>3. RefInv'
    BY <1>1, <2>1 DEF Start, Goto, RefInv, AtWork, Early
  <2> QED
    BY <2>2, <2>3 DEF Promise!Next
<1>2. CASE Prepare /\ ~Start
  <2>1. pc \in AtWork \ {"idle", "running"} /\ UNCHANGED <<config, cur, ran>>
    BY <1>2 DEF Prepare, NewLocalMode, Validate, WriteBastionPem, WriteTargetPem, AtWork, Early
  <2>2. \/ (outcome' = outcome /\ pc' \in AtWork \ {"idle", "running"})
        \/ Return("error")
    BY <1>2 DEF Prepare, NewLocalMode, Validate, WriteBastionPem, WriteTargetPem, Created,
       NotCreated, Goto, AtWork, Early, Acquiring
  <2> QED
    BY <2>1, <2>2, QuietRef, ReturnRef
<1> QED
  BY <1>1, <1>2

(* Finding the host keys fails or stutters. *)
LEMMA AcquireRef ==
  ASSUME TypeInv, RefInv, AcquireKeys
  PROVE  RefInv' /\ [Promise!Next]_Promise!vars
<1> USE DEF AtWork, Acquiring, Scanning, Keyed
<1>1. pc \in AtWork \ {"idle", "running"} /\ UNCHANGED <<config, cur, ran>>
  BY DEF AcquireKeys, ConnectBastion, TargetKeyGiven, TargetKeyWanted, Fetch, FetchWait, ScanDir,
     Scan, ScanWait, ScanRead, Wait, Early
<1>2. \/ (outcome' = outcome /\ pc' \in AtWork \ {"idle", "running"})
      \/ \E result \in {"error", "panic"} : Return(result)
  <2>1. CASE ConnectBastion
    <3>1. bastionKey \in Keys \cup {NoKey}
      BY DEF TypeInv, TypeOK
    <3>2. PICK s \in Server : \E d \in Dial(bastionKey, s, bastionClient) :
            IF d.result = "ok" THEN Goto("keys") ELSE Return(d.result)
      BY <2>1 DEF ConnectBastion
    <3>3. PICK d \in Dial(bastionKey, s, bastionClient) :
            IF d.result = "ok" THEN Goto("keys") ELSE Return(d.result)
      BY <3>2
    <3>4. d.result \in {"ok", "error", "panic"}
      BY <3>1, <3>2, <3>3, ClientFacts, DialFacts
    <3> QED
      BY <3>3, <3>4 DEF Goto, Early
  <2>2. CASE Fetch
    BY <2>2 DEF Fetch, Goto, KeysKnown, Early
  <2>3. CASE AcquireKeys /\ ~ConnectBastion /\ ~Fetch
    BY <2>3 DEF AcquireKeys, TargetKeyGiven, TargetKeyWanted, FetchWait, ScanDir,
       Scan, ScanWait, ScanRead, Wait, KeysKnown, Goto, Early
  <2> QED
    BY <2>1, <2>2, <2>3
<1> QED
  BY <1>1, <1>2, QuietRef, ReturnRef

(* The plays, one after the other. *)
LEMMA ProvisionRef ==
  ASSUME TypeInv, RefInv, Provision
  PROVE  RefInv' /\ [Promise!Next]_Promise!vars
<1> USE DEF config, AtWork, Early, Acquiring, Scanning, Keyed
<1>0. cur \in Nat /\ DOMAIN plays \subseteq Nat /\ Len(plays) \in Nat
      /\ DOMAIN plays = 1 .. Len(plays) /\ cur >= 1
  BY PlayFacts DEF TypeInv, TypeOK, Control, Index
<1>1. CASE WriteBastionHosts \/ WriteTargetHosts
  <2>1. pc \in AtWork \ {"idle", "running"} /\ UNCHANGED <<config, cur, ran>>
    BY <1>1 DEF WriteBastionHosts, WriteTargetHosts
  <2>2. \/ (outcome' = outcome /\ pc' \in AtWork \ {"idle", "running"})
        \/ Return("error")
    BY <1>1 DEF WriteBastionHosts, WriteTargetHosts, Created, NotCreated, Goto
  <2> QED
    BY <2>1, <2>2, QuietRef, ReturnRef
<1>2. CASE SkipDisabled
  <2>1. pc = "play" /\ pc' = "play" /\ cur' = cur + 1 /\ ~plays[cur].enabled
        /\ UNCHANGED <<plays, ran, outcome>>
    BY <1>2 DEF SkipDisabled, play
  <2>2. \A i \in DOMAIN plays : i < cur + 1 <=> i < cur \/ i = cur
    BY <1>0
  <2>3. RefInv'
    BY <2>1, <2>2 DEF RefInv
  <2>4. phase' = phase
    BY <2>1 DEF phase
  <2> QED
    BY <2>1, <2>3, <2>4, MapsToStutter
<1>3. CASE ExecutePlay
  <2>1. pc = "play" /\ cur \in DOMAIN plays /\ plays[cur].enabled /\ UNCHANGED <<config, cur, ran>>
    BY <1>0, <1>3 DEF ExecutePlay, play
  <2>2. (pc' = "running" /\ outcome' = outcome) \/ Return("error")
    BY <1>3 DEF ExecutePlay, Created, NotCreated, Goto
  <2>3. CASE pc' = "running" /\ outcome' = outcome
    <3>1. phase = "preparing" /\ phase' = "running"
      BY <2>1, <2>3 DEF phase
    <3>2. Promise!Execute("local")
      BY <2>1, <3>1, Became, CurIsNext DEF Promise!Execute
    <3>3. RefInv'
      BY <2>1, <2>3 DEF RefInv
    <3> QED
      BY <3>2, <3>3 DEF Promise!Next
  <2>4. CASE Return("error")
    BY <2>1, <2>4, ReturnRef
  <2> QED
    BY <2>2, <2>3, <2>4
<1>4. CASE PlayEnds
  <2>1. pc = "running" /\ cur \in DOMAIN plays /\ plays[cur].enabled /\ UNCHANGED config
    BY <1>4 DEF PlayEnds, TypeInv, Control, RefInv
  <2>2. CASE Goto("play") /\ cur' = cur + 1 /\ ran' = ran \cup {cur}
    <3>1. phase = "running" /\ phase' = "preparing" /\ plays' = plays
      BY <2>1, <2>2 DEF phase, Goto
    <3>2. Promise!PlaySucceeds("local")
      BY <2>1, <2>2, <3>1, Became, CurIsNext DEF Promise!PlaySucceeds
    <3>3. \A i \in DOMAIN plays : i < cur + 1 <=> i < cur \/ i = cur
      BY <1>0
    <3>4. RefInv'
      BY <2>1, <2>2, <3>3 DEF RefInv, Goto
    <3> QED
      BY <3>2, <3>4 DEF Promise!Next
  <2>3. CASE Return("error") /\ UNCHANGED <<cur, ran>>
    BY <2>1, <2>3, ReturnRef
  <2> QED
    BY <1>4, <2>2, <2>3 DEF PlayEnds
<1>5. CASE PlaysDone
  <2>1. pc = "play" /\ cur > Len(plays) /\ Return("ok") /\ UNCHANGED <<config, cur, ran>>
    BY <1>5 DEF PlaysDone
  <2>2. phase = "preparing" /\ phase' = "ok"
    BY <2>1 DEF phase, Return
  <2>3. ran = Todo
    BY <1>0, <2>1 DEF RefInv, Todo
  <2>4. Promise!Succeed("local")
    BY <2>1, <2>2, <2>3, Became DEF Promise!Succeed, Todo
  <2>5. RefInv'
    BY <2>1 DEF RefInv, Return
  <2> QED
    BY <2>4, <2>5 DEF Promise!Next
<1>6. CASE Unwind
  BY <1>6, QuietRef DEF Unwind
<1> QED
  BY <1>1, <1>2, <1>3, <1>4, <1>5, <1>6 DEF Provision

(* The initial states map to initial states. *)
LEMMA InitRef == ASSUME Init PROVE RefInv /\ Promise!Init
<1>1. DOMAIN plays \subseteq Nat /\ DOMAIN plays \subseteq Index /\ \A i \in DOMAIN plays : i >= 1
  BY PlayFacts DEF Init, Index
<1>2. RefInv
  BY <1>1 DEF Init, RefInv, AtWork, Early
<1>3. phase = "waiting" /\ ran = {}
  BY DEF Init, phase
<1> QED
  BY <1>1, <1>2, <1>3 DEF Promise!Init

(* Local mode does what ProvisionRun promises, for any list of plays and    *)
(* wherever it fails: the enabled plays, in order, one at a time.           *)
THEOREM LocalImplements == Spec => ImplementsProvisionRun
<1>1. Init => RefInv /\ Promise!Init
  BY InitRef
<1>2. TypeInv /\ RefInv /\ [Next]_vars => RefInv' /\ [Promise!Next]_Promise!vars
  <2> SUFFICES ASSUME TypeInv, RefInv, [Next]_vars PROVE RefInv' /\ [Promise!Next]_Promise!vars
    OBVIOUS
  <2>1. CASE Boot \/ Rekey \/ Stall \/ UNCHANGED vars
    <3>1. UNCHANGED <<config, cur, ran, outcome>> /\ pc' = pc
      BY <2>1 DEF Boot, Rekey, Stall, vars
    <3> QED
      BY <3>1, QuietRef
  <2> QED
    BY <2>1, PrepareRef, AcquireRef, ProvisionRef DEF Next, Step
<1> QED
  BY <1>1, <1>2, TypeAlways, PTL DEF Spec, ImplementsProvisionRun, Promise!Spec
=============================================================================
