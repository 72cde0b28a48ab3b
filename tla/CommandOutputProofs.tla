------------------------- MODULE CommandOutputProofs -------------------------
(***************************************************************************)
(* OutputComplete and CopiersEnd, for any streams, any lengths of output   *)
(* and any size of the line readers' buffers.                              *)
(***************************************************************************)
EXTENDS CommandOutput, TLAPS

Steps == {"begin", "start", "wait", "close", "await", "returned"}

Types ==
  /\ caller \in {"runCommand", "execute"} /\ pc \in Steps
  /\ command \in {"none", "running", "exited", "lost"}
  /\ written \in [Streams -> Nat] /\ piped \in [Streams -> Nat] /\ shown \in [Streams -> Nat]
  /\ filler \in [Streams -> {"none", "copying", "ended"}]
  /\ closed \in [Streams -> BOOLEAN]
  /\ copier \in [Streams -> {"none", "copying", "ended"}]

(* What a line goes through, and when a copyOutput ends. *)
Pipes ==
  \A s \in Streams :
    /\ shown[s] <= piped[s] /\ piped[s] <= written[s]
    /\ command = "none" => written[s] = 0
    /\ closed[s] => pc \in {"await", "returned"}
    /\ copier[s] = "ended" => closed[s] /\ shown[s] = piped[s]

(* Where the caller is and where its command is. *)
Caller ==
  /\ pc \in {"begin", "start"} => command = "none"
  /\ pc = "begin" => \A s \in Streams : copier[s] = "none"
  /\ pc = "returned" /\ (command # "none" \/ caller = "execute") =>
       \A s \in Streams : copier[s] # "copying"

(* The session of runCommand has filled the pipes when Wait returns, with   *)
(* all the command wrote unless the connection was lost, and nothing is     *)
(* written to them afterwards.                                              *)
Ended == {"exited", "lost"}
Session ==
  caller = "runCommand" =>
    /\ pc \in {"begin", "start"} => \A s \in Streams : filler[s] = "none"
    /\ pc = "wait" =>
         \A s \in Streams :
           filler[s] = "ended" => command \in Ended /\ (command = "lost" \/ piped[s] = written[s])
    /\ pc \in {"close", "await"} => command \in Ended
    /\ pc = "returned" => command # "running"
    /\ pc \in {"close", "await", "returned"} =>
         \A s \in Streams : filler[s] # "copying" /\ (command = "lost" \/ piped[s] = written[s])
    /\ pc = "returned" => \A s \in Streams : shown[s] = piped[s]

OutputInv == Types /\ Pipes /\ Caller /\ Session

-----------------------------------------------------------------------------
(* The steps of the caller. *)
LEMMA CallKeeps ==
  ASSUME OutputInv, Call
  PROVE  OutputInv'
<1> USE DEF OutputInv, Types, Pipes, Caller, Session, Steps, Ended, Set, flow
<1>1. CASE Begin
  <2>1. ASSUME pc' = "returned" PROVE OutputInv'
    BY <1>1, <2>1 DEF Begin
  <2>2. ASSUME pc' \in {"close", "start"} PROVE OutputInv'
    BY <1>1, <2>2 DEF Begin
  <2> QED
    BY <1>1, <2>1, <2>2 DEF Begin
<1>2. CASE StartCommand
  <2>1. \A s \in Streams : written[s] = 0 /\ piped[s] = 0 /\ shown[s] = 0
    BY <1>2 DEF StartCommand
  <2>2. Types' /\ Pipes'
    BY <1>2, <2>1 DEF StartCommand
  <2>3. Caller' /\ Session'
    BY <1>2, <2>1 DEF StartCommand
  <2> QED
    BY <2>2, <2>3
<1>3. CASE WaitCommand
  BY <1>3 DEF WaitCommand
<1>4. CASE ClosePipes
  BY <1>4 DEF ClosePipes
<1>5. CASE AwaitCopiers
  BY <1>5 DEF AwaitCopiers
<1> QED
  BY <1>1, <1>2, <1>3, <1>4, <1>5 DEF Call

(* The command writes and exits, a pipe is filled and emptied. *)
LEMMA FlowKeeps ==
  ASSUME OutputInv, Exit \/ Lose \/ \E s \in Streams : Write(s) \/ Filler(s) \/ Copier(s)
  PROVE  OutputInv'
<1> USE DEF OutputInv, Types, Pipes, Caller, Session, Steps, Ended, flow
<1>1. CASE Exit \/ Lose
  BY <1>1 DEF Exit, Lose
<1>2. ASSUME NEW s \in Streams, Write(s) PROVE OutputInv'
  BY <1>2 DEF Write
<1>3. ASSUME NEW s \in Streams, Fill(s) PROVE OutputInv'
  BY <1>3 DEF Fill
<1>4. ASSUME NEW s \in Streams, FillEnds(s) PROVE OutputInv'
  BY <1>4 DEF FillEnds
<1>5. ASSUME NEW s \in Streams, Show(s) PROVE OutputInv'
  BY <1>5 DEF Show
<1>6. ASSUME NEW s \in Streams, ShowEnds(s) PROVE OutputInv'
  BY <1>6 DEF ShowEnds
<1> QED
  BY <1>1, <1>2, <1>3, <1>4, <1>5, <1>6 DEF Filler, Copier

LEMMA OutputInductive ==
  /\ Init => OutputInv
  /\ OutputInv /\ [Next]_vars => OutputInv'
<1>1. ASSUME Init PROVE OutputInv
  BY <1>1 DEF Init, Set, OutputInv, Types, Pipes, Caller, Session, Steps
<1>2. ASSUME OutputInv, UNCHANGED vars PROVE OutputInv'
  BY <1>2 DEF vars, OutputInv, Types, Pipes, Caller, Session
<1> QED
  BY <1>1, <1>2, CallKeeps, FlowKeeps DEF Next

(* When runCommand returns, terraform's UI has every line its command       *)
(* wrote, or every line that arrived before the connection was lost:        *)
(* whatever the lengths and the buffers, the pipes are closed after the     *)
(* session has filled them and the return waits for copyOutput.             *)
THEOREM OutputIsComplete == Spec => []OutputComplete
<1>1. OutputInv => OutputComplete
  BY DEF OutputInv, Session, Types, OutputComplete
<1> QED
  BY <1>1, OutputInductive, PTL DEF Spec

(* No copyOutput is left behind by a caller whose command started, nor by   *)
(* the bastion's execute in any case.                                       *)
THEOREM CopiersHaveEnded == Spec => []CopiersEnd
<1>1. OutputInv => CopiersEnd
  BY DEF OutputInv, Caller, CopiersEnd
<1> QED
  BY <1>1, OutputInductive, PTL DEF Spec
=============================================================================
