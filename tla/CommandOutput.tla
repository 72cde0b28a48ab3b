--------------------------- MODULE CommandOutput ---------------------------
(***************************************************************************)
(* How the output of a remote command reaches the terraform UI:            *)
(* RemoteMode.runCommand and copyOutput (mode/mode_remote.go), and the     *)
(* bastion's execute, redirectOutputs and copyOutput                       *)
(* (mode/ssh_bastion_keyscan.go).  Per stream there is a goroutine of the  *)
(* SSH session, or io.Copy, that fills an io.Pipe, and a copyOutput with   *)
(* its line reader that empties it; the caller starts the command, waits   *)
(* for it, closes the pipes and waits for the copyOutputs.                 *)
(***************************************************************************)
EXTENDS Integers

CONSTANTS
  Streams,  \* stdout and stderr
  MaxLines, \* bound on the lines a command writes to one of them
  Buffer    \* bound on the lines a line reader holds

ASSUME OutputAssumption == MaxLines \in Nat /\ Buffer \in Nat \ {0}

VARIABLES
  caller,  \* "runCommand" or "execute"
  pc,      \* the caller's next operation
  command, \* the command: not started, running, exited, or its connection lost
  written, \* stream -> lines the command has written
  piped,   \* stream -> lines the line reader has taken out of the pipe
  shown,   \* stream -> lines given to the UI
  filler,  \* stream -> the goroutine that fills the pipe: none, copying, ended
  closed,  \* stream -> is the pipe's writer closed?
  copier   \* stream -> copyOutput: none, copying, ended (its channel closed)

vars == <<caller, pc, command, written, piped, shown, filler, closed, copier>>

Set(x) == [s \in Streams |-> x]

Init ==
  /\ caller \in {"runCommand", "execute"}
  /\ pc = "begin" /\ command = "none"
  /\ written = Set(0) /\ piped = Set(0) /\ shown = Set(0)
  /\ filler = Set("none") /\ closed = Set(FALSE) /\ copier = Set("none")

flow == <<written, piped, shown>>

(* io.Pipe twice and go copyOutput twice.  execute creates its session and  *)
(* asks for a terminal first, and its pipes are filled by io.Copy from      *)
(* session.StdoutPipe, which may fail: then cleanupF closes and waits.      *)
Begin ==
  /\ pc = "begin"
  /\ \/ caller = "execute" /\ pc' = "returned" /\ UNCHANGED <<copier, filler>>
     \/ caller = "execute" /\ pc' = "close" /\ copier' = Set("copying") /\ UNCHANGED filler
     \/ pc' = "start" /\ copier' = Set("copying")
        /\ filler' = IF caller = "execute" THEN Set("copying") ELSE filler
  /\ UNCHANGED <<caller, command, flow, closed>>

(* comm.Start, session.Run: when runCommand's fails it returns at once, and *)
(* leaves its pipes open and its copyOutputs behind.                        *)
StartCommand ==
  /\ pc = "start"
  /\ \/ /\ command' = "running" /\ filler' = Set("copying") /\ pc' = "wait"
     \/ /\ UNCHANGED <<command, filler>>
        /\ pc' = IF caller = "runCommand" THEN "returned" ELSE "close"
  /\ UNCHANGED <<caller, flow, closed, copier>>

(* The pipes closed while the session still fills them. *)
BugWaitOmitted ==
  /\ pc = "wait" /\ pc' = "close"
  /\ UNCHANGED <<caller, command, flow, filler, closed, copier>>

(* cmd.Wait, which fails without an exit when the connection is lost: the   *)
(* session waits for the command and, when it was given the writers, for    *)
(* its own goroutines that fill them; with StdoutPipe not.                  *)
WaitCommand ==
  /\ pc = "wait" /\ command \in {"exited", "lost"}
  /\ caller = "runCommand" => filler = Set("ended")
  /\ pc' = "close"
  /\ UNCHANGED <<caller, command, flow, filler, closed, copier>>

(* The done channels received from before the writers are closed. *)
BugAwaitBeforeClose ==
  /\ pc = "close" /\ copier = Set("ended")
  /\ closed' = Set(TRUE) /\ pc' = "await"
  /\ UNCHANGED <<caller, command, flow, filler, copier>>

ClosePipes ==
  /\ pc = "close" /\ closed' = Set(TRUE) /\ pc' = "await"
  /\ UNCHANGED <<caller, command, flow, filler, copier>>

(* No <-outDoneCh: the function returns with lines still to come. *)
BugNoAwait ==
  /\ pc = "await" /\ pc' = "returned"
  /\ UNCHANGED <<caller, command, flow, filler, closed, copier>>

AwaitCopiers ==
  /\ pc = "await" /\ copier = Set("ended") /\ pc' = "returned"
  /\ UNCHANGED <<caller, command, flow, filler, closed, copier>>

(* The command, on the server. *)
Write(s) ==
  /\ command = "running" /\ written[s] < MaxLines
  /\ written' = [written EXCEPT ![s] = @ + 1]
  /\ UNCHANGED <<caller, pc, command, piped, shown, filler, closed, copier>>
Exit ==
  /\ command = "running" /\ command' = "exited"
  /\ UNCHANGED <<caller, pc, flow, filler, closed, copier>>

(* The connection breaks while the command runs: how it ends, and what it   *)
(* wrote that has not arrived, nobody here will know.                       *)
Lose ==
  /\ command = "running" /\ command' = "lost"
  /\ UNCHANGED <<caller, pc, flow, filler, closed, copier>>

(* The goroutine that fills the pipe: a write returns once the reader has   *)
(* taken it, and fails once the pipe is closed.                             *)
Fill(s) ==
  /\ filler[s] = "copying" /\ ~closed[s]
  /\ piped[s] < written[s] /\ piped[s] < shown[s] + Buffer /\ copier[s] = "copying"
  /\ piped' = [piped EXCEPT ![s] = @ + 1]
  /\ UNCHANGED <<caller, pc, command, written, shown, filler, closed, copier>>
FillEnds(s) ==
  /\ filler[s] = "copying"
  /\ (command = "exited" /\ piped[s] = written[s]) \/ (closed[s] /\ piped[s] < written[s])
     \/ pc = "returned" \/ command = "lost"
  /\ filler' = [filler EXCEPT ![s] = "ended"]
  /\ UNCHANGED <<caller, pc, command, flow, closed, copier>>

(* copyOutput: a line at a time to the UI, and its channel closed when the  *)
(* line reader has seen the end of the pipe and handed over what it held.   *)
Show(s) ==
  /\ copier[s] = "copying" /\ shown[s] < piped[s]
  /\ shown' = [shown EXCEPT ![s] = @ + 1]
  /\ UNCHANGED <<caller, pc, command, written, piped, filler, closed, copier>>
ShowEnds(s) ==
  /\ copier[s] = "copying" /\ closed[s] /\ shown[s] = piped[s]
  /\ copier' = [copier EXCEPT ![s] = "ended"]
  /\ UNCHANGED <<caller, pc, command, flow, filler, closed>>

Call == Begin \/ StartCommand \/ WaitCommand \/ ClosePipes \/ AwaitCopiers
Filler(s) == Fill(s) \/ FillEnds(s)
Copier(s) == Show(s) \/ ShowEnds(s)

Next == Call \/ Exit \/ Lose \/ \E s \in Streams : Write(s) \/ Filler(s) \/ Copier(s)

Spec == Init /\ [][Next]_vars

(* The goroutines are scheduled.  Nothing is assumed of the command.        *)
FairSpec == Spec /\ WF_vars(Call) /\ \A s \in Streams : WF_vars(Filler(s)) /\ WF_vars(Copier(s))

-----------------------------------------------------------------------------
(* Properties *)

(* When runCommand has returned, the UI has every line its command wrote,   *)
(* or every line that had arrived when the connection was lost: the pipes   *)
(* are closed only after the session has filled them, and the return waits  *)
(* for copyOutput.                                                          *)
OutputComplete ==
  pc = "returned" /\ caller = "runCommand" =>
    shown = piped /\ (command # "lost" => piped = written)

(* A caller that got as far as starting its command, and execute always,    *)
(* leaves no copyOutput behind.                                             *)
CopiersEnd ==
  pc = "returned" /\ (command # "none" \/ caller = "execute") =>
    \A s \in Streams : copier[s] # "copying"

(* A caller whose command exits, or whose connection is lost, returns: no   *)
(* goroutine waits for another in a circle, with however full a pipe.       *)
ReturnsAfterExit == command \in {"exited", "lost"} ~> pc = "returned"
=============================================================================
