---------------------------- MODULE ProvisionRun ----------------------------
(***************************************************************************)
(* What a provisioner run promises, whichever mode executes it: its plays  *)
(* are executed one at a time and in the order of the configuration, none  *)
(* after one that failed, and the run is reported as successful only when  *)
(* every play it had to execute has succeeded.  mode_remote.go and         *)
(* mode_local.go are shown to implement it.                                *)
(***************************************************************************)
EXTENDS Integers

CONSTANTS
  Runs,  \* the runs
  Index  \* positions in a list of plays: natural numbers

VARIABLES
  todo,  \* run -> the positions of the plays it has to execute
  phase, \* run -> where it stands
  ran    \* run -> the positions of the plays that have succeeded

vars == <<todo, phase, ran>>

Phases == {"waiting", "preparing", "running", "ok", "failed"}

Init ==
  /\ todo \in [Runs -> SUBSET Index]
  /\ phase = [r \in Runs |-> "waiting"]
  /\ ran = [r \in Runs |-> {}]

Become(r, p) == phase' = [phase EXCEPT ![r] = p] /\ UNCHANGED todo

(* The first play not executed yet. *)
IsNext(r, i) == i \in todo[r] \ ran[r] /\ \A j \in todo[r] \ ran[r] : i <= j

Begin(r) == phase[r] = "waiting" /\ Become(r, "preparing") /\ UNCHANGED ran

Execute(r) ==
  /\ phase[r] = "preparing" /\ \E i \in Index : IsNext(r, i)
  /\ Become(r, "running") /\ UNCHANGED ran

PlaySucceeds(r) ==
  /\ phase[r] = "running" /\ Become(r, "preparing")
  /\ \E i \in Index : IsNext(r, i) /\ ran' = [ran EXCEPT ![r] = @ \cup {i}]

Fail(r) ==
  /\ phase[r] \in {"preparing", "running"}
  /\ Become(r, "failed") /\ UNCHANGED ran

Succeed(r) ==
  /\ phase[r] = "preparing" /\ ran[r] = todo[r]
  /\ Become(r, "ok") /\ UNCHANGED ran

Next == \E r \in Runs :
  Begin(r) \/ Execute(r) \/ PlaySucceeds(r) \/ Fail(r) \/ Succeed(r)

Spec == Init /\ [][Next]_vars
=============================================================================
