------------------------------ MODULE SshHost ------------------------------
(***************************************************************************)
(* An SSH server as the provisioner meets it: mode/ssh_configurable.go     *)
(* builds the client's configuration, ssh_bastion_host.go and              *)
(* ssh_target_host.go dial with it.                                        *)
(***************************************************************************)
CONSTANTS
  Keys,  \* host keys
  NoKey  \* the empty string: no host key known

ASSUME KeyAssumption == NoKey \notin Keys

(* A server: is it down, silent (it accepts the connection and then says    *)
(* nothing) or up, with which host key, and does it accept the user's       *)
(* credentials (a machine that boots has no such user at first)?            *)
Server == [status : {"down", "silent", "up"}, key : Keys, accepts : BOOLEAN]

(* A private key: none, one that parses, one that does not (publicKeyFile   *)
(* returns nil).                                                            *)
Pem == {"none", "good", "bad"}

(* What authentication the client has: a private key, an agent that is not  *)
(* used, used, or used though its socket is gone (sshAgent returns nil).    *)
Client == [pem : Pem, agent : {"off", "on", "dead"}]

(* The callback that records a key left in place when a key is known. *)
BugDialTrustsLast(known, s, c) ==
  (IF s.status = "silent" THEN {} ELSE {[result |-> "error", key |-> known]}) \cup
  (IF s.status = "up"
   THEN {[result |-> x, key |-> s.key] : x \in {"error", IF s.accepts THEN "ok" ELSE "error"}}
   ELSE {})

(* The outcomes of ssh.Dial with the configuration of sshConfig, and the    *)
(* host key of the connection info after it.  Any dial may fail, before the *)
(* key exchange or after it.  Without a known key the callback records the  *)
(* one presented, before authentication; with one, knownhosts refuses any   *)
(* other.  A nil authentication method panics when its turn comes.  The     *)
(* configuration's Timeout is that of the TCP connection: a dial to a       *)
(* silent server has no outcome.                                            *)
Dial(known, s, c) ==
  LET met == s.status = "up" /\ known \in {NoKey, s.key}
      authenticated ==
        IF c.pem = "bad" THEN "panic"
        ELSE IF s.accepts /\ c.pem = "good" THEN "ok"
        ELSE IF c.agent = "dead" THEN "panic"
        ELSE IF s.accepts THEN "ok" ELSE "error"
  IN (IF s.status = "silent" THEN {} ELSE {[result |-> "error", key |-> known]}) \cup
     (IF met THEN {[result |-> x, key |-> s.key] : x \in {"error", authenticated}} ELSE {})
=============================================================================
