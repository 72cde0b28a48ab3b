---------------------------- MODULE MCLocalMode ----------------------------
(* Instances of LocalMode for TLC. *)
EXTENDS LocalMode

CONSTANTS k1, k2

Direct == [compute |-> TRUE, bastion |-> FALSE, privateKey |-> "good",
           bastionPrivateKey |-> "none", agent |-> "", socket |-> "none",
           hostKey |-> NoKey, bastionHostKey |-> NoKey]
Behind == [Direct EXCEPT !.bastion = TRUE]

(* A key and no agent, an agent assumed whose socket is gone, a host key    *)
(* given; a bastion with the target's key, with one of its own and the      *)
(* agent found by its socket, with its host key given, with an agent asked  *)
(* for that is not there; keys that do not parse, the bastion's where there *)
(* is a bastion and where there is none; a null_resource.                   *)
MCConnections ==
  {Direct,
   [Direct EXCEPT !.privateKey = "none", !.socket = "stale"],
   [Direct EXCEPT !.hostKey = k1, !.agent = "false", !.socket = "live"],
   Behind,
   [Behind EXCEPT !.privateKey = "none", !.bastionPrivateKey = "good", !.socket = "live"],
   [Behind EXCEPT !.hostKey = k1, !.bastionHostKey = k2],
   [Behind EXCEPT !.privateKey = "none", !.agent = "true"],
   [Direct EXCEPT !.privateKey = "bad"],
   [Behind EXCEPT !.bastionPrivateKey = "bad"],
   [Direct EXCEPT !.bastionPrivateKey = "bad"],
   [Direct EXCEPT !.compute = FALSE, !.privateKey = "none", !.socket = "live"]}

Entry == [enabled |-> TRUE, hosts |-> TRUE, inventoryFile |-> FALSE]
Off(p) == [p EXCEPT !.enabled = FALSE]

(* A made and a provided inventory; a disabled play with no host before an  *)
(* enabled one.                                                             *)
MCPlaylists ==
  {<<Entry, [Entry EXCEPT !.hosts = FALSE, !.inventoryFile = TRUE]>>,
   <<Off([Entry EXCEPT !.hosts = FALSE]), Entry>>}
=============================================================================
