---------------------------- MODULE MCRemoteMode ----------------------------
(* Instances of RemoteMode for TLC: two local directories, one module       *)
(* directory and one directory of galaxy roles.                             *)
EXTENDS RemoteMode

CONSTANTS pb, role, mod, gal

MCLocalDirs == {pb, role}
MCMadeDirs == {mod, gal}

Entry(kind, dir) ==
  [kind |-> kind, enabled |-> TRUE, dir |-> dir, vaultID |-> <<>>,
   vaultPasswordFile |-> 0, roles |-> <<>>, roleFile |-> 0]

Full == [Entry("playbook", pb) EXCEPT !.vaultID = <<1, 0, 2>>, !.roles = <<role, GalaxyRole>>]
Plain == Entry("playbook", pb)
Ping == [Entry("module", mod) EXCEPT !.vaultPasswordFile = 1]
Galaxy == Entry("galaxy_install", gal)
Off(p) == [p EXCEPT !.enabled = FALSE]

(* A playbook with all it can have and a second one in its directory; one   *)
(* play of each kind, a disabled play before an enabled one.                *)
MCPlaylists == {<<Full, Plain>>, <<Galaxy, Off(Plain), Ping>>}

(* For the runs that interleave: a shared directory is what they collide on. *)
MCShared == {<<[Plain EXCEPT !.vaultPasswordFile = 1]>>, <<Ping>>}
=============================================================================
