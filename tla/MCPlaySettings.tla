--------------------------- MODULE MCPlaySettings ---------------------------
(* Instances of PlaySettings for TLC: names of files, and the blocks that   *)
(* tell the settings apart, in both modes and for both kinds of resource.   *)
EXTENDS PlaySettings

MCMissing == {"gone", "late", "galaxy_install:inv"}
MCUnchecked == {"late", "galaxy_install:inv"}
MCEnvRoles == <<"env">>

None == [s \in Settings |-> <<>>]
Entry(entity, file) ==
  [entities |-> {entity}, known |-> TRUE, there |-> TRUE, enabled |-> TRUE, file |-> file,
   roles |-> <<>>, become |-> TRUE, set |-> None, unknown |-> {}]
Playbook == Entry("playbook", <<"site">>)
Module   == Entry("module", <<>>)
Galaxy   == Entry("galaxy_install", <<"req">>)

With(p, s, v) == [p EXCEPT !.set[s] = v]
Off(p) == [p EXCEPT !.enabled = FALSE]
Role1(n) == [galaxy |-> FALSE, name |-> n]
Late(p, there) == [p EXCEPT !.known = FALSE, !.there = there]
(* A value that is not known when it is validated. *)
Var(p, s, v) == [With(p, s, v) EXCEPT !.unknown = @ \cup {s}]
VarFile(p, n) == [p EXCEPT !.file = <<n>>, !.unknown = @ \cup {"file"}]
VarRoles(p, w) == [p EXCEPT !.roles = w, !.unknown = @ \cup {"roles"}]

Full == [With(With(With(Playbook, "vault_id", <<"id1", "", "id2">>), "hosts", <<"web", "db">>),
              "forks", <<"7">>)
         EXCEPT !.roles = <<Role1("role"), [galaxy |-> TRUE, name |-> "galaxy"]>>]

(* Plays that validate, by themselves and next to one another. *)
Good == {
  <<Full, Playbook>>,
  <<[Galaxy EXCEPT !.roles = <<Role1("vendor")>>], Galaxy,
    With(Module, "vault_password_file", <<"pass">>)>>,
  <<With(Playbook, "vault_id", <<"">>), Off(Playbook)>>,
  <<With(With(With(With(Module, "forks", <<"0">>), "become_user", <<"">>), "limit", <<"l">>),
         "inventory_file", <<"inv">>)>>,
  <<With(With(Module, "become_method", <<"su">>), "hosts", <<"", "db">>),
    With(Module, "hosts", <<"">>)>>,
  <<With(Module, "hosts", <<"localhost", "web">>), [Module EXCEPT !.become = FALSE]>>,
  <<Var(Var(With(Module, "hosts", <<"web">>), "inventory_file", <<"">>), "become_method", <<"">>),
    Off(Var(Playbook, "vault_password_file", <<"">>))>>,
  <<Var(Playbook, "vault_password_file", <<"">>), VarRoles(Galaxy, <<Role1("")>>)>>,
  <<>> }

(* Plays that do not, those whose entity is not known when they are         *)
(* validated, and those whose files are missed only when they are deployed. *)
Bad == {
  <<Playbook, [Playbook EXCEPT !.file = <<"gone">>]>>,
  <<Late(Playbook, TRUE), [Playbook EXCEPT !.roles = <<Role1("gone")>>]>>,
  <<Module, Late(Module, FALSE)>>,
  <<[Galaxy EXCEPT !.roles = <<Role1("gone")>>]>>,
  <<Late(Galaxy, TRUE), [Playbook EXCEPT !.file = <<"late">>]>>,
  <<[Playbook EXCEPT !.roles = <<Role1("late")>>]>>,
  <<[Module EXCEPT !.entities = {"module", "playbook"}]>>,
  <<[Module EXCEPT !.entities = {}, !.there = FALSE]>>,
  <<With(Module, "become_method", <<"">>)>>,
  <<With(Module, "vault_id", <<"gone">>)>>,
  <<With(Module, "inventory_file", <<"galaxy_install:inv">>)>>,
  <<Var(Module, "inventory_file", <<"gone">>)>>,
  <<With(Module, "inventory_file", <<"">>)>>,
  <<VarFile(Playbook, "")>>, <<VarFile(Galaxy, "gone")>>,
  <<VarRoles(Playbook, <<Role1("gone"), Role1("")>>), Module>> }

(* Everything a block of defaults may hold, and one that shows what is not  *)
(* displaced by vault ids. *)
Every == [s \in Settings |->
  CASE s = "forks" -> <<"9">> [] s = "become_method" -> <<"doas">> [] s = "hosts" -> <<"dh">>
    [] s = "vault_id" -> <<"did">>
    [] s \in {"become_user", "groups", "extra_vars", "limit"} -> <<s>>
    [] OTHER -> <<>>]
Files == [None EXCEPT !["vault_password_file"] = <<"dpass">>, !["inventory_file"] = <<"dinv">>]

Applied(playlists, defaults) ==
  [plays : playlists, readable : {TRUE}, defaults : defaults, unknown : {{}}, remote : BOOLEAN,
   host : {"", "10.0.0.1"}, user : {"user"}]

MCBlocks ==
  Applied(Good, {None, Every, Files}) \cup Applied(Bad, {None})
  \cup {[b EXCEPT !.readable = FALSE] : b \in Applied({<<>>}, {None})}
  \cup Applied({<<Module>>}, {[None EXCEPT !["vault_password_file"] = <<"gone">>]})
  \cup {[b EXCEPT !.unknown = {"inventory_file", "vault_password_file"}] :
          b \in Applied({<<Module, With(Module, "hosts", <<"web">>)>>},
                 {[None EXCEPT !["inventory_file"] = <<"">>, !["vault_password_file"] = <<"">>],
                  [None EXCEPT !["vault_password_file"] = <<"gone">>]})}
=============================================================================
