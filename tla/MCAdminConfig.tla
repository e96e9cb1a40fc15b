---------------------------- MODULE MCAdminConfig ----------------------------
(* AdminConfig on small instances. *)
EXTENDS AdminConfig

CONSTANTS a1, a2, a3, empty, url, key1, key2

MCDefault == [upstream |-> empty, key |-> Nothing, workers |-> 4, title |-> "shadraw"]
MCTitles == {"shadraw", "studio"}
=============================================================================
