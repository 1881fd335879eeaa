-------------------------- MODULE MCStateMigration --------------------------
(***************************************************************************)
(* Instances of StateMigration: three state names, two of which fall into  *)
(* the same schema ("a-b" and "a_b"), in batches of one or two.            *)
(***************************************************************************)
EXTENDS StateMigration, TLC

CONSTANTS ab, aUb, c

Names       == {ab, aUb, c}
Schemas3    == (ab :> "a_b") @@ (aUb :> "a_b") @@ (c :> "c")
Selections  == {<<ab>>, <<aUb>>, <<ab, c>>, <<ab, aUb>>}
=============================================================================
