------------------------------- MODULE Shapes -------------------------------
(***************************************************************************)
(* The shapes that Rust's types give a value: a Vec or a String is a       *)
(* sequence, an Option is <<>> or <<value>>.                               *)
(***************************************************************************)
EXTENDS Sequences

IsSeq(items) == items \in Seq({items[i] : i \in DOMAIN items})
IsOption(option, IsItem(_)) == option = <<>> \/ (option = <<option[1]>> /\ IsItem(option[1]))
IsList(items, IsItem(_)) == IsSeq(items) /\ \A i \in DOMAIN items : IsItem(items[i])
=============================================================================
