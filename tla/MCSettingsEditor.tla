-------------------------- MODULE MCSettingsEditor --------------------------
(* Instances of SettingsEditor for TLC. *)
EXTENDS SettingsEditor, TLC

Symmetry == Permutations(Tabs)
=============================================================================
