---------------------------- MODULE MCWorkspace ----------------------------
(* Two tabs over a catalogue that starts with one project.                 *)
EXTENDS Workspace, TLC

CONSTANTS t1, t2

Symmetry == Permutations(Tabs)
=============================================================================
