------------------------------ MODULE MCOwner ------------------------------
(* The file store of the owner state and its backup and restore share no   *)
(* state; one run checks both, and `part` says which of them moves.        *)
EXTENDS OwnerState, OwnerRestore, TLC

CONSTANTS p1, p2, v1, v2, r1, r2

VARIABLE part
allVars == <<part, stateVars, restoreVars>>

\* The part that does not move stays where its initial state put it.
Init ==
  /\ OwnerInit /\ RestoreInit
  /\ part \in {"files", "restore"}
  /\ part = "files" => sql = CHOOSE c \in Contents : TRUE
  /\ part = "restore" => file = Absent
FilesMove == part = "files" /\ OwnerNext /\ UNCHANGED <<part, restoreVars>>
RestoreMoves == part = "restore" /\ RestoreNext /\ UNCHANGED <<part, stateVars>>
Next == FilesMove \/ RestoreMoves
Spec == Init /\ [][Next]_allVars

Symmetry ==
  Permutations(Procs) \cup Permutations(Revs) \cup Permutations(Restorers)
=============================================================================
