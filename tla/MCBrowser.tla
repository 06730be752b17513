----------------------------- MODULE MCBrowser -----------------------------
(* What runs in the owner's browser: the poller of the dashboard, the      *)
(* panel that shows its snapshots, and the guard around unsaved changes.   *)
(* They share no state here; one run checks them, and `part` says which of *)
(* them moves.                                                             *)
EXTENDS Poller, Navigation, Panel

VARIABLE part
browserVars == <<part, vars, navVars, panelVars>>

\* A part that does not move stays where one initial state put it.
BrowserInit ==
  /\ Init /\ NavInit /\ PanelInit
  /\ part \in {"poller", "guard", "panel"}
  /\ part # "guard" => native /\ last = Last

BrowserNext ==
  \/ part = "poller" /\ Next /\ UNCHANGED <<part, navVars, panelVars>>
  \/ part = "guard" /\ NavNext /\ UNCHANGED <<part, vars, panelVars>>
  \/ part = "panel" /\ PanelNext /\ UNCHANGED <<part, vars, navVars>>

BrowserSpec ==
  /\ BrowserInit /\ [][BrowserNext]_browserVars
  /\ Fairness /\ NavFairness
=============================================================================
