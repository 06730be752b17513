------------------------------- MODULE Panel -------------------------------
(***************************************************************************)
(* What the owner's observability panel shows while its range changes      *)
(* (useOwnerObservability.ts, OwnerObservabilityPanel.tsx,                 *)
(* OwnerTelemetryBoundary.tsx and owner-session.ts of                      *)
(* src/components/dashboard/observability).                                *)
(*                                                                         *)
(* A range has its own poller (Poller).  React renders the panel for a new *)
(* range before the effect that stops the old poller has run, and applies  *)
(* snapshots in transitions, later than they are published.                *)
(*                                                                         *)
(* Abstractions.  A value is the version of the server's data it is from;  *)
(* 0 is what the page was loaded with, Nothing an empty history.  A poll   *)
(* is one step, its interleavings are those of Poller.                     *)
(***************************************************************************)
EXTENDS Integers, Sequences, FiniteSetsExt

CONSTANTS
  Ranges,      \* what the owner may select
  FirstRange,  \* the one a page starts with
  MaxData,     \* bound: versions of the server's data
  MaxPending   \* bound: transitions not yet applied

ASSUME PanelConstants == FirstRange \in Ranges /\ MaxData \in Nat /\ MaxPending \in Nat

VARIABLES
  range,     \* the selected range, as rendered
  polled,    \* the poller of the rendered range: its snapshot
  old,       \* the poller that is still to be stopped, its snapshot, or <<>>
  kept,      \* the snapshot in the state of the component
  pending,   \* the snapshots of transitions under way
  version,   \* what the server has
  valid,     \* is the owner's session valid?
  lapsed,    \* the flag of owner-session.ts
  newest     \* the newest values that have been on the screen

panelVars == <<range, polled, old, kept, pending, version, valid, lapsed, newest>>

-----------------------------------------------------------------------------
Nothing == -1
\* A snapshot: its queryKey, what it holds, whether the last poll failed.
Initial(r) == [key |-> r, latest |-> 0, series |-> IF r = FirstRange THEN 0 ELSE Nothing,
               failed |-> FALSE, cleared |-> FALSE]
Cleared(s) == [s EXCEPT !.latest = Nothing, !.series = Nothing, !.failed = FALSE, !.cleared = TRUE]

PanelInit ==
  /\ range = FirstRange /\ polled = Initial(FirstRange) /\ old = <<>>
  /\ kept = Initial(FirstRange) /\ pending = <<>>
  /\ version = 0 /\ valid = TRUE /\ lapsed = FALSE /\ newest = 0

ServerPublishes ==
  /\ version < MaxData /\ version' = version + 1
  /\ UNCHANGED <<range, polled, old, kept, pending, valid, lapsed>>

SessionLapses ==
  /\ valid /\ valid' = FALSE
  /\ UNCHANGED <<range, polled, old, kept, pending, version, lapsed>>

\* The result of a poll: nothing, no session, everything or some of it.
Results(s) ==
  {[s EXCEPT !.failed = TRUE]} \cup
  IF ~valid THEN {Cleared(s)}
  ELSE {[s EXCEPT !.latest = version, !.series = version, !.failed = FALSE],
        [s EXCEPT !.latest = version, !.failed = TRUE]}

\* A poller publishes; the subscription starts a transition.  markOwnerSessionExpired.
Publishes(s, result) ==
  /\ ~s.cleared /\ Len(pending) < MaxPending
  /\ pending' = Append(pending, result)
  /\ lapsed' = (lapsed \/ result.cleared)

PollerPublishes ==
  /\ old = <<>>
  /\ \E s \in Results(polled) : Publishes(polled, s) /\ polled' = s
  /\ UNCHANGED <<range, old, kept, version, valid>>

OldPublishes ==
  /\ old # <<>>
  /\ \E s \in Results(old[1]) : Publishes(old[1], s) /\ old' = <<s>>
  /\ UNCHANGED <<range, polled, kept, version, valid>>

\* The owner selects another range: the panel is rendered with a new poller,
\* made from what the page was loaded with.
Selects ==
  /\ ~lapsed /\ old = <<>>
  /\ \E r \in Ranges \ {range} : range' = r /\ polled' = Initial(r)
  /\ old' = <<polled>>
  /\ UNCHANGED <<kept, pending, version, valid, lapsed>>

\* The effect: the old poller is stopped, the new one started.
EffectRuns ==
  /\ old # <<>> /\ old' = <<>>
  /\ UNCHANGED <<range, polled, kept, pending, version, valid, lapsed>>

TransitionEnds ==
  /\ pending # <<>>
  /\ kept' = Head(pending) /\ pending' = Tail(pending)
  /\ UNCHANGED <<range, polled, old, version, valid, lapsed>>

\* Mutant: the state is shown whatever it was asked for.
AsKept == kept
\* currentSnapshot
Current == IF kept.key = range THEN kept ELSE polled

BoundaryHides == lapsed

OnScreen == IF BoundaryHides THEN Cleared(Current) ELSE Current

PanelNext ==
  /\ \/ ServerPublishes \/ SessionLapses \/ PollerPublishes \/ OldPublishes
     \/ Selects \/ EffectRuns \/ TransitionEnds
  /\ newest' = Max({newest, OnScreen'.latest})

PanelSpec == PanelInit /\ [][PanelNext]_panelVars

-----------------------------------------------------------------------------
(* Properties.                                                             *)

\* Beside the selected range stands its own history or none, however late
\* the snapshots of other ranges come; and once a poll has found the session
\* expired nothing of it is on the screen, although earlier snapshots are
\* still under way.
PanelHonest ==
  /\ OnScreen.series # Nothing => OnScreen.key = range
  /\ lapsed => OnScreen.latest = Nothing /\ OnScreen.series = Nothing

\* OwnerObservabilityPanel.tsx:125, "Owner refresh failed. Showing the last
\* loaded snapshot.": what is shown then is the newest that was shown.
LastLoadedShown == OnScreen.failed => OnScreen.latest >= newest
=============================================================================
