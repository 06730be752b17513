----------------------------- MODULE Navigation -----------------------------
(***************************************************************************)
(* The guard around unsaved changes (useUnsavedChanges.ts) in a browser    *)
(* tab: the session history, the traversals the owner and the guard itself *)
(* ask for, the prompts, and Next's router, which shows the page of an     *)
(* entry when it is told of a popstate.                                    *)
(*                                                                         *)
(* A browser without the Navigation API, or one that does not let the page *)
(* cancel a traversal, has moved to the other entry before the guard hears *)
(* of it; the guard then keeps the event from the router and goes back by  *)
(* history.go(), which is queued behind whatever the owner asks for next.  *)
(*                                                                         *)
(* Abstractions.  An entry is its position; all are of this document (the  *)
(* browser's own beforeunload question covers the others).  A traversal's  *)
(* navigate event, its commit and its popstate are one step.  The owner    *)
(* does not type during the milliseconds of a traversal.                   *)
(***************************************************************************)
EXTENDS Integers, Sequences, FiniteSets

CONSTANTS
  Last,       \* bound: entries are within 0..Last
  Home,       \* the editor's entry
  Untracked,  \* entries without a recorded position
  Hurry,      \* may the owner traverse again, with entries ahead of the
              \* editor's, before the tab has come to rest?
  MaxMoves    \* bound: traversals by the owner

ASSUME NavigationConstants ==
  /\ Last \in Nat /\ Home \in 0..Last
  /\ Untracked \subseteq 0..Last \ {Home}
  /\ Hurry \in BOOLEAN /\ MaxMoves \in Nat

VARIABLES
  native,   \* does the browser have the Navigation API?
  last,     \* entries are 0..last
  current,  \* the active entry
  shown,    \* the entry whose page the router shows
  guard,    \* NoGuard while the editor is clean
  queue,    \* traversals asked for: by how much, and by whom
  moves,    \* traversals the owner has asked for
  agreed    \* has the owner agreed to leave since the last change?

navVars == <<native, last, current, shown, guard, queue, moves, agreed>>

-----------------------------------------------------------------------------
Entries == 0..last
NoGuard == [dirty |-> FALSE]

\* What the effect of a dirty editor closes over.
Guard == [dirty |-> TRUE, protected |-> current, restoring |-> FALSE]
Dirty(g) == g # NoGuard
Mounted == shown = Home

NavInit ==
  /\ native \in BOOLEAN /\ last \in Home..Last
  /\ current = Home /\ shown = Home
  /\ guard = NoGuard
  /\ queue = <<>> /\ moves = 0
  /\ agreed = FALSE

-----------------------------------------------------------------------------
\* Typing waits until the tab has come to rest; a save's answer does not.
Edit ==
  /\ Mounted /\ queue = <<>>
  /\ guard' = IF Dirty(guard) THEN guard ELSE Guard
  /\ agreed' = FALSE
  /\ UNCHANGED <<native, last, current, shown, queue, moves>>

Save ==
  /\ Dirty(guard)
  /\ guard' = NoGuard
  /\ UNCHANGED <<native, last, current, shown, queue, moves, agreed>>

\* A click on a link: asked before the router hears of it, which then pushes
\* an entry and drops those ahead.
ClickLink ==
  /\ Mounted /\ Dirty(guard) /\ queue = <<>> /\ current < Last
  /\ last' = current + 1 /\ current' = last' /\ shown' = last'
  /\ guard' = NoGuard /\ agreed' = TRUE
  /\ UNCHANGED <<native, queue, moves>>

Traverse(by) ==
  /\ moves < MaxMoves /\ moves' = moves + 1
  /\ Hurry \/ queue = <<>> \/ last = Home
  /\ queue' = Append(queue, [by |-> by, own |-> TRUE])
  /\ UNCHANGED <<native, last, current, shown, guard, agreed>>

-----------------------------------------------------------------------------
(* One traversal of the queue.                                             *)

Target == current + Head(queue).by
Tracked(entry) == entry \notin Untracked

ReverseSteps(target) ==
  IF Tracked(target) /\ Tracked(guard.protected) /\ target # guard.protected
    THEN guard.protected - target ELSE 1

\* The router gets the popstate: another page unmounts the editor.
Routed(target) ==
  /\ current' = target /\ shown' = target
  /\ guard' = IF target = Home THEN guard ELSE NoGuard

\* Beyond the ends of the history nothing happens.
Nowhere ==
  /\ queue # <<>> /\ Target \notin Entries
  /\ queue' = Tail(queue)
  /\ UNCHANGED <<native, last, current, shown, guard, moves, agreed>>

Arrives(target) ==
  /\ queue # <<>> /\ target = Target /\ target \in Entries
  /\ UNCHANGED <<native, last, moves>>
Later(steps) == queue' = Tail(queue) \o steps
Stays == UNCHANGED <<current, shown, guard, agreed>>

\* With the Navigation API the owner is asked before the tab moves.
CanceledFirst(target) ==
  /\ Arrives(target) /\ native /\ Dirty(guard)
  /\ Later(<<>>) /\ Stays

AgreedFirst(target) ==
  /\ Arrives(target) /\ native /\ Dirty(guard)
  /\ Later(<<>>) /\ Routed(target) /\ agreed' = TRUE

\* Otherwise the tab has moved, and popstate reaches the guard before the
\* router.  The browser may refuse the page its say about the buttons of the
\* browser, but not about history.go().
Moved(target) == Arrives(target) /\ (native /\ Dirty(guard) => Head(queue).own)

\* Mutant: while it restores, the guard lets everything else through.
Unminded == Dirty(guard) => guard.restoring
Unguarded == ~Dirty(guard)

\* Mutant: any popstate is taken for the awaited one.
AnyEntry(target) == TRUE
AtProtected(target) == target = guard.protected

Restored(target) == guard.restoring /\ AtProtected(target)

PassesOn(target) ==
  /\ Moved(target) /\ Unguarded
  /\ Later(<<>>) /\ Routed(target) /\ UNCHANGED agreed

RestoreDone(target) ==
  /\ Moved(target) /\ ~Unguarded /\ Restored(target)
  /\ current' = target /\ guard' = [guard EXCEPT !.restoring = FALSE]
  /\ Later(<<>>) /\ UNCHANGED <<shown, agreed>>

AgreedAfter(target) ==
  /\ Moved(target) /\ ~Unguarded /\ ~Restored(target)
  /\ Later(<<>>) /\ Routed(target) /\ agreed' = TRUE

RefusedAfter(target) ==
  /\ Moved(target) /\ ~Unguarded /\ ~Restored(target)
  /\ current' = target /\ guard' = [guard EXCEPT !.restoring = TRUE]
  /\ Later(<<[by |-> ReverseSteps(target), own |-> FALSE]>>)
  /\ UNCHANGED <<shown, agreed>>

Step ==
  \/ Nowhere
  \/ \E target \in Entries :
       \/ CanceledFirst(target) \/ AgreedFirst(target)
       \/ PassesOn(target) \/ RestoreDone(target)
       \/ AgreedAfter(target) \/ RefusedAfter(target)

NavNext ==
  \/ Edit \/ Save \/ ClickLink
  \/ \E by \in -2..2 \ {0} : Traverse(by)
  \/ Step

\* The browser works its queue off.
NavFairness == WF_navVars(Step)
NavSpec == NavInit /\ [][NavNext]_navVars /\ NavFairness

-----------------------------------------------------------------------------
(* Properties.                                                             *)

\* An editor with unsaved changes is left only when the owner has agreed to
\* it since the last change (useUnsavedChanges.ts:177-187): no order of
\* quick traversals and of those the guard makes itself gets past it.
LeftOnlyAgreed ==
  [][(Mounted /\ Dirty(guard) /\ ~Mounted') => agreed']_navVars

\* A browser without the Navigation API comes to rest at the address of the
\* editor it shows (restorePoint and reverseSteps, useUnsavedChanges.ts:191-
\* 198), also when traversals overlap; with entries ahead of the editor's,
\* only if the owner waits for the tab to come to rest.
SettlesAtHome ==
  ~native => <>[](queue = <<>> /\ (Dirty(guard) => current = Home))

\* How far the tab is from rest: the owner's traversals that are still to
\* come or under way, the entries to the editor's, and the whole queue.
Owns(q) == {i \in DOMAIN q : q[i].own}
OwnLeft == 2 * (MaxMoves - moves) + Cardinality(Owns(queue))
Away == IF current < Home THEN Home - current ELSE current - Home

\* While traversals are under way in a browser without the Navigation API,
\* each of them brings the tab nearer to rest, also those the guard makes
\* itself and those that cross: the guard never chases its own traversals.
ComesToRest ==
  [][~native /\ queue # <<>> =>
       \/ UNCHANGED <<moves, queue, current>>
       \/ OwnLeft' < OwnLeft
       \/ OwnLeft' = OwnLeft /\ Away' < Away
       \/ OwnLeft' = OwnLeft /\ Away' = Away /\ Len(queue') < Len(queue)]_navVars
=============================================================================
