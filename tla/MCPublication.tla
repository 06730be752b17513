--------------------------- MODULE MCPublication ---------------------------
(* Publication, and the addresses of the projects that are published.      *)
(* They share no state here; one run checks both, and `part` says which of *)
(* them moves.                                                             *)
EXTENDS Publication, Catalogue, TLC

CONSTANTS r1, r2

RequestSymmetry == Permutations(Requests)

VARIABLE part
publishedVars == <<part, vars, catVars>>

\* The part that does not move stays where one initial state put it.
PublishedInit ==
  /\ Init /\ CatInit
  /\ part \in {"requests", "addresses"}
  /\ part = "requests" =>
       head.projects = {Project(CHOOSE id \in Ids : TRUE, CHOOSE slug \in Names : TRUE, {}, {})}

PublishedNext ==
  \/ part = "requests" /\ Next /\ UNCHANGED <<part, catVars>>
  \/ part = "addresses" /\ CatNext /\ UNCHANGED <<part, vars>>

PublishedSpec == PublishedInit /\ [][PublishedNext]_publishedVars
=============================================================================
