------------------------------ MODULE MCStatus ------------------------------
(* What is said of the services: the public status, the owner's, the       *)
(* caches behind the other pages, and the list of projects.  They share no *)
(* state here; one run checks them, and `part` says which of them moves.   *)
EXTENDS PublicStatus, OwnerStatus, Caches, ProjectList

VARIABLE part

MCPublic == {"app", "api"}
MCSteady == {"api"}
MCProject == {"app", "api"}
\* One window names a service that is not public.
MCWindows == {{"app"}, {}}

MCProjects ==
  {[slug |-> "a", text |-> {"x"}, lifecycle |-> "active", maturity |-> "flagship",
    category |-> "infra", binds |-> {"s1", "s2"}],
   [slug |-> "b", text |-> {}, lifecycle |-> "archived", maturity |-> "stable",
    category |-> "bot", binds |-> {}]}
MCRepositories == {[text |-> {"x"}], [text |-> {}]}
MCFiledUnder == [s1 |-> "a", s2 |-> "b"]
MCOptions ==
  [lifecycle |-> {"all", "current", "active"}, maturity |-> {"all", "flagship"},
   category |-> {"all"}, health |-> {"all", "healthy", "unavailable"},
   sort |-> {"featured", "name"}, q |-> {"", "blank", "x"}]

statusRunVars == <<part, statusVars, ownerStatusVars, cacheVars, listVars>>

\* A part that does not move stays where one initial state put it.
AllInit ==
  /\ StatusInit /\ OwnerStatusInit /\ CacheInit /\ ListInit
  /\ part \in {"public", "owner", "caches", "list"}
  /\ part # "list" => /\ address = Default /\ ~seen.fresh
                      /\ \A s \in Checked : seen.status[s] = "absent"

AllNext ==
  \/ part = "public" /\ StatusNext /\ UNCHANGED <<part, ownerStatusVars, cacheVars, listVars>>
  \/ part = "owner" /\ OwnerStatusNext /\ UNCHANGED <<part, statusVars, cacheVars, listVars>>
  \/ part = "caches" /\ CacheNext /\ UNCHANGED <<part, statusVars, ownerStatusVars, listVars>>
  \/ part = "list" /\ ListNext /\ UNCHANGED <<part, statusVars, ownerStatusVars, cacheVars>>

AllSpec == AllInit /\ [][AllNext]_statusRunVars
=============================================================================
