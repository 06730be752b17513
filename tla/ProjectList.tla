---------------------------- MODULE ProjectList ----------------------------
(***************************************************************************)
(* The public list of projects: projects/page.tsx renders it with the      *)
(* health of each project, ProjectList.tsx filters it by what the address  *)
(* says, lib/projects/presentation.ts has the filters.                     *)
(*                                                                         *)
(* The address is the only state of the filters: a control builds the next *)
(* address from the rendered one and asks the router to go there, which    *)
(* renders the page again, with the checks of that moment.  A control used *)
(* before that has happened starts from the old address again.             *)
(*                                                                         *)
(* Abstractions.  A text is the set of queries it contains; "blank" is a   *)
(* query that is only white space.  Maturity and category are filters of   *)
(* one kind and are told apart only by the field they compare.             *)
(***************************************************************************)
EXTENDS Integers, FiniteSets

CONSTANTS
  Projects,      \* records with slug, text, lifecycle, maturity, category, binds
  Repositories,  \* records with text
  Checked,       \* the collector's public services
  FiledUnder,    \* FiledUnder[s]: the slug the collector has for s
  Options        \* per parameter the values its control offers, some of the code's

VARIABLES
  address,  \* the parameters of the rendered address
  going,    \* the address the router is on its way to, or the rendered one
  seen      \* the checks of the render: fresh or not, and status of each service

listVars == <<address, going, seen>>

-----------------------------------------------------------------------------
Fields == {"lifecycle", "maturity", "category"}
Lifecycles == {"all", "current", "active", "maintained", "paused", "archived"}
Healths == {"all", "healthy", "degraded", "disruption", "unavailable", "not-monitored"}
Sorts == {"featured", "evidence", "name"}

Default == [lifecycle |-> "all", maturity |-> "all", category |-> "all",
            health |-> "all", sort |-> "featured", q |-> ""]

ASSUME ListOptions ==
  /\ DOMAIN Options = DOMAIN Default
  /\ \A name \in DOMAIN Default : Default[name] \in Options[name]
  /\ Options["lifecycle"] \subseteq Lifecycles
  /\ Options["health"] \subseteq Healths /\ Options["sort"] \subseteq Sorts

\* serviceIds of a project is a list.
ASSUME ListBinds == \A p \in Projects : IsFiniteSet(p.binds)

\* optionValue: a parameter that is no option is taken for the default.
Value(name) == IF address[name] \in Options[name] THEN address[name] ELSE Default[name]
Chosen(name) == Value(name) # Default[name]

-----------------------------------------------------------------------------
(* Health of a project.                                                    *)

Published == {s \in Checked : seen.status[s] # "absent"}
ChecksOf(p) ==
  IF p.binds # {} THEN p.binds \cap Published
  ELSE {s \in Published : FiledUnder[s] = p.slug}
With(p, status) == {s \in ChecksOf(p) : seen.status[s] = status}

Complete(p) == p.binds = {} \/ Cardinality(ChecksOf(p)) = Cardinality(p.binds)

\* deriveProjectHealth.
Health(p) ==
  CASE ~Complete(p) -> "unavailable"
    [] Complete(p) /\ ChecksOf(p) = {} -> "not-monitored"
    [] Complete(p) /\ ChecksOf(p) # {} ->
         CASE ~seen.fresh -> "unavailable"
           [] seen.fresh /\ With(p, "down") = ChecksOf(p) -> "disruption"
           [] seen.fresh /\ With(p, "up") \notin {{}, ChecksOf(p)} -> "degraded"
           [] seen.fresh /\ With(p, "up") = ChecksOf(p) -> "healthy"
           [] OTHER -> "unavailable"

-----------------------------------------------------------------------------
(* What is listed.                                                         *)

Matches(item) == Value("q") \in {"", "blank"} \/ Value("q") \in item.text

InLifecycle(p) ==
  \/ Value("lifecycle") \in {"all", p.lifecycle}
  \/ Value("lifecycle") = "current" /\ p.lifecycle \in {"active", "maintained"}

Listed ==
  {p \in Projects :
     /\ Matches(p) /\ InLifecycle(p)
     /\ Value("maturity") \in {"all", p.maturity}
     /\ Value("category") \in {"all", p.category}
     /\ Value("health") \in {"all", Health(p)}}

ProjectOnly == \E name \in Fields \cup {"health"} : Chosen(name)
ListedRepositories == IF ProjectOnly THEN {} ELSE {r \in Repositories : Matches(r)}

\* The summary above the list, of all projects.
Counted(health) == Cardinality({p \in Projects : Health(p) = health})

\* Whether the filters can be cleared: in the bar, and below an empty list.
\* Mutant: the health filter came later and is not counted.
AllButHealth == \E name \in DOMAIN Default \ {"health"} : Chosen(name)
HasFilters == \E name \in DOMAIN Default : Chosen(name)
EmptyList == Listed = {} /\ ListedRepositories = {}

-----------------------------------------------------------------------------
Readings == [fresh : BOOLEAN, status : [Checked -> {"up", "down", "unknown", "absent"}]]

\* An address may be typed in or kept from an older version of the site.
ListInit ==
  /\ address \in {[Default EXCEPT ![name] = "other"] : name \in DOMAIN Default \ {"q"}}
                 \cup {Default}
  /\ going = address
  /\ seen \in Readings

\* updateParam.
UpdateParam ==
  /\ \E name \in DOMAIN Default : \E value \in Options[name] :
       going' = [address EXCEPT ![name] = value]
  /\ UNCHANGED <<address, seen>>

ClearFilters ==
  /\ HasFilters \/ EmptyList
  /\ going' = Default
  /\ UNCHANGED <<address, seen>>

Navigate ==
  /\ going # address
  /\ address' = going /\ seen' \in Readings
  /\ UNCHANGED going

ListNext == UpdateParam \/ ClearFilters \/ Navigate

ListSpec == ListInit /\ [][ListNext]_listVars

-----------------------------------------------------------------------------
(* Properties.                                                             *)

\* Whatever is not listed, the page offers to clear the filters (hasFilters,
\* ProjectList.tsx:178): also after an address with values that are no
\* options, and although a repository is hidden by filters it knows nothing
\* of.
HiddenIsSaid == (Listed # Projects \/ ListedRepositories # Repositories) => HasFilters

\* A project listed as healthy has all its checks in this reading, fresh and
\* up; one listed as disrupted has none that is not down
\* (deriveProjectHealth, status-page.ts:132).
HealthIsProven ==
  \A p \in Listed :
    /\ Health(p) = "healthy" =>
         /\ seen.fresh /\ \A s \in p.binds : seen.status[s] = "up"
         /\ \A s \in Checked : p.binds = {} /\ FiledUnder[s] = p.slug =>
              seen.status[s] \in {"up", "absent"}
    /\ Health(p) = "disruption" =>
         seen.fresh /\ ~\E s \in p.binds : seen.status[s] \in {"up", "absent"}

\* A health filter alone lists as many projects as the summary counts.
CountsAgree ==
  \A health \in {"healthy", "unavailable", "not-monitored"} :
    (Value("health") = health /\ \A name \in DOMAIN Default \ {"health", "sort"} : ~Chosen(name))
      => Cardinality(Listed) = Counted(health)

ListHonest == HiddenIsSaid /\ HealthIsProven /\ CountsAgree
=============================================================================
