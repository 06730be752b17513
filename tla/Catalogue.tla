----------------------------- MODULE Catalogue -----------------------------
(***************************************************************************)
(* The catalogue of projects and its addresses: lib/content/schema.ts      *)
(* (the rules), ProjectEditor.tsx and the projects route (a rename, a new  *)
(* project), publication, the build (lib/content/index.ts), and the page   *)
(* that answers a slug (projects/[slug]/page.tsx).                         *)
(*                                                                         *)
(* Abstractions.  A project is its slug, its aliases and the services it   *)
(* names; `id` is not in the code, it tells which project it is through    *)
(* every rename.  Aliases are a set: a repeated one is refused.  An editor *)
(* is opened, filled in and saved in one step (module Workspace has what   *)
(* happens between), and publication is one step (module Publication).     *)
(* A maintenance window is the services it names.                          *)
(***************************************************************************)
EXTENDS Integers, FiniteSets

CONSTANTS
  Ids,        \* projects that may ever exist
  Names,      \* slugs
  Services,   \* public services of the collector
  NoDraft,
  MaxAliases, \* 32 in the code
  MaxBuild    \* bound: versions ever made

ASSUME CatalogueConstants ==
  /\ MaxAliases \in Nat /\ MaxBuild \in Nat \ {0} /\ NoDraft \notin Names

VARIABLES
  head,     \* the newest version: its catalogue and maintenance windows
  running,  \* the version that is served
  words,    \* the projects draft, or NoDraft
  links,    \* <<slug, id>>: every address that was ever a project's own
  rebased   \* a draft written on one version was published on another

catVars == <<head, running, words, links, rebased>>

-----------------------------------------------------------------------------
(* The rules of a catalogue.                                               *)

Project(id, slug, aliases, binds) ==
  [id |-> id, slug |-> slug, aliases |-> aliases, binds |-> binds]

Identifiers(p) == {p.slug} \cup p.aliases

\* parseProjects: no address twice, in one project or in two.
ParseProjects(projects) ==
  /\ projects # {}
  /\ \A p \in projects :
       p.slug \notin p.aliases /\ Cardinality(p.aliases) <= MaxAliases
  /\ \A p, q \in projects : p # q => Identifiers(p) \cap Identifiers(q) = {}

\* preserveProjectSlugAliases.
\* Mutant: the slug before is all that is kept.
OnlyPrevious(p, previous) ==
  IF previous \in {NoDraft, p.slug} THEN p ELSE [p EXCEPT !.aliases = {previous}]
PreserveAliases(p, previous) ==
  IF previous \in {NoDraft, p.slug} THEN p
  ELSE [p EXCEPT !.aliases = (@ \ {p.slug}) \cup {previous}]

Bound(projects) == UNION {p.binds : p \in projects}

\* What an address leads to: a project's page, directly or by a redirect.
Resolves(slug, projects) == {p.id : p \in {q \in projects : slug \in Identifiers(q)}}

\* The modules of the build throw on anything else.
Builds(version) ==
  ParseProjects(version.projects) /\ version.windows \subseteq Bound(version.projects)

-----------------------------------------------------------------------------
CatInit ==
  /\ \E id \in Ids, slug \in Names, binds \in SUBSET Services :
       head = [version |-> 1, windows |-> {},
               projects |-> {Project(id, slug, {}, binds)}]
  /\ running = head
  /\ words = NoDraft
  /\ links = {<<p.slug, p.id>> : p \in head.projects}
  /\ rebased = FALSE

\* readAdminContentView.
Shown == IF words = NoDraft THEN running.projects ELSE words.projects

\* issueLines: what the editor refuses before it asks.  `others` are the
\* other projects of the page.
NoIssues(candidate, previous, others) ==
  /\ candidate.slug # previous =>
       \A q \in others : candidate.slug \notin Identifiers(q)
  /\ (previous # NoDraft /\ candidate.slug # previous) =>
       /\ Cardinality(candidate.aliases) <= MaxAliases
       /\ \A q \in others : candidate.aliases \cap Identifiers(q) = {}
  /\ candidate.binds \subseteq Bound(Shown)

\* PUT of the whole bundle.  `from` is not in the code: the version the text
\* was first written on.
Save(projects) ==
  /\ ParseProjects(projects)
  /\ Bound(projects) \subseteq Bound(running.projects)
  /\ words' = [projects |-> projects, base |-> running.version,
               from |-> IF words = NoDraft THEN running.version ELSE words.from]
  /\ UNCHANGED <<head, running, links, rebased>>

\* The editor of a project sends the bundle with that project replaced.
EditProject ==
  \E p \in Shown, slug \in Names, binds \in SUBSET Services :
    LET candidate == PreserveAliases([p EXCEPT !.slug = slug, !.binds = binds], p.slug)
        others == Shown \ {p}
    IN /\ candidate # p /\ NoIssues(candidate, p.slug, others)
       /\ Save(others \cup {candidate})

NewProject ==
  \E id \in Ids, slug \in Names, binds \in SUBSET Services :
    LET candidate == PreserveAliases(Project(id, slug, {}, binds), NoDraft)
    IN /\ \A p \in Shown \cup head.projects : p.id # id
       /\ \A l \in links : l[2] # id
       /\ NoIssues(candidate, NoDraft, Shown)
       /\ Save(Shown \cup {candidate})

DiscardWords ==
  /\ words # NoDraft /\ words' = NoDraft
  /\ UNCHANGED <<head, running, links, rebased>>

PublishWords ==
  /\ words # NoDraft /\ words.base = head.version /\ head.version < MaxBuild
  /\ ParseProjects(words.projects)
  /\ head' = [head EXCEPT !.version = @ + 1, !.projects = words.projects]
  /\ rebased' = (rebased \/ words.from # words.base)
  /\ words' = NoDraft
  /\ UNCHANGED <<running, links>>

\* content/maintenance.json changes by commits of its own, built before they
\* are merged.
CommitWindows ==
  /\ head.version < MaxBuild
  /\ \E windows \in SUBSET Services :
       /\ windows # head.windows
       /\ head' = [head EXCEPT !.version = @ + 1, !.windows = windows]
  /\ Builds(head')
  /\ UNCHANGED <<running, words, links, rebased>>

\* A version that does not build is never served.
DeployHead ==
  /\ running # head /\ Builds(head)
  /\ running' = head
  /\ links' = links \cup {<<p.slug, p.id>> : p \in head.projects}
  /\ UNCHANGED <<head, words, rebased>>

CatNext ==
  EditProject \/ NewProject \/ DiscardWords \/ PublishWords \/ CommitWindows \/ DeployHead

CatSpec == CatInit /\ [][CatNext]_catVars

-----------------------------------------------------------------------------
(* Properties.                                                             *)

LinksResolve(projects) == \A l \in links : Resolves(l[1], projects) = {l[2]}

\* Every address that was ever a project's own leads to that project and to
\* no other, whatever was renamed, created or named back since
\* (resolveProjectSlug over preserveProjectSlugAliases, schema.ts:274-286);
\* and an editor never loses one, in a draft that was not carried over to
\* another version.
KeepsOldLinks ==
  /\ ~rebased => LinksResolve(running.projects)
  /\ (~rebased /\ words # NoDraft) =>
       (words.from = running.version => LinksResolve(words.projects))

\* docs/superpowers/plans/2026-10-03-all-open-issues.md:352, "On canonical
\* rename retain the previous slug": the same of every version.  A draft
\* written before a rename was deployed and saved again after it is taken for
\* an edit of the renamed catalogue: the slug that rename introduced, which was
\* the project's own, is lost.  So is a project made in between.
OldLinksResolve == LinksResolve(running.projects)

\* What publication merges can be built.
MergesBuild == Builds(head)
=============================================================================
