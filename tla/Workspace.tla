----------------------------- MODULE Workspace -----------------------------
(***************************************************************************)
(* The owner's editors (PersonalEditor.tsx, ProjectEditor.tsx) in several  *)
(* browser tabs over the draft routes, next to publication and deployment. *)
(*                                                                         *)
(* A tab keeps what its page was rendered from, its own state, and one     *)
(* request.  React keeps the state over router.refresh(), which replaces   *)
(* only the props: that is why `revision` and `page` of a tab may differ   *)
(* in age.  A request may be lost, refused, or handled after its tab has   *)
(* been told that it failed.                                               *)
(*                                                                         *)
(* Abstractions.  A project is its slug and its words, its lifecycle being *)
(* one of the words; a bundle is a set of projects; personal content is a  *)
(* bundle of one.  Aliases and field validation other than the slug's are  *)
(* left out.  Publication is one step here (module Publication has the     *)
(* rest).                                                                  *)
(***************************************************************************)
EXTENDS Integers

CONSTANTS
  Tabs,
  Slugs,        \* slugs of projects
  Words,        \* what an owner may write
  None,
  MaxRequests,  \* bound: requests ever sent
  MaxVersion    \* bound: versions ever published

\* None is nothing a tab may hold, not even an answer.
ASSUME WorkspaceConstants ==
  /\ MaxRequests \in Nat /\ MaxVersion \in Nat \ {0}
  /\ None \notin Slugs \cup Words \cup Nat \cup [ok : BOOLEAN, revision : Nat \cup {None}]
  /\ {"archived", "blank", "first"} \cap Words = {}
  /\ Slugs # {} /\ {"stay", "refresh", "list"} \cap (Slugs \cup {None}) = {}

VARIABLES
  draft,  \* draft[kind]: None, or its revision, base version and content
  saved,  \* revisions given out so far
  sent,   \* requests sent so far
  main,   \* the newest published version and its content
  live,   \* the version that runs and its content
  tabs,
  late    \* None, or a request whose tab was told that it failed

store == <<draft, saved>>
world == <<main, live>>
workVars == <<store, world, sent, tabs, late>>

-----------------------------------------------------------------------------
Kinds == {"personal", "projects"}
Me == "me"
Slug(kind) == IF kind = "personal" THEN {Me} ELSE Slugs

Text(slug, words) == [slug |-> slug, words |-> words]
Blank == Text(None, "blank")
Archived(text) == [text EXCEPT !.words = "archived"]

\* readAdminContentView: the draft, or what the running build holds.
View(kind) == IF draft[kind] = None THEN live.content[kind] ELSE draft[kind].content
Revision(kind) == IF draft[kind] = None THEN None ELSE draft[kind].revision

\* The props that stay with an editor: the other projects, or the canonical
\* personal content to go back to.
Page(kind) == IF kind = "personal" THEN live.content[kind] ELSE View(kind)
Shows(kind, slug) == \E x \in View(kind) : x.slug = slug
Of(bundle, slug) == CHOOSE x \in bundle : x.slug = slug

\* A freshly rendered editor; slug None is the page of a new project.
Loaded(kind, slug) ==
  LET text == IF slug = None THEN Blank ELSE Of(View(kind), slug)
  IN [kind |-> kind, slug |-> slug, page |-> Page(kind), revision |-> Revision(kind),
      text |-> text, baseline |-> text, hasDraft |-> draft[kind] # None,
      request |-> None, next |-> "stay"]

Open == {t \in Tabs : tabs[t] # None}
Set(t, tab) == tabs' = [tabs EXCEPT ![t] = tab]

Dirty(tab) == tab.text # tab.baseline
Busy(tab) == tab.request # None

\* The rest of the bundle as the page was rendered, and the bundle a tab sends.
Others(tab) == IF tab.kind = "personal" THEN {}
               ELSE {x \in tab.page : x.slug # tab.slug}
Valid(tab) ==
  tab.text.slug # None /\ \A x \in Others(tab) : x.slug # tab.text.slug
Bundle(tab, text) == Others(tab) \cup {text}

\* `was` is not sent: it says what the tab had before it.
Request(op, tab, text) ==
  [op |-> op, kind |-> tab.kind, revision |-> tab.revision, text |-> text,
   content |-> Bundle(tab, text), was |-> tab.baseline, answer |-> None]

WorkInit ==
  /\ draft = [kind \in Kinds |-> None]
  /\ saved = 0 /\ sent = 0
  /\ live = [version |-> 1, content |-> [kind \in Kinds |->
                {Text(CHOOSE s \in Slug(kind) : TRUE, "first")}]]
  /\ main = live
  /\ tabs = [t \in Tabs |-> None]
  /\ late = None

-----------------------------------------------------------------------------
(* The owner in a tab.                                                     *)

OpenTab(t) ==
  /\ t \notin Open
  /\ \E kind \in Kinds : \E slug \in Slug(kind) \cup {None} :
       /\ (slug = None => kind = "projects") /\ (slug # None => Shows(kind, slug))
       /\ Set(t, Loaded(kind, slug))
  /\ UNCHANGED <<store, world, sent, late>>

Asked(t) == t \in Open /\ Busy(tabs[t]) /\ tabs[t].request.answer = None

\* The editor goes; what it has asked for is handled without it.
Leaves(t) == IF Asked(t) THEN late = None /\ late' = tabs[t].request ELSE UNCHANGED late

CloseTab(t) ==
  /\ t \in Open
  /\ Set(t, None) /\ Leaves(t)
  /\ UNCHANGED <<store, world, sent>>

\* Fields stay enabled while a request is under way.
Type(t) ==
  /\ t \in Open
  /\ \E slug \in Slug(tabs[t].kind), words \in Words :
       /\ Text(slug, words) # tabs[t].text
       /\ Set(t, [tabs[t] EXCEPT !.text = Text(slug, words)])
  /\ UNCHANGED <<store, world, sent, late>>

\* `shown` is what the fields hold from now on.
Send(t, op, text, shown) ==
  /\ sent < MaxRequests /\ sent' = sent + 1
  /\ Set(t, [tabs[t] EXCEPT !.request = Request(op, tabs[t], text), !.text = shown])
  /\ UNCHANGED <<store, world, late>>

SaveDraft(t) ==
  /\ t \in Open /\ ~Busy(tabs[t]) /\ Dirty(tabs[t]) /\ Valid(tabs[t])
  /\ Send(t, "save", tabs[t].text, tabs[t].text)

\* The project is shown as archived before the server has been asked.
ArchiveProject(t) ==
  /\ t \in Open /\ ~Busy(tabs[t]) /\ ~Dirty(tabs[t])
  /\ tabs[t].kind = "projects" /\ tabs[t].slug # None
  /\ Valid(tabs[t]) /\ tabs[t].text # Archived(tabs[t].text)
  /\ Send(t, "archive", Archived(tabs[t].text), Archived(tabs[t].text))

\* Asks first, whatever is dirty; its text is what the editor falls back to.
DiscardDraft(t) ==
  /\ t \in Open /\ ~Busy(tabs[t]) /\ tabs[t].hasDraft
  /\ Send(t, "discard", IF tabs[t].kind = "personal" THEN Of(tabs[t].page, Me)
                        ELSE tabs[t].text, tabs[t].text)

-----------------------------------------------------------------------------
(* The server and the network.                                             *)

\* Mutant: the revision is not compared.
AnyRevision(request) == TRUE
Matches(request) == Revision(request.kind) = request.revision

Stored(request) ==
  [revision |-> saved + 1, base |-> live.version, content |-> request.content]

Writes(request) ==
  IF request.op = "discard"
    THEN draft' = [draft EXCEPT ![request.kind] = None] /\ UNCHANGED saved
    ELSE /\ draft' = [draft EXCEPT ![request.kind] = Stored(request)]
         /\ saved' = saved + 1

Failure == [ok |-> FALSE, revision |-> None]
Success(revision) == [ok |-> TRUE, revision |-> revision]
Told(t, answer) == Set(t, [tabs[t] EXCEPT !.request.answer = answer])

Accept(t) ==
  /\ Asked(t) /\ Matches(tabs[t].request)
  /\ Writes(tabs[t].request)
  /\ Told(t, Success(IF tabs[t].request.op = "discard" THEN None ELSE saved + 1))
  /\ UNCHANGED <<world, sent, late>>

\* A conflict, an ended session, or an error of the store.
Refuse(t) ==
  /\ Asked(t)
  /\ Told(t, Failure)
  /\ UNCHANGED <<store, world, sent, late>>

\* fetch rejects: nothing arrived, the answer is lost, or the request is
\* still on its way.
Lose(t) ==
  /\ t \in Open /\ Busy(tabs[t]) /\ tabs[t].request.answer # Failure
  /\ Told(t, Failure)
  /\ \/ UNCHANGED late
     \/ Asked(t) /\ late = None /\ late' = tabs[t].request
  /\ UNCHANGED <<store, world, sent>>

HandleLate ==
  /\ late # None
  /\ IF Matches(late) THEN Writes(late) ELSE UNCHANGED store
  /\ late' = None
  /\ UNCHANGED <<world, sent, tabs>>

-----------------------------------------------------------------------------
(* What a tab does with its answer.                                        *)

Failed(tab) == [tab EXCEPT !.request = None]

\* ProjectEditor puts the text it sent back into the fields; PersonalEditor
\* leaves them alone.
\* Mutant: whatever the fields hold by now is taken for saved.
SavedAsShown(tab, request) == [baseline |-> tab.text, text |-> tab.text]
SavedAsSent(tab, request) ==
  [baseline |-> request.text,
   text |-> IF tab.kind = "projects" /\ request.op = "save" THEN request.text ELSE tab.text]

Follows(tab, request) ==
  IF request.op = "save" /\ request.text.slug # tab.slug THEN request.text.slug
  ELSE "refresh"

AfterSave(tab, request) ==
  LET kept == SavedAsSent(tab, request)
  IN [tab EXCEPT !.text = kept.text, !.baseline = kept.baseline,
                 !.revision = request.answer.revision, !.hasDraft = TRUE,
                 !.request = None, !.next = Follows(tab, request)]

AfterDiscard(tab, request) ==
  LET gone == [tab EXCEPT !.revision = None, !.hasDraft = FALSE, !.request = None]
  IN IF tab.kind = "personal"
       THEN [gone EXCEPT !.text = request.text, !.baseline = request.text, !.next = "refresh"]
       ELSE [gone EXCEPT !.next = "list"]

Answered(t) ==
  /\ t \in Open /\ Busy(tabs[t]) /\ ~Asked(t)
  /\ LET tab == tabs[t] request == tabs[t].request
     IN Set(t, IF ~request.answer.ok THEN Failed(tab)
               ELSE IF request.op = "discard" THEN AfterDiscard(tab, request)
               ELSE AfterSave(tab, request))
  /\ UNCHANGED <<store, world, sent, late>>

\* router.refresh() replaces the props and keeps the state; a page whose
\* project is gone, and the way to the list, end the editor.
Refresh(t) ==
  /\ t \in Open /\ tabs[t].next \in {"refresh", "list"}
  /\ LET tab == tabs[t]
     IN IF tab.next = "list" \/ (tab.slug # None /\ ~Shows(tab.kind, tab.slug))
          THEN Set(t, None) /\ Leaves(t)
          ELSE /\ Set(t, [tab EXCEPT !.page = Page(tab.kind), !.next = "stay"])
               /\ UNCHANGED late
  /\ UNCHANGED <<store, world, sent>>

\* router.replace() to the page of a new or renamed project.
Move(t) ==
  /\ t \in Open /\ tabs[t].next \in Slugs
  /\ Set(t, IF Shows("projects", tabs[t].next) THEN Loaded("projects", tabs[t].next)
            ELSE None)
  /\ Leaves(t)
  /\ UNCHANGED <<store, world, sent>>

-----------------------------------------------------------------------------
(* Publication and deployment.                                             *)

\* What the review shows: items added, removed or changed against what runs.
Without(bundle, slug) == {x \in bundle : x.slug # slug}
SlugsOf(bundle) == {x.slug : x \in bundle}
Changes(kind) ==
  LET before == live.content[kind] after == View(kind)
  IN [added |-> SlugsOf(after) \ SlugsOf(before),
      removed |-> SlugsOf(before) \ SlugsOf(after),
      changed |-> {slug \in SlugsOf(after) \cap SlugsOf(before) :
                     Of(after, slug) # Of(before, slug)}]
Unchanged(kind) == Changes(kind) = [added |-> {}, removed |-> {}, changed |-> {}]

\* Drafts of the newest version land, and are cleared.
Publish ==
  /\ main.version < MaxVersion
  /\ \E kind \in Kinds : ~Unchanged(kind)
  /\ \A kind \in Kinds : draft[kind] # None => draft[kind].base = main.version
  /\ main' = [version |-> main.version + 1, content |-> [kind \in Kinds |-> View(kind)]]
  /\ draft' = [kind \in Kinds |-> None]
  /\ UNCHANGED <<saved, live, sent, tabs, late>>

Deploy ==
  /\ live # main /\ live' = main
  /\ UNCHANGED <<store, main, sent, tabs, late>>

WorkNext ==
  \/ \E t \in Tabs :
       \/ OpenTab(t) \/ CloseTab(t) \/ Type(t)
       \/ SaveDraft(t) \/ ArchiveProject(t) \/ DiscardDraft(t)
       \/ Accept(t) \/ Refuse(t) \/ Lose(t)
       \/ Answered(t) \/ Refresh(t) \/ Move(t)
  \/ HandleLate \/ Publish \/ Deploy

WorkSpec == WorkInit /\ [][WorkNext]_workVars

-----------------------------------------------------------------------------
(* Properties.                                                             *)

Requests == ({tabs[t].request : t \in Open} \cup {late}) \ {None}
\* Content keeps its form: one project per slug, in drafts and versions, and
\* no draft from a version that does not exist.
ContentSound ==
  /\ \A kind \in Kinds :
       /\ draft[kind] # None =>
            draft[kind].revision \in 1..saved /\ draft[kind].base \in 1..main.version
       /\ \A bundle \in {View(kind), main.content[kind], live.content[kind]} :
            \A x, y \in bundle : x.slug = y.slug => x = y

\* A clean editor that holds the store's revision shows what the store has
\* (setBaseline after a save, ProjectEditor.tsx:162, PersonalEditor.tsx:77):
\* nothing typed while the request was under way passes for saved.
CleanIsStored ==
  \A t \in Open :
    LET tab == tabs[t]
    IN (~Busy(tab) /\ ~Dirty(tab) /\ tab.text # Blank /\ tab.revision # None
          /\ tab.revision = Revision(tab.kind))
       => tab.text \in draft[tab.kind].content

EditorsHonest == ContentSound /\ CleanIsStored

\* A save replaces a draft only by itself with one item changed, from what
\* that tab had before it: what another tab has saved is never undone unseen
\* (expectedRevision against allProjects of an older or newer rendering,
\* ProjectEditor.tsx:147).
NothingUnseenReplaced ==
  [][\A kind \in Kinds :
       (draft[kind] # None /\ draft'[kind] # None /\ draft'[kind] # draft[kind]) =>
         \E q \in Requests :
           /\ q.content = draft'[kind].content
           /\ Without(q.content, q.text.slug) = Without(draft[kind].content, q.was.slug)
           /\ (q.was # Blank => q.was \in draft[kind].content)]_workVars

\* README.md:58, "There is no last-write-wins update": a first draft differs
\* from the version it claims as its base in the edited item only.  The code
\* takes the base from the version that runs when it is saved.
BaseWasSeen ==
  [][\A kind \in Kinds :
       (draft[kind] = None /\ draft'[kind] # None) =>
         \E q \in Requests :
           /\ q.content = draft'[kind].content
           /\ Without(q.content, q.text.slug) = Without(live.content[kind], q.was.slug)]_workVars
=============================================================================
