-------------------------- MODULE WorkspaceProofs --------------------------
(***************************************************************************)
(* The editors, for any number of tabs, projects and requests.             *)
(*                                                                         *)
(* A revision is never given out twice, so everything that is known of the *)
(* store is tied to a revision: while it is still the store's, it is true, *)
(* and afterwards it never matters again (RevisionsPass).  What is known:  *)
(* an editor differs from the draft of its revision in its own item only,  *)
(* although its page may be of another age (EditorSound), and so does a    *)
(* request under way (RequestSound).                                       *)
(***************************************************************************)
EXTENDS Workspace, TLAPS

AnySlug == Slugs \cup {Me, None}
Texts == [slug : AnySlug, words : Words \cup {"archived", "blank", "first"}]
Revisions == Nat \cup {None}
Answers == [ok : BOOLEAN, revision : Revisions]
Requested == [op : {"save", "archive", "discard"}, kind : Kinds, revision : Revisions,
              text : Texts, content : SUBSET Texts, was : Texts, answer : Answers \cup {None}]
Editor == [kind : Kinds, slug : AnySlug, page : SUBSET Texts, revision : Revisions,
           text : Texts, baseline : Texts, hasDraft : BOOLEAN,
           request : Requested \cup {None}, next : AnySlug \cup {"stay", "refresh", "list"}]
Version == [version : Nat, content : [Kinds -> SUBSET Texts]]

\* One project per slug; personal content is one item.
Fits(kind, bundle) ==
  /\ \A x, y \in bundle : x.slug = y.slug => x = y
  /\ kind = "personal" => bundle # {} /\ \A x \in bundle : x.slug = Me

StoreSound ==
  /\ saved \in Nat /\ sent \in Nat
  /\ draft \in [Kinds -> [revision : Nat, base : Nat, content : SUBSET Texts] \cup {None}]
  /\ live \in Version /\ main \in Version
  /\ live.version \in 1..main.version
  /\ \A kind \in Kinds :
       /\ Fits(kind, live.content[kind]) /\ Fits(kind, main.content[kind])
       /\ draft[kind] # None => /\ draft[kind].revision \in 1..saved
                                /\ draft[kind].base \in 1..main.version
                                /\ Fits(kind, draft[kind].content)

Known(revision) == revision = None \/ revision \in 1..saved
Current(revision, kind) == revision # None /\ revision = Revision(kind)

\* The bundle is the store's draft with the item `was` replaced.
OnlyChanges(rest, was, kind) ==
  /\ rest = Without(draft[kind].content, was.slug)
  /\ was # Blank => was \in draft[kind].content

\* A request that is not handled yet.
RequestSound(q) ==
  /\ Known(q.revision)
  /\ q.op # "discard" =>
       /\ Fits(q.kind, q.content) /\ q.text \in q.content
       /\ Current(q.revision, q.kind) =>
            OnlyChanges(Without(q.content, q.text.slug), q.was, q.kind)

\* What its tab knows of a request: one under way was made from what the tab
\* has, or can no longer be accepted; an accepted one is the draft.
AskedSound(tab, q) ==
  /\ q.kind = tab.kind
  /\ q.kind = "personal" => q.text.slug = Me
  /\ q.op = "archive" => tab.slug # None
  /\ q.op # "discard" => Fits(q.kind, q.content) /\ q.text \in q.content /\ q.text.slug # None
  /\ q.answer = None =>
       /\ Known(q.revision) /\ q.revision = tab.revision /\ q.was = tab.baseline
       /\ q.op # "discard" =>
            \/ Without(q.content, q.text.slug) = Others(tab)
            \/ q.revision # None /\ q.revision # Revision(q.kind)
  /\ q.answer # None /\ q.answer.ok /\ q.op # "discard" =>
       /\ q.answer.revision # None /\ Known(q.answer.revision)
       /\ Current(q.answer.revision, q.kind) =>
            /\ draft[q.kind].content = q.content
            /\ Without(q.content, q.text.slug) = Others(tab)

EditorSound(tab) ==
  /\ Known(tab.revision)
  /\ Fits(tab.kind, tab.page)
  /\ tab.kind = "personal" => tab.text.slug = Me /\ tab.baseline.slug = Me
  /\ tab.kind = "projects" /\ tab.next = "refresh" => tab.revision # None /\ tab.slug # None
  /\ Current(tab.revision, tab.kind) => OnlyChanges(Others(tab), tab.baseline, tab.kind)
  /\ tab.request # None => AskedSound(tab, tab.request)

LateSound ==
  /\ late \in Requested \cup {None}
  /\ late # None => late.answer = None /\ RequestSound(late)

WorkInv ==
  /\ StoreSound
  /\ tabs \in [Tabs -> Editor \cup {None}]
  /\ \A t \in Open : EditorSound(tabs[t])
  /\ LateSound

-----------------------------------------------------------------------------
LEMMA Encoding ==
  /\ None \notin Slugs /\ None \notin Nat /\ None \notin Answers
  /\ "stay" \notin AnySlug /\ "refresh" \notin AnySlug /\ "list" \notin AnySlug
  /\ Blank \in Texts
BY WorkspaceConstants DEF Answers, Revisions, Blank, Text, Texts, AnySlug, Me

\* One item left out of a bundle.
LEMMA WithoutItem ==
  ASSUME NEW B, NEW x, \A y \in B : y.slug # x.slug
  PROVE  Without(B \cup {x}, x.slug) = B
BY DEF Without

LEMMA Viewed ==
  ASSUME StoreSound, NEW kind \in Kinds
  PROVE  /\ View(kind) \in SUBSET Texts /\ Fits(kind, View(kind))
         /\ Page(kind) \in SUBSET Texts /\ Fits(kind, Page(kind))
         /\ Revision(kind) \in Revisions /\ Known(Revision(kind))
         /\ Current(Revision(kind), kind) => draft[kind] # None /\ View(kind) = draft[kind].content
BY Encoding DEF StoreSound, View, Page, Revision, Revisions, Known, Current, Version

\* The draft changes only under a new revision, or goes.
RevisionsStep ==
  /\ saved' \in {saved, saved + 1}
  /\ \A kind \in Kinds :
       \/ draft'[kind] = draft[kind]
       \/ draft'[kind] = None
       \/ saved' = saved + 1 /\ draft'[kind].revision = saved + 1

LEMMA RevisionsPass ==
  ASSUME StoreSound, RevisionsStep
  PROVE  /\ \A v : Known(v) => Known(v)'
         /\ \A v : \A kind \in Kinds : Known(v) /\ Current(v, kind)' =>
              Current(v, kind) /\ draft'[kind] = draft[kind]
         /\ \A v : \A kind \in Kinds : Known(v) /\ v # None /\ v # Revision(kind) =>
              v # Revision(kind)'
<1>1. saved \in Nat
  BY DEF StoreSound
<1>2. \A v : Known(v) => Known(v)'
  BY <1>1 DEF RevisionsStep, Known
<1>3. ASSUME NEW v, NEW kind \in Kinds, Known(v), v # None, draft'[kind] # draft[kind]
      PROVE  v # Revision(kind)'
  <2>1. v \in 1..saved
    BY <1>3 DEF Known
  <2>2. saved + 1 \notin 1..saved
    BY <1>1
  <2> QED
    BY <1>3, <2>1, <2>2 DEF RevisionsStep, Revision
<1>4. \A v : \A kind \in Kinds : Known(v) /\ Current(v, kind)' =>
        Current(v, kind) /\ draft'[kind] = draft[kind]
  BY <1>3 DEF Current, Revision
<1>5. \A v : \A kind \in Kinds : Known(v) /\ v # None /\ v # Revision(kind) => v # Revision(kind)'
  BY <1>3 DEF Revision
<1> QED
  BY <1>2, <1>4, <1>5

LEMMA EditorsPass ==
  ASSUME StoreSound, RevisionsStep
  PROVE  /\ \A tab \in Editor : EditorSound(tab) => EditorSound(tab)'
         /\ \A q \in Requested : RequestSound(q) => RequestSound(q)'
         /\ \A tab \in Editor, q \in Requested : AskedSound(tab, q) => AskedSound(tab, q)'
<1>1. \A rest, was : \A kind \in Kinds : OnlyChanges(rest, was, kind) /\ draft'[kind] = draft[kind]
        => OnlyChanges(rest, was, kind)'
  BY DEF OnlyChanges
<1>2. ASSUME NEW q \in Requested, RequestSound(q) PROVE RequestSound(q)'
  <2>1. q.kind \in Kinds
    BY DEF Requested
  <2> QED
    BY <1>1, <1>2, <2>1, RevisionsPass DEF RequestSound
<1>3. ASSUME NEW tab \in Editor, NEW q \in Requested, AskedSound(tab, q)
      PROVE  AskedSound(tab, q)'
  <2>1. q.kind \in Kinds
    BY DEF Requested
  <2>2. \A v : Known(v) /\ v # None /\ v # Revision(q.kind) => v # Revision(q.kind)'
    BY <2>1, RevisionsPass
  <2>3. \A v : Known(v) /\ Current(v, q.kind)' => Current(v, q.kind) /\ draft'[q.kind] = draft[q.kind]
    BY <2>1, RevisionsPass
  <2>4. \A v : Known(v) => Known(v)'
    BY RevisionsPass
  <2>5. Known(q.revision) \/ q.answer # None
    BY <1>3 DEF AskedSound
  <2> QED
    BY <1>3, <2>2, <2>3, <2>4, <2>5 DEF AskedSound
<1>4. ASSUME NEW tab \in Editor, EditorSound(tab) PROVE EditorSound(tab)'
  <2>1. tab.kind \in Kinds /\ (tab.request # None => tab.request \in Requested)
    BY DEF Editor
  <2>2. tab.request # None => AskedSound(tab, tab.request)'
    BY <1>3, <1>4, <2>1 DEF EditorSound
  <2> QED
    BY <1>1, <1>4, <2>1, <2>2, RevisionsPass DEF EditorSound
<1> QED
  BY <1>2, <1>3, <1>4

-----------------------------------------------------------------------------
(* What every step has in common: it sets one tab or none.                 *)

\* The late request stays, goes, or is the one a tab leaves behind.
LateStep(t) ==
  \/ late' \in {late, None}
  \/ Asked(t) /\ late' = tabs[t].request

LEMMA AskedRequest ==
  ASSUME WorkInv, NEW t \in Tabs, Asked(t)
  PROVE  /\ tabs[t].request \in Requested /\ tabs[t].request.answer = None
         /\ RequestSound(tabs[t].request)
<1>1. PICK tab : tab = tabs[t]
  OBVIOUS
<1>2. PICK q : q = tab.request
  OBVIOUS
<1>3. tab \in Editor /\ q # None /\ q.answer = None
  BY <1>1, <1>2 DEF WorkInv, Asked, Open, Busy
<1>4. q \in Requested /\ EditorSound(tab)
  BY <1>1, <1>2, <1>3 DEF WorkInv, Open, Asked, Editor
<1>5. AskedSound(tab, q) /\ Known(tab.revision)
  BY <1>2, <1>3, <1>4 DEF EditorSound
<1>6. q.op # "discard" /\ Current(q.revision, q.kind) =>
        OnlyChanges(Without(q.content, q.text.slug), q.was, q.kind)
  BY <1>2, <1>3, <1>4, <1>5 DEF EditorSound, AskedSound, Current
<1>7. RequestSound(q)
  BY <1>3, <1>5, <1>6 DEF AskedSound, RequestSound
<1> QED
  BY <1>1, <1>2, <1>3, <1>4, <1>7

LEMMA LatePasses ==
  ASSUME WorkInv, RevisionsStep, NEW t \in Tabs, LateStep(t)
  PROVE  LateSound'
<1>1. PICK q : q = late'
  OBVIOUS
<1>2. q \in Requested \cup {None} /\ (q # None => q.answer = None /\ RequestSound(q))
  BY <1>1, AskedRequest DEF LateStep, WorkInv, LateSound
<1>3. q # None => RequestSound(q)'
  BY <1>2, EditorsPass DEF WorkInv
<1> QED
  BY <1>1, <1>2, <1>3 DEF LateSound

LEMMA SetTab ==
  ASSUME WorkInv, StoreSound', RevisionsStep, NEW t \in Tabs, LateStep(t),
         NEW tab \in Editor \cup {None}, tabs' = [tabs EXCEPT ![t] = tab],
         tab # None => EditorSound(tab)'
  PROVE  WorkInv'
<1>1. tabs' \in [Tabs -> Editor \cup {None}]
  BY DEF WorkInv
<1>2. ASSUME NEW u \in Tabs, NEW new, new = tabs'[u], new # None
      PROVE  EditorSound(new)'
  <2>1. CASE u = t
    BY <2>1, <1>2 DEF WorkInv
  <2>2. CASE u # t
    <3>1. new \in Editor /\ EditorSound(new)
      BY <2>2, <1>2 DEF WorkInv, Open
    <3> QED
      BY <3>1, EditorsPass DEF WorkInv
  <2> QED
    BY <2>1, <2>2
<1>3. (\A u \in Open : EditorSound(tabs[u]))'
  BY <1>2 DEF Open
<1> QED
  BY <1>1, <1>3, LatePasses DEF WorkInv

LEMMA TabsKept ==
  ASSUME WorkInv, StoreSound', RevisionsStep, tabs' = tabs, late' \in {late, None}
  PROVE  WorkInv'
<1>1. ASSUME NEW u \in Tabs, NEW new, new = tabs'[u], new # None
      PROVE  EditorSound(new)'
  BY <1>1, EditorsPass DEF WorkInv, Open
<1>2. (\A u \in Open : EditorSound(tabs[u]))'
  BY <1>1 DEF Open
<1>3. PICK q : q = late'
  OBVIOUS
<1>4. q \in Requested \cup {None} /\ (q # None => q.answer = None /\ RequestSound(q)')
  BY <1>3, EditorsPass DEF WorkInv, LateSound
<1>5. LateSound'
  BY <1>3, <1>4 DEF LateSound
<1> QED
  BY <1>2, <1>5 DEF WorkInv

\* A step of a tab alone.
LEMMA StoreKept ==
  ASSUME WorkInv, UNCHANGED <<store, world>>, sent' \in {sent, sent + 1}
  PROVE  /\ StoreSound' /\ RevisionsStep
         /\ \A tab : EditorSound(tab) => EditorSound(tab)'
<1>1. UNCHANGED <<draft, saved, main, live>>
  BY DEF store, world
<1>2. StoreSound' /\ RevisionsStep
  BY <1>1 DEF WorkInv, StoreSound, RevisionsStep, Fits
<1>3. ASSUME NEW tab, EditorSound(tab) PROVE EditorSound(tab)'
  BY <1>1, <1>3 DEF EditorSound, AskedSound, Known, Current, Revision, OnlyChanges
<1> QED
  BY <1>2, <1>3

-----------------------------------------------------------------------------
(* The owner in a tab.                                                     *)

LEMMA FreshEditor ==
  ASSUME StoreSound, NEW kind \in Kinds, NEW slug \in Slug(kind) \cup {None},
         slug = None => kind = "projects", slug # None => Shows(kind, slug)
  PROVE  Loaded(kind, slug) \in Editor /\ EditorSound(Loaded(kind, slug))
<1> DEFINE text == IF slug = None THEN Blank ELSE Of(View(kind), slug)
<1>1. slug # None => text \in View(kind) /\ text.slug = slug
  BY DEF Shows, Of
<1>2. text \in Texts
  BY <1>1, Encoding, Viewed
<1>3. slug \in AnySlug
  BY DEF AnySlug, Slug
<1>4. PICK tab : tab = Loaded(kind, slug)
  OBVIOUS
<1>5. /\ tab.kind = kind /\ tab.slug = slug /\ tab.page = Page(kind) /\ tab.next = "stay"
      /\ tab.revision = Revision(kind) /\ tab.text = text /\ tab.baseline = text
      /\ tab.request = None
  BY <1>4 DEF Loaded
<1>6. tab \in Editor
  BY <1>2, <1>3, <1>4, Viewed DEF Loaded, Editor
<1>7. Known(tab.revision) /\ Fits(tab.kind, tab.page)
  BY <1>5, Viewed
<1>8. kind = "personal" => text.slug = Me
  BY <1>1, Encoding, Viewed DEF Fits
<1>9. ASSUME Current(tab.revision, kind)
      PROVE  OnlyChanges(Others(tab), text, kind)
  <2>1. draft[kind] # None /\ View(kind) = draft[kind].content
    BY <1>5, <1>9, Viewed
  <2>2. CASE kind = "personal"
    BY <1>1, <1>5, <1>8, <2>1, <2>2, Viewed DEF OnlyChanges, Others, Without, Fits
  <2>3. CASE kind = "projects"
    <3>1. tab.page = draft[kind].content /\ Others(tab) = {x \in draft[kind].content : x.slug # slug}
      BY <1>5, <2>1, <2>3 DEF Page, Others
    <3>2. text.slug = slug
      BY <1>1 DEF Blank, Text
    <3>3. text # Blank => text \in draft[kind].content
      BY <1>1, <2>1
    <3> QED
      BY <3>1, <3>2, <3>3 DEF OnlyChanges, Without
  <2> QED
    BY <2>2, <2>3 DEF Kinds
<1>10. EditorSound(tab)
  <2> HIDE DEF text
  <2> QED
    BY <1>5, <1>7, <1>8, <1>9 DEF EditorSound
<1> QED
  BY <1>4, <1>6, <1>10

LEMMA OpenTabKeeps ==
  ASSUME WorkInv, NEW t \in Tabs, OpenTab(t)
  PROVE  WorkInv'
<1>1. PICK kind \in Kinds : \E slug \in Slug(kind) \cup {None} :
        /\ (slug = None => kind = "projects") /\ (slug # None => Shows(kind, slug))
        /\ Set(t, Loaded(kind, slug))
  BY DEF OpenTab
<1>2. PICK slug \in Slug(kind) \cup {None} :
        /\ (slug = None => kind = "projects") /\ (slug # None => Shows(kind, slug))
        /\ Set(t, Loaded(kind, slug))
  BY <1>1
<1>3. PICK tab : tab = Loaded(kind, slug)
  OBVIOUS
<1>4. tab \in Editor /\ EditorSound(tab)
  BY <1>2, <1>3, FreshEditor DEF WorkInv
<1>5. UNCHANGED <<store, world>> /\ sent' = sent /\ late' = late
  BY DEF OpenTab
<1> QED
  BY <1>2, <1>3, <1>4, <1>5, StoreKept, SetTab DEF Set, LateStep

LEMMA CloseTabKeeps ==
  ASSUME WorkInv, NEW t \in Tabs, CloseTab(t)
  PROVE  WorkInv'
<1>1. UNCHANGED <<store, world>> /\ sent' = sent /\ LateStep(t)
  BY DEF CloseTab, Leaves, LateStep
<1>2. tabs' = [tabs EXCEPT ![t] = None]
  BY DEF CloseTab, Set
<1> QED
  BY <1>1, <1>2, StoreKept, SetTab

\* A tab that only writes in its fields.
LEMMA Fields ==
  ASSUME NEW tab \in Editor, EditorSound(tab), NEW text \in Texts,
         tab.kind = "personal" => text.slug = Me
  PROVE  /\ [tab EXCEPT !.text = text] \in Editor
         /\ EditorSound([tab EXCEPT !.text = text])
<1>1. PICK new : new = [tab EXCEPT !.text = text]
  OBVIOUS
<1>2. new \in Editor
  BY <1>1 DEF Editor
<1>3. /\ new.kind = tab.kind /\ new.slug = tab.slug /\ new.page = tab.page
      /\ new.revision = tab.revision /\ new.baseline = tab.baseline /\ new.text = text
      /\ new.request = tab.request /\ new.next = tab.next
  BY <1>1 DEF Editor
<1>4. Others(new) = Others(tab)
  BY <1>3 DEF Others
<1>5. tab.request # None => AskedSound(new, tab.request)
  BY <1>3, <1>4 DEF EditorSound, AskedSound
<1>6. EditorSound(new)
  BY <1>3, <1>4, <1>5 DEF EditorSound
<1> QED
  BY <1>1, <1>2, <1>6

LEMMA TypeKeeps ==
  ASSUME WorkInv, NEW t \in Tabs, Type(t)
  PROVE  WorkInv'
<1>1. PICK old : old = tabs[t]
  OBVIOUS
<1>2. old \in Editor /\ EditorSound(old)
  BY <1>1 DEF Type, WorkInv, Open
<1>3. PICK slug \in Slug(old.kind) : \E words \in Words :
        tabs' = [tabs EXCEPT ![t] = [old EXCEPT !.text = Text(slug, words)]]
  BY <1>1 DEF Type, Set
<1>4. PICK words \in Words :
        tabs' = [tabs EXCEPT ![t] = [old EXCEPT !.text = Text(slug, words)]]
  BY <1>3
<1>5. Text(slug, words) \in Texts /\ (old.kind = "personal" => Text(slug, words).slug = Me)
  BY DEF Text, Texts, AnySlug, Slug
<1>6. PICK tab : tab = [old EXCEPT !.text = Text(slug, words)]
  OBVIOUS
<1>7. tab \in Editor /\ EditorSound(tab)
  BY <1>2, <1>5, <1>6, Fields
<1>8. UNCHANGED <<store, world>> /\ sent' = sent /\ late' = late
  BY DEF Type
<1> QED
  BY <1>4, <1>6, <1>7, <1>8, StoreKept, SetTab DEF LateStep

LEMMA OthersSound ==
  ASSUME NEW tab \in Editor, EditorSound(tab)
  PROVE  /\ Others(tab) \in SUBSET Texts /\ Fits("projects", Others(tab))
         /\ tab.kind = "personal" => Others(tab) = {}
BY DEF Others, Editor, EditorSound, Fits

LEMMA SendKeeps ==
  ASSUME WorkInv, NEW t \in Tabs, t \in Open, ~Busy(tabs[t]),
         NEW op \in {"save", "archive", "discard"}, NEW text \in Texts, NEW shown \in Texts,
         tabs[t].kind = "personal" => text.slug = Me /\ shown.slug = Me,
         op # "discard" => /\ text.slug # None
                           /\ \A x \in Others(tabs[t]) : x.slug # text.slug,
         op = "archive" => tabs[t].slug # None,
         Send(t, op, text, shown)
  PROVE  WorkInv'
<1>1. PICK old : old = tabs[t]
  OBVIOUS
<1>2. old \in Editor /\ EditorSound(old)
  BY <1>1 DEF WorkInv, Open
<1>3. PICK q : q = Request(op, old, text)
  OBVIOUS
<1>4. /\ q.op = op /\ q.kind = old.kind /\ q.revision = old.revision /\ q.text = text
      /\ q.content = Bundle(old, text) /\ q.was = old.baseline /\ q.answer = None
  BY <1>3 DEF Request
<1>5. q \in Requested
  BY <1>2, <1>3, OthersSound DEF Request, Requested, Editor, Bundle
<1>6. PICK mid : mid = [old EXCEPT !.text = shown]
  OBVIOUS
<1>7. mid \in Editor /\ EditorSound(mid)
  BY <1>1, <1>2, <1>6, Fields
<1>8. PICK tab : tab = [old EXCEPT !.request = q, !.text = shown]
  OBVIOUS
<1>9. tab \in Editor
  BY <1>2, <1>5, <1>8 DEF Editor
<1>10. /\ tab.kind = old.kind /\ tab.slug = old.slug /\ tab.page = old.page
       /\ tab.revision = old.revision /\ tab.baseline = old.baseline /\ tab.text = shown
       /\ tab.request = q /\ tab.next = old.next
  BY <1>2, <1>8 DEF Editor
<1>11. Others(tab) = Others(old)
  BY <1>10 DEF Others
<1>12. op # "discard" => /\ Fits(q.kind, q.content) /\ q.text \in q.content
                         /\ Without(q.content, q.text.slug) = Others(tab)
  <2>1. q.text \in q.content
    BY <1>4 DEF Bundle
  <2>2. ASSUME op # "discard" PROVE Fits(q.kind, q.content)
    <3>1. \A x \in Others(old) : x.slug # text.slug
      BY <1>1, <2>2
    <3> QED
      BY <1>1, <1>2, <1>4, <3>1, OthersSound DEF Fits, Bundle
  <2>3. ASSUME op # "discard" PROVE Without(q.content, q.text.slug) = Others(tab)
    BY <1>1, <1>4, <1>11, <2>3, WithoutItem DEF Bundle
  <2> QED
    BY <2>1, <2>2, <2>3
<1>13. AskedSound(tab, q)
  BY <1>1, <1>2, <1>4, <1>10, <1>12 DEF AskedSound, EditorSound
<1>14. EditorSound(tab)
  BY <1>1, <1>2, <1>10, <1>11, <1>13 DEF EditorSound
<1>15. tabs' = [tabs EXCEPT ![t] = tab]
  <2>1. [tabs[t] EXCEPT !.request = Request(op, tabs[t], text), !.text = shown] = tab
    BY <1>1, <1>3, <1>8
  <2> QED
    BY <2>1 DEF Send, Set
<1>16. UNCHANGED <<store, world>> /\ sent' = sent + 1 /\ late' = late
  BY DEF Send
<1> QED
  BY <1>9, <1>14, <1>15, <1>16, StoreKept, SetTab DEF LateStep

LEMMA SaveDraftKeeps ==
  ASSUME WorkInv, NEW t \in Tabs, SaveDraft(t)
  PROVE  WorkInv'
<1>1. PICK text : text = tabs[t].text
  OBVIOUS
<1>2. tabs[t] \in Editor /\ EditorSound(tabs[t])
  BY DEF SaveDraft, WorkInv, Open
<1>3. text \in Texts /\ (tabs[t].kind = "personal" => text.slug = Me)
  BY <1>1, <1>2 DEF Editor, EditorSound
<1>4. text.slug # None /\ \A x \in Others(tabs[t]) : x.slug # text.slug
  BY <1>1 DEF SaveDraft, Valid
<1> QED
  BY <1>1, <1>3, <1>4, SendKeeps DEF SaveDraft

LEMMA ArchiveProjectKeeps ==
  ASSUME WorkInv, NEW t \in Tabs, ArchiveProject(t)
  PROVE  WorkInv'
<1>1. PICK text : text = Archived(tabs[t].text)
  OBVIOUS
<1>2. tabs[t] \in Editor /\ tabs[t].kind = "projects"
  BY DEF ArchiveProject, WorkInv, Open
<1>3. text \in Texts /\ text.slug = tabs[t].text.slug
  BY <1>1, <1>2 DEF Editor, Archived, Texts
<1>4. text.slug # None /\ \A x \in Others(tabs[t]) : x.slug # text.slug
  BY <1>3 DEF ArchiveProject, Valid
<1> QED
  BY <1>1, <1>2, <1>3, <1>4, SendKeeps DEF ArchiveProject

LEMMA DiscardDraftKeeps ==
  ASSUME WorkInv, NEW t \in Tabs, DiscardDraft(t)
  PROVE  WorkInv'
<1>1. PICK old : old = tabs[t]
  OBVIOUS
<1>2. old \in Editor /\ EditorSound(old)
  BY <1>1 DEF DiscardDraft, WorkInv, Open
<1>3. PICK text : text = IF old.kind = "personal" THEN Of(old.page, Me) ELSE old.text
  OBVIOUS
<1>4. old.kind = "personal" => text \in old.page /\ text.slug = Me /\ old.text.slug = Me
  BY <1>2, <1>3 DEF EditorSound, Fits, Of
<1>5. text \in Texts /\ old.text \in Texts
  BY <1>2, <1>3, <1>4 DEF Editor
<1>6. Send(t, "discard", text, old.text)
  BY <1>1, <1>3 DEF DiscardDraft
<1> QED
  BY <1>1, <1>4, <1>5, <1>6, SendKeeps DEF DiscardDraft

-----------------------------------------------------------------------------
(* The server and the network.                                             *)

LEMMA WritesSound ==
  ASSUME StoreSound, NEW q \in Requested, Writes(q), UNCHANGED world, sent' = sent,
         q.op # "discard" => Fits(q.kind, q.content)
  PROVE  /\ StoreSound' /\ RevisionsStep
         /\ q.op # "discard" => /\ saved' = saved + 1 /\ draft'[q.kind].revision = saved + 1
                                /\ draft'[q.kind].content = q.content
<1>1. q.kind \in Kinds /\ q.content \in SUBSET Texts
  BY DEF Requested
<1>2. live' = live /\ main' = main
  BY DEF world
<1>3. /\ saved \in Nat /\ sent \in Nat
      /\ draft \in [Kinds -> [revision : Nat, base : Nat, content : SUBSET Texts] \cup {None}]
      /\ live \in Version /\ main \in Version /\ live.version \in 1..main.version
  BY DEF StoreSound
<1>4. CASE q.op = "discard"
  BY <1>1, <1>2, <1>3, <1>4 DEF Writes, StoreSound, RevisionsStep
<1>5. CASE q.op # "discard"
  <2>1. PICK new : new = Stored(q)
    OBVIOUS
  <2>2. /\ new \in [revision : Nat, base : Nat, content : SUBSET Texts]
        /\ new.revision = saved + 1 /\ new.content = q.content /\ new.base = live.version
    BY <1>1, <1>3, <2>1 DEF Stored, Version
  <2>4. draft' = [draft EXCEPT ![q.kind] = new] /\ saved' = saved + 1
    BY <1>5, <2>1 DEF Writes
  <2>5. draft'[q.kind] = new /\ \A kind \in Kinds : kind # q.kind => draft'[kind] = draft[kind]
    BY <1>1, <1>3, <2>4
  <2>6. RevisionsStep
    BY <1>1, <2>2, <2>4, <2>5 DEF RevisionsStep
  <2>7. StoreSound'
    <3>1. draft' \in [Kinds -> [revision : Nat, base : Nat, content : SUBSET Texts] \cup {None}]
      BY <1>3, <2>2, <2>4
    <3>2. ASSUME NEW kind \in Kinds, NEW d, d = draft'[kind], d # None
          PROVE  d.revision \in 1..saved' /\ d.base \in 1..main.version /\ Fits(kind, d.content)
      <4>1. CASE kind = q.kind
        <5>1. Fits(q.kind, q.content)
          BY <1>5
        <5> QED
          BY <1>3, <2>2, <2>4, <2>5, <3>2, <4>1, <5>1
      <4>2. CASE kind # q.kind
        <5>1. d = draft[kind]
          BY <2>5, <3>2, <4>2
        <5>2. d.revision \in 1..saved /\ d.base \in 1..main.version /\ Fits(kind, d.content)
          BY <3>2, <5>1 DEF StoreSound
        <5> QED
          BY <1>3, <2>4, <5>2
      <4> QED
        BY <4>1, <4>2
    <3> QED
      BY <1>2, <1>3, <2>4, <3>1, <3>2 DEF StoreSound
  <2> QED
    BY <2>2, <2>4, <2>5, <2>6, <2>7
<1> QED
  BY <1>4, <1>5

\* A tab that is told the answer to its request.
LEMMA ToldTab ==
  ASSUME NEW tab \in Editor, tab.request # None, NEW answer \in Answers
  PROVE  LET new == [tab EXCEPT !.request.answer = answer]
             q == [tab.request EXCEPT !.answer = answer]
         IN /\ new \in Editor /\ q \in Requested
            /\ new.request = q /\ q.answer = answer
            /\ new.kind = tab.kind /\ new.slug = tab.slug /\ new.page = tab.page
            /\ new.revision = tab.revision /\ new.baseline = tab.baseline
            /\ new.text = tab.text /\ new.next = tab.next /\ Others(new) = Others(tab)
            /\ q.op = tab.request.op /\ q.kind = tab.request.kind
            /\ q.text = tab.request.text /\ q.content = tab.request.content
<1>1. tab.request \in Requested
  BY DEF Editor
<1>2. PICK q : q = [tab.request EXCEPT !.answer = answer]
  OBVIOUS
<1>3. q \in Requested /\ q.answer = answer
  BY <1>1, <1>2 DEF Requested
<1>4. /\ q.op = tab.request.op /\ q.kind = tab.request.kind
      /\ q.text = tab.request.text /\ q.content = tab.request.content
  BY <1>1, <1>2 DEF Requested
<1>6. PICK new : new = [tab EXCEPT !.request.answer = answer]
  OBVIOUS
<1>7. new = [tab EXCEPT !.request = q]
  BY <1>2, <1>6
<1>8. new \in Editor /\ new.request = q
  BY <1>3, <1>7 DEF Editor
<1>9. /\ new.kind = tab.kind /\ new.slug = tab.slug /\ new.page = tab.page
      /\ new.revision = tab.revision /\ new.baseline = tab.baseline
      /\ new.text = tab.text /\ new.next = tab.next
  BY <1>7 DEF Editor
<1> QED
  BY <1>2, <1>3, <1>4, <1>6, <1>8, <1>9 DEF Others

LEMMA AcceptKeeps ==
  ASSUME WorkInv, NEW t \in Tabs, Accept(t)
  PROVE  WorkInv'
<1>1. PICK old : old = tabs[t]
  OBVIOUS
<1>2. PICK q : q = old.request
  OBVIOUS
<1>3. Asked(t) /\ Matches(q) /\ Writes(q) /\ UNCHANGED <<world, sent, late>>
  BY <1>1, <1>2 DEF Accept
<1>4. old \in Editor /\ EditorSound(old) /\ q # None /\ q \in Requested /\ q.answer = None
  BY <1>1, <1>2, <1>3, AskedRequest DEF WorkInv, Asked, Open, Busy
<1>5. q.kind \in Kinds /\ old.kind \in Kinds
  BY <1>4 DEF Requested, Editor
<1>6. AskedSound(old, q)
  BY <1>2, <1>4 DEF EditorSound
<1>7. /\ StoreSound' /\ RevisionsStep
      /\ q.op # "discard" => /\ saved' = saved + 1 /\ draft'[q.kind].revision = saved + 1
                             /\ draft'[q.kind].content = q.content
  BY <1>3, <1>4, <1>6, WritesSound DEF AskedSound, WorkInv
<1>8. PICK answer : answer = Success(IF q.op = "discard" THEN None ELSE saved + 1)
  OBVIOUS
<1>9. /\ answer \in Answers /\ answer # None
      /\ q.op # "discard" => answer.revision = saved + 1 /\ saved + 1 # None
  <2>1. saved + 1 \in Nat /\ None \in Revisions /\ saved + 1 \in Revisions
    BY DEF Revisions, WorkInv, StoreSound
  <2>2. answer \in Answers
    BY <1>8, <2>1 DEF Success, Answers
  <2>3. q.op # "discard" => answer.revision = saved + 1
    BY <1>8 DEF Success
  <2> QED
    BY <2>1, <2>2, <2>3, Encoding
<1>10. PICK tab : tab = [old EXCEPT !.request.answer = answer]
  OBVIOUS
<1>11. PICK q2 : q2 = [q EXCEPT !.answer = answer]
  OBVIOUS
<1>12. /\ tab \in Editor /\ q2 \in Requested /\ tab.request = q2 /\ q2.answer = answer
       /\ tab.kind = old.kind /\ tab.slug = old.slug /\ tab.page = old.page
       /\ tab.revision = old.revision /\ tab.baseline = old.baseline
       /\ tab.text = old.text /\ tab.next = old.next /\ Others(tab) = Others(old)
       /\ q2.op = q.op /\ q2.kind = q.kind /\ q2.text = q.text /\ q2.content = q.content
  BY <1>2, <1>4, <1>9, <1>10, <1>11, ToldTab
<1>13. AskedSound(tab, q2)'
  <2>1. q.op # "discard" => Without(q.content, q.text.slug) = Others(old)
    BY <1>3, <1>4, <1>6 DEF AskedSound, Matches
  <2>2. q.op # "discard" => answer.revision # None /\ Known(answer.revision)'
    BY <1>7, <1>9 DEF Known, WorkInv, StoreSound
  <2>3. q.op # "discard" => draft'[q.kind].content = q.content
    BY <1>7
  <2>4. q.kind = old.kind /\ (q.kind = "personal" => q.text.slug = Me)
        /\ (q.op = "archive" => old.slug # None)
        /\ (q.op # "discard" => Fits(q.kind, q.content) /\ q.text \in q.content /\ q.text.slug # None)
    BY <1>6 DEF AskedSound
  <2> QED
    BY <1>9, <1>12, <2>1, <2>2, <2>3, <2>4 DEF AskedSound
<1>14. EditorSound(tab)'
  <2>1. EditorSound(old)'
    BY <1>4, <1>7, EditorsPass DEF WorkInv
  <2> QED
    BY <1>12, <1>13, <2>1 DEF EditorSound
<1>15. tabs' = [tabs EXCEPT ![t] = tab]
  BY <1>1, <1>2, <1>8, <1>10 DEF Accept, Told, Set
<1> QED
  BY <1>3, <1>7, <1>12, <1>14, <1>15, SetTab DEF LateStep

LEMMA Fails ==
  ASSUME WorkInv, NEW t \in Tabs, t \in Open, Busy(tabs[t]), Told(t, Failure),
         UNCHANGED <<store, world, sent>>, LateStep(t)
  PROVE  WorkInv'
<1>1. PICK old : old = tabs[t]
  OBVIOUS
<1>2. PICK q : q = old.request
  OBVIOUS
<1>3. old \in Editor /\ EditorSound(old) /\ q # None
  BY <1>1, <1>2 DEF WorkInv, Open, Busy
<1>4. AskedSound(old, q)
  BY <1>2, <1>3 DEF EditorSound
<1>5. PICK answer : answer = Failure
  OBVIOUS
<1>6. answer \in Answers /\ answer # None /\ ~answer.ok
  <2>1. answer \in Answers /\ ~answer.ok
    BY <1>5 DEF Failure, Answers, Revisions
  <2> QED
    BY <2>1, Encoding
<1>7. PICK tab : tab = [old EXCEPT !.request.answer = answer]
  OBVIOUS
<1>8. PICK q2 : q2 = [q EXCEPT !.answer = answer]
  OBVIOUS
<1>9. /\ tab \in Editor /\ q2 \in Requested /\ tab.request = q2 /\ q2.answer = answer
      /\ tab.kind = old.kind /\ tab.slug = old.slug /\ tab.page = old.page
      /\ tab.revision = old.revision /\ tab.baseline = old.baseline
      /\ tab.text = old.text /\ tab.next = old.next /\ Others(tab) = Others(old)
      /\ q2.op = q.op /\ q2.kind = q.kind /\ q2.text = q.text /\ q2.content = q.content
  BY <1>2, <1>3, <1>6, <1>7, <1>8, ToldTab
<1>10. AskedSound(tab, q2)
  BY <1>4, <1>6, <1>9 DEF AskedSound
<1>11. EditorSound(tab)
  BY <1>3, <1>9, <1>10 DEF EditorSound
<1>12. tabs' = [tabs EXCEPT ![t] = tab]
  BY <1>1, <1>5, <1>7 DEF Told, Set
<1> QED
  BY <1>9, <1>11, <1>12, StoreKept, SetTab

LEMMA RefuseKeeps ==
  ASSUME WorkInv, NEW t \in Tabs, Refuse(t)
  PROVE  WorkInv'
BY Fails DEF Refuse, Asked, LateStep

LEMMA LoseKeeps ==
  ASSUME WorkInv, NEW t \in Tabs, Lose(t)
  PROVE  WorkInv'
BY Fails DEF Lose, LateStep

LEMMA HandleLateKeeps ==
  ASSUME WorkInv, HandleLate
  PROVE  WorkInv'
<1>1. tabs' = tabs /\ late' = None /\ sent' = sent /\ UNCHANGED world /\ late # None
  BY DEF HandleLate
<1>2. late \in Requested /\ RequestSound(late)
  BY <1>1 DEF WorkInv, LateSound
<1>3. CASE Matches(late)
  <2>1. Writes(late)
    BY <1>3 DEF HandleLate
  <2>2. StoreSound' /\ RevisionsStep
    BY <1>1, <1>2, <2>1, WritesSound DEF WorkInv, RequestSound
  <2> QED
    BY <1>1, <2>2, TabsKept
<1>4. CASE ~Matches(late)
  <2>1. UNCHANGED store
    BY <1>4 DEF HandleLate
  <2> QED
    BY <1>1, <2>1, StoreKept, TabsKept
<1> QED
  BY <1>3, <1>4

-----------------------------------------------------------------------------
(* What a tab does with its answer.                                        *)

LEMMA AfterFailure ==
  ASSUME NEW tab \in Editor, EditorSound(tab)
  PROVE  Failed(tab) \in Editor /\ EditorSound(Failed(tab))
<1>1. PICK new : new = Failed(tab)
  OBVIOUS
<1>2. /\ new \in Editor
      /\ new.kind = tab.kind /\ new.slug = tab.slug /\ new.page = tab.page
      /\ new.revision = tab.revision /\ new.baseline = tab.baseline /\ new.text = tab.text
      /\ new.request = None /\ new.next = tab.next
  BY <1>1 DEF Failed, Editor
<1>3. Others(new) = Others(tab)
  BY <1>2 DEF Others
<1> QED
  BY <1>1, <1>2, <1>3 DEF EditorSound

LEMMA AfterSaved ==
  ASSUME NEW tab \in Editor, EditorSound(tab), NEW q, q = tab.request, q # None,
         q.answer # None, q.answer.ok, q.op # "discard"
  PROVE  AfterSave(tab, q) \in Editor /\ EditorSound(AfterSave(tab, q))
<1>1. q \in Requested /\ AskedSound(tab, q)
  BY DEF Editor, EditorSound
<1>2. PICK text : text = SavedAsSent(tab, q).text
  OBVIOUS
<1>3. /\ text \in Texts /\ q.text \in Texts
      /\ tab.kind = "personal" => text.slug = Me /\ q.text.slug = Me
  BY <1>1, <1>2 DEF SavedAsSent, Editor, EditorSound, AskedSound, Requested
<1>4. q.answer \in Answers /\ q.answer.revision \in Revisions
  BY <1>1 DEF Requested, Answers
<1>5. PICK next : next = Follows(tab, q)
  OBVIOUS
<1>6. next \in AnySlug \cup {"stay", "refresh", "list"}
  BY <1>3, <1>5 DEF Follows, Texts
<1>7. next = "refresh" => tab.slug # None
  <2>1. q.op \in {"save", "archive"}
    BY <1>1 DEF Requested
  <2>2. q.text.slug \in AnySlug
    BY <1>3 DEF Texts
  <2> QED
    BY <1>1, <1>5, <2>1, <2>2, Encoding DEF Follows, AskedSound
<1>8. PICK new : new = AfterSave(tab, q)
  OBVIOUS
<1>9. new = [tab EXCEPT !.text = text, !.baseline = q.text, !.revision = q.answer.revision,
                        !.hasDraft = TRUE, !.request = None, !.next = next]
  BY <1>2, <1>5, <1>8 DEF AfterSave, SavedAsSent
<1>10. /\ new.kind = tab.kind /\ new.slug = tab.slug /\ new.page = tab.page
       /\ new.revision = q.answer.revision /\ new.baseline = q.text /\ new.text = text
       /\ new.request = None /\ new.next = next
  BY <1>9 DEF Editor
<1>11. new \in Editor
  BY <1>3, <1>4, <1>6, <1>9 DEF Editor
<1>12. Others(new) = Others(tab)
  BY <1>10 DEF Others
<1>13. Known(q.answer.revision) /\ q.answer.revision # None
  BY <1>1 DEF AskedSound
<1>14. Current(q.answer.revision, tab.kind) => OnlyChanges(Others(tab), q.text, tab.kind)
  BY <1>1 DEF AskedSound, OnlyChanges
<1>15. Fits(tab.kind, tab.page)
  BY DEF EditorSound
<1>16. EditorSound(new)
  BY <1>3, <1>7, <1>10, <1>12, <1>13, <1>14, <1>15 DEF EditorSound
<1> QED
  BY <1>8, <1>11, <1>16

LEMMA AfterDiscarded ==
  ASSUME NEW tab \in Editor, EditorSound(tab), NEW q, q = tab.request, q # None
  PROVE  AfterDiscard(tab, q) \in Editor /\ EditorSound(AfterDiscard(tab, q))
<1>1. q \in Requested /\ AskedSound(tab, q) /\ q.text \in Texts
  BY DEF Editor, EditorSound, Requested
<1>2. PICK new : new = AfterDiscard(tab, q)
  OBVIOUS
<1>3. CASE tab.kind = "personal"
  <2>1. new = [tab EXCEPT !.revision = None, !.hasDraft = FALSE, !.request = None,
                          !.text = q.text, !.baseline = q.text, !.next = "refresh"]
    BY <1>2, <1>3 DEF AfterDiscard
  <2>2. /\ new \in Editor /\ new.kind = tab.kind /\ new.page = tab.page
        /\ new.revision = None /\ new.baseline = q.text /\ new.text = q.text
        /\ new.request = None
    BY <1>1, <2>1 DEF Editor, Revisions
  <2>3. q.text.slug = Me
    BY <1>1, <1>3 DEF AskedSound
  <2> QED
    BY <1>2, <1>3, <2>2, <2>3 DEF EditorSound, Known, Current
<1>4. CASE tab.kind # "personal"
  <2>1. new = [tab EXCEPT !.revision = None, !.hasDraft = FALSE, !.request = None, !.next = "list"]
    BY <1>2, <1>4 DEF AfterDiscard
  <2>2. /\ new \in Editor /\ new.kind = tab.kind /\ new.page = tab.page
        /\ new.revision = None /\ new.request = None /\ new.next = "list"
    BY <2>1 DEF Editor, Revisions
  <2> QED
    BY <1>2, <1>4, <2>2 DEF EditorSound, Known, Current
<1> QED
  BY <1>2, <1>3, <1>4

LEMMA AnsweredKeeps ==
  ASSUME WorkInv, NEW t \in Tabs, Answered(t)
  PROVE  WorkInv'
<1>1. PICK old : old = tabs[t]
  OBVIOUS
<1>2. PICK q : q = old.request
  OBVIOUS
<1>3. old \in Editor /\ EditorSound(old) /\ q # None /\ q.answer # None
  BY <1>1, <1>2 DEF Answered, WorkInv, Open, Busy, Asked
<1>4. PICK tab : tab = IF ~q.answer.ok THEN Failed(old)
                       ELSE IF q.op = "discard" THEN AfterDiscard(old, q)
                       ELSE AfterSave(old, q)
  OBVIOUS
<1>5. tab \in Editor /\ EditorSound(tab)
  BY <1>2, <1>3, <1>4, AfterFailure, AfterDiscarded, AfterSaved
<1>6. tabs' = [tabs EXCEPT ![t] = tab]
  BY <1>1, <1>2, <1>4 DEF Answered, Set
<1>7. UNCHANGED <<store, world>> /\ sent' = sent /\ late' = late
  BY DEF Answered
<1> QED
  BY <1>5, <1>6, <1>7, StoreKept, SetTab DEF LateStep

\* A new page under the state the editor has.
LEMMA Refreshed ==
  ASSUME StoreSound, NEW tab \in Editor, EditorSound(tab), tab.next = "refresh",
         tab.slug = None \/ Shows(tab.kind, tab.slug)
  PROVE  LET new == [tab EXCEPT !.page = Page(tab.kind), !.next = "stay"]
         IN new \in Editor /\ EditorSound(new)
<1>1. PICK new : new = [tab EXCEPT !.page = Page(tab.kind), !.next = "stay"]
  OBVIOUS
<1>2. tab.kind \in Kinds
  BY DEF Editor
<1>3. /\ new.kind = tab.kind /\ new.slug = tab.slug /\ new.page = Page(tab.kind)
      /\ new.revision = tab.revision /\ new.baseline = tab.baseline /\ new.text = tab.text
      /\ new.request = tab.request /\ new.next = "stay"
  BY <1>1 DEF Editor
<1>4. new \in Editor /\ Fits(new.kind, new.page)
  BY <1>1, <1>2, <1>3, Viewed DEF Editor
<1>5. tab.kind = "projects" => /\ tab.slug # None /\ tab.revision # None
                              /\ Shows("projects", tab.slug)
  BY DEF EditorSound
<1>6. ASSUME Current(tab.revision, tab.kind)
      PROVE  Others(new) = Others(tab)
  <2>1. CASE tab.kind = "personal"
    BY <1>3, <2>1 DEF Others
  <2>2. CASE tab.kind = "projects"
    <3>1. Others(tab) = Without(draft["projects"].content, tab.baseline.slug)
      BY <1>6, <2>2 DEF EditorSound, OnlyChanges
    <3>2. View("projects") = draft["projects"].content
      BY <1>2, <1>6, <2>2, Viewed DEF Current
    <3>3. Others(new) = Without(draft["projects"].content, tab.slug)
      BY <1>3, <2>2, <3>2 DEF Others, Page, Without
    <3>4. PICK x \in draft["projects"].content : x.slug = tab.slug
      BY <1>5, <2>2, <3>2 DEF Shows
    <3>5. x \notin Others(tab)
      BY <2>2, <3>4 DEF Others
    <3>6. tab.slug = tab.baseline.slug
      BY <3>1, <3>4, <3>5 DEF Without
    <3> QED
      BY <3>1, <3>3, <3>6
  <2> QED
    BY <1>2, <2>1, <2>2 DEF Kinds
<1>7. Current(tab.revision, tab.kind) => OnlyChanges(Others(new), tab.baseline, tab.kind)
  BY <1>6 DEF EditorSound
<1>8. ASSUME NEW q, q = tab.request, q # None
      PROVE  AskedSound(new, q)
  <2>1. AskedSound(tab, q)
    BY <1>8 DEF EditorSound
  <2>2. ASSUME q.answer = None, q.op # "discard"
        PROVE  \/ Without(q.content, q.text.slug) = Others(new)
               \/ q.revision # None /\ q.revision # Revision(q.kind)
    <3>1. CASE tab.kind = "personal"
      BY <1>3, <2>1, <2>2, <3>1 DEF AskedSound, Others
    <3>2. CASE tab.kind = "projects"
      BY <1>5, <1>6, <2>1, <2>2, <3>2 DEF AskedSound, Current
    <3> QED
      BY <1>2, <3>1, <3>2 DEF Kinds
  <2>3. ASSUME q.answer # None, q.answer.ok, q.op # "discard", Current(q.answer.revision, q.kind)
        PROVE  Without(q.content, q.text.slug) = Others(new)
    <3>1. /\ q.kind = tab.kind /\ draft[q.kind].content = q.content
          /\ Without(q.content, q.text.slug) = Others(tab)
      BY <2>1, <2>3 DEF AskedSound
    <3>2. CASE tab.kind = "personal"
      BY <1>3, <3>1, <3>2 DEF Others
    <3>3. CASE tab.kind = "projects"
      <4>1. View("projects") = q.content
        BY <1>2, <2>3, <3>1, <3>3, Viewed DEF Current
      <4>2. Others(new) = Without(q.content, tab.slug)
        BY <1>3, <3>3, <4>1 DEF Others, Page, Without
      <4>3. PICK x \in q.content : x.slug = tab.slug
        BY <1>5, <3>3, <4>1 DEF Shows
      <4>4. x \notin Others(tab)
        BY <3>3, <4>3 DEF Others
      <4>5. tab.slug = q.text.slug
        BY <3>1, <4>3, <4>4 DEF Without
      <4> QED
        BY <3>1, <4>2, <4>5
    <3> QED
      BY <1>2, <3>2, <3>3 DEF Kinds
  <2> QED
    BY <1>3, <2>1, <2>2, <2>3 DEF AskedSound
<1>9. EditorSound(new)
  BY <1>3, <1>4, <1>7, <1>8 DEF EditorSound
<1> QED
  BY <1>1, <1>4, <1>9

LEMMA RefreshKeeps ==
  ASSUME WorkInv, NEW t \in Tabs, Refresh(t)
  PROVE  WorkInv'
<1>1. PICK old : old = tabs[t]
  OBVIOUS
<1>2. old \in Editor /\ EditorSound(old) /\ old.next \in {"refresh", "list"}
  BY <1>1 DEF Refresh, WorkInv, Open
<1>3. UNCHANGED <<store, world>> /\ sent' = sent
  BY DEF Refresh
<1>4. CASE old.next = "list" \/ (old.slug # None /\ ~Shows(old.kind, old.slug))
  <2>1. Set(t, None) /\ Leaves(t)
    BY <1>1, <1>4 DEF Refresh
  <2> QED
    BY <1>3, <2>1, StoreKept, SetTab DEF Set, Leaves, LateStep
<1>5. CASE ~(old.next = "list" \/ (old.slug # None /\ ~Shows(old.kind, old.slug)))
  <2>1. PICK tab : tab = [old EXCEPT !.page = Page(old.kind), !.next = "stay"]
    OBVIOUS
  <2>2. tabs' = [tabs EXCEPT ![t] = tab] /\ late' = late
    BY <1>1, <1>5, <2>1 DEF Refresh, Set
  <2>3. tab \in Editor /\ EditorSound(tab)
    BY <1>2, <1>5, <2>1, Refreshed DEF WorkInv
  <2> QED
    BY <1>3, <2>2, <2>3, StoreKept, SetTab DEF LateStep
<1> QED
  BY <1>4, <1>5

LEMMA MoveKeeps ==
  ASSUME WorkInv, NEW t \in Tabs, Move(t)
  PROVE  WorkInv'
<1>1. PICK next : next = tabs[t].next
  OBVIOUS
<1>2. next \in Slugs /\ UNCHANGED <<store, world>> /\ sent' = sent /\ LateStep(t)
  BY <1>1 DEF Move, Leaves, LateStep
<1>3. CASE Shows("projects", next)
  <2>1. PICK tab : tab = Loaded("projects", next)
    OBVIOUS
  <2>2. tabs' = [tabs EXCEPT ![t] = tab]
    BY <1>1, <1>3, <2>1 DEF Move, Set
  <2>3. tab \in Editor /\ EditorSound(tab)
    BY <1>2, <1>3, <2>1, Encoding, FreshEditor DEF WorkInv, Kinds, Slug
  <2> QED
    BY <1>2, <2>2, <2>3, StoreKept, SetTab
<1>4. CASE ~Shows("projects", next)
  <2>1. tabs' = [tabs EXCEPT ![t] = None]
    BY <1>1, <1>4 DEF Move, Set
  <2> QED
    BY <1>2, <2>1, StoreKept, SetTab
<1> QED
  BY <1>3, <1>4

-----------------------------------------------------------------------------
(* Publication and deployment.                                             *)

LEMMA PublishKeeps ==
  ASSUME WorkInv, Publish
  PROVE  WorkInv'
<1>1. PICK content : content = [kind \in Kinds |-> View(kind)]
  OBVIOUS
<1>2. content \in [Kinds -> SUBSET Texts] /\ \A kind \in Kinds : Fits(kind, content[kind])
  BY <1>1, Viewed DEF WorkInv
<1>3. /\ main' = [version |-> main.version + 1, content |-> content]
      /\ draft' = [kind \in Kinds |-> None]
      /\ saved' = saved /\ live' = live /\ sent' = sent /\ tabs' = tabs /\ late' = late
  BY <1>1 DEF Publish
<1>4. main' \in Version /\ live.version \in 1..main'.version
  BY <1>2, <1>3 DEF WorkInv, StoreSound, Version
<1>5. \A kind \in Kinds : draft'[kind] = None /\ Fits(kind, main'.content[kind])
  BY <1>2, <1>3
<1>6. StoreSound'
  BY <1>3, <1>4, <1>5 DEF WorkInv, StoreSound
<1>7. RevisionsStep
  BY <1>3 DEF RevisionsStep
<1> QED
  BY <1>3, <1>6, <1>7, TabsKept

LEMMA DeployKeeps ==
  ASSUME WorkInv, Deploy
  PROVE  WorkInv'
<1>1. live' = main /\ UNCHANGED <<draft, saved, main, sent, tabs, late>>
  BY DEF Deploy, store
<1>2. main.version \in 1..main.version
  BY DEF WorkInv, StoreSound, Version
<1>3. StoreSound'
  BY <1>1, <1>2 DEF WorkInv, StoreSound
<1>4. RevisionsStep
  BY <1>1 DEF RevisionsStep
<1> QED
  BY <1>1, <1>3, <1>4, TabsKept

-----------------------------------------------------------------------------
LEMMA WorkStarts == WorkInit => WorkInv
<1> SUFFICES ASSUME WorkInit PROVE WorkInv
  OBVIOUS
<1> DEFINE first(kind) == Text(CHOOSE s \in Slug(kind) : TRUE, "first")
<1>1. \A kind \in Kinds : first(kind) \in Texts /\ (kind = "personal" => first(kind).slug = Me)
  <2>1. \A kind \in Kinds : (CHOOSE s \in Slug(kind) : TRUE) \in Slug(kind)
    BY WorkspaceConstants DEF Slug
  <2> QED
    BY <2>1 DEF Slug, Text, Texts, AnySlug
<1>2. PICK content : content = [kind \in Kinds |-> {first(kind)}]
  OBVIOUS
<1> HIDE DEF first
<1>3. content \in [Kinds -> SUBSET Texts] /\ \A kind \in Kinds : Fits(kind, content[kind])
  BY <1>1, <1>2 DEF Fits
<1>4. live = [version |-> 1, content |-> content] /\ main = live
  BY <1>2 DEF WorkInit, first
<1>5. live \in Version /\ \A kind \in Kinds : Fits(kind, live.content[kind])
  BY <1>3, <1>4 DEF Version
<1>6. StoreSound
  BY <1>4, <1>5 DEF WorkInit, StoreSound
<1>7. Open = {} /\ tabs \in [Tabs -> Editor \cup {None}] /\ late = None
  BY DEF WorkInit, Open
<1> QED
  BY <1>6, <1>7 DEF WorkInv, LateSound

LEMMA WorkSteps == WorkInv /\ [WorkNext]_workVars => WorkInv'
<1> SUFFICES ASSUME WorkInv, [WorkNext]_workVars PROVE WorkInv'
  OBVIOUS
<1>1. CASE UNCHANGED workVars
  BY <1>1, StoreKept, TabsKept DEF workVars
<1>2. CASE \E t \in Tabs :
        \/ OpenTab(t) \/ CloseTab(t) \/ Type(t)
        \/ SaveDraft(t) \/ ArchiveProject(t) \/ DiscardDraft(t)
        \/ Accept(t) \/ Refuse(t) \/ Lose(t)
        \/ Answered(t) \/ Refresh(t) \/ Move(t)
  BY <1>2, OpenTabKeeps, CloseTabKeeps, TypeKeeps, SaveDraftKeeps, ArchiveProjectKeeps,
     DiscardDraftKeeps, AcceptKeeps, RefuseKeeps, LoseKeeps, AnsweredKeeps, RefreshKeeps,
     MoveKeeps
<1>3. CASE HandleLate
  BY <1>3, HandleLateKeeps
<1>4. CASE Publish
  BY <1>4, PublishKeeps
<1>5. CASE Deploy
  BY <1>5, DeployKeeps
<1> QED
  BY <1>1, <1>2, <1>3, <1>4, <1>5 DEF WorkNext

LEMMA WorkHolds == WorkSpec => []WorkInv
BY WorkStarts, WorkSteps, PTL DEF WorkSpec

\* Content keeps its form, and a clean editor that holds the store's revision
\* shows what the store has: nothing typed while a request was under way
\* passes for saved (PersonalEditor.tsx:77, ProjectEditor.tsx:162).
THEOREM EditorsStayHonest == WorkSpec => []EditorsHonest
<1>1. ASSUME WorkInv PROVE EditorsHonest
  <2>1. ContentSound
    <3>1. \A kind \in Kinds : Fits(kind, View(kind))
      BY <1>1, Viewed DEF WorkInv
    <3> QED
      BY <1>1, <3>1 DEF WorkInv, StoreSound, ContentSound, Fits
  <2>2. ASSUME NEW t \in Open, ~Dirty(tabs[t]), tabs[t].text # Blank,
               tabs[t].revision # None, tabs[t].revision = Revision(tabs[t].kind)
        PROVE  tabs[t].text \in draft[tabs[t].kind].content
    <3>1. EditorSound(tabs[t])
      BY <1>1 DEF WorkInv
    <3> QED
      BY <2>2, <3>1 DEF EditorSound, Current, OnlyChanges, Dirty
  <2> QED
    BY <2>1, <2>2 DEF EditorsHonest, CleanIsStored
<1> QED
  BY <1>1, WorkHolds, PTL

\* A request is handled only against the draft its tab has seen.
LEMMA SeenReplaced ==
  ASSUME WorkInv, NEW q \in Requested, RequestSound(q), Matches(q), Writes(q),
         NEW kind \in Kinds, draft[kind] # None, draft'[kind] # None,
         draft'[kind] # draft[kind]
  PROVE  /\ q.content = draft'[kind].content
         /\ Without(q.content, q.text.slug) = Without(draft[kind].content, q.was.slug)
         /\ q.was # Blank => q.was \in draft[kind].content
<1>1. q.kind = kind /\ q.op # "discard" /\ draft'[kind] = Stored(q)
  BY DEF Writes, WorkInv, StoreSound, Requested
<1>2. Revision(kind) # None
  <2>1. draft[kind].revision \in 1..saved /\ saved \in Nat
    BY DEF WorkInv, StoreSound
  <2> QED
    BY <2>1, Encoding DEF Revision
<1>3. Current(q.revision, kind)
  BY <1>1, <1>2 DEF Matches, Current
<1> QED
  BY <1>1, <1>3 DEF RequestSound, OnlyChanges, Stored

\* What another tab has saved is never undone unseen: a save replaces a draft
\* only by itself with one item changed, from what its tab had before it
\* (expectedRevision, drafts.ts:263, against ProjectEditor.tsx:147).
THEOREM NothingIsUndoneUnseen == WorkSpec => NothingUnseenReplaced
<1> DEFINE Seen(kind) ==
      (draft[kind] # None /\ draft'[kind] # None /\ draft'[kind] # draft[kind]) =>
         \E q \in Requests :
           /\ q.content = draft'[kind].content
           /\ Without(q.content, q.text.slug) = Without(draft[kind].content, q.was.slug)
           /\ (q.was # Blank => q.was \in draft[kind].content)
<1>1. ASSUME WorkInv, [WorkNext]_workVars, NEW kind \in Kinds
      PROVE  Seen(kind)
  <2>1. CASE \E t \in Tabs : Accept(t)
    <3>1. PICK t \in Tabs : Accept(t)
      BY <2>1
    <3>2. PICK q : q = tabs[t].request
      OBVIOUS
    <3>3. Asked(t) /\ Matches(q) /\ Writes(q)
      BY <3>1, <3>2 DEF Accept
    <3>4. q \in Requested /\ RequestSound(q)
      BY <1>1, <3>2, <3>3, AskedRequest
    <3>5. q \in Requests
      BY <3>2, <3>3 DEF Requests, Asked, Busy
    <3> QED
      BY <1>1, <3>3, <3>4, <3>5, SeenReplaced
  <2>2. CASE HandleLate
    <3>1. late # None /\ late \in Requests
      BY <2>2 DEF HandleLate, Requests
    <3>2. late \in Requested /\ RequestSound(late)
      BY <1>1, <3>1 DEF WorkInv, LateSound
    <3>3. CASE Matches(late)
      BY <1>1, <2>2, <3>1, <3>2, <3>3, SeenReplaced DEF HandleLate
    <3>4. CASE ~Matches(late)
      BY <2>2, <3>4 DEF HandleLate, store
    <3> QED
      BY <3>3, <3>4
  <2>3. CASE Publish
    BY <1>1, <2>3 DEF Publish
  <2>4. CASE draft' = draft
    BY <2>4
  <2>5. \/ \E t \in Tabs : Accept(t)
        \/ HandleLate \/ Publish \/ draft' = draft
    <3>1. ASSUME NEW t \in Tabs,
                 \/ OpenTab(t) \/ CloseTab(t) \/ Type(t)
                 \/ SaveDraft(t) \/ ArchiveProject(t) \/ DiscardDraft(t)
                 \/ Refuse(t) \/ Lose(t) \/ Answered(t) \/ Refresh(t) \/ Move(t)
          PROVE  draft' = draft
      BY <3>1 DEF OpenTab, CloseTab, Type, SaveDraft, ArchiveProject, DiscardDraft, Send,
                  Refuse, Lose, Answered, Refresh, Move, store
    <3> QED
      BY <1>1, <3>1 DEF WorkNext, Deploy, workVars, store
  <2> QED
    BY <2>1, <2>2, <2>3, <2>4, <2>5
<1>2. WorkInv /\ [WorkNext]_workVars => [\A kind \in Kinds : Seen(kind)]_workVars
  BY <1>1
<1> QED
  BY <1>2, WorkHolds, PTL DEF WorkSpec, NothingUnseenReplaced
=============================================================================
