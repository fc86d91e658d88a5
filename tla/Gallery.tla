------------------------------ MODULE Gallery ------------------------------
(***************************************************************************)
(* What a person collects for one item before anything is generated: the   *)
(* item's own row and its view photos.  Both are edited under an           *)
(* optimistic lock (GET gives the revision as ETag, PATCH sends it back as *)
(* If-Match): the handler reads the row, fills in the fields the request   *)
(* leaves out, and only then writes with a compare-and-set.  The           *)
(* arrangement page writes without If-Match and replaces every photo row   *)
(* at once.                                                                *)
(***************************************************************************)
EXTENDS Naturals, FiniteSets

CONSTANTS Assets,      \* photo assets of the item, by content
          Views,       \* front, left, ..., detail
          Editors,     \* browser tabs that edit
          MaxPhotos,   \* photo ids that may ever be issued
          MaxRevision, \* writes per row are bounded by this revision
          Absent

ASSUME GalleryAssumption ==
    /\ MaxPhotos \in Nat /\ MaxRevision \in Nat \ {0}
    /\ Absent \notin Assets \cup Views
    /\ IsFiniteSet(Views)

PhotoIds == 1..MaxPhotos

VARIABLES photos,    \* id -> row or Absent, ids are never reused
          issued,    \* photo ids issued so far
          item,      \* the item's row: name, archived, revision
          editor     \* what each tab has read, and where its PATCH stands

galleryVars == <<photos, issued, item, editor>>

Names == {"old", "new"}
PhotoRow == [view: Views, asset: Assets, rev: 1..MaxRevision]
ItemRow == [name: Names, archived: BOOLEAN, rev: 1..MaxRevision]

Exists(p) == photos[p] # Absent

GalleryInit ==
    /\ photos = [p \in PhotoIds |-> Absent]
    /\ issued = 0
    /\ item = [name |-> "old", archived |-> FALSE, rev |-> 1]
    /\ editor = [e \in Editors |-> Absent]

-----------------------------------------------------------------------------
(* Photo rows.                                                             *)

\* Mutant: only photos that came after p count.
LaterOccupant(v, p) == {q \in PhotoIds : q > p /\ Exists(q) /\ photos[q].view = v}

\* Photos other than p that hold the view v.
ViewOccupant(v, p) ==
    {q \in PhotoIds \ {p} : Exists(q) /\ photos[q].view = v}

\* POST a photo: the view must be free, inside the write transaction.
CreatePhoto(a, v) ==
    /\ issued < MaxPhotos
    /\ ViewOccupant(v, 0) = {}
    /\ issued' = issued + 1
    /\ photos' = [photos EXCEPT
                    ![issued + 1] = [view |-> v, asset |-> a, rev |-> 1]]
    /\ UNCHANGED <<item, editor>>

\* An arrangement fills some views, never with one asset twice.
Arrangements ==
    {s \in [Views -> Assets \cup {Absent}] :
        \A v, w \in Views : v # w /\ s[v] = s[w] => s[v] = Absent}

Kept(a) == {p \in PhotoIds : Exists(p) /\ photos[p].asset = a}

\* The revision of a photo that an arrangement keeps.
Recount(p) == photos[p].rev + 1

\* PUT an arrangement: every row is deleted and the slots are inserted
\* again; a slot whose asset was there before keeps that photo's id (one of
\* them, if several showed it) and counts its revision on, the others take
\* new ids.
Arrange(s) ==
    LET used   == {v \in Views : s[v] # Absent}
        fresh  == {v \in used : Kept(s[v]) = {}}
        number == CHOOSE f \in [fresh -> issued + 1..issued + Cardinality(fresh)] :
                     \A v, w \in fresh : v # w => f[v] # f[w]
        idOf   == [v \in used |->
                     IF v \in fresh THEN number[v]
                     ELSE CHOOSE p \in Kept(s[v]) : TRUE]
        revOf  == [v \in used |->
                     IF v \in fresh THEN 1 ELSE Recount(idOf[v])]
    IN  /\ issued + Cardinality(fresh) <= MaxPhotos
        /\ \A v \in used : revOf[v] <= MaxRevision
        /\ issued' = issued + Cardinality(fresh)
        /\ photos' = [p \in PhotoIds |->
                        IF \E v \in used : idOf[v] = p
                        THEN LET v == CHOOSE v \in used : idOf[v] = p
                             IN  [view |-> v, asset |-> s[v], rev |-> revOf[v]]
                        ELSE Absent]
        /\ UNCHANGED <<item, editor>>

-----------------------------------------------------------------------------
(* Optimistic editing.  An editor is Absent, or what a tab knows: the target *)
(* (a photo id, or 0 for the item), the row it was shown, what it asks to  *)
(* change, and the row its PATCH handler has read.                         *)

Row(t) == IF t = 0 THEN item ELSE photos[t]
Changes(t) == IF t = 0 THEN {"name", "archived"} ELSE {"view", "asset"}
Values(field) ==
    CASE field = "name" -> Names
      [] field = "archived" -> BOOLEAN
      [] field = "view" -> Views
      [] OTHER -> Assets

\* GET with ETag: the tab now shows this row.
Show(e, t) ==
    /\ editor[e] = Absent
    /\ t \in {0} \cup {p \in PhotoIds : Exists(p)}
    /\ editor' = [editor EXCEPT ![e] =
                    [step |-> "shown", target |-> t, shown |-> Row(t)]]
    /\ UNCHANGED <<photos, issued, item>>

\* PATCH of one field, first half: the handler reads the row as it is now.
PatchRead(e, field, value) ==
    /\ editor[e] # Absent /\ editor[e].step = "shown"
    /\ field \in Changes(editor[e].target)
    /\ LET t == editor[e].target
       IN  IF t # 0 /\ ~Exists(t)
           THEN editor' = [editor EXCEPT ![e] = Absent]        \* 404
           ELSE editor' = [editor EXCEPT ![e] =
                   [step |-> "patching", target |-> t, shown |-> @.shown,
                    field |-> field, value |-> value, read |-> Row(t)]]
    /\ UNCHANGED <<photos, issued, item>>

\* The row the handler writes: what it read, with the one field replaced.
Merged(ed) == [ed.read EXCEPT ![ed.field] = ed.value, !.rev = ed.shown.rev + 1]

\* Mutant: compares with what the handler read, not with If-Match.
FreshSinceRead(ed) ==
    (ed.target = 0 \/ Exists(ed.target)) /\ Row(ed.target).rev = ed.read.rev

\* The compare of the compare-and-set.
Fresh(ed) ==
    (ed.target = 0 \/ Exists(ed.target)) /\ Row(ed.target).rev = ed.shown.rev

\* PATCH, second half: the write transaction.  A taken view or a stale
\* revision is refused (422, 412); either way the tab has to read again.
PatchWrite(e) ==
    /\ editor[e] # Absent /\ editor[e].step = "patching"
    /\ LET ed    == editor[e]
           t     == ed.target
           taken == t # 0 /\ ViewOccupant(Merged(ed).view, t) # {}
       IN  IF taken \/ ~Fresh(ed)
           THEN UNCHANGED <<photos, item>>
           ELSE /\ ed.shown.rev < MaxRevision
                /\ IF t = 0
                   THEN item' = Merged(ed) /\ UNCHANGED photos
                   ELSE photos' = [photos EXCEPT ![t] = Merged(ed)]
                        /\ UNCHANGED item
    /\ editor' = [editor EXCEPT ![e] = Absent]
    /\ UNCHANGED <<issued>>

PhotoNext ==
    \/ \E a \in Assets, v \in Views : CreatePhoto(a, v)
    \/ \E s \in Arrangements : Arrange(s)

EditNext ==
    \E e \in Editors :
        \/ \E t \in PhotoIds \cup {0} : Show(e, t)
        \/ editor[e] # Absent /\ \E field \in Changes(editor[e].target) :
               \E value \in Values(field) : PatchRead(e, field, value)
        \/ PatchWrite(e)

GalleryNext == PhotoNext \/ EditNext

GallerySpec == GalleryInit /\ [][GalleryNext]_galleryVars

-----------------------------------------------------------------------------
GalleryTypeOK ==
    /\ photos \in [PhotoIds -> PhotoRow \cup {Absent}]
    /\ issued \in 0..MaxPhotos
    /\ item \in ItemRow

\* Whatever mix of creations, edits by stale tabs and whole-page
\* arrangements, a view never holds two photos (photos_item_view).
OnePhotoPerView ==
    \A p, q \in PhotoIds :
        Exists(p) /\ Exists(q) /\ photos[p].view = photos[q].view => p = q

\* A PATCH that goes through changes exactly the field it names, relative to
\* the row its tab was shown: nobody's edit in between is overwritten by the
\* fields the handler filled in.  What it relies on: an ETag names one state of
\* one photo for good, for revisions only grow and ids do not come back.
NoLostEdit ==
    [][/\ \A e \in Editors :
            editor[e] # Absent /\ editor[e].step = "patching" /\ editor'[e] = Absent
            /\ <<photos, item>>' # <<photos, item>>
            => LET ed    == editor[e]
                   after == IF ed.target = 0 THEN item' ELSE photos'[ed.target]
               IN  after = [ed.shown EXCEPT ![ed.field] = ed.value,
                                            !.rev = @ + 1]
       /\ \A p \in PhotoIds :
            /\ Exists(p) /\ Exists(p)' /\ photos'[p] # photos[p]
                 => photos'[p].rev > photos[p].rev
            /\ ~Exists(p) /\ p <= issued => ~Exists(p)']_galleryVars

=============================================================================
