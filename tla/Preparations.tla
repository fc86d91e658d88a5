---------------------------- MODULE Preparations ----------------------------
(***************************************************************************)
(* Preparing a manual: the browser renders the pages of a PDF and puts     *)
(* them one by one; completing the preparation seals it for quotes.  Tabs  *)
(* may work on one preparation at the same time; the revision is their     *)
(* optimistic lock, but a page that is new goes in without one.            *)
(***************************************************************************)
EXTENDS Naturals, FiniteSets

CONSTANTS Tabs,        \* browser tabs preparing the document
          MaxPreps,    \* preparations that may be created
          MaxPage,     \* highest page number a tab may put
          Renderings,  \* contents a page may have
          MaxPrepRev,  \* bound on a preparation's revision
          NoPage

ASSUME PreparationsAssumption ==
    /\ MaxPreps \in Nat /\ MaxPage \in Nat \ {0} /\ MaxPrepRev \in Nat \ {0}
    /\ NoPage \notin Renderings

PrepIds == 1..MaxPreps
PageNumbers == 1..MaxPage

VARIABLES preps,   \* the preparations created so far, in order
          tab,     \* what each tab has been shown
          intact   \* renderings whose file is still usable

prepsVars == <<preps, tab, intact>>

NoTab == [step |-> "idle"]
Pages == [PageNumbers -> Renderings \cup {NoPage}]
Created == DOMAIN preps

\* Mutant: revisions start at zero.
Unnumbered == [state |-> "preparing", count |-> 0, rev |-> 0,
               pages |-> [n \in PageNumbers |-> NoPage],
               sealedAs |-> [n \in PageNumbers |-> NoPage]]

\* A new row.
NewPreparation == [state |-> "preparing", count |-> 0, rev |-> 1,
                   pages |-> [n \in PageNumbers |-> NoPage],
                   sealedAs |-> [n \in PageNumbers |-> NoPage]]

PrepsInit ==
    /\ preps = <<>>
    /\ tab = [t \in Tabs |-> NoTab]
    /\ intact = Renderings

Present(p) == {n \in PageNumbers : preps[p].pages[n] # NoPage}
Unsealed == {p \in Created : preps[p].state = "preparing"}
Tab(t, next) == tab' = [tab EXCEPT ![t] = next]

\* POST answers which preparation it is, without its pages.
Named(p) == [step |-> "named", prep |-> p]

\* GET has read the row: the revision of the ETag, no page yet.
RowRead(p) == [step |-> "reading", prep |-> p, rev |-> preps[p].rev]

\* GET has answered: the pages are those there now, under the revision read.
Shown(t) == [step |-> "shown", prep |-> tab[t].prep, rev |-> tab[t].rev,
             pages |-> preps[tab[t].prep].pages]

-----------------------------------------------------------------------------
(* POST a preparation: an unfinished one is found again, the latest first. *)

FindOrCreate(t, createNew) ==
    /\ tab[t].step = "idle"
    /\ \/ /\ ~createNew
          /\ \E p \in Unsealed : /\ \A q \in Unsealed : q <= p
                                /\ Tab(t, Named(p))
       \/ /\ createNew \/ Unsealed = {}
          /\ Tab(t, [step |-> "create"])
    /\ UNCHANGED <<preps, intact>>

\* The row is inserted by a later statement; two tabs may both get here.
InsertPreparation(t) ==
    /\ tab[t].step = "create"
    /\ Cardinality(Created) < MaxPreps
    /\ preps' = [p \in Created \cup {Cardinality(Created) + 1} |->
                   IF p \in Created THEN preps[p] ELSE NewPreparation]
    /\ Tab(t, Named(Cardinality(Created) + 1))
    /\ UNCHANGED intact

\* GET a preparation, with its ETag: the row and the pages are two
\* statements outside a transaction, and pages may be put in between.
Refresh(t, p) ==
    /\ tab[t].step \in {"idle", "named", "shown"} /\ p \in Created
    /\ tab[t].step = "named" => p = tab[t].prep
    /\ Tab(t, RowRead(p))
    /\ UNCHANGED <<preps, intact>>

ShowPages(t) ==
    /\ tab[t].step = "reading"
    /\ Tab(t, Shown(t))
    /\ UNCHANGED <<preps, intact>>

Leave(t) ==
    /\ tab[t].step \in {"named", "reading", "shown"}
    /\ Tab(t, NoTab)
    /\ UNCHANGED <<preps, intact>>

-----------------------------------------------------------------------------
(* Writing pages.                                                          *)

\* Mutant: a page does not count the revision on.
WithPageOnly(prep, n, c) == [prep EXCEPT !.pages[n] = c]

\* The preparation after page n became c.
WithPage(prep, n, c) ==
    [prep EXCEPT !.pages[n] = c, !.rev = prep.rev + 1]

\* write_page: sealed preparations refuse, equal content changes nothing, a
\* page that is there changes only under the current revision, and a new one
\* is inserted under any.
PutPage(t, n, c, ifMatch) ==
    /\ tab[t].step = "shown" /\ c \in intact
    /\ LET p    == tab[t].prep
           prep == preps[p]
           may  == /\ prep.state = "preparing"
                   /\ \/ prep.pages[n] = NoPage
                      \/ ifMatch /\ tab[t].rev = prep.rev
       IN  IF ~may \/ prep.pages[n] = c
           THEN UNCHANGED preps
           ELSE /\ prep.rev < MaxPrepRev
                /\ preps' = [preps EXCEPT ![p] = WithPage(prep, n, c)]
    /\ UNCHANGED <<tab, intact>>

\* complete: under the revision the tab was shown, with the pages 1..count
\* there and their files usable.
Complete(t, count) ==
    /\ tab[t].step = "shown"
    /\ LET p    == tab[t].prep
           prep == preps[p]
       IN  /\ prep.state = "preparing"
           /\ prep.rev = tab[t].rev
           /\ 1..count \subseteq Present(p)
           /\ \A n \in 1..count : prep.pages[n] \in intact
           /\ preps' = [preps EXCEPT ![p] =
                [state |-> "ready", count |-> count, rev |-> prep.rev + 1,
                 pages |-> prep.pages, sealedAs |-> tab[t].pages]]
    /\ Tab(t, NoTab)
    /\ UNCHANGED intact

\* A file is lost and marked missing, or comes back with an upload.
LoseRendering(c) ==
    /\ intact' = IF c \in intact THEN intact \ {c} ELSE intact \cup {c}
    /\ UNCHANGED <<preps, tab>>

PrepsNext ==
    \/ \E t \in Tabs :
         \/ \E createNew \in BOOLEAN : FindOrCreate(t, createNew)
         \/ InsertPreparation(t) \/ ShowPages(t) \/ Leave(t)
         \/ \E p \in PrepIds : Refresh(t, p)
         \/ \E n \in PageNumbers, c \in Renderings, ifMatch \in BOOLEAN :
                PutPage(t, n, c, ifMatch)
         \/ \E count \in PageNumbers : Complete(t, count)
    \/ \E c \in Renderings : LoseRendering(c)

PrepsSpec == PrepsInit /\ [][PrepsNext]_prepsVars

-----------------------------------------------------------------------------
\* assess: what discovery and the quote take a preparation for.  A sealed
\* one with a page beyond its count is never usable.
Compatible(p) ==
    /\ \A n \in Present(p) :
         /\ preps[p].pages[n] \in intact
         /\ preps[p].state = "ready" => n <= preps[p].count
    /\ preps[p].state = "ready" => 1..preps[p].count \subseteq Present(p)

PrepsTypeOK ==
    /\ Created \subseteq PrepIds
    /\ \A p \in Created :
         preps[p] \in [state : {"preparing", "ready"}, count : 0..MaxPage,
                       rev : 1..MaxPrepRev + 1, pages : Pages, sealedAs : Pages]
    /\ \A t \in Tabs : tab[t].step \in {"idle", "create", "named", "reading", "shown"}
    /\ intact \subseteq Renderings

\* A sealed preparation that a quote accepts is, page for page, what the tab
\* that sealed it had been shown, and nothing but the pages it counted: no
\* page that another tab put in between is sealed unseen, none changes later.
UsableIsWhatWasSealed ==
    \A p \in Created : preps[p].state = "ready" /\ Compatible(p) =>
        /\ preps[p].pages = preps[p].sealedAs
        /\ Present(p) = 1..preps[p].count
        /\ \A n \in Present(p) : preps[p].pages[n] \in intact

=============================================================================
