----------------------------- MODULE MCService -----------------------------
(* What happens around the jobs of one item: its photos and view           *)
(* candidates, quotes and job creation, drafts and releases, and the       *)
(* segmentation purchase of a pipeline.  These components share no         *)
(* variable, so a behaviour follows one of them and the others rest.       *)
EXTENDS Gallery, Candidates, Quotes, Drafts, Segmentation

CONSTANTS j1, j2, v1

MCMaxDraftRev == [p \in Pipelines |-> IF p = j1 THEN 3 ELSE 4]

VARIABLE part  \* the component this behaviour follows

ServiceInit ==
    /\ part \in {"gallery", "candidates", "quotes", "drafts", "segmentation"}
    /\ GalleryInit /\ CandidatesInit /\ QuotesInit /\ DraftsInit /\ SegInit
    /\ config.saved = v1  \* which provider comes first makes no difference

ServiceNext ==
    /\ UNCHANGED part
    /\ \/ /\ part = "gallery" /\ GalleryNext
          /\ UNCHANGED <<candidatesVars, quotesVars, draftsVars, segVars>>
       \/ /\ part = "candidates" /\ CandidatesNext
          /\ UNCHANGED <<galleryVars, quotesVars, draftsVars, segVars>>
       \/ /\ part = "quotes" /\ QuotesNext
          /\ UNCHANGED <<galleryVars, candidatesVars, draftsVars, segVars>>
       \/ /\ part = "drafts" /\ DraftsNext
          /\ UNCHANGED <<galleryVars, candidatesVars, quotesVars, segVars>>
       \/ /\ part = "segmentation" /\ SegNext
          /\ UNCHANGED <<galleryVars, candidatesVars, quotesVars, draftsVars>>

ServiceSpec ==
    ServiceInit /\ [][ServiceNext]_<<part, galleryVars, candidatesVars,
                                     quotesVars, draftsVars, segVars>>

\* Every component's state keeps its types.
ServiceTypeOK ==
    /\ GalleryTypeOK
    /\ CandidatesTypeOK
    /\ QuotesTypeOK
    /\ DraftsTypeOK
    /\ SegTypeOK
=============================================================================
