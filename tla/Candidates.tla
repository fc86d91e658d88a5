----------------------------- MODULE Candidates -----------------------------
(***************************************************************************)
(* View candidates: pictures cut out of a manual that a person may place   *)
(* as view photos.  Registering one may ask the vision model for a         *)
(* suggestion; that call can take tens of seconds, so the handler gives    *)
(* its database connection back meanwhile and looks again afterwards.      *)
(***************************************************************************)
EXTENDS Naturals, FiniteSets

CONSTANTS Pictures,    \* photo assets offered as candidates
          Registrars,  \* concurrent POST requests
          Suggestions, \* views the model may suggest
          MaxJudged,   \* bound on classification calls per picture
          Unjudged     \* the suggestion of a row that was not judged

ASSUME CandidatesAssumption == Unjudged \notin Suggestions /\ MaxJudged \in Nat

VARIABLES candidate, \* picture -> its row
          register,  \* request -> where its handler stands
          judged     \* picture -> classification calls made for it

candidatesVars == <<candidate, register, judged>>

Unregistered == [state |-> "none", view |-> Unjudged]
RowStates == {"none", "active", "dismissed"}
Idle == [step |-> "idle"]

CandidatesInit ==
    /\ candidate = [p \in Pictures |-> Unregistered]
    /\ register = [r \in Registrars |-> Idle]
    /\ judged = [p \in Pictures |-> 0]

Handler(r, next) == register' = [register EXCEPT ![r] = next]

\* Mutant: a dismissed row does not count.
InsertableUnlessActive(p) == candidate[p].state # "active"

\* One row per picture, dismissed or not.
Insertable(p) == candidate[p].state = "none"

\* list_active: a row that was not dismissed answers the request at once.
FindActive(r, p) ==
    /\ register[r].step = "idle"
    /\ candidate[p].state = "active"
    /\ Handler(r, [step |-> "answered", picture |-> p, answer |-> candidate[p]])
    /\ UNCHANGED <<candidate, judged>>

\* No active row: without classify the handler goes straight on, with it the
\* picture is sent to the model and the connection returned to the pool.
StartRegister(r, p, classify) ==
    /\ register[r].step = "idle"
    /\ candidate[p].state # "active"
    /\ classify => judged[p] < MaxJudged
    /\ judged' = [judged EXCEPT ![p] = IF classify THEN @ + 1 ELSE @]
    /\ Handler(r, [step |-> IF classify THEN "judging" ELSE "storing",
                   picture |-> p, view |-> Unjudged])
    /\ UNCHANGED candidate

\* The model answers with a view, or the call fails and the row stays unjudged.
Judged(r, view) ==
    /\ register[r].step = "judging"
    /\ Handler(r, [register[r] EXCEPT !.step = "storing", !.view = view])
    /\ UNCHANGED <<candidate, judged>>

\* create, first statement: any row of the picture, dismissed or not, wins.
LookupRow(r) ==
    /\ register[r].step = "storing"
    /\ LET p == register[r].picture
       IN  Handler(r, IF Insertable(p)
                      THEN [register[r] EXCEPT !.step = "inserting"]
                      ELSE [step |-> "answered", picture |-> p,
                            answer |-> candidate[p]])
    /\ UNCHANGED <<candidate, judged>>

\* create, second statement: the unique index refuses a row that another
\* request inserted since the lookup, and the request fails.
InsertRow(r) ==
    /\ register[r].step = "inserting"
    /\ LET p   == register[r].picture
           new == [state |-> "active", view |-> register[r].view]
       IN  IF Insertable(p)
           THEN /\ candidate' = [candidate EXCEPT ![p] = new]
                /\ Handler(r, [step |-> "answered", picture |-> p, answer |-> new])
           ELSE Handler(r, [step |-> "failed"]) /\ UNCHANGED candidate
    /\ UNCHANGED judged

\* Dismissing is a soft delete; restoring undoes it.
SetDismissed(p, dismissed) ==
    /\ candidate[p].state # "none"
    /\ candidate' = [candidate EXCEPT
                       ![p].state = IF dismissed THEN "dismissed" ELSE "active"]
    /\ UNCHANGED <<register, judged>>

\* The tab is done with its answer and may register again.
NextRequest(r) ==
    /\ register[r].step \in {"answered", "failed"}
    /\ Handler(r, Idle)
    /\ UNCHANGED <<candidate, judged>>

CandidatesNext ==
    \/ \E r \in Registrars :
         \/ \E p \in Pictures : FindActive(r, p)
         \/ \E p \in Pictures, classify \in BOOLEAN : StartRegister(r, p, classify)
         \/ \E view \in Suggestions \cup {Unjudged} : Judged(r, view)
         \/ LookupRow(r)
         \/ InsertRow(r)
         \/ NextRequest(r)
    \/ \E p \in Pictures, dismissed \in BOOLEAN : SetDismissed(p, dismissed)

CandidatesSpec == CandidatesInit /\ [][CandidatesNext]_candidatesVars

-----------------------------------------------------------------------------
CandidatesTypeOK ==
    /\ candidate \in [Pictures -> [state : RowStates,
                                   view : Suggestions \cup {Unjudged}]]
    /\ \A r \in Registrars :
         register[r].step \in {"idle", "judging", "storing", "inserting",
                               "answered", "failed"}
    /\ judged \in [Pictures -> 0..MaxJudged]

\* The suggestion a picture was first registered with is the one it keeps: a
\* slow classification that ends after another registration, or after the
\* candidate was dismissed, does not overwrite the row or bring it back.
LateVerdictIsDropped ==
    [][\A p \in Pictures :
         candidate[p].state # "none" =>
           /\ candidate'[p].view = candidate[p].view
           /\ candidate'[p].state # candidate[p].state => register' = register
      ]_candidatesVars

=============================================================================
