----------------------------- MODULE Purchases -----------------------------
(***************************************************************************)
(* What the pipeline promises about money (llmdoc/contracts.md section 5,  *)
(* "submission window"): a paid stage is bought once for every time a      *)
(* person confirmed it - with the quote, by retrying the stage, or by      *)
(* authorising a replacement - and never because a process crashed, a      *)
(* reply was lost or a worker ran twice.                                   *)
(***************************************************************************)
EXTENDS Naturals

CONSTANTS Stages,   \* the stages of all jobs
          Paid      \* those among them that buy from a provider

VARIABLES allowance, \* a purchase is confirmed and not yet made
          bought     \* how often the provider charged for a stage

TypeOK ==
    /\ allowance \in [Stages -> BOOLEAN]
    /\ bought \in [Stages -> Nat]

Init ==
    /\ allowance = [s \in Stages |-> s \in Paid]
    /\ bought = [s \in Stages |-> 0]

(* One charge uses up the confirmation.                                    *)
Buy(s) ==
    /\ allowance[s]
    /\ bought' = [bought EXCEPT ![s] = @ + 1]
    /\ allowance' = [allowance EXCEPT ![s] = FALSE]

(* A person confirms (or confirms again before anything was bought).       *)
Confirm(s) ==
    /\ s \in Paid
    /\ allowance' = [allowance EXCEPT ![s] = TRUE]
    /\ UNCHANGED bought

Next == \E s \in Stages : Buy(s) \/ Confirm(s)

Spec == Init /\ [][Next]_<<allowance, bought>>
=============================================================================
