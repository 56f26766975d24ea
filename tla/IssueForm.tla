------------------------------ MODULE IssueForm ------------------------------
(***************************************************************************)
(* What the questions of one run amount to, and what IssueDraft assumes of *)
(* them in one step: the run settles on the ids it offers for every        *)
(* question, then files one form in which every answer is among the ids    *)
(* offered and no answer is missing that was needed.                       *)
(***************************************************************************)
EXTENDS Naturals

CONSTANTS Question, Optional \* Optional[kind]: questions that need no answer

VARIABLES kind, phase, offers, form

NoForm == [q \in Question |-> {}]

Init ==
    /\ kind \in DOMAIN Optional
    /\ phase = "reading" /\ offers = NoForm /\ form = NoForm

Offer ==
    /\ phase = "reading" /\ phase' = "offered"
    /\ offers' \in [Question -> SUBSET (Nat \ {0})]
    /\ UNCHANGED <<kind, form>>

File ==
    /\ phase = "offered" /\ phase' = "closed"
    /\ form' \in [Question -> SUBSET (Nat \ {0})]
    /\ \A q \in Question :
         /\ form'[q] \subseteq offers[q]
         /\ form'[q] = {} => offers[q] = {} \/ q \in Optional[kind]
    /\ UNCHANGED <<kind, offers>>

GiveUp ==
    /\ phase # "closed" /\ phase' = "closed"
    /\ offers' = NoForm
    /\ UNCHANGED <<kind, form>>

FormSpec == Init /\ [][Offer \/ File \/ GiveUp]_<<kind, phase, offers, form>>
=============================================================================
