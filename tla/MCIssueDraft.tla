---------------------------- MODULE MCIssueDraft ----------------------------
(***************************************************************************)
(* One or two terminals in one directory.  Texts: a complete one, the same *)
(* without its last newline, one without separator (a note, or a broken    *)
(* new issue), one without subject, and none at all.                       *)
(***************************************************************************)
EXTENDS IssueDraft, TLC

CONSTANTS t1, t2
MCProc == {t1, t2}
Terminals == Permutations(MCProc)

MCNewField == {"tracker", "category", "assigned_to"}
MCUpdateField == {"assigned_to"}
PairNewField == {"tracker"}
MCOptional == {"assigned_to"}
MCOption == {1}
MCWord == {"title", "line"}

Complete == [first |-> "title", separator |-> TRUE, body |-> <<"line">>,
             newline |-> TRUE]
Unterminated == [Complete EXCEPT !.newline = FALSE]
Note == [Complete EXCEPT !.separator = FALSE, !.body = <<>>]
NoSubject == [Complete EXCEPT !.first = Blank]
MCTyped == {Complete, Unterminated, Note, NoSubject, Empty}
PairTyped == {Complete, Unterminated, Note}
PairSubject == {"title"}
MCSubject == {Blank, "title"}
=============================================================================
