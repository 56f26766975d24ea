----------------------------- MODULE IssueText -----------------------------
(***************************************************************************)
(* The text in issue.redmine and what issue_new and issue_update make of   *)
(* it.  A text is its first line, trimmed; whether its second line is the  *)
(* separator; the lines that follow, without blank ones at either end; and *)
(* whether its last line ends in a newline.                                *)
(***************************************************************************)
EXTENDS Sequences

CONSTANTS Word,      \* what a line may say
          Separator, \* the line of dashes
          Blank      \* a line of nothing but white space

ASSUME IssueTextAssumption ==
    Separator \notin Word /\ Blank \notin Word /\ Separator # Blank

Line == Word \cup {Blank, Separator}

Text == [first : Word \cup {Blank}, separator : BOOLEAN, body : Seq(Line),
         newline : BOOLEAN]

Empty == [first |-> Blank, separator |-> FALSE, body |-> <<>>, newline |-> FALSE]

\* What issue_new writes before it starts the editor.
Template(subject) ==
    [first |-> subject, separator |-> TRUE, body |-> <<>>, newline |-> TRUE]

\* The loop `while (file) { getline(file, line); description += line }' runs
\* once more after a last line without newline: the stream has only reached
\* its end, and line keeps what the previous getline left in it.
LastRead(text) ==
    IF text.body = <<>> THEN Separator ELSE text.body[Len(text.body)]

\* Mutant: every last line is read twice.
DescriptionReadsTwice(text) == Append(text.body, LastRead(text))
Description(text) ==
    IF text.newline THEN text.body ELSE Append(text.body, LastRead(text))

\* issue_new goes on to its questions only with all three parts.
IsComplete(text) ==
    /\ text.first # Blank
    /\ text.separator
    /\ Description(text) # <<>>

\* What a run posts of the text it read: a note is the whole text, and an
\* empty one is not sent.
NewIssue(text) == [subject |-> text.first, description |-> Description(text)]
=============================================================================
