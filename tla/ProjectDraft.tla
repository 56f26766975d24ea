---------------------------- MODULE ProjectDraft ----------------------------
(***************************************************************************)
(* `redmine project new <name> <identifier>': the run writes a form of one *)
(* line per member into project.redmine in the working directory, the user *)
(* completes it in an editor, the run reads and removes it, takes every    *)
(* member from the line with its number, posts, and displays the answer.   *)
(* Runs in one directory share the file; a run may be killed at any        *)
(* moment, and the server's answer to a post may be lost.                  *)
(***************************************************************************)
EXTENDS Naturals, Sequences, SequencesExt

CONSTANTS
    Proc,     \* terminals in one working directory
    Value,    \* what may follow a label
    Blank,    \* nothing
    Garbled,  \* a piece of a line that begins or ends within a label or a value
    Octets,   \* the length of a value
    Names,    \* bound: the names and identifiers runs are given
    Typed,    \* bound: what users put behind a label
    MaxRuns,  \* bound: runs started
    MaxSaves  \* bound: edits of one run

Member == {"name", "identifier", "description", "homepage", "is_public",
           "parent_id", "inherit_members"}

\* The labels of the form, without and with those nobody reads, and their
\* lengths with colon and space.
Labels == <<"name", "identifier", "description", "homepage", "is_public",
            "parent_id", "inherit_members">>
Width ==
    [name |-> 6, identifier |-> 12, description |-> 13, homepage |-> 10,
     is_public |-> 11, parent_id |-> 11, inherit_members |-> 17,
     tracker_ids |-> 13, enabled_module_names |-> 22, none |-> 0]
Label == DOMAIN Width

Line == [label : Label, value : Value]

ASSUME ProjectDraftAssumption ==
    /\ Blank \in Value /\ Garbled \notin Value
    /\ Octets \in [Value -> Nat]
    /\ \A v \in Value : Octets[v] = 0 <=> v = Blank
    /\ Names \subseteq Value \ {Blank} /\ Typed \subseteq Value
    /\ {"true", "false", "modules"} \subseteq Value
    /\ MaxRuns \in Nat /\ MaxSaves \in Nat

VARIABLES
    exists, text, \* project.redmine; text is <<>> while there is no file
    accepted,     \* server: the posts it applied, in order
    started,      \* runs started so far
    succeeded,    \* runs that returned SUCCESS
    announced,    \* runs that printed "project created"
    refused,      \* runs that printed the server's errors
    pc,           \* where each process is
    job,          \* the locals of its run
    touched       \* history: processes whose file another one wrote or removed

vars == <<exists, text, accepted, started, succeeded, announced, refused, pc,
          job, touched>>

disk == <<exists, text, touched>>
results == <<accepted, succeeded, announced, refused>>

(***************************************************************************)
(* draft is the text read.  History in the same record: shown, the text    *)
(* last on the screen; saves, how often the user saved; clean, whether no  *)
(* other process touched the file before it was read; removed, whether the *)
(* run got past rm.                                                        *)
(***************************************************************************)
Idle == [run |-> 0, name |-> Blank, identifier |-> Blank, draft |-> <<>>,
         shown |-> <<>>, saves |-> 0, clean |-> FALSE, opened |-> FALSE,
         removed |-> FALSE]

Init ==
    /\ exists = FALSE /\ text = <<>>
    /\ accepted = <<>>
    /\ started = 0 /\ succeeded = {} /\ announced = {} /\ refused = {}
    /\ pc = [p \in Proc |-> "idle"]
    /\ job = [p \in Proc |-> Idle]
    /\ touched = {}

Goto(p, from, to) == pc[p] = from /\ pc' = [pc EXCEPT ![p] = to]

Others(p) == Proc \ {p}
WriteFile(p, t) ==
    exists' = TRUE /\ text' = t /\ touched' = touched \cup Others(p)
RemoveFile(p) ==
    exists' = FALSE /\ text' = <<>> /\ touched' = touched \cup Others(p)

-----------------------------------------------------------------------------
Start(p, name, identifier) ==
    /\ started < MaxRuns
    /\ Goto(p, "idle", "truncate")
    /\ started' = started + 1
    /\ job' = [job EXCEPT ![p] = [Idle EXCEPT !.run = started', !.name = name,
                                              !.identifier = identifier]]
    /\ UNCHANGED <<disk, results>>

\* std::ofstream file(filename) empties the file, or cannot create it.
TruncateDraft(p) ==
    /\ Goto(p, "truncate", "template")
    /\ exists' = TRUE /\ text' = <<>> /\ touched' = Others(p)
    /\ UNCHANGED <<results, started, job>>

Fails(p) ==
    /\ \E from \in {"truncate", "read"} : Goto(p, from, "idle")
    /\ pc[p] = "read" => ~exists
    /\ UNCHANGED <<disk, results, started, job>>

Template(name, identifier) ==
    LET line(label, value) == [label |-> label, value |-> value] IN
    <<line("name", name), line("identifier", identifier),
      line("description", Blank), line("homepage", Blank),
      line("is_public", "true"), line("parent_id", Blank),
      line("inherit_members", "false"), line("tracker_ids", Blank),
      line("enabled_module_names", "modules")>>

\* The stream writes its buffer when it is destroyed.
WriteTemplate(p) ==
    /\ Goto(p, "template", "open")
    /\ WriteFile(p, Template(job[p].name, job[p].identifier))
    /\ UNCHANGED <<results, started, job>>

\* std::system starts the editor, which shows what is in the file.
OpenEditor(p) ==
    /\ Goto(p, "open", "editing")
    /\ job' = [job EXCEPT ![p].shown = text, ![p].opened = TRUE]
    /\ UNCHANGED <<disk, results, started>>

\* One edit: a value typed, a line put in, taken out, or moved up.
Note(v) == [label |-> "none", value |-> v]
Retyped(t) == {[t EXCEPT ![i].value = v] : i \in DOMAIN t, v \in Typed}
Longer(t) == {InsertAt(t, i, Note(v)) : i \in 1 .. Len(t) + 1, v \in Typed}
Shorter(t) == {RemoveAt(t, i) : i \in DOMAIN t}
Moved(t) == {[t EXCEPT ![i] = t[i + 1], ![i + 1] = t[i]] : i \in 1 .. Len(t) - 1}
Edits(t) == Retyped(t) \cup Longer(t) \cup Shorter(t) \cup Moved(t)

SaveText(p, t) ==
    /\ pc[p] = "editing"
    /\ job[p].saves < MaxSaves
    /\ WriteFile(p, t)
    /\ job' = [job EXCEPT ![p].shown = t, ![p].saves = @ + 1]
    /\ UNCHANGED <<results, started, pc>>

\* Mutant: the form of a failed editor is removed.
QuitEditorRemoves(p) ==
    /\ pc[p] = "editing"
    /\ \/ Goto(p, "editing", "read") /\ UNCHANGED disk
       \/ Goto(p, "editing", "idle") /\ RemoveFile(p)
    /\ UNCHANGED <<results, started, job>>

\* The editor returns, with an error or without.
QuitEditor(p) ==
    /\ pc[p] = "editing"
    /\ Goto(p, "editing", "read") \/ Goto(p, "editing", "idle")
    /\ UNCHANGED <<disk, results, started, job>>

-----------------------------------------------------------------------------
ReadDraft(p) ==
    /\ Goto(p, "read", "remove")
    /\ exists
    /\ job' = [job EXCEPT ![p].draft = text, ![p].clean = p \notin touched]
    /\ UNCHANGED <<disk, results, started>>

\* util::rm, whose result is ignored.
RemoveDraft(p) ==
    /\ Goto(p, "remove", "post")
    /\ job' = [job EXCEPT ![p].removed = TRUE]
    /\ RemoveFile(p) \/ UNCHANGED disk
    /\ UNCHANGED <<results, started>>

\* Mutant: substr takes a line shorter than the label too, and throws.
StripUnchecked(line, label) ==
    IF Width[line.label] = Width[label] THEN line.value
    ELSE IF Width[line.label] + Octets[line.value] < Width[label] THEN "out_of_range"
    ELSE IF Width[line.label] + Octets[line.value] = Width[label] THEN Blank
    ELSE Garbled

\* What is behind the first Width[label] octets of a line.
Strip(line, label) ==
    IF Width[line.label] = Width[label] THEN line.value
    ELSE IF Width[line.label] + Octets[line.value] > Width[label] THEN Garbled
    ELSE Blank

\* The line each member is read from.
LineOf == [f \in Member |-> CHOOSE i \in 1 .. 7 : Labels[i] = f]

\* Mutant: homepage is read before the description.
FieldsSwapped(t) ==
    LET order == <<1, 2, 4, 3, 5, 6, 7>> IN
    [f \in Member |->
       LET i == order[LineOf[f]] IN
       IF i \in DOMAIN t THEN Strip(t[i], f) ELSE Blank]

\* getline after getline: member i is what is behind the label of line i,
\* whatever that line is, and nothing if there is no such line.
Fields(t) ==
    [f \in Member |->
       IF LineOf[f] \in DOMAIN t THEN Strip(t[LineOf[f]], f) ELSE Blank]

Post(p) ==
    [run |-> job[p].run, fields |-> Fields(job[p].draft),
     shown |-> job[p].shown, clean |-> job[p].clean, saves |-> job[p].saves,
     name |-> job[p].name, identifier |-> job[p].identifier]

\* Redmine takes a project that has a name and an identifier of its own.
Valid(fields) ==
    /\ fields["name"] # Blank /\ fields["identifier"] # Blank
    /\ \A i \in DOMAIN accepted :
         accepted[i].fields["identifier"] # fields["identifier"]

Applies(p) ==
    /\ Valid(Post(p).fields)
    /\ accepted' = Append(accepted, Post(p))

\* The locals are gone with the process.
Return(p) ==
    /\ Goto(p, "post", "idle")
    /\ job' = [job EXCEPT ![p] = Idle]

Announce(p) == announced' = announced \cup {job[p].run}

\* 201: the answer is displayed, member by member.
PostCreated(p) ==
    /\ Return(p)
    /\ Applies(p) /\ Announce(p)
    /\ succeeded' = succeeded \cup {job[p].run}
    /\ UNCHANGED <<disk, refused, started>>

\* Mutant: the display ends at the first member the answer has not, quietly.
PostRefusedQuietly(p) ==
    /\ Return(p)
    /\ Announce(p)
    /\ refused' = refused \cup {job[p].run}
    /\ succeeded' = succeeded \cup {job[p].run}
    /\ UNCHANGED <<disk, accepted, started>>

\* The server's errors are printed, then "project created", then the answer
\* turns out to have no project.
PostRefused(p) ==
    /\ Return(p)
    /\ Announce(p)
    /\ refused' = refused \cup {job[p].run}
    /\ UNCHANGED <<disk, accepted, succeeded, started>>

\* Created, but the answer lacks one of the members displayed.
DisplayFails(p) ==
    /\ Return(p)
    /\ Applies(p) /\ Announce(p)
    /\ UNCHANGED <<disk, succeeded, refused, started>>

\* Mutant: a post without an answer is repeated.
PostLostRetries(p) ==
    /\ pc[p] = "post"
    /\ Applies(p) \/ UNCHANGED accepted
    /\ UNCHANGED <<disk, pc, succeeded, announced, refused, started, job>>

\* No answer, or one that is no object or has no list of errors.
PostLost(p) ==
    /\ Return(p)
    /\ Applies(p) \/ UNCHANGED accepted
    /\ UNCHANGED <<disk, succeeded, announced, refused, started>>

\* The user interrupts the run.
Kill(p) ==
    /\ pc[p] # "idle"
    /\ pc' = [pc EXCEPT ![p] = "idle"]
    /\ UNCHANGED <<disk, results, started, job>>

-----------------------------------------------------------------------------
Step(p) ==
    \/ TruncateDraft(p) \/ WriteTemplate(p) \/ OpenEditor(p) \/ QuitEditor(p)
    \/ ReadDraft(p) \/ RemoveDraft(p) \/ Fails(p)
    \/ PostCreated(p) \/ PostRefused(p) \/ DisplayFails(p) \/ PostLost(p)

AllRunsEnded ==
    started = MaxRuns /\ (\A p \in Proc : pc[p] = "idle") /\ UNCHANGED vars

Next ==
    \/ \E p \in Proc :
         \/ Step(p)
         \/ \E name, identifier \in Names : Start(p, name, identifier)
         \/ \E t \in Edits(job[p].shown) : SaveText(p, t)
         \/ Kill(p)
    \/ AllRunsEnded

Spec == Init /\ [][Next]_vars

-----------------------------------------------------------------------------
Form == Seq(Line)
Piece == Value \cup {Garbled}

Job == [run : 0 .. MaxRuns, name : Value, identifier : Value, draft : Form,
        shown : Form, saves : 0 .. MaxSaves, clean : BOOLEAN, opened : BOOLEAN,
        removed : BOOLEAN]

Entry == [run : 0 .. MaxRuns, fields : [Member -> Piece], shown : Form,
          clean : BOOLEAN, saves : 0 .. MaxSaves, name : Value,
          identifier : Value]

TypeOK ==
    /\ exists \in BOOLEAN /\ text \in Form /\ (~exists => text = <<>>)
    /\ accepted \in Seq(Entry)
    /\ started \in 0 .. MaxRuns
    /\ succeeded \subseteq 1 .. MaxRuns /\ announced \subseteq 1 .. MaxRuns
    /\ refused \subseteq 1 .. MaxRuns
    /\ pc \in [Proc -> {"idle", "truncate", "template", "open", "editing",
                        "read", "remove", "post"}]
    /\ job \in [Proc -> Job]
    /\ touched \subseteq Proc

\* SUCCESS is returned only for a project the server has created, although
\* "project created" is printed for a refused one as well; and it is never
\* returned without that line.
SuccessMeansCreated ==
    /\ \A n \in succeeded : \E i \in DOMAIN accepted : accepted[i].run = n
    /\ succeeded \subseteq announced

\* What a run's user reads of a refusal is true: a run that printed the server's
\* errors ("Identifier has already been taken") made no project, although it goes
\* on to print "project created" (project.cpp 283-290).  A post that is lost is
\* not repeated: the answer to a second one would be a refusal of what the first
\* one did.
RefusedMadeNone ==
    \A n \in refused : \A i \in DOMAIN accepted : accepted[i].run # n

\* What is posted of a member is what was on the screen behind its label, if
\* that line was where the form has it, whatever became of the lines around
\* it; and the arguments, if the user saved nothing.
FieldsInPlace ==
    \A n \in DOMAIN accepted : LET post == accepted[n] IN
      post.clean =>
        /\ \A i \in DOMAIN Labels :
             i \in DOMAIN post.shown /\ post.shown[i].label = Labels[i] =>
               post.fields[Labels[i]] = post.shown[i].value
        /\ post.saves = 0 =>
             /\ post.fields["name"] = post.name
             /\ post.fields["identifier"] = post.identifier

\* Until the run removes the file itself, the text last on the user's screen is
\* in it, whatever ended the run, unless another process touched the file.
DraftIsKept ==
    \A p \in Proc : job[p].opened /\ ~job[p].removed /\ p \notin touched =>
      text = job[p].shown /\ exists

\* What a run is about at every moment: while its user writes, what the form on
\* the screen says; once it has read the file, what the form it read says.
Phase == [p \in Proc |->
    CASE pc[p] = "idle" -> "idle"
      [] pc[p] \in {"remove", "post"} -> "settled"
      [] OTHER -> "writing"]

Run == [p \in Proc |-> IF Phase[p] = "idle" THEN 0 ELSE job[p].run]

Content == [p \in Proc |->
    CASE Phase[p] = "idle" -> Fields(<<>>)
      [] Phase[p] = "settled" -> Fields(job[p].draft)
      [] OTHER -> Fields(job[p].shown)]

Filed == [i \in DOMAIN accepted |->
    [run |-> accepted[i].run, content |-> accepted[i].fields]]

\* A run is a submission: in whatever order the steps of several terminals, kills
\* and lost answers come, it makes at most one project, from the form last shown
\* or, if another terminal touched the file, from the form it read; and it
\* returns SUCCESS only if it made one (project.cpp:171-325).
Submit == INSTANCE Submission WITH
    Content <- [Member -> Piece], Nothing <- Fields(<<>>), begun <- started,
    phase <- Phase, run <- Run, content <- Content, disturbed <- touched,
    filed <- Filed, reported <- succeeded

SubmissionSpec == Submit!Spec
=============================================================================
