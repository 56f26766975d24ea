----------------------------- MODULE IssueDraft -----------------------------
(***************************************************************************)
(* `redmine issue new' and `redmine issue update': the lists are read from *)
(* the server, the user writes a text in an editor on issue.redmine in the *)
(* working directory, the run reads and removes the file, asks its         *)
(* questions and posts.  Runs in the same directory share the file, and    *)
(* nothing orders their steps.  A run may be killed at any moment, and the *)
(* server's answer to a post may be lost.                                  *)
(***************************************************************************)
EXTENDS IssueText, Naturals

CONSTANTS
    Proc,        \* terminals in one working directory, each one run at a time
    NewField,    \* lists issue_new asks about
    UpdateField, \* lists issue_update asks about
    Optional,    \* the lists issue_new takes an empty answer for
    Option,      \* ids of statuses, trackers, members...
    Typed,       \* bound: the texts users save
    Subject,     \* bound: subjects given with -m, Blank without
    MaxRuns,     \* bound: runs started
    MaxChanges   \* bound: options withdrawn on the server

Field == NewField \cup UpdateField

ASSUME IssueDraftAssumption ==
    /\ Optional \subseteq Field
    /\ Option \subseteq Nat \ {0}
    /\ Typed \subseteq Text
    /\ Subject \subseteq Word \cup {Blank}
    /\ MaxRuns \in Nat /\ MaxChanges \in Nat

VARIABLES
    exists, text, \* issue.redmine; text is Empty while there is no file
    offered,      \* server: the ids of every list
    changes,      \* server: options withdrawn so far
    accepted,     \* server: the posts it applied, in order
    started,      \* runs started so far
    succeeded,    \* runs that returned SUCCESS
    pc,           \* where each process is
    job,          \* the locals of its run
    touched       \* history: processes whose file another one wrote or removed

vars == <<exists, text, offered, changes, accepted, started, succeeded, pc,
          job, touched>>

disk == <<exists, text, touched>>
site == <<offered, changes, accepted>>

(***************************************************************************)
(* The locals: draft is the text read from the file.  History in the same  *)
(* record: shown, the text last on the user's screen; saved, whether the   *)
(* user saved it in this run; clean, whether no other process touched the  *)
(* file before it was read; and removed, whether the run got past rm.      *)
(***************************************************************************)
Idle == [kind |-> "none", run |-> 0, subject |-> Blank,
         lists |-> [f \in Field |-> {}], answers |-> [f \in Field |-> 0],
         draft |-> Empty, shown |-> Empty, saved |-> FALSE, clean |-> FALSE,
         opened |-> FALSE, removed |-> FALSE]

Init ==
    /\ exists = FALSE /\ text = Empty
    /\ offered \in [Field -> SUBSET Option]
    /\ changes = 0
    /\ accepted = <<>>
    /\ started = 0 /\ succeeded = {}
    /\ pc = [p \in Proc |-> "idle"]
    /\ job = [p \in Proc |-> Idle]
    /\ touched = {}

Goto(p, from, to) == pc[p] = from /\ pc' = [pc EXCEPT ![p] = to]

Others(p) == Proc \ {p}
WriteFile(p, t) ==
    exists' = TRUE /\ text' = t /\ touched' = touched \cup Others(p)
RemoveFile(p) ==
    exists' = FALSE /\ text' = Empty /\ touched' = touched \cup Others(p)

-----------------------------------------------------------------------------
\* The requests before the editor: project or issue, and the lists.  One that
\* fails ends the run before it touched the file.
Start(p, kind, subject) ==
    /\ started < MaxRuns
    /\ Goto(p, "idle", "lists")
    /\ started' = started + 1
    /\ job' = [job EXCEPT ![p] = [Idle EXCEPT !.kind = kind, !.run = started',
                                              !.subject = subject]]
    /\ UNCHANGED <<disk, site, succeeded>>

FieldsOf(kind) == IF kind = "new" THEN NewField ELSE UpdateField

\* Mutant: an update truncates the file like a new issue.
QueryListsTruncates(p, categories) ==
    /\ Goto(p, "lists", "truncate")
    /\ job' = [job EXCEPT ![p].lists = [f \in Field |->
         IF f \in FieldsOf(job[p].kind) /\ (f = "category" => categories)
         THEN offered[f] ELSE {}]]
    /\ UNCHANGED <<disk, site, started, succeeded>>

\* issue_new reads the categories only for users who may manage them.
QueryLists(p, categories) ==
    /\ Goto(p, "lists", IF job[p].kind = "new" THEN "truncate" ELSE "open")
    /\ job' = [job EXCEPT ![p].lists = [f \in Field |->
         IF f \in FieldsOf(job[p].kind) /\ (f = "category" => categories)
         THEN offered[f] ELSE {}]]
    /\ UNCHANGED <<disk, site, started, succeeded>>

QueryFails(p) ==
    /\ Goto(p, "lists", "idle")
    /\ UNCHANGED <<disk, site, started, succeeded, job>>

\* std::ofstream file(filename) empties the file, whatever is in it, or cannot
\* create it.
TruncateDraft(p) ==
    /\ Goto(p, "truncate", "template")
    /\ exists' = TRUE /\ text' = Empty
    /\ touched' = Others(p)
    /\ UNCHANGED <<site, started, succeeded, job>>

TruncateFails(p) ==
    /\ Goto(p, "truncate", "idle")
    /\ UNCHANGED <<disk, site, started, succeeded, job>>

\* The stream writes its buffer when it is destroyed.
WriteTemplate(p) ==
    /\ Goto(p, "template", "open")
    /\ WriteFile(p, Template(job[p].subject))
    /\ UNCHANGED <<site, started, succeeded, job>>

\* std::system starts the editor, which shows what is in the file.
OpenEditor(p) ==
    /\ Goto(p, "open", "editing")
    /\ job' = [job EXCEPT ![p].shown = text, ![p].opened = TRUE]
    /\ touched' = IF job[p].kind = "update" THEN touched \ {p} ELSE touched
    /\ UNCHANGED <<exists, text, site, started, succeeded>>

SaveText(p, t) ==
    /\ pc[p] = "editing"
    /\ WriteFile(p, t)
    /\ job' = [job EXCEPT ![p].shown = t, ![p].saved = TRUE]
    /\ UNCHANGED <<site, started, succeeded, pc>>

\* Mutant: the file of an editor that failed is removed.
QuitEditorRemoves(p) ==
    /\ pc[p] = "editing"
    /\ \/ Goto(p, "editing", "read") /\ UNCHANGED disk
       \/ Goto(p, "editing", "idle") /\ RemoveFile(p)
    /\ UNCHANGED <<site, started, succeeded, job>>

\* The editor returns, with an error or without.
QuitEditor(p) ==
    /\ pc[p] = "editing"
    /\ \/ Goto(p, "editing", "read")
       \/ Goto(p, "editing", "idle")
    /\ UNCHANGED <<disk, site, started, succeeded, job>>

-----------------------------------------------------------------------------
\* issue_new needs a complete text, issue_update only a file.
Readable(kind) == exists /\ (kind = "new" => IsComplete(text))

ReadDraft(p) ==
    /\ Goto(p, "read", "remove")
    /\ Readable(job[p].kind)
    /\ job' = [job EXCEPT ![p].draft = text, ![p].clean = p \notin touched]
    /\ UNCHANGED <<disk, site, started, succeeded>>

\* Mutant: the file is removed whether the text is complete or not.
AbortDraftRemoves(p) ==
    /\ Goto(p, "read", "idle")
    /\ ~Readable(job[p].kind)
    /\ RemoveFile(p)
    /\ UNCHANGED <<site, started, succeeded, job>>

\* Mutant: an incomplete text opens the editor again.
AbortDraftReopens(p) ==
    /\ Goto(p, "read", "open")
    /\ ~Readable(job[p].kind)
    /\ UNCHANGED <<disk, site, started, succeeded, job>>

\* "Aborted due to empty ..." leaves the file as it is.
AbortDraft(p) ==
    /\ Goto(p, "read", "idle")
    /\ ~Readable(job[p].kind)
    /\ UNCHANGED <<disk, site, started, succeeded, job>>

\* util::rm; its result is ignored, so the file may stay.
RemoveDraft(p) ==
    /\ Goto(p, "remove", "ask")
    /\ job' = [job EXCEPT ![p].removed = TRUE]
    /\ RemoveFile(p) \/ UNCHANGED disk
    /\ UNCHANGED <<site, started, succeeded>>

\* The allow_none arguments of the questions; a watcher question without
\* answer ends the list of watchers.
AllowNone(kind, f) == kind = "update" \/ f \in Optional

\* get_answer_id and get_user_id repeat the question until the answer is one
\* of the list, or empty where that is allowed; without a list the id is 0.
Choices(p, f) ==
    LET list == job[p].lists[f] IN
    IF list = {} THEN {0}
    ELSE list \cup {id \in {0} : AllowNone(job[p].kind, f)}

AnswerQuestions(p, answers) ==
    /\ pc[p] = "ask"
    /\ \A f \in Field : answers[f] \in Choices(p, f)
    /\ Goto(p, "ask", "post")
    /\ job' = [job EXCEPT ![p].answers = answers]
    /\ UNCHANGED <<disk, site, started, succeeded>>

\* At the end of its input getline leaves an empty answer, and a question that
\* needs one is asked again, for ever.
EndOfInput(p) ==
    /\ pc[p] = "ask"
    /\ \E f \in Field : 0 \notin Choices(p, f)
    /\ Goto(p, "ask", "spinning")
    /\ UNCHANGED <<disk, site, started, succeeded, job>>

-----------------------------------------------------------------------------
Post(p) ==
    [run |-> job[p].run, kind |-> job[p].kind, draft |-> job[p].draft,
     answers |-> job[p].answers, shown |-> job[p].shown, clean |-> job[p].clean]

\* The server applies a post whose ids it still offers.
Valid(answers) == \A f \in Field : answers[f] \in offered[f] \cup {0}

Applies(p) ==
    /\ Valid(job[p].answers)
    /\ accepted' = Append(accepted, Post(p))
    /\ UNCHANGED <<offered, changes>>

\* The expected status and answer arrive: the run reports the issue.
PostSucceeds(p) ==
    /\ Goto(p, "post", "idle")
    /\ Applies(p)
    /\ succeeded' = succeeded \cup {job[p].run}
    /\ UNCHANGED <<disk, started, job>>

\* Mutant: a post without an answer is repeated.
PostFailsRetries(p) ==
    /\ pc[p] = "post"
    /\ \/ Applies(p) /\ UNCHANGED pc
       \/ UNCHANGED site /\ pc' = [pc EXCEPT ![p] = "idle"]
    /\ UNCHANGED <<disk, started, succeeded, job>>

\* The post is refused or lost, or applied with the answer lost or not the
\* expected one: FAILURE either way.
PostFails(p) ==
    /\ Goto(p, "post", "idle")
    /\ Applies(p) \/ UNCHANGED site
    /\ UNCHANGED <<disk, started, succeeded, job>>

\* The user interrupts the run.
Kill(p) ==
    /\ pc[p] # "idle"
    /\ pc' = [pc EXCEPT ![p] = "idle"]
    /\ UNCHANGED <<disk, site, started, succeeded, job>>

\* Somebody withdraws an option: closes a version, removes a member.
Withdraw(f, option) ==
    /\ changes < MaxChanges
    /\ option \in offered[f]
    /\ offered' = [offered EXCEPT ![f] = @ \ {option}]
    /\ changes' = changes + 1
    /\ UNCHANGED <<disk, accepted, started, succeeded, pc, job>>

-----------------------------------------------------------------------------
\* What a run does by itself, its editor and prompts answered.
Step(p) ==
    \/ \E categories \in BOOLEAN : QueryLists(p, categories)
    \/ QueryFails(p)
    \/ TruncateDraft(p) \/ TruncateFails(p) \/ WriteTemplate(p)
    \/ OpenEditor(p) \/ QuitEditor(p)
    \/ ReadDraft(p) \/ AbortDraft(p) \/ RemoveDraft(p)
    \/ \E answers \in [Field -> Option \cup {0}] : AnswerQuestions(p, answers)
    \/ PostSucceeds(p) \/ PostFails(p)

\* The bound on runs is reached and every run has ended.
AllRunsEnded ==
    started = MaxRuns /\ (\A p \in Proc : pc[p] = "idle") /\ UNCHANGED vars

Next ==
    \/ \E p \in Proc :
         \/ Step(p)
         \/ \E subject \in Subject : Start(p, "new", subject)
         \/ Start(p, "update", Blank)
         \/ \E t \in Typed : SaveText(p, t)
         \/ EndOfInput(p)
         \/ Kill(p)
    \/ \E f \in Field, option \in Option : Withdraw(f, option)
    \/ AllRunsEnded

Spec == Init /\ [][Next]_vars

\* Processes are scheduled, users leave their editor and answer questions, and
\* every request is answered or breaks off.
FairSpec == Spec /\ \A p \in Proc : WF_vars(Step(p))

-----------------------------------------------------------------------------
Job == [kind : {"none", "new", "update"}, run : 0..MaxRuns,
        subject : Word \cup {Blank}, lists : [Field -> SUBSET Option],
        answers : [Field -> Option \cup {0}], draft : Text, shown : Text,
        saved : BOOLEAN, clean : BOOLEAN, opened : BOOLEAN, removed : BOOLEAN]

Entry == [run : 0..MaxRuns, kind : {"none", "new", "update"}, draft : Text,
          answers : [Field -> Option \cup {0}], shown : Text, clean : BOOLEAN]

TypeOK ==
    /\ exists \in BOOLEAN /\ text \in Text /\ (~exists => text = Empty)
    /\ offered \in [Field -> SUBSET Option]
    /\ changes \in 0..MaxChanges
    /\ accepted \in Seq(Entry)
    /\ started \in 0..MaxRuns
    /\ succeeded \subseteq 1..MaxRuns
    /\ pc \in [Proc -> {"idle", "lists", "truncate", "template", "open",
                        "editing", "read", "remove", "ask", "spinning", "post"}]
    /\ job \in [Proc -> Job]
    /\ \A p \in Proc :
         pc[p] \in {"truncate", "template"} => job[p].kind = "new"
    /\ touched \subseteq Proc

\* A run changes the server at most once, whatever is lost on the way, and if it
\* prints "created issue" or "updated issue" exactly once: nobody finds the same
\* issue twice because an answer did not arrive, and nobody misses one.
OnePostPerRun ==
    /\ \A i, j \in DOMAIN accepted : accepted[i].run = accepted[j].run => i = j
    /\ \A n \in succeeded : \E i \in DOMAIN accepted : accepted[i].run = n

\* Unless another process touched the file between, what arrives at the server
\* is what the user last had on the screen: subject and description of a new
\* issue (a text whose last line ends in a newline), the note of an update.
PostsWhatWasShown ==
    \A i \in DOMAIN accepted : LET post == accepted[i] IN
      post.clean =>
        IF post.kind = "new" THEN
          post.shown.newline =>
            NewIssue(post.draft) = [subject |-> post.shown.first,
                                    description |-> post.shown.body]
        ELSE post.draft = post.shown

\* Nothing but its user, or the `issue new' of some terminal that overwrites it
\* (issue.cpp 399: "TODO: Don't overwrite existing file contents."), changes the
\* text in issue.redmine before a run has read it: rm comes only after the read,
\* and takes away what was read unless another process touched the file between.
\* An update, a run that fails, is aborted or killed leaves the text there.
RemovedOnceRead ==
    [][text' # text =>
         \E p \in Proc :
           \/ pc[p] = "editing" /\ pc' = pc /\ text' = job'[p].shown
           \/ /\ pc[p] \in {"truncate", "template"} /\ pc'[p] # pc[p]
              /\ job[p].kind = "new"
           \/ /\ pc[p] = "remove" /\ pc'[p] = "ask"
              /\ p \in touched \/ text = job[p].draft]_vars

\* Whatever ends a run before it removed the file, kill included, the user's
\* text is still there, unless another process touched it.
DraftIsKept ==
    \A p \in Proc : job[p].opened /\ ~job[p].removed /\ p \notin touched =>
      text = job[p].shown /\ (job[p].saved => exists)

\* What a run is about at every moment: while its user writes, the text on the
\* screen; once it has read the file, the text it read.
Phase == [p \in Proc |->
    CASE pc[p] = "idle" -> "idle"
      [] pc[p] \in {"remove", "ask", "spinning", "post"} -> "settled"
      [] OTHER -> "writing"]

Run == [p \in Proc |-> IF Phase[p] = "idle" THEN 0 ELSE job[p].run]

Content == [p \in Proc |->
    CASE Phase[p] = "idle" -> Empty
      [] Phase[p] = "settled" -> job[p].draft
      [] OTHER -> job[p].shown]

Filed == [i \in DOMAIN accepted |->
    [run |-> accepted[i].run, content |-> accepted[i].draft]]

\* A run is a submission: in whatever order the steps of several terminals, kills
\* and lost answers come, it posts at most once, what it posts is the text last
\* shown or, if another terminal touched the file, the text it read; and it
\* says that it succeeded only of what it posted (issue.cpp:398-528, 622-698).
Submit == INSTANCE Submission WITH
    Content <- Text, Nothing <- Empty, begun <- started, phase <- Phase,
    run <- Run, content <- Content, disturbed <- touched, filed <- Filed,
    reported <- succeeded

SubmissionSpec == Submit!Spec

\* A run ends, unless its input ends first.
RunEnds == \A p \in Proc : pc[p] # "idle" ~> pc[p] \in {"idle", "spinning"}
=============================================================================
