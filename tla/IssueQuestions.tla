--------------------------- MODULE IssueQuestions ---------------------------
(***************************************************************************)
(* How a run of `redmine issue new', `issue update' or `issue list <p>'    *)
(* gets from what its user types to what it posts: the project is looked   *)
(* up in the list of projects, every list is one request, the editor comes *)
(* between the lists and the questions, and an answer is a name that is    *)
(* looked up in the list read before.  Other users change the server       *)
(* meanwhile.  IssueDraft has the same runs with their files; there a list *)
(* is a set of ids and all questions are one step.                         *)
(***************************************************************************)
EXTENDS Integers, Sequences, SequencesExt

CONSTANTS
    Text,        \* what things are called and what users type
    Number,      \* strtoul(text, nullptr, 0) in 32 bits: "3d" is 3, "wiki" 0
    Octets,      \* the length of a text
    ProjectId,   \* ids the server gives to projects
    Sites,       \* what the server may hold at first
    Contents,    \* bound: what a list may become while a run is going on
    Created,     \* bound: projects that may be created meanwhile
    Paged,       \* lists of which the server returns a first page only
    PageSize,    \* its length
    TypedDone,   \* numbers typed as a done ratio
    Modulus,     \* of uint32_t; that of unsigned long is its square
    Memory,      \* the longest vector that can be had
    MaxWatchers, \* bound: watchers chosen
    MaxChanges   \* bound: changes on the server

Global == {"tracker", "status", "priority"}
List == Global \cup {"category", "version", "member"}
Question == {"status", "tracker", "priority", "category", "version",
             "assignee", "watcher"}

Element == [id : Nat \ {0}, name : Text, readable : BOOLEAN]
Project == [id : ProjectId, name : Text, identifier : Text, readable : BOOLEAN]
Scope == ProjectId \cup {0}

Identified(projects) ==
    \A i, j \in DOMAIN projects :
      projects[i].id = projects[j].id
      \/ projects[i].identifier = projects[j].identifier => i = j

ASSUME IssueQuestionsAssumption ==
    /\ ProjectId \subseteq Nat \ {0}
    /\ Number \in [Text -> Nat] /\ Octets \in [Text -> Nat]
    /\ \A site \in Sites :
         /\ site.projects \in Seq(Project) /\ Identified(site.projects)
         /\ site.lists \in [List -> [Scope -> Seq(Element)]]
         /\ site.issue \in ProjectId
    /\ Contents \in SUBSET Seq(Element)
    /\ Created \subseteq Project
    /\ PageSize \in Nat \ {0}
    /\ TypedDone \subseteq Int
    /\ Modulus \in Nat /\ Modulus > 101
    /\ Memory \in Nat /\ Memory >= 40
    /\ \A t \in Text : 4 * (Octets[t] + Memory) < Modulus * Modulus
    /\ MaxWatchers \in Nat /\ MaxChanges \in Nat

VARIABLES
    projects, \* server: the projects in the order of the list
    lists,    \* server: the lists, of a project or of all (0)
    issue,    \* server: the project of the issue that is updated
    used,     \* server: ids that were given to a project
    changes,  \* changes made so far
    past,     \* history: what every list was since the run began
    pc, at,   \* where the run is: request or question `at'
    run,      \* its arguments and locals
    input,    \* standard input is open
    outcome,  \* its result
    sent      \* server: the post it applied

vars == <<projects, lists, issue, used, changes, past, pc, at, run, input,
          outcome, sent>>
server == <<projects, lists, issue, used, changes, past>>

Nothing == [of |-> 0, page |-> <<>>]
NoProject == [id |-> 0]
NoPost == [project |-> 0]

\* read[f] is a list and, history, the project the server answered for; rows
\* is the list of projects, meant[q] the elements the user had in mind.
NewRun(kind, asked, manage) ==
    [kind |-> kind, asked |-> asked, manage |-> manage,
     rows |-> <<>>, project |-> NoProject,
     read |-> [f \in List |-> Nothing],
     answers |-> [q \in Question |-> <<>>],
     meant |-> [q \in Question |-> <<>>],
     done |-> 101, typed |-> <<>>]

Init ==
    /\ \E site \in Sites :
         /\ projects = site.projects
         /\ lists = site.lists
         /\ issue = site.issue
         /\ used = {site.projects[i].id : i \in DOMAIN site.projects}
    /\ changes = 0
    /\ past = [f \in List |-> [s \in Scope |-> {lists[f][s]}]]
    /\ \E kind \in {"new", "update", "list"}, asked \in Text, manage \in BOOLEAN :
         /\ manage => kind = "new"
         /\ run = NewRun(kind, asked, manage)
    /\ pc = "project" /\ at = 1
    /\ input = TRUE /\ outcome = "running" /\ sent = NoPost

Goto(from, to) == pc = from /\ pc' = to

IssueExists == \E i \in DOMAIN projects : projects[i].id = issue

End(result) ==
    /\ pc' = "end" /\ outcome' = result
    /\ UNCHANGED <<server, at, run, input>>

-----------------------------------------------------------------------------
\* Every query has offset 0; whatever the server leaves out of its answer is
\* not asked for.
Page(f, list) ==
    IF f \in Paged /\ Len(list) > PageSize THEN SubSeq(list, 1, PageSize)
    ELSE list

\* An element without a member that init requires fails the query: a group
\* among the members, a version without a description.
Readable(page) == \A i \in DOMAIN page : page[i].readable

Denotes(project, text) ==
    \/ project.id = Number[text]
    \/ project.name = text
    \/ project.identifier = text

\* Mutant: the loop has no break.
FoundLast(rows, text) ==
    {i \in DOMAIN rows :
       Denotes(rows[i], text) /\ \A j \in i + 1 .. Len(rows) : ~Denotes(rows[j], text)}

\* The first project of the list that the text denotes, if there is one.
Found(rows, text) ==
    {i \in DOMAIN rows :
       Denotes(rows[i], text) /\ \A j \in 1 .. i - 1 : ~Denotes(rows[j], text)}

FindProject ==
    /\ run.kind # "update"
    /\ Goto("project", IF run.kind = "new" THEN "query" ELSE "heading")
    /\ LET rows == Page("project", projects) IN
         /\ Readable(rows)
         /\ \E i \in Found(rows, run.asked) :
              run' = [run EXCEPT !.rows = rows, !.project = rows[i]]
    /\ UNCHANGED <<server, at, input, outcome, sent>>

\* "invalid project: ..."
NoSuchProject ==
    /\ pc = "project" /\ run.kind # "update"
    /\ Found(Page("project", projects), run.asked) = {}
    /\ End("FAILURE") /\ UNCHANGED sent

\* issue_update takes the project from the issue, which Redmine deletes with
\* its project.
GetIssue ==
    /\ run.kind = "update"
    /\ IssueExists
    /\ Goto("project", "query")
    /\ run' = [run EXCEPT !.project = [NoProject EXCEPT !.id = issue]]
    /\ UNCHANGED <<server, at, input, outcome, sent>>

Queries ==
    IF run.kind = "update" THEN <<"status", "member">>
    ELSE IF run.manage
    THEN <<"tracker", "status", "priority", "category", "version", "member">>
    ELSE <<"tracker", "status", "priority", "version", "member">>

\* Mutant: the lists are asked for by the project's name.
ScopesByName(f) ==
    IF f \in Global THEN {0}
    ELSE {projects[i].id : i \in {j \in DOMAIN projects :
            IF run.kind = "update" THEN projects[j].id = run.project.id
            ELSE projects[j].name = run.project.name}}

\* issue_new asks for a project's lists by its identifier, issue_update by its
\* id: whatever project has that now.
Scopes(f) ==
    IF f \in Global THEN {0}
    ELSE {projects[i].id : i \in {j \in DOMAIN projects :
            IF run.kind = "update" THEN projects[j].id = run.project.id
            ELSE projects[j].identifier = run.project.identifier}}

\* Mutant: elements that cannot be read are passed over.
QueryListSkips ==
    /\ pc = "query"
    /\ pc' = IF at = Len(Queries) THEN "edit" ELSE "query"
    /\ at' = at + 1
    /\ LET f == Queries[at] IN
       \E s \in Scopes(f) :
         run' = [run EXCEPT !.read[f] =
                   [of |-> s, page |-> SelectSeq(Page(f, lists[f][s]),
                                                 LAMBDA e : e.readable)]]
    /\ UNCHANGED <<server, input, outcome, sent>>

QueryList ==
    /\ pc = "query"
    /\ pc' = IF at = Len(Queries) THEN "edit" ELSE "query"
    /\ at' = at + 1
    /\ LET f == Queries[at] IN
       \E s \in Scopes(f) :
         /\ Readable(Page(f, lists[f][s]))
         /\ run' = [run EXCEPT !.read[f] =
                      [of |-> s, page |-> Page(f, lists[f][s])]]
    /\ UNCHANGED <<server, input, outcome, sent>>

\* A request, or the editor, fails; the lists read so far are dropped.
Fails ==
    /\ pc \in {"project", "query", "edit", "issues"}
    /\ End("FAILURE") /\ UNCHANGED sent

-----------------------------------------------------------------------------
\* Mutant: the margin leaves room for a pair of quotes.
MarginQuoted(name) ==
    LET size == Octets[name] IN
    ((((78 - size) % (Modulus * Modulus)) \div 2) - size \div 2)
      % (Modulus * Modulus)

\* issue_list centres a heading with unsigned arithmetic: the width of the
\* margin must be positive and not too much.
Margin(name) ==
    LET size == Octets[name] IN
    ((((80 - size) % (Modulus * Modulus)) \div 2) - size \div 2)
      % (Modulus * Modulus)

PrintHeading ==
    /\ Goto("heading", "issues")
    /\ Margin(run.project.name) \in 1 .. Memory
    /\ UNCHANGED <<server, at, run, input, outcome, sent>>

\* back() of an empty vector, or an exception of the allocation.
HeadingAborts ==
    /\ pc = "heading"
    /\ Margin(run.project.name) \notin 1 .. Memory
    /\ End("aborted") /\ UNCHANGED sent

PrintIssues ==
    /\ pc = "issues"
    /\ End("SUCCESS") /\ UNCHANGED sent

-----------------------------------------------------------------------------
\* The editor, which IssueDraft has in detail.
Edit ==
    /\ Goto("edit", "ask")
    /\ at' = 1
    /\ UNCHANGED <<server, run, input, outcome, sent>>

Questions ==
    IF run.kind = "update" THEN <<"status", "done", "assignee">>
    ELSE <<"status", "tracker", "priority", "category", "version", "assignee",
           "watcher">>

Asking(q) == pc = "ask" /\ at <= Len(Questions) /\ Questions[at] = q

ListOf(q) == IF q \in {"assignee", "watcher"} THEN "member" ELSE q
Offered(q) == run.read[ListOf(q)].page

\* The allow_none arguments.
AllowNone(q) == run.kind = "update" \/ q \in {"assignee", "watcher"}

\* Mutant: the search goes on after a match.
ChoiceLast(page, name) ==
    {i \in DOMAIN page :
       page[i].name = name
       /\ \A j \in i + 1 .. Len(page) : page[j].name # name}

\* get_answer_id and get_user_id: the first element of that name.
Choice(page, name) ==
    {i \in DOMAIN page :
       page[i].name = name /\ \A j \in 1 .. i - 1 : page[j].name # name}

\* The user wants element i and types its name; watchers are asked for again.
AnswerName(q, i) ==
    /\ Asking(q) /\ input
    /\ i \in DOMAIN Offered(q)
    /\ q = "watcher" => Len(run.answers[q]) < MaxWatchers
    /\ \E k \in Choice(Offered(q), Offered(q)[i].name) :
         run' = [run EXCEPT !.answers[q] = Append(@, Offered(q)[k].id),
                            !.meant[q] = Append(@, i)]
    /\ at' = IF q = "watcher" THEN at ELSE at + 1
    /\ UNCHANGED <<server, pc, input, outcome, sent>>

\* Mutant: the end of the input ends every question.
AnswerNoneAtEnd(q) ==
    /\ Asking(q)
    /\ Offered(q) = <<>> \/ AllowNone(q) \/ ~input
    /\ at' = at + 1
    /\ UNCHANGED <<server, pc, run, input, outcome, sent>>

\* Mutant: an empty line does not end the watchers.
AnswerNoneAgain(q) ==
    /\ Asking(q)
    /\ Offered(q) = <<>> \/ AllowNone(q)
    /\ at' = IF q = "watcher" /\ Offered(q) # <<>> THEN at ELSE at + 1
    /\ UNCHANGED <<server, pc, run, input, outcome, sent>>

\* Without elements nothing is asked; an empty line, typed or left by getline
\* at the end of the input, is taken where it is allowed.
AnswerNone(q) ==
    /\ Asking(q)
    /\ Offered(q) = <<>> \/ AllowNone(q)
    /\ at' = at + 1
    /\ UNCHANGED <<server, pc, run, input, outcome, sent>>

\* Mutant: the ratio is kept in an unsigned long.
ConvertedLong(n) ==
    LET max == Modulus * Modulus - 1 IN
    IF n > max \/ -n > max THEN max ELSE n % (max + 1)

\* strtoul(answer, &end, 10), which takes a sign and stops at ULONG_MAX, and
\* the conversion to uint32_t.
Converted(n) ==
    LET max == Modulus * Modulus - 1 IN
    (IF n > max \/ -n > max THEN max ELSE n % (max + 1)) % Modulus

\* Mutant: every number is taken.
AnswerDoneUnchecked(n) ==
    /\ Asking("done") /\ input
    /\ run' = [run EXCEPT !.done = Converted(n), !.typed = <<n>>]
    /\ at' = at + 1
    /\ UNCHANGED <<server, pc, input, outcome, sent>>

\* A number that is no multiple of five is asked for again.
AnswerDone(n) ==
    /\ Asking("done") /\ input
    /\ Converted(n) % 5 = 0
    /\ run' = [run EXCEPT !.done = Converted(n), !.typed = <<n>>]
    /\ at' = at + 1
    /\ UNCHANGED <<server, pc, input, outcome, sent>>

SkipDone ==
    /\ Asking("done")
    /\ at' = at + 1
    /\ UNCHANGED <<server, pc, run, input, outcome, sent>>

EndOfInput ==
    /\ pc = "ask" /\ input
    /\ input' = FALSE
    /\ UNCHANGED <<server, pc, at, run, outcome, sent>>

\* A question that needs an answer repeats at the end of the input for ever.
Spinning ==
    /\ ~input
    /\ \E q \in Question : Asking(q) /\ Offered(q) # <<>> /\ ~AllowNone(q)

-----------------------------------------------------------------------------
\* The members of the document: only issue_new's has a project, and 101 stands
\* for no done ratio.
Body ==
    [project |-> IF run.kind = "new" THEN <<run.project.id>> ELSE <<>>,
     answers |-> run.answers,
     done |-> IF run.done # 101 THEN <<run.done>> ELSE <<>>]

\* An update goes to the issue, in whatever project that is by now.
Receiver == IF Body.project # <<>> THEN Body.project[1] ELSE issue

ReadyToPost == pc = "ask" /\ at = Len(Questions) + 1

\* Redmine takes an issue only for a project it has.
Applies ==
    /\ \E i \in DOMAIN projects : projects[i].id = Receiver
    /\ sent' = [Body EXCEPT !.project = Receiver]

PostSucceeds == ReadyToPost /\ Applies /\ End("SUCCESS")

PostFails == ReadyToPost /\ (Applies \/ UNCHANGED sent) /\ End("FAILURE")

-----------------------------------------------------------------------------
\* Other users of the server, while the run goes on.
Changed == pc # "end" /\ changes < MaxChanges /\ changes' = changes + 1

ChangeList(f, s, list) ==
    /\ Changed
    /\ lists' = [lists EXCEPT ![f][s] = list]
    /\ past' = [past EXCEPT ![f][s] = @ \cup {list}]
    /\ UNCHANGED <<projects, issue, used, pc, at, run, input, outcome, sent>>

\* Ids are never given again, identifiers are.
DeleteProject(i) ==
    /\ Changed
    /\ i \in DOMAIN projects
    /\ projects' = RemoveAt(projects, i)
    /\ UNCHANGED <<lists, issue, used, past, pc, at, run, input, outcome, sent>>

CreateProject(project) ==
    /\ Changed
    /\ project.id \notin used
    /\ \A i \in DOMAIN projects : projects[i].identifier # project.identifier
    /\ projects' = Append(projects, project)
    /\ used' = used \cup {project.id}
    /\ UNCHANGED <<lists, issue, past, pc, at, run, input, outcome, sent>>

MoveIssue(id) ==
    /\ Changed
    /\ IssueExists
    /\ \E i \in DOMAIN projects : projects[i].id = id
    /\ issue' = id
    /\ UNCHANGED <<projects, lists, used, past, pc, at, run, input, outcome, sent>>

OtherUsers ==
    \/ \E f \in List, s \in Scope, list \in Contents :
         (f \in Global <=> s = 0) /\ ChangeList(f, s, list)
    \/ \E i \in DOMAIN projects : DeleteProject(i)
    \/ \E project \in Created : CreateProject(project)
    \/ \E id \in ProjectId : MoveIssue(id)

\* What the run does, its user answering.
Step ==
    \/ FindProject \/ NoSuchProject \/ GetIssue \/ QueryList \/ Fails
    \/ PrintHeading \/ HeadingAborts \/ PrintIssues
    \/ Edit
    \/ \E q \in Question :
         \/ \E i \in DOMAIN Offered(q) : AnswerName(q, i)
         \/ AnswerNone(q)
    \/ \E n \in TypedDone : AnswerDone(n)
    \/ SkipDone
    \/ PostSucceeds \/ PostFails

Stays == (pc = "end" \/ Spinning) /\ UNCHANGED vars

Next == Step \/ EndOfInput \/ OtherUsers \/ Stays

Spec == Init /\ [][Next]_vars

\* Requests are answered or fail, and the user answers.
FairSpec == Spec /\ WF_vars(Step)
-----------------------------------------------------------------------------
Runs ==
    [kind : {"new", "update", "list"}, asked : Text, manage : BOOLEAN,
     rows : Seq(Project), project : Project \cup [id : ProjectId \cup {0}],
     read : [List -> [of : Scope, page : Seq(Element)]],
     answers : [Question -> Seq(Nat \ {0})], meant : [Question -> Seq(Nat \ {0})],
     done : 0 .. Modulus - 1, typed : Seq(Int)]

Posts ==
    {NoPost} \cup [project : ProjectId, answers : [Question -> Seq(Nat \ {0})],
                   done : Seq(0 .. Modulus - 1)]

TypeOK ==
    /\ projects \in Seq(Project)
    /\ lists \in [List -> [Scope -> Seq(Element)]]
    /\ issue \in ProjectId /\ used \subseteq ProjectId
    /\ changes \in 0 .. MaxChanges
    /\ past \in [List -> [Scope -> SUBSET Seq(Element)]]
    /\ pc \in {"project", "query", "edit", "ask", "heading", "issues", "end"}
    /\ at \in Nat \ {0}
    /\ run \in Runs
    /\ pc \in {"heading", "issues"} => run.project \in Project
    /\ pc \in {"query", "edit", "ask"} =>
         run.project \in (IF run.kind = "new" THEN Project ELSE [id : ProjectId])
    /\ pc = "project" => at = 1
    /\ pc = "query" => at \in 1 .. Len(Queries)
    /\ input \in BOOLEAN
    /\ outcome \in {"running", "SUCCESS", "FAILURE", "aborted"}
    /\ sent \in Posts

\* A project given by its identifier, the only thing of a project that is
\* unique, is the one used, unless one before it in the list has that name or
\* the number its text begins with (project.cpp 93).
ProjectIsMeant ==
    \A i \in DOMAIN run.rows :
      run.rows[i].identifier = run.asked =>
        \/ run.project = run.rows[i]
        \/ \E j \in 1 .. i - 1 :
             /\ run.project = run.rows[j]
             /\ run.asked = run.rows[j].name \/ run.rows[j].id = Number[run.asked]

\* What the server got of an answer is the element the user had in mind, unless
\* an earlier one of the list has the same name (get_answer_id, get_user_id).
IntendedIsPosted ==
    sent # NoPost =>
      \A q \in Question : \A n \in DOMAIN sent.answers[q] :
        LET page == Offered(q)
            i == run.meant[q][n] IN
        \/ sent.answers[q][n] = page[i].id
        \/ \E j \in 1 .. i - 1 : page[j].name = page[i].name

\* The ids that reach the server belong to the project of the issue they are
\* posted to.  A new issue is posted with the id of a project whose lists were
\* asked for by its identifier (issue.cpp 400-437, 472): if another project got
\* the identifier meanwhile, the first one is gone and the post refused.  An
\* update is put to an issue that was read before the editor and the questions
\* (issue.cpp 611-619, 686).  Only if it was moved to another project after that
\* does it get ids of the project it was in.
PostedFromOwnLists ==
    sent # NoPost =>
      \A f \in List \ Global :
        run.read[f].page # <<>> =>
          \/ run.read[f].of = sent.project
          \/ /\ run.kind = "update" /\ sent.project # run.project.id
             /\ run.read[f].of = run.project.id

\* A list that is used is the one the server had at some moment of the run, or
\* its first page; never what is left of one after elements that could not be
\* read.  What is shorter than a page is complete.
ListsAreSnapshots ==
    pc \in {"edit", "ask"} =>
      \A f \in List : LET read == run.read[f] IN
        read # Nothing =>
          \E list \in past[f][read.of] :
            /\ read.page = Page(f, list)
            /\ Len(read.page) < PageSize => read.page = list

\* A done ratio is posted if and only if one was typed, as it was typed if it
\* is one: 101, which stands for none, cannot be typed.
DoneIsPosted ==
    sent # NoPost =>
      /\ sent.done = <<>> <=> run.typed = <<>>
      /\ \A n \in 0 .. 100 : run.typed = <<n>> => sent.done = <<n>>

\* `issue list' of a project prints its heading, however the widths wrap, if
\* and only if the name has less than 40 octets.
ShortNamesAreListed ==
    /\ outcome = "aborted" => Octets[run.project.name] >= 40
    /\ run.kind = "list" /\ outcome = "SUCCESS" => Octets[run.project.name] < 40

\* The abstract form: settled once the lists are read, filed with the post.
OptionalQuestions ==
    [kind \in {"new", "update", "list"} |->
       IF kind = "update" THEN Question ELSE {"assignee", "watcher"}]

Ids(s) == {s[n] : n \in DOMAIN s}

Offers ==
    [q \in Question |->
       IF pc = "ask" \/ sent # NoPost
       THEN {Offered(q)[i].id : i \in DOMAIN Offered(q)} ELSE {}]

Phase ==
    CASE pc = "ask" -> "offered" [] pc = "end" -> "closed" [] OTHER -> "reading"

Filed ==
    [q \in Question |-> IF sent = NoPost THEN {} ELSE Ids(sent.answers[q])]

Form == INSTANCE IssueForm WITH
    Optional <- OptionalQuestions, kind <- run.kind, phase <- Phase,
    offers <- Offers, form <- Filed

FormSpec == Form!FormSpec

\* A run ends, unless the input of an `issue new' ends before a question that
\* needs an answer; an update ends even then, and so does a list.
RunEnds == pc # "end" ~> pc = "end" \/ (Spinning /\ run.kind = "new")
=============================================================================
