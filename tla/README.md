# A formal model of the Redmine command line interface

This directory holds TLA+ modules that model `redmine`, the command line client
for the Redmine project management server (C++11, `src/source`,
`src/include`, `src/external/json`), the TLC configurations that check them on
small instances, and theorems checked by TLAPS that hold for every value of the
constants. Line numbers are those of the source beside it.

    tlc -config ConfigSolo.cfg MCConfigSession.tla     # one of the runs listed below
    tlapm ConfigSession_proofs.tla                     # one of the proofs

## 1. The system

The program runs one command and exits. It has no threads, but it is seldom
alone: the same user has several terminals open, all of them share one
configuration file and, in one directory, one draft file; the server is used by
other people while a run asks it one thing after another; requests are lost
before or after the server has acted on them; the user kills runs, or ends
their input. Nothing is locked, no request has a timeout, nothing is retried.

| part | state it keeps | operations | source |
| --- | --- | --- | --- |
| configuration file | `~/.redmine`: browser, editor, name of the active profile, profiles | `config::load`, `config::save`, `config_interactive` | `config.cpp` 63-183 |
| config command | nothing beyond the file | `action::config` and one handler per setting | `config.cpp` 185-472 |
| main | options, the loaded config, the user | load, setup, second load, `current_user::get`, dispatch | `redmine.cpp` 36-133 |
| current user | profile, memberships, permissions overall and per project | `current_user::get`, `can`, `permissions::get` | `user.cpp` 77-300, `role.cpp` |
| issue commands | the draft `issue.redmine` in the working directory | new, update; list, show | `issue.cpp` |
| project commands | the draft `project.redmine` | list, new, show, lookup by id, name or identifier | `project.cpp` |
| user commands | nothing | list, show | `user.cpp` 302-405 |
| queries | nothing | issues, statuses, categories, versions, memberships, users, trackers, enumerations, roles | `issue.cpp`, `version.cpp`, `membership.cpp`, `user.cpp`, `tracker.cpp`, `enumeration.cpp`, `role.cpp` |
| requests | one libcurl handle per call | `http::get`, `post`, `put`, callbacks `read`, `write` | `http.cpp` |
| prompts | standard input | `get_answer_string`, `_number`, `_bool` | `command_line.cpp` |
| json | nothing | `json::read`, `json::write` and the value classes | `external/json` |
| errors, util | nothing | `CHECK...` macros, `getcwd`, `rm` | `error.h`, `util.cpp` |

How they meet: `main` loads the configuration and, if that fails, asks for a
new one, writes it and loads again into the same object. It asks the server
for the user, then for every role of every membership, and opens the actions
those permissions allow. A config command loads the file a second time, changes
one setting and saves the whole document. An issue command reads lists from the
server, starts the editor as a child process on the draft, reads and removes
the draft, asks the user to choose from the lists and posts. Every request goes
through `http.cpp`, every document through the json library.

What is hard, and which properties it would break, is the list of hazards in
`PROJECT.json`, each at its line. What makes each part correct, in short:

* *configuration*: whoever is told that a setting was stored can read it back,
  a command changes only what it names, a broken file is repaired by the next
  run, and no run works with a null or an outdated profile;
* *current user*: a run never believes in a permission that no role of the user
  listed, permissions of one project do not leak into another, and a request
  that fails leaves no half-read set behind;
* *issues*: a run changes the server at most once, with the text that the user
  saw, and does not lose the text before it was read;
* *requests*: SUCCESS means delivered and done; a call ends;
* *projects*: a project is found by what the user meant; a run makes at most
  one, from the form its user saw, and SUCCESS means that it did;
* *queries and questions*: a list used for a choice is one the server had, what
  is posted of it is what the user had in mind, and of the right project;
* *json*: what is read back is what was written (not modelled).

## 2. The modules

| module | what it is | run or proof |
| --- | --- | --- |
| `ConfigFile` | the document, the object, `load` and `save` as functions | through the others |
| `ConfigCommands` | every `redmine config` handler as a function of the object | through the others |
| `ConfigSession` | processes that share the file, one action per system call | `config_solo`, `config_pair` |
| `ConfigStore` | abstract: a store in which a command replaces one setting | `config_store` |
| `ConfigRefinement` | `ConfigSession` with one process implements `ConfigStore` | `config_store` |
| `ConfigClaims` | claims of comments and messages that the code does not keep | `claim_...` |
| `CurrentUser` | what a run learns about its user, request by request | `current_user` |
| `IssueText` | the draft's text: template, what `issue_new` reads from it | through `IssueDraft` |
| `IssueDraft` | `issue new` and `issue update` from several terminals | `issue_solo`, `issue_pair` |
| `IssueQuestions` | lookup, lists and questions of one run, while others change the server | `choices` |
| `IssueForm` | abstract: what the questions of a run amount to | `choices` |
| `ProjectDraft` | `project new` from several terminals | `project` |
| `Submission` | abstract: a run files what its user last saw, once at most | `issue_pair` |
| `Exchange` | abstract: what the commands rely on in a request | `http` |
| `HttpTransfer` | one request of `http.cpp`, implements `Exchange` | `http` |
| `MC...` | values of the constants for TLC | |
| `..._proofs` | theorems of the component | TLAPS |

`ConfigSession` extends `ConfigCommands`, which extends `ConfigFile`;
`ConfigRefinement` and `ConfigClaims` extend `ConfigSession`. `IssueDraft`
extends `IssueText`. `HttpTransfer`, `ConfigRefinement`, `IssueQuestions`,
`IssueDraft` and `ProjectDraft` instantiate the abstract modules. The other
components meet through assumptions that another module justifies. `IssueDraft`,
`IssueQuestions`, `ProjectDraft` and `CurrentUser` let a request end in one
step, in SUCCESS only if the server acted, in FAILURE in any case; that is
`Exchange`, which `HttpTransfer` implements. `IssueDraft` lets all questions be
answered in one step, with ids offered and none missing that is needed; that is
`IssueForm`, which `IssueQuestions` implements, question by question.

### Configuration (`ConfigFile`, `ConfigCommands`, `ConfigSession`)

`file` is the configuration file: `NoFile`, `Torn` (empty, cut short, or a root
that is no object) or a document whose members may each be missing or of the
wrong type. `Load` translates `config::load` statement by statement: an early
return leaves the object as far as it was filled, which matters because main
loads into the same object twice. `Saved` is `config::save`. Each process has
`main`'s object (`session`), the object of the setup or command (`cfg`) and a
position `pc`; the steps are the open-and-read of a load, the open of a save (it
truncates), its write (when the stream is destroyed), the questions and the
check of the key on the server. A write may fail to open, may be cut short, a
process may be killed between any two steps and the server may fail: `Faults`
selects which. The input may end while the setup asks (`EndOfInput`): the
yes-or-no questions then repeat for ever (`command_line.cpp` 92), a position of
its own (`spinning`), which `Repaired` excuses. The key of a profile may be one
the server rejects: main then stops before it has looked at the command, so that
no run changes it (`RejectedKeyStays`). A read of the file is one step, since
the document is smaller than the buffer of a stream. `base` (what the last load
found) and `touched` (somebody else changed the file meanwhile) are history and
read by the properties only.

`Stored(c)` says that a program that starts now loads the file and that a query
of what `c` sets prints `c`'s argument. Two updates cannot be stored, and
`Storable` leaves them out: `config browser`, whose handler assigns to the editor
(288; refuted as a claim of its own, `BrowserIsStored`), and `config profile`
with a name that no profile has, which the handler takes and after which no load
succeeds (337, 158). `SuccessMeansStored` has two more exceptions: a write that
was cut short at the end of `save`, which nothing in the program can notice, and,
where the file may fail to open for writing, the handlers that do not test the
result of `save` (`ChecksSave`; 441, 464). What these two write when the file
does open is stored all the same: `UpdateIsLocal` says so of every write.

The safety properties are about several terminals; that one process by itself
is a store of settings is `ConfigRefinement`. It maps a text to the settings in
it (`SettingsIn`), or to `Unset` if `load` gives up on it, a text between
truncation and write to the one before, a command's write to `Put`, the setup's
write to `Setup`, and a short write or a crash after the truncation to `Lose`;
everything else stutters.

Not in it: array elements that are no objects and an empty `url` argument, both
undefined behaviour; the mixture that two overlapping short writes of different
lengths could leave.

### Current user (`CurrentUser`)

The server has `grants`, the permission names each role lists; administrators
change them (`EditRole`) between two requests of the run. `GetUser` is the first
request of `current_user::get`, `GetRole` one request per role of the membership
`m`, `StoreMembership` the end of a membership (the project's entry is filled
and the accumulator starts again), `RequestFails` any request that fails: the
run ends without dispatching. `UseIssue`, `UseUser` and `Dispatch` are main's
choice. `seen` and `held` record what each role listed at some and at every
moment of the run; between these two lies what the run may believe. The
profile's names and dates are left out. `project_permissions` is filled and never
read elsewhere in the program (`issue.cpp` 376 tests the union, see the TODO at
393); the model keeps it because its construction is where a leak between
projects would happen.

### Issues (`IssueText`, `IssueDraft`)

`exists` and `text` are the draft in the shared directory, `offered` the ids of
the server's lists, `accepted` the posts it applied. `job[p]` holds the locals
of p's run and its history (what was last on the screen, whether it was saved,
whether the file was undisturbed). One action per system call or request: the
lists, the truncation and the template of a new issue, the editor's opening,
each save, its end, the read of the draft, its removal, the questions, the post.
A run that ends early (empty subject, editor failure, read failure) keeps the
draft, as the code does. What the code does and a reader may not expect:

* the loop that reads the description appends a last line without newline twice
  (437-440), so `PostsWhatWasShown` is stated for texts that end in a newline;
* `issue new` overwrites what an earlier run left in the file (400), although
  line 399 says "TODO: Don't overwrite existing file contents.": the TODO asks for
  another behaviour, no property takes either side, and `RemovedOnceRead` names
  this overwriting as the one way in which a text can be lost before it is read;
* `issue update` opens whatever an earlier run left in the file (626);
* the draft is removed before the questions and the post (449, 642): a refused
  post loses the text, so `DraftIsKept` ends there, and all that
  `RemovedOnceRead` says is that the text was read before;
* the result of `util::rm` is ignored;
* a PUT that is answered with 204 counts as failed although the issue changed;
* at the end of the input a mandatory question repeats for ever (`spinning`).

Here the lists are sets of ids and the questions one step, so that the files,
the kills and the other terminal can be checked in full; names, watchers and the
done ratio are the subject of the next module.

For `Submission`, a run is idle, writing (from its start to the end of the
editor) or settled (once it has read the file); its content is the text on the
screen, then the text it read. `disturbed` is `touched`, `filed` the posts the
server applied, `reported` the runs that returned SUCCESS. The steps of a run
before the read map to `Show`, the read to `Settle`, the removal and the
questions to `Tidy`, a post that is applied to `File`, and all other ends of a
run to `GiveUp`; a withdrawn option is a stutter.

### Questions (`IssueQuestions`, `IssueForm`)

One run of `issue new <project>`, `issue update` or `issue list <project>`.
`projects`, `lists` and `issue` (the project the issue is in) are the server's;
other users replace a list, delete or create a project (an identifier may be
used again, an id never) or move the issue between any two steps (`OtherUsers`).
The run looks the project up (`FindProject`; an id, a name or an identifier, in
the order of the list), reads one list per step (`QueryList`; the scope is the
identifier for a new issue and the id for an update), edits, and asks one
question after another. `AnswerName(q, i)` is a user who wants element `i` and
types its name: what the code then takes is `Choice`, the first of that name.
`AnswerNone` is an empty line, also the one that `getline` leaves at the end of
the input. `AnswerDone` has `strtoul`'s conversion, sign, saturation and
truncation to 32 bits. `Margin` is the unsigned arithmetic that centres the
heading of a list. `Text` stands for names and for what is typed, `Number` is
what `strtoul` with base 0 makes of it. The document of a new issue names its
project (471), that of an update does not (672-684, `Body`): it goes to the
issue, wherever that is when it arrives (`Receiver`), and an issue whose project
was deleted is gone (`IssueExists`). `PostedFromOwnLists` compares the project
of the lists with the receiver; its one exception is an issue that was moved
between its GET and its PUT, which gets ids of the project it was in.
`run.meant`, `run.typed`, `run.rows` and `past` are history. A list of which the
server returns a first page only (`Paged`) is not asked for again, and an
element without a required member (a group among the members) fails the query.
The refinement maps the reading of the lists to stutters, the editor's end to
`Offer`, the answers to stutters and the post to `File`.

### Project new (`ProjectDraft`)

The draft is a form of nine lines, of which the code reads seven by their number
and cuts off as many octets as the label of that number has (`Strip`), whatever
the line is. An edit retypes a value, inserts, removes or moves a line. As
`is_public: ` and `parent_id: ` are equally long, their lines exchange their
values when they are swapped; most other misplaced lines leave a piece of text
(`Garbled`) or nothing. A refused post prints the errors and then "project
created" before it finds no project in the answer: `refused` records the first,
`announced` the second and `succeeded` what was returned. The second cannot be
relied upon, the others can: `RefusedMadeNone`, `SuccessMeansCreated`.
The rest (truncation, template, editor, read, removal, kills, lost answers) is
as for issues; the module has its own actions for it because the steps differ
where the code does: nothing checks for an empty form, and nothing is asked.

### Requests (`HttpTransfer`, `Exchange`)

One call of `get`, `post` or `put`. A PUT's text goes through `read` in pieces
of any size until it returns 0; a POST's text is a C string and ends at its
first Nul; the answer's status arrives, then its body in pieces through `write`.
The server may refuse before it has read everything, acts only on whole
documents, and may act after the client has given up. curl ends with `CURLE_OK`
or with an error; `print_curl_error` turns the codes it lists into FAILURE and
every other one into SUCCESS, after which the status decides. Codes newer than
the packaged libcurl (`CURLE_HTTP2_STREAM`) are such others, and the default
build uses the system's library: this is why `SuccessIsDelivered` promises the
whole body only for `CURLE_OK`, while it promises that the server acted in any
case. An answer that has no length may also be cut without notice.

## 3. The runs

| run | instance | states | shows |
| --- | --- | --- | --- |
| `config_solo` | 1 process, every command, 11 files, all faults | 110 thousand | `SuccessMeansStored`, `UpdateIsLocal`, `RejectedKeyStays`, `TypeOK` |
| `config_pair` | 2 processes, symmetric, crashes and short writes | 299 thousand | `CrashNeedsInterference`, `SessionIsFresh`, `NoDuplicateProfiles` |
| `config_store` | 1 process, crashes, with fairness | 6 thousand | `StoreSpec` (refinement), `Repaired` (liveness) |
| `claim_short_write` | 1 process, short writes | | refutes `SaveSaves` |
| `claim_active` | 1 process, two profiles | | refutes `ActiveIsNamed` |
| `claim_browser` | 1 process, `config browser` | | refutes `BrowserIsStored` |
| `current_user` | 2 projects, 2 roles, 3 names, 2 edits | 946 thousand | `OnlyGranted`, `ProjectsIsolated`, `NothingLost`, `IssueNeedsGrant`, `Decides` (liveness) |
| `issue_solo` | 1 terminal, 2 runs, 5 texts, 1 withdrawn option | 254 thousand | `TypeOK`, `RunEnds` (liveness) |
| `issue_pair` | 2 terminals, symmetric, 2 runs, 3 texts, 1 withdrawn option | 2.75 million | `SubmissionSpec` (refinement), `PostsWhatWasShown`, `DraftIsKept`, `RemovedOnceRead` |
| `choices` | 1 run, 2 sites, 4 texts, 2 changes | 620 thousand | `ProjectIsMeant`, `IntendedIsPosted`, `PostedFromOwnLists`, `ListsAreSnapshots`, `DoneIsPosted`, `ShortNamesAreListed`, `TypeOK`, `FormSpec` (refinement), `RunEnds` (liveness) |
| `project` | 2 terminals, symmetric, 2 runs, 1 edit each | 3.95 million | `SuccessMeansCreated`, `RefusedMadeNone`, `FieldsInPlace`, `DraftIsKept`, `TypeOK` |
| `http` | 1 request, 2 texts, 2 bodies, pieces of 1 or 2 octets | 6 thousand | `OctetsInOrder`, `SuccessIsDelivered`, `ExchangeSpec` (refinement), `Returns` (liveness) |

The two runs of `IssueDraft` share its properties: `issue_pair` has those that
another terminal could break, `issue_solo` those that need more texts or
fairness. The theorems have every one of them for
any number of terminals. `SubmissionSpec` implies `OnePostPerRun`, which is
therefore proved but not a property of a run. `ProjectDraft` implements the same
abstract module; that is a theorem, and was left out of `project`, whose
instance it makes twice as expensive.

### Bounds, and why they are enough

* *Processes*: two. Every hazard of the shared files is one process between two
  steps of another; no code waits for or counts a third. The proofs have any
  number.
* *Profiles*: two in a file and two names, enough for the last one to differ
  from the active one, and for one to be duplicated.
* *`PortModulus`*: 3 instead of 2^32, so that an argument of 5 overflows it.
* *Role edits*: two, so that a role read early and one read late can change in
  opposite directions. One name that the program does not know.
* *Runs of `issue`*: two, one that leaves a draft and one that finds it. Texts:
  complete, without the last newline, without separator, without subject, empty.
* *Pieces*: of one and two octets of a text of four: a last piece may be shorter
  than what was asked for, and an answer of three octets may break inside. The
  proofs have any sizes.
* *Texts of the questions*: "3d" and "010", which `strtoul` reads as 3 and as
  eight, both also ids of projects; a name that two elements share; one of 39
  and one of 40 octets, the two sides of the heading's limit (`Memory` is 100
  octets; a wrapped margin is far more for any value).
* *Numbers*: `Modulus` is 256 instead of 2^32 and its square stands for
  `unsigned long`; the typed ratios are -1 (wraps to a multiple of five), 3
  (refused), 50, 101 (the sentinel, refused) and 261 (wraps to 5).
* *Pages*: of two elements, with lists of two and a third project created
  meanwhile. *Watchers*: one, besides the end of the watchers; the proofs have
  any number. *Changes*: two, enough to delete a project and give its
  identifier to another one between the lookup and the post.
* *Edits of a form*: one; two runs by one terminal, or by two, find each other's
  file. The proofs have any number of edits.
* Deadlock is checked everywhere but in `http`, where a call that has returned
  has no next step, and where the program itself may end (`current_user`,
  the issue and the project runs have an explicit final step).

### Fairness, and what in the code justifies it

* `ConfigSession`: weak fairness of each process's own steps. A process is
  scheduled; a user who is asked answers. A new command is typed or not.
* `CurrentUser`: weak fairness of the run. Requests are answered or break off:
  curl is used without a timeout, so that a server which keeps a connection
  open and silent is outside this assumption and would hold a run for ever.
* `IssueDraft`: the same, and users leave their editor and answer. That the
  input may end is a state of its own, and `RunEnds` excuses it.
* `IssueQuestions`: weak fairness of the run's steps together (`Step`): requests
  are answered or fail, the user answers the question that is asked. A number
  that is refused and a name that is not in the list are steps that change
  nothing and are left out, so that a user who types nothing else for ever is
  outside the assumption. `RunEnds` excuses one thing: the input of an
  `issue new` that ends before a question that needs an answer.
* `ProjectDraft` states no liveness: the steps are those of `IssueDraft`
  without the questions.
* `HttpTransfer`: weak fairness of the client, and of a server that has a whole
  request. Early refusals and broken connections are never required to happen.

## 4. What is proved

All theorems are about the specifications that the runs check, for any values of
the constants that satisfy the named assumptions.

* `ConfigFile_proofs`: `SavedConfigLoads`, what `save` writes of an object with
  an active profile, `load` accepts; and, as lemmas, what it finds there: the
  program names, the active name and every profile as they were (`SavedSettings`,
  `LoadedSettings`), the last profile of the file being the current one. Whatever
  is said about stored settings or about repair rests on these.
* `ConfigSession_proofs`, for any number of processes, files, faults and values:
  * `TypeCorrect` and `CrashImpliesInterference`, that no process dereferences a
    null profile unless another one changed the file under it. The property is
    not inductive: that a command's load succeeds follows from main's load
    having succeeded on the same file, or from the setup having written a file
    that loads. `EveryoneLoadsAgain` in `ConfigSession` says so position by
    position; with `TypeOK` it is inductive.
  * `SessionStaysFresh` (the profile main works with is the one a fresh load
    finds), `SuccessIsStored` (a storable update that reported SUCCESS is what a
    fresh load reads, or was cut short), `UpdatesAreLocal` (a save replaces the one
    setting it was asked to; not of `config browser`) and `RejectedKeysStay`, each for a process that nobody
    disturbed. None of them is inductive alone: what a save writes depends on
    what the handler did, that on what the second load found, and that on what
    the first one, or the setup, left. `EveryoneUndisturbed` has the four parts
    of that chain: `FreshSession` and `KeyAccepted` (main's active profile is
    the one in the file, and a command begins only with a key the server
    accepts), `Carries` (between its load and its write an update holds what it
    loaded, changed as its command says) and `Reported` (after the save, the
    file has it). TLC checked it on both instances before it was proved. A step
    of another process either leaves the file alone or is recorded in
    `touched`, which ends the promise (`StepOfAnother`).
  * `ProfilesStayDistinct`: no two profiles of the file have one name if that is
    so of the first file, a hypothesis that is needed because `load` accepts a
    file in which a user repeated a name. The invariant `NamesStayUnique` says it
    of the file and of every object on its way into the file: main loads twice
    into one object, which may then hold a profile twice, but never saves it.
* `ConfigRefinement_proofs`: `ImplementsStore`, the refinement of
  `ConfigStore`, for one process. The invariant `Alone` says that a process
  without company is never disturbed, that the file is what it found until it
  truncates it, and that a setup happens only to a file that does not load;
  then each write is placed (`UpdateIsPut`, `SetupIsSetup`, `CutOffIsLose`).
  Three hypotheses restrict the values, because the code has no such store
  without them: `NoSslAsked`, as the setup stores the answer about `verify_ssl`
  in `use_ssl` (175) and so keeps what was meant only if both answers are no,
  `OneProfileFiles`, as with several profiles in a file the one in use is
  not the one named (155), and `NoBrowserSet`, as that command sets the editor
  (288). `MCConfigRefinement` evaluates both for the run's
  constants.
* `CurrentUser_proofs`: `UserTypeCorrect`, `NothingInvented`,
  `ProjectsStayIsolated`, `NothingIsLost`, `IssueIsGuarded`. The inductive
  invariant says of every role already read that what it held throughout has
  arrived in the union and in the project's entry or the accumulator
  (`ReadEarlier`, `ReadCurrent`), and of the accumulator that all in it comes
  from the membership being read (`LocalIsolated`). Assumption: a user has one
  membership per project (`CurrentUserAssumption`), which Redmine enforces.
* `IssueDraft_proofs`: `IssueTypeCorrect`, `AtMostOncePerRun` (which includes
  that a run reported as successful has its issue), `ShownIsPosted`, `TextGoesOnceRead`,
  `TextSurvives`, for any number of terminals, runs and texts. Two invariants: `RunsInv` (run
  numbers of running processes are distinct and, before the post, not among the
  accepted ones) and `DraftInv` (for a process nobody disturbed, how file,
  screen and locals agree at each position). `IssuesAreSubmissions`, the
  refinement of `Submission`, follows from the second: at the read of the file
  (`ReadSettles`) it says that the text read is the one on the screen; every
  other step is placed by the positions it leads from and to.
* `IssueQuestions_proofs`: `QuestionsTypeCorrect`, `IdentifierIsMeant`,
  `AnswersAreIntended`, `IdsOfTheProject`, `ReadListsAreSnapshots`,
  `TypedDoneIsPosted`, `LongNamesAbort` and `RunsFileForms`, the refinement of
  `IssueForm`. Each has its invariant: `FoundInv` (what the lookup left is the
  first match of the list that was read), `ListsInv` (every list is a page of
  something in `past`), `OwnInv` (a list was read for the project of the run, or,
  for a new issue, that project is gone for good: its id is in `used` and not in `projects`),
  `AnswersInv` (answers and what was meant agree question by question),
  `DoneInv`, `HeadingInv`, and `AskedInv` (the questions already asked have
  their answers, the later ones none). `Identified`, that ids and identifiers
  of projects are unique at first, is the assumption; that it stays so is part
  of `OwnInv`'s proof. The arithmetic of the heading is proved for any width.
* `ProjectDraft_proofs`: `ProjectTypeCorrect`, `ReportedIsCreated`,
  `RefusedRunsMadeNone`, `MembersFromTheirLines`, `FormSurvives`, for any number of
  terminals, runs and edits. `RunsInv` is about run numbers, as for issues, and
  the invariant of the form says, for a process nobody disturbed, how file,
  screen and locals agree at each position. `ProjectsAreSubmissions` is the
  refinement of `Submission`, in which the content of a form is what `Fields`
  makes of it, so that the post and not only the text is what was shown.
* `HttpTransfer_proofs`: `TransferTypeCorrect` (the position of `read` stays
  within the text), `NothingOutOfOrder`, `SuccessDelivers` and
  `ImplementsExchange`, the refinement. The invariant relates the position to
  what was sent, 200 and 201 to a server that acted, and `CURLE_OK` to the end
  of an answer with a length. Assumption: no proper beginning of a text is a
  document, which holds for what `json::write` writes (one object, closed by its
  last bracket), and 200 and 201 are only said of what was done.

Only model-checked: the liveness properties (`Repaired`, `Decides`, `RunEnds` of
the issues and of the questions, `Returns`), which are out of the prover's
reach. Every invariant, action property and refinement of a passing run is also
a theorem.

## 5. Where the code differs from what is said of it

Refuted claims, each by a run that shows how:

* `config.h` 44, "Save this config object to the config file": a write that is
  cut short at the end of `save` goes unnoticed, and `save` returns SUCCESS.
* `config.cpp` 160, "profile_name '%s' does not name a valid profile": when
  some profile has the active name, `load` makes the last of all profiles the
  current one (155), so that with the active profile first the program works
  with another server than `redmine config profile` shows.
* `config.cpp` 192 documents "browser [<path>]" and 291 reports "using browser
  %s" after the save, but the handler assigns to the editor (288): the browser
  cannot be set, and the editor is overwritten.

Met while modelling, and modelled as the code has it: two `config editor` at
once can leave a configuration without profiles, because a load that met the
file just truncated counts as none ("We don't care if config load fails", 308);
the setup stores the answer to "Verify SSL" in `use_ssl` (175); `config new`
asks and saves nothing (252); the handlers of one setting dereference a null
profile after a load whose failure they ignore (392); `config profile` accepts a
name that no profile has (337); `config verify-ssl` prints `use_ssl` (466);
`use-ssl` and `verify-ssl` ignore a failed save (441, 464); a key that the
server no longer accepts cannot be replaced by the program, because the user is
read before any action (`redmine.cpp` 81).

Modelled with the questions and the project form: a project asked for as
"3d-engine" is also the project with id 3, and "010" the one with id 8
(`strtoul` with base 0, 96), where `project.h` 58 speaks of "either an id, name
or identifier"; a done ratio of -1 or of 2^32 + 5 is accepted, as a huge number
and as 5 (`issue.cpp` 659); `issue list` of a project whose name has 40 octets
or more aborts (250); an update of an issue that somebody moved meanwhile sends
ids of its old project (611-686); `issue new` overwrites the draft that the TODO
of 399 would keep; `project new` says "project created" after a refusal
(`project.cpp` 290); lines of the form that were swapped give their values to
each other, or cut pieces of them (227).

Met and not modelled: `project show` takes its reply for an object
(`project.cpp` 345); a project whose description is null may break
`query::projects`; an empty `url` argument (`config.cpp` 367) and the `\u`
escapes of the json reader (`json.cpp` 268) are undefined behaviour or decode to
another character; `http.cpp` lets libcurl write a `long` into a 32-bit status
(132, 153, 174); `issue show` prints the author as the assignee (577) and goes on
after an option it does not know; `issue list a b` says "invalid argument" and
lists everything (227).

## 6. What is not modelled, and the plan

Not modelled for good: the tables that lists print and the output of `issue
show`, `project show`, `user list` and `user show`, which keep and change
nothing; messages, the debug options, the vendored libcurl, the build files.
What is left of the plan, in order:

1. Proofs: how the abstract modules meet, that is, that a run which asks through
   `IssueForm` and posts through `Exchange` is a `Submission`.
2. Composition: `CurrentUser` between `ConfigSession` and `IssueDraft`, so that
   one run goes from the file to the post. At present each meets the next
   through the dispatch and through `Exchange` and `IssueForm` only.
3. `JsonText`: reader and writer over token sequences (recursive, so only for
   TLC), with the property that what is written reads back as itself, and the
   escapes, a hazard of the list that no property covers. Where the list names
   other hazards without a property, the code has the behaviour and nothing could
   be promised; each says so.
