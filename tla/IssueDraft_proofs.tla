------------------------- MODULE IssueDraft_proofs --------------------------
(***************************************************************************)
(* What a run promises about its draft and its post, for any number of     *)
(* terminals, runs, lists and texts.  Two invariants, each inductive       *)
(* with the types: RunsInv for the numbers of the runs, DraftInv for the   *)
(* text on its way from the screen to the server.                          *)
(***************************************************************************)
EXTENDS IssueDraft, TLAPS

LEMMA ElementIn ==
    ASSUME NEW S, NEW s \in Seq(S), NEW i \in DOMAIN s
    PROVE  s[i] \in S
  OBVIOUS

LEMMA BoundFacts == MaxRuns \in Nat /\ MaxChanges \in Nat
  BY IssueDraftAssumption

LEMMA TextFacts ==
    /\ Empty \in Text
    /\ \A subject \in Word \cup {Blank} : Template(subject) \in Text
    /\ Typed \subseteq Text
PROOF
  <1>1. <<>> \in Seq(Line)
    OBVIOUS
  <1>2. Empty \in Text
    BY <1>1 DEF Empty, Text
  <1>3. \A subject \in Word \cup {Blank} : Template(subject) \in Text
    BY <1>1 DEF Template, Text
  <1>4. Typed \subseteq Text
    BY IssueDraftAssumption
  <1> QED BY <1>2, <1>3, <1>4

LEMMA IdleFacts ==
    ASSUME NEW kind \in {"none", "new", "update"}, NEW n \in 0..MaxRuns,
           NEW subject \in Word \cup {Blank}
    PROVE  /\ Idle \in Job
           /\ [Idle EXCEPT !.kind = kind, !.run = n, !.subject = subject] \in Job
PROOF
  <1>1. 0 \in 0..MaxRuns
    BY BoundFacts
  <1>2. Idle \in Job
    BY <1>1, TextFacts DEF Idle, Job
  <1> QED BY <1>2 DEF Job

LEMMA TypesInitially == Init => TypeOK
PROOF
  <1> SUFFICES ASSUME Init PROVE TypeOK
    OBVIOUS
  <1>2. 0 \in 0..MaxRuns /\ 0 \in 0..MaxChanges
    BY BoundFacts
  <1>1. Idle \in Job
    BY <1>2, IdleFacts
  <1>3. <<>> \in Seq(Entry)
    OBVIOUS
  <1> QED BY <1>1, <1>2, <1>3, TextFacts DEF Init, TypeOK

LEMMA StartType ==
    ASSUME TypeOK, NEW p \in Proc, NEW kind \in {"new", "update"},
           NEW subject \in Subject \cup {Blank}, Start(p, kind, subject)
    PROVE  TypeOK'
PROOF
  <1>1. started' \in 0..MaxRuns
    BY BoundFacts DEF TypeOK, Start
  <1>2. job'[p] \in Job
    BY <1>1, IdleFacts, IssueDraftAssumption DEF TypeOK, Start
  <1> QED BY <1>1, <1>2 DEF TypeOK, Start, Goto, disk, site

LEMMA QueryListsType ==
    ASSUME TypeOK, NEW p \in Proc, NEW categories \in BOOLEAN, QueryLists(p, categories)
    PROVE  TypeOK'
PROOF
  <1>1. job'[p] \in Job
    BY DEF TypeOK, QueryLists, Job
  <1> QED BY <1>1 DEF TypeOK, QueryLists, Goto, disk, site

LEMMA OpenEditorType ==
    ASSUME TypeOK, NEW p \in Proc, OpenEditor(p)
    PROVE  TypeOK'
PROOF
  <1>1. job'[p] \in Job
    BY DEF TypeOK, OpenEditor, Job
  <1> QED BY <1>1 DEF TypeOK, OpenEditor, Goto, disk, site

LEMMA SaveTextType ==
    ASSUME TypeOK, NEW p \in Proc, NEW t \in Typed, SaveText(p, t)
    PROVE  TypeOK'
PROOF
  <1>1. t \in Text
    BY TextFacts
  <1>2. job'[p] \in Job
    BY <1>1 DEF TypeOK, SaveText, Job
  <1> QED BY <1>1, <1>2 DEF TypeOK, SaveText, WriteFile, Others, site

LEMMA ReadDraftType ==
    ASSUME TypeOK, NEW p \in Proc, ReadDraft(p)
    PROVE  TypeOK'
PROOF
  <1>1. job'[p] \in Job
    BY DEF TypeOK, ReadDraft, Job
  <1> QED BY <1>1 DEF TypeOK, ReadDraft, Goto, disk, site

LEMMA RemoveDraftType ==
    ASSUME TypeOK, NEW p \in Proc, RemoveDraft(p)
    PROVE  TypeOK'
PROOF
  <1>1. job'[p] \in Job
    BY DEF TypeOK, RemoveDraft, Job
  <1> QED BY <1>1, TextFacts
          DEF TypeOK, RemoveDraft, RemoveFile, Others, Goto, disk, site

LEMMA AnswerQuestionsType ==
    ASSUME TypeOK, NEW p \in Proc, NEW answers \in [Field -> Option \cup {0}],
           AnswerQuestions(p, answers)
    PROVE  TypeOK'
PROOF
  <1>1. job'[p] \in Job
    BY DEF TypeOK, AnswerQuestions, Job
  <1> QED BY <1>1 DEF TypeOK, AnswerQuestions, Goto, disk, site

\* The steps that leave the locals alone.
LEMMA PlainStepType ==
    ASSUME TypeOK, NEW p \in Proc,
           \/ QueryFails(p) \/ TruncateFails(p)
           \/ QuitEditor(p) \/ AbortDraft(p) \/ EndOfInput(p) \/ Kill(p)
    PROVE  TypeOK'
  BY DEF TypeOK, QueryFails, TruncateFails, QuitEditor, AbortDraft, EndOfInput,
         Kill, Goto, disk, site

LEMMA FileStepType ==
    ASSUME TypeOK, NEW p \in Proc, TruncateDraft(p) \/ WriteTemplate(p)
    PROVE  TypeOK'
PROOF
  <1>1. CASE TruncateDraft(p)
    BY <1>1, TextFacts DEF TypeOK, TruncateDraft, Others, Goto, site
  <1>2. CASE WriteTemplate(p)
    <2>1. Template(job[p].subject) \in Text
      BY TextFacts DEF TypeOK, Job
    <2> QED BY <1>2, <2>1 DEF TypeOK, WriteTemplate, WriteFile, Others, Goto, site
  <1> QED BY <1>1, <1>2

LEMMA PostType ==
    ASSUME TypeOK, NEW p \in Proc, pc[p] = "post" => job[p].run # 0,
           PostSucceeds(p) \/ PostFails(p)
    PROVE  TypeOK'
PROOF
  <1>1. job[p].run \in 0..MaxRuns
    BY DEF TypeOK, Job
  <1>2. Post(p) \in Entry
    BY DEF TypeOK, Job, Post, Entry
  <1>3. Applies(p) => accepted' \in Seq(Entry)
    BY <1>2 DEF TypeOK, Applies
  <1>4. CASE PostSucceeds(p)
    <2>1. job[p].run \in 1..MaxRuns
      BY <1>1, <1>4, BoundFacts DEF PostSucceeds, Goto
    <2> QED BY <1>3, <1>4, <2>1 DEF TypeOK, PostSucceeds, Applies, Goto, disk
  <1>5. CASE PostFails(p)
    BY <1>3, <1>5 DEF TypeOK, PostFails, Applies, Goto, disk, site
  <1> QED BY <1>4, <1>5

LEMMA WithdrawType ==
    ASSUME TypeOK, NEW f \in Field, NEW option \in Option, Withdraw(f, option)
    PROVE  TypeOK'
PROOF
  <1>1. changes' \in 0..MaxChanges
    BY BoundFacts DEF TypeOK, Withdraw
  <1> QED BY <1>1 DEF TypeOK, Withdraw, disk

-----------------------------------------------------------------------------
\* Numbers of runs: those in progress are distinct and have not posted.
Active(p) == pc[p] # "idle"
AtMostOnce ==
    \A i, j \in DOMAIN accepted : accepted[i].run = accepted[j].run => i = j
Reported == \A n \in succeeded : \E i \in DOMAIN accepted : accepted[i].run = n
RunsInv ==
    /\ \A p \in Proc : Active(p) => job[p].run \in 1..started
    /\ \A p, q \in Proc :
         Active(p) /\ Active(q) /\ job[p].run = job[q].run => p = q
    /\ \A i \in DOMAIN accepted : accepted[i].run <= started
    /\ \A p \in Proc : Active(p) =>
         \A i \in DOMAIN accepted : accepted[i].run # job[p].run
    /\ AtMostOnce
    /\ Reported

LEMMA RunsInitially == Init => RunsInv
  BY DEF Init, RunsInv, Active, AtMostOnce, Reported

LEMMA StartRuns ==
    ASSUME TypeOK, RunsInv, NEW p \in Proc, NEW kind, NEW subject,
           Start(p, kind, subject)
    PROVE  RunsInv'
PROOF
  <1>1. /\ job'[p].run = started + 1
        /\ \A q \in Proc : q # p => job'[q] = job[q]
        /\ \A q \in Proc : q # p => (Active(q)' <=> Active(q))
        /\ started' = started + 1 /\ accepted' = accepted
        /\ succeeded' = succeeded
    BY DEF TypeOK, Start, Goto, Active, Idle, site
  <1>2. started \in Nat
    BY DEF TypeOK
  <1>3. \A i \in DOMAIN accepted : accepted[i].run \in Nat
    <2>1. \A i \in DOMAIN accepted : accepted[i] \in Entry
      BY ElementIn DEF TypeOK
    <2> QED BY <2>1, BoundFacts DEF Entry
  <1>4. AtMostOnce' /\ Reported'
    BY <1>1 DEF RunsInv, AtMostOnce, Reported
  <1>5. \A q \in Proc : Active(q)' => job'[q].run \in 1..started'
    BY <1>1, <1>2 DEF RunsInv
  <1>6. \A q \in Proc \ {p} : Active(q)' => job'[q].run # job'[p].run
    BY <1>1, <1>2 DEF RunsInv
  <1>7. \A i \in DOMAIN accepted : accepted[i].run < started'
    BY <1>1, <1>2, <1>3 DEF RunsInv
  <1>8. \A q, x \in Proc :
          Active(q)' /\ Active(x)' /\ job'[q].run = job'[x].run => q = x
    BY <1>1, <1>6 DEF RunsInv
  <1>9. \A i \in DOMAIN accepted' : accepted'[i].run <= started'
    BY <1>1, <1>2, <1>3, <1>7
  <1>10. \A q \in Proc : Active(q)' =>
           \A i \in DOMAIN accepted' : accepted'[i].run # job'[q].run
    BY <1>1, <1>2, <1>3, <1>7 DEF RunsInv
  <1> QED BY <1>4, <1>5, <1>8, <1>9, <1>10 DEF RunsInv

\* Every other step starts no run, and all but the posts leave the server alone.
LEMMA OtherRuns ==
    ASSUME TypeOK, RunsInv, UNCHANGED <<accepted, started, succeeded>>,
           \A q \in Proc : job'[q].run = job[q].run,
           \A q \in Proc : Active(q)' => Active(q)
    PROVE  RunsInv'
  BY DEF RunsInv, AtMostOnce, Reported

\* A process that ends its run with a post may add it: no entry had its number.
LEMMA PostRuns ==
    ASSUME TypeOK, RunsInv, NEW p \in Proc, PostSucceeds(p) \/ PostFails(p)
    PROVE  RunsInv'
PROOF
  <1>1. /\ Active(p) /\ ~Active(p)'
        /\ \A q \in Proc : Active(q)' => Active(q) /\ q # p
        /\ job' = job /\ started' = started
    BY DEF TypeOK, PostSucceeds, PostFails, Goto, Active
  <1>2. CASE accepted' = accepted /\ succeeded' = succeeded
    BY <1>1, <1>2, OtherRuns
  <1>3. CASE /\ accepted' = Append(accepted, Post(p))
             /\ succeeded' \in {succeeded, succeeded \cup {job[p].run}}
    <2>1. /\ Len(accepted) \in Nat /\ DOMAIN accepted = 1..Len(accepted)
          /\ DOMAIN accepted' = 1..(Len(accepted) + 1)
          /\ \A i \in DOMAIN accepted : accepted'[i] = accepted[i]
          /\ accepted'[Len(accepted) + 1].run = job[p].run
      BY <1>3 DEF TypeOK, Post
    <2>2. \A i \in DOMAIN accepted' :
            i \in DOMAIN accepted \/ i = Len(accepted) + 1
      BY <2>1
    <2>3. \A i \in DOMAIN accepted : accepted[i].run # job[p].run
      BY <1>1 DEF RunsInv
    <2>4. job[p].run \in 1..started
      BY <1>1 DEF RunsInv
    <2>5. AtMostOnce'
      BY <2>1, <2>2, <2>3 DEF RunsInv, AtMostOnce
    <2>6. Reported'
      BY <1>3, <2>1 DEF RunsInv, Reported
    <2>7. \A i \in DOMAIN accepted' : accepted'[i].run <= started'
      BY <1>1, <2>1, <2>2, <2>4 DEF RunsInv, TypeOK
    <2>8. \A q \in Proc : Active(q)' =>
            \A i \in DOMAIN accepted' : accepted'[i].run # job'[q].run
      BY <1>1, <2>1, <2>2 DEF RunsInv
    <2> QED BY <1>1, <2>5, <2>6, <2>7, <2>8 DEF RunsInv
  <1> QED BY <1>2, <1>3 DEF PostSucceeds, PostFails, Applies, site

LEMMA RunsKept ==
    ASSUME TypeOK, RunsInv, [Next]_vars
    PROVE  TypeOK' /\ RunsInv'
PROOF
  <1>1. CASE UNCHANGED vars
    <2>1. TypeOK'
      BY <1>1 DEF TypeOK, vars
    <2> QED BY <1>1, <2>1, OtherRuns DEF vars, Active
  <1>2. ASSUME NEW p \in Proc, Step(p)
        PROVE  TypeOK' /\ RunsInv'
    <2>1. ASSUME NEW categories \in BOOLEAN, QueryLists(p, categories)
          PROVE  TypeOK' /\ RunsInv'
      <3>1. /\ UNCHANGED <<accepted, started, succeeded>>
            /\ \A q \in Proc : job'[q].run = job[q].run
            /\ \A q \in Proc : Active(q)' => Active(q)
        BY <2>1 DEF TypeOK, QueryLists, Goto, Active, Job, site
      <3> QED BY <2>1, <3>1, QueryListsType, OtherRuns
    <2>2. CASE \/ QueryFails(p) \/ TruncateFails(p)
               \/ QuitEditor(p) \/ AbortDraft(p)
      <3>1. /\ UNCHANGED <<accepted, started, succeeded, job>>
            /\ \A q \in Proc : Active(q)' => Active(q)
        BY <2>2 DEF TypeOK, QueryFails, TruncateFails, QuitEditor, AbortDraft,
                    Goto, Active, site
      <3> QED BY <2>2, <3>1, PlainStepType, OtherRuns
    <2>3. CASE TruncateDraft(p) \/ WriteTemplate(p)
      <3>1. /\ UNCHANGED <<accepted, started, succeeded, job>>
            /\ \A q \in Proc : Active(q)' => Active(q)
        BY <2>3 DEF TypeOK, TruncateDraft, WriteTemplate, Goto, Active, site
      <3> QED BY <2>3, <3>1, FileStepType, OtherRuns
    <2>4. CASE OpenEditor(p)
      <3>1. /\ UNCHANGED <<accepted, started, succeeded>>
            /\ \A q \in Proc : job'[q].run = job[q].run
            /\ \A q \in Proc : Active(q)' => Active(q)
        BY <2>4 DEF TypeOK, OpenEditor, Goto, Active, Job, site
      <3> QED BY <2>4, <3>1, OpenEditorType, OtherRuns
    <2>5. CASE ReadDraft(p)
      <3>1. /\ UNCHANGED <<accepted, started, succeeded>>
            /\ \A q \in Proc : job'[q].run = job[q].run
            /\ \A q \in Proc : Active(q)' => Active(q)
        BY <2>5 DEF TypeOK, ReadDraft, Goto, Active, Job, site
      <3> QED BY <2>5, <3>1, ReadDraftType, OtherRuns
    <2>6. CASE RemoveDraft(p)
      <3>1. /\ UNCHANGED <<accepted, started, succeeded>>
            /\ \A q \in Proc : job'[q].run = job[q].run
            /\ \A q \in Proc : Active(q)' => Active(q)
        BY <2>6 DEF TypeOK, RemoveDraft, Goto, Active, Job, site
      <3> QED BY <2>6, <3>1, RemoveDraftType, OtherRuns
    <2>7. ASSUME NEW answers \in [Field -> Option \cup {0}],
                 AnswerQuestions(p, answers)
          PROVE  TypeOK' /\ RunsInv'
      <3>1. /\ UNCHANGED <<accepted, started, succeeded>>
            /\ \A q \in Proc : job'[q].run = job[q].run
            /\ \A q \in Proc : Active(q)' => Active(q)
        BY <2>7 DEF TypeOK, AnswerQuestions, Goto, Active, Job, site
      <3> QED BY <2>7, <3>1, AnswerQuestionsType, OtherRuns
    <2>8. CASE PostSucceeds(p) \/ PostFails(p)
      <3>1. pc[p] = "post" => job[p].run # 0
        BY DEF RunsInv, Active, TypeOK
      <3> QED BY <2>8, <3>1, PostType, PostRuns
    <2> QED BY <1>2, <2>1, <2>2, <2>3, <2>4, <2>5, <2>6, <2>7, <2>8 DEF Step
  <1>3. ASSUME NEW p \in Proc, NEW kind \in {"new", "update"},
               NEW subject \in Subject \cup {Blank}, Start(p, kind, subject)
        PROVE  TypeOK' /\ RunsInv'
    BY <1>3, StartType, StartRuns
  <1>4. ASSUME NEW p \in Proc, NEW t \in Typed, SaveText(p, t)
        PROVE  TypeOK' /\ RunsInv'
    <2>1. /\ UNCHANGED <<accepted, started, succeeded, pc>>
          /\ \A q \in Proc : job'[q].run = job[q].run
      BY <1>4 DEF TypeOK, SaveText, Job, site
    <2> QED BY <1>4, <2>1, SaveTextType, OtherRuns DEF Active
  <1>5. ASSUME NEW p \in Proc, EndOfInput(p) \/ Kill(p)
        PROVE  TypeOK' /\ RunsInv'
    <2>1. /\ UNCHANGED <<accepted, started, succeeded, job>>
          /\ \A q \in Proc : Active(q)' => Active(q)
      BY <1>5 DEF TypeOK, EndOfInput, Kill, Goto, Active, site
    <2> QED BY <1>5, <2>1, PlainStepType, OtherRuns
  <1>6. ASSUME NEW f \in Field, NEW option \in Option, Withdraw(f, option)
        PROVE  TypeOK' /\ RunsInv'
    <2>1. UNCHANGED <<accepted, started, succeeded, job, pc>>
      BY <1>6 DEF Withdraw
    <2> QED BY <1>6, <2>1, WithdrawType, OtherRuns DEF Active
  <1> QED BY <1>1, <1>2, <1>3, <1>4, <1>5, <1>6 DEF Next, AllRunsEnded

-----------------------------------------------------------------------------
LEMMA TypesAndRuns == Spec => [](TypeOK /\ RunsInv)
  BY TypesInitially, RunsInitially, RunsKept, PTL DEF Spec

\* The type invariant.
THEOREM IssueTypeCorrect == Spec => []TypeOK
  BY TypesAndRuns, PTL

\* However many runs share the directory and the server, and whatever answer
\* is lost, no run is applied twice, and one that reports an issue has one.
THEOREM AtMostOncePerRun == Spec => []OnePostPerRun
PROOF
  <1>1. RunsInv => OnePostPerRun
    BY DEF RunsInv, AtMostOnce, Reported, OnePostPerRun
  <1> QED BY <1>1, TypesAndRuns, PTL

-----------------------------------------------------------------------------
\* The text of one process on its way from the template to the post.
Untouched(p) == p \notin touched
HasRead == {"remove", "ask", "spinning", "post"}

NotOpened(p) == pc[p] \in {"lists", "truncate", "template", "open"} =>
    ~job[p].opened /\ ~job[p].saved /\ ~job[p].removed
Opened(p) == pc[p] \in {"editing", "read"} => job[p].opened /\ ~job[p].removed
Kept(p) == job[p].opened /\ ~job[p].removed /\ Untouched(p) =>
    text = job[p].shown /\ (job[p].saved => exists)
Held(p) == pc[p] = "remove" /\ Untouched(p) => text = job[p].draft
ReadClean(p) == pc[p] \in HasRead /\ job[p].clean => job[p].draft = job[p].shown

DraftOK(p) == NotOpened(p) /\ Opened(p) /\ Kept(p) /\ Held(p) /\ ReadClean(p)

PostsOK ==
    \A i \in DOMAIN accepted :
      accepted[i].clean => accepted[i].draft = accepted[i].shown

DraftInv == (\A p \in Proc : DraftOK(p)) /\ PostsOK

LEMMA DraftInitially == Init => DraftInv
  BY DEF Init, DraftInv, DraftOK, NotOpened, Opened, Kept, Held,
         ReadClean, PostsOK, Idle, HasRead

\* A step of another process leaves the file alone or is seen to touch it.
LEMMA OtherKeeps ==
    ASSUME NEW q \in Proc, DraftOK(q), pc'[q] = pc[q], job'[q] = job[q],
           q \notin touched' => q \notin touched /\ UNCHANGED <<text, exists>>
    PROVE  DraftOK(q)'
  BY DEF DraftOK, NotOpened, Opened, Kept, Held, ReadClean,
         Untouched

\* What a step of p leaves of the others and of the server.
LEMMA StepFrame ==
    ASSUME TypeOK, DraftInv, NEW p \in Proc, accepted' = accepted,
           \A q \in Proc \ {p} : pc'[q] = pc[q] /\ job'[q] = job[q],
           \A q \in Proc \ {p} : q \notin touched' =>
             q \notin touched /\ UNCHANGED <<text, exists>>,
           DraftOK(p)'
    PROVE  DraftInv'
PROOF
  <1>1. \A q \in Proc \ {p} : DraftOK(q)'
    BY OtherKeeps DEF DraftInv
  <1>2. PostsOK'
    BY DEF DraftInv, PostsOK
  <1> QED BY <1>1, <1>2 DEF DraftInv

LEMMA StartDraft ==
    ASSUME TypeOK, DraftInv, NEW p \in Proc, NEW kind, NEW subject,
           Start(p, kind, subject)
    PROVE  DraftInv'
PROOF
  <1>1. /\ pc'[p] = "lists" /\ ~job'[p].opened /\ ~job'[p].saved
        /\ ~job'[p].removed
    BY DEF TypeOK, Start, Goto, Idle
  <1>2. DraftOK(p)'
    BY <1>1 DEF DraftOK, NotOpened, Opened, Kept, Held, ReadClean,
                HasRead
  <1> QED BY <1>2, StepFrame DEF TypeOK, Start, Goto, disk, site

\* Leaving a run, or going on to a question, changes nothing of the text.
LEMMA LeaveDraft ==
    ASSUME TypeOK, DraftInv, NEW p \in Proc, UNCHANGED <<disk, job, accepted>>,
           \/ pc' = [pc EXCEPT ![p] = "idle"]
           \/ pc[p] = "editing" /\ pc' = [pc EXCEPT ![p] = "read"]
           \/ pc[p] = "ask" /\ pc' = [pc EXCEPT ![p] = "spinning"]
    PROVE  DraftInv'
PROOF
  <1>1. pc'[p] \in {"idle", "read", "spinning"}
    BY DEF TypeOK
  <1>2. DraftOK(p)'
    BY <1>1 DEF TypeOK, DraftInv, DraftOK, NotOpened, Opened, Kept, Held, ReadClean, HasRead, Untouched, disk
  <1> QED BY <1>2, StepFrame DEF TypeOK, disk

LEMMA QueryListsDraft ==
    ASSUME TypeOK, DraftInv, NEW p \in Proc, NEW categories, QueryLists(p, categories)
    PROVE  DraftInv'
PROOF
  <1>1. /\ pc'[p] \in {"truncate", "open"}
        /\ pc'[p] = "open" => job'[p].kind # "new"
        /\ ~job'[p].opened /\ ~job'[p].saved /\ ~job'[p].removed
    BY DEF TypeOK, DraftInv, DraftOK, NotOpened, QueryLists, Goto, Job
  <1>2. DraftOK(p)'
    BY <1>1 DEF DraftOK, NotOpened, Opened, Kept, Held, ReadClean,
                HasRead
  <1> QED BY <1>2, StepFrame DEF TypeOK, QueryLists, Goto, disk, site

LEMMA TruncateDraftDraft ==
    ASSUME TypeOK, DraftInv, NEW p \in Proc, TruncateDraft(p)
    PROVE  DraftInv'
PROOF
  <1>1. pc'[p] = "template" /\ job' = job
    BY DEF TypeOK, TruncateDraft, Goto
  <1>2. DraftOK(p)'
    BY <1>1 DEF DraftInv, DraftOK, NotOpened, Opened, Kept, Held,
                ReadClean, HasRead, TruncateDraft, Goto
  <1> QED BY <1>2, StepFrame DEF TypeOK, TruncateDraft, Goto, Others, site

LEMMA WriteTemplateDraft ==
    ASSUME TypeOK, DraftInv, NEW p \in Proc, WriteTemplate(p)
    PROVE  DraftInv'
PROOF
  <1>1. pc'[p] = "open" /\ job' = job /\ text' = Template(job[p].subject)
    BY DEF TypeOK, WriteTemplate, WriteFile, Goto
  <1>2. DraftOK(p)'
    BY <1>1 DEF DraftInv, DraftOK, NotOpened, Opened, Kept, Held,
                ReadClean, HasRead, WriteTemplate, Goto
  <1> QED BY <1>2, StepFrame
          DEF TypeOK, WriteTemplate, WriteFile, Goto, Others, site

LEMMA OpenEditorDraft ==
    ASSUME TypeOK, DraftInv, NEW p \in Proc, OpenEditor(p)
    PROVE  DraftInv'
PROOF
  <1>1. /\ pc'[p] = "editing" /\ UNCHANGED <<text, exists, accepted>>
        /\ job'[p].shown = text /\ job'[p].opened
        /\ job'[p].saved = job[p].saved /\ job'[p].removed = job[p].removed
        /\ job'[p].kind = job[p].kind /\ job'[p].subject = job[p].subject
    BY DEF TypeOK, OpenEditor, Goto, Job, site
  <1>2. ~job[p].saved /\ ~job[p].removed
    BY DEF DraftInv, DraftOK, NotOpened, OpenEditor, Goto
  <1>4. DraftOK(p)'
    BY <1>1, <1>2
       DEF DraftOK, NotOpened, Opened, Kept, Held, ReadClean,
           HasRead, Untouched
  <1> QED BY <1>1, <1>4, StepFrame DEF TypeOK, OpenEditor, Goto

LEMMA SaveTextDraft ==
    ASSUME TypeOK, DraftInv, NEW p \in Proc, NEW t, SaveText(p, t)
    PROVE  DraftInv'
PROOF
  <1>1. /\ pc' = pc /\ pc[p] = "editing" /\ text' = t /\ exists'
        /\ job'[p].shown = t /\ job'[p].saved /\ accepted' = accepted
        /\ job'[p].opened = job[p].opened /\ job'[p].removed = job[p].removed
    BY DEF TypeOK, SaveText, WriteFile, Job, site
  <1>2. DraftOK(p)'
    BY <1>1 DEF DraftInv, DraftOK, NotOpened, Opened, Kept, Held,
                ReadClean, HasRead
  <1> QED BY <1>1, <1>2, StepFrame DEF TypeOK, SaveText, WriteFile, Others

LEMMA ReadDraftDraft ==
    ASSUME TypeOK, DraftInv, NEW p \in Proc, ReadDraft(p)
    PROVE  DraftInv'
PROOF
  <1>1. /\ pc[p] = "read" /\ pc'[p] = "remove" /\ UNCHANGED <<disk, accepted>>
        /\ job'[p].draft = text /\ (job'[p].clean <=> Untouched(p))
        /\ job'[p].shown = job[p].shown /\ job'[p].saved = job[p].saved
        /\ job'[p].opened = job[p].opened /\ job'[p].removed = job[p].removed
        /\ job'[p].kind = job[p].kind /\ job'[p].subject = job[p].subject
    BY DEF TypeOK, ReadDraft, Goto, Job, site, Untouched
  <1>2. /\ job[p].opened /\ ~job[p].removed
        /\ Untouched(p) => text = job[p].shown /\ (job[p].saved => exists)
    BY <1>1 DEF DraftInv, DraftOK, Opened, Kept
  <1>3. DraftOK(p)'
    BY <1>1, <1>2 DEF DraftOK, NotOpened, Opened, Kept, Held,
                      ReadClean, HasRead, Untouched, disk
  <1> QED BY <1>1, <1>3, StepFrame DEF TypeOK, ReadDraft, Goto, disk

LEMMA RemoveDraftDraft ==
    ASSUME TypeOK, DraftInv, NEW p \in Proc, RemoveDraft(p)
    PROVE  DraftInv'
PROOF
  <1>1. /\ pc[p] = "remove" /\ pc'[p] = "ask" /\ accepted' = accepted
        /\ job'[p].removed /\ job'[p].draft = job[p].draft
        /\ job'[p].clean = job[p].clean
        /\ job'[p].shown = job[p].shown /\ job'[p].saved = job[p].saved
        /\ job'[p].kind = job[p].kind /\ job'[p].subject = job[p].subject
    BY DEF TypeOK, RemoveDraft, Goto, Job, site
  <1>2. DraftOK(p)'
    BY <1>1 DEF DraftInv, DraftOK, NotOpened, Opened, Kept, Held,
                ReadClean, HasRead
  <1>3. \A q \in Proc \ {p} : q \notin touched' =>
          q \notin touched /\ UNCHANGED <<text, exists>>
    BY DEF RemoveDraft, RemoveFile, Others, disk
  <1> QED BY <1>1, <1>2, <1>3, StepFrame DEF TypeOK, RemoveDraft, Goto

LEMMA AnswerQuestionsDraft ==
    ASSUME TypeOK, DraftInv, NEW p \in Proc, NEW answers, AnswerQuestions(p, answers)
    PROVE  DraftInv'
PROOF
  <1>1. /\ pc[p] = "ask" /\ pc'[p] = "post" /\ UNCHANGED <<disk, accepted>>
        /\ job'[p].removed = job[p].removed /\ job'[p].draft = job[p].draft
        /\ job'[p].clean = job[p].clean /\ job'[p].opened = job[p].opened
        /\ job'[p].shown = job[p].shown /\ job'[p].saved = job[p].saved
        /\ job'[p].kind = job[p].kind /\ job'[p].subject = job[p].subject
    BY DEF TypeOK, AnswerQuestions, Goto, Job, site
  <1>2. DraftOK(p)'
    BY <1>1 DEF DraftInv, DraftOK, NotOpened, Opened, Kept, Held,
                ReadClean, HasRead, Untouched, disk
  <1> QED BY <1>1, <1>2, StepFrame DEF TypeOK, AnswerQuestions, Goto, disk

LEMMA PostDraft ==
    ASSUME TypeOK, DraftInv, NEW p \in Proc, PostSucceeds(p) \/ PostFails(p)
    PROVE  DraftInv'
PROOF
  <1>1. /\ pc[p] = "post" /\ pc' = [pc EXCEPT ![p] = "idle"]
        /\ UNCHANGED <<disk, job>>
    BY DEF PostSucceeds, PostFails, Goto
  <1>2. \A q \in Proc : DraftOK(q)'
    BY <1>1 DEF TypeOK, DraftInv, DraftOK, NotOpened, Opened, Kept, Held, ReadClean, HasRead, Untouched, disk
  <1>3. CASE accepted' = accepted
    BY <1>2, <1>3 DEF DraftInv, PostsOK
  <1>4. CASE accepted' = Append(accepted, Post(p))
    <2>1. /\ DOMAIN accepted' = 1..(Len(accepted) + 1)
          /\ \A i \in DOMAIN accepted : accepted'[i] = accepted[i]
          /\ accepted'[Len(accepted) + 1] = Post(p)
          /\ DOMAIN accepted = 1..Len(accepted) /\ Len(accepted) \in Nat
      BY <1>4 DEF TypeOK
    <2>2. Post(p).clean => Post(p).draft = Post(p).shown
      BY <1>1 DEF DraftInv, DraftOK, ReadClean, HasRead, Post
    <2>3. PostsOK'
      BY <2>1, <2>2 DEF DraftInv, PostsOK
    <2> QED BY <1>2, <2>3 DEF DraftInv
  <1> QED BY <1>3, <1>4 DEF PostSucceeds, PostFails, Applies, site

LEMMA DraftKept ==
    ASSUME TypeOK, DraftInv, [Next]_vars
    PROVE  DraftInv'
PROOF
  <1>1. ASSUME UNCHANGED <<disk, job, pc, accepted>>
        PROVE  DraftInv'
    <2>1. \A q \in Proc : DraftOK(q)'
      BY <1>1, OtherKeeps DEF DraftInv, disk
    <2> QED BY <1>1, <2>1 DEF DraftInv, PostsOK
  <1>2. ASSUME NEW p \in Proc, Step(p)
        PROVE  DraftInv'
    <2>1. CASE \/ QueryFails(p) \/ TruncateFails(p) \/ QuitEditor(p)
               \/ AbortDraft(p)
      BY <2>1, LeaveDraft
         DEF QueryFails, TruncateFails, QuitEditor, AbortDraft, Goto, site
    <2> QED BY <1>2, <2>1, QueryListsDraft, TruncateDraftDraft,
               WriteTemplateDraft, OpenEditorDraft, ReadDraftDraft,
               RemoveDraftDraft, AnswerQuestionsDraft, PostDraft DEF Step
  <1>3. ASSUME NEW p \in Proc, EndOfInput(p) \/ Kill(p)
        PROVE  DraftInv'
    BY <1>3, LeaveDraft DEF EndOfInput, Kill, Goto, site
  <1>4. CASE \E f \in Field, option \in Option : Withdraw(f, option)
    BY <1>4, <1>1 DEF Withdraw
  <1>5. CASE UNCHANGED vars
    BY <1>5, <1>1 DEF vars, disk
  <1> QED BY <1>2, <1>3, <1>4, <1>5, StartDraft, SaveTextDraft
          DEF Next, AllRunsEnded

LEMMA Drafts == Spec => [](TypeOK /\ RunsInv /\ DraftInv)
  BY TypesInitially, RunsInitially, RunsKept, DraftInitially, DraftKept, PTL
     DEF Spec

\* Undisturbed, a run posts the text the user last had on the screen.
THEOREM ShownIsPosted == Spec => []PostsWhatWasShown
PROOF
  <1>1. DraftInv => PostsWhatWasShown
    BY DEF DraftInv, PostsOK, PostsWhatWasShown, NewIssue, Description
  <1> QED BY <1>1, Drafts, PTL

\* The text in issue.redmine changes by its user's hand, by an issue new that
\* overwrites it (issue.cpp 400), or by the rm of a run that has read it (449,
\* 642), for any number of terminals: no other step of a run touches it.
THEOREM TextGoesOnceRead == Spec => RemovedOnceRead
PROOF
  <1> DEFINE Owned(p) ==
        \/ pc[p] = "editing" /\ pc' = pc /\ text' = job'[p].shown
        \/ /\ pc[p] \in {"truncate", "template"} /\ pc'[p] # pc[p]
           /\ job[p].kind = "new"
        \/ /\ pc[p] = "remove" /\ pc'[p] = "ask"
           /\ p \in touched \/ text = job[p].draft
  <1>1. ASSUME TypeOK, DraftInv, [Next]_vars, text' # text
        PROVE  \E p \in Proc : Owned(p)
    <2>1. ASSUME NEW p \in Proc, TruncateDraft(p) \/ WriteTemplate(p)
          PROVE  Owned(p)
      <3>1. pc[p] \in {"truncate", "template"} /\ pc'[p] \in {"template", "open"}
            /\ pc'[p] # pc[p]
        BY <1>1, <2>1 DEF TypeOK, TruncateDraft, WriteTemplate, Goto
      <3>2. job[p].kind = "new"
        BY <1>1, <3>1 DEF TypeOK
      <3> QED BY <3>1, <3>2
    <2>2. ASSUME NEW p \in Proc, NEW t \in Typed, SaveText(p, t)
          PROVE  Owned(p)
      <3>1. pc[p] = "editing" /\ pc' = pc /\ text' = t
        BY <2>2 DEF SaveText, WriteFile
      <3>2. job'[p].shown = t
        BY <1>1, <2>2 DEF TypeOK, SaveText, Job
      <3> QED BY <3>1, <3>2
    <2>3. ASSUME NEW p \in Proc, RemoveDraft(p)
          PROVE  Owned(p)
      <3>1. pc[p] = "remove" /\ pc'[p] = "ask"
        BY <1>1, <2>3 DEF TypeOK, RemoveDraft, Goto
      <3>2. p \in touched \/ text = job[p].draft
        BY <1>1, <3>1 DEF DraftInv, DraftOK, Held, Untouched
      <3> QED BY <3>1, <3>2
    <2>4. ASSUME NEW p \in Proc, Step(p)
          PROVE  TruncateDraft(p) \/ WriteTemplate(p) \/ RemoveDraft(p)
      BY <1>1, <2>4 DEF Step, QueryLists, QueryFails, TruncateFails, OpenEditor,
                        QuitEditor, ReadDraft, AbortDraft, AnswerQuestions,
                        PostSucceeds, PostFails, disk
    <2>5. ASSUME NEW p \in Proc, NEW kind, NEW subject,
                 Start(p, kind, subject) \/ EndOfInput(p) \/ Kill(p)
          PROVE  FALSE
      BY <1>1, <2>5 DEF Start, EndOfInput, Kill, disk
    <2>6. ASSUME NEW f, NEW option, Withdraw(f, option)
          PROVE  FALSE
      BY <1>1, <2>6 DEF Withdraw, disk
    <2>7. ~UNCHANGED vars
      BY <1>1 DEF vars
    <2> HIDE DEF Owned
    <2> QED BY <1>1, <2>1, <2>2, <2>3, <2>4, <2>5, <2>6, <2>7
            DEF Next, AllRunsEnded
  <1>2. TypeOK /\ DraftInv /\ [Next]_vars =>
          [text' # text => \E p \in Proc : Owned(p)]_vars
    BY <1>1
  <1>3. Spec => []TypeOK /\ []DraftInv
    BY Drafts, PTL
  <1> QED BY <1>2, <1>3, PTL DEF Spec, RemovedOnceRead

\* Undisturbed, a run that ends before it removed the file leaves the text.
THEOREM TextSurvives == Spec => []DraftIsKept
PROOF
  <1>1. DraftInv => DraftIsKept
    BY DEF DraftInv, DraftOK, Kept, Untouched, DraftIsKept
  <1> QED BY <1>1, Drafts, PTL

-----------------------------------------------------------------------------
(***************************************************************************)
(* A run is a submission.  A step of p changes what Submission sees of p   *)
(* alone: Moves says so, and each action is then placed by the phases it   *)
(* leads from and to.                                                      *)
(***************************************************************************)
Moves(p) == \A q \in Proc \ {p} : pc'[q] = pc[q] /\ job'[q] = job[q]

LEMMA Seen ==
    ASSUME NEW p \in Proc
    PROVE  /\ pc[p] = "idle" => Phase[p] = "idle" /\ Run[p] = 0 /\ Content[p] = Empty
           /\ pc[p] # "idle" => Run[p] = job[p].run
           /\ pc[p] \in HasRead => Phase[p] = "settled" /\ Content[p] = job[p].draft
           /\ pc[p] # "idle" /\ pc[p] \notin HasRead =>
                Phase[p] = "writing" /\ Content[p] = job[p].shown
  BY DEF Phase, Run, Content, HasRead

LEMMA SeenNext ==
    ASSUME NEW p \in Proc
    PROVE  /\ pc'[p] = "idle" => Phase'[p] = "idle" /\ Run'[p] = 0 /\ Content'[p] = Empty
           /\ pc'[p] # "idle" => Run'[p] = job'[p].run
           /\ pc'[p] \in HasRead => Phase'[p] = "settled" /\ Content'[p] = job'[p].draft
           /\ pc'[p] # "idle" /\ pc'[p] \notin HasRead =>
                Phase'[p] = "writing" /\ Content'[p] = job'[p].shown
  BY DEF Phase, Run, Content, HasRead

LEMMA Becomes ==
    ASSUME NEW p \in Proc, Moves(p), NEW ph, NEW n, NEW c,
           Phase'[p] = ph, Run'[p] = n, Content'[p] = c
    PROVE  Submit!Become(p, ph, n, c)
PROOF
  <1>1. \A q \in Proc \ {p} :
          Phase'[q] = Phase[q] /\ Run'[q] = Run[q] /\ Content'[q] = Content[q]
    <2>1. \A q \in Proc \ {p} : Phase'[q] = Phase[q]
      BY DEF Moves, Phase
    <2> QED BY <2>1 DEF Moves, Run, Content
  <1>2. Phase' = [Phase EXCEPT ![p] = ph]
    BY <1>1 DEF Phase
  <1>3. Run' = [Run EXCEPT ![p] = n]
    BY <1>1 DEF Run
  <1>4. Content' = [Content EXCEPT ![p] = c]
    BY <1>1 DEF Content
  <1> QED BY <1>2, <1>3, <1>4 DEF Submit!Become

LEMMA StartBegins ==
    ASSUME TypeOK, NEW p \in Proc, NEW kind, NEW subject, Start(p, kind, subject)
    PROVE  Submit!Begin(p)
PROOF
  <1>1. /\ pc[p] = "idle" /\ pc'[p] = "lists" /\ Moves(p)
        /\ job'[p].run = started' /\ job'[p].shown = Empty
        /\ started' = started + 1
        /\ UNCHANGED <<touched, accepted, succeeded>>
    BY DEF TypeOK, Start, Goto, Moves, Idle, disk, site
  <1>2. Phase[p] = "idle"
    BY <1>1, Seen
  <1>3. Phase'[p] = "writing" /\ Run'[p] = started' /\ Content'[p] = Empty
    BY <1>1, SeenNext DEF HasRead
  <1>4. Submit!Become(p, "writing", started', Empty)
    BY <1>1, <1>3, Becomes
  <1>5. Filed' = Filed
    BY <1>1 DEF Filed
  <1> QED BY <1>1, <1>2, <1>4, <1>5 DEF Submit!Begin

\* A step from one writing position to another.
LEMMA WritingShows ==
    ASSUME TypeOK, TypeOK', NEW p \in Proc, Moves(p),
           UNCHANGED <<started, accepted, succeeded>>,
           pc[p] # "idle", pc[p] \notin HasRead,
           pc'[p] # "idle", pc'[p] \notin HasRead,
           job'[p].run = job[p].run,
           Submit!Disturb(p)
    PROVE  Submit!Show(p)
PROOF
  <1>1. Phase[p] = "writing" /\ Run[p] = job[p].run
    BY Seen
  <1>2. Phase'[p] = "writing" /\ Run'[p] = Run[p] /\ Content'[p] = job'[p].shown
    BY <1>1, SeenNext
  <1>3. job'[p].shown \in Text
    BY DEF TypeOK, Job
  <1>4. Submit!Become(p, "writing", Run[p], Content'[p])
    BY <1>2, Becomes
  <1>5. Filed' = Filed
    BY DEF Filed
  <1> QED BY <1>1, <1>2, <1>3, <1>4, <1>5 DEF Submit!Show

LEMMA ReadSettles ==
    ASSUME TypeOK, TypeOK', DraftInv, NEW p \in Proc, ReadDraft(p)
    PROVE  Submit!Settle(p)
PROOF
  <1>1. /\ pc[p] = "read" /\ pc'[p] = "remove" /\ Moves(p)
        /\ job'[p].run = job[p].run /\ job'[p].draft = text
        /\ UNCHANGED <<started, touched, accepted, succeeded>>
    BY DEF TypeOK, ReadDraft, Goto, Moves, Job, disk, site
  <1>2. p \notin touched => text = job[p].shown
    BY <1>1 DEF DraftInv, DraftOK, Opened, Kept, Untouched
  <1>3. Phase[p] = "writing" /\ Run[p] = job[p].run /\ Content[p] = job[p].shown
    BY <1>1, Seen DEF HasRead
  <1>4. Phase'[p] = "settled" /\ Run'[p] = Run[p] /\ Content'[p] = text
    BY <1>1, <1>3, SeenNext DEF HasRead
  <1>5. text \in Text
    BY DEF TypeOK
  <1>6. Submit!Become(p, "settled", Run[p], Content'[p])
    BY <1>1, <1>4, Becomes
  <1>7. Filed' = Filed
    BY <1>1 DEF Filed
  <1> QED BY <1>1, <1>2, <1>3, <1>4, <1>5, <1>6, <1>7 DEF Submit!Settle

LEMMA SettledTidies ==
    ASSUME TypeOK, NEW p \in Proc, Moves(p),
           UNCHANGED <<started, accepted, succeeded>>,
           pc[p] \in HasRead, pc'[p] \in HasRead,
           job'[p].run = job[p].run, job'[p].draft = job[p].draft,
           Submit!Disturb(p)
    PROVE  Submit!Tidy(p)
PROOF
  <1>1. /\ Phase[p] = "settled" /\ Run[p] = job[p].run
        /\ Content[p] = job[p].draft
    BY Seen DEF HasRead
  <1>2. Phase'[p] = Phase[p] /\ Run'[p] = Run[p] /\ Content'[p] = Content[p]
    BY <1>1, SeenNext DEF HasRead
  <1>3. Submit!Become(p, Phase[p], Run[p], Content[p])
    BY <1>2, Becomes
  <1>4. UNCHANGED <<Phase, Run, Content>>
    BY <1>3 DEF Submit!Become, Phase, Run, Content
  <1>5. Filed' = Filed
    BY DEF Filed
  <1> QED BY <1>1, <1>4, <1>5 DEF Submit!Tidy, Submit!work

LEMMA EndGivesUp ==
    ASSUME TypeOK, NEW p \in Proc, pc[p] # "idle",
           pc' = [pc EXCEPT ![p] = "idle"],
           UNCHANGED <<job, started, touched, accepted, succeeded>>
    PROVE  Submit!GiveUp(p)
PROOF
  <1>1. pc'[p] = "idle" /\ Moves(p)
    BY DEF TypeOK, Moves
  <1>2. Phase[p] # "idle"
    BY Seen
  <1>3. Submit!Become(p, "idle", 0, Empty)
    BY <1>1, SeenNext, Becomes
  <1>4. Filed' = Filed
    BY DEF Filed
  <1> QED BY <1>2, <1>3, <1>4 DEF Submit!GiveUp

LEMMA FiledGrows ==
    ASSUME TypeOK, NEW p \in Proc, accepted' = Append(accepted, Post(p))
    PROVE  Filed' = Append(Filed, [run |-> job[p].run, content |-> job[p].draft])
PROOF
  <1> DEFINE E == [run |-> job[p].run, content |-> job[p].draft]
             n == Len(accepted)
             R == [run : {accepted[i].run : i \in 1..n},
                   content : {accepted[i].draft : i \in 1..n}]
  <1>1. /\ n \in Nat /\ DOMAIN accepted = 1..n /\ DOMAIN accepted' = 1..(n + 1)
        /\ \A i \in 1..n : accepted'[i] = accepted[i]
        /\ accepted'[n + 1] = Post(p)
    BY DEF TypeOK
  <1>2. Filed = [i \in 1..n |-> [run |-> accepted[i].run, content |-> accepted[i].draft]]
    BY <1>1 DEF Filed
  <1>3. Filed \in Seq(R) /\ Len(Filed) = n
    BY <1>1, <1>2
  <1>4. Append(Filed, E) = [i \in 1..(n + 1) |-> IF i = n + 1 THEN E ELSE Filed[i]]
    BY <1>1, <1>3
  <1>5. Filed' = [i \in 1..(n + 1) |->
                    [run |-> accepted'[i].run, content |-> accepted'[i].draft]]
    BY <1>1 DEF Filed
  <1>6. [run |-> Post(p).run, content |-> Post(p).draft] = E
    BY DEF Post
  <1>7. \A i \in 1..(n + 1) :
          [run |-> accepted'[i].run, content |-> accepted'[i].draft]
            = IF i = n + 1 THEN E ELSE Filed[i]
    BY <1>1, <1>2, <1>6
  <1> HIDE DEF E, n
  <1>8. Filed' = Append(Filed, E)
    BY <1>4, <1>5, <1>7
  <1> QED BY <1>8 DEF E

LEMMA PostFiles ==
    ASSUME TypeOK, NEW p \in Proc, PostSucceeds(p) \/ PostFails(p),
           accepted' = Append(accepted, Post(p))
    PROVE  Submit!File(p)
PROOF
  <1>1. /\ pc[p] = "post" /\ pc'[p] = "idle" /\ Moves(p)
        /\ succeeded' \in {succeeded, succeeded \cup {job[p].run}}
        /\ UNCHANGED <<started, touched>>
    BY DEF TypeOK, PostSucceeds, PostFails, Goto, Moves, disk
  <1>2. /\ Phase[p] = "settled" /\ Run[p] = job[p].run
        /\ Content[p] = job[p].draft
    BY <1>1, Seen DEF HasRead
  <1>3. Submit!Become(p, "idle", 0, Empty)
    BY <1>1, SeenNext, Becomes
  <1>4. Filed' = Append(Filed, [run |-> Run[p], content |-> Content[p]])
    BY <1>2, FiledGrows
  <1> QED BY <1>1, <1>2, <1>3, <1>4 DEF Submit!File

LEMMA InitialSubmission == Init => Submit!Init
PROOF
  <1> SUFFICES ASSUME Init PROVE Submit!Init
    OBVIOUS
  <1>1. /\ Phase = [p \in Proc |-> "idle"] /\ Run = [p \in Proc |-> 0]
        /\ Content = [p \in Proc |-> Empty]
    BY DEF Init, Phase, Run, Content
  <1>2. Filed = <<>>
    BY DEF Init, Filed
  <1> QED BY <1>1, <1>2 DEF Init, Submit!Init

\* What a step writes into the file disturbs the others only.
LEMMA OnlyOthers ==
    ASSUME TypeOK, NEW p \in Proc,
           \/ UNCHANGED touched
           \/ touched' = touched \cup Others(p)
           \/ touched' = Others(p)
           \/ touched' = touched \ {p}
    PROVE  Submit!Disturb(p)
  BY DEF TypeOK, Others, Submit!Disturb

LEMMA StepSubmits ==
    ASSUME TypeOK, TypeOK', DraftInv, NEW p \in Proc, Step(p)
    PROVE  Submit!Next
PROOF
  <1>1. CASE \/ QueryFails(p) \/ TruncateFails(p) \/ AbortDraft(p)
             \/ (QuitEditor(p) /\ Goto(p, "editing", "idle"))
    <2>1. Submit!GiveUp(p)
      BY <1>1, EndGivesUp
         DEF QueryFails, TruncateFails, AbortDraft, QuitEditor, Goto, disk, site
    <2> QED BY <2>1 DEF Submit!Next
  <1>2. CASE \/ \E categories \in BOOLEAN : QueryLists(p, categories)
             \/ TruncateDraft(p) \/ WriteTemplate(p) \/ OpenEditor(p)
             \/ (QuitEditor(p) /\ Goto(p, "editing", "read"))
    <2>1. /\ pc[p] \in {"lists", "truncate", "template", "open", "editing"}
          /\ pc'[p] \in {"truncate", "template", "open", "editing", "read"}
          /\ UNCHANGED <<started, accepted, succeeded>>
      BY <1>2 DEF TypeOK, QueryLists, TruncateDraft, WriteTemplate, OpenEditor,
                  QuitEditor, Goto, disk, site
    <2>2. Moves(p) /\ job'[p].run = job[p].run
      BY <1>2 DEF TypeOK, QueryLists, TruncateDraft, WriteTemplate, OpenEditor,
                  QuitEditor, Goto, Job, Moves
    <2>3. Submit!Disturb(p)
      BY <1>2, OnlyOthers DEF QueryLists, TruncateDraft, WriteTemplate, WriteFile,
                              OpenEditor, QuitEditor, disk
    <2>4. Submit!Show(p)
      BY <2>1, <2>2, <2>3, WritingShows DEF HasRead
    <2> QED BY <2>4 DEF Submit!Next
  <1>3. CASE ReadDraft(p)
    BY <1>3, ReadSettles DEF Submit!Next
  <1>4. CASE \/ RemoveDraft(p)
             \/ \E answers \in [Field -> Option \cup {0}] : AnswerQuestions(p, answers)
    <2>1. /\ pc[p] \in {"remove", "ask"} /\ pc'[p] \in {"ask", "post"}
          /\ UNCHANGED <<started, accepted, succeeded>>
      BY <1>4 DEF TypeOK, RemoveDraft, AnswerQuestions, Goto, site
    <2>2. /\ Moves(p)
          /\ job'[p].run = job[p].run /\ job'[p].draft = job[p].draft
      BY <1>4 DEF TypeOK, RemoveDraft, AnswerQuestions, Goto, Job, Moves
    <2>3. Submit!Disturb(p)
      BY <1>4, OnlyOthers DEF RemoveDraft, RemoveFile, AnswerQuestions, disk
    <2>4. Submit!Tidy(p)
      BY <2>1, <2>2, <2>3, SettledTidies DEF HasRead
    <2> QED BY <2>4 DEF Submit!Next
  <1>5. CASE PostSucceeds(p) \/ PostFails(p)
    <2>1. CASE accepted' = Append(accepted, Post(p))
      BY <1>5, <2>1, PostFiles DEF Submit!Next
    <2>2. CASE PostFails(p) /\ UNCHANGED site
      <3>1. Submit!GiveUp(p)
        BY <2>2, EndGivesUp DEF PostFails, Goto, disk, site
      <3> QED BY <3>1 DEF Submit!Next
    <2> QED BY <1>5, <2>1, <2>2 DEF PostSucceeds, PostFails, Applies
  <1> QED BY <1>1, <1>2, <1>3, <1>4, <1>5 DEF Step, QuitEditor

LEMMA NextSubmits ==
    ASSUME TypeOK, TypeOK', DraftInv, [Next]_vars
    PROVE  [Submit!Next]_Submit!subvars
PROOF
  <1>1. ASSUME UNCHANGED <<pc, job, started, touched, accepted, succeeded>>
        PROVE  UNCHANGED Submit!subvars
    BY <1>1 DEF Phase, Run, Content, Filed, Submit!subvars
  <1>2. ASSUME NEW p \in Proc, NEW kind, NEW subject, Start(p, kind, subject)
        PROVE  Submit!Next
    BY <1>2, StartBegins DEF Submit!Next
  <1>3. ASSUME NEW p \in Proc, NEW t \in Typed, SaveText(p, t)
        PROVE  Submit!Next
    <2>1. /\ pc[p] = "editing" /\ pc' = pc /\ Moves(p)
          /\ job'[p].run = job[p].run
          /\ UNCHANGED <<started, accepted, succeeded>>
      BY <1>3 DEF TypeOK, SaveText, Job, Moves, site
    <2>2. Submit!Disturb(p)
      BY <1>3, OnlyOthers DEF SaveText, WriteFile
    <2>3. Submit!Show(p)
      BY <2>1, <2>2, WritingShows DEF HasRead
    <2> QED BY <2>3 DEF Submit!Next
  <1>4. ASSUME NEW p \in Proc, EndOfInput(p)
        PROVE  Submit!Next
    <2>1. /\ pc[p] = "ask" /\ pc'[p] = "spinning" /\ Moves(p)
          /\ UNCHANGED <<job, started, accepted, succeeded, touched>>
      BY <1>4 DEF TypeOK, EndOfInput, Goto, Moves, disk, site
    <2>2. Submit!Disturb(p)
      BY <2>1, OnlyOthers
    <2>3. Submit!Tidy(p)
      BY <2>1, <2>2, SettledTidies DEF HasRead
    <2> QED BY <2>3 DEF Submit!Next
  <1>5. ASSUME NEW p \in Proc, Kill(p)
        PROVE  Submit!Next
    <2>1. Submit!GiveUp(p)
      BY <1>5, EndGivesUp DEF Kill, disk, site
    <2> QED BY <2>1 DEF Submit!Next
  <1>6. CASE \E f \in Field, option \in Option : Withdraw(f, option)
    BY <1>6, <1>1 DEF Withdraw, disk
  <1>7. CASE UNCHANGED vars
    BY <1>7, <1>1 DEF vars
  <1> QED BY <1>2, <1>3, <1>4, <1>5, <1>6, <1>7, StepSubmits DEF Next, AllRunsEnded

\* Every run of `issue new' and `issue update' is a submission, for any number
\* of terminals: one post at most, of the text last shown unless another
\* terminal touched the file, reported only if it was made.
THEOREM IssuesAreSubmissions == Spec => SubmissionSpec
PROOF
  <1>1. TypeOK /\ TypeOK' /\ DraftInv /\ [Next]_vars => [Submit!Next]_Submit!subvars
    BY NextSubmits
  <1>2. Spec => []TypeOK /\ []DraftInv
    BY Drafts, PTL
  <1> QED BY <1>1, <1>2, InitialSubmission, PTL DEF Spec, SubmissionSpec, Submit!Spec
=============================================================================
