------------------------- MODULE ProjectDraft_proofs -------------------------
(***************************************************************************)
(* What `project new' promises about its form and its post, for any number *)
(* of terminals, runs, edits and values.  Two invariants, inductive with   *)
(* the types: RunsInv for the numbers of the runs, which makes one run at  *)
(* most one project, and FormInv for the text on its way from the screen   *)
(* to the server.                                                          *)
(***************************************************************************)
EXTENDS ProjectDraft, SequenceTheorems, TLAPS

-----------------------------------------------------------------------------
(***************************************************************************)
(* The form and its fields.                                                *)
(***************************************************************************)

LEMMA ValueFacts ==
    /\ Blank \in Value /\ {"true", "false", "modules"} \subseteq Value
    /\ Names \subseteq Value /\ Typed \subseteq Value
    /\ MaxRuns \in Nat /\ MaxSaves \in Nat
  BY ProjectDraftAssumption

LEMMA TemplateType ==
    ASSUME NEW name \in Value, NEW identifier \in Value
    PROVE  Template(name, identifier) \in Form
PROOF
  <1>1. \A label \in Label, value \in Value :
          [label |-> label, value |-> value] \in Line
    BY DEF Line
  <1>2. {"name", "identifier", "description", "homepage", "is_public", "parent_id",
         "inherit_members", "tracker_ids", "enabled_module_names"} \subseteq Label
    BY DEF Label, Width
  <1>3. \A a, b, c, d, e, f, g, h, i \in Line :
          <<a, b, c, d, e, f, g, h, i>> \in Seq(Line)
    OBVIOUS
  <1> QED BY <1>1, <1>2, <1>3, ValueFacts DEF Template, Form

LEMMA InsertType ==
    ASSUME NEW t \in Form, NEW i \in 1 .. Len(t) + 1, NEW line \in Line
    PROVE  InsertAt(t, i, line) \in Form
PROOF
  <1>1. Len(t) \in Nat /\ \A j \in 1 .. Len(t) : t[j] \in Line
    BY DEF Form
  <1>2. SubSeq(t, 1, i - 1) \in Seq(Line) /\ SubSeq(t, i, Len(t)) \in Seq(Line)
    BY <1>1, SubSeqProperties
  <1>3. <<line>> \in Seq(Line)
    OBVIOUS
  <1> QED BY <1>2, <1>3, ConcatProperties DEF InsertAt, Form

LEMMA RemoveType ==
    ASSUME NEW t \in Form, NEW i \in DOMAIN t
    PROVE  RemoveAt(t, i) \in Form
PROOF
  <1>1. /\ Len(t) \in Nat /\ i \in 1 .. Len(t)
        /\ \A j \in 1 .. Len(t) : t[j] \in Line
    BY DEF Form
  <1>2. SubSeq(t, 1, i - 1) \in Seq(Line) /\ SubSeq(t, i + 1, Len(t)) \in Seq(Line)
    BY <1>1, SubSeqProperties
  <1> QED BY <1>2, ConcatProperties DEF RemoveAt, Form

LEMMA SwapType ==
    ASSUME NEW t \in Form, NEW i \in 1 .. Len(t) - 1
    PROVE  [t EXCEPT ![i] = t[i + 1], ![i + 1] = t[i]] \in Form
PROOF
  <1> DEFINE first == [t EXCEPT ![i] = t[i + 1]]
  <1>1. Len(t) \in Nat /\ t[i] \in Line /\ t[i + 1] \in Line /\ i \in 1 .. Len(t)
    BY DEF Form
  <1>2. first \in Seq(Line) /\ Len(first) = Len(t)
    BY <1>1, ExceptSeq DEF Form
  <1> HIDE DEF first
  <1>3. i + 1 \in 1 .. Len(first)
    BY <1>1, <1>2
  <1>4. [first EXCEPT ![i + 1] = t[i]] \in Seq(Line)
    BY <1>1, <1>2, <1>3, ExceptSeq
  <1> QED BY <1>4 DEF Form, first

LEMMA RetypeType ==
    ASSUME NEW t \in Form, NEW i \in DOMAIN t, NEW v \in Value
    PROVE  [t EXCEPT ![i].value = v] \in Form
PROOF
  <1>1. Len(t) \in Nat /\ t[i] \in Line /\ i \in 1 .. Len(t)
    BY DEF Form
  <1>2. \A line \in Line : [line EXCEPT !.value = v] \in Line
    BY DEF Line
  <1>3. [t EXCEPT ![i] = [t[i] EXCEPT !.value = v]] \in Seq(Line)
    BY <1>1, <1>2, ExceptSeq DEF Form
  <1> QED BY <1>3 DEF Form

\* One edit of a form leaves a form.
LEMMA EditsType ==
    ASSUME NEW t \in Form
    PROVE  Edits(t) \subseteq Form
PROOF
  <1>1. \A v \in Typed : Note(v) \in Line
    BY ValueFacts DEF Note, Line, Label, Width
  <1>2. Retyped(t) \subseteq Form
    BY RetypeType, ValueFacts DEF Retyped
  <1>3. \A i \in 1 .. Len(t) + 1, v \in Typed : InsertAt(t, i, Note(v)) \in Form
    BY <1>1, InsertType
  <1>4. Longer(t) \subseteq Form
    BY <1>3 DEF Longer
  <1>5. Shorter(t) \subseteq Form
    BY RemoveType DEF Shorter
  <1>6. Moved(t) \subseteq Form
    BY SwapType DEF Moved
  <1> QED BY <1>2, <1>4, <1>5, <1>6 DEF Edits

\* Every member is read from the line with its number.
LEMMA FieldOf ==
    ASSUME NEW t \in Form, NEW i \in DOMAIN Labels
    PROVE  /\ Labels[i] \in Member
           /\ Fields(t)[Labels[i]] =
                IF i \in DOMAIN t THEN Strip(t[i], Labels[i]) ELSE Blank
PROOF
  <1>1. i \in 1 .. 7
    BY DEF Labels
  <1>2. \A j, k \in 1 .. 7 : Labels[j] = Labels[k] => j = k
    BY DEF Labels
  <1>3. Labels[i] \in Member
    BY <1>1 DEF Labels, Member
  <1>4. LineOf[Labels[i]] = i
    BY <1>1, <1>2, <1>3 DEF LineOf
  <1>5. Fields(t)[Labels[i]] =
          IF LineOf[Labels[i]] \in DOMAIN t
          THEN Strip(t[LineOf[Labels[i]]], Labels[i]) ELSE Blank
    BY <1>3, Zenon DEF Fields
  <1> QED BY <1>3, <1>4, <1>5

LEMMA FieldsType ==
    ASSUME NEW t \in Form
    PROVE  Fields(t) \in [Member -> Piece]
PROOF
  <1>1. \A i \in DOMAIN t, f \in Member : Strip(t[i], f) \in Piece
    <2>1. ASSUME NEW i \in DOMAIN t PROVE t[i].value \in Value
      <3>1. t[i] \in Line
        BY DEF Form
      <3> QED BY <3>1 DEF Line
    <2> QED BY <2>1, ValueFacts DEF Strip, Piece
  <1> QED BY <1>1, ValueFacts DEF Fields, Piece

\* A line that is where the form has it gives its own value.
LEMMA OwnLine ==
    ASSUME NEW t \in Form, NEW i \in DOMAIN Labels, i \in DOMAIN t,
           t[i].label = Labels[i]
    PROVE  Fields(t)[Labels[i]] = t[i].value
  BY FieldOf DEF Strip

LEMMA TemplateFields ==
    ASSUME NEW name \in Value, NEW identifier \in Value
    PROVE  /\ Fields(Template(name, identifier))["name"] = name
           /\ Fields(Template(name, identifier))["identifier"] = identifier
PROOF
  <1> DEFINE t == Template(name, identifier)
  <1>1. t \in Form
    BY TemplateType
  <1>2. /\ 1 \in DOMAIN t /\ t[1] = [label |-> "name", value |-> name]
        /\ 2 \in DOMAIN t /\ t[2] = [label |-> "identifier", value |-> identifier]
    BY DEF Template
  <1>3. /\ 1 \in DOMAIN Labels /\ Labels[1] = "name"
        /\ 2 \in DOMAIN Labels /\ Labels[2] = "identifier"
    BY DEF Labels
  <1> HIDE DEF t
  <1>4. Fields(t)[Labels[1]] = name
    BY <1>1, <1>2, <1>3, OwnLine
  <1>5. Fields(t)[Labels[2]] = identifier
    BY <1>1, <1>2, <1>3, OwnLine
  <1> QED BY <1>3, <1>4, <1>5 DEF t

-----------------------------------------------------------------------------
(***************************************************************************)
(* The types, and the numbers of the runs: those in progress are distinct  *)
(* and have not posted.                                                    *)
(***************************************************************************)

Active(p) == pc[p] # "idle"
RunsInv ==
    /\ \A p \in Proc : Active(p) => job[p].run \in 1 .. started
    /\ \A p, q \in Proc :
         Active(p) /\ Active(q) /\ job[p].run = job[q].run => p = q
    /\ \A i \in DOMAIN accepted : accepted[i].run \in 0 .. started
    /\ \A p \in Proc : Active(p) =>
         \A i \in DOMAIN accepted : accepted[i].run # job[p].run
    /\ \A p \in Proc : Active(p) => job[p].run \notin refused
    /\ refused \subseteq 1 .. started
    /\ RefusedMadeNone
    /\ SuccessMeansCreated

LEMMA IdleType ==
    ASSUME NEW n \in 0 .. MaxRuns, NEW name \in Value, NEW identifier \in Value
    PROVE  /\ Idle \in Job
           /\ [Idle EXCEPT !.run = n, !.name = name, !.identifier = identifier] \in Job
PROOF
  <1>1. 0 \in 0 .. MaxRuns /\ 0 \in 0 .. MaxSaves
    BY ValueFacts
  <1>2. <<>> \in Form
    BY DEF Form
  <1>3. Idle \in Job
    BY <1>1, <1>2, ValueFacts DEF Idle, Job
  <1> QED BY <1>3 DEF Job

LEMMA TypesInitially == Init => TypeOK /\ RunsInv
PROOF
  <1> SUFFICES ASSUME Init PROVE TypeOK /\ RunsInv
    OBVIOUS
  <1>1. 0 \in 0 .. MaxRuns
    BY ValueFacts
  <1>2. Idle \in Job
    BY <1>1, IdleType, ValueFacts
  <1>3. <<>> \in Form /\ <<>> \in Seq(Entry)
    BY DEF Form
  <1>4. TypeOK
    BY <1>1, <1>2, <1>3 DEF Init, TypeOK
  <1>5. RunsInv
    BY DEF Init, RunsInv, Active, RefusedMadeNone, SuccessMeansCreated
  <1> QED BY <1>4, <1>5

\* A step that starts no run and posts nothing.
LEMMA QuietRuns ==
    ASSUME RunsInv, UNCHANGED <<accepted, started, succeeded, announced, refused>>,
           \A q \in Proc : job'[q].run = job[q].run,
           \A q \in Proc : Active(q)' => Active(q)
    PROVE  RunsInv'
  BY DEF RunsInv, RefusedMadeNone, SuccessMeansCreated

LEMMA StartKeeps ==
    ASSUME TypeOK, RunsInv, NEW p \in Proc, NEW name \in Names,
           NEW identifier \in Names, Start(p, name, identifier)
    PROVE  TypeOK' /\ RunsInv'
PROOF
  <1>1. started \in Nat /\ started' = started + 1 /\ started' \in 0 .. MaxRuns
    BY ValueFacts DEF TypeOK, Start
  <1>2. job'[p] \in Job /\ job'[p].run = started + 1
    <2>1. job'[p] = [Idle EXCEPT !.run = started', !.name = name,
                                 !.identifier = identifier]
      BY DEF TypeOK, Start
    <2>2. \A n \in 0 .. MaxRuns :
            [Idle EXCEPT !.run = n, !.name = name, !.identifier = identifier] \in Job
      BY IdleType, ValueFacts
    <2>4. job'[p] \in Job
      BY <1>1, <2>1, <2>2
    <2>3. job'[p].run = started'
      BY <2>1 DEF Idle
    <2> QED BY <1>1, <2>3, <2>4
  <1>3. TypeOK'
    BY <1>1, <1>2 DEF TypeOK, Start, Goto, disk, results
  <1>4. /\ \A q \in Proc \ {p} : job'[q] = job[q] /\ (Active(q)' <=> Active(q))
        /\ UNCHANGED <<accepted, succeeded, announced, refused>>
    BY DEF TypeOK, Start, Goto, Active, results
  <1>5. \A q \in Proc \ {p} : Active(q)' => job'[q].run \in 1 .. started
    BY <1>4 DEF RunsInv
  <1>6. \A q \in Proc : Active(q)' => job'[q].run \in 1 .. started'
    BY <1>1, <1>2, <1>5
  <1>7. \A q, x \in Proc :
          Active(q)' /\ Active(x)' /\ job'[q].run = job'[x].run => q = x
    <2>1. \A q \in Proc \ {p} : Active(q)' => job'[q].run # job'[p].run
      BY <1>1, <1>2, <1>5
    <2> QED BY <1>4, <2>1 DEF RunsInv
  <1>8. \A i \in DOMAIN accepted : accepted[i].run \in 0 .. started
    BY DEF RunsInv
  <1>9. \A q \in Proc : Active(q)' =>
          \A i \in DOMAIN accepted : accepted[i].run # job'[q].run
    BY <1>1, <1>2, <1>4, <1>8 DEF RunsInv
  <1>10. RefusedMadeNone' /\ SuccessMeansCreated'
    BY <1>4 DEF RunsInv, RefusedMadeNone, SuccessMeansCreated
  <1>11. \A i \in DOMAIN accepted' : accepted'[i].run \in 0 .. started'
    BY <1>1, <1>4, <1>8
  <1>12. /\ refused' \subseteq 1 .. started'
         /\ \A q \in Proc : Active(q)' => job'[q].run \notin refused'
    BY <1>1, <1>2, <1>4 DEF RunsInv
  <1> QED BY <1>3, <1>4, <1>6, <1>7, <1>9, <1>10, <1>11, <1>12 DEF RunsInv

\* The steps that leave the locals alone.
LEMMA PlainStep ==
    ASSUME TypeOK, RunsInv, NEW p \in Proc,
           \/ TruncateDraft(p) \/ WriteTemplate(p) \/ QuitEditor(p)
           \/ Fails(p) \/ Kill(p)
    PROVE  TypeOK' /\ RunsInv'
PROOF
  <1>1. /\ UNCHANGED <<accepted, started, succeeded, announced, refused, job>>
        /\ \A q \in Proc : Active(q)' => Active(q)
    BY DEF TypeOK, TruncateDraft, WriteTemplate, QuitEditor, Fails, Kill, Goto,
           Active, results
  <1>2. Template(job[p].name, job[p].identifier) \in Form /\ <<>> \in Form
    BY TemplateType DEF TypeOK, Job, Form
  <1>3. ASSUME TruncateDraft(p) PROVE TypeOK'
    BY <1>2, <1>3 DEF TypeOK, TruncateDraft, Others, Goto, results
  <1>4. ASSUME WriteTemplate(p) PROVE TypeOK'
    BY <1>2, <1>4 DEF TypeOK, WriteTemplate, WriteFile, Others, Goto, results
  <1>5. ASSUME QuitEditor(p) \/ Fails(p) \/ Kill(p) PROVE TypeOK'
    BY <1>5 DEF TypeOK, QuitEditor, Fails, Kill, Goto, disk, results
  <1>6. RunsInv'
    BY <1>1, QuietRuns
  <1> QED BY <1>3, <1>4, <1>5, <1>6

\* The steps that note something of the text.
LEMMA TextStep ==
    ASSUME TypeOK, RunsInv, NEW p \in Proc,
           \/ OpenEditor(p) \/ ReadDraft(p) \/ RemoveDraft(p)
           \/ \E t \in Edits(job[p].shown) : SaveText(p, t)
    PROVE  TypeOK' /\ RunsInv'
PROOF
  <1>1. /\ UNCHANGED <<accepted, started, succeeded, announced, refused>>
        /\ \A q \in Proc : job'[q].run = job[q].run
        /\ \A q \in Proc : Active(q)' => Active(q)
    <2>1. CASE OpenEditor(p)
      BY <2>1 DEF TypeOK, Job, OpenEditor, Goto, Active, results
    <2>2. CASE ReadDraft(p)
      BY <2>2 DEF TypeOK, Job, ReadDraft, Goto, Active, results
    <2>3. CASE RemoveDraft(p)
      BY <2>3 DEF TypeOK, Job, RemoveDraft, Goto, Active, results
    <2>4. ASSUME NEW t, SaveText(p, t)
          PROVE  /\ UNCHANGED <<accepted, started, succeeded, announced, refused>>
                 /\ \A q \in Proc : job'[q].run = job[q].run
                 /\ \A q \in Proc : Active(q)' => Active(q)
      <3>1. UNCHANGED <<accepted, started, succeeded, announced, refused, pc>>
        BY <2>4 DEF SaveText, results
      <3>2. job' = [job EXCEPT ![p].shown = t, ![p].saves = job[p].saves + 1]
        BY <2>4 DEF SaveText
      <3>3. \A q \in Proc : job[q] \in Job
        BY DEF TypeOK
      <3>4. \A q \in Proc : job'[q].run = job[q].run
        BY <3>2, <3>3 DEF TypeOK, Job
      <3> QED BY <3>1, <3>4 DEF Active
    <2> QED BY <2>1, <2>2, <2>3, <2>4
  <1>2. job[p] \in Job /\ <<>> \in Form /\ text \in Form
    BY DEF TypeOK, Form
  <1>3. CASE OpenEditor(p)
    <2>1. job'[p] \in Job
      BY <1>2, <1>3 DEF TypeOK, OpenEditor, Job
    <2> QED BY <1>1, <1>3, <2>1, QuietRuns DEF TypeOK, OpenEditor, Goto, disk, results
  <1>4. CASE ReadDraft(p)
    <2>1. job'[p] \in Job
      BY <1>2, <1>4 DEF TypeOK, ReadDraft, Job
    <2> QED BY <1>1, <1>4, <2>1, QuietRuns DEF TypeOK, ReadDraft, Goto, disk, results
  <1>5. CASE RemoveDraft(p)
    <2>1. job'[p] \in Job
      BY <1>2, <1>5 DEF TypeOK, RemoveDraft, Job
    <2> QED BY <1>1, <1>2, <1>5, <2>1, QuietRuns
            DEF TypeOK, RemoveDraft, RemoveFile, Others, Goto, disk, results
  <1>6. ASSUME NEW t \in Edits(job[p].shown), SaveText(p, t)
        PROVE  TypeOK' /\ RunsInv'
    <2>1. t \in Form
      BY <1>2, EditsType DEF Job
    <2>2. job[p].saves + 1 \in 0 .. MaxSaves
      BY <1>2, <1>6, ValueFacts DEF SaveText, Job
    <2>3. job'[p] \in Job
      BY <1>2, <1>6, <2>1, <2>2 DEF TypeOK, SaveText, Job
    <2> QED BY <1>1, <1>6, <2>1, <2>3, QuietRuns
            DEF TypeOK, SaveText, WriteFile, Others, results
  <1> QED BY <1>3, <1>4, <1>5, <1>6

\* A run ends with its post, which may add it: no project had its number.
LEMMA PostKeeps ==
    ASSUME TypeOK, RunsInv, NEW p \in Proc,
           PostCreated(p) \/ PostRefused(p) \/ DisplayFails(p) \/ PostLost(p)
    PROVE  TypeOK' /\ RunsInv'
PROOF
  <1>1. /\ Active(p) /\ ~Active(p)'
        /\ pc' \in [Proc -> {"idle", "truncate", "template", "open", "editing",
                             "read", "remove", "post"}]
        /\ \A q \in Proc : Active(q)' => Active(q) /\ job'[q] = job[q]
        /\ UNCHANGED <<exists, text, touched, started>>
    BY DEF TypeOK, PostCreated, PostRefused, DisplayFails, PostLost, Return, Goto,
           Active, disk
  <1>2. job[p].run \in 1 .. started /\ job[p].run \in 1 .. MaxRuns
    BY <1>1, ValueFacts DEF RunsInv, TypeOK
  <1>3. job' \in [Proc -> Job]
    <2>1. Idle \in Job
      <3>1. 0 \in 0 .. MaxRuns
        BY ValueFacts
      <3> QED BY <3>1, ValueFacts, IdleType
    <2> QED BY <2>1 DEF TypeOK, PostCreated, PostRefused, DisplayFails, PostLost, Return
  <1>4. Post(p) \in Entry /\ Post(p).run = job[p].run
    <2>1. job[p] \in Job
      BY DEF TypeOK
    <2>2. Fields(job[p].draft) \in [Member -> Piece]
      BY <2>1, FieldsType DEF Job
    <2> QED BY <2>1, <2>2 DEF Post, Entry, Job
  <1>5. /\ accepted' \in {accepted, Append(accepted, Post(p))}
        /\ succeeded' \in {succeeded, succeeded \cup {job[p].run}}
        /\ announced' \in {announced, announced \cup {job[p].run}}
        /\ succeeded' # succeeded =>
             accepted' = Append(accepted, Post(p))
             /\ announced' = announced \cup {job[p].run}
    BY DEF PostCreated, PostRefused, DisplayFails, PostLost, Applies, Announce
  <1>6. accepted' \in Seq(Entry)
    BY <1>4, <1>5 DEF TypeOK
  <1>18. refused' \in {refused, refused \cup {job[p].run}}
    BY DEF PostCreated, PostRefused, DisplayFails, PostLost
  <1>7. TypeOK'
    BY <1>1, <1>2, <1>3, <1>5, <1>6, <1>18 DEF TypeOK
  <1>8. ASSUME NEW i \in DOMAIN accepted'
        PROVE  \/ i \in DOMAIN accepted /\ accepted'[i] = accepted[i]
               \/ i \notin DOMAIN accepted /\ i = Len(accepted) + 1
                  /\ accepted'[i].run = job[p].run
    BY <1>4, <1>5 DEF TypeOK
  <1>9. \A i \in DOMAIN accepted : i \in DOMAIN accepted' /\ accepted'[i] = accepted[i]
    BY <1>5 DEF TypeOK
  <1>10. \A i \in DOMAIN accepted : accepted[i].run # job[p].run
    BY <1>1 DEF RunsInv
  <1>16. refused' # refused => accepted' = accepted
    BY DEF PostCreated, PostRefused, DisplayFails, PostLost, Applies
  <1>11. RefusedMadeNone'
    <2>1. job[p].run \notin refused
      BY <1>1 DEF RunsInv
    <2> QED BY <1>8, <1>10, <1>16, <1>18, <2>1 DEF RunsInv, RefusedMadeNone
  <1>12. SuccessMeansCreated'
    <2>1. ASSUME NEW n \in succeeded
          PROVE  n \in announced' /\ \E i \in DOMAIN accepted' : accepted'[i].run = n
      <3>1. n \in announced
        BY DEF RunsInv, SuccessMeansCreated
      <3>2. PICK i \in DOMAIN accepted : accepted[i].run = n
        BY DEF RunsInv, SuccessMeansCreated
      <3> QED BY <1>5, <1>9, <3>1, <3>2
    <2>2. CASE succeeded' = succeeded
      BY <2>1, <2>2 DEF SuccessMeansCreated
    <2>3. CASE succeeded' # succeeded
      <3>1. /\ succeeded' = succeeded \cup {job[p].run}
            /\ job[p].run \in announced'
            /\ accepted' = Append(accepted, Post(p))
        BY <1>5, <2>3
      <3>2. /\ Len(accepted) + 1 \in DOMAIN accepted'
            /\ accepted'[Len(accepted) + 1].run = job[p].run
        BY <1>4, <3>1 DEF TypeOK
      <3> QED BY <2>1, <3>1, <3>2 DEF SuccessMeansCreated
    <2> QED BY <2>2, <2>3
  <1>13. \A q \in Proc : Active(q)' =>
           q # p /\ job[q].run # job[p].run
    BY <1>1 DEF RunsInv
  <1>14. \A q \in Proc : Active(q)' =>
           \A i \in DOMAIN accepted' : accepted'[i].run # job'[q].run
    BY <1>1, <1>8, <1>13 DEF RunsInv
  <1>15. \A i \in DOMAIN accepted' : accepted'[i].run \in 0 .. started'
    BY <1>1, <1>2, <1>8 DEF RunsInv
  <1>17. /\ refused' \subseteq 1 .. started'
         /\ \A q \in Proc : Active(q)' => job'[q].run \notin refused'
    BY <1>1, <1>2, <1>13, <1>18 DEF RunsInv
  <1> QED BY <1>1, <1>7, <1>11, <1>12, <1>14, <1>15, <1>17 DEF RunsInv

LEMMA RunsKept ==
    ASSUME TypeOK, RunsInv, [Next]_vars
    PROVE  TypeOK' /\ RunsInv'
PROOF
  <1>1. CASE UNCHANGED vars
    <2>1. TypeOK'
      BY <1>1 DEF TypeOK, vars
    <2> QED BY <1>1, <2>1, QuietRuns DEF vars, Active
  <1>2. ASSUME NEW p \in Proc, Step(p)
        PROVE  TypeOK' /\ RunsInv'
    BY <1>2, PlainStep, TextStep, PostKeeps DEF Step
  <1> QED BY <1>1, <1>2, PlainStep, TextStep, StartKeeps DEF Next, AllRunsEnded

LEMMA TypesAndRuns == Spec => [](TypeOK /\ RunsInv)
  BY TypesInitially, RunsKept, PTL DEF Spec

\* The type invariant.
THEOREM ProjectTypeCorrect == Spec => []TypeOK
  BY TypesAndRuns, PTL

\* A run that reports a project has one on the server.
THEOREM ReportedIsCreated == Spec => []SuccessMeansCreated
  BY TypesAndRuns, PTL DEF RunsInv

\* A run that prints the server's errors made no project, however many runs share
\* the directory and the server, and whatever answer is lost (project.cpp 275-290).
THEOREM RefusedRunsMadeNone == Spec => []RefusedMadeNone
  BY TypesAndRuns, PTL DEF RunsInv

-----------------------------------------------------------------------------
(***************************************************************************)
(* The form on its way from the template to the post.                      *)
(***************************************************************************)

FromTemplate(r) == r.saves = 0 => r.shown = Template(r.name, r.identifier)
Untouched(p) == p \notin touched

NotOpened(p) == pc[p] \in {"truncate", "template", "open"} =>
    ~job[p].opened /\ ~job[p].removed /\ job[p].saves = 0
Opened(p) == pc[p] \in {"editing", "read"} => job[p].opened /\ ~job[p].removed
Kept(p) == job[p].opened /\ ~job[p].removed /\ Untouched(p) =>
    text = job[p].shown /\ exists
AtOpen(p) == pc[p] = "open" /\ Untouched(p) =>
    text = Template(job[p].name, job[p].identifier) /\ exists
Shown(p) == pc[p] \in {"editing", "read"} /\ Untouched(p) => FromTemplate(job[p])
ReadClean(p) == pc[p] \in {"remove", "post"} /\ job[p].clean =>
    job[p].draft = job[p].shown /\ FromTemplate(job[p])

FormOK(p) == NotOpened(p) /\ Opened(p) /\ Kept(p) /\ AtOpen(p) /\ Shown(p)
               /\ ReadClean(p)

PostsOK == \A n \in DOMAIN accepted : accepted[n].clean =>
    accepted[n].fields = Fields(accepted[n].shown) /\ FromTemplate(accepted[n])

FormInv == (\A p \in Proc : FormOK(p)) /\ PostsOK

LEMMA FormInitially == Init => FormInv
  BY DEF Init, FormInv, FormOK, NotOpened, Opened, Kept, AtOpen, Shown, ReadClean,
         PostsOK, Idle

\* A step of another process leaves the file alone or is seen to touch it.
LEMMA OtherKeeps ==
    ASSUME NEW q \in Proc, FormOK(q), pc'[q] = pc[q], job'[q] = job[q],
           q \notin touched' => q \notin touched /\ UNCHANGED <<text, exists>>
    PROVE  FormOK(q)'
  BY DEF FormOK, NotOpened, Opened, Kept, AtOpen, Shown, ReadClean, Untouched,
         FromTemplate

\* What a step of p that posts nothing leaves of the others.
LEMMA StepFrame ==
    ASSUME FormInv, NEW p \in Proc, accepted' = accepted,
           \A q \in Proc \ {p} : pc'[q] = pc[q] /\ job'[q] = job[q],
           \A q \in Proc \ {p} : q \notin touched' =>
             q \notin touched /\ UNCHANGED <<text, exists>>,
           FormOK(p)'
    PROVE  FormInv'
PROOF
  <1>1. \A q \in Proc \ {p} : FormOK(q)'
    BY OtherKeeps DEF FormInv
  <1>2. PostsOK'
    BY DEF FormInv, PostsOK, FromTemplate
  <1> QED BY <1>1, <1>2 DEF FormInv

LEMMA StartForm ==
    ASSUME TypeOK, FormInv, NEW p \in Proc, NEW name, NEW identifier,
           Start(p, name, identifier)
    PROVE  FormInv'
PROOF
  <1>1. /\ pc'[p] = "truncate" /\ ~job'[p].opened /\ ~job'[p].removed
        /\ job'[p].saves = 0
    BY DEF TypeOK, Start, Goto, Idle
  <1>2. FormOK(p)'
    BY <1>1 DEF FormOK, NotOpened, Opened, Kept, AtOpen, Shown, ReadClean
  <1> QED BY <1>2, StepFrame DEF TypeOK, Start, Goto, disk, results

\* Leaving a run, or the editor, changes nothing of the text.
LEMMA LeaveForm ==
    ASSUME TypeOK, FormInv, NEW p \in Proc, QuitEditor(p) \/ Fails(p) \/ Kill(p)
    PROVE  FormInv'
PROOF
  <1>1. /\ UNCHANGED <<disk, job, accepted>>
        /\ \/ pc' = [pc EXCEPT ![p] = "idle"]
           \/ pc[p] = "editing" /\ pc' = [pc EXCEPT ![p] = "read"]
    BY DEF QuitEditor, Fails, Kill, Goto, results
  <1>2. pc'[p] = "idle" \/ (pc[p] = "editing" /\ pc'[p] = "read")
    BY <1>1 DEF TypeOK
  <1>3. FormOK(p)'
    BY <1>1, <1>2 DEF FormInv, FormOK, NotOpened, Opened, Kept, AtOpen, Shown,
                      ReadClean, Untouched, FromTemplate, disk
  <1> QED BY <1>1, <1>3, StepFrame DEF TypeOK, disk

LEMMA TruncateForm ==
    ASSUME TypeOK, FormInv, NEW p \in Proc, TruncateDraft(p)
    PROVE  FormInv'
PROOF
  <1>1. pc[p] = "truncate" /\ pc'[p] = "template" /\ job' = job
    BY DEF TypeOK, TruncateDraft, Goto
  <1>2. FormOK(p)'
    BY <1>1 DEF FormInv, FormOK, NotOpened, Opened, Kept, AtOpen, Shown, ReadClean
  <1> QED BY <1>1, <1>2, StepFrame DEF TypeOK, TruncateDraft, Goto, Others, results

LEMMA WriteTemplateForm ==
    ASSUME TypeOK, FormInv, NEW p \in Proc, WriteTemplate(p)
    PROVE  FormInv'
PROOF
  <1>1. /\ pc[p] = "template" /\ pc'[p] = "open" /\ job' = job /\ exists'
        /\ text' = Template(job[p].name, job[p].identifier)
    BY DEF TypeOK, WriteTemplate, WriteFile, Goto
  <1>2. FormOK(p)'
    BY <1>1 DEF FormInv, FormOK, NotOpened, Opened, Kept, AtOpen, Shown, ReadClean
  <1> QED BY <1>1, <1>2, StepFrame
          DEF TypeOK, WriteTemplate, WriteFile, Goto, Others, results

LEMMA OpenEditorForm ==
    ASSUME TypeOK, FormInv, NEW p \in Proc, OpenEditor(p)
    PROVE  FormInv'
PROOF
  <1>1. /\ pc[p] = "open" /\ pc'[p] = "editing"
        /\ UNCHANGED <<text, exists, touched, accepted>>
        /\ job'[p].shown = text /\ job'[p].opened
        /\ job'[p].removed = job[p].removed /\ job'[p].saves = job[p].saves
        /\ job'[p].name = job[p].name /\ job'[p].identifier = job[p].identifier
    BY DEF TypeOK, OpenEditor, Goto, Job, disk, results
  <1>2. FormOK(p)'
    BY <1>1 DEF FormInv, FormOK, NotOpened, Opened, Kept, AtOpen, Shown, ReadClean,
                Untouched, FromTemplate
  <1> QED BY <1>1, <1>2, StepFrame DEF TypeOK, OpenEditor, Goto

LEMMA SaveTextForm ==
    ASSUME TypeOK, FormInv, NEW p \in Proc, NEW t, SaveText(p, t)
    PROVE  FormInv'
PROOF
  <1>1. job[p] \in Job
    BY DEF TypeOK
  <1>2. /\ pc' = pc /\ pc[p] = "editing" /\ text' = t /\ exists'
        /\ job'[p].shown = t /\ job'[p].saves = job[p].saves + 1
        /\ job'[p].opened = job[p].opened /\ job'[p].removed = job[p].removed
        /\ accepted' = accepted /\ touched' = touched \cup Others(p)
        /\ \A q \in Proc \ {p} : job'[q] = job[q]
    BY <1>1 DEF TypeOK, SaveText, WriteFile, Job, results
  <1>3. job[p].saves \in Nat
    BY <1>1, ValueFacts DEF Job
  <1>4. FormOK(p)'
    BY <1>2, <1>3 DEF FormInv, FormOK, NotOpened, Opened, Kept, AtOpen, Shown,
                      ReadClean, FromTemplate
  <1> QED BY <1>2, <1>4, StepFrame DEF Others

LEMMA ReadDraftForm ==
    ASSUME TypeOK, FormInv, NEW p \in Proc, ReadDraft(p)
    PROVE  FormInv'
PROOF
  <1>1. /\ pc[p] = "read" /\ pc'[p] = "remove"
        /\ UNCHANGED <<text, exists, touched, accepted>>
        /\ job'[p].draft = text /\ (job'[p].clean <=> Untouched(p))
        /\ job'[p].shown = job[p].shown /\ job'[p].saves = job[p].saves
        /\ job'[p].opened = job[p].opened /\ job'[p].removed = job[p].removed
        /\ job'[p].name = job[p].name /\ job'[p].identifier = job[p].identifier
    BY DEF TypeOK, ReadDraft, Goto, Job, Untouched, disk, results
  <1>2. FormOK(p)'
    BY <1>1 DEF FormInv, FormOK, NotOpened, Opened, Kept, AtOpen, Shown, ReadClean,
                FromTemplate, Untouched
  <1> QED BY <1>1, <1>2, StepFrame DEF TypeOK, ReadDraft, Goto

LEMMA RemoveDraftForm ==
    ASSUME TypeOK, FormInv, NEW p \in Proc, RemoveDraft(p)
    PROVE  FormInv'
PROOF
  <1>1. /\ pc[p] = "remove" /\ pc'[p] = "post" /\ accepted' = accepted
        /\ job'[p].removed /\ job'[p].draft = job[p].draft
        /\ job'[p].clean = job[p].clean /\ job'[p].saves = job[p].saves
        /\ job'[p].shown = job[p].shown /\ job'[p].name = job[p].name
        /\ job'[p].identifier = job[p].identifier
    BY DEF TypeOK, RemoveDraft, Goto, Job, results
  <1>2. FormOK(p)'
    BY <1>1 DEF FormInv, FormOK, NotOpened, Opened, Kept, AtOpen, Shown, ReadClean,
                FromTemplate
  <1>3. \A q \in Proc \ {p} : q \notin touched' =>
          q \notin touched /\ UNCHANGED <<text, exists>>
    BY DEF RemoveDraft, RemoveFile, Others, disk
  <1> QED BY <1>1, <1>2, <1>3, StepFrame DEF TypeOK, RemoveDraft, Goto

LEMMA PostForm ==
    ASSUME TypeOK, FormInv, NEW p \in Proc,
           PostCreated(p) \/ PostRefused(p) \/ DisplayFails(p) \/ PostLost(p)
    PROVE  FormInv'
PROOF
  <1>1. /\ pc[p] = "post" /\ pc'[p] = "idle" /\ job'[p] = Idle
        /\ \A q \in Proc \ {p} : pc'[q] = pc[q] /\ job'[q] = job[q]
        /\ UNCHANGED <<text, exists, touched>>
        /\ accepted' \in {accepted, Append(accepted, Post(p))}
    BY DEF TypeOK, PostCreated, PostRefused, DisplayFails, PostLost, Applies, Return,
           Goto, disk
  <1>2. FormOK(p)'
    BY <1>1 DEF FormOK, NotOpened, Opened, Kept, AtOpen, Shown, ReadClean, Idle
  <1>3. \A q \in Proc \ {p} : FormOK(q)'
    BY <1>1, OtherKeeps DEF FormInv
  <1>4. CASE accepted' = accepted
    BY <1>2, <1>3, <1>4 DEF FormInv, PostsOK, FromTemplate
  <1>5. CASE accepted' = Append(accepted, Post(p))
    <2>1. /\ DOMAIN accepted' = 1 .. (Len(accepted) + 1)
          /\ \A i \in DOMAIN accepted : accepted'[i] = accepted[i]
          /\ accepted'[Len(accepted) + 1] = Post(p)
          /\ DOMAIN accepted = 1 .. Len(accepted) /\ Len(accepted) \in Nat
      BY <1>5 DEF TypeOK
    <2>2. Post(p).clean =>
            Post(p).fields = Fields(Post(p).shown) /\ FromTemplate(Post(p))
      BY <1>1 DEF FormInv, FormOK, ReadClean, Post, FromTemplate
    <2>3. PostsOK'
      BY <2>1, <2>2 DEF FormInv, PostsOK, FromTemplate
    <2> QED BY <1>2, <1>3, <2>3 DEF FormInv
  <1> QED BY <1>1, <1>4, <1>5

LEMMA FormKept ==
    ASSUME TypeOK, FormInv, [Next]_vars
    PROVE  FormInv'
PROOF
  <1>1. CASE UNCHANGED vars
    <2>1. \A q \in Proc : FormOK(q)'
      BY <1>1, OtherKeeps DEF FormInv, vars
    <2> QED BY <1>1, <2>1 DEF FormInv, PostsOK, FromTemplate, vars
  <1>2. ASSUME NEW p \in Proc, Step(p)
        PROVE  FormInv'
    BY <1>2, LeaveForm, TruncateForm, WriteTemplateForm, OpenEditorForm,
       ReadDraftForm, RemoveDraftForm, PostForm DEF Step
  <1> QED BY <1>1, <1>2, StartForm, SaveTextForm, LeaveForm DEF Next, AllRunsEnded

LEMMA Forms == Spec => [](TypeOK /\ FormInv)
  BY TypesInitially, RunsKept, FormInitially, FormKept, PTL DEF Spec

\* Undisturbed, a run posts of every member what the user had last on the screen
\* behind its label, if that line was where the form has it.
THEOREM MembersFromTheirLines == Spec => []FieldsInPlace
PROOF
  <1>1. TypeOK /\ FormInv => FieldsInPlace
    <2> SUFFICES ASSUME TypeOK, FormInv, NEW n \in DOMAIN accepted, accepted[n].clean
                 PROVE
                   /\ \A i \in DOMAIN Labels :
                        i \in DOMAIN accepted[n].shown
                          /\ accepted[n].shown[i].label = Labels[i] =>
                        accepted[n].fields[Labels[i]] = accepted[n].shown[i].value
                   /\ accepted[n].saves = 0 =>
                        /\ accepted[n].fields["name"] = accepted[n].name
                        /\ accepted[n].fields["identifier"] = accepted[n].identifier
      BY DEF FieldsInPlace
    <2>1. /\ accepted[n].fields = Fields(accepted[n].shown)
          /\ FromTemplate(accepted[n])
      BY DEF FormInv, PostsOK
    <2>2. accepted[n] \in Entry
      BY ElementOfSeq DEF TypeOK
    <2>3. /\ accepted[n].shown \in Form /\ accepted[n].name \in Value
          /\ accepted[n].identifier \in Value
      BY <2>2 DEF Entry
    <2> QED BY <2>1, <2>3, OwnLine, TemplateFields DEF FromTemplate
  <1> QED BY <1>1, Forms, PTL

\* Undisturbed, a run that ends before it removed the form leaves its text.
THEOREM FormSurvives == Spec => []DraftIsKept
PROOF
  <1>1. FormInv => DraftIsKept
    BY DEF FormInv, FormOK, Kept, Untouched, DraftIsKept
  <1> QED BY <1>1, Forms, PTL

-----------------------------------------------------------------------------
(***************************************************************************)
(* A run is a submission.  A step of p changes what Submission sees of p   *)
(* alone: Moves says so, and each action is then placed by the phases it   *)
(* leads from and to.                                                      *)
(***************************************************************************)
HasRead == {"remove", "post"}
Moves(p) == \A q \in Proc \ {p} : pc'[q] = pc[q] /\ job'[q] = job[q]

LEMMA Seen ==
    ASSUME NEW p \in Proc
    PROVE  /\ pc[p] = "idle" =>
                Phase[p] = "idle" /\ Run[p] = 0 /\ Content[p] = Fields(<<>>)
           /\ pc[p] # "idle" => Run[p] = job[p].run
           /\ pc[p] \in HasRead =>
                Phase[p] = "settled" /\ Content[p] = Fields(job[p].draft)
           /\ pc[p] # "idle" /\ pc[p] \notin HasRead =>
                Phase[p] = "writing" /\ Content[p] = Fields(job[p].shown)
  BY DEF Phase, Run, Content, HasRead

LEMMA SeenNext ==
    ASSUME NEW p \in Proc
    PROVE  /\ pc'[p] = "idle" =>
                Phase'[p] = "idle" /\ Run'[p] = 0 /\ Content'[p] = Fields(<<>>)
           /\ pc'[p] # "idle" => Run'[p] = job'[p].run
           /\ pc'[p] \in HasRead =>
                Phase'[p] = "settled" /\ Content'[p] = Fields(job'[p].draft)
           /\ pc'[p] # "idle" /\ pc'[p] \notin HasRead =>
                Phase'[p] = "writing" /\ Content'[p] = Fields(job'[p].shown)
  BY DEF Phase, Run, Content, HasRead

LEMMA Becomes ==
    ASSUME NEW p \in Proc, Moves(p), NEW ph, NEW n, NEW c,
           Phase'[p] = ph, Run'[p] = n, Content'[p] = c
    PROVE  Submit!Become(p, ph, n, c)
PROOF
  <1>1. \A q \in Proc \ {p} :
          Phase'[q] = Phase[q] /\ Run'[q] = Run[q] /\ Content'[q] = Content[q]
    <2>1. \A q \in Proc \ {p} : Phase'[q] = Phase[q]
      BY DEF Moves, Phase
    <2> QED BY <2>1 DEF Moves, Run, Content
  <1>2. Phase' = [Phase EXCEPT ![p] = ph]
    BY <1>1 DEF Phase
  <1>3. Run' = [Run EXCEPT ![p] = n]
    BY <1>1 DEF Run
  <1>4. Content' = [Content EXCEPT ![p] = c]
    BY <1>1 DEF Content
  <1> QED BY <1>2, <1>3, <1>4 DEF Submit!Become

LEMMA InitialSubmission == Init => Submit!Init
PROOF
  <1> SUFFICES ASSUME Init PROVE Submit!Init
    OBVIOUS
  <1>1. /\ Phase = [p \in Proc |-> "idle"] /\ Run = [p \in Proc |-> 0]
        /\ Content = [p \in Proc |-> Fields(<<>>)]
    BY DEF Init, Phase, Run, Content
  <1>2. Filed = <<>>
    BY DEF Init, Filed
  <1> QED BY <1>1, <1>2 DEF Init, Submit!Init

\* What a step writes into the file disturbs the others only.
LEMMA OnlyOthers ==
    ASSUME TypeOK, NEW p \in Proc,
           \/ UNCHANGED touched
           \/ touched' = touched \cup Others(p)
           \/ touched' = Others(p)
    PROVE  Submit!Disturb(p)
  BY DEF TypeOK, Others, Submit!Disturb

LEMMA StartBegins ==
    ASSUME TypeOK, NEW p \in Proc, NEW name, NEW identifier,
           Start(p, name, identifier)
    PROVE  Submit!Begin(p)
PROOF
  <1>1. /\ pc[p] = "idle" /\ pc'[p] = "truncate" /\ Moves(p)
        /\ job'[p].run = started' /\ job'[p].shown = <<>>
        /\ started' = started + 1
        /\ UNCHANGED <<touched, accepted, succeeded>>
    BY DEF TypeOK, Start, Goto, Moves, Idle, disk, results
  <1>2. Phase[p] = "idle"
    BY <1>1, Seen
  <1>3. Phase'[p] = "writing" /\ Run'[p] = started' /\ Content'[p] = Fields(<<>>)
    BY <1>1, SeenNext DEF HasRead
  <1>4. Submit!Become(p, "writing", started', Fields(<<>>))
    BY <1>1, <1>3, Becomes
  <1>5. Filed' = Filed
    BY <1>1 DEF Filed
  <1> QED BY <1>1, <1>2, <1>4, <1>5 DEF Submit!Begin

\* A step from one writing position to another.
LEMMA WritingShows ==
    ASSUME TypeOK, TypeOK', NEW p \in Proc, Moves(p),
           UNCHANGED <<started, accepted, succeeded>>,
           pc[p] # "idle", pc[p] \notin HasRead,
           pc'[p] # "idle", pc'[p] \notin HasRead,
           job'[p].run = job[p].run,
           Submit!Disturb(p)
    PROVE  Submit!Show(p)
PROOF
  <1>1. Phase[p] = "writing" /\ Run[p] = job[p].run
    BY Seen
  <1>2. /\ Phase'[p] = "writing" /\ Run'[p] = Run[p]
        /\ Content'[p] = Fields(job'[p].shown)
    BY <1>1, SeenNext
  <1>3. job'[p].shown \in Form
    BY DEF TypeOK, Job
  <1>4. Content'[p] \in [Member -> Piece]
    BY <1>2, <1>3, FieldsType
  <1>5. Submit!Become(p, "writing", Run[p], Content'[p])
    BY <1>2, Becomes
  <1>6. Filed' = Filed
    BY DEF Filed
  <1> QED BY <1>1, <1>4, <1>5, <1>6 DEF Submit!Show

LEMMA ReadSettles ==
    ASSUME TypeOK, FormInv, NEW p \in Proc, ReadDraft(p)
    PROVE  Submit!Settle(p)
PROOF
  <1>1. /\ pc[p] = "read" /\ pc'[p] = "remove" /\ Moves(p)
        /\ job'[p].run = job[p].run /\ job'[p].draft = text
        /\ UNCHANGED <<started, touched, accepted, succeeded>>
    BY DEF TypeOK, ReadDraft, Goto, Moves, Job, disk, results
  <1>2. p \notin touched => text = job[p].shown
    BY <1>1 DEF FormInv, FormOK, Opened, Kept, Untouched
  <1>3. /\ Phase[p] = "writing" /\ Run[p] = job[p].run
        /\ Content[p] = Fields(job[p].shown)
    BY <1>1, Seen DEF HasRead
  <1>4. Phase'[p] = "settled" /\ Run'[p] = Run[p] /\ Content'[p] = Fields(text)
    BY <1>1, <1>3, SeenNext DEF HasRead
  <1>5. Fields(text) \in [Member -> Piece]
    BY FieldsType DEF TypeOK
  <1>6. Submit!Become(p, "settled", Run[p], Content'[p])
    BY <1>1, <1>4, Becomes
  <1>7. Filed' = Filed
    BY <1>1 DEF Filed
  <1> QED BY <1>1, <1>2, <1>3, <1>4, <1>5, <1>6, <1>7 DEF Submit!Settle

LEMMA RemoveTidies ==
    ASSUME TypeOK, NEW p \in Proc, RemoveDraft(p)
    PROVE  Submit!Tidy(p)
PROOF
  <1>1. /\ pc[p] = "remove" /\ pc'[p] = "post" /\ Moves(p)
        /\ job'[p].run = job[p].run /\ job'[p].draft = job[p].draft
        /\ UNCHANGED <<started, accepted, succeeded>>
    BY DEF TypeOK, RemoveDraft, Goto, Moves, Job, results
  <1>2. /\ Phase[p] = "settled" /\ Run[p] = job[p].run
        /\ Content[p] = Fields(job[p].draft)
    BY <1>1, Seen DEF HasRead
  <1>3. Phase'[p] = Phase[p] /\ Run'[p] = Run[p] /\ Content'[p] = Content[p]
    BY <1>1, <1>2, SeenNext DEF HasRead
  <1>4. Submit!Become(p, Phase[p], Run[p], Content[p])
    BY <1>1, <1>3, Becomes
  <1>5. UNCHANGED <<Phase, Run, Content>>
    BY <1>4 DEF Submit!Become, Phase, Run, Content
  <1>6. Filed' = Filed
    BY <1>1 DEF Filed
  <1>7. Submit!Disturb(p)
    BY OnlyOthers DEF RemoveDraft, RemoveFile, disk
  <1> QED BY <1>1, <1>2, <1>5, <1>6, <1>7 DEF Submit!Tidy, Submit!work

LEMMA EndGivesUp ==
    ASSUME TypeOK, NEW p \in Proc, pc[p] # "idle", pc'[p] = "idle", Moves(p),
           UNCHANGED <<started, touched, accepted, succeeded>>
    PROVE  Submit!GiveUp(p)
PROOF
  <1>1. Phase[p] # "idle"
    BY Seen
  <1>2. Submit!Become(p, "idle", 0, Fields(<<>>))
    BY SeenNext, Becomes
  <1>3. Filed' = Filed
    BY DEF Filed
  <1> QED BY <1>1, <1>2, <1>3 DEF Submit!GiveUp

LEMMA FiledGrows ==
    ASSUME TypeOK, NEW p \in Proc, accepted' = Append(accepted, Post(p))
    PROVE  Filed' = Append(Filed,
                      [run |-> job[p].run, content |-> Fields(job[p].draft)])
PROOF
  <1> DEFINE E == [run |-> job[p].run, content |-> Fields(job[p].draft)]
             n == Len(accepted)
             R == [run : {accepted[i].run : i \in 1 .. n},
                   content : {accepted[i].fields : i \in 1 .. n}]
  <1>1. /\ n \in Nat /\ DOMAIN accepted = 1 .. n /\ DOMAIN accepted' = 1 .. (n + 1)
        /\ \A i \in 1 .. n : accepted'[i] = accepted[i]
        /\ accepted'[n + 1] = Post(p)
    BY DEF TypeOK
  <1>2. Filed = [i \in 1 .. n |->
                   [run |-> accepted[i].run, content |-> accepted[i].fields]]
    BY <1>1 DEF Filed
  <1>3. Filed \in Seq(R) /\ Len(Filed) = n
    BY <1>1, <1>2
  <1>4. Append(Filed, E) = [i \in 1 .. (n + 1) |-> IF i = n + 1 THEN E ELSE Filed[i]]
    BY <1>1, <1>3
  <1>5. Filed' = [i \in 1 .. (n + 1) |->
                    [run |-> accepted'[i].run, content |-> accepted'[i].fields]]
    BY <1>1 DEF Filed
  <1>6. [run |-> Post(p).run, content |-> Post(p).fields] = E
    BY DEF Post
  <1>7. \A i \in 1 .. (n + 1) :
          [run |-> accepted'[i].run, content |-> accepted'[i].fields]
            = IF i = n + 1 THEN E ELSE Filed[i]
    BY <1>1, <1>2, <1>6
  <1> HIDE DEF E, n
  <1>8. Filed' = Append(Filed, E)
    BY <1>4, <1>5, <1>7
  <1> QED BY <1>8 DEF E

LEMMA PostSubmits ==
    ASSUME TypeOK, NEW p \in Proc,
           PostCreated(p) \/ PostRefused(p) \/ DisplayFails(p) \/ PostLost(p)
    PROVE  Submit!Next
PROOF
  <1>1. /\ pc[p] = "post" /\ pc'[p] = "idle" /\ Moves(p)
        /\ UNCHANGED <<started, touched>>
    BY DEF TypeOK, PostCreated, PostRefused, DisplayFails, PostLost, Return, Goto,
           Moves, disk
  <1>2. CASE accepted' = Append(accepted, Post(p))
    <2>1. succeeded' \in {succeeded, succeeded \cup {job[p].run}}
      BY DEF PostCreated, PostRefused, DisplayFails, PostLost
    <2>2. /\ Phase[p] = "settled" /\ Run[p] = job[p].run
          /\ Content[p] = Fields(job[p].draft)
      BY <1>1, Seen DEF HasRead
    <2>3. Submit!Become(p, "idle", 0, Fields(<<>>))
      BY <1>1, SeenNext, Becomes
    <2>4. Filed' = Append(Filed, [run |-> Run[p], content |-> Content[p]])
      BY <1>2, <2>2, FiledGrows
    <2>5. Submit!File(p)
      BY <1>1, <2>1, <2>2, <2>3, <2>4 DEF Submit!File
    <2> QED BY <2>5 DEF Submit!Next
  <1>3. CASE UNCHANGED <<accepted, succeeded>>
    <2>1. Submit!GiveUp(p)
      BY <1>1, <1>3, EndGivesUp
    <2> QED BY <2>1 DEF Submit!Next
  <1> QED BY <1>2, <1>3
          DEF PostCreated, PostRefused, DisplayFails, PostLost, Applies

LEMMA NextSubmits ==
    ASSUME TypeOK, TypeOK', FormInv, [Next]_vars
    PROVE  [Submit!Next]_Submit!subvars
PROOF
  <1>1. ASSUME NEW p \in Proc, NEW name, NEW identifier, Start(p, name, identifier)
        PROVE  Submit!Next
    BY <1>1, StartBegins DEF Submit!Next
  <1>2. ASSUME NEW p \in Proc,
               \/ TruncateDraft(p) \/ WriteTemplate(p) \/ OpenEditor(p)
               \/ (QuitEditor(p) /\ Goto(p, "editing", "read"))
               \/ \E t \in Edits(job[p].shown) : SaveText(p, t)
        PROVE  Submit!Next
    <2>1. /\ pc[p] \in {"truncate", "template", "open", "editing"}
          /\ pc'[p] \in {"template", "open", "editing", "read"}
          /\ UNCHANGED <<started, accepted, succeeded>>
      BY <1>2 DEF TypeOK, TruncateDraft, WriteTemplate, OpenEditor, QuitEditor,
                  SaveText, Goto, results
    <2>2. ASSUME OpenEditor(p)
          PROVE  Moves(p) /\ job'[p].run = job[p].run
      BY <2>2 DEF TypeOK, OpenEditor, Goto, Job, Moves
    <2>3. ASSUME NEW t, SaveText(p, t)
          PROVE  Moves(p) /\ job'[p].run = job[p].run
      BY <2>3 DEF TypeOK, SaveText, Job, Moves
    <2>4. ASSUME UNCHANGED job, Goto(p, pc[p], pc'[p])
          PROVE  Moves(p) /\ job'[p].run = job[p].run
      BY <2>4 DEF TypeOK, Goto, Moves
    <2>5. Moves(p) /\ job'[p].run = job[p].run
      <3>1. TruncateDraft(p) \/ WriteTemplate(p) \/ QuitEditor(p) =>
              UNCHANGED job /\ Goto(p, pc[p], pc'[p])
        BY DEF TypeOK, TruncateDraft, WriteTemplate, QuitEditor, Goto
      <3> QED BY <1>2, <2>2, <2>3, <2>4, <3>1
    <2>6. Submit!Disturb(p)
      BY <1>2, OnlyOthers DEF TruncateDraft, WriteTemplate, WriteFile, OpenEditor,
                              QuitEditor, SaveText, disk
    <2>7. Submit!Show(p)
      BY <2>1, <2>5, <2>6, WritingShows DEF HasRead
    <2> QED BY <2>7 DEF Submit!Next
  <1>3. ASSUME NEW p \in Proc,
               \/ Fails(p) \/ Kill(p)
               \/ (QuitEditor(p) /\ Goto(p, "editing", "idle"))
        PROVE  Submit!Next
    <2>1. /\ pc[p] # "idle" /\ pc'[p] = "idle" /\ Moves(p)
          /\ UNCHANGED <<started, touched, accepted, succeeded>>
      BY <1>3 DEF TypeOK, Fails, Kill, QuitEditor, Goto, Moves, disk, results
    <2>2. Submit!GiveUp(p)
      BY <2>1, EndGivesUp
    <2> QED BY <2>2 DEF Submit!Next
  <1>4. ASSUME NEW p \in Proc, ReadDraft(p) \/ RemoveDraft(p)
        PROVE  Submit!Next
    BY <1>4, ReadSettles, RemoveTidies DEF Submit!Next
  <1>5. CASE UNCHANGED vars
    BY <1>5 DEF vars, Phase, Run, Content, Filed, Submit!subvars
  <1>6. ASSUME NEW p \in Proc, Step(p)
        PROVE  Submit!Next
    <2>1. QuitEditor(p) => Goto(p, "editing", "read") \/ Goto(p, "editing", "idle")
      BY DEF QuitEditor
    <2> QED BY <1>2, <1>3, <1>4, <1>6, <2>1, PostSubmits DEF Step
  <1> QED BY <1>1, <1>2, <1>3, <1>5, <1>6 DEF Next, AllRunsEnded

\* Every run of `project new' is a submission, for any number of terminals: one
\* project at most, from the form last shown unless another terminal touched the
\* file, reported only if it was made.
THEOREM ProjectsAreSubmissions == Spec => SubmissionSpec
PROOF
  <1>1. TypeOK /\ TypeOK' /\ FormInv /\ [Next]_vars => [Submit!Next]_Submit!subvars
    BY NextSubmits
  <1>2. Spec => []TypeOK /\ []FormInv
    BY Forms, PTL
  <1> QED BY <1>1, <1>2, InitialSubmission, PTL DEF Spec, SubmissionSpec, Submit!Spec
=============================================================================
