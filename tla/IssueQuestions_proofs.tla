------------------------ MODULE IssueQuestions_proofs ------------------------
(***************************************************************************)
(* What a run promises about what it posts, for any lists, projects, names *)
(* and answers and however often other users change the server meanwhile.  *)
(* Each promise has an invariant of its own, inductive with the types: for *)
(* the project that is found, for the lists and the projects they belong   *)
(* to, for the answers and for the done ratio.  The last theorem is the    *)
(* refinement: the run is mapped to IssueForm, a query and an answer to a  *)
(* stutter, the editor's end to Offer and the post to File.                *)
(***************************************************************************)
EXTENDS IssueQuestions, SequenceTheorems, TLAPS

LEMMA ConstantFacts ==
    /\ ProjectId \subseteq Nat \ {0}
    /\ Number \in [Text -> Nat] /\ Octets \in [Text -> Nat]
    /\ Contents \subseteq Seq(Element) /\ Created \subseteq Project
    /\ PageSize \in Nat \ {0} /\ TypedDone \subseteq Int
    /\ Modulus \in Nat /\ Modulus > 101
    /\ Memory \in Nat /\ Memory >= 40
    /\ MaxWatchers \in Nat /\ MaxChanges \in Nat
  BY IssueQuestionsAssumption

LEMMA SiteFacts ==
    ASSUME NEW site \in Sites
    PROVE  /\ site.projects \in Seq(Project) /\ Identified(site.projects)
           /\ site.lists \in [List -> [Scope -> Seq(Element)]]
           /\ site.issue \in ProjectId
  BY IssueQuestionsAssumption

-----------------------------------------------------------------------------
(***************************************************************************)
(* Operators.                                                              *)
(***************************************************************************)

\* What is left of a sequence keeps its order.
LEMMA RemoveFacts ==
    ASSUME NEW S, NEW s \in Seq(S), NEW i \in DOMAIN s
    PROVE  /\ RemoveAt(s, i) \in Seq(S)
           /\ DOMAIN RemoveAt(s, i) = 1 .. Len(s) - 1
           /\ \A k \in 1 .. Len(s) - 1 :
                RemoveAt(s, i)[k] = IF k < i THEN s[k] ELSE s[k + 1]
PROOF
  <1> DEFINE a == SubSeq(s, 1, i - 1)
             b == SubSeq(s, i + 1, Len(s))
  <1>1. /\ Len(s) \in Nat /\ i \in 1 .. Len(s)
        /\ \A j \in 1 .. Len(s) : s[j] \in S
    OBVIOUS
  <1>2. /\ a \in Seq(S) /\ Len(a) = i - 1
        /\ \A k \in 1 .. i - 1 : a[k] = s[k]
    BY <1>1, SubSeqProperties
  <1>3. /\ b \in Seq(S) /\ Len(b) = Len(s) - i
        /\ \A k \in 1 .. Len(s) - i : b[k] = s[i + k]
    BY <1>1, SubSeqProperties
  <1>4. RemoveAt(s, i) = a \o b
    BY DEF RemoveAt
  <1> HIDE DEF a, b
  <1>5. /\ a \o b \in Seq(S) /\ Len(a \o b) = Len(a) + Len(b)
        /\ \A k \in 1 .. Len(a) + Len(b) :
             (a \o b)[k] = IF k <= Len(a) THEN a[k] ELSE b[k - Len(a)]
    BY <1>2, <1>3, ConcatProperties
  <1>6. Len(a) + Len(b) = Len(s) - 1 /\ Len(a) = i - 1
    BY <1>1, <1>2, <1>3
  <1>7. ASSUME NEW k \in 1 .. Len(s) - 1
        PROVE  (a \o b)[k] = IF k < i THEN s[k] ELSE s[k + 1]
    <2>1. CASE k < i
      <3>1. k \in 1 .. i - 1 /\ k <= Len(a)
        BY <1>1, <1>6, <2>1
      <3>2. (a \o b)[k] = a[k]
        BY <1>5, <1>6, <3>1
      <3> QED BY <1>2, <2>1, <3>1, <3>2
    <2>2. CASE ~(k < i)
      <3> DEFINE j == k - Len(a)
      <3>1. j \in 1 .. Len(s) - i /\ ~(k <= Len(a)) /\ i + j = k + 1
        BY <1>1, <1>6, <2>2
      <3>2. (a \o b)[k] = b[j]
        BY <1>5, <1>6, <3>1
      <3>3. b[j] = s[i + j]
        <4> HIDE DEF j
        <4> QED BY <1>3, <3>1
      <3> QED BY <2>2, <3>1, <3>2, <3>3
    <2> QED BY <2>1, <2>2
  <1>8. DOMAIN (a \o b) = 1 .. Len(s) - 1
    BY <1>5, <1>6
  <1> QED BY <1>4, <1>5, <1>7, <1>8

LEMMA PageFacts ==
    ASSUME NEW S, NEW f, NEW list \in Seq(S)
    PROVE  /\ Page(f, list) \in Seq(S)
           /\ \A i \in DOMAIN Page(f, list) :
                i \in DOMAIN list /\ Page(f, list)[i] = list[i]
           /\ Len(Page(f, list)) < PageSize => Page(f, list) = list
PROOF
  <1>1. Len(list) \in Nat /\ PageSize \in Nat \ {0} /\ DOMAIN list = 1 .. Len(list)
        /\ \A i \in 1 .. Len(list) : list[i] \in S
    BY ConstantFacts
  <1>2. CASE f \in Paged /\ Len(list) > PageSize
    <2>1. Page(f, list) = SubSeq(list, 1, PageSize)
      BY <1>2 DEF Page
    <2>2. /\ SubSeq(list, 1, PageSize) \in Seq(S)
          /\ Len(SubSeq(list, 1, PageSize)) = PageSize
          /\ \A i \in 1 .. PageSize : SubSeq(list, 1, PageSize)[i] = list[i]
      BY <1>1, <1>2, SubSeqProperties
    <2> QED BY <1>1, <1>2, <2>1, <2>2
  <1>3. CASE ~(f \in Paged /\ Len(list) > PageSize)
    BY <1>3 DEF Page
  <1> QED BY <1>2, <1>3

LEMMA QueriesFacts ==
    /\ Queries \in Seq(List)
    /\ Len(Queries) \in Nat /\ Len(Queries) >= 1
    /\ Len(Queries') \in Nat /\ Len(Queries') >= 1
PROOF
  <1>1. {"status", "member", "tracker", "priority", "version", "category"}
          \subseteq List
    BY DEF List, Global
  <1> QED BY <1>1 DEF Queries

LEMMA QueriesStay ==
    run'.kind = run.kind /\ run'.manage = run.manage => Queries' = Queries
  BY DEF Queries

LEMMA ConvertedType ==
    ASSUME NEW n \in TypedDone
    PROVE  Converted(n) \in 0 .. Modulus - 1
PROOF
  <1> DEFINE max == Modulus * Modulus - 1
             long == IF n > max \/ -n > max THEN max ELSE n % (max + 1)
  <1>1. Modulus \in Nat /\ Modulus > 101 /\ n \in Int
    BY ConstantFacts
  <1>2. max \in Nat /\ max > 0
    BY <1>1
  <1>3. long \in Int
    <2> HIDE DEF max
    <2> QED BY <1>1, <1>2
  <1>4. Converted(n) = long % Modulus
    BY DEF Converted
  <1> HIDE DEF long
  <1> QED BY <1>1, <1>3, <1>4

\* A number that is a done ratio is what is stored of it.
LEMMA SmallConverted ==
    ASSUME NEW n \in 0 .. 100
    PROVE  Converted(n) = n
PROOF
  <1> DEFINE max == Modulus * Modulus - 1
  <1>1. Modulus \in Nat /\ Modulus > 101
    BY ConstantFacts
  <1>2. max \in Nat /\ max > 101
    <2>1. Modulus * Modulus > 101 * Modulus
      BY <1>1
    <2> QED BY <1>1, <2>1
  <1>3. \A m \in Nat : m > n => n % m = n
    OBVIOUS
  <1>4. (IF n > max \/ -n > max THEN max ELSE n % (max + 1)) = n
    <2> HIDE DEF max
    <2>1. n % (max + 1) = n
      BY <1>2, <1>3
    <2> QED BY <1>2, <2>1
  <1>5. n % Modulus = n
    BY <1>1, <1>3
  <1> QED BY <1>4, <1>5 DEF Converted

-----------------------------------------------------------------------------
(***************************************************************************)
(* The types.                                                              *)
(***************************************************************************)

ServerOK ==
    /\ projects \in Seq(Project)
    /\ lists \in [List -> [Scope -> Seq(Element)]]
    /\ issue \in ProjectId /\ used \subseteq ProjectId
    /\ changes \in 0 .. MaxChanges
    /\ past \in [List -> [Scope -> SUBSET Seq(Element)]]

RunOK ==
    /\ pc \in {"project", "query", "edit", "ask", "heading", "issues", "end"}
    /\ at \in Nat \ {0}
    /\ run \in Runs
    /\ pc \in {"heading", "issues"} => run.project \in Project
    /\ pc \in {"query", "edit", "ask"} =>
         run.project \in (IF run.kind = "new" THEN Project ELSE [id : ProjectId])
    /\ pc = "project" => at = 1
    /\ pc = "query" => at \in 1 .. Len(Queries)
    /\ input \in BOOLEAN
    /\ outcome \in {"running", "SUCCESS", "FAILURE", "aborted"}

LEMMA TypeParts == TypeOK <=> ServerOK /\ RunOK /\ sent \in Posts
  BY DEF TypeOK, ServerOK, RunOK

LEMMA ServerStays == ServerOK /\ UNCHANGED server => ServerOK'
  BY DEF ServerOK, server

LEMMA RunStays == RunOK /\ UNCHANGED <<pc, at, run, input, outcome>> => RunOK'
  BY QueriesStay DEF RunOK

LEMMA EndType ==
    ASSUME RunOK, NEW result \in {"SUCCESS", "FAILURE", "aborted"}, End(result)
    PROVE  RunOK'
  BY DEF RunOK, End

LEMMA NewRunType ==
    ASSUME NEW kind \in {"new", "update", "list"}, NEW asked \in Text,
           NEW manage \in BOOLEAN
    PROVE  NewRun(kind, asked, manage) \in Runs
PROOF
  <1>1. /\ [f \in List |-> Nothing] \in [List -> [of : Scope, page : Seq(Element)]]
        /\ [q \in Question |-> <<>>] \in [Question -> Seq(Nat \ {0})]
    BY DEF Nothing, Scope
  <1>2. NoProject \in [id : ProjectId \cup {0}] /\ <<>> \in Seq(Project)
        /\ <<>> \in Seq(Int)
    BY DEF NoProject
  <1>3. 101 \in 0 .. Modulus - 1
    BY ConstantFacts
  <1> QED BY <1>1, <1>2, <1>3 DEF NewRun, Runs

LEMMA TypesInitially == Init => TypeOK
PROOF
  <1> SUFFICES ASSUME Init PROVE TypeOK
    OBVIOUS
  <1>1. PICK site \in Sites :
          /\ projects = site.projects /\ lists = site.lists /\ issue = site.issue
          /\ used = {site.projects[i].id : i \in DOMAIN site.projects}
    BY DEF Init
  <1>2. \A i \in DOMAIN site.projects : site.projects[i].id \in ProjectId
    <2>1. \A i \in DOMAIN site.projects : site.projects[i] \in Project
      BY SiteFacts
    <2> QED BY <2>1 DEF Project
  <1>3. 0 \in 0 .. MaxChanges
    BY ConstantFacts
  <1>4. ServerOK
    <2>1. past = [f \in List |-> [s \in Scope |-> {lists[f][s]}]] /\ changes = 0
      BY DEF Init
    <2>2. lists \in [List -> [Scope -> Seq(Element)]]
      BY <1>1, SiteFacts
    <2>3. past \in [List -> [Scope -> SUBSET Seq(Element)]]
      BY <2>1, <2>2
    <2> QED BY <1>1, <1>2, <1>3, <2>1, <2>2, <2>3, SiteFacts DEF ServerOK
  <1>5. PICK kind \in {"new", "update", "list"}, asked \in Text, manage \in BOOLEAN :
          run = NewRun(kind, asked, manage)
    BY DEF Init
  <1>6. run \in Runs
    BY <1>5, NewRunType
  <1>7. RunOK /\ sent \in Posts
    BY <1>6 DEF Init, RunOK, Posts
  <1> QED BY <1>4, <1>7, TypeParts

LEMMA FindProjectType ==
    ASSUME ServerOK, RunOK, FindProject
    PROVE  RunOK'
PROOF
  <1> DEFINE rows == Page("project", projects)
  <1>1. PICK i \in Found(rows, run.asked) :
          run' = [run EXCEPT !.rows = rows, !.project = rows[i]]
    BY DEF FindProject
  <1>2. rows \in Seq(Project)
    BY PageFacts DEF ServerOK
  <1>3. i \in DOMAIN rows
    BY <1>1 DEF Found
  <1> HIDE DEF rows
  <1>4. rows[i] \in Project
    BY <1>2, <1>3
  <1>5. run' \in Runs /\ run'.project = rows[i] /\ run'.kind = run.kind
    BY <1>1, <1>2, <1>4 DEF RunOK, Runs
  <1>6. pc' \in {"query", "heading"} /\ (pc' = "query" => run'.kind = "new")
        /\ UNCHANGED <<at, input, outcome>>
    BY <1>5 DEF FindProject, Goto
  <1>7. at = 1 /\ 1 \in 1 .. Len(Queries')
    BY QueriesFacts DEF RunOK, FindProject, Goto
  <1> QED BY <1>4, <1>5, <1>6, <1>7 DEF RunOK

LEMMA GetIssueType ==
    ASSUME ServerOK, RunOK, GetIssue
    PROVE  RunOK'
PROOF
  <1>1. /\ run' = [run EXCEPT !.project = [id |-> issue]]
        /\ pc = "project" /\ pc' = "query" /\ run.kind = "update"
        /\ UNCHANGED <<at, input, outcome>>
    BY DEF GetIssue, Goto, NoProject
  <1>2. [id |-> issue] \in [id : ProjectId]
    BY DEF ServerOK
  <1>3. run' \in Runs /\ run'.project = [id |-> issue] /\ run'.kind = run.kind
    BY <1>1, <1>2 DEF RunOK, Runs
  <1>4. at = 1 /\ 1 \in 1 .. Len(Queries')
    BY <1>1, QueriesFacts DEF RunOK
  <1> QED BY <1>1, <1>2, <1>3, <1>4 DEF RunOK

\* What a list request changes of the run.
LEMMA QueryListFacts ==
    ASSUME ServerOK, RunOK, QueryList
    PROVE  /\ Queries[at] \in List
           /\ \E s \in Scopes(Queries[at]) :
                /\ s \in Scope
                /\ Page(Queries[at], lists[Queries[at]][s]) \in Seq(Element)
                /\ run' = [run EXCEPT !.read[Queries[at]] =
                      [of |-> s, page |-> Page(Queries[at], lists[Queries[at]][s])]]
PROOF
  <1>1. Queries[at] \in List
    <2>1. at \in 1 .. Len(Queries)
      BY DEF RunOK, QueryList
    <2> QED BY <2>1, QueriesFacts, ElementOfSeq
  <1> DEFINE f == Queries[at]
  <1>2. PICK s \in Scopes(f) :
          run' = [run EXCEPT !.read[f] = [of |-> s, page |-> Page(f, lists[f][s])]]
    BY DEF QueryList
  <1> HIDE DEF f
  <1>3. s \in Scope
    <2>1. CASE f \in Global
      BY <1>2, <2>1 DEF Scopes, Scope
    <2>2. CASE f \notin Global
      <3>1. PICK j \in DOMAIN projects : s = projects[j].id
        BY <1>2, <2>2 DEF Scopes
      <3>2. projects[j] \in Project
        BY DEF ServerOK
      <3> QED BY <3>1, <3>2 DEF Project, Scope
    <2> QED BY <2>1, <2>2
  <1>4. lists[f][s] \in Seq(Element)
    BY <1>1, <1>3 DEF ServerOK, f
  <1>5. Page(f, lists[f][s]) \in Seq(Element)
    BY <1>4, PageFacts
  <1> QED BY <1>1, <1>2, <1>3, <1>5 DEF f

LEMMA QueryListType ==
    ASSUME ServerOK, RunOK, QueryList
    PROVE  RunOK'
PROOF
  <1>1. PICK s \in Scope :
          /\ Page(Queries[at], lists[Queries[at]][s]) \in Seq(Element)
          /\ run' = [run EXCEPT !.read[Queries[at]] =
                [of |-> s, page |-> Page(Queries[at], lists[Queries[at]][s])]]
    BY QueryListFacts
  <1>2. run' \in Runs /\ run'.project = run.project /\ run'.kind = run.kind
        /\ run'.manage = run.manage
    <2> DEFINE read == [of |-> s, page |-> Page(Queries[at], lists[Queries[at]][s])]
    <2>1. read \in [of : Scope, page : Seq(Element)] /\ Queries[at] \in List
      BY <1>1, QueryListFacts
    <2>2. run' = [run EXCEPT !.read[Queries[at]] = read]
      BY <1>1
    <2> HIDE DEF read
    <2> QED BY <2>1, <2>2 DEF RunOK, Runs
  <1>3. /\ pc = "query" /\ pc' = IF at = Len(Queries) THEN "edit" ELSE "query"
        /\ at' = at + 1 /\ UNCHANGED <<input, outcome>>
    BY DEF QueryList
  <1>4. pc' = "query" => at' \in 1 .. Len(Queries)
    BY <1>3, QueriesFacts DEF RunOK
  <1>5. Queries' = Queries
    BY <1>2, QueriesStay
  <1> QED BY <1>2, <1>3, <1>4, <1>5 DEF RunOK

\* What an answer changes of the run: an id of the list it was given from.
LEMMA AnswerNameFacts ==
    ASSUME RunOK, NEW q \in Question, NEW i, AnswerName(q, i)
    PROVE  \E k \in Choice(Offered(q), Offered(q)[i].name) :
             /\ i \in DOMAIN Offered(q) /\ k \in DOMAIN Offered(q)
             /\ i \in Nat \ {0} /\ Offered(q)[k].id \in Nat \ {0}
             /\ run' = [run EXCEPT !.answers[q] = Append(@, Offered(q)[k].id),
                                   !.meant[q] = Append(@, i)]
PROOF
  <1>1. PICK k \in Choice(Offered(q), Offered(q)[i].name) :
          run' = [run EXCEPT !.answers[q] = Append(@, Offered(q)[k].id),
                             !.meant[q] = Append(@, i)]
    BY DEF AnswerName
  <1>2. Offered(q) \in Seq(Element)
    <2>1. ListOf(q) \in List
      BY DEF ListOf, Question, List, Global, AnswerName, Asking
    <2> QED BY <2>1 DEF Offered, RunOK, Runs
  <1>3. i \in DOMAIN Offered(q) /\ k \in DOMAIN Offered(q)
    BY <1>1 DEF AnswerName, Choice
  <1>4. i \in Nat \ {0} /\ Offered(q)[k] \in Element
    BY <1>2, <1>3
  <1>5. Offered(q)[k].id \in Nat \ {0}
    BY <1>4 DEF Element
  <1> QED BY <1>1, <1>3, <1>4, <1>5

LEMMA AnswerNameType ==
    ASSUME RunOK, NEW q \in Question, NEW i, AnswerName(q, i)
    PROVE  RunOK'
PROOF
  <1>1. PICK id \in Nat \ {0}, m \in Nat \ {0} :
          run' = [run EXCEPT !.answers[q] = Append(@, id), !.meant[q] = Append(@, m)]
    BY AnswerNameFacts
  <1>2. \A a \in [Question -> Seq(Nat \ {0})], n \in Nat \ {0} :
          [a EXCEPT ![q] = Append(@, n)] \in [Question -> Seq(Nat \ {0})]
    OBVIOUS
  <1>3. run' \in Runs /\ run'.project = run.project /\ run'.kind = run.kind
    BY <1>1, <1>2 DEF RunOK, Runs
  <1>4. /\ pc = "ask" /\ pc' = pc /\ at' \in {at, at + 1}
        /\ UNCHANGED <<input, outcome>>
    BY DEF AnswerName, Asking
  <1> QED BY <1>3, <1>4 DEF RunOK

LEMMA AnswerDoneType ==
    ASSUME RunOK, NEW n \in TypedDone, AnswerDone(n)
    PROVE  RunOK'
PROOF
  <1>1. Converted(n) \in 0 .. Modulus - 1 /\ <<n>> \in Seq(Int)
    BY ConvertedType, ConstantFacts
  <1>2. run' = [run EXCEPT !.done = Converted(n), !.typed = <<n>>]
    BY DEF AnswerDone
  <1>3. run' \in Runs /\ run'.project = run.project /\ run'.kind = run.kind
    BY <1>1, <1>2 DEF RunOK, Runs
  <1>4. pc = "ask" /\ pc' = pc /\ at' = at + 1 /\ UNCHANGED <<input, outcome>>
    BY DEF AnswerDone, Asking
  <1> QED BY <1>3, <1>4 DEF RunOK

\* The steps that leave the locals alone.
LEMMA PlainType ==
    ASSUME RunOK,
           \/ NoSuchProject \/ Fails \/ PrintHeading \/ HeadingAborts \/ PrintIssues
           \/ Edit \/ (\E q \in Question : AnswerNone(q)) \/ SkipDone
           \/ PostSucceeds \/ PostFails \/ EndOfInput
    PROVE  RunOK'
PROOF
  <1>1. CASE NoSuchProject \/ Fails \/ HeadingAborts \/ PrintIssues \/ PostSucceeds
             \/ PostFails
    BY <1>1, EndType DEF NoSuchProject, Fails, HeadingAborts, PrintIssues,
                         PostSucceeds, PostFails
  <1>2. CASE PrintHeading \/ Edit
    BY <1>2, QueriesStay DEF PrintHeading, Edit, Goto, RunOK
  <1>3. CASE (\E q \in Question : AnswerNone(q)) \/ SkipDone
    <2>1. pc = "ask" /\ at' = at + 1 /\ UNCHANGED <<pc, run, input, outcome>>
      BY <1>3 DEF AnswerNone, SkipDone, Asking
    <2> QED BY <2>1 DEF RunOK
  <1>4. CASE EndOfInput
    BY <1>4, QueriesStay DEF EndOfInput, RunOK
  <1> QED BY <1>1, <1>2, <1>3, <1>4

\* What a post tells the server, and where it goes.
LEMMA PostFacts ==
    ASSUME Applies
    PROVE  /\ sent'.project = IF run.kind = "new" THEN run.project.id ELSE issue
           /\ sent'.answers = run.answers
           /\ sent'.done = IF run.done # 101 THEN <<run.done>> ELSE <<>>
           /\ sent' = [project |-> sent'.project, answers |-> sent'.answers,
                       done |-> sent'.done]
           /\ \E i \in DOMAIN projects : projects[i].id = sent'.project
PROOF
  <1>1. Receiver = IF run.kind = "new" THEN run.project.id ELSE issue
    BY DEF Receiver, Body
  <1>2. sent' = [project |-> Receiver, answers |-> run.answers,
                 done |-> IF run.done # 101 THEN <<run.done>> ELSE <<>>]
    BY DEF Applies, Body
  <1>3. /\ sent'.project = Receiver /\ sent'.answers = run.answers
        /\ sent'.done = IF run.done # 101 THEN <<run.done>> ELSE <<>>
    BY <1>2
  <1>4. \E i \in DOMAIN projects : projects[i].id = Receiver
    BY DEF Applies
  <1> QED BY <1>1, <1>2, <1>3, <1>4

LEMMA PostType ==
    ASSUME ServerOK, RunOK, pc = "ask", Applies
    PROVE  sent' \in Posts /\ sent' # NoPost
PROOF
  <1>1. sent'.project \in ProjectId
    BY PostFacts DEF ServerOK, RunOK, Project
  <1>2. (IF run.done # 101 THEN <<run.done>> ELSE <<>>) \in Seq(0 .. Modulus - 1)
    <2>1. run.done \in 0 .. Modulus - 1
      BY DEF RunOK, Runs
    <2>2. \A S, d : d \in S => <<d>> \in Seq(S) /\ <<>> \in Seq(S)
      OBVIOUS
    <2> QED BY <2>1, <2>2
  <1>3. run.answers \in [Question -> Seq(Nat \ {0})]
    BY DEF RunOK, Runs
  <1>4. 0 \notin ProjectId
    BY ConstantFacts
  <1> QED BY <1>1, <1>2, <1>3, <1>4, PostFacts DEF Posts, NoPost

LEMMA OtherUsersType ==
    ASSUME ServerOK, OtherUsers
    PROVE  ServerOK' /\ UNCHANGED <<pc, at, run, input, outcome, sent>>
PROOF
  <1>1. ASSUME Changed PROVE changes' \in 0 .. MaxChanges
    BY <1>1, ConstantFacts DEF Changed, ServerOK
  <1>2. ASSUME NEW f \in List, NEW s \in Scope, NEW list \in Contents,
               ChangeList(f, s, list)
        PROVE  ServerOK' /\ UNCHANGED <<pc, at, run, input, outcome, sent>>
    <2>1. list \in Seq(Element)
      BY ConstantFacts
    <2>2. lists' \in [List -> [Scope -> Seq(Element)]]
      BY <1>2, <2>1 DEF ChangeList, ServerOK
    <2>3. past' \in [List -> [Scope -> SUBSET Seq(Element)]]
      BY <1>2, <2>1 DEF ChangeList, ServerOK
    <2> QED BY <1>1, <1>2, <2>2, <2>3 DEF ChangeList, ServerOK
  <1>3. ASSUME NEW i \in DOMAIN projects, DeleteProject(i)
        PROVE  ServerOK' /\ UNCHANGED <<pc, at, run, input, outcome, sent>>
    <2>1. projects' \in Seq(Project)
      BY <1>3, RemoveFacts DEF DeleteProject, ServerOK
    <2> QED BY <1>1, <1>3, <2>1 DEF DeleteProject, ServerOK
  <1>4. ASSUME NEW project \in Created, CreateProject(project)
        PROVE  ServerOK' /\ UNCHANGED <<pc, at, run, input, outcome, sent>>
    <2>1. project \in Project /\ project.id \in ProjectId
      BY ConstantFacts DEF Project
    <2> QED BY <1>1, <1>4, <2>1 DEF CreateProject, ServerOK
  <1>5. ASSUME NEW id \in ProjectId, MoveIssue(id)
        PROVE  ServerOK' /\ UNCHANGED <<pc, at, run, input, outcome, sent>>
    BY <1>1, <1>5 DEF MoveIssue, ServerOK
  <1> QED BY <1>2, <1>3, <1>4, <1>5 DEF OtherUsers

\* Only a post is seen on the server.
LEMMA StepFrame ==
    ASSUME Step
    PROVE  UNCHANGED server /\ (sent' = sent \/ (ReadyToPost /\ Applies))
  BY DEF Step, FindProject, NoSuchProject, GetIssue, QueryList, Fails, PrintHeading,
         HeadingAborts, PrintIssues, Edit, AnswerName, AnswerNone, AnswerDone, SkipDone,
         PostSucceeds, PostFails, End

LEMMA NextType == TypeOK /\ [Next]_vars => TypeOK'
PROOF
  <1> SUFFICES ASSUME ServerOK, RunOK, sent \in Posts, [Next]_vars
               PROVE  ServerOK' /\ RunOK' /\ sent' \in Posts
    BY TypeParts DEF TypeOK, ServerOK, RunOK
  <1>1. ASSUME UNCHANGED vars
        PROVE  ServerOK' /\ RunOK' /\ sent' \in Posts
    BY <1>1, ServerStays, RunStays DEF vars, server
  <1>2. CASE Step
    <2>1. RunOK'
      BY <1>2, FindProjectType, GetIssueType, QueryListType, AnswerNameType,
         AnswerDoneType, PlainType DEF Step
    <2>2. ReadyToPost /\ Applies => sent' \in Posts
      BY PostType DEF ReadyToPost
    <2> QED BY <1>2, <2>1, <2>2, StepFrame, ServerStays
  <1>3. CASE EndOfInput
    BY <1>3, PlainType, ServerStays DEF EndOfInput
  <1>4. CASE OtherUsers
    BY <1>4, OtherUsersType, RunStays
  <1> QED BY <1>1, <1>2, <1>3, <1>4 DEF Next, Stays

\* Every variable keeps its type; the project that a run asks its lists for is
\* one, and the posted ids are ids.
THEOREM QuestionsTypeCorrect == Spec => []TypeOK
  BY TypesInitially, NextType, PTL DEF Spec

-----------------------------------------------------------------------------
(***************************************************************************)
(* What the promises need to know of a step: the five that change the run, *)
(* the post, those of the other users, and the rest.                       *)
(***************************************************************************)

Posted == ReadyToPost /\ Applies /\ pc' = "end" /\ UNCHANGED <<server, run>>

Quiet ==
    /\ UNCHANGED <<server, run, sent>>
    /\ \/ pc' \in {pc, "end"}
       \/ pc = "heading" /\ pc' = "issues"
       \/ pc = "edit" /\ pc' = "ask"

LEMMA StepCases ==
    ASSUME [Next]_vars
    PROVE  \/ FindProject \/ GetIssue \/ QueryList
           \/ \E q \in Question : \E i \in DOMAIN Offered(q) : AnswerName(q, i)
           \/ \E n \in TypedDone : AnswerDone(n)
           \/ Posted \/ Quiet
           \/ OtherUsers /\ UNCHANGED <<pc, run, sent>> /\ pc # "end"
PROOF
  <1>1. CASE \/ NoSuchProject \/ Fails \/ PrintHeading \/ HeadingAborts
             \/ PrintIssues \/ Edit \/ (\E q \in Question : AnswerNone(q)) \/ SkipDone
             \/ EndOfInput
    <2>1. Quiet
      BY <1>1 DEF NoSuchProject, Fails, PrintHeading, HeadingAborts, PrintIssues, Edit,
                  AnswerNone, SkipDone, EndOfInput, Quiet, End, Goto
    <2> QED BY <2>1
  <1>2. CASE PostSucceeds \/ PostFails
    <2>1. /\ ReadyToPost /\ pc' = "end" /\ UNCHANGED <<server, run>>
          /\ Applies \/ UNCHANGED sent
      BY <1>2 DEF PostSucceeds, PostFails, End
    <2> QED BY <2>1 DEF Posted, Quiet
  <1>3. CASE OtherUsers
    BY <1>3 DEF OtherUsers, ChangeList, DeleteProject, CreateProject, MoveIssue, Changed
  <1>4. CASE UNCHANGED vars
    BY <1>4 DEF Quiet, vars, server
  <1> QED BY <1>1, <1>2, <1>3, <1>4 DEF Next, Step, Stays

SentAtEnd == sent # NoPost => pc = "end"

LEMMA SentKept == SentAtEnd /\ [Next]_vars => SentAtEnd'
PROOF
  <1> SUFFICES ASSUME SentAtEnd, [Next]_vars PROVE SentAtEnd'
    OBVIOUS
  <1>1. CASE \/ FindProject \/ GetIssue \/ QueryList
             \/ \E q \in Question : \E i \in DOMAIN Offered(q) : AnswerName(q, i)
             \/ \E n \in TypedDone : AnswerDone(n)
    <2>1. pc # "end" /\ sent' = sent
      BY <1>1 DEF FindProject, GetIssue, QueryList, AnswerName, AnswerDone, Asking, Goto
    <2> QED BY <2>1 DEF SentAtEnd
  <1>2. CASE Posted \/ Quiet \/ (OtherUsers /\ UNCHANGED <<pc, run, sent>>)
    BY <1>2 DEF SentAtEnd, Posted, Quiet
  <1> QED BY <1>1, <1>2, StepCases

-----------------------------------------------------------------------------
(***************************************************************************)
(* The done ratio.                                                         *)
(***************************************************************************)

DoneInv ==
    /\ run.done = 101 <=> run.typed = <<>>
    /\ \A n \in 0 .. 100 : run.typed = <<n>> => run.done = n
    /\ SentAtEnd
    /\ DoneIsPosted

LEMMA DoneKept == TypeOK /\ DoneInv /\ [Next]_vars => DoneInv'
PROOF
  <1> SUFFICES ASSUME RunOK, DoneInv, [Next]_vars PROVE DoneInv'
    BY TypeParts
  <1>0. SentAtEnd'
    BY SentKept DEF DoneInv
  <1>1. CASE /\ run'.done = run.done /\ run'.typed = run.typed
             /\ sent' = sent
    BY <1>0, <1>1 DEF DoneInv, DoneIsPosted
  <1>2. CASE \/ FindProject \/ GetIssue \/ QueryList
             \/ \E q \in Question : \E i \in DOMAIN Offered(q) : AnswerName(q, i)
    <2>1. run'.done = run.done /\ run'.typed = run.typed /\ sent' = sent
      BY <1>2 DEF RunOK, Runs, FindProject, GetIssue, QueryList, AnswerName
    <2> QED BY <1>1, <2>1
  <1>3. ASSUME NEW n \in TypedDone, AnswerDone(n)
        PROVE  DoneInv'
    <2>1. /\ run'.done = Converted(n) /\ run'.typed = <<n>> /\ sent' = sent
          /\ pc = "ask" /\ Converted(n) % 5 = 0
      BY <1>3 DEF RunOK, Runs, AnswerDone, Asking
    <2>2. Converted(n) # 101
      BY <2>1
    <2>3. \A m \in 0 .. 100 : <<n>> = <<m>> => Converted(n) = m
      BY SmallConverted
    <2>4. sent' = NoPost
      BY <2>1 DEF DoneInv, SentAtEnd
    <2> QED BY <1>0, <2>1, <2>2, <2>3, <2>4 DEF DoneInv, DoneIsPosted
  <1>4. CASE Posted
    <2>1. run' = run /\ sent'.done = IF run.done # 101 THEN <<run.done>> ELSE <<>>
      BY <1>4, PostFacts DEF Posted
    <2>3. \A d : <<d>> # <<>>
      OBVIOUS
    <2>4. sent'.done = <<>> <=> run.typed = <<>>
      <3>1. run.done = 101 <=> run.typed = <<>>
        BY DEF DoneInv
      <3> QED BY <2>1, <2>3, <3>1
    <2>5. ASSUME NEW n \in 0 .. 100, run.typed = <<n>>
          PROVE  sent'.done = <<n>>
      <3>1. run.done = n /\ n # 101
        BY <2>5 DEF DoneInv
      <3> QED BY <2>1, <3>1
    <2>2. DoneIsPosted'
      BY <2>1, <2>4, <2>5 DEF DoneIsPosted
    <2> QED BY <1>0, <2>1, <2>2 DEF DoneInv
  <1>5. CASE Quiet \/ (OtherUsers /\ UNCHANGED <<pc, run, sent>>)
    BY <1>1, <1>5 DEF Quiet
  <1> QED BY <1>2, <1>3, <1>4, <1>5, StepCases

\* A done ratio is posted if and only if one was typed; one that is one is
\* posted as it was typed, and 101 cannot be typed.
THEOREM TypedDoneIsPosted == Spec => []DoneIsPosted
PROOF
  <1>1. Init => DoneInv
    BY DEF Init, NewRun, DoneInv, SentAtEnd, DoneIsPosted
  <1>2. DoneInv => DoneIsPosted
    BY DEF DoneInv
  <1> QED BY <1>1, <1>2, TypesInitially, NextType, DoneKept, PTL DEF Spec

-----------------------------------------------------------------------------
(***************************************************************************)
(* The lists.                                                              *)
(***************************************************************************)

ListsInv ==
    /\ \A f \in List, s \in Scope : lists[f][s] \in past[f][s]
    /\ \A f \in List : run.read[f] # Nothing =>
         \E list \in past[f][run.read[f].of] : run.read[f].page = Page(f, list)

LEMMA PastGrows ==
    ASSUME ServerOK, [Next]_vars, NEW f \in List, NEW s \in Scope
    PROVE  /\ past[f][s] \subseteq past'[f][s]
           /\ lists[f][s] \in past[f][s] => lists'[f][s] \in past'[f][s]
PROOF
  <1>1. ASSUME NEW g \in List, NEW z \in Scope, NEW list \in Contents,
               ChangeList(g, z, list)
        PROVE  /\ past[f][s] \subseteq past'[f][s]
               /\ lists[f][s] \in past[f][s] => lists'[f][s] \in past'[f][s]
    BY <1>1 DEF ChangeList, ServerOK
  <1>2. ASSUME UNCHANGED <<lists, past>>
        PROVE  /\ past[f][s] \subseteq past'[f][s]
               /\ lists[f][s] \in past[f][s] => lists'[f][s] \in past'[f][s]
    BY <1>2
  <1>3. OtherUsers => \/ UNCHANGED <<lists, past>>
                      \/ \E g \in List, z \in Scope, list \in Contents :
                           ChangeList(g, z, list)
    BY DEF OtherUsers, DeleteProject, CreateProject, MoveIssue
  <1>4. ~OtherUsers => UNCHANGED <<lists, past>>
    BY StepFrame DEF Next, EndOfInput, Stays, server, vars
  <1> QED BY <1>1, <1>2, <1>3, <1>4

LEMMA ListsKept == TypeOK /\ ListsInv /\ [Next]_vars => ListsInv'
PROOF
  <1> SUFFICES ASSUME ServerOK, RunOK, ListsInv, [Next]_vars PROVE ListsInv'
    BY TypeParts
  <1>1. \A f \in List, s \in Scope : lists'[f][s] \in past'[f][s]
    BY PastGrows DEF ListsInv
  <1>2. \A f \in List : run.read[f].of \in Scope
    BY DEF RunOK, Runs
  <1>3. ASSUME NEW f \in List, run'.read[f] = run.read[f], run'.read[f] # Nothing
        PROVE  \E list \in past'[f][run'.read[f].of] : run'.read[f].page = Page(f, list)
    BY <1>2, <1>3, PastGrows DEF ListsInv
  <1>4. CASE run'.read = run.read
    BY <1>1, <1>3, <1>4 DEF ListsInv
  <1>5. CASE QueryList
    <2> DEFINE g == Queries[at]
    <2>1. PICK s \in Scope :
            run' = [run EXCEPT !.read[g] = [of |-> s, page |-> Page(g, lists[g][s])]]
      BY <1>5, QueryListFacts
    <2>2. g \in List
      BY <1>5, QueryListFacts
    <2> HIDE DEF g
    <2>3. /\ run'.read[g] = [of |-> s, page |-> Page(g, lists[g][s])]
          /\ \A f \in List \ {g} : run'.read[f] = run.read[f]
      BY <2>1, <2>2 DEF RunOK, Runs
    <2>4. lists[g][s] \in past'[g][s]
      BY <2>2, PastGrows DEF ListsInv
    <2> QED BY <1>1, <1>3, <2>3, <2>4 DEF ListsInv
  <1>6. CASE \/ FindProject \/ GetIssue
             \/ \E q \in Question : \E i \in DOMAIN Offered(q) : AnswerName(q, i)
             \/ \E n \in TypedDone : AnswerDone(n)
    <2>1. run'.read = run.read
      BY <1>6 DEF RunOK, Runs, FindProject, GetIssue, AnswerName, AnswerDone
    <2> QED BY <1>4, <2>1
  <1>7. CASE Posted \/ Quiet \/ (OtherUsers /\ UNCHANGED <<pc, run, sent>>)
    BY <1>4, <1>7 DEF Posted, Quiet
  <1> QED BY <1>5, <1>6, <1>7, StepCases

\* A list that is used is one the server had since the run began, or its first
\* page.
THEOREM ReadListsAreSnapshots == Spec => []ListsAreSnapshots
PROOF
  <1>1. TypeOK /\ Init => ListsInv
    <2> SUFFICES ASSUME ServerOK, Init PROVE ListsInv
      BY TypeParts
    <2>1. \A f \in List : run.read[f] = Nothing
      BY DEF Init, NewRun
    <2>2. \A f \in List, s \in Scope : past[f][s] = {lists[f][s]}
      BY DEF Init
    <2> QED BY <2>1, <2>2 DEF ListsInv
  <1>2. TypeOK /\ ListsInv => ListsAreSnapshots
    <2> SUFFICES ASSUME ServerOK, RunOK, ListsInv, NEW f \in List,
                        run.read[f] # Nothing
                 PROVE  \E list \in past[f][run.read[f].of] :
                          /\ run.read[f].page = Page(f, list)
                          /\ Len(run.read[f].page) < PageSize =>
                               run.read[f].page = list
      BY TypeParts DEF ListsAreSnapshots
    <2>1. PICK list \in past[f][run.read[f].of] : run.read[f].page = Page(f, list)
      BY DEF ListsInv
    <2>2. list \in Seq(Element)
      <3>1. run.read[f].of \in Scope
        BY DEF RunOK, Runs
      <3> QED BY <3>1 DEF ServerOK
    <2> QED BY <2>1, <2>2, PageFacts
  <1> QED BY <1>1, <1>2, TypesInitially, NextType, ListsKept, PTL DEF Spec

-----------------------------------------------------------------------------
(***************************************************************************)
(* The answers.                                                            *)
(***************************************************************************)

\* An id is that of the element meant, or that one is behind a namesake.
Wanted(page, i, id) ==
    id = page[i].id \/ \E j \in 1 .. i - 1 : page[j].name = page[i].name

AnswersInv ==
    /\ pc \in {"project", "query", "edit"} =>
         \A q \in Question : run.answers[q] = <<>>
    /\ \A q \in Question :
         /\ Len(run.answers[q]) = Len(run.meant[q])
         /\ \A n \in DOMAIN run.answers[q] :
              Wanted(Offered(q), run.meant[q][n], run.answers[q][n])
    /\ SentAtEnd
    /\ IntendedIsPosted

\* The first namesake is at most where the element is.
LEMMA ChoiceIsWanted ==
    ASSUME NEW page \in Seq(Element), NEW i \in DOMAIN page,
           NEW k \in Choice(page, page[i].name)
    PROVE  Wanted(page, i, page[k].id)
PROOF
  <1>1. /\ k \in DOMAIN page /\ page[k].name = page[i].name
        /\ \A j \in 1 .. k - 1 : page[j].name # page[i].name
    BY DEF Choice
  <1>2. i \in Nat \ {0} /\ k \in Nat \ {0}
    BY <1>1
  <1>3. ~(i < k)
    BY <1>1, <1>2
  <1> QED BY <1>1, <1>2, <1>3 DEF Wanted

LEMMA AnswersKept == TypeOK /\ AnswersInv /\ [Next]_vars => AnswersInv'
PROOF
  <1> SUFFICES ASSUME ServerOK, RunOK, AnswersInv, [Next]_vars PROVE AnswersInv'
    BY TypeParts
  <1>0. SentAtEnd'
    BY SentKept DEF AnswersInv
  <1>1. CASE /\ run'.answers = run.answers /\ run'.meant = run.meant
             /\ run'.read = run.read /\ sent' = sent
             /\ pc' \in {"project", "query", "edit"} =>
                  pc \in {"project", "query", "edit"}
    BY <1>0, <1>1 DEF AnswersInv, IntendedIsPosted, Offered
  <1>2. CASE QueryList
    <2>1. /\ run'.answers = run.answers /\ run'.meant = run.meant
          /\ pc = "query" /\ sent' = sent
      BY <1>2 DEF RunOK, Runs, QueryList
    <2>2. sent' = NoPost
      BY <2>1 DEF AnswersInv, SentAtEnd
    <2>3. \A q \in Question : run'.answers[q] = <<>>
                              /\ Len(run'.answers[q]) = Len(run'.meant[q])
      BY <2>1 DEF AnswersInv
    <2> QED BY <1>0, <2>2, <2>3 DEF AnswersInv, IntendedIsPosted
  <1>3. ASSUME NEW q \in Question, NEW i \in DOMAIN Offered(q), AnswerName(q, i)
        PROVE  AnswersInv'
    <2>1. PICK k \in Choice(Offered(q), Offered(q)[i].name) :
            /\ i \in Nat \ {0} /\ Offered(q)[k].id \in Nat \ {0}
            /\ run' = [run EXCEPT !.answers[q] = Append(@, Offered(q)[k].id),
                                  !.meant[q] = Append(@, i)]
      BY <1>3, AnswerNameFacts
    <2> DEFINE id == Offered(q)[k].id
    <2>2. /\ pc = "ask" /\ pc' = "ask" /\ sent' = sent
      BY <1>3 DEF AnswerName, Asking
    <2>3. Offered(q) \in Seq(Element)
      <3>1. ListOf(q) \in List
        BY DEF ListOf, Question, List, Global
      <3> QED BY <3>1 DEF Offered, RunOK, Runs
    <2>4. Wanted(Offered(q), i, id)
      BY <2>3, ChoiceIsWanted
    <2>5. id \in Nat \ {0}
      BY <2>1
    <2>6. run' = [run EXCEPT !.answers[q] = Append(@, id), !.meant[q] = Append(@, i)]
      BY <2>1
    <2> HIDE DEF id
    <2>7. /\ run'.answers = [run.answers EXCEPT ![q] = Append(@, id)]
          /\ run'.meant = [run.meant EXCEPT ![q] = Append(@, i)]
          /\ run'.read = run.read
      BY <2>6 DEF RunOK, Runs
    <2>8. /\ run.answers \in [Question -> Seq(Nat \ {0})]
          /\ run.meant \in [Question -> Seq(Nat \ {0})]
      BY DEF RunOK, Runs
    <2>9. /\ run'.answers[q] = Append(run.answers[q], id)
          /\ run'.meant[q] = Append(run.meant[q], i)
          /\ \A r \in Question \ {q} : run'.answers[r] = run.answers[r]
                                       /\ run'.meant[r] = run.meant[r]
      BY <2>7, <2>8
    <2>10. \A r \in Question : Offered(r)' = Offered(r)
      BY <2>7 DEF Offered
    <2>11. /\ Len(run.answers[q]) = Len(run.meant[q])
           /\ \A n \in DOMAIN run.answers[q] :
                Wanted(Offered(q), run.meant[q][n], run.answers[q][n])
      BY DEF AnswersInv
    <2>12. Len(run'.answers[q]) = Len(run'.meant[q])
      BY <2>8, <2>9, <2>11, AppendProperties, <2>5, <2>1
    <2>13. ASSUME NEW n \in DOMAIN run'.answers[q]
           PROVE  Wanted(Offered(q), run'.meant[q][n], run'.answers[q][n])
      <3> DEFINE m == Len(run.answers[q])
      <3>1. /\ m \in Nat /\ DOMAIN run'.answers[q] = 1 .. m + 1
            /\ \A j \in 1 .. m : run'.answers[q][j] = run.answers[q][j]
                                 /\ run'.meant[q][j] = run.meant[q][j]
            /\ run'.answers[q][m + 1] = id /\ run'.meant[q][m + 1] = i
            /\ DOMAIN run.answers[q] = 1 .. m
        BY <2>1, <2>5, <2>8, <2>9, <2>11, AppendProperties
      <3> HIDE DEF m
      <3>2. CASE n = m + 1
        BY <2>4, <3>1, <3>2
      <3>3. CASE n # m + 1
        BY <2>11, <3>1, <3>3
      <3> QED BY <3>2, <3>3
    <2>14. sent' = NoPost
      BY <2>2 DEF AnswersInv, SentAtEnd
    <2>15. \A r \in Question :
             /\ Len(run'.answers[r]) = Len(run'.meant[r])
             /\ \A n \in DOMAIN run'.answers[r] :
                  Wanted(Offered(r), run'.meant[r][n], run'.answers[r][n])
      BY <2>9, <2>12, <2>13 DEF AnswersInv
    <2> QED BY <1>0, <2>2, <2>10, <2>14, <2>15 DEF AnswersInv, IntendedIsPosted
  <1>4. CASE FindProject \/ GetIssue \/ \E n \in TypedDone : AnswerDone(n)
    <2>1. /\ run'.answers = run.answers /\ run'.meant = run.meant
          /\ run'.read = run.read /\ sent' = sent
      BY <1>4 DEF RunOK, Runs, FindProject, GetIssue, AnswerDone
    <2>2. pc = "project" \/ pc' = pc
      BY <1>4 DEF FindProject, GetIssue, AnswerDone, Goto
    <2> QED BY <1>1, <2>1, <2>2
  <1>5. CASE Posted
    <2>1. run' = run /\ pc' = "end" /\ sent'.answers = run.answers
      BY <1>5, PostFacts DEF Posted
    <2>2. IntendedIsPosted'
      BY <2>1 DEF AnswersInv, Wanted, IntendedIsPosted, Offered
    <2>3. \A q \in Question : Offered(q)' = Offered(q)
      BY <2>1 DEF Offered
    <2> QED BY <1>0, <2>1, <2>2, <2>3 DEF AnswersInv
  <1>6. CASE Quiet \/ (OtherUsers /\ UNCHANGED <<pc, run, sent>>)
    BY <1>1, <1>6 DEF Quiet
  <1> QED BY <1>2, <1>3, <1>4, <1>5, <1>6, StepCases

\* What the server got of an answer is what the user had in mind, unless it has a
\* namesake before it in the list.
THEOREM AnswersAreIntended == Spec => []IntendedIsPosted
PROOF
  <1>1. Init => AnswersInv
    BY DEF Init, NewRun, AnswersInv, SentAtEnd, IntendedIsPosted
  <1>2. AnswersInv => IntendedIsPosted
    BY DEF AnswersInv
  <1> QED BY <1>1, <1>2, TypesInitially, NextType, AnswersKept, PTL DEF Spec

-----------------------------------------------------------------------------
(***************************************************************************)
(* The project that was found, and the lists of it.                        *)
(***************************************************************************)

IsLive(id) == \E i \in DOMAIN projects : projects[i].id = id

Reading == {"query", "edit", "ask"}

\* The identifier of a run's project is not given to another project with its
\* id, because ids are not given twice; it may be given to one with another id,
\* but then the run's project is gone.
OwnInv ==
    /\ Identified(projects)
    /\ \A i \in DOMAIN projects : projects[i].id \in used
    /\ pc \in Reading =>
         /\ run.kind \in {"new", "update"}
         /\ run.kind = "new" =>
              /\ run.project.id \in used
              /\ \A i \in DOMAIN projects :
                   projects[i].id = run.project.id =>
                     projects[i].identifier = run.project.identifier
    /\ pc = "project" => \A f \in List : run.read[f] = Nothing
    /\ pc \in Reading /\ (run.kind = "new" => IsLive(run.project.id)) =>
         \A f \in List \ Global :
           run.read[f].page # <<>> => run.read[f].of = run.project.id
    /\ SentAtEnd
    /\ PostedFromOwnLists

LEMMA RemovedIdentified ==
    ASSUME projects \in Seq(Project), Identified(projects), NEW i \in DOMAIN projects
    PROVE  /\ Identified(RemoveAt(projects, i))
           /\ \A k \in DOMAIN RemoveAt(projects, i) :
                \E j \in DOMAIN projects : RemoveAt(projects, i)[k] = projects[j]
PROOF
  <1> DEFINE rest == RemoveAt(projects, i)
             old(k) == IF k < i THEN k ELSE k + 1
  <1>1. Len(projects) \in Nat /\ DOMAIN projects = 1 .. Len(projects)
    OBVIOUS
  <1>2. /\ DOMAIN rest = 1 .. Len(projects) - 1
        /\ \A k \in DOMAIN rest :
             old(k) \in DOMAIN projects /\ rest[k] = projects[old(k)]
    BY <1>1, RemoveFacts
  <1>3. \A k, l \in DOMAIN rest : old(k) = old(l) => k = l
    BY <1>1, <1>2
  <1> HIDE DEF rest, old
  <1>4. Identified(rest)
    BY <1>2, <1>3 DEF Identified
  <1> QED BY <1>2, <1>4 DEF rest

\* Other users take projects away, or add some with ids that are new.
LEMMA OthersKeepIds ==
    ASSUME ServerOK, Identified(projects),
           \A i \in DOMAIN projects : projects[i].id \in used,
           OtherUsers
    PROVE  /\ Identified(projects') /\ used \subseteq used'
           /\ \A i \in DOMAIN projects' : projects'[i].id \in used'
           /\ \A i \in DOMAIN projects' : projects'[i].id \in used =>
                \E j \in DOMAIN projects : projects'[i] = projects[j]
PROOF
  <1>1. CASE UNCHANGED <<projects, used>>
    BY <1>1 DEF Identified
  <1>2. ASSUME NEW i \in DOMAIN projects, DeleteProject(i)
        PROVE  /\ Identified(projects') /\ used \subseteq used'
               /\ \A k \in DOMAIN projects' :
                    /\ projects'[k].id \in used'
                    /\ \E j \in DOMAIN projects : projects'[k] = projects[j]
    BY <1>2, RemovedIdentified DEF DeleteProject, ServerOK
  <1>3. ASSUME NEW project \in Created, CreateProject(project)
        PROVE  /\ Identified(projects') /\ used \subseteq used'
               /\ \A k \in DOMAIN projects' :
                    /\ projects'[k].id \in used'
                    /\ projects'[k].id \in used =>
                         \E j \in DOMAIN projects : projects'[k] = projects[j]
    <2>1. /\ DOMAIN projects = 1 .. Len(projects) /\ Len(projects) \in Nat
          /\ DOMAIN projects' = 1 .. Len(projects) + 1
          /\ \A k \in DOMAIN projects : projects'[k] = projects[k]
          /\ projects'[Len(projects) + 1] = project
      BY <1>3 DEF CreateProject, ServerOK
    <2>2. /\ used' = used \cup {project.id} /\ project.id \notin used
          /\ \A k \in DOMAIN projects : projects[k].identifier # project.identifier
      BY <1>3 DEF CreateProject
    <2>3. \A k \in DOMAIN projects' : k \in DOMAIN projects \/ k = Len(projects) + 1
      BY <2>1
    <2>4. Identified(projects')
      BY <2>1, <2>2, <2>3 DEF Identified
    <2> QED BY <2>1, <2>2, <2>3, <2>4
  <1>4. OtherUsers => \/ UNCHANGED <<projects, used>>
                      \/ \E i \in DOMAIN projects : DeleteProject(i)
                      \/ \E project \in Created : CreateProject(project)
    BY DEF OtherUsers, ChangeList, MoveIssue
  <1> QED BY <1>1, <1>2, <1>3, <1>4

LEMMA OwnKept == TypeOK /\ OwnInv /\ [Next]_vars => OwnInv'
PROOF
  <1> SUFFICES ASSUME ServerOK, RunOK, OwnInv, [Next]_vars PROVE OwnInv'
    BY TypeParts
  <1>0. SentAtEnd'
    BY SentKept DEF OwnInv
  <1>1. CASE FindProject
    <2> DEFINE rows == Page("project", projects)
    <2>1. PICK i \in Found(rows, run.asked) :
            run' = [run EXCEPT !.rows = rows, !.project = rows[i]]
      BY <1>1 DEF FindProject
    <2>2. i \in DOMAIN rows
      BY <2>1 DEF Found
    <2>3. PICK j \in DOMAIN projects : rows[i] = projects[j]
      BY <2>2, PageFacts DEF ServerOK
    <2>4. /\ run'.project = projects[j] /\ run'.kind = run.kind
          /\ run'.read = run.read
      BY <2>1, <2>3 DEF RunOK, Runs
    <2>5. /\ pc = "project" /\ pc' = IF run.kind = "new" THEN "query" ELSE "heading"
          /\ UNCHANGED <<projects, used, sent>>
      BY <1>1 DEF FindProject, Goto, server
    <2>6. \A f \in List : run'.read[f] = Nothing
      BY <2>4, <2>5 DEF OwnInv
    <2>7. sent' = NoPost
      BY <2>5 DEF OwnInv, SentAtEnd
    <2>8. \A k \in DOMAIN projects : projects[k].id = projects[j].id => k = j
      BY DEF OwnInv, Identified
    <2> QED BY <1>0, <2>4, <2>5, <2>6, <2>7, <2>8
            DEF OwnInv, Identified, Reading, Nothing, PostedFromOwnLists
  <1>2. CASE GetIssue
    <2>1. /\ run'.kind = run.kind /\ run.kind = "update" /\ run'.read = run.read
          /\ pc = "project" /\ pc' = "query" /\ UNCHANGED <<projects, used, sent>>
      BY <1>2 DEF RunOK, Runs, GetIssue, Goto, server
    <2>2. \A f \in List : run'.read[f] = Nothing
      BY <2>1 DEF OwnInv
    <2>3. sent' = NoPost
      BY <2>1 DEF OwnInv, SentAtEnd
    <2> QED BY <1>0, <2>1, <2>2, <2>3
            DEF OwnInv, Identified, Reading, Nothing, PostedFromOwnLists
  <1>3. CASE QueryList
    <2> DEFINE g == Queries[at]
    <2>1. PICK s \in Scopes(g) :
            run' = [run EXCEPT !.read[g] = [of |-> s, page |-> Page(g, lists[g][s])]]
      BY <1>3, QueryListFacts
    <2>2. g \in List
      BY <1>3, QueryListFacts
    <2> HIDE DEF g
    <2>3. /\ run'.read[g].of = s
          /\ \A f \in List \ {g} : run'.read[f] = run.read[f]
          /\ run'.kind = run.kind /\ run'.project = run.project
      BY <2>1, <2>2 DEF RunOK, Runs
    <2>4. /\ pc = "query" /\ pc' \in {"query", "edit"}
          /\ UNCHANGED <<projects, used, sent>>
      BY <1>3 DEF QueryList, server
    <2>5. sent' = NoPost
      BY <2>4 DEF OwnInv, SentAtEnd
    <2>6. ASSUME g \notin Global, run.kind = "new" => IsLive(run.project.id)
          PROVE  s = run.project.id
      <3>1. PICK j \in DOMAIN projects :
              /\ s = projects[j].id
              /\ IF run.kind = "update" THEN projects[j].id = run.project.id
                 ELSE projects[j].identifier = run.project.identifier
        BY <2>6 DEF Scopes
      <3>2. CASE run.kind = "update"
        BY <3>1, <3>2
      <3>3. CASE run.kind = "new"
        <4>1. PICK i \in DOMAIN projects : projects[i].id = run.project.id
          BY <2>6, <3>3 DEF IsLive
        <4>2. projects[i].identifier = run.project.identifier
          BY <2>4, <3>3, <4>1 DEF OwnInv, Reading
        <4>3. i = j
          BY <3>1, <3>3, <4>2 DEF OwnInv, Identified
        <4> QED BY <3>1, <4>1, <4>3
      <3>4. run.kind \in {"new", "update"}
        BY <2>4 DEF OwnInv, Reading
      <3> QED BY <3>2, <3>3, <3>4
    <2>7. IsLive(run.project.id)' <=> IsLive(run.project.id)
      BY <2>3, <2>4 DEF IsLive
    <2>8. ASSUME run'.kind = "new" => IsLive(run.project.id)',
                 NEW f \in List \ Global, run'.read[f].page # <<>>
          PROVE  run'.read[f].of = run'.project.id
      <3>1. CASE f = g
        BY <2>3, <2>6, <2>7, <2>8, <3>1
      <3>2. CASE f # g
        BY <2>3, <2>4, <2>7, <2>8, <3>2 DEF OwnInv, Reading
      <3> QED BY <3>1, <3>2
    <2>9. /\ Identified(projects)' /\ \A i \in DOMAIN projects' : projects'[i].id \in used'
          /\ run'.kind \in {"new", "update"}
          /\ run'.kind = "new" =>
               /\ run'.project.id \in used'
               /\ \A i \in DOMAIN projects' :
                    projects'[i].id = run'.project.id =>
                      projects'[i].identifier = run'.project.identifier
      BY <2>3, <2>4 DEF OwnInv, Reading, Identified
    <2>10. PostedFromOwnLists'
      BY <2>5 DEF PostedFromOwnLists
    <2> QED BY <1>0, <2>4, <2>8, <2>9, <2>10 DEF OwnInv
  <1>4. CASE \/ \E q \in Question : \E i \in DOMAIN Offered(q) : AnswerName(q, i)
             \/ \E n \in TypedDone : AnswerDone(n)
    <2>1. /\ run'.read = run.read /\ run'.kind = run.kind
          /\ run'.project = run.project
      BY <1>4 DEF RunOK, Runs, AnswerName, AnswerDone
    <2>2. pc = "ask" /\ pc' = "ask" /\ UNCHANGED <<projects, used, sent>>
      BY <1>4 DEF AnswerName, AnswerDone, Asking, server
    <2> QED BY <1>0, <2>1, <2>2
            DEF OwnInv, Identified, Reading, IsLive, PostedFromOwnLists
  <1>5. CASE Posted
    <2>1. /\ pc = "ask" /\ pc' = "end" /\ UNCHANGED <<projects, used, run>>
          /\ run.kind = "new" =>
               sent'.project = run.project.id /\ IsLive(run.project.id)
      BY <1>5, PostFacts DEF Posted, ReadyToPost, IsLive, server
    <2>3. /\ run.kind \in {"new", "update"}
          /\ \A f \in List \ Global :
               run.read[f].page # <<>> => run.read[f].of = run.project.id
      BY <2>1 DEF OwnInv, Reading
    <2>2. PostedFromOwnLists'
      BY <2>1, <2>3 DEF PostedFromOwnLists
    <2> QED BY <1>0, <2>1, <2>2 DEF OwnInv, Identified, Reading
  <1>6. CASE Quiet
    <2>1. UNCHANGED <<projects, used, run, sent>>
      BY <1>6 DEF Quiet, server
    <2>2. (pc' \in Reading => pc \in Reading) /\ (pc' = "project" => pc = "project")
      BY <1>6 DEF Quiet, Reading
    <2> QED BY <1>0, <2>1, <2>2 DEF OwnInv, Identified, IsLive, PostedFromOwnLists
  <1>7. CASE OtherUsers /\ UNCHANGED <<pc, run, sent>>
    <2>1. /\ Identified(projects') /\ used \subseteq used'
          /\ \A i \in DOMAIN projects' : projects'[i].id \in used'
          /\ \A i \in DOMAIN projects' : projects'[i].id \in used =>
               \E j \in DOMAIN projects : projects'[i] = projects[j]
      BY <1>7, OthersKeepIds DEF OwnInv
    <2>3. pc \in Reading /\ run.kind = "new" =>
            /\ run.project.id \in used'
            /\ \A i \in DOMAIN projects' :
                 projects'[i].id = run.project.id =>
                   projects'[i].identifier = run.project.identifier
            /\ IsLive(run.project.id)' => IsLive(run.project.id)
      BY <1>7, <2>1 DEF OwnInv, IsLive
    <2>4. PostedFromOwnLists'
      BY <1>7 DEF OwnInv, PostedFromOwnLists
    <2> QED BY <1>0, <1>7, <2>1, <2>3, <2>4 DEF OwnInv
  <1> QED BY <1>1, <1>2, <1>3, <1>4, <1>5, <1>6, <1>7, StepCases

LEMMA OwnInitially == Init => OwnInv
PROOF
  <1> SUFFICES ASSUME Init PROVE OwnInv
    OBVIOUS
  <1>1. Identified(projects) /\ \A i \in DOMAIN projects : projects[i].id \in used
    BY SiteFacts DEF Init
  <1>2. pc = "project" /\ sent = NoPost /\ \A f \in List : run.read[f] = Nothing
    BY DEF Init, NewRun
  <1> QED BY <1>1, <1>2 DEF OwnInv, Reading, SentAtEnd, PostedFromOwnLists

\* Posted ids of a category, a version or a member come from lists of the project
\* the post reaches; with an update of an issue that was moved since it was read
\* (issue.cpp 611-619, 686), from lists of the project it was in.
THEOREM IdsOfTheProject == Spec => []PostedFromOwnLists
PROOF
  <1>1. OwnInv => PostedFromOwnLists
    BY DEF OwnInv
  <1> QED BY <1>1, TypesInitially, NextType, OwnInitially, OwnKept, PTL DEF Spec

\* The project that was found is the first of the list that the text denotes.
FoundInv ==
    /\ Identified(run.rows)
    /\ pc = "project" => run.rows = <<>>
    /\ run.rows # <<>> =>
         \E k \in Found(run.rows, run.asked) : run.project = run.rows[k]

LEMMA FoundKept == TypeOK /\ OwnInv /\ FoundInv /\ [Next]_vars => FoundInv'
PROOF
  <1> SUFFICES ASSUME ServerOK, RunOK, OwnInv, FoundInv, [Next]_vars PROVE FoundInv'
    BY TypeParts
  <1>1. CASE FindProject
    <2> DEFINE rows == Page("project", projects)
    <2>1. PICK k \in Found(rows, run.asked) :
            run' = [run EXCEPT !.rows = rows, !.project = rows[k]]
      BY <1>1 DEF FindProject
    <2>2. Identified(rows)
      <3>1. \A i \in DOMAIN rows : i \in DOMAIN projects /\ rows[i] = projects[i]
        BY PageFacts DEF ServerOK
      <3> QED BY <3>1 DEF OwnInv, Identified
    <2> HIDE DEF rows
    <2>3. /\ run'.rows = rows /\ run'.project = rows[k] /\ run'.asked = run.asked
          /\ pc' # "project"
      BY <1>1, <2>1 DEF RunOK, Runs, FindProject, Goto
    <2> QED BY <2>1, <2>2, <2>3 DEF FoundInv
  <1>2. CASE /\ run'.rows = run.rows /\ run'.project = run.project
             /\ run'.asked = run.asked /\ (pc' = "project" => pc = "project")
    BY <1>2 DEF FoundInv
  <1>3. CASE GetIssue
    <2>1. run'.rows = run.rows /\ run.rows = <<>> /\ pc' # "project"
      BY <1>3 DEF FoundInv, RunOK, Runs, GetIssue, Goto
    <2> QED BY <2>1 DEF FoundInv
  <1>4. CASE \/ QueryList
             \/ \E q \in Question : \E i \in DOMAIN Offered(q) : AnswerName(q, i)
             \/ \E n \in TypedDone : AnswerDone(n)
    <2>1. /\ run'.rows = run.rows /\ run'.project = run.project
          /\ run'.asked = run.asked /\ pc' # "project"
      BY <1>4 DEF RunOK, Runs, QueryList, AnswerName, AnswerDone, Asking
    <2> QED BY <1>2, <2>1
  <1>5. CASE Posted \/ Quiet \/ (OtherUsers /\ UNCHANGED <<pc, run, sent>>)
    BY <1>2, <1>5 DEF Posted, Quiet
  <1> QED BY <1>1, <1>3, <1>4, <1>5, StepCases

\* A project given by its identifier is the one that is used, unless one before
\* it in the list has that name or that number.
THEOREM IdentifierIsMeant == Spec => []ProjectIsMeant
PROOF
  <1>1. Init => FoundInv
    BY DEF Init, NewRun, FoundInv, Identified
  <1>2. TypeOK /\ FoundInv => ProjectIsMeant
    <2> SUFFICES ASSUME TypeOK, FoundInv, NEW i \in DOMAIN run.rows,
                        run.rows[i].identifier = run.asked
                 PROVE  \/ run.project = run.rows[i]
                        \/ \E j \in 1 .. i - 1 :
                             /\ run.project = run.rows[j]
                             /\ run.asked = run.rows[j].name
                                \/ run.rows[j].id = Number[run.asked]
      BY DEF ProjectIsMeant
    <2>1. run.rows \in Seq(Project)
      BY DEF TypeOK, Runs
    <2>2. run.rows # <<>>
      BY <2>1
    <2>3. PICK k \in Found(run.rows, run.asked) : run.project = run.rows[k]
      BY <2>2 DEF FoundInv
    <2>4. /\ k \in DOMAIN run.rows /\ Denotes(run.rows[k], run.asked)
          /\ \A j \in 1 .. k - 1 : ~Denotes(run.rows[j], run.asked)
      BY <2>3 DEF Found
    <2>5. Denotes(run.rows[i], run.asked)
      BY DEF Denotes
    <2>6. i \in Nat \ {0} /\ k \in Nat \ {0}
      BY <2>1, <2>4
    <2>7. ~(i < k)
      BY <2>4, <2>5, <2>6
    <2>8. CASE k = i
      BY <2>3, <2>8
    <2>9. CASE k < i
      <3>1. run.rows[k].identifier # run.rows[i].identifier
        BY <2>4, <2>6, <2>9 DEF FoundInv, Identified
      <3>2. run.asked = run.rows[k].name \/ run.rows[k].id = Number[run.asked]
        BY <2>4, <3>1 DEF Denotes
      <3> QED BY <2>3, <2>6, <2>9, <3>2
    <2> QED BY <2>6, <2>7, <2>8, <2>9
  <1> QED BY <1>1, <1>2, TypesInitially, NextType, OwnInitially, OwnKept, FoundKept, PTL
          DEF Spec

-----------------------------------------------------------------------------
(***************************************************************************)
(* The heading of a list.                                                  *)
(***************************************************************************)

LEMMA WrapFacts ==
    ASSUME NEW m \in Nat, NEW x \in Int, m > 0
    PROVE  /\ 0 <= x /\ x < m => x % m = x
           /\ -m <= x /\ x < 0 => x % m = x + m
  OBVIOUS

LEMMA HalfFacts ==
    ASSUME NEW x \in Nat
    PROVE  x \div 2 \in Nat /\ 2 * (x \div 2) <= x /\ x <= 2 * (x \div 2) + 1
  OBVIOUS

\* A name has a margin of at most the memory exactly if it is shorter than 40
\* octets: a longer one makes the width wrap around to zero or to far more.
LEMMA MarginFits ==
    ASSUME NEW name \in Text
    PROVE  Margin(name) \in 1 .. Memory <=> Octets[name] < 40
PROOF
  <1> DEFINE m == Modulus * Modulus
             size == Octets[name]
             left == (80 - size) % m
             half == size \div 2
  <1>1. /\ size \in Nat /\ Memory \in Nat /\ Memory >= 40
        /\ m \in Nat /\ 4 * (size + Memory) < m
    BY IssueQuestionsAssumption
  <1>2. Margin(name) = ((left \div 2) - half) % m
    BY DEF Margin
  <1> HIDE DEF m, size
  <1>3. half \in Nat /\ 2 * half <= size /\ size <= 2 * half + 1
    BY <1>1, HalfFacts
  <1>4. CASE size <= 80
    <2>1. left = 80 - size
      BY <1>1, <1>4, WrapFacts
    <2> HIDE DEF left, half
    <2>2. left \in Nat
      BY <1>1, <1>4, <2>1
    <2>3. (left \div 2) \in Nat /\ 2 * (left \div 2) <= left
          /\ left <= 2 * (left \div 2) + 1
      BY <2>2, HalfFacts
    <2> DEFINE rest == (left \div 2) - half
    <2>4. /\ rest \in Int /\ -m <= rest /\ rest < m /\ rest <= 40
          /\ (rest >= 1 <=> size < 40)
      BY <1>1, <1>3, <1>4, <2>1, <2>3
    <2>5. Margin(name) = rest % m
      BY <1>2
    <2>7. rest < 0 => rest + m > Memory
      BY <1>1, <1>3, <1>4, <2>1, <2>3
    <2> HIDE DEF rest
    <2>6. CASE rest >= 0
      BY <1>1, <2>4, <2>5, <2>6, WrapFacts DEF size
    <2>8. CASE rest < 0
      BY <1>1, <2>4, <2>5, <2>7, <2>8, WrapFacts DEF size
    <2> QED BY <2>4, <2>6, <2>8
  <1>5. CASE size > 80
    <2>1. left = 80 - size + m
      BY <1>1, <1>5, WrapFacts
    <2> HIDE DEF left, half
    <2>2. left \in Nat
      BY <1>1, <1>5, <2>1
    <2>3. (left \div 2) \in Nat /\ 2 * (left \div 2) <= left
          /\ left <= 2 * (left \div 2) + 1
      BY <2>2, HalfFacts
    <2> DEFINE rest == (left \div 2) - half
    <2>4. rest \in Int /\ rest > Memory /\ rest < m
      BY <1>1, <1>3, <1>5, <2>1, <2>3
    <2>5. Margin(name) = rest % m
      BY <1>2
    <2> HIDE DEF rest
    <2> QED BY <1>1, <1>5, <2>4, <2>5, WrapFacts DEF size
  <1> QED BY <1>1, <1>4, <1>5

HeadingInv ==
    /\ outcome # "running" => pc = "end"
    /\ pc = "issues" => Octets[run.project.name] < 40
    /\ ShortNamesAreListed

LEMMA HeadingKept == TypeOK /\ OwnInv /\ HeadingInv /\ [Next]_vars => HeadingInv'
PROOF
  <1> SUFFICES ASSUME ServerOK, RunOK, OwnInv, HeadingInv, [Next]_vars
               PROVE  HeadingInv'
    BY TypeParts
  <1>1. ASSUME NEW name, run.project.name = name, name \in Text
        PROVE  Margin(run.project.name) \in 1 .. Memory <=> Octets[name] < 40
    BY <1>1, MarginFits
  <1>2. pc \in {"heading", "issues"} => run.project.name \in Text
    BY DEF RunOK, Project
  <1>3. CASE PrintHeading
    BY <1>1, <1>2, <1>3 DEF PrintHeading, Goto, HeadingInv, ShortNamesAreListed
  <1>4. CASE HeadingAborts
    <2>1. ~(Octets[run.project.name] < 40) /\ Octets[run.project.name] \in Nat
      BY <1>1, <1>2, <1>4, ConstantFacts DEF HeadingAborts
    <2> QED BY <1>4, <2>1 DEF HeadingAborts, End, HeadingInv, ShortNamesAreListed
  <1>5. CASE PrintIssues
    BY <1>5 DEF PrintIssues, End, HeadingInv, ShortNamesAreListed
  <1>6. CASE NoSuchProject \/ Fails \/ PostFails
    BY <1>6 DEF NoSuchProject, Fails, PostFails, End, HeadingInv, ShortNamesAreListed
  <1>7. CASE PostSucceeds
    <2>1. run.kind # "list"
      BY <1>7 DEF PostSucceeds, ReadyToPost, OwnInv, Reading
    <2> QED BY <1>7, <2>1 DEF PostSucceeds, End, HeadingInv, ShortNamesAreListed
  <1>8. CASE \/ FindProject \/ GetIssue \/ QueryList \/ Edit \/ SkipDone \/ EndOfInput
             \/ \E q \in Question :
                  \/ \E i \in DOMAIN Offered(q) : AnswerName(q, i)
                  \/ AnswerNone(q)
             \/ \E n \in TypedDone : AnswerDone(n)
    <2>1. outcome' = outcome /\ pc \notin {"end", "issues"} /\ pc' # "issues"
      BY <1>8 DEF FindProject, GetIssue, QueryList, Edit, SkipDone, EndOfInput,
                  AnswerName, AnswerNone, AnswerDone, Asking, Goto
    <2> QED BY <2>1 DEF HeadingInv, ShortNamesAreListed
  <1>9. CASE OtherUsers \/ UNCHANGED vars
    <2>1. UNCHANGED <<pc, run, outcome>>
      BY <1>9, OtherUsersType DEF vars
    <2> QED BY <2>1 DEF HeadingInv, ShortNamesAreListed
  <1> QED BY <1>3, <1>4, <1>5, <1>6, <1>7, <1>8, <1>9 DEF Next, Step, Stays

\* `issue list' of a project prints its heading if and only if the name has less
\* than 40 octets.
THEOREM LongNamesAbort == Spec => []ShortNamesAreListed
PROOF
  <1>1. Init => HeadingInv
    BY DEF Init, HeadingInv, ShortNamesAreListed
  <1>2. HeadingInv => ShortNamesAreListed
    BY DEF HeadingInv
  <1> QED BY <1>1, <1>2, TypesInitially, NextType, OwnInitially, OwnKept, HeadingKept,
             PTL DEF Spec


-----------------------------------------------------------------------------
(***************************************************************************)
(* The refinement: a run settles on its lists, then files one form.        *)
(***************************************************************************)

OfferedIds(q) == {Offered(q)[i].id : i \in DOMAIN Offered(q)}

\* What a question behind the run leaves: an answer, or the right to none.
Settled(q) ==
    q = "done" \/ AllowNone(q) \/ Offered(q) = <<>> \/ run.answers[q] # <<>>

AskedInv ==
    /\ \A q \in Question : Ids(run.answers[q]) \subseteq OfferedIds(q)
    /\ pc = "ask" =>
         \A j \in 1 .. at - 1 : j <= Len(Questions) => Settled(Questions[j])

LEMMA QuestionsFacts ==
    /\ Questions \in Seq(Question \cup {"done"})
    /\ Len(Questions) \in Nat /\ Len(Questions) >= 1
    /\ run.kind # "update" =>
         \A q \in Question : \E j \in 1 .. Len(Questions) : Questions[j] = q
PROOF
  <1>1. CASE run.kind = "update"
    BY <1>1 DEF Questions, Question
  <1>2. CASE run.kind # "update"
    <2>1. Questions = <<"status", "tracker", "priority", "category", "version",
                        "assignee", "watcher">>
      BY <1>2 DEF Questions
    <2>2. Len(Questions) = 7 /\ Questions \in Seq(Question \cup {"done"})
      BY <2>1 DEF Question
    <2>3. /\ Questions[1] = "status" /\ Questions[2] = "tracker"
          /\ Questions[3] = "priority" /\ Questions[4] = "category"
          /\ Questions[5] = "version" /\ Questions[6] = "assignee"
          /\ Questions[7] = "watcher"
      BY <2>1
    <2> QED BY <2>2, <2>3 DEF Question
  <1> QED BY <1>1, <1>2

\* How a run gets on with its questions.
LEMMA AskSteps ==
    ASSUME [Next]_vars, pc' = "ask"
    PROVE  \/ pc = "edit" /\ at' = 1
           \/ pc = "ask" /\ at' = at
           \/ /\ pc = "ask" /\ at' = at + 1
              /\ \/ run'.answers = run.answers /\ Settled(Questions[at])
                 \/ \E q \in Question : \E i \in DOMAIN Offered(q) :
                      AnswerName(q, i) /\ q = Questions[at]
                 \/ \E n \in TypedDone : AnswerDone(n)
PROOF
  <1>1. CASE Step
    <2>1. CASE \E q \in Question : \E i \in DOMAIN Offered(q) : AnswerName(q, i)
      BY <2>1 DEF AnswerName, Asking
    <2>2. CASE (\E q \in Question : AnswerNone(q)) \/ SkipDone
      BY <2>2 DEF AnswerNone, SkipDone, Asking, Settled
    <2>3. CASE \E n \in TypedDone : AnswerDone(n)
      BY <2>3 DEF AnswerDone, Asking
    <2>4. CASE Edit
      BY <2>4 DEF Edit, Goto
    <2>5. CASE \/ FindProject \/ NoSuchProject \/ GetIssue \/ QueryList \/ Fails
               \/ PrintHeading \/ HeadingAborts \/ PrintIssues
               \/ PostSucceeds \/ PostFails
      BY <2>5 DEF FindProject, NoSuchProject, GetIssue, QueryList, Fails,
                  PrintHeading, HeadingAborts, PrintIssues, PostSucceeds,
                  PostFails, End, Goto
    <2> QED BY <1>1, <2>1, <2>2, <2>3, <2>4, <2>5 DEF Step
  <1>2. CASE OtherUsers
    BY <1>2 DEF OtherUsers, ChangeList, DeleteProject, CreateProject, MoveIssue
  <1>3. CASE EndOfInput \/ UNCHANGED vars
    BY <1>3 DEF EndOfInput, vars
  <1> QED BY <1>1, <1>2, <1>3 DEF Next, Stays

LEMMA OfferedType ==
    ASSUME RunOK, NEW q \in Question
    PROVE  Offered(q) \in Seq(Element) /\ OfferedIds(q) \subseteq Nat \ {0}
PROOF
  <1>1. Offered(q) \in Seq(Element)
    <2>1. ListOf(q) \in List
      BY DEF ListOf, Question, List, Global
    <2> QED BY <2>1 DEF Offered, RunOK, Runs
  <1>2. \A i \in DOMAIN Offered(q) : Offered(q)[i] \in Element
    BY <1>1
  <1> QED BY <1>1, <1>2 DEF OfferedIds, Element

LEMMA AnswersGrow ==
    ASSUME RunOK, AskedInv, NEW q \in Question, NEW i \in DOMAIN Offered(q),
           AnswerName(q, i)
    PROVE  /\ run'.read = run.read /\ run'.kind = run.kind
           /\ run'.answers[q] # <<>>
           /\ \A r \in Question \ {q} : run'.answers[r] = run.answers[r]
           /\ \A r \in Question : Ids(run'.answers[r]) \subseteq OfferedIds(r)
PROOF
  <1>1. PICK k \in DOMAIN Offered(q) :
          /\ Offered(q)[k].id \in Nat \ {0}
          /\ run' = [run EXCEPT !.answers[q] = Append(@, Offered(q)[k].id),
                                !.meant[q] = Append(@, i)]
    BY AnswerNameFacts
  <1> DEFINE id == Offered(q)[k].id
  <1>2. id \in OfferedIds(q) /\ id \in Nat \ {0}
    BY <1>1 DEF OfferedIds
  <1>3. run' = [run EXCEPT !.answers[q] = Append(@, id), !.meant[q] = Append(@, i)]
    BY <1>1
  <1> HIDE DEF id
  <1>4. /\ run'.answers = [run.answers EXCEPT ![q] = Append(@, id)]
        /\ run'.read = run.read /\ run'.kind = run.kind
    BY <1>3 DEF RunOK, Runs
  <1>5. run.answers \in [Question -> Seq(Nat \ {0})]
    BY DEF RunOK, Runs
  <1>6. /\ run'.answers[q] = Append(run.answers[q], id)
        /\ \A r \in Question \ {q} : run'.answers[r] = run.answers[r]
    BY <1>4, <1>5
  <1> DEFINE old == run.answers[q]
             m == Len(old)
  <1>7. /\ m \in Nat /\ DOMAIN old = 1 .. m
        /\ DOMAIN Append(old, id) = 1 .. m + 1
        /\ \A j \in 1 .. m : Append(old, id)[j] = old[j]
        /\ Append(old, id)[m + 1] = id /\ Append(old, id) # <<>>
    BY <1>2, <1>5, AppendProperties
  <1>8. Ids(Append(old, id)) \subseteq OfferedIds(q)
    <2>1. Ids(old) \subseteq OfferedIds(q)
      BY DEF AskedInv
    <2> HIDE DEF old, m
    <2>2. ASSUME NEW n \in DOMAIN Append(old, id)
          PROVE  Append(old, id)[n] \in OfferedIds(q)
      <3>1. CASE n = m + 1
        BY <1>2, <1>7, <3>1
      <3>2. CASE n # m + 1
        BY <1>7, <2>1, <3>2 DEF Ids
      <3> QED BY <3>1, <3>2
    <2> QED BY <2>2 DEF Ids
  <1> QED BY <1>4, <1>6, <1>7, <1>8 DEF AskedInv

LEMMA AskedKept == TypeOK /\ AnswersInv /\ AskedInv /\ [Next]_vars => AskedInv'
PROOF
  <1> SUFFICES ASSUME ServerOK, RunOK, AnswersInv, AskedInv, [Next]_vars
               PROVE  AskedInv'
    BY TypeParts
  <1>0. at \in Nat \ {0} /\ Len(Questions) \in Nat
    BY QuestionsFacts DEF RunOK
  <1>1. CASE FindProject \/ GetIssue \/ QueryList
    <2>1. run'.answers = run.answers /\ pc' # "ask" /\ pc \in {"project", "query"}
      BY <1>1 DEF RunOK, Runs, FindProject, GetIssue, QueryList, Goto
    <2>2. \A q \in Question : Ids(run'.answers[q]) = {}
      BY <2>1 DEF AnswersInv, Ids
    <2> QED BY <2>1, <2>2 DEF AskedInv
  <1>2. CASE \/ \E q \in Question : \E i \in DOMAIN Offered(q) : AnswerName(q, i)
             \/ \E n \in TypedDone : AnswerDone(n)
             \/ Posted \/ Quiet
             \/ OtherUsers /\ UNCHANGED <<pc, run, sent>>
    <2>1. /\ run'.read = run.read /\ run'.kind = run.kind
          /\ \A q \in Question : Ids(run'.answers[q]) \subseteq OfferedIds(q)
          /\ \A q \in Question : run.answers[q] # <<>> => run'.answers[q] # <<>>
      <3>1. CASE \E q \in Question : \E i \in DOMAIN Offered(q) : AnswerName(q, i)
        BY <3>1, AnswersGrow
      <3>2. CASE \E n \in TypedDone : AnswerDone(n)
        <4>1. /\ run'.read = run.read /\ run'.kind = run.kind
              /\ run'.answers = run.answers
          BY <3>2 DEF AnswerDone, RunOK, Runs
        <4> QED BY <4>1 DEF AskedInv
      <3>3. CASE Posted \/ Quiet \/ (OtherUsers /\ UNCHANGED <<pc, run, sent>>)
        BY <3>3 DEF Posted, Quiet, AskedInv
      <3> QED BY <1>2, <3>1, <3>2, <3>3
    <2>2. /\ Questions' = Questions
          /\ \A q : AllowNone(q)' = AllowNone(q) /\ Offered(q)' = Offered(q)
      BY <2>1 DEF Questions, AllowNone, Offered
    <2>3. \A q \in Question : OfferedIds(q)' = OfferedIds(q)
      BY <2>2 DEF OfferedIds
    <2>4. \A q \in Question \cup {"done"} : Settled(q) => Settled(q)'
      BY <2>1, <2>2 DEF Settled
    <2>5. ASSUME pc' = "ask", NEW j \in 1 .. at' - 1, j <= Len(Questions),
                 NEW r, r = Questions[j]
          PROVE  Settled(r)'
      <3>0. r \in Question \cup {"done"}
        <4>1. j \in 1 .. Len(Questions)
          BY <1>0, <2>5
        <4> QED BY <2>5, <4>1, QuestionsFacts
      <3>1. CASE j \in 1 .. at - 1 /\ pc = "ask"
        BY <2>4, <2>5, <3>0, <3>1 DEF AskedInv
      <3>2. CASE pc = "edit" /\ at' = 1
        BY <2>5, <3>2
      <3>3. CASE pc = "ask" /\ at' = at
        BY <2>5, <3>1, <3>3
      <3>4. CASE pc = "ask" /\ at' = at + 1 /\ j # at
        <4>1. j \in 1 .. at
          BY <1>0, <2>5, <3>4
        <4> QED BY <1>0, <3>1, <3>4, <4>1
      <3>5. CASE pc = "ask" /\ at' = at + 1 /\ j = at
        <4>1. CASE Settled(Questions[at])
          BY <2>4, <2>5, <3>0, <3>5, <4>1
        <4>2. ASSUME NEW q \in Question, NEW i \in DOMAIN Offered(q),
                     AnswerName(q, i), q = Questions[at]
              PROVE  Settled(r)'
          BY <2>2, <2>5, <3>5, <4>2, AnswersGrow DEF Settled
        <4>3. ASSUME NEW n \in TypedDone, AnswerDone(n)
              PROVE  Settled(r)'
          <5>1. Questions[at] = "done"
            BY <4>3 DEF AnswerDone, Asking
          <5> QED BY <2>2, <2>5, <3>5, <5>1 DEF Settled
        <4> QED BY <1>0, <2>5, <3>5, <4>1, <4>2, <4>3, AskSteps
      <3> QED BY <1>0, <2>5, <3>2, <3>3, <3>4, <3>5, AskSteps
    <2> QED BY <2>1, <2>2, <2>3, <2>5 DEF AskedInv
  <1> QED BY <1>1, <1>2, StepCases

\* A run of issue new or update (issue.cpp 451-525, 648-698) implements the form
\* IssueDraft assumes of it: the ids offered are settled when the questions
\* begin, and what is posted has only ids offered and no needed answer missing.
THEOREM RunsFileForms == Spec => FormSpec
PROOF
  <1>1. Init => AnswersInv /\ AskedInv
    <2>1. Init => \A q \in Question : Ids(run.answers[q]) = {}
      BY DEF Init, NewRun, Ids
    <2>2. Init => AnswersInv
      BY DEF Init, NewRun, AnswersInv, SentAtEnd, IntendedIsPosted
    <2>3. Init => pc = "project"
      BY DEF Init
    <2> QED BY <2>1, <2>2, <2>3 DEF AskedInv
  <1>2. Init => Form!Init
    <2> SUFFICES ASSUME Init PROVE Form!Init
      OBVIOUS
    <2>1. pc = "project" /\ sent = NoPost /\ run.kind \in {"new", "update", "list"}
      BY DEF Init, NewRun
    <2>2. Phase = "reading"
      BY <2>1 DEF Phase
    <2>3. Offers = Form!NoForm /\ Filed = Form!NoForm
      BY <2>1 DEF Offers, Filed, Form!NoForm
    <2> QED BY <2>1, <2>2, <2>3 DEF Form!Init, OptionalQuestions
  <1>3. TypeOK /\ OwnInv /\ AnswersInv /\ AskedInv /\ [Next]_vars
          => [Form!Offer \/ Form!File \/ Form!GiveUp]_<<run.kind, Phase, Offers, Filed>>
    <2> SUFFICES ASSUME ServerOK, RunOK, sent \in Posts, OwnInv, AnswersInv, AskedInv,
                        [Next]_vars
                 PROVE  \/ Form!Offer \/ Form!File \/ Form!GiveUp
                        \/ UNCHANGED <<run.kind, Phase, Offers, Filed>>
      BY TypeParts
    <2>0. /\ sent # NoPost => pc = "end"
          /\ Phase = IF pc = "ask" THEN "offered"
                     ELSE IF pc = "end" THEN "closed" ELSE "reading"
          /\ Phase' = IF pc' = "ask" THEN "offered"
                      ELSE IF pc' = "end" THEN "closed" ELSE "reading"
      BY DEF AnswersInv, SentAtEnd, Phase
    <2>1. CASE FindProject \/ GetIssue \/ QueryList
      <3>1. /\ run'.kind = run.kind /\ sent' = sent /\ sent = NoPost
            /\ pc \in {"project", "query"} /\ pc' \notin {"ask", "end"}
        BY <2>0, <2>1 DEF RunOK, Runs, FindProject, GetIssue, QueryList, Goto
      <3> QED BY <2>0, <3>1 DEF Offers, Filed
    <2>2. CASE \/ \E q \in Question : \E i \in DOMAIN Offered(q) : AnswerName(q, i)
               \/ \E n \in TypedDone : AnswerDone(n)
      <3>1. /\ run'.kind = run.kind /\ run'.read = run.read
            /\ sent' = sent /\ pc = "ask" /\ pc' = "ask"
        BY <2>2 DEF RunOK, Runs, AnswerName, AnswerDone, Asking
      <3>2. \A q : Offered(q)' = Offered(q)
        BY <3>1 DEF Offered
      <3> QED BY <2>0, <3>1, <3>2 DEF Offers, Filed
    <2>3. CASE Posted
      <3>1. /\ pc = "ask" /\ pc' = "end" /\ run' = run /\ sent'.answers = run.answers
            /\ at = Len(Questions) + 1
        BY <2>3, PostFacts DEF Posted, ReadyToPost
      <3>2. sent' # NoPost
        BY <2>3, PostType DEF Posted, ReadyToPost
      <3>3. /\ Offers' = Offers /\ Offers = [q \in Question |-> OfferedIds(q)]
            /\ Filed' = [q \in Question |-> Ids(run.answers[q])]
        BY <3>1, <3>2 DEF Offers, OfferedIds, Offered, Filed
      <3>4. ASSUME NEW q \in Question
            PROVE  /\ Ids(run.answers[q]) \subseteq OfferedIds(q)
                   /\ Ids(run.answers[q]) \subseteq Nat \ {0}
                   /\ Ids(run.answers[q]) = {} =>
                        OfferedIds(q) = {} \/ q \in OptionalQuestions[run.kind]
        <4>1. Ids(run.answers[q]) \subseteq OfferedIds(q)
              /\ OfferedIds(q) \subseteq Nat \ {0}
          BY OfferedType DEF AskedInv
        <4>2. run.kind \in {"new", "update"}
          BY <3>1 DEF OwnInv, Reading
        <4>3. CASE run.kind = "update"
          BY <4>1, <4>3 DEF OptionalQuestions
        <4>4. CASE run.kind = "new"
          <5>1. PICK j \in 1 .. Len(Questions) : Questions[j] = q
            BY <4>4, QuestionsFacts
          <5>2. Settled(q)
            BY <3>1, <5>1, QuestionsFacts DEF AskedInv
          <5>3. q # "done"
            BY DEF Question
          <5>4. run.answers[q] \in Seq(Nat \ {0})
            BY DEF RunOK, Runs
          <5>5. run.answers[q] # <<>> => Ids(run.answers[q]) # {}
            <6>1. \A s \in Seq(Nat \ {0}) : s # <<>> => 1 \in DOMAIN s
              OBVIOUS
            <6> QED BY <5>4, <6>1 DEF Ids
          <5>6. Offered(q) = <<>> => OfferedIds(q) = {}
            BY DEF OfferedIds
          <5> QED BY <4>1, <4>4, <5>2, <5>3, <5>5, <5>6
                  DEF Settled, AllowNone, OptionalQuestions
        <4> QED BY <4>1, <4>2, <4>3, <4>4
      <3>5. Filed' \in [Question -> SUBSET (Nat \ {0})]
        BY <3>3, <3>4
      <3>6. \A q \in Question :
              /\ Filed'[q] \subseteq Offers[q]
              /\ Filed'[q] = {} => Offers[q] = {} \/ q \in OptionalQuestions[run.kind]
        BY <3>3, <3>4
      <3> QED BY <2>0, <3>1, <3>3, <3>5, <3>6 DEF Form!File
    <2>4. CASE Quiet
      <3>1. UNCHANGED <<run, sent>> /\ Filed' = Filed
        BY <2>4 DEF Quiet, Filed
      <3>2. CASE pc' = pc
        <4>1. Offers' = Offers
          BY <3>1, <3>2 DEF Offers, Offered
        <4> QED BY <2>0, <3>1, <3>2, <4>1
      <3>3. CASE pc' = "end" /\ pc # "end"
        <4>1. Offers' = Form!NoForm
          BY <2>0, <3>1, <3>3 DEF Offers, Form!NoForm
        <4> QED BY <2>0, <3>1, <3>3, <4>1 DEF Form!GiveUp
      <3>4. CASE pc = "heading" /\ pc' = "issues"
        BY <2>0, <3>1, <3>4 DEF Offers
      <3>5. CASE pc = "edit" /\ pc' = "ask"
        <4>1. Offers' = [q \in Question |-> OfferedIds(q)]
          BY <3>1, <3>5 DEF Offers, OfferedIds, Offered
        <4>2. Offers' \in [Question -> SUBSET (Nat \ {0})]
          BY <4>1, OfferedType
        <4> QED BY <2>0, <3>1, <3>5, <4>2 DEF Form!Offer
      <3> QED BY <2>4, <3>2, <3>3, <3>4, <3>5 DEF Quiet
    <2>5. CASE OtherUsers /\ UNCHANGED <<pc, run, sent>>
      <3>1. Offers' = Offers /\ Filed' = Filed
        BY <2>5 DEF Offers, Offered, Filed
      <3> QED BY <2>0, <2>5, <3>1
    <2> QED BY <2>1, <2>2, <2>3, <2>4, <2>5, StepCases
  <1> QED BY <1>1, <1>2, <1>3, TypesInitially, NextType, OwnInitially, OwnKept,
             AnswersKept, AskedKept, PTL
          DEF Spec, FormSpec, Form!FormSpec
=============================================================================
