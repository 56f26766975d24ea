------------------------ MODULE CurrentUser_proofs -------------------------
(***************************************************************************)
(* The sandwich around what a run believes of its user, for every set of   *)
(* roles, memberships and names and for any number of changes: no more     *)
(* than the roles listed during the run, no less than they listed all      *)
(* through it.                                                             *)
(***************************************************************************)
EXTENDS CurrentUser, TLAPS

\* held is a lower and seen an upper bound of what a role lists now.
Bounds == \A role \in Role :
    held[role] \subseteq grants[role] /\ grants[role] \subseteq seen[role]

\* What is in the local comes from the membership being read.
LocalIsolated == \A permission \in membership_permissions :
    m \in DOMAIN memberships /\ permission \in SeenIn(memberships, m)

\* Roles read so far: those of the earlier memberships, and the first of m.
\* Each has left what it held in the union and in its project's entry or,
\* for the membership being read, in the local.
ReadEarlier == \A i \in DOMAIN memberships : i < m =>
    Parsed(HeldIn(memberships, i))
      \subseteq permissions \cap project_permissions[memberships[i].project]
ReadCurrent == m \in DOMAIN memberships =>
    \A j \in DOMAIN memberships[m].roles : j < r =>
      Parsed(held[memberships[m].roles[j]])
        \subseteq permissions \cap membership_permissions

\* The positions: nothing is read before the reply, everything after the loop.
Positions ==
    /\ pc = "user" => memberships = <<>> /\ m = 1 /\ r = 1
    /\ ran # "none" => pc = "done" /\ m > Len(memberships)
    /\ ran = "issue" => UseIssue

IInv ==
    /\ TypeOK
    /\ Bounds
    /\ OnlyGranted
    /\ ProjectsIsolated
    /\ LocalIsolated
    /\ ReadEarlier
    /\ ReadCurrent
    /\ Positions

-----------------------------------------------------------------------------
LEMMA ElementIn ==
    ASSUME NEW S, NEW s \in Seq(S), NEW i \in DOMAIN s
    PROVE  s[i] \in S
  OBVIOUS

\* A membership list, empty or from the server, is a sequence of memberships
\* with distinct projects.
LEMMA ListShape ==
    ASSUME NEW list \in Memberships \cup {<<>>}
    PROVE  /\ list \in Seq([project : Project, roles : Seq(Role)])
           /\ \A i, j \in DOMAIN list :
                list[i].project = list[j].project => i = j
           /\ \A i \in DOMAIN list :
                /\ list[i].project \in Project
                /\ list[i].roles \in Seq(Role)
                /\ \A j \in DOMAIN list[i].roles : list[i].roles[j] \in Role
PROOF
  <1>1. CASE list = <<>>
    <2>1. DOMAIN list = {} /\ list \in Seq([project : Project, roles : Seq(Role)])
      BY <1>1
    <2> QED BY <2>1
  <1>2. CASE list \in Memberships
    <2>1. list \in Seq([project : Project, roles : Seq(Role)])
      BY <1>2, CurrentUserAssumption
    <2>2. \A i, j \in DOMAIN list :
            list[i].project = list[j].project => i = j
      BY <1>2, CurrentUserAssumption
    <2>3. \A i \in DOMAIN list :
            list[i] \in [project : Project, roles : Seq(Role)]
      BY <2>1, ElementIn
    <2>4. \A roles \in Seq(Role) : \A j \in DOMAIN roles : roles[j] \in Role
      OBVIOUS
    <2> QED BY <2>1, <2>2, <2>3, <2>4
  <1> QED BY <1>1, <1>2

LEMMA Initially == Init => IInv
  BY CurrentUserAssumption
     DEF Init, IInv, TypeOK, Bounds, OnlyGranted, ProjectsIsolated,
         LocalIsolated, ReadEarlier, ReadCurrent, Positions, SeenIn, HeldIn

\* Editing a role only widens what was seen and narrows what was held.
LEMMA EditRoleKeeps ==
    ASSUME IInv, NEW role \in Role, NEW names \in SUBSET Name,
           EditRole(role, names)
    PROVE  IInv'
PROOF
  <1> USE DEF EditRole, user
  <1>1. TypeOK'
    BY CurrentUserAssumption DEF IInv, TypeOK
  <1>2. Bounds'
    BY DEF IInv, TypeOK, Bounds
  <1>3. \A x \in Role : seen[x] \subseteq seen'[x] /\ held'[x] \subseteq held[x]
    BY DEF IInv, TypeOK
  <1>4. \A i \in DOMAIN memberships :
          /\ SeenIn(memberships, i) \subseteq SeenIn(memberships, i)'
          /\ HeldIn(memberships, i)' \subseteq HeldIn(memberships, i)
    BY <1>3, ListShape DEF IInv, TypeOK, SeenIn, HeldIn
  <1>5. OnlyGranted'
    BY <1>4 DEF IInv, OnlyGranted
  <1>6. ProjectsIsolated'
    BY <1>4 DEF IInv, ProjectsIsolated
  <1>7. LocalIsolated'
    BY <1>4 DEF IInv, LocalIsolated
  <1>8. ReadEarlier'
    BY <1>4 DEF IInv, ReadEarlier, Parsed
  <1>9. ReadCurrent'
    BY <1>3, ListShape DEF IInv, TypeOK, ReadCurrent, Parsed
  <1>10. Positions'
    BY DEF IInv, Positions, UseIssue, Can
  <1> QED BY <1>1, <1>2, <1>5, <1>6, <1>7, <1>8, <1>9, <1>10 DEF IInv

LEMMA GetUserKeeps ==
    ASSUME IInv, NEW list \in Memberships, NEW s \in Status, GetUser(list, s)
    PROVE  IInv'
PROOF
  <1> USE DEF GetUser, server
  <1>1. m = 1 /\ r = 1 /\ memberships = <<>> /\ ran = "none"
    BY DEF IInv, Positions
  <1>2. /\ permissions = {} /\ membership_permissions = {}
        /\ \A p \in Project : project_permissions[p] = {}
    BY <1>1 DEF IInv, OnlyGranted, ProjectsIsolated, LocalIsolated, TypeOK
  <1>3. TypeOK' /\ Bounds' /\ Positions'
    BY <1>1 DEF IInv, TypeOK, Bounds, Positions
  <1>4. OnlyGranted' /\ ProjectsIsolated' /\ LocalIsolated'
    BY <1>2 DEF OnlyGranted, ProjectsIsolated, LocalIsolated
  <1>5. ReadEarlier' /\ ReadCurrent'
    <2>1. list \in Seq([project : Project, roles : Seq(Role)])
      BY ListShape
    <2>2. \A i \in DOMAIN list : ~(i < m)
      BY <1>1, <2>1
    <2>3. \A i \in DOMAIN list : \A j \in DOMAIN list[i].roles : ~(j < r)
      BY <1>1, ListShape
    <2> QED BY <2>2, <2>3 DEF ReadEarlier, ReadCurrent
  <1> QED BY <1>3, <1>4, <1>5 DEF IInv

\* Asking for a role: the local and the union gain what the role lists now.
LEMMA GetRoleKeeps ==
    ASSUME IInv, GetRole
    PROVE  IInv'
PROOF
  <1> USE DEF GetRole, server
  <1> DEFINE role == memberships[m].roles[r]
  <1>1. /\ memberships \in Seq([project : Project, roles : Seq(Role)])
        /\ m \in DOMAIN memberships
        /\ r \in DOMAIN memberships[m].roles
        /\ role \in Role
        /\ memberships[m].project \in Project
        /\ memberships[m].roles \in Seq(Role)
    <2>1. m \in DOMAIN memberships
      BY ListShape DEF IInv, TypeOK, MoreRoles, MoreMemberships
    <2>2. r \in DOMAIN memberships[m].roles
      BY <2>1, ListShape DEF IInv, TypeOK, MoreRoles
    <2> QED BY <2>1, <2>2, ListShape DEF IInv, TypeOK
  <1>2. /\ membership_permissions' = membership_permissions \cup Parsed(grants[role])
        /\ permissions' = permissions \cup Parsed(grants[role])
    BY DEF OrAssign
  <1>3. /\ held[role] \subseteq grants[role]
        /\ grants[role] \subseteq SeenIn(memberships, m)
    BY <1>1 DEF IInv, TypeOK, Bounds, SeenIn
  <1>4. \A i : SeenIn(memberships, i)' = SeenIn(memberships, i)
               /\ HeldIn(memberships, i)' = HeldIn(memberships, i)
    BY DEF SeenIn, HeldIn
  <1>5. TypeOK'
    <2>1. /\ membership_permissions' \subseteq Known
          /\ permissions' \subseteq Known
      BY <1>2 DEF IInv, TypeOK, Parsed
    <2>2. r' \in Nat \ {0}
      BY DEF IInv, TypeOK
    <2> QED BY <2>1, <2>2 DEF IInv, TypeOK
  <1>6. Bounds' /\ Positions'
    BY DEF IInv, Bounds, Positions
  <1>7. OnlyGranted' /\ LocalIsolated'
    BY <1>1, <1>2, <1>3, <1>4 DEF IInv, OnlyGranted, LocalIsolated, Parsed
  <1>8. ProjectsIsolated'
    BY <1>4 DEF IInv, ProjectsIsolated
  <1>9. ReadEarlier'
    BY <1>2, <1>4 DEF IInv, ReadEarlier
  <1>10. ReadCurrent'
    <2> SUFFICES ASSUME NEW j \in DOMAIN memberships[m].roles, j < r + 1
                 PROVE  Parsed(held[memberships[m].roles[j]])
                          \subseteq permissions' \cap membership_permissions'
      BY <1>1 DEF ReadCurrent
    <2>1. j < r \/ j = r
      BY <1>1
    <2>2. CASE j < r
      BY <1>1, <1>2, <2>2 DEF IInv, ReadCurrent
    <2>3. CASE j = r
      BY <1>2, <1>3, <2>3 DEF Parsed
    <2> QED BY <2>1, <2>2, <2>3
  <1> QED BY <1>5, <1>6, <1>7, <1>8, <1>9, <1>10 DEF IInv

\* The entry of the project is assigned.  Projects are distinct, so no other
\* membership's entry is lost.
LEMMA StoreMembershipKeeps ==
    ASSUME IInv, StoreMembership
    PROVE  IInv'
PROOF
  <1> USE DEF StoreMembership, server
  <1>1. /\ m \in DOMAIN memberships
        /\ memberships \in Seq([project : Project, roles : Seq(Role)])
        /\ memberships[m].project \in Project
        /\ memberships[m].roles \in Seq(Role)
        /\ \A j \in DOMAIN memberships[m].roles : j < r
    <2>1. m \in DOMAIN memberships
      BY ListShape DEF IInv, TypeOK, MoreMemberships
    <2>2. memberships[m].roles \in Seq(Role)
      BY <2>1, ListShape DEF IInv, TypeOK
    <2>3. \A j \in DOMAIN memberships[m].roles : j < r
      BY <2>2 DEF IInv, TypeOK, MoreRoles
    <2> QED BY <2>1, <2>2, <2>3, ListShape DEF IInv, TypeOK
  <1>2. \A p \in Project : project_permissions'[p] =
          IF p = memberships[m].project THEN membership_permissions
                                        ELSE project_permissions[p]
    BY <1>1 DEF IInv, TypeOK
  <1>3. \A i : SeenIn(memberships, i)' = SeenIn(memberships, i)
               /\ HeldIn(memberships, i)' = HeldIn(memberships, i)
    BY DEF SeenIn, HeldIn
  <1>4. TypeOK'
    BY <1>1 DEF IInv, TypeOK
  <1>5. Bounds' /\ Positions'
    BY <1>1 DEF IInv, Bounds, Positions, TypeOK
  <1>6. OnlyGranted' /\ LocalIsolated'
    BY <1>3 DEF IInv, OnlyGranted, LocalIsolated
  <1>7. ProjectsIsolated'
    BY <1>1, <1>2, <1>3 DEF IInv, ProjectsIsolated, LocalIsolated
  <1>8. ReadEarlier'
    <2> SUFFICES ASSUME NEW i \in DOMAIN memberships, i < m + 1
                 PROVE  Parsed(HeldIn(memberships, i)) \subseteq
                          permissions \cap
                          project_permissions'[memberships[i].project]
      BY <1>3 DEF ReadEarlier
    <2>1. i < m \/ i = m
      BY <1>1
    <2>2. memberships[i].project \in Project
      BY ListShape DEF IInv, TypeOK
    <2>3. CASE i < m
      <3>1. memberships[i].project # memberships[m].project
        <4>1. memberships \in Memberships \cup {<<>>} /\ i # m
          BY <1>1, <2>3 DEF IInv, TypeOK
        <4>2. memberships[i].project = memberships[m].project => i = m
          BY <1>1, <4>1, ListShape
        <4> QED BY <4>1, <4>2
      <3> QED BY <1>2, <2>2, <2>3, <3>1 DEF IInv, ReadEarlier
    <2>4. CASE i = m
      BY <1>1, <1>2, <2>2, <2>4 DEF IInv, ReadCurrent, Parsed, HeldIn
    <2> QED BY <2>1, <2>3, <2>4
  <1>9. ReadCurrent'
    <2>1. m' \in DOMAIN memberships => memberships[m'].roles \in Seq(Role)
      BY ListShape DEF IInv, TypeOK
    <2> QED BY <2>1 DEF ReadCurrent
  <1> QED BY <1>4, <1>5, <1>6, <1>7, <1>8, <1>9 DEF IInv

LEMMA LeavesUserAlone ==
    ASSUME IInv, UNCHANGED <<server, user>>,
           pc' = "done", ran' \in Args \cup {"none", "invalid"},
           ran' # "none" => m > Len(memberships),
           ran' = "issue" => UseIssue
    PROVE  IInv'
PROOF
  <1> USE DEF server, user
  <1>1. TypeOK' /\ Bounds' /\ Positions'
    BY DEF IInv, TypeOK, Bounds, Positions, UseIssue, Can
  <1>2. OnlyGranted' /\ ProjectsIsolated' /\ LocalIsolated'
    BY DEF IInv, OnlyGranted, ProjectsIsolated, LocalIsolated, SeenIn
  <1>3. ReadEarlier' /\ ReadCurrent'
    BY DEF IInv, ReadEarlier, ReadCurrent, HeldIn
  <1> QED BY <1>1, <1>2, <1>3 DEF IInv

LEMMA RequestFailsKeeps ==
    ASSUME IInv, RequestFails
    PROVE  IInv'
PROOF
  <1>1. ran = "none"
    BY DEF IInv, Positions, RequestFails
  <1> QED BY <1>1, LeavesUserAlone DEF RequestFails

LEMMA DispatchKeeps ==
    ASSUME IInv, NEW arg \in Args, Dispatch(arg)
    PROVE  IInv'
PROOF
  <1>1. /\ ran' \in Args \cup {"invalid"}
        /\ ran' = "issue" => UseIssue
    BY DEF Dispatch, Args
  <1>2. m > Len(memberships)
    BY ListShape DEF IInv, TypeOK, Dispatch, MoreMemberships
  <1> QED BY <1>1, <1>2, LeavesUserAlone DEF Dispatch

LEMMA Inductive == Spec => []IInv
PROOF
  <1>1. IInv /\ [Next]_vars => IInv'
    <2> SUFFICES ASSUME IInv, [Next]_vars PROVE IInv'
      OBVIOUS
    <2>1. CASE Run
      BY <2>1, GetUserKeeps, GetRoleKeeps, StoreMembershipKeeps,
         RequestFailsKeeps, DispatchKeeps DEF Run
    <2>2. CASE \E role \in Role, names \in SUBSET Name : EditRole(role, names)
      BY <2>2, EditRoleKeeps
    <2>3. CASE UNCHANGED vars
      <3> USE <2>3 DEF vars, server, user
      <3>1. TypeOK' /\ Bounds' /\ Positions'
        BY DEF IInv, TypeOK, Bounds, Positions, UseIssue, Can
      <3>2. OnlyGranted' /\ ProjectsIsolated' /\ LocalIsolated'
        BY DEF IInv, OnlyGranted, ProjectsIsolated, LocalIsolated, SeenIn
      <3>3. ReadEarlier' /\ ReadCurrent'
        BY DEF IInv, ReadEarlier, ReadCurrent, HeldIn
      <3> QED BY <3>1, <3>2, <3>3 DEF IInv
    <2> QED BY <2>1, <2>2, <2>3 DEF Next, Done
  <1> QED BY Initially, <1>1, PTL DEF Spec

-----------------------------------------------------------------------------
\* The type invariant.
THEOREM UserTypeCorrect == Spec => []TypeOK
  BY Inductive, PTL DEF IInv

\* A run never believes in a permission no role of the user listed.
THEOREM NothingInvented == Spec => []OnlyGranted
  BY Inductive, PTL DEF IInv

\* No permission leaks from one project's membership to another's entry.
THEOREM ProjectsStayIsolated == Spec => []ProjectsIsolated
  BY Inductive, PTL DEF IInv

\* A run that dispatches knows every permission its roles listed throughout.
THEOREM NothingIsLost == Spec => []NothingLost
PROOF
  <1>1. IInv => NothingLost
    <2> SUFFICES ASSUME IInv, ran # "none", NEW i \in DOMAIN memberships
                 PROVE  Parsed(HeldIn(memberships, i)) \subseteq
                          permissions \cap
                          project_permissions[memberships[i].project]
      BY DEF NothingLost
    <2>1. i < m
      BY ListShape DEF IInv, TypeOK, Positions
    <2> QED BY <2>1 DEF IInv, ReadEarlier
  <1> QED BY <1>1, Inductive, PTL

\* The issue action is offered to nobody without one of its permissions.
THEOREM IssueIsGuarded == Spec => []IssueNeedsGrant
PROOF
  <1>1. IInv => IssueNeedsGrant
    BY DEF IInv, Positions, OnlyGranted, IssueNeedsGrant, UseIssue, Can
  <1> QED BY <1>1, Inductive, PTL
=============================================================================
