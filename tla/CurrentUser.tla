---------------------------- MODULE CurrentUser ----------------------------
(***************************************************************************)
(* What a run learns about the user before it dispatches an action:        *)
(* current_user::get asks the server for the user and the memberships,     *)
(* then asks for every role of every membership, one request each, and     *)
(* main decides from the union which actions the run offers.  The server   *)
(* answers each request from its state at that moment, and administrators  *)
(* change roles while the run is asking.                                   *)
(***************************************************************************)
EXTENDS Naturals, Sequences

CONSTANTS
    Project, Role,
    Name,             \* the permission names roles list on the server
    Known,            \* the fields of struct permissions
    IssuePermissions, \* the five permissions main tests
    Status,           \* values of user.status, 0 when the reply has none
    Memberships,      \* what the server may answer for the user
    MaxChanges        \* bound: changes of roles during the run

\* Redmine keeps one membership per user and project.
ASSUME CurrentUserAssumption ==
    /\ IssuePermissions \subseteq Known
    /\ Memberships \subseteq Seq([project : Project, roles : Seq(Role)])
    /\ \A list \in Memberships : \A i, j \in DOMAIN list :
         list[i].project = list[j].project => i = j
    /\ MaxChanges \in Nat

VARIABLES
    grants,      \* server: the names each role lists now
    changes,     \* server: changes so far
    pc, memberships, status, permissions, project_permissions,
    membership_permissions, \* the local of current_user::get
    m, r,        \* loop positions: membership and role to ask for
    ran,         \* what main dispatched to
    seen, held   \* history: names listed at some / at every moment of the run

server == <<grants, changes, seen, held>>
user == <<memberships, status, permissions, project_permissions,
          membership_permissions, m, r>>
vars == <<server, user, pc, ran>>

Args == {"help", "config", "project", "issue", "user", "other"}

Init ==
    /\ grants \in [Role -> SUBSET Name]
    /\ changes = 0
    /\ seen = grants /\ held = grants
    /\ pc = "user"
    /\ memberships = <<>>
    /\ status = 0
    /\ permissions = {}
    /\ project_permissions = [p \in Project |-> {}]
    /\ membership_permissions = {}
    /\ m = 1 /\ r = 1
    /\ ran = "none"

\* An administrator edits a role between two requests of the run.
EditRole(role, names) ==
    /\ changes < MaxChanges
    /\ grants' = [grants EXCEPT ![role] = names]
    /\ seen' = [seen EXCEPT ![role] = @ \cup names]
    /\ held' = [held EXCEPT ![role] = @ \cap names]
    /\ changes' = changes + 1
    /\ UNCHANGED <<user, pc, ran>>

\* GET /users/current.json: the membership list as the server has it, and the
\* status, which the server leaves out for users who are not administrators.
GetUser(list, s) ==
    /\ pc = "user"
    /\ memberships' = list
    /\ status' = s
    /\ pc' = "roles"
    /\ UNCHANGED <<server, permissions, project_permissions,
                   membership_permissions, m, r, ran>>

MoreMemberships == m <= Len(memberships)
MoreRoles == MoreMemberships /\ r <= Len(memberships[m].roles)

\* Mutant: every name a role lists is kept.
ParsedAll(names) == names

\* permissions::get keeps the names it has a field for and ignores the others.
Parsed(names) == names \cap Known

\* permissions::operator|=
OrAssign(left, right) == left \cup right

\* Mutant: the fields of role_permissions are not set to false.
GetRoleUninitialised ==
    /\ pc = "roles" /\ MoreRoles
    /\ \E garbage \in SUBSET Known :
         LET role_permissions ==
               garbage \cup Parsed(grants[memberships[m].roles[r]]) IN
           /\ membership_permissions' =
                OrAssign(membership_permissions, role_permissions)
           /\ permissions' = OrAssign(permissions, role_permissions)
    /\ r' = r + 1
    /\ UNCHANGED <<server, memberships, status, project_permissions, m, pc, ran>>

\* GET /roles/<id>.json for the next role of the membership.
GetRole ==
    /\ pc = "roles" /\ MoreRoles
    /\ LET role_permissions == Parsed(grants[memberships[m].roles[r]]) IN
         /\ membership_permissions' =
              OrAssign(membership_permissions, role_permissions)
         /\ permissions' = OrAssign(permissions, role_permissions)
    /\ r' = r + 1
    /\ UNCHANGED <<server, memberships, status, project_permissions, m, pc, ran>>

\* Mutant: membership_permissions declared outside the loop, never reset.
StoreMembershipLeaks ==
    /\ pc = "roles" /\ MoreMemberships /\ ~MoreRoles
    /\ project_permissions' = [project_permissions EXCEPT
         ![memberships[m].project] = membership_permissions]
    /\ m' = m + 1 /\ r' = 1
    /\ UNCHANGED <<server, memberships, status, permissions,
                   membership_permissions, pc, ran>>

\* Mutant: the loop over the memberships starts again.
StoreMembershipRestarts ==
    /\ pc = "roles" /\ MoreMemberships /\ ~MoreRoles
    /\ project_permissions' = [project_permissions EXCEPT
         ![memberships[m].project] = membership_permissions]
    /\ membership_permissions' = {}
    /\ m' = 1 /\ r' = 1
    /\ UNCHANGED <<server, memberships, status, permissions, pc, ran>>

\* The membership's roles are all read: its project's entry is assigned, and
\* the next iteration starts with a fresh local.
StoreMembership ==
    /\ pc = "roles" /\ MoreMemberships /\ ~MoreRoles
    /\ project_permissions' = [project_permissions EXCEPT
         ![memberships[m].project] = membership_permissions]
    /\ membership_permissions' = {}
    /\ m' = m + 1 /\ r' = 1
    /\ UNCHANGED <<server, memberships, status, permissions, pc, ran>>

\* Mutant: a role that cannot be read is skipped.
RequestFailsSkipsRole ==
    \/ /\ pc = "user"
       /\ pc' = "done"
       /\ UNCHANGED <<server, user, ran>>
    \/ /\ pc = "roles" /\ MoreRoles
       /\ r' = r + 1
       /\ UNCHANGED <<server, memberships, status, permissions,
                      project_permissions, membership_permissions, m, pc, ran>>

\* A request is refused, lost, answered for a deleted role, or its answer is
\* not the expected JSON: get returns FAILURE, and main returns it.
RequestFails ==
    /\ pc = "user" \/ (pc = "roles" /\ MoreRoles)
    /\ pc' = "done"
    /\ UNCHANGED <<server, user, ran>>

\* current_user::can
Can(permission) == permission \in permissions

\* Mutant: any permission at all opens the issue action.
UseIssueForAny == permissions # {}
UseIssue == \E permission \in IssuePermissions : Can(permission)
UseUser == status # 0

\* main's if chain, once current_user::get succeeded.
Dispatch(arg) ==
    /\ pc = "roles" /\ ~MoreMemberships
    /\ pc' = "done"
    /\ \/ arg \in {"help", "config", "project"} /\ ran' = arg
       \/ arg = "issue" /\ UseIssue /\ ran' = arg
       \/ arg = "user" /\ UseUser /\ ran' = arg
       \/ /\ arg = "other" \/ (arg = "issue" /\ ~UseIssue) \/ (arg = "user" /\ ~UseUser)
          /\ ran' = "invalid"
    /\ UNCHANGED <<server, user>>

Run ==
    \/ \E list \in Memberships, s \in Status : GetUser(list, s)
    \/ GetRole
    \/ StoreMembership
    \/ RequestFails
    \/ \E arg \in Args : Dispatch(arg)

Done == pc = "done" /\ UNCHANGED vars

Next ==
    \/ Run
    \/ \E role \in Role, names \in SUBSET Name : EditRole(role, names)
    \/ Done

Spec == Init /\ [][Next]_vars

\* Every request is answered or breaks off, and the process is scheduled.
FairSpec == Spec /\ WF_vars(Run)

-----------------------------------------------------------------------------
TypeOK ==
    /\ grants \in [Role -> SUBSET Name]
    /\ seen \in [Role -> SUBSET Name]
    /\ held \in [Role -> SUBSET Name]
    /\ changes \in 0..MaxChanges
    /\ pc \in {"user", "roles", "done"}
    /\ memberships \in Memberships \cup {<<>>}
    /\ status \in Status \cup {0}
    /\ permissions \subseteq Known
    /\ project_permissions \in [Project -> SUBSET Known]
    /\ membership_permissions \subseteq Known
    /\ m \in Nat \ {0} /\ r \in Nat \ {0}
    /\ ran \in Args \cup {"none", "invalid"}

SeenIn(list, i) == {name \in Name :
    \E j \in DOMAIN list[i].roles : name \in seen[list[i].roles[j]]}
HeldIn(list, i) == {name \in Name :
    \E j \in DOMAIN list[i].roles : name \in held[list[i].roles[j]]}

\* Whatever administrators do while the run reads role after role, it never
\* believes in a permission that no role of the user listed during the run
\* (user.cpp:157-166 builds the union from answers of different moments).
OnlyGranted ==
    \A permission \in permissions :
      \E i \in DOMAIN memberships : permission \in SeenIn(memberships, i)

\* A project's entry holds only what the roles of that project's membership
\* listed: nothing leaks from the memberships read before it.
ProjectsIsolated ==
    \A p \in Project : \A permission \in project_permissions[p] :
      \E i \in DOMAIN memberships :
        memberships[i].project = p /\ permission \in SeenIn(memberships, i)

\* A run that dispatches has missed nothing: what a role of the user listed
\* from the start of the run to its end is in the union and in the entry of
\* the role's project.  A run that could not read a role dispatches nothing.
NothingLost ==
    ran # "none" =>
      \A i \in DOMAIN memberships :
        Parsed(HeldIn(memberships, i))
          \subseteq permissions \cap project_permissions[memberships[i].project]

\* The issue action runs only for a user who had, during the run, one of the
\* permissions main asks for (redmine.cpp:83-86, 120-122).
IssueNeedsGrant ==
    ran = "issue" =>
      \E permission \in IssuePermissions : \E i \in DOMAIN memberships :
        permission \in SeenIn(memberships, i)

\* The sequence of requests ends, however the roles change meanwhile.
Decides == <>(pc = "done")
=============================================================================
