--------------------------- MODULE MCCurrentUser ---------------------------
(***************************************************************************)
(* One user, two projects and two roles.  The memberships: none, one       *)
(* without roles, one with a role named twice (direct and inherited), two   *)
(* projects with a shared role, and two with different roles.              *)
(***************************************************************************)
EXTENDS CurrentUser

CONSTANTS p1, p2, manager, reporter

MCProject == {p1, p2}
MCRole == {manager, reporter}
MCKnown == {"view_issues", "manage_categories"}
MCName == MCKnown \cup {"view_dashboard"}
MCIssuePermissions == {"view_issues"}
MCStatus == {0, 1}
Member(p, roles) == [project |-> p, roles |-> roles]
MCMemberships ==
    {<<>>,
     <<Member(p1, <<>>)>>,
     <<Member(p1, <<manager, manager>>)>>,
     <<Member(p1, <<manager, reporter>>), Member(p2, <<reporter>>)>>,
     <<Member(p1, <<manager>>), Member(p2, <<reporter>>)>>}
=============================================================================
