--------------------------- MODULE MCIssueQuestions ---------------------------
(***************************************************************************)
(* Texts: a project called like the number of another one ("3d", "010" is  *)
(* eight in base 0), two that share a name, one of 40 octets, one that     *)
(* only a typing user knows.  Sites: one with lists of the projects, one   *)
(* with lists of everybody.                                                *)
(***************************************************************************)
EXTENDS IssueQuestions, TLC

MCNumber == "3d" :> 3 @@ "010" :> 8 @@ "wiki" :> 0 @@ "long" :> 0
MCText == DOMAIN MCNumber
MCOctets == "3d" :> 2 @@ "010" :> 3 @@ "wiki" :> 39 @@ "long" :> 40
MCProjectId == {3, 8, 9}

Item(id, name) == [id |-> id, name |-> name, readable |-> TRUE]
Group == [id |-> 5, name |-> "wiki", readable |-> FALSE]
Row(id, name, identifier) ==
    [id |-> id, name |-> name, identifier |-> identifier, readable |-> TRUE]

Lists(f, s) ==
    CASE f = "status" /\ s = 0 -> <<Item(1, "wiki")>>
      [] f = "version" /\ s = 8 -> <<Item(2, "wiki"), Item(3, "long")>>
      [] f = "category" /\ s = 3 -> <<Item(2, "wiki")>>
      [] f = "member" /\ s = 3 -> <<Item(1, "wiki"), Item(2, "wiki")>>
      [] f = "member" /\ s = 8 -> <<Item(4, "3d"), Item(3, "long")>>
      [] OTHER -> <<>>

Site(rows, of) ==
    [projects |-> rows, issue |-> of,
     lists |-> [f \in List |-> [s \in Scope |-> Lists(f, s)]]]

MCSites ==
    {Site(<<Row(3, "wiki", "wiki"), Row(8, "wiki", "3d")>>, 3),
     Site(<<Row(8, "long", "long"), Row(3, "3d", "010")>>, 8)}

MCContents == {<<Item(6, "3d"), Group>>}
MCCreated == {Row(9, "long", "wiki")}
MCPaged == {"project", "member"}
MCTypedDone == {-1, 3, 50, 101, 261}
=============================================================================
