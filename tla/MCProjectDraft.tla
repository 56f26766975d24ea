---------------------------- MODULE MCProjectDraft ----------------------------
(***************************************************************************)
(* Two terminals, one run each or two runs of one.  "title" is short and   *)
(* "false" as long as a value, so that a misplaced line may be cut to      *)
(* nothing or to a piece.                                                  *)
(***************************************************************************)
EXTENDS ProjectDraft, TLC

CONSTANTS t1, t2
MCProc == {t1, t2}
MCOctets == "" :> 0 @@ "true" :> 4 @@ "false" :> 5 @@ "modules" :> 80 @@ "title" :> 5
MCValue == DOMAIN MCOctets
MCNames == {"title"}
MCTyped == {"modules"}
Terminals == Permutations(MCProc)
=============================================================================
