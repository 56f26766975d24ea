------------------------------ MODULE Exchange ------------------------------
(***************************************************************************)
(* What the commands rely on when they call http::get, post or put: the    *)
(* call returns once; if it returns SUCCESS the server has done what was   *)
(* asked; if it returns FAILURE nothing is known, and the server may still *)
(* do it afterwards.                                                       *)
(***************************************************************************)
VARIABLES applied, result

Init == applied = FALSE /\ result = "none"

Apply == ~applied /\ applied' = TRUE /\ UNCHANGED result

Succeed == applied /\ result = "none" /\ result' = "SUCCESS" /\ UNCHANGED applied

Fail == result = "none" /\ result' = "FAILURE" /\ UNCHANGED applied

Next == Apply \/ Succeed \/ Fail

Spec == Init /\ [][Next]_<<applied, result>>
=============================================================================
