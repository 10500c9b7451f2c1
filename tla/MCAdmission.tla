---------------------------- MODULE MCAdmission ----------------------------
(***************************************************************************)
(* An instance of Admission for TLC: three pollers over four records. Two  *)
(* records are larger than the byte limit 3, one of them so large that any *)
(* addition to it overflows the counter, whose maximum is 7.               *)
(***************************************************************************)
EXTENDS Admission, TLC

CONSTANTS p1, p2, p3

MCPollers == {p1, p2, p3}
MCRecords == 1..4
MCOwner == 1 :> p1 @@ 2 :> p2 @@ 3 :> p3 @@ 4 :> p3
MCSize == <<2, 7, 5, 1>>
=============================================================================
