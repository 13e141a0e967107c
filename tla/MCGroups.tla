------------------------------- MODULE MCGroups -------------------------------
(* Instances of Groups for TLC: two pairs; three requests of one service and  *)
(* one of another.                                                          *)
EXTENDS Groups, TLC

CONSTANTS k1, k2, r1, r2, r3, r4, s1, s2

Pairs == {k1, k2}
FourRequests == {r1, r2, r3, r4}
Owners == r1 :> s1 @@ r2 :> s1 @@ r3 :> s1 @@ r4 :> s2
Division == r1 :> {"create"} @@ r2 :> {"modify", "remove"}
              @@ r3 :> {"remove"} @@ r4 :> {"create", "get"}
Lists == r1 :> {<<k2, k1>>} @@ r2 :> {} @@ r3 :> {} @@ r4 :> {<<k1>>}
==============================================================================
