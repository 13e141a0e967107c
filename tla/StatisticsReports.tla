-------------------------- MODULE StatisticsReports --------------------------
(***************************************************************************)
(* What the statistics promise whoever reads the reports: "one of the      *)
(* dictionaries holds the historical global value and the other one stores *)
(* the value since the last value reporting" (README.md:85 of the          *)
(* library).  A report tells all of the second and nothing else, and       *)
(* empties it; a load begins anew.                                         *)
(***************************************************************************)
EXTENDS Naturals

VARIABLES
    counted,  \* the sum of the values counted since the last load
    pending,  \* what no report has told yet
    told      \* the sum of what the reports since the load told

sums == <<counted, pending, told>>

Init == sums = <<0, 0, 0>>

Count == counted' = counted + 1 /\ pending' = pending + 1 /\ told' = told

Report == counted' = counted /\ pending' = 0 /\ told' = told + pending

Load == sums' = <<0, 0, 0>>

Next == Count \/ Report \/ Load

Spec == Init /\ [][Next]_sums
==============================================================================
