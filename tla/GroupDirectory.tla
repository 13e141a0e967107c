--------------------------- MODULE GroupDirectory ---------------------------
(***************************************************************************)
(* What the Configuration API promises of the device groups: a directory   *)
(* from (resource, apikey) pairs to groups, "For every Device Group, the   *)
(* pair (resource, apikey) *must* be unique" (README.md:899 of the         *)
(* library), in which a request changes and removes only groups of its own *)
(* service, and creates only groups that are not there.                    *)
(***************************************************************************)
CONSTANTS Keys, Requests, ServiceOf, None

VARIABLE directory  \* the group of each pair: its service and last writer

Entry(r) == [service |-> ServiceOf[r], by |-> r]

Init == directory = [k \in Keys |-> None]

(* A creation stores some of the pairs it names.                           *)
Add(r, K) ==
    /\ \A k \in K : directory[k] = None
    /\ directory' = [k \in Keys |-> IF k \in K THEN Entry(r) ELSE directory[k]]

Owns(r, k) == directory[k] # None /\ directory[k].service = ServiceOf[r]

Change(r, k) == Owns(r, k) /\ directory' = [directory EXCEPT ![k] = Entry(r)]

Drop(r, k) == Owns(r, k) /\ directory' = [directory EXCEPT ![k] = None]

Next ==
    \E r \in Requests :
        \/ \E K \in SUBSET Keys : Add(r, K)
        \/ \E k \in Keys : Change(r, k) \/ Drop(r, k)

Spec == Init /\ [][Next]_directory
==============================================================================
