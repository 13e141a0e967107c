--------------------------- MODULE MCContextServer ---------------------------
(* Instances of ContextServer for TLC: a device without trust whose type is *)
(* configured, a device with a trust and no group or type, two requests.    *)
EXTENDS ContextServer

CONSTANTS r1, r2, d1, d2, move, stop, temp, ghost

TwoDevices == {d1, d2}
TwoCommands == {move, stop}
Declared == d1 :> {move} @@ d2 :> {stop}
Trusts == d1 :> FALSE @@ d2 :> TRUE
TypesDeclare == d1 :> {move} @@ d2 :> {}
TypesTrust == d1 :> FALSE @@ d2 :> FALSE
SomeTyped == {d1}

Item(id, names) == [id |-> id, names |-> names, code |-> 200]
Failing(id) == [id |-> id, names |-> <<temp>>, code |-> 404]

(* One command; an update refused for its second element; two commands of  *)
(* two devices; one whose response throws; a query of nothing.             *)
AllKinds ==
    [update |-> {<<Item(d1, <<move>>)>>,
                 <<Item(d1, <<move>>), Item(ghost, <<temp>>)>>,
                 <<Item(d2, <<stop, temp>>), Item(d1, <<temp, move>>)>>,
                 <<Item(d1, <<temp>>), Item(d2, <<stop>>)>>},
     query  |-> {<<>>, <<Item(d1, <<>>), Item(d2, <<temp>>)>>},
     notify |-> {<<Item(d1, <<temp>>), Item(d2, <<temp>>)>>,
                 <<Item(d1, <<temp>>), Item(ghost, <<temp>>), Failing(d2)>>}]
OneUpdate == [update |-> {<<Item(d1, <<move>>)>>}, query |-> {}, notify |-> {}]
SomeBodies == r1 :> AllKinds @@ r2 :> OneUpdate
Late == {"update", "command"}
==============================================================================
