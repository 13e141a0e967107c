------------------------ MODULE MCBrokerSubscriptions ------------------------
(* Instances of BrokerSubscriptions for TLC.                               *)
EXTENDS BrokerSubscriptions, TLC

Calls == Permutations(Sub) \union Permutations(Unsub) \union Permutations(Update)
==============================================================================
