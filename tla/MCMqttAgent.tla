---------------------------- MODULE MCMqttAgent ----------------------------
(* Instances of MqttAgent for TLC: two devices, two services, one of them   *)
(* with a group; a POST of both devices and one of a device in the other    *)
(* service.                                                                 *)
EXTENDS MqttAgent, TLC

CONSTANTS d1, d2, s1, s2, k1, k2, r1, r2

Bodies == r1 :> <<d1, d2>> @@ r2 :> <<d1>>
Headers == r1 :> s1 @@ r2 :> s2
OneGroup == s1 :> k1 @@ s2 :> None
GroupRemoved == {<<s1, None>>}
==============================================================================
