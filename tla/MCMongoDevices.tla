--------------------------- MODULE MCMongoDevices ---------------------------
(* Instances of MongoDevices for TLC.                                      *)
EXTENDS MongoDevices, TLC

Calls == Permutations(Req)

AllOps == {"register", "unregister", "put", "updateRegister", "subscribe", "unsubscribe"}
Updates == {"register", "updateRegister"}
==============================================================================
