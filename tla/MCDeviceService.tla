-------------------------- MODULE MCDeviceService --------------------------
\* Instances of DeviceService for TLC: one device, one active attribute, three
\* to five calls.
EXTENDS DeviceService, TLC

Calls == Permutations(Req)

AllOps == OpNames
AllButPut == OpNames \ {"put"}
Provisioning == {"register", "unregister", "put", "subscribe"}
Subscribing == {"register", "unregister", "subscribe"}
=============================================================================
