----------------------------- MODULE MCLifecycle -----------------------------
(* Instances of Lifecycle for TLC: every kind of configuration an agent may   *)
(* be started with.                                                          *)
EXTENDS Lifecycle

AllConfigs == Config
==============================================================================
