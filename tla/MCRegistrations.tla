-------------------------- MODULE MCRegistrations --------------------------
\* Instances of Registrations for TLC.
EXTENDS Registrations, TLC

Calls == Permutations(Req)
=============================================================================
