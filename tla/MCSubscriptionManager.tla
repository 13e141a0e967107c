----------------------- MODULE MCSubscriptionManager -----------------------
\* Instances of SubscriptionManager for TLC.
EXTENDS SubscriptionManager
=============================================================================
