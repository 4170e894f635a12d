-------------------------- MODULE MC_Subscription ---------------------------
(* Small instances of Subscription: provisioning workers v and w.            *)
EXTENDS Subscription
CONSTANTS v, w
=============================================================================
