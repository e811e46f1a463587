---------------------- MODULE MCSubscriptionContext ----------------------
(***************************************************************************)
(* SubscriptionContext with the role cache and the policy cache.           *)
(***************************************************************************)
EXTENDS SubscriptionContext
=============================================================================
