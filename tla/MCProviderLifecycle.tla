------------------------ MODULE MCProviderLifecycle ------------------------
(* Model values for ProviderLifecycle. *)
EXTENDS ProviderLifecycle
=============================================================================
