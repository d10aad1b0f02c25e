-------------------------- MODULE MCProviderClient --------------------------
(* A small instance of ProviderClient for TLC, in MCProvider.cfg. *)
EXTENDS ProviderProperties
=============================================================================
