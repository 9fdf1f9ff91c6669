-------------------------- MODULE MCAdapterRegistry --------------------------
(* AdapterRegistry with its constants given values by the configuration.      *)
EXTENDS AdapterRegistry
===============================================================================
