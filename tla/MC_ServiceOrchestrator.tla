---------------------- MODULE MC_ServiceOrchestrator ----------------------
(* Model-checking instance of ServiceOrchestrator: up to three services,  *)
(* one of whose names starts with another's.                              *)
EXTENDS ServiceOrchestrator, TLC

CONSTANTS a, b, c

MCNames == {a, b, c}
(* The service b's name starts with the service a's, as "api-worker" with  *)
(* "api".                                                                   *)
MCPrefixOf == {<<a, b>>}
=============================================================================
