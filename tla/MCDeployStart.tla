--------------------------- MODULE MCDeployStart ---------------------------
(***************************************************************************)
(* An instance of DeployStart for TLC.                                     *)
(***************************************************************************)
EXTENDS DeployStart, TLC

CONSTANTS c1, c2, k1, blank

EitherClient == Permutations(Clients)
=============================================================================
