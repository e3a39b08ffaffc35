------------------------------- MODULE MCCascade -------------------------------
(* The constants of the TLC run of Cascade. *)
EXTENDS Cascade, TLC

CONSTANTS exact, router, hybrid, agentic

MCRank == exact :> 1 @@ router :> 2 @@ hybrid :> 3 @@ agentic :> 4

\* One of them always escalates: its threshold is out of reach.
MCThreshold == exact :> 1 @@ router :> 2 @@ hybrid :> 1 @@ agentic :> 1
=============================================================================
