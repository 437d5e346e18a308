---------------------------- MODULE MCLLMDataDist ----------------------------
(* An instance of LLMDataDist for TLC. *)
EXTENDS LLMDataDist, TLC

CONSTANTS r1, r2, r3

MCReq == {r1, r2, r3}

(* r1 fills its block exactly, so that the lookahead token needs one block *)
(* more than prefill has; r2 has its first block in the prefix cache, r3   *)
(* pulls its whole prompt.                                                 *)
MCPromptLen == (r1 :> 2) @@ (r2 :> 3) @@ (r3 :> 3)
MCCached    == (r1 :> 0) @@ (r2 :> 2) @@ (r3 :> 0)
=============================================================================
