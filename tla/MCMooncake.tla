----------------------------- MODULE MCMooncake -----------------------------
(* Instances of MooncakeTransfer for TLC. *)
EXTENDS MooncakeTransfer

CONSTANTS r1, r2

MCReq == {r1, r2}

(* Each decode rank pulls both requests from the same prefill rank, over   *)
(* the same socket and with cached metadata; rank 1 from the tracker's.    *)
MCSample == [r \in MCReq |-> [d \in DRank |-> IF d = 0 THEN 1 ELSE 0]]
=============================================================================
