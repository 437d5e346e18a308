---------------------------- MODULE MCInputBatch ----------------------------
(* Instances of NPUInputBatch for TLC. *)
EXTENDS NPUInputBatch

(* Requests 1 and 3 share an adapter, request 2 has none. *)
MCAdapter == <<1, 0, 1>>

NoAdapter == [r \in Req |-> 0]
=============================================================================
