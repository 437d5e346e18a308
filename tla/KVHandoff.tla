------------------------------ MODULE KVHandoff ------------------------------
(***************************************************************************)
(* What a KV connector promises, without threads, sockets or counters: the *)
(* producer keeps the blocks of a request it has offered until every rank  *)
(* of the consumer is through with them; each rank pulls at most once, and *)
(* only while they are held.                                               *)
(***************************************************************************)
CONSTANTS Req, Rank

VARIABLES
  blocks,   \* [Req -> {"computing", "held", "freed"}]
  pulled    \* [Req -> SUBSET Rank]: the ranks that are through

hvars == <<blocks, pulled>>

HInit ==
  /\ blocks = [r \in Req |-> "computing"]
  /\ pulled = [r \in Req |-> {}]

Offer(r) ==
  /\ blocks[r] = "computing"
  /\ blocks' = [blocks EXCEPT ![r] = "held"]
  /\ UNCHANGED pulled

Discard(r) ==
  /\ blocks[r] = "computing"
  /\ blocks' = [blocks EXCEPT ![r] = "freed"]
  /\ UNCHANGED pulled

Pull(r, d) ==
  /\ blocks[r] = "held"
  /\ d \notin pulled[r]
  /\ pulled' = [pulled EXCEPT ![r] = @ \cup {d}]
  /\ UNCHANGED blocks

(* One step of the producer may release several requests. *)
Release(R) ==
  /\ \A r \in R : blocks[r] = "held" /\ pulled[r] = Rank
  /\ blocks' = [r \in Req |-> IF r \in R THEN "freed" ELSE blocks[r]]
  /\ UNCHANGED pulled

HNext ==
  \/ \E r \in Req : Offer(r) \/ Discard(r) \/ \E d \in Rank : Pull(r, d)
  \/ \E R \in SUBSET Req : Release(R)

HSpec == HInit /\ [][HNext]_hvars
=============================================================================
