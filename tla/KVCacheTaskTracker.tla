------------------------- MODULE KVCacheTaskTracker -------------------------
(***************************************************************************)
(* The completion counter kept by tensor-parallel rank 0 of an engine      *)
(* (class KVCacheTaskTracker).  Every rank that is done with a request     *)
(* signals rank 0; when target_count different ranks have signalled, the   *)
(* request moves to finished_requests, where the worker's next step        *)
(* collects it.  The tracker is a value here; the modules that use it keep *)
(* it in a variable and model the PUSH/PULL channel that feeds it.         *)
(* done_task_counts is a defaultdict(set), so a request that is not in the *)
(* dictionary and one with no rank yet are the same value, {}.             *)
(***************************************************************************)
EXTENDS Naturals, FiniteSets

Trackers(Req, Rank) ==
  [done_task_counts : [Req -> SUBSET Rank], finished_requests : SUBSET Req]

NewTracker(Req) ==
  [done_task_counts |-> [r \in Req |-> {}], finished_requests |-> {}]

(* Three wrong counters: one that is a rank early, one that never gets     *)
(* there, and one that forgets to drop the finished count.                 *)
CountTo(t, req, rank, done) ==
  LET ranks == t.done_task_counts[req] \cup {rank}
  IN  IF done
      THEN [done_task_counts  |-> [t.done_task_counts EXCEPT ![req] = {}],
            finished_requests |-> t.finished_requests \cup {req}]
      ELSE [t EXCEPT !.done_task_counts[req] = ranks]

IncrementTaskCount_Early(t, req, rank, target_count) ==
  CountTo(t, req, rank,
          Cardinality(t.done_task_counts[req] \cup {rank}) >= target_count - 1)

IncrementTaskCount_Late(t, req, rank, target_count) ==
  CountTo(t, req, rank,
          Cardinality(t.done_task_counts[req] \cup {rank}) > target_count)

IncrementTaskCount_NoPop(t, req, rank, target_count) ==
  LET ranks == t.done_task_counts[req] \cup {rank}
  IN  [done_task_counts  |-> [t.done_task_counts EXCEPT ![req] = ranks],
       finished_requests |-> IF Cardinality(ranks) = target_count
                             THEN t.finished_requests \cup {req}
                             ELSE t.finished_requests]

IncrementTaskCount(t, req, rank, target_count) ==
  LET ranks == t.done_task_counts[req] \cup {rank}
  IN  IF rank \in t.done_task_counts[req]           \* duplicate: ignored
      THEN t
      ELSE IF Cardinality(ranks) = target_count
           THEN [done_task_counts  |-> [t.done_task_counts EXCEPT ![req] = {}],
                 finished_requests |-> t.finished_requests \cup {req}]
           ELSE [t EXCEPT !.done_task_counts[req] = ranks]

ClearFinished_Copy(t) == t   \* copies the set and forgets to clear it

(* get_and_clear_finished_requests: what is left; the caller takes t.finished_requests. *)
ClearFinished(t) == [t EXCEPT !.finished_requests = {}]
=============================================================================
