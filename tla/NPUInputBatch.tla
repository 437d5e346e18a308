---------------------------- MODULE NPUInputBatch ----------------------------
(***************************************************************************)
(* The persistent batch of a worker (class InputBatch) and the part of     *)
(* NPUModelRunner that keeps it in step with the scheduler: _update_states *)
(* at the start of execute_model, the reordering of the batch by the MLA   *)
(* backend in _prepare_inputs, and the sampled tokens at its end.          *)
(*                                                                         *)
(* One thread runs execute_model; pc tells how far it is, and an iteration *)
(* of the loops that add and move rows is one action.  What a row holds is *)
(* told apart only by the request it belongs to: <<r, k>> is the k-th      *)
(* request submitted under the id r.  The columns that are always written  *)
(* together (token ids, temperature, top_p, penalties...) are one, owner,  *)
(* and are modelled for the rows some request holds: add_request writes    *)
(* them all.  The mask of the allowed token ids, which it does not always  *)
(* write, is modelled for every row.  The dictionaries keyed by row        *)
(* (generators, bad words) are one, gens.                                  *)
(* Computed counts, which every step sets anew, draft tokens, pooling      *)
(* models and the earlier ranks of a pipeline are left out.                *)
(***************************************************************************)
EXTENDS Integers, Sequences, FiniteSets, SequencesExt, FiniteSetsExt, RequestLists, SortedLists

CONSTANTS
  NumReq,       \* request ids 1 .. NumReq
  MaxNumReqs,   \* rows of the batch
  MaxSubmits,   \* bound: requests submitted
  MaxLen,       \* bound: tokens of a request
  MaxPreempts,  \* bound: preemptions
  MaxBlocks,    \* bound: KV blocks of a request
  Seeded,       \* requests with a generator (or bad words) of their own
  Masked,       \* requests with allowed_token_ids
  Adapter,      \* [Req -> LoRA id], 0 for none
  Backends      \* attention backends the worker may have been started with

Req == 1 .. NumReq
Row == 0 .. MaxNumReqs - 1

ASSUME BatchAssumption ==
  /\ {NumReq, MaxNumReqs, MaxSubmits, MaxLen, MaxBlocks} \subseteq Nat \ {0}
  /\ MaxPreempts \in Nat
  /\ Seeded \subseteq Req /\ Masked \subseteq Req
  /\ Adapter \in [Req -> Nat]
  /\ Backends \subseteq {"attention", "mla"}

VARIABLES
  (* the scheduler *)
  submits,   \* how often an id has been submitted
  status,    \* "none", "waiting", "running" or "preempted"
  preempts,  \* how often an id has been preempted
  alloc,     \* its blocks; a block is named by the number of preemptions before it
  finished,  \* finished_req_ids
  (* the model runner *)
  backend,   \* attn_metadata_builder
  pc,
  out,       \* the SchedulerOutput in execution
  toAdd,     \* req_ids_to_add
  cached,    \* self.requests
  (* the batch *)
  reqIds,    \* _req_ids, 0 for None
  index,     \* req_id_to_index
  rows, gens, mask, lora, loraIds,
  builder,   \* batch_update_builder
  meta,      \* sampling_metadata
  procs      \* what the logits processors know of the rows

schedVars == <<submits, status, preempts, alloc, finished>>
runVars   == <<backend, out, toAdd, cached>>
rowVars   == <<reqIds, index, rows, gens, mask, lora, loraIds>>
vars      == <<schedVars, runVars, pc, rowVars, builder, meta, procs>>

Nobody    == <<0, 0>>
Owner     == (Req \X (1 .. MaxSubmits)) \cup {Nobody}
Blocks    == Seq(0 .. MaxPreempts)
Entries   == [owner : Owner, len : 1 .. MaxLen, blocks : Blocks]
Moves     == Row \X Row \X {"UNIDIRECTIONAL", "SWAP"}
NumReqs   == Cardinality(DOMAIN index)

EmptyBuilder == [removed |-> {}, added |-> <<>>, moved |-> <<>>]
NoOutput     == [finished |-> {}, sched |-> {}, new |-> {}, resumed |-> {}, long |-> {},
                 blocks |-> [r \in Req |-> <<>>]]

(* The type of every variable. *)
TypeOK ==
  /\ submits \in [Req -> 0 .. MaxSubmits]
  /\ status \in [Req -> {"none", "waiting", "running", "preempted"}]
  /\ preempts \in [Req -> 0 .. MaxPreempts]
  /\ alloc \in [Req -> Blocks]
  /\ finished \subseteq Req
  /\ backend \in Backends
  /\ pc \in {"idle", "remove", "cached", "add", "reorder", "sample"}
  /\ out \in [finished : SUBSET Req, sched : SUBSET Req, new : SUBSET Req,
              resumed : SUBSET Req, long : SUBSET Req, blocks : [Req -> Blocks]]
  /\ toAdd \in Seq(Req)
  /\ DOMAIN cached \subseteq Req /\ cached \in [DOMAIN cached -> Entries]
  /\ reqIds \in Seq(Req \cup {0}) /\ Len(reqIds) <= MaxNumReqs
  /\ DOMAIN index \subseteq Req /\ index \in [DOMAIN index -> Row]
  /\ DOMAIN rows = {index[r] : r \in DOMAIN index}
  /\ rows \in [DOMAIN rows -> Entries]
  /\ DOMAIN gens \subseteq Row /\ gens \in [DOMAIN gens -> Owner]
  /\ mask \in [Row -> Owner]
  /\ lora \in [DOMAIN rows -> {Adapter[r] : r \in Req}]
  /\ loraIds \in [{Adapter[r] : r \in Req} -> SUBSET Req]
  /\ builder \in [removed : SUBSET Row, added : Seq(Row \X Owner), moved : Seq(Moves)]
  /\ DOMAIN meta \subseteq Row /\ meta \in [DOMAIN meta -> [owner : Owner, mask : Owner]]
  /\ procs \in [Row -> Owner]

Init ==
  /\ submits = [r \in Req |-> 0]
  /\ status = [r \in Req |-> "none"]
  /\ preempts = [r \in Req |-> 0]
  /\ alloc = [r \in Req |-> <<>>]
  /\ finished = {}
  /\ backend \in Backends
  /\ pc = "idle" /\ out = NoOutput /\ toAdd = <<>>
  /\ cached = <<>>
  /\ reqIds = <<>> /\ index = <<>>
  /\ rows = <<>>
  /\ gens = <<>>
  /\ mask = [i \in Row |-> Nobody]
  /\ lora = <<>>
  /\ loraIds = [a \in {Adapter[r] : r \in Req} |-> {}]
  /\ builder = EmptyBuilder
  /\ meta = <<>>
  /\ procs = [i \in Row |-> Nobody]

-----------------------------------------------------------------------------
(* The scheduler, as the workers see it. *)

Submit(r) ==
  /\ pc = "idle"
  /\ status[r] = "none" /\ Total(submits, Req, MaxSubmits) < MaxSubmits
  /\ submits' = [submits EXCEPT ![r] = @ + 1]
  /\ status' = [status EXCEPT ![r] = "waiting"]
  /\ UNCHANGED <<preempts, alloc, finished, runVars, pc, rowVars, builder, meta, procs>>

(* The request ends, or its client is gone. *)
Finish(r) ==
  /\ pc = "idle"
  /\ status[r] # "none"
  /\ status' = [status EXCEPT ![r] = "none"]
  /\ alloc' = [alloc EXCEPT ![r] = <<>>]
  /\ finished' = finished \cup {r}
  /\ UNCHANGED <<submits, preempts, runVars, pc, rowVars, builder, meta, procs>>

(* A batch S is scheduled, the requests in long with more than one token,  *)
(* while those in P are preempted.  A new or resumed request is sent all   *)
(* its blocks, a running one only the new ones; each step needs a new one, *)
(* up to the bound.  A running request past its prompt has one token.      *)
Tokens(r) == IF status[r] = "waiting" THEN 1 ELSE cached[r].len

CanRun(r) == status[r] # "none" /\ Tokens(r) < MaxLen

Sent(r) == IF Len(alloc[r]) < MaxBlocks THEN <<preempts[r]>> ELSE <<>>

Schedule(S, long, P) ==
  /\ pc = "idle"
  /\ \A r \in S : CanRun(r)
  /\ Cardinality(S) <= MaxNumReqs
  /\ \A r \in long : status[r] = "running" => Tokens(r) = 1
  /\ \A r \in P : status[r] = "running"
  /\ Total(preempts, Req, MaxPreempts) + Cardinality(P) <= MaxPreempts
  /\ out' = [finished |-> finished, sched |-> S, long |-> long,
             new |-> {r \in S : status[r] = "waiting"},
             resumed |-> {r \in S : status[r] = "preempted"},
             blocks |-> [r \in Req |-> IF r \in S THEN Sent(r) ELSE <<>>]]
  /\ finished' = {}
  /\ status' = [r \in Req |-> CASE r \in S -> "running"
                                [] r \in P -> "preempted"
                                [] OTHER   -> status[r]]
  /\ preempts' = [r \in Req |-> IF r \in P THEN preempts[r] + 1 ELSE preempts[r]]
  /\ alloc' = [r \in Req |-> CASE r \in S -> alloc[r] \o Sent(r)
                               [] r \in P -> <<>>
                               [] OTHER   -> alloc[r]]
  /\ pc' = "remove"
  /\ UNCHANGED <<submits, backend, toAdd, cached, rowVars, builder, meta, procs>>

-----------------------------------------------------------------------------
(* _update_states. *)

(* The requests that leave the batch: the finished ones, also when their   *)
(* id is scheduled again, and the unscheduled ones.  A variant forgets the *)
(* latter.                                                                 *)
Leaving_Finished == DOMAIN index \cap out.finished

Leaving == DOMAIN index \cap (out.finished \cup (Req \ out.sched))

(* remove_request finds the adapter of a request by its row; a variant     *)
(* leaves the sets of requests alone.                                      *)
DropLora_Forgotten(R) == UNCHANGED loraIds

DropLora(R) ==
  loraIds' = [a \in DOMAIN loraIds |-> loraIds[a] \ {r \in R : lora[index[r]] = a /\ a # 0}]

RemoveRequests ==
  LET gone == {index[r] : r \in Leaving} IN
  /\ pc = "remove"
  /\ cached' = Restrict(cached, DOMAIN cached \ out.finished)
  /\ index' = Restrict(index, DOMAIN index \ Leaving)
  /\ reqIds' = [k \in DOMAIN reqIds |-> IF k - 1 \in gone THEN 0 ELSE reqIds[k]]
  /\ gens' = Restrict(gens, DOMAIN gens \ gone)
  /\ DropLora(Leaving)
  /\ rows' = Restrict(rows, DOMAIN rows \ gone)
  /\ lora' = Restrict(lora, DOMAIN lora \ gone)
  /\ mask' = [i \in Row |-> IF i \in gone THEN Nobody ELSE mask[i]]
  /\ builder' = [builder EXCEPT !.removed = @ \cup gone]
  /\ pc' = "cached"
  /\ UNCHANGED <<schedVars, backend, out, toAdd, meta, procs>>

(* The blocks of a cached request: extended, or replaced when it was       *)
(* preempted in between; a variant always extends.                         *)
NewBlocks_Extended(r) == cached[r].blocks \o out.blocks[r]

NewBlocks(r) == IF r \in out.resumed THEN out.blocks[r] ELSE cached[r].blocks \o out.blocks[r]

(* The scheduler lists requests in the order of their ids. *)
InOrder(S) == Ascending(S)

UpdateCached ==
  LET known == out.sched \ out.new IN
  /\ pc = "cached"
  /\ cached' = [r \in DOMAIN cached \cup out.new |->
                  CASE r \in out.new -> [owner |-> <<r, submits[r]>>, len |-> 1,
                                         blocks |-> out.blocks[r]]
                    [] r \in known   -> [cached[r] EXCEPT !.blocks = NewBlocks(r)]
                    [] OTHER         -> cached[r]]
  /\ rows' = [i \in DOMAIN rows |-> [rows[i] EXCEPT !.blocks = @ \o out.blocks[reqIds[i + 1]]]]
  /\ toAdd' = InOrder(out.new) \o InOrder(known \ DOMAIN index)
  /\ pc' = "add"
  /\ UNCHANGED <<schedVars, backend, out, reqIds, index, gens, mask, lora, loraIds, builder,
                 meta, procs>>

(* _register_add_request: the smallest row that was left, or a new one.    *)
FreeRow == IF builder.removed # {} THEN Min(builder.removed) ELSE NumReqs

Put(f, x, v) == [y \in DOMAIN f \cup {x} |-> IF y = x THEN v ELSE f[y]]

AddRequest ==
  LET r == Head(toAdd)
      i == FreeRow
      o == cached[r].owner
  IN
  /\ pc = "add" /\ toAdd # <<>>
  /\ toAdd' = Tail(toAdd)
  /\ reqIds' = IF i = Len(reqIds) THEN Append(reqIds, r) ELSE [reqIds EXCEPT ![i + 1] = r]
  /\ index' = Put(index, r, i)
  /\ rows' = Put(rows, i, cached[r])
  /\ gens' = IF r \in Seeded THEN Put(gens, i, o) ELSE gens
  /\ mask' = IF r \in Masked THEN [mask EXCEPT ![i] = o] ELSE mask
  /\ lora' = Put(lora, i, Adapter[r])
  /\ loraIds' = IF Adapter[r] = 0 THEN loraIds
                                  ELSE [loraIds EXCEPT ![Adapter[r]] = @ \cup {r}]
  /\ builder' = [builder EXCEPT !.removed = @ \ {i}, !.added = Append(@, <<i, o>>)]
  /\ UNCHANGED <<schedVars, backend, out, cached, pc, meta, procs>>

-----------------------------------------------------------------------------
(* condense, when all requests are added. *)

LastRow == Max({index[r] : r \in DOMAIN index})

Added == pc = "add" /\ toAdd = <<>>

MustMove == builder.removed # {} /\ NumReqs > 0 /\ Min(builder.removed) < LastRow

MoveRow(f, last, hole) == Put(Restrict(f, DOMAIN f \ {last}), hole, f[last])

(* What a move does to req_id_to_index, to the dictionaries keyed by row   *)
(* and to the builder, each with a variant that forgets a part of it.      *)
MoveIndex_Forgotten(last, hole) == UNCHANGED index

MoveIndex(last, hole) == index' = [index EXCEPT ![reqIds[last + 1]] = hole]

MoveGenerator_Copied(last, hole) ==
  gens' = IF last \in DOMAIN gens THEN Put(gens, hole, gens[last]) ELSE gens

MoveGenerator(last, hole) ==
  gens' = IF last \in DOMAIN gens THEN MoveRow(gens, last, hole) ELSE gens

RecordMove_Forgotten(last, hole) == builder' = [builder EXCEPT !.removed = @ \ {hole}]

RecordMove(last, hole) ==
  builder' = [builder EXCEPT !.removed = @ \ {hole},
                             !.moved = Append(@, <<last, hole, "UNIDIRECTIONAL">>)]

CondenseMove ==
  LET last == LastRow
      hole == Min(builder.removed)
  IN
  /\ Added /\ MustMove
  /\ reqIds' = [reqIds EXCEPT ![hole + 1] = reqIds[last + 1], ![last + 1] = 0]
  /\ MoveIndex(last, hole)
  /\ rows' = MoveRow(rows, last, hole)
  /\ MoveGenerator(last, hole)
  /\ lora' = MoveRow(lora, last, hole)
  /\ mask' = [mask EXCEPT ![hole] = mask[last]]
  /\ RecordMove(last, hole)
  /\ UNCHANGED <<schedVars, runVars, pc, loraIds, meta, procs>>

-----------------------------------------------------------------------------
(* refresh_metadata.  A logits processor applies what was added, removed   *)
(* and moved, in this order (vLLM's processors).                           *)
ApplyMove(p, mv) ==
  [p EXCEPT ![mv[2]] = p[mv[1]], ![mv[1]] = IF mv[3] = "SWAP" THEN p[mv[2]] ELSE Nobody]

ApplyMoves(p, moved) ==
  LET after[k \in 0 .. Len(moved)] == IF k = 0 THEN p ELSE ApplyMove(after[k - 1], moved[k])
  IN  after[Len(moved)]

AddsTo(update, i) == {k \in 1 .. Len(update.added) : update.added[k][1] = i}

Apply(update) ==
  ApplyMoves([i \in Row |-> IF i \in update.removed THEN Nobody
                            ELSE IF AddsTo(update, i) = {} THEN procs[i]
                            ELSE update.added[Max(AddsTo(update, i))][2]],
             update.moved)

(* _make_sampling_metadata copies the columns, and the mask when some      *)
(* request of the batch has one.                                           *)
SamplingMetadata ==
  [i \in 0 .. NumReqs - 1 |->
     [owner |-> rows[i].owner,
      mask  |-> IF DOMAIN index \cap Masked = {} THEN Nobody ELSE mask[i]]]

(* Whether the batch has changed; a variant looks at additions only. *)
BatchUpdated_Added == builder.added # <<>>

BatchUpdated == builder # EmptyBuilder

(* condense ends: the lists are trimmed (when no row was left, they have   *)
(* that length).  refresh_metadata ends _update_states; with nothing to    *)
(* run, execute_model returns, and only the MLA backend reorders.          *)
RefreshMetadata ==
  /\ Added /\ ~MustMove
  /\ reqIds' = SubSeq(reqIds, 1, NumReqs)
  /\ procs' = Apply(builder)
  /\ meta' = IF BatchUpdated THEN SamplingMetadata ELSE meta
  /\ builder' = EmptyBuilder
  /\ pc' = IF out.sched = {} THEN "idle" ELSE IF backend = "mla" THEN "reorder" ELSE "sample"
  /\ out' = IF out.sched = {} THEN NoOutput ELSE out
  /\ UNCHANGED <<schedVars, backend, toAdd, cached, index, rows, gens, mask, lora, loraIds>>

-----------------------------------------------------------------------------
(* reorder_batch of the MLA backends: decodes to the front, with as few    *)
(* swaps as possible.  The k-th swap exchanges the k-th prefill and the    *)
(* k-th decode from the back.                                              *)
RowsOf(R)  == {index[r] : r \in R}
Decodes    == RowsOf(out.sched \ out.long)
Prefills   == RowsOf(out.sched \cap out.long)
BackRows   == {d \in Decodes : d >= Cardinality(Decodes)}
Swaps      == LET front == InOrder(Prefills)
                  back  == Reverse(Ascending(BackRows))
              IN  [k \in 1 .. Cardinality(BackRows) |-> <<front[k], back[k]>>]

Swapped(i) == IF \E k \in DOMAIN Swaps : i \in {Swaps[k][1], Swaps[k][2]}
              THEN LET k == CHOOSE k \in DOMAIN Swaps : i \in {Swaps[k][1], Swaps[k][2]}
                   IN  IF i = Swaps[k][1] THEN Swaps[k][2] ELSE Swaps[k][1]
              ELSE i

(* swap_states.  The rows of the mask tensor are exchanged without a copy, *)
(* so both end as the second row was.                                      *)
ReorderBatch ==
  /\ pc = "reorder"
  /\ reqIds' = [k \in DOMAIN reqIds |-> reqIds[Swapped(k - 1) + 1]]
  /\ index' = [r \in DOMAIN index |-> Swapped(index[r])]
  /\ rows' = [i \in DOMAIN rows |-> rows[Swapped(i)]]
  /\ gens' = [i \in {Swapped(j) : j \in DOMAIN gens} |-> gens[Swapped(i)]]
  /\ lora' = [i \in DOMAIN lora |-> lora[Swapped(i)]]
  /\ mask' = [i \in Row |-> IF i \in Prefills THEN mask[Swapped(i)] ELSE mask[i]]
  /\ builder' = [builder EXCEPT !.moved =
                   @ \o [k \in DOMAIN Swaps |-> <<Swaps[k][1], Swaps[k][2], "SWAP">>]]
  /\ pc' = "sample"
  /\ UNCHANGED <<schedVars, runVars, loraIds, meta, procs>>

(* One token is sampled for each row and goes into the row and into the    *)
(* cached request, except where this step is a part of a longer prefill.   *)
Sample(partial) ==
  /\ pc = "sample"
  /\ rows' = [i \in DOMAIN rows |-> IF reqIds[i + 1] \in partial
                                     THEN rows[i] ELSE [rows[i] EXCEPT !.len = @ + 1]]
  /\ cached' = [r \in DOMAIN cached |-> IF r \in ToSet(reqIds) \ partial
                                        THEN [cached[r] EXCEPT !.len = @ + 1] ELSE cached[r]]
  /\ pc' = "idle" /\ out' = NoOutput
  /\ UNCHANGED <<schedVars, backend, toAdd, reqIds, index, gens, mask, lora, loraIds,
                 builder, meta, procs>>

-----------------------------------------------------------------------------
UpdateStates == \/ RemoveRequests \/ UpdateCached
                \/ AddRequest \/ CondenseMove \/ RefreshMetadata

Next ==
  \/ \E r \in Req : Submit(r) \/ Finish(r)
  \/ \E S \in SUBSET Req : \E long \in SUBSET S, P \in SUBSET (Req \ S) :
       Schedule(S, long, P)
  \/ UpdateStates
  \/ ReorderBatch
  \/ \E partial \in SUBSET out.long : Sample(partial)

Spec == Init /\ [][Next]_vars

-----------------------------------------------------------------------------
(* The properties are about a batch that is ready to run: _update_states   *)
(* is over, and the batch may have been reordered.                         *)
Prepared == pc \in {"reorder", "sample"}

(* The batch is what the scheduler asked for, in rows 0 .. num_reqs - 1    *)
(* without a gap, and req_id_to_index is the inverse of req_ids.           *)
BatchIsScheduled ==
  Prepared =>
    /\ DOMAIN index = out.sched
    /\ Len(reqIds) = NumReqs
    /\ \A r \in DOMAIN index : index[r] < NumReqs /\ reqIds[index[r] + 1] = r

(* Each row holds the tokens, the parameters and the block table of the    *)
(* request now known by that id: not those of an earlier request with the  *)
(* same id, and not the blocks it had before a preemption.                 *)
RowsBelong ==
  Prepared => \A r \in DOMAIN index :
    /\ rows[index[r]].owner = <<r, submits[r]>>
    /\ rows[index[r]].len = cached[r].len
    /\ rows[index[r]].blocks = alloc[r]

(* "The indices of the requests that do not have their own generator       *)
(* should not be included in the dictionary", and the others have theirs.  *)
GeneratorsBelong ==
  Prepared => gens = [i \in {index[r] : r \in Seeded \cap DOMAIN index} |-> rows[i].owner]

(* Each row is mapped to its request's adapter, and the active adapters    *)
(* are those of the batch.                                                 *)
AdaptersBelong ==
  Prepared =>
    /\ \A r \in DOMAIN index : lora[index[r]] = Adapter[r]
    /\ \A a \in DOMAIN loraIds \ {0} : loraIds[a] = {r \in DOMAIN index : Adapter[r] = a}

(* The sampler is given the parameters of the request in each row.         *)
SampledWithOwnParams ==
  pc = "sample" =>
    /\ DOMAIN meta = 0 .. NumReqs - 1
    /\ \A i \in DOMAIN meta : meta[i].owner = rows[i].owner

(* The logits processors, which only see the updates, agree with the batch *)
(* on what is in which row.                                                *)
ProcessorsFollow ==
  pc = "sample" => \A i \in Row : procs[i] = IF i < NumReqs THEN rows[i].owner ELSE Nobody

(* With a backend that keeps the order, refresh_metadata after every       *)
(* change of the batch gives the sampler the parameters of each row.       *)
SamplerFollows == backend = "attention" => SampledWithOwnParams

(* With such a backend, the record of added, removed and moved rows is     *)
(* enough for the logits processors to follow the batch.                   *)
UpdatesFollow == backend = "attention" => ProcessorsFollow

(* "In the mask tensor, if the corresponding token allowed, the value is   *)
(* False": no row is masked by another request's allowed_token_ids.        *)
MaskedByOwn ==
  pc = "sample" => \A i \in DOMAIN meta :
    meta[i].mask = IF reqIds[i + 1] \in Masked THEN rows[i].owner ELSE Nobody
=============================================================================
