----------------------------- MODULE SpecDecode -----------------------------
(***************************************************************************)
(* Speculative decoding: sampling with rejection of draft tokens, what the *)
(* runner keeps of the sampled tokens, and the inputs of the drafters      *)
(* (MtpProposer and EagleProposer) made from it.                           *)
(*                                                                         *)
(* The target model answers by t: t[i][j] is the token it gives at the     *)
(* j-th of the places of request i that are sampled.  For a random request *)
(* the draft is accepted if t[i][j] is the draft, and t[i][j] is sampled   *)
(* as the recovered token otherwise.                                       *)
(***************************************************************************)
EXTENDS ModelInputs, SortedLists

CONSTANT KernelBlock  \* BLOCK_SIZE of the kernels that select draft inputs

ASSUME KernelAssumption == KernelBlock \in Nat \ {0}

Placeholder == -1

(* The tokens that the model's logits at these flat rows give; 0 for a     *)
(* row that is not sampled.                                                *)
TokensAt(b, t, rows) ==
  LET cu == CumSum(Of(b, "sched"))
      Owner(r) == CHOOSE i \in DOMAIN b : r < cu[i] /\ r >= cu[i] - b[i].sched
      Place(r) == LET i == Owner(r) IN r - (cu[i] - b[i].drafts - 1) + 1
  IN  Listed([k \in DOMAIN rows |->
                IF Place(rows[k]) >= 1 THEN t[Owner(rows[k])][Place(rows[k])] ELSE 0])

-----------------------------------------------------------------------------
(* rejection_sampler.py *)

RejectionGreedySpecLen1(draft, argmax, bonus) ==
  [i \in DOMAIN draft |-> <<argmax[i], IF draft[i] = argmax[i] THEN bonus[i] ELSE Placeholder>>]

(* The first place where a request's drafts and the target differ. *)
FirstMismatch(draft, target, start, n) ==
  LET differ == {p \in 0 .. n - 1 : Get(draft, start + p) # Get(target, start + p)}
  IN  IF differ = {} THEN n ELSE Min(differ)

RejectionGreedySample(out, meta, argmax, bonus, greedy) ==
  LET n        == meta.num_draft_tokens
      start    == Minus(meta.cu_num_draft_tokens, n)
      first    == Listed([i \in DOMAIN n |-> FirstMismatch(meta.draft_token_ids, argmax, start[i], n[i])])
      copy_len == Listed([i \in DOMAIN n |-> Min({first[i] + 1, n[i]})])
  IN  [i \in DOMAIN out |-> [c \in DOMAIN out[i] |->
         CASE greedy[i] /\ c - 1 < copy_len[i] -> Get(argmax, start[i] + c - 1)
           [] greedy[i] /\ first[i] >= n[i] /\ c - 1 = n[i] -> bonus[i]
           [] OTHER -> out[i][c]]]

(* sample_recovered_tokens: never the draft itself, whose probability is   *)
(* set to zero; 3 stands for a token that is sampled and not used.         *)
SampleRecoveredTokens(draft, target) ==
  Listed([k \in DOMAIN draft |-> IF target[k] = draft[k] THEN 3 ELSE target[k]])

RejectionRandomSample(out, meta, target, bonus, recovered, greedy) ==
  LET cu       == meta.cu_num_draft_tokens
      start(i) == IF i = 1 THEN 0 ELSE cu[i - 1]
      n(i)     == cu[i] - start(i)
      first    == Listed([i \in DOMAIN out |-> FirstMismatch(meta.draft_token_ids, target, start(i), n(i))])
  IN  [i \in DOMAIN out |-> [c \in DOMAIN out[i] |->
         CASE ~greedy[i] /\ c - 1 < first[i] -> Get(meta.draft_token_ids, start(i) + c - 1)
           [] ~greedy[i] /\ c - 1 = first[i] /\ first[i] < n(i) -> Get(recovered, start(i) + c - 1)
           [] ~greedy[i] /\ c - 1 = n(i) /\ first[i] = n(i) -> bonus[i]
           [] OTHER -> out[i][c]]]

RejectionSample(meta, target, bonus, greedy) ==
  LET n      == meta.num_draft_tokens
      none   == [i \in DOMAIN n |-> [c \in 1 .. Max(Range(n)) + 1 |-> Placeholder]]
      chosen == IF Range(greedy) = {FALSE} THEN none
                ELSE IF Range(n) = {1} /\ Range(greedy) = {TRUE}
                THEN RejectionGreedySpecLen1(meta.draft_token_ids, target, bonus)
                ELSE RejectionGreedySample(none, meta, target, bonus, greedy)
  IN  IF Range(greedy) = {TRUE} THEN chosen
      ELSE RejectionRandomSample(chosen, meta, target, bonus,
             SampleRecoveredTokens(meta.draft_token_ids, target), greedy)

(* RejectionSampler.parse_output, of vLLM. *)
ParseOutput(out) ==
  Listed([i \in DOMAIN out |->
            Take(out[i], Ascending({c \in DOMAIN out[i] : out[i][c] # Placeholder}))])

-----------------------------------------------------------------------------
(* The end of execute_model. *)

SpecDecodeMetadata(b, inp) ==
  CalcSpecDecodeMetadata(Of(b, "drafts"), Tail(inp.query_start_loc), inp.input_ids)

(* Sample, with or without drafts, and drop what a partial prefill gave.   *)
ValidSampledTokenIds(b, inp, t) ==
  LET logits  == TokensAt(b, t, LogitsIndices(b, inp))
      meta    == SpecDecodeMetadata(b, inp)
      sampled == IF UseSpecDecode(b)
                 THEN ParseOutput(RejectionSample(meta,
                        IndexSelect(logits, meta.target_logits_indices),
                        IndexSelect(logits, meta.bonus_logits_indices), Of(b, "greedy")))
                 ELSE [i \in DOMAIN b |-> <<logits[i]>>]
  IN  Listed([i \in DOMAIN b |->
        IF b[i].computed + b[i].sched < b[i].total THEN <<>> ELSE sampled[i]])

(* Cache the sampled tokens behind the request's own. *)
CacheSampled(b, valid) ==
  Listed([i \in DOMAIN b |->
    [b[i] EXCEPT !.tokens = Scatter(@, [k \in DOMAIN valid[i] |-> b[i].total + k - 1], valid[i]),
                 !.total = @ + Len(valid[i])]])

-----------------------------------------------------------------------------
(* The drafters.  Their inputs are a record of the flat rows of the target *)
(* whose hidden states they take, the tokens, positions and slots they put *)
(* with them, and the last row of each request.                            *)

(* The token after the last one scheduled: just sampled, or of the prompt. *)
NextTokenIds(b, valid) ==
  Listed([i \in DOMAIN b |->
    IF valid[i] # <<>> THEN Last(valid[i]) ELSE Get(b[i].tokens, b[i].computed + b[i].sched)])

(* A variant that takes a discarded token for a rejected one. *)
NumRejected_Partial(b, valid) ==
  Listed([i \in DOMAIN b |-> b[i].drafts + 1 - Len(valid[i])])
NumRejected(b, valid) ==
  Listed([i \in DOMAIN b |-> IF b[i].drafts > 0 THEN b[i].drafts + 1 - Len(valid[i]) ELSE 0])

(* The rows of the tokens that were kept.  prepare_input_kernel fills one  *)
(* block of each request's and leaves the rest zero ...                    *)
PrepareInputKernel(starts, cu) ==
  LET n == Minus(Tail(cu), Front(cu))
  IN  FlattenSeq([i \in DOMAIN n |->
        [j \in 1 .. n[i] |-> IF j <= KernelBlock THEN starts[i] + j - 1 ELSE 0]])

(* ... prepare_eagle_input_sequential every block from the first row on.   *)
PrepareEagleInputSequential(starts, cu) ==
  LET n == Minus(Tail(cu), Front(cu))
  IN  FlattenSeq([i \in DOMAIN n |->
        [j \in 1 .. n[i] |-> starts[i] + ((j - 1) % KernelBlock)]])

(* prepare_inputs of both proposers: cu_num_tokens and the rows taken.     *)
MtpPrepareInputs(qsl, rejected, torchair) ==
  LET query == Minus(Tail(qsl), Front(qsl))
      cu    == <<0>> \o CumSum(Minus(query, rejected))
      last  == Listed([i \in DOMAIN query |-> qsl[i] + query[i] - rejected[i] - 1])
  IN  IF torchair THEN [cu |-> qsl, rows |-> ARange(Last(qsl)), last |-> last]
      ELSE [cu |-> cu, rows |-> PrepareInputKernel(qsl, cu),
            last |-> Listed([i \in DOMAIN query |-> cu[i + 1] - 1])]

EaglePrepareInputs(qsl, rejected) ==
  LET cu == <<0>> \o CumSum(Minus(Minus(Tail(qsl), Front(qsl)), rejected))
  IN  [cu |-> cu, rows |-> PrepareEagleInputSequential(qsl, cu),
       last |-> Listed([i \in DOMAIN rejected |-> cu[i + 1] - 1])]

AllRows(qsl) ==
  [cu |-> qsl, rows |-> ARange(Last(qsl)), last |-> Listed([i \in DOMAIN Tail(qsl) |-> qsl[i + 1] - 1])]

(* Shift the kept tokens by one, and put the next token behind each        *)
(* request's: the beginning of propose of both.                            *)
ShiftIn(p, inp, next) ==
  LET ids == IndexSelect(inp.input_ids, p.rows)
  IN  [rows      |-> p.rows,
       input_ids |-> Scatter(Tail(ids) \o <<Last(ids)>>, p.last, next),
       positions |-> IndexSelect(inp.positions, p.rows),
       slots     |-> IndexSelect(inp.slot_mapping, p.rows),
       last      |-> p.last]

(* _generate_mtp_token_ids and MtpProposer.propose. *)
MtpPropose(b, inp, valid, torchair) ==
  ShiftIn(IF UseSpecDecode(b)
          THEN MtpPrepareInputs(inp.query_start_loc, NumRejected(b, valid), torchair)
          ELSE AllRows(inp.query_start_loc),
          inp, NextTokenIds(b, valid))

(* _generate_eagle3_token_ids and EagleProposer.propose, which puts the    *)
(* first request's next token behind every request's.                      *)
EaglePropose(b, inp, valid) ==
  ShiftIn(IF UseSpecDecode(b) THEN EaglePrepareInputs(inp.query_start_loc, NumRejected(b, valid))
          ELSE AllRows(inp.query_start_loc),
          inp, [i \in DOMAIN b |-> NextTokenIds(b, valid)[1]])

(* Where the KV of EagleProposer's second draft token goes. *)
SecondDraftSlots(b, p) ==
  LET position(i) == Get(p.positions, p.last[i]) + 1
      clamped(i)  == IF position(i) >= MaxModelLen THEN 0 ELSE position(i)
  IN  Listed([i \in DOMAIN b |->
        IF position(i) >= MaxModelLen THEN -1
        ELSE Get(b[i].blocks, clamped(i) \div BlockSize) * BlockSize + (clamped(i) % BlockSize)])

-----------------------------------------------------------------------------
(* What they are for. *)

(* The drafts that the target agrees with, and one token more. *)
TargetTokens(r, answer) ==
  IF r.computed + r.sched < r.total THEN <<>>
  ELSE LET agreed == Max({m \in 0 .. r.drafts :
                 \A j \in 1 .. m : answer[j] = Get(r.tokens, r.total + j - 1)})
       IN  SubSeq(answer, 1, agreed + 1)

(* How many of the tokens of this step stay. *)
Staying(r, new) == IF new.total > r.total THEN new.total - 1 - r.computed ELSE r.sched

(* The drafter takes, for each request, the hidden states of exactly the   *)
(* tokens that stay, at their positions and slots, each with the token     *)
(* that follows it; lasts are the requests whose last row is included.     *)
(* Rows of rejected drafts may be left in behind them.                     *)
FollowsTarget(b, new, inp, p, lasts) ==
  \A i \in DOMAIN b :
    LET kept == Staying(b[i], new[i])
        row0 == CumSum(Of(b, "sched"))[i] - b[i].sched
    IN  \A k \in 1 .. kept :
          LET at == p.last[i] - kept + k  pos == b[i].computed + k - 1
          IN  /\ Get(p.rows, at) = row0 + k - 1
              /\ Get(p.positions, at) = pos
              /\ Get(p.slots, at) = Get(inp.slot_mapping, row0 + k - 1)
              /\ k < kept \/ i \in lasts => Get(p.input_ids, at) = Get(new[i].tokens, pos + 1)

(* Slots of the KV cache with something in them that is still needed. *)
LiveSlots(b, new) ==
  UNION {{Get(new[i].blocks, q \div BlockSize) * BlockSize + (q % BlockSize) :
            q \in 0 .. b[i].computed + Staying(b[i], new[i]) - 1} : i \in DOMAIN b}

(* Which place of which request a row of logits is for. *)
GrammarRows(b, order) ==
  FlattenSeq([i \in DOMAIN b |-> [j \in 1 .. b[i].drafts + 1 |->
                IF i \in Range(order) THEN <<i, j>> ELSE <<>>]])
=============================================================================
