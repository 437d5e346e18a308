------------------------------ MODULE MCWorker ------------------------------
(* Instances of MoEForward and StepForward for TLC. *)
EXTENDS MoEForward, StepForward

(* Routings that spread the tokens, send them all one way, and skip ranks. *)
MCPatterns == {<<0, 1, FALSE>>, <<1, 3, FALSE>>, <<2, 1, TRUE>>}

(* Four ranks with three places each: half of the experts have two copies. *)
MCPlacement ==
  [r \in 0 .. 3 |-> << <<0, 1, 6>>, <<2, 3, 0>>, <<5, 4, 3>>, <<7, 6, 5>> >>[r + 1]]

(* A decode without, with one and with two drafts, a prompt, one token as  *)
(* a prompt, and a part of a prompt with two blocks of context.            *)
MCShapes == {<<2, 1, 0, 3>>, <<2, 2, 1, 3>>, <<2, 3, 2, 3>>,
             <<0, 3, 0, 3>>, <<0, 1, 0, 1>>, <<4, 2, 0, 7>>}

(* A slice of a tile and a part, and one of less than a tile. *)
MCSlices == <<14, 4>>

MCTriples == {<< <<2, 2, 1, 3>>, <<2, 1, 0, 3>> >>}
=============================================================================
