---------------------------- MODULE MCScheduler ----------------------------
(* Instances of AscendScheduler for TLC. *)
EXTENDS AscendScheduler

CONSTANTS loraA, loraB

(* The third prompt arrives with its KV cache elsewhere, the last one is   *)
(* longer than the whole KV cache.                                         *)
MCPromptLen == <<3, 2, 4, 13>>
MCLora == <<loraA, loraB, NoLora, NoLora>>

(* Prompts that do not fit into one batch together. *)
LivePromptLen == <<4, 3, 4>>
LiveLora == <<NoLora, NoLora, NoLora>>

(* A prompt that would fit exactly, were it not for the null block. *)
FullPromptLen == <<2, 12>>
FullLora == <<NoLora, NoLora>>
=============================================================================
