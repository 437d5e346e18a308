--------------------------- MODULE CaMemAllocator ---------------------------
(***************************************************************************)
(* The sleep-mode allocator of one worker process, as a record             *)
(*   ptrs: the pointers of pointer_to_data, each with its tag, its         *)
(*         cpu_backup_tensor (NoData if there is none), whether physical   *)
(*         memory is mapped behind it and what that memory holds;          *)
(*   current_tag;                                                          *)
(*   misuse: some call mapped what is mapped, unmapped what is not, or     *)
(*         copied from or to unmapped memory.  (The driver returns an      *)
(*         error code for each; the extension prints it and goes on, and   *)
(*         memcpy's result is not looked at.)                              *)
(***************************************************************************)
EXTENDS Naturals, FiniteSets

CONSTANTS
  Ptr,     \* device addresses
  NoData   \* what fresh memory holds, and the absence of a backup

DefaultTag == "default"
MemTags    == {DefaultTag, "weights", "kv_cache"}

(* What a pointer's memory, or its backup, may hold. *)
Contents   == {NoData, "weights", "kv_cache"}

AllocationData == [tag : MemTags, backup : Contents, mapped : BOOLEAN, mem : Contents]

Allocators == [ptrs : UNION {[P -> AllocationData] : P \in SUBSET Ptr},
               current_tag : MemTags, misuse : BOOLEAN]

(* CaMemAllocator.get_instance: one allocator per process. *)
NewAllocator == [ptrs |-> <<>>, current_tag |-> DefaultTag, misuse |-> FALSE]

GetCurrentUsage(a) == Cardinality(DOMAIN a.ptrs)

(* create_and_map: fresh physical memory behind an address, if there is    *)
(* any left (fits); the caller is not told.                                *)
CreateAndMap(d, fits) == [d EXCEPT !.mapped = fits, !.mem = NoData]

(* unmap_and_release *)
UnmapAndRelease(d) == [d EXCEPT !.mapped = FALSE, !.mem = NoData]

(* A variant that registers the pointers without the current tag. *)
MyMalloc_NoTag(a, new) ==
  [a EXCEPT !.ptrs = [p \in DOMAIN a.ptrs \cup new |->
     IF p \in new THEN CreateAndMap([tag |-> NoData, backup |-> NoData,
                                     mapped |-> FALSE, mem |-> NoData], TRUE)
                  ELSE a.ptrs[p]]]

(* my_malloc, once for each address of new: reserve it, register it under  *)
(* the current tag, map it.                                                *)
MyMalloc(a, new) ==
  [a EXCEPT !.ptrs = [p \in DOMAIN a.ptrs \cup new |->
     IF p \in new THEN CreateAndMap([tag |-> a.current_tag, backup |-> NoData,
                                     mapped |-> FALSE, mem |-> NoData], TRUE)
                  ELSE a.ptrs[p]]]

(* use_memory_pool(tag): what its body allocates carries tag; the previous *)
(* tag, that of old, comes back when the body has run to its end.          *)
EnterMemoryPool(a, tag)  == [a EXCEPT !.current_tag = tag]
LeaveMemoryPool(a, old)  == [a EXCEPT !.current_tag = old.current_tag]

(* sleep(offload_tags): copy what has one of the tags to the host, then    *)
(* release the memory of every pointer.                                    *)
Sleep(a, offload) ==
  [a EXCEPT
     !.ptrs = [p \in DOMAIN @ |->
        UnmapAndRelease(IF @[p].tag \in offload
                        THEN [@[p] EXCEPT !.backup = a.ptrs[p].mem] ELSE @[p])],
     !.misuse = @ \/ \E p \in DOMAIN a.ptrs : ~a.ptrs[p].mapped]

(* A variant that wakes the pointers of every tag. *)
WakeUp_AllTags(a, tags, fits) ==
  [a EXCEPT
     !.ptrs = [p \in DOMAIN @ |->
        LET d == CreateAndMap(@[p], p \in fits)
        IN  IF d.mapped /\ @[p].backup # NoData
            THEN [d EXCEPT !.mem = d.backup, !.backup = NoData] ELSE d],
     !.misuse = @ \/ \E p \in DOMAIN a.ptrs : a.ptrs[p].mapped]

(* wake_up(tags): map the pointers of these tags again, copy the backup    *)
(* back where there is one and drop it.  Only for the pointers in fits     *)
(* does the device have memory left.                                       *)
WakeUp(a, tags, fits) ==
  [a EXCEPT
     !.ptrs = [p \in DOMAIN @ |->
        LET d == CreateAndMap(@[p], p \in fits)
        IN  IF @[p].tag \notin tags THEN @[p]
            ELSE [d EXCEPT !.mem = IF d.mapped THEN d.backup ELSE NoData,
                           !.backup = NoData]],
     !.misuse = @ \/ \E p \in DOMAIN a.ptrs : a.ptrs[p].tag \in tags /\ a.ptrs[p].mapped]
=============================================================================
