------------------------------ MODULE Packetmem ------------------------------
(***************************************************************************)
(* The slow path's allocator of the shared packet memory (packetmem.c).    *)
(* Queues and the payload buffers of every connection come from it.  The   *)
(* free list is a sequence of regions in list order, a handle is the       *)
(* region it stands for; handles held by callers are the set `used'.       *)
(***************************************************************************)
EXTENDS Naturals, SequencesExt

CONSTANTS
    DMA_MEM_SIZE,   \* tas_info->dma_mem_size, scaled down
    Lengths         \* the lengths callers ask for

ASSUME PacketmemAssumption ==
    /\ DMA_MEM_SIZE \in Nat \ {0}
    /\ Lengths \subseteq Nat \ {0}

VARIABLES
    freelist,       \* Seq of regions, in list order
    used            \* regions held by callers

memvars == <<freelist, used>>

Region == [base : 0 .. DMA_MEM_SIZE - 1, len : 1 .. DMA_MEM_SIZE]

packetmem_init ==
    /\ freelist = <<[base |-> 0, len |-> DMA_MEM_SIZE]>>
    /\ used = {}

Adjacent(a, b) == a.base + a.len = b.base

\* The first fit; 0 when there is none.
FirstFit(list, length) == SelectInSeq(list, LAMBDA ph : ph.len >= length)

\* Mutant: a split hands out the region but leaves its base where it was.
packetmem_alloc_keepsBase(length) ==
    LET i  == FirstFit(freelist, length)
        ph == freelist[i]
    IN  /\ i # 0
        /\ used' = used \cup {[base |-> ph.base, len |-> length]}
        /\ freelist' = IF ph.len = length
                       THEN RemoveAt(freelist, i)
                       ELSE [freelist EXCEPT ![i].len = ph.len - length]

packetmem_alloc(length) ==
    LET i  == FirstFit(freelist, length)
        ph == freelist[i]
    IN  /\ i # 0
        /\ used' = used \cup {[base |-> ph.base, len |-> length]}
        /\ freelist' = IF ph.len = length
                       THEN RemoveAt(freelist, i)
                       ELSE [freelist EXCEPT ![i].base = ph.base + length,
                                             ![i].len = ph.len - length]

-----------------------------------------------------------------------------
(* The search of packetmem_free: the loop stops at the first item whose    *)
(* successor is missing or does not lie below the handle, and ph_prev is   *)
(* the item BEFORE the one it stopped at (0 stands for NULL).              *)
PhPrev(list, handle) ==
    IF list = <<>> THEN 0
    ELSE (CHOOSE i \in DOMAIN list :
            /\ i = Len(list) \/ list[i + 1].base >= handle.base
            /\ \A j \in 1 .. i - 1 : list[j + 1].base < handle.base) - 1

\* Items i and i+1 of the list become one.
MergeAt(list, i) ==
    RemoveAt([list EXCEPT ![i].len = @ + list[i + 1].len], i + 1)

\* Mutant: the successor is merged without comparing the addresses.
merge_items_unchecked(list, prev) ==
    IF prev + 1 < Len(list) THEN MergeAt(list, prev + 1) ELSE list

merge_items(list, prev) ==
    LET withPred == prev # 0 /\ Adjacent(list[prev], list[prev + 1])
        l  == IF withPred THEN MergeAt(list, prev) ELSE list
        ph == IF withPred THEN prev ELSE prev + 1
    IN  IF ph < Len(l) /\ Adjacent(l[ph], l[ph + 1]) THEN MergeAt(l, ph) ELSE l

packetmem_free(handle) ==
    LET prev == PhPrev(freelist, handle)
    IN  /\ used' = used \ {handle}
        /\ freelist' = merge_items(InsertAt(freelist, prev + 1, handle), prev)

MemNext ==
    \/ \E length \in Lengths : packetmem_alloc(length)
    \/ \E handle \in used : packetmem_free(handle)

MemSpec == packetmem_init /\ [][MemNext]_memvars

-----------------------------------------------------------------------------
MemTypeOK ==
    /\ freelist \in Seq(Region)
    /\ used \subseteq Region

\* The bytes of a region.
Bytes(r) == r.base .. r.base + r.len - 1

(* Safety of packetmem_alloc and packetmem_free: in every reachable state  *)
(* each byte of the packet memory belongs to exactly one region, either    *)
(* one of the free list or one held by a caller.  No byte is handed out    *)
(* twice, whatever order the merges ran in, and none is lost.              *)
Partition ==
    \A b \in 0 .. DMA_MEM_SIZE - 1 :
        Cardinality({i \in DOMAIN freelist : b \in Bytes(freelist[i])})
          + Cardinality({h \in used : b \in Bytes(h)}) = 1

(* What packetmem_free's "merge items if necessary" promises: once every   *)
(* handle has been returned the memory is one free region again, so that   *)
(* an allocation that succeeded on the fresh memory succeeds again.        *)
FullyCoalesced == used = {} => Len(freelist) = 1
=============================================================================
