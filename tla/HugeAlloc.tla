-------------------------------- MODULE HugeAlloc --------------------------------
(***************************************************************************)
(* The allocator of a RoCE dispatcher's registered memory                   *)
(* (src/src/dispatcher_impl/roce/huge_alloc.cc, .h) and the calls made to  *)
(* it: init_recvs takes one large block for the receive ring, workers       *)
(* take mbufs in bulk, tx_burst frees them.  A free block of a larger class *)
(* is split in halves until there is one of the class asked for; blocks are *)
(* never joined again.                                                      *)
(*                                                                          *)
(* A block is its address and its class; freelist_ holds the blocks of all  *)
(* classes, and "the back" of a class's list is any of them.  Worker and    *)
(* dispatcher share a thread: the freelists have no lock, a call runs to    *)
(* its end.                                                                 *)
(***************************************************************************)
EXTENDS Integers, FiniteSets

CONSTANTS
  k_num_classes,
  class_max_size,    \* class_max_size()
  RegionBlocks,      \* kMemRegionSize / k_max_class_size
  RingExtentSize,    \* kRQDepth * kMbufSize
  kMbufSize,
  Bulk               \* the numbers of mbufs asked for at once

Classes == 0 .. k_num_classes - 1
k_max_class_size == class_max_size[k_num_classes - 1]
RegionSize == RegionBlocks * k_max_class_size

\* Sizes double from class to class and the region is a multiple of the largest
\* (4 x 8 MB), so that add_raw_buffer has no remainder to cut up.  get_class is
\* undefined for sizes of the smallest class (see MsbIndex).
ASSUME AllocAssumption ==
  /\ k_num_classes \in Nat \ {0} /\ RegionBlocks \in Nat \ {0}
  /\ class_max_size \in [Classes -> Nat \ {0}]
  /\ \A c \in Classes \ {0} : class_max_size[c] = 2 * class_max_size[c - 1]
  /\ {RingExtentSize, kMbufSize} \subseteq class_max_size[0] + 1 .. k_max_class_size
  /\ kMbufSize <= RingExtentSize
  /\ Bulk \subseteq Nat \ {0}

Block == [addr : 0 .. RegionSize - 1, class : Classes]
NoClass == k_num_classes

\* The byte behind a block.
Behind(b) == b.addr + class_max_size[b.class]
First(b) == b.addr

VARIABLES
  freelist_,         \* the free blocks of all classes
  user,              \* the blocks handed out and not given back
  dropped,           \* those that de_alloc only marked: nobody gives them back
  user_alloc_tot_,
  pc,                \* "ring", "ready", "alloc", "split", "crashed"
  size_class, next_class, \* of the alloc() that is running
  missing            \* how many more buffers the caller wants

callVars == <<pc, size_class, next_class, missing>>
vars == <<freelist_, user, dropped, user_alloc_tot_, callVars>>

\* add_raw_buffer has cut the region into blocks of the largest class.
Init ==
  /\ freelist_ = {[addr |-> i * k_max_class_size, class |-> k_num_classes - 1] :
                    i \in 0 .. RegionBlocks - 1}
  /\ user = {} /\ dropped = {} /\ user_alloc_tot_ = 0
  /\ pc = "ring" /\ size_class = NoClass /\ next_class = NoClass /\ missing = 0

FreeOf(c) == {b \in freelist_ : b.class = c}

\* 2^i, as a function the provers can reason about.
Pow2[i \in Nat] == IF i = 0 THEN 1 ELSE 2 * Pow2[i - 1]

\* bsrl of x << 1: the position of x's highest bit, counted from 1.  The
\* instruction leaves its result undefined for x = 0.
MsbIndex(x) == CHOOSE i \in 1 .. x + 1 : Pow2[i] <= 2 * x /\ 2 * x < Pow2[i + 1]

\* Faulty get_class, for a mutant: a size that fills its class exactly counts
\* for the next one.
get_class_no_decrement(size) == MsbIndex(size \div class_max_size[0])

get_class(size) == MsbIndex((size - 1) \div class_max_size[0])

\* The code's own reference for get_class: the first class that is large enough.
get_class_slow(size) ==
  CHOOSE c \in Classes :
    /\ size <= class_max_size[c]
    /\ \A d \in Classes : d < c => class_max_size[d] < size

\* init_recvs asks for the memory of the receive ring.
InitRecvs ==
  /\ pc = "ring"
  /\ pc' = "alloc" /\ missing' = 1
  /\ size_class' = get_class(RingExtentSize)
  /\ UNCHANGED <<freelist_, user, dropped, user_alloc_tot_, next_class>>

\* roce_mbuf_alloc_bulk (roce_mbuf_alloc for n = 1): n calls of alloc().
AllocBulk(n) ==
  /\ pc = "ready"
  /\ pc' = "alloc" /\ missing' = n
  /\ size_class' = get_class(kMbufSize)
  /\ UNCHANGED <<freelist_, user, dropped, user_alloc_tot_, next_class>>

\* Classes alloc() may serve the call from.
Serving == {c \in size_class .. k_num_classes - 1 : FreeOf(c) # {}}

\* Faulty EndsSearch, for a mutant: the search begins with the largest class.
EndsSearchFromTop(c) == \A d \in Serving : d <= c

\* The search ends with the first of them.
EndsSearch(c) == \A d \in Serving : c <= d

\* alloc(): look in the class itself, then in the larger ones.
AllocSearch ==
  /\ pc = "alloc"
  /\ \E c \in Serving : EndsSearch(c) /\ next_class' = c
  /\ pc' = "split"
  /\ UNCHANGED <<freelist_, user, dropped, user_alloc_tot_, size_class, missing>>

\* alloc() returns nullptr, and both its callers look at ->buf_ of that.
AllocNull ==
  /\ pc = "alloc"
  /\ Serving = {}
  /\ pc' = "crashed"
  /\ UNCHANGED <<freelist_, user, dropped, user_alloc_tot_, size_class, next_class, missing>>

\* Faulty Halves, for a mutant: the second half begins at the block's end.
HalvesApart(b) ==
  {[addr |-> b.addr, class |-> b.class - 1], [addr |-> Behind(b), class |-> b.class - 1]}

Halves(b) ==
  {[addr |-> b.addr, class |-> b.class - 1],
   [addr |-> b.addr + class_max_size[b.class - 1], class |-> b.class - 1]}

Split ==
  /\ pc = "split" /\ next_class # size_class
  /\ \E b \in FreeOf(next_class) : freelist_' = (freelist_ \ {b}) \union Halves(b)
  /\ next_class' = next_class - 1
  /\ UNCHANGED <<user, dropped, user_alloc_tot_, pc, size_class, missing>>

\* Faulty AllocFromClass, for mutants: the buffer stays in the freelist.
AllocFromClassNoPop ==
  /\ pc = "split" /\ next_class = size_class
  /\ \E b \in FreeOf(size_class) : user' = user \union {b}
  /\ user_alloc_tot_' = user_alloc_tot_ + class_max_size[size_class]
  /\ missing' = missing - 1
  /\ IF missing = 1
       THEN pc' = "ready" /\ size_class' = NoClass
       ELSE pc' = "alloc" /\ UNCHANGED size_class
  /\ next_class' = NoClass
  /\ UNCHANGED <<freelist_, dropped>>

\* alloc_from_class, and back to the caller's loop.
AllocFromClass ==
  /\ pc = "split" /\ next_class = size_class
  /\ \E b \in FreeOf(size_class) :
       /\ freelist_' = freelist_ \ {b}
       /\ user' = user \union {b}
  /\ user_alloc_tot_' = user_alloc_tot_ + class_max_size[size_class]
  /\ missing' = missing - 1
  /\ IF missing = 1
       THEN pc' = "ready" /\ size_class' = NoClass
       ELSE pc' = "alloc" /\ UNCHANGED size_class
  /\ next_class' = NoClass
  /\ UNCHANGED dropped

\* The mbufs their holders still know of; the receive ring's block is kept.
Mbufs == {b \in user : b.class = get_class(kMbufSize)} \ dropped

\* tx_burst has polled the completion of b's packet.
FreeBuf(b) ==
  /\ pc = "ready" /\ b \in Mbufs
  /\ user' = user \ {b}
  /\ freelist_' = freelist_ \union {b}
  /\ user_alloc_tot_' = user_alloc_tot_ - class_max_size[b.class]
  /\ UNCHANGED <<dropped, callVars>>

\* roce_mbuf_de_alloc(_bulk): a packet is dropped, its buffer is only marked.
DeAlloc(b) ==
  /\ pc = "ready" /\ b \in Mbufs
  /\ dropped' = dropped \union {b}
  /\ UNCHANGED <<freelist_, user, user_alloc_tot_, callVars>>

Next ==
  \/ InitRecvs
  \/ \E n \in Bulk : AllocBulk(n)
  \/ AllocSearch \/ AllocNull \/ Split \/ AllocFromClass
  \/ \E b \in user : FreeBuf(b)
  \/ \E b \in user : DeAlloc(b)

Spec == Init /\ [][Next]_vars

-----------------------------------------------------------------------------
(* Properties *)

\* Every variable has a value of its type; a call in progress has its classes.
TypeOK ==
  /\ freelist_ \subseteq Block /\ user \subseteq Block /\ dropped \subseteq user
  /\ user_alloc_tot_ \in Int
  /\ pc \in {"ring", "ready", "alloc", "split", "crashed"}
  /\ size_class \in Classes \union {NoClass}
  /\ next_class \in Classes \union {NoClass}
  /\ missing \in Nat

Apart(b, c) == Behind(b) <= First(c) \/ Behind(c) <= First(b)

\* No byte belongs to two blocks, whether free or handed out, and no block is both.
BlocksApart ==
  /\ freelist_ \intersect user = {}
  /\ \A b \in freelist_ \union user, c \in freelist_ \union user : b # c => Apart(b, c)

\* Splitting and handing out lose no memory either: the blocks make up the whole
\* region, and user_alloc_tot_ tells how much of it is out.
Covered(blocks) == UNION {First(b) .. Behind(b) - 1 : b \in blocks}
BlocksTile ==
  /\ BlocksApart
  /\ Covered(freelist_ \union user) = 0 .. RegionSize - 1
  /\ user_alloc_tot_ = Cardinality(Covered(user))

\* The assertions of split() and alloc(): there is a block to split or to take,
\* and the classes between it and the one asked for are empty (huge_alloc.h:180,
\* huge_alloc.cc:187).
SplitAssertions ==
  pc = "split" =>
    /\ size_class <= next_class /\ next_class < k_num_classes
    /\ FreeOf(next_class) # {}
    /\ \A c \in size_class .. next_class - 1 : FreeOf(c) = {}

\* The largest number of mbufs that fit beside the receive ring.
MbufsThatFit ==
  (RegionSize - class_max_size[get_class_slow(RingExtentSize)])
    \div class_max_size[get_class_slow(kMbufSize)]

\* alloc() fails only when all of them are out: the allocator wastes nothing
\* although it never joins blocks again.
FailsOnlyWhenFull == pc = "crashed" => Cardinality(user) = MbufsThatFit + 1

\* What the dispatcher relies on: handed out buffers never overlap.
Pool == INSTANCE BufferPool WITH live <- user
PoolSpec == Pool!Spec
================================================================================
