----------------------------- MODULE HugeAllocProofs -----------------------------
(***************************************************************************)
(* Theorems of HugeAlloc for any number of classes, size of the region and   *)
(* sequence of calls: get_class finds the class its reference finds, blocks  *)
(* never overlap and make up the region, the assertions of split() hold, an  *)
(* allocation fails only when all memory is out, and the allocator           *)
(* implements BufferPool.                                                    *)
(*                                                                           *)
(* The facts about powers of two are proved by induction.  The library's     *)
(* induction theorems take a predicate, which the provers cannot instantiate; *)
(* here the principle is stated for sets (NatInd), from the theorem that the  *)
(* numbers are well-founded.                                                 *)
(***************************************************************************)
EXTENDS HugeAlloc, FiniteSetTheorems, WellFoundedInduction, TLAPS

\* The inductive invariant: where blocks end is known besides.
AllBlocks == freelist_ \union user
InRegion == \A b \in AllBlocks : Behind(b) <= RegionSize
CallOK ==
  /\ pc \in {"alloc", "split"} => size_class \in Classes /\ missing >= 1
  /\ pc = "split" => next_class \in Classes
IInv == TypeOK /\ CallOK /\ InRegion /\ BlocksApart /\ SplitAssertions

\* Sizes of classes are positive, the halves of a block make up the block.
LEMMA Sizes ==
  /\ k_num_classes \in Nat \ {0} /\ RegionBlocks \in Nat \ {0}
  /\ k_max_class_size \in Nat \ {0} /\ RegionSize \in Nat \ {0}
  /\ \A c \in Classes : class_max_size[c] \in Nat \ {0}
  /\ \A c \in Classes \ {0} :
       c - 1 \in Classes /\ class_max_size[c] = 2 * class_max_size[c - 1]
<1>1. k_num_classes \in Nat \ {0} /\ RegionBlocks \in Nat \ {0}
  BY AllocAssumption
<1>2. k_num_classes - 1 \in Classes
  BY <1>1 DEF Classes
<1>3. \A c \in Classes : class_max_size[c] \in Nat \ {0}
  BY AllocAssumption
<1>4. k_max_class_size \in Nat \ {0}
  BY <1>2, <1>3 DEF k_max_class_size
<1>5. RegionSize \in Nat \ {0}
  BY <1>1, <1>4 DEF RegionSize
<1>6. \A c \in Classes \ {0} :
        c - 1 \in Classes /\ class_max_size[c] = 2 * class_max_size[c - 1]
  BY <1>1, AllocAssumption DEF Classes
<1> QED
  BY <1>1, <1>3, <1>4, <1>5, <1>6

\* Blocks of the largest class cut one after the other do not overlap and stay
\* in the region.
LEMMA Multiples ==
  ASSUME NEW i \in Nat, NEW j \in Nat, NEW k \in Nat, i < j
  PROVE  i * k + k <= j * k
<1>1. j * k = i * k + (j - i) * k
  OBVIOUS
<1>2. (j - i) * k >= k
  <2>1. j - i >= 1 /\ j - i \in Nat
    OBVIOUS
  <2>2. \A m \in Nat : m >= 1 => m * k >= k
    OBVIOUS
  <2> QED
    BY <2>1, <2>2
<1>3. i * k \in Nat /\ (j - i) * k \in Nat /\ j * k \in Nat
  OBVIOUS
<1> QED
  BY <1>1, <1>2, <1>3

-----------------------------------------------------------------------------
(* Induction over the numbers, for sets instead of predicates *)

\* A set of numbers that is not empty has a smallest.
LEMMA NatMin ==
  ASSUME NEW T \in SUBSET Nat, T # {}
  PROVE \E x \in T : \A y \in T : x <= y
<1> DEFINE R == OpToRel(<, Nat)
<1>1. IsWellFoundedOn(R, Nat)
  BY NatLessThanWellFounded
<1>2. \A x, y \in Nat : x < y => <<x, y>> \in R
  BY DEF OpToRel
<1> HIDE DEF R
<1>3. PICK x \in T : \A y \in T : ~(<<y, x>> \in R)
  BY <1>1, WFMin
<1>4. ASSUME NEW y \in T PROVE x <= y
  <2>1. x \in Nat /\ y \in Nat /\ ~(<<y, x>> \in R)
    BY <1>3
  <2>2. ~(y < x)
    BY <1>2, <2>1
  <2> QED
    BY <2>1, <2>2
<1> QED
  BY <1>4
\* A set with 0 and the successor of each of its numbers has all.
LEMMA NatInd ==
  ASSUME NEW T \in SUBSET Nat, 0 \in T, \A n \in T : n + 1 \in T
  PROVE T = Nat
<1> DEFINE U == Nat \ T
<1>1. SUFFICES ASSUME U # {} PROVE FALSE
  OBVIOUS
<1>2. U \in SUBSET Nat
  OBVIOUS
<1> HIDE DEF U
<1>3. PICK x \in U : \A y \in U : x <= y
  BY <1>1, <1>2, NatMin
<1>4. x \in Nat /\ x # 0 /\ x \notin T
  BY <1>2, <1>3 DEF U
<1>5. x - 1 \in Nat /\ x - 1 \notin U
  BY <1>2, <1>3, <1>4
<1> QED
  BY <1>4, <1>5 DEF U

-----------------------------------------------------------------------------
(* Powers of two *)

\* f is Pow2 as far as n.
Upto(n, f) ==
  /\ f \in [0 .. n -> Nat \ {0}]
  /\ f[0] = 1
  /\ \A i \in 1 .. n : f[i] = 2 * f[i - 1]

\* There is such a function for every n ...
LEMMA UptoExists == \A n \in Nat : \E f : Upto(n, f)
<1> DEFINE T == {n \in Nat : \E f : Upto(n, f)}
<1>1. 0 \in T
  <2>1. Upto(0, [i \in 0 .. 0 |-> 1])
    BY DEF Upto
  <2> QED
    BY <2>1
<1>2. ASSUME NEW n \in T PROVE n + 1 \in T
  <2>1. PICK f : Upto(n, f)
    OBVIOUS
  <2> DEFINE g == [i \in 0 .. n + 1 |-> IF i = n + 1 THEN 2 * f[n] ELSE f[i]]
  <2>2. f[n] \in Nat \ {0} /\ 2 * f[n] \in Nat \ {0}
    BY <2>1 DEF Upto
  <2>3. g \in [0 .. n + 1 -> Nat \ {0}]
    BY <2>1, <2>2 DEF Upto
  <2>4. g[0] = 1
    BY <2>1 DEF Upto
  <2>5. ASSUME NEW i \in 1 .. n + 1 PROVE g[i] = 2 * g[i - 1]
    <3>1. i - 1 \in 0 .. n /\ i - 1 \in 0 .. n + 1 /\ i \in 0 .. n + 1
      OBVIOUS
    <3>2. g[i - 1] = f[i - 1]
      BY <3>1
    <3>3. CASE i = n + 1
      BY <3>1, <3>2, <3>3
    <3>4. CASE i # n + 1
      BY <3>1, <3>2, <3>4, <2>1 DEF Upto
    <3> QED
      BY <3>3, <3>4
  <2>6. Upto(n + 1, g)
    BY <2>3, <2>4, <2>5 DEF Upto
  <2> QED
    BY <2>6
<1>3. T \in SUBSET Nat
  OBVIOUS
<1> HIDE DEF T
<1>4. T = Nat
  BY <1>1, <1>2, <1>3, NatInd
<1> QED
  BY <1>4 DEF T

\* ... and two of them agree ...
LEMMA UptoUnique ==
  ASSUME NEW m \in Nat, NEW n \in Nat, NEW f, NEW g, Upto(m, f), Upto(n, g)
  PROVE  \A i \in Nat : i <= m /\ i <= n => f[i] = g[i]
<1> DEFINE T == {i \in Nat : i <= m /\ i <= n => f[i] = g[i]}
<1>1. 0 \in T
  BY DEF Upto
<1>2. ASSUME NEW i \in T PROVE i + 1 \in T
  <2> SUFFICES ASSUME i + 1 <= m, i + 1 <= n PROVE f[i + 1] = g[i + 1]
    OBVIOUS
  <2>1. f[i] = g[i]
    OBVIOUS
  <2>2. i + 1 \in 1 .. m /\ i + 1 \in 1 .. n /\ i + 1 - 1 = i
    OBVIOUS
  <2> QED
    BY <2>1, <2>2 DEF Upto
<1>3. T \in SUBSET Nat
  OBVIOUS
<1> HIDE DEF T
<1>4. T = Nat
  BY <1>1, <1>2, <1>3, NatInd
<1> QED
  BY <1>4 DEF T

\* ... so that the recursive definition defines a function.
LEMMA Pow2Fcn == Pow2 = [n \in Nat |-> IF n = 0 THEN 1 ELSE 2 * Pow2[n - 1]]
<1> DEFINE F(n) == CHOOSE f : Upto(n, f)
           P == [n \in Nat |-> F(n)[n]]
<1>1. ASSUME NEW n \in Nat PROVE Upto(n, F(n))
  BY UptoExists
<1>2. ASSUME NEW n \in Nat, n # 0 PROVE F(n)[n] = 2 * F(n - 1)[n - 1]
  <2>1. n - 1 \in Nat /\ n \in 1 .. n
    BY <1>2
  <2>2. F(n)[n] = 2 * F(n)[n - 1]
    BY <1>1, <2>1 DEF Upto
  <2>3. F(n)[n - 1] = F(n - 1)[n - 1]
    BY <1>1, <2>1, UptoUnique
  <2> QED
    BY <2>2, <2>3
<1>3. F(0)[0] = 1
  BY <1>1 DEF Upto
<1> HIDE DEF F
<1>4. P = [n \in Nat |-> IF n = 0 THEN 1 ELSE 2 * P[n - 1]]
  BY <1>2, <1>3
<1> HIDE DEF P
<1> QED
  BY <1>4 DEF Pow2

\* What is needed of it.
LEMMA Pow2Facts ==
  /\ Pow2[0] = 1
  /\ \A n \in Nat : Pow2[n] \in Nat \ {0} /\ Pow2[n + 1] = 2 * Pow2[n]
<1>1. Pow2[0] = 1
  BY Pow2Fcn
<1>2. ASSUME NEW n \in Nat PROVE Pow2[n + 1] = 2 * Pow2[n]
  <2>1. n + 1 \in Nat /\ n + 1 # 0 /\ n + 1 - 1 = n
    OBVIOUS
  <2> QED
    BY <2>1, Pow2Fcn
<1> DEFINE T == {n \in Nat : Pow2[n] \in Nat \ {0}}
<1>3. 0 \in T
  BY <1>1
<1>4. \A n \in T : n + 1 \in T
  BY <1>2
<1>5. T \in SUBSET Nat
  OBVIOUS
<1> HIDE DEF T
<1>6. T = Nat
  BY <1>3, <1>4, <1>5, NatInd
<1> QED
  BY <1>1, <1>2, <1>6 DEF T
-----------------------------------------------------------------------------
(* get_class *)

\* Larger exponents, larger powers.
LEMMA Pow2Grows == \A i, j \in Nat : i <= j => Pow2[i] <= Pow2[j]
<1> SUFFICES ASSUME NEW i \in Nat
             PROVE  \A j \in Nat : i <= j => Pow2[i] <= Pow2[j]
  OBVIOUS
<1> DEFINE T == {j \in Nat : i <= j => Pow2[i] <= Pow2[j]}
<1>1. 0 \in T
  <2>1. i <= 0 => i = 0
    OBVIOUS
  <2>2. Pow2[0] <= Pow2[0]
    BY Pow2Facts
  <2> QED
    BY <2>1, <2>2
<1>2. ASSUME NEW j \in T PROVE j + 1 \in T
  <2>1. j \in Nat /\ Pow2[i] \in Nat /\ Pow2[j] \in Nat /\ Pow2[j + 1] = 2 * Pow2[j]
    BY Pow2Facts
  <2>2. CASE i <= j
    BY <2>1, <2>2
  <2>3. CASE i = j + 1
    BY <2>1, <2>3
  <2> QED
    BY <2>1, <2>2, <2>3
<1>3. T \in SUBSET Nat
  OBVIOUS
<1> HIDE DEF T
<1>4. T = Nat
  BY <1>1, <1>2, <1>3, NatInd
<1> QED
  BY <1>4 DEF T

\* A number is less than its power.
LEMMA BelowPow2 == \A i \in Nat : i < Pow2[i]
<1> DEFINE T == {i \in Nat : i < Pow2[i]}
<1>1. 0 \in T
  BY Pow2Facts
<1>2. ASSUME NEW i \in T PROVE i + 1 \in T
  <2>1. i \in Nat /\ Pow2[i] \in Nat /\ Pow2[i + 1] = 2 * Pow2[i] /\ i < Pow2[i]
    BY Pow2Facts
  <2> QED
    BY <2>1
<1>3. T \in SUBSET Nat
  OBVIOUS
<1> HIDE DEF T
<1>4. T = Nat
  BY <1>1, <1>2, <1>3, NatInd
<1> QED
  BY <1>4 DEF T

\* A class is a power of two times the smallest.
LEMMA ClassIsPower == \A c \in Classes : class_max_size[c] = class_max_size[0] * Pow2[c]
<1> DEFINE T == {c \in Nat : c \in Classes => class_max_size[c] = class_max_size[0] * Pow2[c]}
<1>1. 0 \in T
  BY Sizes, Pow2Facts DEF Classes
<1>2. ASSUME NEW c \in T PROVE c + 1 \in T
  <2> SUFFICES ASSUME c + 1 \in Classes
               PROVE  class_max_size[c + 1] = class_max_size[0] * Pow2[c + 1]
    OBVIOUS
  <2>1. c \in Nat /\ c + 1 # 0 /\ c + 1 - 1 = c /\ c \in Classes /\ 0 \in Classes
    BY Sizes DEF Classes
  <2>2. class_max_size[c] = class_max_size[0] * Pow2[c]
    BY <2>1
  <2>3. class_max_size[c + 1] = 2 * class_max_size[c]
    BY <2>1, Sizes
  <2>4. Pow2[c + 1] = 2 * Pow2[c] /\ Pow2[c] \in Nat /\ class_max_size[0] \in Nat
    BY <2>1, Sizes, Pow2Facts
  <2> QED
    BY <2>2, <2>3, <2>4
<1>3. T \in SUBSET Nat
  OBVIOUS
<1> HIDE DEF T
<1>4. T = Nat
  BY <1>1, <1>2, <1>3, NatInd
<1>5. \A c \in Classes : c \in Nat
  BY Sizes DEF Classes
<1> QED
  BY <1>4, <1>5 DEF T

\* The position of the highest bit, found by the powers around it.
LEMMA MsbIs ==
  ASSUME NEW x \in Nat, NEW g \in Nat \ {0}, Pow2[g - 1] <= x, x < Pow2[g]
  PROVE  MsbIndex(x) = g
<1> DEFINE Good(i) == Pow2[i] <= 2 * x /\ 2 * x < Pow2[i + 1]
<1>1. /\ g - 1 \in Nat /\ Pow2[g] = 2 * Pow2[g - 1] /\ Pow2[g + 1] = 2 * Pow2[g]
      /\ Pow2[g - 1] \in Nat /\ Pow2[g] \in Nat
  <2>1. g - 1 \in Nat /\ g - 1 + 1 = g
    OBVIOUS
  <2> QED
    BY <2>1, Pow2Facts
<1>2. g \in 1 .. x + 1
  <2>1. g - 1 < Pow2[g - 1]
    BY <1>1, BelowPow2
  <2> QED
    BY <2>1, <1>1
<1>3. Good(g)
  BY <1>1
<1>4. ASSUME NEW i \in 1 .. x + 1, Good(i) PROVE i = g
  <2>1. i \in Nat /\ Pow2[i] \in Nat /\ Pow2[i + 1] \in Nat
    BY Pow2Facts
  <2>2. ~(i < g)
    <3> SUFFICES ASSUME i < g PROVE FALSE
      OBVIOUS
    <3>1. i + 1 \in Nat /\ i + 1 <= g
      BY <2>1
    <3>2. Pow2[i + 1] <= Pow2[g]
      BY <3>1, Pow2Grows
    <3> QED
      BY <3>2, <1>1, <1>4, <2>1
  <2>3. ~(g < i)
    <3> SUFFICES ASSUME g < i PROVE FALSE
      OBVIOUS
    <3>1. g + 1 \in Nat /\ g + 1 <= i
      BY <2>1
    <3>2. Pow2[g + 1] <= Pow2[i]
      BY <3>1, <2>1, Pow2Grows
    <3> QED
      BY <3>2, <1>1, <1>4, <2>1
  <2> QED
    BY <2>1, <2>2, <2>3
<1>5. MsbIndex(x) = CHOOSE i \in 1 .. x + 1 : Good(i)
  BY DEF MsbIndex
<1> HIDE DEF Good
<1> QED
  BY <1>2, <1>3, <1>4, <1>5

\* Among the classes there is a first that is large enough ...
LEMMA FirstLargeEnough ==
  ASSUME NEW size \in class_max_size[0] + 1 .. k_max_class_size
  PROVE  \E g \in Classes \ {0} :
           size <= class_max_size[g] /\ \A d \in Classes : d < g => class_max_size[d] < size
<1> DEFINE T == {c \in Classes : size <= class_max_size[c]}
<1>1. k_num_classes - 1 \in T
  BY Sizes DEF Classes, k_max_class_size
<1>2. T \in SUBSET Nat /\ T # {}
  BY <1>1, Sizes DEF Classes
<1>3. PICK g \in T : \A y \in T : g <= y
  <2> HIDE DEF T
  <2> QED
    BY <1>2, NatMin
<1>4. g # 0
  BY Sizes DEF Classes
<1>5. ASSUME NEW d \in Classes, d < g PROVE class_max_size[d] < size
  <2>1. class_max_size[d] \in Nat /\ d \in Nat /\ g \in Nat /\ size \in Nat
    BY <1>2, Sizes DEF Classes
  <2>2. d \notin T
    BY <2>1, <1>3, <1>5
  <2> QED
    BY <2>1, <2>2
<1> QED
  BY <1>3, <1>4, <1>5

\* ... and there is only one.
IsFirst(size, g) ==
  /\ g \in Classes /\ size <= class_max_size[g]
  /\ \A d \in Classes : d < g => class_max_size[d] < size

\* No two classes are both the first that is large enough.
LEMMA OneFirst ==
  ASSUME NEW size \in Nat, NEW g, NEW h, IsFirst(size, g), IsFirst(size, h)
  PROVE  g = h
<1>1. g \in Classes /\ h \in Classes /\ g \in Nat /\ h \in Nat
  BY Sizes DEF IsFirst, Classes
<1>2. class_max_size[g] \in Nat /\ class_max_size[h] \in Nat
  BY <1>1, Sizes
<1>3. ~(g < h) /\ ~(h < g)
  BY <1>1, <1>2 DEF IsFirst
<1> QED
  BY <1>1, <1>3

\* get_class finds by arithmetic what its reference finds by looking at one class
\* after the other: the first that is large enough.
THEOREM GetClassCorrect ==
  ASSUME NEW size \in class_max_size[0] + 1 .. k_max_class_size
  PROVE  /\ get_class(size) = get_class_slow(size)
         /\ IsFirst(size, get_class(size))
<1>1. PICK g \in Classes \ {0} : IsFirst(size, g)
  BY FirstLargeEnough DEF IsFirst
<1> DEFINE s == class_max_size[0]
           p == Pow2[g - 1]
           x == (size - 1) \div s
<1>2. 0 \in Classes /\ g \in Nat \ {0} /\ g - 1 \in Nat /\ g - 1 \in Classes
  BY Sizes DEF Classes
<1>3. s \in Nat \ {0} /\ size \in Nat \ {0} /\ size > s
  BY <1>2, Sizes
<1>4. p \in Nat \ {0} /\ Pow2[g] = 2 * p
  <2>1. g - 1 + 1 = g
    BY <1>2
  <2> QED
    BY <1>2, <2>1, Pow2Facts
<1>5. class_max_size[g - 1] = s * p /\ class_max_size[g] = s * (2 * p)
  BY <1>2, <1>4, ClassIsPower
<1>6. class_max_size[g - 1] < size /\ size <= class_max_size[g]
  BY <1>1, <1>2 DEF IsFirst
<1>7. s * p <= size - 1 /\ size - 1 < s * (2 * p) /\ size - 1 \in Nat
  <2>1. s * p \in Nat /\ s * (2 * p) \in Nat
    BY <1>3, <1>4
  <2> QED
    BY <1>3, <1>5, <1>6, <2>1
<1> HIDE DEF s, p
<1>8. x \in Nat /\ x * s <= size - 1 /\ size - 1 < x * s + s
  BY <1>3, <1>7
<1> HIDE DEF x
<1>9. p <= x
  <2> SUFFICES ASSUME x < p PROVE FALSE
    BY <1>4, <1>8
  <2>1. x * s + s <= p * s
    BY <1>3, <1>4, <1>8, Multiples
  <2>2. p * s = s * p /\ p * s \in Nat /\ x * s \in Nat
    BY <1>3, <1>4, <1>8
  <2> QED
    BY <2>1, <2>2, <1>3, <1>7, <1>8
<1>10. x < 2 * p
  <2> DEFINE q == 2 * p
  <2> SUFFICES ASSUME q <= x PROVE FALSE
    BY <1>4, <1>8
  <2>1. q \in Nat /\ s * q = q * s
    BY <1>3, <1>4
  <2>2. size - 1 < q * s
    BY <2>1, <1>7
  <2> HIDE DEF q
  <2>3. q * s <= x * s
    <3>1. q = x \/ q * s + s <= x * s
      BY <2>1, <1>3, <1>8, Multiples
    <3>2. q * s \in Nat /\ x * s \in Nat
      BY <2>1, <1>3, <1>8
    <3> QED
      BY <3>1, <3>2, <1>3
  <2>4. q * s \in Nat /\ x * s \in Nat
    BY <2>1, <1>3, <1>8
  <2> QED
    BY <2>2, <2>3, <2>4, <1>7, <1>8
<1>11. MsbIndex(x) = g
  BY <1>2, <1>4, <1>8, <1>9, <1>10, MsbIs DEF p
<1>12. get_class(size) = g
  BY <1>11 DEF get_class, x, s
<1>13. get_class_slow(size) = g
  <2>1. get_class_slow(size) = CHOOSE c \in Classes : IsFirst(size, c)
    BY DEF get_class_slow, IsFirst
  <2>2. \A c \in Classes : IsFirst(size, c) => c = g
    BY <1>1, <1>3, OneFirst
  <2> QED
    BY <2>1, <2>2, <1>1
<1> QED
  BY <1>1, <1>12, <1>13

\* The assertion that a class is found (huge_alloc.cc:153) holds for both sizes
\* asked for.
THEOREM ClassFound == {get_class(RingExtentSize), get_class(kMbufSize)} \subseteq Classes
<1>1. {RingExtentSize, kMbufSize} \subseteq class_max_size[0] + 1 .. k_max_class_size
  BY AllocAssumption
<1> QED
  BY <1>1, GetClassCorrect DEF IsFirst

-----------------------------------------------------------------------------
(* The invariant *)

\* Every block has bytes.
LEMMA BlockBounds ==
  ASSUME NEW b \in Block
  PROVE  First(b) \in Nat /\ Behind(b) \in Nat /\ First(b) < Behind(b)
BY Sizes DEF Block, First, Behind

\* The invariant holds when the region has been cut into blocks of the largest class.
LEMMA InitIInv == Init => IInv
<1> SUFFICES ASSUME Init PROVE IInv
  OBVIOUS
<1> DEFINE Cut(i) == [addr |-> i * k_max_class_size, class |-> k_num_classes - 1]
<1>1. freelist_ = {Cut(i) : i \in 0 .. RegionBlocks - 1} /\ user = {} /\ dropped = {}
  BY DEF Init
<1>2. \A i \in 0 .. RegionBlocks - 1 :
        /\ i * k_max_class_size \in Nat
        /\ i * k_max_class_size + k_max_class_size <= RegionSize
  BY Sizes, Multiples DEF RegionSize
<1>3. k_num_classes - 1 \in Classes
  BY Sizes DEF Classes
<1>4. \A i \in 0 .. RegionBlocks - 1 : Cut(i) \in Block /\ Behind(Cut(i)) <= RegionSize
  <2> SUFFICES ASSUME NEW i \in 0 .. RegionBlocks - 1
               PROVE  Cut(i) \in Block /\ Behind(Cut(i)) <= RegionSize
    OBVIOUS
  <2> DEFINE a == i * k_max_class_size
  <2>1. a \in Nat /\ a + k_max_class_size <= RegionSize
    BY <1>2
  <2> HIDE DEF a
  <2>2. a \in 0 .. RegionSize - 1
    BY <2>1, Sizes
  <2>3. Cut(i) = [addr |-> a, class |-> k_num_classes - 1]
    BY DEF a
  <2>4. Behind(Cut(i)) = a + k_max_class_size
    BY <2>3 DEF Behind, k_max_class_size
  <2> QED
    BY <2>1, <2>2, <2>3, <2>4, <1>3 DEF Block
<1>5. \A i, j \in 0 .. RegionBlocks - 1 : i < j => Behind(Cut(i)) <= First(Cut(j))
  BY Sizes, Multiples DEF Behind, First, k_max_class_size
<1>6. \A i, j \in 0 .. RegionBlocks - 1 : i # j => Apart(Cut(i), Cut(j))
  <2> SUFFICES ASSUME NEW i \in 0 .. RegionBlocks - 1, NEW j \in 0 .. RegionBlocks - 1,
                      i # j
               PROVE  Apart(Cut(i), Cut(j))
    OBVIOUS
  <2>1. i < j \/ j < i
    BY Sizes
  <2> QED
    BY <2>1, <1>5 DEF Apart
<1>7. TypeOK
  BY <1>1, <1>4 DEF Init, TypeOK
<1>8. CallOK /\ SplitAssertions
  BY DEF Init, CallOK, SplitAssertions
<1>9. InRegion
  BY <1>1, <1>4 DEF InRegion, AllBlocks
<1>10. BlocksApart
  BY <1>1, <1>6 DEF BlocksApart
<1> QED
  BY <1>7, <1>8, <1>9, <1>10 DEF IInv

\* A call in progress touches no block until it splits or takes one.
LEMMA BlocksKept ==
  ASSUME IInv, UNCHANGED <<freelist_, user>>
  PROVE  InRegion' /\ BlocksApart'
BY DEF IInv, InRegion, AllBlocks, BlocksApart, Behind, First, Apart

\* Moving a block between freelist_ and user keeps the blocks apart.
LEMMA BlockMoved ==
  ASSUME IInv, AllBlocks' = AllBlocks, (freelist_ \intersect user)' = {}
  PROVE  InRegion' /\ BlocksApart'
BY DEF IInv, InRegion, AllBlocks, BlocksApart, Behind, First, Apart

\* The halves of a block cover its bytes and no others.
LEMMA HalvesOfBlock ==
  ASSUME NEW b \in Block, b.class # 0, Behind(b) <= RegionSize
  PROVE  /\ Halves(b) \subseteq Block
         /\ \A h \in Halves(b) :
              First(b) <= First(h) /\ Behind(h) <= Behind(b) /\ h.class = b.class - 1
         /\ \A g, h \in Halves(b) : g # h => Apart(g, h)
<1> DEFINE c == b.class
           s == class_max_size[c - 1]
           lo == [addr |-> b.addr, class |-> c - 1]
           hi == [addr |-> b.addr + s, class |-> c - 1]
<1>1. c - 1 \in Classes /\ s \in Nat \ {0} /\ class_max_size[c] = 2 * s
  BY Sizes DEF Block
<1>2. b.addr \in Nat /\ b.addr + 2 * s <= RegionSize /\ Behind(b) = b.addr + 2 * s
  BY <1>1 DEF Block, Behind
<1>3. lo \in Block /\ hi \in Block
  BY <1>1, <1>2, Sizes DEF Block
<1>4. /\ First(lo) = b.addr /\ Behind(lo) = b.addr + s
      /\ First(hi) = b.addr + s /\ Behind(hi) = b.addr + 2 * s
  BY <1>1, <1>2 DEF First, Behind
<1>5. Halves(b) = {lo, hi} /\ First(b) = b.addr
  BY DEF Halves, First
<1>6. lo.class = c - 1 /\ hi.class = c - 1
  OBVIOUS
<1> HIDE DEF c, s, lo, hi
<1>7. Apart(lo, hi) /\ Apart(hi, lo)
  BY <1>1, <1>2, <1>4 DEF Apart
<1>8. \A h \in {lo, hi} :
        First(b) <= First(h) /\ Behind(h) <= Behind(b) /\ h.class = c - 1
  BY <1>1, <1>2, <1>4, <1>5, <1>6
<1> QED
  BY <1>3, <1>5, <1>7, <1>8 DEF c

\* The halves of a split block are blocks, and apart from each other and all others.
LEMMA SplitKeepsBlocks ==
  ASSUME IInv, Split
  PROVE  TypeOK' /\ InRegion' /\ BlocksApart'
<1>1. PICK b \in FreeOf(next_class) : freelist_' = (freelist_ \ {b}) \union Halves(b)
  BY DEF Split
<1>2. /\ b \in freelist_ /\ b \in Block /\ b.class = next_class
      /\ size_class \in Classes /\ next_class \in Classes
      /\ size_class <= next_class /\ next_class # size_class
  BY <1>1 DEF IInv, TypeOK, FreeOf, CallOK, SplitAssertions, Split
<1>3. b.class # 0 /\ next_class - 1 \in Classes
  BY <1>2, Sizes DEF Classes
<1>4. Behind(b) <= RegionSize
  BY <1>2 DEF IInv, InRegion, AllBlocks
<1>5. user' = user /\ dropped' = dropped
  BY DEF Split
<1>6. TypeOK'
  BY <1>1, <1>2, <1>3, <1>4, <1>5, HalvesOfBlock DEF IInv, TypeOK, Split
<1>7. InRegion'
  <2> SUFFICES ASSUME NEW d \in AllBlocks' PROVE Behind(d) <= RegionSize
    BY DEF InRegion, Behind
  <2>1. CASE d \in AllBlocks
    BY <2>1 DEF IInv, InRegion
  <2>2. CASE d \in Halves(b)
    <3>1. d \in Block /\ Behind(d) <= Behind(b)
      BY <2>2, <1>2, <1>3, <1>4, HalvesOfBlock
    <3> QED
      BY <3>1, <1>2, <1>4, BlockBounds, Sizes
  <2> QED
    BY <2>1, <2>2, <1>1, <1>5 DEF AllBlocks
\* A block that is apart from b is apart from its halves.
<1>8. ASSUME NEW d \in AllBlocks, d # b, NEW h \in Halves(b)
      PROVE  d # h /\ Apart(d, h) /\ Apart(h, d)
  <2>1. d \in Block /\ Apart(d, b)
    BY <1>2, <1>8 DEF IInv, TypeOK, AllBlocks, BlocksApart
  <2>2. h \in Block /\ First(b) <= First(h) /\ Behind(h) <= Behind(b)
    BY <1>2, <1>3, <1>4, <1>8, HalvesOfBlock
  <2>3. /\ First(d) \in Nat /\ Behind(d) \in Nat /\ First(d) < Behind(d)
        /\ First(b) \in Nat /\ Behind(b) \in Nat /\ First(b) < Behind(b)
        /\ First(h) \in Nat /\ Behind(h) \in Nat /\ First(h) < Behind(h)
    BY <1>2, <2>1, <2>2, BlockBounds
  <2>4. Apart(d, h) /\ Apart(h, d)
    BY <2>1, <2>2, <2>3 DEF Apart
  <2>5. ~Apart(d, d)
    BY <2>3 DEF Apart
  <2> QED
    BY <2>4, <2>5
<1>9. BlocksApart'
  <2>1. freelist_' \intersect user' = {}
    <3>1. \A d \in user : d # b /\ d \in AllBlocks
      BY <1>2 DEF IInv, BlocksApart, AllBlocks
    <3> QED
      BY <3>1, <1>1, <1>5, <1>8 DEF IInv, BlocksApart
  <2>2. ASSUME NEW d \in AllBlocks', NEW e \in AllBlocks', d # e
        PROVE  Apart(d, e)
    <3>1. d \in (AllBlocks \ {b}) \union Halves(b) /\ e \in (AllBlocks \ {b}) \union Halves(b)
      BY <1>1, <1>2, <1>5, <2>2 DEF AllBlocks, IInv, BlocksApart
    <3>2. CASE d \in AllBlocks \ {b} /\ e \in AllBlocks \ {b}
      BY <2>2, <3>2 DEF IInv, BlocksApart, AllBlocks
    <3>3. CASE d \in AllBlocks \ {b} /\ e \in Halves(b)
      BY <3>3, <1>8
    <3>4. CASE d \in Halves(b) /\ e \in AllBlocks \ {b}
      BY <3>4, <1>8
    <3>5. CASE d \in Halves(b) /\ e \in Halves(b)
      BY <3>5, <2>2, <1>2, <1>3, <1>4, HalvesOfBlock
    <3> QED
      BY <3>1, <3>2, <3>3, <3>4, <3>5
  <2> QED
    BY <2>1, <2>2 DEF BlocksApart, AllBlocks, Apart, First, Behind
<1> QED
  BY <1>6, <1>7, <1>9

\* A split leaves something in the class below and empties none in between.
LEMMA SplitKeepsAssertions ==
  ASSUME IInv, Split
  PROVE  CallOK' /\ SplitAssertions'
<1>1. PICK b \in FreeOf(next_class) : freelist_' = (freelist_ \ {b}) \union Halves(b)
  BY DEF Split
<1>2. /\ b \in Block /\ b.class = next_class /\ pc = "split" /\ pc' = "split"
      /\ size_class \in Classes /\ next_class \in Classes /\ size_class' = size_class
      /\ size_class <= next_class /\ next_class # size_class
      /\ next_class' = next_class - 1 /\ missing' = missing
  BY <1>1 DEF IInv, TypeOK, FreeOf, CallOK, SplitAssertions, Split
<1>3. b.class # 0 /\ next_class - 1 \in Classes /\ size_class <= next_class - 1
  BY <1>2, Sizes DEF Classes
<1>4. CallOK'
  BY <1>2, <1>3 DEF CallOK, IInv
<1>5. Behind(b) <= RegionSize
  BY <1>1 DEF IInv, InRegion, AllBlocks, FreeOf
<1>6. \E d \in freelist_' : d.class = next_class - 1
  <2> DEFINE lo == [addr |-> b.addr, class |-> b.class - 1]
  <2>1. lo \in Halves(b) /\ lo.class = next_class - 1
    BY <1>2 DEF Halves
  <2> QED
    BY <2>1, <1>1
<1>7. \A c \in size_class .. next_class - 2, d \in freelist_' : d.class # c
  <2> SUFFICES ASSUME NEW c \in size_class .. next_class - 2, NEW d \in freelist_', d.class = c
               PROVE  FALSE
    OBVIOUS
  <2>1. c \in size_class .. next_class - 1 /\ c # next_class - 1
    BY <1>2 DEF Classes
  <2>2. d \notin Halves(b)
    BY <2>1, <1>2, <1>3, <1>5, HalvesOfBlock
  <2>3. d \in FreeOf(c)
    BY <1>1, <2>2 DEF FreeOf
  <2>4. FreeOf(c) = {}
    BY <1>2, <2>1 DEF IInv, SplitAssertions
  <2> QED
    BY <2>3, <2>4
<1>8. SplitAssertions'
  <2>1. next_class' < k_num_classes /\ next_class' - 1 = next_class - 2
    BY <1>2, <1>3, Sizes DEF Classes
  <2>2. {d \in freelist_' : d.class = next_class'} # {}
    BY <1>2, <1>6
  <2>3. \A c \in size_class' .. next_class' - 1 : {d \in freelist_' : d.class = c} = {}
    BY <1>2, <1>7, <2>1
  <2> QED
    BY <1>2, <1>3, <2>1, <2>2, <2>3 DEF SplitAssertions, FreeOf
<1> QED
  BY <1>4, <1>8

\* A search ends with the first class that has a block: those before it are empty.
LEMMA SearchFound ==
  ASSUME IInv, AllocSearch
  PROVE  CallOK' /\ SplitAssertions'
<1>1. PICK c \in Serving : EndsSearch(c) /\ next_class' = c
  BY DEF AllocSearch
<1>2. size_class \in Classes /\ missing >= 1
  BY DEF IInv, CallOK, AllocSearch
<1>3. /\ c \in Classes /\ size_class <= c /\ c < k_num_classes
      /\ FreeOf(c) # {}
  BY <1>2, Sizes DEF Serving, Classes
<1>4. \A d \in size_class .. c - 1 : FreeOf(d) = {}
  <2> SUFFICES ASSUME NEW d \in size_class .. c - 1, FreeOf(d) # {} PROVE FALSE
    OBVIOUS
  <2>1. d \in Serving
    BY <1>2, <1>3, Sizes DEF Serving, Classes
  <2> QED
    BY <1>1, <1>2, <1>3, <2>1 DEF EndsSearch, Classes
<1> QED
  BY <1>1, <1>2, <1>3, <1>4 DEF CallOK, SplitAssertions, FreeOf, AllocSearch

\* A block handed out moves from the freelist to the user.
LEMMA TakeKeeps ==
  ASSUME IInv, AllocFromClass
  PROVE  IInv'
<1>1. PICK b \in FreeOf(size_class) : freelist_' = freelist_ \ {b} /\ user' = user \union {b}
  BY DEF AllocFromClass
<1>2. b \in freelist_ /\ b \notin user /\ b \in Block
  BY <1>1 DEF IInv, TypeOK, FreeOf, BlocksApart
<1>3. size_class \in Classes /\ missing \in Nat /\ missing >= 1
  BY DEF IInv, CallOK, TypeOK, AllocFromClass
<1>4. class_max_size[size_class] \in Nat
  BY <1>3, Sizes
<1>5. TypeOK' /\ CallOK' /\ SplitAssertions'
  <2>1. pc' \in {"ready", "alloc"} /\ missing' \in Nat /\ next_class' = NoClass
    BY <1>3 DEF AllocFromClass
  <2>2. pc' = "alloc" => size_class' = size_class /\ missing' >= 1
    BY <1>3 DEF AllocFromClass
  <2>3. size_class' \in Classes \union {NoClass} /\ dropped' = dropped
    BY <1>3 DEF AllocFromClass
  <2>4. user_alloc_tot_' \in Int
    BY <1>4 DEF AllocFromClass, IInv, TypeOK
  <2>5. TypeOK'
    BY <1>1, <1>2, <2>1, <2>3, <2>4 DEF IInv, TypeOK
  <2>6. CallOK' /\ SplitAssertions'
    BY <1>3, <2>1, <2>2 DEF CallOK, SplitAssertions
  <2> QED
    BY <2>5, <2>6
<1>6. AllBlocks' = AllBlocks /\ (freelist_ \intersect user)' = {}
  BY <1>1, <1>2 DEF AllBlocks, IInv, BlocksApart
<1>7. InRegion' /\ BlocksApart'
  BY <1>6, BlockMoved
<1> QED
  BY <1>5, <1>7 DEF IInv

\* A freed block moves back.
LEMMA FreeKeeps ==
  ASSUME IInv, NEW b \in user, FreeBuf(b)
  PROVE  IInv'
<1>1. b \in Block /\ b \notin freelist_ /\ b \notin dropped
  BY DEF IInv, TypeOK, BlocksApart, FreeBuf, Mbufs
<1>2. class_max_size[b.class] \in Nat
  BY <1>1, Sizes DEF Block
<1>3. TypeOK'
  BY <1>1, <1>2 DEF IInv, TypeOK, FreeBuf, callVars
<1>4. CallOK' /\ SplitAssertions'
  BY DEF IInv, CallOK, SplitAssertions, FreeBuf, callVars
<1>5. AllBlocks' = AllBlocks /\ (freelist_ \intersect user)' = {}
  BY <1>1 DEF AllBlocks, IInv, BlocksApart, FreeBuf
<1>6. InRegion' /\ BlocksApart'
  BY <1>5, BlockMoved
<1> QED
  BY <1>3, <1>4, <1>6 DEF IInv

\* Every step keeps the invariant.
LEMMA StepIInv == IInv /\ [Next]_vars => IInv'
<1> SUFFICES ASSUME IInv, [Next]_vars PROVE IInv'
  OBVIOUS
<1>1. CASE InitRecvs
  <2>1. get_class(RingExtentSize) \in Classes
    BY ClassFound
  <2>2. TypeOK' /\ CallOK' /\ SplitAssertions'
    BY <1>1, <2>1 DEF IInv, InitRecvs, TypeOK, CallOK, SplitAssertions
  <2> QED
    BY <1>1, <2>2, BlocksKept DEF IInv, InitRecvs
<1>2. CASE \E n \in Bulk : AllocBulk(n)
  <2>1. PICK n \in Bulk : AllocBulk(n)
    BY <1>2
  <2>2. get_class(kMbufSize) \in Classes /\ n \in Nat \ {0}
    BY ClassFound, AllocAssumption
  <2>3. TypeOK' /\ CallOK' /\ SplitAssertions'
    BY <2>1, <2>2 DEF IInv, AllocBulk, TypeOK, CallOK, SplitAssertions
  <2> QED
    BY <2>1, <2>3, BlocksKept DEF IInv, AllocBulk
<1>3. CASE AllocSearch
  <2>1. CallOK' /\ SplitAssertions'
    BY <1>3, SearchFound
  <2>2. TypeOK'
    BY <1>3, <2>1 DEF IInv, AllocSearch, TypeOK, CallOK
  <2> QED
    BY <1>3, <2>1, <2>2, BlocksKept DEF IInv, AllocSearch
<1>4. CASE AllocNull
  <2>1. TypeOK' /\ CallOK' /\ SplitAssertions'
    BY <1>4 DEF IInv, AllocNull, TypeOK, CallOK, SplitAssertions
  <2> QED
    BY <1>4, <2>1, BlocksKept DEF IInv, AllocNull
<1>5. CASE Split
  BY <1>5, SplitKeepsBlocks, SplitKeepsAssertions DEF IInv
<1>6. CASE AllocFromClass
  BY <1>6, TakeKeeps
<1>7. CASE \E b \in user : FreeBuf(b)
  BY <1>7, FreeKeeps
<1>8. CASE \E b \in user : DeAlloc(b)
  <2>1. PICK b \in user : DeAlloc(b)
    BY <1>8
  <2>2. TypeOK' /\ CallOK' /\ SplitAssertions'
    BY <2>1 DEF IInv, DeAlloc, TypeOK, CallOK, SplitAssertions, FreeOf, callVars
  <2> QED
    BY <2>1, <2>2, BlocksKept DEF IInv, DeAlloc
<1>9. CASE UNCHANGED vars
  <2>1. TypeOK' /\ CallOK' /\ SplitAssertions'
    BY <1>9 DEF IInv, TypeOK, CallOK, SplitAssertions, FreeOf, vars, callVars
  <2> QED
    BY <1>9, <2>1, BlocksKept DEF IInv, vars
<1> QED
  BY <1>1, <1>2, <1>3, <1>4, <1>5, <1>6, <1>7, <1>8, <1>9 DEF Next

\* The invariant holds always.
LEMMA Invariance == Spec => []IInv
BY InitIInv, StepIInv, PTL DEF Spec

\* Variables and the call in progress have values of their types.
THEOREM TypeCorrect == Spec => []TypeOK
<1>1. IInv => TypeOK
  BY DEF IInv
<1> QED
  BY <1>1, Invariance, PTL

\* Blocks never overlap, free or not, for any sizes and calls (first part of
\* BlocksTile).
THEOREM NoOverlap == Spec => []BlocksApart
<1>1. IInv => BlocksApart
  BY DEF IInv
<1> QED
  BY <1>1, Invariance, PTL

\* The assertions inside alloc() and split() never fail.
THEOREM AssertionsHold == Spec => []SplitAssertions
<1>1. IInv => SplitAssertions
  BY DEF IInv
<1> QED
  BY <1>1, Invariance, PTL

\* A buffer handed out is apart from all that are still in use, so the allocator
\* implements BufferPool.
LEMMA StepPool == IInv /\ [Next]_vars => [Pool!Next]_user
<1> SUFFICES ASSUME IInv, [Next]_vars PROVE [Pool!Next]_user
  OBVIOUS
<1>1. CASE AllocFromClass
  <2>1. PICK b \in FreeOf(size_class) : user' = user \union {b}
    BY <1>1 DEF AllocFromClass
  <2>2. b \in freelist_ /\ b \in Block /\ b \notin user
    BY <2>1 DEF IInv, TypeOK, FreeOf, BlocksApart
  <2>3. \A c \in user : Pool!Apart(b, c)
    BY <2>2 DEF IInv, BlocksApart, Apart, Pool!Apart
  <2>4. Pool!Take(b)
    BY <2>1, <2>3 DEF Pool!Take
  <2> QED
    BY <2>2, <2>4 DEF Pool!Next
<1>2. CASE \E b \in user : FreeBuf(b)
  <2>1. PICK b \in user : FreeBuf(b)
    BY <1>2
  <2>2. Pool!Give(b) /\ b \in Block
    BY <2>1 DEF FreeBuf, Pool!Give, IInv, TypeOK
  <2> QED
    BY <2>2 DEF Pool!Next
<1>3. CASE UNCHANGED user
  BY <1>3
<1>4. InitRecvs \/ (\E n \in Bulk : AllocBulk(n)) \/ AllocSearch \/ AllocNull \/ Split
        \/ (\E b \in user : DeAlloc(b)) \/ UNCHANGED vars => UNCHANGED user
  BY DEF InitRecvs, AllocBulk, AllocSearch, AllocNull, Split, DeAlloc, vars
<1> QED
  BY <1>1, <1>2, <1>3, <1>4 DEF Next

\* The allocator implements BufferPool: what it hands out was not live and overlaps
\* nothing that is, what is freed was live.
THEOREM AllocImplementsPool == Spec => PoolSpec
<1>1. Init => Pool!Init
  BY DEF Init, Pool!Init
<1> QED
  BY <1>1, StepPool, Invariance, PTL DEF Spec, PoolSpec, Pool!Spec

-----------------------------------------------------------------------------
(* Blocks make up the region *)

Bytes(b) == First(b) .. Behind(b) - 1

\* What blocks cover, taken apart.
LEMMA CoveredOne == ASSUME NEW b PROVE Covered({b}) = Bytes(b)
BY DEF Covered, Bytes

\* What two sets of blocks cover together.
LEMMA CoveredUnion ==
  ASSUME NEW S, NEW T
  PROVE  Covered(S \union T) = Covered(S) \union Covered(T)
<1> DEFINE all == Covered(S \union T)
           parts == Covered(S) \union Covered(T)
<1>1. ASSUME NEW x \in all PROVE x \in parts
  <2>1. PICK b \in S \union T : x \in First(b) .. Behind(b) - 1
    BY <1>1 DEF Covered
  <2> QED
    BY <2>1 DEF Covered
<1>2. ASSUME NEW x \in parts PROVE x \in all
  <2>1. PICK b \in S \union T : x \in First(b) .. Behind(b) - 1
    BY <1>2 DEF Covered
  <2> QED
    BY <2>1 DEF Covered
<1> QED
  BY <1>1, <1>2

\* The bytes of a block.
LEMMA BytesFacts ==
  ASSUME NEW b \in Block
  PROVE  /\ IsFiniteSet(Bytes(b)) /\ Cardinality(Bytes(b)) = class_max_size[b.class]
         /\ class_max_size[b.class] \in Nat \ {0}
         /\ \A c \in Block : Apart(b, c) => Bytes(b) \intersect Bytes(c) = {}
<1>1. b.class \in Classes /\ class_max_size[b.class] \in Nat \ {0}
  BY Sizes DEF Block
<1>2. First(b) \in Nat /\ Behind(b) \in Nat /\ Behind(b) = First(b) + class_max_size[b.class]
  BY <1>1, BlockBounds DEF First, Behind
<1>3. First(b) \in Int /\ Behind(b) - 1 \in Int /\ ~(First(b) > Behind(b) - 1)
      /\ Behind(b) - 1 - First(b) + 1 = class_max_size[b.class]
  BY <1>1, <1>2
<1>4. IsFiniteSet(Bytes(b)) /\ Cardinality(Bytes(b)) = class_max_size[b.class]
  BY <1>3, FS_Interval DEF Bytes
<1>5. ASSUME NEW c \in Block, Apart(b, c) PROVE Bytes(b) \intersect Bytes(c) = {}
  <2>1. First(c) \in Nat /\ Behind(c) \in Nat
    BY BlockBounds
  <2> QED
    BY <2>1, <1>2, <1>5 DEF Bytes, Apart
<1> QED
  BY <1>1, <1>4, <1>5

\* A block besides others covers as many bytes more as it has.
LEMMA BlockMore ==
  ASSUME NEW S \in SUBSET Block, IsFiniteSet(Covered(S)), NEW b \in Block,
         \A c \in S : Apart(b, c)
  PROVE  /\ IsFiniteSet(Covered(S \union {b}))
         /\ Cardinality(Covered(S \union {b})) = Cardinality(Covered(S)) + class_max_size[b.class]
<1> DEFINE C == Covered(S)
           B == Bytes(b)
<1>1. Covered(S \union {b}) = C \union B
  <2>1. Covered(S \union {b}) = Covered(S) \union Covered({b})
    BY CoveredUnion
  <2>2. Covered({b}) = Bytes(b)
    BY CoveredOne
  <2> QED
    BY <2>1, <2>2
<1>2. IsFiniteSet(B) /\ Cardinality(B) = class_max_size[b.class] /\ Cardinality(B) \in Nat
  BY BytesFacts
<1>3. C \intersect B = {}
  <2> SUFFICES ASSUME NEW x \in C, x \in B PROVE FALSE
    OBVIOUS
  <2>1. PICK c \in S : x \in Bytes(c)
    BY DEF Covered, Bytes
  <2>2. Bytes(b) \intersect Bytes(c) = {}
    BY BytesFacts
  <2> QED
    BY <2>1, <2>2
<1>4. IsFiniteSet(C)
  OBVIOUS
<1> HIDE DEF C, B
<1>5. Cardinality(C) \in Nat /\ Cardinality({}) = 0
  BY <1>4, FS_CardinalityType, FS_EmptySet
<1>6. /\ IsFiniteSet(C \union B)
      /\ Cardinality(C \union B) = Cardinality(C) + Cardinality(B) - Cardinality(C \intersect B)
  BY <1>2, <1>4, FS_Union
<1>7. Cardinality(C \union B) = Cardinality(C) + Cardinality(B)
  <2>1. Cardinality(C \intersect B) = 0
    BY <1>3, <1>5
  <2> QED
    BY <2>1, <1>2, <1>5, <1>6
<1> QED
  BY <1>1, <1>2, <1>6, <1>7 DEF C

\* What is in the region is finite.
LEMMA CoveredInRegion ==
  ASSUME NEW S \in SUBSET Block, \A b \in S : Behind(b) <= RegionSize
  PROVE  Covered(S) \subseteq 0 .. RegionSize - 1 /\ IsFiniteSet(Covered(S))
<1>1. RegionSize \in Nat
  BY Sizes
<1>2. Covered(S) \subseteq 0 .. RegionSize - 1
  <2> SUFFICES ASSUME NEW x \in Covered(S) PROVE x \in 0 .. RegionSize - 1
    OBVIOUS
  <2>1. PICK b \in S : x \in First(b) .. Behind(b) - 1
    BY DEF Covered
  <2>2. First(b) \in Nat /\ Behind(b) \in Nat /\ Behind(b) <= RegionSize
    BY BlockBounds
  <2> QED
    BY <2>1, <2>2, <1>1
<1>3. IsFiniteSet(0 .. RegionSize - 1)
  BY <1>1, FS_Interval
<1> QED
  BY <1>2, <1>3, FS_Subset

\* The halves of a block cover it.
LEMMA HalvesCover ==
  ASSUME NEW b \in Block, b.class # 0
  PROVE  Covered(Halves(b)) = Bytes(b)
<1> DEFINE c == b.class
           s == class_max_size[c - 1]
           lo == [addr |-> b.addr, class |-> c - 1]
           hi == [addr |-> b.addr + s, class |-> c - 1]
<1>1. s \in Nat \ {0} /\ class_max_size[c] = 2 * s
  BY Sizes DEF Block
<1>2. b.addr \in Nat /\ First(b) = b.addr /\ Behind(b) = b.addr + 2 * s
  BY <1>1 DEF Block, Behind, First
<1>3. /\ First(lo) = b.addr /\ Behind(lo) = b.addr + s
      /\ First(hi) = b.addr + s /\ Behind(hi) = b.addr + 2 * s
  BY <1>1, <1>2 DEF First, Behind
<1>4. Halves(b) = {lo} \union {hi}
  BY DEF Halves
<1> HIDE DEF s, lo, hi
<1>5. Covered(Halves(b)) = Bytes(lo) \union Bytes(hi)
  <2>1. Covered({lo} \union {hi}) = Covered({lo}) \union Covered({hi})
    BY CoveredUnion
  <2>2. Covered({lo}) = Bytes(lo)
    BY CoveredOne
  <2>3. Covered({hi}) = Bytes(hi)
    BY CoveredOne
  <2> QED
    BY <2>1, <2>2, <2>3, <1>4
<1>6. Bytes(lo) \union Bytes(hi) = Bytes(b)
  BY <1>1, <1>2, <1>3 DEF Bytes
<1> QED
  BY <1>5, <1>6

\* The invariant: the blocks make up the region, and user_alloc_tot_ counts what
\* is out.
Tiles == Covered(AllBlocks) = 0 .. RegionSize - 1
Total == user_alloc_tot_ = Cardinality(Covered(user))

\* Every byte of the region is in the multiple of the block size below it.
LEMMA Multiple ==
  ASSUME NEW x \in Nat, NEW k \in Nat \ {0}, NEW n \in Nat, x < n * k
  PROVE  /\ x \div k \in 0 .. n - 1
         /\ (x \div k) * k <= x /\ x < (x \div k) * k + k
<1> DEFINE q == x \div k
<1>1. q \in Nat /\ q * k <= x /\ x < q * k + k /\ q * k \in Nat
  OBVIOUS
<1> HIDE DEF q
<1>2. q < n
  <2> SUFFICES ASSUME n <= q PROVE FALSE
    BY <1>1
  <2>1. n = q \/ n * k + k <= q * k
    BY <1>1, Multiples
  <2>2. n * k \in Nat
    OBVIOUS
  <2> QED
    BY <2>1, <2>2, <1>1
<1> QED
  BY <1>1, <1>2 DEF q

\* The largest blocks cut one after the other make up the region.
LEMMA InitTiles == Init => Tiles /\ Total
<1> SUFFICES ASSUME Init PROVE Tiles /\ Total
  OBVIOUS
<1>1. /\ AllBlocks = freelist_ /\ user = {} /\ user_alloc_tot_ = 0
      /\ freelist_ = {[addr |-> i * k_max_class_size, class |-> k_num_classes - 1] :
                        i \in 0 .. RegionBlocks - 1}
  BY DEF Init, AllBlocks
<1>2. Total
  BY <1>1, FS_EmptySet DEF Total, Covered
<1>3. Covered(AllBlocks) \subseteq 0 .. RegionSize - 1
  BY InitIInv, <1>1, CoveredInRegion DEF IInv, TypeOK, InRegion
<1>4. ASSUME NEW x \in 0 .. RegionSize - 1 PROVE x \in Covered(AllBlocks)
  <2> DEFINE i == x \div k_max_class_size
             a == i * k_max_class_size
             b == [addr |-> a, class |-> k_num_classes - 1]
  <2>1. x \in Nat /\ x < RegionBlocks * k_max_class_size
    BY Sizes DEF RegionSize
  <2>2. i \in 0 .. RegionBlocks - 1 /\ a <= x /\ x < a + k_max_class_size
    BY <2>1, Sizes, Multiple
  <2>3. b \in AllBlocks
    BY <2>2, <1>1
  <2>4. First(b) = a /\ Behind(b) = a + k_max_class_size
    BY DEF First, Behind, k_max_class_size
  <2>5. a \in Nat
    BY <2>1, <2>2, Sizes
  <2> HIDE DEF a, b
  <2>6. x \in First(b) .. Behind(b) - 1
    BY <2>1, <2>2, <2>4, <2>5, Sizes
  <2> QED
    BY <2>3, <2>6 DEF Covered
<1> QED
  BY <1>2, <1>3, <1>4 DEF Tiles

\* A split keeps the bytes, taking and freeing a block count its size.
LEMMA StepTiles == IInv /\ IInv' /\ Tiles /\ Total /\ [Next]_vars => Tiles' /\ Total'
<1> SUFFICES ASSUME IInv, IInv', Tiles, Total, [Next]_vars PROVE Tiles' /\ Total'
  OBVIOUS
<1>1. CASE Split
  <2>1. PICK b \in FreeOf(next_class) : freelist_' = (freelist_ \ {b}) \union Halves(b)
    BY <1>1 DEF Split
  <2>2. /\ b \in freelist_ /\ b \in Block /\ b.class # 0
        /\ user' = user /\ user_alloc_tot_' = user_alloc_tot_
    <3>1. /\ b \in freelist_ /\ b \in Block /\ b.class = next_class
          /\ size_class \in Classes /\ next_class \in Classes
          /\ size_class <= next_class /\ next_class # size_class
      BY <2>1, <1>1 DEF IInv, TypeOK, FreeOf, CallOK, SplitAssertions, Split
    <3> QED
      BY <3>1, <1>1, Sizes DEF Classes, Split
  <2> DEFINE rest == (freelist_ \ {b}) \union user
  <2>3. AllBlocks' = rest \union Halves(b) /\ AllBlocks = rest \union {b}
    BY <2>1, <2>2 DEF AllBlocks
  <2> HIDE DEF rest
  <2>4. Covered(rest \union Halves(b)) = Covered(rest \union {b})
    <3>1. Covered(rest \union Halves(b)) = Covered(rest) \union Covered(Halves(b))
      BY CoveredUnion
    <3>2. Covered(rest \union {b}) = Covered(rest) \union Covered({b})
      BY CoveredUnion
    <3>3. Covered(Halves(b)) = Bytes(b)
      BY <2>2, HalvesCover
    <3>4. Covered({b}) = Bytes(b)
      BY CoveredOne
    <3> QED
      BY <3>1, <3>2, <3>3, <3>4
  <2>5. Tiles'
    BY <2>3, <2>4 DEF Tiles
  <2> QED
    BY <2>2, <2>5 DEF Total
<1>2. CASE AllocFromClass
  <2>1. PICK b \in FreeOf(size_class) : freelist_' = freelist_ \ {b} /\ user' = user \union {b}
    BY <1>2 DEF AllocFromClass
  <2>2. /\ b \in freelist_ /\ b \notin user /\ b \in Block /\ user \subseteq Block
        /\ user_alloc_tot_' = user_alloc_tot_ + class_max_size[b.class]
    BY <2>1, <1>2 DEF IInv, TypeOK, FreeOf, BlocksApart, AllocFromClass
  <2>3. \A c \in user : Apart(b, c)
    BY <2>2 DEF IInv, BlocksApart
  <2>4. IsFiniteSet(Covered(user))
    BY <2>2, CoveredInRegion DEF IInv, InRegion, AllBlocks
  <2>5. Cardinality(Covered(user \union {b})) = Cardinality(Covered(user)) + class_max_size[b.class]
    BY <2>2, <2>3, <2>4, BlockMore
  <2>6. Total'
    BY <2>1, <2>2, <2>5 DEF Total
  <2>7. AllBlocks' = AllBlocks
    BY <2>1, <2>2 DEF AllBlocks
  <2> QED
    BY <2>6, <2>7 DEF Tiles
<1>3. CASE \E b \in user : FreeBuf(b)
  <2>1. PICK b \in user : FreeBuf(b)
    BY <1>3
  <2>2. /\ freelist_' = freelist_ \union {b} /\ user' = user \ {b} /\ b \in Block
        /\ user \subseteq Block /\ user' \subseteq Block
        /\ user_alloc_tot_' = user_alloc_tot_ - class_max_size[b.class]
    BY <2>1 DEF IInv, TypeOK, FreeBuf
  <2> DEFINE rest == user \ {b}
  <2>3. \A c \in rest : Apart(b, c)
    BY <2>2 DEF IInv, BlocksApart
  <2>4. IsFiniteSet(Covered(rest)) /\ rest \in SUBSET Block
    BY <2>2, CoveredInRegion DEF IInv, InRegion, AllBlocks
  <2>5. rest \union {b} = user
    OBVIOUS
  <2> HIDE DEF rest
  <2>6. Cardinality(Covered(user)) = Cardinality(Covered(rest)) + class_max_size[b.class]
    BY <2>2, <2>3, <2>4, <2>5, BlockMore
  <2>7. Cardinality(Covered(rest)) \in Nat /\ class_max_size[b.class] \in Nat
    BY <2>2, <2>4, FS_CardinalityType, BytesFacts
  <2>8. Total'
    BY <2>2, <2>6, <2>7 DEF Total, rest
  <2>9. AllBlocks' = AllBlocks
    BY <2>2 DEF AllBlocks
  <2> QED
    BY <2>8, <2>9 DEF Tiles
<1>4. CASE InitRecvs \/ (\E n \in Bulk : AllocBulk(n)) \/ AllocSearch \/ AllocNull
             \/ (\E b \in user : DeAlloc(b)) \/ UNCHANGED vars
  <2>1. UNCHANGED <<freelist_, user, user_alloc_tot_>>
    BY <1>4 DEF InitRecvs, AllocBulk, AllocSearch, AllocNull, DeAlloc, vars
  <2> QED
    BY <2>1 DEF Tiles, Total, AllBlocks
<1> QED
  BY <1>1, <1>2, <1>3, <1>4 DEF Next

\* Splitting, handing out and freeing lose no byte of the region: the blocks make it
\* up, and user_alloc_tot_ is what is handed out of it.
THEOREM BlocksTileAlways == Spec => []BlocksTile
<1>1. IInv /\ Tiles /\ Total => BlocksTile
  BY DEF IInv, Tiles, Total, AllBlocks, BlocksTile
<1>2. Init => Tiles /\ Total
  BY InitTiles
<1> QED
  BY <1>1, <1>2, StepTiles, Invariance, PTL DEF Spec

-----------------------------------------------------------------------------
(* alloc() fails only when all is out *)

MbufClass == get_class(kMbufSize)
RingClass == get_class(RingExtentSize)
MbufBytes == class_max_size[MbufClass]
RingBytes == class_max_size[RingClass]

\* Nothing was taken yet, and the call for the receive ring finds a block.
BeforeRing ==
  /\ user = {} /\ user_alloc_tot_ = 0
  /\ \/ pc = "ring"
     \/ pc \in {"alloc", "split"} /\ size_class = RingClass /\ missing = 1
  /\ pc \in {"ring", "alloc"} => \E b \in freelist_ : b.class = k_num_classes - 1

\* The ring's block and mbufs are out, only mbufs are asked for.
AfterRing ==
  /\ pc # "ring"
  /\ pc \in {"alloc", "split"} => size_class = MbufClass
  /\ user_alloc_tot_ = RingBytes + (Cardinality(user) - 1) * MbufBytes

\* No block is smaller than an mbuf, and a failed call has seen all classes.
CountInv ==
  /\ IsFiniteSet(user)
  /\ \A b \in freelist_ : b.class >= MbufClass
  /\ BeforeRing \/ AfterRing
  /\ pc = "crashed" => freelist_ = {}

\* The classes of the two sizes.
LEMMA TwoClasses ==
  /\ MbufClass \in Classes /\ RingClass \in Classes /\ k_num_classes - 1 \in Classes
  /\ MbufClass \in Nat /\ RingClass \in Nat /\ k_num_classes \in Nat
  /\ MbufClass <= RingClass /\ RingClass <= k_num_classes - 1
  /\ MbufBytes \in Nat \ {0} /\ RingBytes \in Nat \ {0}
  /\ get_class_slow(kMbufSize) = MbufClass /\ get_class_slow(RingExtentSize) = RingClass
<1>1. /\ kMbufSize \in class_max_size[0] + 1 .. k_max_class_size
      /\ RingExtentSize \in class_max_size[0] + 1 .. k_max_class_size
      /\ kMbufSize <= RingExtentSize
  BY AllocAssumption
<1>2. IsFirst(kMbufSize, MbufClass) /\ IsFirst(RingExtentSize, RingClass)
  BY <1>1, GetClassCorrect DEF MbufClass, RingClass
<1>3. get_class_slow(kMbufSize) = MbufClass /\ get_class_slow(RingExtentSize) = RingClass
  BY <1>1, GetClassCorrect DEF MbufClass, RingClass
<1> HIDE DEF MbufClass, RingClass
<1>4. MbufClass \in Classes /\ RingClass \in Classes /\ k_num_classes - 1 \in Classes
  BY <1>2, Sizes DEF IsFirst, Classes
<1>5. /\ MbufClass \in Nat /\ RingClass \in Nat /\ k_num_classes \in Nat
      /\ RingClass <= k_num_classes - 1
  BY <1>4, Sizes DEF Classes
<1>6. MbufBytes \in Nat \ {0} /\ RingBytes \in Nat \ {0}
  BY <1>4, Sizes DEF MbufBytes, RingBytes
<1>7. MbufClass <= RingClass
  <2> SUFFICES ASSUME RingClass < MbufClass PROVE FALSE
    BY <1>5
  <2>1. RingBytes < kMbufSize /\ RingExtentSize <= RingBytes
    BY <1>2, <1>4 DEF IsFirst, RingBytes
  <2>2. kMbufSize \in Int /\ RingExtentSize \in Int
    BY <1>1, Sizes DEF Classes
  <2> QED
    BY <2>1, <2>2, <1>1, <1>6
<1> QED
  BY <1>3, <1>4, <1>5, <1>6, <1>7

\* Nothing is out before the receive ring asks.
LEMMA InitCount == Init => CountInv
<1> SUFFICES ASSUME Init PROVE CountInv
  OBVIOUS
<1>1. /\ user = {} /\ user_alloc_tot_ = 0 /\ pc = "ring"
      /\ freelist_ = {[addr |-> i * k_max_class_size, class |-> k_num_classes - 1] :
                        i \in 0 .. RegionBlocks - 1}
  BY DEF Init
<1>2. IsFiniteSet(user)
  BY <1>1, FS_EmptySet
<1>3. \A b \in freelist_ : b.class = k_num_classes - 1
  BY <1>1
<1>4. k_num_classes - 1 >= MbufClass
  BY TwoClasses
<1>5. \E b \in freelist_ : b.class = k_num_classes - 1
  <2> DEFINE Cut(i) == [addr |-> i * k_max_class_size, class |-> k_num_classes - 1]
  <2>1. 0 \in 0 .. RegionBlocks - 1
    BY Sizes
  <2>2. freelist_ = {Cut(i) : i \in 0 .. RegionBlocks - 1}
    BY <1>1
  <2>3. Cut(0).class = k_num_classes - 1
    OBVIOUS
  <2> HIDE DEF Cut
  <2>4. Cut(0) \in freelist_
    BY <2>1, <2>2
  <2> QED
    BY <2>3, <2>4
<1>6. BeforeRing
  BY <1>1, <1>5 DEF BeforeRing
<1> QED
  BY <1>1, <1>2, <1>3, <1>4, <1>6 DEF CountInv

\* A call begins.
LEMMA CallKeepsCount ==
  CountInv /\ (InitRecvs \/ \E n \in Bulk : AllocBulk(n)) => CountInv'
<1>1. ASSUME CountInv, InitRecvs PROVE CountInv'
  <2>1. /\ pc = "ring" /\ pc' = "alloc" /\ missing' = 1 /\ size_class' = RingClass
        /\ UNCHANGED <<freelist_, user, user_alloc_tot_>>
    BY <1>1 DEF InitRecvs, RingClass
  <2>2. BeforeRing
    BY <1>1, <2>1 DEF CountInv, AfterRing
  <2>3. BeforeRing'
    BY <2>1, <2>2 DEF BeforeRing, RingClass
  <2> QED
    BY <1>1, <2>1, <2>3 DEF CountInv, MbufClass
<1>2. ASSUME CountInv, NEW n \in Bulk, AllocBulk(n) PROVE CountInv'
  <2>1. /\ pc = "ready" /\ pc' = "alloc" /\ size_class' = MbufClass
        /\ UNCHANGED <<freelist_, user, user_alloc_tot_>>
    BY <1>2 DEF AllocBulk, MbufClass
  <2>2. AfterRing
    BY <1>2, <2>1 DEF CountInv, BeforeRing
  <2>3. AfterRing'
    BY <2>1, <2>2 DEF AfterRing, MbufClass, RingClass, MbufBytes, RingBytes
  <2> QED
    BY <1>2, <2>1, <2>3 DEF CountInv, MbufClass
<1> QED
  BY <1>1, <1>2

\* The search finds a class, or there is no block at all.
LEMMA SearchKeepsCount == IInv /\ CountInv /\ (AllocSearch \/ AllocNull) => CountInv'
<1>1. ASSUME CountInv, AllocSearch PROVE CountInv'
  <2>1. /\ pc = "alloc" /\ pc' = "split"
        /\ UNCHANGED <<freelist_, user, user_alloc_tot_, size_class, missing>>
    BY <1>1 DEF AllocSearch
  <2>2. BeforeRing => BeforeRing'
    BY <2>1 DEF BeforeRing, RingClass
  <2>3. AfterRing => AfterRing'
    BY <2>1 DEF AfterRing, MbufClass, RingClass, MbufBytes, RingBytes
  <2> QED
    BY <1>1, <2>1, <2>2, <2>3 DEF CountInv, MbufClass
<1>2. ASSUME IInv, CountInv, AllocNull PROVE CountInv'
  <2>1. /\ pc = "alloc" /\ pc' = "crashed" /\ Serving = {}
        /\ UNCHANGED <<freelist_, user, user_alloc_tot_, size_class, missing>>
    BY <1>2 DEF AllocNull
  <2>2. \A b \in freelist_ : b.class \in Nat /\ b.class <= k_num_classes - 1
    BY <1>2, TwoClasses DEF IInv, TypeOK, Block, Classes
  <2>3. \A b \in freelist_ : ~(b.class >= size_class)
    <3> SUFFICES ASSUME NEW b \in freelist_, b.class >= size_class PROVE FALSE
      OBVIOUS
    <3>1. size_class \in Nat
      BY <1>2, <2>1, TwoClasses DEF IInv, CallOK, Classes
    <3>2. b.class \in size_class .. k_num_classes - 1
      BY <3>1, <2>2, TwoClasses
    <3>3. FreeOf(b.class) # {}
      BY DEF FreeOf
    <3> QED
      BY <3>2, <3>3, <2>1 DEF Serving
  <2>4. AfterRing
    <3> SUFFICES ASSUME BeforeRing PROVE FALSE
      BY <1>2 DEF CountInv
    <3>1. size_class = RingClass /\ \E b \in freelist_ : b.class = k_num_classes - 1
      BY <2>1 DEF BeforeRing
    <3> QED
      BY <3>1, <2>3, TwoClasses
  <2>5. freelist_ = {}
    <3>1. size_class = MbufClass
      BY <2>1, <2>4 DEF AfterRing
    <3> QED
      BY <3>1, <2>3, <1>2 DEF CountInv
  <2>6. AfterRing'
    BY <2>1, <2>4 DEF AfterRing, MbufClass, RingClass, MbufBytes, RingBytes
  <2> QED
    BY <1>2, <2>1, <2>5, <2>6 DEF CountInv, MbufClass
<1> QED
  BY <1>1, <1>2

\* The halves of a block that is too large are not smaller than what is asked for.
LEMMA SplitKeepsCount == IInv /\ CountInv /\ Split => CountInv'
<1> SUFFICES ASSUME IInv, CountInv, Split PROVE CountInv'
  OBVIOUS
<1>1. /\ pc = "split" /\ pc' = "split"
      /\ UNCHANGED <<user, user_alloc_tot_, size_class, missing>>
  BY DEF Split
<1>2. PICK b \in FreeOf(next_class) : freelist_' = (freelist_ \ {b}) \union Halves(b)
  BY DEF Split
<1>3. /\ next_class \in Nat /\ size_class \in Nat
      /\ size_class <= next_class /\ size_class # next_class
  BY <1>1, TwoClasses DEF IInv, CallOK, Classes, SplitAssertions, Split
<1>4. size_class \in {MbufClass, RingClass}
  BY <1>1 DEF CountInv, BeforeRing, AfterRing
<1>5. \A h \in Halves(b) : h.class = next_class - 1
  BY <1>2 DEF Halves, FreeOf
<1>6. next_class - 1 >= MbufClass
  BY <1>3, <1>4, TwoClasses
<1>7. \A c \in freelist_' : c.class >= MbufClass
  BY <1>2, <1>5, <1>6 DEF CountInv
<1>8. BeforeRing => BeforeRing'
  BY <1>1 DEF BeforeRing, RingClass
<1>9. AfterRing => AfterRing'
  BY <1>1 DEF AfterRing, MbufClass, RingClass, MbufBytes, RingBytes
<1> QED
  BY <1>1, <1>7, <1>8, <1>9 DEF CountInv, MbufClass

\* A block handed out is the ring's, the first, or an mbuf.
LEMMA TakeKeepsCount == IInv /\ CountInv /\ AllocFromClass => CountInv'
<1> SUFFICES ASSUME IInv, CountInv, AllocFromClass PROVE CountInv'
  OBVIOUS
<1>1. /\ pc = "split" /\ missing' = missing - 1
      /\ user_alloc_tot_' = user_alloc_tot_ + class_max_size[size_class]
      /\ IF missing = 1 THEN pc' = "ready" /\ size_class' = NoClass
                        ELSE pc' = "alloc" /\ size_class' = size_class
  BY DEF AllocFromClass
<1>2. PICK b \in FreeOf(size_class) : freelist_' = freelist_ \ {b} /\ user' = user \union {b}
  BY DEF AllocFromClass
<1>3. b \in freelist_ /\ b \notin user
  BY <1>2 DEF FreeOf, IInv, BlocksApart
<1>4. /\ IsFiniteSet(user') /\ Cardinality(user') = Cardinality(user) + 1
      /\ Cardinality(user) \in Nat
  BY <1>2, <1>3, FS_AddElement, FS_CardinalityType DEF CountInv
<1>5. \A c \in freelist_' : c.class >= MbufClass
  BY <1>2 DEF CountInv
<1>6. AfterRing'
  <2>1. CASE BeforeRing
    <3>1. user = {} /\ user_alloc_tot_ = 0 /\ size_class = RingClass /\ missing = 1
      BY <2>1, <1>1 DEF BeforeRing
    <3>2. pc' = "ready" /\ user_alloc_tot_' = RingBytes
      BY <3>1, <1>1, TwoClasses DEF RingBytes
    <3>3. Cardinality(user) = 0
      BY <3>1, FS_EmptySet
    <3>4. Cardinality(user') - 1 = 0
      BY <3>3, <1>4
    <3>5. user_alloc_tot_' = RingBytes + (Cardinality(user') - 1) * MbufBytes
      BY <3>2, <3>4, TwoClasses
    <3> QED
      BY <3>2, <3>5 DEF AfterRing, MbufClass, RingClass, MbufBytes, RingBytes
  <2>2. CASE AfterRing
    <3>1. size_class = MbufClass
      BY <2>2, <1>1 DEF AfterRing
    <3>2. pc' # "ring" /\ (pc' \in {"alloc", "split"} => size_class' = MbufClass)
      BY <3>1, <1>1
    <3> DEFINE n == Cardinality(user)
    <3>3. user_alloc_tot_' = RingBytes + (n - 1) * MbufBytes + MbufBytes
      BY <3>1, <2>2, <1>1 DEF AfterRing, MbufBytes
    <3>4. Cardinality(user') = n + 1 /\ n \in Nat
      BY <1>4
    <3> HIDE DEF n
    <3>5. user_alloc_tot_' = RingBytes + (n + 1 - 1) * MbufBytes
      BY <3>3, <3>4, TwoClasses
    <3>6. user_alloc_tot_' = RingBytes + (Cardinality(user') - 1) * MbufBytes
      BY <3>4, <3>5
    <3> QED
      BY <3>2, <3>6 DEF AfterRing, MbufClass, RingClass, MbufBytes, RingBytes
  <2> QED
    BY <2>1, <2>2 DEF CountInv
<1>7. pc' # "crashed"
  BY <1>1
<1> QED
  BY <1>4, <1>5, <1>6, <1>7 DEF CountInv, MbufClass

\* Only mbufs are freed.
LEMMA FreeKeepsCount ==
  ASSUME IInv, CountInv, NEW b \in user, FreeBuf(b)
  PROVE  CountInv'
<1>1. /\ pc = "ready" /\ pc' = "ready" /\ b.class = MbufClass
      /\ user' = user \ {b} /\ freelist_' = freelist_ \union {b}
      /\ user_alloc_tot_' = user_alloc_tot_ - class_max_size[b.class]
  BY DEF FreeBuf, Mbufs, callVars, MbufClass
<1>2. /\ IsFiniteSet(user') /\ Cardinality(user') = Cardinality(user) - 1
      /\ Cardinality(user) \in Nat
  BY <1>1, FS_RemoveElement, FS_CardinalityType DEF CountInv
<1>3. \A c \in freelist_' : c.class >= MbufClass
  BY <1>1, TwoClasses DEF CountInv
<1>4. user_alloc_tot_ = RingBytes + (Cardinality(user) - 1) * MbufBytes
  BY <1>1 DEF CountInv, BeforeRing, AfterRing
<1> DEFINE n == Cardinality(user)
<1>5. user_alloc_tot_' = RingBytes + (n - 1) * MbufBytes - MbufBytes
  <2>1. class_max_size[b.class] = MbufBytes
    BY <1>1 DEF MbufBytes
  <2>2. user_alloc_tot_' = user_alloc_tot_ - MbufBytes
    BY <2>1, <1>1
  <2>3. n \in Nat /\ user_alloc_tot_ = RingBytes + (n - 1) * MbufBytes
    BY <1>2, <1>4
  <2> HIDE DEF n
  <2>4. (n - 1) * MbufBytes \in Int /\ RingBytes \in Int /\ MbufBytes \in Int
    BY <2>3, TwoClasses
  <2> QED
    BY <2>2, <2>3, <2>4
<1>6. Cardinality(user') = n - 1 /\ n \in Nat
  BY <1>2
<1> HIDE DEF n
<1>7. user_alloc_tot_' = RingBytes + (n - 1 - 1) * MbufBytes
  BY <1>5, <1>6, TwoClasses
<1>8. user_alloc_tot_' = RingBytes + (Cardinality(user') - 1) * MbufBytes
  BY <1>6, <1>7
<1>9. AfterRing'
  BY <1>1, <1>8 DEF AfterRing, MbufClass, RingClass, MbufBytes, RingBytes
<1> QED
  BY <1>1, <1>2, <1>3, <1>9 DEF CountInv, MbufClass

\* Every step keeps the count of what is out.
LEMMA StepCount == IInv /\ CountInv /\ [Next]_vars => CountInv'
<1> SUFFICES ASSUME IInv, CountInv, [Next]_vars PROVE CountInv'
  OBVIOUS
<1>1. CASE InitRecvs \/ \E n \in Bulk : AllocBulk(n)
  BY <1>1, CallKeepsCount
<1>2. CASE AllocSearch \/ AllocNull
  BY <1>2, SearchKeepsCount
<1>3. CASE Split
  BY <1>3, SplitKeepsCount
<1>4. CASE AllocFromClass
  BY <1>4, TakeKeepsCount
<1>5. CASE \E b \in user : FreeBuf(b)
  BY <1>5, FreeKeepsCount
<1>6. CASE (\E b \in user : DeAlloc(b)) \/ UNCHANGED vars
  <2>1. UNCHANGED <<freelist_, user, user_alloc_tot_, pc, size_class, missing>>
    BY <1>6 DEF DeAlloc, vars, callVars
  <2>2. BeforeRing => BeforeRing'
    BY <2>1 DEF BeforeRing, RingClass
  <2>3. AfterRing => AfterRing'
    BY <2>1 DEF AfterRing, MbufClass, RingClass, MbufBytes, RingBytes
  <2> QED
    BY <2>1, <2>2, <2>3 DEF CountInv, MbufClass
<1> QED
  BY <1>1, <1>2, <1>3, <1>4, <1>5, <1>6 DEF Next

\* Division undoes multiplication.
LEMMA DivOfProduct ==
  ASSUME NEW k \in Nat, NEW m \in Nat \ {0}
  PROVE  (k * m) \div m = k
<1> DEFINE q == (k * m) \div m
<1>1. k * m \in Nat
  OBVIOUS
<1>2. q \in Nat /\ q * m <= k * m /\ k * m < q * m + m
  BY <1>1
<1> HIDE DEF q
<1>3. ~(q < k)
  <2> SUFFICES ASSUME q < k PROVE FALSE
    OBVIOUS
  <2>1. q * m + m <= k * m
    BY <1>2, Multiples
  <2>2. q * m \in Nat
    BY <1>2
  <2> QED
    BY <2>1, <2>2, <1>1, <1>2
<1>4. ~(k < q)
  <2> SUFFICES ASSUME k < q PROVE FALSE
    OBVIOUS
  <2>1. k * m + m <= q * m
    BY <1>2, Multiples
  <2>2. q * m \in Nat
    BY <1>2
  <2> QED
    BY <2>1, <2>2, <1>1, <1>2
<1>5. q = k
  BY <1>2, <1>3, <1>4
<1> QED
  BY <1>5 DEF q

\* With no block free, all bytes are out.
LEMMA CrashedWhenFull == IInv /\ Tiles /\ Total /\ CountInv => FailsOnlyWhenFull
<1> SUFFICES ASSUME IInv, Tiles, Total, CountInv, pc = "crashed"
             PROVE  Cardinality(user) = MbufsThatFit + 1
  BY DEF FailsOnlyWhenFull
<1>1. freelist_ = {} /\ IsFiniteSet(user) /\ AfterRing
  BY DEF CountInv, BeforeRing
<1>2. Covered(user) = 0 .. RegionSize - 1
  BY <1>1 DEF Tiles, AllBlocks
<1>3. RegionSize \in Nat \ {0}
  BY Sizes
<1>4. user_alloc_tot_ = RegionSize
  <2>1. 0 \in Int /\ RegionSize - 1 \in Int /\ ~(0 > RegionSize - 1)
        /\ RegionSize - 1 - 0 + 1 = RegionSize
    BY <1>3
  <2>2. Cardinality(0 .. RegionSize - 1) = RegionSize
    BY <2>1, FS_Interval
  <2> QED
    BY <2>2, <1>2 DEF Total
<1>5. user # {}
  <2>1. 0 \in Covered(user)
    BY <1>2, <1>3
  <2> QED
    BY <2>1 DEF Covered
<1> DEFINE n == Cardinality(user) - 1
<1>6. n \in Nat /\ Cardinality(user) = n + 1
  <2>1. Cardinality(user) \in Nat /\ Cardinality(user) # 0
    BY <1>1, <1>5, FS_CardinalityType, FS_EmptySet
  <2> QED
    BY <2>1
<1>7. RegionSize = RingBytes + n * MbufBytes
  BY <1>1, <1>4 DEF AfterRing
<1> HIDE DEF n
<1>8. RegionSize - RingBytes = n * MbufBytes
  <2>1. n * MbufBytes \in Nat /\ RingBytes \in Nat
    BY <1>6, TwoClasses
  <2> QED
    BY <2>1, <1>7
<1>9. MbufsThatFit = (n * MbufBytes) \div MbufBytes
  BY <1>8, TwoClasses DEF MbufsThatFit, RingBytes, MbufBytes
<1>10. (n * MbufBytes) \div MbufBytes = n
  BY <1>6, TwoClasses, DivOfProduct
<1> QED
  BY <1>6, <1>9, <1>10

\* An allocation fails only when the receive ring and as many mbufs as fit beside
\* it are out: splitting without ever joining wastes nothing.
THEOREM FailsOnlyWhenFullAlways == Spec => []FailsOnlyWhenFull
<1>1. Init => Tiles /\ Total
  BY InitTiles
<1>2. Spec => [](Tiles /\ Total)
  BY <1>1, StepTiles, Invariance, PTL DEF Spec
<1>3. Spec => []CountInv
  BY InitCount, StepCount, Invariance, PTL DEF Spec
<1> QED
  BY <1>2, <1>3, CrashedWhenFull, Invariance, PTL

================================================================================
