------------------------- MODULE MasterRead_proofs -------------------------
(***************************************************************************)
(* Proofs about EbmlMaster::Read and SkipData, for every hierarchy of      *)
(* classes, every stream and every number of elements.                     *)
(***************************************************************************)
EXTENDS ElementSkip, Induction, SequenceTheorems, TLAPS

-----------------------------------------------------------------------------
(* A set of naturals has a least one.                                      *)
LEMMA MinOfNaturals ==
  ASSUME NEW S \in SUBSET Nat, S # {}
  PROVE  Min(S) \in S /\ \A n \in S : Min(S) <= n
BY LeastNatural DEF Min

(* The larger of two numbers.                                              *)
LEMMA MaxOfTwo ==
  ASSUME NEW a \in Int, NEW b \in Int
  PROVE  Max({a, b}) = IF a >= b THEN a ELSE b
<1>1. CASE a >= b
  BY <1>1 DEF Max
<1>2. CASE b > a
  BY <1>2 DEF Max
<1>. QED
  BY <1>1, <1>2

(* The smaller of two numbers.                                             *)
LEMMA MinOfTwo ==
  ASSUME NEW a \in Int, NEW b \in Int
  PROVE  Min({a, b}) = IF a <= b THEN a ELSE b
<1>1. CASE a <= b
  BY <1>1 DEF Min
<1>2. CASE b < a
  BY <1>2 DEF Min
<1>. QED
  BY <1>1, <1>2

-----------------------------------------------------------------------------
(* The list of an element of a heap, and what a heap is of which every     *)
(* element but the root has at most one owner.                             *)
Lst(h, e) == Range(h[e].ElementList)

AllListed(h) == UNION {Lst(h, e) : e \in DOMAIN h}

Owned(h) ==
  /\ \A e \in DOMAIN h : /\ Lst(h, e) \subseteq DOMAIN h \ {1}
                         /\ IsInjective(h[e].ElementList)
  /\ \A e, f \in DOMAIN h : e # f => Lst(h, e) \cap Lst(h, f) = {}

(* The list of an element is in the order of the stream, behind the head   *)
(* of the element, and inside it.                                          *)
EndOf(h, e) == h[e].ElementPosition + 1 + h[e].Size

IsOrdered(h, e) ==
  /\ \A c \in Lst(h, e) :
       /\ h[c].ElementPosition > h[e].ElementPosition
       /\ h[e].bSizeIsFinite /\ h[c].bSizeIsFinite => EndOf(h, c) <= EndOf(h, e)
  /\ \A i, j \in DOMAIN h[e].ElementList :
       i < j => h[h[e].ElementList[i]].ElementPosition
                  < h[h[e].ElementList[j]].ElementPosition

(* It is of the context of the element.                                    *)
IsOfContext(h, e) ==
  \A c \in Lst(h, e) : h[c].class \in Children[h[e].class] \cup Globals

(* What no step changes of an element.                                     *)
IsAlike(x, y) ==
  /\ x.class = y.class /\ x.bSizeIsFinite = y.bSizeIsFinite
  /\ x.ElementPosition = y.ElementPosition /\ x.Size = y.Size

(* The elements X, which no list has, were deleted from the heap h with    *)
(* what they listed, or a list lost elements which were deleted.           *)
Pruned(h, g, X) ==
  /\ DOMAIN g \subseteq DOMAIN h \ X
  /\ \A e \in DOMAIN g :
       /\ g[e] \in ElementRecord /\ IsAlike(h[e], g[e])
       /\ Lst(g, e) \subseteq Lst(h, e)
       /\ IsOrdered(h, e) => IsOrdered(g, e)
       /\ IsOfContext(h, e) => IsOfContext(g, e)
  /\ Owned(g)
  /\ \A e \in DOMAIN h \ X : e \notin AllListed(h) => e \in DOMAIN g
  /\ \A e \in DOMAIN g : e \in AllListed(h) => e \in AllListed(g)
  /\ AllListed(g) \subseteq AllListed(h)

(* A tree has its root, what its elements list, and nothing else.          *)
LEMMA SubtreeFacts ==
  ASSUME NEW h, NEW e
  PROVE  /\ Subtree(h, e) \subseteq DOMAIN h
         /\ e \in DOMAIN h => e \in Subtree(h, e)
         /\ \A x \in Subtree(h, e) : Lst(h, x) \cap DOMAIN h \subseteq Subtree(h, e)
         /\ \A x \in Subtree(h, e) : x # e => \E y \in Subtree(h, e) : x \in Lst(h, y)
<1>. DEFINE T == Subtree(h, e)
            Closed(S) == /\ {e} \cap DOMAIN h \subseteq S
                         /\ \A x \in S : Lst(h, x) \cap DOMAIN h \subseteq S
<1>1. T = {x \in DOMAIN h : \A S \in SUBSET DOMAIN h : Closed(S) => x \in S}
  BY DEF Subtree, Lst
<1>. HIDE DEF T
<1>2. ASSUME NEW x \in T
      PROVE  Lst(h, x) \cap DOMAIN h \subseteq T
  BY <1>1
<1>3. ASSUME NEW x \in T, x # e, \A y \in T : x \notin Lst(h, y)
      PROVE  FALSE
  <2>1. Closed(T \ {x})
    BY <1>1, <1>2, <1>3
  <2>2. T \ {x} \in SUBSET DOMAIN h
    BY <1>1
  <2>. QED
    BY <1>1, <2>1, <2>2
<1>. QED
  BY <1>1, <1>2, <1>3 DEF T

(* Deleting elements that are in no list, and what they list, leaves the   *)
(* rest as it was: none of it is listed by what is gone, nor lists it.     *)
LEMMA DeleteFacts ==
  ASSUME NEW h, NEW X, Owned(h), X \cap AllListed(h) = {}
  PROVE  LET g == Delete(h, X)
         IN  /\ DOMAIN g \subseteq DOMAIN h \ X
             /\ \A e \in DOMAIN g : g[e] = h[e]
             /\ \A e \in DOMAIN h \ X : e \notin AllListed(h) => e \in DOMAIN g
             /\ \A e \in DOMAIN g : e \in AllListed(h) => e \in AllListed(g)
             /\ AllListed(g) \subseteq AllListed(h)
             /\ Owned(g)
<1>. DEFINE gone == UNION {Subtree(h, x) : x \in X}
            g == Delete(h, X)
<1>1. DOMAIN g = DOMAIN h \ gone /\ \A e \in DOMAIN g : g[e] = h[e]
  BY DEF Delete, Restrict
<1>. HIDE DEF g
<1>2. X \cap DOMAIN h \subseteq gone
  BY SubtreeFacts
<1>3. \A e \in gone : e \in X \/ \E y \in gone : e \in Lst(h, y)
  BY SubtreeFacts
<1>4. gone \subseteq DOMAIN h
  BY SubtreeFacts
<1>5. \A y \in gone : Lst(h, y) \subseteq gone
  <2>1. SUFFICES ASSUME NEW x \in X, NEW y \in Subtree(h, x)
                 PROVE  Lst(h, y) \subseteq gone
    OBVIOUS
  <2>2. y \in DOMAIN h /\ Lst(h, y) \subseteq DOMAIN h
    BY SubtreeFacts DEF Owned
  <2>. QED
    BY <2>2, SubtreeFacts
<1>. HIDE DEF gone
<1>6. \A e \in DOMAIN g : Lst(h, e) \cap gone = {}
  <2>1. SUFFICES ASSUME NEW e \in DOMAIN g, NEW c \in Lst(h, e), c \in gone
                 PROVE  FALSE
    OBVIOUS
  <2>2. e \in DOMAIN h /\ e \notin gone /\ c \in AllListed(h)
    BY <1>1 DEF AllListed
  <2>3. PICK y \in gone : c \in Lst(h, y)
    BY <1>3, <2>1, <2>2
  <2>. QED
    BY <1>4, <2>2, <2>3 DEF Owned
<1>7. \A e \in DOMAIN g : Lst(g, e) = Lst(h, e)
  BY <1>1 DEF Lst
<1>8. \A e \in DOMAIN g : e \in AllListed(h) => e \in AllListed(g)
  <2>1. SUFFICES ASSUME NEW e \in DOMAIN g, NEW f \in DOMAIN h, e \in Lst(h, f)
                 PROVE  e \in AllListed(g)
    BY DEF AllListed
  <2>2. f \notin gone
    BY <1>1, <1>5, <2>1
  <2>. QED
    BY <1>1, <1>7, <2>1, <2>2 DEF AllListed
<1>9. \A e \in DOMAIN h \ X : e \notin AllListed(h) => e \in DOMAIN g
  BY <1>1, <1>3, <1>4 DEF AllListed
<1>10. Owned(g)
  BY <1>1, <1>6, <1>7 DEF Owned
<1>11. AllListed(g) \subseteq AllListed(h)
  BY <1>1, <1>7 DEF AllListed
<1>. QED
  BY <1>1, <1>2, <1>8, <1>9, <1>10, <1>11 DEF g

(* A list of which the elements were there before, or were in no list.     *)
LEMMA ListFacts ==
  ASSUME NEW h, NEW g, NEW m \in DOMAIN h, Owned(h),
         DOMAIN g = DOMAIN h, IsInjective(g[m].ElementList),
         \A e \in DOMAIN h \ {m} : g[e].ElementList = h[e].ElementList,
         Lst(g, m) \subseteq Lst(h, m) \cup (DOMAIN h \ (AllListed(h) \cup {1}))
  PROVE  /\ Owned(g)
         /\ AllListed(g) = (AllListed(h) \ Lst(h, m)) \cup Lst(g, m)
<1>1. \A e \in DOMAIN h \ {m} : Lst(g, e) = Lst(h, e)
  BY DEF Lst
<1>2. \A e \in DOMAIN h : Lst(h, e) \subseteq DOMAIN h \ {1}
  BY DEF Owned
<1>3. \A e \in DOMAIN g : Lst(g, e) \subseteq DOMAIN g \ {1}
  BY <1>1, <1>2
<1>4. \A e \in DOMAIN g : IsInjective(g[e].ElementList)
  BY DEF Owned
<1>5. \A e \in DOMAIN h \ {m} : Lst(h, e) \cap Lst(g, m) = {}
  BY <1>1 DEF Owned, AllListed
<1>6. \A e, f \in DOMAIN g : e # f => Lst(g, e) \cap Lst(g, f) = {}
  BY <1>1, <1>5 DEF Owned
<1>7. AllListed(g) = (AllListed(h) \ Lst(h, m)) \cup Lst(g, m)
  <2>1. AllListed(h) \ Lst(h, m) = UNION {Lst(h, e) : e \in DOMAIN h \ {m}}
    BY DEF AllListed, Owned
  <2>2. UNION {Lst(h, e) : e \in DOMAIN h \ {m}} = UNION {Lst(g, e) : e \in DOMAIN g \ {m}}
    BY <1>1
  <2>. QED
    BY <2>1, <2>2 DEF AllListed
<1>. QED
  BY <1>3, <1>4, <1>6, <1>7 DEF Owned

(* A list gets an element that no list has.                                *)
LEMMA AppendOwn ==
  ASSUME NEW S, NEW l \in Seq(S), NEW a \in S
  PROVE  /\ Append(l, a) \in Seq(S) /\ Len(Append(l, a)) = Len(l) + 1
         /\ \A i \in 1 .. Len(l) : Append(l, a)[i] = l[i]
         /\ Append(l, a)[Len(l) + 1] = a
         /\ Range(Append(l, a)) = Range(l) \cup {a}
         /\ IsInjective(l) /\ a \notin Range(l) => IsInjective(Append(l, a))
<1>1. /\ Append(l, a) \in Seq(S) /\ Len(Append(l, a)) = Len(l) + 1
      /\ \A i \in 1 .. Len(l) : Append(l, a)[i] = l[i]
      /\ Append(l, a)[Len(l) + 1] = a
  BY AppendProperties
<1>. DEFINE k == Append(l, a)
<1>2. DOMAIN k = 1 .. Len(l) + 1 /\ DOMAIN l = 1 .. Len(l) /\ Len(l) \in Nat
  BY <1>1
<1>. HIDE DEF k
<1>3. Range(k) = Range(l) \cup {a}
  <2>1. \A i \in DOMAIN k : i \in DOMAIN l \/ i = Len(l) + 1
    BY <1>2
  <2>2. \A i \in DOMAIN l : i \in DOMAIN k /\ k[i] = l[i]
    BY <1>1, <1>2 DEF k
  <2>3. Len(l) + 1 \in DOMAIN k /\ k[Len(l) + 1] = a
    BY <1>1, <1>2 DEF k
  <2>. QED
    BY <2>1, <2>2, <2>3 DEF Range
<1>4. ASSUME IsInjective(l), a \notin Range(l)
      PROVE  IsInjective(k)
  <2>1. SUFFICES ASSUME NEW i \in DOMAIN k, NEW j \in DOMAIN k, k[i] = k[j], i # j
                 PROVE  FALSE
    BY DEF IsInjective
  <2>2. \A p \in DOMAIN l : l[p] # a
    BY <1>4 DEF Range
  <2>3. CASE i \in DOMAIN l /\ j \in DOMAIN l
    BY <1>1, <1>2, <1>4, <2>1, <2>3 DEF IsInjective, k
  <2>4. CASE i \notin DOMAIN l
    BY <1>1, <1>2, <2>1, <2>2, <2>4 DEF k
  <2>5. CASE j \notin DOMAIN l
    BY <1>1, <1>2, <2>1, <2>2, <2>5 DEF k
  <2>. QED
    BY <2>3, <2>4, <2>5
<1>. QED
  BY <1>1, <1>3, <1>4 DEF k

(* The rest keeps its order.                                               *)
LEMMA RemoveFacts ==
  ASSUME NEW S, NEW l \in Seq(S), NEW i \in DOMAIN l, IsInjective(l)
  PROVE  LET r == RemoveAt(l, i)
         IN  /\ r \in Seq(S) /\ Len(r) = Len(l) - 1 /\ DOMAIN r = 1 .. Len(l) - 1
             /\ \A j \in DOMAIN r : r[j] = IF j < i THEN l[j] ELSE l[j + 1]
             /\ IsInjective(r)
             /\ Range(r) = Range(l) \ {l[i]}
<1>. DEFINE r == RemoveAt(l, i)
            before == SubSeq(l, 1, i - 1)
            after == SubSeq(l, i + 1, Len(l))
<1>1. /\ DOMAIN l = 1 .. Len(l) /\ Len(l) \in Nat /\ i \in 1 .. Len(l)
      /\ \A j \in 1 .. Len(l) : l[j] \in S
  OBVIOUS
<1>2. /\ before \in Seq(S) /\ Len(before) = i - 1
      /\ \A j \in 1 .. i - 1 : before[j] = l[j]
  BY <1>1, SubSeqProperties
<1>3. /\ after \in Seq(S) /\ Len(after) = Len(l) - i
      /\ \A j \in 1 .. Len(l) - i : after[j] = l[i + j]
  <2>1. \A j \in i + 1 .. Len(l) : l[j] \in S
    BY <1>1
  <2>2. /\ after \in Seq(S)
        /\ Len(after) = IF i + 1 <= Len(l) THEN Len(l) - (i + 1) + 1 ELSE 0
        /\ \A j \in 1 .. Len(l) - (i + 1) + 1 : after[j] = l[i + 1 + j - 1]
    BY <1>1, <2>1, SubSeqProperties
  <2>. HIDE DEF after
  <2>3. ASSUME NEW j \in 1 .. Len(l) - i
        PROVE  after[j] = l[i + j]
    <3>1. j \in 1 .. Len(l) - (i + 1) + 1 /\ i + 1 + j - 1 = i + j
      BY <1>1
    <3>. QED
      BY <2>2, <3>1
  <2>. QED
    BY <1>1, <2>2, <2>3
<1>. HIDE DEF before, after, r
<1>4. /\ r \in Seq(S) /\ Len(r) = Len(l) - 1
      /\ \A j \in 1 .. Len(l) - 1 : r[j] = IF j < i THEN l[j] ELSE l[j + 1]
  <2>1. r = before \o after
    BY DEF RemoveAt, before, after, r
  <2>2. /\ r \in Seq(S) /\ Len(r) = Len(before) + Len(after)
        /\ \A j \in 1 .. Len(before) + Len(after) :
             r[j] = IF j <= Len(before) THEN before[j] ELSE after[j - Len(before)]
    BY <1>2, <1>3, <2>1, ConcatProperties
  <2>3. Len(r) = Len(l) - 1 /\ Len(before) + Len(after) = Len(l) - 1
    BY <1>1, <1>2, <1>3, <2>2
  <2>4. ASSUME NEW j \in 1 .. Len(l) - 1
        PROVE  r[j] = IF j < i THEN l[j] ELSE l[j + 1]
    <3>1. r[j] = IF j <= i - 1 THEN before[j] ELSE after[j - (i - 1)]
      BY <1>2, <2>2, <2>3
    <3>2. CASE j < i
      BY <1>1, <1>2, <3>1, <3>2
    <3>3. CASE j >= i
      <4>1. j - (i - 1) \in 1 .. Len(l) - i /\ i + (j - (i - 1)) = j + 1
        BY <1>1, <3>3
      <4>2. after[j - (i - 1)] = l[j + 1]
        BY <1>3, <4>1
      <4>. QED
        BY <1>1, <3>1, <3>3, <4>2
    <3>. QED
      BY <1>1, <3>2, <3>3
  <2>. QED
    BY <2>2, <2>3, <2>4
<1>5. DOMAIN r = 1 .. Len(l) - 1
  BY <1>4
<1>6. IsInjective(r)
  <2>1. ASSUME NEW j \in DOMAIN r, NEW k \in DOMAIN r, r[j] = r[k], j < k
        PROVE  FALSE
    <3>1. j \in 1 .. Len(l) - 1 /\ k \in 1 .. Len(l) - 1 /\ i \in Int /\ Len(l) \in Nat
      BY <1>1, <1>5
    <3>2. PICK p \in 1 .. Len(l) : r[j] = l[p] /\ p \in {j, j + 1} /\ (p = j + 1 => j >= i)
      <4>1. CASE j < i
        BY <1>4, <3>1, <4>1
      <4>2. CASE j >= i
        <5>1. j + 1 \in 1 .. Len(l) /\ r[j] = l[j + 1]
          BY <1>4, <3>1, <4>2
        <5>. QED
          BY <4>2, <5>1
      <4>. QED
        BY <3>1, <4>1, <4>2
    <3>3. PICK q \in 1 .. Len(l) : r[k] = l[q] /\ q \in {k, k + 1} /\ (q = k => k < i)
      <4>1. CASE k < i
        BY <1>4, <3>1, <4>1
      <4>2. CASE k >= i
        <5>1. k + 1 \in 1 .. Len(l) /\ r[k] = l[k + 1]
          BY <1>4, <3>1, <4>2
        <5>. QED
          BY <4>2, <5>1
      <4>. QED
        BY <3>1, <4>1, <4>2
    <3>4. p # q
      BY <2>1, <3>1, <3>2, <3>3
    <3>5. l[p] = l[q] /\ p \in DOMAIN l /\ q \in DOMAIN l
      BY <1>1, <2>1, <3>2, <3>3
    <3>. QED
      BY <3>4, <3>5 DEF IsInjective
  <2>2. \A j, k \in DOMAIN r : j < k \/ j = k \/ k < j
    BY <1>5
  <2>. QED
    BY <2>1, <2>2 DEF IsInjective
<1>7. Range(r) \subseteq Range(l) \ {l[i]}
  <2>1. \A j \in DOMAIN r : \E k \in DOMAIN l : r[j] = l[k] /\ k # i
    BY <1>1, <1>4, <1>5
  <2>. QED
    BY <2>1 DEF Range, IsInjective
<1>8. Range(l) \ {l[i]} \subseteq Range(r)
  <2>1. \A k \in DOMAIN l : k # i => \E j \in DOMAIN r : r[j] = l[k]
    <3>1. SUFFICES ASSUME NEW k \in DOMAIN l, k # i
                   PROVE  \E j \in DOMAIN r : r[j] = l[k]
      OBVIOUS
    <3>2. CASE k < i
      BY <1>1, <1>4, <1>5, <3>2
    <3>3. CASE k > i
      <4>1. k - 1 \in DOMAIN r /\ r[k - 1] = l[k]
        BY <1>1, <1>4, <1>5, <3>3
      <4>. QED
        BY <4>1
    <3>. QED
      BY <1>1, <3>1, <3>2, <3>3
  <2>. QED
    BY <2>1 DEF Range
<1>. QED
  BY <1>4, <1>5, <1>6, <1>7, <1>8 DEF r

(* Deleting elements that no list has prunes the heap.                     *)
LEMMA DeletePrunes ==
  ASSUME NEW h, NEW X, Owned(h), X \cap AllListed(h) = {},
         \A e \in DOMAIN h : h[e] \in ElementRecord
  PROVE  Pruned(h, Delete(h, X), X)
<1>. DEFINE g == Delete(h, X)
<1>1. /\ DOMAIN g \subseteq DOMAIN h \ X
      /\ \A e \in DOMAIN g : g[e] = h[e]
      /\ \A e \in DOMAIN h \ X : e \notin AllListed(h) => e \in DOMAIN g
      /\ \A e \in DOMAIN g : e \in AllListed(h) => e \in AllListed(g)
      /\ AllListed(g) \subseteq AllListed(h)
      /\ Owned(g)
  BY DeleteFacts
<1>. HIDE DEF g
<1>2. ASSUME NEW e \in DOMAIN g
      PROVE  /\ g[e] \in ElementRecord /\ IsAlike(h[e], g[e])
             /\ Lst(g, e) \subseteq Lst(h, e)
             /\ IsOrdered(h, e) => IsOrdered(g, e)
             /\ IsOfContext(h, e) => IsOfContext(g, e)
  <2>1. g[e] = h[e] /\ e \in DOMAIN h
    BY <1>1
  <2>2. Lst(g, e) = Lst(h, e) /\ Lst(g, e) \subseteq DOMAIN g
    BY <1>1, <2>1 DEF Lst, Owned
  <2>3. \A c \in Lst(g, e) : g[c] = h[c]
    BY <1>1, <2>2
  <2>4. \A i \in DOMAIN g[e].ElementList :
          g[g[e].ElementList[i]] = h[h[e].ElementList[i]]
    BY <2>1, <2>3 DEF Lst, Range
  <2>5. IsOrdered(h, e) => IsOrdered(g, e)
    BY <2>1, <2>2, <2>3, <2>4 DEF IsOrdered, EndOf
  <2>6. IsOfContext(h, e) => IsOfContext(g, e)
    BY <2>1, <2>2, <2>3 DEF IsOfContext
  <2>. QED
    BY <2>1, <2>2, <2>5, <2>6 DEF IsAlike
<1>. QED
  BY <1>1, <1>2 DEF Pruned, g

-----------------------------------------------------------------------------
(* The calls: which master each reads, and its ElementLevelA.              *)
This(i) == stack[i].this
Elt(i) == stack[i].ElementLevelA
Left(i) == stack[i].MaxSizeToRead

Position(e) == heap[e].ElementPosition
ClassOf(e) == heap[e].class

(* Those that are reading an element, which is the master of the next call *)
(* or a leaf.                                                              *)
IsReading(i) == i < Len(stack) \/ pc = "after"

(* UpperEltFound says that FoundElt is on its way.                         *)
IsPassing == UpperEltFound > 0 /\ pc \in {"after", "processCrc", "returned"}

StackInv ==
  /\ stack = << >> <=> pc \in {"returned", "thrown"}
  /\ stack # << >> => This(1) = 1
  /\ 1 \in DOMAIN heap
  /\ \A i \in 1 .. Len(stack) : This(i) \in DOMAIN heap /\ ClassOf(This(i)) \in Masters
  /\ \A i, j \in 1 .. Len(stack) : i # j => This(i) # This(j)
  /\ \A i \in 1 .. Len(stack) - 1 : Elt(i) = This(i + 1)
  /\ pc \in {"enter", "find"} => UpperEltFound = 0
  /\ pc = "throw" => UpperEltFound <= 0
  /\ pc = "loop" /\ UpperEltFound < 0 => ClassOf(A) \in Leaves

(* An element that no list has and no call reads.                          *)
IsLoose(e) ==
  /\ e \in DOMAIN heap \ {1} /\ e \notin AllListed(heap)
  /\ \A i \in 1 .. Len(stack) : e # This(i)

OwnInv ==
  /\ Owned(heap)
  /\ \A i \in 1 .. Len(stack) : This(i) \notin AllListed(heap)
  /\ pc \in {"loop", "after", "throw"} => IsLoose(A)
  /\ IsPassing => IsLoose(FoundElt) /\ (pc = "after" => FoundElt # A)

(* How much may be read is what is left of the master after the element    *)
(* being read, which ends inside.                                          *)
BudgetInv ==
  /\ \A i \in 1 .. Len(stack) :
       IsReading(i) /\ IsFiniteSize(This(i)) /\ IsFiniteSize(Elt(i)) =>
         Left(i) = GetEndPosition(This(i)) - GetEndPosition(Elt(i))
  /\ pc = "loop" /\ UpperEltFound <= 0 /\ IsFiniteSize(this) /\ IsFiniteSize(A) =>
       GetEndPosition(A) <= GetEndPosition(this)
  /\ BudgetIsExact

(* Lists are in the order of the stream, and what a call reads is behind   *)
(* what its master has listed.                                             *)
IsBehind(p, m) == p > Position(m) /\ \A c \in List(m) : p > Position(c)

OrderInv ==
  /\ \A e \in Entered : IsOrdered(heap, e)
  /\ \A i \in 1 .. Len(stack) :
       IsReading(i) \/ pc = "loop" => IsBehind(Position(Elt(i)), This(i))
  /\ pc = "find" => IsBehind(pos, this)
  /\ IsPassing /\ pc = "after" => Position(FoundElt) > Position(A)
  /\ IsPassing /\ pc = "processCrc" => Position(FoundElt) > Position(this)

(* Each call reads a child of the master below, so that the contexts of    *)
(* the masters are the calls, and an element that is u levels up is a      *)
(* child of the master u calls below.                                      *)
IsChildOf(class, i) == i >= 1 => class \in Children[ClassOf(This(i))]

CallsInContext ==
  /\ \A i \in 1 .. Len(stack) :
       /\ Len(Contexts[ClassOf(This(i))]) = i
       /\ \A j \in 1 .. i : Contexts[ClassOf(This(i))][j] = ClassOf(This(i + 1 - j))
  /\ \A i \in 1 .. Len(stack) - 1 : ClassOf(This(i + 1)) \in Children[ClassOf(This(i))]

ReadInContext ==
  /\ pc = "after" \/ (pc = "loop" /\ UpperEltFound <= 0) =>
       ClassOf(A) \in Children[ClassOf(this)] \cup Globals
  /\ pc = "loop" /\ UpperEltFound > 0 =>
       IsChildOf(ClassOf(A), Len(stack) - UpperEltFound)
  /\ IsPassing /\ pc = "processCrc" =>
       IsChildOf(ClassOf(FoundElt), Len(stack) - UpperEltFound)
  /\ IsPassing /\ pc = "after" =>
       IsChildOf(ClassOf(FoundElt), Len(stack) + 1 - UpperEltFound)

ContextInv ==
  (\A e \in DOMAIN heap : IsOfContext(heap, e)) /\ CallsInContext /\ ReadInContext

(* As long as no element of an upper level was met, every element is in a  *)
(* list or being read.                                                     *)
LossInv ==
  ~ strayed =>
    /\ UpperEltFound <= 0 /\ FoundElt = Null
    /\ \A e \in DOMAIN heap :
         \/ e = 1 \/ e \in AllListed(heap)
         \/ \E i \in 1 .. Len(stack) : e = This(i)
         \/ pc \in {"loop", "after", "throw"} /\ e = A
    /\ pc = "loop" => pos = DataStart(A) /\ call.MaxSizeToRead > 0

ReadInv ==
  TypeOK /\ StackInv /\ OwnInv /\ BudgetInv /\ OrderInv /\ ContextInv /\ LossInv

(* The calls of SkipData: of one that is not the last, nothing is to be    *)
(* tested; that which the last one tests was found last, and its data is   *)
(* not skipped yet.                                                        *)
SkipCallType ==
  [Context : {Contexts[m] : m \in Masters} \cup {Global},
   TestReadElt : Element \cup {Null}]

FoundEnd(e) == IF IsFiniteSize(e) THEN GetEndPosition(e) ELSE DataStart(e)

(* No semantic table has the class.                                        *)
HasNoTable(class) ==
  class \notin Globals /\ \A m \in Masters : class \notin Children[m]

(* It is in the table of the context or in that of one above.              *)
HasTableFrom(class, Context) ==
  class \in Globals \/ \E i \in DOMAIN Context : class \in Children[Context[i]]

SkipTypeOK ==
  /\ ReadFully = "SCOPE_ALL_DATA"
  /\ pos \in Nat /\ created \in Element
  /\ DOMAIN heap = 1 .. created
  /\ \A e \in DOMAIN heap :
       /\ heap[e] \in ElementRecord /\ heap[e].ElementList = << >>
       /\ IsFiniteSize(e) \/ heap[e].class \in Masters
  /\ stack = <<Call(1)>> /\ pc = "enter"
  /\ UpperEltFound = 0 /\ FoundElt = Null /\ strayed = FALSE
  /\ step \in {"loop", "found", "return", "done"}
  /\ skips \in Seq(SkipCallType) /\ skips # << >>
  /\ Skipped \in DOMAIN heap \cup {Null}

SkipInv ==
  /\ SkipTypeOK
  /\ \A i \in 1 .. Len(skips) :
       skips[i].TestReadElt =
         IF i = Len(skips) /\ step = "loop" THEN Skipped ELSE Null
  /\ step = "found" => Skipped # Null
  /\ step \in {"loop", "found"} /\ Skipped # Null =>
       /\ Skipped = created /\ created > 1 /\ pos = DataStart(created)
       /\ \/ HasNoTable(heap[created].class)
          \/ HasTableFrom(heap[created].class, top.Context)
  /\ step \in {"return", "done"} /\ Skipped # Null =>
       HasNoTable(heap[Skipped].class)
  /\ \A e, f \in DOMAIN heap \ {1} :
       e < f => heap[f].ElementPosition >= FoundEnd(e)
  /\ step \in {"loop", "return"} /\ Skipped = Null =>
       \A e \in DOMAIN heap \ {1} : pos >= FoundEnd(e)

ProgramInv == IF step = "none" THEN ReadInv ELSE SkipInv

-----------------------------------------------------------------------------
(* The call on top, and the stack when it gets another element and budget, *)
(* is left, or makes a call.                                               *)
CallRecord ==
  [this : Element, MaxSizeToRead : 0 .. NoLimit, ElementLevelA : Element \cup {Null}]

(* The calls, by their fields.                                             *)
LEMMA StackType ==
  ASSUME TypeOK
  PROVE  /\ stack \in Seq(CallRecord) /\ Len(stack) \in Nat
         /\ stack # << >> => Len(stack) \in Nat \ {0} /\ Len(stack) \in 1 .. Len(stack)
         /\ stack = << >> => Len(stack) = 0
         /\ DOMAIN stack = 1 .. Len(stack)
         /\ \A i \in 1 .. Len(stack) :
              /\ stack[i] \in CallRecord
              /\ stack[i] = [this |-> This(i), MaxSizeToRead |-> Left(i),
                             ElementLevelA |-> Elt(i)]
              /\ This(i) \in Element /\ Left(i) \in 0 .. NoLimit
              /\ Elt(i) \in Element \cup {Null}
<1>1. stack \in Seq(CallRecord)
  BY DEF TypeOK, CallRecord
<1>2. /\ Len(stack) \in Nat /\ DOMAIN stack = 1 .. Len(stack)
      /\ stack # << >> => Len(stack) \in Nat \ {0}
      /\ stack = << >> => Len(stack) = 0
      /\ \A i \in 1 .. Len(stack) : stack[i] \in CallRecord
  BY <1>1, EmptySeq, LenProperties, ElementOfSeq
<1>3. \A c \in CallRecord : /\ c.this \in Element /\ c.MaxSizeToRead \in 0 .. NoLimit
                            /\ c.ElementLevelA \in Element \cup {Null}
                            /\ c = [this |-> c.this, MaxSizeToRead |-> c.MaxSizeToRead,
                                    ElementLevelA |-> c.ElementLevelA]
  BY DEF CallRecord
<1>. QED
  BY <1>1, <1>2, <1>3 DEF This, Elt, Left

(* The call on top is the last one.                                        *)
LEMMA TopFacts ==
  ASSUME TypeOK, stack # << >>
  PROVE  /\ Len(stack) \in Nat \ {0} /\ Len(stack) \in 1 .. Len(stack)
         /\ this = This(Len(stack)) /\ this \in Element
         /\ A = Elt(Len(stack)) /\ A \in Element \cup {Null}
         /\ call.MaxSizeToRead = Left(Len(stack))
         /\ call.MaxSizeToRead \in 0 .. NoLimit
BY StackType DEF this, A, call, Last, This, Elt, Left

(* Its element and budget change, nothing else does.                       *)
LEMMA SetCallFacts ==
  ASSUME TypeOK, stack # << >>, NEW e \in Element \cup {Null}, NEW b \in 0 .. NoLimit,
         NEW s, s = SetCall(e, b)
  PROVE  /\ s \in Seq(CallRecord) /\ Len(s) = Len(stack)
         /\ \A i \in 1 .. Len(stack) :
              /\ s[i].this = This(i)
              /\ s[i].ElementLevelA = IF i = Len(stack) THEN e ELSE Elt(i)
              /\ s[i].MaxSizeToRead = IF i = Len(stack) THEN b ELSE Left(i)
<1>. DEFINE c == [this |-> this, MaxSizeToRead |-> b, ElementLevelA |-> e]
<1>1. /\ stack \in Seq(CallRecord) /\ Len(stack) \in Nat \ {0}
      /\ Len(stack) \in 1 .. Len(stack) /\ this = This(Len(stack)) /\ this \in Element
  BY StackType, TopFacts
<1>2. c \in CallRecord /\ c.this = this /\ c.MaxSizeToRead = b /\ c.ElementLevelA = e
  BY <1>1 DEF CallRecord
<1>3. s = [stack EXCEPT ![Len(stack)] = c]
  BY DEF SetCall
<1>. HIDE DEF c
<1>4. /\ s \in Seq(CallRecord) /\ Len(s) = Len(stack)
      /\ \A i \in 1 .. Len(stack) : s[i] = IF i = Len(stack) THEN c ELSE stack[i]
  BY <1>1, <1>2, <1>3, ExceptSeq
<1>. QED
  BY <1>1, <1>2, <1>4 DEF This, Elt, Left

(* The same, of the stack after the step.                                  *)
LEMMA ToppedFacts ==
  ASSUME TypeOK, stack # << >>, NEW e \in Element \cup {Null}, NEW b \in 0 .. NoLimit,
         stack' = SetCall(e, b)
  PROVE  /\ stack' \in Seq(CallRecord) /\ Len(stack') = Len(stack) /\ stack' # << >>
         /\ this' = this /\ A' = e /\ call.MaxSizeToRead' = b
         /\ \A i \in 1 .. Len(stack) :
              /\ This(i)' = This(i)
              /\ Elt(i)' = IF i = Len(stack) THEN e ELSE Elt(i)
              /\ Left(i)' = IF i = Len(stack) THEN b ELSE Left(i)
<1>1. /\ Len(stack) \in Nat \ {0} /\ Len(stack) \in 1 .. Len(stack)
      /\ this = This(Len(stack))
  BY TopFacts
<1>2. /\ stack' \in Seq(CallRecord) /\ Len(stack') = Len(stack)
      /\ \A i \in 1 .. Len(stack) :
              /\ This(i)' = This(i)
              /\ Elt(i)' = IF i = Len(stack) THEN e ELSE Elt(i)
              /\ Left(i)' = IF i = Len(stack) THEN b ELSE Left(i)
  BY SetCallFacts DEF This, Elt, Left
<1>3. this' = this /\ A' = e /\ call.MaxSizeToRead' = b
  BY <1>1, <1>2 DEF this, A, call, Last, This, Elt, Left
<1>. QED
  BY <1>1, <1>2, <1>3

(* The call on top returned: the others are as they were.                  *)
LEMMA PopFacts ==
  ASSUME TypeOK, stack # << >>, stack' = Front(stack)
  PROVE  /\ stack' \in Seq(CallRecord) /\ Len(stack') = Len(stack) - 1
         /\ stack' = << >> <=> Len(stack) = 1
         /\ \A i \in 1 .. Len(stack) - 1 :
              This(i)' = This(i) /\ Elt(i)' = Elt(i) /\ Left(i)' = Left(i)
         /\ Len(stack) # 1 =>
              /\ this' = This(Len(stack) - 1) /\ A' = Elt(Len(stack) - 1)
              /\ call.MaxSizeToRead' = Left(Len(stack) - 1)
<1>1. /\ stack \in Seq(CallRecord) /\ Len(stack) \in Nat \ {0}
      /\ \A i \in 1 .. Len(stack) : stack[i] \in CallRecord
  BY StackType
<1>2. /\ stack' \in Seq(CallRecord) /\ Len(stack') = Len(stack) - 1
      /\ \A i \in 1 .. Len(stack) - 1 : stack'[i] = stack[i]
  <2>1. /\ stack' = SubSeq(stack, 1, Len(stack) - 1)
        /\ \A i \in 1 .. Len(stack) - 1 : stack[i] \in CallRecord
    BY <1>1 DEF Front
  <2>2. /\ stack' \in Seq(CallRecord)
        /\ Len(stack') = IF 1 <= Len(stack) - 1 THEN Len(stack) - 1 - 1 + 1 ELSE 0
        /\ \A i \in 1 .. Len(stack) - 1 - 1 + 1 : stack'[i] = stack[1 + i - 1]
    BY <1>1, <2>1, SubSeqProperties
  <2>3. Len(stack') = Len(stack) - 1
    <3>. DEFINE n == Len(stack)
                k == Len(stack')
    <3>1. n \in Nat \ {0} /\ k = IF 1 <= n - 1 THEN n - 1 - 1 + 1 ELSE 0
      BY <1>1, <2>2
    <3>. HIDE DEF n, k
    <3>2. k = n - 1
      BY <3>1
    <3>. QED
      BY <3>2 DEF n, k
  <2>4. ASSUME NEW i \in 1 .. Len(stack) - 1
        PROVE  stack'[i] = stack[i]
    <3>1. i \in 1 .. Len(stack) - 1 - 1 + 1 /\ 1 + i - 1 = i
      BY <1>1
    <3>. QED
      BY <2>2, <3>1
  <2>. QED
    BY <2>2, <2>3, <2>4
<1>3. \A i \in 1 .. Len(stack) - 1 :
         This(i)' = This(i) /\ Elt(i)' = Elt(i) /\ Left(i)' = Left(i)
  BY <1>2 DEF This, Elt, Left
<1>4. ASSUME Len(stack) # 1
      PROVE  /\ this' = This(Len(stack) - 1) /\ A' = Elt(Len(stack) - 1)
             /\ call.MaxSizeToRead' = Left(Len(stack) - 1)
  BY <1>1, <1>2, <1>3, <1>4 DEF this, A, call, Last, This, Elt, Left
<1>. QED
  BY <1>1, <1>2, <1>3, <1>4

(* A call was made, the one below got another budget.                      *)
LEMMA PushFacts ==
  ASSUME TypeOK, stack # << >>, NEW b \in 0 .. NoLimit, A \in Element,
         stack' = Append(SetMaxSizeToRead(b), Call(A))
  PROVE  /\ stack' \in Seq(CallRecord) /\ Len(stack') = Len(stack) + 1 /\ stack' # << >>
         /\ this' = A /\ call.MaxSizeToRead' = 0
         /\ This(Len(stack))' = A
         /\ \A i \in 1 .. Len(stack) :
              /\ This(i)' = This(i) /\ Elt(i)' = Elt(i)
              /\ Left(i)' = IF i = Len(stack) THEN b ELSE Left(i)
<1>. DEFINE s == SetCall(A, b)
            c == Call(A)
<1>1. /\ Len(stack) \in Nat \ {0} /\ Len(stack) \in 1 .. Len(stack)
      /\ A = Elt(Len(stack))
  BY TopFacts
<1>2. /\ s \in Seq(CallRecord) /\ Len(s) = Len(stack)
      /\ \A i \in 1 .. Len(stack) :
           /\ s[i].this = This(i) /\ s[i].ElementLevelA = Elt(i)
           /\ s[i].MaxSizeToRead = IF i = Len(stack) THEN b ELSE Left(i)
  BY <1>1, SetCallFacts
<1>3. c \in CallRecord /\ c.this = A /\ c.MaxSizeToRead = 0
  BY BoundAssumption DEF Call, CallRecord, NoLimit
<1>4. stack' = Append(s, c)
  BY DEF SetMaxSizeToRead
<1>. HIDE DEF s, c
<1>5. /\ stack' \in Seq(CallRecord) /\ Len(stack') = Len(stack) + 1
      /\ \A i \in 1 .. Len(stack) : stack'[i] = s[i]
      /\ stack'[Len(stack) + 1] = c
  <2>. DEFINE k == Append(s, c)
  <2>1. /\ k \in Seq(CallRecord) /\ Len(k) = Len(s) + 1
        /\ \A i \in 1 .. Len(s) : k[i] = s[i]
        /\ k[Len(s) + 1] = c
    BY <1>2, <1>3, AppendProperties
  <2>. HIDE DEF k
  <2>. QED
    BY <1>2, <1>4, <2>1 DEF k
<1>6. \A i \in 1 .. Len(stack) :
        /\ This(i)' = This(i) /\ Elt(i)' = Elt(i)
        /\ Left(i)' = IF i = Len(stack) THEN b ELSE Left(i)
  BY <1>2, <1>5 DEF This, Elt, Left
<1>7. stack' # << >>
  BY <1>1, <1>5
<1>8. stack'[Len(stack')] = c
  BY <1>5
<1>9. this' = c.this /\ call.MaxSizeToRead' = c.MaxSizeToRead
  BY <1>8 DEF this, call, Last
<1>10. This(Len(stack))' = A
  BY <1>3, <1>8 DEF This
<1>. QED
  BY <1>3, <1>5, <1>6, <1>7, <1>9, <1>10

-----------------------------------------------------------------------------
(* What is known of a live element.                                        *)
LEMMA HeapType ==
  ASSUME TypeOK
  PROVE  \A e \in DOMAIN heap :
           /\ e \in Element /\ e <= created
           /\ Position(e) \in Nat /\ Position(e) <= StreamEnd
           /\ heap[e].Size \in Nat /\ heap[e].Size <= NoLimit
           /\ ClassOf(e) \in Class /\ IsFiniteSize(e) \in BOOLEAN
           /\ heap[e].ElementList \in Seq(Element)
           /\ DataStart(e) = Position(e) + 1
           /\ DataStart(e) \in Nat
           /\ GetEndPosition(e) = Position(e) + 1 + heap[e].Size
           /\ GetEndPosition(e) \in Nat
<1>1. Max({StreamEnd, SizeBound}) \in Nat /\ Max({StreamEnd, SizeBound}) <= NoLimit
  BY MaxOfTwo, BoundAssumption DEF NoLimit
<1>2. SUFFICES ASSUME NEW e \in DOMAIN heap
               PROVE  /\ e \in Element /\ e <= created
                      /\ Position(e) \in Nat /\ Position(e) <= StreamEnd
                      /\ heap[e].Size \in Nat /\ heap[e].Size <= NoLimit
                      /\ ClassOf(e) \in Class /\ IsFiniteSize(e) \in BOOLEAN
                      /\ heap[e].ElementList \in Seq(Element)
  BY DEF DataStart, GetEndPosition, Position
<1>3. heap[e] \in ElementRecord /\ e \in 1 .. created /\ created \in 1 .. ElementMax
  BY DEF TypeOK, Element
<1>4. NoLimit \in Nat
  BY BoundAssumption DEF NoLimit
<1>. QED
  BY <1>1, <1>3, <1>4, BoundAssumption
     DEF ElementRecord, Position, ClassOf, IsFiniteSize, Element

(* The contexts of the calls that are left, when no class changes.         *)
LEMMA CallsKept ==
  ASSUME StackInv, CallsInContext, Len(stack) \in Nat,
         Len(stack') \in Nat, Len(stack') <= Len(stack),
         \A i \in 1 .. Len(stack') :
           This(i)' = This(i) /\ ClassOf(This(i))' = ClassOf(This(i))
  PROVE  CallsInContext'
<1>1. ASSUME NEW i \in 1 .. Len(stack')
      PROVE  /\ Len(Contexts[ClassOf(This(i))']) = i
             /\ \A j \in 1 .. i : Contexts[ClassOf(This(i))'][j] = ClassOf(This(i + 1 - j))'
  <2>1. i \in 1 .. Len(stack) /\ ClassOf(This(i))' = ClassOf(This(i))
    OBVIOUS
  <2>2. \A j \in 1 .. i : i + 1 - j \in 1 .. Len(stack')
    OBVIOUS
  <2>3. \A j \in 1 .. i : ClassOf(This(i + 1 - j))' = ClassOf(This(i + 1 - j))
    BY <2>2
  <2>. QED
    BY <2>1, <2>3 DEF CallsInContext
<1>2. ASSUME NEW i \in 1 .. Len(stack') - 1
      PROVE  ClassOf(This(i + 1))' \in Children[ClassOf(This(i))']
  <2>1. /\ i \in 1 .. Len(stack') /\ i + 1 \in 1 .. Len(stack')
        /\ i \in 1 .. Len(stack) - 1
    OBVIOUS
  <2>2. /\ ClassOf(This(i + 1))' = ClassOf(This(i + 1))
        /\ ClassOf(This(i))' = ClassOf(This(i))
    BY <2>1
  <2>. QED
    BY <2>1, <2>2 DEF CallsInContext
<1>. QED
  BY <1>1, <1>2 DEF CallsInContext

(* FindNothing preserves what is known of the reading.                     *)
LEMMA FindNothingInv ==
  ASSUME ReadInv, FindNothing
  PROVE  ReadInv'
<1>1. /\ TypeOK /\ StackInv /\ OwnInv /\ BudgetInv /\ OrderInv /\ ContextInv /\ LossInv
      /\ pc = "find" /\ stack # << >>
  BY DEF ReadInv, FindNothing, StackInv
<1>2. /\ Len(stack) \in Nat \ {0} /\ Len(stack) \in 1 .. Len(stack)
      /\ this = This(Len(stack)) /\ A = Elt(Len(stack))
      /\ call.MaxSizeToRead = Left(Len(stack))
      /\ call.MaxSizeToRead \in 0 .. NoLimit
  BY <1>1, TopFacts
<1>3. /\ stack' \in Seq(CallRecord) /\ Len(stack') = Len(stack) /\ stack' # << >>
      /\ this' = this /\ A' = Null
      /\ \A i \in 1 .. Len(stack) :
           /\ This(i)' = This(i)
           /\ Elt(i)' = IF i = Len(stack) THEN Null ELSE Elt(i)
           /\ Left(i)' = Left(i)
  BY <1>1, <1>2, ToppedFacts DEF FindNothing, SetElementLevelA
<1>4. UNCHANGED <<ReadFully, heap, created, UpperEltFound, FoundElt, strayed>> /\ pc' = "processCrc"
  BY DEF FindNothing
<1>5. pos' \in Nat
  BY <1>1, <1>2, MaxOfTwo, MinOfTwo, BoundAssumption DEF FindNothing, TypeOK, NoLimit
<1>6. TypeOK'
  BY <1>1, <1>3, <1>4, <1>5 DEF TypeOK, CallRecord
<1>7. StackInv'
  BY <1>1, <1>2, <1>3, <1>4 DEF StackInv, ClassOf
<1>8. OwnInv'
  BY <1>1, <1>2, <1>3, <1>4 DEF OwnInv, StackInv, IsLoose, IsPassing
<1>9. BudgetInv'
  BY <1>1, <1>2, <1>3, <1>4
     DEF BudgetInv, BudgetIsExact, IsReading, IsFiniteSize, GetEndPosition, DataStart
<1>10. OrderInv'
  BY <1>1, <1>2, <1>3, <1>4
     DEF OrderInv, Entered, StackInv, IsReading, IsPassing, IsBehind, List, Position
<1>11. ContextInv'
  <2>1. \A e \in DOMAIN heap' : IsOfContext(heap', e)
    BY <1>1, <1>4 DEF ContextInv
  <2>2. CallsInContext'
    BY <1>1, <1>2, <1>3, <1>4, CallsKept DEF ContextInv, ClassOf
  <2>3. ReadInContext'
    BY <1>1, <1>4 DEF StackInv, ReadInContext, IsPassing
  <2>. QED
    BY <2>1, <2>2, <2>3 DEF ContextInv
<1>12. LossInv'
  BY <1>1, <1>2, <1>3, <1>4 DEF LossInv
<1>. QED
  BY <1>6, <1>7, <1>8, <1>9, <1>10, <1>11, <1>12 DEF ReadInv

(* What a step keeps that changes neither heap nor stack.                  *)
LEMMA KeptFacts ==
  ASSUME UNCHANGED stack
  PROVE  /\ this' = this /\ A' = A /\ call.MaxSizeToRead' = call.MaxSizeToRead
         /\ \A i : This(i)' = This(i) /\ Elt(i)' = Elt(i) /\ Left(i)' = Left(i)
BY DEF this, A, call, Last, This, Elt, Left

(* What every step of a call starts from.                                  *)
LEMMA Standing ==
  ASSUME ReadInv, stack # << >>
  PROVE  /\ TypeOK /\ StackInv /\ OwnInv /\ BudgetInv /\ OrderInv /\ ContextInv /\ LossInv
         /\ stack \in Seq(CallRecord)
         /\ Len(stack) \in Nat \ {0} /\ Len(stack) \in 1 .. Len(stack)
         /\ this = This(Len(stack)) /\ A = Elt(Len(stack))
         /\ call.MaxSizeToRead = Left(Len(stack))
         /\ call.MaxSizeToRead \in 0 .. NoLimit
         /\ A \in Element \cup {Null}
         /\ this \in DOMAIN heap /\ ClassOf(this) \in Masters
         /\ UpperEltFound \in Int
<1>1. Level \subseteq Int
  <2>1. \A m \in Masters : Len(Contexts[m]) \in Nat
    BY ContextAssumption
  <2>. QED
    BY <2>1 DEF Level
<1>. QED
  BY <1>1, StackType, TopFacts DEF ReadInv, StackInv, TypeOK

(* LoopEnds preserves it: the upper element becomes FoundElt.              *)
LEMMA LoopEndsInv ==
  ASSUME ReadInv, LoopEnds
  PROVE  ReadInv'
<1>1. pc = "loop" /\ stack # << >> /\ pc' = "processCrc"
  BY DEF ReadInv, LoopEnds, StackInv
<1>2. /\ UNCHANGED <<ReadFully, pos, heap, created, stack, UpperEltFound, strayed>>
      /\ FoundElt' = IF UpperEltFound > 0 THEN A ELSE FoundElt
      /\ UpperEltFound > 0 \/ call.MaxSizeToRead = 0
  BY DEF LoopEnds
<1>3. /\ this' = this /\ A' = A
      /\ \A i : This(i)' = This(i) /\ Elt(i)' = Elt(i) /\ Left(i)' = Left(i)
  BY <1>2, KeptFacts
<1>4. TypeOK'
  BY <1>1, <1>2, Standing DEF TypeOK
<1>5. StackInv'
  BY <1>1, <1>2, <1>3, Standing DEF StackInv, ClassOf
<1>6. OwnInv'
  BY <1>1, <1>2, <1>3, Standing DEF OwnInv, IsLoose, IsPassing
<1>7. BudgetInv'
  BY <1>1, <1>2, <1>3, Standing
     DEF BudgetInv, BudgetIsExact, IsReading, IsFiniteSize, GetEndPosition, DataStart
<1>8. OrderInv'
  BY <1>1, <1>2, <1>3, Standing
     DEF OrderInv, Entered, IsReading, IsPassing, IsBehind, List, Position
<1>9. ContextInv'
  BY <1>1, <1>2, <1>3, Standing
     DEF ContextInv, CallsInContext, ReadInContext, IsChildOf, ClassOf, IsPassing
<1>10. LossInv'
  BY <1>1, <1>2, Standing DEF LossInv
<1>. QED
  BY <1>4, <1>5, <1>6, <1>7, <1>8, <1>9, <1>10 DEF ReadInv

(* DeleteEndOfList preserves it.                                           *)
LEMMA DeleteEndOfListInv ==
  ASSUME ReadInv, DeleteEndOfList
  PROVE  ReadInv'
<1>1. pc = "processCrc" /\ stack # << >> /\ pc' = "undefined"
  BY DEF ReadInv, DeleteEndOfList, StackInv
<1>2. UNCHANGED <<ReadFully, pos, heap, created, stack, UpperEltFound, FoundElt, strayed>>
  BY DEF DeleteEndOfList
<1>3. /\ this' = this /\ A' = A
      /\ \A i : This(i)' = This(i) /\ Elt(i)' = Elt(i) /\ Left(i)' = Left(i)
  BY <1>2, KeptFacts
<1>4. TypeOK'
  BY <1>1, <1>2, Standing DEF TypeOK
<1>5. StackInv'
  BY <1>1, <1>2, <1>3, Standing DEF StackInv, ClassOf
<1>6. OwnInv'
  BY <1>1, <1>2, <1>3, Standing DEF OwnInv, IsPassing
<1>7. BudgetInv'
  BY <1>1, <1>2, <1>3, Standing
     DEF BudgetInv, BudgetIsExact, IsReading, IsFiniteSize, GetEndPosition, DataStart
<1>8. OrderInv'
  BY <1>1, <1>2, <1>3, Standing
     DEF OrderInv, Entered, IsReading, IsPassing, IsBehind, List, Position
<1>9. ContextInv'
  BY <1>1, <1>2, <1>3, Standing
     DEF ContextInv, CallsInContext, ReadInContext, ClassOf, IsPassing
<1>10. LossInv'
  BY <1>1, <1>2, <1>3, Standing DEF LossInv
<1>. QED
  BY <1>4, <1>5, <1>6, <1>7, <1>8, <1>9, <1>10 DEF ReadInv

(* What is left after an element that ends inside its master.              *)
LEMMA BudgetFacts ==
  ASSUME TypeOK, NEW b \in 0 .. NoLimit, NEW m \in DOMAIN heap, NEW e \in DOMAIN heap,
         IsFiniteSize(m) /\ IsFiniteSize(e) => GetEndPosition(e) <= GetEndPosition(m)
  PROVE  (IF IsFiniteSize(m) /\ IsFiniteSize(e)
          THEN GetEndPosition(m) - GetEndPosition(e) ELSE b) \in 0 .. NoLimit
<1>1. Max({StreamEnd, SizeBound}) \in Nat /\ Max({StreamEnd, SizeBound}) <= StreamEnd + SizeBound
  BY MaxOfTwo, BoundAssumption
<1>2. heap[m] \in ElementRecord
  BY DEF TypeOK
<1>3. /\ heap[m].ElementPosition \in 0 .. StreamEnd
      /\ heap[m].Size \in 0 .. Max({StreamEnd, SizeBound})
  BY <1>2 DEF ElementRecord
<1>4. GetEndPosition(m) \in 0 .. NoLimit
  BY <1>1, <1>3, BoundAssumption DEF GetEndPosition, DataStart, NoLimit
<1>5. GetEndPosition(e) \in Nat /\ NoLimit \in Nat
  BY HeapType, BoundAssumption DEF NoLimit
<1>6. CASE IsFiniteSize(m) /\ IsFiniteSize(e)
  <2>1. GetEndPosition(m) - GetEndPosition(e) \in 0 .. NoLimit
    BY <1>4, <1>5, <1>6
  <2>. QED
    BY <1>6, <2>1
<1>. QED
  BY <1>6

(* A leaf's size and position stay, so that only its value changes.        *)
LEMMA ReadStarts ==
  ASSUME ReadInv, InLoop
  PROVE  /\ stack # << >> /\ A \in DOMAIN heap \ {1}
         /\ Budget(A) \in 0 .. NoLimit
         /\ IsFiniteSize(this) /\ IsFiniteSize(A) =>
              Budget(A) = GetEndPosition(this) - GetEndPosition(A)
<1>1. pc = "loop" /\ UpperEltFound <= 0 /\ stack # << >>
  BY DEF InLoop, ReadInv, StackInv
<1>2. A \in DOMAIN heap \ {1}
  BY <1>1, Standing DEF OwnInv, IsLoose
<1>3. IsFiniteSize(this) /\ IsFiniteSize(A) => GetEndPosition(A) <= GetEndPosition(this)
  BY <1>1, Standing DEF BudgetInv
<1>4. Budget(A) \in 0 .. NoLimit
  BY <1>1, <1>2, <1>3, BudgetFacts, Standing DEF Budget
<1>. QED
  BY <1>1, <1>2, <1>4 DEF Budget

(* LeafThrows preserves it.                                                *)
LEMMA LeafThrowsInv ==
  ASSUME ReadInv, LeafThrows
  PROVE  ReadInv'
<1>1. InLoop /\ pc = "loop" /\ UpperEltFound <= 0 /\ pc' = "throw" /\ A \in DOMAIN heap
  BY ReadStarts DEF LeafThrows, InLoop
<1>2. /\ UNCHANGED <<ReadFully, heap, created, UpperEltFound, FoundElt, strayed>>
      /\ stack # << >>
  BY <1>1, ReadStarts DEF LeafThrows
<1>3. /\ stack' \in Seq(CallRecord) /\ Len(stack') = Len(stack) /\ stack' # << >>
      /\ this' = this /\ A' = A
      /\ \A i \in 1 .. Len(stack) :
           /\ This(i)' = This(i) /\ Elt(i)' = Elt(i)
           /\ Left(i)' = IF i = Len(stack) THEN Budget(A) ELSE Left(i)
  <2>1. stack' = SetCall(A, Budget(A))
    BY DEF LeafThrows, SetMaxSizeToRead
  <2>2. A \in Element \cup {Null} /\ Budget(A) \in 0 .. NoLimit /\ TypeOK /\ A = Elt(Len(stack))
    BY <1>1, <1>2, ReadStarts, Standing
  <2>. QED
    BY <1>2, <2>1, <2>2, ToppedFacts
<1>4. pos' \in Nat
  BY <1>2, Standing, MaxOfTwo, BoundAssumption DEF LeafThrows, TypeOK
<1>5. TypeOK'
  BY <1>1, <1>2, <1>3, <1>4, Standing DEF TypeOK, CallRecord
<1>6. StackInv'
  <2>1. StackInv /\ Len(stack) \in Nat \ {0}
    BY <1>2, Standing
  <2>. QED
    BY <1>1, <1>2, <1>3, <2>1 DEF StackInv, ClassOf
<1>7. OwnInv'
  BY <1>1, <1>2, <1>3, Standing DEF OwnInv, IsLoose, IsPassing
<1>8. BudgetInv'
  BY <1>1, <1>2, <1>3, Standing
     DEF BudgetInv, BudgetIsExact, IsReading, IsFiniteSize, GetEndPosition, DataStart
<1>9. OrderInv'
  BY <1>1, <1>2, <1>3, Standing
     DEF OrderInv, Entered, IsReading, IsPassing, IsBehind, List, Position
<1>10. ContextInv'
  <2>1. CallsInContext'
    BY <1>2, <1>3, CallsKept, Standing DEF ContextInv, ClassOf
  <2>2. (\A e \in DOMAIN heap' : IsOfContext(heap', e)) /\ ReadInContext'
    BY <1>1, <1>2, Standing DEF ContextInv, ReadInContext, IsPassing
  <2>. QED
    BY <2>1, <2>2 DEF ContextInv
<1>11. LossInv'
  BY <1>1, <1>2, <1>3, Standing DEF LossInv
<1>. QED
  BY <1>5, <1>6, <1>7, <1>8, <1>9, <1>10, <1>11 DEF ReadInv

(* When heads and lists stay as they are, so does what is said of them.    *)
LEMMA AlikeFacts ==
  ASSUME DOMAIN heap' = DOMAIN heap, Owned(heap),
         \A e \in DOMAIN heap : /\ IsAlike(heap[e], heap'[e])
                                /\ heap'[e].ElementList = heap[e].ElementList
  PROVE  /\ Owned(heap') /\ AllListed(heap') = AllListed(heap)
         /\ \A e \in DOMAIN heap :
              /\ ClassOf(e)' = ClassOf(e) /\ Position(e)' = Position(e)
              /\ IsFiniteSize(e)' = IsFiniteSize(e)
              /\ DataStart(e)' = DataStart(e) /\ GetEndPosition(e)' = GetEndPosition(e)
              /\ List(e)' = List(e) /\ List(e) \subseteq DOMAIN heap
              /\ IsOrdered(heap, e) => IsOrdered(heap', e)
              /\ IsOfContext(heap, e) => IsOfContext(heap', e)
<1>1. \A e \in DOMAIN heap : /\ Lst(heap', e) = Lst(heap, e) /\ Lst(heap, e) \subseteq DOMAIN heap
                             /\ List(e)' = List(e) /\ List(e) = Lst(heap, e)
  BY DEF Lst, List, Owned
<1>2. Owned(heap') /\ AllListed(heap') = AllListed(heap)
  BY <1>1 DEF Owned, AllListed
<1>3. \A e \in DOMAIN heap :
        /\ ClassOf(e)' = ClassOf(e) /\ Position(e)' = Position(e)
        /\ IsFiniteSize(e)' = IsFiniteSize(e)
        /\ DataStart(e)' = DataStart(e) /\ GetEndPosition(e)' = GetEndPosition(e)
        /\ EndOf(heap', e) = EndOf(heap, e)
  BY DEF IsAlike, ClassOf, Position, IsFiniteSize, DataStart, GetEndPosition, EndOf
<1>4. ASSUME NEW e \in DOMAIN heap, IsOrdered(heap, e)
      PROVE  IsOrdered(heap', e)
  <2>1. \A i \in DOMAIN heap[e].ElementList : heap[e].ElementList[i] \in DOMAIN heap
    BY <1>1 DEF Lst, Range
  <2>. QED
    BY <1>1, <1>3, <1>4, <2>1 DEF IsOrdered, IsAlike
<1>5. ASSUME NEW e \in DOMAIN heap, IsOfContext(heap, e)
      PROVE  IsOfContext(heap', e)
  BY <1>1, <1>5 DEF IsOfContext, IsAlike
<1>. QED
  BY <1>1, <1>2, <1>3, <1>4, <1>5

(* ReadLeaf preserves it: only the value of the leaf changes.              *)
LEMMA ReadLeafInv ==
  ASSUME ReadInv, ReadLeaf
  PROVE  ReadInv'
<1>1. InLoop /\ pc = "loop" /\ UpperEltFound <= 0 /\ pc' = "after"
  BY DEF ReadLeaf, InLoop
<1>2. /\ UNCHANGED <<ReadFully, created, UpperEltFound, FoundElt, strayed>>
      /\ stack # << >> /\ A \in DOMAIN heap
  BY <1>1, ReadStarts DEF ReadLeaf
<1>3. /\ stack' \in Seq(CallRecord) /\ Len(stack') = Len(stack) /\ stack' # << >>
      /\ this' = this /\ A' = A
      /\ \A i \in 1 .. Len(stack) :
           /\ This(i)' = This(i) /\ Elt(i)' = Elt(i)
           /\ Left(i)' = IF i = Len(stack) THEN Budget(A) ELSE Left(i)
  <2>1. stack' = SetCall(A, Budget(A))
    BY DEF ReadLeaf, SetMaxSizeToRead
  <2>2. A \in Element \cup {Null} /\ Budget(A) \in 0 .. NoLimit /\ TypeOK /\ A = Elt(Len(stack))
    BY <1>1, <1>2, ReadStarts, Standing
  <2>. QED
    BY <1>2, <2>1, <2>2, ToppedFacts
<1>4. pos' \in Nat
  <2>1. heap[A].Size \in Nat /\ pos \in Nat
    BY <1>2, Standing, HeapType DEF TypeOK
  <2>2. LeafEnd \in Nat /\ Min({StreamEnd, LeafEnd}) \in Nat
    BY <2>1, MinOfTwo, BoundAssumption DEF LeafEnd
  <2>3. \A n \in Nat : Max({pos, n}) \in Nat
    BY <2>1, MaxOfTwo
  <2>. QED
    BY <2>2, <2>3 DEF ReadLeaf
<1>5. PICK set \in BOOLEAN : heap' = [heap EXCEPT ![A].bValueIsSet = set]
  BY DEF ReadLeaf
<1>6. /\ DOMAIN heap' = DOMAIN heap
      /\ \A e \in DOMAIN heap : /\ heap'[e] \in ElementRecord
                                /\ IsAlike(heap[e], heap'[e])
                                /\ heap'[e].ElementList = heap[e].ElementList
  <2>1. \A e \in DOMAIN heap : heap[e] \in ElementRecord
    BY <1>2, Standing DEF TypeOK
  <2>2. ASSUME NEW e \in DOMAIN heap
        PROVE  heap'[e] = IF e = A THEN [heap[e] EXCEPT !.bValueIsSet = set]
                                   ELSE heap[e]
    BY <1>5
  <2>3. ASSUME NEW x \in ElementRecord, NEW v \in BOOLEAN
        PROVE  /\ [x EXCEPT !.bValueIsSet = v] \in ElementRecord
               /\ IsAlike(x, [x EXCEPT !.bValueIsSet = v])
               /\ [x EXCEPT !.bValueIsSet = v].ElementList = x.ElementList
    BY DEF ElementRecord, IsAlike
  <2>. QED
    BY <1>5, <2>1, <2>2, <2>3 DEF IsAlike
<1>7. /\ Owned(heap') /\ AllListed(heap') = AllListed(heap)
      /\ \A e \in DOMAIN heap :
           /\ ClassOf(e)' = ClassOf(e) /\ Position(e)' = Position(e)
           /\ IsFiniteSize(e)' = IsFiniteSize(e)
           /\ DataStart(e)' = DataStart(e) /\ GetEndPosition(e)' = GetEndPosition(e)
           /\ List(e)' = List(e) /\ List(e) \subseteq DOMAIN heap
           /\ IsOrdered(heap, e) => IsOrdered(heap', e)
           /\ IsOfContext(heap, e) => IsOfContext(heap', e)
  BY <1>2, <1>6, AlikeFacts, Standing DEF OwnInv
<1>8. /\ Len(stack) \in Nat \ {0}
      /\ \A i \in 1 .. Len(stack) : This(i) \in DOMAIN heap /\ Elt(i) \in DOMAIN heap
  <2>1. \A i \in 1 .. Len(stack) : This(i) \in DOMAIN heap
    BY <1>2, Standing DEF StackInv
  <2>2. \A i \in 1 .. Len(stack) : i = Len(stack) \/ Elt(i) = This(i + 1)
    BY <1>2, Standing DEF StackInv
  <2>3. Len(stack) \in Nat \ {0} /\ Elt(Len(stack)) = A
    BY <1>2, Standing
  <2>4. \A i \in 1 .. Len(stack) : i = Len(stack) \/ i + 1 \in 1 .. Len(stack)
    BY <2>3
  <2>. QED
    BY <1>2, <2>1, <2>2, <2>3, <2>4
<1>9. TypeOK'
  BY <1>1, <1>2, <1>3, <1>4, <1>6, Standing DEF TypeOK, CallRecord
<1>10. StackInv'
  <2>1. StackInv
    BY <1>2, Standing
  <2>. QED
    BY <1>1, <1>2, <1>3, <1>6, <1>7, <1>8, <2>1 DEF StackInv
<1>11. OwnInv'
  <2>1. OwnInv
    BY <1>2, Standing
  <2>2. \A i \in 1 .. Len(stack) : This(i) \notin AllListed(heap)
    BY <2>1 DEF OwnInv
  <2>3. (\A i \in 1 .. Len(stack) : This(i) \notin AllListed(heap))'
    BY <1>3, <1>7, <2>2
  <2>4. IsLoose(A)
    BY <1>1, <2>1 DEF OwnInv
  <2>5. IsLoose(A)'
    BY <1>3, <1>6, <1>7, <2>4 DEF IsLoose
  <2>6. ~ IsPassing'
    BY <1>1, <1>2, Standing DEF IsPassing
  <2>. QED
    BY <1>7, <2>3, <2>5, <2>6 DEF OwnInv
<1>12. BudgetInv'
  <2>1. ASSUME NEW i \in 1 .. Len(stack), IsFiniteSize(This(i)), IsFiniteSize(Elt(i))
        PROVE  Left(i)' = GetEndPosition(This(i)) - GetEndPosition(Elt(i))
    <3>1. CASE i = Len(stack)
      BY <1>1, <1>2, <1>3, <2>1, <3>1, ReadStarts, Standing
    <3>2. CASE i # Len(stack)
      BY <1>2, <1>3, <2>1, <3>2, Standing DEF BudgetInv, IsReading
    <3>. QED
      BY <3>1, <3>2
  <2>2. \A i \in 1 .. Len(stack) :
          /\ IsFiniteSize(This(i))' = IsFiniteSize(This(i))
          /\ IsFiniteSize(Elt(i))' = IsFiniteSize(Elt(i))
          /\ GetEndPosition(This(i))' = GetEndPosition(This(i))
          /\ GetEndPosition(Elt(i))' = GetEndPosition(Elt(i))
    BY <1>3, <1>7, <1>8 DEF IsFiniteSize, GetEndPosition, DataStart
  <2>. QED
    BY <1>1, <1>3, <2>1, <2>2 DEF BudgetInv, BudgetIsExact
<1>13. OrderInv'
  <2>1. \A e \in Entered' : IsOrdered(heap', e)
    BY <1>1, <1>2, <1>6, <1>7, Standing DEF OrderInv, Entered
  <2>2. \A i \in 1 .. Len(stack) : IsBehind(Position(Elt(i)), This(i))
    BY <1>1, <1>2, Standing DEF OrderInv
  <2>3. ASSUME NEW i \in 1 .. Len(stack)
        PROVE  IsBehind(Position(Elt(i)), This(i))'
    <3>1. /\ Position(Elt(i))' = Position(Elt(i)) /\ Position(This(i))' = Position(This(i))
          /\ List(This(i))' = List(This(i))
          /\ \A c \in List(This(i)) : Position(c)' = Position(c)
      BY <1>3, <1>7, <1>8 DEF Position, List
    <3>. QED
      BY <2>2, <3>1 DEF IsBehind
  <2>4. ~ IsPassing' /\ pc' = "after"
    BY <1>1, <1>2, Standing DEF IsPassing
  <2>. QED
    BY <1>3, <2>1, <2>3, <2>4 DEF OrderInv
<1>14. ContextInv'
  <2>1. \A i \in 1 .. Len(stack) : ClassOf(This(i))' = ClassOf(This(i))
    BY <1>3, <1>7, <1>8 DEF ClassOf
  <2>2. CallsInContext'
    BY <1>2, <1>3, <1>8, <2>1, CallsKept, Standing DEF ContextInv
  <2>3. \A e \in DOMAIN heap' : IsOfContext(heap', e)
    BY <1>2, <1>6, <1>7, Standing DEF ContextInv
  <2>4. ClassOf(A)' = ClassOf(A) /\ ClassOf(this)' = ClassOf(this)
    BY <1>2, <1>3, <1>7, Standing DEF ClassOf
  <2>5. ReadInContext'
    BY <1>1, <1>2, <2>4, Standing DEF ContextInv, ReadInContext, IsPassing
  <2>. QED
    BY <2>2, <2>3, <2>5 DEF ContextInv
<1>15. LossInv'
  BY <1>1, <1>2, <1>3, <1>6, <1>7, Standing DEF LossInv
<1>. QED
  BY <1>9, <1>10, <1>11, <1>12, <1>13, <1>14, <1>15 DEF ReadInv

(* ReadMaster preserves it: a call is made for the element.                *)
LEMMA ReadMasterInv ==
  ASSUME ReadInv, ReadMaster
  PROVE  ReadInv'
<1>1. InLoop /\ pc = "loop" /\ UpperEltFound <= 0 /\ pc' = "enter" /\ ClassOf(A) \in Masters
  BY DEF ReadMaster, InLoop, ClassOf
<1>2. /\ UNCHANGED <<ReadFully, pos, heap, created, UpperEltFound, FoundElt, strayed>>
      /\ stack # << >> /\ A \in DOMAIN heap \ {1}
  BY <1>1, ReadStarts DEF ReadMaster
<1>3. /\ stack' \in Seq(CallRecord) /\ Len(stack') = Len(stack) + 1 /\ stack' # << >>
      /\ this' = A /\ call.MaxSizeToRead' = 0
      /\ This(Len(stack))' = A
      /\ \A i \in 1 .. Len(stack) :
           /\ This(i)' = This(i) /\ Elt(i)' = Elt(i)
           /\ Left(i)' = IF i = Len(stack) THEN Budget(A) ELSE Left(i)
  <2>1. stack' = Append(SetMaxSizeToRead(Budget(A)), Call(A))
    BY DEF ReadMaster
  <2>2. A \in Element /\ Budget(A) \in 0 .. NoLimit /\ TypeOK
    BY <1>1, <1>2, ReadStarts, Standing, HeapType
  <2>. QED
    BY <1>2, <2>1, <2>2, PushFacts
<1>. PICK n \in Nat \ {0} : n = Len(stack)
  BY <1>2, Standing
<1>4. /\ n = Len(stack) /\ n \in 1 .. n /\ this = This(n) /\ A = Elt(n)
      /\ Len(stack') = n + 1 /\ This(n + 1)' = A
      /\ 1 .. Len(stack') = (1 .. n) \cup {n + 1}
  BY <1>2, <1>3, Standing DEF This
<1>5. \A i \in 1 .. n : This(i)' = This(i) /\ Elt(i)' = Elt(i)
  BY <1>3
<1>6. \A i \in 1 .. n : A # This(i)
  BY <1>1, <1>2, Standing DEF OwnInv, IsLoose
<1>7. /\ \A i \in 1 .. n : This(i) \in DOMAIN heap /\ ClassOf(This(i)) \in Masters
      /\ \A i, j \in 1 .. n : i # j => This(i) # This(j)
      /\ \A i \in 1 .. n - 1 : Elt(i) = This(i + 1)
      /\ This(1) = 1
  BY <1>2, Standing DEF StackInv
<1>8. TypeOK'
  BY <1>1, <1>2, <1>3, Standing DEF TypeOK, CallRecord
<1>9. StackInv'
  <2>1. UpperEltFound' = 0
    BY <1>1, <1>2, Standing, ClassAssumption DEF StackInv
  <2>2. \A i \in 1 .. Len(stack') :
           This(i)' \in DOMAIN heap' /\ ClassOf(This(i))' \in Masters
    BY <1>1, <1>2, <1>4, <1>5, <1>7 DEF ClassOf
  <2>3. \A i, j \in 1 .. Len(stack') : i # j => This(i)' # This(j)'
    BY <1>4, <1>5, <1>6, <1>7
  <2>4. ASSUME NEW i \in 1 .. Len(stack') - 1
        PROVE  Elt(i)' = This(i + 1)'
    <3>1. i \in 1 .. n
      BY <1>4
    <3>2. CASE i = n
      BY <1>4, <1>5, <3>2
    <3>3. CASE i # n
      <4>1. i \in 1 .. n - 1 /\ i + 1 \in 1 .. n
        BY <1>4, <3>1, <3>3
      <4>. QED
        BY <1>5, <1>7, <4>1
    <3>. QED
      BY <3>2, <3>3
  <2>5. 1 \in DOMAIN heap' /\ This(1)' = 1
    BY <1>2, <1>4, <1>5, <1>7, Standing DEF StackInv
  <2>. QED
    BY <1>1, <1>3, <2>1, <2>2, <2>3, <2>4, <2>5 DEF StackInv
<1>10. OwnInv'
  <2>1. A \notin AllListed(heap) /\ \A i \in 1 .. n : This(i) \notin AllListed(heap)
    BY <1>1, <1>2, Standing DEF OwnInv, IsLoose
  <2>2. \A i \in 1 .. Len(stack') : This(i)' \notin AllListed(heap)
    BY <1>4, <1>5, <2>1
  <2>. QED
    BY <1>1, <1>2, <2>2, Standing DEF OwnInv, IsPassing
<1>11. BudgetInv'
  <2>1. ASSUME NEW i \in 1 .. Len(stack'), IsReading(i)',
               IsFiniteSize(This(i))', IsFiniteSize(Elt(i))'
        PROVE  Left(i)' = GetEndPosition(This(i))' - GetEndPosition(Elt(i))'
    <3>1. i \in 1 .. n
      BY <1>1, <1>4, <2>1 DEF IsReading
    <3>2. /\ IsFiniteSize(This(i)) /\ IsFiniteSize(Elt(i))
          /\ GetEndPosition(This(i))' = GetEndPosition(This(i))
          /\ GetEndPosition(Elt(i))' = GetEndPosition(Elt(i))
      BY <1>2, <1>5, <2>1, <3>1 DEF IsFiniteSize, GetEndPosition, DataStart
    <3>3. Left(i)' = GetEndPosition(This(i)) - GetEndPosition(Elt(i))
      <4>1. CASE i = n
        BY <1>1, <1>3, <1>4, <3>1, <3>2, <4>1, ReadStarts
      <4>2. CASE i # n
        BY <1>2, <1>3, <1>4, <3>1, <3>2, <4>2, Standing DEF BudgetInv, IsReading
      <4>. QED
        BY <4>1, <4>2
    <3>. QED
      BY <3>2, <3>3
  <2>. QED
    BY <1>1, <2>1 DEF BudgetInv, BudgetIsExact
<1>12. OrderInv'
  <2>1. \A e \in Entered' : IsOrdered(heap', e)
    BY <1>1, <1>2, Standing DEF OrderInv, Entered
  <2>2. ASSUME NEW i \in 1 .. Len(stack'), IsReading(i)'
        PROVE  IsBehind(Position(Elt(i)), This(i))'
    <3>1. i \in 1 .. n
      BY <1>1, <1>4, <2>2 DEF IsReading
    <3>2. IsBehind(Position(Elt(i)), This(i))
      BY <1>1, <1>2, <3>1, Standing DEF OrderInv
    <3>. QED
      BY <1>2, <1>5, <3>1, <3>2 DEF IsBehind, Position, List
  <2>. QED
    BY <1>1, <2>1, <2>2 DEF OrderInv, IsPassing
<1>13. ContextInv'
  <2>. DEFINE c == ClassOf(A)
              m == ClassOf(this)
  <2>1. m \in Masters /\ c \in Masters /\ c \in Children[m]
    <3>1. c \in Children[m] \cup Globals
      BY <1>1, <1>2, Standing DEF ContextInv, ReadInContext
    <3>. QED
      BY <1>1, <1>2, <3>1, Standing, ClassAssumption
  <2>2. Contexts[c] = <<c>> \o Contexts[m] /\ Contexts[m] \in Seq(Masters)
    BY <2>1, ContextAssumption
  <2>3. CallsInContext
    BY <1>2, Standing DEF ContextInv
  <2>4. Len(Contexts[m]) = n /\ \A j \in 1 .. n : Contexts[m][j] = ClassOf(This(n + 1 - j))
    BY <1>4, <2>3 DEF CallsInContext
  <2>5. /\ Len(Contexts[c]) = n + 1 /\ Contexts[c][1] = c
        /\ \A j \in 2 .. n + 1 : Contexts[c][j] = Contexts[m][j - 1]
    <3>1. <<c>> \in Seq(Masters) /\ Len(<<c>>) = 1 /\ <<c>>[1] = c
      BY <2>1
    <3>2. /\ Len(<<c>> \o Contexts[m]) = 1 + n
          /\ \A j \in 1 .. 1 + n : (<<c>> \o Contexts[m])[j] =
                IF j <= 1 THEN <<c>>[j] ELSE Contexts[m][j - 1]
      BY <2>2, <2>4, <3>1, ConcatProperties
    <3>. QED
      BY <1>4, <2>2, <3>1, <3>2
  <2>6. \A i \in 1 .. n : ClassOf(This(i))' = ClassOf(This(i))
    BY <1>2, <1>5 DEF ClassOf
  <2>7. ClassOf(This(n + 1))' = c
    BY <1>2, <1>4 DEF ClassOf
  <2>. HIDE DEF c, m
  <2>8. ASSUME NEW i \in 1 .. n + 1
        PROVE  /\ Len(Contexts[ClassOf(This(i))']) = i
               /\ \A j \in 1 .. i : Contexts[ClassOf(This(i))'][j] = ClassOf(This(i + 1 - j))'
    <3>1. CASE i \in 1 .. n
      <4>1. \A j \in 1 .. i : i + 1 - j \in 1 .. n
        BY <1>4, <3>1
      <4>. QED
        BY <2>3, <2>6, <3>1, <4>1 DEF CallsInContext
    <3>2. CASE i = n + 1
      <4>1. ASSUME NEW j \in 1 .. n + 1
            PROVE  Contexts[c][j] = ClassOf(This(n + 1 + 1 - j))'
        <5>1. CASE j = 1
          <6>1. n + 1 + 1 - j = n + 1
            BY <1>4, <5>1
          <6>. QED
            BY <2>5, <2>7, <5>1, <6>1
        <5>2. CASE j # 1
          <6>1. /\ j \in 2 .. n + 1 /\ j - 1 \in 1 .. n
                /\ n + 1 + 1 - j = n + 1 - (j - 1) /\ n + 1 - (j - 1) \in 1 .. n
            BY <1>4, <5>2
          <6>. QED
            BY <2>4, <2>5, <2>6, <6>1
        <5>. QED
          BY <5>1, <5>2
      <4>. QED
        BY <2>5, <2>7, <3>2, <4>1
    <3>. QED
      BY <1>4, <3>1, <3>2
  <2>9. ASSUME NEW i \in 1 .. n
        PROVE  ClassOf(This(i + 1))' \in Children[ClassOf(This(i))']
    <3>1. CASE i = n
      BY <1>4, <2>1, <2>6, <2>7, <3>1 DEF m
    <3>2. CASE i # n
      <4>1. i \in 1 .. n - 1 /\ i + 1 \in 1 .. n
        BY <1>4, <3>2
      <4>. QED
        BY <2>3, <2>6, <4>1 DEF CallsInContext
    <3>. QED
      BY <3>1, <3>2
  <2>10. CallsInContext'
    <3>1. 1 .. Len(stack') = 1 .. n + 1 /\ 1 .. Len(stack') - 1 = 1 .. n
      BY <1>4
    <3>. QED
      BY <2>8, <2>9, <3>1 DEF CallsInContext
  <2>11. ReadInContext'
    BY <1>1 DEF ReadInContext, IsPassing
  <2>12. \A e \in DOMAIN heap' : IsOfContext(heap', e)
    BY <1>2, Standing DEF ContextInv
  <2>. QED
    BY <2>10, <2>11, <2>12 DEF ContextInv
<1>14. LossInv'
  <2>1. ASSUME ~ strayed
        PROVE  \A e \in DOMAIN heap :
                 \/ e = 1 \/ e \in AllListed(heap)
                 \/ \E i \in 1 .. Len(stack') : e = This(i)'
    <3>1. \A e \in DOMAIN heap :
                 \/ e = 1 \/ e \in AllListed(heap)
                 \/ \E i \in 1 .. n : e = This(i)
                 \/ e = A
      BY <1>1, <1>2, <2>1, Standing DEF LossInv
    <3>. QED
      BY <1>4, <1>5, <3>1
  <2>. QED
    BY <1>1, <1>2, <2>1, Standing DEF LossInv
<1>. QED
  BY <1>8, <1>9, <1>10, <1>11, <1>12, <1>13, <1>14 DEF ReadInv

(* What is left of a heap that is pruned is as it was.                     *)
LEMMA PrunedFacts ==
  ASSUME NEW X, Pruned(heap, heap', X)
  PROVE  /\ Owned(heap') /\ DOMAIN heap' \subseteq DOMAIN heap \ X
         /\ \A e \in DOMAIN heap' :
              /\ e \in DOMAIN heap /\ heap'[e] \in ElementRecord
              /\ ClassOf(e)' = ClassOf(e) /\ Position(e)' = Position(e)
              /\ IsFiniteSize(e)' = IsFiniteSize(e)
              /\ GetEndPosition(e)' = GetEndPosition(e)
              /\ IsOrdered(heap, e) => IsOrdered(heap', e)
              /\ IsOfContext(heap, e) => IsOfContext(heap', e)
              /\ \A p : IsBehind(p, e) => IsBehind(p, e)'
<1>1. \A e \in DOMAIN heap' :
        /\ Lst(heap', e) \subseteq Lst(heap, e) /\ Lst(heap', e) \subseteq DOMAIN heap'
        /\ List(e)' = Lst(heap', e) /\ List(e) = Lst(heap, e)
  BY DEF Pruned, Owned, Lst, List
<1>2. \A e \in DOMAIN heap' :
        /\ ClassOf(e)' = ClassOf(e) /\ Position(e)' = Position(e)
        /\ IsFiniteSize(e)' = IsFiniteSize(e)
        /\ GetEndPosition(e)' = GetEndPosition(e)
  BY DEF Pruned, IsAlike, ClassOf, Position, IsFiniteSize, DataStart, GetEndPosition
<1>3. ASSUME NEW e \in DOMAIN heap', NEW p, IsBehind(p, e)
      PROVE  IsBehind(p, e)'
  BY <1>1, <1>2, <1>3 DEF IsBehind
<1>. QED
  BY <1>1, <1>2, <1>3 DEF Pruned

(* A call leaves, whatever is deleted is not what another call reads.      *)
LEMMA PopInv ==
  ASSUME ReadInv, NEW n \in Nat, n = Len(stack), stack # << >>, stack' = Front(stack),
         NEW X, Pruned(heap, heap', X), \A i \in 1 .. n : This(i) \notin X
  PROVE  /\ stack' \in Seq(CallRecord) /\ Len(stack') = n - 1 /\ n > 0
         /\ stack' = << >> <=> n = 1
         /\ 1 .. Len(stack') = 1 .. n - 1
         /\ 1 \in DOMAIN heap'
         /\ \A i \in 1 .. n : This(i) \in DOMAIN heap'
         /\ \A i, j \in 1 .. n : i # j => This(i) # This(j)
         /\ This(1) = 1
         /\ \A i \in 1 .. n - 1 :
              /\ This(i)' = This(i) /\ Elt(i)' = This(i + 1)
              /\ ClassOf(This(i))' \in Masters
              /\ IsBehind(Position(Elt(i)), This(i))'
              /\ IsFiniteSize(This(i))' /\ IsFiniteSize(Elt(i))' =>
                   Left(i)' = GetEndPosition(This(i))' - GetEndPosition(Elt(i))'
              /\ This(i)' \notin AllListed(heap')
         /\ n # 1 => this' = This(n - 1) /\ A' = This(n)
         /\ CallsInContext'
<1>1. /\ stack' \in Seq(CallRecord) /\ Len(stack') = n - 1 /\ n > 0
      /\ stack' = << >> <=> n = 1
      /\ \A i \in 1 .. n - 1 :
           This(i)' = This(i) /\ Elt(i)' = Elt(i) /\ Left(i)' = Left(i)
      /\ n # 1 => this' = This(n - 1) /\ A' = Elt(n - 1)
  BY Standing, PopFacts
<1>2. /\ 1 \in DOMAIN heap /\ This(1) = 1
      /\ \A i \in 1 .. n : This(i) \in DOMAIN heap /\ ClassOf(This(i)) \in Masters
      /\ \A i, j \in 1 .. n : i # j => This(i) # This(j)
      /\ \A i \in 1 .. n - 1 : Elt(i) = This(i + 1)
      /\ \A i \in 1 .. n : This(i) \notin AllListed(heap)
  BY Standing DEF StackInv, OwnInv
<1>3. \A i \in 1 .. n : This(i) \in DOMAIN heap'
  BY <1>2 DEF Pruned
<1>4. 1 \in DOMAIN heap'
  <2>1. 1 \in 1 .. n
    BY <1>1
  <2>. QED
    BY <1>2, <1>3, <2>1
<1>5. ASSUME NEW i \in 1 .. n - 1
      PROVE  /\ This(i)' = This(i) /\ Elt(i)' = This(i + 1)
             /\ ClassOf(This(i))' \in Masters
             /\ IsBehind(Position(Elt(i)), This(i))'
             /\ IsFiniteSize(This(i))' /\ IsFiniteSize(Elt(i))' =>
                   Left(i)' = GetEndPosition(This(i))' - GetEndPosition(Elt(i))'
             /\ This(i)' \notin AllListed(heap')
  <2>1. i \in 1 .. n /\ i + 1 \in 1 .. n /\ i < n
    BY <1>1
  <2>. PICK m : m = This(i)
    OBVIOUS
  <2>. PICK e : e = This(i + 1)
    OBVIOUS
  <2>2. /\ m \in DOMAIN heap' /\ e \in DOMAIN heap' /\ ClassOf(m) \in Masters
        /\ Elt(i) = e /\ This(i)' = m /\ Elt(i)' = e /\ Left(i)' = Left(i)
        /\ m \notin AllListed(heap)
    BY <1>1, <1>2, <1>3, <2>1
  <2>3. IsBehind(Position(e), m)
    BY <2>1, <2>2, Standing DEF OrderInv, IsReading
  <2>4. IsFiniteSize(m) /\ IsFiniteSize(e) => Left(i) = GetEndPosition(m) - GetEndPosition(e)
    BY <2>1, <2>2, Standing DEF BudgetInv, IsReading
  <2>5. /\ ClassOf(m)' = ClassOf(m)
        /\ IsFiniteSize(m)' = IsFiniteSize(m) /\ GetEndPosition(m)' = GetEndPosition(m)
        /\ IsFiniteSize(e)' = IsFiniteSize(e) /\ GetEndPosition(e)' = GetEndPosition(e)
        /\ Position(e)' = Position(e) /\ \A p : IsBehind(p, m) => IsBehind(p, m)'
    BY <2>2, PrunedFacts
  <2>6. m \notin AllListed(heap')
    BY <2>2 DEF Pruned
  <2>7. ClassOf(This(i))' \in Masters
    BY <2>2, <2>5 DEF ClassOf
  <2>8. IsBehind(Position(Elt(i)), This(i))'
    BY <2>2, <2>3, <2>5 DEF IsBehind, Position, List
  <2>9. IsFiniteSize(This(i))' /\ IsFiniteSize(Elt(i))' =>
          Left(i)' = GetEndPosition(This(i))' - GetEndPosition(Elt(i))'
    BY <2>2, <2>4, <2>5 DEF IsFiniteSize, GetEndPosition, DataStart
  <2>. QED
    BY <2>2, <2>6, <2>7, <2>8, <2>9
<1>6. CallsInContext'
  <2>1. StackInv /\ CallsInContext /\ Len(stack) \in Nat /\ Len(stack') \in Nat
    BY <1>1, Standing DEF ContextInv
  <2>2. \A i \in 1 .. n - 1 : ClassOf(This(i))' = ClassOf(This(i))
    <3>1. \A i \in 1 .. n - 1 : This(i) \in DOMAIN heap' /\ This(i)' = This(i)
      BY <1>1, <1>3
    <3>2. \A e \in DOMAIN heap' : ClassOf(e)' = ClassOf(e)
      BY PrunedFacts
    <3>. QED
      BY <3>1, <3>2 DEF ClassOf
  <2>. QED
    BY <1>1, <2>1, <2>2, CallsKept
<1>. QED
  BY <1>1, <1>2, <1>3, <1>4, <1>5, <1>6

(* A call returns to the one that made it, which has read its element.     *)
LEMMA ReturnedInv ==
  ASSUME ReadInv, pc = "processCrc", Returned, Pruned(heap, heap', {}),
         UNCHANGED <<ReadFully, pos, created, UpperEltFound, FoundElt, strayed>>
  PROVE  ReadInv'
<1>. stack # << >> /\ stack' = Front(stack)
  BY DEF ReadInv, StackInv, Returned
<1>. PICK n \in Nat : n = Len(stack)
  BY Standing
<1>1. /\ stack' \in Seq(CallRecord) /\ Len(stack') = n - 1 /\ n > 0
      /\ stack' = << >> <=> n = 1
      /\ 1 .. Len(stack') = 1 .. n - 1
      /\ 1 \in DOMAIN heap'
      /\ \A i \in 1 .. n : This(i) \in DOMAIN heap'
      /\ \A i, j \in 1 .. n : i # j => This(i) # This(j)
      /\ This(1) = 1
      /\ \A i \in 1 .. n - 1 :
           /\ This(i)' = This(i) /\ Elt(i)' = This(i + 1)
           /\ ClassOf(This(i))' \in Masters
           /\ IsBehind(Position(Elt(i)), This(i))'
           /\ IsFiniteSize(This(i))' /\ IsFiniteSize(Elt(i))' =>
                Left(i)' = GetEndPosition(This(i))' - GetEndPosition(Elt(i))'
           /\ This(i)' \notin AllListed(heap')
      /\ n # 1 => this' = This(n - 1) /\ A' = This(n)
      /\ CallsInContext'
  BY PopInv
<1>2. /\ pc' = IF n = 1 THEN "returned" ELSE "after"
      /\ UNCHANGED <<ReadFully, pos, created, UpperEltFound, FoundElt, strayed>>
  BY DEF Returned
<1>3. /\ Owned(heap') /\ DOMAIN heap' \subseteq DOMAIN heap
      /\ \A e \in DOMAIN heap' :
           /\ heap'[e] \in ElementRecord
           /\ ClassOf(e)' = ClassOf(e) /\ Position(e)' = Position(e)
           /\ IsOrdered(heap, e) => IsOrdered(heap', e)
           /\ IsOfContext(heap, e) => IsOfContext(heap', e)
  BY PrunedFacts
<1>4. IsPassing' => IsPassing /\ pc # "after"
  BY <1>2 DEF IsPassing
<1>5. IsPassing => /\ FoundElt \in DOMAIN heap' \ {1} /\ FoundElt \notin AllListed(heap')
                   /\ \A i \in 1 .. n : FoundElt # This(i)
                   /\ Position(FoundElt)' = Position(FoundElt)
                   /\ ClassOf(FoundElt)' = ClassOf(FoundElt)
  <2>1. IsPassing => IsLoose(FoundElt)
    BY Standing DEF OwnInv
  <2>2. ASSUME IsPassing
        PROVE  FoundElt \in DOMAIN heap' \ {1} /\ FoundElt \notin AllListed(heap')
    BY <2>1, <2>2 DEF IsLoose, Pruned
  <2>3. FoundElt' = FoundElt
    BY <1>2
  <2>4. ASSUME IsPassing
        PROVE  /\ Position(FoundElt)' = Position(FoundElt)
               /\ ClassOf(FoundElt)' = ClassOf(FoundElt)
    BY <1>3, <2>2, <2>3, <2>4 DEF Position, ClassOf
  <2>. QED
    BY <2>1, <2>2, <2>4 DEF IsLoose
<1>6. \A i \in 1 .. n : This(i) \notin AllListed(heap')
  <2>1. \A i \in 1 .. n : This(i) \notin AllListed(heap)
    BY Standing DEF OwnInv
  <2>. QED
    BY <2>1 DEF Pruned
<1>7. TypeOK'
  <2>1. TypeOK
    BY Standing
  <2>. QED
    BY <1>1, <1>2, <1>3, <2>1 DEF TypeOK, CallRecord
<1>8. StackInv'
  <2>1. StackInv
    BY Standing
  <2>2. \A i \in 1 .. n - 1 : i \in 1 .. n
    BY <1>1
  <2>3. \A i \in 1 .. Len(stack') : This(i)' \in DOMAIN heap' /\ ClassOf(This(i))' \in Masters
    BY <1>1, <2>2
  <2>4. \A i, j \in 1 .. Len(stack') : i # j => This(i)' # This(j)'
    BY <1>1, <2>2
  <2>5. \A i \in 1 .. Len(stack') - 1 : Elt(i)' = This(i + 1)'
    <3>1. \A i \in 1 .. Len(stack') - 1 : i \in 1 .. n - 1 /\ i + 1 \in 1 .. n - 1
      BY <1>1
    <3>. QED
      BY <1>1, <3>1
  <2>6. stack' # << >> => This(1)' = 1
    <3>1. n # 1 => 1 \in 1 .. n - 1
      BY <1>1
    <3>. QED
      BY <1>1, <3>1
  <2>7. stack' = << >> <=> pc' \in {"returned", "thrown"}
    BY <1>1, <1>2
  <2>8. pc' \notin {"enter", "find", "throw", "loop"}
    BY <1>2
  <2>. QED
    BY <1>1, <2>3, <2>4, <2>5, <2>6, <2>7, <2>8 DEF StackInv
<1>9. OwnInv'
  <2>1. \A i \in 1 .. Len(stack') : This(i)' \notin AllListed(heap')
    BY <1>1
  <2>2. \A i \in 1 .. n - 1 : i \in 1 .. n
    BY <1>1
  <2>3. ASSUME pc' \in {"loop", "after", "throw"}
        PROVE  IsLoose(A)'
    <3>1. n # 1 /\ A' = This(n) /\ n \in 1 .. n /\ 1 \in 1 .. n
      BY <1>1, <1>2, <2>3
    <3>2. \A i \in 1 .. Len(stack') : A' # This(i)'
      <4>1. \A i \in 1 .. n - 1 : i # n
        BY <1>1
      <4>. QED
        BY <1>1, <2>2, <3>1, <4>1
    <3>3. A' \in DOMAIN heap' \ {1}
      BY <1>1, <3>1
    <3>. QED
      BY <1>6, <3>1, <3>2, <3>3 DEF IsLoose
  <2>4. ASSUME IsPassing'
        PROVE  IsLoose(FoundElt)' /\ (pc' = "after" => FoundElt' # A')
    <3>1. IsPassing /\ FoundElt' = FoundElt
      BY <1>2, <1>4, <2>4
    <3>2. /\ FoundElt \in DOMAIN heap' \ {1} /\ FoundElt \notin AllListed(heap')
          /\ \A i \in 1 .. n : FoundElt # This(i)
      BY <1>5, <3>1
    <3>3. \A i \in 1 .. Len(stack') : FoundElt' # This(i)'
      BY <1>1, <2>2, <3>1, <3>2
    <3>4. pc' = "after" => FoundElt' # A'
      <4>1. n \in 1 .. n
        BY <1>1
      <4>. QED
        BY <1>1, <1>2, <3>1, <3>2, <4>1
    <3>. QED
      BY <3>1, <3>2, <3>3, <3>4 DEF IsLoose
  <2>. QED
    BY <1>3, <2>1, <2>3, <2>4 DEF OwnInv
<1>10. BudgetInv'
  BY <1>1, <1>2 DEF BudgetInv, BudgetIsExact
<1>11. OrderInv'
  <2>1. \A e \in Entered' : IsOrdered(heap', e)
    BY <1>2, <1>3, Standing DEF OrderInv, Entered
  <2>2. \A i \in 1 .. Len(stack') : IsBehind(Position(Elt(i)), This(i))'
    BY <1>1
  <2>3. ASSUME IsPassing', pc' = "after"
        PROVE  Position(FoundElt)' > Position(A)'
    <3>1. IsPassing /\ n # 1 /\ A' = This(n) /\ n \in 1 .. n
      BY <1>1, <1>2, <1>4, <2>3
    <3>2. Position(FoundElt) > Position(this) /\ this = This(n)
      BY <3>1, Standing DEF OrderInv
    <3>3. Position(A)' = Position(This(n))
      BY <1>1, <1>3, <3>1 DEF Position
    <3>. QED
      BY <1>5, <3>1, <3>2, <3>3
  <2>. QED
    BY <1>2, <2>1, <2>2, <2>3 DEF OrderInv
<1>12. ContextInv'
  <2>1. \A e \in DOMAIN heap' : IsOfContext(heap', e)
    BY <1>3, Standing DEF ContextInv
  <2>2. ASSUME pc' = "after"
        PROVE  ClassOf(A)' \in Children[ClassOf(this)']
    <3>1. n # 1 /\ A' = This(n) /\ this' = This(n - 1)
      BY <1>1, <1>2, <2>2
    <3>2. n \in 1 .. n /\ n - 1 \in 1 .. n - 1 /\ n - 1 \in 1 .. n /\ n - 1 + 1 = n
      BY <1>1, <3>1
    <3>3. ClassOf(This(n)) \in Children[ClassOf(This(n - 1))]
      BY <3>2, Standing DEF ContextInv, CallsInContext
    <3>4. ClassOf(A)' = ClassOf(This(n)) /\ ClassOf(this)' = ClassOf(This(n - 1))
      BY <1>1, <1>3, <3>1, <3>2 DEF ClassOf
    <3>. QED
      BY <3>3, <3>4
  <2>3. ASSUME IsPassing', pc' = "after"
        PROVE  IsChildOf(ClassOf(FoundElt), Len(stack) + 1 - UpperEltFound)'
    <3>1. IsPassing /\ n # 1 /\ FoundElt' = FoundElt /\ UpperEltFound' = UpperEltFound
      BY <1>2, <1>4, <2>3
    <3>. PICK k \in Int : k = n - UpperEltFound
      BY Standing
    <3>2. IsChildOf(ClassOf(FoundElt), k)
      BY <3>1, Standing DEF ContextInv, ReadInContext
    <3>3. Len(stack') + 1 - UpperEltFound' = k /\ k < n
      BY <1>1, <3>1, Standing DEF IsPassing
    <3>4. ASSUME k >= 1
          PROVE  ClassOf(FoundElt)' \in Children[ClassOf(This(k))']
      <4>1. k \in 1 .. n - 1 /\ k \in 1 .. n
        BY <1>1, <3>3, <3>4
      <4>2. ClassOf(This(k))' = ClassOf(This(k))
        BY <1>1, <1>3, <4>1 DEF ClassOf
      <4>. QED
        BY <1>5, <3>1, <3>2, <3>4, <4>2 DEF IsChildOf
    <3>. QED
      BY <3>3, <3>4 DEF IsChildOf
  <2>4. ReadInContext'
    BY <1>2, <2>2, <2>3 DEF ReadInContext
  <2>. QED
    BY <1>1, <2>1, <2>4 DEF ContextInv
<1>13. LossInv'
  <2>1. ASSUME ~ strayed, NEW e \in DOMAIN heap', e # 1, e \notin AllListed(heap')
        PROVE  \/ \E i \in 1 .. Len(stack') : e = This(i)'
               \/ pc' \in {"loop", "after", "throw"} /\ e = A'
    <3>1. e \in DOMAIN heap /\ e \notin AllListed(heap)
      BY <2>1 DEF Pruned
    <3>2. PICK i \in 1 .. n : e = This(i)
      BY <2>1, <3>1, Standing DEF LossInv
    <3>3. CASE i \in 1 .. n - 1
      BY <1>1, <3>2, <3>3
    <3>4. CASE i = n
      BY <1>1, <1>2, <2>1, <3>2, <3>4
    <3>. QED
      BY <1>1, <3>3, <3>4
  <2>. QED
    BY <1>2, <2>1, Standing DEF LossInv
<1>. QED
  BY <1>7, <1>8, <1>9, <1>10, <1>11, <1>12, <1>13 DEF ReadInv

(* A heap that stays as it is.                                             *)
LEMMA NothingPruned ==
  ASSUME NEW h, Owned(h), \A e \in DOMAIN h : h[e] \in ElementRecord
  PROVE  Pruned(h, h, {})
BY DEF Pruned, IsAlike

(* A checksum leaves the list, and is deleted.                             *)
LEMMA ChecksumPruned ==
  ASSUME NEW h, Owned(h), \A e \in DOMAIN h : h[e] \in ElementRecord,
         NEW m \in DOMAIN h, NEW i \in DOMAIN h[m].ElementList
  PROVE  Pruned(h, Delete([h EXCEPT ![m].bChecksumUsed = TRUE,
                                    ![m].ElementList = RemoveAt(h[m].ElementList, i)],
                          {h[m].ElementList[i]}), {})
<1>. DEFINE l == h[m].ElementList
            r == RemoveAt(l, i)
            x == l[i]
            k == [h EXCEPT ![m].bChecksumUsed = TRUE, ![m].ElementList = r]
            g == Delete(k, {x})
<1>1. h[m] \in ElementRecord /\ l \in Seq(Element) /\ IsInjective(l) /\ x \in Lst(h, m)
  BY DEF ElementRecord, Owned, Lst, Range
<1>20. i \in DOMAIN l
  OBVIOUS
<1>2. /\ r \in Seq(Element) /\ DOMAIN r = 1 .. Len(l) - 1
      /\ \A j \in DOMAIN r : r[j] = IF j < i THEN l[j] ELSE l[j + 1]
      /\ IsInjective(r) /\ Range(r) = Range(l) \ {x}
  <2>. HIDE DEF l
  <2>. QED
    BY <1>1, <1>20, RemoveFacts
<1>3. Len(l) \in Nat /\ DOMAIN l = 1 .. Len(l) /\ i \in 1 .. Len(l)
  BY <1>1
<1>. HIDE DEF l, r, x
<1>4. /\ DOMAIN k = DOMAIN h
      /\ k[m] = [h[m] EXCEPT !.bChecksumUsed = TRUE, !.ElementList = r]
      /\ \A e \in DOMAIN h \ {m} : k[e] = h[e]
  BY <1>1
<1>. HIDE DEF k
<1>5. /\ k[m] \in ElementRecord /\ IsAlike(h[m], k[m]) /\ k[m].ElementList = r
  BY <1>1, <1>2, <1>4 DEF ElementRecord, IsAlike
<1>6. \A e \in DOMAIN h :
        /\ k[e] \in ElementRecord /\ IsAlike(h[e], k[e])
        /\ Lst(k, e) = IF e = m THEN Lst(h, e) \ {x} ELSE Lst(h, e)
        /\ e # m => k[e].ElementList = h[e].ElementList
  BY <1>2, <1>4, <1>5 DEF Lst, IsAlike, l
<1>7. Owned(k) /\ AllListed(k) = (AllListed(h) \ Lst(h, m)) \cup (Lst(h, m) \ {x})
  <2>1. /\ DOMAIN k = DOMAIN h /\ IsInjective(k[m].ElementList)
        /\ \A e \in DOMAIN h \ {m} : k[e].ElementList = h[e].ElementList
        /\ Lst(k, m) = Lst(h, m) \ {x}
    BY <1>2, <1>4, <1>5, <1>6
  <2>2. Lst(k, m) \subseteq Lst(h, m) \cup (DOMAIN h \ (AllListed(h) \cup {1}))
    BY <2>1
  <2>3. Owned(k) /\ AllListed(k) = (AllListed(h) \ Lst(h, m)) \cup Lst(k, m)
    BY <2>1, <2>2, ListFacts
  <2>. QED
    BY <2>1, <2>3
<1>8. \A e \in DOMAIN h : Lst(h, e) \subseteq DOMAIN h
  BY DEF Owned
<1>9. \A e \in DOMAIN h : /\ IsAlike(h[e], k[e]) /\ EndOf(k, e) = EndOf(h, e)
  BY <1>6 DEF IsAlike, EndOf
<1>10. ASSUME NEW e \in DOMAIN h, IsOrdered(h, e)
       PROVE  IsOrdered(k, e)
  <2>1. \A c \in Lst(k, e) :
          /\ k[c].ElementPosition > k[e].ElementPosition
          /\ k[e].bSizeIsFinite /\ k[c].bSizeIsFinite => EndOf(k, c) <= EndOf(k, e)
    <3>1. SUFFICES ASSUME NEW c \in Lst(k, e)
                   PROVE  /\ k[c].ElementPosition > k[e].ElementPosition
                          /\ k[e].bSizeIsFinite /\ k[c].bSizeIsFinite =>
                               EndOf(k, c) <= EndOf(k, e)
      OBVIOUS
    <3>2. c \in Lst(h, e) /\ c \in DOMAIN h
      BY <1>6, <1>8
    <3>. QED
      BY <1>9, <1>10, <3>2 DEF IsOrdered, IsAlike
  <2>2. ASSUME NEW a \in DOMAIN k[e].ElementList, NEW b \in DOMAIN k[e].ElementList, a < b
        PROVE  k[k[e].ElementList[a]].ElementPosition < k[k[e].ElementList[b]].ElementPosition
    <3>1. \A c \in DOMAIN h[e].ElementList : h[e].ElementList[c] \in DOMAIN h
      BY <1>8 DEF Lst, Range
    <3>2. CASE e # m
      BY <1>6, <1>9, <1>10, <2>2, <3>1, <3>2 DEF IsOrdered, IsAlike
    <3>3. CASE e = m
      <4>. DEFINE at(c) == IF c < i THEN c ELSE c + 1
      <4>1. a \in DOMAIN r /\ b \in DOMAIN r
        BY <1>5, <2>2, <3>3
      <4>2. /\ at(a) \in DOMAIN l /\ at(b) \in DOMAIN l /\ at(a) < at(b)
        BY <1>2, <1>3, <2>2, <4>1
      <4>3. r[a] = l[at(a)] /\ r[b] = l[at(b)]
        BY <1>2, <4>1
      <4>. HIDE DEF at
      <4>4. h[l[at(a)]].ElementPosition < h[l[at(b)]].ElementPosition
        BY <1>10, <3>3, <4>2 DEF IsOrdered, l
      <4>5. l[at(a)] \in DOMAIN h /\ l[at(b)] \in DOMAIN h
        BY <3>1, <3>3, <4>2 DEF l
      <4>. QED
        BY <1>5, <1>9, <3>3, <4>3, <4>4, <4>5 DEF IsAlike
    <3>. QED
      BY <3>2, <3>3
  <2>. QED
    BY <2>1, <2>2 DEF IsOrdered
<1>11. ASSUME NEW e \in DOMAIN h, IsOfContext(h, e)
       PROVE  IsOfContext(k, e)
  BY <1>6, <1>8, <1>9, <1>11 DEF IsOfContext, IsAlike
<1>12. Pruned(k, g, {x})
  <2>1. {x} \cap AllListed(k) = {}
    BY <1>1, <1>7
  <2>2. \A e \in DOMAIN k : k[e] \in ElementRecord
    BY <1>4, <1>6
  <2>. QED
    BY <1>7, <2>1, <2>2, DeletePrunes
<1>. HIDE DEF g
<1>13. Pruned(h, g, {})
  <2>1. DOMAIN g \subseteq DOMAIN h \ {x} /\ DOMAIN k = DOMAIN h
    BY <1>4, <1>12 DEF Pruned
  <2>2. ASSUME NEW e \in DOMAIN g
        PROVE  /\ g[e] \in ElementRecord /\ IsAlike(h[e], g[e])
               /\ Lst(g, e) \subseteq Lst(h, e)
               /\ IsOrdered(h, e) => IsOrdered(g, e)
               /\ IsOfContext(h, e) => IsOfContext(g, e)
    <3>1. e \in DOMAIN h
      BY <2>1
    <3>2. /\ g[e] \in ElementRecord /\ IsAlike(k[e], g[e])
          /\ Lst(g, e) \subseteq Lst(k, e)
          /\ IsOrdered(k, e) => IsOrdered(g, e)
          /\ IsOfContext(k, e) => IsOfContext(g, e)
      BY <1>12 DEF Pruned
    <3>. QED
      BY <1>6, <1>9, <1>10, <1>11, <3>1, <3>2 DEF IsAlike
  <2>3. \A e \in DOMAIN h : e \notin AllListed(h) => e \in DOMAIN g
    <3>1. x \in AllListed(h) /\ Lst(h, m) \subseteq AllListed(h)
      BY <1>1 DEF AllListed
    <3>2. \A e \in DOMAIN k \ {x} : e \notin AllListed(k) => e \in DOMAIN g
      BY <1>12 DEF Pruned
    <3>. QED
      BY <1>7, <2>1, <3>1, <3>2
  <2>4. \A e \in DOMAIN g : e \in AllListed(h) => e \in AllListed(g)
    BY <1>7, <1>12, <2>1 DEF Pruned
  <2>5. AllListed(g) \subseteq AllListed(h)
    <3>1. Lst(h, m) \subseteq AllListed(h)
      BY DEF AllListed
    <3>. QED
      BY <1>7, <1>12, <3>1 DEF Pruned
  <2>6. Owned(g)
    BY <1>12 DEF Pruned
  <2>. QED
    BY <2>1, <2>2, <2>3, <2>4, <2>5, <2>6 DEF Pruned
<1>. QED
  BY <1>13 DEF g, k, r, x, l

(* NoChecksum preserves it.                                                *)
LEMMA NoChecksumInv ==
  ASSUME ReadInv, NoChecksum
  PROVE  ReadInv'
<1>1. pc = "processCrc" /\ Returned /\ heap' = heap
      /\ UNCHANGED <<ReadFully, pos, created, UpperEltFound, FoundElt, strayed>>
  BY DEF NoChecksum
<1>2. Owned(heap) /\ \A e \in DOMAIN heap : heap[e] \in ElementRecord
  BY DEF ReadInv, OwnInv, TypeOK
<1>3. Pruned(heap, heap', {})
  BY <1>1, <1>2, NothingPruned
<1>. QED
  BY <1>1, <1>3, ReturnedInv

(* TakeChecksum preserves it: a list loses an element, which is deleted.   *)
LEMMA TakeChecksumInv ==
  ASSUME ReadInv, TakeChecksum
  PROVE  ReadInv'
<1>. DEFINE i == Min(Checksums)
            l == heap[this].ElementList
<1>1. /\ pc = "processCrc" /\ Returned /\ Checksums # {}
      /\ UNCHANGED <<ReadFully, pos, created, UpperEltFound, FoundElt, strayed>>
      /\ heap' = Delete([heap EXCEPT ![this].bChecksumUsed = TRUE,
                                     ![this].ElementList = RemoveAt(l, i)], {l[i]})
  BY DEF TakeChecksum
<1>2. Owned(heap) /\ (\A e \in DOMAIN heap : heap[e] \in ElementRecord) /\ stack # << >>
  BY <1>1 DEF ReadInv, OwnInv, TypeOK, StackInv
<1>3. this \in DOMAIN heap /\ l \in Seq(Element)
  BY <1>2, Standing DEF ElementRecord
<1>4. i \in DOMAIN l
  <2>1. Checksums \subseteq DOMAIN l /\ DOMAIN l \subseteq Nat
    BY <1>3 DEF Checksums
  <2>. QED
    BY <1>1, <2>1, MinOfNaturals
<1>. HIDE DEF i
<1>5. Pruned(heap, heap', {})
  BY <1>1, <1>2, <1>3, <1>4, ChecksumPruned
<1>. QED
  BY <1>1, <1>5, ReturnedInv

(* The levels are integers.                                                *)
LEMMA ZeroIsLevel == 0 \in Level /\ Level \subseteq Int
<1>1. \A m \in Masters : Len(Contexts[m]) \in Nat
  BY ContextAssumption
<1>2. 0 \in 0 .. Len(Contexts[Root])
  BY <1>1, ClassAssumption
<1>. QED
  BY <1>1, <1>2, ClassAssumption DEF Level

(* Unwind preserves it: the element being read is deleted.                 *)
LEMMA UnwindInv ==
  ASSUME ReadInv, Unwind
  PROVE  ReadInv'
<1>1. pc = "throw" /\ stack # << >> /\ stack' = Front(stack)
  BY DEF ReadInv, StackInv, Unwind
<1>. PICK n \in Nat : n = Len(stack)
  BY <1>1, Standing
<1>. PICK a : a = A
  OBVIOUS
<1>2. a \in DOMAIN heap \ {1} /\ a \notin AllListed(heap) /\ \A i \in 1 .. n : This(i) # a
  BY <1>1, Standing DEF OwnInv, IsLoose
<1>3. Pruned(heap, heap', {a})
  <2>1. Owned(heap) /\ \A e \in DOMAIN heap : heap[e] \in ElementRecord
    BY <1>1, Standing DEF OwnInv, TypeOK
  <2>. QED
    BY <1>2, <2>1, DeletePrunes DEF Unwind
<1>4. /\ stack' \in Seq(CallRecord) /\ Len(stack') = n - 1 /\ n > 0
      /\ stack' = << >> <=> n = 1
      /\ 1 .. Len(stack') = 1 .. n - 1
      /\ 1 \in DOMAIN heap'
      /\ \A i \in 1 .. n : This(i) \in DOMAIN heap'
      /\ \A i, j \in 1 .. n : i # j => This(i) # This(j)
      /\ This(1) = 1
      /\ \A i \in 1 .. n - 1 :
           /\ This(i)' = This(i) /\ Elt(i)' = This(i + 1)
           /\ ClassOf(This(i))' \in Masters
           /\ IsBehind(Position(Elt(i)), This(i))'
           /\ IsFiniteSize(This(i))' /\ IsFiniteSize(Elt(i))' =>
                Left(i)' = GetEndPosition(This(i))' - GetEndPosition(Elt(i))'
           /\ This(i)' \notin AllListed(heap')
      /\ n # 1 => this' = This(n - 1) /\ A' = This(n)
      /\ CallsInContext'
  <2>1. \A i \in 1 .. n : This(i) \notin {a}
    BY <1>2
  <2>. QED
    BY <1>1, <1>3, <2>1, PopInv
<1>5. /\ pc' = IF n = 1 THEN "thrown" ELSE "throw"
      /\ UNCHANGED <<ReadFully, pos, created, strayed>>
      /\ UpperEltFound' \in {0, UpperEltFound} /\ FoundElt' \in {Null, FoundElt}
  BY DEF Unwind
<1>6. /\ Owned(heap') /\ DOMAIN heap' \subseteq DOMAIN heap \ {a}
      /\ \A e \in DOMAIN heap' :
           /\ heap'[e] \in ElementRecord
           /\ IsOrdered(heap, e) => IsOrdered(heap', e)
           /\ IsOfContext(heap, e) => IsOfContext(heap', e)
  BY <1>3, PrunedFacts
<1>7. UpperEltFound' \in Int /\ UpperEltFound' <= 0
  BY <1>1, <1>5, Standing DEF StackInv
<1>8. TypeOK'
  <2>1. TypeOK
    BY <1>1, Standing
  <2>. QED
    BY <1>4, <1>5, <1>6, <2>1, ZeroIsLevel DEF TypeOK, CallRecord
<1>9. StackInv'
  <2>2. \A i \in 1 .. n - 1 : i \in 1 .. n
    BY <1>4
  <2>3. \A i \in 1 .. Len(stack') : This(i)' \in DOMAIN heap' /\ ClassOf(This(i))' \in Masters
    BY <1>4, <2>2
  <2>4. \A i, j \in 1 .. Len(stack') : i # j => This(i)' # This(j)'
    BY <1>4, <2>2
  <2>5. \A i \in 1 .. Len(stack') - 1 : Elt(i)' = This(i + 1)'
    <3>1. \A i \in 1 .. Len(stack') - 1 : i \in 1 .. n - 1 /\ i + 1 \in 1 .. n - 1
      BY <1>4
    <3>. QED
      BY <1>4, <3>1
  <2>6. stack' # << >> => This(1)' = 1
    <3>1. n # 1 => 1 \in 1 .. n - 1
      BY <1>4
    <3>. QED
      BY <1>4, <3>1
  <2>7. stack' = << >> <=> pc' \in {"returned", "thrown"}
    BY <1>4, <1>5
  <2>8. pc' \notin {"enter", "find", "loop"}
    BY <1>5
  <2>. QED
    BY <1>4, <1>7, <2>3, <2>4, <2>5, <2>6, <2>7, <2>8 DEF StackInv
<1>10. OwnInv'
  <2>1. \A i \in 1 .. Len(stack') : This(i)' \notin AllListed(heap')
    BY <1>4
  <2>2. \A i \in 1 .. n : This(i) \notin AllListed(heap')
    <3>1. \A i \in 1 .. n : This(i) \notin AllListed(heap)
      BY <1>1, Standing DEF OwnInv
    <3>. QED
      BY <1>3, <3>1 DEF Pruned
  <2>3. ASSUME pc' \in {"loop", "after", "throw"}
        PROVE  IsLoose(A)'
    <3>1. n # 1 /\ A' = This(n) /\ n \in 1 .. n /\ 1 \in 1 .. n
      BY <1>4, <1>5, <2>3
    <3>2. \A i \in 1 .. Len(stack') : A' # This(i)'
      <4>1. \A i \in 1 .. n - 1 : i # n /\ i \in 1 .. n
        BY <1>4
      <4>. QED
        BY <1>4, <3>1, <4>1
    <3>3. A' \in DOMAIN heap' \ {1}
      BY <1>4, <3>1
    <3>. QED
      BY <2>2, <3>1, <3>2, <3>3 DEF IsLoose
  <2>4. ~ IsPassing'
    BY <1>5 DEF IsPassing
  <2>. QED
    BY <1>6, <2>1, <2>3, <2>4 DEF OwnInv
<1>11. BudgetInv'
  BY <1>4, <1>5 DEF BudgetInv, BudgetIsExact
<1>12. OrderInv'
  <2>1. \A e \in Entered' : IsOrdered(heap', e)
    BY <1>1, <1>5, <1>6, Standing DEF OrderInv, Entered
  <2>2. \A i \in 1 .. Len(stack') : IsBehind(Position(Elt(i)), This(i))'
    BY <1>4
  <2>. QED
    BY <1>5, <2>1, <2>2 DEF OrderInv, IsPassing
<1>13. ContextInv'
  <2>1. \A e \in DOMAIN heap' : IsOfContext(heap', e)
    BY <1>1, <1>6, Standing DEF ContextInv
  <2>2. ReadInContext'
    BY <1>5 DEF ReadInContext, IsPassing
  <2>. QED
    BY <1>4, <2>1, <2>2 DEF ContextInv
<1>14. LossInv'
  <2>1. ASSUME ~ strayed, NEW e \in DOMAIN heap', e # 1, e \notin AllListed(heap')
        PROVE  \/ \E i \in 1 .. Len(stack') : e = This(i)'
               \/ pc' \in {"loop", "after", "throw"} /\ e = A'
    <3>1. e \in DOMAIN heap /\ e \notin AllListed(heap) /\ e # a
      BY <1>3, <1>6, <2>1 DEF Pruned
    <3>2. PICK i \in 1 .. n : e = This(i)
      BY <1>1, <2>1, <3>1, Standing DEF LossInv
    <3>3. CASE i \in 1 .. n - 1
      BY <1>4, <3>2, <3>3
    <3>4. CASE i = n
      BY <1>4, <1>5, <2>1, <3>2, <3>4
    <3>. QED
      BY <1>4, <3>3, <3>4
  <2>2. ~ strayed => FoundElt' = Null
    BY <1>1, <1>5, Standing DEF LossInv
  <2>. QED
    BY <1>5, <1>7, <2>1, <2>2 DEF LossInv
<1>. QED
  BY <1>8, <1>9, <1>10, <1>11, <1>12, <1>13, <1>14 DEF ReadInv

(* An element that is u levels up is a child of the master u calls below:  *)
(* the level that EbmlElement::FindNextElement counts is that of a call.   *)
LEMMA LevelFacts ==
  ASSUME ReadInv, stack # << >>, NEW class \in Class,
         NEW level \in LevelOf(ClassOf(this), class)
  PROVE  /\ level \in Level
         /\ level < 0 => class \in Leaves
         /\ level <= 0 => class \in Children[ClassOf(this)] \cup Globals
         /\ level > 0 => IsChildOf(class, Len(stack) - level)
<1>. PICK n \in Nat \ {0} : n = Len(stack)
  BY Standing
<1>. PICK m \in Masters : m = ClassOf(this)
  BY Standing
<1>1. CallsInContext /\ this = This(n)
  BY Standing DEF ContextInv
<1>2. /\ Len(Contexts[m]) = n /\ DOMAIN Contexts[m] = 1 .. n
      /\ \A i \in 1 .. n : Contexts[m][i] = ClassOf(This(n + 1 - i))
      /\ Contexts[m][1] = m
  <2>1. Contexts[m] \in Seq(Masters) /\ Contexts[m][1] = m
    BY ContextAssumption
  <2>2. n \in 1 .. n
    OBVIOUS
  <2>3. /\ Len(Contexts[m]) = n
        /\ \A j \in 1 .. n : Contexts[m][j] = ClassOf(This(n + 1 - j))
    BY <1>1, <2>2 DEF CallsInContext
  <2>4. DOMAIN Contexts[m] = 1 .. n
    BY <2>1, <2>3
  <2>. QED
    BY <2>1, <2>3, <2>4
<1>3. Level = {-1} \cup UNION {0 .. Len(Contexts[c]) : c \in Masters} /\ 0 .. n \subseteq Level
  BY <1>2 DEF Level
<1>4. CASE class \in Globals
  <2>1. level = -1
    BY <1>4 DEF LevelOf
  <2>. QED
    BY <1>3, <1>4, <2>1, ClassAssumption
<1>5. CASE class \notin Globals
  <2>. DEFINE knows == {i \in DOMAIN Contexts[m] : IsKnown(Contexts[m][i], class)}
  <2>1. knows # {} /\ level = IF class \in Children[Contexts[m][Min(knows)]]
                              THEN Min(knows) - 1 ELSE Min(knows)
    BY <1>5 DEF LevelOf
  <2>2. knows \subseteq 1 .. n /\ knows \in SUBSET Nat
    BY <1>2
  <2>. PICK i \in knows : i = Min(knows)
    BY <2>1, <2>2, MinOfNaturals
  <2>3. i \in 1 .. n /\ IsKnown(Contexts[m][i], class)
    BY <2>2
  <2>. HIDE DEF knows
  <2>4. CASE class \in Children[Contexts[m][i]]
    <3>1. level = i - 1 /\ level \in 0 .. n
      BY <2>1, <2>3, <2>4
    <3>2. level = 0 => class \in Children[m]
      BY <1>2, <2>3, <2>4, <3>1
    <3>3. n - level = n + 1 - i
      BY <2>3, <3>1
    <3>4. class \in Children[ClassOf(This(n - level))]
      BY <1>2, <2>3, <2>4, <3>3
    <3>5. IsChildOf(class, Len(stack) - level) /\ ~ (level < 0) /\ level \in Level
      BY <1>3, <3>1, <3>4 DEF IsChildOf
    <3>6. level <= 0 => level = 0
      <4>1. level \in 0 .. n
        BY <3>1
      <4>. QED
        BY <4>1
    <3>. QED
      BY <3>2, <3>5, <3>6
  <2>5. CASE class \notin Children[Contexts[m][i]]
    <3>1. level = i /\ class = Contexts[m][i] /\ level \in 1 .. n
      BY <2>1, <2>3, <2>5 DEF IsKnown
    <3>2. ASSUME n - level >= 1
          PROVE  class \in Children[ClassOf(This(n - level))]
      <4>. PICK k \in Int : k = n - level
        BY <3>1
      <4>1. k \in 1 .. n - 1 /\ n + 1 - i = k + 1
        BY <3>1, <3>2
      <4>2. class = ClassOf(This(k + 1))
        BY <1>2, <2>3, <3>1, <4>1
      <4>. QED
        BY <1>1, <4>1, <4>2 DEF CallsInContext
    <3>. QED
      BY <1>3, <3>1, <3>2 DEF IsChildOf
  <2>. QED
    BY <2>4, <2>5
<1>. QED
  BY <1>4, <1>5

(* A new element changes nothing of the others.                            *)
LEMMA AddFacts ==
  ASSUME NEW c, c \notin DOMAIN heap, Owned(heap), NEW r \in ElementRecord,
         r.ElementList = << >>,
         heap' = [e \in DOMAIN heap \cup {c} |-> IF e = c THEN r ELSE heap[e]]
  PROVE  /\ DOMAIN heap' = DOMAIN heap \cup {c}
         /\ heap'[c] = r /\ \A e \in DOMAIN heap : heap'[e] = heap[e]
         /\ Owned(heap') /\ AllListed(heap') = AllListed(heap)
         /\ c \notin AllListed(heap)
         /\ IsOrdered(heap', c) /\ IsOfContext(heap', c)
         /\ \A e \in DOMAIN heap :
              /\ ClassOf(e)' = ClassOf(e) /\ Position(e)' = Position(e)
              /\ IsFiniteSize(e)' = IsFiniteSize(e)
              /\ GetEndPosition(e)' = GetEndPosition(e)
              /\ IsOrdered(heap, e) => IsOrdered(heap', e)
              /\ IsOfContext(heap, e) => IsOfContext(heap', e)
              /\ \A p : IsBehind(p, e) => IsBehind(p, e)'
<1>1. /\ DOMAIN heap' = DOMAIN heap \cup {c}
      /\ heap'[c] = r /\ \A e \in DOMAIN heap : heap'[e] = heap[e]
  OBVIOUS
<1>2. Lst(heap', c) = {} /\ DOMAIN heap'[c].ElementList = {} /\ IsInjective(heap'[c].ElementList)
  BY <1>1 DEF Lst, Range, IsInjective
<1>3. \A e \in DOMAIN heap : /\ Lst(heap', e) = Lst(heap, e)
                             /\ Lst(heap, e) \subseteq DOMAIN heap
                             /\ heap'[e].ElementList = heap[e].ElementList
                             /\ List(e)' = Lst(heap, e) /\ List(e) = Lst(heap, e)
  BY <1>1 DEF Lst, List, Owned
<1>4. AllListed(heap') = AllListed(heap) /\ c \notin AllListed(heap)
  <2>1. ASSUME NEW x \in AllListed(heap')
        PROVE  x \in AllListed(heap)
    <3>1. PICK e \in DOMAIN heap' : x \in Lst(heap', e)
      BY DEF AllListed
    <3>2. e \in DOMAIN heap
      BY <1>1, <1>2, <3>1
    <3>3. x \in Lst(heap, e)
      BY <1>3, <3>1, <3>2
    <3>. QED
      BY <3>2, <3>3 DEF AllListed
  <2>2. ASSUME NEW x \in AllListed(heap)
        PROVE  x \in AllListed(heap')
    <3>1. PICK e \in DOMAIN heap : x \in Lst(heap, e)
      BY DEF AllListed
    <3>2. e \in DOMAIN heap' /\ x \in Lst(heap', e)
      BY <1>1, <1>3, <3>1
    <3>. QED
      BY <3>2 DEF AllListed
  <2>3. AllListed(heap') = AllListed(heap)
    BY <2>1, <2>2
  <2>4. c \notin AllListed(heap)
    BY <1>3 DEF AllListed
  <2>. QED
    BY <2>3, <2>4
<1>5. Owned(heap')
  <2>1. \A e \in DOMAIN heap' : /\ Lst(heap', e) \subseteq DOMAIN heap' \ {1}
                                /\ IsInjective(heap'[e].ElementList)
    BY <1>1, <1>2, <1>3 DEF Owned
  <2>2. \A e, f \in DOMAIN heap : e # f => Lst(heap', e) \cap Lst(heap', f) = {}
    BY <1>3 DEF Owned
  <2>3. \A e, f \in DOMAIN heap' : e # f => Lst(heap', e) \cap Lst(heap', f) = {}
    BY <1>1, <1>2, <2>2
  <2>. QED
    BY <2>1, <2>3 DEF Owned
<1>6. ASSUME NEW e \in DOMAIN heap, IsOrdered(heap, e)
      PROVE  IsOrdered(heap', e)
  <2>1. \A i \in DOMAIN heap[e].ElementList : heap[e].ElementList[i] \in DOMAIN heap
    BY <1>3 DEF Lst, Range
  <2>2. \A x \in DOMAIN heap : heap'[x] = heap[x] /\ EndOf(heap', x) = EndOf(heap, x)
    BY <1>1 DEF EndOf
  <2>3. \A x \in Lst(heap', e) : x \in Lst(heap, e) /\ x \in DOMAIN heap
    BY <1>3
  <2>4. \A x \in Lst(heap', e) :
          /\ heap'[x].ElementPosition > heap'[e].ElementPosition
          /\ heap'[e].bSizeIsFinite /\ heap'[x].bSizeIsFinite =>
               EndOf(heap', x) <= EndOf(heap', e)
    BY <1>6, <2>2, <2>3 DEF IsOrdered
  <2>5. \A i, j \in DOMAIN heap'[e].ElementList :
          i < j => heap'[heap'[e].ElementList[i]].ElementPosition
                     < heap'[heap'[e].ElementList[j]].ElementPosition
    BY <1>6, <2>1, <2>2 DEF IsOrdered
  <2>. QED
    BY <2>4, <2>5 DEF IsOrdered
<1>7. ASSUME NEW e \in DOMAIN heap, IsOfContext(heap, e)
      PROVE  IsOfContext(heap', e)
  BY <1>1, <1>3, <1>7 DEF IsOfContext
<1>8. IsOrdered(heap', c) /\ IsOfContext(heap', c)
  BY <1>2 DEF IsOrdered, IsOfContext
<1>9. \A e \in DOMAIN heap :
        /\ ClassOf(e)' = ClassOf(e) /\ Position(e)' = Position(e)
        /\ IsFiniteSize(e)' = IsFiniteSize(e)
        /\ GetEndPosition(e)' = GetEndPosition(e)
  BY <1>1 DEF ClassOf, Position, IsFiniteSize, DataStart, GetEndPosition
<1>10. ASSUME NEW e \in DOMAIN heap, NEW p, IsBehind(p, e)
       PROVE  IsBehind(p, e)'
  <2>1. \A x \in Lst(heap, e) : Position(x)' = Position(x)
    BY <1>3, <1>9
  <2>. QED
    BY <1>3, <1>9, <1>10, <2>1 DEF IsBehind
<1>. QED
  BY <1>1, <1>4, <1>5, <1>6, <1>7, <1>8, <1>9, <1>10

(* FindElementAt preserves it: an element is created, in no list yet.      *)
LEMMA FindElementAtInv ==
  ASSUME ReadInv, NEW class \in Class, NEW finite \in BOOLEAN,
         NEW position \in 0 .. StreamEnd, NEW size \in 0 .. SizeBound,
         FindElementAt(class, finite, position, size)
  PROVE  ReadInv'
<1>1. pc = "find" /\ pc' = "loop" /\ stack # << >> /\ created < ElementMax
      /\ position >= pos /\ position < pos + call.MaxSizeToRead /\ pos' = position + 1
      /\ UNCHANGED <<ReadFully, FoundElt>>
  BY DEF ReadInv, StackInv, FindElementAt
<1>. PICK n \in Nat \ {0} : n = Len(stack)
  BY <1>1, Standing
<1>. PICK c \in Nat : c = created + 1
  BY <1>1, Standing DEF TypeOK, Element
<1>2. created' = c /\ c \in Element /\ c \notin DOMAIN heap /\ c # 1
  <2>1. created \in 1 .. ElementMax /\ DOMAIN heap \subseteq 1 .. created
    BY <1>1, Standing DEF TypeOK, Element
  <2>. QED
    BY <1>1, <2>1, BoundAssumption DEF FindElementAt, Element
<1>3. /\ stack' \in Seq(CallRecord) /\ Len(stack') = n /\ stack' # << >>
      /\ this' = this /\ A' = c
      /\ \A i \in 1 .. n :
           /\ This(i)' = This(i)
           /\ Elt(i)' = IF i = n THEN c ELSE Elt(i)
           /\ Left(i)' = Left(i)
  <2>1. stack' = SetCall(c, call.MaxSizeToRead)
    BY <1>2 DEF FindElementAt, SetElementLevelA
  <2>2. TypeOK /\ call.MaxSizeToRead \in 0 .. NoLimit /\ call.MaxSizeToRead = Left(n)
    BY <1>1, Standing
  <2>. QED
    BY <1>1, <1>2, <2>1, <2>2, ToppedFacts
<1>. DEFINE r == NewElement(class, finite, position, size)
<1>4. /\ r \in ElementRecord /\ r.ElementList = << >> /\ r.class = class
      /\ r.bSizeIsFinite = finite /\ r.ElementPosition = position /\ r.Size = size
  <2>1. size \in 0 .. Max({StreamEnd, SizeBound})
    BY MaxOfTwo, BoundAssumption
  <2>2. << >> \in Seq(Element)
    OBVIOUS
  <2>. QED
    BY <2>1, <2>2 DEF NewElement, ElementRecord
<1>5. heap' = [e \in DOMAIN heap \cup {c} |-> IF e = c THEN r ELSE heap[e]]
  BY <1>2 DEF FindElementAt
<1>. HIDE DEF r
<1>6. /\ DOMAIN heap' = DOMAIN heap \cup {c}
      /\ heap'[c] = r /\ \A e \in DOMAIN heap : heap'[e] = heap[e]
      /\ Owned(heap') /\ AllListed(heap') = AllListed(heap)
      /\ c \notin AllListed(heap)
      /\ IsOrdered(heap', c) /\ IsOfContext(heap', c)
      /\ \A e \in DOMAIN heap :
           /\ ClassOf(e)' = ClassOf(e) /\ Position(e)' = Position(e)
           /\ IsFiniteSize(e)' = IsFiniteSize(e)
           /\ GetEndPosition(e)' = GetEndPosition(e)
           /\ IsOrdered(heap, e) => IsOrdered(heap', e)
           /\ IsOfContext(heap, e) => IsOfContext(heap', e)
           /\ \A p : IsBehind(p, e) => IsBehind(p, e)'
  BY <1>1, <1>2, <1>4, <1>5, AddFacts, Standing DEF OwnInv
<1>. PICK level \in LevelOf(ClassOf(this), class) :
       /\ level > 0 \/ ~ finite
            \/ position + 1 + size <= pos + call.MaxSizeToRead
       /\ UpperEltFound' = UpperEltFound + level
       /\ strayed' = (strayed \/ level > 0)
  BY DEF FindElementAt, ClassOf
<1>7. /\ level \in Level /\ level \in Int
      /\ level < 0 => class \in Leaves
      /\ level <= 0 => class \in Children[ClassOf(this)] \cup Globals
      /\ level > 0 => IsChildOf(class, n - level)
      /\ UpperEltFound' = level
  <2>1. UpperEltFound = 0
    BY <1>1, Standing DEF StackInv
  <2>2. /\ level \in Level
        /\ level < 0 => class \in Leaves
        /\ level <= 0 => class \in Children[ClassOf(this)] \cup Globals
        /\ level > 0 => IsChildOf(class, n - level)
    BY <1>1, LevelFacts
  <2>3. level \in Int
    BY <2>2, ZeroIsLevel
  <2>. QED
    BY <2>1, <2>2, <2>3
<1>8. /\ \A i \in 1 .. n : This(i) \in DOMAIN heap /\ This(i) # c /\ This(i)' = This(i)
      /\ \A i \in 1 .. n - 1 : Elt(i) = This(i + 1) /\ Elt(i) \in DOMAIN heap /\ Elt(i)' = Elt(i)
      /\ \A i \in 1 .. n - 1 : i \in 1 .. n
      /\ n \in 1 .. n /\ this = This(n) /\ this \in DOMAIN heap /\ Elt(n)' = c
  <2>1. /\ \A i \in 1 .. n : This(i) \in DOMAIN heap
        /\ \A i \in 1 .. n - 1 : Elt(i) = This(i + 1)
        /\ this = This(n)
    BY <1>1, Standing DEF StackInv
  <2>2. \A i \in 1 .. n - 1 : i \in 1 .. n /\ i + 1 \in 1 .. n /\ i # n
    OBVIOUS
  <2>3. \A i \in 1 .. n : This(i) # c /\ This(i)' = This(i)
    BY <1>2, <1>3, <2>1
  <2>4. \A i \in 1 .. n - 1 : Elt(i) \in DOMAIN heap /\ Elt(i)' = Elt(i)
    BY <1>3, <2>1, <2>2
  <2>5. n \in 1 .. n
    OBVIOUS
  <2>6. Elt(n)' = c /\ this \in DOMAIN heap
    BY <1>3, <2>1, <2>5
  <2>. QED
    BY <2>1, <2>2, <2>3, <2>4, <2>5, <2>6
<1>9. /\ ClassOf(A)' = class /\ IsFiniteSize(A)' = finite /\ Position(A)' = position
      /\ GetEndPosition(A)' = position + 1 + size /\ DataStart(A)' = position + 1
  BY <1>3, <1>4, <1>6 DEF ClassOf, IsFiniteSize, Position, GetEndPosition, DataStart
<1>10. TypeOK'
  <2>1. TypeOK
    BY <1>1, Standing
  <2>2. pos' \in Nat
    BY <1>1
  <2>3. DOMAIN heap' \subseteq 1 .. created'
    BY <1>2, <1>6, <2>1 DEF TypeOK, Element
  <2>4. \A e \in DOMAIN heap' : heap'[e] \in ElementRecord
    BY <1>4, <1>6, <2>1 DEF TypeOK
  <2>5. strayed' \in BOOLEAN
    BY <1>7, <2>1 DEF TypeOK
  <2>. QED
    BY <1>1, <1>2, <1>3, <1>7, <2>1, <2>2, <2>3, <2>4, <2>5 DEF TypeOK, CallRecord
<1>11. StackInv'
  <2>1. StackInv
    BY <1>1, Standing
  <2>2. \A i \in 1 .. n : This(i)' \in DOMAIN heap' /\ ClassOf(This(i))' \in Masters
    <3>1. \A i \in 1 .. n : ClassOf(This(i)) \in Masters
      BY <2>1 DEF StackInv
    <3>. QED
      BY <1>6, <1>8, <3>1 DEF ClassOf
  <2>3. \A i \in 1 .. n - 1 : Elt(i)' = This(i + 1)'
    <3>1. \A i \in 1 .. n - 1 : i + 1 \in 1 .. n
      OBVIOUS
    <3>. QED
      BY <1>8, <3>1
  <2>. QED
    BY <1>1, <1>3, <1>6, <1>7, <1>8, <1>9, <2>1, <2>2, <2>3 DEF StackInv
<1>12. OwnInv'
  <2>1. \A i \in 1 .. n : This(i) \notin AllListed(heap)
    BY <1>1, Standing DEF OwnInv
  <2>2. IsLoose(A)'
    BY <1>2, <1>3, <1>6, <1>8 DEF IsLoose
  <2>. QED
    BY <1>1, <1>3, <1>6, <1>8, <2>1, <2>2 DEF OwnInv, IsPassing
<1>13. BudgetInv'
  <2>1. ASSUME NEW i \in 1 .. n - 1, IsFiniteSize(This(i))', IsFiniteSize(Elt(i))'
        PROVE  Left(i)' = GetEndPosition(This(i))' - GetEndPosition(Elt(i))'
    <3>1. /\ IsFiniteSize(This(i))' = IsFiniteSize(This(i))
          /\ IsFiniteSize(Elt(i))' = IsFiniteSize(Elt(i))
          /\ GetEndPosition(This(i))' = GetEndPosition(This(i))
          /\ GetEndPosition(Elt(i))' = GetEndPosition(Elt(i))
      BY <1>6, <1>8 DEF IsFiniteSize, GetEndPosition, DataStart
    <3>2. Left(i)' = Left(i) /\ i < n
      BY <1>3, <1>8
    <3>. QED
      BY <1>1, <1>8, <2>1, <3>1, <3>2, Standing DEF BudgetInv, IsReading
  <2>2. ASSUME UpperEltFound' <= 0, IsFiniteSize(this)', IsFiniteSize(A)'
        PROVE  GetEndPosition(A)' <= GetEndPosition(this)'
    <3>1. /\ IsFiniteSize(this)' = IsFiniteSize(this)
          /\ GetEndPosition(this)' = GetEndPosition(this)
      BY <1>3, <1>6, <1>8 DEF IsFiniteSize, GetEndPosition, DataStart
    <3>2. pos + call.MaxSizeToRead = GetEndPosition(this)
      BY <1>1, <2>2, <3>1, Standing DEF BudgetInv, BudgetIsExact
    <3>3. finite /\ ~ (level > 0)
      BY <1>7, <1>9, <2>2
    <3>. QED
      BY <1>9, <3>1, <3>2, <3>3
  <2>3. \A i \in 1 .. Len(stack') : IsReading(i)' => i \in 1 .. n - 1
    BY <1>1, <1>3 DEF IsReading
  <2>. QED
    BY <1>1, <2>1, <2>2, <2>3 DEF BudgetInv, BudgetIsExact
<1>14. OrderInv'
  <2>1. \A e \in Entered' : IsOrdered(heap', e)
    BY <1>1, <1>6, Standing DEF OrderInv, Entered
  <2>2. ASSUME NEW i \in 1 .. n
        PROVE  IsBehind(Position(Elt(i)), This(i))'
    <3>1. CASE i = n
      <4>1. IsBehind(pos, this)
        BY <1>1, Standing DEF OrderInv
      <4>2. IsBehind(position, this)
        <5>1. pos \in Nat /\ Position(this) \in Nat
          BY <1>1, <1>8, HeapType, Standing DEF TypeOK
        <5>2. \A x \in List(this) : Position(x) \in Nat
          <6>1. List(this) \subseteq DOMAIN heap
            BY <1>1, <1>8, Standing DEF OwnInv, Owned, Lst, List
          <6>. QED
            BY <1>1, <6>1, HeapType, Standing
        <5>. QED
          BY <1>1, <4>1, <5>1, <5>2 DEF IsBehind
      <4>3. IsBehind(position, this)'
        <5>. PICK m : m = this
          OBVIOUS
        <5>1. IsBehind(position, m)'
          BY <1>6, <1>8, <4>2
        <5>. QED
          BY <1>3, <5>1 DEF IsBehind, Position, List
      <4>4. This(i)' = this' /\ Elt(i)' = A'
        BY <1>3, <1>8, <3>1
      <4>. QED
        BY <1>9, <4>3, <4>4 DEF IsBehind, Position, List
    <3>2. CASE i # n
      <4>1. i \in 1 .. n - 1 /\ i < n
        BY <3>2
      <4>2. IsBehind(Position(Elt(i)), This(i))
        BY <1>1, <4>1, Standing DEF OrderInv, IsReading
      <4>3. Position(Elt(i))' = Position(Elt(i)) /\ This(i)' = This(i)
        BY <1>6, <1>8, <4>1 DEF Position
      <4>. QED
        BY <1>6, <1>8, <4>1, <4>2, <4>3 DEF IsBehind, Position, List
    <3>. QED
      BY <3>1, <3>2
  <2>. QED
    BY <1>1, <1>3, <2>1, <2>2 DEF OrderInv, IsPassing
<1>15. ContextInv'
  <2>1. \A e \in DOMAIN heap' : IsOfContext(heap', e)
    BY <1>1, <1>6, Standing DEF ContextInv
  <2>2. \A i \in 1 .. n : ClassOf(This(i))' = ClassOf(This(i))
    BY <1>6, <1>8 DEF ClassOf
  <2>3. CallsInContext'
    BY <1>1, <1>3, <2>2, CallsKept, Standing DEF ContextInv
  <2>4. ASSUME UpperEltFound' <= 0
        PROVE  ClassOf(A)' \in Children[ClassOf(this)'] \cup Globals
    <3>1. ClassOf(this)' = ClassOf(this)
      BY <1>3, <1>6, <1>8 DEF ClassOf
    <3>. QED
      BY <1>7, <1>9, <2>4, <3>1
  <2>5. ASSUME UpperEltFound' > 0
        PROVE  IsChildOf(ClassOf(A), Len(stack) - UpperEltFound)'
    <3>3. level \in Int
      BY <1>7
    <3>4. n - level \in Int
      BY <3>3
    <3>. PICK k \in Int : k = n - level
      BY <3>4
    <3>1. Len(stack') - UpperEltFound' = k /\ IsChildOf(class, k) /\ k < n
      BY <1>3, <1>7, <2>5
    <3>2. k >= 1 => ClassOf(This(k))' = ClassOf(This(k))
      BY <2>2, <3>1
    <3>. QED
      BY <1>9, <3>1, <3>2 DEF IsChildOf
  <2>6. ReadInContext'
    BY <1>1, <2>4, <2>5 DEF ReadInContext, IsPassing
  <2>. QED
    BY <2>1, <2>3, <2>6 DEF ContextInv
<1>16. LossInv'
  <2>1. ASSUME ~ strayed', NEW e \in DOMAIN heap', e # 1, e \notin AllListed(heap'), e # c
        PROVE  \E i \in 1 .. Len(stack') : e = This(i)'
    <3>1. e \in DOMAIN heap /\ e \notin AllListed(heap) /\ ~ strayed
      BY <1>6, <2>1
    <3>2. PICK i \in 1 .. n : e = This(i)
      BY <1>1, <2>1, <3>1, Standing DEF LossInv
    <3>. QED
      BY <1>3, <1>8, <3>2
  <2>2. ~ strayed' => UpperEltFound' <= 0 /\ FoundElt' = Null
    <3>1. ASSUME ~ strayed'
          PROVE  ~ strayed /\ level <= 0
      <4>1. ~ strayed /\ ~ (level > 0)
        BY <3>1, Zenon
      <4>. QED
        BY <1>7, <4>1
    <3>. QED
      BY <1>1, <1>7, <3>1, Standing DEF LossInv
  <2>3. pos' = DataStart(A)' /\ call.MaxSizeToRead' > 0
    <3>1. call.MaxSizeToRead' = call.MaxSizeToRead
      BY <1>1, <1>3, <1>8, Standing DEF call, Last, Left
    <3>2. pos \in Nat /\ call.MaxSizeToRead \in Int
      BY <1>1, Standing DEF TypeOK, NoLimit
    <3>. QED
      BY <1>1, <1>9, <3>1, <3>2
  <2>. QED
    BY <1>1, <1>3, <2>1, <2>2, <2>3 DEF LossInv
<1>. QED
  BY <1>10, <1>11, <1>12, <1>13, <1>14, <1>15, <1>16 DEF ReadInv

(* A call goes on: the others are as they were.                            *)
LEMMA StayInv ==
  ASSUME ReadInv, NEW n \in Nat, n = Len(stack), stack # << >>, Len(stack') = n,
         \A i \in 1 .. n : This(i)' = This(i),
         \A i \in 1 .. n - 1 : Elt(i)' = Elt(i) /\ Left(i)' = Left(i),
         DOMAIN heap' \subseteq DOMAIN heap, Owned(heap'),
         \A e \in DOMAIN heap' : IsAlike(heap[e], heap'[e]),
         \A e \in DOMAIN heap' : e # this => Lst(heap', e) \subseteq Lst(heap, e),
         \A i \in 1 .. n : This(i) \in DOMAIN heap'
  PROVE  /\ n \in Nat \ {0} /\ n \in 1 .. n /\ stack' # << >>
         /\ 1 \in DOMAIN heap' /\ This(1)' = 1 /\ this' = this /\ this \in DOMAIN heap'
         /\ \A i \in 1 .. n : This(i)' \in DOMAIN heap' /\ ClassOf(This(i))' \in Masters
         /\ \A i, j \in 1 .. n : i # j => This(i)' # This(j)'
         /\ \A i \in 1 .. n - 1 :
              /\ Elt(i)' = This(i + 1)'
              /\ IsBehind(Position(Elt(i)), This(i))'
              /\ IsFiniteSize(This(i))' /\ IsFiniteSize(Elt(i))' =>
                   Left(i)' = GetEndPosition(This(i))' - GetEndPosition(Elt(i))'
         /\ CallsInContext'
         /\ \A e \in DOMAIN heap' :
              /\ ClassOf(e)' = ClassOf(e) /\ Position(e)' = Position(e)
              /\ IsFiniteSize(e)' = IsFiniteSize(e) /\ DataStart(e)' = DataStart(e)
              /\ GetEndPosition(e)' = GetEndPosition(e)
<1>1. /\ n \in Nat \ {0} /\ n \in 1 .. n /\ 1 \in 1 .. n /\ this = This(n) /\ stack' # << >>
  <2>1. n \in Nat \ {0} /\ this = This(n)
    BY Standing
  <2>2. Len(<< >>) = 0
    OBVIOUS
  <2>. QED
    BY <2>1, <2>2
<1>2. /\ This(1) = 1
      /\ \A i \in 1 .. n : This(i) \in DOMAIN heap /\ ClassOf(This(i)) \in Masters
      /\ \A i, j \in 1 .. n : i # j => This(i) # This(j)
      /\ \A i \in 1 .. n - 1 : Elt(i) = This(i + 1)
  BY Standing DEF StackInv
<1>3. \A e \in DOMAIN heap' :
        /\ ClassOf(e)' = ClassOf(e) /\ Position(e)' = Position(e)
        /\ IsFiniteSize(e)' = IsFiniteSize(e) /\ DataStart(e)' = DataStart(e)
        /\ GetEndPosition(e)' = GetEndPosition(e)
  BY DEF IsAlike, ClassOf, Position, IsFiniteSize, DataStart, GetEndPosition
<1>4. \A i \in 1 .. n : This(i)' \in DOMAIN heap' /\ ClassOf(This(i))' \in Masters
  BY <1>2, <1>3 DEF ClassOf
<1>5. this' = this /\ this \in DOMAIN heap'
  BY <1>1 DEF This, this, call, Last
<1>6. ASSUME NEW i \in 1 .. n - 1
      PROVE  /\ Elt(i)' = This(i + 1)'
             /\ IsBehind(Position(Elt(i)), This(i))'
             /\ IsFiniteSize(This(i))' /\ IsFiniteSize(Elt(i))' =>
                   Left(i)' = GetEndPosition(This(i))' - GetEndPosition(Elt(i))'
  <2>1. i \in 1 .. n /\ i + 1 \in 1 .. n /\ i < n /\ i # n
    BY <1>1
  <2>. PICK m : m = This(i)
    OBVIOUS
  <2>. PICK e : e = This(i + 1)
    OBVIOUS
  <2>2. /\ m \in DOMAIN heap' /\ e \in DOMAIN heap' /\ m # this
        /\ Elt(i) = e /\ This(i)' = m /\ Elt(i)' = e /\ Left(i)' = Left(i)
        /\ This(i + 1)' = e
    BY <1>1, <1>2, <2>1
  <2>3. IsBehind(Position(e), m)
    BY <2>1, <2>2, Standing DEF OrderInv, IsReading
  <2>4. IsFiniteSize(m) /\ IsFiniteSize(e) => Left(i) = GetEndPosition(m) - GetEndPosition(e)
    BY <2>1, <2>2, Standing DEF BudgetInv, IsReading
  <2>5. /\ List(m)' \subseteq List(m) /\ List(m)' \subseteq DOMAIN heap'
    BY <2>2 DEF List, Lst, Owned
  <2>6. IsBehind(Position(e), m)'
    BY <1>3, <2>2, <2>3, <2>5 DEF IsBehind
  <2>7. IsBehind(Position(Elt(i)), This(i))'
    BY <2>2, <2>6 DEF IsBehind, Position, List
  <2>8. IsFiniteSize(This(i))' /\ IsFiniteSize(Elt(i))' =>
          Left(i)' = GetEndPosition(This(i))' - GetEndPosition(Elt(i))'
    BY <1>3, <2>2, <2>4 DEF IsFiniteSize, GetEndPosition, DataStart
  <2>. QED
    BY <2>2, <2>7, <2>8
<1>7. CallsInContext'
  <2>1. StackInv /\ CallsInContext
    BY Standing DEF ContextInv
  <2>2. \A i \in 1 .. n : ClassOf(This(i))' = ClassOf(This(i))
    BY <1>3 DEF ClassOf
  <2>. QED
    BY <1>1, <2>1, <2>2, CallsKept
<1>. QED
  BY <1>1, <1>2, <1>3, <1>4, <1>5, <1>6, <1>7

(* The list of a previous reading is emptied, and what it had deleted.     *)
LEMMA EmptiedPruned ==
  ASSUME NEW h, Owned(h), \A e \in DOMAIN h : h[e] \in ElementRecord,
         NEW m \in DOMAIN h,
         NEW g, g = Delete([h EXCEPT ![m].ElementList = << >>], Lst(h, m))
  PROVE  /\ Pruned(h, g, {})
         /\ m \in DOMAIN g => Lst(g, m) = {} /\ IsOrdered(g, m)
<1>. DEFINE k == [h EXCEPT ![m].ElementList = << >>]
            X == Lst(h, m)
<1>1. /\ DOMAIN k = DOMAIN h
      /\ k[m] = [h[m] EXCEPT !.ElementList = << >>]
      /\ \A e \in DOMAIN h \ {m} : k[e] = h[e]
  OBVIOUS
<1>2. g = Delete(k, X)
  OBVIOUS
<1>. HIDE DEF k
<1>3. /\ k[m] \in ElementRecord /\ IsAlike(h[m], k[m]) /\ k[m].ElementList = << >>
  <2>1. h[m] \in ElementRecord
    OBVIOUS
  <2>2. << >> \in Seq(Element)
    OBVIOUS
  <2>. QED
    BY <1>1, <2>1, <2>2 DEF ElementRecord, IsAlike
<1>4. Lst(k, m) = {} /\ IsInjective(k[m].ElementList) /\ DOMAIN k[m].ElementList = {}
  BY <1>3 DEF Lst, Range, IsInjective
<1>5. \A e \in DOMAIN h :
        /\ k[e] \in ElementRecord /\ IsAlike(h[e], k[e])
        /\ e # m => k[e].ElementList = h[e].ElementList /\ Lst(k, e) = Lst(h, e)
  BY <1>1, <1>3 DEF IsAlike, Lst
<1>6. Owned(k) /\ AllListed(k) = AllListed(h) \ X
  <2>1. Lst(k, m) \subseteq Lst(h, m) \cup (DOMAIN h \ (AllListed(h) \cup {1}))
    BY <1>4
  <2>2. Owned(k) /\ AllListed(k) = (AllListed(h) \ Lst(h, m)) \cup Lst(k, m)
    <3>1. \A e \in DOMAIN h \ {m} : k[e].ElementList = h[e].ElementList
      BY <1>5
    <3>2. DOMAIN k = DOMAIN h
      BY <1>1
    <3>3. IsInjective(k[m].ElementList)
      BY <1>4
    <3>. HIDE DEF X
    <3>. QED
      BY <2>1, <3>1, <3>2, <3>3, ListFacts
  <2>. QED
    BY <1>4, <2>2
<1>7. Pruned(k, g, X)
  <2>1. X \cap AllListed(k) = {}
    BY <1>6
  <2>2. \A e \in DOMAIN k : k[e] \in ElementRecord
    BY <1>1, <1>5
  <2>. QED
    BY <1>2, <1>6, <2>1, <2>2, DeletePrunes
<1>8. \A e \in DOMAIN h : e # m => Lst(k, e) \subseteq DOMAIN h
  BY <1>5 DEF Owned
<1>9. \A e \in DOMAIN h : EndOf(k, e) = EndOf(h, e)
  BY <1>5 DEF IsAlike, EndOf
<1>10. ASSUME NEW e \in DOMAIN h, e # m, IsOrdered(h, e)
       PROVE  IsOrdered(k, e)
  <2>1. k[e].ElementList = h[e].ElementList /\ Lst(k, e) = Lst(h, e)
    BY <1>5, <1>10
  <2>2. \A i \in DOMAIN h[e].ElementList : h[e].ElementList[i] \in DOMAIN h
    BY <1>8, <1>10, <2>1 DEF Lst, Range
  <2>. QED
    BY <1>5, <1>8, <1>9, <1>10, <2>1, <2>2 DEF IsOrdered, IsAlike
<1>11. ASSUME NEW e \in DOMAIN h, e # m, IsOfContext(h, e)
       PROVE  IsOfContext(k, e)
  BY <1>5, <1>8, <1>11 DEF IsOfContext, IsAlike
<1>12. IsOrdered(k, m) /\ IsOfContext(k, m)
  BY <1>4 DEF IsOrdered, IsOfContext
<1>13. /\ DOMAIN g \subseteq DOMAIN h \ X
       /\ \A e \in DOMAIN g :
            /\ g[e] \in ElementRecord /\ IsAlike(k[e], g[e])
            /\ Lst(g, e) \subseteq Lst(k, e)
            /\ IsOrdered(k, e) => IsOrdered(g, e)
            /\ IsOfContext(k, e) => IsOfContext(g, e)
       /\ Owned(g)
       /\ \A e \in DOMAIN h \ X : e \notin AllListed(k) => e \in DOMAIN g
       /\ \A e \in DOMAIN g : e \in AllListed(k) => e \in AllListed(g)
       /\ AllListed(g) \subseteq AllListed(k)
  BY <1>1, <1>7 DEF Pruned
<1>14. Pruned(h, g, {})
  <2>1. X \subseteq AllListed(h)
    BY DEF AllListed
  <2>2. ASSUME NEW e \in DOMAIN g
        PROVE  /\ g[e] \in ElementRecord /\ IsAlike(h[e], g[e])
               /\ Lst(g, e) \subseteq Lst(h, e)
               /\ IsOrdered(h, e) => IsOrdered(g, e)
               /\ IsOfContext(h, e) => IsOfContext(g, e)
    <3>1. e \in DOMAIN h /\ IsAlike(h[e], k[e]) /\ IsAlike(k[e], g[e])
      BY <1>5, <1>13
    <3>2. IsAlike(h[e], g[e])
      BY <3>1 DEF IsAlike
    <3>3. Lst(k, e) \subseteq Lst(h, e)
      BY <1>4, <1>5, <3>1
    <3>4. /\ IsOrdered(h, e) => IsOrdered(k, e)
          /\ IsOfContext(h, e) => IsOfContext(k, e)
      BY <1>10, <1>11, <1>12, <3>1
    <3>. QED
      BY <1>13, <3>2, <3>3, <3>4
  <2>3. \A e \in DOMAIN h : e \notin AllListed(h) => e \in DOMAIN g
    BY <1>6, <1>13, <2>1
  <2>4. \A e \in DOMAIN g : e \in AllListed(h) => e \in AllListed(g)
    BY <1>6, <1>13
  <2>5. AllListed(g) \subseteq AllListed(h)
    BY <1>6, <1>13
  <2>6. DOMAIN g \subseteq DOMAIN h \ {}
    BY <1>13
  <2>. QED
    BY <1>13, <2>2, <2>3, <2>4, <2>5, <2>6 DEF Pruned
<1>15. m \in DOMAIN g => Lst(g, m) = {} /\ IsOrdered(g, m)
  BY <1>4, <1>12, <1>13
<1>. QED
  BY <1>14, <1>15

(* Enter preserves it: the list of an earlier reading goes.                *)
LEMMA EnterInv ==
  ASSUME ReadInv, Enter
  PROVE  ReadInv'
<1>. DEFINE budget == IF IsFiniteSize(this) THEN heap[this].Size ELSE NoLimit
<1>1. pc = "enter" /\ stack # << >> /\ UpperEltFound = 0
      /\ UNCHANGED <<ReadFully, created, UpperEltFound, FoundElt, strayed>>
  BY DEF ReadInv, StackInv, Enter
<1>. PICK n \in Nat : n = Len(stack)
  BY <1>1, Standing
<1>2. /\ TypeOK /\ this \in DOMAIN heap /\ A \in Element \cup {Null}
      /\ this = This(n) /\ A = Elt(n) /\ n \in 1 .. n /\ pos \in Nat
  BY <1>1, Standing DEF TypeOK
<1>3. budget \in 0 .. NoLimit
  BY <1>2, HeapType, BoundAssumption DEF NoLimit
<1>4. /\ stack' = SetCall(A, budget)
      /\ \/ budget > 0 /\ pos' = DataStart(this) /\ pc' = "find"
         \/ pos' = pos /\ pc' = "processCrc"
  BY DEF Enter, SetMaxSizeToRead
<1>. PICK b \in 0 .. NoLimit : b = budget
  BY <1>3
<1>. HIDE DEF budget
<1>5. /\ stack' \in Seq(CallRecord) /\ Len(stack') = n /\ stack' # << >>
      /\ this' = this /\ A' = A /\ call.MaxSizeToRead' = b
      /\ \A i \in 1 .. n :
           /\ This(i)' = This(i) /\ Elt(i)' = Elt(i)
           /\ Left(i)' = IF i = n THEN b ELSE Left(i)
  <2>1. stack' = SetCall(A, b)
    BY <1>4
  <2>. QED
    BY <1>1, <1>2, <2>1, ToppedFacts
<1>6. Pruned(heap, heap', {}) /\ (this \in DOMAIN heap' => Lst(heap', this) = {} /\ IsOrdered(heap', this))
  <2>1. Owned(heap) /\ \A e \in DOMAIN heap : heap[e] \in ElementRecord
    BY <1>1, Standing DEF OwnInv, TypeOK
  <2>2. heap' = Delete([heap EXCEPT ![this].ElementList = << >>], Lst(heap, this))
    BY DEF Enter, Lst
  <2>. QED
    BY <1>2, <2>1, <2>2, EmptiedPruned
<1>7. /\ Owned(heap') /\ DOMAIN heap' \subseteq DOMAIN heap
      /\ \A e \in DOMAIN heap' :
           /\ heap'[e] \in ElementRecord /\ IsAlike(heap[e], heap'[e])
           /\ Lst(heap', e) \subseteq Lst(heap, e)
           /\ IsOrdered(heap, e) => IsOrdered(heap', e)
           /\ IsOfContext(heap, e) => IsOfContext(heap', e)
      /\ \A e \in DOMAIN heap' : e \in AllListed(heap) => e \in AllListed(heap')
  BY <1>6 DEF Pruned
<1>8. \A i \in 1 .. n : /\ This(i) \in DOMAIN heap /\ This(i) \notin AllListed(heap)
                        /\ This(i) \in DOMAIN heap' /\ This(i) \notin AllListed(heap')
  <2>1. \A i \in 1 .. n : This(i) \in DOMAIN heap /\ This(i) \notin AllListed(heap)
    BY <1>1, Standing DEF StackInv, OwnInv
  <2>. QED
    BY <1>6, <2>1 DEF Pruned
<1>9. /\ n \in Nat \ {0} /\ n \in 1 .. n /\ stack' # << >>
      /\ 1 \in DOMAIN heap' /\ This(1)' = 1 /\ this' = this /\ this \in DOMAIN heap'
      /\ \A i \in 1 .. n : This(i)' \in DOMAIN heap' /\ ClassOf(This(i))' \in Masters
      /\ \A i, j \in 1 .. n : i # j => This(i)' # This(j)'
      /\ \A i \in 1 .. n - 1 :
           /\ Elt(i)' = This(i + 1)'
           /\ IsBehind(Position(Elt(i)), This(i))'
           /\ IsFiniteSize(This(i))' /\ IsFiniteSize(Elt(i))' =>
                Left(i)' = GetEndPosition(This(i))' - GetEndPosition(Elt(i))'
      /\ CallsInContext'
      /\ \A e \in DOMAIN heap' :
           /\ ClassOf(e)' = ClassOf(e) /\ Position(e)' = Position(e)
           /\ IsFiniteSize(e)' = IsFiniteSize(e) /\ DataStart(e)' = DataStart(e)
           /\ GetEndPosition(e)' = GetEndPosition(e)
  <2>1. \A i \in 1 .. n : This(i)' = This(i)
    BY <1>5
  <2>2. \A i \in 1 .. n - 1 : Elt(i)' = Elt(i) /\ Left(i)' = Left(i)
    BY <1>5
  <2>3. \A i \in 1 .. n : This(i) \in DOMAIN heap'
    BY <1>8
  <2>. QED
    BY <1>1, <1>5, <1>7, <2>1, <2>2, <2>3, StayInv
<1>10. pc' \in {"find", "processCrc"} /\ UpperEltFound' = 0 /\ ~ IsPassing'
  BY <1>1, <1>4 DEF IsPassing
<1>11. TypeOK'
  <2>1. pos' \in Nat
    BY <1>2, <1>4, HeapType
  <2>. QED
    BY <1>1, <1>2, <1>5, <1>7, <1>10, <2>1, ZeroIsLevel DEF TypeOK, CallRecord
<1>12. StackInv'
  BY <1>5, <1>9, <1>10 DEF StackInv
<1>13. OwnInv'
  BY <1>5, <1>7, <1>8, <1>10 DEF OwnInv
<1>14. BudgetInv'
  <2>1. \A i \in 1 .. Len(stack') : IsReading(i)' => i \in 1 .. n - 1
    BY <1>5, <1>10 DEF IsReading
  <2>2. ASSUME pc' = "find", IsFiniteSize(this)'
        PROVE  pos' + call.MaxSizeToRead' = GetEndPosition(this)'
    <3>1. /\ IsFiniteSize(this)' = IsFiniteSize(this)
          /\ GetEndPosition(this)' = GetEndPosition(this)
      BY <1>9 DEF IsFiniteSize, GetEndPosition, DataStart
    <3>2. b = heap[this].Size /\ pos' = DataStart(this)
      BY <1>4, <2>2, <3>1 DEF budget
    <3>. QED
      BY <1>5, <3>1, <3>2 DEF GetEndPosition
  <2>. QED
    BY <1>9, <1>10, <2>1, <2>2 DEF BudgetInv, BudgetIsExact
<1>15. OrderInv'
  <2>1. ASSUME NEW e \in DOMAIN heap'
        PROVE  IsOrdered(heap', e)
    <3>1. CASE e = this
      BY <1>6, <2>1, <3>1
    <3>2. CASE e # this
      BY <1>1, <1>7, <2>1, <3>2, Standing DEF OrderInv, Entered
    <3>. QED
      BY <3>1, <3>2
  <2>2. \A i \in 1 .. Len(stack') : IsReading(i)' => i \in 1 .. n - 1
    BY <1>5, <1>10 DEF IsReading
  <2>3. ASSUME pc' = "find"
        PROVE  IsBehind(pos, this)'
    <3>1. pos' > Position(this)
      BY <1>2, <1>4, <2>3, HeapType
    <3>2. Position(this)' = Position(this) /\ List(this)' = {}
      BY <1>6, <1>9 DEF Position, List, Lst
    <3>. QED
      BY <3>1, <3>2 DEF IsBehind
  <2>. QED
    BY <1>9, <1>10, <2>1, <2>2, <2>3 DEF OrderInv, Entered
<1>16. ContextInv'
  <2>1. \A e \in DOMAIN heap' : IsOfContext(heap', e)
    BY <1>1, <1>7, Standing DEF ContextInv
  <2>2. ReadInContext'
    BY <1>10 DEF ReadInContext
  <2>. QED
    BY <1>9, <2>1, <2>2 DEF ContextInv
<1>17. LossInv'
  <2>1. ASSUME ~ strayed, NEW e \in DOMAIN heap', e # 1, e \notin AllListed(heap')
        PROVE  \E i \in 1 .. Len(stack') : e = This(i)'
    <3>1. e \in DOMAIN heap /\ e \notin AllListed(heap)
      BY <1>7, <2>1
    <3>2. PICK i \in 1 .. n : e = This(i)
      BY <1>1, <2>1, <3>1, Standing DEF LossInv
    <3>. QED
      BY <1>5, <3>2
  <2>. QED
    BY <1>1, <1>10, <2>1, Standing DEF LossInv
<1>. QED
  BY <1>11, <1>12, <1>13, <1>14, <1>15, <1>16, <1>17 DEF ReadInv

(* The heap g when the element a that a call of the master m has read is   *)
(* in its list or deleted, and the elements X are deleted.                 *)
HasSettled(h, g, m, a, X) ==
  /\ DOMAIN g \subseteq DOMAIN h \ X
  /\ \A e \in DOMAIN g :
       /\ g[e] \in ElementRecord /\ IsAlike(h[e], g[e])
       /\ Lst(g, e) \subseteq Lst(h, e) \cup (IF e = m THEN {a} ELSE {})
       /\ IsOrdered(h, e) => IsOrdered(g, e)
       /\ IsOfContext(h, e) => IsOfContext(g, e)
  /\ Owned(g)
  /\ \A e \in DOMAIN h \ (X \cup {a}) :
       e \notin AllListed(h) => e \in DOMAIN g /\ e \notin AllListed(g)
  /\ \A e \in DOMAIN g : e \in AllListed(h) \cup {a} => e \in AllListed(g)

(* The child that was read is not kept: it is deleted.                     *)
LEMMA DeleteSettles ==
  ASSUME NEW h, Owned(h), \A e \in DOMAIN h : h[e] \in ElementRecord,
         NEW m, NEW a, a \notin AllListed(h)
  PROVE  HasSettled(h, Delete(h, {a}), m, a, {})
<1>. PICK g : g = Delete(h, {a})
  OBVIOUS
<1>1. Pruned(h, g, {a})
  BY DeletePrunes
<1>. QED
  BY <1>1 DEF Pruned, HasSettled

(* The element that was found is deleted as well.                          *)
LEMMA DropSettles ==
  ASSUME NEW h, NEW k, NEW m, NEW a, NEW f, HasSettled(h, k, m, a, {}),
         f \in DOMAIN h, f # a, f \notin AllListed(h)
  PROVE  HasSettled(h, Delete(k, {f}), m, a, {f})
<1>. PICK g : g = Delete(k, {f})
  OBVIOUS
<1>1. /\ DOMAIN k \subseteq DOMAIN h /\ Owned(k)
      /\ \A e \in DOMAIN k :
           /\ k[e] \in ElementRecord /\ IsAlike(h[e], k[e])
           /\ Lst(k, e) \subseteq Lst(h, e) \cup (IF e = m THEN {a} ELSE {})
           /\ IsOrdered(h, e) => IsOrdered(k, e)
           /\ IsOfContext(h, e) => IsOfContext(k, e)
      /\ \A e \in DOMAIN h \ {a} :
           e \notin AllListed(h) => e \in DOMAIN k /\ e \notin AllListed(k)
      /\ \A e \in DOMAIN k : e \in AllListed(h) \cup {a} => e \in AllListed(k)
  BY DEF HasSettled
<1>2. f \notin AllListed(k)
  BY <1>1
<1>3. Pruned(k, g, {f})
  BY <1>1, <1>2, DeletePrunes
<1>4. /\ DOMAIN g \subseteq DOMAIN k \ {f} /\ Owned(g)
      /\ \A e \in DOMAIN g :
           /\ g[e] \in ElementRecord /\ IsAlike(k[e], g[e])
           /\ Lst(g, e) \subseteq Lst(k, e)
           /\ IsOrdered(k, e) => IsOrdered(g, e)
           /\ IsOfContext(k, e) => IsOfContext(g, e)
      /\ \A e \in DOMAIN k \ {f} : e \notin AllListed(k) => e \in DOMAIN g
      /\ \A e \in DOMAIN g : e \in AllListed(k) => e \in AllListed(g)
      /\ AllListed(g) \subseteq AllListed(k)
  BY <1>3 DEF Pruned
<1>5. DOMAIN g \subseteq DOMAIN h \ {f}
  BY <1>1, <1>4
<1>6. ASSUME NEW e \in DOMAIN g
      PROVE  /\ g[e] \in ElementRecord /\ IsAlike(h[e], g[e])
             /\ Lst(g, e) \subseteq Lst(h, e) \cup (IF e = m THEN {a} ELSE {})
             /\ IsOrdered(h, e) => IsOrdered(g, e)
             /\ IsOfContext(h, e) => IsOfContext(g, e)
  <2>1. e \in DOMAIN k /\ IsAlike(h[e], k[e]) /\ IsAlike(k[e], g[e])
    BY <1>1, <1>4
  <2>2. IsAlike(h[e], g[e])
    BY <2>1 DEF IsAlike
  <2>. QED
    BY <1>1, <1>4, <2>1, <2>2
<1>7. \A e \in DOMAIN h \ ({f} \cup {a}) :
        e \notin AllListed(h) => e \in DOMAIN g /\ e \notin AllListed(g)
  BY <1>1, <1>4
<1>8. \A e \in DOMAIN g : e \in AllListed(h) \cup {a} => e \in AllListed(g)
  BY <1>1, <1>4
<1>. QED
  BY <1>4, <1>5, <1>6, <1>7, <1>8 DEF HasSettled

(* The child that was read is kept: the list ends with it.                 *)
LEMMA AppendSettles ==
  ASSUME NEW h, Owned(h), \A e \in DOMAIN h : h[e] \in ElementRecord,
         NEW m \in DOMAIN h, NEW a \in DOMAIN h \ {1}, a \in Element,
         a # m, a \notin AllListed(h),
         h[a].class \in Children[h[m].class] \cup Globals,
         h[a].ElementPosition > h[m].ElementPosition,
         \A c \in Lst(h, m) : h[a].ElementPosition > h[c].ElementPosition,
         h[m].bSizeIsFinite /\ h[a].bSizeIsFinite => EndOf(h, a) <= EndOf(h, m)
  PROVE  HasSettled(h, [h EXCEPT ![m].ElementList = Append(@, a)], m, a, {})
<1>. DEFINE l == h[m].ElementList
            k == Append(l, a)
            g == [h EXCEPT ![m].ElementList = Append(@, a)]
<1>1. h[m] \in ElementRecord /\ l \in Seq(Element) /\ IsInjective(l) /\ a \notin Range(l)
  BY DEF ElementRecord, Owned, AllListed, Lst
<1>2. /\ k \in Seq(Element) /\ Len(k) = Len(l) + 1
      /\ \A i \in 1 .. Len(l) : k[i] = l[i]
      /\ k[Len(l) + 1] = a
      /\ Range(k) = Range(l) \cup {a}
      /\ IsInjective(k)
  BY <1>1, AppendOwn
<1>3. /\ Len(l) \in Nat /\ DOMAIN l = 1 .. Len(l) /\ DOMAIN k = 1 .. Len(l) + 1
  BY <1>1, <1>2
<1>4. /\ DOMAIN g = DOMAIN h
      /\ g[m] = [h[m] EXCEPT !.ElementList = k]
      /\ \A e \in DOMAIN h \ {m} : g[e] = h[e]
  OBVIOUS
<1>. HIDE DEF l, k, g
<1>5. /\ g[m] \in ElementRecord /\ IsAlike(h[m], g[m]) /\ g[m].ElementList = k
  BY <1>1, <1>2, <1>4 DEF ElementRecord, IsAlike
<1>6. \A e \in DOMAIN h :
        /\ g[e] \in ElementRecord /\ IsAlike(h[e], g[e])
        /\ Lst(g, e) = Lst(h, e) \cup (IF e = m THEN {a} ELSE {})
        /\ e # m => g[e].ElementList = h[e].ElementList
  <2>1. /\ g[m] \in ElementRecord /\ IsAlike(h[m], g[m])
        /\ Lst(g, m) = Lst(h, m) \cup {a}
    BY <1>2, <1>5 DEF Lst, l
  <2>2. \A e \in DOMAIN h \ {m} :
           /\ g[e] \in ElementRecord /\ IsAlike(h[e], g[e])
           /\ Lst(g, e) = Lst(h, e)
           /\ g[e].ElementList = h[e].ElementList
    BY <1>4 DEF Lst, IsAlike
  <2>. QED
    BY <2>1, <2>2
<1>7. Owned(g) /\ AllListed(g) = AllListed(h) \cup {a}
  <2>1. /\ DOMAIN g = DOMAIN h /\ IsInjective(g[m].ElementList)
        /\ \A e \in DOMAIN h \ {m} : g[e].ElementList = h[e].ElementList
        /\ Lst(g, m) = Lst(h, m) \cup {a}
    BY <1>2, <1>4, <1>5, <1>6
  <2>2. Lst(g, m) \subseteq Lst(h, m) \cup (DOMAIN h \ (AllListed(h) \cup {1}))
    BY <2>1
  <2>3. Owned(g) /\ AllListed(g) = (AllListed(h) \ Lst(h, m)) \cup Lst(g, m)
    BY <2>1, <2>2, ListFacts
  <2>4. Lst(h, m) \subseteq AllListed(h)
    BY DEF AllListed
  <2>. QED
    BY <2>1, <2>3, <2>4
<1>8. /\ \A e \in DOMAIN h : Lst(h, e) \subseteq DOMAIN h
      /\ \A e \in DOMAIN h : IsAlike(h[e], g[e]) /\ EndOf(g, e) = EndOf(h, e)
  BY <1>6 DEF Owned, IsAlike, EndOf
<1>9. ASSUME NEW e \in DOMAIN h, IsOrdered(h, e)
      PROVE  IsOrdered(g, e)
  <2>1. ASSUME NEW c \in Lst(g, e)
        PROVE  /\ g[c].ElementPosition > g[e].ElementPosition
               /\ g[e].bSizeIsFinite /\ g[c].bSizeIsFinite => EndOf(g, c) <= EndOf(g, e)
    <3>1. CASE c \in Lst(h, e)
      <4>1. c \in DOMAIN h
        BY <1>8, <3>1
      <4>. QED
        BY <1>8, <1>9, <3>1, <4>1 DEF IsOrdered, IsAlike
    <3>2. CASE c \notin Lst(h, e)
      <4>1. e = m /\ c = a
        BY <1>6, <2>1, <3>2
      <4>. QED
        BY <1>8, <4>1 DEF IsAlike
    <3>. QED
      BY <3>1, <3>2
  <2>2. ASSUME NEW i \in DOMAIN g[e].ElementList, NEW j \in DOMAIN g[e].ElementList, i < j
        PROVE  g[g[e].ElementList[i]].ElementPosition < g[g[e].ElementList[j]].ElementPosition
    <3>1. \A x \in DOMAIN h[e].ElementList : h[e].ElementList[x] \in Lst(h, e)
      BY DEF Lst, Range
    <3>2. CASE e # m
      <4>1. g[e].ElementList = h[e].ElementList
        BY <1>6, <3>2
      <4>. QED
        BY <1>8, <1>9, <2>2, <3>1, <4>1 DEF IsOrdered, IsAlike
    <3>3. CASE e = m
      <4>1. i \in 1 .. Len(l) + 1 /\ j \in 1 .. Len(l) + 1 /\ g[e].ElementList = k
        BY <1>3, <1>5, <2>2, <3>3
      <4>2. i \in DOMAIN l /\ k[i] = l[i] /\ l[i] \in Lst(h, m) /\ l[i] \in DOMAIN h
        <5>1. i \in 1 .. Len(l)
          BY <1>3, <2>2, <4>1
        <5>2. l[i] \in Lst(h, m)
          BY <1>3, <3>1, <3>3, <5>1 DEF l
        <5>. QED
          BY <1>2, <1>3, <1>8, <5>1, <5>2
      <4>3. CASE j \in 1 .. Len(l)
        <5>1. j \in DOMAIN l /\ k[j] = l[j] /\ l[j] \in Lst(h, m) /\ l[j] \in DOMAIN h
          <6>1. l[j] \in Lst(h, m)
            BY <1>3, <3>1, <3>3, <4>3 DEF l
          <6>. QED
            BY <1>2, <1>3, <1>8, <4>3, <6>1
        <5>2. h[l[i]].ElementPosition < h[l[j]].ElementPosition
          BY <1>9, <2>2, <3>3, <4>2, <5>1 DEF IsOrdered, l
        <5>. QED
          BY <1>8, <4>1, <4>2, <5>1, <5>2 DEF IsAlike
      <4>4. CASE j = Len(l) + 1
        <5>1. k[j] = a
          BY <1>2, <4>4
        <5>2. h[a].ElementPosition > h[l[i]].ElementPosition
          BY <4>2
        <5>3. h[l[i]].ElementPosition \in Int /\ h[a].ElementPosition \in Int
          BY <4>2, BoundAssumption DEF ElementRecord
        <5>. QED
          BY <1>8, <4>1, <4>2, <5>1, <5>2, <5>3 DEF IsAlike
      <4>. QED
        BY <1>3, <4>1, <4>3, <4>4
    <3>. QED
      BY <3>2, <3>3
  <2>. QED
    BY <2>1, <2>2 DEF IsOrdered
<1>10. ASSUME NEW e \in DOMAIN h, IsOfContext(h, e)
       PROVE  IsOfContext(g, e)
  <2>1. SUFFICES ASSUME NEW c \in Lst(g, e)
                 PROVE  g[c].class \in Children[g[e].class] \cup Globals
    BY DEF IsOfContext
  <2>2. CASE c \in Lst(h, e)
    BY <1>8, <1>10, <2>2 DEF IsOfContext, IsAlike
  <2>3. CASE c \notin Lst(h, e)
    <3>1. e = m /\ c = a
      BY <1>6, <2>1, <2>3
    <3>. QED
      BY <1>8, <3>1 DEF IsAlike
  <2>. QED
    BY <2>2, <2>3
<1>11. HasSettled(h, g, m, a, {})
  BY <1>4, <1>6, <1>7, <1>9, <1>10 DEF HasSettled
<1>. QED
  BY <1>11 DEF g

(* What a call has read fits into its list, wherever it comes from.        *)
LEMMA SettledFacts ==
  ASSUME ReadInv, pc = "after"
  PROVE  /\ stack # << >> /\ A \in DOMAIN heap \ {1} /\ A \notin AllListed(heap)
         /\ \A i \in 1 .. Len(stack) : This(i) # A
         /\ Position(A) > Position(this)
         /\ IsFiniteSize(this) /\ IsFiniteSize(A) =>
              call.MaxSizeToRead = GetEndPosition(this) - GetEndPosition(A)
         /\ HasSettled(heap, Settled, this, A, {})
<1>1. stack # << >>
  BY DEF ReadInv, StackInv
<1>. PICK n \in Nat : n = Len(stack)
  BY <1>1, Standing
<1>2. /\ n \in 1 .. n /\ this = This(n) /\ A = Elt(n) /\ this \in DOMAIN heap
      /\ call.MaxSizeToRead = Left(n) /\ Left(n) \in 0 .. NoLimit
  BY <1>1, Standing
<1>3. A \in DOMAIN heap \ {1} /\ A \notin AllListed(heap) /\ \A i \in 1 .. n : A # This(i)
  BY <1>1, Standing DEF OwnInv, IsLoose
<1>4. IsBehind(Position(A), this)
  BY <1>1, <1>2, Standing DEF OrderInv, IsReading
<1>5. IsFiniteSize(this) /\ IsFiniteSize(A) =>
        Left(n) = GetEndPosition(this) - GetEndPosition(A)
  BY <1>1, <1>2, Standing DEF BudgetInv, IsReading
<1>6. Owned(heap) /\ \A e \in DOMAIN heap : heap[e] \in ElementRecord
  BY <1>1, Standing DEF OwnInv, TypeOK
<1>7. HasSettled(heap, Settled, this, A, {})
  <2>1. CASE IsKept
    <3>1. heap[A].class \in Children[heap[this].class] \cup Globals
      BY <1>1, Standing DEF ContextInv, ReadInContext, ClassOf
    <3>2. /\ heap[A].ElementPosition > heap[this].ElementPosition
          /\ \A c \in Lst(heap, this) : heap[A].ElementPosition > heap[c].ElementPosition
      BY <1>4 DEF IsBehind, Position, List, Lst
    <3>3. heap[this].bSizeIsFinite /\ heap[A].bSizeIsFinite =>
            EndOf(heap, A) <= EndOf(heap, this)
      <4>1. GetEndPosition(this) \in Nat /\ GetEndPosition(A) \in Nat
        BY <1>1, <1>2, <1>3, HeapType, Standing
      <4>2. EndOf(heap, A) = GetEndPosition(A) /\ EndOf(heap, this) = GetEndPosition(this)
        BY DEF EndOf, GetEndPosition, DataStart
      <4>3. NoLimit \in Nat
        BY BoundAssumption DEF NoLimit
      <4>. QED
        BY <1>2, <1>5, <4>1, <4>2, <4>3 DEF IsFiniteSize
    <3>4. A \in Element
      BY <1>1, <1>3, HeapType, Standing
    <3>5. Settled = [heap EXCEPT ![this].ElementList = Append(@, A)]
      BY <2>1 DEF Settled
    <3>. PICK g : g = Settled
      OBVIOUS
    <3>. PICK a : a = A
      OBVIOUS
    <3>6. this # a
      BY <1>2, <1>3
    <3>7. HasSettled(heap, g, this, a, {})
      BY <1>2, <1>3, <1>6, <3>1, <3>2, <3>3, <3>4, <3>5, <3>6, AppendSettles
    <3>. QED
      BY <3>7
  <2>2. CASE ~ IsKept
    <3>1. Settled = Delete(heap, {A})
      BY <2>2 DEF Settled
    <3>. QED
      BY <1>3, <1>6, <3>1, DeleteSettles
  <2>. QED
    BY <2>1, <2>2
<1>. QED
  BY <1>1, <1>2, <1>3, <1>4, <1>5, <1>7 DEF IsBehind

(* What Settled is, kept or not.                                           *)
LEMMA SettledHeap ==
  ASSUME ReadInv, pc = "after", NEW X, HasSettled(heap, heap', this, A, X),
         \A i \in 1 .. Len(stack) : This(i) \notin X
  PROVE  /\ DOMAIN heap' \subseteq DOMAIN heap \ X /\ Owned(heap')
         /\ \A e \in DOMAIN heap' :
              /\ heap'[e] \in ElementRecord /\ IsAlike(heap[e], heap'[e])
              /\ IsOrdered(heap', e) /\ IsOfContext(heap', e)
              /\ e # this => Lst(heap', e) \subseteq Lst(heap, e)
         /\ \A i \in 1 .. Len(stack) :
              This(i) \in DOMAIN heap' /\ This(i) \notin AllListed(heap')
         /\ \A p, m : m = this /\ IsBehind(p, m) /\ p > Position(A) => IsBehind(p, m)'
         /\ \A e \in DOMAIN heap' : e \notin AllListed(heap') =>
              e \in DOMAIN heap /\ e \notin AllListed(heap) /\ e # A
<1>1. stack # << >> /\ A \in DOMAIN heap \ {1} /\ \A i \in 1 .. Len(stack) : This(i) # A
  BY SettledFacts
<1>2. /\ \A i \in 1 .. Len(stack) : This(i) \in DOMAIN heap /\ This(i) \notin AllListed(heap)
      /\ this = This(Len(stack)) /\ Len(stack) \in 1 .. Len(stack)
      /\ \A e \in DOMAIN heap : IsOrdered(heap, e) /\ IsOfContext(heap, e)
  BY <1>1, Standing DEF StackInv, OwnInv, OrderInv, ContextInv, Entered
<1>3. /\ DOMAIN heap' \subseteq DOMAIN heap \ X /\ Owned(heap')
      /\ \A e \in DOMAIN heap' :
           /\ heap'[e] \in ElementRecord /\ IsAlike(heap[e], heap'[e])
           /\ Lst(heap', e) \subseteq Lst(heap, e) \cup (IF e = this THEN {A} ELSE {})
           /\ IsOrdered(heap, e) => IsOrdered(heap', e)
           /\ IsOfContext(heap, e) => IsOfContext(heap', e)
      /\ \A e \in DOMAIN heap \ (X \cup {A}) :
           e \notin AllListed(heap) => e \in DOMAIN heap' /\ e \notin AllListed(heap')
      /\ \A e \in DOMAIN heap' : e \in AllListed(heap) \cup {A} => e \in AllListed(heap')
  BY DEF HasSettled
<1>4. \A i \in 1 .. Len(stack) : This(i) \in DOMAIN heap' /\ This(i) \notin AllListed(heap')
  BY <1>1, <1>2, <1>3
<1>5. \A e \in DOMAIN heap' : e \notin AllListed(heap') =>
        e \in DOMAIN heap /\ e \notin AllListed(heap) /\ e # A
  BY <1>3
<1>6. ASSUME NEW p, NEW m, m = this, IsBehind(p, m), p > Position(A)
      PROVE  IsBehind(p, m)'
  <2>1. m \in DOMAIN heap' /\ Lst(heap', m) \subseteq Lst(heap, m) \cup {A}
        /\ Lst(heap', m) \subseteq DOMAIN heap'
    BY <1>2, <1>3, <1>4, <1>6 DEF Owned
  <2>2. \A e \in DOMAIN heap' : Position(e)' = Position(e)
    BY <1>3 DEF IsAlike, Position
  <2>3. List(m)' = Lst(heap', m) /\ List(m) = Lst(heap, m)
    BY DEF List, Lst
  <2>. QED
    BY <1>6, <2>1, <2>2, <2>3 DEF IsBehind
<1>. QED
  BY <1>1, <1>2, <1>3, <1>4, <1>5, <1>6

(* An element in nobody's hands is kept.                                   *)
LEMMA LooseKept ==
  ASSUME ReadInv, pc = "after", NEW X, HasSettled(heap, heap', this, A, X),
         Len(stack') = Len(stack), \A i \in 1 .. Len(stack) : This(i)' = This(i),
         NEW e, IsLoose(e), e # A, e \notin X
  PROVE  /\ IsLoose(e)' /\ e \in DOMAIN heap'
         /\ ClassOf(e)' = ClassOf(e) /\ Position(e)' = Position(e)
         /\ IsFiniteSize(e)' = IsFiniteSize(e)
         /\ GetEndPosition(e)' = GetEndPosition(e)
<1>1. e \in DOMAIN heap' \ {1} /\ e \notin AllListed(heap')
  BY DEF HasSettled, IsLoose
<1>2. IsLoose(e)'
  BY <1>1 DEF IsLoose
<1>3. IsAlike(heap[e], heap'[e])
  BY <1>1 DEF HasSettled
<1>. QED
  BY <1>1, <1>2, <1>3
     DEF IsAlike, ClassOf, Position, IsFiniteSize, DataStart, GetEndPosition

(* What the four continuations have in common.                             *)
LEMMA AfterInv ==
  ASSUME ReadInv, pc = "after", NEW n \in Nat, n = Len(stack),
         stack' \in Seq(CallRecord), Len(stack') = n,
         \A i \in 1 .. n : This(i)' = This(i),
         \A i \in 1 .. n - 1 : Elt(i)' = Elt(i) /\ Left(i)' = Left(i),
         NEW X, HasSettled(heap, heap', this, A, X),
         \A i \in 1 .. n : This(i) \notin X,
         UNCHANGED <<ReadFully, created, strayed>>,
         pos' = SkipData, pc' \in {"find", "loop", "processCrc"},
         UpperEltFound' \in Level, UpperEltFound' >= 0,
         FoundElt' \in Element \cup {Null},
         ~ strayed => UpperEltFound' = 0 /\ FoundElt' = Null,
         pc' = "find" =>
           /\ UpperEltFound' = 0 /\ IsFiniteSize(A)
           /\ call.MaxSizeToRead' = call.MaxSizeToRead,
         pc' = "loop" =>
           /\ UpperEltFound' = 0 /\ strayed /\ IsLoose(A)'
           /\ IsFiniteSize(this)' /\ IsFiniteSize(A)' =>
                GetEndPosition(A)' <= GetEndPosition(this)'
           /\ IsBehind(Position(A), this)'
           /\ ClassOf(A)' \in Children[ClassOf(this)'],
         pc' = "processCrc" /\ UpperEltFound' > 0 =>
           /\ IsLoose(FoundElt)' /\ Position(FoundElt)' > Position(this)'
           /\ IsChildOf(ClassOf(FoundElt), Len(stack) - UpperEltFound)'
  PROVE  ReadInv'
<1>1. /\ stack # << >> /\ A \in DOMAIN heap \ {1} /\ A \notin AllListed(heap)
      /\ \A i \in 1 .. n : This(i) # A
      /\ Position(A) > Position(this)
      /\ IsFiniteSize(this) /\ IsFiniteSize(A) =>
           call.MaxSizeToRead = GetEndPosition(this) - GetEndPosition(A)
  BY SettledFacts
<1>2. /\ DOMAIN heap' \subseteq DOMAIN heap /\ Owned(heap')
      /\ \A e \in DOMAIN heap' :
           /\ heap'[e] \in ElementRecord /\ IsAlike(heap[e], heap'[e])
           /\ IsOrdered(heap', e) /\ IsOfContext(heap', e)
           /\ e # this => Lst(heap', e) \subseteq Lst(heap, e)
      /\ \A i \in 1 .. n : This(i) \in DOMAIN heap' /\ This(i) \notin AllListed(heap')
      /\ \A p, m : m = this /\ IsBehind(p, m) /\ p > Position(A) => IsBehind(p, m)'
      /\ \A e \in DOMAIN heap' : e \notin AllListed(heap') =>
           e \in DOMAIN heap /\ e \notin AllListed(heap) /\ e # A
  BY SettledHeap
<1>3. /\ n \in Nat \ {0} /\ n \in 1 .. n /\ stack' # << >>
      /\ 1 \in DOMAIN heap' /\ This(1)' = 1 /\ this' = this /\ this \in DOMAIN heap'
      /\ \A i \in 1 .. n : This(i)' \in DOMAIN heap' /\ ClassOf(This(i))' \in Masters
      /\ \A i, j \in 1 .. n : i # j => This(i)' # This(j)'
      /\ \A i \in 1 .. n - 1 :
           /\ Elt(i)' = This(i + 1)'
           /\ IsBehind(Position(Elt(i)), This(i))'
           /\ IsFiniteSize(This(i))' /\ IsFiniteSize(Elt(i))' =>
                Left(i)' = GetEndPosition(This(i))' - GetEndPosition(Elt(i))'
      /\ CallsInContext'
      /\ \A e \in DOMAIN heap' :
           /\ ClassOf(e)' = ClassOf(e) /\ Position(e)' = Position(e)
           /\ IsFiniteSize(e)' = IsFiniteSize(e) /\ DataStart(e)' = DataStart(e)
           /\ GetEndPosition(e)' = GetEndPosition(e)
  BY <1>1, <1>2, StayInv
<1>4. /\ this = This(n) /\ A = Elt(n) /\ UpperEltFound' \in Int
      /\ this' = This(n)' /\ A' = Elt(n)' /\ this \in DOMAIN heap
      /\ TypeOK /\ pos \in Nat
  <2>1. this = This(n) /\ A = Elt(n) /\ this \in DOMAIN heap /\ TypeOK /\ pos \in Nat
    BY <1>1, Standing DEF TypeOK
  <2>2. this' = This(n)' /\ A' = Elt(n)'
    BY DEF this, A, call, Last, This, Elt
  <2>. QED
    BY <2>1, <2>2, ZeroIsLevel
<1>5. TypeOK'
  <2>1. pos' \in Nat
    BY <1>1, <1>4, HeapType DEF SkipData
  <2>. QED
    BY <1>2, <1>4, <2>1 DEF TypeOK, CallRecord
<1>6. StackInv'
  <2>1. \A i \in 1 .. Len(stack') - 1 : Elt(i)' = This(i + 1)'
    BY <1>3
  <2>2. pc' = "find" \/ pc' = "loop" => UpperEltFound' = 0
    OBVIOUS
  <2>. QED
    BY <1>3, <2>1, <2>2 DEF StackInv
<1>7. OwnInv'
  <2>1. \A i \in 1 .. Len(stack') : This(i)' \notin AllListed(heap')
    BY <1>2
  <2>. QED
    BY <1>2, <2>1 DEF OwnInv, IsPassing
<1>8. BudgetInv'
  <2>1. \A i \in 1 .. Len(stack') : IsReading(i)' => i \in 1 .. n - 1
    BY <1>3 DEF IsReading
  <2>2. ASSUME pc' = "find", IsFiniteSize(this)'
        PROVE  pos' + call.MaxSizeToRead' = GetEndPosition(this)'
    <3>1. /\ IsFiniteSize(this)' = IsFiniteSize(this)
          /\ GetEndPosition(this)' = GetEndPosition(this)
      BY <1>3 DEF IsFiniteSize, GetEndPosition, DataStart
    <3>2. pos' = GetEndPosition(A)
      BY <2>2 DEF SkipData
    <3>3. GetEndPosition(A) \in Nat /\ GetEndPosition(this) \in Nat
      BY <1>1, <1>4, HeapType
    <3>. QED
      BY <1>1, <2>2, <3>1, <3>2, <3>3
  <2>. QED
    BY <1>3, <2>1, <2>2 DEF BudgetInv, BudgetIsExact
<1>9. OrderInv'
  <2>1. \A e \in Entered' : IsOrdered(heap', e)
    BY <1>2 DEF Entered
  <2>2. ASSUME NEW i \in 1 .. Len(stack'), IsReading(i)' \/ pc' = "loop"
        PROVE  IsBehind(Position(Elt(i)), This(i))'
    <3>1. CASE i = n
      <4>1. pc' = "loop"
        BY <2>2, <3>1 DEF IsReading
      <4>2. This(i)' = this' /\ Elt(i)' = A'
        BY <1>4, <3>1
      <4>. QED
        BY <4>1, <4>2 DEF IsBehind, Position, List
    <3>2. CASE i # n
      <4>1. i \in 1 .. n - 1
        BY <1>3, <3>2
      <4>. QED
        BY <1>3, <4>1
    <3>. QED
      BY <3>1, <3>2
  <2>3. ASSUME pc' = "find"
        PROVE  IsBehind(pos, this)'
    <3>. PICK m : m = this
      OBVIOUS
    <3>. PICK p \in Nat : p = GetEndPosition(A)
      BY <1>1, <1>4, HeapType
    <3>1. pos' = p /\ p > Position(A) /\ Position(A) \in Nat
      BY <1>1, <1>4, <2>3, HeapType DEF SkipData
    <3>2. IsBehind(Position(A), m)
      BY <1>1, <1>3, <1>4, Standing DEF OrderInv, IsReading
    <3>3. IsBehind(p, m)
      <4>1. Position(m) \in Nat /\ \A x \in List(m) : Position(x) \in Nat
        <5>1. List(m) \subseteq DOMAIN heap
          BY <1>1, <1>4, Standing DEF OwnInv, Owned, Lst, List
        <5>. QED
          BY <1>4, <5>1, HeapType
      <4>. QED
        BY <3>1, <3>2, <4>1 DEF IsBehind
    <3>4. IsBehind(p, m)'
      BY <1>2, <3>1, <3>3
    <3>. QED
      BY <1>3, <3>1, <3>4 DEF IsBehind, Position, List
  <2>4. ASSUME IsPassing', pc' = "processCrc"
        PROVE  Position(FoundElt)' > Position(this)'
    BY <2>4 DEF IsPassing
  <2>. QED
    BY <2>1, <2>2, <2>3, <2>4 DEF OrderInv
<1>10. ContextInv'
  <2>1. \A e \in DOMAIN heap' : IsOfContext(heap', e)
    BY <1>2
  <2>2. ReadInContext'
    BY DEF ReadInContext, IsPassing
  <2>. QED
    BY <1>3, <2>1, <2>2 DEF ContextInv
<1>11. LossInv'
  <2>1. ASSUME ~ strayed, NEW e \in DOMAIN heap', e # 1, e \notin AllListed(heap')
        PROVE  \E i \in 1 .. Len(stack') : e = This(i)'
    <3>1. e \in DOMAIN heap /\ e \notin AllListed(heap) /\ e # A
      BY <1>2, <2>1
    <3>2. PICK i \in 1 .. n : e = This(i)
      BY <1>1, <2>1, <3>1, Standing DEF LossInv
    <3>. QED
      BY <3>2
  <2>. QED
    BY <2>1 DEF LossInv
<1>. QED
  BY <1>5, <1>6, <1>7, <1>8, <1>9, <1>10, <1>11 DEF ReadInv

(* The element that travels up is not the one that was read.               *)
LEMMA PassingFacts ==
  ASSUME ReadInv, pc = "after", UpperEltFound > 0
  PROVE  /\ IsLoose(FoundElt) /\ FoundElt # A /\ FoundElt \in DOMAIN heap
         /\ \A i \in 1 .. Len(stack) : This(i) # FoundElt
         /\ FoundElt \notin AllListed(heap)
         /\ Position(FoundElt) > Position(A)
         /\ IsChildOf(ClassOf(FoundElt), Len(stack) + 1 - UpperEltFound)
         /\ strayed
<1>1. IsPassing /\ stack # << >> /\ UpperEltFound \in Int
  BY SettledFacts, Standing DEF IsPassing
<1>2. IsLoose(FoundElt) /\ FoundElt # A
  BY <1>1, Standing DEF OwnInv
<1>3. Position(FoundElt) > Position(A)
  BY <1>1, Standing DEF OrderInv
<1>4. IsChildOf(ClassOf(FoundElt), Len(stack) + 1 - UpperEltFound)
  BY <1>1, Standing DEF ContextInv, ReadInContext
<1>5. strayed
  BY <1>1, Standing DEF LossInv
<1>. QED
  BY <1>2, <1>3, <1>4, <1>5 DEF IsLoose

(* PassUp preserves it: the element found goes one level up.               *)
LEMMA PassUpInv ==
  ASSUME ReadInv, PassUp
  PROVE  ReadInv'
<1>1. /\ pc = "after" /\ UpperEltFound > 1 /\ UpperEltFound' = UpperEltFound - 1
      /\ heap' = Settled /\ pos' = SkipData /\ pc' = "processCrc"
      /\ UNCHANGED <<ReadFully, created, stack, FoundElt, strayed>>
  BY DEF PassUp
<1>2. stack # << >> /\ HasSettled(heap, heap', this, A, {}) /\ Position(A) > Position(this)
  BY <1>1, SettledFacts
<1>. PICK n \in Nat : n = Len(stack)
  BY <1>2, Standing
<1>3. /\ this' = this /\ A' = A
      /\ \A i : This(i)' = This(i) /\ Elt(i)' = Elt(i) /\ Left(i)' = Left(i)
  BY <1>1, KeptFacts
<1>4. UpperEltFound' \in Level /\ UpperEltFound' \in Int /\ UpperEltFound' > 0
      /\ UpperEltFound > 0
  <2>1. UpperEltFound \in Level /\ UpperEltFound \in Int
    BY <1>2, Standing DEF TypeOK
  <2>2. PICK m \in Masters : UpperEltFound \in 0 .. Len(Contexts[m])
    BY <1>1, <2>1 DEF Level
  <2>3. Len(Contexts[m]) \in Nat
    BY ContextAssumption
  <2>4. UpperEltFound - 1 \in 0 .. Len(Contexts[m])
    BY <1>1, <2>2, <2>3
  <2>. QED
    BY <1>1, <2>1, <2>4 DEF Level
<1>5. /\ IsLoose(FoundElt) /\ FoundElt # A /\ FoundElt \in DOMAIN heap
      /\ Position(FoundElt) > Position(A)
      /\ IsChildOf(ClassOf(FoundElt), Len(stack) + 1 - UpperEltFound)
      /\ strayed
  BY <1>1, <1>4, PassingFacts
<1>. PICK f : f = FoundElt
  OBVIOUS
<1>6. /\ IsLoose(f)' /\ ClassOf(f)' = ClassOf(f) /\ Position(f)' = Position(f)
  <2>1. \A i \in 1 .. Len(stack) : This(i)' = This(i)
    BY <1>3
  <2>2. Len(stack') = Len(stack)
    BY <1>1
  <2>3. IsLoose(f) /\ f # A /\ f \notin {}
    BY <1>5
  <2>. QED
    BY <1>1, <1>2, <2>1, <2>2, <2>3, LooseKept
<1>7. this \in DOMAIN heap /\ this \in DOMAIN heap' /\ A \in DOMAIN heap
      /\ \A e \in DOMAIN heap' : IsAlike(heap[e], heap'[e])
      /\ \A i \in 1 .. n : This(i) \in DOMAIN heap'
  <2>1. \A i \in 1 .. n : This(i) \notin {}
    OBVIOUS
  <2>2. /\ \A e \in DOMAIN heap' : IsAlike(heap[e], heap'[e])
        /\ \A i \in 1 .. n : This(i) \in DOMAIN heap'
    BY <1>1, <1>2, <2>1, SettledHeap
  <2>3. this = This(n) /\ n \in 1 .. n /\ this \in DOMAIN heap
    BY <1>2, Standing
  <2>. QED
    BY <1>1, <2>2, <2>3, SettledFacts
<1>8. Position(FoundElt)' > Position(this)'
  <2>1. Position(this)' = Position(this) /\ Position(FoundElt)' = Position(f)
    BY <1>1, <1>3, <1>6, <1>7 DEF Position, IsAlike
  <2>2. /\ Position(f) \in Nat /\ Position(A) \in Nat /\ Position(this) \in Nat
    BY <1>2, <1>5, <1>7, HeapType, Standing
  <2>. QED
    BY <1>2, <1>5, <2>1, <2>2
<1>9. IsChildOf(ClassOf(FoundElt), Len(stack) - UpperEltFound)'
  <2>. PICK k \in Int : k = n + 1 - UpperEltFound
    BY <1>2, Standing
  <2>1. Len(stack') - UpperEltFound' = k /\ k \in Int /\ k < n
    BY <1>1, <1>4, <1>2, Standing
  <2>2. k >= 1 => ClassOf(This(k))' = ClassOf(This(k))
    <3>1. k >= 1 => k \in 1 .. n
      BY <2>1
    <3>. QED
      BY <1>3, <1>7, <3>1 DEF ClassOf, IsAlike
  <2>3. ClassOf(FoundElt)' = ClassOf(f)
    BY <1>1, <1>6 DEF ClassOf
  <2>. QED
    BY <1>5, <2>1, <2>2, <2>3 DEF IsChildOf
<1>10. FoundElt' \in Element \cup {Null}
  BY <1>1, <1>2, Standing DEF TypeOK
<1>11. IsLoose(FoundElt)'
  BY <1>1, <1>6 DEF IsLoose
<1>12. stack' \in Seq(CallRecord) /\ Len(stack') = n
  BY <1>1, <1>2, Standing
<1>. QED
  <2>1. \A i \in 1 .. n : This(i)' = This(i) /\ This(i) \notin {}
    BY <1>3
  <2>2. \A i \in 1 .. n - 1 : Elt(i)' = Elt(i) /\ Left(i)' = Left(i)
    BY <1>3
  <2>3. UpperEltFound' >= 0
    BY <1>4
  <2>4. UNCHANGED <<ReadFully, created, strayed>> /\ strayed
    BY <1>1, <1>5
  <2>. QED
    BY <1>1, <1>2, <1>4, <1>8, <1>9, <1>10, <1>11, <1>12, <2>1, <2>2, <2>3, <2>4, AfterInv

(* DropFoundElt preserves it: the element found is deleted.                *)
LEMMA DropFoundEltInv ==
  ASSUME ReadInv, DropFoundElt
  PROVE  ReadInv'
<1>1. /\ pc = "after" /\ UpperEltFound = 1 /\ UpperEltFound' = 0 /\ FoundElt' = Null
      /\ heap' = Delete(Settled, {FoundElt}) /\ pos' = SkipData /\ pc' = "processCrc"
      /\ UNCHANGED <<ReadFully, created, stack, strayed>>
  BY DEF DropFoundElt
<1>2. /\ FoundElt # A /\ FoundElt \in DOMAIN heap
      /\ \A i \in 1 .. Len(stack) : This(i) # FoundElt
      /\ FoundElt \notin AllListed(heap) /\ strayed
  BY <1>1, PassingFacts
<1>3. stack # << >> /\ HasSettled(heap, Settled, this, A, {})
  BY <1>1, SettledFacts
<1>4. HasSettled(heap, heap', this, A, {FoundElt})
  BY <1>1, <1>2, <1>3, DropSettles
<1>. PICK n \in Nat : n = Len(stack)
  BY <1>3, Standing
<1>5. \A i : This(i)' = This(i) /\ Elt(i)' = Elt(i) /\ Left(i)' = Left(i)
  BY <1>1, KeptFacts
<1>6. stack' \in Seq(CallRecord) /\ Len(stack') = n
  BY <1>1, <1>3, Standing
<1>. QED
  <2>1. \A i \in 1 .. n : This(i)' = This(i) /\ This(i) \notin {FoundElt}
    BY <1>2, <1>5
  <2>2. \A i \in 1 .. n - 1 : Elt(i)' = Elt(i) /\ Left(i)' = Left(i)
    BY <1>5
  <2>3. UpperEltFound' >= 0 /\ UpperEltFound' \in Level /\ ~ (UpperEltFound' > 0)
    BY <1>1, ZeroIsLevel
  <2>. PICK X : X = {FoundElt}
    OBVIOUS
  <2>4. HasSettled(heap, heap', this, A, X) /\ \A i \in 1 .. n : This(i) \notin X
    BY <1>4, <2>1
  <2>. QED
    BY <1>1, <1>2, <1>6, <2>1, <2>2, <2>3, <2>4, AfterInv

(* NextChild preserves it.                                                 *)
LEMMA NextChildInv ==
  ASSUME ReadInv, NextChild
  PROVE  ReadInv'
<1>1. /\ pc = "after" /\ UpperEltFound' = 0
      /\ heap' = Settled /\ pos' = SkipData
      /\ (pc' = "find" /\ IsFiniteSize(A)) \/ pc' = "processCrc"
      /\ UNCHANGED <<ReadFully, created, stack, FoundElt, strayed>>
  BY DEF NextChild
<1>2. stack # << >> /\ HasSettled(heap, heap', this, A, {})
  BY <1>1, SettledFacts
<1>. PICK n \in Nat : n = Len(stack)
  BY <1>2, Standing
<1>3. /\ call.MaxSizeToRead' = call.MaxSizeToRead
      /\ \A i : This(i)' = This(i) /\ Elt(i)' = Elt(i) /\ Left(i)' = Left(i)
  BY <1>1, KeptFacts
<1>4. /\ stack' \in Seq(CallRecord) /\ Len(stack') = n
      /\ FoundElt' \in Element \cup {Null} /\ (~ strayed => FoundElt' = Null)
  BY <1>1, <1>2, Standing DEF TypeOK, LossInv
<1>. QED
  <2>1. \A i \in 1 .. n : This(i)' = This(i) /\ This(i) \notin {}
    BY <1>3
  <2>2. \A i \in 1 .. n - 1 : Elt(i)' = Elt(i) /\ Left(i)' = Left(i)
    BY <1>3
  <2>3. UpperEltFound' >= 0 /\ UpperEltFound' \in Level /\ ~ (UpperEltFound' > 0)
    BY <1>1, ZeroIsLevel
  <2>. QED
    BY <1>1, <1>2, <1>3, <1>4, <2>1, <2>2, <2>3, AfterInv

(* AdoptFoundElt preserves it: the element found is the next child.        *)
LEMMA AdoptFoundEltInv ==
  ASSUME ReadInv, AdoptFoundElt
  PROVE  ReadInv'
<1>1. /\ pc = "after" /\ UpperEltFound = 1 /\ UpperEltFound' = 0
      /\ heap' = Settled /\ pos' = SkipData
      /\ UNCHANGED <<ReadFully, created, FoundElt, strayed>>
      /\ \/ /\ ~ EndsOutside /\ pc' = "loop"
            /\ stack' = SetCall(FoundElt, Budget(FoundElt))
         \/ pc' = "processCrc" /\ stack' = SetElementLevelA(FoundElt)
  BY DEF AdoptFoundElt
<1>2. stack # << >> /\ HasSettled(heap, heap', this, A, {}) /\ Position(A) > Position(this)
  BY <1>1, SettledFacts
<1>. PICK n \in Nat : n = Len(stack)
  BY <1>2, Standing
<1>3. /\ IsLoose(FoundElt) /\ FoundElt # A /\ FoundElt \in DOMAIN heap
      /\ Position(FoundElt) > Position(A)
      /\ IsChildOf(ClassOf(FoundElt), n)
      /\ strayed
  <2>1. UpperEltFound > 0 /\ Len(stack) + 1 - UpperEltFound = n
    BY <1>1
  <2>. QED
    BY <1>1, <2>1, PassingFacts
<1>4. /\ TypeOK /\ this \in DOMAIN heap /\ A \in DOMAIN heap /\ A = Elt(n)
      /\ this = This(n) /\ n \in 1 .. n /\ n >= 1
      /\ call.MaxSizeToRead \in 0 .. NoLimit /\ FoundElt \in Element
  <2>1. A \in DOMAIN heap
    BY <1>1, SettledFacts
  <2>2. TypeOK
    BY <1>2, Standing
  <2>3. FoundElt \in Element
    BY <1>3, <2>2, HeapType
  <2>. QED
    BY <1>2, <2>1, <2>3, Standing
<1>5. ~ EndsOutside => /\ Budget(FoundElt) \in 0 .. NoLimit
                       /\ IsFiniteSize(this) /\ IsFiniteSize(FoundElt) =>
                            GetEndPosition(FoundElt) <= GetEndPosition(this)
  <2>1. SUFFICES ASSUME ~ EndsOutside
                 PROVE  /\ Budget(FoundElt) \in 0 .. NoLimit
                        /\ IsFiniteSize(this) /\ IsFiniteSize(FoundElt) =>
                            GetEndPosition(FoundElt) <= GetEndPosition(this)
    OBVIOUS
  <2>2. GetEndPosition(FoundElt) \in Nat /\ GetEndPosition(this) \in Nat
    BY <1>3, <1>4, HeapType
  <2>3. IsFiniteSize(this) /\ IsFiniteSize(FoundElt) =>
          GetEndPosition(FoundElt) <= GetEndPosition(this)
    BY <2>1, <2>2 DEF EndsOutside
  <2>. QED
    BY <1>3, <1>4, <2>3, BudgetFacts DEF Budget
<1>6. /\ stack' \in Seq(CallRecord) /\ Len(stack') = n
      /\ this' = this /\ A' = FoundElt
      /\ \A i \in 1 .. n : This(i)' = This(i)
      /\ \A i \in 1 .. n - 1 : Elt(i)' = Elt(i) /\ Left(i)' = Left(i)
  <2>1. PICK b \in 0 .. NoLimit : stack' = SetCall(FoundElt, b)
    BY <1>1, <1>4, <1>5 DEF SetElementLevelA
  <2>. PICK f : f = FoundElt
    OBVIOUS
  <2>2. f \in Element \cup {Null} /\ stack' = SetCall(f, b)
    BY <1>4, <2>1
  <2>3. /\ stack' \in Seq(CallRecord) /\ Len(stack') = Len(stack)
        /\ this' = this /\ A' = f
        /\ \A i \in 1 .. Len(stack) :
              /\ This(i)' = This(i)
              /\ Elt(i)' = IF i = Len(stack) THEN f ELSE Elt(i)
              /\ Left(i)' = IF i = Len(stack) THEN b ELSE Left(i)
    BY <1>2, <1>4, <2>2, ToppedFacts
  <2>. QED
    BY <2>3
<1>. PICK f : f = FoundElt
  OBVIOUS
<1>7. /\ IsLoose(f)' /\ f \in DOMAIN heap'
      /\ ClassOf(f)' = ClassOf(f) /\ Position(f)' = Position(f)
      /\ IsFiniteSize(f)' = IsFiniteSize(f)
      /\ GetEndPosition(f)' = GetEndPosition(f)
  <2>1. IsLoose(f) /\ f # A /\ f \notin {}
    BY <1>3
  <2>2. \A i \in 1 .. Len(stack) : This(i)' = This(i)
    BY <1>6
  <2>3. Len(stack') = Len(stack)
    BY <1>6
  <2>. QED
    BY <1>1, <1>2, <2>1, <2>2, <2>3, LooseKept
<1>8. /\ this \in DOMAIN heap'
      /\ \A e \in DOMAIN heap' : IsAlike(heap[e], heap'[e])
      /\ \A p, m : m = this /\ IsBehind(p, m) /\ p > Position(A) => IsBehind(p, m)'
  <2>1. \A i \in 1 .. n : This(i) \notin {}
    OBVIOUS
  <2>2. /\ \A e \in DOMAIN heap' : IsAlike(heap[e], heap'[e])
        /\ \A i \in 1 .. n : This(i) \in DOMAIN heap'
        /\ \A p, m : m = this /\ IsBehind(p, m) /\ p > Position(A) => IsBehind(p, m)'
    BY <1>1, <1>2, <2>1, SettledHeap
  <2>. QED
    BY <1>4, <2>2
<1>9. ASSUME pc' = "loop"
      PROVE  /\ IsLoose(A)'
             /\ IsFiniteSize(this)' /\ IsFiniteSize(A)' =>
                  GetEndPosition(A)' <= GetEndPosition(this)'
             /\ IsBehind(Position(A), this)'
             /\ ClassOf(A)' \in Children[ClassOf(this)']
  <2>. PICK m : m = this
    OBVIOUS
  <2>1. /\ ClassOf(m)' = ClassOf(m) /\ Position(m)' = Position(m)
        /\ IsFiniteSize(m)' = IsFiniteSize(m)
        /\ GetEndPosition(m)' = GetEndPosition(m)
    BY <1>8 DEF IsAlike, ClassOf, Position, IsFiniteSize, DataStart, GetEndPosition
  <2>2. this' = m /\ A' = f
    BY <1>6
  <2>3. ~ EndsOutside
    BY <1>1, <1>9
  <2>4. IsLoose(A)'
    BY <1>7, <2>2 DEF IsLoose
  <2>5. IsFiniteSize(this)' /\ IsFiniteSize(A)' =>
          GetEndPosition(A)' <= GetEndPosition(this)'
    BY <1>5, <1>7, <2>1, <2>2, <2>3 DEF IsFiniteSize, GetEndPosition, DataStart
  <2>6. IsBehind(Position(A), this)'
    <3>. PICK p \in Nat : p = Position(f)
      BY <1>3, <1>4, HeapType
    <3>. PICK q \in Nat : q = Position(A)
      BY <1>4, HeapType
    <3>1. IsBehind(q, m)
      BY <1>1, <1>2, <1>4, Standing DEF OrderInv, IsReading
    <3>2. IsBehind(p, m)
      <4>1. Position(m) \in Nat /\ \A x \in List(m) : Position(x) \in Nat
        <5>1. List(m) \subseteq DOMAIN heap
          BY <1>2, <1>4, Standing DEF OwnInv, Owned, Lst, List
        <5>. QED
          BY <1>4, <5>1, HeapType
      <4>2. p > q
        BY <1>3
      <4>. QED
        BY <3>1, <4>1, <4>2 DEF IsBehind
    <3>3. IsBehind(p, m)'
      BY <1>3, <1>8, <3>2
    <3>4. Position(A)' = p
      BY <1>7, <2>2 DEF Position
    <3>. QED
      BY <2>2, <3>3, <3>4 DEF IsBehind, Position, List
  <2>7. ClassOf(A)' \in Children[ClassOf(this)']
    <3>1. ClassOf(f) \in Children[ClassOf(m)]
      BY <1>3, <1>4 DEF IsChildOf
    <3>. QED
      BY <1>7, <2>1, <2>2, <3>1 DEF ClassOf
  <2>. QED
    BY <2>4, <2>5, <2>6, <2>7
<1>. QED
  <2>1. \A i \in 1 .. n : This(i)' = This(i) /\ This(i) \notin {}
    BY <1>6
  <2>2. UpperEltFound' >= 0 /\ UpperEltFound' \in Level /\ ~ (UpperEltFound' > 0)
    BY <1>1, ZeroIsLevel
  <2>3. FoundElt' \in Element \cup {Null} /\ pc' \in {"loop", "processCrc"}
    BY <1>1, <1>4
  <2>. QED
    BY <1>1, <1>2, <1>3, <1>6, <1>9, <2>1, <2>2, <2>3, AfterInv

(* Whatever a call does, what is known of the reading stays true.          *)
LEMMA NextInv ==
  ASSUME ReadInv, [Next]_vars
  PROVE  ReadInv'
<1>1. CASE \E class \in Class, finite \in BOOLEAN,
              position \in 0 .. StreamEnd, size \in 0 .. SizeBound :
              FindElementAt(class, finite, position, size)
  BY <1>1, FindElementAtInv
<1>2. CASE Enter \/ FindNothing \/ LoopEnds
  BY <1>2, EnterInv, FindNothingInv, LoopEndsInv
<1>3. CASE ReadLeaf \/ LeafThrows \/ ReadMaster
  BY <1>3, ReadLeafInv, LeafThrowsInv, ReadMasterInv
<1>4. CASE PassUp \/ DropFoundElt \/ AdoptFoundElt \/ NextChild
  BY <1>4, PassUpInv, DropFoundEltInv, AdoptFoundEltInv, NextChildInv
<1>5. CASE TakeChecksum \/ NoChecksum \/ DeleteEndOfList \/ Unwind
  BY <1>5, TakeChecksumInv, NoChecksumInv, DeleteEndOfListInv, UnwindInv
<1>6. CASE UNCHANGED vars
  <2>1. UNCHANGED <<ReadFully, pos, heap, created, stack, UpperEltFound, FoundElt,
                    strayed, pc>>
    BY <1>6 DEF vars
  <2>2. TypeOK'
    BY <2>1 DEF ReadInv, TypeOK
  <2>3. StackInv'
    BY <2>1 DEF ReadInv, StackInv, This, Elt, ClassOf, A, call, Last
  <2>4. OwnInv'
    BY <2>1 DEF ReadInv, OwnInv, This, A, call, Last, IsLoose, IsPassing
  <2>5. BudgetInv'
    BY <2>1 DEF ReadInv, BudgetInv, BudgetIsExact, IsReading, IsFiniteSize, This, Elt, Left,
                GetEndPosition, DataStart, this, A, call, Last
  <2>6. OrderInv'
    BY <2>1 DEF ReadInv, OrderInv, Entered, IsReading, IsBehind, Position, List, This, Elt,
                this, A, call, Last, IsPassing
  <2>7. ContextInv'
    BY <2>1 DEF ReadInv, ContextInv, CallsInContext, ReadInContext, IsChildOf, ClassOf,
                This, this, A, call, Last, IsPassing
  <2>8. LossInv'
    BY <2>1 DEF ReadInv, LossInv, This, A, call, Last, DataStart
  <2>. QED
    BY <2>2, <2>3, <2>4, <2>5, <2>6, <2>7, <2>8 DEF ReadInv
<1>. QED
  BY <1>1, <1>2, <1>3, <1>4, <1>5, <1>6 DEF Next

-----------------------------------------------------------------------------
(* A reading starts with the root's head, and the checksum of an earlier   *)
(* reading in its list.                                                    *)
LEMMA InitInv ==
  ASSUME Init
  PROVE  ReadInv
<1>1. /\ ReadFully \in {"SCOPE_ALL_DATA", "SCOPE_PARTIAL_DATA"}
      /\ pos = 1 /\ created = 2 /\ stack = <<Call(1)>>
      /\ UpperEltFound = 0 /\ FoundElt = Null /\ strayed = FALSE /\ pc = "enter"
  BY DEF Init
<1>2. PICK finite \in BOOLEAN, again \in BOOLEAN, size \in 0 .. StreamEnd :
        heap = HeapBefore(finite, again, size)
  BY DEF Init
<1>. DEFINE list == IF again THEN <<2>> ELSE << >>
            used == IF again THEN TRUE ELSE FALSE
            root == RootBefore(finite, used, size, list)
            checksum == NewElement(EbmlCrc32, TRUE, 1, 0)
<1>17. heap = IF again THEN <<root, checksum>> ELSE <<root>>
  BY <1>2 DEF HeapBefore
<1>18. /\ root.class = Root /\ root.bSizeIsFinite = finite /\ root.ElementPosition = 0
       /\ root.Size = size /\ root.ElementList = list
  BY DEF RootBefore, NewElement
<1>. HIDE DEF root, list, used
<1>19. /\ DOMAIN heap = IF again THEN {1, 2} ELSE {1}
       /\ heap[1] = root
       /\ again => heap[2] = checksum
  <2>. HIDE DEF checksum
  <2>1. CASE again
    <3>1. heap = <<root, checksum>>
      BY <1>17, <2>1
    <3>2. DOMAIN heap = {1, 2} /\ heap[1] = root /\ heap[2] = checksum
      BY <3>1
    <3>. QED
      BY <2>1, <3>2
  <2>2. CASE ~ again
    <3>1. heap = <<root>>
      BY <1>17, <2>2
    <3>2. DOMAIN heap = {1} /\ heap[1] = root
      BY <3>1
    <3>. QED
      BY <2>2, <3>2
  <2>. QED
    BY <2>1, <2>2
<1>3. /\ 1 \in DOMAIN heap /\ DOMAIN heap \subseteq {1, 2}
      /\ heap[1].class = Root /\ heap[1].ElementPosition = 0
      /\ heap[1].ElementList = IF again THEN <<2>> ELSE << >>
      /\ 2 \in DOMAIN heap => /\ again /\ heap[2].class = EbmlCrc32
                              /\ heap[2].ElementPosition = 1
                              /\ heap[2].ElementList = << >>
      /\ again => 2 \in DOMAIN heap
  BY <1>18, <1>19 DEF list, NewElement
<1>4. /\ Len(stack) = 1 /\ stack # << >> /\ This(1) = 1 /\ Elt(1) = Null /\ Left(1) = 0
      /\ this = 1 /\ stack[1] = Call(1)
  BY <1>1 DEF Call, This, Elt, Left, this, call, Last
<1>5. /\ {1, 2} \subseteq Element /\ Root \in Class /\ EbmlCrc32 \in Class
      /\ << >> \in Seq(Element) /\ <<2>> \in Seq(Element)
  BY BoundAssumption, ClassAssumption DEF Element, Class
<1>6. TypeOK
  <2>1. 0 \in 0 .. NoLimit
    BY BoundAssumption DEF NoLimit
  <2>2. Call(1) \in [this : Element, MaxSizeToRead : 0 .. NoLimit,
                     ElementLevelA : Element \cup {Null}]
    BY <1>5, <2>1 DEF Call
  <2>3. stack \in Seq([this : Element, MaxSizeToRead : 0 .. NoLimit,
                       ElementLevelA : Element \cup {Null}])
    BY <1>1, <2>2
  <2>4. \A n \in 0 .. StreamEnd : n \in 0 .. Max({StreamEnd, SizeBound})
    BY MaxOfTwo, BoundAssumption
  <2>5. 0 \in 0 .. StreamEnd /\ 1 \in 0 .. StreamEnd
    BY BoundAssumption
  <2>6. list \in Seq(Element) /\ used \in BOOLEAN
    BY <1>5 DEF list, used
  <2>7. root \in ElementRecord
    <3>1. NewElement(Root, finite, 0, size) \in ElementRecord
      BY <1>5, <2>4, <2>5 DEF ElementRecord, NewElement
    <3>. QED
      BY <2>6, <3>1 DEF ElementRecord, root, RootBefore
  <2>9. checksum \in ElementRecord
    BY <1>5, <2>4, <2>5 DEF ElementRecord, NewElement
  <2>10. \A e \in DOMAIN heap : heap[e] \in ElementRecord
    BY <1>19, <2>7, <2>9
  <2>11. DOMAIN heap \subseteq 1 .. created /\ created \in Element
    BY <1>1, <1>3, <1>5
  <2>12. FoundElt \in Element \cup {Null} /\ strayed \in BOOLEAN /\ pos \in Nat
    BY <1>1
  <2>. QED
    BY <1>1, <2>3, <2>10, <2>11, <2>12, ZeroIsLevel DEF TypeOK
<1>7. /\ Lst(heap, 1) = IF again THEN {2} ELSE {}
      /\ 2 \in DOMAIN heap => Lst(heap, 2) = {}
  BY <1>3 DEF Lst, Range
<1>8. StackInv
  <2>1. Root \in Masters
    BY ClassAssumption
  <2>2. \A i \in 1 .. Len(stack) : i = 1
    BY <1>4
  <2>3. 1 .. Len(stack) - 1 = {}
    BY <1>4
  <2>. QED
    BY <1>1, <1>3, <1>4, <2>1, <2>2, <2>3 DEF StackInv, ClassOf
<1>9. Owned(heap)
  <2>1. IsInjective(heap[1].ElementList)
    BY <1>3 DEF IsInjective
  <2>2. 2 \in DOMAIN heap => IsInjective(heap[2].ElementList)
    BY <1>3 DEF IsInjective
  <2>. QED
    BY <1>3, <1>7, <2>1, <2>2 DEF Owned
<1>10. 1 \notin AllListed(heap) /\ (2 \in DOMAIN heap => 2 \in AllListed(heap))
  BY <1>3, <1>7 DEF AllListed
<1>11. OwnInv
  BY <1>1, <1>4, <1>9, <1>10 DEF OwnInv, IsPassing
<1>12. ~ IsReading(1) /\ 1 .. Len(stack) = {1}
  BY <1>1, <1>4 DEF IsReading
<1>13. BudgetInv
  BY <1>1, <1>12 DEF BudgetInv, BudgetIsExact
<1>14. OrderInv
  <2>1. Entered \subseteq {2}
    BY <1>1, <1>3, <1>4 DEF Entered
  <2>2. 2 \in DOMAIN heap => IsOrdered(heap, 2)
    BY <1>3, <1>7 DEF IsOrdered
  <2>3. \A e \in Entered : e = 2 /\ e \in DOMAIN heap
    BY <2>1 DEF Entered
  <2>. QED
    BY <1>1, <1>12, <2>2, <2>3 DEF OrderInv, IsPassing
<1>15. ContextInv
  <2>1. \A e \in DOMAIN heap : IsOfContext(heap, e)
    BY <1>3, <1>7, ClassAssumption DEF IsOfContext
  <2>2. ClassOf(This(1)) = Root /\ Len(Contexts[Root]) = 1 /\ Contexts[Root][1] = Root
    BY <1>3, <1>4, ContextAssumption DEF ClassOf
  <2>3. /\ \A i \in 1 .. Len(stack) : i = 1
        /\ \A j \in 1 .. 1 : j = 1 /\ 1 + 1 - j = 1
        /\ 1 .. Len(stack) - 1 = {}
    BY <1>4
  <2>4. CallsInContext
    BY <2>2, <2>3 DEF CallsInContext
  <2>. QED
    BY <1>1, <2>1, <2>4 DEF ContextInv, ReadInContext, IsPassing
<1>16. LossInv
  BY <1>1, <1>3, <1>10 DEF LossInv
<1>. QED
  BY <1>6, <1>8, <1>11, <1>13, <1>14, <1>15, <1>16 DEF ReadInv

(* What is alive in the end is in the tree of the root: an element that is *)
(* not would be listed by one that starts before it and is not either.     *)
LEMMA TreeIsWhole ==
  ASSUME TypeOK, 1 \in DOMAIN heap,
         \A e \in DOMAIN heap : IsOrdered(heap, e),
         \A e \in DOMAIN heap : e = 1 \/ e \in AllListed(heap)
  PROVE  DOMAIN heap = Subtree(heap, 1)
<1>. DEFINE Out == DOMAIN heap \ Subtree(heap, 1)
            Places == {Position(e) : e \in Out}
<1>1. SUFFICES ASSUME Out # {}
               PROVE  FALSE
  BY SubtreeFacts
<1>2. Places \in SUBSET Nat /\ Places # {}
  BY <1>1, HeapType
<1>3. PICK e \in Out : \A f \in Out : Position(e) <= Position(f)
  <2>1. Min(Places) \in Places /\ \A n \in Places : Min(Places) <= n
    BY <1>2, MinOfNaturals
  <2>. QED
    BY <2>1
<1>4. e \in DOMAIN heap /\ e # 1
  BY SubtreeFacts
<1>5. PICK o \in DOMAIN heap : e \in Lst(heap, o)
  BY <1>4 DEF AllListed
<1>6. o \in Out
  <2>1. o \in Subtree(heap, 1) => e \in Subtree(heap, 1)
    BY <1>4, <1>5, SubtreeFacts
  <2>. QED
    BY <2>1
<1>7. Position(e) > Position(o)
  BY <1>5 DEF IsOrdered, Position
<1>8. Position(e) \in Nat /\ Position(o) \in Nat
  BY <1>4, HeapType
<1>. QED
  BY <1>3, <1>6, <1>7, <1>8

-----------------------------------------------------------------------------
(* What the calls of SkipData are, and the one on top.                     *)
LEMMA SkipTop ==
  ASSUME SkipTypeOK
  PROVE  /\ skips \in Seq(SkipCallType) /\ Len(skips) \in Nat \ {0}
         /\ \A i \in 1 .. Len(skips) : skips[i] \in SkipCallType
         /\ top = skips[Len(skips)] /\ top \in SkipCallType
         /\ Len(skips) \in 1 .. Len(skips)
<1>1. /\ skips \in Seq(SkipCallType) /\ skips # << >>
  BY DEF SkipTypeOK
<1>2. /\ Len(skips) \in Nat \ {0}
      /\ \A i \in 1 .. Len(skips) : skips[i] \in SkipCallType
  BY <1>1, EmptySeq, LenProperties, ElementOfSeq
<1>. QED
  BY <1>1, <1>2 DEF top, Last

(* A context is empty, or that of the master it begins with; so is what is *)
(* above it.                                                               *)
LEMMA ChainFacts ==
  ASSUME NEW c \in {Contexts[m] : m \in Masters} \cup {Global}
  PROVE  /\ c \in Seq(Masters) /\ Len(c) \in Nat /\ DOMAIN c = 1 .. Len(c)
         /\ c = Global => Len(c) = 0
         /\ c # Global =>
              /\ Len(c) > 0 /\ c[1] \in Masters /\ c = Contexts[c[1]]
              /\ Parent(c) \in {Contexts[m] : m \in Masters} \cup {Global}
              /\ Len(Parent(c)) = Len(c) - 1
              /\ \A i \in 1 .. Len(c) - 1 : Parent(c)[i] = c[i + 1]
         /\ \A i \in 1 .. Len(c) :
              c[i] \in Masters /\ Contexts[c[i]] = SubSeq(c, i, Len(c))
<1>1. CASE c = Global
  <2>1. c = << >> /\ Len(c) = 0 /\ c \in Seq(Masters) /\ DOMAIN c = {}
    BY <1>1 DEF Global
  <2>2. 1 .. Len(c) = {}
    BY <2>1
  <2>. QED
    BY <1>1, <2>1, <2>2
<1>2. CASE c # Global
  <2>1. PICK m \in Masters : c = Contexts[m]
    BY <1>2
  <2>2. /\ c \in Seq(Masters) /\ Len(c) > 0 /\ c[1] = m
        /\ \A i \in DOMAIN c : Contexts[c[i]] = SubSeq(c, i, Len(c))
    BY <2>1, ContextAssumption
  <2>3. Len(c) \in Nat /\ DOMAIN c = 1 .. Len(c) /\ \A i \in 1 .. Len(c) : c[i] \in Masters
    BY <2>2, LenProperties, ElementOfSeq
  <2>4. c # << >>
    BY <2>2, <2>3
  <2>5. /\ Parent(c) \in Seq(Masters) /\ Len(Parent(c)) = Len(c) - 1
        /\ \A i \in 1 .. Len(c) - 1 : Parent(c)[i] = c[i + 1]
    BY <2>2, <2>4, HeadTailProperties DEF Parent
  <2>6. ASSUME Len(c) = 1
        PROVE  Parent(c) = Global
    BY <2>5, <2>6, EmptySeq DEF Global
  <2>7. ASSUME Len(c) # 1
        PROVE  Parent(c) \in {Contexts[k] : k \in Masters}
    <3>1. 2 \in 1 .. Len(c)
      BY <2>2, <2>3, <2>7
    <3>2. Contexts[c[2]] = SubSeq(c, 2, Len(c)) /\ c[2] \in Masters
      BY <2>2, <2>3, <3>1
    <3>3. Parent(c) = SubSeq(c, 2, Len(c))
      BY DEF Parent
    <3>. QED
      BY <3>2, <3>3
  <2>8. c[1] \in Masters /\ c = Contexts[c[1]]
    BY <2>1, <2>2
  <2>. QED
    BY <1>2, <2>2, <2>3, <2>5, <2>6, <2>7, <2>8
<1>. QED
  BY <1>1, <1>2

(* An element that is found in a context is in its table or in one above,  *)
(* unless it is a master of the chain, above which no table has it.        *)
LEMMA FoundWhere ==
  ASSUME NEW c \in {Contexts[m] : m \in Masters} \cup {Global}, NEW class,
         IF c = Global THEN class \in Globals ELSE LevelOf(c[1], class) # {}
  PROVE  HasNoTable(class) \/ HasTableFrom(class, c)
<1>1. CASE c = Global
  BY <1>1 DEF HasTableFrom
<1>2. CASE c # Global
  <2>1. /\ Len(c) \in Nat /\ DOMAIN c = 1 .. Len(c) /\ c = Contexts[c[1]] /\ c[1] \in Masters
        /\ c \in Seq(Masters)
        /\ \A i \in 1 .. Len(c) : c[i] \in Masters /\ Contexts[c[i]] = SubSeq(c, i, Len(c))
    BY <1>2, ChainFacts
  <2>2. SUFFICES ASSUME class \notin Globals, ~ HasTableFrom(class, c)
                 PROVE  HasNoTable(class)
    BY DEF HasTableFrom
  <2>3. {i \in DOMAIN Contexts[c[1]] : IsKnown(Contexts[c[1]][i], class)} # {}
    BY <1>2, <2>2 DEF LevelOf
  <2>4. PICK i \in 1 .. Len(c) : IsKnown(c[i], class)
    BY <2>1, <2>3
  <2>5. class = c[i]
    BY <2>1, <2>2, <2>4 DEF IsKnown, HasTableFrom
  <2>6. ASSUME NEW m \in Masters, class \in Children[m]
        PROVE  FALSE
    <3>1. class \in Children[m] \cap Masters
      BY <2>1, <2>5, <2>6
    <3>2. Contexts[class] = <<class>> \o Contexts[m]
      BY <3>1, ContextAssumption
    <3>3. Contexts[m] \in Seq(Masters) /\ Len(Contexts[m]) \in Nat \ {0} /\ Contexts[m][1] = m
      BY ContextAssumption
    <3>4. Len(Contexts[class]) = 1 + Len(Contexts[m]) /\ Contexts[class][2] = m
      BY <3>2, <3>3
    <3>5. Contexts[class] = SubSeq(c, i, Len(c))
      BY <2>1, <2>5
    <3>6. Len(SubSeq(c, i, Len(c))) = Len(c) - i + 1
      BY <2>1, SubSeqProperties
    <3>7. i + 1 \in 1 .. Len(c)
      BY <2>1, <3>3, <3>4, <3>5, <3>6
    <3>8. SubSeq(c, i, Len(c))[2] = c[i + 1]
      BY <2>1, <3>7, SubSeqProperties
    <3>9. c[i + 1] = m
      BY <3>4, <3>5, <3>8
    <3>. QED
      BY <2>1, <2>2, <2>6, <3>7, <3>9 DEF HasTableFrom
  <2>. QED
    BY <2>2, <2>6 DEF HasNoTable
<1>. QED
  BY <1>1, <1>2

(* An element that the context does not have is in a table above it, or in *)
(* none.                                                                   *)
LEMMA TestedAbove ==
  ASSUME NEW c \in {Contexts[m] : m \in Masters} \cup {Global}, NEW class,
         HasNoTable(class) \/ HasTableFrom(class, c), ~ InTable(class, c)
  PROVE  IF c = Global THEN HasNoTable(class)
         ELSE HasNoTable(class) \/ HasTableFrom(class, Parent(c))
<1>1. CASE c = Global
  <2>1. class \notin Globals /\ DOMAIN c = {}
    BY <1>1 DEF InTable, Global
  <2>. QED
    BY <1>1, <2>1 DEF HasTableFrom
<1>2. CASE c # Global
  <2>1. SUFFICES ASSUME HasTableFrom(class, c), class \notin Globals
                 PROVE  HasTableFrom(class, Parent(c))
    BY <1>2 DEF HasTableFrom
  <2>2. /\ Len(c) \in Nat /\ Len(c) > 0 /\ DOMAIN c = 1 .. Len(c)
        /\ Len(Parent(c)) = Len(c) - 1
        /\ \A i \in 1 .. Len(c) - 1 : Parent(c)[i] = c[i + 1]
        /\ DOMAIN Parent(c) = 1 .. Len(Parent(c))
    BY <1>2, ChainFacts
  <2>3. PICK i \in 1 .. Len(c) : class \in Children[c[i]]
    BY <2>1, <2>2 DEF HasTableFrom
  <2>4. class \notin Children[c[1]]
    BY <1>2 DEF InTable
  <2>5. i - 1 \in 1 .. Len(c) - 1 /\ (i - 1) + 1 = i
    BY <2>2, <2>3, <2>4
  <2>6. Parent(c)[i - 1] = c[i]
    BY <2>2, <2>5
  <2>. QED
    BY <2>2, <2>3, <2>5, <2>6 DEF HasTableFrom
<1>. QED
  BY <1>1, <1>2

(* What a step keeps that neither creates nor changes an element.          *)
LEMMA SkipKept ==
  ASSUME SkipInv, UNCHANGED <<heap, created>>, UNCHANGED_Read, pos' \in Nat,
         step' \in {"loop", "found", "return", "done"},
         skips' \in Seq(SkipCallType), skips' # << >>,
         Skipped' \in DOMAIN heap \cup {Null}
  PROVE  /\ SkipTypeOK'
         /\ \A e \in DOMAIN heap : FoundEnd(e)' = FoundEnd(e) /\ DataStart(e)' = DataStart(e)
         /\ \A e, f \in DOMAIN heap' \ {1} :
              e < f => heap'[f].ElementPosition >= FoundEnd(e)'
<1>1. /\ SkipTypeOK
      /\ \A e, f \in DOMAIN heap \ {1} : e < f => heap[f].ElementPosition >= FoundEnd(e)
  BY DEF SkipInv
<1>2. UNCHANGED <<ReadFully, stack, UpperEltFound, FoundElt, strayed, pc>>
  BY DEF UNCHANGED_Read
<1>3. \A e : FoundEnd(e)' = FoundEnd(e) /\ DataStart(e)' = DataStart(e)
  BY DEF FoundEnd, DataStart, GetEndPosition, IsFiniteSize
<1>4. SkipTypeOK'
  BY <1>1, <1>2 DEF SkipTypeOK, IsFiniteSize
<1>. QED
  BY <1>1, <1>3, <1>4

(* Where an element starts and ends, and that Null is none.                *)
LEMMA SkipHeap ==
  ASSUME SkipTypeOK
  PROVE  /\ created \in Element /\ created \in Nat /\ created >= 1 /\ created <= ElementMax
         /\ DOMAIN heap = 1 .. created
         /\ \A e \in DOMAIN heap :
              /\ e \in Element /\ e # Null
              /\ heap[e].ElementPosition \in Nat /\ FoundEnd(e) \in Nat
              /\ DataStart(e) = heap[e].ElementPosition + 1
              /\ FoundEnd(e) >= DataStart(e)
              /\ heap[e].class \in Class
              /\ IsFiniteSize(e) \/ heap[e].class \in Masters
<1>1. created \in 1 .. ElementMax /\ ElementMax \in Nat /\ DOMAIN heap = 1 .. created
  BY BoundAssumption DEF SkipTypeOK, Element
<1>2. ASSUME NEW e \in DOMAIN heap
      PROVE  /\ e \in Element /\ e # Null
             /\ heap[e].ElementPosition \in Nat /\ heap[e].Size \in Nat
             /\ heap[e].class \in Class
             /\ IsFiniteSize(e) \/ heap[e].class \in Masters
  <2>1. heap[e] \in ElementRecord /\ (IsFiniteSize(e) \/ heap[e].class \in Masters)
    BY DEF SkipTypeOK
  <2>2. Max({StreamEnd, SizeBound}) \in Nat
    BY MaxOfTwo, BoundAssumption
  <2>3. heap[e].ElementPosition \in 0 .. StreamEnd /\ heap[e].class \in Class
        /\ heap[e].Size \in 0 .. Max({StreamEnd, SizeBound})
    BY <2>1 DEF ElementRecord
  <2>4. e \in Element
    BY <1>1 DEF Element
  <2>. QED
    BY <2>1, <2>2, <2>3, <2>4, BoundAssumption, NullAssumption DEF Element
<1>3. ASSUME NEW e \in DOMAIN heap
      PROVE  /\ FoundEnd(e) \in Nat /\ FoundEnd(e) >= DataStart(e)
             /\ DataStart(e) = heap[e].ElementPosition + 1
  <2>1. heap[e].ElementPosition \in Nat /\ heap[e].Size \in Nat
    BY <1>2
  <2>2. DataStart(e) = heap[e].ElementPosition + 1
    BY DEF DataStart
  <2>3. FoundEnd(e) = DataStart(e) + heap[e].Size \/ FoundEnd(e) = DataStart(e)
    BY DEF FoundEnd, GetEndPosition
  <2>. QED
    BY <2>1, <2>2, <2>3
<1>. QED
  BY <1>1, <1>2, <1>3 DEF Element

(* The element given to a call of SkipData.                                *)
LEMMA SkipTestInv ==
  ASSUME SkipInv, SkipTest
  PROVE  SkipInv'
<1>. DEFINE n == Len(skips)
<1>1. /\ step = "loop" /\ top.TestReadElt # Null /\ Skipped' = top.TestReadElt
      /\ skips' = [skips EXCEPT ![n].TestReadElt = Null] /\ step' = "found"
      /\ UNCHANGED <<pos, heap, created>> /\ UNCHANGED_Read
  BY DEF SkipTest
<1>2. /\ SkipTypeOK /\ skips \in Seq(SkipCallType) /\ n \in Nat \ {0} /\ n \in 1 .. n
      /\ \A i \in 1 .. n : skips[i] \in SkipCallType
      /\ top = skips[n] /\ top \in SkipCallType
  BY SkipTop DEF SkipInv
<1>3. top.TestReadElt = Skipped
  BY <1>1, <1>2 DEF SkipInv
<1>. DEFINE c == [Context |-> top.Context, TestReadElt |-> Null]
<1>4. [top EXCEPT !.TestReadElt = Null] = c /\ c \in SkipCallType
  BY <1>2 DEF SkipCallType
<1>5. skips' = [skips EXCEPT ![n] = c]
  BY <1>1, <1>2, <1>4
<1>6. c.Context = top.Context /\ c.TestReadElt = Null
  OBVIOUS
<1>. HIDE DEF c
<1>7. /\ skips' \in Seq(SkipCallType) /\ Len(skips') = n
      /\ \A i \in 1 .. n : skips'[i] = IF i = n THEN c ELSE skips[i]
  BY <1>2, <1>4, <1>5, ExceptSeq
<1>8. skips' # << >>
  BY <1>2, <1>7
<1>9. top' = c
  BY <1>2, <1>7 DEF top, Last
<1>10. Skipped' = Skipped /\ Skipped \in DOMAIN heap \cup {Null} /\ pos' \in Nat
  BY <1>1, <1>2, <1>3 DEF SkipTypeOK
<1>11. /\ SkipTypeOK'
       /\ \A e \in DOMAIN heap : FoundEnd(e)' = FoundEnd(e) /\ DataStart(e)' = DataStart(e)
       /\ \A e, f \in DOMAIN heap' \ {1} :
            e < f => heap'[f].ElementPosition >= FoundEnd(e)'
  BY <1>1, <1>7, <1>8, <1>10, SkipKept
<1>12. \A i \in 1 .. Len(skips') : skips'[i].TestReadElt = Null
  BY <1>1, <1>2, <1>6, <1>7 DEF SkipInv
<1>13. /\ Skipped = created /\ created > 1 /\ pos = DataStart(created)
       /\ \/ HasNoTable(heap[created].class)
          \/ HasTableFrom(heap[created].class, top.Context)
  BY <1>1, <1>3 DEF SkipInv
<1>14. created \in DOMAIN heap
  BY <1>2, SkipHeap
<1>15. /\ Skipped' = created' /\ created' > 1 /\ pos' = DataStart(created)'
       /\ \/ HasNoTable(heap'[created'].class)
          \/ HasTableFrom(heap'[created'].class, top'.Context)
  <2>1. DataStart(created)' = DataStart(created)
    BY <1>1 DEF DataStart
  <2>. QED
    BY <1>1, <1>6, <1>9, <1>10, <1>13, <2>1
<1>16. Skipped' # Null
  BY <1>1
<1>. QED
  BY <1>1, <1>11, <1>12, <1>15, <1>16 DEF SkipInv

(* An element is found in the context of the call.                         *)
LEMMA SkipFindInv ==
  ASSUME SkipInv, NEW class \in Class, NEW finite \in BOOLEAN,
         NEW position \in 0 .. StreamEnd, NEW size \in 0 .. SizeBound,
         SkipFind(class, finite, position, size)
  PROVE  SkipInv'
<1>. DEFINE n == Len(skips)
<1>0. PICK e0 : e0 = created + 1
  OBVIOUS
<1>1. /\ step = "loop" /\ top.TestReadElt = Null /\ created < ElementMax
      /\ ~ finite => class \in CanHaveInfiniteSize
      /\ position >= pos
      /\ IF top.Context = Global THEN class \in Globals
         ELSE LevelOf(top.Context[1], class) # {}
      /\ created' = e0
      /\ heap' = [e \in DOMAIN heap \cup {e0} |->
               IF e = e0 THEN NewElement(class, finite, position, size) ELSE heap[e]]
      /\ Skipped' = e0 /\ pos' = position + 1 /\ step' = "found"
      /\ UNCHANGED skips /\ UNCHANGED_Read
  BY <1>0 DEF SkipFind
<1>2. UNCHANGED <<ReadFully, stack, UpperEltFound, FoundElt, strayed, pc>>
  BY <1>1 DEF UNCHANGED_Read
<1>3. /\ SkipTypeOK /\ skips \in Seq(SkipCallType) /\ n \in Nat \ {0} /\ n \in 1 .. n
      /\ \A i \in 1 .. n : skips[i] \in SkipCallType
      /\ top = skips[n] /\ top \in SkipCallType
  BY SkipTop DEF SkipInv
<1>4. /\ created \in Nat /\ created >= 1 /\ ElementMax \in Nat /\ DOMAIN heap = 1 .. created
      /\ \A e \in DOMAIN heap :
           e # Null /\ heap[e].ElementPosition \in Nat /\ FoundEnd(e) \in Nat
  BY <1>3, SkipHeap, BoundAssumption
<1>5. /\ e0 \in 2 .. ElementMax /\ e0 \in Element /\ e0 # Null /\ e0 > 1
      /\ e0 \notin DOMAIN heap /\ DOMAIN heap \cup {e0} = 1 .. e0
  BY <1>0, <1>1, <1>4, NullAssumption DEF Element
<1>6. /\ DOMAIN heap' = 1 .. e0
      /\ heap'[e0] = NewElement(class, finite, position, size)
      /\ \A e \in DOMAIN heap : heap'[e] = heap[e] /\ e \in DOMAIN heap'
  BY <1>1, <1>5
<1>7. NewElement(class, finite, position, size) \in ElementRecord
  <2>1. size \in 0 .. Max({StreamEnd, SizeBound})
    BY MaxOfTwo, BoundAssumption
  <2>2. << >> \in Seq(Element)
    OBVIOUS
  <2>. QED
    BY <2>1, <2>2 DEF NewElement, ElementRecord
<1>8. /\ heap'[e0].class = class /\ heap'[e0].bSizeIsFinite = finite
      /\ heap'[e0].ElementPosition = position /\ heap'[e0].ElementList = << >>
  BY <1>6 DEF NewElement
<1>9. SkipTypeOK'
  <2>1. \A e \in DOMAIN heap' : e = e0 \/ e \in DOMAIN heap
    BY <1>5, <1>6
  <2>2. \A e \in DOMAIN heap : /\ heap'[e] \in ElementRecord /\ heap'[e].ElementList = << >>
                               /\ heap'[e].bSizeIsFinite \/ heap'[e].class \in Masters
    BY <1>3, <1>6 DEF SkipTypeOK, IsFiniteSize
  <2>3. finite \/ class \in Masters
    BY <1>1, ClassAssumption
  <2>4. \A e \in DOMAIN heap' : /\ heap'[e] \in ElementRecord /\ heap'[e].ElementList = << >>
                                /\ heap'[e].bSizeIsFinite \/ heap'[e].class \in Masters
    BY <1>6, <1>7, <1>8, <2>1, <2>2, <2>3
  <2>5. pos' \in Nat
    BY <1>1
  <2>6. /\ DOMAIN heap' = 1 .. created' /\ created' \in Element
        /\ Skipped' \in DOMAIN heap' \cup {Null}
    BY <1>1, <1>5, <1>6
  <2>. QED
    BY <1>1, <1>2, <1>3, <2>4, <2>5, <2>6 DEF SkipTypeOK, IsFiniteSize
<1>10. /\ \A e \in DOMAIN heap : FoundEnd(e)' = FoundEnd(e)
       /\ DataStart(e0)' = position + 1
  BY <1>6, <1>8 DEF FoundEnd, DataStart, GetEndPosition, IsFiniteSize
<1>11. Skipped = Null
  BY <1>1, <1>3 DEF SkipInv
<1>12. \A e \in DOMAIN heap \ {1} : position >= FoundEnd(e)
  <2>1. \A e \in DOMAIN heap \ {1} : pos >= FoundEnd(e)
    BY <1>1, <1>11 DEF SkipInv
  <2>2. pos \in Nat
    BY <1>3 DEF SkipTypeOK
  <2>. QED
    BY <1>1, <1>4, <2>1, <2>2
<1>13. ASSUME NEW e \in DOMAIN heap' \ {1}, NEW f \in DOMAIN heap' \ {1}, e < f
       PROVE  heap'[f].ElementPosition >= FoundEnd(e)'
  <2>1. e \in DOMAIN heap \ {1} /\ (f = e0 \/ f \in DOMAIN heap \ {1})
    <3>1. /\ e \in Nat /\ f \in Nat /\ e >= 1 /\ e # 1 /\ f # 1 /\ f <= e0
          /\ e < e0 /\ e0 \in Nat /\ created \in Nat /\ e0 = created + 1 /\ f >= 1
      BY <1>0, <1>4, <1>5, <1>6, <1>13
    <3>. QED
      BY <1>4, <3>1
  <2>2. CASE f = e0
    BY <1>8, <1>10, <1>12, <2>1, <2>2
  <2>3. CASE f \in DOMAIN heap \ {1}
    <3>1. heap[f].ElementPosition >= FoundEnd(e)
      BY <1>13, <2>1, <2>3 DEF SkipInv
    <3>. QED
      BY <1>6, <1>10, <2>1, <2>3, <3>1
  <2>. QED
    BY <2>1, <2>2, <2>3
<1>14. \A i \in 1 .. Len(skips') : skips'[i].TestReadElt = Null
  <2>1. \A i \in 1 .. Len(skips) : skips[i].TestReadElt = Null
    BY <1>11 DEF SkipInv
  <2>. QED
    BY <1>1, <2>1
<1>15. HasNoTable(class) \/ HasTableFrom(class, top.Context)
  <2>1. top.Context \in {Contexts[m] : m \in Masters} \cup {Global}
    BY <1>3 DEF SkipCallType
  <2>. QED
    BY <1>1, <2>1, FoundWhere
<1>16. /\ Skipped' = e0 /\ created' = e0 /\ e0 > 1 /\ pos' = DataStart(e0)'
       /\ \/ HasNoTable(heap'[e0].class)
          \/ HasTableFrom(heap'[e0].class, top'.Context)
  <2>1. top' = top
    BY <1>1 DEF top, Last
  <2>. QED
    BY <1>1, <1>5, <1>8, <1>10, <1>15, <2>1
<1>17. pos' = DataStart(created)'
  BY <1>16 DEF DataStart
<1>. QED
  BY <1>1, <1>5, <1>9, <1>13, <1>14, <1>16, <1>17 DEF SkipInv

(* Nothing is found any more.                                              *)
LEMMA SkipFindNothingInv ==
  ASSUME SkipInv, SkipFindNothing
  PROVE  SkipInv'
<1>1. /\ step = "loop" /\ top.TestReadElt = Null /\ Skipped' = Null
      /\ pos' = Max({pos, StreamEnd}) /\ step' = "return"
      /\ UNCHANGED <<skips, heap, created>> /\ UNCHANGED_Read
  BY DEF SkipFindNothing, AfterNothing
<1>2. SkipTypeOK /\ pos \in Nat
  BY DEF SkipInv, SkipTypeOK
<1>3. pos' \in Nat /\ pos' >= pos
  BY <1>1, <1>2, MaxOfTwo, BoundAssumption
<1>4. /\ SkipTypeOK'
      /\ \A e \in DOMAIN heap : FoundEnd(e)' = FoundEnd(e) /\ DataStart(e)' = DataStart(e)
      /\ \A e, f \in DOMAIN heap' \ {1} :
            e < f => heap'[f].ElementPosition >= FoundEnd(e)'
  BY <1>1, <1>2, <1>3, SkipKept, SkipTop DEF SkipTypeOK
<1>5. Skipped = Null
  <2>1. top.TestReadElt = Skipped
    BY <1>1, <1>2, SkipTop DEF SkipInv
  <2>. QED
    BY <1>1, <2>1
<1>6. \A i \in 1 .. Len(skips') : skips'[i].TestReadElt = Null
  <2>1. \A i \in 1 .. Len(skips) : skips[i].TestReadElt = Null
    BY <1>5 DEF SkipInv
  <2>. QED
    BY <1>1, <2>1
<1>7. \A e \in DOMAIN heap' \ {1} : pos' >= FoundEnd(e)'
  <2>1. \A e \in DOMAIN heap \ {1} : pos >= FoundEnd(e) /\ FoundEnd(e) \in Nat
    BY <1>1, <1>2, <1>5, SkipHeap DEF SkipInv
  <2>. QED
    BY <1>1, <1>2, <1>3, <1>4, <2>1
<1>. QED
  BY <1>1, <1>4, <1>6, <1>7 DEF SkipInv

(* An element of the context is skipped, or its own context is entered.    *)
LEMMA SkipKnownInv ==
  ASSUME SkipInv, SkipKnown
  PROVE  SkipInv'
<1>1. /\ step = "found" /\ InTable(heap[Skipped].class, top.Context)
      /\ Skipped' = Null /\ step' = "loop"
      /\ UNCHANGED <<heap, created>> /\ UNCHANGED_Read
  BY DEF SkipKnown
<1>2. SkipTypeOK /\ pos \in Nat
  BY DEF SkipInv, SkipTypeOK
<1>3. PICK n : n = Len(skips)
  OBVIOUS
<1>4. /\ skips \in Seq(SkipCallType) /\ n \in Nat \ {0} /\ n \in 1 .. n
      /\ top = skips[n] /\ top \in SkipCallType
      /\ \A i \in 1 .. n : skips[i] \in SkipCallType
  BY <1>2, <1>3, SkipTop
<1>5. Skipped = created /\ created > 1 /\ pos = DataStart(created)
  BY <1>1 DEF SkipInv
<1>6. PICK e : e = created
  OBVIOUS
<1>7. /\ e \in DOMAIN heap /\ e \in Nat /\ e > 1 /\ DOMAIN heap = 1 .. e
      /\ \A f \in DOMAIN heap : heap[f].ElementPosition \in Nat /\ FoundEnd(f) \in Nat
      /\ DataStart(e) = heap[e].ElementPosition + 1 /\ FoundEnd(e) >= DataStart(e)
      /\ (IsFiniteSize(e) \/ heap[e].class \in Masters)
  BY <1>2, <1>5, <1>6, SkipHeap
<1>8. pos' = FoundEnd(e)
  <2>1. CASE IsFiniteSize(e)
    BY <1>5, <1>6, <2>1 DEF SkipKnown, FoundEnd, SkippedTo
  <2>2. CASE ~ IsFiniteSize(e)
    BY <1>5, <1>6, <2>2 DEF SkipKnown, FoundEnd
  <2>. QED
    BY <2>1, <2>2
<1>9. \/ skips' = skips
      \/ /\ heap[e].class \in Masters
         /\ skips' = Append(skips, SkipCall(Contexts[heap[e].class], Null))
  <2>1. CASE IsFiniteSize(e)
    BY <1>5, <1>6, <2>1 DEF SkipKnown
  <2>2. CASE ~ IsFiniteSize(e)
    BY <1>5, <1>6, <1>7, <2>2 DEF SkipKnown
  <2>. QED
    BY <2>1, <2>2
<1>10. \A i \in 1 .. n : skips[i].TestReadElt = Null
  BY <1>1, <1>3 DEF SkipInv
<1>11. /\ skips' \in Seq(SkipCallType) /\ skips' # << >>
       /\ \A i \in 1 .. Len(skips') : skips'[i].TestReadElt = Null
  <2>1. CASE skips' = skips
    BY <1>2, <1>3, <1>4, <1>10, <2>1 DEF SkipTypeOK
  <2>2. CASE /\ heap[e].class \in Masters
             /\ skips' = Append(skips, SkipCall(Contexts[heap[e].class], Null))
    <3>. DEFINE c == SkipCall(Contexts[heap[e].class], Null)
    <3>1. c \in SkipCallType /\ c.TestReadElt = Null
      BY <2>2 DEF SkipCall, SkipCallType
    <3>2. skips' = Append(skips, c)
      BY <2>2
    <3>. HIDE DEF c
    <3>3. /\ skips' \in Seq(SkipCallType) /\ Len(skips') = n + 1
          /\ \A i \in 1 .. n : skips'[i] = skips[i]
          /\ skips'[n + 1] = c
      BY <1>3, <1>4, <3>1, <3>2, AppendProperties
    <3>4. skips' # << >>
      BY <1>4, <3>3
    <3>5. \A i \in 1 .. n + 1 : i \in 1 .. n \/ i = n + 1
      BY <1>4
    <3>. QED
      BY <1>10, <3>1, <3>3, <3>4, <3>5
  <2>. QED
    BY <1>9, <2>1, <2>2
<1>12. /\ SkipTypeOK'
       /\ \A f \in DOMAIN heap : FoundEnd(f)' = FoundEnd(f) /\ DataStart(f)' = DataStart(f)
       /\ \A f, g \in DOMAIN heap' \ {1} :
            f < g => heap'[g].ElementPosition >= FoundEnd(f)'
  BY <1>1, <1>7, <1>8, <1>11, SkipKept
<1>13. \A f \in DOMAIN heap' \ {1} : pos' >= FoundEnd(f)'
  <2>1. ASSUME NEW f \in DOMAIN heap \ {1}
        PROVE  FoundEnd(e) >= FoundEnd(f)
    <3>1. CASE f = e
      BY <1>7, <3>1
    <3>2. CASE f # e
      <4>1. f < e
        BY <1>7, <3>2
      <4>2. heap[e].ElementPosition >= FoundEnd(f)
        BY <1>7, <4>1 DEF SkipInv
      <4>3. /\ heap[e].ElementPosition \in Nat /\ FoundEnd(f) \in Nat /\ FoundEnd(e) \in Nat
            /\ FoundEnd(e) >= heap[e].ElementPosition + 1
        BY <1>7
      <4>. QED
        BY <4>2, <4>3
    <3>. QED
      BY <3>1, <3>2
  <2>. QED
    BY <1>1, <1>8, <1>12, <2>1
<1>. QED
  BY <1>1, <1>11, <1>12, <1>13 DEF SkipInv

(* One of another context is given to a call in the parent context.        *)
LEMMA SkipInParentInv ==
  ASSUME SkipInv, SkipInParent
  PROVE  SkipInv'
<1>1. /\ step = "found" /\ ~ InTable(heap[Skipped].class, top.Context)
      /\ top.Context # Global
      /\ skips' = Append(skips, SkipCall(Parent(top.Context), Skipped))
      /\ step' = "loop"
      /\ UNCHANGED <<pos, heap, created, Skipped>> /\ UNCHANGED_Read
  BY DEF SkipInParent
<1>2. SkipTypeOK /\ pos' \in Nat
  BY <1>1 DEF SkipInv, SkipTypeOK
<1>3. PICK n : n = Len(skips)
  OBVIOUS
<1>4. /\ skips \in Seq(SkipCallType) /\ n \in Nat \ {0} /\ n \in 1 .. n
      /\ top = skips[n] /\ top \in SkipCallType
      /\ \A i \in 1 .. n : skips[i] \in SkipCallType
  BY <1>2, <1>3, SkipTop
<1>5. /\ Skipped = created /\ created > 1 /\ pos = DataStart(created)
      /\ \/ HasNoTable(heap[created].class)
         \/ HasTableFrom(heap[created].class, top.Context)
  BY <1>1 DEF SkipInv
<1>6. created \in DOMAIN heap /\ created \in Element
  BY <1>2, SkipHeap
<1>7. top.Context \in {Contexts[m] : m \in Masters} \cup {Global}
  BY <1>4 DEF SkipCallType
<1>. DEFINE c == SkipCall(Parent(top.Context), Skipped)
<1>8. PICK d : d = c
  OBVIOUS
<1>9. d \in SkipCallType /\ d.TestReadElt = Skipped /\ d.Context = Parent(top.Context)
  BY <1>1, <1>5, <1>6, <1>7, <1>8, ChainFacts DEF SkipCall, SkipCallType
<1>10. skips' = Append(skips, d)
  BY <1>1, <1>8
<1>. HIDE DEF c
<1>11. /\ skips' \in Seq(SkipCallType) /\ Len(skips') = n + 1
       /\ \A i \in 1 .. n : skips'[i] = skips[i]
       /\ skips'[n + 1] = d
  BY <1>3, <1>4, <1>9, <1>10, AppendProperties
<1>12. skips' # << >> /\ top' = d
  BY <1>4, <1>11 DEF top, Last
<1>13. /\ SkipTypeOK'
       /\ \A f \in DOMAIN heap : FoundEnd(f)' = FoundEnd(f) /\ DataStart(f)' = DataStart(f)
       /\ \A f, g \in DOMAIN heap' \ {1} :
            f < g => heap'[g].ElementPosition >= FoundEnd(f)'
  <2>1. Skipped' \in DOMAIN heap \cup {Null}
    BY <1>1, <1>5, <1>6
  <2>. QED
    BY <1>1, <1>2, <1>11, <1>12, <2>1, SkipKept
<1>14. \A i \in 1 .. Len(skips') :
         skips'[i].TestReadElt = IF i = Len(skips') THEN Skipped' ELSE Null
  <2>1. \A i \in 1 .. n : skips[i].TestReadElt = Null
    BY <1>1, <1>3 DEF SkipInv
  <2>2. \A i \in 1 .. n + 1 : (i \in 1 .. n /\ i # n + 1) \/ i = n + 1
    BY <1>4
  <2>. QED
    BY <1>1, <1>9, <1>11, <2>1, <2>2
<1>15. HasNoTable(heap[created].class) \/ HasTableFrom(heap[created].class, d.Context)
  BY <1>1, <1>5, <1>7, <1>9, TestedAbove
<1>16. pos' = DataStart(created)'
  BY <1>1, <1>5 DEF DataStart
<1>17. /\ Skipped' = created' /\ created' > 1
       /\ \/ HasNoTable(heap'[created'].class)
          \/ HasTableFrom(heap'[created'].class, top'.Context)
  BY <1>1, <1>5, <1>12, <1>15
<1>18. Skipped' # Null
  BY <1>1, <1>2, <1>5, <1>6, SkipHeap
<1>. QED
  BY <1>1, <1>13, <1>14, <1>16, <1>17, <1>18 DEF SkipInv

(* No context has it.                                                      *)
LEMMA SkipEndFoundInv ==
  ASSUME SkipInv, SkipEndFound
  PROVE  SkipInv'
<1>1. /\ step = "found" /\ ~ InTable(heap[Skipped].class, top.Context)
      /\ top.Context = Global /\ step' = "return"
      /\ UNCHANGED <<skips, Skipped, pos, heap, created>> /\ UNCHANGED_Read
  BY DEF SkipEndFound
<1>2. SkipTypeOK /\ pos' \in Nat /\ Skipped' \in DOMAIN heap \cup {Null} /\ Skipped # Null
  BY <1>1 DEF SkipInv, SkipTypeOK
<1>3. /\ SkipTypeOK'
      /\ \A e \in DOMAIN heap : FoundEnd(e)' = FoundEnd(e) /\ DataStart(e)' = DataStart(e)
      /\ \A e, f \in DOMAIN heap' \ {1} :
            e < f => heap'[f].ElementPosition >= FoundEnd(e)'
  BY <1>1, <1>2, SkipKept DEF SkipTypeOK
<1>4. \A i \in 1 .. Len(skips') : skips'[i].TestReadElt = Null
  <2>1. \A i \in 1 .. Len(skips) : skips[i].TestReadElt = Null
    BY <1>1 DEF SkipInv
  <2>. QED
    BY <1>1, <2>1
<1>5. HasNoTable(heap[Skipped].class)
  <2>1. /\ Skipped = created
        /\ \/ HasNoTable(heap[created].class)
           \/ HasTableFrom(heap[created].class, top.Context)
    BY <1>1 DEF SkipInv
  <2>2. top.Context \in {Contexts[m] : m \in Masters} \cup {Global}
    BY <1>1
  <2>. QED
    BY <1>1, <2>1, <2>2, TestedAbove
<1>. QED
  BY <1>1, <1>2, <1>3, <1>4, <1>5 DEF SkipInv

(* A call of SkipData returns.                                             *)
LEMMA SkipReturnsInv ==
  ASSUME SkipInv, SkipReturns
  PROVE  SkipInv'
<1>1. /\ step = "return"
      /\ \/ Len(skips) = 1 /\ step' = "done" /\ UNCHANGED skips
         \/ /\ Len(skips) # 1 /\ step' = (IF Skipped = Null THEN "loop" ELSE "return")
            /\ skips' = Front(skips)
      /\ UNCHANGED <<Skipped, pos, heap, created>> /\ UNCHANGED_Read
  BY DEF SkipReturns
<1>2. SkipTypeOK /\ pos' \in Nat /\ Skipped' \in DOMAIN heap \cup {Null}
  BY <1>1 DEF SkipInv, SkipTypeOK
<1>3. PICK n : n = Len(skips)
  OBVIOUS
<1>4. skips \in Seq(SkipCallType) /\ n \in Nat \ {0} /\ skips # << >>
  BY <1>2, <1>3, SkipTop DEF SkipTypeOK
<1>5. \A i \in 1 .. n : skips[i].TestReadElt = Null
  BY <1>1, <1>3 DEF SkipInv
<1>6. /\ skips' \in Seq(SkipCallType) /\ skips' # << >>
      /\ \A i \in 1 .. Len(skips') : skips'[i].TestReadElt = Null
  <2>1. CASE skips' = skips
    BY <1>3, <1>4, <1>5, <2>1
  <2>2. CASE n # 1 /\ skips' = Front(skips)
    <3>1. /\ skips' \in Seq(SkipCallType) /\ Len(skips') = n - 1
          /\ \A i \in 1 .. n - 1 : skips'[i] = skips[i]
      <4>1. skips' = SubSeq(skips, 1, n - 1) /\ 1 <= n - 1 /\ n - 1 \in Nat
            /\ 1 .. n - 1 \subseteq 1 .. Len(skips)
        BY <1>3, <1>4, <2>2 DEF Front
      <4>2. skips' \in Seq(SkipCallType)
        BY <1>4, <4>1, SubSeqProperties, ElementOfSeq
      <4>3. /\ Len(skips') = n - 1 - 1 + 1
            /\ \A i \in 1 .. n - 1 - 1 + 1 : skips'[i] = skips[1 + i - 1]
        BY <1>3, <1>4, <4>1, SubSeqProperties, ElementOfSeq
      <4>4. n - 1 - 1 + 1 = n - 1 /\ \A i \in 1 .. n - 1 : 1 + i - 1 = i
        BY <1>4
      <4>. QED
        BY <4>2, <4>3, <4>4
    <3>2. skips' # << >> /\ 1 .. n - 1 \subseteq 1 .. n
      BY <1>4, <2>2, <3>1
    <3>. QED
      BY <1>5, <3>1, <3>2
  <2>. QED
    BY <1>1, <1>3, <2>1, <2>2
<1>7. step' \in {"loop", "return", "done"}
  BY <1>1
<1>8. /\ SkipTypeOK'
      /\ \A e \in DOMAIN heap : FoundEnd(e)' = FoundEnd(e) /\ DataStart(e)' = DataStart(e)
      /\ \A e, f \in DOMAIN heap' \ {1} :
            e < f => heap'[f].ElementPosition >= FoundEnd(e)'
  BY <1>1, <1>2, <1>6, <1>7, SkipKept
<1>9. step' = "loop" => Skipped' = Null
  BY <1>1
<1>10. Skipped' # Null => HasNoTable(heap'[Skipped'].class)
  BY <1>1 DEF SkipInv
<1>11. Skipped' = Null => \A e \in DOMAIN heap' \ {1} : pos' >= FoundEnd(e)'
  BY <1>1, <1>8 DEF SkipInv
<1>. QED
  BY <1>6, <1>7, <1>8, <1>9, <1>10, <1>11 DEF SkipInv

(* Skipping starts behind the head of a master of unknown size.            *)
LEMMA SkipInitInv ==
  ASSUME SkipInit, Skipped = Null
  PROVE  SkipInv
<1>1. /\ ReadFully = "SCOPE_ALL_DATA" /\ pos = 1 /\ created = 1 /\ stack = <<Call(1)>>
      /\ UpperEltFound = 0 /\ FoundElt = Null /\ strayed = FALSE
      /\ pc = "enter" /\ step = "loop"
  BY DEF SkipInit
<1>2. PICK m \in CanHaveInfiniteSize :
        /\ heap = [e \in {1} |-> NewElement(m, FALSE, 0, 0)]
        /\ skips = <<SkipCall(Contexts[m], Null)>>
  BY DEF SkipInit
<1>3. m \in Masters /\ m \in Class
  BY ClassAssumption DEF Class
<1>4. /\ DOMAIN heap = {1} /\ heap[1] = NewElement(m, FALSE, 0, 0)
      /\ heap[1].class = m /\ heap[1].ElementList = << >>
  BY <1>2 DEF NewElement
<1>5. NewElement(m, FALSE, 0, 0) \in ElementRecord
  <2>1. 0 \in 0 .. StreamEnd /\ 0 \in 0 .. Max({StreamEnd, SizeBound})
    BY BoundAssumption, MaxOfTwo
  <2>2. << >> \in Seq(Element)
    OBVIOUS
  <2>. QED
    BY <1>3, <2>1, <2>2 DEF NewElement, ElementRecord
<1>. DEFINE c == SkipCall(Contexts[m], Null)
<1>6. c \in SkipCallType /\ c.TestReadElt = Null
  BY <1>3 DEF SkipCall, SkipCallType
<1>7. skips = <<c>>
  BY <1>2
<1>. HIDE DEF c
<1>8. skips \in Seq(SkipCallType) /\ skips # << >> /\ Len(skips) = 1 /\ skips[1] = c
  BY <1>6, <1>7
<1>9. 1 \in Element /\ DOMAIN heap = 1 .. created /\ pos \in Nat
  BY <1>1, <1>4, BoundAssumption DEF Element
<1>10. SkipTypeOK
  BY <1>1, <1>3, <1>4, <1>5, <1>8, <1>9 DEF SkipTypeOK
<1>11. \A i \in 1 .. Len(skips) : skips[i].TestReadElt = Null
  BY <1>6, <1>8
<1>12. DOMAIN heap \ {1} = {}
  BY <1>4
<1>. QED
  BY <1>1, <1>10, <1>11, <1>12 DEF SkipInv

-----------------------------------------------------------------------------
(* Whether it reads or skips, what is known of the program stays true.     *)
LEMMA ProgramNextInv ==
  ASSUME ProgramInv, [ProgramNext]_<<vars, skipVars>>
  PROVE  ProgramInv'
<1>1. CASE step = "none"
  <2>1. ReadInv
    BY <1>1 DEF ProgramInv
  <2>2. [Next]_vars /\ UNCHANGED skipVars
    BY <1>1 DEF ProgramNext, SkipData_unknown, SkipFind, SkipTest, SkipFindNothing, SkipKnown,
                SkipInParent, SkipEndFound, SkipReturns
  <2>3. ReadInv' /\ step' = "none"
    BY <1>1, <2>1, <2>2, NextInv DEF skipVars
  <2>. QED
    BY <2>3 DEF ProgramInv
<1>2. CASE step # "none"
  <2>1. SkipInv
    BY <1>2 DEF ProgramInv
  <2>2. SkipInv' /\ step' # "none"
    <3>1. CASE \E class \in Class, finite \in BOOLEAN,
                  position \in 0 .. StreamEnd, size \in 0 .. SizeBound :
                  SkipFind(class, finite, position, size)
      BY <2>1, <3>1, SkipFindInv DEF SkipFind
    <3>2. CASE SkipTest
      BY <2>1, <3>2, SkipTestInv DEF SkipTest
    <3>3. CASE SkipFindNothing
      BY <2>1, <3>3, SkipFindNothingInv DEF SkipFindNothing, AfterNothing
    <3>4. CASE SkipKnown
      BY <2>1, <3>4, SkipKnownInv DEF SkipKnown
    <3>5. CASE SkipInParent
      BY <2>1, <3>5, SkipInParentInv DEF SkipInParent
    <3>6. CASE SkipEndFound
      BY <2>1, <3>6, SkipEndFoundInv DEF SkipEndFound
    <3>7. CASE SkipReturns
      BY <2>1, <3>7, SkipReturnsInv DEF SkipReturns
    <3>8. CASE UNCHANGED <<vars, skipVars>>
      <4>1. UNCHANGED <<ReadFully, pos, heap, created, stack, UpperEltFound, FoundElt,
                        strayed, pc, skips, Skipped, step>>
        BY <3>8 DEF vars, skipVars
      <4>2. top' = top
        BY <4>1 DEF top, Last
      <4>3. SkipTypeOK'
        BY <2>1, <4>1 DEF SkipInv, SkipTypeOK, IsFiniteSize
      <4>4. \A e : FoundEnd(e)' = FoundEnd(e) /\ DataStart(e)' = DataStart(e)
        BY <4>1 DEF FoundEnd, DataStart, GetEndPosition, IsFiniteSize
      <4>5. DataStart(created)' = DataStart(created)
        BY <4>1 DEF DataStart
      <4>. QED
        BY <1>2, <2>1, <4>1, <4>2, <4>3, <4>4, <4>5 DEF SkipInv
    <3>. QED
      BY <1>2, <3>1, <3>2, <3>3, <3>4, <3>5, <3>6, <3>7, <3>8 DEF ProgramNext, SkipData_unknown
  <2>. QED
    BY <2>2 DEF ProgramInv
<1>. QED
  BY <1>1, <1>2

(* The inductive invariant of the program: the ownership of the elements,  *)
(* the calls and the contexts they read in, the budget of each and the     *)
(* order of the stream, while EbmlMaster::Read runs; the place of what was *)
(* found and the contexts that do not have it, while SkipData does.        *)
THEOREM Inductive == ProgramSpec => []ProgramInv
<1>1. ASSUME ProgramInit
      PROVE  ProgramInv
  <2>1. CASE SkipInit
    BY <1>1, <2>1, SkipInitInv DEF ProgramInit, ProgramInv, SkipInit
  <2>2. CASE Init /\ step = "none"
    BY <2>2, InitInv DEF ProgramInv
  <2>. QED
    BY <1>1, <2>1, <2>2 DEF ProgramInit
<1>2. ASSUME ProgramInv, [ProgramNext]_<<vars, skipVars>>
      PROVE  ProgramInv'
  BY <1>2, ProgramNextInv
<1>. QED
  BY <1>1, <1>2, PTL DEF ProgramSpec

-----------------------------------------------------------------------------
(* Nothing that is skipped has a list, and no call of Read has started.    *)
LEMMA SkipIdle ==
  ASSUME SkipTypeOK
  PROVE  /\ \A e \in DOMAIN heap : List(e) = {} /\ heap[e].ElementList = << >>
         /\ Len(stack) = 1 /\ stack[1].this = 1 /\ this = 1
         /\ pc = "enter" /\ UpperEltFound = 0
<1>1. \A e \in DOMAIN heap : heap[e].ElementList = << >>
  BY DEF SkipTypeOK
<1>2. stack = <<Call(1)>> /\ pc = "enter" /\ UpperEltFound = 0
  BY DEF SkipTypeOK
<1>. QED
  BY <1>1, <1>2 DEF List, Range, Call, this, call, Last

(* No element is freed twice: the lists, the elements being read and the   *)
(* one that travels up through the references UpperEltFound and FoundElt   *)
(* never share an element, and all are alive, whatever the stream holds,   *)
(* throughout EbmlMaster::Read and SkipData.  It says nothing of FoundElt  *)
(* when nothing travels up: the caller may be left with a freed element.   *)
THEOREM Ownership == ProgramSpec => []OwnedOnce
<1>1. ASSUME ProgramInv
      PROVE  OwnedOnce
  <2>1. CASE step = "none"
    <3>1. ReadInv
      BY <1>1, <2>1 DEF ProgramInv
    <3>2. PICK n \in Nat : n = Len(stack)
      BY <3>1, StackType DEF ReadInv
    <3>3. Listed = AllListed(heap) /\ \A e : List(e) = Lst(heap, e)
      BY DEF Listed, AllListed, List, Lst
    <3>4. /\ AllListed(heap) \subseteq DOMAIN heap \ {1}
          /\ \A e \in DOMAIN heap : IsInjective(heap[e].ElementList)
          /\ \A e, f \in DOMAIN heap : e # f => List(e) \cap List(f) = {}
      BY <3>1, <3>3 DEF ReadInv, OwnInv, Owned, AllListed
    <3>5. ASSUME NEW e \in InHand
          PROVE  /\ e \in DOMAIN heap \ {1} /\ e \notin AllListed(heap)
                 /\ \E i \in 1 .. n : e = This(i)
      <4>1. PICK i \in 1 .. n : e = This(i) /\ e # 1
        BY <3>2 DEF InHand, This
      <4>. QED
        BY <3>1, <3>2, <4>1 DEF ReadInv, StackInv, OwnInv
    <3>6. ASSUME NEW e \in Travelling
          PROVE  IsLoose(e)
      <4>1. CASE pc = "loop"
        BY <3>1, <3>6, <4>1 DEF Travelling, ReadInv, OwnInv
      <4>2. CASE pc # "loop"
        <5>1. UpperEltFound \in Int
          BY <3>1, ZeroIsLevel DEF ReadInv, TypeOK
        <5>2. IsPassing /\ e = FoundElt
          BY <3>6, <4>2, <5>1 DEF Travelling, IsPassing
        <5>. QED
          BY <3>1, <5>2 DEF ReadInv, OwnInv
      <4>. QED
        BY <4>1, <4>2
    <3>7. \A e \in Travelling : /\ e \in DOMAIN heap \ {1} /\ e \notin AllListed(heap)
                                /\ \A i \in 1 .. n : e # This(i)
      BY <3>2, <3>6 DEF IsLoose
    <3>8. \A i, j \in 1 .. Len(stack) : i # j => stack[i].this # stack[j].this
      BY <3>1 DEF ReadInv, StackInv, This
    <3>9. TypeOK
      BY <3>1 DEF ReadInv
    <3>. QED
      BY <3>3, <3>4, <3>5, <3>7, <3>8, <3>9 DEF OwnedOnce
  <2>2. CASE step # "none"
    <3>1. SkipInv /\ SkipTypeOK
      BY <1>1, <2>2 DEF ProgramInv, SkipInv
    <3>2. TypeOK
      <4>1. stack = <<Call(1)>> /\ 1 \in Element /\ 0 \in 0 .. NoLimit
        BY <3>1, BoundAssumption DEF SkipTypeOK, Element, NoLimit
      <4>2. Call(1) \in [this : Element, MaxSizeToRead : 0 .. NoLimit,
                         ElementLevelA : Element \cup {Null}]
        BY <4>1 DEF Call
      <4>3. stack \in Seq([this : Element, MaxSizeToRead : 0 .. NoLimit,
                           ElementLevelA : Element \cup {Null}])
        BY <4>1, <4>2
      <4>. QED
        BY <3>1, <4>3, ZeroIsLevel DEF SkipTypeOK, TypeOK
    <3>3. /\ \A e \in DOMAIN heap : List(e) = {} /\ heap[e].ElementList = << >>
          /\ Len(stack) = 1 /\ stack[1].this = 1 /\ pc = "enter" /\ UpperEltFound = 0
      BY <3>1, SkipIdle
    <3>4. Listed = {} /\ Travelling = {}
      BY <3>3 DEF Listed, Travelling
    <3>5. InHand = {} /\ \A i, j \in 1 .. Len(stack) : i = j
      BY <3>3 DEF InHand
    <3>6. \A e \in DOMAIN heap : IsInjective(heap[e].ElementList)
      BY <3>3 DEF IsInjective
    <3>. QED
      BY <3>2, <3>3, <3>4, <3>5, <3>6 DEF OwnedOnce
  <2>. QED
    BY <2>1, <2>2
<1>. QED
  BY <1>1, Inductive, PTL

(* The subtractions of unsigned numbers that give MaxSizeToRead never wrap *)
(* (EbmlMaster::Read): what is left to read ends where the master ends.    *)
THEOREM Budgets == ProgramSpec => []BudgetIsExact
<1>1. ASSUME ProgramInv
      PROVE  BudgetIsExact
  <2>1. CASE step = "none"
    BY <1>1, <2>1 DEF ProgramInv, ReadInv, BudgetInv
  <2>2. CASE step # "none"
    BY <1>1, <2>2 DEF ProgramInv, SkipInv, SkipTypeOK, BudgetIsExact
  <2>. QED
    BY <2>1, <2>2
<1>. QED
  BY <1>1, Inductive, PTL

(* A child of known size that EbmlMaster::Read has listed ends inside its  *)
(* master of known size, also when it was found while a child was read.    *)
THEOREM Nesting == ProgramSpec => []ChildrenInside
<1>1. ASSUME ProgramInv
      PROVE  ChildrenInside
  <2>1. CASE step = "none"
    <3>1. TypeOK /\ \A e \in Entered : IsOrdered(heap, e)
      BY <1>1, <2>1 DEF ProgramInv, ReadInv, OrderInv
    <3>2. \A e : List(e) = Lst(heap, e) /\ GetEndPosition(e) = EndOf(heap, e)
      BY DEF List, Lst, GetEndPosition, DataStart, EndOf
    <3>. QED
      BY <3>1, <3>2 DEF ChildrenInside, IsOrdered, IsFiniteSize
  <2>2. CASE step # "none"
    <3>1. \A e \in DOMAIN heap : List(e) = {}
      BY <1>1, <2>2, SkipIdle DEF ProgramInv, SkipInv
    <3>. QED
      BY <3>1 DEF ChildrenInside, Entered
  <2>. QED
    BY <2>1, <2>2
<1>. QED
  BY <1>1, Inductive, PTL

(* The children that EbmlMaster::Read lists are in the order of the stream *)
(* and start behind their master, none is read twice.                      *)
THEOREM Ordering == ProgramSpec => []ReadInOrder
<1>1. ASSUME ProgramInv
      PROVE  ReadInOrder
  <2>1. CASE step = "none"
    <3>1. TypeOK /\ \A e \in Entered : IsOrdered(heap, e)
      BY <1>1, <2>1 DEF ProgramInv, ReadInv, OrderInv
    <3>2. SUFFICES ASSUME NEW e \in Entered, NEW i \in DOMAIN heap[e].ElementList
                   PROVE  heap[heap[e].ElementList[i]].ElementPosition >
                            heap[IF i = 1 THEN e
                                 ELSE heap[e].ElementList[i - 1]].ElementPosition
      BY DEF ReadInOrder
    <3>. DEFINE list == heap[e].ElementList
    <3>3. list \in Seq(Element) /\ e \in DOMAIN heap
      BY <3>1, HeapType DEF Entered
    <3>4. Len(list) \in Nat /\ DOMAIN list = 1 .. Len(list)
      BY <3>3, LenProperties
    <3>5. CASE i = 1
      <4>1. list[i] \in Lst(heap, e)
        BY DEF Lst, Range
      <4>. QED
        BY <3>1, <3>5, <4>1 DEF IsOrdered
    <3>6. CASE i # 1
      <4>1. i \in DOMAIN list /\ i - 1 \in DOMAIN list /\ i - 1 < i
        BY <3>4, <3>6
      <4>2. heap[list[i - 1]].ElementPosition < heap[list[i]].ElementPosition
        BY <3>1, <4>1 DEF IsOrdered
      <4>3. list[i] \in DOMAIN heap /\ list[i - 1] \in DOMAIN heap
        <5>1. list[i] \in Lst(heap, e) /\ list[i - 1] \in Lst(heap, e)
          BY <4>1 DEF Lst, Range
        <5>2. Lst(heap, e) \subseteq DOMAIN heap
          BY <1>1, <2>1, <3>3 DEF ProgramInv, ReadInv, OwnInv, Owned
        <5>. QED
          BY <5>1, <5>2
      <4>4. Position(list[i]) \in Nat /\ Position(list[i - 1]) \in Nat
        BY <3>1, <4>3, HeapType
      <4>. QED
        BY <3>6, <4>2, <4>4 DEF Position
    <3>. QED
      BY <3>5, <3>6
  <2>2. CASE step # "none"
    <3>1. \A e \in DOMAIN heap : heap[e].ElementList = << >>
      BY <1>1, <2>2, SkipIdle DEF ProgramInv, SkipInv
    <3>. QED
      BY <3>1 DEF ReadInOrder, Entered
  <2>. QED
    BY <2>1, <2>2
<1>. QED
  BY <1>1, Inductive, PTL

(* Whatever the level an element was found from, EbmlMaster::Read lists it *)
(* in a master whose semantic table has it, or it is a global one.         *)
THEOREM OwnContexts == ProgramSpec => []InContext
<1>1. ASSUME ProgramInv
      PROVE  InContext
  <2>1. CASE step = "none"
    <3>1. ReadInv
      BY <1>1, <2>1 DEF ProgramInv
    <3>2. ASSUME NEW e \in DOMAIN heap, NEW c \in List(e)
          PROVE  heap[c].class \in Children[heap[e].class] \cup Globals
      <4>1. c \in Lst(heap, e)
        BY DEF List, Lst
      <4>. QED
        BY <3>1, <4>1 DEF ReadInv, ContextInv, IsOfContext
    <3>3. ASSUME pc = "after", UpperEltFound \in 1 .. Len(stack)
          PROVE  heap[FoundElt].class \in
                   Children[heap[stack[Len(stack) + 1 - UpperEltFound].this].class]
      <4>1. IsPassing
        BY <3>3 DEF IsPassing
      <4>2. IsChildOf(ClassOf(FoundElt), Len(stack) + 1 - UpperEltFound)
        BY <3>1, <3>3, <4>1 DEF ReadInv, ContextInv, ReadInContext
      <4>3. Len(stack) + 1 - UpperEltFound >= 1
        <5>1. PICK n \in Nat : n = Len(stack)
          BY <3>1, StackType DEF ReadInv
        <5>2. UpperEltFound \in 1 .. n
          BY <3>3, <5>1
        <5>3. n + 1 - UpperEltFound >= 1
          BY <5>2
        <5>. QED
          BY <5>1, <5>3
      <4>. QED
        BY <4>2, <4>3 DEF IsChildOf, ClassOf, This
    <3>. QED
      BY <3>2, <3>3 DEF InContext
  <2>2. CASE step # "none"
    <3>1. (\A e \in DOMAIN heap : List(e) = {}) /\ pc = "enter"
      BY <1>1, <2>2, SkipIdle DEF ProgramInv, SkipInv
    <3>. QED
      BY <3>1 DEF InContext
  <2>. QED
    BY <2>1, <2>2
<1>. QED
  BY <1>1, Inductive, PTL

(* When no element of an upper level was met, nothing that EbmlMaster::Read*)
(* created is lost: in the end what is alive is in the root's tree, and    *)
(* every leaf was read from where its data starts.                         *)
THEOREM Completeness == ProgramSpec => []NothingLost
<1>1. ASSUME ProgramInv
      PROVE  NothingLost
  <2>1. CASE step = "none"
    <3>1. ReadInv
      BY <1>1, <2>1 DEF ProgramInv
    <3>2. ASSUME ~ strayed, pc \in {"returned", "thrown"}
          PROVE  DOMAIN heap = Subtree(heap, 1) /\ UpperEltFound <= 0 /\ FoundElt = Null
      <4>1. TypeOK /\ 1 \in DOMAIN heap /\ stack = << >>
        BY <3>1, <3>2 DEF ReadInv, StackInv
      <4>2. \A e \in DOMAIN heap : IsOrdered(heap, e)
        BY <3>1, <3>2 DEF ReadInv, OrderInv, Entered
      <4>3. UpperEltFound <= 0 /\ FoundElt = Null
        BY <3>1, <3>2 DEF ReadInv, LossInv
      <4>4. Len(stack) = 0
        BY <4>1
      <4>5. \A e \in DOMAIN heap : e = 1 \/ e \in AllListed(heap)
        BY <3>1, <3>2, <4>4 DEF ReadInv, LossInv
      <4>. QED
        BY <4>1, <4>2, <4>3, <4>5, TreeIsWhole
    <3>3. ASSUME ~ strayed, InLoop
          PROVE  pos = DataStart(A)
      BY <3>1, <3>3 DEF ReadInv, LossInv, InLoop
    <3>. QED
      BY <3>2, <3>3 DEF NothingLost
  <2>2. CASE step # "none"
    BY <1>1, <2>2 DEF ProgramInv, SkipInv, SkipTypeOK, NothingLost, InLoop
  <2>. QED
    BY <2>1, <2>2
<1>. QED
  BY <1>1, Inductive, PTL

(* SkipData never looks for an element inside one whose size is known, and *)
(* the file pointer never goes back.                                       *)
THEOREM WholeElements == ProgramSpec => []SkipsWholeElements
<1>1. ASSUME ProgramInv
      PROVE  SkipsWholeElements
  <2>1. CASE step = "none"
    BY <2>1 DEF SkipsWholeElements, SkipFound
  <2>2. CASE step # "none"
    <3>1. SkipInv
      BY <1>1, <2>2 DEF ProgramInv
    <3>2. \A e \in SkipFound : e \in DOMAIN heap \ {1}
      <4>1. \A e \in SkipFound : e \in DOMAIN heap /\ e > 1
        BY DEF SkipFound
      <4>2. \A e \in DOMAIN heap : e \in Nat
        BY <3>1, SkipHeap DEF SkipInv, Element
      <4>. QED
        BY <4>1, <4>2
    <3>. QED
      BY <3>1, <3>2 DEF SkipsWholeElements, SkipInv, FoundEnd
  <2>. QED
    BY <2>1, <2>2
<1>. QED
  BY <1>1, Inductive, PTL

(* What SkipData returns is of a class that no context of the chain has in *)
(* its table.                                                              *)
THEOREM Outsiders == ProgramSpec => []StopsAtOutsider
<1>1. ASSUME ProgramInv
      PROVE  StopsAtOutsider
  <2>1. SUFFICES ASSUME step = "done", Skipped # Null,
                        NEW i \in 0 .. Len(skips[1].Context),
                        InTable(heap[Skipped].class,
                                SubSeq(skips[1].Context, i + 1, Len(skips[1].Context)))
                 PROVE  FALSE
    BY DEF StopsAtOutsider
  <2>2. SkipInv
    BY <1>1, <2>1 DEF ProgramInv
  <2>3. HasNoTable(heap[Skipped].class)
    BY <2>1, <2>2 DEF SkipInv
  <2>4. PICK c : c = skips[1].Context
    OBVIOUS
  <2>5. c \in {Contexts[m] : m \in Masters} \cup {Global}
    <3>1. 1 \in 1 .. Len(skips) /\ skips[1] \in SkipCallType
      BY <2>2, SkipTop DEF SkipInv
    <3>. QED
      BY <2>4, <3>1 DEF SkipCallType
  <2>6. c \in Seq(Masters) /\ Len(c) \in Nat /\ \A k \in 1 .. Len(c) : c[k] \in Masters
    BY <2>5, ChainFacts
  <2>7. CASE i = Len(c)
    <3>1. SubSeq(c, i + 1, Len(c)) = << >>
      BY <2>6, <2>7, SubSeqEmpty
    <3>. QED
      BY <2>1, <2>3, <2>4, <3>1 DEF InTable, Global, HasNoTable
  <2>8. CASE i # Len(c)
    <3>1. i + 1 \in 1 .. Len(c) /\ i \in 0 .. Len(c)
      BY <2>1, <2>4, <2>6, <2>8
    <3>2. /\ Len(SubSeq(c, i + 1, Len(c))) = Len(c) - (i + 1) + 1
          /\ SubSeq(c, i + 1, Len(c))[1] = c[i + 1 + 1 - 1]
      BY <2>6, <3>1, SubSeqProperties
    <3>3. SubSeq(c, i + 1, Len(c)) # << >> /\ SubSeq(c, i + 1, Len(c))[1] = c[i + 1]
      <4>1. Len(c) - (i + 1) + 1 # 0 /\ i + 1 + 1 - 1 = i + 1
        BY <2>6, <3>1
      <4>2. SubSeq(c, i + 1, Len(c)) # << >>
        BY <3>2, <4>1
      <4>. QED
        BY <3>2, <4>1, <4>2
    <3>. QED
      BY <2>1, <2>3, <2>4, <2>6, <3>1, <3>3 DEF InTable, Global, HasNoTable
  <2>. QED
    BY <2>7, <2>8
<1>. QED
  BY <1>1, Inductive, PTL
=============================================================================
