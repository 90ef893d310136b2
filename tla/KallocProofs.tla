---------------------------- MODULE KallocProofs ----------------------------
(***************************************************************************)
(* Proofs about the kernel heap, for every number of frames, page size,    *)
(* width of size_t, number of descriptors to a page and set of requests.   *)
(*                                                                         *)
(* The chains are pointers in memory, and Kalloc says what a walk along    *)
(* them meets with a recursive function.  The first half of the module     *)
(* shows what such a walk is when the pointers lie in a row, and what      *)
(* linking and unlinking do to it; the second half is about the heap.      *)
(***************************************************************************)
EXTENDS Kalloc, FiniteSetTheorems, TLAPS

----
(* Walks *)

\* A set of natural numbers that is not empty has a least element.
LEMMA Least ==
  ASSUME NEW T, T \subseteq Nat, T # {}
  PROVE  \E x \in T : \A y \in T : x <= y
<1>1. IsWellFoundedOn(OpToRel(<, Nat), Nat)
  BY NatLessThanWellFounded
<1>2. PICK x \in T : \A y \in T : ~(<<y, x>> \in OpToRel(<, Nat))
  BY <1>1, WFMin, Zenon
<1>3. \A y \in T : ~(y < x)
  BY <1>2 DEF OpToRel
<1> QED
  BY <1>3

\* The equation that the function in Walk is defined by.
IsWalk(w, head, nx, bound) ==
  w = [n \in 0 .. bound |->
         IF n = 0 THEN head ELSE IF w[n - 1] = Null THEN Null ELSE nx[w[n - 1]]]

\* If any function satisfies the equation, Walk does.
LEMMA WalkEquation ==
  ASSUME NEW head, NEW nx, NEW bound, \E w : IsWalk(w, head, nx, bound)
  PROVE  IsWalk(Walk(head, nx, bound), head, nx, bound)
  BY Zenon DEF Walk, IsWalk

\* The k nodes in s are chained from head by nx: distinct, one after the
\* other, and the last one points nowhere.
Chained(X, s, k, head, nx) ==
  /\ k \in Nat /\ s \in [0 .. (k - 1) -> X]
  /\ \A i, j \in 0 .. (k - 1) : s[i] = s[j] => i = j
  /\ head = IF k = 0 THEN Null ELSE s[0]
  /\ \A i \in 0 .. (k - 1) : nx[s[i]] = IF i + 1 < k THEN s[i + 1] ELSE Null

\* A chain of distinct nodes is no longer than there are nodes.
LEMMA ChainBound ==
  ASSUME NEW X, IsFiniteSet(X), NEW k \in Nat, NEW s \in [0 .. (k - 1) -> X],
         \A i, j \in 0 .. (k - 1) : s[i] = s[j] => i = j
  PROVE  Cardinality(X) \in Nat /\ k <= Cardinality(X)
<1>1. Cardinality(X) \in Nat
  BY FS_CardinalityType
<1>2. s \in Injection(0 .. (k - 1), X)
  BY DEF Injection, IsInjective
<1>3. Cardinality(0 .. (k - 1)) <= Cardinality(X)
  BY <1>2, FS_Injection
<1>4. Cardinality(0 .. (k - 1)) = IF 0 > k - 1 THEN 0 ELSE k - 1 - 0 + 1
  BY FS_Interval
<1> QED
  BY <1>1, <1>3, <1>4

\* A walk along a chain meets its nodes in order, and then nothing.
LEMMA WalkOf ==
  ASSUME NEW X, Null \notin X, NEW bound \in Nat, NEW head, NEW nx, NEW s, NEW k,
         Chained(X, s, k, head, nx), k <= bound
  PROVE  Walk(head, nx, bound) = [n \in 0 .. bound |-> IF n < k THEN s[n] ELSE Null]
<1> DEFINE v == [n \in 0 .. bound |-> IF n < k THEN s[n] ELSE Null]
           w == Walk(head, nx, bound)
<1>1. k \in Nat /\ s \in [0 .. (k - 1) -> X]
  BY DEF Chained
<1>2. \A n \in 0 .. bound :
        v[n] = IF n = 0 THEN head ELSE IF v[n - 1] = Null THEN Null ELSE nx[v[n - 1]]
  <2> TAKE n \in 0 .. bound
  <2>1. CASE n = 0
    BY <1>1, <2>1 DEF Chained
  <2>2. CASE n # 0 /\ n - 1 < k
    <3>1. n - 1 \in 0 .. (k - 1) /\ v[n - 1] = s[n - 1] /\ s[n - 1] # Null
      BY <1>1, <2>2
    <3>2. nx[s[n - 1]] = IF (n - 1) + 1 < k THEN s[(n - 1) + 1] ELSE Null
      BY <3>1 DEF Chained
    <3> QED
      BY <1>1, <2>2, <3>1, <3>2
  <2>3. CASE n # 0 /\ ~(n - 1 < k)
    BY <1>1, <2>3
  <2> QED
    BY <2>1, <2>2, <2>3
<1>3. IsWalk(v, head, nx, bound)
  BY <1>2 DEF IsWalk
<1>4. IsWalk(w, head, nx, bound)
  BY <1>3, WalkEquation, Zenon
<1> HIDE DEF v, w
<1>5. \A n \in 0 .. bound : w[n] = v[n]
  <2> DEFINE T == {n \in 0 .. bound : w[n] # v[n]}
  <2> SUFFICES ASSUME T # {} PROVE FALSE
    OBVIOUS
  <2>0. T \subseteq Nat
    OBVIOUS
  <2>1. PICK n \in T : \A m \in T : n <= m
    <3> HIDE DEF T
    <3> QED
      BY <2>0, Least
  <2>2. n \in 0 .. bound /\ w[n] # v[n]
    OBVIOUS
  <2>3. n # 0 => w[n - 1] = v[n - 1]
    <3>1. n # 0 => n - 1 \in 0 .. bound /\ ~(n <= n - 1)
      BY <2>2
    <3> QED
      BY <2>1, <3>1
  <2> HIDE DEF T
  <2>4. w[n] = IF n = 0 THEN head ELSE IF w[n - 1] = Null THEN Null ELSE nx[w[n - 1]]
    BY <1>4, <2>2 DEF IsWalk
  <2>5. v[n] = IF n = 0 THEN head ELSE IF v[n - 1] = Null THEN Null ELSE nx[v[n - 1]]
    BY <1>3, <2>2 DEF IsWalk
  <2> QED
    BY <2>2, <2>3, <2>4, <2>5, Zenon
<1>6. w = [n \in 0 .. bound |-> w[n]]
  BY <1>4 DEF IsWalk
<1>7. v = [n \in 0 .. bound |-> v[n]]
  BY DEF v
<1>8. w = v
  BY <1>5, <1>6, <1>7
<1> QED
  BY <1>8 DEF w, v

\* What a walk over all nodes tells of a chain.
LEMMA WalkFacts ==
  ASSUME NEW X, Null \notin X, IsFiniteSet(X), NEW head, NEW nx, NEW s, NEW k,
         Chained(X, s, k, head, nx)
  PROVE  LET w == Walk(head, nx, Cardinality(X)) IN
         /\ k \in Nat /\ Cardinality(X) \in Nat /\ k <= Cardinality(X)
         /\ DOMAIN w = 0 .. Cardinality(X)
         /\ \A n \in 0 .. Cardinality(X) : w[n] = IF n < k THEN s[n] ELSE Null
         /\ \A n \in 0 .. (k - 1) : w[n] = s[n] /\ s[n] \in X /\ s[n] # Null
         /\ On(w) = {s[n] : n \in 0 .. (k - 1)}
         /\ On(w) \subseteq X
<1> DEFINE w == Walk(head, nx, Cardinality(X))
<1>1. /\ k \in Nat /\ s \in [0 .. (k - 1) -> X]
      /\ \A i, j \in 0 .. (k - 1) : s[i] = s[j] => i = j
  BY DEF Chained
<1>2. Cardinality(X) \in Nat /\ k <= Cardinality(X)
  BY <1>1, ChainBound
<1>3. w = [n \in 0 .. Cardinality(X) |-> IF n < k THEN s[n] ELSE Null]
  BY <1>2, WalkOf
<1> HIDE DEF w
<1>4. DOMAIN w = 0 .. Cardinality(X)
  BY <1>3
<1>5. \A n \in 0 .. Cardinality(X) : w[n] = IF n < k THEN s[n] ELSE Null
  BY <1>3
<1>6. \A n \in 0 .. (k - 1) : w[n] = s[n] /\ s[n] \in X /\ s[n] # Null
  BY <1>1, <1>2, <1>5
<1>7. On(w) = {s[n] : n \in 0 .. (k - 1)}
  <2>1. ASSUME NEW x \in On(w) PROVE x \in {s[n] : n \in 0 .. (k - 1)}
    <3>1. PICK n \in 0 .. Cardinality(X) : x = w[n] /\ x # Null
      BY <2>1, <1>4 DEF On
    <3>2. n \in 0 .. (k - 1) /\ x = s[n]
      BY <3>1, <1>1, <1>2, <1>5
    <3> QED
      BY <3>2
  <2>2. ASSUME NEW n \in 0 .. (k - 1) PROVE s[n] \in On(w)
    <3>1. n \in 0 .. Cardinality(X) /\ w[n] = s[n] /\ s[n] # Null
      BY <1>1, <1>2, <1>6
    <3> QED
      BY <3>1, <1>4 DEF On
  <2> QED
    BY <2>1, <2>2
<1>8. On(w) \subseteq X
  BY <1>6, <1>7
<1> QED
  BY <1>1, <1>2, <1>4, <1>5, <1>6, <1>7, <1>8 DEF w

----
(* Linking and unlinking *)

\* The nodes reached from head lie in a row.
IsChain(X, head, nx) == \E k, s : Chained(X, s, k, head, nx)

\* An empty chain has no nodes.
LEMMA EmptyChain ==
  ASSUME NEW X, Null \notin X, IsFiniteSet(X), NEW nx
  PROVE  /\ IsChain(X, Null, nx)
         /\ On(Walk(Null, nx, Cardinality(X))) = {}
<1> DEFINE s == [i \in 0 .. (0 - 1) |-> Null]
<1>1. \A i \in 0 .. (0 - 1) : FALSE
  OBVIOUS
<1>2. s \in [0 .. (0 - 1) -> X]
  BY <1>1
<1>3. Chained(X, s, 0, Null, nx)
  BY <1>1, <1>2 DEF Chained
<1>4. On(Walk(Null, nx, Cardinality(X))) = {s[n] : n \in 0 .. (0 - 1)}
  BY <1>3, WalkFacts
<1> QED
  BY <1>1, <1>3, <1>4 DEF IsChain

\* A walk along a chain comes to its end; it is empty if nothing is met.
LEMMA ChainEnds ==
  ASSUME NEW X, Null \notin X, IsFiniteSet(X), NEW head, NEW nx, IsChain(X, head, nx)
  PROVE  LET w == Walk(head, nx, Cardinality(X)) IN
         /\ \E n \in DOMAIN w : w[n] = Null
         /\ On(w) \subseteq X
         /\ DOMAIN w = 0 .. Cardinality(X) /\ Cardinality(X) \in Nat
         /\ w[0] = head
<1> DEFINE w == Walk(head, nx, Cardinality(X))
<1>1. PICK k, s : Chained(X, s, k, head, nx)
  BY DEF IsChain
<1>2. /\ k \in Nat /\ Cardinality(X) \in Nat /\ k <= Cardinality(X)
      /\ DOMAIN w = 0 .. Cardinality(X)
      /\ \A n \in 0 .. Cardinality(X) : w[n] = IF n < k THEN s[n] ELSE Null
      /\ On(w) \subseteq X
  BY <1>1, WalkFacts
<1> HIDE DEF w
<1>3. k \in DOMAIN w /\ w[k] = Null
  BY <1>2
<1>4. w[0] = head
  BY <1>1, <1>2 DEF Chained
<1> QED
  BY <1>2, <1>3, <1>4 DEF w

\* Changes to pointers that are not part of a chain leave it as it is.
LEMMA KeepChain ==
  ASSUME NEW X, Null \notin X, IsFiniteSet(X), NEW head, NEW nx, NEW mx,
         IsChain(X, head, nx),
         \A y \in On(Walk(head, nx, Cardinality(X))) : mx[y] = nx[y]
  PROVE  /\ IsChain(X, head, mx)
         /\ Walk(head, mx, Cardinality(X)) = Walk(head, nx, Cardinality(X))
<1>1. PICK k, s : Chained(X, s, k, head, nx)
  BY DEF IsChain
<1>2. \A n \in 0 .. (k - 1) : s[n] \in On(Walk(head, nx, Cardinality(X)))
  BY <1>1, WalkFacts
<1>3. Chained(X, s, k, head, mx)
  BY <1>1, <1>2 DEF Chained
<1>4. Cardinality(X) \in Nat /\ k <= Cardinality(X)
  BY <1>1, WalkFacts
<1>5. Walk(head, mx, Cardinality(X)) = Walk(head, nx, Cardinality(X))
  BY <1>1, <1>3, <1>4, WalkOf
<1> QED
  BY <1>3, <1>5 DEF IsChain

\* The last node of a chain, as the code looks for it, is its last node.
LEMMA LastOfChain ==
  ASSUME NEW X, Null \notin X, IsFiniteSet(X), NEW head, NEW nx, NEW s, NEW k,
         Chained(X, s, k, head, nx), NEW last,
         IsLast(Walk(head, nx, Cardinality(X)), last)
  PROVE  /\ k = 0 => last = Null
         /\ k # 0 => last = s[k - 1] /\ last # Null
<1> DEFINE w == Walk(head, nx, Cardinality(X))
           c == Cardinality(X)
<1>1. /\ k \in Nat /\ c \in Nat /\ k <= c
      /\ DOMAIN w = 0 .. c
      /\ \A n \in 0 .. c : w[n] = IF n < k THEN s[n] ELSE Null
      /\ \A n \in 0 .. (k - 1) : w[n] = s[n] /\ s[n] \in X /\ s[n] # Null
  BY WalkFacts
<1>2. \/ w[0] = Null /\ last = Null
      \/ \E n \in DOMAIN w : n + 1 \in DOMAIN w /\ w[n] = last /\ last # Null /\ w[n + 1] = Null
  BY DEF IsLast
<1> HIDE DEF w, c
<1>3. CASE w[0] = Null /\ last = Null
  BY <1>1, <1>3
<1>4. ASSUME NEW n \in 0 .. c, n + 1 \in 0 .. c, w[n] = last, last # Null, w[n + 1] = Null
      PROVE  k # 0 /\ last = s[k - 1]
  <2>1. n < k
    BY <1>1, <1>4
  <2>2. ~(n + 1 < k)
    <3> SUFFICES ASSUME n + 1 < k PROVE FALSE
      OBVIOUS
    <3>1. n + 1 \in 0 .. (k - 1)
      BY <1>1
    <3> QED
      BY <1>1, <1>4, <3>1
  <2>3. n = k - 1
    BY <1>1, <2>1, <2>2
  <2> QED
    BY <1>1, <1>4, <2>1, <2>3
<1> QED
  BY <1>1, <1>2, <1>3, <1>4

\* x is linked behind the last node, or becomes the head of an empty chain.
Linked(X, x, last, head, nx, hd, mx) ==
  LET w == Walk(head, nx, Cardinality(X)) IN
  /\ IsChain(X, head, nx) /\ IsLast(w, last)
  /\ x \in X /\ x \notin On(w) /\ mx[x] = Null
  /\ last # Null => mx[last] = x
  /\ \A y \in On(w) : y # last => mx[y] = nx[y]
  /\ hd = IF last = Null THEN x ELSE head

\* Linking a new node adds it to the chain.
LEMMA LinkLast ==
  ASSUME NEW X, Null \notin X, IsFiniteSet(X), NEW head, NEW nx, NEW mx, NEW hd, NEW last, NEW x,
         Linked(X, x, last, head, nx, hd, mx)
  PROVE  /\ IsChain(X, hd, mx)
         /\ On(Walk(hd, mx, Cardinality(X))) = On(Walk(head, nx, Cardinality(X))) \cup {x}
<1> USE DEF Linked
<1> DEFINE on == On(Walk(head, nx, Cardinality(X)))
<1>1. PICK k, s : Chained(X, s, k, head, nx)
  BY DEF IsChain
<1>2. /\ k = 0 => last = Null
      /\ k # 0 => last = s[k - 1] /\ last # Null
  BY <1>1, LastOfChain
<1>3. on = {s[n] : n \in 0 .. (k - 1)}
  BY <1>1, WalkFacts
<1>4. /\ k \in Nat /\ s \in [0 .. (k - 1) -> X]
      /\ \A i, j \in 0 .. (k - 1) : s[i] = s[j] => i = j
      /\ head = IF k = 0 THEN Null ELSE s[0]
      /\ \A i \in 0 .. (k - 1) : nx[s[i]] = IF i + 1 < k THEN s[i + 1] ELSE Null
  BY <1>1 DEF Chained
<1> DEFINE r == [i \in 0 .. k |-> IF i < k THEN s[i] ELSE x]
<1> HIDE DEF on
<1>5. \A i \in 0 .. (k - 1) : s[i] \in on /\ s[i] # x
  BY <1>3 DEF on
<1>6. r \in [0 .. k -> X]
  BY <1>4
<1>7. /\ \A i \in 0 .. (k - 1) : r[i] = s[i]
      /\ r[k] = x
  BY <1>4
<1> HIDE DEF r
<1>8. \A i, j \in 0 .. k : r[i] = r[j] => i = j
  <2> SUFFICES ASSUME NEW i \in 0 .. k, NEW j \in 0 .. k, r[i] = r[j] PROVE i = j
    OBVIOUS
  <2>1. i \in 0 .. (k - 1) \/ i = k
    BY <1>4
  <2>2. j \in 0 .. (k - 1) \/ j = k
    BY <1>4
  <2> QED
    BY <1>4, <1>5, <1>7, <2>1, <2>2
<1>9. hd = r[0]
  <2>1. CASE k = 0
    BY <1>2, <1>7, <2>1
  <2>2. CASE k # 0
    <3>1. 0 \in 0 .. (k - 1)
      BY <1>4, <2>2
    <3> QED
      BY <1>2, <1>4, <1>7, <2>2, <3>1
  <2> QED
    BY <2>1, <2>2
<1>10. \A i \in 0 .. k : mx[r[i]] = IF i + 1 < k + 1 THEN r[i + 1] ELSE Null
  <2> TAKE i \in 0 .. k
  <2>1. CASE i = k
    BY <1>4, <1>7, <2>1
  <2>2. CASE i = k - 1
    <3>1. k # 0 /\ k - 1 \in 0 .. (k - 1) /\ r[i] = last /\ i + 1 = k
      BY <1>2, <1>4, <1>7, <2>2
    <3>2. mx[last] = x
      BY <1>2, <3>1
    <3> QED
      BY <1>4, <1>7, <3>1, <3>2
  <2>3. CASE i < k - 1
    <3>1. i \in 0 .. (k - 1) /\ i + 1 \in 0 .. (k - 1) /\ i + 1 < k /\ k # 0
          /\ k - 1 \in 0 .. (k - 1) /\ i # k - 1
      BY <1>4, <2>3
    <3>2. s[i] # last
      BY <1>2, <1>4, <3>1
    <3>3. mx[s[i]] = nx[s[i]]
      BY <1>5, <3>1, <3>2 DEF on
    <3>4. nx[s[i]] = s[i + 1]
      BY <1>4, <3>1
    <3>5. r[i] = s[i] /\ r[i + 1] = s[i + 1]
      BY <1>7, <3>1
    <3>6. i + 1 < k + 1
      BY <1>4, <3>1
    <3> QED
      BY <3>3, <3>4, <3>5, <3>6
  <2> QED
    BY <1>4, <2>1, <2>2, <2>3
<1>11. k + 1 \in Nat /\ (k + 1) - 1 = k /\ k + 1 # 0
  BY <1>4
<1>12. Chained(X, r, k + 1, hd, mx)
  BY <1>6, <1>8, <1>9, <1>10, <1>11 DEF Chained
<1>13. On(Walk(hd, mx, Cardinality(X))) = {r[n] : n \in 0 .. ((k + 1) - 1)}
  BY <1>12, WalkFacts
<1>14. {r[n] : n \in 0 .. k} = on \cup {x}
  <2>1. ASSUME NEW n \in 0 .. k PROVE r[n] \in on \cup {x}
    <3>1. n \in 0 .. (k - 1) \/ n = k
      BY <1>4
    <3> QED
      BY <1>5, <1>7, <3>1
  <2>2. ASSUME NEW y \in on PROVE y \in {r[n] : n \in 0 .. k}
    <3>1. PICK n \in 0 .. (k - 1) : y = s[n]
      BY <1>3
    <3>2. n \in 0 .. k /\ y = r[n]
      BY <1>4, <1>7, <3>1
    <3> QED
      BY <3>2
  <2>3. k \in 0 .. k
    BY <1>4
  <2> QED
    BY <1>7, <2>1, <2>2, <2>3
<1> QED
  BY <1>11, <1>12, <1>13, <1>14 DEF IsChain, on

\* The n-th node d is bypassed.
Unlinked(X, n, d, head, nx, hd, mx) ==
  LET w == Walk(head, nx, Cardinality(X)) IN
  /\ IsChain(X, head, nx)
  /\ n \in DOMAIN w /\ d = w[n] /\ d # Null
  /\ n = 0 => hd = nx[d]
  /\ n # 0 => hd = head /\ mx[w[n - 1]] = nx[d]
  /\ \A y \in On(w) : y # d /\ (n # 0 => y # w[n - 1]) => mx[y] = nx[y]

\* Unlinking the n-th node takes it out of the chain.
LEMMA UnlinkNth ==
  ASSUME NEW X, Null \notin X, IsFiniteSet(X), NEW head, NEW nx, NEW mx, NEW hd, NEW n, NEW d,
         Unlinked(X, n, d, head, nx, hd, mx)
  PROVE  /\ IsChain(X, hd, mx)
         /\ On(Walk(hd, mx, Cardinality(X))) = On(Walk(head, nx, Cardinality(X))) \ {d}
<1> USE DEF Unlinked
<1> DEFINE w == Walk(head, nx, Cardinality(X))
           on == On(w)
           c == Cardinality(X)
<1>1. PICK k, s : Chained(X, s, k, head, nx)
  BY DEF IsChain
<1>2. /\ k \in Nat /\ c \in Nat /\ k <= c
      /\ DOMAIN w = 0 .. c
      /\ \A i \in 0 .. c : w[i] = IF i < k THEN s[i] ELSE Null
      /\ on = {s[i] : i \in 0 .. (k - 1)}
  BY <1>1, WalkFacts
<1>3. /\ s \in [0 .. (k - 1) -> X]
      /\ \A i, j \in 0 .. (k - 1) : s[i] = s[j] => i = j
      /\ head = IF k = 0 THEN Null ELSE s[0]
      /\ \A i \in 0 .. (k - 1) : nx[s[i]] = IF i + 1 < k THEN s[i + 1] ELSE Null
  BY <1>1 DEF Chained
<1>4. n \in 0 .. c /\ d = w[n]
  BY <1>2
<1>5. /\ n = 0 => hd = nx[d]
      /\ n # 0 => hd = head /\ mx[w[n - 1]] = nx[d]
      /\ \A y \in on : y # d /\ (n # 0 => y # w[n - 1]) => mx[y] = nx[y]
  OBVIOUS
<1> HIDE DEF w, on, c
<1>6. n \in 0 .. (k - 1) /\ d = s[n] /\ k # 0
  BY <1>2, <1>4
<1>7. n # 0 => n - 1 \in 0 .. (k - 1) /\ w[n - 1] = s[n - 1]
  BY <1>2, <1>6
<1> DEFINE r == [i \in 0 .. (k - 2) |-> IF i < n THEN s[i] ELSE s[i + 1]]
<1>8. /\ \A i \in 0 .. (k - 2) : i < n => i \in 0 .. (k - 1) /\ r[i] = s[i]
      /\ \A i \in 0 .. (k - 2) : ~(i < n) => i + 1 \in 0 .. (k - 1) /\ r[i] = s[i + 1]
  BY <1>2, <1>6
<1>9. r \in [0 .. (k - 2) -> X]
  BY <1>3, <1>8
<1> HIDE DEF r
<1>10. \A i, j \in 0 .. (k - 2) : r[i] = r[j] => i = j
  <2> SUFFICES ASSUME NEW i \in 0 .. (k - 2), NEW j \in 0 .. (k - 2), r[i] = r[j] PROVE i = j
    OBVIOUS
  <2>1. CASE i < n /\ j < n
    BY <1>3, <1>8, <2>1
  <2>2. CASE i < n /\ ~(j < n)
    <3>1. i = j + 1
      BY <1>3, <1>8, <2>2
    <3> QED
      BY <1>6, <2>2, <3>1
  <2>3. CASE ~(i < n) /\ j < n
    <3>1. i + 1 = j
      BY <1>3, <1>8, <2>3
    <3> QED
      BY <1>6, <2>3, <3>1
  <2>4. CASE ~(i < n) /\ ~(j < n)
    <3>1. i + 1 = j + 1
      BY <1>3, <1>8, <2>4
    <3> QED
      BY <3>1
  <2> QED
    BY <2>1, <2>2, <2>3, <2>4
<1>11. nx[d] = IF n + 1 < k THEN s[n + 1] ELSE Null
  BY <1>3, <1>6
<1>12. hd = IF k - 1 = 0 THEN Null ELSE r[0]
  <2>1. CASE n = 0 /\ k = 1
    BY <1>5, <1>11, <2>1
  <2>2. CASE n = 0 /\ k # 1
    <3>1. 0 \in 0 .. (k - 2) /\ ~(0 < n) /\ n + 1 < k /\ k - 1 # 0
      BY <1>2, <1>6, <2>2
    <3>2. r[0] = s[0 + 1]
      BY <1>8, <3>1
    <3> QED
      BY <1>5, <1>11, <2>2, <3>1, <3>2
  <2>3. CASE n # 0
    <3>1. 0 \in 0 .. (k - 2) /\ 0 < n /\ k - 1 # 0
      BY <1>2, <1>6, <2>3
    <3>2. r[0] = s[0]
      BY <1>8, <3>1
    <3> QED
      BY <1>3, <1>5, <1>6, <2>3, <3>1, <3>2
  <2> QED
    BY <2>1, <2>2, <2>3
<1>13. \A i \in 0 .. (k - 1) : s[i] # d /\ (n # 0 => s[i] # w[n - 1]) => mx[s[i]] = nx[s[i]]
  BY <1>2, <1>5
<1>14. \A i \in 0 .. (k - 2) : mx[r[i]] = IF i + 1 < k - 1 THEN r[i + 1] ELSE Null
  <2> TAKE i \in 0 .. (k - 2)
  <2>1. CASE i + 1 < n
    <3>1. i \in 0 .. (k - 1) /\ i + 1 \in 0 .. (k - 2) /\ i < n /\ n # 0
          /\ i # n /\ i # n - 1 /\ i + 1 < k - 1 /\ i + 1 < k /\ n - 1 \in 0 .. (k - 1)
      BY <1>2, <1>6, <2>1
    <3>2. s[i] # d /\ s[i] # w[n - 1]
      BY <1>3, <1>6, <1>7, <3>1
    <3>3. mx[s[i]] = s[i + 1]
      BY <1>3, <1>13, <3>1, <3>2
    <3>4. r[i] = s[i] /\ r[i + 1] = s[i + 1]
      BY <1>8, <2>1, <3>1
    <3> QED
      BY <3>1, <3>3, <3>4
  <2>2. CASE i + 1 = n
    <3>1. i = n - 1 /\ i < n /\ n # 0 /\ ~(i + 1 < n)
      BY <1>6, <2>2
    <3>2. r[i] = s[n - 1] /\ mx[s[n - 1]] = nx[d]
      BY <1>5, <1>7, <1>8, <3>1
    <3>3. (i + 1 < k - 1) <=> (n + 1 < k)
      BY <1>2, <1>6, <2>2
    <3>4. i + 1 < k - 1 => r[i + 1] = s[(i + 1) + 1]
      <4>1. i + 1 < k - 1 => i + 1 \in 0 .. (k - 2)
        BY <1>2
      <4> QED
        BY <1>8, <3>1, <4>1
    <3> QED
      BY <1>11, <2>2, <3>2, <3>3, <3>4
  <2>3. CASE ~(i + 1 <= n)
    <3>1. i + 1 \in 0 .. (k - 1) /\ ~(i < n) /\ i + 1 # n /\ i + 1 # n - 1
      BY <1>2, <1>6, <2>3
    <3>2. s[i + 1] # d /\ (n # 0 => s[i + 1] # w[n - 1])
      BY <1>3, <1>6, <1>7, <3>1
    <3>3. mx[s[i + 1]] = nx[s[i + 1]]
      BY <1>13, <3>1, <3>2
    <3>4. nx[s[i + 1]] = IF (i + 1) + 1 < k THEN s[(i + 1) + 1] ELSE Null
      BY <1>3, <3>1
    <3>5. r[i] = s[i + 1]
      BY <1>8, <3>1
    <3>6. i + 1 < k - 1 => r[i + 1] = s[(i + 1) + 1]
      <4>1. i + 1 < k - 1 => i + 1 \in 0 .. (k - 2) /\ ~(i + 1 < n)
        BY <1>2, <1>6, <2>3
      <4> QED
        BY <1>8, <4>1
    <3>7. (i + 1 < k - 1) <=> ((i + 1) + 1 < k)
      BY <1>2
    <3> QED
      BY <3>3, <3>4, <3>5, <3>6, <3>7
  <2> QED
    BY <1>6, <2>1, <2>2, <2>3
<1>15. k - 1 \in Nat /\ (k - 1) - 1 = k - 2
  BY <1>2, <1>6
<1>16. Chained(X, r, k - 1, hd, mx)
  BY <1>9, <1>10, <1>12, <1>14, <1>15 DEF Chained
<1>17. On(Walk(hd, mx, Cardinality(X))) = {r[i] : i \in 0 .. ((k - 1) - 1)}
  BY <1>16, WalkFacts
<1>18. {r[i] : i \in 0 .. (k - 2)} = on \ {d}
  <2>1. ASSUME NEW i \in 0 .. (k - 2) PROVE r[i] \in on \ {d}
    <3>1. CASE i < n
      <4>1. i \in 0 .. (k - 1) /\ r[i] = s[i] /\ i # n
        BY <1>6, <1>8, <3>1
      <4> QED
        BY <1>2, <1>3, <1>6, <4>1
    <3>2. CASE ~(i < n)
      <4>1. i + 1 \in 0 .. (k - 1) /\ r[i] = s[i + 1] /\ i + 1 # n
        BY <1>6, <1>8, <3>2
      <4> QED
        BY <1>2, <1>3, <1>6, <4>1
    <3> QED
      BY <3>1, <3>2
  <2>2. ASSUME NEW y \in on \ {d} PROVE y \in {r[i] : i \in 0 .. (k - 2)}
    <3>1. PICK j \in 0 .. (k - 1) : y = s[j]
      BY <1>2
    <3>2. j # n
      BY <1>6, <2>2, <3>1
    <3>3. CASE j < n
      <4>1. j \in 0 .. (k - 2)
        BY <1>2, <1>6, <3>3
      <4> QED
        BY <1>8, <3>1, <3>3, <4>1
    <3>4. CASE ~(j < n)
      <4>1. j - 1 \in 0 .. (k - 2) /\ ~(j - 1 < n) /\ (j - 1) + 1 = j
        BY <1>2, <1>6, <3>2, <3>4
      <4>2. r[j - 1] = s[j]
        BY <1>8, <4>1
      <4> QED
        BY <3>1, <4>1, <4>2
    <3> QED
      BY <3>3, <3>4
  <2> QED
    BY <2>1, <2>2
<1> QED
  BY <1>15, <1>16, <1>17, <1>18 DEF IsChain, on, w, c

----
(* The heap *)

\* A pointer is never NULL, and its page and its frame determine each other.
LEMMA Addresses ==
  /\ Null \notin Pages /\ Null \notin DescAddrs
  /\ \A f \in Frames : pa_to_va(f) \in Pages /\ va_to_pa(pa_to_va(f)) = f
  /\ \A p \in Pages : va_to_pa(p) \in Frames /\ pa_to_va(va_to_pa(p)) = p
<1>1. Pages \subseteq Nat
  BY HeapAssumption DEF Pages, pa_to_va
<1>2. Indices \subseteq Nat
  BY HeapAssumption DEF Indices
<1>3. DescAddrs \subseteq Nat \X Nat
  BY <1>1, <1>2 DEF DescAddrs
<1>4. \A f \in Frames : pa_to_va(f) \in Pages /\ va_to_pa(pa_to_va(f)) = f
  BY HeapAssumption DEF Pages, pa_to_va, va_to_pa
<1>5. \A p \in Pages : va_to_pa(p) \in Frames /\ pa_to_va(va_to_pa(p)) = p
  BY HeapAssumption DEF Pages, pa_to_va, va_to_pa
<1> QED
  BY <1>1, <1>3, <1>4, <1>5, HeapAssumption

\* There are finitely many pages and descriptors.
LEMMA FinitelyMany == IsFiniteSet(Pages) /\ IsFiniteSet(DescAddrs)
<1> DEFINE g == [f \in Frames |-> pa_to_va(f)]
<1>1. g \in Surjection(Frames, Pages)
  BY DEF Surjection, Pages
<1>2. IsFiniteSet(Pages)
  BY <1>1, FS_Surjection, HeapAssumption
<1>3. IsFiniteSet(Indices)
  BY FS_Interval, HeapAssumption DEF Indices
<1> QED
  BY <1>2, <1>3, FS_Product DEF DescAddrs

\* A descriptor is its page and its index.
LEMMA DescParts ==
  /\ \A d \in DescAddrs : d[1] \in Pages /\ d[2] \in Indices /\ d = <<d[1], d[2]>>
  /\ \A p \in Pages : <<p, 0>> \in DescAddrs
<1>1. 0 \in Indices
  BY HeapAssumption DEF Indices
<1> QED
  BY <1>1 DEF DescAddrs

\* Rounding up.
LEMMA RoundUp ==
  ASSUME NEW a \in Nat, NEW d \in Nat \ {0}
  PROVE  (a + d - 1) \div d \in Nat /\ ((a + d - 1) \div d) * d >= a
<1> DEFINE q == (a + d - 1) \div d
           m == (a + d - 1) % d
<1>1. q \in Int /\ m \in 0 .. (d - 1) /\ a + d - 1 = d * q + m
  OBVIOUS
<1> HIDE DEF q, m
<1>2. d * q >= a /\ d * q = q * d
  BY <1>1
<1>3. q \in Nat
  <2> SUFFICES ASSUME q < 0 PROVE FALSE
    BY <1>1
  <2>1. d * q <= 0 - d
    BY <1>1
  <2> QED
    BY <1>1, <1>2, <2>1
<1> QED
  BY <1>2, <1>3 DEF q

\* The pages for a size kmalloc does not reject are enough for it; there is at
\* least one.  SIZE_MAX is not exceeded on the way.
LEMMA PagesEnough ==
  ASSUME NEW size \in 0 .. SizeMax, ~Rejected(size)
  PROVE  /\ NumPages(size) \in Nat /\ NumPages(size) > 0
         /\ NumPages(size) * PageSize >= size
<1>1. size \in Nat /\ size # 0 /\ size <= SizeMax - (PageSize - 1)
      /\ SizeMax \in Nat /\ PageSize \in Nat \ {0}
  BY HeapAssumption DEF Rejected
<1>2. size + PageSize - 1 \in 0 .. SizeMax
  BY <1>1
<1>3. \A a \in 0 .. SizeMax : a % (SizeMax + 1) = a
  BY <1>1
<1>4. NumPages(size) = (size + PageSize - 1) \div PageSize
  BY <1>2, <1>3 DEF NumPages
<1>5. NumPages(size) \in Nat /\ NumPages(size) * PageSize >= size
  BY <1>1, <1>4, RoundUp
<1>6. NumPages(size) # 0
  BY <1>1, <1>5
<1> QED
  BY <1>5, <1>6

----
(* The inductive invariant *)

\* Both chains are rows of distinct nodes that end.
Chains ==
  /\ IsChain(Pages, kalloc_page_head, next_page)
  /\ IsChain(DescAddrs, allocated, DescNext)

\* What a call in progress has found out still holds: its descriptor is in a
\* page of the chain, and that of a kmalloc is taken.
CallOK ==
  /\ call.op = "idle" => call = Idle
  /\ call.op # "idle" => call.block \in DescAddrs /\ call.block[1] \in Chain
  /\ call.op = "kmalloc" =>
       desc[call.block].is_used /\ call.size \in Sizes /\ ~Rejected(call.size)

\* The list holds the descriptors in use in pages of the chain.
ListedExact ==
  Listed = {d \in DescAddrs : d[1] \in Chain /\ desc[d].is_used} \ InFlight

\* The page allocator's part of NothingLeaked: blocks that are not empty and
\* do not overlap, and all other frames free.
PoolOK ==
  /\ managed = Frames /\ free \subseteq Frames
  /\ live \subseteq [frame : Frames, num : Nat]
  /\ \A b \in live : b.num > 0
  /\ \A a, b \in live : a # b => Pool!BlockFrames(a) \cap Pool!BlockFrames(b) = {}
  /\ free = Frames \ Pool!LiveFrames

\* Every block taken has exactly one owner.
Owned ==
  /\ live = ChainBlocks \cup DataBlocks \cup foreign
  /\ ChainBlocks \cap DataBlocks = {}
  /\ (ChainBlocks \cup DataBlocks) \cap foreign = {}

\* The pages of the chain without a live descriptor.  The descriptor of a
\* kmalloc in progress may yet be released, and the page a kfree in progress
\* has to look at may yet be given back.
Spare ==
  {p \in Chain : UsedIn(p) \subseteq InFlight /\ ~(call.op = "kfree" /\ p = call.block[1])}

OneSpare == \A p, q \in Spare : p = q

HeapInv ==
  TypeOK /\ Chains /\ CallOK /\ ListedExact /\ HeapExact /\ PoolOK /\ Owned /\ OneSpare

----
(* The page allocator *)

\* The block page_alloc hands out overlaps no other.
LEMMA PoolAlloc ==
  ASSUME PoolOK, NEW n \in Nat, Pool!Alloc(n)
  PROVE  /\ PoolOK'
         /\ n > 0 /\ result'.frame \in Frames
         /\ live' = live \cup {[frame |-> result'.frame, num |-> n]}
         /\ result'.num = n
         /\ \A a \in live : a.frame # result'.frame
<1> PICK f \in free :
      /\ n > 0 /\ Pool!Run(f, n) \subseteq free
      /\ free' = free \ Pool!Run(f, n)
      /\ live' = live \cup {[frame |-> f, num |-> n]}
      /\ result' = [num |-> n, frame |-> f]
      /\ UNCHANGED managed
  BY DEF Pool!Alloc
<1> DEFINE b == [frame |-> f, num |-> n]
<1>1. f \in Frames /\ f \in Nat
  BY HeapAssumption DEF PoolOK
<1>2. b \in [frame : Frames, num : Nat] /\ b.frame = f /\ b.num = n
  BY <1>1
<1>3. Pool!BlockFrames(b) = Pool!Run(f, n)
  BY DEF Pool!BlockFrames
<1>4. Pool!BlockFrames(b) \subseteq free
  BY <1>3
<1>5. \A a \in live : a.frame \in Pool!BlockFrames(a)
  <2> TAKE a \in live
  <2>1. a.frame \in Nat /\ a.num \in Nat /\ a.num > 0
    BY HeapAssumption DEF PoolOK
  <2> QED
    BY <2>1 DEF Pool!BlockFrames, Pool!Run
<1>6. \A a \in live : Pool!BlockFrames(a) \subseteq Pool!LiveFrames
  BY DEF Pool!LiveFrames
<1>7. free \cap Pool!LiveFrames = {}
  BY DEF PoolOK
<1>8. \A a \in live : Pool!BlockFrames(a) \cap Pool!BlockFrames(b) = {}
  BY <1>4, <1>6, <1>7
<1>9. \A a \in live : a.frame # f
  BY <1>5, <1>6, <1>7
<1>10. Pool!LiveFrames' = Pool!LiveFrames \cup Pool!BlockFrames(b)
  BY DEF Pool!LiveFrames
<1>11. free' = Frames \ Pool!LiveFrames'
  BY <1>3, <1>10 DEF PoolOK
<1> HIDE DEF b
<1>12. live' = live \cup {b}
  BY DEF b
<1>13. \A x, y \in live' : x # y => Pool!BlockFrames(x) \cap Pool!BlockFrames(y) = {}
  BY <1>8, <1>12 DEF PoolOK
<1>14. live' \subseteq [frame : Frames, num : Nat] /\ \A x \in live' : x.num > 0
  BY <1>2, <1>12 DEF PoolOK
<1>15. managed' = Frames /\ free' \subseteq Frames
  BY DEF PoolOK
<1>16. PoolOK'
  BY <1>11, <1>13, <1>14, <1>15 DEF PoolOK, Pool!BlockFrames, Pool!Run
<1> QED
  BY <1>1, <1>9, <1>16

\* A block that is given back frees its frames and no others.
LEMMA PoolRelease ==
  ASSUME PoolOK, NEW b \in live, Pool!Release(b)
  PROVE  PoolOK' /\ live' = live \ {b}
<1>1. /\ live' = live \ {b} /\ managed' = managed
      /\ free' = free \cup (Pool!BlockFrames(b) \cap managed)
  BY DEF Pool!Release
<1>2. \A a \in live : Pool!BlockFrames(a) \subseteq Pool!LiveFrames
  BY DEF Pool!LiveFrames
<1>3. \A a \in live' : Pool!BlockFrames(a) \cap Pool!BlockFrames(b) = {}
  BY <1>1 DEF PoolOK
<1>4. Pool!LiveFrames' = UNION {Pool!BlockFrames(a) : a \in live'}
  BY DEF Pool!LiveFrames, Pool!BlockFrames, Pool!Run
<1>5. Pool!LiveFrames' = Pool!LiveFrames \ Pool!BlockFrames(b)
  <2>1. ASSUME NEW f \in Pool!LiveFrames' PROVE f \in Pool!LiveFrames \ Pool!BlockFrames(b)
    <3>1. PICK a \in live' : f \in Pool!BlockFrames(a)
      BY <1>4, <2>1
    <3> QED
      BY <1>1, <1>2, <1>3, <3>1
  <2>2. ASSUME NEW f \in Pool!LiveFrames, f \notin Pool!BlockFrames(b) PROVE f \in Pool!LiveFrames'
    <3>1. PICK a \in live : f \in Pool!BlockFrames(a)
      BY DEF Pool!LiveFrames
    <3>2. a \in live'
      BY <1>1, <2>2, <3>1
    <3> QED
      BY <1>4, <3>1, <3>2
  <2> QED
    BY <2>1, <2>2
<1>6. free' = Frames \ Pool!LiveFrames'
  BY <1>1, <1>2, <1>5 DEF PoolOK
<1>7. \A x, y \in live' : x # y => Pool!BlockFrames(x) \cap Pool!BlockFrames(y) = {}
  BY <1>1 DEF PoolOK
<1>8. live' \subseteq [frame : Frames, num : Nat] /\ \A x \in live' : x.num > 0
  BY <1>1 DEF PoolOK
<1>9. managed' = Frames /\ free' \subseteq Frames
  BY <1>1, <1>6 DEF PoolOK
<1> QED
  BY <1>1, <1>6, <1>7, <1>8, <1>9 DEF PoolOK, Pool!BlockFrames, Pool!Run

\* A step that leaves the pool's variables alone leaves its invariant alone.
LEMMA PoolKept == PoolOK /\ UNCHANGED <<managed, free, live>> => PoolOK'
  BY DEF PoolOK, Pool!LiveFrames, Pool!BlockFrames, Pool!Run

----
(* Views of the state *)

\* The walks along the two chains.
LEMMA ChainFacts ==
  ASSUME Chains
  PROVE  /\ Chain \subseteq Pages /\ Listed \subseteq DescAddrs
         /\ \A n \in DOMAIN PageWalk : PageWalk[n] # Null => PageWalk[n] \in Chain
         /\ \A n \in DOMAIN ListWalk : ListWalk[n] # Null => ListWalk[n] \in Listed
         /\ \E n \in DOMAIN PageWalk : PageWalk[n] = Null
         /\ \E n \in DOMAIN ListWalk : ListWalk[n] = Null
         /\ 0 \in DOMAIN PageWalk /\ PageWalk[0] = kalloc_page_head
         /\ DOMAIN PageWalk \subseteq Nat /\ DOMAIN ListWalk \subseteq Nat
         /\ \A n \in DOMAIN PageWalk : n # 0 => n - 1 \in DOMAIN PageWalk
         /\ \A n \in DOMAIN ListWalk : n # 0 => n - 1 \in DOMAIN ListWalk
<1>1. /\ \E n \in DOMAIN PageWalk : PageWalk[n] = Null
      /\ Chain \subseteq Pages
      /\ DOMAIN PageWalk = 0 .. Cardinality(Pages) /\ Cardinality(Pages) \in Nat
      /\ PageWalk[0] = kalloc_page_head
  BY ChainEnds, Addresses, FinitelyMany DEF Chains, Chain, PageWalk
<1>2. /\ \E n \in DOMAIN ListWalk : ListWalk[n] = Null
      /\ Listed \subseteq DescAddrs
      /\ DOMAIN ListWalk = 0 .. Cardinality(DescAddrs) /\ Cardinality(DescAddrs) \in Nat
  BY ChainEnds, Addresses, FinitelyMany DEF Chains, Listed, ListWalk
<1>3. \A n \in DOMAIN PageWalk : PageWalk[n] # Null => PageWalk[n] \in Chain
  BY DEF Chain, On
<1>4. \A n \in DOMAIN ListWalk : ListWalk[n] # Null => ListWalk[n] \in Listed
  BY DEF Listed, On
<1>5. 0 \in DOMAIN PageWalk /\ DOMAIN PageWalk \subseteq Nat /\ DOMAIN ListWalk \subseteq Nat
  BY <1>1, <1>2
<1>6. /\ \A n \in DOMAIN PageWalk : n # 0 => n - 1 \in DOMAIN PageWalk
      /\ \A n \in DOMAIN ListWalk : n # 0 => n - 1 \in DOMAIN ListWalk
  BY <1>1, <1>2
<1> QED
  BY <1>1, <1>2, <1>3, <1>4, <1>5, <1>6

\* A page chain or a list that no action touched.
LEMMA PagesKept ==
  ASSUME Chains, UNCHANGED <<next_page, kalloc_page_head>>
  PROVE  IsChain(Pages, kalloc_page_head, next_page)' /\ Chain' = Chain /\ ChainBlocks' = ChainBlocks
<1>1. IsChain(Pages, kalloc_page_head', next_page')
  BY DEF Chains
<1>2. Chain' = Chain
  BY DEF Chain, PageWalk
<1> QED
  BY <1>1, <1>2 DEF ChainBlocks

\* The list of used descriptors stays as it is when the steps between its
\* members do.
LEMMA ListKept ==
  ASSUME TypeOK, Chains, UNCHANGED allocated,
         \A d \in Listed : desc'[d].next = desc[d].next
  PROVE  IsChain(DescAddrs, allocated, DescNext)' /\ Listed' = Listed
<1>1. \A d \in Listed : DescNext'[d] = DescNext[d]
  BY ChainFacts DEF DescNext
<1>2. /\ IsChain(DescAddrs, allocated, DescNext')
      /\ Walk(allocated, DescNext', Cardinality(DescAddrs)) = ListWalk
  BY <1>1, KeepChain, Addresses, FinitelyMany DEF Chains, Listed, ListWalk
<1>3. IsChain(DescAddrs, allocated', DescNext')
  BY <1>2
<1>4. Walk(allocated', DescNext', Cardinality(DescAddrs)) = ListWalk
  BY <1>2
<1>5. Listed' = Listed
  BY <1>4 DEF Listed, ListWalk
<1> QED
  BY <1>3, <1>5

\* The callers' blocks, if the list and its records stay.
LEMMA DataKept ==
  ASSUME HeapExact, Listed' = Listed, heap' = heap,
         \A d \in Listed : desc'[d].ptr = desc[d].ptr /\ desc'[d].size = desc[d].size
  PROVE  HeapExact' /\ DataBlocks' = DataBlocks
<1>1. \A d \in Listed : BlockOf(d)' = BlockOf(d)
  BY DEF BlockOf
<1>2. {[ptr |-> desc'[d].ptr, size |-> desc'[d].size] : d \in Listed}
        = {[ptr |-> desc[d].ptr, size |-> desc[d].size] : d \in Listed}
  OBVIOUS
<1>3. {[ptr |-> desc'[d].ptr, size |-> desc'[d].size] : d \in Listed'} = heap'
  BY <1>2 DEF HeapExact
<1>4. \A c, d \in Listed' : desc'[c].ptr = desc'[d].ptr => c = d
  BY DEF HeapExact
<1>5. \A d \in Listed' : BlockOf(d)'.num * PageSize >= desc'[d].size
  BY <1>1 DEF HeapExact
<1>6. HeapExact'
  BY <1>3, <1>4, <1>5 DEF HeapExact
<1>7. DataBlocks' = DataBlocks
  <2>1. DataBlocks' = {BlockOf(d)' : d \in Listed'}
    BY DEF DataBlocks, BlockOf
  <2> QED
    BY <1>1, <2>1 DEF DataBlocks
<1> QED
  BY <1>6, <1>7

\* What the invariant says of a descriptor in the list.
LEMMA ListedFacts ==
  ASSUME TypeOK, Chains, ListedExact, HeapExact, NEW d \in Listed
  PROVE  /\ d \in DescAddrs /\ d[1] \in Chain /\ desc[d].is_used
         /\ desc[d].ptr \in Pages /\ desc[d].size \in Nat
         /\ BlockOf(d) \in DataBlocks
         /\ BlockOf(d).frame = va_to_pa(desc[d].ptr)
         /\ [ptr |-> desc[d].ptr, size |-> desc[d].size] \in heap
<1>1. d \in DescAddrs /\ d[1] \in Chain /\ desc[d].is_used
  BY DEF ListedExact
<1>2. [ptr |-> desc[d].ptr, size |-> desc[d].size] \in heap
  BY DEF HeapExact
<1>3. [ptr |-> desc[d].ptr, size |-> desc[d].size] \in [ptr : Pages, size : Nat]
  BY <1>2 DEF TypeOK
<1>4. desc[d].ptr \in Pages /\ desc[d].size \in Nat
  BY <1>3
<1>5. BlockOf(d) \in DataBlocks /\ BlockOf(d).frame = va_to_pa(desc[d].ptr)
  BY DEF DataBlocks, BlockOf
<1> QED
  BY <1>1, <1>2, <1>4, <1>5

\* Setting or clearing the in-use mark of a descriptor changes nothing else.
LEMMA MarkUsed ==
  ASSUME TypeOK, NEW d \in DescAddrs, desc' = [desc EXCEPT ![d].is_used = TRUE]
  PROVE  /\ desc' \in [DescAddrs -> Desc]
         /\ \A x \in DescAddrs : /\ desc'[x].ptr = desc[x].ptr /\ desc'[x].size = desc[x].size
                                 /\ desc'[x].next = desc[x].next
                                 /\ desc'[x].is_used <=> (x = d \/ desc[x].is_used)
<1>1. desc \in [DescAddrs -> Desc]
  BY DEF TypeOK
<1>2. \A x \in DescAddrs : desc'[x] = IF x = d THEN [desc[x] EXCEPT !.is_used = TRUE] ELSE desc[x]
  BY <1>1
<1>3. \A x \in DescAddrs : [desc[x] EXCEPT !.is_used = TRUE] \in Desc
  BY <1>1 DEF Desc
<1>4. desc' \in [DescAddrs -> Desc]
  BY <1>1, <1>2, <1>3
<1>5. \A x \in DescAddrs : desc[x] \in Desc
  BY <1>1
<1> QED
  BY <1>2, <1>4, <1>5 DEF Desc

\* What clearing is_used of one descriptor, as kfree does, changes.
LEMMA MarkUnused ==
  ASSUME TypeOK, NEW d \in DescAddrs, desc' = [desc EXCEPT ![d].is_used = FALSE]
  PROVE  /\ desc' \in [DescAddrs -> Desc]
         /\ \A x \in DescAddrs : /\ desc'[x].ptr = desc[x].ptr /\ desc'[x].size = desc[x].size
                                 /\ desc'[x].next = desc[x].next
                                 /\ desc'[x].is_used <=> (x # d /\ desc[x].is_used)
<1>1. desc \in [DescAddrs -> Desc]
  BY DEF TypeOK
<1>2. \A x \in DescAddrs : desc'[x] = IF x = d THEN [desc[x] EXCEPT !.is_used = FALSE] ELSE desc[x]
  BY <1>1
<1>3. \A x \in DescAddrs : [desc[x] EXCEPT !.is_used = FALSE] \in Desc
  BY <1>1 DEF Desc
<1>4. desc' \in [DescAddrs -> Desc]
  BY <1>1, <1>2, <1>3
<1>5. \A x \in DescAddrs : desc[x] \in Desc
  BY <1>1
<1> QED
  BY <1>2, <1>4, <1>5 DEF Desc

----
(* Calls that do not touch the heap's own data *)

LEMMA HeapDataKept ==
  ASSUME HeapInv, UNCHANGED <<kallocVars, call, heap>>
  PROVE  /\ Chains' /\ CallOK' /\ ListedExact' /\ HeapExact' /\ OneSpare'
         /\ ChainBlocks' = ChainBlocks /\ DataBlocks' = DataBlocks
<1> USE DEF kallocVars
<1>1. TypeOK /\ Chains /\ HeapExact
  BY DEF HeapInv
<1>2. IsChain(Pages, kalloc_page_head, next_page)' /\ Chain' = Chain /\ ChainBlocks' = ChainBlocks
  BY <1>1, PagesKept
<1>3. IsChain(DescAddrs, allocated, DescNext)' /\ Listed' = Listed
  BY <1>1, ListKept
<1>4. HeapExact' /\ DataBlocks' = DataBlocks
  BY <1>1, <1>3, DataKept
<1>5. Chains'
  BY <1>2, <1>3 DEF Chains
<1>6. InFlight' = InFlight
  BY DEF InFlight
<1>7. ListedExact'
  BY <1>2, <1>3, <1>6 DEF HeapInv, ListedExact
<1>8. CallOK'
  BY <1>2 DEF HeapInv, CallOK
<1>9. Spare' = Spare
  BY <1>2, <1>6 DEF Spare, UsedIn
<1>10. OneSpare'
  BY <1>9 DEF HeapInv, OneSpare
<1> QED
  BY <1>2, <1>4, <1>5, <1>7, <1>8, <1>10

\* Other users of the page allocator take and return blocks of their own.
LEMMA ForeignAllocStep == HeapInv /\ ForeignAlloc => HeapInv'
<1> SUFFICES ASSUME HeapInv, ForeignAlloc PROVE HeapInv'
  OBVIOUS
<1>1. TypeOK /\ PoolOK /\ Owned
  BY DEF HeapInv
<1>2. /\ Chains' /\ CallOK' /\ ListedExact' /\ HeapExact' /\ OneSpare'
      /\ ChainBlocks' = ChainBlocks /\ DataBlocks' = DataBlocks
  BY HeapDataKept DEF ForeignAlloc
<1>3. PICK n \in Others : Pool!Alloc(n)
  BY DEF ForeignAlloc
<1>4. n \in Nat
  BY HeapAssumption
<1>5. /\ PoolOK' /\ result'.frame \in Frames /\ result'.num = n
      /\ live' = live \cup {[frame |-> result'.frame, num |-> n]}
      /\ \A a \in live : a.frame # result'.frame
  BY <1>1, <1>3, <1>4, PoolAlloc
<1> DEFINE b == [frame |-> result'.frame, num |-> n]
<1>6. foreign' = foreign \cup {b}
  BY <1>5 DEF ForeignAlloc
<1>7. b \notin live /\ live' = live \cup {b}
  BY <1>5
<1> HIDE DEF b
<1>8. Owned'
  BY <1>1, <1>2, <1>6, <1>7 DEF Owned
<1>9. TypeOK'
  <2>1. foreign' \subseteq live'
    BY <1>1, <1>6, <1>7 DEF TypeOK
  <2> QED
    BY <1>1, <1>5, <2>1 DEF TypeOK, ForeignAlloc, kallocVars, PoolOK
<1> QED
  BY <1>2, <1>5, <1>8, <1>9 DEF HeapInv

\* Another user gives one of its blocks back: the heap's blocks are other ones.
LEMMA ForeignFreeStep == HeapInv /\ ForeignFree => HeapInv'
<1> SUFFICES ASSUME HeapInv, ForeignFree PROVE HeapInv'
  OBVIOUS
<1>1. TypeOK /\ PoolOK /\ Owned
  BY DEF HeapInv
<1>2. /\ Chains' /\ CallOK' /\ ListedExact' /\ HeapExact' /\ OneSpare'
      /\ ChainBlocks' = ChainBlocks /\ DataBlocks' = DataBlocks
  BY HeapDataKept DEF ForeignFree
<1>3. PICK b \in foreign : Pool!Release(b) /\ foreign' = foreign \ {b}
  BY DEF ForeignFree
<1>4. b \in live
  BY <1>1 DEF Owned
<1>5. PoolOK' /\ live' = live \ {b}
  BY <1>1, <1>3, <1>4, PoolRelease
<1>6. Owned'
  BY <1>1, <1>2, <1>3, <1>5 DEF Owned
<1>7. TypeOK'
  BY <1>1, <1>3, <1>5 DEF TypeOK, ForeignFree, kallocVars, PoolOK
<1> QED
  BY <1>2, <1>5, <1>6, <1>7 DEF HeapInv

\* A kmalloc that gets no page for its descriptor leaves everything as it was.
LEMMA GrowFailsStep == HeapInv /\ GrowFails => HeapInv'
<1> SUFFICES ASSUME HeapInv, GrowFails PROVE HeapInv'
  OBVIOUS
<1>1. /\ Chains' /\ CallOK' /\ ListedExact' /\ HeapExact' /\ OneSpare'
      /\ ChainBlocks' = ChainBlocks /\ DataBlocks' = DataBlocks
  BY HeapDataKept DEF GrowFails
<1>2. UNCHANGED <<managed, free, live, kallocVars, call, heap, foreign>>
  BY DEF GrowFails, Pool!Refuse
<1>3. PoolOK'
  BY <1>2, PoolKept DEF HeapInv
<1>4. Owned'
  BY <1>1, <1>2 DEF HeapInv, Owned
<1>5. TypeOK'
  BY <1>2 DEF HeapInv, TypeOK, kallocVars
<1> QED
  BY <1>1, <1>3, <1>4, <1>5 DEF HeapInv

----
(* kmalloc *)

\* find_free_management_block takes a descriptor nobody uses.
LEMMA FindBlockStep == HeapInv /\ FindBlock => HeapInv'
<1> SUFFICES ASSUME HeapInv, FindBlock PROVE HeapInv'
  OBVIOUS
<1>1. TypeOK /\ Chains /\ CallOK /\ ListedExact /\ HeapExact /\ PoolOK /\ Owned /\ OneSpare
  BY DEF HeapInv
<1>2. PICK size \in Sizes, d \in DescAddrs :
        /\ ~Rejected(size) /\ FirstUnused(d)
        /\ desc' = [desc EXCEPT ![d].is_used = TRUE]
        /\ Claim(size, d)
  BY DEF FindBlock
<1>3. call = Idle /\ UNCHANGED <<poolVars, next_page, kalloc_page_head, allocated, heap, foreign>>
  BY DEF FindBlock
<1>4. call' = [op |-> "kmalloc", size |-> size, block |-> d] /\ call.op = "idle"
  BY <1>2, <1>3 DEF Claim, Idle
<1>5. d[1] \in Chain /\ ~desc[d].is_used
  <2>1. PICK n \in DOMAIN PageWalk : d \in Unused /\ d[1] = PageWalk[n]
    BY <1>2 DEF FirstUnused
  <2>2. d[1] # Null
    BY DescParts, Addresses
  <2> QED
    BY <1>1, <2>1, <2>2, ChainFacts DEF Unused
<1>6. /\ desc' \in [DescAddrs -> Desc]
      /\ \A x \in DescAddrs : /\ desc'[x].ptr = desc[x].ptr /\ desc'[x].size = desc[x].size
                              /\ desc'[x].next = desc[x].next
                              /\ desc'[x].is_used <=> (x = d \/ desc[x].is_used)
  BY <1>1, <1>2, MarkUsed
<1>7. Listed \subseteq DescAddrs
  BY <1>1, ChainFacts
<1>8. IsChain(Pages, kalloc_page_head, next_page)' /\ Chain' = Chain /\ ChainBlocks' = ChainBlocks
  BY <1>1, <1>3, PagesKept
<1>9. IsChain(DescAddrs, allocated, DescNext)' /\ Listed' = Listed
  BY <1>1, <1>3, <1>6, <1>7, ListKept
<1>10. HeapExact' /\ DataBlocks' = DataBlocks
  BY <1>1, <1>3, <1>6, <1>7, <1>9, DataKept
<1>11. Chains'
  BY <1>8, <1>9 DEF Chains
<1>12. CallOK'
  BY <1>2, <1>4, <1>5, <1>6, <1>8 DEF CallOK, Rejected
<1>13. InFlight' = {d} /\ InFlight = {}
  BY <1>4 DEF InFlight
<1>14. ListedExact'
  BY <1>1, <1>5, <1>6, <1>8, <1>9, <1>13 DEF ListedExact
<1>15. PoolOK'
  BY <1>1, <1>3, PoolKept DEF poolVars
<1>16. Owned'
  BY <1>1, <1>3, <1>8, <1>10 DEF Owned, poolVars
<1>17. OneSpare'
  <2>1. \A p \in Chain : UsedIn(p)' \subseteq {d} => UsedIn(p) = {}
    BY <1>5, <1>6 DEF UsedIn
  <2>2. Spare' \subseteq Spare
    BY <1>4, <1>8, <1>13, <2>1 DEF Spare
  <2> QED
    BY <1>1, <2>2 DEF OneSpare
<1>18. TypeOK'
  <2>1. call' \in [op : {"idle", "kmalloc", "kfree"}, size : 0 .. SizeMax,
                   block : DescAddrs \cup {Null}]
    BY <1>4, HeapAssumption
  <2> QED
    BY <1>1, <1>3, <1>6, <2>1 DEF TypeOK, poolVars
<1> QED
  BY <1>10, <1>11, <1>12, <1>14, <1>15, <1>16, <1>17, <1>18 DEF HeapInv

\* A zeroed page holds no descriptor in use; other pages are as before.
LEMMA ZeroedFacts ==
  ASSUME TypeOK, NEW p \in Pages
  PROVE  /\ ZeroedPage(p) \in [DescAddrs -> Desc]
         /\ \A x \in DescAddrs : x[1] # p => ZeroedPage(p)[x] = desc[x]
         /\ \A x \in DescAddrs : x[1] = p => ZeroedPage(p)[x] = NoDesc
<1>1. NoDesc \in Desc
  BY DEF NoDesc, Desc
<1>2. desc \in [DescAddrs -> Desc]
  BY DEF TypeOK
<1> QED
  BY <1>1, <1>2 DEF ZeroedPage

\* The first descriptor of a new page is taken.
LEMMA NewPageFacts ==
  ASSUME TypeOK, NEW p \in Pages, desc' = [ZeroedPage(p) EXCEPT ![<<p, 0>>].is_used = TRUE]
  PROVE  /\ desc' \in [DescAddrs -> Desc]
         /\ \A x \in DescAddrs : x[1] # p => desc'[x] = desc[x]
         /\ \A x \in DescAddrs : x[1] = p => (desc'[x].is_used <=> x = <<p, 0>>)
<1> DEFINE z == ZeroedPage(p)
           e == <<p, 0>>
<1>1. /\ z \in [DescAddrs -> Desc]
      /\ \A x \in DescAddrs : x[1] # p => z[x] = desc[x]
      /\ \A x \in DescAddrs : x[1] = p => z[x] = NoDesc
  BY ZeroedFacts
<1>2. e \in DescAddrs /\ e[1] = p
  BY DescParts
<1>3. desc' = [z EXCEPT ![e].is_used = TRUE]
  OBVIOUS
<1> HIDE DEF z, e
<1>4. \A x \in DescAddrs : desc'[x] = IF x = e THEN [z[x] EXCEPT !.is_used = TRUE] ELSE z[x]
  BY <1>1, <1>2, <1>3
<1>5. \A x \in DescAddrs : [z[x] EXCEPT !.is_used = TRUE] \in Desc
  BY <1>1 DEF Desc
<1>6. desc' \in [DescAddrs -> Desc]
  BY <1>1, <1>3, <1>4, <1>5
<1>7. \A x \in DescAddrs : x[1] # p => desc'[x] = desc[x]
  BY <1>1, <1>2, <1>4
<1>8. ASSUME NEW x \in DescAddrs, x[1] = p PROVE desc'[x].is_used <=> x = e
  <2>1. CASE x = e
    <3>1. desc'[x] = [z[x] EXCEPT !.is_used = TRUE] /\ z[x] = NoDesc
      BY <1>1, <1>4, <1>8, <2>1
    <3> QED
      BY <2>1, <3>1 DEF NoDesc
  <2>2. CASE x # e
    <3>1. desc'[x] = NoDesc
      BY <1>1, <1>4, <1>8, <2>2
    <3> QED
      BY <2>2, <3>1 DEF NoDesc
  <2> QED
    BY <2>1, <2>2
<1> QED
  BY <1>6, <1>7, <1>8 DEF e

\* A block for every page of the chain.
LEMMA ChainBlockOf ==
  ASSUME NEW p \in Chain
  PROVE  [frame |-> va_to_pa(p), num |-> 1] \in ChainBlocks
  BY DEF ChainBlocks

\* alloc_management_page: the page was free, so nothing points into it.
LEMMA GrowChainStep == HeapInv /\ GrowChain => HeapInv'
<1> SUFFICES ASSUME HeapInv, GrowChain PROVE HeapInv'
  OBVIOUS
<1>1. TypeOK /\ Chains /\ CallOK /\ ListedExact /\ HeapExact /\ PoolOK /\ Owned /\ OneSpare
  BY DEF HeapInv
<1> DEFINE f == result'.frame
           p == pa_to_va(f)
           b == [frame |-> f, num |-> 1]
<1>2. PICK size \in Sizes :
        /\ ~Rejected(size) /\ LinkPage(p)
        /\ desc' = [ZeroedPage(p) EXCEPT ![<<p, 0>>].is_used = TRUE]
        /\ Claim(size, <<p, 0>>)
  BY DEF GrowChain
<1>3. call = Idle /\ ChainFull /\ Pool!Alloc(1) /\ UNCHANGED <<allocated, heap, foreign>>
  BY DEF GrowChain
<1>4. call' = [op |-> "kmalloc", size |-> size, block |-> <<p, 0>>] /\ call.op = "idle"
  BY <1>2, <1>3 DEF Claim, Idle
<1>5. /\ PoolOK' /\ f \in Frames /\ live' = live \cup {b}
      /\ \A a \in live : a.frame # f
  BY <1>1, <1>3, PoolAlloc
<1>6. p \in Pages /\ va_to_pa(p) = f
  BY <1>5, Addresses
<1> HIDE DEF p, f
<1>7. p \notin Chain
  <2> SUFFICES ASSUME p \in Chain PROVE FALSE
    OBVIOUS
  <2>1. [frame |-> va_to_pa(p), num |-> 1] \in live
    BY <1>1, ChainBlockOf DEF Owned
  <2> QED
    BY <1>5, <1>6, <2>1
<1>8. /\ desc' \in [DescAddrs -> Desc]
      /\ \A x \in DescAddrs : x[1] # p => desc'[x] = desc[x]
      /\ \A x \in DescAddrs : x[1] = p => (desc'[x].is_used <=> x = <<p, 0>>)
  BY <1>1, <1>2, <1>6, NewPageFacts
<1>9. Listed \subseteq DescAddrs /\ Chain \subseteq Pages
  BY <1>1, ChainFacts
<1>10. \A x \in Listed : x[1] \in Chain /\ desc'[x] = desc[x]
  BY <1>1, <1>7, <1>8, <1>9 DEF ListedExact
<1>11. IsChain(DescAddrs, allocated, DescNext)' /\ Listed' = Listed
  BY <1>1, <1>3, <1>10, ListKept
<1>12. HeapExact' /\ DataBlocks' = DataBlocks
  BY <1>1, <1>3, <1>10, <1>11, DataKept
<1>13. IsChain(Pages, kalloc_page_head, next_page)' /\ Chain' = Chain \cup {p}
  <2>1. \E last : /\ IsLast(PageWalk, last)
                  /\ last # Null => next_page'[last] = p
                  /\ next_page'[p] = Null
                  /\ \A y \in Chain : y # last => next_page'[y] = next_page[y]
                  /\ kalloc_page_head' = IF last = Null THEN p ELSE kalloc_page_head
    <3>1. next_page \in [Pages -> Pages \cup {Null}]
      BY <1>1 DEF TypeOK
    <3>2. CASE /\ kalloc_page_head = Null /\ kalloc_page_head' = p
               /\ next_page' = [next_page EXCEPT ![p] = Null]
      <4>1. IsLast(PageWalk, Null)
        BY <1>1, <3>2, ChainFacts DEF IsLast
      <4>2. \A y \in Chain : next_page'[y] = next_page[y]
        BY <1>7, <1>9, <3>1, <3>2
      <4>3. next_page'[p] = Null
        BY <1>6, <3>1, <3>2
      <4> QED
        BY <3>2, <4>1, <4>2, <4>3
    <3>3. ASSUME NEW last \in Pages, IsLast(PageWalk, last),
                 next_page' = [next_page EXCEPT ![p] = Null, ![last] = p],
                 UNCHANGED kalloc_page_head
          PROVE  /\ IsLast(PageWalk, last) /\ last # Null /\ next_page'[last] = p
                 /\ next_page'[p] = Null
                 /\ \A y \in Chain : y # last => next_page'[y] = next_page[y]
                 /\ kalloc_page_head' = kalloc_page_head
      <4>1. last # Null
        BY Addresses
      <4>2. last \in Chain
        BY <1>1, <3>3, <4>1, ChainFacts DEF IsLast
      <4>3. last # p
        BY <1>7, <4>2
      <4> QED
        BY <1>6, <1>7, <1>9, <3>1, <3>3, <4>1, <4>3
    <3> QED
      BY <1>2, <3>2, <3>3 DEF LinkPage
  <2>2. PICK last : /\ IsLast(PageWalk, last)
                    /\ last # Null => next_page'[last] = p
                    /\ next_page'[p] = Null
                    /\ \A y \in Chain : y # last => next_page'[y] = next_page[y]
                    /\ kalloc_page_head' = IF last = Null THEN p ELSE kalloc_page_head
    BY <2>1
  <2>3. /\ IsChain(Pages, kalloc_page_head', next_page')
        /\ On(Walk(kalloc_page_head', next_page', Cardinality(Pages))) = Chain \cup {p}
    <3>1. Linked(Pages, p, last, kalloc_page_head, next_page, kalloc_page_head', next_page')
      BY <1>1, <1>6, <1>7, <2>2 DEF Linked, Chains, Chain, PageWalk
    <3>2. /\ IsChain(Pages, kalloc_page_head', next_page')
          /\ On(Walk(kalloc_page_head', next_page', Cardinality(Pages)))
               = On(Walk(kalloc_page_head, next_page, Cardinality(Pages))) \cup {p}
      BY <3>1, LinkLast, Addresses, FinitelyMany
    <3> QED
      BY <3>2 DEF Chain, PageWalk
  <2> QED
    BY <2>3 DEF Chain, PageWalk
<1>14. Chains'
  BY <1>11, <1>13 DEF Chains
<1>15. <<p, 0>> \in DescAddrs /\ <<p, 0>>[1] = p
  BY <1>6, DescParts
<1>16. CallOK'
  BY <1>2, <1>4, <1>8, <1>13, <1>15 DEF CallOK, Rejected
<1>17. InFlight' = {<<p, 0>>} /\ InFlight = {}
  BY <1>4 DEF InFlight
<1>18. ListedExact'
  <2>1. ASSUME NEW x \in DescAddrs
        PROVE  x \in Listed <=> x[1] \in Chain' /\ desc'[x].is_used /\ x # <<p, 0>>
    <3>1. CASE x[1] = p
      BY <1>8, <1>10, <1>7, <3>1
    <3>2. CASE x[1] # p
      <4>1. desc'[x] = desc[x] /\ x # <<p, 0>> /\ (x[1] \in Chain' <=> x[1] \in Chain)
        BY <1>8, <1>13, <1>15, <3>2
      <4>2. x \in Listed <=> x[1] \in Chain /\ desc[x].is_used
        BY <1>1, <1>17 DEF ListedExact
      <4> QED
        BY <4>1, <4>2
    <3> QED
      BY <3>1, <3>2
  <2>2. Listed = {x \in DescAddrs : x[1] \in Chain' /\ desc'[x].is_used} \ {<<p, 0>>}
    BY <1>9, <2>1
  <2> QED
    BY <1>11, <1>17, <2>2 DEF ListedExact
<1>19. Owned'
  <2>1. ChainBlocks' = ChainBlocks \cup {b}
    <3>1. ChainBlocks' = {[frame |-> va_to_pa(q), num |-> 1] : q \in Chain \cup {p}}
      BY <1>13 DEF ChainBlocks
    <3> QED
      BY <1>6, <3>1 DEF ChainBlocks
  <2>2. b \notin live
    BY <1>5
  <2> HIDE DEF b
  <2> QED
    BY <1>1, <1>3, <1>5, <1>12, <2>1, <2>2 DEF Owned
<1>20. OneSpare'
  <2>1. ASSUME NEW q \in Chain PROVE q \notin Spare'
    <3>1. q \in Pages /\ q # p
      BY <1>7, <1>9
    <3>2. <<q, 0>> \in DescAddrs /\ <<q, 0>>[1] = q /\ <<q, 0>> # <<p, 0>>
      BY <3>1, DescParts
    <3>3. desc[<<q, 0>>].is_used
      BY <1>3, <3>2 DEF ChainFull, Unused
    <3>4. desc'[<<q, 0>>].is_used
      BY <1>8, <3>1, <3>2, <3>3
    <3>5. <<q, 0>> \in UsedIn(q)'
      BY <3>2, <3>4 DEF UsedIn
    <3> QED
      BY <1>17, <3>2, <3>5 DEF Spare
  <2>2. Spare' \subseteq Chain'
    BY DEF Spare
  <2>3. Spare' \subseteq {p}
    BY <1>13, <2>1, <2>2
  <2> QED
    BY <2>3 DEF OneSpare
<1>21. TypeOK'
  <2>1. call' \in [op : {"idle", "kmalloc", "kfree"}, size : 0 .. SizeMax,
                   block : DescAddrs \cup {Null}]
    BY <1>4, <1>15, HeapAssumption
  <2>2. /\ next_page' \in [Pages -> Pages \cup {Null}]
        /\ kalloc_page_head' \in Pages \cup {Null}
    BY <1>1, <1>2, <1>6 DEF TypeOK, LinkPage
  <2>3. foreign' \subseteq live'
    BY <1>1, <1>3, <1>5 DEF TypeOK
  <2> QED
    BY <1>1, <1>3, <1>5, <1>8, <2>1, <2>2, <2>3 DEF TypeOK, PoolOK
<1> QED
  BY <1>5, <1>12, <1>14, <1>16, <1>18, <1>19, <1>20, <1>21 DEF HeapInv

\* What Append writes: the record of d, and the next pointer of the node that
\* was last, if there is one.
LEMMA AppendFacts ==
  ASSUME TypeOK, Chains, NEW d \in DescAddrs, d \notin Listed,
         NEW f \in Frames, result'.frame = f, Append(d)
  PROVE  \E last \in DescAddrs \cup {Null} :
           /\ IsLast(ListWalk, last) /\ last # d /\ (last # Null => last \in Listed)
           /\ allocated' = IF last = Null THEN d ELSE allocated
           /\ desc' \in [DescAddrs -> Desc]
           /\ desc'[d].ptr = pa_to_va(f) /\ desc'[d].size = call.size /\ desc'[d].next = Null
           /\ \A x \in DescAddrs : desc'[x].is_used = desc[x].is_used
           /\ last # Null => desc'[last].next = d
           /\ \A x \in DescAddrs : x # d =>
                /\ desc'[x].ptr = desc[x].ptr /\ desc'[x].size = desc[x].size
                /\ x # last => desc'[x].next = desc[x].next
<1> DEFINE v == pa_to_va(f)
           filled == [desc EXCEPT ![d].ptr = v, ![d].size = call.size, ![d].next = Null]
<1>1. PICK last \in DescAddrs \cup {Null} :
        /\ IsLast(ListWalk, last)
        /\ desc' = IF last = Null THEN filled ELSE [filled EXCEPT ![last].next = d]
        /\ allocated' = IF last = Null THEN d ELSE allocated
  BY DEF Append
<1>2. last # Null => last \in Listed
  BY <1>1, ChainFacts DEF IsLast
<1>3. last # d
  BY <1>2, Addresses
<1>4. desc \in [DescAddrs -> Desc] /\ v \in Pages /\ call.size \in Nat
  BY Addresses, HeapAssumption DEF TypeOK
<1> HIDE DEF v
<1>5. /\ filled \in [DescAddrs -> Desc]
      /\ filled[d] = [desc[d] EXCEPT !.ptr = v, !.size = call.size, !.next = Null]
      /\ \A x \in DescAddrs : x # d => filled[x] = desc[x]
  <2>1. filled = [desc EXCEPT ![d] = [desc[d] EXCEPT !.ptr = v, !.size = call.size, !.next = Null]]
    BY <1>4
  <2>2. [desc[d] EXCEPT !.ptr = v, !.size = call.size, !.next = Null] \in Desc
    BY <1>4 DEF Desc
  <2> QED
    BY <1>4, <2>1, <2>2
<1>6. /\ filled[d].ptr = v /\ filled[d].size = call.size /\ filled[d].next = Null
      /\ filled[d].is_used = desc[d].is_used
  BY <1>4, <1>5 DEF Desc
<1> HIDE DEF filled
<1>7. CASE last = Null
  BY <1>1, <1>2, <1>3, <1>5, <1>6, <1>7 DEF v
<1>8. CASE last # Null
  <2>1. last \in DescAddrs
    BY <1>8
  <2>2. desc' = [filled EXCEPT ![last] = [filled[last] EXCEPT !.next = d]]
    BY <1>1, <1>5, <1>8
  <2>3. [filled[last] EXCEPT !.next = d] \in Desc
    BY <1>5, <2>1 DEF Desc
  <2>4. desc' \in [DescAddrs -> Desc]
    BY <1>5, <2>1, <2>2, <2>3
  <2>5. \A x \in DescAddrs : x # last => desc'[x] = filled[x]
    BY <1>5, <2>2
  <2>6. desc'[last] = [filled[last] EXCEPT !.next = d]
    BY <1>5, <2>1, <2>2
  <2>7. /\ desc'[last].next = d /\ desc'[last].ptr = filled[last].ptr
        /\ desc'[last].size = filled[last].size /\ desc'[last].is_used = filled[last].is_used
    BY <1>5, <2>1, <2>6 DEF Desc
  <2>8. desc'[d] = filled[d]
    BY <1>3, <2>5
  <2>9. ASSUME NEW x \in DescAddrs, x # d
        PROVE  /\ desc'[x].ptr = desc[x].ptr /\ desc'[x].size = desc[x].size
               /\ x # last => desc'[x].next = desc[x].next
               /\ desc'[x].is_used = desc[x].is_used
    BY <1>5, <2>5, <2>7, <2>9
  <2>10. \A x \in DescAddrs : desc'[x].is_used = desc[x].is_used
    BY <1>6, <2>8, <2>9
  <2> QED
    BY <1>1, <1>2, <1>3, <1>6, <1>8, <2>4, <2>7, <2>8, <2>9, <2>10 DEF v
<1> QED
  BY <1>7, <1>8

\* kmalloc gets its pages: the block is recorded, once.
LEMMA TakePagesStep == HeapInv /\ TakePages => HeapInv'
<1> SUFFICES ASSUME HeapInv, TakePages PROVE HeapInv'
  OBVIOUS
<1>1. TypeOK /\ Chains /\ CallOK /\ ListedExact /\ HeapExact /\ PoolOK /\ Owned /\ OneSpare
  BY DEF HeapInv
<1> PICK d : d = call.block
  OBVIOUS
<1> DEFINE f == result'.frame
           size == call.size
           n == NumPages(size)
           b == [frame |-> f, num |-> n]
<1>2. /\ call.op = "kmalloc" /\ Pool!Alloc(n) /\ Append(d)
      /\ heap' = heap \cup {[ptr |-> pa_to_va(f), size |-> size]}
      /\ call' = Idle /\ UNCHANGED <<next_page, kalloc_page_head, foreign>>
  BY DEF TakePages
<1>3. d \in DescAddrs /\ d[1] \in Chain /\ desc[d].is_used /\ ~Rejected(size)
  BY <1>1, <1>2 DEF CallOK
<1>4. size \in 0 .. SizeMax /\ size \in Nat
  BY <1>1, HeapAssumption DEF TypeOK
<1>5. n \in Nat /\ n > 0 /\ n * PageSize >= size
  BY <1>3, <1>4, PagesEnough
<1>6. /\ PoolOK' /\ f \in Frames /\ live' = live \cup {b}
      /\ \A a \in live : a.frame # f
  BY <1>1, <1>2, <1>5, PoolAlloc
<1> DEFINE v == pa_to_va(f)
<1>7. v \in Pages /\ va_to_pa(v) = f
  BY <1>6, Addresses
<1>8. InFlight = {d} /\ InFlight' = {}
  BY <1>2 DEF InFlight, Idle
<1>9. d \notin Listed /\ Listed \subseteq DescAddrs
  BY <1>1, <1>8, ChainFacts DEF ListedExact
<1>10. PICK last \in DescAddrs \cup {Null} :
        /\ IsLast(ListWalk, last) /\ last # d /\ (last # Null => last \in Listed)
        /\ allocated' = IF last = Null THEN d ELSE allocated
        /\ desc' \in [DescAddrs -> Desc]
        /\ desc'[d].ptr = v /\ desc'[d].size = size /\ desc'[d].next = Null
        /\ \A x \in DescAddrs : desc'[x].is_used = desc[x].is_used
        /\ last # Null => desc'[last].next = d
        /\ \A x \in DescAddrs : x # d =>
             /\ desc'[x].ptr = desc[x].ptr /\ desc'[x].size = desc[x].size
             /\ x # last => desc'[x].next = desc[x].next
  BY <1>1, <1>2, <1>3, <1>6, <1>9, AppendFacts
<1> HIDE DEF v, f, n, size
<1>11. IsChain(Pages, kalloc_page_head, next_page)' /\ Chain' = Chain /\ ChainBlocks' = ChainBlocks
  BY <1>1, <1>2, PagesKept
<1>12. IsChain(DescAddrs, allocated, DescNext)' /\ Listed' = Listed \cup {d}
  <2>1. /\ DescNext'[d] = Null
        /\ last # Null => DescNext'[last] = d
        /\ \A y \in Listed : y # last => DescNext'[y] = DescNext[y]
    BY <1>3, <1>9, <1>10 DEF DescNext
  <2>2. Linked(DescAddrs, d, last, allocated, DescNext, allocated', DescNext')
    BY <1>1, <1>3, <1>9, <1>10, <2>1 DEF Linked, Chains, Listed, ListWalk
  <2>3. /\ IsChain(DescAddrs, allocated', DescNext')
        /\ On(Walk(allocated', DescNext', Cardinality(DescAddrs)))
             = On(Walk(allocated, DescNext, Cardinality(DescAddrs))) \cup {d}
    BY <2>2, LinkLast, Addresses, FinitelyMany
  <2> QED
    BY <2>3 DEF Listed, ListWalk
<1>13. Chains'
  BY <1>11, <1>12 DEF Chains
<1>14. CallOK'
  BY <1>2 DEF CallOK, Idle
<1>15. ListedExact'
  BY <1>1, <1>3, <1>8, <1>10, <1>11, <1>12 DEF ListedExact
<1>16. \A x \in Listed : /\ x \in DescAddrs /\ x # d
                         /\ desc'[x].ptr = desc[x].ptr /\ desc'[x].size = desc[x].size
                         /\ BlockOf(x)' = BlockOf(x)
                         /\ desc[x].ptr # v
  <2> TAKE x \in Listed
  <2>1. x \in DescAddrs /\ x # d /\ desc'[x].ptr = desc[x].ptr /\ desc'[x].size = desc[x].size
    BY <1>9, <1>10
  <2>2. BlockOf(x) \in live /\ BlockOf(x).frame = va_to_pa(desc[x].ptr)
    BY <1>1, ListedFacts DEF Owned
  <2>3. BlockOf(x)' = BlockOf(x)
    BY <2>1 DEF BlockOf
  <2> QED
    BY <1>6, <1>7, <2>1, <2>2, <2>3
<1>17. BlockOf(d)' = b
  BY <1>7, <1>10 DEF BlockOf, n
<1>18. HeapExact'
  <2> DEFINE rec == [ptr |-> v, size |-> size]
  <2>1. {[ptr |-> desc'[x].ptr, size |-> desc'[x].size] : x \in Listed'} = heap'
    <3>1. [ptr |-> desc'[d].ptr, size |-> desc'[d].size] = rec
      BY <1>10
    <3>2. {[ptr |-> desc'[x].ptr, size |-> desc'[x].size] : x \in Listed}
            = {[ptr |-> desc[x].ptr, size |-> desc[x].size] : x \in Listed}
      BY <1>16
    <3>3. {[ptr |-> desc'[x].ptr, size |-> desc'[x].size] : x \in Listed \cup {d}}
            = {[ptr |-> desc'[x].ptr, size |-> desc'[x].size] : x \in Listed} \cup {rec}
      BY <3>1
    <3>4. heap' = heap \cup {rec}
      BY <1>2 DEF v
    <3> QED
      BY <1>1, <1>12, <3>2, <3>3, <3>4 DEF HeapExact
  <2>2. \A x, y \in Listed' : desc'[x].ptr = desc'[y].ptr => x = y
    BY <1>1, <1>10, <1>12, <1>16 DEF HeapExact
  <2>3. \A x \in Listed' : BlockOf(x)'.num * PageSize >= desc'[x].size
    <3>1. \A x \in Listed : BlockOf(x)'.num * PageSize >= desc'[x].size
      BY <1>1, <1>16 DEF HeapExact
    <3>2. BlockOf(d)'.num * PageSize >= desc'[d].size
      BY <1>5, <1>10, <1>17
    <3> QED
      BY <1>12, <3>1, <3>2
  <2> QED
    BY <2>1, <2>2, <2>3 DEF HeapExact
<1>19. DataBlocks' = DataBlocks \cup {b}
  <2>1. DataBlocks' = {BlockOf(x)' : x \in Listed \cup {d}}
    BY <1>12 DEF DataBlocks, BlockOf
  <2> QED
    BY <1>16, <1>17, <2>1 DEF DataBlocks
<1>20. b \notin live
  BY <1>6
<1> HIDE DEF b
<1>21. Owned'
  BY <1>1, <1>2, <1>6, <1>11, <1>19, <1>20 DEF Owned
<1>22. OneSpare'
  <2>1. \A p : UsedIn(p)' = UsedIn(p)
    BY <1>10 DEF UsedIn
  <2>2. Spare' \subseteq Spare
    BY <1>2, <1>8, <1>11, <2>1 DEF Spare
  <2> QED
    BY <1>1, <2>2 DEF OneSpare
<1>23. TypeOK'
  <2>1. allocated' \in DescAddrs \cup {Null}
    BY <1>1, <1>3, <1>10 DEF TypeOK
  <2>2. call' \in [op : {"idle", "kmalloc", "kfree"}, size : 0 .. SizeMax,
                   block : DescAddrs \cup {Null}]
    BY <1>2, HeapAssumption DEF Idle
  <2>3. heap' \subseteq [ptr : Pages, size : Nat]
    BY <1>1, <1>2, <1>4, <1>7 DEF TypeOK, v
  <2>4. foreign' \subseteq live'
    BY <1>1, <1>2, <1>6 DEF TypeOK
  <2> QED
    BY <1>1, <1>2, <1>6, <1>10, <2>1, <2>2, <2>3, <2>4 DEF TypeOK, PoolOK
<1> QED
  BY <1>6, <1>13, <1>14, <1>15, <1>18, <1>21, <1>22, <1>23 DEF HeapInv

\* The pages are not to be had: the descriptor goes back.
LEMMA TakeFailsStep == HeapInv /\ TakeFails => HeapInv'
<1> SUFFICES ASSUME HeapInv, TakeFails PROVE HeapInv'
  OBVIOUS
<1>1. TypeOK /\ Chains /\ CallOK /\ ListedExact /\ HeapExact /\ PoolOK /\ Owned /\ OneSpare
  BY DEF HeapInv
<1> DEFINE d == call.block
<1>2. /\ call.op = "kmalloc" /\ desc' = [desc EXCEPT ![d].is_used = FALSE] /\ call' = Idle
      /\ UNCHANGED <<managed, free, live, next_page, kalloc_page_head, allocated, heap, foreign>>
  BY DEF TakeFails, Pool!Refuse
<1>3. d \in DescAddrs /\ d[1] \in Chain /\ desc[d].is_used
  BY <1>1, <1>2 DEF CallOK
<1>4. InFlight = {d} /\ InFlight' = {}
  BY <1>2 DEF InFlight, Idle
<1> HIDE DEF d
<1>5. Listed \subseteq DescAddrs
  BY <1>1, ChainFacts
<1>6. /\ desc' \in [DescAddrs -> Desc]
      /\ \A x \in DescAddrs : /\ desc'[x].ptr = desc[x].ptr /\ desc'[x].size = desc[x].size
                              /\ desc'[x].next = desc[x].next
                              /\ desc'[x].is_used <=> (x # d /\ desc[x].is_used)
  BY <1>1, <1>2, <1>3, MarkUnused
<1>7. IsChain(Pages, kalloc_page_head, next_page)' /\ Chain' = Chain /\ ChainBlocks' = ChainBlocks
  BY <1>1, <1>2, PagesKept
<1>8. IsChain(DescAddrs, allocated, DescNext)' /\ Listed' = Listed
  BY <1>1, <1>2, <1>5, <1>6, ListKept
<1>9. HeapExact' /\ DataBlocks' = DataBlocks
  BY <1>1, <1>2, <1>5, <1>6, <1>8, DataKept
<1>10. Chains'
  BY <1>7, <1>8 DEF Chains
<1>11. CallOK'
  BY <1>2 DEF CallOK, Idle
<1>12. ListedExact'
  BY <1>1, <1>4, <1>6, <1>7, <1>8 DEF ListedExact
<1>13. PoolOK'
  BY <1>1, <1>2, PoolKept
<1>14. Owned'
  BY <1>1, <1>2, <1>7, <1>9 DEF Owned
<1>15. OneSpare'
  <2>1. \A p : UsedIn(p)' = UsedIn(p) \ {d}
    BY <1>6 DEF UsedIn
  <2>2. Spare' \subseteq Spare
    BY <1>2, <1>4, <1>7, <2>1 DEF Spare
  <2> QED
    BY <1>1, <2>2 DEF OneSpare
<1>16. TypeOK'
  <2>1. call' \in [op : {"idle", "kmalloc", "kfree"}, size : 0 .. SizeMax,
                   block : DescAddrs \cup {Null}]
    BY <1>2, HeapAssumption DEF Idle
  <2> QED
    BY <1>1, <1>2, <1>6, <2>1 DEF TypeOK
<1> QED
  BY <1>9, <1>10, <1>11, <1>12, <1>13, <1>14, <1>15, <1>16 DEF HeapInv

----
(* kfree *)

\* The node before another one on a walk is another node.
LEMMA NodeBefore ==
  ASSUME NEW X, Null \notin X, IsFiniteSet(X), NEW head, NEW nx, IsChain(X, head, nx),
         NEW n \in DOMAIN Walk(head, nx, Cardinality(X)), n # 0,
         Walk(head, nx, Cardinality(X))[n] # Null
  PROVE  LET w == Walk(head, nx, Cardinality(X)) IN
         w[n - 1] \in On(w) /\ w[n - 1] \in X /\ w[n - 1] # w[n]
<1> DEFINE w == Walk(head, nx, Cardinality(X))
           c == Cardinality(X)
<1>1. PICK k, s : Chained(X, s, k, head, nx)
  BY DEF IsChain
<1>2. /\ k \in Nat /\ c \in Nat /\ k <= c
      /\ DOMAIN w = 0 .. c
      /\ \A i \in 0 .. c : w[i] = IF i < k THEN s[i] ELSE Null
      /\ \A i \in 0 .. (k - 1) : w[i] = s[i] /\ s[i] \in X /\ s[i] # Null
      /\ On(w) = {s[i] : i \in 0 .. (k - 1)}
  BY <1>1, WalkFacts
<1>3. \A i, j \in 0 .. (k - 1) : s[i] = s[j] => i = j
  BY <1>1 DEF Chained
<1>4. n \in 0 .. c /\ w[n] # Null
  BY <1>2
<1> HIDE DEF w, c
<1>5. n \in 0 .. (k - 1) /\ n - 1 \in 0 .. (k - 1) /\ n # n - 1
  BY <1>2, <1>4
<1>6. w[n - 1] \in On(w) /\ w[n - 1] \in X /\ w[n - 1] # w[n]
  BY <1>2, <1>3, <1>5
<1> QED
  BY <1>6 DEF w

\* What remove_from_allocated_list writes.
LEMMA UnlinkFacts ==
  ASSUME TypeOK, Chains, NEW n \in DOMAIN ListWalk, NEW d \in DescAddrs, d = ListWalk[n], Unlink(n)
  PROVE  /\ desc' \in [DescAddrs -> Desc]
         /\ \A x \in DescAddrs : /\ desc'[x].ptr = desc[x].ptr /\ desc'[x].size = desc[x].size
                                 /\ desc'[x].is_used <=> (x # d /\ desc[x].is_used)
         /\ n = 0 => allocated' = desc[d].next
         /\ n # 0 => allocated' = allocated /\ desc'[ListWalk[n - 1]].next = desc[d].next
         /\ \A x \in DescAddrs : (n # 0 => x # ListWalk[n - 1]) => desc'[x].next = desc[x].next
         /\ n # 0 => ListWalk[n - 1] \in DescAddrs
<1> DEFINE unused == [desc EXCEPT ![d].is_used = FALSE]
<1>1. desc \in [DescAddrs -> Desc]
  BY DEF TypeOK
<1>2. /\ unused \in [DescAddrs -> Desc]
      /\ \A x \in DescAddrs : /\ unused[x].ptr = desc[x].ptr /\ unused[x].size = desc[x].size
                              /\ unused[x].next = desc[x].next
                              /\ unused[x].is_used <=> (x # d /\ desc[x].is_used)
  <2>1. \A x \in DescAddrs : unused[x] = IF x = d THEN [desc[x] EXCEPT !.is_used = FALSE] ELSE desc[x]
    BY <1>1
  <2>2. \A x \in DescAddrs : [desc[x] EXCEPT !.is_used = FALSE] \in Desc
    BY <1>1 DEF Desc
  <2>3. unused \in [DescAddrs -> Desc]
    BY <1>1, <2>1, <2>2
  <2>4. \A x \in DescAddrs : desc[x] \in Desc
    BY <1>1
  <2> HIDE DEF unused
  <2> QED
    BY <2>1, <2>3, <2>4 DEF Desc
<1>3. IF n = 0
      THEN allocated' = desc[d].next /\ desc' = unused
      ELSE desc' = [unused EXCEPT ![ListWalk[n - 1]].next = desc[d].next] /\ allocated' = allocated
  BY DEF Unlink
<1> HIDE DEF unused
<1>4. CASE n = 0
  BY <1>2, <1>3, <1>4
<1>5. CASE n # 0
  <2>1. d # Null
    BY Addresses
  <2>2. ListWalk[n - 1] \in DescAddrs
    BY <1>5, <2>1, NodeBefore, Addresses, FinitelyMany DEF Chains, ListWalk
  <2> PICK e \in DescAddrs : e = ListWalk[n - 1]
    BY <2>2
  <2>3. desc' = [unused EXCEPT ![e] = [unused[e] EXCEPT !.next = desc[d].next]]
    BY <1>2, <1>3, <1>5
  <2>4. desc[d].next \in DescAddrs \cup {Null}
    BY <1>1 DEF Desc
  <2>5. [unused[e] EXCEPT !.next = desc[d].next] \in Desc
    BY <1>2, <2>4 DEF Desc
  <2>6. desc' \in [DescAddrs -> Desc]
    BY <1>2, <2>3, <2>5
  <2>7. /\ \A x \in DescAddrs : x # e => desc'[x] = unused[x]
        /\ desc'[e] = [unused[e] EXCEPT !.next = desc[d].next]
    BY <1>2, <2>3
  <2>8. unused[e] \in Desc
    BY <1>2
  <2>9. /\ desc'[e].next = desc[d].next /\ desc'[e].ptr = unused[e].ptr
        /\ desc'[e].size = unused[e].size /\ desc'[e].is_used = unused[e].is_used
    BY <2>7, <2>8 DEF Desc
  <2>10. ASSUME NEW x \in DescAddrs
         PROVE  /\ desc'[x].ptr = desc[x].ptr /\ desc'[x].size = desc[x].size
                /\ desc'[x].is_used <=> (x # d /\ desc[x].is_used)
                /\ x # e => desc'[x].next = desc[x].next
    <3>1. CASE x = e
      BY <1>2, <2>9, <3>1
    <3>2. CASE x # e
      BY <1>2, <2>7, <3>2
    <3> QED
      BY <3>1, <3>2
  <2> QED
    BY <1>3, <1>5, <2>2, <2>6, <2>9, <2>10
<1> QED
  BY <1>4, <1>5

\* kfree takes the descriptor of the block out of the list and gives its pages
\* back.
LEMMA FreePagesStep == HeapInv /\ FreePages => HeapInv' /\ \E b \in live : Pool!Release(b)
<1> SUFFICES ASSUME HeapInv, FreePages PROVE HeapInv' /\ \E b \in live : Pool!Release(b)
  OBVIOUS
<1>1. TypeOK /\ Chains /\ CallOK /\ ListedExact /\ HeapExact /\ PoolOK /\ Owned /\ OneSpare
  BY DEF HeapInv
<1>2. PICK ptr \in Pages, n \in DOMAIN ListWalk :
        /\ IsFirstAt(ListWalk, n, WithPtr(ptr))
        /\ Unlink(n)
        /\ Pool!Release(BlockOf(ListWalk[n]))
        /\ heap' = {r \in heap : r.ptr # ptr}
        /\ call' = [op |-> "kfree", size |-> 0, block |-> ListWalk[n]]
  BY DEF FreePages
<1>3. call = Idle /\ UNCHANGED <<next_page, kalloc_page_head, foreign>>
  BY DEF FreePages
<1> PICK d : d = ListWalk[n]
  OBVIOUS
<1>4. d \in DescAddrs /\ desc[d].ptr = ptr /\ d # Null
  BY <1>2, Addresses DEF IsFirstAt, WithPtr
<1>5. d \in Listed /\ Listed \subseteq DescAddrs
  BY <1>1, <1>2, <1>4, ChainFacts
<1> PICK b : b = BlockOf(d)
  OBVIOUS
<1>6. /\ d[1] \in Chain /\ desc[d].is_used
      /\ b \in DataBlocks /\ b \in live /\ b.frame = va_to_pa(ptr)
  BY <1>1, <1>4, <1>5, ListedFacts DEF Owned
<1>7. PoolOK' /\ live' = live \ {b} /\ Pool!Release(b)
  BY <1>1, <1>2, <1>6, PoolRelease
<1>8. /\ desc' \in [DescAddrs -> Desc]
      /\ \A x \in DescAddrs : /\ desc'[x].ptr = desc[x].ptr /\ desc'[x].size = desc[x].size
                              /\ desc'[x].is_used <=> (x # d /\ desc[x].is_used)
      /\ n = 0 => allocated' = desc[d].next
      /\ n # 0 => allocated' = allocated /\ desc'[ListWalk[n - 1]].next = desc[d].next
      /\ \A x \in DescAddrs : (n # 0 => x # ListWalk[n - 1]) => desc'[x].next = desc[x].next
      /\ n # 0 => ListWalk[n - 1] \in DescAddrs
  BY <1>1, <1>2, <1>4, UnlinkFacts
<1>9. IsChain(Pages, kalloc_page_head, next_page)' /\ Chain' = Chain /\ ChainBlocks' = ChainBlocks
  BY <1>1, <1>3, PagesKept
<1>10. IsChain(DescAddrs, allocated, DescNext)' /\ Listed' = Listed \ {d}
  <2>1. /\ DescNext[d] = desc[d].next
        /\ n # 0 => DescNext'[ListWalk[n - 1]] = desc[d].next
        /\ \A y \in Listed : (n # 0 => y # ListWalk[n - 1]) => DescNext'[y] = DescNext[y]
    BY <1>4, <1>5, <1>8 DEF DescNext
  <2>2. Unlinked(DescAddrs, n, d, allocated, DescNext, allocated', DescNext')
    BY <1>1, <1>2, <1>4, <1>8, <2>1 DEF Unlinked, Chains, Listed, ListWalk
  <2>3. /\ IsChain(DescAddrs, allocated', DescNext')
        /\ On(Walk(allocated', DescNext', Cardinality(DescAddrs)))
             = On(Walk(allocated, DescNext, Cardinality(DescAddrs))) \ {d}
    BY <2>2, UnlinkNth, Addresses, FinitelyMany
  <2> QED
    BY <2>3 DEF Listed, ListWalk
<1>11. Chains'
  BY <1>9, <1>10 DEF Chains
<1>12. CallOK'
  BY <1>2, <1>4, <1>6, <1>9 DEF CallOK
<1>13. InFlight = {} /\ InFlight' = {}
  BY <1>2, <1>3 DEF InFlight, Idle
<1>14. ListedExact'
  BY <1>1, <1>8, <1>9, <1>10, <1>13 DEF ListedExact
<1>15. \A x \in Listed : /\ desc'[x].ptr = desc[x].ptr /\ desc'[x].size = desc[x].size
                         /\ BlockOf(x)' = BlockOf(x)
                         /\ x # d => desc[x].ptr # ptr /\ BlockOf(x) # b
  <2> TAKE x \in Listed
  <2>1. desc'[x].ptr = desc[x].ptr /\ desc'[x].size = desc[x].size
    BY <1>5, <1>8
  <2>2. BlockOf(x)' = BlockOf(x)
    BY <2>1 DEF BlockOf
  <2>3. x # d => desc[x].ptr # ptr
    BY <1>1, <1>4, <1>5 DEF HeapExact
  <2>4. desc[x].ptr \in Pages /\ BlockOf(x).frame = va_to_pa(desc[x].ptr)
    BY <1>1, ListedFacts
  <2>5. va_to_pa(desc[x].ptr) = va_to_pa(ptr) => desc[x].ptr = ptr
    BY <2>4, Addresses
  <2> QED
    BY <1>6, <2>1, <2>2, <2>3, <2>4, <2>5
<1>16. HeapExact'
  <2>1. {[ptr |-> desc'[x].ptr, size |-> desc'[x].size] : x \in Listed'} = heap'
    <3>1. {[ptr |-> desc'[x].ptr, size |-> desc'[x].size] : x \in Listed \ {d}}
            = {[ptr |-> desc[x].ptr, size |-> desc[x].size] : x \in Listed \ {d}}
      BY <1>15
    <3>2. heap = {[ptr |-> desc[x].ptr, size |-> desc[x].size] : x \in Listed}
      BY <1>1 DEF HeapExact
    <3>3. {[ptr |-> desc[x].ptr, size |-> desc[x].size] : x \in Listed \ {d}} = heap'
      BY <1>2, <1>4, <1>15, <3>2
    <3> QED
      BY <1>10, <3>1, <3>3
  <2>2. \A x, y \in Listed' : desc'[x].ptr = desc'[y].ptr => x = y
    BY <1>1, <1>10, <1>15 DEF HeapExact
  <2>3. \A x \in Listed' : BlockOf(x)'.num * PageSize >= desc'[x].size
    BY <1>1, <1>10, <1>15 DEF HeapExact
  <2> QED
    BY <2>1, <2>2, <2>3 DEF HeapExact
<1>17. DataBlocks' = DataBlocks \ {b}
  <2>1. DataBlocks' = {BlockOf(x)' : x \in Listed \ {d}}
    BY <1>10 DEF DataBlocks, BlockOf
  <2> QED
    BY <1>15, <2>1 DEF DataBlocks
<1>18. Owned'
  BY <1>1, <1>3, <1>6, <1>7, <1>9, <1>17 DEF Owned
<1>19. OneSpare'
  <2>1. \A p : p # d[1] => UsedIn(p)' = UsedIn(p)
    BY <1>8 DEF UsedIn
  <2>2. Spare' \subseteq Spare
    <3>1. call'.op = "kfree" /\ call'.block = d /\ call.op = "idle"
      BY <1>2, <1>3 DEF Idle
    <3> QED
      BY <1>9, <1>13, <2>1, <3>1 DEF Spare
  <2> QED
    BY <1>1, <2>2 DEF OneSpare
<1>20. TypeOK'
  <2>1. call' \in [op : {"idle", "kmalloc", "kfree"}, size : 0 .. SizeMax,
                   block : DescAddrs \cup {Null}]
    BY <1>2, <1>4, HeapAssumption
  <2>2. allocated' \in DescAddrs \cup {Null}
    BY <1>1, <1>4, <1>8 DEF TypeOK, Desc
  <2>3. heap' \subseteq [ptr : Pages, size : Nat]
    BY <1>1, <1>2 DEF TypeOK
  <2>4. foreign' \subseteq live'
    BY <1>18 DEF Owned
  <2> QED
    BY <1>1, <1>3, <1>7, <1>8, <2>1, <2>2, <2>3, <2>4 DEF TypeOK, PoolOK
<1> QED
  BY <1>6, <1>7, <1>11, <1>12, <1>14, <1>16, <1>18, <1>19, <1>20 DEF HeapInv

\* What free_management_page_if_empty writes to the chain.
LEMMA UnlinkPageFacts ==
  ASSUME TypeOK, Chains, NEW n \in DOMAIN PageWalk, NEW p \in Pages, p = PageWalk[n], UnlinkPage(n)
  PROVE  /\ next_page' \in [Pages -> Pages \cup {Null}]
         /\ kalloc_page_head' \in Pages \cup {Null}
         /\ IsChain(Pages, kalloc_page_head', next_page')
         /\ Chain' = Chain \ {p}
<1>1. next_page \in [Pages -> Pages \cup {Null}] /\ kalloc_page_head \in Pages \cup {Null}
  BY DEF TypeOK
<1>2. p # Null /\ Chain \subseteq Pages
  BY Addresses, ChainFacts
<1>3. n # 0 => PageWalk[n - 1] \in Pages /\ PageWalk[n - 1] # p
  BY <1>2, NodeBefore, Addresses, FinitelyMany DEF Chains, PageWalk
<1>4. /\ next_page' \in [Pages -> Pages \cup {Null}]
      /\ kalloc_page_head' \in Pages \cup {Null}
      /\ n = 0 => kalloc_page_head' = next_page[p]
      /\ n # 0 => kalloc_page_head' = kalloc_page_head /\ next_page'[PageWalk[n - 1]] = next_page[p]
      /\ \A y \in Chain : y # p /\ (n # 0 => y # PageWalk[n - 1]) => next_page'[y] = next_page[y]
  <2>1. CASE n = 0
    BY <1>1, <1>2, <2>1 DEF UnlinkPage
  <2>2. CASE n # 0
    <3> PICK e \in Pages : e = PageWalk[n - 1] /\ e # p
      BY <1>3, <2>2
    <3>1. /\ next_page' = [next_page EXCEPT ![e] = next_page[p], ![p] = Null]
          /\ kalloc_page_head' = kalloc_page_head
      BY <2>2 DEF UnlinkPage
    <3> QED
      BY <1>1, <1>2, <2>2, <3>1
  <2> QED
    BY <2>1, <2>2
<1>5. Unlinked(Pages, n, p, kalloc_page_head, next_page, kalloc_page_head', next_page')
  BY <1>2, <1>4 DEF Unlinked, Chains, Chain, PageWalk
<1>6. /\ IsChain(Pages, kalloc_page_head', next_page')
      /\ On(Walk(kalloc_page_head', next_page', Cardinality(Pages)))
           = On(Walk(kalloc_page_head, next_page, Cardinality(Pages))) \ {p}
  BY <1>5, UnlinkNth, Addresses, FinitelyMany
<1>7. Chain' = Chain \ {p}
  BY <1>6 DEF Chain, PageWalk
<1> QED
  BY <1>4, <1>6, <1>7

\* A management page that goes back holds no descriptor of the list.
LEMMA FreeChainPageStep == HeapInv /\ FreeChainPage => HeapInv' /\ \E b \in live : Pool!Release(b)
<1> SUFFICES ASSUME HeapInv, FreeChainPage PROVE HeapInv' /\ \E b \in live : Pool!Release(b)
  OBVIOUS
<1>1. TypeOK /\ Chains /\ CallOK /\ ListedExact /\ HeapExact /\ PoolOK /\ Owned /\ OneSpare
  BY DEF HeapInv
<1> PICK p : p = call.block[1]
  OBVIOUS
<1> PICK b : b = [frame |-> va_to_pa(p), num |-> 1]
  OBVIOUS
<1>2. /\ call.op = "kfree" /\ UsedIn(p) = {} /\ Pool!Release(b)
      /\ desc' = ZeroedPage(p) /\ call' = Idle /\ UNCHANGED <<allocated, heap, foreign>>
  BY DEF FreeChainPage
<1>3. p \in Chain /\ p \in Pages
  BY <1>1, <1>2, ChainFacts DEF CallOK
<1>4. PICK n \in DOMAIN PageWalk : PageWalk[n] = p /\ UnlinkPage(n)
  BY DEF FreeChainPage, IsFirstAt
<1>5. /\ next_page' \in [Pages -> Pages \cup {Null}]
      /\ kalloc_page_head' \in Pages \cup {Null}
      /\ IsChain(Pages, kalloc_page_head', next_page')
      /\ Chain' = Chain \ {p}
  BY <1>1, <1>3, <1>4, UnlinkPageFacts
<1>6. b \in ChainBlocks /\ b \in live
  BY <1>1, <1>3, ChainBlockOf DEF Owned
<1>7. PoolOK' /\ live' = live \ {b}
  BY <1>1, <1>2, <1>6, PoolRelease
<1>8. /\ desc' \in [DescAddrs -> Desc]
      /\ \A x \in DescAddrs : x[1] # p => desc'[x] = desc[x]
  BY <1>1, <1>2, <1>3, ZeroedFacts
<1>9. \A x \in Listed : x \in DescAddrs /\ x[1] # p /\ desc'[x] = desc[x]
  BY <1>1, <1>2, <1>8 DEF ListedExact, UsedIn
<1>10. IsChain(DescAddrs, allocated, DescNext)' /\ Listed' = Listed
  BY <1>1, <1>2, <1>9, ListKept
<1>11. HeapExact' /\ DataBlocks' = DataBlocks
  BY <1>1, <1>2, <1>9, <1>10, DataKept
<1>12. Chains'
  BY <1>5, <1>10 DEF Chains
<1>13. CallOK'
  BY <1>2 DEF CallOK, Idle
<1>14. InFlight = {} /\ InFlight' = {}
  BY <1>2 DEF InFlight, Idle
<1>15. ListedExact'
  <2>1. ASSUME NEW x \in DescAddrs PROVE x \in Listed <=> x[1] \in Chain' /\ desc'[x].is_used
    <3>1. x \in Listed <=> x[1] \in Chain /\ desc[x].is_used
      BY <1>1, <1>14 DEF ListedExact
    <3>2. CASE x[1] = p
      BY <1>5, <1>9, <3>2
    <3>3. CASE x[1] # p
      BY <1>5, <1>8, <3>1, <3>3
    <3> QED
      BY <3>2, <3>3
  <2>2. Listed = {x \in DescAddrs : x[1] \in Chain' /\ desc'[x].is_used}
    BY <1>9, <2>1
  <2> QED
    BY <1>10, <1>14, <2>2 DEF ListedExact
<1>16. ChainBlocks' = ChainBlocks \ {b}
  <2>1. ChainBlocks' = {[frame |-> va_to_pa(q), num |-> 1] : q \in Chain \ {p}}
    BY <1>5 DEF ChainBlocks
  <2>2. \A q \in Chain : va_to_pa(q) = va_to_pa(p) => q = p
    BY <1>1, <1>3, ChainFacts, Addresses
  <2>3. \A q \in Chain : q # p => [frame |-> va_to_pa(q), num |-> 1] # b
    BY <2>2
  <2> QED
    BY <2>1, <2>3 DEF ChainBlocks
<1>17. Owned'
  BY <1>1, <1>2, <1>6, <1>7, <1>11, <1>16 DEF Owned
<1>18. OneSpare'
  <2>1. \A q : q # p => UsedIn(q)' = UsedIn(q)
    BY <1>8 DEF UsedIn
  <2>2. Spare' \subseteq Spare
    BY <1>2, <1>5, <1>14, <2>1 DEF Spare
  <2> QED
    BY <1>1, <2>2 DEF OneSpare
<1>19. TypeOK'
  <2>1. call' \in [op : {"idle", "kmalloc", "kfree"}, size : 0 .. SizeMax,
                   block : DescAddrs \cup {Null}]
    BY <1>2, HeapAssumption DEF Idle
  <2>2. foreign' \subseteq live'
    BY <1>17 DEF Owned
  <2> QED
    BY <1>1, <1>2, <1>5, <1>7, <1>8, <2>1, <2>2 DEF TypeOK, PoolOK
<1> QED
  BY <1>2, <1>6, <1>7, <1>11, <1>12, <1>13, <1>15, <1>17, <1>18, <1>19 DEF HeapInv

\* A page with descriptors in use stays; it is always one of the chain.
LEMMA KeepChainPageStep == HeapInv /\ KeepChainPage => HeapInv'
<1> SUFFICES ASSUME HeapInv, KeepChainPage PROVE HeapInv'
  OBVIOUS
<1>1. TypeOK /\ Chains /\ CallOK /\ ListedExact /\ HeapExact /\ PoolOK /\ Owned /\ OneSpare
  BY DEF HeapInv
<1>2. /\ call.op = "kfree" /\ call' = Idle
      /\ UNCHANGED <<managed, free, live, desc, next_page, kalloc_page_head, allocated, heap, foreign>>
  BY DEF KeepChainPage, poolVars, kallocVars
<1>3. UsedIn(call.block[1]) # {}
  BY <1>1, <1>2 DEF KeepChainPage, CallOK
<1>4. IsChain(Pages, kalloc_page_head, next_page)' /\ Chain' = Chain /\ ChainBlocks' = ChainBlocks
  BY <1>1, <1>2, PagesKept
<1>5. IsChain(DescAddrs, allocated, DescNext)' /\ Listed' = Listed
  BY <1>1, <1>2, ListKept
<1>6. HeapExact' /\ DataBlocks' = DataBlocks
  BY <1>1, <1>2, <1>5, DataKept
<1>7. Chains'
  BY <1>4, <1>5 DEF Chains
<1>8. InFlight = {} /\ InFlight' = {}
  BY <1>2 DEF InFlight, Idle
<1>9. ListedExact'
  BY <1>1, <1>2, <1>4, <1>5, <1>8 DEF ListedExact
<1>10. CallOK'
  BY <1>2 DEF CallOK, Idle
<1>11. PoolOK'
  BY <1>1, <1>2, PoolKept
<1>12. Owned'
  BY <1>1, <1>2, <1>4, <1>6 DEF Owned
<1>13. OneSpare'
  <2>1. \A p : UsedIn(p)' = UsedIn(p)
    BY <1>2 DEF UsedIn
  <2>2. Spare' \subseteq Spare
    BY <1>2, <1>3, <1>4, <1>8, <2>1 DEF Spare
  <2> QED
    BY <1>1, <2>2 DEF OneSpare
<1>14. TypeOK'
  <2>1. call' \in [op : {"idle", "kmalloc", "kfree"}, size : 0 .. SizeMax,
                   block : DescAddrs \cup {Null}]
    BY <1>2, HeapAssumption DEF Idle
  <2> QED
    BY <1>1, <1>2, <2>1 DEF TypeOK
<1> QED
  BY <1>6, <1>7, <1>9, <1>10, <1>11, <1>12, <1>13, <1>14 DEF HeapInv

----
(* The theorems *)

LEMMA HeapInitially == Init => HeapInv
<1> SUFFICES ASSUME Init PROVE HeapInv
  OBVIOUS
<1> USE DEF Init
<1>1. IsChain(Pages, kalloc_page_head, next_page) /\ Chain = {}
  BY EmptyChain, Addresses, FinitelyMany DEF Chain, PageWalk
<1>2. IsChain(DescAddrs, allocated, DescNext) /\ Listed = {}
  BY EmptyChain, Addresses, FinitelyMany DEF Listed, ListWalk
<1>3. Chains
  BY <1>1, <1>2 DEF Chains
<1>4. TypeOK
  <2>1. NoDesc \in Desc
    BY DEF NoDesc, Desc
  <2>2. Idle \in [op : {"idle", "kmalloc", "kfree"}, size : 0 .. SizeMax,
                  block : DescAddrs \cup {Null}]
    BY HeapAssumption DEF Idle
  <2> QED
    BY <2>1, <2>2 DEF TypeOK
<1>5. CallOK
  BY DEF CallOK, Idle
<1>6. \A d \in DescAddrs : ~desc[d].is_used
  BY DEF NoDesc
<1>7. ListedExact
  BY <1>2, <1>6 DEF ListedExact
<1>8. HeapExact
  BY <1>2 DEF HeapExact
<1>9. PoolOK
  BY DEF PoolOK, Pool!LiveFrames
<1>10. Owned
  BY <1>1, <1>2 DEF Owned, ChainBlocks, DataBlocks
<1>11. OneSpare
  BY <1>1 DEF OneSpare, Spare
<1> QED
  BY <1>3, <1>4, <1>5, <1>7, <1>8, <1>9, <1>10, <1>11 DEF HeapInv

\* A stuttering step preserves the invariant.
LEMMA HeapStutters == HeapInv /\ UNCHANGED vars => HeapInv'
<1> SUFFICES ASSUME HeapInv, UNCHANGED vars PROVE HeapInv'
  OBVIOUS
<1> USE DEF vars
<1>1. /\ Chains' /\ CallOK' /\ ListedExact' /\ HeapExact' /\ OneSpare'
      /\ ChainBlocks' = ChainBlocks /\ DataBlocks' = DataBlocks
  BY HeapDataKept DEF kallocVars
<1>2. PoolOK'
  BY PoolKept DEF HeapInv
<1>3. Owned'
  BY <1>1 DEF HeapInv, Owned
<1>4. TypeOK'
  BY DEF HeapInv, TypeOK
<1> QED
  BY <1>1, <1>2, <1>3, <1>4 DEF HeapInv

\* No step of kmalloc, of kfree or of another user of the page allocator
\* breaks the invariant.
LEMMA HeapStep == HeapInv /\ [Next]_vars => HeapInv'
<1> SUFFICES ASSUME HeapInv, [Next]_vars PROVE HeapInv'
  OBVIOUS
<1>1. CASE RejectSize
  BY <1>1, HeapStutters DEF RejectSize
<1>2. CASE FindBlock
  BY <1>2, FindBlockStep
<1>3. CASE GrowChain
  BY <1>3, GrowChainStep
<1>4. CASE GrowFails
  BY <1>4, GrowFailsStep
<1>5. CASE TakePages
  BY <1>5, TakePagesStep
<1>6. CASE TakeFails
  BY <1>6, TakeFailsStep
<1>7. CASE FreePages
  BY <1>7, FreePagesStep
<1>8. CASE FreeUnknown
  BY <1>8, HeapStutters DEF FreeUnknown
<1>9. CASE FreeChainPage
  BY <1>9, FreeChainPageStep
<1>10. CASE KeepChainPage
  BY <1>10, KeepChainPageStep
<1>11. CASE ForeignAlloc
  BY <1>11, ForeignAllocStep
<1>12. CASE ForeignFree
  BY <1>12, ForeignFreeStep
<1>13. CASE UNCHANGED vars
  BY <1>13, HeapStutters
<1> QED
  BY <1>1, <1>2, <1>3, <1>4, <1>5, <1>6, <1>7, <1>8, <1>9, <1>10, <1>11, <1>12, <1>13
     DEF Next, Kmalloc, Kfree

\* The inductive invariant of kmalloc and kfree holds in every reachable state.
THEOREM HeapInvariant == Spec => []HeapInv
<1>1. Init => HeapInv
  BY HeapInitially
<1>2. HeapInv /\ [Next]_vars => HeapInv'
  BY HeapStep
<1> QED
  BY <1>1, <1>2, PTL DEF Spec

\* The pointers, fields and arguments of kmalloc and kfree keep their types.
THEOREM TypeCorrect == Spec => []TypeOK
<1>1. HeapInv => TypeOK
  BY DEF HeapInv
<1> QED
  BY <1>1, HeapInvariant, PTL

\* The two chains of kalloc.c end, and the list holds exactly the descriptors
\* in use: giving a management page back leaves no pointer into it behind.
THEOREM ListIsExact == Spec => []ListExact
<1>1. HeapInv => ListExact
  BY ChainFacts DEF HeapInv, ListExact, ListedExact
<1> QED
  BY <1>1, HeapInvariant, PTL

\* The list records what the callers of kmalloc hold, each block once, with
\* its size and enough pages for it.
THEOREM HeapIsExact == Spec => []HeapExact
<1>1. HeapInv => HeapExact
  BY DEF HeapInv
<1> QED
  BY <1>1, HeapInvariant, PTL

\* Every page taken from the page allocator has exactly one owner, and the
\* pages without an owner are free: neither kmalloc nor kfree loses one, not
\* when they fail either.
THEOREM NoLeak == Spec => []NothingLeaked
<1>1. HeapInv => NothingLeaked
  BY DEF HeapInv, NothingLeaked, PoolOK, Owned
<1> QED
  BY <1>1, HeapInvariant, PTL

\* kfree keeps at most one management page that holds nothing.
THEOREM OneEmptyPage == Spec => []AtMostOneEmptyPage
<1>1. HeapInv => AtMostOneEmptyPage
  <2> SUFFICES ASSUME HeapInv, call = Idle, NEW p \in Chain, NEW q \in Chain,
                      UsedIn(p) = {}, UsedIn(q) = {}
               PROVE  p = q
    BY DEF AtMostOneEmptyPage
  <2>1. call.op = "idle"
    BY DEF Idle
  <2>2. p \in Spare /\ q \in Spare
    BY <2>1 DEF Spare
  <2> QED
    BY <2>2 DEF HeapInv, OneSpare
<1> QED
  BY <1>1, HeapInvariant, PTL

\* The heap uses the page allocator as its interface demands: what it gives
\* back is a block that was handed out and is still live.
THEOREM HeapGivesBack == Spec => GivesBackWhatItTook
<1> DEFINE A == \/ \E n \in PageRequests : Pool!Alloc(n) \/ Pool!Refuse(n)
                \/ \E b \in live : Pool!Release(b)
<1>1. HeapInv /\ [Next]_vars => [A]_poolVars
  <2> SUFFICES ASSUME HeapInv, Next, ~UNCHANGED poolVars PROVE A
    BY DEF vars, poolVars
  <2>1. 1 \in PageRequests /\ Others \subseteq PageRequests
        /\ \A size \in Sizes : NumPages(size) \in PageRequests
    BY DEF PageRequests
  <2>2. call.op = "kmalloc" => call.size \in Sizes
    BY DEF HeapInv, CallOK
  <2>3. CASE GrowChain \/ GrowFails
    BY <2>1, <2>3 DEF GrowChain, GrowFails
  <2>4. CASE TakePages \/ TakeFails
    BY <2>1, <2>2, <2>4 DEF TakePages, TakeFails
  <2>5. CASE FreePages
    BY <2>5, FreePagesStep
  <2>6. CASE FreeChainPage
    BY <2>6, FreeChainPageStep
  <2>7. CASE ForeignAlloc
    BY <2>1, <2>7 DEF ForeignAlloc
  <2>8. CASE ForeignFree
    <3>1. foreign \subseteq live
      BY DEF HeapInv, TypeOK
    <3> QED
      BY <2>8, <3>1 DEF ForeignFree
  <2>9. CASE RejectSize \/ FindBlock \/ FreeUnknown \/ KeepChainPage
    BY <2>9 DEF RejectSize, FindBlock, FreeUnknown, KeepChainPage, vars, poolVars
  <2> QED
    BY <2>3, <2>4, <2>5, <2>6, <2>7, <2>8, <2>9 DEF Next, Kmalloc, Kfree
<1> QED
  BY <1>1, HeapInvariant, PTL DEF Spec, GivesBackWhatItTook
====
