------------------------------ MODULE YanFS_proofs -----------------------------
(***************************************************************************)
(* Type correctness of YanFS and mutual exclusion of its operations, and   *)
(* from them that the directory in memory stays sound: for every geometry, *)
(* every set of tasks, names and lengths, every image a host may hand      *)
(* over, and every interleaving of callbacks, failures and crashes; and,   *)
(* in the second half, what the medium holds meanwhile and afterwards.     *)
(***************************************************************************)
EXTENDS YanFSAlgorithms, WellFoundedInduction, TLAPS

-----------------------------------------------------------------------------
(* Loops.                                                                   *)

(* The order of the induction below is the usual one.                       *)
LEMMA Below == \A x, y \in Nat : <<x, y>> \in OpToRel(<, Nat) <=> x < y
BY DEF OpToRel

(* Induction over the natural numbers, for a set instead of a predicate.    *)
LEMMA Induction ==
    ASSUME NEW S, 0 \in S, \A n \in Nat : n \in S => n + 1 \in S
    PROVE  \A n \in Nat : n \in S
<1> DEFINE T == Nat \ S
<1>1. SUFFICES ASSUME T # {} PROVE FALSE
  OBVIOUS
<1>2. T \subseteq Nat
  OBVIOUS
<1> HIDE DEF T
<1>3. \E x \in T : \A y \in T : ~(<<y, x>> \in OpToRel(<, Nat))
  BY ONLY <1>1, <1>2, NatLessThanWellFounded, WFMin
<1>4. PICK x \in T : \A y \in T : ~(y < x)
  BY <1>2, <1>3, Below
<1>5. x \in Nat /\ x \notin S /\ x # 0
  BY <1>4 DEF T
<1>6. x - 1 \in Nat /\ x - 1 < x /\ x - 1 + 1 = x
  BY <1>5
<1>7. x - 1 \in S
  BY <1>4, <1>6 DEF T
<1> QED BY <1>5, <1>6, <1>7

(* Two functions with one domain and the same values are the same.          *)
LEMMA SameFunction ==
    ASSUME NEW S, NEW f, NEW g, f = [x \in S |-> f[x]], g = [x \in S |-> g[x]],
           \A x \in S : f[x] = g[x]
    PROVE  f = g
OBVIOUS

(* A loop has a state after every turn.                                     *)
AreTurns(r, F, start, n) ==
    r = [k \in 0 .. n |-> IF k = 0 THEN start ELSE F[r[k - 1]]]
LEMMA TurnsExist ==
    ASSUME NEW F, NEW start, NEW n \in Nat
    PROVE  \E r : AreTurns(r, F, start, n)
<1> DEFINE S == {m \in Nat : \E r :
                    r = [k \in 0 .. m |-> IF k = 0 THEN start ELSE F[r[k - 1]]]}
<1>1. 0 \in S
  <2> DEFINE r == [k \in 0 .. 0 |-> start]
  <2>1. r = [k \in 0 .. 0 |-> IF k = 0 THEN start ELSE F[r[k - 1]]]
    OBVIOUS
  <2> HIDE DEF r
  <2> QED BY <2>1
<1>2. ASSUME NEW m \in Nat, m \in S PROVE m + 1 \in S
  <2>1. PICK r : r = [k \in 0 .. m |-> IF k = 0 THEN start ELSE F[r[k - 1]]]
    BY <1>2
  <2> DEFINE q == [k \in 0 .. m + 1 |-> IF k <= m THEN r[k] ELSE F[r[m]]]
             g == [k \in 0 .. m + 1 |-> IF k = 0 THEN start ELSE F[q[k - 1]]]
  <2>2. ASSUME NEW k \in 0 .. m + 1
        PROVE  q[k] = IF k = 0 THEN start ELSE F[q[k - 1]]
    <3>1. CASE k <= m /\ k # 0
      <4>1. q[k] = r[k] /\ q[k - 1] = r[k - 1]
        BY <3>1
      <4>2. r[k] = F[r[k - 1]]
        BY <2>1, <3>1
      <4> QED BY <3>1, <4>1, <4>2
    <3>2. CASE k = 0
      <4>1. r[0] = start
        BY <2>1
      <4> QED BY <3>2, <4>1
    <3>3. CASE k = m + 1
      <4>1. q[k] = F[r[m]] /\ q[m] = r[m] /\ k - 1 = m /\ k # 0
        BY <3>3
      <4> QED BY <4>1
    <3> QED BY <3>1, <3>2, <3>3
  <2>3. q = [k \in 0 .. m + 1 |-> q[k]]
    OBVIOUS
  <2> HIDE DEF q, S
  <2>4. /\ g = [k \in 0 .. m + 1 |-> g[k]]
        /\ \A k \in 0 .. m + 1 : q[k] = g[k]
    BY <2>2
  <2> HIDE DEF g
  <2>5. q = g
    BY <2>3, <2>4, SameFunction
  <2>6. \E r2 : r2 = [k \in 0 .. m + 1 |-> IF k = 0 THEN start ELSE F[r2[k - 1]]]
    BY ONLY <2>5, Zenon DEF g
  <2>7. m + 1 \in Nat
    OBVIOUS
  <2> QED BY <2>6, <2>7, Zenon DEF S
<1>3. n \in S
  <2> HIDE DEF S
  <2> QED BY <1>1, <1>2, Induction
<1> QED BY <1>3, Zenon DEF AreTurns

(* Its states follow each other, from the start to what it returns.         *)
LEMMA TurnsFacts ==
    ASSUME NEW F, NEW start, NEW n \in Nat
    PROVE  \E turn : /\ turn[0] = start
                     /\ \A k \in 0 .. n - 1 : turn[k + 1] = F[turn[k]]
                     /\ Turns(F, start, n) = turn[n]
<1> DEFINE turn == CHOOSE r : r = [k \in 0 .. n |->
                        IF k = 0 THEN start ELSE F[r[k - 1]]]
<1>1. turn = [k \in 0 .. n |-> IF k = 0 THEN start ELSE F[turn[k - 1]]]
  <2>1. \E r : AreTurns(r, F, start, n)
    BY TurnsExist
  <2> QED BY ONLY <2>1, Zenon DEF turn, AreTurns
<1>2. Turns(F, start, n) = turn[n]
  BY DEF Turns
<1> HIDE DEF turn
<1>3. turn[0] = start
  BY <1>1
<1>4. ASSUME NEW k \in 0 .. n - 1 PROVE turn[k + 1] = F[turn[k]]
  <2>1. k + 1 \in 0 .. n /\ k + 1 # 0 /\ k + 1 - 1 = k
    OBVIOUS
  <2> QED BY <1>1, <2>1
<1> QED BY <1>2, <1>3, <1>4, Zenon

(* What holds at the start and goes over from each turn to the next holds   *)
(* at the end.                                                              *)
LEMMA LoopInvariant ==
    ASSUME NEW F, NEW start, NEW n \in Nat, NEW I,
           start \in I[0], \A k \in 0 .. n - 1 : \A s \in I[k] : F[s] \in I[k + 1]
    PROVE  Turns(F, start, n) \in I[n]
<1>1. PICK turn : /\ turn[0] = start
                  /\ \A k \in 0 .. n - 1 : turn[k + 1] = F[turn[k]]
                  /\ Turns(F, start, n) = turn[n]
  BY TurnsFacts
<1> DEFINE S == {k \in Nat : k <= n => turn[k] \in I[k]}
<1>2. 0 \in S
  BY <1>1
<1>3. ASSUME NEW k \in Nat, k \in S PROVE k + 1 \in S
  BY <1>1, <1>3
<1>4. \A k \in Nat : k \in S
  <2> HIDE DEF S
  <2> QED BY <1>2, <1>3, Induction
<1> QED BY <1>1, <1>4

-----------------------------------------------------------------------------
(* Heapsort.  Arrays hold every slot at most once; positions count from 0,  *)
(* as in the code.                                                          *)

Arrays(N) == {q \in [1 .. N -> Slots] : \A i, j \in 1 .. N : i # j => q[i] # q[j]}
At(key, q, i) == key[q[i + 1]]
First(q, n) == {q[i] : i \in 1 .. n}

(* p has the first n elements of q in some order, and the others in place.  *)
Rearranged(p, q, n, N) ==
    /\ p \in Arrays(N) /\ First(p, n) = First(q, n)
    /\ \A i \in n + 1 .. N : p[i] = q[i]

Child(p, c) == c = 2 * p + 1 \/ c = 2 * p + 2

(* No child below count is above its parent, from position first on; and    *)
(* the same but for the children of r, which its own parent dominates.      *)
Heap(key, q, first, count) ==
    \A p, c \in first .. count - 1 : Child(p, c) => At(key, q, c) <= At(key, q, p)
HeapExcept(key, q, first, count, r) ==
    /\ \A p, c \in first .. count - 1 :
            Child(p, c) /\ p # r => At(key, q, c) <= At(key, q, p)
    /\ \A p, c \in first .. count - 1 :
            Child(p, r) /\ Child(r, c) => At(key, q, c) <= At(key, q, p)

(* An array is a sequence of slots.                                         *)
LEMMA ArrayFacts ==
    ASSUME NEW N \in Nat, NEW q \in Arrays(N)
    PROVE  /\ q \in Seq(Slots) /\ Len(q) = N
           /\ q \in [1 .. N -> Slots] /\ q = [i \in 1 .. N |-> q[i]]
           /\ \A i, j \in 1 .. N : i # j => q[i] # q[j]
BY DEF Arrays

(* Values are integers, one for each position.                              *)
LEMMA AtType ==
    ASSUME NEW N \in Nat, NEW q \in Arrays(N), NEW key \in [Slots -> Int]
    PROVE  \A i \in 0 .. N - 1 : At(key, q, i) \in Int
<1> TAKE i \in 0 .. N - 1
<1>1. i + 1 \in 1 .. N
  OBVIOUS
<1> QED BY <1>1, ArrayFacts DEF At

(* A swap of two of the first n positions rearranges them.                  *)
LEMMA SwapFacts ==
    ASSUME NEW N \in Nat, NEW q \in Arrays(N), NEW n \in 0 .. N,
           NEW i \in 0 .. n - 1, NEW j \in 0 .. n - 1
    PROVE  /\ Rearranged(Swap(q, i, j), q, n, N)
           /\ Swap(q, i, j)[i + 1] = q[j + 1] /\ Swap(q, i, j)[j + 1] = q[i + 1]
           /\ \A k \in 1 .. N : k # i + 1 /\ k # j + 1 => Swap(q, i, j)[k] = q[k]
<1> DEFINE a == i + 1
           b == j + 1
           w == Swap(q, i, j)
<1>1. a \in 1 .. n /\ b \in 1 .. n /\ a \in 1 .. N /\ b \in 1 .. N
  OBVIOUS
<1>2. w = [q EXCEPT ![a] = q[b], ![b] = q[a]]
  BY DEF Swap
<1> HIDE DEF a, b, w
<1> DEFINE M == 1 .. N
<1>0. q \in [M -> Slots] /\ (\A k, l \in M : k # l => q[k] # q[l]) /\ a \in M /\ b \in M
  BY <1>1, ArrayFacts
<1> HIDE DEF M
<1>3. /\ w \in [M -> Slots] /\ w[a] = q[b] /\ w[b] = q[a]
      /\ \A k \in M : k # a /\ k # b => w[k] = q[k]
  BY <1>0, <1>2
<1>4. \A k, l \in M : k # l => w[k] # w[l]
  BY <1>0, <1>3
<1> USE DEF M
<1>5. First(w, n) = First(q, n)
  <2>1. \A k \in 1 .. n : k \in 1 .. N
    OBVIOUS
  <2>2. ASSUME NEW x \in First(w, n) PROVE x \in First(q, n)
    <3>1. PICK k \in 1 .. n : x = w[k]
      BY DEF First
    <3> QED BY <1>1, <1>3, <2>1, <3>1 DEF First
  <2>3. ASSUME NEW x \in First(q, n) PROVE x \in First(w, n)
    <3>1. PICK k \in 1 .. n : x = q[k]
      BY DEF First
    <3> QED BY <1>1, <1>3, <2>1, <3>1 DEF First
  <2> QED BY <2>2, <2>3
<1>6. \A k \in n + 1 .. N : w[k] = q[k]
  <2>1. \A k \in n + 1 .. N : k \in 1 .. N /\ k # a /\ k # b
    BY <1>1
  <2> QED BY <1>3, <2>1
<1> QED BY <1>3, <1>4, <1>5, <1>6 DEF Rearranged, Arrays, w, a, b

(* What a swap does to the values.                                          *)
LEMMA SwapValues ==
    ASSUME NEW N \in Nat, NEW q \in Arrays(N), NEW n \in 0 .. N, NEW key,
           NEW i \in 0 .. n - 1, NEW j \in 0 .. n - 1
    PROVE  /\ At(key, Swap(q, i, j), i) = At(key, q, j)
           /\ At(key, Swap(q, i, j), j) = At(key, q, i)
           /\ \A k \in 0 .. N - 1 : k # i /\ k # j => At(key, Swap(q, i, j), k) = At(key, q, k)
<1>1. \A k \in 0 .. N - 1 : k + 1 \in 1 .. N /\ (k # i => k + 1 # i + 1)
                                            /\ (k # j => k + 1 # j + 1)
  OBVIOUS
<1>2. /\ Swap(q, i, j)[i + 1] = q[j + 1] /\ Swap(q, i, j)[j + 1] = q[i + 1]
      /\ \A k \in 1 .. N : k # i + 1 /\ k # j + 1 => Swap(q, i, j)[k] = q[k]
  BY SwapFacts
<1>3. \A k \in 0 .. N - 1 : k # i /\ k # j => Swap(q, i, j)[k + 1] = q[k + 1]
  BY <1>1, <1>2
<1> QED BY <1>2, <1>3, Zenon DEF At

(* A turn of sift_down either finds a heap or moves the one place where it  *)
(* is not one down to a child.                                              *)
LEMMA SiftTurn ==
    ASSUME NEW N \in Nat, NEW key \in [Slots -> Int], NEW count \in 1 .. N,
           NEW first \in 0 .. count - 1, NEW q \in Arrays(N),
           NEW root \in first .. count - 1, HeapExcept(key, q, first, count, root),
           NEW s, s = [q |-> q, root |-> root], NEW t, t = sift_turn(key, count, s)
    PROVE  \/ t = s /\ Heap(key, q, first, count)
           \/ /\ t.root \in root + 1 .. count - 1
              /\ Rearranged(t.q, q, count, N)
              /\ HeapExcept(key, t.q, first, count, t.root)
<1> DEFINE left == 2 * root + 1
           child == IF left + 1 < count /\ before(key, q, left, left + 1)
                    THEN left + 1 ELSE left
           v(i) == At(key, q, i)
           P == first .. count - 1
<1>1. t = IF left >= count \/ ~before(key, q, root, child) THEN s
          ELSE [q |-> Swap(q, root, child), root |-> child]
  BY DEF sift_turn
<1>2. \A i \in P : i \in 0 .. N - 1 /\ v(i) \in Int
  BY AtType
<1>3. before(key, q, left, left + 1) <=> v(left) < v(left + 1)
  BY DEF before, At
<1>4. before(key, q, root, child) <=> v(root) < v(child)
  BY DEF before, At
<1>5. ASSUME left < count
      PROVE  /\ child \in P /\ child > root /\ Child(root, child)
             /\ \A c \in P : Child(root, c) => v(c) <= v(child)
  <2>1. left \in P /\ (left + 1 < count => left + 1 \in P)
    BY <1>5
  <2>2. CASE left + 1 < count /\ v(left) < v(left + 1)
    <3>1. child = left + 1
      BY <1>3, <2>2
    <3> HIDE DEF v, child
    <3> QED BY <1>2, <2>1, <2>2, <3>1 DEF Child
  <2>3. CASE ~(left + 1 < count /\ v(left) < v(left + 1))
    <3>1. child = left
      BY <1>3, <2>3
    <3>2. left + 1 < count => v(left + 1) <= v(left)
      <4> HIDE DEF v
      <4> QED BY <1>2, <2>1, <2>3
    <3> HIDE DEF v, child
    <3> QED BY <1>2, <2>1, <3>1, <3>2 DEF Child
  <2> QED BY <2>2, <2>3
<1>6. /\ \A p, c \in P : Child(p, c) /\ p # root => v(c) <= v(p)
      /\ \A p, c \in P : Child(p, root) /\ Child(root, c) => v(c) <= v(p)
  BY DEF HeapExcept
<1> HIDE DEF child
<1>7. CASE left >= count
  <2>1. \A c \in P : ~Child(root, c)
    BY <1>7 DEF Child
  <2>2. \A p, c \in P : Child(p, c) => v(c) <= v(p)
    BY <1>6, <2>1
  <2> QED BY <1>1, <1>7, <2>2 DEF Heap
<1>8. CASE left < count /\ ~before(key, q, root, child)
  <2>1. v(child) <= v(root) /\ \A c \in P : Child(root, c) => v(c) <= v(root)
    <3> HIDE DEF v
    <3> QED BY <1>2, <1>4, <1>5, <1>8
  <2>2. \A p, c \in P : Child(p, c) => v(c) <= v(p)
    BY <1>6, <2>1
  <2> QED BY <1>1, <1>8, <2>2 DEF Heap
<1>9. CASE left < count /\ before(key, q, root, child)
  <2> DEFINE w == Swap(q, root, child)
             u(i) == At(key, w, i)
  <2>1. t = [q |-> w, root |-> child]
    BY <1>1, <1>9
  <2>2. child \in 0 .. count - 1 /\ root \in 0 .. count - 1 /\ count \in 0 .. N
    BY <1>5, <1>9
  <2>3. Rearranged(w, q, count, N)
    BY <2>2, SwapFacts
  <2>4. /\ u(root) = v(child) /\ u(child) = v(root)
        /\ \A k \in P : k # root /\ k # child => u(k) = v(k)
    BY <1>2, <2>2, SwapValues
  <2>5. v(root) < v(child)
    BY <1>4, <1>9
  <2>6. \A p, c \in P : Child(p, c) =>
            c > p /\ (c = child => p = root)
    BY <1>5, <1>9 DEF Child
  <2> HIDE DEF u, v, w
  <2>7. ASSUME NEW p \in P, NEW c \in P, Child(p, c), p # child PROVE u(c) <= u(p)
    <3>1. CASE p = root /\ c = child
      BY <1>2, <1>5, <1>9, <2>4, <2>5, <3>1
    <3>2. CASE p = root /\ c # child
      BY <1>5, <1>9, <2>4, <2>6, <2>7, <3>2
    <3>3. CASE p # root /\ c = root
      <4>1. v(child) <= v(p)
        BY <1>5, <1>6, <1>9, <2>7, <3>3
      <4> QED BY <2>4, <2>7, <3>3, <4>1
    <3>4. CASE p # root /\ c # root
      <4>1. c # child
        BY <2>6, <2>7, <3>4
      <4>2. v(c) <= v(p)
        BY <1>6, <2>7, <3>4
      <4> QED BY <2>4, <2>7, <3>4, <4>1, <4>2
    <3> QED BY <3>1, <3>2, <3>3, <3>4
  <2>8. ASSUME NEW p \in P, NEW c \in P, Child(p, child), Child(child, c) PROVE u(c) <= u(p)
    <3>1. p = root /\ c > child /\ child > root
      BY <1>5, <1>9, <2>6, <2>8
    <3>2. c # root /\ c # child
      BY <1>5, <1>9, <3>1
    <3>3. v(c) <= v(child)
      BY <1>5, <1>6, <1>9, <2>8, <3>1
    <3> QED BY <2>4, <3>1, <3>2, <3>3
  <2>9. HeapExcept(key, w, first, count, child)
    BY <2>7, <2>8 DEF HeapExcept, u
  <2>10. child \in root + 1 .. count - 1
    BY <1>5, <1>9
  <2> QED BY <2>1, <2>3, <2>9, <2>10
<1> QED BY <1>7, <1>8, <1>9

(* A heap stays as it is.                                                   *)
LEMMA HeapStays ==
    ASSUME NEW N \in Nat, NEW key \in [Slots -> Int], NEW count \in 1 .. N,
           NEW first \in 0 .. count - 1, NEW q \in Arrays(N),
           NEW root \in first .. count - 1, Heap(key, q, first, count),
           NEW s, s = [q |-> q, root |-> root]
    PROVE  sift_turn(key, count, s) = s
<1> DEFINE left == 2 * root + 1
           child == IF left + 1 < count /\ before(key, q, left, left + 1)
                    THEN left + 1 ELSE left
<1>1. sift_turn(key, count, s) = IF left >= count \/ ~before(key, q, root, child) THEN s
                                 ELSE [q |-> Swap(q, root, child), root |-> child]
  BY DEF sift_turn
<1>2. SUFFICES ASSUME left < count PROVE ~before(key, q, root, child)
  BY <1>1
<1>3. child \in first .. count - 1 /\ Child(root, child)
  BY <1>2 DEF Child
<1> HIDE DEF child
<1>4. At(key, q, child) <= At(key, q, root)
  BY <1>3 DEF Heap
<1>5. At(key, q, child) \in Int /\ At(key, q, root) \in Int
  BY <1>3, AtType
<1> QED BY <1>4, <1>5 DEF before, At

(* Rearrangements of the same positions compose.                            *)
LEMMA RearrangedTwice ==
    ASSUME NEW N \in Nat, NEW n \in 0 .. N, NEW q, NEW p, NEW o,
           Rearranged(p, q, n, N), Rearranged(o, p, n, N)
    PROVE  Rearranged(o, q, n, N)
BY DEF Rearranged

(* Below a position that may break it, everything is a heap from first on.  *)
LEMMA HeapBelow ==
    ASSUME NEW key, NEW q, NEW count \in Nat, NEW first \in 0 .. count - 1,
           Heap(key, q, first + 1, count)
    PROVE  HeapExcept(key, q, first, count, first)
BY DEF Heap, HeapExcept, Child

(* sift_down makes a heap of what was one but for its first position, and   *)
(* touches nothing from count on.                                           *)
LEMMA SiftDown ==
    ASSUME NEW N \in Nat, NEW key \in [Slots -> Int], NEW count \in 1 .. N,
           NEW first \in 0 .. count - 1, NEW q \in Arrays(N),
           Heap(key, q, first + 1, count)
    PROVE  /\ Rearranged(sift_down(key, q, first, count), q, count, N)
           /\ Heap(key, sift_down(key, q, first, count), first, count)
<1> DEFINE States == [q : Seq(Slots), root : Nat]
           body == [s \in States |-> sift_turn(key, count, s)]
           start == [q |-> q, root |-> first]
           Sifted(k) == {s \in [q : Arrays(N), root : first .. count - 1] :
                            /\ Rearranged(s.q, q, count, N)
                            /\ HeapExcept(key, s.q, first, count, s.root)
                            /\ s.root >= first + k \/ Heap(key, s.q, first, count)}
           I == [k \in 0 .. count |-> Sifted(k)]
<1>1. start \in Sifted(0)
  <2>1. Rearranged(q, q, count, N)
    BY DEF Rearranged
  <2> QED BY <2>1, HeapBelow
<1>2. ASSUME NEW k \in 0 .. count - 1, NEW s \in Sifted(k)
      PROVE  body[s] \in Sifted(k + 1)
  <2>1. /\ s = [q |-> s.q, root |-> s.root] /\ s.q \in Arrays(N)
        /\ s.root \in first .. count - 1 /\ Rearranged(s.q, q, count, N)
        /\ HeapExcept(key, s.q, first, count, s.root)
        /\ s.root >= first + k \/ Heap(key, s.q, first, count)
    OBVIOUS
  <2>2. s \in States
    BY <2>1, ArrayFacts
  <2> DEFINE t == sift_turn(key, count, s)
  <2>3. body[s] = t
    BY <2>2
  <2>4. \/ t = s /\ Heap(key, s.q, first, count)
        \/ /\ t.root \in s.root + 1 .. count - 1
           /\ Rearranged(t.q, s.q, count, N)
           /\ HeapExcept(key, t.q, first, count, t.root)
    BY <2>1, SiftTurn
  <2>5. Heap(key, s.q, first, count) => t = s
    BY <2>1, HeapStays
  <2>6. t = s \/ t = [q |-> t.q, root |-> t.root]
    BY <2>1 DEF sift_turn
  <2> HIDE DEF t
  <2>7. CASE t = s
    <3>1. Heap(key, s.q, first, count)
      BY <2>1, <2>4, <2>7
    <3> QED BY <2>1, <2>3, <2>7, <3>1
  <2>8. CASE t # s
    <3>1. t.q \in Arrays(N) /\ Rearranged(t.q, q, count, N)
      BY <2>1, <2>4, <2>8, RearrangedTwice DEF Rearranged
    <3>2. t.root >= first + (k + 1) /\ t.root \in first .. count - 1
      BY <2>1, <2>4, <2>5, <2>8
    <3> QED BY <2>3, <2>4, <2>6, <2>8, <3>1, <3>2
  <2> QED BY <2>7, <2>8
<1>3. Turns(body, start, count) \in Sifted(count)
  <2> HIDE DEF body, start, Sifted
  <2>1. start \in I[0] /\ I[count] = Sifted(count)
    BY <1>1
  <2>2. \A k \in 0 .. count - 1 : \A s \in I[k] : body[s] \in I[k + 1]
    BY <1>2
  <2> HIDE DEF I
  <2> QED BY <2>1, <2>2, LoopInvariant
<1>4. sift_down(key, q, first, count) = Turns(body, start, count).q
  BY DEF sift_down
<1> HIDE DEF body, start
<1> QED BY <1>3, <1>4

(* Nothing is above the root of a heap.                                     *)
LEMMA RootIsMost ==
    ASSUME NEW N \in Nat, NEW key \in [Slots -> Int], NEW count \in 1 .. N,
           NEW q \in Arrays(N), Heap(key, q, 0, count)
    PROVE  \A i \in 0 .. count - 1 : At(key, q, i) <= At(key, q, 0)
<1> DEFINE v(i) == At(key, q, i)
           S == {k \in Nat : \A i \in 0 .. count - 1 : i <= k => v(i) <= v(0)}
<1>1. \A i \in 0 .. count - 1 : v(i) \in Int
  BY AtType
<1>2. \A p, c \in 0 .. count - 1 : Child(p, c) => v(c) <= v(p)
  BY DEF Heap
<1> HIDE DEF v
<1>3. 0 \in S
  <2>1. \A i \in 0 .. count - 1 : i <= 0 => i = 0
    OBVIOUS
  <2> QED BY <1>1, <2>1
<1>4. ASSUME NEW k \in Nat, k \in S PROVE k + 1 \in S
  <2> SUFFICES ASSUME NEW i \in 0 .. count - 1, i <= k + 1 PROVE v(i) <= v(0)
    OBVIOUS
  <2>1. CASE i <= k
    BY <1>4, <2>1
  <2>2. CASE i = k + 1
    <3>1. PICK p \in 0 .. count - 1 : p <= k /\ Child(p, i)
      <4> DEFINE p == k \div 2
      <4>1. p \in 0 .. count - 1 /\ p <= k /\ (i = 2 * p + 1 \/ i = 2 * p + 2)
        BY <2>2
      <4> QED BY <4>1 DEF Child
    <3>2. v(i) <= v(p) /\ v(p) <= v(0)
      BY <1>2, <1>4, <3>1
    <3> QED BY <1>1, <3>2
  <2> QED BY <2>1, <2>2
<1>5. \A k \in Nat : k \in S
  <2> HIDE DEF S
  <2> QED BY <1>3, <1>4, Induction
<1> QED BY <1>5 DEF v

(* heapify leaves a heap of the same slots.                                 *)
LEMMA Heapify ==
    ASSUME NEW N \in Nat, NEW key \in [Slots -> Int], NEW q \in Arrays(N), N >= 2
    PROVE  /\ Rearranged(heapify(key, q), q, N, N)
           /\ Heap(key, heapify(key, q), 0, N)
<1> DEFINE body == [s \in [q : Seq(Slots), first : Nat] |-> heapify_turn(key, s)]
           half == N \div 2
           start == [q |-> q, first |-> half]
           Made(k) == {s \in [q : Arrays(N), first : Nat] :
                         /\ s.first = half - k /\ Rearranged(s.q, q, N, N)
                         /\ Heap(key, s.q, s.first, N)}
           I == [k \in 0 .. half |-> Made(k)]
<1>1. half \in Nat /\ half <= N - 1 /\ 2 * half + 1 >= N
  OBVIOUS
<1>2. start \in Made(0)
  <2>1. Heap(key, q, half, N)
    BY <1>1 DEF Heap, Child
  <2>2. Rearranged(q, q, N, N)
    BY DEF Rearranged
  <2> HIDE DEF half
  <2> QED BY <1>1, <2>1, <2>2
<1> HIDE DEF half
<1>3. ASSUME NEW k \in 0 .. half - 1, NEW s \in Made(k)
      PROVE  body[s] \in Made(k + 1)
  <2>1. /\ s = [q |-> s.q, first |-> s.first] /\ s.q \in Arrays(N)
        /\ s.first \in Nat /\ s.first = half - k
        /\ Rearranged(s.q, q, N, N) /\ Heap(key, s.q, s.first, N)
    OBVIOUS
  <2>2. s.q \in Seq(Slots) /\ Len(s.q) = N
    BY <2>1, ArrayFacts
  <2> DEFINE f == s.first - 1
             p == sift_down(key, s.q, f, N)
  <2>3. body[s] = [q |-> p, first |-> f]
    BY <2>1, <2>2 DEF heapify_turn
  <2>4. f \in 0 .. N - 1 /\ f = half - (k + 1) /\ f + 1 = s.first /\ N \in 1 .. N
    BY <1>1, <2>1
  <2>5. Rearranged(p, s.q, N, N) /\ Heap(key, p, f, N)
    <3> HIDE DEF f
    <3> QED BY <2>1, <2>4, SiftDown
  <2>6. Rearranged(p, q, N, N) /\ p \in Arrays(N)
    <3>1. N \in 0 .. N
      OBVIOUS
    <3> QED BY <2>1, <2>5, <3>1, RearrangedTwice DEF Rearranged
  <2> HIDE DEF f, p
  <2> QED BY <2>3, <2>4, <2>5, <2>6
<1>4. Turns(body, start, half) \in Made(half)
  <2> HIDE DEF body, start, Made
  <2>1. start \in I[0] /\ I[half] = Made(half)
    BY <1>1, <1>2
  <2>2. \A k \in 0 .. half - 1 : \A s \in I[k] : body[s] \in I[k + 1]
    BY <1>1, <1>3
  <2> HIDE DEF I
  <2> QED BY <1>1, <2>1, <2>2, LoopInvariant
<1>5. heapify(key, q) = Turns(body, start, half).q
  <2>1. Len(q) = N
    BY ArrayFacts
  <2> QED BY <2>1 DEF heapify, half
<1> HIDE DEF body, start
<1>6. half - half = 0
  BY <1>1
<1> QED BY <1>4, <1>5, <1>6

(* From position e on, every element is at least those before it.           *)
OrderedFrom(key, q, e, N) ==
    \A i, j \in 0 .. N - 1 : i < j /\ j >= e => At(key, q, i) <= At(key, q, j)

(* What is ordered stays so when the elements before it are rearranged.     *)
LEMMA OrderKept ==
    ASSUME NEW N \in Nat, NEW key, NEW e \in 0 .. N, NEW q, NEW p,
           OrderedFrom(key, q, e, N), Rearranged(p, q, e, N)
    PROVE  OrderedFrom(key, p, e, N)
<1> SUFFICES ASSUME NEW i \in 0 .. N - 1, NEW j \in 0 .. N - 1, i < j, j >= e
             PROVE  At(key, p, i) <= At(key, p, j)
  BY DEF OrderedFrom
<1>1. \A m \in 0 .. N - 1 : m >= e => At(key, p, m) = At(key, q, m)
  <2>1. \A m \in 0 .. N - 1 : m >= e => m + 1 \in e + 1 .. N
    OBVIOUS
  <2> QED BY <2>1 DEF Rearranged, At
<1>2. CASE i >= e
  BY <1>1, <1>2 DEF OrderedFrom
<1>3. CASE i < e
  <2>1. i + 1 \in 1 .. e
    BY <1>3
  <2>2. p[i + 1] \in First(q, e)
    <3>1. p[i + 1] \in First(p, e)
      BY <2>1 DEF First
    <3> QED BY <3>1 DEF Rearranged
  <2>3. PICK m \in 1 .. e : p[i + 1] = q[m]
    BY <2>2 DEF First
  <2>4. m - 1 \in 0 .. N - 1 /\ m - 1 < j /\ m - 1 + 1 = m
    OBVIOUS
  <2>5. At(key, p, i) = At(key, q, m - 1)
    BY <2>3, <2>4 DEF At
  <2>6. At(key, q, m - 1) <= At(key, q, j)
    BY <2>4 DEF OrderedFrom
  <2> QED BY <1>1, <2>5, <2>6
<1> QED BY <1>2, <1>3

(* The root of a heap of e elements, moved to its last position, is in its  *)
(* place there.                                                             *)
LEMMA RootInPlace ==
    ASSUME NEW N \in Nat, NEW key \in [Slots -> Int], NEW e \in 2 .. N,
           NEW q \in Arrays(N), Heap(key, q, 0, e), OrderedFrom(key, q, e, N)
    PROVE  /\ OrderedFrom(key, Swap(q, 0, e - 1), e - 1, N)
           /\ Heap(key, Swap(q, 0, e - 1), 1, e - 1)
<1> DEFINE w == Swap(q, 0, e - 1)
           v(i) == At(key, q, i)
           u(i) == At(key, w, i)
<1>1. \A i \in 0 .. N - 1 : v(i) \in Int
  BY AtType
<1>2. /\ u(0) = v(e - 1) /\ u(e - 1) = v(0)
      /\ \A i \in 0 .. N - 1 : i # 0 /\ i # e - 1 => u(i) = v(i)
  <2>1. 0 \in 0 .. e - 1 /\ e - 1 \in 0 .. e - 1 /\ e \in 0 .. N
    OBVIOUS
  <2> QED BY <2>1, SwapValues
<1>3. \A i \in 0 .. e - 1 : v(i) <= v(0)
  <2>1. e \in 1 .. N
    OBVIOUS
  <2> QED BY <2>1, RootIsMost
<1>4. \A i, j \in 0 .. N - 1 : i < j /\ j >= e => v(i) <= v(j)
  BY DEF OrderedFrom
<1>5. \A p, c \in 0 .. e - 1 : Child(p, c) => v(c) <= v(p)
  BY DEF Heap
<1> HIDE DEF u, v, w
<1>6. ASSUME NEW i \in 0 .. N - 1, NEW j \in 0 .. N - 1, i < j, j >= e - 1
      PROVE  u(i) <= u(j)
  <2>1. CASE j = e - 1
    BY <1>1, <1>2, <1>3, <1>6, <2>1
  <2>2. CASE j >= e
    <3>1. u(j) = v(j)
      BY <1>2, <2>2
    <3>2. CASE i = 0
      BY <1>2, <1>4, <2>2, <3>1, <3>2
    <3>3. CASE i = e - 1
      BY <1>2, <1>4, <2>2, <3>1, <3>3
    <3>4. CASE i # 0 /\ i # e - 1
      BY <1>2, <1>4, <1>6, <2>2, <3>1, <3>4
    <3> QED BY <3>2, <3>3, <3>4
  <2> QED BY <1>6, <2>1, <2>2
<1>7. \A p, c \in 1 .. e - 1 - 1 : Child(p, c) => u(c) <= u(p)
  BY <1>2, <1>5
<1> QED BY <1>6, <1>7 DEF OrderedFrom, Heap, u, w

(* extract sorts a heap.                                                    *)
LEMMA Extract ==
    ASSUME NEW N \in Nat, NEW key \in [Slots -> Int], NEW h \in Arrays(N), N >= 2,
           Heap(key, h, 0, N)
    PROVE  /\ Rearranged(extract(key, h), h, N, N)
           /\ OrderedFrom(key, extract(key, h), 1, N)
<1> DEFINE body == [s \in [q : Seq(Slots), end : Nat] |-> extract_turn(key, s)]
           start == [q |-> h, end |-> N]
           Done(k) == {s \in [q : Arrays(N), end : Nat] :
                         /\ s.end = N - k /\ Rearranged(s.q, h, N, N)
                         /\ Heap(key, s.q, 0, s.end) /\ OrderedFrom(key, s.q, s.end, N)}
           I == [k \in 0 .. N - 1 |-> Done(k)]
<1>1. start \in Done(0)
  <2>1. Rearranged(h, h, N, N)
    BY DEF Rearranged
  <2>2. OrderedFrom(key, h, N, N)
    BY DEF OrderedFrom
  <2> QED BY <2>1, <2>2
<1>2. ASSUME NEW k \in 0 .. N - 1 - 1, NEW s \in Done(k)
      PROVE  body[s] \in Done(k + 1)
  <2>1. /\ s = [q |-> s.q, end |-> s.end] /\ s.q \in Arrays(N)
        /\ s.end \in Nat /\ s.end = N - k /\ Rearranged(s.q, h, N, N)
        /\ Heap(key, s.q, 0, s.end) /\ OrderedFrom(key, s.q, s.end, N)
    OBVIOUS
  <2>2. s.q \in Seq(Slots) /\ Len(s.q) = N
    BY <2>1, ArrayFacts
  <2> DEFINE e == s.end - 1
             w == Swap(s.q, 0, e)
             p == sift_down(key, w, 0, e)
  <2>3. body[s] = [q |-> p, end |-> e]
    BY <2>1, <2>2 DEF extract_turn
  <2>4. e \in 1 .. N /\ e = N - (k + 1) /\ e \in Nat /\ s.end \in 2 .. N
    BY <2>1
  <2>5. Rearranged(w, s.q, N, N) /\ w \in Arrays(N)
    <3>1. N \in 0 .. N /\ 0 \in 0 .. N - 1 /\ e \in 0 .. N - 1
      BY <2>1
    <3> HIDE DEF e
    <3> QED BY <2>1, <3>1, SwapFacts DEF Rearranged
  <2>6. OrderedFrom(key, w, e, N) /\ Heap(key, w, 1, e)
    BY <2>1, <2>4, RootInPlace
  <2> HIDE DEF e, w
  <2>7. Rearranged(p, w, e, N) /\ Heap(key, p, 0, e)
    <3>1. 0 \in 0 .. e - 1 /\ 0 + 1 = 1
      BY <2>4
    <3> QED BY <2>4, <2>5, <2>6, <3>1, SiftDown
  <2>8. OrderedFrom(key, p, e, N)
    <3>1. e \in 0 .. N
      BY <2>4
    <3> QED BY <2>6, <2>7, <3>1, OrderKept
  <2>9. Rearranged(p, w, N, N)
    <3>1. p \in Arrays(N) /\ First(p, e) = First(w, e) /\ \A i \in e + 1 .. N : p[i] = w[i]
      BY <2>7 DEF Rearranged
    <3>2. \A i \in 1 .. N : i \in 1 .. e \/ i \in e + 1 .. N
      BY <2>4
    <3>3. \A i \in 1 .. e : i \in 1 .. N
      BY <2>4
    <3>4. ASSUME NEW x \in First(p, N) PROVE x \in First(w, N)
      <4>1. PICK i \in 1 .. N : x = p[i]
        BY DEF First
      <4>2. CASE i \in e + 1 .. N
        BY <3>1, <4>1, <4>2 DEF First
      <4>3. CASE i \in 1 .. e
        <5>1. x \in First(w, e)
          BY <3>1, <4>1, <4>3 DEF First
        <5> QED BY <3>3, <5>1 DEF First
      <4> QED BY <3>2, <4>2, <4>3
    <3>5. ASSUME NEW x \in First(w, N) PROVE x \in First(p, N)
      <4>1. PICK i \in 1 .. N : x = w[i]
        BY DEF First
      <4>2. CASE i \in e + 1 .. N
        BY <3>1, <4>1, <4>2 DEF First
      <4>3. CASE i \in 1 .. e
        <5>1. x \in First(p, e)
          BY <3>1, <4>1, <4>3 DEF First
        <5> QED BY <3>3, <5>1 DEF First
      <4> QED BY <3>2, <4>2, <4>3
    <3>6. \A i \in N + 1 .. N : p[i] = w[i]
      OBVIOUS
    <3> QED BY <3>1, <3>4, <3>5, <3>6 DEF Rearranged
  <2>10. Rearranged(p, h, N, N) /\ p \in Arrays(N)
    <3>1. N \in 0 .. N
      OBVIOUS
    <3> QED BY <2>1, <2>5, <2>9, <3>1, RearrangedTwice DEF Rearranged
  <2> HIDE DEF p
  <2> QED BY <2>3, <2>4, <2>7, <2>8, <2>10
<1>3. Turns(body, start, N - 1) \in Done(N - 1)
  <2> DEFINE n == N - 1
  <2>0. n \in Nat
    OBVIOUS
  <2> HIDE DEF body, start, Done
  <2>1. start \in I[0] /\ I[n] = Done(n)
    BY <1>1
  <2>2. \A k \in 0 .. n - 1 : \A s \in I[k] : body[s] \in I[k + 1]
    BY <1>2
  <2> HIDE DEF I
  <2>3. Turns(body, start, n) \in I[n]
    <3> HIDE DEF n
    <3> QED BY <2>0, <2>1, <2>2, LoopInvariant
  <2> QED BY <2>1, <2>3
<1>4. extract(key, h) = Turns(body, start, N - 1).q
  <2>1. Len(h) = N
    BY ArrayFacts
  <2> QED BY <2>1 DEF extract
<1> HIDE DEF body, start
<1>5. N - (N - 1) = 1
  OBVIOUS
<1> QED BY <1>3, <1>4, <1>5

(* The index sort of os/sort.h returns the slots it was given, in an order  *)
(* in which the keys never go down, however many slots there are and        *)
(* whatever their keys.                                                     *)
THEOREM HeapsortSorts ==
    ASSUME NEW N \in Nat, NEW key \in [Slots -> Int], NEW q \in Arrays(N)
    PROVE  /\ sort_index(key, q) \in Arrays(N)
           /\ First(sort_index(key, q), N) = First(q, N)
           /\ \A i, j \in 1 .. N :
                 i < j => key[sort_index(key, q)[i]] <= key[sort_index(key, q)[j]]
<1>1. Len(q) = N
  BY ArrayFacts
<1>2. CASE N < 2
  <2>1. sort_index(key, q) = q
    BY <1>1, <1>2 DEF sort_index
  <2> QED BY <1>2, <2>1
<1>3. CASE N >= 2
  <2> DEFINE h == heapify(key, q)
             p == extract(key, h)
  <2>1. sort_index(key, q) = p
    BY <1>1, <1>3 DEF sort_index
  <2>2. Rearranged(h, q, N, N) /\ Heap(key, h, 0, N)
    BY <1>3, Heapify
  <2>3. h \in Arrays(N)
    BY <2>2 DEF Rearranged
  <2> HIDE DEF h
  <2>4. Rearranged(p, h, N, N) /\ OrderedFrom(key, p, 1, N)
    BY <1>3, <2>2, <2>3, Extract
  <2> HIDE DEF p
  <2>5. p \in Arrays(N) /\ First(p, N) = First(q, N)
    BY <2>2, <2>4 DEF Rearranged
  <2>6. ASSUME NEW i \in 1 .. N, NEW j \in 1 .. N, i < j PROVE key[p[i]] <= key[p[j]]
    <3>1. /\ i - 1 \in 0 .. N - 1 /\ j - 1 \in 0 .. N - 1 /\ i - 1 < j - 1 /\ j - 1 >= 1
          /\ i - 1 + 1 = i /\ j - 1 + 1 = j
      BY <2>6
    <3>2. At(key, p, i - 1) <= At(key, p, j - 1)
      BY <2>4, <3>1 DEF OrderedFrom
    <3> QED BY <3>1, <3>2 DEF At
  <2> QED BY <2>1, <2>5, <2>6
<1> QED BY <1>2, <1>3

-----------------------------------------------------------------------------
(* The lists that are sorted.                                               *)

(* There is at least one slot.                                              *)
LEMMA SlotFacts == K * D - 1 \in Nat /\ Slots = 0 .. K * D - 1 - 1
<1>1. K * D \in Int /\ K * D >= 2
  BY GeometryAssumption
<1> QED BY <1>1 DEF Slots

(* The filling loops list the slots of a set, each once.                    *)
LEMMA ListedFacts ==
    ASSUME NEW S, S \subseteq Slots
    PROVE  \E N \in Nat : Listed(S) \in Arrays(N) /\ First(Listed(S), N) = S
<1> DEFINE n == K * D - 1
           body == [s \in [slot : Nat, list : Seq(Slots)] |-> fill_turn(S, s)]
           start == [slot |-> 0, list |-> << >>]
           Filled(k) == {s \in [slot : Nat, list : Seq(Slots)] :
                           /\ s.slot = k /\ s.list \in Arrays(Len(s.list))
                           /\ First(s.list, Len(s.list)) = {x \in S : x < k}}
           I == [k \in 0 .. n |-> Filled(k)]
<1>0. n \in Nat /\ Slots = 0 .. n - 1
  BY SlotFacts
<1> HIDE DEF n
<1>a. \A x \in S : x \in Nat /\ x < n
  BY <1>0
<1>1. start \in Filled(0)
  <2>1. << >> \in Arrays(0) /\ Len(<< >>) = 0
    BY DEF Arrays
  <2>2. First(<< >>, 0) = {}
    BY DEF First
  <2>3. {x \in S : x < 0} = {}
    <3>1. \A x \in S : ~(x < 0)
      BY <1>a
    <3> QED BY <3>1
  <2> QED BY <2>1, <2>2, <2>3
<1>2. ASSUME NEW k \in 0 .. n - 1, NEW s \in Filled(k)
      PROVE  body[s] \in Filled(k + 1)
  <2> DEFINE L == Len(s.list)
             l == s.list
  <2>1. /\ s \in [slot : Nat, list : Seq(Slots)] /\ s.slot = k /\ l \in Seq(Slots)
        /\ L \in Nat /\ l \in Arrays(L) /\ First(l, L) = {x \in S : x < k}
    OBVIOUS
  <2>2. body[s] = [slot |-> k + 1, list |-> IF k \in S THEN Append(l, k) ELSE l]
    BY <2>1 DEF fill_turn
  <2>3. CASE k \in S
    <3> DEFINE m == Append(l, k)
    <3>1. k \in Slots
      BY <2>3
    <3>2. /\ m \in Seq(Slots) /\ Len(m) = L + 1 /\ m[L + 1] = k
          /\ \A i \in 1 .. L : m[i] = l[i]
      BY <2>1, <3>1
    <3>3. \A i \in 1 .. L : l[i] < k /\ l[i] \in Slots
      <4> TAKE i \in 1 .. L
      <4>1. l[i] \in First(l, L)
        BY DEF First
      <4> HIDE DEF L, l
      <4> QED BY <1>0, <2>1, <4>1
    <3> HIDE DEF L, l, m
    <3>4. m \in [1 .. L + 1 -> Slots]
      BY <3>2
    <3>5. \A i, j \in 1 .. L + 1 : i # j => m[i] # m[j]
      <4>1. \A i, j \in 1 .. L : i # j => l[i] # l[j]
        BY <2>1 DEF Arrays
      <4>2. \A i \in 1 .. L : m[i] # k
        BY <1>0, <3>2, <3>3
      <4>3. \A i \in 1 .. L + 1 : i \in 1 .. L \/ i = L + 1
        BY <2>1
      <4> QED BY <3>2, <4>1, <4>2, <4>3
    <3>6. First(m, L + 1) = {x \in S : x < k + 1}
      <4>1. ASSUME NEW x \in First(m, L + 1) PROVE x \in S /\ x < k + 1
        <5>1. PICK i \in 1 .. L + 1 : x = m[i]
          BY DEF First
        <5>2. CASE i = L + 1
          BY <2>3, <3>2, <5>1, <5>2
        <5>3. CASE i \in 1 .. L
          <6>1. x \in First(l, L)
            BY <3>2, <5>1, <5>3 DEF First
          <6>2. x \in S /\ x < k
            BY <2>1, <6>1
          <6> QED BY <1>a, <6>2
        <5> QED BY <2>1, <5>2, <5>3
      <4>2. ASSUME NEW x \in S, x < k + 1 PROVE x \in First(m, L + 1)
        <5>1. CASE x = k
          <6>1. L + 1 \in 1 .. L + 1
            BY <2>1
          <6> QED BY <3>2, <5>1, <6>1 DEF First
        <5>2. CASE x # k
          <6>1. x < k
            BY <1>0, <4>2, <5>2
          <6>2. PICK i \in 1 .. L : x = l[i]
            BY <2>1, <6>1 DEF First
          <6>3. i \in 1 .. L + 1
            BY <2>1
          <6> QED BY <3>2, <6>2, <6>3 DEF First
        <5> QED BY <5>1, <5>2
      <4> QED BY <4>1, <4>2
    <3>7. m \in Arrays(Len(m)) /\ First(m, Len(m)) = {x \in S : x < k + 1}
      BY <3>2, <3>4, <3>5, <3>6 DEF Arrays
    <3>8. body[s] = [slot |-> k + 1, list |-> m] /\ m \in Seq(Slots)
      BY <2>2, <2>3, <3>2 DEF m
    <3> QED BY <3>7, <3>8
  <2>4. CASE k \notin S
    <3>1. {x \in S : x < k + 1} = {x \in S : x < k}
      <4>1. \A x \in S : x < k + 1 <=> x < k
        BY <1>a, <2>4
      <4> QED BY <4>1
    <3> QED BY <2>1, <2>2, <2>4, <3>1
  <2> QED BY <2>3, <2>4
<1>3. Turns(body, start, n) \in Filled(n)
  <2> HIDE DEF body, start, Filled
  <2>1. start \in I[0] /\ I[n] = Filled(n)
    BY <1>0, <1>1
  <2>2. \A k \in 0 .. n - 1 : \A s \in I[k] : body[s] \in I[k + 1]
    BY <1>0, <1>2
  <2> HIDE DEF I
  <2> QED BY <1>0, <2>1, <2>2, LoopInvariant
<1>4. Listed(S) = Turns(body, start, n).list
  BY DEF Listed, n
<1> HIDE DEF body, start
<1>5. {x \in S : x < n} = S
  BY <1>a
<1>6. Len(Listed(S)) \in Nat
  BY <1>3, <1>4
<1> QED BY <1>3, <1>4, <1>5, <1>6

(* The live slots, in the order of their names.                             *)
LEMMA SortedNamesFacts ==
    ASSUME NEW dir \in Directory
    PROVE  \E N \in Nat :
              /\ SortedNames(dir) \in Arrays(N) /\ First(SortedNames(dir), N) = LiveSlots(dir)
              /\ \A i, j \in 1 .. N :
                    i < j => dir[SortedNames(dir)[i]].name <= dir[SortedNames(dir)[j]].name
<1> DEFINE l == Listed(LiveSlots(dir))
           q == SortedNames(dir)
           key == NameKey(dir)
<1>1. PICK N \in Nat : l \in Arrays(N) /\ First(l, N) = LiveSlots(dir)
  <2>1. LiveSlots(dir) \subseteq Slots
    BY DEF LiveSlots
  <2> QED BY <2>1, ListedFacts
<1>2. key \in [Slots -> Int] /\ \A s \in Slots : key[s] = dir[s].name
  BY DEF NameKey, Directory, Entry
<1>3. q = sort_index(key, l)
  BY DEF SortedNames
<1> HIDE DEF l, q, key
<1>4. /\ q \in Arrays(N) /\ First(q, N) = LiveSlots(dir)
      /\ \A i, j \in 1 .. N : i < j => key[q[i]] <= key[q[j]]
  BY <1>1, <1>2, <1>3, HeapsortSorts
<1>5. \A i \in 1 .. N : q[i] \in Slots
  BY <1>4, ArrayFacts
<1> QED BY <1>2, <1>4, <1>5 DEF q

(* The slots that own an extent, in the order of their first blocks.        *)
LEMMA SortedExtentsFacts ==
    ASSUME NEW dir \in Directory
    PROVE  \E N \in Nat :
              /\ SortedExtents(dir) \in Arrays(N)
              /\ First(SortedExtents(dir), N) = ExtentSlots(dir)
              /\ \A i, j \in 1 .. N :
                    i < j => dir[SortedExtents(dir)[i]].start <= dir[SortedExtents(dir)[j]].start
<1> DEFINE l == Listed(ExtentSlots(dir))
           q == SortedExtents(dir)
           key == StartKey(dir)
<1>1. PICK N \in Nat : l \in Arrays(N) /\ First(l, N) = ExtentSlots(dir)
  <2>1. ExtentSlots(dir) \subseteq Slots
    BY DEF ExtentSlots, LiveSlots
  <2> QED BY <2>1, ListedFacts
<1>2. key \in [Slots -> Int] /\ \A s \in Slots : key[s] = dir[s].start
  BY DEF StartKey, Directory, Entry
<1>3. q = sort_index(key, l)
  BY DEF SortedExtents
<1> HIDE DEF l, q, key
<1>4. /\ q \in Arrays(N) /\ First(q, N) = ExtentSlots(dir)
      /\ \A i, j \in 1 .. N : i < j => key[q[i]] <= key[q[j]]
  BY <1>1, <1>2, <1>3, HeapsortSorts
<1>5. \A i \in 1 .. N : q[i] \in Slots
  BY <1>4, ArrayFacts
<1> QED BY <1>2, <1>4, <1>5 DEF q

-----------------------------------------------------------------------------
(* The binary search.                                                       *)

(* The name at a position of the index.                                     *)
NameAt(i) == cache.dir[order[i]].name

NamesGoUp(N) ==
    /\ \A i \in 1 .. N : NameAt(i) \in Int
    /\ \A i, j \in 1 .. N : i < j => NameAt(i) <= NameAt(j)

(* What lies outside low and high is decided.                               *)
Bracket(N, n, s) ==
    /\ s \in [low : Nat, high : Nat] /\ s.low <= s.high /\ s.high <= N
    /\ \A i \in 1 .. s.low : NameAt(i) < n
    /\ \A i \in s.high + 1 .. N : NameAt(i) >= n

(* A turn halves what is left between the names below n and the others.     *)
LEMMA SearchTurn ==
    ASSUME NEW N \in Nat, NamesGoUp(N), NEW n \in Int, NEW s, Bracket(N, n, s),
           s.low < s.high, NEW t, t = search_turn(n, s)
    PROVE  Bracket(N, n, t) /\ t.high - t.low < s.high - s.low
<1> DEFINE low == s.low
           high == s.high
<1>0. /\ low \in 0 .. N /\ high \in low .. N /\ low < high
      /\ \A i \in 1 .. low : NameAt(i) < n
      /\ \A i \in high + 1 .. N : NameAt(i) >= n
  BY DEF Bracket
<1>a. t = search_turn(n, [low |-> low, high |-> high])
  BY DEF Bracket
<1>b. /\ \A i \in 1 .. N : NameAt(i) \in Int
      /\ \A i, j \in 1 .. N : i < j => NameAt(i) <= NameAt(j)
  BY DEF NamesGoUp
<1> HIDE DEF low, high
<1> DEFINE middle == low + (high - low) \div 2
           m == middle + 1
<1>1. middle \in low .. high - 1 /\ middle \in Nat
  BY <1>0
<1>2. t = IF NameAt(m) < n THEN [low |-> m, high |-> high]
          ELSE [low |-> low, high |-> middle]
  BY <1>0, <1>a DEF search_turn, NameAt
<1> HIDE DEF middle
<1>3. m \in 1 .. N /\ m \in low + 1 .. high
  BY <1>0, <1>1
<1>4. CASE NameAt(m) < n
  <2>1. ASSUME NEW i \in 1 .. m PROVE NameAt(i) < n
    <3>1. i \in 1 .. N /\ (i = m \/ i < m)
      BY <1>0, <1>3
    <3>2. NameAt(i) <= NameAt(m)
      BY <1>b, <1>3, <3>1
    <3> QED BY <1>b, <1>3, <1>4, <3>1, <3>2
  <2>2. t.low = m /\ t.high = high /\ t = [low |-> m, high |-> high]
    BY <1>2, <1>4
  <2> QED BY <1>0, <1>3, <2>1, <2>2 DEF Bracket, low, high
<1>5. CASE ~(NameAt(m) < n)
  <2>1. ASSUME NEW i \in middle + 1 .. N PROVE NameAt(i) >= n
    <3>1. i \in 1 .. N /\ (i = m \/ m < i)
      BY <1>0, <1>1
    <3>2. NameAt(m) <= NameAt(i)
      BY <1>b, <1>3, <3>1
    <3> QED BY <1>b, <1>3, <1>5, <3>1, <3>2
  <2>2. t.low = low /\ t.high = middle /\ t = [low |-> low, high |-> middle]
    BY <1>2, <1>5
  <2> QED BY <1>0, <1>1, <2>1, <2>2 DEF Bracket, low, high
<1> QED BY <1>4, <1>5

(* The search ends at the first name that is not below n.                   *)
LEMMA LowerBoundFacts ==
    ASSUME NEW N \in Nat, Len(order) = N, NamesGoUp(N), NEW n \in Int
    PROVE  /\ LowerBound(n) \in 0 .. N
           /\ \A i \in 1 .. LowerBound(n) : NameAt(i) < n
           /\ \A i \in LowerBound(n) + 1 .. N : NameAt(i) >= n
<1> DEFINE body == [s \in [low : Nat, high : Nat] |-> search_turn(n, s)]
           start == [low |-> 0, high |-> N]
           Halved(k) == {s \in [low : Nat, high : Nat] :
                           /\ Bracket(N, n, s)
                           /\ s.low < s.high => s.high - s.low <= N - k}
           I == [k \in 0 .. N |-> Halved(k)]
<1>1. start \in Halved(0)
  BY DEF Bracket
<1>2. ASSUME NEW k \in 0 .. N - 1, NEW s \in Halved(k) PROVE body[s] \in Halved(k + 1)
  <2> DEFINE t == search_turn(n, s)
  <2>1. /\ body[s] = t /\ s \in [low : Nat, high : Nat] /\ Bracket(N, n, s)
        /\ s.low < s.high => s.high - s.low <= N - k
    OBVIOUS
  <2>2. CASE s.low < s.high
    <3>1. Bracket(N, n, t) /\ t.high - t.low < s.high - s.low
      <4> HIDE DEF t
      <4>1. t = search_turn(n, s)
        BY DEF t
      <4> QED BY <2>1, <2>2, <4>1, SearchTurn
    <3> HIDE DEF t, body
    <3>2. t \in [low : Nat, high : Nat]
      BY <3>1 DEF Bracket
    <3>3. t.high - t.low <= N - (k + 1)
      BY <2>1, <2>2, <3>1, <3>2
    <3> QED BY <2>1, <3>1, <3>2, <3>3
  <2>3. CASE ~(s.low < s.high)
    <3>1. t = s
      BY <2>1, <2>3 DEF search_turn
    <3> QED BY <2>1, <2>3, <3>1
  <2> QED BY <2>2, <2>3
<1>3. Turns(body, start, N) \in Halved(N)
  <2> HIDE DEF body, start, Halved
  <2>1. start \in I[0] /\ I[N] = Halved(N)
    BY <1>1
  <2>2. \A k \in 0 .. N - 1 : \A s \in I[k] : body[s] \in I[k + 1]
    BY <1>2
  <2> HIDE DEF I
  <2> QED BY <2>1, <2>2, LoopInvariant
<1>4. LowerBound(n) = Turns(body, start, N).low
  BY DEF LowerBound
<1> HIDE DEF body, start
<1>5. PICK s \in Halved(N) : LowerBound(n) = s.low
  BY <1>3, <1>4
<1>6. s.low = s.high /\ s.low \in 0 .. N
  BY <1>5 DEF Bracket
<1> QED BY <1>5, <1>6 DEF Bracket

(* The instance the algorithms run on.                                      *)
Instance ==
    /\ cache.dir \in Directory /\ order = SortedNames(cache.dir)
    /\ capacity_blocks = Capacity

(* The index is in name order, and the search finds what it should.         *)
LEMMA IndexFinds == ASSUME Instance PROVE NameIndexFinds
<1> DEFINE dir == cache.dir
<1>1. PICK N \in Nat :
          /\ order \in Arrays(N) /\ First(order, N) = LiveSlots(dir)
          /\ \A i, j \in 1 .. N : i < j => dir[order[i]].name <= dir[order[j]].name
  BY SortedNamesFacts DEF Instance
<1>2. /\ Len(order) = N /\ \A i \in 1 .. N : order[i] \in Slots
      /\ \A i, j \in 1 .. N : i # j => order[i] # order[j]
  BY <1>1, ArrayFacts
<1>3. \A i \in 1 .. N : NameAt(i) \in Int
  BY <1>2 DEF Instance, Directory, Entry, NameAt
<1>4. NamesGoUp(N)
  BY <1>1, <1>3 DEF NamesGoUp, NameAt
<1>5. IsNameOrder(order, dir)
  <2>1. {order[i] : i \in 1 .. Len(order)} = LiveSlots(dir)
    BY <1>1, <1>2 DEF First
  <2>2. \A i, j \in 1 .. Len(order) :
            i < j => order[i] # order[j] /\ dir[order[i]].name <= dir[order[j]].name
    BY <1>1, <1>2
  <2> QED BY <2>1, <2>2 DEF IsNameOrder
<1>6. ASSUME NamesUnique(dir), NEW n \in Names
      PROVE  /\ find_entry_loop(n) = {s \in LiveSlots(dir) : dir[s].name = n}
             /\ find_entry_loop(n) = find_entry(n)
  <2> DEFINE low == LowerBound(n)
             l == low + 1
             found == low < N /\ NameAt(l) = n
  <2>0. n \in Int
    BY InputAssumption
  <2>1. /\ low \in 0 .. N
        /\ \A i \in 1 .. low : NameAt(i) < n
        /\ \A i \in l .. N : NameAt(i) >= n
    BY <1>2, <1>4, <2>0, LowerBoundFacts
  <2>2. find_entry_loop(n) = IF found THEN {order[l]} ELSE {}
    BY <1>2 DEF find_entry_loop, NameAt
  <2> HIDE DEF low
  <2>3. found => l \in 1 .. N
    BY <2>1
  <2>4. ASSUME NEW i \in 1 .. N, NameAt(i) = n PROVE found /\ i = l
    <3>1. i >= l
      BY <1>3, <2>0, <2>1, <2>4
    <3>2. l \in 1 .. N /\ low < N
      BY <2>1, <3>1
    <3>3. NameAt(l) = n
      <4>1. NameAt(l) >= n
        BY <2>1, <3>2
      <4>2. NameAt(l) <= NameAt(i)
        BY <1>3, <1>4, <3>1, <3>2 DEF NamesGoUp
      <4> QED BY <1>3, <2>0, <2>4, <3>2, <4>1, <4>2
    <3>4. order[i] \in LiveSlots(dir) /\ order[l] \in LiveSlots(dir)
      BY <1>1, <3>2 DEF First
    <3>5. order[i] = order[l]
      BY <1>6, <2>4, <3>3, <3>4 DEF NamesUnique, NameAt
    <3> QED BY <1>2, <3>2, <3>3, <3>5
  <2>5. ASSUME NEW s \in LiveSlots(dir), dir[s].name = n PROVE found /\ s = order[l]
    <3>1. PICK i \in 1 .. N : s = order[i]
      BY <1>1 DEF First
    <3> QED BY <2>4, <2>5, <3>1 DEF NameAt
  <2>6. found => order[l] \in LiveSlots(dir) /\ dir[order[l]].name = n
    <3>1. ASSUME found PROVE order[l] \in LiveSlots(dir)
      BY <1>1, <2>3, <3>1 DEF First
    <3> QED BY <3>1 DEF NameAt
  <2>7. find_entry_loop(n) = {s \in LiveSlots(dir) : dir[s].name = n}
    <3> HIDE DEF found, l
    <3> QED BY <2>2, <2>5, <2>6
  <2> DEFINE J == {j \in 1 .. Len(order) :
                     /\ cache.dir[order[j]].name = n
                     /\ \A i \in 1 .. Len(order) :
                           IF i < j THEN cache.dir[order[i]].name < n
                                    ELSE cache.dir[order[i]].name >= n}
  <2>8. ASSUME NEW j \in J PROVE found /\ j = l
    BY <1>2, <2>4 DEF NameAt
  <2>9. found => l \in J
    <3> SUFFICES ASSUME found PROVE l \in J
      OBVIOUS
    <3>1. l \in 1 .. N /\ NameAt(l) = n
      BY <2>3
    <3>2. \A i \in 1 .. N : IF i < l THEN NameAt(i) < n ELSE NameAt(i) >= n
      <4>1. \A i \in 1 .. N : i < l => i \in 1 .. low
        BY <2>1
      <4>2. \A i \in 1 .. N : ~(i < l) => i \in l .. N
        BY <2>1
      <4> QED BY <2>1, <4>1, <4>2
    <3> QED BY <1>2, <3>1, <3>2 DEF NameAt
  <2>10. find_entry(n) = {order[k] : k \in J}
    BY DEF find_entry
  <2> HIDE DEF J, found
  <2>11. find_entry(n) = IF found THEN {order[l]} ELSE {}
    BY <2>8, <2>9, <2>10
  <2> QED BY <2>2, <2>7, <2>11
<1> QED BY <1>5, <1>6 DEF NameIndexFinds

-----------------------------------------------------------------------------
(* Extents in the order of their starts.                                    *)

StartAt(dir, q, i) == dir[q[i]].start
EndAt(dir, q, i) == dir[q[i]].start + dir[q[i]].count

(* q lists the extents of dir by their starts.                              *)
ByStart(dir, q, N) ==
    /\ q \in Arrays(N) /\ First(q, N) = ExtentSlots(dir)
    /\ \A i, j \in 1 .. N : i < j => StartAt(dir, q, i) <= StartAt(dir, q, j)

(* Every position holds a run of blocks inside the data area.               *)
InArea(dir, q, N) ==
    \A i \in 1 .. N :
        /\ StartAt(dir, q, i) \in Nat /\ EndAt(dir, q, i) \in Nat
        /\ D <= StartAt(dir, q, i) /\ StartAt(dir, q, i) < EndAt(dir, q, i)
        /\ EndAt(dir, q, i) <= Capacity

(* No extent reaches into a later one.                                      *)
Packed(dir, q, N) ==
    \A i, j \in 1 .. N : i < j => EndAt(dir, q, i) <= StartAt(dir, q, j)

(* What is not empty needs a block.                                         *)
LEMMA SomeBlock == \A z \in Nat : z # 0 => blocks_needed(z) \in Nat /\ blocks_needed(z) >= 1
<1> TAKE z \in Nat
<1> HAVE z # 0
<1> DEFINE a == z \div BlockSize
           r == z % BlockSize
<1>1. BlockSize \in Nat /\ BlockSize > 0
  BY GeometryAssumption
<1>2. a \in Nat /\ r \in Nat /\ z = BlockSize * a + r
  BY <1>1
<1>3. blocks_needed(z) = a + (IF r # 0 THEN 1 ELSE 0)
  BY DEF blocks_needed
<1>4. a # 0 \/ r # 0
  <2> SUFFICES ASSUME a = 0, r = 0 PROVE FALSE
    OBVIOUS
  <2> HIDE DEF a, r
  <2>1. z = BlockSize * 0 + 0
    BY <1>2
  <2> QED BY <1>1, <2>1
<1> HIDE DEF a, r
<1> QED BY <1>2, <1>3, <1>4

(* The entries of a directory that passed the checks of mount are in the    *)
(* data area.                                                               *)
LEMMA AreaFacts ==
    ASSUME NEW dir \in Directory, \A s \in Slots : EntryValid(dir[s]),
           NEW N \in Nat, NEW q, ByStart(dir, q, N)
    PROVE  InArea(dir, q, N)
<1> SUFFICES ASSUME NEW i \in 1 .. N
             PROVE  /\ StartAt(dir, q, i) \in Nat /\ EndAt(dir, q, i) \in Nat
                    /\ D <= StartAt(dir, q, i) /\ StartAt(dir, q, i) < EndAt(dir, q, i)
                    /\ EndAt(dir, q, i) <= Capacity
  BY DEF InArea
<1> DEFINE e == dir[q[i]]
<1>1. q[i] \in ExtentSlots(dir)
  BY DEF ByStart, First
<1>2. q[i] \in Slots /\ e.name # 0 /\ e.size # 0
  BY <1>1 DEF ExtentSlots, LiveSlots
<1>3. e \in Entry /\ EntryValid(e)
  BY <1>2 DEF Directory
<1> HIDE DEF e
<1>4. /\ e.size \in Nat /\ e.start \in Nat /\ e.count \in Nat
      /\ e.count = blocks_needed(e.size)
      /\ e.start >= D /\ e.start < Capacity /\ e.count <= Capacity - e.start
  BY <1>2, <1>3 DEF EntryValid, NoEntry, Entry
<1>5. e.count >= 1
  BY <1>2, <1>4, SomeBlock
<1>6. D \in Nat /\ Capacity \in Nat
  BY GeometryAssumption
<1> QED BY <1>4, <1>5, <1>6 DEF StartAt, EndAt, e

(* What every position holds.                                               *)
LEMMA PositionFacts ==
    ASSUME NEW dir \in Directory, NEW N \in Nat, NEW q, ByStart(dir, q, N),
           InArea(dir, q, N)
    PROVE  \A i \in 1 .. N :
              /\ StartAt(dir, q, i) \in Nat /\ EndAt(dir, q, i) \in Nat
              /\ StartAt(dir, q, i) < EndAt(dir, q, i)
              /\ q[i] \in ExtentSlots(dir) /\ q[i] \in LiveSlots(dir)
              /\ \A b : b \in Extent(dir[q[i]]) <=>
                       b \in Int /\ StartAt(dir, q, i) <= b /\ b < EndAt(dir, q, i)
<1> TAKE i \in 1 .. N
<1> DEFINE e == dir[q[i]]
<1>1. q[i] \in ExtentSlots(dir)
  BY DEF ByStart, First
<1>2. q[i] \in LiveSlots(dir) /\ q[i] \in Slots /\ e.size # 0
  BY <1>1 DEF ExtentSlots, LiveSlots
<1>3. e \in Entry
  BY <1>2 DEF Directory
<1>4. StartAt(dir, q, i) = e.start /\ EndAt(dir, q, i) = e.start + e.count
  BY DEF StartAt, EndAt
<1> HIDE DEF e
<1>5. e.start \in Nat /\ e.count \in Nat
  BY <1>3 DEF Entry
<1>6. \A b : b \in Extent(e) <=> b \in Int /\ e.start <= b /\ b < e.start + e.count
  BY <1>2, <1>5 DEF Extent
<1>7. \A b : b \in Extent(dir[q[i]]) <=>
             b \in Int /\ StartAt(dir, q, i) <= b /\ b < EndAt(dir, q, i)
  BY <1>4, <1>6 DEF e
<1> QED BY <1>1, <1>2, <1>7 DEF InArea

(* Disjoint extents are packed, and packed ones disjoint.                   *)
LEMMA PackedIsDisjoint ==
    ASSUME NEW dir \in Directory, NEW N \in Nat, NEW q, ByStart(dir, q, N),
           InArea(dir, q, N)
    PROVE  ExtentsDisjoint(dir) <=> Packed(dir, q, N)
<1> DEFINE S(i) == StartAt(dir, q, i)
           E(i) == EndAt(dir, q, i)
<1>1. \A i \in 1 .. N :
          /\ S(i) \in Nat /\ E(i) \in Nat /\ S(i) < E(i)
          /\ q[i] \in ExtentSlots(dir)
          /\ \A b : b \in Extent(dir[q[i]]) <=> b \in Int /\ S(i) <= b /\ b < E(i)
  BY PositionFacts
<1>3. \A i, j \in 1 .. N : (i < j => S(i) <= S(j)) /\ (i # j => q[i] # q[j])
  BY ArrayFacts DEF ByStart
<1>4. ASSUME ExtentsDisjoint(dir), NEW i \in 1 .. N, NEW j \in 1 .. N, i < j
      PROVE  E(i) <= S(j)
  <2>0. /\ q[i] \in ExtentSlots(dir) /\ q[j] \in ExtentSlots(dir)
        /\ q[i] # q[j]
    <3> HIDE DEF S, E
    <3> QED BY <1>1, <1>3, <1>4
  <2>1. Extent(dir[q[i]]) \cap Extent(dir[q[j]]) = {}
    BY <1>4, <2>0 DEF ExtentsDisjoint
  <2> HIDE DEF S, E
  <2>2. S(j) \in Extent(dir[q[j]])
    BY <1>1
  <2>3. S(j) \notin Extent(dir[q[i]])
    BY <2>1, <2>2
  <2> QED BY <1>1, <1>3, <1>4, <2>3
<1>5. ASSUME Packed(dir, q, N), NEW s \in ExtentSlots(dir), NEW t \in ExtentSlots(dir), s # t
      PROVE  Extent(dir[s]) \cap Extent(dir[t]) = {}
  <2>1. PICK i \in 1 .. N, j \in 1 .. N : s = q[i] /\ t = q[j]
    BY DEF ByStart, First
  <2>2. i < j \/ j < i
    BY <1>5, <2>1
  <2>3. E(i) <= S(j) \/ E(j) <= S(i)
    BY <1>5, <2>2 DEF Packed
  <2> SUFFICES ASSUME NEW b, b \in Extent(dir[q[i]]), b \in Extent(dir[q[j]])
               PROVE  FALSE
    BY <2>1
  <2> HIDE DEF S, E
  <2>4. b \in Int /\ S(i) <= b /\ b < E(i) /\ S(j) <= b /\ b < E(j)
    BY <1>1
  <2>5. /\ S(i) \in Nat /\ E(i) \in Nat /\ S(j) \in Nat /\ E(j) \in Nat
    BY <1>1
  <2> QED BY <2>3, <2>4, <2>5
<1> QED BY <1>4, <1>5 DEF ExtentsDisjoint, Packed

(* The blocks in use are those of the listed extents.                       *)
LEMMA UsedByExtents ==
    ASSUME NEW dir \in Directory, NEW N \in Nat, NEW q, ByStart(dir, q, N),
           InArea(dir, q, N)
    PROVE  \A b \in Nat : b \in UsedBlocks(dir) <=>
              \E i \in 1 .. N : StartAt(dir, q, i) <= b /\ b < EndAt(dir, q, i)
<1> TAKE b \in Nat
<1>1. \A i \in 1 .. N :
          /\ q[i] \in LiveSlots(dir)
          /\ b \in Extent(dir[q[i]]) <=> StartAt(dir, q, i) <= b /\ b < EndAt(dir, q, i)
  BY PositionFacts
<1>2. ASSUME b \in UsedBlocks(dir)
      PROVE  \E i \in 1 .. N : StartAt(dir, q, i) <= b /\ b < EndAt(dir, q, i)
  <2>1. PICK s \in LiveSlots(dir) : b \in Extent(dir[s])
    BY <1>2 DEF UsedBlocks
  <2>2. s \in ExtentSlots(dir)
    BY <2>1 DEF ExtentSlots, Extent
  <2>3. PICK i \in 1 .. N : s = q[i]
    BY <2>2 DEF ByStart, First
  <2> QED BY <1>1, <2>1, <2>3
<1>3. ASSUME NEW i \in 1 .. N, StartAt(dir, q, i) <= b, b < EndAt(dir, q, i)
      PROVE  b \in UsedBlocks(dir)
  <2>1. b \in Extent(dir[q[i]])
    BY <1>1, <1>3
  <2> QED BY <1>1, <2>1 DEF UsedBlocks
<1> QED BY <1>2, <1>3

-----------------------------------------------------------------------------
(* The walk of allocate_extent.                                             *)

(* Block numbers never wrap.                                                *)
LEMMA NeverWraps == \A x \in 0 .. Capacity : x % Word = x
<1> TAKE x \in 0 .. Capacity
<1> DEFINE a == x \div Word
           r == x % Word
<1>1. Word \in Nat /\ Word > 0 /\ x \in Nat /\ x < Word
  BY GeometryAssumption, WordAssumption
<1>2. a \in Int /\ r \in 0 .. Word - 1 /\ x = Word * a + r
  BY <1>1
<1> HIDE DEF a, r
<1>3. a = 0
  <2>1. a >= 1 => Word * a >= Word
    BY <1>1, <1>2
  <2>2. a <= -1 => Word * a <= -Word
    BY <1>1, <1>2
  <2> DEFINE p == Word * a
  <2>3. p \in Int /\ x = p + r
    BY <1>1, <1>2
  <2>4. (a >= 1 => p >= Word) /\ (a <= -1 => p <= -Word)
    BY <2>1, <2>2
  <2> HIDE DEF p
  <2> QED BY <1>1, <1>2, <2>3, <2>4
<1>4. Word * a = 0
  BY <1>1, <1>3
<1>5. x = r
  BY <1>1, <1>2, <1>4
<1> QED BY <1>5 DEF r

(* The walk has passed the extents before i, which end before `at', and     *)
(* seen that no run of `needed' free blocks starts before `at'.             *)
Walked(dir, q, N, needed, s) ==
    /\ s \in [i : Nat, at : Nat]
    /\ s.i \in 1 .. N + 1 /\ s.at \in D .. Capacity
    /\ \A j \in 1 .. N : j < s.i => EndAt(dir, q, j) <= s.at
    /\ \A j \in 1 .. N : s.i <= j => s.at <= StartAt(dir, q, j)
    /\ \A b \in D .. s.at - 1 :
          \E c \in UsedBlocks(dir) : c \in Nat /\ b <= c /\ c < b + needed

(* There is room in front of the extent it is at.                           *)
RoomAt(dir, q, N, needed, s) ==
    s.i <= N /\ StartAt(dir, q, s.i) - s.at >= needed

(* A turn passes one extent, or there was room and it stays.                *)
LEMMA WalkTurn ==
    ASSUME cache.dir \in Directory, NEW N \in Nat, NEW q, ByStart(cache.dir, q, N),
           InArea(cache.dir, q, N), Packed(cache.dir, q, N),
           NEW needed \in Nat \ {0}, NEW s, Walked(cache.dir, q, N, needed, s),
           NEW t, t = walk_turn(q, needed, s)
    PROVE  /\ Walked(cache.dir, q, N, needed, t)
           /\ IF s.i > N \/ RoomAt(cache.dir, q, N, needed, s) THEN t = s
              ELSE t.i = s.i + 1
<1> DEFINE dir == cache.dir
           S(j) == StartAt(dir, q, j)
           E(j) == EndAt(dir, q, j)
           i == s.i
           at == s.at
<1>1. /\ Len(q) = N /\ D \in Nat /\ Capacity \in Nat
  BY ArrayFacts, GeometryAssumption DEF ByStart
<1>2. /\ s \in [i : Nat, at : Nat] /\ i \in 1 .. N + 1 /\ at \in D .. Capacity
      /\ \A j \in 1 .. N : j < i => E(j) <= at
      /\ \A j \in 1 .. N : i <= j => at <= S(j)
      /\ \A b \in D .. at - 1 :
            \E c \in UsedBlocks(dir) : c \in Nat /\ b <= c /\ c < b + needed
  BY DEF Walked
<1>3. \A j \in 1 .. N : /\ S(j) \in Nat /\ E(j) \in Nat
                        /\ D <= S(j) /\ S(j) < E(j) /\ E(j) <= Capacity
  BY DEF InArea
<1>4. CASE i > N
  BY <1>1, <1>4 DEF walk_turn
<1>5. CASE ~(i > N)
  <2>1. i \in 1 .. N /\ at \in Nat /\ at <= S(i)
    <3> HIDE DEF S, E, i, at
    <3> QED BY <1>1, <1>2, <1>5
  <2>2. (S(i) - at) % Word = S(i) - at /\ E(i) % Word = E(i)
    <3>1. S(i) - at \in 0 .. Capacity /\ E(i) \in 0 .. Capacity
      <4> HIDE DEF S, E, i, at
      <4> QED BY <1>1, <1>3, <2>1
    <3> QED BY <3>1, NeverWraps
  <2>3. t = IF S(i) - at >= needed THEN s ELSE [i |-> i + 1, at |-> E(i)]
    <3>1. cache.dir[q[s.i]].start = S(i)
      BY DEF StartAt
    <3>2. cache.dir[q[s.i]].start + cache.dir[q[s.i]].count = E(i)
      BY DEF EndAt
    <3>3. ~(s.i > Len(q))
      BY <1>1, <1>5
    <3> HIDE DEF S, E
    <3> QED BY <2>2, <3>1, <3>2, <3>3 DEF walk_turn
  <2>4. CASE S(i) - at >= needed
    <3>1. t = s /\ RoomAt(cache.dir, q, N, needed, s)
      BY <2>1, <2>3, <2>4 DEF RoomAt
    <3> QED BY <3>1
  <2>5. CASE ~(S(i) - at >= needed)
    <3>1. t = [i |-> i + 1, at |-> E(i)] /\ ~RoomAt(cache.dir, q, N, needed, s)
      BY <2>3, <2>5 DEF RoomAt
    <3>2. t \in [i : Nat, at : Nat] /\ t.i = i + 1 /\ t.at = E(i)
      BY <1>3, <2>1, <3>1
    <3>3. i + 1 \in 1 .. N + 1 /\ E(i) \in D .. Capacity
      <4> HIDE DEF S, E, i, at
      <4> QED BY <1>1, <1>3, <2>1
    <3>4. ASSUME NEW j \in 1 .. N, j < i + 1 PROVE E(j) <= E(i)
      <4>1. j = i \/ j < i
        BY <2>1, <3>4
      <4> HIDE DEF S, E, i, at
      <4> QED BY <1>2, <1>3, <2>1, <4>1
    <3>5. ASSUME NEW j \in 1 .. N, i + 1 <= j PROVE E(i) <= S(j)
      <4>1. i < j
        BY <2>1, <3>5
      <4> QED BY <2>1, <4>1 DEF Packed
    <3>6. ASSUME NEW b \in D .. E(i) - 1
          PROVE  \E c \in UsedBlocks(dir) : c \in Nat /\ b <= c /\ c < b + needed
      <4>0. b \in Nat /\ b < E(i) /\ D <= b
        <5> HIDE DEF E, i
        <5> QED BY <1>1, <1>3, <2>1
      <4>a. \A c \in Nat : S(i) <= c /\ c < E(i) => c \in UsedBlocks(dir)
        BY <2>1, UsedByExtents
      <4> HIDE DEF S, E, i, at
      <4>1. CASE b < at
        BY <1>2, <2>1, <4>0, <4>1
      <4>2. CASE at <= b /\ b <= S(i)
        <5>1. S(i) \in UsedBlocks(dir) /\ S(i) \in Nat
          BY <1>3, <2>1, <4>a
        <5>2. S(i) < b + needed
          BY <1>3, <2>1, <2>5, <4>0, <4>2
        <5> QED BY <4>2, <5>1, <5>2
      <4>3. CASE S(i) < b
        <5>1. b \in UsedBlocks(dir)
          BY <1>3, <2>1, <4>0, <4>3, <4>a
        <5> QED BY <4>0, <5>1
      <4> QED BY <1>3, <2>1, <4>0, <4>1, <4>2, <4>3
    <3> QED BY <3>1, <3>2, <3>3, <3>4, <3>5, <3>6 DEF Walked
  <2> QED BY <1>5, <2>4, <2>5
<1> QED BY <1>4, <1>5

(* The walk ends at the first run of `needed' blocks, or too near the end.  *)
LEMMA CandidateFacts ==
    ASSUME cache.dir \in Directory, NEW N \in Nat, NEW q, ByStart(cache.dir, q, N),
           InArea(cache.dir, q, N), Packed(cache.dir, q, N), NEW needed \in Nat \ {0}
    PROVE  \E s : /\ Walked(cache.dir, q, N, needed, s)
                  /\ s.i > N \/ RoomAt(cache.dir, q, N, needed, s)
                  /\ Candidate(q, needed) = s.at
<1> DEFINE body == [s \in [i : Nat, at : Nat] |-> walk_turn(q, needed, s)]
           start == [i |-> 1, at |-> D]
           After(k) == {s \in [i : Nat, at : Nat] :
                           /\ Walked(cache.dir, q, N, needed, s)
                           /\ s.i > k \/ RoomAt(cache.dir, q, N, needed, s)}
           I == [k \in 0 .. N |-> After(k)]
<1>0. Len(q) = N /\ D \in Nat /\ Capacity \in Nat /\ D <= Capacity
  BY ArrayFacts, GeometryAssumption DEF ByStart
<1>1. start \in After(0)
  <2>1. /\ start \in [i : Nat, at : Nat] /\ start.i = 1 /\ start.at = D
        /\ 1 \in 1 .. N + 1 /\ D \in D .. Capacity
    BY <1>0
  <2>2. \A j \in 1 .. N : D <= StartAt(cache.dir, q, j)
    BY DEF InArea
  <2>3. \A j \in 1 .. N : ~(j < 1)
    OBVIOUS
  <2>4. D .. D - 1 = {}
    BY <1>0
  <2> HIDE DEF start
  <2>5. Walked(cache.dir, q, N, needed, start)
    BY <2>1, <2>2, <2>3, <2>4 DEF Walked
  <2> QED BY <2>1, <2>5
<1>2. ASSUME NEW k \in 0 .. N - 1, NEW s \in After(k) PROVE body[s] \in After(k + 1)
  <2> DEFINE t == walk_turn(q, needed, s)
  <2>1. /\ body[s] = t /\ s \in [i : Nat, at : Nat]
        /\ Walked(cache.dir, q, N, needed, s)
        /\ s.i > k \/ RoomAt(cache.dir, q, N, needed, s)
    OBVIOUS
  <2>a. t = walk_turn(q, needed, s)
    OBVIOUS
  <2> HIDE DEF t, body
  <2>2. /\ Walked(cache.dir, q, N, needed, t)
        /\ IF s.i > N \/ RoomAt(cache.dir, q, N, needed, s) THEN t = s
           ELSE t.i = s.i + 1
    BY <2>1, <2>a, WalkTurn
  <2>3. t \in [i : Nat, at : Nat]
    BY <2>2 DEF Walked
  <2>4. t.i > k + 1 \/ RoomAt(cache.dir, q, N, needed, t)
    <3>1. CASE RoomAt(cache.dir, q, N, needed, s)
      BY <2>2, <3>1
    <3>2. CASE ~RoomAt(cache.dir, q, N, needed, s)
      <4>1. s.i > k /\ s.i \in Nat
        BY <2>1, <3>2
      <4>2. CASE s.i > N
        BY <2>2, <4>1, <4>2
      <4>3. CASE ~(s.i > N)
        BY <2>2, <3>2, <4>1, <4>3
      <4> QED BY <4>2, <4>3
    <3> QED BY <3>1, <3>2
  <2> QED BY <2>1, <2>2, <2>3, <2>4
<1>3. Turns(body, start, N) \in After(N)
  <2> HIDE DEF body, start, After
  <2>1. start \in I[0] /\ I[N] = After(N)
    BY <1>1
  <2>2. \A k \in 0 .. N - 1 : \A s \in I[k] : body[s] \in I[k + 1]
    BY <1>2
  <2> HIDE DEF I
  <2> QED BY <2>1, <2>2, LoopInvariant
<1>4. Candidate(q, needed) = Turns(body, start, N).at
  BY <1>0 DEF Candidate
<1> HIDE DEF body, start
<1> QED BY <1>3, <1>4

(* The extents of a sound directory, sorted.                                *)
LEMMA ExtentsFacts ==
    ASSUME NEW dir \in Directory, \A s \in Slots : EntryValid(dir[s])
    PROVE  \E N \in Nat : /\ ByStart(dir, SortedExtents(dir), N)
                          /\ InArea(dir, SortedExtents(dir), N)
<1>1. PICK N \in Nat : ByStart(dir, SortedExtents(dir), N)
  BY SortedExtentsFacts DEF ByStart, StartAt
<1>2. InArea(dir, SortedExtents(dir), N)
  BY <1>1, AreaFacts
<1> QED BY <1>1, <1>2

(* First fit.                                                               *)
LEMMA WalkFirst == ASSUME Instance PROVE WalkIsFirstFit
<1> DEFINE dir == cache.dir
           q == SortedExtents(dir)
<1> SUFFICES ASSUME DirectorySound(dir), NEW needed \in 1 .. Capacity
             PROVE  allocate_extent_loop(needed) = allocate_extent(needed)
  BY DEF WalkIsFirstFit
<1>1. dir \in Directory /\ capacity_blocks = Capacity
  BY DEF Instance
<1>2. PICK N \in Nat : ByStart(dir, q, N) /\ InArea(dir, q, N)
  BY <1>1, ExtentsFacts DEF DirectorySound
<1>3. Packed(dir, q, N)
  BY <1>1, <1>2, PackedIsDisjoint DEF DirectorySound
<1>4. /\ D \in Nat /\ Capacity \in Nat /\ D <= Capacity
      /\ needed \in Nat \ {0}
  BY GeometryAssumption
<1>a. \A b \in Nat : b \in UsedBlocks(dir) <=>
        \E i \in 1 .. N : StartAt(dir, q, i) <= b /\ b < EndAt(dir, q, i)
  BY <1>1, <1>2, UsedByExtents
<1>b. allocate_extent_loop(needed) =
         IF needed <= (Capacity - Candidate(q, needed)) % Word
         THEN {Candidate(q, needed)} ELSE {}
  BY <1>1 DEF allocate_extent_loop
<1>c. \A i, j \in 1 .. N : i <= j => StartAt(dir, q, i) <= StartAt(dir, q, j)
  BY <1>2 DEF ByStart, InArea
<1>d. \A i \in 1 .. N : StartAt(dir, q, i) \in Nat /\ EndAt(dir, q, i) \in Nat
  BY <1>2 DEF InArea
<1> HIDE DEF q
<1>5. PICK s : /\ Walked(dir, q, N, needed, s)
               /\ s.i > N \/ RoomAt(dir, q, N, needed, s)
               /\ Candidate(q, needed) = s.at
  BY <1>1, <1>2, <1>3, <1>4, CandidateFacts
<1> HIDE DEF dir
<1> DEFINE c == s.at
           i == s.i
<1>6. /\ i \in 1 .. N + 1 /\ c \in D .. Capacity
      /\ \A j \in 1 .. N : j < i => EndAt(dir, q, j) <= c
      /\ \A b \in D .. c - 1 :
            \E u \in UsedBlocks(dir) : u \in Nat /\ b <= u /\ u < b + needed
      /\ i > N \/ (i \in 1 .. N /\ StartAt(dir, q, i) - c >= needed)
  <2>1. /\ i \in 1 .. N + 1 /\ c \in D .. Capacity
        /\ \A j \in 1 .. N : j < i => EndAt(dir, q, j) <= c
        /\ \A b \in D .. c - 1 :
              \E u \in UsedBlocks(dir) : u \in Nat /\ b <= u /\ u < b + needed
    BY <1>5 DEF Walked
  <2>2. i > N \/ (i <= N /\ StartAt(dir, q, i) - c >= needed)
    BY <1>5 DEF RoomAt
  <2> HIDE DEF i, c
  <2>3. i <= N => i \in 1 .. N
    BY <2>1
  <2> QED BY <2>1, <2>2, <2>3
<1>7. allocate_extent_loop(needed) = IF needed <= Capacity - c THEN {c} ELSE {}
  <2>1. Capacity - c \in 0 .. Capacity
    BY <1>4, <1>6
  <2>2. (Capacity - c) % Word = Capacity - c
    BY <2>1, NeverWraps
  <2> QED BY <1>5, <1>b, <2>2
<1> HIDE DEF c, i
<1>8. \A b : b \in FreeStarts(needed) <=>
                /\ b \in Nat /\ D <= b /\ b + needed <= Capacity
                /\ \A u \in UsedBlocks(dir) : u \in Nat => ~(b <= u /\ u < b + needed)
  <2> TAKE b
  <2>1. b \in FreeStarts(needed) <=>
           /\ b \in DataBlocks /\ needed <= Capacity - b
           /\ b .. (b + needed - 1) \cap UsedBlocks(dir) = {}
    BY <1>1 DEF FreeStarts, dir
  <2>2. b \in DataBlocks /\ needed <= Capacity - b
           <=> b \in Nat /\ D <= b /\ b + needed <= Capacity
    BY <1>4 DEF DataBlocks
  <2>3. ASSUME b \in Nat
        PROVE  b .. (b + needed - 1) \cap UsedBlocks(dir) = {}
               <=> \A u \in UsedBlocks(dir) : u \in Nat => ~(b <= u /\ u < b + needed)
    <3>1. \A u : u \in b .. (b + needed - 1) <=> u \in Nat /\ b <= u /\ u < b + needed
      BY <1>4, <2>3
    <3> QED BY <3>1
  <2> QED BY <2>1, <2>2, <2>3
<1>9. \A b \in FreeStarts(needed) : b >= c
  <2> SUFFICES ASSUME NEW b \in FreeStarts(needed), ~(b >= c) PROVE FALSE
    OBVIOUS
  <2>1. b \in Nat /\ D <= b
    BY <1>8
  <2>2. b \in D .. c - 1
    BY <1>4, <1>6, <2>1
  <2> QED BY <1>6, <1>8, <2>2
<1>10. CASE needed <= Capacity - c
  <2>1. ASSUME NEW u \in UsedBlocks(dir), u \in Nat, c <= u, u < c + needed PROVE FALSE
    <3>1. PICK j \in 1 .. N : StartAt(dir, q, j) <= u /\ u < EndAt(dir, q, j)
      BY <1>a, <2>1
    <3>2. CASE j < i
      <4>1. EndAt(dir, q, j) <= c
        BY <1>6, <3>2
      <4> QED BY <1>4, <1>6, <1>d, <2>1, <3>1, <4>1
    <3>3. CASE ~(j < i)
      <4>1. i \in 1 .. N /\ i <= j /\ StartAt(dir, q, i) - c >= needed
        BY <1>6, <3>3
      <4>2. StartAt(dir, q, i) <= StartAt(dir, q, j)
        BY <1>c, <4>1
      <4> QED BY <1>4, <1>6, <1>d, <2>1, <3>1, <4>1, <4>2
    <3> QED BY <3>2, <3>3
  <2>2. c \in FreeStarts(needed)
    <3>1. c \in Nat /\ D <= c /\ c + needed <= Capacity
      BY <1>4, <1>6, <1>10
    <3> QED BY <1>8, <2>1, <3>1
  <2>3. allocate_extent(needed) = {c}
    <3>1. allocate_extent(needed) =
             {b \in FreeStarts(needed) : \A d \in FreeStarts(needed) : b <= d}
      BY <1>4 DEF allocate_extent
    <3>2. ASSUME NEW b \in FreeStarts(needed), \A d \in FreeStarts(needed) : b <= d
          PROVE  b = c
      <4>1. b \in Nat /\ c \in Nat
        BY <1>4, <1>6, <1>8
      <4>2. b <= c /\ b >= c
        BY <1>9, <2>2, <3>2
      <4> QED BY <4>1, <4>2
    <3>3. \A d \in FreeStarts(needed) : c <= d
      BY <1>4, <1>6, <1>8, <1>9
    <3> QED BY <2>2, <3>1, <3>2, <3>3
  <2> QED BY <1>7, <1>10, <2>3
<1>11. CASE ~(needed <= Capacity - c)
  <2>1. FreeStarts(needed) = {}
    <3> SUFFICES ASSUME NEW b \in FreeStarts(needed) PROVE FALSE
      OBVIOUS
    <3> QED BY <1>4, <1>6, <1>8, <1>9, <1>11
  <2>2. allocate_extent(needed) = {}
    BY <1>4, <2>1 DEF allocate_extent
  <2> QED BY <1>7, <1>11, <2>2
<1> QED BY <1>10, <1>11

-----------------------------------------------------------------------------
(* Comparing neighbours.                                                    *)

(* Sorted extents that do not reach into their neighbours are packed.       *)
LEMMA NeighbouringExtents ==
    ASSUME NEW dir, NEW N \in Nat, NEW q, ByStart(dir, q, N), InArea(dir, q, N)
    PROVE  (\A i \in 2 .. N : StartAt(dir, q, i) >= EndAt(dir, q, i - 1) % Word)
           <=> Packed(dir, q, N)
<1> DEFINE S(i) == StartAt(dir, q, i)
           E(i) == EndAt(dir, q, i)
<1>1. \A i \in 1 .. N : /\ S(i) \in Nat /\ E(i) \in Nat /\ E(i) % Word = E(i)
  <2> TAKE i \in 1 .. N
  <2>1. S(i) \in Nat /\ E(i) \in Nat /\ E(i) <= Capacity
    BY DEF InArea
  <2> HIDE DEF S, E
  <2>2. E(i) \in 0 .. Capacity
    BY <2>1, GeometryAssumption
  <2> QED BY <2>1, <2>2, NeverWraps
<1>2. \A i, j \in 1 .. N : i < j => S(i) <= S(j)
  BY DEF ByStart
<1>3. ASSUME \A i \in 2 .. N : S(i) >= E(i - 1) % Word,
             NEW i \in 1 .. N, NEW j \in 1 .. N, i < j
      PROVE  E(i) <= S(j)
  <2> DEFINE k == i + 1
  <2>1. k \in 2 .. N /\ k \in 1 .. N /\ k - 1 = i /\ (k = j \/ k < j)
    BY <1>3
  <2> HIDE DEF k, S, E
  <2>2. S(k) >= E(i)
    BY <1>1, <1>3, <2>1
  <2>3. S(k) <= S(j)
    BY <1>1, <1>2, <2>1
  <2> QED BY <1>1, <2>1, <2>2, <2>3
<1>4. ASSUME Packed(dir, q, N), NEW i \in 2 .. N PROVE S(i) >= E(i - 1) % Word
  <2>1. i - 1 \in 1 .. N /\ i \in 1 .. N /\ i - 1 < i
    OBVIOUS
  <2>2. E(i - 1) <= S(i)
    BY <1>4, <2>1 DEF Packed
  <2> HIDE DEF S, E
  <2> QED BY <1>1, <2>1, <2>2
<1> QED BY <1>3, <1>4 DEF Packed

(* Sorted names that differ from their neighbours all differ.               *)
LEMMA NeighbouringNames ==
    ASSUME NEW dir \in Directory, NEW N \in Nat, NEW q \in Arrays(N),
           First(q, N) = LiveSlots(dir),
           \A i, j \in 1 .. N : i < j => dir[q[i]].name <= dir[q[j]].name
    PROVE  (\A i \in 2 .. N : dir[q[i - 1]].name # dir[q[i]].name)
           <=> NamesUnique(dir)
<1> DEFINE name(i) == dir[q[i]].name
<1>1. \A i \in 1 .. N : name(i) \in Int /\ q[i] \in LiveSlots(dir)
  <2> TAKE i \in 1 .. N
  <2>1. q[i] \in LiveSlots(dir)
    BY DEF First
  <2>2. q[i] \in Slots
    BY <2>1 DEF LiveSlots
  <2> QED BY <2>1, <2>2 DEF Directory, Entry
<1>2. \A i, j \in 1 .. N : (i < j => name(i) <= name(j)) /\ (i # j => q[i] # q[j])
  BY ArrayFacts
<1>3. ASSUME \A i \in 2 .. N : name(i - 1) # name(i), NEW i \in 1 .. N, NEW j \in 1 .. N, i < j
      PROVE  name(i) # name(j)
  <2> DEFINE k == i + 1
  <2>1. k \in 2 .. N /\ k \in 1 .. N /\ k - 1 = i /\ i < k /\ (k = j \/ k < j)
    BY <1>3
  <2> HIDE DEF k, name
  <2>2. name(i) # name(k) /\ name(i) <= name(k)
    BY <1>2, <1>3, <2>1
  <2>3. k < j => name(k) <= name(j)
    BY <1>2, <2>1
  <2> QED BY <1>1, <2>1, <2>2, <2>3
<1>4. ASSUME \A i \in 2 .. N : name(i - 1) # name(i),
             NEW s \in LiveSlots(dir), NEW t \in LiveSlots(dir), s # t
      PROVE  dir[s].name # dir[t].name
  <2>1. PICK i \in 1 .. N, j \in 1 .. N : s = q[i] /\ t = q[j]
    BY DEF First
  <2>2. i < j \/ j < i
    BY <1>4, <2>1
  <2>3. name(i) # name(j)
    <3> HIDE DEF name
    <3> QED BY <1>3, <1>4, <2>2
  <2> QED BY <2>1, <2>3
<1>5. ASSUME NamesUnique(dir), NEW i \in 2 .. N PROVE name(i - 1) # name(i)
  <2>1. i - 1 \in 1 .. N /\ i \in 1 .. N /\ i - 1 # i
    OBVIOUS
  <2>2. q[i - 1] \in LiveSlots(dir) /\ q[i] \in LiveSlots(dir) /\ q[i - 1] # q[i]
    BY <1>1, <1>2, <2>1
  <2> QED BY <1>5, <2>2 DEF NamesUnique
<1> QED BY <1>4, <1>5 DEF NamesUnique

(* Neighbours suffice.                                                      *)
LEMMA NeighboursEnough == ASSUME Instance PROVE NeighboursSuffice
<1> DEFINE dir == cache.dir
           x == SortedExtents(dir)
           n == SortedNames(dir)
<1>1. dir \in Directory
  BY DEF Instance
<1>2. SUFFICES ASSUME \A s \in Slots : EntryValid(dir[s])
               PROVE  NeighboursValid(dir) <=> ExtentsDisjoint(dir) /\ NamesUnique(dir)
  BY DEF NeighboursSuffice, validate_directory_loop, validate_directory, DirectorySound
<1>3. PICK N \in Nat : ByStart(dir, x, N) /\ InArea(dir, x, N)
  BY <1>1, <1>2, ExtentsFacts
<1>4. PICK M \in Nat : /\ n \in Arrays(M) /\ First(n, M) = LiveSlots(dir)
                       /\ \A i, j \in 1 .. M : i < j => dir[n[i]].name <= dir[n[j]].name
  BY <1>1, SortedNamesFacts
<1>5. Len(x) = N /\ Len(n) = M
  BY <1>3, <1>4, ArrayFacts DEF ByStart
<1>6. NeighboursValid(dir) <=>
        /\ \A i \in 2 .. Len(x) : StartAt(dir, x, i) >= EndAt(dir, x, i - 1) % Word
        /\ \A i \in 2 .. Len(n) : dir[n[i - 1]].name # dir[n[i]].name
  BY DEF NeighboursValid, StartAt, EndAt
<1> HIDE DEF x, n
<1>7. (\A i \in 2 .. N : StartAt(dir, x, i) >= EndAt(dir, x, i - 1) % Word)
      <=> ExtentsDisjoint(dir)
  BY <1>1, <1>3, NeighbouringExtents, PackedIsDisjoint
<1>8. (\A i \in 2 .. M : dir[n[i - 1]].name # dir[n[i]].name) <=> NamesUnique(dir)
  <2> HIDE DEF dir
  <2> QED BY <1>1, <1>4, NeighbouringNames
<1> QED BY <1>5, <1>6, <1>7, <1>8

-----------------------------------------------------------------------------
(* The instance never changes, whatever directory it started with.          *)
THEOREM InstanceInvariance == AlgorithmSpec => []Instance
<1>1. AlgorithmInit => Instance
  BY DirectoriesAssumption DEF AlgorithmInit, Instance
<1>2. Instance /\ [UNCHANGED vars]_vars => Instance'
  BY DEF Instance, vars, SortedNames, NameKey, Listed, LiveSlots
<1> QED BY <1>1, <1>2, PTL DEF AlgorithmSpec

(* The index is in name order, each live slot once, and where the names are *)
(* unique the binary search of find_entry finds exactly the slot of a name, *)
(* for every directory of every geometry (rebuild_name_order, find_entry).  *)
THEOREM NamesAreFound == AlgorithmSpec => []NameIndexFinds
<1>1. Instance => NameIndexFinds
  BY IndexFinds
<1> QED BY <1>1, InstanceInvariance, PTL

(* The walk of allocate_extent over the sorted extents of a sound directory *)
(* returns the lowest run of free blocks that is long enough, and fails     *)
(* only when there is none, for every geometry.                             *)
THEOREM AllocationIsFirstFit == AlgorithmSpec => []WalkIsFirstFit
<1>1. Instance => WalkIsFirstFit
  BY WalkFirst
<1> QED BY <1>1, InstanceInvariance, PTL

(* What validate_directory decides by comparing sorted neighbours is        *)
(* whether all extents are disjoint and all names differ.                   *)
THEOREM NeighbourChecksSuffice == AlgorithmSpec => []NeighboursSuffice
<1>1. Instance => NeighboursSuffice
  BY NeighboursEnough
<1> QED BY <1>1, InstanceInvariance, PTL

-----------------------------------------------------------------------------


(* Before the first initialisation, and after the program has ended, no    *)
(* operation is in progress.                                               *)
DownIsIdle == st = "UNINIT" => ~busy

(* The part of the invariant that says nothing of what the directory holds.*)
Typed == TypeOK /\ OneOperation /\ DownIsIdle

USE GeometryAssumption, InputAssumption

-----------------------------------------------------------------------------
(* There is a slot 0.                                                      *)
LEMMA SlotZero == 0 \in Slots
<1>1. K * D >= 2
  OBVIOUS
<1>. QED
  BY <1>1 DEF Slots

(* Block numbers are natural numbers.                                      *)
LEMMA DataBlocksNat == DataBlocks \subseteq Nat
BY DEF DataBlocks

(* The number of blocks a length needs is a natural number.                *)
LEMMA BlocksNat ==
    ASSUME NEW length \in Nat
    PROVE  blocks_needed(length) \in Nat
BY DEF blocks_needed

(* allocate_extent starts an extent at a natural number.                   *)
LEMMA AllocatedNat ==
    ASSUME NEW needed \in Nat, NEW start \in allocate_extent(needed)
    PROVE  start \in Nat
BY DataBlocksNat DEF allocate_extent, FreeStarts

(* An unused slot and a torn one hold entries.                             *)
LEMMA NoEntryType == NoEntry \in Entry /\ TornEntry \in Entry
BY DEF NoEntry, TornEntry, Entry

(* An empty directory and a torn CRC field are directories.                *)
LEMMA EmptyType == EmptyDirectory \in Directory /\ TornCrc \in Directory
BY NoEntryType DEF EmptyDirectory, TornCrc, Directory

(* Putting a block of one directory into another gives a directory.        *)
LEMMA WithBlockType ==
    ASSUME NEW onto \in Directory, NEW from \in Directory, NEW b
    PROVE  WithBlock(onto, from, b) \in Directory
BY DEF WithBlock, Directory

(* A task outside of the file system has an operation record as well.      *)
LEMMA IdleType == Idle \in Op /\ Idle.phase = "idle"
BY SlotZero, NoEntryType DEF Idle, Op, Phases, Content, Unwritten

(* An index that rebuild_name_order leaves is a sequence of slots.         *)
LEMMA OrderType ==
    ASSUME NEW dir, NEW q \in rebuild_name_order(dir)
    PROVE  q \in Seq(Slots)
BY DEF rebuild_name_order, SlotSeqs

(* The allocator of source identities keeps to its type, exhausted or not. *)
LEMMA SourceType ==
    ASSUME NEW s \in [token : Nat, cacheable : BOOLEAN, serial : Nat,
                      exhausted : BOOLEAN]
    PROVE  source_identity_allocate(s) \in
             [token : Nat, cacheable : BOOLEAN, serial : Nat, exhausted : BOOLEAN]
<1>1. CASE s.exhausted \/ s.serial = MaxSerial
  BY <1>1 DEF source_identity_allocate
<1>2. CASE ~(s.exhausted \/ s.serial = MaxSerial)
  <2>1. s.serial + 1 \in Nat
    OBVIOUS
  <2>. QED
    BY <1>2, <2>1 DEF source_identity_allocate
<1>. QED
  BY <1>1, <1>2

-----------------------------------------------------------------------------
(* Going on keeps the operation of the task that goes on the only one, and *)
(* returning leaves none.                                                  *)
LEMMA EnterKeeps ==
    ASSUME op \in [Tasks -> Op], OneOperation, NEW t \in Tasks, NEW o \in Op,
           o.phase # "idle", Active(t) \/ ~busy, Enter(t, o)
    PROVE  op' \in [Tasks -> Op] /\ busy' \in BOOLEAN /\ OneOperation'
BY DEF Enter, OneOperation, Active

(* The one operation returns: busy goes with it.                           *)
LEMMA ReturnKeeps ==
    ASSUME op \in [Tasks -> Op], OneOperation, NEW t \in Tasks, Active(t), Return(t)
    PROVE  op' \in [Tasks -> Op] /\ busy' \in BOOLEAN /\ OneOperation'
BY IdleType DEF Return, OneOperation, Active

(* A commit begins, as the one operation.                                  *)
LEMMA BeginCommitKeeps ==
    ASSUME op \in [Tasks -> Op], OneOperation, NEW t \in Tasks,
           Active(t) \/ ~busy, NEW slot \in Slots, NEW entry \in Entry,
           BeginCommit(t, slot, entry)
    PROVE  op' \in [Tasks -> Op] /\ busy' \in BOOLEAN /\ OneOperation'
<1>. DEFINE o == [Idle EXCEPT !.phase = CommitPhase(slot), !.slot = slot,
                              !.entry = entry]
<1>1. o \in Op /\ o.phase # "idle"
  BY IdleType DEF Op, Phases, CommitPhase
<1>2. Enter(t, o)
  BY DEF BeginCommit
<1>. QED
  BY <1>1, <1>2, EnterKeeps

(* A payload or a copy begins, as the one operation.                       *)
LEMMA BeginDataKeeps ==
    ASSUME op \in [Tasks -> Op], OneOperation, NEW t \in Tasks, ~busy,
           NEW slot \in Slots, NEW entry \in Entry, NEW phase \in {"payload", "fetch"},
           NEW bytes \in Payloads \cup {NoPayload}, NEW from \in Nat,
           BeginData(t, slot, entry, phase, bytes, from)
    PROVE  op' \in [Tasks -> Op] /\ busy' \in BOOLEAN /\ OneOperation'
<1>. DEFINE o == [Idle EXCEPT !.phase = phase, !.slot = slot, !.entry = entry,
                              !.bytes = bytes, !.from = from, !.end = entry.count]
<1>1. CASE entry.count = 0
  BY <1>1, BeginCommitKeeps DEF BeginData
<1>2. CASE entry.count # 0
  <2>1. entry.count \in Nat
    BY DEF Entry
  <2>2. o \in Op /\ o.phase # "idle"
    BY <2>1, IdleType DEF Op, Phases
  <2>3. Enter(t, o)
    BY <1>2 DEF BeginData
  <2>. QED
    BY <2>2, <2>3, EnterKeeps
<1>. QED
  BY <1>1, <1>2

(* fault_io and ClearCache leave well-typed variables.                     *)
LEMMA FaultType ==
    ASSUME TypeOK, fault_io
    PROVE  /\ st' = "FAULTED"
           /\ source' \in [token : Nat, cacheable : BOOLEAN, serial : Nat,
                           exhausted : BOOLEAN]
BY SourceType DEF TypeOK, fault_io

(* A cleared cache is a directory, and its index a sequence of slots.      *)
LEMMA ClearType ==
    ASSUME ClearCache
    PROVE  cache' \in [dir : Directory, crc : Directory] /\ order' \in Seq(Slots)
BY EmptyType DEF ClearCache

-----------------------------------------------------------------------------
(* The initial states are well typed, and nothing is in progress.          *)
LEMMA Initially == Init => Typed
<1>. SUFFICES ASSUME Init PROVE Typed
  OBVIOUS
<1>1. disk \in [dir : Directory, crc : Directory]
  BY ImageAssumption DEF Init
<1>2. data \in [DataBlocks -> Content]
  BY DEF Init, Content, Unwritten
<1>3. cache \in [dir : Directory, crc : Directory] /\ order \in Seq(Slots)
  BY EmptyType DEF Init
<1>4. op \in [Tasks -> Op] /\ OneOperation
  BY IdleType DEF Init, OneOperation, Active
<1>. QED
  BY <1>1, <1>2, <1>3, <1>4 DEF Init, Typed, TypeOK, DownIsIdle, FirstSource, NothingHeld

(* find_entry returns slots.                                               *)
LEMMA FoundSlot ==
    ASSUME TypeOK, NEW n, NEW slot \in find_entry(n)
    PROVE  slot \in Slots
<1>1. PICK k \in 1 .. Len(order) : slot = order[k]
  BY DEF find_entry
<1>. QED
  BY <1>1 DEF TypeOK

(* The cache holds an entry in every slot.                                 *)
LEMMA CachedEntry ==
    ASSUME TypeOK, NEW slot \in Slots
    PROVE  cache.dir[slot] \in Entry
BY DEF TypeOK, Directory

(* An instance is initialised again only when nothing is in progress.      *)
LEMMA InitDirectoryStep ==
    ASSUME Typed, NEW t \in Tasks, InitDirectory(t)
    PROVE  Typed'
<1>1. ~busy
  BY DEF Typed, DownIsIdle, InitDirectory
<1>2. st' = "UNMOUNTED" /\ busy' = FALSE /\ UNCHANGED <<medium, op, held>>
  BY DEF InitDirectory
<1>3. /\ cache' \in [dir : Directory, crc : Directory] /\ order' \in Seq(Slots)
      /\ capacity_blocks' = 0
      /\ source' \in [token : Nat, cacheable : BOOLEAN, serial : Nat, exhausted : BOOLEAN]
  BY ClearType, SourceType DEF InitDirectory, Typed, TypeOK
<1>. QED
  BY <1>1, <1>2, <1>3 DEF Typed, TypeOK, OneOperation, DownIsIdle, Active, medium

(* unmount changes no operation: it is refused while one is in progress.   *)
LEMMA UnmountStep ==
    ASSUME Typed, NEW t \in Tasks, Unmount(t)
    PROVE  Typed'
BY ClearType, SourceType DEF Typed, TypeOK, OneOperation, DownIsIdle, Active, Unmount, medium

(* mount enters with its capacity callback.                                *)
LEMMA MountBeginStep ==
    ASSUME Typed, NEW t \in Tasks, MountBegin(t)
    PROVE  Typed'
<1>. DEFINE o == [Idle EXCEPT !.phase = "capacity"]
<1>1. o \in Op /\ o.phase # "idle" /\ Enter(t, o) /\ ~busy
  BY IdleType DEF Op, Phases, MountBegin, Callable
<1>2. op' \in [Tasks -> Op] /\ busy' \in BOOLEAN /\ OneOperation'
  BY <1>1, EnterKeeps DEF Typed, TypeOK
<1>3. cache' \in [dir : Directory, crc : Directory] /\ order' \in Seq(Slots)
  BY ClearType DEF MountBegin
<1>. QED
  BY <1>2, <1>3 DEF Typed, TypeOK, DownIsIdle, MountBegin, Callable, medium

(* An observer changes only what it holds.                                 *)
LEMMA ObserveSourceStep ==
    ASSUME Typed, NEW t \in Tasks, ObserveSource(t)
    PROVE  Typed'
<1>1. held'.token \in Nat
  BY DEF Typed, TypeOK, ObserveSource, NothingHeld
<1>. QED
  BY <1>1 DEF Typed, TypeOK, OneOperation, DownIsIdle, Active, ObserveSource, medium

(* create enters with its first data block, or with its commit.            *)
LEMMA CreateStep ==
    ASSUME Typed, NEW t \in Tasks, NEW n \in Names, NEW length \in Sizes, NEW bytes \in Payloads,
           Create(t, n, length, bytes)
    PROVE  Typed'
<1>1. ~busy /\ st = "MOUNTED"
  BY DEF Create, operation_guard, Callable
<1>2. op' \in [Tasks -> Op] /\ busy' \in BOOLEAN /\ OneOperation'
  <2>1. PICK slot \in find_free_slot, start \in allocate_extent(blocks_needed(length)) :
          BeginData(t, slot, [name |-> n, size |-> length, start |-> start,
                              count |-> blocks_needed(length)], "payload", bytes, 0)
    BY DEF Create
  <2>2. slot \in Slots /\ length \in Nat /\ blocks_needed(length) \in Nat
    BY BlocksNat DEF find_free_slot
  <2>3. start \in Nat
    BY <2>2, AllocatedNat
  <2>4. [name |-> n, size |-> length, start |-> start,
         count |-> blocks_needed(length)] \in Entry
    BY <2>2, <2>3 DEF Entry
  <2>. QED
    BY <1>1, <2>1, <2>2, <2>4, BeginDataKeeps DEF Typed, TypeOK
<1>3. order' \in Seq(Slots)
  BY OrderType DEF Create, RestoreNameOrder, Typed, TypeOK
<1>. QED
  BY <1>1, <1>2, <1>3 DEF Typed, TypeOK, DownIsIdle, Create, medium

(* replace enters with its first data block, or with its commit.           *)
LEMMA ReplaceStep ==
    ASSUME Typed, NEW t \in Tasks, NEW n \in Names, NEW length \in Sizes, NEW bytes \in Payloads,
           Replace(t, n, length, bytes)
    PROVE  Typed'
<1>1. ~busy /\ st = "MOUNTED"
  BY DEF Replace, operation_guard, Callable
<1>2. op' \in [Tasks -> Op] /\ busy' \in BOOLEAN /\ OneOperation'
  <2>1. PICK slot \in find_entry(n), start \in allocate_extent(blocks_needed(length)) :
          BeginData(t, slot, [name |-> cache.dir[slot].name, size |-> length,
                              start |-> start, count |-> blocks_needed(length)],
                    "payload", bytes, 0)
    BY DEF Replace
  <2>2. slot \in Slots /\ length \in Nat /\ blocks_needed(length) \in Nat
    BY BlocksNat, FoundSlot DEF Typed
  <2>3. start \in Nat
    BY <2>2, AllocatedNat
  <2>4. [name |-> cache.dir[slot].name, size |-> length, start |-> start,
         count |-> blocks_needed(length)] \in Entry
    BY <2>2, <2>3, CachedEntry DEF Typed, Entry
  <2>. QED
    BY <1>1, <2>1, <2>2, <2>4, BeginDataKeeps DEF Typed, TypeOK
<1>3. order' \in Seq(Slots)
  BY OrderType DEF Replace, RestoreNameOrder, Typed, TypeOK
<1>. QED
  BY <1>1, <1>2, <1>3 DEF Typed, TypeOK, DownIsIdle, Replace, medium

(* copy enters by fetching its first block, or with its commit.            *)
LEMMA CopyStep ==
    ASSUME Typed, NEW t \in Tasks, NEW src \in Names, NEW dst \in Names, Copy(t, src, dst)
    PROVE  Typed'
<1>1. ~busy /\ st = "MOUNTED"
  BY DEF Copy, operation_guard, Callable
<1>2. op' \in [Tasks -> Op] /\ busy' \in BOOLEAN /\ OneOperation'
  <2>0. PICK from \in find_entry(src) :
          \E slot \in find_free_slot :
          \E start \in allocate_extent(cache.dir[from].count) :
             BeginData(t, slot, [cache.dir[from] EXCEPT !.name = dst, !.start = start],
                       "fetch", NoPayload, cache.dir[from].start)
    BY DEF Copy
  <2>1. PICK slot \in find_free_slot, start \in allocate_extent(cache.dir[from].count) :
          BeginData(t, slot, [cache.dir[from] EXCEPT !.name = dst, !.start = start],
                    "fetch", NoPayload, cache.dir[from].start)
    BY <2>0
  <2>2. slot \in Slots /\ from \in Slots
    BY FoundSlot DEF Typed, find_free_slot
  <2>3. cache.dir[from] \in Entry /\ cache.dir[from].count \in Nat
        /\ cache.dir[from].start \in Nat
    BY <2>2, CachedEntry DEF Typed, Entry
  <2>4. start \in Nat
    BY <2>3, AllocatedNat
  <2>5. [cache.dir[from] EXCEPT !.name = dst, !.start = start] \in Entry
    <3>1. dst \in Int
      OBVIOUS
    <3>. QED
      BY <2>3, <2>4, <3>1 DEF Entry
  <2>. QED
    BY <1>1, <2>1, <2>2, <2>3, <2>5, BeginDataKeeps DEF Typed, TypeOK
<1>3. order' \in Seq(Slots)
  BY OrderType DEF Copy, RestoreNameOrder, Typed, TypeOK
<1>. QED
  BY <1>1, <1>2, <1>3 DEF Typed, TypeOK, DownIsIdle, Copy, medium

(* remove enters with its commit.                                          *)
LEMMA RemoveStep ==
    ASSUME Typed, NEW t \in Tasks, NEW n \in Names, Remove(t, n)
    PROVE  Typed'
<1>1. ~busy /\ st = "MOUNTED"
  BY DEF Remove, operation_guard, Callable
<1>2. PICK slot \in find_entry(n) : BeginCommit(t, slot, NoEntry)
  BY DEF Remove
<1>3. slot \in Slots
  BY FoundSlot DEF Typed
<1>4. op' \in [Tasks -> Op] /\ busy' \in BOOLEAN /\ OneOperation'
  BY <1>1, <1>2, <1>3, NoEntryType, BeginCommitKeeps DEF Typed, TypeOK
<1>. QED
  BY <1>1, <1>4 DEF Typed, TypeOK, DownIsIdle, Remove, medium

(* rename enters with its commit.                                          *)
LEMMA RenameStep ==
    ASSUME Typed, NEW t \in Tasks, NEW old \in Names, NEW new \in Names, Rename(t, old, new)
    PROVE  Typed'
<1>1. ~busy /\ st = "MOUNTED"
  BY DEF Rename, operation_guard, Callable
<1>2. PICK slot \in find_entry(old) :
        BeginCommit(t, slot, [cache.dir[slot] EXCEPT !.name = new])
  BY DEF Rename
<1>3. slot \in Slots /\ cache.dir[slot] \in Entry
  BY FoundSlot, CachedEntry DEF Typed
<1>4. [cache.dir[slot] EXCEPT !.name = new] \in Entry
  BY <1>3 DEF Entry
<1>5. op' \in [Tasks -> Op] /\ busy' \in BOOLEAN /\ OneOperation'
  BY <1>1, <1>2, <1>3, <1>4, BeginCommitKeeps DEF Typed, TypeOK
<1>. QED
  BY <1>1, <1>5 DEF Typed, TypeOK, DownIsIdle, Rename, medium

(* read enters with the first block it needs.                              *)
LEMMA ReadStep ==
    ASSUME Typed, NEW t \in Tasks, NEW n \in Names, NEW first \in Nat, NEW last \in Nat,
           Read(t, n, first, last)
    PROVE  Typed'
<1>1. ~busy /\ st = "MOUNTED"
  BY DEF Read, operation_guard, Callable
<1>2. PICK slot \in find_entry(n) :
        Enter(t, [Idle EXCEPT !.phase = "read", !.slot = slot,
                              !.entry = cache.dir[slot], !.i = first, !.end = last + 1])
  BY DEF Read
<1>3. slot \in Slots /\ cache.dir[slot] \in Entry
  BY FoundSlot, CachedEntry DEF Typed
<1>. DEFINE o == [Idle EXCEPT !.phase = "read", !.slot = slot,
                              !.entry = cache.dir[slot], !.i = first, !.end = last + 1]
<1>4. o \in Op /\ o.phase # "idle"
  <2>1. last + 1 \in Nat
    OBVIOUS
  <2>2. "read" \in Phases /\ "read" # "idle"
    BY DEF Phases
  <2>. QED
    BY <1>3, <2>1, <2>2, IdleType DEF Op
<1>5. op' \in [Tasks -> Op] /\ busy' \in BOOLEAN /\ OneOperation'
  BY <1>1, <1>2, <1>4, EnterKeeps DEF Typed, TypeOK
<1>. QED
  BY <1>1, <1>5 DEF Typed, TypeOK, DownIsIdle, Read, medium

-----------------------------------------------------------------------------
(* The callbacks.  NextBlock stays in the operation, whatever comes next.  *)
LEMMA NextBlockKeeps ==
    ASSUME op \in [Tasks -> Op], OneOperation, NEW t \in Tasks, Active(t),
           NEW phase \in {"payload", "fetch"}, NextBlock(t, phase)
    PROVE  op' \in [Tasks -> Op] /\ busy' \in BOOLEAN /\ OneOperation'
<1>. DEFINE o == [op[t] EXCEPT !.phase = phase, !.i = op[t].i + 1]
<1>1. op[t] \in Op
  OBVIOUS
<1>2. CASE op[t].i + 1 < op[t].end
  <2>1. op[t].i + 1 \in Nat /\ phase \in Phases /\ phase # "idle"
    BY <1>1 DEF Op, Phases
  <2>2. o \in Op /\ o.phase # "idle"
    BY <1>1, <2>1 DEF Op
  <2>. QED
    BY <1>2, <2>2, EnterKeeps DEF NextBlock
<1>3. CASE ~(op[t].i + 1 < op[t].end)
  <2>1. op[t].slot \in Slots /\ op[t].entry \in Entry
    BY <1>1 DEF Op
  <2>. QED
    BY <1>3, <2>1, BeginCommitKeeps DEF NextBlock
<1>. QED
  BY <1>2, <1>3

(* The directory with an operation's entry in place is a directory.        *)
LEMMA EditedType ==
    ASSUME TypeOK, NEW t \in Tasks
    PROVE  Edited(t) \in Directory
BY DEF TypeOK, Edited, Directory, Op

(* The capacity answers: the header is read next.                          *)
LEMMA MountCapacityStep ==
    ASSUME Typed, NEW t \in Tasks, MountCapacity(t)
    PROVE  Typed'
<1>1. Active(t) /\ op[t] \in Op /\ busy /\ st # "UNINIT"
  BY DEF Typed, TypeOK, OneOperation, DownIsIdle, Active, MountCapacity
<1>. DEFINE o == [op[t] EXCEPT !.phase = "header"]
<1>2. op' \in [Tasks -> Op] /\ busy' \in BOOLEAN /\ OneOperation'
  <2>1. o \in Op /\ o.phase # "idle"
    BY <1>1 DEF Op, Phases
  <2>2. CASE Enter(t, o)
    BY <1>1, <2>1, <2>2, EnterKeeps DEF Typed, TypeOK
  <2>3. CASE Return(t)
    BY <1>1, <2>3, ReturnKeeps DEF Typed, TypeOK
  <2>. QED
    BY <2>2, <2>3 DEF MountCapacity
<1>3. cache' \in [dir : Directory, crc : Directory] /\ order' \in Seq(Slots)
  BY ClearType DEF Typed, TypeOK, MountCapacity
<1>. QED
  BY <1>1, <1>2, <1>3 DEF Typed, TypeOK, DownIsIdle, MountCapacity, medium

(* The outcome of a mount: mounted with the cache it read, or a clear cache.  *)
LEMMA VerdictKeeps ==
    ASSUME Typed, NEW t \in Tasks, Active(t), NEW d \in [dir : Directory, crc : Directory],
           MountVerdict(t, d), UNCHANGED <<medium, held>>
    PROVE  Typed'
<1>1. op' \in [Tasks -> Op] /\ busy' \in BOOLEAN /\ OneOperation' /\ busy' = FALSE
  BY ReturnKeeps DEF Typed, TypeOK, MountVerdict, Return
<1>2. CASE validate_directory(d)
  <2>1. /\ cache' = d /\ order' \in Seq(Slots) /\ st' = "MOUNTED"
        /\ capacity_blocks' = Capacity
        /\ source' \in [token : Nat, cacheable : BOOLEAN, serial : Nat,
                        exhausted : BOOLEAN]
    BY <1>2, OrderType, SourceType DEF Typed, TypeOK, MountVerdict
  <2>. QED
    BY <1>1, <2>1 DEF Typed, TypeOK, DownIsIdle, medium
<1>3. CASE ~validate_directory(d)
  <2>1. /\ cache' \in [dir : Directory, crc : Directory] /\ order' \in Seq(Slots)
        /\ UNCHANGED <<st, capacity_blocks, source>>
    BY <1>3, ClearType DEF MountVerdict
  <2>. QED
    BY <1>1, <2>1 DEF Typed, TypeOK, DownIsIdle, medium
<1>. QED
  BY <1>2, <1>3

(* Block 0 is refused, or is the whole directory, or is followed by the rest.*)
LEMMA MountReadHeaderStep ==
    ASSUME Typed, NEW t \in Tasks, MountReadHeader(t)
    PROVE  Typed'
<1>1. Active(t) /\ op[t] \in Op /\ busy /\ st # "UNINIT"
  BY DEF Typed, TypeOK, OneOperation, DownIsIdle, Active, MountReadHeader
<1>. DEFINE d == [dir |-> WithBlock(cache.dir, disk.dir, 0), crc |-> disk.crc]
<1>2. d \in [dir : Directory, crc : Directory]
  BY WithBlockType DEF Typed, TypeOK
<1>3. UNCHANGED <<medium, held>>
  BY DEF MountReadHeader
<1>4. CASE Return(t) /\ ClearCache /\ UNCHANGED <<st, capacity_blocks, source>>
  <2>1. op' \in [Tasks -> Op] /\ busy' \in BOOLEAN /\ OneOperation'
    BY <1>1, <1>4, ReturnKeeps DEF Typed, TypeOK
  <2>2. cache' \in [dir : Directory, crc : Directory] /\ order' \in Seq(Slots)
    BY <1>4, ClearType
  <2>. QED
    BY <1>1, <1>3, <1>4, <2>1, <2>2 DEF Typed, TypeOK, DownIsIdle, medium
<1>5. CASE MountVerdict(t, d)
  BY <1>1, <1>2, <1>3, <1>5, VerdictKeeps
<1>6. CASE /\ cache' = d
           /\ Enter(t, [op[t] EXCEPT !.phase = "directory", !.i = 1])
           /\ UNCHANGED <<st, order, capacity_blocks, source>>
  <2>1. [op[t] EXCEPT !.phase = "directory", !.i = 1] \in Op
    BY <1>1 DEF Op, Phases
  <2>2. [op[t] EXCEPT !.phase = "directory", !.i = 1].phase # "idle"
    BY <1>1 DEF Op
  <2>3. op' \in [Tasks -> Op] /\ busy' \in BOOLEAN /\ OneOperation'
    BY <1>1, <1>6, <2>1, <2>2, EnterKeeps DEF Typed, TypeOK
  <2>. QED
    BY <1>1, <1>2, <1>3, <1>6, <2>3 DEF Typed, TypeOK, DownIsIdle, medium
<1>. QED
  BY <1>4, <1>5, <1>6 DEF MountReadHeader

(* The next directory block, or the verdict after the last.                *)
LEMMA MountReadDirectoryStep ==
    ASSUME Typed, NEW t \in Tasks, MountReadDirectory(t)
    PROVE  Typed'
<1>1. Active(t) /\ op[t] \in Op /\ busy /\ st # "UNINIT"
  BY DEF Typed, TypeOK, OneOperation, DownIsIdle, Active, MountReadDirectory
<1>. DEFINE d == [cache EXCEPT !.dir = WithBlock(cache.dir, disk.dir, op[t].i)]
            o == [op[t] EXCEPT !.i = op[t].i + 1]
<1>2. d \in [dir : Directory, crc : Directory]
  BY WithBlockType DEF Typed, TypeOK
<1>3. UNCHANGED <<medium, held>>
  BY DEF MountReadDirectory
<1>4. CASE op[t].i + 1 < D
  <2>1. o \in Op /\ o.phase # "idle"
    BY <1>1 DEF Op, Active
  <2>2. /\ cache' = d /\ Enter(t, o)
        /\ UNCHANGED <<st, order, capacity_blocks, source>>
    BY <1>4 DEF MountReadDirectory
  <2>3. op' \in [Tasks -> Op] /\ busy' \in BOOLEAN /\ OneOperation'
    BY <1>1, <2>1, <2>2, EnterKeeps DEF Typed, TypeOK
  <2>. QED
    BY <1>1, <1>2, <1>3, <2>2, <2>3 DEF Typed, TypeOK, DownIsIdle, medium
<1>5. CASE ~(op[t].i + 1 < D)
  <2>1. MountVerdict(t, d)
    BY <1>5 DEF MountReadDirectory
  <2>. QED
    BY <1>1, <1>2, <1>3, <2>1, VerdictKeeps
<1>. QED
  BY <1>4, <1>5

(* A mount that fails faults the instance and clears the cache.            *)
LEMMA MountFailsStep ==
    ASSUME Typed, NEW t \in Tasks, MountFails(t)
    PROVE  Typed'
<1>1. Active(t) /\ op[t] \in Op /\ busy /\ st # "UNINIT"
  BY DEF Typed, TypeOK, OneOperation, DownIsIdle, Active, MountFails
<1>2. Return(t) /\ fault_io /\ ClearCache
  BY DEF MountFails
<1>3. op' \in [Tasks -> Op] /\ busy' \in BOOLEAN /\ OneOperation'
  BY <1>1, <1>2, ReturnKeeps DEF Typed, TypeOK
<1>. QED
  BY <1>2, <1>3, FaultType, ClearType DEF Typed, TypeOK, DownIsIdle, MountFails, medium

(* A block of the caller's buffer goes to the medium.                      *)
LEMMA WritePayloadStep ==
    ASSUME Typed, NEW t \in Tasks, WritePayload(t)
    PROVE  Typed'
<1>1. Active(t) /\ op[t] \in Op /\ busy /\ st # "UNINIT"
  BY DEF Typed, TypeOK, OneOperation, DownIsIdle, Active, WritePayload
<1>2. op' \in [Tasks -> Op] /\ busy' \in BOOLEAN /\ OneOperation'
  BY <1>1, NextBlockKeeps DEF Typed, TypeOK, WritePayload
<1>3. <<op[t].bytes, op[t].i>> \in Content
  BY <1>1 DEF Op, Content
<1>4. data' \in [DataBlocks -> Content]
  BY <1>3 DEF Typed, TypeOK, WritePayload
<1>. QED
  BY <1>1, <1>2, <1>4 DEF Typed, TypeOK, DownIsIdle, WritePayload

(* A block is fetched from inside the data area.                           *)
LEMMA CopyFetchStep ==
    ASSUME Typed, NEW t \in Tasks, CopyFetch(t), op[t].from + op[t].i \in DataBlocks
    PROVE  Typed'
<1>1. Active(t) /\ op[t] \in Op /\ busy /\ st # "UNINIT"
  BY DEF Typed, TypeOK, OneOperation, DownIsIdle, Active, CopyFetch
<1>. DEFINE o == [op[t] EXCEPT !.phase = "store", !.block = data[op[t].from + op[t].i]]
<1>2. data[op[t].from + op[t].i] \in Content
  BY DEF Typed, TypeOK
<1>3. o \in Op /\ o.phase # "idle" /\ Enter(t, o)
  BY <1>1, <1>2 DEF Op, Phases, CopyFetch
<1>4. op' \in [Tasks -> Op] /\ busy' \in BOOLEAN /\ OneOperation'
  BY <1>1, <1>3, EnterKeeps DEF Typed, TypeOK
<1>. QED
  BY <1>1, <1>4 DEF Typed, TypeOK, DownIsIdle, CopyFetch, medium

(* The block fetched goes into the new extent.                             *)
LEMMA CopyStoreStep ==
    ASSUME Typed, NEW t \in Tasks, CopyStore(t)
    PROVE  Typed'
<1>1. Active(t) /\ op[t] \in Op /\ busy /\ st # "UNINIT"
  BY DEF Typed, TypeOK, OneOperation, DownIsIdle, Active, CopyStore
<1>2. op' \in [Tasks -> Op] /\ busy' \in BOOLEAN /\ OneOperation'
  BY <1>1, NextBlockKeeps DEF Typed, TypeOK, CopyStore
<1>3. op[t].block \in Content
  BY <1>1 DEF Op
<1>4. data' \in [DataBlocks -> Content]
  BY <1>3 DEF Typed, TypeOK, CopyStore
<1>. QED
  BY <1>1, <1>2, <1>4 DEF Typed, TypeOK, DownIsIdle, CopyStore

(* The entry's block goes to the medium and to the cache.                  *)
LEMMA CommitEntryBlockStep ==
    ASSUME Typed, NEW t \in Tasks, CommitEntryBlock(t)
    PROVE  Typed'
<1>1. Active(t) /\ op[t] \in Op /\ busy /\ st # "UNINIT"
  BY DEF Typed, TypeOK, OneOperation, DownIsIdle, Active, CommitEntryBlock
<1>. DEFINE o == [op[t] EXCEPT !.phase = "publish"]
<1>2. o \in Op /\ o.phase # "idle" /\ Enter(t, o)
  BY <1>1 DEF Op, Phases, CommitEntryBlock
<1>3. op' \in [Tasks -> Op] /\ busy' \in BOOLEAN /\ OneOperation'
  BY <1>1, <1>2, EnterKeeps DEF Typed, TypeOK
<1>4. Edited(t) \in Directory
  BY EditedType DEF Typed
<1>5. WithBlock(disk.dir, Edited(t), entry_block(op[t].slot)) \in Directory
  BY <1>4, WithBlockType DEF Typed, TypeOK
<1>6. /\ disk' \in [dir : Directory, crc : Directory]
      /\ cache' \in [dir : Directory, crc : Directory]
  BY <1>4, <1>5 DEF Typed, TypeOK, CommitEntryBlock
<1>. QED
  BY <1>1, <1>3, <1>6 DEF Typed, TypeOK, DownIsIdle, CommitEntryBlock

(* Block 0 publishes the directory and ends the operation.                 *)
LEMMA CommitBlockZeroStep ==
    ASSUME Typed, NEW t \in Tasks, CommitBlockZero(t)
    PROVE  Typed'
<1>1. Active(t) /\ op[t] \in Op /\ busy /\ st # "UNINIT"
  BY DEF Typed, TypeOK, OneOperation, DownIsIdle, Active, CommitBlockZero
<1>2. Return(t)
  BY DEF CommitBlockZero
<1>3. op' \in [Tasks -> Op] /\ busy' \in BOOLEAN /\ OneOperation'
  BY <1>1, <1>2, ReturnKeeps DEF Typed, TypeOK
<1>4. Edited(t) \in Directory
  BY EditedType DEF Typed
<1>5. WithBlock(disk.dir, Edited(t), 0) \in Directory
  BY <1>4, WithBlockType DEF Typed, TypeOK
<1>6. /\ disk' \in [dir : Directory, crc : Directory]
      /\ cache' \in [dir : Directory, crc : Directory]
  BY <1>4, <1>5 DEF CommitBlockZero
<1>7. /\ order' \in Seq(Slots)
      /\ source' \in [token : Nat, cacheable : BOOLEAN, serial : Nat, exhausted : BOOLEAN]
  BY OrderType, SourceType DEF Typed, TypeOK, CommitBlockZero
<1>. QED
  BY <1>1, <1>3, <1>6, <1>7 DEF Typed, TypeOK, DownIsIdle, CommitBlockZero

(* A read goes on to its next block, or returns.                           *)
LEMMA ReadBlockStep ==
    ASSUME Typed, NEW t \in Tasks, ReadBlock(t)
    PROVE  Typed'
<1>1. Active(t) /\ op[t] \in Op /\ busy /\ st # "UNINIT"
  BY DEF Typed, TypeOK, OneOperation, DownIsIdle, Active, ReadBlock
<1>. DEFINE o == [op[t] EXCEPT !.i = op[t].i + 1]
<1>2. CASE Enter(t, o)
  <2>1. o \in Op /\ o.phase # "idle"
    BY <1>1 DEF Op, Active
  <2>. QED
    BY <1>1, <1>2, <2>1, EnterKeeps DEF Typed, TypeOK, DownIsIdle, ReadBlock, medium
<1>3. CASE Return(t)
  BY <1>1, <1>3, ReturnKeeps DEF Typed, TypeOK, DownIsIdle, ReadBlock, medium
<1>. QED
  BY <1>2, <1>3 DEF ReadBlock

(* A failed read faults the instance.                                      *)
LEMMA ReadFailsStep ==
    ASSUME Typed, NEW t \in Tasks, ReadFails(t)
    PROVE  Typed'
<1>1. Active(t) /\ op[t] \in Op /\ busy /\ st # "UNINIT"
  BY DEF Typed, TypeOK, OneOperation, DownIsIdle, Active, ReadFails
<1>2. Return(t) /\ fault_io
  BY DEF ReadFails
<1>3. op' \in [Tasks -> Op] /\ busy' \in BOOLEAN /\ OneOperation'
  BY <1>1, <1>2, ReturnKeeps DEF Typed, TypeOK
<1>. QED
  BY <1>2, <1>3, FaultType DEF Typed, TypeOK, DownIsIdle, ReadFails, medium

(* A failed write of a data block: the old, the new or no content.         *)
LEMMA DataWriteFailsStep ==
    ASSUME Typed, NEW t \in Tasks, DataWriteFails(t)
    PROVE  Typed'
<1>1. Active(t) /\ op[t] \in Op /\ busy /\ st # "UNINIT"
  BY DEF Typed, TypeOK, OneOperation, DownIsIdle, Active, DataWriteFails
<1>2. Return(t) /\ fault_io
  BY DEF DataWriteFails
<1>3. op' \in [Tasks -> Op] /\ busy' \in BOOLEAN /\ OneOperation'
  BY <1>1, <1>2, ReturnKeeps DEF Typed, TypeOK
<1>. DEFINE b == op[t].entry.start + op[t].i
            new == IF op[t].phase = "store" THEN op[t].block
                                            ELSE <<op[t].bytes, op[t].i>>
<1>4. new \in Content /\ Unwritten \in Content
  BY <1>1 DEF Op, Content, Unwritten
<1>5. PICK v \in {data[b], new, Unwritten} : data' = [data EXCEPT ![b] = v]
  BY DEF DataWriteFails
<1>6. data' \in [DataBlocks -> Content]
  BY <1>4, <1>5 DEF Typed, TypeOK
<1>. QED
  BY <1>2, <1>3, <1>6, FaultType DEF Typed, TypeOK, DownIsIdle, DataWriteFails

(* A failed write of the entry's block.                                    *)
LEMMA EntryBlockFailsStep ==
    ASSUME Typed, NEW t \in Tasks, EntryBlockFails(t)
    PROVE  Typed'
<1>1. Active(t) /\ op[t] \in Op /\ busy /\ st # "UNINIT"
  BY DEF Typed, TypeOK, OneOperation, DownIsIdle, Active, EntryBlockFails
<1>2. Return(t) /\ fault_io
  BY DEF EntryBlockFails
<1>3. op' \in [Tasks -> Op] /\ busy' \in BOOLEAN /\ OneOperation'
  BY <1>1, <1>2, ReturnKeeps DEF Typed, TypeOK
<1>4. /\ WithBlock(disk.dir, Edited(t), entry_block(op[t].slot)) \in Directory
      /\ TornSlot(t) \in Directory
  BY EditedType, WithBlockType, NoEntryType DEF Typed, TypeOK, TornSlot, Directory
<1>5. disk' \in [dir : Directory, crc : Directory]
  BY <1>4 DEF Typed, TypeOK, EntryBlockFails
<1>6. order' \in Seq(Slots)
  BY OrderType DEF EntryBlockFails
<1>. QED
  BY <1>2, <1>3, <1>5, <1>6, FaultType DEF Typed, TypeOK, DownIsIdle, EntryBlockFails

(* A failed write of block 0.                                              *)
LEMMA BlockZeroFailsStep ==
    ASSUME Typed, NEW t \in Tasks, BlockZeroFails(t)
    PROVE  Typed'
<1>1. Active(t) /\ op[t] \in Op /\ busy /\ st # "UNINIT"
  BY DEF Typed, TypeOK, OneOperation, DownIsIdle, Active, BlockZeroFails
<1>2. Return(t) /\ fault_io
  BY DEF BlockZeroFails
<1>3. op' \in [Tasks -> Op] /\ busy' \in BOOLEAN /\ OneOperation'
  BY <1>1, <1>2, ReturnKeeps DEF Typed, TypeOK
<1>4. /\ Edited(t) \in Directory /\ WithBlock(disk.dir, Edited(t), 0) \in Directory
      /\ TornSlot(t) \in Directory /\ TornCrc \in Directory
  BY EditedType, EmptyType, WithBlockType, NoEntryType DEF Typed, TypeOK, TornSlot, Directory
<1>5. disk' \in [dir : Directory, crc : Directory]
  <2>1. PICK dir \in {disk.dir, WithBlock(disk.dir, Edited(t), 0), TornSlot(t)},
             crc \in {disk.crc, Edited(t), TornCrc} :
          disk' = [dir |-> dir, crc |-> crc]
    BY DEF BlockZeroFails
  <2>. QED
    BY <1>4, <2>1 DEF Typed, TypeOK
<1>6. order' \in Seq(Slots)
  BY OrderType DEF BlockZeroFails
<1>. QED
  BY <1>2, <1>3, <1>5, <1>6, FaultType DEF Typed, TypeOK, DownIsIdle, BlockZeroFails

(* The program ends: what is left is the medium.                           *)
LEMMA CrashStep ==
    ASSUME Typed, Crash
    PROVE  Typed'
<1>1. op' \in [Tasks -> Op] /\ OneOperation'
  BY IdleType DEF Crash, OneOperation, Active
<1>2. cache' \in [dir : Directory, crc : Directory] /\ order' \in Seq(Slots)
  BY ClearType DEF Crash
<1>. QED
  BY <1>1, <1>2 DEF Typed, TypeOK, DownIsIdle, Crash, medium, FirstSource, NothingHeld

(* A step that changes no variable.                                        *)
LEMMA StutterStep ==
    ASSUME Typed, UNCHANGED vars
    PROVE  Typed'
BY DEF vars, Typed, TypeOK, OneOperation, Active, DownIsIdle

-----------------------------------------------------------------------------
(* The directory in memory.                                                *)

MountPhases == {"capacity", "header", "directory"}

(* A mounted instance allocates over the whole device.                     *)
Placed == st = "MOUNTED" => capacity_blocks = Capacity

(* The name index is good except while the commit of an edit is half done. *)
Indexed ==
    st = "MOUNTED" /\ (\A t \in Tasks : op[t].phase # "publish")
        => IsNameOrder(order, cache.dir)

(* mount works on an unmounted instance from its start to its end, and read*)
(* on a mounted one.                                                       *)
PhaseState ==
    \A t \in Tasks : /\ op[t].phase \in MountPhases => st = "UNMOUNTED"
                     /\ op[t].phase = "read" => st = "MOUNTED"

(* What an operation is about to publish is sound all along.               *)
EditsSound ==
    \A t \in Tasks : op[t].phase \in WritePhases =>
        st = "MOUNTED" /\ DirectorySound(Edited(t))

(* A copy reads inside the data area.                                      *)
CopiesInside ==
    \A t \in Tasks : op[t].phase \in {"fetch", "store"} =>
        /\ op[t].i < op[t].end
        /\ \A i \in 0 .. (op[t].end - 1) : op[t].from + i \in DataBlocks

Sound == CacheSound /\ Placed /\ Indexed /\ PhaseState /\ EditsSound
             /\ CopiesInside

IInv == Typed /\ Sound


-----------------------------------------------------------------------------
(* Entries and directories.                                                *)

(* Only an empty file needs no block.                                      *)
LEMMA BlocksZero ==
    ASSUME NEW length \in Nat
    PROVE  blocks_needed(length) = 0 <=> length = 0
<1>1. CASE length = 0
  BY <1>1 DEF blocks_needed
<1>2. CASE length # 0
  <2>1. length = BlockSize * (length \div BlockSize) + (length % BlockSize)
    OBVIOUS
  <2>2. length \div BlockSize \in Nat
    OBVIOUS
  <2>3. CASE length % BlockSize # 0
    BY <1>2, <2>2, <2>3 DEF blocks_needed
  <2>4. CASE length % BlockSize = 0
    <3>1. length \div BlockSize # 0
      BY <1>2, <2>1, <2>4
    <3>. QED
      BY <1>2, <2>2, <2>4, <3>1 DEF blocks_needed
  <2>. QED
    BY <2>3, <2>4
<1>. QED
  BY <1>1, <1>2

(* Putting a valid entry into a slot of a sound directory keeps it sound,  *)
(* if its name and its blocks are those of no other slot.                  *)
LEMMA EditKeepsSound ==
    ASSUME NEW dir \in Directory, DirectorySound(dir), NEW slot \in Slots,
           NEW e \in Entry, EntryValid(e),
           \A r \in LiveSlots(dir) : r # slot /\ e.name # 0 => dir[r].name # e.name,
           \A r \in ExtentSlots(dir) : r # slot => Extent(dir[r]) \cap Extent(e) = {}
    PROVE  DirectorySound([dir EXCEPT ![slot] = e])
<1>. DEFINE new == [dir EXCEPT ![slot] = e]
<1>1. new \in [Slots -> Entry] /\ new[slot] = e
      /\ \A r \in Slots : r # slot => new[r] = dir[r]
  BY DEF Directory
<1>2. \A s \in Slots : EntryValid(new[s])
  BY <1>1 DEF DirectorySound
<1>3. ExtentsDisjoint(new)
  <2>1. SUFFICES ASSUME NEW s \in ExtentSlots(new), NEW t \in ExtentSlots(new), s # t
                 PROVE  Extent(new[s]) \cap Extent(new[t]) = {}
    BY DEF ExtentsDisjoint
  <2>2. s \in Slots /\ t \in Slots
    BY DEF ExtentSlots, LiveSlots
  <2>3. \A r \in ExtentSlots(new) : r # slot => r \in ExtentSlots(dir)
    BY <1>1 DEF ExtentSlots, LiveSlots
  <2>4. CASE s = slot
    BY <1>1, <2>1, <2>2, <2>3, <2>4
  <2>5. CASE t = slot
    BY <1>1, <2>1, <2>2, <2>3, <2>5
  <2>6. CASE s # slot /\ t # slot
    BY <1>1, <2>1, <2>2, <2>3, <2>6 DEF DirectorySound, ExtentsDisjoint
  <2>. QED
    BY <2>4, <2>5, <2>6
<1>4. NamesUnique(new)
  <2>1. SUFFICES ASSUME NEW s \in LiveSlots(new), NEW t \in LiveSlots(new), s # t
                 PROVE  new[s].name # new[t].name
    BY DEF NamesUnique
  <2>2. s \in Slots /\ t \in Slots /\ new[s].name # 0 /\ new[t].name # 0
    BY DEF LiveSlots
  <2>3. \A r \in LiveSlots(new) : r # slot => r \in LiveSlots(dir)
    BY <1>1 DEF LiveSlots
  <2>. QED
    BY <1>1, <2>1, <2>2, <2>3 DEF DirectorySound, NamesUnique
<1>. QED
  BY <1>2, <1>3, <1>4 DEF DirectorySound

(* The search of the index finds every name the directory has, and returns *)
(* the slot that has it.                                                   *)
LEMMA SearchComplete ==
    ASSUME TypeOK, IsNameOrder(order, cache.dir), NamesUnique(cache.dir),
           NEW n \in Names, find_entry(n) = {}, NEW s \in LiveSlots(cache.dir)
    PROVE  cache.dir[s].name # n
<1>. DEFINE N(i) == cache.dir[order[i]].name
<1>0. SUFFICES ASSUME cache.dir[s].name = n PROVE FALSE
  OBVIOUS
<1>1. PICK k \in 1 .. Len(order) : s = order[k]
  BY DEF IsNameOrder
<1>2. \A i \in 1 .. Len(order) :
         order[i] \in LiveSlots(cache.dir) /\ order[i] \in Slots /\ N(i) \in Int
  <2>1. \A r \in Slots : cache.dir[r].name \in Int
    BY CachedEntry DEF Entry
  <2>2. \A i \in 1 .. Len(order) : order[i] \in LiveSlots(cache.dir)
    BY DEF IsNameOrder
  <2>. QED
    BY <2>1, <2>2 DEF LiveSlots
<1>3. ASSUME NEW i \in 1 .. Len(order)
      PROVE  IF i < k THEN N(i) < n ELSE N(i) >= n
  <2>1. n \in Int
    OBVIOUS
  <2>2. CASE i < k
    <3>1. order[i] # order[k] /\ N(i) <= N(k)
      BY <1>1, <2>2 DEF IsNameOrder
    <3>2. N(i) # N(k)
      BY <1>1, <1>2, <3>1 DEF NamesUnique
    <3>. QED
      BY <1>0, <1>1, <1>2, <2>1, <2>2, <3>1, <3>2
  <2>3. CASE i = k
    BY <1>0, <1>1, <1>2, <2>1, <2>3
  <2>4. CASE k < i
    <3>1. N(k) <= N(i)
      BY <1>1, <2>4 DEF IsNameOrder
    <3>. QED
      BY <1>0, <1>1, <1>2, <2>1, <2>4, <3>1
  <2>. QED
    BY <1>1, <2>2, <2>3, <2>4 DEF TypeOK
<1>4. order[k] \in find_entry(n)
  BY <1>0, <1>1, <1>3 DEF find_entry
<1>. QED
  BY <1>4

(* What the search returns is a live slot with the name asked for.         *)
LEMMA SearchRight ==
    ASSUME TypeOK, NEW n \in Names, NEW slot \in find_entry(n)
    PROVE  /\ slot \in LiveSlots(cache.dir) /\ cache.dir[slot].name = n
           /\ cache.dir[slot] # NoEntry
<1>1. slot \in Slots
  BY FoundSlot
<1>2. cache.dir[slot].name = n /\ n # 0
  BY DEF find_entry
<1>. QED
  BY <1>1, <1>2 DEF LiveSlots, NoEntry

(* A free slot is not live.                                                *)
LEMMA FreeSlot ==
    ASSUME NEW slot \in find_free_slot
    PROVE  slot \in Slots /\ slot \notin LiveSlots(cache.dir)
BY DEF find_free_slot, LiveSlots, NoEntry

(* What allocate_extent returns is in the data area, has room, and belongs *)
(* to no file.                                                             *)
LEMMA AllocatedFree ==
    ASSUME NEW needed \in Nat, NEW start \in allocate_extent(needed), needed # 0,
           capacity_blocks = Capacity
    PROVE  /\ start \in DataBlocks /\ needed <= Capacity - start
           /\ \A r \in LiveSlots(cache.dir) :
                 Extent(cache.dir[r]) \cap start .. (start + needed - 1) = {}
<1>1. start \in FreeStarts(needed)
  BY DEF allocate_extent
<1>. QED
  BY <1>1 DEF FreeStarts, UsedBlocks

(* A new entry with an allocated extent is valid, and shares no block with *)
(* the files there are.                                                    *)
LEMMA AllocatedEntry ==
    ASSUME TypeOK, capacity_blocks = Capacity, NEW n \in Names,
           NEW length \in Nat, NEW start \in allocate_extent(blocks_needed(length)),
           NEW e \in Entry, e.name = n, e.size = length, e.start = start,
           e.count = blocks_needed(length)
    PROVE  /\ EntryValid(e)
           /\ \A r \in LiveSlots(cache.dir) : Extent(cache.dir[r]) \cap Extent(e) = {}
<1>1. CASE length = 0
  <2>1. blocks_needed(length) = 0 /\ start = 0
    BY <1>1, BlocksZero DEF allocate_extent
  <2>. QED
    BY <1>1, <2>1 DEF EntryValid, Extent
<1>2. CASE length # 0
  <2>1. blocks_needed(length) \in Nat /\ blocks_needed(length) # 0
    BY <1>2, BlocksZero, BlocksNat
  <2>2. /\ start \in DataBlocks /\ blocks_needed(length) <= Capacity - start
        /\ \A r \in LiveSlots(cache.dir) :
              Extent(cache.dir[r]) \cap start .. (start + blocks_needed(length) - 1) = {}
    BY <2>1, AllocatedFree
  <2>3. Extent(e) = start .. (start + blocks_needed(length) - 1)
    BY <1>2 DEF Extent
  <2>4. start >= D /\ start < Capacity
    BY <2>2 DEF DataBlocks
  <2>. QED
    BY <1>2, <2>2, <2>3, <2>4 DEF EntryValid
<1>. QED
  BY <1>1, <1>2

-----------------------------------------------------------------------------
(* How a step of one task leaves the invariant.                            *)

(* Nobody else is inside of the file system.                               *)
LEMMA OthersIdle ==
    ASSUME Typed, NEW t \in Tasks, Active(t) \/ ~busy, NEW u \in Tasks, u # t
    PROVE  op[u].phase = "idle"
BY DEF Typed, OneOperation, Active

(* An operation goes on, or begins.                                        *)
LEMMA EnterSound ==
    ASSUME Typed, NEW t \in Tasks, Active(t) \/ ~busy, NEW o, Enter(t, o),
           CacheSound', Placed',
           st' = "MOUNTED" /\ o.phase # "publish" => IsNameOrder(order', cache'.dir),
           o.phase \in MountPhases => st' = "UNMOUNTED",
           o.phase = "read" => st' = "MOUNTED",
           o.phase \in WritePhases =>
              st' = "MOUNTED" /\ DirectorySound([cache'.dir EXCEPT ![o.slot] = o.entry]),
           o.phase \in {"fetch", "store"} =>
              o.i < o.end /\ \A i \in 0 .. (o.end - 1) : o.from + i \in DataBlocks
    PROVE  Sound'
<1>1. op'[t] = o
  BY DEF Enter, Typed, TypeOK
<1>2. \A u \in Tasks : u # t => op'[u].phase = "idle"
  BY OthersIdle DEF Enter, Typed, TypeOK
<1>3. Indexed'
  BY <1>1 DEF Indexed
<1>4. PhaseState'
  BY <1>1, <1>2 DEF PhaseState, MountPhases
<1>5. EditsSound'
  BY <1>1, <1>2 DEF EditsSound, WritePhases, Edited
<1>6. CopiesInside'
  BY <1>1, <1>2 DEF CopiesInside
<1>. QED
  BY <1>3, <1>4, <1>5, <1>6 DEF Sound

(* No operation is in progress afterwards.                                 *)
LEMMA QuietSound ==
    ASSUME \A u \in Tasks : op'[u].phase = "idle", CacheSound', Placed',
           st' = "MOUNTED" => IsNameOrder(order', cache'.dir)
    PROVE  Sound'
BY DEF Sound, Indexed, PhaseState, EditsSound, CopiesInside, MountPhases,
       WritePhases

(* The one operation returns.                                              *)
LEMMA ReturnSound ==
    ASSUME Typed, NEW t \in Tasks, Active(t), Return(t), CacheSound', Placed',
           st' = "MOUNTED" => IsNameOrder(order', cache'.dir)
    PROVE  Sound'
<1>1. \A u \in Tasks : op'[u].phase = "idle"
  BY OthersIdle, IdleType DEF Return, Typed, TypeOK
<1>. QED
  BY <1>1, QuietSound

(* The index that rebuild_name_order leaves is good.                       *)
LEMMA Rebuilt ==
    ASSUME NEW dir, NEW q \in rebuild_name_order(dir)
    PROVE  IsNameOrder(q, dir)
BY DEF rebuild_name_order

(* While nothing is half published the index is good.                      *)
LEMMA GoodIndex ==
    ASSUME Typed, Sound, NEW t \in Tasks, Active(t) \/ ~busy,
           op[t].phase # "publish", st = "MOUNTED"
    PROVE  IsNameOrder(order, cache.dir)
<1>1. \A u \in Tasks : op[u].phase # "publish"
  BY OthersIdle
<1>. QED
  BY <1>1 DEF Sound, Indexed

-----------------------------------------------------------------------------
(* Calls.                                                                  *)

(* An initialised instance is unmounted: nothing can be unsound.           *)
LEMMA InitDirectorySound ==
    ASSUME Typed, Sound, NEW t \in Tasks, InitDirectory(t)
    PROVE  Sound'
<1>1. ~busy /\ st' = "UNMOUNTED" /\ op' = op
  BY DEF Typed, DownIsIdle, InitDirectory
<1>2. \A u \in Tasks : op'[u].phase = "idle"
  BY <1>1 DEF Typed, OneOperation, Active
<1>. QED
  BY <1>1, <1>2, QuietSound DEF CacheSound, Placed

(* So is an instance that unmount leaves.                                  *)
LEMMA UnmountSound ==
    ASSUME Typed, Sound, NEW t \in Tasks, Unmount(t)
    PROVE  Sound'
<1>1. ~busy /\ st' = "UNMOUNTED" /\ op' = op
  BY DEF Unmount, Callable
<1>2. \A u \in Tasks : op'[u].phase = "idle"
  BY <1>1 DEF Typed, OneOperation, Active
<1>. QED
  BY <1>1, <1>2, QuietSound DEF CacheSound, Placed

(* mount begins on an unmounted instance.                                  *)
LEMMA MountBeginSound ==
    ASSUME Typed, Sound, NEW t \in Tasks, MountBegin(t)
    PROVE  Sound'
<1>. DEFINE o == [Idle EXCEPT !.phase = "capacity"]
<1>1. ~busy /\ st' = "UNMOUNTED" /\ Enter(t, o)
  BY DEF MountBegin, Callable
<1>2. o.phase = "capacity"
  BY IdleType DEF Op
<1>. QED
  BY <1>1, <1>2, EnterSound DEF CacheSound, Placed, WritePhases

(* An observer touches nothing of the file system.                         *)
LEMMA ObserveSourceSound ==
    ASSUME Typed, Sound, NEW t \in Tasks, ObserveSource(t)
    PROVE  Sound'
BY DEF ObserveSource, medium, Sound, CacheSound, Placed, Indexed, PhaseState,
       EditsSound, Edited, CopiesInside

(* A call that will publish `entry' in `slot', data first or at once.      *)
LEMMA BeginSound ==
    ASSUME Typed, Sound, NEW t \in Tasks, operation_guard(t),
           NEW slot \in Slots, NEW entry \in Entry,
           DirectorySound([cache.dir EXCEPT ![slot] = entry]),
           UNCHANGED <<st, cache, capacity_blocks>>,
           IsNameOrder(order', cache.dir),
           \/ BeginCommit(t, slot, entry)
           \/ \E bytes \in Payloads :
                 BeginData(t, slot, entry, "payload", bytes, 0)
           \/ \E from \in Nat :
                 /\ BeginData(t, slot, entry, "fetch", NoPayload, from)
                 /\ \A i \in 0 .. (entry.count - 1) : from + i \in DataBlocks
    PROVE  Sound'
<1>1. ~busy /\ st = "MOUNTED"
  BY DEF operation_guard, Callable
<1>2. CacheSound' /\ Placed'
  BY DEF Sound, CacheSound, Placed
<1>3. CASE BeginCommit(t, slot, entry)
  <2>. DEFINE o == [Idle EXCEPT !.phase = CommitPhase(slot), !.slot = slot,
                                !.entry = entry]
  <2>1. /\ o.phase \in {"entry", "publish"} /\ o.slot = slot /\ o.entry = entry
        /\ Enter(t, o)
    BY <1>3, IdleType DEF Op, CommitPhase, BeginCommit
  <2>2. o.phase \notin MountPhases /\ o.phase \notin {"fetch", "store", "read"}
    BY <2>1 DEF MountPhases
  <2>. QED
    BY <1>1, <1>2, <2>1, <2>2, EnterSound
<1>4. ASSUME NEW phase \in {"payload", "fetch"}, NEW bytes, NEW from \in Nat,
             BeginData(t, slot, entry, phase, bytes, from),
             phase = "fetch" =>
                \A i \in 0 .. (entry.count - 1) : from + i \in DataBlocks
      PROVE  Sound'
  <2>. DEFINE o == [Idle EXCEPT !.phase = phase, !.slot = slot, !.entry = entry,
                                !.bytes = bytes, !.from = from, !.end = entry.count]
  <2>1. CASE entry.count = 0
    BY <1>3, <1>4, <2>1 DEF BeginData
  <2>2. CASE entry.count # 0
    <3>1. /\ o.phase = phase /\ o.slot = slot /\ o.entry = entry /\ o.from = from
          /\ o.i = 0 /\ o.end = entry.count
      BY DEF Idle
    <3>2. Enter(t, o)
      BY <1>4, <2>2 DEF BeginData
    <3>3. entry.count \in Nat
      BY DEF Entry
    <3>4. /\ o.phase \notin MountPhases /\ o.phase \in WritePhases
          /\ o.phase # "publish" /\ o.phase # "read"
      BY <3>1 DEF MountPhases, WritePhases
    <3>5. o.phase \in {"fetch", "store"} =>
             o.i < o.end /\ \A i \in 0 .. (o.end - 1) : o.from + i \in DataBlocks
      BY <1>4, <2>2, <3>1, <3>3
    <3>. HIDE DEF o
    <3>. QED
      BY <1>1, <1>2, <3>1, <3>2, <3>4, <3>5, EnterSound
  <2>. QED
    BY <2>1, <2>2
<1>. QED
  BY <1>3, <1>4

(* What a call knows that has passed the guard.                            *)
LEMMA Admitted ==
    ASSUME Typed, Sound, NEW t \in Tasks, operation_guard(t)
    PROVE  /\ TypeOK /\ ~busy /\ st = "MOUNTED" /\ capacity_blocks = Capacity
           /\ DirectorySound(cache.dir) /\ cache.dir \in Directory
           /\ IsNameOrder(order, cache.dir) /\ NamesUnique(cache.dir)
<1>1. TypeOK /\ ~busy /\ st = "MOUNTED" /\ op[t].phase = "idle"
  BY DEF Typed, operation_guard, Callable
<1>2. IsNameOrder(order, cache.dir)
  BY <1>1, GoodIndex
<1>. QED
  BY <1>1, <1>2 DEF Sound, CacheSound, Placed, TypeOK, DirectorySound

(* allocate_extent gives the index back in order.                          *)
LEMMA Restored ==
    ASSUME IsNameOrder(order, cache.dir), NEW needed, RestoreNameOrder(needed)
    PROVE  IsNameOrder(order', cache.dir)
BY Rebuilt DEF RestoreNameOrder

(* The name is new, the slot is free, the extent is allocated.             *)
LEMMA CreateSound ==
    ASSUME Typed, Sound, NEW t \in Tasks, NEW n \in Names, NEW length \in Sizes,
           NEW bytes \in Payloads, Create(t, n, length, bytes)
    PROVE  Sound'
<1>1. operation_guard(t) /\ find_entry(n) = {}
  BY DEF Create
<1>2. PICK slot \in find_free_slot, start \in allocate_extent(blocks_needed(length)) :
        BeginData(t, slot, [name |-> n, size |-> length, start |-> start,
                            count |-> blocks_needed(length)], "payload", bytes, 0)
  BY DEF Create
<1>. DEFINE e == [name |-> n, size |-> length, start |-> start,
                  count |-> blocks_needed(length)]
<1>3. slot \in Slots /\ slot \notin LiveSlots(cache.dir) /\ length \in Nat
  BY FreeSlot
<1>4. e \in Entry
  BY <1>3, BlocksNat, AllocatedNat DEF Entry
<1>5. /\ EntryValid(e)
      /\ \A r \in LiveSlots(cache.dir) : Extent(cache.dir[r]) \cap Extent(e) = {}
  BY <1>1, <1>3, <1>4, Admitted, AllocatedEntry
<1>6. \A r \in LiveSlots(cache.dir) : cache.dir[r].name # n
  BY <1>1, Admitted, SearchComplete
<1>7. DirectorySound([cache.dir EXCEPT ![slot] = e])
  <2>. HIDE DEF e
  <2>1. e.name = n
    BY DEF e
  <2>. QED
    BY <1>1, <1>3, <1>4, <1>5, <1>6, <2>1, Admitted, EditKeepsSound DEF ExtentSlots
<1>8. IsNameOrder(order', cache.dir)
  BY <1>1, Admitted, Restored DEF Create
<1>. QED
  BY <1>1, <1>2, <1>3, <1>4, <1>7, <1>8, BeginSound DEF Create

(* The name stays; the new extent is disjoint from all, the old one included. *)
LEMMA ReplaceSound ==
    ASSUME Typed, Sound, NEW t \in Tasks, NEW n \in Names, NEW length \in Sizes,
           NEW bytes \in Payloads, Replace(t, n, length, bytes)
    PROVE  Sound'
<1>1. operation_guard(t)
  BY DEF Replace
<1>2. PICK slot \in find_entry(n), start \in allocate_extent(blocks_needed(length)) :
        BeginData(t, slot, [name |-> cache.dir[slot].name, size |-> length,
                            start |-> start, count |-> blocks_needed(length)],
                  "payload", bytes, 0)
  BY DEF Replace
<1>. DEFINE e == [name |-> cache.dir[slot].name, size |-> length, start |-> start,
                  count |-> blocks_needed(length)]
<1>3. /\ slot \in Slots /\ slot \in LiveSlots(cache.dir)
      /\ cache.dir[slot].name = n /\ length \in Nat
  BY <1>1, Admitted, SearchRight DEF LiveSlots
<1>4. e \in Entry
  BY <1>3, BlocksNat, AllocatedNat DEF Entry
<1>5. /\ EntryValid(e)
      /\ \A r \in LiveSlots(cache.dir) : Extent(cache.dir[r]) \cap Extent(e) = {}
  BY <1>1, <1>3, <1>4, Admitted, AllocatedEntry
<1>6. \A r \in LiveSlots(cache.dir) : r # slot => cache.dir[r].name # n
  BY <1>1, <1>3, Admitted DEF NamesUnique
<1>7. DirectorySound([cache.dir EXCEPT ![slot] = e])
  <2>1. e.name = n
    BY <1>3
  <2>. HIDE DEF e
  <2>. QED
    BY <1>1, <1>3, <1>4, <1>5, <1>6, <2>1, Admitted, EditKeepsSound DEF ExtentSlots
<1>8. IsNameOrder(order', cache.dir)
  BY <1>1, Admitted, Restored DEF Replace
<1>. QED
  BY <1>1, <1>2, <1>3, <1>4, <1>7, <1>8, BeginSound DEF Replace

(* An unused slot has no name and no block.                                *)
LEMMA RemoveSound ==
    ASSUME Typed, Sound, NEW t \in Tasks, NEW n \in Names, Remove(t, n)
    PROVE  Sound'
<1>1. operation_guard(t) /\ order' = order
  BY DEF Remove
<1>2. PICK slot \in find_entry(n) : BeginCommit(t, slot, NoEntry)
  BY DEF Remove
<1>3. slot \in Slots
  BY <1>1, Admitted, FoundSlot
<1>4. EntryValid(NoEntry) /\ Extent(NoEntry) = {} /\ NoEntry.name = 0
  BY DEF EntryValid, Extent, NoEntry
<1>5. DirectorySound([cache.dir EXCEPT ![slot] = NoEntry])
  BY <1>1, <1>3, <1>4, Admitted, NoEntryType, EditKeepsSound
<1>. QED
  BY <1>1, <1>2, <1>3, <1>5, Admitted, NoEntryType, BeginSound DEF Remove

(* The new name is nobody's, and the extent is the file's own.             *)
LEMMA RenameSound ==
    ASSUME Typed, Sound, NEW t \in Tasks, NEW old \in Names, NEW new \in Names,
           Rename(t, old, new)
    PROVE  Sound'
<1>1. operation_guard(t) /\ find_entry(new) = {} /\ order' = order
  BY DEF Rename
<1>2. PICK slot \in find_entry(old) :
        BeginCommit(t, slot, [cache.dir[slot] EXCEPT !.name = new])
  BY DEF Rename
<1>. DEFINE e == [cache.dir[slot] EXCEPT !.name = new]
<1>3. /\ slot \in Slots /\ slot \in LiveSlots(cache.dir) /\ cache.dir[slot] \in Entry
      /\ cache.dir[slot] # NoEntry
  BY <1>1, Admitted, SearchRight, FoundSlot, CachedEntry
<1>4. /\ e \in Entry /\ e.name = new /\ e.size = cache.dir[slot].size
      /\ e.start = cache.dir[slot].start /\ e.count = cache.dir[slot].count
  BY <1>3 DEF Entry
<1>5. EntryValid(e) /\ Extent(e) = Extent(cache.dir[slot])
  <2>1. EntryValid(cache.dir[slot])
    BY <1>1, <1>3, Admitted DEF DirectorySound
  <2>. HIDE DEF e
  <2>. QED
    BY <1>3, <1>4, <2>1 DEF EntryValid, Extent
<1>6. \A r \in LiveSlots(cache.dir) : cache.dir[r].name # new
  BY <1>1, Admitted, SearchComplete
<1>7. ASSUME NEW r \in ExtentSlots(cache.dir), r # slot
      PROVE  Extent(cache.dir[r]) \cap Extent(e) = {}
  <2>1. CASE cache.dir[slot].size = 0
    BY <1>5, <2>1 DEF Extent
  <2>2. CASE cache.dir[slot].size # 0
    <3>1. slot \in ExtentSlots(cache.dir)
      BY <1>3, <2>2 DEF ExtentSlots
    <3>. QED
      BY <1>1, <1>5, <1>7, <3>1, Admitted DEF DirectorySound, ExtentsDisjoint
  <2>. QED
    BY <2>1, <2>2
<1>8. DirectorySound([cache.dir EXCEPT ![slot] = e])
  <2>. HIDE DEF e
  <2>. QED
    BY <1>1, <1>3, <1>4, <1>5, <1>6, <1>7, Admitted, EditKeepsSound
<1>. QED
  BY <1>1, <1>2, <1>3, <1>4, <1>8, Admitted, BeginSound DEF Rename

(* A copy has a new name and an extent of its own; it reads the old one.   *)
LEMMA CopySound ==
    ASSUME Typed, Sound, NEW t \in Tasks, NEW src \in Names, NEW dst \in Names,
           Copy(t, src, dst)
    PROVE  Sound'
<1>1. operation_guard(t) /\ find_entry(dst) = {}
  BY DEF Copy
<1>2. PICK from \in find_entry(src) :
        /\ \E slot \in find_free_slot :
           \E start \in allocate_extent(cache.dir[from].count) :
              BeginData(t, slot, [cache.dir[from] EXCEPT !.name = dst, !.start = start],
                        "fetch", NoPayload, cache.dir[from].start)
        /\ RestoreNameOrder(cache.dir[from].count)
  BY DEF Copy
<1>3. PICK slot \in find_free_slot, start \in allocate_extent(cache.dir[from].count) :
        BeginData(t, slot, [cache.dir[from] EXCEPT !.name = dst, !.start = start],
                  "fetch", NoPayload, cache.dir[from].start)
  BY <1>2
<1>. DEFINE o == cache.dir[from]
            e == [cache.dir[from] EXCEPT !.name = dst, !.start = start]
<1>4. /\ slot \in Slots /\ slot \notin LiveSlots(cache.dir)
      /\ from \in Slots /\ o \in Entry /\ o # NoEntry
  BY <1>1, Admitted, FreeSlot, SearchRight, FoundSlot, CachedEntry
<1>5. o.count \in Nat /\ o.size \in Nat /\ o.start \in Nat
  BY <1>4 DEF Entry
<1>6. EntryValid(o) /\ o.count = blocks_needed(o.size)
  <2>1. EntryValid(o)
    BY <1>1, <1>4, Admitted DEF DirectorySound
  <2>. QED
    BY <1>4, <1>5, <2>1, BlocksZero DEF EntryValid
<1>7. e \in Entry /\ e.name = dst /\ e.size = o.size /\ e.start = start
      /\ e.count = o.count
  <2>1. start \in Nat
    <3>. HIDE DEF e
    <3>. QED
      BY <1>5, AllocatedNat
  <2>2. dst \in Int
    OBVIOUS
  <2>. QED
    BY <1>4, <2>1, <2>2 DEF Entry
<1>8. /\ EntryValid(e)
      /\ \A r \in LiveSlots(cache.dir) : Extent(cache.dir[r]) \cap Extent(e) = {}
  <2>. HIDE DEF e
  <2>. QED
    BY <1>1, <1>5, <1>6, <1>7, Admitted, AllocatedEntry
<1>9. \A r \in LiveSlots(cache.dir) : cache.dir[r].name # dst
  BY <1>1, Admitted, SearchComplete
<1>10. DirectorySound([cache.dir EXCEPT ![slot] = e])
  <2>. HIDE DEF e
  <2>. QED
    BY <1>1, <1>4, <1>7, <1>8, <1>9, Admitted, EditKeepsSound DEF ExtentSlots
<1>11. \A i \in 0 .. (e.count - 1) : o.start + i \in DataBlocks
  BY <1>4, <1>5, <1>6, <1>7 DEF EntryValid, DataBlocks
<1>12. IsNameOrder(order', cache.dir)
  BY <1>1, <1>2, Admitted, Restored
<1>13. UNCHANGED <<st, cache, capacity_blocks>>
  BY DEF Copy
<1>. HIDE DEF e, o
<1>14. BeginData(t, slot, e, "fetch", NoPayload, o.start)
  BY <1>3 DEF e, o
<1>. QED
  BY <1>1, <1>4, <1>5, <1>7, <1>10, <1>11, <1>12, <1>13, <1>14, BeginSound

(* A read changes nothing but its own place.                               *)
LEMMA ReadSound ==
    ASSUME Typed, Sound, NEW t \in Tasks, NEW n \in Names, NEW first \in Nat,
           NEW last \in Nat, Read(t, n, first, last)
    PROVE  Sound'
<1>1. PICK slot \in find_entry(n) :
        Enter(t, [Idle EXCEPT !.phase = "read", !.slot = slot,
                              !.entry = cache.dir[slot], !.i = first, !.end = last + 1])
  BY DEF Read
<1>. DEFINE o == [Idle EXCEPT !.phase = "read", !.slot = slot,
                              !.entry = cache.dir[slot], !.i = first, !.end = last + 1]
<1>2. o.phase = "read" /\ Enter(t, o)
  BY <1>1 DEF Idle
<1>3. operation_guard(t) /\ UNCHANGED <<st, cache, order, capacity_blocks>>
  BY DEF Read
<1>4. CacheSound' /\ Placed'
  BY <1>3 DEF Sound, CacheSound, Placed
<1>. HIDE DEF o
<1>. QED
  BY <1>2, <1>3, <1>4, Admitted, EnterSound DEF MountPhases, WritePhases

-----------------------------------------------------------------------------
(* Callbacks.                                                              *)

(* An empty directory is sound.                                            *)
LEMMA EmptySound == DirectorySound(EmptyDirectory)
<1>1. \A s \in Slots : EmptyDirectory[s] = NoEntry
  BY DEF EmptyDirectory
<1>2. LiveSlots(EmptyDirectory) = {}
  BY <1>1 DEF LiveSlots, NoEntry
<1>. QED
  BY <1>1, <1>2 DEF DirectorySound, EntryValid, ExtentsDisjoint, NamesUnique, ExtentSlots

(* The capacity is known: mount goes on unmounted.                         *)
LEMMA MountCapacitySound ==
    ASSUME Typed, Sound, NEW t \in Tasks, MountCapacity(t)
    PROVE  Sound'
<1>. DEFINE o == [op[t] EXCEPT !.phase = "header"]
<1>1. Active(t) /\ op[t] \in Op /\ st = "UNMOUNTED" /\ st' = st
  BY DEF MountCapacity, Active, Typed, TypeOK, Sound, PhaseState, MountPhases
<1>2. CASE Enter(t, o)
  <2>1. o.phase = "header"
    BY <1>1 DEF Op
  <2>. HIDE DEF o
  <2>. QED
    BY <1>1, <1>2, <2>1, EnterSound DEF CacheSound, Placed, WritePhases
<1>3. CASE Return(t)
  BY <1>1, <1>3, ReturnSound DEF CacheSound, Placed
<1>. QED
  BY <1>2, <1>3 DEF MountCapacity

(* A mount accepts only a directory it has found sound, and indexes it.    *)
LEMMA VerdictSound ==
    ASSUME Typed, Sound, NEW t \in Tasks, Active(t), st = "UNMOUNTED",
           NEW d, MountVerdict(t, d)
    PROVE  Sound'
<1>1. CASE validate_directory(d)
  <2>1. /\ cache' = d /\ IsNameOrder(order', d.dir) /\ st' = "MOUNTED"
        /\ capacity_blocks' = Capacity /\ Return(t)
    BY <1>1, Rebuilt DEF MountVerdict
  <2>2. DirectorySound(d.dir)
    BY <1>1 DEF validate_directory
  <2>. QED
    BY <2>1, <2>2, ReturnSound DEF CacheSound, Placed
<1>2. CASE ~validate_directory(d)
  BY <1>2, ReturnSound DEF MountVerdict, CacheSound, Placed
<1>. QED
  BY <1>1, <1>2

(* Block 0 is in the cache: a verdict, or the next block.                  *)
LEMMA MountReadHeaderSound ==
    ASSUME Typed, Sound, NEW t \in Tasks, MountReadHeader(t)
    PROVE  Sound'
<1>. DEFINE d == [dir |-> WithBlock(cache.dir, disk.dir, 0), crc |-> disk.crc]
            o == [op[t] EXCEPT !.phase = "directory", !.i = 1]
<1>1. Active(t) /\ op[t] \in Op /\ st = "UNMOUNTED"
  BY DEF MountReadHeader, Active, Typed, TypeOK, Sound, PhaseState, MountPhases
<1>2. CASE Return(t) /\ UNCHANGED st
  BY <1>1, <1>2, ReturnSound DEF CacheSound, Placed
<1>3. CASE MountVerdict(t, d)
  BY <1>1, <1>3, VerdictSound
<1>4. CASE Enter(t, o) /\ UNCHANGED st
  <2>1. o.phase = "directory"
    BY <1>1 DEF Op
  <2>. HIDE DEF o
  <2>. QED
    BY <1>1, <1>4, <2>1, EnterSound DEF CacheSound, Placed, WritePhases
<1>. QED
  BY <1>2, <1>3, <1>4 DEF MountReadHeader

(* A directory block is in the cache: a verdict, or the next one.          *)
LEMMA MountReadDirectorySound ==
    ASSUME Typed, Sound, NEW t \in Tasks, MountReadDirectory(t)
    PROVE  Sound'
<1>. DEFINE d == [cache EXCEPT !.dir = WithBlock(cache.dir, disk.dir, op[t].i)]
            o == [op[t] EXCEPT !.i = op[t].i + 1]
<1>1. Active(t) /\ op[t] \in Op /\ st = "UNMOUNTED" /\ op[t].phase = "directory"
  BY DEF MountReadDirectory, Active, Typed, TypeOK, Sound, PhaseState, MountPhases
<1>2. CASE MountVerdict(t, d)
  BY <1>1, <1>2, VerdictSound
<1>3. CASE Enter(t, o) /\ UNCHANGED st
  <2>1. o.phase = "directory"
    BY <1>1 DEF Op
  <2>. HIDE DEF o
  <2>. QED
    BY <1>1, <1>3, <2>1, EnterSound DEF CacheSound, Placed, WritePhases
<1>. QED
  BY <1>2, <1>3 DEF MountReadDirectory

(* A mount that fails leaves an empty directory.                           *)
LEMMA MountFailsSound ==
    ASSUME Typed, Sound, NEW t \in Tasks, MountFails(t)
    PROVE  Sound'
<1>1. Active(t) /\ Return(t) /\ st' = "FAULTED" /\ cache'.dir = EmptyDirectory
  BY DEF MountFails, Active, fault_io, ClearCache
<1>. QED
  BY <1>1, EmptySound, ReturnSound DEF CacheSound, Placed

(* After a block of data the same edit goes on, or its commit begins.      *)
LEMMA NextBlockSound ==
    ASSUME Typed, Sound, NEW t \in Tasks, NEW phase \in {"payload", "fetch"},
           op[t].phase \in {"payload", "store"},
           phase = "fetch" => op[t].phase = "store",
           NextBlock(t, phase), UNCHANGED <<st, cache, order, capacity_blocks>>
    PROVE  Sound'
<1>1. Active(t) /\ op[t] \in Op /\ op[t].phase \in WritePhases
  BY DEF Active, WritePhases, Typed, TypeOK
<1>2. st = "MOUNTED" /\ DirectorySound([cache.dir EXCEPT ![op[t].slot] = op[t].entry])
  BY <1>1 DEF Sound, EditsSound, Edited
<1>3. IsNameOrder(order, cache.dir)
  BY <1>1, <1>2, GoodIndex
<1>4. CacheSound' /\ Placed'
  BY DEF Sound, CacheSound, Placed
<1>5. CASE op[t].i + 1 < op[t].end
  <2>. DEFINE o == [op[t] EXCEPT !.phase = phase, !.i = op[t].i + 1]
  <2>1. /\ o.phase = phase /\ o.slot = op[t].slot /\ o.entry = op[t].entry
        /\ o.i = op[t].i + 1 /\ o.end = op[t].end /\ o.from = op[t].from
    BY <1>1 DEF Op
  <2>2. Enter(t, o)
    BY <1>5 DEF NextBlock
  <2>3. o.phase = "fetch" =>
           o.i < o.end /\ \A i \in 0 .. (o.end - 1) : o.from + i \in DataBlocks
    BY <1>5, <2>1 DEF Sound, CopiesInside
  <2>4. o.phase \notin MountPhases /\ o.phase \notin {"publish", "read", "store"}
    BY <2>1 DEF MountPhases
  <2>. HIDE DEF o
  <2>. QED
    BY <1>1, <1>2, <1>3, <1>4, <2>1, <2>2, <2>3, <2>4, EnterSound
<1>6. CASE ~(op[t].i + 1 < op[t].end)
  <2>. DEFINE o == [Idle EXCEPT !.phase = CommitPhase(op[t].slot),
                                !.slot = op[t].slot, !.entry = op[t].entry]
  <2>1. /\ o.phase \in {"entry", "publish"} /\ o.slot = op[t].slot
        /\ o.entry = op[t].entry
    BY DEF Idle, CommitPhase
  <2>2. Enter(t, o)
    BY <1>6 DEF NextBlock, BeginCommit
  <2>3. o.phase \notin MountPhases /\ o.phase \notin {"fetch", "read", "store"}
    BY <2>1 DEF MountPhases
  <2>. HIDE DEF o
  <2>. QED
    BY <1>1, <1>2, <1>3, <1>4, <2>1, <2>2, <2>3, EnterSound
<1>. QED
  BY <1>5, <1>6

(* A written block changes no directory.                                   *)
LEMMA WritePayloadSound ==
    ASSUME Typed, Sound, NEW t \in Tasks, WritePayload(t)
    PROVE  Sound'
BY NextBlockSound DEF WritePayload

(* A stored block changes no directory.                                    *)
LEMMA CopyStoreSound ==
    ASSUME Typed, Sound, NEW t \in Tasks, CopyStore(t)
    PROVE  Sound'
BY NextBlockSound DEF CopyStore

(* A fetched block changes no directory.                                   *)
LEMMA CopyFetchSound ==
    ASSUME Typed, Sound, NEW t \in Tasks, CopyFetch(t)
    PROVE  Sound'
<1>. DEFINE o == [op[t] EXCEPT !.phase = "store", !.block = data[op[t].from + op[t].i]]
<1>1. /\ Active(t) /\ op[t] \in Op /\ op[t].phase = "fetch" /\ Enter(t, o)
      /\ UNCHANGED <<st, cache, order, capacity_blocks>>
  BY DEF CopyFetch, Active, Typed, TypeOK
<1>2. st = "MOUNTED" /\ DirectorySound([cache.dir EXCEPT ![op[t].slot] = op[t].entry])
  BY <1>1 DEF Sound, EditsSound, Edited, WritePhases
<1>3. IsNameOrder(order, cache.dir)
  BY <1>1, <1>2, GoodIndex
<1>4. CacheSound' /\ Placed'
  BY <1>1 DEF Sound, CacheSound, Placed
<1>5. /\ o.phase = "store" /\ o.slot = op[t].slot /\ o.entry = op[t].entry
      /\ o.i = op[t].i /\ o.end = op[t].end /\ o.from = op[t].from
  BY <1>1 DEF Op
<1>6. o.i < o.end /\ \A i \in 0 .. (o.end - 1) : o.from + i \in DataBlocks
  BY <1>1, <1>5 DEF Sound, CopiesInside
<1>. HIDE DEF o
<1>. QED
  BY <1>1, <1>2, <1>3, <1>4, <1>5, <1>6, EnterSound DEF MountPhases

(* Once the entry is in the cache the edit is what the cache holds.        *)
LEMMA EditTwice ==
    ASSUME TypeOK, NEW t \in Tasks
    PROVE  [Edited(t) EXCEPT ![op[t].slot] = op[t].entry] = Edited(t)
BY DEF TypeOK, Edited, Directory, Op

(* The cache takes over the edit, which is sound, before the CRC does.     *)
LEMMA CommitEntryBlockSound ==
    ASSUME Typed, Sound, NEW t \in Tasks, CommitEntryBlock(t)
    PROVE  Sound'
<1>. DEFINE o == [op[t] EXCEPT !.phase = "publish"]
<1>1. /\ Active(t) /\ op[t] \in Op /\ op[t].phase = "entry" /\ Enter(t, o)
      /\ UNCHANGED <<st, capacity_blocks>> /\ cache'.dir = Edited(t)
  BY DEF CommitEntryBlock, Active, Typed, TypeOK
<1>2. st = "MOUNTED" /\ DirectorySound(Edited(t))
  BY <1>1 DEF Sound, EditsSound, WritePhases
<1>3. CacheSound' /\ Placed'
  BY <1>1, <1>2 DEF Sound, CacheSound, Placed
<1>4. o.phase = "publish" /\ o.slot = op[t].slot /\ o.entry = op[t].entry
  BY <1>1 DEF Op
<1>5. DirectorySound([cache'.dir EXCEPT ![o.slot] = o.entry])
  BY <1>1, <1>2, <1>4, EditTwice DEF Typed
<1>. HIDE DEF o
<1>. QED
  BY <1>1, <1>2, <1>3, <1>4, <1>5, EnterSound DEF MountPhases

(* The edit is published, and the index rebuilt over it.                   *)
LEMMA CommitBlockZeroSound ==
    ASSUME Typed, Sound, NEW t \in Tasks, CommitBlockZero(t)
    PROVE  Sound'
<1>1. /\ Active(t) /\ Return(t) /\ cache'.dir = Edited(t)
      /\ IsNameOrder(order', Edited(t)) /\ UNCHANGED <<st, capacity_blocks>>
  BY Rebuilt DEF CommitBlockZero, Active
<1>2. DirectorySound(Edited(t))
  BY DEF CommitBlockZero, Sound, EditsSound, WritePhases
<1>3. CacheSound' /\ Placed'
  BY <1>1, <1>2 DEF Sound, CacheSound, Placed
<1>. QED
  BY <1>1, <1>3, ReturnSound

(* A read of a further block changes nothing.                              *)
LEMMA ReadBlockSound ==
    ASSUME Typed, Sound, NEW t \in Tasks, ReadBlock(t)
    PROVE  Sound'
<1>. DEFINE o == [op[t] EXCEPT !.i = op[t].i + 1]
<1>1. /\ Active(t) /\ op[t] \in Op /\ op[t].phase = "read" /\ st = "MOUNTED"
      /\ UNCHANGED <<st, cache, order, capacity_blocks>>
  BY DEF ReadBlock, Active, Typed, TypeOK, Sound, PhaseState
<1>2. CacheSound' /\ Placed' /\ IsNameOrder(order', cache'.dir)
  BY <1>1, GoodIndex DEF Sound, CacheSound, Placed
<1>3. CASE Enter(t, o)
  <2>1. o.phase = "read"
    BY <1>1 DEF Op
  <2>. HIDE DEF o
  <2>. QED
    BY <1>1, <1>2, <1>3, <2>1, EnterSound DEF MountPhases, WritePhases
<1>4. CASE Return(t)
  BY <1>1, <1>2, <1>4, ReturnSound
<1>. QED
  BY <1>3, <1>4 DEF ReadBlock

(* A callback that fails leaves the directory in memory as it was.         *)
LEMMA FailureSound ==
    ASSUME Typed, Sound, NEW t \in Tasks, op[t].phase \in WritePhases \cup {"read"},
           fault_io, Return(t), UNCHANGED <<cache, capacity_blocks>>
    PROVE  Sound'
<1>1. Active(t) /\ st = "MOUNTED" /\ st' = "FAULTED"
  BY DEF Active, Sound, EditsSound, PhaseState, WritePhases, fault_io
<1>2. CacheSound' /\ Placed'
  BY <1>1 DEF Sound, CacheSound, Placed
<1>. QED
  BY <1>1, <1>2, ReturnSound

(* No program, no instance.                                                *)
LEMMA CrashSound ==
    ASSUME Typed, Sound, Crash
    PROVE  Sound'
<1>1. \A u \in Tasks : op'[u].phase = "idle"
  BY IdleType DEF Crash
<1>. QED
  BY <1>1, QuietSound DEF Crash, CacheSound, Placed

(* A step that changes no variable.                                        *)
LEMMA StutterSound ==
    ASSUME Sound, UNCHANGED vars
    PROVE  Sound'
BY DEF vars, Sound, CacheSound, Placed, Indexed, PhaseState, EditsSound, Edited,
       CopiesInside

-----------------------------------------------------------------------------
(* The initial states have no instance.                                    *)
LEMMA InitialSound == Init => Sound
<1>. SUFFICES ASSUME Init PROVE Sound
  OBVIOUS
<1>1. st = "UNINIT" /\ \A u \in Tasks : op[u].phase = "idle"
  BY IdleType DEF Init
<1>. QED
  BY <1>1 DEF Sound, CacheSound, Placed, Indexed, PhaseState, EditsSound, CopiesInside,
              MountPhases, WritePhases

(* Every call keeps the invariant.                                         *)
LEMMA CallKeeps ==
    ASSUME IInv, NEW t \in Tasks, Call(t)
    PROVE  IInv'
<1>1. CASE InitDirectory(t)
  BY <1>1, InitDirectoryStep, InitDirectorySound DEF IInv
<1>2. CASE Unmount(t)
  BY <1>2, UnmountStep, UnmountSound DEF IInv
<1>3. CASE MountBegin(t)
  BY <1>3, MountBeginStep, MountBeginSound DEF IInv
<1>4. CASE ObserveSource(t)
  BY <1>4, ObserveSourceStep, ObserveSourceSound DEF IInv
<1>5. ASSUME NEW n \in Names, NEW length \in Sizes, NEW bytes \in Payloads,
             Create(t, n, length, bytes)
      PROVE  IInv'
  BY <1>5, CreateStep, CreateSound DEF IInv
<1>6. ASSUME NEW n \in Names, NEW length \in Sizes, NEW bytes \in Payloads,
             Replace(t, n, length, bytes)
      PROVE  IInv'
  BY <1>6, ReplaceStep, ReplaceSound DEF IInv
<1>7. ASSUME NEW n \in Names, Remove(t, n) PROVE IInv'
  BY <1>7, RemoveStep, RemoveSound DEF IInv
<1>8. ASSUME NEW n \in Names, NEW m \in Names, Rename(t, n, m) PROVE IInv'
  BY <1>8, RenameStep, RenameSound DEF IInv
<1>9. ASSUME NEW n \in Names, NEW m \in Names, Copy(t, n, m) PROVE IInv'
  BY <1>9, CopyStep, CopySound DEF IInv
<1>10. ASSUME NEW n \in Names, NEW first \in 0 .. (Capacity - 1),
              NEW last \in 0 .. (Capacity - 1), Read(t, n, first, last)
       PROVE  IInv'
  <2>1. first \in Nat /\ last \in Nat
    OBVIOUS
  <2>. QED
    BY <1>10, <2>1, ReadStep, ReadSound DEF IInv
<1>. QED
  BY <1>1, <1>2, <1>3, <1>4, <1>5, <1>6, <1>7, <1>8, <1>9, <1>10 DEF Call

(* And so does every callback, successful or not.                          *)
LEMMA CallbackKeeps ==
    ASSUME IInv, NEW t \in Tasks, Callback(t)
    PROVE  IInv'
<1>1. CASE MountCapacity(t)
  BY <1>1, MountCapacityStep, MountCapacitySound DEF IInv
<1>2. CASE MountReadHeader(t)
  BY <1>2, MountReadHeaderStep, MountReadHeaderSound DEF IInv
<1>3. CASE MountReadDirectory(t)
  BY <1>3, MountReadDirectoryStep, MountReadDirectorySound DEF IInv
<1>4. CASE MountFails(t)
  BY <1>4, MountFailsStep, MountFailsSound DEF IInv
<1>5. CASE WritePayload(t)
  BY <1>5, WritePayloadStep, WritePayloadSound DEF IInv
<1>6. CASE CopyFetch(t)
  <2>1. op[t] \in Op /\ op[t].phase = "fetch"
    BY <1>6 DEF CopyFetch, IInv, Typed, TypeOK
  <2>2. op[t].i \in 0 .. (op[t].end - 1)
    BY <2>1 DEF IInv, Sound, CopiesInside, Op
  <2>3. op[t].from + op[t].i \in DataBlocks
    BY <2>1, <2>2 DEF IInv, Sound, CopiesInside
  <2>. QED
    BY <1>6, <2>3, CopyFetchStep, CopyFetchSound DEF IInv
<1>7. CASE CopyStore(t)
  BY <1>7, CopyStoreStep, CopyStoreSound DEF IInv
<1>8. CASE CommitEntryBlock(t)
  BY <1>8, CommitEntryBlockStep, CommitEntryBlockSound DEF IInv
<1>9. CASE CommitBlockZero(t)
  BY <1>9, CommitBlockZeroStep, CommitBlockZeroSound DEF IInv
<1>10. CASE ReadBlock(t)
  BY <1>10, ReadBlockStep, ReadBlockSound DEF IInv
<1>11. CASE ReadFails(t)
  BY <1>11, ReadFailsStep, FailureSound DEF IInv, ReadFails, WritePhases
<1>12. CASE DataWriteFails(t)
  BY <1>12, DataWriteFailsStep, FailureSound DEF IInv, DataWriteFails, WritePhases
<1>13. CASE EntryBlockFails(t)
  BY <1>13, EntryBlockFailsStep, FailureSound DEF IInv, EntryBlockFails, WritePhases
<1>14. CASE BlockZeroFails(t)
  BY <1>14, BlockZeroFailsStep, FailureSound DEF IInv, BlockZeroFails, WritePhases
<1>. QED
  BY <1>1, <1>2, <1>3, <1>4, <1>5, <1>6, <1>7, <1>8, <1>9, <1>10, <1>11, <1>12,
     <1>13, <1>14 DEF Callback

(* The invariant is inductive.                                             *)
LEMMA Inductive == IInv /\ [Next]_vars => IInv'
<1>1. ASSUME IInv, UNCHANGED vars PROVE IInv'
  BY <1>1, StutterStep, StutterSound DEF IInv
<1>2. ASSUME IInv, Crash PROVE IInv'
  BY <1>2, CrashStep, CrashSound DEF IInv
<1>. QED
  BY <1>1, <1>2, CallKeeps, CallbackKeeps DEF Next

(* The inductive invariant holds of every reachable state.                 *)
THEOREM Invariance == Spec => []IInv
<1>1. Init => IInv
  BY Initially, InitialSound DEF IInv
<1>. QED
  BY <1>1, Inductive, PTL DEF Spec

(* Every variable of the file system keeps to its type: entries are numbers*)
(* that fit, the index holds slots, writes and reads stay on the device.   *)
THEOREM TypeCorrect == Spec => []TypeOK
<1>1. IInv => TypeOK
  BY DEF IInv, Typed
<1>. QED
  BY <1>1, Invariance, PTL

(* busy is set exactly while one operation is in progress, and there is    *)
(* never a second one, whatever tasks run inside of the device callbacks.  *)
THEOREM OneOperationHolds == Spec => []OneOperation
<1>1. IInv => OneOperation
  BY DEF IInv, Typed
<1>. QED
  BY <1>1, Invariance, PTL

(* The directory in memory is sound at every step, half-way through a commit  *)
(* and after a fault too: no two files share a block or a name, and no file*)
(* leaves the data area.                                                   *)
THEOREM CacheSoundHolds == Spec => []CacheSound
<1>1. IInv => CacheSound
  BY DEF IInv, Sound
<1>. QED
  BY <1>1, Invariance, PTL

-----------------------------------------------------------------------------
(***************************************************************************)
(* What the medium holds: the directory in memory is the one on the medium,*)
(* no write touches a block that a file owns, a source identity names one  *)
(* state of the files, and YanFS implements YanFSAbs.                      *)
(*                                                                         *)
(* The argument follows the one operation there is (OpInv): what it        *)
(* has written so far, and where, is all that the medium differs from what *)
(* the last completed operation left.                                      *)
(***************************************************************************)

DataPhases == {"payload", "fetch", "store"}

(* A mounted instance shows the medium; the CRC field lags behind only     *)
(* while a commit has replaced its directory block and not yet block 0.    *)
MirrorInv ==
    st = "MOUNTED" =>
        /\ cache = disk /\ header = "accepted"
        /\ (\A t \in Tasks : op[t].phase = "publish" => entry_block(op[t].slot) = 0)
              => disk.crc = disk.dir

(* The commit of operation o, on the directory dir in memory.              *)
CommitOk(o, dir) ==
    /\ o.phase = "entry" => entry_block(o.slot) # 0
    /\ o.phase = "publish" /\ entry_block(o.slot) # 0 => dir[o.slot] = o.entry

(* A mount o that has loaded the first blocks of the directory d into c.   *)
LoadOk(o, c, d, h) ==
    o.phase = "directory" =>
        /\ h = "accepted" /\ o.i \in 1 .. (D - 1) /\ c.crc = d.crc
        /\ \A s \in Slots : entry_block(s) < o.i => c.dir[s] = d.dir[s]

(* The extent that o writes belongs to no file of dir; its first blocks    *)
(* hold what they are to hold, in the data blocks dat.                     *)
DataOk(o, dir, dat) ==
    o.phase \in DataPhases =>
        /\ o.entry.size # 0 /\ o.end = o.entry.count /\ o.i < o.end
        /\ Extent(o.entry) \cap UsedBlocks(dir) = {}
        /\ o.phase = "payload" =>
              \A j \in 0 .. (o.i - 1) : dat[o.entry.start + j] = <<o.bytes, j>>
        /\ o.phase # "payload" =>
              /\ \A j \in 0 .. (o.end - 1) : o.from + j \in UsedBlocks(dir)
              /\ \A j \in 0 .. (o.i - 1) : dat[o.entry.start + j] = dat[o.from + j]
        /\ o.phase = "store" => o.block = dat[o.from + o.i]

OpOk(o, c, d, h, dat) == CommitOk(o, c.dir) /\ LoadOk(o, c, d, h) /\ DataOk(o, c.dir, dat)
OpInv == \A t \in Tasks : OpOk(op[t], cache, disk, header, data)

(* The directory of an instance that is not mounted is empty.              *)
EmptyInv == st = "UNMOUNTED" /\ ~busy => cache.dir = EmptyDirectory

(* No source identity is given out twice; while the one an observer holds  *)
(* is current, the files are what it saw, except inside a mount or a       *)
(* commit, which end with another identity or with an empty directory.     *)
NoFiles == [state |-> "UNMOUNTED", files |-> {}]
Stable == \A t \in Tasks : op[t].phase \notin MountPhases \cup {"publish"}
IdentityInv ==
    /\ Cacheable => source.token = source.serial /\ source.serial > 0
    /\ held.token <= source.serial
    /\ Cacheable /\ source.token = held.token =>
          /\ st = "UNMOUNTED" => held.view = NoFiles
          /\ Stable => View = held.view

MInv == IInv /\ MirrorInv /\ OpInv /\ EmptyInv /\ IdentityInv

-----------------------------------------------------------------------------
(* Directory blocks.                                                       *)

(* The product over a sum, for the blocks of the directory.                 *)
LEMMA Distributes ==
    ASSUME NEW a \in Nat, NEW b \in Nat, NEW c \in Nat
    PROVE  a * (b + c) = a * b + a * c /\ a * c \in Nat
OBVIOUS

(* Every slot lies in one of the D blocks of the directory.                *)
LEMMA SlotBlock == ASSUME NEW s \in Slots PROVE entry_block(s) \in 0 .. (D - 1)
<1>1. /\ K \in Nat /\ K > 0 /\ D \in Nat /\ D > 0 /\ K * D \in Nat
      /\ s \in Nat /\ 1 + s < K * D
  BY GeometryAssumption DEF Slots
<1> DEFINE q == (1 + s) \div K
           r == (1 + s) % K
<1>2. 1 + s = K * q + r /\ q \in Int /\ r \in Nat /\ q >= 0
  BY <1>1
<1>3. q < D
  <2>1. SUFFICES ASSUME q >= D PROVE FALSE
    BY <1>1, <1>2
  <2> DEFINE e == q - D
  <2>2. q = D + e /\ e \in Nat
    BY <1>1, <1>2, <2>1
  <2>3. K * (D + e) = K * D + K * e /\ K * e \in Nat
    BY <1>1, <2>2, Distributes
  <2>4. K * q = K * D + K * e
    BY <2>2, <2>3
  <2> HIDE DEF q, r, e
  <2> DEFINE x == K * q
             y == K * D
             z == K * e
  <2>5. x = y + z /\ z \in Nat /\ 1 + s = x + r /\ 1 + s < y /\ y \in Nat
    BY <1>1, <1>2, <2>3, <2>4
  <2>6. s \in Nat /\ r \in Nat
    BY <1>1, <1>2
  <2> HIDE DEF x, y, z
  <2> QED BY ONLY <2>5, <2>6
<1> QED BY <1>1, <1>2, <1>3 DEF entry_block

(* Writing the block of an edited slot writes the edit, another block does *)
(* nothing.                                                                *)
LEMMA EditBlock ==
    ASSUME NEW dir \in Directory, NEW slot \in Slots, NEW e, NEW b
    PROVE  LET new == [dir EXCEPT ![slot] = e]
           IN  WithBlock(dir, new, b) = IF entry_block(slot) = b THEN new ELSE dir
BY DEF WithBlock, Directory

(* A block written as it was changes nothing.                               *)
LEMMA SameBlock == ASSUME NEW dir \in Directory, NEW b PROVE WithBlock(dir, dir, b) = dir
BY DEF WithBlock, Directory

(* A file lies in the data area.                                           *)
LEMMA EntryInside ==
    ASSUME NEW e \in Entry, EntryValid(e)
    PROVE  Extent(e) \subseteq DataBlocks
<1>1. CASE e.size = 0
  BY <1>1 DEF Extent
<1>2. CASE e.size # 0
  <2>1. /\ e.start >= D /\ e.count <= Capacity - e.start
        /\ e.start \in Nat /\ e.count \in Nat
    BY <1>2 DEF EntryValid, NoEntry, Entry
  <2>2. Extent(e) = e.start .. (e.start + e.count - 1)
    BY <1>2 DEF Extent
  <2> QED BY <2>1, <2>2, GeometryAssumption DEF DataBlocks
<1> QED BY <1>1, <1>2

(* The files of a sound directory lie in the data area.                     *)
LEMMA UsedInside ==
    ASSUME NEW dir \in Directory, DirectorySound(dir)
    PROVE  UsedBlocks(dir) \subseteq DataBlocks
<1>1. ASSUME NEW s \in LiveSlots(dir) PROVE Extent(dir[s]) \subseteq DataBlocks
  <2>1. dir[s] \in Entry /\ EntryValid(dir[s])
    BY DEF LiveSlots, Directory, DirectorySound
  <2> QED BY <2>1, EntryInside
<1> QED BY <1>1 DEF UsedBlocks

(* The files of a sound directory depend on the blocks they own only.      *)
LEMMA SameFile ==
    ASSUME NEW dir \in Directory, DirectorySound(dir), NEW dat, NEW new,
           \A b \in UsedBlocks(dir) : new[b] = dat[b], NEW s \in LiveSlots(dir)
    PROVE  FileOf(dir[s], new) = FileOf(dir[s], dat)
<1>1. s \in Slots /\ dir[s] \in Entry /\ EntryValid(dir[s])
  BY DEF LiveSlots, Directory, DirectorySound
<1>2. ASSUME NEW i \in 0 .. (dir[s].count - 1)
      PROVE  new[dir[s].start + i] = dat[dir[s].start + i]
  <2>1. dir[s].start \in Nat /\ dir[s].count \in Nat /\ dir[s].size # 0
    BY <1>1 DEF Entry, EntryValid, NoEntry
  <2>2. dir[s].start + i \in Extent(dir[s])
    BY <2>1 DEF Extent
  <2>3. dir[s].start + i \in UsedBlocks(dir)
    BY <2>2 DEF UsedBlocks
  <2> QED BY <2>3
<1> QED BY <1>2 DEF FileOf

(* The files are the same when the blocks they own are.                     *)
LEMMA SameFiles ==
    ASSUME NEW dir \in Directory, DirectorySound(dir), NEW dat, NEW new,
           \A b \in UsedBlocks(dir) : new[b] = dat[b]
    PROVE  Files(dir, new) = Files(dir, dat)
BY SameFile DEF Files

-----------------------------------------------------------------------------
(* How a step leaves the parts of the invariant.                           *)

(* A task without an operation has written nothing.                         *)
LEMMA IdleOk ==
    ASSUME NEW o, o.phase = "idle", NEW c, NEW d, NEW h, NEW dat
    PROVE  OpOk(o, c, d, h, dat)
BY DEF OpOk, CommitOk, LoadOk, DataOk, DataPhases

(* The one operation goes on, or begins.                                   *)
LEMMA Entered ==
    ASSUME IInv, NEW t \in Tasks, Active(t) \/ ~busy, NEW o, Enter(t, o),
           OpOk(o, cache', disk', header', data'),
           st' = "MOUNTED" =>
              /\ cache' = disk' /\ header' = "accepted"
              /\ (o.phase = "publish" => entry_block(o.slot) = 0) => disk'.crc = disk'.dir
    PROVE  MirrorInv' /\ OpInv' /\ EmptyInv'
<1>1. op'[t] = o /\ busy' = TRUE
  BY DEF Enter, IInv, Typed, TypeOK
<1>2. \A u \in Tasks : u # t => op'[u].phase = "idle"
  BY OthersIdle DEF Enter, IInv, Typed, TypeOK
<1>3. OpInv'
  BY <1>1, <1>2, IdleOk DEF OpInv
<1>4. MirrorInv'
  BY <1>1 DEF MirrorInv
<1> QED BY <1>1, <1>3, <1>4 DEF EmptyInv

(* No operation is in progress afterwards.                                 *)
LEMMA Quiet ==
    ASSUME \A u \in Tasks : op'[u].phase = "idle",
           st' = "MOUNTED" => cache' = disk' /\ header' = "accepted" /\ disk'.crc = disk'.dir
    PROVE  MirrorInv' /\ OpInv'
BY IdleOk DEF MirrorInv, OpInv

(* When the operation returns, no task has one.                             *)
LEMMA Returned ==
    ASSUME IInv, NEW t \in Tasks, Active(t), Return(t)
    PROVE  \A u \in Tasks : op'[u].phase = "idle"
BY OthersIdle, IdleType DEF Return, IInv, Typed, TypeOK

(* A new identity is held by nobody.                                       *)
LEMMA NewIdentity ==
    ASSUME IInv, IdentityInv, source' = source_identity_allocate(source), held' = held
    PROVE  IdentityInv'
<1>1. /\ source \in [token : Nat, cacheable : BOOLEAN, serial : Nat, exhausted : BOOLEAN]
      /\ held.token \in Nat /\ held.token <= source.serial
  BY DEF IInv, Typed, TypeOK, IdentityInv
<1>2. CASE source.exhausted \/ source.serial = MaxSerial
  <2>1. source'.serial = source.serial /\ ~Cacheable'
    BY <1>1, <1>2 DEF source_identity_allocate, Cacheable
  <2> QED BY <1>1, <2>1 DEF IdentityInv
<1>3. CASE ~(source.exhausted \/ source.serial = MaxSerial)
  <2>1. source'.serial = source.serial + 1 /\ source'.token = source.serial + 1
    BY <1>1, <1>3 DEF source_identity_allocate
  <2>2. source'.token # held'.token /\ source'.serial > 0 /\ held'.token <= source'.serial
    BY <1>1, <2>1
  <2> QED BY <2>1, <2>2 DEF IdentityInv
<1> QED BY <1>2, <1>3

(* An empty directory shows no files.                                       *)
LEMMA NoFilesShown == Files(EmptyDirectory, data) = {}
BY DEF Files, LiveSlots, EmptyDirectory, NoEntry

(* The identity stays: then the files do, unless the instance is empty.    *)
LEMMA SameIdentity ==
    ASSUME IdentityInv, UNCHANGED <<source, held, st>>,
           Stable' /\ st # "UNMOUNTED" =>
              Stable /\ Files(cache'.dir, data') = Files(cache.dir, data),
           Stable' /\ st = "UNMOUNTED" => cache'.dir = EmptyDirectory
    PROVE  IdentityInv'
<1>1. Cacheable' <=> Cacheable
  BY DEF Cacheable
<1>2. ASSUME Cacheable, source.token = held.token, Stable' PROVE View' = held.view
  <2>1. CASE st = "UNMOUNTED"
    <3>1. held.view = NoFiles /\ cache'.dir = EmptyDirectory
      BY <1>2, <2>1 DEF IdentityInv
    <3>2. Files(cache'.dir, data') = {}
      BY <3>1 DEF Files, LiveSlots, EmptyDirectory, NoEntry
    <3> QED BY <2>1, <3>1, <3>2 DEF View, NoFiles
  <2>2. CASE st # "UNMOUNTED"
    BY <1>2, <2>2 DEF IdentityInv, View
  <2> QED BY <2>1, <2>2
<1> QED BY <1>1, <1>2 DEF IdentityInv

(* The commit of an entry begins over an intact directory.                 *)
LEMMA CommitBegins ==
    ASSUME MInv, NEW t \in Tasks, Active(t) \/ ~busy, op[t].phase # "publish",
           st = "MOUNTED", NEW slot, NEW entry, BeginCommit(t, slot, entry),
           UNCHANGED <<disk, header, st, cache>>
    PROVE  MirrorInv' /\ OpInv' /\ EmptyInv'
<1> DEFINE o == [Idle EXCEPT !.phase = CommitPhase(slot), !.slot = slot, !.entry = entry]
<1>1. Enter(t, o) /\ o.slot = slot /\ o.phase = CommitPhase(slot)
  BY DEF BeginCommit, Idle
<1> HIDE DEF o
<1>2. /\ o.phase \in {"entry", "publish"}
      /\ o.phase = "entry" <=> entry_block(o.slot) # 0
  BY <1>1 DEF CommitPhase
<1>3. OpOk(o, cache', disk', header', data')
  BY <1>2 DEF OpOk, CommitOk, LoadOk, DataOk, DataPhases
<1>4. \A u \in Tasks : op[u].phase # "publish"
  BY OthersIdle DEF MInv, IInv
<1>5. cache' = disk' /\ header' = "accepted" /\ disk'.crc = disk'.dir
  BY <1>4 DEF MInv, MirrorInv
<1> QED BY <1>1, <1>3, <1>5, Entered DEF MInv

(* A call begins to write data, or to copy, into an extent of its own.     *)
LEMMA DataBegins ==
    ASSUME MInv, NEW t \in Tasks, operation_guard(t), NEW slot, NEW entry \in Entry,
           NEW phase \in {"payload", "fetch"}, NEW bytes, NEW from \in Nat,
           BeginData(t, slot, entry, phase, bytes, from),
           UNCHANGED <<disk, data, header, st, cache>>,
           entry.count # 0 => entry.size # 0,
           Extent(entry) \cap UsedBlocks(cache.dir) = {},
           phase = "fetch" =>
              \A j \in 0 .. (entry.count - 1) : from + j \in UsedBlocks(cache.dir)
    PROVE  MirrorInv' /\ OpInv' /\ EmptyInv'
<1>1. ~busy /\ st = "MOUNTED" /\ op[t].phase = "idle"
  BY DEF operation_guard, Callable
<1>2. CASE entry.count = 0
  <2>1. BeginCommit(t, slot, entry)
    BY <1>2 DEF BeginData
  <2> QED BY <1>1, <2>1, CommitBegins
<1>3. CASE entry.count # 0
  <2> DEFINE o == [Idle EXCEPT !.phase = phase, !.slot = slot, !.entry = entry,
                               !.bytes = bytes, !.from = from, !.end = entry.count]
  <2>1. /\ Enter(t, o) /\ o.phase = phase /\ o.entry = entry /\ o.from = from
        /\ o.i = 0 /\ o.end = entry.count
    BY <1>3 DEF BeginData, Idle
  <2> HIDE DEF o
  <2>2. entry.count \in Nat
    BY DEF Entry
  <2>3. o.phase \notin {"entry", "publish", "directory", "store"}
    BY <2>1
  <2>4. DataOk(o, cache'.dir, data')
    BY <1>3, <2>1, <2>2, <2>3 DEF DataOk
  <2>5. OpOk(o, cache', disk', header', data')
    BY <2>3, <2>4 DEF OpOk, CommitOk, LoadOk
  <2>6. \A u \in Tasks : op[u].phase # "publish"
    BY <1>1, OthersIdle DEF MInv, IInv
  <2>7. cache' = disk' /\ header' = "accepted" /\ disk'.crc = disk'.dir
    BY <1>1, <2>6 DEF MInv, MirrorInv
  <2> QED BY <1>1, <2>1, <2>5, <2>7, Entered DEF MInv
<1> QED BY <1>2, <1>3

-----------------------------------------------------------------------------
(* What the calls begin with.                                              *)

(* create: a free slot, a new name, an extent that no file owns.           *)
LEMMA CreateBegins ==
    ASSUME IInv, NEW t \in Tasks, NEW n \in Names, NEW length \in Sizes,
           NEW bytes \in Payloads, Create(t, n, length, bytes)
    PROVE  \E slot \in Slots, e \in Entry :
              /\ BeginData(t, slot, e, "payload", bytes, 0)
              /\ slot \notin LiveSlots(cache.dir)
              /\ \A r \in LiveSlots(cache.dir) : cache.dir[r].name # n
              /\ e.name = n /\ e.size = length /\ e.count = blocks_needed(length)
              /\ Extent(e) \cap UsedBlocks(cache.dir) = {}
<1>1. operation_guard(t) /\ find_entry(n) = {}
  BY DEF Create
<1>2. PICK slot \in find_free_slot, start \in allocate_extent(blocks_needed(length)) :
        BeginData(t, slot, [name |-> n, size |-> length, start |-> start,
                            count |-> blocks_needed(length)], "payload", bytes, 0)
  BY DEF Create
<1> DEFINE e == [name |-> n, size |-> length, start |-> start,
                 count |-> blocks_needed(length)]
<1>3. slot \in Slots /\ slot \notin LiveSlots(cache.dir) /\ length \in Nat
  BY FreeSlot, InputAssumption
<1>4. e \in Entry
  BY <1>3, BlocksNat, AllocatedNat, InputAssumption DEF Entry
<1>5. \A r \in LiveSlots(cache.dir) : Extent(cache.dir[r]) \cap Extent(e) = {}
  BY <1>1, <1>3, <1>4, Admitted, AllocatedEntry DEF IInv
<1>6. \A r \in LiveSlots(cache.dir) : cache.dir[r].name # n
  BY <1>1, Admitted, SearchComplete DEF IInv
<1>7. e.name = n /\ e.size = length /\ e.count = blocks_needed(length)
  OBVIOUS
<1>8. BeginData(t, slot, e, "payload", bytes, 0)
  BY <1>2
<1> HIDE DEF e
<1>9. Extent(e) \cap UsedBlocks(cache.dir) = {}
  BY <1>5 DEF UsedBlocks
<1> QED BY <1>3, <1>4, <1>6, <1>7, <1>8, <1>9

(* replace: the slot of the name, an extent that no file owns, not even    *)
(* the one that is replaced.                                               *)
LEMMA ReplaceBegins ==
    ASSUME IInv, NEW t \in Tasks, NEW n \in Names, NEW length \in Sizes,
           NEW bytes \in Payloads, Replace(t, n, length, bytes)
    PROVE  \E slot \in LiveSlots(cache.dir), e \in Entry :
              /\ BeginData(t, slot, e, "payload", bytes, 0)
              /\ e.name = cache.dir[slot].name /\ e.size = length
              /\ e.count = blocks_needed(length)
              /\ Extent(e) \cap UsedBlocks(cache.dir) = {}
<1>1. operation_guard(t)
  BY DEF Replace
<1>2. PICK slot \in find_entry(n), start \in allocate_extent(blocks_needed(length)) :
        BeginData(t, slot, [name |-> cache.dir[slot].name, size |-> length,
                            start |-> start, count |-> blocks_needed(length)],
                  "payload", bytes, 0)
  BY DEF Replace
<1> DEFINE e == [name |-> cache.dir[slot].name, size |-> length, start |-> start,
                 count |-> blocks_needed(length)]
<1>3. /\ slot \in Slots /\ slot \in LiveSlots(cache.dir)
      /\ cache.dir[slot].name = n /\ length \in Nat
  BY <1>1, Admitted, SearchRight, InputAssumption DEF LiveSlots, IInv
<1>4. e \in Entry
  BY <1>3, BlocksNat, AllocatedNat, InputAssumption DEF Entry
<1>5. \A r \in LiveSlots(cache.dir) : Extent(cache.dir[r]) \cap Extent(e) = {}
  BY <1>1, <1>3, <1>4, Admitted, AllocatedEntry DEF IInv
<1>6. e.name = cache.dir[slot].name /\ e.size = length /\ e.count = blocks_needed(length)
  OBVIOUS
<1>7. BeginData(t, slot, e, "payload", bytes, 0)
  BY <1>2
<1> HIDE DEF e
<1>8. Extent(e) \cap UsedBlocks(cache.dir) = {}
  BY <1>5 DEF UsedBlocks
<1> QED BY <1>3, <1>4, <1>6, <1>7, <1>8

(* copy: a free slot, a new name, an extent that no file owns; the blocks  *)
(* of the source are its own.                                              *)
LEMMA CopyBegins ==
    ASSUME IInv, NEW t \in Tasks, NEW src \in Names, NEW dst \in Names, Copy(t, src, dst)
    PROVE  \E from \in LiveSlots(cache.dir), slot \in Slots, e \in Entry :
              /\ BeginData(t, slot, e, "fetch", NoPayload, cache.dir[from].start)
              /\ slot \notin LiveSlots(cache.dir)
              /\ \A r \in LiveSlots(cache.dir) : cache.dir[r].name # dst
              /\ e.name = dst /\ e.size = cache.dir[from].size
              /\ e.count = cache.dir[from].count
              /\ Extent(e) \cap UsedBlocks(cache.dir) = {}
<1>1. operation_guard(t) /\ find_entry(dst) = {}
  BY DEF Copy
<1>2. PICK from \in find_entry(src) :
        \E slot \in find_free_slot :
        \E start \in allocate_extent(cache.dir[from].count) :
           BeginData(t, slot, [cache.dir[from] EXCEPT !.name = dst, !.start = start],
                     "fetch", NoPayload, cache.dir[from].start)
  BY DEF Copy
<1>3. PICK slot \in find_free_slot, start \in allocate_extent(cache.dir[from].count) :
        BeginData(t, slot, [cache.dir[from] EXCEPT !.name = dst, !.start = start],
                  "fetch", NoPayload, cache.dir[from].start)
  BY <1>2
<1> DEFINE o == cache.dir[from]
           e == [cache.dir[from] EXCEPT !.name = dst, !.start = start]
<1>4. /\ slot \in Slots /\ slot \notin LiveSlots(cache.dir)
      /\ from \in LiveSlots(cache.dir) /\ from \in Slots /\ o \in Entry /\ o # NoEntry
  BY <1>1, Admitted, FreeSlot, SearchRight, FoundSlot, CachedEntry DEF IInv
<1>5. o.count \in Nat /\ o.size \in Nat /\ o.start \in Nat
  BY <1>4 DEF Entry
<1>6. o.count = blocks_needed(o.size)
  <2>1. EntryValid(o)
    BY <1>1, <1>4, Admitted DEF DirectorySound, IInv
  <2> QED BY <1>4, <1>5, <2>1, BlocksZero DEF EntryValid
<1>7. e \in Entry /\ e.name = dst /\ e.size = o.size /\ e.start = start /\ e.count = o.count
  <2>1. start \in Nat
    <3> HIDE DEF e
    <3> QED BY <1>5, AllocatedNat
  <2>2. dst \in Int
    BY InputAssumption
  <2> QED BY <1>4, <2>1, <2>2 DEF Entry
<1>8. \A r \in LiveSlots(cache.dir) : Extent(cache.dir[r]) \cap Extent(e) = {}
  <2> HIDE DEF e
  <2> QED BY <1>1, <1>5, <1>6, <1>7, Admitted, AllocatedEntry DEF IInv
<1>9. \A r \in LiveSlots(cache.dir) : cache.dir[r].name # dst
  BY <1>1, Admitted, SearchComplete DEF IInv
<1>10. BeginData(t, slot, e, "fetch", NoPayload, o.start)
  BY <1>3
<1> HIDE DEF e
<1>11. Extent(e) \cap UsedBlocks(cache.dir) = {}
  BY <1>8 DEF UsedBlocks
<1> QED BY <1>4, <1>7, <1>9, <1>10, <1>11 DEF o

(* rename: the slot of the old name, a new name, everything else as it is. *)
LEMMA RenameBegins ==
    ASSUME IInv, NEW t \in Tasks, NEW old \in Names, NEW new \in Names, Rename(t, old, new)
    PROVE  \E slot \in LiveSlots(cache.dir) :
              /\ BeginCommit(t, slot, [cache.dir[slot] EXCEPT !.name = new])
              /\ \A r \in LiveSlots(cache.dir) : cache.dir[r].name # new
<1>1. operation_guard(t) /\ find_entry(new) = {}
  BY DEF Rename
<1>2. PICK slot \in find_entry(old) :
        BeginCommit(t, slot, [cache.dir[slot] EXCEPT !.name = new])
  BY DEF Rename
<1>3. slot \in LiveSlots(cache.dir)
  BY <1>1, Admitted, SearchRight DEF IInv
<1>4. \A r \in LiveSlots(cache.dir) : cache.dir[r].name # new
  BY <1>1, Admitted, SearchComplete DEF IInv
<1> QED BY <1>2, <1>3, <1>4

(* remove: the slot of the name.                                           *)
LEMMA RemoveBegins ==
    ASSUME IInv, NEW t \in Tasks, NEW n \in Names, Remove(t, n)
    PROVE  \E slot \in LiveSlots(cache.dir) : BeginCommit(t, slot, NoEntry)
<1>1. operation_guard(t)
  BY DEF Remove
<1>2. PICK slot \in find_entry(n) : BeginCommit(t, slot, NoEntry)
  BY DEF Remove
<1>3. slot \in LiveSlots(cache.dir)
  BY <1>1, Admitted, SearchRight DEF IInv
<1> QED BY <1>2, <1>3

-----------------------------------------------------------------------------
(* Every step keeps the invariant: the calls.                              *)

Rest == MirrorInv /\ OpInv /\ EmptyInv /\ IdentityInv

(* An instance that is initialised or unmounted is empty.                  *)
LEMMA EmptiedRest ==
    ASSUME MInv, ~busy, op' = op, st' = "UNMOUNTED", cache'.dir = EmptyDirectory,
           source' = source_identity_allocate(source), held' = held
    PROVE  Rest'
<1>1. \A u \in Tasks : op'[u].phase = "idle"
  BY DEF MInv, IInv, Typed, OneOperation, Active
<1>2. IdentityInv'
  BY NewIdentity DEF MInv
<1> QED BY <1>1, <1>2, Quiet DEF Rest, EmptyInv

(* The begin of a mount keeps what the medium's invariant adds to IInv      *)
(* (Rest).                                                                  *)
LEMMA MountBeginRest == ASSUME MInv, NEW t \in Tasks, MountBegin(t) PROVE Rest'
<1> DEFINE o == [Idle EXCEPT !.phase = "capacity"]
<1>1. /\ ~busy /\ st = "UNMOUNTED" /\ st' = st /\ Enter(t, o) /\ o.phase = "capacity"
      /\ UNCHANGED <<source, held>>
  BY DEF MountBegin, Callable, Idle
<1> HIDE DEF o
<1>2. OpOk(o, cache', disk', header', data')
  BY <1>1 DEF OpOk, CommitOk, LoadOk, DataOk, DataPhases
<1>3. MirrorInv' /\ OpInv' /\ EmptyInv'
  BY <1>1, <1>2, Entered DEF MInv
<1>4. ~Stable'
  BY <1>1 DEF Stable, MountPhases, Enter, MInv, IInv, Typed, TypeOK
<1> QED BY <1>1, <1>3, <1>4, SameIdentity DEF Rest, MInv

(* An observer that takes the identity keeps it.                            *)
LEMMA ObserveSourceRest == ASSUME MInv, NEW t \in Tasks, ObserveSource(t) PROVE Rest'
<1>1. /\ UNCHANGED <<disk, data, header, st, busy, cache, op, source>> /\ ~busy
      /\ held' = IF Cacheable THEN [token |-> source.token, view |-> View] ELSE NothingHeld
  BY DEF ObserveSource, Callable, medium
<1>2. MirrorInv' /\ OpInv' /\ EmptyInv'
  BY <1>1 DEF MInv, MirrorInv, OpInv, EmptyInv
<1>3. View' = View /\ Cacheable' = Cacheable /\ Stable' = Stable
  BY <1>1 DEF View, Cacheable, Stable
<1>4. source.serial \in Nat /\ source.token \in Nat
  BY DEF MInv, IInv, Typed, TypeOK
<1>5. st = "UNMOUNTED" => View = NoFiles
  BY <1>1, NoFilesShown DEF MInv, EmptyInv, View, NoFiles
<1>6. CASE Cacheable
  <2>1. held'.token = source.token /\ held'.view = View
    BY <1>1, <1>6
  <2> QED BY <1>1, <1>2, <1>3, <1>4, <1>5, <1>6, <2>1 DEF MInv, Rest, IdentityInv
<1>7. CASE ~Cacheable
  <2>1. held'.token = 0
    BY <1>1, <1>7 DEF NothingHeld
  <2> QED BY <1>1, <1>2, <1>3, <1>4, <1>7, <2>1 DEF MInv, Rest, IdentityInv
<1> QED BY <1>6, <1>7

(* A call that passes the guard changes no file and no identity.           *)
LEMMA CallIdentity ==
    ASSUME MInv, NEW t \in Tasks, operation_guard(t),
           UNCHANGED <<source, held, st, cache, data>>
    PROVE  IdentityInv'
<1>1. ~busy /\ st = "MOUNTED"
  BY DEF operation_guard, Callable
<1>2. Stable
  BY <1>1 DEF MInv, IInv, Typed, OneOperation, Active, Stable, MountPhases
<1> QED BY <1>1, <1>2, SameIdentity DEF MInv

(* A create begins to write where no file is, or not at all.                *)
LEMMA CreateRest ==
    ASSUME MInv, NEW t \in Tasks, NEW n \in Names, NEW length \in Sizes,
           NEW bytes \in Payloads, Create(t, n, length, bytes)
    PROVE  Rest'
<1>1. operation_guard(t) /\ UNCHANGED <<disk, data, header, st, cache, source, held>>
  BY DEF Create, medium
<1>2. PICK slot \in Slots, e \in Entry :
              /\ BeginData(t, slot, e, "payload", bytes, 0)
              /\ e.size = length /\ e.count = blocks_needed(length)
              /\ Extent(e) \cap UsedBlocks(cache.dir) = {}
  BY CreateBegins DEF MInv
<1>3. e.count # 0 => e.size # 0
  BY <1>2, BlocksZero, InputAssumption
<1>4. MirrorInv' /\ OpInv' /\ EmptyInv'
  BY <1>1, <1>2, <1>3, DataBegins
<1> QED BY <1>1, <1>4, CallIdentity DEF Rest

(* A replace begins to write beside the old extent.                         *)
LEMMA ReplaceRest ==
    ASSUME MInv, NEW t \in Tasks, NEW n \in Names, NEW length \in Sizes,
           NEW bytes \in Payloads, Replace(t, n, length, bytes)
    PROVE  Rest'
<1>1. operation_guard(t) /\ UNCHANGED <<disk, data, header, st, cache, source, held>>
  BY DEF Replace, medium
<1>2. PICK slot \in LiveSlots(cache.dir), e \in Entry :
              /\ BeginData(t, slot, e, "payload", bytes, 0)
              /\ e.size = length /\ e.count = blocks_needed(length)
              /\ Extent(e) \cap UsedBlocks(cache.dir) = {}
  BY ReplaceBegins DEF MInv
<1>3. e.count # 0 => e.size # 0
  BY <1>2, BlocksZero, InputAssumption
<1>4. MirrorInv' /\ OpInv' /\ EmptyInv'
  BY <1>1, <1>2, <1>3, DataBegins
<1> QED BY <1>1, <1>4, CallIdentity DEF Rest

(* The blocks of a live file are in use.                                   *)
LEMMA OwnBlocks ==
    ASSUME NEW dir \in Directory, DirectorySound(dir), NEW s \in LiveSlots(dir)
    PROVE  /\ dir[s] \in Entry /\ dir[s].count # 0 => dir[s].size # 0
           /\ \A j \in 0 .. (dir[s].count - 1) : dir[s].start + j \in UsedBlocks(dir)
<1>1. s \in Slots /\ dir[s] \in Entry /\ EntryValid(dir[s])
  BY DEF LiveSlots, Directory, DirectorySound
<1>2. dir[s].count # 0 => dir[s].size # 0
  BY <1>1 DEF EntryValid, NoEntry
<1>3. ASSUME NEW j \in 0 .. (dir[s].count - 1) PROVE dir[s].start + j \in UsedBlocks(dir)
  <2>1. dir[s].start \in Nat /\ dir[s].count \in Nat /\ dir[s].size # 0
    BY <1>1, <1>2 DEF Entry
  <2>2. dir[s].start + j \in Extent(dir[s])
    BY <2>1 DEF Extent
  <2> QED BY <2>2 DEF UsedBlocks
<1> QED BY <1>1, <1>2, <1>3

(* A copy reads the blocks of its source and writes to free ones.           *)
LEMMA CopyRest ==
    ASSUME MInv, NEW t \in Tasks, NEW src \in Names, NEW dst \in Names, Copy(t, src, dst)
    PROVE  Rest'
<1>1. operation_guard(t) /\ UNCHANGED <<disk, data, header, st, cache, source, held>>
  BY DEF Copy, medium
<1>2. PICK from \in LiveSlots(cache.dir), slot \in Slots, e \in Entry :
              /\ BeginData(t, slot, e, "fetch", NoPayload, cache.dir[from].start)
              /\ e.size = cache.dir[from].size /\ e.count = cache.dir[from].count
              /\ Extent(e) \cap UsedBlocks(cache.dir) = {}
  BY CopyBegins DEF MInv
<1>3. /\ cache.dir[from].count # 0 => cache.dir[from].size # 0
      /\ cache.dir[from].start \in Nat
      /\ \A j \in 0 .. (cache.dir[from].count - 1) :
            cache.dir[from].start + j \in UsedBlocks(cache.dir)
  <2>1. cache.dir \in Directory /\ DirectorySound(cache.dir)
    BY <1>1, Admitted DEF MInv, IInv
  <2>2. cache.dir[from] \in Entry
    BY <2>1 DEF LiveSlots, Directory
  <2> QED BY <2>1, <2>2, OwnBlocks DEF Entry
<1>4. MirrorInv' /\ OpInv' /\ EmptyInv'
  BY <1>1, <1>2, <1>3, DataBegins
<1> QED BY <1>1, <1>4, CallIdentity DEF Rest

(* A call that begins with its commit (remove, rename, an empty file) keeps *)
(* it.                                                                      *)
LEMMA CommitCallRest ==
    ASSUME MInv, NEW t \in Tasks, operation_guard(t),
           UNCHANGED <<disk, data, header, st, cache, source, held>>,
           NEW slot, NEW entry, BeginCommit(t, slot, entry)
    PROVE  Rest'
<1>1. ~busy /\ st = "MOUNTED" /\ op[t].phase = "idle"
  BY DEF operation_guard, Callable
<1>2. MirrorInv' /\ OpInv' /\ EmptyInv'
  BY <1>1, CommitBegins
<1> QED BY <1>2, CallIdentity DEF Rest

(* A read keeps it.                                                         *)
LEMMA ReadRest ==
    ASSUME MInv, NEW t \in Tasks, NEW n \in Names, NEW first, NEW last,
           Read(t, n, first, last)
    PROVE  Rest'
<1>1. PICK slot \in find_entry(n) :
        Enter(t, [Idle EXCEPT !.phase = "read", !.slot = slot,
                              !.entry = cache.dir[slot], !.i = first, !.end = last + 1])
  BY DEF Read
<1> DEFINE o == [Idle EXCEPT !.phase = "read", !.slot = slot,
                             !.entry = cache.dir[slot], !.i = first, !.end = last + 1]
<1>2. o.phase = "read" /\ Enter(t, o)
  BY <1>1 DEF Idle
<1>3. operation_guard(t) /\ UNCHANGED <<disk, data, header, st, cache, source, held>>
  BY DEF Read, medium
<1>4. ~busy /\ st = "MOUNTED" /\ op[t].phase = "idle"
  BY <1>3 DEF operation_guard, Callable
<1> HIDE DEF o
<1>5. OpOk(o, cache', disk', header', data')
  BY <1>2 DEF OpOk, CommitOk, LoadOk, DataOk, DataPhases
<1>6. \A u \in Tasks : op[u].phase # "publish"
  BY <1>4, OthersIdle DEF MInv, IInv
<1>7. cache' = disk' /\ header' = "accepted" /\ disk'.crc = disk'.dir
  BY <1>3, <1>4, <1>6 DEF MInv, MirrorInv
<1>8. MirrorInv' /\ OpInv' /\ EmptyInv'
  BY <1>2, <1>4, <1>5, <1>7, Entered DEF MInv
<1> QED BY <1>3, <1>8, CallIdentity DEF Rest

(* Every call keeps it.                                                     *)
LEMMA CallRest == ASSUME MInv, NEW t \in Tasks, Call(t) PROVE Rest'
<1>1. CASE InitDirectory(t)
  <2>1. ~busy
    BY <1>1 DEF InitDirectory, MInv, IInv, Typed, DownIsIdle
  <2> QED BY <1>1, <2>1, EmptiedRest DEF InitDirectory, ClearCache
<1>2. CASE Unmount(t)
  BY <1>2, EmptiedRest DEF Unmount, ClearCache, Callable
<1>3. CASE MountBegin(t)
  BY <1>3, MountBeginRest
<1>4. CASE ObserveSource(t)
  BY <1>4, ObserveSourceRest
<1>5. ASSUME NEW n \in Names, NEW length \in Sizes, NEW bytes \in Payloads,
             Create(t, n, length, bytes) \/ Replace(t, n, length, bytes)
      PROVE  Rest'
  BY <1>5, CreateRest, ReplaceRest
<1>6. ASSUME NEW n \in Names, Remove(t, n) PROVE Rest'
  BY <1>6, CommitCallRest DEF Remove, medium
<1>7. ASSUME NEW n \in Names, NEW m \in Names, Rename(t, n, m) PROVE Rest'
  BY <1>7, CommitCallRest DEF Rename, medium
<1>8. ASSUME NEW n \in Names, NEW m \in Names, Copy(t, n, m) PROVE Rest'
  BY <1>8, CopyRest
<1>9. ASSUME NEW n \in Names, NEW first, NEW last, Read(t, n, first, last) PROVE Rest'
  BY <1>9, ReadRest
<1> QED BY <1>1, <1>2, <1>3, <1>4, <1>5, <1>6, <1>7, <1>8, <1>9 DEF Call

-----------------------------------------------------------------------------
(* The callbacks: mount.                                                   *)

(* What holds in every step of a mount.                                     *)
LEMMA MountFacts ==
    ASSUME MInv, NEW t \in Tasks, op[t].phase \in MountPhases
    PROVE  /\ Active(t) /\ st = "UNMOUNTED" /\ op[t] \in Op
           /\ cache \in [dir : Directory, crc : Directory]
           /\ disk \in [dir : Directory, crc : Directory]
BY DEF MInv, IInv, Typed, TypeOK, Sound, PhaseState, MountPhases, Active

(* A mount is refused: the instance is empty again.                        *)
LEMMA MountRefused ==
    ASSUME MInv, NEW t \in Tasks, op[t].phase \in MountPhases, Return(t), ClearCache,
           UNCHANGED <<st, source, held>>
    PROVE  Rest'
<1>1. Active(t) /\ st = "UNMOUNTED" /\ cache'.dir = EmptyDirectory
  BY MountFacts DEF ClearCache
<1>2. \A u \in Tasks : op'[u].phase = "idle"
  BY <1>1, Returned DEF MInv
<1>3. IdentityInv'
  BY <1>1, SameIdentity DEF MInv
<1> QED BY <1>1, <1>2, <1>3, Quiet DEF Rest, EmptyInv

(* What mount accepts is what is on the medium.                            *)
LEMMA VerdictRest ==
    ASSUME MInv, NEW t \in Tasks, op[t].phase \in MountPhases, MountVerdict(t, disk),
           header = "accepted", UNCHANGED <<medium, held>>
    PROVE  Rest'
<1>1. Active(t) /\ Return(t) /\ disk' = disk /\ header' = header /\ held' = held
  BY MountFacts DEF MountVerdict, medium
<1>2. CASE validate_directory(disk)
  <2>1. /\ cache' = disk /\ st' = "MOUNTED" /\ source' = source_identity_allocate(source)
        /\ disk.crc = disk.dir
    BY <1>2 DEF MountVerdict, validate_directory
  <2>2. IdentityInv'
    BY <1>1, <2>1, NewIdentity DEF MInv
  <2>3. \A u \in Tasks : op'[u].phase = "idle"
    BY <1>1, Returned DEF MInv
  <2> QED BY <1>1, <2>1, <2>2, <2>3, Quiet DEF Rest, EmptyInv
<1>3. CASE ~validate_directory(disk)
  BY <1>1, <1>3, MountRefused DEF MountVerdict
<1> QED BY <1>2, <1>3

(* Mount goes on to its next callback.                                     *)
LEMMA MountGoesOn ==
    ASSUME MInv, NEW t \in Tasks, op[t].phase \in MountPhases, NEW o, Enter(t, o),
           o.phase \in {"header", "directory"},
           LoadOk(o, cache', disk', header'), UNCHANGED <<st, source, held>>
    PROVE  Rest'
<1>1. Active(t) /\ st = "UNMOUNTED"
  BY MountFacts
<1>2. OpOk(o, cache', disk', header', data')
  BY DEF OpOk, CommitOk, DataOk, DataPhases
<1>3. MirrorInv' /\ OpInv' /\ EmptyInv'
  BY <1>1, <1>2, Entered DEF MInv
<1>4. ~Stable'
  BY DEF Stable, MountPhases, Enter, MInv, IInv, Typed, TypeOK
<1> QED BY <1>1, <1>3, <1>4, SameIdentity DEF Rest, MInv

(* The capacity check of a mount keeps it.                                  *)
LEMMA MountCapacityRest == ASSUME MInv, NEW t \in Tasks, MountCapacity(t) PROVE Rest'
<1> DEFINE o == [op[t] EXCEPT !.phase = "header"]
<1>1. op[t].phase \in MountPhases /\ op[t] \in Op /\ UNCHANGED <<st, source, held>>
  BY MountFacts DEF MountCapacity, MountPhases
<1>2. CASE Enter(t, o)
  <2>1. o.phase = "header"
    BY <1>1 DEF Op
  <2> HIDE DEF o
  <2> QED BY <1>1, <1>2, <2>1, MountGoesOn DEF LoadOk
<1>3. CASE Return(t) /\ ClearCache
  BY <1>1, <1>3, MountRefused
<1> QED BY <1>2, <1>3 DEF MountCapacity

(* With one directory block the first read brings all of it.               *)
LEMMA MountReadHeaderRest == ASSUME MInv, NEW t \in Tasks, MountReadHeader(t) PROVE Rest'
<1> DEFINE d == [dir |-> WithBlock(cache.dir, disk.dir, 0), crc |-> disk.crc]
           o == [op[t] EXCEPT !.phase = "directory", !.i = 1]
<1>1. /\ op[t].phase \in MountPhases /\ op[t] \in Op /\ UNCHANGED <<medium, held>>
      /\ disk \in [dir : Directory, crc : Directory]
  BY MountFacts DEF MountReadHeader, MountPhases
<1>2. CASE Return(t) /\ ClearCache /\ UNCHANGED <<st, source>>
  BY <1>1, <1>2, MountRefused
<1>3. CASE header = "accepted" /\ D = 1 /\ MountVerdict(t, d)
  <2>1. \A s \in Slots : entry_block(s) = 0
    BY <1>3, SlotBlock
  <2>2. WithBlock(cache.dir, disk.dir, 0) = disk.dir
    BY <1>1, <2>1 DEF WithBlock, Directory
  <2>3. d = disk
    BY <1>1, <2>2
  <2> QED BY <1>1, <1>3, <2>3, VerdictRest
<1>4. CASE header = "accepted" /\ D > 1 /\ cache' = d /\ Enter(t, o) /\ UNCHANGED <<st, source>>
  <2>1. o.phase = "directory" /\ o.i = 1
    BY <1>1 DEF Op
  <2>2. ASSUME NEW s \in Slots, entry_block(s) < 1 PROVE cache'.dir[s] = disk.dir[s]
    <3>1. entry_block(s) = 0
      BY <2>2, SlotBlock, GeometryAssumption
    <3> QED BY <1>4, <3>1 DEF WithBlock
  <2>3. cache'.crc = disk.crc /\ disk' = disk /\ header' = header /\ 1 \in 1 .. (D - 1)
    BY <1>1, <1>4, GeometryAssumption DEF medium
  <2> HIDE DEF o
  <2>4. LoadOk(o, cache', disk', header')
    BY <1>4, <2>1, <2>2, <2>3 DEF LoadOk
  <2> QED BY <1>1, <1>4, <2>1, <2>4, MountGoesOn
<1> QED BY <1>2, <1>3, <1>4 DEF MountReadHeader

(* With the last block the cache holds the directory of the medium.        *)
LEMMA MountReadDirectoryRest == ASSUME MInv, NEW t \in Tasks, MountReadDirectory(t) PROVE Rest'
<1> DEFINE d == [cache EXCEPT !.dir = WithBlock(cache.dir, disk.dir, op[t].i)]
           o == [op[t] EXCEPT !.i = op[t].i + 1]
<1>1. /\ op[t].phase \in MountPhases /\ op[t] \in Op /\ UNCHANGED <<medium, held>>
      /\ op[t].phase = "directory"
      /\ cache \in [dir : Directory, crc : Directory]
      /\ disk \in [dir : Directory, crc : Directory]
  BY MountFacts DEF MountReadDirectory, MountPhases
<1>2. /\ header = "accepted" /\ op[t].i \in 1 .. (D - 1) /\ cache.crc = disk.crc
      /\ \A s \in Slots : entry_block(s) < op[t].i => cache.dir[s] = disk.dir[s]
  BY <1>1 DEF MInv, OpInv, OpOk, LoadOk
<1>3. ASSUME NEW s \in Slots, entry_block(s) < op[t].i + 1
      PROVE  WithBlock(cache.dir, disk.dir, op[t].i)[s] = disk.dir[s]
  <2>1. entry_block(s) < op[t].i \/ entry_block(s) = op[t].i
    BY <1>2, <1>3, SlotBlock, GeometryAssumption
  <2> QED BY <1>2, <2>1 DEF WithBlock
<1>4. d.dir = WithBlock(cache.dir, disk.dir, op[t].i) /\ d.crc = disk.crc
  BY <1>1, <1>2
<1>5. CASE op[t].i + 1 < D
  <2>1. cache' = d /\ Enter(t, o) /\ UNCHANGED <<st, source>>
    BY <1>5 DEF MountReadDirectory
  <2>2. o.phase = "directory" /\ o.i = op[t].i + 1
    BY <1>1 DEF Op
  <2>3. o.i \in 1 .. (D - 1) /\ disk' = disk /\ header' = header
    BY <1>1, <1>2, <1>5, <2>2, GeometryAssumption DEF medium
  <2> HIDE DEF o, d
  <2>4. LoadOk(o, cache', disk', header')
    BY <1>2, <1>3, <1>4, <2>1, <2>2, <2>3 DEF LoadOk
  <2> QED BY <1>1, <2>1, <2>2, <2>4, MountGoesOn
<1>6. CASE ~(op[t].i + 1 < D)
  <2>1. MountVerdict(t, d)
    BY <1>6 DEF MountReadDirectory
  <2>2. \A s \in Slots : entry_block(s) < op[t].i + 1
    BY <1>2, <1>6, SlotBlock, GeometryAssumption
  <2>3. WithBlock(cache.dir, disk.dir, op[t].i) = disk.dir
    BY <1>1, <1>3, <2>2 DEF WithBlock, Directory
  <2>4. d = disk
    BY <1>1, <1>2, <2>3
  <2> QED BY <1>1, <1>2, <2>1, <2>4, VerdictRest
<1> QED BY <1>5, <1>6

-----------------------------------------------------------------------------
(* The callbacks: data.                                                    *)

(* What holds in every step of a write: the directory in memory is the      *)
(* medium's, and what is about to be published is sound.                    *)
LEMMA WriteFacts ==
    ASSUME MInv, NEW t \in Tasks, op[t].phase \in WritePhases
    PROVE  /\ Active(t) /\ st = "MOUNTED" /\ op[t] \in Op /\ DirectorySound(cache.dir)
           /\ cache = disk /\ header = "accepted" /\ cache.dir \in Directory
           /\ OpOk(op[t], cache, disk, header, data) /\ DirectorySound(Edited(t))
           /\ op[t].phase # "publish" \/ entry_block(op[t].slot) = 0 => disk.crc = disk.dir
<1>1. /\ Active(t) /\ st = "MOUNTED" /\ op[t] \in Op /\ DirectorySound(cache.dir)
      /\ DirectorySound(Edited(t)) /\ cache.dir \in Directory
  BY DEF MInv, IInv, Typed, TypeOK, Sound, EditsSound, CacheSound, WritePhases, Active
<1>2. cache = disk /\ header = "accepted" /\ OpOk(op[t], cache, disk, header, data)
  BY <1>1 DEF MInv, MirrorInv, OpInv
<1>3. ASSUME op[t].phase # "publish" \/ entry_block(op[t].slot) = 0
      PROVE  disk.crc = disk.dir
  <2>1. \A u \in Tasks : op[u].phase = "publish" => entry_block(op[u].slot) = 0
    BY <1>1, <1>3, OthersIdle DEF MInv, IInv
  <2> QED BY <1>1, <2>1 DEF MInv, MirrorInv
<1> QED BY <1>1, <1>2, <1>3

(* The block an operation writes is no file's.                             *)
LEMMA OwnExtent ==
    ASSUME MInv, NEW t \in Tasks, op[t].phase \in DataPhases
    PROVE  LET o == op[t]
               b == o.entry.start + o.i
           IN  /\ b \in Extent(o.entry) /\ b \notin UsedBlocks(cache.dir)
               /\ o.i \in Nat /\ o.end \in Nat /\ o.i < o.end /\ o.entry.start \in Nat
               /\ o.from \in Nat /\ o.entry.size # 0 /\ o.end = o.entry.count
               /\ \A j \in 0 .. (o.end - 1) : o.entry.start + j \in Extent(o.entry)
<1>1. /\ op[t].entry.size # 0 /\ op[t].end = op[t].entry.count /\ op[t].i < op[t].end
      /\ Extent(op[t].entry) \cap UsedBlocks(cache.dir) = {} /\ op[t] \in Op
  BY WriteFacts DEF OpOk, DataOk, DataPhases, WritePhases
<1>2. /\ op[t].i \in Nat /\ op[t].end \in Nat /\ op[t].entry \in Entry /\ op[t].from \in Nat
      /\ op[t].entry.start \in Nat
  BY <1>1 DEF Op, Entry
<1>3. Extent(op[t].entry) = op[t].entry.start .. (op[t].entry.start + op[t].end - 1)
  BY <1>1 DEF Extent
<1>4. \A j \in 0 .. (op[t].end - 1) : op[t].entry.start + j \in Extent(op[t].entry)
  BY <1>2, <1>3
<1>5. op[t].entry.start + op[t].i \in Extent(op[t].entry)
  BY <1>1, <1>2, <1>4
<1> QED BY <1>1, <1>2, <1>4, <1>5

(* No file notices what is written outside of its blocks.                  *)
LEMMA DataIdentity ==
    ASSUME MInv, NEW t \in Tasks, op[t].phase \in DataPhases,
           UNCHANGED <<source, held, st, cache>>,
           \A b \in UsedBlocks(cache.dir) : data'[b] = data[b]
    PROVE  IdentityInv'
<1>1. /\ Active(t) /\ st = "MOUNTED" /\ DirectorySound(cache.dir) /\ cache.dir \in Directory
      /\ op[t].phase \in WritePhases
  BY WriteFacts DEF DataPhases, WritePhases
<1>2. Stable
  BY <1>1, OthersIdle DEF MInv, IInv, Stable, MountPhases, DataPhases
<1>3. Files(cache.dir, data') = Files(cache.dir, data)
  BY <1>1, SameFiles
<1> QED BY <1>1, <1>2, <1>3, SameIdentity DEF MInv

(* The block an operation has to write is written.                         *)
LEMMA BlockWritten ==
    ASSUME MInv, NEW t \in Tasks, op[t].phase \in {"payload", "store"},
           NEW v, data' = [data EXCEPT ![op[t].entry.start + op[t].i] = v],
           v = IF op[t].phase = "store" THEN op[t].block ELSE <<op[t].bytes, op[t].i>>
    PROVE  LET o == op[t]
           IN  /\ \A b \in UsedBlocks(cache.dir) : data'[b] = data[b]
               /\ o.phase = "payload" =>
                     \A j \in 0 .. o.i : data'[o.entry.start + j] = <<o.bytes, j>>
               /\ o.phase = "store" =>
                     \A j \in 0 .. o.i : data'[o.entry.start + j] = data'[o.from + j]
<1> DEFINE o == op[t]
           b == o.entry.start + o.i
<1>1. /\ b \in Extent(o.entry) /\ b \notin UsedBlocks(cache.dir) /\ o.i \in Nat
      /\ o.end \in Nat /\ o.i < o.end /\ o.entry.start \in Nat /\ o.from \in Nat
      /\ \A j \in 0 .. (o.end - 1) : o.entry.start + j \in Extent(o.entry)
  BY OwnExtent DEF DataPhases
<1>2. o.phase \in DataPhases /\ DataOk(o, cache.dir, data)
  BY DEF DataPhases, MInv, OpInv, OpOk
<1>3. data \in [DataBlocks -> Content]
  BY DEF MInv, IInv, Typed, TypeOK
<1>4. Extent(o.entry) \subseteq DataBlocks /\ UsedBlocks(cache.dir) \subseteq DataBlocks
  <2>1. /\ Edited(t)[o.slot] = o.entry /\ o.slot \in Slots /\ o.entry \in Entry
        /\ cache.dir \in Directory /\ DirectorySound(cache.dir)
    BY WriteFacts DEF Edited, Op, Directory, WritePhases
  <2>2. EntryValid(o.entry)
    BY <2>1, WriteFacts DEF DirectorySound, WritePhases
  <2> QED BY <2>1, <2>2, EntryInside, UsedInside
<1>5. data'[b] = v /\ \A c \in DataBlocks : c # b => data'[c] = data[c]
  BY <1>1, <1>3, <1>4
<1> HIDE DEF b
<1>6. \A c \in UsedBlocks(cache.dir) : data'[c] = data[c]
  BY <1>1, <1>4, <1>5
<1>7. \A j \in 0 .. o.i : /\ o.entry.start + j \in DataBlocks
                          /\ j = o.i \/ (j \in 0 .. (o.i - 1) /\ o.entry.start + j # b)
  BY <1>1, <1>4 DEF b
<1>8. ASSUME o.phase = "payload", NEW j \in 0 .. o.i
      PROVE  data'[o.entry.start + j] = <<o.bytes, j>>
  BY <1>2, <1>5, <1>7, <1>8 DEF DataOk, b
<1>9. ASSUME o.phase = "store", NEW j \in 0 .. o.i
      PROVE  data'[o.entry.start + j] = data'[o.from + j]
  <2>1. o.from + j \in UsedBlocks(cache.dir)
    BY <1>1, <1>2, <1>9 DEF DataOk
  <2>2. data'[o.from + j] = data[o.from + j]
    BY <1>6, <2>1
  <2> QED BY <1>2, <1>5, <1>7, <1>9, <2>2 DEF DataOk, b
<1> QED BY <1>6, <1>8, <1>9

(* After a block: the next one, or the commit of the entry.                *)
LEMMA NextBlockRest ==
    ASSUME MInv, NEW t \in Tasks, op[t].phase \in {"payload", "store"}, NEW v, NEW phase,
           data' = [data EXCEPT ![op[t].entry.start + op[t].i] = v],
           v = IF op[t].phase = "store" THEN op[t].block ELSE <<op[t].bytes, op[t].i>>,
           phase = IF op[t].phase = "store" THEN "fetch" ELSE "payload",
           NextBlock(t, phase), UNCHANGED <<disk, header, st, cache, source, held>>
    PROVE  Rest'
<1>1. /\ Active(t) /\ st = "MOUNTED" /\ op[t] \in Op /\ op[t].phase \in DataPhases
      /\ cache = disk /\ header = "accepted" /\ disk.crc = disk.dir
      /\ DataOk(op[t], cache.dir, data)
  BY WriteFacts DEF DataPhases, WritePhases, OpOk
<1>2. /\ \A b \in UsedBlocks(cache.dir) : data'[b] = data[b]
      /\ op[t].phase = "payload" =>
            \A j \in 0 .. op[t].i : data'[op[t].entry.start + j] = <<op[t].bytes, j>>
      /\ op[t].phase = "store" =>
            \A j \in 0 .. op[t].i :
               data'[op[t].entry.start + j] = data'[op[t].from + j]
  BY BlockWritten
<1>3. IdentityInv'
  BY <1>1, <1>2, DataIdentity
<1>4. CASE op[t].i + 1 < op[t].end
  <2> DEFINE o == [op[t] EXCEPT !.phase = phase, !.i = op[t].i + 1]
  <2>1. /\ o.phase = phase /\ o.entry = op[t].entry /\ o.bytes = op[t].bytes
        /\ o.i = op[t].i + 1 /\ o.end = op[t].end /\ o.from = op[t].from
    BY <1>1 DEF Op
  <2>2. Enter(t, o)
    BY <1>4 DEF NextBlock
  <2> HIDE DEF o
  <2>3. op[t].i \in Nat /\ op[t].i + 1 - 1 = op[t].i
    BY <1>1 DEF Op
  <2>4. o.phase \in {"payload", "fetch"} /\ (o.phase = "payload" <=> op[t].phase = "payload")
    BY <2>1
  <2>5. /\ o.entry.size # 0 /\ o.end = o.entry.count /\ o.i < o.end
        /\ Extent(o.entry) \cap UsedBlocks(cache.dir) = {}
    BY <1>1, <1>4, <2>1 DEF DataOk
  <2>6. ASSUME o.phase = "payload", NEW j \in 0 .. (o.i - 1)
        PROVE  data'[o.entry.start + j] = <<o.bytes, j>>
    <3>1. j \in 0 .. op[t].i
      BY <2>1, <2>3
    <3>2. data'[op[t].entry.start + j] = <<op[t].bytes, j>>
      BY <1>2, <2>4, <2>6, <3>1
    <3> QED BY <2>1, <3>2
  <2>7. ASSUME o.phase # "payload"
        PROVE  /\ \A j \in 0 .. (o.end - 1) : o.from + j \in UsedBlocks(cache.dir)
               /\ \A j \in 0 .. (o.i - 1) : data'[o.entry.start + j] = data'[o.from + j]
    <3>1. op[t].phase = "store"
      BY <2>4, <2>7
    <3>2. \A j \in 0 .. (op[t].end - 1) : op[t].from + j \in UsedBlocks(cache.dir)
      BY <1>1, <3>1 DEF DataOk
    <3>3. \A j \in 0 .. op[t].i : data'[op[t].entry.start + j] = data'[op[t].from + j]
      BY <1>2, <3>1
    <3> QED BY <2>1, <2>3, <3>2, <3>3
  <2>8. DataOk(o, cache'.dir, data')
    BY <2>4, <2>5, <2>6, <2>7 DEF DataOk
  <2>9. OpOk(o, cache', disk', header', data')
    BY <2>4, <2>8 DEF OpOk, CommitOk, LoadOk
  <2>10. MirrorInv' /\ OpInv' /\ EmptyInv'
    BY <1>1, <2>2, <2>9, Entered DEF MInv
  <2> QED BY <1>3, <2>10 DEF Rest
<1>5. CASE ~(op[t].i + 1 < op[t].end)
  <2>1. BeginCommit(t, op[t].slot, op[t].entry)
    BY <1>5 DEF NextBlock
  <2>2. MirrorInv' /\ OpInv' /\ EmptyInv'
    BY <1>1, <2>1, CommitBegins
  <2> QED BY <1>3, <2>2 DEF Rest
<1> QED BY <1>4, <1>5

(* The write of a payload block changes no block of a file.                 *)
LEMMA WritePayloadRest == ASSUME MInv, NEW t \in Tasks, WritePayload(t) PROVE Rest'
BY NextBlockRest DEF WritePayload

(* Nor does the write of a copied block.                                    *)
LEMMA CopyStoreRest == ASSUME MInv, NEW t \in Tasks, CopyStore(t) PROVE Rest'
BY NextBlockRest DEF CopyStore

(* A fetched block is what the copy will store next.                       *)
LEMMA CopyFetchRest == ASSUME MInv, NEW t \in Tasks, CopyFetch(t) PROVE Rest'
<1> DEFINE o == [op[t] EXCEPT !.phase = "store", !.block = data[op[t].from + op[t].i]]
<1>1. /\ op[t].phase = "fetch" /\ Enter(t, o)
      /\ UNCHANGED <<disk, data, header, st, cache, source, held>>
  BY DEF CopyFetch, medium
<1>2. /\ Active(t) /\ st = "MOUNTED" /\ op[t] \in Op /\ op[t].phase \in DataPhases
      /\ cache = disk /\ header = "accepted" /\ disk.crc = disk.dir
      /\ DataOk(op[t], cache.dir, data)
  BY <1>1, WriteFacts DEF DataPhases, WritePhases, OpOk
<1>3. /\ o.phase = "store" /\ o.entry = op[t].entry /\ o.from = op[t].from
      /\ o.i = op[t].i /\ o.end = op[t].end /\ o.block = data[op[t].from + op[t].i]
  BY <1>2 DEF Op
<1> HIDE DEF o
<1>4. DataOk(o, cache'.dir, data')
  BY <1>1, <1>2, <1>3 DEF DataOk, DataPhases
<1>5. OpOk(o, cache', disk', header', data')
  BY <1>3, <1>4 DEF OpOk, CommitOk, LoadOk
<1>6. MirrorInv' /\ OpInv' /\ EmptyInv'
  BY <1>1, <1>2, <1>5, Entered DEF MInv
<1>7. IdentityInv'
  BY <1>1, <1>2, DataIdentity
<1> QED BY <1>6, <1>7 DEF Rest

-----------------------------------------------------------------------------
(* The callbacks: the commit.                                              *)

(* The directory block reaches the medium and the cache together.          *)
LEMMA CommitEntryBlockRest == ASSUME MInv, NEW t \in Tasks, CommitEntryBlock(t) PROVE Rest'
<1> DEFINE o == [op[t] EXCEPT !.phase = "publish"]
           new == Edited(t)
<1>1. /\ op[t].phase = "entry" /\ Enter(t, o) /\ cache' = [cache EXCEPT !.dir = new]
      /\ disk' = [disk EXCEPT !.dir = WithBlock(disk.dir, new, entry_block(op[t].slot))]
      /\ UNCHANGED <<data, header, st, source, held>>
  BY DEF CommitEntryBlock
<1>2. /\ Active(t) /\ st = "MOUNTED" /\ op[t] \in Op /\ cache = disk /\ header = "accepted"
      /\ entry_block(op[t].slot) # 0 /\ cache.dir \in Directory
      /\ disk \in [dir : Directory, crc : Directory]
  BY <1>1, WriteFacts DEF WritePhases, OpOk, CommitOk, MInv, IInv, Typed, TypeOK
<1>3. /\ o.phase = "publish" /\ o.slot = op[t].slot /\ o.entry = op[t].entry
      /\ op[t].slot \in Slots
  BY <1>2 DEF Op
<1>4. WithBlock(disk.dir, new, entry_block(op[t].slot)) = new
  BY <1>2, <1>3, EditBlock DEF Edited
<1>5. new[op[t].slot] = op[t].entry
  BY <1>2, <1>3 DEF Edited, Directory
<1> HIDE DEF o, new
<1>6. cache' = disk' /\ cache'.dir = new
  BY <1>1, <1>2, <1>4
<1>7. OpOk(o, cache', disk', header', data')
  BY <1>3, <1>5, <1>6 DEF OpOk, CommitOk, LoadOk, DataOk, DataPhases
<1>8. MirrorInv' /\ OpInv' /\ EmptyInv'
  BY <1>1, <1>2, <1>3, <1>6, <1>7, Entered DEF MInv
<1>9. ~Stable'
  BY <1>1, <1>3 DEF Stable, Enter, MInv, IInv, Typed, TypeOK
<1> QED BY <1>1, <1>2, <1>8, <1>9, SameIdentity DEF Rest, MInv

(* What the last write of a commit leaves on the medium.                   *)
LEMMA PublishedImage ==
    ASSUME MInv, NEW t \in Tasks, op[t].phase = "publish"
    PROVE  WithBlock(disk.dir, Edited(t), 0) = Edited(t)
<1>1. /\ op[t] \in Op /\ cache = disk /\ cache.dir \in Directory
      /\ entry_block(op[t].slot) # 0 => cache.dir[op[t].slot] = op[t].entry
  BY WriteFacts DEF WritePhases, OpOk, CommitOk
<1>2. op[t].slot \in Slots
  BY <1>1 DEF Op
<1>3. CASE entry_block(op[t].slot) = 0
  BY <1>1, <1>2, <1>3, EditBlock DEF Edited
<1>4. CASE entry_block(op[t].slot) # 0
  <2>1. Edited(t) = cache.dir
    BY <1>1, <1>2, <1>4 DEF Edited, Directory
  <2> QED BY <1>1, <2>1, SameBlock
<1> QED BY <1>3, <1>4

(* The write of block 0 publishes the entry under a new identity, on the    *)
(* medium and in memory.                                                    *)
LEMMA CommitBlockZeroRest == ASSUME MInv, NEW t \in Tasks, CommitBlockZero(t) PROVE Rest'
<1>1. /\ op[t].phase = "publish" /\ Return(t) /\ held' = held
      /\ disk' = [dir |-> WithBlock(disk.dir, Edited(t), 0), crc |-> Edited(t)]
      /\ cache' = [dir |-> Edited(t), crc |-> Edited(t)]
      /\ source' = source_identity_allocate(source) /\ UNCHANGED <<header, st>>
  BY DEF CommitBlockZero
<1>2. Active(t) /\ st = "MOUNTED" /\ header = "accepted"
  BY <1>1, WriteFacts DEF WritePhases
<1>3. cache' = disk' /\ disk'.crc = disk'.dir
  BY <1>1, PublishedImage
<1>4. \A u \in Tasks : op'[u].phase = "idle"
  BY <1>1, <1>2, Returned DEF MInv
<1>5. IdentityInv'
  BY <1>1, NewIdentity DEF MInv
<1> QED BY <1>1, <1>2, <1>3, <1>4, <1>5, Quiet DEF Rest, EmptyInv

(* A failure faults the instance, which no part of this invariant is about.*)
LEMMA FaultRest ==
    ASSUME MInv, NEW t \in Tasks, Active(t), fault_io, Return(t), held' = held
    PROVE  Rest'
<1>1. st' = "FAULTED" /\ source' = source_identity_allocate(source)
  BY DEF fault_io
<1>2. \A u \in Tasks : op'[u].phase = "idle"
  BY Returned DEF MInv
<1>3. IdentityInv'
  BY <1>1, NewIdentity DEF MInv
<1> QED BY <1>1, <1>2, <1>3, Quiet DEF Rest, EmptyInv

(* A read of one block keeps it.                                            *)
LEMMA ReadBlockRest == ASSUME MInv, NEW t \in Tasks, ReadBlock(t) PROVE Rest'
<1> DEFINE o == [op[t] EXCEPT !.i = op[t].i + 1]
<1>1. /\ op[t].phase = "read" /\ op[t] \in Op /\ Active(t) /\ st = "MOUNTED"
      /\ UNCHANGED <<disk, data, header, st, cache, source, held>>
  BY DEF ReadBlock, medium, Active, MInv, IInv, Typed, TypeOK, Sound, PhaseState
<1>2. \A u \in Tasks : op[u].phase \notin MountPhases \cup {"publish"}
  BY <1>1, OthersIdle DEF MInv, IInv, MountPhases
<1>3. cache' = disk' /\ header' = "accepted" /\ disk'.crc = disk'.dir
  BY <1>1, <1>2 DEF MInv, MirrorInv
<1>4. IdentityInv'
  BY <1>1, <1>2, SameIdentity DEF MInv, Stable
<1>5. CASE Enter(t, o)
  <2>1. o.phase = "read"
    BY <1>1 DEF Op
  <2> HIDE DEF o
  <2>2. OpOk(o, cache', disk', header', data')
    BY <2>1 DEF OpOk, CommitOk, LoadOk, DataOk, DataPhases
  <2>3. MirrorInv' /\ OpInv' /\ EmptyInv'
    BY <1>1, <1>3, <1>5, <2>2, Entered DEF MInv
  <2> QED BY <1>4, <2>3 DEF Rest
<1>6. CASE Return(t)
  <2>1. \A u \in Tasks : op'[u].phase = "idle"
    BY <1>1, <1>6, Returned DEF MInv
  <2> QED BY <1>1, <1>3, <1>4, <2>1, Quiet DEF Rest, EmptyInv
<1> QED BY <1>5, <1>6 DEF ReadBlock

(* A program that starts again has no instance, no task inside of the file *)
(* system, and no identity.                                                *)
LEMMA CrashRest == ASSUME MInv, Crash PROVE Rest'
<1>1. /\ st' = "UNINIT" /\ op' = [t \in Tasks |-> Idle] /\ source' = FirstSource
      /\ held' = NothingHeld
  BY DEF Crash
<1>2. \A u \in Tasks : op'[u].phase = "idle"
  BY <1>1, IdleType
<1>3. ~Cacheable' /\ held'.token = 0 /\ source'.serial = 0
  BY <1>1 DEF Cacheable, FirstSource, NothingHeld
<1>4. IdentityInv'
  BY <1>3 DEF IdentityInv
<1> QED BY <1>1, <1>2, <1>4, Quiet DEF Rest, EmptyInv

(* A step that changes nothing keeps it.                                    *)
LEMMA StutterRest == ASSUME MInv, UNCHANGED vars PROVE Rest'
BY DEF vars, MInv, Rest, MirrorInv, OpInv, EmptyInv, IdentityInv, Stable, View, Cacheable

(* Every step of an operation under way keeps it.                           *)
LEMMA CallbackRest == ASSUME MInv, NEW t \in Tasks, Callback(t) PROVE Rest'
<1>1. CASE MountCapacity(t) \/ MountReadHeader(t) \/ MountReadDirectory(t)
  BY <1>1, MountCapacityRest, MountReadHeaderRest, MountReadDirectoryRest
<1>2. CASE WritePayload(t) \/ CopyFetch(t) \/ CopyStore(t)
  BY <1>2, WritePayloadRest, CopyFetchRest, CopyStoreRest
<1>3. CASE CommitEntryBlock(t) \/ CommitBlockZero(t) \/ ReadBlock(t)
  BY <1>3, CommitEntryBlockRest, CommitBlockZeroRest, ReadBlockRest
<1>4. CASE MountFails(t) \/ ReadFails(t) \/ DataWriteFails(t) \/ EntryBlockFails(t)
           \/ BlockZeroFails(t)
  <2>1. Active(t) /\ fault_io /\ Return(t) /\ held' = held
    BY <1>4 DEF Active, MountFails, ReadFails, DataWriteFails, EntryBlockFails,
                BlockZeroFails
  <2> QED BY <2>1, FaultRest
<1> QED BY <1>1, <1>2, <1>3, <1>4 DEF Callback

(* The invariant is inductive.                                             *)
LEMMA MediumInductive == MInv /\ [Next]_vars => MInv'
<1>1. ASSUME MInv, [Next]_vars PROVE Rest'
  BY <1>1, CallRest, CallbackRest, CrashRest, StutterRest DEF Next
<1>2. ASSUME MInv, [Next]_vars PROVE IInv'
  BY <1>2, Inductive DEF MInv
<1> QED BY <1>1, <1>2 DEF MInv, Rest

(* The invariant of the medium holds at the start.                          *)
LEMMA MediumInitial == Init => MInv
<1> SUFFICES ASSUME Init PROVE MInv
  OBVIOUS
<1>1. IInv
  BY Initially, InitialSound DEF IInv
<1>2. /\ st = "UNINIT" /\ source = FirstSource /\ held = NothingHeld
      /\ \A u \in Tasks : op[u].phase = "idle"
  BY IdleType DEF Init
<1>3. ~Cacheable /\ held.token = 0 /\ source.serial = 0
  BY <1>2 DEF Cacheable, FirstSource, NothingHeld
<1> QED BY <1>1, <1>2, <1>3, IdleOk DEF MInv, MirrorInv, OpInv, EmptyInv, IdentityInv

(* The medium and the directory in memory agree up to the operation there  *)
(* is, what an operation has written lies in an extent of its own, and no  *)
(* source identity is given out twice, in every reachable state.           *)
THEOREM MediumInvariance == Spec => []MInv
BY MediumInitial, MediumInductive, PTL DEF Spec

-----------------------------------------------------------------------------
(* The properties of the medium.                                           *)

(* Between operations a mounted instance shows exactly the directory on the*)
(* medium, mount would accept that directory, and the name index lists its *)
(* live slots in name order.                                               *)
THEOREM CacheIsMediumHolds == Spec => []CacheIsMedium
<1>1. MInv => CacheIsMedium
  <2>1. SUFFICES ASSUME MInv, st = "MOUNTED", ~busy
                 PROVE  /\ cache = disk /\ header = "accepted" /\ validate_directory(disk)
                        /\ IsNameOrder(order, cache.dir)
    BY DEF CacheIsMedium
  <2>2. \A u \in Tasks : op[u].phase # "publish"
    BY <2>1 DEF MInv, IInv, Typed, OneOperation, Active
  <2>3. cache = disk /\ header = "accepted" /\ disk.crc = disk.dir
    BY <2>1, <2>2 DEF MInv, MirrorInv
  <2>4. DirectorySound(cache.dir) /\ IsNameOrder(order, cache.dir)
    BY <2>1, <2>2 DEF MInv, IInv, Sound, CacheSound, Indexed
  <2> QED BY <2>3, <2>4 DEF validate_directory
<1> QED BY <1>1, MediumInvariance, PTL

(* Between operations a cacheable source identity that an observer is told *)
(* a second time stands for the same instance state and the same files.    *)
THEOREM IdentityNamesContentsHolds == Spec => []IdentityNamesContents
<1>1. MInv => IdentityNamesContents
  <2>1. SUFFICES ASSUME MInv, ~busy, Cacheable, source.token = held.token
                 PROVE  View = held.view
    BY DEF IdentityNamesContents
  <2>2. Stable
    BY <2>1 DEF MInv, IInv, Typed, OneOperation, Active, Stable, MountPhases
  <2> QED BY <2>1, <2>2 DEF MInv, IdentityInv
<1> QED BY <1>1, MediumInvariance, PTL

(* A block of data is written where no file is, whether the write succeeds *)
(* or not.                                                                 *)
LEMMA DataWrites ==
    ASSUME MInv, NEW t \in Tasks, op[t].phase \in DataPhases, NEW v,
           data' = [data EXCEPT ![op[t].entry.start + op[t].i] = v],
           NEW b \in UsedBlocks(disk.dir) \cap DataBlocks
    PROVE  data'[b] = data[b]
<1>1. cache = disk /\ data \in [DataBlocks -> Content]
  BY WriteFacts DEF DataPhases, WritePhases, MInv, IInv, Typed, TypeOK
<1>2. op[t].entry.start + op[t].i # b
  BY <1>1, OwnExtent
<1> QED BY <1>1, <1>2

(* Only three steps write data blocks.                                     *)
LEMMA DataStays ==
    ASSUME [Next]_vars,
           ~ \E t \in Tasks : WritePayload(t) \/ CopyStore(t) \/ DataWriteFails(t)
    PROVE  data' = data
<1>1. ASSUME NEW t \in Tasks, Call(t) PROVE data' = data
  BY <1>1 DEF Call, InitDirectory, Unmount, MountBegin, ObserveSource, Create, Replace,
              Remove, Rename, Copy, Read, medium
<1>2. ASSUME NEW t \in Tasks, Callback(t) PROVE data' = data
  BY <1>2 DEF Callback, MountCapacity, MountReadHeader, MountReadDirectory, CopyFetch,
              CommitEntryBlock, CommitBlockZero, ReadBlock, MountFails, ReadFails,
              EntryBlockFails, BlockZeroFails, medium
<1> QED BY <1>1, <1>2 DEF Next, vars, Crash, medium

(* Copy on write: no step, failed writes and crashes included, changes a   *)
(* data block that a file of a mountable image owns.                       *)
THEOREM CommittedDataKeptHolds == Spec => CommittedDataKept
<1>1. ASSUME MInv, [Next]_vars, NEW b \in UsedBlocks(disk.dir) \cap DataBlocks
      PROVE  data'[b] = data[b]
  <2>1. ASSUME NEW t \in Tasks, WritePayload(t) \/ CopyStore(t) PROVE data'[b] = data[b]
    <3>1. op[t].phase \in DataPhases
      BY <2>1 DEF WritePayload, CopyStore, DataPhases
    <3>2. \E v : data' = [data EXCEPT ![op[t].entry.start + op[t].i] = v]
      BY <2>1 DEF WritePayload, CopyStore
    <3> QED BY <1>1, <3>1, <3>2, DataWrites
  <2>2. ASSUME NEW t \in Tasks, DataWriteFails(t) PROVE data'[b] = data[b]
    <3>1. op[t].phase \in DataPhases
      BY <2>2 DEF DataWriteFails, DataPhases
    <3>2. \E v : data' = [data EXCEPT ![op[t].entry.start + op[t].i] = v]
      BY <2>2 DEF DataWriteFails
    <3> QED BY <1>1, <3>1, <3>2, DataWrites
  <2> QED BY <1>1, <2>1, <2>2, DataStays
<1>2. MInv /\ [Next]_vars
         => [validate_directory(disk) =>
               \A b \in UsedBlocks(disk.dir) \cap DataBlocks : data'[b] = data[b]]_vars
  BY <1>1
<1> QED BY <1>2, MediumInvariance, PTL DEF Spec, CommittedDataKept

(* Only a commit writes the directory.                                     *)
LEMMA DirectoryStays ==
    ASSUME [Next]_vars,
           ~ \E t \in Tasks : \/ CommitEntryBlock(t) \/ CommitBlockZero(t)
                              \/ EntryBlockFails(t) \/ BlockZeroFails(t)
    PROVE  disk' = disk
<1>1. ASSUME NEW t \in Tasks, Call(t) PROVE disk' = disk
  BY <1>1 DEF Call, InitDirectory, Unmount, MountBegin, ObserveSource, Create, Replace,
              Remove, Rename, Copy, Read, medium
<1>2. ASSUME NEW t \in Tasks, Callback(t) PROVE disk' = disk
  BY <1>2 DEF Callback, MountCapacity, MountReadHeader, MountReadDirectory, WritePayload,
              CopyFetch, CopyStore, ReadBlock, MountFails, ReadFails, DataWriteFails, medium
<1> QED BY <1>1, <1>2 DEF Next, vars, Crash, medium

(* A completed commit leaves an image that mount accepts.                  *)
LEMMA CommitValid ==
    ASSUME MInv, NEW t \in Tasks, CommitBlockZero(t)
    PROVE  validate_directory(disk')
<1>1. op[t].phase = "publish"
  BY DEF CommitBlockZero
<1>2. DirectorySound(Edited(t))
  BY <1>1, WriteFacts DEF WritePhases
<1>3. disk'.dir = Edited(t) /\ disk'.crc = Edited(t)
  BY <1>1, PublishedImage DEF CommitBlockZero
<1> QED BY <1>2, <1>3 DEF validate_directory

(* With a directory of one block only a write that the device reports as   *)
(* failed, and which faults the instance, makes an image unmountable:      *)
(* ending the program at any point does not.                               *)
THEOREM OneBlockCommitAtomicHolds == Spec => OneBlockCommitAtomic
<1>1. ASSUME MInv, [Next]_vars, D = 1, validate_directory(disk), ~validate_directory(disk')
      PROVE  st' = "FAULTED"
  <2>1. ASSUME NEW t \in Tasks, CommitEntryBlock(t) PROVE FALSE
    <3>1. op[t].phase = "entry"
      BY <2>1 DEF CommitEntryBlock
    <3>2. entry_block(op[t].slot) # 0 /\ op[t].slot \in Slots
      BY <1>1, <3>1, WriteFacts DEF WritePhases, OpOk, CommitOk, Op
    <3>3. entry_block(op[t].slot) = 0
      BY <1>1, <3>2, SlotBlock
    <3> QED BY <3>2, <3>3
  <2>2. ASSUME NEW t \in Tasks, EntryBlockFails(t) \/ BlockZeroFails(t) PROVE st' = "FAULTED"
    BY <2>2 DEF EntryBlockFails, BlockZeroFails, fault_io
  <2> QED BY <1>1, <2>1, <2>2, CommitValid, DirectoryStays
<1>2. MInv /\ [Next]_vars
         => [D = 1 /\ validate_directory(disk) /\ ~validate_directory(disk)'
               => st' = "FAULTED"]_vars
  BY <1>1
<1> QED BY <1>2, MediumInvariance, PTL DEF Spec, OneBlockCommitAtomic

-----------------------------------------------------------------------------
(* The refinement: what the abstract state is.                             *)

(* The data blocks as they will be when operation o has written its extent,*)
(* and the files there will be when its entry is in the directory dir.     *)
Plan(o, dat) ==
    [b \in DataBlocks |->
        IF b \in Extent(o.entry) /\ o.phase = "payload"
            THEN <<o.bytes, b - o.entry.start>>
        ELSE IF b \in Extent(o.entry) /\ o.phase \in {"fetch", "store"}
            THEN dat[o.from + (b - o.entry.start)]
        ELSE dat[b]]
Outcome(o, dir, dat) == Files([dir EXCEPT ![o.slot] = o.entry], Plan(o, dat))

(* An image, or an intent, of the files f.                                 *)
Present(f) == [some |-> TRUE, files |-> f]
Absence == [some |-> FALSE, files |-> {}]

(* The files of a directory other than the one of a slot.                  *)
OtherFiles(dir, slot, dat) == {FileOf(dir[s], dat) : s \in LiveSlots(dir) \ {slot}}

(* While one task writes, what is intended is the outcome of its operation. *)
LEMMA Intention ==
    ASSUME NEW t \in Tasks, op[t].phase \in WritePhases,
           \A u \in Tasks : u # t => op[u].phase = "idle"
    PROVE  intent = Present(Outcome(op[t], cache.dir, data))
<1>1. Writers = {t}
  BY DEF Writers, WritePhases
<1>2. Files(Edited(t), IntendedData(t)) = Outcome(op[t], cache.dir, data)
  BY DEF Outcome, Edited, IntendedData, Plan
<1>3. UNION {Files(Edited(u), IntendedData(u)) : u \in Writers}
         = Files(Edited(t), IntendedData(t))
  BY <1>1
<1> QED BY <1>1, <1>2, <1>3 DEF intent, Present

(* The same after a step.                                                   *)
LEMMA NextIntention ==
    ASSUME NEW t \in Tasks, op'[t].phase \in WritePhases,
           \A u \in Tasks : u # t => op'[u].phase = "idle"
    PROVE  intent' = Present(Outcome(op'[t], cache'.dir, data'))
<1>1. Writers' = {t}
  BY DEF Writers, WritePhases
<1>2. Files(Edited(t)', IntendedData(t)') = Outcome(op'[t], cache'.dir, data')
  BY DEF Outcome, Edited, IntendedData, Plan
<1>3. UNION {Files(Edited(u)', IntendedData(u)') : u \in Writers'}
         = Files(Edited(t)', IntendedData(t)')
  BY <1>1
<1>4. intent' = [some |-> Writers' # {},
                 files |-> UNION {Files(Edited(u)', IntendedData(u)') : u \in Writers'}]
  BY DEF intent
<1> QED BY <1>1, <1>2, <1>3, <1>4 DEF Present

(* While nobody writes, nothing is intended.                                *)
LEMMA NoIntention ==
    ASSUME \A u \in Tasks : op[u].phase \notin WritePhases
    PROVE  intent = Absence
BY DEF Writers, intent, Absence

(* The same after a step.                                                   *)
LEMMA NextNoIntention ==
    ASSUME \A u \in Tasks : op'[u].phase \notin WritePhases
    PROVE  intent' = Absence
<1>1. Writers' = {}
  BY DEF Writers
<1>2. intent' = [some |-> Writers' # {},
                 files |-> UNION {Files(Edited(u)', IntendedData(u)') : u \in Writers'}]
  BY DEF intent
<1> QED BY <1>1, <1>2 DEF Absence

(* What the medium holds.                                                  *)
LEMMA DurableFiles ==
    ASSUME Mountable PROVE durable = Present(Files(disk.dir, data))
BY DEF durable, Present

(* An image that mount would accept after a step is that of its files.      *)
LEMMA NextDurableFiles ==
    ASSUME header' = "accepted", validate_directory(disk')
    PROVE  durable' = Present(Files(disk'.dir, data'))
BY DEF durable, Mountable, Present

(* One that mount would refuse is none.                                     *)
LEMMA NextDamaged ==
    ASSUME ~validate_directory(disk') PROVE durable' = Absence
BY DEF durable, Mountable, Absence

(* The directory stays, and so do the blocks it owns.                      *)
LEMMA SameDurable ==
    ASSUME MInv, header' = header, disk' = disk,
           Mountable => \A b \in UsedBlocks(disk.dir) : data'[b] = data[b]
    PROVE  durable' = durable
<1>1. CASE Mountable
  <2>1. disk.dir \in Directory /\ DirectorySound(disk.dir)
    BY <1>1 DEF Mountable, validate_directory, MInv, IInv, Typed, TypeOK
  <2>2. Files(disk.dir, data') = Files(disk.dir, data)
    BY <1>1, <2>1, SameFiles
  <2>3. header' = "accepted" /\ validate_directory(disk')
    BY <1>1 DEF Mountable
  <2> QED BY <1>1, <2>2, <2>3, DurableFiles, NextDurableFiles
<1>2. CASE ~Mountable
  BY <1>2 DEF durable, Mountable
<1> QED BY <1>1, <1>2

(* A mounted image.                                                        *)
LEMMA MountedImage ==
    ASSUME MInv, st = "MOUNTED",
           \A u \in Tasks : op[u].phase = "publish" => entry_block(op[u].slot) = 0
    PROVE  /\ Mountable /\ durable = Present(Files(cache.dir, data))
           /\ cache = disk /\ disk.crc = disk.dir
<1>1. cache = disk /\ header = "accepted" /\ disk.crc = disk.dir
  BY DEF MInv, MirrorInv
<1>2. DirectorySound(cache.dir)
  BY DEF MInv, IInv, Sound, CacheSound
<1>3. Mountable
  BY <1>1, <1>2 DEF Mountable, validate_directory
<1> QED BY <1>1, <1>3, DurableFiles

-----------------------------------------------------------------------------
(* The refinement: the files of an edited directory.                       *)

(* The files of a directory with one entry replaced.                        *)
LEMMA EditedFiles ==
    ASSUME NEW dir \in Directory, NEW slot \in Slots, NEW e, NEW dat
    PROVE  Files([dir EXCEPT ![slot] = e], dat)
              = OtherFiles(dir, slot, dat) \cup IF e.name # 0 THEN {FileOf(e, dat)} ELSE {}
<1> DEFINE new == [dir EXCEPT ![slot] = e]
<1>1. new[slot] = e /\ \A s \in Slots : s # slot => new[s] = dir[s]
  BY DEF Directory
<1> HIDE DEF new
<1>2. LiveSlots(new) \ {slot} = LiveSlots(dir) \ {slot}
  BY <1>1 DEF LiveSlots
<1>3. slot \in LiveSlots(new) <=> e.name # 0
  BY <1>1 DEF LiveSlots
<1>4. ASSUME NEW s \in LiveSlots(dir) \ {slot} PROVE new[s] = dir[s]
  BY <1>1 DEF LiveSlots
<1>5. {FileOf(new[s], dat) : s \in LiveSlots(new) \ {slot}} = OtherFiles(dir, slot, dat)
  BY <1>2, <1>4 DEF OtherFiles
<1>6. Files(new, dat) = {FileOf(new[s], dat) : s \in LiveSlots(new) \ {slot}}
                           \cup IF e.name # 0 THEN {FileOf(e, dat)} ELSE {}
  BY <1>1, <1>3 DEF Files
<1> QED BY <1>5, <1>6 DEF new

(* The outcome of an operation: the other files, and the one of its entry.  *)
LEMMA OutcomeFiles ==
    ASSUME NEW o, o.slot \in Slots, NEW dir \in Directory, NEW dat
    PROVE  Outcome(o, dir, dat)
              = OtherFiles(dir, o.slot, Plan(o, dat))
                   \cup IF o.entry.name # 0 THEN {FileOf(o.entry, Plan(o, dat))} ELSE {}
BY EditedFiles DEF Outcome

(* Beside a free slot the other files are all.                              *)
LEMMA OthersOfFree ==
    ASSUME NEW dir, NEW slot, slot \notin LiveSlots(dir), NEW dat
    PROVE  OtherFiles(dir, slot, dat) = Files(dir, dat)
BY DEF OtherFiles, Files

(* Beside a live slot they are all but its file.                            *)
LEMMA OthersOfLive ==
    ASSUME NEW dir, NamesUnique(dir), NEW slot \in LiveSlots(dir), NEW dat
    PROVE  OtherFiles(dir, slot, dat) = Files(dir, dat) \ {FileOf(dir[slot], dat)}
<1>1. ASSUME NEW s \in LiveSlots(dir), s # slot
      PROVE  FileOf(dir[s], dat) # FileOf(dir[slot], dat)
  <2>1. FileOf(dir[s], dat).name = dir[s].name /\ FileOf(dir[slot], dat).name = dir[slot].name
    BY DEF FileOf
  <2> QED BY <1>1, <2>1 DEF NamesUnique
<1> QED BY <1>1 DEF OtherFiles, Files

(* The other files are the same when the blocks in use are.                 *)
LEMMA SameOthers ==
    ASSUME NEW dir \in Directory, DirectorySound(dir), NEW dat, NEW new,
           \A b \in UsedBlocks(dir) : new[b] = dat[b], NEW slot
    PROVE  OtherFiles(dir, slot, new) = OtherFiles(dir, slot, dat)
BY SameFile DEF OtherFiles

(* An operation that has no data to write any more plans what there is.    *)
LEMMA PlanDone ==
    ASSUME NEW o, o.phase \notin DataPhases, NEW dat \in [DataBlocks -> Content]
    PROVE  Plan(o, dat) = dat
BY DEF Plan, DataPhases

-----------------------------------------------------------------------------
(* The refinement: the calls.                                              *)

(* Where a call begins: nobody intends anything, and the medium holds what *)
(* the instance shows.                                                     *)
LEMMA CallBegins ==
    ASSUME MInv, NEW t \in Tasks, operation_guard(t)
    PROVE  /\ session = "up" /\ intent = Absence /\ Mountable /\ st = "MOUNTED" /\ ~busy
           /\ durable = Present(Files(cache.dir, data))
           /\ cache.dir \in Directory /\ DirectorySound(cache.dir)
           /\ \A u \in Tasks : op[u].phase = "idle"
<1>1. st = "MOUNTED" /\ ~busy /\ \A u \in Tasks : op[u].phase = "idle"
  BY DEF operation_guard, Callable, MInv, IInv, Typed, OneOperation, Active
<1>2. intent = Absence
  BY <1>1, NoIntention DEF WritePhases
<1>3. Mountable /\ durable = Present(Files(cache.dir, data))
  BY <1>1, MountedImage
<1> QED BY <1>1, <1>2, <1>3 DEF session, MInv, IInv, Typed, TypeOK, Sound, CacheSound

(* The edit in progress after the step is sound.                           *)
LEMMA NextEdit ==
    ASSUME IInv', NEW t \in Tasks, op'[t].phase \in WritePhases
    PROVE  /\ op'[t] \in Op /\ op'[t].entry \in Entry /\ EntryValid(op'[t].entry)
           /\ Extent(op'[t].entry) \subseteq DataBlocks
<1>1. op'[t] \in Op /\ cache'.dir \in Directory
  BY DEF IInv, Typed, TypeOK
<1>2. op'[t].slot \in Slots /\ op'[t].entry \in Entry
  BY <1>1 DEF Op
<1>3. DirectorySound([cache'.dir EXCEPT ![op'[t].slot] = op'[t].entry])
  BY DEF IInv, Sound, EditsSound, Edited
<1>4. EntryValid(op'[t].entry)
  BY <1>1, <1>2, <1>3 DEF DirectorySound, Directory
<1> QED BY <1>1, <1>2, <1>4, EntryInside

(* A commit without data, or with all of it written.                       *)
LEMMA CommitIntended ==
    ASSUME MInv, NEW t \in Tasks, Active(t) \/ ~busy, NEW slot \in Slots,
           NEW e \in Entry, BeginCommit(t, slot, e), cache.dir \in Directory,
           cache' = cache, data' \in [DataBlocks -> Content]
    PROVE  intent' = Present(OtherFiles(cache.dir, slot, data')
                                \cup IF e.name # 0 THEN {FileOf(e, data')} ELSE {})
<1> DEFINE o == [Idle EXCEPT !.phase = CommitPhase(slot), !.slot = slot, !.entry = e]
<1>1. /\ o.slot = slot /\ o.entry = e /\ o.phase \in {"entry", "publish"}
      /\ op' = [op EXCEPT ![t] = o]
  BY DEF BeginCommit, Enter, Idle, CommitPhase
<1> HIDE DEF o
<1>2. op'[t] = o /\ \A u \in Tasks : u # t => op'[u].phase = "idle"
  BY <1>1, OthersIdle DEF MInv, IInv, Typed, TypeOK
<1>3. op'[t].phase \in WritePhases /\ op'[t].phase \notin DataPhases
  BY <1>1, <1>2 DEF WritePhases, DataPhases
<1>4. Plan(op'[t], data') = data'
  BY <1>3, PlanDone
<1>5. intent' = Present(Outcome(op'[t], cache'.dir, data'))
  BY <1>2, <1>3, NextIntention
<1>6. op'[t].slot = slot /\ op'[t].entry = e /\ cache'.dir = cache.dir
  BY <1>1, <1>2
<1>7. Outcome(op'[t], cache.dir, data')
        = OtherFiles(cache.dir, slot, data')
             \cup IF e.name # 0 THEN {FileOf(e, data')} ELSE {}
  BY <1>4, <1>6, OutcomeFiles
<1> QED BY <1>5, <1>6, <1>7

(* A call that has data to write intends a file of those data.             *)
LEMMA DataIntended ==
    ASSUME MInv, IInv', NEW t \in Tasks, operation_guard(t), NEW slot \in Slots,
           NEW e \in Entry, NEW phase \in {"payload", "fetch"}, NEW bytes,
           NEW from \in Nat, BeginData(t, slot, e, phase, bytes, from),
           cache' = cache, data' = data, e.name # 0, e.count # 0 => e.size # 0,
           Extent(e) \cap UsedBlocks(cache.dir) = {}
    PROVE  intent' = Present(OtherFiles(cache.dir, slot, data) \cup
              {[name |-> e.name, size |-> e.size,
                blocks |-> [i \in 0 .. (e.count - 1) |->
                   IF phase = "payload" THEN <<bytes, i>> ELSE data[from + i]]]})
<1> DEFINE f == [name |-> e.name, size |-> e.size,
                 blocks |-> [i \in 0 .. (e.count - 1) |->
                    IF phase = "payload" THEN <<bytes, i>> ELSE data[from + i]]]
<1>1. ~busy /\ cache.dir \in Directory /\ DirectorySound(cache.dir)
  BY CallBegins
<1>2. e.count \in Nat /\ e.start \in Nat
  BY DEF Entry
<1>3. CASE e.count = 0
  <2>1. BeginCommit(t, slot, e)
    BY <1>3 DEF BeginData
  <2>2. data' \in [DataBlocks -> Content]
    BY DEF IInv, Typed, TypeOK
  <2>3. intent' = Present(OtherFiles(cache.dir, slot, data) \cup {FileOf(e, data)})
    BY <1>1, <2>1, <2>2, CommitIntended
  <2>4. 0 .. (e.count - 1) = {}
    BY <1>3
  <2>5. FileOf(e, data) = f
    BY <2>4 DEF FileOf
  <2> QED BY <2>3, <2>5
<1>4. CASE e.count # 0
  <2> DEFINE o == [Idle EXCEPT !.phase = phase, !.slot = slot, !.entry = e,
                               !.bytes = bytes, !.from = from, !.end = e.count]
  <2>1. /\ o.phase = phase /\ o.slot = slot /\ o.entry = e /\ o.bytes = bytes
        /\ o.from = from /\ op' = [op EXCEPT ![t] = o]
    BY <1>4 DEF BeginData, Enter, Idle
  <2> HIDE DEF o
  <2>2. op'[t] = o /\ \A u \in Tasks : u # t => op'[u].phase = "idle"
    BY <1>1, <2>1, OthersIdle DEF MInv, IInv, Typed, TypeOK
  <2>3. op'[t].phase \in WritePhases
    BY <2>1, <2>2 DEF WritePhases
  <2>4. Extent(e) \subseteq DataBlocks
    BY <2>1, <2>2, <2>3, NextEdit
  <2> DEFINE X == Plan(o, data)
  <2>5. \A b \in UsedBlocks(cache.dir) : X[b] = data[b]
    BY <1>1, <2>1, UsedInside DEF Plan
  <2>6. ASSUME NEW i \in 0 .. (e.count - 1)
        PROVE  X[e.start + i] = IF phase = "payload" THEN <<bytes, i>> ELSE data[from + i]
    <3>1. e.start + i \in Extent(e)
      BY <1>2, <1>4 DEF Extent
    <3>2. e.start + i \in DataBlocks /\ (e.start + i) - e.start = i
      BY <1>2, <2>4, <3>1
    <3> HIDE DEF X
    <3> QED BY <2>1, <3>1, <3>2 DEF X, Plan
  <2> HIDE DEF X
  <2>7. FileOf(e, X) = f
    BY <2>6 DEF FileOf
  <2>8. OtherFiles(cache.dir, slot, X) = OtherFiles(cache.dir, slot, data)
    BY <1>1, <2>5, SameOthers
  <2>9. intent' = Present(Outcome(op'[t], cache'.dir, data'))
    BY <2>2, <2>3, NextIntention
  <2>10. op'[t].slot = slot /\ op'[t].entry = e /\ cache'.dir = cache.dir
         /\ Plan(op'[t], data') = X
    BY <2>1, <2>2 DEF X
  <2>11. intent' = Present(OtherFiles(cache.dir, slot, X) \cup {FileOf(e, X)})
    BY <1>1, <2>9, <2>10, OutcomeFiles
  <2> QED BY <2>7, <2>8, <2>11
<1> QED BY <1>3, <1>4

(* What begins in the abstract specification.                              *)
LEMMA AbstractBegin ==
    ASSUME MInv, NEW t \in Tasks, operation_guard(t), UNCHANGED <<disk, data, header, st>>,
           NEW f, intent' = Present(f),
           f \in Abs!Created \cup Abs!Replaced \cup Abs!Removed \cup Abs!Renamed \cup Abs!Copied
    PROVE  Abs!Begin
<1>1. session = "up" /\ intent = Absence /\ session' = session
  BY CallBegins DEF session
<1>2. durable' = durable
  BY DEF durable, Mountable
<1>3. Abs!Some(f) = Present(f) /\ Abs!NoIntent = Absence
  BY DEF Abs!Some, Abs!NoIntent, Present, Absence
<1> QED BY <1>1, <1>2, <1>3 DEF Abs!Begin

(* A create that is accepted begins an edit that adds one file.             *)
LEMMA CreateAbstract ==
    ASSUME MInv, IInv', NEW t \in Tasks, NEW n \in Names, NEW length \in Sizes,
           NEW bytes \in Payloads, Create(t, n, length, bytes)
    PROVE  Abs!Begin
<1>1. operation_guard(t) /\ UNCHANGED <<disk, data, header, st, cache>>
  BY DEF Create, medium
<1>2. PICK slot \in Slots, e \in Entry :
        /\ BeginData(t, slot, e, "payload", bytes, 0)
        /\ slot \notin LiveSlots(cache.dir)
        /\ \A r \in LiveSlots(cache.dir) : cache.dir[r].name # n
        /\ e.name = n /\ e.size = length /\ e.count = blocks_needed(length)
        /\ Extent(e) \cap UsedBlocks(cache.dir) = {}
  BY CreateBegins DEF MInv
<1> DEFINE f == [name |-> n, size |-> length,
                 blocks |-> [i \in 0 .. (blocks_needed(length) - 1) |-> <<bytes, i>>]]
<1>3. e.name # 0 /\ (e.count # 0 => e.size # 0)
  BY <1>2, BlocksZero, InputAssumption
<1>4. intent' = Present(OtherFiles(cache.dir, slot, data) \cup
              {[name |-> e.name, size |-> e.size,
                blocks |-> [i \in 0 .. (e.count - 1) |->
                   IF "payload" = "payload" THEN <<bytes, i>> ELSE data[0 + i]]]})
  BY <1>1, <1>2, <1>3, DataIntended
<1>5. intent' = Present(Files(cache.dir, data) \cup {f})
  BY <1>2, <1>4, OthersOfFree
<1>6. Abs!FileWith(n, length, bytes) = f
  BY DEF Abs!FileWith, Abs!blocks, blocks_needed
<1>7. Abs!files = Files(cache.dir, data)
  BY <1>1, CallBegins DEF Abs!files, Present
<1>8. Abs!Absent(n)
  BY <1>2, <1>7 DEF Abs!Absent, Files, FileOf
<1> HIDE DEF f
<1>9. Files(cache.dir, data) \cup {f} \in Abs!Created
  BY <1>6, <1>7, <1>8 DEF Abs!Created
<1> QED BY <1>1, <1>5, <1>9, AbstractBegin

(* A live file, and the directory without it.                              *)
LEMMA LiveFile ==
    ASSUME MInv, NEW t \in Tasks, operation_guard(t), NEW slot \in LiveSlots(cache.dir)
    PROVE  /\ slot \in Slots /\ cache.dir[slot] \in Entry
           /\ Abs!files = Files(cache.dir, data)
           /\ FileOf(cache.dir[slot], data) \in Files(cache.dir, data)
           /\ OtherFiles(cache.dir, slot, data)
                 = Files(cache.dir, data) \ {FileOf(cache.dir[slot], data)}
<1>1. /\ cache.dir \in Directory /\ DirectorySound(cache.dir)
      /\ durable = Present(Files(cache.dir, data))
  BY CallBegins
<1>2. slot \in Slots /\ cache.dir[slot] \in Entry
  BY <1>1 DEF LiveSlots, Directory
<1>3. Abs!files = Files(cache.dir, data)
  BY <1>1 DEF Abs!files, Present
<1>4. FileOf(cache.dir[slot], data) \in Files(cache.dir, data)
  BY DEF Files
<1>5. OtherFiles(cache.dir, slot, data)
         = Files(cache.dir, data) \ {FileOf(cache.dir[slot], data)}
  BY <1>1, OthersOfLive DEF DirectorySound
<1> QED BY <1>2, <1>3, <1>4, <1>5

(* A replace begins an edit that exchanges one file for another of its      *)
(* name.                                                                    *)
LEMMA ReplaceAbstract ==
    ASSUME MInv, IInv', NEW t \in Tasks, NEW n \in Names, NEW length \in Sizes,
           NEW bytes \in Payloads, Replace(t, n, length, bytes)
    PROVE  Abs!Begin
<1>1. operation_guard(t) /\ UNCHANGED <<disk, data, header, st, cache>>
  BY DEF Replace, medium
<1>2. PICK slot \in LiveSlots(cache.dir), e \in Entry :
        /\ BeginData(t, slot, e, "payload", bytes, 0)
        /\ e.name = cache.dir[slot].name /\ e.size = length
        /\ e.count = blocks_needed(length)
        /\ Extent(e) \cap UsedBlocks(cache.dir) = {}
  BY ReplaceBegins DEF MInv
<1> DEFINE g == FileOf(cache.dir[slot], data)
           f == [name |-> g.name, size |-> length,
                 blocks |-> [i \in 0 .. (blocks_needed(length) - 1) |-> <<bytes, i>>]]
<1>3. e.name # 0 /\ (e.count # 0 => e.size # 0) /\ slot \in Slots
  BY <1>2, BlocksZero, InputAssumption DEF LiveSlots
<1>4. intent' = Present(OtherFiles(cache.dir, slot, data) \cup
              {[name |-> e.name, size |-> e.size,
                blocks |-> [i \in 0 .. (e.count - 1) |->
                   IF "payload" = "payload" THEN <<bytes, i>> ELSE data[0 + i]]]})
  BY <1>1, <1>2, <1>3, DataIntended
<1>5. g.name = e.name
  BY <1>2 DEF FileOf
<1>6. intent' = Present(OtherFiles(cache.dir, slot, data) \cup {f})
  BY <1>2, <1>4, <1>5
<1>7. Abs!FileWith(g.name, length, bytes) = f
  BY DEF Abs!FileWith, Abs!blocks, blocks_needed
<1> HIDE DEF f
<1>8. /\ Abs!files = Files(cache.dir, data) /\ g \in Files(cache.dir, data)
      /\ OtherFiles(cache.dir, slot, data) = Files(cache.dir, data) \ {g}
  BY <1>1, LiveFile
<1> HIDE DEF g
<1>9. OtherFiles(cache.dir, slot, data) \cup {f} \in Abs!Replaced
  BY <1>7, <1>8 DEF Abs!Replaced
<1> QED BY <1>1, <1>6, <1>9, AbstractBegin

(* A file with another name.                                                *)
LEMMA RenamedFile ==
    ASSUME NEW a, NEW x, NEW b, NEW n
    PROVE  [[name |-> a, size |-> x, blocks |-> b] EXCEPT !.name = n]
              = [name |-> n, size |-> x, blocks |-> b]
OBVIOUS

(* Two entries of the same length and extent differ by their names.        *)
LEMMA OtherName ==
    ASSUME NEW e, NEW d, NEW n, e.name = n, e.size = d.size, NEW new, NEW dat,
           [i \in 0 .. (e.count - 1) |-> new[e.start + i]]
              = [i \in 0 .. (d.count - 1) |-> dat[d.start + i]]
    PROVE  FileOf(e, new) = [FileOf(d, dat) EXCEPT !.name = n]
<1> DEFINE b == [i \in 0 .. (d.count - 1) |-> dat[d.start + i]]
<1>1. FileOf(e, new) = [name |-> n, size |-> d.size, blocks |-> b]
  BY DEF FileOf
<1>2. FileOf(d, dat) = [name |-> d.name, size |-> d.size, blocks |-> b]
  BY DEF FileOf
<1> HIDE DEF b
<1> QED BY <1>1, <1>2, RenamedFile

(* A copy begins an edit that adds a file with the contents of its source.  *)
LEMMA CopyAbstract ==
    ASSUME MInv, IInv', NEW t \in Tasks, NEW src \in Names, NEW dst \in Names,
           Copy(t, src, dst)
    PROVE  Abs!Begin
<1>0. IInv
  BY DEF MInv
<1>1. operation_guard(t) /\ UNCHANGED <<disk, data, header, st, cache>>
  BY DEF Copy, medium
<1>2. PICK from \in LiveSlots(cache.dir), slot \in Slots, e \in Entry :
        /\ BeginData(t, slot, e, "fetch", NoPayload, cache.dir[from].start)
        /\ slot \notin LiveSlots(cache.dir)
        /\ \A r \in LiveSlots(cache.dir) : cache.dir[r].name # dst
        /\ e.name = dst /\ e.size = cache.dir[from].size
        /\ e.count = cache.dir[from].count
        /\ Extent(e) \cap UsedBlocks(cache.dir) = {}
  BY <1>0, CopyBegins
<1> DEFINE g == FileOf(cache.dir[from], data)
           f == [g EXCEPT !.name = dst]
<1>3. /\ cache.dir \in Directory /\ DirectorySound(cache.dir)
      /\ cache.dir[from] \in Entry
      /\ Abs!files = Files(cache.dir, data) /\ g \in Files(cache.dir, data)
  BY <1>1, CallBegins, LiveFile
<1>4. e.name # 0 /\ (e.count # 0 => e.size # 0) /\ cache.dir[from].start \in Nat
  BY <1>2, <1>3, OwnBlocks, InputAssumption DEF Entry
<1>5. intent' = Present(OtherFiles(cache.dir, slot, data) \cup
              {[name |-> e.name, size |-> e.size,
                blocks |-> [i \in 0 .. (e.count - 1) |->
                   IF "fetch" = "payload" THEN <<NoPayload, i>>
                   ELSE data[cache.dir[from].start + i]]]})
  BY <1>1, <1>2, <1>4, DataIntended
<1>6. f = [name |-> e.name, size |-> e.size,
           blocks |-> [i \in 0 .. (e.count - 1) |-> data[cache.dir[from].start + i]]]
  <2> DEFINE b == [i \in 0 .. (e.count - 1) |-> data[cache.dir[from].start + i]]
  <2>1. g = [name |-> cache.dir[from].name, size |-> e.size, blocks |-> b]
    BY <1>2 DEF FileOf
  <2> HIDE DEF b, g
  <2>2. f = [name |-> dst, size |-> e.size, blocks |-> b]
    BY <2>1, RenamedFile
  <2> QED BY <1>2, <2>2 DEF b
<1>7. intent' = Present(OtherFiles(cache.dir, slot, data) \cup {f})
  BY <1>5, <1>6
<1>8. Abs!Absent(dst)
  BY <1>2, <1>3 DEF Abs!Absent, Files, FileOf
<1>9. Files(cache.dir, data) \cup {f} \in Abs!Copied
  <2> HIDE DEF g
  <2> QED BY <1>3, <1>8 DEF Abs!Copied
<1> HIDE DEF f
<1>10. OtherFiles(cache.dir, slot, data) = Files(cache.dir, data)
  BY <1>2, OthersOfFree
<1> QED BY <1>1, <1>7, <1>9, <1>10, AbstractBegin

(* A remove begins an edit that takes one file away.                        *)
LEMMA RemoveAbstract ==
    ASSUME MInv, NEW t \in Tasks, NEW n \in Names, Remove(t, n)
    PROVE  Abs!Begin
<1>1. operation_guard(t) /\ UNCHANGED <<disk, data, header, st, cache>>
  BY DEF Remove, medium
<1>2. PICK slot \in LiveSlots(cache.dir) : BeginCommit(t, slot, NoEntry)
  BY RemoveBegins DEF MInv
<1> DEFINE g == FileOf(cache.dir[slot], data)
<1>3. /\ Abs!files = Files(cache.dir, data) /\ g \in Files(cache.dir, data)
      /\ OtherFiles(cache.dir, slot, data) = Files(cache.dir, data) \ {g}
      /\ slot \in Slots /\ cache.dir \in Directory /\ ~busy
  BY <1>1, LiveFile, CallBegins
<1>4. NoEntry \in Entry /\ NoEntry.name = 0 /\ data' \in [DataBlocks -> Content]
  BY <1>1, NoEntryType DEF NoEntry, MInv, IInv, Typed, TypeOK
<1>5. intent' = Present(OtherFiles(cache.dir, slot, data)
                           \cup IF NoEntry.name # 0 THEN {FileOf(NoEntry, data)} ELSE {})
  BY <1>1, <1>2, <1>3, <1>4, CommitIntended
<1>6. intent' = Present(Files(cache.dir, data) \ {g})
  BY <1>3, <1>4, <1>5
<1>7. Files(cache.dir, data) \ {g} \in Abs!Removed
  BY <1>3 DEF Abs!Removed
<1> QED BY <1>1, <1>6, <1>7, AbstractBegin

(* A rename begins an edit that gives one file another name.                *)
LEMMA RenameAbstract ==
    ASSUME MInv, NEW t \in Tasks, NEW old \in Names, NEW new \in Names,
           Rename(t, old, new)
    PROVE  Abs!Begin
<1>1. operation_guard(t) /\ UNCHANGED <<disk, data, header, st, cache>>
  BY DEF Rename, medium
<1>2. PICK slot \in LiveSlots(cache.dir) :
        /\ BeginCommit(t, slot, [cache.dir[slot] EXCEPT !.name = new])
        /\ \A r \in LiveSlots(cache.dir) : cache.dir[r].name # new
  BY RenameBegins DEF MInv
<1> DEFINE g == FileOf(cache.dir[slot], data)
           e == [cache.dir[slot] EXCEPT !.name = new]
           f == [g EXCEPT !.name = new]
<1>3. /\ Abs!files = Files(cache.dir, data) /\ g \in Files(cache.dir, data)
      /\ OtherFiles(cache.dir, slot, data) = Files(cache.dir, data) \ {g}
      /\ slot \in Slots /\ cache.dir[slot] \in Entry /\ cache.dir \in Directory /\ ~busy
  BY <1>1, LiveFile, CallBegins
<1>4. /\ e \in Entry /\ e.name = new /\ e.size = cache.dir[slot].size
      /\ e.start = cache.dir[slot].start /\ e.count = cache.dir[slot].count
  BY <1>3, InputAssumption DEF Entry
<1>5. FileOf(e, data) = f
  <2> HIDE DEF e
  <2> QED BY <1>4, OtherName
<1>6. data' \in [DataBlocks -> Content] /\ new # 0 /\ BeginCommit(t, slot, e)
  BY <1>1, <1>2, InputAssumption DEF MInv, IInv, Typed, TypeOK
<1>7. Abs!Absent(new)
  BY <1>2, <1>3 DEF Abs!Absent, Files, FileOf
<1>8. (Files(cache.dir, data) \ {g}) \cup {f} \in Abs!Renamed
  <2> HIDE DEF g
  <2> QED BY <1>3, <1>7 DEF Abs!Renamed
<1> HIDE DEF e, f, g
<1>9. intent' = Present(OtherFiles(cache.dir, slot, data)
                           \cup IF e.name # 0 THEN {FileOf(e, data)} ELSE {})
  BY <1>1, <1>3, <1>4, <1>6, CommitIntended
<1>10. intent' = Present((Files(cache.dir, data) \ {g}) \cup {f})
  BY <1>3, <1>4, <1>5, <1>6, <1>9
<1> QED BY <1>1, <1>8, <1>10, AbstractBegin

-----------------------------------------------------------------------------
(* The refinement: the callbacks.                                          *)

AbsStutter == UNCHANGED <<durable, intent, session>>

(* Nothing is being written, and nothing is written.                       *)
LEMMA QuietAbstract ==
    ASSUME UNCHANGED <<medium, st>>, \A u \in Tasks : op[u].phase \notin WritePhases,
           \A u \in Tasks : op'[u].phase \notin WritePhases
    PROVE  AbsStutter
<1>1. durable' = durable /\ session' = session
  BY DEF medium, durable, Mountable, session
<1>2. intent = Absence /\ intent' = Absence
  BY NoIntention, NextNoIntention
<1> QED BY <1>1, <1>2 DEF AbsStutter

(* What a mount accepts is not damaged.                                    *)
LEMMA MountAbstract ==
    ASSUME MInv', UNCHANGED medium, st = "UNMOUNTED", st' = "MOUNTED",
           \A u \in Tasks : op[u].phase \notin WritePhases,
           \A u \in Tasks : op'[u].phase \notin WritePhases
    PROVE  Abs!Mount
<1>1. \A u \in Tasks : op'[u].phase # "publish"
  BY DEF WritePhases
<1>2. /\ cache' = disk' /\ header' = "accepted" /\ disk'.crc = disk'.dir
      /\ DirectorySound(cache'.dir)
  BY <1>1 DEF MInv, MirrorInv, IInv, Sound, CacheSound
<1>3. Mountable
  BY <1>2 DEF Mountable, validate_directory, medium
<1>4. durable # Absence
  BY <1>3, DurableFiles DEF Present, Absence
<1>5. durable' = durable /\ session = "down" /\ session' = "up"
  BY DEF medium, durable, Mountable, session
<1>6. intent = Absence /\ intent' = Absence
  BY NoIntention, NextNoIntention
<1> QED BY <1>4, <1>5, <1>6 DEF Abs!Mount, Abs!Damaged, Absence

(* The one operation is not a write before the step, nor after it.         *)
LEMMA NoWriters ==
    ASSUME IInv, NEW t \in Tasks, Active(t) \/ ~busy, op[t].phase \notin WritePhases,
           \/ Return(t)
           \/ \E o : Enter(t, o) /\ o.phase \notin WritePhases
    PROVE  /\ \A u \in Tasks : op[u].phase \notin WritePhases
           /\ \A u \in Tasks : op'[u].phase \notin WritePhases
<1>1. \A u \in Tasks : u # t => op[u].phase = "idle" /\ op'[u].phase = "idle"
  BY OthersIdle DEF Enter, Return, IInv, Typed, TypeOK
<1>2. op'[t].phase \notin WritePhases
  BY IdleType DEF Enter, Return, IInv, Typed, TypeOK, WritePhases
<1> QED BY <1>1, <1>2 DEF WritePhases

(* A step of a mount changes nothing abstractly, or is the mount.           *)
LEMMA MountStepAbstract ==
    ASSUME MInv, MInv', NEW t \in Tasks,
           MountCapacity(t) \/ MountReadHeader(t) \/ MountReadDirectory(t)
    PROVE  AbsStutter \/ Abs!Mount
<1>1. op[t].phase \in MountPhases /\ UNCHANGED medium
  BY DEF MountCapacity, MountReadHeader, MountReadDirectory, MountPhases
<1>2. Active(t) /\ st = "UNMOUNTED" /\ op[t] \in Op /\ op[t].phase \notin WritePhases
  BY <1>1, MountFacts DEF MountPhases, WritePhases
<1>3. st' = st \/ st' = "MOUNTED"
  BY DEF MountCapacity, MountReadHeader, MountReadDirectory, MountVerdict
<1>4. Return(t) \/ \E o : Enter(t, o) /\ o.phase \notin WritePhases
  <2>1. CASE MountCapacity(t)
    <3>1. [op[t] EXCEPT !.phase = "header"].phase = "header"
      BY <1>2 DEF Op
    <3> QED BY <2>1, <3>1 DEF MountCapacity, WritePhases
  <2>2. CASE MountReadHeader(t)
    <3> DEFINE o == [op[t] EXCEPT !.phase = "directory", !.i = 1]
    <3>1. o.phase = "directory"
      BY <1>2 DEF Op
    <3>2. Return(t) \/ Enter(t, o)
      BY <2>2 DEF MountReadHeader, MountVerdict
    <3> QED BY <3>1, <3>2 DEF WritePhases
  <2>3. CASE MountReadDirectory(t)
    <3> DEFINE o == [op[t] EXCEPT !.i = op[t].i + 1]
    <3>1. o.phase = op[t].phase
      BY <1>2 DEF Op
    <3>2. Return(t) \/ Enter(t, o)
      BY <2>3 DEF MountReadDirectory, MountVerdict
    <3> QED BY <1>2, <3>1, <3>2
  <2> QED BY <2>1, <2>2, <2>3
<1>5. /\ \A u \in Tasks : op[u].phase \notin WritePhases
      /\ \A u \in Tasks : op'[u].phase \notin WritePhases
  BY <1>2, <1>4, NoWriters DEF MInv
<1> QED BY <1>1, <1>2, <1>3, <1>5, QuietAbstract, MountAbstract

(* One block of the extent holds after the step what was planned for it.   *)
LEMMA PlanKept ==
    ASSUME MInv, IInv', NEW t \in Tasks, op[t].phase \in {"payload", "store"},
           NEW v, NEW phase,
           data' = [data EXCEPT ![op[t].entry.start + op[t].i] = v],
           v = IF op[t].phase = "store" THEN op[t].block ELSE <<op[t].bytes, op[t].i>>,
           phase = IF op[t].phase = "store" THEN "fetch" ELSE "payload",
           NextBlock(t, phase)
    PROVE  /\ op'[t].phase \in WritePhases /\ op'[t].slot = op[t].slot
           /\ op'[t].entry = op[t].entry /\ \A u \in Tasks : u # t => op'[u].phase = "idle"
           /\ FileOf(op[t].entry, Plan(op'[t], data')) = FileOf(op[t].entry, Plan(op[t], data))
           /\ \A b \in UsedBlocks(cache.dir) : Plan(op'[t], data')[b] = Plan(op[t], data)[b]
<1>1. /\ Active(t) /\ op[t] \in Op /\ op[t].phase \in DataPhases
      /\ cache.dir \in Directory /\ DirectorySound(cache.dir)
      /\ DataOk(op[t], cache.dir, data)
  BY WriteFacts DEF DataPhases, WritePhases, OpOk
<1>2. /\ op[t].i \in Nat /\ op[t].end \in Nat /\ op[t].i < op[t].end
      /\ op[t].entry.start \in Nat /\ op[t].end = op[t].entry.count
      /\ Extent(op[t].entry) \cap UsedBlocks(cache.dir) = {}
      /\ \A j \in 0 .. (op[t].end - 1) : op[t].entry.start + j \in Extent(op[t].entry)
      /\ op[t].phase = "store" =>
            \A j \in 0 .. (op[t].end - 1) : op[t].from + j \in UsedBlocks(cache.dir)
  BY <1>1, OwnExtent DEF DataOk
<1>3. /\ \A b \in UsedBlocks(cache.dir) : data'[b] = data[b]
      /\ op[t].phase = "payload" =>
            \A j \in 0 .. op[t].i : data'[op[t].entry.start + j] = <<op[t].bytes, j>>
      /\ op[t].phase = "store" =>
            \A j \in 0 .. op[t].i :
               data'[op[t].entry.start + j] = data'[op[t].from + j]
  BY BlockWritten
<1>4. \A u \in Tasks : u # t => op'[u].phase = "idle"
  BY <1>1, OthersIdle DEF NextBlock, BeginCommit, Enter, MInv, IInv, Typed, TypeOK
<1>5. \/ /\ op[t].i + 1 < op[t].end /\ op'[t].phase = phase /\ op'[t].bytes = op[t].bytes
         /\ op'[t].from = op[t].from /\ op'[t].slot = op[t].slot
         /\ op'[t].entry = op[t].entry
      \/ /\ ~(op[t].i + 1 < op[t].end) /\ op'[t].phase \in {"entry", "publish"}
         /\ op'[t].slot = op[t].slot /\ op'[t].entry = op[t].entry
  <2>1. CASE op[t].i + 1 < op[t].end
    <3> DEFINE o == [op[t] EXCEPT !.phase = phase, !.i = op[t].i + 1]
    <3>1. /\ o.phase = phase /\ o.entry = op[t].entry /\ o.bytes = op[t].bytes
          /\ o.from = op[t].from /\ o.slot = op[t].slot
      BY <1>1 DEF Op
    <3>2. Enter(t, o)
      BY <2>1 DEF NextBlock
    <3> HIDE DEF o
    <3>3. op'[t] = o
      BY <3>2 DEF Enter, MInv, IInv, Typed, TypeOK
    <3> QED BY <2>1, <3>1, <3>3
  <2>2. CASE ~(op[t].i + 1 < op[t].end)
    <3> DEFINE o == [Idle EXCEPT !.phase = CommitPhase(op[t].slot),
                                 !.slot = op[t].slot, !.entry = op[t].entry]
    <3>1. /\ o.phase \in {"entry", "publish"} /\ o.entry = op[t].entry
          /\ o.slot = op[t].slot
      BY DEF Idle, CommitPhase
    <3>2. Enter(t, o)
      BY <2>2 DEF NextBlock, BeginCommit
    <3> HIDE DEF o
    <3>3. op'[t] = o
      BY <3>2 DEF Enter, MInv, IInv, Typed, TypeOK
    <3> QED BY <2>2, <3>1, <3>3
  <2> QED BY <2>1, <2>2
<1>6. op'[t].phase \in WritePhases
  BY <1>5 DEF WritePhases
<1>7. Extent(op[t].entry) \subseteq DataBlocks
  BY <1>5, <1>6, NextEdit
<1> DEFINE X == Plan(op[t], data)
           Y == Plan(op'[t], data')
<1>8. ASSUME NEW b \in UsedBlocks(cache.dir) PROVE Y[b] = X[b]
  <2>1. b \in DataBlocks /\ b \notin Extent(op[t].entry)
    BY <1>1, <1>2, UsedInside
  <2> QED BY <1>3, <1>5, <2>1 DEF Plan
<1>9. ASSUME NEW i \in 0 .. (op[t].entry.count - 1)
      PROVE  Y[op[t].entry.start + i] = X[op[t].entry.start + i]
  <2> DEFINE b == op[t].entry.start + i
  <2> SUFFICES Y[b] = X[b]
    OBVIOUS
  <2>1. /\ b \in Extent(op[t].entry) /\ b - op[t].entry.start = i
        /\ ~(op[t].i + 1 < op[t].end) => i \in 0 .. op[t].i
    BY <1>2
  <2>2. b \in DataBlocks
    BY <1>7, <2>1
  <2>3. CASE op[t].phase = "payload"
    <3>1. X[b] = <<op[t].bytes, i>>
      <4> HIDE DEF b
      <4> QED BY <2>1, <2>2, <2>3 DEF Plan
    <3>2. CASE op'[t].phase = "payload"
      <4>1. op'[t].bytes = op[t].bytes /\ op'[t].entry = op[t].entry
        BY <1>5, <3>2
      <4> HIDE DEF b, X
      <4> QED BY <2>1, <2>2, <3>1, <3>2, <4>1 DEF Plan
    <3>3. CASE op'[t].phase # "payload"
      <4>1. op'[t].phase \in {"entry", "publish"} /\ i \in 0 .. op[t].i
        BY <1>5, <2>1, <2>3, <3>3
      <4>2. data'[b] = <<op[t].bytes, i>>
        BY <1>3, <2>3, <4>1
      <4> HIDE DEF b, X
      <4> QED BY <2>2, <3>1, <4>1, <4>2 DEF Plan
    <3> QED BY <3>2, <3>3
  <2>4. CASE op[t].phase = "store"
    <3>1. X[b] = data[op[t].from + i]
      <4> HIDE DEF b
      <4> QED BY <2>1, <2>2, <2>4 DEF Plan
    <3>2. data'[op[t].from + i] = data[op[t].from + i]
      BY <1>2, <1>3, <2>4
    <3>3. CASE op'[t].phase = "fetch"
      <4>1. op'[t].from = op[t].from /\ op'[t].entry = op[t].entry
        BY <1>5, <3>3
      <4> HIDE DEF b, X
      <4> QED BY <2>1, <2>2, <3>1, <3>2, <3>3, <4>1 DEF Plan
    <3>4. CASE op'[t].phase # "fetch"
      <4>1. op'[t].phase \in {"entry", "publish"} /\ i \in 0 .. op[t].i
        BY <1>5, <2>1, <2>4, <3>4
      <4>2. data'[b] = data'[op[t].from + i]
        BY <1>3, <2>4, <4>1
      <4> HIDE DEF b, X
      <4> QED BY <2>2, <3>1, <3>2, <4>1, <4>2 DEF Plan
    <3> QED BY <3>3, <3>4
  <2> QED BY <2>3, <2>4
<1> HIDE DEF X, Y
<1>10. FileOf(op[t].entry, Y) = FileOf(op[t].entry, X)
  BY <1>9 DEF FileOf
<1> QED BY <1>4, <1>5, <1>6, <1>8, <1>10 DEF X, Y

(* A written block is what the call intended.                              *)
LEMMA WriteAbstract ==
    ASSUME MInv, IInv', NEW t \in Tasks, WritePayload(t) \/ CopyStore(t)
    PROVE  AbsStutter
<1> DEFINE v == IF op[t].phase = "store" THEN op[t].block ELSE <<op[t].bytes, op[t].i>>
           phase == IF op[t].phase = "store" THEN "fetch" ELSE "payload"
<1>1. /\ op[t].phase \in {"payload", "store"} /\ NextBlock(t, phase)
      /\ data' = [data EXCEPT ![op[t].entry.start + op[t].i] = v]
      /\ UNCHANGED <<disk, header, st, cache>>
  BY DEF WritePayload, CopyStore
<1> HIDE DEF v, phase
<1>2. /\ op'[t].phase \in WritePhases /\ op'[t].slot = op[t].slot
      /\ op'[t].entry = op[t].entry /\ \A u \in Tasks : u # t => op'[u].phase = "idle"
      /\ FileOf(op[t].entry, Plan(op'[t], data')) = FileOf(op[t].entry, Plan(op[t], data))
      /\ \A b \in UsedBlocks(cache.dir) : Plan(op'[t], data')[b] = Plan(op[t], data)[b]
  BY <1>1, PlanKept DEF v, phase
<1>3. /\ op[t].phase \in WritePhases /\ op[t].slot \in Slots /\ cache = disk
      /\ cache.dir \in Directory /\ DirectorySound(cache.dir) /\ Active(t)
  BY <1>1, WriteFacts DEF WritePhases, Op
<1>4. \A u \in Tasks : u # t => op[u].phase = "idle"
  BY <1>3, OthersIdle DEF MInv, IInv
<1>5. \A b \in UsedBlocks(cache.dir) : data'[b] = data[b]
  BY <1>1, BlockWritten DEF v
<1>6. durable' = durable /\ session' = session
  BY <1>1, <1>3, <1>5, SameDurable DEF session
<1> DEFINE X == Plan(op[t], data)
           Y == Plan(op'[t], data')
           e == op[t].entry
           slot == op[t].slot
<1>7. intent = Present(OtherFiles(cache.dir, slot, X)
                          \cup IF e.name # 0 THEN {FileOf(e, X)} ELSE {})
  BY <1>3, <1>4, Intention, OutcomeFiles
<1>8. intent' = Present(OtherFiles(cache.dir, slot, Y)
                           \cup IF e.name # 0 THEN {FileOf(e, Y)} ELSE {})
  <2>1. intent' = Present(Outcome(op'[t], cache'.dir, data'))
    BY <1>2, NextIntention
  <2>2. op'[t].slot \in Slots /\ cache'.dir = cache.dir
    BY <1>1, <1>2, <1>3
  <2>3. intent' = Present(Outcome(op'[t], cache.dir, data'))
    BY <2>1, <2>2
  <2>4. Outcome(op'[t], cache.dir, data')
           = OtherFiles(cache.dir, op'[t].slot, Y)
                \cup IF op'[t].entry.name # 0 THEN {FileOf(op'[t].entry, Y)} ELSE {}
    BY <1>3, <2>2, OutcomeFiles
  <2> HIDE DEF Y
  <2> QED BY <1>2, <2>3, <2>4
<1>9. OtherFiles(cache.dir, slot, Y) = OtherFiles(cache.dir, slot, X)
  BY <1>2, <1>3, SameOthers
<1>10. intent' = intent
  BY <1>2, <1>7, <1>8, <1>9
<1> QED BY <1>6, <1>10 DEF AbsStutter

(* A fetched block is as good as its original.                             *)
LEMMA FetchAbstract ==
    ASSUME MInv, NEW t \in Tasks, CopyFetch(t)
    PROVE  AbsStutter
<1> DEFINE o == [op[t] EXCEPT !.phase = "store", !.block = data[op[t].from + op[t].i]]
<1>1. op[t].phase = "fetch" /\ Enter(t, o) /\ UNCHANGED <<disk, data, header, st, cache>>
  BY DEF CopyFetch, medium
<1>2. /\ op[t] \in Op /\ cache.dir \in Directory /\ op[t].slot \in Slots /\ Active(t)
      /\ op[t].phase \in WritePhases
  BY <1>1, WriteFacts DEF WritePhases, Op
<1>3. /\ o.phase = "store" /\ o.entry = op[t].entry /\ o.from = op[t].from
      /\ o.slot = op[t].slot
  BY <1>2 DEF Op
<1> HIDE DEF o
<1>4. /\ \A u \in Tasks : u # t => op[u].phase = "idle"
      /\ \A u \in Tasks : u # t => op'[u].phase = "idle"
      /\ op'[t] = o /\ o.phase \in WritePhases
  BY <1>1, <1>2, <1>3, OthersIdle DEF Enter, MInv, IInv, Typed, TypeOK, WritePhases
<1>5. Plan(o, data') = Plan(op[t], data)
  BY <1>1, <1>3 DEF Plan
<1>6. intent = Present(Outcome(op[t], cache.dir, data))
  BY <1>2, <1>4, Intention
<1>7. intent' = Present(Outcome(o, cache.dir, data'))
  BY <1>1, <1>4, NextIntention
<1>8. Outcome(o, cache.dir, data') = Outcome(op[t], cache.dir, data)
  <2> DEFINE X == Plan(op[t], data)
  <2>1. Outcome(op[t], cache.dir, data)
           = OtherFiles(cache.dir, op[t].slot, X)
                \cup IF op[t].entry.name # 0 THEN {FileOf(op[t].entry, X)} ELSE {}
    BY <1>2, OutcomeFiles
  <2>2. Outcome(o, cache.dir, data')
           = OtherFiles(cache.dir, o.slot, Plan(o, data'))
                \cup IF o.entry.name # 0 THEN {FileOf(o.entry, Plan(o, data'))} ELSE {}
    BY <1>2, <1>3, OutcomeFiles
  <2> QED BY <1>3, <1>5, <2>1, <2>2
<1>9. durable' = durable /\ session' = session
  BY <1>1 DEF durable, Mountable, session
<1> QED BY <1>6, <1>7, <1>8, <1>9 DEF AbsStutter

(* What a commit in progress will leave.                                   *)
LEMMA CommitIntention ==
    ASSUME MInv, NEW t \in Tasks, op[t].phase \in {"entry", "publish"}
    PROVE  intent = Present(Files(Edited(t), data))
<1>1. Active(t) /\ op[t].phase \in WritePhases /\ op[t].phase \notin DataPhases
  BY DEF Active, WritePhases, DataPhases
<1>2. \A u \in Tasks : u # t => op[u].phase = "idle"
  BY <1>1, OthersIdle DEF MInv, IInv
<1>3. Plan(op[t], data) = data
  BY <1>1, PlanDone DEF MInv, IInv, Typed, TypeOK
<1> QED BY <1>1, <1>2, <1>3, Intention DEF Outcome, Edited

(* The directory block without its CRC is an image that mount refuses,     *)
(* unless the edit changes nothing.                                        *)
LEMMA EntryBlockAbstract ==
    ASSUME MInv, MInv', NEW t \in Tasks, CommitEntryBlock(t)
    PROVE  AbsStutter \/ Abs!Interrupt
<1> DEFINE new == Edited(t)
           o == [op[t] EXCEPT !.phase = "publish"]
<1>1. /\ op[t].phase = "entry" /\ cache' = [cache EXCEPT !.dir = new]
      /\ disk' = [disk EXCEPT !.dir = WithBlock(disk.dir, new, entry_block(op[t].slot))]
      /\ Enter(t, o) /\ UNCHANGED <<data, header, st>>
  BY DEF CommitEntryBlock
<1>2. /\ op[t] \in Op /\ cache = disk /\ disk.crc = disk.dir /\ cache.dir \in Directory
      /\ disk \in [dir : Directory, crc : Directory] /\ DirectorySound(new)
      /\ header = "accepted" /\ Active(t)
  BY <1>1, WriteFacts DEF WritePhases, MInv, IInv, Typed, TypeOK
<1>3. o.phase = "publish" /\ o.slot = op[t].slot /\ o.entry = op[t].entry
  BY <1>2 DEF Op
<1>4. WithBlock(disk.dir, new, entry_block(op[t].slot)) = new
  BY <1>2, EditBlock DEF Edited, Op
<1>5. intent = Present(Files(new, data))
  BY <1>1, CommitIntention
<1>6. op'[t] = o
  BY <1>1 DEF Enter, MInv, IInv, Typed, TypeOK
<1>7. Edited(t)' = new
  <2>1. Edited(t)' = [cache'.dir EXCEPT ![op'[t].slot] = op'[t].entry]
    BY DEF Edited
  <2>2. cache'.dir = new
    BY <1>1, <1>2
  <2> HIDE DEF o
  <2>3. [new EXCEPT ![op[t].slot] = op[t].entry] = new
    BY EditTwice DEF MInv, IInv, Typed
  <2> QED BY ONLY <1>3, <1>6, <2>1, <2>2, <2>3
<1> HIDE DEF new, o
<1>8. disk'.dir = new /\ disk'.crc = disk.dir
  BY <1>1, <1>2, <1>4
<1>9. session' = session
  BY <1>1 DEF session
<1>10. intent' = intent
  <2>1. op'[t].phase \in WritePhases /\ op'[t].phase \notin DataPhases
    BY <1>3, <1>6 DEF WritePhases, DataPhases
  <2>2. \A u \in Tasks : u # t => op'[u].phase = "idle"
    BY <1>1, <1>2, OthersIdle DEF Enter, MInv, IInv, Typed, TypeOK
  <2>3. Plan(op'[t], data') = data'
    BY <2>1, PlanDone DEF MInv, IInv, Typed, TypeOK
  <2>4. intent' = Present(Outcome(op'[t], cache'.dir, data'))
    BY <2>1, <2>2, NextIntention
  <2>5. Outcome(op'[t], cache'.dir, data') = Files(Edited(t)', data')
    BY <2>3 DEF Outcome, Edited
  <2> QED BY <1>1, <1>5, <1>7, <2>4, <2>5
<1>11. CASE new = disk.dir
  <2>1. disk' = disk
    BY <1>1, <1>2, <1>4, <1>11
  <2>2. durable' = durable
    BY <1>1, <2>1 DEF durable, Mountable
  <2> QED BY <1>9, <1>10, <2>2 DEF AbsStutter
<1>12. CASE new # disk.dir
  <2>1. durable' = Absence
    BY <1>8, <1>12, NextDamaged DEF validate_directory
  <2>2. intent # Abs!NoIntent
    BY <1>5 DEF Present, Abs!NoIntent
  <2> QED BY <1>9, <1>10, <2>1, <2>2 DEF Abs!Interrupt, Abs!Damaged, Absence
<1> QED BY <1>11, <1>12

(* The last write of a commit publishes what the call intended.            *)
LEMMA PublishAbstract ==
    ASSUME MInv, NEW t \in Tasks, CommitBlockZero(t)
    PROVE  Abs!Publish
<1>1. /\ op[t].phase = "publish" /\ UNCHANGED <<data, header, st>> /\ Return(t)
      /\ disk' = [dir |-> WithBlock(disk.dir, Edited(t), 0), crc |-> Edited(t)]
  BY DEF CommitBlockZero
<1>2. header = "accepted" /\ Active(t)
  BY <1>1, WriteFacts DEF WritePhases
<1>3. intent = Present(Files(Edited(t), data))
  BY <1>1, CommitIntention
<1>4. validate_directory(disk') /\ disk'.dir = Edited(t)
  BY <1>1, CommitValid, PublishedImage
<1>5. durable' = Present(Files(Edited(t), data))
  BY <1>1, <1>2, <1>4, NextDurableFiles
<1>6. intent' = Absence
  BY <1>1, <1>2, Returned, NextNoIntention DEF MInv, WritePhases
<1>7. session' = session /\ intent # Absence
  BY <1>1, <1>3 DEF session, Present, Absence
<1> QED BY <1>3, <1>5, <1>6, <1>7 DEF Abs!Publish, Abs!NoIntent, Absence

(* A failure inside of a call that writes.                                 *)
LEMMA FailAbstract ==
    ASSUME MInv, NEW t \in Tasks, op[t].phase \in WritePhases, fault_io, Return(t),
           durable' = durable \/ durable' = intent \/ durable' = Absence
    PROVE  Abs!Fail
<1>1. Active(t)
  BY DEF Active, WritePhases
<1>2. \A u \in Tasks : u # t => op[u].phase = "idle"
  BY <1>1, OthersIdle DEF MInv, IInv
<1>3. intent # Absence
  BY <1>2, Intention DEF Present, Absence
<1>4. intent' = Absence
  BY <1>1, Returned, NextNoIntention DEF MInv, WritePhases
<1>5. session' = "failed"
  BY DEF session, fault_io
<1> QED BY <1>3, <1>4, <1>5 DEF Abs!Fail, Abs!NoIntent, Abs!Damaged, Absence

(* A failed write of data fails the edit and leaves the durable files.      *)
LEMMA DataFailAbstract ==
    ASSUME MInv, NEW t \in Tasks, DataWriteFails(t)
    PROVE  Abs!Fail
<1>1. /\ op[t].phase \in DataPhases /\ op[t].phase \in WritePhases /\ fault_io /\ Return(t)
      /\ UNCHANGED <<disk, header>>
      /\ \E v : data' = [data EXCEPT ![op[t].entry.start + op[t].i] = v]
  BY DEF DataWriteFails, DataPhases, WritePhases
<1>2. cache = disk /\ UsedBlocks(disk.dir) \subseteq DataBlocks
  BY <1>1, WriteFacts, UsedInside
<1>3. \A b \in UsedBlocks(disk.dir) : data'[b] = data[b]
  BY <1>1, <1>2, DataWrites
<1>4. durable' = durable
  BY <1>1, <1>3, SameDurable
<1> QED BY <1>1, <1>4, FailAbstract

(* A failed read fails the edit that copies, or is the failure of a read.   *)
LEMMA FetchFailAbstract ==
    ASSUME MInv, NEW t \in Tasks, ReadFails(t)
    PROVE  Abs!Fail \/ Abs!ReadFails
<1>1. fault_io /\ Return(t) /\ UNCHANGED medium /\ op[t].phase \in {"fetch", "read"}
  BY DEF ReadFails
<1>2. durable' = durable /\ session' = "failed"
  BY <1>1 DEF medium, durable, Mountable, fault_io, session
<1>3. CASE op[t].phase = "fetch"
  BY <1>1, <1>2, <1>3, FailAbstract DEF WritePhases
<1>4. CASE op[t].phase = "read"
  <2>1. Active(t) /\ st = "MOUNTED" /\ op[t].phase \notin WritePhases
    BY <1>4 DEF Active, MInv, IInv, Sound, PhaseState, WritePhases
  <2>2. /\ \A u \in Tasks : op[u].phase \notin WritePhases
        /\ \A u \in Tasks : op'[u].phase \notin WritePhases
    BY <1>1, <2>1, NoWriters DEF MInv
  <2>3. session = "up" /\ intent = Absence /\ intent' = Absence
    BY <2>1, <2>2, NoIntention, NextNoIntention DEF session
  <2> QED BY <1>2, <2>3 DEF Abs!ReadFails, Abs!NoIntent, Absence
<1> QED BY <1>1, <1>3, <1>4

(* A torn entry is no entry, in whatever directory.                        *)
LEMMA TornUnsound ==
    ASSUME NEW dir, NEW slot \in Slots, dir[slot] = TornEntry
    PROVE  ~DirectorySound(dir)
<1>1. ~EntryValid(TornEntry)
  <2>1. TornEntry.name = -1 /\ NoEntry.name = 0
    BY DEF TornEntry, NoEntry
  <2>2. -1 \notin Names /\ TornEntry # NoEntry
    BY <2>1, InputAssumption
  <2> QED BY <2>1, <2>2 DEF EntryValid
<1> QED BY <1>1 DEF DirectorySound

(* A failed write of the directory block fails the edit: old files, or an   *)
(* image that mount refuses.                                                *)
LEMMA EntryBlockFailAbstract ==
    ASSUME MInv, NEW t \in Tasks, EntryBlockFails(t)
    PROVE  Abs!Fail
<1> DEFINE new == Edited(t)
<1>1. op[t].phase = "entry" /\ fault_io /\ Return(t) /\ UNCHANGED <<data, header>>
  BY DEF EntryBlockFails
<1>2. PICK dir \in {disk.dir, TornSlot(t),
                    WithBlock(disk.dir, new, entry_block(op[t].slot))} :
         disk' = [disk EXCEPT !.dir = dir]
  BY DEF EntryBlockFails
<1>3. /\ op[t] \in Op /\ cache = disk /\ disk.crc = disk.dir /\ cache.dir \in Directory
      /\ disk \in [dir : Directory, crc : Directory] /\ op[t].phase \in WritePhases
      /\ op[t].slot \in Slots
  BY <1>1, WriteFacts DEF WritePhases, MInv, IInv, Typed, TypeOK, Op
<1>4. WithBlock(disk.dir, new, entry_block(op[t].slot)) = new
  BY <1>3, EditBlock DEF Edited
<1> HIDE DEF new
<1>5. disk'.dir = dir /\ disk'.crc = disk.dir
  BY <1>2, <1>3
<1>6. CASE dir = disk.dir
  <2>1. disk' = disk
    BY <1>2, <1>3, <1>6
  <2>2. durable' = durable
    BY <1>1, <2>1 DEF durable, Mountable
  <2> QED BY <1>1, <1>3, <2>2, FailAbstract
<1>7. CASE dir # disk.dir
  <2>1. durable' = Absence
    BY <1>5, <1>7, NextDamaged DEF validate_directory
  <2> QED BY <1>1, <1>3, <2>1, FailAbstract
<1> QED BY <1>6, <1>7

(* A failed write of block 0 fails the edit: old files, new files, or an    *)
(* image that mount refuses.                                                *)
LEMMA BlockZeroFailAbstract ==
    ASSUME MInv, NEW t \in Tasks, BlockZeroFails(t)
    PROVE  Abs!Fail
<1> DEFINE new == Edited(t)
<1>1. /\ op[t].phase = "publish" /\ op[t].phase \in WritePhases /\ fault_io /\ Return(t)
      /\ UNCHANGED <<data, header>>
  BY DEF BlockZeroFails, WritePhases
<1>2. PICK dir \in {disk.dir, WithBlock(disk.dir, new, 0), TornSlot(t)},
           crc \in {disk.crc, new, TornCrc} :
         disk' = [dir |-> dir, crc |-> crc]
  BY DEF BlockZeroFails
<1>3. disk'.dir = dir /\ disk'.crc = crc
  BY <1>2
<1>4. /\ op[t] \in Op /\ cache = disk /\ cache.dir \in Directory /\ header = "accepted"
      /\ disk \in [dir : Directory, crc : Directory] /\ op[t].slot \in Slots
  BY <1>1, WriteFacts DEF MInv, IInv, Typed, TypeOK, Op
<1>5. WithBlock(disk.dir, new, 0) = new
  BY <1>1, PublishedImage
<1>6. intent = Present(Files(new, data))
  BY <1>1, CommitIntention
<1> HIDE DEF new
<1>7. CASE ~validate_directory(disk')
  BY <1>1, <1>7, NextDamaged, FailAbstract
<1>8. CASE validate_directory(disk')
  <2>1. dir = crc /\ DirectorySound(dir)
    BY <1>3, <1>8 DEF validate_directory
  <2>2. dir # TornSlot(t)
    <3>1. TornSlot(t)[op[t].slot] = TornEntry
      BY <1>4 DEF TornSlot, Directory
    <3> QED BY <1>4, <2>1, <3>1, TornUnsound
  <2>3. crc # TornCrc
    <3>1. TornCrc[op[t].slot] = TornEntry
      BY <1>4 DEF TornCrc
    <3> QED BY <1>4, <2>1, <3>1, TornUnsound
  <2>4. CASE disk'.dir = new
    <3>1. durable' = intent
      BY <1>1, <1>4, <1>6, <1>8, <2>4, NextDurableFiles
    <3> QED BY <1>1, <3>1, FailAbstract
  <2>5. CASE disk'.dir # new
    <3>1. dir = disk.dir /\ crc = disk.crc
      BY <1>2, <1>3, <1>5, <2>1, <2>2, <2>3, <2>5
    <3>2. disk' = disk
      BY <1>2, <1>4, <3>1
    <3>3. durable' = durable
      BY <1>1, <3>2 DEF durable, Mountable
    <3> QED BY <1>1, <3>3, FailAbstract
  <2> QED BY <2>4, <2>5
<1> QED BY <1>7, <1>8

(* A mount that fails is the abstract failure.                              *)
LEMMA MountFailAbstract ==
    ASSUME MInv, NEW t \in Tasks, MountFails(t)
    PROVE  Abs!MountFails
<1>1. /\ fault_io /\ Return(t) /\ UNCHANGED medium /\ op[t].phase \in MountPhases
  BY DEF MountFails, MountPhases
<1>2. Active(t) /\ st = "UNMOUNTED" /\ op[t].phase \notin WritePhases
  BY <1>1, MountFacts DEF MountPhases, WritePhases
<1>3. /\ \A u \in Tasks : op[u].phase \notin WritePhases
      /\ \A u \in Tasks : op'[u].phase \notin WritePhases
  BY <1>1, <1>2, NoWriters DEF MInv
<1>4. intent = Absence /\ intent' = Absence
  BY <1>3, NoIntention, NextNoIntention
<1>5. durable' = durable /\ session = "down" /\ session' = "failed"
  BY <1>1, <1>2 DEF medium, durable, Mountable, fault_io, session
<1> QED BY <1>4, <1>5 DEF Abs!MountFails

(* unmount, the end of the program, and an instance that is new.           *)
LEMMA LeaveAbstract ==
    ASSUME UNCHANGED medium, st' \in {"UNINIT", "UNMOUNTED"},
           \A u \in Tasks : op'[u].phase = "idle"
    PROVE  Abs!Leave
<1>1. intent' = Absence
  BY NextNoIntention DEF WritePhases
<1>2. durable' = durable /\ session' = "down"
  BY DEF medium, durable, Mountable, session
<1> QED BY <1>1, <1>2 DEF Abs!Leave, Abs!NoIntent, Absence

-----------------------------------------------------------------------------
(* The refinement: every step.                                             *)

(* Every call is an abstract step or none.                                  *)
LEMMA CallAbstract ==
    ASSUME MInv, MInv', NEW t \in Tasks, Call(t)
    PROVE  AbsStutter \/ Abs!Next
<1>0. IInv'
  BY DEF MInv
<1>1. CASE InitDirectory(t) \/ Unmount(t)
  <2>1. UNCHANGED medium /\ st' = "UNMOUNTED" /\ op' = op /\ ~busy
    BY <1>1 DEF InitDirectory, Unmount, Callable, MInv, IInv, Typed, DownIsIdle
  <2>2. \A u \in Tasks : op'[u].phase = "idle"
    BY <2>1 DEF MInv, IInv, Typed, OneOperation, Active
  <2> QED BY <2>1, <2>2, LeaveAbstract DEF Abs!Next
<1>2. CASE MountBegin(t)
  <2>1. /\ op[t].phase = "idle" /\ ~busy /\ UNCHANGED <<medium, st>>
        /\ Enter(t, [Idle EXCEPT !.phase = "capacity"])
    BY <1>2 DEF MountBegin, Callable
  <2>2. [Idle EXCEPT !.phase = "capacity"].phase \notin WritePhases
    BY DEF Idle, WritePhases
  <2>3. /\ \A u \in Tasks : op[u].phase \notin WritePhases
        /\ \A u \in Tasks : op'[u].phase \notin WritePhases
    BY <2>1, <2>2, NoWriters DEF MInv, WritePhases
  <2> QED BY <2>1, <2>3, QuietAbstract
<1>3. CASE ObserveSource(t)
  <2>1. UNCHANGED <<medium, st, op>> /\ ~busy
    BY <1>3 DEF ObserveSource, Callable
  <2>2. \A u \in Tasks : op[u].phase \notin WritePhases
    BY <2>1 DEF MInv, IInv, Typed, OneOperation, Active, WritePhases
  <2> QED BY <2>1, <2>2, QuietAbstract
<1>4. ASSUME NEW n \in Names, NEW length \in Sizes, NEW bytes \in Payloads,
             Create(t, n, length, bytes) \/ Replace(t, n, length, bytes)
      PROVE  Abs!Next
  BY <1>0, <1>4, CreateAbstract, ReplaceAbstract DEF Abs!Next
<1>5. ASSUME NEW n \in Names, Remove(t, n) PROVE Abs!Next
  BY <1>5, RemoveAbstract DEF Abs!Next
<1>6. ASSUME NEW n \in Names, NEW m \in Names, Rename(t, n, m) \/ Copy(t, n, m)
      PROVE  Abs!Next
  BY <1>0, <1>6, RenameAbstract, CopyAbstract DEF Abs!Next
<1>7. ASSUME NEW n \in Names, NEW first, NEW last, Read(t, n, first, last)
      PROVE  AbsStutter
  <2>1. PICK slot \in find_entry(n) :
          Enter(t, [Idle EXCEPT !.phase = "read", !.slot = slot,
                                !.entry = cache.dir[slot], !.i = first, !.end = last + 1])
    BY <1>7 DEF Read
  <2> DEFINE o == [Idle EXCEPT !.phase = "read", !.slot = slot,
                               !.entry = cache.dir[slot], !.i = first, !.end = last + 1]
  <2>2. o.phase = "read" /\ Enter(t, o)
    BY <2>1 DEF Idle
  <2>3. op[t].phase = "idle" /\ ~busy /\ UNCHANGED <<medium, st>>
    BY <1>7 DEF Read, operation_guard, Callable
  <2> HIDE DEF o
  <2>4. /\ \A u \in Tasks : op[u].phase \notin WritePhases
        /\ \A u \in Tasks : op'[u].phase \notin WritePhases
    BY <2>2, <2>3, NoWriters DEF MInv, WritePhases
  <2> QED BY <2>3, <2>4, QuietAbstract
<1> QED BY <1>1, <1>2, <1>3, <1>4, <1>5, <1>6, <1>7 DEF Call

(* So is every step of an operation under way.                              *)
LEMMA CallbackAbstract ==
    ASSUME MInv, MInv', NEW t \in Tasks, Callback(t)
    PROVE  AbsStutter \/ Abs!Next
<1>0. IInv'
  BY DEF MInv
<1>1. CASE MountCapacity(t) \/ MountReadHeader(t) \/ MountReadDirectory(t)
  BY <1>1, MountStepAbstract DEF Abs!Next
<1>2. CASE WritePayload(t) \/ CopyFetch(t) \/ CopyStore(t)
  BY <1>0, <1>2, WriteAbstract, FetchAbstract
<1>3. CASE CommitEntryBlock(t) \/ CommitBlockZero(t)
  BY <1>3, EntryBlockAbstract, PublishAbstract DEF Abs!Next
<1>4. CASE ReadBlock(t)
  <2> DEFINE o == [op[t] EXCEPT !.i = op[t].i + 1]
  <2>1. /\ op[t].phase = "read" /\ op[t] \in Op /\ UNCHANGED <<medium, st>>
        /\ Enter(t, o) \/ Return(t)
    BY <1>4 DEF ReadBlock, MInv, IInv, Typed, TypeOK
  <2>2. o.phase = "read" /\ Active(t)
    BY <2>1 DEF Op, Active
  <2> HIDE DEF o
  <2>3. /\ \A u \in Tasks : op[u].phase \notin WritePhases
        /\ \A u \in Tasks : op'[u].phase \notin WritePhases
    BY <2>1, <2>2, NoWriters DEF MInv, WritePhases
  <2> QED BY <2>1, <2>3, QuietAbstract
<1>5. CASE MountFails(t) \/ ReadFails(t)
  BY <1>5, MountFailAbstract, FetchFailAbstract DEF Abs!Next
<1>6. CASE DataWriteFails(t) \/ EntryBlockFails(t) \/ BlockZeroFails(t)
  BY <1>6, DataFailAbstract, EntryBlockFailAbstract, BlockZeroFailAbstract DEF Abs!Next
<1> QED BY <1>1, <1>2, <1>3, <1>4, <1>5, <1>6 DEF Callback

(* So is every step.                                                        *)
LEMMA StepAbstract ==
    ASSUME MInv, MInv', [Next]_vars
    PROVE  AbsStutter \/ Abs!Next
<1>1. CASE UNCHANGED vars
  <2>1. UNCHANGED <<disk, data, header, st, op, cache>>
    BY <1>1 DEF vars
  <2> QED BY <2>1 DEF AbsStutter, durable, Mountable, session, intent, Writers, Edited,
                      IntendedData
<1>2. CASE Crash
  <2>1. UNCHANGED medium /\ st' = "UNINIT" /\ \A u \in Tasks : op'[u].phase = "idle"
    BY <1>2, IdleType DEF Crash
  <2> QED BY <2>1, LeaveAbstract DEF Abs!Next
<1> QED BY <1>1, <1>2, CallAbstract, CallbackAbstract DEF Next

(* YanFS implements its abstract specification: every call takes effect    *)
(* completely, or not at all, or leaves an image that mount refuses, and   *)
(* what takes effect is what the call says, whatever fails and whenever    *)
(* the program ends.                                                       *)
THEOREM Refinement == Spec => AbsSpec
<1>1. Init => Abs!Init
  <2>1. SUFFICES ASSUME Init PROVE Abs!Init
    OBVIOUS
  <2>2. \A u \in Tasks : op[u].phase = "idle"
    BY <2>1, IdleType DEF Init
  <2>3. intent = Absence
    BY <2>2, NoIntention DEF WritePhases
  <2>4. session = "down"
    BY <2>1 DEF Init, session
  <2> QED BY <2>3, <2>4 DEF Abs!Init, Abs!NoIntent, Absence
<1>2. MInv /\ MInv' /\ [Next]_vars => [Abs!Next]_(Abs!vars)
  BY StepAbstract DEF Abs!vars, AbsStutter
<1> QED BY <1>1, <1>2, MediumInvariance, PTL DEF Spec, AbsSpec, Abs!Spec
===============================================================================
