-------------------------- MODULE TextSearch_proofs --------------------------
(***************************************************************************)
(* Both searches say what the bytes say: the literal search reports        *)
(* exactly the lines that hold the pattern, and the scan of the term       *)
(* search ranks exactly the lines in which every group of the query        *)
(* occurs, for all files, questions and chunk sizes.                       *)
(*                                                                         *)
(* First the automaton of PatternAutomaton, which both use: it finds every *)
(* occurrence of every pattern in every text.  Then the feed of            *)
(* search_linear.c, by an invariant over the number of bytes read: what    *)
(* the state says of the open line, of a CR that is not yet settled and of *)
(* the lines already reported.  Then the term search: the whole-file check *)
(* is whole scalars, the groups of a query, the order of the ranking, and  *)
(* an invariant of the scan over the bytes, the reads and the files.       *)
(***************************************************************************)
EXTENDS TextSearch, FiniteSetTheorems, SequenceTheorems, WellFoundedInduction, TLAPS

-----------------------------------------------------------------------------
(* The order of the induction below is the usual one.                       *)
LEMMA Below == \A x, y \in Nat : <<x, y>> \in OpToRel(<, Nat) <=> x < y
BY DEF OpToRel

(* Induction over the natural numbers, for a set instead of a predicate.    *)
LEMMA Induction ==
    ASSUME NEW S, 0 \in S, \A n \in Nat : n \in S => n + 1 \in S
    PROVE  \A n \in Nat : n \in S
<1> DEFINE T == Nat \ S
<1>1. SUFFICES ASSUME T # {} PROVE FALSE
  OBVIOUS
<1>2. T \subseteq Nat
  OBVIOUS
<1> HIDE DEF T
<1>3. \E x \in T : \A y \in T : ~(<<y, x>> \in OpToRel(<, Nat))
  BY ONLY <1>1, <1>2, NatLessThanWellFounded, WFMin
<1>4. PICK x \in T : \A y \in T : ~(y < x)
  BY <1>2, <1>3, Below
<1>5. x \in Nat /\ x \notin S /\ x # 0
  BY <1>4 DEF T
<1>6. x - 1 \in Nat /\ x - 1 < x /\ x - 1 + 1 = x
  BY <1>5
<1>7. x - 1 \in S
  BY <1>4, <1>6 DEF T
<1> QED BY <1>5, <1>6, <1>7

-----------------------------------------------------------------------------
(* The automaton of the text searches.  What it does with a byte depends    *)
(* only on the longest beginning of the pattern that the bytes before end   *)
(* with, and that is what its state is.                                     *)

(* The last k of the first n bytes of w are the first k of g.               *)
Ends(g, k, w, n) == k <= n /\ \A i \in 1 .. k : g[i] = w[n - k + i]

(* What table says of the first m bytes of g: how long a shorter beginning  *)
(* of g they end with, at most.                                             *)
IsTable(g, table, m) ==
    \A i \in 1 .. m :
        /\ table[i] \in 0 .. i - 1 /\ Ends(g, table[i], g, i)
        /\ \A k \in 0 .. i - 1 : Ends(g, k, g, i) => k <= table[i]

LEMMA EndsNone == ASSUME NEW g, NEW w, NEW n \in Nat PROVE Ends(g, 0, w, n)
BY DEF Ends

(* One byte more.                                                           *)
LEMMA EndsMore ==
    ASSUME NEW g, NEW w, NEW k \in Nat, NEW n \in Nat
    PROVE  Ends(g, k + 1, w, n + 1) <=> Ends(g, k, w, n) /\ g[k + 1] = w[n + 1]
<1>1. ASSUME Ends(g, k + 1, w, n + 1)
      PROVE  Ends(g, k, w, n) /\ g[k + 1] = w[n + 1]
  <2>1. k <= n
    BY <1>1 DEF Ends
  <2>2. \A i \in 1 .. k + 1 : g[i] = w[n - k + i]
    <3>1. \A i \in 1 .. k + 1 : (n + 1) - (k + 1) + i = n - k + i
      OBVIOUS
    <3> QED BY <1>1, <3>1 DEF Ends
  <2>3. n - k + (k + 1) = n + 1
    OBVIOUS
  <2> QED BY <2>1, <2>2, <2>3 DEF Ends
<1>2. ASSUME Ends(g, k, w, n), g[k + 1] = w[n + 1]
      PROVE  Ends(g, k + 1, w, n + 1)
  <2>1. \A i \in 1 .. k : g[i] = w[n - k + i]
    BY <1>2 DEF Ends
  <2>2. ASSUME NEW i \in 1 .. k + 1 PROVE g[i] = w[(n + 1) - (k + 1) + i]
    <3>1. (n + 1) - (k + 1) + i = n - k + i
      OBVIOUS
    <3>2. CASE i = k + 1
      <4>1. n - k + i = n + 1
        BY <3>2
      <4> QED BY <1>2, <3>1, <3>2, <4>1
    <3>3. CASE i # k + 1
      BY <2>1, <3>1, <3>3
    <3> QED BY <3>2, <3>3
  <2> QED BY <1>2, <2>2 DEF Ends
<1> QED BY <1>1, <1>2

LEMMA EndsMoreEverywhere ==
    \A g, w : \A k, n \in Nat :
        Ends(g, k + 1, w, n + 1) <=> Ends(g, k, w, n) /\ g[k + 1] = w[n + 1]
BY EndsMore

(* Where the beginning of length k ends, the shorter ones that end there    *)
(* are those it ends with itself.                                           *)
LEMMA EndsWithin ==
    ASSUME NEW g, NEW w, NEW n \in Nat, NEW k \in Nat, Ends(g, k, w, n), NEW j \in 0 .. k
    PROVE  Ends(g, j, w, n) <=> Ends(g, j, g, k)
<1>1. \A i \in 1 .. j : g[k - j + i] = w[n - j + i]
  <2> TAKE i \in 1 .. j
  <2>1. k - j + i \in 1 .. k /\ n - k + (k - j + i) = n - j + i
    OBVIOUS
  <2> HIDE DEF Ends
  <2>2. \A h \in 1 .. k : g[h] = w[n - k + h]
    BY DEF Ends
  <2>3. g[k - j + i] = w[n - k + (k - j + i)]
    BY <2>1, <2>2
  <2> QED BY <2>1, <2>3
<1>2. j <= k /\ j <= n
  BY DEF Ends
<1> QED BY <1>1, <1>2 DEF Ends

(* The states from which a byte falls back.                                 *)
IsFall(f, g, table, k, b) ==
    f = [j \in 0 .. k |-> IF g[j + 1] = b THEN j + 1 ELSE IF j = 0 THEN 0 ELSE f[table[j]]]

LEMMA FallExists ==
    ASSUME NEW g, NEW table, NEW b, NEW m \in Nat, \A i \in 1 .. m : table[i] \in 0 .. i - 1
    PROVE  \E f : IsFall(f, g, table, m, b)
<1> DEFINE S == {k \in Nat : k <= m => \E f : IsFall(f, g, table, k, b)}
<1>1. 0 \in S
  <2> DEFINE f == [j \in 0 .. 0 |-> IF g[1] = b THEN 1 ELSE 0]
  <2>1. f = [j \in 0 .. 0 |-> IF g[j + 1] = b THEN j + 1 ELSE IF j = 0 THEN 0 ELSE f[table[j]]]
    OBVIOUS
  <2> HIDE DEF f
  <2> QED BY <2>1 DEF IsFall
<1>2. ASSUME NEW k \in Nat, k \in S PROVE k + 1 \in S
  <2>1. SUFFICES ASSUME k + 1 <= m PROVE \E f : IsFall(f, g, table, k + 1, b)
    OBVIOUS
  <2>2. PICK f : f = [j \in 0 .. k |-> IF g[j + 1] = b THEN j + 1
                                       ELSE IF j = 0 THEN 0 ELSE f[table[j]]]
    BY <1>2, <2>1 DEF IsFall
  <2> DEFINE final == IF g[k + 2] = b THEN k + 2 ELSE f[table[k + 1]]
             h == [j \in 0 .. k + 1 |-> IF j = k + 1 THEN final ELSE f[j]]
  <2>3. \A j \in 1 .. k + 1 : table[j] \in 0 .. k /\ h[table[j]] = f[table[j]]
    <3>1. \A j \in 1 .. k + 1 : table[j] \in 0 .. k
      BY <2>1
    <3>2. \A i \in 0 .. k : h[i] = f[i]
      OBVIOUS
    <3> HIDE DEF h
    <3> QED BY <3>1, <3>2
  <2>4. ASSUME NEW j \in 0 .. k + 1
        PROVE  h[j] = IF g[j + 1] = b THEN j + 1 ELSE IF j = 0 THEN 0 ELSE h[table[j]]
    <3>1. CASE j = k + 1
      <4>1. h[j] = final /\ j + 1 = k + 2 /\ j # 0 /\ j \in 1 .. k + 1
        BY <3>1
      <4> HIDE DEF h
      <4> QED BY <2>3, <3>1, <4>1
    <3>2. CASE j \in 0 .. k
      <4>1. h[j] = f[j]
        BY <3>2
      <4>2. f[j] = IF g[j + 1] = b THEN j + 1 ELSE IF j = 0 THEN 0 ELSE f[table[j]]
        BY <2>2, <3>2
      <4> HIDE DEF h
      <4> QED BY <2>3, <3>2, <4>1, <4>2
    <3> QED BY <3>1, <3>2
  <2>5. h = [j \in 0 .. k + 1 |-> h[j]]
    OBVIOUS
  <2> HIDE DEF h
  <2>6. h = [j \in 0 .. k + 1 |-> IF g[j + 1] = b THEN j + 1
                                  ELSE IF j = 0 THEN 0 ELSE h[table[j]]]
    BY <2>4, <2>5
  <2> QED BY <2>6 DEF IsFall
<1>3. \A n \in Nat : n \in S
  <2> HIDE DEF S
  <2> QED BY <1>1, <1>2, Induction
<1> QED BY <1>3

(* One byte takes the longest beginning that could still be going on to     *)
(* the longest that is.                                                     *)
LEMMA NextState ==
    ASSUME NEW g, NEW table, NEW w, NEW k \in Nat, NEW n \in Nat,
           IsTable(g, table, k), Ends(g, k, w, n)
    PROVE  LET q == next_state(g, table, k, w[n + 1])
           IN  /\ q \in 0 .. k + 1 /\ Ends(g, q, w, n + 1)
               /\ \A i \in 0 .. k + 1 : Ends(g, i, w, n + 1) => i <= q
<1> DEFINE b == w[n + 1]
           f == CHOOSE h : IsFall(h, g, table, k, b)
           Good(j, q) == /\ q \in 0 .. j + 1 /\ Ends(g, q, w, n + 1)
                         /\ \A i \in 0 .. j + 1 : Ends(g, i, w, n + 1) => i <= q
           S == {m \in Nat : \A j \in 0 .. m : j <= k /\ Ends(g, j, w, n) => Good(j, f[j])}
<1>1. next_state(g, table, k, b) = f[k]
  BY DEF next_state, IsFall
<1>2. \A i \in 1 .. k : table[i] \in 0 .. i - 1
  BY DEF IsTable
<1>3. IsFall(f, g, table, k, b)
  BY <1>2, FallExists
<1> HIDE DEF f
<1>4. \A j \in 0 .. k :
        f[j] = IF g[j + 1] = b THEN j + 1 ELSE IF j = 0 THEN 0 ELSE f[table[j]]
  <2>1. f = [j \in 0 .. k |-> IF g[j + 1] = b THEN j + 1 ELSE IF j = 0 THEN 0 ELSE f[table[j]]]
    BY <1>3 DEF IsFall
  <2> QED BY <2>1
<1>5. \A j \in Nat : Ends(g, j + 1, w, n + 1) <=> Ends(g, j, w, n) /\ g[j + 1] = b
  BY EndsMore
(* A byte that continues the match.                                         *)
<1>6. ASSUME NEW j \in 0 .. k, Ends(g, j, w, n), g[j + 1] = b
      PROVE  Good(j, f[j])
  <2>1. f[j] = j + 1 /\ Ends(g, j + 1, w, n + 1)
    BY <1>4, <1>5, <1>6
  <2> QED BY <2>1
(* A byte that starts over.                                                 *)
<1>7. ASSUME g[1] # b
      PROVE  Good(0, f[0])
  <2>1. f[0] = 0 /\ Ends(g, 0, w, n + 1)
    BY <1>4, <1>7, EndsNone
  <2>2. ~Ends(g, 1, w, n + 1)
    <3>1. Ends(g, 0 + 1, w, n + 1) => g[0 + 1] = b
      BY <1>5
    <3> QED BY <1>7, <3>1
  <2>3. \A i \in 0 .. 0 + 1 : i = 0 \/ i = 1
    OBVIOUS
  <2> QED BY <2>1, <2>2, <2>3
(* A byte that falls back once, to a state that does as it should.          *)
<1>8. ASSUME NEW j \in 1 .. k, Ends(g, j, w, n), g[j + 1] # b,
             Ends(g, table[j], w, n) => Good(table[j], f[table[j]])
      PROVE  Good(j, f[j])
  <2> DEFINE r == table[j]
  <2>1. /\ r \in 0 .. j - 1 /\ Ends(g, r, g, j)
        /\ \A i \in 0 .. j - 1 : Ends(g, i, g, j) => i <= r
    BY DEF IsTable
  <2>2. f[j] = f[r]
    BY <1>4, <1>8
  <2> HIDE DEF r, Good
  <2>3. Ends(g, r, w, n)
    BY <1>8, <2>1, EndsWithin
  <2>4. Good(r, f[r])
    BY <1>8, <2>3 DEF r
  <2>5. f[r] \in 0 .. r + 1 /\ Ends(g, f[r], w, n + 1)
        /\ \A i \in 0 .. r + 1 : Ends(g, i, w, n + 1) => i <= f[r]
    BY <2>4 DEF Good
  <2>6. ASSUME NEW i \in 0 .. j + 1, Ends(g, i, w, n + 1) PROVE i <= f[r]
    <3>1. CASE i = 0
      BY <2>1, <2>5, <3>1
    <3>2. CASE i # 0
      <4>1. i - 1 \in 0 .. j /\ i - 1 + 1 = i /\ i - 1 \in Nat
        BY <3>2
      <4>2. Ends(g, i - 1, w, n) /\ g[i] = b
        <5>1. Ends(g, i - 1 + 1, w, n + 1) <=> Ends(g, i - 1, w, n) /\ g[i - 1 + 1] = b
          BY <1>5, <4>1
        <5> QED BY <2>6, <4>1, <5>1
      <4>3. i - 1 # j
        BY <1>8, <4>1, <4>2
      <4>4. i - 1 \in 0 .. j - 1 /\ Ends(g, i - 1, g, j)
        BY <1>8, <4>1, <4>2, <4>3, EndsWithin
      <4>5. i - 1 <= r
        BY <2>1, <4>4
      <4> QED BY <2>1, <2>5, <2>6, <4>1, <4>5
    <3> QED BY <3>1, <3>2
  <2> QED BY <2>1, <2>2, <2>5, <2>6 DEF Good
<1>9. \A m \in Nat : m \in S
  <2>1. 0 \in S
    <3>1. \A j \in 0 .. 0 : j = 0
      OBVIOUS
    <3> HIDE DEF Good
    <3>2. Ends(g, 0, w, n) => Good(0, f[0])
      BY <1>6, <1>7
    <3> QED BY <3>1, <3>2
  <2>2. ASSUME NEW m \in Nat, m \in S PROVE m + 1 \in S
    <3>1. SUFFICES ASSUME m + 1 <= k, Ends(g, m + 1, w, n) PROVE Good(m + 1, f[m + 1])
      <4> HIDE DEF Good
      <4>1. \A j \in 0 .. m + 1 : j \in 0 .. m \/ j = m + 1
        OBVIOUS
      <4> QED BY <2>2, <4>1
    <3> HIDE DEF Good
    <3>2. \A j \in 0 .. m : Ends(g, j, w, n) => Good(j, f[j])
      BY <2>2, <3>1
    <3>3. m + 1 \in 1 .. k /\ m + 1 \in 0 .. k /\ table[m + 1] \in 0 .. m
      BY <1>2, <3>1
    <3>4. CASE g[m + 1 + 1] = b
      BY <1>6, <3>1, <3>3, <3>4
    <3>5. CASE g[m + 1 + 1] # b
      BY <1>8, <3>1, <3>2, <3>3, <3>5
    <3> QED BY <3>4, <3>5
  <2> HIDE DEF S
  <2> QED BY <2>1, <2>2, Induction
<1>10. Good(k, f[k])
  <2>1. k \in S
    BY <1>9
  <2> HIDE DEF Good
  <2> QED BY <2>1
<1> QED BY <1>1, <1>10

(* The table being filled: what it holds after m bytes of the pattern.      *)
IsFilling(r, g) ==
    r = [m \in 1 .. Len(g) |->
            IF m = 1 THEN <<0>>
            ELSE LET table == r[m - 1]
                 IN  Append(table, next_state(g, table, table[m - 1], g[m]))]

LEMMA FillingExists ==
    ASSUME NEW g, Len(g) \in Nat
    PROVE  \E r : IsFilling(r, g)
<1> DEFINE Step(t, m) == Append(t, next_state(g, t, t[m - 1], g[m]))
           S == {n \in Nat : \E r :
                   r = [m \in 1 .. n |-> IF m = 1 THEN <<0>> ELSE Step(r[m - 1], m)]}
<1>1. 0 \in S
  <2> DEFINE r == [m \in 1 .. 0 |-> <<0>>]
  <2>1. r = [m \in 1 .. 0 |-> IF m = 1 THEN <<0>> ELSE Step(r[m - 1], m)]
    OBVIOUS
  <2> HIDE DEF r, Step
  <2> QED BY <2>1
<1>2. ASSUME NEW n \in Nat, n \in S PROVE n + 1 \in S
  <2> HIDE DEF Step
  <2>1. PICK r : r = [m \in 1 .. n |-> IF m = 1 THEN <<0>> ELSE Step(r[m - 1], m)]
    BY <1>2
  <2> DEFINE last == IF n = 0 THEN <<0>> ELSE Step(r[n], n + 1)
             h == [m \in 1 .. n + 1 |-> IF m = n + 1 THEN last ELSE r[m]]
  <2>2. \A m \in 1 .. n : h[m] = r[m]
    OBVIOUS
  <2>3. h[n + 1] = last /\ h = [m \in 1 .. n + 1 |-> h[m]]
    OBVIOUS
  <2> HIDE DEF h
  <2>4. ASSUME NEW m \in 1 .. n + 1
        PROVE  h[m] = IF m = 1 THEN <<0>> ELSE Step(h[m - 1], m)
    <3>1. CASE m = n + 1
      <4>1. CASE n = 0
        BY <2>3, <3>1, <4>1
      <4>2. CASE n # 0
        <5>1. n \in 1 .. n /\ m - 1 = n /\ m # 1
          BY <3>1, <4>2
        <5> QED BY <2>2, <2>3, <3>1, <4>2, <5>1
      <4> QED BY <4>1, <4>2
    <3>2. CASE m # n + 1
      <4>1. m \in 1 .. n /\ h[m] = r[m]
        BY <2>2, <3>2
      <4>2. r[m] = IF m = 1 THEN <<0>> ELSE Step(r[m - 1], m)
        BY <2>1, <4>1
      <4>3. m # 1 => m - 1 \in 1 .. n
        BY <4>1
      <4> QED BY <2>2, <4>1, <4>2, <4>3
    <3> QED BY <3>1, <3>2
  <2>5. h = [m \in 1 .. n + 1 |-> IF m = 1 THEN <<0>> ELSE Step(h[m - 1], m)]
    BY <2>3, <2>4
  <2> QED BY <2>5
<1>3. \A n \in Nat : n \in S
  <2> HIDE DEF S
  <2> QED BY <1>1, <1>2, Induction
<1>4. Len(g) \in S
  BY <1>3
<1> QED BY <1>4 DEF IsFilling

(* The table says of every beginning of the pattern the longest shorter one *)
(* it ends with.                                                            *)
LEMMA PrefixTable ==
    ASSUME NEW g, Len(g) \in Nat \ {0}
    PROVE  IsTable(g, prefix_table(g), Len(g))
<1> DEFINE r == CHOOSE h : IsFilling(h, g)
           S == {m \in Nat : m \in 1 .. Len(g) =>
                    r[m] \in Seq(Nat) /\ Len(r[m]) = m /\ IsTable(g, r[m], m)}
<1>1. prefix_table(g) = r[Len(g)]
  BY DEF prefix_table, IsFilling
<1>2. IsFilling(r, g)
  BY FillingExists
<1> HIDE DEF r
<1>3. \A m \in 1 .. Len(g) :
        r[m] = IF m = 1 THEN <<0>>
               ELSE Append(r[m - 1], next_state(g, r[m - 1], r[m - 1][m - 1], g[m]))
  <2>1. r = [m \in 1 .. Len(g) |-> IF m = 1 THEN <<0>>
               ELSE Append(r[m - 1], next_state(g, r[m - 1], r[m - 1][m - 1], g[m]))]
    BY <1>2 DEF IsFilling
  <2> QED BY <2>1
<1>4. 1 \in S
  <2>1. 1 \in 1 .. Len(g) => r[1] = <<0>>
    BY <1>3
  <2>2. IsTable(g, <<0>>, 1)
    <3>1. \A i \in 1 .. 1 : i = 1 /\ <<0>>[i] = 0
      OBVIOUS
    <3>2. Ends(g, 0, g, 1) /\ \A k \in 0 .. 1 - 1 : k = 0
      BY EndsNone
    <3> QED BY <3>1, <3>2 DEF IsTable
  <2>3. <<0>> \in Seq(Nat) /\ Len(<<0>>) = 1
    OBVIOUS
  <2>4. 1 \in 1 .. Len(g) => r[1] \in Seq(Nat) /\ Len(r[1]) = 1 /\ IsTable(g, r[1], 1)
    BY <2>1, <2>2, <2>3
  <2> QED BY <2>4
<1>5. ASSUME NEW m \in Nat, m # 0, m \in S PROVE m + 1 \in S
  <2>1. SUFFICES ASSUME m + 1 \in 1 .. Len(g)
                 PROVE  r[m + 1] \in Seq(Nat) /\ Len(r[m + 1]) = m + 1
                        /\ IsTable(g, r[m + 1], m + 1)
    OBVIOUS
  <2> DEFINE t == r[m]
             k == t[m]
             q == next_state(g, t, k, g[m + 1])
  <2>2. t \in Seq(Nat) /\ Len(t) = m /\ IsTable(g, t, m)
    BY <1>5, <2>1
  <2>3. r[m + 1] = Append(t, q)
    <3>1. m + 1 # 1 /\ m + 1 - 1 = m
      BY <1>5
    <3>2. r[m + 1] = IF m + 1 = 1 THEN <<0>>
                     ELSE Append(r[m + 1 - 1],
                                 next_state(g, r[m + 1 - 1], r[m + 1 - 1][m + 1 - 1], g[m + 1]))
      BY <1>3, <2>1
    <3> QED BY <3>1, <3>2
  <2> HIDE DEF t
  <2>4. /\ k \in 0 .. m - 1 /\ Ends(g, k, g, m)
        /\ \A i \in 0 .. m - 1 : Ends(g, i, g, m) => i <= k
    BY <1>5, <2>2 DEF IsTable
  <2>5. IsTable(g, t, k)
    BY <2>2, <2>4 DEF IsTable
  <2> HIDE DEF k
  <2>6. /\ q \in 0 .. k + 1 /\ Ends(g, q, g, m + 1)
        /\ \A i \in 0 .. k + 1 : Ends(g, i, g, m + 1) => i <= q
    BY <2>4, <2>5, NextState
  <2> HIDE DEF q
  <2>7. ASSUME NEW i \in 0 .. m, Ends(g, i, g, m + 1) PROVE i <= q
    <3>1. CASE i = 0
      BY <2>4, <2>6, <3>1
    <3>2. CASE i # 0
      <4>1. i - 1 \in 0 .. m - 1 /\ i - 1 + 1 = i /\ i - 1 \in Nat /\ m \in Nat
        BY <3>2
      <4>2. Ends(g, i - 1 + 1, g, m + 1) <=> Ends(g, i - 1, g, m) /\ g[i - 1 + 1] = g[m + 1]
        BY ONLY <4>1, EndsMoreEverywhere
      <4>3. i - 1 <= k
        BY <2>4, <2>7, <4>1, <4>2
      <4> QED BY <2>4, <2>6, <2>7, <4>1, <4>3
    <3> QED BY <3>1, <3>2
  <2>8. q \in 0 .. m
    BY <2>4, <2>6
  <2>9. Append(t, q) \in Seq(Nat) /\ Len(Append(t, q)) = m + 1
        /\ (\A i \in 1 .. m : Append(t, q)[i] = t[i]) /\ Append(t, q)[m + 1] = q
    BY <2>2, <2>8
  <2>10. IsTable(g, Append(t, q), m + 1)
    <3> DEFINE u == Append(t, q)
    <3>1. (\A i \in 1 .. m : u[i] = t[i]) /\ u[m + 1] = q
      BY <2>9
    <3> HIDE DEF u
    <3>2. ASSUME NEW i \in 1 .. m + 1
          PROVE  /\ u[i] \in 0 .. i - 1 /\ Ends(g, u[i], g, i)
                 /\ \A j \in 0 .. i - 1 : Ends(g, j, g, i) => j <= u[i]
      <4>1. CASE i = m + 1
        <5>1. u[i] = q /\ i - 1 = m
          BY <3>1, <4>1
        <5> QED BY <2>6, <2>7, <2>8, <4>1, <5>1
      <4>2. CASE i \in 1 .. m
        <5>1. u[i] = t[i]
          BY <3>1, <4>2
        <5> QED BY <2>2, <4>2, <5>1 DEF IsTable
      <4> QED BY <4>1, <4>2
    <3>3. IsTable(g, u, m + 1)
      BY <3>2 DEF IsTable
    <3> QED BY <3>3 DEF u
  <2> QED BY <2>3, <2>9, <2>10
<1>6. \A m \in Nat : m # 0 => m \in S
  <2> HIDE DEF S
  <2> DEFINE T == {m \in Nat : m + 1 \in S}
  <2>1. 0 \in T
    BY <1>4
  <2>2. \A m \in Nat : m \in T => m + 1 \in T
    <3> TAKE m \in Nat
    <3>1. m + 1 \in Nat /\ m + 1 # 0
      OBVIOUS
    <3> QED BY <1>5, <3>1
  <2> HIDE DEF T
  <2>3. \A m \in Nat : m \in T
    BY <2>1, <2>2, Induction
  <2> TAKE m \in Nat
  <2>4. m # 0 => m - 1 \in Nat /\ m - 1 + 1 = m
    OBVIOUS
  <2> QED BY <2>3, <2>4 DEF T
<1>7. Len(g) \in S
  BY <1>6
<1> QED BY <1>1, <1>7

(* Reading a text: the state after every byte, and what the byte found.     *)
Found(g, k, b) == next_state(g, prefix_table(g), k, b)
IsReading(run, g, text) ==
    run = [n \in 0 .. Len(text) |->
            IF n = 0 THEN 0
            ELSE after_match(g, prefix_table(g), Found(g, run[n - 1], text[n]))]

Reading(g, text) ==
    LET run[n \in 0 .. Len(text)] ==
            IF n = 0 THEN 0
            ELSE after_match(g, prefix_table(g), Found(g, run[n - 1], text[n]))
    IN  run

LEMMA ReadingExists ==
    ASSUME NEW g, NEW text, Len(text) \in Nat
    PROVE  \E run : IsReading(run, g, text)
<1> DEFINE Step(k, n) == after_match(g, prefix_table(g), Found(g, k, text[n]))
           S == {n \in Nat :
                   \E run : run = [m \in 0 .. n |-> IF m = 0 THEN 0 ELSE Step(run[m - 1], m)]}
<1>1. 0 \in S
  <2> DEFINE run == [m \in 0 .. 0 |-> 0]
  <2>1. run = [m \in 0 .. 0 |-> IF m = 0 THEN 0 ELSE Step(run[m - 1], m)]
    OBVIOUS
  <2> HIDE DEF run, Step
  <2> QED BY <2>1
<1>2. ASSUME NEW n \in Nat, n \in S PROVE n + 1 \in S
  <2> HIDE DEF Step
  <2>1. PICK run : run = [m \in 0 .. n |-> IF m = 0 THEN 0 ELSE Step(run[m - 1], m)]
    BY <1>2
  <2> DEFINE h == [m \in 0 .. n + 1 |-> IF m = n + 1 THEN Step(run[n], m) ELSE run[m]]
  <2>2. \A m \in 0 .. n : h[m] = run[m]
    OBVIOUS
  <2>3. h[n + 1] = Step(run[n], n + 1) /\ h = [m \in 0 .. n + 1 |-> h[m]]
    OBVIOUS
  <2> HIDE DEF h
  <2>4. ASSUME NEW m \in 0 .. n + 1 PROVE h[m] = IF m = 0 THEN 0 ELSE Step(h[m - 1], m)
    <3>1. CASE m = n + 1
      <4>1. m # 0 /\ m - 1 = n /\ n \in 0 .. n
        BY <3>1
      <4> QED BY <2>2, <2>3, <3>1, <4>1
    <3>2. CASE m # n + 1
      <4>1. m \in 0 .. n /\ (m # 0 => m - 1 \in 0 .. n)
        BY <3>2
      <4>2. run[m] = IF m = 0 THEN 0 ELSE Step(run[m - 1], m)
        BY <2>1, <4>1
      <4> QED BY <2>2, <4>1, <4>2
    <3> QED BY <3>1, <3>2
  <2>5. h = [m \in 0 .. n + 1 |-> IF m = 0 THEN 0 ELSE Step(h[m - 1], m)]
    BY <2>3, <2>4
  <2> QED BY <2>5
<1>3. \A n \in Nat : n \in S
  <2> HIDE DEF S
  <2> QED BY <1>1, <1>2, Induction
<1>4. Len(text) \in S
  BY <1>3
<1> QED BY <1>4 DEF IsReading

(* After every byte the state is the longest beginning of the pattern,      *)
(* short of all of it, that the text so far ends with.                      *)
IsLongest(g, k, text, n) ==
    /\ k \in 0 .. Len(g) - 1 /\ Ends(g, k, text, n)
    /\ \A i \in 0 .. Len(g) - 1 : Ends(g, i, text, n) => i <= k

LEMMA OneByte ==
    ASSUME NEW g, Len(g) \in Nat \ {0}, NEW text, NEW k, NEW n \in Nat,
           IsLongest(g, k, text, n)
    PROVE  LET q == Found(g, k, text[n + 1])
           IN  /\ q = Len(g) <=> Ends(g, Len(g), text, n + 1)
               /\ IsLongest(g, after_match(g, prefix_table(g), q), text, n + 1)
<1> DEFINE L == Len(g)
           t == prefix_table(g)
           q == Found(g, k, text[n + 1])
<1>0. L \in Nat \ {0}
  OBVIOUS
<1>1. /\ k \in 0 .. L - 1 /\ Ends(g, k, text, n)
      /\ \A i \in 0 .. L - 1 : Ends(g, i, text, n) => i <= k
  BY DEF IsLongest
<1>2. IsTable(g, t, L)
  BY PrefixTable
<1>3. IsTable(g, t, k)
  <2> HIDE DEF t
  <2> QED BY <1>1, <1>2 DEF IsTable
<1>4. /\ q \in 0 .. k + 1 /\ Ends(g, q, text, n + 1)
      /\ \A i \in 0 .. k + 1 : Ends(g, i, text, n + 1) => i <= q
  <2> HIDE DEF t
  <2>1. q = next_state(g, t, k, text[n + 1])
    BY DEF Found, t
  <2> QED BY <1>1, <1>3, <2>1, NextState
<1> HIDE DEF q, L
<1>5. ASSUME NEW i \in 0 .. L, Ends(g, i, text, n + 1) PROVE i <= q
  <2>1. CASE i = 0
    BY <1>1, <1>4, <2>1
  <2>2. CASE i # 0
    <3>1. i - 1 \in 0 .. L - 1 /\ i - 1 + 1 = i /\ i - 1 \in Nat /\ n \in Nat
      BY <1>0, <2>2
    <3>2. Ends(g, i - 1 + 1, text, n + 1)
            <=> Ends(g, i - 1, text, n) /\ g[i - 1 + 1] = text[n + 1]
      BY ONLY <3>1, EndsMoreEverywhere
    <3>3. i - 1 <= k
      BY <1>1, <1>5, <3>1, <3>2
    <3> QED BY <1>1, <1>4, <1>5, <3>1, <3>3
  <2> QED BY <2>1, <2>2
<1> USE DEF L
<1>6. q \in 0 .. L
  BY <1>1, <1>4
<1>7. q = L <=> Ends(g, L, text, n + 1)
  BY <1>4, <1>5, <1>6
<1>8. CASE q # L
  <2>1. after_match(g, t, q) = q
    BY <1>8 DEF after_match
  <2>2. q \in 0 .. L - 1 /\ \A i \in 0 .. L - 1 : i \in 0 .. L
    BY <1>6, <1>8
  <2>3. IsLongest(g, q, text, n + 1)
    BY <1>4, <1>5, <2>2 DEF IsLongest
  <2> HIDE DEF t
  <2> QED BY <1>7, <2>1, <2>3 DEF t, q
<1>9. CASE q = L
  <2> DEFINE s == t[L]
  <2>1. after_match(g, t, q) = s
    BY <1>9 DEF after_match
  <2> HIDE DEF t
  <2>2. /\ s \in 0 .. L - 1 /\ Ends(g, s, g, L)
        /\ \A i \in 0 .. L - 1 : Ends(g, i, g, L) => i <= s
    BY <1>2 DEF IsTable
  <2> HIDE DEF s
  <2>3. \A i \in 0 .. L - 1 : Ends(g, i, text, n + 1) <=> Ends(g, i, g, L)
    <3>1. n + 1 \in Nat /\ Ends(g, L, text, n + 1) /\ \A i \in 0 .. L - 1 : i \in 0 .. L
      BY <1>7, <1>9
    <3> QED BY <3>1, EndsWithin
  <2>4. IsLongest(g, s, text, n + 1)
    BY <2>2, <2>3 DEF IsLongest
  <2> QED BY <1>7, <2>1, <2>4 DEF t, q
<1> QED BY <1>8, <1>9

(* PatternAutomaton: over any text, from the start of the pattern, the      *)
(* automaton finds the pattern after a byte exactly when the bytes up to it *)
(* end with the pattern, occurrences that overlap included, whatever the    *)
(* pattern repeats of itself.                                               *)
THEOREM AutomatonFindsAll ==
    ASSUME NEW S, NEW g \in Seq(S), g # <<>>, NEW text \in Seq(S),
           NEW n \in 1 .. Len(text)
    PROVE  Found(g, Reading(g, text)[n - 1], text[n]) = Len(g)
                <=> Len(g) <= n /\ SubSeq(text, n - Len(g) + 1, n) = g
<1> DEFINE run == Reading(g, text)
<1>0. IsReading(run, g, text)
  <2>1. run = CHOOSE h : IsReading(h, g, text)
    BY DEF Reading, IsReading
  <2>2. Len(text) \in Nat
    OBVIOUS
  <2> HIDE DEF run
  <2> QED BY <2>1, <2>2, ReadingExists
<1> HIDE DEF run
<1> DEFINE Q == {m \in Nat : m <= Len(text) => IsLongest(g, run[m], text, m)}
<1>1. Len(g) \in Nat \ {0} /\ Len(text) \in Nat
  OBVIOUS
<1>2. \A m \in 0 .. Len(text) :
        run[m] = IF m = 0 THEN 0
                 ELSE after_match(g, prefix_table(g), Found(g, run[m - 1], text[m]))
  <2>1. run = [m \in 0 .. Len(text) |->
                 IF m = 0 THEN 0
                 ELSE after_match(g, prefix_table(g), Found(g, run[m - 1], text[m]))]
    BY <1>0 DEF IsReading
  <2> QED BY <2>1
<1>3. 0 \in Q
  <2>1. run[0] = 0
    BY <1>1, <1>2
  <2>2. \A i \in 1 .. Len(g) - 1 : ~Ends(g, i, text, 0)
    BY DEF Ends
  <2>3. \A i \in 0 .. Len(g) - 1 : i = 0 \/ i \in 1 .. Len(g) - 1
    OBVIOUS
  <2>4. Ends(g, 0, text, 0) /\ 0 \in 0 .. Len(g) - 1
    BY <1>1, EndsNone
  <2>5. IsLongest(g, 0, text, 0)
    BY <2>2, <2>3, <2>4 DEF IsLongest
  <2> QED BY <2>1, <2>5
<1>4. \A m \in Nat : m \in Q => m + 1 \in Q
  <2> SUFFICES ASSUME NEW m \in Nat, m \in Q, m + 1 <= Len(text)
               PROVE  IsLongest(g, run[m + 1], text, m + 1)
    OBVIOUS
  <2>1. IsLongest(g, run[m], text, m)
    OBVIOUS
  <2>2. run[m + 1] = after_match(g, prefix_table(g), Found(g, run[m], text[m + 1]))
    <3>1. m + 1 \in 0 .. Len(text) /\ m + 1 # 0 /\ m + 1 - 1 = m
      BY <1>1
    <3> QED BY <1>2, <3>1
  <2> QED BY <1>1, <2>1, <2>2, OneByte
<1>5. \A m \in Nat : m \in Q
  <2> HIDE DEF Q
  <2> QED BY <1>3, <1>4, Induction
<1>6. n - 1 \in Nat /\ n - 1 + 1 = n /\ n - 1 <= Len(text) /\ n \in Nat
  OBVIOUS
<1>7. IsLongest(g, run[n - 1], text, n - 1)
  BY <1>5, <1>6
<1>8. Found(g, run[n - 1], text[n]) = Len(g) <=> Ends(g, Len(g), text, n)
  <2>1. Found(g, run[n - 1], text[n - 1 + 1]) = Len(g) <=> Ends(g, Len(g), text, n - 1 + 1)
    BY <1>1, <1>6, <1>7, OneByte
  <2> QED BY <1>6, <2>1
<1>9. Ends(g, Len(g), text, n) <=> Len(g) <= n /\ SubSeq(text, n - Len(g) + 1, n) = g
  <2>1. CASE Len(g) > n
    BY <1>1, <2>1 DEF Ends
  <2>2. CASE Len(g) <= n
    <3> DEFINE part == SubSeq(text, n - Len(g) + 1, n)
    <3>1. n - Len(g) + 1 \in 1 .. n /\ n - Len(g) + 1 \in 1 .. Len(text)
      BY <1>1, <2>2
    <3>2. part \in Seq(S) /\ Len(part) = Len(g)
      BY <1>1, <2>2, <3>1
    <3>3. \A i \in 1 .. Len(g) : part[i] = text[n - Len(g) + i]
      <4> TAKE i \in 1 .. Len(g)
      <4>1. part[i] = text[n - Len(g) + 1 + i - 1]
        BY <1>1, <2>2, <3>1
      <4>2. n - Len(g) + 1 + i - 1 = n - Len(g) + i
        BY <1>1
      <4> QED BY <4>1, <4>2
    <3> HIDE DEF part
    <3>4. part = g <=> \A i \in 1 .. Len(g) : part[i] = g[i]
      BY <3>2, SeqEqual
    <3>5. part = g <=> Ends(g, Len(g), text, n)
      BY <2>2, <3>3, <3>4 DEF Ends
    <3> QED BY <2>2, <3>5 DEF part
  <2> QED BY <1>1, <2>1, <2>2
<1> QED BY <1>8, <1>9 DEF run

-----------------------------------------------------------------------------
(* Lines: their numbers and their ends.                                     *)

Feeds(b, n) == {j \in 1 .. n : b[j] = LF}
LEMMA LineOfIs ==
    ASSUME NEW b, NEW n \in Nat
    PROVE  /\ IsFiniteSet(Feeds(b, n)) /\ Cardinality(Feeds(b, n)) \in Nat
           /\ LineOf(b, n + 1) = 1 + Cardinality(Feeds(b, n))
<1>1. IsFiniteSet(1 .. n)
  BY FS_Interval
<1>2. Feeds(b, n) \subseteq 1 .. n
  BY DEF Feeds
<1>3. IsFiniteSet(Feeds(b, n)) /\ Cardinality(Feeds(b, n)) \in Nat
  BY <1>1, <1>2, FS_Subset, FS_CardinalityType
<1>4. 1 .. n + 1 - 1 = 1 .. n
  OBVIOUS
<1>5. LineOf(b, n + 1) = 1 + Cardinality(Feeds(b, n))
  BY <1>4 DEF LineOf, Feeds
<1> QED BY <1>3, <1>5

(* A line feed moves every later byte at least one line on.                 *)
LEMMA LaterLine ==
    ASSUME NEW b, NEW i \in Nat, NEW j \in Nat, i < j, b[j] = LF
    PROVE  LineOf(b, i + 1) < LineOf(b, j + 1)
<1> DEFINE F == Feeds(b, i) \cup {j}
<1>1. F \subseteq Feeds(b, j)
  BY DEF Feeds
<1>2. j \notin Feeds(b, i)
  BY DEF Feeds
<1>3. Cardinality(F) = Cardinality(Feeds(b, i)) + 1
  BY <1>2, LineOfIs, FS_AddElement
<1> HIDE DEF F
<1>4. Cardinality(F) <= Cardinality(Feeds(b, j)) /\ Cardinality(F) \in Nat
  BY <1>1, LineOfIs, FS_Subset, FS_CardinalityType
<1>5. /\ LineOf(b, i + 1) = 1 + Cardinality(Feeds(b, i))
      /\ LineOf(b, j + 1) = 1 + Cardinality(Feeds(b, j))
      /\ Cardinality(Feeds(b, i)) \in Nat /\ Cardinality(Feeds(b, j)) \in Nat
  BY LineOfIs
<1> QED BY <1>3, <1>4, <1>5

(* ... and exactly one when it is the only one in between.                  *)
LEMMA NextLine ==
    ASSUME NEW b, NEW i \in Nat, NEW j \in Nat, i < j, b[j] = LF,
           \A k \in i + 1 .. j - 1 : b[k] # LF
    PROVE  LineOf(b, j + 1) = LineOf(b, i + 1) + 1
<1>1. Feeds(b, j) = Feeds(b, i) \cup {j}
  <2>1. \A k \in 1 .. j : k \in 1 .. i \/ k \in i + 1 .. j - 1 \/ k = j
    OBVIOUS
  <2>2. \A k \in 1 .. i : k \in 1 .. j
    OBVIOUS
  <2> QED BY <2>1, <2>2 DEF Feeds
<1>2. j \notin Feeds(b, i)
  BY DEF Feeds
<1>3. Cardinality(Feeds(b, j)) = Cardinality(Feeds(b, i)) + 1
  BY <1>1, <1>2, LineOfIs, FS_AddElement
<1>4. /\ LineOf(b, i + 1) = 1 + Cardinality(Feeds(b, i))
      /\ LineOf(b, j + 1) = 1 + Cardinality(Feeds(b, j))
      /\ Cardinality(Feeds(b, i)) \in Nat
  BY LineOfIs
<1> QED BY <1>3, <1>4

LEMMA LastLineEnd ==
    ASSUME NEW b, NEW i, \A j \in i + 1 .. Len(b) : b[j] # LF
    PROVE  LineEnd(b, i) = Len(b)
BY DEF LineEnd

LEMMA LeastIs ==
    ASSUME NEW S, S \subseteq Int, NEW x \in S, \A y \in S : x <= y
    PROVE  Least(S) = x
<1> DEFINE z == CHOOSE y \in S : \A w \in S : y <= w
<1>1. z \in S /\ \A w \in S : z <= w
  OBVIOUS
<1>2. Least(S) = z
  BY DEF Least
<1> HIDE DEF z
<1>3. z <= x /\ x <= z /\ x \in Int /\ z \in Int
  BY <1>1
<1> QED BY <1>2, <1>3

LEMMA LineEndAt ==
    ASSUME NEW b, NEW i \in Nat, Len(b) \in Nat, NEW lf \in i + 1 .. Len(b), b[lf] = LF,
           \A j \in i + 1 .. lf - 1 : b[j] # LF
    PROVE  LineEnd(b, i) = IF lf > 1 /\ b[lf - 1] = CR THEN lf - 2 ELSE lf - 1
<1> DEFINE lfs == {j \in i + 1 .. Len(b) : b[j] = LF}
<1>1. lf \in lfs /\ \A j \in lfs : lf <= j
  <2>1. \A j \in i + 1 .. Len(b) : j \in i + 1 .. lf - 1 \/ lf <= j
    OBVIOUS
  <2> QED BY <2>1
<1>2. \A j \in lfs : j \in Int
  OBVIOUS
<1>3. LineEnd(b, i) = IF lfs = {} THEN Len(b)
                      ELSE IF Least(lfs) > 1 /\ b[Least(lfs) - 1] = CR
                           THEN Least(lfs) - 2 ELSE Least(lfs) - 1
  BY DEF LineEnd
<1> HIDE DEF lfs
<1>4. Least(lfs) = lf
  BY <1>1, <1>2, LeastIs
<1> QED BY <1>1, <1>3, <1>4

LEMMA NextLineEnd ==
    ASSUME NEW b, Len(b) \in Nat, NEW i \in Nat, NEW n \in Nat, i <= n, n < Len(b),
           b[n + 1] = LF, \A j \in i + 1 .. n : b[j] # LF
    PROVE  LineEnd(b, i) = IF n > 0 /\ b[n] = CR THEN n - 1 ELSE n
<1>1. n + 1 \in i + 1 .. Len(b) /\ n + 1 - 1 = n /\ n + 1 - 2 = n - 1 /\ (n + 1 > 1 <=> n > 0)
  OBVIOUS
<1> DEFINE lf == n + 1
<1>2. lf \in i + 1 .. Len(b) /\ b[lf] = LF /\ lf - 1 = n
  BY <1>1
<1> HIDE DEF lf
<1>3. LineEnd(b, i) = IF lf > 1 /\ b[lf - 1] = CR THEN lf - 2 ELSE lf - 1
  BY <1>2, LineEndAt
<1> QED BY <1>1, <1>3 DEF lf

-----------------------------------------------------------------------------
(* One file.  The text of the line that starts at i, what it holds and the  *)
(* rows that are due.                                                       *)

From(b, i) == [j \in Nat |-> b[i + j]]
Hit(b, i, c) == \E m \in 1 .. c : Ends(pattern, Len(pattern), From(b, i), m)
IsStart(b, i) == i = 0 \/ b[i] = LF
IsRow(b, i) == IsStart(b, i) /\ Hit(b, i, LineEnd(b, i) - i)
RowAt(b, i) == <<LineOf(b, i + 1), i, LineEnd(b, i) - i>>

(* out holds the rows of the lines that start before m, in their order.     *)
Rows(b, out, m) ==
    /\ \A k \in 1 .. Len(out) : /\ out[k][2] \in 0 .. m - 1 /\ IsRow(b, out[k][2])
                                /\ out[k] = RowAt(b, out[k][2])
    /\ \A k \in 1 .. Len(out) - 1 : out[k][2] < out[k + 1][2]
    /\ \A i \in 0 .. m - 1 : IsRow(b, i) => \E k \in 1 .. Len(out) : out[k][2] = i

Row == Nat \X Nat \X Nat
State == [line : Nat, start : Nat, content : Nat, kmp : Nat, match : BOOLEAN,
          cr : BOOLEAN, newline : BOOLEAN, out : Seq(Row)]

LEMMA RowsMore ==
    ASSUME NEW b, NEW out, NEW m \in Nat, NEW n \in Nat, m <= n, Rows(b, out, m),
           \A i \in m .. n - 1 : ~IsRow(b, i)
    PROVE  Rows(b, out, n)
<1>1. \A i \in 0 .. n - 1 : i \in 0 .. m - 1 \/ i \in m .. n - 1
  OBVIOUS
<1>2. \A i \in 0 .. m - 1 : i \in 0 .. n - 1
  OBVIOUS
<1> QED BY <1>1, <1>2 DEF Rows

(* One row more.                                                            *)
LEMMA RowsAppend ==
    ASSUME NEW b, NEW out \in Seq(Row), NEW i \in Nat, Rows(b, out, i),
           IsRow(b, i), RowAt(b, i) \in Row
    PROVE  Rows(b, Append(out, RowAt(b, i)), i + 1)
<1> DEFINE new == Append(out, RowAt(b, i))
           L == Len(out)
<1>1. L \in Nat /\ Len(new) = L + 1 /\ (\A k \in 1 .. L : new[k] = out[k])
      /\ new[L + 1] = RowAt(b, i)
  OBVIOUS
<1>2. RowAt(b, i)[2] = i
  BY DEF RowAt
<1>3. /\ \A k \in 1 .. L : /\ out[k][2] \in 0 .. i - 1 /\ IsRow(b, out[k][2])
                           /\ out[k] = RowAt(b, out[k][2])
      /\ \A k \in 1 .. L - 1 : out[k][2] < out[k + 1][2]
      /\ \A j \in 0 .. i - 1 : IsRow(b, j) => \E k \in 1 .. L : out[k][2] = j
  BY DEF Rows
<1> HIDE DEF new, L
<1>4. ASSUME NEW k \in 1 .. Len(new)
      PROVE  /\ new[k][2] \in 0 .. i /\ IsRow(b, new[k][2]) /\ new[k] = RowAt(b, new[k][2])
  <2>1. CASE k = L + 1
    <3>1. new[k] = RowAt(b, i) /\ new[k][2] = i
      BY <1>1, <1>2, <2>1
    <3> QED BY <3>1
  <2>2. CASE k \in 1 .. L
    <3>1. new[k] = out[k]
      BY <1>1, <2>2
    <3>2. out[k][2] \in 0 .. i - 1 /\ IsRow(b, out[k][2]) /\ out[k] = RowAt(b, out[k][2])
      BY <1>3, <2>2
    <3> QED BY <3>1, <3>2
  <2> QED BY <1>1, <1>4, <2>1, <2>2
<1>5. ASSUME NEW k \in 1 .. Len(new) - 1 PROVE new[k][2] < new[k + 1][2]
  <2>1. k \in 1 .. L /\ new[k] = out[k]
    BY <1>1, <1>5
  <2>2. CASE k = L
    <3>1. new[k + 1] = RowAt(b, i)
      BY <1>1, <2>2
    <3>2. out[k][2] \in 0 .. i - 1
      BY <1>3, <2>1
    <3> QED BY <1>2, <2>1, <3>1, <3>2
  <2>3. CASE k # L
    <3>0. L \in Nat
      BY <1>1
    <3>1. k \in 1 .. L - 1 /\ k + 1 \in 1 .. L
      BY ONLY <2>1, <2>3, <3>0
    <3>2. new[k + 1] = out[k + 1]
      BY <1>1, <3>1
    <3> QED BY <1>3, <2>1, <3>1, <3>2
  <2> QED BY <2>2, <2>3
<1>6. ASSUME NEW j \in 0 .. i, IsRow(b, j) PROVE \E k \in 1 .. Len(new) : new[k][2] = j
  <2>1. CASE j = i
    <3>1. L + 1 \in 1 .. Len(new) /\ new[L + 1][2] = j
      BY <1>1, <1>2, <2>1
    <3> QED BY <3>1
  <2>2. CASE j # i
    <3>1. j \in 0 .. i - 1
      BY <2>2
    <3>2. PICK k \in 1 .. L : out[k][2] = j
      BY <1>3, <1>6, <3>1
    <3>3. k \in 1 .. Len(new) /\ new[k] = out[k]
      BY <1>1
    <3> QED BY <3>2, <3>3
  <2> QED BY <2>1, <2>2
<1>7. 0 .. i + 1 - 1 = 0 .. i
  OBVIOUS
<1>8. Rows(b, new, i + 1)
  BY <1>4, <1>5, <1>6, <1>7 DEF Rows
<1> QED BY <1>8 DEF new

(* The end of a line, whose content is what was fed.                        *)
LEMMA EndLine ==
    ASSUME NEW b, NEW s \in State, IsStart(b, s.start), s.line = LineOf(b, s.start + 1),
           LineEnd(b, s.start) = s.start + s.content,
           s.match <=> Hit(b, s.start, s.content), Rows(b, s.out, s.start)
    PROVE  LET e == end_line(s)
           IN  /\ e \in State /\ ~e.match /\ Rows(b, e.out, s.start + 1)
               /\ e.line = s.line /\ e.start = s.start /\ e.content = s.content
               /\ e.kmp = s.kmp /\ e.cr = s.cr /\ e.newline = s.newline
<1>1. s.start \in Nat /\ s.content \in Nat /\ s.line \in Nat /\ s.out \in Seq(Row)
      /\ s.match \in BOOLEAN
  BY DEF State
<1>2. LineEnd(b, s.start) - s.start = s.content
  BY <1>1
<1>3. IsRow(b, s.start) <=> s.match
  BY <1>2 DEF IsRow
<1>4. CASE ~s.match
  <2>1. Rows(b, s.out, s.start + 1)
    <3>1. s.start <= s.start + 1 /\ s.start + 1 \in Nat
      BY <1>1
    <3>2. \A i \in s.start .. s.start + 1 - 1 : ~IsRow(b, i)
      <4>1. \A i \in s.start .. s.start + 1 - 1 : i = s.start
        BY <1>1
      <4> QED BY <1>3, <1>4, <4>1
    <3> QED BY <1>1, <3>1, <3>2, RowsMore
  <2>2. end_line(s) = s
    BY <1>4 DEF end_line
  <2> QED BY <1>4, <2>1, <2>2
<1>5. CASE s.match
  <2> DEFINE new == Append(s.out, <<s.line, s.start, s.content>>)
  <2>1. RowAt(b, s.start) = <<s.line, s.start, s.content>>
    BY <1>2 DEF RowAt
  <2>2. <<s.line, s.start, s.content>> \in Row
    BY <1>1 DEF Row
  <2>3. Rows(b, new, s.start + 1)
    BY <1>1, <1>3, <1>5, <2>1, <2>2, RowsAppend
  <2>4. new \in Seq(Row)
    BY <1>1, <2>2
  <2>5. end_line(s) = [s EXCEPT !.match = FALSE, !.out = new]
    BY <1>5 DEF end_line
  <2> HIDE DEF new
  <2> DEFINE e == [s EXCEPT !.match = FALSE, !.out = new]
  <2>6. /\ e.match = FALSE /\ e.out = new /\ e.line = s.line /\ e.start = s.start
        /\ e.content = s.content /\ e.kmp = s.kmp /\ e.cr = s.cr /\ e.newline = s.newline
    BY DEF State
  <2>7. e \in State
    BY <2>4 DEF State
  <2> HIDE DEF e
  <2>8. end_line(s) = e
    BY <2>5 DEF e
  <2> QED BY <2>3, <2>6, <2>7, <2>8
<1> QED BY <1>1, <1>4, <1>5


(* One byte of content goes to the automaton.                               *)
LEMMA FeedContent ==
    ASSUME NEW s \in State, NEW byte, NEW text, Len(pattern) \in Nat \ {0},
           IsLongest(pattern, s.kmp, text, s.content), byte = text[s.content + 1]
    PROVE  LET t == feed_content(s, byte)
           IN  /\ t \in State /\ t.line = s.line /\ t.start = s.start /\ t.cr = s.cr
               /\ t.newline = s.newline /\ t.out = s.out
               /\ t.content = s.content + 1
               /\ IsLongest(pattern, t.kmp, text, t.content)
               /\ t.match <=> s.match \/ Ends(pattern, Len(pattern), text, t.content)
<1> DEFINE q == Found(pattern, s.kmp, byte)
           k == after_match(pattern, prefix_table(pattern), q)
           match == s.match \/ q = Len(pattern)
           t == [s EXCEPT !.content = s.content + 1, !.match = match, !.kmp = k]
<1>1. s.content \in Nat /\ s.match \in BOOLEAN
  BY DEF State
<1>2. /\ q = Len(pattern) <=> Ends(pattern, Len(pattern), text, s.content + 1)
      /\ IsLongest(pattern, k, text, s.content + 1)
  BY ONLY <1>1, OneByte, Len(pattern) \in Nat \ {0}, byte = text[s.content + 1],
          IsLongest(pattern, s.kmp, text, s.content)
<1>3. feed_content(s, byte) = t
  BY DEF feed_content, Found
<1> HIDE DEF q
<1>4. k \in Nat
  <2> HIDE DEF k
  <2>1. k \in 0 .. Len(pattern) - 1
    BY <1>2 DEF IsLongest
  <2> QED BY <2>1
<1> HIDE DEF k
<1>5. match \in BOOLEAN
  BY <1>1
<1>6. match <=> s.match \/ Ends(pattern, Len(pattern), text, s.content + 1)
  BY <1>2
<1> HIDE DEF match
<1>7. t \in State
  <2>1. s.content + 1 \in Nat
    BY <1>1
  <2> QED BY ONLY <1>4, <1>5, <2>1, s \in State DEF State
<1>8. /\ t.line = s.line /\ t.start = s.start /\ t.cr = s.cr /\ t.newline = s.newline
      /\ t.out = s.out /\ t.content = s.content + 1 /\ t.kmp = k /\ t.match = match
  BY DEF State
<1> HIDE DEF t
<1> QED BY <1>2, <1>3, <1>6, <1>7, <1>8

LEMMA HitMore ==
    ASSUME NEW b, NEW i, NEW c \in Nat
    PROVE  Hit(b, i, c + 1) <=> Hit(b, i, c) \/ Ends(pattern, Len(pattern), From(b, i), c + 1)
<1>1. \A m : m \in 1 .. c + 1 <=> m \in 1 .. c \/ m = c + 1
  OBVIOUS
<1> QED BY <1>1 DEF Hit

(* What the state says between two bytes, after n of them: the line that is *)
(* open, with c bytes of content, or the line that was ended by the last    *)
(* byte.                                                                    *)
LineSoFar(s, b, n) ==
    /\ s \in State /\ s.start \in 0 .. n /\ IsStart(b, s.start)
    /\ s.line = LineOf(b, s.start + 1)
Open(s, b, n, c) ==
    /\ LineSoFar(s, b, n) /\ ~s.newline
    /\ \A i \in s.start + 1 .. n : b[i] # LF
    /\ s.content = c
    /\ IsLongest(pattern, s.kmp, From(b, s.start), c)
    /\ s.match <=> Hit(b, s.start, c)
    /\ Rows(b, s.out, s.start)
Closed(s, b, n) ==
    /\ LineSoFar(s, b, n) /\ s.newline /\ s.start < n /\ b[n] = LF
    /\ \A i \in s.start + 1 .. n - 1 : b[i] # LF
    /\ ~s.match
    /\ Rows(b, s.out, s.start + 1)
Sound(s, b, n) ==
    \/ Closed(s, b, n) /\ ~s.cr
    \/ Open(s, b, n, n - s.start) /\ ~s.cr /\ (n = 0 \/ (s.start < n /\ b[n] # CR))
    \/ Open(s, b, n, n - s.start - 1) /\ s.cr /\ s.start < n /\ b[n] = CR

(* A byte of content goes to the open line.                                 *)
LEMMA FeedOpen ==
    ASSUME NEW b, NEW n \in Nat, NEW s, NEW c \in Nat, NEW m \in Nat, Open(s, b, n, c),
           Len(pattern) \in Nat \ {0}, n <= m, \A i \in n + 1 .. m : b[i] # LF
    PROVE  LET t == feed_content(s, b[s.start + c + 1])
           IN  Open(t, b, m, c + 1) /\ t.cr = s.cr /\ t.start = s.start
<1> DEFINE text == From(b, s.start)
           byte == b[s.start + c + 1]
           t == feed_content(s, byte)
<1>1. s \in State /\ s.start \in 0 .. n /\ s.content = c
  BY DEF Open, LineSoFar
<1>2. byte = text[s.content + 1]
  <2>1. c + 1 \in Nat /\ s.start + (c + 1) = s.start + c + 1
    BY <1>1
  <2>2. text[c + 1] = b[s.start + (c + 1)]
    BY <2>1 DEF From
  <2> QED BY <1>1, <2>1, <2>2
<1>3. IsLongest(pattern, s.kmp, text, s.content)
  BY <1>1 DEF Open
<1> HIDE DEF text, byte
<1>4. /\ t \in State /\ t.line = s.line /\ t.start = s.start /\ t.cr = s.cr
      /\ t.newline = s.newline /\ t.out = s.out /\ t.content = s.content + 1
      /\ IsLongest(pattern, t.kmp, text, t.content)
      /\ t.match <=> s.match \/ Ends(pattern, Len(pattern), text, t.content)
  BY <1>1, <1>2, <1>3, FeedContent
<1> HIDE DEF t
<1>5. t.match <=> Hit(b, s.start, c + 1)
  <2>1. s.match <=> Hit(b, s.start, c)
    BY DEF Open
  <2> QED BY <1>1, <1>4, <2>1, HitMore DEF text
<1>6. \A i \in t.start + 1 .. m : b[i] # LF
  <2>1. \A i \in s.start + 1 .. n : b[i] # LF
    BY DEF Open
  <2>2. \A i \in s.start + 1 .. m : i \in s.start + 1 .. n \/ i \in n + 1 .. m
    BY <1>1
  <2> QED BY <1>4, <2>1, <2>2
<1>7. t.start \in 0 .. m
  BY <1>1, <1>4
<1>8. IsStart(b, t.start) /\ t.line = LineOf(b, t.start + 1) /\ ~t.newline
      /\ Rows(b, t.out, t.start)
  BY <1>4 DEF Open, LineSoFar
<1>9. Open(t, b, m, c + 1)
  BY <1>1, <1>4, <1>5, <1>6, <1>7, <1>8 DEF Open, LineSoFar, text
<1> QED BY <1>4, <1>9 DEF t, byte


LEMMA SetCr ==
    ASSUME NEW b, NEW n, NEW s, NEW c, NEW x \in BOOLEAN, Open(s, b, n, c)
    PROVE  LET t == [s EXCEPT !.cr = x]
           IN  Open(t, b, n, c) /\ (t.cr <=> x) /\ t.start = s.start
<1> DEFINE t == [s EXCEPT !.cr = x]
<1>1. s \in State
  BY DEF Open, LineSoFar
<1>2. /\ t \in State /\ t.line = s.line /\ t.start = s.start /\ t.content = s.content
      /\ t.kmp = s.kmp /\ t.match = s.match /\ t.cr = x /\ t.newline = s.newline
      /\ t.out = s.out
  BY <1>1 DEF State
<1> HIDE DEF t
<1>3. Open(t, b, n, c)
  BY <1>2 DEF Open, LineSoFar
<1> QED BY <1>2, <1>3 DEF t

(* The open line ends at the next byte.                                     *)
LEMMA EndOpen ==
    ASSUME NEW b, NEW n \in Nat, NEW s, NEW c, Open(s, b, n, c), b[n + 1] = LF,
           LineEnd(b, s.start) = s.start + c
    PROVE  LET t == [end_line(s) EXCEPT !.newline = TRUE]
           IN  Closed(t, b, n + 1) /\ t.cr = s.cr
<1> DEFINE e == end_line(s)
           t == [e EXCEPT !.newline = TRUE]
<1>1. /\ s \in State /\ s.start \in 0 .. n /\ IsStart(b, s.start) /\ s.content = c
      /\ s.line = LineOf(b, s.start + 1) /\ Rows(b, s.out, s.start)
      /\ s.match <=> Hit(b, s.start, c)
      /\ \A i \in s.start + 1 .. n : b[i] # LF
  BY DEF Open, LineSoFar
<1>2. /\ e \in State /\ ~e.match /\ Rows(b, e.out, s.start + 1)
      /\ e.line = s.line /\ e.start = s.start /\ e.cr = s.cr
  BY <1>1, EndLine
<1> HIDE DEF e
<1>3. /\ t \in State /\ t.line = e.line /\ t.start = e.start /\ t.match = e.match
      /\ t.cr = e.cr /\ t.newline = TRUE /\ t.out = e.out
  BY <1>2 DEF State
<1> HIDE DEF t
<1>4. t.start \in 0 .. n + 1 /\ t.start < n + 1 /\ n + 1 - 1 = n
  BY <1>1, <1>2, <1>3
<1>5. Closed(t, b, n + 1)
  BY <1>1, <1>2, <1>3, <1>4 DEF Closed, LineSoFar
<1> QED BY <1>2, <1>3, <1>5 DEF t, e

(* The first byte after a line opens the next one.                          *)
Fresh(s, n) == [s EXCEPT !.line = s.line + 1, !.start = n, !.content = 0, !.kmp = 0,
                         !.match = FALSE, !.newline = FALSE]
LEMMA NextOpen ==
    ASSUME NEW b, NEW n \in Nat, NEW s, Closed(s, b, n), Len(pattern) \in Nat \ {0}
    PROVE  /\ Open(Fresh(s, n), b, n, 0)
           /\ Fresh(s, n).start = n /\ Fresh(s, n).cr = s.cr
<1> DEFINE t == Fresh(s, n)
<1>1. /\ s \in State /\ s.start \in 0 .. n /\ s.line = LineOf(b, s.start + 1)
      /\ s.start < n /\ b[n] = LF /\ Rows(b, s.out, s.start + 1)
      /\ \A i \in s.start + 1 .. n - 1 : b[i] # LF
  BY DEF Closed, LineSoFar
<1>2. s.line \in Nat /\ s.start \in Nat
  BY <1>1 DEF State
<1>3. /\ t \in State /\ t.line = s.line + 1 /\ t.start = n /\ t.content = 0 /\ t.kmp = 0
      /\ t.match = FALSE /\ t.cr = s.cr /\ t.newline = FALSE /\ t.out = s.out
  <2> DEFINE a == [s EXCEPT !.line = s.line + 1, !.start = n, !.content = 0]
  <2>1. /\ a \in State /\ a.line = s.line + 1 /\ a.start = n /\ a.content = 0
        /\ a.cr = s.cr /\ a.out = s.out
    <3>1. s \in State /\ s.line + 1 \in Nat /\ n \in Nat
      BY <1>1, <1>2
    <3> QED BY ONLY <3>1 DEF State
  <2>2. t = [a EXCEPT !.kmp = 0, !.match = FALSE, !.newline = FALSE]
    BY DEF Fresh
  <2> HIDE DEF a, t
  <2>3. /\ t \in State /\ t.line = a.line /\ t.start = a.start /\ t.content = a.content
        /\ t.kmp = 0 /\ t.match = FALSE /\ t.newline = FALSE /\ t.cr = a.cr /\ t.out = a.out
    BY ONLY <2>1, <2>2 DEF State
  <2> QED BY <2>1, <2>3
<1> HIDE DEF t
<1>4. t.line = LineOf(b, t.start + 1)
  BY <1>1, <1>2, <1>3, NextLine
<1>5. Rows(b, t.out, n)
  <2>1. s.start + 1 \in Nat /\ s.start + 1 <= n
    BY <1>1, <1>2
  <2>2. \A i \in s.start + 1 .. n - 1 : ~IsRow(b, i)
    <3>1. \A i \in s.start + 1 .. n - 1 : i # 0
      BY <1>2
    <3> QED BY <1>1, <3>1 DEF IsRow, IsStart
  <2>3. Rows(b, s.out, n)
    BY <1>1, <2>1, <2>2, RowsMore
  <2> QED BY <1>3, <2>3
<1>6. IsLongest(pattern, 0, From(b, n), 0)
  <2>1. \A i \in 0 .. Len(pattern) - 1 : Ends(pattern, i, From(b, n), 0) => i <= 0
    BY DEF Ends
  <2>2. Ends(pattern, 0, From(b, n), 0)
    BY EndsNone
  <2> QED BY <2>1, <2>2 DEF IsLongest
<1>7. ~Hit(b, n, 0)
  BY DEF Hit
<1>8. (\A i \in n + 1 .. n : b[i] # LF) /\ n \in 0 .. n /\ IsStart(b, n)
  BY <1>1 DEF IsStart
<1>9. Open(t, b, n, 0)
  BY <1>3, <1>4, <1>5, <1>6, <1>7, <1>8 DEF Open, LineSoFar
<1> QED BY <1>3, <1>9 DEF t

(* What is due before a byte: a CR that turned out to be content.           *)
Settled(s) == IF s.cr THEN feed_content([s EXCEPT !.cr = FALSE], CR) ELSE s
LEMMA Settle ==
    ASSUME NEW b, NEW n \in Nat, NEW s, Sound(s, b, n), Len(pattern) \in Nat \ {0}
    PROVE  LET t == Settled(s)
           IN  /\ ~t.cr
               /\ \/ Closed(t, b, n) /\ ~s.cr
                  \/ Open(t, b, n, n - t.start) /\ (n = 0 \/ t.start < n)
               /\ ~s.cr => n = 0 \/ b[n] # CR
<1> DEFINE t == Settled(s)
<1>1. CASE Closed(s, b, n) /\ ~s.cr
  <2>1. t = s
    BY <1>1 DEF Settled
  <2>2. b[n] # CR
    BY <1>1 DEF Closed, LF, CR
  <2> QED BY <1>1, <2>1, <2>2
<1>2. CASE Open(s, b, n, n - s.start) /\ ~s.cr /\ (n = 0 \/ (s.start < n /\ b[n] # CR))
  <2>1. t = s
    BY <1>2 DEF Settled
  <2> QED BY <1>2, <2>1
<1>3. CASE Open(s, b, n, n - s.start - 1) /\ s.cr /\ s.start < n /\ b[n] = CR
  <2> DEFINE u == [s EXCEPT !.cr = FALSE]
             c == n - s.start - 1
  <2>1. Open(u, b, n, c) /\ ~u.cr /\ u.start = s.start
    BY <1>3, SetCr
  <2>2. s.start \in 0 .. n
    BY <1>3 DEF Open, LineSoFar
  <2>3. t = feed_content(u, CR)
    BY <1>3 DEF Settled
  <2> HIDE DEF u, t
  <2>4. c \in Nat /\ u.start + c + 1 = n /\ c + 1 = n - s.start
    BY <1>3, <2>1, <2>2
  <2> HIDE DEF c
  <2>5. \A i \in n + 1 .. n : b[i] # LF
    OBVIOUS
  <2>6. t = feed_content(u, b[u.start + c + 1])
    BY <1>3, <2>3, <2>4
  <2>7. Open(t, b, n, c + 1) /\ t.cr = u.cr /\ t.start = u.start
    BY <2>1, <2>4, <2>5, <2>6, FeedOpen
  <2>8. Open(t, b, n, n - t.start) /\ ~t.cr /\ t.start < n
    BY <1>3, <2>1, <2>4, <2>7
  <2> QED BY <1>3, <2>8 DEF t
<1> QED BY <1>1, <1>2, <1>3 DEF Sound

(* One byte.                                                                *)
LEMMA FeedByte ==
    ASSUME NEW b, NEW n \in Nat, NEW s, Sound(s, b, n), Len(pattern) \in Nat \ {0},
           Len(b) \in Nat, n < Len(b)
    PROVE  Sound(feed_byte(s, b[n + 1], n), b, n + 1)
<1> DEFINE f == feed_byte(s, b[n + 1], n)
<1>1. CASE s.cr /\ b[n + 1] = LF
  <2> DEFINE u == [s EXCEPT !.cr = FALSE]
             c == n - s.start - 1
  <2>1. Open(s, b, n, c) /\ s.start < n /\ b[n] = CR
    BY <1>1 DEF Sound
  <2>2. Open(u, b, n, c) /\ ~u.cr /\ u.start = s.start
    BY <2>1, SetCr
  <2>3. f = [end_line(u) EXCEPT !.newline = TRUE]
    BY <1>1 DEF feed_byte
  <2>4. s.start \in 0 .. n /\ \A i \in s.start + 1 .. n : b[i] # LF
    BY <2>1 DEF Open, LineSoFar
  <2>5. LineEnd(b, s.start) = s.start + c
    <3>1. s.start \in Nat /\ s.start <= n /\ n > 0 /\ n - 1 = s.start + c
      BY <2>1, <2>4
    <3>2. b[n + 1] = LF /\ b[n] = CR /\ \A i \in s.start + 1 .. n : b[i] # LF
      BY <1>1, <2>1, <2>4
    <3>3. LineEnd(b, s.start) = IF n > 0 /\ b[n] = CR THEN n - 1 ELSE n
      BY <3>1, <3>2, NextLineEnd
    <3> QED BY ONLY <3>1, <3>2, <3>3
  <2> HIDE DEF u, c, f
  <2>6. Closed(f, b, n + 1) /\ f.cr = u.cr
    BY <1>1, <2>2, <2>3, <2>5, EndOpen
  <2> QED BY <2>2, <2>6 DEF Sound, f
<1>2. CASE ~(s.cr /\ b[n + 1] = LF)
  <2> DEFINE t == Settled(s)
             new == Fresh(t, n)
             u == IF t.newline THEN new ELSE t
  <2>1. /\ ~t.cr
        /\ \/ Closed(t, b, n) /\ ~s.cr
           \/ Open(t, b, n, n - t.start) /\ (n = 0 \/ t.start < n)
        /\ ~s.cr => n = 0 \/ b[n] # CR
    BY Settle
  <2>2. f = IF b[n + 1] = CR THEN [u EXCEPT !.cr = TRUE]
            ELSE IF b[n + 1] = LF THEN [end_line(u) EXCEPT !.newline = TRUE]
            ELSE feed_content(u, b[n + 1])
    BY <1>2 DEF feed_byte, Settled, Fresh, LF, CR
  <2> HIDE DEF t, f
  <2>3. Open(u, b, n, n - u.start) /\ ~u.cr
    <3>1. CASE Closed(t, b, n)
      <4>1. Open(new, b, n, 0) /\ new.start = n /\ new.cr = t.cr
        BY <3>1, NextOpen
      <4>2. u = new
        BY <3>1 DEF Closed
      <4> HIDE DEF new, u
      <4> QED BY <2>1, <4>1, <4>2
    <3>2. CASE Open(t, b, n, n - t.start)
      <4>1. u = t
        BY <3>2 DEF Open
      <4> HIDE DEF new, u
      <4> QED BY <2>1, <3>2, <4>1
    <3> QED BY <2>1, <3>1, <3>2
  <2> HIDE DEF u
  <2> DEFINE c == n - u.start
  <2>4. u.start \in 0 .. n /\ \A i \in u.start + 1 .. n : b[i] # LF
    BY <2>3 DEF Open, LineSoFar
  <2>5. c \in Nat /\ u.start + c = n /\ u.start < n + 1 /\ c = (n + 1) - u.start - 1
        /\ c + 1 = (n + 1) - u.start /\ n <= n + 1 /\ n + 1 \in Nat
    BY <2>4
  <2> HIDE DEF c
  <2>6. CASE b[n + 1] = CR
    <3>1. f = [u EXCEPT !.cr = TRUE]
      BY <2>2, <2>6
    <3>2. Open(f, b, n, c) /\ f.cr /\ f.start = u.start
      BY <2>3, <3>1, SetCr DEF c
    <3>3. Open(f, b, n + 1, c)
      <4>1. f.start \in 0 .. n + 1
        BY <2>4, <3>2
      <4>2. \A i \in f.start + 1 .. n + 1 : b[i] # LF
        <5>1. \A i \in u.start + 1 .. n + 1 : i \in u.start + 1 .. n \/ i = n + 1
          BY <2>4
        <5> QED BY <2>4, <2>6, <3>2, <5>1 DEF LF, CR
      <4> QED BY <3>2, <4>1, <4>2 DEF Open, LineSoFar
    <3>4. Open(f, b, n + 1, (n + 1) - f.start - 1) /\ f.start < n + 1
      BY <2>5, <3>2, <3>3
    <3>5. Sound(f, b, n + 1)
      BY <2>6, <3>2, <3>4 DEF Sound
    <3> QED BY <3>5 DEF f
  <2>7. CASE b[n + 1] = LF
    <3>1. f = [end_line(u) EXCEPT !.newline = TRUE]
      BY <2>2, <2>7 DEF LF, CR
    <3>2. LineEnd(b, u.start) = u.start + c
      <4>1. u.start \in Nat /\ u.start <= n /\ \A i \in u.start + 1 .. n : b[i] # LF
        BY <2>4
      <4>2. LineEnd(b, u.start) = IF n > 0 /\ b[n] = CR THEN n - 1 ELSE n
        BY <2>7, <4>1, NextLineEnd
      <4>3. ~(n > 0 /\ b[n] = CR)
        BY <1>2, <2>1, <2>7
      <4> QED BY ONLY <2>5, <4>2, <4>3
    <3>3. Closed(f, b, n + 1) /\ f.cr = u.cr
      BY <2>3, <2>7, <3>1, <3>2, EndOpen DEF c
    <3> QED BY <2>3, <3>3 DEF Sound, f
  <2>8. CASE b[n + 1] # CR /\ b[n + 1] # LF
    <3>1. f = feed_content(u, b[u.start + c + 1])
      BY <2>2, <2>5, <2>8
    <3>2. \A i \in n + 1 .. n + 1 : b[i] # LF
      BY <2>8
    <3>3. Open(u, b, n, c)
      BY <2>3 DEF c
    <3>4. Open(f, b, n + 1, c + 1) /\ f.cr = u.cr /\ f.start = u.start
      BY <2>5, <3>1, <3>2, <3>3, FeedOpen
    <3>5. Open(f, b, n + 1, (n + 1) - f.start) /\ f.start < n + 1 /\ ~f.cr
      BY <2>3, <2>5, <3>4
    <3>6. Sound(f, b, n + 1)
      BY <2>8, <3>5 DEF Sound
    <3> QED BY <3>6 DEF f
  <2> QED BY <2>6, <2>7, <2>8
<1> QED BY <1>1, <1>2


(* The end of the file settles a last CR and ends a last line that has      *)
(* content.                                                                 *)
LEMMA FinishEof ==
    ASSUME NEW b, Len(b) \in Nat, NEW s, Sound(s, b, Len(b)), Len(pattern) \in Nat \ {0}
    PROVE  /\ finish_eof(s).out \in Seq(Row)
           /\ Rows(b, finish_eof(s).out, Len(b))
<1> DEFINE n == Len(b)
           t == Settled(s)
           e == finish_eof(s)
<1>0. n \in Nat
  OBVIOUS
<1>1. /\ \/ Closed(t, b, n)
         \/ Open(t, b, n, n - t.start) /\ (n = 0 \/ t.start < n)
  BY Settle
<1>2. e = IF t.newline \/ t.content = 0 THEN t ELSE end_line(t)
  BY DEF finish_eof, Settled
<1> HIDE DEF t, e, n
<1>3. CASE Closed(t, b, n)
  <2>1. /\ t \in State /\ t.start \in 0 .. n /\ t.start < n /\ t.newline
        /\ Rows(b, t.out, t.start + 1) /\ \A i \in t.start + 1 .. n - 1 : b[i] # LF
    BY <1>3 DEF Closed, LineSoFar
  <2>2. t.start + 1 \in Nat /\ t.start + 1 <= n
    BY <1>0, <2>1
  <2>3. \A i \in t.start + 1 .. n - 1 : ~IsRow(b, i)
    <3>1. \A i \in t.start + 1 .. n - 1 : i # 0
      BY <2>1
    <3> QED BY <2>1, <3>1 DEF IsRow, IsStart
  <2>4. Rows(b, t.out, n)
    BY <1>0, <2>1, <2>2, <2>3, RowsMore
  <2>5. e = t /\ t.out \in Seq(Row)
    BY <1>2, <2>1 DEF State
  <2> QED BY <2>4, <2>5 DEF e, n
<1>4. CASE Open(t, b, n, n - t.start) /\ (n = 0 \/ t.start < n)
  <2>1. /\ t \in State /\ t.start \in 0 .. n /\ ~t.newline /\ t.content = n - t.start
        /\ IsStart(b, t.start) /\ t.line = LineOf(b, t.start + 1)
        /\ Rows(b, t.out, t.start) /\ \A i \in t.start + 1 .. n : b[i] # LF
        /\ t.match <=> Hit(b, t.start, n - t.start)
    BY <1>4 DEF Open, LineSoFar
  <2>2. CASE t.content = 0
    <3>1. t.start = n
      BY <1>0, <2>1, <2>2
    <3>2. e = t /\ t.out \in Seq(Row)
      BY <1>2, <2>1, <2>2 DEF State
    <3> QED BY <2>1, <3>1, <3>2 DEF e, n
  <2>3. CASE t.content # 0
    <3>1. e = end_line(t)
      BY <1>2, <2>1, <2>3
    <3>2. LineEnd(b, t.start) = t.start + t.content
      <4>1. \A i \in t.start + 1 .. Len(b) : b[i] # LF
        BY <2>1 DEF n
      <4>2. LineEnd(b, t.start) = n
        BY <4>1, LastLineEnd DEF n
      <4> QED BY <1>0, <2>1, <4>2
    <3>3. e \in State /\ Rows(b, e.out, t.start + 1)
      BY <2>1, <3>1, <3>2, EndLine
    <3>4. t.start + 1 \in Nat /\ t.start + 1 <= n
      BY <1>0, <2>1, <2>3
    <3>5. \A i \in t.start + 1 .. n - 1 : ~IsRow(b, i)
      <4>1. \A i \in t.start + 1 .. n - 1 : i # 0 /\ i \in t.start + 1 .. n
        BY <1>0, <2>1
      <4> QED BY <2>1, <4>1 DEF IsRow, IsStart
    <3>6. Rows(b, e.out, n)
      BY <1>0, <3>3, <3>4, <3>5, RowsMore
    <3>7. e.out \in Seq(Row)
      BY <3>3 DEF State
    <3> QED BY <3>6, <3>7 DEF e, n
  <2> QED BY <2>2, <2>3
<1> QED BY <1>1, <1>3, <1>4

LEMMA StartIsSound ==
    ASSUME NEW b, Len(pattern) \in Nat \ {0}
    PROVE  Sound(linear_start, b, 0)
<1> DEFINE s == linear_start
<1>1. /\ s.line = 1 /\ s.start = 0 /\ s.content = 0 /\ s.kmp = 0 /\ s.match = FALSE
      /\ s.cr = FALSE /\ s.newline = FALSE /\ s.out = << >>
  BY DEF linear_start
<1>2. s \in State
  BY DEF linear_start, State
<1> HIDE DEF s
<1>3. s.line = LineOf(b, s.start + 1)
  <2>1. Feeds(b, 0) = {}
    BY DEF Feeds
  <2>2. LineOf(b, 0 + 1) = 1 + Cardinality(Feeds(b, 0))
    BY LineOfIs
  <2>3. LineOf(b, 0 + 1) = 1
    BY <2>1, <2>2, FS_EmptySet
  <2>4. s.start + 1 = 0 + 1
    BY <1>1
  <2> QED BY ONLY <1>1, <2>3, <2>4
<1>4. IsLongest(pattern, 0, From(b, 0), 0)
  <2>1. \A i \in 0 .. Len(pattern) - 1 : Ends(pattern, i, From(b, 0), 0) => i <= 0
    BY DEF Ends
  <2>2. Ends(pattern, 0, From(b, 0), 0)
    BY EndsNone
  <2> QED BY <2>1, <2>2 DEF IsLongest
<1>5. ~Hit(b, 0, 0) /\ IsStart(b, 0) /\ \A i \in 0 + 1 .. 0 : b[i] # LF
  BY DEF Hit, IsStart
<1>6. Rows(b, << >>, 0)
  BY DEF Rows
<1>7. Open(s, b, 0, 0)
  BY <1>1, <1>2, <1>3, <1>4, <1>5, <1>6 DEF Open, LineSoFar
<1>8. 0 - s.start = 0
  BY <1>1
<1>9. Sound(s, b, 0)
  BY <1>1, <1>7, <1>8 DEF Sound
<1> QED BY <1>9 DEF s

(* The feed of a whole file.                                                *)
IsFeed(r, b) ==
    r = [n \in 0 .. Len(b) |->
            IF n = 0 THEN linear_start ELSE feed_byte(r[n - 1], b[n], n - 1)]

LEMMA FeedExists ==
    ASSUME NEW b, Len(b) \in Nat
    PROVE  \E r : IsFeed(r, b)
<1> DEFINE Step(s, n) == feed_byte(s, b[n], n - 1)
           S == {n \in Nat : \E r :
                   r = [m \in 0 .. n |-> IF m = 0 THEN linear_start ELSE Step(r[m - 1], m)]}
<1>1. 0 \in S
  <2> DEFINE r == [m \in 0 .. 0 |-> linear_start]
  <2>1. r = [m \in 0 .. 0 |-> IF m = 0 THEN linear_start ELSE Step(r[m - 1], m)]
    OBVIOUS
  <2> HIDE DEF r, Step
  <2> QED BY <2>1
<1>2. ASSUME NEW n \in Nat, n \in S PROVE n + 1 \in S
  <2> HIDE DEF Step
  <2>1. PICK r : r = [m \in 0 .. n |-> IF m = 0 THEN linear_start ELSE Step(r[m - 1], m)]
    BY <1>2
  <2> DEFINE h == [m \in 0 .. n + 1 |-> IF m = n + 1 THEN Step(r[n], m) ELSE r[m]]
  <2>2. \A m \in 0 .. n : h[m] = r[m]
    OBVIOUS
  <2>3. h[n + 1] = Step(r[n], n + 1) /\ h = [m \in 0 .. n + 1 |-> h[m]]
    OBVIOUS
  <2> HIDE DEF h
  <2>4. ASSUME NEW m \in 0 .. n + 1
        PROVE  h[m] = IF m = 0 THEN linear_start ELSE Step(h[m - 1], m)
    <3>1. CASE m = n + 1
      <4>1. m # 0 /\ m - 1 = n /\ n \in 0 .. n
        BY <3>1
      <4> QED BY <2>2, <2>3, <3>1, <4>1
    <3>2. CASE m # n + 1
      <4>1. m \in 0 .. n /\ (m # 0 => m - 1 \in 0 .. n)
        BY <3>2
      <4>2. r[m] = IF m = 0 THEN linear_start ELSE Step(r[m - 1], m)
        BY <2>1, <4>1
      <4> QED BY <2>2, <4>1, <4>2
    <3> QED BY <3>1, <3>2
  <2>5. h = [m \in 0 .. n + 1 |-> IF m = 0 THEN linear_start ELSE Step(h[m - 1], m)]
    BY <2>3, <2>4
  <2> QED BY <2>5
<1>3. \A n \in Nat : n \in S
  <2> HIDE DEF S
  <2> QED BY <1>1, <1>2, Induction
<1>4. Len(b) \in S
  BY <1>3
<1> QED BY <1>4 DEF IsFeed

LEMMA FeedIsSound ==
    ASSUME NEW b, Len(b) \in Nat, Len(pattern) \in Nat \ {0}
    PROVE  Sound(linear_feed(b), b, Len(b))
<1> DEFINE r == CHOOSE h : IsFeed(h, b)
           S == {n \in Nat : n <= Len(b) => Sound(r[n], b, n)}
<1>1. linear_feed(b) = r[Len(b)]
  BY DEF linear_feed, IsFeed
<1>2. IsFeed(r, b)
  BY FeedExists
<1> HIDE DEF r
<1>3. \A n \in 0 .. Len(b) :
        r[n] = IF n = 0 THEN linear_start ELSE feed_byte(r[n - 1], b[n], n - 1)
  <2>1. r = [n \in 0 .. Len(b) |->
               IF n = 0 THEN linear_start ELSE feed_byte(r[n - 1], b[n], n - 1)]
    BY <1>2 DEF IsFeed
  <2> QED BY <2>1
<1>4. 0 \in S
  <2>1. 0 \in 0 .. Len(b)
    OBVIOUS
  <2>2. r[0] = linear_start
    BY <1>3, <2>1
  <2> QED BY <2>2, StartIsSound
<1>5. ASSUME NEW n \in Nat, n \in S PROVE n + 1 \in S
  <2> SUFFICES ASSUME n + 1 <= Len(b) PROVE Sound(r[n + 1], b, n + 1)
    OBVIOUS
  <2>1. n < Len(b) /\ n <= Len(b) /\ n + 1 \in 0 .. Len(b) /\ n + 1 # 0 /\ n + 1 - 1 = n
    OBVIOUS
  <2>2. r[n + 1] = feed_byte(r[n], b[n + 1], n)
    BY <1>3, <2>1
  <2>3. Sound(r[n], b, n)
    BY <1>5, <2>1
  <2> QED BY <2>1, <2>2, <2>3, FeedByte
<1>6. \A n \in Nat : n \in S
  <2> HIDE DEF S
  <2> QED BY <1>4, <1>5, Induction
<1>7. Sound(r[Len(b)], b, Len(b))
  BY <1>6
<1> QED BY <1>1, <1>7


(* A row is a line that holds the pattern, and its bytes are what reaches   *)
(* the sink.                                                                *)
LEMMA EndsIsSubSeq ==
    ASSUME NEW S, NEW g \in Seq(S), NEW c \in Seq(S), NEW o \in Nat, o + Len(g) <= Len(c),
           NEW w, \A j \in 1 .. Len(c) : w[j] = c[j]
    PROVE  Ends(g, Len(g), w, o + Len(g)) <=> SubSeq(c, o + 1, o + Len(g)) = g
<1> DEFINE part == SubSeq(c, o + 1, o + Len(g))
           L == Len(g)
<1>1. L \in Nat /\ Len(c) \in Nat
  OBVIOUS
<1>2. part \in Seq(S) /\ Len(part) = L /\ \A i \in 1 .. L : part[i] = c[o + i]
  <2>1. part \in Seq(S) /\ Len(part) = L
    BY <1>1
  <2>2. ASSUME NEW i \in 1 .. L PROVE part[i] = c[o + i]
    <3>1. part[i] = c[o + 1 + i - 1] /\ o + 1 + i - 1 = o + i
      BY <1>1
    <3> QED BY <3>1
  <2> QED BY <2>1, <2>2
<1> HIDE DEF part
<1>3. part = g <=> \A i \in 1 .. L : part[i] = g[i]
  BY <1>2, SeqEqual
<1>4. \A i \in 1 .. L : o + i \in 1 .. Len(c) /\ (o + L) - L + i = o + i
  BY <1>1
<1>5. Ends(g, L, w, o + L) <=> \A i \in 1 .. L : g[i] = w[o + i]
  <2> HIDE DEF L
  <2>1. L <= o + L
    BY <1>1
  <2> QED BY <1>4, <2>1 DEF Ends
<1>6. \A i \in 1 .. L : w[o + i] = part[i]
  BY <1>2, <1>4
<1> QED BY <1>3, <1>5, <1>6 DEF part

(* A piece of a file, byte by byte.                                         *)
LEMMA PieceBytes ==
    ASSUME NEW b \in Seq(Byte), NEW x \in Nat, NEW z \in Nat, x <= z, z <= Len(b)
    PROVE  LET r == SubSeq(b, x + 1, z)
           IN  /\ r \in Seq(Byte) /\ Len(r) = z - x
               /\ \A k \in 1 .. z - x : r[k] = b[x + k]
<1> DEFINE r == SubSeq(b, x + 1, z)
           y == x + 1
<1>1. \A k \in x + 1 .. z : b[k] \in Byte
  <2>1. Len(b) \in Nat
    OBVIOUS
  <2> QED BY <2>1
<1>2. y \in Int /\ z \in Int /\ \A k \in y .. z : b[k] \in Byte
  BY <1>1
<1> HIDE DEF Byte, y
<1>3. /\ SubSeq(b, y, z) \in Seq(Byte)
      /\ Len(SubSeq(b, y, z)) = (IF y <= z THEN z - y + 1 ELSE 0)
      /\ \A k \in 1 .. z - y + 1 : SubSeq(b, y, z)[k] = b[y + k - 1]
  BY ONLY <1>2, SubSeqProperties
<1>4. r = SubSeq(b, y, z)
  BY DEF y
<1> HIDE DEF r
<1>5. z - y + 1 = z - x /\ (y > z => z - x = 0) /\ \A k \in 1 .. z - x : y + k - 1 = x + k
  BY DEF y
<1>6. r \in Seq(Byte) /\ Len(r) = z - x
  BY <1>3, <1>4, <1>5
<1>7. \A k \in 1 .. z - x : r[k] = b[x + k]
  BY <1>3, <1>4, <1>5
<1> QED BY <1>6, <1>7 DEF r

LEMMA LineEndBounds ==
    ASSUME NEW b, Len(b) \in Nat, NEW i \in 0 .. Len(b)
    PROVE  LineEnd(b, i) \in Int /\ LineEnd(b, i) <= Len(b) /\ i - 1 <= LineEnd(b, i)
<1> DEFINE lfs == {j \in i + 1 .. Len(b) : b[j] = LF}
<1>1. LineEnd(b, i) = IF lfs = {} THEN Len(b)
                      ELSE IF Least(lfs) > 1 /\ b[Least(lfs) - 1] = CR
                           THEN Least(lfs) - 2 ELSE Least(lfs) - 1
  BY DEF LineEnd
<1>2. CASE lfs = {}
  BY <1>1, <1>2
<1>3. CASE lfs # {}
  <2>1. \E x \in lfs : \A y \in lfs : x <= y
    <3>1. lfs \subseteq Nat
      OBVIOUS
    <3> HIDE DEF lfs
    <3>2. \E x \in lfs : \A y \in lfs : ~(<<y, x>> \in OpToRel(<, Nat))
      BY ONLY <1>3, <3>1, NatLessThanWellFounded, WFMin
    <3>3. PICK x \in lfs : \A y \in lfs : ~(y < x)
      BY <3>1, <3>2, Below
    <3>4. \A y \in lfs : x <= y
      BY <3>1, <3>3
    <3> QED BY <3>4
  <2>2. PICK x \in lfs : \A y \in lfs : x <= y
    BY <2>1
  <2>3. x \in i + 1 .. Len(b) /\ lfs \subseteq Int
    OBVIOUS
  <2> HIDE DEF lfs
  <2>4. Least(lfs) = x
    BY <2>2, <2>3, LeastIs
  <2> QED BY <1>1, <1>3, <2>3, <2>4
<1> QED BY <1>2, <1>3

LEMMA HitIsHas ==
    ASSUME NEW b \in Seq(Byte), pattern \in Seq(Byte), Len(pattern) # 0,
           NEW i \in 0 .. Len(b) - 1
    PROVE  Hit(b, i, LineEnd(b, i) - i) <=> Has(Content(b, i))
<1> DEFINE c == Content(b, i)
           L == Len(pattern)
           z == LineEnd(b, i)
           w == From(b, i)
<1>1. L \in Nat \ {0} /\ Len(b) \in Nat /\ i \in Nat
  OBVIOUS
<1>2. z \in Int /\ z <= Len(b) /\ i - 1 <= z
  BY <1>1, LineEndBounds
<1>3. c = SubSeq(b, i + 1, z)
  BY DEF Content
<1> HIDE DEF z, c, w, L
<1>4. /\ c \in Seq(Byte) /\ Len(c) = (IF z < i THEN 0 ELSE z - i)
      /\ \A j \in 1 .. Len(c) : c[j] = b[i + j]
  <2>1. CASE z < i
    <3>1. c = << >>
      BY <1>1, <1>2, <1>3, <2>1
    <3> QED BY <2>1, <3>1
  <2>2. CASE z >= i
    <3>1. z \in Nat /\ i <= z
      BY <1>1, <1>2, <2>2
    <3>2. c \in Seq(Byte) /\ Len(c) = z - i /\ \A k \in 1 .. z - i : c[k] = b[i + k]
      <4> HIDE DEF Byte
      <4> QED BY <1>1, <1>2, <1>3, <3>1, PieceBytes
    <3> QED BY <1>2, <2>2, <3>2
  <2> QED BY <1>1, <1>2, <2>1, <2>2
<1>5. \A j \in 1 .. Len(c) : w[j] = c[j]
  <2> TAKE j \in 1 .. Len(c)
  <2>1. j \in Nat
    OBVIOUS
  <2> QED BY <1>4, <2>1 DEF w, From
<1>6. \A o \in Nat : o + L <= Len(c) =>
          (Ends(pattern, L, w, o + L) <=> SubSeq(c, o + 1, o + L) = pattern)
  BY <1>4, <1>5, EndsIsSubSeq DEF L
<1>7. \A m \in 1 .. z - i : Ends(pattern, L, w, m) => L <= m
  BY DEF Ends
<1>8. ASSUME Hit(b, i, z - i) PROVE Has(c)
  <2>1. PICK m \in 1 .. z - i : Ends(pattern, L, w, m)
    BY <1>8 DEF Hit, w, L
  <2>2. m - L \in Nat /\ m - L + L = m /\ m <= Len(c) /\ m - L \in 0 .. Len(c) - L
    BY <1>1, <1>2, <1>4, <1>7, <2>1
  <2>3. SubSeq(c, m - L + 1, m - L + L) = pattern
    BY <1>6, <2>1, <2>2
  <2> QED BY <2>2, <2>3 DEF Has, L
<1>9. ASSUME Has(c) PROVE Hit(b, i, z - i)
  <2>1. PICK o \in 0 .. Len(c) - L : SubSeq(c, o + 1, o + L) = pattern
    BY <1>9 DEF Has, L
  <2>2. o \in Nat /\ o + L <= Len(c) /\ o + L \in 1 .. z - i
    BY <1>1, <1>2, <1>4, <2>1
  <2>3. Ends(pattern, L, w, o + L)
    BY <1>6, <2>1, <2>2
  <2> QED BY <2>2, <2>3 DEF Hit, w, L
<1> QED BY <1>8, <1>9 DEF c, z


(* The pieces in which a match reaches the sink make up its line.           *)
IsStream(r, b, i, c) ==
    r = [o \in 0 .. c |->
            LET next == Min2(o + chunk, c)
            IN  IF o = c THEN << >> ELSE SubSeq(b, i + o + 1, i + next) \o r[next]]

LEMMA Join ==
    ASSUME NEW b \in Seq(Byte), NEW x \in Nat, NEW y \in Nat, NEW z \in Nat,
           x <= y, y <= z, z <= Len(b)
    PROVE  SubSeq(b, x + 1, y) \o SubSeq(b, y + 1, z) = SubSeq(b, x + 1, z)
<1>1. Len(b) \in Nat
  OBVIOUS
<1> DEFINE p == SubSeq(b, x + 1, y)
           q == SubSeq(b, y + 1, z)
           r == SubSeq(b, x + 1, z)
<1> HIDE DEF Byte
<1>5. /\ p \in Seq(Byte) /\ Len(p) = y - x
      /\ \A k \in 1 .. y - x : p[k] = b[x + k]
  <2>1. y <= Len(b)
    BY <1>1
  <2> QED BY <2>1, PieceBytes
<1>6. /\ q \in Seq(Byte) /\ Len(q) = z - y
      /\ \A k \in 1 .. z - y : q[k] = b[y + k]
  BY PieceBytes
<1>7. /\ r \in Seq(Byte) /\ Len(r) = z - x
      /\ \A k \in 1 .. z - x : r[k] = b[x + k]
  <2>1. x <= z
    BY <1>1
  <2> QED BY <2>1, PieceBytes
<1> HIDE DEF p, q, r
<1>8. /\ p \o q \in Seq(Byte) /\ Len(p \o q) = Len(p) + Len(q)
      /\ \A k \in 1 .. Len(p) + Len(q) : (p \o q)[k] = IF k <= Len(p) THEN p[k] ELSE q[k - Len(p)]
  BY ONLY <1>5, <1>6, ConcatProperties
<1> DEFINE s == p \o q
<1>9. s \in Seq(Byte) /\ Len(s) = z - x
  BY <1>5, <1>6, <1>8
<1>10. \A k \in 1 .. z - x : s[k] = IF k <= y - x THEN p[k] ELSE q[k - (y - x)]
  <2>1. Len(p) + Len(q) = z - x
    BY <1>5, <1>6
  <2> QED BY <1>5, <1>8, <2>1
<1> HIDE DEF s
<1>11. ASSUME NEW k \in 1 .. z - x PROVE s[k] = r[k]
  <2>1. CASE k <= y - x
    <3>1. k \in 1 .. y - x
      BY <2>1
    <3> QED BY <1>5, <1>7, <1>10, <2>1, <3>1
  <2>2. CASE ~(k <= y - x)
    <3>1. k - (y - x) \in 1 .. z - y /\ y + (k - (y - x)) = x + k
      BY <2>2
    <3> QED BY <1>6, <1>7, <1>10, <2>2, <3>1
  <2> QED BY <2>1, <2>2
<1>12. s = r
  BY ONLY <1>7, <1>9, <1>11, SeqEqual
<1> QED BY <1>12 DEF p, q, r, s

LEMMA StreamExists ==
    ASSUME NEW b, NEW i, NEW c \in Nat, chunk \in Nat \ {0}
    PROVE  \E r : IsStream(r, b, i, c)
<1> DEFINE Next(o) == Min2(o + chunk, c)
           Piece(o, rest) == SubSeq(b, i + o + 1, i + Next(o)) \o rest
           S == {m \in Nat : m <= c => \E r :
                   r = [o \in c - m .. c |-> IF o = c THEN << >> ELSE Piece(o, r[Next(o)])]}
<1>1. 0 \in S
  <2> DEFINE r == [o \in c - 0 .. c |-> << >>]
  <2>1. \A o \in c - 0 .. c : o = c
    OBVIOUS
  <2> HIDE DEF Piece
  <2>2. r = [o \in c - 0 .. c |-> IF o = c THEN << >> ELSE Piece(o, r[Next(o)])]
    BY <2>1
  <2> HIDE DEF r, Next
  <2>3. \E h : h = [o \in c - 0 .. c |-> IF o = c THEN << >> ELSE Piece(o, h[Next(o)])]
    BY ONLY <2>2
  <2> QED BY ONLY <2>3, c \in Nat
<1>2. ASSUME NEW m \in Nat, m \in S PROVE m + 1 \in S
  <2>0. m + 1 <= c => \A o \in c - (m + 1) .. c - 1 : Next(o) \in c - m .. c
    BY DEF Min2
  <2> HIDE DEF Piece, Next
  <2> SUFFICES ASSUME m + 1 <= c
               PROVE  \E r : r = [o \in c - (m + 1) .. c |->
                                    IF o = c THEN << >> ELSE Piece(o, r[Next(o)])]
    OBVIOUS
  <2>1. PICK r : r = [o \in c - m .. c |-> IF o = c THEN << >> ELSE Piece(o, r[Next(o)])]
    BY <1>2
  <2> DEFINE at == c - (m + 1)
             h == [o \in at .. c |-> IF o = at THEN Piece(at, r[Next(at)]) ELSE r[o]]
  <2>2. at \in Nat /\ at # c /\ at < c /\ at \in at .. c
    OBVIOUS
  <2>3. \A o \in c - m .. c : o \in at .. c /\ o # at
    OBVIOUS
  <2>4. \A o \in at .. c : o # at => o \in c - m .. c
    OBVIOUS
  <2>5. \A o \in at .. c : o # c => Next(o) \in c - m .. c
    BY <2>0
  <2> HIDE DEF at
  <2>6. h[at] = Piece(at, r[Next(at)]) /\ h = [o \in at .. c |-> h[o]]
    BY <2>2
  <2>7. \A o \in c - m .. c : h[o] = r[o]
    BY <2>3
  <2> HIDE DEF h
  <2>8. ASSUME NEW o \in at .. c
        PROVE  h[o] = IF o = c THEN << >> ELSE Piece(o, h[Next(o)])
    <3>1. CASE o = at
      BY <2>2, <2>5, <2>6, <2>7, <3>1
    <3>2. CASE o # at
      <4>1. o \in c - m .. c /\ h[o] = r[o]
        BY <2>4, <2>7, <3>2
      <4>2. r[o] = IF o = c THEN << >> ELSE Piece(o, r[Next(o)])
        BY <2>1, <4>1
      <4> QED BY <2>5, <2>7, <4>1, <4>2
    <3> QED BY <3>1, <3>2
  <2>9. h = [o \in at .. c |-> IF o = c THEN << >> ELSE Piece(o, h[Next(o)])]
    BY <2>6, <2>8
  <2> QED BY <2>9 DEF at
<1>3. \A m \in Nat : m \in S
  <2> HIDE DEF S
  <2> QED BY <1>1, <1>2, Induction
<1>4. c \in S
  BY <1>3
<1>5. \E r : r = [o \in c - c .. c |-> IF o = c THEN << >> ELSE Piece(o, r[Next(o)])]
  <2> HIDE DEF Piece, Next
  <2> QED BY <1>4
<1>6. c - c = 0
  OBVIOUS
<1> QED BY <1>5, <1>6 DEF IsStream

LEMMA StreamIsLine ==
    ASSUME NEW b \in Seq(Byte), NEW l, NEW i \in Nat, NEW c \in Nat, i + c <= Len(b),
           chunk \in Nat \ {0}
    PROVE  facade_stream(b, <<l, i, c>>) = SubSeq(b, i + 1, i + c)
<1> DEFINE r == CHOOSE h : IsStream(h, b, i, c)
           Next(o) == Min2(o + chunk, c)
           Part(o) == SubSeq(b, i + o + 1, i + Next(o))
           Rest(o) == SubSeq(b, i + o + 1, i + c)
           S == {m \in Nat : \A o \in 0 .. c : c - o <= m => r[o] = Rest(o)}
<1>1. facade_stream(b, <<l, i, c>>) = r[0]
  BY DEF facade_stream, IsStream
<1>2. IsStream(r, b, i, c)
  BY StreamExists
<1> HIDE DEF r
<1>3. \A o \in 0 .. c : r[o] = IF o = c THEN << >> ELSE Part(o) \o r[Next(o)]
  <2>1. r = [o \in 0 .. c |-> IF o = c THEN << >> ELSE Part(o) \o r[Next(o)]]
    BY <1>2 DEF IsStream
  <2> HIDE DEF Part, Next
  <2> QED BY <2>1
<1>4. r[c] = << >> /\ Rest(c) = << >>
  <2>1. c \in 0 .. c /\ i + c + 1 > i + c
    OBVIOUS
  <2>2. r[c] = << >>
    BY <1>3, <2>1
  <2>3. Rest(c) = << >>
    OBVIOUS
  <2> QED BY <2>2, <2>3
<1>5. \A o \in 0 .. c : o # c => Next(o) \in o + 1 .. c
  BY DEF Min2
<1>6. \A o \in 0 .. c : o # c => Part(o) \o Rest(Next(o)) = Rest(o)
  <2> TAKE o \in 0 .. c
  <2> HAVE o # c
  <2> DEFINE x == i + o
             y == i + Next(o)
             z == i + c
  <2>1. x \in Nat /\ y \in Nat /\ z \in Nat /\ x <= y /\ y <= z /\ z <= Len(b)
    <3> HIDE DEF Next
    <3> QED BY <1>5
  <2> HIDE DEF x, y, z
  <2>2. SubSeq(b, x + 1, y) \o SubSeq(b, y + 1, z) = SubSeq(b, x + 1, z)
    BY <2>1, Join
  <2> QED BY <2>2 DEF x, y, z
<1> HIDE DEF Part, Rest, Next
<1>7. 0 \in S
  <2>1. \A o \in 0 .. c : c - o <= 0 => o = c
    OBVIOUS
  <2> QED BY <1>4, <2>1
<1>8. ASSUME NEW m \in Nat, m \in S PROVE m + 1 \in S
  <2>1. ASSUME NEW o \in 0 .. c, c - o <= m + 1 PROVE r[o] = Rest(o)
    <3>1. CASE o = c
      BY <1>4, <3>1
    <3>2. CASE o # c
      <4>1. Next(o) \in 0 .. c /\ c - Next(o) <= m
        BY <1>5, <2>1, <3>2
      <4>2. r[Next(o)] = Rest(Next(o))
        BY <1>8, <4>1
      <4>3. r[o] = Part(o) \o Rest(Next(o))
        BY <1>3, <3>2, <4>2
      <4> QED BY <1>6, <3>2, <4>3
    <3> QED BY <3>1, <3>2
  <2> QED BY <2>1
<1>9. \A m \in Nat : m \in S
  <2> HIDE DEF S
  <2> QED BY <1>7, <1>8, Induction
<1>10. \A o \in 0 .. c : c - o <= c => r[o] = Rest(o)
  BY <1>9
<1>11. r[0] = Rest(0)
  <2>1. 0 \in 0 .. c /\ c - 0 <= c
    OBVIOUS
  <2> QED BY <1>10, <2>1
<1>12. i + 0 + 1 = i + 1
  OBVIOUS
<1> QED BY <1>1, <1>11, <1>12 DEF Rest


-----------------------------------------------------------------------------
(* The whole search of one file, and the specification.                     *)

FileRows(rows, b) ==
    /\ ToSet(rows) = LiteralReference(b)
    /\ \A k \in 1 .. Len(rows) - 1 : rows[k][1] < rows[k + 1][1]

LEMMA OneFile ==
    ASSUME NEW b \in Seq(Byte), pattern \in Seq(Byte), Len(pattern) # 0, chunk \in Nat \ {0}
    PROVE  FileRows(literal_file(b), b)
<1> DEFINE out == finish_eof(linear_feed(b)).out
           rows == [k \in DOMAIN out |-> <<out[k][1], facade_stream(b, out[k])>>]
           n == Len(b)
<1>0. n \in Nat /\ Len(pattern) \in Nat \ {0}
  OBVIOUS
<1>1. out \in Seq(Row) /\ Rows(b, out, n)
  <2>1. Sound(linear_feed(b), b, n)
    BY <1>0, FeedIsSound
  <2> QED BY <1>0, <2>1, FinishEof
<1>2. literal_file(b) = IF \E i \in DOMAIN b : b[i] = Nul THEN << >> ELSE rows
  BY DEF literal_file
<1> HIDE DEF out
<1>3. CASE \E i \in DOMAIN b : b[i] = Nul
  <2>1. literal_file(b) = << >>
    BY <1>2, <1>3
  <2>2. LiteralReference(b) = {}
    BY <1>3 DEF LiteralReference
  <2> QED BY <2>1, <2>2 DEF FileRows, ToSet
<1>4. CASE \A i \in DOMAIN b : b[i] # Nul
  <2> DEFINE L == Len(out)
  <2>1. L \in Nat /\ DOMAIN out = 1 .. L /\ \A k \in 1 .. L : out[k] \in Row
    BY <1>1
  <2>2. literal_file(b) = rows
    BY <1>2, <1>4
  <2>3. DOMAIN rows = 1 .. L /\ Len(rows) = L
        /\ \A k \in 1 .. L : rows[k] = <<out[k][1], facade_stream(b, out[k])>>
    BY <2>1
  <2> HIDE DEF L, rows, n
  <2>4. /\ \A k \in 1 .. L : /\ out[k][2] \in 0 .. n - 1 /\ IsRow(b, out[k][2])
                             /\ out[k] = RowAt(b, out[k][2])
        /\ \A k \in 1 .. L - 1 : out[k][2] < out[k + 1][2]
        /\ \A i \in 0 .. n - 1 : IsRow(b, i) => \E k \in 1 .. L : out[k][2] = i
    BY <1>1 DEF Rows, L
  <2>5. ASSUME NEW i \in 0 .. n - 1, IsRow(b, i)
        PROVE  /\ facade_stream(b, RowAt(b, i)) = Content(b, i)
               /\ Has(Content(b, i))
    <3> DEFINE z == LineEnd(b, i)
    <3>1. z \in Int /\ z <= Len(b) /\ Hit(b, i, z - i) /\ i \in 0 .. Len(b) - 1
      BY <1>0, <2>5, LineEndBounds DEF IsRow, n
    <3>2. Has(Content(b, i))
      BY <1>0, <3>1, HitIsHas
    <3>3. z - i \in Nat
      <4>1. 1 .. z - i # {}
        BY <3>1 DEF Hit
      <4> HIDE DEF z
      <4> QED BY <3>1, <4>1
    <3> HIDE DEF z
    <3>4. i + (z - i) <= Len(b) /\ i + (z - i) = z /\ i \in Nat
      BY <3>1
    <3>5. facade_stream(b, <<LineOf(b, i + 1), i, z - i>>) = SubSeq(b, i + 1, z)
      <4> DEFINE c == z - i
                 l == LineOf(b, i + 1)
      <4>1. c \in Nat /\ i + c <= Len(b) /\ i + c = z
        BY <3>3, <3>4
      <4> HIDE DEF c, l
      <4>2. facade_stream(b, <<l, i, c>>) = SubSeq(b, i + 1, i + c)
        <5> HIDE DEF Byte
        <5>1. b \in Seq(Byte) /\ chunk \in Nat \ {0} /\ i \in Nat
          BY <3>4
        <5> QED BY ONLY <4>1, <5>1, StreamIsLine
      <4> QED BY <4>1, <4>2 DEF c, l
    <3> QED BY <3>2, <3>5 DEF RowAt, Content, z
  <2>6. \A i \in 0 .. n - 1 :
          IsRow(b, i) <=> (i = 0 \/ b[i] = LF) /\ Has(Content(b, i))
    <3> TAKE i \in 0 .. n - 1
    <3>1. Hit(b, i, LineEnd(b, i) - i) <=> Has(Content(b, i))
      BY <1>0, HitIsHas DEF n
    <3> QED BY <3>1 DEF IsRow, IsStart
  <2>7. \A k \in 1 .. L : rows[k] = <<LineOf(b, out[k][2] + 1), Content(b, out[k][2])>>
    <3> TAKE k \in 1 .. L
    <3> DEFINE i == out[k][2]
    <3>1. i \in 0 .. n - 1 /\ IsRow(b, i) /\ out[k] = RowAt(b, i)
      BY <2>4
    <3> HIDE DEF i
    <3>2. out[k][1] = LineOf(b, i + 1)
      BY <3>1 DEF RowAt
    <3>3. facade_stream(b, out[k]) = Content(b, i)
      BY <2>5, <3>1
    <3> QED BY <2>3, <3>2, <3>3 DEF i
  <2>8. ToSet(rows) = LiteralReference(b)
    <3>1. ToSet(rows) = {rows[k] : k \in 1 .. L}
      BY <2>3 DEF ToSet
    <3>2. LiteralReference(b) = {<<LineOf(b, i + 1), Content(b, i)>> :
              i \in {j \in 0 .. n - 1 : (j = 0 \/ b[j] = LF) /\ Has(Content(b, j))}}
      BY <1>4 DEF LiteralReference, n
    <3>3. LiteralReference(b) = {<<LineOf(b, i + 1), Content(b, i)>> :
              i \in {j \in 0 .. n - 1 : IsRow(b, j)}}
      BY <2>6, <3>2
    <3>4. ASSUME NEW k \in 1 .. L PROVE rows[k] \in LiteralReference(b)
      <4> DEFINE i == out[k][2]
      <4>1. i \in {j \in 0 .. n - 1 : IsRow(b, j)}
        BY <2>4
      <4>2. rows[k] = <<LineOf(b, i + 1), Content(b, i)>>
        BY <2>7
      <4> HIDE DEF i
      <4> QED BY <3>3, <4>1, <4>2
    <3>5. ASSUME NEW i \in 0 .. n - 1, IsRow(b, i)
          PROVE  <<LineOf(b, i + 1), Content(b, i)>> \in ToSet(rows)
      <4>1. PICK k \in 1 .. L : out[k][2] = i
        BY <2>4, <3>5
      <4>2. rows[k] = <<LineOf(b, i + 1), Content(b, i)>>
        BY <2>7, <4>1
      <4> QED BY <3>1, <4>2
    <3> QED BY <3>1, <3>3, <3>4, <3>5
  <2>9. \A k \in 1 .. Len(rows) - 1 : rows[k][1] < rows[k + 1][1]
    <3> SUFFICES ASSUME NEW k \in 1 .. L - 1 PROVE rows[k][1] < rows[k + 1][1]
      BY <2>3
    <3> DEFINE i == out[k][2]
               j == out[k + 1][2]
    <3>1. k \in 1 .. L /\ k + 1 \in 1 .. L
      BY <2>1
    <3>2. i \in 0 .. n - 1 /\ j \in 0 .. n - 1 /\ i < j /\ IsRow(b, j)
      BY <2>4, <3>1
    <3>3. rows[k][1] = LineOf(b, i + 1) /\ rows[k + 1][1] = LineOf(b, j + 1)
      BY <2>7, <3>1
    <3> HIDE DEF i, j
    <3>4. i \in Nat /\ j \in Nat /\ j # 0
      BY <3>2
    <3>5. b[j] = LF
      BY <3>2, <3>4 DEF IsRow, IsStart
    <3> QED BY <3>2, <3>3, <3>4, <3>5, LaterLine
  <2> QED BY <2>2, <2>8, <2>9 DEF FileRows
<1> QED BY <1>3, <1>4

SearchTypes ==
    /\ files \in Seq(Seq(Byte)) /\ query \in Seq(Byte) /\ pattern \in Seq(Byte)
    /\ chunk \in Nat \ {0}

LEMMA SearchTypesHold == SearchSpec => []SearchTypes
<1>1. SearchInit => SearchTypes
  BY SearchAssumption DEF SearchInit, SearchTypes
<1>2. SearchTypes /\ [SearchNext]_vars => SearchTypes'
  <2> SUFFICES ASSUME SearchTypes, [SearchNext]_vars PROVE SearchTypes'
    OBVIOUS
  <2>1. CASE SearchTerms
    BY <2>1, SearchAssumption DEF SearchTerms, SearchTypes
  <2>2. CASE SearchLiteral
    BY <2>2, SearchAssumption DEF SearchLiteral, SearchTypes
  <2>3. CASE UNCHANGED vars
    BY <2>3 DEF vars, SearchTypes
  <2> QED BY <2>1, <2>2, <2>3 DEF SearchNext
<1> QED BY <1>1, <1>2, PTL DEF SearchSpec

(* TextSearch, LiteralIsReference: whatever the files, the pattern and the  *)
(* chunk size, the literal search reports the lines whose content holds the *)
(* pattern, all of them and no other, in their order, each with its number  *)
(* and its own bytes.                                                       *)
THEOREM LiteralIsReferenceHolds == SearchSpec => []LiteralIsReference
<1>1. SearchTypes => LiteralIsReference
  <2> SUFFICES ASSUME SearchTypes, literal_ok(pattern), NEW s \in Slots
               PROVE  FileRows(literal_file(files[s]), files[s])
    BY DEF LiteralIsReference, FileRows
  <2>1. Len(pattern) # 0
    BY DEF literal_ok
  <2>2. files[s] \in Seq(Byte)
    <3> HIDE DEF Byte
    <3> QED BY DEF SearchTypes, Slots
  <2> QED BY <2>1, <2>2, OneFile DEF SearchTypes
<1> QED BY <1>1, SearchTypesHold, PTL

-----------------------------------------------------------------------------
(* The whole-file check of search_text.c passes exactly the files whose     *)
(* bytes are text: no NUL, and every byte in a well-formed scalar.          *)

(* The length a first byte asks for.                                        *)
Lead(x) ==
    CASE x < 128 -> 1
      [] x \in 194 .. 223 -> 2
      [] x \in 224 .. 239 -> 3
      [] x \in 240 .. 244 -> 4
      [] OTHER -> 0
(* What a second byte must be after the first.                              *)
Second(x, y) ==
    /\ y \in 128 .. 191
    /\ x = 224 => y >= 160
    /\ x = 237 => y <= 159
    /\ x = 240 => y >= 144
    /\ x = 244 => y <= 143
SecondsOf3(x) == CASE x = 224 -> 160 .. 191 [] x = 237 -> 128 .. 159 [] OTHER -> 128 .. 191
SecondsOf4(x) == CASE x = 240 -> 144 .. 191 [] x = 244 -> 128 .. 143 [] OTHER -> 128 .. 191
IsBytes(s) == Len(s) \in Nat /\ \A i \in 1 .. Len(s) : s[i] \in 0 .. 255

LEMMA SeqIsBytes == ASSUME NEW s \in Seq(Byte) PROVE IsBytes(s)
<1>1. Len(s) \in Nat /\ \A i \in 1 .. Len(s) : s[i] \in Byte
  <2> HIDE DEF Byte
  <2> QED OBVIOUS
<1>2. Byte = 0 .. 255
  BY DEF Byte
<1> HIDE DEF Byte
<1> QED BY <1>1, <1>2 DEF IsBytes

LEMMA Second3 ==
    \A x \in 224 .. 239 : \A y \in 0 .. 255 :
        Second(x, y) <=> y \in SecondsOf3(x)
<1> TAKE x \in 224 .. 239
<1> TAKE y \in 0 .. 255
<1>1. CASE x = 224
  BY <1>1 DEF Second, SecondsOf3
<1>2. CASE x = 237
  BY <1>2 DEF Second, SecondsOf3
<1>3. CASE x # 224 /\ x # 237
  BY <1>3 DEF Second, SecondsOf3
<1> QED BY <1>1, <1>2, <1>3
LEMMA Second4 ==
    \A x \in 240 .. 244 : \A y \in 0 .. 255 :
        Second(x, y) <=> y \in SecondsOf4(x)
<1> TAKE x \in 240 .. 244
<1> TAKE y \in 0 .. 255
<1>1. CASE x = 240
  BY <1>1 DEF Second, SecondsOf4
<1>2. CASE x = 244
  BY <1>2 DEF Second, SecondsOf4
<1>3. CASE x # 240 /\ x # 244
  BY <1>3 DEF Second, SecondsOf4
<1> QED BY <1>1, <1>2, <1>3

LEMMA FirstByte ==
    ASSUME NEW s, IsBytes(s), Len(s) \in 1 .. 4
    PROVE  1 \in 1 .. Len(s) /\ s[1] \in 0 .. 255
<1>1. Len(s) \in Nat /\ \A i \in 1 .. Len(s) : s[i] \in 0 .. 255
  BY DEF IsBytes
<1>2. 1 \in 1 .. Len(s)
  BY <1>1
<1> QED BY <1>1, <1>2

(* A scalar is well formed when its length is the one its first byte asks   *)
(* for and every byte after it may be there.                                *)
Legal(s, k) ==
    /\ \A i \in 2 .. k : s[i] \in 128 .. 191
    /\ k > 1 => Second(s[1], s[2])

LEMMA WellFormedIs ==
    ASSUME NEW s, IsBytes(s), Len(s) \in 1 .. 4
    PROVE  WellFormed(s) <=> Lead(s[1]) = Len(s) /\ Legal(s, Len(s))
<1> DEFINE L == Len(s)
           x == s[1]
<1>1. L \in 1 .. 4 /\ x \in 0 .. 255 /\ \A i \in 1 .. L : s[i] \in 0 .. 255
  <2>1. L \in 1 .. 4
    OBVIOUS
  <2>2. x \in 0 .. 255
    BY FirstByte
  <2>3. \A i \in 1 .. L : s[i] \in 0 .. 255
    BY DEF IsBytes
  <2> QED BY <2>1, <2>2, <2>3
<1>2. L > 1 => s[2] \in 0 .. 255
  BY <1>1
<1>3. Legal(s, L) <=> (\A i \in 2 .. L : s[i] \in 128 .. 191) /\ (L > 1 => Second(x, s[2]))
  BY DEF Legal
<1>4. WellFormed(s) <=>
        CASE L = 1 -> x < 128
          [] L = 2 -> x \in 194 .. 223 /\ s[2] \in 128 .. 191
          [] L = 3 -> /\ x \in 224 .. 239 /\ s[3] \in 128 .. 191
                      /\ s[2] \in SecondsOf3(x)
          [] OTHER -> /\ x \in 240 .. 244 /\ s[3] \in 128 .. 191 /\ s[4] \in 128 .. 191
                      /\ s[2] \in SecondsOf4(x)
  BY DEF WellFormed, SecondsOf3, SecondsOf4
<1> HIDE DEF L, x
<1>5. CASE L = 1
  <2>1. WellFormed(s) <=> x < 128
    BY <1>4, <1>5
  <2>2. 2 .. L = {} /\ ~(L > 1)
    BY <1>5
  <2>3. Legal(s, L)
    BY <1>3, <2>2
  <2>4. Lead(x) = L <=> x < 128
    BY <1>1, <1>5 DEF Lead
  <2> QED BY <2>1, <2>3, <2>4 DEF x, L
<1>6. CASE L = 2
  <2>1. WellFormed(s) <=> x \in 194 .. 223 /\ s[2] \in 128 .. 191
    BY <1>4, <1>6
  <2>2. \A i \in 2 .. L : i = 2
    BY <1>6
  <2>3. Lead(x) = L <=> x \in 194 .. 223
    BY <1>1, <1>6 DEF Lead
  <2>4. x \in 194 .. 223 => (Second(x, s[2]) <=> s[2] \in 128 .. 191)
    BY DEF Second
  <2>5. Legal(s, L) <=> s[2] \in 128 .. 191 /\ Second(x, s[2])
    BY <1>3, <1>6, <2>2 DEF Second
  <2> QED BY <2>1, <2>3, <2>4, <2>5 DEF x, L
<1>7. CASE L = 3
  <2>1. WellFormed(s) <=>
          /\ x \in 224 .. 239 /\ s[3] \in 128 .. 191
          /\ s[2] \in SecondsOf3(x)
    BY <1>4, <1>7
  <2>2. s[2] \in 0 .. 255
    BY <1>2, <1>7
  <2>3. x \in 224 .. 239 =>
          (Second(x, s[2]) <=> s[2] \in SecondsOf3(x))
    <3> DEFINE y == s[2]
    <3>1. y \in 0 .. 255
      BY <2>2
    <3> HIDE DEF y
    <3>2. x \in 224 .. 239 => (Second(x, y) <=> y \in SecondsOf3(x))
      BY ONLY <3>1, Second3
    <3> QED BY <3>2 DEF y
  <2>4. \A i \in 2 .. L : i = 2 \/ i = 3
    BY <1>7
  <2>5. Legal(s, L) <=> s[3] \in 128 .. 191 /\ Second(x, s[2])
    BY <1>3, <1>7, <2>4 DEF Second
  <2>6. Lead(x) = L <=> x \in 224 .. 239
    BY <1>1, <1>7 DEF Lead
  <2> QED BY <2>1, <2>3, <2>5, <2>6 DEF x, L
<1>8. CASE L = 4
  <2>1. WellFormed(s) <=>
          /\ x \in 240 .. 244 /\ s[3] \in 128 .. 191 /\ s[4] \in 128 .. 191
          /\ s[2] \in SecondsOf4(x)
    BY <1>4, <1>8
  <2>2. s[2] \in 0 .. 255
    BY <1>2, <1>8
  <2>3. x \in 240 .. 244 =>
          (Second(x, s[2]) <=> s[2] \in SecondsOf4(x))
    <3> DEFINE y == s[2]
    <3>1. y \in 0 .. 255
      BY <2>2
    <3> HIDE DEF y
    <3>2. x \in 240 .. 244 => (Second(x, y) <=> y \in SecondsOf4(x))
      BY ONLY <3>1, Second4
    <3> QED BY <3>2 DEF y
  <2>4. \A i \in 2 .. L : i = 2 \/ i = 3 \/ i = 4
    BY <1>8
  <2>5. Legal(s, L) <=> s[3] \in 128 .. 191 /\ s[4] \in 128 .. 191 /\ Second(x, s[2])
    BY <1>3, <1>8, <2>4 DEF Second
  <2>6. Lead(x) = L <=> x \in 240 .. 244
    BY <1>1, <1>8 DEF Lead
  <2> QED BY <2>1, <2>3, <2>5, <2>6 DEF x, L
<1> QED BY <1>1, <1>5, <1>6, <1>7, <1>8 DEF L, x

LEMMA ExpectedIs ==
    ASSUME NEW s, IsBytes(s), Len(s) \in 1 .. 4
    PROVE  /\ Lead(s[1]) \in 0 .. 4
           /\ utf8_expected(s) =
                IF Legal(s, Min2(Lead(s[1]), Len(s))) THEN Lead(s[1]) ELSE 0
<1> DEFINE need == Lead(s[1])
           k == Min2(need, Len(s))
           legal == /\ \A i \in 2 .. k : s[i] \in 128 .. 191
                    /\ need > 1 /\ Len(s) > 1 =>
                         /\ s[1] = 224 => s[2] >= 160
                         /\ s[1] = 237 => s[2] <= 159
                         /\ s[1] = 240 => s[2] >= 144
                         /\ s[1] = 244 => s[2] <= 143
<1>1. utf8_expected(s) = IF legal THEN need ELSE 0
  BY DEF utf8_expected, Lead
<1>2. s[1] \in 0 .. 255
  BY FirstByte
<1>3. need \in 0 .. 4
  BY <1>2 DEF Lead
<1>4. legal <=> Legal(s, k)
  <2>1. k > 1 <=> need > 1 /\ Len(s) > 1
    <3> HIDE DEF need
    <3> QED BY <1>3 DEF Min2
  <2>2. k \in Int
    <3> HIDE DEF need
    <3> QED BY <1>3 DEF Min2
  <2> HIDE DEF need, k
  <2>3. k > 1 => 2 \in 2 .. k
    BY <2>2
  <2> QED BY <2>1, <2>2, <2>3 DEF Legal, Second
<1> QED BY <1>1, <1>3, <1>4

(* Every beginning of a well-formed scalar asks for the whole of it.        *)
LEMMA Beginning ==
    ASSUME NEW w, IsBytes(w), Len(w) \in 1 .. 4, WellFormed(w),
           NEW s, IsBytes(s), Len(s) \in 1 .. Len(w), \A i \in 1 .. Len(s) : s[i] = w[i]
    PROVE  utf8_expected(s) = Len(w)
<1>1. Lead(w[1]) = Len(w) /\ Legal(w, Len(w))
  BY WellFormedIs
<1>2. s[1] = w[1] /\ Len(s) \in 1 .. 4
  <2>1. Len(s) \in 1 .. 4
    <3> DEFINE k == Len(s)
               L == Len(w)
    <3>1. L \in 1 .. 4 /\ k \in 1 .. L
      OBVIOUS
    <3> HIDE DEF k, L
    <3>2. k \in 1 .. 4
      BY <3>1
    <3> QED BY <3>2 DEF k
  <2>2. 1 \in 1 .. Len(s)
    BY <2>1
  <2> QED BY <2>1, <2>2
<1>3. Min2(Lead(s[1]), Len(s)) = Len(s)
  BY <1>1, <1>2 DEF Min2
<1>4. Legal(s, Len(s))
  <2>1. \A i \in 2 .. Len(s) : i \in 2 .. Len(w) /\ i \in 1 .. Len(s)
    OBVIOUS
  <2>2. Len(s) > 1 => Len(w) > 1 /\ s[2] = w[2]
    OBVIOUS
  <2> QED BY <1>1, <1>2, <2>1, <2>2 DEF Legal
<1> QED BY <1>1, <1>2, <1>3, <1>4, ExpectedIs

(* A first byte says where its scalar ends, and no other byte of a scalar   *)
(* looks like a first one.                                                  *)
LEMMA Scalar ==
    ASSUME NEW w, IsBytes(w), Len(w) \in 1 .. 4, WellFormed(w)
    PROVE  /\ Lead(w[1]) = Len(w) /\ w[1] \notin 128 .. 191
           /\ \A i \in 2 .. Len(w) : w[i] \in 128 .. 191
<1>1. Lead(w[1]) = Len(w) /\ Legal(w, Len(w)) /\ w[1] \in 0 .. 255
  <2>1. Lead(w[1]) = Len(w) /\ Legal(w, Len(w))
    BY WellFormedIs
  <2>2. w[1] \in 0 .. 255
    BY FirstByte
  <2> QED BY <2>1, <2>2
<1>2. w[1] \notin 128 .. 191
  <2>1. Lead(w[1]) # 0
    BY <1>1
  <2>2. \A x \in 128 .. 191 : Lead(x) = 0
    BY DEF Lead
  <2> QED BY <2>1, <2>2
<1> QED BY <1>1, <1>2 DEF Legal

-----------------------------------------------------------------------------
(* The loops of the term search, from one turn of each: they all end.       *)
Turn(loop, a, s, n) ==
    CASE loop = "preflight" -> preflight_byte(s, a[n])
      [] loop = "parse" ->
            (IF n \in GroupStarts(a) /\ \A k \in DOMAIN s : s[k] # Fold(GroupAt(a, n))
             THEN Append(s, Fold(GroupAt(a, n))) ELSE s)
      [] loop = "sum" -> s + a[n]
      [] loop = "chunk" -> scan_byte(a.pat, a.slot, s, a.run[n], a.run[n + 1])
      [] loop = "pieces" -> scan_chunk(a.pat, a.slot, s, a.pieces[n])
      [] loop = "query" -> linear_visit(a, s, n)
IsLoop(r, loop, a, start, N) ==
    r = [n \in 0 .. N |-> IF n = 0 THEN start ELSE Turn(loop, a, r[n - 1], n)]

LEMMA LoopExists ==
    ASSUME NEW loop, NEW a, NEW start, NEW N \in Nat
    PROVE  \E r : IsLoop(r, loop, a, start, N)
<1> DEFINE S == {n \in Nat : \E r : IsLoop(r, loop, a, start, n)}
<1>1. 0 \in S
  <2> DEFINE r == [m \in 0 .. 0 |-> start]
  <2>1. r = [m \in 0 .. 0 |-> IF m = 0 THEN start ELSE Turn(loop, a, r[m - 1], m)]
    OBVIOUS
  <2> HIDE DEF r
  <2> QED BY <2>1 DEF IsLoop
<1>2. ASSUME NEW n \in Nat, n \in S PROVE n + 1 \in S
  <2>1. PICK r : r = [m \in 0 .. n |-> IF m = 0 THEN start ELSE Turn(loop, a, r[m - 1], m)]
    BY <1>2 DEF IsLoop
  <2> DEFINE h == [m \in 0 .. n + 1 |-> IF m = n + 1 THEN Turn(loop, a, r[n], m) ELSE r[m]]
  <2>2. \A m \in 0 .. n : h[m] = r[m]
    OBVIOUS
  <2>3. h[n + 1] = Turn(loop, a, r[n], n + 1) /\ h = [m \in 0 .. n + 1 |-> h[m]]
    OBVIOUS
  <2> HIDE DEF h
  <2>4. ASSUME NEW m \in 0 .. n + 1
        PROVE  h[m] = IF m = 0 THEN start ELSE Turn(loop, a, h[m - 1], m)
    <3>1. CASE m = n + 1
      <4>1. m # 0 /\ m - 1 = n /\ n \in 0 .. n
        BY <3>1
      <4> QED BY <2>2, <2>3, <3>1, <4>1
    <3>2. CASE m # n + 1
      <4>1. m \in 0 .. n /\ (m # 0 => m - 1 \in 0 .. n)
        BY <3>2
      <4>2. r[m] = IF m = 0 THEN start ELSE Turn(loop, a, r[m - 1], m)
        BY <2>1, <4>1
      <4> QED BY <2>2, <4>1, <4>2
    <3> QED BY <3>1, <3>2
  <2>5. h = [m \in 0 .. n + 1 |-> IF m = 0 THEN start ELSE Turn(loop, a, h[m - 1], m)]
    BY <2>3, <2>4
  <2> QED BY <2>5 DEF IsLoop
<1>3. \A n \in Nat : n \in S
  <2> HIDE DEF S
  <2> QED BY <1>1, <1>2, Induction
<1> QED BY <1>3

LEMMA LoopTurns ==
    \A loop, a, start, r : \A N \in Nat : IsLoop(r, loop, a, start, N) =>
        /\ r[0] = start
        /\ \A n \in 0 .. N - 1 : r[n + 1] = Turn(loop, a, r[n], n + 1)
<1> SUFFICES ASSUME NEW loop, NEW a, NEW start, NEW r, NEW N \in Nat,
                    IsLoop(r, loop, a, start, N)
             PROVE  /\ r[0] = start
                    /\ \A n \in 0 .. N - 1 : r[n + 1] = Turn(loop, a, r[n], n + 1)
  OBVIOUS
<1>1. \A n \in 0 .. N : r[n] = IF n = 0 THEN start ELSE Turn(loop, a, r[n - 1], n)
  <2>1. r = [n \in 0 .. N |-> IF n = 0 THEN start ELSE Turn(loop, a, r[n - 1], n)]
    BY DEF IsLoop
  <2> QED BY <2>1
<1>2. 0 \in 0 .. N
  OBVIOUS
<1>3. ASSUME NEW n \in 0 .. N - 1 PROVE r[n + 1] = Turn(loop, a, r[n], n + 1)
  <2>1. n + 1 \in 0 .. N /\ n + 1 # 0 /\ n + 1 - 1 = n
    OBVIOUS
  <2> QED BY <1>1, <2>1
<1> QED BY <1>1, <1>2, <1>3

-----------------------------------------------------------------------------
(* Windows of a file.                                                       *)
LEMMA WindowIs ==
    ASSUME NEW b \in Seq(Byte), NEW j \in Nat \ {0}, NEW k \in Nat, j <= k, k <= Len(b)
    PROVE  LET w == SubSeq(b, j, k)
           IN  /\ IsBytes(w) /\ Len(w) = k - j + 1 /\ w[1] = b[j]
               /\ \A i \in 1 .. k - j + 1 : w[i] = b[j - 1 + i]
<1> DEFINE x == j - 1
           w == SubSeq(b, j, k)
<1>1. x \in Nat /\ x <= k /\ x + 1 = j /\ k - x = k - j + 1
  OBVIOUS
<1> HIDE DEF Byte
<1>2. LET r == SubSeq(b, x + 1, k)
      IN  r \in Seq(Byte) /\ Len(r) = k - x /\ \A i \in 1 .. k - x : r[i] = b[x + i]
  <2> HIDE DEF x
  <2>1. b \in Seq(Byte) /\ x \in Nat /\ k \in Nat /\ x <= k /\ k <= Len(b)
    BY <1>1
  <2> QED BY ONLY <2>1, PieceBytes
<1>3. w \in Seq(Byte) /\ Len(w) = k - j + 1 /\ \A i \in 1 .. k - j + 1 : w[i] = b[j - 1 + i]
  BY <1>1, <1>2
<1> HIDE DEF w
<1>4. IsBytes(w)
  BY <1>3, SeqIsBytes
<1>5. 1 \in 1 .. k - j + 1 /\ j - 1 + 1 = j
  OBVIOUS
<1>6. w[1] = b[j]
  BY <1>3, <1>5
<1> QED BY <1>3, <1>4, <1>6 DEF w

(* Two well-formed scalars of a file that meet are the same.                *)
IsScalar(b, j, k) == k - j < 4 /\ WellFormed(SubSeq(b, j, k))
LEMMA OneScalar ==
    ASSUME NEW b \in Seq(Byte), NEW j \in Nat \ {0}, NEW k \in Nat, j <= k, k <= Len(b),
           NEW i \in Nat \ {0}, NEW m \in Nat, i <= m, m <= Len(b),
           IsScalar(b, j, k), IsScalar(b, i, m), i <= j, j <= m
    PROVE  j = i /\ k = m
<1> DEFINE w == SubSeq(b, j, k)
           v == SubSeq(b, i, m)
<1>1. /\ IsBytes(w) /\ Len(w) = k - j + 1 /\ w[1] = b[j]
      /\ IsBytes(v) /\ Len(v) = m - i + 1 /\ v[1] = b[i]
      /\ \A h \in 1 .. m - i + 1 : v[h] = b[i - 1 + h]
  BY WindowIs
<1>2. WellFormed(w) /\ WellFormed(v) /\ k - j < 4 /\ m - i < 4
  BY DEF IsScalar
<1> HIDE DEF w, v
<1>3. Len(w) \in 1 .. 4 /\ Len(v) \in 1 .. 4
  BY <1>1, <1>2
<1>4. /\ Lead(w[1]) = Len(w) /\ w[1] \notin 128 .. 191
      /\ Lead(v[1]) = Len(v) /\ \A h \in 2 .. Len(v) : v[h] \in 128 .. 191
  BY <1>1, <1>2, <1>3, Scalar
<1>5. j = i
  <2> SUFFICES ASSUME i < j PROVE FALSE
    OBVIOUS
  <2> DEFINE h == j - i + 1
  <2>1. h \in 2 .. m - i + 1 /\ h \in 1 .. m - i + 1 /\ i - 1 + h = j
    OBVIOUS
  <2> HIDE DEF h
  <2>2. v[h] \in 128 .. 191 /\ v[h] = b[j]
    BY <1>1, <1>4, <2>1
  <2> QED BY <1>1, <1>4, <2>2
<1>6. k - j + 1 = m - i + 1
  BY <1>1, <1>4, <1>5
<1> QED BY <1>5, <1>6

(* The bytes up to p are whole scalars.                                     *)
Checked(b, p) ==
    \A i \in 1 .. p : \E j \in 1 .. i, k \in i .. p : IsScalar(b, j, k)

LEMMA NextScalar ==
    ASSUME NEW b \in Seq(Byte), IsText(b), NEW p \in 0 .. Len(b) - 1, Checked(b, p)
    PROVE  \E k \in p + 1 .. Len(b) : IsScalar(b, p + 1, k)
<1>0. Len(b) \in Nat /\ DOMAIN b = 1 .. Len(b) /\ p + 1 \in 1 .. Len(b) /\ p \in Nat
  OBVIOUS
<1>1. PICK j \in 1 .. p + 1, k \in p + 1 .. Len(b) : IsScalar(b, j, k)
  BY <1>0 DEF IsText, IsScalar
<1>2. j = p + 1
  <2> SUFFICES ASSUME j <= p PROVE FALSE
    BY <1>0
  <2>1. j \in 1 .. p
    OBVIOUS
  <2>2. PICK i \in 1 .. j, m \in j .. p : IsScalar(b, i, m)
    BY <2>1 DEF Checked
  <2>3. /\ j \in Nat \ {0} /\ k \in Nat /\ j <= k /\ k <= Len(b)
        /\ i \in Nat \ {0} /\ m \in Nat /\ i <= m /\ m <= Len(b) /\ i <= j /\ j <= m
    BY <1>0, <2>1
  <2>4. k = m
    <3> HIDE DEF Byte
    <3> QED BY ONLY <1>1, <2>2, <2>3, b \in Seq(Byte), OneScalar
  <2> QED BY <1>0, <2>2, <2>4
<1> QED BY <1>1, <1>2

(* What the check carries over while a scalar is unfinished.                *)
LEMMA CarryExpects ==
    ASSUME NEW b \in Seq(Byte), NEW p \in Nat, NEW k \in p + 1 .. Len(b), IsScalar(b, p + 1, k),
           NEW n \in p + 1 .. k
    PROVE  utf8_expected(SubSeq(b, p + 1, n)) = k - p
<1> DEFINE w == SubSeq(b, p + 1, k)
           s == SubSeq(b, p + 1, n)
           j == p + 1
<1>0. Len(b) \in Nat /\ j \in Nat \ {0} /\ k \in Nat /\ n \in Nat /\ j <= k /\ k <= Len(b)
      /\ j <= n /\ n <= k /\ n <= Len(b)
  OBVIOUS
<1>1. /\ IsBytes(w) /\ Len(w) = k - j + 1
      /\ \A i \in 1 .. k - j + 1 : w[i] = b[j - 1 + i]
      /\ IsBytes(s) /\ Len(s) = n - j + 1
      /\ \A i \in 1 .. n - j + 1 : s[i] = b[j - 1 + i]
  <2> HIDE DEF Byte, j
  <2>1. LET v == SubSeq(b, j, k)
        IN  IsBytes(v) /\ Len(v) = k - j + 1 /\ \A i \in 1 .. k - j + 1 : v[i] = b[j - 1 + i]
    BY ONLY <1>0, b \in Seq(Byte), WindowIs, ZenonT(60)
  <2>2. LET v == SubSeq(b, j, n)
        IN  IsBytes(v) /\ Len(v) = n - j + 1 /\ \A i \in 1 .. n - j + 1 : v[i] = b[j - 1 + i]
    BY ONLY <1>0, b \in Seq(Byte), WindowIs, ZenonT(60)
  <2> QED BY <2>1, <2>2 DEF j
<1>2. WellFormed(w) /\ k - j < 4
  BY DEF IsScalar
<1> HIDE DEF w, s
<1>3. Len(w) = k - p /\ Len(w) \in 1 .. 4 /\ Len(s) \in 1 .. Len(w)
  <2>1. Len(w) = k - j + 1 /\ Len(s) = n - j + 1 /\ k - j < 4
    BY ONLY <1>1, <1>2
  <2>2. k - j + 1 = k - p /\ n - j + 1 = n - p /\ k - j = k - p - 1
    BY ONLY p \in Nat, <1>0
  <2>3. k - p \in 1 .. 4 /\ n - p \in 1 .. k - p
    BY ONLY p \in Nat, <1>0, <2>1, <2>2
  <2> QED BY ONLY <2>1, <2>2, <2>3
<1>4. \A i \in 1 .. Len(s) : s[i] = w[i]
  <2>1. \A i \in 1 .. n - j + 1 : i \in 1 .. k - j + 1
    BY <1>0
  <2> QED BY <1>1, <2>1
<1>5. utf8_expected(s) = Len(w)
  BY <1>1, <1>2, <1>3, <1>4, Beginning
<1> QED BY <1>3, <1>5 DEF s

(* After n bytes: either the file is known not to be text, or the bytes up  *)
(* to some p are whole scalars and the rest begins one.                     *)
Passing(t, b, p, n) ==
    /\ t.carry = SubSeq(b, p + 1, n) /\ Checked(b, p) /\ \A i \in 1 .. n : b[i] # Nul
    /\ n - p <= 3 /\ (p < n => n - p < Lead(b[p + 1]))
Passed(t, b, n) ==
    /\ t \in [carry : Seq(Byte), skip : BOOLEAN]
    /\ t.skip => ~IsText(b)
    /\ ~t.skip => \E p \in 0 .. n : Passing(t, b, p, n)

LEMMA Reach ==
    ASSUME NEW b \in Seq(Byte), IsText(b), NEW n \in 0 .. Len(b), NEW p \in 0 .. n,
           p < Len(b), NEW t, Passing(t, b, p, n)
    PROVE  \E k \in n + 1 .. Len(b) : IsScalar(b, p + 1, k)
<1>0. Len(b) \in Nat /\ p \in 0 .. Len(b) - 1 /\ p \in Nat /\ n \in Nat
  OBVIOUS
<1>1. PICK k \in p + 1 .. Len(b) : IsScalar(b, p + 1, k)
  BY <1>0, NextScalar DEF Passing
<1>2. k \in Nat /\ p + 1 \in Nat \ {0} /\ p + 1 <= k /\ k <= Len(b)
  BY <1>0
<1>3. n + 1 <= k
  <2> DEFINE w == SubSeq(b, p + 1, k)
  <2>1. IsBytes(w) /\ Len(w) = k - p /\ w[1] = b[p + 1]
    <3> DEFINE j == p + 1
    <3>1. j \in Nat \ {0} /\ j <= k /\ k - j + 1 = k - p
      BY <1>0, <1>2
    <3> HIDE DEF Byte, j
    <3>2. LET v == SubSeq(b, j, k) IN IsBytes(v) /\ Len(v) = k - j + 1 /\ v[1] = b[j]
      BY ONLY <1>2, <3>1, b \in Seq(Byte), WindowIs
    <3> QED BY <3>1, <3>2 DEF j
  <2>2. WellFormed(w) /\ k - p <= 4
    BY <1>0, <1>1, <1>2 DEF IsScalar
  <2> HIDE DEF w
  <2>3. Len(w) \in 1 .. 4
    BY <1>0, <1>2, <2>1, <2>2
  <2>4. Lead(b[p + 1]) = k - p
    BY <2>1, <2>2, <2>3, Scalar
  <2>5. p < n => n - p < k - p
    BY <2>4 DEF Passing
  <2> QED BY <1>0, <1>2, <2>5
<1>4. k \in n + 1 .. Len(b)
  BY <1>0, <1>2, <1>3
<1> QED BY <1>1, <1>4

LEMMA AppendPiece ==
    ASSUME NEW b \in Seq(Byte), NEW n \in 0 .. Len(b) - 1, NEW p \in 0 .. n
    PROVE  Append(SubSeq(b, p + 1, n), b[n + 1]) = SubSeq(b, p + 1, n + 1)
<1> DEFINE s == SubSeq(b, p + 1, n)
           c == SubSeq(b, p + 1, n + 1)
           m == n + 1
           y == b[m]
<1>0. /\ p \in Nat /\ n \in Nat /\ m \in Nat /\ p <= n /\ n <= Len(b) /\ p <= m /\ m <= Len(b)
      /\ m - p = n - p + 1 /\ m = n + 1 /\ m \in 1 .. Len(b) /\ p + (n - p + 1) = m
      /\ n - p \in Nat
  OBVIOUS
<1>1. s \in Seq(Byte) /\ Len(s) = n - p /\ \A i \in 1 .. n - p : s[i] = b[p + i]
  <2> HIDE DEF Byte
  <2> QED BY ONLY <1>0, b \in Seq(Byte), PieceBytes
<1>2. c = SubSeq(b, p + 1, m)
  OBVIOUS
<1>3. c \in Seq(Byte) /\ Len(c) = n - p + 1 /\ \A i \in 1 .. n - p + 1 : c[i] = b[p + i]
  <2> HIDE DEF Byte, c, m
  <2>1. LET r == SubSeq(b, p + 1, m)
        IN  r \in Seq(Byte) /\ Len(r) = m - p /\ \A i \in 1 .. m - p : r[i] = b[p + i]
    BY ONLY <1>0, b \in Seq(Byte), PieceBytes
  <2> QED BY <1>0, <1>2, <2>1
<1>4. y \in Byte
  <2> HIDE DEF Byte, m
  <2> QED BY <1>0
<1> DEFINE a == Append(s, y)
<1> HIDE DEF s, c, Byte, y
<1>5. /\ a \in Seq(Byte) /\ Len(a) = Len(s) + 1
      /\ \A i \in 1 .. Len(s) + 1 : a[i] = IF i = Len(s) + 1 THEN y ELSE s[i]
  BY ONLY <1>1, <1>4, AppendProperties
<1> HIDE DEF a
<1>6. ASSUME NEW i \in 1 .. n - p + 1 PROVE a[i] = c[i]
  <2>1. CASE i = n - p + 1
    <3>1. a[i] = y
      BY <1>1, <1>5, <2>1
    <3>2. c[i] = b[m]
      BY <1>0, <1>3, <2>1
    <3> QED BY <3>1, <3>2 DEF y
  <2>2. CASE i # n - p + 1
    <3>1. i \in 1 .. n - p
      BY <1>0, <2>2
    <3>2. a[i] = s[i]
      BY <1>1, <1>5, <2>2
    <3> QED BY <1>1, <1>3, <3>1, <3>2
  <2> QED BY <2>1, <2>2
<1>7. Len(a) = n - p + 1
  BY <1>1, <1>5
<1>8. a = c
  BY ONLY <1>3, <1>5, <1>6, <1>7, SeqEqual
<1> QED BY <1>8 DEF a, c, s, y

LEMMA CheckedMore ==
    ASSUME NEW b, NEW p \in Nat, Checked(b, p), NEW k \in Nat, p + 1 <= k,
           IsScalar(b, p + 1, k)
    PROVE  Checked(b, k)
<1> SUFFICES ASSUME NEW i \in 1 .. k
             PROVE  \E j \in 1 .. i, m \in i .. k : IsScalar(b, j, m)
  BY DEF Checked
<1>1. CASE i <= p
  <2>1. i \in 1 .. p
    BY <1>1
  <2>2. PICK j \in 1 .. i, m \in i .. p : IsScalar(b, j, m)
    BY <2>1 DEF Checked
  <2>3. m \in i .. k
    OBVIOUS
  <2> QED BY <2>2, <2>3
<1>2. CASE ~(i <= p)
  <2>1. p + 1 \in 1 .. i /\ k \in i .. k
    BY <1>2
  <2> QED BY <2>1
<1> QED BY <1>1, <1>2

LEMMA NothingLeft ==
    ASSUME NEW b \in Seq(Byte), NEW n \in Nat, NEW t, t.carry = << >>, Checked(b, n),
           \A i \in 1 .. n : b[i] # Nul
    PROVE  Passing(t, b, n, n)
<1>1. SubSeq(b, n + 1, n) = << >>
  OBVIOUS
<1> QED BY <1>1 DEF Passing

LEMMA PreflightByte ==
    ASSUME NEW b \in Seq(Byte), NEW n \in 0 .. Len(b) - 1, NEW t, Passed(t, b, n)
    PROVE  Passed(preflight_byte(t, b[n + 1]), b, n + 1)
<1> DEFINE x == b[n + 1]
           c == Append(t.carry, x)
           need == utf8_expected(c)
           u == preflight_byte(t, x)
<1>0. /\ Len(b) \in Nat /\ n \in Nat /\ n + 1 \in Nat /\ n + 1 \in 1 .. Len(b)
      /\ n \in 0 .. Len(b) /\ DOMAIN b = 1 .. Len(b)
  OBVIOUS
<1>1. t \in [carry : Seq(Byte), skip : BOOLEAN]
  BY DEF Passed
<1>2. u = IF t.skip \/ (t.carry = << >> /\ x \in 1 .. 127) THEN t
          ELSE IF x = Nul \/ need = 0 THEN [t EXCEPT !.skip = TRUE]
          ELSE IF need <= Len(c) THEN [t EXCEPT !.carry = SubSeq(c, need + 1, Len(c))]
          ELSE [t EXCEPT !.carry = c]
  BY DEF preflight_byte
<1>3. x \in 0 .. 255
  BY <1>0, SeqIsBytes DEF IsBytes
<1> HIDE DEF x, u, need
<1>4. CASE t.skip
  <2>1. u = t
    BY <1>2, <1>4
  <2> QED BY <1>1, <1>4, <2>1 DEF Passed, u, x
<1>5. CASE ~t.skip
  <2>1. PICK p \in 0 .. n : Passing(t, b, p, n)
    BY <1>5 DEF Passed
  <2>2. /\ t.carry = SubSeq(b, p + 1, n) /\ Checked(b, p) /\ \A i \in 1 .. n : b[i] # Nul
        /\ n - p <= 3 /\ (p < n => n - p < Lead(b[p + 1]))
    BY <2>1 DEF Passing
  <2>3. /\ p \in Nat /\ p + 1 \in Nat \ {0} /\ p + 1 <= n + 1 /\ p < Len(b)
        /\ n + 1 - (p + 1) + 1 = n - p + 1 /\ n + 1 <= Len(b) /\ p \in 0 .. n + 1
        /\ p <= n /\ n <= Len(b)
    BY <1>0
  <2>4. c = SubSeq(b, p + 1, n + 1)
    BY <2>2, AppendPiece DEF x
  <2>5. IsBytes(c) /\ Len(c) = n - p + 1 /\ c[1] = b[p + 1]
    <3> DEFINE j == p + 1
               k == n + 1
    <3>1. j \in Nat \ {0} /\ k \in Nat /\ j <= k /\ k <= Len(b) /\ k - j + 1 = n - p + 1
      BY <1>0, <2>3
    <3> HIDE DEF Byte, j, k
    <3>2. LET v == SubSeq(b, j, k) IN IsBytes(v) /\ Len(v) = k - j + 1 /\ v[1] = b[j]
      BY ONLY <3>1, b \in Seq(Byte), WindowIs
    <3> QED BY <2>4, <3>1, <3>2 DEF j, k
  <2>6. c \in Seq(Byte) /\ Len(t.carry) = n - p
    <3>1. x \in Byte
      BY <1>3 DEF Byte
    <3> HIDE DEF Byte
    <3>2. t.carry \in Seq(Byte)
      BY <1>1
    <3>3. Len(SubSeq(b, p + 1, n)) = n - p
      BY ONLY <1>0, <2>3, b \in Seq(Byte), PieceBytes
    <3> QED BY <2>2, <3>1, <3>2, <3>3
  <2> DEFINE l == n - p + 1
             f == Lead(b[p + 1])
  <2>7. l \in 1 .. 4 /\ n - p = l - 1 /\ l \in Nat
    BY <2>2, <2>3
  <2>8. Len(c) = l /\ c[1] = b[p + 1] /\ (p < n => l - 1 < f)
    BY <2>2, <2>5, <2>7
  <2>9. p = n => l = 1 /\ b[p + 1] = x
    BY <1>0 DEF x
  <2>10. l + p = n + 1
    BY <1>0, <2>3
  <2> HIDE DEF c, l
  <2>11. f \in 0 .. 4 /\ need = IF Legal(c, Min2(f, l)) THEN f ELSE 0
    BY <2>5, <2>7, <2>8, ExpectedIs DEF need
  <2>12. need \in {0, f}
    BY <2>11
  <2>13. ASSUME need = l PROVE IsScalar(b, p + 1, n + 1)
    <3>1. f = l /\ Legal(c, Min2(f, l))
      BY <2>7, <2>11, <2>13
    <3>2. Min2(f, l) = l
      BY <2>7, <3>1 DEF Min2
    <3>3. WellFormed(c)
      BY <2>5, <2>7, <2>8, <3>1, <3>2, WellFormedIs
    <3>4. (n + 1) - (p + 1) < 4
      BY <1>0, <2>2, <2>3
    <3> QED BY <2>4, <3>3, <3>4 DEF IsScalar
  <2> HIDE DEF f
  <2>14. x # Nul => \A i \in 1 .. n + 1 : b[i] # Nul
    <3>1. \A i \in 1 .. n + 1 : i \in 1 .. n \/ i = n + 1
      BY <1>0
    <3> QED BY <2>2, <3>1 DEF x
  (* A byte of the ASCII range outside a scalar. *)
  <2>15. CASE t.carry = << >> /\ x \in 1 .. 127
    <3>1. u = t
      BY <1>2, <2>15
    <3>2. p = n
      BY <2>3, <2>6, <2>15
    <3>3. IsScalar(b, n + 1, n + 1)
      <4>1. Len(c) = 1 /\ c[1] < 128
        BY <2>8, <2>9, <2>15, <3>2
      <4>2. WellFormed(c)
        BY <4>1 DEF WellFormed
      <4>3. (n + 1) - (n + 1) < 4
        BY <1>0
      <4> QED BY <2>4, <3>2, <4>2, <4>3 DEF IsScalar
    <3>4. Checked(b, n + 1)
      BY <1>0, <2>2, <3>2, <3>3, CheckedMore
    <3>5. x # Nul
      <4>1. x \in 1 .. 127
        BY ONLY <2>15
      <4> QED BY ONLY <4>1 DEF Nul
    <3>6. Passing(t, b, n + 1, n + 1)
      BY <1>0, <2>14, <2>15, <3>4, <3>5, NothingLeft
    <3>7. n + 1 \in 0 .. n + 1
      BY <1>0
    <3> QED BY <1>1, <1>5, <3>1, <3>6, <3>7 DEF Passed, u, x
  (* Bytes that begin no scalar. *)
  <2>16. CASE ~(t.carry = << >> /\ x \in 1 .. 127) /\ (x = Nul \/ need = 0)
    <3>1. ~IsText(b)
      <4>1. CASE x = Nul
        BY <1>0, <4>1 DEF IsText, x
      <4>2. CASE need = 0
        <5> SUFFICES ASSUME IsText(b) PROVE FALSE
          OBVIOUS
        <5>1. PICK k \in n + 1 .. Len(b) : IsScalar(b, p + 1, k)
          BY <1>0, <2>1, <2>3, Reach
        <5>2. k \in p + 1 .. Len(b) /\ n + 1 \in p + 1 .. k
          BY <1>0, <2>3
        <5>3. need = k - p
          BY <2>3, <2>4, <5>1, <5>2, CarryExpects DEF need
        <5> QED BY <2>3, <4>2, <5>2, <5>3
      <4> QED BY <2>16, <4>1, <4>2
    <3>2. u = [t EXCEPT !.skip = TRUE]
      BY <1>2, <1>5, <2>16
    <3>3. u \in [carry : Seq(Byte), skip : BOOLEAN] /\ u.skip
      <4> HIDE DEF Byte
      <4> QED BY <1>1, <3>2
    <3> QED BY <3>1, <3>3 DEF Passed, u, x
  (* The last byte of a scalar. *)
  <2>17. CASE /\ ~(t.carry = << >> /\ x \in 1 .. 127) /\ ~(x = Nul \/ need = 0)
              /\ need <= Len(c)
    <3>1. u = [t EXCEPT !.carry = SubSeq(c, need + 1, Len(c))]
      BY <1>2, <1>5, <2>17
    <3>2. need = l
      <4>1. need = f /\ f \in 1 .. l
        BY <2>8, <2>11, <2>12, <2>17
      <4>2. CASE p < n
        BY <2>7, <2>8, <4>1, <4>2
      <4>3. CASE p = n
        BY <2>9, <4>1, <4>3
      <4> QED BY <2>3, <1>0, <4>2, <4>3
    <3>3. SubSeq(c, need + 1, Len(c)) = << >>
      BY <2>6, <2>7, <2>8, <3>2
    <3>4. u.carry = << >> /\ u.skip = FALSE /\ u \in [carry : Seq(Byte), skip : BOOLEAN]
      <4> DEFINE none == SubSeq(c, need + 1, Len(c))
      <4> HIDE DEF Byte
      <4>1. none = << >> /\ none \in Seq(Byte)
        <5>1. none = << >>
          BY <3>3
        <5>2. << >> \in Seq(Byte)
          OBVIOUS
        <5> QED BY ONLY <5>1, <5>2
      <4>2. u = [t EXCEPT !.carry = none]
        BY <3>1
      <4> HIDE DEF none
      <4>3. t.skip \in BOOLEAN /\ u = [carry |-> none, skip |-> t.skip]
        BY <1>1, <4>2
      <4> QED BY <1>5, <4>1, <4>3
    <3>5. Checked(b, n + 1)
      BY <1>0, <2>2, <2>3, <2>13, <3>2, CheckedMore
    <3>6. Passing(u, b, n + 1, n + 1)
      BY <1>0, <2>14, <2>17, <3>4, <3>5, NothingLeft
    <3>7. n + 1 \in 0 .. n + 1
      BY <1>0
    <3> QED BY <3>4, <3>6, <3>7 DEF Passed, u, x
  (* A scalar that goes on. *)
  <2>18. CASE /\ ~(t.carry = << >> /\ x \in 1 .. 127) /\ ~(x = Nul \/ need = 0)
              /\ ~(need <= Len(c))
    <3>1. u = [t EXCEPT !.carry = c]
      BY <1>2, <1>5, <2>18
    <3>2. u.carry = c /\ u.skip = FALSE /\ u \in [carry : Seq(Byte), skip : BOOLEAN]
      <4> HIDE DEF Byte
      <4> QED BY <1>1, <1>5, <2>6, <3>1
    <3>3. l < f /\ f <= 4
      <4>1. need = f /\ ~(f <= l)
        BY <2>8, <2>12, <2>18
      <4> QED BY <2>7, <2>11, <4>1
    <3>4. (n + 1) - p = l /\ l <= 3
      BY <1>0, <2>3, <2>7, <2>10, <2>11, <3>3
    <3>5. Passing(u, b, p, n + 1)
      BY <2>2, <2>4, <2>14, <2>18, <3>2, <3>3, <3>4 DEF Passing, f
    <3> QED BY <2>3, <3>2, <3>5 DEF Passed, u, x
  <2> QED BY <2>15, <2>16, <2>17, <2>18
<1> QED BY <1>4, <1>5

(* search_text.c, preflight: a file is skipped exactly when it is not text. *)
IsPreflight(r, b) ==
    r = [n \in 0 .. Len(b) |->
            IF n = 0 THEN [carry |-> << >>, skip |-> FALSE]
            ELSE preflight_byte(r[n - 1], b[n])]

LEMMA PreflightIs ==
    ASSUME NEW b \in Seq(Byte)
    PROVE  preflight(b) <=> ~IsText(b)
<1> DEFINE start == [carry |-> << >>, skip |-> FALSE]
           r == CHOOSE h : IsPreflight(h, b)
           S == {n \in Nat : n <= Len(b) => Passed(r[n], b, n)}
           t == r[Len(b)]
<1>0. Len(b) \in Nat /\ DOMAIN b = 1 .. Len(b)
  OBVIOUS
<1>1. preflight(b) <=> t.skip \/ t.carry # << >>
  BY DEF preflight, IsPreflight
<1>2. \A s, n : Turn("preflight", b, s, n) = preflight_byte(s, b[n])
  BY DEF Turn
<1>3. IsPreflight(r, b)
  <2>1. \E h : IsLoop(h, "preflight", b, start, Len(b))
    BY <1>0, LoopExists
  <2>2. \A h : IsLoop(h, "preflight", b, start, Len(b)) => IsPreflight(h, b)
    BY <1>2 DEF IsLoop, IsPreflight
  <2> QED BY <2>1, <2>2
<1> HIDE DEF r
<1>4. IsLoop(r, "preflight", b, start, Len(b))
  BY <1>2, <1>3, ZenonT(40) DEF IsLoop, IsPreflight
<1>5. /\ r[0] = start
      /\ \A n \in 0 .. Len(b) - 1 : r[n + 1] = preflight_byte(r[n], b[n + 1])
  <2> HIDE DEF start
  <2>1. /\ r[0] = start
        /\ \A n \in 0 .. Len(b) - 1 : r[n + 1] = Turn("preflight", b, r[n], n + 1)
    <3> DEFINE N == Len(b)
    <3>1. N \in Nat /\ IsLoop(r, "preflight", b, start, N)
      BY <1>0, <1>4
    <3> HIDE DEF N
    <3>2. /\ r[0] = start
          /\ \A n \in 0 .. N - 1 : r[n + 1] = Turn("preflight", b, r[n], n + 1)
      BY ONLY <3>1, LoopTurns
    <3> QED BY <3>2 DEF N
  <2> QED BY <1>2, <2>1
<1>6. 0 \in S
  <2>1. r[0].carry = << >> /\ ~r[0].skip /\ r[0] \in [carry : Seq(Byte), skip : BOOLEAN]
    <3> HIDE DEF Byte
    <3> QED BY <1>5
  <2>2. Checked(b, 0) /\ \A i \in 1 .. 0 : b[i] # Nul
    BY DEF Checked
  <2>3. Passing(r[0], b, 0, 0)
    BY <2>1, <2>2, NothingLeft
  <2>4. 0 \in 0 .. 0
    OBVIOUS
  <2>5. Passed(r[0], b, 0)
    BY <2>1, <2>3, <2>4 DEF Passed
  <2> QED BY <2>5
<1>7. ASSUME NEW n \in Nat, n \in S PROVE n + 1 \in S
  <2> SUFFICES ASSUME n + 1 <= Len(b) PROVE Passed(r[n + 1], b, n + 1)
    OBVIOUS
  <2>1. n \in 0 .. Len(b) - 1 /\ n <= Len(b)
    BY <1>0
  <2>2. Passed(r[n], b, n)
    BY <1>7, <2>1
  <2>3. r[n + 1] = preflight_byte(r[n], b[n + 1])
    BY <1>5, <2>1
  <2> QED BY <2>1, <2>2, <2>3, PreflightByte
<1>8. \A n \in Nat : n \in S
  <2> HIDE DEF S
  <2> QED BY <1>6, <1>7, Induction
<1>9. Passed(t, b, Len(b))
  BY <1>0, <1>8
<1> HIDE DEF t
<1>10. CASE t.skip
  BY <1>1, <1>9, <1>10 DEF Passed
<1>11. CASE ~t.skip
  <2>1. PICK p \in 0 .. Len(b) : Passing(t, b, p, Len(b))
    BY <1>9, <1>11 DEF Passed
  <2>2. t.carry = SubSeq(b, p + 1, Len(b)) /\ Checked(b, p) /\ \A i \in 1 .. Len(b) : b[i] # Nul
    BY <2>1 DEF Passing
  <2>3. CASE p = Len(b)
    <3>1. t.carry = << >>
      BY <1>0, <2>2, <2>3
    <3>2. IsText(b)
      BY <1>0, <2>2, <2>3 DEF IsText, Checked, IsScalar
    <3> QED BY <1>1, <1>11, <3>1, <3>2
  <2>4. CASE p # Len(b)
    <3>1. p \in Nat /\ p < Len(b) /\ Len(b) \in 0 .. Len(b) /\ p <= Len(b)
      <4> DEFINE z == Len(b)
      <4>1. z \in Nat /\ p \in 0 .. z /\ p # z
        BY <1>0, <2>4
      <4> HIDE DEF z
      <4>2. p \in Nat /\ p < z /\ z \in 0 .. z /\ p <= z
        BY <4>1
      <4> QED BY <4>2 DEF z
    <3>2. ~IsText(b)
      <4> SUFFICES ASSUME IsText(b) PROVE FALSE
        OBVIOUS
      <4>1. \E k \in Len(b) + 1 .. Len(b) : IsScalar(b, p + 1, k)
        BY <2>1, <3>1, Reach
      <4>2. Len(b) + 1 .. Len(b) = {}
        BY <1>0
      <4> QED BY <4>1, <4>2
    <3>3. t.carry # << >>
      <4> DEFINE z == Len(b)
      <4>1. z \in Nat /\ p <= z /\ z <= Len(b)
        BY <1>0, <3>1
      <4>2. Len(SubSeq(b, p + 1, z)) = z - p
        <5> HIDE DEF z, Byte
        <5> QED BY ONLY <3>1, <4>1, b \in Seq(Byte), PieceBytes
      <4>3. Len(t.carry) = z - p /\ z - p # 0
        BY <2>2, <3>1, <4>1, <4>2
      <4> HIDE DEF z
      <4> QED BY <4>3
    <3> QED BY <1>1, <3>2, <3>3
  <2> QED BY <2>3, <2>4
<1> QED BY <1>10, <1>11

-----------------------------------------------------------------------------
(* The groups of a query: none is empty, none is longer than the query, and *)
(* none holds a line feed.                                                  *)
IsGroup(g) == g \in Seq(Byte) /\ Len(g) \in 1 .. QueryMax /\ \A i \in 1 .. Len(g) : g[i] # LF

LEMMA GreatestExists ==
    ASSUME NEW n \in Nat, NEW S, S \subseteq 0 .. n, S # {}
    PROVE  \E x \in S : \A y \in S : y <= x
<1> DEFINE T == {n - x : x \in S}
<1>1. T \subseteq Nat /\ T # {}
  <2>1. \A x \in S : n - x \in Nat
    OBVIOUS
  <2>2. \E x \in S : n - x \in T
    OBVIOUS
  <2>3. T \subseteq Nat
    BY <2>1
  <2> QED BY <2>2, <2>3
<1>2. \E x \in T : \A y \in T : ~(<<y, x>> \in OpToRel(<, Nat))
  <2> HIDE DEF T
  <2> QED BY ONLY <1>1, NatLessThanWellFounded, WFMin
<1>3. PICK t \in T : \A y \in T : ~(y < t)
  <2> HIDE DEF T
  <2> QED BY <1>1, <1>2, Below
<1>4. PICK x \in S : t = n - x
  OBVIOUS
<1>5. ASSUME NEW y \in S PROVE y <= x
  <2>1. n - y \in T
    OBVIOUS
  <2>2. ~(n - y < n - x)
    BY <1>3, <1>4, <2>1
  <2> QED BY <2>2
<1> QED BY <1>5

LEMMA FoldByte ==
    \A x \in 0 .. 255 : ascii_fold(x) \in 0 .. 255 /\ (ascii_fold(x) = LF <=> x = LF)
BY DEF ascii_fold, LF

LEMMA FoldIs ==
    ASSUME NEW s \in Seq(Byte)
    PROVE  /\ Fold(s) \in Seq(Byte) /\ Len(Fold(s)) = Len(s)
           /\ \A i \in 1 .. Len(s) : /\ Fold(s)[i] = ascii_fold(s[i])
                                     /\ Fold(s)[i] = LF <=> s[i] = LF
<1> DEFINE L == Len(s)
<1>1. L \in Nat /\ DOMAIN s = 1 .. L /\ \A i \in 1 .. L : s[i] \in 0 .. 255
  BY SeqIsBytes DEF IsBytes
<1> HIDE DEF L
<1>2. Fold(s) = [i \in 1 .. L |-> ascii_fold(s[i])]
  BY <1>1 DEF Fold
<1>3. \A i \in 1 .. L : ascii_fold(s[i]) \in Byte /\ (ascii_fold(s[i]) = LF <=> s[i] = LF)
  BY <1>1, FoldByte DEF Byte
<1> HIDE DEF Byte
<1> DEFINE f == Fold(s)
<1>4. f \in [1 .. L -> Byte] /\ \A i \in 1 .. L : f[i] = ascii_fold(s[i])
  BY <1>2, <1>3
<1> HIDE DEF f
<1>5. f \in Seq(Byte) /\ Len(f) = L
  BY <1>1, <1>4
<1>6. \A i \in 1 .. L : f[i] = ascii_fold(s[i]) /\ (f[i] = LF <=> s[i] = LF)
  BY <1>3, <1>4
<1> QED BY <1>5, <1>6 DEF f, L

LEMMA GroupIs ==
    ASSUME NEW q \in Seq(Byte), Len(q) <= QueryMax, NEW n \in GroupStarts(q)
    PROVE  IsGroup(Fold(GroupAt(q, n)))
<1> DEFINE L == Len(q)
           ends == {j \in n .. L : \A k \in n .. j : ~query_separator(q[k])}
           e == CHOOSE j \in ends : \A k \in ends : k <= j
<1>0. L \in Nat /\ DOMAIN q = 1 .. L /\ n \in 1 .. L /\ ~query_separator(q[n])
  BY DEF GroupStarts
<1>1. GroupAt(q, n) = SubSeq(q, n, e)
  BY DEF GroupAt
<1> HIDE DEF L
<1>2. ends \subseteq 0 .. L /\ n \in ends
  BY <1>0
<1>3. e \in ends
  <2> HIDE DEF ends
  <2>1. \E x \in ends : \A y \in ends : y <= x
    BY <1>0, <1>2, GreatestExists
  <2> QED BY <2>1
<1>4. e \in n .. L /\ \A k \in n .. e : ~query_separator(q[k])
  BY <1>3
<1> HIDE DEF ends, e
<1> DEFINE x == n - 1
           s == SubSeq(q, n, e)
<1>5. x \in Nat /\ e \in Nat /\ x <= e /\ e <= Len(q) /\ x + 1 = n
  BY <1>0, <1>4 DEF L
<1>6. s \in Seq(Byte) /\ Len(s) = e - x /\ \A k \in 1 .. e - x : s[k] = q[x + k]
  <2> HIDE DEF x, Byte
  <2>1. LET r == SubSeq(q, x + 1, e)
        IN  r \in Seq(Byte) /\ Len(r) = e - x /\ \A k \in 1 .. e - x : r[k] = q[x + k]
    BY ONLY <1>5, q \in Seq(Byte), PieceBytes
  <2> QED BY <1>5, <2>1
<1>7. e - x \in 1 .. QueryMax
  <2> DEFINE m == QueryMax
  <2>1. m \in Nat /\ L <= m
    BY LimitAssumption DEF L
  <2> HIDE DEF m, x
  <2>2. e - x \in 1 .. m
    BY <1>0, <1>4, <1>5, <2>1
  <2> QED BY <2>2 DEF m
<1> HIDE DEF s, Byte
<1>8. ASSUME NEW k \in 1 .. Len(s) PROVE s[k] # LF
  <2>1. k \in 1 .. e - x /\ x + k \in n .. e
    BY <1>5, <1>6
  <2>2. s[k] = q[x + k] /\ ~query_separator(q[x + k])
    BY <1>4, <1>6, <2>1
  <2>3. query_separator(LF)
    BY DEF query_separator, is_ascii_word, LF
  <2> QED BY <2>2, <2>3
<1>9. Len(s) \in 1 .. QueryMax /\ Len(Fold(s)) = Len(s) /\ Fold(s) \in Seq(Byte)
  BY <1>6, <1>7, FoldIs
<1>10. \A i \in 1 .. Len(s) : Fold(s)[i] # LF
  BY <1>6, <1>8, FoldIs
<1> QED BY <1>1, <1>9, <1>10 DEF IsGroup, s

IsGroups(gs) == gs \in Seq(Seq(Byte)) /\ \A k \in DOMAIN gs : IsGroup(gs[k])

LEMMA GroupsAppend ==
    ASSUME NEW gs, IsGroups(gs), NEW g, IsGroup(g)
    PROVE  IsGroups(Append(gs, g))
<1> DEFINE T == Seq(Byte)
           h == Append(gs, g)
           L == Len(gs)
<1>1. gs \in Seq(T) /\ g \in T /\ \A k \in DOMAIN gs : IsGroup(gs[k])
  BY DEF IsGroups, IsGroup
<1> HIDE DEF T
<1>2. h \in Seq(T) /\ L \in Nat /\ DOMAIN gs = 1 .. L /\ DOMAIN h = 1 .. L + 1
      /\ \A k \in 1 .. L + 1 : h[k] = IF k = L + 1 THEN g ELSE gs[k]
  BY <1>1
<1> HIDE DEF h, L
<1>3. \A k \in 1 .. L + 1 : k = L + 1 \/ k \in 1 .. L
  BY <1>2
<1>4. \A k \in DOMAIN h : IsGroup(h[k])
  BY <1>1, <1>2, <1>3
<1> QED BY <1>2, <1>4 DEF IsGroups, T, h

IsParse(r, q) ==
    r = [n \in 0 .. Len(q) |->
            IF n = 0 THEN << >>
            ELSE IF /\ n \in GroupStarts(q)
                    /\ \A k \in DOMAIN r[n - 1] : r[n - 1][k] # Fold(GroupAt(q, n))
                 THEN Append(r[n - 1], Fold(GroupAt(q, n))) ELSE r[n - 1]]

LEMMA ParseIs ==
    ASSUME NEW q \in Seq(Byte), Len(q) <= QueryMax
    PROVE  IsGroups(parse(q))
<1> DEFINE N == Len(q)
           r == CHOOSE h : IsParse(h, q)
           S == {n \in Nat : n <= N => IsGroups(r[n])}
<1>0. N \in Nat
  OBVIOUS
<1>1. parse(q) = r[N]
  BY DEF parse, IsParse
<1>2. \A s, n : Turn("parse", q, s, n) =
                  IF n \in GroupStarts(q) /\ \A k \in DOMAIN s : s[k] # Fold(GroupAt(q, n))
                  THEN Append(s, Fold(GroupAt(q, n))) ELSE s
  BY DEF Turn
<1>3. IsParse(r, q)
  <2>1. \E h : IsLoop(h, "parse", q, << >>, N)
    BY <1>0, LoopExists
  <2>2. \A h : IsLoop(h, "parse", q, << >>, N) => IsParse(h, q)
    BY <1>2 DEF IsLoop, IsParse
  <2> QED BY <2>1, <2>2
<1> HIDE DEF r
<1>4. IsLoop(r, "parse", q, << >>, N)
  BY <1>2, <1>3, ZenonT(40) DEF IsLoop, IsParse
<1> HIDE DEF N
<1>5. /\ r[0] = << >>
      /\ \A n \in 0 .. N - 1 : r[n + 1] = Turn("parse", q, r[n], n + 1)
  BY ONLY <1>0, <1>4, LoopTurns
<1>6. 0 \in S
  <2>1. << >> \in Seq(Seq(Byte)) /\ DOMAIN << >> = {}
    <3> HIDE DEF Byte
    <3> QED OBVIOUS
  <2> QED BY <1>5, <2>1 DEF IsGroups
<1>7. ASSUME NEW n \in Nat, n \in S PROVE n + 1 \in S
  <2> SUFFICES ASSUME n + 1 <= N PROVE IsGroups(r[n + 1])
    OBVIOUS
  <2>1. n \in 0 .. N - 1 /\ n <= N
    BY <1>0
  <2>2. IsGroups(r[n])
    BY <1>7, <2>1
  <2>3. r[n + 1] = r[n]
        \/ (n + 1 \in GroupStarts(q) /\ r[n + 1] = Append(r[n], Fold(GroupAt(q, n + 1))))
    <3> DEFINE g == Fold(GroupAt(q, n + 1))
    <3>1. r[n + 1] = Turn("parse", q, r[n], n + 1)
      BY <1>5, <2>1
    <3>2. Turn("parse", q, r[n], n + 1) =
             IF n + 1 \in GroupStarts(q) /\ \A k \in DOMAIN r[n] : r[n][k] # g
             THEN Append(r[n], g) ELSE r[n]
      BY <1>2
    <3> HIDE DEF g
    <3>3. r[n + 1] = r[n] \/ (n + 1 \in GroupStarts(q) /\ r[n + 1] = Append(r[n], g))
      BY <3>1, <3>2
    <3> QED BY <3>3 DEF g
  <2>4. n + 1 \in GroupStarts(q) => IsGroup(Fold(GroupAt(q, n + 1)))
    BY GroupIs
  <2> QED BY <2>2, <2>3, <2>4, GroupsAppend
<1>8. \A n \in Nat : n \in S
  <2> HIDE DEF S
  <2> QED BY <1>6, <1>7, Induction
<1> QED BY <1>0, <1>1, <1>8

-----------------------------------------------------------------------------
(* The ranking: a line that comes after all the lines ranked so far goes    *)
(* where its score puts it.                                                 *)
Cand == [slot : Nat, line : Nat, anchor : Nat, score : Nat]
Rank == [list : Seq(Cand), total : Nat, skipped : Nat]
Ranked(rank, lines) ==
    /\ rank \in Rank /\ lines \subseteq Cand /\ IsFiniteSet(lines)
    /\ IsRanking(rank, lines)
Later(c, d) == d.slot < c.slot \/ (d.slot = c.slot /\ d.line < c.line)

LEMMA LaterWorse ==
    \A c, d \in Cand : Later(c, d) => (~rank_better(c, d) <=> rank_better(d, c)) /\ c # d
BY DEF Cand, Later, rank_better
LEMMA BetterTransitive ==
    \A c, d, e \in Cand : rank_better(c, d) /\ rank_better(d, e) => rank_better(c, e)
BY DEF Cand, rank_better

LEMMA LeastExists ==
    ASSUME NEW S, S \subseteq Nat, S # {}
    PROVE  Least(S) \in S /\ \A y \in S : Least(S) <= y
<1>1. \E x \in S : \A y \in S : ~(<<y, x>> \in OpToRel(<, Nat))
  BY NatLessThanWellFounded, WFMin
<1>2. PICK x \in S : \A y \in S : ~(y < x)
  BY <1>1, Below
<1>3. x \in S /\ \A y \in S : x <= y
  BY <1>2
<1>4. S \subseteq Int
  OBVIOUS
<1>5. Least(S) = x
  BY <1>3, <1>4, LeastIs
<1> QED BY <1>3, <1>5

(* Where c goes.                                                            *)
Place(list, c) ==
    LET worse == {i \in DOMAIN list : rank_better(c, list[i])}
    IN  IF worse = {} THEN Len(list) + 1 ELSE Least(worse)

Sorted(list) == \A i, j \in 1 .. Len(list) : i < j => rank_better(list[i], list[j])

LEMMA PlaceIs ==
    ASSUME NEW list \in Seq(Cand), Sorted(list), NEW c \in Cand,
           \A i \in 1 .. Len(list) : Later(c, list[i])
    PROVE  LET at == Place(list, c)
           IN  /\ at \in 1 .. Len(list) + 1
               /\ \A i \in 1 .. Len(list) :
                     IF i < at THEN rank_better(list[i], c) ELSE rank_better(c, list[i])
<1> DEFINE L == Len(list)
           worse == {i \in 1 .. L : rank_better(c, list[i])}
           at == Place(list, c)
<1>1. L \in Nat /\ DOMAIN list = 1 .. L /\ \A i \in 1 .. L : list[i] \in Cand
  <2> HIDE DEF Cand
  <2> QED OBVIOUS
<1>2. at = IF worse = {} THEN L + 1 ELSE Least(worse)
  BY <1>1 DEF Place
<1>3. \A i \in 1 .. L : i \notin worse => rank_better(list[i], c)
  BY <1>1, LaterWorse
<1> HIDE DEF at
<1>4. CASE worse = {}
  <2>1. at = L + 1
    BY <1>2, <1>4
  <2>2. \A i \in 1 .. L : rank_better(list[i], c) /\ i < at
    BY <1>1, <1>3, <1>4, <2>1
  <2>3. at \in 1 .. L + 1
    BY <1>1, <2>1
  <2> QED BY <2>2, <2>3 DEF at
<1>5. CASE worse # {}
  <2>1. worse \subseteq Nat
    OBVIOUS
  <2>2. at = Least(worse)
    BY <1>2, <1>5
  <2>3. at \in worse /\ \A y \in worse : at <= y
    <3> HIDE DEF worse
    <3> QED BY <1>5, <2>1, <2>2, LeastExists
  <2>4. at \in 1 .. L /\ at \in 1 .. L + 1 /\ rank_better(c, list[at])
    BY <1>1, <2>3
  <2>5. ASSUME NEW i \in 1 .. L
        PROVE  IF i < at THEN rank_better(list[i], c) ELSE rank_better(c, list[i])
    <3>1. CASE i < at
      <4>1. i \notin worse
        <5> HIDE DEF worse
        <5> QED BY <2>3, <2>4, <3>1
      <4> QED BY <1>3, <3>1, <4>1
    <3>2. CASE i = at
      BY <2>4, <3>2
    <3>3. CASE at < i
      <4>1. rank_better(list[at], list[i])
        BY <2>4, <3>3 DEF Sorted
      <4>2. rank_better(c, list[i])
        BY <1>1, <2>4, <4>1, BetterTransitive
      <4> QED BY <2>4, <3>3, <4>2
    <3> QED BY <2>4, <3>1, <3>2, <3>3
  <2> QED BY <2>4, <2>5 DEF at
<1> QED BY <1>4, <1>5

(* The list with c in its place.                                            *)
IsInserted(new, list, c, at, K) ==
    /\ new \in Seq(Cand) /\ Len(new) = K
    /\ \A i \in 1 .. K :
          new[i] = IF i < at THEN list[i] ELSE IF i = at THEN c ELSE list[i - 1]
LEMMA Inserted ==
    \A list \in Seq(Cand), c \in Cand :
        \A at \in 1 .. Len(list) + 1, K \in 0 .. Len(list) + 1 :
            LET full == SubSeq(list, 1, at - 1) \o <<c>> \o SubSeq(list, at, Len(list))
            IN  IsInserted(SubSeq(full, 1, Min2(K, Len(full))), list, c, at, K)
<1> TAKE list \in Seq(Cand), c \in Cand
<1> TAKE at \in 1 .. Len(list) + 1, K \in 0 .. Len(list) + 1
<1> DEFINE L == Len(list)
           p == SubSeq(list, 1, at - 1)
           r == SubSeq(list, at, L)
           pc == p \o <<c>>
           full == pc \o r
           new == SubSeq(full, 1, Min2(K, Len(full)))
<1> HIDE DEF Cand
<1>0. /\ L \in Nat /\ at \in Nat /\ at - 1 \in Nat /\ at - 1 <= L /\ at <= L + 1
      /\ \A i \in 1 .. L : list[i] \in Cand
  OBVIOUS
<1>1. p \in Seq(Cand) /\ Len(p) = at - 1 /\ \A i \in 1 .. at - 1 : p[i] = list[i]
  <2>1. \A i \in 1 .. at - 1 : list[i] \in Cand
    BY <1>0
  <2>2. /\ p \in Seq(Cand) /\ Len(p) = (IF 1 <= at - 1 THEN at - 1 - 1 + 1 ELSE 0)
        /\ \A i \in 1 .. at - 1 - 1 + 1 : p[i] = list[1 + i - 1]
    BY ONLY <1>0, <2>1, SubSeqProperties
  <2>3. at - 1 - 1 + 1 = at - 1 /\ (~(1 <= at - 1) => at - 1 = 0) /\ \A i \in Nat : 1 + i - 1 = i
    BY <1>0
  <2> HIDE DEF p
  <2>4. Len(p) = at - 1
    BY <2>2, <2>3
  <2>5. ASSUME NEW i \in 1 .. at - 1 PROVE p[i] = list[i]
    <3>1. i \in 1 .. at - 1 - 1 + 1 /\ 1 + i - 1 = i
      BY <1>0, <2>3
    <3> QED BY <2>2, <3>1
  <2> QED BY <2>2, <2>4, <2>5
<1>2. r \in Seq(Cand) /\ Len(r) = L - at + 1 /\ \A i \in 1 .. L - at + 1 : r[i] = list[at + i - 1]
  <2>1. \A i \in at .. L : list[i] \in Cand
    BY <1>0
  <2>2. /\ r \in Seq(Cand) /\ Len(r) = (IF at <= L THEN L - at + 1 ELSE 0)
        /\ \A i \in 1 .. L - at + 1 : r[i] = list[at + i - 1]
    BY ONLY <1>0, <2>1, SubSeqProperties
  <2>3. ~(at <= L) => L - at + 1 = 0
    BY <1>0
  <2> QED BY <2>2, <2>3
<1> HIDE DEF p, r
<1>3. /\ pc \in Seq(Cand) /\ Len(pc) = at
      /\ \A i \in 1 .. at : pc[i] = IF i < at THEN list[i] ELSE c
  <2>1. <<c>> \in Seq(Cand) /\ Len(<<c>>) = 1 /\ <<c>>[1] = c
    OBVIOUS
  <2>2. /\ pc \in Seq(Cand) /\ Len(pc) = Len(p) + Len(<<c>>)
        /\ \A i \in 1 .. Len(p) + Len(<<c>>) :
              pc[i] = IF i <= Len(p) THEN p[i] ELSE <<c>>[i - Len(p)]
    BY ONLY <1>1, <2>1, ConcatProperties
  <2>3. Len(p) + Len(<<c>>) = at
    BY <1>0, <1>1, <2>1
  <2>4. ASSUME NEW i \in 1 .. at PROVE pc[i] = IF i < at THEN list[i] ELSE c
    <3>1. CASE i < at
      <4>1. i \in 1 .. at - 1 /\ i <= Len(p)
        BY <1>0, <1>1, <3>1
      <4> QED BY <1>1, <2>2, <2>3, <3>1, <4>1
    <3>2. CASE ~(i < at)
      <4>1. ~(i <= Len(p)) /\ i - Len(p) = 1
        BY <1>0, <1>1, <3>2
      <4> QED BY <2>1, <2>2, <2>3, <3>2, <4>1
    <3> QED BY <3>1, <3>2
  <2> QED BY <2>2, <2>3, <2>4
<1> HIDE DEF pc
<1>4. /\ full \in Seq(Cand) /\ Len(full) = L + 1
      /\ \A i \in 1 .. L + 1 :
            full[i] = IF i < at THEN list[i] ELSE IF i = at THEN c ELSE list[i - 1]
  <2>1. /\ full \in Seq(Cand) /\ Len(full) = Len(pc) + Len(r)
        /\ \A i \in 1 .. Len(pc) + Len(r) :
              full[i] = IF i <= Len(pc) THEN pc[i] ELSE r[i - Len(pc)]
    BY ONLY <1>2, <1>3, ConcatProperties
  <2>2. Len(pc) + Len(r) = L + 1
    BY <1>0, <1>2, <1>3
  <2>3. ASSUME NEW i \in 1 .. L + 1
        PROVE  full[i] = IF i < at THEN list[i] ELSE IF i = at THEN c ELSE list[i - 1]
    <3>1. CASE i <= at
      <4>1. i \in 1 .. at
        BY <1>0, <3>1
      <4> QED BY <1>0, <1>3, <2>1, <2>2, <3>1, <4>1
    <3>2. CASE at < i
      <4>1. i - at \in 1 .. L - at + 1 /\ at + (i - at) - 1 = i - 1 /\ ~(i <= at)
            /\ ~(i < at) /\ i # at
        BY <1>0, <3>2
      <4>2. full[i] = r[i - at]
        BY <1>3, <2>1, <2>2, <4>1
      <4> QED BY <1>2, <4>1, <4>2
    <3>3. i <= at \/ at < i
      <4>1. i \in Int /\ at \in Int
        BY <1>0
      <4> QED BY ONLY <4>1
    <3> QED BY <3>1, <3>2, <3>3
  <2> QED BY <2>1, <2>2, <2>3
<1> HIDE DEF full
<1>5. Min2(K, Len(full)) = K
  BY <1>0, <1>4 DEF Min2
<1>6. new \in Seq(Cand) /\ Len(new) = K /\ \A i \in 1 .. K : new[i] = full[i]
  <2> DEFINE m == SubSeq(full, 1, K)
  <2>1. \A i \in 1 .. K : full[i] \in Cand
    BY <1>0, <1>4
  <2>2. K \in Int /\ 1 \in Int
    BY <1>0
  <2>3. /\ m \in Seq(Cand) /\ Len(m) = (IF 1 <= K THEN K - 1 + 1 ELSE 0)
        /\ \A i \in 1 .. K - 1 + 1 : m[i] = full[1 + i - 1]
    BY ONLY <2>1, <2>2, SubSeqProperties
  <2>4. K - 1 + 1 = K /\ (~(1 <= K) => K = 0) /\ \A i \in 1 .. K : 1 + i - 1 = i
    BY <1>0
  <2>5. new = m
    BY <1>5
  <2> HIDE DEF m, new
  <2> QED BY <2>3, <2>4, <2>5
<1>7. \A i \in 1 .. K :
         new[i] = IF i < at THEN list[i] ELSE IF i = at THEN c ELSE list[i - 1]
  <2>1. \A i \in 1 .. K : i \in 1 .. L + 1
    BY <1>0
  <2> QED BY <1>4, <1>6, <2>1
<1>8. IsInserted(new, list, c, at, K)
  BY <1>6, <1>7 DEF IsInserted
<1> QED BY <1>8 DEF new, full, pc, p, r

LEMMA RankAdd ==
    ASSUME NEW rank, NEW lines, Ranked(rank, lines), NEW c \in Cand,
           \A d \in lines : Later(c, d)
    PROVE  /\ Ranked(rank_add(rank, c), lines \cup {c})
           /\ rank_add(rank, c).skipped = rank.skipped
<1> DEFINE list == rank.list
           L == Len(list)
           M == ShownMax
           n == Cardinality(lines)
           at == Place(list, c)
           K == Min2(M, L + 1)
           full == SubSeq(list, 1, at - 1) \o <<c>> \o SubSeq(list, at, L)
           cut == SubSeq(full, 1, Min2(M, Len(full)))
           new == IF at > M THEN list ELSE cut
           more == lines \cup {c}
           out == rank_add(rank, c)
<1> HIDE DEF Cand
<1>1. rank \in Rank /\ lines \subseteq Cand /\ IsFiniteSet(lines) /\ IsRanking(rank, lines)
  BY DEF Ranked
<1>2. /\ list \in Seq(Cand) /\ rank.total \in Nat /\ rank.skipped \in Nat
      /\ rank = [list |-> list, total |-> rank.total, skipped |-> rank.skipped]
  BY <1>1 DEF Rank
<1>3. /\ rank.total = n /\ L = Min2(M, n)
      /\ \A i \in 1 .. L : list[i] \in lines
      /\ Sorted(list)
      /\ \A d \in lines : (\A i \in 1 .. L : list[i] # d) =>
            L = M /\ \A i \in 1 .. L : rank_better(list[i], d)
  BY <1>1 DEF IsRanking, Sorted
<1>4. out = [list |-> new, total |-> rank.total + 1, skipped |-> rank.skipped]
  <2>1. out = [rank EXCEPT !.total = @ + 1, !.list = IF at > M THEN @ ELSE cut]
    BY DEF rank_add, Place
  <2> HIDE DEF list, at, cut, M, out
  <2>2. rank.list = list
    BY DEF list
  <2> QED BY ONLY <1>2, <2>1, <2>2
<1> HIDE DEF out, list
<1>5. n \in Nat /\ M \in Nat /\ L \in Nat /\ IsFiniteSet(more) /\ Cardinality(more) = n + 1
  <2>1. c \notin lines
    BY <1>1, LaterWorse
  <2> QED BY <1>1, <1>2, <2>1, FS_AddElement, FS_CardinalityType, LimitAssumption
<1>6. /\ at \in 1 .. L + 1
      /\ \A i \in 1 .. L :
            IF i < at THEN rank_better(list[i], c) ELSE rank_better(c, list[i])
  <2>1. \A i \in 1 .. Len(list) : Later(c, list[i])
    BY <1>3
  <2> QED BY <1>2, <1>3, <2>1, PlaceIs
<1>7. L <= M /\ L <= n /\ (L = M \/ L = n)
  <2> HIDE DEF L, M, n
  <2> QED BY <1>3, <1>5 DEF Min2
<1>8. \A i \in 1 .. L : list[i] \in Cand /\ list[i] \in lines
  BY <1>1, <1>3
<1>9. /\ new \in Seq(Cand) /\ Len(new) = Min2(M, n + 1)
      /\ \A i \in 1 .. Len(new) : new[i] \in more
      /\ Sorted(new)
      /\ \A d \in more : (\A i \in 1 .. Len(new) : new[i] # d) =>
            Len(new) = M /\ \A i \in 1 .. Len(new) : rank_better(new[i], d)
  (* c is worse than every line shown, and the list is full. *)
  <2>1. CASE at > M
    <3> HIDE DEF M, L, n, at, cut
    <3>1. new = list /\ Len(new) = L
      BY <2>1 DEF L
    <3>2. L = M /\ at = L + 1
      BY <1>5, <1>6, <1>7, <2>1
    <3>3. Min2(M, n + 1) = L
      BY <1>5, <1>7, <3>2 DEF Min2
    <3>4. \A i \in 1 .. L : rank_better(list[i], c)
      BY <1>5, <1>6, <3>2
    <3> HIDE DEF new
    <3>5. ASSUME NEW d \in more, \A i \in 1 .. L : list[i] # d
          PROVE  L = M /\ \A i \in 1 .. L : rank_better(list[i], d)
      <4>1. CASE d = c
        BY <3>2, <3>4, <4>1
      <4>2. CASE d # c
        <5>1. d \in lines
          BY <4>2
        <5> QED BY <1>3, <3>5, <5>1 DEF L, M
      <4> QED BY <4>1, <4>2
    <3>6. \A i \in 1 .. L : list[i] \in more
      BY <1>8
    <3> QED BY <1>2, <1>3, <3>1, <3>3, <3>5, <3>6
  <2>2. CASE ~(at > M)
    <3>1. new = cut
      BY <2>2
    <3>2. K \in 0 .. L + 1 /\ at <= K /\ Min2(M, n + 1) = K /\ K <= M /\ at \in 1 .. K
      <4> HIDE DEF L, M, n, at
      <4> QED BY <1>5, <1>6, <1>7, <2>2 DEF Min2
    <3>3. Len(full) = L + 1 /\ Min2(M, Len(full)) = K /\ Min2(K, Len(full)) = K
      <4> DEFINE p == SubSeq(list, 1, at - 1)
                 r == SubSeq(list, at, L)
      <4> HIDE DEF at
      <4>1. LET f == SubSeq(list, 1, at - 1) \o <<c>> \o SubSeq(list, at, Len(list))
            IN  Len(f) = L + 1
        <5>1. p \in Seq(Cand) /\ r \in Seq(Cand) /\ Len(p) = at - 1 /\ Len(r) = L - at + 1
          <6>1. \A i \in 1 .. at - 1 : list[i] \in Cand
            BY <1>6, <1>8
          <6>2. \A i \in at .. L : list[i] \in Cand
            BY <1>6, <1>8
          <6>3. at - 1 \in Int /\ at \in Int /\ L \in Int /\ 1 \in Int
            BY <1>5, <1>6
          <6>4. p \in Seq(Cand) /\ Len(p) = (IF 1 <= at - 1 THEN at - 1 - 1 + 1 ELSE 0)
            BY ONLY <6>1, <6>3, SubSeqProperties
          <6>5. r \in Seq(Cand) /\ Len(r) = (IF at <= L THEN L - at + 1 ELSE 0)
            BY ONLY <6>2, <6>3, SubSeqProperties
          <6> HIDE DEF p, r, L
          <6> QED BY <1>5, <1>6, <6>3, <6>4, <6>5
        <5> HIDE DEF p, r
        <5>2. p \o <<c>> \in Seq(Cand) /\ Len(p \o <<c>>) = at
          BY <1>6, <5>1
        <5> DEFINE pc == p \o <<c>>
        <5> HIDE DEF pc
        <5>3. Len(pc \o r) = Len(pc) + Len(r)
          BY ONLY <5>1, <5>2, ConcatProperties DEF pc
        <5>4. Len(pc \o r) = L + 1
          BY <1>5, <1>6, <5>1, <5>2, <5>3, SMTT(30) DEF pc
        <5> QED BY <5>4 DEF pc, p, r
      <4>2. Len(full) = L + 1
        BY <4>1
      <4> HIDE DEF full, L, M
      <4> QED BY <1>5, <3>2, <4>2 DEF Min2
    <3>4. /\ new \in Seq(Cand) /\ Len(new) = K
          /\ \A i \in 1 .. K :
                new[i] = IF i < at THEN list[i] ELSE IF i = at THEN c ELSE list[i - 1]
      <4> DEFINE m == SubSeq(full, 1, Min2(K, Len(full)))
      <4>1. cut = m
        BY <3>3
      <4> HIDE DEF at, K
      <4>2. IsInserted(m, list, c, at, K)
        BY ONLY <1>2, <1>6, <3>2, c \in Cand, Inserted
      <4> HIDE DEF m, new
      <4> QED BY ONLY <3>1, <4>1, <4>2 DEF IsInserted
    <3> HIDE DEF new, at, K, L, M, n
    <3>5. /\ \A i \in 1 .. K : i < at => new[i] = list[i] /\ i \in 1 .. L
          /\ \A i \in 1 .. K : at < i => new[i] = list[i - 1] /\ i - 1 \in 1 .. L
          /\ new[at] = c /\ \A i \in 1 .. K : i < at \/ i = at \/ at < i
      BY <1>5, <1>6, <3>2, <3>4
    <3>6. ASSUME NEW i \in 1 .. K PROVE new[i] \in more
      BY <1>8, <3>5
    <3>7. ASSUME NEW i \in 1 .. K, NEW j \in 1 .. K, i < j
          PROVE  rank_better(new[i], new[j])
      <4>1. \A x, y \in 1 .. L : x < y => rank_better(list[x], list[y])
        BY <1>3 DEF Sorted, L
      <4>2. CASE j < at
        <5>1. i < at
          BY <1>6, <3>7, <4>2
        <5> QED BY <3>5, <3>7, <4>1, <4>2, <5>1
      <4>3. CASE j = at
        <5>1. i < at /\ i \in 1 .. L /\ new[i] = list[i] /\ new[j] = c
          BY <3>5, <3>7, <4>3
        <5> QED BY <1>6, <5>1
      <4>4. CASE at < j /\ i = at
        <5>1. new[i] = c /\ new[j] = list[j - 1] /\ j - 1 \in 1 .. L
          BY <3>5, <4>4
        <5>2. ~(j - 1 < at)
          BY <1>6, <4>4
        <5> QED BY <1>6, <5>1, <5>2
      <4>5. CASE at < j /\ i < at
        <5>1. new[i] = list[i] /\ i \in 1 .. L /\ new[j] = list[j - 1] /\ j - 1 \in 1 .. L
          BY <3>5, <4>5
        <5>2. i < j - 1
          BY <1>6, <4>5
        <5> QED BY <4>1, <5>1, <5>2
      <4>6. CASE at < j /\ at < i
        <5>1. new[i] = list[i - 1] /\ i - 1 \in 1 .. L /\ new[j] = list[j - 1]
              /\ j - 1 \in 1 .. L
          BY <3>5, <4>6
        <5>2. i - 1 < j - 1
          BY <3>7
        <5> QED BY <4>1, <5>1, <5>2
      <4> QED BY <3>5, <4>2, <4>3, <4>4, <4>5, <4>6
    <3>8. ASSUME NEW d \in more, \A i \in 1 .. K : new[i] # d
          PROVE  K = M /\ \A i \in 1 .. K : rank_better(new[i], d)
      <4>1. d # c /\ d \in lines /\ d \in Cand
        BY <1>1, <3>2, <3>5, <3>8
      (* d was the last one shown, and falls off. *)
      <4>2. CASE \E i \in 1 .. L : list[i] = d
        <5>1. PICK i \in 1 .. L : list[i] = d
          BY <4>2
        <5>2. ~(i < at)
          <6> SUFFICES ASSUME i < at PROVE FALSE
            OBVIOUS
          <6>1. i \in 1 .. K
            BY <1>5, <3>2
          <6> QED BY <3>5, <3>8, <5>1, <6>1
        <5>3. ~(i + 1 \in 1 .. K)
          <6> SUFFICES ASSUME i + 1 \in 1 .. K PROVE FALSE
            OBVIOUS
          <6>1. at < i + 1 /\ i + 1 - 1 = i
            BY <1>6, <5>2
          <6>2. new[i + 1] = list[i + 1 - 1]
            BY <3>5, <6>1
          <6> QED BY <3>8, <5>1, <6>1, <6>2
        <5>4. K = M /\ i = K /\ L = K
          BY <1>5, <1>7, <3>2, <5>3 DEF K, Min2
        <5>5. ASSUME NEW j \in 1 .. K PROVE rank_better(new[j], d)
          <6>1. \A x, y \in 1 .. L : x < y => rank_better(list[x], list[y])
            BY <1>3 DEF Sorted, L
          <6>2. CASE j < at
            <7>1. new[j] = list[j] /\ j \in 1 .. L /\ j < i
              BY <1>6, <3>5, <5>2, <6>2
            <7> QED BY <5>1, <6>1, <7>1
          <6>3. CASE j = at
            BY <1>6, <3>5, <5>1, <5>2, <6>3
          <6>4. CASE at < j
            <7>1. new[j] = list[j - 1] /\ j - 1 \in 1 .. L /\ j - 1 < i
              BY <3>5, <5>4, <6>4
            <7> QED BY <5>1, <6>1, <7>1
          <6> QED BY <3>5, <6>2, <6>3, <6>4
        <5> QED BY <5>4, <5>5
      (* d was not shown before either. *)
      <4>3. CASE ~\E i \in 1 .. L : list[i] = d
        <5>1. L = M /\ \A i \in 1 .. L : rank_better(list[i], d)
          BY <1>3, <4>1, <4>3 DEF L, M
        <5>2. K = M /\ at \in 1 .. L
          BY <1>5, <1>6, <2>2, <3>2, <5>1 DEF K, Min2
        <5>3. rank_better(c, list[at]) /\ rank_better(list[at], d)
          BY <1>6, <5>1, <5>2
        <5>4. rank_better(c, d)
          BY <1>8, <4>1, <5>2, <5>3, BetterTransitive
        <5>5. \A j \in 1 .. K : rank_better(new[j], d)
          BY <3>5, <5>1, <5>4
        <5> QED BY <5>2, <5>5
      <4> QED BY <4>2, <4>3
    <3>9. Sorted(new)
      BY <3>4, <3>7 DEF Sorted
    <3> QED BY <3>2, <3>4, <3>6, <3>8, <3>9
  <2> QED BY <2>1, <2>2
<1>10. /\ out.list = new /\ out.total = n + 1 /\ out.skipped = rank.skipped
       /\ out \in Rank /\ more \subseteq Cand
  <2> HIDE DEF new, n
  <2>1. out.list = new /\ out.total = rank.total + 1 /\ out.skipped = rank.skipped
    BY <1>4
  <2>2. out \in Rank
    BY <1>2, <1>4, <1>9 DEF Rank
  <2> QED BY <1>1, <1>3, <2>1, <2>2
<1> HIDE DEF new, n, M
<1>11. IsRanking(out, more)
  BY <1>5, <1>9, <1>10 DEF IsRanking, Sorted, M
<1> QED BY <1>5, <1>10, <1>11 DEF Ranked, out

-----------------------------------------------------------------------------
(* The occurrences of a group, by where they end.                           *)
Occurs(g, b, i) ==
    /\ i \in 0 .. Len(b) - Len(g)
    /\ Fold(SubSeq(b, i + 1, i + Len(g))) = g
    /\ is_ascii_word(g[1]) => ~WordAt(b, i)
    /\ is_ascii_word(g[Len(g)]) => ~WordAt(b, i + Len(g) + 1)
(* Those of one line that end within the first n bytes.                     *)
Sofar(g, b, line, n) == {i \in Occurrences(g, b, line) : i + Len(g) <= n}

LEMMA OccurrencesAre ==
    \A g, b, line : Occurrences(g, b, line) = {i \in 0 .. Len(b) - Len(g) :
                                                  Occurs(g, b, i) /\ LineOf(b, i + 1) = line}
BY DEF Occurrences, Occurs

LEMMA SofarFinite ==
    ASSUME NEW b, Len(b) \in Nat, NEW g, Len(g) \in Nat, NEW line, NEW n
    PROVE  /\ Sofar(g, b, line, n) \subseteq 0 .. Len(b)
           /\ IsFiniteSet(Sofar(g, b, line, n)) /\ Cardinality(Sofar(g, b, line, n)) \in Nat
<1>1. Sofar(g, b, line, n) \subseteq 0 .. Len(b)
  BY OccurrencesAre DEF Sofar
<1>2. IsFiniteSet(0 .. Len(b))
  BY FS_Interval
<1> QED BY <1>1, <1>2, FS_Subset, FS_CardinalityType

LEMMA LineIsNat == \A b : \A n \in Nat : LineOf(b, n + 1) \in Nat /\ LineOf(b, n + 1) >= 1
<1> TAKE b
<1> TAKE n \in Nat
<1>1. LineOf(b, n + 1) = 1 + Cardinality(Feeds(b, n)) /\ Cardinality(Feeds(b, n)) \in Nat
  BY LineOfIs
<1> QED BY <1>1

LEMMA LineMono ==
    ASSUME NEW b, NEW i \in Nat, NEW j \in Nat, i <= j
    PROVE  LineOf(b, i + 1) <= LineOf(b, j + 1)
<1>1. Feeds(b, i) \subseteq Feeds(b, j)
  BY DEF Feeds
<1>2. Cardinality(Feeds(b, i)) <= Cardinality(Feeds(b, j))
  BY <1>1, LineOfIs, FS_Subset
<1>3. /\ LineOf(b, i + 1) = 1 + Cardinality(Feeds(b, i))
      /\ LineOf(b, j + 1) = 1 + Cardinality(Feeds(b, j))
      /\ Cardinality(Feeds(b, i)) \in Nat /\ Cardinality(Feeds(b, j)) \in Nat
  BY LineOfIs
<1> QED BY <1>2, <1>3

LEMMA SameLine ==
    ASSUME NEW b, NEW i \in Nat, NEW j \in Nat, i <= j, \A k \in i + 1 .. j : b[k] # LF
    PROVE  LineOf(b, i + 1) = LineOf(b, j + 1)
<1>1. Feeds(b, i) = Feeds(b, j)
  <2>1. \A k \in 1 .. j : k \in 1 .. i \/ k \in i + 1 .. j
    OBVIOUS
  <2>2. \A k \in 1 .. i : k \in 1 .. j
    OBVIOUS
  <2> QED BY <2>1, <2>2 DEF Feeds
<1> QED BY <1>1, LineOfIs

(* A group occurs where the folded text ends with it, and its bytes are all *)
(* of one line.                                                             *)
LEMMA OccursEnds ==
    ASSUME NEW b \in Seq(Byte), NEW g, IsGroup(g), NEW i \in Nat, i + Len(g) <= Len(b)
    PROVE  /\ Fold(SubSeq(b, i + 1, i + Len(g))) = g <=> Ends(g, Len(g), Fold(b), i + Len(g))
           /\ Fold(SubSeq(b, i + 1, i + Len(g))) = g =>
                  \A k \in i + 1 .. i + Len(g) : b[k] # LF
<1> DEFINE L == Len(g)
           z == i + L
           s == SubSeq(b, i + 1, z)
           f == Fold(s)
           w == Fold(b)
<1>1. g \in Seq(Byte) /\ L \in 1 .. QueryMax /\ \A k \in 1 .. L : g[k] # LF
  BY DEF IsGroup
<1>2. L \in Nat /\ z \in Nat /\ i <= z /\ z <= Len(b) /\ z - i = L
  BY <1>1, LimitAssumption
<1>3. s \in Seq(Byte) /\ Len(s) = L /\ \A k \in 1 .. L : s[k] = b[i + k]
  <2> HIDE DEF z, Byte, L
  <2>1. LET r == SubSeq(b, i + 1, z)
        IN  r \in Seq(Byte) /\ Len(r) = z - i /\ \A k \in 1 .. z - i : r[k] = b[i + k]
    BY ONLY <1>2, b \in Seq(Byte), i \in Nat, PieceBytes
  <2> QED BY <1>2, <2>1
<1> HIDE DEF s, Byte
<1>4. /\ f \in Seq(Byte) /\ Len(f) = L
      /\ \A k \in 1 .. L : f[k] = ascii_fold(b[i + k]) /\ (f[k] = LF <=> b[i + k] = LF)
  BY <1>3, FoldIs
<1>5. \A k \in 1 .. Len(b) : w[k] = ascii_fold(b[k])
  BY FoldIs
<1> HIDE DEF f, w, L, z
<1>6. f = g <=> \A k \in 1 .. L : f[k] = g[k]
  BY <1>1, <1>4, SeqEqual DEF L
<1>7. \A k \in 1 .. L : z - L + k = i + k /\ i + k \in 1 .. Len(b)
  BY <1>2
<1>8. Ends(g, L, w, z) <=> \A k \in 1 .. L : g[k] = w[i + k]
  <2>1. L <= z
    BY <1>2
  <2> QED BY <1>7, <2>1 DEF Ends
<1>9. f = g <=> Ends(g, L, w, z)
  BY <1>4, <1>5, <1>6, <1>7, <1>8
<1>10. ASSUME f = g PROVE \A k \in i + 1 .. z : b[k] # LF
  <2> SUFFICES ASSUME NEW k \in i + 1 .. z PROVE b[k] # LF
    OBVIOUS
  <2>1. k - i \in 1 .. L /\ i + (k - i) = k
    BY <1>2
  <2>2. f[k - i] # LF
    BY <1>1, <1>10, <2>1
  <2> QED BY <1>4, <2>1, <2>2
<1> QED BY <1>9, <1>10 DEF f, w, s, z, L

(* One byte more ends at most one more occurrence, in the line of the byte. *)
LEMMA SofarMore ==
    ASSUME NEW b \in Seq(Byte), NEW g, IsGroup(g), NEW n \in 0 .. Len(b) - 1
    PROVE  LET line == LineOf(b, n + 1)
               i == n + 1 - Len(g)
               old == Sofar(g, b, line, n)
           IN  /\ Sofar(g, b, line, n + 1)
                    = IF i \in Nat /\ Occurs(g, b, i) THEN old \cup {i} ELSE old
               /\ i \notin old
<1> DEFINE L == Len(g)
           line == LineOf(b, n + 1)
           i == n + 1 - L
           old == Sofar(g, b, line, n)
           new == Sofar(g, b, line, n + 1)
<1>0. L \in Nat \ {0} /\ Len(b) \in Nat /\ n \in Nat /\ n + 1 <= Len(b)
  BY LimitAssumption DEF IsGroup
<1>1. \A j : j \in Occurrences(g, b, line) <=>
                j \in 0 .. Len(b) - L /\ Occurs(g, b, j) /\ LineOf(b, j + 1) = line
  BY OccurrencesAre
<1>2. \A j : j \in old <=> j \in Occurrences(g, b, line) /\ j + L <= n
  BY DEF Sofar
<1>3. \A j : j \in new <=> j \in Occurrences(g, b, line) /\ j + L <= n + 1
  BY DEF Sofar
<1> HIDE DEF old, new, L
<1>4. i \notin old
  BY <1>0, <1>2
<1>5. \A j \in new : j \in old \/ j = i
  <2> TAKE j \in new
  <2>1. j \in Int /\ j + L <= n + 1
    BY <1>0, <1>1, <1>3
  <2>2. j + L <= n \/ j = i
    BY <1>0, <2>1
  <2> QED BY <1>2, <1>3, <2>2
<1>6. \A j \in old : j \in new
  <2> TAKE j \in old
  <2>1. j \in Int /\ j + L <= n
    BY <1>0, <1>1, <1>2
  <2>2. j + L <= n + 1
    BY <1>0, <2>1
  <2> QED BY <1>2, <1>3, <2>2
<1>7. i \in new <=> i \in Nat /\ Occurs(g, b, i)
  <2>1. ASSUME i \in new PROVE i \in Nat /\ Occurs(g, b, i)
    BY <1>0, <1>1, <1>3, <2>1
  <2>2. ASSUME i \in Nat, Occurs(g, b, i) PROVE i \in new
    <3>1. i + L = n + 1 /\ i + L <= Len(b) /\ i \in 0 .. Len(b) - L /\ i <= n
      BY <1>0, <2>2
    <3>2. \A k \in i + 1 .. i + L : b[k] # LF
      BY <2>2, <3>1, OccursEnds DEF Occurs, L
    <3>3. \A k \in i + 1 .. n : b[k] # LF
      BY <1>0, <3>1, <3>2
    <3>4. LineOf(b, i + 1) = line
      BY <1>0, <2>2, <3>1, <3>3, SameLine
    <3> QED BY <1>0, <1>1, <1>3, <2>2, <3>1, <3>4
  <2> QED BY <2>1, <2>2
<1>8. new = IF i \in Nat /\ Occurs(g, b, i) THEN old \cup {i} ELSE old
  <2>1. CASE i \in new
    <3>1. new = old \cup {i}
      BY <1>5, <1>6, <2>1
    <3> QED BY <1>7, <2>1, <3>1
  <2>2. CASE i \notin new
    <3>1. new = old
      BY <1>5, <1>6, <2>2
    <3> QED BY <1>7, <2>2, <3>1
  <2> QED BY <2>1, <2>2
<1> QED BY <1>4, <1>8 DEF L, old, new

(* With the line feed, or the last byte, the occurrences of a line are all  *)
(* there.                                                                   *)
LEMMA SofarLine ==
    ASSUME NEW b \in Seq(Byte), NEW g, IsGroup(g), NEW n \in 0 .. Len(b) - 1, b[n + 1] = LF
    PROVE  Sofar(g, b, LineOf(b, n + 1), n + 1) = Occurrences(g, b, LineOf(b, n + 1))
<1> DEFINE L == Len(g)
           line == LineOf(b, n + 1)
<1>0. L \in Nat \ {0} /\ Len(b) \in Nat /\ n \in Nat /\ n + 1 <= Len(b)
  BY LimitAssumption DEF IsGroup
<1>1. ASSUME NEW i \in Occurrences(g, b, line) PROVE i + L <= n + 1
  <2>1. i \in 0 .. Len(b) - L /\ Occurs(g, b, i) /\ LineOf(b, i + 1) = line
    BY OccurrencesAre
  <2>2. i \in Nat /\ i + L <= Len(b)
    BY <1>0, <2>1
  <2>3. i < n + 1
    <3> SUFFICES ASSUME n + 1 <= i PROVE FALSE
      BY <1>0, <2>2
    <3> DEFINE m == n + 1
    <3>1. m \in Nat /\ n < m /\ b[m] = LF /\ m <= i
      BY <1>0
    <3> HIDE DEF m
    <3>2. LineOf(b, n + 1) < LineOf(b, m + 1)
      BY <1>0, <3>1, LaterLine
    <3>3. LineOf(b, m + 1) <= LineOf(b, i + 1)
      BY <2>2, <3>1, LineMono
    <3>4. /\ LineOf(b, n + 1) \in Nat /\ LineOf(b, m + 1) \in Nat /\ LineOf(b, i + 1) \in Nat
      BY <1>0, <2>2, <3>1, LineIsNat
    <3> QED BY <2>1, <3>2, <3>3, <3>4
  <2>4. \A k \in i + 1 .. i + L : b[k] # LF
    BY <2>1, <2>2, OccursEnds DEF Occurs
  <2> HIDE DEF L
  <2>5. ~(n + 1 \in i + 1 .. i + L)
    BY <2>4
  <2> QED BY <1>0, <2>2, <2>3, <2>5
<1> QED BY <1>1 DEF Sofar

LEMMA SofarEnd ==
    ASSUME NEW b \in Seq(Byte), NEW g, IsGroup(g), NEW line
    PROVE  Sofar(g, b, line, Len(b)) = Occurrences(g, b, line)
<1>1. Len(b) \in Nat /\ Len(g) \in Nat
  BY LimitAssumption DEF IsGroup
<1>2. \A i \in Occurrences(g, b, line) : i + Len(g) <= Len(b)
  BY <1>1, OccurrencesAre
<1> QED BY <1>2 DEF Sofar

(* ... and a line that begins has none yet.                                 *)
LEMMA SofarNone ==
    ASSUME NEW b \in Seq(Byte), NEW g, IsGroup(g), NEW n \in 0 .. Len(b), n = 0 \/ b[n] = LF
    PROVE  Sofar(g, b, LineOf(b, n + 1), n) = {}
<1> DEFINE L == Len(g)
           line == LineOf(b, n + 1)
<1>0. L \in Nat \ {0} /\ Len(b) \in Nat /\ n \in Nat
  BY LimitAssumption DEF IsGroup
<1>1. ASSUME NEW i \in Occurrences(g, b, line), i + L <= n PROVE FALSE
  <2>1. i \in 0 .. Len(b) - L /\ LineOf(b, i + 1) = line
    BY OccurrencesAre
  <2>2. i \in Nat /\ i < n /\ n # 0
    BY <1>0, <1>1, <2>1
  <2>3. LineOf(b, i + 1) < LineOf(b, n + 1)
    BY <1>0, <2>2, LaterLine
  <2>4. LineOf(b, n + 1) \in Nat
    BY <1>0, LineIsNat
  <2> QED BY <2>1, <2>3, <2>4
<1> QED BY <1>1 DEF Sofar

-----------------------------------------------------------------------------
(* A line that ends is ranked when every group occurs in it.                *)
IsSum(r, counts) ==
    r = [n \in 0 .. Len(counts) |-> IF n = 0 THEN 0 ELSE r[n - 1] + counts[n]]

LEMMA SumIs ==
    ASSUME NEW counts, Len(counts) \in Nat, \A k \in 1 .. Len(counts) : counts[k] \in Nat
    PROVE  SumCounts(counts) \in Nat
<1> DEFINE N == Len(counts)
           r == CHOOSE h : IsSum(h, counts)
           S == {n \in Nat : n <= N => r[n] \in Nat}
<1>0. N \in Nat
  OBVIOUS
<1>1. SumCounts(counts) = r[N]
  BY DEF SumCounts, IsSum
<1>2. \A s, n : Turn("sum", counts, s, n) = s + counts[n]
  BY DEF Turn
<1>3. IsSum(r, counts)
  <2>1. \E h : IsLoop(h, "sum", counts, 0, N)
    BY <1>0, LoopExists
  <2>2. \A h : IsLoop(h, "sum", counts, 0, N) => IsSum(h, counts)
    BY <1>2 DEF IsLoop, IsSum
  <2> QED BY <2>1, <2>2
<1> HIDE DEF r
<1>4. IsLoop(r, "sum", counts, 0, N)
  BY <1>2, <1>3 DEF IsLoop, IsSum
<1>5. \A k \in 1 .. N : counts[k] \in Nat
  OBVIOUS
<1> HIDE DEF N
<1>6. /\ r[0] = 0
      /\ \A n \in 0 .. N - 1 : r[n + 1] = Turn("sum", counts, r[n], n + 1)
  BY ONLY <1>0, <1>4, LoopTurns
<1>7. 0 \in S
  BY <1>6
<1>8. ASSUME NEW n \in Nat, n \in S PROVE n + 1 \in S
  <2> SUFFICES ASSUME n + 1 <= N PROVE r[n + 1] \in Nat
    OBVIOUS
  <2>1. n \in 0 .. N - 1 /\ n <= N /\ n + 1 \in 1 .. N
    BY <1>0
  <2>2. r[n] \in Nat /\ counts[n + 1] \in Nat
    BY <1>5, <1>8, <2>1
  <2>3. r[n + 1] = r[n] + counts[n + 1]
    BY <1>2, <1>6, <2>1
  <2> QED BY <2>2, <2>3
<1>9. \A n \in Nat : n \in S
  <2> HIDE DEF S
  <2> QED BY <1>7, <1>8, Induction
<1> QED BY <1>0, <1>1, <1>9

(* The line as it is ranked, and the lines up to one.                       *)
InLine(b, gs, l) == UNION {Occurrences(gs[k], b, l) : k \in DOMAIN gs}
Scores(b, gs, l) ==
    [k \in DOMAIN gs |-> Min2(Cardinality(Occurrences(gs[k], b, l)), ScoreMax)]
LineCand(b, slot, l, gs) ==
    [slot |-> slot, line |-> l, anchor |-> Least(InLine(b, gs, l)),
     score |-> SumCounts(Scores(b, gs, l))]
Matching(b, gs, l) == \A k \in DOMAIN gs : Occurrences(gs[k], b, l) # {}
Upto(lines, b, slot, gs, m) ==
    lines \cup {LineCand(b, slot, l, gs) : l \in {x \in 1 .. m : Matching(b, gs, x)}}
IsQuery(gs) == IsGroups(gs) /\ Len(gs) \in Nat \ {0}

LEMMA GroupLengths ==
    ASSUME NEW gs, IsQuery(gs)
    PROVE  /\ DOMAIN gs = 1 .. Len(gs) /\ 1 \in DOMAIN gs
           /\ \A k \in DOMAIN gs : IsGroup(gs[k]) /\ Len(gs[k]) \in Nat \ {0}
<1>1. IsGroups(gs) /\ Len(gs) \in Nat \ {0}
  BY DEF IsQuery
<1> DEFINE T == Seq(Byte)
<1>2. gs \in Seq(T) /\ \A k \in DOMAIN gs : IsGroup(gs[k])
  BY <1>1 DEF IsGroups
<1>3. \A k \in DOMAIN gs : Len(gs[k]) \in Nat \ {0}
  BY <1>2, LimitAssumption DEF IsGroup
<1> HIDE DEF T
<1>4. DOMAIN gs = 1 .. Len(gs)
  BY <1>2
<1> QED BY <1>1, <1>2, <1>3, <1>4

LEMMA OccurrencesFinite ==
    ASSUME NEW b \in Seq(Byte), NEW g, IsGroup(g), NEW l
    PROVE  /\ Occurrences(g, b, l) \subseteq 0 .. Len(b)
           /\ IsFiniteSet(Occurrences(g, b, l)) /\ Cardinality(Occurrences(g, b, l)) \in Nat
           /\ Cardinality(Occurrences(g, b, l)) = 0 <=> Occurrences(g, b, l) = {}
<1> DEFINE S == Occurrences(g, b, l)
<1>0. Len(b) \in Nat /\ Len(g) \in Nat
  BY LimitAssumption DEF IsGroup
<1>1. S = Sofar(g, b, l, Len(b))
  BY SofarEnd
<1> HIDE DEF S
<1>2. S \subseteq 0 .. Len(b) /\ IsFiniteSet(S) /\ Cardinality(S) \in Nat
  BY <1>0, <1>1, SofarFinite
<1>3. Cardinality(S) = 0 <=> S = {}
  BY <1>2, FS_EmptySet
<1> QED BY <1>2, <1>3 DEF S

LEMMA CandIs ==
    ASSUME NEW b \in Seq(Byte), NEW slot \in Nat, NEW l \in Nat, NEW gs, IsQuery(gs),
           Matching(b, gs, l)
    PROVE  LineCand(b, slot, l, gs) \in Cand
<1> DEFINE all == InLine(b, gs, l)
           scores == Scores(b, gs, l)
<1>1. DOMAIN gs = 1 .. Len(gs) /\ 1 \in DOMAIN gs /\ Len(gs) \in Nat
      /\ \A k \in DOMAIN gs : IsGroup(gs[k])
  BY GroupLengths DEF IsQuery
<1>2. \A k \in DOMAIN gs : /\ Occurrences(gs[k], b, l) \subseteq 0 .. Len(b)
                           /\ Cardinality(Occurrences(gs[k], b, l)) \in Nat
  BY <1>1, OccurrencesFinite
<1>3. all \subseteq Nat
  BY <1>2 DEF InLine
<1>4. all # {}
  BY <1>1 DEF InLine, Matching
<1> HIDE DEF all
<1>5. Least(all) \in Nat
  BY <1>3, <1>4, LeastExists
<1>6. Len(scores) = Len(gs) /\ \A k \in 1 .. Len(scores) : scores[k] \in Nat
  <2> DEFINE N == Len(gs)
  <2>1. scores = [k \in 1 .. N |-> Min2(Cardinality(Occurrences(gs[k], b, l)), ScoreMax)]
    BY <1>1 DEF Scores
  <2>2. \A k \in 1 .. N : Min2(Cardinality(Occurrences(gs[k], b, l)), ScoreMax) \in Nat
    <3>1. \A x \in Nat : Min2(x, ScoreMax) \in Nat
      BY LimitAssumption DEF Min2
    <3> QED BY <1>1, <1>2, <3>1
  <2> HIDE DEF N, scores
  <2>3. scores \in [1 .. N -> Nat] /\ N \in Nat
    BY <1>1, <2>1, <2>2 DEF N
  <2>4. Len(scores) = N /\ \A k \in 1 .. N : scores[k] \in Nat
    BY <2>3
  <2> QED BY <2>4 DEF N
<1> HIDE DEF scores
<1>7. SumCounts(scores) \in Nat
  <2>1. Len(scores) \in Nat
    BY <1>1, <1>6
  <2> QED BY <1>6, <2>1, SumIs
<1>8. LineCand(b, slot, l, gs) =
         [slot |-> slot, line |-> l, anchor |-> Least(all), score |-> SumCounts(scores)]
  BY DEF LineCand, all, scores
<1> QED BY <1>5, <1>7, <1>8 DEF Cand

LEMMA UptoMore ==
    ASSUME NEW b, NEW slot, NEW gs, NEW lines, NEW l \in Nat \ {0}
    PROVE  Upto(lines, b, slot, gs, l) =
             IF Matching(b, gs, l)
             THEN Upto(lines, b, slot, gs, l - 1) \cup {LineCand(b, slot, l, gs)}
             ELSE Upto(lines, b, slot, gs, l - 1)
<1> DEFINE M(x) == Matching(b, gs, x)
           c(x) == LineCand(b, slot, x, gs)
<1> HIDE DEF M, c
<1>1. /\ Upto(lines, b, slot, gs, l) = lines \cup {c(x) : x \in {y \in 1 .. l : M(y)}}
      /\ Upto(lines, b, slot, gs, l - 1) = lines \cup {c(x) : x \in {y \in 1 .. l - 1 : M(y)}}
  BY DEF Upto, M, c
<1>2. CASE M(l)
  <2>1. {y \in 1 .. l : M(y)} = {y \in 1 .. l - 1 : M(y)} \cup {l}
    <3>1. \A y \in 1 .. l : y \in 1 .. l - 1 \/ y = l
      OBVIOUS
    <3>2. l \in 1 .. l /\ \A y \in 1 .. l - 1 : y \in 1 .. l
      OBVIOUS
    <3> QED BY <1>2, <3>1, <3>2
  <2>2. {c(x) : x \in {y \in 1 .. l : M(y)}} = {c(x) : x \in {y \in 1 .. l - 1 : M(y)}} \cup {c(l)}
    BY <2>1
  <2> QED BY <1>1, <1>2, <2>2 DEF M, c
<1>3. CASE ~M(l)
  <2>1. {y \in 1 .. l : M(y)} = {y \in 1 .. l - 1 : M(y)}
    <3>1. \A y \in 1 .. l : y \in 1 .. l - 1 \/ y = l
      OBVIOUS
    <3>2. \A y \in 1 .. l - 1 : y \in 1 .. l
      OBVIOUS
    <3> QED BY <1>3, <3>1, <3>2
  <2> QED BY <1>1, <1>3, <2>1 DEF M
<1> QED BY <1>2, <1>3

First(A) == IF A = {} THEN {} ELSE {Least(A)}
LineEnds(b, slot, gs, lines, s) ==
    /\ b \in Seq(Byte) /\ slot \in Nat /\ IsQuery(gs) /\ \A d \in lines : d.slot < slot
    /\ s.line \in Nat \ {0} /\ s.counts = Scores(b, gs, s.line)
    /\ s.anchor = First(InLine(b, gs, s.line))
    /\ Ranked(s.rank, Upto(lines, b, slot, gs, s.line - 1))

LEMMA Finalize ==
    ASSUME NEW b, NEW slot, NEW gs, NEW lines, NEW s, LineEnds(b, slot, gs, lines, s)
    PROVE  /\ Ranked(scan_finalize(s, slot), Upto(lines, b, slot, gs, s.line))
           /\ scan_finalize(s, slot).skipped = s.rank.skipped
<1> DEFINE l == s.line
           all == InLine(b, gs, l)
           c == LineCand(b, slot, l, gs)
           before == Upto(lines, b, slot, gs, l - 1)
<1> USE DEF LineEnds, First
<1>1. /\ DOMAIN gs = 1 .. Len(gs) /\ 1 \in DOMAIN gs
      /\ \A k \in DOMAIN gs : IsGroup(gs[k])
  BY GroupLengths
<1>2. DOMAIN s.counts = DOMAIN gs
      /\ \A k \in DOMAIN gs : s.counts[k] = Min2(Cardinality(Occurrences(gs[k], b, l)), ScoreMax)
  BY DEF Scores
<1>3. ASSUME NEW k \in DOMAIN gs
      PROVE  s.counts[k] > 0 <=> Occurrences(gs[k], b, l) # {}
  <2> DEFINE x == Cardinality(Occurrences(gs[k], b, l))
  <2>1. x \in Nat /\ (x = 0 <=> Occurrences(gs[k], b, l) = {})
    BY <1>1, OccurrencesFinite
  <2>2. s.counts[k] = Min2(x, ScoreMax)
    BY <1>2
  <2> HIDE DEF x
  <2>3. Min2(x, ScoreMax) > 0 <=> x # 0
    BY <2>1, LimitAssumption DEF Min2
  <2> QED BY <2>1, <2>2, <2>3
<1>4. (\A k \in DOMAIN s.counts : s.counts[k] > 0) <=> Matching(b, gs, l)
  BY <1>2, <1>3 DEF Matching
<1>5. CASE ~Matching(b, gs, l)
  <2>1. scan_finalize(s, slot) = s.rank
    BY <1>4, <1>5 DEF scan_finalize
  <2>2. Upto(lines, b, slot, gs, l) = before
    BY <1>5, UptoMore
  <2> QED BY <2>1, <2>2
<1>6. CASE Matching(b, gs, l)
  <2>1. all # {}
    <3>1. Occurrences(gs[1], b, l) # {} /\ 1 \in DOMAIN gs
      BY <1>1, <1>6 DEF Matching
    <3>2. PICK i : i \in Occurrences(gs[1], b, l)
      BY <3>1
    <3>3. i \in all
      BY <3>1, <3>2 DEF InLine
    <3> QED BY <3>3
  <2>2. s.anchor = {Least(all)}
    BY <2>1
  <2> HIDE DEF all
  <2>3. Least(s.anchor) = Least(all)
    <3>1. all \subseteq Nat
      BY <1>1, OccurrencesFinite DEF all, InLine
    <3>2. Least(all) \in Nat
      BY <2>1, <3>1, LeastExists
    <3> DEFINE x == Least(all)
    <3> HIDE DEF x
    <3>3. {x} \subseteq Int /\ x \in {x} /\ \A y \in {x} : x <= y
      BY <3>2 DEF x
    <3>4. Least({x}) = x
      BY <3>3, LeastIs
    <3> QED BY <2>2, <3>4 DEF x
  <2>4. scan_finalize(s, slot) = rank_add(s.rank, c)
    BY <1>4, <1>6, <2>3 DEF scan_finalize, LineCand, all
  <2>5. c \in Cand
    BY <1>6, CandIs
  <2>6. ASSUME NEW d \in before PROVE Later(c, d)
    <3>1. c.slot = slot /\ c.line = l
      BY DEF LineCand
    <3>2. CASE d \in lines
      BY <3>1, <3>2 DEF Later
    <3>3. CASE d \notin lines
      <4>1. PICK x \in 1 .. l - 1 : d = LineCand(b, slot, x, gs)
        BY <3>3 DEF Upto
      <4>2. d.slot = slot /\ d.line = x
        BY <4>1 DEF LineCand
      <4> QED BY <3>1, <4>2 DEF Later
    <3> QED BY <3>2, <3>3
  <2>7. Upto(lines, b, slot, gs, l) = before \cup {c}
    BY <1>6, UptoMore
  <2> HIDE DEF before, c, l
  <2>8. Ranked(s.rank, before)
    BY DEF before, l
  <2>9. /\ Ranked(rank_add(s.rank, c), before \cup {c})
        /\ rank_add(s.rank, c).skipped = s.rank.skipped
    BY ONLY <2>5, <2>6, <2>8, RankAdd
  <2> QED BY <2>4, <2>7, <2>9 DEF l
<1> QED BY <1>5, <1>6

-----------------------------------------------------------------------------
(* The ring remembers whether each of the last bytes belongs to a word.     *)
LEMMA Apart ==
    \A R \in Nat \ {0} : \A x, y \in Nat : x < y /\ y - x < R => x % R # y % R
<1> TAKE R \in Nat \ {0}
<1> TAKE x, y \in Nat
<1> SUFFICES ASSUME x < y, y - x < R, x % R = y % R PROVE FALSE
  OBVIOUS
<1> DEFINE p == x \div R
           q == y \div R
           r == x % R
<1>1. p \in Int /\ q \in Int /\ r \in Int /\ x = R * p + r /\ y = R * q + r
  OBVIOUS
<1> HIDE DEF p, q, r
<1> DEFINE d == q - p
<1>2. d \in Int /\ R \in Int /\ R > 0
  BY <1>1
<1>3. y - x = R * d
  BY <1>1
<1> HIDE DEF d
<1>4. d >= 1
  <2>1. R * d > 0
    BY <1>3
  <2>2. ASSUME d <= 0 PROVE FALSE
    <3>1. R * d <= R * 0
      BY ONLY <1>2, <2>2, SMT
    <3> QED BY <1>2, <2>1, <3>1
  <2> QED BY <1>2, <2>2
<1>5. R * d >= R * 1
  BY ONLY <1>2, <1>4, SMT
<1> QED BY <1>2, <1>3, <1>5

History(ring, b, n) ==
    /\ DOMAIN ring = 0 .. Ring - 1
    /\ \A j \in 0 .. n - 1 : n - j <= Ring => ring[j % Ring] = is_ascii_word(b[j + 1])

LEMMA HistoryMore ==
    ASSUME NEW b, NEW n \in Nat, NEW ring, History(ring, b, n)
    PROVE  History([ring EXCEPT ![n % Ring] = is_ascii_word(b[n + 1])], b, n + 1)
<1> DEFINE h == [ring EXCEPT ![n % Ring] = is_ascii_word(b[n + 1])]
<1>0. Ring \in Nat \ {0}
  BY LimitAssumption
<1>1. /\ DOMAIN ring = 0 .. Ring - 1
      /\ \A j \in 0 .. n - 1 : n - j <= Ring => ring[j % Ring] = is_ascii_word(b[j + 1])
  BY DEF History
<1>2. \A j \in Nat : j % Ring \in 0 .. Ring - 1
  BY <1>0
<1>3. DOMAIN h = 0 .. Ring - 1
  BY <1>1
<1>4. ASSUME NEW j \in 0 .. n + 1 - 1, n + 1 - j <= Ring
      PROVE  h[j % Ring] = is_ascii_word(b[j + 1])
  <2>1. j \in Nat /\ (j = n \/ j < n)
    OBVIOUS
  <2>2. CASE j = n
    BY <1>1, <1>2, <2>2
  <2>3. CASE j < n
    <3>1. n - j < Ring /\ n - j <= Ring /\ j \in 0 .. n - 1
      BY <1>0, <1>4, <2>1, <2>3
    <3>2. j % Ring # n % Ring
      BY ONLY <1>0, <2>1, <2>3, <3>1, n \in Nat, Apart
    <3>3. h[j % Ring] = ring[j % Ring]
      BY <1>1, <1>2, <2>1, <3>2
    <3> QED BY <1>1, <3>1, <3>3
  <2> QED BY <2>1, <2>2, <2>3
<1> QED BY <1>3, <1>4 DEF History

(* A group ends at a byte as a whole word exactly when the automaton, the   *)
(* ring and the byte after it say so.                                       *)
LEMMA HitIs ==
    ASSUME NEW b \in Seq(Byte), NEW n \in 0 .. Len(b) - 1, NEW g, IsGroup(g), NEW k,
           IsLongest(g, k, Fold(b), n), NEW ring, History(ring, b, n + 1), NEW next,
           next = IF n + 1 < Len(b) THEN b[n + 2] ELSE Eof
    PROVE  LET i == n - Len(g) + 1
               q == next_state(g, prefix_table(g), k, ascii_fold(b[n + 1]))
           IN  /\ (/\ q = Len(g)
                   /\ ~(is_ascii_word(g[1]) /\ i > 0 /\ ring[(i - 1) % Ring])
                   /\ ~(is_ascii_word(g[Len(g)]) /\ next # Eof /\ is_ascii_word(next)))
                  <=> i \in Nat /\ Occurs(g, b, i)
               /\ IsLongest(g, after_match(g, prefix_table(g), q), Fold(b), n + 1)
<1> DEFINE L == Len(g)
           w == Fold(b)
           i == n - L + 1
           q == next_state(g, prefix_table(g), k, ascii_fold(b[n + 1]))
<1>0. /\ L \in Nat \ {0} /\ Len(b) \in Nat /\ n \in Nat /\ n + 1 <= Len(b) /\ L + 1 <= Ring
      /\ i \in Int /\ i + L = n + 1 /\ Ring \in Nat
  BY LimitAssumption DEF IsGroup
<1>1. q = Found(g, k, w[n + 1])
  <2>1. n + 1 \in DOMAIN b
    BY <1>0
  <2> QED BY <2>1 DEF Found, Fold
<1>2. /\ q = L <=> Ends(g, L, w, n + 1)
      /\ IsLongest(g, after_match(g, prefix_table(g), q), w, n + 1)
  <2> HIDE DEF q, w
  <2> QED BY ONLY <1>0, <1>1, OneByte, IsLongest(g, k, Fold(b), n) DEF w, L
<1> HIDE DEF q
<1>3. Ends(g, L, w, n + 1) => i \in Nat
  BY <1>0 DEF Ends
<1>4. ASSUME i \in Nat
      PROVE  Fold(SubSeq(b, i + 1, i + L)) = g <=> Ends(g, L, w, n + 1)
  <2>1. i + L <= Len(b)
    BY <1>0
  <2> QED BY <1>0, <1>4, <2>1, OccursEnds
<1>5. ASSUME i \in Nat, i > 0
      PROVE  ring[(i - 1) % Ring] = is_ascii_word(b[i]) /\ i \in DOMAIN b
  <2> DEFINE j == i - 1
  <2>1. j \in 0 .. n + 1 - 1 /\ n + 1 - j <= Ring /\ j + 1 = i /\ i \in 1 .. Len(b)
    BY <1>0, <1>5
  <2> HIDE DEF j
  <2>2. ring[j % Ring] = is_ascii_word(b[j + 1])
    BY <2>1 DEF History
  <2> QED BY <2>1, <2>2 DEF j
<1>6. ASSUME i \in Nat
      PROVE  (i > 0 /\ ring[(i - 1) % Ring]) <=> WordAt(b, i)
  <2>1. CASE i > 0
    BY <1>5, <1>6, <2>1 DEF WordAt
  <2>2. CASE ~(i > 0)
    <3>1. i \notin DOMAIN b
      BY <1>0, <1>6, <2>2
    <3> QED BY <2>2, <3>1 DEF WordAt
  <2> QED BY <2>1, <2>2
<1>7. (next # Eof /\ is_ascii_word(next)) <=> WordAt(b, i + L + 1)
  <2>0. i + L + 1 = n + 2
    BY <1>0
  <2>1. CASE n + 1 < Len(b)
    <3>1. n + 2 \in 1 .. Len(b)
      BY <1>0, <2>1
    <3>2. n + 2 \in DOMAIN b /\ b[n + 2] \in Byte
      <4> HIDE DEF Byte
      <4> QED BY <3>1
    <3>3. next = b[n + 2]
      BY <2>1
    <3>4. next # Eof
      <4>1. next \in Byte
        BY <3>2, <3>3
      <4> QED BY ONLY <4>1 DEF Eof, Byte
    <3> QED BY <2>0, <3>2, <3>3, <3>4 DEF WordAt
  <2>2. CASE ~(n + 1 < Len(b))
    <3>1. n + 2 \notin DOMAIN b
      BY <1>0, <2>2
    <3> QED BY <2>0, <2>2, <3>1 DEF WordAt
  <2> QED BY <2>1, <2>2
<1>8. i \in Nat => i \in 0 .. Len(b) - L
  BY <1>0
<1> HIDE DEF i, L, w
<1>9. (/\ q = L
       /\ ~(is_ascii_word(g[1]) /\ i > 0 /\ ring[(i - 1) % Ring])
       /\ ~(is_ascii_word(g[L]) /\ next # Eof /\ is_ascii_word(next)))
      <=> i \in Nat /\ Occurs(g, b, i)
  <2>1. CASE i \in Nat
    <3>1. Occurs(g, b, i) <=>
            /\ Fold(SubSeq(b, i + 1, i + L)) = g
            /\ is_ascii_word(g[1]) => ~WordAt(b, i)
            /\ is_ascii_word(g[L]) => ~WordAt(b, i + L + 1)
      BY <1>8, <2>1 DEF Occurs, L
    <3> QED BY <1>2, <1>4, <1>6, <1>7, <2>1, <3>1
  <2>2. CASE i \notin Nat
    BY <1>2, <1>3, <2>2
  <2> QED BY <2>1, <2>2
<1> QED BY <1>2, <1>9 DEF i, q, L, w

(* The first of the occurrences found so far.                               *)
LEMMA FirstOfBoth ==
    ASSUME NEW A, NEW B, A \subseteq Nat, B \subseteq Nat
    PROVE  First(First(A) \cup B) = First(A \cup B)
<1>1. CASE A = {}
  BY <1>1 DEF First
<1>2. CASE A # {}
  <2> DEFINE a == Least(A)
             C == {a} \cup B
             D == A \cup B
             d == Least(C)
  <2>1. a \in A /\ \A y \in A : a <= y
    BY <1>2, LeastExists
  <2> HIDE DEF a
  <2>2. C \subseteq Nat /\ C # {} /\ D # {} /\ D \subseteq Int
    BY <1>2, <2>1
  <2>3. d \in C /\ \A y \in C : d <= y
    <3> HIDE DEF C
    <3> QED BY <2>2, LeastExists
  <2> HIDE DEF d
  <2>4. d \in D /\ \A y \in D : d <= y
    <3>1. d \in D
      BY <2>1, <2>3
    <3>2. ASSUME NEW y \in A PROVE d <= y
      <4>1. d <= a /\ a <= y /\ d \in Nat /\ a \in Nat /\ y \in Nat
        BY <2>1, <2>2, <2>3
      <4> QED BY <4>1
    <3>3. \A y \in B : d <= y
      BY <2>3
    <3> QED BY <3>1, <3>2, <3>3
  <2> HIDE DEF D
  <2>5. Least(D) = d
    BY <2>2, <2>4, LeastIs
  <2>6. First(A) = {a} /\ First(D) = {d} /\ First(C) = {d}
    BY <1>2, <2>2, <2>5 DEF First, a, d
  <2> QED BY <2>6 DEF D
<1> QED BY <1>1, <1>2

(* A count that stops at its greatest value.                                *)
LEMMA CountMore ==
    ASSUME NEW S, IsFiniteSet(S), NEW i, i \notin S
    PROVE  Min2(Cardinality(S \cup {i}), ScoreMax) =
               Min2(Min2(Cardinality(S), ScoreMax) + 1, ScoreMax)
<1>1. Cardinality(S \cup {i}) = Cardinality(S) + 1 /\ Cardinality(S) \in Nat
  BY FS_AddElement, FS_CardinalityType
<1> QED BY <1>1, LimitAssumption DEF Min2

-----------------------------------------------------------------------------
(* The scan of a text after n bytes, in one of its lines.                   *)
Seen(b, gs, line, n) == UNION {Sofar(gs[k], b, line, n) : k \in DOMAIN gs}
Counted(b, gs, line, n) ==
    [k \in DOMAIN gs |-> Min2(Cardinality(Sofar(gs[k], b, line, n)), ScoreMax)]
HasRead(s, b, gs, line, n) ==
    /\ s.pos = n /\ s.line = line
    /\ s.counts = Counted(b, gs, line, n) /\ s.anchor = First(Seen(b, gs, line, n))
    /\ \A k \in DOMAIN gs : IsLongest(gs[k], s.state[k], Fold(b), n)
    /\ History(s.ring, b, n)

AfterByte(pat, s, b, next) ==
    LET ring == [s.ring EXCEPT ![s.pos % Ring] = is_ascii_word(b)]
        state == [k \in DOMAIN pat |->
                    next_state(pat[k].text, pat[k].prefix, s.state[k], ascii_fold(b))]
        start(k) == s.pos - Len(pat[k].text) + 1
        Full == {k \in DOMAIN pat : state[k] = Len(pat[k].text)}
        Hits == {k \in Full :
                    /\ ~(pat[k].left /\ start(k) > 0 /\ ring[(start(k) - 1) % Ring])
                    /\ ~(pat[k].right /\ next # Eof /\ is_ascii_word(next))}
        all == s.anchor \cup {start(k) : k \in Hits}
    IN  [pos |-> s.pos + 1, line |-> s.line, active |-> TRUE, ring |-> ring,
         state |-> [k \in DOMAIN pat |-> after_match(pat[k].text, pat[k].prefix, state[k])],
         counts |-> [k \in DOMAIN pat |->
                       IF k \in Hits THEN Min2(s.counts[k] + 1, ScoreMax) ELSE s.counts[k]],
         anchor |-> IF all = {} THEN {} ELSE {Least(all)},
         pending |-> s.pending, rank |-> s.rank]
AfterFeed(t, pat, slot) ==
    [t EXCEPT !.rank = scan_finalize(t, slot), !.line = @ + 1,
              !.counts = [k \in DOMAIN pat |-> 0], !.anchor = {}, !.active = FALSE]

LEMMA ScanByteIs ==
    ASSUME NEW pat, NEW slot, NEW s, NEW b, NEW next
    PROVE  scan_byte(pat, slot, s, b, next) =
             IF b # LF THEN AfterByte(pat, s, b, next)
             ELSE AfterFeed(AfterByte(pat, s, b, next), pat, slot)
BY DEF scan_byte, AfterByte, AfterFeed

LEMMA PatternIs ==
    ASSUME NEW gs
    PROVE  LET pat == pattern_build(gs)
           IN  /\ DOMAIN pat = DOMAIN gs
               /\ \A k \in DOMAIN gs :
                     /\ pat[k].text = gs[k] /\ pat[k].prefix = prefix_table(gs[k])
                     /\ pat[k].left = is_ascii_word(gs[k][1])
                     /\ pat[k].right = is_ascii_word(gs[k][Len(gs[k])])
BY DEF pattern_build

IsState(t) ==
    DOMAIN t = {"pos", "line", "active", "ring", "state", "counts", "anchor", "pending", "rank"}
CanRead(b, n, gs, s, next) ==
    /\ b \in Seq(Byte) /\ n \in 0 .. Len(b) - 1 /\ IsQuery(gs)
    /\ HasRead(s, b, gs, LineOf(b, n + 1), n)
    /\ next = IF n + 1 < Len(b) THEN b[n + 2] ELSE Eof

LEMMA ByteIsRead ==
    ASSUME NEW b, NEW n, NEW gs, NEW s, NEW next, CanRead(b, n, gs, s, next)
    PROVE  LET t == AfterByte(pattern_build(gs), s, b[n + 1], next)
           IN  /\ HasRead(t, b, gs, LineOf(b, n + 1), n + 1)
               /\ t.active = TRUE /\ t.rank = s.rank /\ t.pending = s.pending /\ IsState(t)
<1> USE DEF CanRead
<1> DEFINE pat == pattern_build(gs)
           x == b[n + 1]
           line == LineOf(b, n + 1)
           t == AfterByte(pat, s, x, next)
           ring == [s.ring EXCEPT ![n % Ring] = is_ascii_word(x)]
           q(k) == next_state(gs[k], prefix_table(gs[k]), s.state[k], ascii_fold(x))
           i(k) == n - Len(gs[k]) + 1
           hit(k) == i(k) \in Nat /\ Occurs(gs[k], b, i(k))
           old(k) == Sofar(gs[k], b, line, n)
           new(k) == Sofar(gs[k], b, line, n + 1)
           H == {k \in DOMAIN gs : hit(k)}
<1>0. \A k \in DOMAIN gs : IsGroup(gs[k]) /\ Len(gs[k]) \in Nat \ {0}
  BY GroupLengths
<1>1. /\ s.pos = n /\ s.line = line
      /\ s.counts = Counted(b, gs, line, n) /\ s.anchor = First(Seen(b, gs, line, n))
      /\ \A k \in DOMAIN gs : IsLongest(gs[k], s.state[k], Fold(b), n)
      /\ History(s.ring, b, n)
  BY DEF HasRead
<1>2. /\ DOMAIN pat = DOMAIN gs
      /\ \A k \in DOMAIN gs :
            /\ pat[k].text = gs[k] /\ pat[k].prefix = prefix_table(gs[k])
            /\ pat[k].left = is_ascii_word(gs[k][1])
            /\ pat[k].right = is_ascii_word(gs[k][Len(gs[k])])
  BY PatternIs
<1>3. History(ring, b, n + 1)
  BY <1>1, HistoryMore
<1> HIDE DEF pat, ring
<1>4. ASSUME NEW k \in DOMAIN gs
      PROVE  /\ (/\ q(k) = Len(gs[k])
                 /\ ~(is_ascii_word(gs[k][1]) /\ i(k) > 0 /\ ring[(i(k) - 1) % Ring])
                 /\ ~(is_ascii_word(gs[k][Len(gs[k])]) /\ next # Eof /\ is_ascii_word(next)))
                <=> hit(k)
             /\ IsLongest(gs[k], after_match(gs[k], prefix_table(gs[k]), q(k)), Fold(b), n + 1)
  BY <1>0, <1>1, <1>3, HitIs
<1>5. ASSUME NEW k \in DOMAIN gs
      PROVE  new(k) = (IF hit(k) THEN old(k) \cup {i(k)} ELSE old(k)) /\ i(k) \notin old(k)
  <2>1. n + 1 - Len(gs[k]) = i(k)
    BY <1>0
  <2> QED BY <1>0, <2>1, SofarMore
<1>6. ASSUME NEW k \in DOMAIN gs PROVE old(k) \subseteq Nat /\ IsFiniteSet(old(k))
  BY <1>0, SofarFinite
<1> HIDE DEF q, i, hit, old, new, x, line
<1> DEFINE start(k) == s.pos - Len(pat[k].text) + 1
           state == [k \in DOMAIN pat |->
                       next_state(pat[k].text, pat[k].prefix, s.state[k], ascii_fold(x))]
           Hits == {k \in {k \in DOMAIN pat : state[k] = Len(pat[k].text)} :
                    /\ ~(pat[k].left /\ start(k) > 0 /\ ring[(start(k) - 1) % Ring])
                    /\ ~(pat[k].right /\ next # Eof /\ is_ascii_word(next))}
           all == s.anchor \cup {start(k) : k \in Hits}
<1>7. t = [pos |-> n + 1, line |-> line, active |-> TRUE, ring |-> ring,
           state |-> [k \in DOMAIN pat |-> after_match(pat[k].text, pat[k].prefix, state[k])],
           counts |-> [k \in DOMAIN pat |->
                         IF k \in Hits THEN Min2(s.counts[k] + 1, ScoreMax) ELSE s.counts[k]],
           anchor |-> First(all), pending |-> s.pending, rank |-> s.rank]
  BY <1>1 DEF AfterByte, ring, First
<1>8. \A k \in DOMAIN gs : start(k) = i(k) /\ state[k] = q(k)
  BY <1>1, <1>2 DEF i, q
<1> HIDE DEF start, state
<1>9. Hits = H
  BY <1>2, <1>4, <1>8
<1> HIDE DEF Hits
<1>10. t.counts = Counted(b, gs, line, n + 1)
  <2>1. ASSUME NEW k \in DOMAIN gs
        PROVE  (IF k \in H THEN Min2(s.counts[k] + 1, ScoreMax) ELSE s.counts[k])
                  = Min2(Cardinality(new(k)), ScoreMax)
    <3>1. s.counts[k] = Min2(Cardinality(old(k)), ScoreMax)
      BY <1>1 DEF Counted, old
    <3>2. CASE hit(k)
      <4>1. new(k) = old(k) \cup {i(k)}
        BY <1>5, <3>2
      <4>2. Min2(Cardinality(old(k) \cup {i(k)}), ScoreMax)
               = Min2(Min2(Cardinality(old(k)), ScoreMax) + 1, ScoreMax)
        BY <1>5, <1>6, CountMore
      <4> QED BY <3>1, <3>2, <4>1, <4>2
    <3>3. CASE ~hit(k)
      BY <1>5, <3>1, <3>3
    <3> QED BY <3>2, <3>3
  <2>2. t.counts = [k \in DOMAIN gs |->
                       IF k \in H THEN Min2(s.counts[k] + 1, ScoreMax) ELSE s.counts[k]]
    BY <1>2, <1>7, <1>9, SMTT(30)
  <2>3. Counted(b, gs, line, n + 1) = [k \in DOMAIN gs |-> Min2(Cardinality(new(k)), ScoreMax)]
    BY DEF Counted, new
  <2> HIDE DEF H, t
  <2> QED BY <2>1, <2>2, <2>3
<1>11. t.anchor = First(Seen(b, gs, line, n + 1))
  <2> DEFINE A == Seen(b, gs, line, n)
             B == {i(k) : k \in H}
  <2>1. A = UNION {old(k) : k \in DOMAIN gs}
    BY DEF Seen, old
  <2>2. Seen(b, gs, line, n + 1) = UNION {new(k) : k \in DOMAIN gs}
    BY DEF Seen, new
  <2>3. A \subseteq Nat /\ B \subseteq Nat
    BY <1>6, <2>1 DEF hit
  <2>4. Seen(b, gs, line, n + 1) = A \cup B
    <3>1. ASSUME NEW y \in A \cup B PROVE \E k \in DOMAIN gs : y \in new(k)
      BY <1>5, <2>1
    <3>2. ASSUME NEW k \in DOMAIN gs, NEW y \in new(k) PROVE y \in A \cup B
      BY <1>5, <2>1
    <3> QED BY <2>2, <3>1, <3>2
  <2>5. {start(k) : k \in Hits} = B
    BY <1>8, <1>9
  <2>6. t.anchor = First(all)
    <3> HIDE DEF all, t
    <3> QED BY <1>7
  <2> HIDE DEF B, t
  <2>7. s.anchor = First(A)
    BY <1>1
  <2> HIDE DEF A
  <2>8. all = First(A) \cup B
    BY <2>5, <2>7
  <2> HIDE DEF all
  <2> QED BY <2>3, <2>4, <2>6, <2>8, FirstOfBoth, ZenonT(40)
<1>12. \A k \in DOMAIN gs : IsLongest(gs[k], t.state[k], Fold(b), n + 1)
  <2>1. \A k \in DOMAIN gs :
           t.state[k] = after_match(gs[k], prefix_table(gs[k]), q(k))
    BY <1>2, <1>7, <1>8, SMTT(30)
  <2> QED BY <1>4, <2>1
<1>13. t.pos = n + 1 /\ t.line = line /\ t.ring = ring
  BY <1>7
<1>14. HasRead(t, b, gs, line, n + 1)
  <2> HIDE DEF t
  <2> QED BY <1>3, <1>10, <1>11, <1>12, <1>13 DEF HasRead
<1>15. t.active = TRUE /\ t.rank = s.rank /\ t.pending = s.pending /\ IsState(t)
  BY <1>7 DEF IsState
<1> QED BY <1>14, <1>15 DEF t, x, line, pat

-----------------------------------------------------------------------------
(* The scan of a text after n bytes: the lines that have ended are ranked.  *)
Scanned(s, b, gs, slot, n, lines, z) ==
    /\ IsState(s) /\ HasRead(s, b, gs, LineOf(b, n + 1), n)
    /\ IF n = 0 \/ b[n] = LF THEN s.active = FALSE ELSE s.active = TRUE
    /\ Ranked(s.rank, Upto(lines, b, slot, gs, LineOf(b, n + 1) - 1))
    /\ s.rank.skipped = z

Zeros(D) == [k \in D |-> 0]
LEMMA NothingCounted ==
    ASSUME NEW b, NEW gs, NEW line, NEW n, \A k \in DOMAIN gs : Sofar(gs[k], b, line, n) = {}
    PROVE  /\ Counted(b, gs, line, n) = Zeros(DOMAIN gs)
           /\ First(Seen(b, gs, line, n)) = {}
<1>1. Cardinality({}) = 0 /\ Min2(0, ScoreMax) = 0
  BY FS_EmptySet, LimitAssumption DEF Min2
<1>2. Counted(b, gs, line, n) = Zeros(DOMAIN gs)
  BY <1>1 DEF Counted, Zeros
<1>3. Seen(b, gs, line, n) = {}
  BY DEF Seen
<1> QED BY <1>2, <1>3 DEF First

LEMMA ScanStarts ==
    ASSUME NEW b \in Seq(Byte), NEW gs, IsQuery(gs), NEW slot, NEW rank, NEW lines,
           Ranked(rank, lines)
    PROVE  /\ Scanned(scan_start(pattern_build(gs), rank), b, gs, slot, 0, lines, rank.skipped)
           /\ scan_start(pattern_build(gs), rank).pending = <<>>
<1> DEFINE pat == pattern_build(gs)
           s == scan_start(pat, rank)
<1>1. s = [pos |-> 0, line |-> 1, counts |-> Zeros(DOMAIN gs),
           state |-> [k \in DOMAIN gs |-> 0], anchor |-> {}, active |-> FALSE,
           ring |-> [i \in 0 .. Ring - 1 |-> FALSE], pending |-> <<>>, rank |-> rank]
  BY PatternIs DEF scan_start, Zeros
<1> HIDE DEF pat
<1>2. LineOf(b, 0 + 1) = 1
  <2>1. Feeds(b, 0) = {}
    BY DEF Feeds
  <2>2. LineOf(b, 0 + 1) = 1 + 0
    BY <2>1, LineOfIs, FS_EmptySet
  <2> QED BY <2>2
<1>3. \A k \in DOMAIN gs : IsGroup(gs[k]) /\ Len(gs[k]) \in Nat \ {0}
  BY GroupLengths
<1>4. \A k \in DOMAIN gs : Sofar(gs[k], b, 1, 0) = {}
  <2>1. 0 \in 0 .. Len(b)
    OBVIOUS
  <2> QED BY <1>2, <1>3, <2>1, SofarNone
<1>5. /\ Counted(b, gs, 1, 0) = Zeros(DOMAIN gs)
      /\ First(Seen(b, gs, 1, 0)) = {}
  BY <1>4, NothingCounted
<1>6. ASSUME NEW k \in DOMAIN gs PROVE IsLongest(gs[k], s.state[k], Fold(b), 0)
  <2>1. s.state[k] = 0
    BY <1>1
  <2>2. Ends(gs[k], 0, Fold(b), 0) /\ \A i \in Nat : Ends(gs[k], i, Fold(b), 0) => i <= 0
    BY DEF Ends
  <2> HIDE DEF s
  <2> QED BY <1>3, <2>1, <2>2 DEF IsLongest
<1>7. History(s.ring, b, 0)
  BY <1>1 DEF History
<1>8. HasRead(s, b, gs, 1, 0)
  <2>1. s.pos = 0 /\ s.line = 1 /\ s.counts = Zeros(DOMAIN gs) /\ s.anchor = {}
    BY <1>1
  <2> HIDE DEF s
  <2> QED BY <1>5, <1>6, <1>7, <2>1 DEF HasRead
<1>9. Upto(lines, b, slot, gs, LineOf(b, 0 + 1) - 1) = lines
  BY <1>2 DEF Upto
<1>10. s.active = FALSE /\ s.rank = rank /\ s.pending = <<>> /\ IsState(s)
  BY <1>1 DEF IsState
<1> HIDE DEF s
<1>11. Scanned(s, b, gs, slot, 0, lines, rank.skipped)
  BY <1>2, <1>8, <1>9, <1>10 DEF Scanned
<1> QED BY <1>10, <1>11 DEF s, pat

LEMMA FeedIs ==
    ASSUME NEW t, NEW pat, NEW slot, IsState(t)
    PROVE  LET u == AfterFeed(t, pat, slot)
           IN  /\ u.pos = t.pos /\ u.ring = t.ring /\ u.state = t.state
               /\ u.pending = t.pending /\ u.line = t.line + 1 /\ u.active = FALSE
               /\ u.counts = Zeros(DOMAIN pat) /\ u.anchor = {}
               /\ u.rank = scan_finalize(t, slot) /\ IsState(u)
<1> DEFINE r == scan_finalize(t, slot)
           c == Zeros(DOMAIN pat)
           v == [t EXCEPT !.rank = r, !.line = @ + 1, !.counts = c]
           u == [v EXCEPT !.anchor = {}, !.active = FALSE]
<1> HIDE DEF r, c
<1>1. AfterFeed(t, pat, slot) = u
  BY DEF AfterFeed, r, c, Zeros
<1>2. /\ v.pos = t.pos /\ v.ring = t.ring /\ v.state = t.state /\ v.pending = t.pending
      /\ v.line = t.line + 1 /\ v.counts = c /\ v.rank = r /\ IsState(v)
  BY DEF IsState
<1> HIDE DEF v
<1>3. /\ u.pos = v.pos /\ u.ring = v.ring /\ u.state = v.state /\ u.pending = v.pending
      /\ u.line = v.line /\ u.counts = v.counts /\ u.rank = v.rank
      /\ u.anchor = {} /\ u.active = FALSE /\ IsState(u)
  BY <1>2 DEF IsState
<1> HIDE DEF u
<1> QED BY <1>1, <1>2, <1>3 DEF r, c

LEMMA ByteIsReadThere ==
    \A b, n, gs, s, next, m, x, line :
        CanRead(b, n, gs, s, next) /\ m = n + 1 /\ x = b[n + 1] /\ line = LineOf(b, n + 1) =>
            LET t == AfterByte(pattern_build(gs), s, x, next)
            IN  /\ HasRead(t, b, gs, line, m)
                /\ t.active = TRUE /\ t.rank = s.rank /\ t.pending = s.pending /\ IsState(t)
<1> TAKE b, n, gs, s, next, m, x, line
<1> HAVE CanRead(b, n, gs, s, next) /\ m = n + 1 /\ x = b[n + 1] /\ line = LineOf(b, n + 1)
<1>1. LET t == AfterByte(pattern_build(gs), s, b[n + 1], next)
      IN  /\ HasRead(t, b, gs, LineOf(b, n + 1), n + 1)
          /\ t.active = TRUE /\ t.rank = s.rank /\ t.pending = s.pending /\ IsState(t)
  BY ByteIsRead
<1> QED BY <1>1

LEMMA ScanSteps ==
    ASSUME NEW b \in Seq(Byte), NEW n \in 0 .. Len(b) - 1, NEW gs, IsQuery(gs),
           NEW slot \in Nat, NEW lines, \A d \in lines : d.slot < slot, NEW z, NEW s,
           Scanned(s, b, gs, slot, n, lines, z), NEW next,
           next = IF n + 1 < Len(b) THEN b[n + 2] ELSE Eof
    PROVE  LET u == scan_byte(pattern_build(gs), slot, s, b[n + 1], next)
           IN  Scanned(u, b, gs, slot, n + 1, lines, z) /\ u.pending = s.pending
<1> DEFINE pat == pattern_build(gs)
           x == b[n + 1]
           line == LineOf(b, n + 1)
           t == AfterByte(pat, s, x, next)
           u == scan_byte(pat, slot, s, x, next)
<1>0. /\ n \in Nat /\ n + 1 \in 1 .. Len(b) /\ line \in Nat /\ line >= 1
      /\ \A k \in DOMAIN gs : IsGroup(gs[k])
      /\ DOMAIN pat = DOMAIN gs
  <2>1. n \in Nat /\ n + 1 \in 1 .. Len(b)
    OBVIOUS
  <2> QED BY <2>1, LineIsNat, GroupLengths, PatternIs
<1>1. /\ HasRead(s, b, gs, line, n)
      /\ Ranked(s.rank, Upto(lines, b, slot, gs, line - 1)) /\ s.rank.skipped = z
  BY DEF Scanned
<1>2. /\ HasRead(t, b, gs, line, n + 1)
      /\ t.active = TRUE /\ t.rank = s.rank /\ t.pending = s.pending /\ IsState(t)
  <2>1. CanRead(b, n, gs, s, next)
    BY <1>1 DEF CanRead
  <2> DEFINE m == n + 1
  <2>2. m = n + 1 /\ x = b[n + 1] /\ line = LineOf(b, n + 1)
    OBVIOUS
  <2> HIDE DEF m, x, line
  <2>3. /\ HasRead(t, b, gs, line, m)
        /\ t.active = TRUE /\ t.rank = s.rank /\ t.pending = s.pending /\ IsState(t)
    BY ONLY <2>1, <2>2, ByteIsReadThere DEF t, pat
  <2> QED BY <2>3 DEF m
<1>3. u = IF x # LF THEN t ELSE AfterFeed(t, pat, slot)
  BY ScanByteIs
<1> HIDE DEF t, u, pat
<1>4. CASE x # LF
  <2>1. LineOf(b, n + 1 + 1) = line
    <3> DEFINE j == n + 1
    <3>1. j \in Nat /\ n <= j /\ \A k \in n + 1 .. j : b[k] # LF
      BY <1>0, <1>4
    <3> HIDE DEF j
    <3>2. LineOf(b, n + 1) = LineOf(b, j + 1)
      BY <1>0, <3>1, SameLine
    <3> QED BY <3>2 DEF j
  <2>2. u = t
    BY <1>3, <1>4
  <2> HIDE DEF line
  <2>3. u.active = TRUE /\ u.rank = s.rank /\ HasRead(u, b, gs, line, n + 1) /\ IsState(u)
    BY <1>2, <2>2
  <2>4. ~(n + 1 = 0 \/ b[n + 1] = LF)
    BY <1>0, <1>4
  <2>5. Scanned(u, b, gs, slot, n + 1, lines, z)
    BY <1>1, <2>1, <2>3, <2>4 DEF Scanned
  <2> QED BY <1>2, <2>2, <2>5 DEF u, pat
<1>5. CASE x = LF
  <2>1. LineOf(b, n + 1 + 1) = line + 1
    <3> DEFINE j == n + 1
    <3>1. j \in Nat /\ n < j /\ b[j] = LF /\ \A k \in n + 1 .. j - 1 : b[k] # LF
      BY <1>0, <1>5
    <3> HIDE DEF j
    <3>2. LineOf(b, j + 1) = LineOf(b, n + 1) + 1
      BY <1>0, <3>1, NextLine
    <3> QED BY <3>2 DEF j
  <2>2. \A k \in DOMAIN gs : Sofar(gs[k], b, line, n + 1) = Occurrences(gs[k], b, line)
    BY <1>0, <1>5, SofarLine
  <2>3. \A k \in DOMAIN gs : Sofar(gs[k], b, line + 1, n + 1) = {}
    <3>1. n + 1 \in 0 .. Len(b)
      BY <1>0
    <3> QED BY <1>0, <1>5, <2>1, <3>1, SofarNone
  <2> HIDE DEF line, x
  <2>4. /\ t.pos = n + 1 /\ t.line = line
        /\ t.counts = Counted(b, gs, line, n + 1) /\ t.anchor = First(Seen(b, gs, line, n + 1))
        /\ \A k \in DOMAIN gs : IsLongest(gs[k], t.state[k], Fold(b), n + 1)
        /\ History(t.ring, b, n + 1)
    BY <1>2 DEF HasRead
  <2>5. /\ Counted(b, gs, line, n + 1) = Scores(b, gs, line)
        /\ Seen(b, gs, line, n + 1) = InLine(b, gs, line)
    BY <2>2 DEF Counted, Scores, Seen, InLine
  <2>6. /\ Ranked(scan_finalize(t, slot), Upto(lines, b, slot, gs, line))
        /\ scan_finalize(t, slot).skipped = z
    <3>1. /\ t.line \in Nat \ {0} /\ t.counts = Scores(b, gs, t.line)
          /\ t.anchor = First(InLine(b, gs, t.line))
      BY <1>0, <2>4, <2>5
    <3>2. Ranked(t.rank, Upto(lines, b, slot, gs, t.line - 1))
      BY <1>1, <1>2, <2>4
    <3>3. LineEnds(b, slot, gs, lines, t)
      BY <3>1, <3>2 DEF LineEnds
    <3>4. /\ Ranked(scan_finalize(t, slot), Upto(lines, b, slot, gs, t.line))
          /\ scan_finalize(t, slot).skipped = t.rank.skipped
      BY <3>3, Finalize
    <3> QED BY <1>1, <1>2, <2>4, <3>4
  <2>7. u = AfterFeed(t, pat, slot)
    BY <1>3, <1>5
  <2>8. /\ u.pos = t.pos /\ u.ring = t.ring /\ u.state = t.state
        /\ u.pending = t.pending /\ u.line = t.line + 1 /\ u.active = FALSE
        /\ u.counts = Zeros(DOMAIN gs) /\ u.anchor = {}
        /\ u.rank = scan_finalize(t, slot) /\ IsState(u)
    <3>1. LET v == AfterFeed(t, pat, slot)
          IN  /\ v.pos = t.pos /\ v.ring = t.ring /\ v.state = t.state
              /\ v.pending = t.pending /\ v.line = t.line + 1 /\ v.active = FALSE
              /\ v.counts = Zeros(DOMAIN pat) /\ v.anchor = {}
              /\ v.rank = scan_finalize(t, slot) /\ IsState(v)
      BY ONLY <1>2, FeedIs
    <3> QED BY <1>0, <2>7, <3>1
  <2>9. HasRead(u, b, gs, line + 1, n + 1)
    <3>1. /\ Counted(b, gs, line + 1, n + 1) = Zeros(DOMAIN gs)
          /\ First(Seen(b, gs, line + 1, n + 1)) = {}
      BY <2>3, NothingCounted
    <3> QED BY <2>4, <2>8, <3>1 DEF HasRead
  <2>10. line + 1 - 1 = line
    BY <1>0
  <2>11. Scanned(u, b, gs, slot, n + 1, lines, z)
    <3>1. u.active = FALSE /\ b[n + 1] = LF
      BY <1>5, <2>8 DEF x
    <3>2. Ranked(u.rank, Upto(lines, b, slot, gs, line)) /\ u.rank.skipped = z
      BY <2>6, <2>8
    <3>3. LineOf(b, n + 1 + 1) - 1 = line
      <4>1. \A y \in Nat : \A w : w = y + 1 => w - 1 = y
        OBVIOUS
      <4> QED BY <1>0, <2>1, <4>1
    <3> QED BY <2>1, <2>8, <2>9, <3>1, <3>2, <3>3 DEF Scanned
  <2>12. u.pending = s.pending
    BY <1>2, <2>8
  <2> QED BY <2>11, <2>12 DEF u, pat, x
<1> QED BY <1>4, <1>5

CanScan(b, gs, slot, lines) ==
    /\ b \in Seq(Byte) /\ IsQuery(gs) /\ slot \in Nat /\ \A d \in lines : d.slot < slot
LEMMA ScanEnds ==
    ASSUME NEW b, NEW gs, NEW slot, NEW lines, CanScan(b, gs, slot, lines), NEW z, NEW s, NEW N,
           N = Len(b), Scanned(s, b, gs, slot, N, lines, z)
    PROVE  /\ Ranked(scan_end(s, slot), Upto(lines, b, slot, gs, LineOf(b, N + 1)))
           /\ scan_end(s, slot).skipped = z
<1> DEFINE line == LineOf(b, N + 1)
<1> USE DEF CanScan
<1>0. /\ N \in Nat /\ N \in 0 .. N /\ line \in Nat \ {0} /\ DOMAIN gs = 1 .. Len(gs)
      /\ 1 \in DOMAIN gs /\ \A k \in DOMAIN gs : IsGroup(gs[k])
  BY LineIsNat, GroupLengths
<1>1. /\ HasRead(s, b, gs, line, N)
      /\ IF N = 0 \/ b[N] = LF THEN s.active = FALSE ELSE s.active = TRUE
      /\ Ranked(s.rank, Upto(lines, b, slot, gs, line - 1)) /\ s.rank.skipped = z
  BY DEF Scanned
<1>2. \A k \in DOMAIN gs : Sofar(gs[k], b, line, N) = Occurrences(gs[k], b, line)
  BY <1>0, SofarEnd
<1>3. CASE N = 0 \/ b[N] = LF
  <2>1. Sofar(gs[1], b, line, N) = {}
    BY <1>0, <1>3, SofarNone
  <2> HIDE DEF line
  <2>2. ~Matching(b, gs, line)
    BY <1>0, <1>2, <2>1 DEF Matching
  <2>3. Upto(lines, b, slot, gs, line) = Upto(lines, b, slot, gs, line - 1)
    BY <1>0, <2>2, UptoMore
  <2>4. scan_end(s, slot) = s.rank
    <3>1. ~s.active
      BY <1>1, <1>3
    <3> QED BY <3>1 DEF scan_end
  <2> QED BY <1>1, <2>3, <2>4 DEF line
<1>4. CASE ~(N = 0 \/ b[N] = LF)
  <2> HIDE DEF line
  <2>1. s.active = TRUE
    BY <1>1, <1>4
  <2>2. /\ s.line = line /\ s.counts = Counted(b, gs, line, N)
        /\ s.anchor = First(Seen(b, gs, line, N))
    BY <1>1 DEF HasRead
  <2>3. Counted(b, gs, line, N) = Scores(b, gs, line) /\ Seen(b, gs, line, N) = InLine(b, gs, line)
    BY <1>2 DEF Counted, Scores, Seen, InLine
  <2>4. /\ s.line \in Nat \ {0} /\ s.counts = Scores(b, gs, s.line)
        /\ s.anchor = First(InLine(b, gs, s.line))
    BY <1>0, <2>2, <2>3
  <2>5. LineEnds(b, slot, gs, lines, s)
    <3>1. Ranked(s.rank, Upto(lines, b, slot, gs, s.line - 1))
      BY <1>1, <2>2
    <3> QED BY <2>4, <3>1 DEF LineEnds
  <2>7. /\ Ranked(scan_finalize(s, slot), Upto(lines, b, slot, gs, s.line))
        /\ scan_finalize(s, slot).skipped = s.rank.skipped
    BY <2>5, Finalize
  <2>8. scan_end(s, slot) = scan_finalize(s, slot)
    BY <2>1 DEF scan_end
  <2> QED BY <1>1, <2>2, <2>7, <2>8 DEF line
<1> QED BY <1>3, <1>4

-----------------------------------------------------------------------------
(* Reads: after m bytes the last of them is still held back.                *)
Held(s, b, gs, slot, m, lines, z) ==
    IF m = 0 THEN s.pending = <<>> /\ Scanned(s, b, gs, slot, 0, lines, z)
    ELSE s.pending = <<b[m]>> /\ Scanned(s, b, gs, slot, m - 1, lines, z)

Hold(s, v) == [s EXCEPT !.pending = v]
LEMMA HoldingBack ==
    ASSUME NEW b, NEW gs, NEW slot, NEW n, NEW lines, NEW z, NEW s, NEW v,
           Scanned(s, b, gs, slot, n, lines, z)
    PROVE  Scanned(Hold(s, v), b, gs, slot, n, lines, z) /\ Hold(s, v).pending = v
<1> DEFINE u == Hold(s, v)
<1>1. IsState(s)
  BY DEF Scanned
<1>2. /\ u.pos = s.pos /\ u.line = s.line /\ u.counts = s.counts /\ u.anchor = s.anchor
      /\ u.state = s.state /\ u.ring = s.ring /\ u.active = s.active /\ u.rank = s.rank
      /\ u.pending = v /\ IsState(u)
  BY <1>1 DEF IsState, Hold
<1> HIDE DEF u
<1>3. HasRead(u, b, gs, LineOf(b, n + 1), n)
  BY <1>2 DEF Scanned, HasRead
<1>4. Scanned(u, b, gs, slot, n, lines, z)
  BY <1>2, <1>3 DEF Scanned
<1> QED BY <1>2, <1>4 DEF u

Feeding(b, n, next) ==
    n \in 0 .. Len(b) - 1 /\ next = IF n + 1 < Len(b) THEN b[n + 2] ELSE Eof
LEMMA ScanStepsThere ==
    \A b, gs, slot, lines, z, n, next, s, x, m :
        (/\ CanScan(b, gs, slot, lines) /\ Scanned(s, b, gs, slot, n, lines, z)
         /\ Feeding(b, n, next) /\ x = b[n + 1] /\ m = n + 1) =>
            LET u == scan_byte(pattern_build(gs), slot, s, x, next)
            IN  Scanned(u, b, gs, slot, m, lines, z) /\ u.pending = s.pending
<1> TAKE b, gs, slot, lines, z, n, next, s, x, m
<1> SUFFICES ASSUME CanScan(b, gs, slot, lines),
                    Scanned(s, b, gs, slot, n, lines, z), Feeding(b, n, next),
                    x = b[n + 1], m = n + 1
             PROVE  LET u == scan_byte(pattern_build(gs), slot, s, x, next)
                    IN  Scanned(u, b, gs, slot, m, lines, z) /\ u.pending = s.pending
  OBVIOUS
<1>1. /\ b \in Seq(Byte) /\ IsQuery(gs) /\ slot \in Nat /\ \A d \in lines : d.slot < slot
      /\ n \in 0 .. Len(b) - 1 /\ next = IF n + 1 < Len(b) THEN b[n + 2] ELSE Eof
  BY DEF CanScan, Feeding
<1>2. LET u == scan_byte(pattern_build(gs), slot, s, b[n + 1], next)
      IN  Scanned(u, b, gs, slot, n + 1, lines, z) /\ u.pending = s.pending
  BY <1>1, ScanSteps
<1> QED BY <1>2

IsRun(r, pat, slot, s, run) ==
    r = [n \in 0 .. Len(run) - 1 |->
            IF n = 0 THEN s ELSE scan_byte(pat, slot, r[n - 1], run[n], run[n + 1])]
LEMMA ChunkIsScanned ==
    ASSUME NEW b, NEW gs, NEW slot, NEW lines, CanScan(b, gs, slot, lines), NEW z, NEW s,
           NEW m \in Nat, NEW k \in Nat, m < k, k <= Len(b),
           Held(s, b, gs, slot, m, lines, z)
    PROVE  Held(scan_chunk(pattern_build(gs), slot, s, SubSeq(b, m + 1, k)),
                b, gs, slot, k, lines, z)
<1> DEFINE pat == pattern_build(gs)
           piece == SubSeq(b, m + 1, k)
           run == s.pending \o piece
           p == IF m = 0 THEN 0 ELSE m - 1
           N == k - p - 1
           a == [pat |-> pat, slot |-> slot, run |-> run]
           r == CHOOSE h : IsRun(h, pat, slot, s, run)
           Q == {n \in Nat : n <= N => /\ Scanned(r[n], b, gs, slot, p + n, lines, z)
                                       /\ r[n].pending = s.pending}
<1>0. p \in Nat /\ N \in Nat /\ p + N + 1 = k /\ b \in Seq(Byte) /\ Len(b) \in Nat /\ p <= m
  BY DEF CanScan
<1>1. Scanned(s, b, gs, slot, p, lines, z)
  BY DEF Held
<1>2. Len(run) = N + 1 /\ \A i \in 1 .. N + 1 : run[i] = b[p + i]
  <2>1. piece \in Seq(Byte) /\ Len(piece) = k - m /\ \A i \in 1 .. k - m : piece[i] = b[m + i]
    <3>1. m <= k
      OBVIOUS
    <3>2. LET w == SubSeq(b, m + 1, k)
          IN  w \in Seq(Byte) /\ Len(w) = k - m /\ \A i \in 1 .. k - m : w[i] = b[m + i]
      BY ONLY <1>0, <3>1, m \in Nat, k \in Nat, k <= Len(b), PieceBytes
    <3> QED BY <3>2
  <2> HIDE DEF piece, Byte
  <2>2. CASE m = 0
    <3>1. s.pending = <<>> /\ p = 0 /\ N + 1 = k
      BY <1>0, <2>2 DEF Held
    <3>2. run = piece
      BY <2>1, <3>1
    <3> QED BY <2>1, <2>2, <3>1, <3>2
  <2>3. CASE m # 0
    <3>1. s.pending = <<b[m]>> /\ p = m - 1 /\ N + 1 = k - m + 1 /\ m \in 1 .. Len(b)
      BY <1>0, <2>3 DEF Held
    <3> DEFINE y == b[m]
    <3>2. y \in Byte /\ <<y>> \in Seq(Byte) /\ Len(<<y>>) = 1 /\ <<y>>[1] = y
      BY <1>0, <3>1
    <3>3. run = <<y>> \o piece
      BY <3>1
    <3> HIDE DEF y, run, p, N
    <3>4. Len(run) = 1 + (k - m) /\ \A i \in 1 .. 1 + (k - m) :
               run[i] = IF i <= 1 THEN <<y>>[i] ELSE piece[i - 1]
      BY <2>1, <3>2, <3>3
    <3>5. ASSUME NEW i \in 1 .. N + 1 PROVE run[i] = b[p + i]
      <4>1. i \in 1 .. 1 + (k - m) /\ (i = 1 \/ i > 1)
        BY <3>1
      <4>2. CASE i = 1
        <5>1. p + i = m
          BY <3>1, <4>2
        <5> QED BY <3>2, <3>4, <4>1, <4>2, <5>1 DEF y
      <4>3. CASE i > 1
        <5> DEFINE j == i - 1
        <5>1. j \in 1 .. k - m /\ m + j = p + i /\ ~(i <= 1)
          BY <3>1, <4>1, <4>3
        <5>2. run[i] = piece[j]
          BY <3>4, <4>1, <5>1
        <5> HIDE DEF j
        <5> QED BY <2>1, <5>1, <5>2
      <4> QED BY <4>1, <4>2, <4>3
    <3> QED BY <3>1, <3>4, <3>5
  <2> QED BY <2>2, <2>3
<1>3. scan_chunk(pat, slot, s, piece) = Hold(r[N], <<b[k]>>)
  <2>1. scan_chunk(pat, slot, s, piece) = Hold(r[Len(run) - 1], <<run[Len(run)]>>)
    BY DEF scan_chunk, IsRun, Hold
  <2> HIDE DEF run, r, p, N
  <2>2. Len(run) - 1 = N /\ Len(run) \in 1 .. N + 1
    BY <1>0, <1>2
  <2>3. run[Len(run)] = b[k]
    BY <1>0, <1>2, <2>2
  <2> QED BY <2>1, <2>2, <2>3
<1> HIDE DEF pat, run, p, N
<1>4. \A h, n : Turn("chunk", a, h, n) = scan_byte(pat, slot, h, run[n], run[n + 1])
  BY DEF Turn
<1>5. Len(run) - 1 = N
  BY <1>0, <1>2
<1>6. IsRun(r, pat, slot, s, run)
  <2>1. \E h : IsLoop(h, "chunk", a, s, N)
    BY <1>0, LoopExists
  <2>2. \A h : IsLoop(h, "chunk", a, s, N) => IsRun(h, pat, slot, s, run)
    BY <1>4, <1>5 DEF IsLoop, IsRun
  <2> QED BY <2>1, <2>2
<1> HIDE DEF r
<1>7. IsLoop(r, "chunk", a, s, N)
  BY <1>4, <1>5, <1>6 DEF IsLoop, IsRun
<1> HIDE DEF a
<1>8. r[0] = s /\ \A n \in 0 .. N - 1 : r[n + 1] = Turn("chunk", a, r[n], n + 1)
  BY ONLY <1>0, <1>7, LoopTurns
<1>9. 0 \in Q
  <2>1. p + 0 = p
    BY <1>0
  <2> QED BY <1>1, <1>8, <2>1
<1>10. ASSUME NEW n \in Nat, n \in Q PROVE n + 1 \in Q
  <2> SUFFICES ASSUME n + 1 <= N
               PROVE  /\ Scanned(r[n + 1], b, gs, slot, p + (n + 1), lines, z)
                      /\ r[n + 1].pending = s.pending
    OBVIOUS
  <2> DEFINE i == p + n
             x == run[n + 1]
             next == run[n + 2]
  <2>1. /\ n \in 0 .. N - 1 /\ n <= N /\ n + 1 \in 1 .. N + 1 /\ n + 2 \in 1 .. N + 1
        /\ i \in 0 .. Len(b) - 1 /\ i + 1 < Len(b) /\ i + 1 = p + (n + 1) /\ i + 2 = p + (n + 2)
    BY <1>0
  <2>2. Scanned(r[n], b, gs, slot, i, lines, z) /\ r[n].pending = s.pending
    BY <1>10, <2>1
  <2>3. x = b[i + 1] /\ next = b[i + 2]
    BY <1>2, <2>1
  <2>4. r[n + 1] = scan_byte(pat, slot, r[n], x, next)
    <3>1. r[n + 1] = Turn("chunk", a, r[n], n + 1) /\ n + 1 + 1 = n + 2
      BY <1>8, <2>1
    <3> QED BY <1>4, <3>1
  <2> HIDE DEF x, next, i
  <2>5. Feeding(b, i, next)
    BY <2>1, <2>3 DEF Feeding
  <2> DEFINE j == p + (n + 1)
             t == r[n]
  <2>6. j = i + 1 /\ Scanned(t, b, gs, slot, i, lines, z) /\ x = b[i + 1]
    BY <2>1, <2>2, <2>3
  <2> HIDE DEF j, t
  <2>7. /\ Scanned(scan_byte(pat, slot, t, x, next), b, gs, slot, j, lines, z)
        /\ scan_byte(pat, slot, t, x, next).pending = t.pending
    BY ONLY <2>5, <2>6, ScanStepsThere, CanScan(b, gs, slot, lines) DEF pat
  <2> QED BY <2>2, <2>4, <2>7 DEF j, t
<1>11. \A n \in Nat : n \in Q
  <2> HIDE DEF Q
  <2> QED BY <1>9, <1>10, Induction
<1>12. Scanned(r[N], b, gs, slot, k - 1, lines, z)
  <2>1. p + N = k - 1
    BY <1>0
  <2> QED BY <1>0, <1>11, <2>1, SMTT(30)
<1> DEFINE u == Hold(r[N], <<b[k]>>)
<1>13. Scanned(u, b, gs, slot, k - 1, lines, z) /\ u.pending = <<b[k]>>
  BY <1>12, HoldingBack
<1> HIDE DEF u
<1>14. k # 0
  OBVIOUS
<1>15. Held(u, b, gs, slot, k, lines, z)
  BY <1>13, <1>14 DEF Held
<1> QED BY <1>3, <1>15 DEF u, pat

-----------------------------------------------------------------------------
(* The reads of a text meet, whatever their size, and the last one ends it. *)
Mark(i, N) == Min2(i * chunk, N)

LEMMA DivIs ==
    \A c \in Nat \ {0} : \A y \in Nat :
        /\ y \div c \in Nat
        /\ \A i \in Nat : i * c \in Nat /\ (i + 1) * c = i * c + c
        /\ (y \div c) * c <= y /\ y < (y \div c) * c + c
<1> TAKE c \in Nat \ {0}
<1> TAKE y \in Nat
<1>1. y \div c \in Nat
  OBVIOUS
<1>2. (y \div c) * c <= y /\ y < (y \div c) * c + c
  OBVIOUS
<1>3. ASSUME NEW i \in Nat PROVE i * c \in Nat /\ (i + 1) * c = i * c + c
  BY SMT
<1> QED BY <1>1, <1>2, <1>3

LEMMA TimesMono ==
    \A c \in Nat : \A i, j \in Nat : i <= j => i * c <= j * c
BY SMT

LEMMA MarksAre ==
    ASSUME chunk \in Nat \ {0}, NEW N \in Nat
    PROVE  LET P == (N + chunk - 1) \div chunk
           IN  /\ P \in Nat /\ Mark(0, N) = 0 /\ Mark(P, N) = N
               /\ \A i \in 0 .. P - 1 : /\ Mark(i, N) = i * chunk /\ i * chunk \in Nat
                                        /\ Mark(i, N) < Mark(i + 1, N) /\ Mark(i + 1, N) <= N
                                        /\ Mark(i, N) \in Nat /\ Mark(i + 1, N) \in Nat
<1> DEFINE y == N + chunk - 1
           P == y \div chunk
           x == P * chunk
<1>0. chunk \in Nat \ {0} /\ y \in Nat /\ y = N + chunk - 1
  OBVIOUS
<1> HIDE DEF y
<1>1. /\ P \in Nat /\ x \in Nat /\ x <= y /\ y < x + chunk
      /\ \A i \in Nat : i * chunk \in Nat /\ (i + 1) * chunk = i * chunk + chunk
  BY <1>0, DivIs
<1>2. 0 * chunk = 0
  BY <1>0, SMT
<1> HIDE DEF P
<1>3. Mark(0, N) = 0
  BY <1>2 DEF Mark, Min2
<1>4. N <= x
  BY <1>0, <1>1
<1>5. Mark(P, N) = N
  BY <1>0, <1>1, <1>4 DEF Mark, Min2
<1>6. ASSUME NEW i \in 0 .. P - 1
      PROVE  /\ Mark(i, N) = i * chunk /\ i * chunk \in Nat
             /\ Mark(i, N) < Mark(i + 1, N) /\ Mark(i + 1, N) <= N
             /\ Mark(i, N) \in Nat /\ Mark(i + 1, N) \in Nat
  <2> DEFINE u == i * chunk
             v == (i + 1) * chunk
  <2>1. i \in Nat /\ i + 1 \in Nat /\ i + 1 <= P
    BY <1>1
  <2>2. u \in Nat /\ v \in Nat /\ v = u + chunk
    BY <1>1, <2>1
  <2>3. v <= x
    BY <1>0, <1>1, <2>1, TimesMono
  <2>4. Mark(i, N) = Min2(u, N) /\ Mark(i + 1, N) = Min2(v, N)
    BY DEF Mark
  <2> HIDE DEF u, v, x
  <2>5. u < N
    BY <1>0, <1>1, <2>2, <2>3
  <2> QED BY <1>0, <2>2, <2>4, <2>5 DEF Min2, u
<1> QED BY <1>1, <1>3, <1>5, <1>6 DEF P, y

IsReadings(r, pat, rank, slot, pieces) ==
    r = [n \in 0 .. Len(pieces) |->
            IF n = 0 THEN scan_start(pat, rank) ELSE scan_chunk(pat, slot, r[n - 1], pieces[n])]

LEMMA PiecesAreScanned ==
    ASSUME chunk \in Nat \ {0}, NEW b, NEW gs, NEW slot, NEW lines, CanScan(b, gs, slot, lines),
           NEW rank, Ranked(rank, lines)
    PROVE  Held(scan_pieces(pattern_build(gs), rank, slot, Pieces(b)),
                b, gs, slot, Len(b), lines, rank.skipped)
<1> DEFINE pat == pattern_build(gs)
           pieces == Pieces(b)
           N == Len(b)
           P == (N + chunk - 1) \div chunk
           a == [pat |-> pat, slot |-> slot, pieces |-> pieces]
           start == scan_start(pat, rank)
           z == rank.skipped
           r == CHOOSE h : IsReadings(h, pat, rank, slot, pieces)
           Q == {n \in Nat : n <= P => Held(r[n], b, gs, slot, Mark(n, N), lines, z)}
<1>0. N \in Nat /\ b \in Seq(Byte) /\ IsQuery(gs)
  BY DEF CanScan
<1>1. /\ P \in Nat /\ Mark(0, N) = 0 /\ Mark(P, N) = N
      /\ \A i \in 0 .. P - 1 : /\ Mark(i, N) = i * chunk /\ i * chunk \in Nat
                               /\ Mark(i, N) < Mark(i + 1, N) /\ Mark(i + 1, N) <= N
                               /\ Mark(i, N) \in Nat /\ Mark(i + 1, N) \in Nat
  <2> HIDE DEF N
  <2> QED BY <1>0, MarksAre
<1>2. Len(pieces) = P /\ \A i \in 1 .. P :
          pieces[i] = SubSeq(b, (i - 1) * chunk + 1, Min2(i * chunk, N))
  <2>1. pieces = [i \in 1 .. P |-> SubSeq(b, (i - 1) * chunk + 1, Min2(i * chunk, N))]
    BY DEF Pieces
  <2> HIDE DEF P, pieces, N
  <2>2. DOMAIN pieces = 1 .. P
    BY <2>1
  <2> QED BY <1>1, <2>1, <2>2, SMTT(30)
<1>3. scan_pieces(pat, rank, slot, pieces) = r[P]
  <2>1. scan_pieces(pat, rank, slot, pieces) = r[Len(pieces)]
    BY DEF scan_pieces, IsReadings
  <2> QED BY <1>2, <2>1
<1>4. Held(start, b, gs, slot, 0, lines, z)
  BY <1>0, ScanStarts DEF Held
<1>5. \A h, n : Turn("pieces", a, h, n) = scan_chunk(pat, slot, h, pieces[n])
  BY DEF Turn
<1> HIDE DEF pat, pieces, P, N
<1>6. IsReadings(r, pat, rank, slot, pieces)
  <2>1. \E h : IsLoop(h, "pieces", a, start, P)
    BY <1>1, LoopExists
  <2>2. \A h : IsLoop(h, "pieces", a, start, P) => IsReadings(h, pat, rank, slot, pieces)
    BY <1>2, <1>5 DEF IsLoop, IsReadings
  <2> QED BY <2>1, <2>2
<1> HIDE DEF r
<1>7. IsLoop(r, "pieces", a, start, P)
  BY <1>2, <1>5, <1>6 DEF IsLoop, IsReadings
<1> HIDE DEF a, start
<1>8. r[0] = start /\ \A n \in 0 .. P - 1 : r[n + 1] = Turn("pieces", a, r[n], n + 1)
  BY ONLY <1>1, <1>7, LoopTurns
<1>9. 0 \in Q
  BY <1>1, <1>4, <1>8
<1>10. ASSUME NEW n \in Nat, n \in Q PROVE n + 1 \in Q
  <2> SUFFICES ASSUME n + 1 <= P
               PROVE  Held(r[n + 1], b, gs, slot, Mark(n + 1, N), lines, z)
    OBVIOUS
  <2> DEFINE m == Mark(n, N)
             k == Mark(n + 1, N)
             s == r[n]
  <2>1. n \in 0 .. P - 1 /\ n + 1 \in 1 .. P /\ n + 1 - 1 = n /\ n <= P
    BY <1>1
  <2>2. Held(s, b, gs, slot, m, lines, z)
    BY <1>10, <2>1
  <2>3. m \in Nat /\ k \in Nat /\ m < k /\ k <= N /\ m = n * chunk
    BY <1>1, <2>1
  <2>4. pieces[n + 1] = SubSeq(b, m + 1, k)
    <3>1. pieces[n + 1] = SubSeq(b, (n + 1 - 1) * chunk + 1, Min2((n + 1) * chunk, N))
      BY <1>2, <2>1
    <3>2. k = Min2((n + 1) * chunk, N)
      BY DEF Mark
    <3> HIDE DEF k, m
    <3> QED BY <2>1, <2>3, <3>1, <3>2
  <2>5. r[n + 1] = scan_chunk(pat, slot, s, SubSeq(b, m + 1, k))
    BY <1>5, <1>8, <2>1, <2>4
  <2> HIDE DEF m, k, s
  <2>6. Held(scan_chunk(pat, slot, s, SubSeq(b, m + 1, k)), b, gs, slot, k, lines, z)
    BY <2>2, <2>3, ChunkIsScanned DEF pat, N
  <2> QED BY <2>5, <2>6 DEF k
<1>11. \A n \in Nat : n \in Q
  <2> HIDE DEF Q
  <2> QED BY <1>9, <1>10, Induction
<1>12. Held(r[P], b, gs, slot, N, lines, z)
  BY <1>1, <1>11
<1> QED BY <1>3, <1>12 DEF pat, pieces, N

LEMMA FileIsScanned ==
    ASSUME chunk \in Nat \ {0}, NEW b, NEW gs, NEW slot, NEW lines, CanScan(b, gs, slot, lines),
           NEW rank, Ranked(rank, lines), ~preflight(b)
    PROVE  LET u == scan_file(pattern_build(gs), rank, slot, b)
           IN  /\ Ranked(u, Upto(lines, b, slot, gs, LineOf(b, Len(b) + 1)))
               /\ u.skipped = rank.skipped
<1> DEFINE pat == pattern_build(gs)
           N == Len(b)
           z == rank.skipped
           s == scan_pieces(pat, rank, slot, Pieces(b))
           t == scan_last(pat, slot, s)
<1>0. /\ N \in Nat /\ b \in Seq(Byte) /\ IsQuery(gs) /\ slot \in Nat
      /\ \A d \in lines : d.slot < slot
  BY DEF CanScan
<1>1. Held(s, b, gs, slot, N, lines, z)
  BY PiecesAreScanned
<1>2. scan_file(pat, rank, slot, b) = scan_end(t, slot)
  BY DEF scan_file
<1> HIDE DEF s, z
<1>3. Scanned(t, b, gs, slot, N, lines, z)
  <2>1. CASE N = 0
    <3>1. s.pending = <<>> /\ Scanned(s, b, gs, slot, 0, lines, z)
      BY <1>1, <2>1 DEF Held
    <3>2. t = s
      BY <3>1 DEF scan_last
    <3> QED BY <2>1, <3>1, <3>2
  <2>2. CASE N # 0
    <3> DEFINE n == N - 1
               x == b[N]
    <3>1. s.pending = <<x>> /\ Scanned(s, b, gs, slot, n, lines, z)
      BY <1>1, <2>2 DEF Held
    <3>2. t = scan_byte(pat, slot, s, x, Eof)
      <4>1. s.pending # <<>> /\ s.pending[1] = x
        BY <3>1
      <4> HIDE DEF pat
      <4> QED BY <4>1 DEF scan_last
    <3>3. Feeding(b, n, Eof) /\ x = b[n + 1] /\ N = n + 1
      <4>1. n \in 0 .. N - 1 /\ ~(n + 1 < N) /\ N = n + 1
        BY <1>0, <2>2
      <4> QED BY <4>1 DEF Feeding
    <3> HIDE DEF n, x, N, t
    <3>4. Scanned(scan_byte(pat, slot, s, x, Eof), b, gs, slot, N, lines, z)
      BY ONLY <3>1, <3>3, ScanStepsThere, CanScan(b, gs, slot, lines) DEF pat
    <3> QED BY <3>2, <3>4
  <2> QED BY <2>1, <2>2
<1> HIDE DEF t, pat, N
<1>4. /\ Ranked(scan_end(t, slot), Upto(lines, b, slot, gs, LineOf(b, N + 1)))
      /\ scan_end(t, slot).skipped = z
  BY ONLY <1>3, ScanEnds, CanScan(b, gs, slot, lines) DEF N
<1> QED BY <1>2, <1>4 DEF pat, z, N

-----------------------------------------------------------------------------
(* The files one after the other.                                           *)
Skip(rank, i) == [rank EXCEPT !.skipped = @ + i]
LEMMA SkipIs ==
    ASSUME NEW rank, NEW lines, Ranked(rank, lines), NEW i \in Nat
    PROVE  Ranked(Skip(rank, i), lines) /\ Skip(rank, i).skipped = rank.skipped + i
<1> DEFINE u == Skip(rank, i)
<1>1. rank \in Rank
  BY DEF Ranked
<1>2. u \in Rank /\ u.list = rank.list /\ u.total = rank.total /\ u.skipped = rank.skipped + i
  BY <1>1 DEF Rank, Skip
<1> HIDE DEF u
<1>3. IsRanking(u, lines)
  BY <1>2 DEF Ranked, IsRanking
<1> QED BY <1>2, <1>3 DEF Ranked, u

LEMMA NothingRanked == Ranked(NoRank, {})
<1>1. NoRank \in Rank /\ NoRank.list = <<>> /\ NoRank.total = 0
  BY DEF NoRank, Rank
<1>2. IsFiniteSet({}) /\ Cardinality({}) = 0
  BY FS_EmptySet
<1>3. Min2(ShownMax, 0) = 0
  BY LimitAssumption DEF Min2
<1> HIDE DEF NoRank
<1>4. IsRanking(NoRank, {})
  BY <1>1, <1>2, <1>3 DEF IsRanking
<1> QED BY <1>1, <1>2, <1>4 DEF Ranked

Wanted(s) == IsText(files[s]) /\ (filter = NoFilter \/ s \in filter)
LinesOf(gs, s) ==
    {LineCand(files[s], s, l, gs) :
        l \in {x \in 1 .. LineOf(files[s], Len(files[s]) + 1) : Matching(files[s], gs, x)}}
LinesTo(gs, n) == UNION {LinesOf(gs, s) : s \in {r \in 1 .. n : Wanted(r)}}
SkippedTo(n) == {s \in 1 .. n : ~IsText(files[s])}

LEMMA LinesMore ==
    ASSUME NEW gs, NEW n \in Nat
    PROVE  LinesTo(gs, n + 1) = IF Wanted(n + 1) THEN LinesTo(gs, n) \cup LinesOf(gs, n + 1)
                                ELSE LinesTo(gs, n)
<1> DEFINE W(s) == Wanted(s)
           f(s) == LinesOf(gs, s)
<1> HIDE DEF W, f
<1>1. /\ LinesTo(gs, n + 1) = UNION {f(s) : s \in {r \in 1 .. n + 1 : W(r)}}
      /\ LinesTo(gs, n) = UNION {f(s) : s \in {r \in 1 .. n : W(r)}}
  BY DEF LinesTo, W, f
<1>2. \A s \in 1 .. n + 1 : s \in 1 .. n \/ s = n + 1
  OBVIOUS
<1>3. n + 1 \in 1 .. n + 1 /\ \A s \in 1 .. n : s \in 1 .. n + 1
  OBVIOUS
<1>4. CASE W(n + 1)
  <2>1. {r \in 1 .. n + 1 : W(r)} = {r \in 1 .. n : W(r)} \cup {n + 1}
    BY <1>2, <1>3, <1>4
  <2>2. LinesTo(gs, n + 1) = LinesTo(gs, n) \cup f(n + 1)
    BY <1>1, <2>1
  <2> QED BY <1>4, <2>2 DEF W, f
<1>5. CASE ~W(n + 1)
  <2>1. {r \in 1 .. n + 1 : W(r)} = {r \in 1 .. n : W(r)}
    BY <1>2, <1>3, <1>5
  <2>2. LinesTo(gs, n + 1) = LinesTo(gs, n)
    BY <1>1, <2>1
  <2> QED BY <1>5, <2>2 DEF W
<1> QED BY <1>4, <1>5

LEMMA LinesAreUpto ==
    ASSUME NEW gs, NEW s, NEW lines
    PROVE  lines \cup LinesOf(gs, s) =
               Upto(lines, files[s], s, gs, LineOf(files[s], Len(files[s]) + 1))
BY DEF LinesOf, Upto

LEMMA SlotsOfLines ==
    ASSUME NEW gs, NEW n \in Nat
    PROVE  \A d \in LinesTo(gs, n) : d.slot < n + 1
<1> SUFFICES ASSUME NEW d \in LinesTo(gs, n) PROVE d.slot < n + 1
  OBVIOUS
<1>1. PICK s \in 1 .. n : d \in LinesOf(gs, s)
  BY DEF LinesTo
<1>2. PICK l : d = LineCand(files[s], s, l, gs)
  BY <1>1 DEF LinesOf
<1>3. d.slot = s
  BY <1>2 DEF LineCand
<1> QED BY <1>1, <1>3

LEMMA SkippedMore ==
    ASSUME NEW n \in Nat
    PROVE  /\ IsFiniteSet(SkippedTo(n)) /\ Cardinality(SkippedTo(n)) \in Nat
           /\ Cardinality(SkippedTo(n + 1)) =
                 IF IsText(files[n + 1]) THEN Cardinality(SkippedTo(n))
                 ELSE Cardinality(SkippedTo(n)) + 1
<1> DEFINE T(s) == IsText(files[s])
<1>1. SkippedTo(n) = {s \in 1 .. n : ~T(s)} /\ SkippedTo(n + 1) = {s \in 1 .. n + 1 : ~T(s)}
  BY DEF SkippedTo
<1> HIDE DEF T
<1>2. IsFiniteSet(1 .. n) /\ SkippedTo(n) \subseteq 1 .. n /\ n + 1 \notin SkippedTo(n)
  BY <1>1, FS_Interval
<1>3. IsFiniteSet(SkippedTo(n)) /\ Cardinality(SkippedTo(n)) \in Nat
  BY <1>2, FS_Subset, FS_CardinalityType
<1>4. \A s \in 1 .. n + 1 : s \in 1 .. n \/ s = n + 1
  OBVIOUS
<1>5. n + 1 \in 1 .. n + 1 /\ \A s \in 1 .. n : s \in 1 .. n + 1
  OBVIOUS
<1>6. CASE T(n + 1)
  <2>1. SkippedTo(n + 1) = SkippedTo(n)
    BY <1>1, <1>4, <1>5, <1>6
  <2> QED BY <1>3, <1>6, <2>1 DEF T
<1>7. CASE ~T(n + 1)
  <2>1. SkippedTo(n + 1) = SkippedTo(n) \cup {n + 1}
    BY <1>1, <1>4, <1>5, <1>7
  <2>2. Cardinality(SkippedTo(n + 1)) = Cardinality(SkippedTo(n)) + 1
    BY <1>2, <1>3, <2>1, FS_AddElement
  <2> QED BY <1>3, <1>7, <2>2 DEF T
<1> QED BY <1>6, <1>7

LEMMA VisitIs ==
    ASSUME SearchTypes, NEW gs, IsQuery(gs), NEW n \in 0 .. Len(files) - 1,
           NEW rank, Ranked(rank, LinesTo(gs, n)), rank.skipped = Cardinality(SkippedTo(n))
    PROVE  LET u == linear_visit(pattern_build(gs), rank, n + 1)
           IN  /\ Ranked(u, LinesTo(gs, n + 1))
               /\ u.skipped = Cardinality(SkippedTo(n + 1))
<1> DEFINE pat == pattern_build(gs)
           s == n + 1
           b == files[s]
           lines == LinesTo(gs, n)
           u == linear_visit(pat, rank, s)
<1>0. n \in Nat /\ b \in Seq(Byte) /\ s \in Nat /\ chunk \in Nat \ {0}
  <2> HIDE DEF Byte
  <2>1. files \in Seq(Seq(Byte)) /\ chunk \in Nat \ {0} /\ n + 1 \in 1 .. Len(files)
    BY DEF SearchTypes
  <2> QED BY <2>1
<1>1. preflight(b) <=> ~IsText(b)
  BY <1>0, PreflightIs
<1>2. LinesTo(gs, s) = IF Wanted(s) THEN lines \cup LinesOf(gs, s) ELSE lines
  BY <1>0, LinesMore
<1>3. Cardinality(SkippedTo(s)) = IF IsText(b) THEN rank.skipped ELSE rank.skipped + 1
  BY <1>0, SkippedMore
<1>4. eligible(s) = IF preflight(b) THEN "INVALID" ELSE IF s \in filter THEN "ELIGIBLE" ELSE "TAG"
  BY DEF eligible
<1>5. u = IF filter = NoFilter \/ eligible(s) = "ELIGIBLE" THEN scan_file(pat, rank, s, b)
          ELSE Skip(rank, IF eligible(s) = "INVALID" THEN 1 ELSE 0)
  BY DEF linear_visit, Skip
<1>6. Wanted(s) <=> IsText(b) /\ (filter = NoFilter \/ s \in filter)
  BY DEF Wanted
<1>7. \A d \in lines : d.slot < s
  BY <1>0, SlotsOfLines
<1>8. CanScan(b, gs, s, lines)
  BY <1>0, <1>7 DEF CanScan
<1>9. lines \cup LinesOf(gs, s) = Upto(lines, b, s, gs, LineOf(b, Len(b) + 1))
  BY LinesAreUpto
<1>10. Ranked(rank, lines) /\ rank.skipped \in Nat
  BY DEF Ranked, Rank
<1> HIDE DEF b, s, lines, u, pat
<1>11. CASE ~IsText(b)
  <2>1. u = Skip(rank, 1)
    <3>1. scan_file(pat, rank, s, b) = Skip(rank, 1)
      BY <1>1, <1>11 DEF scan_file, Skip
    <3> QED BY <1>1, <1>4, <1>5, <1>11, <3>1
  <2>2. Ranked(Skip(rank, 1), lines) /\ Skip(rank, 1).skipped = rank.skipped + 1
    BY <1>10, SkipIs
  <2>3. LinesTo(gs, s) = lines
    BY <1>2, <1>6, <1>11
  <2>4. Ranked(u, LinesTo(gs, s)) /\ u.skipped = Cardinality(SkippedTo(s))
    BY <1>3, <1>11, <2>1, <2>2, <2>3
  <2> QED BY <2>4 DEF u, s, pat
<1>12. CASE IsText(b) /\ ~Wanted(s)
  <2>1. u = Skip(rank, 0)
    BY <1>1, <1>4, <1>5, <1>6, <1>12
  <2>2. Ranked(Skip(rank, 0), lines) /\ Skip(rank, 0).skipped = rank.skipped
    <3>1. Ranked(Skip(rank, 0), lines) /\ Skip(rank, 0).skipped = rank.skipped + 0
      BY <1>10, SkipIs
    <3> QED BY <1>10, <3>1
  <2>3. LinesTo(gs, s) = lines
    BY <1>2, <1>12
  <2>4. Ranked(u, LinesTo(gs, s)) /\ u.skipped = Cardinality(SkippedTo(s))
    BY <1>3, <1>12, <2>1, <2>2, <2>3
  <2> QED BY <2>4 DEF u, s, pat
<1>13. CASE IsText(b) /\ Wanted(s)
  <2>1. u = scan_file(pat, rank, s, b) /\ ~preflight(b)
    BY <1>1, <1>4, <1>5, <1>6, <1>13
  <2> DEFINE v == scan_file(pattern_build(gs), rank, s, b)
  <2>2. /\ Ranked(v, Upto(lines, b, s, gs, LineOf(b, Len(b) + 1)))
        /\ v.skipped = rank.skipped
    BY <1>0, <1>8, <1>10, <2>1, FileIsScanned
  <2>3. u = v
    BY <2>1 DEF pat
  <2> HIDE DEF v
  <2>4. LinesTo(gs, s) = Upto(lines, b, s, gs, LineOf(b, Len(b) + 1))
    BY <1>2, <1>9, <1>13
  <2>5. Ranked(u, LinesTo(gs, s)) /\ u.skipped = Cardinality(SkippedTo(s))
    BY <1>3, <1>13, <2>2, <2>3, <2>4
  <2> QED BY <2>5 DEF u, s, pat
<1> QED BY <1>11, <1>12, <1>13

IsVisiting(r, pat) ==
    r = [s \in 0 .. Len(files) |-> IF s = 0 THEN NoRank ELSE linear_visit(pat, r[s - 1], s)]

LEMMA QueryIs ==
    ASSUME SearchTypes, NEW q, IsQuery(parse(q))
    PROVE  /\ Ranked(linear_query(q), LinesTo(parse(q), Len(files)))
           /\ linear_query(q).skipped = Cardinality(SkippedTo(Len(files)))
<1> DEFINE gs == parse(q)
           pat == pattern_build(gs)
           N == Len(files)
           r == CHOOSE h : IsVisiting(h, pat)
           Q == {n \in Nat : n <= N => /\ Ranked(r[n], LinesTo(gs, n))
                                       /\ r[n].skipped = Cardinality(SkippedTo(n))}
<1>0. N \in Nat
  <2> HIDE DEF Byte
  <2> QED BY DEF SearchTypes
<1>1. linear_query(q) = r[N]
  BY DEF linear_query, IsVisiting
<1> HIDE DEF gs
<1>2. \A h, n : Turn("query", pat, h, n) = linear_visit(pat, h, n)
  BY DEF Turn
<1> HIDE DEF pat
<1>3. IsVisiting(r, pat)
  <2>1. \E h : IsLoop(h, "query", pat, NoRank, N)
    BY <1>0, LoopExists
  <2>2. \A h : IsLoop(h, "query", pat, NoRank, N) => IsVisiting(h, pat)
    BY <1>2 DEF IsLoop, IsVisiting
  <2> QED BY <2>1, <2>2
<1> HIDE DEF r
<1>4. IsLoop(r, "query", pat, NoRank, N)
  BY <1>2, <1>3 DEF IsLoop, IsVisiting
<1> HIDE DEF N
<1>5. r[0] = NoRank /\ \A n \in 0 .. N - 1 : r[n + 1] = Turn("query", pat, r[n], n + 1)
  BY ONLY <1>0, <1>4, LoopTurns
<1>6. 0 \in Q
  <2>1. LinesTo(gs, 0) = {} /\ SkippedTo(0) = {}
    BY DEF LinesTo, SkippedTo
  <2>2. NoRank.skipped = Cardinality({})
    BY FS_EmptySet DEF NoRank
  <2> QED BY <1>5, <2>1, <2>2, NothingRanked
<1>7. ASSUME NEW n \in Nat, n \in Q PROVE n + 1 \in Q
  <2> SUFFICES ASSUME n + 1 <= N
               PROVE  /\ Ranked(r[n + 1], LinesTo(gs, n + 1))
                      /\ r[n + 1].skipped = Cardinality(SkippedTo(n + 1))
    OBVIOUS
  <2>1. n \in 0 .. N - 1 /\ n <= N
    BY <1>0
  <2>2. Ranked(r[n], LinesTo(gs, n)) /\ r[n].skipped = Cardinality(SkippedTo(n))
    BY <1>7, <2>1
  <2>3. r[n + 1] = linear_visit(pat, r[n], n + 1)
    BY <1>2, <1>5, <2>1
  <2> DEFINE rank == r[n]
  <2>4. LET u == linear_visit(pattern_build(gs), rank, n + 1)
        IN  /\ Ranked(u, LinesTo(gs, n + 1))
            /\ u.skipped = Cardinality(SkippedTo(n + 1))
    <3>1. IsQuery(gs) /\ n \in 0 .. Len(files) - 1
      BY <2>1 DEF gs, N
    <3>2. Ranked(rank, LinesTo(gs, n)) /\ rank.skipped = Cardinality(SkippedTo(n))
      BY <2>2
    <3> HIDE DEF rank
    <3> QED BY ONLY <3>1, <3>2, SearchTypes, VisitIs
  <2> QED BY <2>3, <2>4 DEF pat
<1>8. \A n \in Nat : n \in Q
  <2> HIDE DEF Q
  <2> QED BY <1>6, <1>7, Induction
<1> QED BY <1>0, <1>1, <1>8 DEF gs, N

(* TextSearch, ScanIsReference: whatever the files, the query, the filter,  *)
(* the chunk size and the limits (the ring longer than a query), the scan   *)
(* ranks the lines in which every group of the query occurs, all of them    *)
(* and no other, each with the anchor and the score the bytes give it.      *)
THEOREM ScanIsReferenceHolds == SearchSpec => []ScanIsReference
<1>1. SearchTypes => ScanIsReference
  <2> SUFFICES ASSUME SearchTypes, parse_ok(query)
               PROVE  /\ IsRanking(linear_query(query), MatchingLines(query))
                      /\ linear_query(query).skipped =
                             Cardinality({s \in Slots : ~IsText(files[s])})
    BY DEF ScanIsReference
  <2> DEFINE gs == parse(query)
             N == Len(files)
  <2>1. query \in Seq(Byte) /\ Len(query) <= QueryMax /\ Len(gs) \in 1 .. GroupMax
    <3> HIDE DEF Byte
    <3>1. Len(query) \in 1 .. QueryMax /\ Len(gs) \in 1 .. GroupMax
      BY DEF parse_ok
    <3> QED BY <3>1, LimitAssumption DEF SearchTypes
  <2>2. IsGroups(gs)
    BY <2>1, ParseIs
  <2> HIDE DEF gs
  <2>3. IsQuery(gs)
    BY <2>1, <2>2, LimitAssumption DEF IsQuery
  <2>4. /\ Ranked(linear_query(query), LinesTo(gs, N))
        /\ linear_query(query).skipped = Cardinality(SkippedTo(N))
    BY <2>3, QueryIs DEF gs
  <2>5. SkippedTo(N) = {s \in Slots : ~IsText(files[s])}
    BY DEF SkippedTo, Slots
  <2>6. LinesTo(gs, N) = MatchingLines(query)
    <3>1. \A s, l : RankedLine(s, l, gs) = LineCand(files[s], s, l, gs)
      BY DEF RankedLine, LineCand, In, InLine, Scores
    <3>2. \A s, l : Matching(files[s], gs, l) <=>
                        \A k \in DOMAIN gs : Occurrences(gs[k], files[s], l) # {}
      BY DEF Matching
    <3> DEFINE Lines(s) ==
                 {RankedLine(s, line, gs) :
                      line \in {l \in 1 .. LineOf(files[s], Len(files[s]) + 1) :
                                  \A k \in DOMAIN gs : Occurrences(gs[k], files[s], l) # {}}}
               W == {r \in 1 .. N : Wanted(r)}
    <3>3. MatchingLines(query) = UNION {Lines(s) : s \in W}
      BY DEF MatchingLines, Slots, Wanted, gs
    <3>4. ASSUME NEW s PROVE Lines(s) = LinesOf(gs, s)
      <4> DEFINE S == 1 .. LineOf(files[s], Len(files[s]) + 1)
                 V(l) == RankedLine(s, l, gs)
                 M(l) == Matching(files[s], gs, l)
      <4>1. LinesOf(gs, s) = {V(l) : l \in {x \in S : M(x)}}
        BY <3>1 DEF LinesOf
      <4>2. Lines(s) = {V(l) : l \in {x \in S : M(x)}}
        BY <3>2
      <4> QED BY <4>1, <4>2
    <3>5. LinesTo(gs, N) = UNION {LinesOf(gs, s) : s \in W}
      BY DEF LinesTo
    <3> HIDE DEF Lines, W
    <3> QED BY <3>3, <3>4, <3>5
  <2> QED BY <2>4, <2>5, <2>6 DEF Ranked
<1> QED BY <1>1, SearchTypesHold, PTL
=============================================================================
