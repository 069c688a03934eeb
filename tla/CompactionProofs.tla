--------------------------- MODULE CompactionProofs ---------------------------
(***************************************************************************)
(* What compact_history() does to a message list, for every list: tool     *)
(* calls keep their results, the system prompt stays where it is and the   *)
(* recent turns are kept, however often the list is compacted.             *)
(*                                                                         *)
(* The invariant is that the list becomes a paired one by appending the    *)
(* results that are still owed.  Compaction happens only when none is, and *)
(* cuts at a user message, which no result precedes its call across.  That *)
(* a list with more turns than are kept has a place to cut, and that       *)
(* splitting a list keeps its order, goes by induction; the principle      *)
(* itself is derived here from finite cardinalities.                       *)
(***************************************************************************)
EXTENDS MCCompaction, FiniteSetTheorems, TLAPS
-----------------------------------------------------------------------------
(* Induction *)

\* A set of naturals that holds 0 and the successor of each of its members
\* holds them all: below a number outside it there would be a set of numbers
\* outside that the predecessor maps one to one into a smaller set.
LEMMA Induction ==
    ASSUME NEW A \in SUBSET Nat, 0 \in A, \A n \in A : n + 1 \in A
    PROVE  A = Nat
<1>1. SUFFICES ASSUME NEW m \in Nat, m \notin A PROVE FALSE
  OBVIOUS
<1> DEFINE B == {i \in 0 .. m : i \notin A}
           C == B \ {m}
           f == [i \in B |-> i - 1]
<1>2. IsFiniteSet(B) /\ m \in B
  <2>1. IsFiniteSet(0 .. m)
    BY FS_Interval
  <2> QED BY <1>1, <2>1, FS_Subset
<1>3. IsFiniteSet(C) /\ Cardinality(C) = Cardinality(B) - 1 /\ Cardinality(B) \in Nat
  BY <1>2, FS_RemoveElement, FS_CardinalityType
<1>4. ASSUME NEW i \in B PROVE i - 1 \in C
  <2>1. i # 0 /\ i \in 1 .. m /\ (i - 1) + 1 = i
    BY <1>1
  <2>2. i - 1 \notin A
    BY <2>1
  <2> QED BY <2>1, <2>2
<1>5. f \in Injection(B, C)
  BY <1>4 DEF Injection, IsInjective
<1>6. Cardinality(B) <= Cardinality(C)
  BY <1>2, <1>3, <1>5, FS_Injection
<1> QED BY <1>3, <1>6

-----------------------------------------------------------------------------
(* Subsequences *)

Kept(h, S, n, f) ==
    f = [i \in 0 .. n |-> IF i = 0 THEN << >>
                          ELSE IF i \in S THEN Append(f[i - 1], h[i]) ELSE f[i - 1]]

\* The loop that picks the messages is well-defined.
LEMMA KeptExists ==
    ASSUME NEW h, NEW S, NEW n \in Nat
    PROVE  \E f : Kept(h, S, n, f)
<1> DEFINE A == {k \in Nat : \E f : Kept(h, S, k, f)}
<1>1. 0 \in A
  <2>1. Kept(h, S, 0, [i \in 0 .. 0 |-> << >>])
    BY DEF Kept
  <2> QED BY <2>1
<1>2. ASSUME NEW k \in A PROVE k + 1 \in A
  <2>1. k \in Nat /\ k + 1 \in Nat
    OBVIOUS
  <2>2. PICK f : Kept(h, S, k, f)
    OBVIOUS
  <2> DEFINE g == [i \in 0 .. k + 1 |->
                       IF i = k + 1
                       THEN IF i \in S THEN Append(f[k], h[i]) ELSE f[k]
                       ELSE f[i]]
  <2>3. ASSUME NEW i \in 0 .. k + 1
        PROVE  g[i] = IF i = 0 THEN << >>
                      ELSE IF i \in S THEN Append(g[i - 1], h[i]) ELSE g[i - 1]
    <3>1. CASE i = k + 1
      <4>1. i # 0 /\ i - 1 = k /\ k \in 0 .. k + 1 /\ k # k + 1
        BY <2>1, <3>1
      <4>2. g[k] = f[k]
        BY <4>1
      <4> QED BY <3>1, <4>1, <4>2
    <3>2. CASE i # k + 1
      <4>1. i \in 0 .. k
        BY <2>1, <3>2
      <4>2. g[i] = f[i]
        BY <3>2
      <4>3. f[i] = IF i = 0 THEN << >>
                   ELSE IF i \in S THEN Append(f[i - 1], h[i]) ELSE f[i - 1]
        BY <2>2, <4>1 DEF Kept
      <4>4. i # 0 => g[i - 1] = f[i - 1]
        BY <2>1, <4>1
      <4> QED BY <4>2, <4>3, <4>4
    <3> QED BY <3>1, <3>2
  <2>4. Kept(h, S, k + 1, g)
    <3> DEFINE step(i) == IF i = 0 THEN << >>
                          ELSE IF i \in S THEN Append(g[i - 1], h[i]) ELSE g[i - 1]
    <3>1. g = [i \in 0 .. k + 1 |-> g[i]]
      OBVIOUS
    <3>2. \A i \in 0 .. k + 1 : g[i] = step(i)
      BY <2>3
    <3> HIDE DEF g
    <3>3. g = [i \in 0 .. k + 1 |-> step(i)]
      BY <3>1, <3>2
    <3> QED BY <3>3 DEF Kept
  <2> QED BY <2>1, <2>4
<1>3. A = Nat
  <2> HIDE DEF A
  <2>1. A \in SUBSET Nat
    BY DEF A
  <2> QED BY <1>1, <1>2, <2>1, Induction
<1> QED BY <1>3

\* pos is where the messages of t stand among the first n of h: exactly at the
\* places in S, in order.
Embeds(t, h, S, n, pos) ==
    /\ pos \in [1 .. Len(t) -> 1 .. n]
    /\ \A k \in 1 .. Len(t) : pos[k] \in S /\ t[k] = h[pos[k]]
    /\ \A k, l \in 1 .. Len(t) : k < l => pos[k] < pos[l]
    /\ \A j \in 1 .. n : j \in S => \E k \in 1 .. Len(t) : pos[k] = j

\* One more message is picked, or passed over.
LEMMA EmbedsStep ==
    ASSUME NEW M, NEW h \in Seq(M), NEW S, NEW n \in Nat, n < Len(h),
           NEW t \in Seq(M), NEW pos, Embeds(t, h, S, n, pos)
    PROVE  /\ n + 1 \in S => /\ Append(t, h[n + 1]) \in Seq(M)
                             /\ \E p : Embeds(Append(t, h[n + 1]), h, S, n + 1, p)
           /\ n + 1 \notin S => Embeds(t, h, S, n + 1, pos)
<1>1. Len(t) \in Nat /\ n + 1 \in 1 .. Len(h) /\ h[n + 1] \in M
  OBVIOUS
<1>2. /\ pos \in [1 .. Len(t) -> 1 .. n]
      /\ \A k \in 1 .. Len(t) : pos[k] \in S /\ t[k] = h[pos[k]]
      /\ \A k, l \in 1 .. Len(t) : k < l => pos[k] < pos[l]
      /\ \A j \in 1 .. n : j \in S => \E k \in 1 .. Len(t) : pos[k] = j
  BY DEF Embeds
<1>3. CASE n + 1 \in S
  <2> DEFINE u == Append(t, h[n + 1])
             m == Len(t)
             p == [k \in 1 .. m + 1 |-> IF k = m + 1 THEN n + 1 ELSE pos[k]]
  <2>1. u \in Seq(M) /\ Len(u) = m + 1 /\ u[m + 1] = h[n + 1]
        /\ \A k \in 1 .. m : u[k] = t[k]
    BY <1>1
  <2>2. p[m + 1] = n + 1 /\ \A k \in 1 .. m : p[k] = pos[k] /\ pos[k] \in 1 .. n
    BY <1>1, <1>2
  <2>3. \A k \in 1 .. m + 1 : k \in 1 .. m \/ k = m + 1
    BY <1>1
  <2>4. p \in [1 .. m + 1 -> 1 .. n + 1]
    <3>1. ASSUME NEW k \in 1 .. m + 1
          PROVE  (IF k = m + 1 THEN n + 1 ELSE pos[k]) \in 1 .. n + 1
      <4>1. CASE k = m + 1
        BY <4>1
      <4>2. CASE k \in 1 .. m
        <5>1. pos[k] \in 1 .. n
          BY <1>2, <4>2
        <5> QED BY <1>1, <4>2, <5>1
      <4> QED BY <2>3, <4>1, <4>2
    <3> QED BY <3>1
  <2> HIDE DEF p, u
  <2>5. \A k \in 1 .. m + 1 : p[k] \in S /\ u[k] = h[p[k]]
    BY <1>2, <1>3, <2>1, <2>2, <2>3
  <2>6. \A k, l \in 1 .. m + 1 : k < l => p[k] < p[l]
    <3>1. SUFFICES ASSUME NEW k \in 1 .. m + 1, NEW l \in 1 .. m + 1, k < l
                   PROVE  p[k] < p[l]
      OBVIOUS
    <3>2. k \in 1 .. m /\ p[k] = pos[k] /\ pos[k] \in 1 .. n
      BY <1>1, <2>2, <3>1
    <3>3. CASE l = m + 1
      BY <2>2, <3>2, <3>3
    <3>4. CASE l \in 1 .. m
      BY <1>2, <2>2, <3>1, <3>2, <3>4
    <3> QED BY <2>3, <3>3, <3>4
  <2>7. \A j \in 1 .. n + 1 : j \in S => \E k \in 1 .. m + 1 : p[k] = j
    <3>1. SUFFICES ASSUME NEW j \in 1 .. n + 1, j \in S
                   PROVE  \E k \in 1 .. m + 1 : p[k] = j
      OBVIOUS
    <3>2. CASE j = n + 1
      BY <1>1, <2>2, <3>2
    <3>3. CASE j \in 1 .. n
      <4>1. PICK k \in 1 .. m : pos[k] = j
        BY <1>2, <3>1, <3>3
      <4>2. k \in 1 .. m + 1
        BY <1>1
      <4> QED BY <2>2, <4>1, <4>2
    <3> QED BY <3>2, <3>3
  <2>8. Embeds(u, h, S, n + 1, p)
    BY <2>1, <2>4, <2>5, <2>6, <2>7 DEF Embeds
  <2> QED BY <1>3, <2>1, <2>8 DEF u
<1>4. CASE n + 1 \notin S
  <2>1. pos \in [1 .. Len(t) -> 1 .. n + 1]
    BY <1>2
  <2>2. \A j \in 1 .. n + 1 : j \in S => j \in 1 .. n
    BY <1>4
  <2> QED BY <1>2, <1>4, <2>1, <2>2 DEF Embeds
<1> QED BY <1>3, <1>4

\* A subsequence holds the messages at the places S, each once and in order.
LEMMA SubsequenceEmbeds ==
    ASSUME NEW M, NEW h \in Seq(M), NEW S
    PROVE  /\ Subsequence(h, S) \in Seq(M)
           /\ \E pos : Embeds(Subsequence(h, S), h, S, Len(h), pos)
<1> DEFINE kept == CHOOSE f : Kept(h, S, Len(h), f)
           A == {n \in Nat : n <= Len(h) =>
                     /\ kept[n] \in Seq(M)
                     /\ \E pos : Embeds(kept[n], h, S, n, pos)}
<1>1. Len(h) \in Nat
  OBVIOUS
<1>2. Kept(h, S, Len(h), kept)
  BY <1>1, KeptExists
<1>3. Subsequence(h, S) = kept[Len(h)]
  BY DEF Subsequence, Kept
<1> HIDE DEF kept
<1>4. /\ kept[0] = << >>
      /\ \A n \in 0 .. Len(h) : n # 0 =>
             kept[n] = IF n \in S THEN Append(kept[n - 1], h[n]) ELSE kept[n - 1]
  <2>1. \A n \in 0 .. Len(h) :
            kept[n] = IF n = 0 THEN << >>
                      ELSE IF n \in S THEN Append(kept[n - 1], h[n]) ELSE kept[n - 1]
    BY <1>2 DEF Kept
  <2>2. 0 \in 0 .. Len(h)
    BY <1>1
  <2> QED BY <2>1, <2>2
<1>5. 0 \in A
  <2>1. << >> \in Seq(M) /\ Len(<< >>) = 0
    OBVIOUS
  <2>2. << >> \in [1 .. 0 -> 1 .. 0] /\ \A k \in 1 .. 0 : FALSE
    OBVIOUS
  <2>3. Embeds(<< >>, h, S, 0, << >>)
    BY <2>1, <2>2 DEF Embeds
  <2> QED BY <1>4, <2>1, <2>3
<1>6. ASSUME NEW n \in A PROVE n + 1 \in A
  <2>1. n \in Nat /\ n + 1 \in Nat
    OBVIOUS
  <2>2. SUFFICES ASSUME n + 1 <= Len(h)
                 PROVE  /\ kept[n + 1] \in Seq(M)
                        /\ \E pos : Embeds(kept[n + 1], h, S, n + 1, pos)
    BY <2>1
  <2>3. n <= Len(h) /\ n < Len(h) /\ n + 1 \in 0 .. Len(h) /\ n + 1 # 0 /\ (n + 1) - 1 = n
    BY <1>1, <2>1, <2>2
  <2>4. kept[n] \in Seq(M)
    BY <2>3
  <2>5. PICK pos : Embeds(kept[n], h, S, n, pos)
    BY <2>3
  <2>6. kept[n + 1] = IF n + 1 \in S THEN Append(kept[n], h[n + 1]) ELSE kept[n]
    BY <1>4, <2>3
  <2> HIDE DEF A
  <2> QED BY <2>1, <2>3, <2>4, <2>5, <2>6, EmbedsStep
<1>7. A = Nat
  <2> HIDE DEF A
  <2>1. A \in SUBSET Nat
    BY DEF A
  <2> QED BY <1>5, <1>6, <2>1, Induction
<1> QED BY <1>1, <1>3, <1>7

Unbroken(h, S, at, d) == \A e \in 1 .. d : at + e \in 1 .. Len(h) /\ at + e \in S
Follows(t, pos, k, d) == k + d \in 1 .. Len(t) /\ pos[k + d] = pos[k] + d

\* What follows a message without a gap in h follows it without a gap in t.
LEMMA EmbedsContiguous ==
    ASSUME NEW h, NEW S, NEW t, NEW pos, Len(t) \in Nat, Len(h) \in Nat,
           Embeds(t, h, S, Len(h), pos), NEW k \in 1 .. Len(t), NEW d \in Nat,
           Unbroken(h, S, pos[k], d)
    PROVE  Follows(t, pos, k, d)
<1> DEFINE A == {e \in Nat : e <= d => k + e \in 1 .. Len(t) /\ pos[k + e] = pos[k] + e}
<1>1. /\ \A x \in 1 .. Len(t) : pos[x] \in 1 .. Len(h)
      /\ \A x, y \in 1 .. Len(t) : x < y => pos[x] < pos[y]
      /\ \A j \in 1 .. Len(h) : j \in S => \E x \in 1 .. Len(t) : pos[x] = j
  BY DEF Embeds
<1>2. Len(t) \in Nat /\ Len(h) \in Nat
  OBVIOUS
<1>3. 0 \in A
  <2>1. k + 0 = k /\ pos[k] + 0 = pos[k]
    BY <1>1
  <2> QED BY <2>1
<1>4. ASSUME NEW e \in A PROVE e + 1 \in A
  <2>1. e \in Nat /\ e + 1 \in Nat
    OBVIOUS
  <2>2. SUFFICES ASSUME e + 1 <= d
                 PROVE  k + (e + 1) \in 1 .. Len(t) /\ pos[k + (e + 1)] = pos[k] + (e + 1)
    BY <2>1
  <2>3. e <= d /\ e + 1 \in 1 .. d
    BY <2>1, <2>2
  <2>4. k + e \in 1 .. Len(t) /\ pos[k + e] = pos[k] + e
    BY <2>3
  <2> HIDE DEF A
  <2>5. PICK x \in 1 .. Len(t) : pos[x] = pos[k] + (e + 1)
    BY <1>1, <2>3 DEF Unbroken
  <2>6. pos[k] \in Nat /\ pos[k + e] < pos[x]
    BY <1>1, <2>1, <2>4, <2>5
  <2>7. ~(x < k + e) /\ x # k + e
    <3>1. x < k + e => pos[x] < pos[k + e]
      BY <1>1, <2>4
    <3>2. pos[x] \in Nat /\ pos[k + e] \in Nat
      BY <1>1, <2>4
    <3> QED BY <2>6, <3>1, <3>2
  <2>8. x = k + (e + 1)
    <3>1. SUFFICES ASSUME k + (e + 1) < x PROVE FALSE
      BY <2>1, <2>7
    <3>2. k + (e + 1) \in 1 .. Len(t) /\ k + e < k + (e + 1)
      BY <1>2, <2>1, <3>1
    <3>3. pos[k + e] < pos[k + (e + 1)] /\ pos[k + (e + 1)] < pos[x]
          /\ pos[k + (e + 1)] \in Nat
      BY <1>1, <2>4, <3>1, <3>2
    <3> QED BY <2>1, <2>4, <2>5, <2>6, <3>3
  <2> QED BY <2>5, <2>8
<1>5. A = Nat
  <2> HIDE DEF A
  <2>1. A \in SUBSET Nat
    BY DEF A
  <2> QED BY <1>3, <1>4, <2>1, Induction
<1>6. d \in A
  <2> HIDE DEF A
  <2> QED BY <1>5
<1> QED BY <1>6 DEF Follows

-----------------------------------------------------------------------------
(* Paired histories *)

Counts(M) == \A m \in M : m.calls \in Nat

\* Two paired lists make a paired list.
LEMMA PairedConcat ==
    ASSUME NEW M, NEW s \in Seq(M), NEW t \in Seq(M), PairedHistory(s), PairedHistory(t)
    PROVE  s \o t \in Seq(M) /\ PairedHistory(s \o t)
<1> DEFINE u == s \o t
           n == Len(s)
<1>1. /\ u \in Seq(M) /\ n \in Nat /\ Len(t) \in Nat /\ Len(u) = n + Len(t)
      /\ \A i \in 1 .. n : u[i] = s[i]
      /\ \A i \in 1 .. Len(t) : u[n + i] = t[i]
  OBVIOUS
<1> HIDE DEF u
<1>2. DOMAIN u = 1 .. n + Len(t) /\ DOMAIN s = 1 .. n /\ DOMAIN t = 1 .. Len(t)
  BY <1>1
<1>3. ASSUME NEW i \in 1 .. n
      PROVE  /\ u[i].role = "assistant" =>
                   \A k \in 1 .. u[i].calls : i + k \in DOMAIN u /\ u[i + k].role = "tool"
             /\ u[i].role = "tool" =>
                   \E a \in 1 .. i - 1 : u[a].role = "assistant" /\ i - a <= u[a].calls
  <2>1. u[i] = s[i]
    BY <1>1
  <2>2. s[i].role = "assistant" =>
            \A k \in 1 .. s[i].calls : i + k \in 1 .. n /\ s[i + k].role = "tool"
    BY <1>2 DEF PairedHistory
  <2>3. \A k : i + k \in 1 .. n => i + k \in DOMAIN u /\ u[i + k] = s[i + k]
    BY <1>1, <1>2
  <2>4. s[i].role = "tool" =>
            \E a \in 1 .. i - 1 : s[a].role = "assistant" /\ i - a <= s[a].calls
    BY <1>2 DEF PairedHistory
  <2>5. \A a \in 1 .. i - 1 : u[a] = s[a]
    BY <1>1
  <2> QED BY <2>1, <2>2, <2>3, <2>4, <2>5
<1>4. ASSUME NEW j \in 1 .. Len(t)
      PROVE  /\ u[n + j].role = "assistant" =>
                   \A k \in 1 .. u[n + j].calls :
                       (n + j) + k \in DOMAIN u /\ u[(n + j) + k].role = "tool"
             /\ u[n + j].role = "tool" =>
                   \E a \in 1 .. (n + j) - 1 :
                       u[a].role = "assistant" /\ (n + j) - a <= u[a].calls
  <2>1. u[n + j] = t[j]
    BY <1>1
  <2>2. t[j].role = "assistant" =>
            \A k \in 1 .. t[j].calls : j + k \in 1 .. Len(t) /\ t[j + k].role = "tool"
    BY <1>2 DEF PairedHistory
  <2>3. \A k \in Int : j + k \in 1 .. Len(t) =>
            (n + j) + k \in DOMAIN u /\ u[(n + j) + k] = t[j + k]
    <3>1. SUFFICES ASSUME NEW k \in Int, j + k \in 1 .. Len(t)
                   PROVE  (n + j) + k \in DOMAIN u /\ u[(n + j) + k] = t[j + k]
      OBVIOUS
    <3>2. (n + j) + k = n + (j + k)
      BY <1>1
    <3>3. n + (j + k) \in 1 .. n + Len(t)
      BY <1>1, <3>1
    <3> QED BY <1>1, <1>2, <3>1, <3>2, <3>3
  <2>4. t[j].role = "tool" =>
            \E a \in 1 .. j - 1 : t[a].role = "assistant" /\ j - a <= t[a].calls
    BY <1>2 DEF PairedHistory
  <2>5. \A a \in 1 .. j - 1 : /\ n + a \in 1 .. (n + j) - 1 /\ u[n + a] = t[a]
                              /\ (n + j) - (n + a) = j - a
    BY <1>1
  <2>6. ASSUME u[n + j].role = "assistant", NEW k \in 1 .. u[n + j].calls
        PROVE  (n + j) + k \in DOMAIN u /\ u[(n + j) + k].role = "tool"
    <3>1. k \in Int /\ k \in 1 .. t[j].calls /\ t[j].role = "assistant"
      BY <2>1, <2>6
    <3>2. j + k \in 1 .. Len(t) /\ t[j + k].role = "tool"
      BY <2>2, <3>1
    <3> QED BY <2>3, <3>1, <3>2
  <2>7. ASSUME u[n + j].role = "tool"
        PROVE  \E a \in 1 .. (n + j) - 1 :
                   u[a].role = "assistant" /\ (n + j) - a <= u[a].calls
    <3>1. PICK a \in 1 .. j - 1 : t[a].role = "assistant" /\ j - a <= t[a].calls
      BY <2>1, <2>4, <2>7
    <3> QED BY <2>5, <3>1
  <2> QED BY <2>6, <2>7
<1>5. PairedHistory(u)
  <2>1. SUFFICES ASSUME NEW i \in 1 .. n + Len(t)
                 PROVE  /\ u[i].role = "assistant" =>
                             \A k \in 1 .. u[i].calls : i + k \in DOMAIN u /\ u[i + k].role = "tool"
                        /\ u[i].role = "tool" =>
                             \E a \in 1 .. i - 1 : u[a].role = "assistant" /\ i - a <= u[a].calls
    BY <1>2 DEF PairedHistory
  <2>2. CASE i \in 1 .. n
    BY <1>3, <2>2
  <2>3. CASE i \notin 1 .. n
    <3>1. i - n \in 1 .. Len(t) /\ i = n + (i - n)
      BY <1>1, <2>1, <2>3
    <3> DEFINE j == i - n
    <3> HIDE DEF j
    <3>2. j \in 1 .. Len(t) /\ i = n + j
      BY <3>1 DEF j
    <3> QED BY <1>4, <3>2
  <2> QED BY <2>2, <2>3
<1> QED BY <1>1, <1>5 DEF u

\* A list without calls and results is paired.
LEMMA NoCallsPaired ==
    ASSUME NEW s, \A i \in DOMAIN s : s[i].role \notin {"assistant", "tool"}
    PROVE  PairedHistory(s)
BY DEF PairedHistory

\* So is an assistant message followed by one result for each of its calls.
LEMMA GroupPaired ==
    ASSUME NEW M, NEW a \in M, a.role = "assistant", NEW r \in Seq(M), Len(r) = a.calls,
           \A i \in 1 .. Len(r) : r[i].role = "tool"
    PROVE  <<a>> \o r \in Seq(M) /\ PairedHistory(<<a>> \o r)
<1> DEFINE u == <<a>> \o r
<1>1. /\ u \in Seq(M) /\ Len(r) \in Nat /\ DOMAIN u = 1 .. Len(r) + 1
      /\ u[1] = a /\ \A i \in 2 .. Len(r) + 1 : u[i] = r[i - 1]
  OBVIOUS
<1> HIDE DEF u
<1>2. \A i \in 2 .. Len(r) + 1 : u[i].role = "tool"
  BY <1>1
<1>3. \A i \in 1 .. Len(r) + 1 : i = 1 \/ i \in 2 .. Len(r) + 1
  BY <1>1
<1>4. \A k \in 1 .. Len(r) : 1 + k \in 2 .. Len(r) + 1 /\ 1 + k \in DOMAIN u
  BY <1>1
<1>5. \A i \in 2 .. Len(r) + 1 : 1 \in 1 .. i - 1 /\ i - 1 <= Len(r)
  BY <1>1
<1>6. PairedHistory(u)
  <2>1. u[1].role = "assistant" /\ u[1].calls = Len(r)
    BY <1>1
  <2> QED BY <1>1, <1>2, <1>3, <1>4, <1>5, <2>1 DEF PairedHistory
<1> QED BY <1>1, <1>6 DEF u

\* From a user message on, a paired list is paired: no result's call comes before.
LEMMA PairedFromUser ==
    ASSUME NEW M, Counts(M), NEW t \in Seq(M), PairedHistory(t),
           NEW from \in 1 .. Len(t), t[from].role = "user"
    PROVE  SubSeq(t, from, Len(t)) \in Seq(M) /\ PairedHistory(SubSeq(t, from, Len(t)))
<1> DEFINE u == SubSeq(t, from, Len(t))
           o == from - 1
<1>1. /\ u \in Seq(M) /\ o \in Nat /\ DOMAIN u = 1 .. Len(t) - o
      /\ \A i \in 1 .. Len(t) - o : i + o \in 1 .. Len(t) /\ u[i] = t[i + o]
  OBVIOUS
<1>2. Len(t) \in Nat /\ DOMAIN t = 1 .. Len(t) /\ from = o + 1
  OBVIOUS
<1> HIDE DEF u, o
<1>3. ASSUME NEW i \in 1 .. Len(t) - o, u[i].role = "assistant", NEW k \in 1 .. u[i].calls
      PROVE  i + k \in DOMAIN u /\ u[i + k].role = "tool"
  <2>1. (i + o) + k \in 1 .. Len(t) /\ t[(i + o) + k].role = "tool"
    BY <1>1, <1>2, <1>3 DEF PairedHistory
  <2>2. i + k \in 1 .. Len(t) - o /\ (i + k) + o = (i + o) + k
    BY <1>1, <1>2, <2>1
  <2> QED BY <1>1, <2>1, <2>2
<1>4. ASSUME NEW i \in 1 .. Len(t) - o, u[i].role = "tool"
      PROVE  \E a \in 1 .. i - 1 : u[a].role = "assistant" /\ i - a <= u[a].calls
  <2>1. i + o \in 1 .. Len(t) /\ t[i + o].role = "tool"
    BY <1>1, <1>4
  <2>2. PICK b \in 1 .. (i + o) - 1 : t[b].role = "assistant" /\ (i + o) - b <= t[b].calls
    BY <1>2, <2>1 DEF PairedHistory
  <2>3. b \in 1 .. Len(t) /\ t[b].calls \in Nat
    <3>1. b \in 1 .. Len(t)
      BY <1>1, <1>2, <2>1, <2>2
    <3>2. t[b] \in M
      BY <3>1
    <3> QED BY <3>1, <3>2 DEF Counts
  <2>4. b >= from
    <3>1. SUFFICES ASSUME b < from PROVE FALSE
      BY <2>3
    <3>2. from - b \in 1 .. t[b].calls /\ b + (from - b) = from
      BY <1>1, <1>2, <2>2, <2>3, <3>1
    <3>3. t[b + (from - b)].role = "tool"
      BY <1>2, <2>2, <2>3, <3>2 DEF PairedHistory
    <3> QED BY <3>2, <3>3
  <2>5. b - o \in 1 .. i - 1 /\ (b - o) + o = b /\ i - (b - o) = (i + o) - b
    BY <1>1, <1>2, <2>2, <2>4
  <2>6. b - o \in 1 .. Len(t) - o
    BY <1>1, <1>2, <2>3, <2>4
  <2> QED BY <1>1, <2>2, <2>5, <2>6
<1>5. PairedHistory(u)
  BY <1>1, <1>3, <1>4 DEF PairedHistory
<1> QED BY <1>1, <1>5 DEF u

\* A subsequence that leaves out no call and no result of a paired list is paired.
LEMMA EmbedsPaired ==
    ASSUME NEW M, Counts(M), NEW h \in Seq(M), PairedHistory(h),
           NEW S, NEW t \in Seq(M), NEW pos, Embeds(t, h, S, Len(h), pos),
           \A i \in 1 .. Len(h) : h[i].role \in {"assistant", "tool"} => i \in S
    PROVE  PairedHistory(t)
<1>3. DOMAIN t = 1 .. Len(t) /\ Len(t) \in Nat /\ DOMAIN h = 1 .. Len(h) /\ Len(h) \in Nat
  OBVIOUS
<1>4. \A i \in 1 .. Len(h) : h[i].role \in {"assistant", "tool"} => i \in S
  OBVIOUS
<1>5. /\ \A k \in 1 .. Len(t) : pos[k] \in 1 .. Len(h) /\ pos[k] \in S /\ t[k] = h[pos[k]]
      /\ \A k, l \in 1 .. Len(t) : k < l => pos[k] < pos[l]
      /\ \A j \in 1 .. Len(h) : j \in S => \E k \in 1 .. Len(t) : pos[k] = j
  BY DEF Embeds
<1>6. ASSUME NEW k \in 1 .. Len(t), t[k].role = "assistant", NEW d \in Nat, d <= t[k].calls
      PROVE  /\ k + d \in 1 .. Len(t) /\ pos[k + d] = pos[k] + d
             /\ d > 0 => t[k + d].role = "tool"
  <2>1. pos[k] \in 1 .. Len(h) /\ h[pos[k]] = t[k] /\ t[k].calls \in Nat
    <3>1. t[k] \in M
      OBVIOUS
    <3> QED BY <1>5, <3>1 DEF Counts
  <2>2. \A e \in 1 .. t[k].calls : pos[k] + e \in 1 .. Len(h) /\ h[pos[k] + e].role = "tool"
    BY <1>3, <1>6, <2>1 DEF PairedHistory
  <2>3. \A e \in 1 .. d : e \in 1 .. t[k].calls
    BY <1>6, <2>1
  <2>4. Unbroken(h, S, pos[k], d)
    BY <1>4, <2>2, <2>3 DEF Unbroken
  <2>5. k + d \in 1 .. Len(t) /\ pos[k + d] = pos[k] + d
    <3>1. Follows(t, pos, k, d)
      BY <1>3, <2>4, EmbedsContiguous
    <3> QED BY <3>1 DEF Follows
  <2>6. ASSUME d > 0 PROVE t[k + d].role = "tool"
    <3>1. d \in 1 .. t[k].calls
      BY <1>6, <2>1, <2>6
    <3> QED BY <1>5, <2>2, <2>5, <3>1
  <2> QED BY <2>5, <2>6
<1>7. ASSUME NEW k \in 1 .. Len(t), t[k].role = "assistant", NEW d \in 1 .. t[k].calls
      PROVE  k + d \in DOMAIN t /\ t[k + d].role = "tool"
  <2>1. t[k].calls \in Nat
    <3>1. t[k] \in M
      OBVIOUS
    <3> QED BY <3>1 DEF Counts
  <2>2. d \in Nat /\ d <= t[k].calls /\ d > 0
    BY <1>7, <2>1
  <2> QED BY <1>3, <1>6, <1>7, <2>2
<1>8. ASSUME NEW k \in 1 .. Len(t), t[k].role = "tool"
      PROVE  \E a \in 1 .. k - 1 : t[a].role = "assistant" /\ k - a <= t[a].calls
  <2>1. pos[k] \in 1 .. Len(h) /\ h[pos[k]].role = "tool"
    BY <1>5, <1>8
  <2>2. PICK b \in 1 .. pos[k] - 1 : h[b].role = "assistant" /\ pos[k] - b <= h[b].calls
    BY <1>3, <2>1 DEF PairedHistory
  <2>3. b \in 1 .. Len(h) /\ b \in S
    BY <1>3, <1>4, <2>1, <2>2
  <2>4. PICK a \in 1 .. Len(t) : pos[a] = b
    BY <1>5, <2>3
  <2>5. t[a] = h[b]
    BY <1>5, <2>4
  <2> DEFINE d == pos[k] - b
  <2>6. d \in Nat /\ d > 0 /\ d <= t[a].calls /\ b + d = pos[k]
    <3>1. pos[k] - b \in Nat /\ pos[k] - b > 0 /\ b + (pos[k] - b) = pos[k]
      <4>1. pos[k] \in Nat /\ b \in 1 .. pos[k] - 1
        BY <2>1
      <4> QED BY <4>1
    <3>2. pos[k] - b <= t[a].calls
      BY <2>2, <2>5
    <3> QED BY <3>1, <3>2
  <2> HIDE DEF d
  <2>7. a + d \in 1 .. Len(t) /\ pos[a + d] = pos[k]
    BY <1>6, <2>2, <2>4, <2>5, <2>6
  <2>8. a + d = k
    <3>1. ~(a + d < k) /\ ~(k < a + d)
      BY <1>5, <2>1, <2>7
    <3> QED BY <2>6, <2>7, <3>1
  <2>9. a \in 1 .. k - 1 /\ k - a = d
    BY <2>6, <2>8
  <2> QED BY <2>2, <2>5, <2>6, <2>9
<1>9. PairedHistory(t)
  BY <1>3, <1>7, <1>8 DEF PairedHistory
<1> QED BY <1>9

\* Leaving the system messages out keeps a list paired: they stand in no group of
\* calls and results.
LEMMA TurnsPaired ==
    ASSUME NEW M, Counts(M), NEW h \in Seq(M), PairedHistory(h)
    PROVE  Turns(h) \in Seq(M) /\ PairedHistory(Turns(h))
<1> DEFINE S == {i \in DOMAIN h : h[i].role # "system"}
<1>1. Turns(h) \in Seq(M) /\ \E pos : Embeds(Turns(h), h, S, Len(h), pos)
  BY SubsequenceEmbeds DEF Turns
<1>2. \A i \in 1 .. Len(h) : h[i].role \in {"assistant", "tool"} => i \in S
  OBVIOUS
<1> HIDE DEF S
<1> QED BY <1>1, <1>2, EmbedsPaired

\* The system messages are a list of system messages.
LEMMA SystemOnly ==
    ASSUME NEW M, NEW h \in Seq(M)
    PROVE  /\ System(h) \in Seq(M)
           /\ \A k \in 1 .. Len(System(h)) : System(h)[k].role = "system"
           /\ PairedHistory(System(h))
<1> DEFINE S == {i \in DOMAIN h : h[i].role = "system"}
           t == System(h)
<1>1. t \in Seq(M) /\ \E pos : Embeds(t, h, S, Len(h), pos)
  BY SubsequenceEmbeds DEF System
<1>2. PICK pos : Embeds(t, h, S, Len(h), pos)
  BY <1>1
<1>3. \A k \in 1 .. Len(t) : t[k].role = "system"
  <2>1. \A k \in 1 .. Len(t) : pos[k] \in S /\ t[k] = h[pos[k]]
    BY <1>2 DEF Embeds
  <2> QED BY <2>1
<1> HIDE DEF t
<1>4. PairedHistory(t)
  <2>1. DOMAIN t = 1 .. Len(t)
    BY <1>1
  <2> QED BY <1>3, <2>1, NoCallsPaired
<1> QED BY <1>1, <1>3, <1>4 DEF t

-----------------------------------------------------------------------------
(* Where the recent part begins *)

From(t, i) == {j \in TurnStarts(t) : j >= i}

\* Counting the turns from the end, one is met for each that starts.
LEMMA FromStep ==
    ASSUME NEW M, NEW t \in Seq(M), NEW i \in 1 .. Len(t)
    PROVE  /\ IsFiniteSet(From(t, i)) /\ Cardinality(From(t, i)) \in Nat
           /\ IsFiniteSet(From(t, i + 1)) /\ Cardinality(From(t, i + 1)) \in Nat
           /\ i \in TurnStarts(t) => Cardinality(From(t, i)) = Cardinality(From(t, i + 1)) + 1
           /\ i \notin TurnStarts(t) => From(t, i) = From(t, i + 1)
<1>1. TurnStarts(t) \subseteq 1 .. Len(t) /\ Len(t) \in Nat
  BY DEF TurnStarts
<1>2. IsFiniteSet(TurnStarts(t))
  <2>1. IsFiniteSet(1 .. Len(t))
    BY <1>1, FS_Interval
  <2>2. TurnStarts(t) \in SUBSET (1 .. Len(t))
    BY <1>1
  <2> QED BY <2>1, <2>2, FS_Subset
<1>3. /\ IsFiniteSet(From(t, i)) /\ Cardinality(From(t, i)) \in Nat
      /\ IsFiniteSet(From(t, i + 1)) /\ Cardinality(From(t, i + 1)) \in Nat
  <2>1. From(t, i) \in SUBSET TurnStarts(t) /\ From(t, i + 1) \in SUBSET TurnStarts(t)
    BY DEF From
  <2> QED BY <1>2, <2>1, FS_Subset, FS_CardinalityType
<1>4. From(t, i) = From(t, i + 1) \cup (TurnStarts(t) \cap {i})
  BY <1>1 DEF From
<1>5. i \notin From(t, i + 1)
  BY DEF From
<1>6. CASE i \in TurnStarts(t)
  <2>1. From(t, i) = From(t, i + 1) \cup {i}
    BY <1>4, <1>6
  <2>2. Cardinality(From(t, i)) = Cardinality(From(t, i + 1)) + 1
    BY <1>3, <1>5, <2>1, FS_AddElement
  <2> QED BY <1>3, <1>6, <2>2
<1>7. CASE i \notin TurnStarts(t)
  BY <1>3, <1>4, <1>7
<1> QED BY <1>6, <1>7

\* With more turns than are kept there is one with which the recent part begins.
LEMMA HasCut ==
    ASSUME NEW M, NEW t \in Seq(M), NEW keep \in Nat \ {0}, Cardinality(TurnStarts(t)) > keep
    PROVE  KeepFrom(t, keep) # {}
<1> DEFINE n == Len(t)
           A == {k \in Nat : k <= n => Cardinality(From(t, (n + 1) - k)) < keep}
<1>1. n \in Nat /\ TurnStarts(t) \subseteq 1 .. n
  BY DEF TurnStarts
<1>2. SUFFICES ASSUME \A i \in TurnStarts(t) : Cardinality(From(t, i)) # keep PROVE FALSE
  BY DEF KeepFrom, From
<1>3. 0 \in A
  <2>1. (n + 1) - 0 = n + 1
    BY <1>1
  <2>2. From(t, n + 1) = {}
    BY <1>1 DEF From
  <2>3. Cardinality(From(t, n + 1)) < keep
    BY <2>2, FS_EmptySet
  <2> QED BY <2>1, <2>3
<1>4. ASSUME NEW k \in A PROVE k + 1 \in A
  <2>1. k \in Nat /\ k + 1 \in Nat
    OBVIOUS
  <2>2. SUFFICES ASSUME k + 1 <= n PROVE Cardinality(From(t, (n + 1) - (k + 1))) < keep
    BY <2>1
  <2>3. k <= n
    BY <1>1, <2>1, <2>2
  <2>4. Cardinality(From(t, (n + 1) - k)) < keep
    BY <2>3
  <2> DEFINE i == (n + 1) - (k + 1)
  <2>5. i \in 1 .. n /\ (n + 1) - k = i + 1
    BY <1>1, <2>1, <2>2
  <2> HIDE DEF i, n, A
  <2>6. Cardinality(From(t, i + 1)) < keep
    BY <2>4, <2>5
  <2>7. i \in 1 .. Len(t)
    BY <2>5 DEF n
  <2>8. CASE i \in TurnStarts(t)
    <3>1. Cardinality(From(t, i)) = Cardinality(From(t, i + 1)) + 1
          /\ Cardinality(From(t, i + 1)) \in Nat
      BY <2>7, <2>8, FromStep
    <3>2. Cardinality(From(t, i)) # keep
      BY <1>2, <2>8
    <3>3. Cardinality(From(t, i)) < keep
      BY <2>6, <3>1, <3>2
    <3> QED BY <3>3 DEF i
  <2>9. CASE i \notin TurnStarts(t)
    <3>1. From(t, i) = From(t, i + 1)
      BY <2>7, <2>9, FromStep
    <3> QED BY <2>6, <3>1 DEF i
  <2> QED BY <2>8, <2>9
<1>5. A = Nat
  <2> HIDE DEF A
  <2>1. A \in SUBSET Nat
    BY DEF A
  <2> QED BY <1>3, <1>4, <2>1, Induction
<1>6. Cardinality(From(t, (n + 1) - n)) < keep
  <2>1. n \in A
    <3> HIDE DEF A
    <3> QED BY <1>1, <1>5
  <2> QED BY <1>1, <2>1
<1>7. From(t, (n + 1) - n) = TurnStarts(t)
  BY <1>1 DEF From
<1>8. IsFiniteSet(TurnStarts(t)) /\ Cardinality(TurnStarts(t)) \in Nat
  <2>1. IsFiniteSet(1 .. n)
    BY <1>1, FS_Interval
  <2>2. TurnStarts(t) \in SUBSET (1 .. n)
    BY <1>1
  <2> QED BY <2>1, <2>2, FS_Subset, FS_CardinalityType
<1> QED BY <1>6, <1>7, <1>8

\* The recent part begins at a user message.
LEMMA CutAtTurn ==
    ASSUME NEW M, Counts(M), NEW h \in Seq(M), PairedHistory(h), NEW keep \in Nat \ {0},
           ~(Cardinality(TurnStarts(Turns(h))) <= keep)
    PROVE  /\ Cut(Turns(h), keep) \in KeepFrom(Turns(h), keep)
           /\ Cut(Turns(h), keep) \in 1 .. Len(Turns(h))
           /\ Turns(h)[Cut(Turns(h), keep)].role = "user"
<1> DEFINE t == Turns(h)
<1>1. t \in Seq(M)
  BY TurnsPaired
<1> HIDE DEF t
<1>2. TurnStarts(t) \in SUBSET (1 .. Len(t)) /\ Len(t) \in Nat
  BY <1>1 DEF TurnStarts
<1>3. Cardinality(TurnStarts(t)) \in Nat
  <2>1. IsFiniteSet(1 .. Len(t))
    BY <1>2, FS_Interval
  <2> QED BY <1>2, <2>1, FS_Subset, FS_CardinalityType
<1>4. Cardinality(TurnStarts(t)) > keep
  BY <1>3 DEF t
<1>5. KeepFrom(t, keep) # {}
  BY <1>1, <1>4, HasCut
<1>6. Cut(t, keep) \in KeepFrom(t, keep)
  BY <1>5 DEF Cut
<1>7. Cut(t, keep) \in TurnStarts(t)
  BY <1>6 DEF KeepFrom
<1>8. Cut(t, keep) \in 1 .. Len(t) /\ t[Cut(t, keep)].role = "user"
  BY <1>2, <1>7 DEF TurnStarts
<1> QED BY <1>6, <1>8 DEF t

\* compact_history() never separates a call from its results, wherever the recent
\* part begins and whatever is left out.
THEOREM CompactedPaired ==
    ASSUME NEW M, Counts(M), NEW h \in Seq(M), PairedHistory(h), NEW keep \in Nat \ {0},
           NEW summary \in M, summary.role = "user"
    PROVE  /\ CompactHistory(h, keep, summary) \in Seq(M)
           /\ PairedHistory(CompactHistory(h, keep, summary))
<1> DEFINE t == Turns(h)
           s == System(h)
           recent == SubSeq(t, Cut(t, keep), Len(t))
<1>1. t \in Seq(M) /\ PairedHistory(t)
  BY TurnsPaired
<1>2. s \in Seq(M) /\ PairedHistory(s)
  BY SystemOnly
<1>3. CASE Cardinality(TurnStarts(t)) <= keep
  <2>1. CompactHistory(h, keep, summary) = s \o t
    BY <1>3 DEF CompactHistory
  <2> HIDE DEF s, t
  <2> QED BY <1>1, <1>2, <2>1, PairedConcat
<1>4. CASE ~(Cardinality(TurnStarts(t)) <= keep)
  <2>1. CompactHistory(h, keep, summary) = (s \o <<summary>>) \o recent
    BY <1>4 DEF CompactHistory
  <2>2. Cut(t, keep) \in 1 .. Len(t) /\ t[Cut(t, keep)].role = "user"
    BY <1>4, CutAtTurn
  <2> HIDE DEF s, t
  <2>3. recent \in Seq(M) /\ PairedHistory(recent)
    BY <1>1, <2>2, PairedFromUser
  <2>4. <<summary>> \in Seq(M) /\ PairedHistory(<<summary>>)
    <3>1. \A i \in DOMAIN <<summary>> : <<summary>>[i].role \notin {"assistant", "tool"}
      OBVIOUS
    <3>2. PairedHistory(<<summary>>)
      BY <3>1, NoCallsPaired
    <3> QED BY <3>2
  <2> HIDE DEF recent
  <2>5. s \o <<summary>> \in Seq(M) /\ PairedHistory(s \o <<summary>>)
    BY <1>2, <2>4, PairedConcat
  <2> QED BY <2>1, <2>3, <2>5, PairedConcat
<1> QED BY <1>3, <1>4

\* The system prompt is the first message, and the only one of its kind.
PromptFirst(h) == h # << >> /\ \A i \in 1 .. Len(h) : h[i].role = "system" <=> i = 1

\* It is then all that System() finds.
LEMMA PromptAlone ==
    ASSUME NEW M, NEW h \in Seq(M), PromptFirst(h)
    PROVE  /\ Len(System(h)) = 1 /\ System(h)[1].role = "system"
           /\ \A k \in 1 .. Len(Turns(h)) : Turns(h)[k].role # "system"
<1> DEFINE S == {i \in DOMAIN h : h[i].role = "system"}
           N == {i \in DOMAIN h : h[i].role # "system"}
           s == System(h)
           t == Turns(h)
<1>1. s \in Seq(M) /\ \E pos : Embeds(s, h, S, Len(h), pos)
  BY SubsequenceEmbeds DEF System
<1>2. t \in Seq(M) /\ \E pos : Embeds(t, h, N, Len(h), pos)
  BY SubsequenceEmbeds DEF Turns
<1>3. Len(s) = 1 /\ s[1].role = "system"
  <2>1. PICK pos : Embeds(s, h, S, Len(h), pos)
    BY <1>1
  <2>2. 1 \in 1 .. Len(h) /\ 1 \in S /\ \A i \in S : i = 1
    BY DEF PromptFirst
  <2> HIDE DEF s
  <2>3. /\ \A k \in 1 .. Len(s) : pos[k] \in S /\ s[k] = h[pos[k]]
        /\ \A k, l \in 1 .. Len(s) : k < l => pos[k] < pos[l]
        /\ \E k \in 1 .. Len(s) : pos[k] = 1
    BY <2>1, <2>2 DEF Embeds
  <2>4. \A k \in 1 .. Len(s) : pos[k] = 1
    BY <2>2, <2>3
  <2>5. Len(s) \in Nat
    BY <1>1
  <2>6. ~(Len(s) >= 2)
    <3>1. SUFFICES ASSUME 1 \in 1 .. Len(s), 2 \in 1 .. Len(s) PROVE FALSE
      BY <2>5
    <3>2. pos[1] < pos[2]
      BY <2>3, <3>1
    <3> QED BY <2>4, <3>1, <3>2
  <2>7. Len(s) = 1
    <3>1. Len(s) >= 1
      <4>1. PICK k \in 1 .. Len(s) : TRUE
        BY <2>3
      <4> QED BY <2>5, <4>1
    <3>2. \A n \in Nat : n >= 1 /\ ~(n >= 2) => n = 1
      OBVIOUS
    <3> QED BY <2>5, <2>6, <3>1, <3>2
  <2> QED BY <2>3, <2>7
<1>4. \A k \in 1 .. Len(t) : t[k].role # "system"
  <2>1. PICK pos : Embeds(t, h, N, Len(h), pos)
    BY <1>2
  <2>2. \A k \in 1 .. Len(t) : pos[k] \in N /\ t[k] = h[pos[k]]
    BY <2>1 DEF Embeds
  <2> QED BY <2>2
<1> QED BY <1>3, <1>4

\* A list without system messages may follow it.
LEMMA PromptConcat ==
    ASSUME NEW M, NEW s \in Seq(M), PromptFirst(s), NEW t \in Seq(M),
           \A k \in 1 .. Len(t) : t[k].role # "system"
    PROVE  PromptFirst(s \o t)
<1> DEFINE u == s \o t
<1>1. /\ u \in Seq(M) /\ Len(s) \in Nat /\ Len(s) >= 1 /\ Len(t) \in Nat
      /\ Len(u) = Len(s) + Len(t)
      /\ \A i \in 1 .. Len(s) : u[i] = s[i]
      /\ \A i \in 1 .. Len(u) : i > Len(s) => i - Len(s) \in 1 .. Len(t)
                                              /\ u[i] = t[i - Len(s)]
  BY DEF PromptFirst
<1> HIDE DEF u
<1>2. u # << >>
  BY <1>1
<1>3. ASSUME NEW i \in 1 .. Len(u) PROVE u[i].role = "system" <=> i = 1
  <2>1. CASE i <= Len(s)
    <3>1. i \in 1 .. Len(s)
      BY <1>1, <2>1
    <3>2. u[i] = s[i]
      BY <1>1, <3>1
    <3> QED BY <3>1, <3>2 DEF PromptFirst
  <2>2. CASE i > Len(s)
    <3>1. u[i] = t[i - Len(s)] /\ i - Len(s) \in 1 .. Len(t) /\ i # 1
      BY <1>1, <2>2
    <3> QED BY <3>1
  <2> QED BY <1>1, <2>1, <2>2
<1> QED BY <1>2, <1>3 DEF PromptFirst, u

\* compact_history() neither loses nor repeats nor moves the system prompt.
THEOREM CompactedPrompt ==
    ASSUME NEW M, Counts(M), NEW h \in Seq(M), PairedHistory(h), PromptFirst(h),
           NEW keep \in Nat \ {0}, NEW summary \in M, summary.role = "user"
    PROVE  PromptFirst(CompactHistory(h, keep, summary))
<1> DEFINE t == Turns(h)
           s == System(h)
           recent == SubSeq(t, Cut(t, keep), Len(t))
<1>1. t \in Seq(M) /\ s \in Seq(M)
  BY TurnsPaired, SystemOnly
<1>2. Len(s) = 1 /\ s[1].role = "system" /\ \A k \in 1 .. Len(t) : t[k].role # "system"
  BY PromptAlone
<1>3. PromptFirst(s)
  <2> HIDE DEF s
  <2>1. s # << >> /\ \A i \in 1 .. Len(s) : i = 1
    <3>1. \A i \in 1 .. 1 : i = 1
      OBVIOUS
    <3>2. Len(<< >>) # 1
      OBVIOUS
    <3> QED BY <1>2, <3>1, <3>2
  <2> QED BY <1>2, <2>1 DEF PromptFirst
<1>4. CASE Cardinality(TurnStarts(t)) <= keep
  <2>1. CompactHistory(h, keep, summary) = s \o t
    BY <1>4 DEF CompactHistory
  <2> HIDE DEF s, t
  <2> QED BY <1>1, <1>2, <1>3, <2>1, PromptConcat
<1>5. CASE ~(Cardinality(TurnStarts(t)) <= keep)
  <2>1. CompactHistory(h, keep, summary) = (s \o <<summary>>) \o recent
    BY <1>5 DEF CompactHistory
  <2>2. Cut(t, keep) \in 1 .. Len(t)
    BY <1>5, CutAtTurn
  <2> HIDE DEF s, t
  <2>3. recent \in Seq(M) /\ \A k \in 1 .. Len(recent) :
            k + Cut(t, keep) - 1 \in 1 .. Len(t) /\ recent[k] = t[k + Cut(t, keep) - 1]
    BY <1>1, <2>2
  <2> HIDE DEF recent
  <2>4. \A k \in 1 .. Len(recent) : recent[k].role # "system"
    BY <1>2, <2>3
  <2>5. <<summary>> \in Seq(M) /\ \A k \in 1 .. Len(<<summary>>) :
            <<summary>>[k].role # "system"
    OBVIOUS
  <2>6. PromptFirst(s \o <<summary>>) /\ s \o <<summary>> \in Seq(M)
    <3>1. PromptFirst(s \o <<summary>>)
      BY <1>1, <1>3, <2>5, PromptConcat
    <3>2. s \o <<summary>> \in Seq(M)
      BY <1>1, <2>5
    <3> QED BY <3>1, <3>2
  <2> QED BY <2>1, <2>3, <2>4, <2>6, PromptConcat
<1> QED BY <1>4, <1>5

-----------------------------------------------------------------------------
(* A conversation, compacted at any point *)

Entry == [role : {"system", "user", "assistant", "tool"}, calls : Nat,
          tag : {"prompt", "said", "reply", "result", "summary"}]

\* The results of the calls that are not answered yet.
Missing(n) == [i \in 1 .. n |-> Msg("tool", 0, "result")]

ConversationInv ==
    /\ ms \in Seq(Entry) /\ owed \in Nat
    /\ PairedHistory(ms \o Missing(owed))
    /\ PromptFirst(ms)

\* The messages of a conversation.
LEMMA EntriesTyped ==
    /\ \A role \in {"system", "user", "assistant", "tool"}, n \in Nat,
          tag \in {"prompt", "said", "reply", "result", "summary"} :
           Msg(role, n, tag) \in Entry
    /\ \A role, n, tag : /\ Msg(role, n, tag).role = role
                         /\ Msg(role, n, tag).calls = n
    /\ Counts(Entry)
    /\ Said \in Entry /\ Said.role = "user"
    /\ Summary \in Entry /\ Summary.role = "user"
BY DEF Msg, Said, Summary, Entry, Counts

\* The missing results of n calls, one by one.
LEMMA MissingTyped ==
    ASSUME NEW n \in Nat
    PROVE  /\ Missing(n) \in Seq(Entry) /\ Len(Missing(n)) = n
           /\ \A i \in 1 .. n : Missing(n)[i].role = "tool"
           /\ n > 0 => Missing(n) = <<Msg("tool", 0, "result")>> \o Missing(n - 1)
<1> DEFINE r == Msg("tool", 0, "result")
<1>1. r \in Entry /\ r.role = "tool"
  BY EntriesTyped
<1>2. \A m : Missing(m) = [i \in 1 .. m |-> r]
  BY DEF Missing
<1> HIDE DEF r
<1>3. \A m \in Nat : Missing(m) \in Seq(Entry) /\ Len(Missing(m)) = m
                     /\ \A i \in 1 .. m : Missing(m)[i] = r
  <2> SUFFICES ASSUME NEW m \in Nat
               PROVE  /\ Missing(m) \in Seq(Entry) /\ Len(Missing(m)) = m
                      /\ \A i \in 1 .. m : Missing(m)[i] = r
    OBVIOUS
  <2>1. Missing(m) = [i \in 1 .. m |-> r]
    BY <1>2
  <2>2. Missing(m) \in Seq(Entry)
    BY <1>1, <2>1
  <2>3. Len(Missing(m)) = m
    BY <2>1
  <2>4. \A i \in 1 .. m : Missing(m)[i] = r
    BY <2>1
  <2> QED BY <2>2, <2>3, <2>4
<1>4. ASSUME n > 0 PROVE Missing(n) = <<r>> \o Missing(n - 1)
  <2> DEFINE u == <<r>> \o Missing(n - 1)
  <2>1. n - 1 \in Nat /\ Missing(n - 1) \in Seq(Entry) /\ Len(Missing(n - 1)) = n - 1
    BY <1>3, <1>4
  <2>2. u \in Seq(Entry) /\ Len(u) = n
    BY <1>1, <2>1
  <2>3. \A i \in 1 .. n : u[i] = IF i = 1 THEN r ELSE Missing(n - 1)[i - 1]
    BY <1>1, <2>1
  <2>4. \A i \in 1 .. n : i # 1 => i - 1 \in 1 .. n - 1
    OBVIOUS
  <2> HIDE DEF u
  <2>5. \A i \in 1 .. n : u[i] = r
    BY <1>3, <2>1, <2>3, <2>4
  <2>6. u = [i \in 1 .. n |-> r]
    BY <2>2, <2>5
  <2> QED BY <1>2, <2>6 DEF u
<1> QED BY <1>1, <1>3, <1>4 DEF r

\* A conversation opens with the prompt and the request.
LEMMA ConversationInit == Init => ConversationInv
<1> SUFFICES ASSUME Init PROVE ConversationInv
  OBVIOUS
<1> DEFINE p == Msg("system", 0, "prompt")
           q == Said
<1>1. ms = <<p, q>> /\ owed = 0
  BY DEF Init
<1>2. p \in Entry /\ p.role = "system" /\ q \in Entry /\ q.role = "user"
  BY EntriesTyped
<1> HIDE DEF p, q
<1>3. ms \in Seq(Entry) /\ Len(ms) = 2 /\ ms[1] = p /\ ms[2] = q
  BY <1>1, <1>2
<1>4. \A i \in 1 .. 2 : i = 1 \/ i = 2
  OBVIOUS
<1>5. PromptFirst(ms)
  <2>1. ms # << >>
    BY <1>1
  <2> QED BY <1>2, <1>3, <1>4, <2>1 DEF PromptFirst
<1>6. PairedHistory(ms)
  <2>1. \A i \in DOMAIN ms : ms[i].role \notin {"assistant", "tool"}
    BY <1>2, <1>3, <1>4
  <2> QED BY <2>1, NoCallsPaired
<1>7. ms \o Missing(owed) = ms
  <2>1. Missing(0) = << >>
    BY MissingTyped
  <2>2. ms \o << >> = ms
    BY <1>3
  <2> QED BY <1>1, <2>1, <2>2
<1> QED BY <1>1, <1>3, <1>5, <1>6, <1>7 DEF ConversationInv

\* Nothing is missing when nothing is owed.
LEMMA NothingMissing ==
    ASSUME ConversationInv, owed = 0
    PROVE  PairedHistory(ms)
<1>1. Missing(0) = << >>
  BY MissingTyped
<1>2. ms \o << >> = ms
  BY DEF ConversationInv
<1> QED BY <1>1, <1>2 DEF ConversationInv

\* A list to which messages other than system messages are appended.
LEMMA PromptAppend ==
    ASSUME NEW h \in Seq(Entry), PromptFirst(h), NEW m \in Entry, m.role # "system"
    PROVE  Append(h, m) = h \o <<m>> /\ Append(h, m) \in Seq(Entry) /\ PromptFirst(Append(h, m))
<1>1. Append(h, m) = h \o <<m>> /\ Append(h, m) \in Seq(Entry)
  OBVIOUS
<1>2. <<m>> \in Seq(Entry) /\ \A k \in 1 .. Len(<<m>>) : <<m>>[k].role # "system"
  OBVIOUS
<1>3. PromptFirst(h \o <<m>>)
  BY <1>2, PromptConcat
<1> QED BY <1>1, <1>3

\* Every step keeps the conversation paired up to what is owed.
LEMMA ConversationStep ==
    ASSUME Keep \in Nat \ {0}, ConversationInv, [Next]_(vars)
    PROVE  ConversationInv'
<1> USE EntriesTyped
<1>1. ms \in Seq(Entry) /\ owed \in Nat /\ PromptFirst(ms)
      /\ PairedHistory(ms \o Missing(owed))
  BY DEF ConversationInv
<1>2. CASE UserSpeaks
  <2> DEFINE q == Said
  <2>1. ms' = Append(ms, q) /\ owed = 0 /\ owed' = 0
    BY <1>2 DEF UserSpeaks
  <2>2. q \in Entry /\ q.role = "user"
    OBVIOUS
  <2> HIDE DEF q
  <2>3. ms' = ms \o <<q>> /\ ms' \in Seq(Entry) /\ PromptFirst(ms')
    BY <1>1, <2>1, <2>2, PromptAppend
  <2>4. <<q>> \in Seq(Entry) /\ PairedHistory(<<q>>)
    <3>1. \A i \in DOMAIN <<q>> : <<q>>[i].role \notin {"assistant", "tool"}
      BY <2>2
    <3>2. PairedHistory(<<q>>)
      BY <3>1, NoCallsPaired
    <3> QED BY <2>2, <3>2
  <2>5. PairedHistory(ms')
    BY <1>1, <2>1, <2>3, <2>4, NothingMissing, PairedConcat
  <2>6. ms' \o Missing(0) = ms'
    <3>1. Missing(0) = << >>
      BY MissingTyped
    <3> QED BY <2>3, <3>1
  <2> QED BY <2>1, <2>3, <2>5, <2>6 DEF ConversationInv
<1>3. CASE AssistantReplies
  <2>1. PICK n \in 0 .. MaxCalls :
            ms' = Append(ms, Msg("assistant", n, "reply")) /\ owed' = n
    BY <1>3 DEF AssistantReplies
  <2> DEFINE a == Msg("assistant", n, "reply")
  <2>2. n \in Nat /\ owed = 0
    BY <1>3 DEF AssistantReplies
  <2>3. a \in Entry /\ a.role = "assistant" /\ a.calls = n
    BY <2>2
  <2> HIDE DEF a
  <2>4. ms' = ms \o <<a>> /\ ms' \in Seq(Entry) /\ PromptFirst(ms')
    BY <1>1, <2>1, <2>3, PromptAppend DEF a
  <2>5. Missing(n) \in Seq(Entry) /\ Len(Missing(n)) = n
        /\ \A i \in 1 .. n : Missing(n)[i].role = "tool"
    BY <2>2, MissingTyped
  <2>6. <<a>> \o Missing(n) \in Seq(Entry) /\ PairedHistory(<<a>> \o Missing(n))
    BY <2>3, <2>5, GroupPaired
  <2>7. PairedHistory(ms \o (<<a>> \o Missing(n)))
    BY <1>1, <2>2, <2>6, NothingMissing, PairedConcat
  <2>8. ms' \o Missing(n) = ms \o (<<a>> \o Missing(n))
    BY <1>1, <2>3, <2>4, <2>5
  <2> QED BY <2>1, <2>2, <2>4, <2>7, <2>8 DEF ConversationInv
<1>4. CASE ToolAnswers
  <2> DEFINE r == Msg("tool", 0, "result")
  <2>1. ms' = Append(ms, r) /\ owed > 0 /\ owed' = owed - 1
    BY <1>4 DEF ToolAnswers
  <2>2. r \in Entry /\ r.role = "tool"
    OBVIOUS
  <2>3. Missing(owed) = <<r>> \o Missing(owed - 1)
    BY <1>1, <2>1, MissingTyped
  <2> HIDE DEF r
  <2>4. ms' = ms \o <<r>> /\ ms' \in Seq(Entry) /\ PromptFirst(ms')
    BY <1>1, <2>1, <2>2, PromptAppend
  <2>5. owed - 1 \in Nat /\ Missing(owed - 1) \in Seq(Entry)
    BY <1>1, <2>1, MissingTyped
  <2>6. ms' \o Missing(owed - 1) = ms \o Missing(owed)
    BY <1>1, <2>2, <2>3, <2>4, <2>5
  <2> QED BY <1>1, <2>1, <2>4, <2>5, <2>6 DEF ConversationInv
<1>5. CASE Compact
  <2> DEFINE s == Summary
  <2>1. ms' = CompactHistory(ms, Keep, s) /\ owed = 0 /\ owed' = 0
    BY <1>5 DEF Compact
  <2>2. Counts(Entry) /\ s \in Entry /\ s.role = "user" /\ PairedHistory(ms)
    BY <2>1, NothingMissing
  <2> HIDE DEF s
  <2>3. ms' \in Seq(Entry) /\ PairedHistory(ms')
    BY <1>1, <2>1, <2>2, CompactedPaired
  <2>4. PromptFirst(ms')
    BY <1>1, <2>1, <2>2, CompactedPrompt
  <2>5. ms' \o Missing(0) = ms'
    <3>1. Missing(0) = << >>
      BY MissingTyped
    <3> QED BY <2>3, <3>1
  <2> QED BY <2>1, <2>3, <2>4, <2>5 DEF ConversationInv
<1>6. CASE UNCHANGED vars
  BY <1>6 DEF vars, ConversationInv, Missing, PromptFirst, PairedHistory
<1> QED BY <1>2, <1>3, <1>4, <1>5, <1>6 DEF Next

\* However often a conversation is compacted, each list the model is sent pairs
\* every call with its results and opens with the one system prompt.
THEOREM CompactionKeepsPairsHolds ==
    Keep \in Nat \ {0} => (Spec => []CompactionKeepsPairs)
<1> SUFFICES ASSUME Keep \in Nat \ {0}
             PROVE  Spec => []CompactionKeepsPairs
  OBVIOUS
<1>1. Init => ConversationInv
  BY ConversationInit
<1>2. ConversationInv /\ [Next]_(vars) => ConversationInv'
  BY ConversationStep
<1>3. ConversationInv => CompactionKeepsPairs
  <2> SUFFICES ASSUME ConversationInv, owed = 0
               PROVE  /\ PairedHistory(ms)
                      /\ \A i \in DOMAIN ms : ms[i].role = "system" <=> i = 1
    BY DEF CompactionKeepsPairs
  <2>1. PairedHistory(ms)
    BY NothingMissing
  <2>2. DOMAIN ms = 1 .. Len(ms) /\ PromptFirst(ms)
    BY DEF ConversationInv
  <2> QED BY <2>1, <2>2 DEF PromptFirst
<1> QED BY <1>1, <1>2, <1>3, PTL DEF Spec

-----------------------------------------------------------------------------
(* What is kept verbatim *)

\* A set of naturals has a least member.
LEMMA LeastExists ==
    ASSUME NEW S \in SUBSET Nat, S # {}
    PROVE  \E i \in S : \A j \in S : i <= j
<1>1. SUFFICES ASSUME \A i \in S : \E j \in S : ~(i <= j) PROVE FALSE
  OBVIOUS
<1> DEFINE A == {n \in Nat : \A j \in S : n < j}
<1>2. \A i, j \in Nat : (~(i <= j) <=> j < i) /\ (j < i + 1 => j = i \/ j < i) /\ ~(j < 0)
  OBVIOUS
<1>3. ASSUME NEW n \in Nat, \A j \in S : ~(j < n) PROVE n \notin S
  BY <1>1, <1>2, <1>3
<1>4. 0 \in A
  <2>1. 0 \notin S
    BY <1>2, <1>3
  <2>2. \A j \in Nat : j # 0 => 0 < j
    OBVIOUS
  <2> QED BY <2>1, <2>2
<1>5. ASSUME NEW n \in A PROVE n + 1 \in A
  <2>1. n \in Nat /\ n + 1 \in Nat /\ \A j \in S : n < j
    OBVIOUS
  <2>2. \A j \in Nat : n < j => ~(j < n + 1) /\ (j # n + 1 => n + 1 < j)
    BY <2>1
  <2>3. n + 1 \notin S
    BY <1>3, <2>1, <2>2
  <2> QED BY <2>1, <2>2, <2>3
<1>6. A = Nat
  <2> HIDE DEF A
  <2>1. A \in SUBSET Nat
    BY DEF A
  <2> QED BY <1>4, <1>5, <2>1, Induction
<1>7. PICK m \in S : TRUE
  OBVIOUS
<1>8. m \in A
  <2> HIDE DEF A
  <2> QED BY <1>6
<1> QED BY <1>7, <1>8

\* A list ends with whatever is appended to it.
LEMMA SuffixConcat ==
    ASSUME NEW M, NEW u \in Seq(M), NEW r \in Seq(M)
    PROVE  IsSuffix(r, u \o r)
<1> DEFINE w == u \o r
           x == Reverse(r)
           y == Reverse(w)
<1>1. /\ w \in Seq(M) /\ Len(w) = Len(u) + Len(r) /\ Len(u) \in Nat /\ Len(r) \in Nat
      /\ \A i \in 1 .. Len(r) : w[Len(u) + i] = r[i]
  OBVIOUS
<1> HIDE DEF w
<1>2. x = [i \in 1 .. Len(r) |-> r[(Len(r) - i) + 1]]
      /\ y = [i \in 1 .. Len(w) |-> w[(Len(w) - i) + 1]]
  BY DEF Reverse
<1>3. \A i \in 1 .. Len(r) : (Len(r) - i) + 1 \in 1 .. Len(r)
  BY <1>1
<1>4. \A i \in 1 .. Len(w) : (Len(w) - i) + 1 \in 1 .. Len(w)
  BY <1>1
<1> HIDE DEF x, y
<1>5. x \in Seq(M) /\ Len(x) = Len(r)
  BY <1>1, <1>2, <1>3
<1>6. y \in Seq(M) /\ Len(y) = Len(w)
  BY <1>1, <1>2, <1>4
<1>7. ASSUME NEW i \in 1 .. Len(r) PROVE x[i] = y[i]
  <2> DEFINE k == (Len(r) - i) + 1
  <2>1. k \in 1 .. Len(r) /\ (Len(w) - i) + 1 = Len(u) + k /\ i \in 1 .. Len(w)
    BY <1>1
  <2>2. x[i] = r[k]
    BY <1>2
  <2>3. y[i] = w[(Len(w) - i) + 1]
    BY <1>2, <2>1
  <2> HIDE DEF k
  <2> QED BY <1>1, <2>1, <2>2, <2>3
<1>8. Len(x) <= Len(y)
  BY <1>1, <1>5, <1>6
<1>9. SubSeq(x, 1, Len(x)) = SubSeq(y, 1, Len(x))
  <2>1. SubSeq(x, 1, Len(x)) = [i \in 1 .. Len(r) |-> x[i]]
    BY <1>5
  <2>2. SubSeq(y, 1, Len(x)) = [i \in 1 .. Len(r) |-> y[i]]
    BY <1>1, <1>5, <1>6
  <2>3. [i \in 1 .. Len(r) |-> x[i]] = [i \in 1 .. Len(r) |-> y[i]]
    BY <1>7
  <2> QED BY <2>1, <2>2, <2>3
<1>10. IsPrefix(x, y)
  BY <1>8, <1>9 DEF IsPrefix
<1> QED BY <1>10 DEF IsSuffix, x, y, w

\* A list ends with the end of what is appended to it.
LEMMA SuffixOfPart ==
    ASSUME NEW M, NEW s \in Seq(M), NEW t \in Seq(M), NEW i \in 1 .. Len(t)
    PROVE  IsSuffix(SubSeq(t, i, Len(t)), s \o t)
<1> DEFINE a == SubSeq(t, 1, i - 1)
           b == SubSeq(t, i, Len(t))
<1>1. /\ a \in Seq(M) /\ Len(a) = i - 1 /\ \A k \in 1 .. i - 1 : a[k] = t[k]
      /\ b \in Seq(M) /\ Len(b) = (Len(t) - i) + 1
      /\ \A k \in 1 .. Len(b) : b[k] = t[(i + k) - 1]
  OBVIOUS
<1> HIDE DEF a, b
<1>2. a \o b \in Seq(M) /\ Len(a \o b) = Len(t)
  BY <1>1
<1>3. ASSUME NEW k \in 1 .. Len(t) PROVE (a \o b)[k] = t[k]
  <2>1. CASE k <= i - 1
    BY <1>1, <2>1
  <2>2. CASE ~(k <= i - 1)
    <3>1. k - (i - 1) \in 1 .. Len(b) /\ (i + (k - (i - 1))) - 1 = k
      BY <1>1, <2>2
    <3>2. (a \o b)[k] = b[k - (i - 1)]
      BY <1>1, <2>2
    <3> QED BY <1>1, <3>1, <3>2
  <2> QED BY <2>1, <2>2
<1>4. a \o b = t
  <2> DEFINE c == a \o b
  <2>1. c \in Seq(M) /\ Len(c) = Len(t) /\ \A k \in 1 .. Len(t) : c[k] = t[k]
    BY <1>2, <1>3
  <2> HIDE DEF c
  <2>2. c = t
    BY <2>1
  <2> QED BY <2>2 DEF c
<1>5. s \o t = (s \o a) \o b /\ s \o a \in Seq(M)
  <2>1. s \o (a \o b) = (s \o a) \o b
    BY <1>1
  <2>2. s \o a \in Seq(M)
    BY <1>1
  <2> QED BY <1>4, <2>1, <2>2
<1>6. IsSuffix(b, (s \o a) \o b)
  BY <1>1, <1>5, SuffixConcat
<1> QED BY <1>5, <1>6 DEF b

\* With more turns than are kept, the recent part begins at the first of the
\* starts that at most keep turns follow.
LEMMA CutIsLeast ==
    ASSUME NEW M, NEW t \in Seq(M), Keep \in Nat, NEW c \in KeepFrom(t, Keep)
    PROVE  c \in RecentStarts(t) /\ \A i \in RecentStarts(t) : c <= i
<1>1. TurnStarts(t) \subseteq 1 .. Len(t) /\ Len(t) \in Nat
  BY DEF TurnStarts
<1>2. c \in TurnStarts(t) /\ Cardinality(From(t, c)) = Keep
  BY DEF KeepFrom, From
<1>3. c \in RecentStarts(t)
  BY <1>2 DEF RecentStarts, From
<1>4. ASSUME NEW i \in RecentStarts(t), ~(c <= i) PROVE FALSE
  <2>1. i \in TurnStarts(t) /\ Cardinality(From(t, i)) <= Keep /\ i < c
    BY <1>1, <1>2, <1>4 DEF RecentStarts, From
  <2>2. From(t, c) \in SUBSET From(t, i) /\ i \in From(t, i) /\ i \notin From(t, c)
    BY <1>1, <1>2, <2>1 DEF From
  <2>3. IsFiniteSet(From(t, i)) /\ Cardinality(From(t, i)) \in Nat
    BY <1>1, <2>1, FromStep
  <2>4. Cardinality(From(t, c)) < Cardinality(From(t, i))
    <3>1. From(t, c) # From(t, i)
      BY <2>2
    <3>2. /\ IsFiniteSet(From(t, c))
          /\ Cardinality(From(t, c)) <= Cardinality(From(t, i))
          /\ Cardinality(From(t, i)) = Cardinality(From(t, c)) => From(t, i) = From(t, c)
      BY <2>2, <2>3, FS_Subset
    <3>3. Cardinality(From(t, c)) \in Nat
      BY <3>2, FS_CardinalityType
    <3> QED BY <2>3, <3>1, <3>2, <3>3
  <2> QED BY <1>2, <2>1, <2>3, <2>4
<1> QED BY <1>3, <1>4

\* compact_history() ends the list with its most recent turns, verbatim.
THEOREM CompactedRecent ==
    ASSUME Keep \in Nat \ {0}, NEW M, Counts(M), NEW h \in Seq(M), PairedHistory(h),
           NEW summary \in M
    PROVE  IsSuffix(RecentTurns(h), CompactHistory(h, Keep, summary))
<1> DEFINE t == Turns(h)
           s == System(h)
           S == RecentStarts(t)
           least == FirstOf(S)
<1>1. t \in Seq(M) /\ s \in Seq(M)
  BY TurnsPaired, SystemOnly
<1>2. RecentTurns(h) = IF S = {} THEN << >> ELSE SubSeq(t, least, Len(t))
  BY DEF RecentTurns
<1>3. S \subseteq TurnStarts(t) /\ TurnStarts(t) \subseteq 1 .. Len(t) /\ Len(t) \in Nat
  <2> HIDE DEF t
  <2> QED BY <1>1 DEF RecentStarts, TurnStarts
<1>4. S # {} => least \in S /\ \A j \in S : least <= j
  <2> HIDE DEF t, S
  <2>1. S \in SUBSET Nat
    BY <1>3
  <2> QED BY <2>1, LeastExists DEF FirstOf
<1>5. CASE Cardinality(TurnStarts(t)) <= Keep
  <2>1. CompactHistory(h, Keep, summary) = s \o t
    BY <1>5 DEF CompactHistory
  <2> HIDE DEF s, t, S, least
  <2>2. CASE S = {}
    <3>1. << >> \in Seq(M) /\ s \o t \in Seq(M) /\ (s \o t) \o << >> = s \o t
      BY <1>1
    <3>2. IsSuffix(<< >>, (s \o t) \o << >>)
      BY <3>1, SuffixConcat
    <3> QED BY <1>2, <2>1, <2>2, <3>1, <3>2
  <2>3. CASE S # {}
    <3>1. least \in 1 .. Len(t)
      BY <1>3, <1>4, <2>3
    <3>2. IsSuffix(SubSeq(t, least, Len(t)), s \o t)
      BY <1>1, <3>1, SuffixOfPart
    <3> QED BY <1>2, <2>1, <2>3, <3>2
  <2> QED BY <2>2, <2>3
<1>6. CASE ~(Cardinality(TurnStarts(t)) <= Keep)
  <2> DEFINE c == Cut(t, Keep)
  <2>1. CompactHistory(h, Keep, summary) = (s \o <<summary>>) \o SubSeq(t, c, Len(t))
    BY <1>6 DEF CompactHistory
  <2>2. c \in KeepFrom(t, Keep) /\ c \in 1 .. Len(t)
    BY <1>6, CutAtTurn
  <2>3. c \in S /\ \A i \in S : c <= i
    <3> HIDE DEF t, c
    <3>1. c \in RecentStarts(t) /\ \A i \in RecentStarts(t) : c <= i
      BY <1>1, <2>2, CutIsLeast
    <3> QED BY <3>1
  <2> HIDE DEF s, t, S, least, c
  <2>4. S # {} /\ least \in S /\ c <= least /\ least <= c
    BY <1>4, <2>3
  <2>5. least = c
    BY <1>3, <2>2, <2>4
  <2>6. SubSeq(t, c, Len(t)) \in Seq(M) /\ s \o <<summary>> \in Seq(M)
    BY <1>1, <2>2
  <2>7. IsSuffix(SubSeq(t, c, Len(t)), (s \o <<summary>>) \o SubSeq(t, c, Len(t)))
    BY <2>6, SuffixConcat
  <2> QED BY <1>2, <2>1, <2>4, <2>5, <2>7
<1> QED BY <1>5, <1>6

\* Whenever a conversation is compacted, the turns compact_history() promises to
\* keep end the new list, unchanged.
THEOREM RecentTurnsKeptHolds ==
    Keep \in Nat \ {0} => (Spec => RecentTurnsKept)
<1> SUFFICES ASSUME Keep \in Nat \ {0}
             PROVE  Spec => RecentTurnsKept
  OBVIOUS
<1>1. Init => ConversationInv
  BY ConversationInit
<1>2. ConversationInv /\ [Next]_(vars) => ConversationInv'
  BY ConversationStep
<1>3. ConversationInv => [Compact =>
          IsSuffix(RecentTurns(ms), ms')]_(vars)
  <2> SUFFICES ASSUME ConversationInv, Compact
               PROVE  IsSuffix(RecentTurns(ms), ms')
    OBVIOUS
  <2> DEFINE s == Summary
  <2>1. ms' = CompactHistory(ms, Keep, s) /\ owed = 0
    BY DEF Compact
  <2>2. ms \in Seq(Entry) /\ PairedHistory(ms) /\ Counts(Entry) /\ s \in Entry
    BY <2>1, NothingMissing, EntriesTyped DEF ConversationInv
  <2> HIDE DEF s
  <2> QED BY <2>1, <2>2, CompactedRecent
<1> QED BY <1>1, <1>2, <1>3, PTL DEF Spec, RecentTurnsKept
=============================================================================
