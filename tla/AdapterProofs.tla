---------------------------- MODULE AdapterProofs ----------------------------
(***************************************************************************)
(* Proofs about ConnectorAdapters: for every service, page size, limit and *)
(* number of failures and changes; and about Chunking: for every content,  *)
(* chunk size and overlap.                                                 *)
(***************************************************************************)
EXTENDS ConnectorAdapters, Chunking, FiniteSetTheorems, SequenceTheorems, TLAPS

----------------------------------------------------------------------------
(* leaving entries out of a sequence *)

Stay(s, F) == {k \in DOMAIN s : s[k] \notin F}
UpTo(S, k) == Cardinality(S \cap (1 .. k))

\* Counting the positions of a set up to each of them is a bijection with the first
\* numbers, and keeps the order.
LEMMA UpToCounts ==
  ASSUME NEW S, IsFiniteSet(S), S \subseteq Nat \ {0}
  PROVE  /\ Cardinality(S) \in Nat
         /\ \A k \in S : UpTo(S, k) \in 1 .. Cardinality(S) /\ UpTo(S, k) <= k
         /\ \A j, k \in S : j < k => UpTo(S, j) < UpTo(S, k)
         /\ \A n \in 1 .. Cardinality(S) : \E k \in S : UpTo(S, k) = n
<1> DEFINE rank == [k \in S |-> UpTo(S, k)]
           C == Cardinality(S)
<1>0. C \in Nat /\ \A k \in S : k \in Nat /\ k >= 1
  BY FS_CardinalityType
<1>1. ASSUME NEW k \in Int
      PROVE  IsFiniteSet(S \cap (1 .. k)) /\ Cardinality(S \cap (1 .. k)) \in 0 .. C
  <2>1. S \cap (1 .. k) \subseteq S
    OBVIOUS
  <2>2. IsFiniteSet(S \cap (1 .. k)) /\ Cardinality(S \cap (1 .. k)) <= C
    BY <1>0, <2>1, FS_Subset
  <2>3. Cardinality(S \cap (1 .. k)) \in Nat
    BY <2>2, FS_CardinalityType
  <2> QED
    BY <2>2, <2>3, <1>0
<1>2. ASSUME NEW k \in S
      PROVE  UpTo(S, k) \in 1 .. C /\ UpTo(S, k) <= k
  <2>1. k \in Nat /\ k >= 1
    BY <1>0
  <2>2. IsFiniteSet(1 .. k) /\ Cardinality(1 .. k) = k
    BY <2>1, FS_Interval
  <2>3. S \cap (1 .. k) \subseteq 1 .. k
    OBVIOUS
  <2>4. Cardinality(S \cap (1 .. k)) <= Cardinality(1 .. k)
    BY <2>2, <2>3, FS_Subset
  <2>5. Cardinality(S \cap (1 .. k)) # 0
    <3>1. k \in S \cap (1 .. k)
      BY <2>1
    <3>2. IsFiniteSet(S \cap (1 .. k))
      BY <1>1, <2>1
    <3> QED
      BY <3>1, <3>2, FS_EmptySet
  <2>6. UpTo(S, k) = Cardinality(S \cap (1 .. k))
    BY DEF UpTo
  <2>7. Cardinality(S \cap (1 .. k)) \in 0 .. C
    BY <1>1, <2>1
  <2> QED
    BY <1>0, <2>1, <2>2, <2>4, <2>5, <2>6, <2>7
<1>3. ASSUME NEW j \in S, NEW k \in S, j < k
      PROVE  UpTo(S, j) < UpTo(S, k)
  <2>0. j \in Nat /\ k \in Nat /\ j >= 1
    BY <1>0
  <2>1. (S \cap (1 .. j)) \cup {k} \subseteq S \cap (1 .. k)
    BY <2>0, <1>3
  <2>2. k \notin S \cap (1 .. j)
    BY <2>0, <1>3
  <2>3. /\ IsFiniteSet(S \cap (1 .. j)) /\ Cardinality(S \cap (1 .. j)) \in 0 .. C
        /\ IsFiniteSet(S \cap (1 .. k)) /\ Cardinality(S \cap (1 .. k)) \in 0 .. C
    BY <1>1, <2>0
  <2>4. UpTo(S, j) = Cardinality(S \cap (1 .. j)) /\ UpTo(S, k) = Cardinality(S \cap (1 .. k))
    BY DEF UpTo
  <2>5. Cardinality((S \cap (1 .. j)) \cup {k}) = Cardinality(S \cap (1 .. j)) + 1
    BY <2>2, <2>3, FS_AddElement
  <2>6. Cardinality((S \cap (1 .. j)) \cup {k}) <= Cardinality(S \cap (1 .. k))
    BY <2>1, <2>3, FS_Subset
  <2> QED
    BY <1>0, <2>3, <2>4, <2>5, <2>6
<1>4. rank \in Injection(S, 1 .. C)
  <2>1. rank \in [S -> 1 .. C]
    BY <1>2
  <2>2. ASSUME NEW a \in S, NEW b \in S, rank[a] = rank[b]
        PROVE  a = b
    <3>1. a \in Int /\ b \in Int
      BY <1>0
    <3>2. rank[a] \in Int /\ rank[b] \in Int /\ rank[a] = UpTo(S, a) /\ rank[b] = UpTo(S, b)
      BY <1>2, <1>0
    <3>3. CASE a < b
      BY <1>3, <2>2, <3>2, <3>3
    <3>4. CASE b < a
      BY <1>3, <2>2, <3>2, <3>4
    <3> QED
      BY <3>1, <3>3, <3>4
  <2> QED
    BY <2>1, <2>2 DEF Injection, IsInjective
<1>5. rank \in Surjection(S, 1 .. C)
  <2>1. IsFiniteSet(1 .. C) /\ Cardinality(1 .. C) = C
    BY <1>0, FS_Interval
  <2> QED
    BY <1>4, <2>1, FS_Injection
<1>6. ASSUME NEW n \in 1 .. C
      PROVE  \E k \in S : UpTo(S, k) = n
  BY <1>5 DEF Surjection
<1> QED
  BY <1>0, <1>2, <1>3, <1>6

\* The positions that stay are finitely many, and no more than there are positions.
LEMMA StayFinite ==
  ASSUME NEW E, NEW s \in Seq(E), NEW F
  PROVE  /\ IsFiniteSet(Stay(s, F))
         /\ Cardinality(Stay(s, F)) \in 0 .. Len(s)
<1>0. Len(s) \in Nat
  OBVIOUS
<1>1. IsFiniteSet(1 .. Len(s)) /\ Cardinality(1 .. Len(s)) = Len(s)
  BY <1>0, FS_Interval
<1>2. Stay(s, F) \subseteq 1 .. Len(s)
  BY DEF Stay
<1>3. IsFiniteSet(Stay(s, F)) /\ Cardinality(Stay(s, F)) <= Cardinality(1 .. Len(s))
  BY <1>1, <1>2, FS_Subset
<1>4. Cardinality(Stay(s, F)) \in Nat
  BY <1>3, FS_CardinalityType
<1> QED
  BY <1>1, <1>3, <1>4

\* What Without makes of a sequence: the entries that stay, each at its count.
LEMMA WithoutOrder ==
  ASSUME NEW E, NEW s \in Seq(E), NEW F
  PROVE  /\ Without(s, F) \in Seq(E)
         /\ Len(Without(s, F)) = Cardinality(Stay(s, F))
         /\ Len(Without(s, F)) \in 0 .. Len(s)
         /\ \A k \in Stay(s, F) : /\ UpTo(Stay(s, F), k) \in 1 .. Len(Without(s, F))
                                  /\ Without(s, F)[UpTo(Stay(s, F), k)] = s[k]
         /\ \A n \in 1 .. Len(Without(s, F)) :
              \E k \in Stay(s, F) : UpTo(Stay(s, F), k) = n /\ Without(s, F)[n] = s[k]
<1> DEFINE S == Stay(s, F)
           W == Without(s, F)
           C == Cardinality(S)
           pick(n) == CHOOSE k \in S : UpTo(S, k) = n
<1>1. IsFiniteSet(S) /\ S \subseteq Nat \ {0} /\ S \subseteq 1 .. Len(s) /\ C \in 0 .. Len(s)
  <2>1. S \subseteq 1 .. Len(s) /\ Len(s) \in Nat
    BY DEF Stay
  <2>2. IsFiniteSet(S) /\ C \in 0 .. Len(s)
    BY StayFinite
  <2> QED
    BY <2>1, <2>2
<1>2. W = [n \in 1 .. C |-> s[pick(n)]]
  BY DEF Without, Stay, UpTo
<1> HIDE DEF S, W
<1>3. /\ C \in Nat
      /\ \A k \in S : UpTo(S, k) \in 1 .. C /\ UpTo(S, k) <= k
      /\ \A j, k \in S : j < k => UpTo(S, j) < UpTo(S, k)
      /\ \A n \in 1 .. C : \E k \in S : UpTo(S, k) = n
  BY <1>1, UpToCounts
<1> HIDE DEF C
<1>4. ASSUME NEW n \in 1 .. C
      PROVE  pick(n) \in S /\ UpTo(S, pick(n)) = n
  BY <1>3
<1> HIDE DEF pick
<1>5. ASSUME NEW k \in S
      PROVE  pick(UpTo(S, k)) = k
  <2>1. UpTo(S, k) \in 1 .. C
    BY <1>3
  <2>2. pick(UpTo(S, k)) \in S /\ UpTo(S, pick(UpTo(S, k))) = UpTo(S, k)
    BY <2>1, <1>4
  <2>3. \A j \in S : j \in Int /\ UpTo(S, j) \in Int
    BY <1>1, <1>3
  <2>4. ~(pick(UpTo(S, k)) < k) /\ ~(k < pick(UpTo(S, k)))
    BY <1>3, <2>2, <2>3
  <2> QED
    BY <2>2, <2>3, <2>4
<1>6. W \in Seq(E) /\ Len(W) = C
  <2>1. ASSUME NEW n \in 1 .. C
        PROVE  s[pick(n)] \in E
    <3>1. pick(n) \in 1 .. Len(s)
      BY <1>1, <1>4
    <3> QED
      BY <3>1
  <2> QED
    BY <1>2, <1>3, <2>1
<1>7. \A k \in S : UpTo(S, k) \in 1 .. Len(W) /\ W[UpTo(S, k)] = s[k]
  BY <1>2, <1>3, <1>5, <1>6
<1>8. \A n \in 1 .. Len(W) : \E k \in S : UpTo(S, k) = n /\ W[n] = s[k]
  BY <1>2, <1>4, <1>6
<1> QED
  BY <1>1, <1>6, <1>7, <1>8 DEF S, W, C

\* Leaving nothing out.
LEMMA WithoutNone ==
  ASSUME NEW E, NEW s \in Seq(E)
  PROVE  Without(s, {}) = s
<1> DEFINE S == Stay(s, {})
           W == Without(s, {})
<1>1. S = 1 .. Len(s) /\ Len(s) \in Nat
  BY DEF Stay
<1>2. /\ W \in Seq(E) /\ Len(W) = Cardinality(S)
      /\ \A k \in S : W[UpTo(S, k)] = s[k]
  BY WithoutOrder
<1> HIDE DEF S, W
<1>3. Cardinality(S) = Len(s)
  BY <1>1, FS_Interval
<1>4. ASSUME NEW k \in 1 .. Len(s)
      PROVE  W[k] = s[k]
  <2>1. S \cap (1 .. k) = 1 .. k /\ k \in Nat
    BY <1>1
  <2>2. Cardinality(1 .. k) = k
    BY <2>1, FS_Interval
  <2>3. UpTo(S, k) = k
    BY <2>1, <2>2 DEF UpTo
  <2> QED
    BY <1>1, <1>2, <2>3
<1>5. W = s
  BY <1>1, <1>2, <1>3, <1>4
<1> QED
  BY <1>5 DEF W

\* What stays of a beginning is a beginning of what stays, and the first n of it hold
\* whatever stays of the first n entries.
LEMMA WithoutPrefix ==
  ASSUME NEW E, NEW s \in Seq(E), NEW F, NEW m \in 0 .. Len(s), NEW n \in Nat
  PROVE  LET t == Take(Without(SubSeq(s, 1, m), F), n)
         IN  /\ t \in Seq(E) /\ IsPrefix(t, Without(s, F))
             /\ \A k \in 1 .. m : s[k] \in F \cup ToSet(t) \/ k > n
<1> DEFINE g == SubSeq(s, 1, m)
           G == Stay(g, F)
           S == Stay(s, F)
           U == Without(g, F)
           W == Without(s, F)
           t == Take(U, n)
<1>1. g \in Seq(E) /\ Len(g) = m /\ m \in Nat /\ m <= Len(s) /\ \A k \in 1 .. m : g[k] = s[k]
  <2>1. m \in Nat /\ Len(s) \in Nat /\ m <= Len(s)
    OBVIOUS
  <2> QED
    BY <2>1
<1>2. G = S \cap (1 .. m) /\ S \subseteq 1 .. Len(s)
  BY <1>1 DEF Stay
<1>3. /\ U \in Seq(E) /\ Len(U) = Cardinality(G) /\ Len(U) \in 0 .. m
      /\ \A k \in G : UpTo(G, k) \in 1 .. Len(U) /\ U[UpTo(G, k)] = g[k]
      /\ \A i \in 1 .. Len(U) : \E k \in G : UpTo(G, k) = i /\ U[i] = g[k]
  <2>1. Len(U) \in 0 .. Len(g)
    BY <1>1, WithoutOrder
  <2>2. /\ U \in Seq(E) /\ Len(U) = Cardinality(G)
        /\ \A k \in G : UpTo(G, k) \in 1 .. Len(U) /\ U[UpTo(G, k)] = g[k]
        /\ \A i \in 1 .. Len(U) : \E k \in G : UpTo(G, k) = i /\ U[i] = g[k]
    <3>1. g \in Seq(E)
      BY <1>1
    <3> HIDE DEF g
    <3> QED
      BY <3>1, WithoutOrder
  <2> QED
    BY <1>1, <2>1, <2>2
<1>4. /\ W \in Seq(E) /\ Len(W) = Cardinality(S)
      /\ \A k \in S : UpTo(S, k) \in 1 .. Len(W) /\ W[UpTo(S, k)] = s[k]
  BY WithoutOrder
<1>5. IsFiniteSet(S) /\ IsFiniteSet(G) /\ G \subseteq Nat \ {0}
  <2>1. IsFiniteSet(S)
    BY StayFinite
  <2>2. IsFiniteSet(G)
    BY <1>1, StayFinite
  <2> QED
    BY <2>1, <2>2, <1>2
<1> HIDE DEF g, G, S, U, W
<1>6. ASSUME NEW k \in G
      PROVE  k \in 1 .. m /\ UpTo(G, k) = UpTo(S, k) /\ UpTo(G, k) <= k /\ k \in S
  <2>1. k \in 1 .. m /\ k \in S
    BY <1>2
  <2>2. G \cap (1 .. k) = S \cap (1 .. k)
    BY <1>1, <1>2, <2>1
  <2>3. UpTo(G, k) = UpTo(S, k)
    BY <2>2 DEF UpTo
  <2>4. UpTo(G, k) <= k
    BY <1>5, UpToCounts
  <2> QED
    BY <2>1, <2>3, <2>4
<1>7. Len(U) <= Len(W)
  <2>1. G \subseteq S
    BY <1>2
  <2>2. Cardinality(G) <= Cardinality(S)
    BY <1>5, <2>1, FS_Subset
  <2> QED
    BY <1>3, <1>4, <2>2
<1>8. \A i \in 1 .. Len(U) : U[i] = W[i]
  BY <1>1, <1>3, <1>4, <1>6
<1>9. /\ t \in Seq(E) /\ Len(t) \in Nat /\ Len(t) <= Len(U) /\ (Len(t) = Len(U) \/ Len(t) = n)
      /\ \A i \in 1 .. Len(t) : t[i] = U[i]
  <2>0. Len(U) \in Nat
    BY <1>3
  <2>1. CASE n < Len(U)
    <3>1. t = SubSeq(U, 1, n)
      BY <2>0, <2>1 DEF Take, Least
    <3> QED
      BY <1>3, <2>0, <2>1, <3>1
  <2>2. CASE ~(n < Len(U))
    <3>1. t = SubSeq(U, 1, Len(U))
      BY <2>0, <2>2 DEF Take, Least
    <3> QED
      BY <1>3, <2>0, <3>1
  <2> QED
    BY <2>1, <2>2
<1> HIDE DEF t
<1>10. IsPrefix(t, W)
  <2>0. Len(U) \in Nat /\ Len(W) \in Nat
    BY <1>3, <1>4
  <2>1. Len(t) <= Len(W)
    BY <2>0, <1>7, <1>9
  <2>2. SubSeq(t, 1, Len(t)) = SubSeq(W, 1, Len(t))
    <3>1. SubSeq(t, 1, Len(t)) \in Seq(E) /\ Len(SubSeq(t, 1, Len(t))) = Len(t)
      BY <1>9
    <3>2. SubSeq(W, 1, Len(t)) \in Seq(E) /\ Len(SubSeq(W, 1, Len(t))) = Len(t)
      BY <1>4, <1>9, <2>0, <2>1
    <3>3. ASSUME NEW i \in 1 .. Len(t)
          PROVE  SubSeq(t, 1, Len(t))[i] = SubSeq(W, 1, Len(t))[i]
      <4>1. t[i] = W[i]
        BY <1>8, <1>9, <2>0
      <4>2. SubSeq(t, 1, Len(t))[i] = t[i]
        BY <1>9
      <4>3. SubSeq(W, 1, Len(t))[i] = W[i]
        BY <1>4, <1>9, <2>0, <2>1
      <4> QED
        BY <4>1, <4>2, <4>3
    <3> QED
      BY <1>9, <3>1, <3>2, <3>3
  <2> QED
    BY <2>1, <2>2 DEF IsPrefix
<1>11. ASSUME NEW k \in 1 .. m, s[k] \notin F, k <= n
       PROVE  s[k] \in ToSet(t)
  <2>1. k \in G
    BY <1>1, <1>11 DEF G, Stay
  <2>2. UpTo(G, k) \in 1 .. Len(U) /\ UpTo(G, k) <= n /\ U[UpTo(G, k)] = s[k]
    BY <1>1, <1>3, <1>6, <1>11, <2>1
  <2>3. UpTo(G, k) \in 1 .. Len(t)
    BY <1>3, <1>9, <2>2
  <2>4. t[UpTo(G, k)] = s[k] /\ UpTo(G, k) \in DOMAIN t
    BY <1>9, <2>2, <2>3
  <2> QED
    BY <2>4 DEF ToSet
<1>12. \A k \in 1 .. m : s[k] \in F \cup ToSet(t) \/ k > n
  BY <1>1, <1>11
<1> QED
  BY <1>9, <1>10, <1>12 DEF t, U, W, g

\* Take and Drop cut a sequence in two.
LEMMA TakeDrop ==
  ASSUME NEW E, NEW s \in Seq(E), NEW n \in Nat
  PROVE  /\ Take(s, n) \in Seq(E) /\ Drop(s, n) \in Seq(E)
         /\ Take(s, n) = SubSeq(s, 1, Least(n, Len(s))) /\ Len(Take(s, n)) = Least(n, Len(s))
         /\ Take(s, n) \o Drop(s, n) = s
         /\ Len(s) <= n => Take(s, n) = s /\ Drop(s, n) = <<>>
<1>0. Len(s) \in Nat
  OBVIOUS
<1>1. CASE n < Len(s)
  <2>1. Take(s, n) = SubSeq(s, 1, n) /\ Least(n, Len(s)) = n /\ Drop(s, n) = SubSeq(s, n + 1, Len(s))
    BY <1>0, <1>1 DEF Take, Drop, Least
  <2>2. SubSeq(s, 1, n) \in Seq(E) /\ SubSeq(s, n + 1, Len(s)) \in Seq(E) /\ Len(SubSeq(s, 1, n)) = n
    BY <1>0, <1>1
  <2>3. SubSeq(s, 1, n) \o SubSeq(s, n + 1, Len(s)) = s
    <3>1. SubSeq(s, 1, n) \o SubSeq(s, n + 1, Len(s)) = SubSeq(s, 1, Len(s))
      <4>1. 1 \in 1 .. Len(s) + 1 /\ n \in 1 - 1 .. Len(s) /\ Len(s) \in n .. Len(s)
        BY <1>0, <1>1
      <4> QED
        BY <4>1, ConcatAdjacentSubSeq
    <3> QED
      BY <3>1, SubSeqFull
  <2>4. ~(Len(s) <= n)
    BY <1>0, <1>1
  <2> QED
    BY <2>1, <2>2, <2>3, <2>4
<1>2. CASE ~(n < Len(s))
  <2>1. Take(s, n) = SubSeq(s, 1, Len(s)) /\ Least(n, Len(s)) = Len(s) /\ Drop(s, n) = SubSeq(s, n + 1, Len(s))
    BY <1>0, <1>2 DEF Take, Drop, Least
  <2>2. SubSeq(s, 1, Len(s)) = s
    OBVIOUS
  <2>3. SubSeq(s, n + 1, Len(s)) \in Seq(E) /\ Len(SubSeq(s, n + 1, Len(s))) = 0
    BY <1>0, <1>2
  <2>4. SubSeq(s, n + 1, Len(s)) = <<>>
    BY <2>3
  <2>5. s \o <<>> = s
    OBVIOUS
  <2> QED
    BY <1>0, <2>1, <2>2, <2>3, <2>4, <2>5
<1> QED
  BY <1>1, <1>2

----------------------------------------------------------------------------
(* what a listing covers *)

Entry == Entries \cup {New}

\* A list has the first of what s has but F, and all of it up to r.
Covers(list, s, F, r) ==
  /\ IsPrefix(list, Without(s, F))
  /\ \A k \in DOMAIN s : s[k] \in F \cup ToSet(list) \/ k > r

\* The first n that stay of the first m entries cover up to r if n and m do.
LEMMA TakeCovers ==
  ASSUME NEW E, NEW s \in Seq(E), NEW F, NEW m \in 0 .. Len(s), NEW n \in Nat, NEW r \in Nat,
         r <= n, r <= m \/ m = Len(s)
  PROVE  /\ Take(Without(SubSeq(s, 1, m), F), n) \in Seq(E)
         /\ Covers(Take(Without(SubSeq(s, 1, m), F), n), s, F, r)
<1> DEFINE t == Take(Without(SubSeq(s, 1, m), F), n)
<1>1. /\ t \in Seq(E) /\ IsPrefix(t, Without(s, F))
      /\ \A k \in 1 .. m : s[k] \in F \cup ToSet(t) \/ k > n
  BY WithoutPrefix
<1> HIDE DEF t
<1>2. ASSUME NEW k \in DOMAIN s
      PROVE  s[k] \in F \cup ToSet(t) \/ k > r
  <2>0. k \in Nat /\ k >= 1 /\ k <= Len(s) /\ Len(s) \in Nat /\ m \in Nat
    OBVIOUS
  <2>1. CASE k <= m
    BY <1>1, <2>0, <2>1
  <2>2. CASE k > m
    BY <2>0, <2>2
  <2> QED
    BY <2>0, <2>1, <2>2
<1> QED
  BY <1>1, <1>2 DEF Covers, t

\* A cursor goes on with what it has not given.
LEMMA CursorKeeps ==
  ASSUME NEW E, NEW g \in Seq(E), NEW u \in Seq(E), NEW n \in Nat
  PROVE  (g \o Take(u, n)) \o Drop(u, n) = g \o u
<1> DEFINE t == Take(u, n)
           d == Drop(u, n)
<1>1. t \in Seq(E) /\ d \in Seq(E)
  BY TakeDrop
<1>2. t \o d = u
  BY TakeDrop
<1> HIDE DEF t, d
<1>3. (g \o t) \o d = g \o (t \o d)
  BY <1>1, ConcatAssociative, SMTT(30)
<1> QED
  BY <1>2, <1>3 DEF t, d

\* What it has given is a beginning of all it gives.
LEMMA CursorGoesOn ==
  ASSUME NEW E, NEW g \in Seq(E), NEW u \in Seq(E), NEW n \in Nat
  PROVE  /\ g \o Take(u, n) \in Seq(E) /\ Drop(u, n) \in Seq(E)
         /\ g \o Take(u, n) = SubSeq(g \o u, 1, Len(g \o Take(u, n)))
         /\ Len(g \o Take(u, n)) \in 0 .. Len(g \o u)
         /\ Len(u) <= n => g \o Take(u, n) = g \o u
<1> DEFINE t == Take(u, n)
           d == Drop(u, n)
           x == g \o t
<1>1. t \in Seq(E) /\ d \in Seq(E) /\ (Len(u) <= n => t = u)
  BY TakeDrop
<1>2. x \o d = g \o u
  BY CursorKeeps
<1> HIDE DEF t, d
<1>3. x \in Seq(E)
  BY <1>1
<1>4. Len(u) <= n => x = g \o u
  BY <1>1
<1> HIDE DEF x
<1>5. x \o d \in Seq(E) /\ Len(x \o d) = Len(x) + Len(d) /\ Len(x) \in Nat /\ Len(d) \in Nat
  BY <1>1, <1>3
<1>6. SubSeq(x \o d, 1, Len(x)) = x
  <2>1. SubSeq(x \o d, 1, Len(x)) \in Seq(E) /\ Len(SubSeq(x \o d, 1, Len(x))) = Len(x)
    BY <1>5
  <2>2. \A i \in 1 .. Len(x) : SubSeq(x \o d, 1, Len(x))[i] = x[i]
    BY <1>1, <1>3, <1>5
  <2> QED
    BY <1>3, <2>1, <2>2
<1>7. Len(x) \in 0 .. Len(x \o d)
  BY <1>5
<1> QED
  BY <1>1, <1>2, <1>3, <1>4, <1>6, <1>7 DEF t, d, x

\* An offset goes on after the entries so far, as long as they are the first ones.
LEMMA OffsetGoesOn ==
  ASSUME NEW E, NEW s \in Seq(E), NEW l \in 0 .. Len(s), NEW n \in Nat \ {0}
  PROVE  LET g == SubSeq(s, 1, l)
             t == Take(Drop(s, l), n)
         IN  /\ g \o t = SubSeq(s, 1, Len(g \o t)) /\ Len(g \o t) \in 0 .. Len(s)
             /\ Len(g \o t) - Len(g) < n \/ g \o t = g => g \o t = s
<1> DEFINE g == SubSeq(s, 1, l)
           u == Drop(s, l)
           t == Take(u, n)
<1>0. l \in Nat /\ l <= Len(s) /\ Len(s) \in Nat
  OBVIOUS
<1>1. g \in Seq(E) /\ u \in Seq(E) /\ g \o u = s /\ Len(g) = l
  <2>1. Take(s, l) = g
    BY <1>0 DEF Take, Least
  <2>2. Take(s, l) \o u = s /\ u \in Seq(E)
    BY <1>0, TakeDrop
  <2>3. g \in Seq(E) /\ Len(g) = l
    BY <1>0
  <2> QED
    BY <2>1, <2>2, <2>3
<1> HIDE DEF g, u
<1>2. t \in Seq(E) /\ Len(t) = Least(n, Len(u)) /\ (Len(u) <= n => t = u)
  BY <1>1, TakeDrop
<1>3. /\ g \o t = SubSeq(s, 1, Len(g \o t)) /\ Len(g \o t) \in 0 .. Len(s)
      /\ Len(u) <= n => g \o t = s
  <2>1. g \in Seq(E) /\ u \in Seq(E) /\ n \in Nat
    BY <1>1
  <2>2. /\ g \o Take(u, n) = SubSeq(g \o u, 1, Len(g \o Take(u, n)))
        /\ Len(g \o Take(u, n)) \in 0 .. Len(g \o u)
        /\ Len(u) <= n => g \o Take(u, n) = g \o u
    <3> HIDE DEF t
    <3> QED
      BY <2>1, CursorGoesOn, SMTT(30)
  <2>3. t = Take(u, n)
    OBVIOUS
  <2>4. g \o u = s
    BY <1>1
  <2> HIDE DEF t
  <2> QED
    BY <2>2, <2>3, <2>4
<1>4. t \in Seq(E)
  BY <1>2
<1> HIDE DEF t
<1>5. Len(g \o t) = Len(g) + Len(t) /\ Len(g) \in Nat /\ Len(t) \in Nat /\ Len(u) \in Nat
  <2>1. g \in Seq(E) /\ t \in Seq(E) /\ u \in Seq(E)
    BY <1>1, <1>4
  <2>2. Len(g \o t) = Len(g) + Len(t)
    BY <2>1, ConcatProperties
  <2> QED
    BY <2>1, <2>2
<1>6. ASSUME Len(g \o t) - Len(g) < n \/ g \o t = g
      PROVE  g \o t = s
  <2>1. Len(t) < n
    BY <1>5, <1>6
  <2>2. Len(u) <= n
    BY <1>2, <1>5, <2>1 DEF Least
  <2> QED
    BY <1>3, <2>2
<1> QED
  BY <1>3, <1>6 DEF g, t, u

----------------------------------------------------------------------------
(* the steps of a sync, by what they do to the listing and the answer *)

Fates == {"document", "error", "skipped", "dropped"}

\* Where a listing stands between two requests.
Begun(g, r, s) ==
  /\ Len(g) < limit
  /\ adapter \notin Offset => g \o r = s
  /\ adapter \in Offset /\ ~moved => g = SubSeq(s, 1, Len(g)) /\ Len(g) <= Len(s)

Lists ==
  /\ pc \in Listing /\ Asks /\ Began
  /\ got' \in Seq(Entry) /\ rest' \in Seq(Entry)
  /\ \/ pc' = "more" /\ UNCHANGED listed /\ Begun(got', rest', snap')
     \/ /\ pc' = "items" /\ listed' \in Seq(Entry)
        /\ (moved /\ adapter \in Offset) \/ Covers(listed', snap', folders, Reach)
  /\ UNCHANGED <<source, chatter, remote, at, answer, now, changes, moved, failed>>

Breaks ==
  \E to \in {"items", "end"}, out \in {"none", "bare", "thrown", "documents"} :
    \E e \in {<<>>, <<"listing">>} :
      /\ to = "items" <=> out = "none"
      /\ e = <<>> <=> out = "thrown"
      /\ out = "thrown" => adapter \notin Expiring
      /\ Fails(to, out, e)

Handles ==
  /\ Handling
  /\ \E what \in Fates : (what = "dropped" => adapter = "TEAMS") /\ Becomes(what)
  /\ Asks \/ (Rejected /\ errs' = Append(errs, listed[at])) \/ UNCHANGED <<tokens, faults>>

TakesToken == MicrosoftToken \/ DropboxToken

----------------------------------------------------------------------------
(* the invariants *)

\* Before its entries are handled a listing has nothing of its own in the answer; an
\* answer says so when the listing failed, and is complete when it has documents.
PhaseInv ==
  /\ skips + blanks < at
  /\ pc \in Listing \cup {"channels"} => at = 1 /\ listed = <<>> /\ ~failed
  /\ pc \in {"first", "channels"} => got = <<>> /\ ~moved
  /\ pc # "end" <=> outcome = "none"
  /\ outcome = "documents" => at > Len(listed)
  /\ outcome = "bare" => failed
  /\ failed => errs # <<>> \/ outcome = "thrown"
  /\ adapter \notin WithFolders => folders = {}

\* What the cursor or the offset has left.
ScopeInv ==
  /\ pc \in Listing => Len(got) < limit
  /\ pc = "more" => Begun(got, rest, snap) /\ (~moved => remote = snap)
  /\ pc \in {"items", "end"} /\ ~failed /\ ~(moved /\ adapter \in Offset)
       => Covers(listed, snap, folders, Reach)

\* What the state of the answer is made of, by the entries handled so far.
Count(s, P) == Cardinality({k \in DOMAIN s : s[k] \in P})
CountInv ==
  /\ \A e \in Entry : Count(docs, {e}) + Count(errs, {e}) <= Count(SubSeq(listed, 1, at - 1), {e})
  /\ Count(docs, Entry) + Count(errs, Entry) + skips + blanks = at - 1
  /\ blanks > 0 => adapter = "TEAMS"

\* A token the adapter got lasts as long as it may still be on its way; one it was given
\* is Dropbox's, and an error when it had expired.
TokenInv ==
  /\ held = 0 => waited = 0
  /\ held # 0 /\ own = 0 => now + Skew < held + waited
  /\ own # 0 => adapter = "DROPBOX"
  /\ stale => own # 0 /\ errs # <<>>

AdapterInv == TypeOK /\ PhaseInv /\ ScopeInv /\ CountInv /\ TokenInv

----------------------------------------------------------------------------
(* every step is one of these *)

\* The types the limits and pages of TypeOK have by the assumptions.
LEMMA LimitTypes ==
  ASSUME TypeOK
  PROVE  limit \in Nat \ {0} /\ page \in Nat \ {0}
<1>1. limit \in 1 .. Cap /\ Cap \in Nat /\ page \in PageSizes /\ PageSizes \subseteq Nat \ {0}
  BY ServiceAssumption DEF TypeOK
<1> QED
  BY <1>1

\* The fates the adapters give their entries.
LEMMA FatesOf ==
  /\ \A f \in {GitHubContent, Bytes, SlackBytes, NotionBlocks, JiraFields, GmailMessage, GoogleBytes} :
       \A c \in DOMAIN f : f[c] \in Fates \ {"dropped"}
  /\ \A c \in DOMAIN TeamsBody : TeamsBody[c] \in Fates
<1>1. \A c \in DOMAIN GitHubContent : GitHubContent[c] \in Fates \ {"dropped"}
  BY DEF GitHubContent, Fates
<1>2. \A c \in DOMAIN Bytes : Bytes[c] \in Fates \ {"dropped"}
  BY DEF Bytes, Fates
<1>3. \A c \in DOMAIN SlackBytes : SlackBytes[c] \in Fates \ {"dropped"}
  BY DEF SlackBytes, Fates
<1>4. \A c \in DOMAIN NotionBlocks : NotionBlocks[c] \in Fates \ {"dropped"}
  BY DEF NotionBlocks, Fates
<1>5. \A c \in DOMAIN JiraFields : JiraFields[c] \in Fates \ {"dropped"}
  BY DEF JiraFields, Fates
<1>6. \A c \in DOMAIN GmailMessage : GmailMessage[c] \in Fates \ {"dropped"}
  BY DEF GmailMessage, Fates
<1>7. \A c \in DOMAIN GoogleBytes : GoogleBytes[c] \in Fates \ {"dropped"}
  BY DEF GoogleBytes, Fates
<1>8. \A c \in DOMAIN TeamsBody : TeamsBody[c] \in Fates
  BY DEF TeamsBody, Fates
<1> QED
  BY <1>1, <1>2, <1>3, <1>4, <1>5, <1>6, <1>7, <1>8

\* An adapter that fetches its entries handles them.
LEMMA FetchedHandles ==
  ASSUME NEW fate, \A c \in DOMAIN fate : fate[c] \in Fates \ {"dropped"}, EachFetched(fate)
  PROVE  Handles
<1>1. CASE Asks /\ \E c \in DOMAIN fate : Becomes(IF Present THEN fate[c] ELSE "error")
  <2>1. PICK c \in DOMAIN fate : Becomes(IF Present THEN fate[c] ELSE "error")
    BY <1>1
  <2>2. (IF Present THEN fate[c] ELSE "error") \in Fates \ {"dropped"}
    BY DEF Fates
  <2>3. Handling
    BY DEF EachFetched
  <2> QED
    BY <1>1, <2>1, <2>2, <2>3 DEF Handles
<1>2. CASE Rejected /\ Becomes("error")
  <2>1. Handling /\ "error" \in Fates \ {"dropped"}
    BY DEF EachFetched, Fates
  <2>2. errs' = Append(errs, listed[at])
    BY <1>2 DEF Becomes
  <2> QED
    BY <1>2, <2>1, <2>2 DEF Handles
<1> QED
  BY <1>1, <1>2 DEF EachFetched

\* So does one that makes them of what it listed.
LEMMA ListedHandles ==
  ASSUME NEW fate, \A c \in DOMAIN fate : fate[c] \in Fates,
         \A c \in DOMAIN fate : fate[c] = "dropped" => adapter = "TEAMS", EachListed(fate)
  PROVE  Handles
<1>1. PICK c \in DOMAIN fate : Becomes(fate[c])
  BY DEF EachListed
<1>2. Handling /\ UNCHANGED <<tokens, faults>>
  BY DEF EachListed
<1> QED
  BY <1>1, <1>2 DEF Handles

\* The ways a listing fails.
LEMMA FailsBreaks ==
  ASSUME FailsBare \/ (FailsThrown /\ adapter \notin Expiring) \/ Fails("items", "none", <<"listing">>)
           \/ Fails("end", "documents", <<"listing">>)
  PROVE  Breaks
<1>1. <<"listing">> # <<>>
  <2>1. Len(<<"listing">>) = 1 /\ Len(<<>>) = 0
    OBVIOUS
  <2> QED
    BY <2>1
<1>2. CASE FailsBare
  BY <1>1, <1>2 DEF FailsBare, Breaks
<1>3. CASE FailsThrown /\ adapter \notin Expiring
  BY <1>1, <1>3 DEF FailsThrown, Breaks
<1>4. CASE Fails("items", "none", <<"listing">>)
  BY <1>1, <1>4 DEF Breaks
<1>5. CASE Fails("end", "documents", <<"listing">>)
  BY <1>1, <1>5 DEF Breaks
<1> QED
  BY <1>2, <1>3, <1>4, <1>5

\* Without folders the limit cuts what is listed.
LEMMA NoFolders ==
  ASSUME PhaseInv, adapter \notin WithFolders, NEW g \in Seq(Entry)
  PROVE  Limited(g) = LimitedFiles(g) /\ Files(g) = g
<1>1. folders = {}
  BY DEF PhaseInv
<1>2. Without(g, {}) = g
  BY WithoutNone
<1> QED
  BY <1>1, <1>2 DEF Limited, LimitedFiles, Files

\* The beginning of the service's entries that a request is about.
LEMMA FirstOf ==
  ASSUME TypeOK, NEW n \in Nat
  PROVE  /\ remote \in Seq(Entry) /\ Len(remote) \in Nat
         /\ Take(remote, n) \in Seq(Entry)
         /\ \E m \in 0 .. Len(remote) : Take(remote, n) = SubSeq(remote, 1, m) /\ (n <= m \/ m = Len(remote))
<1>1. remote \in Seq(Entry)
  BY DEF TypeOK, Entry
<1>2. Len(remote) \in Nat
  BY <1>1
<1>3. Take(remote, n) \in Seq(Entry) /\ Take(remote, n) = SubSeq(remote, 1, Least(n, Len(remote)))
  BY <1>1, TakeDrop
<1>4. /\ Least(n, Len(remote)) \in 0 .. Len(remote)
      /\ n <= Least(n, Len(remote)) \/ Least(n, Len(remote)) = Len(remote)
  BY <1>2 DEF Least
<1> QED
  BY <1>1, <1>2, <1>3, <1>4

\* A listing of one request.
LEMMA OnceLists ==
  ASSUME TypeOK, NEW STATE kept, kept \in Seq(Entry), Covers(kept, remote, folders, Reach),
         ListOnce(kept)
  PROVE  Lists
<1>1. got \in Seq(Entry) /\ rest \in Seq(Entry)
  BY DEF TypeOK, Entry
<1>2. /\ pc = "first" /\ Asks /\ Began /\ pc' = "items" /\ listed' = kept /\ snap' = remote
      /\ got' = got /\ rest' = rest /\ folders' = folders
      /\ UNCHANGED <<source, chatter, remote, at, answer, now, changes, moved, failed>>
  BY DEF ListOnce, ToItems, Began, source
<1>3. Covers(listed', snap', folders, Reach) /\ listed' \in Seq(Entry)
  BY <1>2
<1> QED
  BY <1>1, <1>2, <1>3 DEF Lists, Listing

\* A request of a loop over a cursor.
LEMMA CursorLists ==
  ASSUME TypeOK, PhaseInv, ScopeInv, adapter \notin OnePage, adapter \notin Offset,
         NEW STATE size, size \in Nat, ListCursor(size, LimitedFiles)
  PROVE  Lists
<1> DEFINE u == Unserved
           S == IF pc = "first" THEN remote ELSE snap
           x == got \o Take(u, size)
<1>1. /\ got \in Seq(Entry) /\ rest \in Seq(Entry) /\ remote \in Seq(Entry) /\ snap \in Seq(Entry)
      /\ limit \in Nat
  <2>1. limit \in Nat
    BY LimitTypes
  <2> QED
    BY <2>1 DEF TypeOK, Entry
<1>2. /\ pc \in Listing /\ Asks /\ Began /\ got' = x /\ rest' = Drop(u, size)
      /\ \/ /\ AtLimit(got') \/ Len(u) <= size
            /\ pc' = "items" /\ listed' = LimitedFiles(got')
         \/ ~AtLimit(got') /\ pc' = "more" /\ listed' = listed
      /\ UNCHANGED <<source, chatter, remote, at, answer, now, changes, moved, failed>>
  BY DEF ListCursor, ListPage, ToItems
<1>3. snap' = S
  BY <1>2 DEF Began
<1>4. u \in Seq(Entry) /\ S \in Seq(Entry)
  BY <1>1 DEF Unserved
<1>5. got \o u = S
  <2>1. CASE pc = "first"
    <3>1. got = <<>> /\ u = remote /\ S = remote
      BY <2>1 DEF PhaseInv, Unserved
    <3> QED
      BY <1>1, <3>1
  <2>2. CASE pc = "more"
    BY <2>2 DEF ScopeInv, Begun, Unserved
  <2> QED
    BY <1>2, <2>1, <2>2 DEF Listing
<1>6. x \in Seq(Entry) /\ Drop(u, size) \in Seq(Entry)
  BY <1>1, <1>4, CursorGoesOn
<1>7. x = SubSeq(S, 1, Len(x)) /\ Len(x) \in 0 .. Len(S) /\ (Len(u) <= size => x = S)
  <2>1. /\ x = SubSeq(got \o u, 1, Len(x)) /\ Len(x) \in 0 .. Len(got \o u)
        /\ Len(u) <= size => x = got \o u
    <3>1. got \in Seq(Entry) /\ u \in Seq(Entry) /\ size \in Nat
      BY <1>1, <1>4
    <3> HIDE DEF u
    <3> QED
      BY <3>1, CursorGoesOn, SMTT(30)
  <2> HIDE DEF x, u, S
  <2> QED
    BY <1>5, <2>1
<1>8. x \o Drop(u, size) = S
  <2>1. x \o Drop(u, size) = got \o u
    BY <1>1, <1>4, CursorKeeps
  <2> HIDE DEF x, u, S
  <2> QED
    BY <1>5, <2>1
<1> HIDE DEF x, u, S
<1>9. Reach = limit
  BY DEF Reach
<1>10. CASE pc' = "items" /\ listed' = LimitedFiles(got') /\ (AtLimit(got') \/ Len(u) <= size)
  <2>1. Len(x) \in Nat /\ Len(S) \in Nat
    BY <1>4, <1>6
  <2>2. limit <= Len(x) \/ Len(x) = Len(S)
    BY <1>1, <1>2, <1>7, <1>10, <2>1 DEF AtLimit
  <2>3. /\ Take(Without(SubSeq(S, 1, Len(x)), folders), limit) \in Seq(Entry)
        /\ Covers(Take(Without(SubSeq(S, 1, Len(x)), folders), limit), S, folders, limit)
    BY <1>1, <1>4, <1>7, <2>2, TakeCovers
  <2>4. listed' = Take(Without(x, folders), limit)
    BY <1>2, <1>10 DEF LimitedFiles, Files
  <2>5. listed' \in Seq(Entry) /\ Covers(listed', S, folders, limit)
    BY <1>7, <2>3, <2>4
  <2> QED
    BY <1>2, <1>3, <1>6, <1>9, <1>10, <2>5 DEF Lists
<1>11. CASE pc' = "more" /\ listed' = listed /\ ~AtLimit(got')
  <2>1. Len(x) \in Nat
    BY <1>6
  <2>2. Len(got') < limit
    BY <1>1, <1>2, <1>11, <2>1 DEF AtLimit
  <2>3. Begun(got', rest', snap')
    BY <1>2, <1>3, <1>8, <2>2 DEF Begun
  <2> QED
    BY <1>2, <1>6, <1>11, <2>3 DEF Lists
<1> QED
  BY <1>2, <1>10, <1>11

\* A request of a loop that pages by offset.
LEMMA OffsetLists ==
  ASSUME TypeOK, PhaseInv, ScopeInv, adapter \in Offset,
         pc \in Listing, Asks, Began,
         got' = got \o Take(Drop(remote, Len(got)), Least(page, limit)), rest' = <<>>,
         \/ /\ \/ AtLimit(got') \/ Len(got') >= Len(remote) \/ got' = got
               \/ Len(got') - Len(got) < Least(page, limit)
            /\ pc' = "items" /\ listed' = Limited(got')
         \/ ~AtLimit(got') /\ pc' = "more" /\ listed' = listed,
         UNCHANGED <<source, chatter, remote, at, answer, now, changes, moved, failed>>
  PROVE  Lists
<1> DEFINE q == Least(page, limit)
           S == IF pc = "first" THEN remote ELSE snap
           l == Len(got)
           t == Take(Drop(remote, l), q)
           x == got \o t
<1>1. /\ got \in Seq(Entry) /\ remote \in Seq(Entry) /\ snap \in Seq(Entry)
      /\ limit \in Nat \ {0} /\ q \in Nat \ {0} /\ l \in Nat
  <2>1. limit \in Nat \ {0} /\ page \in Nat \ {0}
    BY LimitTypes
  <2>2. q \in Nat \ {0}
    BY <2>1 DEF Least
  <2>3. got \in Seq(Entry) /\ remote \in Seq(Entry) /\ snap \in Seq(Entry)
    BY DEF TypeOK, Entry
  <2>4. l \in Nat
    BY <2>3
  <2> QED
    BY <2>1, <2>2, <2>3, <2>4
<1>2. snap' = S /\ S \in Seq(Entry)
  BY <1>1 DEF Began
<1> HIDE DEF q
<1>3. x \in Seq(Entry)
  <2>1. Drop(remote, l) \in Seq(Entry)
    BY <1>1, TakeDrop
  <2>2. t \in Seq(Entry)
    BY <1>1, <2>1, TakeDrop
  <2> HIDE DEF t
  <2> QED
    BY <1>1, <2>2
<1>4. got' = x /\ Len(x) \in Nat /\ Len(S) \in Nat
  <2>1. got' = x
    BY DEF q
  <2> HIDE DEF x, S
  <2> QED
    BY <1>2, <1>3, <2>1
<1>5. ASSUME ~moved
      PROVE  /\ S = remote /\ got = SubSeq(S, 1, l) /\ l \in 0 .. Len(S)
             /\ x = SubSeq(S, 1, Len(x)) /\ Len(x) \in 0 .. Len(S)
             /\ Len(x) - l < q \/ x = got => x = S
  <2>1. S = remote /\ got = SubSeq(S, 1, l) /\ l <= Len(S)
    <3>1. CASE pc = "first"
      <4>1. got = <<>> /\ l = 0 /\ S = remote
        BY <3>1 DEF PhaseInv
      <4>2. SubSeq(remote, 1, 0) = <<>>
        BY <1>1, SubSeqEmpty
      <4> QED
        BY <1>1, <4>1, <4>2
    <3>2. CASE pc = "more"
      BY <1>5, <3>2 DEF ScopeInv, Begun
    <3> QED
      BY <3>1, <3>2 DEF Listing
  <2>2. l \in 0 .. Len(S)
    <3>1. l \in Nat /\ Len(S) \in Nat /\ l <= Len(S)
      BY <1>1, <1>4, <2>1
    <3> HIDE DEF l, S
    <3> QED
      BY <3>1
  <2> DEFINE y == SubSeq(S, 1, l) \o Take(Drop(S, l), q)
  <2>3. /\ y = SubSeq(S, 1, Len(y)) /\ Len(y) \in 0 .. Len(S)
        /\ Len(y) - Len(SubSeq(S, 1, l)) < q \/ y = SubSeq(S, 1, l) => y = S
    <3>1. S \in Seq(Entry) /\ l \in 0 .. Len(S) /\ q \in Nat \ {0}
      BY <1>1, <1>2, <2>2
    <3> HIDE DEF l, S
    <3> QED
      BY <3>1, OffsetGoesOn
  <2>4. y = x
    BY <2>1
  <2> HIDE DEF x, y, S
  <2> QED
    BY <2>1, <2>2, <2>3, <2>4
<1>6. folders = {} /\ Reach = limit
  BY DEF PhaseInv, Offset, WithFolders, Reach, OnePage
<1> HIDE DEF x, S, l
<1>7. CASE /\ AtLimit(got') \/ Len(got') >= Len(remote) \/ got' = got \/ Len(got') - l < q
           /\ pc' = "items" /\ listed' = Limited(got')
  <2>1. listed' = Take(Without(x, folders), limit) /\ Take(Without(x, folders), limit) \in Seq(Entry)
    <3>1. Without(x, folders) = x
      BY <1>3, <1>6, WithoutNone
    <3>2. Take(x, limit) \in Seq(Entry)
      BY <1>1, <1>3, TakeDrop
    <3> QED
      BY <1>4, <1>7, <3>1, <3>2 DEF Limited
  <2>2. CASE moved
    BY <1>4, <1>3, <1>7, <2>1, <2>2, EmptySeq DEF Lists
  <2>3. CASE ~moved
    <3>1. limit <= Len(x) \/ Len(x) = Len(S)
      BY <1>1, <1>4, <1>5, <1>7, <2>3 DEF AtLimit
    <3>2. Covers(Take(Without(SubSeq(S, 1, Len(x)), folders), limit), S, folders, limit)
      BY <1>1, <1>2, <1>5, <2>3, <3>1, TakeCovers
    <3>3. Covers(listed', snap', folders, Reach)
      BY <1>2, <1>5, <1>6, <2>1, <2>3, <3>2
    <3> QED
      BY <1>4, <1>3, <1>7, <2>1, <3>3, EmptySeq DEF Lists
  <2> QED
    BY <2>2, <2>3
<1>8. CASE ~AtLimit(got') /\ pc' = "more" /\ listed' = listed
  <2>1. Len(got') < limit
    BY <1>1, <1>4, <1>8 DEF AtLimit
  <2>2. ~moved => got' = SubSeq(snap', 1, Len(got')) /\ Len(got') <= Len(snap')
    BY <1>2, <1>4, <1>5
  <2>3. Begun(got', rest', snap')
    BY <2>1, <2>2 DEF Begun
  <2> QED
    BY <1>3, <1>4, <1>8, <2>3, EmptySeq DEF Lists
<1> QED
  BY <1>7, <1>8 DEF q, l

\* What is listed at a cursor of an adapter without folders.
LEMMA LimitedCursor ==
  ASSUME TypeOK, PhaseInv, adapter \notin WithFolders, NEW STATE size, size \in Nat,
         ListCursor(size, Limited)
  PROVE  ListCursor(size, LimitedFiles)
<1>1. got' = got \o Take(Unserved, size)
  BY DEF ListCursor, ListPage
<1>2. got \in Seq(Entry) /\ Unserved \in Seq(Entry)
  BY DEF TypeOK, Entry, Unserved
<1>3. Take(Unserved, size) \in Seq(Entry)
  BY <1>2, TakeDrop
<1>4. got' \in Seq(Entry)
  BY <1>1, <1>2, <1>3
<1>5. Limited(got') = LimitedFiles(got')
  BY <1>4, NoFolders
<1> QED
  BY <1>5 DEF ListCursor, ListPage

\* The listings of one request, and what they cover.
LEMMA OncesList ==
  ASSUME TypeOK, PhaseInv,
         \/ adapter = "GITHUB" /\ ListOnce(GitHubTree)
         \/ adapter = "GITLAB" /\ ListOnce(GitLabTree)
         \/ adapter = "SLACK" /\ ListOnce(SlackFiles)
         \/ adapter = "GOOGLE_DRIVE" /\ ListOnce(GoogleFiles)
         \/ adapter = "LINEAR" /\ ListOnce(LinearIssues)
  PROVE  Lists
<1> DEFINE q == Least(page, limit)
<1>1. limit \in Nat /\ page \in Nat /\ q \in Nat /\ q <= limit /\ q <= page
  <2>1. limit \in Nat /\ page \in Nat
    BY LimitTypes
  <2> QED
    BY <2>1 DEF Least
<1>2. remote \in Seq(Entry) /\ Len(remote) \in Nat
  BY <1>1, FirstOf
<1> HIDE DEF q
<1>3. CASE adapter = "GITHUB" /\ ListOnce(GitHubTree)
  <2>1. SubSeq(remote, 1, Len(remote)) = remote /\ Len(remote) \in 0 .. Len(remote)
    BY <1>2
  <2>2. GitHubTree = Take(Without(SubSeq(remote, 1, Len(remote)), folders), limit)
    BY <2>1 DEF GitHubTree, LimitedFiles, Files
  <2>3. Reach = limit
    BY <1>3 DEF Reach, OnePage
  <2>4. GitHubTree \in Seq(Entry) /\ Covers(GitHubTree, remote, folders, Reach)
    BY <1>1, <1>2, <2>1, <2>2, <2>3, TakeCovers
  <2> QED
    BY <1>3, <2>4, OnceLists
<1>4. CASE adapter = "GITLAB" /\ ListOnce(GitLabTree)
  <2>1. PICK m \in 0 .. Len(remote) : Take(remote, q) = SubSeq(remote, 1, m) /\ (q <= m \/ m = Len(remote))
    BY <1>1, FirstOf
  <2>2. GitLabTree = Take(Without(SubSeq(remote, 1, m), folders), limit)
    BY <2>1 DEF GitLabTree, LimitedFiles, Files, q
  <2>3. Reach = q
    BY <1>4 DEF Reach, OnePage, q
  <2>4. GitLabTree \in Seq(Entry) /\ Covers(GitLabTree, remote, folders, Reach)
    BY <1>1, <1>2, <2>1, <2>2, <2>3, TakeCovers
  <2> QED
    BY <1>4, <2>4, OnceLists
<1>5. CASE adapter = "SLACK" /\ ListOnce(SlackFiles)
  <2>1. PICK m \in 0 .. Len(remote) :
          Take(remote, page) = SubSeq(remote, 1, m) /\ (page <= m \/ m = Len(remote))
    BY <1>1, FirstOf
  <2>2. Limited(Take(remote, page)) = LimitedFiles(Take(remote, page))
    <3>1. Take(remote, page) \in Seq(Entry)
      BY <1>1, FirstOf
    <3>2. adapter \notin WithFolders
      BY <1>5 DEF WithFolders
    <3> QED
      BY <3>1, <3>2, NoFolders
  <2>3. SlackFiles = Take(Without(SubSeq(remote, 1, m), folders), limit)
    BY <2>1, <2>2 DEF SlackFiles, LimitedFiles, Files
  <2>4. Reach = q
    BY <1>5 DEF Reach, OnePage, q
  <2>5. q <= m \/ m = Len(remote)
    BY <1>1, <1>2, <2>1
  <2>6. SlackFiles \in Seq(Entry) /\ Covers(SlackFiles, remote, folders, Reach)
    BY <1>1, <1>2, <2>3, <2>4, <2>5, TakeCovers
  <2> QED
    BY <1>5, <2>6, OnceLists
<1>6. CASE adapter = "GOOGLE_DRIVE" /\ ListOnce(GoogleFiles)
  <2>1. PICK m \in 0 .. Len(remote) :
          Take(remote, page) = SubSeq(remote, 1, m) /\ (page <= m \/ m = Len(remote))
    BY <1>1, FirstOf
  <2> DEFINE g == SubSeq(remote, 1, m)
             w == Without(g, folders)
  <2>2. g \in Seq(Entry) /\ Len(g) = m /\ m \in Nat
    BY <1>2
  <2>3. w \in Seq(Entry) /\ Len(w) \in 0 .. m
    <3> HIDE DEF g
    <3> QED
      BY <2>2, WithoutOrder
  <2>4. GoogleFiles = w
    BY <2>1 DEF GoogleFiles, Files
  <2>5. Take(w, m) = w
    <3> HIDE DEF w
    <3>1. Len(w) <= m
      BY <2>2, <2>3
    <3> QED
      BY <2>2, <2>3, <3>1, TakeDrop
  <2>6. Reach = page
    BY <1>1, <1>6 DEF Reach, OnePage, Least
  <2>7. Covers(w, remote, folders, page)
    <3>1. CASE page <= m
      BY <1>1, <1>2, <2>2, <2>5, <3>1, TakeCovers
    <3>2. CASE m = Len(remote) /\ m < page
      <4>1. Take(w, page) = w
        <5> HIDE DEF w
        <5>1. Len(w) <= page
          BY <1>1, <2>2, <2>3, <3>2
        <5> QED
          BY <1>1, <2>3, <5>1, TakeDrop
      <4> QED
        BY <1>1, <1>2, <3>2, <4>1, TakeCovers
    <3> QED
      BY <1>1, <2>1, <2>2, <3>1, <3>2
  <2> HIDE DEF w
  <2>8. GoogleFiles \in Seq(Entry) /\ Covers(GoogleFiles, remote, folders, Reach)
    BY <2>3, <2>4, <2>6, <2>7
  <2> QED
    BY <1>6, <2>8, OnceLists
<1>7. CASE adapter = "LINEAR" /\ ListOnce(LinearIssues)
  <2>1. PICK m \in 0 .. Len(remote) : Take(remote, q) = SubSeq(remote, 1, m) /\ (q <= m \/ m = Len(remote))
    BY <1>1, FirstOf
  <2> DEFINE g == Take(remote, q)
  <2>2. g \in Seq(Entry) /\ Len(g) <= q /\ Len(g) \in Nat
    <3>1. g \in Seq(Entry) /\ Len(g) = Least(q, Len(remote))
      BY <1>1, <1>2, TakeDrop
    <3> QED
      BY <1>1, <1>2, <3>1 DEF Least
  <2>3. Files(g) = g
    <3>1. adapter \notin WithFolders
      BY <1>7 DEF WithFolders
    <3> HIDE DEF g
    <3> QED
      BY <2>2, <3>1, NoFolders
  <2>4. Take(g, q) = g
    <3> HIDE DEF g
    <3> QED
      BY <1>1, <2>2, TakeDrop
  <2>5. LinearIssues = Take(Without(SubSeq(remote, 1, m), folders), q)
    BY <2>1, <2>3, <2>4 DEF LinearIssues, Files, q
  <2>6. Reach = q
    BY <1>7 DEF Reach, OnePage, q
  <2>7. LinearIssues \in Seq(Entry) /\ Covers(LinearIssues, remote, folders, Reach)
    BY <1>1, <1>2, <2>1, <2>5, <2>6, TakeCovers
  <2> QED
    BY <1>7, <2>7, OnceLists
<1> QED
  BY <1>3, <1>4, <1>5, <1>6, <1>7

\* The listings by cursor.
LEMMA CursorsList ==
  ASSUME TypeOK, PhaseInv, ScopeInv,
         \/ adapter = "DROPBOX" /\ DropboxEntries
         \/ adapter = "NOTION" /\ NotionPages
         \/ adapter = "GMAIL" /\ GmailIds
         \/ adapter = "ONEDRIVE" /\ DriveItems
         \/ adapter = "OUTLOOK" /\ OutlookMessages
         \/ adapter = "TEAMS" /\ TeamsMessages
  PROVE  Lists
<1>1. limit \in Nat /\ page \in Nat /\ Least(page, limit) \in Nat
  <2>1. limit \in Nat /\ page \in Nat
    BY LimitTypes
  <2> QED
    BY <2>1 DEF Least
<1>2. adapter \notin OnePage /\ adapter \notin Offset
  BY DEF OnePage, Offset
<1>3. CASE adapter = "DROPBOX" /\ DropboxEntries
  BY <1>1, <1>2, <1>3, CursorLists DEF DropboxEntries
<1>4. CASE adapter = "ONEDRIVE" /\ DriveItems
  BY <1>1, <1>2, <1>4, CursorLists DEF DriveItems
<1>5. CASE adapter \in {"NOTION", "OUTLOOK", "TEAMS"} /\ ListCursor(Least(page, limit), Limited)
  <2>1. adapter \notin WithFolders
    BY <1>5 DEF WithFolders
  <2>2. ListCursor(Least(page, limit), LimitedFiles)
    BY <1>1, <1>5, <2>1, LimitedCursor
  <2> QED
    BY <1>1, <1>2, <2>2, CursorLists
<1>6. CASE adapter = "GMAIL" /\ GmailIds
  <2>1. adapter \notin WithFolders
    BY <1>6 DEF WithFolders
  <2>2. Least(page, limit - Len(got)) \in Nat
    <3>1. got \in Seq(Entry)
      BY DEF TypeOK, Entry
    <3>2. Len(got) \in Nat
      BY <3>1
    <3>3. pc \in Listing
      BY <1>6 DEF GmailIds, ListCursor, ListPage
    <3>4. Len(got) < limit
      BY <3>3 DEF ScopeInv
    <3> QED
      BY <1>1, <3>2, <3>4 DEF Least
  <2>3. ListCursor(Least(page, limit - Len(got)), LimitedFiles)
    BY <1>6, <2>1, <2>2, LimitedCursor DEF GmailIds
  <2> QED
    BY <1>2, <2>2, <2>3, CursorLists
<1> QED
  BY <1>3, <1>4, <1>5, <1>6 DEF NotionPages, OutlookMessages, TeamsMessages

\* The listings by offset.
LEMMA OffsetsList ==
  ASSUME TypeOK, PhaseInv, ScopeInv,
         (adapter = "JIRA" /\ JiraIssues) \/ (adapter = "CONFLUENCE" /\ ConfluenceContent)
  PROVE  Lists
<1>1. adapter \in Offset
  BY DEF Offset
<1>2. CASE adapter = "JIRA" /\ JiraIssues
  BY <1>1, <1>2, OffsetLists DEF JiraIssues, ListPage, ToItems
<1>3. CASE adapter = "CONFLUENCE" /\ ConfluenceContent
  BY <1>1, <1>3, OffsetLists DEF ConfluenceContent, ListPage, ToItems
<1> QED
  BY <1>2, <1>3

\* Every step of a sync lists, breaks the listing off, handles an entry or a channel,
\* takes a token, or returns; the rest are changes of the service and of the clock.
LEMMA StepKinds ==
  ASSUME TypeOK, PhaseInv, ScopeInv, Next
  PROVE  Lists \/ Breaks \/ Handles \/ SlackChannel \/ TakesToken \/ Return \/ Change \/ Tick
<1>1. CASE GitHub
  BY <1>1, OncesList, FailsBreaks, FatesOf, FetchedHandles DEF GitHub
<1>2. CASE GitLab
  BY <1>2, OncesList, FailsBreaks, FatesOf, FetchedHandles DEF GitLab, Expiring
<1>3. CASE Slack
  BY <1>3, OncesList, FailsBreaks, FatesOf, FetchedHandles DEF Slack
<1>4. CASE Dropbox
  BY <1>4, CursorsList, FailsBreaks, FatesOf, FetchedHandles DEF Dropbox, DropboxBytes
<1>5. CASE Notion
  BY <1>5, CursorsList, FailsBreaks, FatesOf, FetchedHandles DEF Notion, Expiring
<1>6. CASE Jira
  BY <1>6, OffsetsList, FailsBreaks, FatesOf, ListedHandles DEF Jira, Expiring
<1>7. CASE Confluence
  BY <1>7, OffsetsList, FailsBreaks, FatesOf, FetchedHandles DEF Confluence, Expiring
<1>8. CASE Gmail
  BY <1>8, CursorsList, FailsBreaks, FatesOf, FetchedHandles DEF Gmail
<1>9. CASE GoogleDrive
  BY <1>9, OncesList, FailsBreaks, FatesOf, FetchedHandles DEF GoogleDrive
<1>10. CASE Linear
  BY <1>10, OncesList, FailsBreaks, FatesOf, ListedHandles DEF Linear, Expiring
<1>11. CASE GraphDrive
  BY <1>11, CursorsList, FailsBreaks, FatesOf, FetchedHandles DEF GraphDrive, DriveBytes
<1>12. CASE Outlook
  BY <1>12, CursorsList, FailsBreaks, FatesOf, FetchedHandles DEF Outlook
<1>13. CASE Teams
  BY <1>13, CursorsList, FailsBreaks, FatesOf, ListedHandles DEF Teams
<1> QED
  BY <1>1, <1>2, <1>3, <1>4, <1>5, <1>6, <1>7, <1>8, <1>9, <1>10, <1>11, <1>12, <1>13
     DEF Next, Sync, TakesToken

----------------------------------------------------------------------------
(* types *)

SourceOK ==
  /\ adapter \in Types /\ limit \in 1 .. Cap /\ page \in PageSizes
  /\ folders \subseteq Entries /\ own \in 0 .. MaxClock /\ chatter \subseteq Channels
ListOK ==
  /\ remote \in Seq(Entry) /\ got \in Seq(Entry) /\ rest \in Seq(Entry)
  /\ listed \in Seq(Entry) /\ snap \in Seq(Entry)
  /\ pc \in Listing \cup {"channels", "items", "end"} /\ at \in 1 .. Len(listed) + 1
AnswerOK ==
  /\ docs \in Seq(Entry \cup Channels) /\ errs \in Seq(Entry \cup Channels \cup {"listing"})
  /\ skips \in 0 .. Len(listed) /\ blanks \in 0 .. Len(listed)
  /\ outcome \in {"none", "documents", "bare", "thrown"}
TokensOK ==
  /\ held \in 0 .. MaxClock + Life /\ token \in 0 .. MaxClock + Life /\ waited \in 0 .. Skew
  /\ faults \in 0 .. MaxFaults /\ stale \in BOOLEAN
ClockOK ==
  /\ now \in 0 .. MaxClock /\ changes \in 0 .. MaxChanges
  /\ moved \in BOOLEAN /\ failed \in BOOLEAN

\* The type invariant in parts.
LEMMA TypeParts ==
  TypeOK <=> SourceOK /\ ListOK /\ AnswerOK /\ TokensOK /\ ClockOK
BY DEF TypeOK, SourceOK, ListOK, AnswerOK, TokensOK, ClockOK, Entry

\* The parts of the type invariant in the next state.
LEMMA TypePartsNext ==
  ASSUME SourceOK', ListOK', AnswerOK', TokensOK', ClockOK'
  PROVE  TypeOK'
BY DEF TypeOK, SourceOK, ListOK, AnswerOK, TokensOK, ClockOK, Entry

\* A request, or none, leaves the tokens their types.
LEMMA TokensTypes ==
  ASSUME TokensOK, Asks \/ Rejected \/ UNCHANGED <<tokens, faults>>
  PROVE  TokensOK'
<1>1. MaxClock \in Nat /\ MaxFaults \in Nat /\ Life \in Nat /\ Skew \in Nat
  BY BoundsAssumption, TokenAssumption
<1>2. 0 \in 0 .. MaxClock + Life /\ 0 \in 0 .. Skew
  BY <1>1
<1>3. CASE Asks
  <2>1. held' = 0 /\ waited' = 0 /\ token' = token /\ faults' = faults
    BY <1>3 DEF Asks, Arrives
  <2>2. stale' \in BOOLEAN
    BY <1>3, Zenon DEF Asks, Arrives
  <2> QED
    BY <1>2, <2>1, <2>2 DEF TokensOK
<1>4. CASE Rejected
  <2>1. held' = 0 /\ waited' = 0 /\ token' = token
    BY <1>4 DEF Rejected, Arrives
  <2>2. faults' \in 0 .. MaxFaults
    BY <1>1, <1>4 DEF Rejected, Arrives, TokensOK
  <2>3. stale' \in BOOLEAN
    <3>1. stale' = stale \/ stale' = (stale \/ Expired)
      BY <1>4, Zenon DEF Rejected, Arrives
    <3>2. stale \in BOOLEAN /\ (stale \/ Expired) \in BOOLEAN
      BY Zenon DEF TokensOK
    <3> QED
      BY <3>1, <3>2, Zenon
  <2> QED
    BY <1>2, <2>1, <2>2, <2>3 DEF TokensOK
<1>5. CASE UNCHANGED <<tokens, faults>>
  BY <1>5 DEF TokensOK, tokens
<1> QED
  BY <1>3, <1>4, <1>5

\* A page of a listing keeps the types.
LEMMA ListsTypes ==
  ASSUME TypeOK, PhaseInv, Lists
  PROVE  TypeOK'
<1>0. SourceOK /\ ListOK /\ AnswerOK /\ TokensOK /\ ClockOK
  BY TypeParts
<1>1. /\ pc \in Listing /\ Asks /\ got' \in Seq(Entry) /\ rest' \in Seq(Entry)
      /\ snap' \in {remote, snap} /\ pc' \in {"more", "items"}
      /\ listed' = listed \/ listed' \in Seq(Entry)
      /\ UNCHANGED <<source, chatter, remote, at, answer, now, changes, moved, failed>>
  BY DEF Lists, Began
<1>2. SourceOK'
  BY <1>0, <1>1 DEF SourceOK, source
<1>3. at = 1 /\ skips \in Nat /\ blanks \in Nat /\ skips + blanks < at
  BY <1>0, <1>1 DEF PhaseInv, AnswerOK
<1>4. skips = 0 /\ blanks = 0
  BY <1>3
<1>5. listed' \in Seq(Entry)
  BY <1>0, <1>1 DEF ListOK
<1>6. Len(listed') \in Nat
  BY <1>5
<1>7. ListOK'
  <2>1. at' \in 1 .. Len(listed') + 1
    BY <1>1, <1>3, <1>6
  <2>2. remote' \in Seq(Entry) /\ snap' \in Seq(Entry)
    BY <1>0, <1>1 DEF ListOK
  <2>3. pc' \in Listing \cup {"channels", "items", "end"}
    BY <1>1 DEF Listing
  <2> QED
    BY <1>1, <1>5, <2>1, <2>2, <2>3 DEF ListOK
<1>8. AnswerOK'
  <2>1. 0 \in 0 .. Len(listed')
    BY <1>6
  <2> QED
    BY <1>0, <1>1, <1>4, <2>1 DEF AnswerOK, answer
<1>9. TokensOK'
  BY <1>0, <1>1, TokensTypes
<1>10. ClockOK'
  BY <1>0, <1>1 DEF ClockOK
<1> QED
  BY <1>2, <1>7, <1>8, <1>9, <1>10, TypePartsNext

\* A listing that fails keeps them.
LEMMA BreaksTypes ==
  ASSUME TypeOK, PhaseInv, Breaks
  PROVE  TypeOK'
<1>0. SourceOK /\ ListOK /\ AnswerOK /\ TokensOK /\ ClockOK
  BY TypeParts
<1>1. PICK to \in {"items", "end"}, out \in {"none", "bare", "thrown", "documents"},
           e \in {<<>>, <<"listing">>} : Fails(to, out, e)
  BY DEF Breaks
<1>2. /\ Rejected /\ pc' = to /\ outcome' = out /\ errs' = errs \o e /\ failed' = TRUE
      /\ snap' \in {remote, snap}
      /\ UNCHANGED <<source, chatter, remote, got, rest, listed, at, docs, skips, blanks, now,
                     changes, moved>>
  BY <1>1 DEF Fails
<1>3. SourceOK'
  BY <1>0, <1>2 DEF SourceOK, source
<1>4. ListOK'
  BY <1>0, <1>2 DEF ListOK
<1>5. AnswerOK'
  <2> DEFINE T == Entry \cup Channels \cup {"listing"}
  <2>1. errs \in Seq(T)
    BY <1>0 DEF AnswerOK
  <2>2. e \in Seq(T)
    <3>1. "listing" \in T
      OBVIOUS
    <3> HIDE DEF T
    <3>2. <<>> \in Seq(T) /\ <<"listing">> \in Seq(T)
      BY <3>1
    <3> QED
      BY <3>2
  <2> HIDE DEF T
  <2>3. errs' \in Seq(T)
    BY <1>2, <2>1, <2>2
  <2> QED
    BY <1>0, <1>2, <2>3 DEF AnswerOK, T
<1>6. TokensOK'
  BY <1>0, <1>2, TokensTypes
<1>7. ClockOK'
  BY <1>0, <1>2 DEF ClockOK
<1> QED
  BY <1>3, <1>4, <1>5, <1>6, <1>7, TypePartsNext

\* An entry that is handled keeps them.
LEMMA HandlesTypes ==
  ASSUME TypeOK, PhaseInv, Handles
  PROVE  TypeOK'
<1>0. SourceOK /\ ListOK /\ AnswerOK /\ TokensOK /\ ClockOK
  BY TypeParts
<1>1. PICK what \in Fates : Becomes(what)
  BY DEF Handles
<1>2. /\ Handling /\ at' = at + 1
      /\ docs' = IF what = "document" THEN Append(docs, listed[at]) ELSE docs
      /\ errs' = IF what = "error" THEN Append(errs, listed[at]) ELSE errs
      /\ skips' = IF what = "skipped" THEN skips + 1 ELSE skips
      /\ blanks' = IF what = "dropped" THEN blanks + 1 ELSE blanks
      /\ UNCHANGED <<source, chatter, remote, pc, listing, outcome, now, changes, moved, failed>>
  BY <1>1 DEF Becomes, Handles
<1>3. at \in Nat /\ at >= 1 /\ at <= Len(listed) /\ Len(listed) \in Nat /\ listed[at] \in Entry
  <2>1. listed \in Seq(Entry) /\ at \in 1 .. Len(listed) + 1 /\ at <= Len(listed)
    BY <1>0, <1>2 DEF ListOK, Handling
  <2>2. Len(listed) \in Nat
    BY <2>1
  <2>3. at \in 1 .. Len(listed)
    BY <2>1, <2>2
  <2>4. listed[at] \in Entry
    BY <2>1, <2>3
  <2> QED
    BY <2>2, <2>3, <2>4
<1>4. SourceOK'
  BY <1>0, <1>2 DEF SourceOK, source
<1>5. ListOK'
  <2>1. at' \in 1 .. Len(listed) + 1
    BY <1>2, <1>3
  <2> QED
    BY <1>0, <1>2, <2>1 DEF ListOK, listing
<1>6. AnswerOK'
  <2>1. docs' \in Seq(Entry \cup Channels)
    BY <1>0, <1>2, <1>3 DEF AnswerOK
  <2>2. errs' \in Seq(Entry \cup Channels \cup {"listing"})
    BY <1>0, <1>2, <1>3 DEF AnswerOK
  <2>3. skips' \in 0 .. Len(listed) /\ blanks' \in 0 .. Len(listed)
    <3>1. skips \in Nat /\ blanks \in Nat /\ skips + blanks < at
      BY <1>0, <1>3 DEF AnswerOK, PhaseInv
    <3> QED
      BY <1>2, <1>3, <3>1
  <2>4. outcome' \in {"none", "documents", "bare", "thrown"} /\ listed' = listed
    BY <1>0, <1>2 DEF AnswerOK, listing
  <2> QED
    BY <2>1, <2>2, <2>3, <2>4 DEF AnswerOK
<1>7. TokensOK'
  BY <1>0, TokensTypes DEF Handles
<1>8. ClockOK'
  BY <1>0, <1>2 DEF ClockOK
<1> QED
  BY <1>4, <1>5, <1>6, <1>7, <1>8, TypePartsNext

\* So do the steps that touch neither the listing nor its entries.
LEMMA OtherTypes ==
  ASSUME TypeOK, PhaseInv, SlackChannel \/ TakesToken \/ Return \/ Change \/ Tick \/ UNCHANGED vars
  PROVE  TypeOK'
<1>0. SourceOK /\ ListOK /\ AnswerOK /\ TokensOK /\ ClockOK
  BY TypeParts
<1>1. MaxClock \in Nat /\ MaxFaults \in Nat /\ MaxChanges \in Nat /\ Life \in Nat /\ Skew \in Nat
  BY BoundsAssumption, TokenAssumption
<1>2. CASE SlackChannel
  <2>1. PICK c \in chatter :
          /\ chatter' = chatter \ {c}
          /\ \/ Asks /\ docs' = Append(docs, c) /\ UNCHANGED errs
             \/ Rejected /\ errs' = Append(errs, c) /\ UNCHANGED docs
    BY <1>2 DEF SlackChannel
  <2>2. /\ pc' \in {"first", "channels"}
        /\ UNCHANGED <<source, remote, listing, at, skips, outcome, blanks, now, changes, moved, failed>>
    BY <1>2 DEF SlackChannel
  <2>3. c \in Channels
    BY <1>0 DEF SourceOK
  <2>4. SourceOK'
    BY <1>0, <2>1, <2>2 DEF SourceOK, source
  <2>5. ListOK'
    BY <1>0, <2>2 DEF ListOK, listing, Listing
  <2>6. AnswerOK'
    <3>1. docs' \in Seq(Entry \cup Channels)
      <4>1. docs \in Seq(Entry \cup Channels) /\ c \in Entry \cup Channels
        BY <1>0, <2>3 DEF AnswerOK
      <4>2. docs' = docs \/ docs' = Append(docs, c)
        BY <2>1
      <4> QED
        BY <4>1, <4>2
    <3>2. errs' \in Seq(Entry \cup Channels \cup {"listing"})
      BY <1>0, <2>1, <2>3 DEF AnswerOK
    <3> QED
      BY <1>0, <2>2, <3>1, <3>2 DEF AnswerOK, listing
  <2>7. TokensOK'
    BY <1>0, <2>1, TokensTypes
  <2>8. ClockOK'
    BY <1>0, <2>2 DEF ClockOK
  <2> QED
    BY <2>4, <2>5, <2>6, <2>7, <2>8, TypePartsNext
<1>3. CASE TakesToken
  <2>1. /\ token' \in {token, own, now + Life} /\ held' = token'
        /\ UNCHANGED <<source, chatter, remote, pc, listing, at, answer, waited, stale, now, faults,
                       changes, moved, failed>>
    BY <1>3 DEF TakesToken, MicrosoftToken, DropboxToken, Holds
  <2>2. token' \in 0 .. MaxClock + Life
    BY <1>0, <1>1, <2>1 DEF SourceOK, TokensOK, ClockOK
  <2>3. SourceOK' /\ ListOK' /\ AnswerOK'
    BY <1>0, <2>1 DEF SourceOK, ListOK, AnswerOK, source, listing, answer
  <2>4. TokensOK' /\ ClockOK'
    BY <1>0, <2>1, <2>2 DEF TokensOK, ClockOK
  <2> QED
    BY <2>3, <2>4, TypePartsNext
<1>4. CASE Return
  <2>1. /\ pc' = "end" /\ outcome' = "documents"
        /\ UNCHANGED <<source, chatter, remote, listing, at, docs, errs, skips, blanks, tokens, now,
                       faults, changes, moved, failed>>
    BY <1>4 DEF Return
  <2>2. SourceOK' /\ ListOK' /\ AnswerOK'
    BY <1>0, <2>1 DEF SourceOK, ListOK, AnswerOK, source, listing
  <2>3. TokensOK' /\ ClockOK'
    BY <1>0, <2>1 DEF TokensOK, ClockOK, tokens
  <2> QED
    BY <2>2, <2>3, TypePartsNext
<1>5. CASE Change
  <2>1. /\ changes < MaxChanges /\ changes' = changes + 1
        /\ UNCHANGED <<source, chatter, pc, listing, at, answer, tokens, now, faults, failed>>
    BY <1>5 DEF Change
  <2>2. remote' \in Seq(Entry)
    <3>1. CASE \E e \in ToSet(remote) : \E front \in {<<e>>, <<>>} : remote' = front \o Without(remote, {e})
      <4>0. PICK e \in ToSet(remote) :
              \E front \in {<<e>>, <<>>} : remote' = front \o Without(remote, {e})
        BY <3>1
      <4>1. remote' = <<e>> \o Without(remote, {e}) \/ remote' = <<>> \o Without(remote, {e})
        BY <4>0
      <4>2. remote \in Seq(Entry)
        BY <1>0 DEF ListOK
      <4>3. e \in Entry
        BY <4>2 DEF ToSet
      <4>4. <<e>> \in Seq(Entry) /\ <<>> \in Seq(Entry)
        BY <4>3
      <4>5. Without(remote, {e}) \in Seq(Entry)
        BY <4>2, WithoutOrder
      <4>6. \A a, b \in Seq(Entry) : a \o b \in Seq(Entry)
        OBVIOUS
      <4> QED
        BY <4>1, <4>4, <4>5, <4>6, Zenon
    <3>2. CASE remote' = <<New>> \o remote
      <4>1. <<New>> \in Seq(Entry) /\ remote \in Seq(Entry)
        BY <1>0 DEF ListOK, Entry
      <4> QED
        BY <3>2, <4>1
    <3> QED
      BY <1>5, <3>1, <3>2 DEF Change
  <2>3. moved' \in BOOLEAN
    BY <1>5, Zenon DEF Change
  <2>4. changes' \in 0 .. MaxChanges
    BY <1>0, <1>1, <2>1 DEF ClockOK
  <2>5. SourceOK' /\ ListOK' /\ AnswerOK'
    BY <1>0, <2>1, <2>2 DEF SourceOK, ListOK, AnswerOK, source, listing, answer
  <2>6. TokensOK' /\ ClockOK'
    BY <1>0, <2>1, <2>3, <2>4 DEF TokensOK, ClockOK, tokens
  <2> QED
    BY <2>5, <2>6, TypePartsNext
<1>6. CASE Tick
  <2>1. /\ now < MaxClock /\ now' = now + 1
        /\ waited' = waited \/ (waited < Skew /\ waited' = waited + 1)
        /\ UNCHANGED <<source, chatter, remote, pc, listing, at, answer, token, held, stale, faults,
                       changes, moved, failed>>
    BY <1>6 DEF Tick
  <2>2. now' \in 0 .. MaxClock /\ waited' \in 0 .. Skew
    BY <1>0, <1>1, <2>1 DEF TokensOK, ClockOK
  <2>3. SourceOK' /\ ListOK' /\ AnswerOK'
    BY <1>0, <2>1 DEF SourceOK, ListOK, AnswerOK, source, listing, answer
  <2>4. TokensOK' /\ ClockOK'
    BY <1>0, <2>1, <2>2 DEF TokensOK, ClockOK
  <2> QED
    BY <2>3, <2>4, TypePartsNext
<1>7. CASE UNCHANGED vars
  <2>1. SourceOK' /\ ListOK' /\ AnswerOK'
    BY <1>0, <1>7 DEF SourceOK, ListOK, AnswerOK, source, listing, answer, vars
  <2>2. TokensOK' /\ ClockOK'
    BY <1>0, <1>7 DEF TokensOK, ClockOK, tokens, vars
  <2> QED
    BY <2>1, <2>2, TypePartsNext
<1> QED
  BY <1>2, <1>3, <1>4, <1>5, <1>6, <1>7

----------------------------------------------------------------------------
(* tokens *)

\* Nothing is taken back from the errors of an answer.
LEMMA MoreErrors ==
  ASSUME AnswerOK, NEW e, errs' = Append(errs, e)
  PROVE  errs' # <<>>
<1>1. errs \in Seq(Entry \cup Channels \cup {"listing"})
  BY DEF AnswerOK
<1>2. Len(errs) \in Nat /\ Len(Append(errs, e)) = Len(errs) + 1 /\ Len(<<>>) = 0
  BY <1>1
<1> QED
  BY <1>2

\* A request takes a token that lasts, or one that was given, and leaves none in hand.
LEMMA RequestsTokens ==
  ASSUME TypeOK, TokenInv, now' = now, own' = own, adapter' = adapter,
         errs # <<>> => errs' # <<>>,
         \/ Asks
         \/ Rejected /\ (errs' # <<>> \/ adapter \notin Expiring)
         \/ UNCHANGED <<tokens, faults>>
  PROVE  TokenInv'
<1>1. TokensOK /\ ClockOK
  BY TypeParts
<1>2. /\ held \in Int /\ waited \in Int /\ waited <= Skew /\ now \in Int /\ Skew \in Int
      /\ MaxClock \in Int /\ Life \in Int
  BY <1>1, TokenAssumption, BoundsAssumption DEF TokensOK, ClockOK
<1>3. CASE Asks
  <2>1. held' = 0 /\ waited' = 0
    BY <1>3 DEF Asks, Arrives
  <2>2. stale' => stale
    BY <1>3, Zenon DEF Asks, Arrives
  <2> QED
    BY <2>1, <2>2 DEF TokenInv
<1>4. CASE Rejected /\ (errs' # <<>> \/ adapter \notin Expiring)
  <2>1. held' = 0 /\ waited' = 0
    BY <1>4 DEF Rejected, Arrives
  <2>2. held # 0 /\ own = 0 => ~(now >= held)
    BY <1>2 DEF TokenInv
  <2>3. stale' => stale \/ (Arrives /\ Expired)
    BY <1>4, Zenon DEF Rejected
  <2>4. Arrives /\ Expired => adapter \in Expiring /\ held # 0 /\ now >= held
    BY DEF Arrives, Expired
  <2>5. stale' => own # 0 /\ errs' # <<>>
    BY <1>4, <2>2, <2>3, <2>4, Zenon DEF TokenInv
  <2> QED
    BY <2>1, <2>5 DEF TokenInv
<1>5. CASE UNCHANGED <<tokens, faults>>
  BY <1>5 DEF TokenInv, tokens
<1> QED
  BY <1>3, <1>4, <1>5

\* A listing that breaks off leaves an error, or its adapter asks for no token.
LEMMA BreaksErrors ==
  ASSUME TypeOK, Breaks
  PROVE  /\ now' = now /\ own' = own /\ adapter' = adapter
         /\ errs # <<>> => errs' # <<>>
         /\ Rejected /\ (errs' # <<>> \/ adapter \notin Expiring)
<1>1. PICK to \in {"items", "end"}, out \in {"none", "bare", "thrown", "documents"},
           e \in {<<>>, <<"listing">>} :
        /\ e = <<>> => adapter \notin Expiring
        /\ Fails(to, out, e)
  BY DEF Breaks
<1>2. Rejected /\ errs' = errs \o e /\ now' = now /\ own' = own /\ adapter' = adapter
  BY <1>1 DEF Fails, source
<1>3. errs \in Seq(Entry \cup Channels \cup {"listing"})
  BY TypeParts DEF AnswerOK
<1>4. CASE e = <<>>
  <2>1. errs \o <<>> = errs
    BY <1>3
  <2> QED
    BY <1>1, <1>2, <1>4, <2>1
<1>5. CASE e = <<"listing">>
  <2>1. Len(errs) \in Nat /\ Len(errs \o <<"listing">>) = Len(errs) + 1 /\ Len(<<>>) = 0
    BY <1>3
  <2>2. errs' # <<>>
    BY <1>2, <1>5, <2>1
  <2> QED
    BY <1>2, <2>2
<1> QED
  BY <1>1, <1>4, <1>5

\* An entry whose request was refused is an error of the answer.
LEMMA HandlesErrors ==
  ASSUME TypeOK, Handles
  PROVE  /\ now' = now /\ own' = own /\ adapter' = adapter
         /\ errs # <<>> => errs' # <<>>
         /\ Asks \/ (Rejected /\ errs' # <<>>) \/ UNCHANGED <<tokens, faults>>
<1>1. AnswerOK
  BY TypeParts
<1>2. PICK what \in Fates : Becomes(what)
  BY DEF Handles
<1>3. /\ now' = now /\ own' = own /\ adapter' = adapter
      /\ errs' = Append(errs, listed[at]) \/ errs' = errs
  BY <1>2 DEF Becomes, source
<1>4. errs' = Append(errs, listed[at]) => errs' # <<>>
  BY <1>1, MoreErrors
<1>5. Asks \/ (Rejected /\ errs' = Append(errs, listed[at])) \/ UNCHANGED <<tokens, faults>>
  BY DEF Handles
<1> QED
  BY <1>3, <1>4, <1>5

\* A token taken in hand lasts longer than it may be on its way, and time counts both.
LEMMA OtherTokens ==
  ASSUME TypeOK, TokenInv, SlackChannel \/ TakesToken \/ Return \/ Change \/ Tick \/ UNCHANGED vars
  PROVE  TokenInv'
<1>1. TokensOK /\ ClockOK /\ AnswerOK
  BY TypeParts
<1>2. /\ token \in Nat /\ held \in Nat /\ waited \in Nat /\ waited <= Skew /\ now \in Nat
      /\ Skew \in Nat /\ Life \in Nat /\ Skew < Life /\ MaxClock \in Nat
  BY <1>1, TokenAssumption, BoundsAssumption DEF TokensOK, ClockOK
<1>3. CASE SlackChannel
  <2>1. now' = now /\ own' = own /\ adapter' = adapter
    BY <1>3 DEF SlackChannel, source
  <2>2. PICK c \in chatter : \/ Asks /\ UNCHANGED errs
                             \/ Rejected /\ errs' = Append(errs, c)
    BY <1>3 DEF SlackChannel
  <2>3. errs' = Append(errs, c) => errs' # <<>>
    BY <1>1, MoreErrors
  <2>4. (errs # <<>> => errs' # <<>>) /\ (Asks \/ (Rejected /\ errs' # <<>>))
    BY <2>2, <2>3
  <2> QED
    BY <2>1, <2>4, RequestsTokens
<1>4. CASE TakesToken
  <2>1. held = 0 /\ UNCHANGED <<source, waited, now, stale, errs>>
    BY <1>4 DEF TakesToken, MicrosoftToken, DropboxToken, Holds, answer
  <2>2. own = 0 => held' = IF token # 0 /\ now < token - Skew THEN token ELSE now + Life
    BY <1>4 DEF TakesToken, MicrosoftToken, DropboxToken, Holds
  <2>3. waited = 0
    BY <2>1 DEF TokenInv
  <2>4. own = 0 => now + Skew < held'
    BY <1>2, <2>2
  <2>5. own = 0 => now' + Skew < held' + waited'
    BY <1>2, <2>1, <2>2, <2>3, <2>4
  <2>6. own' = own /\ adapter' = adapter
    BY <2>1 DEF source
  <2> QED
    BY <2>1, <2>3, <2>5, <2>6 DEF TokenInv
<1>5. CASE Return
  BY <1>5 DEF Return, TokenInv, tokens, source
<1>6. CASE Change
  BY <1>6 DEF Change, TokenInv, tokens, source, answer
<1>7. CASE Tick
  <2>1. held' = held /\ stale' = stale /\ now' = now + 1
        /\ (held = 0 => waited' = waited) /\ (held # 0 => waited' = waited + 1)
        /\ UNCHANGED <<own, adapter, errs>>
    BY <1>7 DEF Tick, source, answer
  <2>2. held # 0 /\ own = 0 => now' + Skew < held' + waited'
    BY <1>2, <2>1 DEF TokenInv
  <2> QED
    BY <2>1, <2>2 DEF TokenInv
<1>8. CASE UNCHANGED vars
  BY <1>8 DEF vars, TokenInv, tokens, source, answer
<1> QED
  BY <1>3, <1>4, <1>5, <1>6, <1>7, <1>8

----------------------------------------------------------------------------
(* where a sync stands, and what its listing covers *)

\* A page of a listing, or its end.
LEMMA ListsScope ==
  ASSUME TypeOK, PhaseInv, ScopeInv, Lists
  PROVE  PhaseInv' /\ ScopeInv'
<1>1. /\ pc \in Listing
      /\ \/ pc' = "more" /\ listed' = listed /\ Begun(got', rest', snap')
         \/ /\ pc' = "items"
            /\ (moved /\ adapter \in Offset) \/ Covers(listed', snap', folders, Reach)
      /\ (pc = "first" => snap' = remote) /\ (pc # "first" => snap' = snap)
  BY DEF Lists, Began
<1>2. /\ adapter' = adapter /\ limit' = limit /\ page' = page /\ folders' = folders /\ remote' = remote
      /\ at' = at /\ docs' = docs /\ errs' = errs /\ skips' = skips /\ outcome' = outcome
      /\ blanks' = blanks /\ moved' = moved /\ failed' = failed
  BY DEF Lists, source, answer
<1>3. PhaseInv'
  <2>1. pc # "end" /\ outcome = "none" /\ ~failed /\ pc' # "end" /\ pc' \notin {"first", "channels"}
    BY <1>1 DEF PhaseInv, Listing
  <2>2. pc' \in Listing \cup {"channels"} => at' = 1 /\ listed' = <<>> /\ ~failed'
    BY <1>1, <1>2 DEF PhaseInv, Listing
  <2>3. skips' + blanks' < at' /\ (adapter' \notin WithFolders => folders' = {})
    BY <1>2 DEF PhaseInv
  <2> QED
    BY <1>2, <2>1, <2>2, <2>3 DEF PhaseInv
<1>4. CASE pc' = "more"
  <2>1. Begun(got', rest', snap')
    BY <1>1, <1>4
  <2>2. Begun(got, rest, snap)' /\ Len(got') < limit'
    BY <1>2, <2>1 DEF Begun
  <2>3. ~moved' => remote' = snap'
    BY <1>1, <1>2 DEF ScopeInv, Listing
  <2> QED
    BY <1>3, <1>4, <2>2, <2>3 DEF ScopeInv, Listing
<1>5. CASE pc' = "items"
  <2>1. Reach' = Reach
    BY <1>2 DEF Reach
  <2>2. ~(moved' /\ adapter' \in Offset) => Covers(listed, snap, folders, Reach)'
    BY <1>1, <1>2, <1>5, <2>1
  <2> QED
    BY <1>3, <1>5, <2>2 DEF ScopeInv, Listing
<1> QED
  BY <1>1, <1>4, <1>5

\* A listing that fails.
LEMMA BreaksScope ==
  ASSUME TypeOK, PhaseInv, ScopeInv, Breaks
  PROVE  PhaseInv' /\ ScopeInv'
<1>1. PICK to \in {"items", "end"}, out \in {"none", "bare", "thrown", "documents"},
           e \in {<<>>, <<"listing">>} :
             /\ to = "items" <=> out = "none"
             /\ e = <<>> <=> out = "thrown"
             /\ Fails(to, out, e)
  BY DEF Breaks
<1>2. /\ pc \in Listing /\ pc' = to /\ outcome' = out /\ errs' = errs \o e /\ failed' = TRUE
      /\ folders' = folders /\ adapter' = adapter
      /\ listed' = listed /\ at' = at /\ skips' = skips /\ blanks' = blanks
  BY <1>1 DEF Fails, source
<1>3. out # "thrown" => errs' # <<>>
  <2> DEFINE T == Entry \cup Channels \cup {"listing"}
  <2>1. errs \in Seq(T) /\ "listing" \in T
    BY TypeParts DEF AnswerOK
  <2> HIDE DEF T
  <2>2. errs \o <<"listing">> # <<>>
    <3>1. <<"listing">> \in Seq(T) /\ Len(<<"listing">>) = 1
      BY <2>1
    <3>2. Len(errs \o <<"listing">>) = Len(errs) + 1 /\ Len(errs) \in Nat
      BY <2>1, <3>1
    <3>3. Len(<<>>) = 0
      OBVIOUS
    <3> QED
      BY <3>2, <3>3
  <2> QED
    BY <1>1, <1>2, <2>2
<1>4. at = 1 /\ listed = <<>> /\ skips + blanks < at
  BY <1>2 DEF PhaseInv
<1>5. at' > Len(listed')
  BY <1>2, <1>4
<1>6. PhaseInv'
  BY <1>1, <1>2, <1>3, <1>4, <1>5 DEF PhaseInv, Listing
<1>7. ScopeInv'
  BY <1>1, <1>2 DEF ScopeInv, Listing
<1> QED
  BY <1>6, <1>7

\* An entry that is handled.
LEMMA HandlesScope ==
  ASSUME TypeOK, PhaseInv, ScopeInv, Handles
  PROVE  PhaseInv' /\ ScopeInv'
<1>1. PICK what \in Fates : Becomes(what)
  BY DEF Handles
<1>2. /\ pc = "items" /\ at <= Len(listed) /\ at' = at + 1
      /\ errs' = IF what = "error" THEN Append(errs, listed[at]) ELSE errs
      /\ skips' = IF what = "skipped" THEN skips + 1 ELSE skips
      /\ blanks' = IF what = "dropped" THEN blanks + 1 ELSE blanks
  BY <1>1 DEF Becomes, Handles, Handling
<1>3. /\ adapter' = adapter /\ limit' = limit /\ page' = page /\ folders' = folders
      /\ listed' = listed /\ snap' = snap /\ pc' = pc
      /\ outcome' = outcome /\ moved' = moved /\ failed' = failed
  BY <1>1 DEF Becomes, source, listing
<1>4. skips' + blanks' < at'
  <2>1. skips \in Nat /\ blanks \in Nat /\ at \in Nat /\ skips + blanks < at
    <3>1. skips \in Nat /\ blanks \in Nat
      BY TypeParts DEF AnswerOK
    <3>2. at \in Nat
      BY TypeParts DEF ListOK
    <3> QED
      BY <3>1, <3>2 DEF PhaseInv
  <2> QED
    BY <1>2, <2>1
<1>5. errs # <<>> => errs' # <<>>
  <2>1. errs \in Seq(Entry \cup Channels \cup {"listing"})
    BY TypeParts DEF AnswerOK
  <2>2. Append(errs, listed[at]) # <<>>
    <3>1. listed \in Seq(Entry) /\ at \in 1 .. Len(listed) + 1 /\ at <= Len(listed)
      BY <1>2, TypeParts DEF ListOK
    <3>2. Len(listed) \in Nat
      BY <3>1
    <3>3. at \in 1 .. Len(listed)
      BY <3>1, <3>2
    <3>4. listed[at] \in Entry
      BY <3>1, <3>3
    <3> QED
      BY <2>1, <3>4
  <2> QED
    BY <1>2, <2>2
<1>6. PhaseInv'
  BY <1>2, <1>3, <1>4, <1>5 DEF PhaseInv, Listing
<1>7. Reach' = Reach
  BY <1>3 DEF Reach
<1>8. ScopeInv'
  BY <1>2, <1>3, <1>7 DEF ScopeInv, Listing
<1> QED
  BY <1>6, <1>8

\* A step that touches neither the listing nor its entries.
LEMMA OtherScope ==
  ASSUME TypeOK, PhaseInv, ScopeInv,
         SlackChannel \/ TakesToken \/ Return \/ Change \/ Tick \/ UNCHANGED vars
  PROVE  PhaseInv' /\ ScopeInv'
<1>1. CASE SlackChannel
  <2>1. /\ pc = "channels" /\ pc' \in {"first", "channels"}
        /\ adapter' = adapter /\ limit' = limit /\ folders' = folders
        /\ got' = got /\ listed' = listed /\ at' = at /\ skips' = skips
        /\ outcome' = outcome /\ blanks' = blanks /\ moved' = moved /\ failed' = failed
    BY <1>1 DEF SlackChannel, source, listing
  <2>2. PhaseInv'
    BY <2>1 DEF PhaseInv, Listing
  <2>3. Len(got') < limit'
    <3>1. got = <<>> /\ limit \in Nat \ {0}
      BY <2>1, LimitTypes DEF PhaseInv
    <3>2. Len(<<>>) = 0
      OBVIOUS
    <3> QED
      BY <2>1, <3>1, <3>2
  <2>4. ScopeInv'
    BY <2>1, <2>3 DEF ScopeInv, Listing
  <2> QED
    BY <2>2, <2>4
<1>2. CASE Return
  <2>1. /\ pc = "items" /\ at > Len(listed) /\ pc' = "end" /\ outcome' = "documents"
        /\ adapter' = adapter /\ limit' = limit /\ page' = page /\ folders' = folders
        /\ listed' = listed /\ snap' = snap /\ at' = at /\ errs' = errs /\ skips' = skips
        /\ blanks' = blanks /\ moved' = moved /\ failed' = failed
    BY <1>2 DEF Return, source, listing
  <2>2. PhaseInv'
    BY <2>1 DEF PhaseInv, Listing
  <2>3. Reach' = Reach
    BY <2>1 DEF Reach
  <2>4. ScopeInv'
    BY <2>1, <2>3 DEF ScopeInv, Listing
  <2> QED
    BY <2>2, <2>4
<1>3. CASE Change
  <2>1. /\ pc # "end" /\ moved' = (moved \/ pc = "more")
        /\ adapter' = adapter /\ limit' = limit /\ page' = page /\ folders' = folders /\ pc' = pc
        /\ got' = got /\ rest' = rest /\ listed' = listed /\ snap' = snap /\ at' = at
        /\ errs' = errs /\ skips' = skips /\ outcome' = outcome /\ blanks' = blanks
        /\ failed' = failed
    BY <1>3 DEF Change, source, listing, answer
  <2>2. (pc = "more" => moved') /\ (pc # "more" => moved' = moved) /\ (moved => moved')
    <3>1. moved \in BOOLEAN
      BY TypeParts DEF ClockOK
    <3> QED
      BY <2>1, <3>1
  <2>3. PhaseInv'
    BY <2>1, <2>2 DEF PhaseInv, Listing
  <2>4. Reach' = Reach
    BY <2>1 DEF Reach
  <2>5. pc = "more" => Begun(got, rest, snap)'
    BY <2>1, <2>2 DEF ScopeInv, Begun
  <2>6. ScopeInv'
    BY <2>1, <2>2, <2>4, <2>5 DEF ScopeInv
  <2> QED
    BY <2>3, <2>6
<1>4. CASE TakesToken \/ Tick \/ UNCHANGED vars
  <2>1. /\ adapter' = adapter /\ limit' = limit /\ page' = page /\ folders' = folders /\ pc' = pc
        /\ remote' = remote /\ got' = got /\ rest' = rest /\ listed' = listed /\ snap' = snap
        /\ at' = at /\ errs' = errs /\ skips' = skips /\ outcome' = outcome /\ blanks' = blanks
        /\ moved' = moved /\ failed' = failed
    BY <1>4 DEF TakesToken, MicrosoftToken, DropboxToken, Holds, Tick, vars, source, listing, answer
  <2>2. PhaseInv'
    BY <2>1 DEF PhaseInv
  <2>3. Reach' = Reach
    BY <2>1 DEF Reach
  <2>4. Begun(got, rest, snap)' <=> Begun(got, rest, snap)
    BY <2>1 DEF Begun
  <2>5. ScopeInv'
    BY <2>1, <2>3, <2>4 DEF ScopeInv
  <2> QED
    BY <2>2, <2>5
<1> QED
  BY <1>1, <1>2, <1>3, <1>4

----------------------------------------------------------------------------
(* counting the answer *)

\* An entry appended counts if it is one of those counted.
LEMMA CountAppend ==
  ASSUME NEW T, NEW s \in Seq(T), NEW x \in T, NEW P
  PROVE  /\ Count(s, P) \in Nat
         /\ Count(Append(s, x), P) = Count(s, P) + (IF x \in P THEN 1 ELSE 0)
<1> DEFINE A == {k \in DOMAIN s : s[k] \in P}
           n == Len(s) + 1
           B == {k \in DOMAIN Append(s, x) : Append(s, x)[k] \in P}
<1>1. Len(s) \in Nat /\ A \subseteq 1 .. Len(s)
  OBVIOUS
<1>2. IsFiniteSet(A)
  <2>1. IsFiniteSet(1 .. Len(s))
    BY <1>1, FS_Interval
  <2> QED
    BY <1>1, <2>1, FS_Subset
<1>3. Cardinality(A) \in Nat
  BY <1>2, FS_CardinalityType
<1>4. /\ DOMAIN Append(s, x) = 1 .. n
      /\ Append(s, x)[n] = x /\ \A k \in 1 .. Len(s) : Append(s, x)[k] = s[k]
  BY AppendProperties
<1>5. B = A \cup (IF x \in P THEN {n} ELSE {})
  BY <1>1, <1>4
<1>6. n \notin A
  BY <1>1
<1> HIDE DEF A, B, n
<1>7. Cardinality(B) = Cardinality(A) + (IF x \in P THEN 1 ELSE 0)
  <2>1. CASE x \in P
    BY <1>2, <1>5, <1>6, <2>1, FS_AddElement
  <2>2. CASE x \notin P
    BY <1>3, <1>5, <2>2
  <2> QED
    BY <2>1, <2>2
<1> QED
  BY <1>3, <1>7 DEF Count, A, B

\* Two sequences are counted one after the other.
LEMMA CountConcat ==
  ASSUME NEW T, NEW s \in Seq(T), NEW t \in Seq(T), NEW P
  PROVE  Count(s \o t, P) = Count(s, P) + Count(t, P)
<1> DEFINE A == {k \in DOMAIN s : s[k] \in P}
           B == {k \in DOMAIN t : t[k] \in P}
           C == {k \in DOMAIN (s \o t) : (s \o t)[k] \in P}
           D == {k + Len(s) : k \in B}
           f == [k \in B |-> k + Len(s)]
<1>1. /\ Len(s) \in Nat /\ Len(t) \in Nat /\ A \subseteq 1 .. Len(s) /\ B \subseteq 1 .. Len(t)
      /\ DOMAIN s = 1 .. Len(s) /\ DOMAIN t = 1 .. Len(t)
  OBVIOUS
<1>2. IsFiniteSet(A) /\ IsFiniteSet(B)
  <2>1. IsFiniteSet(1 .. Len(s)) /\ IsFiniteSet(1 .. Len(t))
    BY <1>1, FS_Interval
  <2> HIDE DEF A, B
  <2> QED
    BY <1>1, <2>1, FS_Subset
<1>3. /\ DOMAIN (s \o t) = 1 .. Len(s) + Len(t)
      /\ \A k \in 1 .. Len(s) : (s \o t)[k] = s[k]
      /\ \A k \in 1 .. Len(t) : (s \o t)[k + Len(s)] = t[k]
  <2>1. /\ s \o t \in Seq(T) /\ Len(s \o t) = Len(s) + Len(t)
        /\ \A i \in 1 .. Len(s) + Len(t) :
             (s \o t)[i] = IF i <= Len(s) THEN s[i] ELSE t[i - Len(s)]
    BY ConcatProperties
  <2>2. DOMAIN (s \o t) = 1 .. Len(s) + Len(t)
    BY <2>1
  <2>3. ASSUME NEW k \in 1 .. Len(s)
        PROVE  (s \o t)[k] = s[k]
    BY <1>1, <2>1
  <2>4. ASSUME NEW k \in 1 .. Len(t)
        PROVE  (s \o t)[k + Len(s)] = t[k]
    <3>1. k + Len(s) \in 1 .. Len(s) + Len(t) /\ ~(k + Len(s) <= Len(s)) /\ (k + Len(s)) - Len(s) = k
      BY <1>1
    <3> QED
      BY <2>1, <3>1
  <2> QED
    BY <2>2, <2>3, <2>4
<1>4. C = A \cup D
  <2>1. ASSUME NEW k \in C
        PROVE  k \in A \cup D
    <3>1. k \in 1 .. Len(s) + Len(t) /\ (s \o t)[k] \in P
      BY <1>3
    <3>2. CASE k \in 1 .. Len(s)
      BY <1>1, <1>3, <3>1, <3>2
    <3>3. CASE k \notin 1 .. Len(s)
      <4>1. k - Len(s) \in 1 .. Len(t) /\ (k - Len(s)) + Len(s) = k
        BY <1>1, <3>1, <3>3
      <4>2. t[k - Len(s)] \in P
        BY <1>3, <3>1, <4>1
      <4>3. k - Len(s) \in B
        BY <1>1, <4>1, <4>2
      <4> QED
        BY <4>1, <4>3
    <3> QED
      BY <3>2, <3>3
  <2>2. ASSUME NEW k \in A
        PROVE  k \in C
    BY <1>1, <1>3
  <2>3. ASSUME NEW k \in B
        PROVE  k + Len(s) \in C
    BY <1>1, <1>3
  <2> QED
    BY <2>1, <2>2, <2>3
<1>5. A \cap D = {}
  BY <1>1
<1>6. f \in Bijection(B, D)
  <2>1. \A a, b \in B : a + Len(s) = b + Len(s) => a = b
    BY <1>1
  <2> QED
    BY <2>1 DEF Bijection, Injection, Surjection, IsInjective
<1> HIDE DEF A, B, C, D, f
<1>7. IsFiniteSet(D) /\ Cardinality(D) = Cardinality(B)
  BY <1>2, <1>6, FS_Bijection DEF ExistsBijection
<1>8. Cardinality(C) = Cardinality(A) + Cardinality(D)
  <2>1. Cardinality(A \cup D) = Cardinality(A) + Cardinality(D) - Cardinality(A \cap D)
    BY <1>2, <1>7, FS_Union
  <2>2. Cardinality({}) = 0
    BY FS_EmptySet
  <2>3. Cardinality(A) \in Nat /\ Cardinality(D) \in Nat
    BY <1>2, <1>7, FS_CardinalityType
  <2>4. Cardinality(A \cap D) = 0 /\ Cardinality(C) = Cardinality(A \cup D)
    BY <1>4, <1>5, <2>2
  <2> QED
    BY <2>1, <2>3, <2>4
<1> QED
  BY <1>7, <1>8 DEF Count, A, B, C

\* What is no entry is not counted.
LEMMA Uncounted ==
  ASSUME NEW T, NEW s \in Seq(T), NEW x \in T, x \in Channels \cup {"listing"}
  PROVE  /\ Count(Append(s, x), Entry) = Count(s, Entry)
         /\ \A e \in Entry : Count(Append(s, x), {e}) = Count(s, {e})
<1>1. x \notin Entry
  BY NamesAssumption DEF Entry
<1>2. \A e \in Entry : x \notin {e}
  BY <1>1
<1>3. Count(Append(s, x), Entry) = Count(s, Entry)
  <2>1. Count(s, Entry) \in Nat /\ Count(Append(s, x), Entry) = Count(s, Entry) + 0
    BY <1>1, CountAppend
  <2> QED
    BY <2>1
<1>4. ASSUME NEW e \in Entry
      PROVE  Count(Append(s, x), {e}) = Count(s, {e})
  <2>1. Count(s, {e}) \in Nat /\ Count(Append(s, x), {e}) = Count(s, {e}) + 0
    BY <1>2, CountAppend
  <2> QED
    BY <2>1
<1> QED
  BY <1>3, <1>4

\* A page of a listing, or its failure, tells nothing of an entry.
LEMMA ListingCount ==
  ASSUME TypeOK, PhaseInv, CountInv, Lists \/ Breaks
  PROVE  CountInv'
<1> DEFINE T == Entry \cup Channels \cup {"listing"}
<1>1. at = 1 /\ at' = 1 /\ docs' = docs /\ skips' = skips /\ blanks' = blanks /\ adapter' = adapter
  <2>1. CASE Lists
    <3>1. pc \in Listing /\ UNCHANGED <<at, answer, source>>
      BY <2>1 DEF Lists
    <3> QED
      BY <3>1 DEF PhaseInv, answer, source
  <2>2. CASE Breaks
    <3>1. pc \in Listing /\ at' = at /\ docs' = docs /\ skips' = skips /\ blanks' = blanks
          /\ UNCHANGED source
      BY <2>2 DEF Breaks, Fails
    <3> QED
      BY <3>1 DEF PhaseInv, source
  <2> QED
    BY <2>1, <2>2
<1>2. errs \in Seq(T) /\ "listing" \in T /\ "listing" \in Channels \cup {"listing"}
  BY TypeParts DEF AnswerOK
<1>3. errs' = errs \/ errs' = Append(errs, "listing")
  <2>1. CASE Lists
    BY <2>1 DEF Lists, answer
  <2>2. CASE Breaks
    <3>1. errs' = errs \o <<>> \/ errs' = errs \o <<"listing">>
      BY <2>2 DEF Breaks, Fails
    <3> HIDE DEF T
    <3>2. errs \o <<>> = errs
      BY <1>2
    <3>3. Append(errs, "listing") = errs \o <<"listing">>
      BY <1>2, AppendIsConcat
    <3> QED
      BY <3>1, <3>2, <3>3
  <2> QED
    BY <2>1, <2>2
<1>4. /\ Count(errs', Entry) = Count(errs, Entry)
      /\ \A e \in Entry : Count(errs', {e}) = Count(errs, {e})
  <2> HIDE DEF T
  <2>1. /\ Count(Append(errs, "listing"), Entry) = Count(errs, Entry)
        /\ \A e \in Entry : Count(Append(errs, "listing"), {e}) = Count(errs, {e})
    BY <1>2, Uncounted
  <2>2. CASE errs' = errs
    BY <2>2
  <2>3. CASE errs' = Append(errs, "listing")
    BY <2>1, <2>3
  <2> QED
    BY <1>3, <2>2, <2>3
<1>5. SubSeq(listed, 1, at - 1) = <<>> /\ SubSeq(listed', 1, at' - 1) = <<>>
  <2>1. at - 1 = 0 /\ at' - 1 = 0
    BY <1>1
  <2>2. SubSeq(listed, 1, 0) = <<>> /\ SubSeq(listed', 1, 0) = <<>>
    BY SubSeqEmpty
  <2> QED
    BY <2>1, <2>2
<1>6. Count(docs', Entry) + Count(errs', Entry) + skips' + blanks' = at' - 1
  BY <1>1, <1>4 DEF CountInv
<1>7. ASSUME NEW e \in Entry
      PROVE  Count(docs', {e}) + Count(errs', {e}) <= Count(SubSeq(listed', 1, at' - 1), {e})
  <2>1. Count(docs, {e}) + Count(errs, {e}) <= Count(SubSeq(listed, 1, at - 1), {e})
    BY DEF CountInv
  <2>2. Count(docs', {e}) = Count(docs, {e}) /\ Count(errs', {e}) = Count(errs, {e})
    BY <1>1, <1>4
  <2>3. Count(SubSeq(listed', 1, at' - 1), {e}) = Count(SubSeq(listed, 1, at - 1), {e})
    BY <1>5
  <2> QED
    BY <2>1, <2>2, <2>3
<1>8. blanks' > 0 => adapter' = "TEAMS"
  BY <1>1 DEF CountInv
<1>9. Count(docs, Entry)' = Count(docs', Entry) /\ Count(errs, Entry)' = Count(errs', Entry)
  BY DEF Count, Entry
<1>10. \A e \in Entry :
         /\ Count(docs, {e})' = Count(docs', {e}) /\ Count(errs, {e})' = Count(errs', {e})
         /\ Count(SubSeq(listed, 1, at - 1), {e})' = Count(SubSeq(listed', 1, at' - 1), {e})
  BY DEF Count
<1> QED
  BY <1>6, <1>7, <1>8, <1>9, <1>10 DEF CountInv

\* An entry that is handled is told once, or counted.
LEMMA HandlesCount ==
  ASSUME TypeOK, PhaseInv, CountInv, Handles
  PROVE  CountInv'
<1> DEFINE T == Entry \cup Channels \cup {"listing"}
           x == listed[at]
           before == SubSeq(listed, 1, at - 1)
<1>1. PICK what \in Fates : Becomes(what) /\ (what = "dropped" => adapter = "TEAMS")
  BY DEF Handles
<1>2. /\ docs' = IF what = "document" THEN Append(docs, x) ELSE docs
      /\ errs' = IF what = "error" THEN Append(errs, x) ELSE errs
      /\ skips' = IF what = "skipped" THEN skips + 1 ELSE skips
      /\ blanks' = IF what = "dropped" THEN blanks + 1 ELSE blanks
      /\ at' = at + 1 /\ listed' = listed /\ adapter' = adapter /\ at <= Len(listed)
  BY <1>1 DEF Becomes, Handles, Handling, listing, source
<1>3. listed \in Seq(Entry) /\ Len(listed) \in Nat /\ at \in 1 .. Len(listed) /\ x \in Entry
  <2>1. listed \in Seq(Entry) /\ at \in 1 .. Len(listed) + 1
    BY TypeParts DEF ListOK
  <2>2. Len(listed) \in Nat
    BY <2>1
  <2>3. at \in 1 .. Len(listed)
    BY <1>2, <2>1, <2>2
  <2>4. x \in Entry
    BY <2>1, <2>3
  <2> QED
    BY <2>1, <2>2, <2>3, <2>4
<1>4. docs \in Seq(T) /\ errs \in Seq(T) /\ x \in T /\ skips \in Nat /\ blanks \in Nat
  <2>1. docs \in Seq(Entry \cup Channels)
    BY TypeParts DEF AnswerOK
  <2>2. docs \in Seq(T)
    BY <2>1
  <2>3. errs \in Seq(T) /\ skips \in Nat /\ blanks \in Nat
    BY TypeParts DEF AnswerOK
  <2> QED
    BY <1>3, <2>2, <2>3
<1>5. before \in Seq(Entry) /\ SubSeq(listed, 1, at' - 1) = Append(before, x)
  <2>1. before \in Seq(Entry) /\ at' - 1 = at
    BY <1>2, <1>3
  <2>2. SubSeq(listed, 1, at) = before \o <<x>>
    BY <1>3, SubSeqRecursiveSecond, 1 \in 1 .. Len(listed)
  <2> HIDE DEF x, before
  <2> QED
    BY <1>3, <2>1, <2>2, AppendIsConcat
<1> HIDE DEF T, x, before
<1>6. ASSUME NEW P
      PROVE  /\ Count(docs, P) \in Nat /\ Count(errs, P) \in Nat /\ Count(before, P) \in Nat
             /\ Count(docs', P) = Count(docs, P) + (IF what = "document" /\ x \in P THEN 1 ELSE 0)
             /\ Count(errs', P) = Count(errs, P) + (IF what = "error" /\ x \in P THEN 1 ELSE 0)
             /\ Count(SubSeq(listed', 1, at' - 1), P) = Count(before, P) + (IF x \in P THEN 1 ELSE 0)
  <2>1. /\ Count(docs, P) \in Nat /\ Count(Append(docs, x), P) = Count(docs, P) + (IF x \in P THEN 1 ELSE 0)
    BY <1>4, CountAppend
  <2>2. /\ Count(errs, P) \in Nat /\ Count(Append(errs, x), P) = Count(errs, P) + (IF x \in P THEN 1 ELSE 0)
    BY <1>4, CountAppend
  <2>3. /\ Count(before, P) \in Nat
        /\ Count(Append(before, x), P) = Count(before, P) + (IF x \in P THEN 1 ELSE 0)
    BY <1>3, <1>5, CountAppend
  <2>4. SubSeq(listed', 1, at' - 1) = Append(before, x)
    BY <1>2, <1>5
  <2>5. Count(docs', P) = Count(docs, P) + (IF what = "document" /\ x \in P THEN 1 ELSE 0)
    BY <1>2, <2>1
  <2>6. Count(errs', P) = Count(errs, P) + (IF what = "error" /\ x \in P THEN 1 ELSE 0)
    BY <1>2, <2>2
  <2> QED
    BY <2>1, <2>2, <2>3, <2>4, <2>5, <2>6
<1>7. ASSUME NEW e \in Entry
      PROVE  Count(docs', {e}) + Count(errs', {e}) <= Count(SubSeq(listed', 1, at' - 1), {e})
  <2>1. Count(docs, {e}) + Count(errs, {e}) <= Count(before, {e})
    BY DEF CountInv, before
  <2>2. ~(what = "document" /\ what = "error")
    OBVIOUS
  <2> QED
    BY <1>6, <2>1, <2>2
<1>8. Count(docs', Entry) + Count(errs', Entry) + skips' + blanks' = at' - 1
  <2>1. Count(docs, Entry) + Count(errs, Entry) + skips + blanks = at - 1
    BY DEF CountInv
  <2>2. at \in Nat
    BY <1>3
  <2>3. /\ Count(docs, Entry) \in Nat /\ Count(errs, Entry) \in Nat
        /\ Count(docs', Entry) = Count(docs, Entry) + (IF what = "document" THEN 1 ELSE 0)
        /\ Count(errs', Entry) = Count(errs, Entry) + (IF what = "error" THEN 1 ELSE 0)
    BY <1>3, <1>6
  <2>4. what \in {"document", "error", "skipped", "dropped"}
    BY DEF Fates
  <2>5. at' - 1 = at /\ skips \in Nat /\ blanks \in Nat
    BY <1>2, <1>4, <2>2
  <2>6. \A a, b, c, d \in Nat : a + b + c + d = at - 1 =>
          /\ (a + 1) + b + c + d = at /\ a + (b + 1) + c + d = at
          /\ a + b + (c + 1) + d = at /\ a + b + c + (d + 1) = at
    BY <2>2
  <2>7. \/ /\ Count(docs', Entry) = Count(docs, Entry) + 1 /\ Count(errs', Entry) = Count(errs, Entry)
           /\ skips' = skips /\ blanks' = blanks
        \/ /\ Count(docs', Entry) = Count(docs, Entry) /\ Count(errs', Entry) = Count(errs, Entry) + 1
           /\ skips' = skips /\ blanks' = blanks
        \/ /\ Count(docs', Entry) = Count(docs, Entry) /\ Count(errs', Entry) = Count(errs, Entry)
           /\ \/ skips' = skips + 1 /\ blanks' = blanks
              \/ skips' = skips /\ blanks' = blanks + 1
    <3>1. \A a \in Nat : a + 0 = a
      OBVIOUS
    <3> QED
      BY <1>2, <2>3, <2>4, <3>1
  <2> QED
    BY <2>1, <2>3, <2>5, <2>6, <2>7
<1>9. blanks' > 0 => adapter' = "TEAMS"
  BY <1>1, <1>2, <1>4 DEF CountInv
<1>10. Count(docs, Entry)' = Count(docs', Entry) /\ Count(errs, Entry)' = Count(errs', Entry)
  BY DEF Count, Entry
<1>11. \A e \in Entry :
         /\ Count(docs, {e})' = Count(docs', {e}) /\ Count(errs, {e})' = Count(errs', {e})
         /\ Count(SubSeq(listed, 1, at - 1), {e})' = Count(SubSeq(listed', 1, at' - 1), {e})
  BY DEF Count
<1> QED
  BY <1>7, <1>8, <1>9, <1>10, <1>11 DEF CountInv

\* A channel is no entry, and the other steps tell nothing.
LEMMA OtherCount ==
  ASSUME TypeOK, PhaseInv, CountInv,
         SlackChannel \/ TakesToken \/ Return \/ Change \/ Tick \/ UNCHANGED vars
  PROVE  CountInv'
<1> DEFINE T == Entry \cup Channels \cup {"listing"}
<1>1. /\ at' = at /\ listed' = listed /\ skips' = skips /\ blanks' = blanks /\ adapter' = adapter
  BY DEF SlackChannel, TakesToken, MicrosoftToken, DropboxToken, Holds, Return, Change, Tick, vars,
         source, listing, answer
<1>2. /\ docs' = docs \/ \E c \in Channels : docs' = Append(docs, c)
      /\ errs' = errs \/ \E c \in Channels : errs' = Append(errs, c)
  <2>1. CASE SlackChannel
    <3>1. chatter \subseteq Channels
      BY TypeParts DEF SourceOK
    <3>2. \E c \in chatter : (docs' = Append(docs, c) /\ errs' = errs) \/ (errs' = Append(errs, c) /\ docs' = docs)
      BY <2>1 DEF SlackChannel
    <3> QED
      BY <3>1, <3>2
  <2>2. CASE TakesToken \/ Return \/ Change \/ Tick \/ UNCHANGED vars
    BY <2>2 DEF TakesToken, MicrosoftToken, DropboxToken, Holds, Return, Change, Tick, vars, answer
  <2> QED
    BY <2>1, <2>2
<1>3. docs \in Seq(T) /\ errs \in Seq(T) /\ \A c \in Channels : c \in T /\ c \in Channels \cup {"listing"}
  <2>1. docs \in Seq(Entry \cup Channels)
    BY TypeParts DEF AnswerOK
  <2>2. docs \in Seq(T)
    BY <2>1
  <2>3. errs \in Seq(T)
    BY TypeParts DEF AnswerOK
  <2> QED
    BY <2>2, <2>3
<1> HIDE DEF T
<1>4. /\ Count(docs', Entry) = Count(docs, Entry)
      /\ \A e \in Entry : Count(docs', {e}) = Count(docs, {e})
  <2>1. ASSUME NEW c \in Channels
        PROVE  /\ Count(Append(docs, c), Entry) = Count(docs, Entry)
               /\ \A e \in Entry : Count(Append(docs, c), {e}) = Count(docs, {e})
    BY <1>3, Uncounted
  <2>2. CASE docs' = docs
    BY <2>2
  <2>3. ASSUME NEW c \in Channels, docs' = Append(docs, c)
        PROVE  /\ Count(docs', Entry) = Count(docs, Entry)
               /\ \A e \in Entry : Count(docs', {e}) = Count(docs, {e})
    BY <2>1, <2>3
  <2> QED
    BY <1>2, <2>2, <2>3
<1>5. /\ Count(errs', Entry) = Count(errs, Entry)
      /\ \A e \in Entry : Count(errs', {e}) = Count(errs, {e})
  <2>1. ASSUME NEW c \in Channels
        PROVE  /\ Count(Append(errs, c), Entry) = Count(errs, Entry)
               /\ \A e \in Entry : Count(Append(errs, c), {e}) = Count(errs, {e})
    BY <1>3, Uncounted
  <2>2. CASE errs' = errs
    BY <2>2
  <2>3. ASSUME NEW c \in Channels, errs' = Append(errs, c)
        PROVE  /\ Count(errs', Entry) = Count(errs, Entry)
               /\ \A e \in Entry : Count(errs', {e}) = Count(errs, {e})
    BY <2>1, <2>3
  <2> QED
    BY <1>2, <2>2, <2>3
<1>6. Count(docs', Entry) + Count(errs', Entry) + skips' + blanks' = at' - 1
  BY <1>1, <1>4, <1>5 DEF CountInv
<1>7. \A e \in Entry : Count(docs', {e}) + Count(errs', {e}) <= Count(SubSeq(listed', 1, at' - 1), {e})
  BY <1>1, <1>4, <1>5 DEF CountInv
<1>8. blanks' > 0 => adapter' = "TEAMS"
  BY <1>1 DEF CountInv
<1>9. Count(docs, Entry)' = Count(docs', Entry) /\ Count(errs, Entry)' = Count(errs', Entry)
  BY DEF Count, Entry
<1>10. \A e \in Entry :
         /\ Count(docs, {e})' = Count(docs', {e}) /\ Count(errs, {e})' = Count(errs', {e})
         /\ Count(SubSeq(listed, 1, at - 1), {e})' = Count(SubSeq(listed', 1, at' - 1), {e})
  BY DEF Count
<1> QED
  BY <1>6, <1>7, <1>8, <1>9, <1>10 DEF CountInv

----------------------------------------------------------------------------
(* the invariant *)

\* The service's first listing is a sequence of its entries.
LEMMA FirstListing ==
  SetToSeq(Entries) \in Seq(Entry)
<1>1. IsFiniteSet(Entries)
  BY ServiceAssumption
<1>2. Cardinality(Entries) \in Nat /\ ExistsBijection(1 .. Cardinality(Entries), Entries)
  BY <1>1, FS_CardinalityType
<1>3. \E f \in [1 .. Cardinality(Entries) -> Entries] : IsInjective(f)
  BY <1>2 DEF ExistsBijection, Bijection, Injection
<1>4. SetToSeq(Entries) \in [1 .. Cardinality(Entries) -> Entries]
  BY <1>3 DEF SetToSeq
<1> QED
  BY <1>2, <1>4 DEF Entry

\* A limit is between one and the adapter's maximum.
LEMMA LimitInRange ==
  ASSUME NEW n \in ConfiguredLimits
  PROVE  LimitOf(n) \in 1 .. Cap
BY ServiceAssumption DEF LimitOf, Least, Most

\* A sync begins with an answer that tells nothing.
LEMMA Starts ==
  Init => AdapterInv
<1> SUFFICES ASSUME Init PROVE AdapterInv
  OBVIOUS
<1>1. /\ adapter \in Types /\ limit \in {LimitOf(n) : n \in ConfiguredLimits} /\ page \in PageSizes
      /\ folders \in (IF adapter \in WithFolders THEN SUBSET Entries ELSE {{}})
      /\ own \in (IF adapter = "DROPBOX" THEN 0 .. MaxClock ELSE {0})
      /\ chatter \in (IF adapter = "SLACK" THEN SUBSET Channels ELSE {{}})
      /\ remote = SetToSeq(Entries)
      /\ pc = IF chatter # {} THEN "channels" ELSE "first"
      /\ got = <<>> /\ rest = <<>> /\ listed = <<>> /\ at = 1 /\ snap = <<>>
  BY DEF Init
<1>2. /\ docs = <<>> /\ errs = <<>> /\ skips = 0 /\ outcome = "none" /\ blanks = 0
      /\ token = 0 /\ held = 0 /\ waited = 0 /\ stale = FALSE
      /\ now = 0 /\ faults = 0 /\ changes = 0 /\ moved = FALSE /\ failed = FALSE
  BY DEF Init
<1>3. limit \in 1 .. Cap
  BY <1>1, LimitInRange
<1>4. pc \in {"first", "channels"} /\ folders \subseteq Entries /\ chatter \subseteq Channels
  BY <1>1
<1>5. Len(listed) = 0
  BY <1>1
<1>6. SourceOK
  <2>1. 0 \in 0 .. MaxClock
    <3>1. MaxClock \in Nat
      BY BoundsAssumption
    <3> QED
      BY <3>1
  <2>2. own \in 0 .. MaxClock
    BY <1>1, <2>1
  <2> QED
    BY <1>1, <1>3, <1>4, <2>2 DEF SourceOK
<1>7. ListOK
  <2>1. remote \in Seq(Entry)
    BY <1>1, FirstListing
  <2>2. <<>> \in Seq(Entry)
    OBVIOUS
  <2>3. at \in 1 .. Len(listed) + 1
    BY <1>1, <1>5
  <2>4. pc \in Listing \cup {"channels", "items", "end"}
    BY <1>4 DEF Listing
  <2> QED
    BY <1>1, <2>1, <2>2, <2>3, <2>4 DEF ListOK
<1>8. AnswerOK
  <2>1. docs \in Seq(Entry \cup Channels) /\ errs \in Seq(Entry \cup Channels \cup {"listing"})
    BY <1>2
  <2>2. 0 \in 0 .. Len(listed)
    BY <1>5
  <2> QED
    BY <1>2, <2>1, <2>2 DEF AnswerOK
<1>9. TokensOK /\ ClockOK
  <2>1. /\ 0 \in 0 .. MaxClock + Life /\ 0 \in 0 .. Skew /\ 0 \in 0 .. MaxFaults /\ 0 \in 0 .. MaxClock
        /\ 0 \in 0 .. MaxChanges
    <3>1. MaxClock \in Nat /\ MaxFaults \in Nat /\ MaxChanges \in Nat /\ Life \in Nat /\ Skew \in Nat
      BY BoundsAssumption, TokenAssumption
    <3> QED
      BY <3>1
  <2> QED
    BY <1>2, <2>1 DEF TokensOK, ClockOK
<1>10. TypeOK
  BY <1>6, <1>7, <1>8, <1>9, TypeParts
<1>11. PhaseInv
  <2>1. adapter \notin WithFolders => folders = {}
    BY <1>1
  <2>2. pc # "end"
    BY <1>4
  <2>3. skips + blanks < at
    BY <1>1, <1>2
  <2> QED
    BY <1>1, <1>2, <2>1, <2>2, <2>3 DEF PhaseInv
<1>12. ScopeInv
  <2>1. Len(got) < limit
    BY <1>1, <1>3
  <2>2. pc # "more" /\ pc \notin {"items", "end"}
    BY <1>4
  <2> QED
    BY <2>1, <2>2 DEF ScopeInv
<1>13. CountInv
  <2>1. \A P : Count(<<>>, P) = 0
    <3>1. \A P : {k \in DOMAIN <<>> : <<>>[k] \in P} = {}
      OBVIOUS
    <3> QED
      BY <3>1, FS_EmptySet DEF Count
  <2>2. SubSeq(listed, 1, at - 1) = <<>>
    <3>1. at - 1 = 0 /\ SubSeq(listed, 1, 0) = <<>>
      BY <1>1, SubSeqEmpty
    <3> QED
      BY <3>1
  <2>3. \A e \in Entry : Count(docs, {e}) + Count(errs, {e}) <= Count(SubSeq(listed, 1, at - 1), {e})
    <3>1. ASSUME NEW e \in Entry
          PROVE  /\ Count(docs, {e}) = 0 /\ Count(errs, {e}) = 0
                 /\ Count(SubSeq(listed, 1, at - 1), {e}) = 0
      BY <1>2, <2>1, <2>2, Zenon
    <3> QED
      BY <3>1
  <2>4. Count(docs, Entry) + Count(errs, Entry) + skips + blanks = at - 1
    BY <1>1, <1>2, <2>1
  <2> QED
    BY <1>2, <2>3, <2>4 DEF CountInv
<1>14. TokenInv
  <2>1. own # 0 => adapter = "DROPBOX"
    BY <1>1
  <2> QED
    BY <1>2, <2>1 DEF TokenInv
<1> QED
  BY <1>10, <1>11, <1>12, <1>13, <1>14 DEF AdapterInv

\* Every step of the sync, of the service and of the clock keeps the invariant.
LEMMA Goes ==
  AdapterInv /\ [Next]_vars => AdapterInv'
<1> SUFFICES ASSUME AdapterInv, [Next]_vars PROVE AdapterInv'
  OBVIOUS
<1>1. TypeOK /\ PhaseInv /\ ScopeInv /\ CountInv /\ TokenInv
  BY DEF AdapterInv
<1>2. \/ Lists \/ Breaks \/ Handles
      \/ SlackChannel \/ TakesToken \/ Return \/ Change \/ Tick \/ UNCHANGED vars
  BY <1>1, StepKinds
<1>3. CASE Lists
  <2>1. now' = now /\ own' = own /\ adapter' = adapter /\ errs' = errs /\ Asks
    BY <1>3 DEF Lists, source, answer
  <2>2. TypeOK' /\ TokenInv'
    BY <1>1, <1>3, <2>1, ListsTypes, RequestsTokens
  <2>3. PhaseInv' /\ ScopeInv'
    BY <1>1, <1>3, ListsScope
  <2>4. CountInv'
    BY <1>1, <1>3, ListingCount
  <2> QED
    BY <2>2, <2>3, <2>4 DEF AdapterInv
<1>4. CASE Breaks
  <2>1. /\ now' = now /\ own' = own /\ adapter' = adapter
        /\ errs # <<>> => errs' # <<>>
        /\ Rejected /\ (errs' # <<>> \/ adapter \notin Expiring)
    BY <1>1, <1>4, BreaksErrors
  <2>2. TypeOK' /\ TokenInv'
    BY <1>1, <1>4, <2>1, BreaksTypes, RequestsTokens
  <2>3. PhaseInv' /\ ScopeInv'
    BY <1>1, <1>4, BreaksScope
  <2>4. CountInv'
    BY <1>1, <1>4, ListingCount
  <2> QED
    BY <2>2, <2>3, <2>4 DEF AdapterInv
<1>5. CASE Handles
  <2>1. /\ now' = now /\ own' = own /\ adapter' = adapter
        /\ errs # <<>> => errs' # <<>>
        /\ Asks \/ (Rejected /\ errs' # <<>>) \/ UNCHANGED <<tokens, faults>>
    BY <1>1, <1>5, HandlesErrors
  <2>2. TypeOK' /\ TokenInv'
    BY <1>1, <1>5, <2>1, HandlesTypes, RequestsTokens
  <2>3. PhaseInv' /\ ScopeInv'
    BY <1>1, <1>5, HandlesScope
  <2>4. CountInv'
    BY <1>1, <1>5, HandlesCount
  <2> QED
    BY <2>2, <2>3, <2>4 DEF AdapterInv
<1>6. CASE SlackChannel \/ TakesToken \/ Return \/ Change \/ Tick \/ UNCHANGED vars
  <2>1. TypeOK' /\ TokenInv'
    BY <1>1, <1>6, OtherTypes, OtherTokens
  <2>2. PhaseInv' /\ ScopeInv'
    BY <1>1, <1>6, OtherScope
  <2>3. CountInv'
    BY <1>1, <1>6, OtherCount
  <2> QED
    BY <2>1, <2>2, <2>3 DEF AdapterInv
<1> QED
  BY <1>2, <1>3, <1>4, <1>5, <1>6

----------------------------------------------------------------------------
(* theorems *)

\* Every reachable state of a sync has its types.
THEOREM AdapterTypes == Spec => []TypeOK
<1>1. AdapterInv => TypeOK
  BY DEF AdapterInv
<1> QED
  BY Starts, Goes, <1>1, PTL DEF Spec

\* However long a sync takes and whatever else happens, no request of it arrives with an
\* expired token that the adapter got itself, since both getAccessToken look ahead by the
\* skew; the token a Dropbox connector was given may arrive expired, and then the answer
\* has an error (microsoft-graph-auth.ts:53, dropbox.adapter.ts:57, 71).
THEOREM TokensLast == Spec => []TokensAreFresh
<1>1. AdapterInv => TokensAreFresh
  BY DEF AdapterInv, TokenInv, TokensAreFresh
<1> QED
  BY Starts, Goes, <1>1, PTL DEF Spec

\* For every service, page size and limit, the loops of all thirteen adapters list the
\* first files of what the service had, leaving out what is past their reach, unless the
\* two that page by offset met a change between two pages.
THEOREM PrefixesListed == Spec => []ListsAPrefix
<1>1. AdapterInv => ListsAPrefix
  <2>1. ASSUME Covers(listed, snap, folders, Reach)
        PROVE  /\ IsPrefix(listed, Files(snap))
               /\ \A k \in DOMAIN snap : snap[k] \in folders \cup ToSet(listed) \/ k > Reach
    BY <2>1 DEF Covers, Files
  <2> QED
    BY <2>1 DEF AdapterInv, ScopeInv, ListsAPrefix
<1> QED
  BY Starts, Goes, <1>1, PTL DEF Spec

\* An answer is only returned once every entry was handled.
LEMMA AllHandled ==
  ASSUME AdapterInv, outcome = "documents"
  PROVE  at = Len(listed) + 1 /\ SubSeq(listed, 1, at - 1) = listed /\ Len(listed) \in Nat
<1>1. at > Len(listed) /\ TypeOK
  BY DEF AdapterInv, PhaseInv
<1>2. listed \in Seq(Entry) /\ at \in 1 .. Len(listed) + 1
  BY <1>1, TypeParts DEF ListOK
<1>3. Len(listed) \in Nat
  BY <1>2
<1>4. at = Len(listed) + 1 /\ at - 1 = Len(listed)
  BY <1>1, <1>2, <1>3
<1>5. SubSeq(listed, 1, Len(listed)) = listed
  BY <1>2, SubSeqFull
<1> QED
  BY <1>3, <1>4, <1>5

\* What an answer tells of entries, counted in documents and errors together.
LEMMA ToldTogether ==
  ASSUME TypeOK
  PROVE  LET both == docs \o errs
             told == {e \in ToSet(both) : e \notin Channels \cup {"listing"}}
         IN  /\ told \subseteq Entry
             /\ Cardinality({k \in DOMAIN both : both[k] \in told})
                  = Count(docs, Entry) + Count(errs, Entry)
<1> DEFINE T == Entry \cup Channels \cup {"listing"}
           both == docs \o errs
           told == {e \in ToSet(both) : e \notin Channels \cup {"listing"}}
<1>1. docs \in Seq(T) /\ errs \in Seq(T)
  <2>1. docs \in Seq(Entry \cup Channels)
    BY TypeParts DEF AnswerOK
  <2>2. docs \in Seq(T)
    BY <2>1
  <2>3. errs \in Seq(T)
    BY TypeParts DEF AnswerOK
  <2> QED
    BY <2>2, <2>3
<1>2. both \in Seq(T)
  <2> HIDE DEF T
  <2> QED
    BY <1>1
<1>3. \A k \in DOMAIN both : both[k] \in T
  <2> HIDE DEF T, both
  <2> QED
    BY <1>2
<1>4. told \subseteq Entry
  <2>1. ToSet(both) \subseteq T
    <3> HIDE DEF T, both
    <3> QED
      BY <1>3 DEF ToSet
  <2> HIDE DEF both
  <2> QED
    BY <2>1
<1>5. {k \in DOMAIN both : both[k] \in told} = {k \in DOMAIN both : both[k] \in Entry}
  <2>1. \A k \in DOMAIN both : both[k] \in ToSet(both)
    <3> HIDE DEF both
    <3> QED
      BY DEF ToSet
  <2>2. \A e \in Entry : e \notin Channels \cup {"listing"}
    BY NamesAssumption DEF Entry
  <2> HIDE DEF both
  <2> QED
    BY <1>4, <2>1, <2>2
<1>6. Count(both, Entry) = Count(docs, Entry) + Count(errs, Entry)
  <2> HIDE DEF T
  <2> QED
    BY <1>1, CountConcat
<1>7. Count(both, Entry) = Cardinality({k \in DOMAIN both : both[k] \in told})
  <2> HIDE DEF both, told
  <2> QED
    BY <1>5 DEF Count
<1> QED
  BY <1>4, <1>6, <1>7

\* Every entry a sync kept is a document, an error or counted as skipped, each once and
\* no more often than it was listed; only Teams drops entries uncounted.
THEOREM AllAccounted == Spec => []Accounted
<1>1. ASSUME AdapterInv PROVE Accounted
  <2> SUFFICES ASSUME outcome = "documents"
               PROVE  Accounted
    BY DEF Accounted
  <2> DEFINE Times(s, e) == Cardinality({k \in DOMAIN s : s[k] = e})
             told == {e \in ToSet(docs \o errs) : e \notin Channels \cup {"listing"}}
  <2>1. at = Len(listed) + 1 /\ SubSeq(listed, 1, at - 1) = listed /\ Len(listed) \in Nat
    BY <1>1, AllHandled
  <2>2. TypeOK /\ CountInv
    BY <1>1 DEF AdapterInv
  <2>3. /\ told \subseteq Entry
        /\ Cardinality({k \in DOMAIN (docs \o errs) : (docs \o errs)[k] \in told})
             = Count(docs, Entry) + Count(errs, Entry)
    BY <2>2, ToldTogether
  <2>4. \A s, e : Times(s, e) = Count(s, {e})
    <3>1. \A s, e : {k \in DOMAIN s : s[k] = e} = {k \in DOMAIN s : s[k] \in {e}}
      OBVIOUS
    <3> QED
      BY <3>1 DEF Count
  <2>5. \A e \in Entry : Count(docs, {e}) + Count(errs, {e}) <= Count(listed, {e})
    BY <2>1, <2>2 DEF CountInv
  <2>6. Count(docs, Entry) + Count(errs, Entry) + skips + blanks = Len(listed)
    <3>1. Count(docs, Entry) + Count(errs, Entry) + skips + blanks = at - 1
      BY <2>2 DEF CountInv
    <3> QED
      BY <2>1, <3>1
  <2>7. blanks > 0 => adapter = "TEAMS"
    BY <2>2 DEF CountInv
  <2> HIDE DEF Times, told
  <2>8. \A e \in told : Times(docs, e) + Times(errs, e) <= Times(listed, e)
    BY <2>3, <2>4, <2>5
  <2>9. Cardinality({k \in DOMAIN (docs \o errs) : (docs \o errs)[k] \in told}) + skips + blanks
          = Len(listed)
    BY <2>3, <2>6
  <2> QED
    BY <2>7, <2>8, <2>9 DEF Accounted, Times, told
<1> QED
  BY Starts, Goes, <1>1, PTL DEF Spec

\* An answer without documents and errors is never one of a listing that failed: the
\* service had no file within the adapter's reach, or every file was passed over.
THEOREM EmptyExplained == Spec => []EmptyAnswerExplained
<1>1. ASSUME AdapterInv PROVE EmptyAnswerExplained
  <2> SUFFICES ASSUME outcome \in {"documents", "bare"}, docs = <<>>, errs = <<>>
               PROVE  /\ ~failed /\ skips + blanks = Len(listed)
                      /\ listed = <<>> => moved \/ \A k \in DOMAIN snap : snap[k] \in folders \/ k > Reach
    BY DEF EmptyAnswerExplained
  <2>1. PhaseInv /\ ScopeInv /\ CountInv /\ TypeOK
    BY <1>1 DEF AdapterInv
  <2>2. ~failed
    BY <2>1 DEF PhaseInv
  <2>3. outcome = "documents" /\ pc = "end"
    BY <2>1, <2>2 DEF PhaseInv
  <2>4. at = Len(listed) + 1 /\ Len(listed) \in Nat
    BY <1>1, <2>3, AllHandled
  <2>5. Count(docs, Entry) = 0 /\ Count(errs, Entry) = 0
    <3>1. {k \in DOMAIN <<>> : <<>>[k] \in Entry} = {}
      OBVIOUS
    <3> QED
      BY <3>1, FS_EmptySet DEF Count
  <2>6. skips \in Nat /\ blanks \in Nat
    BY <2>1, <2>4, TypeParts DEF AnswerOK
  <2>7. Count(docs, Entry) + Count(errs, Entry) + skips + blanks = at - 1
    BY <2>1 DEF CountInv
  <2>8. skips + blanks = Len(listed)
    BY <2>4, <2>5, <2>6, <2>7
  <2>9. ASSUME listed = <<>>, ~moved
        PROVE  \A k \in DOMAIN snap : snap[k] \in folders \/ k > Reach
    <3>1. Covers(listed, snap, folders, Reach)
      BY <2>1, <2>2, <2>3, <2>9 DEF ScopeInv
    <3>2. ToSet(listed) = {}
      BY <2>9 DEF ToSet
    <3> QED
      BY <3>1, <3>2 DEF Covers
  <2> QED
    BY <2>2, <2>8, <2>9
<1> QED
  BY Starts, Goes, <1>1, PTL DEF Spec

----------------------------------------------------------------------------
(* the loop of chunkDocument: what it keeps *)

\* The text of a line, without the white space around it; and a text whole in a piece.
Text(t, i) == Trim(t[i])
Ink(t, i) == Text(t, i) # <<>>
In(c, t, i) ==
  \E k \in 1 .. Len(c) - Len(Text(t, i)) + 1 :
    SubSeq(c, k, k + Len(Text(t, i)) - 1) = Text(t, i)

\* A content as the model makes them: a line has its own character and Blank.
IsText(t) ==
  /\ t \in Seq(Seq(Nat))
  /\ \A i \in 1 .. Len(t) :
       /\ Len(t[i]) \in 1 .. MaxWidth
       /\ \A m \in 1 .. Len(t[i]) : t[i][m] \in {Blank, i}

\* The first n lines are in the pieces, in order, and repeat what the overlap allows.
Ordered(t, P, n) ==
  \A i, j \in 1 .. n : i <= j /\ Ink(t, i) /\ Ink(t, j) =>
    \E k, l \in 1 .. Len(P) : k <= l /\ In(P[k], t, i) /\ In(P[l], t, j)
Repeats(t, P, n) ==
  \A i \in 1 .. n, k \in 1 .. Len(P) :
    Ink(t, i) /\ k < Len(P) /\ In(P[k], t, i) => Count(P[k + 1], {i}) <= Overlap

\* No piece has a character of a later line, nor is one too long.
Sized(P, n) ==
  \A k \in 1 .. Len(P) :
    /\ \A m \in 1 .. Len(P[k]) : P[k][m] <= n
    /\ Len(P[k]) <= ChunkSize + 1 \/ Len(P[k]) <= Overlap + 1 + MaxWidth

\* The chunks so far, with the one that is being made.
Pieces == IF chunkPc = "lines" THEN Append(chunks, current) ELSE chunks
Read == Len(wholeText) - Len(lines)

CutTypes ==
  /\ IsText(wholeText) /\ lines \in Seq(Seq(Nat)) /\ Len(lines) <= Len(wholeText)
  /\ \A m \in 1 .. Len(lines) : lines[m] = wholeText[Read + m]
  /\ current \in Seq(Nat) /\ chunks \in Seq(Seq(Nat)) /\ chunkPc \in {"lines", "stored"}
  /\ chunkPc = "stored" => lines = <<>> /\ chunks # <<>>

\* A chunk of a content without lines of white space has text.
InkInv ==
  (\A i \in 1 .. Len(wholeText) : Ink(wholeText, i)) /\ wholeText # <<>> =>
    /\ Read > 0 => current # <<>>
    /\ current # <<>> => \E m \in 1 .. Len(current) : current[m] # Blank
    /\ \A k \in 1 .. Len(chunks) : chunks[k] # <<>>

CutInv ==
  /\ CutTypes /\ InkInv
  /\ Ordered(wholeText, Pieces, Read) /\ Repeats(wholeText, Pieces, Read) /\ Sized(Pieces, Read)

\* A nonempty set of positions has a first and a last one.
LEMMA Extremes ==
  ASSUME NEW n \in Nat, NEW S, S \subseteq 1 .. n, S # {}
  PROVE  Min(S) \in S /\ Max(S) \in S /\ \A x \in S : Min(S) <= x /\ x <= Max(S)
<1>0. IsFiniteSet(1 .. n)
  BY FS_Interval
<1>1. IsFiniteSet(S) /\ S \subseteq Nat \ {0}
  <2>1. \A x \in S : x \in Nat \ {0}
    OBVIOUS
  <2> QED
    BY <1>0, <2>1, FS_Subset
<1>2. Cardinality(S) \in Nat /\ Cardinality(S) # 0
  BY <1>1, FS_CardinalityType, FS_EmptySet
<1>3. /\ \A k \in S : UpTo(S, k) \in 1 .. Cardinality(S)
      /\ \A j, k \in S : j < k => UpTo(S, j) < UpTo(S, k)
      /\ \A m \in 1 .. Cardinality(S) : \E k \in S : UpTo(S, k) = m
  BY <1>1, UpToCounts
<1>4. PICK a \in S : UpTo(S, a) = 1
  BY <1>2, <1>3
<1>5. PICK b \in S : UpTo(S, b) = Cardinality(S)
  BY <1>2, <1>3
<1>6. ASSUME NEW x \in S
      PROVE  a <= x /\ x <= b
  <2>1. UpTo(S, x) >= 1 /\ UpTo(S, x) <= Cardinality(S) /\ UpTo(S, x) \in Int
    BY <1>2, <1>3
  <2>2. ~(x < a)
    BY <1>2, <1>3, <1>4, <2>1
  <2>3. ~(b < x)
    BY <1>2, <1>3, <1>5, <2>1
  <2>4. a \in Int /\ b \in Int /\ x \in Int
    BY <1>1
  <2> QED
    BY <2>2, <2>3, <2>4
<1>7. Min(S) \in S /\ \A x \in S : Min(S) <= x
  BY <1>6 DEF Min
<1>8. Max(S) \in S /\ \A x \in S : x <= Max(S)
  <2>1. \A x \in S : x \in Int
    BY <1>1
  <2>2. \A x \in S : b >= x
    BY <1>6, <2>1
  <2>3. Max(S) \in S /\ \A x \in S : Max(S) >= x
    BY <2>2 DEF Max
  <2> QED
    BY <2>1, <2>3
<1> QED
  BY <1>7, <1>8

\* The larger and the smaller of two numbers.
LEMMA OfTwo ==
  ASSUME NEW a \in Int, NEW b \in Int
  PROVE  /\ Max({a, b}) = IF a >= b THEN a ELSE b
         /\ Min({a, b}) = IF a <= b THEN a ELSE b
<1>1. \E x \in {a, b} : \A y \in {a, b} : x >= y
  <2>1. CASE a >= b
    BY <2>1
  <2>2. CASE ~(a >= b)
    BY <2>2
  <2> QED
    BY <2>1, <2>2
<1>2. \E x \in {a, b} : \A y \in {a, b} : x <= y
  <2>1. CASE a <= b
    BY <2>1
  <2>2. CASE ~(a <= b)
    BY <2>2
  <2> QED
    BY <2>1, <2>2
<1>3. Max({a, b}) \in {a, b} /\ \A y \in {a, b} : Max({a, b}) >= y
  BY <1>1 DEF Max
<1>4. Min({a, b}) \in {a, b} /\ \A y \in {a, b} : Min({a, b}) <= y
  BY <1>2 DEF Min
<1> QED
  BY <1>3, <1>4

\* t is what s has from its d-th character on.
Part(t, s, d) ==
  /\ t \in Seq(Nat) /\ d \in Nat /\ Len(t) + d <= Len(s)
  /\ \A k \in 1 .. Len(t) : t[k] = s[k + d]

\* A part counts no more of anything, for its length at most.
LEMMA PartCounts ==
  ASSUME NEW s \in Seq(Nat), NEW t, NEW d, Part(t, s, d), NEW Q
  PROVE  /\ Count(t, Q) \in Nat /\ Count(s, Q) \in Nat
         /\ Count(t, Q) <= Count(s, Q) /\ Count(t, Q) <= Len(t)
<1> DEFINE A == {k \in DOMAIN t : t[k] \in Q}
           B == {k \in DOMAIN s : s[k] \in Q}
           f == [k \in A |-> k + d]
<1>1. /\ t \in Seq(Nat) /\ d \in Nat /\ Len(t) \in Nat /\ Len(s) \in Nat /\ Len(t) + d <= Len(s)
      /\ A \subseteq 1 .. Len(t) /\ B \subseteq 1 .. Len(s)
      /\ DOMAIN t = 1 .. Len(t) /\ DOMAIN s = 1 .. Len(s)
  BY DEF Part
<1>2. IsFiniteSet(1 .. Len(t)) /\ IsFiniteSet(1 .. Len(s)) /\ Cardinality(1 .. Len(t)) = Len(t)
  <2>1. \A n \in Nat : IsFiniteSet(1 .. n) /\ Cardinality(1 .. n) = n
    BY FS_Interval
  <2> HIDE DEF A, B
  <2> QED
    BY <1>1, <2>1
<1>3. ASSUME NEW k \in A
      PROVE  k + d \in B
  <2>1. k \in 1 .. Len(t) /\ k + d \in 1 .. Len(s) /\ t[k] = s[k + d] /\ t[k] \in Q
    BY <1>1 DEF Part
  <2> QED
    BY <1>1, <2>1
<1>4. \A j, k \in A : j + d = k + d => j = k
  BY <1>1
<1> HIDE DEF A, B
<1>5. IsFiniteSet(A) /\ IsFiniteSet(B) /\ Cardinality(A) <= Len(t)
  <2>1. IsFiniteSet(A) /\ Cardinality(A) <= Cardinality(1 .. Len(t))
    BY <1>1, <1>2, FS_Subset
  <2>2. IsFiniteSet(B)
    BY <1>1, <1>2, FS_Subset
  <2> QED
    BY <1>2, <2>1, <2>2
<1>6. f \in Injection(A, B)
  BY <1>3, <1>4 DEF Injection, IsInjective
<1> HIDE DEF f
<1>7. Cardinality(A) <= Cardinality(B)
  BY <1>5, <1>6, FS_Injection
<1>8. Cardinality(A) \in Nat /\ Cardinality(B) \in Nat
  BY <1>5, FS_CardinalityType
<1> QED
  BY <1>5, <1>7, <1>8 DEF Count, A, B

\* slice(a) to slice(b): characters a to b of a string are a part of it.
LEMMA SliceIsPart ==
  ASSUME NEW s \in Seq(Nat), NEW a \in 1 .. Len(s) + 1, NEW b \in a - 1 .. Len(s)
  PROVE  Part(SubSeq(s, a, b), s, a - 1) /\ Len(SubSeq(s, a, b)) = b - a + 1
<1>1. Len(s) \in Nat /\ a \in Nat /\ b \in Nat /\ a - 1 \in Nat /\ a \in Int /\ b \in Int
  OBVIOUS
<1>2. \A i \in a .. b : s[i] \in Nat
  BY <1>1
<1>3. /\ SubSeq(s, a, b) \in Seq(Nat)
      /\ Len(SubSeq(s, a, b)) = IF a <= b THEN b - a + 1 ELSE 0
      /\ \A i \in 1 .. b - a + 1 : SubSeq(s, a, b)[i] = s[a + i - 1]
  BY <1>1, <1>2, SubSeqProperties
<1>4. Len(SubSeq(s, a, b)) = b - a + 1
  BY <1>1, <1>3
<1>5. ASSUME NEW k \in 1 .. Len(SubSeq(s, a, b))
      PROVE  SubSeq(s, a, b)[k] = s[k + (a - 1)]
  <2>1. k \in 1 .. b - a + 1 /\ a + k - 1 = k + (a - 1)
    BY <1>1, <1>4
  <2> QED
    BY <1>3, <2>1
<1>6. (b - a + 1) + (a - 1) <= Len(s)
  BY <1>1
<1> QED
  BY <1>1, <1>3, <1>4, <1>5, <1>6 DEF Part

\* trim takes the white space from the ends and nothing else.
LEMMA TrimKeeps ==
  ASSUME NEW s \in Seq(Nat)
  PROVE  \E d \in Nat : /\ Part(Trim(s), s, d)
                        /\ \A k \in 1 .. Len(s) : s[k] # Blank => k - d \in 1 .. Len(Trim(s))
                        /\ Trim(s) # <<>> => Trim(s)[1] # Blank /\ Trim(s)[Len(Trim(s))] # Blank
<1> DEFINE inked == {i \in DOMAIN s : s[i] # Blank}
<1>1. Len(s) \in Nat /\ DOMAIN s = 1 .. Len(s) /\ inked \subseteq 1 .. Len(s)
  OBVIOUS
<1>2. CASE inked = {}
  <2>1. Trim(s) = <<>>
    BY <1>2 DEF Trim
  <2>2. Part(<<>>, s, 0)
    <3>1. Len(<<>>) = 0 /\ <<>> \in Seq(Nat)
      OBVIOUS
    <3> QED
      BY <1>1, <3>1 DEF Part
  <2>3. \A k \in 1 .. Len(s) : s[k] = Blank
    BY <1>1, <1>2
  <2> QED
    BY <2>1, <2>2, <2>3
<1>3. CASE inked # {}
  <2> DEFINE a == Min(inked)
             b == Max(inked)
  <2>1. a \in inked /\ b \in inked /\ \A x \in inked : a <= x /\ x <= b
    <3> HIDE DEF inked
    <3> QED
      BY <1>1, <1>3, Extremes
  <2>2. a \in 1 .. Len(s) /\ b \in a .. Len(s)
    BY <1>1, <2>1
  <2>3. Trim(s) = SubSeq(s, a, b)
    BY <1>3 DEF Trim
  <2>4. \A k \in 1 .. Len(s) : s[k] # Blank => a <= k /\ k <= b
    BY <1>1, <2>1
  <2> HIDE DEF inked, a, b
  <2>5. Part(SubSeq(s, a, b), s, a - 1) /\ Len(SubSeq(s, a, b)) = b - a + 1
    <3>1. a \in 1 .. Len(s) + 1 /\ b \in a - 1 .. Len(s)
      BY <1>1, <2>2
    <3> QED
      BY <3>1, SliceIsPart
  <2>6. ASSUME NEW k \in 1 .. Len(s), s[k] # Blank
        PROVE  k - (a - 1) \in 1 .. Len(Trim(s))
    <3>1. a <= k /\ k <= b
      BY <2>4, <2>6
    <3> QED
      BY <1>1, <2>2, <2>3, <2>5, <3>1
  <2>7. a - 1 \in Nat
    BY <1>1, <2>2
  <2>8. s[a] # Blank /\ s[b] # Blank
    BY <2>1 DEF inked
  <2>9. Trim(s)[1] # Blank /\ Trim(s)[Len(Trim(s))] # Blank
    <3>1. /\ 1 \in 1 .. b - a + 1 /\ b - a + 1 \in 1 .. b - a + 1
          /\ 1 + (a - 1) = a /\ (b - a + 1) + (a - 1) = b
      BY <1>1, <2>2
    <3>2. \A k \in 1 .. b - a + 1 : Trim(s)[k] = s[k + (a - 1)]
      BY <2>3, <2>5 DEF Part
    <3> QED
      BY <2>3, <2>5, <2>8, <3>1, <3>2
  <2> QED
    BY <2>3, <2>5, <2>6, <2>7, <2>9
<1> QED
  BY <1>2, <1>3

\* The same of a text that is known to be what is left of a line.
LEMMA TrimmedText ==
  ASSUME NEW s \in Seq(Nat), NEW w, w = Trim(s)
  PROVE  \E d \in Nat : /\ Part(w, s, d)
                        /\ w # <<>> => w[1] # Blank /\ w[Len(w)] # Blank
<1>1. PICK d \in Nat :
        /\ Part(Trim(s), s, d)
        /\ \A k \in 1 .. Len(s) : s[k] # Blank => k - d \in 1 .. Len(Trim(s))
        /\ Trim(s) # <<>> => Trim(s)[1] # Blank /\ Trim(s)[Len(Trim(s))] # Blank
  BY TrimKeeps
<1>2. Part(w, s, d)
  BY <1>1
<1>3. w # <<>> => w[1] # Blank /\ w[Len(w)] # Blank
  BY <1>1
<1> QED
  BY <1>2, <1>3

\* A string within a string.
Run(c, w) == \E k \in 1 .. Len(c) - Len(w) + 1 : \A m \in 1 .. Len(w) : c[k + m - 1] = w[m]

\* What a line is, and its text.
LEMMA InkLine ==
  ASSUME NEW t, IsText(t), NEW i \in 1 .. Len(t)
  PROVE  /\ t[i] \in Seq(Nat) /\ Len(t[i]) \in 1 .. MaxWidth /\ Len(t[i]) \in Nat /\ i \in Nat \ {0}
         /\ \A m \in 1 .. Len(t[i]) : t[i][m] \in {Blank, i}
         /\ Text(t, i) \in Seq(Nat)
         /\ Ink(t, i) =>
              /\ Len(Text(t, i)) \in Nat \ {0} /\ Text(t, i)[1] = i /\ Text(t, i)[1] # Blank
              /\ Text(t, i)[Len(Text(t, i))] # Blank
              /\ Run(t[i], Text(t, i))
<1>1. t \in Seq(Seq(Nat)) /\ Len(t) \in Nat
  BY DEF IsText
<1>2. t[i] \in Seq(Nat) /\ i \in Nat \ {0}
  BY <1>1
<1>3. Len(t[i]) \in 1 .. MaxWidth /\ \A m \in 1 .. Len(t[i]) : t[i][m] \in {Blank, i}
  BY DEF IsText
<1>4. Len(t[i]) \in Nat
  BY <1>3
<1> DEFINE l == t[i]
           w == Text(t, i)
<1>5. PICK d \in Nat : /\ Part(w, l, d)
                       /\ w # <<>> => w[1] # Blank /\ w[Len(w)] # Blank
  <2>1. w = Trim(l) /\ l \in Seq(Nat)
    BY <1>2 DEF Text
  <2> HIDE DEF l, w
  <2> QED
    BY <2>1, TrimmedText
<1> HIDE DEF l, w
<1>6. /\ w \in Seq(Nat) /\ Len(w) \in Nat /\ Len(w) + d <= Len(l)
      /\ \A m \in 1 .. Len(w) : w[m] = l[m + d]
  BY <1>5 DEF Part
<1>7. ASSUME w # <<>>
      PROVE  Len(w) \in Nat \ {0} /\ w[1] = i /\ Run(l, w)
  <2>1. Len(w) \in Nat \ {0}
    BY <1>6, <1>7, EmptySeq
  <2>2. Len(l) \in Nat /\ \A m \in 1 .. Len(l) : l[m] \in {Blank, i}
    BY <1>3, <1>4 DEF l
  <2>3. 1 \in 1 .. Len(w) /\ 1 + d \in 1 .. Len(l)
    BY <1>6, <2>1, <2>2
  <2>4. w[1] \in {Blank, i}
    BY <1>6, <2>2, <2>3
  <2>5. d + 1 \in 1 .. Len(l) - Len(w) + 1
    BY <1>6, <2>1, <2>2
  <2>6. \A m \in 1 .. Len(w) : l[(d + 1) + m - 1] = w[m]
    <3>1. \A m \in 1 .. Len(w) : (d + 1) + m - 1 = m + d
      BY <1>6
    <3> QED
      BY <1>6, <3>1
  <2> QED
    BY <1>5, <1>7, <2>1, <2>4, <2>5, <2>6 DEF Run
<1>8. Ink(t, i) <=> w # <<>>
  BY DEF Ink, w
<1> QED
  BY <1>2, <1>3, <1>4, <1>5, <1>6, <1>7, <1>8 DEF l, w

\* A text is whole in a piece where it runs in it.
LEMMA InIsRun ==
  ASSUME NEW t, IsText(t), NEW i \in 1 .. Len(t), Ink(t, i), NEW c \in Seq(Nat)
  PROVE  In(c, t, i) <=> Run(c, Text(t, i))
<1> DEFINE w == Text(t, i)
           n == Len(w)
<1>1. w \in Seq(Nat) /\ n \in Nat \ {0}
  BY InkLine
<1>2. Len(c) \in Nat
  OBVIOUS
<1> HIDE DEF n, w
<1>3. ASSUME NEW k \in 1 .. Len(c) - n + 1
      PROVE  SubSeq(c, k, k + n - 1) = w <=> \A m \in 1 .. n : c[k + m - 1] = w[m]
  <2> DEFINE u == SubSeq(c, k, k + n - 1)
  <2>1. k \in 1 .. Len(c) + 1 /\ k + n - 1 \in k - 1 .. Len(c) /\ (k + n - 1) - k + 1 = n /\ k - 1 \in Nat
    BY <1>1, <1>2
  <2>2. Part(u, c, k - 1) /\ Len(u) = n
    BY <2>1, SliceIsPart
  <2>3. u \in Seq(Nat) /\ \A m \in 1 .. n : u[m] = c[k + m - 1]
    <3>1. \A m \in 1 .. n : m + (k - 1) = k + m - 1
      BY <1>1, <2>1
    <3> QED
      BY <2>2, <3>1 DEF Part
  <2> HIDE DEF u
  <2>4. u = w => \A m \in 1 .. n : c[k + m - 1] = w[m]
    BY <2>3
  <2>5. ASSUME \A m \in 1 .. n : c[k + m - 1] = w[m]
        PROVE  u = w
    <3>1. \A m \in 1 .. n : u[m] = w[m]
      BY <2>3, <2>5
    <3>2. Len(u) = Len(w) /\ n = Len(w)
      BY <2>2 DEF n
    <3> QED
      BY <1>1, <2>3, <3>1, <3>2, SeqEqual
  <2> QED
    BY <2>4, <2>5 DEF u
<1>4. In(c, t, i) <=> \E k \in 1 .. Len(c) - n + 1 : SubSeq(c, k, k + n - 1) = w
  BY DEF In, w, n
<1>5. Run(c, w) <=> \E k \in 1 .. Len(c) - n + 1 : \A m \in 1 .. n : c[k + m - 1] = w[m]
  BY DEF Run, n
<1> QED
  BY <1>3, <1>4, <1>5 DEF w

\* A string whose ends are not Blank survives trim.
LEMMA RunTrim ==
  ASSUME NEW s \in Seq(Nat), NEW t, NEW d, Part(t, s, d),
         \A k \in 1 .. Len(s) : s[k] # Blank => k - d \in 1 .. Len(t),
         NEW w, Len(w) \in Nat \ {0}, w[1] # Blank, w[Len(w)] # Blank, Run(s, w)
  PROVE  Run(t, w)
<1> DEFINE n == Len(w)
<1>1. PICK k \in 1 .. Len(s) - n + 1 : \A m \in 1 .. n : s[k + m - 1] = w[m]
  BY DEF Run
<1>2. Len(s) \in Nat /\ Len(t) \in Nat /\ d \in Nat /\ \A m \in 1 .. Len(t) : t[m] = s[m + d]
  BY DEF Part
<1>3. n \in Nat \ {0} /\ w[1] # Blank /\ w[n] # Blank
  OBVIOUS
<1> HIDE DEF n
<1>4. k \in 1 .. Len(s) /\ k + n - 1 \in 1 .. Len(s) /\ s[k] # Blank /\ s[k + n - 1] # Blank
  <2>1. 1 \in 1 .. n /\ n \in 1 .. n /\ k + 1 - 1 = k
    BY <1>2, <1>3
  <2>2. s[k + 1 - 1] = w[1] /\ s[k + n - 1] = w[n]
    BY <1>1, <2>1
  <2>3. k \in 1 .. Len(s) /\ k + n - 1 \in 1 .. Len(s)
    BY <1>2, <1>3
  <2> QED
    BY <1>3, <2>1, <2>2, <2>3
<1>5. k - d \in 1 .. Len(t) /\ (k + n - 1) - d \in 1 .. Len(t)
  BY <1>4
<1>6. k - d \in 1 .. Len(t) - n + 1
  BY <1>2, <1>3, <1>4, <1>5
<1>7. ASSUME NEW m \in 1 .. n
      PROVE  t[(k - d) + m - 1] = w[m]
  <2>1. (k - d) + m - 1 \in 1 .. Len(t) /\ ((k - d) + m - 1) + d = k + m - 1
    BY <1>2, <1>3, <1>4, <1>6
  <2> QED
    BY <1>1, <1>2, <2>1
<1> QED
  BY <1>6, <1>7 DEF Run, n

\* A string stays when something is written before or behind it.
LEMMA RunConcat ==
  ASSUME NEW s \in Seq(Nat), NEW t \in Seq(Nat), NEW w, Len(w) \in Nat \ {0}
  PROVE  /\ Run(s, w) => Run(s \o t, w)
         /\ Run(t, w) => Run(s \o t, w)
<1> DEFINE u == s \o t
           n == Len(w)
<1>1. /\ s \o t \in Seq(Nat) /\ Len(s \o t) = Len(s) + Len(t) /\ Len(s) \in Nat /\ Len(t) \in Nat
      /\ \A k \in 1 .. Len(s) + Len(t) : (s \o t)[k] = IF k <= Len(s) THEN s[k] ELSE t[k - Len(s)]
  BY ConcatProperties
<1>2. n \in Nat \ {0}
  OBVIOUS
<1> HIDE DEF u, n
<1>3. /\ Len(u) = Len(s) + Len(t)
      /\ \A k \in 1 .. Len(s) + Len(t) : u[k] = IF k <= Len(s) THEN s[k] ELSE t[k - Len(s)]
  BY <1>1 DEF u
<1>4. ASSUME Run(s, w)
      PROVE  Run(u, w)
  <2>1. PICK k \in 1 .. Len(s) - n + 1 : \A m \in 1 .. n : s[k + m - 1] = w[m]
    BY <1>4 DEF Run, n
  <2>2. k \in 1 .. Len(u) - n + 1
    BY <1>1, <1>2, <1>3
  <2>3. ASSUME NEW m \in 1 .. n
        PROVE  u[k + m - 1] = w[m]
    <3>1. k + m - 1 \in 1 .. Len(s) + Len(t) /\ k + m - 1 <= Len(s)
      BY <1>1, <1>2
    <3> QED
      BY <1>3, <2>1, <3>1
  <2> QED
    BY <2>2, <2>3 DEF Run, n
<1>5. ASSUME Run(t, w)
      PROVE  Run(u, w)
  <2>1. PICK k \in 1 .. Len(t) - n + 1 : \A m \in 1 .. n : t[k + m - 1] = w[m]
    BY <1>5 DEF Run, n
  <2>2. k + Len(s) \in 1 .. Len(u) - n + 1
    BY <1>1, <1>2, <1>3
  <2>3. ASSUME NEW m \in 1 .. n
        PROVE  u[(k + Len(s)) + m - 1] = w[m]
    <3>1. /\ (k + Len(s)) + m - 1 \in 1 .. Len(s) + Len(t) /\ ~((k + Len(s)) + m - 1 <= Len(s))
          /\ ((k + Len(s)) + m - 1) - Len(s) = k + m - 1
      BY <1>1, <1>2
    <3> QED
      BY <1>3, <2>1, <3>1
  <2> QED
    BY <2>2, <2>3 DEF Run, n
<1> QED
  BY <1>4, <1>5 DEF u

\* What runs in a string begins in it.
LEMMA RunOccurs ==
  ASSUME NEW s \in Seq(Nat), NEW w, Len(w) \in Nat \ {0}, Run(s, w)
  PROVE  \E m \in 1 .. Len(s) : s[m] = w[1]
<1>1. PICK k \in 1 .. Len(s) - Len(w) + 1 : \A m \in 1 .. Len(w) : s[k + m - 1] = w[m]
  BY DEF Run
<1>2. Len(s) \in Nat
  OBVIOUS
<1>3. k \in 1 .. Len(s) /\ 1 \in 1 .. Len(w) /\ k + 1 - 1 = k
  BY <1>2
<1>4. s[k + 1 - 1] = w[1]
  BY <1>1, <1>3
<1> QED
  BY <1>3, <1>4

\* What does not occur is not counted.
LEMMA CountsNone ==
  ASSUME NEW s \in Seq(Nat), NEW i, \A m \in 1 .. Len(s) : s[m] # i
  PROVE  Count(s, {i}) = 0
<1>1. {k \in DOMAIN s : s[k] \in {i}} = {}
  OBVIOUS
<1> QED
  BY <1>1, FS_EmptySet DEF Count

\* What a line added to a chunk makes of it.
LEMMA CarryKeeps ==
  ASSUME NEW c \in Seq(Nat), NEW line \in Seq(Nat), line # <<>>
  PROVE  /\ Carry(c, line) \in Seq(Nat) /\ Carry(c, line) # <<>>
         /\ Len(Carry(c, line)) = IF c = <<>> THEN Len(line) ELSE Len(c) + 1 + Len(line)
         /\ \A m \in 1 .. Len(Carry(c, line)) :
              \/ Carry(c, line)[m] = Blank
              \/ \E k \in 1 .. Len(c) : Carry(c, line)[m] = c[k]
              \/ \E k \in 1 .. Len(line) : Carry(c, line)[m] = line[k]
         /\ \A k \in 1 .. Len(line) : \E m \in 1 .. Len(Carry(c, line)) : Carry(c, line)[m] = line[k]
         /\ \A w : Len(w) \in Nat \ {0} /\ (Run(c, w) \/ Run(line, w)) => Run(Carry(c, line), w)
         /\ \A i : i # Blank /\ (\A k \in 1 .. Len(line) : line[k] # i)
              => Count(Carry(c, line), {i}) = Count(c, {i})
<1>0. Len(c) \in Nat /\ Len(line) \in Nat /\ Len(line) # 0
  BY EmptySeq
<1>1. CASE c = <<>>
  <2>1. Carry(c, line) = line /\ Len(c) = 0
    BY <1>1 DEF Carry
  <2>2. ASSUME NEW w, Len(w) \in Nat \ {0}, Run(c, w)
        PROVE  FALSE
    <3>1. \E m \in 1 .. Len(c) : c[m] = w[1]
      BY <2>2, RunOccurs
    <3> QED
      BY <2>1, <3>1
  <2>3. ASSUME NEW i, \A k \in 1 .. Len(line) : line[k] # i
        PROVE  Count(line, {i}) = Count(c, {i})
    <3>1. Count(line, {i}) = 0
      BY <2>3, CountsNone
    <3>2. \A m \in 1 .. Len(c) : c[m] # i
      BY <2>1
    <3>3. Count(c, {i}) = 0
      BY <3>2, CountsNone
    <3> QED
      BY <3>1, <3>3
  <2> QED
    BY <1>0, <1>1, <2>1, <2>2, <2>3
<1>2. CASE c # <<>>
  <2> DEFINE b == <<Blank>>
             e == c \o b
             x == e \o line
  <2>1. Carry(c, line) = x
    BY <1>2 DEF Carry
  <2>2. b \in Seq(Nat) /\ Len(b) = 1 /\ b[1] = Blank
    BY DEF Blank
  <2> HIDE DEF b
  <2>3. /\ e \in Seq(Nat) /\ Len(e) = Len(c) + 1
        /\ \A m \in 1 .. Len(c) + 1 : e[m] = IF m <= Len(c) THEN c[m] ELSE b[m - Len(c)]
    <3>1. /\ c \o b \in Seq(Nat) /\ Len(c \o b) = Len(c) + Len(b)
          /\ \A m \in 1 .. Len(c) + Len(b) : (c \o b)[m] = IF m <= Len(c) THEN c[m] ELSE b[m - Len(c)]
      BY <2>2, ConcatProperties
    <3> QED
      BY <2>2, <3>1
  <2> HIDE DEF e
  <2>4. /\ x \in Seq(Nat) /\ Len(x) = Len(e) + Len(line)
        /\ \A m \in 1 .. Len(e) + Len(line) : x[m] = IF m <= Len(e) THEN e[m] ELSE line[m - Len(e)]
    <3>1. e \in Seq(Nat)
      BY <2>3, Zenon
    <3> QED
      BY <3>1, ConcatProperties, Zenon
  <2>5. ASSUME NEW w, Len(w) \in Nat \ {0}, Run(c, w) \/ Run(line, w)
        PROVE  Run(x, w)
    <3>1. Run(c, w) => Run(e, w)
      BY <2>2, <2>5, RunConcat DEF e
    <3>2. Run(e, w) \/ Run(line, w) => Run(x, w)
      BY <2>3, <2>5, RunConcat
    <3> QED
      BY <2>5, <3>1, <3>2
  <2>6. ASSUME NEW i, i # Blank, \A k \in 1 .. Len(line) : line[k] # i
        PROVE  Count(x, {i}) = Count(c, {i})
    <3>1. Count(x, {i}) = Count(e, {i}) + Count(line, {i})
      BY <2>3, CountConcat
    <3>2. Count(e, {i}) = Count(c, {i}) + Count(b, {i})
      BY <2>2, CountConcat DEF e
    <3>3. Count(line, {i}) = 0
      BY <2>6, CountsNone
    <3>4. Count(b, {i}) = 0
      <4>1. \A m \in 1 .. Len(b) : b[m] # i
        BY <2>2, <2>6
      <4> QED
        BY <2>2, <4>1, CountsNone
    <3>5. Count(c, {i}) \in Nat
      <4>1. Part(c, c, 0)
        BY <1>0 DEF Part
      <4> QED
        BY <4>1, PartCounts
    <3> QED
      BY <3>1, <3>2, <3>3, <3>4, <3>5
  <2> HIDE DEF x
  <2>7. x # <<>> /\ Len(x) = Len(c) + 1 + Len(line)
    <3>1. Len(x) = Len(c) + 1 + Len(line)
      BY <2>3, <2>4
    <3>2. Len(x) # 0
      BY <1>0, <3>1
    <3> QED
      BY <3>1, <3>2
  <2>8. ASSUME NEW m \in 1 .. Len(x)
        PROVE  \/ x[m] = Blank
               \/ \E k \in 1 .. Len(c) : x[m] = c[k]
               \/ \E k \in 1 .. Len(line) : x[m] = line[k]
    <3>1. CASE m <= Len(c)
      <4>0. Len(e) = Len(c) + 1 /\ Len(x) = Len(e) + Len(line)
        BY <2>3, <2>4, Zenon
      <4>1. m \in 1 .. Len(c) /\ m \in 1 .. Len(c) + 1 /\ m \in 1 .. Len(e) + Len(line) /\ m <= Len(e)
        BY <1>0, <3>1, <4>0
      <4>2. x[m] = e[m]
        BY <2>4, <4>1, Zenon
      <4>3. e[m] = c[m]
        BY <2>3, <3>1, <4>1, Zenon
      <4> QED
        BY <4>1, <4>2, <4>3, Zenon
    <3>2. CASE m = Len(c) + 1
      <4>0. Len(e) = Len(c) + 1 /\ Len(x) = Len(e) + Len(line)
        BY <2>3, <2>4, Zenon
      <4>1. /\ m - Len(c) = 1 /\ m \in 1 .. Len(c) + 1 /\ m \in 1 .. Len(e) + Len(line)
            /\ m <= Len(e) /\ ~(m <= Len(c))
        BY <1>0, <3>2, <4>0
      <4>2. x[m] = e[m]
        BY <2>4, <4>1, Zenon
      <4>3. e[m] = b[m - Len(c)]
        BY <2>3, <4>1, Zenon
      <4> QED
        BY <2>2, <4>1, <4>2, <4>3
    <3>3. CASE m > Len(c) + 1
      <4>0. Len(e) = Len(c) + 1 /\ Len(x) = Len(e) + Len(line)
        BY <2>3, <2>4, Zenon
      <4>1. m - Len(e) \in 1 .. Len(line) /\ m \in 1 .. Len(e) + Len(line) /\ ~(m <= Len(e))
        BY <1>0, <3>3, <4>0
      <4>2. x[m] = line[m - Len(e)]
        BY <2>4, <4>1, Zenon
      <4> QED
        BY <4>1, <4>2
    <3>4. m \in Int /\ Len(c) \in Int
      <4>1. Len(x) = Len(c) + 1 + Len(line)
        BY <2>7, Zenon
      <4> QED
        BY <1>0, <4>1
    <3>5. m <= Len(c) \/ m = Len(c) + 1 \/ m > Len(c) + 1
      BY <3>4
    <3> QED
      BY <3>1, <3>2, <3>3, <3>5, Zenon
  <2>9. ASSUME NEW k \in 1 .. Len(line)
        PROVE  \E m \in 1 .. Len(x) : x[m] = line[k]
    <3>1. k + Len(e) \in 1 .. Len(e) + Len(line) /\ ~(k + Len(e) <= Len(e)) /\ (k + Len(e)) - Len(e) = k
      BY <1>0, <2>3
    <3> QED
      BY <2>4, <3>1
  <2> QED
    BY <1>2, <2>1, <2>4, <2>5, <2>6, <2>7, <2>8, <2>9
<1> QED
  BY <1>1, <1>2

\* slice(-overlap) is a part of the chunk, of that length at most.
LEMMA LastOnesPart ==
  ASSUME NEW s \in Seq(Nat)
  PROVE  /\ \E d \in Nat : Part(LastOnes(s, Overlap), s, d)
         /\ Len(LastOnes(s, Overlap)) \in Nat /\ Len(LastOnes(s, Overlap)) <= Overlap
<1> DEFINE a == Max({1, Len(s) - Overlap + 1})
<1>1. Len(s) \in Nat /\ Overlap \in Nat /\ Overlap >= 1
  BY ChunkAssumption
<1>2. a = IF 1 >= Len(s) - Overlap + 1 THEN 1 ELSE Len(s) - Overlap + 1
  BY <1>1, OfTwo
<1> HIDE DEF a
<1>3. a \in 1 .. Len(s) + 1 /\ Len(s) \in a - 1 .. Len(s) /\ Len(s) - a + 1 <= Overlap
      /\ a - 1 \in Nat /\ Len(s) - a + 1 \in Nat
  BY <1>1, <1>2
<1>4. Part(SubSeq(s, a, Len(s)), s, a - 1) /\ Len(SubSeq(s, a, Len(s))) = Len(s) - a + 1
  BY <1>3, SliceIsPart
<1>5. LastOnes(s, Overlap) = SubSeq(s, a, Len(s))
  BY DEF LastOnes, a
<1> QED
  BY <1>3, <1>4, <1>5

\* slice(0, chunkSize) is a part of the content, of that length at most.
LEMMA FirstOnesPart ==
  ASSUME NEW s \in Seq(Nat)
  PROVE  /\ Part(FirstOnes(s, ChunkSize), s, 0)
         /\ Len(FirstOnes(s, ChunkSize)) <= ChunkSize
<1> DEFINE b == Min({ChunkSize, Len(s)})
<1>1. Len(s) \in Nat /\ ChunkSize \in Nat
  BY ChunkAssumption
<1>2. b = IF ChunkSize <= Len(s) THEN ChunkSize ELSE Len(s)
  <2>1. ChunkSize \in Int /\ Len(s) \in Int
    BY <1>1
  <2> QED
    BY <2>1, OfTwo
<1> HIDE DEF b
<1>3. 1 \in 1 .. Len(s) + 1 /\ b \in 1 - 1 .. Len(s) /\ b - 1 + 1 <= ChunkSize /\ 1 - 1 = 0
  BY <1>1, <1>2
<1>4. Part(SubSeq(s, 1, b), s, 1 - 1) /\ Len(SubSeq(s, 1, b)) = b - 1 + 1
  BY <1>3, SliceIsPart
<1>5. FirstOnes(s, ChunkSize) = SubSeq(s, 1, b)
  BY DEF FirstOnes, b
<1> QED
  BY <1>3, <1>4, <1>5

\* A piece that is finished, or begun again with an overlap, loses nothing of what was read.
LEMMA PiecesKeep ==
  ASSUME NEW t, NEW n \in Nat, NEW L \in Nat, NEW P, NEW Q, Len(P) = L + 1, Len(Q) \in {L + 1, L + 2},
         \A k \in 1 .. L : Q[k] = P[k],
         \A i \in 1 .. n : Ink(t, i) /\ In(P[L + 1], t, i) => In(Q[L + 1], t, i),
         \A i \in 1 .. n : Ink(t, i) /\ Count(P[L + 1], {i}) <= Overlap => Count(Q[L + 1], {i}) <= Overlap,
         Len(Q) = L + 2 => \A i \in 1 .. n : Ink(t, i) => Count(Q[L + 2], {i}) <= Overlap,
         Ordered(t, P, n), Repeats(t, P, n)
  PROVE  Ordered(t, Q, n) /\ Repeats(t, Q, n)
<1>1. ASSUME NEW i \in 1 .. n, NEW k \in 1 .. Len(P), Ink(t, i), In(P[k], t, i)
      PROVE  k \in 1 .. Len(Q) /\ In(Q[k], t, i)
  <2>1. CASE k \in 1 .. L
    BY <1>1, <2>1
  <2>2. CASE k = L + 1
    BY <1>1, <2>2
  <2> QED
    BY <2>1, <2>2
<1>2. Ordered(t, Q, n)
  <2> SUFFICES ASSUME NEW i \in 1 .. n, NEW j \in 1 .. n, i <= j, Ink(t, i), Ink(t, j)
               PROVE  \E k, l \in 1 .. Len(Q) : k <= l /\ In(Q[k], t, i) /\ In(Q[l], t, j)
    BY DEF Ordered
  <2>1. PICK k \in 1 .. Len(P), l \in 1 .. Len(P) : k <= l /\ In(P[k], t, i) /\ In(P[l], t, j)
    BY DEF Ordered
  <2>2. k \in 1 .. Len(Q) /\ In(Q[k], t, i)
    BY <1>1, <2>1
  <2>3. l \in 1 .. Len(Q) /\ In(Q[l], t, j)
    BY <1>1, <2>1
  <2> QED
    BY <2>1, <2>2, <2>3
<1>3. Repeats(t, Q, n)
  <2> SUFFICES ASSUME NEW i \in 1 .. n, NEW k \in 1 .. Len(Q), Ink(t, i), k < Len(Q), In(Q[k], t, i)
               PROVE  Count(Q[k + 1], {i}) <= Overlap
    BY DEF Repeats
  <2>1. CASE k < L
    <3>1. k \in 1 .. Len(P) /\ k < Len(P) /\ k \in 1 .. L /\ k + 1 \in 1 .. L
      BY <2>1
    <3>2. Q[k] = P[k] /\ Q[k + 1] = P[k + 1]
      BY <3>1
    <3>3. Count(P[k + 1], {i}) <= Overlap
      BY <3>1, <3>2 DEF Repeats
    <3> QED
      BY <3>2, <3>3
  <2>2. CASE k = L
    <3>1. k \in 1 .. Len(P) /\ k < Len(P) /\ k \in 1 .. L /\ k + 1 = L + 1
      BY <2>2
    <3>2. Q[k] = P[k]
      BY <3>1
    <3>3. Count(P[k + 1], {i}) <= Overlap
      BY <3>1, <3>2 DEF Repeats
    <3>4. Count(P[L + 1], {i}) <= Overlap
      BY <3>1, <3>3
    <3>5. Count(Q[L + 1], {i}) <= Overlap
      BY <3>4
    <3> QED
      BY <3>1, <3>5
  <2>3. CASE k > L
    <3>1. k + 1 = L + 2 /\ Len(Q) = L + 2
      BY <2>3
    <3>2. Count(Q[L + 2], {i}) <= Overlap
      BY <3>1
    <3> QED
      BY <3>1, <3>2
  <2> QED
    BY <2>1, <2>2, <2>3
<1> QED
  BY <1>2, <1>3

\* The line that was read is in the last piece and in none before.
LEMMA NextLine ==
  ASSUME NEW t, IsText(t), NEW n \in Nat, n + 1 <= Len(t), NEW Q \in Seq(Seq(Nat)), Len(Q) >= 1,
         Ordered(t, Q, n), Repeats(t, Q, n), Ink(t, n + 1) => In(Q[Len(Q)], t, n + 1),
         \A k \in 1 .. Len(Q) : k < Len(Q) => \A m \in 1 .. Len(Q[k]) : Q[k][m] <= n
  PROVE  Ordered(t, Q, n + 1) /\ Repeats(t, Q, n + 1)
<1>1. Len(Q) \in Nat /\ Len(Q) \in 1 .. Len(Q) /\ n + 1 \in 1 .. Len(t)
  BY DEF IsText
<1>2. Ordered(t, Q, n + 1)
  <2> SUFFICES ASSUME NEW i \in 1 .. n + 1, NEW j \in 1 .. n + 1, i <= j, Ink(t, i), Ink(t, j)
               PROVE  \E k, l \in 1 .. Len(Q) : k <= l /\ In(Q[k], t, i) /\ In(Q[l], t, j)
    BY DEF Ordered
  <2>1. CASE j \in 1 .. n
    <3>1. i \in 1 .. n
      BY <2>1
    <3> QED
      BY <2>1, <3>1 DEF Ordered
  <2>2. CASE j = n + 1 /\ i \in 1 .. n
    <3>1. PICK k \in 1 .. Len(Q), l \in 1 .. Len(Q) : k <= l /\ In(Q[k], t, i) /\ In(Q[l], t, i)
      BY <2>2 DEF Ordered
    <3>2. In(Q[Len(Q)], t, j) /\ k <= Len(Q)
      BY <1>1, <2>2
    <3> QED
      BY <1>1, <3>1, <3>2
  <2>3. CASE j = n + 1 /\ i = n + 1
    <3>1. In(Q[Len(Q)], t, j) /\ In(Q[Len(Q)], t, i)
      BY <2>3
    <3>2. Len(Q) \in 1 .. Len(Q) /\ Len(Q) <= Len(Q)
      BY <1>1
    <3> QED
      BY <3>1, <3>2, Zenon
  <2> QED
    BY <2>1, <2>2, <2>3
<1>3. Repeats(t, Q, n + 1)
  <2> SUFFICES ASSUME NEW i \in 1 .. n + 1, NEW k \in 1 .. Len(Q), Ink(t, i), k < Len(Q), In(Q[k], t, i)
               PROVE  Count(Q[k + 1], {i}) <= Overlap
    BY DEF Repeats
  <2>1. CASE i \in 1 .. n
    BY <2>1 DEF Repeats
  <2>2. CASE i = n + 1
    <3>1. Q[k] \in Seq(Nat) /\ i \in 1 .. Len(t)
      BY <1>1, <2>2
    <3>2. Len(Text(t, i)) \in Nat \ {0} /\ Text(t, i)[1] = i
      BY <3>1, InkLine
    <3>3. Run(Q[k], Text(t, i))
      BY <3>1, InIsRun
    <3>4. \E m \in 1 .. Len(Q[k]) : Q[k][m] = i
      BY <3>1, <3>2, <3>3, RunOccurs
    <3>5. \A m \in 1 .. Len(Q[k]) : Q[k][m] <= n
      OBVIOUS
    <3> QED
      BY <2>2, <3>4, <3>5
  <2> QED
    BY <2>1, <2>2
<1> QED
  BY <1>2, <1>3

\* What a run of the loop takes for granted of the piece in the making: its lines are in
\* what replaces it, and it repeats no more than before.
LEMMA TrimmedPiece ==
  ASSUME NEW t, IsText(t), NEW c \in Seq(Nat)
  PROVE  /\ Trim(c) \in Seq(Nat) /\ Len(Trim(c)) <= Len(c) /\ Len(Trim(c)) \in Nat
         /\ \A m \in 1 .. Len(Trim(c)) : \E k \in 1 .. Len(c) : Trim(c)[m] = c[k]
         /\ (\E k \in 1 .. Len(c) : c[k] # Blank) => Trim(c) # <<>>
         /\ \A i \in 1 .. Len(t) :
              /\ Ink(t, i) /\ In(c, t, i) => In(Trim(c), t, i) /\ \E k \in 1 .. Len(c) : c[k] # Blank
              /\ Ink(t, i) /\ Count(c, {i}) <= Overlap => Count(Trim(c), {i}) <= Overlap
<1>1. PICK d \in Nat : /\ Part(Trim(c), c, d)
                       /\ \A k \in 1 .. Len(c) : c[k] # Blank => k - d \in 1 .. Len(Trim(c))
  BY TrimKeeps
<1>2. /\ d \in Nat /\ Len(c) \in Nat /\ Trim(c) \in Seq(Nat) /\ Len(Trim(c)) \in Nat
      /\ Len(Trim(c)) + d <= Len(c)
      /\ \A k \in 1 .. Len(Trim(c)) : Trim(c)[k] = c[k + d]
  BY <1>1 DEF Part
<1>3. ASSUME NEW m \in 1 .. Len(Trim(c))
      PROVE  \E k \in 1 .. Len(c) : Trim(c)[m] = c[k]
  <2>1. m + d \in 1 .. Len(c)
    BY <1>2
  <2>2. Trim(c)[m] = c[m + d]
    BY <1>2
  <2> QED
    BY <2>1, <2>2
<1>4. ASSUME NEW k \in 1 .. Len(c), c[k] # Blank
      PROVE  Trim(c) # <<>>
  <2>1. k - d \in 1 .. Len(Trim(c))
    BY <1>1, <1>4
  <2>2. Len(Trim(c)) # 0
    BY <1>2, <2>1
  <2> QED
    BY <2>2
<1>5. ASSUME NEW i \in 1 .. Len(t), Ink(t, i), In(c, t, i)
      PROVE  In(Trim(c), t, i) /\ \E k \in 1 .. Len(c) : c[k] # Blank
  <2> DEFINE w == Text(t, i)
  <2>1. Len(w) \in Nat \ {0} /\ w[1] = i /\ w[1] # Blank /\ w[Len(w)] # Blank
    BY <1>5, InkLine
  <2>2. Run(c, w)
    BY <1>5, InIsRun
  <2>3. Run(Trim(c), w)
    <3> HIDE DEF w
    <3> QED
      BY <1>1, <2>1, <2>2, RunTrim
  <2>4. In(Trim(c), t, i)
    BY <1>2, <1>5, <2>3, InIsRun
  <2>5. \E k \in 1 .. Len(c) : c[k] = w[1]
    <3> HIDE DEF w
    <3> QED
      BY <2>1, <2>2, RunOccurs
  <2> QED
    BY <2>1, <2>4, <2>5
<1>6. ASSUME NEW i, Count(c, {i}) <= Overlap
      PROVE  Count(Trim(c), {i}) <= Overlap
  <2>1. /\ Count(Trim(c), {i}) \in Nat /\ Count(c, {i}) \in Nat
        /\ Count(Trim(c), {i}) <= Count(c, {i})
    BY <1>1, PartCounts
  <2> QED
    BY <1>6, <2>1, ChunkAssumption
<1>7. Len(Trim(c)) <= Len(c)
  BY <1>2
<1> QED
  BY <1>2, <1>3, <1>4, <1>5, <1>6, <1>7

\* The parts of the invariant in the next state.
LEMMA CutNext ==
  ASSUME CutTypes', InkInv', Ordered(wholeText', Pieces', Read'), Repeats(wholeText', Pieces', Read'),
         Sized(Pieces', Read')
  PROVE  CutInv'
<1>1. Ordered(wholeText, Pieces, Read)' <=> Ordered(wholeText', Pieces', Read')
  BY DEF Ordered, Ink, In
<1>2. Repeats(wholeText, Pieces, Read)' <=> Repeats(wholeText', Pieces', Read')
  BY DEF Repeats, Ink, In, Count
<1>3. Sized(Pieces, Read)' <=> Sized(Pieces', Read')
  BY DEF Sized
<1> QED
  BY <1>1, <1>2, <1>3 DEF CutInv

\* The line that is read, and what is left of the lines.
LEMMA LineRead ==
  ASSUME CutTypes, TakeLine
  PROVE  LET line == Head(lines)
         IN  /\ chunkPc = "lines" /\ Read \in Nat /\ Read + 1 \in 1 .. Len(wholeText)
             /\ line = wholeText[Read + 1]
             /\ line \in Seq(Nat) /\ line # <<>> /\ Len(line) \in 1 .. MaxWidth /\ Len(line) \in Nat
             /\ \A m \in 1 .. Len(line) : line[m] \in {Blank, Read + 1}
             /\ wholeText' = wholeText /\ chunkPc' = chunkPc /\ Read' = Read + 1
             /\ lines' \in Seq(Seq(Nat)) /\ Len(lines') <= Len(wholeText')
             /\ \A m \in 1 .. Len(lines') : lines'[m] = wholeText'[Read' + m]
<1>1. chunkPc = "lines" /\ lines # <<>> /\ lines' = Tail(lines) /\ wholeText' = wholeText /\ chunkPc' = chunkPc
  BY DEF TakeLine
<1>2. /\ IsText(wholeText) /\ lines \in Seq(Seq(Nat)) /\ Len(lines) <= Len(wholeText)
      /\ \A m \in 1 .. Len(lines) : lines[m] = wholeText[Read + m]
  BY DEF CutTypes
<1>3. Len(wholeText) \in Nat /\ Len(lines) \in Nat /\ Len(lines) >= 1
  <2>1. Len(wholeText) \in Nat
    BY <1>2 DEF IsText
  <2>2. Len(lines) \in Nat /\ Len(lines) # 0
    BY <1>1, <1>2, EmptySeq
  <2> QED
    BY <2>1, <2>2
<1>4. Read \in Nat /\ Read + 1 \in 1 .. Len(wholeText)
  BY <1>2, <1>3 DEF Read
<1>5. Head(lines) = wholeText[Read + 1]
  <2>1. Head(lines) = lines[1] /\ 1 \in 1 .. Len(lines)
    BY <1>1, <1>2, <1>3
  <2> QED
    BY <1>2, <2>1
<1>6. /\ lines' \in Seq(Seq(Nat)) /\ Len(lines') = Len(lines) - 1
      /\ \A m \in 1 .. Len(lines') : lines'[m] = lines[m + 1]
  BY <1>1, <1>2, HeadTailProperties
<1>7. Read' = Read + 1
  BY <1>1, <1>3, <1>6 DEF Read
<1>8. ASSUME NEW m \in 1 .. Len(lines')
      PROVE  lines'[m] = wholeText'[Read' + m]
  <2>1. m + 1 \in 1 .. Len(lines) /\ Read + (m + 1) = Read' + m
    BY <1>3, <1>4, <1>6, <1>7
  <2>2. lines[m + 1] = wholeText[Read + (m + 1)]
    BY <1>2, <2>1
  <2> QED
    BY <1>1, <1>6, <2>1, <2>2
<1> DEFINE u == wholeText[Read + 1]
<1>9. /\ u \in Seq(Nat) /\ Len(u) \in 1 .. MaxWidth /\ Len(u) \in Nat
      /\ \A m \in 1 .. Len(u) : u[m] \in {Blank, Read + 1}
  BY <1>2, <1>4, InkLine
<1>10. u # <<>> /\ \A m \in 1 .. Len(u) : u[m] \in {Blank, Read + 1}
  <2> HIDE DEF u
  <2>1. Len(u) # 0
    BY <1>9
  <2>2. u # <<>>
    BY <2>1
  <2> QED
    BY <1>9, <2>2
<1>11. Len(lines') <= Len(wholeText')
  BY <1>1, <1>2, <1>3, <1>6
<1> QED
  BY <1>1, <1>4, <1>5, <1>6, <1>7, <1>8, <1>9, <1>10, <1>11

\* What the line makes of the piece it is added to, b: a part of current.
LEMMA LineCarried ==
  ASSUME CutTypes, TakeLine, \A m \in 1 .. Len(current) : current[m] <= Read,
         NEW b, NEW d, Part(b, current, d), current' = Carry(b, Head(lines))
  PROVE  /\ current' \in Seq(Nat) /\ current' # <<>>
         /\ Len(current') = IF b = <<>> THEN Len(Head(lines)) ELSE Len(b) + 1 + Len(Head(lines))
         /\ \A m \in 1 .. Len(current') : current'[m] <= Read + 1
         /\ Ink(wholeText, Read + 1) =>
              /\ In(current', wholeText, Read + 1)
              /\ \E m \in 1 .. Len(current') : current'[m] # Blank
         /\ \A i \in 1 .. Read : Ink(wholeText, i) =>
              /\ In(b, wholeText, i) => In(current', wholeText, i)
              /\ Count(current', {i}) = Count(b, {i})
<1> DEFINE line == Head(lines)
           t == wholeText
           n == Read
<1>1. /\ n \in Nat /\ n + 1 \in 1 .. Len(t) /\ line = t[n + 1]
      /\ line \in Seq(Nat) /\ line # <<>> /\ Len(line) \in 1 .. MaxWidth /\ Len(line) \in Nat
      /\ \A m \in 1 .. Len(line) : line[m] \in {Blank, n + 1}
  BY LineRead
<1>2. IsText(t) /\ current \in Seq(Nat)
  BY DEF CutTypes
<1>3. b \in Seq(Nat) /\ Len(b) \in Nat /\ \A m \in 1 .. Len(b) : b[m] <= n
  <2>1. b \in Seq(Nat) /\ d \in Nat /\ Len(b) + d <= Len(current) /\ \A m \in 1 .. Len(b) : b[m] = current[m + d]
    BY DEF Part
  <2>2. Len(b) \in Nat /\ Len(current) \in Nat
    BY <1>2, <2>1
  <2>3. ASSUME NEW m \in 1 .. Len(b)
        PROVE  b[m] <= n
    <3>1. m + d \in 1 .. Len(current)
      BY <2>1, <2>2
    <3> QED
      BY <2>1, <3>1
  <2> QED
    BY <2>1, <2>2, <2>3
<1> DEFINE x == Carry(b, line)
<1> HIDE DEF line, t, n
<1>4. /\ x \in Seq(Nat) /\ x # <<>> /\ Len(x) = IF b = <<>> THEN Len(line) ELSE Len(b) + 1 + Len(line)
      /\ \A m \in 1 .. Len(x) :
           \/ x[m] = Blank
           \/ \E k \in 1 .. Len(b) : x[m] = b[k]
           \/ \E k \in 1 .. Len(line) : x[m] = line[k]
      /\ \A k \in 1 .. Len(line) : \E m \in 1 .. Len(x) : x[m] = line[k]
      /\ \A w : Len(w) \in Nat \ {0} /\ (Run(b, w) \/ Run(line, w)) => Run(x, w)
      /\ \A i : i # Blank /\ (\A k \in 1 .. Len(line) : line[k] # i) => Count(x, {i}) = Count(b, {i})
  <2>1. b \in Seq(Nat) /\ line \in Seq(Nat) /\ line # <<>>
    BY <1>1, <1>3, Zenon
  <2> QED
    BY <2>1, CarryKeeps, Zenon
<1> HIDE DEF x
<1>5. ASSUME NEW m \in 1 .. Len(x)
      PROVE  x[m] <= n + 1
  <2>1. CASE x[m] = Blank
    BY <1>1, <2>1 DEF Blank
  <2>2. ASSUME NEW k \in 1 .. Len(b), x[m] = b[k]
        PROVE  x[m] <= n + 1
    <3>1. b[k] \in Nat /\ b[k] <= n
      BY <1>3
    <3> QED
      BY <1>1, <2>2, <3>1
  <2>3. ASSUME NEW k \in 1 .. Len(line), x[m] = line[k]
        PROVE  x[m] <= n + 1
    <3>1. line[k] = n + 1 \/ line[k] = 0
      BY <1>1 DEF Blank
    <3> QED
      BY <1>1, <2>3, <3>1
  <2> QED
    BY <1>4, <2>1, <2>2, <2>3
<1>6. ASSUME Ink(t, n + 1)
      PROVE  In(x, t, n + 1) /\ \E m \in 1 .. Len(x) : x[m] # Blank
  <2> DEFINE w == Text(t, n + 1)
  <2>1. Len(w) \in Nat \ {0} /\ w[1] = n + 1 /\ w[1] # Blank /\ Run(line, w)
    BY <1>1, <1>2, <1>6, InkLine
  <2>2. Run(x, w)
    <3> HIDE DEF w
    <3> QED
      BY <1>4, <2>1
  <2>3. In(x, t, n + 1)
    BY <1>1, <1>2, <1>4, <1>6, <2>2, InIsRun
  <2>4. \E m \in 1 .. Len(x) : x[m] = w[1]
    <3> HIDE DEF w
    <3> QED
      BY <1>4, <2>1, <2>2, RunOccurs
  <2> QED
    BY <2>1, <2>3, <2>4
<1>7. ASSUME NEW i \in 1 .. n, Ink(t, i)
      PROVE  /\ In(b, t, i) => In(x, t, i)
             /\ Count(x, {i}) = Count(b, {i})
  <2>1. i \in 1 .. Len(t) /\ i # Blank /\ i # n + 1 /\ Len(t) \in Nat
    BY <1>1, <1>2 DEF Blank, IsText
  <2>2. Len(Text(t, i)) \in Nat \ {0}
    BY <1>2, <1>7, <2>1, InkLine
  <2>3. In(b, t, i) => Run(b, Text(t, i))
    BY <1>2, <1>3, <1>7, <2>1, InIsRun
  <2>4. Run(x, Text(t, i)) => In(x, t, i)
    BY <1>2, <1>4, <1>7, <2>1, InIsRun
  <2>5. Run(b, Text(t, i)) => Run(x, Text(t, i))
    BY <1>4, <2>2
  <2>6. \A k \in 1 .. Len(line) : line[k] # i
    BY <1>1, <2>1
  <2>7. Count(x, {i}) = Count(b, {i})
    BY <1>4, <2>1, <2>6
  <2> QED
    BY <2>3, <2>4, <2>5, <2>7
<1> QED
  BY <1>4, <1>5, <1>6, <1>7 DEF x, line, t, n

\* A piece more.
LEMMA Appended ==
  ASSUME NEW s \in Seq(Seq(Nat)), NEW e \in Seq(Nat)
  PROVE  /\ Append(s, e) \in Seq(Seq(Nat)) /\ Len(s) \in Nat /\ Len(Append(s, e)) = Len(s) + 1
         /\ \A k \in 1 .. Len(s) : Append(s, e)[k] = s[k]
         /\ Append(s, e)[Len(s) + 1] = e
<1> QED
  OBVIOUS

\* Where the loop stands before a step: the piece in the making is the last of Pieces.
LEMMA AtWork ==
  ASSUME CutInv, chunkPc = "lines"
  PROVE  LET n == Read
             L == Len(chunks)
         IN  /\ IsText(wholeText) /\ current \in Seq(Nat) /\ chunks \in Seq(Seq(Nat))
             /\ n \in Nat /\ n <= Len(wholeText) /\ Len(wholeText) \in Nat /\ L \in Nat /\ Len(current) \in Nat
             /\ Len(Pieces) = L + 1 /\ Pieces[L + 1] = current /\ \A k \in 1 .. L : Pieces[k] = chunks[k]
             /\ \A m \in 1 .. Len(current) : current[m] <= n
             /\ Len(current) <= ChunkSize + 1 \/ Len(current) <= Overlap + 1 + MaxWidth
             /\ \A k \in 1 .. L :
                  /\ \A m \in 1 .. Len(chunks[k]) : chunks[k][m] <= n
                  /\ Len(chunks[k]) <= ChunkSize + 1 \/ Len(chunks[k]) <= Overlap + 1 + MaxWidth
<1>1. /\ IsText(wholeText) /\ current \in Seq(Nat) /\ chunks \in Seq(Seq(Nat))
      /\ lines \in Seq(Seq(Nat)) /\ Len(lines) <= Len(wholeText) /\ Sized(Pieces, Read)
  BY DEF CutInv, CutTypes
<1>2. Len(wholeText) \in Nat /\ Len(lines) \in Nat /\ Len(current) \in Nat
  BY <1>1 DEF IsText
<1>3. Read \in Nat /\ Read <= Len(wholeText)
  BY <1>1, <1>2 DEF Read
<1>4. Pieces = Append(chunks, current)
  BY DEF Pieces
<1>5. /\ Len(chunks) \in Nat /\ Len(Pieces) = Len(chunks) + 1
      /\ \A k \in 1 .. Len(chunks) : Pieces[k] = chunks[k]
      /\ Pieces[Len(chunks) + 1] = current
  BY <1>1, <1>4, Appended
<1>6. /\ \A m \in 1 .. Len(current) : current[m] <= Read
      /\ Len(current) <= ChunkSize + 1 \/ Len(current) <= Overlap + 1 + MaxWidth
  <2>1. Len(chunks) + 1 \in 1 .. Len(Pieces)
    BY <1>5
  <2> QED
    BY <1>1, <1>5, <2>1 DEF Sized
<1>7. ASSUME NEW k \in 1 .. Len(chunks)
      PROVE  /\ \A m \in 1 .. Len(chunks[k]) : chunks[k][m] <= Read
             /\ Len(chunks[k]) <= ChunkSize + 1 \/ Len(chunks[k]) <= Overlap + 1 + MaxWidth
  <2>1. k \in 1 .. Len(Pieces) /\ Pieces[k] = chunks[k]
    BY <1>5
  <2> QED
    BY <1>1, <2>1 DEF Sized
<1> QED
  BY <1>1, <1>2, <1>3, <1>5, <1>6, <1>7

\* The step that reads a line.
LEMMA TakeLineKeeps ==
  ASSUME CutInv, TakeLine
  PROVE  CutInv'
<1> DEFINE line == Head(lines)
           n == Read
           L == Len(chunks)
           Q == Append(chunks', current')
<1>0. CutTypes /\ InkInv /\ Ordered(wholeText, Pieces, n) /\ Repeats(wholeText, Pieces, n) /\ chunkPc = "lines"
  BY DEF CutInv, TakeLine
<1>1. /\ line = wholeText[n + 1] /\ n + 1 \in 1 .. Len(wholeText)
      /\ Len(line) \in 1 .. MaxWidth /\ Len(line) \in Nat /\ line # <<>>
      /\ wholeText' = wholeText /\ chunkPc' = chunkPc /\ Read' = n + 1
      /\ lines' \in Seq(Seq(Nat)) /\ Len(lines') <= Len(wholeText')
      /\ \A m \in 1 .. Len(lines') : lines'[m] = wholeText'[Read' + m]
  BY <1>0, LineRead
<1>2. /\ IsText(wholeText) /\ current \in Seq(Nat) /\ chunks \in Seq(Seq(Nat))
      /\ n \in Nat /\ n <= Len(wholeText) /\ Len(wholeText) \in Nat /\ L \in Nat /\ Len(current) \in Nat
      /\ Len(Pieces) = L + 1 /\ Pieces[L + 1] = current /\ \A k \in 1 .. L : Pieces[k] = chunks[k]
      /\ \A m \in 1 .. Len(current) : current[m] <= n
      /\ Len(current) <= ChunkSize + 1 \/ Len(current) <= Overlap + 1 + MaxWidth
      /\ \A k \in 1 .. L :
           /\ \A m \in 1 .. Len(chunks[k]) : chunks[k][m] <= n
           /\ Len(chunks[k]) <= ChunkSize + 1 \/ Len(chunks[k]) <= Overlap + 1 + MaxWidth
  BY <1>0, AtWork
<1> DEFINE b == IF Overflows(line) THEN LastOnes(current, Overlap) ELSE current
<1>3. current' = Carry(b, line) /\ \E d : Part(b, current, d)
  <2>1. CASE Overflows(line)
    <3>1. \E d : Part(LastOnes(current, Overlap), current, d)
      BY <1>2, LastOnesPart
    <3> QED
      BY <2>1, <3>1 DEF TakeLine
  <2>2. CASE ~Overflows(line)
    <3>1. Part(current, current, 0)
      BY <1>2 DEF Part
    <3> QED
      BY <2>2, <3>1 DEF TakeLine
  <2> QED
    BY <2>1, <2>2
<1>4. /\ current' \in Seq(Nat) /\ current' # <<>>
      /\ Len(current') = IF b = <<>> THEN Len(line) ELSE Len(b) + 1 + Len(line)
      /\ \A m \in 1 .. Len(current') : current'[m] <= n + 1
      /\ Ink(wholeText, n + 1) =>
           /\ In(current', wholeText, n + 1)
           /\ \E m \in 1 .. Len(current') : current'[m] # Blank
      /\ \A i \in 1 .. n : Ink(wholeText, i) =>
           /\ In(b, wholeText, i) => In(current', wholeText, i)
           /\ Count(current', {i}) = Count(b, {i})
  <2> HIDE DEF b, n, L, Q
  <2>1. PICK d : Part(b, current, d)
    BY <1>3
  <2> USE DEF n
  <2> QED
    BY <1>0, <1>2, <1>3, <2>1, LineCarried
\* The pieces, before the line counts; and what is finished of them.
<1>5. /\ Q \in Seq(Seq(Nat)) /\ chunks' \in Seq(Seq(Nat)) /\ Len(chunks') \in Nat /\ Len(Q) = Len(chunks') + 1
      /\ Q[Len(Q)] = current' /\ \A k \in 1 .. Len(chunks') : Q[k] = chunks'[k]
      /\ Ordered(wholeText, Q, n) /\ Repeats(wholeText, Q, n)
      /\ \A k \in 1 .. Len(chunks') :
           /\ \A m \in 1 .. Len(chunks'[k]) : chunks'[k][m] <= n
           /\ Len(chunks'[k]) <= ChunkSize + 1 \/ Len(chunks'[k]) <= Overlap + 1 + MaxWidth
      /\ Len(current') <= ChunkSize + 1 \/ Len(current') <= Overlap + 1 + MaxWidth
  <2>1. CASE ~Overflows(line)
    <3>1. chunks' = chunks /\ b = current
      BY <2>1 DEF TakeLine
    <3>2. /\ Q \in Seq(Seq(Nat)) /\ Len(Q) = L + 1 /\ \A k \in 1 .. L : Q[k] = chunks[k]
          /\ Q[L + 1] = current'
      BY <1>2, <1>4, <3>1, Appended
    <3> HIDE DEF Q, b, n, L
    <3>3. Ordered(wholeText, Q, n) /\ Repeats(wholeText, Q, n)
      <4>1. \A k \in 1 .. L : Q[k] = Pieces[k]
        BY <1>2, <3>2
      <4>2. \A i \in 1 .. n : Ink(wholeText, i) /\ In(Pieces[L + 1], wholeText, i) => In(Q[L + 1], wholeText, i)
        BY <1>2, <1>4, <3>1, <3>2
      <4>3. \A i \in 1 .. n : Ink(wholeText, i) /\ Count(Pieces[L + 1], {i}) <= Overlap => Count(Q[L + 1], {i}) <= Overlap
        BY <1>2, <1>4, <3>1, <3>2
      <4>4. Len(Q) # L + 2 /\ Len(Q) \in {L + 1, L + 2}
        BY <1>2, <3>2
      <4> QED
        BY <1>0, <1>2, <4>1, <4>2, <4>3, <4>4, PiecesKeep
    <3>4. Len(current') <= ChunkSize + 1 \/ Len(current') <= Overlap + 1 + MaxWidth
      <4>1. CASE current = <<>>
        BY <1>1, <1>4, <3>1, <4>1, ChunkAssumption
      <4>2. CASE current # <<>>
        <5>1. Len(current) > 0
          BY <1>2, <4>2
        <5>2. Len(current) + Len(line) <= ChunkSize
          BY <1>1, <1>2, <2>1, <5>1, ChunkAssumption DEF Overflows
        <5>3. Len(current') = Len(current) + 1 + Len(line)
          BY <1>4, <3>1, <4>2
        <5>4. Len(line) \in Nat /\ Len(current) \in Nat /\ ChunkSize \in Nat
          BY <1>1, <1>2, ChunkAssumption
        <5>5. \A x, y, z, e \in Nat : x + y <= z /\ e = x + 1 + y => e <= z + 1
          OBVIOUS
        <5>6. Len(current') \in Nat
          <6>1. current' \in Seq(Nat)
            BY <1>4, Zenon
          <6> QED
            BY <6>1
        <5>7. Len(current') <= ChunkSize + 1
          BY <5>2, <5>3, <5>4, <5>5, <5>6
        <5> QED
          BY <5>7
      <4> QED
        BY <4>1, <4>2
    <3>5. Len(chunks') = L /\ Len(Q) = Len(chunks') + 1 /\ Q[Len(Q)] = current'
      BY <3>1, <3>2 DEF L
    <3> QED
      BY <1>2, <3>1, <3>2, <3>3, <3>4, <3>5
  <2>2. CASE Overflows(line)
    <3>1. chunks' = Append(chunks, Trim(current)) /\ b = LastOnes(current, Overlap)
      BY <2>2 DEF TakeLine
    <3>2. /\ Trim(current) \in Seq(Nat) /\ Len(Trim(current)) <= Len(current) /\ Len(Trim(current)) \in Nat
          /\ \A m \in 1 .. Len(Trim(current)) : \E k \in 1 .. Len(current) : Trim(current)[m] = current[k]
          /\ \A i \in 1 .. Len(wholeText) :
               /\ Ink(wholeText, i) /\ In(current, wholeText, i) => In(Trim(current), wholeText, i)
               /\ Ink(wholeText, i) /\ Count(current, {i}) <= Overlap => Count(Trim(current), {i}) <= Overlap
      BY <1>2, TrimmedPiece
    <3> DEFINE tr == Trim(current)
    <3> HIDE DEF tr
    <3>3. /\ chunks' \in Seq(Seq(Nat)) /\ Len(chunks') = L + 1
          /\ \A k \in 1 .. L : chunks'[k] = chunks[k]
          /\ chunks'[L + 1] = tr
      BY <1>2, <3>1, <3>2, Appended DEF tr
    <3>4. /\ Q \in Seq(Seq(Nat)) /\ Len(Q) = Len(chunks') + 1 /\ Len(chunks') \in Nat
          /\ \A k \in 1 .. Len(chunks') : Q[k] = chunks'[k]
          /\ Q[Len(chunks') + 1] = current'
      BY <1>4, <3>3, Appended
    <3> HIDE DEF Q, b, n, L
    <3>5. Len(b) <= Overlap /\ Len(b) \in Nat /\ \A i \in 1 .. n : Count(b, {i}) <= Overlap
      <4>1. PICK d : Part(LastOnes(current, Overlap), current, d)
        BY <1>2, LastOnesPart
      <4>2. Part(b, current, d)
        BY <3>1, <4>1
      <4>3. Len(b) <= Overlap
        BY <1>2, <3>1, LastOnesPart
      <4>4. Len(b) \in Nat
        BY <4>2 DEF Part
      <4>5. ASSUME NEW i \in 1 .. n
            PROVE  Count(b, {i}) <= Overlap
        <5>1. Count(b, {i}) \in Nat /\ Count(b, {i}) <= Len(b)
          BY <1>2, <4>2, PartCounts
        <5> QED
          BY <4>3, <4>4, <5>1, ChunkAssumption
      <4> QED
        BY <4>3, <4>4, <4>5
    <3>6. Ordered(wholeText, Q, n) /\ Repeats(wholeText, Q, n)
      <4>0. \A k \in 1 .. L + 1 : Q[k] = chunks'[k]
        BY <3>3, <3>4
      <4>1. \A k \in 1 .. L : Q[k] = Pieces[k]
        BY <1>2, <3>3, <4>0
      <4>2. Q[L + 1] = tr /\ Q[L + 2] = current' /\ Len(Q) \in {L + 1, L + 2}
        BY <1>2, <3>3, <3>4, <4>0
      <4>3. \A i \in 1 .. n : i \in 1 .. Len(wholeText)
        BY <1>2
      <4>4. \A i \in 1 .. n : Ink(wholeText, i) /\ In(Pieces[L + 1], wholeText, i) => In(Q[L + 1], wholeText, i)
        BY <1>2, <3>2, <4>2, <4>3 DEF tr
      <4>5. \A i \in 1 .. n : Ink(wholeText, i) /\ Count(Pieces[L + 1], {i}) <= Overlap => Count(Q[L + 1], {i}) <= Overlap
        BY <1>2, <3>2, <4>2, <4>3 DEF tr
      <4>6. \A i \in 1 .. n : Ink(wholeText, i) => Count(Q[L + 2], {i}) <= Overlap
        BY <1>4, <3>5, <4>2
      <4> QED
        BY <1>0, <1>2, <4>1, <4>2, <4>4, <4>5, <4>6, PiecesKeep
    <3>7. Len(current') <= Overlap + 1 + MaxWidth
      <4>1. Len(current') = Len(line) \/ Len(current') = Len(b) + 1 + Len(line)
        BY <1>4
      <4>2. Len(line) <= MaxWidth /\ Len(line) \in Nat /\ Overlap \in Nat /\ MaxWidth \in Nat
        BY <1>1, ChunkAssumption
      <4>3. \A x, y, z, e, w \in Nat : x <= z /\ y <= w /\ (e = y \/ e = x + 1 + y) => e <= z + 1 + w
        OBVIOUS
      <4>4. Len(current') \in Nat
        <5>1. current' \in Seq(Nat)
          BY <1>4, Zenon
        <5> QED
          BY <5>1
      <4> QED
        BY <3>5, <4>1, <4>2, <4>3, <4>4
    <3>8. ASSUME NEW k \in 1 .. L + 1
          PROVE  /\ \A m \in 1 .. Len(chunks'[k]) : chunks'[k][m] <= n
                 /\ Len(chunks'[k]) <= ChunkSize + 1 \/ Len(chunks'[k]) <= Overlap + 1 + MaxWidth
      <4>1. CASE k \in 1 .. L
        BY <1>2, <3>3, <4>1
      <4>2. CASE k = L + 1
        <5>1. \A m \in 1 .. Len(tr) : tr[m] <= n
          BY <1>2, <3>2 DEF tr
        <5>2. Len(tr) <= ChunkSize + 1 \/ Len(tr) <= Overlap + 1 + MaxWidth
          BY <1>2, <3>2, ChunkAssumption DEF tr
        <5> QED
          BY <3>3, <4>2, <5>1, <5>2
      <4> QED
        BY <1>2, <4>1, <4>2
    <3>9. Q[Len(Q)] = current'
      BY <3>4
    <3> QED
      BY <3>3, <3>4, <3>6, <3>7, <3>8, <3>9
  <2> QED
    BY <2>1, <2>2
<1>6. Pieces' = Q
  BY <1>0, <1>1 DEF Pieces
<1> HIDE DEF Q, b
<1>7. Ordered(wholeText, Q, n + 1) /\ Repeats(wholeText, Q, n + 1)
  <2> HIDE DEF n, L, line
  <2>1. \A k \in 1 .. Len(Q) : k < Len(Q) => k \in 1 .. Len(chunks')
    BY <1>5
  <2>2. \A k \in 1 .. Len(Q) : k < Len(Q) => \A m \in 1 .. Len(Q[k]) : Q[k][m] <= n
    BY <1>5, <2>1
  <2>3. Len(Q) >= 1 /\ n + 1 <= Len(wholeText)
    BY <1>1, <1>2, <1>5
  <2> QED
    BY <1>2, <1>4, <1>5, <2>2, <2>3, NextLine
<1>8. Sized(Q, n + 1)
  <2> HIDE DEF n, L, line
  <2> SUFFICES ASSUME NEW k \in 1 .. Len(Q)
               PROVE  /\ \A m \in 1 .. Len(Q[k]) : Q[k][m] <= n + 1
                      /\ Len(Q[k]) <= ChunkSize + 1 \/ Len(Q[k]) <= Overlap + 1 + MaxWidth
    BY DEF Sized
  <2>1. CASE k \in 1 .. Len(chunks')
    <3>1. Q[k] = chunks'[k] /\ chunks'[k] \in Seq(Nat)
      BY <1>5, <2>1
    <3>2. \A m \in 1 .. Len(chunks'[k]) : chunks'[k][m] <= n /\ chunks'[k][m] \in Nat
      <4>1. \A m \in 1 .. Len(chunks'[k]) : chunks'[k][m] <= n
        BY <1>5, <2>1
      <4>2. \A m \in 1 .. Len(chunks'[k]) : chunks'[k][m] \in Nat
        BY <3>1
      <4> QED
        BY <4>1, <4>2
    <3>3. \A m \in 1 .. Len(chunks'[k]) : chunks'[k][m] <= n + 1
      BY <1>2, <3>2
    <3> QED
      BY <1>5, <2>1, <3>1, <3>3
  <2>2. CASE k = Len(Q)
    BY <1>4, <1>5, <2>2
  <2> QED
    BY <1>5, <2>1, <2>2
<1>9. CutTypes'
  <2>1. IsText(wholeText)' <=> IsText(wholeText')
    BY DEF IsText
  <2> QED
    BY <1>0, <1>1, <1>2, <1>4, <1>5, <2>1 DEF CutTypes
<1>10. InkInv'
  <2> SUFFICES ASSUME \A i \in 1 .. Len(wholeText') : Ink(wholeText', i), wholeText' # <<>>
               PROVE  /\ current' # <<>>
                      /\ \E m \in 1 .. Len(current') : current'[m] # Blank
                      /\ \A k \in 1 .. Len(chunks') : chunks'[k] # <<>>
    BY <1>4 DEF InkInv, Ink
  <2>1. /\ current # <<>> => \E m \in 1 .. Len(current) : current[m] # Blank
        /\ \A k \in 1 .. L : chunks[k] # <<>>
    BY <1>0, <1>1 DEF InkInv, Ink
  <2>2. \E m \in 1 .. Len(current') : current'[m] # Blank
    <3>1. Ink(wholeText, n + 1)
      BY <1>1
    <3> QED
      BY <1>4, <3>1
  <2>3. CASE ~Overflows(line)
    <3>1. chunks' = chunks
      BY <2>3 DEF TakeLine
    <3> QED
      BY <1>4, <2>1, <2>2, <3>1
  <2>4. CASE Overflows(line)
    <3>1. chunks' = Append(chunks, Trim(current))
      BY <2>4 DEF TakeLine
    <3>2. current # <<>>
      BY <2>4 DEF Overflows
    <3>3. Trim(current) # <<>> /\ Trim(current) \in Seq(Nat)
      BY <1>2, <2>1, <3>2, TrimmedPiece
    <3> DEFINE tr == Trim(current)
    <3> HIDE DEF tr
    <3>4. /\ Len(chunks') = L + 1 /\ \A k \in 1 .. L : chunks'[k] = chunks[k]
          /\ chunks'[L + 1] = tr
      BY <1>2, <3>1, <3>3, Appended DEF tr
    <3> HIDE DEF L
    <3>5. \A k \in 1 .. L + 1 : k \in 1 .. L \/ k = L + 1
      <4>1. L \in Nat
        BY <1>2
      <4> QED
        BY <4>1
    <3>6. tr # <<>>
      BY <3>3 DEF tr
    <3> QED
      BY <1>4, <2>1, <2>2, <3>4, <3>5, <3>6
  <2> QED
    BY <2>3, <2>4
<1> QED
  <2>1. Ordered(wholeText', Pieces', Read') /\ Repeats(wholeText', Pieces', Read') /\ Sized(Pieces', Read')
    BY <1>1, <1>6, <1>7, <1>8
  <2> QED
    BY <1>9, <1>10, <2>1, CutNext

\* The step that ends the loop.
LEMMA LastChunkKeeps ==
  ASSUME CutInv, LastChunk
  PROVE  CutInv'
<1> DEFINE t == wholeText
           n == Read
           L == Len(chunks)
           tr == Trim(current)
<1>0. /\ CutTypes /\ InkInv /\ Ordered(t, Pieces, n) /\ Repeats(t, Pieces, n)
      /\ chunkPc = "lines" /\ lines = <<>> /\ chunkPc' = "stored"
      /\ lines' = lines /\ wholeText' = wholeText /\ current' = current
  BY DEF CutInv, LastChunk
<1>1. /\ IsText(t) /\ current \in Seq(Nat) /\ chunks \in Seq(Seq(Nat))
      /\ n \in Nat /\ n <= Len(t) /\ Len(t) \in Nat /\ L \in Nat /\ Len(current) \in Nat
      /\ Len(Pieces) = L + 1 /\ Pieces[L + 1] = current /\ \A k \in 1 .. L : Pieces[k] = chunks[k]
      /\ \A m \in 1 .. Len(current) : current[m] <= n
      /\ Len(current) <= ChunkSize + 1 \/ Len(current) <= Overlap + 1 + MaxWidth
      /\ \A k \in 1 .. L :
           /\ \A m \in 1 .. Len(chunks[k]) : chunks[k][m] <= n
           /\ Len(chunks[k]) <= ChunkSize + 1 \/ Len(chunks[k]) <= Overlap + 1 + MaxWidth
  BY <1>0, AtWork
<1>2. /\ tr \in Seq(Nat) /\ Len(tr) <= Len(current) /\ Len(tr) \in Nat
      /\ \A m \in 1 .. Len(tr) : \E k \in 1 .. Len(current) : tr[m] = current[k]
      /\ (\E k \in 1 .. Len(current) : current[k] # Blank) => tr # <<>>
      /\ \A i \in 1 .. Len(t) :
           /\ Ink(t, i) /\ In(current, t, i) => In(tr, t, i) /\ \E k \in 1 .. Len(current) : current[k] # Blank
           /\ Ink(t, i) /\ Count(current, {i}) <= Overlap => Count(tr, {i}) <= Overlap
  BY <1>1, TrimmedPiece
<1>3. /\ Read' = n /\ n = Len(t) /\ Pieces' = chunks'
      /\ chunks' = IF tr # <<>> THEN Append(chunks, tr)
                   ELSE IF chunks = <<>> THEN <<FirstOnes(current, ChunkSize)>> ELSE chunks
  <2>1. Len(lines) = 0
    BY <1>0
  <2> QED
    BY <1>0, <1>1, <2>1 DEF LastChunk, Read, Pieces
<1> DEFINE Q == chunks'
<1> HIDE DEF t, n, L, tr, Q
<1>4. \A i \in 1 .. n : i \in 1 .. Len(t)
  BY <1>1
<1>5. tr = <<>> => \A i \in 1 .. n : Ink(t, i) => ~In(current, t, i)
  BY <1>2, <1>4
\* What each way to end makes of the pieces.
<1>6. /\ Q \in Seq(Seq(Nat)) /\ Q # <<>> /\ Ordered(t, Q, n) /\ Repeats(t, Q, n) /\ Sized(Q, n)
      /\ (\A k \in 1 .. L : chunks[k] # <<>>) /\ (tr = <<>> => chunks # <<>>) => \A k \in 1 .. Len(Q) : Q[k] # <<>>
  <2>1. CASE tr # <<>>
    <3>1. /\ Q \in Seq(Seq(Nat)) /\ Len(Q) = L + 1 /\ \A k \in 1 .. L : Q[k] = chunks[k]
          /\ Q[L + 1] = tr
      BY <1>1, <1>2, <1>3, <2>1, Appended DEF Q, L
    <3>2. Q # <<>>
      BY <1>1, <3>1
    <3>3. Ordered(t, Q, n) /\ Repeats(t, Q, n)
      <4>1. \A k \in 1 .. L : Q[k] = Pieces[k]
        BY <1>1, <3>1
      <4>2. \A i \in 1 .. n : Ink(t, i) /\ In(Pieces[L + 1], t, i) => In(Q[L + 1], t, i)
        BY <1>1, <1>2, <1>4, <3>1
      <4>3. \A i \in 1 .. n : Ink(t, i) /\ Count(Pieces[L + 1], {i}) <= Overlap => Count(Q[L + 1], {i}) <= Overlap
        BY <1>1, <1>2, <1>4, <3>1
      <4>4. Len(Q) # L + 2 /\ Len(Q) \in {L + 1, L + 2} /\ n \in Nat /\ L \in Nat /\ Len(Pieces) = L + 1
        BY <1>1, <3>1
      <4> QED
        BY <1>0, <4>1, <4>2, <4>3, <4>4, PiecesKeep
    <3>4. \A k \in 1 .. Len(Q) : k \in 1 .. L \/ k = L + 1
      <4>1. L \in Nat /\ Len(Q) = L + 1
        BY <1>1, <3>1
      <4> QED
        BY <4>1
    <3>5. Sized(Q, n)
      <4> SUFFICES ASSUME NEW k \in 1 .. Len(Q)
                   PROVE  /\ \A m \in 1 .. Len(Q[k]) : Q[k][m] <= n
                          /\ Len(Q[k]) <= ChunkSize + 1 \/ Len(Q[k]) <= Overlap + 1 + MaxWidth
        BY DEF Sized
      <4>1. CASE k \in 1 .. L
        BY <1>1, <3>1, <4>1
      <4>2. CASE k = L + 1
        <5>1. \A m \in 1 .. Len(tr) : tr[m] <= n
          BY <1>1, <1>2
        <5>2. Len(tr) <= ChunkSize + 1 \/ Len(tr) <= Overlap + 1 + MaxWidth
          <6>1. /\ Len(tr) <= Len(current) /\ Len(tr) \in Nat /\ Len(current) \in Nat
                /\ Len(current) <= ChunkSize + 1 \/ Len(current) <= Overlap + 1 + MaxWidth
            BY <1>1, <1>2
          <6> QED
            BY <6>1, ChunkAssumption
        <5> QED
          BY <3>1, <4>2, <5>1, <5>2
      <4> QED
        BY <3>4, <4>1, <4>2
    <3>6. (\A k \in 1 .. L : chunks[k] # <<>>) => \A k \in 1 .. Len(Q) : Q[k] # <<>>
      BY <2>1, <3>1, <3>4
    <3> QED
      BY <3>1, <3>2, <3>3, <3>5, <3>6
  <2>2. CASE tr = <<>> /\ chunks # <<>>
    <3>1. Q = chunks /\ Len(Q) = L
      BY <1>3, <2>2 DEF Q, L
    <3>2. ASSUME NEW i \in 1 .. n, NEW k \in 1 .. Len(Pieces), Ink(t, i), In(Pieces[k], t, i)
          PROVE  k \in 1 .. L /\ In(Q[k], t, i)
      <4>1. k # L + 1
        BY <1>1, <1>5, <2>2, <3>2
      <4>2. k \in 1 .. L
        <5>1. L \in Nat /\ Len(Pieces) = L + 1
          BY <1>1
        <5> QED
          BY <4>1, <5>1
      <4> QED
        BY <1>1, <3>1, <3>2, <4>2
    <3>3. Ordered(t, Q, n)
      <4> SUFFICES ASSUME NEW i \in 1 .. n, NEW j \in 1 .. n, i <= j, Ink(t, i), Ink(t, j)
                   PROVE  \E k, l \in 1 .. Len(Q) : k <= l /\ In(Q[k], t, i) /\ In(Q[l], t, j)
        BY DEF Ordered
      <4>1. PICK k \in 1 .. Len(Pieces), l \in 1 .. Len(Pieces) : k <= l /\ In(Pieces[k], t, i) /\ In(Pieces[l], t, j)
        BY <1>0 DEF Ordered
      <4>2. k \in 1 .. L /\ In(Q[k], t, i)
        BY <3>2, <4>1
      <4>3. l \in 1 .. L /\ In(Q[l], t, j)
        BY <3>2, <4>1
      <4> QED
        BY <3>1, <4>1, <4>2, <4>3
    <3>4. Repeats(t, Q, n)
      <4> SUFFICES ASSUME NEW i \in 1 .. n, NEW k \in 1 .. Len(Q), Ink(t, i), k < Len(Q), In(Q[k], t, i)
                   PROVE  Count(Q[k + 1], {i}) <= Overlap
        BY DEF Repeats
      <4>1. L \in Nat /\ Len(Pieces) = L + 1
        BY <1>1
      <4>2. k \in 1 .. L /\ k + 1 \in 1 .. L /\ k \in 1 .. Len(Pieces) /\ k < Len(Pieces)
        BY <3>1, <4>1
      <4>3. Q[k] = Pieces[k] /\ Q[k + 1] = Pieces[k + 1]
        BY <1>1, <3>1, <4>2
      <4> QED
        BY <1>0, <4>2, <4>3 DEF Repeats
    <3>5. Sized(Q, n)
      BY <1>1, <3>1 DEF Sized
    <3> QED
      BY <1>1, <2>2, <3>1, <3>3, <3>4, <3>5
  <2>3. CASE tr = <<>> /\ chunks = <<>>
    <3> DEFINE f == FirstOnes(current, ChunkSize)
    <3>1. Part(f, current, 0) /\ Len(f) <= ChunkSize
      BY <1>1, FirstOnesPart
    <3>2. f \in Seq(Nat) /\ Len(f) \in Nat /\ \A m \in 1 .. Len(f) : f[m] <= n
      <4>1. f \in Seq(Nat) /\ Len(f) <= Len(current) + 0 /\ \A m \in 1 .. Len(f) : f[m] = current[m + 0]
        BY <1>1, <3>1 DEF Part
      <4>2. Len(f) \in Nat
        BY <4>1
      <4>3. \A m \in 1 .. Len(f) : m \in 1 .. Len(current) /\ m + 0 = m
        BY <1>1, <4>1, <4>2
      <4> QED
        BY <1>1, <4>1, <4>2, <4>3
    <3> HIDE DEF f
    <3>3. Q = <<f>>
      BY <1>3, <2>3 DEF Q, f
    <3>4. Q \in Seq(Seq(Nat)) /\ Len(Q) = 1 /\ Q[1] = f /\ Q # <<>>
      BY <3>2, <3>3
    <3>5. L = 0
      BY <2>3 DEF L
    <3>6. ASSUME NEW i \in 1 .. n
          PROVE  ~Ink(t, i)
      <4> SUFFICES ASSUME Ink(t, i)
                   PROVE  FALSE
        OBVIOUS
      <4>1. i <= i
        BY <1>1
      <4>2. PICK k \in 1 .. Len(Pieces) : In(Pieces[k], t, i)
        BY <1>0, <4>1 DEF Ordered
      <4>3. k = L + 1
        <5>1. Len(Pieces) = 1
          BY <1>1, <3>5
        <5> QED
          BY <3>5, <5>1
      <4> QED
        BY <1>1, <1>5, <2>3, <4>2, <4>3
    <3>7. Ordered(t, Q, n) /\ Repeats(t, Q, n)
      BY <3>6 DEF Ordered, Repeats
    <3>8. Sized(Q, n)
      <4>1. \A k \in 1 .. Len(Q) : k = 1
        BY <3>4
      <4>2. Len(f) <= ChunkSize + 1
        BY <3>1, <3>2, ChunkAssumption
      <4> QED
        BY <3>2, <3>4, <4>1, <4>2 DEF Sized
    <3> QED
      BY <2>3, <3>4, <3>7, <3>8
  <2> QED
    BY <2>1, <2>2, <2>3
<1>7. CutTypes'
  <2>1. IsText(wholeText)' <=> IsText(wholeText')
    BY DEF IsText
  <2>2. Len(lines') = 0 /\ lines' \in Seq(Seq(Nat))
    BY <1>0
  <2> QED
    BY <1>0, <1>1, <1>6, <2>1, <2>2 DEF CutTypes, t, Q
<1>8. InkInv'
  <2> SUFFICES ASSUME \A i \in 1 .. Len(wholeText) : Ink(wholeText, i), wholeText # <<>>
               PROVE  /\ Read > 0 => current # <<>>
                      /\ current # <<>> => \E m \in 1 .. Len(current) : current[m] # Blank
                      /\ \A k \in 1 .. Len(chunks') : chunks'[k] # <<>>
    <3>1. (\A i \in 1 .. Len(wholeText') : Ink(wholeText', i)) <=> \A i \in 1 .. Len(wholeText) : Ink(wholeText, i)
      BY <1>0
    <3>2. Read' = Read
      BY <1>3 DEF n
    <3> QED
      BY <1>0, <3>1, <3>2 DEF InkInv, Ink
  <2>1. /\ Read > 0 => current # <<>>
        /\ current # <<>> => \E m \in 1 .. Len(current) : current[m] # Blank
        /\ \A k \in 1 .. Len(chunks) : chunks[k] # <<>>
    BY <1>0 DEF InkInv
  <2>2. Len(t) # 0 /\ t # <<>>
    BY <1>1 DEF t, IsText
  <2>3. Read > 0
    BY <1>1, <1>3, <2>2 DEF n
  <2>4. tr # <<>>
    BY <1>2, <2>1, <2>3
  <2> QED
    BY <1>6, <2>1, <2>4 DEF L, Q
<1> QED
  <2>1. Ordered(wholeText', Pieces', Read') /\ Repeats(wholeText', Pieces', Read') /\ Sized(Pieces', Read')
    BY <1>0, <1>3, <1>6 DEF t, Q
  <2> QED
    BY <1>7, <1>8, <2>1, CutNext

\* The contents of the model are such texts.
LEMMA TextsAreTexts ==
  ASSUME NEW t \in ChunkTexts
  PROVE  IsText(t)
<1> DEFINE widths == UNION {[1 .. k -> BOOLEAN] : k \in 1 .. MaxWidth}
<1>1. PICK w \in UNION {[1 .. n -> widths] : n \in 0 .. MaxLines} :
        t = [i \in DOMAIN w |-> [j \in DOMAIN w[i] |-> IF w[i][j] THEN i ELSE Blank]]
  BY DEF ChunkTexts
<1>2. PICK n \in 0 .. MaxLines : w \in [1 .. n -> widths]
  OBVIOUS
<1>3. DOMAIN w = 1 .. n /\ n \in Nat /\ \A i \in 1 .. n : w[i] \in widths
  BY <1>2, ChunkAssumption
<1>4. ASSUME NEW i \in 1 .. n
      PROVE  /\ t[i] \in Seq(Nat) /\ Len(t[i]) \in 1 .. MaxWidth
             /\ \A j \in 1 .. Len(t[i]) : t[i][j] \in {Blank, i}
  <2>1. PICK k \in 1 .. MaxWidth : w[i] \in [1 .. k -> BOOLEAN]
    BY <1>3
  <2>2. t[i] = [j \in 1 .. k |-> IF w[i][j] THEN i ELSE Blank]
    BY <1>1, <1>3, <2>1
  <2>3. k \in Nat /\ i \in Nat /\ Blank \in Nat
    BY <2>1, ChunkAssumption DEF Blank
  <2>4. t[i] \in [1 .. k -> Nat] /\ \A j \in 1 .. k : t[i][j] \in {Blank, i}
    BY <2>2, <2>3
  <2>5. t[i] \in Seq(Nat) /\ Len(t[i]) = k
    BY <2>3, <2>4, LenProperties, IsASeq
  <2> QED
    BY <2>1, <2>4, <2>5
<1>5. t \in [1 .. n -> Seq(Nat)]
  BY <1>1, <1>3, <1>4
<1>6. t \in Seq(Seq(Nat)) /\ Len(t) = n
  BY <1>3, <1>5, LenProperties, IsASeq
<1> QED
  BY <1>4, <1>6 DEF IsText

\* Before the loop nothing is read.
LEMMA CutStarts ==
  ASSUME ChunkingInit
  PROVE  CutInv
<1>1. /\ IsText(wholeText) /\ lines = wholeText /\ current = <<>> /\ chunks = <<>> /\ chunkPc = "lines"
  BY TextsAreTexts DEF ChunkingInit
<1>2. wholeText \in Seq(Seq(Nat)) /\ Len(wholeText) \in Nat
  BY <1>1 DEF IsText
<1>3. Read = 0
  BY <1>1, <1>2 DEF Read
<1>4. Pieces = <<<<>>>>
  BY <1>1 DEF Pieces
<1>5. CutTypes
  BY <1>1, <1>2, <1>3 DEF CutTypes
<1>6. InkInv
  BY <1>1, <1>3 DEF InkInv
<1>7. Ordered(wholeText, Pieces, Read) /\ Repeats(wholeText, Pieces, Read)
  BY <1>3 DEF Ordered, Repeats
<1>8. Sized(Pieces, Read)
  <2>1. Len(Pieces) = 1 /\ Pieces[1] = <<>>
    BY <1>4
  <2>2. \A k \in 1 .. Len(Pieces) : Pieces[k] = <<>>
    BY <2>1
  <2> QED
    BY <2>2, ChunkAssumption DEF Sized
<1> QED
  BY <1>5, <1>6, <1>7, <1>8 DEF CutInv

\* A step that is none.
LEMMA CutStutters ==
  ASSUME CutInv, UNCHANGED chunkVars
  PROVE  CutInv'
<1>1. wholeText' = wholeText /\ lines' = lines /\ current' = current /\ chunks' = chunks /\ chunkPc' = chunkPc
  BY DEF chunkVars
<1>2. Pieces' = Pieces /\ Read' = Read
  BY <1>1 DEF Pieces, Read
<1>3. CutTypes'
  BY <1>1, <1>2 DEF CutInv, CutTypes, IsText
<1>4. InkInv'
  BY <1>1, <1>2 DEF CutInv, InkInv, Ink
<1>5. Ordered(wholeText', Pieces', Read') /\ Repeats(wholeText', Pieces', Read') /\ Sized(Pieces', Read')
  BY <1>1, <1>2 DEF CutInv
<1> QED
  BY <1>3, <1>4, <1>5, CutNext

\* The invariant at the end of the loop says what the chunks are.
LEMMA CutImplies ==
  ASSUME CutInv
  PROVE  ChunksHoldTheText
<1> SUFFICES ASSUME chunkPc = "stored"
             PROVE  ChunksHoldTheText
  BY DEF ChunksHoldTheText
<1>1. /\ IsText(wholeText) /\ chunks \in Seq(Seq(Nat)) /\ chunks # <<>> /\ lines = <<>>
      /\ InkInv /\ Ordered(wholeText, Pieces, Read) /\ Repeats(wholeText, Pieces, Read) /\ Sized(Pieces, Read)
  BY DEF CutInv, CutTypes
<1>2. /\ wholeText \in Seq(Seq(Nat)) /\ Len(wholeText) \in Nat /\ Len(chunks) \in Nat
      /\ DOMAIN wholeText = 1 .. Len(wholeText) /\ DOMAIN chunks = 1 .. Len(chunks)
  BY <1>1 DEF IsText
<1>3. Pieces = chunks /\ Read = Len(wholeText)
  BY <1>1, <1>2 DEF Pieces, Read
<1> DEFINE n == Len(wholeText)
           inked == {i \in DOMAIN wholeText : Text(wholeText, i) # <<>>}
           homes(i) == {k \in DOMAIN chunks : In(chunks[k], wholeText, i)}
<1>4. ASSUME NEW i \in inked
      PROVE  i \in 1 .. n /\ Ink(wholeText, i) /\ i <= i
  BY <1>2 DEF Ink
<1>5. ASSUME NEW i \in inked, NEW j \in inked, i <= j
      PROVE  \E k \in homes(i), l \in homes(j) : k <= l
  <2>1. i \in 1 .. n /\ j \in 1 .. n /\ Ink(wholeText, i) /\ Ink(wholeText, j)
    BY <1>4
  <2>2. \E k, l \in 1 .. Len(chunks) : k <= l /\ In(chunks[k], wholeText, i) /\ In(chunks[l], wholeText, j)
    BY <1>1, <1>3, <1>5, <2>1 DEF Ordered
  <2> QED
    BY <1>2, <2>2
<1>6. \A i \in inked : homes(i) # {}
  BY <1>4, <1>5
<1>7. \A i, j \in inked : i < j => \E k \in homes(i), l \in homes(j) : k <= l
  <2>1. \A i, j \in inked : i < j => i <= j
    BY <1>2
  <2> QED
    BY <1>5, <2>1
<1>8. ASSUME NEW i \in inked, NEW k \in DOMAIN chunks, k + 1 \in DOMAIN chunks, In(chunks[k], wholeText, i)
      PROVE  Count(chunks[k + 1], {i}) <= Overlap
  <2>1. i \in 1 .. n /\ k \in 1 .. Len(chunks) /\ k < Len(chunks) /\ Ink(wholeText, i)
    BY <1>2, <1>4, <1>8
  <2> QED
    BY <1>1, <1>3, <1>8, <2>1 DEF Repeats
<1>9. ASSUME NEW k \in DOMAIN chunks
      PROVE  Len(chunks[k]) <= ChunkSize + 1 \/ Len(chunks[k]) <= Overlap + 1 + MaxWidth
  BY <1>1, <1>2, <1>3 DEF Sized
<1>10. ASSUME NEW k \in DOMAIN chunks, chunks[k] = <<>>
       PROVE  inked # DOMAIN wholeText \/ wholeText = <<>>
  <2> SUFFICES ASSUME inked = DOMAIN wholeText, wholeText # <<>>
               PROVE  FALSE
    OBVIOUS
  <2>1. \A i \in 1 .. n : Ink(wholeText, i)
    BY <1>2, <1>4
  <2> QED
    BY <1>1, <1>2, <1>10, <2>1 DEF InkInv
<1>11. ASSUME NEW i \in inked, NEW k \in DOMAIN chunks, k + 1 \in DOMAIN chunks, In(chunks[k], wholeText, i)
       PROVE  Cardinality({j \in DOMAIN chunks[k + 1] : chunks[k + 1][j] = i}) <= Overlap
  <2>1. {j \in DOMAIN chunks[k + 1] : chunks[k + 1][j] = i} = {j \in DOMAIN chunks[k + 1] : chunks[k + 1][j] \in {i}}
    OBVIOUS
  <2> QED
    BY <1>8, <1>11, <2>1 DEF Count
<1>12. /\ chunks # <<>>
       /\ \A i \in inked : homes(i) # {}
       /\ \A i, j \in inked : i < j =>
            \E k \in homes(i), l \in homes(j) : k <= l
       /\ \A i \in inked, k \in DOMAIN chunks :
            k + 1 \in DOMAIN chunks /\ In(chunks[k], wholeText, i) =>
              Cardinality({j \in DOMAIN chunks[k + 1] : chunks[k + 1][j] = i}) <= Overlap
       /\ \A k \in DOMAIN chunks :
            /\ Len(chunks[k]) <= ChunkSize + 1 \/ Len(chunks[k]) <= Overlap + 1 + MaxWidth
            /\ chunks[k] = <<>> => inked # DOMAIN wholeText \/ wholeText = <<>>
  <2> HIDE DEF inked, homes
  <2> QED
    BY <1>1, <1>6, <1>7, <1>9, <1>10, <1>11
<1> QED
  BY <1>12, Zenon DEF ChunksHoldTheText, In, Text

\* Whatever the lines, and whatever ChunkSize and the Overlap below it, the chunks of
\* chunkDocument hold each line of text whole but for the white space around it, in order
\* and within the limits.
THEOREM TextIsChunked == ChunkingSpec => []ChunksHoldTheText
<1>1. ChunkingInit => CutInv
  BY CutStarts
<1>2. CutInv /\ [ChunkingNext]_chunkVars => CutInv'
  <2> SUFFICES ASSUME CutInv, [ChunkingNext]_chunkVars
               PROVE  CutInv'
    OBVIOUS
  <2>1. CASE TakeLine
    BY <2>1, TakeLineKeeps
  <2>2. CASE LastChunk
    BY <2>2, LastChunkKeeps
  <2>3. CASE UNCHANGED chunkVars
    BY <2>3, CutStutters
  <2> QED
    BY <2>1, <2>2, <2>3 DEF ChunkingNext
<1>3. CutInv => ChunksHoldTheText
  BY CutImplies
<1> QED
  BY <1>1, <1>2, <1>3, PTL DEF ChunkingSpec

===============================================================================
