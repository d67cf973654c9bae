---------------------------- MODULE TransferProofs ----------------------------
(***************************************************************************)
(* Proofs about Wire and Transfer: what is parsed of the bytes that        *)
(* serializing or saving a message wrote, for every schema, every          *)
(* collection of messages of any depth, and every order of field numbers.  *)
(***************************************************************************)
EXTENDS Transfer, RoundTripProofs

(***************************************************************************)
(* Sequences one after the other: item k of sequence i is item offset[i-1] *)
(* + k of the result.                                                      *)
(***************************************************************************)
Offsets(seqs, n, offset) ==
    /\ offset[0] = 0 /\ \A i \in 0 .. n : offset[i] \in Nat
    /\ \A i \in 1 .. n : offset[i] = offset[i - 1] + Len(seqs[i])
Places(seqs, n, offset, s) ==
    /\ Len(s) = offset[n]
    /\ \A i \in 1 .. n : \A k \in 1 .. Len(seqs[i]) :
          offset[i - 1] + k \in 1 .. offset[n] /\ s[offset[i - 1] + k] = seqs[i][k]
    /\ \A c \in 1 .. offset[n] :
          \E i \in 1 .. n : \E k \in 1 .. Len(seqs[i]) : c = offset[i - 1] + k
IsConcat(seqs, n, offset, s) ==
    Offsets(seqs, n, offset) /\ Places(seqs, n, offset, s)

Flattened(seqs, n, g) ==
    g = [i \in 1 .. n |-> IF i = 1 THEN seqs[i] ELSE g[i - 1] \o seqs[i]]

LEMMA FlattenedExists ==
    ASSUME NEW seqs, NEW n \in Nat
    PROVE  \E g : Flattened(seqs, n, g)
<1> DEFINE T == {i \in Nat : \E g : Flattened(seqs, i, g)}
<1>1. 0 \in T
  <2> DEFINE g == [i \in 1 .. 0 |-> seqs[i]]
  <2>1. Flattened(seqs, 0, g)
    BY DEF Flattened
  <2> QED
    BY <2>1
<1>2. ASSUME NEW j \in Nat, j \in T PROVE j + 1 \in T
  <2>1. PICK g : Flattened(seqs, j, g)
    BY <1>2
  <2>2. DOMAIN g = 1 .. j /\ \A i \in 1 .. j :
           g[i] = IF i = 1 THEN seqs[i] ELSE g[i - 1] \o seqs[i]
    BY <2>1 DEF Flattened
  <2> DEFINE next == IF j = 0 THEN seqs[1] ELSE g[j] \o seqs[j + 1]
             h == [i \in 1 .. j + 1 |-> IF i = j + 1 THEN next ELSE g[i]]
  <2>3. ASSUME NEW i \in 1 .. j + 1
        PROVE  h[i] = IF i = 1 THEN seqs[i] ELSE h[i - 1] \o seqs[i]
    <3>1. CASE i = j + 1
      <4>1. j = 0 => i = 1
        BY <3>1
      <4>2. j # 0 => i # 1 /\ i - 1 = j /\ j \in 1 .. j + 1 /\ j # j + 1
        BY <3>1
      <4>3. j # 0 => h[i - 1] = g[j]
        BY <4>2
      <4>4. h[i] = next
        BY <3>1
      <4> HIDE DEF h
      <4> QED
        BY <3>1, <4>1, <4>2, <4>3, <4>4
    <3>2. CASE i # j + 1
      <4>1. i \in 1 .. j
        BY <3>2
      <4>2. i # 1 => i - 1 \in 1 .. j + 1 /\ i - 1 # j + 1
        BY <4>1
      <4>3. h[i] = g[i] /\ (i # 1 => h[i - 1] = g[i - 1])
        BY <3>2, <4>1, <4>2
      <4> HIDE DEF h
      <4> QED
        BY <2>2, <4>1, <4>3
    <3> QED
      BY <3>1, <3>2
  <2>4. h = [i \in 1 .. j + 1 |-> h[i]]
    OBVIOUS
  <2> HIDE DEF h
  <2>5. Flattened(seqs, j + 1, h)
    BY <2>3, <2>4 DEF Flattened
  <2> QED
    BY <2>5
<1> HIDE DEF T
<1>3. Nat \subseteq T
  BY <1>1, <1>2, Induction
<1> QED
  BY <1>3 DEF T

(* One more sequence. *)
LEMMA OneMore ==
    ASSUME NEW S, NEW n \in Nat, NEW seqs, \A i \in 1 .. n + 1 : seqs[i] \in Seq(S),
           NEW offset, Offsets(seqs, n + 1, offset),
           NEW s \in Seq(S), Places(seqs, n, offset, s)
    PROVE  Places(seqs, n + 1, offset, s \o seqs[n + 1]) /\ s \o seqs[n + 1] \in Seq(S)
<1> DEFINE t == seqs[n + 1]
           l == offset[n]
           u == s \o t
<1>1. n + 1 \in 1 .. n + 1 /\ n \in 0 .. n + 1 /\ (n + 1) - 1 = n
  OBVIOUS
<1>2. t \in Seq(S) /\ Len(t) \in Nat /\ l \in Nat /\ Len(s) = l /\ offset[n + 1] = l + Len(t)
  BY <1>1 DEF Offsets, Places
<1>3. /\ u \in Seq(S) /\ Len(u) = l + Len(t)
      /\ \A c \in 1 .. l + Len(t) : u[c] = IF c <= l THEN s[c] ELSE t[c - l]
  <2>1. /\ s \o t \in Seq(S) /\ Len(s \o t) = Len(s) + Len(t)
        /\ \A c \in 1 .. Len(s) + Len(t) : (s \o t)[c] = IF c <= Len(s) THEN s[c] ELSE t[c - Len(s)]
    <3> HIDE DEF t
    <3> QED
      BY <1>2, ConcatProperties
  <2> HIDE DEF t, l
  <2> QED
    BY <1>2, <2>1
<1>4. /\ \A c \in 1 .. l : u[c] = s[c]
      /\ \A k \in 1 .. Len(t) : u[l + k] = t[k] /\ l + k \in 1 .. l + Len(t)
  <2> HIDE DEF t, l, u
  <2> QED
    BY <1>2, <1>3
<1> HIDE DEF t, l, u
<1>5. ASSUME NEW i \in 1 .. n + 1, NEW k \in 1 .. Len(seqs[i])
      PROVE  offset[i - 1] + k \in 1 .. l + Len(t) /\ u[offset[i - 1] + k] = seqs[i][k]
  <2>1. CASE i = n + 1
    BY <1>1, <1>4, <2>1 DEF t, l
  <2>2. CASE i # n + 1
    <3>1. i \in 1 .. n
      BY <2>2
    <3>2. offset[i - 1] + k \in 1 .. l /\ s[offset[i - 1] + k] = seqs[i][k]
      BY <3>1 DEF Places, l
    <3> QED
      BY <1>2, <1>4, <3>2
  <2> QED
    BY <2>1, <2>2
<1>6. ASSUME NEW c \in 1 .. l + Len(t)
      PROVE  \E i \in 1 .. n + 1 : \E k \in 1 .. Len(seqs[i]) : c = offset[i - 1] + k
  <2>1. CASE c \in 1 .. l
    <3>1. PICK i \in 1 .. n : \E k \in 1 .. Len(seqs[i]) : c = offset[i - 1] + k
      BY <2>1 DEF Places, l
    <3>2. i \in 1 .. n + 1
      OBVIOUS
    <3> QED
      BY <3>1, <3>2
  <2>2. CASE c \notin 1 .. l
    <3>1. c - l \in 1 .. Len(t) /\ c = l + (c - l)
      BY <1>2, <2>2
    <3>2. \E k \in 1 .. Len(seqs[n + 1]) : c = offset[(n + 1) - 1] + k
      BY <1>1, <3>1 DEF t, l
    <3> QED
      BY <1>1, <3>2
  <2> QED
    BY <2>1, <2>2
<1>7. Places(seqs, n + 1, offset, u)
  BY <1>2, <1>3, <1>5, <1>6 DEF Places
<1> QED
  BY <1>3, <1>7 DEF u, t

LEMMA Flattens ==
    ASSUME NEW S, NEW seqs \in Seq(Seq(S))
    PROVE  \E offset : /\ IsConcat(seqs, Len(seqs), offset, FlattenSeq(seqs))
                       /\ FlattenSeq(seqs) \in Seq(S)
<1> DEFINE n == Len(seqs)
           flat == FlattenSeq(seqs)
           g == CHOOSE g : Flattened(seqs, n, g)
           offset == [i \in 0 .. n |-> IF i = 0 THEN 0 ELSE Len(g[i])]
<1>1. n \in Nat /\ \A i \in 1 .. n : seqs[i] \in Seq(S) /\ Len(seqs[i]) \in Nat
  OBVIOUS
<1>2. CASE n = 0
  <2>1. flat = seqs /\ Len(seqs) = 0 /\ seqs \in Seq(S)
    BY <1>2, EmptySeq DEF FlattenSeq
  <2>2. offset[0] = 0 /\ \A i \in 0 .. n : offset[i] \in Nat
    BY <1>2
  <2> HIDE DEF offset, flat
  <2>3. IsConcat(seqs, n, offset, flat)
    BY <1>2, <2>1, <2>2 DEF IsConcat, Offsets, Places
  <2> QED
    BY <2>1, <2>3 DEF flat
<1>3. CASE n # 0
  <2>1. Flattened(seqs, n, g)
    BY <1>1, FlattenedExists
  <2>2. flat = g[n]
    BY <1>3, Zenon DEF FlattenSeq, Flattened
  <2> HIDE DEF g, flat
  <2>3. \A i \in 1 .. n : g[i] = IF i = 1 THEN seqs[i] ELSE g[i - 1] \o seqs[i]
    BY <2>1 DEF Flattened
  <2> DEFINE T == {j \in Nat : j + 1 \in 1 .. n => g[j + 1] \in Seq(S)}
  <2>4. 0 \in T
    <3>1. 0 + 1 \in 1 .. n => g[0 + 1] = seqs[0 + 1] /\ seqs[0 + 1] \in Seq(S)
      BY <1>1, <2>3
    <3> QED
      BY <3>1
  <2>5. ASSUME NEW j \in Nat, j \in T PROVE j + 1 \in T
    <3>1. ASSUME (j + 1) + 1 \in 1 .. n PROVE g[(j + 1) + 1] \in Seq(S)
      <4>1. /\ j + 1 \in 1 .. n /\ ((j + 1) + 1) - 1 = j + 1 /\ (j + 1) + 1 # 1
        BY <1>1, <3>1
      <4>2. g[j + 1] \in Seq(S) /\ seqs[(j + 1) + 1] \in Seq(S)
        BY <1>1, <2>5, <3>1, <4>1
      <4>3. g[(j + 1) + 1] = g[j + 1] \o seqs[(j + 1) + 1]
        BY <2>3, <3>1, <4>1
      <4> QED
        BY <4>2, <4>3, ConcatProperties
    <3> QED
      BY <3>1
  <2> HIDE DEF T
  <2>6. Nat \subseteq T
    BY <2>4, <2>5, Induction
  <2>7. ASSUME NEW i \in 1 .. n PROVE g[i] \in Seq(S) /\ Len(g[i]) \in Nat
    <3>1. i - 1 \in Nat /\ (i - 1) + 1 = i
      OBVIOUS
    <3>2. g[i] \in Seq(S)
      BY <2>6, <3>1 DEF T
    <3> QED
      BY <3>2
  <2>8. Offsets(seqs, n, offset)
    <3>1. offset[0] = 0 /\ \A i \in 0 .. n : offset[i] \in Nat
      BY <1>1, <2>7
    <3>2. ASSUME NEW i \in 1 .. n PROVE offset[i] = offset[i - 1] + Len(seqs[i])
      <4>1. i - 1 \in 0 .. n /\ i \in 0 .. n /\ i # 0
        BY <1>1
      <4>2. CASE i = 1
        BY <1>1, <2>3, <4>1, <4>2
      <4>3. CASE i # 1
        <5>1. i - 1 \in 1 .. n /\ g[i - 1] \in Seq(S) /\ seqs[i] \in Seq(S)
          BY <1>1, <2>7, <4>3
        <5>2. g[i] = g[i - 1] \o seqs[i]
          BY <2>3, <4>3
        <5>3. Len(g[i]) = Len(g[i - 1]) + Len(seqs[i])
          BY <5>1, <5>2, ConcatProperties
        <5>4. offset[i] = Len(g[i]) /\ offset[i - 1] = Len(g[i - 1])
          BY <4>1, <5>1
        <5> HIDE DEF offset
        <5> QED
          BY <5>3, <5>4
      <4> QED
        BY <4>2, <4>3
    <3> HIDE DEF offset
    <3> QED
      BY <3>1, <3>2 DEF Offsets
  <2>9. \A j \in 1 .. n : offset[j] = Len(g[j])
    BY <1>1
  <2> HIDE DEF offset
  <2> DEFINE U == {j \in Nat : j + 1 \in 1 .. n => Places(seqs, j + 1, offset, g[j + 1])}
  <2>10. 0 \in U
    <3>1. ASSUME 1 \in 1 .. n PROVE Places(seqs, 1, offset, g[1])
      <4>1. g[1] = seqs[1] /\ Len(g[1]) = offset[1] /\ offset[0] = 0
        BY <2>3, <2>8, <2>9, <3>1 DEF Offsets
      <4>2. \A i \in 1 .. 1 : i = 1 /\ i - 1 = 0
        OBVIOUS
      <4>3. ASSUME NEW i \in 1 .. 1, NEW k \in 1 .. Len(seqs[i])
            PROVE  offset[i - 1] + k \in 1 .. offset[1] /\ g[1][offset[i - 1] + k] = seqs[i][k]
        BY <1>1, <3>1, <4>1, <4>2
      <4>4. ASSUME NEW c \in 1 .. offset[1]
            PROVE  \E i \in 1 .. 1 : \E k \in 1 .. Len(seqs[i]) : c = offset[i - 1] + k
        <5>1. c \in 1 .. Len(seqs[1]) /\ c = offset[1 - 1] + c
          BY <4>1
        <5> QED
          BY <5>1
      <4> QED
        BY <4>1, <4>3, <4>4 DEF Places
    <3> QED
      BY <3>1
  <2>11. ASSUME NEW j \in Nat, j \in U PROVE j + 1 \in U
    <3>1. ASSUME (j + 1) + 1 \in 1 .. n PROVE Places(seqs, (j + 1) + 1, offset, g[(j + 1) + 1])
      <4> DEFINE l == j + 1
      <4>1. /\ l \in 1 .. n /\ l \in Nat /\ (l + 1) - 1 = l /\ l + 1 # 1 /\ l + 1 \in 1 .. n
        BY <1>1, <3>1
      <4>2. Places(seqs, l, offset, g[l])
        BY <2>11, <4>1
      <4> HIDE DEF l
      <4>3. g[l + 1] = g[l] \o seqs[l + 1] /\ g[l] \in Seq(S)
        BY <2>3, <2>7, <4>1
      <4>4. Offsets(seqs, l + 1, offset) /\ \A i \in 1 .. l + 1 : seqs[i] \in Seq(S)
        BY <1>1, <2>8, <4>1 DEF Offsets
      <4>5. Places(seqs, l + 1, offset, g[l] \o seqs[l + 1])
        BY <4>1, <4>2, <4>3, <4>4, OneMore
      <4> QED
        BY <4>3, <4>5 DEF l
    <3> QED
      BY <3>1
  <2> HIDE DEF U
  <2>12. Nat \subseteq U
    BY <2>10, <2>11, Induction
  <2>13. Places(seqs, n, offset, g[n])
    <3>1. n - 1 \in Nat /\ (n - 1) + 1 = n /\ n \in 1 .. n
      BY <1>1, <1>3
    <3> QED
      BY <2>12, <3>1 DEF U
  <2>14. flat \in Seq(S)
    BY <1>1, <1>3, <2>2, <2>7
  <2>15. IsConcat(seqs, n, offset, flat)
    BY <2>2, <2>8, <2>13 DEF IsConcat
  <2> QED
    BY <2>14, <2>15 DEF flat
<1> QED
  BY <1>2, <1>3
----------------------------------------------------------------------------
(* Wire.  The order of the records: every field once.  *)
EachOnce(ty, b) ==
    /\ Len(b) \in Nat /\ DOMAIN b = 1 .. Len(b)
    /\ \A i \in 1 .. Len(b) : b[i] \in ToSet(Fields(ty)) /\ IsField(b[i])
    /\ \A i, j \in 1 .. Len(b) : b[i].name = b[j].name => i = j
    /\ \A f \in ToSet(Fields(ty)) : \E i \in 1 .. Len(b) : b[i] = f

LEMMA EveryFieldByNumber ==
    ASSUME NEW ty \in Types
    PROVE  EachOnce(ty, ByNumber(ty))
<1> DEFINE D == ToSet(Fields(ty))
           n == Len(Fields(ty))
           upTo(f) == {g \in D : g.num <= f.num}
           rank == [f \in D |-> Cardinality(upTo(f))]
           b == ByNumber(ty)
<1>1. /\ n \in Nat /\ DOMAIN Fields(ty) = 1 .. n
      /\ \A i \in 1 .. n : Fields(ty)[i] \in D
      /\ \A f \in D : \E i \in 1 .. n : f = Fields(ty)[i]
      /\ \A i, j \in 1 .. n : Fields(ty)[i].name = Fields(ty)[j].name => i = j
  BY FieldsOf
<1>2. \A f \in D : IsField(f)
  BY FieldsOf
<1>3. \A f, g \in D : f.num \in Nat /\ (f.num = g.num => f = g)
  BY WireAssumption
<1>4. \A f, g \in D : f.name = g.name => f = g
  BY <1>1
<1> HIDE DEF D, n
<1>5. IsFiniteSet(D) /\ Cardinality(D) = n
  <2> DEFINE a == [i \in 1 .. n |-> Fields(ty)[i]]
  <2>1. a \in Bijection(1 .. n, D)
    <3>1. a \in [1 .. n -> D]
      BY <1>1
    <3>2. \A i, j \in 1 .. n : a[i] = a[j] => i = j
      BY <1>1
    <3>3. \A f \in D : \E i \in 1 .. n : a[i] = f
      BY <1>1
    <3> QED
      BY <3>1, <3>2, <3>3 DEF Bijection, Injection, Surjection, IsInjective
  <2>2. ExistsBijection(1 .. n, D)
    BY <2>1 DEF ExistsBijection
  <2>3. IsFiniteSet(1 .. n) /\ Cardinality(1 .. n) = n
    BY <1>1, FS_Interval
  <2> QED
    BY <2>2, <2>3, FS_Bijection
<1>6. ASSUME NEW f \in D
      PROVE  f \in upTo(f) /\ IsFiniteSet(upTo(f)) /\ Cardinality(upTo(f)) \in 1 .. n
  <2>1. f \in upTo(f) /\ upTo(f) \in SUBSET D
    BY <1>3
  <2> HIDE DEF upTo
  <2>2. IsFiniteSet(upTo(f)) /\ Cardinality(upTo(f)) <= n
    BY <1>5, <2>1, FS_Subset
  <2>3. Cardinality(upTo(f)) \in Nat /\ Cardinality(upTo(f)) # 0
    BY <2>1, <2>2, FS_CardinalityType, FS_EmptySet
  <2> QED
    BY <1>1, <2>1, <2>2, <2>3
<1>7. ASSUME NEW f \in D, NEW g \in D, f.num < g.num
      PROVE  Cardinality(upTo(f)) # Cardinality(upTo(g))
  <2>1. upTo(f) \in SUBSET upTo(g) /\ g \in upTo(g) /\ g \notin upTo(f)
    BY <1>3, <1>7
  <2>2. IsFiniteSet(upTo(g))
    BY <1>6
  <2> HIDE DEF upTo
  <2> QED
    BY <2>1, <2>2, FS_Subset
<1>8. rank \in Injection(D, 1 .. n)
  <2>1. rank \in [D -> 1 .. n]
    BY <1>6
  <2>2. ASSUME NEW f \in D, NEW g \in D, rank[f] = rank[g] PROVE f = g
    <3>1. Cardinality(upTo(f)) = Cardinality(upTo(g))
      BY <2>2
    <3> HIDE DEF upTo, rank
    <3>2. ~(f.num < g.num) /\ ~(g.num < f.num)
      BY <1>7, <3>1
    <3> QED
      BY <1>3, <3>2
  <2> HIDE DEF rank
  <2> QED
    BY <2>1, <2>2 DEF Injection, IsInjective
<1>9. \A i \in 1 .. n : \E f \in D : Cardinality(upTo(f)) = i
  <2>1. IsFiniteSet(1 .. n) /\ Cardinality(1 .. n) = n
    BY <1>1, FS_Interval
  <2>2. rank \in Surjection(D, 1 .. n)
    <3> HIDE DEF rank
    <3> QED
      BY <1>5, <1>8, <2>1, FS_Injection
  <2>3. \A i \in 1 .. n : \E f \in D : rank[f] = i
    <3> HIDE DEF rank
    <3> QED
      BY <2>2 DEF Surjection
  <2> QED
    BY <2>3
<1>10. b = [i \in 1 .. n |-> CHOOSE f \in D : Cardinality(upTo(f)) = i]
  BY <1>1, Zenon DEF ByNumber, Rank, D
<1> HIDE DEF b
<1>11. \A i \in 1 .. n : b[i] \in D /\ Cardinality(upTo(b[i])) = i
  <2> HIDE DEF upTo
  <2> QED
    BY <1>9, <1>10
<1>12. DOMAIN b = 1 .. n /\ Len(b) = n
  <2>1. DOMAIN b = 1 .. n
    BY <1>10
  <2>2. \A i \in 1 .. n : b[i] \in D
    BY <1>11
  <2>3. b \in [1 .. n -> D]
    <3> HIDE DEF upTo
    <3> QED
      BY <1>10, <2>2, Zenon
  <2>4. b \in Seq(D)
    <3> HIDE DEF upTo
    <3> QED
      BY <1>1, <2>3
  <2> QED
    BY <1>1, <2>1, <2>4
<1>13. \A i, j \in 1 .. n : b[i].name = b[j].name => i = j
  <2>1. \A i, j \in 1 .. n : b[i].name = b[j].name => b[i] = b[j]
    BY <1>4, <1>11
  <2> HIDE DEF upTo
  <2> QED
    BY <1>11, <2>1
<1>14. \A f \in D : \E i \in 1 .. n : b[i] = f
  <2>1. ASSUME NEW f \in D PROVE \E i \in 1 .. n : b[i] = f
    <3> DEFINE i == Cardinality(upTo(f))
    <3>1. i \in 1 .. n
      BY <1>6
    <3>2. b[i] \in D /\ Cardinality(upTo(b[i])) = i
      BY <1>11, <3>1
    <3>3. rank[b[i]] = rank[f]
      BY <3>2
    <3> HIDE DEF i, rank
    <3>4. b[i] = f
      BY <1>8, <3>2, <3>3 DEF Injection, IsInjective
    <3> QED
      BY <3>1, <3>4
  <2> QED
    BY <2>1
<1>15. \A i \in 1 .. n : IsField(b[i])
  BY <1>2, <1>11
<1>16. EachOnce(ty, b)
  BY <1>1, <1>11, <1>12, <1>13, <1>14, <1>15, Zenon DEF EachOnce, D
<1> QED
  BY <1>16 DEF b
----------------------------------------------------------------------------
(* The records of a field: what it has after each of them, if its           *)
(* sub-messages are merged back as they were written.                       *)
SubsComeBack(f, v) ==
    \A s \in Subs(f, v) :
        MergeSub(Element(f).msg, NewMessage(Element(f).msg), RecordsSub(Element(f).msg, s)) = s
Adds(f, v, recs, part) ==
    /\ part[0] = Default(f) /\ part[Len(recs)] = v
    /\ \A k \in 1 .. Len(recs) : part[k] = Decode(f, part[k - 1], recs[k].val[2])
    /\ \A k \in 0 .. Len(recs) : PartOf(f, part[k], v)
AddsUp(f, v, recs) ==
    /\ recs \in Seq(ToSet(recs)) /\ \A r \in ToSet(recs) : r.num = f.num
    /\ \E part : Adds(f, v, recs, part)

LEMMA RecordIs ==
    ASSUME NEW f, NEW w
    PROVE  Record(f, w).num = f.num /\ Record(f, w).val[2] = w
  BY DEF Record

LEMMA FunctionIsList ==
    ASSUME NEW n \in Nat, NEW s, s = [i \in 1 .. n |-> s[i]]
    PROVE  s \in Seq(ToSet(s)) /\ Len(s) = n /\ DOMAIN s = 1 .. n
<1>1. DOMAIN s = 1 .. n
  OBVIOUS
<1>2. s \in [1 .. n -> ToSet(s)]
  BY <1>1 DEF ToSet
<1>3. s \in Seq(ToSet(s))
  BY <1>2
<1> QED
  BY <1>1, <1>3

(* A field that has its default value has no record. *)
LEMMA DefaultAddsUp ==
    ASSUME NEW f, IsField(f), NEW v, v = Default(f)
    PROVE  AddsUp(f, v, FieldRecords(f, v))
<1> DEFINE recs == FieldRecords(f, v)
           part == [k \in 0 .. 0 |-> v]
<1>1. recs = <<>>
  BY Zenon DEF FieldRecords
<1>2. recs \in Seq(ToSet(recs)) /\ Len(recs) = 0 /\ ToSet(recs) = {}
  BY <1>1, EmptySeq DEF ToSet
<1>3. PartOf(f, v, v)
  <2>1. CASE f.label = "repeated"
    <3>1. v = <<>>
      BY <2>1 DEF Default
    <3> QED
      BY <2>1, <3>1 DEF PartOf, IsPrefix
  <2>2. CASE f.label = "map"
    BY <2>2 DEF PartOf
  <2>3. CASE f.label = "singular"
    BY <2>3 DEF PartOf
  <2> QED
    BY <2>1, <2>2, <2>3 DEF IsField
<1>4. part[0] = v /\ \A k \in 0 .. 0 : part[k] = v
  OBVIOUS
<1> HIDE DEF recs, part
<1>5. Adds(f, v, recs, part)
  BY <1>2, <1>3, <1>4 DEF Adds
<1> QED
  BY <1>2, <1>5 DEF AddsUp, recs

(* A map has a record for each key. *)
LEMMA MapRecords ==
    ASSUME NEW f, f.label = "map", NEW v, IsValue(f, v),
           NEW order, order = SetToSeq(DOMAIN v), NEW n, n = Cardinality(DOMAIN v)
    PROVE  /\ FieldRecords(f, v) =
                 [k \in 1 .. n |->
                     Record(f, [key |-> order[k], value |-> Encode(f.value, v[order[k]])])]
           /\ n \in Nat /\ \A k \in 1 .. n : order[k] \in DOMAIN v
           /\ \A i, j \in 1 .. n : order[i] = order[j] => i = j
           /\ \A x \in DOMAIN v : \E k \in 1 .. n : order[k] = x
<1> DEFINE item(x) == Record(f, [key |-> x, value |-> Encode(f.value, v[x])])
           recs == [k \in 1 .. n |-> item(order[k])]
<1>1. IsFiniteSet(DOMAIN v) /\ v = [x \in DOMAIN v |-> v[x]]
  BY DEF IsValue
<1>2. /\ n \in Nat /\ order \in [1 .. n -> DOMAIN v]
      /\ \A i, j \in 1 .. n : order[i] = order[j] => i = j
      /\ \A x \in DOMAIN v : \E i \in 1 .. n : order[i] = x
  BY <1>1, OrderOfKeys
<1>3. CASE v = Default(f)
  <2>1. v = [x \in {} |-> Unset]
    BY <1>3 DEF Default
  <2>2. DOMAIN v = {}
    BY <2>1
  <2>3. n = 0
    BY <2>2, FS_EmptySet
  <2>4. recs = <<>>
    BY <2>3
  <2>5. FieldRecords(f, v) = <<>>
    BY <1>3, Zenon DEF FieldRecords
  <2> QED
    BY <1>2, <2>4, <2>5
<1>4. CASE v # Default(f)
  <2>1. DOMAIN order = 1 .. n
    BY <1>2
  <2>2. FieldRecords(f, v) = Map(order, item)
    BY <1>4, Zenon DEF FieldRecords
  <2>3. Map(order, item) = recs
    BY <2>1, Zenon DEF Map
  <2> QED
    BY <1>2, <2>2, <2>3
<1> QED
  BY <1>3, <1>4

LEMMA MapAddsUp ==
    ASSUME NEW f, f.label = "map", NEW v, IsValue(f, v), SubsComeBack(f, v)
    PROVE  AddsUp(f, v, FieldRecords(f, v))
<1> DEFINE order == SetToSeq(DOMAIN v)
           n == Cardinality(DOMAIN v)
           recs == FieldRecords(f, v)
           keys(k) == {order[i] : i \in 1 .. k}
           part == [k \in 0 .. n |-> [x \in keys(k) |-> v[x]]]
<1>1. /\ recs = [k \in 1 .. n |->
                     Record(f, [key |-> order[k], value |-> Encode(f.value, v[order[k]])])]
      /\ n \in Nat /\ \A k \in 1 .. n : order[k] \in DOMAIN v
      /\ \A i, j \in 1 .. n : order[i] = order[j] => i = j
      /\ \A x \in DOMAIN v : \E k \in 1 .. n : order[k] = x
  BY MapRecords
<1> HIDE DEF order, n, recs
<1>2. recs \in Seq(ToSet(recs)) /\ Len(recs) = n /\ DOMAIN recs = 1 .. n
  <2>1. recs = [k \in 1 .. n |-> recs[k]]
    BY <1>1
  <2> QED
    BY <1>1, <2>1, FunctionIsList
<1>3. \A k \in 1 .. n :
         recs[k] = Record(f, [key |-> order[k], value |-> Encode(f.value, v[order[k]])])
  BY <1>1
<1>4. ASSUME NEW r \in ToSet(recs) PROVE r.num = f.num
  <2>1. PICK k \in 1 .. n : r = recs[k]
    BY <1>2 DEF ToSet
  <2> DEFINE w == [key |-> order[k], value |-> Encode(f.value, v[order[k]])]
  <2>2. r = Record(f, w)
    BY <1>3, <2>1
  <2> HIDE DEF w
  <2> QED
    BY <2>2, RecordIs
<1>5. v = [x \in DOMAIN v |-> v[x]]
  BY DEF IsValue
<1>6. part[0] = Default(f)
  <2>1. keys(0) = {} /\ 0 \in 0 .. n
    BY <1>1
  <2>2. part[0] = [x \in {} |-> v[x]]
    BY <2>1
  <2>3. [x \in {} |-> v[x]] = [x \in {} |-> Unset]
    OBVIOUS
  <2>4. Default(f) = [x \in {} |-> Unset]
    BY DEF Default
  <2> QED
    BY <2>2, <2>3, <2>4
<1>7. part[n] = v
  <2>1. n \in 0 .. n
    BY <1>1
  <2>2. \A x \in DOMAIN v : x \in keys(n)
    BY <1>1
  <2>3. \A x \in keys(n) : x \in DOMAIN v
    BY <1>1
  <2>4. keys(n) = DOMAIN v
    BY <2>2, <2>3
  <2>5. part[n] = [x \in DOMAIN v |-> v[x]]
    BY <2>1, <2>4
  <2> QED
    BY <1>5, <2>5
<1>8. ASSUME NEW k \in 1 .. n PROVE part[k] = Decode(f, part[k - 1], recs[k].val[2])
  <2> DEFINE key == order[k]
             w == [key |-> key, value |-> Encode(f.value, v[key])]
             got == IF f.value.cpp = "message"
                    THEN MergeSub(f.value.msg, NewMessage(f.value.msg), w.value) ELSE w.value
  <2>1. k - 1 \in 0 .. n /\ k \in 0 .. n /\ keys(k) = keys(k - 1) \cup {key} /\ key \in DOMAIN v
    <3>1. \A i : i \in 1 .. k <=> i \in 1 .. k - 1 \/ i = k
      BY <1>1
    <3>2. k - 1 \in 0 .. n /\ k \in 0 .. n
      BY <1>1
    <3>3. key \in DOMAIN v
      BY <1>1
    <3>4. keys(k) = keys(k - 1) \cup {key}
      BY <3>1
    <3> QED
      BY <3>2, <3>3, <3>4
  <2>2. recs[k].val[2] = w
    BY <1>3, RecordIs
  <2>3. got = v[key]
    <3>1. CASE f.value.cpp = "message"
      <4>1. v[key] \in Subs(f, v)
        BY <2>1, <3>1 DEF Subs, Element, Values
      <4>2. w.value = RecordsSub(f.value.msg, v[key])
        BY <3>1 DEF Encode
      <4>3. MergeSub(f.value.msg, NewMessage(f.value.msg), RecordsSub(f.value.msg, v[key])) = v[key]
        BY <4>1 DEF SubsComeBack, Element
      <4> QED
        BY <3>1, <4>2, <4>3
    <3>2. CASE f.value.cpp # "message"
      BY <3>2 DEF Encode
    <3> QED
      BY <3>1, <3>2
  <2>4. w.key = key
    OBVIOUS
  <2> HIDE DEF got, w, key
  <2>5. part[k - 1] = [x \in keys(k - 1) |-> v[x]]
    BY <2>1
  <2>6. part[k] = [x \in keys(k - 1) \cup {key} |-> v[x]]
    BY <2>1
  <2> HIDE DEF part, keys
  <2>7. Decode(f, part[k - 1], w) =
           [x \in DOMAIN part[k - 1] \cup {key} |-> IF x # key THEN part[k - 1][x] ELSE got]
    BY <2>4, Zenon DEF Decode, got
  <2>8. [x \in DOMAIN part[k - 1] \cup {key} |-> IF x # key THEN part[k - 1][x] ELSE got] =
           [x \in keys(k - 1) \cup {key} |-> v[x]]
    BY <2>3, <2>5
  <2> QED
    BY <2>2, <2>6, <2>7, <2>8
<1>9. ASSUME NEW k \in 0 .. n PROVE PartOf(f, part[k], v)
  <2>1. keys(k) \subseteq DOMAIN v
    BY <1>1
  <2>2. part[k] = [x \in keys(k) |-> v[x]]
    OBVIOUS
  <2> HIDE DEF part, keys
  <2>3. \A x \in DOMAIN part[k] : x \in DOMAIN v /\ part[k][x] = v[x]
    BY <2>1, <2>2
  <2> QED
    BY <2>3 DEF PartOf
<1> HIDE DEF part
<1>10. Adds(f, v, recs, part)
  BY <1>2, <1>6, <1>7, <1>8, <1>9 DEF Adds
<1> QED
  BY <1>2, <1>4, <1>10 DEF AddsUp, recs

(* A list of strings or messages has a record for each item. *)
LEMMA ListRecords ==
    ASSUME NEW f, f.label = "repeated", f.cpp \in {"string", "message"}, NEW v, IsValue(f, v)
    PROVE  /\ FieldRecords(f, v) = [k \in 1 .. Len(v) |-> Record(f, Encode(f, v[k]))]
           /\ v \in Seq(ElementValues(f)) /\ Len(v) \in Nat /\ DOMAIN v = 1 .. Len(v)
<1> DEFINE item(x) == Record(f, Encode(f, x))
           recs == [k \in 1 .. Len(v) |-> item(v[k])]
<1>1. v \in Seq(ElementValues(f)) /\ Len(v) \in Nat /\ DOMAIN v = 1 .. Len(v)
  BY DEF IsValue
<1>2. CASE v = Default(f)
  <2>1. v = <<>>
    BY <1>2 DEF Default
  <2>2. recs = <<>>
    BY <1>1, <2>1
  <2>3. FieldRecords(f, v) = <<>>
    BY <1>2, Zenon DEF FieldRecords
  <2> QED
    BY <1>1, <2>2, <2>3
<1>3. CASE v # Default(f)
  <2>0. f.label # "map"
    OBVIOUS
  <2>1. FieldRecords(f, v) = Map(v, item)
    BY <1>3, <2>0, Zenon DEF FieldRecords
  <2>2. Map(v, item) = recs
    BY <1>1, Zenon DEF Map
  <2> QED
    BY <1>1, <2>1, <2>2
<1> QED
  BY <1>2, <1>3

LEMMA ListAddsUp ==
    ASSUME NEW f, f.label = "repeated", f.cpp \in {"string", "message"}, NEW v, IsValue(f, v),
           SubsComeBack(f, v)
    PROVE  AddsUp(f, v, FieldRecords(f, v))
<1> DEFINE n == Len(v)
           recs == FieldRecords(f, v)
           part == [k \in 0 .. n |-> SubSeq(v, 1, k)]
           S == ElementValues(f)
<1>1. /\ recs = [k \in 1 .. n |-> Record(f, Encode(f, v[k]))]
      /\ v \in Seq(S) /\ n \in Nat /\ DOMAIN v = 1 .. n
  BY ListRecords
<1> HIDE DEF n, recs, S
<1>2. recs \in Seq(ToSet(recs)) /\ Len(recs) = n /\ DOMAIN recs = 1 .. n
  <2>1. recs = [k \in 1 .. n |-> recs[k]]
    BY <1>1
  <2> QED
    BY <1>1, <2>1, FunctionIsList
<1>3. \A k \in 1 .. n : recs[k] = Record(f, Encode(f, v[k]))
  BY <1>1
<1>4. ASSUME NEW r \in ToSet(recs) PROVE r.num = f.num
  <2>1. PICK k \in 1 .. n : r = recs[k]
    BY <1>2 DEF ToSet
  <2> QED
    BY <1>3, <2>1, RecordIs
<1>5. ASSUME NEW k \in 0 .. n
      PROVE  /\ part[k] = SubSeq(v, 1, k) /\ part[k] \in Seq(S) /\ Len(part[k]) = k
             /\ \A i \in 1 .. k : part[k][i] = v[i] /\ v[i] \in S
  BY <1>1 DEF n
<1>6. part[0] = Default(f)
  <2>1. SubSeq(v, 1, 0) = <<>> /\ 0 \in 0 .. n
    BY <1>1
  <2> QED
    BY <2>1 DEF Default
<1>7. part[n] = v
  BY <1>1 DEF n
<1> HIDE DEF part
<1>8. ASSUME NEW k \in 1 .. n PROVE part[k] = Decode(f, part[k - 1], recs[k].val[2])
  <2>1. k - 1 \in 0 .. n /\ k \in 0 .. n
    BY <1>1
  <2>2. recs[k].val[2] = Encode(f, v[k])
    BY <1>3, RecordIs
  <2>3. v[k] \in S
    BY <1>5, <2>1
  <2>4. part[k] = Append(part[k - 1], v[k])
    <3> DEFINE old == part[k - 1]
               new == part[k]
    <3>1. /\ old \in Seq(S) /\ Len(old) = k - 1 /\ \A i \in 1 .. k - 1 : old[i] = v[i]
          /\ new \in Seq(S) /\ Len(new) = k /\ \A i \in 1 .. k : new[i] = v[i]
      BY <1>5, <2>1
    <3> HIDE DEF old, new
    <3>2. new = Append(old, v[k])
      <4>1. /\ Append(old, v[k]) \in Seq(S) /\ Len(Append(old, v[k])) = k
            /\ \A i \in 1 .. k : Append(old, v[k])[i] = v[i]
        BY <2>3, <3>1
      <4> HIDE DEF S
      <4> QED
        BY <3>1, <4>1, SeqEqual
    <3> QED
      BY <3>2 DEF old, new
  <2>5. CASE f.cpp = "message"
    <3>1. v[k] \in Subs(f, v)
      BY <1>1, <2>5 DEF Subs, Element, Values, ToSet
    <3>2. recs[k].val[2] = RecordsSub(f.msg, v[k])
      BY <2>2, <2>5 DEF Encode
    <3>3. MergeSub(f.msg, NewMessage(f.msg), RecordsSub(f.msg, v[k])) = v[k]
      BY <3>1 DEF SubsComeBack, Element
    <3>4. f.label # "map"
      OBVIOUS
    <3>5. Decode(f, part[k - 1], RecordsSub(f.msg, v[k])) =
             Append(part[k - 1], MergeSub(f.msg, NewMessage(f.msg), RecordsSub(f.msg, v[k])))
      BY <2>5, <3>4, Zenon DEF Decode
    <3> QED
      BY <2>4, <3>2, <3>3, <3>5
  <2>6. CASE f.cpp = "string"
    <3>1. recs[k].val[2] = v[k]
      BY <2>2, <2>6 DEF Encode
    <3>2. f.label # "map" /\ f.cpp # "message"
      BY <2>6
    <3>3. Decode(f, part[k - 1], v[k]) = Append(part[k - 1], v[k])
      BY <2>6, <3>2, Zenon DEF Decode
    <3> QED
      BY <2>4, <3>1, <3>3
  <2> QED
    BY <2>5, <2>6
<1>9. ASSUME NEW k \in 0 .. n PROVE PartOf(f, part[k], v)
  <2>1. IsPrefix(part[k], v)
    <3>1. Len(part[k]) <= Len(v) /\ SubSeq(part[k], 1, Len(part[k])) = SubSeq(v, 1, Len(part[k]))
      BY <1>1, <1>5 DEF n
    <3> QED
      BY <3>1 DEF IsPrefix
  <2> QED
    BY <2>1 DEF PartOf
<1>10. Adds(f, v, recs, part)
  BY <1>2, <1>6, <1>7, <1>8, <1>9 DEF Adds
<1> QED
  BY <1>2, <1>4, <1>10 DEF AddsUp, recs

(* Everything else has one. *)
LEMMA OneRecord ==
    ASSUME NEW f, NEW v, v # Default(f),
           f.label = "singular" \/ (f.label = "repeated" /\ f.cpp \notin {"string", "message"})
    PROVE  FieldRecords(f, v) = <<Record(f, Encode(f, v))>>
<1>1. f.label # "map" /\ ~(f.label = "repeated" /\ f.cpp \in {"string", "message"})
  OBVIOUS
<1> QED
  BY <1>1, Zenon DEF FieldRecords

LEMMA OneAddsUp ==
    ASSUME NEW f, NEW v, v # Default(f), IsValue(f, v), SubsComeBack(f, v),
           f.label = "singular" \/ (f.label = "repeated" /\ f.cpp \notin {"string", "message"})
    PROVE  AddsUp(f, v, FieldRecords(f, v))
<1> DEFINE r == Record(f, Encode(f, v))
           recs == FieldRecords(f, v)
           part == [k \in 0 .. 1 |-> IF k = 0 THEN Default(f) ELSE v]
<1>1. recs = <<r>>
  BY OneRecord
<1>2. recs \in Seq(ToSet(recs)) /\ Len(recs) = 1 /\ ToSet(recs) = {r} /\ recs[1] = r
  <2> HIDE DEF r, recs
  <2> QED
    BY <1>1 DEF ToSet
<1>3. r.num = f.num /\ r.val[2] = Encode(f, v)
  BY RecordIs
<1>4. part[0] = Default(f) /\ part[1] = v /\ \A k \in 0 .. 1 : part[k] \in {v, Default(f)}
  OBVIOUS
<1> HIDE DEF r, recs, part
<1>5. CASE f.label = "singular"
  <2>1. \A k \in 0 .. 1 : PartOf(f, part[k], v)
    BY <1>4, <1>5 DEF PartOf
  <2>2. v = Decode(f, Default(f), Encode(f, v))
    <3>1. CASE f.cpp = "message"
      <4>1. Default(f) = Unset
        BY <1>5, <3>1 DEF Default
      <4>2. v \in Subs(f, v)
        BY <1>5, <3>1, <4>1 DEF Subs, Element, Values
      <4>3. MergeSub(f.msg, NewMessage(f.msg), RecordsSub(f.msg, v)) = v
        BY <1>5, <4>2 DEF SubsComeBack, Element
      <4>4. Encode(f, v) = RecordsSub(f.msg, v)
        BY <3>1 DEF Encode
      <4>5. f.label # "map" /\ f.label # "repeated"
        BY <1>5
      <4>6. Decode(f, Unset, RecordsSub(f.msg, v)) = MergeSub(f.msg, NewMessage(f.msg), RecordsSub(f.msg, v))
        BY <1>5, <3>1, <4>5, Zenon DEF Decode
      <4> QED
        BY <4>1, <4>3, <4>4, <4>6
    <3>2. CASE f.cpp # "message"
      <4>1. Encode(f, v) = v
        BY <3>2 DEF Encode
      <4>2. f.label # "map" /\ f.label # "repeated"
        BY <1>5
      <4>3. Decode(f, Default(f), v) = v
        BY <1>5, <3>2, <4>2, Zenon DEF Decode
      <4> QED
        BY <4>1, <4>3
    <3> QED
      BY <3>1, <3>2
  <2>3. \A k \in 1 .. 1 : part[k] = Decode(f, part[k - 1], recs[k].val[2])
    BY <1>2, <1>3, <1>4, <2>2
  <2>4. Adds(f, v, recs, part)
    BY <1>2, <1>4, <2>1, <2>3 DEF Adds
  <2> QED
    BY <1>2, <1>3, <2>4 DEF AddsUp, recs
<1>6. CASE f.label = "repeated" /\ f.cpp \notin {"string", "message"}
  <2>1. v \in Seq(ElementValues(f)) /\ Default(f) = <<>>
    BY <1>6 DEF IsValue, Default
  <2>2. \A k \in 0 .. 1 : PartOf(f, part[k], v)
    <3>1. IsPrefix(v, v) /\ IsPrefix(<<>>, v)
      BY <2>1 DEF IsPrefix
    <3> QED
      BY <1>4, <1>6, <2>1, <3>1 DEF PartOf
  <2>3. v = Decode(f, Default(f), Encode(f, v))
    <3>1. Encode(f, v) = v
      BY <1>6 DEF Encode
    <3>2. f.label # "map" /\ f.cpp # "message" /\ f.cpp # "string" /\ f.label = "repeated"
      BY <1>6
    <3>3. Decode(f, <<>>, v) = <<>> \o v
      BY <3>2, Zenon DEF Decode
    <3>4. <<>> \o v = v
      BY <2>1, ConcatEmptySeq
    <3> QED
      BY <2>1, <3>1, <3>3, <3>4
  <2>4. \A k \in 1 .. 1 : part[k] = Decode(f, part[k - 1], recs[k].val[2])
    BY <1>2, <1>3, <1>4, <2>3
  <2>5. Adds(f, v, recs, part)
    BY <1>2, <1>4, <2>2, <2>4 DEF Adds
  <2> QED
    BY <1>2, <1>3, <2>5 DEF AddsUp, recs
<1> QED
  BY <1>5, <1>6

LEMMA FieldAddsUp ==
    ASSUME NEW f, IsField(f), NEW v, IsValue(f, v), SubsComeBack(f, v)
    PROVE  AddsUp(f, v, FieldRecords(f, v))
<1>1. CASE v = Default(f)
  BY <1>1, DefaultAddsUp
<1>2. CASE f.label = "map"
  BY <1>2, MapAddsUp
<1>3. CASE f.label = "repeated" /\ f.cpp \in {"string", "message"}
  BY <1>3, ListAddsUp
<1>4. CASE /\ v # Default(f)
           /\ f.label = "singular" \/ (f.label = "repeated" /\ f.cpp \notin {"string", "message"})
  BY <1>4, OneAddsUp
<1> QED
  BY <1>1, <1>2, <1>3, <1>4 DEF IsField
----------------------------------------------------------------------------
(* The loop over the records.                                               *)
MergeSteps(ty, m, records, n, g) ==
    g = [i \in 0 .. n |-> IF i = 0 THEN m ELSE MergeRecord(ty, g[i - 1], records[i])]
MergeLoop(ty, m, records, g) ==
    /\ g[0] = m
    /\ \A i \in 1 .. Len(records) : g[i] = MergeRecord(ty, g[i - 1], records[i])
    /\ Merge(ty, m, records) = g[Len(records)]

LEMMA MergeHasSteps ==
    ASSUME NEW ty, NEW m, NEW records, NEW n \in Nat
    PROVE  \E g : MergeSteps(ty, m, records, n, g)
<1> DEFINE T == {i \in Nat : \E g : MergeSteps(ty, m, records, i, g)}
<1>1. 0 \in T
  <2> DEFINE g == [i \in 0 .. 0 |-> m]
  <2>1. MergeSteps(ty, m, records, 0, g)
    BY DEF MergeSteps
  <2> QED
    BY <2>1
<1>2. ASSUME NEW j \in Nat, j \in T PROVE j + 1 \in T
  <2>1. PICK g : MergeSteps(ty, m, records, j, g)
    BY <1>2
  <2>2. DOMAIN g = 0 .. j /\ g[0] = m /\ \A i \in 0 .. j :
           i # 0 => g[i] = MergeRecord(ty, g[i - 1], records[i])
    BY <2>1 DEF MergeSteps
  <2> DEFINE next == MergeRecord(ty, g[j], records[j + 1])
             h == [i \in 0 .. j + 1 |-> IF i = j + 1 THEN next ELSE g[i]]
  <2>3. ASSUME NEW i \in 0 .. j + 1
        PROVE  h[i] = IF i = 0 THEN m ELSE MergeRecord(ty, h[i - 1], records[i])
    <3>1. CASE i = 0
      <4>1. i # j + 1
        BY <3>1
      <4> QED
        BY <2>2, <3>1, <4>1
    <3>2. CASE i = j + 1
      <4>1. i - 1 = j /\ j \in 0 .. j + 1 /\ j # j + 1 /\ i # 0
        BY <3>2
      <4>2. h[i - 1] = g[j]
        BY <4>1
      <4> QED
        BY <3>2, <4>1, <4>2
    <3>3. CASE i # 0 /\ i # j + 1
      <4>1. i \in 0 .. j /\ i - 1 \in 0 .. j + 1 /\ i - 1 # j + 1
        BY <3>3
      <4>2. h[i - 1] = g[i - 1] /\ h[i] = g[i]
        BY <3>3, <4>1
      <4> HIDE DEF h
      <4> QED
        BY <2>2, <3>3, <4>1, <4>2
    <3> QED
      BY <3>1, <3>2, <3>3
  <2>4. h = [i \in 0 .. j + 1 |-> h[i]]
    OBVIOUS
  <2> HIDE DEF h
  <2>5. MergeSteps(ty, m, records, j + 1, h)
    BY <2>3, <2>4 DEF MergeSteps
  <2> QED
    BY <2>5
<1> HIDE DEF T
<1>3. Nat \subseteq T
  BY <1>1, <1>2, Induction
<1> QED
  BY <1>3 DEF T

LEMMA MergeIs ==
    ASSUME NEW ty, NEW m, NEW records, Len(records) \in Nat
    PROVE  \E g : MergeLoop(ty, m, records, g)
<1> DEFINE n == Len(records)
           g == CHOOSE g : MergeSteps(ty, m, records, n, g)
<1>1. MergeSteps(ty, m, records, n, g)
  BY MergeHasSteps
<1>2. Merge(ty, m, records) = g[n]
  BY Zenon DEF Merge, MergeSteps
<1> HIDE DEF g
<1>3. g[0] = m
  BY <1>1 DEF MergeSteps
<1>4. ASSUME NEW i \in 1 .. n
      PROVE  g[i] = MergeRecord(ty, g[i - 1], records[i])
  BY <1>1 DEF MergeSteps
<1>5. MergeLoop(ty, m, records, g)
  BY <1>2, <1>3, <1>4, Zenon DEF MergeLoop
<1> QED
  BY <1>5

LEMMA NumbersDiffer ==
    ASSUME NEW ty \in Types
    PROVE  \A f, g \in ToSet(Fields(ty)) : f.num \in Nat /\ (f.num = g.num => f = g)
  BY WireAssumption, Zenon

(* The fields before the i-th have their values, the i-th has v, and those
   after it have none yet. *)
MergedTo(ty, m, b, i, v, x) ==
    /\ x = [n \in ToSet(FieldNames(ty)) |-> x[n]]
    /\ \A j \in 1 .. Len(b) :
          x[b[j].name] = IF j < i THEN m[b[j].name] ELSE IF j = i THEN v ELSE Default(b[j])

LEMMA StepMerges ==
    ASSUME NEW ty \in Types, NEW b, EachOnce(ty, b), NEW m \in Messages(ty),
           NEW i \in 1 .. Len(b), m[b[i].name] # Default(b[i]),
           NEW v, NEW x, MergedTo(ty, m, b, i, v, x),
           NEW r, r.num = b[i].num
    PROVE  MergedTo(ty, m, b, i, Decode(b[i], v, r.val[2]), MergeRecord(ty, x, r))
<1> DEFINE f == b[i]
           w == Decode(f, v, r.val[2])
           D == ToSet(Fields(ty))
           new == SetField(ty, x, f, w)
<1>1. /\ Len(b) \in Nat /\ DOMAIN b = 1 .. Len(b)
      /\ \A j \in 1 .. Len(b) : b[j] \in D /\ IsField(b[j])
      /\ \A j, l \in 1 .. Len(b) : b[j].name = b[l].name => j = l
      /\ \A g \in D : \E j \in 1 .. Len(b) : b[j] = g
  BY Zenon DEF EachOnce
<1>2. \A g, h \in D : g.num = h.num => g = h
  BY NumbersDiffer
<1>3. f \in D
  BY <1>1
<1>4. \A j \in 1 .. Len(b) : b[j].name \in ToSet(FieldNames(ty))
  BY <1>1, FieldsOf
<1>5. /\ DOMAIN x = ToSet(FieldNames(ty)) /\ x[f.name] = v
      /\ \A j \in 1 .. Len(b) : j # i =>
            x[b[j].name] = IF j < i THEN m[b[j].name] ELSE Default(b[j])
  BY <1>1 DEF MergedTo
<1>6. IsMessage(ty, m)
  BY MessagesAssumption
<1>7. MergeRecord(ty, x, r) = new
  <2> DEFINE found == {g \in D : g.num = r.num}
  <2>1. found = {f}
    <3>1. f \in found
      BY <1>3
    <3>2. \A g \in found : g = f
      BY <1>2, <1>3
    <3> QED
      BY <3>1, <3>2
  <2> HIDE DEF found
  <2>2. found # {} /\ (CHOOSE g \in found : TRUE) = f
    BY <2>1
  <2> HIDE DEF f
  <2>3. MergeRecord(ty, x, r) = SetField(ty, x, f, Decode(f, x[f.name], r.val[2]))
    BY <2>2, Zenon DEF MergeRecord, found, D
  <2> QED
    BY <1>5, <2>3
<1>8. ASSUME NEW j \in 1 .. Len(b), j # i, b[j].name \in OneofOf(ty, f)
      PROVE  x[b[j].name] = Unset
  <2>1. PICK h \in D : h.oneof = f.oneof /\ f.oneof # "" /\ h.name = b[j].name
    BY <1>8 DEF OneofOf
  <2>2. h = b[j]
    BY <1>1, <2>1
  <2>3. h # f
    BY <1>1, <1>8, <2>2
  <2>4. f.label = "singular" /\ h.label = "singular"
    BY <1>1, <2>1, <2>2 DEF IsField
  <2>5. Default(f) = Unset /\ Default(h) = Unset
    BY <2>1, <2>4 DEF Default
  <2>6. m[f.name] # Unset
    BY <2>5
  <2>7. Unset \in {m[f.name], m[h.name]}
    BY <1>3, <1>6, <2>1, <2>3 DEF IsMessage
  <2> HIDE DEF f
  <2>8. m[h.name] = Unset
    BY <2>6, <2>7
  <2> QED
    BY <1>5, <1>8, <2>2, <2>5, <2>8
<1>9. ASSUME NEW j \in 1 .. Len(b)
      PROVE  new[b[j].name] = IF j < i THEN m[b[j].name] ELSE IF j = i THEN w ELSE Default(b[j])
  <2>1. b[j].name \in DOMAIN x
    BY <1>4, <1>5
  <2>2. new[b[j].name] = IF b[j].name = f.name THEN w
                         ELSE IF b[j].name \in OneofOf(ty, f) THEN Unset ELSE x[b[j].name]
    BY <2>1 DEF SetField
  <2>3. CASE j = i
    BY <2>2, <2>3
  <2>4. CASE j # i
    <3>1. b[j].name # f.name
      BY <1>1, <2>4
    <3> HIDE DEF f, w, new
    <3>2. new[b[j].name] = x[b[j].name]
      BY <1>8, <2>2, <2>4, <3>1
    <3> QED
      BY <1>5, <2>4, <3>2
  <2> QED
    BY <2>3, <2>4
<1>10. new = [n \in ToSet(FieldNames(ty)) |-> new[n]]
  <2> HIDE DEF f, w, D
  <2> QED
    BY <1>5 DEF SetField
<1> HIDE DEF new, w
<1>11. MergedTo(ty, m, b, i, w, new)
  BY <1>9, <1>10 DEF MergedTo
<1> QED
  BY <1>7, <1>11 DEF w, f

(* How the records of a message are made up of those of its fields. *)
Layout(ty, m, b, seqs, offset) ==
    /\ EachOnce(ty, b)
    /\ \A i \in 1 .. Len(b) :
          /\ seqs[i] = FieldRecords(b[i], m[b[i].name])
          /\ AddsUp(b[i], m[b[i].name], seqs[i])
    /\ IsConcat(seqs, Len(b), offset, Records(ty, m))
    /\ Records(ty, m) \in Seq(ToSet(Records(ty, m)))

LEMMA LayoutExists ==
    ASSUME NEW ty \in Types, NEW m \in Messages(ty),
           \A f \in ToSet(Fields(ty)) : SubsComeBack(f, m[f.name])
    PROVE  \E b, seqs, offset : Layout(ty, m, b, seqs, offset)
<1> DEFINE b == ByNumber(ty)
           recs(f) == FieldRecords(f, m[f.name])
           seqs == [i \in DOMAIN b |-> recs(b[i])]
           n == Len(b)
           S == UNION {ToSet(seqs[i]) : i \in 1 .. n}
           all == Records(ty, m)
<1>1. EachOnce(ty, b)
  BY EveryFieldByNumber
<1>2. all = FlattenSeq(seqs)
  BY Zenon DEF Records, Map
<1> HIDE DEF b
<1>3. /\ n \in Nat /\ DOMAIN b = 1 .. n
      /\ \A i \in 1 .. n : b[i] \in ToSet(Fields(ty)) /\ IsField(b[i])
  BY <1>1, Zenon DEF EachOnce
<1>4. IsMessage(ty, m)
  BY MessagesAssumption
<1>5. \A i \in 1 .. n : seqs[i] = recs(b[i])
  BY <1>3
<1>6. ASSUME NEW i \in 1 .. n PROVE AddsUp(b[i], m[b[i].name], seqs[i])
  <2>1. IsValue(b[i], m[b[i].name])
    BY <1>3, <1>4 DEF IsMessage
  <2>2. SubsComeBack(b[i], m[b[i].name])
    BY <1>3
  <2>3. AddsUp(b[i], m[b[i].name], FieldRecords(b[i], m[b[i].name]))
    BY <1>3, <2>1, <2>2, FieldAddsUp
  <2>4. seqs[i] = FieldRecords(b[i], m[b[i].name])
    BY <1>5
  <2> HIDE DEF seqs
  <2> QED
    BY <2>3, <2>4
<1>7. seqs = [i \in 1 .. n |-> seqs[i]]
  BY <1>3
<1> HIDE DEF seqs
<1>8. ASSUME NEW i \in 1 .. n PROVE seqs[i] \in Seq(S)
  <2>1. seqs[i] \in Seq(ToSet(seqs[i])) /\ ToSet(seqs[i]) \subseteq S
    BY <1>6 DEF AddsUp
  <2> HIDE DEF S
  <2> QED
    BY <2>1, SeqMonotonic
<1> HIDE DEF S
<1>9. seqs \in Seq(Seq(S)) /\ Len(seqs) = n
  BY <1>3, <1>7, <1>8
<1> HIDE DEF all
<1>10. PICK offset : IsConcat(seqs, n, offset, all) /\ all \in Seq(S)
  BY <1>2, <1>9, Flattens
<1>11. all \in Seq(ToSet(all))
  <2>1. Len(all) \in Nat /\ all = [i \in 1 .. Len(all) |-> all[i]]
    BY <1>10
  <2> QED
    BY <2>1, FunctionIsList
<1>12. Layout(ty, m, b, seqs, offset)
  BY <1>1, <1>5, <1>6, <1>10, <1>11, Zenon DEF Layout, all
<1> QED
  BY <1>12

LEMMA NothingMerged ==
    ASSUME NEW ty \in Types, NEW b, EachOnce(ty, b), NEW m
    PROVE  MergedTo(ty, m, b, 1, Default(b[1]), NewMessage(ty))
<1> DEFINE new == NewMessage(ty)
<1>1. /\ Len(b) \in Nat
      /\ \A j \in 1 .. Len(b) : b[j] \in ToSet(Fields(ty))
  BY Zenon DEF EachOnce
<1>2. /\ new = [n \in ToSet(FieldNames(ty)) |-> new[n]]
      /\ \A i \in DOMAIN Fields(ty) : new[Fields(ty)[i].name] = Default(Fields(ty)[i])
  BY NewMessageIs
<1> HIDE DEF new
<1>3. ASSUME NEW j \in 1 .. Len(b)
      PROVE  new[b[j].name] = Default(b[j])
  <2>1. PICK i \in DOMAIN Fields(ty) : b[j] = Fields(ty)[i]
    BY <1>1, FieldsOf
  <2> QED
    BY <1>2, <2>1
<1>4. \A j \in 1 .. Len(b) : ~(j < 1)
  BY <1>1
<1>5. MergedTo(ty, m, b, 1, Default(b[1]), new)
  BY <1>2, <1>3, <1>4 DEF MergedTo
<1> QED
  BY <1>5 DEF new

LEMMA NextField ==
    ASSUME NEW ty, NEW b, NEW m, NEW x, NEW i \in 1 .. Len(b), Len(b) \in Nat,
           MergedTo(ty, m, b, i, m[b[i].name], x)
    PROVE  MergedTo(ty, m, b, i + 1, Default(b[i + 1]), x)
<1>1. ASSUME NEW j \in 1 .. Len(b)
      PROVE  x[b[j].name] = IF j < i + 1 THEN m[b[j].name]
                            ELSE IF j = i + 1 THEN Default(b[i + 1]) ELSE Default(b[j])
  <2>1. x[b[j].name] = IF j < i THEN m[b[j].name]
                       ELSE IF j = i THEN m[b[i].name] ELSE Default(b[j])
    BY DEF MergedTo
  <2>2. j < i + 1 <=> (j < i \/ j = i)
    OBVIOUS
  <2> QED
    BY <2>1, <2>2
<1>2. x = [n \in ToSet(FieldNames(ty)) |-> x[n]]
  BY DEF MergedTo
<1> QED
  BY <1>1, <1>2 DEF MergedTo

LEMMA AllMerged ==
    ASSUME NEW ty \in Types, NEW b, EachOnce(ty, b), NEW m \in Messages(ty), NEW v, NEW x,
           MergedTo(ty, m, b, Len(b) + 1, v, x)
    PROVE  x = m
<1>1. /\ Len(b) \in Nat
      /\ \A f \in ToSet(Fields(ty)) : \E j \in 1 .. Len(b) : b[j] = f
  BY Zenon DEF EachOnce
<1>2. m = [n \in ToSet(FieldNames(ty)) |-> m[n]]
  BY MessagesAssumption DEF IsMessage
<1>3. x = [n \in ToSet(FieldNames(ty)) |-> x[n]]
  BY DEF MergedTo
<1>4. ASSUME NEW n \in ToSet(FieldNames(ty)) PROVE x[n] = m[n]
  <2>1. PICK i \in DOMAIN Fields(ty) : n = Fields(ty)[i].name
    BY FieldsOf
  <2>2. Fields(ty)[i] \in ToSet(Fields(ty))
    BY FieldsOf
  <2>3. PICK j \in 1 .. Len(b) : b[j] = Fields(ty)[i]
    BY <1>1, <2>2
  <2>4. j < Len(b) + 1
    BY <1>1
  <2>5. x[b[j].name] = m[b[j].name]
    BY <2>4 DEF MergedTo
  <2> QED
    BY <2>1, <2>3, <2>5
<1>5. [n \in ToSet(FieldNames(ty)) |-> x[n]] = [n \in ToSet(FieldNames(ty)) |-> m[n]]
  BY <1>4
<1> QED
  BY <1>2, <1>3, <1>5

LEMMA MergedIsPart ==
    ASSUME NEW ty \in Types, NEW m, NEW b, NEW seqs, NEW offset, Layout(ty, m, b, seqs, offset),
           NEW i, NEW v, NEW x, MergedTo(ty, m, b, i, v, x),
           i \in 1 .. Len(b) => PartOf(b[i], v, m[b[i].name])
    PROVE  IsPartOf(ty, x, m)
<1>1. /\ Len(b) \in Nat
      /\ \A f \in ToSet(Fields(ty)) : \E j \in 1 .. Len(b) : b[j] = f
  BY Zenon DEF Layout, EachOnce
<1>2. ASSUME NEW j \in 1 .. Len(b)
      PROVE  PartOf(b[j], m[b[j].name], m[b[j].name]) /\ PartOf(b[j], Default(b[j]), m[b[j].name])
  <2>1. AddsUp(b[j], m[b[j].name], seqs[j])
    BY DEF Layout
  <2>2. PICK part : Adds(b[j], m[b[j].name], seqs[j], part)
    BY <2>1 DEF AddsUp
  <2>3. Len(seqs[j]) \in Nat
    BY <2>1, LenProperties DEF AddsUp
  <2>4. 0 \in 0 .. Len(seqs[j]) /\ Len(seqs[j]) \in 0 .. Len(seqs[j])
    BY <2>3
  <2> QED
    BY <2>2, <2>4 DEF Adds
<1>3. ASSUME NEW f \in ToSet(Fields(ty)) PROVE PartOf(f, x[f.name], m[f.name])
  <2>1. PICK j \in 1 .. Len(b) : b[j] = f
    BY <1>1
  <2>2. x[b[j].name] = IF j < i THEN m[b[j].name] ELSE IF j = i THEN v ELSE Default(b[j])
    BY DEF MergedTo
  <2>3. PartOf(b[j], x[b[j].name], m[b[j].name])
    <3>1. CASE j < i
      BY <1>2, <2>2, <3>1
    <3>2. CASE j = i
      <4>1. ~(j < i)
        BY <3>2
      <4> QED
        BY <2>2, <3>2, <4>1
    <3>3. CASE ~(j < i) /\ j # i
      BY <1>2, <2>2, <3>3
    <3> QED
      BY <3>1, <3>2, <3>3
  <2> QED
    BY <2>1, <2>3
<1> QED
  BY <1>3 DEF IsPartOf

(* A list that agrees with the records of m as far as it goes. *)
IsStartOf(p, records) ==
    /\ Len(p) \in 0 .. Len(records) /\ \A c \in 1 .. Len(p) : p[c] = records[c]

(* The record that comes after the j-th of n, which begin after o of l. *)
NextIsIn(n, j, o, l) ==
    /\ j + 1 \in 1 .. n /\ (j + 1) - 1 = j /\ o + (j + 1) \in 1 .. l
    /\ (o + (j + 1)) - 1 = o + j /\ j <= n /\ o + j <= l

LEMMA NextIn ==
    ASSUME NEW n \in Nat, NEW j \in Nat, NEW o \in Nat, NEW l \in Nat,
           j + 1 <= n, o + (j + 1) <= l
    PROVE  NextIsIn(n, j, o, l)
  BY DEF NextIsIn

LEMMA FieldMerged ==
    ASSUME NEW ty \in Types, NEW m \in Messages(ty), NEW b, NEW seqs, NEW offset,
           Layout(ty, m, b, seqs, offset),
           NEW p, IsStartOf(p, Records(ty, m)),
           NEW g, MergeLoop(ty, NewMessage(ty), p, g),
           NEW i \in 1 .. Len(b), NEW part, Adds(b[i], m[b[i].name], seqs[i], part),
           MergedTo(ty, m, b, i, part[0], g[offset[i - 1]])
    PROVE  \A k \in 0 .. Len(seqs[i]) : offset[i - 1] + k <= Len(p) =>
               MergedTo(ty, m, b, i, part[k], g[offset[i - 1] + k])
<1> DEFINE o == offset[i - 1]
           n == Len(seqs[i])
           R == Records(ty, m)
           T == {k \in Nat : k <= n /\ o + k <= Len(p) => MergedTo(ty, m, b, i, part[k], g[o + k])}
<1>1. EachOnce(ty, b) /\ Len(b) \in Nat
  BY DEF Layout, EachOnce
<1>2. Offsets(seqs, Len(b), offset) /\ Places(seqs, Len(b), offset, R)
  BY DEF Layout, IsConcat
<1>3. o \in Nat
  <2>1. i - 1 \in 0 .. Len(b)
    BY <1>1
  <2> QED
    BY <1>2, <2>1 DEF Offsets
<1>4. /\ AddsUp(b[i], m[b[i].name], seqs[i])
      /\ seqs[i] = FieldRecords(b[i], m[b[i].name])
  BY DEF Layout
<1>5. seqs[i] \in Seq(ToSet(seqs[i])) /\ n \in Nat /\ DOMAIN seqs[i] = 1 .. n
  BY <1>4, LenProperties DEF AddsUp
<1>6. Len(p) \in Nat
  BY <1>2 DEF IsStartOf
<1>7. 0 \in T
  <2>1. o + 0 = o
    BY <1>3
  <2> QED
    BY <2>1
<1>8. ASSUME NEW j \in Nat, j \in T PROVE j + 1 \in T
  <2>1. ASSUME j + 1 <= n, o + (j + 1) <= Len(p)
        PROVE  MergedTo(ty, m, b, i, part[j + 1], g[o + (j + 1)])
    <3> DEFINE k == j + 1
               c == o + k
               r == seqs[i][k]
    <3>1. /\ k \in 1 .. n /\ k - 1 = j /\ c \in 1 .. Len(p) /\ c - 1 = o + j
          /\ j <= n /\ o + j <= Len(p)
      <4> HIDE DEF o, n
      <4>1. n \in Nat /\ j \in Nat /\ o \in Nat /\ Len(p) \in Nat
        BY <1>3, <1>5, <1>6
      <4>2. j + 1 <= n /\ o + (j + 1) <= Len(p)
        BY <2>1
      <4>3. NextIsIn(n, j, o, Len(p))
        BY <4>1, <4>2, NextIn, Zenon
      <4> QED
        BY <4>3, Zenon DEF NextIsIn
    <3>2. MergedTo(ty, m, b, i, part[j], g[o + j])
      BY <1>8, <3>1
    <3>3. p[c] = R[c] /\ R[c] = r
      <4>1. p[c] = R[c]
        BY <3>1 DEF IsStartOf
      <4>2. R[c] = r
        BY <1>2, <3>1 DEF Places
      <4> QED
        BY <4>1, <4>2
    <3>4. r \in ToSet(seqs[i])
      BY <1>5, <3>1 DEF ToSet
    <3>5. r.num = b[i].num
      BY <1>4, <3>4 DEF AddsUp
    <3>6. m[b[i].name] # Default(b[i])
      <4>1. ASSUME m[b[i].name] = Default(b[i]) PROVE FALSE
        <5>1. seqs[i] = <<>>
          BY <1>4, <4>1, Zenon DEF FieldRecords
        <5>2. n = 0
          BY <5>1
        <5> QED
          BY <3>1, <5>2
      <4> QED
        BY <4>1
    <3>7. part[k] = Decode(b[i], part[j], r.val[2])
      BY <3>1 DEF Adds
    <3>8. g[c] = MergeRecord(ty, g[o + j], r)
      <4>1. g[c] = MergeRecord(ty, g[c - 1], p[c])
        BY <3>1 DEF MergeLoop
      <4> HIDE DEF c, r
      <4> QED
        BY <3>1, <3>3, <4>1
    <3> HIDE DEF r, c, k, o
    <3>9. MergedTo(ty, m, b, i, Decode(b[i], part[j], r.val[2]), MergeRecord(ty, g[o + j], r))
      BY <1>1, <3>2, <3>5, <3>6, StepMerges
    <3> QED
      BY <3>7, <3>8, <3>9 DEF c, k
  <2> QED
    BY <2>1
<1> HIDE DEF T
<1>9. Nat \subseteq T
  BY <1>7, <1>8, Induction
<1>10. ASSUME NEW k \in 0 .. n, o + k <= Len(p)
       PROVE  MergedTo(ty, m, b, i, part[k], g[o + k])
  <2>1. k \in Nat /\ k <= n
    BY <1>5
  <2> QED
    BY <1>9, <1>10, <2>1 DEF T
<1> QED
  BY <1>10

(* After the records of the fields up to a field. *)
LEMMA FieldsMerged ==
    ASSUME NEW ty \in Types, NEW m \in Messages(ty), NEW b, NEW seqs, NEW offset,
           Layout(ty, m, b, seqs, offset),
           NEW p, IsStartOf(p, Records(ty, m)),
           NEW g, MergeLoop(ty, NewMessage(ty), p, g)
    PROVE  \A i \in 0 .. Len(b) : offset[i] <= Len(p) =>
               MergedTo(ty, m, b, i + 1, Default(b[i + 1]), g[offset[i]])
<1> DEFINE n == Len(b)
           T == {i \in Nat : i <= n /\ offset[i] <= Len(p) =>
                    MergedTo(ty, m, b, i + 1, Default(b[i + 1]), g[offset[i]])}
<1>1. EachOnce(ty, b) /\ n \in Nat
  BY DEF Layout, EachOnce
<1>2. Offsets(seqs, n, offset)
  BY DEF Layout, IsConcat
<1>3. 0 \in T
  <2>1. offset[0] = 0 /\ g[0] = NewMessage(ty) /\ 0 + 1 = 1
    BY <1>2 DEF Offsets, MergeLoop
  <2>2. MergedTo(ty, m, b, 1, Default(b[1]), NewMessage(ty))
    BY <1>1, NothingMerged
  <2> QED
    BY <2>1, <2>2
<1>4. ASSUME NEW j \in Nat, j \in T PROVE j + 1 \in T
  <2>1. ASSUME j + 1 <= n, offset[j + 1] <= Len(p)
        PROVE  MergedTo(ty, m, b, (j + 1) + 1, Default(b[(j + 1) + 1]), g[offset[j + 1]])
    <3> DEFINE i == j + 1
    <3>1. i \in 1 .. n /\ i - 1 = j /\ j \in 0 .. n
      BY <1>1, <2>1
    <3>2. AddsUp(b[i], m[b[i].name], seqs[i])
      BY <3>1 DEF Layout
    <3>3. PICK part : Adds(b[i], m[b[i].name], seqs[i], part)
      BY <3>2 DEF AddsUp
    <3>4. Len(seqs[i]) \in Nat
      BY <3>2, LenProperties DEF AddsUp
    <3>5. part[0] = Default(b[i]) /\ part[Len(seqs[i])] = m[b[i].name]
      BY <3>3 DEF Adds
    <3>6. offset[i] = offset[j] + Len(seqs[i]) /\ offset[j] \in Nat /\ offset[i] \in Nat
      BY <1>2, <3>1 DEF Offsets
    <3>7. Len(p) \in Int
      BY DEF IsStartOf
    <3>8. offset[j] <= Len(p) /\ j <= n
      <4> HIDE DEF i
      <4>1. offset[i] <= Len(p)
        BY <2>1 DEF i
      <4> QED
        BY <3>1, <3>4, <3>6, <3>7, <4>1
    <3>9. MergedTo(ty, m, b, i, part[0], g[offset[i - 1]])
      BY <1>4, <3>1, <3>5, <3>8
    <3>10. offset[i] <= Len(p)
      BY <2>1
    <3> HIDE DEF i
    <3>11. \A k \in 0 .. Len(seqs[i]) : offset[i - 1] + k <= Len(p) =>
               MergedTo(ty, m, b, i, part[k], g[offset[i - 1] + k])
      BY <3>1, <3>3, <3>9, FieldMerged
    <3>12. MergedTo(ty, m, b, i, part[Len(seqs[i])], g[offset[i]])
      <4>1. Len(seqs[i]) \in 0 .. Len(seqs[i]) /\ offset[i - 1] + Len(seqs[i]) = offset[i]
        BY <3>1, <3>4, <3>6
      <4> QED
        BY <3>10, <3>11, <4>1
    <3>13. MergedTo(ty, m, b, i + 1, Default(b[i + 1]), g[offset[i]])
      BY <1>1, <3>1, <3>5, <3>12, NextField
    <3> QED
      BY <3>13 DEF i
  <2> QED
    BY <2>1
<1> HIDE DEF T
<1>5. Nat \subseteq T
  BY <1>3, <1>4, Induction
<1>6. ASSUME NEW i \in 0 .. n, offset[i] <= Len(p)
      PROVE  MergedTo(ty, m, b, i + 1, Default(b[i + 1]), g[offset[i]])
  <2>1. i \in Nat /\ i <= n
    BY <1>1
  <2> QED
    BY <1>5, <1>6, <2>1 DEF T
<1> QED
  BY <1>6

(* What the first records of a message add up to is a part of it, what all
   of them add up to the message. *)
MergesTo(ty, m, p) ==
    LET merged == Merge(ty, NewMessage(ty), p) IN
    IsPartOf(ty, merged, m) /\ (Len(p) = Len(Records(ty, m)) => merged = m)

LEMMA RecordsMerge ==
    ASSUME NEW ty \in Types, NEW m \in Messages(ty),
           \A f \in ToSet(Fields(ty)) : SubsComeBack(f, m[f.name]),
           NEW p, IsStartOf(p, Records(ty, m))
    PROVE  MergesTo(ty, m, p)
<1> DEFINE R == Records(ty, m)
           c == Len(p)
           merged == Merge(ty, NewMessage(ty), p)
<1>1. PICK b, seqs, offset : Layout(ty, m, b, seqs, offset)
  BY LayoutExists
<1> DEFINE n == Len(b)
<1>2. EachOnce(ty, b) /\ n \in Nat
  BY <1>1 DEF Layout, EachOnce
<1>3. Offsets(seqs, n, offset) /\ Places(seqs, n, offset, R)
  BY <1>1 DEF Layout, IsConcat
<1>4. offset[0] = 0 /\ Len(R) = offset[n] /\ offset[n] \in Nat
  BY <1>2, <1>3 DEF Offsets, Places
<1>5. c \in Nat /\ c <= Len(R)
  BY <1>4 DEF IsStartOf
<1>6. PICK g : MergeLoop(ty, NewMessage(ty), p, g)
  BY <1>5, MergeIs
<1>7. merged = g[c]
  BY <1>6 DEF MergeLoop
<1>8. \A i \in 0 .. n : offset[i] <= c => MergedTo(ty, m, b, i + 1, Default(b[i + 1]), g[offset[i]])
  BY <1>1, <1>6, FieldsMerged
<1> HIDE DEF merged, R, n
<1>9. CASE c = Len(R)
  <2>1. n \in 0 .. n /\ offset[n] = c
    BY <1>2, <1>4, <1>9
  <2>2. MergedTo(ty, m, b, n + 1, Default(b[n + 1]), merged)
    BY <1>5, <1>7, <1>8, <2>1
  <2>3. merged = m
    BY <1>2, <2>2, AllMerged DEF n
  <2>4. n + 1 \notin 1 .. n
    BY <1>2
  <2>5. IsPartOf(ty, merged, m)
    BY <1>1, <2>2, <2>4, MergedIsPart DEF n
  <2> QED
    BY <2>3, <2>5 DEF MergesTo, merged
<1>10. CASE c # Len(R)
  <2>1. IsPartOf(ty, merged, m)
    <3>1. CASE c = 0
      <4>1. 0 \in 0 .. n /\ offset[0] <= c /\ offset[0] = c /\ 0 + 1 = 1
        BY <1>2, <1>4, <3>1
      <4>2. MergedTo(ty, m, b, 1, Default(b[1]), merged)
        BY <1>7, <1>8, <4>1
      <4>3. ASSUME 1 \in 1 .. n PROVE PartOf(b[1], Default(b[1]), m[b[1].name])
        <5>1. AddsUp(b[1], m[b[1].name], seqs[1])
          BY <1>1, <4>3 DEF Layout, n
        <5>2. PICK part : Adds(b[1], m[b[1].name], seqs[1], part)
          BY <5>1 DEF AddsUp
        <5>3. Len(seqs[1]) \in Nat
          BY <5>1, LenProperties DEF AddsUp
        <5> QED
          BY <5>2, <5>3 DEF Adds
      <4> QED
        BY <1>1, <4>2, <4>3, MergedIsPart DEF n
    <3>2. CASE c # 0
      <4>1. c \in 1 .. offset[n]
        BY <1>4, <1>5, <3>2
      <4>2. PICK i \in 1 .. n : \E k \in 1 .. Len(seqs[i]) : c = offset[i - 1] + k
        BY <1>3, <4>1 DEF Places
      <4>3. PICK k \in 1 .. Len(seqs[i]) : c = offset[i - 1] + k
        BY <4>2
      <4>4. AddsUp(b[i], m[b[i].name], seqs[i])
        BY <1>1 DEF Layout, n
      <4>5. PICK part : Adds(b[i], m[b[i].name], seqs[i], part)
        BY <4>4 DEF AddsUp
      <4>6. Len(seqs[i]) \in Nat
        BY <4>4, LenProperties DEF AddsUp
      <4>7. k \in 0 .. Len(seqs[i]) /\ i - 1 \in 0 .. n /\ (i - 1) + 1 = i
        BY <1>2, <4>6
      <4>8. offset[i - 1] \in Nat
        BY <1>3, <4>7 DEF Offsets
      <4>9. offset[i - 1] <= c
        BY <1>5, <4>3, <4>6, <4>8
      <4>10. MergedTo(ty, m, b, i, part[0], g[offset[i - 1]])
        BY <1>8, <4>5, <4>7, <4>9 DEF Adds
      <4>11. \A l \in 0 .. Len(seqs[i]) : offset[i - 1] + l <= c =>
               MergedTo(ty, m, b, i, part[l], g[offset[i - 1] + l])
        BY <1>1, <1>6, <4>5, <4>10, FieldMerged DEF n
      <4>12. MergedTo(ty, m, b, i, part[k], merged)
        BY <1>5, <1>7, <4>3, <4>7, <4>11
      <4>13. PartOf(b[i], part[k], m[b[i].name])
        BY <4>5, <4>7 DEF Adds
      <4> QED
        BY <1>1, <4>12, <4>13, MergedIsPart
    <3> QED
      BY <3>1, <3>2
  <2> QED
    BY <1>10, <2>1 DEF MergesTo, merged, R
<1> QED
  BY <1>9, <1>10
----------------------------------------------------------------------------
(* What holds of a message if it holds of its sub-messages holds of all.    *)
Pairs == UNION {{<<ty, m>> : m \in Messages(ty)} : ty \in Types}

LEMMA TreeInduction ==
    ASSUME NEW P,
           \A ty \in Types : \A m \in Messages(ty) :
              (\A f \in ToSet(Fields(ty)) : \A s \in Subs(f, m[f.name]) : <<Element(f).msg, s>> \in P)
              => <<ty, m>> \in P
    PROVE  \A ty \in Types : \A m \in Messages(ty) : <<ty, m>> \in P
<1> DEFINE size(x, y) == Cardinality(Nested(x, y))
           Bad == {c \in Nat : \E x \in Types : \E y \in Messages(x) :
                      size(x, y) = c /\ <<x, y>> \notin P}
<1>1. ASSUME NEW x \in Types, NEW y \in Messages(x)
      PROVE  IsFiniteSet(Nested(x, y)) /\ size(x, y) \in Nat
  BY NestedAssumption, FS_CardinalityType
<1>2. ASSUME Bad # {} PROVE FALSE
  <2>1. Bad \subseteq Nat
    OBVIOUS
  <2>2. PICK c \in Bad : \A d \in Bad : c <= d
    <3> HIDE DEF Bad
    <3> QED
      BY <1>2, <2>1, LeastNatural
  <2>3. PICK x \in Types : \E y \in Messages(x) : size(x, y) = c /\ <<x, y>> \notin P
    BY <2>2
  <2>4. PICK y \in Messages(x) : size(x, y) = c /\ <<x, y>> \notin P
    BY <2>3
  <2>5. ASSUME NEW f \in ToSet(Fields(x)), NEW s \in Subs(f, y[f.name])
        PROVE  <<Element(f).msg, s>> \in P
    <3> DEFINE t == Element(f).msg
    <3>1. t \in Types /\ s \in Messages(t)
      BY SubsAreMessages
    <3>2. /\ Nested(t, s) \subseteq Nested(x, y)
          /\ <<x, y>> \notin Nested(t, s) /\ <<x, y>> \in Nested(x, y)
      BY PartIsNested, Itself
    <3>3. size(t, s) < size(x, y)
      <4>1. /\ Cardinality(Nested(t, s)) <= Cardinality(Nested(x, y))
            /\ Cardinality(Nested(x, y)) = Cardinality(Nested(t, s)) => Nested(x, y) = Nested(t, s)
        BY <1>1, <3>2, FS_Subset
      <4>2. Nested(x, y) # Nested(t, s)
        BY <3>2
      <4>3. size(t, s) \in Nat /\ size(x, y) \in Nat
        BY <1>1, <3>1
      <4> QED
        BY <4>1, <4>2, <4>3
    <3>4. size(t, s) \notin Bad
      <4>1. size(t, s) \in Nat /\ c \in Nat
        BY <1>1, <3>1
      <4> HIDE DEF Bad, size
      <4> QED
        BY <2>2, <2>4, <3>3, <4>1
    <3> HIDE DEF size, t
    <3> QED
      BY <1>1, <3>1, <3>4, Zenon DEF Bad, t
  <2> QED
    BY <2>4, <2>5, Zenon
<1>3. Bad = {}
  BY <1>2
<1> HIDE DEF Bad
<1>4. ASSUME NEW ty \in Types, NEW m \in Messages(ty) PROVE <<ty, m>> \in P
  <2>1. ~\E c \in Bad : TRUE
    BY <1>3
  <2>2. size(ty, m) \in Nat
    BY <1>1
  <2> HIDE DEF size
  <2> QED
    BY <2>1, <2>2, Zenon DEF Bad
<1> QED
  BY <1>4

LEMMA PairsAre ==
    ASSUME NEW ty \in Types, NEW m \in Messages(ty)
    PROVE  <<ty, m>> \in Pairs /\ <<ty, m>>[1] = ty /\ <<ty, m>>[2] = m
  BY DEF Pairs

LEMMA SubRecords ==
    ASSUME NEW ty \in Types, NEW m \in Messages(ty)
    PROVE  /\ RecordsSub(ty, m) = Records(ty, m)
           /\ MergeSub(ty, NewMessage(ty), Records(ty, m)) =
                 Merge(ty, NewMessage(ty), Records(ty, m))
  BY WireAssumption, Zenon

LEMMA SubMessagesComeBack ==
    ASSUME NEW ty \in Types, NEW m \in Messages(ty)
    PROVE  \A f \in ToSet(Fields(ty)) : SubsComeBack(f, m[f.name])
<1> DEFINE back(x) == MergeSub(x[1], NewMessage(x[1]), RecordsSub(x[1], x[2])) = x[2]
           P == {x \in Pairs : back(x)}
<1>1. ASSUME NEW t \in Types, NEW n \in Messages(t),
             \A f \in ToSet(Fields(t)) : \A s \in Subs(f, n[f.name]) : <<Element(f).msg, s>> \in P
      PROVE  \A f \in ToSet(Fields(t)) : SubsComeBack(f, n[f.name])
  <2>1. ASSUME NEW f \in ToSet(Fields(t)), NEW s \in Subs(f, n[f.name])
        PROVE  MergeSub(Element(f).msg, NewMessage(Element(f).msg), RecordsSub(Element(f).msg, s)) = s
    <3>1. back(<<Element(f).msg, s>>)
      BY <1>1
    <3> QED
      BY <3>1
  <2> QED
    BY <2>1, Zenon DEF SubsComeBack
<1>2. ASSUME NEW t \in Types, NEW n \in Messages(t),
             \A f \in ToSet(Fields(t)) : \A s \in Subs(f, n[f.name]) : <<Element(f).msg, s>> \in P
      PROVE  <<t, n>> \in P
  <2> DEFINE R == Records(t, n)
  <2>1. \A f \in ToSet(Fields(t)) : SubsComeBack(f, n[f.name])
    BY <1>1, <1>2
  <2>2. IsStartOf(R, R)
    <3>1. Len(R) \in Nat
      <4>1. PICK b, seqs, offset : Layout(t, n, b, seqs, offset)
        BY <2>1, LayoutExists
      <4> QED
        BY <4>1, LenProperties DEF Layout
    <3> HIDE DEF R
    <3> QED
      BY <3>1 DEF IsStartOf
  <2>3. MergesTo(t, n, R)
    BY <2>1, <2>2, RecordsMerge
  <2>4. Merge(t, NewMessage(t), R) = n
    BY <2>3 DEF MergesTo
  <2>5. MergeSub(t, NewMessage(t), RecordsSub(t, n)) = n
    BY <2>4, SubRecords
  <2>6. <<t, n>> \in Pairs /\ <<t, n>>[1] = t /\ <<t, n>>[2] = n
    BY PairsAre
  <2>7. back(<<t, n>>)
    BY <2>5, <2>6
  <2> HIDE DEF back
  <2> QED
    BY <2>6, <2>7
<1> HIDE DEF P
<1>3. \A t \in Types : \A n \in Messages(t) : <<t, n>> \in P
  BY <1>2, TreeInduction, Zenon
<1>4. \A f \in ToSet(Fields(ty)) : \A s \in Subs(f, m[f.name]) : <<Element(f).msg, s>> \in P
  BY <1>3, SubsAreMessages
<1> QED
  BY <1>1, <1>4

(* A message whose records are merged is the message, and what the first of
   its records are merged to is a part of it (libprotobuf's encoding). *)
THEOREM RecordsMergeBack ==
    ASSUME NEW ty \in Types, NEW m \in Messages(ty),
           NEW p, IsStartOf(p, Records(ty, m))
    PROVE  MergesTo(ty, m, p)
  BY SubMessagesComeBack, RecordsMerge

LEMMA LayoutIs ==
    ASSUME NEW ty \in Types, NEW m \in Messages(ty)
    PROVE  \E b, seqs, offset : Layout(ty, m, b, seqs, offset)
  BY SubMessagesComeBack, LayoutExists
----------------------------------------------------------------------------
(* What can be parsed, field by field.                                      *)
ElementCan(e, x, d) ==
    /\ e.type = "string" => x \notin NotUtf8
    /\ e.cpp = "message" => CanBeParsed(e.msg, x, d - 1)
KeyCan(f, x) == f.key.type = "string" => x \notin NotUtf8
MapCan(f, v, d) ==
    \A x \in DOMAIN v : d > 0 /\ KeyCan(f, x) /\ ElementCan(f.value, v[x], d - 1)
ListCan(f, v, d) == \A x \in Values(f, v) : ElementCan(f, x, d)
FieldCan(f, v, d) ==
    /\ f.label = "map" => MapCan(f, v, d)
    /\ f.label # "map" => ListCan(f, v, d)

LEMMA HeightIs ==
    ASSUME NEW ty \in Types, NEW m \in Messages(ty)
    PROVE  /\ Height(ty, m) \in Nat /\ Height(ty, m) \in Heights(ty, m)
           /\ \A n \in Heights(ty, m) : n <= Height(ty, m)
  BY HeightAssumption, Zenon

LEMMA FieldsCan ==
    ASSUME NEW ty \in Types, NEW m \in Messages(ty), NEW d \in Nat,
           CanBeParsed(ty, m, d), NEW f \in ToSet(Fields(ty))
    PROVE  FieldCan(f, m[f.name], d)
<1> DEFINE v == m[f.name]
           h == Height(ty, m)
<1>1. h \in Nat /\ h <= d /\ \A n \in Deeper(f, v) : n <= h
  <2>1. \A n \in Deeper(f, v) : n \in Heights(ty, m)
    BY DEF Heights
  <2> HIDE DEF v
  <2>2. h \in Nat /\ \A n \in Heights(ty, m) : n <= h
    BY HeightIs
  <2>3. h <= d
    BY DEF CanBeParsed
  <2> QED
    BY <2>1, <2>2, <2>3
<1>2. \A x \in Nested(ty, m) : IsUtf8(x[1], x[2])
  BY Zenon DEF CanBeParsed
<1>3. Text(f, v) \cap NotUtf8 = {}
  <2>1. IsUtf8(ty, m)
    <3>1. <<ty, m>> \in Nested(ty, m) /\ <<ty, m>>[1] = ty /\ <<ty, m>>[2] = m
      BY Itself
    <3>2. IsUtf8(<<ty, m>>[1], <<ty, m>>[2])
      BY <1>2, <3>1, Zenon
    <3> QED
      BY <3>1, <3>2
  <2> QED
    BY <2>1, Zenon DEF IsUtf8
<1>4. ASSUME NEW s \in Subs(f, v)
      PROVE  /\ Height(Element(f).msg, s) \in Nat
             /\ \A x \in Nested(Element(f).msg, s) : IsUtf8(x[1], x[2])
  <2>1. Element(f).msg \in Types /\ s \in Messages(Element(f).msg)
    BY SubsAreMessages
  <2>2. Nested(Element(f).msg, s) \subseteq Nested(ty, m)
    BY PartIsNested
  <2>3. Height(Element(f).msg, s) \in Nat
    BY <2>1, HeightIs
  <2> QED
    BY <1>2, <2>2, <2>3, Zenon
<1> HIDE DEF v, h
<1>5. CASE f.label = "map"
  <2>1. ASSUME NEW x \in DOMAIN v
        PROVE  d > 0 /\ KeyCan(f, x) /\ ElementCan(f.value, v[x], d - 1)
    <3>1. v[x] \in Values(f, v) /\ Element(f) = f.value
      BY <1>5 DEF Values, Element
    <3>2. 1 \in Deeper(f, v)
      BY <1>5 DEF Deeper
    <3>3. d > 0
      BY <1>1, <3>2
    <3>4. KeyCan(f, x)
      <4>1. ASSUME f.key.type = "string" PROVE x \in Text(f, v)
        BY <1>5, <4>1 DEF Text, MapText
      <4> QED
        BY <1>3, <4>1 DEF KeyCan
    <3>5. ASSUME f.value.type = "string" PROVE v[x] \notin NotUtf8
      <4>1. v[x] \in Text(f, v)
        BY <3>1, <3>5 DEF Text
      <4> QED
        BY <1>3, <4>1
    <3>6. ASSUME f.value.cpp = "message" PROVE CanBeParsed(f.value.msg, v[x], (d - 1) - 1)
      <4>1. v[x] \in Subs(f, v)
        BY <3>1, <3>6 DEF Subs
      <4>2. 2 + Height(f.value.msg, v[x]) \in Deeper(f, v)
        BY <1>5, <4>1 DEF Deeper
      <4>3. Height(f.value.msg, v[x]) \in Nat
        BY <1>4, <3>1, <4>1
      <4>4. Height(f.value.msg, v[x]) <= (d - 1) - 1
        BY <1>1, <4>2, <4>3
      <4>5. \A y \in Nested(f.value.msg, v[x]) : IsUtf8(y[1], y[2])
        BY <1>4, <3>1, <4>1, Zenon
      <4> QED
        BY <4>4, <4>5, Zenon DEF CanBeParsed
    <3>7. ElementCan(f.value, v[x], d - 1)
      BY <3>5, <3>6, Zenon DEF ElementCan
    <3> QED
      BY <3>3, <3>4, <3>7
  <2>2. MapCan(f, v, d)
    BY <2>1, Zenon DEF MapCan
  <2> QED
    BY <1>5, <2>2 DEF FieldCan, v
<1>6. CASE f.label # "map"
  <2>1. Element(f) = f
    BY <1>6 DEF Element
  <2>2. ASSUME NEW x \in Values(f, v) PROVE ElementCan(f, x, d)
    <3>1. ASSUME f.type = "string" PROVE x \notin NotUtf8
      <4>1. x \in Text(f, v)
        BY <2>1, <3>1 DEF Text
      <4> QED
        BY <1>3, <4>1
    <3>2. ASSUME f.cpp = "message" PROVE CanBeParsed(f.msg, x, d - 1)
      <4>1. x \in Subs(f, v)
        BY <2>1, <3>2 DEF Subs
      <4>2. 1 + Height(f.msg, x) \in Deeper(f, v)
        BY <1>6, <4>1 DEF Deeper
      <4>3. Height(f.msg, x) \in Nat
        BY <1>4, <2>1, <4>1
      <4>4. Height(f.msg, x) <= d - 1
        BY <1>1, <4>2, <4>3
      <4>5. \A y \in Nested(f.msg, x) : IsUtf8(y[1], y[2])
        BY <1>4, <2>1, <4>1, Zenon
      <4> QED
        BY <4>4, <4>5, Zenon DEF CanBeParsed
    <3> QED
      BY <3>1, <3>2, Zenon DEF ElementCan
  <2>3. ListCan(f, v, d)
    BY <2>2, Zenon DEF ListCan
  <2> QED
    BY <1>6, <2>3 DEF FieldCan, v
<1> QED
  BY <1>5, <1>6

LEMMA CanIfFieldsCan ==
    ASSUME NEW ty \in Types, NEW m \in Messages(ty), NEW d \in Nat,
           \A f \in ToSet(Fields(ty)) : FieldCan(f, m[f.name], d)
    PROVE  CanBeParsed(ty, m, d)
<1>1. ASSUME NEW f \in ToSet(Fields(ty)), NEW s \in Subs(f, m[f.name])
      PROVE  /\ Height(Element(f).msg, s) \in Nat
             /\ CanBeParsed(Element(f).msg, s, IF f.label = "map" THEN (d - 1) - 1 ELSE d - 1)
  <2> DEFINE v == m[f.name]
  <2>1. Element(f).msg \in Types /\ s \in Messages(Element(f).msg)
    BY SubsAreMessages
  <2>2. Height(Element(f).msg, s) \in Nat
    BY <2>1, HeightIs
  <2>3. Element(f).cpp = "message" /\ s \in Values(f, v)
    BY DEF Subs
  <2>4. FieldCan(f, v, d)
    OBVIOUS
  <2> HIDE DEF v
  <2>5. CASE f.label = "map"
    <3>1. Element(f) = f.value
      BY <2>5 DEF Element
    <3>2. PICK x \in DOMAIN v : s = v[x]
      BY <2>3, <2>5 DEF Values
    <3>3. ElementCan(f.value, v[x], d - 1)
      BY <2>4, <2>5, Zenon DEF FieldCan, MapCan
    <3>4. CanBeParsed(f.value.msg, v[x], (d - 1) - 1)
      BY <2>3, <3>1, <3>3, Zenon DEF ElementCan
    <3> QED
      BY <2>2, <2>5, <3>1, <3>2, <3>4
  <2>6. CASE f.label # "map"
    <3>1. Element(f) = f
      BY <2>6 DEF Element
    <3>2. ElementCan(f, s, d)
      BY <2>3, <2>4, <2>6, Zenon DEF FieldCan, ListCan
    <3>3. CanBeParsed(f.msg, s, d - 1)
      BY <2>3, <3>1, <3>2, Zenon DEF ElementCan
    <3> QED
      BY <2>2, <2>6, <3>1, <3>3
  <2> QED
    BY <2>5, <2>6
<1>2. ASSUME NEW f \in ToSet(Fields(ty)), NEW n \in Deeper(f, m[f.name])
      PROVE  n <= d
  <2> DEFINE v == m[f.name]
  <2>1. \A s \in Subs(f, v) :
           /\ Height(Element(f).msg, s) \in Nat
           /\ Height(Element(f).msg, s) <= IF f.label = "map" THEN (d - 1) - 1 ELSE d - 1
    BY <1>1, Zenon DEF CanBeParsed
  <2>2. FieldCan(f, v, d) /\ n \in Deeper(f, v)
    OBVIOUS
  <2> HIDE DEF v
  <2>3. CASE f.label = "map"
    <3>1. Element(f) = f.value
      BY <2>3 DEF Element
    <3>2. CASE n \in {1 : x \in DOMAIN v}
      <4>1. PICK x \in DOMAIN v : n = 1
        BY <3>2
      <4>2. d > 0
        BY <2>2, <2>3, Zenon DEF FieldCan, MapCan
      <4> QED
        BY <4>1, <4>2
    <3>3. CASE n \in {2 + Height(f.value.msg, s) : s \in Subs(f, v)}
      <4>1. PICK s \in Subs(f, v) : n = 2 + Height(f.value.msg, s)
        BY <3>3
      <4>2. Height(f.value.msg, s) \in Nat /\ Height(f.value.msg, s) <= (d - 1) - 1
        BY <2>1, <2>3, <3>1
      <4> QED
        BY <4>1, <4>2
    <3> QED
      BY <2>2, <2>3, <3>2, <3>3 DEF Deeper
  <2>4. CASE f.label # "map"
    <3>1. Element(f) = f
      BY <2>4 DEF Element
    <3>2. PICK s \in Subs(f, v) : n = 1 + Height(f.msg, s)
      BY <2>2, <2>4 DEF Deeper
    <3>3. Height(f.msg, s) \in Nat /\ Height(f.msg, s) <= d - 1
      BY <2>1, <2>4, <3>1
    <3> QED
      BY <3>2, <3>3
  <2> QED
    BY <2>3, <2>4
<1>3. Height(ty, m) <= d
  <2>1. Height(ty, m) \in Heights(ty, m)
    BY HeightIs
  <2>2. Height(ty, m) = 0 \/ \E f \in ToSet(Fields(ty)) : Height(ty, m) \in Deeper(f, m[f.name])
    BY <2>1 DEF Heights
  <2> QED
    BY <1>2, <2>2
<1>4. IsUtf8(ty, m)
  <2>1. ASSUME NEW f \in ToSet(Fields(ty)), NEW x \in Text(f, m[f.name])
        PROVE  x \notin NotUtf8
    <3> DEFINE v == m[f.name]
    <3>1. FieldCan(f, v, d) /\ x \in Text(f, v)
      OBVIOUS
    <3> HIDE DEF v
    <3>2. CASE f.label = "map"
      <4>1. Element(f) = f.value
        BY <3>2 DEF Element
      <4>2. \A y \in DOMAIN v : KeyCan(f, y) /\ ElementCan(f.value, v[y], d - 1)
        BY <3>1, <3>2, Zenon DEF FieldCan, MapCan
      <4>3. CASE f.key.type = "string" /\ x \in DOMAIN v
        BY <4>2, <4>3, Zenon DEF KeyCan
      <4>4. CASE f.value.type = "string" /\ x \in Values(f, v)
        <5>1. PICK y \in DOMAIN v : x = v[y]
          BY <3>2, <4>4 DEF Values
        <5>2. ElementCan(f.value, v[y], d - 1)
          BY <4>2, Zenon
        <5> QED
          BY <4>4, <5>1, <5>2, Zenon DEF ElementCan
      <4> QED
        BY <3>1, <3>2, <4>1, <4>3, <4>4 DEF Text, MapText
    <3>3. CASE f.label # "map"
      <4>1. Element(f) = f
        BY <3>3 DEF Element
      <4>2. x \in Values(f, v) /\ f.type = "string"
        BY <3>1, <3>3, <4>1 DEF Text, MapText
      <4>3. ElementCan(f, x, d)
        BY <3>1, <3>3, <4>2, Zenon DEF FieldCan, ListCan
      <4> QED
        BY <4>2, <4>3, Zenon DEF ElementCan
    <3> QED
      BY <3>2, <3>3
  <2>2. \A f \in ToSet(Fields(ty)) : Text(f, m[f.name]) \cap NotUtf8 = {}
    BY <2>1
  <2> QED
    BY <2>2, Zenon DEF IsUtf8
<1>5. ASSUME NEW y \in Nested(ty, m) PROVE IsUtf8(y[1], y[2])
  <2>1. CASE y = <<ty, m>>
    <3>1. y[1] = ty /\ y[2] = m
      BY <2>1
    <3> QED
      BY <1>4, <3>1
  <2>2. CASE \E f \in ToSet(Fields(ty)) : \E s \in Subs(f, m[f.name]) : y \in Nested(Element(f).msg, s)
    <3>1. PICK f \in ToSet(Fields(ty)) : \E s \in Subs(f, m[f.name]) : y \in Nested(Element(f).msg, s)
      BY <2>2
    <3>2. PICK s \in Subs(f, m[f.name]) : y \in Nested(Element(f).msg, s)
      BY <3>1
    <3>3. CanBeParsed(Element(f).msg, s, IF f.label = "map" THEN (d - 1) - 1 ELSE d - 1)
      BY <1>1, Zenon
    <3> QED
      BY <3>2, <3>3, Zenon DEF CanBeParsed
  <2> QED
    BY <2>1, <2>2, OfParts, Zenon
<1> QED
  BY <1>3, <1>5, Zenon DEF CanBeParsed

(* What is parsed, record by record, if sub-messages are parsed when they
   can be. *)
SubParses(ty, s) ==
    /\ Height(ty, s) \in Nat
    /\ \A d \in 0 .. RecursionLimit : ParsesSub(ty, RecordsSub(ty, s), d) <=> CanBeParsed(ty, s, d)
SubsParse(f, v) == \A s \in Subs(f, v) : SubParses(Element(f).msg, s)
ElementAgrees(e, x, d) == ParsesValue(e, Encode(e, x), d) <=> ElementCan(e, x, d)
FieldParses(f, v, d) ==
    \A r \in ToSet(FieldRecords(f, v)) : ParsesField(f, r.val[2], d)
FieldAgrees(f, v, d) == FieldParses(f, v, d) <=> FieldCan(f, v, d)

LEMMA ElementParses ==
    ASSUME RecursionLimit \in Nat, NEW e, NEW x, NEW d \in 0 .. RecursionLimit,
           e.type = "string" => e.cpp = "string",
           e.cpp = "message" => SubParses(e.msg, x)
    PROVE  ElementAgrees(e, x, d)
<1>1. CASE e.cpp = "message"
  <2>1. e.type # "string" /\ Encode(e, x) = RecordsSub(e.msg, x)
    BY <1>1 DEF Encode
  <2>2. SubParses(e.msg, x)
    BY <1>1, Zenon
  <2>3. CASE d = 0
    <3>1. Height(e.msg, x) \in Nat
      BY <2>2, Zenon DEF SubParses
    <3>2. ~(d > 0) /\ ~(Height(e.msg, x) <= d - 1)
      BY <2>3, <3>1
    <3>3. ~CanBeParsed(e.msg, x, d - 1)
      BY <3>2, Zenon DEF CanBeParsed
    <3> QED
      BY <1>1, <3>2, <3>3, Zenon DEF ElementAgrees, ParsesValue, ElementCan
  <2>4. CASE d # 0
    <3>1. d - 1 \in 0 .. RecursionLimit /\ d > 0
      BY <2>4
    <3>2. ParsesSub(e.msg, RecordsSub(e.msg, x), d - 1) <=> CanBeParsed(e.msg, x, d - 1)
      BY <2>2, <3>1, Zenon DEF SubParses
    <3> QED
      BY <1>1, <2>1, <3>1, <3>2, Zenon DEF ElementAgrees, ParsesValue, ElementCan
  <2> QED
    BY <2>3, <2>4
<1>2. CASE e.cpp # "message"
  <2>1. Encode(e, x) = x
    BY <1>2 DEF Encode
  <2> QED
    BY <1>2, <2>1, Zenon DEF ElementAgrees, ParsesValue, ElementCan
<1> QED
  BY <1>1, <1>2

(* What the field of a type, and of its elements, are like. *)
LEMMA ElementType ==
    ASSUME NEW ty \in Types, NEW f \in ToSet(Fields(ty))
    PROVE  IsField(f) /\ (Element(f).type = "string" => Element(f).cpp = "string")
<1>1. Element(f).type = "string" => Element(f).cpp = "string"
  BY WireAssumption, Zenon
<1>2. IsField(f)
  BY FieldsOf
<1> QED
  BY <1>1, <1>2

LEMMA MapParses ==
    ASSUME RecursionLimit \in Nat, NEW f, f.label = "map", f.key.cpp # "message",
           f.value.type = "string" => f.value.cpp = "string",
           NEW v, IsValue(f, v), SubsParse(f, v), NEW d \in 0 .. RecursionLimit
    PROVE  FieldAgrees(f, v, d)
<1> DEFINE order == SetToSeq(DOMAIN v)
           n == Cardinality(DOMAIN v)
           recs == FieldRecords(f, v)
           entry(x) == [key |-> x, value |-> Encode(f.value, v[x])]
<1>1. /\ recs = [k \in 1 .. n |-> Record(f, entry(order[k]))]
      /\ n \in Nat /\ \A k \in 1 .. n : order[k] \in DOMAIN v
      /\ \A x \in DOMAIN v : \E k \in 1 .. n : order[k] = x
  BY MapRecords
<1> HIDE DEF order, n, recs
<1>2. Element(f) = f.value
  BY DEF Element
<1>3. ASSUME NEW x \in DOMAIN v
      PROVE  ParsesField(f, entry(x), d) <=>
                d > 0 /\ KeyCan(f, x) /\ ElementCan(f.value, v[x], d - 1)
  <2>1. entry(x).key = x /\ entry(x).value = Encode(f.value, v[x])
    OBVIOUS
  <2> HIDE DEF entry
  <2>2. ParsesField(f, entry(x), d) <=>
           /\ d > 0 /\ ParsesValue(f.key, x, d - 1)
           /\ ParsesValue(f.value, Encode(f.value, v[x]), d - 1)
    BY <2>1, Zenon DEF ParsesField
  <2>3. ParsesValue(f.key, x, d - 1) <=> KeyCan(f, x)
    BY Zenon DEF ParsesValue, KeyCan
  <2>4. CASE d > 0
    <3>1. d - 1 \in 0 .. RecursionLimit
      BY <2>4
    <3>2. f.value.cpp = "message" => SubParses(f.value.msg, v[x])
      <4>1. ASSUME f.value.cpp = "message" PROVE v[x] \in Subs(f, v)
        BY <1>2, <4>1 DEF Subs, Values
      <4> QED
        BY <1>2, <4>1, Zenon DEF SubsParse
    <3>3. ElementAgrees(f.value, v[x], d - 1)
      BY <3>1, <3>2, ElementParses, Zenon
    <3> QED
      BY <2>2, <2>3, <3>3, Zenon DEF ElementAgrees
  <2>5. CASE ~(d > 0)
    BY <2>2, <2>5, Zenon
  <2> QED
    BY <2>4, <2>5, Zenon
<1>4. DOMAIN recs = 1 .. n /\ \A k \in 1 .. n : recs[k] = Record(f, entry(order[k]))
  BY <1>1
<1> HIDE DEF entry
<1>5. \A k \in 1 .. n : recs[k].val[2] = entry(order[k])
  BY <1>4, RecordIs
<1>6. ASSUME FieldParses(f, v, d) PROVE MapCan(f, v, d)
  <2>1. ASSUME NEW x \in DOMAIN v PROVE ParsesField(f, entry(x), d)
    <3>1. PICK k \in 1 .. n : order[k] = x
      BY <1>1
    <3>2. recs[k] \in ToSet(recs) /\ recs[k].val[2] = entry(x)
      BY <1>4, <1>5, <3>1 DEF ToSet
    <3>3. ParsesField(f, recs[k].val[2], d)
      BY <1>6, <3>2, Zenon DEF FieldParses, recs
    <3> QED
      BY <3>2, <3>3
  <2> QED
    BY <1>3, <2>1, Zenon DEF MapCan
<1>7. ASSUME MapCan(f, v, d) PROVE FieldParses(f, v, d)
  <2>1. ASSUME NEW r \in ToSet(recs) PROVE ParsesField(f, r.val[2], d)
    <3>1. PICK k \in 1 .. n : r = recs[k]
      BY <1>4 DEF ToSet
    <3>2. order[k] \in DOMAIN v /\ r.val[2] = entry(order[k])
      BY <1>1, <1>5, <3>1
    <3>3. ParsesField(f, entry(order[k]), d)
      BY <1>3, <1>7, <3>2, Zenon DEF MapCan
    <3> QED
      BY <3>2, <3>3
  <2> QED
    BY <2>1, Zenon DEF FieldParses, recs
<1> QED
  BY <1>6, <1>7, Zenon DEF FieldAgrees, FieldCan

LEMMA ListParses ==
    ASSUME RecursionLimit \in Nat, NEW f, f.label = "repeated", f.cpp \in {"string", "message"},
           f.type = "string" => f.cpp = "string",
           NEW v, IsValue(f, v), SubsParse(f, v), NEW d \in 0 .. RecursionLimit
    PROVE  FieldAgrees(f, v, d)
<1> DEFINE n == Len(v)
           recs == FieldRecords(f, v)
<1>1. /\ recs = [k \in 1 .. n |-> Record(f, Encode(f, v[k]))]
      /\ n \in Nat /\ DOMAIN v = 1 .. n
  BY ListRecords
<1>2. Element(f) = f /\ Values(f, v) = {v[k] : k \in 1 .. n}
  BY <1>1 DEF Element, Values, ToSet
<1> HIDE DEF n, recs
<1>3. f.label # "map"
  OBVIOUS
<1>4. ASSUME NEW x \in Values(f, v)
      PROVE  ParsesField(f, Encode(f, x), d) <=> ElementCan(f, x, d)
  <2>1. f.cpp = "message" => SubParses(f.msg, x)
    <3>1. ASSUME f.cpp = "message" PROVE x \in Subs(f, v)
      BY <1>2, <3>1 DEF Subs
    <3> QED
      BY <1>2, <3>1, Zenon DEF SubsParse
  <2>2. ElementAgrees(f, x, d)
    BY <2>1, ElementParses, Zenon
  <2> QED
    BY <1>3, <2>2, Zenon DEF ElementAgrees, ParsesField
<1>5. DOMAIN recs = 1 .. n /\ \A k \in 1 .. n : recs[k] = Record(f, Encode(f, v[k]))
  BY <1>1
<1>6. \A k \in 1 .. n : recs[k].val[2] = Encode(f, v[k])
  BY <1>5, RecordIs
<1>7. ASSUME FieldParses(f, v, d) PROVE ListCan(f, v, d)
  <2>1. ASSUME NEW x \in Values(f, v) PROVE ParsesField(f, Encode(f, x), d)
    <3>1. PICK k \in 1 .. n : x = v[k]
      BY <1>2
    <3>2. recs[k] \in ToSet(recs) /\ recs[k].val[2] = Encode(f, x)
      BY <1>5, <1>6, <3>1 DEF ToSet
    <3>3. ParsesField(f, recs[k].val[2], d)
      BY <1>7, <3>2, Zenon DEF FieldParses, recs
    <3> QED
      BY <3>2, <3>3
  <2> QED
    BY <1>4, <2>1, Zenon DEF ListCan
<1>8. ASSUME ListCan(f, v, d) PROVE FieldParses(f, v, d)
  <2>1. ASSUME NEW r \in ToSet(recs) PROVE ParsesField(f, r.val[2], d)
    <3>1. PICK k \in 1 .. n : r = recs[k]
      BY <1>5 DEF ToSet
    <3>2. v[k] \in Values(f, v) /\ r.val[2] = Encode(f, v[k])
      BY <1>2, <1>6, <3>1
    <3>3. ParsesField(f, Encode(f, v[k]), d)
      BY <1>4, <1>8, <3>2, Zenon DEF ListCan
    <3> QED
      BY <3>2, <3>3
  <2> QED
    BY <2>1, Zenon DEF FieldParses, recs
<1> QED
  BY <1>3, <1>7, <1>8, Zenon DEF FieldAgrees, FieldCan

LEMMA SmallSets == ToSet(<<>>) = {} /\ \A r : ToSet(<<r>>) = {r}
<1>1. ToSet(<<>>) = {}
  BY DEF ToSet
<1>2. ASSUME NEW r PROVE ToSet(<<r>>) = {r}
  BY DEF ToSet
<1> QED
  BY <1>1, <1>2

LEMMA OneParses ==
    ASSUME RecursionLimit \in Nat, "" \notin NotUtf8,
           NEW f, f.label = "singular" \/ (f.label = "repeated" /\ f.cpp \notin {"string", "message"}),
           IsField(f), f.type = "string" => f.cpp = "string",
           NEW v, IsValue(f, v), SubsParse(f, v), NEW d \in 0 .. RecursionLimit
    PROVE  FieldAgrees(f, v, d)
<1> DEFINE recs == FieldRecords(f, v)
<1>1. f.label # "map" /\ Element(f) = f
  BY DEF Element
<1>2. CASE f.label = "repeated"
  <2>1. f.type # "string" /\ f.cpp # "message"
    BY <1>2
  <2>2. \A x : ElementCan(f, x, d)
    BY <2>1, Zenon DEF ElementCan
  <2>3. \A x : ParsesField(f, x, d)
    BY <1>1, <2>1, Zenon DEF ParsesField, ParsesValue
  <2>4. FieldParses(f, v, d) /\ ListCan(f, v, d)
    BY <2>2, <2>3, Zenon DEF FieldParses, ListCan
  <2> QED
    BY <1>1, <2>4, Zenon DEF FieldAgrees, FieldCan
<1>3. CASE f.label = "singular" /\ v = Default(f)
  <2>1. ToSet(recs) = {}
    <3>1. recs = <<>>
      BY <1>3, Zenon DEF FieldRecords
    <3> HIDE DEF recs
    <3> QED
      BY <3>1, SmallSets
  <2>2. FieldParses(f, v, d)
    <3> HIDE DEF recs
    <3>1. \A r \in ToSet(recs) : FALSE
      BY <2>1
    <3> QED
      BY <3>1, Zenon DEF FieldParses, recs
  <2>3. \A x \in Values(f, v) : f.cpp # "message" /\ (f.type = "string" => x = "")
    BY <1>3 DEF Values, Default
  <2>4. ListCan(f, v, d)
    BY <2>3, Zenon DEF ListCan, ElementCan
  <2> QED
    BY <1>1, <2>2, <2>4, Zenon DEF FieldAgrees, FieldCan
<1>4. CASE f.label = "singular" /\ v # Default(f)
  <2>1. v # Unset
    <3>1. ASSUME v = Unset PROVE FALSE
      <4>1. f.oneof = "" /\ f.cpp # "message"
        BY <1>4, <3>1 DEF Default
      <4>2. v \in Scalars(f)
        BY <1>4, <4>1 DEF IsValue, ElementValues
      <4>3. IsElement(f)
        BY <1>1 DEF IsField, Describes
      <4> QED
        BY <3>1, <4>1, <4>2, <4>3, ScalarsAreSet
    <3> QED
      BY <3>1
  <2>2. Values(f, v) = {v}
    BY <1>4, <2>1 DEF Values
  <2>3. recs = <<Record(f, Encode(f, v))>>
    BY <1>4, OneRecord
  <2>4. ToSet(recs) = {Record(f, Encode(f, v))} /\ Record(f, Encode(f, v)).val[2] = Encode(f, v)
    <3> DEFINE r == Record(f, Encode(f, v))
    <3>1. r.val[2] = Encode(f, v)
      BY RecordIs
    <3>2. recs = <<r>>
      BY <2>3
    <3> HIDE DEF recs, r
    <3>3. ToSet(recs) = {r}
      BY <3>2, SmallSets
    <3> QED
      BY <3>1, <3>3 DEF r
  <2>5. f.cpp = "message" => SubParses(f.msg, v)
    <3>1. ASSUME f.cpp = "message" PROVE v \in Subs(f, v)
      BY <1>1, <2>2, <3>1 DEF Subs
    <3> QED
      BY <1>1, <3>1, Zenon DEF SubsParse
  <2>6. ElementAgrees(f, v, d)
    BY <2>5, ElementParses, Zenon
  <2>7. FieldParses(f, v, d) <=> ParsesValue(f, Encode(f, v), d)
    <3> DEFINE r == Record(f, Encode(f, v))
    <3>1. r \in ToSet(recs) /\ \A q \in ToSet(recs) : q = r
      BY <2>4
    <3>2. r.val[2] = Encode(f, v)
      BY <2>4
    <3> HIDE DEF r
    <3> QED
      BY <1>1, <3>1, <3>2, Zenon DEF FieldParses, ParsesField, recs
  <2>8. ListCan(f, v, d) <=> ElementCan(f, v, d)
    <3>1. v \in Values(f, v) /\ \A x \in Values(f, v) : x = v
      BY <2>2
    <3> QED
      BY <3>1, Zenon DEF ListCan
  <2> QED
    BY <1>1, <2>6, <2>7, <2>8, Zenon DEF FieldAgrees, FieldCan, ElementAgrees
<1> QED
  BY <1>2, <1>3, <1>4

LEMMA FieldIsParsed ==
    ASSUME RecursionLimit \in Nat, "" \notin NotUtf8, NEW ty \in Types, NEW m \in Messages(ty),
           NEW f \in ToSet(Fields(ty)), SubsParse(f, m[f.name]), NEW d \in 0 .. RecursionLimit
    PROVE  FieldAgrees(f, m[f.name], d)
<1> DEFINE v == m[f.name]
<1>1. IsField(f) /\ (Element(f).type = "string" => Element(f).cpp = "string")
  BY ElementType
<1>2. IsValue(f, v)
  <2>1. IsMessage(ty, m)
    BY MessagesAssumption
  <2> QED
    BY <2>1 DEF IsMessage
<1>3. SubsParse(f, v)
  OBVIOUS
<1> HIDE DEF v
<1>4. CASE f.label = "map"
  <2>1. f.key.cpp # "message" /\ (f.value.type = "string" => f.value.cpp = "string")
    BY <1>1, <1>4 DEF IsField, Element
  <2>2. FieldAgrees(f, v, d)
    BY <1>2, <1>3, <1>4, <2>1, MapParses, Zenon
  <2> QED
    BY <2>2 DEF v
<1>5. CASE f.label # "map"
  <2>1. /\ f.type = "string" => f.cpp = "string"
        /\ f.label = "singular" \/ f.label = "repeated"
    BY <1>1, <1>5 DEF IsField, Element
  <2>2. FieldAgrees(f, v, d)
    <3>1. CASE f.label = "repeated" /\ f.cpp \in {"string", "message"}
      BY <1>2, <1>3, <2>1, <3>1, ListParses, Zenon
    <3>2. CASE f.label = "singular" \/ (f.label = "repeated" /\ f.cpp \notin {"string", "message"})
      BY <1>1, <1>2, <1>3, <2>1, <3>2, OneParses, Zenon
    <3> QED
      BY <2>1, <3>1, <3>2, Zenon
  <2> QED
    BY <2>2 DEF v
<1> QED
  BY <1>4, <1>5

LEMMA RecordsAre ==
    ASSUME NEW ty, NEW m, NEW b, NEW seqs, NEW offset, Layout(ty, m, b, seqs, offset)
    PROVE  /\ \A r \in ToSet(Records(ty, m)) : \E i \in 1 .. Len(b) : r \in ToSet(seqs[i])
           /\ \A i \in 1 .. Len(b) : \A r \in ToSet(seqs[i]) : r \in ToSet(Records(ty, m))
<1> DEFINE R == Records(ty, m)
           n == Len(b)
<1>1. Places(seqs, n, offset, R) /\ Offsets(seqs, n, offset) /\ n \in Nat
  BY DEF Layout, IsConcat, EachOnce
<1>2. /\ R \in Seq(ToSet(R)) /\ \A i \in 1 .. n : seqs[i] \in Seq(ToSet(seqs[i]))
  BY DEF Layout, AddsUp
<1> HIDE DEF R, n
<1>3. /\ DOMAIN R = 1 .. Len(R) /\ Len(R) = offset[n]
      /\ \A i \in 1 .. n : DOMAIN seqs[i] = 1 .. Len(seqs[i])
  <2>1. Len(R) = offset[n]
    BY <1>1 DEF Places
  <2> QED
    BY <1>2, <2>1, LenProperties
<1>4. ASSUME NEW r \in ToSet(R) PROVE \E i \in 1 .. n : r \in ToSet(seqs[i])
  <2>1. PICK c \in 1 .. offset[n] : r = R[c]
    BY <1>3 DEF ToSet
  <2>2. PICK i \in 1 .. n : \E k \in 1 .. Len(seqs[i]) : c = offset[i - 1] + k
    BY <1>1, <2>1 DEF Places
  <2>3. PICK k \in 1 .. Len(seqs[i]) : c = offset[i - 1] + k
    BY <2>2
  <2>4. r = seqs[i][k]
    BY <1>1, <2>1, <2>3 DEF Places
  <2>5. r \in ToSet(seqs[i])
    BY <1>3, <2>4 DEF ToSet
  <2> QED
    BY <2>5
<1>5. ASSUME NEW i \in 1 .. n, NEW r \in ToSet(seqs[i]) PROVE r \in ToSet(R)
  <2>1. PICK k \in 1 .. Len(seqs[i]) : r = seqs[i][k]
    BY <1>3 DEF ToSet
  <2>2. offset[i - 1] + k \in 1 .. offset[n] /\ R[offset[i - 1] + k] = r
    BY <1>1, <2>1 DEF Places
  <2> QED
    BY <1>3, <2>2 DEF ToSet
<1> QED
  BY <1>4, <1>5 DEF R, n

LEMMA UpTo == \A n : \A d \in 0 .. n : d \in Nat
  OBVIOUS

Agrees(ty, m, d) == Parses(ty, Records(ty, m), d) <=> CanBeParsed(ty, m, d)

LEMMA MessageParses ==
    ASSUME RecursionLimit \in Nat, "" \notin NotUtf8, NEW ty \in Types, NEW m \in Messages(ty),
           \A f \in ToSet(Fields(ty)) : SubsParse(f, m[f.name]), NEW d \in 0 .. RecursionLimit
    PROVE  Agrees(ty, m, d)
<1>1. PICK b, seqs, offset : Layout(ty, m, b, seqs, offset)
  BY LayoutIs
<1> DEFINE R == Records(ty, m)
           n == Len(b)
<1>2. /\ \A r \in ToSet(R) : \E i \in 1 .. n : r \in ToSet(seqs[i])
      /\ \A i \in 1 .. n : \A r \in ToSet(seqs[i]) : r \in ToSet(R)
  BY <1>1, RecordsAre
<1>3. /\ \A i \in 1 .. n : b[i] \in ToSet(Fields(ty))
      /\ \A f \in ToSet(Fields(ty)) : \E i \in 1 .. n : b[i] = f
  BY <1>1, Zenon DEF Layout, EachOnce
<1>4. \A i \in 1 .. n :
         /\ seqs[i] = FieldRecords(b[i], m[b[i].name])
         /\ \A r \in ToSet(seqs[i]) : r.num = b[i].num
  BY <1>1 DEF Layout, AddsUp
<1>5. \A f, g \in ToSet(Fields(ty)) : f.num = g.num => f = g
  BY NumbersDiffer
<1>6. \A f \in ToSet(Fields(ty)) : FieldAgrees(f, m[f.name], d)
  BY FieldIsParsed
<1>7. d \in Nat
  BY UpTo, Zenon
<1> HIDE DEF R, n
<1>8. ASSUME Parses(ty, R, d) PROVE CanBeParsed(ty, m, d)
  <2>1. ASSUME NEW f \in ToSet(Fields(ty)) PROVE FieldCan(f, m[f.name], d)
    <3>1. PICK i \in 1 .. n : b[i] = f
      BY <1>3
    <3>2. ASSUME NEW r \in ToSet(FieldRecords(f, m[f.name])) PROVE ParsesField(f, r.val[2], d)
      <4>1. r \in ToSet(seqs[i])
        BY <1>4, <3>1
      <4>2. r \in ToSet(R) /\ f.num = r.num
        BY <1>2, <1>4, <3>1, <4>1
      <4> QED
        BY <1>8, <4>2, Zenon DEF Parses
    <3>3. FieldParses(f, m[f.name], d)
      BY <3>2, Zenon DEF FieldParses
    <3> QED
      BY <1>6, <3>3, Zenon DEF FieldAgrees
  <2> QED
    BY <1>7, <2>1, CanIfFieldsCan
<1>9. ASSUME CanBeParsed(ty, m, d) PROVE Parses(ty, R, d)
  <2>1. ASSUME NEW r \in ToSet(R), NEW f \in ToSet(Fields(ty)), f.num = r.num
        PROVE  ParsesField(f, r.val[2], d)
    <3>1. PICK i \in 1 .. n : r \in ToSet(seqs[i])
      BY <1>2
    <3>2. b[i] = f
      BY <1>3, <1>4, <1>5, <2>1, <3>1
    <3>3. FieldCan(f, m[f.name], d)
      BY <1>7, <1>9, FieldsCan
    <3>4. FieldParses(f, m[f.name], d)
      BY <1>6, <3>3, Zenon DEF FieldAgrees
    <3>5. r \in ToSet(FieldRecords(f, m[f.name]))
      BY <1>4, <3>1, <3>2
    <3> QED
      BY <3>4, <3>5, Zenon DEF FieldParses
  <2> QED
    BY <2>1, Zenon DEF Parses
<1> QED
  BY <1>8, <1>9, Zenon DEF Agrees, R

LEMMA SubMessagesParse ==
    ASSUME NEW ty \in Types, NEW m \in Messages(ty)
    PROVE  \A f \in ToSet(Fields(ty)) : SubsParse(f, m[f.name])
<1> DEFINE P == {x \in Pairs : SubParses(x[1], x[2])}
<1>1. ASSUME NEW t \in Types, NEW n \in Messages(t),
             \A f \in ToSet(Fields(t)) : \A s \in Subs(f, n[f.name]) : <<Element(f).msg, s>> \in P
      PROVE  \A f \in ToSet(Fields(t)) : SubsParse(f, n[f.name])
  <2>1. ASSUME NEW f \in ToSet(Fields(t)), NEW s \in Subs(f, n[f.name])
        PROVE  SubParses(Element(f).msg, s)
    <3> DEFINE x == <<Element(f).msg, s>>
    <3>1. SubParses(x[1], x[2])
      BY <1>1, Zenon
    <3>2. x[1] = Element(f).msg /\ x[2] = s
      OBVIOUS
    <3> HIDE DEF x
    <3> QED
      BY <3>1, <3>2
  <2> QED
    BY <2>1, Zenon DEF SubsParse
<1>2. RecursionLimit \in Nat /\ "" \notin NotUtf8
  BY WireAssumption, Zenon
<1>3. ASSUME NEW t \in Types, NEW n \in Messages(t),
             \A f \in ToSet(Fields(t)) : \A s \in Subs(f, n[f.name]) : <<Element(f).msg, s>> \in P
      PROVE  <<t, n>> \in P
  <2>1. \A f \in ToSet(Fields(t)) : SubsParse(f, n[f.name])
    BY <1>1, <1>3
  <2>2. ASSUME NEW d \in 0 .. RecursionLimit
        PROVE  ParsesSub(t, RecordsSub(t, n), d) <=> CanBeParsed(t, n, d)
    <3>1. Agrees(t, n, d)
      BY <1>2, <2>1, MessageParses, Zenon
    <3>2. RecordsSub(t, n) = Records(t, n)
      BY SubRecords, Zenon
    <3>3. ParsesSub(t, Records(t, n), d) <=> Parses(t, Records(t, n), d)
      BY WireAssumption, Zenon
    <3> QED
      BY <3>1, <3>2, <3>3, Zenon DEF Agrees
  <2>3. Height(t, n) \in Nat
    BY HeightIs, Zenon
  <2>4. SubParses(t, n)
    BY <2>2, <2>3, Zenon DEF SubParses
  <2>5. <<t, n>> \in Pairs /\ <<t, n>>[1] = t /\ <<t, n>>[2] = n
    BY PairsAre
  <2>6. SubParses(<<t, n>>[1], <<t, n>>[2])
    BY <2>4, <2>5
  <2> QED
    BY <2>5, <2>6, Zenon
<1> HIDE DEF P
<1>4. \A t \in Types : \A n \in Messages(t) : <<t, n>> \in P
  BY <1>3, TreeInduction, Zenon
<1>5. \A f \in ToSet(Fields(ty)) : \A s \in Subs(f, m[f.name]) : <<Element(f).msg, s>> \in P
  BY <1>4, SubsAreMessages
<1> QED
  BY <1>1, <1>5

(* All records of a message are parsed exactly if its text is UTF-8 and its
   sub-messages are nested no deeper than libprotobuf goes. *)
THEOREM RecordsParse ==
    ASSUME NEW ty \in Types, NEW m \in Messages(ty), NEW d \in 0 .. RecursionLimit
    PROVE  Parses(ty, Records(ty, m), d) <=> CanBeParsed(ty, m, d)
<1>1. RecursionLimit \in Nat /\ "" \notin NotUtf8
  BY WireAssumption, Zenon
<1>2. Agrees(ty, m, d)
  BY <1>1, SubMessagesParse, MessageParses, Zenon
<1> QED
  BY <1>2, Zenon DEF Agrees
----------------------------------------------------------------------------
(* The chunks of output, and what its prefixes parse to.                    *)
AreChunks(records, b) ==
    /\ Len(b) = 2 * Len(records)
    /\ \A i \in 1 .. Len(records) :
          b[2 * i - 1] = [rec |-> records[i], part |-> 1] /\ b[2 * i] = [rec |-> records[i], part |-> 2]

LEMMA RecordsAreChunked ==
    ASSUME NEW T, NEW R \in Seq(T)
    PROVE  \E U : FlattenSeq(Map(R, Chunks)) \in Seq(U) /\ AreChunks(R, FlattenSeq(Map(R, Chunks)))
<1> DEFINE n == Len(R)
           U == [rec : T, part : {1, 2}]
           seqs == [i \in DOMAIN R |-> Chunks(R[i])]
           b == FlattenSeq(seqs)
<1>1. n \in Nat /\ DOMAIN R = 1 .. n /\ \A i \in 1 .. n : R[i] \in T
  BY LenProperties, ElementOfSeq
<1>2. ASSUME NEW i \in 1 .. n
      PROVE  /\ seqs[i] \in Seq(U) /\ Len(seqs[i]) = 2
             /\ seqs[i][1] = [rec |-> R[i], part |-> 1] /\ seqs[i][2] = [rec |-> R[i], part |-> 2]
  <2> DEFINE x == [rec |-> R[i], part |-> 1]
             y == [rec |-> R[i], part |-> 2]
  <2>1. x \in U /\ y \in U
    BY <1>1
  <2>2. seqs[i] = <<x, y>>
    BY <1>1 DEF Chunks
  <2> HIDE DEF x, y, U, seqs
  <2>3. seqs[i] \in Seq(U) /\ Len(seqs[i]) = 2 /\ seqs[i][1] = x /\ seqs[i][2] = y
    BY <2>1, <2>2
  <2> QED
    BY <2>3 DEF x, y
<1>3. Map(R, Chunks) = seqs
  BY Zenon DEF Map
<1>4. seqs = [i \in 1 .. n |-> seqs[i]]
  BY <1>1
<1> HIDE DEF seqs, U, n
<1>5. seqs \in Seq(Seq(U)) /\ Len(seqs) = n /\ \A i \in 1 .. n : Len(seqs[i]) = 2
  <2>1. \A i \in 1 .. n : seqs[i] \in Seq(U) /\ Len(seqs[i]) = 2
    BY <1>2, Zenon
  <2> QED
    BY <1>1, <1>4, <2>1
<1>6. PICK offset : IsConcat(seqs, n, offset, b) /\ b \in Seq(U)
  BY <1>5, Flattens
<1> HIDE DEF b
<1>7. Offsets(seqs, n, offset) /\ Places(seqs, n, offset, b)
  BY <1>6 DEF IsConcat
<1> DEFINE I == {i \in Nat : i <= n => offset[i] = 2 * i}
<1>8. 0 \in I
  BY <1>7 DEF Offsets
<1>9. ASSUME NEW j \in Nat, j \in I PROVE j + 1 \in I
  <2>1. ASSUME j + 1 <= n PROVE offset[j + 1] = 2 * (j + 1)
    <3>1. j + 1 \in 1 .. n /\ (j + 1) - 1 = j /\ j <= n
      BY <1>1, <2>1
    <3>2. offset[j + 1] = offset[j] + 2
      BY <1>5, <1>7, <3>1 DEF Offsets
    <3> QED
      BY <1>9, <3>1, <3>2
  <2> QED
    BY <2>1
<1> HIDE DEF I
<1>10. Nat \subseteq I
  BY <1>8, <1>9, Induction
<1>11. ASSUME NEW i \in 0 .. n PROVE offset[i] = 2 * i
  <2>1. i \in Nat /\ i <= n
    BY <1>1
  <2> QED
    BY <1>10, <2>1 DEF I
<1>12. Len(b) = 2 * n
  BY <1>1, <1>7, <1>11 DEF Places
<1>13. ASSUME NEW i \in 1 .. n
       PROVE  b[2 * i - 1] = [rec |-> R[i], part |-> 1] /\ b[2 * i] = [rec |-> R[i], part |-> 2]
  <2>1. i - 1 \in 0 .. n /\ 2 * (i - 1) + 1 = 2 * i - 1 /\ 2 * (i - 1) + 2 = 2 * i
    BY <1>1
  <2>2. offset[i - 1] = 2 * (i - 1)
    BY <1>11, <2>1
  <2>3. 1 \in 1 .. Len(seqs[i]) /\ 2 \in 1 .. Len(seqs[i])
    <3>1. Len(seqs[i]) = 2
      BY <1>5, Zenon
    <3> QED
      BY <3>1
  <2>4. b[offset[i - 1] + 1] = seqs[i][1] /\ b[offset[i - 1] + 2] = seqs[i][2]
    BY <1>7, <2>3 DEF Places
  <2> QED
    BY <1>2, <2>1, <2>2, <2>4
<1>14. AreChunks(R, b)
  BY <1>12, <1>13 DEF AreChunks, n
<1> QED
  BY <1>3, <1>6, <1>14 DEF b

LEMMA OutputIs ==
    ASSUME NEW ty \in Types, NEW m \in Messages(ty)
    PROVE  /\ Len(Records(ty, m)) \in Nat
           /\ AreChunks(Records(ty, m), SerializeToString(ty, m))
           /\ \E U : SerializeToString(ty, m) \in Seq(U)
<1>1. PICK b, seqs, offset : Layout(ty, m, b, seqs, offset)
  BY LayoutIs
<1>2. Records(ty, m) \in Seq(ToSet(Records(ty, m)))
  BY <1>1 DEF Layout
<1>3. Len(Records(ty, m)) \in Nat
  BY <1>2, LenProperties
<1> QED
  BY <1>2, <1>3, RecordsAreChunked DEF SerializeToString

(* A prefix of output is whole if its length is even. *)
WholeIfEven(R, s) ==
    /\ Whole(s) <=> Len(s) % 2 = 0
    /\ Len(s) % 2 = 0 => IsStartOf([i \in 1 .. Len(s) \div 2 |-> s[2 * i].rec], R)
LEMMA PrefixIsWhole ==
    ASSUME NEW R, Len(R) \in Nat, NEW b, AreChunks(R, b),
           NEW s, IsStartOf(s, b)
    PROVE  WholeIfEven(R, s)
<1> DEFINE n == Len(s)
           h == n \div 2
           recs == [i \in 1 .. h |-> s[2 * i].rec]
<1>1. /\ n \in Nat /\ h \in Nat /\ Len(b) = 2 * Len(R) /\ n <= 2 * Len(R)
      /\ h <= Len(R) /\ 2 * h <= n
  BY DEF AreChunks, IsStartOf
<1> HIDE DEF n, h
<1>2. ASSUME NEW i \in 1 .. h
      PROVE  /\ s[2 * i - 1] = [rec |-> R[i], part |-> 1] /\ s[2 * i] = [rec |-> R[i], part |-> 2]
             /\ i \in 1 .. Len(R)
  <2>1. i \in 1 .. Len(R) /\ 2 * i - 1 \in 1 .. n /\ 2 * i \in 1 .. n
    BY <1>1
  <2> QED
    BY <2>1 DEF AreChunks, IsStartOf, n
<1>3. ASSUME NEW i \in 1 .. h
      PROVE  s[2 * i - 1].part = 1 /\ s[2 * i] = [s[2 * i - 1] EXCEPT !.part = 2]
  <2>1. s[2 * i - 1] = [rec |-> R[i], part |-> 1] /\ s[2 * i] = [rec |-> R[i], part |-> 2]
    BY <1>2
  <2> QED
    BY <2>1
<1>4. Whole(s) <=> n % 2 = 0
  BY <1>3, Zenon DEF Whole, n, h
<1>5. n % 2 = 0 => IsStartOf(recs, R)
  <2>1. recs = [i \in 1 .. h |-> recs[i]]
    OBVIOUS
  <2>2. ASSUME NEW i \in 1 .. h PROVE recs[i] = R[i]
    <3>1. s[2 * i] = [rec |-> R[i], part |-> 2]
      BY <1>2
    <3>2. recs[i] = s[2 * i].rec
      OBVIOUS
    <3> QED
      BY <3>1, <3>2
  <2> HIDE DEF recs
  <2>3. Len(recs) = h
    BY <1>1, <2>1, FunctionIsList
  <2> QED
    BY <1>1, <2>2, <2>3 DEF IsStartOf
<1> QED
  BY <1>4, <1>5, Zenon DEF WholeIfEven, n, h, recs

(* Output that a save did not complete parses to a part of the message, if
   it can be parsed (libprotobuf, as MessageParser::LoadMessage uses it). *)
THEOREM PrefixIsPartOf ==
    ASSUME NEW ty \in Types, NEW m \in Messages(ty),
           NEW s, IsStartOf(s, SerializeToString(ty, m)),
           ParseOrFail(ty, s) # Failed
    PROVE  IsPartOf(ty, ParseOrFail(ty, s), m)
<1> DEFINE R == Records(ty, m)
           b == SerializeToString(ty, m)
           records == [i \in 1 .. Len(s) \div 2 |-> s[2 * i].rec]
<1>1. Len(R) \in Nat /\ AreChunks(R, b)
  BY OutputIs
<1>2. Whole(s) /\ ParseOrFail(ty, s) = Merge(ty, NewMessage(ty), records)
  BY Zenon DEF ParseOrFail
<1>3. IsStartOf(s, b)
  OBVIOUS
<1> HIDE DEF b, R
<1>4. WholeIfEven(R, s)
  BY <1>1, <1>3, PrefixIsWhole
<1>5. IsStartOf(records, R)
  BY <1>2, <1>4, Zenon DEF WholeIfEven
<1> HIDE DEF records
<1>6. MergesTo(ty, m, records)
  BY <1>5, RecordsMergeBack DEF R
<1> QED
  BY <1>2, <1>6 DEF MergesTo

(* Output parses to the message it was made from, if that can be parsed
   (libprotobuf, as MessageParser::SerializeArray and ParseArray use it). *)
THEOREM OutputParsesBack ==
    ASSUME NEW ty \in Types, NEW m \in Messages(ty),
           Hole \notin ToSet(SerializeToString(ty, m))
    PROVE  ParseOrFail(ty, SerializeToString(ty, m)) =
              IF CanBeParsed(ty, m, RecursionLimit) THEN m ELSE Failed
<1> DEFINE R == Records(ty, m)
           b == SerializeToString(ty, m)
           records == [i \in 1 .. Len(b) \div 2 |-> b[2 * i].rec]
<1>1. Len(R) \in Nat /\ AreChunks(R, b)
  BY OutputIs
<1>2. PICK ba, seqs, offset : Layout(ty, m, ba, seqs, offset)
  BY LayoutIs
<1>3. R \in Seq(ToSet(R))
  BY <1>2 DEF Layout
<1>4. ParseOrFail(ty, b) =
         IF Whole(b) /\ Parses(ty, records, RecursionLimit)
         THEN Merge(ty, NewMessage(ty), records) ELSE Failed
  BY Zenon DEF ParseOrFail
<1> HIDE DEF b, R
<1>5. Len(b) = 2 * Len(R)
  BY <1>1 DEF AreChunks
<1>6. IsStartOf(b, b) /\ Len(b) % 2 = 0 /\ Len(b) \div 2 = Len(R)
  BY <1>1, <1>5 DEF IsStartOf
<1>7. WholeIfEven(R, b)
  BY <1>1, <1>6, PrefixIsWhole
<1>8. IsStartOf(records, R) /\ Whole(b)
  BY <1>6, <1>7, Zenon DEF WholeIfEven
<1>9. Len(records) = Len(R) /\ records = R
  <2>1. records = [i \in 1 .. Len(R) |-> records[i]]
    BY <1>6
  <2> HIDE DEF records
  <2>2. Len(records) = Len(R)
    BY <1>1, <2>1, FunctionIsList
  <2>3. \A i \in 1 .. Len(R) : records[i] = R[i]
    BY <1>8, <2>2 DEF IsStartOf
  <2>4. R = [i \in 1 .. Len(R) |-> R[i]]
    BY <1>3
  <2> QED
    BY <2>1, <2>2, <2>3, <2>4
<1> HIDE DEF records
<1>10. Merge(ty, NewMessage(ty), records) = m
  <2>1. MergesTo(ty, m, records)
    BY <1>8, RecordsMergeBack DEF R
  <2> QED
    BY <1>9, <2>1 DEF MergesTo, R
<1>11. RecursionLimit \in Nat /\ RecursionLimit \in 0 .. RecursionLimit
  <2>1. RecursionLimit \in Nat
    BY WireAssumption, Zenon
  <2> QED
    BY <2>1
<1>12. Parses(ty, records, RecursionLimit) <=> CanBeParsed(ty, m, RecursionLimit)
  BY <1>9, <1>11, RecordsParse DEF R
<1>13. CASE CanBeParsed(ty, m, RecursionLimit)
  <2>1. ParseOrFail(ty, b) = m
    BY <1>4, <1>8, <1>10, <1>12, <1>13
  <2> QED
    BY <1>13, <2>1 DEF b
<1>14. CASE ~CanBeParsed(ty, m, RecursionLimit)
  <2>1. ParseOrFail(ty, b) = Failed
    BY <1>4, <1>12, <1>14
  <2> QED
    BY <1>14, <2>1 DEF b
<1> QED
  BY <1>13, <1>14
----------------------------------------------------------------------------
(* What the operations of MessageParser return.                             *)

LEMMA WrittenIs ==
    ASSUME NEW ty \in KnownTypes, NEW m \in Messages(ty)
    PROVE  /\ ty \in Types
           /\ Serialize(ty, m) = SerializeToString(ty, m)
           /\ Hole \notin ToSet(Serialize(ty, m))
           /\ \A n \in 0 .. Len(Serialize(ty, m)) :
                 Parse(ty, SubSeq(Serialize(ty, m), 1, n)) =
                    ParseOrFail(ty, SubSeq(Serialize(ty, m), 1, n))
<1>1. ty \in Types
  BY InPlaceAssumption, Zenon
<1>2. LET b == Serialize(ty, m) IN
      /\ b = SerializeToString(ty, m) /\ Hole \notin ToSet(b)
      /\ \A n \in 0 .. Len(b) : Parse(ty, SubSeq(b, 1, n)) = ParseOrFail(ty, SubSeq(b, 1, n))
  BY TransferAssumption, Zenon
<1> QED
  BY <1>1, <1>2, Zenon

LEMMA ArrayParsesBack ==
    ASSUME NEW r, IsArray(r)
    PROVE  LET m == KToMessage(r.type, r.value, r.names) IN
           Parse(r.type, Received(r.bytes)) =
              IF CanBeParsed(r.type, m, RecursionLimit) THEN m ELSE Failed
<1> DEFINE ty == r.type
           m == KToMessage(r.type, r.value, r.names)
           b == r.bytes
<1>1. /\ ty \in KnownTypes /\ r.names \in Modes /\ r.value \in KObj /\ m # Failed
      /\ b = Serialize(ty, m) /\ Fits(b)
  BY DEF IsArray
<1>2. m \in Messages(ty)
  <2>1. m \in Messages(ty) \cup {Failed}
    BY <1>1, TransferAssumption, Zenon
  <2> QED
    BY <1>1, <2>1
<1>3. Received(b) = b /\ b \in Seq(Byte)
  <2> DEFINE x == <<ty, r.value, r.names>>
  <2>1. x \in Accepted /\ Output(x) = b
    BY <1>1 DEF Accepted, Output
  <2> HIDE DEF x, b
  <2>2. b \in Seq(Byte)
    BY <2>1, OutputType
  <2>3. Len(b) <= MaxLen
    BY <1>1 DEF Fits
  <2> QED
    BY <2>2, <2>3, ReceivedWhole
<1> HIDE DEF m, b, ty
<1>4. /\ ty \in Types /\ b = SerializeToString(ty, m) /\ Hole \notin ToSet(b)
      /\ \A n \in 0 .. Len(b) : Parse(ty, SubSeq(b, 1, n)) = ParseOrFail(ty, SubSeq(b, 1, n))
  BY <1>1, <1>2, WrittenIs
<1>5. Parse(ty, b) = ParseOrFail(ty, b)
  <2>1. Len(b) \in 0 .. Len(b) /\ SubSeq(b, 1, Len(b)) = b
    BY <1>3, LenProperties, SubSeqFull
  <2> QED
    BY <1>4, <2>1
<1>6. ParseOrFail(ty, b) = IF CanBeParsed(ty, m, RecursionLimit) THEN m ELSE Failed
  BY <1>2, <1>4, OutputParsesBack
<1> QED
  BY <1>3, <1>5, <1>6 DEF m, b, ty

(* What is serialized, and kept by q, parses to the message it was made from,
   and only messages nested too deep, or with text that is not UTF-8, cannot
   be parsed (MessageParser::SerializeArray, then ParseArray). *)
THEOREM ArraysParseBack == Spec => []SerializedParsesBack
<1>1. AllExplained => SerializedParsesBack
  <2> SUFFICES ASSUME AllExplained, NEW p \in Procs, result[p].status = "array"
               PROVE  LET r == result[p]
                          m == KToMessage(r.type, r.value, r.names) IN
                      Parse(r.type, Received(r.bytes)) =
                         IF CanBeParsed(r.type, m, RecursionLimit) THEN m ELSE Failed
    BY Zenon DEF SerializedParsesBack
  <2>1. IsArray(result[p])
    BY Zenon DEF AllExplained, Explained
  <2> QED
    BY <2>1, ArrayParsesBack, Zenon
<1> QED
  BY <1>1, ExplainedHolds, PTL

(* What a load reads of a file that no other process wrote meanwhile. *)
LEMMA LoadReadsPrefix ==
    ASSUME Inv, [Next]_vars, NEW p \in Procs, LoadReturned(p), ~dirty[p],
           last[job[p].file].done # "never", ~last[job[p].file].contended,
           result'[p].status = "object"
    PROVE  /\ job[p].type \in KnownTypes
           /\ result'[p].bytes = buf[p] /\ Parse(job[p].type, buf[p]) # Failed
           /\ buf[p] \in Seq(Byte) /\ last[job[p].file].bytes \in Seq(Byte)
           /\ IsStartOf(buf[p], last[job[p].file].bytes)
<1> DEFINE f == job[p].file
           ty == job[p].type
           out == last[f].bytes
<1>1. TypeOK /\ LoadParse(p)
  <2>1. ASSUME LoadStreamFails(p) PROVE FALSE
    <3> DEFINE e == Answer("Failed to parse serialized message")
    <3>1. result'[p] = e
      <4>1. result' = [result EXCEPT ![p] = e]
        BY <2>1, Zenon DEF LoadStreamFails, Finish, Return
      <4>2. result = [q \in Procs |-> result[q]]
        BY Zenon DEF Inv, TypeOK
      <4> HIDE DEF e
      <4> QED
        BY <4>1, <4>2
    <3>2. e.status = "Failed to parse serialized message"
      BY DEF Answer
    <3>3. "Failed to parse serialized message" # "object"
      OBVIOUS
    <3> QED
      BY <3>1, <3>2, <3>3
  <2> QED
    BY <2>1, OnlyParsingReturns DEF Inv
<1>2. /\ pc[p] = "load_reading" /\ job[p] \in JobType /\ f \in Files /\ files[f] # NoFile
      /\ ty \in KnownTypes /\ files[f] \in Seq(Byte) /\ buf[p] \in Seq(Byte) /\ last[f] \in LastType
  BY <1>1 DEF LoadParse, TypeOK, JobType
<1>3. out \in Seq(Byte)
  <2>1. out \in Seq(Chunk)
    BY <1>2 DEF LastType
  <2>2. Chunk \subseteq Byte
    BY DEF Byte
  <2> QED
    BY <2>1, <2>2, SeqMonotonic
<1>4. StartsWith(out, files[f])
  BY <1>2 DEF Inv, UncontendedPrefix
<1>5. StartsWith(files[f], buf[p])
  BY <1>2 DEF Inv, LoadIsSnapshot
<1>6. IsStartOf(buf[p], out)
  <2>1. Len(out) \in Nat /\ Len(files[f]) \in Nat /\ Len(buf[p]) \in Nat
    BY <1>2, <1>3, LenProperties
  <2> HIDE DEF out, f
  <2> QED
    BY <1>4, <1>5, <2>1 DEF StartsWith, IsStartOf
<1> DEFINE r == IF job[p].obj = "debug" THEN Described(ty, buf[p])
                ELSE Converted(ty, buf[p], job[p].names)
<1>7. result'[p] = r
  <2>1. Finish(p, r)
    BY <1>1 DEF LoadParse
  <2> HIDE DEF r
  <2> QED
    BY <1>1, <2>1 DEF Finish, Return, TypeOK
<1>8. r.status = "object" => r.bytes = buf[p] /\ Parse(ty, buf[p]) # Failed
  <2>1. \A s : s # "object" => Answer(s).status # "object"
    BY DEF Answer
  <2>2. Described(ty, buf[p]).status # "object"
    <3>1. "debug" # "object" /\ "Failed to parse serialized message" # "object"
      OBVIOUS
    <3> QED
      BY <2>1, <3>1, Zenon DEF Described
  <2>3. ASSUME Converted(ty, buf[p], job[p].names).status = "object"
        PROVE  /\ Converted(ty, buf[p], job[p].names).bytes = buf[p]
               /\ Parse(ty, buf[p]) # Failed
    <3> DEFINE k == MessageToK(ty, Parse(ty, buf[p]), job[p].names)
    <3>1. "TypeCheck" # "object" /\ "Failed to parse serialized message" # "object"
      OBVIOUS
    <3>2. Parse(ty, buf[p]) # Failed /\ Converted(ty, buf[p], job[p].names) = Object(ty, buf[p], job[p].names, k)
      BY <2>1, <2>3, <3>1, Zenon DEF Converted
    <3>3. Object(ty, buf[p], job[p].names, k).bytes = buf[p]
      BY DEF Object, Array
    <3> QED
      BY <3>2, <3>3
  <2> QED
    BY <2>2, <2>3, Zenon
<1> HIDE DEF r
<1> QED
  BY <1>2, <1>3, <1>6, <1>7, <1>8

(* A load that no write overtakes, at whatever moment of a save, or after
   it failed or died, returns fields of the message being saved, and never
   of another (MessageParser::LoadMessage, SaveMessage). *)
THEOREM LoadsArePartsOfSaves == Spec => LoadedIsPartOfSaved
<1> DEFINE Returns(p) ==
        /\ LoadReturned(p) /\ result'[p].status = "object"
        /\ ~dirty[p] /\ last[job[p].file].done # "never" /\ ~last[job[p].file].contended
           A == \A p \in Procs : Returns(p) =>
                \A m \in Messages(job[p].type) :
                   Serialize(job[p].type, m) = last[job[p].file].bytes =>
                      IsPartOf(job[p].type, Parse(job[p].type, result'[p].bytes), m)
<1>1. Inv /\ [Next]_vars => A
  <2> SUFFICES ASSUME Inv, [Next]_vars, NEW p \in Procs, Returns(p),
                      NEW m \in Messages(job[p].type),
                      Serialize(job[p].type, m) = last[job[p].file].bytes
               PROVE  IsPartOf(job[p].type, Parse(job[p].type, result'[p].bytes), m)
    OBVIOUS
  <2> DEFINE ty == job[p].type
             out == last[job[p].file].bytes
             s == buf[p]
  <2>1. /\ ty \in KnownTypes /\ result'[p].bytes = s /\ Parse(ty, s) # Failed
        /\ s \in Seq(Byte) /\ out \in Seq(Byte) /\ IsStartOf(s, out)
    BY LoadReadsPrefix
  <2>2. m \in Messages(ty) /\ Serialize(ty, m) = out
    OBVIOUS
  <2> HIDE DEF ty, out, s
  <2>3. /\ ty \in Types /\ out = SerializeToString(ty, m)
        /\ \A n \in 0 .. Len(out) : Parse(ty, SubSeq(out, 1, n)) = ParseOrFail(ty, SubSeq(out, 1, n))
    BY <2>1, <2>2, WrittenIs
  <2>4. SubSeq(out, 1, Len(s)) = s /\ Len(s) \in 0 .. Len(out)
    <3> DEFINE cut == SubSeq(out, 1, Len(s))
    <3>1. Len(s) \in 0 .. Len(out) /\ \A c \in 1 .. Len(s) : s[c] = out[c]
      BY <2>1 DEF IsStartOf
    <3>2. Len(out) \in Nat /\ Len(s) \in Nat
      BY <2>1, LenProperties
    <3>3. cut \in Seq(Byte) /\ Len(cut) = Len(s) /\ \A c \in 1 .. Len(s) : cut[c] = out[c]
      BY <2>1, <3>1, <3>2
    <3> HIDE DEF cut
    <3>4. cut = s
      BY <2>1, <3>1, <3>3, SeqEqual
    <3> QED
      BY <3>1, <3>4 DEF cut
  <2>5. Parse(ty, s) = ParseOrFail(ty, s)
    BY <2>3, <2>4
  <2>6. IsPartOf(ty, ParseOrFail(ty, s), m)
    BY <2>1, <2>2, <2>3, <2>5, PrefixIsPartOf
  <2> QED
    BY <2>1, <2>5, <2>6 DEF ty
<1>2. Spec => [][A]_vars
  BY <1>1, InvHolds, PTL DEF Spec
<1>3. QED
  BY <1>2 DEF LoadedIsPartOfSaved
=============================================================================
