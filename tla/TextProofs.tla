----------------------------- MODULE TextProofs -----------------------------
(***************************************************************************)
(* The texts of a build.  The first part is about what the job logger, the *)
(* JSON functions and the process environment make of a text or a table of *)
(* any size: the lemmas unfold their recursive definitions and follow them *)
(* by induction.  The library states induction for operators, so each use  *)
(* of it here is about the set of numbers, or of sequences, for which what *)
(* is to be shown holds.                                                   *)
(*                                                                         *)
(* The second part is about the log file of one build and any number of    *)
(* clients.  Until the build is deleted the file stays once it is there,   *)
(* and an entry that leads to it stays unless InitPipeline is still to be  *)
(* called; no client asks before that.                                     *)
(***************************************************************************)
EXTENDS
  JobLog, Texts, SequenceTheorems, FiniteSetTheorems, WellFoundedInduction, TLAPS

-----------------------------------------------------------------------------
(* Induction and recursion over sets: the library states them for operators. *)

\* A set of natural numbers with an element has a least one.
LEMMA LeastElement ==
  ASSUME NEW T, T \subseteq Nat, T # {}
  PROVE  \E x \in T : \A y \in T : x <= y
<1> DEFINE R == OpToRel(<, Nat)
<1>1. IsWellFoundedOn(R, Nat)
  BY NatLessThanWellFounded
<1>2. \A x, y \in Nat : <<y, x>> \in R <=> y < x
  BY DEF OpToRel
<1> HIDE DEF R
<1>3. \E x \in T : \A y \in T : ~ (<<y, x>> \in R)
  BY <1>1, WFMin
<1>4. PICK x \in T : \A y \in T : ~ (<<y, x>> \in R)
  BY <1>3
<1>5. \A y \in T : ~(y < x)
  BY <1>2, <1>4
<1>6. \A y \in T : x <= y
  BY <1>5
<1> QED
  BY <1>6

\* Induction over the natural numbers, for membership in a set.
LEMMA SetInduction ==
  ASSUME NEW S, 0 \in S, \A n \in Nat : n \in S => n + 1 \in S
  PROVE  \A n \in Nat : n \in S
<1> DEFINE T == Nat \ S
<1>1. SUFFICES ASSUME T # {} PROVE FALSE
  OBVIOUS
<1>2. PICK x \in T : \A y \in T : x <= y
  <2> HIDE DEF T
  <2>1. T \subseteq Nat
    BY DEF T
  <2> QED
  BY <1>1, <2>1, LeastElement
<1>3. x # 0 /\ x \in Nat
  OBVIOUS
<1>4. x - 1 \in Nat /\ x - 1 \in S
  BY <1>2, <1>3
<1> QED
  BY <1>4

\* The levels L[0], ..., L[N] reach all of X, and what D[g] is on one level depends only on
\* what g is on the level before.
Recursion(X, V, N, L, D) ==
  /\ V # {} /\ N \in Nat /\ L[0] = {} /\ L[N] = X
  /\ \A d \in 0 .. N : L[d] \subseteq X
  /\ D \in [[X -> V] -> [X -> V]]
  /\ \A d \in 0 .. N - 1 : \A g, h \in [X -> V] :
       (\A y \in L[d] : g[y] = h[y]) => \A x \in L[d + 1] : D[g][x] = D[h][x]

\* A definition that looks one level down has a function that satisfies it.
LEMMA RecursionByLevels ==
  ASSUME NEW X, NEW V, NEW N, NEW L, NEW D, Recursion(X, V, N, L, D)
  PROVE  \E f \in [X -> V] : f = D[f]
<1> USE DEF Recursion
<1> DEFINE Fits(d) == {g \in [X -> V] : \A x \in L[d] : g[x] = D[g][x]}
           S == {d \in Nat : d <= N => Fits(d) # {}}
<1>1. 0 \in S
  <2>1. PICK v \in V : TRUE
    OBVIOUS
  <2>2. [x \in X |-> v] \in [X -> V]
    BY <2>1
  <2>3. [x \in X |-> v] \in Fits(0)
    BY <2>2
  <2> HIDE DEF Fits
  <2> QED
    BY <2>3
<1>2. ASSUME NEW d \in Nat, d \in S
      PROVE  d + 1 \in S
  <2>1. SUFFICES ASSUME d + 1 <= N
                 PROVE  Fits(d + 1) # {}
    <3> HIDE DEF Fits
    <3> QED
      OBVIOUS
  <2>2. PICK g : g \in Fits(d)
    <3> HIDE DEF Fits
    <3> QED
      BY <1>2, <2>1
  <2>3. D[g] \in [X -> V]
    BY <2>2
  <2>4. d \in 0 .. N - 1 /\ d + 1 \in 0 .. N /\ d \in 0 .. N
    BY <2>1
  <2>5. \A y \in L[d] : g[y] = D[g][y]
    BY <2>2
  <2>6. \A x \in L[d + 1] : D[g][x] = D[D[g]][x]
    BY <2>2, <2>3, <2>4, <2>5
  <2>7. D[g] \in Fits(d + 1)
    BY <2>3, <2>6
  <2> HIDE DEF Fits
  <2> QED
    BY <2>7
<1>3. N \in S
  <2> HIDE DEF S
  <2> QED
    BY <1>1, <1>2, SetInduction
<1>4. PICK g : g \in Fits(N)
  <2> HIDE DEF Fits
  <2> QED
    BY <1>3
<1>5. \A x \in X : g[x] = D[g][x]
  BY <1>4
<1>6. g \in [X -> V] /\ D[g] \in [X -> V]
  BY <1>4
<1>7. g = D[g]
  BY <1>5, <1>6
<1> QED
  BY <1>6, <1>7

-----------------------------------------------------------------------------
(* FlattenSeq. *)

\* The function FlattenSeq is defined with.
Flat(s, n) == CHOOSE f : f = [i \in 1 .. n |-> IF i = 1 THEN s[i] ELSE f[i - 1] \o s[i]]

\* It satisfies its definition.
LEMMA FlatUnfolds ==
  ASSUME NEW S, NEW s, NEW n \in Nat, \A i \in 1 .. n : s[i] \in Seq(S)
  PROVE  /\ \A i \in 1 .. n : Flat(s, n)[i] = IF i = 1 THEN s[i] ELSE Flat(s, n)[i - 1] \o s[i]
<1> DEFINE X == 1 .. n
           V == Seq(S)
           L == [d \in 0 .. n |-> 1 .. d]
           Body(g, i) == IF i = 1 THEN s[i] ELSE g[i - 1] \o s[i]
           D == [g \in [X -> V] |-> [i \in X |-> Body(g, i)]]
<1>1. V # {}
  BY EmptySeq
<1>2. L[0] = {} /\ L[n] = X /\ \A d \in 0 .. n : L[d] \subseteq X
  OBVIOUS
<1>3. D \in [[X -> V] -> [X -> V]]
  <2>1. ASSUME NEW g \in [X -> V], NEW i \in X
        PROVE  Body(g, i) \in V
    <3>1. CASE i = 1
      BY <3>1
    <3>2. CASE i # 1
      <4>1. g[i - 1] \in Seq(S) /\ s[i] \in Seq(S)
        BY <3>2
      <4>2. g[i - 1] \o s[i] \in Seq(S)
        BY <4>1, ConcatProperties
      <4> QED
        BY <3>2, <4>2
    <3> QED
      BY <3>1, <3>2
  <2> HIDE DEF Body, V, X
  <2> QED
    BY <2>1
<1>4. ASSUME NEW d \in 0 .. n - 1, NEW g \in [X -> V], NEW h \in [X -> V],
             \A y \in L[d] : g[y] = h[y], NEW x \in L[d + 1]
      PROVE  D[g][x] = D[h][x]
  <2>1. D[g][x] = Body(g, x) /\ D[h][x] = Body(h, x)
    <3>1. x \in X
      BY <1>2, <1>4
    <3> HIDE DEF Body, V, X, L
    <3> QED
      BY <3>1
  <2>2. CASE x = 1
    BY <2>1, <2>2
  <2>3. CASE x # 1
    <3>1. x - 1 \in L[d]
      BY <2>3
    <3>2. g[x - 1] = h[x - 1]
      BY <1>4, <3>1
    <3> HIDE DEF D, L, V, X
    <3> QED
      BY <2>1, <2>3, <3>2
  <2> QED
    BY <2>2, <2>3
<1>5. PICK f \in [X -> V] : f = D[f]
  <2>1. \A d \in 0 .. n - 1 : \A g, h \in [X -> V] :
            (\A y \in L[d] : g[y] = h[y]) => \A x \in L[d + 1] : D[g][x] = D[h][x]
    <3> HIDE DEF D, L, V, X
    <3> QED
      BY <1>4
  <2> HIDE DEF D, L, V, X
  <2>2. Recursion(X, V, n, L, D)
    BY <1>1, <1>2, <1>3, <2>1 DEF Recursion
  <2> QED
    BY <2>2, RecursionByLevels
<1>6. f = [i \in X |-> Body(f, i)]
  BY <1>5
<1> DEFINE F == Flat(s, n)
           G == [i \in 1 .. n |-> Body(F, i)]
<1>7. F = G
  BY <1>6 DEF Flat
<1> HIDE DEF F
<1>8. \A i \in 1 .. n : G[i] = Body(F, i)
  OBVIOUS
<1> HIDE DEF G
<1>9. \A i \in 1 .. n : F[i] = Body(F, i)
  BY <1>7, <1>8
<1> QED
  BY <1>9 DEF F

\* Its values are sequences.
LEMMA FlatType ==
  ASSUME NEW S, NEW s, NEW n \in Nat, \A i \in 1 .. n : s[i] \in Seq(S)
  PROVE  \A i \in 1 .. n : Flat(s, n)[i] \in Seq(S)
<1> DEFINE T == {i \in Nat : i \in 1 .. n => Flat(s, n)[i] \in Seq(S)}
<1>1. 0 \in T
  OBVIOUS
<1>2. ASSUME NEW i \in Nat, i \in T, i + 1 \in 1 .. n
      PROVE  Flat(s, n)[i + 1] \in Seq(S)
  <2>1. Flat(s, n)[i + 1] = IF i + 1 = 1 THEN s[i + 1] ELSE Flat(s, n)[i + 1 - 1] \o s[i + 1]
    BY <1>2, FlatUnfolds
  <2>2. CASE i = 0
    BY <1>2, <2>1, <2>2
  <2>3. CASE i # 0
    <3>1. Flat(s, n)[i] \in Seq(S) /\ s[i + 1] \in Seq(S)
      BY <1>2, <2>3
    <3>2. Flat(s, n)[i + 1] = Flat(s, n)[i] \o s[i + 1]
      <4>1. i + 1 - 1 = i /\ i + 1 # 1
        BY <2>3
      <4> QED
        BY <2>1, <4>1, Zenon
    <3> QED
      BY <3>1, <3>2, ConcatProperties
  <2> QED
    BY <2>2, <2>3
<1>3. \A i \in Nat : i \in T => i + 1 \in T
  <2> SUFFICES ASSUME NEW i \in Nat, i \in T, i + 1 \in 1 .. n
               PROVE  i + 1 \in T
    OBVIOUS
  <2> QED
    BY <1>2
<1> HIDE DEF T
<1>4. \A i \in Nat : i \in T
  BY <1>1, <1>3, SetInduction
<1> QED
  BY <1>4 DEF T

\* Its values depend only on the sequences up to there.
LEMMA FlatAgree ==
  ASSUME NEW S, NEW s, NEW t, NEW n \in Nat, NEW m \in Nat, m <= n,
         \A i \in 1 .. n : t[i] \in Seq(S), \A i \in 1 .. m : s[i] = t[i]
  PROVE  \A i \in 1 .. m : Flat(s, m)[i] = Flat(t, n)[i]
<1> DEFINE T == {i \in Nat : i \in 1 .. m => Flat(s, m)[i] = Flat(t, n)[i]}
<1>1. 0 \in T
  OBVIOUS
<1>2. ASSUME NEW i \in Nat, i \in T, i + 1 \in 1 .. m
      PROVE  Flat(s, m)[i + 1] = Flat(t, n)[i + 1]
  <2>1. Flat(s, m)[i + 1] = IF i + 1 = 1 THEN s[i + 1] ELSE Flat(s, m)[i + 1 - 1] \o s[i + 1]
    BY <1>2, FlatUnfolds
  <2>2. Flat(t, n)[i + 1] = IF i + 1 = 1 THEN t[i + 1] ELSE Flat(t, n)[i + 1 - 1] \o t[i + 1]
    BY <1>2, FlatUnfolds
  <2>3. i # 0 => Flat(s, m)[i] = Flat(t, n)[i]
    BY <1>2
  <2> QED
    BY <1>2, <2>1, <2>2, <2>3
<1>3. \A i \in Nat : i \in T => i + 1 \in T
  <2> SUFFICES ASSUME NEW i \in Nat, i \in T, i + 1 \in 1 .. m
               PROVE  i + 1 \in T
    OBVIOUS
  <2> QED
    BY <1>2
<1> HIDE DEF T
<1>4. \A i \in Nat : i \in T
  BY <1>1, <1>3, SetInduction
<1> QED
  BY <1>4 DEF T

\* FlattenSeq is its last value.
LEMMA FlattenSeqIs ==
  ASSUME NEW s, Len(s) \in Nat
  PROVE  FlattenSeq(s) = IF Len(s) = 0 THEN s ELSE Flat(s, Len(s))[Len(s)]
BY DEF FlattenSeq, Flat

\* Nothing flattens to nothing.
LEMMA FlattenEmpty == FlattenSeq(<<>>) = <<>>
BY DEF FlattenSeq

\* A sequence of sequences flattens to a sequence.
LEMMA FlattenType ==
  ASSUME NEW S, NEW s \in Seq(Seq(S))
  PROVE  FlattenSeq(s) \in Seq(S)
<1>1. Len(s) \in Nat /\ \A i \in 1 .. Len(s) : s[i] \in Seq(S)
  BY LenProperties
<1>2. Len(s) # 0 => Flat(s, Len(s))[Len(s)] \in Seq(S)
  BY <1>1, FlatType
<1>3. Len(s) = 0 => s = <<>>
  BY EmptySeq
<1> QED
  BY <1>1, <1>2, <1>3, FlattenSeqIs, EmptySeq

\* The definition at the last place.
LEMMA FlatLast ==
  ASSUME NEW S, NEW t, NEW n \in Nat, n # 0, \A i \in 1 .. n : t[i] \in Seq(S)
  PROVE  Flat(t, n)[n] = IF n = 1 THEN t[n] ELSE Flat(t, n)[n - 1] \o t[n]
<1>1. n \in 1 .. n
  OBVIOUS
<1> QED
  BY <1>1, FlatUnfolds

\* One more sequence is added at the end.
LEMMA FlattenAppend ==
  ASSUME NEW S, NEW s \in Seq(Seq(S)), NEW e \in Seq(S)
  PROVE  FlattenSeq(Append(s, e)) = FlattenSeq(s) \o e
<1> DEFINE t == Append(s, e)
<1>1. PICK m \in Nat, n \in Nat : m = Len(s) /\ n = Len(t) /\ n = m + 1
  BY LenProperties, AppendProperties
<1>2. /\ t[n] = e
      /\ \A i \in 1 .. m : t[i] = s[i] /\ s[i] \in Seq(S)
  BY <1>1, LenProperties, AppendProperties
<1>3. \A i \in 1 .. n : t[i] \in Seq(S)
  <2>1. \A i \in 1 .. n : i \in 1 .. m \/ i = n
    BY <1>1
  <2> HIDE DEF t
  <2> QED
    BY <1>2, <2>1
<1> HIDE DEF t
<1>4. n - 1 = m /\ n \in 1 .. n /\ n # 0 /\ m <= n
  BY <1>1
<1>5. FlattenSeq(t) = Flat(t, n)[n]
  BY <1>1, <1>4, FlattenSeqIs
<1>6. Flat(t, n)[n] = IF n = 1 THEN t[n] ELSE Flat(t, n)[m] \o t[n]
  <2>1. Flat(t, n)[n] = IF n = 1 THEN t[n] ELSE Flat(t, n)[n - 1] \o t[n]
    BY <1>3, <1>4, FlatLast
  <2> QED
    BY <1>4, <2>1, Zenon
<1>7. CASE m = 0
  <2>0. n = 1 /\ Len(s) = 0
    BY <1>1, <1>7
  <2>1. s = <<>> /\ n = 1
    BY <2>0, EmptySeq, Zenon
  <2>2. FlattenSeq(t) = e
    BY <1>2, <1>5, <1>6, <2>1
  <2>3. FlattenSeq(s) \o e = e
    BY <2>1, FlattenEmpty, ConcatEmptySeq
  <2> QED
    BY <2>2, <2>3 DEF t
<1>8. CASE m # 0
  <2>1. n # 1 /\ m \in 1 .. m
    BY <1>1, <1>8
  <2>2. Flat(s, m)[m] = Flat(t, n)[m]
    BY <1>2, <1>3, <1>4, <2>1, FlatAgree
  <2>3. FlattenSeq(s) = Flat(s, m)[m]
    BY <1>1, <1>8, FlattenSeqIs
  <2>4. FlattenSeq(t) = FlattenSeq(s) \o e
    BY <1>2, <1>5, <1>6, <2>1, <2>2, <2>3, Zenon
  <2> QED
    BY <2>4 DEF t
<1> QED
  BY <1>7, <1>8

\* Induction over sequences by their last element, for membership in a set.
LEMMA SequenceInduction ==
  ASSUME NEW S, NEW P, <<>> \in P,
         \A s \in Seq(S) : \A e \in S : s \in P => Append(s, e) \in P
  PROVE  \A s \in Seq(S) : s \in P
<1> DEFINE T == {n \in Nat : \A s \in Seq(S) : Len(s) = n => s \in P}
<1>1. 0 \in T
  <2>1. \A s \in Seq(S) : Len(s) = 0 => s = <<>>
    BY EmptySeq
  <2> QED
    BY <2>1
<1>2. ASSUME NEW n \in Nat, n \in T
      PROVE  n + 1 \in T
  <2>1. SUFFICES ASSUME NEW s \in Seq(S), Len(s) = n + 1
                 PROVE  s \in P
    OBVIOUS
  <2>2. s # <<>>
    BY <2>1, EmptySeq
  <2>3. PICK u \in Seq(S), e \in S : s = Append(u, e)
    BY <2>2, SequenceEmptyOrAppend, Zenon
  <2>4. Len(u) = n
    BY <2>1, <2>3, AppendProperties, LenProperties
  <2>5. u \in P
    BY <1>2, <2>4
  <2> QED
    BY <2>3, <2>5
<1> HIDE DEF T
<1>3. \A n \in Nat : n \in T
  BY <1>1, <1>2, SetInduction
<1>4. ASSUME NEW s \in Seq(S)
      PROVE  s \in P
  <2>1. Len(s) \in T
    BY <1>3, LenProperties
  <2> QED
    BY <2>1 DEF T
<1> QED
  BY <1>4

\* FlattenSeq distributes over concatenation.
LEMMA FlattenConcat ==
  ASSUME NEW S, NEW s \in Seq(Seq(S)), NEW t \in Seq(Seq(S))
  PROVE  FlattenSeq(s \o t) = FlattenSeq(s) \o FlattenSeq(t)
<1> DEFINE P == {u \in Seq(Seq(S)) : FlattenSeq(s \o u) = FlattenSeq(s) \o FlattenSeq(u)}
<1>1. <<>> \in P
  <2>1. s \o <<>> = s /\ FlattenSeq(s) \o <<>> = FlattenSeq(s)
    BY ConcatEmptySeq, FlattenType
  <2>2. <<>> \in Seq(Seq(S))
    BY EmptySeq
  <2> QED
    BY <2>1, <2>2, FlattenEmpty
<1>2. ASSUME NEW u \in Seq(Seq(S)), NEW e \in Seq(S), u \in P
      PROVE  Append(u, e) \in P
  <2>1. Append(u, e) \in Seq(Seq(S))
    BY AppendProperties
  <2>2. s \o Append(u, e) = Append(s \o u, e)
    OBVIOUS
  <2>3. s \o u \in Seq(Seq(S))
    BY ConcatProperties
  <2>4. FlattenSeq(Append(s \o u, e)) = FlattenSeq(s \o u) \o e
    BY <2>3, FlattenAppend
  <2>5. FlattenSeq(Append(u, e)) = FlattenSeq(u) \o e
    BY FlattenAppend
  <2>6. FlattenSeq(s) \in Seq(S) /\ FlattenSeq(u) \in Seq(S)
    BY FlattenType
  <2>7. (FlattenSeq(s) \o FlattenSeq(u)) \o e = FlattenSeq(s) \o (FlattenSeq(u) \o e)
    <3>1. PICK a \in Seq(S), b \in Seq(S) : a = FlattenSeq(s) /\ b = FlattenSeq(u)
      BY <2>6
    <3>2. (a \o b) \o e = a \o (b \o e)
      BY ConcatAssociative
    <3> QED
      BY <3>1, <3>2
  <2>8. FlattenSeq(s \o u) = FlattenSeq(s) \o FlattenSeq(u)
    BY <1>2
  <2> QED
    BY <2>1, <2>2, <2>4, <2>5, <2>7, <2>8
<1> HIDE DEF P
<1>3. t \in P
  BY <1>1, <1>2, SequenceInduction
<1> QED
  BY <1>3 DEF P

\* A single sequence flattens to itself.
LEMMA FlattenOne ==
  ASSUME NEW S, NEW e \in Seq(S)
  PROVE  FlattenSeq(<<e>>) = e
<1>1. <<>> \in Seq(Seq(S)) /\ Append(<<>>, e) = <<e>>
  BY EmptySeq
<1>2. FlattenSeq(Append(<<>>, e)) = FlattenSeq(<<>>) \o e
  BY <1>1, FlattenAppend
<1> QED
  BY <1>1, <1>2, FlattenEmpty, ConcatEmptySeq

\* The sequences from i on, cut behind k.
LEMMA FlattenParts ==
  ASSUME NEW S, NEW m \in Seq(Seq(S)), NEW i \in 1 .. Len(m) + 1, NEW k \in i - 1 .. Len(m)
  PROVE  FlattenSeq(SubSeq(m, i, Len(m)))
           = FlattenSeq(SubSeq(m, i, k)) \o FlattenSeq(SubSeq(m, k + 1, Len(m)))
<1>1. Len(m) \in Nat /\ \A j \in 1 .. Len(m) : m[j] \in Seq(S)
  BY LenProperties
<1>2. i \in Int /\ k \in Int /\ k + 1 \in Int /\ Len(m) \in Int
  BY <1>1
<1>3. SubSeq(m, i, k) \in Seq(Seq(S))
  <2>1. \A j \in i .. k : m[j] \in Seq(S)
    BY <1>1
  <2> QED
    BY <1>2, <2>1, SubSeqProperties
<1>4. SubSeq(m, k + 1, Len(m)) \in Seq(Seq(S))
  <2>1. \A j \in k + 1 .. Len(m) : m[j] \in Seq(S)
    BY <1>1
  <2> QED
    BY <1>2, <2>1, SubSeqProperties
<1>5. SubSeq(m, i, k) \o SubSeq(m, k + 1, Len(m)) = SubSeq(m, i, Len(m))
  <2>1. Len(m) \in k .. Len(m)
    BY <1>1
  <2> QED
    BY <2>1, ConcatAdjacentSubSeq
<1> QED
  BY <1>3, <1>4, <1>5, FlattenConcat

\* What h makes of the elements of s, flattened.
Mapped(h, s) == FlattenSeq([i \in DOMAIN s |-> h[s[i]]])

\* c has the elements of a and then those of b.
IsConcat(c, a, b) ==
  /\ Len(c) = Len(a) + Len(b)
  /\ \A i \in 1 .. Len(a) : c[i] = a[i]
  /\ \A i \in 1 .. Len(b) : c[Len(a) + i] = b[i]
\* Sequences with the same elements are equal.
LEMMA ConcatIs == 
  ASSUME NEW S, NEW a \in Seq(S), NEW b \in Seq(S), NEW c \in Seq(S), IsConcat(c, a, b)
  PROVE  c = a \o b
<1>1. Len(a) \in Nat /\ Len(b) \in Nat
  BY LenProperties
<1>2. /\ a \o b \in Seq(S) /\ Len(a \o b) = Len(a) + Len(b)
      /\ \A i \in 1 .. Len(a) + Len(b) : (a \o b)[i] =
           IF i <= Len(a) THEN a[i] ELSE b[i - Len(a)]
  BY ConcatProperties
<1>3. ASSUME NEW i \in 1 .. Len(c)
      PROVE  c[i] = (a \o b)[i]
  <2>1. i \in 1 .. Len(a) + Len(b)
    BY DEF IsConcat
  <2>2. CASE i <= Len(a)
    BY <1>1, <1>2, <2>1, <2>2 DEF IsConcat
  <2>3. CASE ~(i <= Len(a))
    <3>1. i - Len(a) \in 1 .. Len(b) /\ Len(a) + (i - Len(a)) = i
      BY <1>1, <2>1, <2>3
    <3>2. c[i] = b[i - Len(a)]
      BY <3>1 DEF IsConcat
    <3> QED
      BY <1>2, <2>1, <2>3, <3>2
  <2> QED
    BY <2>2, <2>3
<1> QED
  BY <1>2, <1>3, SeqEqual DEF IsConcat

\* A sequence of one element.
LEMMA OneSeq ==
  ASSUME NEW S, NEW e \in S
  PROVE  <<e>> \in Seq(S)
OBVIOUS

\* The type of a mapped sequence before it is flattened.
LEMMA MapType ==
  ASSUME NEW S, NEW V, NEW h \in [S -> Seq(V)], NEW s \in Seq(S)
  PROVE  [i \in DOMAIN s |-> h[s[i]]] \in Seq(Seq(V))
<1>1. DOMAIN s = 1 .. Len(s) /\ Len(s) \in Nat /\ \A i \in 1 .. Len(s) : s[i] \in S
  BY LenProperties
<1>2. [i \in 1 .. Len(s) |-> h[s[i]]] \in [1 .. Len(s) -> Seq(V)]
  BY <1>1
<1> QED
  BY <1>1, <1>2, SeqDef

\* The type of a mapped sequence.
LEMMA MappedType ==
  ASSUME NEW S, NEW V, NEW h \in [S -> Seq(V)], NEW s \in Seq(S)
  PROVE  Mapped(h, s) \in Seq(V)
<1>1. [i \in DOMAIN s |-> h[s[i]]] \in Seq(Seq(V))
  BY MapType
<1> QED
  BY <1>1, FlattenType DEF Mapped

\* Mapped distributes over concatenation.
LEMMA MappedConcat ==
  ASSUME NEW S, NEW V, NEW h \in [S -> Seq(V)], NEW s \in Seq(S), NEW t \in Seq(S)
  PROVE  Mapped(h, s \o t) = Mapped(h, s) \o Mapped(h, t)
<1> DEFINE M(u) == [i \in DOMAIN u |-> h[u[i]]]
<1>1. s \o t \in Seq(S) /\ Len(s \o t) = Len(s) + Len(t)
  BY ConcatProperties
<1>2. M(s) \in Seq(Seq(V)) /\ M(t) \in Seq(Seq(V)) /\ M(s \o t) \in Seq(Seq(V))
  BY <1>1, MapType
<1>3. PICK m \in Nat, n \in Nat : m = Len(s) /\ n = Len(t)
  BY LenProperties
<1>4. DOMAIN s = 1 .. m /\ DOMAIN t = 1 .. n /\ DOMAIN (s \o t) = 1 .. m + n
  BY <1>1, <1>3, LenProperties
<1> DEFINE W == Seq(V)
<1>5. PICK ms \in Seq(W), mt \in Seq(W), mst \in Seq(W) :
        ms = M(s) /\ mt = M(t) /\ mst = M(s \o t)
  <2> HIDE DEF M
  <2> QED
    BY <1>2
<1> HIDE DEF W
<1>6. /\ Len(ms) = m /\ Len(mt) = n /\ Len(mst) = m + n
      /\ \A i \in 1 .. m : ms[i] = h[s[i]]
      /\ \A i \in 1 .. n : mt[i] = h[t[i]]
      /\ \A i \in 1 .. m + n : mst[i] = h[(s \o t)[i]]
  BY <1>4, <1>5
<1> HIDE DEF M
<1>7. ASSUME NEW i \in 1 .. m
      PROVE  mst[i] = ms[i]
  <2>1. (s \o t)[i] = s[i]
    BY <1>3, ConcatProperties
  <2>2. i \in 1 .. m + n
    OBVIOUS
  <2> QED
    BY <1>6, <2>1, <2>2, Zenon
<1>8. ASSUME NEW i \in 1 .. n
      PROVE  mst[m + i] = mt[i]
  <2>1. m + i \in 1 .. m + n /\ ~(m + i <= m) /\ m + i - m = i
    OBVIOUS
  <2>2. (s \o t)[m + i] = t[i]
    BY <1>3, <2>1, ConcatProperties
  <2>3. mst[m + i] = h[(s \o t)[m + i]] /\ mt[i] = h[t[i]]
    BY <1>6, <2>1
  <2> QED
    BY <2>2, <2>3
<1>9. mst = ms \o mt
  <2>1. IsConcat(mst, ms, mt)
    BY <1>6, <1>7, <1>8 DEF IsConcat
  <2> QED
    BY <2>1, ConcatIs
<1>10. FlattenSeq(ms \o mt) = FlattenSeq(ms) \o FlattenSeq(mt)
  BY FlattenConcat DEF W
<1> QED
  BY <1>5, <1>9, <1>10 DEF Mapped, M

\* Nothing maps to nothing.
LEMMA MappedEmpty ==
  ASSUME NEW h
  PROVE  Mapped(h, <<>>) = <<>>
<1>1. [i \in DOMAIN <<>> |-> h[<<>>[i]]] = <<>>
  OBVIOUS
<1> QED
  BY <1>1, FlattenEmpty DEF Mapped

\* A single element maps to what h makes of it.
LEMMA MappedOne ==
  ASSUME NEW S, NEW V, NEW h \in [S -> Seq(V)], NEW e \in S
  PROVE  Mapped(h, <<e>>) = h[e]
<1>1. [i \in DOMAIN <<e>> |-> h[<<e>>[i]]] = <<h[e]>>
  OBVIOUS
<1> QED
  BY <1>1, FlattenOne DEF Mapped

\* One more element adds what h makes of it.
LEMMA MappedAppend ==
  ASSUME NEW S, NEW V, NEW h \in [S -> Seq(V)], NEW s \in Seq(S), NEW e \in S
  PROVE  Mapped(h, Append(s, e)) = Mapped(h, s) \o h[e]
<1>1. PICK t \in Seq(S) : t = <<e>>
  BY OneSeq, Zenon
<1>2. Append(s, e) = s \o t
  BY <1>1, AppendIsConcat
<1>3. Mapped(h, s \o t) = Mapped(h, s) \o Mapped(h, t)
  BY MappedConcat
<1>4. Mapped(h, t) = h[e]
  BY <1>1, MappedOne
<1> QED
  BY <1>2, <1>3, <1>4

\* Sequences of one element each make up the sequence of these elements.
LEMMA FlattenSingles ==
  ASSUME NEW S, NEW s \in Seq(S)
  PROVE  FlattenSeq([i \in DOMAIN s |-> <<s[i]>>]) = s
<1> DEFINE h == [x \in S |-> <<x>>]
           P == {u \in Seq(S) : Mapped(h, u) = u}
<1>1. h \in [S -> Seq(S)]
  OBVIOUS
<1>2. <<>> \in P
  BY MappedEmpty, EmptySeq
<1>3. ASSUME NEW u \in Seq(S), NEW e \in S, u \in P
      PROVE  Append(u, e) \in P
  <2>1. Mapped(h, Append(u, e)) = Mapped(h, u) \o h[e]
    <3> HIDE DEF h
    <3> QED
    BY <1>1, MappedAppend
  <2>2. Append(u, e) = u \o <<e>> /\ Append(u, e) \in Seq(S)
    BY AppendIsConcat, AppendProperties
  <2>3. Mapped(h, u) = u /\ h[e] = <<e>>
    BY <1>3
  <2> QED
    BY <2>1, <2>2, <2>3
<1>4. s \in P
  <2> HIDE DEF P
  <2> QED
    BY <1>2, <1>3, SequenceInduction
<1>5. Mapped(h, s) = s
  BY <1>4
<1>6. [i \in DOMAIN s |-> h[s[i]]] = [i \in DOMAIN s |-> <<s[i]>>]
  <2>1. \A i \in DOMAIN s : s[i] \in S
    BY LenProperties
  <2> QED
    BY <2>1
<1> QED
  BY <1>5, <1>6 DEF Mapped

-----------------------------------------------------------------------------
(* Definitions that look ahead, and the text of the job logger. *)

\* D is a definition that looks only further on: D[g][i] depends on g behind i.
Backward(N, V, D) ==
  /\ V # {} /\ N \in Nat /\ D \in [[1 .. N -> V] -> [1 .. N -> V]]
  /\ \A i \in 1 .. N : \A g, h \in [1 .. N -> V] :
       (\A j \in i + 1 .. N : g[j] = h[j]) => D[g][i] = D[h][i]

\* Such a definition has a function that satisfies it.
LEMMA BackwardRecursion ==
  ASSUME NEW V, NEW N, NEW D, Backward(N, V, D)
  PROVE  \E f \in [1 .. N -> V] : f = D[f]
<1> DEFINE L == [d \in 0 .. N |-> N - d + 1 .. N]
<1>1. N \in Nat /\ V # {} /\ D \in [[1 .. N -> V] -> [1 .. N -> V]]
  BY DEF Backward
<1>2. L[0] = {} /\ L[N] = 1 .. N /\ \A d \in 0 .. N : L[d] \subseteq 1 .. N
  BY <1>1
<1>3. ASSUME NEW d \in 0 .. N - 1, NEW g \in [1 .. N -> V], NEW h \in [1 .. N -> V],
             \A y \in L[d] : g[y] = h[y], NEW x \in L[d + 1]
      PROVE  D[g][x] = D[h][x]
  <2>1. x \in 1 .. N /\ \A j \in x + 1 .. N : j \in L[d]
    BY <1>1
  <2>2. \A j \in x + 1 .. N : g[j] = h[j]
    BY <1>3, <2>1
  <2> HIDE DEF L
  <2> QED
    BY <2>1, <2>2 DEF Backward
<1> HIDE DEF L
<1> DEFINE X == 1 .. N
<1>4. Recursion(X, V, N, L, D)
  BY <1>1, <1>2, <1>3 DEF Recursion
<1> HIDE DEF X
<1>5. \E f \in [X -> V] : f = D[f]
  BY <1>4, RecursionByLevels
<1> QED
  BY <1>5 DEF X

\* Induction from the end, for membership in a set.
LEMMA BackwardInduction ==
  ASSUME NEW N \in Nat, NEW P,
         \A i \in 1 .. N : (\A j \in i + 1 .. N : j \in P) => i \in P
  PROVE  \A i \in 1 .. N : i \in P
<1> DEFINE T == {n \in Nat : n < N /\ N - n \notin P}
<1>1. SUFFICES ASSUME NEW i \in 1 .. N, i \notin P
               PROVE  FALSE
  OBVIOUS
<1>2. N - i \in T
  <2>1. N - (N - i) = i /\ N - i \in Nat /\ N - i < N
    OBVIOUS
  <2> QED
    BY <1>1, <2>1
<1>3. PICK n \in T : \A m \in T : n <= m
  <2>1. T \subseteq Nat /\ T # {}
    BY <1>2
  <2> HIDE DEF T
  <2> QED
    BY <2>1, LeastElement
<1>4. n \in Nat /\ n < N /\ N - n \notin P /\ N - n \in 1 .. N
  BY <1>3
<1>5. ASSUME NEW j \in N - n + 1 .. N
      PROVE  j \in P
  <2>1. N - j \in Nat /\ N - j < n /\ N - j < N /\ N - (N - j) = j
    BY <1>4
  <2>2. N - j \notin T
    <3> HIDE DEF T
    <3> QED
      BY <1>3, <1>4, <2>1
  <2> QED
    BY <2>1, <2>2
<1> QED
  BY <1>4, <1>5

\* The characters of a chunk.
Character == Text \cup {LF, CR}
\* What OnlyText makes of a character.
TextOf == [c \in Character |-> IF c \in Text THEN <<c>> ELSE <<>>]
\* What NonEmpty makes of a line.
LineOf == [l \in Seq(Character) |-> IF l = <<>> THEN <<>> ELSE <<l>>]

\* The type of TextOf.
LEMMA TextOfType == TextOf \in [Character -> Seq(Character)]
<1>1. ASSUME NEW c \in Character
      PROVE  (IF c \in Text THEN <<c>> ELSE <<>>) \in Seq(Character)
  BY OneSeq, EmptySeq
<1> QED
  BY <1>1 DEF TextOf

\* The type of LineOf.
LEMMA LineOfType == LineOf \in [Seq(Character) -> Seq(Seq(Character))]
<1> DEFINE W == Seq(Character)
<1> HIDE DEF W
<1>1. ASSUME NEW l \in W
      PROVE  (IF l = <<>> THEN <<>> ELSE <<l>>) \in Seq(W)
  BY OneSeq, EmptySeq
<1> QED
  BY <1>1 DEF LineOf, W

\* OnlyText maps the characters one by one.
LEMMA OnlyTextIs ==
  ASSUME NEW s \in Seq(Character)
  PROVE  OnlyText(s) = Mapped(TextOf, s)
<1>1. \A i \in DOMAIN s : s[i] \in Character
  BY LenProperties
<1>2. \A i \in DOMAIN s : TextOf[s[i]] = IF s[i] \in Text THEN <<s[i]>> ELSE <<>>
  BY <1>1 DEF TextOf
<1>3. [i \in DOMAIN s |-> TextOf[s[i]]] = [i \in DOMAIN s |-> IF s[i] \in Text THEN <<s[i]>> ELSE <<>>]
  BY <1>2
<1> QED
  BY <1>3 DEF OnlyText, Mapped

\* NonEmpty maps the lines one by one.
LEMMA NonEmptyIs ==
  ASSUME NEW l \in Seq(Seq(Character))
  PROVE  NonEmpty(l) = Mapped(LineOf, l)
<1> DEFINE W == Seq(Character)
<1>1. \A i \in DOMAIN l : l[i] \in W
  <2> HIDE DEF W
  <2>1. l \in Seq(W)
    BY DEF W
  <2> QED
    BY <2>1, LenProperties
<1>2. \A i \in DOMAIN l : LineOf[l[i]] = IF l[i] = <<>> THEN <<>> ELSE <<l[i]>>
  <2> HIDE DEF W
  <2> QED
    BY <1>1 DEF LineOf, W
<1>3. [i \in DOMAIN l |-> LineOf[l[i]]] = [i \in DOMAIN l |-> IF l[i] = <<>> THEN <<>> ELSE <<l[i]>>]
  BY <1>2
<1> QED
  BY <1>3 DEF NonEmpty, Mapped

\* The text of characters is characters.
LEMMA OnlyTextType ==
  ASSUME NEW s \in Seq(Character)
  PROVE  OnlyText(s) \in Seq(Character)
BY OnlyTextIs, TextOfType, MappedType

\* OnlyText distributes over concatenation.
LEMMA OnlyTextConcat ==
  ASSUME NEW s \in Seq(Character), NEW t \in Seq(Character)
  PROVE  OnlyText(s \o t) = OnlyText(s) \o OnlyText(t)
<1>1. s \o t \in Seq(Character)
  BY ConcatProperties
<1>2. OnlyText(s \o t) = Mapped(TextOf, s \o t)
  BY <1>1, OnlyTextIs
<1>3. OnlyText(s) = Mapped(TextOf, s) /\ OnlyText(t) = Mapped(TextOf, t)
  BY OnlyTextIs
<1>4. Mapped(TextOf, s \o t) = Mapped(TextOf, s) \o Mapped(TextOf, t)
  BY TextOfType, MappedConcat
<1> QED
  BY <1>2, <1>3, <1>4

\* Nothing has no text.
LEMMA OnlyTextEmpty == OnlyText(<<>>) = <<>>
BY OnlyTextIs, EmptySeq, MappedEmpty

\* A line end has no text.
LEMMA OnlyTextOfLineEnd ==
  ASSUME NEW c \in {LF, CR}
  PROVE  OnlyText(<<c>>) = <<>>
<1>1. c \in Character /\ c \notin Text /\ <<c>> \in Seq(Character)
  BY OneSeq, LoggerAssumption DEF Character
<1>2. Mapped(TextOf, <<c>>) = TextOf[c]
  BY <1>1, TextOfType, MappedOne
<1>3. TextOf[c] = <<>>
  BY <1>1 DEF TextOf
<1> QED
  BY <1>1, <1>2, <1>3, OnlyTextIs

\* NonEmpty gives lines.
LEMMA NonEmptyType ==
  ASSUME NEW l \in Seq(Seq(Character))
  PROVE  NonEmpty(l) \in Seq(Seq(Character))
<1> DEFINE W == Seq(Character)
<1> HIDE DEF W
<1>1. LineOf \in [W -> Seq(W)] /\ l \in Seq(W) /\ NonEmpty(l) = Mapped(LineOf, l)
  BY LineOfType, NonEmptyIs DEF W
<1>2. Mapped(LineOf, l) \in Seq(W)
  BY <1>1, MappedType
<1> QED
  BY <1>1, <1>2 DEF W

\* To leave out empty lines loses nothing.
LEMMA NonEmptyKeeps ==
  ASSUME NEW l \in Seq(Seq(Character))
  PROVE  FlattenSeq(NonEmpty(l)) = FlattenSeq(l)
<1> DEFINE W == Seq(Character)
           P == {u \in Seq(W) : FlattenSeq(NonEmpty(u)) = FlattenSeq(u)}
<1>1. <<>> \in P
  <2>1. NonEmpty(<<>>) = <<>> /\ <<>> \in Seq(W)
    BY NonEmptyIs, EmptySeq, MappedEmpty
  <2> QED
    BY <2>1
<1>2. ASSUME NEW u \in Seq(W), NEW e \in W, u \in P
      PROVE  Append(u, e) \in P
  <2> HIDE DEF W
  <2>1. Append(u, e) \in Seq(W)
    BY AppendProperties
  <2>2. Mapped(LineOf, Append(u, e)) = Mapped(LineOf, u) \o LineOf[e]
    BY LineOfType, MappedAppend DEF W
  <2>3. NonEmpty(Append(u, e)) = NonEmpty(u) \o LineOf[e]
    BY <2>1, <2>2, NonEmptyIs DEF W
  <2>4. PICK a \in Seq(W), b \in Seq(W) : a = NonEmpty(u) /\ b = LineOf[e]
    BY NonEmptyType, LineOfType DEF W
  <2>5. FlattenSeq(a \o b) = FlattenSeq(a) \o FlattenSeq(b)
    BY FlattenConcat DEF W
  <2>6. FlattenSeq(b) = e
    <3>1. CASE e = <<>>
      <4>1. b = <<>>
        BY <2>4, <3>1 DEF LineOf, W
      <4> QED
        BY <3>1, <4>1, FlattenEmpty
    <3>2. CASE e # <<>>
      <4>1. b = <<e>>
        BY <2>4, <3>2 DEF LineOf, W
      <4> QED
        BY <4>1, FlattenOne DEF W
    <3> QED
      BY <3>1, <3>2
  <2>7. FlattenSeq(Append(u, e)) = FlattenSeq(u) \o e
    BY FlattenAppend DEF W
  <2>8. FlattenSeq(a) = FlattenSeq(u)
    BY <1>2, <2>4
  <2>9. FlattenSeq(NonEmpty(Append(u, e))) = FlattenSeq(Append(u, e))
    BY <2>3, <2>4, <2>5, <2>6, <2>7, <2>8
  <2> QED
    BY <2>1, <2>9
<1> HIDE DEF W
<1>3. l \in P
  <2>1. l \in Seq(W)
    BY DEF W
  <2> HIDE DEF P
  <2> QED
    BY <1>1, <1>2, <2>1, SequenceInduction
<1> QED
  BY <1>3

-----------------------------------------------------------------------------
(* Cutting a chunk into tokens (ScanLines). *)

\* NextAt finds the first c from i on, or is behind the end.
LEMMA NextAtIs ==
  ASSUME NEW p \in Seq(Character), NEW c, NEW i \in 1 .. Len(p) + 1
  PROVE  /\ NextAt(p, c, i) \in i .. Len(p) + 1
         /\ \A k \in i .. NextAt(p, c, i) - 1 : p[k] # c
         /\ NextAt(p, c, i) <= Len(p) => p[NextAt(p, c, i)] = c
<1> DEFINE T == {k \in i .. Len(p) : p[k] = c} \cup {Len(p) + 1}
           m == NextAt(p, c, i)
<1>1. Len(p) \in Nat
  BY LenProperties
<1>2. T \subseteq Nat /\ T # {}
  BY <1>1
<1>3. m \in T /\ \A k \in T : m <= k
  <2> HIDE DEF T
  <2>1. \E x \in T : \A y \in T : x <= y
    BY <1>2, LeastElement
  <2>2. m = CHOOSE x \in T : \A y \in T : x <= y
    BY DEF T, NextAt, Min
  <2> HIDE DEF m
  <2> QED
    BY <2>1, <2>2
<1> HIDE DEF m
<1>4. m \in i .. Len(p) + 1
  BY <1>1, <1>3
<1>5. ASSUME NEW k \in i .. m - 1
      PROVE  p[k] # c
  <2>1. k \in i .. Len(p) /\ ~(m <= k)
    BY <1>1, <1>4
  <2> QED
    BY <1>3, <2>1
<1>6. m <= Len(p) => p[m] = c
  BY <1>1, <1>3
<1> QED
  BY <1>4, <1>5, <1>6 DEF m

\* LineEndAt is at a line end, or behind the end.
LEMMA LineEndAtIs ==
  ASSUME NEW p \in Seq(Character), NEW i \in 1 .. Len(p) + 1
  PROVE  /\ LineEndAt(p, i) \in i .. Len(p) + 1
         /\ LineEndAt(p, i) <= Len(p) => p[LineEndAt(p, i)] \in {LF, CR}
BY NextAtIs DEF LineEndAt

\* DropCR drops no text.
LEMMA DropCRIs ==
  ASSUME NEW s \in Seq(Character)
  PROVE  /\ DropCR(s) \in Seq(Character)
         /\ OnlyText(DropCR(s)) = OnlyText(s)
<1>1. CASE s # <<>> /\ Last(s) = CR
  <2>1. PICK u \in Seq(Character), e \in Character : s = Append(u, e)
    BY <1>1, SequenceEmptyOrAppend, Zenon
  <2>2. Len(s) = Len(u) + 1 /\ Len(u) \in Nat /\ s[Len(s)] = e /\ \A i \in 1 .. Len(u) : s[i] = u[i]
    BY <2>1, AppendProperties, LenProperties
  <2>3. e = CR
    BY <1>1, <2>2 DEF Last
  <2>4. DropCR(s) = SubSeq(s, 1, Len(u))
    BY <1>1, <2>2 DEF DropCR, Front
  <2>5. SubSeq(s, 1, Len(u)) = u
    <3>1. \A i \in 1 .. Len(u) : s[i] \in Character
      BY <2>2, LenProperties
    <3>2. /\ SubSeq(s, 1, Len(u)) \in Seq(Character) /\ Len(SubSeq(s, 1, Len(u))) = Len(u)
          /\ \A i \in 1 .. Len(u) : SubSeq(s, 1, Len(u))[i] = u[i]
      BY <2>2, <3>1, SubSeqProperties
    <3> QED
      BY <3>2, SeqEqual
  <2>6. PICK t \in Seq(Character) : t = <<CR>>
    BY <2>3, OneSeq, Zenon
  <2>7. s = u \o t
    BY <2>1, <2>3, <2>6, AppendIsConcat
  <2>8. OnlyText(s) = OnlyText(u) \o OnlyText(t)
    BY <2>7, OnlyTextConcat
  <2>9. OnlyText(t) = <<>>
    BY <2>6, OnlyTextOfLineEnd
  <2>10. OnlyText(u) \o <<>> = OnlyText(u)
    BY OnlyTextType, ConcatEmptySeq
  <2> QED
    BY <2>4, <2>5, <2>8, <2>9, <2>10
<1>2. CASE ~(s # <<>> /\ Last(s) = CR)
  BY <1>2 DEF DropCR
<1> QED
  BY <1>1, <1>2

\* The function Parts is defined with.
PartsFrom(p, pa) ==
  CHOOSE from :
    from = [i \in 1 .. Len(p) + 2 |->
              IF i > Len(p) THEN <<>> ELSE <<pa[i].part>> \o from[pa[i].next]]

\* What is taken at a place is in W, and the next place lies behind it.
Cuts(n, W, pa) == \A i \in 1 .. n : pa[i].part \in W /\ pa[i].next \in i + 1 .. n + 2

\* F[i] is the sequence of parts taken from place i on.
From(F, n, W, pa) ==
  \A i \in 1 .. n + 2 :
    F[i] \in Seq(W) /\ F[i] = IF i > n THEN <<>> ELSE <<pa[i].part>> \o F[pa[i].next]

\* Parts is such a function at its first place.
LEMMA PartsFromIs ==
  ASSUME NEW W, NEW p, NEW n \in Nat, n = Len(p), NEW pa, Cuts(n, W, pa)
  PROVE  \E F : Parts(p, pa) = F[1] /\ From(F, n, W, pa)
<1> DEFINE Body(g, i) == IF i > n THEN <<>> ELSE <<pa[i].part>> \o g[pa[i].next]
<1>1. PICK N \in Nat : N = n + 2
  OBVIOUS
<1> DEFINE V == Seq(W)
           G == [1 .. N -> V]
           D == [g \in G |-> [i \in 1 .. N |-> Body(g, i)]]
<1>2. ASSUME NEW i \in 1 .. N, ~(i > n)
      PROVE  pa[i].part \in W /\ pa[i].next \in i + 1 .. N
  <2>1. i \in 1 .. n
    BY <1>1, <1>2
  <2> QED
    BY <1>1, <2>1 DEF Cuts
<1>3. ASSUME NEW g, NEW i \in 1 .. N, \A j \in i + 1 .. N : g[j] \in V
      PROVE  Body(g, i) \in V
  <2>1. CASE i > n
    BY <2>1, EmptySeq
  <2>2. CASE ~(i > n)
    <3>1. PICK a \in Seq(W) : a = <<pa[i].part>>
      BY <1>2, <2>2, OneSeq
    <3>2. PICK b \in Seq(W) : b = g[pa[i].next]
      BY <1>2, <1>3, <2>2
    <3>3. a \o b \in Seq(W)
      BY ConcatProperties
    <3> QED
      BY <2>2, <3>1, <3>2, <3>3
  <2> QED
    BY <2>1, <2>2
<1>4. ASSUME NEW i \in 1 .. N, NEW g \in G, NEW h \in G, \A j \in i + 1 .. N : g[j] = h[j]
      PROVE  Body(g, i) = Body(h, i)
  <2>1. CASE i > n
    BY <2>1
  <2>2. CASE ~(i > n)
    <3>1. g[pa[i].next] = h[pa[i].next]
      BY <1>2, <1>4, <2>2
    <3> QED
      BY <3>1
  <2> QED
    BY <2>1, <2>2
<1>5. PICK f \in G : f = [i \in 1 .. N |-> Body(f, i)]
  <2>1. Backward(N, V, D)
    <3>1. V # {}
      BY EmptySeq
    <3>2. D \in [G -> G]
      <4>1. ASSUME NEW g \in G, NEW i \in 1 .. N
            PROVE  Body(g, i) \in V
        <5>1. \A j \in i + 1 .. N : j \in 1 .. N
          OBVIOUS
        <5>2. \A j \in i + 1 .. N : g[j] \in V
          <6> HIDE DEF V
          <6> QED
            BY <5>1
        <5> HIDE DEF Body, V, G
        <5> QED
          BY <1>3, <5>2
      <4> HIDE DEF Body, V
      <4> QED
        BY <4>1
    <3>3. \A i \in 1 .. N : \A g, h \in G :
            (\A j \in i + 1 .. N : g[j] = h[j]) => D[g][i] = D[h][i]
      <4> HIDE DEF Body, G
      <4> QED
        BY <1>4
    <3> HIDE DEF D, V
    <3> QED
      BY <3>1, <3>2, <3>3 DEF Backward
  <2>2. PICK f \in G : f = D[f]
    <3> HIDE DEF D, V
    <3> QED
      BY <2>1, BackwardRecursion
  <2>3. f = [i \in 1 .. N |-> Body(f, i)]
    <3> HIDE DEF Body, G
    <3> QED
      BY <2>2
  <2> HIDE DEF Body, G
  <2> QED
    BY <2>3
<1> DEFINE F == PartsFrom(p, pa)
           R == [i \in 1 .. N |-> Body(F, i)]
           Made(g) == [i \in 1 .. Len(p) + 2 |->
                        IF i > Len(p) THEN <<>> ELSE <<pa[i].part>> \o g[pa[i].next]]
<1>6. F = R
  <2>1. N = Len(p) + 2
    BY <1>1
  <2>2. f = Made(f)
    BY <1>5, <2>1
  <2>3. F = Made(F)
    BY <2>2, Zenon DEF PartsFrom
  <2>4. Made(F) = R
    <3> HIDE DEF F
    <3> QED
      BY <2>1
  <2> HIDE DEF Made, R, F
  <2> QED
    BY <2>3, <2>4
<1> HIDE DEF F
<1>7. \A i \in 1 .. N : R[i] = Body(F, i)
  OBVIOUS
<1> HIDE DEF R
<1>8. \A i \in 1 .. N : F[i] = Body(F, i)
  BY <1>6, <1>7
<1>9. \A i \in 1 .. N : F[i] \in V
  <2> DEFINE P == {i \in 1 .. N : F[i] \in V}
  <2>1. \A i \in 1 .. N : (\A j \in i + 1 .. N : j \in P) => i \in P
    <3>1. ASSUME NEW i \in 1 .. N, \A j \in i + 1 .. N : j \in P
          PROVE  i \in P
      <4>1. \A j \in i + 1 .. N : F[j] \in V
        BY <3>1
      <4>2. Body(F, i) \in V
        <5> HIDE DEF Body, V, P
        <5> QED
          BY <1>3, <4>1
      <4> HIDE DEF Body, V
      <4> QED
        BY <1>8, <4>2
    <3> HIDE DEF P
    <3> QED
      BY <3>1
  <2> HIDE DEF P
  <2>2. \A i \in 1 .. N : i \in P
    BY <2>1, BackwardInduction
  <2> QED
    BY <2>2 DEF P
<1>10. Parts(p, pa) = F[1]
  BY DEF Parts, PartsFrom, F
<1>11. From(F, n, W, pa)
  BY <1>1, <1>8, <1>9 DEF From
<1> QED
  BY <1>10, <1>11

\* The end of a sequence from i on.
LEMMA FromIs ==
  ASSUME NEW S, NEW p \in Seq(S), NEW i \in 1 .. Len(p) + 2
  PROVE  /\ SubSeq(p, i, Len(p)) \in Seq(S)
         /\ i > Len(p) => SubSeq(p, i, Len(p)) = <<>>
         /\ i = 1 => SubSeq(p, i, Len(p)) = p
<1>1. Len(p) \in Nat /\ Len(p) \in Int /\ i \in Int /\ \A k \in i .. Len(p) : p[k] \in S
  BY LenProperties
<1>2. SubSeq(p, i, Len(p)) \in Seq(S)
  BY <1>1, SubSeqProperties
<1>3. i > Len(p) => SubSeq(p, i, Len(p)) = <<>>
  BY <1>1, SubSeqEmpty
<1>4. SubSeq(p, 1, Len(p)) = p
  BY SubSeqFull
<1> QED
  BY <1>2, <1>3, <1>4

\* The end of a sequence from i on, cut behind k.
LEMMA PartIs ==
  ASSUME NEW S, NEW p \in Seq(S), NEW i \in 1 .. Len(p) + 1, NEW k \in i - 1 .. Len(p)
  PROVE  /\ SubSeq(p, i, k) \in Seq(S)
         /\ SubSeq(p, i, Len(p)) = SubSeq(p, i, k) \o SubSeq(p, k + 1, Len(p))
<1>1. Len(p) \in Nat /\ k \in Int /\ i \in Int /\ \A j \in i .. k : p[j] \in S
  BY LenProperties
<1>2. Len(p) \in k .. Len(p)
  BY <1>1
<1> QED
  BY <1>1, <1>2, SubSeqProperties, ConcatAdjacentSubSeq

\* The elements from i to k.
LEMMA PartAt ==
  ASSUME NEW S, NEW p \in Seq(S), NEW i \in 1 .. Len(p) + 1, NEW k \in i - 1 .. Len(p)
  PROVE  /\ SubSeq(p, i, k) \in Seq(S) /\ Len(SubSeq(p, i, k)) = k - i + 1
         /\ \A j \in 1 .. k - i + 1 : SubSeq(p, i, k)[j] = p[i + j - 1]
<1>1. Len(p) \in Nat /\ i \in Int /\ k \in Int /\ \A j \in i .. k : p[j] \in S
  BY LenProperties
<1>2. /\ SubSeq(p, i, k) \in Seq(S)
      /\ Len(SubSeq(p, i, k)) = IF i <= k THEN k - i + 1 ELSE 0
      /\ \A j \in 1 .. k - i + 1 : SubSeq(p, i, k)[j] = p[i + j - 1]
  BY <1>1, SubSeqProperties
<1>3. (IF i <= k THEN k - i + 1 ELSE 0) = k - i + 1
  BY <1>1
<1> QED
  BY <1>2, <1>3

\* Scanning a chunk keeps its text.
LEMMA TokensKeepText ==
  ASSUME NEW p \in Seq(Character), p # <<>>
  PROVE  /\ Tokens(p) \in Seq(Seq(Character)) /\ Tokens(p) # <<>>
         /\ OnlyText(FlattenSeq(Tokens(p))) = OnlyText(p)
<1> DEFINE W == Seq(Character)
<1>1. PICK n \in Nat : n = Len(p) /\ n # 0
  BY LenProperties, EmptySeq
<1> DEFINE pa == [i \in DOMAIN p |->
                   Part(DropCR(SubSeq(p, i, LineEndAt(p, i) - 1)), LineEndAt(p, i) + 1)]
<1>2. \A i \in 1 .. n : /\ pa[i].part = DropCR(SubSeq(p, i, LineEndAt(p, i) - 1))
                        /\ pa[i].next = LineEndAt(p, i) + 1
  <2>1. DOMAIN p = 1 .. n
    BY <1>1, LenProperties
  <2> QED
    BY <2>1 DEF Part
<1> HIDE DEF pa
<1>20. Cuts(n, W, pa)
  <2>1. ASSUME NEW i \in 1 .. n
        PROVE  pa[i].part \in W /\ pa[i].next \in i + 1 .. n + 2
    <3>1. LineEndAt(p, i) \in i .. n + 1 /\ i \in 1 .. Len(p) + 1
      BY <1>1, LineEndAtIs
    <3>2. LineEndAt(p, i) - 1 \in i - 1 .. Len(p)
      BY <1>1, <3>1
    <3>3. SubSeq(p, i, LineEndAt(p, i) - 1) \in W
      BY <3>1, <3>2, PartIs
    <3>4. DropCR(SubSeq(p, i, LineEndAt(p, i) - 1)) \in W
      BY <3>3, DropCRIs
    <3> QED
      BY <1>2, <3>1, <3>4
  <2> QED
    BY <2>1 DEF Cuts
<1> HIDE DEF W
<1>21. PICK F : Parts(p, pa) = F[1] /\ From(F, n, W, pa)
  BY <1>1, <1>20, PartsFromIs, Zenon
<1>3. \A i \in 1 .. n + 2 :
           /\ F[i] \in Seq(W)
           /\ F[i] = IF i > n THEN <<>>
                     ELSE <<DropCR(SubSeq(p, i, LineEndAt(p, i) - 1))>> \o F[LineEndAt(p, i) + 1]
  <2>1. \A i \in 1 .. n + 2 :
           /\ F[i] \in Seq(W)
           /\ F[i] = IF i > n THEN <<>> ELSE <<pa[i].part>> \o F[pa[i].next]
    BY <1>21 DEF From
  <2>2. \A i \in 1 .. n + 2 : ~(i > n) => i \in 1 .. n
    OBVIOUS
  <2> QED
    BY <1>2, <2>1, <2>2
<1>4. Tokens(p) = F[1]
  BY <1>21, Zenon DEF Tokens, pa
<1> USE DEF W
<1> DEFINE P == {i \in 1 .. n + 2 : OnlyText(FlattenSeq(F[i])) = OnlyText(SubSeq(p, i, n))}
<1>5. ASSUME NEW i \in 1 .. n + 2, \A j \in i + 1 .. n + 2 : j \in P
      PROVE  OnlyText(FlattenSeq(F[i])) = OnlyText(SubSeq(p, i, n))
  <2>1. CASE i > n
    BY <1>1, <1>3, <2>1, FromIs, FlattenEmpty
  <2>2. CASE ~(i > n)
    <3>1. PICK e \in i .. n + 1 : e = LineEndAt(p, i) /\ (e <= n => p[e] \in {LF, CR})
      BY <1>1, <2>2, LineEndAtIs
    <3>2. PICK a \in W, z \in W, rest \in W :
            /\ a = SubSeq(p, i, e - 1) /\ z = SubSeq(p, e, n) /\ rest = SubSeq(p, e + 1, n)
            /\ SubSeq(p, i, n) = a \o z
      <4>1. i \in 1 .. Len(p) + 1 /\ e - 1 \in i - 1 .. Len(p) /\ e - 1 + 1 = e
        BY <1>1, <2>2
      <4>2. SubSeq(p, i, e - 1) \in W /\ SubSeq(p, i, n) = SubSeq(p, i, e - 1) \o SubSeq(p, e, n)
        BY <1>1, <4>1, PartIs
      <4>3. e \in 1 .. Len(p) + 2 /\ e + 1 \in 1 .. Len(p) + 2
        BY <1>1, <2>2
      <4>4. SubSeq(p, e, n) \in W /\ SubSeq(p, e + 1, n) \in W
        BY <1>1, <4>3, FromIs
      <4> QED
        BY <4>2, <4>4
    <3>3. OnlyText(z) = OnlyText(rest)
      <4>1. CASE e = n + 1
        <5>1. e \in 1 .. Len(p) + 2 /\ e + 1 \in 1 .. Len(p) + 2 /\ e > Len(p) /\ e + 1 > Len(p)
          BY <1>1, <4>1
        <5>2. z = <<>> /\ rest = <<>>
          BY <1>1, <3>2, <5>1, FromIs
        <5> QED
          BY <5>2
      <4>2. CASE e <= n
        <5>1. PICK b \in W : b = <<p[e]>>
          <6>1. p[e] \in Character
            BY <1>1, <4>2, LenProperties
          <6> QED
            BY <6>1, OneSeq
        <5>2. e \in 1 .. Len(p) /\ Len(p) \in e .. Len(p)
          BY <1>1, <4>2
        <5>3. z = b \o rest
          BY <1>1, <3>2, <5>1, <5>2, SubSeqRecursiveFirst
        <5>4. OnlyText(b) = <<>>
          BY <3>1, <4>2, <5>1, OnlyTextOfLineEnd
        <5>5. OnlyText(z) = OnlyText(b) \o OnlyText(rest)
          BY <5>3, OnlyTextConcat
        <5> QED
          BY <5>4, <5>5, OnlyTextType, ConcatEmptySeq
      <4> QED
        BY <4>1, <4>2
    <3>4. OnlyText(SubSeq(p, i, n)) = OnlyText(a) \o OnlyText(rest)
      BY <3>2, <3>3, OnlyTextConcat
    <3>5. PICK d \in W : d = DropCR(a) /\ OnlyText(d) = OnlyText(a)
      BY DropCRIs
    <3>6. PICK t \in Seq(W), u \in Seq(W) : t = <<d>> /\ u = F[e + 1] /\ F[i] = t \o u
      <4>1. e + 1 \in 1 .. n + 2
        BY <2>2
      <4> HIDE DEF W
      <4>2. <<d>> \in Seq(W)
        BY OneSeq
      <4> QED
        BY <1>3, <2>2, <3>1, <3>2, <3>5, <4>1, <4>2
    <3>7. FlattenSeq(t \o u) = FlattenSeq(t) \o FlattenSeq(u)
      BY FlattenConcat
    <3>8. FlattenSeq(t) = d
      BY <3>6, FlattenOne
    <3>9. PICK v \in W : v = FlattenSeq(u)
      BY FlattenType
    <3>10. OnlyText(d \o v) = OnlyText(d) \o OnlyText(v)
      BY OnlyTextConcat
    <3>11. OnlyText(v) = OnlyText(rest)
      <4>1. e + 1 \in i + 1 .. n + 2
        BY <2>2
      <4>2. e + 1 \in P
        BY <1>5, <4>1
      <4> QED
        BY <3>2, <3>6, <3>9, <4>2
    <3> QED
      BY <3>4, <3>5, <3>6, <3>7, <3>8, <3>9, <3>10, <3>11
  <2> QED
    BY <2>1, <2>2
<1>6. \A i \in 1 .. n + 2 : i \in P
  <2>1. \A i \in 1 .. n + 2 : (\A j \in i + 1 .. n + 2 : j \in P) => i \in P
    BY <1>5
  <2> HIDE DEF P
  <2>2. PICK N \in Nat : N = n + 2
    OBVIOUS
  <2> QED
    BY <2>1, <2>2, BackwardInduction
<1>7. OnlyText(FlattenSeq(Tokens(p))) = OnlyText(p)
  <2>1. 1 \in P
    BY <1>6
  <2>2. SubSeq(p, 1, n) = p
    BY <1>1, SubSeqFull
  <2> QED
    BY <1>4, <2>1, <2>2
<1> HIDE DEF W
<1>8. Tokens(p) \in Seq(W)
  <2>1. 1 \in 1 .. n + 2
    OBVIOUS
  <2> QED
    BY <1>3, <1>4, <2>1
<1>9. Tokens(p) # <<>>
  <2>1. LineEndAt(p, 1) \in 1 .. n + 1
    BY <1>1, LineEndAtIs
  <2>2. F[LineEndAt(p, 1) + 1] \in Seq(W) /\ Tokens(p) = <<DropCR(SubSeq(p, 1, LineEndAt(p, 1) - 1))>> \o F[LineEndAt(p, 1) + 1]
    <3>1. 1 \in 1 .. n + 2 /\ ~(1 > n) /\ LineEndAt(p, 1) + 1 \in 1 .. n + 2
      BY <1>1, <2>1
    <3> QED
      BY <1>3, <1>4, <3>1
  <2>3. Len(Tokens(p)) = 1 + Len(F[LineEndAt(p, 1) + 1]) /\ Len(F[LineEndAt(p, 1) + 1]) \in Nat
    BY <2>2, LenProperties
  <2> QED
    BY <2>3
<1> QED
  BY <1>7, <1>8, <1>9 DEF W

-----------------------------------------------------------------------------
(* Cutting a stream into pieces (ReadLine). *)

\* What DropCR makes of the characters from i to k.
LEMMA DropCRPart ==
  ASSUME NEW p \in Seq(Character), NEW i \in 1 .. Len(p), NEW k \in i - 1 .. Len(p)
  PROVE  DropCR(SubSeq(p, i, k)) =
           IF k >= i /\ p[k] = CR THEN SubSeq(p, i, k - 1) ELSE SubSeq(p, i, k)
<1>1. Len(p) \in Nat /\ i \in Int /\ k \in Int /\ \A j \in i .. k : p[j] \in Character
  BY LenProperties
<1>2. PICK s \in Seq(Character) : s = SubSeq(p, i, k)
  <2>1. i \in 1 .. Len(p) + 1
    BY <1>1
  <2>2. SubSeq(p, i, k) \in Seq(Character)
    BY <2>1, PartAt
  <2> QED
    BY <2>2
<1>20. Len(s) = k - i + 1 /\ \A j \in 1 .. k - i + 1 : s[j] = p[i + j - 1]
  BY <1>1, <1>2, PartAt
<1>3. CASE k < i
  <2>1. s = <<>>
    BY <1>1, <1>2, <1>3, SubSeqEmpty
  <2> QED
    BY <1>1, <1>2, <1>3, <2>1 DEF DropCR
<1>4. CASE k >= i
  <2>1. s # <<>> /\ Len(s) = k - i + 1 /\ Last(s) = p[k]
    <3>1. Len(s) = k - i + 1 /\ k - i + 1 \in 1 .. k - i + 1 /\ i + (k - i + 1) - 1 = k
      BY <1>1, <1>20, <1>4
    <3>2. s[k - i + 1] = p[k]
      BY <1>20, <3>1
    <3> QED
      BY <1>1, <1>4, <3>1, <3>2 DEF Last
  <2>2. CASE p[k] # CR
    BY <1>2, <2>1, <2>2 DEF DropCR
  <2>3. CASE p[k] = CR
    <3>1. DropCR(s) = SubSeq(s, 1, k - i)
      BY <1>1, <2>1, <2>3 DEF DropCR, Front
    <3>2. PICK t \in Seq(Character) : t = SubSeq(p, i, k - 1)
      <4>1. i \in 1 .. Len(p) + 1 /\ k - 1 \in i - 1 .. Len(p)
        BY <1>1, <1>4
      <4>2. SubSeq(p, i, k - 1) \in Seq(Character)
        BY <4>1, PartAt
      <4> QED
        BY <4>2
    <3>3. Len(t) = k - i /\ \A j \in 1 .. k - i : t[j] = p[i + j - 1]
      <4>1. k - 1 \in i - 1 .. Len(p) /\ k - 1 - i + 1 = k - i
        BY <1>1, <1>4
      <4>2. /\ Len(SubSeq(p, i, k - 1)) = k - 1 - i + 1
            /\ \A j \in 1 .. k - 1 - i + 1 : SubSeq(p, i, k - 1)[j] = p[i + j - 1]
        BY <4>1, PartAt
      <4> QED
        BY <3>2, <4>1, <4>2
    <3>30. PICK u \in Seq(Character) :
            /\ u = SubSeq(s, 1, k - i) /\ Len(u) = k - i
            /\ \A j \in 1 .. k - i : u[j] = p[i + j - 1]
      <4>1. /\ k - i \in 1 - 1 .. Len(s) /\ 1 \in 1 .. Len(s) + 1
            /\ k - i - 1 + 1 = k - i
            /\ \A j \in 1 .. k - i : j \in 1 .. k - i + 1 /\ 1 + j - 1 = j
        BY <1>1, <1>4, <2>1
      <4>2. /\ SubSeq(s, 1, k - i) \in Seq(Character)
            /\ Len(SubSeq(s, 1, k - i)) = k - i - 1 + 1
            /\ \A j \in 1 .. k - i - 1 + 1 : SubSeq(s, 1, k - i)[j] = s[1 + j - 1]
        BY <4>1, PartAt
      <4>3. \A j \in 1 .. k - i : SubSeq(s, 1, k - i)[j] = p[i + j - 1]
        BY <1>20, <4>1, <4>2
      <4>4. Len(SubSeq(s, 1, k - i)) = k - i
        BY <4>1, <4>2
      <4> QED
        BY <4>2, <4>3, <4>4
    <3>4. t = u
      BY <3>3, <3>30, SeqEqual
    <3> QED
      BY <1>2, <1>4, <2>3, <3>1, <3>2, <3>30, <3>4
  <2> QED
    BY <2>2, <2>3
<1> QED
  BY <1>1, <1>3, <1>4

\* What WithoutLineEnds keeps of each character.
KeptAt(p) == [i \in DOMAIN p |-> IF IsLineEnd(p, i) THEN <<>> ELSE <<p[i]>>]
\* What it keeps from place i on.
KeptFrom(p, i) == FlattenSeq(SubSeq(KeptAt(p), i, Len(p)))

\* The type and the values of KeptAt.
LEMMA KeptAtIs ==
  ASSUME NEW p \in Seq(Character)
  PROVE  /\ KeptAt(p) \in Seq(Seq(Character)) /\ Len(KeptAt(p)) = Len(p)
         /\ \A i \in 1 .. Len(p) : KeptAt(p)[i] = IF IsLineEnd(p, i) THEN <<>> ELSE <<p[i]>>
<1> DEFINE W == Seq(Character)
<1> HIDE DEF W
<1>1. DOMAIN p = 1 .. Len(p) /\ Len(p) \in Nat /\ \A i \in 1 .. Len(p) : p[i] \in Character
  BY LenProperties
<1>2. \A i \in 1 .. Len(p) : (IF IsLineEnd(p, i) THEN <<>> ELSE <<p[i]>>) \in W
  BY <1>1, OneSeq, EmptySeq DEF W
<1>3. KeptAt(p) \in [1 .. Len(p) -> W]
  BY <1>1, <1>2 DEF KeptAt
<1>4. KeptAt(p) \in Seq(W)
  BY <1>1, <1>3, SeqDef
<1>5. \A i \in 1 .. Len(p) : KeptAt(p)[i] = IF IsLineEnd(p, i) THEN <<>> ELSE <<p[i]>>
  BY <1>1 DEF KeptAt
<1>6. Len(KeptAt(p)) = Len(p)
  BY <1>1, <1>3
<1> QED
  BY <1>4, <1>5, <1>6 DEF W

\* What is kept from i on is characters; from the first place on it is all that is kept.
LEMMA KeptType ==
  ASSUME NEW p \in Seq(Character), NEW i \in 1 .. Len(p) + 2
  PROVE  /\ KeptFrom(p, i) \in Seq(Character)
         /\ i > Len(p) => KeptFrom(p, i) = <<>>
         /\ i = 1 => KeptFrom(p, i) = WithoutLineEnds(p)
<1> DEFINE W == Seq(Character)
<1> HIDE DEF W
<1>1. PICK m \in Seq(W) : m = KeptAt(p) /\ Len(m) = Len(p)
  BY KeptAtIs DEF W
<1>2. /\ SubSeq(m, i, Len(m)) \in Seq(W)
      /\ i > Len(m) => SubSeq(m, i, Len(m)) = <<>>
      /\ i = 1 => SubSeq(m, i, Len(m)) = m
  BY <1>1, FromIs
<1> QED
  BY <1>1, <1>2, FlattenType, FlattenEmpty DEF KeptFrom, W, WithoutLineEnds, KeptAt

\* A part without line ends is kept as it is.
LEMMA KeptPart ==
  ASSUME NEW p \in Seq(Character), NEW i \in 1 .. Len(p) + 1, NEW k \in i - 1 .. Len(p),
         \A j \in i .. k : ~IsLineEnd(p, j)
  PROVE  KeptFrom(p, i) = SubSeq(p, i, k) \o KeptFrom(p, k + 1)
<1> DEFINE W == Seq(Character)
<1> HIDE DEF W
<1>1. PICK m \in Seq(W) : m = KeptAt(p) /\ Len(m) = Len(p)
  BY KeptAtIs DEF W
<1>2. KeptFrom(p, i) = FlattenSeq(SubSeq(m, i, k)) \o KeptFrom(p, k + 1)
  BY <1>1, FlattenParts DEF W, KeptFrom
<1>3. PICK s \in Seq(Character) : s = SubSeq(p, i, k)
  BY PartIs
<1>4. Len(p) \in Nat /\ i \in Int /\ k \in Int /\ \A j \in i .. k : j \in 1 .. Len(p)
  BY LenProperties
<1>5. \A j \in i .. k : m[j] = <<p[j]>> /\ m[j] \in W /\ p[j] \in Character
  BY <1>1, <1>4, KeptAtIs, LenProperties, OneSeq DEF W
<1>6. PICK n \in Nat : n = k - i + 1
  BY <1>4
<1>7. /\ Len(s) = n /\ DOMAIN s = 1 .. n
      /\ \A j \in 1 .. n : s[j] = p[i + j - 1]
  <2>1. /\ Len(s) = IF i <= k THEN k - i + 1 ELSE 0
        /\ \A j \in 1 .. k - i + 1 : s[j] = p[i + j - 1]
    BY <1>3, <1>4, <1>5, SubSeqProperties
  <2>2. Len(s) = n
    BY <1>4, <1>6, <2>1
  <2> QED
    BY <1>6, <2>1, <2>2, LenProperties
<1>8. PICK q \in Seq(W) :
        /\ q = SubSeq(m, i, k) /\ Len(q) = n /\ DOMAIN q = 1 .. n
        /\ \A j \in 1 .. n : q[j] = m[i + j - 1]
  <2>1. /\ SubSeq(m, i, k) \in Seq(W)
        /\ Len(SubSeq(m, i, k)) = IF i <= k THEN k - i + 1 ELSE 0
        /\ \A j \in 1 .. k - i + 1 : SubSeq(m, i, k)[j] = m[i + j - 1]
    BY <1>4, <1>5, SubSeqProperties
  <2>2. Len(SubSeq(m, i, k)) = n
    BY <1>4, <1>6, <2>1
  <2> QED
    BY <1>6, <2>1, <2>2, LenProperties
<1>9. \A j \in 1 .. n : q[j] = <<s[j]>>
  <2>1. ASSUME NEW j \in 1 .. n
        PROVE  q[j] = <<s[j]>>
    <3>1. i + j - 1 \in i .. k
      BY <1>4, <1>6
    <3> QED
      BY <1>5, <1>7, <1>8, <3>1
  <2> QED
    BY <2>1
<1>10. q = [j \in DOMAIN s |-> <<s[j]>>]
  <2>1. q = [j \in 1 .. n |-> q[j]]
    BY <1>8, LenProperties
  <2> QED
    BY <1>7, <1>9, <2>1
<1>11. FlattenSeq(q) = s
  BY <1>10, FlattenSingles
<1> QED
  BY <1>2, <1>3, <1>8, <1>11

\* Of a line end nothing is kept.
LEMMA KeptEnd ==
  ASSUME NEW p \in Seq(Character), NEW i \in 1 .. Len(p), IsLineEnd(p, i)
  PROVE  KeptFrom(p, i) = KeptFrom(p, i + 1)
<1> DEFINE W == Seq(Character)
<1> HIDE DEF W
<1>1. PICK m \in Seq(W) : m = KeptAt(p) /\ Len(m) = Len(p) /\ m[i] = <<>>
  BY KeptAtIs DEF W
<1>2. PICK n \in Nat : n = Len(p)
  BY LenProperties
<1>3. i \in 1 .. Len(m) /\ n \in i .. Len(m) /\ i \in 1 .. Len(m) + 1 /\ i \in i - 1 .. Len(m)
  BY <1>1, <1>2
<1>4. KeptFrom(p, i) = FlattenSeq(SubSeq(m, i, i)) \o KeptFrom(p, i + 1)
  BY <1>1, <1>3, FlattenParts DEF W, KeptFrom
<1>5. SubSeq(m, i, i) = <<m[i]>>
  <2>1. i \in i .. Len(m) /\ i + 1 \in Int /\ i < i + 1 /\ i \in Int
    BY <1>2, <1>3
  <2>2. SubSeq(m, i, i) = <<m[i]>> \o SubSeq(m, i + 1, i)
    BY <1>3, <2>1, SubSeqRecursiveFirst
  <2>3. SubSeq(m, i + 1, i) = <<>>
    BY <2>1, SubSeqEmpty
  <2>4. PICK o \in Seq(W) : o = <<m[i]>>
    BY <1>3, LenProperties, OneSeq
  <2> QED
    BY <2>2, <2>3, <2>4, ConcatEmptySeq
<1>6. FlattenSeq(SubSeq(m, i, i)) = <<>>
  BY <1>1, <1>5, FlattenOne, EmptySeq
<1>7. i + 1 \in 1 .. Len(p) + 2
  BY <1>2
<1> QED
  BY <1>4, <1>6, <1>7, KeptType, ConcatEmptySeq

\* Before the next \n there is no line end but the \r in front of it.
LEMMA NoLineEnds ==
  ASSUME NEW p \in Seq(Character), NEW i \in 1 .. Len(p), NEW k \in i - 1 .. Len(p),
         k < NextAt(p, LF, i),
         k + 1 < NextAt(p, LF, i) \/ k = Len(p) \/ k < i \/ p[k] # CR
  PROVE  \A j \in i .. k : ~IsLineEnd(p, j)
<1>1. PICK n \in Nat : n = Len(p)
  BY LenProperties
<1>2. i \in 1 .. Len(p) + 1
  BY <1>1
<1>3. PICK lf \in i .. n + 1 : lf = NextAt(p, LF, i) /\ \A j \in i .. lf - 1 : p[j] # LF
  BY <1>1, <1>2, NextAtIs
<1>4. ASSUME NEW j \in i .. k
      PROVE  ~IsLineEnd(p, j)
  <2>1. p[j] # LF
    BY <1>1, <1>3
  <2>2. CASE j + 1 < lf
    <3>1. p[j + 1] # LF
      BY <1>1, <1>3, <2>2
    <3> QED
      BY <2>1, <3>1 DEF IsLineEnd
  <2>3. CASE ~(j + 1 < lf)
    <3>1. j = k /\ k >= i /\ ~(k + 1 < lf)
      BY <1>1, <1>3, <2>3
    <3>2. ~(j < Len(p)) \/ p[j] # CR
      BY <1>1, <1>3, <3>1
    <3> QED
      BY <2>1, <3>2 DEF IsLineEnd
  <2> QED
    BY <2>2, <2>3
<1> QED
  BY <1>4

\* A step of ReadLine keeps what WithoutLineEnds keeps and fits into the buffer.
ReadsLine(p, i, s, next) ==
  /\ s \in Seq(Character) /\ Len(s) <= Buf /\ next \in i + 1 .. Len(p) + 1
  /\ KeptFrom(p, i) = s \o KeptFrom(p, next)

\* A piece is a stretch of the stream that has no line ends, and what comes between it
\* and the next piece is a line end.
LEMMA ReadsPart ==
  ASSUME NEW p \in Seq(Character), NEW i \in 1 .. Len(p), NEW k \in i - 1 .. Len(p),
         NEW next, next \in i + 1 .. Len(p) + 1,
         k - i + 1 <= Buf, k < NextAt(p, LF, i),
         k + 1 < NextAt(p, LF, i) \/ k = Len(p) \/ k < i \/ p[k] # CR,
         KeptFrom(p, k + 1) = KeptFrom(p, next)
  PROVE  ReadsLine(p, i, SubSeq(p, i, k), next)
<1>1. Len(p) \in Nat /\ i \in 1 .. Len(p) + 1
  BY LenProperties
<1>2. \A j \in i .. k : ~IsLineEnd(p, j)
  BY NoLineEnds
<1>3. KeptFrom(p, i) = SubSeq(p, i, k) \o KeptFrom(p, k + 1)
  BY <1>1, <1>2, KeptPart
<1>4. SubSeq(p, i, k) \in Seq(Character) /\ Len(SubSeq(p, i, k)) = k - i + 1
  BY <1>1, PartAt
<1> QED
  BY <1>3, <1>4 DEF ReadsLine

\* Every step of ReadLine does, the one that leaves a \r for the next one included.
LEMMA ReadLineIs ==
  ASSUME NEW p \in Seq(Character), NEW i \in 1 .. Len(p)
  PROVE  ReadsLine(p, i, ReadLine(p, i).part, ReadLine(p, i).next)
<1>1. PICK n \in Nat : n = Len(p)
  BY LenProperties
<1>2. i \in 1 .. Len(p) + 1 /\ Buf \in Nat /\ Buf >= 2
  BY <1>1, LoggerAssumption
<1>3. PICK lf \in i .. n + 1 : lf = NextAt(p, LF, i) /\ (lf <= n => p[lf] = LF)
  BY <1>1, <1>2, NextAtIs
<1> DEFINE r == ReadLine(p, i)
<1>4. CASE lf < i + Buf /\ lf <= n
  <2> DEFINE k == IF lf - 1 >= i /\ p[lf - 1] = CR THEN lf - 2 ELSE lf - 1
  <2>1. r.part = DropCR(SubSeq(p, i, lf - 1)) /\ r.next = lf + 1
    BY <1>1, <1>3, <1>4 DEF ReadLine, Part
  <2>2. lf - 1 \in i - 1 .. Len(p) /\ k \in i - 1 .. Len(p) /\ lf - 1 - 1 = lf - 2
    BY <1>1, <1>4
  <2>3. r.part = SubSeq(p, i, k)
    BY <2>1, <2>2, DropCRPart
  <2>4. lf \in 1 .. Len(p) /\ IsLineEnd(p, lf)
    BY <1>1, <1>3, <1>4 DEF IsLineEnd
  <2>5. KeptFrom(p, lf) = KeptFrom(p, lf + 1)
    BY <2>4, KeptEnd
  <2>6. KeptFrom(p, k + 1) = KeptFrom(p, lf + 1)
    <3>1. CASE k = lf - 1
      BY <2>5, <3>1
    <3>2. CASE k # lf - 1
      <4>1. k = lf - 2 /\ lf - 1 \in 1 .. Len(p) /\ p[lf - 1] = CR /\ lf - 1 < Len(p) /\ lf - 1 + 1 = lf
        BY <1>1, <1>4, <3>2
      <4>2. IsLineEnd(p, lf - 1)
        BY <1>1, <1>3, <1>4, <4>1 DEF IsLineEnd
      <4>3. KeptFrom(p, lf - 1) = KeptFrom(p, lf)
        BY <4>1, <4>2, KeptEnd
      <4> QED
        BY <2>5, <4>1, <4>3
    <3> QED
      BY <3>1, <3>2
  <2>7. /\ lf + 1 \in i + 1 .. Len(p) + 1 /\ k - i + 1 <= Buf /\ k < lf
        /\ k + 1 < lf \/ k = Len(p) \/ k < i \/ p[k] # CR
    BY <1>1, <1>2, <1>4
  <2> HIDE DEF k, r
  <2> QED
    BY <1>3, <2>1, <2>2, <2>3, <2>6, <2>7, ReadsPart DEF r
<1>5. CASE lf < i + Buf /\ ~(lf <= n)
  <2>1. r.part = SubSeq(p, i, n) /\ r.next = n + 1
    BY <1>1, <1>3, <1>5 DEF ReadLine, Part
  <2>2. /\ n \in i - 1 .. Len(p) /\ n + 1 \in i + 1 .. Len(p) + 1
        /\ n - i + 1 <= Buf /\ n < lf
    BY <1>1, <1>2, <1>5
  <2> QED
    BY <1>1, <1>3, <2>1, <2>2, ReadsPart
<1>6. CASE ~(lf < i + Buf)
  <2>1. PICK b \in Nat : b = i + Buf - 1
    BY <1>2
  <2> DEFINE k == IF b >= i /\ p[b] = CR THEN b - 1 ELSE b
             s == SubSeq(p, i, k)
  <2>2. b \in i - 1 .. Len(p) /\ k \in i - 1 .. Len(p)
    BY <1>1, <1>2, <1>6, <2>1
  <2>3. DropCR(SubSeq(p, i, b)) = s
    BY <2>2, DropCRPart
  <2>4. Len(s) = k - i + 1
    BY <1>2, <2>2, PartAt
  <2>5. r.part = s /\ r.next = k + 1
    <3>1. ReadLine(p, i) = Part(s, i + Len(s))
      BY <1>3, <1>6, <2>1, <2>3 DEF ReadLine
    <3>2. i + Len(s) = k + 1
      BY <2>2, <2>4
    <3> HIDE DEF s, k
    <3> QED
      BY <3>1, <3>2 DEF Part
  <2>6. /\ k + 1 \in i + 1 .. Len(p) + 1 /\ k - i + 1 <= Buf /\ k < lf
        /\ k + 1 < lf \/ k = Len(p) \/ k < i \/ p[k] # CR
    BY <1>1, <1>2, <1>6, <2>1, <2>2
  <2> HIDE DEF k
  <2> QED
    BY <1>3, <2>2, <2>5, <2>6, ReadsPart
<1> QED
  BY <1>4, <1>5, <1>6

\* Reading a stream keeps everything but its line ends.
LEMMA PiecesKeep ==
  ASSUME NEW p \in Seq(Character)
  PROVE  /\ Pieces(p) \in Seq(Seq(Character))
         /\ FlattenSeq(Pieces(p)) = WithoutLineEnds(p)
         /\ \A i \in DOMAIN Pieces(p) : Len(Pieces(p)[i]) <= Buf
<1> DEFINE W == {s \in Seq(Character) : Len(s) <= Buf}
           pa == [i \in DOMAIN p |-> ReadLine(p, i)]
<1>1. PICK n \in Nat : n = Len(p)
  BY LenProperties
<1>2. \A i \in 1 .. n : ReadsLine(p, i, pa[i].part, pa[i].next)
  <2>1. DOMAIN p = 1 .. n
    BY <1>1, LenProperties
  <2> QED
    BY <1>1, <2>1, ReadLineIs
<1> HIDE DEF pa
<1>3. Cuts(n, W, pa)
  <2>1. ASSUME NEW i \in 1 .. n
        PROVE  pa[i].part \in W /\ pa[i].next \in i + 1 .. n + 2
    <3>1. ReadsLine(p, i, pa[i].part, pa[i].next)
      BY <1>2
    <3> QED
      BY <1>1, <3>1 DEF ReadsLine
  <2> HIDE DEF W
  <2> QED
    BY <2>1 DEF Cuts
<1>4. PICK F : Parts(p, pa) = F[1] /\ From(F, n, W, pa)
  <2> HIDE DEF W
  <2> QED
    BY <1>1, <1>3, PartsFromIs, Zenon
<1>5. \A i \in 1 .. n + 2 :
           /\ F[i] \in Seq(W)
           /\ F[i] = IF i > n THEN <<>> ELSE <<pa[i].part>> \o F[pa[i].next]
  BY <1>4 DEF From
<1> DEFINE P == {i \in 1 .. n + 2 : FlattenSeq(F[i]) = KeptFrom(p, i)}
<1>6. ASSUME NEW i \in 1 .. n + 2, \A j \in i + 1 .. n + 2 : j \in P
      PROVE  FlattenSeq(F[i]) = KeptFrom(p, i)
  <2>1. CASE i > n
    BY <1>1, <1>5, <2>1, KeptType, FlattenEmpty
  <2>2. CASE ~(i > n)
    <3>1. PICK s \in Seq(Character), next \in i + 1 .. n + 1 :
            /\ s = pa[i].part /\ next = pa[i].next /\ s \in W
            /\ KeptFrom(p, i) = s \o KeptFrom(p, next)
      <4>1. i \in 1 .. n
        BY <2>2
      <4> QED
        BY <1>1, <1>2, <4>1 DEF ReadsLine
    <3>2. FlattenSeq(F[next]) = KeptFrom(p, next)
      <4>1. next \in i + 1 .. n + 2
        OBVIOUS
      <4> QED
        BY <1>6, <4>1
    <3>3. PICK t \in Seq(Seq(Character)), u \in Seq(Seq(Character)) :
            t = <<s>> /\ u = F[next] /\ F[i] = t \o u
      <4>1. next \in 1 .. n + 2 /\ F[i] = <<s>> \o F[next]
        <5> HIDE DEF W, P
        <5>1. F[i] = <<pa[i].part>> \o F[pa[i].next]
          BY <1>5, <2>2
        <5> QED
          BY <3>1, <5>1
      <4> DEFINE X == Seq(Character)
      <4>2. Seq(W) \subseteq Seq(X)
        BY SeqMonotonic
      <4>3. F[next] \in Seq(X)
        BY <1>5, <4>1, <4>2
      <4> HIDE DEF X
      <4>4. <<s>> \in Seq(X)
        BY OneSeq DEF X
      <4> QED
        BY <4>1, <4>3, <4>4 DEF X
    <3>4. FlattenSeq(t \o u) = FlattenSeq(t) \o FlattenSeq(u)
      BY FlattenConcat
    <3>5. FlattenSeq(t) = s
      BY <3>3, FlattenOne
    <3> QED
      BY <3>1, <3>2, <3>3, <3>4, <3>5
  <2> QED
    BY <2>1, <2>2
<1>7. \A i \in 1 .. n + 2 : i \in P
  <2>1. \A i \in 1 .. n + 2 : (\A j \in i + 1 .. n + 2 : j \in P) => i \in P
    BY <1>6
  <2> HIDE DEF P
  <2>2. PICK N \in Nat : N = n + 2
    OBVIOUS
  <2> QED
    BY <2>1, <2>2, BackwardInduction
<1>8. 1 \in 1 .. n + 2 /\ 1 \in 1 .. Len(p) + 2
  BY <1>1
<1>9. Pieces(p) = F[1]
  BY <1>4, Zenon DEF Pieces, pa
<1>10. FlattenSeq(Pieces(p)) = WithoutLineEnds(p)
  <2>1. 1 \in P
    BY <1>7, <1>8
  <2> QED
    BY <1>8, <1>9, <2>1, KeptType
<1>11. Pieces(p) \in Seq(W)
  BY <1>5, <1>8, <1>9
<1>12. Pieces(p) \in Seq(Seq(Character))
  <2> DEFINE X == Seq(Character)
  <2>1. Seq(W) \subseteq Seq(X)
    BY SeqMonotonic
  <2> QED
    BY <1>11, <2>1
<1>13. ASSUME NEW i \in DOMAIN Pieces(p)
       PROVE  Len(Pieces(p)[i]) <= Buf
  <2>1. Pieces(p)[i] \in W
    <3> HIDE DEF W
    <3> QED
      BY <1>11, LenProperties
  <2> QED
    BY <2>1
<1> QED
  BY <1>10, <1>12, <1>13

-----------------------------------------------------------------------------
(* The job logger. *)

\* A sequence is its front and its last element.
LEMMA FrontAndLast ==
  ASSUME NEW S, NEW s \in Seq(S), s # <<>>
  PROVE  /\ Front(s) \in Seq(S) /\ Last(s) \in S
         /\ s = Front(s) \o <<Last(s)>>
<1>1. PICK n \in Nat : n = Len(s) /\ n # 0
  BY LenProperties, EmptySeq
<1>2. n - 1 \in 1 - 1 .. Len(s) /\ 1 \in 1 .. Len(s) + 1 /\ n - 1 + 1 = n /\ n \in 1 .. Len(s)
  BY <1>1
<1>3. SubSeq(s, 1, n - 1) \in Seq(S) /\ SubSeq(s, 1, n) = SubSeq(s, 1, n - 1) \o SubSeq(s, n, n)
  BY <1>1, <1>2, PartIs
<1>4. s[n] \in S
  BY <1>2, LenProperties
<1>5. SubSeq(s, n, n) = <<s[n]>>
  <2>1. n \in n .. Len(s) /\ n + 1 \in Int /\ n < n + 1
    BY <1>1
  <2>2. SubSeq(s, n, n) = <<s[n]>> \o SubSeq(s, n + 1, n)
    BY <1>2, <2>1, SubSeqRecursiveFirst
  <2>3. SubSeq(s, n + 1, n) = <<>>
    BY <2>1, SubSeqEmpty
  <2>4. PICK o \in Seq(S) : o = <<s[n]>>
    BY <1>4, OneSeq
  <2> QED
    BY <2>2, <2>3, <2>4, ConcatEmptySeq
<1>6. SubSeq(s, 1, n) = s
  BY <1>1, SubSeqFull
<1> QED
  BY <1>1, <1>3, <1>4, <1>5, <1>6 DEF Front, Last

\* Line ends are no text.
LEMMA OnlyTextKept ==
  ASSUME NEW p \in Seq(Character)
  PROVE  OnlyText(WithoutLineEnds(p)) = OnlyText(p)
<1>1. PICK n \in Nat : n = Len(p)
  BY LenProperties
<1> DEFINE P == {i \in 1 .. n + 1 : OnlyText(KeptFrom(p, i)) = OnlyText(SubSeq(p, i, n))}
<1>2. ASSUME NEW i \in 1 .. n + 1, \A j \in i + 1 .. n + 1 : j \in P
      PROVE  OnlyText(KeptFrom(p, i)) = OnlyText(SubSeq(p, i, n))
  <2>1. CASE i > n
    <3>1. i \in 1 .. Len(p) + 2 /\ i > Len(p)
      BY <1>1, <2>1
    <3> QED
      <4>1. KeptFrom(p, i) = <<>>
        BY <3>1, KeptType
      <4>2. SubSeq(p, i, Len(p)) = <<>>
        BY <3>1, FromIs
      <4> HIDE DEF P
      <4> QED
        BY <1>1, <4>1, <4>2
  <2>2. CASE ~(i > n)
    <3>1. i + 1 \in P /\ i \in 1 .. n
      <4>1. i + 1 \in i + 1 .. n + 1
        BY <2>2
      <4> HIDE DEF P
      <4> QED
        BY <1>2, <2>2, <4>1
    <3>2. i \in 1 .. Len(p) /\ i \in 1 .. Len(p) + 1 /\ i \in i - 1 .. Len(p)
      BY <1>1, <3>1
    <3>3. PICK a \in Seq(Character), z \in Seq(Character) :
            a = SubSeq(p, i, i) /\ z = SubSeq(p, i + 1, n) /\ SubSeq(p, i, n) = a \o z
      <4>1. i + 1 \in 1 .. Len(p) + 2
        BY <1>1, <3>1
      <4>2. SubSeq(p, i, i) \in Seq(Character) /\ SubSeq(p, i, n) = SubSeq(p, i, i) \o SubSeq(p, i + 1, n)
        BY <1>1, <3>2, PartIs
      <4>3. SubSeq(p, i + 1, n) \in Seq(Character)
        BY <1>1, <4>1, FromIs
      <4> QED
        BY <4>2, <4>3
    <3>4. PICK y \in Seq(Character) : y = KeptFrom(p, i + 1)
      <4>1. i + 1 \in 1 .. Len(p) + 2
        BY <1>1, <3>1
      <4> QED
        BY <4>1, KeptType
    <3>5. OnlyText(y) = OnlyText(z)
      BY <3>1, <3>3, <3>4
    <3>6. OnlyText(a \o z) = OnlyText(a) \o OnlyText(z)
      BY OnlyTextConcat
    <3>7. CASE IsLineEnd(p, i)
      <4>1. a = <<p[i]>> /\ p[i] \in {LF, CR}
        <5>1. Len(a) = 1 /\ a[1] = p[i]
          <6>1. Len(a) = i - i + 1 /\ \A j \in 1 .. i - i + 1 : a[j] = p[i + j - 1]
            BY <3>2, <3>3, PartAt
          <6>2. i - i + 1 = 1 /\ 1 \in 1 .. i - i + 1 /\ i + 1 - 1 = i
            OBVIOUS
          <6> QED
            BY <6>1, <6>2
        <5> QED
          BY <3>7, <5>1 DEF IsLineEnd
      <4>2. OnlyText(a) = <<>>
        BY <4>1, OnlyTextOfLineEnd
      <4>3. KeptFrom(p, i) = y
        BY <3>2, <3>4, <3>7, KeptEnd
      <4> QED
        BY <3>3, <3>5, <3>6, <4>2, <4>3, OnlyTextType, ConcatEmptySeq
    <3>8. CASE ~IsLineEnd(p, i)
      <4>1. \A j \in i .. i : ~IsLineEnd(p, j)
        BY <3>8
      <4>2. KeptFrom(p, i) = a \o y
        BY <3>2, <3>3, <3>4, <4>1, KeptPart
      <4>3. OnlyText(a \o y) = OnlyText(a) \o OnlyText(y)
        BY OnlyTextConcat
      <4> QED
        BY <3>3, <3>5, <3>6, <4>2, <4>3
    <3> QED
      BY <3>7, <3>8
  <2> QED
    BY <2>1, <2>2
<1>3. \A i \in 1 .. n + 1 : i \in P
  <2>1. \A i \in 1 .. n + 1 : (\A j \in i + 1 .. n + 1 : j \in P) => i \in P
    BY <1>2
  <2> HIDE DEF P
  <2>2. PICK N \in Nat : N = n + 1
    OBVIOUS
  <2> QED
    BY <2>1, <2>2, BackwardInduction
<1>4. 1 \in P /\ 1 \in 1 .. Len(p) + 2
  BY <1>1, <1>3
<1>5. SubSeq(p, 1, n) = p
  BY <1>1, SubSeqFull
<1> QED
  BY <1>4, <1>5, KeptType

\* What Write logs of a chunk.
Written(p) ==
  NonEmpty(Front(Tokens(p))) \o IF EndsLine(p) THEN NonEmpty(<<Last(Tokens(p))>>) ELSE <<>>

\* If the chunk ends its last line, Write logs all of its text.
LEMMA WriteLogs ==
  ASSUME NEW p \in Seq(Character), p # <<>>
  PROVE  /\ Written(p) \in Seq(Seq(Character))
         /\ EndsLine(p) => OnlyText(FlattenSeq(Written(p))) = OnlyText(p)
<1> DEFINE W == Seq(Character)
<1> HIDE DEF W
<1>1. Tokens(p) \in Seq(W) /\ Tokens(p) # <<>> /\ OnlyText(FlattenSeq(Tokens(p))) = OnlyText(p)
  BY TokensKeepText DEF W
<1>2. PICK u \in Seq(W), l \in Seq(W) :
        u = Front(Tokens(p)) /\ l = <<Last(Tokens(p))>> /\ Tokens(p) = u \o l
  <2>1. /\ Front(Tokens(p)) \in Seq(W) /\ Last(Tokens(p)) \in W
        /\ Tokens(p) = Front(Tokens(p)) \o <<Last(Tokens(p))>>
    BY <1>1, FrontAndLast
  <2>2. <<Last(Tokens(p))>> \in Seq(W)
    BY <2>1, OneSeq
  <2> QED
    BY <2>1, <2>2
<1>3. PICK a \in Seq(W), b \in Seq(W) :
        /\ a = NonEmpty(u) /\ b = NonEmpty(l)
        /\ FlattenSeq(a) = FlattenSeq(u) /\ FlattenSeq(b) = FlattenSeq(l)
  BY NonEmptyType, NonEmptyKeeps DEF W
<1>4. Written(p) = a \o IF EndsLine(p) THEN b ELSE <<>>
  BY <1>2, <1>3 DEF Written
<1>5. CASE EndsLine(p)
  <2>1. Written(p) = a \o b
    BY <1>4, <1>5
  <2>2. a \o b \in Seq(W)
    BY ConcatProperties
  <2>3. FlattenSeq(a \o b) = FlattenSeq(a) \o FlattenSeq(b)
    BY FlattenConcat DEF W
  <2>4. FlattenSeq(u \o l) = FlattenSeq(u) \o FlattenSeq(l)
    BY FlattenConcat DEF W
  <2> QED
    BY <1>1, <1>2, <1>3, <2>1, <2>2, <2>3, <2>4 DEF W
<1>6. CASE ~EndsLine(p)
  <2>1. a \o <<>> = a
    BY ConcatEmptySeq
  <2>2. Written(p) = a
    BY <1>4, <1>6, <2>1
  <2> QED
    BY <1>6, <2>2 DEF W
<1> QED
  BY <1>5, <1>6

\* The history is text, and every entry is what it was made of.
LoggerInv ==
  /\ given \in Seq(Character) /\ logged \in Seq(Character)
  /\ ~carried => logged = given
  /\ op = "read" => chunk \in Seq(Character) /\ out = Pieces(chunk)

\* A chunk is characters, one at least.
LEMMA ChunkIs ==
  ASSUME NEW p \in Chunk
  PROVE  p \in Seq(Character) /\ p # <<>>
<1>1. PICK n \in 1 .. MaxChunk : p \in [1 .. n -> Character]
  BY DEF Chunk, Character
<1>2. n \in Nat /\ n # 0
  BY LoggerAssumption
<1>3. p \in Seq(Character)
  BY <1>1, <1>2, SeqDef
<1>4. DOMAIN p = 1 .. n /\ 1 \in 1 .. n
  BY <1>1, <1>2
<1> QED
  BY <1>3, <1>4

\* A call keeps the invariant.
LEMMA LoggerStep ==
  ASSUME LoggerInv, [LoggerNext]_loggerVars
  PROVE  LoggerInv'
<1>1. CASE UNCHANGED loggerVars
  BY <1>1 DEF LoggerInv, loggerVars
<1>2. ASSUME NEW p \in Chunk, Write(p)
      PROVE  LoggerInv'
  <2>1. p \in Seq(Character) /\ p # <<>>
    BY ChunkIs
  <2>2. /\ op' = "write"
        /\ given' = given \o OnlyText(p)
        /\ logged' = logged \o OnlyText(FlattenSeq(Written(p)))
        /\ carried' = (carried \/ ~EndsLine(p))
    BY <1>2 DEF Write, Entries, Written
  <2>3. PICK w \in Seq(Character) :
          w = FlattenSeq(Written(p)) /\ (EndsLine(p) => OnlyText(w) = OnlyText(p))
    BY <2>1, WriteLogs, FlattenType
  <2>4. given' \in Seq(Character) /\ logged' \in Seq(Character)
    BY <2>1, <2>2, <2>3, OnlyTextType, ConcatProperties DEF LoggerInv
  <2>5. ~carried' => logged' = given'
    BY <2>2, <2>3 DEF LoggerInv
  <2> QED
    BY <2>2, <2>4, <2>5 DEF LoggerInv
<1>3. ASSUME NEW p \in Chunk, ReadFrom(p)
      PROVE  LoggerInv'
  <2>1. p \in Seq(Character) /\ p # <<>>
    BY ChunkIs
  <2>2. /\ op' = "read" /\ chunk' = p /\ out' = Pieces(p) /\ carried' = carried
        /\ given' = given \o OnlyText(p)
        /\ logged' = logged \o OnlyText(FlattenSeq(Pieces(p)))
    BY <1>3 DEF ReadFrom, Entries
  <2>3. OnlyText(FlattenSeq(Pieces(p))) = OnlyText(p)
    BY <2>1, PiecesKeep, OnlyTextKept
  <2>4. given' \in Seq(Character) /\ logged' \in Seq(Character)
    BY <2>1, <2>2, <2>3, OnlyTextType, ConcatProperties DEF LoggerInv
  <2>5. ~carried' => logged' = given'
    BY <2>2, <2>3 DEF LoggerInv
  <2> QED
    BY <2>1, <2>2, <2>4, <2>5 DEF LoggerInv
<1> QED
  BY <1>1, <1>2, <1>3 DEF LoggerNext

\* Inductive invariant of the job logger.
THEOREM LoggerInductive == TextsSpec => []LoggerInv
<1>1. TextsInit => LoggerInv
  <2> SUFFICES ASSUME TextsInit
               PROVE  LoggerInv
    OBVIOUS
  <2>1. given = <<>> /\ logged = <<>> /\ op = "none"
    BY DEF TextsInit, LoggerInit
  <2> QED
    BY <2>1, EmptySeq DEF LoggerInv
<1>2. LoggerInv /\ [TextsNext]_textsVars => LoggerInv'
  <2> SUFFICES ASSUME LoggerInv, [TextsNext]_textsVars
               PROVE  LoggerInv'
    OBVIOUS
  <2>1. [LoggerNext]_loggerVars
    BY DEF TextsNext, textsVars
  <2> QED
    BY <2>1, LoggerStep
<1> QED
  BY <1>1, <1>2, PTL DEF TextsSpec

\* TextIsLogged, for chunks of any length and any number of calls.
THEOREM TextLogged == TextsSpec => []TextIsLogged
<1>1. LoggerInv => TextIsLogged
  BY DEF LoggerInv, TextIsLogged
<1> QED
  BY <1>1, LoggerInductive, PTL

\* StreamIsKept, for streams of any length and a buffer of any size.
THEOREM StreamKept == TextsSpec => []StreamIsKept
<1>1. LoggerInv => StreamIsKept
  BY PiecesKeep DEF LoggerInv, StreamIsKept
<1> QED
  BY <1>1, LoggerInductive, PTL

-----------------------------------------------------------------------------
(* Rendering the text of a flow. *)

\* The sequences from i on are the one at i and those behind it.
LEMMA FlattenNext ==
  ASSUME NEW S, NEW m \in Seq(Seq(S)), NEW i \in 1 .. Len(m)
  PROVE  FlattenSeq(SubSeq(m, i, Len(m))) = m[i] \o FlattenSeq(SubSeq(m, i + 1, Len(m)))
<1> DEFINE W == Seq(S)
<1> HIDE DEF W
<1>0. m \in Seq(W)
  BY DEF W
<1>1. PICK n \in Nat : n = Len(m)
  BY <1>0, LenProperties
<1>2. i \in 1 .. Len(m) + 1 /\ i \in i - 1 .. Len(m) /\ n \in i .. Len(m)
  BY <1>1
<1>3. m[i] \in W
  BY <1>0, LenProperties
<1>4. SubSeq(m, i, i) = <<m[i]>>
  <2>1. i \in i .. Len(m) /\ i + 1 \in Int /\ i < i + 1
    BY <1>1, <1>2
  <2>2. SubSeq(m, i, i) = <<m[i]>> \o SubSeq(m, i + 1, i)
    BY <1>0, <2>1, SubSeqRecursiveFirst
  <2>3. SubSeq(m, i + 1, i) = <<>>
    BY <2>1, SubSeqEmpty
  <2>4. PICK o \in Seq(W) : o = <<m[i]>>
    BY <1>3, OneSeq
  <2> QED
    BY <2>2, <2>3, <2>4, ConcatEmptySeq
<1>5. FlattenSeq(SubSeq(m, i, i)) = m[i]
  BY <1>3, <1>4, FlattenOne DEF W
<1> QED
  BY <1>2, <1>5, FlattenParts DEF W

\* The tokens of texts and of values.
Token ==
  {"${", "}", "success", "failed", "why"} \cup Name \cup Other
    \cup UNION {Range(v) : v \in Value \cup {Uid}}

\* An environment maps keys to texts.
IsEnv(e) == \A k \in DOMAIN e : e[k] \in Seq(Token)

\* What Replaced makes of each token.
ReplacedAt(e, t, R) ==
  [i \in DOMAIN t |->
    IF i \in R THEN e[t[i + 1]]
    ELSE IF \E r \in R : i \in {r + 1, r + 2} THEN <<>>
    ELSE <<t[i]>>]

\* A reference to a variable that exists is three tokens of the text.
LEMMA MatchIs ==
  ASSUME NEW e, NEW t \in Seq(Token), NEW i \in Defined(e, t)
  PROVE  /\ i \in 1 .. Len(t) /\ i + 1 \in 1 .. Len(t) /\ i + 2 \in 1 .. Len(t)
         /\ Matches(t, i) /\ t[i + 1] \in DOMAIN e
<1>1. PICK n \in Nat : n = Len(t) /\ DOMAIN t = 1 .. n
  BY LenProperties
<1>2. i \in 1 .. n /\ Matches(t, i) /\ t[i + 1] \in DOMAIN e
  BY <1>1 DEF Defined
<1>3. i + 2 <= n
  BY <1>1, <1>2 DEF Matches
<1> QED
  BY <1>1, <1>2, <1>3

\* No match begins inside another one.
LEMMA NoMatchInside ==
  ASSUME NEW e, NEW t \in Seq(Token), NEW i \in 1 .. Len(t), Matches(t, i)
  PROVE  i + 1 \notin Defined(e, t) /\ i + 2 \notin Defined(e, t)
BY ContextAssumption DEF Defined, Matches

\* The type of ReplacedAt.
LEMMA ReplacedAtIs ==
  ASSUME NEW e, IsEnv(e), NEW t \in Seq(Token)
  PROVE  /\ ReplacedAt(e, t, Defined(e, t)) \in Seq(Seq(Token))
         /\ Len(ReplacedAt(e, t, Defined(e, t))) = Len(t)
<1> DEFINE W == Seq(Token)
           R == Defined(e, t)
           m == ReplacedAt(e, t, R)
           At(i) == IF i \in R THEN e[t[i + 1]]
                    ELSE IF \E r \in R : i \in {r + 1, r + 2} THEN <<>>
                    ELSE <<t[i]>>
<1>1. DOMAIN t = 1 .. Len(t) /\ Len(t) \in Nat /\ \A i \in 1 .. Len(t) : t[i] \in Token
  BY LenProperties
<1>2. ASSUME NEW i \in 1 .. Len(t)
      PROVE  At(i) \in W
  <2>1. CASE i \in R
    BY <2>1, MatchIs DEF IsEnv
  <2>2. CASE i \notin R
    BY <1>1, <2>2, OneSeq, EmptySeq
  <2> QED
    BY <2>1, <2>2
<1>3. m = [i \in 1 .. Len(t) |-> At(i)]
  BY <1>1 DEF ReplacedAt
<1> HIDE DEF W, At, m, R
<1>4. m \in [1 .. Len(t) -> W]
  BY <1>2, <1>3
<1>5. m \in Seq(W)
  BY <1>1, <1>4, SeqDef
<1>6. Len(m) = Len(t)
  BY <1>1, <1>4
<1> QED
  BY <1>5, <1>6 DEF W, m, R

\* Place i belongs to a reference that starts before it.
Inside(e, t, i) == \E r \in Defined(e, t) : i \in {r + 1, r + 2}

\* The values of ReplacedAt.
LEMMA ReplacedIs ==
  ASSUME NEW e, NEW t \in Seq(Token), NEW i \in 1 .. Len(t)
  PROVE  /\ i \in Defined(e, t) => ReplacedAt(e, t, Defined(e, t))[i] = e[t[i + 1]]
         /\ i \notin Defined(e, t) /\ Inside(e, t, i) => ReplacedAt(e, t, Defined(e, t))[i] = <<>>
         /\ i \notin Defined(e, t) /\ ~Inside(e, t, i) =>
              ReplacedAt(e, t, Defined(e, t))[i] = <<t[i]>>
<1>1. i \in DOMAIN t
  BY LenProperties
<1> QED
  BY <1>1 DEF ReplacedAt, Inside

\* Behind a match, and behind a token that belongs to none, no match is cut in two.
LEMMA NotInside ==
  ASSUME NEW e, NEW t \in Seq(Token), NEW i \in 1 .. Len(t), ~Inside(e, t, i)
  PROVE  /\ Matches(t, i) => ~Inside(e, t, i + 3)
         /\ i \notin Defined(e, t) => ~Inside(e, t, i + 1)
         /\ Matches(t, i) /\ i \notin Defined(e, t) => ~Inside(e, t, i + 2)
         /\ i \in Defined(e, t) => Inside(e, t, i + 1) /\ Inside(e, t, i + 2)
<1>1. \A r \in Defined(e, t) : r \in Nat
  BY MatchIs
<1>2. Matches(t, i) => i + 1 \notin Defined(e, t) /\ i + 2 \notin Defined(e, t)
  BY NoMatchInside
<1>3. ASSUME Matches(t, i), NEW r \in Defined(e, t), i + 3 \in {r + 1, r + 2}
      PROVE  FALSE
  <2>1. r \in Nat /\ (r = i + 2 \/ r = i + 1)
    BY <1>1, <1>3
  <2> QED
    BY <1>2, <1>3, <2>1
<1>4. ASSUME i \notin Defined(e, t), NEW r \in Defined(e, t), i + 1 \in {r + 1, r + 2}
      PROVE  FALSE
  <2>1. r \in Nat /\ (r = i \/ i = r + 1)
    BY <1>1, <1>4
  <2> QED
    BY <1>4, <2>1 DEF Inside
<1>5. ASSUME Matches(t, i), i \notin Defined(e, t), NEW r \in Defined(e, t), i + 2 \in {r + 1, r + 2}
      PROVE  FALSE
  <2>1. r \in Nat /\ (r = i \/ r = i + 1)
    BY <1>1, <1>5
  <2> QED
    BY <1>2, <1>5, <2>1
<1> QED
  BY <1>3, <1>4, <1>5 DEF Inside

\* The text from i on with its references replaced.
RestFrom(e, t, i) ==
  FlattenSeq(SubSeq(ReplacedAt(e, t, Defined(e, t)), i, Len(t)))

\* The end of a rendered text, and its start.
LEMMA RestIs ==
  ASSUME NEW e, IsEnv(e), NEW t \in Seq(Token), NEW i \in 1 .. Len(t) + 2
  PROVE  /\ RestFrom(e, t, i) \in Seq(Token)
         /\ i > Len(t) => RestFrom(e, t, i) = <<>>
         /\ i = 1 => RestFrom(e, t, i) = Replaced(e, t, Defined(e, t))
         /\ i \in 1 .. Len(t) =>
              RestFrom(e, t, i) = ReplacedAt(e, t, Defined(e, t))[i] \o RestFrom(e, t, i + 1)
<1> DEFINE W == Seq(Token)
<1> HIDE DEF W
<1>1. PICK m \in Seq(W) : m = ReplacedAt(e, t, Defined(e, t)) /\ Len(m) = Len(t)
  BY ReplacedAtIs DEF W
<1>2. /\ SubSeq(m, i, Len(m)) \in Seq(W)
      /\ i > Len(m) => SubSeq(m, i, Len(m)) = <<>>
      /\ i = 1 => SubSeq(m, i, Len(m)) = m
  BY <1>1, FromIs
<1>3. RestFrom(e, t, i) \in Seq(Token) /\ (i > Len(t) => RestFrom(e, t, i) = <<>>)
  BY <1>1, <1>2, FlattenType, FlattenEmpty DEF RestFrom, W
<1>4. i = 1 => RestFrom(e, t, i) = Replaced(e, t, Defined(e, t))
  BY <1>1, <1>2 DEF RestFrom, Replaced, ReplacedAt
<1>5. i \in 1 .. Len(t) =>
        RestFrom(e, t, i) = ReplacedAt(e, t, Defined(e, t))[i] \o RestFrom(e, t, i + 1)
  BY <1>1, FlattenNext DEF RestFrom, W
<1> QED
  BY <1>3, <1>4, <1>5

\* A step of ReplaceAllStringFunc at i gives s and goes on at next: what it has still to
\* make is what Replaced makes from there on.
Renders(e, t, i, s, next) ==
  /\ s \in Seq(Token) /\ next \in i + 1 .. Len(t) + 1
  /\ ~Inside(e, t, i) => ~Inside(e, t, next) /\ RestFrom(e, t, i) = s \o RestFrom(e, t, next)

\* A step where nothing matches.
LEMMA RendersOther ==
  ASSUME NEW e, IsEnv(e), NEW t \in Seq(Token), NEW i \in 1 .. Len(t), ~Matches(t, i)
  PROVE  Renders(e, t, i, <<t[i]>>, i + 1)
<1>1. t[i] \in Token /\ <<t[i]>> \in Seq(Token) /\ i \notin Defined(e, t)
  BY LenProperties, OneSeq DEF Defined
<1>2. i \in 1 .. Len(t) + 2 /\ i + 1 \in i + 1 .. Len(t) + 1
  BY LenProperties
<1>3. ~Inside(e, t, i) => ~Inside(e, t, i + 1) /\ RestFrom(e, t, i) = <<t[i]>> \o RestFrom(e, t, i + 1)
  <2>1. ~Inside(e, t, i) => ~Inside(e, t, i + 1) /\ ReplacedAt(e, t, Defined(e, t))[i] = <<t[i]>>
    BY <1>1, NotInside, ReplacedIs
  <2>2. RestFrom(e, t, i) = ReplacedAt(e, t, Defined(e, t))[i] \o RestFrom(e, t, i + 1)
    BY <1>2, RestIs
  <2> QED
    BY <2>1, <2>2
<1> QED
  BY <1>1, <1>2, <1>3 DEF Renders

\* Three places at once.
LEMMA RestOfMatch ==
  ASSUME NEW e, IsEnv(e), NEW t \in Seq(Token), NEW i \in 1 .. Len(t), i + 2 <= Len(t)
  PROVE  RestFrom(e, t, i) =
           ReplacedAt(e, t, Defined(e, t))[i] \o
             (ReplacedAt(e, t, Defined(e, t))[i + 1] \o
               (ReplacedAt(e, t, Defined(e, t))[i + 2] \o RestFrom(e, t, i + 3)))
<1>1. /\ i \in 1 .. Len(t) + 2 /\ i + 1 \in 1 .. Len(t) + 2 /\ i + 2 \in 1 .. Len(t) + 2
      /\ i + 1 \in 1 .. Len(t) /\ i + 2 \in 1 .. Len(t)
      /\ i + 1 + 1 = i + 2 /\ i + 2 + 1 = i + 3
  BY LenProperties
<1>2. RestFrom(e, t, i) = ReplacedAt(e, t, Defined(e, t))[i] \o RestFrom(e, t, i + 1)
  BY <1>1, RestIs
<1>3. RestFrom(e, t, i + 1) = ReplacedAt(e, t, Defined(e, t))[i + 1] \o RestFrom(e, t, i + 2)
  BY <1>1, RestIs
<1>4. RestFrom(e, t, i + 2) = ReplacedAt(e, t, Defined(e, t))[i + 2] \o RestFrom(e, t, i + 3)
  BY <1>1, RestIs
<1> QED
  BY <1>2, <1>3, <1>4

\* Concatenation, grouped either way.
Associate(a, b, c) == (a \o b) \o c = a \o (b \o c)

\* Concatenation is associative.
LEMMA Associative ==
  ASSUME NEW S, NEW a \in Seq(S), NEW b \in Seq(S), NEW r \in Seq(S)
  PROVE  Associate(a, b, r)
BY ConcatAssociative DEF Associate

\* The first of the elements from i to k.
LEMMA FirstOf ==
  ASSUME NEW S, NEW t \in Seq(S), NEW i \in 1 .. Len(t), NEW k \in i .. Len(t), NEW r \in Seq(S)
  PROVE  SubSeq(t, i, k) \o r = <<t[i]>> \o (SubSeq(t, i + 1, k) \o r)
<1>1. i + 1 \in 1 .. Len(t) + 1 /\ k \in i + 1 - 1 .. Len(t)
  BY LenProperties
<1>2. t[i] \in S
  BY LenProperties
<1>3. PICK a \in Seq(S), b \in Seq(S) : a = <<t[i]>> /\ b = SubSeq(t, i + 1, k)
  <2>1. SubSeq(t, i + 1, k) \in Seq(S)
    BY <1>1, PartIs
  <2>2. <<t[i]>> \in Seq(S)
    BY <1>2, OneSeq
  <2> QED
    BY <2>1, <2>2
<1>4. SubSeq(t, i, k) = a \o b
  BY <1>3, SubSeqRecursiveFirst
<1>5. Associate(a, b, r)
  BY Associative
<1> QED
  BY <1>3, <1>4, <1>5 DEF Associate

\* The three elements from i on, in front of r.
Three(t, i, r) ==
  SubSeq(t, i, i + 2) \o r = <<t[i]>> \o (<<t[i + 1]>> \o (<<t[i + 2]>> \o r))

\* They are a sequence.
LEMMA ThreeSeq ==
  ASSUME NEW S, NEW t \in Seq(S), NEW i \in 1 .. Len(t), i + 2 <= Len(t), NEW r \in Seq(S)
  PROVE  SubSeq(t, i, i + 2) \in Seq(S) /\ Three(t, i, r)
<1>1. /\ i \in 1 .. Len(t) + 1 /\ i + 2 \in i - 1 .. Len(t)
      /\ i + 1 \in 1 .. Len(t) /\ i + 2 \in 1 .. Len(t)
      /\ i + 2 \in i .. Len(t) /\ i + 2 \in i + 1 .. Len(t) /\ i + 2 \in i + 2 .. Len(t)
      /\ i + 1 + 1 = i + 2 /\ i + 2 + 1 = i + 3 /\ i + 3 \in Int /\ i + 2 < i + 3
  BY LenProperties
<1>2. SubSeq(t, i, i + 2) \o r = <<t[i]>> \o (SubSeq(t, i + 1, i + 2) \o r)
  BY <1>1, FirstOf
<1>3. SubSeq(t, i + 1, i + 2) \o r = <<t[i + 1]>> \o (SubSeq(t, i + 2, i + 2) \o r)
  BY <1>1, FirstOf
<1>4. SubSeq(t, i + 2, i + 2) \o r = <<t[i + 2]>> \o (SubSeq(t, i + 3, i + 2) \o r)
  BY <1>1, FirstOf
<1>5. SubSeq(t, i + 3, i + 2) \o r = r
  BY <1>1, SubSeqEmpty, ConcatEmptySeq
<1>6. SubSeq(t, i, i + 2) \in Seq(S)
  BY <1>1, PartIs
<1> QED
  BY <1>2, <1>3, <1>4, <1>5, <1>6 DEF Three

\* A step at a reference, to a variable that exists or to one that does not.
LEMMA RendersMatch ==
  ASSUME NEW e, IsEnv(e), NEW t \in Seq(Token), NEW i \in 1 .. Len(t), Matches(t, i)
  PROVE  Renders(e, t, i, Substitute(e, t, i), i + 3)
<1> DEFINE m == ReplacedAt(e, t, Defined(e, t))
<1>1. i + 2 <= Len(t) /\ Len(t) \in Nat
  BY LenProperties DEF Matches
<1>2. i + 1 \in 1 .. Len(t) /\ i + 2 \in 1 .. Len(t) /\ i + 3 \in i + 1 .. Len(t) + 1 /\ i + 3 \in 1 .. Len(t) + 2
  BY <1>1
<1>3. PICK r \in Seq(Token) : r = RestFrom(e, t, i + 3)
  BY <1>2, RestIs
<1>4. i + 1 \notin Defined(e, t) /\ i + 2 \notin Defined(e, t)
  BY NoMatchInside
<1>5. CASE i \in Defined(e, t)
  <2>1. Substitute(e, t, i) = e[t[i + 1]] /\ e[t[i + 1]] \in Seq(Token)
    BY <1>5, MatchIs DEF Substitute, IsEnv
  <2>2. SUFFICES ASSUME ~Inside(e, t, i)
                 PROVE  ~Inside(e, t, i + 3) /\ RestFrom(e, t, i) = Substitute(e, t, i) \o r
    BY <1>2, <1>3, <2>1 DEF Renders
  <2>3. ~Inside(e, t, i + 3) /\ Inside(e, t, i + 1) /\ Inside(e, t, i + 2)
    BY <1>5, <2>2, NotInside
  <2>4. m[i] = e[t[i + 1]] /\ m[i + 1] = <<>> /\ m[i + 2] = <<>>
    BY <1>2, <1>4, <1>5, <2>3, ReplacedIs
  <2>5. RestFrom(e, t, i) = e[t[i + 1]] \o (<<>> \o (<<>> \o r))
    BY <1>1, <1>3, <2>4, RestOfMatch
  <2>6. <<>> \o r = r
    BY ConcatEmptySeq
  <2> QED
    BY <2>1, <2>3, <2>5, <2>6
<1>6. CASE i \notin Defined(e, t)
  <2>1. Substitute(e, t, i) = SubSeq(t, i, i + 2)
    <3>1. i \in DOMAIN t
      BY LenProperties
    <3> QED
      BY <1>6, <3>1 DEF Substitute, Defined
  <2>2. /\ SubSeq(t, i, i + 2) \in Seq(Token)
        /\ SubSeq(t, i, i + 2) \o r = <<t[i]>> \o (<<t[i + 1]>> \o (<<t[i + 2]>> \o r))
    <3>1. i + 2 <= Len(t) /\ i \in 1 .. Len(t)
      BY <1>1
    <3>2. SubSeq(t, i, i + 2) \in Seq(Token) /\ Three(t, i, r)
      BY <3>1, ThreeSeq
    <3> QED
      BY <3>2 DEF Three
  <2>3. SUFFICES ASSUME ~Inside(e, t, i)
                 PROVE  ~Inside(e, t, i + 3) /\ RestFrom(e, t, i) = Substitute(e, t, i) \o r
    BY <1>2, <1>3, <2>1, <2>2 DEF Renders
  <2>4. ~Inside(e, t, i + 3) /\ ~Inside(e, t, i + 1) /\ ~Inside(e, t, i + 2)
    BY <1>6, <2>3, NotInside
  <2>5. m[i] = <<t[i]>> /\ m[i + 1] = <<t[i + 1]>> /\ m[i + 2] = <<t[i + 2]>>
    BY <1>2, <1>4, <1>6, <2>3, <2>4, ReplacedIs
  <2>6. RestFrom(e, t, i) = <<t[i]>> \o (<<t[i + 1]>> \o (<<t[i + 2]>> \o r))
    BY <1>1, <1>3, <2>5, RestOfMatch
  <2> QED
    BY <2>1, <2>2, <2>4, <2>6
<1> QED
  BY <1>5, <1>6

-----------------------------------------------------------------------------
(* The process environment. *)

\* RenderByEnv goes from match to match; Replaced looks at every place by itself.
LEMMA RenderIs ==
  ASSUME NEW e, IsEnv(e), NEW t \in Seq(Token)
  PROVE  RenderByEnv(e, t) = Replaced(e, t, Defined(e, t))
<1> DEFINE W == Seq(Token)
           pa == [i \in DOMAIN t |->
                   IF Matches(t, i) THEN Part(Substitute(e, t, i), i + 3)
                   ELSE Part(<<t[i]>>, i + 1)]
<1>1. PICK n \in Nat : n = Len(t) /\ DOMAIN t = 1 .. n
  BY LenProperties
<1>2. \A i \in 1 .. n : Renders(e, t, i, pa[i].part, pa[i].next)
  <2>1. ASSUME NEW i \in 1 .. n
        PROVE  Renders(e, t, i, pa[i].part, pa[i].next)
    <3>1. CASE Matches(t, i)
      <4>1. pa[i].part = Substitute(e, t, i) /\ pa[i].next = i + 3
        BY <1>1, <3>1 DEF Part
      <4> HIDE DEF pa
      <4> QED
        BY <1>1, <3>1, <4>1, RendersMatch
    <3>2. CASE ~Matches(t, i)
      <4>1. pa[i].part = <<t[i]>> /\ pa[i].next = i + 1
        BY <1>1, <3>2 DEF Part
      <4> HIDE DEF pa
      <4> QED
        BY <1>1, <3>2, <4>1, RendersOther
    <3> QED
      BY <3>1, <3>2
  <2> QED
    BY <2>1
<1> HIDE DEF pa
<1>3. Cuts(n, W, pa)
  <2>1. ASSUME NEW i \in 1 .. n
        PROVE  pa[i].part \in W /\ pa[i].next \in i + 1 .. n + 2
    <3>1. Renders(e, t, i, pa[i].part, pa[i].next)
      BY <1>2
    <3> QED
      BY <1>1, <3>1 DEF Renders
  <2> HIDE DEF W
  <2> QED
    BY <2>1 DEF Cuts
<1>4. PICK F : Parts(t, pa) = F[1] /\ From(F, n, W, pa)
  <2> HIDE DEF W
  <2> QED
    BY <1>1, <1>3, PartsFromIs, Zenon
<1>5. \A i \in 1 .. n + 2 :
           /\ F[i] \in Seq(W)
           /\ F[i] = IF i > n THEN <<>> ELSE <<pa[i].part>> \o F[pa[i].next]
  BY <1>4 DEF From
<1> DEFINE P == {i \in 1 .. n + 2 : ~Inside(e, t, i) => FlattenSeq(F[i]) = RestFrom(e, t, i)}
<1>6. ASSUME NEW i \in 1 .. n + 2, \A j \in i + 1 .. n + 2 : j \in P, ~Inside(e, t, i)
      PROVE  FlattenSeq(F[i]) = RestFrom(e, t, i)
  <2>1. CASE i > n
    <3>1. F[i] = <<>>
      BY <1>5, <2>1
    <3>2. RestFrom(e, t, i) = <<>>
      BY <1>1, <2>1, RestIs
    <3> QED
      BY <3>1, <3>2, FlattenEmpty
  <2>2. CASE ~(i > n)
    <3>1. PICK s \in W, next \in i + 1 .. n + 1 :
            /\ s = pa[i].part /\ next = pa[i].next /\ ~Inside(e, t, next)
            /\ RestFrom(e, t, i) = s \o RestFrom(e, t, next)
      <4>1. i \in 1 .. n
        BY <2>2
      <4>2. Renders(e, t, i, pa[i].part, pa[i].next)
        BY <1>2, <4>1
      <4> QED
        BY <1>1, <1>6, <4>2 DEF Renders
    <3>2. FlattenSeq(F[next]) = RestFrom(e, t, next)
      <4>1. next \in i + 1 .. n + 2
        OBVIOUS
      <4> QED
        BY <1>6, <3>1, <4>1
    <3> HIDE DEF W, P
    <3>3. PICK x \in Seq(W), u \in Seq(W) : x = <<s>> /\ u = F[next] /\ F[i] = x \o u
      <4>1. next \in 1 .. n + 2
        OBVIOUS
      <4>2. F[i] = <<pa[i].part>> \o F[pa[i].next]
        BY <1>5, <2>2
      <4>3. F[next] \in Seq(W) /\ <<s>> \in Seq(W)
        BY <1>5, <4>1, OneSeq
      <4> QED
        BY <3>1, <4>2, <4>3
    <3>4. FlattenSeq(x \o u) = FlattenSeq(x) \o FlattenSeq(u)
      BY FlattenConcat DEF W
    <3>5. FlattenSeq(x) = s
      BY <3>3, FlattenOne DEF W
    <3> QED
      BY <3>1, <3>2, <3>3, <3>4, <3>5
  <2> QED
    BY <2>1, <2>2
<1>7. \A i \in 1 .. n + 2 : i \in P
  <2>1. \A i \in 1 .. n + 2 : (\A j \in i + 1 .. n + 2 : j \in P) => i \in P
    BY <1>6
  <2> HIDE DEF P
  <2>2. PICK N \in Nat : N = n + 2
    OBVIOUS
  <2> QED
    BY <2>1, <2>2, BackwardInduction
<1>8. ~Inside(e, t, 1)
  <2>1. \A r \in Defined(e, t) : r \in 1 .. Len(t)
    BY MatchIs
  <2> QED
    BY <1>1, <2>1 DEF Inside
<1>9. FlattenSeq(F[1]) = RestFrom(e, t, 1)
  <2>1. 1 \in 1 .. n + 2
    OBVIOUS
  <2>2. 1 \in P
    BY <1>7, <2>1
  <2> QED
    BY <1>8, <2>2
<1>10. RestFrom(e, t, 1) = Replaced(e, t, Defined(e, t))
  <2>1. 1 \in 1 .. Len(t) + 2
    BY <1>1
  <2> QED
    BY <2>1, RestIs
<1>11. RenderByEnv(e, t) = FlattenSeq(F[1])
  BY <1>4, Zenon DEF RenderByEnv, pa
<1> QED
  BY <1>9, <1>10, <1>11

\* What the environment holds are texts.
ContextInv == IsEnv(env)

\* What a key is set to is a text.
LEMMA SettableIs ==
  ASSUME NEW k, NEW v \in Settable(k)
  PROVE  v \in Seq(Token)
<1>1. \A x \in Value \cup {Uid} : x \in Seq(Token)
  <2>1. ASSUME NEW x \in Value \cup {Uid}
        PROVE  x \in Seq(Token)
    <3>1. Range(x) \subseteq Token
      BY DEF Token
    <3>2. x \in Seq(Range(x))
      BY ContextAssumption
    <3>3. Seq(Range(x)) \subseteq Seq(Token)
      BY <3>1, SeqMonotonic
    <3> QED
      BY <3>2, <3>3
  <2> QED
    BY <2>1
<1>2. PICK c \in Token, d \in Token, f \in Token : c = "success" /\ d = "failed" /\ f = "why"
  BY DEF Token
<1>3. <<c>> \in Seq(Token) /\ <<d>> \in Seq(Token) /\ <<f>> \in Seq(Token) /\ <<>> \in Seq(Token)
  BY OneSeq, EmptySeq
<1>4. v \in Value \cup {Uid} \cup {<<>>, <<c>>, <<d>>, <<f>>}
  BY <1>2 DEF Settable, BuildSuccess, BuildFailed
<1> QED
  BY <1>1, <1>3, <1>4

\* AppendEnv makes an environment of two.
LEMMA AppendIs ==
  ASSUME NEW e, IsEnv(e), NEW new, IsEnv(new)
  PROVE  IsEnv(AppendEnv(e, new))
BY DEF IsEnv, AppendEnv

\* A single variable is an environment.
LEMMA OneIs ==
  ASSUME NEW k, NEW v \in Seq(Token)
  PROVE  IsEnv(Setting(k, v))
BY DEF IsEnv, Setting

\* The environment Run fills.
LEMMA ContextStart ==
  ASSUME ContextInit
  PROVE  ContextInv
<1>0. PICK P \in SUBSET EnvKey : \E params \in [P -> UNION {Settable(k) : k \in P}] :
        env = AppendEnv(Setting(GlobalParamsBuildId, Uid), params)
  BY DEF ContextInit
<1>1. PICK params \in [P -> UNION {Settable(k) : k \in P}] :
        env = AppendEnv(Setting(GlobalParamsBuildId, Uid), params)
  BY <1>0
<1>3. IsEnv(Setting(GlobalParamsBuildId, Uid))
  <2>1. Uid \in Settable(GlobalParamsBuildId)
    BY DEF Settable, GlobalParamsPipelineStatus, GlobalParamsBuildId,
           GlobalParamsPipelineFailReason
  <2> QED
    BY <2>1, SettableIs, OneIs
<1>4. IsEnv(params)
  BY SettableIs DEF IsEnv
<1>5. IsEnv(env)
  BY <1>1, <1>3, <1>4, AppendIs
<1> QED
  BY <1>5 DEF ContextInv

\* A step of a flow or of the loop keeps the invariant.
LEMMA ContextStep ==
  ASSUME ContextInv, [ContextNext]_contextVars
  PROVE  ContextInv'
<1> USE DEF ContextInv
<1>1. CASE UNCHANGED contextVars
  BY <1>1 DEF contextVars
<1>2. CASE StartFlow
  BY <1>2 DEF StartFlow
<1>3. CASE SetEnv
  <2>0. PICK k \in EnvKey : \E v \in Settable(k) : env' = AppendEnv(env, Setting(k, v))
    BY <1>3 DEF SetEnv
  <2>1. PICK v \in Settable(k) : env' = AppendEnv(env, Setting(k, v))
    BY <2>0
  <2> QED
    BY <2>1, SettableIs, OneIs, AppendIs
<1>4. CASE CallFail
  <2>1. BuildFailed \in Seq(Token)
    <3>1. BuildFailed \in Settable(GlobalParamsPipelineStatus)
      BY DEF Settable, GlobalParamsPipelineStatus, GlobalParamsBuildId,
             GlobalParamsPipelineFailReason
    <3> QED
      BY <3>1, SettableIs
  <2>2. <<"why">> \in Seq(Token)
    <3>1. <<"why">> \in Settable(GlobalParamsPipelineFailReason)
      BY DEF Settable, GlobalParamsPipelineStatus, GlobalParamsBuildId,
             GlobalParamsPipelineFailReason
    <3> QED
      BY <3>1, SettableIs
  <2>3. IsEnv([k \in {GlobalParamsPipelineStatus, GlobalParamsPipelineFailReason} |->
                IF k = GlobalParamsPipelineStatus THEN BuildFailed ELSE <<"why">>])
    BY <2>1, <2>2 DEF IsEnv
  <2> QED
    BY <1>4, <2>3, AppendIs DEF CallFail, Fail
<1>5. CASE FinishFlow
  BY <1>5 DEF FinishFlow, EndOfFlow
<1> QED
  BY <1>1, <1>2, <1>3, <1>4, <1>5 DEF ContextNext

\* The invariant where the environment is not looked at.
LEMMA NoContextIs ==
  ASSUME NoContext
  PROVE  ContextInv
BY DEF NoContext, ContextInv, IsEnv

\* Inductive invariant of the process environment.
THEOREM ContextInductive == TextsSpec => []ContextInv
<1>1. TextsInit => ContextInv
  BY ContextStart, NoContextIs DEF TextsInit
<1>2. ContextInv /\ [TextsNext]_textsVars => ContextInv'
  <2> SUFFICES ASSUME ContextInv, [TextsNext]_textsVars
               PROVE  ContextInv'
    OBVIOUS
  <2>1. [ContextNext]_contextVars
    BY DEF TextsNext, textsVars
  <2> QED
    BY <2>1, ContextStep
<1> QED
  BY <1>1, <1>2, PTL DEF TextsSpec

\* The text of a flow is tokens.
LEMMA FlowTextIs == FlowText \subseteq Seq(Token)
<1>1. ASSUME NEW x \in FlowText
      PROVE  x \in Seq(Token)
  <2>1. PICK m \in 0 .. MaxText : x \in [1 .. m -> {"${", "}"} \cup Name \cup Other]
    BY DEF FlowText, BoundedSeq, SeqOf
  <2>2. m \in Nat /\ x \in [1 .. m -> Token]
    <3>1. m \in Nat
      <4>1. MaxText \in Nat
        BY ContextAssumption, Zenon
      <4> QED
        BY <4>1
    <3>2. {"${", "}"} \cup Name \cup Other \subseteq Token
      BY DEF Token
    <3> QED
      BY <2>1, <3>1, <3>2
  <2> QED
    BY <2>2, SeqDef
<1> QED
  BY <1>1

\* RenderedOnce, for texts of any length and any environment.
THEOREM Rendered == TextsSpec => RenderedOnce
<1>1. ContextInv /\ [TextsNext]_textsVars =>
        [at' = "flow" /\ at = "between" =>
           used' = IF raw' THEN template'
                   ELSE Replaced(env, template', Defined(env, template'))]_contextVars
  <2> SUFFICES ASSUME ContextInv, [TextsNext]_textsVars, at' = "flow", at = "between"
               PROVE  used' = IF raw' THEN template'
                              ELSE Replaced(env, template', Defined(env, template'))
    OBVIOUS
  <2>1. ContextNext
    BY DEF TextsNext, textsVars, contextVars
  <2>2. StartFlow
    BY <2>1 DEF ContextNext, SetEnv, CallFail, FinishFlow, EndOfFlow
  <2>3. template' \in Seq(Token) /\ used' = IF raw' THEN template' ELSE RenderByEnv(env, template')
    BY <2>2, FlowTextIs DEF StartFlow
  <2>4. RenderByEnv(env, template') = Replaced(env, template', Defined(env, template'))
    BY <2>3, RenderIs DEF ContextInv
  <2> QED
    BY <2>3, <2>4
<1> QED
  BY <1>1, ContextInductive, PTL DEF TextsSpec, RenderedOnce

-----------------------------------------------------------------------------
(* The values of the Lua runner's JSON functions. *)

\* More values make more tables.
LEMMA TablesGrow ==
  ASSUME NEW U, NEW V, U \subseteq V
  PROVE  Tables(U) \subseteq Tables(V)
<1>1. ASSUME NEW K \in KeySets
      PROVE  [K -> U] \subseteq [K -> V]
  OBVIOUS
<1>2. UNION {[K -> U] : K \in KeySets} \subseteq UNION {[K -> V] : K \in KeySets}
  BY <1>1
<1> HIDE DEF KeySets
<1> QED
  BY <1>2 DEF Tables

\* What a table is.
LEMMA IsTable ==
  ASSUME NEW V, NEW x \in Tables(V)
  PROVE  /\ x = [t |-> "table", e |-> x.e] /\ x.t = "table"
         /\ Keys(x) \in KeySets /\ x.e \in [Keys(x) -> V]
<1>1. x \in [t : {"table"}, e : UNION {[K -> V] : K \in KeySets}]
  BY DEF Tables
<1>2. x.t = "table" /\ x = [t |-> "table", e |-> x.e] /\ x.e \in UNION {[K -> V] : K \in KeySets}
  BY <1>1
<1>3. PICK K \in KeySets : x.e \in [K -> V]
  BY <1>2
<1>4. Keys(x) = K
  BY <1>3 DEF Keys
<1> QED
  BY <1>2, <1>3, <1>4

\* f is Nested(A) up to depth d.
AreValues(A, f, d) == f = [i \in 0 .. d |-> IF i = 0 THEN A ELSE A \cup Tables(f[i - 1])]

\* Nested satisfies its definition.
LEMMA NestedUnfold ==
  ASSUME NEW A
  PROVE  \A d \in 0 .. MaxDepth :
           Nested(A)[d] = IF d = 0 THEN A ELSE A \cup Tables(Nested(A)[d - 1])
<1>1. PICK n \in Nat : n = MaxDepth
  BY JsonAssumption
<1> DEFINE S == {d \in Nat : \E f : AreValues(A, f, d)}
<1>2. 0 \in S
  <2> DEFINE f == [i \in 0 .. 0 |-> A]
  <2>1. AreValues(A, f, 0)
    BY DEF AreValues
  <2> HIDE DEF f
  <2> QED
    BY <2>1
<1>3. ASSUME NEW d \in Nat, d \in S
      PROVE  d + 1 \in S
  <2>1. PICK f : AreValues(A, f, d)
    BY <1>3
  <2> DEFINE g == [i \in 0 .. d + 1 |-> IF i = 0 THEN A ELSE A \cup Tables(f[i - 1])]
  <2>2. ASSUME NEW i \in 0 .. d
        PROVE  g[i] = f[i]
    <3>1. f[i] = IF i = 0 THEN A ELSE A \cup Tables(f[i - 1])
      BY <2>1 DEF AreValues
    <3> QED
      BY <3>1
  <2>3. \A i \in 0 .. d + 1 : i # 0 => g[i - 1] = f[i - 1]
    <3> HIDE DEF g
    <3> QED
      BY <2>2
  <2> DEFINE h == [i \in 0 .. d + 1 |-> IF i = 0 THEN A ELSE A \cup Tables(g[i - 1])]
  <2>4. \A i \in 0 .. d + 1 : g[i] = h[i]
    BY <2>3
  <2>5. g = h
    BY <2>4
  <2>6. AreValues(A, g, d + 1)
    <3> HIDE DEF g
    <3> QED
      BY <2>5 DEF AreValues
  <2> HIDE DEF g, h
  <2> QED
    BY <2>6
<1>4. n \in S
  <2> HIDE DEF S
  <2> QED
    BY <1>2, <1>3, SetInduction
<1>5. PICK f : f = [i \in 0 .. MaxDepth |-> IF i = 0 THEN A ELSE A \cup Tables(f[i - 1])]
  BY <1>1, <1>4 DEF AreValues
<1> DEFINE F == Nested(A)
           G == [i \in 0 .. MaxDepth |-> IF i = 0 THEN A ELSE A \cup Tables(F[i - 1])]
<1>6. F = G
  BY <1>5, Zenon DEF Nested
<1> HIDE DEF F
<1>7. \A d \in 0 .. MaxDepth : G[d] = IF d = 0 THEN A ELSE A \cup Tables(F[d - 1])
  OBVIOUS
<1> HIDE DEF G
<1> QED
  BY <1>6, <1>7 DEF F

\* Values satisfies its definition.
LEMMA ValuesUnfold ==
  \A d \in 0 .. MaxDepth : Values[d] = IF d = 0 THEN Atom ELSE Atom \cup Tables(Values[d - 1])
BY NestedUnfold DEF Values

\* The values of one level and of the next.
LEMMA ValuesAt ==
  ASSUME NEW c \in 0 .. MaxDepth, NEW d \in 0 .. MaxDepth, d = c + 1
  PROVE  Values[d] = Atom \cup Tables(Values[c])
<1>1. d # 0 /\ d - 1 = c
  BY JsonAssumption
<1>2. Values[d] = IF d = 0 THEN Atom ELSE Atom \cup Tables(Values[d - 1])
  BY ValuesUnfold
<1> QED
  BY <1>1, <1>2, Zenon

\* A value of any level is one.
LEMMA ValuesGrow == \A d \in 0 .. MaxDepth : Values[d] \subseteq LuaValue
<1>1. PICK n \in Nat : n = MaxDepth
  BY JsonAssumption
<1> DEFINE S == {d \in Nat : d + 1 <= n => Values[d] \subseteq Values[d + 1]}
<1>2. 0 \in S
  <2>1. ASSUME 1 <= n
        PROVE  Values[0] \subseteq Values[1]
    <3>1. 0 \in 0 .. MaxDepth /\ 1 \in 0 .. MaxDepth
      BY <1>1, <2>1
    <3>2. Values[0] = Atom
      BY <3>1, ValuesUnfold
    <3>3. Values[1] = Atom \cup Tables(Values[0])
      BY <3>1, ValuesAt
    <3> QED
      BY <3>2, <3>3
  <2> QED
    BY <2>1
<1>3. ASSUME NEW d \in Nat, d \in S, d + 1 + 1 <= n
      PROVE  Values[d + 1] \subseteq Values[d + 1 + 1]
  <2>1. d + 1 \in 0 .. MaxDepth /\ d + 1 + 1 \in 0 .. MaxDepth /\ d + 1 # 0 /\ d + 1 + 1 # 0
        /\ d + 1 - 1 = d /\ d + 1 + 1 - 1 = d + 1 /\ d + 1 <= n
    BY <1>1, <1>3
  <2>2. Values[d + 1] = Atom \cup Tables(Values[d]) /\ Values[d + 1 + 1] = Atom \cup Tables(Values[d + 1])
    <3>1. d \in 0 .. MaxDepth
      BY <1>1, <1>3
    <3>2. Values[d + 1] = Atom \cup Tables(Values[d])
      BY <2>1, <3>1, ValuesAt
    <3>3. Values[d + 1 + 1] = Atom \cup Tables(Values[d + 1])
      BY <2>1, ValuesAt
    <3> QED
      BY <3>2, <3>3
  <2>3. Values[d] \subseteq Values[d + 1]
    BY <1>3, <2>1
  <2> QED
    BY <2>2, <2>3, TablesGrow
<1>4. \A d \in Nat : d \in S
  <2>1. ASSUME NEW d \in Nat, d \in S
        PROVE  d + 1 \in S
    <3>1. d + 1 + 1 <= n => Values[d + 1] \subseteq Values[d + 1 + 1]
      <4> HIDE DEF S
      <4> QED
        BY <1>3, <2>1
    <3> QED
      BY <3>1
  <2> HIDE DEF S
  <2> QED
    BY <1>2, <2>1, SetInduction
<1> DEFINE T == {k \in Nat : k <= n => Values[n - k] \subseteq Values[n]}
<1>5. 0 \in T
  OBVIOUS
<1>6. ASSUME NEW k \in Nat, k \in T, k + 1 <= n
      PROVE  Values[n - (k + 1)] \subseteq Values[n]
  <2>1. n - (k + 1) \in Nat /\ n - (k + 1) + 1 = n - k /\ n - k <= n
    BY <1>6
  <2>2. n - (k + 1) \in S
    <3> HIDE DEF S
    <3> QED
      BY <1>4, <2>1
  <2>3. Values[n - (k + 1)] \subseteq Values[n - k]
    BY <2>1, <2>2
  <2> QED
    BY <1>6, <2>3
<1>7. \A k \in Nat : k \in T
  <2>1. \A k \in Nat : k \in T => k + 1 \in T
    <3> SUFFICES ASSUME NEW k \in Nat, k \in T, k + 1 <= n
                 PROVE  k + 1 \in T
      OBVIOUS
    <3> QED
      BY <1>6
  <2> HIDE DEF T
  <2> QED
    BY <1>5, <2>1, SetInduction
<1>8. ASSUME NEW d \in 0 .. MaxDepth
      PROVE  Values[d] \subseteq LuaValue
  <2>1. n - d \in Nat /\ n - d <= n /\ n - (n - d) = d
    BY <1>1
  <2>2. n - d \in T
    <3> HIDE DEF T
    <3> QED
      BY <1>7, <2>1
  <2> QED
    BY <1>1, <2>1, <2>2 DEF LuaValue
<1> QED
  BY <1>8

\* A value is an atom, or a table of values one level down.
LEMMA ValueIs ==
  ASSUME NEW d \in 0 .. MaxDepth, NEW x \in Values[d]
  PROVE  /\ x.t # "table" => x \in Atom
         /\ x.t = "table" => d # 0 /\ d - 1 \in 0 .. MaxDepth /\ x \in Tables(Values[d - 1])
<1>1. \A a \in Atom : a.t # "table"
  BY JsonAssumption
<1>2. Values[d] = IF d = 0 THEN Atom ELSE Atom \cup Tables(Values[d - 1])
  BY ValuesUnfold
<1>3. d # 0 => d - 1 \in 0 .. MaxDepth
  BY JsonAssumption
<1> QED
  BY <1>1, <1>2, <1>3, IsTable

\* What a script passes is a table and a value.
LEMMA InputIs == Input = Tables(Values[MaxDepth - 1]) /\ Input \subseteq LuaValue
<1>1. MaxDepth \in 0 .. MaxDepth /\ MaxDepth # 0
  BY JsonAssumption
<1> QED
  BY <1>1, ValuesUnfold DEF Input, LuaValue

-----------------------------------------------------------------------------
(* The order in which ForEach comes to the keys of a list. *)

\* How many keys of K come before k.
Below(K, k) == {l \in K : Before(l, k)}
\* Its place, counted from 0.
Rank(K, k) == Cardinality(Below(K, k))

\* The keys of a table are finitely many strings and numbers.
LEMMA KeysAre ==
  ASSUME NEW K \in KeySets
  PROVE  /\ IsFiniteSet(K) /\ Cardinality(K) \in Nat /\ K \subseteq Key
         /\ \A k \in K : k = Str(k.v) \/ (k = Num(k.v) /\ k.v \in Nat)
BY FS_CardinalityType, JsonAssumption DEF KeySets

\* The parts of a key.
LEMMA StrNum ==
  ASSUME NEW n
  PROVE  Num(n).t = "num" /\ Num(n).v = n /\ Str(n).t = "str" /\ Str(n).v = n
BY DEF Num, Str

\* The keys of a list are numbers and ordered as such.
LEMMA NumKeys ==
  ASSUME NEW K \in KeySets, \A k \in K : k.t = "num"
  PROVE  /\ \A k \in K : k = Num(k.v) /\ k.v \in Nat
         /\ \A j, k \in K : Before(j, k) <=> j.v < k.v
<1>1. ASSUME NEW k \in K
      PROVE  k = Num(k.v) /\ k.v \in Nat
  <2>1. Str(k.v).t = "str" /\ "str" # "num"
    BY StrNum
  <2>2. k # Str(k.v)
    BY <2>1, Zenon
  <2> QED
    BY <2>2, KeysAre
<1>2. \A j, k \in K : Before(j, k) <=> j.v < k.v
  BY DEF Before
<1> QED
  BY <1>1, <1>2

\* A greater number comes later.
LEMMA RankGrows ==
  ASSUME NEW K \in KeySets, \A k \in K : k.t = "num", NEW j \in K, NEW k \in K, j.v < k.v
  PROVE  Rank(K, j) < Rank(K, k)
<1>1. IsFiniteSet(K)
  BY KeysAre
<1>2. \A x \in K : x.v \in Nat
  BY NumKeys
<1>3. \A x, y \in K : x \in Below(K, y) <=> x.v < y.v
  BY NumKeys DEF Below
<1>4. IsFiniteSet(Below(K, k)) /\ Below(K, k) \subseteq K /\ Below(K, j) \subseteq K
  BY <1>1, FS_Subset DEF Below
<1>5. Below(K, j) \subseteq Below(K, k)
  <2>1. ASSUME NEW x \in Below(K, j)
        PROVE  x \in Below(K, k)
    <3>1. x \in K /\ x.v < j.v
      BY <1>3, <1>4
    <3>2. x.v < k.v
      BY <1>2, <3>1
    <3> QED
      BY <1>3, <3>1, <3>2
  <2> QED
    BY <2>1
<1>6. j \in Below(K, k) /\ j \notin Below(K, j)
  BY <1>2, <1>3
<1>7. Below(K, j) # Below(K, k)
  BY <1>6
<1>8. IsFiniteSet(Below(K, j)) /\ Cardinality(Below(K, j)) <= Cardinality(Below(K, k))
      /\ (Cardinality(Below(K, k)) = Cardinality(Below(K, j)) => Below(K, k) = Below(K, j))
  BY <1>4, <1>5, FS_Subset
<1>9. Cardinality(Below(K, j)) \in Nat /\ Cardinality(Below(K, k)) \in Nat
  BY <1>4, <1>8, FS_CardinalityType
<1> QED
  BY <1>7, <1>8, <1>9 DEF Rank

\* Two keys do not have the same place.
LEMMA RankInjective ==
  ASSUME NEW K \in KeySets, \A k \in K : k.t = "num", NEW j \in K, NEW k \in K, Rank(K, j) = Rank(K, k)
  PROVE  j = k
<1>1. j = Num(j.v) /\ k = Num(k.v) /\ j.v \in Nat /\ k.v \in Nat
  BY NumKeys
<1>2. PICK r, s : r = Rank(K, j) /\ s = Rank(K, k) /\ r \in Nat /\ s \in Nat
  <2>1. Below(K, j) \subseteq K /\ Below(K, k) \subseteq K /\ IsFiniteSet(K)
    BY KeysAre DEF Below
  <2>2. IsFiniteSet(Below(K, j)) /\ IsFiniteSet(Below(K, k))
    BY <2>1, FS_Subset
  <2> QED
    BY <2>2, FS_CardinalityType DEF Rank
<1>3. ~(j.v < k.v)
  <2> SUFFICES ASSUME j.v < k.v
               PROVE  FALSE
    OBVIOUS
  <2>1. Rank(K, j) < Rank(K, k)
    BY RankGrows
  <2> QED
    BY <1>2, <2>1
<1>4. ~(k.v < j.v)
  <2> SUFFICES ASSUME k.v < j.v
               PROVE  FALSE
    OBVIOUS
  <2>1. Rank(K, k) < Rank(K, j)
    BY RankGrows
  <2> QED
    BY <1>2, <2>1
<1>5. j.v = k.v
  BY <1>1, <1>3, <1>4
<1> QED
  BY <1>1, <1>5, Zenon

\* Every place has its key.
LEMMA RankOnto ==
  ASSUME NEW K \in KeySets, \A k \in K : k.t = "num", NEW i \in 1 .. Cardinality(K)
  PROVE  \E k \in K : Rank(K, k) = i - 1
<1>1. PICK n \in Nat : n = Cardinality(K) /\ IsFiniteSet(K)
  BY KeysAre
<1> DEFINE r == [k \in K |-> Rank(K, k) + 1]
<1>2. ASSUME NEW k \in K
      PROVE  Rank(K, k) \in 0 .. n - 1
  <2>1. k \notin Below(K, k) /\ Below(K, k) \subseteq K
    BY NumKeys DEF Below
  <2>2. /\ IsFiniteSet(Below(K, k)) /\ Cardinality(Below(K, k)) <= Cardinality(K)
        /\ (Cardinality(K) = Cardinality(Below(K, k)) => K = Below(K, k))
    BY <1>1, <2>1, FS_Subset
  <2>3. K # Below(K, k)
    BY <2>1
  <2>4. Cardinality(Below(K, k)) \in Nat
    BY <2>2, FS_CardinalityType
  <2> QED
    BY <1>1, <2>2, <2>3, <2>4 DEF Rank
<1>3. r \in [K -> 1 .. n]
  <2>1. \A k \in K : Rank(K, k) + 1 \in 1 .. n
    BY <1>2
  <2> QED
    BY <2>1
<1>4. \A j, k \in K : r[j] = r[k] => j = k
  <2>1. ASSUME NEW j \in K, NEW k \in K, r[j] = r[k]
        PROVE  Rank(K, j) = Rank(K, k)
    BY <1>2, <2>1
  <2> HIDE DEF r
  <2> QED
    BY <2>1, RankInjective
<1> HIDE DEF r
<1> DEFINE T == 1 .. n
<1>5. IsFiniteSet(T) /\ Cardinality(T) = n
  BY FS_Interval
<1>6. r \in Injection(K, T)
  BY <1>3, <1>4 DEF Injection, IsInjective
<1>7. r \in Surjection(K, T)
  <2> HIDE DEF T
  <2> QED
    BY <1>1, <1>5, <1>6, FS_Injection
<1>8. PICK k \in K : r[k] = i
  <2>1. i \in T
    BY <1>1
  <2> HIDE DEF T
  <2> QED
    BY <1>7, <2>1 DEF Surjection
<1> QED
  BY <1>2, <1>8 DEF r

\* ForEach comes to one key of a list at each place.
LEMMA VisitedIs ==
  ASSUME NEW x, Keys(x) \in KeySets, CheckList(x), NEW i \in 1 .. Cardinality(Keys(x))
  PROVE  Visited(x, i) \in Keys(x) /\ Rank(Keys(x), Visited(x, i)) = i - 1
<1>1. \A k \in Keys(x) : k.t = "num"
  BY DEF CheckList, Keys
<1>2. \E k \in Keys(x) : Rank(Keys(x), k) = i - 1
  BY <1>1, RankOnto
<1>3. Visited(x, i) = CHOOSE k \in Keys(x) : Rank(Keys(x), k) = i - 1
  BY DEF Visited, Rank, Below
<1> QED
  BY <1>2, <1>3, Zenon

\* A name of an object stands for one of its keys.
LEMMA NamedIs ==
  ASSUME NEW x, Keys(x) \in KeySets, NEW n \in Names(x)
  PROVE  Named(x, n) \in Keys(x)
BY KeysAre DEF Named, Names

\* The name that stays is one.
LEMMA StayingIs ==
  ASSUME NEW x, NEW m \in {Utf8(n) : n \in Names(x)}
  PROVE  Staying(x, m) \in Names(x) /\ Utf8(Staying(x, m)) = m
BY DEF Staying

\* A text with all its entries: no number in the value is not finite.
AllWritten(g, x) == \A y \in Fields(x) : g[y] # NoText

\* What is written of a table.
LEMMA MarshalOfTable ==
  ASSUME NEW g, NEW x, x.t = "table"
  PROVE  /\ ~AllWritten(g, x) => MarshalOf(g, x) = NoText
         /\ AllWritten(g, x) /\ CheckList(x) =>
              MarshalOf(g, x) =
                [t |-> "array",
                 e |-> [i \in 1 .. Cardinality(Keys(x)) |-> g[x.e[Visited(x, i)]]]]
         /\ AllWritten(g, x) /\ ~CheckList(x) =>
              MarshalOf(g, x) =
                [t |-> "object",
                 e |-> [m \in {Utf8(n) : n \in Names(x)} |-> g[x.e[Named(x, Staying(x, m))]]]]
<1>1. CASE ~AllWritten(g, x)
  BY <1>1 DEF MarshalOf, AllWritten
<1>2. CASE AllWritten(g, x) /\ CheckList(x)
  BY <1>2 DEF MarshalOf, AllWritten
<1>3. CASE AllWritten(g, x) /\ ~CheckList(x)
  BY <1>3 DEF MarshalOf, AllWritten
<1> QED
  BY <1>1, <1>2, <1>3

\* A sequence is visited from first to last.
LEMMA VisitedInOrder ==
  ASSUME NEW x, Keys(x) \in KeySets, IsSequence(x), NEW i \in 1 .. Cardinality(Keys(x))
  PROVE  CheckList(x) /\ Visited(x, i) = Num(i)
<1>1. PICK K \in KeySets : K = Keys(x)
  OBVIOUS
<1>11. PICK n \in Nat : n = Cardinality(Keys(x))
  BY KeysAre
<1>2. K = {Num(j) : j \in 1 .. n}
  BY <1>1, <1>11 DEF IsSequence
<1>3. \A k \in K : k.t = "num"
  BY <1>2, StrNum
<1>4. CheckList(x)
  BY <1>1, <1>3 DEF CheckList, Keys
<1>5. Num(i) \in K
  BY <1>1, <1>11, <1>2
<1> DEFINE T == 1 .. i - 1
           f == [j \in T |-> Num(j)]
<1>6. f \in Bijection(T, Below(K, Num(i)))
  <2>1. \A j \in 1 .. n : Num(j) \in Below(K, Num(i)) <=> j < i
    <3>1. ASSUME NEW j \in 1 .. n
          PROVE  Num(j) \in Below(K, Num(i)) <=> j < i
      <4>1. Num(j) \in K /\ Num(j).v = j /\ Num(i).v = i
        BY <1>2, StrNum
      <4>2. Before(Num(j), Num(i)) <=> Num(j).v < Num(i).v
        BY <1>1, <1>3, <1>5, <4>1, NumKeys
      <4> QED
        BY <4>1, <4>2 DEF Below
    <3> QED
      BY <3>1
  <2>2. \A j \in T : j \in 1 .. n /\ j < i
    BY <1>11
  <2>3. f \in [T -> Below(K, Num(i))]
    BY <2>1, <2>2
  <2>4. \A j, k \in T : f[j] = f[k] => j = k
    <3>1. ASSUME NEW j \in T, NEW k \in T, Num(j) = Num(k)
          PROVE  j = k
      BY <3>1, StrNum
    <3> QED
      BY <3>1
  <2>5. \A l \in Below(K, Num(i)) : \E j \in T : f[j] = l
    <3>1. ASSUME NEW l \in Below(K, Num(i))
          PROVE  \E j \in T : f[j] = l
      <4>1. PICK j \in 1 .. n : l = Num(j)
        BY <1>2 DEF Below
      <4>2. j \in T
        BY <2>1, <4>1
      <4> QED
        BY <4>1, <4>2
    <3> QED
      BY <3>1
  <2> HIDE DEF T, f
  <2> QED
    BY <2>3, <2>4, <2>5 DEF Bijection, Injection, IsInjective, Surjection
<1>7. Rank(K, Num(i)) = i - 1
  <2>1. IsFiniteSet(T) /\ Cardinality(T) = i - 1
    BY FS_Interval
  <2>2. ExistsBijection(T, Below(K, Num(i)))
    BY <1>6 DEF ExistsBijection
  <2> HIDE DEF T
  <2> QED
    BY <2>1, <2>2, FS_Bijection DEF Rank
<1>8. Visited(x, i) \in K /\ Rank(K, Visited(x, i)) = i - 1
  BY <1>1, <1>4, VisitedIs
<1>9. Visited(x, i) = Num(i)
  BY <1>1, <1>3, <1>5, <1>7, <1>8, RankInjective
<1> QED
  BY <1>4, <1>9

-----------------------------------------------------------------------------
(* Writing. *)

\* What marshal writes depends only on what it writes of the values one level down.
LEMMA MarshalOfAgrees ==
  ASSUME NEW d \in 0 .. MaxDepth, NEW x \in Values[d], NEW g, NEW h,
         d # 0 => \A y \in Values[d - 1] : g[y] = h[y]
  PROVE  MarshalOf(g, x) = MarshalOf(h, x)
<1>1. CASE x.t # "table"
  BY <1>1 DEF MarshalOf
<1>2. CASE x.t = "table"
  <2>1. d # 0 /\ x \in Tables(Values[d - 1])
    BY <1>2, ValueIs
  <2>2. Keys(x) \in KeySets /\ x.e \in [Keys(x) -> Values[d - 1]]
    BY <2>1, IsTable
  <2>3. \A k \in Keys(x) : g[x.e[k]] = h[x.e[k]]
    BY <2>1, <2>2
  <2>4. AllWritten(g, x) <=> AllWritten(h, x)
    <3>1. \A n \in Names(x) : g[x.e[Named(x, n)]] = h[x.e[Named(x, n)]]
      BY <2>2, <2>3, NamedIs
    <3> QED
      BY <3>1 DEF AllWritten, Fields
  <2>5. CASE ~AllWritten(g, x)
    BY <1>2, <2>4, <2>5, MarshalOfTable
  <2>6. CASE AllWritten(g, x) /\ CheckList(x)
    <3>1. \A i \in 1 .. Cardinality(Keys(x)) : g[x.e[Visited(x, i)]] = h[x.e[Visited(x, i)]]
      BY <2>2, <2>3, <2>6, VisitedIs
    <3>2. [i \in 1 .. Cardinality(Keys(x)) |-> g[x.e[Visited(x, i)]]]
            = [i \in 1 .. Cardinality(Keys(x)) |-> h[x.e[Visited(x, i)]]]
      BY <3>1
    <3>3. MarshalOf(g, x) = [t |-> "array", e |-> [i \in 1 .. Cardinality(Keys(x)) |-> g[x.e[Visited(x, i)]]]]
      BY <1>2, <2>6 DEF MarshalOf, AllWritten
    <3>4. MarshalOf(h, x) = [t |-> "array", e |-> [i \in 1 .. Cardinality(Keys(x)) |-> h[x.e[Visited(x, i)]]]]
      BY <1>2, <2>4, <2>6 DEF MarshalOf, AllWritten
    <3> QED
      BY <3>2, <3>3, <3>4, Zenon
  <2>7. CASE AllWritten(g, x) /\ ~CheckList(x)
    <3>1. \A m \in {Utf8(n) : n \in Names(x)} :
            g[x.e[Named(x, Staying(x, m))]] = h[x.e[Named(x, Staying(x, m))]]
      BY <2>2, <2>3, NamedIs, StayingIs
    <3>2. [m \in {Utf8(n) : n \in Names(x)} |-> g[x.e[Named(x, Staying(x, m))]]]
            = [m \in {Utf8(n) : n \in Names(x)} |-> h[x.e[Named(x, Staying(x, m))]]]
      BY <3>1
    <3>3. MarshalOf(g, x) = [t |-> "object", e |-> [m \in {Utf8(n) : n \in Names(x)} |-> g[x.e[Named(x, Staying(x, m))]]]]
      BY <1>2, <2>7 DEF MarshalOf, AllWritten
    <3>4. MarshalOf(h, x) = [t |-> "object", e |-> [m \in {Utf8(n) : n \in Names(x)} |-> h[x.e[Named(x, Staying(x, m))]]]]
      BY <1>2, <2>4, <2>7 DEF MarshalOf, AllWritten
    <3> QED
      BY <3>2, <3>3, <3>4, Zenon
  <2> QED
    BY <2>5, <2>6, <2>7
<1> QED
  BY <1>1, <1>2

\* g is what marshal writes of the values d deep.
MarshalsTo(g, d) == \A x \in Values[d] : g[x] = MarshalOf(g, x)

\* From what is written of the values of one level to what is written of the next.
LEMMA MarshalStep ==
  ASSUME NEW d \in 0 .. MaxDepth, NEW g, d # 0 => MarshalsTo(g, d - 1)
  PROVE  MarshalsTo([x \in LuaValue |-> MarshalOf(g, x)], d)
<1> DEFINE h == [x \in LuaValue |-> MarshalOf(g, x)]
<1>1. \A x \in LuaValue : h[x] = MarshalOf(g, x)
  OBVIOUS
<1> HIDE DEF h
<1>2. Values[d] \subseteq LuaValue
  BY ValuesGrow
<1>3. ASSUME d # 0, NEW y \in Values[d - 1]
      PROVE  g[y] = h[y]
  <2>1. d - 1 \in 0 .. MaxDepth
    BY <1>3, JsonAssumption
  <2>2. y \in LuaValue
    BY <2>1, ValuesGrow
  <2> QED
    BY <1>1, <1>3, <2>2 DEF MarshalsTo
<1>4. ASSUME NEW x \in Values[d]
      PROVE  h[x] = MarshalOf(h, x)
  <2>1. MarshalOf(g, x) = MarshalOf(h, x)
    BY <1>3, MarshalOfAgrees
  <2> QED
    BY <1>1, <1>2, <2>1
<1>5. MarshalsTo(h, d)
  BY <1>4 DEF MarshalsTo
<1> QED
  BY <1>5 DEF h

\* Marshal satisfies its definition, for every value.
LEMMA MarshalUnfolds ==
  ASSUME NEW x \in LuaValue
  PROVE  Marshal[x] = MarshalOf(Marshal, x)
<1>1. PICK n \in Nat : n = MaxDepth
  BY JsonAssumption
<1> DEFINE Made(g) == [y \in LuaValue |-> MarshalOf(g, y)]
           S == {d \in Nat : d <= n => \E g : MarshalsTo(g, d)}
<1>2. 0 \in S
  <2>1. 0 \in 0 .. MaxDepth
    BY <1>1
  <2>2. MarshalsTo(Made(0), 0)
    BY <2>1, MarshalStep
  <2> QED
    BY <2>2
<1>3. ASSUME NEW d \in Nat, d \in S
      PROVE  d + 1 \in S
  <2>1. SUFFICES ASSUME d + 1 <= n
                 PROVE  \E g : MarshalsTo(g, d + 1)
    OBVIOUS
  <2>2. PICK g : MarshalsTo(g, d)
    BY <1>3, <2>1
  <2>3. d + 1 \in 0 .. MaxDepth /\ d + 1 - 1 = d
    BY <1>1, <2>1
  <2>4. MarshalsTo(Made(g), d + 1)
    <3>1. MarshalsTo(g, d + 1 - 1)
      BY <2>2, <2>3
    <3> QED
      BY <2>3, <3>1, MarshalStep
  <2> QED
    BY <2>4
<1>4. n \in S
  <2> HIDE DEF S
  <2> QED
    BY <1>2, <1>3, SetInduction
<1>5. PICK g : MarshalsTo(g, MaxDepth)
  BY <1>1, <1>4
<1> DEFINE f == Made(g)
<1>6. f = Made(f)
  <2>1. \A y \in LuaValue : g[y] = f[y]
    BY <1>5 DEF MarshalsTo, LuaValue
  <2>2. ASSUME NEW y \in LuaValue
        PROVE  MarshalOf(g, y) = MarshalOf(f, y)
    <3>1. MaxDepth \in 0 .. MaxDepth /\ y \in Values[MaxDepth]
      BY <1>1 DEF LuaValue
    <3>2. MaxDepth # 0 => \A z \in Values[MaxDepth - 1] : g[z] = f[z]
      <4>1. MaxDepth # 0 => MaxDepth - 1 \in 0 .. MaxDepth
        BY <1>1
      <4> HIDE DEF f
      <4> QED
        BY <2>1, <4>1, ValuesGrow
    <3> HIDE DEF f
    <3> QED
      BY <3>1, <3>2, MarshalOfAgrees
  <2> QED
    BY <2>2
<1> HIDE DEF f
<1> DEFINE F == Marshal
<1>7. F = Made(F)
  BY <1>6, Zenon DEF Marshal
<1> HIDE DEF F
<1> DEFINE R == Made(F)
<1>8. R[x] = MarshalOf(F, x)
  OBVIOUS
<1> HIDE DEF R
<1>9. F = R
  BY <1>7 DEF R
<1>10. F[x] = MarshalOf(F, x)
  BY <1>8, <1>9
<1> QED
  BY <1>10 DEF F

-----------------------------------------------------------------------------
(* What can be put as JSON. *)

\* f is Forms up to depth d.
AreForms(f, d) ==
  f = [i \in 0 .. d |->
         IF i = 0 THEN Plain
         ELSE f[0] \cup {x \in Tables(f[i - 1]) : IsRecord(x) \/ IsSequence(x)}]

\* Forms satisfies its definition.
LEMMA FormsUnfold ==
  \A d \in 0 .. MaxDepth :
    Forms[d] = IF d = 0 THEN Plain
               ELSE Forms[0] \cup {x \in Tables(Forms[d - 1]) : IsRecord(x) \/ IsSequence(x)}
<1> DEFINE Form(g, i) ==
             IF i = 0 THEN Plain
             ELSE g[0] \cup {x \in Tables(g[i - 1]) : IsRecord(x) \/ IsSequence(x)}
           Body(g, d) == [i \in 0 .. d |-> Form(g, i)]
<1>1. PICK n \in Nat : n = MaxDepth
  BY JsonAssumption
<1>0. ASSUME NEW g, NEW h, NEW i \in Nat, i # 0 => g[0] = h[0] /\ g[i - 1] = h[i - 1]
      PROVE  Form(g, i) = Form(h, i)
  BY <1>0
<1> DEFINE S == {d \in Nat : \E f : f = Body(f, d)}
<1> HIDE DEF Form
<1>2. 0 \in S
  <2> DEFINE f == Body(0, 0)
             h == Body(f, 0)
  <2>1. \A i \in 0 .. 0 : Form(0, i) = Form(f, i)
    <3> HIDE DEF f
    <3> QED
      BY <1>0
  <2>2. f = h
    <3>1. \A i \in 0 .. 0 : f[i] = Form(0, i)
      OBVIOUS
    <3> QED
      BY <2>1, <3>1
  <2> HIDE DEF f
  <2> QED
    BY <2>2
<1>3. ASSUME NEW d \in Nat, d \in S
      PROVE  d + 1 \in S
  <2>1. PICK f : f = Body(f, d)
    BY <1>3
  <2> DEFINE g == Body(f, d + 1)
             h == Body(g, d + 1)
  <2>2. ASSUME NEW i \in 0 .. d
        PROVE  g[i] = f[i]
    <3>1. f[i] = Form(f, i)
      <4> DEFINE r == Body(f, d)
      <4>1. r[i] = Form(f, i)
        OBVIOUS
      <4> HIDE DEF r
      <4>2. f = r
        BY <2>1 DEF r
      <4> QED
        BY <4>1, <4>2
    <3> QED
      BY <3>1
  <2>3. ASSUME NEW i \in 0 .. d + 1
        PROVE  Form(f, i) = Form(g, i)
    <3>1. i # 0 => 0 \in 0 .. d /\ i - 1 \in 0 .. d
      OBVIOUS
    <3> HIDE DEF g
    <3>2. i # 0 => f[0] = g[0] /\ f[i - 1] = g[i - 1]
      BY <2>2, <3>1
    <3> QED
      BY <1>0, <3>2
  <2>4. g = h
    <3>1. \A i \in 0 .. d + 1 : g[i] = Form(f, i)
      OBVIOUS
    <3>2. \A i \in 0 .. d + 1 : h[i] = Form(g, i)
      <4> HIDE DEF g
      <4> QED
        OBVIOUS
    <3> QED
      BY <2>3, <3>1, <3>2
  <2> HIDE DEF g
  <2> QED
    BY <2>4
<1>4. n \in S
  <2> HIDE DEF S
  <2> QED
    BY <1>2, <1>3, SetInduction
<1>5. PICK f : f = Body(f, MaxDepth)
  BY <1>1, <1>4
<1> DEFINE F == Forms
           G == Body(F, MaxDepth)
<1>6. F = G
  BY <1>5, Zenon DEF Forms, Form
<1> HIDE DEF F
<1>7. \A d \in 0 .. MaxDepth : G[d] = Form(F, d)
  OBVIOUS
<1> HIDE DEF G
<1>8. \A d \in 0 .. MaxDepth : F[d] = Form(F, d)
  BY <1>6, <1>7
<1> QED
  BY <1>8 DEF F, Form

\* What can be put as JSON: a plain atom, or a record or a sequence of such values.
LEMMA FormIs ==
  ASSUME NEW d \in 0 .. MaxDepth, NEW x \in Forms[d]
  PROVE  \/ x \in Plain
         \/ /\ d # 0 /\ d - 1 \in 0 .. MaxDepth
            /\ x \in Tables(Forms[d - 1]) /\ (IsRecord(x) \/ IsSequence(x))
<1>0. 0 \in 0 .. MaxDepth /\ (d # 0 => d - 1 \in 0 .. MaxDepth)
  BY JsonAssumption
<1>1. Forms[0] = Plain
  BY <1>0, FormsUnfold
<1>2. Forms[d] = IF d = 0 THEN Plain
                 ELSE Forms[0] \cup {y \in Tables(Forms[d - 1]) : IsRecord(y) \/ IsSequence(y)}
  BY FormsUnfold
<1> QED
  BY <1>0, <1>1, <1>2

\* What can be put as JSON is a value.
LEMMA FormsAreValues == \A d \in 0 .. MaxDepth : Forms[d] \subseteq Values[d]
<1>1. PICK n \in Nat : n = MaxDepth
  BY JsonAssumption
<1> DEFINE S == {d \in Nat : d <= n => Forms[d] \subseteq Values[d]}
<1>2. 0 \in S
  <2>1. 0 \in 0 .. MaxDepth
    BY <1>1
  <2>2. Forms[0] = Plain /\ Values[0] = Atom
    BY <2>1, FormsUnfold, ValuesUnfold
  <2> QED
    BY <2>2 DEF Plain
<1>3. ASSUME NEW d \in Nat, d \in S, d + 1 <= n
      PROVE  Forms[d + 1] \subseteq Values[d + 1]
  <2>1. PICK c \in 0 .. MaxDepth : c = d + 1 /\ c - 1 = d
    BY <1>1, <1>3
  <2>2. d \in 0 .. MaxDepth /\ Forms[d] \subseteq Values[d]
    BY <1>1, <1>3
  <2>3. Values[c] = Atom \cup Tables(Values[d])
    BY <2>1, <2>2, ValuesAt
  <2>4. ASSUME NEW x \in Forms[c]
        PROVE  x \in Values[c]
    <3>1. x \in Atom \/ x \in Tables(Forms[c - 1])
      BY FormIs DEF Plain
    <3>2. x \in Atom \/ x \in Tables(Forms[d])
      BY <2>1, <3>1
    <3> QED
      BY <2>2, <2>3, <3>2, TablesGrow
  <2> QED
    BY <2>1, <2>4
<1>4. \A d \in Nat : d \in S
  <2>1. ASSUME NEW d \in Nat, d \in S
        PROVE  d + 1 \in S
    <3>1. d + 1 <= n => Forms[d + 1] \subseteq Values[d + 1]
      <4> HIDE DEF S
      <4> QED
        BY <1>3, <2>1
    <3> QED
      BY <3>1
  <2> HIDE DEF S
  <2> QED
    BY <1>2, <2>1, SetInduction
<1> QED
  BY <1>1, <1>4

-----------------------------------------------------------------------------
(* Reading. *)

\* The texts of the values with tables in tables d deep.
JsonAt(d) == {Marshal[v] : v \in Values[d]}

\* All texts are those of the top level.
LEMMA JsonTop == Json = JsonAt(MaxDepth)
BY DEF Json, JsonAt, LuaValue

\* A text of any level is one.
LEMMA JsonGrows == \A d \in 0 .. MaxDepth : JsonAt(d) \subseteq Json
BY ValuesGrow DEF Json, JsonAt

\* What a list is written as: an array of what its elements are written as.
LEMMA MarshalList ==
  ASSUME NEW x \in LuaValue, x.t = "table", CheckList(x), AllWritten(Marshal, x)
  PROVE  Marshal[x] = [t |-> "array",
                       e |-> [i \in 1 .. Cardinality(Keys(x)) |-> Marshal[x.e[Visited(x, i)]]]]
BY MarshalUnfolds, MarshalOfTable

\* What any other table is written as: an object with a field for each name.
LEMMA MarshalObject ==
  ASSUME NEW x \in LuaValue, x.t = "table", ~CheckList(x), AllWritten(Marshal, x)
  PROVE  Marshal[x] = [t |-> "object",
                       e |-> [m \in {Utf8(n) : n \in Names(x)} |->
                                Marshal[x.e[Named(x, Staying(x, m))]]]]
BY MarshalUnfolds, MarshalOfTable

\* What is written of a table with a number that is not finite in it.
LEMMA MarshalNone ==
  ASSUME NEW x \in LuaValue, x.t = "table", ~AllWritten(Marshal, x)
  PROVE  Marshal[x] = NoText
BY MarshalUnfolds, MarshalOfTable

\* An atom is written as itself or as null, its string repaired, unless it is not finite.
LEMMA MarshalAtom ==
  ASSUME NEW x \in LuaValue, x \in Atom
  PROVE  /\ Marshal[x] = NoText <=> x.t = "nonfinite"
         /\ Marshal[x].t \notin {"object", "array"}
         /\ x.t \in {"num", "bool"} => Marshal[x] = x
         /\ x.t = "str" => Marshal[x] = Str(Utf8(x.v))
<1>1. Marshal[x] = MarshalOf(Marshal, x)
  BY MarshalUnfolds
<1>2. x.t \in {"num", "nonfinite", "str", "bool", "fn"}
  BY JsonAssumption
<1>3. CASE x.t = "fn"
  BY <1>1, <1>3 DEF MarshalOf, Null, NoText
<1>4. CASE x.t = "nonfinite"
  BY <1>1, <1>4 DEF MarshalOf, NoText
<1>5. CASE x.t = "str"
  BY <1>1, <1>5 DEF MarshalOf, NoText, Str
<1>6. CASE x.t \in {"num", "bool"}
  BY <1>1, <1>6 DEF MarshalOf, NoText
<1> QED
  BY <1>2, <1>3, <1>4, <1>5, <1>6

\* A text is that of an atom, or an array or object of texts one level down.
IsText(j, d) ==
  \/ j.t \notin {"object", "array"}
  \/ /\ d # 0 /\ d - 1 \in 0 .. MaxDepth
     /\ \A n \in DOMAIN j.e : j.e[n] \in JsonAt(d - 1)

\* What marshal writes is such a text.
LEMMA TextIs ==
  ASSUME NEW d \in 0 .. MaxDepth, NEW j \in JsonAt(d)
  PROVE  IsText(j, d)
<1>1. PICK x \in Values[d] : j = Marshal[x]
  BY DEF JsonAt
<1>2. x \in LuaValue
  BY ValuesGrow
<1>3. CASE x.t # "table"
  <2>1. x \in Atom
    BY <1>3, ValueIs
  <2> QED
    BY <1>1, <1>2, <2>1, MarshalAtom DEF IsText
<1>4. CASE x.t = "table"
  <2>1. d # 0 /\ d - 1 \in 0 .. MaxDepth /\ x \in Tables(Values[d - 1])
    BY <1>4, ValueIs
  <2>2. Keys(x) \in KeySets /\ x.e \in [Keys(x) -> Values[d - 1]]
    BY <2>1, IsTable
  <2>3. \A k \in Keys(x) : Marshal[x.e[k]] \in JsonAt(d - 1)
    BY <2>2 DEF JsonAt
  <2>4. CASE ~AllWritten(Marshal, x)
    <3>1. j = NoText
      BY <1>1, <1>2, <1>4, <2>4, MarshalNone
    <3> QED
      BY <3>1 DEF IsText, NoText
  <2>5. CASE AllWritten(Marshal, x) /\ CheckList(x)
    <3>1. j = [t |-> "array",
               e |-> [i \in 1 .. Cardinality(Keys(x)) |-> Marshal[x.e[Visited(x, i)]]]]
      BY <1>1, <1>2, <1>4, <2>5, MarshalList
    <3>2. \A i \in 1 .. Cardinality(Keys(x)) : Marshal[x.e[Visited(x, i)]] \in JsonAt(d - 1)
      BY <2>2, <2>3, <2>5, VisitedIs
    <3>3. \A i \in DOMAIN j.e : j.e[i] \in JsonAt(d - 1)
      BY <3>1, <3>2
    <3> QED
      BY <2>1, <3>3 DEF IsText
  <2>6. CASE AllWritten(Marshal, x) /\ ~CheckList(x)
    <3>1. j = [t |-> "object",
               e |-> [m \in {Utf8(n) : n \in Names(x)} |->
                        Marshal[x.e[Named(x, Staying(x, m))]]]]
      BY <1>1, <1>2, <1>4, <2>6, MarshalObject
    <3>2. \A m \in {Utf8(n) : n \in Names(x)} :
            Marshal[x.e[Named(x, Staying(x, m))]] \in JsonAt(d - 1)
      BY <2>2, <2>3, NamedIs, StayingIs
    <3>3. \A m \in DOMAIN j.e : j.e[m] \in JsonAt(d - 1)
      BY <3>1, <3>2
    <3> QED
      BY <2>1, <3>3 DEF IsText
  <2> QED
    BY <2>4, <2>5, <2>6
<1> QED
  BY <1>3, <1>4

\* What a text is read as depends only on what the texts one level down are read as.
LEMMA UnmarshalOfAgrees ==
  ASSUME NEW d \in 0 .. MaxDepth, NEW j \in JsonAt(d), NEW g, NEW h,
         d # 0 => \A y \in JsonAt(d - 1) : g[y] = h[y]
  PROVE  UnmarshalOf(g, j) = UnmarshalOf(h, j)
<1>1. IsText(j, d)
  BY TextIs
<1>2. CASE j.t \notin {"object", "array"}
  BY <1>2 DEF UnmarshalOf
<1>3. CASE j.t \in {"object", "array"}
  <2>1. \A n \in DOMAIN j.e : g[j.e[n]] = h[j.e[n]]
    BY <1>1, <1>3 DEF IsText
  <2>2. CASE j.t = "object"
    <3>1. \A k \in {Str(n) : n \in Stored(j.e)} : g[j.e[k.v]] = h[j.e[k.v]]
      BY <2>1, StrNum DEF Stored
    <3>2. [k \in {Str(n) : n \in Stored(j.e)} |-> g[j.e[k.v]]]
            = [k \in {Str(n) : n \in Stored(j.e)} |-> h[j.e[k.v]]]
      BY <3>1
    <3> QED
      BY <2>2, <3>2 DEF UnmarshalOf
  <2>3. CASE j.t = "array"
    <3> DEFINE PlaceOf(k) == CHOOSE i \in Stored(j.e) : Place(i) = k
    <3>1. \A k \in {Place(i) : i \in Stored(j.e)} : PlaceOf(k) \in DOMAIN j.e
      <4>1. \A k \in {Place(i) : i \in Stored(j.e)} : \E i \in Stored(j.e) : Place(i) = k
        OBVIOUS
      <4>2. \A k \in {Place(i) : i \in Stored(j.e)} : PlaceOf(k) \in Stored(j.e)
        BY <4>1, Zenon
      <4> HIDE DEF PlaceOf
      <4> QED
        BY <4>2 DEF Stored
    <3> HIDE DEF PlaceOf
    <3>2. \A k \in {Place(i) : i \in Stored(j.e)} : g[j.e[PlaceOf(k)]] = h[j.e[PlaceOf(k)]]
      BY <2>1, <3>1
    <3>3. [k \in {Place(i) : i \in Stored(j.e)} |-> g[j.e[PlaceOf(k)]]]
            = [k \in {Place(i) : i \in Stored(j.e)} |-> h[j.e[PlaceOf(k)]]]
      BY <3>2
    <3> QED
      BY <2>3, <3>3 DEF UnmarshalOf, PlaceOf
  <2> QED
    BY <1>3, <2>2, <2>3
<1> QED
  BY <1>2, <1>3

\* g is what the texts of values d deep are read as.
UnmarshalsTo(g, d) == \A j \in JsonAt(d) : g[j] = UnmarshalOf(g, j)

\* From what the texts of one level are read as to those of the next.
LEMMA UnmarshalStep ==
  ASSUME NEW d \in 0 .. MaxDepth, NEW g, d # 0 => UnmarshalsTo(g, d - 1)
  PROVE  UnmarshalsTo([j \in Json |-> UnmarshalOf(g, j)], d)
<1> DEFINE h == [j \in Json |-> UnmarshalOf(g, j)]
<1>1. \A j \in Json : h[j] = UnmarshalOf(g, j)
  OBVIOUS
<1> HIDE DEF h
<1>2. JsonAt(d) \subseteq Json
  BY JsonGrows
<1>3. ASSUME d # 0, NEW y \in JsonAt(d - 1)
      PROVE  g[y] = h[y]
  <2>1. d - 1 \in 0 .. MaxDepth
    BY <1>3, JsonAssumption
  <2>2. y \in Json
    BY <2>1, JsonGrows
  <2> QED
    BY <1>1, <1>3, <2>2 DEF UnmarshalsTo
<1>4. ASSUME NEW j \in JsonAt(d)
      PROVE  h[j] = UnmarshalOf(h, j)
  <2>1. UnmarshalOf(g, j) = UnmarshalOf(h, j)
    BY <1>3, UnmarshalOfAgrees
  <2> QED
    BY <1>1, <1>2, <2>1
<1>5. UnmarshalsTo(h, d)
  BY <1>4 DEF UnmarshalsTo
<1> QED
  BY <1>5 DEF h

\* Unmarshal satisfies its definition, for every text.
LEMMA UnmarshalUnfolds ==
  ASSUME NEW x \in Json
  PROVE  Unmarshal[x] = UnmarshalOf(Unmarshal, x)
<1>1. PICK n \in Nat : n = MaxDepth
  BY JsonAssumption
<1> DEFINE Made(g) == [j \in Json |-> UnmarshalOf(g, j)]
           S == {d \in Nat : d <= n => \E g : UnmarshalsTo(g, d)}
<1>2. 0 \in S
  <2>1. 0 \in 0 .. MaxDepth
    BY <1>1
  <2>2. UnmarshalsTo(Made(0), 0)
    BY <2>1, UnmarshalStep
  <2> QED
    BY <2>2
<1>3. ASSUME NEW d \in Nat, d \in S
      PROVE  d + 1 \in S
  <2>1. SUFFICES ASSUME d + 1 <= n
                 PROVE  \E g : UnmarshalsTo(g, d + 1)
    OBVIOUS
  <2>2. PICK g : UnmarshalsTo(g, d)
    BY <1>3, <2>1
  <2>3. d + 1 \in 0 .. MaxDepth /\ d + 1 - 1 = d
    BY <1>1, <2>1
  <2>4. UnmarshalsTo(Made(g), d + 1)
    <3>1. UnmarshalsTo(g, d + 1 - 1)
      BY <2>2, <2>3
    <3> QED
      BY <2>3, <3>1, UnmarshalStep
  <2> QED
    BY <2>4
<1>4. n \in S
  <2> HIDE DEF S
  <2> QED
    BY <1>2, <1>3, SetInduction
<1>5. PICK g : UnmarshalsTo(g, MaxDepth)
  BY <1>1, <1>4
<1> DEFINE f == Made(g)
<1>6. f = Made(f)
  <2>1. \A y \in Json : g[y] = f[y]
    BY <1>5, JsonTop DEF UnmarshalsTo
  <2>2. ASSUME NEW y \in Json
        PROVE  UnmarshalOf(g, y) = UnmarshalOf(f, y)
    <3>1. MaxDepth \in 0 .. MaxDepth /\ y \in JsonAt(MaxDepth)
      BY <1>1, JsonTop
    <3>2. MaxDepth # 0 => \A z \in JsonAt(MaxDepth - 1) : g[z] = f[z]
      <4>1. MaxDepth # 0 => MaxDepth - 1 \in 0 .. MaxDepth
        BY <1>1
      <4> HIDE DEF f
      <4> QED
        BY <2>1, <4>1, JsonGrows
    <3> HIDE DEF f
    <3> QED
      BY <3>1, <3>2, UnmarshalOfAgrees
  <2> QED
    BY <2>2
<1> HIDE DEF f
<1> DEFINE F == Unmarshal
<1>7. F = Made(F)
  BY <1>6, Zenon DEF Unmarshal
<1> HIDE DEF F
<1> DEFINE R == Made(F)
<1>8. R[x] = UnmarshalOf(F, x)
  OBVIOUS
<1> HIDE DEF R
<1>9. F = R
  BY <1>7 DEF R
<1>10. F[x] = UnmarshalOf(F, x)
  BY <1>8, <1>9
<1> QED
  BY <1>10 DEF F

-----------------------------------------------------------------------------
(* The round trip. *)

\* jsonUnmarshal gives back what jsonMarshal was given, for which neither a nil nor an
\* error stands.
ComesBack(x) == Unmarshal[Marshal[x]] = x /\ Marshal[x] # Null /\ Marshal[x] # NoText

\* A table of values that come back is written.
LEMMA TableIsWritten ==
  ASSUME NEW V, NEW x \in Tables(V), \A y \in V : ComesBack(y)
  PROVE  AllWritten(Marshal, x)
<1>1. Keys(x) \in KeySets /\ x.e \in [Keys(x) -> V]
  BY IsTable
<1>2. \A n \in Names(x) : x.e[Named(x, n)] \in V
  BY <1>1, NamedIs
<1> QED
  BY <1>2 DEF AllWritten, Fields, ComesBack

\* A plain atom comes back.
LEMMA AtomComesBack ==
  ASSUME NEW x \in LuaValue, x \in Plain
  PROVE  ComesBack(x)
<1>1. x \in Atom /\ (x.t \in {"num", "bool"} \/ (x.t = "str" /\ Utf8(x.v) = x.v))
  BY DEF Plain
<1>2. x.t = "str" => x = Str(x.v)
  BY <1>1, JsonAssumption
<1>3. Marshal[x] = x
  BY <1>1, <1>2, MarshalAtom
<1>4. x \in Json
  BY <1>3 DEF Json
<1>5. Unmarshal[x] = UnmarshalOf(Unmarshal, x)
  BY <1>4, UnmarshalUnfolds
<1>6. UnmarshalOf(Unmarshal, x) = x
  BY <1>1 DEF UnmarshalOf
<1> QED
  BY <1>1, <1>3, <1>5, <1>6 DEF ComesBack, Null, NoText

\* A sequence of values that come back does, the empty table included.
LEMMA ListComesBack ==
  ASSUME NEW x \in LuaValue, NEW V, x \in Tables(V), \A y \in V : ComesBack(y), IsSequence(x)
  PROVE  ComesBack(x)
<1>1. /\ x = [t |-> "table", e |-> x.e] /\ x.t = "table"
      /\ Keys(x) \in KeySets /\ x.e \in [Keys(x) -> V]
  BY IsTable
<1>2. PICK n \in Nat : n = Cardinality(Keys(x))
  BY <1>1, KeysAre
<1>3. Keys(x) = {Num(i) : i \in 1 .. n}
  BY <1>2 DEF IsSequence
<1>4. CheckList(x)
  BY <1>3, StrNum DEF CheckList, Keys
<1>5. \A i \in 1 .. n : Visited(x, i) = Num(i)
  BY <1>1, <1>2, VisitedInOrder
<1> DEFINE a == [i \in 1 .. n |-> Marshal[x.e[Num(i)]]]
           j == [t |-> "array", e |-> a]
<1>6. Marshal[x] = j
  <2>1. a = [i \in 1 .. n |-> Marshal[x.e[Visited(x, i)]]]
    BY <1>5
  <2> HIDE DEF a
  <2> QED
    BY <1>1, <1>2, <1>4, <2>1, MarshalList, TableIsWritten
<1>7. \A i \in 1 .. n : ComesBack(x.e[Num(i)])
  BY <1>1, <1>3
<1>8. Stored(a) = 1 .. n
  BY <1>7 DEF ComesBack, Stored
<1> DEFINE At(k) == CHOOSE i \in Stored(a) : Place(i) = k
           b == [k \in {Place(i) : i \in Stored(a)} |-> Unmarshal[a[At(k)]]]
<1>9. b = x.e
  <2>1. {Place(i) : i \in Stored(a)} = Keys(x)
    <3> HIDE DEF a
    <3> QED
      BY <1>3, <1>8 DEF Place
  <2>2. \A i \in 1 .. n : At(Num(i)) = i
    <3>1. \A i, l \in 1 .. n : Num(i) = Num(l) => i = l
      BY StrNum
    <3> HIDE DEF a
    <3>2. \A i \in 1 .. n : i \in Stored(a) /\ Place(i) = Num(i)
      BY <1>8 DEF Place
    <3>3. \A i \in 1 .. n : At(Num(i)) \in Stored(a) /\ Place(At(Num(i))) = Num(i)
      BY <3>2, Zenon
    <3> HIDE DEF At
    <3>4. \A i \in 1 .. n : At(Num(i)) \in 1 .. n /\ Num(At(Num(i))) = Num(i)
      BY <1>8, <3>3 DEF Place
    <3> QED
      BY <3>1, <3>4
  <2>3. \A i \in 1 .. n : Unmarshal[a[At(Num(i))]] = x.e[Num(i)]
    <3>1. \A i \in 1 .. n : a[i] = Marshal[x.e[Num(i)]]
      OBVIOUS
    <3> HIDE DEF a, At
    <3> QED
      BY <1>7, <2>2, <3>1 DEF ComesBack
  <2>4. \A k \in Keys(x) : Unmarshal[a[At(k)]] = x.e[k]
    <3> HIDE DEF a, At
    <3> QED
      BY <1>3, <2>3
  <2>5. b = [k \in Keys(x) |-> Unmarshal[a[At(k)]]]
    <3> HIDE DEF a, At
    <3> QED
      BY <2>1
  <2> HIDE DEF a, At, b
  <2> QED
    BY <1>1, <2>4, <2>5
<1>10. j \in Json
  <2> HIDE DEF j
  <2> QED
    BY <1>6 DEF Json
<1>11. Unmarshal[j] = UnmarshalOf(Unmarshal, j)
  <2> HIDE DEF j
  <2> QED
    BY <1>10, UnmarshalUnfolds
<1>12. UnmarshalOf(Unmarshal, j) = [t |-> "table", e |-> b]
  <2> HIDE DEF a
  <2> QED
    BY DEF UnmarshalOf
<1>13. j # Null /\ j # NoText
  BY DEF Null, NoText
<1> HIDE DEF j, b
<1>14. Unmarshal[j] = x
  BY <1>1, <1>9, <1>11, <1>12
<1> QED
  BY <1>6, <1>13, <1>14 DEF ComesBack

\* A record of values that come back does.
LEMMA RecordComesBack ==
  ASSUME NEW x \in LuaValue, NEW V, x \in Tables(V), \A y \in V : ComesBack(y),
         IsRecord(x), ~CheckList(x)
  PROVE  ComesBack(x)
<1>1. /\ x = [t |-> "table", e |-> x.e] /\ x.t = "table"
      /\ Keys(x) \in KeySets /\ x.e \in [Keys(x) -> V]
  BY IsTable
<1>2. \A k \in Keys(x) : k = Str(k.v) /\ Named(x, k.v) = k /\ Utf8(k.v) = k.v
  <2>1. ASSUME NEW k \in Keys(x)
        PROVE  k = Str(k.v)
    <3>1. k.t = "str" /\ Num(k.v).t = "num" /\ "num" # "str"
      BY StrNum DEF IsRecord
    <3>2. k # Num(k.v)
      BY <3>1, Zenon
    <3> QED
      BY <1>1, <3>2, KeysAre
  <2> QED
    BY <2>1 DEF Named, IsRecord
<1> DEFINE N == Names(x)
           a == [n \in N |-> Marshal[x.e[Named(x, n)]]]
           j == [t |-> "object", e |-> a]
<1>3. Marshal[x] = j
  <2>1. \A n \in N : Utf8(n) = n
    BY <1>2 DEF Names
  <2>2. {Utf8(n) : n \in N} = N
    BY <2>1
  <2>3. \A n \in N : Staying(x, n) = n
    BY <2>1, <2>2, StayingIs
  <2>4. [m \in {Utf8(n) : n \in N} |-> Marshal[x.e[Named(x, Staying(x, m))]]] = a
    BY <2>2, <2>3
  <2> HIDE DEF a, N
  <2> QED
    BY <1>1, <2>4, MarshalObject, TableIsWritten DEF N
<1>4. \A n \in N : Named(x, n) \in Keys(x) /\ ComesBack(x.e[Named(x, n)])
  BY <1>1, <1>2 DEF Names
<1>5. Stored(a) = N
  <2> HIDE DEF N
  <2> QED
    BY <1>4 DEF ComesBack, Stored
<1> DEFINE b == [k \in {Str(n) : n \in Stored(a)} |-> Unmarshal[a[k.v]]]
<1>6. b = x.e
  <2>1. {Str(n) : n \in Stored(a)} = Keys(x)
    <3>1. {Str(n) : n \in N} = Keys(x)
      BY <1>2 DEF Names
    <3> HIDE DEF a, N
    <3> QED
      BY <1>5, <3>1
  <2>2. ASSUME NEW k \in Keys(x)
        PROVE  Unmarshal[a[k.v]] = x.e[k]
    <3>1. k.v \in N
      BY DEF Names
    <3>2. a[k.v] = Marshal[x.e[Named(x, k.v)]]
      BY <3>1
    <3>3. a[k.v] = Marshal[x.e[k]]
      BY <1>2, <3>2
    <3>4. ComesBack(x.e[k])
      BY <1>1
    <3> QED
      BY <3>3, <3>4 DEF ComesBack
  <2>3. b = [k \in Keys(x) |-> Unmarshal[a[k.v]]]
    <3> HIDE DEF a
    <3> QED
      BY <2>1
  <2> HIDE DEF a, b
  <2> QED
    BY <1>1, <2>2, <2>3
<1>7. j \in Json
  <2> HIDE DEF j
  <2> QED
    BY <1>3 DEF Json
<1>8. Unmarshal[j] = UnmarshalOf(Unmarshal, j)
  <2> HIDE DEF j
  <2> QED
    BY <1>7, UnmarshalUnfolds
<1>9. UnmarshalOf(Unmarshal, j) = [t |-> "table", e |-> b]
  <2> HIDE DEF a
  <2> QED
    BY DEF UnmarshalOf
<1>10. j # Null /\ j # NoText
  BY DEF Null, NoText
<1> HIDE DEF j, b
<1>11. Unmarshal[j] = x
  BY <1>1, <1>6, <1>8, <1>9
<1> QED
  BY <1>3, <1>10, <1>11 DEF ComesBack

\* All that can be put as JSON comes back, however deep.
LEMMA FormsComeBack == \A x \in JsonForm : ComesBack(x)
<1>1. PICK n \in Nat : n = MaxDepth
  BY JsonAssumption
<1> DEFINE S == {d \in Nat : d <= n => \A x \in Forms[d] : ComesBack(x)}
<1>2. ASSUME NEW d \in 0 .. MaxDepth, NEW x \in Forms[d],
             d # 0 => \A y \in Forms[d - 1] : ComesBack(y)
      PROVE  ComesBack(x)
  <2>1. x \in LuaValue
    BY FormsAreValues, ValuesGrow
  <2>2. CASE x \in Plain
    BY <2>1, <2>2, AtomComesBack
  <2>3. CASE x \notin Plain
    <3>1. d # 0 /\ x \in Tables(Forms[d - 1]) /\ (IsRecord(x) \/ IsSequence(x))
      BY <2>3, FormIs
    <3>2. PICK V : V = Forms[d - 1]
      OBVIOUS
    <3>3. x \in Tables(V) /\ \A y \in V : ComesBack(y)
      BY <1>2, <3>1, <3>2
    <3>4. CASE IsSequence(x)
      BY <2>1, <3>3, <3>4, ListComesBack
    <3>5. CASE IsRecord(x) /\ ~CheckList(x)
      BY <2>1, <3>3, <3>5, RecordComesBack
    <3>6. CASE IsRecord(x) /\ CheckList(x)
      <4>1. Keys(x) = {}
        <5>1. \A k \in Keys(x) : k.t = "str" /\ k.t = "num"
          BY <3>6 DEF IsRecord, CheckList, Keys
        <5> QED
          BY <5>1
      <4>2. Cardinality(Keys(x)) = 0
        BY <4>1, FS_EmptySet
      <4>3. IsSequence(x)
        BY <4>1, <4>2 DEF IsSequence
      <4> QED
        BY <2>1, <3>3, <4>3, ListComesBack
    <3> QED
      BY <3>1, <3>4, <3>5, <3>6
  <2> QED
    BY <2>2, <2>3
<1>3. 0 \in S
  <2>1. 0 \in 0 .. MaxDepth
    BY <1>1
  <2> QED
    BY <1>2, <2>1
<1>4. ASSUME NEW d \in Nat, d \in S, d + 1 <= n
      PROVE  \A x \in Forms[d + 1] : ComesBack(x)
  <2>1. PICK c \in 0 .. MaxDepth : c = d + 1 /\ c - 1 = d /\ d <= n
    BY <1>1, <1>4
  <2>2. \A y \in Forms[c - 1] : ComesBack(y)
    BY <1>4, <2>1
  <2>3. \A x \in Forms[c] : ComesBack(x)
    BY <1>2, <2>2
  <2> QED
    BY <2>1, <2>3
<1>5. n \in S
  <2>1. \A d \in Nat : d \in S => d + 1 \in S
    <3> SUFFICES ASSUME NEW d \in Nat, d \in S, d + 1 <= n
                 PROVE  d + 1 \in S
      OBVIOUS
    <3> QED
      BY <1>4
  <2> HIDE DEF S
  <2> QED
    BY <1>3, <2>1, SetInduction
<1> QED
  BY <1>1, <1>5 DEF JsonForm

-----------------------------------------------------------------------------
(* Which values are written. *)

\* A finite value: an atom but no NaN or Inf, or a table of finite values one level down.
LEMMA FiniteIs ==
  ASSUME NEW d \in 0 .. MaxDepth, NEW x \in Finite[d]
  PROVE  \/ x \in Atom /\ x.t # "nonfinite"
         \/ d # 0 /\ d - 1 \in 0 .. MaxDepth /\ x \in Tables(Finite[d - 1])
<1> DEFINE A == {a \in Atom : a.t # "nonfinite"}
<1>1. Finite[d] = IF d = 0 THEN A ELSE A \cup Tables(Finite[d - 1])
  BY NestedUnfold DEF Finite
<1>2. d # 0 => d - 1 \in 0 .. MaxDepth
  BY JsonAssumption
<1> QED
  BY <1>1, <1>2

\* A finite value is a value, and json.Marshal writes it.
LEMMA FiniteIsWritten == \A x \in FiniteValue : x \in LuaValue /\ Marshal[x] # NoText
<1>1. PICK n \in Nat : n = MaxDepth
  BY JsonAssumption
<1> DEFINE S == {d \in Nat : d <= n => \A x \in Finite[d] : x \in Values[d] /\ Marshal[x] # NoText}
<1>2. ASSUME NEW d \in 0 .. MaxDepth, NEW x \in Finite[d],
             d # 0 => \A y \in Finite[d - 1] : y \in Values[d - 1] /\ Marshal[y] # NoText
      PROVE  x \in Values[d] /\ Marshal[x] # NoText
  <2>1. Values[d] = IF d = 0 THEN Atom ELSE Atom \cup Tables(Values[d - 1])
    BY ValuesUnfold
  <2>2. CASE x \in Atom /\ x.t # "nonfinite"
    <3>1. x \in Values[d]
      BY <2>1, <2>2
    <3>2. x \in LuaValue
      BY <3>1, ValuesGrow
    <3> QED
      BY <2>2, <3>1, <3>2, MarshalAtom
  <2>3. CASE d # 0 /\ d - 1 \in 0 .. MaxDepth /\ x \in Tables(Finite[d - 1])
    <3>1. PICK V : V = Finite[d - 1]
      OBVIOUS
    <3>2. V \subseteq Values[d - 1] /\ \A y \in V : Marshal[y] # NoText
      BY <1>2, <2>3, <3>1
    <3>3. x \in Values[d]
      BY <2>1, <2>3, <3>1, <3>2, TablesGrow
    <3>4. x \in LuaValue
      BY <3>3, ValuesGrow
    <3>5. x.t = "table" /\ Keys(x) \in KeySets /\ x.e \in [Keys(x) -> V]
      BY <2>3, <3>1, IsTable
    <3>6. AllWritten(Marshal, x)
      <4>1. \A m \in Names(x) : x.e[Named(x, m)] \in V
        BY <3>5, NamedIs
      <4> QED
        BY <3>2, <4>1 DEF AllWritten, Fields
    <3>7. Marshal[x].t \in {"array", "object"}
      <4>1. CASE CheckList(x)
        <5>1. \E a : Marshal[x] = [t |-> "array", e |-> a]
          BY <3>4, <3>5, <3>6, <4>1, MarshalList, Zenon
        <5> QED
          BY <5>1
      <4>2. CASE ~CheckList(x)
        <5>1. \E a : Marshal[x] = [t |-> "object", e |-> a]
          BY <3>4, <3>5, <3>6, <4>2, MarshalObject, Zenon
        <5> QED
          BY <5>1
      <4> QED
        BY <4>1, <4>2
    <3> QED
      BY <3>3, <3>7 DEF NoText
  <2> QED
    BY <2>2, <2>3, FiniteIs
<1>3. 0 \in S
  <2>1. 0 \in 0 .. MaxDepth
    BY <1>1
  <2> QED
    BY <1>2, <2>1
<1>4. ASSUME NEW d \in Nat, d \in S, d + 1 <= n
      PROVE  \A x \in Finite[d + 1] : x \in Values[d + 1] /\ Marshal[x] # NoText
  <2>1. PICK c \in 0 .. MaxDepth : c = d + 1 /\ c - 1 = d /\ d <= n
    BY <1>1, <1>4
  <2>2. \A y \in Finite[c - 1] : y \in Values[c - 1] /\ Marshal[y] # NoText
    BY <1>4, <2>1
  <2>3. \A x \in Finite[c] : x \in Values[c] /\ Marshal[x] # NoText
    BY <1>2, <2>2
  <2> QED
    BY <2>1, <2>3
<1>5. n \in S
  <2>1. \A d \in Nat : d \in S => d + 1 \in S
    <3> SUFFICES ASSUME NEW d \in Nat, d \in S, d + 1 <= n
                 PROVE  d + 1 \in S
      OBVIOUS
    <3> QED
      BY <1>4
  <2> HIDE DEF S
  <2> QED
    BY <1>3, <2>1, SetInduction
<1> QED
  BY <1>1, <1>5 DEF FiniteValue, LuaValue

-----------------------------------------------------------------------------
(* The JSON functions. *)

\* How far the script is, and what it has by then.
NothingWritten == json = None /\ back = None /\ ~errMsg
\* jsonMarshal has returned, or raised an error.
WrittenOnly ==
  /\ (arg = None /\ json = Raised) \/ (arg \in Input /\ json = Marshal[arg])
  /\ back = None /\ ~errMsg
\* jsonUnmarshal has returned too.
ReadBack ==
  /\ arg \in Input /\ json = Marshal[arg]
  /\ \/ json.t = "object" /\ back = Unmarshal[json] /\ ~errMsg
     \/ json.t # "object" /\ back = EmptyTable /\ errMsg

\* What the script holds is what the two functions make of the table it passed.
JsonInv == arg \in Input \cup {None} /\ (NothingWritten \/ WrittenOnly \/ ReadBack)

\* A list is written as an array, any other table as an object, unless it has a number
\* in it that is not finite.
LEMMA InputText ==
  ASSUME NEW x \in Input
  PROVE  /\ x \in LuaValue
         /\ Marshal[x] = NoText \/ Marshal[x].t = IF CheckList(x) THEN "array" ELSE "object"
<1>1. x \in LuaValue /\ x.t = "table"
  BY InputIs, IsTable
<1>2. CASE ~AllWritten(Marshal, x)
  BY <1>1, <1>2, MarshalNone
<1>3. CASE AllWritten(Marshal, x) /\ CheckList(x)
  <2>1. \E a : Marshal[x] = [t |-> "array", e |-> a]
    BY <1>1, <1>3, MarshalList, Zenon
  <2> QED
    BY <1>1, <1>3, <2>1
<1>4. CASE AllWritten(Marshal, x) /\ ~CheckList(x)
  <2>1. \E a : Marshal[x] = [t |-> "object", e |-> a]
    BY <1>1, <1>4, MarshalObject, Zenon
  <2> QED
    BY <1>1, <1>4, <2>1
<1> QED
  BY <1>2, <1>3, <1>4

\* A call keeps the invariant.
LEMMA JsonStep ==
  ASSUME JsonInv, [JsonNext]_jsonVars
  PROVE  JsonInv'
<1>1. CASE UNCHANGED jsonVars
  BY <1>1 DEF JsonInv, NothingWritten, WrittenOnly, ReadBack, jsonVars
<1>2. CASE JsonMarshal
  <2>1. NothingWritten
    <3>1. json = None
      BY <1>2 DEF JsonMarshal
    <3>2. \A x \in Input : Marshal[x].t # "none"
      BY InputText DEF NoText
    <3> QED
      BY <3>1, <3>2 DEF JsonInv, WrittenOnly, ReadBack, None, Raised
  <2>2. WrittenOnly'
    BY <1>2, <2>1 DEF JsonMarshal, JsonInv, NothingWritten, WrittenOnly
  <2> QED
    BY <1>2, <2>2 DEF JsonMarshal, JsonInv
<1>3. CASE JsonUnmarshal
  <2>1. arg \in Input /\ json = Marshal[arg]
    BY <1>3 DEF JsonUnmarshal, JsonInv, NothingWritten, WrittenOnly, ReadBack
  <2>2. ReadBack'
    BY <1>3, <2>1 DEF JsonUnmarshal, ReadBack
  <2> QED
    BY <1>3, <2>1, <2>2 DEF JsonUnmarshal, JsonInv
<1> QED
  BY <1>1, <1>2, <1>3 DEF JsonNext

\* Inductive invariant of the JSON functions.
THEOREM JsonInductive == TextsSpec => []JsonInv
<1>1. TextsInit => JsonInv
  BY DEF TextsInit, JsonInit, NoJson, JsonInv, NothingWritten
<1>2. JsonInv /\ [TextsNext]_textsVars => JsonInv'
  <2> SUFFICES ASSUME JsonInv, [TextsNext]_textsVars
               PROVE  JsonInv'
    OBVIOUS
  <2>1. [JsonNext]_jsonVars
    BY DEF TextsNext, textsVars
  <2> QED
    BY <2>1, JsonStep
<1> QED
  BY <1>1, <1>2, PTL DEF TextsSpec

\* OnlyListsRefused, for tables of any size and depth.
THEOREM ListsRefused == TextsSpec => []OnlyListsRefused
<1>1. JsonInv => OnlyListsRefused
  <2> SUFFICES ASSUME JsonInv, errMsg, arg \in FiniteValue
               PROVE  \A k \in Keys(arg) : k.t = "num"
    BY DEF OnlyListsRefused
  <2>1. arg \in Input /\ Marshal[arg].t # "object"
    BY DEF JsonInv, NothingWritten, WrittenOnly, ReadBack
  <2>2. CheckList(arg)
    BY <2>1, InputText, FiniteIsWritten
  <2> QED
    BY <2>2 DEF CheckList, Keys
<1> QED
  BY <1>1, JsonInductive, PTL

\* RoundTrip, for tables of any size and depth.
THEOREM RoundTrips == TextsSpec => []RoundTrip
<1>1. JsonInv => RoundTrip
  <2> SUFFICES ASSUME JsonInv, back # None, arg \in JsonForm, IsRecord(arg), Keys(arg) # {}
               PROVE  back = arg /\ ~errMsg
    BY DEF RoundTrip
  <2>1. ReadBack
    BY DEF JsonInv, NothingWritten, WrittenOnly
  <2>2. ~CheckList(arg)
    <3>1. PICK k \in Keys(arg) : k.t = "str"
      BY DEF IsRecord
    <3> QED
      BY <3>1 DEF CheckList, Keys
  <2>3. Unmarshal[Marshal[arg]] = arg /\ Marshal[arg] # NoText
    BY FormsComeBack DEF ComesBack
  <2>4. json.t = "object"
    BY <2>1, <2>2, <2>3, InputText DEF ReadBack
  <2> QED
    BY <2>1, <2>3, <2>4 DEF ReadBack
<1> QED
  BY <1>1, JsonInductive, PTL

-----------------------------------------------------------------------------
(* The log file and its clients. *)

Flags ==
  /\ initDue \in BOOLEAN /\ tooLate \in BOOLEAN
  /\ dir \in BOOLEAN /\ file \in BOOLEAN /\ foreign \in BOOLEAN

Places ==
  /\ entity \in Entity
  /\ pc \in {"queued", "mkdata", "mklog", "running", "ending", "returned"}
  /\ lines \in 0 .. MaxLines
  /\ file => dir
  /\ dpc \in {"none", "load", "remove", "forget", "done"}
  /\ rpc \in [Reader -> {"idle", "load", "stat", "read"}]
  /\ found \in [Reader -> Entity]
  /\ seen \in [Reader -> Seq(Answer)]

\* How far Run is tells whether it has logged anything, and so whether there is a file.
FileKnown ==
  /\ pc \in {"queued", "mkdata", "mklog"} => lines = 0
  /\ pc \in {"running", "ending"} => lines > 0
  /\ dpc = "none" =>
       /\ lines > 0 => file
       /\ pc = "mklog" => dir

EntryKnown ==
  /\ dpc = "none" =>
       /\ ~initDue => entity # "none"
       /\ pc \in {"ending", "returned"} /\ lines > 0 /\ ~tooLate => entity = "run"

\* What a request has found is still there, and what a client has seen still holds.
ReadKnown(r) ==
  dpc = "none" =>
    /\ rpc[r] # "idle" => ~initDue
    /\ rpc[r] \in {"stat", "read"} /\ found[r] = "run" => entity = "run"
    /\ rpc[r] = "read" /\ found[r] = "run" => file
    /\ \A i \in DOMAIN seen[r] : seen[r][i].is = "lines" =>
         /\ seen[r][i].n <= lines
         /\ ~initDue /\ entity = "run" /\ file
         /\ rpc[r] \in {"stat", "read"} => found[r] = "run"

Grows(r) ==
  dpc = "none" =>
    \A i, j \in DOMAIN seen[r] :
      i < j /\ seen[r][i].is = "lines" =>
        seen[r][j].is = "lines" /\ seen[r][j].n >= seen[r][i].n

IInv ==
  /\ Flags /\ Places /\ FileKnown /\ EntryKnown
  /\ \A r \in Reader : ReadKnown(r) /\ Grows(r)

USE JobLogAssumption DEF vars, runVars, fileVars, readVars, initVars, Entity, Only, Lines

LEMMA InitIInv == Init => IInv
<1> SUFFICES ASSUME Init PROVE IInv
  OBVIOUS
<1>1. Flags
  BY Zenon DEF Init, Flags
<1>2. Places /\ FileKnown /\ EntryKnown
  BY DEF Init, Places, FileKnown, EntryKnown
<1>3. ASSUME NEW r \in Reader PROVE ReadKnown(r) /\ Grows(r)
  BY DEF Init, ReadKnown, Grows
<1> QED BY <1>1, <1>2, <1>3 DEF IInv

-----------------------------------------------------------------------------
(* One of the build's or the delete's steps. *)

BuildStep ==
  \/ InitPipeline \/ BeginRun \/ MakeDataDir \/ CreateLog \/ LogLine \/ StoreEntity
  \/ EndRun \/ DeleteBuild \/ LoadToDelete \/ RemoveDir \/ Forget

ReaderStep(r) == GetBuildLog(r) \/ Load(r) \/ Stat(r) \/ ReadFile(r)

LEMMA FlagsStep == IInv /\ [Next]_vars => Flags'
<1> SUFFICES ASSUME IInv, [Next]_vars PROVE Flags'
  OBVIOUS
<1> USE DEF Next, InitPipeline, BeginRun, MakeDataDir, CreateLog, LogLine, StoreEntity,
            EndRun, DeleteBuild, LoadToDelete, RemoveDir, Forget, GetBuildLog, Load, Stat,
            ReadFile, Answers
<1>1. initDue' = initDue \/ initDue' = FALSE
  OBVIOUS
<1>2. tooLate' = tooLate \/ tooLate' = (pc \in {"ending", "returned"})
  OBVIOUS
<1>3. dir' = dir \/ dir' = TRUE \/ dir' = FALSE
  OBVIOUS
<1>4. file' = file \/ file' = TRUE \/ file' = FALSE
  OBVIOUS
<1>5. foreign' = foreign
  OBVIOUS
<1> HIDE DEF Next, InitPipeline, BeginRun, MakeDataDir, CreateLog, LogLine, StoreEntity,
            EndRun, DeleteBuild, LoadToDelete, RemoveDir, Forget, GetBuildLog, Load, Stat,
            ReadFile, Answers
<1>6. tooLate' \in BOOLEAN
  <2>1. (pc \in {"ending", "returned"}) \in BOOLEAN
    OBVIOUS
  <2> QED BY <1>2, <2>1, Zenon DEF IInv, Flags
<1>7. initDue' \in BOOLEAN /\ dir' \in BOOLEAN /\ file' \in BOOLEAN /\ foreign' \in BOOLEAN
  BY <1>1, <1>3, <1>4, <1>5, Zenon DEF IInv, Flags
<1> QED BY <1>6, <1>7, Zenon DEF Flags

LEMMA BuildStepKeeps ==
  ASSUME IInv, BuildStep
  PROVE  /\ Places' /\ FileKnown' /\ EntryKnown'
         /\ \A r \in Reader : ReadKnown(r)' /\ Grows(r)'
<1> USE DEF IInv
<1>1. UNCHANGED <<rpc, found, seen>>
  BY DEF BuildStep, InitPipeline, BeginRun, MakeDataDir, CreateLog, LogLine,
     StoreEntity, EndRun, DeleteBuild, LoadToDelete, RemoveDir, Forget
<1>2. Places'
  <2>1. CASE InitPipeline BY <1>1, <2>1 DEF InitPipeline, Places, FileKnown
  <2>2. CASE BeginRun BY <1>1, <2>2 DEF BeginRun, Places, FileKnown
  <2>3. CASE MakeDataDir BY <1>1, <2>3 DEF MakeDataDir, Places, FileKnown
  <2>4. CASE CreateLog BY <1>1, <2>4 DEF CreateLog, Places, FileKnown
  <2>5. CASE LogLine BY <1>1, <2>5 DEF LogLine, Places, FileKnown
  <2>6. CASE StoreEntity BY <1>1, <2>6 DEF StoreEntity, Places, FileKnown
  <2>7. CASE EndRun BY <1>1, <2>7 DEF EndRun, Places, FileKnown
  <2>8. CASE DeleteBuild BY <1>1, <2>8 DEF DeleteBuild, Places, FileKnown
  <2>9. CASE LoadToDelete BY <1>1, <2>9 DEF LoadToDelete, Places, FileKnown
  <2>10. CASE RemoveDir BY <1>1, <2>10 DEF RemoveDir, Places, FileKnown
  <2>11. CASE Forget BY <1>1, <2>11 DEF Forget, Places, FileKnown
  <2> QED BY <2>1, <2>2, <2>3, <2>4, <2>5, <2>6, <2>7, <2>8, <2>9, <2>10, <2>11
       DEF BuildStep
<1>3. FileKnown' /\ EntryKnown'
  <2>1. CASE InitPipeline BY <2>1 DEF InitPipeline, Places, FileKnown, EntryKnown
  <2>2. CASE BeginRun BY <2>2 DEF BeginRun, Places, FileKnown, EntryKnown
  <2>3. CASE MakeDataDir BY <2>3 DEF MakeDataDir, Places, FileKnown, EntryKnown
  <2>4. CASE CreateLog BY <2>4 DEF CreateLog, Places, FileKnown, EntryKnown
  <2>5. CASE LogLine BY <2>5 DEF LogLine, Places, FileKnown, EntryKnown
  <2>6. CASE StoreEntity BY <2>6 DEF StoreEntity, Places, FileKnown, EntryKnown
  <2>7. CASE EndRun BY <2>7 DEF EndRun, Places, FileKnown, EntryKnown
  <2>8. CASE DeleteBuild BY <2>8 DEF DeleteBuild, Places, FileKnown, EntryKnown
  <2>9. CASE LoadToDelete BY <2>9 DEF LoadToDelete, Places, FileKnown, EntryKnown
  <2>10. CASE RemoveDir BY <2>10 DEF RemoveDir, Places, FileKnown, EntryKnown
  <2>11. CASE Forget BY <2>11 DEF Forget, Places, FileKnown, EntryKnown
  <2> QED BY <2>1, <2>2, <2>3, <2>4, <2>5, <2>6, <2>7, <2>8, <2>9, <2>10, <2>11
       DEF BuildStep
<1>4. dpc' = "none" =>
        /\ dpc = "none" /\ lines' >= lines /\ (file => file')
        /\ ~initDue => ~initDue' /\ (entity = "run" => entity' = "run")
  <2>1. CASE InitPipeline BY <2>1 DEF InitPipeline, Places
  <2>2. CASE BeginRun BY <2>2 DEF BeginRun, Places
  <2>3. CASE MakeDataDir BY <2>3 DEF MakeDataDir, Places
  <2>4. CASE CreateLog BY <2>4 DEF CreateLog, Places
  <2>5. CASE LogLine BY <2>5 DEF LogLine, Places
  <2>6. CASE StoreEntity BY <2>6 DEF StoreEntity, Places
  <2>7. CASE EndRun BY <2>7 DEF EndRun, Places
  <2>8. CASE DeleteBuild BY <2>8 DEF DeleteBuild, Places
  <2>9. CASE LoadToDelete BY <2>9 DEF LoadToDelete, Places
  <2>10. CASE RemoveDir BY <2>10 DEF RemoveDir, Places
  <2>11. CASE Forget BY <2>11 DEF Forget, Places
  <2> QED BY <2>1, <2>2, <2>3, <2>4, <2>5, <2>6, <2>7, <2>8, <2>9, <2>10, <2>11
       DEF BuildStep
<1>5. ASSUME NEW r \in Reader PROVE ReadKnown(r)' /\ Grows(r)'
  <2>1. CASE dpc' # "none"
    BY <2>1 DEF ReadKnown, Grows
  <2>2. CASE dpc' = "none"
    <3>1. Grows(r)'
      BY <1>1, <1>4, <2>2 DEF Grows
    <3>2. ReadKnown(r)'
      <4>1. \A i \in DOMAIN seen[r] : seen[r][i].is = "lines" => seen[r][i].n \in Nat
        BY DEF Places, Answer
      <4>2. lines \in Nat /\ lines' \in Nat
        BY <1>2 DEF Places
      <4> QED BY <1>1, <1>4, <2>2, <4>1, <4>2 DEF ReadKnown
    <3> QED BY <3>1, <3>2
  <2> QED BY <2>1, <2>2
<1> QED BY <1>2, <1>3, <1>5

-----------------------------------------------------------------------------
\* An answer that is none of the build's lines comes only to clients who have seen none.
LEMMA AnswerKeeps ==
  ASSUME IInv, NEW r \in Reader, NEW a \in Answer, Answers(r, a),
         UNCHANGED <<initVars, entity, runVars, fileVars, dpc>>,
         found' \in [Reader -> Entity], \A q \in Reader \ {r} : found'[q] = found[q],
         a.is = "lines" => a.n = lines,
         dpc = "none" /\ (\E i \in DOMAIN seen[r] : seen[r][i].is = "lines") => a.is = "lines",
         dpc = "none" /\ a.is = "lines" => ~initDue /\ entity = "run" /\ file
  PROVE  /\ Places' /\ FileKnown' /\ EntryKnown'
         /\ \A q \in Reader : ReadKnown(q)' /\ Grows(q)'
<1> USE DEF IInv
<1>1. /\ rpc' = [rpc EXCEPT ![r] = "idle"]
      /\ seen' = [seen EXCEPT ![r] = Append(seen[r], a)]
      /\ seen[r] \in Seq(Answer)
  BY DEF Answers, Places
<1>2. Places'
  BY <1>1 DEF Places
<1>3. FileKnown' /\ EntryKnown'
  BY DEF FileKnown, EntryKnown
<1>4. ASSUME NEW q \in Reader, q # r PROVE ReadKnown(q)' /\ Grows(q)'
  <2>1. rpc'[q] = rpc[q] /\ seen'[q] = seen[q] /\ found'[q] = found[q]
    BY <1>1, <1>4 DEF Places
  <2>2. ReadKnown(q) /\ Grows(q)
    OBVIOUS
  <2> QED BY <2>1, <2>2 DEF ReadKnown, Grows
<1>5. seen'[r] = Append(seen[r], a) /\ rpc'[r] = "idle"
  BY <1>1 DEF Places
<1>6. \A i \in DOMAIN seen'[r] :
        \/ i = Len(seen[r]) + 1 /\ seen'[r][i] = a
        \/ i \in DOMAIN seen[r] /\ seen'[r][i] = seen[r][i]
  BY <1>1, <1>5
<1>7. ReadKnown(r)'
  <2>1. ReadKnown(r) /\ lines \in Nat
    BY DEF Places
  <2> QED BY <1>5, <1>6, <2>1 DEF ReadKnown
<1>8. Grows(r)'
  <2> SUFFICES ASSUME dpc = "none", NEW i \in DOMAIN seen'[r], NEW j \in DOMAIN seen'[r],
                      i < j, seen'[r][i].is = "lines"
               PROVE  seen'[r][j].is = "lines" /\ seen'[r][j].n >= seen'[r][i].n
    BY DEF Grows
  <2>1. i \in DOMAIN seen[r] /\ seen'[r][i] = seen[r][i]
    BY <1>1, <1>5
  <2>2. CASE j \in DOMAIN seen[r]
    <3>1. seen'[r][j] = seen[r][j]
      BY <1>1, <1>5, <2>2
    <3> QED BY <2>1, <2>2, <3>1 DEF Grows
  <2>3. CASE j = Len(seen[r]) + 1
    <3>1. seen'[r][j] = a /\ a.is = "lines" /\ a.n = lines
      BY <1>1, <1>5, <2>1, <2>3
    <3>2. seen[r][i].n <= lines
      BY <2>1 DEF ReadKnown
    <3>3. seen[r][i].n \in Nat /\ lines \in Nat
      BY <1>1, <2>1 DEF Answer, Places
    <3> QED BY <2>1, <3>1, <3>2, <3>3
  <2> QED BY <1>6, <2>2, <2>3
<1> QED BY <1>2, <1>3, <1>4, <1>7, <1>8

\* A request goes on without an answer.
LEMMA PlaceKeeps ==
  ASSUME IInv, NEW r \in Reader, NEW l \in {"load", "stat", "read"},
         rpc' = [rpc EXCEPT ![r] = l],
         UNCHANGED <<initVars, entity, runVars, fileVars, dpc, seen>>,
         found' \in [Reader -> Entity], \A q \in Reader \ {r} : found'[q] = found[q],
         dpc = "none" => ~initDue,
         dpc = "none" /\ l \in {"stat", "read"} =>
           /\ found'[r] = "run" => entity = "run"
           /\ (\E i \in DOMAIN seen[r] : seen[r][i].is = "lines") => found'[r] = "run",
         dpc = "none" /\ l = "read" /\ found'[r] = "run" => file
  PROVE  /\ Places' /\ FileKnown' /\ EntryKnown'
         /\ \A q \in Reader : ReadKnown(q)' /\ Grows(q)'
<1> USE DEF IInv
<1>1. Places'
  BY DEF Places
<1>2. FileKnown' /\ EntryKnown'
  BY DEF FileKnown, EntryKnown
<1>3. ASSUME NEW q \in Reader, q # r PROVE ReadKnown(q)' /\ Grows(q)'
  <2>1. rpc'[q] = rpc[q] /\ found'[q] = found[q]
    BY <1>3 DEF Places
  <2>2. ReadKnown(q) /\ Grows(q)
    OBVIOUS
  <2> QED BY <2>1, <2>2 DEF ReadKnown, Grows
<1>4. rpc'[r] = l
  BY DEF Places
<1>5. ReadKnown(r)' /\ Grows(r)'
  BY <1>4 DEF ReadKnown, Grows
<1> QED BY <1>1, <1>2, <1>3, <1>5

LEMMA ReaderStepKeeps ==
  ASSUME IInv, NEW r \in Reader, ReaderStep(r)
  PROVE  /\ Places' /\ FileKnown' /\ EntryKnown'
         /\ \A q \in Reader : ReadKnown(q)' /\ Grows(q)'
<1> USE DEF IInv
<1>1. /\ found \in [Reader -> Entity] /\ rpc \in [Reader -> {"idle", "load", "stat", "read"}]
      /\ entity \in Entity /\ lines \in 0 .. MaxLines
  BY DEF Places
<1>2. Only("error") \in Answer /\ Only("nil") \in Answer /\ Only("foreign") \in Answer
  BY DEF Answer
<1>3. Lines(lines) \in Answer
  BY <1>1 DEF Answer
<1>4. ReadKnown(r) /\ FileKnown /\ EntryKnown
  OBVIOUS
<1>5. CASE GetBuildLog(r)
  BY <1>1, <1>5, PlaceKeeps DEF GetBuildLog
<1>6. CASE Load(r)
  <2>1. found' = [found EXCEPT ![r] = entity] /\ found'[r] = entity
    BY <1>1, <1>6 DEF Load
  <2>2. found' \in [Reader -> Entity] /\ \A q \in Reader \ {r} : found'[q] = found[q]
    BY <1>1, <2>1
  <2>3. CASE entity = "none"
    <3>1. Answers(r, Only("error")) /\ UNCHANGED <<initVars, entity, runVars, fileVars, dpc>>
      BY <1>6, <2>3 DEF Load
    <3>2. dpc # "none"
      BY <1>1, <1>4, <1>6, <2>3 DEF ReadKnown, EntryKnown, Load
    <3> QED BY <1>2, <2>2, <3>1, <3>2, AnswerKeeps
  <2>4. CASE entity # "none"
    BY <1>4, <1>6, <2>1, <2>2, <2>4, PlaceKeeps DEF Load, ReadKnown
  <2> QED BY <2>3, <2>4
<1>7. CASE Stat(r)
  <2>1. UNCHANGED <<initVars, entity, runVars, fileVars, dpc, found>> /\ rpc[r] = "stat"
    BY <1>7 DEF Stat
  <2>2. CASE Exists(r)
    BY <1>1, <1>4, <1>7, <2>1, <2>2, PlaceKeeps DEF Stat, ReadKnown, Exists
  <2>3. CASE ~Exists(r)
    <3>1. Answers(r, Only("nil"))
      BY <1>7, <2>3 DEF Stat
    <3>2. dpc = "none" => ~\E i \in DOMAIN seen[r] : seen[r][i].is = "lines"
      BY <1>4, <2>1, <2>3 DEF ReadKnown, Exists
    <3> QED BY <1>1, <1>2, <2>1, <3>1, <3>2, AnswerKeeps
  <2> QED BY <2>2, <2>3
<1>8. CASE ReadFile(r)
  <2>1. UNCHANGED <<initVars, entity, runVars, fileVars, dpc, found>> /\ rpc[r] = "read"
    BY <1>8 DEF ReadFile
  <2>2. dpc = "none" /\ (\E i \in DOMAIN seen[r] : seen[r][i].is = "lines") =>
          found[r] = "run" /\ file
    BY <1>4, <2>1 DEF ReadKnown
  <2>3. CASE Exists(r) /\ found[r] = "run"
    <3>1. Answers(r, Lines(lines))
      BY <1>8, <2>3 DEF ReadFile
    <3>2. dpc = "none" => ~initDue /\ entity = "run" /\ file
      BY <1>4, <2>1, <2>3 DEF ReadKnown
    <3> QED BY <1>1, <1>3, <2>1, <3>1, <3>2, AnswerKeeps
  <2>4. CASE ~(Exists(r) /\ found[r] = "run")
    <3>1. dpc = "none" => ~\E i \in DOMAIN seen[r] : seen[r][i].is = "lines"
      BY <2>2, <2>4 DEF Exists
    <3>2. Answers(r, Only("error")) \/ Answers(r, Only("foreign"))
      BY <1>8, <2>4 DEF ReadFile
    <3> QED BY <1>1, <1>2, <2>1, <3>1, <3>2, AnswerKeeps
  <2> QED BY <2>3, <2>4
<1> QED BY <1>5, <1>6, <1>7, <1>8 DEF ReaderStep

LEMMA IInvStep == IInv /\ [Next]_vars => IInv'
<1> SUFFICES ASSUME IInv, [Next]_vars PROVE IInv'
  OBVIOUS
<1>1. Flags'
  BY FlagsStep
<1>2. CASE UNCHANGED vars
  BY <1>1, <1>2 DEF IInv, Places, FileKnown, EntryKnown, ReadKnown, Grows
<1>3. CASE BuildStep
  BY <1>1, <1>3, BuildStepKeeps DEF IInv
<1>4. CASE \E r \in Reader : ReaderStep(r)
  BY <1>1, <1>4, ReaderStepKeeps DEF IInv
<1> QED BY <1>2, <1>3, <1>4 DEF Next, BuildStep, ReaderStep

LEMMA Inductive == Spec => []IInv
BY InitIInv, IInvStep, PTL DEF Spec

-----------------------------------------------------------------------------
\* Every variable keeps to its values, and there is no log without its directory.
THEOREM Typing == Spec => []TypeOK
<1>1. IInv => TypeOK
  BY DEF IInv, Flags, Places, TypeOK
<1> QED BY Inductive, <1>1, PTL

\* For any number of clients, requests and lines: unless the build is deleted, a client
\* sees its log grow only (GetPipelineLog).
THEOREM LogGrows == Spec => []LogOnlyGrows
<1>1. IInv => LogOnlyGrows
  BY DEF IInv, Grows, LogOnlyGrows
<1> QED BY Inductive, <1>1, PTL

\* The log of a finished build is found by its entry, unless InitPipeline came too late.
THEOREM LogStays == Spec => []LogIsKept
<1>1. IInv => LogIsKept
  BY DEF IInv, FileKnown, EntryKnown, LogIsKept
<1> QED BY Inductive, <1>1, PTL
=============================================================================
