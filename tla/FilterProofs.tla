----------------------------- MODULE FilterProofs -----------------------------
(* What Filter does to sequences of any length, by induction.  Induction is  *)
(* stated with a set of numbers in place of a predicate.                     *)
EXTENDS Filters, WellFoundedInduction, SequenceTheorems, TLAPS

-----------------------------------------------------------------------------
(* Induction.                                                                *)

LEMMA LeastNatural ==
  ASSUME NEW T \in SUBSET Nat, T # {}
  PROVE  \E n \in T : \A m \in T : n <= m
<1> DEFINE R == {ss \in Nat \X Nat : ss[1] < ss[2]}
<1>1. IsWellFoundedOn(R, Nat)
  BY NatLessThanWellFounded DEF OpToRel
<1>2. PICK n \in T : \A m \in T : <<m, n>> \notin R
  <2> HIDE DEF R
  <2> QED
    BY <1>1, WFMin
<1>3. ASSUME NEW m \in T
      PROVE  n <= m
  <2>1. <<m, n>> \in Nat \X Nat /\ <<m, n>>[1] = m /\ <<m, n>>[2] = n
    OBVIOUS
  <2>2. m < n => <<m, n>> \in R
    BY <2>1
  <2> QED
    BY <1>2, <2>2
<1> QED
  BY <1>3

\* A set of numbers that has 0 and the successors of its members has them all.
LEMMA Induction ==
  ASSUME NEW P \in SUBSET Nat, 0 \in P, \A n \in P : n + 1 \in P
  PROVE  P = Nat
<1> SUFFICES ASSUME Nat \ P # {}
             PROVE  FALSE
  OBVIOUS
<1>1. PICK n \in Nat \ P : \A m \in Nat \ P : n <= m
  BY LeastNatural
<1>2. n # 0 /\ n \in Nat
  BY <1>1
<1>3. n - 1 \in Nat /\ n - 1 \notin Nat \ P /\ (n - 1) + 1 = n
  BY <1>1, <1>2
<1> QED
  BY <1>1, <1>3

\* The same for sequences.
LEMMA SequenceInduction ==
  ASSUME NEW S, NEW P \in SUBSET Seq(S), <<>> \in P,
         \A s \in P, e \in S : Append(s, e) \in P
  PROVE  P = Seq(S)
<1> DEFINE N == {n \in Nat : \A s \in Seq(S) : Len(s) = n => s \in P}
<1>1. 0 \in N
  BY EmptySeq
<1>2. ASSUME NEW n \in N
      PROVE  n + 1 \in N
  <2> SUFFICES ASSUME NEW s \in Seq(S), Len(s) = n + 1
               PROVE  s \in P
    OBVIOUS
  <2>1. s # <<>>
    OBVIOUS
  <2>2. PICK r \in Seq(S), e \in S : s = Append(r, e)
    BY <2>1, SequenceEmptyOrAppend
  <2>3. Len(r) = n
    BY <2>2
  <2> QED
    BY <2>2, <2>3
<1>3. N \in SUBSET Nat
  OBVIOUS
<1> HIDE DEF N
<1>4. N = Nat
  BY <1>1, <1>2, <1>3, Induction
<1>5. \A s \in Seq(S) : Len(s) \in N
  BY <1>4
<1> QED
  BY <1>5 DEF N

-----------------------------------------------------------------------------
(* The recursive function in Filter exists, and what it is at each number.   *)

Kept(s, T, f, i) ==
  IF i = 0 THEN <<>> ELSE IF s[i] \in T THEN Append(f[i - 1], s[i]) ELSE f[i - 1]
Keeps(s, T, f, n) == f = [i \in 0 .. n |-> Kept(s, T, f, i)]

LEMMA KeepsExtends ==
  ASSUME NEW s, NEW T, NEW n \in Nat, NEW f, Keeps(s, T, f, n)
  PROVE  \E g : Keeps(s, T, g, n + 1)
<1> DEFINE g == [i \in 0 .. n + 1 |-> IF i = n + 1 THEN Kept(s, T, f, n + 1) ELSE f[i]]
<1>1. ASSUME NEW i \in 0 .. n + 1
      PROVE  g[i] = Kept(s, T, g, i)
  <2>1. i # 0 => i - 1 \in 0 .. n + 1 /\ i - 1 # n + 1 /\ g[i - 1] = f[i - 1]
    OBVIOUS
  <2>2. Kept(s, T, g, i) = Kept(s, T, f, i)
    BY <2>1 DEF Kept
  <2>3. i # n + 1 => f[i] = Kept(s, T, f, i)
    <3>1. i # n + 1 => i \in 0 .. n
      OBVIOUS
    <3>2. \A k \in 0 .. n : f[k] = [j \in 0 .. n |-> Kept(s, T, f, j)][k]
      BY DEF Keeps
    <3> HIDE DEF g
    <3> QED
      BY <3>1, <3>2
  <2> QED
    BY <2>2, <2>3
<1>2. g = [i \in 0 .. n + 1 |-> g[i]]
  OBVIOUS
<1> HIDE DEF g
<1>3. Keeps(s, T, g, n + 1)
  BY <1>1, <1>2 DEF Keeps
<1> QED
  BY <1>3

LEMMA KeepsExists ==
  ASSUME NEW s, NEW T
  PROVE  \A n \in Nat : \E f : Keeps(s, T, f, n)
<1> DEFINE P == {n \in Nat : \E f : Keeps(s, T, f, n)}
<1>1. 0 \in P
  <2>1. Keeps(s, T, [i \in 0 .. 0 |-> <<>>], 0)
    BY DEF Keeps, Kept
  <2> QED
    BY <2>1
<1>2. \A n \in P : n + 1 \in P
  BY KeepsExtends
<1>3. P \in SUBSET Nat
  OBVIOUS
<1> HIDE DEF P
<1>4. P = Nat
  BY <1>1, <1>2, <1>3, Induction
<1> QED
  BY <1>4 DEF P

LEMMA FilterSteps ==
  ASSUME NEW S, NEW s \in Seq(S), NEW T
  PROVE  \E f : /\ f[0] = <<>>
                /\ \A i \in 1 .. Len(s) :
                     f[i] = IF s[i] \in T THEN Append(f[i - 1], s[i]) ELSE f[i - 1]
                /\ Filter(s, T) = f[Len(s)]
<1> DEFINE f == CHOOSE f : f = [i \in 0 .. Len(s) |-> Kept(s, T, f, i)]
<1>1. Len(s) \in Nat
  OBVIOUS
<1>2. Keeps(s, T, f, Len(s))
  BY <1>1, KeepsExists DEF Keeps
<1>3. Filter(s, T) = f[Len(s)]
  BY DEF Filter, Kept
<1> HIDE DEF f
<1>4. \A i \in 0 .. Len(s) : f[i] = [j \in 0 .. Len(s) |-> Kept(s, T, f, j)][i]
  BY <1>2 DEF Keeps
<1>5. \A i \in 0 .. Len(s) : f[i] = Kept(s, T, f, i)
  BY <1>4
<1> QED
  BY <1>1, <1>3, <1>5 DEF Kept

-----------------------------------------------------------------------------
(* Filter and Append, from which the rest follows.                           *)

LEMMA FilterEmpty ==
  ASSUME NEW T
  PROVE  Filter(<<>>, T) = <<>>
<1>1. PICK f : f[0] = <<>> /\ Filter(<<>>, T) = f[Len(<<>>)]
  <2>1. <<>> \in Seq({})
    OBVIOUS
  <2> QED
    BY <2>1, FilterSteps
<1> QED
  BY <1>1

LEMMA FilterAppend ==
  ASSUME NEW S, NEW s \in Seq(S), NEW e \in S, NEW T
  PROVE  Filter(Append(s, e), T) = IF e \in T THEN Append(Filter(s, T), e) ELSE Filter(s, T)
<1> DEFINE a == Append(s, e)
           n == Len(s)
<1>1. a \in Seq(S) /\ n \in Nat /\ Len(a) = n + 1 /\ a[n + 1] = e /\ \A i \in 1 .. n : a[i] = s[i]
  OBVIOUS
<1>2. PICK f : /\ f[0] = <<>>
               /\ \A i \in 1 .. n : f[i] = IF s[i] \in T THEN Append(f[i - 1], s[i]) ELSE f[i - 1]
               /\ Filter(s, T) = f[n]
  BY FilterSteps
<1>3. PICK g : /\ g[0] = <<>>
               /\ \A i \in 1 .. Len(a) : g[i] = IF a[i] \in T THEN Append(g[i - 1], a[i]) ELSE g[i - 1]
               /\ Filter(a, T) = g[Len(a)]
  <2> HIDE DEF a
  <2> QED
    BY <1>1, FilterSteps
<1> HIDE DEF a, n
<1> DEFINE P == {i \in Nat : i <= n => g[i] = f[i]}
<1>4. 0 \in P
  BY <1>2, <1>3
<1>5. ASSUME NEW i \in P
      PROVE  i + 1 \in P
  <2>1. i \in Nat /\ (i <= n => g[i] = f[i])
    OBVIOUS
  <2> HIDE DEF P
  <2>2. i + 1 <= n => i + 1 \in 1 .. n /\ i + 1 \in 1 .. Len(a) /\ (i + 1) - 1 = i /\ g[i] = f[i]
    BY <1>1, <2>1
  <2>3. i + 1 <= n => g[i + 1] = f[i + 1]
    BY <1>1, <1>2, <1>3, <2>2
  <2> QED
    BY <2>1, <2>3 DEF P
<1>6. P \in SUBSET Nat
  OBVIOUS
<1> HIDE DEF P
<1>7. P = Nat
  BY <1>4, <1>5, <1>6, Induction
<1>8. g[n] = f[n]
  BY <1>1, <1>7 DEF P
<1>9. n + 1 \in 1 .. Len(a) /\ (n + 1) - 1 = n
  BY <1>1
<1>10. Filter(a, T) = IF e \in T THEN Append(g[n], e) ELSE g[n]
  BY <1>1, <1>3, <1>9
<1> QED
  BY <1>2, <1>8, <1>10 DEF a

-----------------------------------------------------------------------------
(* What is kept.                                                             *)

LEMMA FilterIsSeq ==
  ASSUME NEW S, NEW s \in Seq(S), NEW T
  PROVE  Filter(s, T) \in Seq(S \cap T) /\ Len(Filter(s, T)) <= Len(s)
<1> DEFINE P == {r \in Seq(S) : Filter(r, T) \in Seq(S \cap T) /\ Len(Filter(r, T)) <= Len(r)}
<1>1. <<>> \in P
  <2>1. <<>> \in Seq(S) /\ <<>> \in Seq(S \cap T) /\ Len(<<>>) <= Len(<<>>)
    OBVIOUS
  <2> QED
    BY <2>1, FilterEmpty
<1>2. ASSUME NEW r \in P, NEW e \in S
      PROVE  Append(r, e) \in P
  <2>1. r \in Seq(S) /\ Filter(r, T) \in Seq(S \cap T) /\ Len(Filter(r, T)) <= Len(r)
    OBVIOUS
  <2>2. Append(r, e) \in Seq(S) /\ Len(Append(r, e)) = Len(r) + 1
    BY <2>1
  <2>3. Filter(Append(r, e), T) = IF e \in T THEN Append(Filter(r, T), e) ELSE Filter(r, T)
    BY <2>1, FilterAppend
  <2> HIDE DEF P
  <2>4. CASE e \in T
    <3>1. e \in S \cap T
      BY <2>4
    <3>2. /\ Append(Filter(r, T), e) \in Seq(S \cap T)
          /\ Len(Append(Filter(r, T), e)) = Len(Filter(r, T)) + 1
      BY <2>1, <3>1, AppendProperties
    <3>3. Len(r) \in Nat /\ Len(Filter(r, T)) \in Nat
      BY <2>1
    <3>4. Filter(Append(r, e), T) = Append(Filter(r, T), e)
      BY <2>3, <2>4
    <3>5. Len(Filter(Append(r, e), T)) <= Len(Append(r, e))
      BY <2>1, <2>2, <3>2, <3>3, <3>4
    <3> QED
      BY <2>2, <3>2, <3>4, <3>5 DEF P
  <2>5. CASE e \notin T
    <3>1. Len(r) \in Nat /\ Len(Filter(r, T)) \in Nat
      BY <2>1
    <3>2. Len(Filter(Append(r, e), T)) <= Len(Append(r, e))
      BY <2>1, <2>2, <2>3, <2>5, <3>1
    <3> QED
      BY <2>1, <2>2, <2>3, <2>5, <3>2 DEF P
  <2> QED
    BY <2>4, <2>5
<1>3. P \in SUBSET Seq(S)
  OBVIOUS
<1> HIDE DEF P
<1>4. s \in P
  BY <1>1, <1>2, <1>3, SequenceInduction
<1> QED
  BY <1>4 DEF P

\* Nothing is left out of a sequence that is all in the set.
LEMMA FilterAll ==
  ASSUME NEW T, NEW s \in Seq(T)
  PROVE  Filter(s, T) = s
<1> DEFINE P == {r \in Seq(T) : Filter(r, T) = r}
<1>1. <<>> \in P
  BY FilterEmpty
<1>2. ASSUME NEW r \in P, NEW e \in T
      PROVE  Append(r, e) \in P
  <2>1. r \in Seq(T) /\ Filter(r, T) = r
    OBVIOUS
  <2>2. Append(r, e) \in Seq(T)
    BY <2>1
  <2>3. Filter(Append(r, e), T) = Append(r, e)
    BY <2>1, FilterAppend
  <2> QED
    BY <2>2, <2>3
<1>3. P \in SUBSET Seq(T)
  OBVIOUS
<1> HIDE DEF P
<1>4. s \in P
  BY <1>1, <1>2, <1>3, SequenceInduction
<1> QED
  BY <1>4 DEF P

Elements(s) == {s[i] : i \in 1 .. Len(s)}

LEMMA AppendElements ==
  ASSUME NEW S, NEW s \in Seq(S), NEW e \in S
  PROVE  Elements(Append(s, e)) = Elements(s) \cup {e}
<1>1. /\ Len(Append(s, e)) = Len(s) + 1 /\ Append(s, e)[Len(s) + 1] = e /\ Len(s) \in Nat
      /\ \A i \in 1 .. Len(s) : Append(s, e)[i] = s[i]
  OBVIOUS
<1>2. 1 .. Len(s) + 1 = (1 .. Len(s)) \cup {Len(s) + 1}
  BY <1>1
<1>3. Elements(s) \cup {e} \subseteq Elements(Append(s, e))
  BY <1>1, <1>2 DEF Elements
<1>4. Elements(Append(s, e)) \subseteq Elements(s) \cup {e}
  BY <1>1, <1>2 DEF Elements
<1> QED
  BY <1>3, <1>4

LEMMA FilterElements ==
  ASSUME NEW S, NEW s \in Seq(S), NEW T
  PROVE  Elements(Filter(s, T)) = Elements(s) \cap T
<1> DEFINE P == {r \in Seq(S) : Elements(Filter(r, T)) = Elements(r) \cap T}
<1>1. <<>> \in P
  <2>1. Elements(<<>>) = {}
    BY DEF Elements
  <2> QED
    BY <2>1, FilterEmpty
<1>2. ASSUME NEW r \in P, NEW e \in S
      PROVE  Append(r, e) \in P
  <2>1. r \in Seq(S) /\ Elements(Filter(r, T)) = Elements(r) \cap T
    OBVIOUS
  <2>2. Filter(Append(r, e), T) = IF e \in T THEN Append(Filter(r, T), e) ELSE Filter(r, T)
    BY <2>1, FilterAppend
  <2>3. Elements(Append(r, e)) = Elements(r) \cup {e}
    BY <2>1, AppendElements
  <2>4. e \in T => Elements(Append(Filter(r, T), e)) = Elements(Filter(r, T)) \cup {e}
    <3>1. Filter(r, T) \in Seq(S \cap T)
      BY <2>1, FilterIsSeq
    <3> HIDE DEF P
    <3>2. ASSUME e \in T
          PROVE  Elements(Append(Filter(r, T), e)) = Elements(Filter(r, T)) \cup {e}
      <4>1. e \in S \cap T
        BY <3>2
      <4> QED
        BY <3>1, <4>1, AppendElements
    <3> QED
      BY <3>2
  <2>5. Append(r, e) \in Seq(S)
    BY <2>1
  <2> HIDE DEF P
  <2>6. Elements(Filter(Append(r, e), T)) = Elements(Append(r, e)) \cap T
    BY <2>1, <2>2, <2>3, <2>4
  <2> QED
    BY <2>5, <2>6 DEF P
<1>3. P \in SUBSET Seq(S)
  OBVIOUS
<1> HIDE DEF P
<1>4. s \in P
  BY <1>1, <1>2, <1>3, SequenceInduction
<1> QED
  BY <1>4 DEF P

-----------------------------------------------------------------------------
(* Filters of sequences that are put together.                               *)

LEMMA FilterConcat ==
  ASSUME NEW S, NEW s \in Seq(S), NEW t \in Seq(S), NEW T
  PROVE  Filter(s \o t, T) = Filter(s, T) \o Filter(t, T)
<1> DEFINE P == {r \in Seq(S) : Filter(s \o r, T) = Filter(s, T) \o Filter(r, T)}
<1>1. Filter(s, T) \in Seq(S \cap T)
  BY FilterIsSeq
<1>2. <<>> \in P
  <2>1. <<>> \in Seq(S) /\ s \o <<>> = s /\ Filter(<<>>, T) = <<>>
    BY FilterEmpty
  <2>2. Filter(s, T) \o <<>> = Filter(s, T)
    BY <1>1
  <2> QED
    BY <2>1, <2>2
<1>3. ASSUME NEW r \in P, NEW e \in S
      PROVE  Append(r, e) \in P
  <2>1. r \in Seq(S) /\ Filter(s \o r, T) = Filter(s, T) \o Filter(r, T)
    OBVIOUS
  <2>2. s \o r \in Seq(S) /\ Append(r, e) \in Seq(S) /\ s \o Append(r, e) = Append(s \o r, e)
    BY <2>1
  <2>3. Filter(r, T) \in Seq(S \cap T)
    BY <2>1, FilterIsSeq
  <2>4. Filter(s \o Append(r, e), T)
          = IF e \in T THEN Append(Filter(s \o r, T), e) ELSE Filter(s \o r, T)
    <3>1. PICK q \in Seq(S) : q = s \o r
      BY <2>2
    <3>2. Filter(Append(q, e), T) = IF e \in T THEN Append(Filter(q, T), e) ELSE Filter(q, T)
      BY FilterAppend
    <3> QED
      BY <2>2, <3>1, <3>2
  <2>5. Filter(Append(r, e), T) = IF e \in T THEN Append(Filter(r, T), e) ELSE Filter(r, T)
    BY <2>1, FilterAppend
  <2>6. CASE e \in T
    <3>1. Filter(s, T) \o Append(Filter(r, T), e) = Append(Filter(s, T) \o Filter(r, T), e)
      <4>1. e \in S \cap T
        BY <2>6
      <4> QED
        BY <4>1, <1>1, <2>3
    <3> QED
      BY <3>1, <2>1, <2>2, <2>4, <2>5, <2>6
  <2> QED
    BY <2>1, <2>2, <2>4, <2>5, <2>6
<1>4. P \in SUBSET Seq(S)
  OBVIOUS
<1> HIDE DEF P
<1>5. P = Seq(S)
  BY <1>2, <1>3, <1>4, SequenceInduction
<1> QED
  BY <1>5 DEF P

LEMMA FilterNone ==
  ASSUME NEW S, NEW T, NEW s \in Seq(S), S \cap T = {}
  PROVE  Filter(s, T) = <<>>
<1>1. Filter(s, T) \in Seq({})
  BY FilterIsSeq
<1> QED
  BY <1>1

\* A sequence with an element put before it.
Put(a, s) == <<a>> \o s
IsPut(q, a, s) == Len(q) = Len(s) + 1 /\ q[1] = a /\ \A i \in 1 .. Len(s) : q[i + 1] = s[i]

LEMMA Headed ==
  ASSUME NEW S, NEW a \in S, NEW s \in Seq(S)
  PROVE  Put(a, s) \in Seq(S) /\ IsPut(Put(a, s), a, s)
<1>1. <<>> \in Seq(S) /\ Append(<<>>, a) = <<a>> /\ <<a>> \in Seq(S)
  OBVIOUS
<1>2. PICK b \in Seq(S) : b = <<a>>
  BY <1>1
<1>3. Len(b) = 1 /\ b[1] = a
  BY <1>2
<1>4. /\ b \o s \in Seq(S) /\ Len(b \o s) = Len(s) + 1
      /\ \A i \in 1 .. Len(s) + 1 : (b \o s)[i] = IF i <= 1 THEN b[i] ELSE s[i - 1]
  <2>1. /\ b \o s \in Seq(S) /\ Len(b \o s) = Len(b) + Len(s)
        /\ \A i \in 1 .. Len(b) + Len(s) :
             (b \o s)[i] = IF i <= Len(b) THEN b[i] ELSE s[i - Len(b)]
    BY ConcatProperties
  <2>2. Len(b) + Len(s) = Len(s) + 1
    BY <1>3
  <2> QED
    BY <1>3, <2>1, <2>2
<1>5. (b \o s)[1] = a /\ \A i \in 1 .. Len(s) : (b \o s)[i + 1] = s[i]
  <2>1. PICK n \in Nat : n = Len(s)
    OBVIOUS
  <2>2. 1 \in 1 .. n + 1 /\ \A i \in 1 .. n : i + 1 \in 1 .. n + 1 /\ ~(i + 1 <= 1) /\ (i + 1) - 1 = i
    OBVIOUS
  <2> QED
    BY <1>3, <1>4, <2>1, <2>2
<1> QED
  BY <1>2, <1>4, <1>5 DEF Put, IsPut

LEMMA HeadedTwice ==
  ASSUME NEW S, NEW a \in S, NEW b \in S, NEW s \in Seq(S)
  PROVE  <<a>> \o <<b>> \o s = Put(a, Put(b, s))
<1>1. /\ <<>> \in Seq(S) /\ Append(<<>>, a) = <<a>> /\ <<a>> \in Seq(S)
      /\ Append(<<>>, b) = <<b>> /\ <<b>> \in Seq(S)
  OBVIOUS
<1>2. PICK p \in Seq(S), q \in Seq(S) : p = <<a>> /\ q = <<b>>
  BY <1>1
<1>3. p \o q \o s = p \o (q \o s)
  BY ConcatAssociative
<1> QED
  BY <1>2, <1>3 DEF Put

\* The first element is kept or not; the rest is filtered.
LEMMA FilterHead ==
  ASSUME NEW S, NEW a \in S, NEW s \in Seq(S), NEW T
  PROVE  Filter(Put(a, s), T) = IF a \in T THEN Put(a, Filter(s, T)) ELSE Filter(s, T)
<1>1. <<>> \in Seq(S) /\ Append(<<>>, a) = <<a>> /\ <<a>> \in Seq(S)
  OBVIOUS
<1>2. Filter(<<a>>, T) = IF a \in T THEN <<a>> ELSE <<>>
  <2>1. Filter(Append(<<>>, a), T) = IF a \in T THEN Append(Filter(<<>>, T), a) ELSE Filter(<<>>, T)
    BY <1>1, FilterAppend
  <2> QED
    BY <2>1, <1>1, FilterEmpty
<1>3. PICK b \in Seq(S) : b = <<a>>
  BY <1>1
<1>4. Filter(b \o s, T) = Filter(b, T) \o Filter(s, T)
  BY FilterConcat
<1>5. Filter(s, T) \in Seq(S \cap T)
  BY FilterIsSeq
<1>6. <<>> \o Filter(s, T) = Filter(s, T)
  BY <1>5
<1> QED
  BY <1>2, <1>3, <1>4, <1>6 DEF Put

\* What is kept of a sequence whose first n elements are those not in the set.
Rest(q, s, n) ==
  /\ Len(q) = IF n < Len(s) THEN Len(s) - n ELSE 0
  /\ \A j \in 1 .. Len(q) : q[j] = s[n + j]

LEMMA FilterFrom ==
  ASSUME NEW S, NEW s \in Seq(S), NEW T, NEW n \in Nat,
         \A i \in 1 .. Len(s) : s[i] \in T <=> i > n
  PROVE  Filter(s, T) \in Seq(S \cap T) /\ Rest(Filter(s, T), s, n)
<1>1. PICK m \in Nat : m = Len(s)
  OBVIOUS
<1>2. Filter(s, T) \in Seq(S \cap T)
  BY FilterIsSeq
<1>3. CASE m <= n
  <2>1. s \in Seq(S \ T)
    <3>1. \A i \in 1 .. m : s[i] \in S \ T
      BY <1>1, <1>3
    <3> QED
      BY <1>1, <3>1
  <2>2. (S \ T) \cap T = {}
    OBVIOUS
  <2>3. Filter(s, T) = <<>>
    BY <2>1, <2>2, FilterNone
  <2>4. ~(n < Len(s)) /\ Len(<<>>) = 0
    BY <1>1, <1>3
  <2> QED
    BY <1>2, <2>3, <2>4 DEF Rest
<1>4. CASE n < m
  <2>1. /\ SubSeq(s, 1, n) \in Seq(S) /\ Len(SubSeq(s, 1, n)) = n
        /\ \A i \in 1 .. n : SubSeq(s, 1, n)[i] = s[i] /\ i \in 1 .. m
    BY <1>1, <1>4
  <2>2. /\ SubSeq(s, n + 1, m) \in Seq(S) /\ Len(SubSeq(s, n + 1, m)) = m - n
        /\ \A j \in 1 .. m - n : SubSeq(s, n + 1, m)[j] = s[n + j] /\ n + j \in 1 .. m
    <3>1. n + 1 \in 1 .. m /\ m \in n + 1 .. m
      BY <1>4
    <3>2. \A i \in n + 1 .. m : s[i] \in S
      BY <1>1
    <3>3. SubSeq(s, n + 1, m) \in Seq(S)
      BY <1>1, <3>1, <3>2, SubSeqProperties
    <3>4. Len(SubSeq(s, n + 1, m)) = m - n
      BY <1>1, <3>1
    <3>5. \A j \in 1 .. m - n : SubSeq(s, n + 1, m)[j] = s[n + j]
      BY <1>1, <3>1
    <3>6. \A j \in 1 .. m - n : n + j \in 1 .. m
      BY <1>4
    <3> QED
      BY <3>3, <3>4, <3>5, <3>6
  <2>3. PICK a \in Seq(S), b \in Seq(S) : a = SubSeq(s, 1, n) /\ b = SubSeq(s, n + 1, m)
    BY <2>1, <2>2
  <2>4. /\ Len(a) = n /\ \A i \in 1 .. n : a[i] = s[i] /\ i \in 1 .. m
        /\ Len(b) = m - n /\ \A j \in 1 .. m - n : b[j] = s[n + j] /\ n + j \in 1 .. m
    BY <2>1, <2>2, <2>3
  <2>5. s = a \o b
    <3>1. /\ a \o b \in Seq(S) /\ Len(a \o b) = Len(a) + Len(b)
          /\ \A i \in 1 .. Len(a) + Len(b) : (a \o b)[i] = IF i <= Len(a) THEN a[i] ELSE b[i - Len(a)]
      BY ConcatProperties
    <3>2. Len(a \o b) = m
      BY <1>4, <2>4, <3>1
    <3>3. \A i \in 1 .. m : (a \o b)[i] = s[i]
      <4> SUFFICES ASSUME NEW i \in 1 .. m
                   PROVE  (a \o b)[i] = s[i]
        OBVIOUS
      <4>1. (a \o b)[i] = IF i <= n THEN a[i] ELSE b[i - n]
        BY <1>4, <2>4, <3>1
      <4>2. CASE i <= n
        BY <2>4, <4>1, <4>2
      <4>3. CASE i > n
        <5>1. i - n \in 1 .. m - n /\ n + (i - n) = i /\ ~(i <= n)
          BY <4>3
        <5> QED
          BY <2>4, <4>1, <5>1
      <4>4. i <= n \/ i > n
        OBVIOUS
      <4> QED
        BY <4>2, <4>3, <4>4
    <3> QED
      BY <1>1, <3>1, <3>2, <3>3, SeqEqual
  <2>6. a \in Seq(S \ T)
    <3>1. \A i \in 1 .. n : a[i] \in S \ T
      BY <1>1, <2>4
    <3> QED
      BY <2>4, <3>1
  <2>7. b \in Seq(T)
    <3>1. \A j \in 1 .. m - n : b[j] \in T
      <4>1. \A j \in 1 .. m - n : n + j > n
        OBVIOUS
      <4> QED
        BY <1>1, <2>4, <4>1
    <3> QED
      BY <2>4, <3>1
  <2>8. Filter(a, T) = <<>> /\ Filter(b, T) = b
    <3>1. (S \ T) \cap T = {}
      OBVIOUS
    <3> QED
      BY <2>6, <2>7, <3>1, FilterNone, FilterAll
  <2>9. Filter(s, T) = b
    <3>1. Filter(a \o b, T) = Filter(a, T) \o Filter(b, T)
      BY FilterConcat
    <3>2. <<>> \o b = b
      OBVIOUS
    <3> QED
      BY <2>5, <2>8, <3>1, <3>2
  <2> QED
    BY <1>1, <1>2, <1>4, <2>4, <2>9 DEF Rest
<1> QED
  BY <1>1, <1>3, <1>4
===============================================================================
