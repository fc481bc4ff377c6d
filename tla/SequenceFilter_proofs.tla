----------------------- MODULE SequenceFilter_proofs -----------------------
(***************************************************************************)
(* What Filter does to a sequence of any length.  The induction principle  *)
(* is stated on sets, the elements of which are those a fact holds for:    *)
(* it is instantiated with {s \in Seq(T) : ...} and needs no operator.     *)
(***************************************************************************)
EXTENDS SequenceFilter, FiniteSetTheorems, SequenceTheorems, TLAPS

-----------------------------------------------------------------------------
(* Induction                                                               *)

\* The strict inclusions between the finite sets 0 .. m are well-founded.
LEMMA Least ==
    ASSUME NEW N, N \subseteq Nat, N # {}
    PROVE  \E m \in N : \A k \in N : m <= k
<1> DEFINE Below == {0 .. m : m \in N}
<1>1. IsWellFoundedOn(StrictSubsetOrdering(Nat), FiniteSubsetsOf(Nat))
  BY FS_StrictSubsetOrderingWellFounded
<1>2. Below # {}
  OBVIOUS
<1>3. Below \subseteq FiniteSubsetsOf(Nat)
  <2> SUFFICES ASSUME NEW m \in N PROVE 0 .. m \in FiniteSubsetsOf(Nat)
    OBVIOUS
  <2>1. IsFiniteSet(0 .. m)
    BY FS_Interval
  <2> QED
    BY <2>1 DEF FiniteSubsetsOf
<1>4. \E x \in Below : \A y \in Below : ~ (<<y, x>> \in StrictSubsetOrdering(Nat))
  <2> HIDE DEF Below
  <2> QED
    BY <1>1, <1>2, <1>3, WFMin
<1>5. PICK m \in N : \A k \in N : <<0 .. k, 0 .. m>> \notin StrictSubsetOrdering(Nat)
  BY <1>4
<1>6. ASSUME NEW k \in N, k < m PROVE FALSE
  <2>1. 0 .. k \in SUBSET Nat /\ 0 .. m \in SUBSET Nat
    OBVIOUS
  <2>2. 0 .. k \subseteq 0 .. m
    BY <1>6
  <2>3. m \in 0 .. m /\ m \notin 0 .. k
    BY <1>6
  <2>4. 0 .. k # 0 .. m
    BY <2>3
  <2>5. <<0 .. k, 0 .. m>> \in StrictSubsetOrdering(Nat)
    BY <2>1, <2>2, <2>4 DEF StrictSubsetOrdering
  <2> QED
    BY <1>5, <2>5
<1> QED
  BY <1>6

\* A set of sequences that has the empty one and every extension of one it has
\* has them all.
LEMMA SeqInduction ==
    ASSUME NEW T, NEW G, <<>> \in G,
           \A s \in G \cap Seq(T), x \in T : Append(s, x) \in G
    PROVE  \A s \in Seq(T) : s \in G
<1> DEFINE Bad == {n \in Nat : \E s \in Seq(T) : Len(s) = n /\ s \notin G}
<1>1. \A s \in Seq(T) : Len(s) \in Nat
  BY LenProperties
<1> SUFFICES ASSUME Bad # {} PROVE FALSE
  BY <1>1
<1>2. PICK n \in Bad : \A k \in Bad : n <= k
  <2>1. Bad \subseteq Nat
    OBVIOUS
  <2> HIDE DEF Bad
  <2> QED
    BY <2>1, Least
<1>3. PICK s \in Seq(T) : Len(s) = n /\ s \notin G
  OBVIOUS
<1>4. PICK r \in Seq(T), x \in T : s = Append(r, x)
  BY <1>3, SequenceEmptyOrAppend
<1>5. Len(s) = Len(r) + 1 /\ Len(r) \in Nat
  BY <1>1, <1>4, AppendProperties
<1>6. r \in G
  BY <1>2, <1>3, <1>5
<1> QED
  BY <1>3, <1>4, <1>6

-----------------------------------------------------------------------------
(* The walk                                                                *)

\* one step of it
Step(s, S, g, i) ==
    IF i = 0 THEN <<>>
    ELSE IF s[i] \in S THEN Append(g[i - 1], s[i])
    ELSE g[i - 1]

\* g has what is left of the first n elements
Walks(s, S, n, g) == g = [i \in 0 .. n |-> Step(s, S, g, i)]

\* The function that Walk chooses exists.
LEMMA WalkExists ==
    ASSUME NEW s, NEW S, NEW n \in Nat
    PROVE  \E g : Walks(s, S, n, g)
<1> DEFINE Bad == {m \in Nat : ~ \E g : Walks(s, S, m, g)}
<1> SUFFICES ASSUME Bad # {} PROVE FALSE
  OBVIOUS
<1>1. PICK m \in Bad : \A k \in Bad : m <= k
  <2>1. Bad \subseteq Nat
    OBVIOUS
  <2> HIDE DEF Bad
  <2> QED
    BY <2>1, Least
<1>2. m # 0
  <2>1. Walks(s, S, 0, [i \in 0 .. 0 |-> <<>>])
    BY DEF Walks, Step
  <2> QED
    BY <2>1
<1>3. m \in Nat /\ m - 1 \in Nat /\ m - 1 \notin Bad
  BY <1>1, <1>2
<1>4. PICK g : Walks(s, S, m - 1, g)
  BY <1>3
<1> DEFINE h == [i \in 0 .. m |-> Step(s, S, g, i)]
<1>5. ASSUME NEW i \in 0 .. m - 1 PROVE h[i] = g[i]
  BY <1>3, <1>4, <1>5 DEF Walks
<1>6. ASSUME NEW i \in 0 .. m PROVE Step(s, S, h, i) = Step(s, S, g, i)
  <2>1. CASE i = 0
    BY <2>1 DEF Step
  <2>2. CASE i # 0
    <3>1. i - 1 \in 0 .. m - 1
      BY <1>3, <2>2
    <3>2. h[i - 1] = g[i - 1]
      BY <1>5, <3>1
    <3> HIDE DEF h
    <3> QED
      BY <3>2 DEF Step
  <2> QED
    BY <2>1, <2>2
<1>7. Walks(s, S, m, h)
  BY <1>6 DEF Walks
<1> QED
  BY <1>1, <1>7

\* Walk is the function that its definition describes.
LEMMA WalkDef ==
    ASSUME NEW s, NEW S, Len(s) \in Nat
    PROVE  Walks(s, S, Len(s), Walk(s, S))
<1>1. \E g : Walks(s, S, Len(s), g)
  BY WalkExists
<1> QED
  BY <1>1 DEF Walk, Walks, Step

\* Two walks over sequences that begin alike leave the same of the beginnings.
LEMMA WalkAgrees ==
    ASSUME NEW s, NEW t, NEW S, NEW n \in Nat, Len(s) \in Nat, Len(t) \in Nat,
           n <= Len(s), n <= Len(t),
           \A i \in 1 .. n : s[i] = t[i]
    PROVE  Walk(s, S)[n] = Walk(t, S)[n]
<1> DEFINE f == Walk(s, S)
           g == Walk(t, S)
           Bad == {m \in 0 .. n : f[m] # g[m]}
<1>1. /\ \A i \in 0 .. Len(s) : f[i] = Step(s, S, f, i)
      /\ \A i \in 0 .. Len(t) : g[i] = Step(t, S, g, i)
  <2>1. Walks(s, S, Len(s), f) /\ Walks(t, S, Len(t), g)
    BY WalkDef
  <2> HIDE DEF f, g
  <2> QED
    BY <2>1 DEF Walks
<1> HIDE DEF f, g
<1> SUFFICES ASSUME Bad # {} PROVE FALSE
  BY DEF f, g
<1>2. PICK m \in Bad : \A k \in Bad : m <= k
  <2>1. Bad \subseteq Nat
    OBVIOUS
  <2> HIDE DEF Bad
  <2> QED
    BY <2>1, Least
<1>3. m \in 0 .. Len(s) /\ m \in 0 .. Len(t)
  OBVIOUS
<1>4. f[m] = Step(s, S, f, m) /\ g[m] = Step(t, S, g, m)
  BY <1>1, <1>3
<1>5. m # 0
  BY <1>4 DEF Step
<1>6. m - 1 \in 0 .. n /\ m - 1 \notin Bad
  BY <1>2, <1>5
<1>7. f[m - 1] = g[m - 1] /\ s[m] = t[m]
  BY <1>5, <1>6
<1> QED
  BY <1>4, <1>5, <1>7 DEF Step

\* Nothing is left of nothing.
LEMMA FilterEmpty == \A S : Filter(<<>>, S) = <<>>
<1> TAKE S
<1>1. Len(<<>>) = 0
  OBVIOUS
<1>2. Walks(<<>>, S, 0, Walk(<<>>, S))
  BY <1>1, WalkDef
<1> DEFINE f == Walk(<<>>, S)
<1>3. f[0] = Step(<<>>, S, f, 0)
  <2> HIDE DEF f
  <2> QED
    BY <1>2 DEF Walks, f
<1> QED
  BY <1>1, <1>3 DEF Filter, Step

\* The last element stays or goes by itself.
LEMMA FilterAppend ==
    ASSUME NEW T, NEW s \in Seq(T), NEW x \in T, NEW S
    PROVE  Filter(Append(s, x), S) =
               IF x \in S THEN Append(Filter(s, S), x) ELSE Filter(s, S)
<1> DEFINE t == Append(s, x)
           f == Walk(t, S)
           n == Len(s)
<1>1. /\ n \in Nat
      /\ t \in Seq(T)
      /\ Len(t) = n + 1
      /\ t[n + 1] = x
      /\ \A i \in 1 .. n : t[i] = s[i]
  OBVIOUS
<1>2. f[n] = Filter(s, S)
  <2>1. n <= Len(s) /\ n <= Len(t) /\ Len(s) \in Nat /\ Len(t) \in Nat
    BY <1>1
  <2>2. Walk(t, S)[n] = Walk(s, S)[n]
    <3> HIDE DEF t, n
    <3> QED
      BY <1>1, <2>1, WalkAgrees
  <2> QED
    BY <2>2 DEF Filter
<1>3. f[n + 1] = Step(t, S, f, n + 1)
  <2>1. Walks(t, S, n + 1, f)
    <3> HIDE DEF t, n
    <3> QED
      BY <1>1, WalkDef
  <2> HIDE DEF f, n
  <2> QED
    BY <1>1, <2>1 DEF Walks
<1>4. Step(t, S, f, n + 1) = IF x \in S THEN Append(f[n], x) ELSE f[n]
  <2> HIDE DEF t, f, n
  <2> QED
    BY <1>1 DEF Step
<1> HIDE DEF f, n
<1> QED
  BY <1>1, <1>2, <1>3, <1>4 DEF Filter, f

-----------------------------------------------------------------------------
(* What is left                                                            *)

\* What is left is made of elements that stay.
LEMMA FilterType ==
    ASSUME NEW T, NEW S, NEW s \in Seq(T)
    PROVE  Filter(s, S) \in Seq(T \cap S)
<1> DEFINE Holds(r) == Filter(r, S) \in Seq(T \cap S)
           G == {r \in Seq(T) : Holds(r)}
<1>1. Holds(<<>>)
  BY FilterEmpty, EmptySeq
<1>2. ASSUME NEW r \in Seq(T), NEW x \in T, Holds(r) PROVE Holds(Append(r, x))
  <2>1. Filter(Append(r, x), S) =
            IF x \in S THEN Append(Filter(r, S), x) ELSE Filter(r, S)
    BY FilterAppend
  <2>2. x \in S => Append(Filter(r, S), x) \in Seq(T \cap S)
    BY <1>2, AppendProperties
  <2> QED
    BY <1>2, <2>1, <2>2
<1>3. \A r \in Seq(T) : r \in G
  <2>1. <<>> \in G
    BY <1>1
  <2>2. \A r \in G \cap Seq(T), x \in T : Append(r, x) \in G
    BY <1>2, AppendProperties
  <2> HIDE DEF G
  <2> QED
    BY <2>1, <2>2, SeqInduction
<1> QED
  BY <1>3

\* What a filter keeps is a sequence of the same elements.
LEMMA FilterIsSeq ==
    ASSUME NEW T, NEW S, NEW s \in Seq(T)
    PROVE  Filter(s, S) \in Seq(T)
<1>1. Filter(s, S) \in Seq(T \cap S)
  BY FilterType
<1>2. T \cap S \subseteq T
  OBVIOUS
<1> QED
  BY <1>1, <1>2, SeqMonotonic

\* Only what is in the sequence matters.
LEMMA FilterSame ==
    ASSUME NEW T, NEW S, NEW R, NEW s \in Seq(T),
           \A i \in 1 .. Len(s) : s[i] \in S <=> s[i] \in R
    PROVE  Filter(s, S) = Filter(s, R)
<1> DEFINE Agrees(r) == \A i \in 1 .. Len(r) : r[i] \in S <=> r[i] \in R
           Holds(r) == Agrees(r) => Filter(r, S) = Filter(r, R)
           G == {r \in Seq(T) : Holds(r)}
<1>1. Holds(<<>>)
  BY FilterEmpty
<1>2. ASSUME NEW r \in Seq(T), NEW x \in T, Holds(r) PROVE Holds(Append(r, x))
  <2> SUFFICES ASSUME Agrees(Append(r, x))
               PROVE  Filter(Append(r, x), S) = Filter(Append(r, x), R)
    OBVIOUS
  <2>1. Agrees(r) /\ (x \in S <=> x \in R)
    <3>1. /\ Len(r) \in Nat
          /\ Len(Append(r, x)) = Len(r) + 1
          /\ \A i \in 1 .. Len(r) : Append(r, x)[i] = r[i]
          /\ Append(r, x)[Len(r) + 1] = x
      BY AppendProperties, LenProperties
    <3>2. \A i \in 1 .. Len(r) : i \in 1 .. Len(r) + 1
      BY <3>1
    <3>3. Len(r) + 1 \in 1 .. Len(r) + 1
      BY <3>1
    <3> QED
      BY <3>1, <3>2, <3>3
  <2>2. Filter(r, S) = Filter(r, R)
    BY <1>2, <2>1
  <2>3. /\ Filter(Append(r, x), S) =
               IF x \in S THEN Append(Filter(r, S), x) ELSE Filter(r, S)
        /\ Filter(Append(r, x), R) =
               IF x \in R THEN Append(Filter(r, R), x) ELSE Filter(r, R)
    BY FilterAppend
  <2> QED
    BY <2>1, <2>2, <2>3
<1>3. \A r \in Seq(T) : r \in G
  <2>1. <<>> \in G
    BY <1>1
  <2>2. \A r \in G \cap Seq(T), x \in T : Append(r, x) \in G
    BY <1>2, AppendProperties
  <2> HIDE DEF G
  <2> QED
    BY <2>1, <2>2, SeqInduction
<1> QED
  BY <1>3

\* If every element stays, so does the sequence.
LEMMA FilterAll ==
    ASSUME NEW T, NEW S, NEW s \in Seq(T),
           \A i \in 1 .. Len(s) : s[i] \in S
    PROVE  Filter(s, S) = s
<1> DEFINE G == {r \in Seq(T) : Filter(r, T) = r}
<1>1. <<>> \in G
  BY FilterEmpty
<1>2. ASSUME NEW r \in G \cap Seq(T), NEW x \in T PROVE Append(r, x) \in G
  BY FilterAppend, AppendProperties
<1>3. \A r \in Seq(T) : r \in G
  <2> HIDE DEF G
  <2> QED
    BY <1>1, <1>2, SeqInduction
<1>4. \A i \in 1 .. Len(s) : s[i] \in S <=> s[i] \in T
  BY ElementOfSeq
<1>5. Filter(s, S) = Filter(s, T)
  BY <1>4, FilterSame
<1> QED
  BY <1>3, <1>5

\* Appending to the second of two sequences appends to both put together.
LEMMA ConcatAppend ==
    ASSUME NEW T, NEW x \in T
    PROVE  \A s, t \in Seq(T) : s \o Append(t, x) = Append(s \o t, x)
<1> SUFFICES ASSUME NEW s \in Seq(T), NEW t \in Seq(T)
             PROVE  s \o Append(t, x) = Append(s \o t, x)
  OBVIOUS
<1>1. <<x>> \in Seq(T)
  OBVIOUS
<1>2. s \o t \in Seq(T)
  BY ConcatProperties
<1>3. Append(t, x) = t \o <<x>> /\ Append(s \o t, x) = (s \o t) \o <<x>>
  BY <1>2, AppendIsConcat
<1> QED
  BY <1>1, <1>3, ConcatAssociative

\* The two parts of a sequence are walked one after the other.
LEMMA FilterConcat ==
    ASSUME NEW T, NEW S, NEW s \in Seq(T), NEW t \in Seq(T)
    PROVE  Filter(s \o t, S) = Filter(s, S) \o Filter(t, S)
<1> DEFINE Holds(r) == Filter(s \o r, S) = Filter(s, S) \o Filter(r, S)
           G == {r \in Seq(T) : Holds(r)}
<1>1. Holds(<<>>)
  <2>1. Filter(s, S) \in Seq(T)
    BY FilterIsSeq
  <2>2. Filter(s, S) \o <<>> = Filter(s, S) /\ s \o <<>> = s
    BY <2>1, ConcatEmptySeq
  <2> QED
    BY <2>2, FilterEmpty
<1>2. ASSUME NEW r \in Seq(T), NEW x \in T, Holds(r) PROVE Holds(Append(r, x))
  <2>1. Filter(s, S) \in Seq(T) /\ Filter(r, S) \in Seq(T)
    BY FilterIsSeq
  <2>2. s \o Append(r, x) = Append(s \o r, x) /\ s \o r \in Seq(T)
    BY ConcatAppend, ConcatProperties
  <2>3. Filter(Append(s \o r, x), S) =
            IF x \in S THEN Append(Filter(s \o r, S), x) ELSE Filter(s \o r, S)
    BY <2>2, FilterAppend
  <2>4. Filter(Append(r, x), S) =
            IF x \in S THEN Append(Filter(r, S), x) ELSE Filter(r, S)
    BY FilterAppend
  <2>5. Append(Filter(s, S) \o Filter(r, S), x) = Filter(s, S) \o Append(Filter(r, S), x)
    BY <2>1, ConcatAppend
  <2> QED
    BY <1>2, <2>2, <2>3, <2>4, <2>5
<1>3. \A r \in Seq(T) : r \in G
  <2>1. <<>> \in G
    BY <1>1
  <2>2. \A r \in G \cap Seq(T), x \in T : Append(r, x) \in G
    BY <1>2, AppendProperties
  <2> HIDE DEF G
  <2> QED
    BY <2>1, <2>2, SeqInduction
<1> QED
  BY <1>3

\* A second walk takes what it would have taken the first time.
LEMMA FilterTwice ==
    ASSUME NEW T, NEW S, NEW R, NEW s \in Seq(T)
    PROVE  Filter(Filter(s, S), R) = Filter(s, S \cap R)
<1> DEFINE Holds(r) == Filter(Filter(r, S), R) = Filter(r, S \cap R)
           G == {r \in Seq(T) : Holds(r)}
<1>1. Holds(<<>>)
  BY FilterEmpty
<1>2. ASSUME NEW r \in Seq(T), NEW x \in T, Holds(r) PROVE Holds(Append(r, x))
  <2>0. Filter(r, S) \in Seq(T)
    BY FilterIsSeq
  <2>1. Filter(Append(r, x), S) =
            IF x \in S THEN Append(Filter(r, S), x) ELSE Filter(r, S)
    BY FilterAppend
  <2>2. Filter(Append(r, x), S \cap R) =
            IF x \in S \cap R THEN Append(Filter(r, S \cap R), x)
            ELSE Filter(r, S \cap R)
    BY FilterAppend
  <2>3. Filter(Append(Filter(r, S), x), R) =
            IF x \in R THEN Append(Filter(Filter(r, S), R), x)
            ELSE Filter(Filter(r, S), R)
    BY <2>0, FilterAppend
  <2>4. CASE x \in S
    <3>1. x \in S \cap R <=> x \in R
      BY <2>4
    <3> QED
      BY <3>1, <1>2, <2>1, <2>2, <2>3, <2>4
  <2>5. CASE x \notin S
    <3>1. x \notin S \cap R
      BY <2>5
    <3> QED
      BY <3>1, <1>2, <2>1, <2>2, <2>5
  <2> QED
    BY <2>4, <2>5
<1>3. \A r \in Seq(T) : r \in G
  <2>1. <<>> \in G
    BY <1>1
  <2>2. \A r \in G \cap Seq(T), x \in T : Append(r, x) \in G
    BY <1>2, AppendProperties
  <2> HIDE DEF G
  <2> QED
    BY <2>1, <2>2, SeqInduction
<1> QED
  BY <1>3

\* The elements of a sequence with one more at its end.
LEMMA RangeAppend ==
    ASSUME NEW T, NEW s \in Seq(T), NEW x \in T
    PROVE  Range(Append(s, x)) = Range(s) \cup {x}
<1>1. Append(s, x) = s \o <<x>> /\ <<x>> \in Seq(T)
  BY AppendIsConcat
<1>2. Range(<<x>>) = {x}
  BY DEF Range
<1>3. Range(s \o <<x>>) = Range(s) \cup Range(<<x>>)
  BY <1>1, RangeConcatenation, ZenonT(40)
<1> QED
  BY <1>1, <1>2, <1>3

\* What is left is what stays of what was there.
LEMMA FilterRange ==
    ASSUME NEW T, NEW S, NEW s \in Seq(T)
    PROVE  Range(Filter(s, S)) = Range(s) \cap S
<1> DEFINE Holds(r) == Range(Filter(r, S)) = Range(r) \cap S
           G == {r \in Seq(T) : Holds(r)}
<1>1. Holds(<<>>)
  BY FilterEmpty DEF Range
<1>2. ASSUME NEW r \in Seq(T), NEW x \in T, Holds(r) PROVE Holds(Append(r, x))
  <2>0. Filter(r, S) \in Seq(T)
    BY FilterIsSeq
  <2>1. Filter(Append(r, x), S) =
            IF x \in S THEN Append(Filter(r, S), x) ELSE Filter(r, S)
    BY FilterAppend
  <2>2. /\ Range(Append(r, x)) = Range(r) \cup {x}
        /\ Range(Append(Filter(r, S), x)) = Range(Filter(r, S)) \cup {x}
    BY <2>0, RangeAppend
  <2> QED
    BY <1>2, <2>1, <2>2
<1>3. \A r \in Seq(T) : r \in G
  <2>1. <<>> \in G
    BY <1>1
  <2>2. \A r \in G \cap Seq(T), x \in T : Append(r, x) \in G
    BY <1>2, AppendProperties
  <2> HIDE DEF G
  <2> QED
    BY <2>1, <2>2, SeqInduction
<1> QED
  BY <1>3

-----------------------------------------------------------------------------
(* Sequences without repetition                                            *)

\* One more element leaves the elements distinct if it is new.
LEMMA DistinctAppend ==
    ASSUME NEW T, NEW s \in Seq(T), NEW x \in T
    PROVE  IsInjective(Append(s, x)) <=> IsInjective(s) /\ x \notin Range(s)
<1> DEFINE t == Append(s, x)
           n == Len(s)
<1>1. /\ n \in Nat
      /\ DOMAIN s = 1 .. n
      /\ DOMAIN t = 1 .. n + 1
      /\ \A i \in 1 .. n : t[i] = s[i]
      /\ t[n + 1] = x
  BY AppendProperties, LenProperties
<1> HIDE DEF t, n
<1>2. \A i \in 1 .. n : i \in 1 .. n + 1 /\ i # n + 1
  BY <1>1
<1>3. n + 1 \in 1 .. n + 1
  BY <1>1
<1>4. \A i \in 1 .. n + 1 : i = n + 1 \/ i \in 1 .. n
  BY <1>1
<1>5. x \notin Range(s) <=> \A i \in 1 .. n : s[i] # x
  BY <1>1 DEF Range
<1>6. IsInjective(t) => IsInjective(s) /\ x \notin Range(s)
  BY <1>1, <1>2, <1>3, <1>5 DEF IsInjective
<1>7. IsInjective(s) /\ x \notin Range(s) => IsInjective(t)
  BY <1>1, <1>4, <1>5 DEF IsInjective
<1> QED
  BY <1>6, <1>7 DEF t

\* A walk repeats nothing.
LEMMA FilterDistinct ==
    ASSUME NEW T, NEW S, NEW s \in Seq(T), IsInjective(s)
    PROVE  IsInjective(Filter(s, S))
<1> DEFINE Holds(r) == IsInjective(r) => IsInjective(Filter(r, S))
           G == {r \in Seq(T) : Holds(r)}
<1>1. Holds(<<>>)
  BY FilterEmpty
<1>2. ASSUME NEW r \in Seq(T), NEW x \in T, Holds(r) PROVE Holds(Append(r, x))
  <2> SUFFICES ASSUME IsInjective(Append(r, x))
               PROVE  IsInjective(Filter(Append(r, x), S))
    OBVIOUS
  <2>1. Filter(r, S) \in Seq(T)
    BY FilterIsSeq
  <2>2. IsInjective(r) /\ x \notin Range(r)
    BY DistinctAppend
  <2>3. IsInjective(Filter(r, S)) /\ x \notin Range(Filter(r, S))
    BY <1>2, <2>2, FilterRange
  <2>4. IsInjective(Append(Filter(r, S), x))
    BY <2>1, <2>3, DistinctAppend
  <2>5. Filter(Append(r, x), S) =
            IF x \in S THEN Append(Filter(r, S), x) ELSE Filter(r, S)
    BY FilterAppend
  <2> QED
    BY <2>3, <2>4, <2>5
<1>3. \A r \in Seq(T) : r \in G
  <2>1. <<>> \in G
    BY <1>1
  <2>2. \A r \in G \cap Seq(T), x \in T : Append(r, x) \in G
    BY <1>2, AppendProperties
  <2> HIDE DEF G
  <2> QED
    BY <2>1, <2>2, SeqInduction
<1> QED
  BY <1>3

\* Where the elements of Append(s, x) \o t are.
LEMMA MiddleIs ==
    ASSUME NEW T, NEW s \in Seq(T), NEW x \in T, NEW t \in Seq(T)
    PROVE  /\ DOMAIN (Append(s, x) \o t) = 1 .. Len(s) + 1 + Len(t)
           /\ \A i \in 1 .. Len(s) : (Append(s, x) \o t)[i] = s[i]
           /\ (Append(s, x) \o t)[Len(s) + 1] = x
           /\ \A i \in 1 .. Len(t) : (Append(s, x) \o t)[Len(s) + 1 + i] = t[i]
           /\ Len(s) \in Nat /\ Len(t) \in Nat
<1> DEFINE q == Append(s, x)
           all == q \o t
           n == Len(s)
<1>1. /\ q \in Seq(T)
      /\ Len(q) = n + 1 /\ q[n + 1] = x /\ \A i \in 1 .. n : q[i] = s[i]
      /\ n \in Nat /\ Len(t) \in Nat
  BY AppendProperties, LenProperties
<1> HIDE DEF q, n
<1>2. /\ Len(all) = n + 1 + Len(t)
      /\ \A i \in 1 .. n + 1 + Len(t) :
             all[i] = IF i <= n + 1 THEN q[i] ELSE t[i - (n + 1)]
      /\ DOMAIN all = 1 .. n + 1 + Len(t)
  <2>1. /\ all \in Seq(T)
        /\ Len(all) = Len(q) + Len(t)
        /\ \A i \in 1 .. Len(q) + Len(t) :
               all[i] = IF i <= Len(q) THEN q[i] ELSE t[i - Len(q)]
    BY <1>1, ConcatProperties
  <2>2. DOMAIN all = 1 .. Len(all)
    <3> HIDE DEF all
    <3> QED
      BY <2>1, LenProperties
  <2> HIDE DEF all
  <2> QED
    BY <1>1, <2>1, <2>2
<1> HIDE DEF all
<1>3. ASSUME NEW i \in 1 .. Len(t) PROVE all[n + 1 + i] = t[i]
  <2> DEFINE k == n + 1 + i
  <2>1. k \in 1 .. n + 1 + Len(t) /\ ~ (k <= n + 1) /\ k - (n + 1) = i
    BY <1>1
  <2> HIDE DEF k
  <2>2. all[k] = t[k - (n + 1)]
    BY <1>2, <2>1
  <2>3. all[k] = t[i]
    BY <2>1, <2>2
  <2> QED
    BY <2>3 DEF k
<1>4. ASSUME NEW i \in 1 .. n + 1 PROVE all[i] = q[i]
  <2>1. i \in 1 .. n + 1 + Len(t) /\ i <= n + 1
    BY <1>1
  <2> QED
    BY <1>2, <2>1
<1>5. (\A i \in 1 .. n : i \in 1 .. n + 1) /\ n + 1 \in 1 .. n + 1
  BY <1>1
<1>6. (\A i \in 1 .. n : all[i] = s[i]) /\ all[n + 1] = x
  BY <1>1, <1>4, <1>5
<1> QED
  BY <1>1, <1>2, <1>3, <1>6 DEF all, q, n

\* An appended element is one of the elements.
LEMMA MiddleIn ==
    ASSUME NEW T, NEW s \in Seq(T), NEW x \in T, NEW t \in Seq(T)
    PROVE  x \in Range(Append(s, x) \o t)
<1> DEFINE all == Append(s, x) \o t
<1>1. /\ DOMAIN all = 1 .. Len(s) + 1 + Len(t)
      /\ all[Len(s) + 1] = x
      /\ Len(s) \in Nat /\ Len(t) \in Nat
  BY MiddleIs
<1>2. Len(s) + 1 \in 1 .. Len(s) + 1 + Len(t)
  BY <1>1
<1> HIDE DEF all
<1>3. x \in Range(all)
  BY <1>1, <1>2 DEF Range
<1> QED
  BY <1>3 DEF all

\* An element that is there once can be taken out.
LEMMA MiddleGone ==
    ASSUME NEW T, NEW s \in Seq(T), NEW x \in T, NEW t \in Seq(T),
           NEW S, x \notin S, T \ {x} \subseteq S,
           IsInjective(Append(s, x) \o t)
    PROVE  Filter(Append(s, x) \o t, S) = s \o t
<1> DEFINE all == Append(s, x) \o t
           n == Len(s)
<1>1. /\ DOMAIN all = 1 .. n + 1 + Len(t)
      /\ \A i \in 1 .. n : all[i] = s[i]
      /\ all[n + 1] = x
      /\ \A i \in 1 .. Len(t) : all[n + 1 + i] = t[i]
      /\ n \in Nat /\ Len(t) \in Nat
  BY MiddleIs
<1>2. \A i, k \in DOMAIN all : all[i] = all[k] => i = k
  BY DEF IsInjective
<1> HIDE DEF all
<1>3. ASSUME NEW i \in 1 .. n PROVE s[i] \in S
  <2>1. i \in DOMAIN all /\ n + 1 \in DOMAIN all /\ i # n + 1
    <3> HIDE DEF n
    <3> QED
      BY <1>1
  <2>2. s[i] # x
    <3> HIDE DEF n
    <3> QED
      BY <1>1, <1>2, <2>1
  <2> QED
    BY <2>2, ElementOfSeq
<1>4. ASSUME NEW i \in 1 .. Len(t) PROVE t[i] \in S
  <2> DEFINE k == n + 1 + i
  <2>1. k \in DOMAIN all /\ n + 1 \in DOMAIN all /\ k # n + 1
    <3> HIDE DEF n
    <3> QED
      BY <1>1
  <2>2. all[k] # all[n + 1]
    <3> HIDE DEF n, k
    <3> QED
      BY <1>2, <2>1
  <2>3. all[k] = t[i]
    <3> HIDE DEF n
    <3> QED
      BY <1>1
  <2>4. t[i] # x
    <3> HIDE DEF n, k
    <3> QED
      BY <1>1, <2>2, <2>3
  <2> QED
    BY <2>4, ElementOfSeq
<1>5. Filter(s, S) = s /\ Filter(t, S) = t
  BY <1>3, <1>4, FilterAll
<1>6. Filter(Append(s, x), S) = Filter(s, S)
  BY FilterAppend
<1>7. Append(s, x) \in Seq(T)
  BY AppendProperties
<1>8. Filter(Append(s, x) \o t, S) = Filter(Append(s, x), S) \o Filter(t, S)
  <2> DEFINE r == Append(s, x)
  <2>1. r \in Seq(T)
    BY <1>7
  <2>2. Filter(r \o t, S) = Filter(r, S) \o Filter(t, S)
    <3> HIDE DEF r, n, all
    <3> QED
      BY ONLY <2>1, t \in Seq(T), FilterConcat
  <2> QED
    BY <2>2
<1> QED
  BY <1>5, <1>6, <1>8

\* A sequence of one element.
LEMMA Single ==
    ASSUME NEW T, NEW s \in Seq(T), Len(s) = 1
    PROVE  s[1] \in T /\ s = <<s[1]>>
<1>1. 1 \in 1 .. Len(s) /\ s[1] \in T
  BY ElementOfSeq
<1>2. <<s[1]>> \in Seq(T) /\ Len(<<s[1]>>) = 1 /\ <<s[1]>>[1] = s[1]
  BY <1>1
<1>3. \A i \in 1 .. Len(s) : s[i] = <<s[1]>>[i]
  BY <1>2
<1>4. s = <<s[1]>>
  BY <1>2, <1>3, SeqEqual
<1> QED
  BY <1>1, <1>4

\* The head of t can be moved to a place of its own.
LEMMA HeadMoves ==
    ASSUME NEW T, NEW s \in Seq(T), NEW t \in Seq(T), t # <<>>
    PROVE  s \o <<>> \o t = s \o <<Head(t)>> \o Tail(t)
<1>1. Head(t) \in T /\ Tail(t) \in Seq(T) /\ <<Head(t)>> \in Seq(T)
  BY HeadTailProperties
<1>2. t = <<Head(t)>> \o Tail(t)
  OBVIOUS
<1>3. s \o <<>> = s
  BY ConcatEmptySeq
<1>4. (s \o <<Head(t)>>) \o Tail(t) = s \o (<<Head(t)>> \o Tail(t))
  BY <1>1, ConcatAssociative
<1> QED
  BY <1>2, <1>3, <1>4

\* Appending to a sequence of one.
LEMMA AppendSingle ==
    ASSUME NEW x, NEW y
    PROVE  Append(<<x>>, y) = <<x, y>>
<1> DEFINE T == {x, y}
<1>1. <<x>> \in Seq(T) /\ Len(<<x>>) = 1 /\ <<x>>[1] = x
  OBVIOUS
<1>2. /\ Append(<<x>>, y) \in Seq(T)
      /\ Len(Append(<<x>>, y)) = 2
      /\ Append(<<x>>, y)[1] = x
      /\ Append(<<x>>, y)[2] = y
  BY <1>1, AppendProperties
<1>3. <<x, y>> \in Seq(T) /\ Len(<<x, y>>) = 2 /\ <<x, y>>[1] = x /\ <<x, y>>[2] = y
  OBVIOUS
<1>4. \A i \in 1 .. 2 : Append(<<x>>, y)[i] = <<x, y>>[i]
  BY <1>2, <1>3
<1> QED
  BY <1>2, <1>3, <1>4, SeqEqual

\* Appending does not change the first element.
LEMMA HeadAppend ==
    ASSUME NEW T, NEW s \in Seq(T), NEW x, s # <<>>
    PROVE  Append(s, x) # <<>> /\ Head(Append(s, x)) = Head(s)
  OBVIOUS

\* Short sequences put together.
LEMMA Two ==
    ASSUME NEW T, NEW x \in T, NEW y \in T
    PROVE  <<x>> \o <<y>> = <<x, y>>
<1> DEFINE s == <<x>> \o <<y>>
           t == <<x, y>>
<1>1. <<x>> \in Seq(T) /\ <<y>> \in Seq(T) /\ t \in Seq(T)
  OBVIOUS
<1>2. s \in Seq(T) /\ Len(s) = 2 /\ s[1] = x /\ s[2] = y
  BY <1>1, ConcatProperties
<1>3. Len(t) = 2 /\ t[1] = x /\ t[2] = y
  OBVIOUS
<1> HIDE DEF s, t
<1>4. s = t
  BY <1>1, <1>2, <1>3, SeqEqual
<1> QED
  BY <1>4 DEF s, t

\* Three short sequences put together.
LEMMA Three ==
    ASSUME NEW T, NEW x \in T, NEW y \in T, NEW z \in T
    PROVE  <<x>> \o <<y>> \o <<z>> = <<x, y, z>> /\ <<x>> \o <<y, z>> = <<x, y, z>>
<1> DEFINE s == <<x, y>> \o <<z>>
           r == <<x>> \o <<y, z>>
           t == <<x, y, z>>
<1>1. <<x>> \in Seq(T) /\ <<z>> \in Seq(T) /\ <<x, y>> \in Seq(T) /\ <<y, z>> \in Seq(T) /\ t \in Seq(T)
  OBVIOUS
<1>2. s \in Seq(T) /\ Len(s) = 3 /\ s[1] = x /\ s[2] = y /\ s[3] = z
  BY <1>1, ConcatProperties
<1>3. r \in Seq(T) /\ Len(r) = 3 /\ r[1] = x /\ r[2] = y /\ r[3] = z
  BY <1>1, ConcatProperties
<1>4. Len(t) = 3 /\ t[1] = x /\ t[2] = y /\ t[3] = z
  OBVIOUS
<1> HIDE DEF s, r, t
<1>5. s = t /\ r = t
  BY <1>1, <1>2, <1>3, <1>4, SeqEqual
<1>6. <<x>> \o <<y>> = <<x, y>>
  BY Two
<1> QED
  BY <1>5, <1>6 DEF s, r, t

-----------------------------------------------------------------------------
(* The order of the elements                                               *)

\* t has elements of s, in the order they have there.
Thins(t, s) ==
    /\ \A i \in 1 .. Len(t) : \E a \in 1 .. Len(s) : s[a] = t[i]
    /\ \A i, j \in 1 .. Len(t) : i < j =>
           \E a, b \in 1 .. Len(s) : a < b /\ s[a] = t[i] /\ s[b] = t[j]

\* A sequence is what is left of itself.
LEMMA ThinsSelf ==
    ASSUME NEW s
    PROVE  Thins(s, s)
BY DEF Thins

\* What is left of what is left.
LEMMA ThinsTrans ==
    ASSUME NEW r, NEW s, NEW t, Thins(t, s), Thins(s, r)
    PROVE  Thins(t, r)
<1>1. \A i \in 1 .. Len(t) : \E a \in 1 .. Len(r) : r[a] = t[i]
  <2>1. TAKE i \in 1 .. Len(t)
  <2>2. PICK b \in 1 .. Len(s) : s[b] = t[i]
    BY DEF Thins
  <2> QED
    BY <2>2 DEF Thins
<1>2. ASSUME NEW i \in 1 .. Len(t), NEW j \in 1 .. Len(t), i < j
      PROVE  \E a, b \in 1 .. Len(r) : a < b /\ r[a] = t[i] /\ r[b] = t[j]
  <2>1. PICK a \in 1 .. Len(s), b \in 1 .. Len(s) : a < b /\ s[a] = t[i] /\ s[b] = t[j]
    BY <1>2 DEF Thins
  <2> QED
    BY <2>1 DEF Thins
<1> QED
  BY <1>1, <1>2 DEF Thins

\* An element at the end keeps the order.
LEMMA ThinsAppend ==
    ASSUME NEW T, NEW s \in Seq(T), NEW t \in Seq(T), NEW x \in T, Thins(t, s)
    PROVE  Thins(t, Append(s, x)) /\ Thins(Append(t, x), Append(s, x))
<1> DEFINE u == Append(s, x)
           v == Append(t, x)
<1>1. /\ Len(u) = Len(s) + 1 /\ u[Len(s) + 1] = x /\ (\A i \in 1 .. Len(s) : u[i] = s[i])
      /\ Len(v) = Len(t) + 1 /\ v[Len(t) + 1] = x /\ (\A i \in 1 .. Len(t) : v[i] = t[i])
      /\ Len(s) \in Nat /\ Len(t) \in Nat
  OBVIOUS
<1> HIDE DEF u, v
<1>2. 1 .. Len(u) = 1 .. Len(s) \cup {Len(s) + 1} /\ 1 .. Len(v) = 1 .. Len(t) \cup {Len(t) + 1}
  BY <1>1
<1>3. \A i \in 1 .. Len(t) : \E a \in 1 .. Len(s) : u[a] = t[i]
  BY <1>1 DEF Thins
<1>4. ASSUME NEW i \in 1 .. Len(t), NEW j \in 1 .. Len(t), i < j
      PROVE  \E a, b \in 1 .. Len(s) : a < b /\ u[a] = t[i] /\ u[b] = t[j]
  <2>1. PICK a \in 1 .. Len(s), b \in 1 .. Len(s) : a < b /\ s[a] = t[i] /\ s[b] = t[j]
    BY <1>4 DEF Thins
  <2> QED
    BY <1>1, <2>1
<1>20. \A a \in 1 .. Len(s) : a \in 1 .. Len(u)
  BY <1>2
<1>5. Thins(t, u)
  <2>1. \A i \in 1 .. Len(t) : \E a \in 1 .. Len(u) : u[a] = t[i]
    BY <1>3, <1>20
  <2>2. \A i, j \in 1 .. Len(t) : i < j =>
            \E a, b \in 1 .. Len(u) : a < b /\ u[a] = t[i] /\ u[b] = t[j]
    BY ONLY <1>4, <1>20
  <2> QED
    BY <2>1, <2>2 DEF Thins
<1>6. \A i \in 1 .. Len(v) : \E a \in 1 .. Len(u) : u[a] = v[i]
  BY <1>1, <1>2, <1>3
<1>7. ASSUME NEW i \in 1 .. Len(v), NEW j \in 1 .. Len(v), i < j
      PROVE  \E a, b \in 1 .. Len(u) : a < b /\ u[a] = v[i] /\ u[b] = v[j]
  <2>1. i \in 1 .. Len(t)
    BY <1>1, <1>7
  <2>2. CASE j \in 1 .. Len(t)
    <3>1. v[i] = t[i] /\ v[j] = t[j]
      BY <1>1, <2>1, <2>2
    <3>2. PICK a \in 1 .. Len(s), b \in 1 .. Len(s) : a < b /\ u[a] = t[i] /\ u[b] = t[j]
      BY <1>4, <1>7, <2>1, <2>2
    <3> QED
      BY <1>20, <3>1, <3>2
  <2>3. CASE j = Len(t) + 1
    <3>1. PICK a \in 1 .. Len(s) : u[a] = t[i]
      BY <1>3, <2>1
    <3>2. a < Len(s) + 1 /\ Len(s) + 1 \in 1 .. Len(u) /\ a \in 1 .. Len(u)
      BY <1>1, <1>2
    <3>3. u[a] = v[i] /\ u[Len(s) + 1] = v[j]
      BY <1>1, <2>1, <2>3, <3>1
    <3> QED
      BY <3>2, <3>3
  <2> QED
    BY <1>2, <2>2, <2>3
<1>8. Thins(v, u)
  BY <1>6, <1>7 DEF Thins
<1> QED
  BY <1>5, <1>8 DEF u, v

\* What is left is in its order.
LEMMA FilterThins ==
    ASSUME NEW T, NEW S, NEW s \in Seq(T)
    PROVE  Thins(Filter(s, S), s)
<1> DEFINE Holds(r) == Thins(Filter(r, S), r)
           G == {r \in Seq(T) : Holds(r)}
<1>1. <<>> \in G
  BY FilterEmpty, ThinsSelf, EmptySeq
<1>2. ASSUME NEW r \in G, NEW x \in T PROVE Append(r, x) \in G
  <2>1. r \in Seq(T) /\ Thins(Filter(r, S), r) /\ Append(r, x) \in Seq(T)
    OBVIOUS
  <2>2. Filter(Append(r, x), S) = IF x \in S THEN Append(Filter(r, S), x) ELSE Filter(r, S)
    BY <2>1, FilterAppend
  <2>3. Filter(r, S) \in Seq(T)
    BY <2>1, FilterIsSeq
  <2>4. Thins(Filter(r, S), Append(r, x)) /\ Thins(Append(Filter(r, S), x), Append(r, x))
    BY <2>1, <2>3, ThinsAppend
  <2> QED
    BY <2>1, <2>2, <2>4
<1> HIDE DEF G
<1>3. \A r \in Seq(T) : r \in G
  BY <1>1, <1>2, SeqInduction
<1> QED
  BY <1>3 DEF G

\* The tail is what is left without the first element.
LEMMA TailThins ==
    ASSUME NEW T, NEW s \in Seq(T), s # <<>>
    PROVE  Thins(Tail(s), s)
<1>1. /\ Len(s) \in Nat /\ Len(Tail(s)) = Len(s) - 1
      /\ \A i \in 1 .. Len(Tail(s)) : Tail(s)[i] = s[i + 1]
  BY HeadTailProperties
<1>2. \A i \in 1 .. Len(Tail(s)) : i + 1 \in 1 .. Len(s)
  BY <1>1
<1> DEFINE t == Tail(s)
<1> HIDE DEF t
<1>3. \A i \in 1 .. Len(t) : i + 1 \in 1 .. Len(s) /\ s[i + 1] = t[i]
  BY <1>1, <1>2 DEF t
<1>4. \A i, j \in 1 .. Len(t) : i < j => i + 1 < j + 1
  BY <1>1 DEF t
<1>5. Thins(t, s)
  BY <1>3, <1>4 DEF Thins
<1> QED
  BY <1>5 DEF t

\* Order keeps elements apart.
LEMMA ThinsDistinct ==
    ASSUME NEW s, NEW t, Thins(t, s), Len(s) \in Nat, Len(t) \in Nat,
           \A a, b \in 1 .. Len(s) : s[a] = s[b] => a = b
    PROVE  \A i, j \in 1 .. Len(t) : t[i] = t[j] => i = j
<1>1. ASSUME NEW i \in 1 .. Len(t), NEW j \in 1 .. Len(t), i < j PROVE t[i] # t[j]
  <2>1. PICK a \in 1 .. Len(s), b \in 1 .. Len(s) : a < b /\ s[a] = t[i] /\ s[b] = t[j]
    BY <1>1 DEF Thins
  <2> QED
    BY <2>1
<1> QED
  BY <1>1
=============================================================================
