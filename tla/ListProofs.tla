----------------------------- MODULE ListProofs -----------------------------
(***************************************************************************)
(* Facts about the operators of Lists, about numbers and about sums that   *)
(* the proofs about the scheduler, the index lock and others rest on.      *)
(***************************************************************************)
EXTENDS Lists, SequenceTheorems, FiniteSetTheorems, TLAPS

\* A sequence is a function on the positions of its elements.
LEMMA RangeFacts ==
    ASSUME NEW S, NEW s \in Seq(S)
    PROVE  /\ Range(s) \subseteq S
           /\ s = <<>> <=> Range(s) = {}
           /\ \A e : Has(s, e) <=> e \in Range(s)
  <1>1. DOMAIN s = 1 .. Len(s) /\ Len(s) \in Nat /\ s \in [1 .. Len(s) -> S]
    BY LenProperties
  <1>2. s = <<>> <=> Len(s) = 0
    BY EmptySeq
  <1>3. Range(s) \subseteq S
    BY <1>1 DEF Range
  <1>4. s = <<>> <=> Range(s) = {}
    <2>1. s = <<>> => Range(s) = {}
      BY <1>1, <1>2 DEF Range
    <2>2. s # <<>> => s[1] \in Range(s)
      BY <1>1, <1>2 DEF Range
    <2>3. QED
      BY <2>1, <2>2
  <1>5. \A e : Has(s, e) <=> e \in Range(s)
    BY DEF Range, Has
  <1>6. QED
    BY <1>3, <1>4, <1>5

\* Appending a new element keeps the sequence free of repetition.
LEMMA AppendFacts ==
    ASSUME NEW S, NEW s \in Seq(S), NEW e \in S
    PROVE  /\ Append(s, e) \in Seq(S)
           /\ Range(Append(s, e)) = Range(s) \cup {e}
           /\ IsInjective(s) /\ e \notin Range(s) => IsInjective(Append(s, e))
  <1>1. /\ Append(s, e) \in Seq(S)
        /\ DOMAIN s = 1 .. Len(s) /\ Len(s) \in Nat
        /\ DOMAIN Append(s, e) = 1 .. Len(s) + 1
        /\ \A i \in 1 .. Len(s) : Append(s, e)[i] = s[i]
        /\ Append(s, e)[Len(s) + 1] = e
    BY LenProperties
  <1>2. Range(Append(s, e)) = Range(s) \cup {e}
    BY <1>1 DEF Range
  <1>3. ASSUME IsInjective(s), e \notin Range(s)
        PROVE  IsInjective(Append(s, e))
    BY <1>1, <1>3 DEF IsInjective, Range
  <1>4. QED
    BY <1>1, <1>2, <1>3

\* Removing an element of a sequence without repetition removes it for good.
LEMMA WithoutFacts ==
    ASSUME NEW S, NEW s \in Seq(S), NEW e
    PROVE  /\ Without(s, e) \in Seq(S)
           /\ Has(s, e) => Len(Without(s, e)) = Len(s) - 1
           /\ IsInjective(s) => /\ Range(Without(s, e)) = Range(s) \ {e}
                                /\ IsInjective(Without(s, e))
  <1>1. DOMAIN s = 1 .. Len(s) /\ Len(s) \in Nat /\ \A i \in 1 .. Len(s) : s[i] \in S
    BY LenProperties
  <1>2. CASE ~Has(s, e)
    BY <1>2, RangeFacts DEF Without
  <1>3. CASE Has(s, e)
    <2> DEFINE i == CHOOSE j \in DOMAIN s : s[j] = e
               l == SubSeq(s, 1, i - 1)
               r == SubSeq(s, i + 1, Len(s))
    <2>1. i \in 1 .. Len(s) /\ s[i] = e
      BY <1>1, <1>3 DEF Has
    <2> HIDE DEF i
    <2>2. /\ l \in Seq(S) /\ Len(l) = i - 1
          /\ \A j \in 1 .. i - 1 : l[j] = s[j]
      BY <1>1, <2>1, SubSeqProperties
    <2>3. /\ r \in Seq(S) /\ Len(r) = Len(s) - i
          /\ \A j \in 1 .. Len(s) - i : r[j] = s[i + j]
      <3>1. \A j \in i + 1 .. Len(s) : s[j] \in S
        BY <1>1, <2>1
      <3>2. i + 1 \in Int /\ Len(s) \in Int
        BY <1>1, <2>1
      <3>3. /\ r \in Seq(S)
            /\ Len(r) = IF i + 1 <= Len(s) THEN Len(s) - (i + 1) + 1 ELSE 0
            /\ \A j \in 1 .. Len(s) - (i + 1) + 1 : r[j] = s[(i + 1) + j - 1]
        BY <3>1, <3>2, SubSeqProperties
      <3> HIDE DEF r
      <3>4. Len(r) = Len(s) - i
        <4>1. CASE i + 1 <= Len(s)
          BY <4>1, <1>1, <2>1, <3>3
        <4>2. CASE ~(i + 1 <= Len(s))
          <5>1. Len(r) = 0
            BY <4>2, <3>3
          <5>2. Len(s) \in Nat /\ i \in 1 .. Len(s)
            BY <1>1, <2>1
          <5>3. QED
            BY <5>1, <5>2, <4>2
        <4>3. QED
          BY <4>1, <4>2
      <3>5. ASSUME NEW j \in 1 .. Len(s) - i
            PROVE  r[j] = s[i + j]
        <4>1. j \in 1 .. Len(s) - (i + 1) + 1 /\ (i + 1) + j - 1 = i + j
          BY <1>1, <2>1
        <4>2. QED
          BY <4>1, <3>3
      <3>6. QED
        BY <3>3, <3>4, <3>5
    <2> HIDE DEF l, r
    <2> DEFINE t == l \o r
    <2>4. /\ t \in Seq(S) /\ Len(t) = Len(s) - 1
          /\ \A j \in 1 .. Len(s) - 1 : t[j] = IF j < i THEN s[j] ELSE s[j + 1]
      <3>1. /\ t \in Seq(S) /\ Len(t) = Len(l) + Len(r)
            /\ \A j \in 1 .. Len(l) + Len(r) :
                 t[j] = IF j <= Len(l) THEN l[j] ELSE r[j - Len(l)]
        BY <2>2, <2>3, ConcatProperties
      <3> HIDE DEF t
      <3>2. Len(l) + Len(r) = Len(s) - 1
        BY <2>1, <2>2, <2>3, <1>1
      <3>3. ASSUME NEW j \in 1 .. Len(s) - 1
            PROVE  t[j] = IF j < i THEN s[j] ELSE s[j + 1]
        <4>1. CASE j < i
          BY <4>1, <3>1, <3>2, <2>1, <2>2, <1>1
        <4>2. CASE ~(j < i)
          <5>1. /\ t[j] = r[j - Len(l)] /\ j - Len(l) \in 1 .. Len(s) - i
                /\ i + (j - Len(l)) = j + 1
            BY <4>2, <3>1, <3>2, <2>1, <2>2, <1>1
          <5>2. QED
            BY <5>1, <4>2, <2>3
        <4>3. QED
          BY <4>1, <4>2
      <3>4. QED
        BY <3>1, <3>2, <3>3
    <2>5. Without(s, e) = t
      BY <1>3 DEF Without, i, l, r
    <2>6. DOMAIN t = 1 .. Len(s) - 1
      BY <2>4, LenProperties
    <2> HIDE DEF t
    <2>7. ASSUME IsInjective(s)
          PROVE  IsInjective(t)
      BY <2>7, <1>1, <2>1, <2>4, <2>6 DEF IsInjective
    <2>8. ASSUME IsInjective(s)
          PROVE  Range(t) = Range(s) \ {e}
      <3>1. Range(t) \subseteq Range(s) \ {e}
        BY <2>8, <1>1, <2>1, <2>4, <2>6 DEF IsInjective, Range
      <3>2. ASSUME NEW x \in Range(s) \ {e}
            PROVE  x \in Range(t)
        <4>1. PICK j \in 1 .. Len(s) : s[j] = x
          BY <1>1 DEF Range
        <4>2. j # i
          BY <4>1, <2>1
        <4>3. CASE j < i
          BY <4>1, <4>3, <2>1, <2>4, <2>6, <1>1 DEF Range
        <4>4. CASE j > i
          <5>1. j - 1 \in 1 .. Len(s) - 1 /\ t[j - 1] = x
            BY <4>1, <4>4, <2>1, <2>4, <1>1
          <5>2. QED
            BY <5>1, <2>6 DEF Range
        <4>5. QED
          BY <4>1, <4>2, <4>3, <4>4, <2>1, <1>1
      <3>3. QED
        BY <3>1, <3>2
    <2>9. QED
      BY <2>4, <2>5, <2>7, <2>8
  <1>4. QED
    BY <1>2, <1>3

\* Every set of natural numbers has a least element.
LEMMA LeastNatural ==
    ASSUME NEW T, T \subseteq Nat, T # {}
    PROVE  \E x \in T : \A y \in T : x <= y
  <1>1. PICK x \in T : \A y \in T : <<y, x>> \notin OpToRel(<, Nat)
    BY WFMin, NatLessThanWellFounded
  <1>2. ASSUME NEW y \in T
        PROVE  x <= y
    <2>1. ~(y < x)
      BY <1>1 DEF OpToRel
    <2>2. QED
      BY <2>1
  <1>3. QED
    BY <1>2

\* And a largest one, if it has a bound.
LEMMA LargestNatural ==
    ASSUME NEW n \in Nat, NEW T, T \subseteq 0 .. n, T # {}
    PROVE  \E x \in T : \A y \in T : x >= y
  <1> DEFINE D == {n - x : x \in T}
  <1>1. D \subseteq Nat
    <2>1. \A x \in T : n - x \in Nat
      OBVIOUS
    <2>2. QED
      BY <2>1
  <1>2. D # {}
    <2>1. PICK x : x \in T
      OBVIOUS
    <2>2. n - x \in D
      BY <2>1
    <2>3. QED
      BY <2>2
  <1>3. PICK d \in D : \A e \in D : d <= e
    BY <1>1, <1>2, LeastNatural
  <1>4. PICK x \in T : d = n - x
    BY <1>3
  <1>5. ASSUME NEW y \in T
        PROVE  x >= y
    <2>1. n - x <= n - y
      BY <1>3, <1>4
    <2>2. QED
      BY <2>1
  <1>6. QED
    BY <1>5

\* So has every finite set of them that is not empty.
LEMMA GreatestNatural ==
    ASSUME NEW T, T \subseteq Nat, IsFiniteSet(T), T # {}
    PROVE  \E x \in T : \A y \in T : x >= y
  <1> DEFINE Bounded(U) == \E x \in U : \A y \in U : x >= y
             Bad == {U \in FiniteSubsetsOf(Nat) : U # {} /\ ~Bounded(U)}
  <1>1. Bad = {}
    <2>1. SUFFICES ASSUME Bad # {}
                   PROVE  FALSE
      OBVIOUS
    <2>2. PICK U \in Bad : \A V \in Bad : <<V, U>> \notin StrictSubsetOrdering(Nat)
      BY <2>1, WFMin, FS_StrictSubsetOrderingWellFounded
    <2>3. U \subseteq Nat /\ IsFiniteSet(U) /\ U # {} /\ ~Bounded(U)
      BY <2>2 DEF FiniteSubsetsOf
    <2>4. PICK x \in U : TRUE
      BY <2>3
    <2>5. U \ {x} \subseteq Nat /\ IsFiniteSet(U \ {x})
      BY <2>3, FS_RemoveElement
    <2>6. <<U \ {x}, U>> \in StrictSubsetOrdering(Nat)
      BY <2>3, <2>4, <2>5 DEF StrictSubsetOrdering
    <2>7. U \ {x} = {} \/ Bounded(U \ {x})
      BY <2>2, <2>5, <2>6 DEF FiniteSubsetsOf
    <2>8. CASE U \ {x} = {}
      BY <2>3, <2>4, <2>8
    <2>9. CASE Bounded(U \ {x})
      <3>1. PICK m \in U \ {x} : \A y \in U \ {x} : m >= y
        BY <2>9
      <3>2. CASE m >= x
        BY <3>1, <3>2, <2>3
      <3>3. CASE ~(m >= x)
        <4>1. \A y \in U : x >= y
          BY <3>1, <3>3, <2>3, <2>4
        <4>2. QED
          BY <4>1, <2>3, <2>4
      <3>4. QED
        BY <3>2, <3>3
    <2>10. QED
      BY <2>7, <2>8, <2>9
  <1>2. QED
    BY <1>1 DEF FiniteSubsetsOf

\* What is left of a sequence without repetition when its first k elements are
\* taken away has none of them.
LEMMA SuffixFacts ==
    ASSUME NEW S, NEW w \in Seq(S), NEW k \in 0 .. Len(w)
    PROVE  LET v == SubSeq(w, k + 1, Len(w))
               F == {w[i] : i \in 1 .. k}
           IN  /\ v \in Seq(S) /\ F \subseteq S
               /\ IsInjective(w) => /\ IsInjective(v)
                                    /\ Range(v) = Range(w) \ F
                                    /\ F \subseteq Range(w)
  <1> DEFINE v == SubSeq(w, k + 1, Len(w))
             F == {w[i] : i \in 1 .. k}
  <1>1. DOMAIN w = 1 .. Len(w) /\ Len(w) \in Nat /\ \A i \in 1 .. Len(w) : w[i] \in S
    BY LenProperties
  <1>2. k \in Nat /\ Len(w) \in Nat /\ k <= Len(w)
    BY <1>1
  <1>3. /\ v \in Seq(S) /\ Len(v) = Len(w) - k
        /\ \A j \in 1 .. Len(w) - k : v[j] = w[k + j]
    <2>1. k + 1 \in Int /\ Len(w) \in Int /\ \A j \in k + 1 .. Len(w) : w[j] \in S
      BY <1>1, <1>2
    <2>2. /\ v \in Seq(S)
          /\ Len(v) = IF k + 1 <= Len(w) THEN Len(w) - (k + 1) + 1 ELSE 0
          /\ \A j \in 1 .. Len(w) - (k + 1) + 1 : v[j] = w[(k + 1) + j - 1]
      BY <2>1, SubSeqProperties
    <2> HIDE DEF v
    <2>3. Len(v) = Len(w) - k
      <3>1. CASE k + 1 <= Len(w)
        BY <3>1, <1>1, <1>2, <2>2
      <3>2. CASE ~(k + 1 <= Len(w))
        <4>1. Len(v) = 0
          BY <3>2, <2>2
        <4>2. Len(w) = k
          BY <3>2, <1>2
        <4>3. QED
          BY <4>1, <4>2, <1>2
      <3>3. QED
        BY <3>1, <3>2
    <2>4. ASSUME NEW j \in 1 .. Len(w) - k
          PROVE  v[j] = w[k + j]
      <3>1. j \in 1 .. Len(w) - (k + 1) + 1 /\ (k + 1) + j - 1 = k + j
        BY <1>1, <1>2
      <3>2. QED
        BY <3>1, <2>2
    <2>5. QED
      BY <2>2, <2>3, <2>4
  <1> HIDE DEF v
  <1>4. DOMAIN v = 1 .. Len(w) - k
    BY <1>3, LenProperties
  <1>5. F \subseteq S /\ F \subseteq Range(w)
    BY <1>1, <1>2 DEF Range
  <1>6. ASSUME IsInjective(w)
        PROVE  IsInjective(v) /\ Range(v) = Range(w) \ F
    <2>1. \A j \in 1 .. Len(w) - k : k + j \in 1 .. Len(w)
      BY <1>1, <1>2
    <2>2. IsInjective(v)
      <3>1. SUFFICES ASSUME NEW i \in 1 .. Len(w) - k, NEW j \in 1 .. Len(w) - k,
                            v[i] = v[j]
                     PROVE  i = j
        BY <1>4 DEF IsInjective
      <3>2. w[k + i] = w[k + j]
        BY <3>1, <1>3
      <3>3. k + i = k + j
        BY <3>2, <2>1, <1>1, <1>6 DEF IsInjective
      <3>4. QED
        BY <3>3, <1>1, <1>2
    <2>3. ASSUME NEW j \in 1 .. Len(w) - k
          PROVE  v[j] \in Range(w) \ F
      <3>1. v[j] = w[k + j] /\ k + j \in 1 .. Len(w)
        BY <1>3, <2>1
      <3>2. ASSUME NEW i \in 1 .. k
            PROVE  w[i] # v[j]
        <4>1. i \in 1 .. Len(w) /\ i # k + j
          BY <1>1, <1>2
        <4>2. QED
          BY <4>1, <3>1, <1>1, <1>6 DEF IsInjective
      <3>3. QED
        BY <3>1, <3>2, <1>1 DEF Range
    <2>4. ASSUME NEW x \in Range(w) \ F
          PROVE  x \in Range(v)
      <3>1. PICK i \in 1 .. Len(w) : w[i] = x
        BY <1>1 DEF Range
      <3>2. ~(i \in 1 .. k)
        BY <3>1, <2>4
      <3>3. i - k \in 1 .. Len(w) - k /\ k + (i - k) = i
        BY <3>2, <1>1, <1>2
      <3>4. v[i - k] = x
        BY <3>1, <3>3, <1>3
      <3>5. QED
        BY <3>3, <3>4, <1>4 DEF Range
    <2>5. QED
      BY <1>4, <2>2, <2>3, <2>4 DEF Range
  <1>7. QED
    BY <1>3, <1>5, <1>6 DEF v

\* Whoever comes in one after the other, and in the way of nobody who may not
\* share with others, leaves each of those alone.
LEMMA OneByOne ==
    ASSUME NEW H, NEW W, NEW w, NEW k \in Nat,
           \A p \in H \cap W : H = {p},
           \A i \in 1 .. k : LET L == H \cup {w[j] : j \in 1 .. i - 1}
                             IN  L = {} \/ (w[i] \notin W /\ L \cap W = {})
    PROVE  \A p \in (H \cup {w[i] : i \in 1 .. k}) \cap W :
             H \cup {w[i] : i \in 1 .. k} = {p}
  <1> DEFINE L(i) == H \cup {w[j] : j \in 1 .. i - 1}
             E == H \cup {w[i] : i \in 1 .. k}
  <1>1. \A x \in E : x \in H \/ \E i \in 1 .. k : x = w[i]
    OBVIOUS
  <1>2. ASSUME NEW i \in 1 .. k, NEW j \in 1 .. k, j < i
        PROVE  w[j] \in L(i)
    <2>1. j \in 1 .. i - 1
      BY <1>2
    <2>2. QED
      BY <2>1
  <1>3. ASSUME NEW i \in 1 .. k, NEW y \in L(i)
        PROVE  w[i] \notin W /\ y \notin W
    OBVIOUS
  <1>4. \A i : H \subseteq L(i)
    OBVIOUS
  <1> HIDE DEF L
  <1>5. ASSUME NEW x \in E, NEW y \in E, x \in W
        PROVE  x = y
    <2>1. CASE x \in H /\ y \in H
      BY <2>1, <1>5
    <2>2. CASE x \in H /\ y \notin H
      <3>1. PICK j \in 1 .. k : y = w[j]
        BY <1>1, <2>2
      <3>2. QED
        BY <1>3, <1>4, <1>5, <2>2, <3>1
    <2>3. CASE x \notin H
      <3>1. PICK i \in 1 .. k : x = w[i]
        BY <1>1, <2>3
      <3>2. CASE y \in H
        BY <1>3, <1>4, <1>5, <3>1, <3>2
      <3>3. CASE y \notin H
        <4>1. PICK j \in 1 .. k : y = w[j]
          BY <1>1, <3>3
        <4>2. ~(j < i) /\ ~(i < j)
          BY <1>2, <1>3, <1>5, <3>1, <4>1
        <4>3. QED
          BY <3>1, <4>1, <4>2
      <3>4. QED
        BY <3>2, <3>3
    <2>4. QED
      BY <2>1, <2>2, <2>3
  <1> HIDE DEF E
  <1>6. \A p \in E \cap W : E = {p}
    BY <1>5
  <1>7. QED
    BY <1>6 DEF E

-----------------------------------------------------------------------------
(* Sums over finite sets. *)

\* The member of a set that SumFunctionOnSet adds first, and the function it
\* evaluates: the sums over the subsets of S, each from the one with a member less.
One(s) == CHOOSE x \in s : TRUE

Adding(fun, s, it) == IF s = {} THEN 0 ELSE fun[One(s)] + it[s \ {One(s)}]

IsSums(fun, D, it) == it = [s \in D |-> Adding(fun, s, it)]

LEMMA OneFacts ==
    ASSUME NEW s, IsFiniteSet(s), s # {}
    PROVE  /\ One(s) \in s /\ IsFiniteSet(s \ {One(s)})
           /\ Cardinality(s) \in Nat /\ Cardinality(s \ {One(s)}) \in Nat
           /\ Cardinality(s \ {One(s)}) = Cardinality(s) - 1
  <1>1. One(s) \in s
    BY DEF One
  <1>2. QED
    BY <1>1, FS_RemoveElement, FS_CardinalityType

\* The recursion has a solution: on the sets of at most n members, for every n.
LEMMA SumsExist ==
    ASSUME NEW fun, NEW S, IsFiniteSet(S)
    PROVE  \E it : IsSums(fun, SUBSET S, it)
  <1> DEFINE D(n) == {s \in SUBSET S : Cardinality(s) <= n}
             Bad == {n \in Nat : ~ \E it : IsSums(fun, D(n), it)}
  <1>1. \A s \in SUBSET S : IsFiniteSet(s) /\ Cardinality(s) \in 0 .. Cardinality(S)
    BY FS_Subset, FS_CardinalityType
  <1>2. Bad = {}
    <2>1. SUFFICES ASSUME Bad # {}
                   PROVE  FALSE
      OBVIOUS
    <2>2. PICK n \in Bad : \A m \in Bad : n <= m
      <3>1. Bad \subseteq Nat
        OBVIOUS
      <3> HIDE DEF Bad
      <3>2. QED
        BY <2>1, <3>1, LeastNatural
    <2>3. CASE n = 0
      <3>1. D(0) = {{}}
        <4>1. \A s \in SUBSET S : Cardinality(s) <= 0 <=> s = {}
          BY <1>1, FS_EmptySet
        <4>2. QED
          BY <4>1
      <3>2. IsSums(fun, D(0), [s \in D(0) |-> 0])
        BY <3>1 DEF IsSums, Adding
      <3>3. QED
        BY <2>2, <2>3, <3>2
    <2>4. CASE n # 0
      <3>1. n - 1 \in Nat /\ n \in Nat /\ n - 1 \notin Bad
        <4>1. n \in Nat /\ n - 1 \in Nat
          BY <2>2, <2>4
        <4> HIDE DEF Bad
        <4>2. QED
          BY <2>2, <4>1
      <3>2. PICK it : IsSums(fun, D(n - 1), it)
        BY <3>1
      <3> DEFINE next == [s \in D(n) |-> Adding(fun, s, it)]
      <3>3. \A s \in D(n - 1) : s \in D(n) /\ it[s] = Adding(fun, s, it)
        BY <3>1, <3>2, <1>1 DEF IsSums
      <3>4. ASSUME NEW s \in D(n), s # {}
            PROVE  s \ {One(s)} \in D(n - 1)
        BY <3>1, <3>4, <1>1, OneFacts
      <3>5. \A s \in D(n - 1) : next[s] = it[s]
        BY <3>3
      <3>6. ASSUME NEW s \in D(n)
            PROVE  Adding(fun, s, it) = Adding(fun, s, next)
        <4>1. CASE s = {}
          BY <4>1 DEF Adding
        <4>2. CASE s # {}
          <5>1. next[s \ {One(s)}] = it[s \ {One(s)}]
            BY <3>4, <3>5, <4>2
          <5> HIDE DEF next
          <5>2. QED
            BY <5>1 DEF Adding
        <4>3. QED
          BY <4>1, <4>2
      <3>7. next = [s \in D(n) |-> Adding(fun, s, next)]
        BY <3>6
      <3>8. IsSums(fun, D(n), next)
        BY <3>7 DEF IsSums
      <3>9. QED
        BY <2>2, <3>8
    <2>5. QED
      BY <2>3, <2>4
  <1>3. Cardinality(S) \in Nat
    BY FS_CardinalityType
  <1>4. D(Cardinality(S)) = SUBSET S
    BY <1>1
  <1>5. QED
    BY <1>2, <1>3, <1>4

LEMMA SumIsOne ==
    ASSUME NEW fun, NEW S, IsFiniteSet(S)
    PROVE  \E it : IsSums(fun, SUBSET S, it) /\ SumFunctionOnSet(fun, S) = it[S]
  <1> DEFINE it == CHOOSE f : f = [s \in SUBSET S |->
                       IF s = {} THEN 0 ELSE fun[CHOOSE x \in s : TRUE]
                                               + f[s \ {CHOOSE x \in s : TRUE}]]
  <1>1. SumFunctionOnSet(fun, S) = it[S]
    BY Zenon DEF SumFunctionOnSet, FoldFunctionOnSet, MapThenFoldSet
  <1>2. IsSums(fun, SUBSET S, it)
    <2>1. \E f : f = [s \in SUBSET S |->
                       IF s = {} THEN 0 ELSE fun[CHOOSE x \in s : TRUE]
                                               + f[s \ {CHOOSE x \in s : TRUE}]]
      <3>1. PICK f : IsSums(fun, SUBSET S, f)
        BY SumsExist
      <3>2. f = [s \in SUBSET S |->
                       IF s = {} THEN 0 ELSE fun[CHOOSE x \in s : TRUE]
                                               + f[s \ {CHOOSE x \in s : TRUE}]]
        BY <3>1, Zenon DEF IsSums, Adding, One
      <3>3. QED
        BY <3>2, Zenon
    <2>2. it = [s \in SUBSET S |->
                       IF s = {} THEN 0 ELSE fun[CHOOSE x \in s : TRUE]
                                               + it[s \ {CHOOSE x \in s : TRUE}]]
      BY <2>1, Zenon
    <2>3. QED
      BY <2>2, Zenon DEF IsSums, Adding, One
  <1>3. QED
    BY <1>1, <1>2

\* Two solutions agree where both are defined.
LEMMA SumsAgree ==
    ASSUME NEW fun, NEW S, IsFiniteSet(S), NEW T \in SUBSET S, NEW f, NEW g,
           IsSums(fun, SUBSET S, f), IsSums(fun, SUBSET T, g)
    PROVE  f[T] = g[T]
  <1> DEFINE Bad == {n \in Nat : \E s \in SUBSET T : Cardinality(s) = n /\ f[s] # g[s]}
  <1>1. \A s \in SUBSET T : IsFiniteSet(s) /\ Cardinality(s) \in Nat
    BY FS_Subset, FS_CardinalityType
  <1>2. Bad = {}
    <2>1. SUFFICES ASSUME Bad # {}
                   PROVE  FALSE
      OBVIOUS
    <2>2. PICK n \in Bad : \A m \in Bad : n <= m
      <3>1. Bad \subseteq Nat
        OBVIOUS
      <3> HIDE DEF Bad
      <3>2. QED
        BY <2>1, <3>1, LeastNatural
    <2>3. PICK s \in SUBSET T : Cardinality(s) = n /\ f[s] # g[s]
      BY <2>2
    <2>4. f[s] = Adding(fun, s, f) /\ g[s] = Adding(fun, s, g)
      BY DEF IsSums
    <2>5. s # {} /\ f[s \ {One(s)}] # g[s \ {One(s)}]
      BY <2>3, <2>4 DEF Adding
    <2>6. Cardinality(s \ {One(s)}) \in Bad
      BY <1>1, <2>5, OneFacts
    <2>7. QED
      BY <1>1, <2>2, <2>3, <2>5, <2>6, OneFacts
  <1>3. QED
    BY <1>1, <1>2

\* What the definition computes, without the functions.
LEMMA SumUnfolds ==
    ASSUME NEW fun, NEW S, IsFiniteSet(S)
    PROVE  SumFunctionOnSet(fun, S) =
             IF S = {} THEN 0 ELSE fun[One(S)] + SumFunctionOnSet(fun, S \ {One(S)})
  <1>1. PICK f : IsSums(fun, SUBSET S, f) /\ SumFunctionOnSet(fun, S) = f[S]
    BY SumIsOne
  <1>2. f[S] = Adding(fun, S, f)
    BY <1>1 DEF IsSums
  <1>3. CASE S = {}
    BY <1>1, <1>2, <1>3 DEF Adding
  <1>4. CASE S # {}
    <2> DEFINE T == S \ {One(S)}
    <2>1. T \in SUBSET S /\ IsFiniteSet(T)
      BY <1>4, OneFacts
    <2>2. PICK g : IsSums(fun, SUBSET T, g) /\ SumFunctionOnSet(fun, T) = g[T]
      BY <2>1, SumIsOne
    <2>3. SumFunctionOnSet(fun, S) = fun[One(S)] + f[T]
      BY <1>1, <1>2, <1>4 DEF Adding
    <2> HIDE DEF T
    <2>4. f[T] = g[T]
      BY <1>1, <2>1, <2>2, SumsAgree
    <2>5. SumFunctionOnSet(fun, S) = fun[One(S)] + SumFunctionOnSet(fun, T)
      BY <2>2, <2>3, <2>4
    <2>6. QED
      BY <1>4, <2>5 DEF T
  <1>5. QED
    BY <1>3, <1>4

LEMMA SumInt ==
    ASSUME NEW fun, NEW S, IsFiniteSet(S), \A x \in S : fun[x] \in Nat
    PROVE  SumFunctionOnSet(fun, S) \in Nat
  <1> DEFINE Bad == {n \in Nat : \E s \in SUBSET S : Cardinality(s) = n
                                                    /\ SumFunctionOnSet(fun, s) \notin Nat}
  <1>1. \A s \in SUBSET S : IsFiniteSet(s) /\ Cardinality(s) \in Nat
    BY FS_Subset, FS_CardinalityType
  <1>2. Bad = {}
    <2>1. SUFFICES ASSUME Bad # {}
                   PROVE  FALSE
      OBVIOUS
    <2>2. PICK n \in Bad : \A m \in Bad : n <= m
      <3>1. Bad \subseteq Nat
        OBVIOUS
      <3> HIDE DEF Bad
      <3>2. QED
        BY <2>1, <3>1, LeastNatural
    <2>3. PICK s \in SUBSET S : Cardinality(s) = n /\ SumFunctionOnSet(fun, s) \notin Nat
      BY <2>2
    <2>4. s # {}
      <3>1. SumFunctionOnSet(fun, {}) = 0
        BY SumUnfolds, FS_EmptySet
      <3>2. QED
        BY <2>3, <3>1
    <2>5. One(s) \in s /\ Cardinality(s \ {One(s)}) = n - 1
      BY <1>1, <2>3, <2>4, OneFacts
    <2>6. SumFunctionOnSet(fun, s) = fun[One(s)] + SumFunctionOnSet(fun, s \ {One(s)})
      BY <1>1, <2>4, SumUnfolds
    <2>7. SumFunctionOnSet(fun, s \ {One(s)}) \notin Nat
      BY <2>3, <2>5, <2>6
    <2>8. n - 1 \in Bad
      BY <1>1, <2>2, <2>3, <2>5, <2>7
    <2>9. QED
      BY <2>2, <2>8
  <1>3. QED
    BY <1>1, <1>2

\* The order in which the members are added does not matter.
LEMMA SumRemoves ==
    ASSUME NEW fun, NEW S, IsFiniteSet(S), \A x \in S : fun[x] \in Nat, NEW e \in S
    PROVE  SumFunctionOnSet(fun, S) = fun[e] + SumFunctionOnSet(fun, S \ {e})
  <1> DEFINE Sum(s) == SumFunctionOnSet(fun, s)
             Bad == {n \in Nat : \E s \in SUBSET S : Cardinality(s) = n
                                   /\ \E x \in s : Sum(s) # fun[x] + Sum(s \ {x})}
  <1>1. \A s \in SUBSET S : IsFiniteSet(s) /\ Cardinality(s) \in Nat /\ Sum(s) \in Nat
    BY FS_Subset, FS_CardinalityType, SumInt
  <1>2. \A s \in SUBSET S : s # {} => /\ One(s) \in s /\ Sum(s) = fun[One(s)] + Sum(s \ {One(s)})
                                      /\ Cardinality(s \ {One(s)}) = Cardinality(s) - 1
    BY <1>1, SumUnfolds, OneFacts
  <1> HIDE DEF Sum
  <1>3. Bad = {}
    <2>1. SUFFICES ASSUME Bad # {}
                   PROVE  FALSE
      OBVIOUS
    <2>2. PICK n \in Bad : \A m \in Bad : n <= m
      <3>1. Bad \subseteq Nat
        OBVIOUS
      <3> HIDE DEF Bad
      <3>2. QED
        BY <2>1, <3>1, LeastNatural
    <2>3. PICK s \in SUBSET S : Cardinality(s) = n
                                /\ \E x \in s : Sum(s) # fun[x] + Sum(s \ {x})
      BY <2>2
    <2>4. PICK x \in s : Sum(s) # fun[x] + Sum(s \ {x})
      BY <2>3
    <2> DEFINE y == One(s)
    <2>5. /\ y \in s /\ Sum(s) = fun[y] + Sum(s \ {y})
          /\ Cardinality(s \ {y}) = n - 1 /\ n \in Nat
      BY <1>2, <2>2, <2>3
    <2> HIDE DEF y
    <2>6. x # y
      BY <2>4, <2>5
    <2>7. n - 1 \in Nat /\ n - 1 \notin Bad
      BY <1>1, <2>2, <2>5
    <2>8. Sum(s \ {y}) = fun[x] + Sum((s \ {y}) \ {x})
      BY <2>5, <2>6, <2>7
    <2>9. Cardinality(s \ {x}) = n - 1
      BY <1>1, <2>3, FS_RemoveElement
    <2>10. Sum(s \ {x}) = fun[y] + Sum((s \ {x}) \ {y})
      BY <2>5, <2>6, <2>7, <2>9
    <2>11. (s \ {x}) \ {y} = (s \ {y}) \ {x}
      OBVIOUS
    <2>12. /\ fun[x] \in Nat /\ fun[y] \in Nat
           /\ Sum((s \ {y}) \ {x}) \in Nat
      BY <1>1, <2>5
    <2> DEFINE c == Sum((s \ {y}) \ {x})
    <2>13. Sum(s) = fun[y] + (fun[x] + c) /\ Sum(s \ {x}) = fun[y] + c /\ c \in Nat
      BY <2>5, <2>8, <2>10, <2>11, <2>12
    <2> HIDE DEF c, Bad
    <2>14. fun[y] + (fun[x] + c) = fun[x] + (fun[y] + c)
      BY <2>12, <2>13
    <2>15. QED
      BY <2>4, <2>13, <2>14
  <1>4. Sum(S) = fun[e] + Sum(S \ {e})
    BY <1>1, <1>3
  <1>5. QED
    BY <1>4 DEF Sum

LEMMA SumAdds ==
    ASSUME NEW fun, NEW S, IsFiniteSet(S), NEW e, e \notin S,
           \A x \in S \cup {e} : fun[x] \in Nat
    PROVE  SumFunctionOnSet(fun, S \cup {e}) = SumFunctionOnSet(fun, S) + fun[e]
  <1> DEFINE T == S \cup {e}
  <1>1. IsFiniteSet(T) /\ e \in T /\ T \ {e} = S
    BY FS_AddElement
  <1>2. SumFunctionOnSet(fun, S) \in Nat /\ fun[e] \in Nat
    BY SumInt
  <1> HIDE DEF T
  <1>3. SumFunctionOnSet(fun, T) = fun[e] + SumFunctionOnSet(fun, T \ {e})
    BY <1>1, SumRemoves DEF T
  <1>4. QED
    BY <1>1, <1>2, <1>3 DEF T

\* The sum over a set is that over a part of it and over the rest.
LEMMA SumSplits ==
    ASSUME NEW fun, NEW S, IsFiniteSet(S), \A x \in S : fun[x] \in Nat, NEW T \in SUBSET S
    PROVE  SumFunctionOnSet(fun, S) = SumFunctionOnSet(fun, T) + SumFunctionOnSet(fun, S \ T)
  <1> DEFINE Sum(s) == SumFunctionOnSet(fun, s)
             Bad == {n \in Nat : \E t \in SUBSET S : Cardinality(t) = n
                                                    /\ Sum(S) # Sum(t) + Sum(S \ t)}
  <1>1. \A s \in SUBSET S : IsFiniteSet(s) /\ Cardinality(s) \in Nat /\ Sum(s) \in Nat
    BY FS_Subset, FS_CardinalityType, SumInt
  <1>2. \A s \in SUBSET S : \A x \in s : Sum(s) = fun[x] + Sum(s \ {x})
    BY <1>1, SumRemoves
  <1>3. Sum({}) = 0
    BY SumUnfolds, FS_EmptySet
  <1> HIDE DEF Sum
  <1>4. Bad = {}
    <2>1. SUFFICES ASSUME Bad # {}
                   PROVE  FALSE
      OBVIOUS
    <2>2. PICK n \in Bad : \A m \in Bad : n <= m
      <3>1. Bad \subseteq Nat
        OBVIOUS
      <3> HIDE DEF Bad
      <3>2. QED
        BY <2>1, <3>1, LeastNatural
    <2>3. PICK t \in SUBSET S : Cardinality(t) = n /\ Sum(S) # Sum(t) + Sum(S \ t)
      BY <2>2
    <2>4. t # {}
      <3>1. CASE t = {}
        <4>1. S \ t = S /\ Sum(t) = 0 /\ Sum(S) \in Nat
          BY <1>1, <1>3, <3>1
        <4>2. QED
          BY <2>3, <4>1
      <3>2. QED
        BY <3>1
    <2>5. PICK x \in t : TRUE
      BY <2>4
    <2> DEFINE u == t \ {x}
    <2>6. /\ u \in SUBSET S /\ Cardinality(u) = n - 1 /\ n \in Nat /\ n - 1 \in Nat
          /\ Sum(t) = fun[x] + Sum(u)
      <3>1. u \in SUBSET S /\ Sum(t) = fun[x] + Sum(u)
        BY <1>2, <2>3
      <3>2. IsFiniteSet(t) /\ Cardinality(t) \in Nat /\ Cardinality(u) \in Nat
        BY <1>1, <2>3, <3>1
      <3>3. Cardinality(u) = Cardinality(t) - 1
        BY <2>5, <3>2, FS_RemoveElement
      <3>4. QED
        BY <2>3, <3>1, <3>2, <3>3
    <2>7. Sum(S \ u) = fun[x] + Sum(S \ t)
      <3>1. x \in S \ u /\ (S \ u) \ {x} = S \ t
        OBVIOUS
      <3>2. S \ u \in SUBSET S
        OBVIOUS
      <3>3. Sum(S \ u) = fun[x] + Sum((S \ u) \ {x})
        BY <1>2, <3>1, <3>2
      <3>4. QED
        BY <3>1, <3>3
    <2>8. fun[x] \in Nat /\ Sum(u) \in Nat /\ Sum(S \ t) \in Nat
      BY <1>1, <2>6
    <2> HIDE DEF u
    <2>9. Sum(S) # Sum(u) + Sum(S \ u)
      BY <2>3, <2>6, <2>7, <2>8
    <2>10. n - 1 \in Bad
      BY <2>6, <2>9
    <2> HIDE DEF Bad
    <2>11. QED
      BY <2>2, <2>6, <2>10
  <1>5. Sum(S) = Sum(T) + Sum(S \ T)
    BY <1>1, <1>4
  <1>6. QED
    BY <1>5 DEF Sum
=============================================================================
