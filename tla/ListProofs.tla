----------------------------- MODULE ListProofs ------------------------------
(***************************************************************************)
(* Lists and the sets of their elements, and what Only returns.  The       *)
(* induction is over the prefixes of the list; it is stated with the set   *)
(* of the numbers that have the property.                                  *)
(***************************************************************************)
EXTENDS Lists, Integers, FiniteSetTheorems,
        WellFoundedInduction, TLAPS

\* Induction on the natural numbers, for a property given as a set.
LEMMA SetInduction ==
  ASSUME NEW P \in SUBSET Nat, 0 \in P, \A n \in P : n + 1 \in P
  PROVE  P = Nat
<1> DEFINE R == {p \in Nat \X Nat : p[1] < p[2]}
           U == Nat \ P
<1>1. IsWellFoundedOn(R, Nat)
  BY NatLessThanWellFounded DEF OpToRel
<1>2. SUFFICES ASSUME U # {} PROVE FALSE
  OBVIOUS
<1>3. PICK n \in U : \A k \in U : <<k, n>> \notin R
  <2> HIDE DEF R
  <2> QED BY <1>1, <1>2, WFMin DEF U
<1>4. n - 1 \in Nat /\ n - 1 \notin U
  <2>1. n \in Nat \ {0}
    OBVIOUS
  <2>2. n - 1 \in Nat /\ <<n - 1, n>> \in Nat \X Nat
    BY <2>1
  <2>3. <<n - 1, n>> \in R
    BY <2>2
  <2> QED BY <2>2, <2>3, <1>3
<1> QED BY <1>4

In(s) == {s[i] : i \in DOMAIN s}

\* A list and the set of its elements.
LEMMA Elements ==
  ASSUME NEW S, NEW s \in Seq(S)
  PROVE  /\ In(s) \subseteq S /\ In(<<>>) = {}
         /\ \A x \in S : In(Append(s, x)) = In(s) \cup {x}
         /\ s # <<>> => /\ Head(s) \in S /\ Tail(s) \in Seq(S)
                       /\ In(s) = {Head(s)} \cup In(Tail(s))
<1>1. In(s) \subseteq S /\ In(<<>>) = {}
  BY DEF In
<1>2. ASSUME NEW x \in S PROVE In(Append(s, x)) = In(s) \cup {x}
  <2>1. /\ DOMAIN Append(s, x) = DOMAIN s \cup {Len(s) + 1} /\ Len(s) + 1 \notin DOMAIN s
        /\ Append(s, x)[Len(s) + 1] = x
        /\ \A i \in DOMAIN s : Append(s, x)[i] = s[i]
    OBVIOUS
  <2> QED BY <2>1 DEF In
<1>3. ASSUME s # <<>>
      PROVE  /\ Head(s) \in S /\ Tail(s) \in Seq(S)
             /\ In(s) = {Head(s)} \cup In(Tail(s))
  <2>1. /\ Head(s) = s[1] /\ 1 \in DOMAIN s /\ Tail(s) \in Seq(S) /\ Len(s) \in Nat
        /\ DOMAIN s = 1..Len(s) /\ DOMAIN Tail(s) = 1..(Len(s) - 1)
        /\ \A i \in DOMAIN Tail(s) : Tail(s)[i] = s[i + 1]
    BY <1>3
  <2>2. \A i \in DOMAIN s : i # 1 => i - 1 \in DOMAIN Tail(s) /\ Tail(s)[i - 1] = s[i]
    BY <2>1
  <2>3. \A i \in DOMAIN Tail(s) : i + 1 \in DOMAIN s
    BY <2>1
  <2>4. ASSUME NEW i \in DOMAIN s PROVE s[i] \in {Head(s)} \cup In(Tail(s))
    <3>1. CASE i = 1
      BY <2>1, <3>1
    <3>2. CASE i # 1
      BY <2>2, <2>4, <3>2 DEF In
    <3> QED BY <3>1, <3>2
  <2>5. {Head(s)} \cup In(Tail(s)) \subseteq In(s)
    BY <2>1, <2>3 DEF In
  <2>6. In(s) \subseteq {Head(s)} \cup In(Tail(s))
    BY <2>4 DEF In
  <2>7. Head(s) \in S
    BY <2>1
  <2> QED BY <2>1, <2>5, <2>6, <2>7
<1> QED BY <1>1, <1>2, <1>3

\* The body of the recursive function of Only.
Takes(s, T, f, i) ==
  IF i = 0 THEN <<>>
  ELSE IF s[i] \in T THEN Append(f[i - 1], s[i]) ELSE f[i - 1]

\* The function exists: it is built for one prefix after the other.
LEMMA OnlyUnfolds ==
  ASSUME NEW S, NEW s \in Seq(S), NEW T
  PROVE  \E f : /\ f = [i \in 0..Len(s) |-> Takes(s, T, f, i)]
                /\ Only(s, T) = f[Len(s)]
<1> DEFINE Upto(n) == \E f : f = [i \in 0..n |-> Takes(s, T, f, i)]
           P == {n \in Nat : n <= Len(s) => Upto(n)}
<1>1. 0 \in P
  <2> DEFINE f == [i \in 0..0 |-> <<>>]
  <2>1. f = [i \in 0..0 |-> Takes(s, T, f, i)]
    BY DEF Takes
  <2> QED BY <2>1
<1>2. ASSUME NEW n \in P PROVE n + 1 \in P
  <2>1. SUFFICES ASSUME n + 1 <= Len(s) PROVE Upto(n + 1)
    OBVIOUS
  <2>2. PICK f : f = [i \in 0..n |-> Takes(s, T, f, i)]
    BY <2>1
  <2> DEFINE h == [i \in 0..(n + 1) |-> Takes(s, T, f, i)]
  <2>3. \A i \in 0..n : h[i] = f[i]
    BY <2>2
  <2>4. \A i \in 0..(n + 1) : Takes(s, T, f, i) = Takes(s, T, h, i)
    <3> HIDE DEF h
    <3> QED BY <2>3 DEF Takes
  <2>5. h = [i \in 0..(n + 1) |-> Takes(s, T, h, i)]
    BY <2>4
  <2> QED BY <2>5
<1>3. Upto(Len(s))
  <2>1. P = Nat
    <3> HIDE DEF P
    <3>1. P \in SUBSET Nat
      BY DEF P
    <3> QED BY <1>1, <1>2, <3>1, SetInduction
  <2> QED BY <2>1
<1> DEFINE f == CHOOSE f : f = [i \in 0..Len(s) |-> Takes(s, T, f, i)]
<1>4. f = [i \in 0..Len(s) |-> Takes(s, T, f, i)]
  BY <1>3
<1>5. Only(s, T) = f[Len(s)]
  BY DEF Only, Takes
<1> QED BY <1>4, <1>5

\* o holds the elements of T among the first n of s, each once, in their order:
\* g says where each of them comes from.
Selects(o, s, n, T) ==
  \E g \in [1..Len(o) -> 1..n] :
    /\ \A k \in 1..Len(o) : o[k] = s[g[k]] /\ o[k] \in T
    /\ \A k, l \in 1..Len(o) : k < l => g[k] < g[l]
    /\ \A i \in 1..n : s[i] \in T => \E k \in 1..Len(o) : g[k] = i

\* Only returns a list of what it is meant to select.
LEMMA OnlySelects ==
  ASSUME NEW S, NEW s \in Seq(S), NEW T
  PROVE  Only(s, T) \in Seq(S) /\ Selects(Only(s, T), s, Len(s), T)
<1>1. PICK f : /\ f = [i \in 0..Len(s) |-> Takes(s, T, f, i)]
               /\ Only(s, T) = f[Len(s)]
  BY OnlyUnfolds
<1> DEFINE Good(n) == f[n] \in Seq(S) /\ Selects(f[n], s, n, T)
           P == {n \in Nat : n <= Len(s) => Good(n)}
<1>2. 0 \in P
  <2>1. f[0] = <<>>
    BY <1>1 DEF Takes
  <2> DEFINE g == [k \in {} |-> 0]
  <2>2. 1..Len(<<>>) = {} /\ 1..0 = {}
    OBVIOUS
  <2>3. g \in [{} -> {}]
    OBVIOUS
  <2>4. Selects(<<>>, s, 0, T)
    <3> HIDE DEF g
    <3> QED BY <2>2, <2>3 DEF Selects
  <2>5. Good(0)
    BY <2>1, <2>4
  <2> HIDE DEF Good
  <2> QED BY <2>5
<1>3. ASSUME NEW n \in P PROVE n + 1 \in P
  <2>1. SUFFICES ASSUME n + 1 <= Len(s) PROVE Good(n + 1)
    OBVIOUS
  <2>2. n + 1 \in 1..Len(s) /\ s[n + 1] \in S /\ n \in Nat
    BY <2>1
  <2>3. f[n + 1] = IF s[n + 1] \in T THEN Append(f[n], s[n + 1]) ELSE f[n]
    <3>1. f[n + 1] = Takes(s, T, f, n + 1)
      BY <1>1, <2>2
    <3> QED BY <2>2, <3>1 DEF Takes
  <2>4. Good(n)
    BY <2>1
  <2>5. PICK g \in [1..Len(f[n]) -> 1..n] :
             /\ \A k \in 1..Len(f[n]) : f[n][k] = s[g[k]] /\ f[n][k] \in T
             /\ \A k, l \in 1..Len(f[n]) : k < l => g[k] < g[l]
             /\ \A i \in 1..n : s[i] \in T => \E k \in 1..Len(f[n]) : g[k] = i
    BY <2>4 DEF Selects
  <2>6. CASE s[n + 1] \notin T
    <3>1. f[n + 1] = f[n] /\ g \in [1..Len(f[n]) -> 1..(n + 1)]
      BY <2>3, <2>4, <2>6, <2>2
    <3>2. \A i \in 1..(n + 1) : s[i] \in T => \E k \in 1..Len(f[n]) : g[k] = i
      BY <2>5, <2>6, <2>2
    <3>3. Selects(f[n], s, n + 1, T)
      BY <3>1, <3>2, <2>5 DEF Selects
    <3> QED BY <3>1, <3>3, <2>4
  <2>7. CASE s[n + 1] \in T
    <3> DEFINE o == f[n]
               x == Append(o, s[n + 1])
               h == [k \in 1..Len(x) |-> IF k = Len(x) THEN n + 1 ELSE g[k]]
    <3>1. /\ o \in Seq(S) /\ x \in Seq(S) /\ Len(x) = Len(o) + 1 /\ Len(o) \in Nat
          /\ \A k \in 1..Len(o) : x[k] = o[k]
          /\ x[Len(x)] = s[n + 1]
      BY <2>2, <2>4
    <3>0. \A k \in 1..Len(o) : g[k] \in 1..n
      BY <2>5
    <3> HIDE DEF o, x
    <3>2. h \in [1..Len(x) -> 1..(n + 1)]
      <4>1. \A k \in 1..Len(x) : k # Len(x) => k \in 1..Len(o)
        BY <3>1
      <4>2. \A k \in 1..Len(x) : h[k] \in 1..(n + 1)
        BY <2>2, <3>0, <4>1
      <4> QED BY <4>2
    <3>3. \A k \in 1..Len(x) : x[k] = s[h[k]] /\ x[k] \in T
      <4>1. \A k \in 1..Len(o) : o[k] = s[g[k]] /\ o[k] \in T
        BY <2>5 DEF o
      <4>2. \A k \in 1..Len(x) : k # Len(x) => k \in 1..Len(o) /\ h[k] = g[k]
        BY <3>1
      <4>3. Len(x) \in 1..Len(x) /\ h[Len(x)] = n + 1
        BY <3>1
      <4> HIDE DEF h
      <4> QED BY <4>1, <4>2, <4>3, <3>1, <2>7
    <3>4. \A k, l \in 1..Len(x) : k < l => h[k] < h[l]
      BY <2>2, <2>5, <3>0, <3>1 DEF o
    <3>5. \A i \in 1..(n + 1) : s[i] \in T => \E k \in 1..Len(x) : h[k] = i
      <4>1. h[Len(x)] = n + 1 /\ Len(x) \in 1..Len(x)
        BY <3>1
      <4>2. \A k \in 1..Len(o) : h[k] = g[k] /\ k \in 1..Len(x)
        BY <3>1
      <4>3. \A i \in 1..n : s[i] \in T => \E k \in 1..Len(o) : g[k] = i
        BY <2>5 DEF o
      <4> HIDE DEF h
      <4> QED BY <4>1, <4>2, <4>3, <2>2
    <3>6. Selects(x, s, n + 1, T)
      <4> HIDE DEF h
      <4> QED BY <3>2, <3>3, <3>4, <3>5 DEF Selects
    <3> QED BY <3>1, <3>6, <2>3, <2>7 DEF o, x
  <2> QED BY <2>6, <2>7
<1>4. Good(Len(s))
  <2>1. P = Nat
    <3> HIDE DEF P
    <3>1. P \in SUBSET Nat
      BY DEF P
    <3> QED BY <1>2, <1>3, <3>1, SetInduction
  <2> QED BY <2>1
<1> QED BY <1>1, <1>4

\* It is no longer than the list it was taken from.
LEMMA OnlyIsNoLonger ==
  ASSUME NEW S, NEW s \in Seq(S), NEW T
  PROVE  Len(Only(s, T)) <= Len(s)
<1> DEFINE o == Only(s, T)
<1>1. o \in Seq(S) /\ Len(o) \in Nat /\ Len(s) \in Nat
  BY OnlySelects
<1>0. Selects(o, s, Len(s), T)
  BY OnlySelects
<1> HIDE DEF o
<1>2. PICK g \in [1..Len(o) -> 1..Len(s)] :
        \A k, l \in 1..Len(o) : k < l => g[k] < g[l]
  BY <1>0 DEF Selects
<1>3. SUFFICES ASSUME Len(s) < Len(o) PROVE FALSE
  BY <1>1 DEF o
<1>4. /\ IsFiniteSet(1..Len(o)) /\ Cardinality(1..Len(o)) = Len(o)
      /\ IsFiniteSet(1..Len(s)) /\ Cardinality(1..Len(s)) = Len(s)
  <2>1. ASSUME NEW n \in Nat PROVE IsFiniteSet(1..n) /\ Cardinality(1..n) = n
    <3>1. IsFiniteSet(1..n) /\ Cardinality(1..n) = IF 1 > n THEN 0 ELSE n - 1 + 1
      BY FS_Interval
    <3> QED BY <3>1
  <2> QED BY <1>1, <2>1
<1>5. PICK k, l \in 1..Len(o) : k # l /\ g[k] = g[l]
  BY <1>3, <1>4, FS_PigeonHole
<1>6. k < l \/ l < k
  BY <1>1, <1>5
<1>7. g[k] \in 1..Len(s) /\ g[l] \in 1..Len(s)
  OBVIOUS
<1>8. g[k] \in Nat /\ g[l] \in Nat
  BY <1>1, <1>7
<1>9. g[k] < g[l] \/ g[l] < g[k]
  BY <1>2, <1>6
<1> QED BY <1>5, <1>8, <1>9

\* Its elements are those of the list that are in T.
LEMMA OnlyElements ==
  ASSUME NEW S, NEW s \in Seq(S), NEW T
  PROVE  {Only(s, T)[k] : k \in DOMAIN Only(s, T)} = {s[i] : i \in DOMAIN s} \cap T
<1> DEFINE o == Only(s, T)
<1>1. o \in Seq(S) /\ DOMAIN o = 1..Len(o) /\ DOMAIN s = 1..Len(s)
  BY OnlySelects
<1>2. Selects(o, s, Len(s), T)
  BY OnlySelects
<1> HIDE DEF o
<1>3. PICK g \in [1..Len(o) -> 1..Len(s)] :
        /\ \A k \in 1..Len(o) : o[k] = s[g[k]] /\ o[k] \in T
        /\ \A i \in 1..Len(s) : s[i] \in T => \E k \in 1..Len(o) : g[k] = i
  BY <1>2 DEF Selects
<1>4. \A k \in DOMAIN o : o[k] \in {s[i] : i \in DOMAIN s} \cap T
  BY <1>1, <1>3
<1>5. \A x \in {s[i] : i \in DOMAIN s} \cap T : \E k \in DOMAIN o : o[k] = x
  <2>1. TAKE x \in {s[i] : i \in DOMAIN s} \cap T
  <2>2. PICK i \in 1..Len(s) : s[i] = x /\ s[i] \in T
    BY <1>1, <2>1
  <2>3. PICK k \in 1..Len(o) : g[k] = i
    BY <1>3, <2>2
  <2>4. o[k] = s[g[k]]
    BY <1>3
  <2> QED BY <1>1, <2>2, <2>3, <2>4
<1>6. {o[k] : k \in DOMAIN o} = {s[i] : i \in DOMAIN s} \cap T
  BY <1>4, <1>5
<1> QED BY <1>6 DEF o

=============================================================================
