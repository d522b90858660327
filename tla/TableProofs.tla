---------------------------- MODULE TableProofs ------------------------------
(***************************************************************************)
(* Facts about the data the model is built from, each for every input.     *)
(*                                                                         *)
(* Lists.  Induction comes from the well-foundedness of the numbers: a     *)
(* property is a set of numbers, and a set that misses a number misses a   *)
(* least one.  Recursion gives functions defined by recursion on a length, *)
(* the step being a function; with it Keep is what its name says and Total *)
(* is a sum.                                                               *)
(*                                                                         *)
(* The operator table.  Operators that are added come last, and a removed  *)
(* one leaves the positions and the earlier keys as they are.              *)
(*                                                                         *)
(* Bodies.  A Merkle root binds its leaves once repeated leaves are        *)
(* excluded, so a body that passes the integrity check is the mined one.   *)
(*                                                                         *)
(* Sorted vectors.  The deposits as the code stores them.                  *)
(*                                                                         *)
(* Headers.  One header verified on a state that comes from the chain      *)
(* leaves a state that comes from the longer chain.                        *)
(***************************************************************************)
EXTENDS Lists, BridgeTables, SortedVec, BodyVerification, HeaderVerification, FiniteSetTheorems, TLAPS

\* A leaf that names no prover is given to Zenon.
USE ZenonT(60)

-----------------------------------------------------------------------------
\* A non-empty set of numbers has a least element.
LEMMA LeastElement ==
  ASSUME NEW T \in SUBSET Nat, T # {}
  PROVE  \E x \in T : \A y \in T : x <= y
<1>1. IsWellFoundedOn(OpToRel(<, Nat), Nat)
  BY NatLessThanWellFounded
<1>2. PICK x \in T : \A y \in T : <<y, x>> \notin OpToRel(<, Nat)
  BY <1>1, WFMin
<1>3. ASSUME NEW y \in T PROVE x <= y
  <2>1. <<y, x>> \notin OpToRel(<, Nat)
    BY <1>2
  <2>2. x \in Nat /\ y \in Nat
    OBVIOUS
  <2> QED
    BY <2>1, <2>2, SMTT(60) DEF OpToRel
<1> QED
  BY <1>3

\* Induction up to n, for a property given as the set of numbers that have it.
LEMMA UpTo ==
  ASSUME NEW n \in Nat, NEW P, 0 \in P, \A i \in 0 .. (n - 1) : i \in P => i + 1 \in P
  PROVE  \A i \in 0 .. n : i \in P
<1> SUFFICES ASSUME NEW j \in 0 .. n, j \notin P PROVE FALSE
  OBVIOUS
<1> DEFINE T == {i \in 0 .. n : i \notin P}
<1>1. T \in SUBSET Nat /\ T # {}
  BY SMTT(60)
<1>2. PICK x \in T : \A y \in T : x <= y
  <2> HIDE DEF T
  <2> QED
    BY <1>1, LeastElement
<1>3. x # 0 /\ x - 1 \in 0 .. (n - 1)
  BY SMTT(60)
<1>4. x - 1 \in P
  BY <1>2, <1>3, SMTT(60)
<1> QED
  BY <1>3, <1>4, SMTT(60)

\* A base and n steps in V, and the function they define on 0 .. n.
Steppable(n, V, base, step) == n \in Nat /\ base \in V /\ step \in [1 .. n -> [V -> V]]
Iterable(n, V, base, step) ==
  \E f \in [0 .. n -> V] : f[0] = base /\ \A i \in 1 .. n : f[i] = step[i][f[i - 1]]

\* A step function iterated from a base defines a function on 0 .. n.
LEMMA Recursion ==
  ASSUME NEW n, NEW V, NEW base, NEW step, Steppable(n, V, base, step)
  PROVE  Iterable(n, V, base, step)
<1> USE DEF Steppable, Iterable
<1> DEFINE Good(m, f) == f[0] = base /\ \A i \in 1 .. m : f[i] = step[i][f[i - 1]]
           P == {m \in 0 .. n : \E f \in [0 .. m -> V] : Good(m, f)}
<1>1. 0 \in P
  <2> DEFINE f == [i \in 0 .. 0 |-> base]
  <2>1. f \in [0 .. 0 -> V] /\ f[0] = base
    BY SMTT(60)
  <2>2. Good(0, f)
    BY <2>1, SMTT(60)
  <2>3. 0 \in 0 .. n
    BY SMTT(60)
  <2> QED
    BY <2>1, <2>2, <2>3
<1>2. ASSUME NEW m \in 0 .. (n - 1), m \in P PROVE m + 1 \in P
  <2>1. PICK f \in [0 .. m -> V] : Good(m, f)
    BY <1>2
  <2> DEFINE g == [i \in 0 .. (m + 1) |-> IF i = m + 1 THEN step[m + 1][f[m]] ELSE f[i]]
  <2>2. f[m] \in V /\ m + 1 \in 1 .. n
    BY SMTT(60)
  <2>3. step[m + 1][f[m]] \in V
    BY <2>2
  <2>4. g \in [0 .. (m + 1) -> V]
    BY <2>3, SMTT(60)
  <2>5. g[0] = base
    BY <2>1, SMTT(60)
  <2>6. ASSUME NEW i \in 1 .. (m + 1) PROVE g[i] = step[i][g[i - 1]]
    <3>1. CASE i = m + 1
      BY <3>1, SMTT(60)
    <3>2. CASE i # m + 1
      BY <2>1, <3>2, SMTT(60)
    <3> QED
      BY <3>1, <3>2
  <2>7. Good(m + 1, g)
    BY <2>5, <2>6
  <2>8. m + 1 \in 0 .. n
    BY SMTT(60)
  <2> QED
    BY <2>4, <2>7, <2>8
<1>3. n \in P
  <2> HIDE DEF P
  <2>1. \A i \in 0 .. n : i \in P
    BY <1>1, <1>2, UpTo
  <2> QED
    BY <2>1, SMTT(60)
<1> QED
  BY <1>3

-----------------------------------------------------------------------------
(* Keep.                                                                   *)

\* f lists what is kept of each prefix of s.
KeptPrefixes(s, T, f) ==
  /\ f[0] = <<>>
  /\ \A n \in 1 .. Len(s) : f[n] = IF s[n] \in T THEN Append(f[n - 1], s[n]) ELSE f[n - 1]

\* at says where in the first n elements of s each kept element comes from.
KeptAt(s, T, kept, n, at) ==
  /\ at \in [1 .. Len(kept) -> 1 .. n]
  /\ \A k \in 1 .. Len(kept) : kept[k] = s[at[k]] /\ kept[k] \in T
  /\ \A j, k \in 1 .. Len(kept) : j < k => at[j] < at[k]
  /\ \A i \in 1 .. n : s[i] \in T => \E k \in 1 .. Len(kept) : at[k] = i

\* A list without repetitions is as long as the set of its elements.
LEMMA InjectiveLength ==
  ASSUME NEW S, NEW s \in Seq(S), IsInjective(s)
  PROVE  IsFiniteSet(Range(s)) /\ Cardinality(Range(s)) = Len(s)
<1>1. DOMAIN s = 1 .. Len(s) /\ Len(s) \in Nat
  BY SMTT(60)
<1>2. s \in [1 .. Len(s) -> Range(s)]
  <2>1. s = [i \in 1 .. Len(s) |-> s[i]]
    BY SMTT(60)
  <2>2. \A i \in 1 .. Len(s) : s[i] \in Range(s)
    BY <1>1 DEF Range
  <2> QED
    BY <2>1, <2>2
<1>3. s \in Bijection(1 .. Len(s), Range(s))
  <2>1. s \in Injection(1 .. Len(s), Range(s))
    BY <1>2 DEF Injection
  <2>2. s \in Surjection(1 .. Len(s), Range(s))
    BY <1>1, <1>2 DEF Surjection, Range
  <2> QED
    BY <2>1, <2>2 DEF Bijection
<1>4. ExistsBijection(1 .. Len(s), Range(s))
  BY <1>3 DEF ExistsBijection
<1>5. IsFiniteSet(1 .. Len(s)) /\ Cardinality(1 .. Len(s)) = Len(s)
  BY <1>1, FS_Interval, SMTT(60)
<1> QED
  BY <1>4, <1>5, FS_Bijection

\* Every list is a list over its own elements.
LEMMA ListOfRange ==
  ASSUME NEW S, NEW s \in Seq(S)
  PROVE  IsList(s)
<1> DEFINE R == Range(s)
<1>1. Len(s) \in Nat /\ DOMAIN s = 1 .. Len(s) /\ s \in [1 .. Len(s) -> S]
  BY SMTT(60)
<1>2. s \in [1 .. Len(s) -> R]
  BY <1>1 DEF Range
<1> HIDE DEF R
<1>3. s \in Seq(R)
  BY <1>1, <1>2, SMTT(60)
<1> QED
  BY <1>3 DEF IsList, R

\* Lists without repetitions and without a common element have none together.
LEMMA ConcatInjective ==
  ASSUME NEW S, NEW s \in Seq(S), NEW t \in Seq(S), IsInjective(s), IsInjective(t),
         Range(s) \cap Range(t) = {}
  PROVE  IsInjective(s \o t)
<1> DEFINE m == Len(s)
           n == Len(t)
           c == s \o t
<1>1. /\ m \in Nat /\ n \in Nat /\ DOMAIN s = 1 .. m /\ DOMAIN t = 1 .. n /\ DOMAIN c = 1 .. (m + n)
      /\ \A i \in 1 .. m : c[i] = s[i]
      /\ \A i \in (m + 1) .. (m + n) : c[i] = t[i - m]
  BY SMTT(60)
<1> HIDE DEF m, n, c
<1>2. \A i \in 1 .. m, j \in 1 .. n : s[i] # t[j]
  BY <1>1 DEF Range
<1>3. /\ \A i, j \in 1 .. m : s[i] = s[j] => i = j
      /\ \A i, j \in 1 .. n : t[i] = t[j] => i = j
  BY <1>1 DEF IsInjective
<1>4. ASSUME NEW i \in 1 .. (m + n), NEW j \in 1 .. (m + n), c[i] = c[j] PROVE i = j
  <2>1. CASE i \in 1 .. m /\ j \in 1 .. m
    BY <1>1, <1>3, <1>4, <2>1
  <2>2. ASSUME NEW k \in 1 .. (m + n), k \notin 1 .. m
        PROVE  k \in (m + 1) .. (m + n) /\ k - m \in 1 .. n /\ k = (k - m) + m
    BY <1>1, <2>2, SMTT(60)
  <2>3. CASE i \notin 1 .. m /\ j \notin 1 .. m
    <3>1. t[i - m] = t[j - m]
      BY <1>1, <1>4, <2>2, <2>3
    <3>2. i - m = j - m
      BY <1>3, <2>2, <2>3, <3>1
    <3> QED
      BY <2>2, <2>3, <3>2
  <2>4. CASE i \in 1 .. m /\ j \notin 1 .. m
    BY <1>1, <1>2, <1>4, <2>2, <2>4
  <2>5. CASE i \notin 1 .. m /\ j \in 1 .. m
    BY <1>1, <1>2, <1>4, <2>2, <2>5
  <2> QED
    BY <2>1, <2>3, <2>4, <2>5
<1>5. IsInjective(c)
  BY <1>1, <1>4 DEF IsInjective
<1> QED
  BY <1>5 DEF c

-----------------------------------------------------------------------------
(* Lists, whatever their elements are.                                     *)

\* The positions of a list.
LEMMA ListDomain ==
  ASSUME NEW s, IsList(s)
  PROVE  Len(s) \in Nat /\ DOMAIN s = 1 .. Len(s) /\ (s = <<>> <=> Len(s) = 0) /\ IsList(<<>>)
<1>1. s \in Seq(Range(s))
  BY DEF IsList
<1>2. <<>> \in Seq({})
  BY SMTT(60)
<1>3. IsList(<<>>)
  BY <1>2, ListOfRange
<1> QED
  BY <1>1, <1>3, SMTT(60)

\* What Append does to a list.
LEMMA ListAppend ==
  ASSUME NEW s, IsList(s), NEW e
  PROVE  /\ IsList(Append(s, e))
         /\ Len(Append(s, e)) = Len(s) + 1
         /\ \A i \in 1 .. Len(s) : Append(s, e)[i] = s[i]
         /\ Append(s, e)[Len(s) + 1] = e
<1> DEFINE S == Range(s) \cup {e}
<1>1. s \in Seq(S) /\ e \in S
  <2>1. s \in Seq(Range(s))
    BY DEF IsList
  <2> HIDE DEF S
  <2>2. Range(s) \subseteq S /\ e \in S
    BY DEF S
  <2> QED
    BY <2>1, <2>2, SMTT(60)
<1> HIDE DEF S
<1>2. IsList(Append(s, e))
  <2>1. Append(s, e) \in Seq(S)
    BY <1>1, SMTT(60)
  <2> QED
    BY <2>1, ListOfRange
<1> QED
  BY <1>1, <1>2, SMTT(60)

\* The head and the tail of a list.
LEMMA ListTail ==
  ASSUME NEW s, IsList(s), s # <<>>
  PROVE  /\ IsList(Tail(s))
         /\ Len(Tail(s)) = Len(s) - 1
         /\ \A i \in 1 .. Len(Tail(s)) : Tail(s)[i] = s[i + 1]
         /\ Head(s) = s[1] /\ 1 \in 1 .. Len(s)
<1> DEFINE S == Range(s)
<1>1. s \in Seq(S)
  BY DEF IsList
<1> HIDE DEF S
<1>2. IsList(Tail(s))
  <2>1. Tail(s) \in Seq(S)
    BY <1>1, SMTT(60)
  <2> QED
    BY <2>1, ListOfRange
<1>3. Head(s) = s[1] /\ 1 \in 1 .. Len(s)
  BY <1>1, SMTT(60)
<1> QED
  BY <1>1, <1>2, <1>3, SMTT(60)

\* What is taken from a list first is in the list, and what is left of it too.
LEMMA FirstOfList ==
  ASSUME NEW s, IsList(s), s # <<>>
  PROVE  Head(s) \in Range(s) /\ Range(Tail(s)) \subseteq Range(s)
<1> DEFINE S == Range(s)
<1>1. s \in Seq(S)
  BY DEF IsList
<1>2. Head(s) = s[1] /\ 1 \in DOMAIN s /\ Tail(s) \in Seq(S)
  <2> HIDE DEF S
  <2> QED
    BY <1>1, SMTT(60)
<1>3. \A i \in DOMAIN Tail(s) : Tail(s)[i] \in S
  <2> HIDE DEF S
  <2> QED
    BY <1>2, SMTT(60)
<1> QED
  BY <1>2, <1>3 DEF Range

\* A list in which one element is replaced.
LEMMA ListExcept ==
  ASSUME NEW s, IsList(s), NEW k \in DOMAIN s, NEW e
  PROVE  /\ IsList([s EXCEPT ![k] = e])
         /\ Len([s EXCEPT ![k] = e]) = Len(s)
         /\ \A i \in DOMAIN s : [s EXCEPT ![k] = e][i] = IF i = k THEN e ELSE s[i]
<1> DEFINE S == Range(s) \cup {e}
<1>1. s \in Seq(S) /\ e \in S
  <2>1. s \in Seq(Range(s))
    BY DEF IsList
  <2> HIDE DEF S
  <2>2. Range(s) \subseteq S /\ e \in S
    BY DEF S
  <2> QED
    BY <2>1, <2>2, SMTT(60)
<1> HIDE DEF S
<1>2. k \in 1 .. Len(s) /\ DOMAIN s = 1 .. Len(s)
  BY <1>1, SMTT(60)
<1>3. IsList([s EXCEPT ![k] = e])
  <2>1. [s EXCEPT ![k] = e] \in Seq(S)
    BY <1>1, <1>2, SMTT(60)
  <2> QED
    BY <2>1, ListOfRange
<1> QED
  BY <1>1, <1>2, <1>3, SMTT(60)

\* Two lists, one after the other.
LEMMA ListConcat ==
  ASSUME NEW s, IsList(s), NEW t, IsList(t)
  PROVE  /\ IsList(s \o t)
         /\ Len(s \o t) = Len(s) + Len(t)
         /\ Range(s \o t) = Range(s) \cup Range(t)
         /\ \A i \in 1 .. Len(s) : (s \o t)[i] = s[i]
         /\ \A i \in 1 .. Len(t) : (s \o t)[Len(s) + i] = t[i]
<1> DEFINE S == Range(s) \cup Range(t)
<1>1. s \in Seq(S) /\ t \in Seq(S)
  <2>1. s \in Seq(Range(s)) /\ t \in Seq(Range(t))
    BY DEF IsList
  <2> HIDE DEF S
  <2>2. Range(s) \subseteq S /\ Range(t) \subseteq S
    BY DEF S
  <2> QED
    BY <2>1, <2>2, SMTT(60)
<1> HIDE DEF S
<1>2. IsList(s \o t)
  <2>1. s \o t \in Seq(S)
    BY <1>1, SMTT(60)
  <2> QED
    BY <2>1, ListOfRange
<1>3. /\ Len(s \o t) = Len(s) + Len(t)
      /\ \A i \in 1 .. Len(s) : (s \o t)[i] = s[i]
      /\ \A i \in 1 .. Len(t) : (s \o t)[Len(s) + i] = t[i]
  BY <1>1, SMTT(60)
<1>4. Range(s \o t) = Range(s) \cup Range(t)
  <2>1. /\ DOMAIN s = 1 .. Len(s) /\ DOMAIN t = 1 .. Len(t)
        /\ DOMAIN (s \o t) = 1 .. (Len(s) + Len(t))
        /\ \A i \in 1 .. Len(s) : i \in 1 .. (Len(s) + Len(t))
        /\ \A i \in 1 .. Len(t) : Len(s) + i \in 1 .. (Len(s) + Len(t))
        /\ \A i \in 1 .. (Len(s) + Len(t)) :
             \/ i \in 1 .. Len(s)
             \/ \E j \in 1 .. Len(t) : i = Len(s) + j
    <3>1. Len(s) \in Nat /\ Len(t) \in Nat
      BY <1>1, SMTT(60)
    <3>2. ASSUME NEW i \in 1 .. (Len(s) + Len(t)), i \notin 1 .. Len(s)
          PROVE  \E j \in 1 .. Len(t) : i = Len(s) + j
      <4>1. i - Len(s) \in 1 .. Len(t) /\ i = Len(s) + (i - Len(s))
        BY <3>1, <3>2, SMTT(60)
      <4> QED
        BY <4>1
    <3>3. /\ DOMAIN s = 1 .. Len(s) /\ DOMAIN t = 1 .. Len(t)
          /\ DOMAIN (s \o t) = 1 .. (Len(s) + Len(t))
          /\ \A i \in 1 .. Len(s) : i \in 1 .. (Len(s) + Len(t))
          /\ \A i \in 1 .. Len(t) : Len(s) + i \in 1 .. (Len(s) + Len(t))
      BY <1>1, <3>1, SMTT(60)
    <3> QED
      BY <3>2, <3>3
  <2>2. Range(s) \subseteq Range(s \o t) /\ Range(t) \subseteq Range(s \o t)
    BY <1>3, <2>1 DEF Range
  <2>3. ASSUME NEW i \in DOMAIN (s \o t) PROVE (s \o t)[i] \in Range(s) \cup Range(t)
    <3>1. CASE i \in 1 .. Len(s)
      BY <1>3, <2>1, <3>1 DEF Range
    <3>2. ASSUME NEW j \in 1 .. Len(t), i = Len(s) + j PROVE (s \o t)[i] \in Range(t)
      BY <1>3, <2>1, <3>2 DEF Range
    <3> QED
      BY <2>1, <3>1, <3>2
  <2>4. Range(s \o t) \subseteq Range(s) \cup Range(t)
    BY <2>3 DEF Range
  <2> QED
    BY <2>2, <2>4
<1> QED
  BY <1>2, <1>3, <1>4

\* What Keep leaves of a list, and where it comes from.
LEMMA KeepList ==
  \A s, T :
     IsList(s)
      => /\ IsList(Keep(s, T))
         /\ Range(Keep(s, T)) = Range(s) \cap T
         /\ IsInjective(s) => IsInjective(Keep(s, T))
         /\ \E at : /\ KeptAt(s, T, Keep(s, T), Len(s), at)
                    /\ \A j, k \in 1 .. Len(Keep(s, T)) : at[j] = at[k] => j = k
\* The recursion of Keep is well-defined, and yields lists.
<1>KeepRecursion. ASSUME NEW S, NEW s \in Seq(S), NEW T
                  PROVE  \E f \in [0 .. Len(s) -> Seq(S)] : KeptPrefixes(s, T, f) /\ Keep(s, T) = f[Len(s)]
  <2> DEFINE V == Seq(S)
             step == [i \in 1 .. Len(s) |-> [v \in V |-> IF s[i] \in T THEN Append(v, s[i]) ELSE v]]
             Defined(f) == f = [n \in 0 .. Len(s) |->
                                  IF n = 0 THEN <<>>
                                  ELSE IF s[n] \in T THEN Append(f[n - 1], s[n]) ELSE f[n - 1]]
  <2>1. Len(s) \in Nat /\ <<>> \in V
    BY SMTT(60)
  <2>2. step \in [1 .. Len(s) -> [V -> V]]
    <3>1. ASSUME NEW i \in 1 .. Len(s), NEW v \in V
          PROVE (IF s[i] \in T THEN Append(v, s[i]) ELSE v) \in V
      BY SMTT(60)
    <3> QED
      BY <3>1
  <2>3. PICK f \in [0 .. Len(s) -> V] : f[0] = <<>> /\ \A i \in 1 .. Len(s) : f[i] = step[i][f[i - 1]]
    <3> DEFINE b == <<>>
               n == Len(s)
    <3>1. n \in Nat /\ b \in V /\ step \in [1 .. n -> [V -> V]]
      BY <2>1, <2>2
    <3>2. Iterable(n, V, b, step)
      BY <3>1, Recursion DEF Steppable
    <3> QED
      BY <3>2 DEF Iterable
  <2>4. ASSUME NEW i \in 1 .. Len(s)
        PROVE f[i] = IF s[i] \in T THEN Append(f[i - 1], s[i]) ELSE f[i - 1]
    <3>1. f[i - 1] \in V
      BY SMTT(60)
    <3>2. step[i][f[i - 1]] = IF s[i] \in T THEN Append(f[i - 1], s[i]) ELSE f[i - 1]
      BY <3>1
    <3> QED
      BY <2>3, <3>2
  <2>5. Defined(f)
    <3>1. f = [i \in 0 .. Len(s) |-> f[i]]
      OBVIOUS
    <3>2. ASSUME NEW i \in 0 .. Len(s)
          PROVE  f[i] = IF i = 0 THEN <<>> ELSE IF s[i] \in T THEN Append(f[i - 1], s[i]) ELSE f[i - 1]
      <4>1. CASE i = 0
        BY <2>3, <4>1
      <4>2. CASE i # 0
        <5>1. i \in 1 .. Len(s)
          BY <4>2, SMTT(60)
        <5> QED
          BY <2>4, <4>2, <5>1
      <4> QED
        BY <4>1, <4>2
    <3> QED
      BY <3>1, <3>2
  <2> DEFINE c == CHOOSE g : Defined(g)
  <2>6. Defined(c)
    BY <2>5
  <2>7. Keep(s, T) = c[Len(s)]
    BY DEF Keep
  <2> HIDE DEF c
  <2>8. KeptPrefixes(s, T, c)
    <3>1. 0 \in 0 .. Len(s) /\ \A i \in 1 .. Len(s) : i \in 0 .. Len(s) /\ i # 0
      BY <2>1, SMTT(60)
    <3> QED
      BY <2>6, <3>1 DEF KeptPrefixes
  <2>9. c \in [0 .. Len(s) -> V]
    <3> DEFINE P == {i \in 0 .. Len(s) : c[i] \in V}
    <3>1. 0 \in P
      <4>1. 0 \in 0 .. Len(s)
        BY <2>1, SMTT(60)
      <4> QED
        BY <2>1, <2>8, <4>1 DEF KeptPrefixes
    <3>2. ASSUME NEW i \in 0 .. (Len(s) - 1), i \in P PROVE i + 1 \in P
      <4>1. i + 1 \in 1 .. Len(s) /\ (i + 1) - 1 = i
        BY SMTT(60)
      <4>2. s[i + 1] \in S
        BY <4>1, SMTT(60)
      <4>3. c[i] \in Seq(S)
        BY <3>2
      <4>4. Append(c[i], s[i + 1]) \in Seq(S)
        BY <4>2, <4>3, SMTT(60)
      <4>5. c[i + 1] \in Seq(S)
        BY <2>8, <4>1, <4>3, <4>4 DEF KeptPrefixes
      <4>6. i + 1 \in 0 .. Len(s)
        BY SMTT(60)
      <4> QED
        BY <4>5, <4>6
    <3>3. \A i \in 0 .. Len(s) : i \in P
      <4> HIDE DEF P
      <4> QED
        BY <2>1, <3>1, <3>2, UpTo
    <3>4. DOMAIN c = 0 .. Len(s) /\ c = [i \in 0 .. Len(s) |-> c[i]]
      BY <2>6
    <3> QED
      BY <3>3, <3>4
  <2> QED
    BY <2>7, <2>8, <2>9
\* Keep leaves exactly the elements of T, each once for each of its positions
\* and in the order of the list.
<1>KeepPositions. ASSUME NEW S, NEW s \in Seq(S), NEW T
                  PROVE  /\ Keep(s, T) \in Seq(S)
                         /\ \E at : KeptAt(s, T, Keep(s, T), Len(s), at)
  <2>1. PICK f \in [0 .. Len(s) -> Seq(S)] : KeptPrefixes(s, T, f) /\ Keep(s, T) = f[Len(s)]
    BY <1>KeepRecursion
  <2>2. Len(s) \in Nat
    BY SMTT(60)
  <2> DEFINE P == {n \in 0 .. Len(s) : \E at : KeptAt(s, T, f[n], n, at)}
  <2>3. 0 \in P
    <3>1. f[0] = <<>> /\ 0 \in 0 .. Len(s)
      BY <2>1, <2>2, SMTT(60) DEF KeptPrefixes
    <3> DEFINE at == [k \in 1 .. 0 |-> 0]
    <3>2. KeptAt(s, T, <<>>, 0, at)
      BY SMTT(60) DEF KeptAt
    <3> QED
      BY <3>1, <3>2
  <2>4. ASSUME NEW n \in 0 .. (Len(s) - 1), n \in P PROVE n + 1 \in P
    <3>1. PICK at : KeptAt(s, T, f[n], n, at)
      BY <2>4
    <3>2. /\ n \in Nat /\ n + 1 \in 1 .. Len(s) /\ (n + 1) - 1 = n
          /\ n \in 0 .. Len(s) /\ n + 1 \in 0 .. Len(s)
      BY SMTT(60)
    <3>3. f[n] \in Seq(S) /\ s[n + 1] \in S
      BY <3>2, SMTT(60)
    <3>4. CASE s[n + 1] \notin T
      <4>1. f[n + 1] = f[n]
        BY <2>1, <3>2, <3>4 DEF KeptPrefixes
      <4>2. KeptAt(s, T, f[n], n + 1, at)
        <5>1. 1 .. n \subseteq 1 .. (n + 1) /\ \A i \in 1 .. (n + 1) : i \in 1 .. n \/ i = n + 1
          BY <3>2, SMTT(60)
        <5>2. at \in [1 .. Len(f[n]) -> 1 .. (n + 1)]
          BY <3>1, <5>1  DEF KeptAt
        <5> QED
          BY <3>1, <3>4, <5>1, <5>2 DEF KeptAt
      <4> QED
        BY <3>2, <4>1, <4>2
    <3>5. CASE s[n + 1] \in T
      <4> DEFINE m == Len(f[n])
                 b == [k \in 1 .. (m + 1) |-> IF k = m + 1 THEN n + 1 ELSE at[k]]
                 g == Append(f[n], s[n + 1])
      <4>1. f[n + 1] = g
        BY <2>1, <3>2, <3>5 DEF KeptPrefixes
      <4>2. /\ m \in Nat /\ Len(g) = m + 1 /\ g[m + 1] = s[n + 1]
            /\ \A k \in 1 .. m : g[k] = f[n][k]
        BY <3>3, SMTT(60)
      <4>3. /\ at \in [1 .. m -> 1 .. n]
            /\ \A k \in 1 .. m : f[n][k] = s[at[k]] /\ f[n][k] \in T
            /\ \A j, k \in 1 .. m : j < k => at[j] < at[k]
            /\ \A i \in 1 .. n : s[i] \in T => \E k \in 1 .. m : at[k] = i
        BY <3>1 DEF KeptAt
      <4> HIDE DEF m, g
      <4>4. b \in [1 .. (m + 1) -> 1 .. (n + 1)]
        BY <3>2, <4>2, <4>3, SMTT(60)
      <4>5. \A k \in 1 .. (m + 1) : g[k] = s[b[k]] /\ g[k] \in T
        <5>1. ASSUME NEW k \in 1 .. (m + 1), k # m + 1 PROVE g[k] = s[b[k]] /\ g[k] \in T
          <6>1. k \in 1 .. m /\ b[k] = at[k]
            BY <4>2, <5>1, SMTT(60)
          <6> QED
            BY <4>2, <4>3, <6>1
        <5>2. m + 1 \in 1 .. (m + 1) /\ b[m + 1] = n + 1
          BY <4>2, SMTT(60)
        <5> QED
          BY <3>5, <4>2, <5>1, <5>2
      <4>6. \A j, k \in 1 .. (m + 1) : j < k => b[j] < b[k]
        BY <3>2, <4>2, <4>3, SMTT(60)
      <4>7. ASSUME NEW i \in 1 .. (n + 1), s[i] \in T PROVE \E k \in 1 .. (m + 1) : b[k] = i
        <5>1. CASE i = n + 1
          <6>1. m + 1 \in 1 .. (m + 1) /\ b[m + 1] = i
            BY <4>2, <5>1, SMTT(60)
          <6> QED
            BY <6>1
        <5>2. CASE i # n + 1
          <6>1. i \in 1 .. n
            BY <3>2, <5>2, SMTT(60)
          <6>2. PICK k \in 1 .. m : at[k] = i
            BY <4>3, <4>7, <6>1
          <6>3. k \in 1 .. (m + 1) /\ b[k] = i
            BY <4>2, <6>2, SMTT(60)
          <6> QED
            BY <6>3
        <5> QED
          BY <5>1, <5>2
      <4>8. KeptAt(s, T, g, n + 1, b)
        <5> HIDE DEF b
        <5> QED
          BY <4>2, <4>4, <4>5, <4>6, <4>7 DEF KeptAt
      <4> HIDE DEF b
      <4> QED
        BY <3>2, <4>1, <4>8
    <3> QED
      BY <3>4, <3>5
  <2>5. Len(s) \in P
    <3> HIDE DEF P
    <3>1. \A n \in 0 .. Len(s) : n \in P
      BY <2>2, <2>3, <2>4, UpTo
    <3>2. Len(s) \in 0 .. Len(s)
      BY <2>2, SMTT(60)
    <3> QED
      BY <3>1, <3>2
  <2>6. f[Len(s)] \in Seq(S)
    BY <2>2, SMTT(60)
  <2> QED
    BY <2>1, <2>5, <2>6
\* The positions of what is kept are distinct.
<1>PositionsDistinct. ASSUME NEW S, NEW s \in Seq(S), NEW T, NEW at, KeptAt(s, T, Keep(s, T), Len(s), at)
                      PROVE  \A j, k \in 1 .. Len(Keep(s, T)) : at[j] = at[k] => j = k
  <2> USE <1>PositionsDistinct
  <2>1. Keep(s, T) \in Seq(S)
    BY <1>KeepPositions
  <2>2. SUFFICES ASSUME NEW j \in 1 .. Len(Keep(s, T)), NEW k \in 1 .. Len(Keep(s, T)), at[j] = at[k]
                 PROVE  j = k
    OBVIOUS
  <2> DEFINE m == Len(Keep(s, T))
  <2>3. m \in Nat
    BY <2>1, SMTT(60)
  <2>4. /\ at \in [1 .. m -> 1 .. Len(s)]
        /\ \A a, b \in 1 .. m : a < b => at[a] < at[b]
    BY DEF KeptAt
  <2> HIDE DEF m
  <2>5. j \in 1 .. m /\ k \in 1 .. m
    BY DEF m
  <2>6. at[j] \in Nat /\ at[k] \in Nat
    BY <2>4, <2>5, SMTT(60)
  <2> QED
    BY <2>2, <2>3, <2>4, <2>5, <2>6, SMTT(60)
\* What is kept of a list is its part in T.
<1>KeepRange. ASSUME NEW S, NEW s \in Seq(S), NEW T
              PROVE  Range(Keep(s, T)) = Range(s) \cap T
  <2>1. Keep(s, T) \in Seq(S)
    BY <1>KeepPositions
  <2>2. PICK at : KeptAt(s, T, Keep(s, T), Len(s), at)
    BY <1>KeepPositions
  <2>3. DOMAIN s = 1 .. Len(s) /\ DOMAIN Keep(s, T) = 1 .. Len(Keep(s, T))
    BY <2>1, SMTT(60)
  <2>4. ASSUME NEW k \in 1 .. Len(Keep(s, T)) PROVE Keep(s, T)[k] \in Range(s) \cap T
    <3>1. at[k] \in 1 .. Len(s) /\ Keep(s, T)[k] = s[at[k]] /\ Keep(s, T)[k] \in T
      BY <2>2 DEF KeptAt
    <3> QED
      BY <2>3, <3>1 DEF Range
  <2>5. ASSUME NEW i \in 1 .. Len(s), s[i] \in T PROVE s[i] \in Range(Keep(s, T))
    <3>1. PICK k \in 1 .. Len(Keep(s, T)) : at[k] = i
      BY <2>2, <2>5 DEF KeptAt
    <3>2. Keep(s, T)[k] = s[i]
      BY <2>2, <3>1 DEF KeptAt
    <3> QED
      BY <2>3, <3>2 DEF Range
  <2> QED
    BY <2>3, <2>4, <2>5 DEF Range
\* What is kept of a list without repetitions has none.
<1>KeepInjective. ASSUME NEW S, NEW s \in Seq(S), NEW T, IsInjective(s)
                  PROVE  IsInjective(Keep(s, T))
  <2> USE <1>KeepInjective
  <2>1. Keep(s, T) \in Seq(S)
    BY <1>KeepPositions
  <2>2. PICK at : KeptAt(s, T, Keep(s, T), Len(s), at)
    BY <1>KeepPositions
  <2>3. \A j, k \in 1 .. Len(Keep(s, T)) : at[j] = at[k] => j = k
    BY <2>2, <1>PositionsDistinct
  <2>4. DOMAIN s = 1 .. Len(s) /\ DOMAIN Keep(s, T) = 1 .. Len(Keep(s, T))
    BY <2>1, SMTT(60)
  <2>5. \A k \in 1 .. Len(Keep(s, T)) : at[k] \in 1 .. Len(s) /\ Keep(s, T)[k] = s[at[k]]
    BY <2>2 DEF KeptAt
  <2>6. ASSUME NEW j \in 1 .. Len(Keep(s, T)), NEW k \in 1 .. Len(Keep(s, T)),
               Keep(s, T)[j] = Keep(s, T)[k]
        PROVE  j = k
    <3>1. at[j] \in DOMAIN s /\ at[k] \in DOMAIN s /\ s[at[j]] = s[at[k]]
      BY <2>4, <2>5, <2>6
    <3>2. at[j] = at[k]
      BY <3>1 DEF IsInjective
    <3> QED
      BY <2>3, <3>2
  <2> QED
    BY <2>4, <2>6 DEF IsInjective
<1>main. ASSUME NEW s, IsList(s), NEW T
         PROVE  /\ IsList(Keep(s, T))
                /\ Range(Keep(s, T)) = Range(s) \cap T
                /\ IsInjective(s) => IsInjective(Keep(s, T))
                /\ \E at : /\ KeptAt(s, T, Keep(s, T), Len(s), at)
                           /\ \A j, k \in 1 .. Len(Keep(s, T)) : at[j] = at[k] => j = k
  <2> USE <1>main
  <2>1. s \in Seq(Range(s))
    BY DEF IsList
  <2>2. PICK at : KeptAt(s, T, Keep(s, T), Len(s), at)
    BY <2>1, <1>KeepPositions
  <2>3. \A j, k \in 1 .. Len(Keep(s, T)) : at[j] = at[k] => j = k
    BY <2>1, <2>2, <1>PositionsDistinct
  <2>4. IsList(Keep(s, T))
    BY <2>1, <1>KeepPositions, ListOfRange
  <2> QED
    BY <2>1, <2>2, <2>3, <2>4, <1>KeepRange, <1>KeepInjective
<1> QED
  BY <1>main, SMTT(60)

-----------------------------------------------------------------------------
(* Total.                                                                  *)

\* f lists the sums of the prefixes of s.
Sums(s, f) == f[0] = 0 /\ \A n \in 1 .. Len(s) : f[n] = f[n - 1] + s[n]

\* The recursion of Total is well-defined, and yields numbers.
LEMMA TotalRecursion ==
  ASSUME NEW s \in Seq(Nat)
  PROVE  \E f \in [0 .. Len(s) -> Nat] : Sums(s, f) /\ Total(s) = f[Len(s)]
<1> DEFINE step == [i \in 1 .. Len(s) |-> [v \in Nat |-> v + s[i]]]
           Defined(f) == f = [n \in 0 .. Len(s) |-> IF n = 0 THEN 0 ELSE f[n - 1] + s[n]]
<1>1. Len(s) \in Nat /\ 0 \in Nat /\ \A i \in 1 .. Len(s) : s[i] \in Nat
  BY SMTT(60)
<1>2. step \in [1 .. Len(s) -> [Nat -> Nat]]
  <2>1. ASSUME NEW i \in 1 .. Len(s), NEW v \in Nat PROVE v + s[i] \in Nat
    BY SMTT(60)
  <2> QED
    BY <2>1
<1>3. PICK f \in [0 .. Len(s) -> Nat] : f[0] = 0 /\ \A i \in 1 .. Len(s) : f[i] = step[i][f[i - 1]]
  <2> DEFINE n == Len(s)
  <2>1. Steppable(n, Nat, 0, step)
    BY <1>1, <1>2 DEF Steppable
  <2>2. Iterable(n, Nat, 0, step)
    BY <2>1, Recursion
  <2> QED
    BY <2>2 DEF Iterable
<1>4. ASSUME NEW i \in 1 .. Len(s) PROVE f[i] = f[i - 1] + s[i]
  <2>1. f[i - 1] \in Nat
    BY SMTT(60)
  <2>2. step[i][f[i - 1]] = f[i - 1] + s[i]
    BY <2>1
  <2> QED
    BY <1>3, <2>2
<1>5. Defined(f)
  <2>1. f = [i \in 0 .. Len(s) |-> f[i]]
    OBVIOUS
  <2>2. ASSUME NEW i \in 0 .. Len(s) PROVE f[i] = IF i = 0 THEN 0 ELSE f[i - 1] + s[i]
    <3>1. CASE i = 0
      BY <1>3, <3>1
    <3>2. CASE i # 0
      <4>1. i \in 1 .. Len(s)
        BY <3>2, SMTT(60)
      <4> QED
        BY <1>4, <3>2, <4>1
    <3> QED
      BY <3>1, <3>2
  <2> QED
    BY <2>1, <2>2
<1> DEFINE c == CHOOSE g : Defined(g)
<1>6. Defined(c)
  BY <1>5
<1>7. Total(s) = c[Len(s)]
  BY DEF Total
<1> HIDE DEF c
<1>8. Sums(s, c)
  <2>1. 0 \in 0 .. Len(s) /\ \A i \in 1 .. Len(s) : i \in 0 .. Len(s) /\ i # 0
    BY <1>1, SMTT(60)
  <2> QED
    BY <1>6, <2>1 DEF Sums
<1>9. c \in [0 .. Len(s) -> Nat]
  <2> DEFINE P == {i \in 0 .. Len(s) : c[i] \in Nat}
  <2>1. 0 \in P
    BY <1>1, <1>8, SMTT(60) DEF Sums
  <2>2. ASSUME NEW i \in 0 .. (Len(s) - 1), i \in P PROVE i + 1 \in P
    <3>1. i + 1 \in 1 .. Len(s) /\ (i + 1) - 1 = i /\ i + 1 \in 0 .. Len(s)
      BY SMTT(60)
    <3>2. c[i + 1] = c[(i + 1) - 1] + s[i + 1]
      BY <1>8, <3>1 DEF Sums
    <3>3. c[i] \in Nat /\ s[i + 1] \in Nat
      BY <1>1, <2>2, <3>1
    <3> QED
      BY <3>1, <3>2, <3>3, SMTT(60)
  <2>3. \A i \in 0 .. Len(s) : i \in P
    <3> HIDE DEF P
    <3> QED
      BY <1>1, <2>1, <2>2, UpTo
  <2>4. DOMAIN c = 0 .. Len(s) /\ c = [i \in 0 .. Len(s) |-> c[i]]
    BY <1>6
  <2> QED
    BY <2>3, <2>4
<1> QED
  BY <1>7, <1>8, <1>9

\* Sums of prefixes end in the total.
LEMMA TotalIs ==
  ASSUME NEW s \in Seq(Nat), NEW f, Sums(s, f)
  PROVE  Total(s) = f[Len(s)] /\ Total(s) \in Nat
<1>1. Len(s) \in Nat
  BY SMTT(60)
<1>2. PICK g \in [0 .. Len(s) -> Nat] : Sums(s, g) /\ Total(s) = g[Len(s)]
  BY TotalRecursion
<1> DEFINE P == {i \in 0 .. Len(s) : f[i] = g[i]}
<1>3. 0 \in P
  BY <1>1, <1>2, SMTT(60) DEF Sums
<1>4. ASSUME NEW i \in 0 .. (Len(s) - 1), i \in P PROVE i + 1 \in P
  <2>1. i + 1 \in 1 .. Len(s) /\ (i + 1) - 1 = i /\ i + 1 \in 0 .. Len(s)
    BY SMTT(60)
  <2>2. f[i + 1] = f[(i + 1) - 1] + s[i + 1] /\ g[i + 1] = g[(i + 1) - 1] + s[i + 1]
    BY <1>2, <2>1 DEF Sums
  <2>3. f[i] = g[i]
    BY <1>4
  <2> QED
    BY <2>1, <2>2, <2>3
<1>5. \A i \in 0 .. Len(s) : i \in P
  <2> HIDE DEF P
  <2> QED
    BY <1>1, <1>3, <1>4, UpTo
<1>6. Len(s) \in 0 .. Len(s)
  BY <1>1, SMTT(60)
<1> QED
  BY <1>2, <1>5, <1>6

\* The total of two lists, one after the other.
LEMMA TotalConcat ==
  ASSUME NEW s \in Seq(Nat), NEW t \in Seq(Nat)
  PROVE  Total(s \o t) = Total(s) + Total(t)
<1> DEFINE m == Len(s)
           n == Len(t)
<1>1. /\ m \in Nat /\ n \in Nat /\ s \o t \in Seq(Nat) /\ Len(s \o t) = m + n
      /\ \A i \in 1 .. m : (s \o t)[i] = s[i]
      /\ \A i \in 1 .. n : (s \o t)[m + i] = t[i]
  BY SMTT(60)
<1>0. m \in Nat /\ n \in Nat
  BY <1>1
<1>2. PICK f \in [0 .. m -> Nat] : Sums(s, f) /\ Total(s) = f[m]
  BY TotalRecursion
<1>3. PICK g \in [0 .. n -> Nat] : Sums(t, g) /\ Total(t) = g[n]
  BY TotalRecursion
<1> DEFINE u == s \o t
           h == [i \in 0 .. (m + n) |-> IF i <= m THEN f[i] ELSE f[m] + g[i - m]]
<1>4. f[0] = 0 /\ \A i \in 1 .. m : f[i] = f[i - 1] + s[i]
  BY <1>2 DEF Sums
<1>5. g[0] = 0 /\ \A i \in 1 .. n : g[i] = g[i - 1] + t[i]
  BY <1>3 DEF Sums
<1>6. \A i \in 1 .. m : s[i] \in Nat
  BY SMTT(60)
<1>7. \A i \in 1 .. n : t[i] \in Nat
  BY SMTT(60)
<1> HIDE DEF m, n, u
<1>8. h[0] = 0
  BY <1>1, <1>4, SMTT(60)
<1>9. ASSUME NEW i \in 1 .. (m + n) PROVE h[i] = h[i - 1] + u[i]
  <2>1. CASE i <= m
    <3>1. i \in 1 .. m /\ i - 1 \in 0 .. (m + n) /\ i - 1 <= m /\ i \in 0 .. (m + n)
      BY <1>0, <2>1, SMTT(60)
    <3>2. h[i] = f[i] /\ h[i - 1] = f[i - 1] /\ u[i] = s[i]
      BY <1>1, <2>1, <3>1 DEF u
    <3> QED
      BY <1>4, <3>1, <3>2
  <2>2. CASE i = m + 1
    <3>1. 1 \in 1 .. n /\ i \in 0 .. (m + n) /\ i - 1 \in 0 .. (m + n) /\ i - 1 = m /\ m <= m
          /\ ~(i <= m) /\ i - m = 1 /\ 1 - 1 = 0
      BY <1>0, <2>2, SMTT(60)
    <3>2. h[i] = f[m] + g[1] /\ h[i - 1] = f[m] /\ u[i] = t[1]
      BY <1>1, <2>2, <3>1 DEF u
    <3>3. g[1] = g[0] + t[1]
      BY <1>5, <3>1
    <3>4. f[m] \in Nat /\ t[1] \in Nat
      BY <1>1, <1>7, <3>1, SMTT(60)
    <3> QED
      BY <1>5, <3>2, <3>3, <3>4, SMTT(60)
  <2>3. CASE i > m + 1
    <3> DEFINE k == i - m
    <3>1. k \in 1 .. n /\ i \in 0 .. (m + n) /\ i - 1 \in 0 .. (m + n) /\ ~(i <= m) /\ ~(i - 1 <= m)
          /\ (i - 1) - m = k - 1 /\ m + k = i /\ k - 1 \in 0 .. n /\ k \in 0 .. n
      BY <1>0, <2>3, SMTT(60)
    <3>2. h[i] = f[m] + g[k] /\ h[i - 1] = f[m] + g[k - 1]
      BY <3>1
    <3> HIDE DEF k
    <3>3. u[i] = t[k]
      BY <1>1, <3>1 DEF u
    <3>4. g[k] = g[k - 1] + t[k]
      BY <1>5, <3>1
    <3>5. f[m] \in Nat /\ t[k] \in Nat /\ g[k - 1] \in Nat
      BY <1>1, <1>7, <3>1, SMTT(60)
    <3> QED
      BY <3>2, <3>3, <3>4, <3>5, SMTT(60)
  <2> QED
    BY <1>1, <2>1, <2>2, <2>3, SMTT(60)
<1>10. h[m + n] = f[m] + g[n]
  <2>1. CASE n = 0
    BY <1>1, <1>5, <2>1, SMTT(60)
  <2>2. CASE n # 0
    BY <1>0, <2>2, SMTT(60)
  <2> QED
    BY <2>1, <2>2
<1> HIDE DEF h
<1>11. u \in Seq(Nat) /\ Len(u) = m + n
  BY <1>1 DEF u
<1>12. Sums(u, h)
  BY <1>8, <1>9, <1>11 DEF Sums
<1>13. Total(u) = h[m + n]
  BY <1>11, <1>12, TotalIs
<1> QED
  BY <1>2, <1>3, <1>10, <1>13 DEF u

\* The first number and the rest.
LEMMA TotalTail ==
  ASSUME NEW s \in Seq(Nat)
  PROVE  /\ Total(s) \in Nat
         /\ s = <<>> => Total(s) = 0
         /\ s # <<>> => /\ Head(s) \in Nat /\ Total(Tail(s)) \in Nat
                        /\ Total(s) = Head(s) + Total(Tail(s))
<1>1. Total(s) \in Nat
  BY TotalRecursion, TotalIs
<1>2. ASSUME s = <<>> PROVE Total(s) = 0
  <2>1. PICK f \in [0 .. Len(s) -> Nat] : Sums(s, f) /\ Total(s) = f[Len(s)]
    BY TotalRecursion
  <2>2. Len(s) = 0
    BY <1>2
  <2> QED
    BY <2>1, <2>2 DEF Sums
<1>3. ASSUME s # <<>>
      PROVE  Head(s) \in Nat /\ Total(Tail(s)) \in Nat /\ Total(s) = Head(s) + Total(Tail(s))
  <2> DEFINE x == Head(s)
             one == <<x>>
             f == [i \in 0 .. 1 |-> IF i = 0 THEN 0 ELSE x]
  <2>1. x \in Nat /\ Tail(s) \in Seq(Nat) /\ one \in Seq(Nat) /\ s = one \o Tail(s)
        /\ Len(one) = 1 /\ one[1] = x
    BY <1>3, SMTT(60)
  <2> HIDE DEF one, x
  <2>2. Sums(one, f) /\ f[1] = x
    BY <2>1, SMTT(60) DEF Sums
  <2> HIDE DEF f
  <2>3. Total(one) = x
    BY <2>1, <2>2, TotalIs
  <2>4. Total(Tail(s)) \in Nat
    BY <2>1, TotalRecursion, TotalIs
  <2>5. Total(one \o Tail(s)) = Total(one) + Total(Tail(s))
    BY <2>1, TotalConcat
  <2> QED
    BY <2>1, <2>3, <2>4, <2>5 DEF x
<1> QED
  BY <1>1, <1>2, <1>3

\* What the elements of a list weigh.
Weights(s, w) == [i \in DOMAIN s |-> w[s[i]]]

\* The weight of two lists, and of a list without its first element.
LEMMA WeightsTotal ==
  ASSUME NEW R, NEW w \in [R -> Nat], NEW s \in Seq(R), NEW t \in Seq(R)
  PROVE  /\ Total(Weights(s, w)) \in Nat
         /\ Total(Weights(s \o t, w)) = Total(Weights(s, w)) + Total(Weights(t, w))
         /\ s # <<>> => /\ w[Head(s)] \in Nat
                        /\ Total(Weights(Tail(s), w)) \in Nat
                        /\ Total(Weights(s, w)) = w[Head(s)] + Total(Weights(Tail(s), w))
<1>1. /\ Weights(s, w) \in Seq(Nat) /\ Weights(t, w) \in Seq(Nat)
      /\ Len(Weights(s, w)) = Len(s) /\ Len(Weights(t, w)) = Len(t)
  <2>1. DOMAIN s = 1 .. Len(s) /\ DOMAIN t = 1 .. Len(t) /\ Len(s) \in Nat /\ Len(t) \in Nat
    BY SMTT(60)
  <2>2. Weights(s, w) \in [1 .. Len(s) -> Nat] /\ Weights(t, w) \in [1 .. Len(t) -> Nat]
    BY <2>1, SMTT(60) DEF Weights
  <2>3. ASSUME NEW k \in Nat, NEW f \in [1 .. k -> Nat] PROVE f \in Seq(Nat) /\ Len(f) = k
    BY SMTT(60)
  <2> QED
    BY <2>1, <2>2, <2>3
<1>2. Weights(s \o t, w) = Weights(s, w) \o Weights(t, w)
  <2> DEFINE a == Weights(s \o t, w)
             b == Weights(s, w) \o Weights(t, w)
  <2>1. /\ Len(s) \in Nat /\ Len(t) \in Nat
        /\ DOMAIN (s \o t) = 1 .. (Len(s) + Len(t))
        /\ DOMAIN s = 1 .. Len(s) /\ DOMAIN t = 1 .. Len(t)
    BY SMTT(60)
  <2>2. DOMAIN a = 1 .. (Len(s) + Len(t)) /\ a = [i \in 1 .. (Len(s) + Len(t)) |-> a[i]]
    BY <2>1 DEF Weights
  <2>3. DOMAIN b = 1 .. (Len(s) + Len(t)) /\ b = [i \in 1 .. (Len(s) + Len(t)) |-> b[i]]
    <3>1. ASSUME NEW x \in Seq(Nat), NEW y \in Seq(Nat)
          PROVE  x \o y \in Seq(Nat) /\ Len(x \o y) = Len(x) + Len(y)
      BY SMTT(60)
    <3>2. b \in Seq(Nat) /\ Len(b) = Len(s) + Len(t)
      BY <1>1, <3>1
    <3> HIDE DEF b
    <3> QED
      BY <3>2, SMTT(60)
  <2>4. ASSUME NEW i \in 1 .. (Len(s) + Len(t)) PROVE a[i] = b[i]
    <3>1. a[i] = w[(s \o t)[i]]
      BY <2>1 DEF Weights
    <3>2. CASE i <= Len(s)
      <4>1. i \in 1 .. Len(s) /\ (s \o t)[i] = s[i] /\ b[i] = Weights(s, w)[i]
        BY <1>1, <2>1, <3>2, SMTT(60)
      <4> QED
        BY <2>1, <3>1, <4>1 DEF Weights
    <3>3. CASE ~(i <= Len(s))
      <4>1. /\ i - Len(s) \in 1 .. Len(t) /\ (s \o t)[i] = t[i - Len(s)]
            /\ b[i] = Weights(t, w)[i - Len(s)]
        BY <1>1, <2>1, <3>3, SMTT(60)
      <4> QED
        BY <2>1, <3>1, <4>1 DEF Weights
    <3> QED
      BY <3>2, <3>3
  <2> HIDE DEF a, b
  <2>5. a = b
    BY <2>2, <2>3, <2>4
  <2> QED
    BY <2>5 DEF a, b
<1>3. ASSUME s # <<>>
      PROVE  /\ Weights(s, w) # <<>> /\ Head(Weights(s, w)) = w[Head(s)]
             /\ Weights(Tail(s), w) = Tail(Weights(s, w))
  <2> DEFINE n == Len(s)
             a == Weights(Tail(s), w)
             b == Tail(Weights(s, w))
  <2>1. /\ n \in Nat /\ n >= 1 /\ DOMAIN s = 1 .. n /\ Head(s) = s[1] /\ DOMAIN Tail(s) = 1 .. (n - 1)
        /\ \A i \in 1 .. (n - 1) : Tail(s)[i] = s[i + 1] /\ i + 1 \in 1 .. n
    BY <1>3, SMTT(60)
  <2>2. /\ Weights(s, w) # <<>> /\ Head(Weights(s, w)) = Weights(s, w)[1]
        /\ b \in Seq(Nat) /\ DOMAIN b = 1 .. (n - 1)
        /\ \A i \in 1 .. (n - 1) : b[i] = Weights(s, w)[i + 1]
    BY <1>1, <2>1, SMTT(60)
  <2>3. 1 \in DOMAIN s
    BY <2>1, SMTT(60)
  <2>4. Head(Weights(s, w)) = w[Head(s)]
    BY <2>1, <2>2, <2>3 DEF Weights
  <2>5. DOMAIN a = 1 .. (n - 1) /\ a = [i \in 1 .. (n - 1) |-> a[i]]
    BY <2>1 DEF Weights
  <2>6. b = [i \in 1 .. (n - 1) |-> b[i]]
    <3> HIDE DEF b, n
    <3> QED
      BY <2>2, SMTT(60)
  <2>7. ASSUME NEW i \in 1 .. (n - 1) PROVE a[i] = b[i]
    <3>1. a[i] = w[Tail(s)[i]]
      BY <2>1 DEF Weights
    <3>2. b[i] = Weights(s, w)[i + 1] /\ i + 1 \in DOMAIN s
      BY <2>1, <2>2
    <3> QED
      BY <2>1, <3>1, <3>2 DEF Weights
  <2> HIDE DEF a, b
  <2>8. a = b
    BY <2>5, <2>6, <2>7
  <2> QED
    BY <2>2, <2>4, <2>8 DEF a, b
<1>4. Total(Weights(s, w) \o Weights(t, w)) = Total(Weights(s, w)) + Total(Weights(t, w))
  BY <1>1, TotalConcat
<1>5. Total(Weights(s, w)) \in Nat
  BY <1>1, TotalTail
<1>6. ASSUME s # <<>>
      PROVE  /\ w[Head(s)] \in Nat /\ Total(Weights(Tail(s), w)) \in Nat
             /\ Total(Weights(s, w)) = w[Head(s)] + Total(Weights(Tail(s), w))
  BY <1>1, <1>3, <1>6, TotalTail
<1> QED
  BY <1>2, <1>4, <1>5, <1>6

-----------------------------------------------------------------------------
(* The operator table.  Operators are only ever appended to the table, and *)
(* their bits to the bitmap; removing one clears its bit.                  *)

\* new holds the elements of old, and maybe more behind them.
Grown(old, new) == Len(old) <= Len(new) /\ \A i \in DOMAIN old : i \in DOMAIN new /\ new[i] = old[i]

\* One bit per operator, and no operator twice.
Members(operators, active) ==
  /\ IsList(operators) /\ IsInjective(operators)
  /\ active \in Seq(BOOLEAN) /\ Len(active) = Len(operators)

\* What the bits of two states of the table say of each other.
Shrunk(old, new) ==
  /\ Len(old) <= Len(new)
  /\ \A i \in DOMAIN old : i \in DOMAIN new /\ (new[i] => old[i])

\* Appending makes a list grow.
LEMMA AppendGrown ==
  ASSUME NEW s, IsList(s), NEW e
  PROVE  /\ IsList(Append(s, e)) /\ Grown(s, Append(s, e)) /\ Len(Append(s, e)) = Len(s) + 1
         /\ e \notin Range(s) /\ IsInjective(s) => IsInjective(Append(s, e))
<1> DEFINE t == Append(s, e)
<1>1. DOMAIN s = 1 .. Len(s) /\ Len(s) \in Nat
  BY ListDomain
<1>2. /\ IsList(t) /\ Len(t) = Len(s) + 1 /\ t[Len(s) + 1] = e
      /\ \A i \in 1 .. Len(s) : t[i] = s[i]
  BY ListAppend, SMTT(60)
<1>3. DOMAIN t = 1 .. Len(t)
  BY <1>2, ListDomain
<1> HIDE DEF t
<1>4. Grown(s, t)
  BY <1>1, <1>2, <1>3, SMTT(60) DEF Grown
<1>5. ASSUME e \notin Range(s), IsInjective(s), NEW i \in DOMAIN t, NEW j \in DOMAIN t, t[i] = t[j]
      PROVE  i = j
  <2>1. \A k \in 1 .. Len(s) : s[k] # e
    BY <1>1, <1>5 DEF Range
  <2>2. \A k, m \in 1 .. Len(s) : s[k] = s[m] => k = m
    BY <1>1, <1>5 DEF IsInjective
  <2>3. \A k \in DOMAIN t : k \in 1 .. Len(s) \/ k = Len(s) + 1
    BY <1>1, <1>2, <1>3, SMTT(60)
  <2>4. CASE i \in 1 .. Len(s) /\ j \in 1 .. Len(s)
    BY <1>2, <1>5, <2>2, <2>4
  <2>5. CASE i = Len(s) + 1 /\ j \in 1 .. Len(s)
    BY <1>2, <1>5, <2>1, <2>5
  <2>6. CASE j = Len(s) + 1 /\ i \in 1 .. Len(s)
    BY <1>2, <1>5, <2>1, <2>6
  <2> QED
    BY <2>3, <2>4, <2>5, <2>6
<1> QED
  BY <1>2, <1>4, <1>5 DEF t, IsInjective

\* Setting the bit just past the end makes the bitmap grow.
LEMMA SetNextBit ==
  ASSUME NEW bits \in Seq(BOOLEAN)
  PROVE  /\ try_set(bits, Len(bits), TRUE) \in Seq(BOOLEAN)
         /\ Len(try_set(bits, Len(bits), TRUE)) = Len(bits) + 1
         /\ Grown(bits, try_set(bits, Len(bits), TRUE))
<1> DEFINE n == Len(bits)
           new == try_set(bits, n, TRUE)
<1>1. n \in Nat /\ DOMAIN bits = 1 .. n /\ \A i \in 1 .. n : bits[i] \in BOOLEAN
  BY SMTT(60)
<1> HIDE DEF n
<1>2. new = [i \in 1 .. (n + 1) |-> IF i = n + 1 THEN TRUE ELSE bits[i]]
  BY DEF try_set, n
<1>3. \A i \in 1 .. (n + 1) : i # n + 1 => i \in 1 .. n
  BY <1>1, SMTT(60)
<1>4. \A i \in 1 .. (n + 1) : (IF i = n + 1 THEN TRUE ELSE bits[i]) \in BOOLEAN
  BY <1>1, <1>3
<1> HIDE DEF new
<1>5. new \in [1 .. (n + 1) -> BOOLEAN]
  BY <1>2, <1>4
<1>6. new \in Seq(BOOLEAN) /\ Len(new) = n + 1
  BY <1>1, <1>5, SMTT(60)
<1>7. \A i \in 1 .. n : i \in 1 .. (n + 1) /\ i # n + 1
  BY <1>1, SMTT(60)
<1>8. \A i \in 1 .. n : i \in DOMAIN new /\ new[i] = bits[i]
  BY <1>2, <1>7
<1>9. n <= n + 1
  BY <1>1, SMTT(60)
<1>10. Grown(bits, new)
  BY <1>1, <1>6, <1>8, <1>9 DEF Grown, n
<1> QED
  BY <1>6, <1>10 DEF new, n

\* f lists the states of the table while members are added one after another.
Additions(operators, active, members, f) ==
  /\ f[0] = [operators |-> operators, active |-> active]
  /\ \A i \in 1 .. Len(members) : f[i] = AddOperator(f[i - 1], members[i])
  /\ \A i \in 0 .. Len(members) :
         /\ Members(f[i].operators, f[i].active)
         /\ Grown(operators, f[i].operators) /\ Grown(active, f[i].active)

\* The recursion of add_operators is well-defined, and only appends.
LEMMA AddOperatorsSteps ==
  \A operators, active, members :
     Members(operators, active) /\ IsList(members)
      => \E f : /\ Additions(operators, active, members, f)
               /\ add_operators(operators, active, members) = f[Len(members)]
\* Growing composes.
<1>GrownTwice. ASSUME NEW a, NEW b, NEW c, Grown(a, b), Grown(b, c), Len(a) \in Nat, Len(b) \in Nat, Len(c) \in Nat
               PROVE  Grown(a, c)
  <2> USE <1>GrownTwice
  <2>1. Len(a) <= Len(b) /\ Len(b) <= Len(c)
    BY DEF Grown
  <2>2. Len(a) <= Len(c)
    BY <2>1, SMTT(60)
  <2> QED
    BY <2>2 DEF Grown
\* add_operators, one key: a known one is skipped, a new one gets the next index.
<1>AddOperatorGrows. ASSUME NEW state, Members(state.operators, state.active), NEW pk
                     PROVE  /\ Members(AddOperator(state, pk).operators, AddOperator(state, pk).active)
                            /\ Grown(state.operators, AddOperator(state, pk).operators)
                            /\ Grown(state.active, AddOperator(state, pk).active)
                            /\ Range(AddOperator(state, pk).operators) \subseteq Range(state.operators) \cup {pk}
  <2> USE <1>AddOperatorGrows
  <2> DEFINE ops == state.operators
             act == state.active
             more == Append(ops, pk)
             bits == try_set(act, Len(ops), TRUE)
  <2>1. IsList(ops) /\ IsInjective(ops) /\ act \in Seq(BOOLEAN) /\ Len(act) = Len(ops)
    BY DEF Members
  <2>2. CASE pk \in Range(ops)
    <3>1. AddOperator(state, pk) = state
      BY <2>2 DEF AddOperator
    <3>2. Len(ops) <= Len(ops) /\ Len(act) <= Len(act)
      BY <2>1, SMTT(60)
    <3>3. Grown(ops, ops) /\ Grown(act, act)
      BY <3>2 DEF Grown
    <3> QED
      BY <3>1, <3>3
  <2>3. CASE pk \notin Range(ops)
    <3>1. AddOperator(state, pk) = [operators |-> more, active |-> bits]
      BY <2>3 DEF AddOperator
    <3>2. AddOperator(state, pk).operators = more /\ AddOperator(state, pk).active = bits
      BY <3>1, SMTT(60)
    <3>3. IsList(more) /\ Grown(ops, more) /\ Len(more) = Len(ops) + 1 /\ IsInjective(more)
      BY <2>1, <2>3, AppendGrown
    <3>4. bits \in Seq(BOOLEAN) /\ Len(bits) = Len(act) + 1 /\ Grown(act, bits)
      BY <2>1, SetNextBit
    <3>5. Range(more) \subseteq Range(ops) \cup {pk}
      <4>1. ops \in Seq(Range(ops) \cup {pk}) /\ pk \in Range(ops) \cup {pk}
        <5>1. ops \in Seq(Range(ops))
          BY <2>1 DEF IsList
        <5> DEFINE R == Range(ops)
        <5> HIDE DEF R
        <5>2. ops \in Seq(R)
          BY <5>1 DEF R
        <5>3. ops \in Seq(R \cup {pk})
          BY <5>2, SMTT(60)
        <5> QED
          BY <5>3 DEF R
      <4> DEFINE T == Range(ops) \cup {pk}
      <4> HIDE DEF T
      <4>2. more \in Seq(T)
        BY <4>1, SMTT(60) DEF T
      <4>3. \A i \in DOMAIN more : more[i] \in T
        <5> HIDE DEF more
        <5> QED
          BY <4>2, SMTT(60)
      <4> QED
        BY <4>3 DEF Range, T
    <3> HIDE DEF more, bits
    <3>6. Members(more, bits)
      BY <2>1, <3>3, <3>4 DEF Members
    <3> QED
      BY <3>2, <3>3, <3>4, <3>5, <3>6
  <2> QED
    BY <2>2, <2>3
<1>main. ASSUME NEW operators, NEW active, Members(operators, active), NEW members, IsList(members)
         PROVE  \E f : /\ Additions(operators, active, members, f)
                      /\ add_operators(operators, active, members) = f[Len(members)]
  <2> USE <1>main
  <2> DEFINE S == Range(operators) \cup Range(members)
             Good(v) == /\ Members(v.operators, v.active)
                        /\ Grown(operators, v.operators) /\ Grown(active, v.active)
             V == {v \in [operators : Seq(S), active : Seq(BOOLEAN)] : Good(v)}
             base == [operators |-> operators, active |-> active]
             n == Len(members)
             step == [i \in 1 .. n |-> [v \in V |-> AddOperator(v, members[i])]]
             Defined(f) == f = [i \in 0 .. n |-> IF i = 0 THEN base ELSE AddOperator(f[i - 1], members[i])]
  <2>1. n \in Nat /\ DOMAIN members = 1 .. n
    BY ListDomain
  <2>2. base \in V
    <3>1. IsList(operators) /\ active \in Seq(BOOLEAN) /\ Len(active) = Len(operators)
      BY DEF Members
    <3>2. operators \in Seq(Range(operators))
      BY <3>1 DEF IsList
    <3> DEFINE R == Range(operators)
               T == R \cup Range(members)
    <3>3. operators \in Seq(T)
      <4>1. operators \in Seq(R)
        BY <3>2
      <4> HIDE DEF R
      <4> QED
        BY <4>1, SMTT(60)
    <3>4. Len(operators) <= Len(operators) /\ Len(active) <= Len(active)
      BY <3>1, SMTT(60)
    <3>5. Grown(operators, operators) /\ Grown(active, active)
      BY <3>4 DEF Grown
    <3>6. base.operators = operators /\ base.active = active
      OBVIOUS
    <3>7. base \in [operators : Seq(T), active : Seq(BOOLEAN)]
      <4> HIDE DEF T
      <4> QED
        BY <3>1, <3>3
    <3> QED
      BY <3>5, <3>6, <3>7
  <2>3. ASSUME NEW v \in V, NEW i \in 1 .. n PROVE AddOperator(v, members[i]) \in V
    <3> DEFINE w == AddOperator(v, members[i])
               pk == members[i]
    <3>1. Good(v) /\ v \in [operators : Seq(S), active : Seq(BOOLEAN)]
      OBVIOUS
    <3>2. /\ Members(w.operators, w.active) /\ Grown(v.operators, w.operators)
          /\ Grown(v.active, w.active)
      BY <3>1, <1>AddOperatorGrows
    <3>3. /\ Len(operators) \in Nat /\ Len(active) \in Nat /\ Len(v.operators) \in Nat
          /\ Len(v.active) \in Nat /\ Len(w.operators) \in Nat /\ Len(w.active) \in Nat
      <4>1. \A a, b : Members(a, b) => Len(a) \in Nat /\ Len(b) \in Nat
        BY ListDomain DEF Members
      <4> QED
        BY <3>1, <3>2, <4>1
    <3>4. Grown(operators, w.operators) /\ Grown(active, w.active)
      BY <3>1, <3>2, <3>3, <1>GrownTwice
    <3>5. pk \in S
      BY <2>1 DEF Range
    <3>6. w \in [operators : Seq(S), active : Seq(BOOLEAN)]
      <4>1. w.active \in Seq(BOOLEAN) /\ v.operators \in Seq(S)
        <5> HIDE DEF w, S
        <5> QED
          BY <3>1, <3>2  DEF Members
      <4>2. CASE pk \in Range(v.operators)
        <5>1. w = v
          BY <4>2 DEF AddOperator
        <5> QED
          BY <3>1, <5>1
      <4>3. CASE pk \notin Range(v.operators)
        <5> DEFINE more == Append(v.operators, pk)
                   bits == try_set(v.active, Len(v.operators), TRUE)
        <5>1. w = [operators |-> more, active |-> bits]
          BY <4>3 DEF AddOperator
        <5>2. more \in Seq(S)
          <6> HIDE DEF S, pk
          <6> QED
            BY <3>5, <4>1, SMTT(60)
        <5> HIDE DEF w, S, more, bits
        <5>3. w.active = bits
          BY <5>1
        <5>4. bits \in Seq(BOOLEAN)
          BY <4>1, <5>3
        <5> QED
          BY <5>1, <5>2, <5>4
      <4> QED
        BY <4>2, <4>3
    <3> QED
      BY <3>2, <3>4, <3>6
  <2> HIDE DEF V, base, Good, n
  <2>4. step \in [1 .. n -> [V -> V]]
    BY <2>3
  <2>5. PICK f \in [0 .. n -> V] : f[0] = base /\ \A i \in 1 .. n : f[i] = step[i][f[i - 1]]
    <3>1. n \in Nat /\ base \in V /\ step \in [1 .. n -> [V -> V]]
      BY <2>1, <2>2, <2>4
    <3>2. Iterable(n, V, base, step)
      BY <3>1, Recursion DEF Steppable
    <3> QED
      BY <3>2 DEF Iterable
  <2>6. ASSUME NEW i \in 1 .. n PROVE f[i] = AddOperator(f[i - 1], members[i])
    <3>1. i - 1 \in 0 .. n
      BY <2>1, SMTT(60)
    <3>2. f[i - 1] \in V
      BY <3>1
    <3> QED
      BY <2>5, <3>2
  <2>7. Defined(f)
    <3>1. ASSUME NEW i \in 0 .. n
          PROVE  f[i] = IF i = 0 THEN base ELSE AddOperator(f[i - 1], members[i])
      <4>1. i # 0 => i \in 1 .. n
        BY <2>1, SMTT(60)
      <4> QED
        BY <2>5, <2>6, <4>1
    <3>2. f = [i \in 0 .. n |-> f[i]]
      OBVIOUS
    <3> QED
      BY <3>1, <3>2
  <2> DEFINE c == CHOOSE g : Defined(g)
  <2>8. Defined(c)
    BY <2>7
  <2>9. add_operators(operators, active, members) = c[n]
    BY DEF add_operators, base, n
  <2> HIDE DEF c
  <2>10. \A i \in 0 .. n : c[i] = f[i]
    <3> DEFINE P == {i \in 0 .. n : c[i] = f[i]}
    <3>1. 0 \in P
      <4>1. 0 \in 0 .. n
        BY <2>1, SMTT(60)
      <4> QED
        BY <2>5, <2>8, <4>1
    <3>2. ASSUME NEW i \in 0 .. (n - 1), i \in P PROVE i + 1 \in P
      <4>1. i + 1 \in 0 .. n /\ i + 1 \in 1 .. n /\ i + 1 # 0 /\ (i + 1) - 1 = i
        BY <2>1, SMTT(60)
      <4>2. c[i + 1] = AddOperator(c[(i + 1) - 1], members[i + 1])
        BY <2>8, <4>1
      <4>3. f[i + 1] = AddOperator(f[(i + 1) - 1], members[i + 1])
        BY <2>6, <4>1
      <4>4. c[i] = f[i]
        BY <3>2
      <4> QED
        BY <4>1, <4>2, <4>3, <4>4
    <3> HIDE DEF P
    <3>3. \A i \in 0 .. n : i \in P
      BY <2>1, <3>1, <3>2, UpTo
    <3> QED
      BY <3>3 DEF P
  <2>11. n \in 0 .. n
    BY <2>1, SMTT(60)
  <2>12. \A i \in 0 .. n : Good(f[i])
    BY DEF V
  <2>13. Additions(operators, active, members, f)
    BY <2>5, <2>6, <2>12 DEF Additions, Good, base, n
  <2> QED
    BY <2>9, <2>10, <2>11, <2>13 DEF n
<1> QED
  BY <1>main

\* add_operators: operators and bits are appended, the ones there are keep their places.
LEMMA AddOperatorsGrow ==
  ASSUME NEW operators, NEW active, Members(operators, active), NEW members, IsList(members)
  PROVE  /\ Members(add_operators(operators, active, members).operators,
                    add_operators(operators, active, members).active)
         /\ Grown(operators, add_operators(operators, active, members).operators)
         /\ Grown(active, add_operators(operators, active, members).active)
<1>1. PICK f : /\ Additions(operators, active, members, f)
               /\ add_operators(operators, active, members) = f[Len(members)]
  BY AddOperatorsSteps
<1>2. Len(members) \in Nat
  BY ListDomain
<1>3. Len(members) \in 0 .. Len(members)
  BY <1>2, SMTT(60)
<1> QED
  BY <1>1, <1>3 DEF Additions

\* The operators a bridge starts with are all active, and there is one.
LEMMA FirstOperators ==
  ASSUME NEW members, IsList(members), members # <<>>
  PROVE  /\ Members(add_operators(<<>>, <<>>, members).operators,
                    add_operators(<<>>, <<>>, members).active)
         /\ 1 \in DOMAIN add_operators(<<>>, <<>>, members).active
         /\ \A j \in DOMAIN add_operators(<<>>, <<>>, members).active :
                add_operators(<<>>, <<>>, members).active[j] = TRUE
<1> DEFINE none == <<>>
           n == Len(members)
<1>1. Members(none, none)
  <2>1. IsList(none) /\ IsInjective(none)
    BY SMTT(60) DEF IsList, IsInjective, Range
  <2> QED
    BY <2>1, SMTT(60) DEF Members
<1>2. n \in Nat /\ n # 0
  <2>1. members \in Seq(Range(members))
    BY DEF IsList
  <2> DEFINE R == Range(members)
  <2>2. members \in Seq(R)
    BY <2>1
  <2> HIDE DEF R
  <2> QED
    BY <2>2, SMTT(60)
<1>3. PICK f : Additions(none, none, members, f) /\ add_operators(none, none, members) = f[n]
  BY <1>1, AddOperatorsSteps
<1> DEFINE Full(state) == /\ Members(state.operators, state.active)
                          /\ \A j \in DOMAIN state.active : state.active[j] = TRUE
           P == {i \in 0 .. n : Full(f[i]) /\ (i # 0 => Len(f[i].active) >= 1)}
<1>4. 0 \in P
  <2>1. f[0] = [operators |-> none, active |-> none]
    BY <1>3 DEF Additions
  <2>2. f[0].operators = none /\ f[0].active = none
    BY <2>1, SMTT(60)
  <2>3. 0 \in 0 .. n
    BY <1>2, SMTT(60)
  <2>4. \A j \in DOMAIN none : none[j] = TRUE
    BY SMTT(60)
  <2> HIDE DEF none
  <2> QED
    BY <1>1, <2>2, <2>3, <2>4
<1>5. ASSUME NEW i \in 0 .. (n - 1), i \in P PROVE i + 1 \in P
  <2> DEFINE pk == members[i + 1]
             old == f[i]
             new == f[i + 1]
  <2>1. i + 1 \in 1 .. n /\ i + 1 \in 0 .. n /\ (i + 1) - 1 = i /\ i \in 0 .. n
    BY <1>2, SMTT(60)
  <2>2. new = AddOperator(old, pk) /\ Members(new.operators, new.active)
    BY <1>3, <2>1 DEF Additions
  <2>3. Full(old) /\ (i # 0 => Len(old.active) >= 1)
    BY <1>5
  <2>4. CASE pk \in Range(old.operators)
    <3>1. new = old
      BY <2>2, <2>4 DEF AddOperator
    <3>2. Len(old.active) >= 1
      <4>1. old.operators # <<>>
        <5>1. \E k \in DOMAIN old.operators : TRUE
          BY <2>4 DEF Range
        <5> HIDE DEF old
        <5> QED
          BY <5>1, SMTT(60)
      <4>2. IsList(old.operators) /\ Len(old.active) = Len(old.operators)
        BY <2>3 DEF Members
      <4> DEFINE ops == old.operators
                 R == Range(ops)
      <4>3. ops \in Seq(R) /\ ops # <<>>
        BY <4>1, <4>2 DEF IsList
      <4>4. Len(ops) >= 1
        <5> HIDE DEF ops, R
        <5> QED
          BY <4>3, SMTT(60)
      <4> QED
        BY <4>2, <4>4
    <3> QED
      BY <2>1, <2>3, <3>1, <3>2
  <2>5. CASE pk \notin Range(old.operators)
    <3> DEFINE act == old.active
               bits == try_set(act, Len(old.operators), TRUE)
    <3>1. new = [operators |-> Append(old.operators, pk), active |-> bits]
      BY <2>2, <2>5 DEF AddOperator
    <3>2. new.active = bits
      BY <3>1, SMTT(60)
    <3>3. act \in Seq(BOOLEAN) /\ Len(act) = Len(old.operators)
      BY <2>3 DEF Members
    <3>4. /\ Len(bits) = Len(act) + 1 /\ bits \in Seq(BOOLEAN)
          /\ bits = [k \in 1 .. (Len(act) + 1) |-> IF k = Len(act) + 1 THEN TRUE ELSE act[k]]
      BY <3>3, SetNextBit DEF try_set
    <3>5. Len(act) \in Nat /\ DOMAIN act = 1 .. Len(act)
      BY <3>3, SMTT(60)
    <3> HIDE DEF bits, new, old, act
    <3>6. \A k \in 1 .. (Len(act) + 1) : k # Len(act) + 1 => k \in DOMAIN act
      BY <3>5, SMTT(60)
    <3>7. \A k \in DOMAIN act : act[k] = TRUE
      BY <2>3 DEF act, old
    <3>8. \A k \in DOMAIN bits : bits[k] = TRUE
      BY <3>4, <3>6, <3>7
    <3>9. Len(bits) >= 1
      BY <3>4, <3>5, SMTT(60)
    <3>10. Full(new)
      BY <2>2, <3>2, <3>8 DEF new
    <3> QED
      BY <2>1, <3>2, <3>9, <3>10 DEF new
  <2> QED
    BY <2>4, <2>5
<1>6. \A i \in 0 .. n : i \in P
  <2> HIDE DEF P, n
  <2> QED
    BY <1>2, <1>4, <1>5, UpTo
<1>7. n \in 0 .. n
  BY <1>2, SMTT(60)
<1>8. Full(f[n]) /\ Len(f[n].active) >= 1
  BY <1>2, <1>6, <1>7
<1>9. 1 \in DOMAIN f[n].active
  <2> DEFINE act == f[n].active
  <2>1. act \in Seq(BOOLEAN) /\ Len(act) >= 1
    BY <1>8 DEF Members
  <2> HIDE DEF act
  <2>2. 1 \in DOMAIN act
    BY <2>1, SMTT(60)
  <2> QED
    BY <2>2 DEF act
<1> QED
  BY <1>3, <1>8, <1>9

\* remove_operators: bits are cleared, and none added.
LEMMA RemoveShrinks ==
  ASSUME NEW state, Members(state.operators, state.active), NEW indices
  PROVE  /\ Members(state.operators, remove_operators(state, indices))
         /\ Shrunk(state.active, remove_operators(state, indices))
<1> DEFINE act == state.active
           kept == remove_operators(state, indices)
           stays(i) == act[i] /\ ~(i - 1 \in Range(indices) /\ i \in DOMAIN state.operators)
<1>1. IsList(state.operators) /\ IsInjective(state.operators) /\ act \in Seq(BOOLEAN)
      /\ Len(act) = Len(state.operators)
  BY DEF Members
<1>2. kept = [i \in DOMAIN act |-> stays(i)]
  BY DEF remove_operators
<1>3. Len(act) \in Nat /\ DOMAIN act = 1 .. Len(act)
  BY <1>1, SMTT(60)
<1> HIDE DEF kept, act
<1>4. \A i \in DOMAIN act : stays(i) \in BOOLEAN
  OBVIOUS
<1> HIDE DEF stays
<1>5. kept \in [1 .. Len(act) -> BOOLEAN]
  BY <1>2, <1>3, <1>4
<1>6. kept \in Seq(BOOLEAN) /\ Len(kept) = Len(act)
  BY <1>3, <1>5, SMTT(60)
<1>7. \A i \in DOMAIN act : i \in DOMAIN kept /\ kept[i] = stays(i)
  BY <1>2
<1>8. \A i \in DOMAIN act : i \in DOMAIN kept /\ (kept[i] => act[i])
  BY <1>7 DEF stays
<1>9. Len(act) <= Len(kept)
  BY <1>3, <1>6, SMTT(60)
<1> QED
  BY <1>1, <1>6, <1>8, <1>9 DEF Members, Shrunk, kept, act

\* A membership change, whatever it adds and removes: operators are appended and bits are
\* appended or cleared; when the bits stay the same no operator was added.
LEMMA MembershipFacts ==
  \A table, add, drop :
     IsList(add) /\ Members(table.operators, InitialActive(table))
      => /\ Members(Membership(table, add, drop).operators, Membership(table, add, drop).active)
         /\ Grown(table.operators, Membership(table, add, drop).operators)
         /\ Shrunk(InitialActive(table), Membership(table, add, drop).active)
         /\ Membership(table, add, drop).active = InitialActive(table) =>
                Membership(table, add, drop).operators = table.operators
\* A list that grew without getting longer is the same list.
<1>GrownSame. ASSUME NEW old, IsList(old), NEW new, IsList(new), Grown(old, new), Len(new) = Len(old)
              PROVE  new = old
  <2> USE <1>GrownSame
  <2> DEFINE S == Range(old) \cup Range(new)
             A == Range(old)
             B == Range(new)
  <2>1. old \in Seq(A) /\ new \in Seq(B)
    BY DEF IsList
  <2>2. \A i \in DOMAIN old : i \in DOMAIN new /\ new[i] = old[i]
    BY DEF Grown
  <2> HIDE DEF A, B
  <2> QED
    BY <2>1, <2>2, SMTT(60)
<1>main. ASSUME NEW table, NEW add, NEW drop, IsList(add),
                Members(table.operators, InitialActive(table))
         PROVE  /\ Members(Membership(table, add, drop).operators, Membership(table, add, drop).active)
                /\ Grown(table.operators, Membership(table, add, drop).operators)
                /\ Shrunk(InitialActive(table), Membership(table, add, drop).active)
                /\ Membership(table, add, drop).active = InitialActive(table) =>
                       Membership(table, add, drop).operators = table.operators
  <2> USE <1>main
  <2> DEFINE ops == table.operators
             act == InitialActive(table)
             added == add_operators(ops, act, add)
             kept == remove_operators(added, drop)
             new == Membership(table, add, drop)
  <2>1. new = [operators |-> added.operators, active |-> kept]
    BY DEF Membership
  <2>2. new.operators = added.operators /\ new.active = kept
    BY <2>1, SMTT(60)
  <2>3. /\ Members(added.operators, added.active)
        /\ Grown(ops, added.operators) /\ Grown(act, added.active)
    BY AddOperatorsGrow
  <2>4. Members(added.operators, kept) /\ Shrunk(added.active, kept)
    BY <2>3, RemoveShrinks
  <2>5. act \in Seq(BOOLEAN) /\ added.active \in Seq(BOOLEAN) /\ kept \in Seq(BOOLEAN)
        /\ Len(kept) = Len(added.operators) /\ Len(act) = Len(ops)
    BY <2>3, <2>4 DEF Members
  <2>6. Shrunk(act, kept)
    <3> DEFINE mid == added.active
    <3>1. /\ Len(act) <= Len(mid) /\ Len(mid) <= Len(kept)
          /\ \A i \in DOMAIN act : i \in DOMAIN mid /\ mid[i] = act[i]
          /\ \A i \in DOMAIN mid : i \in DOMAIN kept /\ (kept[i] => mid[i])
      BY <2>3, <2>4 DEF Grown, Shrunk
    <3>2. Len(act) \in Nat /\ Len(mid) \in Nat /\ Len(kept) \in Nat
      <4> HIDE DEF act, mid, kept
      <4> QED
        BY <2>5, SMTT(60) DEF mid
    <3> HIDE DEF act, mid, kept
    <3>3. Len(act) <= Len(kept)
      BY <3>1, <3>2, SMTT(60)
    <3>4. ASSUME NEW i \in DOMAIN act PROVE i \in DOMAIN kept /\ (kept[i] => act[i])
      BY <3>1
    <3> QED
      BY <3>3, <3>4 DEF Shrunk
  <2>7. ASSUME kept = act PROVE added.operators = ops
    <3>1. Len(added.operators) = Len(ops)
      BY <2>5, <2>7
    <3>2. IsList(ops) /\ IsList(added.operators)
      BY <2>3 DEF Members
    <3> QED
      BY <2>3, <3>1, <3>2, <1>GrownSame
  <2> QED
    BY <2>2, <2>3, <2>4, <2>6, <2>7
<1> QED
  BY <1>main

\* The key of a configuration does not depend on the operators added after it.
LEMMA KeyKept ==
  ASSUME NEW old, IsList(old), NEW new, Grown(old, new),
         NEW bits \in Seq(BOOLEAN), Len(bits) <= Len(old)
  PROVE  calculate_aggregated_key(new, bits) = calculate_aggregated_key(old, bits)
<1>1. DOMAIN old = 1 .. Len(old) /\ Len(old) \in Nat
  BY ListDomain
<1>2. DOMAIN bits = 1 .. Len(bits) /\ Len(bits) \in Nat
  BY SMTT(60)
<1>3. \A i \in active_indices(bits) : i + 1 \in DOMAIN bits
  BY <1>2, SMTT(60) DEF active_indices
<1>4. \A i \in DOMAIN bits : i \in DOMAIN old
  BY <1>1, <1>2, SMTT(60)
<1>5. \A i \in active_indices(bits) : new[i + 1] = old[i + 1]
  BY <1>3, <1>4 DEF Grown
<1>6. {new[i + 1] : i \in active_indices(bits)} = {old[i + 1] : i \in active_indices(bits)}
  BY <1>5
<1> QED
  BY <1>6 DEF calculate_aggregated_key


-----------------------------------------------------------------------------
(* Merkle trees.                                                           *)

\* f lists the first levels of a tree: the leaves, then each level over the one below.
Levels(leaves, n, f) ==
  f[0] = leaves /\ \A k \in 1 .. n : f[k] = NextLevel(f[k - 1])

\* The leaves are the lowest level; every other one is computed from the one below.
LEMMA LevelsClimb ==
  \A leaves :
         /\ LevelsUp(leaves, 0) = leaves
         /\ \A n \in Nat : LevelsUp(leaves, n + 1) = NextLevel(LevelsUp(leaves, n))
\* The recursion of LevelsUp is well-defined.
<1>LevelRecursion. ASSUME NEW leaves, NEW n \in Nat
                   PROVE  \E f : Levels(leaves, n, f) /\ LevelsUp(leaves, n) = f[n]
  <2> DEFINE Defined(m, f) == f = [k \in 0 .. m |-> IF k = 0 THEN leaves ELSE NextLevel(f[k - 1])]
             P == {m \in 0 .. n : \E f : Defined(m, f)}
  <2>1. 0 \in P
    <3> DEFINE f == [k \in 0 .. 0 |-> leaves]
    <3>1. Defined(0, f)
      BY SMTT(60)
    <3>2. 0 \in 0 .. n
      BY SMTT(60)
    <3> QED
      BY <3>1, <3>2
  <2>2. ASSUME NEW m \in 0 .. (n - 1), m \in P PROVE m + 1 \in P
    <3>1. PICK f : Defined(m, f)
      BY <2>2
    <3> DEFINE g == [k \in 0 .. (m + 1) |-> IF k = 0 THEN leaves ELSE NextLevel(f[k - 1])]
    <3>2. ASSUME NEW k \in 1 .. (m + 1) PROVE g[k - 1] = f[k - 1]
      <4>1. k - 1 \in 0 .. m /\ k - 1 \in 0 .. (m + 1)
        BY SMTT(60)
      <4>2. f[k - 1] = IF k - 1 = 0 THEN leaves ELSE NextLevel(f[(k - 1) - 1])
        BY <3>1, <4>1
      <4> QED
        BY <4>1, <4>2
    <3>3. \A k \in 0 .. (m + 1) : k # 0 => k \in 1 .. (m + 1)
      BY SMTT(60)
    <3>4. Defined(m + 1, g)
      BY <3>2, <3>3
    <3>5. m + 1 \in 0 .. n
      BY SMTT(60)
    <3> QED
      BY <3>4, <3>5
  <2>3. n \in P
    <3> HIDE DEF P
    <3>1. \A i \in 0 .. n : i \in P
      BY <2>1, <2>2, UpTo
    <3> QED
      BY <3>1, SMTT(60)
  <2> DEFINE c == CHOOSE g : Defined(n, g)
  <2>4. Defined(n, c)
    BY <2>3
  <2>5. LevelsUp(leaves, n) = c[n]
    BY DEF LevelsUp
  <2> HIDE DEF c
  <2>6. 0 \in 0 .. n /\ \A i \in 1 .. n : i \in 0 .. n /\ i # 0
    BY SMTT(60)
  <2>7. Levels(leaves, n, c)
    BY <2>4, <2>6 DEF Levels
  <2> QED
    BY <2>5, <2>7
\* Lists of levels of one tree agree as far as both go.
<1>LevelsAgree. ASSUME NEW leaves, NEW n \in Nat, NEW f, Levels(leaves, n, f), NEW g, Levels(leaves, n, g)
                PROVE  \A k \in 0 .. n : f[k] = g[k]
  <2> USE <1>LevelsAgree
  <2> DEFINE P == {k \in 0 .. n : f[k] = g[k]}
  <2>1. 0 \in P
    BY SMTT(60) DEF Levels
  <2>2. ASSUME NEW k \in 0 .. (n - 1), k \in P PROVE k + 1 \in P
    <3>1. k + 1 \in 1 .. n /\ (k + 1) - 1 = k /\ k + 1 \in 0 .. n
      BY SMTT(60)
    <3>2. f[k + 1] = NextLevel(f[(k + 1) - 1]) /\ g[k + 1] = NextLevel(g[(k + 1) - 1])
      BY <3>1 DEF Levels
    <3>3. f[k] = g[k]
      BY <2>2
    <3> QED
      BY <3>1, <3>2, <3>3
  <2> HIDE DEF P
  <2>3. \A k \in 0 .. n : k \in P
    BY <2>1, <2>2, UpTo
  <2> QED
    BY <2>3 DEF P
<1>main. ASSUME NEW leaves
         PROVE  /\ LevelsUp(leaves, 0) = leaves
                /\ \A n \in Nat : LevelsUp(leaves, n + 1) = NextLevel(LevelsUp(leaves, n))
  <2>1. LevelsUp(leaves, 0) = leaves
    <3>1. 0 \in Nat
      OBVIOUS
    <3>2. PICK f : Levels(leaves, 0, f) /\ LevelsUp(leaves, 0) = f[0]
      BY <3>1, <1>LevelRecursion
    <3> QED
      BY <3>2 DEF Levels
  <2>2. ASSUME NEW n \in Nat PROVE LevelsUp(leaves, n + 1) = NextLevel(LevelsUp(leaves, n))
    <3>1. n + 1 \in Nat /\ n + 1 \in 1 .. (n + 1) /\ (n + 1) - 1 = n /\ n \in 0 .. n
          /\ 1 .. n \subseteq 1 .. (n + 1)
      BY SMTT(60)
    <3>2. PICK f : Levels(leaves, n + 1, f) /\ LevelsUp(leaves, n + 1) = f[n + 1]
      BY <3>1, <1>LevelRecursion
    <3>3. PICK g : Levels(leaves, n, g) /\ LevelsUp(leaves, n) = g[n]
      BY <1>LevelRecursion
    <3>4. Levels(leaves, n, f)
      <4>1. f[0] = leaves /\ \A k \in 1 .. (n + 1) : f[k] = NextLevel(f[k - 1])
        BY <3>2 DEF Levels
      <4> QED
        BY <3>1, <4>1 DEF Levels
    <3>5. f[n] = g[n]
      <4>1. \A k \in 0 .. n : f[k] = g[k]
        BY <3>3, <3>4, <1>LevelsAgree, SMTT(60)
      <4> QED
        BY <3>1, <4>1
    <3>6. f[n + 1] = NextLevel(f[(n + 1) - 1])
      BY <3>1, <3>2 DEF Levels
    <3> QED
      BY <3>1, <3>2, <3>3, <3>5, <3>6
  <2> QED
    BY <2>1, <2>2
<1> QED
  BY <1>main

\* A function on 1 .. n is a list of n elements.
LEMMA ListOf ==
  ASSUME NEW n \in Nat, NEW f, f = [i \in 1 .. n |-> f[i]]
  PROVE  IsList(f) /\ Len(f) = n /\ DOMAIN f = 1 .. n
<1>1. DOMAIN f = 1 .. n
  OBVIOUS
<1>2. f \in [1 .. n -> Range(f)]
  BY <1>1 DEF Range
<1>3. f \in Seq(Range(f)) /\ Len(f) = n
  BY <1>1, <1>2, SMTT(60)
<1> QED
  BY <1>1, <1>3 DEF IsList

\* A list is a function on the positions up to its length.
LEMMA ListIs ==
  ASSUME NEW s, IsList(s)
  PROVE  /\ Len(s) \in Nat /\ DOMAIN s = 1 .. Len(s) /\ s = [i \in 1 .. Len(s) |-> s[i]]
         /\ s # <<>> <=> Len(s) >= 1
BY SMTT(60) DEF IsList

\* The right child of a node: the last node of a level of odd length is paired with itself.
RightChild(level, i) == IF 2 * i <= Len(level) THEN 2 * i ELSE Len(level)

\* A level of 2 h - 1 or 2 h nodes, and the h nodes above it.
Paired(level, h) ==
  /\ h \in Nat /\ h >= 1
  /\ Len(level) = 2 * h \/ Len(level) = 2 * h - 1
  /\ NextLevel(level) = [i \in 1 .. h |-> hash_pair(level[2 * i - 1], level[RightChild(level, i)])]

\* Every level that is not empty is paired.
LEMMA Pairs ==
  ASSUME NEW level, IsList(level), level # <<>>
  PROVE  \E h : Paired(level, h)
<1> DEFINE m == Len(level)
<1>1. m \in Nat /\ m >= 1 /\ level \in Seq(Range(level))
  BY ListIs DEF IsList
<1> HIDE DEF m
<1>2. CASE m % 2 = 1
  <2>1. PICK h \in Nat : m = 2 * h - 1 /\ h >= 1
    <3> DEFINE k == (m + 1) \div 2
    <3>1. k \in Nat /\ m = 2 * k - 1 /\ k >= 1
      BY <1>1, <1>2, SMTT(60)
    <3> QED
      BY <3>1
  <2> DEFINE p == Padded(level)
  <2>2. p = Append(level, level[m])
    BY <1>2 DEF Padded, Last, m
  <2>3. /\ Len(p) = 2 * h
        /\ \A i \in 1 .. m : p[i] = level[i]
        /\ p[2 * h] = level[m]
    BY <1>1, <2>1, <2>2, SMTT(60) DEF m
  <2> HIDE DEF p
  <2>4. Len(p) \div 2 = h
    BY <2>1, <2>3, SMTT(60)
  <2>5. ASSUME NEW i \in 1 .. h
        PROVE  p[2 * i - 1] = level[2 * i - 1] /\ p[2 * i] = level[RightChild(level, i)]
    <3>1. 2 * i - 1 \in 1 .. m
      BY <2>1, SMTT(60)
    <3>2. CASE i = h
      <4>1. RightChild(level, i) = m
        BY <1>1, <2>1, <3>2, SMTT(60) DEF RightChild, m
      <4> QED
        BY <2>3, <3>1, <3>2, <4>1
    <3>3. CASE i # h
      <4>1. RightChild(level, i) = 2 * i /\ 2 * i \in 1 .. m
        BY <1>1, <2>1, <3>3, SMTT(60) DEF RightChild, m
      <4> QED
        BY <2>3, <3>1, <4>1
    <3> QED
      BY <3>2, <3>3
  <2>6. NextLevel(level) = [i \in 1 .. h |-> hash_pair(level[2 * i - 1], level[RightChild(level, i)])]
    BY <2>4, <2>5 DEF NextLevel, p
  <2> QED
    BY <2>1, <2>6 DEF Paired, m
<1>3. CASE m % 2 # 1
  <2>1. PICK h \in Nat : m = 2 * h /\ h >= 1
    <3> DEFINE k == m \div 2
    <3>1. k \in Nat /\ m = 2 * k /\ k >= 1
      BY <1>1, <1>3, SMTT(60)
    <3> QED
      BY <3>1
  <2>2. Padded(level) = level
    BY <1>3 DEF Padded, m
  <2>3. Len(level) \div 2 = h
    BY <2>1, SMTT(60) DEF m
  <2>4. ASSUME NEW i \in 1 .. h PROVE RightChild(level, i) = 2 * i
    BY <2>1, SMTT(60) DEF RightChild, m
  <2>5. NextLevel(level) = [i \in 1 .. h |-> hash_pair(level[2 * i - 1], level[RightChild(level, i)])]
    BY <2>2, <2>3, <2>4 DEF NextLevel
  <2> QED
    BY <2>1, <2>5 DEF Paired, m
<1> QED
  BY <1>2, <1>3

\* Two nodes are equal when their children are.
LEMMA NodeBinds ==
  ASSUME NEW a, NEW b, NEW c, NEW d, hash_pair(a, b) = hash_pair(c, d)
  PROVE  a = c /\ b = d
BY DEF hash_pair

\* The level above a list that is not empty: shorter, without repetitions when there are none
\* below, and made of nodes whose children come from below.
NextLevelFacts(x) ==
  /\ IsList(NextLevel(x)) /\ NextLevel(x) # <<>>
  /\ Len(x) # 1 => Len(NextLevel(x)) < Len(x)
  /\ NoDups(x) => NoDups(NextLevel(x))
  /\ \A i \in DOMAIN NextLevel(x) : \E a \in Range(x), b \in Range(x) : NextLevel(x)[i] = hash_pair(a, b)

\* They hold of every list that is not empty.
LEMMA NextLevelIs ==
  ASSUME NEW x, IsList(x), x # <<>>
  PROVE  NextLevelFacts(x)
<1> DEFINE y == NextLevel(x)
           m == Len(x)
<1>1. PICK h : Paired(x, h)
  BY Pairs
<1>2. h \in Nat /\ h >= 1 /\ (m = 2 * h \/ m = 2 * h - 1)
  BY <1>1 DEF Paired
<1>3. y = [i \in 1 .. h |-> hash_pair(x[2 * i - 1], x[RightChild(x, i)])]
  BY <1>1 DEF Paired
<1>4. m \in Nat
  BY ListIs
<1>5. DOMAIN x = 1 .. m
  BY ListIs
<1> HIDE DEF y, m
<1>6. y = [i \in 1 .. h |-> y[i]]
  BY <1>3
<1>7. IsList(y) /\ Len(y) = h /\ DOMAIN y = 1 .. h
  BY <1>2, <1>6, ListOf
<1>8. y # <<>>
  BY <1>2, <1>7, ListIs
<1>9. ASSUME m # 1 PROVE Len(y) < m
  BY <1>2, <1>4, <1>7, <1>9, SMTT(60)
<1>10. ASSUME NEW i \in 1 .. h
      PROVE  /\ y[i] = hash_pair(x[2 * i - 1], x[RightChild(x, i)])
             /\ 2 * i - 1 \in 1 .. m /\ RightChild(x, i) \in 1 .. m
  <2>1. y[i] = hash_pair(x[2 * i - 1], x[RightChild(x, i)])
    BY <1>3
  <2>2. 2 * i - 1 \in 1 .. m
    BY <1>2, <1>4, SMTT(60)
  <2>3. RightChild(x, i) \in 1 .. m
    BY <1>2, <1>4, SMTT(60) DEF RightChild, m
  <2> QED
    BY <2>1, <2>2, <2>3
<1>11. ASSUME NoDups(x) PROVE NoDups(y)
  <2>1. ASSUME NEW i \in 1 .. h, NEW j \in 1 .. h, y[i] = y[j] PROVE i = j
    <3>1. hash_pair(x[2 * i - 1], x[RightChild(x, i)]) = hash_pair(x[2 * j - 1], x[RightChild(x, j)])
      BY <1>10, <2>1
    <3>2. x[2 * i - 1] = x[2 * j - 1]
      BY <3>1, NodeBinds, SMTT(60)
    <3>3. 2 * i - 1 = 2 * j - 1
      BY <1>5, <1>10, <1>11, <3>2 DEF NoDups, IsInjective
    <3> QED
      BY <1>2, <3>3, SMTT(60)
  <2> QED
    BY <1>7, <2>1 DEF NoDups, IsInjective
<1>12. ASSUME NEW i \in DOMAIN y PROVE \E a \in Range(x), b \in Range(x) : y[i] = hash_pair(a, b)
  <2>1. i \in 1 .. h
    BY <1>7
  <2>2. x[2 * i - 1] \in Range(x) /\ x[RightChild(x, i)] \in Range(x)
    BY <1>5, <1>10, <2>1 DEF Range
  <2> QED
    BY <1>10, <2>1, <2>2
<1> QED
  BY <1>7, <1>8, <1>9, <1>11, <1>12 DEF NextLevelFacts, y, m

\* A level of the tree over leaves.
LevelFacts(leaves, n) ==
  /\ IsList(LevelsUp(leaves, n)) /\ LevelsUp(leaves, n) # <<>>
  /\ NoDups(leaves) => NoDups(LevelsUp(leaves, n))

\* No level is empty, and no level has repetitions when there are none among the leaves.
LEMMA TreeLevels ==
  ASSUME NEW leaves, IsList(leaves), leaves # <<>>, NEW n \in Nat
  PROVE  LevelFacts(leaves, n)
<1> DEFINE P == {k \in 0 .. n : LevelFacts(leaves, k)}
<1>1. 0 \in P
  <2>1. LevelsUp(leaves, 0) = leaves /\ 0 \in 0 .. n
    BY LevelsClimb, SMTT(60)
  <2> QED
    BY <2>1 DEF LevelFacts
<1>2. ASSUME NEW k \in 0 .. (n - 1), k \in P PROVE k + 1 \in P
  <2>1. k \in Nat /\ k + 1 \in 0 .. n
    BY SMTT(60)
  <2>2. LevelsUp(leaves, k + 1) = NextLevel(LevelsUp(leaves, k))
    BY <2>1, LevelsClimb
  <2>3. LevelFacts(leaves, k)
    BY <1>2
  <2>4. NextLevelFacts(LevelsUp(leaves, k))
    BY <2>3, NextLevelIs DEF LevelFacts
  <2>5. LevelFacts(leaves, k + 1)
    BY <2>2, <2>3, <2>4 DEF LevelFacts, NextLevelFacts
  <2> QED
    BY <2>1, <2>5
<1> HIDE DEF P
<1>3. \A k \in 0 .. n : k \in P
  BY <1>1, <1>2, UpTo
<1>4. n \in 0 .. n
  BY SMTT(60)
<1> QED
  BY <1>3, <1>4 DEF P

\* The tree has a root: a level with one node.
LEMMA RootExists ==
  ASSUME NEW leaves, IsList(leaves), leaves # <<>>
  PROVE  RootLevel(leaves) \in Nat /\ Len(LevelsUp(leaves, RootLevel(leaves))) = 1
<1> DEFINE m == Len(leaves)
           Root(n) == Len(LevelsUp(leaves, n)) = 1
           P == {n \in 0 .. m : Len(LevelsUp(leaves, n)) + n <= m \/ \E k \in 0 .. n : Root(k)}
<1>1. m \in Nat
  BY ListIs
<1>2. ASSUME NEW n \in Nat
      PROVE  Len(LevelsUp(leaves, n)) \in Nat /\ Len(LevelsUp(leaves, n)) >= 1
  <2>1. LevelFacts(leaves, n)
    BY TreeLevels
  <2> QED
    BY <2>1, ListIs  DEF LevelFacts
<1>3. 0 \in P
  <2>1. LevelsUp(leaves, 0) = leaves
    BY LevelsClimb
  <2> QED
    BY <1>1, <2>1, SMTT(60)
<1>4. ASSUME NEW n \in 0 .. (m - 1), n \in P PROVE n + 1 \in P
  <2>1. n \in Nat /\ n + 1 \in 0 .. m /\ n + 1 \in Nat /\ n \in 0 .. n /\ 0 .. n \subseteq 0 .. (n + 1)
        /\ n \in 0 .. (n + 1)
    BY <1>1, SMTT(60)
  <2>2. CASE \E k \in 0 .. n : Root(k)
    BY <2>1, <2>2
  <2>3. CASE Root(n)
    BY <2>1, <2>3
  <2>4. CASE ~Root(n) /\ ~\E k \in 0 .. n : Root(k)
    <3> DEFINE here == Len(LevelsUp(leaves, n))
               above == Len(LevelsUp(leaves, n + 1))
    <3>1. here + n <= m
      BY <1>4, <2>4
    <3>2. LevelsUp(leaves, n + 1) = NextLevel(LevelsUp(leaves, n))
      BY <2>1, LevelsClimb
    <3>3. LevelFacts(leaves, n)
      BY <2>1, TreeLevels
    <3>4. NextLevelFacts(LevelsUp(leaves, n))
      BY <3>3, NextLevelIs DEF LevelFacts
    <3>5. above < here
      BY <2>4, <3>2, <3>4 DEF NextLevelFacts
    <3>6. here \in Nat /\ above \in Nat
      BY <1>2, <2>1
    <3> HIDE DEF here, above
    <3>7. above + (n + 1) <= m
      BY <1>1, <2>1, <3>1, <3>5, <3>6, SMTT(60)
    <3> QED
      BY <2>1, <3>7 DEF above
  <2> QED
    BY <2>2, <2>3, <2>4
<1>5. \A n \in 0 .. m : n \in P
  <2> HIDE DEF P
  <2> QED
    BY <1>1, <1>3, <1>4, UpTo
<1>6. PICK n \in 0 .. m : Root(n)
  <2>1. m \in 0 .. m /\ m \in Nat
    BY <1>1, SMTT(60)
  <2>2. m \in P
    BY <1>5, <2>1
  <2>3. ~(Len(LevelsUp(leaves, m)) + m <= m)
    BY <1>2, <2>1, SMTT(60)
  <2> QED
    BY <2>2, <2>3
<1> DEFINE T == {k \in 0 .. m : Root(k)}
<1>7. PICK x \in T : \A y \in T : x <= y
  <2>1. T \in SUBSET Nat /\ T # {}
    BY <1>1, <1>6, SMTT(60)
  <2> HIDE DEF T
  <2> QED
    BY <2>1, LeastElement
<1>8. ASSUME NEW k \in 0 .. x - 1 PROVE ~Root(k)
  <2>1. k \in 0 .. m /\ ~(x <= k)
    BY <1>1, SMTT(60)
  <2> QED
    BY <1>7, <2>1
<1>9. \E k \in 0 .. m : Root(k) /\ \A j \in 0 .. k - 1 : ~Root(j)
  BY <1>7, <1>8
<1>10. RootLevel(leaves) \in 0 .. m /\ Root(RootLevel(leaves))
  BY <1>9 DEF RootLevel
<1> QED
  BY <1>1, <1>10, SMTT(60)

\* The nodes of a tree.
IsNode(h) == \E a, b : h = hash_pair(a, b)

\* Every level above the leaves is made of nodes.
LEMMA UpperLevels ==
  ASSUME NEW leaves, IsList(leaves), leaves # <<>>, NEW n \in Nat, n # 0,
         NEW i \in DOMAIN LevelsUp(leaves, n)
  PROVE  IsNode(LevelsUp(leaves, n)[i])
<1>1. n - 1 \in Nat /\ (n - 1) + 1 = n
  BY SMTT(60)
<1>2. LevelsUp(leaves, (n - 1) + 1) = NextLevel(LevelsUp(leaves, n - 1))
  BY <1>1, LevelsClimb
<1>3. LevelFacts(leaves, n - 1)
  BY <1>1, TreeLevels
<1>4. NextLevelFacts(LevelsUp(leaves, n - 1))
  BY <1>3, NextLevelIs DEF LevelFacts
<1> QED
  BY <1>1, <1>2, <1>4 DEF NextLevelFacts, IsNode

\* Leaves that can be told from nodes.
AreLeaves(s) == IsList(s) /\ s # <<>> /\ \A i \in DOMAIN s : ~IsNode(s[i])

\* The root binds the leaves (calculate_root_no_dups): two lists of leaves without repetitions
\* that have the same root are the same list, although a tree repeats the last node of every
\* level of odd length.  A scan of the leaves is enough for it; no inner level needs one.
THEOREM RootBinds ==
  \A x, y :
     AreLeaves(x) /\ NoDups(x) /\ AreLeaves(y) /\ NoDups(y) /\ calculate_root(x) = calculate_root(y)
      => x = y
\* A level determines the one below it, when neither that one nor the other one has repetitions.
<1>NextLevelBinds. ASSUME NEW x, IsList(x), x # <<>>, NoDups(x),
                          NEW y, IsList(y), y # <<>>, NoDups(y),
                          NextLevel(x) = NextLevel(y)
                   PROVE  x = y
  <2> USE <1>NextLevelBinds
  <2>1. PICK h : Paired(x, h)
    BY Pairs
  <2>2. PICK k : Paired(y, k)
    BY Pairs
  <2>3. h \in Nat /\ k \in Nat /\ h >= 1 /\ k >= 1
        /\ (Len(x) = 2 * h \/ Len(x) = 2 * h - 1) /\ (Len(y) = 2 * k \/ Len(y) = 2 * k - 1)
    BY <2>1, <2>2 DEF Paired
  <2>4. h = k
    <3>1. DOMAIN NextLevel(x) = 1 .. h /\ DOMAIN NextLevel(y) = 1 .. k
      BY <2>1, <2>2 DEF Paired
    <3>2. 1 .. h = 1 .. k
      BY <3>1
    <3> QED
      BY <2>3, <3>2, SMTT(60)
  <2>5. ASSUME NEW i \in 1 .. h
        PROVE  x[2 * i - 1] = y[2 * i - 1] /\ x[RightChild(x, i)] = y[RightChild(y, i)]
    <3>1. NextLevel(x)[i] = hash_pair(x[2 * i - 1], x[RightChild(x, i)])
      BY <2>1 DEF Paired
    <3>2. NextLevel(y)[i] = hash_pair(y[2 * i - 1], y[RightChild(y, i)])
      BY <2>2, <2>4 DEF Paired
    <3>3. hash_pair(x[2 * i - 1], x[RightChild(x, i)]) = hash_pair(y[2 * i - 1], y[RightChild(y, i)])
      BY <3>1, <3>2
    <3> QED
      BY <3>3, NodeBinds, SMTT(60)
  <2>6. DOMAIN x = 1 .. Len(x) /\ DOMAIN y = 1 .. Len(y)
        /\ x = [i \in 1 .. Len(x) |-> x[i]] /\ y = [i \in 1 .. Len(y) |-> y[i]]
    BY ListIs
  <2>7. h \in 1 .. h
    BY <2>3, SMTT(60)
  <2>8. Len(x) = Len(y)
    <3>1. ASSUME Len(x) = 2 * h, Len(y) = 2 * h - 1 PROVE FALSE
      <4>1. RightChild(x, h) = 2 * h /\ RightChild(y, h) = 2 * h - 1
        BY <2>3, <3>1, SMTT(60) DEF RightChild
      <4>2. x[2 * h] = x[2 * h - 1]
        BY <2>5, <2>7, <4>1
      <4>3. 2 * h \in 1 .. Len(x) /\ 2 * h - 1 \in 1 .. Len(x) /\ 2 * h # 2 * h - 1
        BY <2>3, <3>1, SMTT(60)
      <4> QED
        BY <2>6, <4>2, <4>3 DEF NoDups, IsInjective
    <3>2. ASSUME Len(x) = 2 * h - 1, Len(y) = 2 * h PROVE FALSE
      <4>1. RightChild(y, h) = 2 * h /\ RightChild(x, h) = 2 * h - 1
        BY <2>3, <3>2, SMTT(60) DEF RightChild
      <4>2. y[2 * h] = y[2 * h - 1]
        BY <2>5, <2>7, <4>1
      <4>3. 2 * h \in 1 .. Len(y) /\ 2 * h - 1 \in 1 .. Len(y) /\ 2 * h # 2 * h - 1
        BY <2>3, <3>2, SMTT(60)
      <4> QED
        BY <2>6, <4>2, <4>3 DEF NoDups, IsInjective
    <3> QED
      BY <2>3, <2>4, <3>1, <3>2
  <2>9. ASSUME NEW j \in 1 .. Len(x) PROVE x[j] = y[j]
    <3>1. PICK i \in 1 .. h : j = 2 * i - 1 \/ j = 2 * i
      <4> DEFINE i == (j + 1) \div 2
      <4>1. i \in 1 .. h /\ (j = 2 * i - 1 \/ j = 2 * i)
        BY <2>3, SMTT(60)
      <4> QED
        BY <4>1
    <3>2. CASE j = 2 * i - 1
      BY <2>5, <3>2
    <3>3. CASE j = 2 * i
      <4>1. RightChild(x, i) = 2 * i /\ RightChild(y, i) = 2 * i
        BY <2>8, <3>3, SMTT(60) DEF RightChild
      <4> QED
        BY <2>5, <3>3, <4>1
    <3> QED
      BY <3>1, <3>2, <3>3
  <2> QED
    BY <2>6, <2>8, <2>9
\* Two trees with one root agree level by level, counted from the root, as far down as both go.
<1>LevelsBind. ASSUME NEW x, AreLeaves(x), NoDups(x), NEW y, AreLeaves(y), NoDups(y),
                      NEW m \in Nat, NEW n \in Nat, m <= n,
                      LevelsUp(x, m) = LevelsUp(y, n)
               PROVE  x = y
  <2> USE <1>LevelsBind
  <2> DEFINE P == {k \in 0 .. m : LevelsUp(x, m - k) = LevelsUp(y, n - k)}
  <2>1. 0 \in P
    <3>1. m - 0 = m /\ n - 0 = n /\ 0 \in 0 .. m
      BY SMTT(60)
    <3> QED
      BY <3>1
  <2>2. ASSUME NEW k \in 0 .. (m - 1), k \in P PROVE k + 1 \in P
    <3> DEFINE i == m - (k + 1)
               j == n - (k + 1)
    <3>1. i \in Nat /\ j \in Nat /\ i + 1 = m - k /\ j + 1 = n - k /\ k + 1 \in 0 .. m
      BY SMTT(60)
    <3> HIDE DEF i, j
    <3>2. LevelsUp(x, i + 1) = LevelsUp(y, j + 1)
      BY <2>2, <3>1
    <3>3. NextLevel(LevelsUp(x, i)) = NextLevel(LevelsUp(y, j))
      BY <3>1, <3>2, LevelsClimb
    <3>4. LevelFacts(x, i) /\ LevelFacts(y, j)
      BY <3>1, TreeLevels DEF AreLeaves
    <3>5. LevelsUp(x, i) = LevelsUp(y, j)
      BY <3>3, <3>4, <1>NextLevelBinds DEF LevelFacts
    <3> QED
      BY <3>1, <3>5 DEF i, j
  <2>3. \A k \in 0 .. m : k \in P
    <3> HIDE DEF P
    <3> QED
      BY <2>1, <2>2, UpTo
  <2>4. LevelsUp(x, 0) = LevelsUp(y, n - m)
    <3>1. m \in 0 .. m /\ m - m = 0
      BY SMTT(60)
    <3> QED
      BY <2>3, <3>1
  <2>5. LevelsUp(x, 0) = x /\ LevelsUp(y, 0) = y
    BY LevelsClimb
  <2>6. CASE n = m
    <3>1. n - m = 0
      BY <2>6, SMTT(60)
    <3> QED
      BY <2>4, <2>5, <3>1
  <2>7. CASE n # m
    <3>1. n - m \in Nat /\ n - m # 0
      BY <2>7, SMTT(60)
    <3>2. Len(x) >= 1 /\ DOMAIN x = 1 .. Len(x) /\ Len(x) \in Nat
      BY ListIs  DEF AreLeaves
    <3>3. 1 \in DOMAIN x
      BY <3>2, SMTT(60)
    <3>4. IsNode(x[1])
      BY <2>4, <2>5, <3>1, <3>3, UpperLevels DEF AreLeaves
    <3> QED
      BY <3>3, <3>4 DEF AreLeaves
  <2> QED
    BY <2>6, <2>7
<1>main. ASSUME NEW x, AreLeaves(x), NoDups(x), NEW y, AreLeaves(y), NoDups(y),
                calculate_root(x) = calculate_root(y)
         PROVE  x = y
  <2> USE <1>main
  <2> DEFINE m == RootLevel(x)
             n == RootLevel(y)
  <2>1. m \in Nat /\ n \in Nat /\ Len(LevelsUp(x, m)) = 1 /\ Len(LevelsUp(y, n)) = 1
    BY RootExists  DEF AreLeaves
  <2>2. LevelsUp(x, m)[1] = LevelsUp(y, n)[1]
    BY DEF calculate_root
  <2> HIDE DEF m, n
  <2>3. LevelFacts(x, m) /\ LevelFacts(y, n)
    BY <2>1, TreeLevels DEF AreLeaves
  <2>4. LevelsUp(x, m) = LevelsUp(y, n)
    <3> DEFINE u == LevelsUp(x, m)
               v == LevelsUp(y, n)
    <3>1. IsList(u) /\ IsList(v) /\ Len(u) = 1 /\ Len(v) = 1 /\ u[1] = v[1]
      BY <2>1, <2>2, <2>3 DEF LevelFacts
    <3> HIDE DEF u, v
    <3>2. u = [i \in 1 .. 1 |-> u[i]] /\ v = [i \in 1 .. 1 |-> v[i]]
      BY <3>1, ListIs
    <3>3. \A i \in 1 .. 1 : u[i] = v[i]
      BY <3>1, SMTT(60)
    <3>4. u = v
      BY <3>2, <3>3
    <3> QED
      BY <3>4 DEF u, v
  <2>5. m <= n \/ n <= m
    BY <2>1, SMTT(60)
  <2> QED
    BY <2>1, <2>4, <2>5, <1>LevelsBind
<1> QED
  BY <1>main

\* f lists the hashes on a path: the leaf, then each hash over the one below and a sibling.
PathHashes(n, leaf, f) ==
  f[0] = leaf /\ \A k \in 1 .. n : \E s : f[k] = hash_pair(f[k - 1], s) \/ f[k] = hash_pair(s, f[k - 1])

-----------------------------------------------------------------------------
(* Bodies.                                                                 *)

\* What an id covers: everything but the witnesses.
SameButWitness(t, u) ==
  /\ t.txid = u.txid /\ t.sub = u.sub /\ t.type = u.type /\ t.aux = u.aux /\ t.outs = u.outs
  /\ DOMAIN t.ins = DOMAIN u.ins
  /\ \A i \in DOMAIN t.ins : t.ins[i].txid = u.ins[i].txid /\ t.ins[i].vout = u.ins[i].vout

\* A sequence is a function on the positions up to its length.
LEMMA SeqIs ==
  ASSUME NEW S, NEW s \in Seq(S)
  PROVE  s = [i \in 1 .. Len(s) |-> s[i]]
BY SMTT(60)

\* The body a verified block hands to the subprotocols is the one its header was mined for
\* (check_block_integrity), whatever body and whatever proof came with the header.
THEOREM BodyBinds ==
  \A block :
     IsOffered(block) /\ check_block_integrity(block)
      => Tail(block.txs) = Tail(block.mined)
\* The recursion of compute_root is well-defined, and climbs a path.
<1>PathRecursion. ASSUME NEW proof, NEW tx, Len(proof.siblings) \in Nat
                  PROVE  \E f : /\ PathHashes(Len(proof.siblings), compute_txid(tx), f)
                                /\ compute_root(proof, tx) = f[Len(proof.siblings)]
  <2> USE <1>PathRecursion
  <2> DEFINE n == Len(proof.siblings)
             Above(k, h) == IF IsLeft(Ancestor(proof.position, k - 1))
                            THEN hash_pair(h, proof.siblings[k]) ELSE hash_pair(proof.siblings[k], h)
             Defined(m, f) == f = [k \in 0 .. m |-> IF k = 0 THEN compute_txid(tx) ELSE Above(k, f[k - 1])]
             P == {m \in 0 .. n : \E f : Defined(m, f)}
  <2>1. 0 \in P
    <3> DEFINE f == [k \in 0 .. 0 |-> compute_txid(tx)]
    <3> HIDE DEF Above
    <3>1. Defined(0, f)
      BY SMTT(60)
    <3>2. 0 \in 0 .. n
      BY SMTT(60)
    <3> QED
      BY <3>1, <3>2
  <2>2. ASSUME NEW m \in 0 .. (n - 1), m \in P PROVE m + 1 \in P
    <3> HIDE DEF Above, n
    <3>1. PICK f : Defined(m, f)
      BY <2>2
    <3> DEFINE g == [k \in 0 .. (m + 1) |-> IF k = 0 THEN compute_txid(tx) ELSE Above(k, f[k - 1])]
    <3>2. ASSUME NEW k \in 1 .. (m + 1) PROVE g[k - 1] = f[k - 1]
      <4>1. k - 1 \in 0 .. m /\ k - 1 \in 0 .. (m + 1)
        BY SMTT(60) DEF n
      <4>2. f[k - 1] = IF k - 1 = 0 THEN compute_txid(tx) ELSE Above(k - 1, f[(k - 1) - 1])
        BY <3>1, <4>1
      <4> QED
        BY <4>1, <4>2
    <3>3. \A k \in 0 .. (m + 1) : k # 0 => k \in 1 .. (m + 1)
      BY SMTT(60) DEF n
    <3>4. Defined(m + 1, g)
      BY <3>2, <3>3
    <3>5. m + 1 \in 0 .. n
      BY SMTT(60) DEF n
    <3> QED
      BY <3>4, <3>5
  <2>3. n \in P
    <3> HIDE DEF P
    <3>1. \A i \in 0 .. n : i \in P
      BY <2>1, <2>2, UpTo
    <3> QED
      BY <3>1, SMTT(60)
  <2> DEFINE c == CHOOSE g : Defined(n, g)
  <2>4. Defined(n, c)
    BY <2>3
  <2>5. compute_root(proof, tx) = c[n]
    BY DEF compute_root
  <2> HIDE DEF c
  <2>6. 0 \in 0 .. n /\ \A i \in 1 .. n : i \in 0 .. n /\ i # 0
    BY SMTT(60)
  <2>7. c[0] = compute_txid(tx) /\ \A k \in 1 .. n : c[k] = Above(k, c[k - 1])
    <3> HIDE DEF Above
    <3> QED
      BY <2>4, <2>6
  <2>8. ASSUME NEW k \in 1 .. n
        PROVE  \E s : c[k] = hash_pair(c[k - 1], s) \/ c[k] = hash_pair(s, c[k - 1])
    BY <2>7
  <2> QED
    BY <2>5, <2>7, <2>8 DEF PathHashes
\* A path that ends in the root of a tree starts in one of its leaves, or in a node.
<1>PathStarts. ASSUME NEW leaves, AreLeaves(leaves), NEW n \in Nat, NEW leaf, ~IsNode(leaf), NEW f,
                      PathHashes(n, leaf, f), f[n] = calculate_root(leaves)
               PROVE  leaf \in Range(leaves)
  <2> USE <1>PathStarts
  <2> DEFINE m == RootLevel(leaves)
             P == {k \in 0 .. m : k <= n => f[n - k] \in Range(LevelsUp(leaves, m - k))}
  <2>1. m \in Nat /\ Len(LevelsUp(leaves, m)) = 1
    BY RootExists  DEF AreLeaves
  <2>2. ASSUME NEW k \in Nat PROVE LevelFacts(leaves, k)
    BY TreeLevels DEF AreLeaves
  <2>3. 0 \in P
    <3>1. m - 0 = m /\ n - 0 = n /\ 0 \in 0 .. m
      BY <2>1, SMTT(60)
    <3>2. 1 \in DOMAIN LevelsUp(leaves, m)
      <4>1. IsList(LevelsUp(leaves, m))
        BY <2>1, <2>2 DEF LevelFacts
      <4>2. DOMAIN LevelsUp(leaves, m) = 1 .. 1
        BY <2>1, <4>1, ListIs
      <4> QED
        BY <4>2, SMTT(60)
    <3>3. f[n] \in Range(LevelsUp(leaves, m))
      BY <3>2 DEF calculate_root, Range
    <3> QED
      BY <3>1, <3>3
  <2> HIDE DEF m
  <2>4. ASSUME NEW k \in 0 .. (m - 1), k \in P PROVE k + 1 \in P
    <3> DEFINE j == m - (k + 1)
    <3>1. j \in Nat /\ j + 1 = m - k /\ k + 1 \in 0 .. m
      BY <2>1, SMTT(60)
    <3> HIDE DEF j
    <3>2. ASSUME k + 1 <= n PROVE f[n - (k + 1)] \in Range(LevelsUp(leaves, j))
      <4> DEFINE i == n - k
      <4>1. i \in 1 .. n /\ i - 1 = n - (k + 1) /\ k <= n
        BY <2>1, <3>2, SMTT(60)
      <4>2. f[i] \in Range(LevelsUp(leaves, j + 1))
        BY <2>4, <3>1, <4>1
      <4> HIDE DEF i
      <4>3. PICK s : f[i] = hash_pair(f[i - 1], s) \/ f[i] = hash_pair(s, f[i - 1])
        BY <4>1 DEF PathHashes
      <4>4. LevelsUp(leaves, j + 1) = NextLevel(LevelsUp(leaves, j))
        BY <3>1, LevelsClimb
      <4>5. NextLevelFacts(LevelsUp(leaves, j))
        BY <2>2, <3>1, NextLevelIs DEF LevelFacts
      <4>6. PICK a \in Range(LevelsUp(leaves, j)), b \in Range(LevelsUp(leaves, j)) : f[i] = hash_pair(a, b)
        BY <4>2, <4>4, <4>5 DEF NextLevelFacts, Range
      <4>7. f[i - 1] = a \/ f[i - 1] = b
        <5>1. CASE f[i] = hash_pair(f[i - 1], s)
          <6>1. hash_pair(f[i - 1], s) = hash_pair(a, b)
            BY <4>6, <5>1
          <6> QED
            BY <6>1, NodeBinds, SMTT(60)
        <5>2. CASE f[i] = hash_pair(s, f[i - 1])
          <6>1. hash_pair(s, f[i - 1]) = hash_pair(a, b)
            BY <4>6, <5>2
          <6> QED
            BY <6>1, NodeBinds, SMTT(60)
        <5> QED
          BY <4>3, <5>1, <5>2
      <4> QED
        BY <4>1, <4>6, <4>7
    <3> QED
      BY <3>1, <3>2 DEF j
  <2>5. \A k \in 0 .. m : k \in P
    <3> HIDE DEF P
    <3> QED
      BY <2>1, <2>3, <2>4, UpTo
  <2>6. f[0] = leaf /\ LevelsUp(leaves, 0) = leaves
    BY LevelsClimb  DEF PathHashes
  <2>7. CASE n <= m
    <3>1. n \in 0 .. m /\ n <= n /\ n - n = 0 /\ m - n \in Nat
      BY <2>1, <2>7, SMTT(60)
    <3>2. leaf \in Range(LevelsUp(leaves, m - n))
      BY <2>5, <2>6, <3>1
    <3>3. CASE m - n = 0
      BY <2>6, <3>2, <3>3
    <3>4. CASE m - n # 0
      <4>1. PICK i \in DOMAIN LevelsUp(leaves, m - n) : leaf = LevelsUp(leaves, m - n)[i]
        BY <3>2 DEF Range
      <4>2. IsNode(LevelsUp(leaves, m - n)[i])
        BY <3>1, <3>4, UpperLevels DEF AreLeaves
      <4> QED
        BY <4>1, <4>2
    <3> QED
      BY <3>3, <3>4
  <2>8. CASE ~(n <= m)
    <3>1. m \in 0 .. m /\ m <= n /\ m - m = 0 /\ n - m \in 1 .. n
      BY <2>1, <2>8, SMTT(60)
    <3>2. f[n - m] \in Range(leaves)
      BY <2>5, <2>6, <3>1
    <3>3. IsNode(f[n - m])
      BY <3>1 DEF PathHashes, IsNode
    <3> QED
      BY <3>2, <3>3 DEF AreLeaves, Range
  <2> QED
    BY <2>7, <2>8
\* Ids of transactions are leaves: none of them is a node.
<1>IdsAreLeaves. ASSUME NEW txs, IsBody(txs), txs # <<>>
                 PROVE  /\ AreLeaves(txids(txs)) /\ Len(txids(txs)) = Len(txs)
                        /\ AreLeaves(wtxids(txs)) /\ Len(wtxids(txs)) = Len(txs)
  <2> USE <1>IdsAreLeaves
  <2> DEFINE n == Len(txs)
             t == txids(txs)
             w == wtxids(txs)
  <2>1. IsList(txs)
    BY DEF IsBody
  <2>2. n \in Nat /\ n >= 1 /\ DOMAIN txs = 1 .. n
    BY <2>1, ListIs
  <2>3. t = [i \in 1 .. n |-> compute_txid(txs[i])]
    BY <2>2 DEF txids
  <2>4. w = [i \in 1 .. n |-> IF i = 1 THEN zero_hash ELSE compute_wtxid(txs[i])]
    BY <2>2 DEF wtxids
  <2> HIDE DEF n, t, w
  <2>5. IsList(t) /\ Len(t) = n /\ DOMAIN t = 1 .. n
    <3>1. t = [i \in 1 .. n |-> t[i]]
      BY <2>3
    <3> QED
      BY <2>2, <3>1, ListOf
  <2>6. IsList(w) /\ Len(w) = n /\ DOMAIN w = 1 .. n
    <3>1. w = [i \in 1 .. n |-> w[i]]
      BY <2>4
    <3> QED
      BY <2>2, <3>1, ListOf
  <2>7. t # <<>> /\ w # <<>>
    BY <2>2, <2>5, <2>6, ListIs
  <2>8. ASSUME NEW i \in 1 .. n PROVE ~IsNode(t[i])
    <3>1. t[i] = compute_txid(txs[i])
      BY <2>3
    <3> QED
      BY <3>1, SMTT(60) DEF compute_txid, IsNode, hash_pair
  <2>9. ASSUME NEW i \in 1 .. n PROVE ~IsNode(w[i])
    <3>1. w[i] = zero_hash \/ w[i] = compute_wtxid(txs[i])
      BY <2>4
    <3>2. ~IsNode(zero_hash)
      BY DEF zero_hash, IsNode, hash_pair
    <3>3. ~IsNode(compute_wtxid(txs[i]))
      BY DEF compute_wtxid, IsNode, hash_pair
    <3> QED
      BY <3>1, <3>2, <3>3
  <2> QED
    BY <2>5, <2>6, <2>7, <2>8, <2>9 DEF AreLeaves, n, t, w
\* Transactions with one id differ in their witnesses only.
<1>TxidBinds. ASSUME NEW t, IsTx(t), NEW u, IsTx(u), compute_txid(t) = compute_txid(u)
              PROVE  SameButWitness(t, u)
  <2> USE <1>TxidBinds
  <2> DEFINE Stripped(v) == [i \in DOMAIN v.ins |-> [txid |-> v.ins[i].txid, vout |-> v.ins[i].vout]]
             Id(v) == [txid |-> v.txid, sub |-> v.sub, type |-> v.type, aux |-> v.aux,
                       ins |-> Stripped(v), outs |-> v.outs]
  <2>1. ASSUME NEW v, IsTx(v) PROVE compute_txid(v) = <<"txid", Id(v)>>
    <3> DEFINE s == Stripped(v)
    <3>1. v = [txid |-> v.txid, sub |-> v.sub, type |-> v.type, aux |-> v.aux,
               ins |-> v.ins, outs |-> v.outs]
      BY <2>1 DEF IsTx
    <3> HIDE DEF s
    <3>2. [v EXCEPT !.ins = s] = [txid |-> v.txid, sub |-> v.sub, type |-> v.type, aux |-> v.aux,
                                  ins |-> s, outs |-> v.outs]
      BY <3>1, SMTT(60)
    <3> QED
      BY <3>2 DEF compute_txid, s
  <2>2. Id(t) = Id(u)
    <3>1. <<"txid", Id(t)>> = <<"txid", Id(u)>>
      BY <2>1
    <3> HIDE DEF Id
    <3> QED
      BY <3>1
  <2>3. t.txid = u.txid /\ t.sub = u.sub /\ t.type = u.type /\ t.aux = u.aux /\ t.outs = u.outs
        /\ Stripped(t) = Stripped(u)
    <3> HIDE DEF Stripped
    <3> QED
      BY <2>2
  <2>4. DOMAIN t.ins = DOMAIN u.ins
    BY <2>3
  <2>5. ASSUME NEW i \in DOMAIN t.ins
        PROVE  t.ins[i].txid = u.ins[i].txid /\ t.ins[i].vout = u.ins[i].vout
    <3>1. [txid |-> t.ins[i].txid, vout |-> t.ins[i].vout] = [txid |-> u.ins[i].txid, vout |-> u.ins[i].vout]
      BY <2>3, <2>4
    <3> QED
      BY <3>1
  <2> QED
    BY <2>3, <2>4, <2>5 DEF SameButWitness
\* Transactions without witnesses that have one id are the same.
<1>TxidBindsBare. ASSUME NEW t, IsTx(t), NEW u, IsTx(u), SameButWitness(t, u),
                         \A i \in DOMAIN t.ins : t.ins[i].witness = u.ins[i].witness
                  PROVE  t = u
  <2> USE <1>TxidBindsBare
  <2>1. ASSUME NEW i \in DOMAIN t.ins PROVE t.ins[i] = u.ins[i]
    <3>1. i \in DOMAIN u.ins /\ t.ins[i].txid = u.ins[i].txid /\ t.ins[i].vout = u.ins[i].vout
          /\ t.ins[i].witness = u.ins[i].witness
      BY DEF SameButWitness
    <3>2. t.ins[i] = [txid |-> t.ins[i].txid, vout |-> t.ins[i].vout, witness |-> t.ins[i].witness]
      BY DEF IsTx
    <3>3. u.ins[i] = [txid |-> u.ins[i].txid, vout |-> u.ins[i].vout, witness |-> u.ins[i].witness]
      BY <3>1 DEF IsTx
    <3> QED
      BY <3>1, <3>2, <3>3
  <2>2. t.ins = u.ins
    <3>1. IsList(t.ins) /\ IsList(u.ins)
      BY DEF IsTx
    <3>2. t.ins = [i \in 1 .. Len(t.ins) |-> t.ins[i]] /\ DOMAIN t.ins = 1 .. Len(t.ins)
      BY <3>1, ListIs
    <3>3. u.ins = [i \in 1 .. Len(u.ins) |-> u.ins[i]] /\ DOMAIN u.ins = 1 .. Len(u.ins)
      BY <3>1, ListIs
    <3>4. DOMAIN t.ins = DOMAIN u.ins
      BY DEF SameButWitness
    <3>5. t.ins = [i \in DOMAIN t.ins |-> t.ins[i]] /\ u.ins = [i \in DOMAIN t.ins |-> u.ins[i]]
      BY <3>2, <3>3, <3>4
    <3> QED
      BY <2>1, <3>5
  <2>3. t = [txid |-> t.txid, sub |-> t.sub, type |-> t.type, aux |-> t.aux, ins |-> t.ins, outs |-> t.outs]
    BY DEF IsTx
  <2>4. u = [txid |-> u.txid, sub |-> u.sub, type |-> u.type, aux |-> u.aux, ins |-> u.ins, outs |-> u.outs]
    BY DEF IsTx
  <2> QED
    BY <2>2, <2>3, <2>4 DEF SameButWitness
\* A body Bitcoin accepts repeats no witness id.
<1>MinedWtxids. ASSUME NEW txs, IsMinedBody(txs)
                PROVE  NoDups(wtxids(txs))
  <2> USE <1>MinedWtxids
  <2>1. IsList(txs) /\ NoDups(txids(txs))
    BY DEF IsMinedBody, IsBody
  <2>2. DOMAIN txids(txs) = DOMAIN txs /\ DOMAIN wtxids(txs) = DOMAIN txs
    BY DEF txids, wtxids
  <2>3. ASSUME NEW i \in DOMAIN txs, NEW j \in DOMAIN txs, wtxids(txs)[i] = wtxids(txs)[j] PROVE i = j
    <3>1. wtxids(txs)[i] = (IF i = 1 THEN zero_hash ELSE compute_wtxid(txs[i]))
          /\ wtxids(txs)[j] = (IF j = 1 THEN zero_hash ELSE compute_wtxid(txs[j]))
      BY DEF wtxids
    <3>2. zero_hash # compute_wtxid(txs[i]) /\ zero_hash # compute_wtxid(txs[j])
      BY DEF zero_hash, compute_wtxid
    <3>3. i = 1 <=> j = 1
      BY <2>3, <3>1, <3>2
    <3>4. CASE i = 1
      BY <3>3, <3>4
    <3>5. CASE i # 1
      <4>1. compute_wtxid(txs[i]) = compute_wtxid(txs[j])
        BY <2>3, <3>1, <3>3, <3>5
      <4>2. txs[i] = txs[j]
        BY <4>1  DEF compute_wtxid
      <4>3. txids(txs)[i] = txids(txs)[j]
        BY <4>2 DEF txids
      <4> QED
        BY <2>1, <2>2, <4>3 DEF NoDups, IsInjective
    <3> QED
      BY <3>4, <3>5
  <2> QED
    BY <2>2, <2>3 DEF NoDups, IsInjective
\* The coinbase of a body with a commitment is, but for its witness, the mined one.
<1>CoinbaseBinds. ASSUME NEW block, IsOffered(block), block.txs # <<>>, is_coinbase(Head(block.txs)), SegwitIntegrity(block)
                  PROVE  SameButWitness(Head(block.txs), Head(block.mined))
  <2> USE <1>CoinbaseBinds
  <2> DEFINE coinbase == Head(block.txs)
             proof == block.coinbase_proof
             mined == block.mined
  <2>1. Len(proof.siblings) \in Nat /\ IsTx(coinbase) /\ is_coinbase(coinbase)
    <3>1. IsList(block.txs) /\ IsList(proof.siblings)
      BY DEF IsOffered, IsBody
    <3>2. 1 \in DOMAIN block.txs /\ Head(block.txs) = block.txs[1]
      BY <3>1, SMTT(60) DEF IsList
    <3>3. IsTx(coinbase)
      BY <3>2 DEF IsOffered, IsBody
    <3> QED
      BY <3>1, <3>3, ListIs
  <2>2. compute_root(proof, coinbase) = calculate_root(txids(mined))
    BY DEF SegwitIntegrity, verify_inclusion, IsOffered
  <2>3. AreLeaves(txids(mined))
    BY <1>IdsAreLeaves DEF IsOffered, IsMinedBody
  <2>4. ~IsNode(compute_txid(coinbase))
    BY DEF compute_txid, IsNode, hash_pair
  <2> HIDE DEF coinbase, proof, mined
  <2>5. PICK f : /\ PathHashes(Len(proof.siblings), compute_txid(coinbase), f)
                 /\ compute_root(proof, coinbase) = f[Len(proof.siblings)]
    BY <2>1, <1>PathRecursion
  <2>6. compute_txid(coinbase) \in Range(txids(mined))
    <3>1. f[Len(proof.siblings)] = calculate_root(txids(mined))
      BY <2>2, <2>5
    <3> QED
      BY <2>1, <2>3, <2>4, <2>5, <3>1, <1>PathStarts
  <2>7. PICK j \in DOMAIN mined : compute_txid(coinbase) = compute_txid(mined[j])
    BY <2>6 DEF Range, txids
  <2>8. IsMinedBody(mined) /\ IsTx(mined[j])
    BY DEF IsOffered, IsMinedBody, IsBody, mined
  <2>9. SameButWitness(coinbase, mined[j])
    BY <2>1, <2>7, <2>8, <1>TxidBinds
  <2>10. is_coinbase(mined[j])
    <3>1. IsList(coinbase.ins) /\ IsList(mined[j].ins)
      BY <2>1, <2>8 DEF IsTx
    <3>2. /\ DOMAIN coinbase.ins = 1 .. Len(coinbase.ins)
          /\ DOMAIN mined[j].ins = 1 .. Len(mined[j].ins) /\ Len(mined[j].ins) \in Nat
      BY <3>1, ListIs
    <3>3. Len(coinbase.ins) = 1 /\ coinbase.ins[1].txid = "null"
      BY <2>1 DEF is_coinbase
    <3>4. 1 .. 1 = 1 .. Len(mined[j].ins)
      BY <2>9, <3>2, <3>3 DEF SameButWitness
    <3>5. Len(mined[j].ins) = 1
      <4> DEFINE k == Len(mined[j].ins)
      <4>1. k \in Nat /\ 1 .. 1 = 1 .. k
        BY <3>2, <3>4
      <4> HIDE DEF k
      <4>2. k = 1
        BY <4>1, SMTT(60)
      <4> QED
        BY <4>2 DEF k
    <3>6. 1 \in DOMAIN coinbase.ins
      BY <3>2, <3>3, SMTT(60)
    <3>7. mined[j].ins[1].txid = "null"
      BY <2>9, <3>3, <3>6 DEF SameButWitness
    <3> QED
      BY <3>5, <3>7 DEF is_coinbase
  <2>11. j = 1
    BY <2>8, <2>10 DEF IsMinedBody
  <2>12. mined[1] = Head(mined)
    BY <2>8, SMTT(60) DEF IsMinedBody, IsBody, IsList
  <2> QED
    BY <2>9, <2>11, <2>12 DEF coinbase, mined
\* Lists that agree after their first element.
<1>SameTails. ASSUME NEW s, IsList(s), NEW t, IsList(t), Len(s) = Len(t), Len(s) >= 1,
                     \A i \in 1 .. Len(s) : i # 1 => s[i] = t[i]
              PROVE  Tail(s) = Tail(t)
  <2> USE <1>SameTails
  <2> DEFINE n == Len(s)
  <2>1. s \in Seq(Range(s)) /\ t \in Seq(Range(t)) /\ n \in Nat
    BY SMTT(60) DEF IsList
  <2>2. Tail(s) = [i \in 1 .. (n - 1) |-> s[i + 1]]
    <3>1. Tail(s) \in Seq(Range(s)) /\ Len(Tail(s)) = n - 1
      BY <2>1, SMTT(60)
    <3>2. \A i \in 1 .. (n - 1) : Tail(s)[i] = s[i + 1]
      BY <2>1, SMTT(60)
    <3>3. Tail(s) = [i \in 1 .. (n - 1) |-> Tail(s)[i]]
      BY <3>1, SeqIs
    <3> QED
      BY <3>2, <3>3
  <2>3. Tail(t) = [i \in 1 .. (n - 1) |-> t[i + 1]]
    <3>1. Tail(t) \in Seq(Range(t)) /\ Len(Tail(t)) = n - 1
      BY <2>1, SMTT(60)
    <3>2. \A i \in 1 .. (n - 1) : Tail(t)[i] = t[i + 1]
      BY <2>1, SMTT(60)
    <3>3. Tail(t) = [i \in 1 .. (n - 1) |-> Tail(t)[i]]
      BY <3>1, SeqIs
    <3> QED
      BY <3>2, <3>3
  <2>4. ASSUME NEW i \in 1 .. (n - 1) PROVE s[i + 1] = t[i + 1]
    <3>1. i + 1 \in 1 .. n /\ i + 1 # 1
      BY <2>1, SMTT(60)
    <3> QED
      BY <3>1
  <2> QED
    BY <2>2, <2>3, <2>4
\* Lists with the same witness ids have the same transactions after the coinbase.
<1>WtxidsBind. ASSUME NEW txs, IsBody(txs), txs # <<>>, NEW mined, IsBody(mined), mined # <<>>,
                      wtxids(txs) = wtxids(mined)
               PROVE  Tail(txs) = Tail(mined)
  <2> USE <1>WtxidsBind
  <2> DEFINE n == Len(txs)
  <2>1. Len(txs) = Len(mined)
    BY <1>IdsAreLeaves
  <2>2. IsList(txs) /\ IsList(mined)
    BY DEF IsBody
  <2>3. n \in Nat /\ n >= 1 /\ DOMAIN txs = 1 .. n /\ DOMAIN mined = 1 .. n
    BY <2>1, <2>2, ListIs
  <2>4. ASSUME NEW i \in 1 .. n, i # 1 PROVE txs[i] = mined[i]
    <3>1. wtxids(txs)[i] = compute_wtxid(txs[i])
      BY <2>3, <2>4 DEF wtxids
    <3>2. wtxids(mined)[i] = compute_wtxid(mined[i])
      BY <2>3, <2>4 DEF wtxids
    <3>3. compute_wtxid(txs[i]) = compute_wtxid(mined[i])
      BY <3>1, <3>2
    <3> QED
      BY <3>3  DEF compute_wtxid
  <2> QED
    BY <2>1, <2>2, <2>3, <2>4, <1>SameTails
<1>main. ASSUME NEW block, IsOffered(block), check_block_integrity(block)
         PROVE  Tail(block.txs) = Tail(block.mined)
  <2> USE <1>main
  <2> DEFINE txs == block.txs
             mined == block.mined
  <2>1. /\ IsBody(txs) /\ txs # <<>> /\ is_coinbase(Head(txs))
        /\ IsBody(mined) /\ mined # <<>> /\ IsMinedBody(mined)
    BY DEF IsOffered, IsMinedBody, check_block_integrity
  <2>2. /\ AreLeaves(txids(txs)) /\ AreLeaves(wtxids(txs))
        /\ AreLeaves(txids(mined)) /\ AreLeaves(wtxids(mined))
    BY <2>1, <1>IdsAreLeaves
  <2>3. CASE CommitmentOutputs(Head(txs)) # {}
    <3>1. SegwitIntegrity(block)
      BY <2>3 DEF check_block_integrity
    <3>2. SameButWitness(Head(txs), Head(mined))
      BY <2>1, <3>1, <1>CoinbaseBinds
    <3>3. Head(txs).outs = Head(mined).outs
      BY <3>2 DEF SameButWitness
    <3>4. /\ CommitmentOutputs(Head(txs)) = CommitmentOutputs(Head(mined))
          /\ witness_commitment_from_coinbase(Head(txs)) = witness_commitment_from_coinbase(Head(mined))
      BY <3>3 DEF CommitmentOutputs, witness_commitment_from_coinbase
    <3>5. witness_commitment_from_coinbase(Head(mined)) =
              witness_commitment(calculate_root(wtxids(mined)), Head(mined).ins[1].witness[2][1])
      BY <2>1, <2>3, <3>4 DEF IsMinedBody
    <3>6. NoDups(wtxids(txs)) /\ witness_commitment_from_coinbase(Head(txs)) =
              witness_commitment(calculate_root(wtxids(txs)), Head(txs).ins[1].witness[2][1])
      BY <3>1 DEF SegwitIntegrity
    <3>7. calculate_root(wtxids(txs)) = calculate_root(wtxids(mined))
      BY <3>4, <3>5, <3>6, SMTT(60) DEF witness_commitment
    <3>8. NoDups(wtxids(mined))
      BY <2>1, <1>MinedWtxids
    <3>9. wtxids(txs) = wtxids(mined)
      BY <2>2, <3>6, <3>7, <3>8, RootBinds
    <3> QED
      BY <2>1, <3>9, <1>WtxidsBind
  <2>4. CASE CommitmentOutputs(Head(txs)) = {}
    <3>1. LegacyIntegrity(block)
      BY <2>4 DEF check_block_integrity
    <3>2. ~HasWitness(txs) /\ NoDups(txids(txs)) /\ calculate_root(txids(txs)) = calculate_root(txids(mined))
      BY <3>1 DEF LegacyIntegrity, IsOffered
    <3>3. NoDups(txids(mined))
      BY <2>1 DEF IsMinedBody
    <3>4. txids(txs) = txids(mined)
      BY <2>2, <3>2, <3>3, RootBinds
    <3> HIDE DEF txs, mined
    <3>5. Len(txs) = Len(mined)
      BY <2>1, <3>4, <1>IdsAreLeaves
    <3>6. IsList(txs) /\ IsList(mined)
      BY <2>1 DEF IsBody
    <3>7. Len(txs) >= 1 /\ Len(txs) \in Nat /\ DOMAIN txs = 1 .. Len(txs) /\ DOMAIN mined = 1 .. Len(txs)
      BY <2>1, <3>5, <3>6, ListIs
    <3>8. ASSUME NEW i \in DOMAIN txs PROVE SameButWitness(txs[i], mined[i])
      <4>1. txids(txs)[i] = compute_txid(txs[i]) /\ txids(mined)[i] = compute_txid(mined[i])
        BY <3>7 DEF txids
      <4>2. compute_txid(txs[i]) = compute_txid(mined[i])
        BY <3>4, <4>1
      <4>3. IsTx(txs[i]) /\ IsTx(mined[i])
        BY <2>1, <3>7 DEF IsBody
      <4> QED
        BY <4>2, <4>3, <1>TxidBinds
    <3>9. ~HasWitness(mined)
      <4>1. 1 \in DOMAIN txs /\ txs[1] = Head(txs) /\ mined[1] = Head(mined)
        BY <2>1, <3>6, <3>7, SMTT(60) DEF IsList
      <4>2. Head(txs).outs = Head(mined).outs
        BY <3>8, <4>1 DEF SameButWitness
      <4>3. CommitmentOutputs(Head(mined)) = {}
        BY <2>4, <4>2 DEF CommitmentOutputs
      <4> QED
        BY <2>1, <4>3 DEF IsMinedBody
    <3>10. ASSUME NEW i \in DOMAIN txs PROVE txs[i] = mined[i]
      <4>1. IsTx(txs[i]) /\ IsTx(mined[i]) /\ SameButWitness(txs[i], mined[i])
        BY <2>1, <3>7, <3>8 DEF IsBody
      <4>2. ASSUME NEW j \in DOMAIN txs[i].ins PROVE txs[i].ins[j].witness = mined[i].ins[j].witness
        <5>1. txs[i].ins[j].witness = NoWitness
          BY <3>2 DEF HasWitness
        <5>2. mined[i].ins[j].witness = NoWitness
          BY <3>7, <3>9, <4>1 DEF HasWitness, SameButWitness
        <5> QED
          BY <5>1, <5>2
      <4> QED
        BY <4>1, <4>2, <1>TxidBindsBare
    <3>11. Tail(txs) = Tail(mined)
      BY <3>5, <3>6, <3>7, <3>10, <1>SameTails
    <3> QED
      BY <3>11 DEF txs, mined
  <2> QED
    BY <2>3, <2>4
<1> QED
  BY <1>main

-----------------------------------------------------------------------------
(* Sorted vectors.  The bridge model keeps deposits as a function on       *)
(* deposit indices and the code keeps them in a sorted vector.  The        *)
(* theorems below justify that: from vectors of strictly ascending keys,   *)
(* every insertion of an absent key and every removal leads to such a      *)
(* vector again, and does to the function it stands for what               *)
(* insert_deposit and remove_deposits of BridgeTables do.  Ascending is    *)
(* stated for all pairs of positions and not for neighbours, which makes   *)
(* it inductive by itself.                                                 *)

Entry(V) == Int \X V

\* Keys ascend strictly.
Ascending(v) == \A i, j \in DOMAIN v : i < j => get_key(v[i]) < get_key(v[j])

\* What a vector stands for is a function on its keys.
LEMMA TableOfFunction ==
  ASSUME NEW v
  PROVE  DOMAIN TableOf(v) = KeysOf(v) /\ TableOf(v) = [x \in KeysOf(v) |-> TableOf(v)[x]]
<1> DEFINE f(x) == v[CHOOSE i \in DOMAIN v : get_key(v[i]) = x][2]
<1> HIDE DEF f
<1>1. TableOf(v) = [x \in KeysOf(v) |-> f(x)]
  BY DEF TableOf, f
<1> QED
  BY <1>1

\* A vector of strictly ascending keys stands for the function that takes each
\* of its keys to the one entry that has it.
LEMMA TableOfEntry ==
  ASSUME NEW V, NEW v \in Seq(Entry(V)), Ascending(v), NEW i \in DOMAIN v
  PROVE  TableOf(v)[get_key(v[i])] = v[i][2]
<1>1. \A j \in DOMAIN v : get_key(v[j]) = get_key(v[i]) => j = i
  <2> SUFFICES ASSUME NEW j \in 1 .. Len(v), j # i
               PROVE  get_key(v[j]) # get_key(v[i])
    BY SMTT(60)
  <2>1. j < i \/ i < j
    BY SMTT(60)
  <2>2. get_key(v[i]) \in Int /\ get_key(v[j]) \in Int
    BY SMTT(60) DEF get_key, Entry
  <2> QED
    BY <2>1, <2>2, SMTT(60) DEF Ascending
<1>2. get_key(v[i]) \in KeysOf(v)
  BY DEF KeysOf
<1> DEFINE c == CHOOSE j \in DOMAIN v : get_key(v[j]) = get_key(v[i])
<1>3. c = i
  <2>1. c \in DOMAIN v /\ get_key(v[c]) = get_key(v[i])
    OBVIOUS
  <2> QED
    BY <1>1, <2>1
<1>4. TableOf(v)[get_key(v[i])] = v[c][2]
  BY <1>2 DEF TableOf
<1> QED
  BY <1>3, <1>4

\* from_ssz_bytes of the three tables accepts what ssz_append wrote: what they
\* hold after insertions and removals decodes again in the next block.
THEOREM OrderedDecodes ==
  \A V : \A v \in Seq(Entry(V)) :
     Ascending(v)
      => /\ DepositsTableDecodes(DepositsTableSsz(v))
         /\ \A n : AssignmentTableDecodes(AssignmentTableSsz(v, n))
         /\ \A n, key, history : OperatorTableDecodes(OperatorTableSsz(n, v, key, history))
\* A vector whose keys ascend strictly is sorted and free of duplicates
\* (check_table_vec).
<1>OrderedIsSafe. ASSUME NEW V, NEW v \in Seq(Entry(V)), Ascending(v)
                  PROVE  try_from(v) /\ check_table_vec(v) = "Safe"
  <2> USE <1>OrderedIsSafe
  <2>1. \A i \in 1 .. (Len(v) - 1) : get_key(v[i]) < get_key(v[i + 1])
    BY SMTT(60) DEF Ascending
  <2>2. \A i \in 1 .. Len(v) : get_key(v[i]) \in Int
    BY SMTT(60) DEF get_key, Entry
  <2>3. is_sorted(v) /\ ~check_duplicate_keys(v)
    BY <2>1, <2>2, SMTT(60) DEF is_sorted, check_duplicate_keys
  <2> QED
    BY <2>3 DEF try_from, check_table_vec
<1>main. ASSUME NEW V, NEW v \in Seq(Entry(V)), Ascending(v)
         PROVE  /\ DepositsTableDecodes(DepositsTableSsz(v))
                /\ \A n : AssignmentTableDecodes(AssignmentTableSsz(v, n))
                /\ \A n, key, history : OperatorTableDecodes(OperatorTableSsz(n, v, key, history))
  <2> USE <1>main
  <2>1. try_from(v)
    BY <1>OrderedIsSafe
  <2>2. /\ DepositsTableSsz(v).deposits = v
        /\ \A n : AssignmentTableSsz(v, n).assignments = v
        /\ \A n, key, history : OperatorTableSsz(n, v, key, history).operators = v
    BY DEF DepositsTableSsz, AssignmentTableSsz, OperatorTableSsz
  <2> QED
    BY <2>1, <2>2 DEF DepositsTableDecodes, AssignmentTableDecodes, OperatorTableDecodes
<1> QED
  BY <1>main

\* DepositsTable::insert_deposit: inserting an unknown deposit into the vector
\* does to the function it stands for what the bridge model does, and leaves
\* a vector that ascends strictly.
THEOREM InsertDepositImplements ==
  \A V : \A v \in Seq(Entry(V)) : \A d \in V : \A w \in insert(v, <<d.deposit_idx, d>>) :
     Ascending(v) /\ d.deposit_idx \in Int /\ ~contains(v, d.deposit_idx)
      => Ascending(w) /\ TableOf(w) = insert_deposit(TableOf(v), d)
\* One sequence after the other.
<1>Concatenated. ASSUME NEW S, NEW a \in Seq(S), NEW b \in Seq(S)
                 PROVE  /\ a \o b \in Seq(S) /\ Len(a \o b) = Len(a) + Len(b)
                        /\ \A j \in 1 .. (Len(a) + Len(b)) :
                             (a \o b)[j] = IF j <= Len(a) THEN a[j] ELSE b[j - Len(a)]
  BY SMTT(60)
\* Vec::insert: the elements from i on move up by one.
<1>InsertAtShifts. ASSUME NEW S, NEW v \in Seq(S), NEW e \in S, NEW i \in 1 .. (Len(v) + 1)
                   PROVE  /\ InsertAt(v, i, e) \in Seq(S)
                          /\ Len(InsertAt(v, i, e)) = Len(v) + 1
                          /\ \A j \in 1 .. (i - 1) : InsertAt(v, i, e)[j] = v[j]
                          /\ InsertAt(v, i, e)[i] = e
                          /\ \A j \in (i + 1) .. (Len(v) + 1) : InsertAt(v, i, e)[j] = v[j - 1]
  <2> DEFINE p == SubSeq(v, 1, i - 1)
             q == SubSeq(v, i, Len(v))
             pe == p \o <<e>>
  <2>1. p \in Seq(S) /\ Len(p) = i - 1 /\ \A j \in 1 .. (i - 1) : p[j] = v[j]
    BY SMTT(60)
  <2>2. q \in Seq(S) /\ Len(q) = Len(v) + 1 - i /\ \A j \in 1 .. (Len(v) + 1 - i) : q[j] = v[i + j - 1]
    BY SMTT(60)
  <2>3. pe \in Seq(S) /\ Len(pe) = i /\ (\A j \in 1 .. (i - 1) : pe[j] = v[j]) /\ pe[i] = e
    <3> HIDE DEF p
    <3>1. <<e>> \in Seq(S) /\ Len(<<e>>) = 1 /\ <<e>>[1] = e
      BY SMTT(60)
    <3> QED
      BY <2>1, <3>1, SMTT(60)
  <2>4. InsertAt(v, i, e) = pe \o q
    BY DEF InsertAt
  <2> HIDE DEF p, q, pe
  <2>5. /\ pe \o q \in Seq(S) /\ Len(pe \o q) = Len(pe) + Len(q)
        /\ \A j \in 1 .. (Len(pe) + Len(q)) :
             (pe \o q)[j] = IF j <= Len(pe) THEN pe[j] ELSE q[j - Len(pe)]
    BY <2>2, <2>3, <1>Concatenated
  <2>6. Len(pe) + Len(q) = Len(v) + 1
    BY <2>2, <2>3, SMTT(60)
  <2> QED
    BY <2>2, <2>3, <2>4, <2>5, <2>6, SMTT(60)
\* SortedVec::insert of an absent key into a vector of strictly ascending keys:
\* the vector ascends strictly again and holds the new entry and the old ones.
<1>InsertKeepsOrdered. ASSUME NEW V, NEW v \in Seq(Entry(V)), NEW e \in Entry(V), Ascending(v), ~contains(v, get_key(e)),
                              NEW w \in insert(v, e)
                       PROVE  /\ w \in Seq(Entry(V)) /\ Ascending(w)
                              /\ \A j \in DOMAIN v : \E m \in DOMAIN w : w[m] = v[j]
                              /\ \E m \in DOMAIN w : w[m] = e
                              /\ \A m \in DOMAIN w : w[m] = e \/ \E j \in DOMAIN v : w[m] = v[j]
  <2> USE <1>InsertKeepsOrdered
  <2> DEFINE k == get_key(e)
  <2>1. PICK i \in 1 .. (Len(v) + 1) : w = InsertAt(v, i, e) /\ i \in Missing(v, k)
    BY DEF insert, Missing
  <2>2. /\ w \in Seq(Entry(V)) /\ Len(w) = Len(v) + 1
        /\ \A j \in 1 .. (i - 1) : w[j] = v[j]
        /\ w[i] = e
        /\ \A j \in (i + 1) .. (Len(v) + 1) : w[j] = v[j - 1]
    <3>1. InsertAt(v, i, e) \in Seq(Entry(V))
      BY <1>InsertAtShifts
    <3>2. /\ Len(InsertAt(v, i, e)) = Len(v) + 1
          /\ InsertAt(v, i, e)[i] = e
      BY <1>InsertAtShifts, SMTT(60)
    <3>3. \A j \in 1 .. (i - 1) : InsertAt(v, i, e)[j] = v[j]
      BY <1>InsertAtShifts, SMTT(60)
    <3>4. \A j \in (i + 1) .. (Len(v) + 1) : InsertAt(v, i, e)[j] = v[j - 1]
      BY <1>InsertAtShifts, SMTT(60)
    <3> QED
      BY <2>1, <3>1, <3>2, <3>3, <3>4
  <2>3. \A j \in 1 .. Len(v) : (j < i => get_key(v[j]) < k) /\ (j >= i => k < get_key(v[j]))
    <3> HIDE DEF k
    <3>1. \A j \in 1 .. Len(v) : get_key(v[j]) \in Int
      BY SMTT(60) DEF get_key, Entry
    <3>2. k \in Int
      BY DEF k, get_key, Entry
    <3> QED
      BY <2>1, <3>1, <3>2, SMTT(60) DEF Missing
  <2>4. Ascending(w)
    <3> SUFFICES ASSUME NEW a \in 1 .. (Len(v) + 1), NEW b \in 1 .. (Len(v) + 1), a < b
                 PROVE  get_key(w[a]) < get_key(w[b])
      BY <2>2, SMTT(60) DEF Ascending
    <3> HIDE DEF k
    <3>1. \A j \in 1 .. Len(v) : get_key(v[j]) \in Int
      BY SMTT(60) DEF get_key, Entry
    <3>2. k \in Int
      BY DEF k, get_key, Entry
    <3>3. \A x, y \in 1 .. Len(v) : x < y => get_key(v[x]) < get_key(v[y])
      BY SMTT(60) DEF Ascending
    <3>4. CASE b < i
      BY <2>2, <3>3, <3>4, SMTT(60)
    <3>5. CASE b = i
      BY <2>2, <2>3, <3>5, SMTT(60) DEF k
    <3>6. CASE b > i
      <4>1. w[b] = v[b - 1] /\ b - 1 \in 1 .. Len(v) /\ i <= b - 1
        <5>1. b \in (i + 1) .. (Len(v) + 1) /\ b - 1 \in 1 .. Len(v) /\ i <= b - 1
          BY <3>6, SMTT(60)
        <5> QED
          BY <2>2, <5>1
      <4>2. CASE a < i
        <5>1. w[a] = v[a] /\ a \in 1 .. Len(v) /\ a < b - 1
          BY <2>2, <4>1, <4>2, SMTT(60)
        <5> QED
          BY <3>3, <4>1, <5>1
      <4>3. CASE a = i
        <5>1. w[a] = e
          BY <2>2, <4>3
        <5> QED
          BY <2>3, <4>1, <5>1  DEF k
      <4>4. CASE a > i
        <5>1. a \in (i + 1) .. (Len(v) + 1) /\ a - 1 \in 1 .. Len(v) /\ a - 1 < b - 1
          BY <4>4, SMTT(60)
        <5>2. w[a] = v[a - 1]
          BY <2>2, <5>1
        <5> QED
          BY <3>3, <4>1, <5>1, <5>2
      <4> QED
        BY <4>2, <4>3, <4>4, SMTT(60)
    <3> QED
      BY <3>4, <3>5, <3>6, SMTT(60)
  <2>5. \A j \in DOMAIN v : \E m \in DOMAIN w : w[m] = v[j]
    <3> TAKE j \in DOMAIN v
    <3>1. CASE j < i
      <4>1. j \in DOMAIN w /\ w[j] = v[j]
        BY <2>2, <3>1, SMTT(60)
      <4> QED
        BY <4>1
    <3>2. CASE j >= i
      <4>1. j + 1 \in DOMAIN w /\ w[j + 1] = v[j]
        BY <2>2, <3>2, SMTT(60)
      <4> QED
        BY <4>1
    <3> QED
      BY <3>1, <3>2, SMTT(60)
  <2>6. i \in DOMAIN w /\ w[i] = e
    BY <2>2, SMTT(60)
  <2>7. \A m \in DOMAIN w : w[m] = e \/ \E j \in DOMAIN v : w[m] = v[j]
    <3> TAKE m \in DOMAIN w
    <3>1. CASE m < i
      BY <2>2, <3>1, SMTT(60)
    <3>2. CASE m > i
      <4>1. m - 1 \in DOMAIN v /\ w[m] = v[m - 1]
        BY <2>2, <3>2, SMTT(60)
      <4> QED
        BY <4>1
    <3> QED
      BY <2>2, <2>6, <3>1, <3>2, SMTT(60)
  <2> QED
    BY <2>2, <2>4, <2>5, <2>6, <2>7
<1>main. ASSUME NEW V, NEW v \in Seq(Entry(V)), Ascending(v),
                NEW d \in V, d.deposit_idx \in Int, ~contains(v, d.deposit_idx),
                NEW w \in insert(v, <<d.deposit_idx, d>>)
         PROVE  Ascending(w) /\ TableOf(w) = insert_deposit(TableOf(v), d)
  <2> USE <1>main
  <2> DEFINE k == d.deposit_idx
             e == <<k, d>>
  <2>1. e \in Entry(V) /\ get_key(e) = k /\ e[2] = d
    BY DEF Entry, get_key
  <2> HIDE DEF k, e
  <2>2. w \in insert(v, e) /\ ~contains(v, get_key(e))
    BY <2>1 DEF e, k
  <2>3. /\ w \in Seq(Entry(V)) /\ Ascending(w)
        /\ \A j \in DOMAIN v : \E m \in DOMAIN w : w[m] = v[j]
        /\ \E m \in DOMAIN w : w[m] = e
        /\ \A m \in DOMAIN w : w[m] = e \/ \E j \in DOMAIN v : w[m] = v[j]
    <3>1. w \in Seq(Entry(V)) /\ Ascending(w)
      BY <2>1, <2>2, <1>InsertKeepsOrdered
    <3>2. \A j \in DOMAIN v : \E m \in DOMAIN w : w[m] = v[j]
      BY <2>1, <2>2, <1>InsertKeepsOrdered, SMTT(60)
    <3>3. \E m \in DOMAIN w : w[m] = e
      BY <2>1, <2>2, <1>InsertKeepsOrdered, SMTT(60)
    <3>4. \A m \in DOMAIN w : w[m] = e \/ \E j \in DOMAIN v : w[m] = v[j]
      BY <2>1, <2>2, <1>InsertKeepsOrdered, SMTT(60)
    <3> QED
      BY <3>1, <3>2, <3>3, <3>4
  <2>4. KeysOf(w) = KeysOf(v) \cup {k}
    BY <2>1, <2>3 DEF KeysOf
  <2>5. ASSUME NEW x \in KeysOf(w)
        PROVE  TableOf(w)[x] = IF x = k THEN d ELSE TableOf(v)[x]
    <3>1. PICK m \in DOMAIN w : get_key(w[m]) = x
      BY DEF KeysOf
    <3>2. TableOf(w)[x] = w[m][2]
      BY <2>3, <3>1, TableOfEntry
    <3>3. CASE w[m] = e
      BY <2>1, <3>1, <3>2, <3>3
    <3>4. CASE w[m] # e
      <4>1. PICK j \in DOMAIN v : w[m] = v[j]
        BY <2>3, <3>4
      <4>2. TableOf(v)[x] = v[j][2]
        BY <3>1, <4>1, TableOfEntry
      <4>3. x # k
        BY <2>1, <2>2, <3>1, <4>1 DEF contains, Found
      <4> QED
        BY <3>2, <4>1, <4>2, <4>3
    <3> QED
      BY <3>3, <3>4
  <2>6. DOMAIN TableOf(v) = KeysOf(v) /\ TableOf(w) = [x \in KeysOf(w) |-> TableOf(w)[x]]
    BY TableOfFunction
  <2>7. TableOf(w) = [x \in KeysOf(v) \cup {k} |-> IF x = k THEN d ELSE TableOf(v)[x]]
    BY <2>4, <2>5, <2>6
  <2> QED
    BY <2>3, <2>6, <2>7 DEF insert_deposit, k
<1> QED
  BY <1>main

\* DepositsTable::remove_deposit, and remove_assignment on the same
\* representation: the vector loses the key and keeps every other entry.
THEOREM RemoveDepositImplements ==
  \A V : \A v \in Seq(Entry(V)) : \A k \in Int : \A w \in remove(v, k) :
     Ascending(v)
      => /\ Ascending(w)
         /\ TableOf(w) = remove_deposits(TableOf(v), {k})
         /\ TableOf(w) = remove_assignment(TableOf(v), k)
\* Vec::remove: the elements after i move down by one.
<1>RemoveAtShifts. ASSUME NEW S, NEW v \in Seq(S), NEW i \in 1 .. Len(v)
                   PROVE  /\ RemoveAt(v, i) \in Seq(S)
                          /\ Len(RemoveAt(v, i)) = Len(v) - 1
                          /\ \A j \in 1 .. (i - 1) : RemoveAt(v, i)[j] = v[j]
                          /\ \A j \in i .. (Len(v) - 1) : RemoveAt(v, i)[j] = v[j + 1]
  <2> DEFINE p == SubSeq(v, 1, i - 1)
             q == SubSeq(v, i + 1, Len(v))
  <2>1. p \in Seq(S) /\ Len(p) = i - 1 /\ \A j \in 1 .. (i - 1) : p[j] = v[j]
    BY SMTT(60)
  <2>2. q \in Seq(S) /\ Len(q) = Len(v) - i /\ \A j \in 1 .. (Len(v) - i) : q[j] = v[i + j]
    BY SMTT(60)
  <2>3. RemoveAt(v, i) = p \o q
    BY DEF RemoveAt
  <2> HIDE DEF p, q
  <2>4. /\ p \o q \in Seq(S) /\ Len(p \o q) = Len(p) + Len(q)
        /\ \A j \in 1 .. (Len(p) + Len(q)) :
             (p \o q)[j] = IF j <= Len(p) THEN p[j] ELSE q[j - Len(p)]
    <3>1. p \in Seq(S) /\ q \in Seq(S)
      BY <2>1, <2>2
    <3> QED
      BY <3>1, SMTT(60)
  <2>5. Len(p) + Len(q) = Len(v) - 1
    BY <2>1, <2>2, SMTT(60)
  <2>6. \A j \in 1 .. (i - 1) : (p \o q)[j] = v[j]
    BY <2>1, <2>4, <2>5, SMTT(60)
  <2>7. ASSUME NEW j \in i .. (Len(v) - 1)
        PROVE  (p \o q)[j] = v[j + 1]
    <3>1. j - (i - 1) \in 1 .. (Len(v) - i) /\ i + (j - (i - 1)) = j + 1
      BY SMTT(60)
    <3>2. (p \o q)[j] = q[j - (i - 1)]
      BY <2>1, <2>4, <2>5, SMTT(60)
    <3> QED
      BY <2>2, <3>1, <3>2
  <2> QED
    BY <2>3, <2>4, <2>5, <2>6, <2>7
\* SortedVec::remove from a vector of strictly ascending keys: the vector
\* ascends strictly again and has lost the entry with the key and no other.
<1>RemoveKeepsOrdered. ASSUME NEW V, NEW v \in Seq(Entry(V)), NEW k \in Int, Ascending(v), NEW w \in remove(v, k)
                       PROVE  /\ w \in Seq(Entry(V)) /\ Ascending(w)
                              /\ \A j \in DOMAIN v : get_key(v[j]) # k => \E m \in DOMAIN w : w[m] = v[j]
                              /\ \A m \in DOMAIN w : get_key(w[m]) # k /\ \E j \in DOMAIN v : w[m] = v[j]
  <2> USE <1>RemoveKeepsOrdered
  <2>1. CASE ~contains(v, k)
    <3>1. w = v
      BY <2>1 DEF remove
    <3>2. \A m \in DOMAIN v : get_key(v[m]) # k
      BY <2>1 DEF contains, Found
    <3> QED
      BY <3>1, <3>2
  <2>2. CASE contains(v, k)
    <3>1. DOMAIN v = 1 .. Len(v)
      BY SMTT(60)
    <3>2. PICK i \in 1 .. Len(v) : w = RemoveAt(v, i) /\ get_key(v[i]) = k
      BY <2>2, <3>1 DEF remove, Found
    <3>3. /\ w \in Seq(Entry(V)) /\ Len(w) = Len(v) - 1
          /\ \A j \in 1 .. (i - 1) : w[j] = v[j]
          /\ \A j \in i .. (Len(v) - 1) : w[j] = v[j + 1]
      <4>1. RemoveAt(v, i) \in Seq(Entry(V))
        BY <1>RemoveAtShifts
      <4>2. Len(RemoveAt(v, i)) = Len(v) - 1
        BY <1>RemoveAtShifts
      <4>3. \A j \in 1 .. (i - 1) : RemoveAt(v, i)[j] = v[j]
        BY <1>RemoveAtShifts
      <4>4. \A j \in i .. (Len(v) - 1) : RemoveAt(v, i)[j] = v[j + 1]
        BY <1>RemoveAtShifts
      <4> QED
        BY <3>2, <4>1, <4>2, <4>3, <4>4
    <3> DEFINE old(m) == IF m < i THEN m ELSE m + 1
    <3>4. \A m \in 1 .. (Len(v) - 1) : old(m) \in 1 .. Len(v) /\ old(m) # i /\ w[m] = v[old(m)]
      BY <3>1, <3>3, SMTT(60)
    <3>5. \A a, b \in 1 .. (Len(v) - 1) : a < b => old(a) < old(b)
      BY <3>1, SMTT(60)
    <3>6. \A x, y \in 1 .. Len(v) : x < y => get_key(v[x]) < get_key(v[y])
      BY SMTT(60) DEF Ascending
    <3>7. \A x \in 1 .. Len(v) : get_key(v[x]) \in Int
      BY SMTT(60) DEF get_key, Entry
    <3>8. Ascending(w)
      <4> HIDE DEF old
      <4> SUFFICES ASSUME NEW a \in 1 .. (Len(v) - 1), NEW b \in 1 .. (Len(v) - 1), a < b
                   PROVE  get_key(w[a]) < get_key(w[b])
        <5>1. DOMAIN w = 1 .. (Len(v) - 1)
          BY <3>3, SMTT(60)
        <5> QED
          BY <5>1 DEF Ascending
      <4>1. old(a) \in 1 .. Len(v) /\ old(b) \in 1 .. Len(v) /\ old(a) < old(b)
        BY <3>4, <3>5
      <4> QED
        BY <3>4, <3>6, <4>1
    <3>9. \A j \in DOMAIN v : get_key(v[j]) # k => \E m \in DOMAIN w : w[m] = v[j]
      <4> SUFFICES ASSUME NEW j \in 1 .. Len(v), j # i
                   PROVE  \E m \in DOMAIN w : w[m] = v[j]
        BY <3>2, SMTT(60)
      <4>1. CASE j < i
        <5>1. j \in DOMAIN w /\ w[j] = v[j]
          BY <3>1, <3>3, <4>1, SMTT(60)
        <5> QED
          BY <5>1
      <4>2. CASE j > i
        <5>1. j - 1 \in i .. (Len(v) - 1) /\ j - 1 \in DOMAIN w /\ (j - 1) + 1 = j
          BY <3>1, <3>3, <4>2, SMTT(60)
        <5>2. w[j - 1] = v[j]
          BY <3>3, <5>1
        <5> QED
          BY <5>1, <5>2
      <4> QED
        BY <3>1, <4>1, <4>2, SMTT(60)
    <3>10. \A m \in DOMAIN w : get_key(w[m]) # k /\ \E j \in DOMAIN v : w[m] = v[j]
      <4> HIDE DEF old
      <4> SUFFICES ASSUME NEW m \in 1 .. (Len(v) - 1)
                   PROVE  get_key(w[m]) # k /\ \E j \in DOMAIN v : w[m] = v[j]
        BY <3>3, SMTT(60)
      <4>1. old(m) \in 1 .. Len(v) /\ old(m) # i /\ w[m] = v[old(m)]
        BY <3>4
      <4>2. get_key(v[old(m)]) # get_key(v[i])
        <5> DEFINE o == old(m)
        <5> HIDE DEF o
        <5>1. o \in 1 .. Len(v) /\ o # i
          BY <4>1 DEF o
        <5>2. o < i \/ i < o
          BY <3>1, <5>1, SMTT(60)
        <5>3. get_key(v[o]) # get_key(v[i])
          BY <3>1, <3>6, <3>7, <5>1, <5>2, SMTT(60)
        <5> QED
          BY <5>3 DEF o
      <4> QED
        BY <3>2, <3>1, <4>1, <4>2
    <3> QED
      BY <3>3, <3>8, <3>9, <3>10
  <2> QED
    BY <2>1, <2>2
<1>main. ASSUME NEW V, NEW v \in Seq(Entry(V)), Ascending(v), NEW k \in Int, NEW w \in remove(v, k)
         PROVE  /\ Ascending(w)
                /\ TableOf(w) = remove_deposits(TableOf(v), {k})
                /\ TableOf(w) = remove_assignment(TableOf(v), k)
  <2> USE <1>main
  <2>1. /\ w \in Seq(Entry(V)) /\ Ascending(w)
        /\ \A j \in DOMAIN v : get_key(v[j]) # k => \E m \in DOMAIN w : w[m] = v[j]
        /\ \A m \in DOMAIN w : get_key(w[m]) # k /\ \E j \in DOMAIN v : w[m] = v[j]
    <3>1. w \in Seq(Entry(V)) /\ Ascending(w)
      BY <1>RemoveKeepsOrdered
    <3>2. \A j \in DOMAIN v : get_key(v[j]) # k => \E m \in DOMAIN w : w[m] = v[j]
      BY <1>RemoveKeepsOrdered, SMTT(60)
    <3>3. \A m \in DOMAIN w : get_key(w[m]) # k /\ \E j \in DOMAIN v : w[m] = v[j]
      BY <1>RemoveKeepsOrdered, SMTT(60)
    <3> QED
      BY <3>1, <3>2, <3>3
  <2>2. KeysOf(w) = KeysOf(v) \ {k}
    <3>1. ASSUME NEW x \in KeysOf(w) PROVE x \in KeysOf(v) \ {k}
      <4>1. PICK m \in DOMAIN w : get_key(w[m]) = x
        BY DEF KeysOf
      <4>2. PICK j \in DOMAIN v : w[m] = v[j]
        BY <2>1
      <4>3. x \in KeysOf(v)
        BY <4>1, <4>2 DEF KeysOf
      <4>4. x # k
        BY <2>1, <4>1
      <4> QED
        BY <4>3, <4>4
    <3>2. ASSUME NEW x \in KeysOf(v), x # k PROVE x \in KeysOf(w)
      <4>1. PICK j \in DOMAIN v : get_key(v[j]) = x
        BY DEF KeysOf
      <4>2. PICK m \in DOMAIN w : w[m] = v[j]
        BY <2>1, <3>2, <4>1
      <4> QED
        BY <4>1, <4>2 DEF KeysOf
    <3> QED
      BY <3>1, <3>2
  <2>3. ASSUME NEW x \in KeysOf(w)
        PROVE  TableOf(w)[x] = TableOf(v)[x]
    <3>1. PICK m \in DOMAIN w : get_key(w[m]) = x
      BY DEF KeysOf
    <3>2. PICK j \in DOMAIN v : w[m] = v[j]
      BY <2>1
    <3>3. TableOf(w)[x] = w[m][2]
      BY <2>1, <3>1, TableOfEntry
    <3>4. TableOf(v)[x] = v[j][2]
      BY <3>1, <3>2, TableOfEntry
    <3> QED
      BY <3>2, <3>3, <3>4
  <2>4. DOMAIN TableOf(v) = KeysOf(v) /\ TableOf(w) = [x \in KeysOf(w) |-> TableOf(w)[x]]
    BY TableOfFunction
  <2>5. TableOf(w) = [x \in KeysOf(v) \ {k} |-> TableOf(v)[x]]
    BY <2>2, <2>3, <2>4
  <2> QED
    BY <2>1, <2>4, <2>5 DEF remove_deposits, remove_assignment
<1> QED
  BY <1>main

\* DepositsTable::oldest_deposit: the deposit at the front of the vector is the
\* one the bridge model assigns first.
THEOREM FirstIsOldest ==
  ASSUME NEW V, NEW v \in Seq(Entry(V)), Ascending(v), v # <<>>
  PROVE  oldest_deposits(TableOf(v), 1) = {get_key(v[1])}
<1> DEFINE K == KeysOf(v)
           below(d) == {e \in K : e < d}
           first == get_key(v[1])
<1>1. DOMAIN TableOf(v) = K
  BY TableOfFunction
<1>2. \A i \in 1 .. Len(v) : get_key(v[i]) \in Int
  BY SMTT(60) DEF get_key, Entry
<1>3. 1 \in 1 .. Len(v) /\ DOMAIN v = 1 .. Len(v)
  BY SMTT(60)
<1>4. first \in K /\ first \in Int
  BY <1>2, <1>3 DEF KeysOf
<1>5. \A d \in K : d \in Int /\ (d # first => first < d)
  <2> SUFFICES ASSUME NEW i \in 1 .. Len(v)
               PROVE  get_key(v[i]) \in Int /\ (get_key(v[i]) # first => first < get_key(v[i]))
    BY <1>3 DEF KeysOf
  <2>1. CASE i = 1
    BY <1>2, <2>1
  <2>2. CASE i # 1
    BY <1>2, <1>3, <2>2, SMTT(60) DEF Ascending
  <2> QED
    BY <2>1, <2>2
<1>6. IsFiniteSet(K)
  <2>1. IsFiniteSet(1 .. Len(v))
    BY FS_Interval, SMTT(60)
  <2> DEFINE f == [i \in 1 .. Len(v) |-> get_key(v[i])]
  <2>2. f \in [1 .. Len(v) -> K] /\ \A d \in K : \E i \in 1 .. Len(v) : f[i] = d
    BY <1>3 DEF KeysOf
  <2>3. f \in Surjection(1 .. Len(v), K)
    BY <2>2 DEF Surjection
  <2> HIDE DEF f, K
  <2> QED
    BY <2>1, <2>3, FS_Surjection
<1> HIDE DEF K, first
<1>7. Cardinality(below(first)) = 0
  <2>1. \A d \in K : ~(d < first)
    <3> SUFFICES ASSUME NEW d \in K PROVE ~(d < first)
      OBVIOUS
    <3>1. d \in Int /\ first \in Int /\ (d # first => first < d)
      BY <1>4, <1>5
    <3> QED
      BY <3>1, SMTT(60)
  <2>2. below(first) = {}
    BY <2>1
  <2> QED
    BY <2>2, FS_EmptySet
<1>8. ASSUME NEW d \in K, d # first PROVE ~(Cardinality(below(d)) < 1)
  <2>1. first \in below(d)
    BY <1>4, <1>5, <1>8
  <2>2. IsFiniteSet(below(d))
    BY <1>6, FS_Subset
  <2>3. Cardinality(below(d)) \in Nat /\ Cardinality(below(d)) # 0
    BY <2>1, <2>2, FS_CardinalityType, FS_EmptySet
  <2> QED
    BY <2>3, SMTT(60)
<1>9. ASSUME NEW d \in K PROVE (Cardinality(below(d)) < 1) <=> d = first
  <2>1. CASE d = first
    <3> HIDE DEF below
    <3>1. Cardinality(below(d)) = 0
      BY <1>7, <2>1
    <3> QED
      BY <2>1, <3>1, SMTT(60)
  <2>2. CASE d # first
    BY <1>8, <2>2
  <2> QED
    BY <2>1, <2>2
<1> QED
  BY <1>1, <1>4, <1>9 DEF oldest_deposits, first

-----------------------------------------------------------------------------
(* Header verification.                                                    *)

\* The head moves from a to b: what it wrote is one step back, the rest one step further back.
RingStep(n, a, b) ==
  /\ b \in 0 .. (n - 1)
  /\ (b - 1) % n = a
  /\ \A i \in 2 .. n : /\ (b - i) % n = (a - (i - 1)) % n
                       /\ (a - (i - 1)) % n # a
                       /\ (a - (i - 1)) % n \in 0 .. (n - 1)

\* The type of a header state, and of the headers it was computed from.
Stamped == [time : Nat, bits : Nat]
PowTyped(s, headers) ==
  /\ s = HeaderVerificationState(s.network, s.last_verified_block, s.next_block_target,
                                 s.epoch_start_timestamp, s.block_timestamp_history, s.total_accumulated_pow)
  /\ s.network \in DOMAIN network_to_id
  /\ headers \in Seq(Stamped)
  /\ s.last_verified_block = Anchor.height + Len(headers)
  /\ s.next_block_target \in Nat
  /\ s.epoch_start_timestamp \in Nat
  /\ s.block_timestamp_history =
         [buffer |-> s.block_timestamp_history.buffer, head |-> s.block_timestamp_history.head]
  /\ s.block_timestamp_history.buffer \in [1 .. TIMESTAMPS_FOR_MEDIAN -> Nat]
  /\ s.block_timestamp_history.head \in 0 .. (TIMESTAMPS_FOR_MEDIAN - 1)

\* What check_and_update makes of a state, field by field.
Updated(s, header, t) ==
  LET h == s.last_verified_block + 1
      ring == s.block_timestamp_history
      start == IF StartsInterval(h) THEN header.time ELSE s.epoch_start_timestamp
      target == IF StartsInterval(h + 1)
                THEN from_next_work_required(header.bits, saturating_sub(header.time, start))
                ELSE s.next_block_target
  IN  t = HeaderVerificationState(s.network, h, target, start,
              [buffer |-> [ring.buffer EXCEPT ![ring.head + 1] = header.time],
               head |-> (ring.head + 1) % TIMESTAMPS_FOR_MEDIAN],
              s.total_accumulated_pow + work(header.bits))

\* Where an interval begins, and when, at the next height.
LEMMA NextInterval ==
  \A h \in Nat :
         /\ FirstOfInterval(h) \in Nat /\ FirstOfInterval(h) <= h
         /\ IF StartsInterval(h + 1) THEN FirstOfInterval(h + 1) = h + 1
            ELSE FirstOfInterval(h + 1) = FirstOfInterval(h)
\* A quotient and a remainder are unique.
<1>Remainder. ASSUME NEW n \in Nat \ {0}, NEW q \in Int, NEW r \in 0 .. (n - 1), NEW a \in Int, a = n * q + r
              PROVE  a % n = r
  <2> USE <1>Remainder
  <2>1. a % n \in 0 .. (n - 1) /\ a \div n \in Int /\ a = n * (a \div n) + (a % n)
    BY SMTT(60)
  <2> DEFINE p == a \div n
             s == a % n
  <2>2. p \in Int /\ s \in 0 .. (n - 1) /\ n * p + s = n * q + r
    BY <2>1
  <2> HIDE DEF p, s
  <2>3. s = r
    BY <2>2, SMTT(60)
  <2> QED
    BY <2>3 DEF s
\* The remainder of the next number.
<1>NextRemainder. ASSUME NEW n \in Nat \ {0}, NEW a \in Nat
                  PROVE  /\ a % n \in 0 .. (n - 1) /\ a % n <= a
                         /\ (a + 1) % n = 0 \/ (a + 1) % n = (a % n) + 1
  <2> DEFINE q == a \div n
             r == a % n
  <2>1. q \in Int /\ r \in 0 .. (n - 1) /\ a = n * q + r
    BY SMTT(60)
  <2>2. r <= a
    BY SMTT(60)
  <2> HIDE DEF q, r
  <2>3. CASE r = n - 1
    <3>1. a + 1 = n * (q + 1) + 0 /\ q + 1 \in Int /\ 0 \in 0 .. (n - 1) /\ a + 1 \in Int
      BY <2>1, <2>3, SMTT(60)
    <3>2. (a + 1) % n = 0
      BY <3>1, <1>Remainder
    <3> QED
      BY <2>1, <2>2, <3>2  DEF r
  <2>4. CASE r # n - 1
    <3>1. a + 1 = n * q + (r + 1) /\ r + 1 \in 0 .. (n - 1) /\ a + 1 \in Int
      BY <2>1, <2>4, SMTT(60)
    <3>2. (a + 1) % n = r + 1
      BY <2>1, <3>1, <1>Remainder, SMTT(60)
    <3> QED
      BY <2>1, <2>2, <3>2  DEF r
  <2> QED
    BY <2>3, <2>4
<1>main. ASSUME NEW h \in Nat
         PROVE  /\ FirstOfInterval(h) \in Nat /\ FirstOfInterval(h) <= h
                /\ IF StartsInterval(h + 1) THEN FirstOfInterval(h + 1) = h + 1
                   ELSE FirstOfInterval(h + 1) = FirstOfInterval(h)
  <2>1. difficulty_adjustment_interval \in Nat \ {0}
    BY HeaderAssumption
  <2> DEFINE r == h % difficulty_adjustment_interval
             s == (h + 1) % difficulty_adjustment_interval
  <2>2. r \in 0 .. (difficulty_adjustment_interval - 1) /\ r <= h /\ (s = 0 \/ s = r + 1)
    BY <2>1, <1>NextRemainder
  <2>3. /\ FirstOfInterval(h) = h - r /\ FirstOfInterval(h + 1) = (h + 1) - s
        /\ StartsInterval(h + 1) <=> s = 0
    BY DEF FirstOfInterval, StartsInterval
  <2> HIDE DEF r, s
  <2> QED
    BY <2>1, <2>2, <2>3, SMTT(60)
<1> QED
  BY <1>main

\* The conjuncts of FromChain.
StartFromChain(s, headers) == s.epoch_start_timestamp = BeganAt(headers, s.last_verified_block)
RingFromChain(s, headers) ==
  \A i \in 1 .. TIMESTAMPS_FOR_MEDIAN :
     s.block_timestamp_history.buffer
         [((s.block_timestamp_history.head - i) % TIMESTAMPS_FOR_MEDIAN) + 1]
       = TimeAt(headers, s.last_verified_block + 1 - i)
WorkFromChain(s, headers) == s.total_accumulated_pow = Total(WorkOf(headers))
TargetAt(headers, last) ==
  IF last <= Anchor.height THEN Anchor.next_target
  ELSE from_next_work_required(headers[last - Anchor.height].bits,
                               TimeAt(headers, last) - BeganAt(headers, last))
TargetFromChain(s, headers) ==
  s.next_block_target = TargetAt(headers, LastRetarget(s.last_verified_block))

\* A state that comes from the chain comes from it after the next header too.
LEMMA FromChainKept ==
  \A s, headers, header, t, u :
         /\ PowTyped(s, headers)
         /\ FromChain(s, headers)
         /\ header.time \in Nat
         /\ header.bits = s.next_block_target
         /\ t = check_and_update(s, header)
         /\ u = Append(headers, [time |-> header.time, bits |-> header.bits])
      => PowTyped(t, u) /\ FromChain(t, u)
\* The position i steps back in a ring of n.
<1>BackInRing. ASSUME NEW n \in Nat \ {0}, NEW a \in 0 .. (n - 1), NEW i \in 1 .. n
               PROVE  /\ (a - i) % n = IF a >= i THEN a - i ELSE (a - i) + n
                      /\ (a + 1) % n = IF a = n - 1 THEN 0 ELSE a + 1
  <2>1. (a - i) % n = IF a >= i THEN a - i ELSE (a - i) + n
    BY SMTT(60)
  <2>2. CASE a = n - 1
    BY <2>1, <2>2, SMTT(60)
  <2>3. CASE a # n - 1
    <3>1. a + 1 \in 0 .. (n - 1)
      BY <2>3, SMTT(60)
    <3>2. (a + 1) % n = a + 1
      BY <3>1, SMTT(60)
    <3> QED
      BY <2>1, <2>3, <3>2
  <2> QED
    BY <2>2, <2>3
\* So it moves when it wraps at the end of the buffer.
<1>RingMoves. ASSUME NEW n \in Nat \ {0}, NEW a \in 0 .. (n - 1), NEW b, b = (a + 1) % n
              PROVE  RingStep(n, a, b)
  <2> USE <1>RingMoves
  <2>1. b = IF a = n - 1 THEN 0 ELSE a + 1
    <3>1. 1 \in 1 .. n
      BY SMTT(60)
    <3> QED
      BY <3>1, <1>BackInRing
  <2>2. b \in 0 .. (n - 1)
    BY <2>1, SMTT(60)
  <2>3. (b - 1) % n = a
    <3>1. 1 \in 1 .. n
      BY SMTT(60)
    <3>2. (b - 1) % n = IF b >= 1 THEN b - 1 ELSE (b - 1) + n
      BY <2>2, <3>1, <1>BackInRing
    <3> QED
      BY <2>1, <3>2, SMTT(60)
  <2>4. ASSUME NEW i \in 2 .. n
        PROVE  (b - i) % n = (a - (i - 1)) % n /\ (a - (i - 1)) % n # a
               /\ (a - (i - 1)) % n \in 0 .. (n - 1)
    <3>1. i \in 1 .. n /\ i - 1 \in 1 .. n
      BY SMTT(60)
    <3>2. (b - i) % n = IF b >= i THEN b - i ELSE (b - i) + n
      BY <2>2, <3>1, <1>BackInRing
    <3>3. (a - (i - 1)) % n = IF a >= i - 1 THEN a - (i - 1) ELSE (a - (i - 1)) + n
      BY <3>1, <1>BackInRing
    <3> QED
      BY <2>1, <2>4, <3>2, <3>3, SMTT(60)
  <2> QED
    BY <2>2, <2>3, <2>4 DEF RingStep
\* check_and_update, for a state with exactly its fields.
<1>CheckAndUpdate. ASSUME NEW network, NEW height, NEW target, NEW start, NEW ring, NEW pow, NEW header, NEW s,
                          s = HeaderVerificationState(network, height, target, start, ring, pow)
                   PROVE  Updated(s, header, check_and_update(s, header))
  <2> USE <1>CheckAndUpdate
  <2> DEFINE h == height + 1
             ring2 == insert_timestamp(ring, header.time)
             start2 == IF StartsInterval(h) THEN header.time ELSE start
             target2 == IF ~StartsInterval(h + 1) THEN target
                        ELSE from_next_work_required(header.bits, saturating_sub(header.time, start2))
             verified == [s EXCEPT !.last_verified_block = @ + 1]
             timed == update_timestamps(verified, header.time)
             pow2 == pow + work(header.bits)
  <2>1. /\ s.network = network /\ s.last_verified_block = height /\ s.next_block_target = target
        /\ s.epoch_start_timestamp = start /\ s.block_timestamp_history = ring
        /\ s.total_accumulated_pow = pow
    BY DEF HeaderVerificationState
  <2>2. verified = HeaderVerificationState(network, h, target, start, ring, pow)
    BY SMTT(60) DEF HeaderVerificationState
  <2>3. timed = HeaderVerificationState(network, h, target, start2, ring2, pow)
    <3> HIDE DEF verified, h, ring2
    <3>1. /\ verified.last_verified_block = h /\ verified.epoch_start_timestamp = start
          /\ verified.block_timestamp_history = ring
      BY <2>2  DEF HeaderVerificationState
    <3>2. timed = [verified EXCEPT !.block_timestamp_history = ring2, !.epoch_start_timestamp = start2]
      BY <3>1 DEF update_timestamps, ring2
    <3> HIDE DEF timed, start2
    <3> QED
      BY <2>2, <3>2 DEF HeaderVerificationState
  <2>4. next_target(timed, header) = target2 /\ timed.total_accumulated_pow = pow
    <3> HIDE DEF timed, h, start2, ring2
    <3>1. /\ timed.last_verified_block = h /\ timed.epoch_start_timestamp = start2
          /\ timed.next_block_target = target /\ timed.total_accumulated_pow = pow
      BY <2>3  DEF HeaderVerificationState
    <3> QED
      BY <3>1 DEF next_target
  <2>5. check_and_update(s, header) = HeaderVerificationState(network, h, target2, start2, ring2, pow2)
    <3>1. check_and_update(s, header) =
              [timed EXCEPT !.next_block_target = target2, !.total_accumulated_pow = pow2]
      BY <2>4 DEF check_and_update
    <3> HIDE DEF timed, h, start2, ring2, target2, pow2
    <3> QED
      BY <2>3, <3>1 DEF HeaderVerificationState
  <2> QED
    BY <2>1, <2>5 DEF Updated, insert_timestamp
\* Targets and work are numbers; a negative timespan is clamped like a zero one.
<1>RetargetIs. ASSUME NEW bits \in Nat
               PROVE  /\ \A span \in Int : from_next_work_required(bits, span) \in Nat
                      /\ work(bits) \in Nat
                      /\ \A a \in Nat, b \in Nat :
                             from_next_work_required(bits, saturating_sub(a, b)) = from_next_work_required(bits, a - b)
  <2> DEFINE least == pow_target_timespan \div 4
             most == pow_target_timespan * 4
             actual(span) == IF span < least THEN least ELSE IF span > most THEN most ELSE span
             capped(a) == LET retarget == (bits * a) \div pow_target_timespan
                          IN  IF retarget > max_attainable_target THEN max_attainable_target ELSE retarget
  <2>1. pow_target_timespan \in Nat \ {0} /\ max_attainable_target \in Nat
    BY HeaderAssumption
  <2>2. least \in Nat /\ most \in Nat /\ least <= most
    BY <2>1, SMTT(60)
  <2>3. \A span : from_next_work_required(bits, span) = capped(actual(span))
    BY DEF from_next_work_required
  <2> HIDE DEF least, most
  <2>4. \A span \in Int : actual(span) \in Nat
    BY <2>2, SMTT(60)
  <2>5. ASSUME NEW a \in Nat PROVE capped(a) \in Nat
    <3>1. bits * a \in Nat
      BY SMTT(60)
    <3>2. (bits * a) \div pow_target_timespan \in Nat
      BY <2>1, <3>1, SMTT(60)
    <3> QED
      BY <2>1, <3>2
  <2>6. \A span \in Int : from_next_work_required(bits, span) \in Nat
    BY <2>3, <2>4, <2>5
  <2>7. work(bits) \in Nat
    BY <2>1, SMTT(60) DEF work
  <2>8. ASSUME NEW a \in Nat, NEW b \in Nat
        PROVE  from_next_work_required(bits, saturating_sub(a, b)) = from_next_work_required(bits, a - b)
    <3>1. actual(saturating_sub(a, b)) = actual(a - b)
      BY <2>2, SMTT(60) DEF saturating_sub
    <3> HIDE DEF actual, capped
    <3> QED
      BY <2>3, <3>1
  <2> QED
    BY <2>6, <2>7, <2>8
\* A header more says nothing else of the heights below it.
<1>TimesKept. ASSUME NEW headers \in Seq(Stamped), NEW header \in Stamped
              PROVE  /\ \A h \in Int : h <= Anchor.height + Len(headers) =>
                            TimeAt(Append(headers, header), h) = TimeAt(headers, h)
                     /\ \A h \in Nat : h <= Anchor.height + Len(headers) =>
                            BeganAt(Append(headers, header), h) = BeganAt(headers, h)
                     /\ TimeAt(Append(headers, header), Anchor.height + Len(headers) + 1) = header.time
  <2> DEFINE n == Len(headers)
             top == Anchor.height + n
  <2>1. n \in Nat /\ Anchor.height \in Nat
    BY HeaderAssumption, SMTT(60)
  <2>2. ASSUME NEW h \in Int, h <= top PROVE TimeAt(Append(headers, header), h) = TimeAt(headers, h)
    <3>1. CASE h > Anchor.height
      <4>1. h - Anchor.height \in 1 .. n
        BY <2>1, <2>2, <3>1, SMTT(60)
      <4>2. Append(headers, header)[h - Anchor.height] = headers[h - Anchor.height]
        BY <4>1, SMTT(60)
      <4> QED
        BY <4>2 DEF TimeAt
    <3>2. CASE ~(h > Anchor.height)
      BY <3>2 DEF TimeAt
    <3> QED
      BY <3>1, <3>2
  <2>3. ASSUME NEW h \in Nat, h <= top PROVE BeganAt(Append(headers, header), h) = BeganAt(headers, h)
    <3> DEFINE f == FirstOfInterval(h)
    <3>1. f \in Nat /\ f <= h
      BY NextInterval
    <3> HIDE DEF f
    <3>2. f \in Int /\ f <= top
      BY <2>1, <2>3, <3>1, SMTT(60)
    <3>3. TimeAt(Append(headers, header), f) = TimeAt(headers, f)
      BY <2>2, <3>2
    <3> QED
      BY <3>3 DEF BeganAt, f
  <2>4. TimeAt(Append(headers, header), top + 1) = header.time
    <3>1. top + 1 > Anchor.height /\ (top + 1) - Anchor.height = n + 1
      BY <2>1, SMTT(60)
    <3>2. Append(headers, header)[n + 1] = header
      BY SMTT(60)
    <3> QED
      BY <3>1, <3>2 DEF TimeAt
  <2> QED
    BY <2>2, <2>3, <2>4
\* The total of a list and one more number.
<1>TotalAppend. ASSUME NEW s \in Seq(Nat), NEW w \in Nat
                PROVE  Total(Append(s, w)) = Total(s) + w
  <2> DEFINE one == <<w>>
  <2>1. one \in Seq(Nat) /\ one # <<>> /\ Head(one) = w /\ Tail(one) = <<>> /\ <<>> \in Seq(Nat)
    BY SMTT(60)
  <2>2. Append(s, w) = s \o one
    BY SMTT(60)
  <2> HIDE DEF one
  <2>3. Total(Tail(one)) = 0
    BY <2>1, TotalTail
  <2>4. Total(one) = Head(one) + Total(Tail(one))
    BY <2>1, TotalTail
  <2>5. Total(one) = w
    BY <2>1, <2>3, <2>4, SMTT(60)
  <2>6. Total(s \o one) = Total(s) + Total(one)
    BY <2>1, TotalConcat
  <2> QED
    BY <2>2, <2>5, <2>6
\* The sum of the work grows by the work of the new header.
<1>WorkGrows. ASSUME NEW headers \in Seq(Stamped), NEW header \in Stamped
              PROVE  Total(WorkOf(Append(headers, header))) = Total(WorkOf(headers)) + work(header.bits)
  <2> DEFINE n == Len(headers)
             u == Append(headers, header)
             s == WorkOf(headers)
             t == WorkOf(u)
             w == work(header.bits)
  <2>1. /\ n \in Nat /\ DOMAIN headers = 1 .. n /\ DOMAIN u = 1 .. (n + 1)
        /\ u[n + 1] = header
        /\ \A i \in 1 .. n : u[i] = headers[i]
    BY SMTT(60)
  <2>2. w \in Nat /\ \A i \in 1 .. n : work(headers[i].bits) \in Nat
    <3>1. header.bits \in Nat
      BY DEF Stamped
    <3>2. ASSUME NEW i \in 1 .. n PROVE headers[i].bits \in Nat
      <4>1. headers[i] \in Stamped
        BY SMTT(60)
      <4> QED
        BY <4>1  DEF Stamped
    <3> QED
      BY <3>1, <3>2, <1>RetargetIs
  <2>3. s \in [1 .. n -> Nat] /\ t = [i \in 1 .. (n + 1) |-> work(u[i].bits)]
    BY <2>1, <2>2 DEF WorkOf
  <2>4. ASSUME NEW i \in 1 .. n PROVE t[i] = s[i]
    <3>1. i \in 1 .. (n + 1)
      BY <2>1, SMTT(60)
    <3> QED
      BY <2>1, <2>3, <3>1 DEF WorkOf
  <2>5. t[n + 1] = w
    <3>1. n + 1 \in 1 .. (n + 1)
      BY <2>1, SMTT(60)
    <3> QED
      BY <2>1, <2>3, <3>1
  <2>6. t = [i \in 1 .. (n + 1) |-> t[i]]
    BY <2>3
  <2> HIDE DEF n, u, s, t, w
  <2>7. s \in Seq(Nat) /\ Len(s) = n
    BY <2>1, <2>3, SMTT(60)
  <2>8. t = Append(s, w)
    <3> DEFINE v == Append(s, w)
    <3>1. v \in Seq(Nat) /\ Len(v) = n + 1 /\ v[n + 1] = w /\ \A i \in 1 .. n : v[i] = s[i]
      BY <2>1, <2>2, <2>7, SMTT(60)
    <3> HIDE DEF v
    <3>2. v = [i \in 1 .. (n + 1) |-> v[i]]
      BY <3>1, SeqIs
    <3>3. \A i \in 1 .. (n + 1) : v[i] = t[i]
      BY <2>1, <2>4, <2>5, <3>1, SMTT(60)
    <3>4. v = t
      BY <2>6, <3>2, <3>3
    <3> QED
      BY <3>4 DEF v
  <2>9. Total(Append(s, w)) = Total(s) + w
    BY <2>2, <2>7, <1>TotalAppend
  <2> QED
    BY <2>8, <2>9 DEF s, t, u, w
<1>main. ASSUME NEW s, NEW headers, PowTyped(s, headers), FromChain(s, headers),
                NEW header, header.time \in Nat, header.bits = s.next_block_target,
                NEW t, t = check_and_update(s, header),
                NEW u, u = Append(headers, [time |-> header.time, bits |-> header.bits])
         PROVE  PowTyped(t, u) /\ FromChain(t, u)
  <2> USE <1>main
  <2> DEFINE h == s.last_verified_block
             N == TIMESTAMPS_FOR_MEDIAN
             ring == s.block_timestamp_history
             start == IF StartsInterval(h + 1) THEN header.time ELSE s.epoch_start_timestamp
             target == IF StartsInterval(h + 2)
                       THEN from_next_work_required(header.bits, saturating_sub(header.time, start))
                       ELSE s.next_block_target
             buffer == [ring.buffer EXCEPT ![ring.head + 1] = header.time]
             head == (ring.head + 1) % N
             pow == s.total_accumulated_pow + work(header.bits)
             new == [time |-> header.time, bits |-> header.bits]
  <2>1. /\ Anchor.height \in Nat /\ N \in Nat \ {0} /\ difficulty_adjustment_interval \in Nat \ {0}
    <3>1. N \in Nat /\ N % 2 = 1
      BY HeaderAssumption
    <3>2. N # 0
      BY <3>1, SMTT(60)
    <3> QED
      BY <3>1, <3>2, HeaderAssumption
  <2>2. /\ headers \in Seq(Stamped) /\ h = Anchor.height + Len(headers)
        /\ s.next_block_target \in Nat /\ s.epoch_start_timestamp \in Nat
    BY DEF PowTyped
  <2>3. h \in Nat /\ Len(headers) \in Nat
    BY <2>1, <2>2, SMTT(60)
  <2>4. new \in Stamped
    BY <2>2  DEF Stamped
  <2>5. u \in Seq(Stamped) /\ Len(u) = Len(headers) + 1 /\ u[Len(headers) + 1] = new
        /\ \A i \in 1 .. Len(headers) : u[i] = headers[i]
    <3> HIDE DEF new
    <3>1. u = Append(headers, new)
      BY DEF new
    <3> QED
      BY <2>2, <2>4, <3>1, SMTT(60)
  <2>6. u = Append(headers, new)
    OBVIOUS
  <2>7. t = HeaderVerificationState(s.network, h + 1, target, start, [buffer |-> buffer, head |-> head], pow)
    <3>1. Updated(s, header, t)
      BY <1>CheckAndUpdate  DEF PowTyped
    <3>2. (h + 1) + 1 = h + 2
      BY <2>3, SMTT(60)
    <3> QED
      BY <3>1, <3>2 DEF Updated
  <2> HIDE DEF h, N, ring, start, target, buffer, head, pow, new
  <2>8. /\ t.network = s.network /\ t.last_verified_block = h + 1 /\ t.next_block_target = target
        /\ t.epoch_start_timestamp = start /\ t.total_accumulated_pow = pow
        /\ t.block_timestamp_history = [buffer |-> buffer, head |-> head]
    BY <2>7, SMTT(60) DEF HeaderVerificationState
  <2>9. t.block_timestamp_history.buffer = buffer /\ t.block_timestamp_history.head = head
    BY <2>8, SMTT(60)
  <2>10. ring.head \in 0 .. (N - 1) /\ ring.buffer \in [1 .. N -> Nat]
    BY DEF PowTyped, ring, N
  <2>11. /\ head \in 0 .. (N - 1) /\ (head - 1) % N = ring.head
         /\ \A i \in 2 .. N : /\ (head - i) % N = (ring.head - (i - 1)) % N
                              /\ (ring.head - (i - 1)) % N # ring.head
                              /\ (ring.head - (i - 1)) % N \in 0 .. (N - 1)
    <3>1. RingStep(N, ring.head, head)
      BY <2>1, <2>10, <1>RingMoves DEF head
    <3> QED
      BY <3>1 DEF RingStep
  <2>12. start \in Nat /\ target \in Nat
    <3>1. start \in Nat
      BY <2>2 DEF start
    <3>2. saturating_sub(header.time, start) \in Int
      BY <3>1, SMTT(60) DEF saturating_sub
    <3>3. header.bits \in Nat
      BY <2>2
    <3>4. from_next_work_required(header.bits, saturating_sub(header.time, start)) \in Nat
      BY <3>2, <3>3, <1>RetargetIs
    <3> QED
      BY <2>2, <3>1, <3>4 DEF target
  <2>13. buffer \in [1 .. N -> Nat]
    BY <2>10 DEF buffer
  <2>14. PowTyped(t, u)
    <3>1. t = HeaderVerificationState(t.network, t.last_verified_block, t.next_block_target,
                  t.epoch_start_timestamp, t.block_timestamp_history, t.total_accumulated_pow)
      BY <2>7, <2>8
    <3>2. t.last_verified_block = Anchor.height + Len(u)
      BY <2>1, <2>2, <2>3, <2>5, <2>8, SMTT(60)
    <3>3. t.network \in DOMAIN network_to_id
      BY <2>8 DEF PowTyped
    <3> QED
      BY <2>5, <2>8, <2>9, <2>11, <2>12, <2>13, <3>1, <3>2, <3>3 DEF PowTyped, N
  <2>15. /\ \A k \in Int : k <= h => TimeAt(u, k) = TimeAt(headers, k)
         /\ \A k \in Nat : k <= h => BeganAt(u, k) = BeganAt(headers, k)
         /\ TimeAt(u, h + 1) = header.time
    <3>1. new.time = header.time
      BY DEF new
    <3> QED
      BY <2>2, <2>4, <2>6, <3>1, <1>TimesKept
  <2>16. BeganAt(u, h + 1) = start
    <3>1. CASE StartsInterval(h + 1)
      <4>1. FirstOfInterval(h + 1) = h + 1
        BY <2>3, <3>1, NextInterval
      <4>2. h + 1 > Anchor.height
        BY <2>1, <2>2, <2>3, SMTT(60)
      <4> QED
        BY <2>15, <3>1, <4>1, <4>2 DEF BeganAt, start
    <3>2. CASE ~StartsInterval(h + 1)
      <4>1. FirstOfInterval(h + 1) = FirstOfInterval(h)
        BY <2>3, <3>2, NextInterval
      <4>2. h <= h
        BY <2>3, SMTT(60)
      <4>3. BeganAt(u, h + 1) = BeganAt(headers, h)
        BY <2>3, <2>15, <4>1, <4>2 DEF BeganAt
      <4>4. s.epoch_start_timestamp = BeganAt(headers, h)
        BY DEF FromChain, h
      <4> QED
        BY <3>2, <4>3, <4>4 DEF start
    <3> QED
      BY <3>1, <3>2
  <2>17. StartFromChain(t, u)
    BY <2>8, <2>16 DEF StartFromChain
  <2>18. WorkFromChain(t, u)
    <3>1. new.bits = header.bits
      BY DEF new
    <3>2. Total(WorkOf(u)) = Total(WorkOf(headers)) + work(new.bits)
      BY <2>2, <2>4, <2>6, <1>WorkGrows
    <3>3. s.total_accumulated_pow = Total(WorkOf(headers))
      BY DEF FromChain
    <3> QED
      BY <2>8, <3>1, <3>2, <3>3 DEF WorkFromChain, pow
  <2>19. RingFromChain(t, u)
    <3>1. ASSUME NEW i \in 1 .. N PROVE buffer[((head - i) % N) + 1] = TimeAt(u, (h + 1) + 1 - i)
      <4>1. CASE i = 1
        <5>1. (head - i) % N = ring.head /\ (h + 1) + 1 - i = h + 1 /\ ring.head + 1 \in 1 .. N
          BY <2>1, <2>3, <2>10, <2>11, <4>1, SMTT(60)
        <5>2. buffer[ring.head + 1] = header.time
          BY <2>10, <5>1 DEF buffer
        <5> QED
          BY <2>15, <5>1, <5>2
      <4>2. CASE i # 1
        <5> DEFINE k == (ring.head - (i - 1)) % N
        <5>1. i \in 2 .. N /\ i - 1 \in 1 .. N
          BY <2>1, <4>2, SMTT(60)
        <5>2. (head - i) % N = k /\ k # ring.head /\ k \in 0 .. (N - 1)
          BY <2>11, <5>1
        <5>3. ring.buffer[k + 1] = TimeAt(headers, h + 1 - (i - 1))
          BY <5>1 DEF FromChain, ring, h, N
        <5> HIDE DEF k
        <5>4. buffer[k + 1] = ring.buffer[k + 1]
          <6>1. k + 1 \in 1 .. N /\ k + 1 # ring.head + 1
            BY <2>1, <2>10, <5>2, SMTT(60)
          <6> QED
            BY <2>10, <6>1 DEF buffer
        <5>5. h + 1 - (i - 1) = (h + 1) + 1 - i /\ (h + 1) + 1 - i <= h /\ (h + 1) + 1 - i \in Int
          BY <2>1, <2>3, <5>1, SMTT(60)
        <5>6. TimeAt(u, (h + 1) + 1 - i) = TimeAt(headers, (h + 1) + 1 - i)
          BY <2>15, <5>5
        <5> QED
          BY <5>2, <5>3, <5>4, <5>5, <5>6
      <4> QED
        BY <4>1, <4>2
    <3> QED
      BY <2>8, <2>9, <3>1 DEF RingFromChain, N
  <2>20. TargetFromChain(t, u)
    <3>1. LastRetarget(h + 1) = FirstOfInterval(h + 2) - 1 /\ LastRetarget(h) = FirstOfInterval(h + 1) - 1
      <4>1. (h + 1) + 1 = h + 2
        BY <2>3, SMTT(60)
      <4> QED
        BY <4>1 DEF LastRetarget
    <3>2. CASE StartsInterval(h + 2)
      <4>1. FirstOfInterval(h + 2) = h + 2
        <5>1. (h + 1) + 1 = h + 2 /\ h + 1 \in Nat
          BY <2>3, SMTT(60)
        <5> QED
          BY <3>2, <5>1, NextInterval
      <4>2. LastRetarget(h + 1) = h + 1 /\ ~(h + 1 <= Anchor.height)
            /\ (h + 1) - Anchor.height = Len(headers) + 1
        BY <2>1, <2>2, <2>3, <3>1, <4>1, SMTT(60)
      <4>3. u[(h + 1) - Anchor.height].bits = header.bits
        BY <2>5, <4>2, SMTT(60) DEF new
      <4>4. TargetAt(u, LastRetarget(h + 1)) = from_next_work_required(header.bits, header.time - start)
        BY <2>15, <2>16, <4>2, <4>3 DEF TargetAt
      <4>5. from_next_work_required(header.bits, saturating_sub(header.time, start)) =
                from_next_work_required(header.bits, header.time - start)
        <5>1. header.bits \in Nat
          BY <2>2
        <5>2. \A a \in Nat, b \in Nat :
                  from_next_work_required(header.bits, saturating_sub(a, b)) =
                      from_next_work_required(header.bits, a - b)
          BY <5>1, <1>RetargetIs
        <5> QED
          BY <2>12, <5>2
      <4> QED
        BY <2>8, <3>2, <4>4, <4>5 DEF TargetFromChain, target
    <3>3. CASE ~StartsInterval(h + 2)
      <4> DEFINE last == LastRetarget(h)
      <4>1. FirstOfInterval(h + 2) = FirstOfInterval(h + 1)
        <5>1. (h + 1) + 1 = h + 2 /\ h + 1 \in Nat
          BY <2>3, SMTT(60)
        <5>2. ~StartsInterval((h + 1) + 1)
          BY <3>3, <5>1
        <5>3. FirstOfInterval((h + 1) + 1) = FirstOfInterval(h + 1)
          BY <5>1, <5>2, NextInterval
        <5> QED
          BY <5>1, <5>3
      <4>2. LastRetarget(h + 1) = last
        BY <3>1, <4>1
      <4>3. last \in Int /\ last <= h
        <5>1. h + 1 \in Nat
          BY <2>3, SMTT(60)
        <5>2. FirstOfInterval(h + 1) \in Nat /\ FirstOfInterval(h + 1) <= h + 1
          BY <5>1, NextInterval
        <5> QED
          BY <2>3, <3>1, <5>2, SMTT(60)
      <4>4. s.next_block_target = TargetAt(headers, last)
        BY DEF FromChain, TargetAt, h
      <4> HIDE DEF last
      <4>5. TargetAt(u, last) = TargetAt(headers, last)
        <5>1. CASE last <= Anchor.height
          BY <5>1 DEF TargetAt
        <5>2. CASE ~(last <= Anchor.height)
          <6>1. last \in Nat /\ last - Anchor.height \in 1 .. Len(headers)
            BY <2>1, <2>2, <2>3, <4>3, <5>2, SMTT(60)
          <6>2. u[last - Anchor.height] = headers[last - Anchor.height]
            BY <2>5, <6>1
          <6>3. TimeAt(u, last) = TimeAt(headers, last) /\ BeganAt(u, last) = BeganAt(headers, last)
            BY <2>15, <4>3, <6>1
          <6> QED
            BY <5>2, <6>2, <6>3 DEF TargetAt
        <5> QED
          BY <5>1, <5>2
      <4> QED
        BY <2>8, <3>3, <4>2, <4>4, <4>5 DEF TargetFromChain, target
    <3> QED
      BY <3>2, <3>3
  <2>21. FromChain(t, u)
    BY <2>17, <2>18, <2>19, <2>20 DEF FromChain, StartFromChain, RingFromChain, WorkFromChain,
       TargetFromChain, TargetAt
  <2> QED
    BY <2>14, <2>21
<1> QED
  BY <1>main

\* The state an anchor starts comes from the chain of no headers.
LEMMA FromChainInit ==
  PowTyped(init(Anchor), <<>>) /\ FromChain(init(Anchor), <<>>)
<1> DEFINE s == init(Anchor)
           N == TIMESTAMPS_FOR_MEDIAN
           h == Anchor.height
<1>1. /\ h \in Nat /\ N \in Nat \ {0} /\ Anchor.next_target \in Nat /\ Anchor.epoch_start_timestamp \in Nat
      /\ Anchor.network \in DOMAIN network_to_id
  <2>1. N \in Nat /\ N % 2 = 1
    BY HeaderAssumption
  <2>2. N # 0
    BY <2>1, SMTT(60)
  <2>3. Anchor.next_target \in Nat
    BY HeaderAssumption, SMTT(60)
  <2> QED
    BY <2>1, <2>2, <2>3, HeaderAssumption
<1>2. s = HeaderVerificationState(Anchor.network, h, Anchor.next_target, Anchor.epoch_start_timestamp,
                                  EmptyTimestamps, 0)
  BY DEF init
<1> HIDE DEF s
<1>3. /\ s.network = Anchor.network /\ s.last_verified_block = h
      /\ s.next_block_target = Anchor.next_target
      /\ s.epoch_start_timestamp = Anchor.epoch_start_timestamp
      /\ s.block_timestamp_history = EmptyTimestamps /\ s.total_accumulated_pow = 0
  BY <1>2  DEF HeaderVerificationState
<1>4. /\ EmptyTimestamps.buffer = [i \in 1 .. N |-> 0] /\ EmptyTimestamps.head = 0
      /\ EmptyTimestamps = [buffer |-> EmptyTimestamps.buffer, head |-> EmptyTimestamps.head]
  BY DEF EmptyTimestamps
<1>5. <<>> \in Seq(Stamped) /\ Len(<<>>) = 0 /\ h = h + Len(<<>>)
  BY <1>1, SMTT(60)
<1>6. EmptyTimestamps.buffer \in [1 .. N -> Nat] /\ EmptyTimestamps.head \in 0 .. (N - 1)
  BY <1>1, <1>4, SMTT(60)
<1>7. PowTyped(s, <<>>)
  <2>1. s = HeaderVerificationState(s.network, s.last_verified_block, s.next_block_target,
                s.epoch_start_timestamp, s.block_timestamp_history, s.total_accumulated_pow)
    BY <1>2, <1>3
  <2> QED
    BY <1>1, <1>3, <1>4, <1>5, <1>6, <2>1 DEF PowTyped
<1>8. StartFromChain(s, <<>>)
  <2>1. FirstOfInterval(h) \in Nat /\ FirstOfInterval(h) <= h
    BY <1>1, NextInterval
  <2>2. ~(FirstOfInterval(h) > h)
    BY <1>1, <2>1, SMTT(60)
  <2> QED
    BY <1>3, <2>2 DEF StartFromChain, BeganAt
<1>9. RingFromChain(s, <<>>)
  <2>1. ASSUME NEW i \in 1 .. N PROVE EmptyTimestamps.buffer[((0 - i) % N) + 1] = TimeAt(<<>>, h + 1 - i)
    <3>1. (0 - i) % N \in 0 .. (N - 1)
      BY <1>1, SMTT(60)
    <3>2. ((0 - i) % N) + 1 \in 1 .. N
      BY <1>1, <3>1, SMTT(60)
    <3>3. ~(h + 1 - i > h)
      BY <1>1, SMTT(60)
    <3> QED
      BY <1>4, <3>2, <3>3 DEF TimeAt
  <2> QED
    BY <1>3, <1>4, <2>1 DEF RingFromChain
<1>10. WorkFromChain(s, <<>>)
  <2>1. WorkOf(<<>>) = <<>> /\ <<>> \in Seq(Nat)
    BY SMTT(60) DEF WorkOf
  <2>2. Total(<<>>) = 0
    BY <2>1, TotalTail
  <2> QED
    BY <1>3, <2>1, <2>2 DEF WorkFromChain
<1>11. TargetFromChain(s, <<>>)
  <2>1. h + 1 \in Nat
    BY <1>1, SMTT(60)
  <2>2. FirstOfInterval(h + 1) \in Nat /\ FirstOfInterval(h + 1) <= h + 1
    BY <2>1, NextInterval
  <2>3. LastRetarget(h) <= h
    BY <1>1, <2>2, SMTT(60) DEF LastRetarget
  <2> QED
    BY <1>3, <2>3 DEF TargetFromChain, TargetAt
<1>12. FromChain(s, <<>>)
  BY <1>8, <1>9, <1>10, <1>11 DEF FromChain, StartFromChain, RingFromChain, WorkFromChain,
     TargetFromChain, TargetAt
<1> QED
  BY <1>7, <1>12 DEF s

\* The stored form of a state decodes to it.
LEMMA StateDecodes ==
  ASSUME NEW s, NEW headers, PowTyped(s, headers)
  PROVE  Decodes(into_delegate(s)) /\ from_delegate(into_delegate(s)) = s
<1> DEFINE d == into_delegate(s)
<1>1. PICK n \in DOMAIN network_to_id : s.network = n
  BY DEF PowTyped
<1>2. DOMAIN network_to_id = {"bitcoin", "testnet", "signet", "regtest"}
  BY DEF network_to_id
<1>3. \A m \in DOMAIN network_to_id : network_to_id[m] = network_to_id[n] => m = n
  BY <1>2, SMTT(60) DEF network_to_id
<1>4. network_from_id(network_to_id[n]) = n
  BY <1>3 DEF network_from_id
<1>5. s = HeaderVerificationState(s.network, s.last_verified_block, s.next_block_target,
              s.epoch_start_timestamp, s.block_timestamp_history, s.total_accumulated_pow)
  BY DEF PowTyped
<1>6. d = HeaderVerificationState(network_to_id[n], s.last_verified_block, s.next_block_target,
              s.epoch_start_timestamp, s.block_timestamp_history, s.total_accumulated_pow)
  BY <1>1, <1>5, SMTT(60) DEF HeaderVerificationState, into_delegate
<1> HIDE DEF d
<1>7. d.network = network_to_id[n] /\ d.block_timestamp_history = s.block_timestamp_history
  BY <1>6  DEF HeaderVerificationState
<1>8. Decodes(d)
  <2>1. s.block_timestamp_history.head < TIMESTAMPS_FOR_MEDIAN
    <3>1. TIMESTAMPS_FOR_MEDIAN \in Nat /\ s.block_timestamp_history.head \in 0 .. (TIMESTAMPS_FOR_MEDIAN - 1)
      BY HeaderAssumption DEF PowTyped
    <3> QED
      BY <3>1, SMTT(60)
  <2> QED
    BY <1>7, <2>1 DEF Decodes
<1>9. from_delegate(d) = s
  <2>1. network_from_id(d.network) = s.network
    BY <1>1, <1>4, <1>7
  <2>2. [d EXCEPT !.network = s.network] = s
    BY <1>5, <1>6, SMTT(60) DEF HeaderVerificationState
  <2> QED
    BY <2>1, <2>2 DEF from_delegate
<1> QED
  BY <1>8, <1>9 DEF d
==============================================================================
