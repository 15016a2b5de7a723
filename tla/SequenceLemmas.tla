--------------------------- MODULE SequenceLemmas ---------------------------
(***************************************************************************)
(* Induction over the natural numbers and over sequences, and with it what *)
(* the recursive operators on sequences compute, for every sequence.       *)
(*                                                                         *)
(* The induction rules are stated with a set where the library has an      *)
(* operator parameter: a set can be instantiated by a definition of its    *)
(* own in every proof.  They rest on one fact of the library, that < on    *)
(* the natural numbers is well-founded.                                    *)
(***************************************************************************)
EXTENDS Integers, Sequences, SequencesExt, SequenceOps, SequenceTheorems,
        WellFoundedInduction, TLAPS


(* A set of natural numbers that is not empty has a least one.             *)
LEMMA LeastOf ==
  ASSUME NEW T, T \subseteq Nat, T # {}
  PROVE  \E x \in T : \A y \in T : ~(y < x)
<1>1. IsWellFoundedOn(OpToRel(<, Nat), Nat)
  BY NatLessThanWellFounded
<1>2. \E x \in T : \A y \in T : ~ (<<y, x>> \in OpToRel(<, Nat))
  BY <1>1, WFMin
<1>3. \A x \in Nat, y \in Nat : y < x => <<y, x>> \in OpToRel(<, Nat)
  BY DEF OpToRel
<1> QED
  BY <1>2, <1>3

(* Induction over the natural numbers, with a set for the predicate.       *)
LEMMA NatSetInduction ==
  ASSUME NEW S, 0 \in S, \A n \in Nat : n \in S => n + 1 \in S
  PROVE  Nat \subseteq S
<1> SUFFICES ASSUME NEW n \in Nat, n \notin S PROVE FALSE
  OBVIOUS
<1> DEFINE T == Nat \ S
<1>1. PICK x \in T : \A y \in T : ~(y < x)
  <2>1. n \in T
    OBVIOUS
  <2>2. T \subseteq Nat
    OBVIOUS
  <2> HIDE DEF T
  <2> QED
    BY <2>1, <2>2, LeastOf
<1>2. x # 0
  OBVIOUS
<1>3. x - 1 \in Nat /\ x - 1 < x
  BY <1>2
<1>4. x - 1 \in S
  BY <1>1, <1>3
<1> QED
  BY <1>3, <1>4

(* Induction over sequences that grow at the end.                          *)
LEMMA SeqSetInduction ==
  ASSUME NEW A, NEW P, <<>> \in P,
         \A s \in Seq(A), e \in A : s \in P => Append(s, e) \in P
  PROVE  Seq(A) \subseteq P
<1> DEFINE N == {n \in Nat : \A s \in Seq(A) : Len(s) = n => s \in P}
<1>1. 0 \in N
  OBVIOUS
<1>2. ASSUME NEW n \in Nat, n \in N
      PROVE  n + 1 \in N
  <2> SUFFICES ASSUME NEW s \in Seq(A), Len(s) = n + 1
               PROVE  s \in P
    OBVIOUS
  <2> DEFINE t == SubSeq(s, 1, n)
             e == s[n + 1]
  <2>1. t \in Seq(A) /\ Len(t) = n /\ e \in A
    OBVIOUS
  <2>2. s = Append(t, e)
    OBVIOUS
  <2>3. t \in P
    BY <1>2, <2>1
  <2> QED
    BY <2>1, <2>2, <2>3
<1>3. Nat \subseteq N
  <2> HIDE DEF N
  <2> QED
    BY <1>1, <1>2, NatSetInduction
<1> QED
  BY <1>3
-----------------------------------------------------------------------------
(* A function defined by its value at 0 and a step from i - 1 to i exists. *)

Steps(g, b, n, step) == g[0] = b /\ \A i \in 1..n : g[i] = step[i][g[i - 1]]

(* A function on 0..n given by its first value and by what each step does  *)
(* to the value before exists.                                             *)
LEMMA StepsExist ==
  ASSUME NEW T, NEW b \in T, NEW n \in Nat, NEW step \in [1..n -> [T -> T]]
  PROVE  \E g \in [0..n -> T] : Steps(g, b, n, step)
<1> USE DEF Steps
<1> DEFINE K == {k \in Nat : k <= n =>
                   \E g \in [0..k -> T] :
                     g[0] = b /\ \A i \in 1..k : g[i] = step[i][g[i - 1]]}
<1>1. 0 \in K
  <2> DEFINE g == [i \in 0..0 |-> b]
  <2>1. g \in [0..0 -> T] /\ g[0] = b /\ \A i \in 1..0 : g[i] = step[i][g[i - 1]]
    OBVIOUS
  <2> QED
    BY <2>1
<1>2. ASSUME NEW k \in Nat, k \in K
      PROVE  k + 1 \in K
  <2> SUFFICES ASSUME k + 1 <= n
               PROVE  \E g \in [0..(k + 1) -> T] :
                        g[0] = b /\ \A i \in 1..(k + 1) : g[i] = step[i][g[i - 1]]
    OBVIOUS
  <2>1. PICK h \in [0..k -> T] :
          h[0] = b /\ \A i \in 1..k : h[i] = step[i][h[i - 1]]
    BY <1>2
  <2> DEFINE g == [i \in 0..(k + 1) |->
                     IF i = k + 1 THEN step[k + 1][h[k]] ELSE h[i]]
  <2>2. h[k] \in T /\ k + 1 \in 1..n
    OBVIOUS
  <2>3. step[k + 1][h[k]] \in T
    BY <2>2
  <2>4. g \in [0..(k + 1) -> T]
    BY <2>3
  <2>5. g[0] = b
    BY <2>1
  <2>6. ASSUME NEW i \in 1..(k + 1)
        PROVE  g[i] = step[i][g[i - 1]]
    <3>1. CASE i = k + 1
      <4>1. g[k + 1] = step[k + 1][h[k]] /\ g[k] = h[k]
        OBVIOUS
      <4>2. k + 1 - 1 = k
        OBVIOUS
      <4> HIDE DEF g
      <4> QED
        BY <3>1, <4>1, <4>2
    <3>2. CASE i # k + 1
      BY <2>1, <3>2
    <3> QED
      BY <3>1, <3>2
  <2> HIDE DEF g
  <2> QED
    BY <2>4, <2>5, <2>6
<1>3. Nat \subseteq K
  <2> HIDE DEF K
  <2> QED
    BY <1>1, <1>2, NatSetInduction
<1> QED
  BY <1>3

\* Two functions that start alike and step alike are alike.
StepAlike(f, g, n) ==
  f[0] = g[0] /\ \A i \in 1..n : f[i - 1] = g[i - 1] => f[i] = g[i]
Alike(f, g, n) == \A i \in 0..n : f[i] = g[i]

(* Two functions that begin alike and step alike are alike.                *)
LEMMA SameSteps ==
  ASSUME NEW n \in Nat, NEW f, NEW g, StepAlike(f, g, n)
  PROVE  Alike(f, g, n)
<1> USE DEF StepAlike, Alike
<1> DEFINE K == {k \in Nat : k <= n => f[k] = g[k]}
<1>1. 0 \in K
  OBVIOUS
<1>2. ASSUME NEW k \in Nat, k \in K
      PROVE  k + 1 \in K
  <2> SUFFICES ASSUME k + 1 <= n
               PROVE  f[k + 1] = g[k + 1]
    OBVIOUS
  <2>1. k + 1 \in 1..n /\ k + 1 - 1 = k
    OBVIOUS
  <2>2. f[k] = g[k]
    BY <1>2
  <2> QED
    BY <2>1, <2>2
<1>3. Nat \subseteq K
  <2> HIDE DEF K
  <2> QED
    BY <1>1, <1>2, NatSetInduction
<1> QED
  BY <1>3
-----------------------------------------------------------------------------
(* Only.                                                                   *)

(* The recursive function Only is defined by really exists and obeys its   *)
(* equations.                                                              *)
LEMMA OnlyOfSteps ==
  ASSUME NEW A, NEW S, NEW s \in Seq(A)
  PROVE  /\ OnlyOf(s, S) \in [0..Len(s) -> Seq(A)]
         /\ OnlyOf(s, S)[0] = <<>>
         /\ \A i \in 1..Len(s) :
              OnlyOf(s, S)[i] = IF s[i] \in S THEN Append(OnlyOf(s, S)[i - 1], s[i])
                                ELSE OnlyOf(s, S)[i - 1]
<1> DEFINE n == Len(s)
           Body(g) == [i \in 0..n |->
                         IF i = 0 THEN <<>>
                         ELSE IF s[i] \in S THEN Append(g[i - 1], s[i]) ELSE g[i - 1]]
           step == [i \in 1..n |-> [t \in Seq(A) |->
                      IF s[i] \in S THEN Append(t, s[i]) ELSE t]]
           only == OnlyOf(s, S)
<1>1. n \in Nat /\ <<>> \in Seq(A) /\ \A i \in 1..n : s[i] \in A
  OBVIOUS
<1>2. step \in [1..n -> [Seq(A) -> Seq(A)]]
  BY <1>1
<1>3. PICK g \in [0..n -> Seq(A)] :
        g[0] = <<>> /\ \A i \in 1..n : g[i] = step[i][g[i - 1]]
  <2> DEFINE T == Seq(A)
             b == <<>>
  <2>1. n \in Nat /\ b \in T /\ step \in [1..n -> [T -> T]]
    BY <1>1, <1>2
  <2>2. \E g \in [0..n -> T] : Steps(g, b, n, step)
    <3> HIDE DEF step, n, T, b
    <3> QED
      BY <2>1, StepsExist
  <2> QED
    BY <2>2 DEF Steps
<1>4. \A i \in 1..n : g[i] = IF s[i] \in S THEN Append(g[i - 1], s[i]) ELSE g[i - 1]
  <2> SUFFICES ASSUME NEW i \in 1..n
               PROVE  g[i] = IF s[i] \in S THEN Append(g[i - 1], s[i]) ELSE g[i - 1]
    OBVIOUS
  <2>1. g[i - 1] \in Seq(A)
    OBVIOUS
  <2>2. step[i][g[i - 1]] = IF s[i] \in S THEN Append(g[i - 1], s[i]) ELSE g[i - 1]
    BY <2>1
  <2> QED
    BY <1>3, <2>2
<1>5. g = Body(g)
  <2>1. \A i \in 0..n : g[i] = Body(g)[i]
    <3> SUFFICES ASSUME NEW i \in 0..n
                 PROVE  g[i] = Body(g)[i]
      OBVIOUS
    <3>1. CASE i = 0
      BY <1>3, <3>1
    <3>2. CASE i # 0
      <4>1. i \in 1..n
        BY <3>2
      <4>2. Body(g)[i] = IF s[i] \in S THEN Append(g[i - 1], s[i]) ELSE g[i - 1]
        BY <4>1
      <4> QED
        BY <1>4, <4>1, <4>2
    <3> QED
      BY <3>1, <3>2
  <2>2. DOMAIN g = 0..n /\ Body(g) = [i \in 0..n |-> Body(g)[i]]
    OBVIOUS
  <2> HIDE DEF Body
  <2> QED
    BY <2>1, <2>2
<1>6. only = Body(only)
  BY <1>5 DEF OnlyOf
<1> HIDE DEF only
<1>7. only[0] = <<>>
  <2>1. Body(only)[0] = <<>>
    OBVIOUS
  <2> HIDE DEF Body
  <2> QED
    BY <1>6, <2>1
<1>8. \A i \in 1..n :
        only[i] = IF s[i] \in S THEN Append(only[i - 1], s[i]) ELSE only[i - 1]
  <2> SUFFICES ASSUME NEW i \in 1..n
               PROVE  only[i] = IF s[i] \in S THEN Append(only[i - 1], s[i]) ELSE only[i - 1]
    OBVIOUS
  <2>1. Body(only)[i] = IF s[i] \in S THEN Append(only[i - 1], s[i]) ELSE only[i - 1]
    OBVIOUS
  <2> HIDE DEF Body
  <2> QED
    BY <1>6, <2>1
<1>9. \A i \in 0..n : only[i] = g[i]
  <2>1. StepAlike(only, g, n)
    BY <1>3, <1>4, <1>7, <1>8 DEF StepAlike
  <2>2. Alike(only, g, n)
    BY <2>1, SameSteps
  <2> QED
    BY <2>2 DEF Alike
<1>10. only \in [0..n -> Seq(A)]
  <2>1. only = [i \in 0..n |-> only[i]]
    <3>1. Body(only) = [i \in 0..n |-> Body(only)[i]]
      OBVIOUS
    <3> HIDE DEF Body
    <3> QED
      BY <1>6, <3>1
  <2> QED
    BY <1>9, <2>1
<1> QED
  BY <1>7, <1>8, <1>10 DEF only

(* What Only makes of the empty sequence, of one element more and of two   *)
(* sequences joined.                                                       *)
LEMMA OnlyEmpty ==
  ASSUME NEW S
  PROVE  Only(<<>>, S) = <<>>
<1>1. ASSUME NEW s \in Seq({}), Len(s) = 0
      PROVE  Only(s, S) = <<>>
  <2>1. OnlyOf(s, S)[0] = <<>>
    BY OnlyOfSteps
  <2> QED
    BY <1>1, <2>1 DEF Only
<1>2. <<>> \in Seq({}) /\ Len(<<>>) = 0
  OBVIOUS
<1> QED
  BY <1>1, <1>2

LEMMA OnlyType ==
  ASSUME NEW A, NEW S, NEW s \in Seq(A)
  PROVE  Only(s, S) \in Seq(A)
<1>1. OnlyOf(s, S) \in [0..Len(s) -> Seq(A)] /\ Len(s) \in 0..Len(s)
  BY OnlyOfSteps
<1> QED
  BY <1>1 DEF Only

LEMMA OnlyAppend ==
  ASSUME NEW A, NEW S, NEW s \in Seq(A), NEW e \in A
  PROVE  Only(Append(s, e), S) = IF e \in S THEN Append(Only(s, S), e) ELSE Only(s, S)
<1> DEFINE t == Append(s, e)
           n == Len(s)
           f == OnlyOf(s, S)
           g == OnlyOf(t, S)
<1>1. n \in Nat /\ t \in Seq(A) /\ Len(t) = n + 1 /\ t[n + 1] = e
  OBVIOUS
<1>2. \A i \in 1..n : t[i] = s[i]
  OBVIOUS
<1>3. /\ f \in [0..n -> Seq(A)]
      /\ f[0] = <<>>
      /\ \A i \in 1..n : f[i] = IF s[i] \in S THEN Append(f[i - 1], s[i]) ELSE f[i - 1]
  BY OnlyOfSteps
<1>4. /\ g[0] = <<>>
      /\ \A i \in 1..(n + 1) : g[i] = IF t[i] \in S THEN Append(g[i - 1], t[i]) ELSE g[i - 1]
  <2>1. \A u \in Seq(A) : /\ OnlyOf(u, S)[0] = <<>>
                          /\ \A i \in 1..Len(u) :
                                OnlyOf(u, S)[i] = IF u[i] \in S
                                                  THEN Append(OnlyOf(u, S)[i - 1], u[i])
                                                  ELSE OnlyOf(u, S)[i - 1]
    BY OnlyOfSteps
  <2> HIDE DEF t, n
  <2> QED
    BY <1>1, <2>1
<1> HIDE DEF t, f, g, n
<1>5. StepAlike(f, g, n)
  <2>1. ASSUME NEW i \in 1..n, f[i - 1] = g[i - 1]
        PROVE  f[i] = g[i]
    <3>1. i \in 1..(n + 1) /\ t[i] = s[i]
      BY <1>1, <1>2
    <3>2. f[i] = IF s[i] \in S THEN Append(f[i - 1], s[i]) ELSE f[i - 1]
      BY <1>3
    <3>3. g[i] = IF t[i] \in S THEN Append(g[i - 1], t[i]) ELSE g[i - 1]
      BY <1>4, <3>1
    <3> QED
      BY <2>1, <3>1, <3>2, <3>3
  <2> QED
    BY <1>3, <1>4, <2>1 DEF StepAlike
<1>6. Alike(f, g, n)
  BY <1>1, <1>5, SameSteps
<1>7. f[n] = g[n] /\ f[n] \in Seq(A)
  BY <1>1, <1>3, <1>6 DEF Alike
<1>8. g[n + 1] = IF e \in S THEN Append(f[n], e) ELSE f[n]
  BY <1>1, <1>4, <1>7
<1>9. Only(s, S) = f[n] /\ Only(t, S) = g[n + 1]
  BY <1>1 DEF Only, f, g, n
<1> QED
  BY <1>7, <1>8, <1>9 DEF t

LEMMA OnlyConcat ==
  ASSUME NEW A, NEW S, NEW s \in Seq(A), NEW t \in Seq(A)
  PROVE  Only(s \o t, S) = Only(s, S) \o Only(t, S)
<1> DEFINE P == {u \in Seq(A) : Only(s \o u, S) = Only(s, S) \o Only(u, S)}
<1>1. <<>> \in P
  <2>1. s \o <<>> = s
    OBVIOUS
  <2>2. Only(s, S) \o <<>> = Only(s, S)
    <3>1. Only(s, S) \in Seq(A)
      BY OnlyType
    <3> QED
      BY <3>1
  <2>3. Only(<<>>, S) = <<>>
    BY OnlyEmpty
  <2>4. <<>> \in Seq(A)
    OBVIOUS
  <2> QED
    BY <2>1, <2>2, <2>3, <2>4, Zenon
<1>2. ASSUME NEW u \in Seq(A), NEW e \in A, u \in P
      PROVE  Append(u, e) \in P
  <2>1. s \o Append(u, e) = Append(s \o u, e) /\ s \o u \in Seq(A)
    OBVIOUS
  <2>2. /\ Only(s, S) \in Seq(A) /\ Only(u, S) \in Seq(A)
        /\ Only(Append(u, e), S) = IF e \in S THEN Append(Only(u, S), e) ELSE Only(u, S)
    BY OnlyType, OnlyAppend
  <2>3. Only(Append(s \o u, e), S) = IF e \in S THEN Append(Only(s \o u, S), e)
                                     ELSE Only(s \o u, S)
    <3>1. \A v \in Seq(A) : Only(Append(v, e), S) = IF e \in S THEN Append(Only(v, S), e)
                                                    ELSE Only(v, S)
      BY OnlyAppend
    <3> QED
      BY <2>1, <3>1, Zenon
  <2>4. Only(s \o u, S) = Only(s, S) \o Only(u, S)
    BY <1>2
  <2>5. Only(s, S) \o Append(Only(u, S), e) = Append(Only(s, S) \o Only(u, S), e)
    BY <2>2, SMTT(30)
  <2>6. Only(s \o Append(u, e), S) = Only(s, S) \o Only(Append(u, e), S)
    <3>1. CASE e \in S
      BY <2>1, <2>2, <2>3, <2>4, <2>5, <3>1, Zenon
    <3>2. CASE e \notin S
      BY <2>1, <2>2, <2>3, <2>4, <3>2, Zenon
    <3> QED
      BY <3>1, <3>2
  <2>7. Append(u, e) \in Seq(A)
    OBVIOUS
  <2> QED
    BY <2>6, <2>7, Zenon
<1>3. Seq(A) \subseteq P
  <2> HIDE DEF P
  <2> QED
    BY <1>1, <1>2, SeqSetInduction
<1> QED
  BY <1>3

\* OnlyConcat as a relation, for the steps where the terms are large.
Splits(S, s, t) == Only(s \o t, S) = Only(s, S) \o Only(t, S)

LEMMA OnlySplits ==
  ASSUME NEW A, NEW S
  PROVE  \A s, t \in Seq(A) : Splits(S, s, t)
  BY OnlyConcat DEF Splits

\* What Only keeps, and when it keeps everything or nothing.
LEMMA OnlyKeeps ==
  ASSUME NEW A, NEW S, NEW s \in Seq(A)
  PROVE  /\ (\A i \in 1..Len(s) : s[i] \in S) => Only(s, S) = s
         /\ (\A i \in 1..Len(s) : s[i] \notin S) => Only(s, S) = <<>>
<1> DEFINE P == {u \in Seq(A) :
                   /\ (\A i \in 1..Len(u) : u[i] \in S) => Only(u, S) = u
                   /\ (\A i \in 1..Len(u) : u[i] \notin S) => Only(u, S) = <<>>}
<1>1. <<>> \in P
  <2>1. Only(<<>>, S) = <<>> /\ <<>> \in Seq(A)
    BY OnlyEmpty
  <2> QED
    BY <2>1, Zenon
<1>2. ASSUME NEW u \in Seq(A), NEW e \in A, u \in P
      PROVE  Append(u, e) \in P
  <2> DEFINE v == Append(u, e)
  <2>1. Only(v, S) = IF e \in S THEN Append(Only(u, S), e) ELSE Only(u, S)
    BY OnlyAppend
  <2>2. v \in Seq(A) /\ Len(v) = Len(u) + 1 /\ v[Len(v)] = e
        /\ \A i \in 1..Len(u) : v[i] = u[i]
    OBVIOUS
  <2> HIDE DEF v
  <2>4. ASSUME \A i \in 1..Len(v) : v[i] \in S
        PROVE  Only(v, S) = v
    <3>1. e \in S /\ \A i \in 1..Len(u) : u[i] \in S
      BY <2>2, <2>4
    <3> QED
      BY <1>2, <2>1, <3>1 DEF v
  <2>5. ASSUME \A i \in 1..Len(v) : v[i] \notin S
        PROVE  Only(v, S) = <<>>
    <3>1. e \notin S /\ \A i \in 1..Len(u) : u[i] \notin S
      BY <2>2, <2>5
    <3> QED
      BY <1>2, <2>1, <3>1
  <2> QED
    BY <2>2, <2>4, <2>5 DEF v
<1>3. Seq(A) \subseteq P
  <2> HIDE DEF P
  <2> QED
    BY <1>1, <1>2, SeqSetInduction
<1> QED
  BY <1>3

\* Two sets that agree on s keep the same of it.
LEMMA OnlySame ==
  ASSUME NEW A, NEW S, NEW T, NEW s \in Seq(A),
         \A i \in 1..Len(s) : s[i] \in S <=> s[i] \in T
  PROVE  Only(s, S) = Only(s, T)
<1> DEFINE P == {u \in Seq(A) : (\A i \in 1..Len(u) : u[i] \in S <=> u[i] \in T)
                                  => Only(u, S) = Only(u, T)}
<1>1. <<>> \in P
  BY OnlyEmpty
<1>2. ASSUME NEW u \in Seq(A), NEW e \in A, u \in P
      PROVE  Append(u, e) \in P
  <2> DEFINE v == Append(u, e)
  <2>1. v \in Seq(A) /\ Len(v) = Len(u) + 1 /\ v[Len(v)] = e
        /\ \A i \in 1..Len(u) : v[i] = u[i]
    OBVIOUS
  <2>2. /\ Only(v, S) = IF e \in S THEN Append(Only(u, S), e) ELSE Only(u, S)
        /\ Only(v, T) = IF e \in T THEN Append(Only(u, T), e) ELSE Only(u, T)
    BY OnlyAppend
  <2> HIDE DEF v
  <2>3. ASSUME \A i \in 1..Len(v) : v[i] \in S <=> v[i] \in T
        PROVE  Only(v, S) = Only(v, T)
    <3>1. (e \in S <=> e \in T) /\ \A i \in 1..Len(u) : u[i] \in S <=> u[i] \in T
      BY <2>1, <2>3
    <3>2. Only(u, S) = Only(u, T)
      BY <1>2, <3>1
    <3> QED
      BY <2>2, <3>1, <3>2
  <2> QED
    BY <2>1, <2>3 DEF v
<1>3. Seq(A) \subseteq P
  <2> HIDE DEF P
  <2> QED
    BY <1>1, <1>2, SeqSetInduction
<1> QED
  BY <1>3
-----------------------------------------------------------------------------
(* FlattenSeq.                                                             *)

FlattenOf(q) ==
  CHOOSE f : f = [i \in 1..Len(q) |-> IF i = 1 THEN q[i] ELSE f[i - 1] \o q[i]]

(* The recursive function the library defines FlattenSeq by exists and     *)
(* obeys its equations.                                                    *)
LEMMA FlattenOfSteps ==
  ASSUME NEW A, NEW q \in Seq(Seq(A)), q # <<>>
  PROVE  /\ FlattenOf(q) \in [1..Len(q) -> Seq(A)]
         /\ FlattenOf(q)[1] = q[1]
         /\ \A i \in 2..Len(q) : FlattenOf(q)[i] = FlattenOf(q)[i - 1] \o q[i]
         /\ FlattenSeq(q) = FlattenOf(q)[Len(q)]
<1> DEFINE n == Len(q)
           Body(g) == [i \in 1..n |-> IF i = 1 THEN q[i] ELSE g[i - 1] \o q[i]]
           step == [i \in 1..n |-> [t \in Seq(A) |-> t \o q[i]]]
           f == FlattenOf(q)
<1>1. n \in Nat \ {0} /\ <<>> \in Seq(A) /\ \A i \in 1..n : q[i] \in Seq(A)
  OBVIOUS
<1>2. step \in [1..n -> [Seq(A) -> Seq(A)]]
  BY <1>1
<1>3. PICK g \in [0..n -> Seq(A)] :
        g[0] = <<>> /\ \A i \in 1..n : g[i] = step[i][g[i - 1]]
  <2> DEFINE T == Seq(A)
             b == <<>>
  <2>1. n \in Nat /\ b \in T /\ step \in [1..n -> [T -> T]]
    BY <1>1, <1>2
  <2>2. \E g \in [0..n -> T] : Steps(g, b, n, step)
    <3> HIDE DEF step, n, T, b
    <3> QED
      BY <2>1, StepsExist
  <2> QED
    BY <2>2 DEF Steps
<1>4. \A i \in 1..n : g[i - 1] \in Seq(A) /\ q[i] \in Seq(A) /\ g[i] = g[i - 1] \o q[i]
  <2> SUFFICES ASSUME NEW i \in 1..n
               PROVE  g[i - 1] \in Seq(A) /\ q[i] \in Seq(A) /\ g[i] = g[i - 1] \o q[i]
    OBVIOUS
  <2>1. g[i - 1] \in Seq(A)
    OBVIOUS
  <2>2. step[i][g[i - 1]] = g[i - 1] \o q[i]
    BY <2>1
  <2> QED
    BY <1>1, <1>3, <2>1, <2>2
<1>5. g[1] = q[1]
  <2>1. 1 \in 1..n /\ 1 - 1 = 0
    BY <1>1
  <2>2. g[1] = g[1 - 1] \o q[1] /\ q[1] \in Seq(A)
    BY <1>4, <2>1
  <2>3. g[1] = <<>> \o q[1]
    BY <1>3, <2>1, <2>2
  <2> QED
    BY <2>2, <2>3
<1> DEFINE h == [i \in 1..n |-> g[i]]
<1>6. h = Body(h)
  <2>1. \A i \in 1..n : h[i] = Body(h)[i]
    <3> SUFFICES ASSUME NEW i \in 1..n
                 PROVE  h[i] = Body(h)[i]
      OBVIOUS
    <3>1. CASE i = 1
      BY <1>5, <3>1
    <3>2. CASE i # 1
      <4>1. i - 1 \in 1..n
        BY <3>2
      <4>2. h[i - 1] = g[i - 1] /\ h[i] = g[i]
        BY <4>1
      <4>3. Body(h)[i] = h[i - 1] \o q[i]
        <5> HIDE DEF h
        <5> QED
          BY <3>2
      <4> HIDE DEF h, Body
      <4> QED
        BY <1>4, <4>2, <4>3
    <3> QED
      BY <3>1, <3>2
  <2>2. h = [i \in 1..n |-> h[i]] /\ Body(h) = [i \in 1..n |-> Body(h)[i]]
    OBVIOUS
  <2> HIDE DEF Body, h
  <2> QED
    BY <2>1, <2>2
<1>7. f = Body(f)
  <2> HIDE DEF h
  <2> QED
    BY <1>6 DEF FlattenOf
<1>8. FlattenSeq(q) = f[n]
  BY <1>1 DEF FlattenSeq, FlattenOf
<1> HIDE DEF f, h
<1>9. f[1] = q[1] /\ \A i \in 2..n : f[i] = f[i - 1] \o q[i]
  <2>1. Body(f)[1] = q[1]
    BY <1>1
  <2>2. ASSUME NEW i \in 2..n
        PROVE  Body(f)[i] = f[i - 1] \o q[i]
    <3>1. i \in 1..n /\ i # 1
      OBVIOUS
    <3> QED
      BY <3>1, Zenon
  <2> HIDE DEF Body
  <2> QED
    BY <1>7, <2>1, <2>2, Zenon
<1>10. f = [i \in 1..n |-> f[i]]
  <2>1. Body(f) = [i \in 1..n |-> Body(f)[i]]
    OBVIOUS
  <2> HIDE DEF Body
  <2> QED
    BY <1>7, <2>1
<1>11. \A i \in 1..n : f[i] = g[i]
  <2> DEFINE K == {k \in Nat : k + 1 <= n => f[k + 1] = g[k + 1]}
  <2>1. 0 \in K
    BY <1>5, <1>9
  <2>2. ASSUME NEW k \in Nat, k \in K
        PROVE  k + 1 \in K
    <3> SUFFICES ASSUME k + 2 <= n
                 PROVE  f[k + 2] = g[k + 2]
      OBVIOUS
    <3> DEFINE j == k + 2
    <3>1. j \in 2..n /\ j \in 1..n /\ j - 1 = k + 1 /\ j = k + 2
      OBVIOUS
    <3> HIDE DEF j
    <3>2. f[j - 1] = g[j - 1]
      BY <2>2, <3>1
    <3>3. f[j] = f[j - 1] \o q[j] /\ g[j] = g[j - 1] \o q[j]
      BY <1>4, <1>9, <3>1, Zenon
    <3>4. f[j] = g[j]
      BY <3>2, <3>3, Zenon
    <3> QED
      BY <3>1, <3>4
  <2>3. Nat \subseteq K
    <3> HIDE DEF K
    <3> QED
      BY <2>1, <2>2, NatSetInduction
  <2> SUFFICES ASSUME NEW i \in 1..n
               PROVE  f[i] = g[i]
    OBVIOUS
  <2>4. i - 1 \in Nat /\ i - 1 + 1 = i
    OBVIOUS
  <2>5. i - 1 \in K
    BY <2>3, <2>4
  <2> QED
    BY <2>4, <2>5
<1>12. f \in [1..n -> Seq(A)]
  BY <1>10, <1>11
<1> QED
  BY <1>8, <1>9, <1>12 DEF f

(* What FlattenSeq makes of no sequence, of one more and of two sequences  *)
(* of sequences joined.                                                    *)
LEMMA FlattenEmpty == FlattenSeq(<<>>) = <<>>
  BY DEF FlattenSeq

LEMMA FlattenType ==
  ASSUME NEW A, NEW q \in Seq(Seq(A))
  PROVE  FlattenSeq(q) \in Seq(A)
<1>1. CASE q = <<>>
  <2>1. <<>> \in Seq(A)
    OBVIOUS
  <2> QED
    BY <1>1, <2>1, FlattenEmpty, Zenon
<1>2. CASE q # <<>>
  <2>1. Len(q) \in 1..Len(q)
    BY <1>2
  <2>2. FlattenOf(q) \in [1..Len(q) -> Seq(A)] /\ FlattenSeq(q) = FlattenOf(q)[Len(q)]
    BY <1>2, FlattenOfSteps, Zenon
  <2> QED
    BY <2>1, <2>2, Zenon
<1> QED
  BY <1>1, <1>2

LEMMA FlattenAppend ==
  ASSUME NEW A, NEW q \in Seq(Seq(A)), NEW x \in Seq(A)
  PROVE  FlattenSeq(Append(q, x)) = FlattenSeq(q) \o x
<1> DEFINE p == Append(q, x)
           n == Len(q)
           f == FlattenOf(q)
           g == FlattenOf(p)
<1>1. p \in Seq(Seq(A)) /\ p # <<>> /\ n \in Nat /\ Len(p) = n + 1 /\ p[n + 1] = x
      /\ \A i \in 1..n : p[i] = q[i]
  <2> DEFINE B == Seq(A)
  <2>1. q \in Seq(B) /\ x \in B
    OBVIOUS
  <2> HIDE DEF B
  <2>2. p \in Seq(B) /\ p # <<>> /\ n \in Nat /\ Len(p) = n + 1 /\ p[n + 1] = x
        /\ \A i \in 1..n : p[i] = q[i]
    BY <2>1
  <2> QED
    BY <2>2 DEF B
<1>2. /\ g[1] = p[1]
      /\ \A i \in 2..(n + 1) : g[i] = g[i - 1] \o p[i]
      /\ FlattenSeq(p) = g[n + 1]
  <2>1. \A u \in Seq(Seq(A)) : u # <<>> =>
           /\ FlattenOf(u)[1] = u[1]
           /\ \A i \in 2..Len(u) : FlattenOf(u)[i] = FlattenOf(u)[i - 1] \o u[i]
           /\ FlattenSeq(u) = FlattenOf(u)[Len(u)]
    BY FlattenOfSteps
  <2> HIDE DEF p, n
  <2> QED
    BY <1>1, <2>1
<1>3. CASE q = <<>>
  <2>1. n = 0
    BY <1>3
  <2>2. FlattenSeq(p) = x
    <3> HIDE DEF p, n, g
    <3> QED
      BY <1>1, <1>2, <2>1
  <2>3. FlattenSeq(q) = <<>>
    BY <1>3, FlattenEmpty
  <2>4. <<>> \o x = x
    OBVIOUS
  <2> QED
    BY <2>2, <2>3, <2>4
<1>4. CASE q # <<>>
  <2>1. /\ f[1] = q[1]
        /\ \A i \in 2..n : f[i] = f[i - 1] \o q[i]
        /\ FlattenSeq(q) = f[n]
    BY <1>4, FlattenOfSteps
  <2>2. n # 0
    BY <1>4
  <2> HIDE DEF p, n, f, g
  <2> DEFINE K == {k \in Nat : k + 1 <= n => f[k + 1] = g[k + 1]}
  <2>3. 0 \in K
    BY <1>1, <1>2, <2>1
  <2>4. ASSUME NEW k \in Nat, k \in K
        PROVE  k + 1 \in K
    <3> SUFFICES ASSUME k + 2 <= n
                 PROVE  f[k + 2] = g[k + 2]
      OBVIOUS
    <3> DEFINE j == k + 2
    <3>1. j \in 2..n /\ j \in 2..(n + 1) /\ j \in 1..n /\ j - 1 = k + 1 /\ j = k + 2
      BY <1>1
    <3> HIDE DEF j
    <3>2. f[j - 1] = g[j - 1] /\ p[j] = q[j]
      BY <1>1, <2>4, <3>1
    <3>3. f[j] = f[j - 1] \o q[j] /\ g[j] = g[j - 1] \o p[j]
      BY <1>2, <2>1, <3>1, Zenon
    <3>4. f[j] = g[j]
      BY <3>2, <3>3, Zenon
    <3> QED
      BY <3>1, <3>4
  <2>5. Nat \subseteq K
    <3> HIDE DEF K
    <3> QED
      BY <2>3, <2>4, NatSetInduction
  <2>6. f[n] = g[n]
    <3>1. n - 1 \in Nat /\ n - 1 + 1 = n
      BY <1>1, <2>2
    <3>2. n - 1 \in K
      BY <2>5, <3>1
    <3> QED
      BY <3>1, <3>2
  <2> DEFINE j == n + 1
  <2>7. j \in 2..(n + 1) /\ j - 1 = n /\ p[j] = x /\ FlattenSeq(p) = g[j]
    BY <1>1, <1>2, <2>2
  <2> HIDE DEF j
  <2>8. g[j] = g[j - 1] \o p[j]
    BY <1>2, <2>7, Zenon
  <2>9. FlattenSeq(p) = FlattenSeq(q) \o x
    BY <2>1, <2>6, <2>7, <2>8, Zenon
  <2> QED
    BY <2>9 DEF p
<1> QED
  BY <1>3, <1>4

\* Stated through an operator of its own, so that a proof can cite it for one
\* triple of sequences.
Assoc(a, b, c) == (a \o b) \o c = a \o (b \o c)

LEMMA ConcatAssocAll ==
  ASSUME NEW A
  PROVE  \A a, b, c \in Seq(A) : Assoc(a, b, c)
<1> SUFFICES ASSUME NEW a \in Seq(A), NEW b \in Seq(A), NEW c \in Seq(A)
             PROVE  (a \o b) \o c = a \o (b \o c)
  BY DEF Assoc
<1> QED
  OBVIOUS

LEMMA ConcatAssoc ==
  ASSUME NEW A, NEW a \in Seq(A), NEW b \in Seq(A), NEW c \in Seq(A)
  PROVE  (a \o b) \o c = a \o (b \o c) /\ a \o b \in Seq(A) /\ b \o c \in Seq(A)
<1>1. a \o b \in Seq(A) /\ b \o c \in Seq(A)
  OBVIOUS
<1>2. Assoc(a, b, c)
  BY ConcatAssocAll
<1> QED
  BY <1>1, <1>2, Zenon DEF Assoc

LEMMA FlattenConcat ==
  ASSUME NEW A, NEW p \in Seq(Seq(A)), NEW q \in Seq(Seq(A))
  PROVE  FlattenSeq(p \o q) = FlattenSeq(p) \o FlattenSeq(q)
<1> DEFINE P == {u \in Seq(Seq(A)) : FlattenSeq(p \o u) = FlattenSeq(p) \o FlattenSeq(u)}
<1>1. <<>> \in P
  <2>1. p \o <<>> = p /\ <<>> \in Seq(Seq(A))
    OBVIOUS
  <2>2. FlattenSeq(p) \o <<>> = FlattenSeq(p)
    <3>1. FlattenSeq(p) \in Seq(A)
      BY FlattenType
    <3> QED
      BY <3>1
  <2> QED
    BY <2>1, <2>2, FlattenEmpty, Zenon
<1>2. ASSUME NEW u \in Seq(Seq(A)), NEW x \in Seq(A), u \in P
      PROVE  Append(u, x) \in P
  <2>1. p \o Append(u, x) = Append(p \o u, x) /\ p \o u \in Seq(Seq(A))
        /\ Append(u, x) \in Seq(Seq(A))
    OBVIOUS
  <2>2. \A v \in Seq(Seq(A)) : FlattenSeq(Append(v, x)) = FlattenSeq(v) \o x
    BY FlattenAppend
  <2>3. FlattenSeq(p) \in Seq(A) /\ FlattenSeq(u) \in Seq(A)
    BY FlattenType
  <2>4. (FlattenSeq(p) \o FlattenSeq(u)) \o x = FlattenSeq(p) \o (FlattenSeq(u) \o x)
    <3> DEFINE a == FlattenSeq(p)
               b == FlattenSeq(u)
    <3>1. a \in Seq(A) /\ b \in Seq(A)
      BY <2>3
    <3> HIDE DEF a, b
    <3>2. (a \o b) \o x = a \o (b \o x)
      <4>1. Assoc(a, b, x)
        BY <3>1, ConcatAssocAll
      <4> QED
        BY <4>1, Zenon DEF Assoc
    <3> QED
      BY <3>2 DEF a, b
  <2>5. FlattenSeq(p \o u) = FlattenSeq(p) \o FlattenSeq(u)
    BY <1>2
  <2>6. FlattenSeq(p \o Append(u, x)) = FlattenSeq(p) \o FlattenSeq(Append(u, x))
    BY <2>1, <2>2, <2>4, <2>5, Zenon
  <2> QED
    BY <2>1, <2>6, Zenon
<1>3. Seq(Seq(A)) \subseteq P
  <2> HIDE DEF P
  <2> QED
    BY <1>1, <1>2, SeqSetInduction
<1> QED
  BY <1>3

\* The first part, and the rest.
LEMMA FlattenHead ==
  ASSUME NEW A, NEW q \in Seq(Seq(A)), q # <<>>
  PROVE  FlattenSeq(q) = Head(q) \o FlattenSeq(Tail(q))
<1>1. /\ q = <<Head(q)>> \o Tail(q)
      /\ Head(q) \in Seq(A) /\ Tail(q) \in Seq(Seq(A)) /\ <<Head(q)>> \in Seq(Seq(A))
  OBVIOUS
<1>2. FlattenSeq(<<Head(q)>>) = Head(q)
  <2>1. <<Head(q)>> = Append(<<>>, Head(q)) /\ <<>> \in Seq(Seq(A))
    OBVIOUS
  <2>2. FlattenSeq(Append(<<>>, Head(q))) = FlattenSeq(<<>>) \o Head(q)
    BY <1>1, <2>1, FlattenAppend, Zenon
  <2>3. <<>> \o Head(q) = Head(q)
    BY <1>1
  <2> QED
    BY <2>1, <2>2, <2>3, FlattenEmpty, Zenon
<1>3. FlattenSeq(<<Head(q)>> \o Tail(q)) = FlattenSeq(<<Head(q)>>) \o FlattenSeq(Tail(q))
  BY <1>1, FlattenConcat, Zenon
<1> QED
  BY <1>1, <1>2, <1>3, Zenon

-----------------------------------------------------------------------------
(* Joining and cutting.                                                    *)

LEMMA ConcatAppend ==
  ASSUME NEW A, NEW w \in Seq(A), NEW p \in Seq(A), NEW m \in A
  PROVE  /\ w \o p \in Seq(A) /\ Append(p, m) \in Seq(A)
         /\ w \o Append(p, m) = Append(w \o p, m)
  OBVIOUS

LEMMA ConcatEmpty ==
  ASSUME NEW A, NEW w \in Seq(A)
  PROVE  w \o <<>> = w /\ <<>> \o w = w /\ <<>> \in Seq(A)
  OBVIOUS

LEMMA CutSequence ==
  ASSUME NEW A, NEW s \in Seq(A), NEW k \in 0..Len(s)
  PROVE  /\ SubSeq(s, 1, k) \in Seq(A) /\ SubSeq(s, k + 1, Len(s)) \in Seq(A)
         /\ SubSeq(s, 1, k) \o SubSeq(s, k + 1, Len(s)) = s
<1>1. Len(s) \in Nat /\ \A i \in 1..Len(s) : s[i] \in A
  OBVIOUS
<1>2. SubSeq(s, 1, k) \in Seq(A) /\ SubSeq(s, k + 1, Len(s)) \in Seq(A)
  <2>1. \A i \in 1..k : s[i] \in A
    BY <1>1
  <2>2. \A i \in (k + 1)..Len(s) : s[i] \in A
    BY <1>1
  <2> QED
    BY <1>1, <2>1, <2>2, SubSeqProperties
<1>3. /\ 1 \in 1..(Len(s) + 1) /\ k \in (1 - 1)..Len(s)
      /\ Len(s) \in k..Len(s)
  BY <1>1
<1>4. SubSeq(s, 1, k) \o SubSeq(s, k + 1, Len(s)) = SubSeq(s, 1, Len(s))
  BY <1>3, ConcatAdjacentSubSeq, Zenon
<1>5. SubSeq(s, 1, Len(s)) = s
  BY SubSeqFull
<1> QED
  BY <1>2, <1>4, <1>5, Zenon

(* The prefix that is one longer.                                          *)
LEMMA LongerPrefix ==
  ASSUME NEW A, NEW s \in Seq(A), NEW i \in 1..Len(s)
  PROVE  /\ SubSeq(s, 1, i - 1) \in Seq(A) /\ s[i] \in A
         /\ SubSeq(s, 1, i) = Append(SubSeq(s, 1, i - 1), s[i])
<1>1. i - 1 \in 0..Len(s) /\ i \in 0..Len(s) /\ s[i] \in A
  OBVIOUS
<1>2. SubSeq(s, 1, i - 1) \in Seq(A)
  BY <1>1, CutSequence
<1>3. SubSeq(s, 1, i) = SubSeq(s, 1, i - 1) \o <<s[i]>>
  <2>1. 1 \in 1..Len(s) /\ i \in 1..Len(s)
    OBVIOUS
  <2> QED
    BY <2>1, SubSeqRecursiveSecond
<1>4. \A t \in Seq(A), e \in A : t \o <<e>> = Append(t, e)
  OBVIOUS
<1> QED
  BY <1>1, <1>2, <1>3, <1>4, Zenon
=============================================================================
