---------------------------- MODULE RequestProofs ----------------------------

(***************************************************************************)
(* The requests of the engine: how to count in lists, and that every step  *)
(* keeps the accounts, in which the wait count of a task is the number of  *)
(* its requests in all the lists of the engine, and a task that waits for  *)
(* nothing is in the list of ready tasks once.                             *)
(***************************************************************************)
EXTENDS BuildEngineProofs, FiniteSetTheorems

\* A leaf of the proofs that names no prover is left to Zenon.
USE Zenon

-----------------------------------------------------------------------------
(***************************************************************************)
(* Counting in lists                                                       *)
(***************************************************************************)
Positions(s, S) == {n \in DOMAIN s : s[n] \in S}
Count(s, S) == Cardinality(Positions(s, S))

\* A list has finitely many positions.
LEMMA CountType ==
  ASSUME NEW T, NEW s \in Seq(T), NEW S
  PROVE  IsFiniteSet(Positions(s, S)) /\ Count(s, S) \in Nat
<1>1. IsFiniteSet(1 .. Len(s))
  BY FS_Interval, SMT
<1>2. Positions(s, S) \in SUBSET (1 .. Len(s))
  BY SMT DEF Positions
<1>3. IsFiniteSet(Positions(s, S))
  BY <1>1, <1>2, FS_Subset
<1> QED BY <1>3, FS_CardinalityType DEF Count

\* A list behind another one.
LEMMA CountConcat ==
  ASSUME NEW T, NEW s \in Seq(T), NEW t \in Seq(T), NEW S
  PROVE  Count(s \o t, S) = Count(s, S) + Count(t, S)
<1> DEFINE P == Positions(s, S)
           Q == Positions(t, S)
           R == Positions(s \o t, S) \ P
           f == [n \in Q |-> n + Len(s)]
<1>1. IsFiniteSet(P) /\ IsFiniteSet(Q) /\ Count(s, S) \in Nat /\ Count(t, S) \in Nat
  BY CountType
<1>2. P \subseteq 1 .. Len(s) /\ Q \subseteq 1 .. Len(t) /\ Len(s) \in Nat /\ Len(t) \in Nat
  BY SMT DEF Positions
<1>3. s \o t \in Seq(T) /\ Len(s \o t) = Len(s) + Len(t)
  BY SMT
<1>4. \A n \in 1 .. Len(s) : (s \o t)[n] = s[n]
  BY SMT
<1>5. \A n \in 1 .. Len(t) : (s \o t)[n + Len(s)] = t[n]
  BY SMT
<1>6. P \subseteq Positions(s \o t, S)
  BY <1>2, <1>3, <1>4, SMT DEF Positions
<1>7. \A m \in R : m - Len(s) \in Q /\ m = (m - Len(s)) + Len(s)
  <2> TAKE m \in R
  <2>1. m \in 1 .. Len(s) + Len(t) /\ (s \o t)[m] \in S
    BY <1>3, SMT DEF Positions
  <2>2. m \notin 1 .. Len(s)
    BY <1>4, <2>1, SMT DEF Positions
  <2>3. m - Len(s) \in 1 .. Len(t) /\ m = (m - Len(s)) + Len(s)
    BY ONLY <2>1, <2>2, <1>2, SMT
  <2>4. (s \o t)[m] = t[m - Len(s)]
    BY <2>3, <1>5
  <2> QED BY <2>1, <2>3, <2>4, SMT DEF Positions
<1>8. \A n \in Q : n + Len(s) \in R
  <2> TAKE n \in Q
  <2>1. n \in 1 .. Len(t) /\ t[n] \in S
    BY SMT DEF Positions
  <2>2. n + Len(s) \in 1 .. Len(s) + Len(t) /\ n + Len(s) \notin 1 .. Len(s)
    BY ONLY <2>1, <1>2, SMT
  <2>3. (s \o t)[n + Len(s)] \in S
    BY <2>1, <1>5
  <2> QED BY <2>2, <2>3, <1>2, <1>3, SMT DEF Positions
<1>9. \A m, n \in Q : m + Len(s) = n + Len(s) => m = n
  BY <1>2, SMT
<1>10. f \in Surjection(Q, R)
  <2> HIDE DEF R
  <2>1. f \in [Q -> R]
    BY <1>8
  <2>2. \A m \in R : \E n \in Q : f[n] = m
    BY <1>7
  <2> QED BY <2>1, <2>2 DEF Surjection
<1>11. f \in Injection(Q, R)
  <2>1. \A m, n \in Q : f[m] = f[n] => m = n
    BY <1>9
  <2>2. f \in [Q -> R]
    BY <1>10 DEF Surjection
  <2> HIDE DEF f, Q, R
  <2> QED BY ONLY <2>1, <2>2, Zenon DEF Injection, IsInjective
<1>12. IsFiniteSet(R) /\ Cardinality(R) = Cardinality(Q)
  <2> HIDE DEF R, f, Q
  <2> QED BY <1>10, <1>11, <1>1, FS_Surjection
<1>13. P \cup R = Positions(s \o t, S) /\ P \cap R = {}
  BY <1>6
<1>14. Cardinality(P \cup R) = Cardinality(P) + Cardinality(R) - Cardinality(P \cap R)
  BY <1>1, <1>12, FS_Union
<1>15. Cardinality({}) = 0
  BY FS_EmptySet
<1>16. Count(s \o t, S) = Count(s, S) + Count(t, S) - 0
  BY <1>12, <1>13, <1>14, <1>15 DEF Count
<1> QED BY ONLY <1>16, <1>1, SMT

\* The empty list and the list of one element.
LEMMA CountSmall ==
  ASSUME NEW x, NEW S
  PROVE  /\ Count(<<>>, S) = 0
         /\ x \in S => Count(<<x>>, S) = 1
         /\ x \notin S => Count(<<x>>, S) = 0
<1>1. Positions(<<>>, S) = {}
  BY SMT DEF Positions
<1>2. x \in S => Positions(<<x>>, S) = {1}
  BY SMT DEF Positions
<1>3. x \notin S => Positions(<<x>>, S) = {}
  BY SMT DEF Positions
<1> QED BY <1>1, <1>2, <1>3, FS_EmptySet, FS_Singleton DEF Count

\* One element more, at the end, or one less, at either end.
LEMMA CountAppend ==
  ASSUME NEW T, NEW s \in Seq(T), NEW x \in T, NEW S
  PROVE  Count(Append(s, x), S) = Count(s, S) + Count(<<x>>, S)
<1>1. Append(s, x) = s \o <<x>> /\ <<x>> \in Seq(T)
  BY SMT
<1>2. PICK b : b = <<x>>
  OBVIOUS
<1>3. Count(s \o b, S) = Count(s, S) + Count(b, S)
  BY <1>1, <1>2, CountConcat
<1> QED BY ONLY <1>1, <1>2, <1>3, Zenon

\* What is counted in a list is counted at its head and in its tail,
LEMMA CountTail ==
  ASSUME NEW T, NEW s \in Seq(T), s # <<>>, NEW S
  PROVE  Count(s, S) = Count(<<Head(s)>>, S) + Count(Tail(s), S)
<1>1. s = <<Head(s)>> \o Tail(s) /\ <<Head(s)>> \in Seq(T) /\ Tail(s) \in Seq(T)
  BY SMT
<1>2. PICK a, b : a = <<Head(s)>> /\ b = Tail(s)
  OBVIOUS
<1>3. Count(a \o b, S) = Count(a, S) + Count(b, S)
  BY ONLY <1>1, <1>2, CountConcat, Zenon
<1> QED BY ONLY <1>1, <1>2, <1>3, Zenon

\* in all of it but the last element and at that,
LEMMA CountPopBack ==
  ASSUME NEW T, NEW s \in Seq(T), s # <<>>, NEW S
  PROVE  Count(s, S) = Count(PopBack(s), S) + Count(<<Back(s)>>, S)
<1>1. s = PopBack(s) \o <<Back(s)>> /\ <<Back(s)>> \in Seq(T) /\ PopBack(s) \in Seq(T)
  BY SMT DEF PopBack, Back
<1>2. PICK a, b : a = PopBack(s) /\ b = <<Back(s)>>
  OBVIOUS
<1>3. Count(a \o b, S) = Count(a, S) + Count(b, S)
  BY ONLY <1>1, <1>2, CountConcat, Zenon
<1> QED BY ONLY <1>1, <1>2, <1>3, Zenon

\* What the concatenation of two lists holds.
LEMMA ConcatIs ==
  ASSUME NEW T, NEW s \in Seq(T), NEW t \in Seq(T)
  PROVE  /\ s \o t \in Seq(T) /\ Len(s \o t) = Len(s) + Len(t)
         /\ \A n \in 1 .. Len(s) + Len(t) : (s \o t)[n] = IF n <= Len(s) THEN s[n] ELSE t[n - Len(s)]
  BY SMT

\* What the end of a list holds.
LEMMA EndIs ==
  ASSUME NEW T, NEW s \in Seq(T), NEW j \in 1 .. Len(s) + 1
  PROVE  \A n \in 1 .. Len(s) - j + 1 : SubSeq(s, j, Len(s))[n] = s[j + n - 1]
  BY SMT

\* and in what is left once one position is erased and at that position.
LEMMA CountErase ==
  ASSUME NEW T, NEW s \in Seq(T), NEW i \in DOMAIN s, NEW S
  PROVE  Count(s, S) = Count(Erase(s, i), S) + Count(<<s[i]>>, S)
<1>1. i \in 1 .. Len(s) /\ Len(s) \in Nat /\ s[i] \in T
  BY SMT
<1>2. PICK a, b, c : a = SubSeq(s, 1, i - 1) /\ b = <<s[i]>> /\ c = SubSeq(s, i + 1, Len(s))
  OBVIOUS
<1>3. a \in Seq(T) /\ b \in Seq(T) /\ c \in Seq(T) /\ a \o b \in Seq(T)
  BY <1>1, <1>2, SMT
<1>4. s = (a \o b) \o c
  <2>1. Len(a) = i - 1 /\ Len(b) = 1 /\ Len(c) = Len(s) - i
    BY ONLY <1>1, <1>2, s \in Seq(T), SMT
  <2>2. PICK d : d = a \o b
    OBVIOUS
  <2>3. d \in Seq(T) /\ Len(d) = i
    <3>1. d \in Seq(T) /\ Len(d) = Len(a) + Len(b)
      BY ONLY <2>2, <1>3, ConcatIs, Zenon
    <3> QED BY ONLY <3>1, <2>1, <1>1, SMT
  <2>4. \A n \in 1 .. i : d[n] = s[n]
    <3>1. \A n \in 1 .. i - 1 : d[n] = a[n]
      BY ONLY <2>1, <2>2, <1>1, <1>3, SMT
    <3>2. \A n \in 1 .. i - 1 : a[n] = s[n]
      BY ONLY <2>1, <1>2, <1>1, s \in Seq(T), SMT
    <3>3. d[i] = b[1]
      <4>1. \A n \in 1 .. Len(a) + Len(b) : d[n] = IF n <= Len(a) THEN a[n] ELSE b[n - Len(a)]
        BY ONLY <2>2, <1>3, ConcatIs, Zenon
      <4>2. i \in 1 .. Len(a) + Len(b) /\ ~(i <= Len(a)) /\ i - Len(a) = 1
        BY ONLY <2>1, <1>1, SMT
      <4>3. d[i] = b[i - Len(a)]
        BY ONLY <4>1, <4>2, Zenon
      <4> QED BY ONLY <4>2, <4>3, Zenon
    <3>4. b[1] = s[i]
      BY ONLY <1>2, SMT
    <3> QED BY ONLY <3>1, <3>2, <3>3, <3>4, <1>1, SMT
  <2>5. PICK e : e = d \o c
    OBVIOUS
  <2>6. e \in Seq(T) /\ Len(e) = Len(s)
    BY ONLY <2>1, <2>3, <2>5, <1>1, <1>3, SMT
  <2>7. \A n \in 1 .. Len(s) : e[n] = s[n]
    <3>1. \A n \in 1 .. i : e[n] = d[n]
      BY ONLY <2>1, <2>3, <2>5, <1>1, <1>3, SMT
    <3>2. \A n \in i + 1 .. Len(s) : e[n] = c[n - i]
      <4>1. \A n \in 1 .. Len(d) + Len(c) : e[n] = IF n <= Len(d) THEN d[n] ELSE c[n - Len(d)]
        BY ONLY <2>3, <2>5, <1>3, ConcatIs, Zenon
      <4>2. \A n \in i + 1 .. Len(s) : n \in 1 .. Len(d) + Len(c) /\ ~(n <= Len(d))
        BY ONLY <2>1, <2>3, <1>1, SMT
      <4>3. \A n \in i + 1 .. Len(s) : e[n] = c[n - Len(d)]
        BY ONLY <4>1, <4>2, Zenon
      <4> QED BY ONLY <2>3, <4>3, Zenon
    <3>3. \A n \in i + 1 .. Len(s) : c[n - i] = s[n]
      <4>1. i + 1 \in 1 .. Len(s) + 1
        BY ONLY <1>1, SMT
      <4>2. \A n \in 1 .. Len(s) - (i + 1) + 1 : c[n] = s[i + 1 + n - 1]
        BY ONLY <4>1, <1>2, s \in Seq(T), EndIs, Zenon
      <4> QED BY ONLY <4>2, <1>1, SMT
    <3> QED BY ONLY <3>1, <3>2, <3>3, <2>4, <1>1, SMT
  <2>8. e = s
    BY ONLY <2>6, <2>7, s \in Seq(T), SMT
  <2> QED BY <2>2, <2>5, <2>8
<1>5. Erase(s, i) = a \o c
  BY <1>2 DEF Erase
<1>6. Count(s, S) = Count(a \o b, S) + Count(c, S)
  BY ONLY <1>3, <1>4, CountConcat, Zenon
<1>7. Count(a \o b, S) = Count(a, S) + Count(b, S)
  BY ONLY <1>3, CountConcat, Zenon
<1>8. Count(Erase(s, i), S) = Count(a, S) + Count(c, S)
  <2>1. Count(a \o c, S) = Count(a, S) + Count(c, S)
    BY ONLY <1>3, CountConcat, Zenon
  <2> QED BY ONLY <2>1, <1>5, Zenon
<1>9. Count(a, S) \in Nat /\ Count(b, S) \in Nat /\ Count(c, S) \in Nat
  BY ONLY <1>3, CountType, Zenon
<1>10. Count(s, S) = Count(Erase(s, i), S) + Count(b, S)
  BY ONLY <1>6, <1>7, <1>8, <1>9, SMT
<1> QED BY <1>10, <1>2

\* A list of which all or none of the elements are counted.
LEMMA CountUniform ==
  ASSUME NEW T, NEW s \in Seq(T), NEW S
  PROVE  /\ (\A n \in DOMAIN s : s[n] \in S) => Count(s, S) = Len(s)
         /\ (\A n \in DOMAIN s : s[n] \notin S) <=> Count(s, S) = 0
<1>1. Len(s) \in Nat /\ DOMAIN s = 1 .. Len(s)
  BY SMT
<1>2. Cardinality(1 .. Len(s)) = Len(s)
  BY <1>1, FS_Interval, SMT
<1>3. (\A n \in DOMAIN s : s[n] \in S) => Positions(s, S) = 1 .. Len(s)
  BY <1>1 DEF Positions
<1>4. (\A n \in DOMAIN s : s[n] \notin S) <=> Positions(s, S) = {}
  BY DEF Positions
<1>5. Positions(s, S) = {} <=> Count(s, S) = 0
  BY CountType, FS_EmptySet DEF Count
<1> QED BY <1>2, <1>3, <1>4, <1>5 DEF Count

\* The same for a list at every rule.
At(lists, S) == UNION {{i} \X Positions(lists[i], S) : i \in Keys}
CountAt(lists, S) == Cardinality(At(lists, S))

\* There are finitely many rules.
LEMMA CountAtType ==
  ASSUME NEW T, NEW lists \in [Keys -> Seq(T)], NEW S
  PROVE  IsFiniteSet(At(lists, S)) /\ CountAt(lists, S) \in Nat
<1> DEFINE f == [i \in Keys |-> {i} \X Positions(lists[i], S)]
           U == {f[i] : i \in Keys}
<1>1. IsFiniteSet(Keys)
  BY KeysAssumption
<1>2. f \in Surjection(Keys, U)
  BY DEF Surjection
<1>3. IsFiniteSet(U)
  <2> HIDE DEF f, U
  <2> QED BY ONLY <1>1, <1>2, FS_Surjection, Zenon
<1>4. \A i \in Keys : IsFiniteSet(f[i])
  <2> TAKE i \in Keys
  <2>1. lists[i] \in Seq(T)
    OBVIOUS
  <2>2. IsFiniteSet(Positions(lists[i], S)) /\ IsFiniteSet({i})
    BY <2>1, CountType, FS_Singleton
  <2> QED BY <2>2, FS_Product
<1>5. \A X \in U : IsFiniteSet(X)
  BY <1>4
<1>6. IsFiniteSet(UNION U)
  <2> HIDE DEF U
  <2> QED BY ONLY <1>3, <1>5, FS_UNION, Zenon
<1>7. At(lists, S) = UNION U
  <2>1. U = {{i} \X Positions(lists[i], S) : i \in Keys}
    OBVIOUS
  <2> HIDE DEF U
  <2> QED BY ONLY <2>1, Zenon DEF At
<1>8. IsFiniteSet(At(lists, S))
  BY ONLY <1>6, <1>7, Zenon
<1> QED BY <1>8, FS_CardinalityType DEF CountAt

\* What is counted at one rule, and the rest.
Elsewhere(lists, S, i) == {p \in At(lists, S) : p[1] # i}

\* The count over all rules is the count at one and the count at the others.
LEMMA CountAtSplit ==
  ASSUME NEW T, NEW lists \in [Keys -> Seq(T)], NEW S, NEW i \in Keys
  PROVE  /\ CountAt(lists, S) = Count(lists[i], S) + Cardinality(Elsewhere(lists, S, i))
         /\ Cardinality(Elsewhere(lists, S, i)) \in Nat
         /\ Count(lists[i], S) \in Nat
<1> DEFINE M == {i} \X Positions(lists[i], S)
           R == Elsewhere(lists, S, i)
<1>1. lists[i] \in Seq(T)
  OBVIOUS
<1>2. IsFiniteSet(Positions(lists[i], S)) /\ Count(lists[i], S) \in Nat
  BY <1>1, CountType
<1>3. IsFiniteSet({i}) /\ Cardinality({i}) = 1
  BY FS_Singleton
<1>4. IsFiniteSet(M) /\ Cardinality(M) = 1 * Cardinality(Positions(lists[i], S))
  BY <1>2, <1>3, FS_Product
<1>5. Cardinality(M) = Count(lists[i], S)
  <2> HIDE DEF M
  <2>1. Count(lists[i], S) = Cardinality(Positions(lists[i], S))
    BY DEF Count
  <2> QED BY ONLY <1>2, <1>4, <2>1, SMT
<1>6. IsFiniteSet(R) /\ Cardinality(R) \in Nat
  <2>1. R \in SUBSET At(lists, S)
    BY DEF Elsewhere
  <2>2. IsFiniteSet(R)
    BY <2>1, CountAtType, FS_Subset
  <2> QED BY <2>2, FS_CardinalityType
<1>7. \A p \in M : p[1] = i
  OBVIOUS
<1>8. M \subseteq At(lists, S)
  BY DEF At
<1>9. \A p \in At(lists, S) : p[1] = i => p \in M
  <2> TAKE p \in At(lists, S)
  <2>1. PICK j \in Keys : p \in {j} \X Positions(lists[j], S)
    BY DEF At
  <2>2. p[1] = j
    BY <2>1
  <2> QED BY <2>1, <2>2
<1>10. M \cup R = At(lists, S) /\ M \cap R = {}
  <2> HIDE DEF M
  <2> QED BY <1>7, <1>8, <1>9 DEF Elsewhere
<1>11. Cardinality(M \cup R) = Cardinality(M) + Cardinality(R) - Cardinality(M \cap R)
  BY <1>4, <1>6, FS_Union
<1>12. Cardinality({}) = 0
  BY FS_EmptySet
<1>13. CountAt(lists, S) = Count(lists[i], S) + Cardinality(R) - 0
  <2> HIDE DEF M, R
  <2> QED BY <1>5, <1>10, <1>11, <1>12 DEF CountAt
<1> QED BY ONLY <1>13, <1>6, <1>2, SMT

Lists(T) == [Keys -> Seq(T)]
SameBut(new, lists, i) == \A j \in Keys : j # i => new[j] = lists[j]
Replaced(new, lists, i, S) ==
  CountAt(new, S) + Count(lists[i], S) = CountAt(lists, S) + Count(new[i], S)

\* One of the lists replaced.
LEMMA CountReplace ==
  ASSUME NEW T, NEW lists \in Lists(T), NEW new \in Lists(T), NEW S,
         NEW i \in Keys, SameBut(new, lists, i)
  PROVE  Replaced(new, lists, i, S)
<1> USE DEF SameBut, Lists, Replaced
<1>1. ASSUME NEW l, NEW m, \A j \in Keys : j # i => m[j] = l[j]
      PROVE  Elsewhere(l, S, i) \subseteq Elsewhere(m, S, i)
  <2> SUFFICES ASSUME NEW p \in Elsewhere(l, S, i)
               PROVE  p \in Elsewhere(m, S, i)
    OBVIOUS
  <2>1. p \in At(l, S) /\ p[1] # i
    BY DEF Elsewhere
  <2>2. PICK j \in Keys : p \in {j} \X Positions(l[j], S)
    BY <2>1 DEF At
  <2>3. p[1] = j
    BY <2>2
  <2>4. m[j] = l[j]
    BY <1>1, <2>1, <2>3
  <2>5. p \in At(m, S)
    BY <2>2, <2>4 DEF At
  <2> QED BY <2>1, <2>5 DEF Elsewhere
<1>2. Elsewhere(new, S, i) = Elsewhere(lists, S, i)
  <2>1. Elsewhere(lists, S, i) \subseteq Elsewhere(new, S, i)
    BY <1>1
  <2>2. \A j \in Keys : j # i => lists[j] = new[j]
    OBVIOUS
  <2>3. Elsewhere(new, S, i) \subseteq Elsewhere(lists, S, i)
    BY <1>1, <2>2
  <2> QED BY <2>1, <2>3
<1>3. /\ CountAt(lists, S) = Count(lists[i], S) + Cardinality(Elsewhere(lists, S, i))
      /\ Cardinality(Elsewhere(lists, S, i)) \in Nat
      /\ Count(lists[i], S) \in Nat
  BY CountAtSplit
<1>4. /\ CountAt(new, S) = Count(new[i], S) + Cardinality(Elsewhere(new, S, i))
      /\ Count(new[i], S) \in Nat
  BY CountAtSplit
<1> QED BY ONLY <1>2, <1>3, <1>4, SMT

\* Nothing is counted if no list has anything to count.
LEMMA CountAtZero ==
  ASSUME NEW T, NEW lists \in [Keys -> Seq(T)], NEW S
  PROVE  CountAt(lists, S) = 0 <=> \A i \in Keys : Count(lists[i], S) = 0
<1>1. ASSUME CountAt(lists, S) = 0, NEW i \in Keys
      PROVE  Count(lists[i], S) = 0
  <2>1. /\ CountAt(lists, S) = Count(lists[i], S) + Cardinality(Elsewhere(lists, S, i))
        /\ Cardinality(Elsewhere(lists, S, i)) \in Nat
        /\ Count(lists[i], S) \in Nat
    BY CountAtSplit
  <2> QED BY ONLY <1>1, <2>1, SMT
<1>2. ASSUME \A i \in Keys : Count(lists[i], S) = 0
      PROVE  CountAt(lists, S) = 0
  <2>1. \A i \in Keys : Positions(lists[i], S) = {}
    <3> TAKE i \in Keys
    <3>1. lists[i] \in Seq(T)
      OBVIOUS
    <3> QED BY <1>2, <3>1, CountType, FS_EmptySet DEF Count
  <2>2. \A p \in At(lists, S) : FALSE
    <3> TAKE p \in At(lists, S)
    <3>1. PICK j \in Keys : p \in {j} \X Positions(lists[j], S)
      BY DEF At
    <3>2. p[2] \in Positions(lists[j], S)
      BY <3>1
    <3> QED BY <2>1, <3>2
  <2>3. At(lists, S) = {}
    BY <2>2
  <2> QED BY <2>3, FS_EmptySet DEF CountAt
<1> QED BY <1>1, <1>2

-----------------------------------------------------------------------------
(***************************************************************************)
(* The invariant                                                           *)
(***************************************************************************)
\* The requests of the task of k, wherever they are.
Of(k) == RequestsFrom({k})
Pending == [i \in Keys |-> task[i].requestedBy]
Requests(k) == (Count(inputRequests, Of(k)) + Count(finishedInputRequests, Of(k)))
               + (CountAt(pausedInputRequests, Of(k)) + CountAt(Pending, Of(k)))

Counted == \A k \in Keys : task[k].waitCount = Requests(k)

ReadyOnce == \A k \in Keys : Count(readyTaskInfos, {k}) = IF IsReady(k) THEN 1 ELSE 0

Accounts == Counted /\ ReadyOnce /\ Live
LoopInv == Accounts /\ Threads /\ Turn /\ OutstandingIsExact /\ NoLostWakeup

\* The types of what is counted.
LEMMA RequestTypesOf ==
  ASSUME TypeOK
  PROVE  /\ inputRequests \in Seq(InputRequest)
         /\ finishedInputRequests \in Seq(InputRequest)
         /\ pausedInputRequests \in [Keys -> Seq(InputRequest)]
         /\ Pending \in [Keys -> Seq(InputRequest)]
         /\ readyTaskInfos \in Seq(Keys)
<1>1. Seq(PendingRequest) \subseteq Seq(InputRequest)
  <2>1. PendingRequest \subseteq InputRequest
    BY DEF PendingRequest, InputRequest, RequestsFrom
  <2> QED BY ONLY <2>1, SMT
<1>2. \A i \in Keys : task[i].requestedBy \in Seq(PendingRequest)
  BY DEF TypeOK, TaskInfo
<1>3. Pending \in [Keys -> Seq(InputRequest)]
  BY <1>1, <1>2 DEF Pending
<1> QED BY <1>1, <1>3 DEF TypeOK

\* Whose request a request is.
LEMMA IsOf ==
  ASSUME NEW r \in InputRequest, NEW k \in Keys
  PROVE  r \in Of(k) <=> r.task = k
BY DEF Of, InputRequest, RequestsFrom

\* The counts of requests are numbers.
LEMMA RequestsType ==
  ASSUME TypeOK, NEW k \in Keys
  PROVE  /\ Count(inputRequests, Of(k)) \in Nat
         /\ Count(finishedInputRequests, Of(k)) \in Nat
         /\ CountAt(pausedInputRequests, Of(k)) \in Nat
         /\ CountAt(Pending, Of(k)) \in Nat
         /\ Requests(k) \in Nat
<1>1. /\ Count(inputRequests, Of(k)) \in Nat /\ Count(finishedInputRequests, Of(k)) \in Nat
      /\ CountAt(pausedInputRequests, Of(k)) \in Nat /\ CountAt(Pending, Of(k)) \in Nat
  BY RequestTypesOf, CountType, CountAtType
<1>2. Requests(k) \in Nat
  BY <1>1, SMT DEF Requests
<1> QED BY <1>1, <1>2

\* The lemmas on counting, for lists of requests.
RequestList == Seq(InputRequest)
RequestLists == Lists(InputRequest)

Joined(s, a, b, S) == Count(s, S) = Count(a, S) + Count(b, S)

\* The invariant says what the runs check.
LEMMA CountedIsExact ==
  ASSUME TypeOK, Counted, ReadyOnce
  PROVE  WaitCountIsExact
<1> SUFFICES ASSUME NEW k \in Keys
             PROVE  /\ task[k].waitCount =
                         Cardinality(RequestedAt(k, inputRequests))
                         + Cardinality(RequestedAt(k, finishedInputRequests))
                         + Cardinality(RequestedAtRules(k, pausedInputRequests))
                         + Cardinality(RequestedAtRules(k, Pending))
                    /\ Cardinality({n \in DOMAIN readyTaskInfos : readyTaskInfos[n] = k}) =
                         IF IsReady(k) THEN 1 ELSE 0
  BY DEF WaitCountIsExact, Pending, IsReady
<1>1. ASSUME NEW s \in Seq(InputRequest)
      PROVE  RequestedAt(k, s) = Positions(s, Of(k))
  <2>1. \A n \in DOMAIN s : s[n] \in InputRequest
    BY SMT
  <2> QED BY <2>1, IsOf DEF RequestedAt, Positions
<1>2. ASSUME NEW l \in [Keys -> Seq(InputRequest)]
      PROVE  RequestedAtRules(k, l) = At(l, Of(k))
  <2>1. \A i \in Keys : RequestedAt(k, l[i]) = Positions(l[i], Of(k))
    BY <1>1
  <2> QED BY <2>1 DEF RequestedAtRules, At
<1>3. /\ Cardinality(RequestedAt(k, inputRequests)) = Count(inputRequests, Of(k))
      /\ Cardinality(RequestedAt(k, finishedInputRequests)) = Count(finishedInputRequests, Of(k))
      /\ Cardinality(RequestedAtRules(k, pausedInputRequests)) = CountAt(pausedInputRequests, Of(k))
      /\ Cardinality(RequestedAtRules(k, Pending)) = CountAt(Pending, Of(k))
  BY <1>1, <1>2, RequestTypesOf DEF Count, CountAt
<1>4. task[k].waitCount = Requests(k)
  BY DEF Counted
<1>5. /\ Count(inputRequests, Of(k)) \in Nat /\ Count(finishedInputRequests, Of(k)) \in Nat
      /\ CountAt(pausedInputRequests, Of(k)) \in Nat /\ CountAt(Pending, Of(k)) \in Nat
  BY RequestsType
<1>6. {n \in DOMAIN readyTaskInfos : readyTaskInfos[n] = k} = Positions(readyTaskInfos, {k})
  BY DEF Positions
<1>7. Cardinality({n \in DOMAIN readyTaskInfos : readyTaskInfos[n] = k}) =
        IF IsReady(k) THEN 1 ELSE 0
  BY <1>6 DEF ReadyOnce, Count
<1> QED BY <1>3, <1>4, <1>5, <1>7, SMT DEF Requests

-----------------------------------------------------------------------------
(***************************************************************************)
(* Steps of one form                                                       *)
(***************************************************************************)
\* The rules whose state changes are not in progress, and no task is.
Quiet ==
  /\ \A k \in Keys : state'[k] = state[k] \/ (~InProgress(k) /\ ~InProgress(k)')
  /\ \A k \in Keys : task'[k].waitCount = task[k].waitCount
  /\ \A k \in Keys : k \notin taskInfos => task'[k] = task[k]
  /\ taskInfos' = taskInfos
  /\ readyTaskInfos' = readyTaskInfos
  /\ pc \in Draining => pc' \in Draining

\* Such a step that only moves requests keeps the accounts.
LEMMA QuietAccounts ==
  ASSUME Accounts, Quiet, \A k \in Keys : Requests(k)' = Requests(k)
  PROVE  Accounts'
<1>1. Counted'
  BY DEF Accounts, Counted, Quiet
<1>2. \A k \in Keys : IsReady(k)' <=> IsReady(k)
  BY DEF Quiet, IsReady, InProgress
<1>3. ReadyOnce'
  BY <1>2 DEF Accounts, ReadyOnce, Quiet
<1>4. Live'
  <2> SUFFICES ASSUME NEW k \in Keys
               PROVE  /\ InProgress(k)' => k \in taskInfos'
                      /\ k \in taskInfos' => InProgress(k)' \/ pc' \in Draining
                      /\ k \notin taskInfos' => task'[k] = NewTask
                      /\ state'[k] # "InProgressWaiting" => task'[k].waitCount = 0
    BY DEF Live, Draining, NewTask
  <2>1. /\ InProgress(k) => k \in taskInfos
        /\ k \in taskInfos => InProgress(k) \/ pc \in Draining
        /\ k \notin taskInfos => task[k] = NewTask
        /\ state[k] # "InProgressWaiting" => task[k].waitCount = 0
    BY DEF Accounts, Live, Draining
  <2> QED BY <2>1 DEF Quiet, InProgress
<1> QED BY <1>1, <1>3, <1>4 DEF Accounts

\* No request moves.
LEMMA SameRequests ==
  ASSUME UNCHANGED <<inputRequests, finishedInputRequests, pausedInputRequests>>,
         Pending' = Pending
  PROVE  \A k \in Keys : Requests(k)' = Requests(k)
BY DEF Requests

\* As long as the tasks are left alone, so are the requests pending at them.
LEMMA SamePending ==
  ASSUME task' = task
  PROVE  Pending' = Pending
BY DEF Pending

\* The four counts, before and after a step.
Numbered(k) ==
  /\ Requests(k) = (Count(inputRequests, Of(k)) + Count(finishedInputRequests, Of(k)))
                   + (CountAt(pausedInputRequests, Of(k)) + CountAt(Pending, Of(k)))
  /\ Requests(k)' = (Count(inputRequests', Of(k)) + Count(finishedInputRequests', Of(k)))
                    + (CountAt(pausedInputRequests', Of(k)) + CountAt(Pending', Of(k)))
  /\ Count(inputRequests, Of(k)) \in Nat /\ Count(inputRequests', Of(k)) \in Nat
  /\ Count(finishedInputRequests, Of(k)) \in Nat /\ Count(finishedInputRequests', Of(k)) \in Nat
  /\ CountAt(pausedInputRequests, Of(k)) \in Nat /\ CountAt(pausedInputRequests', Of(k)) \in Nat
  /\ CountAt(Pending, Of(k)) \in Nat /\ CountAt(Pending', Of(k)) \in Nat

-----------------------------------------------------------------------------
(***************************************************************************)
(* The list of ready tasks                                                 *)
(***************************************************************************)
\* The list of ready tasks with one more at the end, or without the first.
LEMMA ReadyCounts ==
  ASSUME NEW s \in Seq(Keys), NEW t \in Keys, NEW k \in Keys
  PROVE  /\ Count(s, {k}) \in Nat
         /\ t = k => Count(Append(s, t), {k}) = Count(s, {k}) + 1
         /\ t # k => Count(Append(s, t), {k}) = Count(s, {k})
         /\ s # <<>> /\ Head(s) = k => Count(s, {k}) = Count(Tail(s), {k}) + 1
         /\ s # <<>> /\ Head(s) # k => Count(s, {k}) = Count(Tail(s), {k})
         /\ s # <<>> => Head(s) \in Keys /\ Count(Tail(s), {k}) \in Nat
<1>1. Count(s, {k}) \in Nat
  BY CountType
<1>2. Count(Append(s, t), {k}) = Count(s, {k}) + Count(<<t>>, {k})
  BY CountAppend
<1>3. ASSUME NEW h
      PROVE  (h = k => Count(<<h>>, {k}) = 1) /\ (h # k => Count(<<h>>, {k}) = 0)
  <2>1. PICK S : S = {k}
    OBVIOUS
  <2>2. (h \in S => Count(<<h>>, S) = 1) /\ (h \notin S => Count(<<h>>, S) = 0)
    BY CountSmall
  <2> QED BY <2>1, <2>2
<1>4. ASSUME s # <<>>
      PROVE  /\ Head(s) = k => Count(s, {k}) = Count(Tail(s), {k}) + 1
             /\ Head(s) # k => Count(s, {k}) = Count(Tail(s), {k})
             /\ Head(s) \in Keys /\ Count(Tail(s), {k}) \in Nat
  <2>1. Head(s) \in Keys /\ Tail(s) \in Seq(Keys)
    BY <1>4, SMT
  <2>2. PICK h, rest : h = Head(s) /\ rest = Tail(s)
    OBVIOUS
  <2>3. Count(rest, {k}) \in Nat
    BY <2>1, <2>2, CountType
  <2>4. Count(s, {k}) = Count(<<h>>, {k}) + Count(rest, {k})
    BY <1>4, <2>2, CountTail
  <2>5. (h = k => Count(<<h>>, {k}) = 1) /\ (h # k => Count(<<h>>, {k}) = 0)
    BY <1>3
  <2>6. /\ h = k => Count(s, {k}) = Count(rest, {k}) + 1
        /\ h # k => Count(s, {k}) = Count(rest, {k})
    BY ONLY <1>1, <2>3, <2>4, <2>5, SMT
  <2> QED BY <2>1, <2>2, <2>3, <2>6
<1>5. /\ t = k => Count(Append(s, t), {k}) = Count(s, {k}) + 1
      /\ t # k => Count(Append(s, t), {k}) = Count(s, {k})
  <2>1. (t = k => Count(<<t>>, {k}) = 1) /\ (t # k => Count(<<t>>, {k}) = 0)
    BY <1>3
  <2> QED BY ONLY <1>1, <1>2, <2>1, SMT
<1> QED BY <1>1, <1>4, <1>5

\* The accounts are enough for what the steps rely on.
LEMMA AccountsAreSound ==
  ASSUME TypeOK, Accounts, Threads
  PROVE  Sound
<1>1. ASSUME readyTaskInfos # <<>>
      PROVE  IsReady(Head(readyTaskInfos))
  <2>1. PICK k : k = Head(readyTaskInfos)
    OBVIOUS
  <2>2. readyTaskInfos \in Seq(Keys)
    BY DEF TypeOK
  <2>3. k \in Keys
    BY ONLY <1>1, <2>1, <2>2, SMT
  <2>4. /\ Count(readyTaskInfos, {k}) = Count(Tail(readyTaskInfos), {k}) + 1
        /\ Count(Tail(readyTaskInfos), {k}) \in Nat
    BY <1>1, <2>1, <2>2, <2>3, ReadyCounts
  <2>5. Count(readyTaskInfos, {k}) = IF IsReady(k) THEN 1 ELSE 0
    BY <2>3 DEF Accounts, ReadyOnce
  <2>6. IsReady(k)
    BY ONLY <2>4, <2>5, SMT
  <2> QED BY <2>1, <2>6
<1> QED BY <1>1 DEF Sound, Accounts

\* A ready task starts computing: it waits for nothing.
LEMMA ProcessReadyTaskAccounts ==
  ASSUME TypeOK, TypeOK', Accounts, ProcessReadyTask
  PROVE  /\ Accounts'
         /\ IsReady(Head(readyTaskInfos)) /\ Head(readyTaskInfos) \in Keys
<1>1. PICK k : k = Head(readyTaskInfos)
  OBVIOUS
<1>2. /\ pc = "ready" /\ pc' = pc /\ readyTaskInfos # <<>> /\ readyTaskInfos' = Tail(readyTaskInfos)
      /\ state' = [state EXCEPT ![k] = "InProgressComputing"]
      /\ UNCHANGED <<task, taskInfos>>
      /\ UNCHANGED <<inputRequests, finishedInputRequests, pausedInputRequests>>
  BY <1>1 DEF ProcessReadyTask, taskVars
<1>3. readyTaskInfos \in Seq(Keys) /\ state \in [Keys -> RuleStates]
  BY DEF TypeOK
<1>4. k \in Keys
  BY <1>1, <1>2, <1>3, SMT
<1>5. \A j \in Keys : Count(readyTaskInfos, {j}) = IF IsReady(j) THEN 1 ELSE 0
  BY DEF Accounts, ReadyOnce
<1>6. /\ Count(readyTaskInfos, {k}) = Count(Tail(readyTaskInfos), {k}) + 1
      /\ Count(Tail(readyTaskInfos), {k}) \in Nat
  BY <1>1, <1>2, <1>3, <1>4, ReadyCounts
<1>7. IsReady(k) /\ Count(readyTaskInfos', {k}) = 0
  <2>1. Count(readyTaskInfos, {k}) = IF IsReady(k) THEN 1 ELSE 0
    BY <1>4, <1>5
  <2>2. IsReady(k) /\ Count(Tail(readyTaskInfos), {k}) = 0
    BY ONLY <1>6, <2>1, SMT
  <2> QED BY <1>2, <2>2
<1>8. \A j \in Keys : state'[j] = IF j = k THEN "InProgressComputing" ELSE state[j]
  BY <1>2, <1>3, <1>4
<1>9. Counted'
  BY <1>2, SamePending, SameRequests DEF Counted, Accounts
<1>10. ReadyOnce'
  <2> SUFFICES ASSUME NEW j \in Keys
               PROVE  Count(readyTaskInfos', {j}) = IF IsReady(j)' THEN 1 ELSE 0
    BY DEF ReadyOnce
  <2>1. CASE j = k
    BY <1>7, <1>8, <2>1 DEF IsReady
  <2>2. CASE j # k
    <3>1. IsReady(j)' <=> IsReady(j)
      BY <1>2, <1>8, <2>2 DEF IsReady
    <3>2. Count(readyTaskInfos, {j}) = Count(readyTaskInfos', {j})
      BY <1>1, <1>2, <1>3, <2>2, ReadyCounts
    <3> QED BY <1>5, <3>1, <3>2
  <2> QED BY <2>1, <2>2
<1>11. Live'
  <2> SUFFICES ASSUME NEW j \in Keys
               PROVE  /\ InProgress(j)' => j \in taskInfos'
                      /\ j \in taskInfos' => InProgress(j)' \/ pc' \in Draining
                      /\ j \notin taskInfos' => task'[j] = NewTask
                      /\ state'[j] # "InProgressWaiting" => task'[j].waitCount = 0
    BY DEF Live, Draining, NewTask
  <2>1. /\ InProgress(j) => j \in taskInfos
        /\ j \in taskInfos => InProgress(j) \/ pc \in Draining
        /\ j \notin taskInfos => task[j] = NewTask
        /\ state[j] # "InProgressWaiting" => task[j].waitCount = 0
    BY DEF Accounts, Live, Draining
  <2> QED BY <1>2, <1>7, <1>8, <2>1 DEF InProgress, IsReady
<1> QED BY <1>1, <1>4, <1>7, <1>9, <1>10, <1>11 DEF Accounts

\* A finished task leaves dummy requests, which no task waits for.
LEMMA DummiesAreNotCounted ==
  ASSUME NEW discovered \in Seq(Dependency), NEW k \in Keys
  PROVE  Count([n \in DOMAIN discovered |-> DummyRequest(discovered[n].key)], Of(k)) = 0
<1>1. PICK q : q = [n \in DOMAIN discovered |-> DummyRequest(discovered[n].key)]
  OBVIOUS
<1>2. q \in Seq(InputRequest)
  BY <1>1, DummyRequestsType
<1>3. \A n \in DOMAIN q : q[n].task = NoKey
  BY <1>1 DEF DummyRequest
<1>4. \A n \in DOMAIN q : q[n] \in InputRequest
  BY <1>2, SMT
<1>5. \A n \in DOMAIN q : q[n] \notin Of(k)
  BY <1>3, <1>4, IsOf, KeysAssumption
<1> QED BY <1>1, <1>2, <1>5, CountUniform

-----------------------------------------------------------------------------
(***************************************************************************)
(* Every step keeps the accounts                                           *)
(***************************************************************************)
\* Nothing is in progress and nothing is queued.
Cleared ==
  /\ pausedInputRequests = [k \in Keys |-> <<>>]
  /\ inputRequests = <<>> /\ finishedInputRequests = <<>>
  /\ readyTaskInfos = <<>> /\ taskInfos = {}
  /\ task = [k \in Keys |-> NewTask]
  /\ \A k \in Keys : ~InProgress(k)

\* Where every list and every task is empty, the accounts are right.
LEMMA ClearedAccounts == Cleared => Accounts
<1> SUFFICES ASSUME Cleared
             PROVE  Accounts
  OBVIOUS
<1>1. Pending = [k \in Keys |-> <<>>] /\ pausedInputRequests = [k \in Keys |-> <<>>]
  BY DEF Cleared, Pending, NewTask
<1>2. ASSUME NEW k \in Keys
      PROVE  Requests(k) = 0
  <2>1. PICK none : none = [i \in Keys |-> <<>>]
    OBVIOUS
  <2>2. none \in [Keys -> Seq(InputRequest)] /\ \A i \in Keys : none[i] = <<>>
    BY <2>1, SMT
  <2>3. \A i \in Keys : Count(none[i], Of(k)) = 0
    BY <2>2, CountSmall
  <2>4. CountAt(none, Of(k)) = 0
    BY <2>2, <2>3, CountAtZero
  <2>5. Count(inputRequests, Of(k)) = 0 /\ Count(finishedInputRequests, Of(k)) = 0
    BY CountSmall DEF Cleared
  <2>6. CountAt(pausedInputRequests, Of(k)) = 0 /\ CountAt(Pending, Of(k)) = 0
    BY <1>1, <2>1, <2>4
  <2>7. Requests(k) = (Count(inputRequests, Of(k)) + Count(finishedInputRequests, Of(k)))
                      + (CountAt(pausedInputRequests, Of(k)) + CountAt(Pending, Of(k)))
    BY DEF Requests
  <2> QED BY ONLY <2>5, <2>6, <2>7, SMT
<1>3. \A k \in Keys : task[k] = NewTask /\ NewTask.waitCount = 0
  BY DEF Cleared, NewTask
<1>4. Counted
  BY <1>2, <1>3 DEF Counted
<1>5. ReadyOnce
  <2>1. \A k \in Keys : Count(readyTaskInfos, {k}) = 0 /\ ~IsReady(k)
    BY CountSmall DEF Cleared, IsReady, InProgress
  <2> QED BY <2>1 DEF ReadyOnce
<1>6. Live
  BY <1>3 DEF Live, Cleared, InProgress
<1> QED BY <1>4, <1>5, <1>6 DEF Accounts

\* The steps that touch no request, no rule state and no wait count.
Elsewise ==
  \/ StartTurn \/ NextQueue \/ EndTurn \/ WaitForTask \/ BuildIsDone
  \/ CycleIsReported \/ CycleReadsPastEnd \/ DrainTasks
  \/ BuildEnds \/ BuildEndsIterationNotStored
  \/ BuildIsRefused \/ BuildIsNotStarted \/ CancelBuild \/ ResetForBuild
  \/ SpuriousWakeup \/ UNCHANGED vars
  \/ \E k \in Keys : EnqueueFinishedTask(k) \/ NotifyEngine(k)

\* The steps that touch neither a task nor a request keep the accounts.
LEMMA ElsewiseAccounts ==
  ASSUME TypeOK, TypeOK', Accounts, Elsewise
  PROVE  Accounts'
<1>1. /\ UNCHANGED <<state, task, taskInfos, readyTaskInfos>>
      /\ UNCHANGED <<inputRequests, finishedInputRequests, pausedInputRequests>>
      /\ pc \in Draining => pc' \in Draining
  <2>1. CASE StartTurn \/ NextQueue \/ EndTurn \/ WaitForTask \/ SpuriousWakeup
    BY <2>1 DEF StartTurn, NextQueue, EndTurn, WaitForTask, SpuriousWakeup,
       loopUnchanged, ruleVars, queueVars, taskVars, Draining
  <2>2. CASE BuildIsDone \/ CycleIsReported \/ CycleReadsPastEnd
    BY <2>2 DEF BuildIsDone, CycleIsReported, CycleReadsPastEnd, Stuck, NoWorkLeft,
       ruleVars, queueVars, taskVars, Draining
  <2>3. CASE DrainTasks
    BY <2>3 DEF DrainTasks, ruleVars, queueVars, taskVars, Draining
  <2>4. CASE BuildEnds \/ BuildEndsIterationNotStored
    BY <2>4 DEF BuildEnds, BuildEndsIterationNotStored, ruleVars, queueVars, taskVars, Draining
  <2>5. CASE BuildIsRefused \/ BuildIsNotStarted \/ CancelBuild \/ ResetForBuild
    BY <2>5 DEF BuildIsRefused, BuildIsNotStarted, CancelBuild, ResetForBuild,
       ruleVars, queueVars, taskVars
  <2>6. CASE UNCHANGED vars
    BY <2>6 DEF vars, ruleVars, queueVars, taskVars
  <2>7. ASSUME NEW k \in Keys, EnqueueFinishedTask(k) \/ NotifyEngine(k)
        PROVE  /\ UNCHANGED <<state, task, taskInfos, readyTaskInfos>>
               /\ UNCHANGED <<inputRequests, finishedInputRequests, pausedInputRequests>>
               /\ pc \in Draining => pc' \in Draining
    <3>1. /\ UNCHANGED <<state, task, taskInfos, readyTaskInfos>>
          /\ UNCHANGED <<inputRequests, finishedInputRequests, pausedInputRequests>>
      BY <2>7 DEF EnqueueFinishedTask, NotifyEngine, workerUnchanged, queueVars
    <3>2. CASE EnqueueFinishedTask(k)
      BY <3>1, <3>2 DEF EnqueueFinishedTask
    <3>3. CASE NotifyEngine(k)
      BY <3>1, <3>3 DEF NotifyEngine, Draining
    <3> QED BY <2>7, <3>2, <3>3
  <2> QED BY <2>1, <2>2, <2>3, <2>4, <2>5, <2>6, <2>7 DEF Elsewise
<1>2. Quiet
  BY <1>1 DEF Quiet
<1> QED BY <1>1, <1>2, SamePending, SameRequests, QuietAccounts

\* Every step keeps the accounts.
LEMMA NextAccounts ==
  ASSUME TypeOK, TypeOK', LoopInv, Next
  PROVE  Accounts'

\* Changing the list at one rule changes the count by what that list loses and gains.
<1>RequestsReplaced.
  ASSUME NEW old \in RequestLists, NEW new \in RequestLists, NEW i \in Keys,
         SameBut(new, old, i), NEW k \in Keys
  PROVE  /\ CountAt(new, Of(k)) + Count(old[i], Of(k)) = CountAt(old, Of(k)) + Count(new[i], Of(k))
         /\ CountAt(new, Of(k)) \in Nat /\ CountAt(old, Of(k)) \in Nat
         /\ Count(old[i], Of(k)) \in Nat /\ Count(new[i], Of(k)) \in Nat
  <2> USE <1>RequestsReplaced
  <2>1. old \in [Keys -> Seq(InputRequest)] /\ new \in [Keys -> Seq(InputRequest)]
    BY DEF RequestLists, Lists
  <2>2. CountAt(new, Of(k)) + Count(old[i], Of(k)) = CountAt(old, Of(k)) + Count(new[i], Of(k))
    <3>1. Replaced(new, old, i, Of(k))
      BY CountReplace DEF RequestLists
    <3> QED BY <3>1 DEF Replaced
  <2>3. CountAt(new, Of(k)) \in Nat /\ CountAt(old, Of(k)) \in Nat
    BY <2>1, CountAtType
  <2>4. Count(old[i], Of(k)) \in Nat /\ Count(new[i], Of(k)) \in Nat
    BY <2>1, CountType
  <2> QED BY <2>2, <2>3, <2>4

\* What appending, concatenating and taking from either end do to the count of
\* a list of requests.
<1>RequestsJoined.
  ASSUME NEW s \in RequestList, NEW k \in Keys
  PROVE  /\ Count(s, Of(k)) \in Nat
         /\ \A t \in RequestList : Joined(s \o t, s, t, Of(k))
         /\ \A x \in InputRequest : Joined(Append(s, x), s, <<x>>, Of(k))
         /\ s # <<>> => /\ Joined(s, <<Head(s)>>, Tail(s), Of(k))
                        /\ Joined(s, PopBack(s), <<Back(s)>>, Of(k))
                        /\ Head(s) \in InputRequest /\ Tail(s) \in RequestList
                        /\ Back(s) \in InputRequest /\ PopBack(s) \in RequestList
  <2> USE <1>RequestsJoined
  <2>1. s \in Seq(InputRequest)
    BY DEF RequestList
  <2>2. PICK S : S = Of(k)
    OBVIOUS
  <2>3. Count(s, S) \in Nat
    BY <2>1, CountType
  <2>4. ASSUME NEW t \in RequestList
        PROVE  Joined(s \o t, s, t, S)
    BY <2>1, CountConcat DEF RequestList, Joined
  <2>5. ASSUME NEW x \in InputRequest
        PROVE  Joined(Append(s, x), s, <<x>>, S)
    BY <2>1, CountAppend DEF Joined
  <2>6. ASSUME s # <<>>
        PROVE  /\ Joined(s, <<Head(s)>>, Tail(s), S)
               /\ Joined(s, PopBack(s), <<Back(s)>>, S)
               /\ Head(s) \in InputRequest /\ Tail(s) \in RequestList
               /\ Back(s) \in InputRequest /\ PopBack(s) \in RequestList
    <3>1. Joined(s, <<Head(s)>>, Tail(s), S)
      BY <2>1, <2>6, CountTail DEF Joined
    <3>2. Joined(s, PopBack(s), <<Back(s)>>, S)
      BY <2>1, <2>6, CountPopBack DEF Joined
    <3>3. /\ Head(s) \in InputRequest /\ Tail(s) \in Seq(InputRequest)
          /\ Back(s) \in InputRequest /\ PopBack(s) \in Seq(InputRequest)
      BY ONLY <2>1, <2>6, SMT DEF Back, PopBack
    <3> QED BY <3>1, <3>2, <3>3 DEF RequestList
  <2> QED BY <2>2, <2>3, <2>4, <2>5, <2>6

\* A single request counts for its task.
<1>OneRequest.
  ASSUME NEW x \in InputRequest, NEW k \in Keys
  PROVE  /\ x.task = k => Count(<<x>>, Of(k)) = 1
         /\ x.task # k => Count(<<x>>, Of(k)) = 0
         /\ Count(<<x>>, Of(k)) \in Nat
  <2> USE <1>OneRequest
  <2>1. x \in Of(k) <=> x.task = k
    BY IsOf
  <2>2. /\ x \in Of(k) => Count(<<x>>, Of(k)) = 1
        /\ x \notin Of(k) => Count(<<x>>, Of(k)) = 0
    BY CountSmall
  <2> QED BY <2>1, <2>2, SMT

\* The requests of a callback are all of the task that was called.
<1>CountOwn.
  ASSUME NEW k \in Keys, NEW requests \in Seq(TaskRequest), NEW j \in Keys
  PROVE  /\ Len(AsRequests(k, requests)) \in Nat
         /\ j = k => Count(AsRequests(k, requests), Of(j)) = Len(AsRequests(k, requests))
         /\ j # k => Count(AsRequests(k, requests), Of(j)) = 0
  <2> USE <1>CountOwn
  <2> DEFINE q == AsRequests(k, requests)
  <2>1. q \in Seq(InputRequest)
    BY AsRequestsType
  <2>2. \A n \in DOMAIN q : q[n] \in InputRequest /\ q[n].task = k
    <3> SUFFICES ASSUME NEW n \in DOMAIN q
                 PROVE  q[n] \in InputRequest /\ q[n].task = k
      OBVIOUS
    <3>1. q[n] \in InputRequest
      BY <2>1, SMT
    <3>2. n \in DOMAIN requests
      BY DEF AsRequests
    <3>3. q[n].task = k
      BY <3>2 DEF AsRequests
    <3> QED BY <3>1, <3>3
  <2> HIDE DEF q
  <2>3. j = k => \A n \in DOMAIN q : q[n] \in Of(j)
    BY <2>2, IsOf
  <2>4. j # k => \A n \in DOMAIN q : q[n] \notin Of(j)
    <3>1. \A n \in DOMAIN q : q[n] \in Of(j) <=> q[n].task = j
      BY <2>2, IsOf
    <3> QED BY ONLY <2>2, <3>1, SMT
  <2>5. Len(q) \in Nat
    BY ONLY <2>1, SMT
  <2>6. /\ j = k => Count(q, Of(j)) = Len(q)
        /\ j # k => Count(q, Of(j)) = 0
    BY <2>1, <2>3, <2>4, CountUniform
  <2> QED BY <2>5, <2>6 DEF q

\* The requests a started task makes, and their effect on its wait count.
<1>StartedAre.
  ASSUME TypeOK, Accounts, pc \notin Draining, NEW k \in Keys, ScanState(k) # "IsScanning"
  PROVE  /\ \A j \in Keys :
              /\ StartedTask(k)[j].requestedBy = task[j].requestedBy
              /\ StartedTask(k)[j].waitCount = task[j].waitCount + Count(StartedRequests(k), Of(j))
              /\ j # k => StartedTask(k)[j] = task[j]
              /\ j # k => Count(StartedRequests(k), Of(j)) = 0
              /\ Count(StartedRequests(k), Of(j)) \in Nat
         /\ Count(StartedRequests(k), Of(k)) = Len(StartedRequests(k))
         /\ ~Starts(k) => StartedTask(k) = task /\ StartedRequests(k) = <<>>
         /\ Starts(k) => k \notin taskInfos /\ task[k].waitCount = 0
  <2> USE <1>StartedAre
  <2>1. /\ \A j \in Keys : /\ StartedTask(k)[j].requestedBy = task[j].requestedBy
                           /\ j # k => StartedTask(k)[j] = task[j]
        /\ ~Starts(k) => StartedTask(k) = task /\ StartedRequests(k) = <<>>
        /\ Starts(k) => /\ k \notin taskInfos /\ task[k].waitCount = 0
                        /\ StartedTask(k)[k].waitCount = Len(StartedRequests(k))
    BY StartedIs DEF Accounts
  <2>2. PICK q : q = StartedRequests(k)
    OBVIOUS
  <2>3. /\ Len(q) \in Nat /\ Count(q, Of(k)) = Len(q)
        /\ \A j \in Keys : j # k => Count(q, Of(j)) = 0
    <3>1. CASE ~Starts(k)
      <4>1. q = <<>>
        BY <2>1, <2>2, <3>1
      <4>2. Len(q) = 0
        BY <4>1
      <4>3. \A j \in Keys : Count(q, Of(j)) = 0
        BY <4>1, CountSmall
      <4>4. Len(q) \in Nat
        BY ONLY <4>2, SMT
      <4> QED BY <4>2, <4>3, <4>4
    <3>2. CASE Starts(k)
      <4>1. PICK r : r = StartRequests(k, manifest, world)
        OBVIOUS
      <4>2. r \in Seq(TaskRequest) /\ q = AsRequests(k, r)
        BY <2>2, <3>2, <4>1, ClientAssumption DEF TypeOK, StartedRequests
      <4> QED BY <4>2, <1>CountOwn
    <3> QED BY <3>1, <3>2
  <2>4. ASSUME NEW j \in Keys
        PROVE  /\ StartedTask(k)[j].waitCount = task[j].waitCount + Count(q, Of(j))
               /\ Count(q, Of(j)) \in Nat
    <3>1. task[j].waitCount \in Int
      BY DEF TypeOK, TaskInfo
    <3>2. CASE j = k /\ Starts(k)
      <4>1. StartedTask(k)[j].waitCount = Len(q) /\ task[j].waitCount = 0
        BY <2>1, <2>2, <3>2
      <4>2. Count(q, Of(j)) = Len(q) /\ Len(q) \in Nat
        BY <2>3, <3>2
      <4> QED BY ONLY <4>1, <4>2, SMT
    <3>3. CASE ~(j = k /\ Starts(k))
      <4>1. StartedTask(k)[j] = task[j]
        BY <2>1, <3>3
      <4>2. Count(q, Of(j)) = 0
        <5>1. CASE j = k
          BY <2>1, <2>2, <3>3, <5>1, CountSmall
        <5> QED BY <2>3, <5>1
      <4> QED BY ONLY <3>1, <4>1, <4>2, SMT
    <3> QED BY <3>2, <3>3
  <2> QED BY <2>1, <2>2, <2>3, <2>4

\* demandRule, and the requests of the task it starts, keep the accounts.
<1>DemandAccounts.
  ASSUME TypeOK, Accounts, pc \notin Draining, pc' = pc,
         NEW k \in Keys, ScanState(k) # "IsScanning", DemandRule(k),
         \A j \in Keys : task'[j].waitCount = StartedTask(k)[j].waitCount,
         \A j \in Keys : j \notin taskInfos' => task'[j] = task[j],
         \A j \in Keys : Requests(j)' = Requests(j) + Count(StartedRequests(k), Of(j))
  PROVE  Accounts'
  <2> USE <1>DemandAccounts
  <2>1. /\ \A j \in Keys :
             /\ StartedTask(k)[j].waitCount = task[j].waitCount + Count(StartedRequests(k), Of(j))
             /\ j # k => Count(StartedRequests(k), Of(j)) = 0
        /\ Count(StartedRequests(k), Of(k)) = Len(StartedRequests(k))
        /\ ~Starts(k) => StartedTask(k) = task /\ StartedRequests(k) = <<>>
        /\ Starts(k) => k \notin taskInfos /\ task[k].waitCount = 0
    BY <1>StartedAre
  <2>2. state' = [state EXCEPT ![k] = DemandState(k)] /\ state \in [Keys -> RuleStates]
    BY DEF DemandRule, TypeOK
  <2>3. state'[k] = DemandState(k) /\ \A j \in Keys : j # k => state'[j] = state[j]
    BY <2>2
  <2>4. CASE ~Starts(k)
    <3>1. \A j \in Keys : state'[j] = state[j] \/ (~InProgress(j) /\ ~InProgress(j)')
      <4>1. DemandState(k) = state[k] \/ (DemandState(k) = "Complete" /\ ~InProgress(k))
        BY <2>4, DemandIs
      <4> QED BY <2>3, <4>1 DEF InProgress
    <3>2. taskInfos' = taskInfos /\ readyTaskInfos' = readyTaskInfos
      BY <2>4 DEF DemandRule
    <3>3. \A j \in Keys : Requests(j)' = Requests(j)
      <4> SUFFICES ASSUME NEW j \in Keys
                   PROVE  Requests(j)' = Requests(j)
        OBVIOUS
      <4>1. Count(StartedRequests(k), Of(j)) = 0
        BY <2>1, <2>4, CountSmall
      <4>2. Requests(j) \in Nat /\ Requests(j)' = Requests(j) + Count(StartedRequests(k), Of(j))
        BY RequestsType
      <4> QED BY ONLY <4>1, <4>2, SMT
    <3>4. Quiet
      BY <2>1, <2>4, <3>1, <3>2 DEF Quiet
    <3> QED BY <3>3, <3>4, QuietAccounts
  <2>5. CASE Starts(k)
    <3>1. DemandState(k) = "InProgressWaiting" /\ ~InProgress(k)
      BY <2>5, DemandIs
    <3>2. taskInfos' = taskInfos \cup {k}
      BY <2>5 DEF DemandRule
    <3>3. PICK n : n = Len(StartedRequests(k))
      OBVIOUS
    <3>4. n \in Nat /\ (n = 0 <=> StartedRequests(k) = <<>>)
      <4>1. StartedRequests(k) \in Seq(InputRequest)
        BY DemandTypes
      <4> QED BY ONLY <3>3, <4>1, SMT
    <3>5. task'[k].waitCount = n /\ Requests(k)' = n
      <4>1. task'[k].waitCount = task[k].waitCount + n /\ task[k].waitCount = 0
        BY <2>1, <2>5, <3>3
      <4>2. Requests(k)' = Requests(k) + n /\ Requests(k) = task[k].waitCount
        BY <2>1, <3>3 DEF Accounts, Counted
      <4> QED BY ONLY <4>1, <4>2, <3>4, SMT
    <3>6. \A j \in Keys : j # k => task'[j].waitCount = task[j].waitCount /\ Requests(j)' = Requests(j)
      <4> SUFFICES ASSUME NEW j \in Keys, j # k
                   PROVE  task'[j].waitCount = task[j].waitCount /\ Requests(j)' = Requests(j)
        OBVIOUS
      <4>1. /\ task'[j].waitCount = task[j].waitCount + Count(StartedRequests(k), Of(j))
            /\ Count(StartedRequests(k), Of(j)) = 0
            /\ Requests(j)' = Requests(j) + Count(StartedRequests(k), Of(j))
        BY <2>1
      <4>2. Requests(j) \in Nat /\ Requests(j) = task[j].waitCount
        BY RequestsType DEF Accounts, Counted
      <4> QED BY ONLY <4>1, <4>2, SMT
    <3>7. Counted'
      BY <3>5, <3>6 DEF Accounts, Counted
    <3>8. ReadyOnce'
      <4> SUFFICES ASSUME NEW j \in Keys
                   PROVE  Count(readyTaskInfos', {j}) = IF IsReady(j)' THEN 1 ELSE 0
        BY DEF ReadyOnce
      <4>1. readyTaskInfos \in Seq(Keys)
        BY RequestTypesOf
      <4>2. Count(readyTaskInfos, {j}) = IF IsReady(j) THEN 1 ELSE 0
        BY DEF Accounts, ReadyOnce
      <4>3. readyTaskInfos' = IF n = 0 THEN Append(readyTaskInfos, k) ELSE readyTaskInfos
        BY <2>5, <3>4 DEF DemandRule
      <4>4. Count(Append(readyTaskInfos, k), {j}) = Count(readyTaskInfos, {j}) + Count(<<k>>, {j})
        BY <4>1, CountAppend
      <4>5. /\ j = k => Count(<<k>>, {j}) = 1
            /\ j # k => Count(<<k>>, {j}) = 0
        BY CountSmall
      <4>6. /\ j = k => ~IsReady(j) /\ (IsReady(j)' <=> n = 0)
            /\ j # k => (IsReady(j)' <=> IsReady(j))
        BY <2>3, <3>1, <3>5, <3>6 DEF IsReady, InProgress
      <4>7. Count(Append(readyTaskInfos, k), {j}) =
              (IF IsReady(j) THEN 1 ELSE 0) + (IF j = k THEN 1 ELSE 0)
        BY <4>2, <4>4, <4>5
      <4>8. IsReady(j) \in BOOLEAN /\ IsReady(j)' \in BOOLEAN
        BY DEF IsReady
      <4> HIDE DEF IsReady
      <4> QED BY ONLY <4>2, <4>3, <4>6, <4>7, SMT
    <3>9. Live'
      <4> SUFFICES ASSUME NEW j \in Keys
                   PROVE  /\ InProgress(j)' => j \in taskInfos'
                          /\ j \in taskInfos' => InProgress(j)' \/ pc' \in Draining
                          /\ j \notin taskInfos' => task'[j] = NewTask
                          /\ state'[j] # "InProgressWaiting" => task'[j].waitCount = 0
        BY DEF Live, Draining, NewTask
      <4>1. /\ InProgress(j) => j \in taskInfos
            /\ j \in taskInfos => InProgress(j)
            /\ j \notin taskInfos => task[j] = NewTask
            /\ state[j] # "InProgressWaiting" => task[j].waitCount = 0
        BY DEF Accounts, Live, Draining
      <4>2. InProgress(k)' /\ state'[k] = "InProgressWaiting"
        BY <2>3, <3>1 DEF InProgress
      <4>3. j # k => (InProgress(j)' <=> InProgress(j)) /\ state'[j] = state[j]
        BY <2>3 DEF InProgress
      <4> QED BY <3>2, <3>6, <4>1, <4>2, <4>3
    <3> QED BY <3>7, <3>8, <3>9 DEF Accounts
  <2> QED BY <2>4, <2>5

\* finishScanRequest gives the paused requests back to the queue.
<1>FinishScanRequests.
  ASSUME TypeOK, TypeOK', NEW i \in Keys, NEW rest, FinishScanRequest(i, rest),
         finishedInputRequests' = finishedInputRequests, Pending' = Pending
  PROVE  \A k \in Keys : Requests(k)' = Requests(k)
  <2> USE <1>FinishScanRequests
  <2> SUFFICES ASSUME NEW k \in Keys
               PROVE  Requests(k)' = Requests(k)
    OBVIOUS
  <2>1. /\ inputRequests' = inputRequests \o pausedInputRequests[i]
        /\ pausedInputRequests' = [pausedInputRequests EXCEPT ![i] = <<>>]
    BY DEF FinishScanRequest
  <2>2. /\ inputRequests \in Seq(InputRequest) /\ pausedInputRequests \in [Keys -> Seq(InputRequest)]
        /\ pausedInputRequests' \in [Keys -> Seq(InputRequest)]
    BY DEF TypeOK
  <2>3. pausedInputRequests[i] \in Seq(InputRequest)
    BY <2>2
  <2>4. Count(inputRequests', Of(k)) = Count(inputRequests, Of(k)) + Count(pausedInputRequests[i], Of(k))
    <3>1. PICK p : p = pausedInputRequests[i]
      OBVIOUS
    <3>2. Count(inputRequests \o p, Of(k)) = Count(inputRequests, Of(k)) + Count(p, Of(k))
      BY ONLY <2>2, <2>3, <3>1, CountConcat, Zenon
    <3> QED BY ONLY <2>1, <3>1, <3>2, Zenon
  <2>5. /\ pausedInputRequests'[i] = <<>>
        /\ \A j \in Keys : j # i => pausedInputRequests'[j] = pausedInputRequests[j]
    BY <2>1, <2>2
  <2>6. CountAt(pausedInputRequests', Of(k)) + Count(pausedInputRequests[i], Of(k))
          = CountAt(pausedInputRequests, Of(k)) + Count(pausedInputRequests'[i], Of(k))
    <3>1. PICK new : new = pausedInputRequests'
      OBVIOUS
    <3>2. CountAt(new, Of(k)) + Count(pausedInputRequests[i], Of(k))
            = CountAt(pausedInputRequests, Of(k)) + Count(new[i], Of(k))
      <4>1. /\ pausedInputRequests \in RequestLists
            /\ new \in RequestLists /\ SameBut(new, pausedInputRequests, i)
        BY ONLY <2>2, <2>5, <3>1, Zenon DEF SameBut, RequestLists, Lists
      <4> QED BY ONLY i \in Keys, k \in Keys, <4>1, <1>RequestsReplaced, Zenon
    <3> QED BY ONLY <3>1, <3>2, Zenon
  <2>7. Count(pausedInputRequests'[i], Of(k)) = 0
    BY <2>5, CountSmall
  <2>8. /\ Count(inputRequests, Of(k)) \in Nat
        /\ Count(finishedInputRequests, Of(k)) \in Nat
        /\ CountAt(pausedInputRequests, Of(k)) \in Nat
        /\ CountAt(Pending, Of(k)) \in Nat
    BY RequestsType
  <2>9. Count(pausedInputRequests[i], Of(k)) \in Nat /\ CountAt(pausedInputRequests', Of(k)) \in Nat
    BY <2>2, <2>3, CountType, CountAtType
  <2>10. Requests(k)' = (Count(inputRequests', Of(k)) + Count(finishedInputRequests, Of(k)))
                        + (CountAt(pausedInputRequests', Of(k)) + CountAt(Pending, Of(k)))
    BY DEF Requests
  <2>11. Requests(k) = (Count(inputRequests, Of(k)) + Count(finishedInputRequests, Of(k)))
                       + (CountAt(pausedInputRequests, Of(k)) + CountAt(Pending, Of(k)))
    BY DEF Requests
  <2> QED BY ONLY <2>4, <2>6, <2>7, <2>8, <2>9, <2>10, <2>11, SMT

\* Every step of processRuleScanRequest keeps the accounts.
<1>ScanAccounts.
  ASSUME TypeOK, TypeOK', Accounts, ProcessRuleScanRequest
  PROVE  Accounts'
  <2> USE <1>ScanAccounts
  <2>1. ruleInfosToScan # <<>> /\ pc = "scan"
    BY DEF ProcessRuleScanRequest, ScanDropped, ScanSkips, ScanDefersOnScan,
       ScanDefersOnTask, ScanNextInput, ScanFindsRebuiltInput, ScanReachesEnd, AtInput, Scanning
  <2>2. pc' = pc /\ pc \notin Draining
    <3>1. pc' = pc
      BY DEF ProcessRuleScanRequest, ScanDropped, ScanSkips, ScanDefersOnScan,
         ScanDefersOnTask, ScanNextInput, ScanFindsRebuiltInput, ScanReachesEnd, engineUnchanged
    <3> QED BY <2>1, <3>1 DEF Draining
  <2>3. ScanTop.rule \in Keys /\ (ScanTop.inputIndex <= Len(ScanDeps) => ScanInput \in Keys)
    BY <2>1, ScanTopTypes
  <2>4. state \in [Keys -> RuleStates] /\ task \in [Keys -> TaskInfo]
    BY DEF TypeOK
  <2>5. CASE ScanDropped \/ ScanSkips
    <3>1. /\ UNCHANGED <<state, task, taskInfos, readyTaskInfos>>
          /\ UNCHANGED <<inputRequests, finishedInputRequests, pausedInputRequests>>
      BY <2>5 DEF ScanDropped, ScanSkips, ruleVars, taskVars
    <3>2. Quiet
      BY <2>2, <3>1 DEF Quiet
    <3> QED BY <3>1, <3>2, SamePending, SameRequests, QuietAccounts
  <2>6. CASE ScanDefersOnScan
    <3>1. ScanInput \in Keys /\ ~InProgress(ScanInput) /\ ScanState(ScanInput) = "IsScanning"
      BY <2>3, <2>6, NotInProgress DEF ScanDefersOnScan, AtInput
    <3>2. /\ UNCHANGED <<task, taskInfos, readyTaskInfos>>
          /\ UNCHANGED <<inputRequests, finishedInputRequests, pausedInputRequests>>
      BY <2>6 DEF ScanDefersOnScan, taskVars
    <3>3. state' = [state EXCEPT ![ScanInput] = "IsScanning"]
      BY <2>6, <3>1 DEF ScanDefersOnScan, ScanRule
    <3>4. \A k \in Keys : state'[k] = state[k] \/ (~InProgress(k) /\ ~InProgress(k)')
      BY <2>4, <3>1, <3>3 DEF InProgress
    <3>5. Quiet
      BY <2>2, <3>2, <3>4 DEF Quiet
    <3> QED BY <3>2, <3>5, SamePending, SameRequests, QuietAccounts
  <2>7. CASE ScanDefersOnTask
    <3>1. ScanInput \in Keys /\ ScanState(ScanInput) # "IsScanning" /\ DemandRule(ScanInput)
      BY <2>3, <2>7 DEF ScanDefersOnTask, AtInput
    <3>2. PICK i : i = ScanInput
      OBVIOUS
    <3>3. PICK new : new = StartedTask(i)
      OBVIOUS
    <3>4. PICK q : q = Append(new[i].deferredScans, ScanTop)
      OBVIOUS
    <3>5. task' = [new EXCEPT ![i].deferredScans = q]
      BY <2>7, <3>2, <3>3, <3>4 DEF ScanDefersOnTask
    <3>6. new \in [Keys -> TaskInfo] /\ i \in Keys
      BY <3>1, <3>2, <3>3, DemandTypes
    <3>7. task'[i] = [new[i] EXCEPT !.deferredScans = q] /\ \A j \in Keys : j # i => task'[j] = new[j]
      BY <3>5, <3>6
    <3>8. /\ [new[i] EXCEPT !.deferredScans = q].waitCount = new[i].waitCount
          /\ [new[i] EXCEPT !.deferredScans = q].requestedBy = new[i].requestedBy
      BY <3>6 DEF TaskInfo
    <3>9. /\ \A j \in Keys : task'[j].waitCount = StartedTask(i)[j].waitCount
          /\ \A j \in Keys : task'[j].requestedBy = StartedTask(i)[j].requestedBy
      BY <3>3, <3>7, <3>8
    <3>10. /\ \A j \in Keys : StartedTask(i)[j].requestedBy = task[j].requestedBy
           /\ \A j \in Keys : j # i => StartedTask(i)[j] = task[j]
      BY <2>2, <3>1, <3>2, <1>StartedAre
    <3>11. Pending' = Pending
      BY <3>9, <3>10 DEF Pending
    <3>12. i \in taskInfos'
      <4>1. Starts(i) \/ InProgress(i)
        BY <2>7, <3>1, <3>2, DemandIs DEF ScanDefersOnTask
      <4> QED BY <3>1, <3>2, <3>6, <4>1 DEF DemandRule, Accounts, Live
    <3>13. \A j \in Keys : j \notin taskInfos' => task'[j] = task[j]
      BY <3>3, <3>7, <3>10, <3>12
    <3>14. /\ inputRequests' = inputRequests \o StartedRequests(i)
           /\ UNCHANGED <<finishedInputRequests, pausedInputRequests>>
      BY <2>7, <3>2 DEF ScanDefersOnTask
    <3>15. \A j \in Keys : Requests(j)' = Requests(j) + Count(StartedRequests(i), Of(j))
      <4> SUFFICES ASSUME NEW j \in Keys
                   PROVE  Requests(j)' = Requests(j) + Count(StartedRequests(i), Of(j))
        OBVIOUS
      <4>1. StartedRequests(i) \in Seq(InputRequest) /\ inputRequests \in Seq(InputRequest)
        BY <3>6, DemandTypes, RequestTypesOf
      <4>2. Count(inputRequests', Of(j)) = Count(inputRequests, Of(j)) + Count(StartedRequests(i), Of(j))
        BY <3>14, <4>1, CountConcat
      <4>3. Requests(j)' = (Count(inputRequests', Of(j)) + Count(finishedInputRequests, Of(j)))
                           + (CountAt(pausedInputRequests, Of(j)) + CountAt(Pending, Of(j)))
        BY <3>11, <3>14 DEF Requests
      <4>4. Requests(j) = (Count(inputRequests, Of(j)) + Count(finishedInputRequests, Of(j)))
                          + (CountAt(pausedInputRequests, Of(j)) + CountAt(Pending, Of(j)))
        BY DEF Requests
      <4>5. /\ Count(inputRequests, Of(j)) \in Nat
            /\ Count(finishedInputRequests, Of(j)) \in Nat
            /\ CountAt(pausedInputRequests, Of(j)) \in Nat
            /\ CountAt(Pending, Of(j)) \in Nat
            /\ Count(StartedRequests(i), Of(j)) \in Nat
        BY <4>1, RequestsType, CountType
      <4> QED BY ONLY <4>2, <4>3, <4>4, <4>5, SMT
    <3>16. ScanState(i) # "IsScanning" /\ DemandRule(i)
      BY <3>1, <3>2
    <3> QED BY <2>2, <3>6, <3>9, <3>13, <3>15, <3>16, <1>DemandAccounts
  <2>8. CASE ScanNextInput
    <3>1. ScanInput \in Keys /\ ~InProgress(ScanInput) /\ DemandRule(ScanInput) /\ Available(ScanInput)
      BY <2>3, <2>8, NotInProgress DEF ScanNextInput, AtInput
    <3>2. ~Starts(ScanInput)
      BY <3>1, NotInProgress, DemandIs
    <3>3. /\ UNCHANGED <<task, taskInfos, readyTaskInfos>>
          /\ UNCHANGED <<inputRequests, finishedInputRequests, pausedInputRequests>>
      BY <2>8, <3>1, <3>2 DEF ScanNextInput, DemandRule
    <3>4. state' = [state EXCEPT ![ScanInput] = "Complete"]
      BY <3>1 DEF DemandRule, Available
    <3>5. \A k \in Keys : state'[k] = state[k] \/ (~InProgress(k) /\ ~InProgress(k)')
      BY <2>4, <3>1, <3>4 DEF InProgress
    <3>6. Quiet
      BY <2>2, <3>3, <3>5 DEF Quiet
    <3> QED BY <3>3, <3>6, SamePending, SameRequests, QuietAccounts
  <2>9. CASE ScanFindsRebuiltInput
    <3>1. /\ ScanInput \in Keys /\ ~InProgress(ScanInput)
          /\ ~InProgress(ScanTop.rule) /\ FinishScanRequest(ScanTop.rule, ScanRest)
      BY <2>3, <2>9, NotInProgress DEF ScanFindsRebuiltInput, AtInput
    <3>2. UNCHANGED <<task, taskInfos, readyTaskInfos, finishedInputRequests>>
      BY <2>9 DEF ScanFindsRebuiltInput, taskVars
    <3>3. state' = [state EXCEPT ![ScanInput] = "Complete", ![ScanTop.rule] = "NeedsToRun"]
      BY <2>9 DEF ScanFindsRebuiltInput
    <3>4. \A k \in Keys : state'[k] = state[k] \/ (~InProgress(k) /\ ~InProgress(k)')
      <4>1. PICK one : one = [state EXCEPT ![ScanInput] = "Complete"]
        OBVIOUS
      <4>2. state' = [one EXCEPT ![ScanTop.rule] = "NeedsToRun"]
        BY <3>3, <4>1
      <4>3. DOMAIN one = Keys /\ \A k \in Keys : one[k] = IF k = ScanInput THEN "Complete" ELSE state[k]
        BY <2>4, <4>1
      <4>4. \A k \in Keys : state'[k] = IF k = ScanTop.rule THEN "NeedsToRun" ELSE one[k]
        BY <4>2, <4>3
      <4> QED BY <3>1, <4>3, <4>4 DEF InProgress
    <3>5. Quiet
      BY <2>2, <3>2, <3>4 DEF Quiet
    <3> QED BY <2>3, <3>1, <3>2, <3>5, SamePending, <1>FinishScanRequests, QuietAccounts
  <2>10. CASE ScanReachesEnd
    <3>1. ~InProgress(ScanTop.rule) /\ FinishScanRequest(ScanTop.rule, ScanRest)
      BY <2>3, <2>10, NotInProgress DEF ScanReachesEnd
    <3>2. UNCHANGED <<task, taskInfos, readyTaskInfos, finishedInputRequests>>
      BY <2>10 DEF ScanReachesEnd, taskVars
    <3>3. PICK new \in {"NeedsToRun", "DoesNotNeedToRun"} : state' = [state EXCEPT ![ScanTop.rule] = new]
      BY <2>10 DEF ScanReachesEnd
    <3>4. \A k \in Keys : state'[k] = state[k] \/ (~InProgress(k) /\ ~InProgress(k)')
      BY <2>3, <2>4, <3>1, <3>3 DEF InProgress
    <3>5. Quiet
      BY <2>2, <3>2, <3>4 DEF Quiet
    <3> QED BY <2>3, <3>1, <3>2, <3>5, SamePending, <1>FinishScanRequests, QuietAccounts
  <2> QED BY <2>5, <2>6, <2>7, <2>8, <2>9, <2>10 DEF ProcessRuleScanRequest

\* The lists of requests are lists of requests.
<1>ListTypes.
  ASSUME TypeOK
  PROVE  /\ inputRequests \in RequestList /\ finishedInputRequests \in RequestList
         /\ pausedInputRequests \in RequestLists /\ Pending \in RequestLists
  BY <1>ListTypes, RequestTypesOf DEF RequestList, RequestLists, Lists

\* The lists of requests are of their types after a step, too.
<1>NextListTypes.
  ASSUME TypeOK'
  PROVE  /\ inputRequests' \in RequestList /\ finishedInputRequests' \in RequestList
         /\ pausedInputRequests' \in RequestLists /\ Pending' \in RequestLists
  <2> USE <1>NextListTypes
  <2>1. Seq(PendingRequest) \subseteq Seq(InputRequest)
    <3>1. PendingRequest \subseteq InputRequest
      BY DEF PendingRequest, InputRequest, RequestsFrom
    <3> QED BY ONLY <3>1, SMT
  <2>2. \A i \in Keys : task'[i].requestedBy \in Seq(PendingRequest)
    BY DEF TypeOK, TaskInfo
  <2>3. Pending' \in [Keys -> Seq(InputRequest)]
    BY <2>1, <2>2 DEF Pending
  <2> QED BY <2>1, <2>3 DEF TypeOK, RequestList, RequestLists, Lists

\* Before and after a step, all the counts are numbers.
<1>Numbers.
  ASSUME TypeOK, TypeOK', NEW k \in Keys
  PROVE  Numbered(k)
  <2> USE <1>Numbers
  <2>1. /\ Count(inputRequests', Of(k)) \in Nat /\ Count(finishedInputRequests', Of(k)) \in Nat
        /\ CountAt(pausedInputRequests', Of(k)) \in Nat /\ CountAt(Pending', Of(k)) \in Nat
    BY <1>NextListTypes, CountType, CountAtType DEF RequestList, RequestLists, Lists
  <2> QED BY <2>1, RequestsType DEF Requests, Numbered

\* The request at the head of the queue is paused, answered, or left to a task.
<1>InputPausesAccounts.
  ASSUME TypeOK, TypeOK', Accounts, InputPauses
  PROVE  Accounts'
  <2> USE <1>InputPausesAccounts
  <2>1. pc = "input" /\ pc' = pc /\ inputRequests # <<>>
    BY DEF InputPauses, AtRequest, engineUnchanged
  <2>2. PICK i, x : i = RequestInput /\ x = Request
    OBVIOUS
  <2>3. i \in Keys /\ x \in InputRequest
    BY <2>1, <2>2, RequestTypes
  <2>4. ScanState(i) = "IsScanning" /\ ~InProgress(i)
    BY <2>2, <2>3, NotInProgress DEF InputPauses
  <2>5. state' = [state EXCEPT ![i] = "IsScanning"] /\ state \in [Keys -> RuleStates]
    BY <2>2, <2>4 DEF InputPauses, ScanRule, TypeOK
  <2>6. \A k \in Keys : state'[k] = state[k] \/ (~InProgress(k) /\ ~InProgress(k)')
    BY <2>3, <2>4, <2>5 DEF InProgress
  <2>7. /\ UNCHANGED <<task, taskInfos, readyTaskInfos, finishedInputRequests>>
        /\ inputRequests' = Tail(inputRequests)
        /\ pausedInputRequests' = [pausedInputRequests EXCEPT ![i] = Append(@, x)]
    BY <2>2 DEF InputPauses, taskVars
  <2>8. Quiet
    BY <2>1, <2>6, <2>7 DEF Quiet, Draining
  <2>9. ASSUME NEW k \in Keys
        PROVE  Requests(k)' = Requests(k)
    <3>1. PICK new : new = pausedInputRequests'
      OBVIOUS
    <3>2. pausedInputRequests \in RequestLists /\ new \in RequestLists
      BY <3>1, <1>ListTypes, <1>NextListTypes
    <3>3. SameBut(new, pausedInputRequests, i) /\ new[i] = Append(pausedInputRequests[i], x)
      BY <2>3, <2>7, <3>1 DEF SameBut, TypeOK
    <3>4. /\ CountAt(new, Of(k)) + Count(pausedInputRequests[i], Of(k))
               = CountAt(pausedInputRequests, Of(k)) + Count(new[i], Of(k))
          /\ Count(pausedInputRequests[i], Of(k)) \in Nat /\ Count(new[i], Of(k)) \in Nat
      BY <2>3, <3>2, <3>3, <1>RequestsReplaced
    <3>5. pausedInputRequests[i] \in RequestList
      BY <2>3, <3>2 DEF RequestLists, Lists, RequestList
    <3>6. Joined(new[i], pausedInputRequests[i], <<x>>, Of(k))
      BY <2>3, <3>3, <3>5, <1>RequestsJoined
    <3>7. Joined(inputRequests, <<x>>, inputRequests', Of(k))
      BY <2>1, <2>2, <2>7, <1>ListTypes, <1>RequestsJoined DEF Request
    <3>8. Count(<<x>>, Of(k)) \in Nat
      BY <2>3, <1>OneRequest
    <3>9. Pending' = Pending
      BY <2>7, SamePending
    <3>10. finishedInputRequests' = finishedInputRequests
      BY <2>7
    <3>11. /\ Count(new[i], Of(k)) = Count(pausedInputRequests[i], Of(k)) + Count(<<x>>, Of(k))
           /\ Count(inputRequests, Of(k)) = Count(<<x>>, Of(k)) + Count(inputRequests', Of(k))
      BY <3>6, <3>7 DEF Joined
    <3>12. /\ Count(finishedInputRequests', Of(k)) = Count(finishedInputRequests, Of(k))
           /\ CountAt(Pending', Of(k)) = CountAt(Pending, Of(k))
           /\ CountAt(new, Of(k)) = CountAt(pausedInputRequests', Of(k))
      BY <3>1, <3>9, <3>10
    <3> QED BY ONLY <3>4, <3>8, <3>11, <3>12, TypeOK, TypeOK', k \in Keys, <1>Numbers, SMT DEF Numbered
  <2> QED BY <2>8, <2>9, QuietAccounts

\* The request of build() itself is dropped, once its rule is demanded.
<1>InputIsDummyAccounts.
  ASSUME TypeOK, TypeOK', Accounts, InputIsDummy
  PROVE  Accounts'
  <2> USE <1>InputIsDummyAccounts
  <2>1. pc = "input" /\ pc' = pc /\ inputRequests # <<>> /\ pc \notin Draining
    BY DEF InputIsDummy, AtRequest, engineUnchanged, Draining
  <2>2. PICK i, x : i = RequestInput /\ x = Request
    OBVIOUS
  <2>3. i \in Keys /\ x \in InputRequest
    BY <2>1, <2>2, RequestTypes
  <2>4. /\ ScanState(i) # "IsScanning" /\ DemandRule(i) /\ x.task = NoKey
        /\ UNCHANGED <<pausedInputRequests, finishedInputRequests>>
        /\ inputRequests' = Tail(inputRequests) \o StartedRequests(i)
        /\ task' = StartedTask(i)
    BY <2>2 DEF InputIsDummy
  <2>5. /\ \A j \in Keys : StartedTask(i)[j].requestedBy = task[j].requestedBy
        /\ \A j \in Keys : j # i => StartedTask(i)[j] = task[j]
    BY <2>1, <2>3, <2>4, <1>StartedAre
  <2>6. \A j \in Keys : j \notin taskInfos' => task'[j] = task[j]
    <3>1. Starts(i) => i \in taskInfos'
      BY <2>4 DEF DemandRule
    <3>2. ~Starts(i) => task' = task
      BY <2>4 DEF StartedTask
    <3> QED BY <2>4, <2>5, <3>1, <3>2
  <2>7. Pending' = Pending
    BY <2>4, <2>5 DEF Pending
  <2>8. ASSUME NEW j \in Keys
        PROVE  Requests(j)' = Requests(j) + Count(StartedRequests(i), Of(j))
    <3>1. PICK q, rest : q = StartedRequests(i) /\ rest = Tail(inputRequests)
      OBVIOUS
    <3>2. inputRequests \in RequestList /\ q \in RequestList
      BY <2>3, <3>1, <1>ListTypes, DemandTypes DEF RequestList
    <3>3. Joined(inputRequests, <<x>>, rest, Of(j)) /\ rest \in RequestList
      BY <2>1, <2>2, <3>1, <3>2, <1>RequestsJoined DEF Request
    <3>4. Joined(inputRequests', rest, q, Of(j))
      BY <2>4, <3>1, <3>2, <3>3, <1>RequestsJoined
    <3>5. Count(<<x>>, Of(j)) = 0
      BY <2>3, <2>4, <1>OneRequest, KeysAssumption
    <3>6. Count(rest, Of(j)) \in Nat /\ Count(q, Of(j)) \in Nat
      BY <3>2, <3>3, <1>RequestsJoined
    <3>7. /\ Count(inputRequests, Of(j)) = Count(<<x>>, Of(j)) + Count(rest, Of(j))
          /\ Count(inputRequests', Of(j)) = Count(rest, Of(j)) + Count(q, Of(j))
      BY <3>3, <3>4 DEF Joined
    <3>8. /\ Count(finishedInputRequests', Of(j)) = Count(finishedInputRequests, Of(j))
          /\ CountAt(pausedInputRequests', Of(j)) = CountAt(pausedInputRequests, Of(j))
          /\ CountAt(Pending', Of(j)) = CountAt(Pending, Of(j))
      BY <2>4, <2>7
    <3>9. Requests(j)' = Requests(j) + Count(q, Of(j))
      BY ONLY <3>5, <3>6, <3>7, <3>8, TypeOK, TypeOK', j \in Keys, <1>Numbers, SMT DEF Numbered
    <3> QED BY <3>1, <3>9
  <2> QED BY <2>1, <2>3, <2>4, <2>6, <2>8, <1>DemandAccounts

\* A request for a rule that is complete is queued to be provided.
<1>InputIsAvailableAccounts.
  ASSUME TypeOK, TypeOK', Accounts, InputIsAvailable
  PROVE  Accounts'
  <2> USE <1>InputIsAvailableAccounts
  <2>1. pc = "input" /\ pc' = pc /\ inputRequests # <<>> /\ pc \notin Draining
    BY DEF InputIsAvailable, AtRequest, engineUnchanged, Draining
  <2>2. PICK i, x : i = RequestInput /\ x = Request
    OBVIOUS
  <2>3. i \in Keys /\ x \in InputRequest
    BY <2>1, <2>2, RequestTypes
  <2>4. /\ ScanState(i) # "IsScanning" /\ DemandRule(i) /\ Available(i)
        /\ UNCHANGED <<pausedInputRequests, task>>
        /\ inputRequests' = Tail(inputRequests)
        /\ finishedInputRequests' = Append(finishedInputRequests, x)
    BY <2>2 DEF InputIsAvailable
  <2>5. ~InProgress(i) /\ ~Starts(i)
    BY <2>3, <2>4, NotInProgress, DemandIs
  <2>6. UNCHANGED <<taskInfos, readyTaskInfos>> /\ state' = [state EXCEPT ![i] = "Complete"]
    BY <2>4, <2>5 DEF DemandRule, Available
  <2>7. \A k \in Keys : state'[k] = state[k] \/ (~InProgress(k) /\ ~InProgress(k)')
    BY <2>3, <2>5, <2>6 DEF InProgress, TypeOK
  <2>8. Quiet
    BY <2>1, <2>4, <2>6, <2>7 DEF Quiet
  <2>9. ASSUME NEW j \in Keys
        PROVE  Requests(j)' = Requests(j)
    <3>1. Joined(inputRequests, <<x>>, inputRequests', Of(j))
      BY <2>1, <2>2, <2>4, <1>ListTypes, <1>RequestsJoined DEF Request
    <3>2. Joined(finishedInputRequests', finishedInputRequests, <<x>>, Of(j))
      BY <2>3, <2>4, <1>ListTypes, <1>RequestsJoined
    <3>3. Count(<<x>>, Of(j)) \in Nat
      BY <2>3, <1>OneRequest
    <3>4. /\ CountAt(pausedInputRequests', Of(j)) = CountAt(pausedInputRequests, Of(j))
          /\ CountAt(Pending', Of(j)) = CountAt(Pending, Of(j))
      BY <2>4, SamePending
    <3>5. /\ Count(inputRequests, Of(j)) = Count(<<x>>, Of(j)) + Count(inputRequests', Of(j))
          /\ Count(finishedInputRequests', Of(j))
               = Count(finishedInputRequests, Of(j)) + Count(<<x>>, Of(j))
      BY <3>1, <3>2 DEF Joined
    <3> QED BY ONLY <3>3, <3>4, <3>5, TypeOK, TypeOK', j \in Keys, <1>Numbers, SMT DEF Numbered
  <2> QED BY <2>8, <2>9, QuietAccounts

\* A request for a rule in progress waits at the task of that rule.
<1>InputIsPendingAccounts.
  ASSUME TypeOK, TypeOK', Accounts, InputIsPending
  PROVE  Accounts'
  <2> USE <1>InputIsPendingAccounts
  <2>1. pc = "input" /\ pc' = pc /\ inputRequests # <<>> /\ pc \notin Draining
    BY DEF InputIsPending, AtRequest, engineUnchanged, Draining
  <2>2. PICK i, x : i = RequestInput /\ x = Request
    OBVIOUS
  <2>3. i \in Keys /\ x \in InputRequest
    BY <2>1, <2>2, RequestTypes
  <2>4. PICK new, q : new = StartedTask(i) /\ q = Append(new[i].requestedBy, x)
    OBVIOUS
  <2>5. /\ ScanState(i) # "IsScanning" /\ DemandRule(i) /\ ~Available(i)
        /\ UNCHANGED <<pausedInputRequests, finishedInputRequests>>
        /\ inputRequests' = Tail(inputRequests) \o StartedRequests(i)
        /\ task' = [new EXCEPT ![i].requestedBy = q]
    BY <2>2, <2>4 DEF InputIsPending
  <2>6. new \in [Keys -> TaskInfo]
    BY <2>3, <2>4, DemandTypes
  <2>7. task'[i] = [new[i] EXCEPT !.requestedBy = q] /\ \A j \in Keys : j # i => task'[j] = new[j]
    BY <2>3, <2>5, <2>6
  <2>8. /\ [new[i] EXCEPT !.requestedBy = q].waitCount = new[i].waitCount
        /\ [new[i] EXCEPT !.requestedBy = q].requestedBy = q
    BY <2>3, <2>6 DEF TaskInfo
  <2>9. /\ \A j \in Keys : new[j].requestedBy = task[j].requestedBy
        /\ \A j \in Keys : j # i => new[j] = task[j]
    BY <2>1, <2>3, <2>4, <2>5, <1>StartedAre
  <2>10. \A j \in Keys : task'[j].waitCount = StartedTask(i)[j].waitCount
    BY <2>4, <2>7, <2>8
  <2>11. \A j \in Keys : j \notin taskInfos' => task'[j] = task[j]
    <3>1. Starts(i) \/ InProgress(i)
      BY <2>3, <2>5, DemandIs
    <3>2. i \in taskInfos'
      BY <2>3, <2>5, <3>1 DEF DemandRule, Accounts, Live
    <3> QED BY <2>7, <2>9, <3>2
  <2>12. PICK p : p = Pending'
    OBVIOUS
  <2>13. SameBut(p, Pending, i) /\ p[i] = Append(Pending[i], x)
    BY <2>3, <2>4, <2>7, <2>8, <2>9, <2>12 DEF Pending, SameBut
  <2>14. ASSUME NEW j \in Keys
         PROVE  Requests(j)' = Requests(j) + Count(StartedRequests(i), Of(j))
    <3>1. PICK s, rest : s = StartedRequests(i) /\ rest = Tail(inputRequests)
      OBVIOUS
    <3>2. inputRequests \in RequestList /\ s \in RequestList
      BY <2>3, <3>1, <1>ListTypes, DemandTypes DEF RequestList
    <3>3. Joined(inputRequests, <<x>>, rest, Of(j)) /\ rest \in RequestList
      BY <2>1, <2>2, <3>1, <3>2, <1>RequestsJoined DEF Request
    <3>4. Joined(inputRequests', rest, s, Of(j))
      BY <2>5, <3>1, <3>2, <3>3, <1>RequestsJoined
    <3>5. Pending \in RequestLists /\ p \in RequestLists
      BY <2>12, <1>ListTypes, <1>NextListTypes
    <3>6. Pending[i] \in RequestList
      BY <2>3, <3>5 DEF RequestLists, RequestList, Lists
    <3>7. Joined(p[i], Pending[i], <<x>>, Of(j))
      BY <2>3, <2>13, <3>6, <1>RequestsJoined
    <3>8. /\ CountAt(p, Of(j)) + Count(Pending[i], Of(j)) = CountAt(Pending, Of(j)) + Count(p[i], Of(j))
          /\ Count(Pending[i], Of(j)) \in Nat /\ Count(p[i], Of(j)) \in Nat
          /\ CountAt(p, Of(j)) \in Nat
      BY <2>3, <2>13, <3>5, <1>RequestsReplaced
    <3>9. Count(rest, Of(j)) \in Nat /\ Count(s, Of(j)) \in Nat /\ Count(<<x>>, Of(j)) \in Nat
      BY <2>3, <3>2, <3>3, <1>RequestsJoined, <1>OneRequest
    <3>10. /\ Count(inputRequests, Of(j)) = Count(<<x>>, Of(j)) + Count(rest, Of(j))
           /\ Count(inputRequests', Of(j)) = Count(rest, Of(j)) + Count(s, Of(j))
           /\ Count(p[i], Of(j)) = Count(Pending[i], Of(j)) + Count(<<x>>, Of(j))
      BY <3>3, <3>4, <3>7 DEF Joined
    <3>11. /\ Count(finishedInputRequests', Of(j)) = Count(finishedInputRequests, Of(j))
           /\ CountAt(pausedInputRequests', Of(j)) = CountAt(pausedInputRequests, Of(j))
           /\ CountAt(Pending', Of(j)) = CountAt(p, Of(j))
      BY <2>5, <2>12
    <3>12. Requests(j)' = Requests(j) + Count(s, Of(j))
      <4>1. Numbered(j)
        BY <1>Numbers
      <4> QED BY ONLY <3>8, <3>9, <3>10, <3>11, <4>1, SMT DEF Numbered
    <3> QED BY <3>1, <3>12
  <2> QED BY <2>1, <2>3, <2>5, <2>10, <2>11, <2>14, <1>DemandAccounts

\* A value is provided to a task: it waits for one request less, and for the ones it
\* makes from it, and is ready when none is left.
<1>ProcessFinishedInputAccounts.
  ASSUME TypeOK, TypeOK', Accounts, ProcessFinishedInput
  PROVE  Accounts'
  <2> USE <1>ProcessFinishedInputAccounts
  <2> DEFINE request  == Back(finishedInputRequests)
             value    == result[request.input].value
             asked(t) == IF request.orderOnly THEN <<>>
                         ELSE AsRequests(t, MoreRequests(t, request.input, value, manifest))
             given(t) == IF request.orderOnly THEN task[t].provided
                         ELSE [task[t].provided EXCEPT ![request.input] = value]
  <2>1. PICK x, t : x = request /\ t = request.task
    OBVIOUS
  <2>2. PICK more, wait, provided : more = asked(t) /\ wait = WaitCountAfter(t, more) /\ provided = given(t)
    OBVIOUS
  <2>3. pc = "provide" /\ pc' = pc /\ finishedInputRequests # <<>>
    BY DEF ProcessFinishedInput, engineUnchanged
  <2>4. /\ finishedInputRequests' = PopBack(finishedInputRequests)
        /\ inputRequests' = inputRequests \o more
        /\ task' = [task EXCEPT ![t].waitCount = wait, ![t].provided = provided]
        /\ readyTaskInfos' = IF wait = 0 THEN Append(readyTaskInfos, t) ELSE readyTaskInfos
        /\ UNCHANGED <<state, pausedInputRequests, taskInfos>>
    BY <2>1, <2>2 DEF ProcessFinishedInput, BecomesReady, ruleVars
  <2>5. x \in PendingRequest /\ x \in InputRequest /\ t \in Keys /\ x.input \in Keys
    <3>1. x \in PendingRequest
      BY <2>1, <2>3, BackType DEF TypeOK
    <3> QED BY <2>1, <3>1 DEF PendingRequest, InputRequest, RequestsFrom
  <2>6. /\ more \in RequestList /\ Len(more) \in Nat
        /\ Count(more, Of(t)) = Len(more)
        /\ \A j \in Keys : j # t => Count(more, Of(j)) = 0
    <3>1. CASE request.orderOnly
      <4>1. more = <<>>
        BY <2>2, <3>1
      <4>2. more \in RequestList /\ Len(more) = 0
        BY ONLY <4>1, SMT DEF RequestList
      <4>3. \A j \in Keys : Count(more, Of(j)) = 0
        BY <4>1, CountSmall
      <4>4. Len(more) \in Nat
        BY ONLY <4>2, SMT
      <4> QED BY <2>5, <4>2, <4>3, <4>4
    <3>2. CASE ~request.orderOnly
      <4>1. PICK q : q = MoreRequests(t, x.input, value, manifest)
        OBVIOUS
      <4>2. more = AsRequests(t, q)
        BY <2>1, <2>2, <3>2, <4>1
      <4>3. q \in Seq(TaskRequest)
        <5>1. value \in AnyValue
          BY <2>1, <2>5 DEF TypeOK, Result
        <5> HIDE DEF value
        <5> QED BY <2>5, <4>1, <5>1, ClientAssumption DEF TypeOK, AnyValue
      <4>4. more \in RequestList
        BY <2>5, <4>2, <4>3, AsRequestsType DEF RequestList
      <4> QED BY <2>5, <4>2, <4>3, <4>4, <1>CountOwn
    <3> QED BY <3>1, <3>2
  <2> HIDE DEF request, value, asked, given
  <2>7. task \in [Keys -> TaskInfo] /\ readyTaskInfos \in Seq(Keys)
    BY DEF TypeOK
  <2>8. /\ task'[t].waitCount = wait /\ task'[t].requestedBy = task[t].requestedBy
        /\ \A j \in Keys : j # t => task'[j] = task[j]
    <3>1. /\ task'[t] = [task[t] EXCEPT !.waitCount = wait, !.provided = provided]
          /\ \A j \in Keys : j # t => task'[j] = task[j]
      BY <2>4, <2>5, <2>7
    <3>2. task[t] \in TaskInfo
      BY <2>5, <2>7
    <3>3. /\ [task[t] EXCEPT !.waitCount = wait, !.provided = provided].waitCount = wait
          /\ [task[t] EXCEPT !.waitCount = wait, !.provided = provided].requestedBy = task[t].requestedBy
      BY ONLY <3>2 DEF TaskInfo
    <3> QED BY <3>1, <3>3
  <2>9. Pending' = Pending
    BY <2>5, <2>8 DEF Pending
  <2>10. ASSUME NEW j \in Keys
         PROVE  /\ Requests(j)' + Count(<<x>>, Of(j)) = Requests(j) + Count(more, Of(j))
                /\ Requests(j) \in Nat /\ Requests(j)' \in Nat
                /\ Count(<<x>>, Of(j)) <= Requests(j)
    <3>1. Joined(finishedInputRequests, finishedInputRequests', <<x>>, Of(j))
      BY <2>1, <2>3, <2>4, <1>ListTypes, <1>RequestsJoined DEF request
    <3>2. Joined(inputRequests', inputRequests, more, Of(j))
      BY <2>4, <2>6, <1>ListTypes, <1>RequestsJoined
    <3>3. /\ Count(finishedInputRequests, Of(j)) = Count(finishedInputRequests', Of(j)) + Count(<<x>>, Of(j))
          /\ Count(inputRequests', Of(j)) = Count(inputRequests, Of(j)) + Count(more, Of(j))
      BY <3>1, <3>2 DEF Joined
    <3>4. Count(<<x>>, Of(j)) \in Nat /\ Count(more, Of(j)) \in Nat
      BY <2>5, <2>6, <1>OneRequest, <1>RequestsJoined
    <3>5. /\ CountAt(pausedInputRequests', Of(j)) = CountAt(pausedInputRequests, Of(j))
          /\ CountAt(Pending', Of(j)) = CountAt(Pending, Of(j))
      BY <2>4, <2>9
    <3> QED BY ONLY <3>3, <3>4, <3>5, TypeOK, TypeOK', j \in Keys, <1>Numbers, SMT DEF Numbered
  <2>11. Count(<<x>>, Of(t)) = 1 /\ \A j \in Keys : j # t => Count(<<x>>, Of(j)) = 0
    BY <2>1, <2>5, <1>OneRequest
  <2>12. \A j \in Keys : task[j].waitCount = Requests(j)
    BY DEF Accounts, Counted
  <2>13. wait = task[t].waitCount + Len(more) - 1
    BY <2>2 DEF WaitCountAfter
  <2>14. Requests(t)' = wait /\ task[t].waitCount # 0
    <3>1. /\ Requests(t)' + Count(<<x>>, Of(t)) = Requests(t) + Count(more, Of(t))
          /\ Requests(t) \in Nat /\ Requests(t)' \in Nat
          /\ Count(<<x>>, Of(t)) <= Requests(t)
      BY <2>5, <2>10
    <3>2. Count(<<x>>, Of(t)) = 1 /\ Count(more, Of(t)) = Len(more) /\ task[t].waitCount = Requests(t)
      BY <2>5, <2>6, <2>11, <2>12
    <3> QED BY ONLY <2>6, <2>13, <3>1, <3>2, SMT
  <2>15. \A j \in Keys : j # t => Requests(j)' = Requests(j)
    <3> SUFFICES ASSUME NEW j \in Keys, j # t
                 PROVE  Requests(j)' = Requests(j)
      OBVIOUS
    <3>1. /\ Requests(j)' + Count(<<x>>, Of(j)) = Requests(j) + Count(more, Of(j))
          /\ Requests(j) \in Nat /\ Requests(j)' \in Nat
      BY <2>10
    <3>2. Count(<<x>>, Of(j)) = 0 /\ Count(more, Of(j)) = 0
      BY <2>6, <2>11
    <3> QED BY ONLY <3>1, <3>2, SMT
  <2>16. state[t] = "InProgressWaiting" /\ t \in taskInfos
    BY <2>5, <2>14 DEF Accounts, Live, InProgress
  <2>17. Counted'
    BY <2>5, <2>8, <2>12, <2>14, <2>15 DEF Counted
  <2>18. ReadyOnce'
    <3> SUFFICES ASSUME NEW j \in Keys
                 PROVE  Count(readyTaskInfos', {j}) = IF IsReady(j)' THEN 1 ELSE 0
      BY DEF ReadyOnce
    <3>1. Count(readyTaskInfos, {j}) = IF IsReady(j) THEN 1 ELSE 0
      BY DEF Accounts, ReadyOnce
    <3>2. CASE j # t
      <4>1. IsReady(j)' <=> IsReady(j)
        BY <2>4, <2>8, <3>2 DEF IsReady
      <4>2. Count(readyTaskInfos', {j}) = Count(readyTaskInfos, {j})
        BY <2>4, <2>5, <2>7, <3>2, ReadyCounts
      <4> QED BY <3>1, <4>1, <4>2
    <3>3. CASE j = t
      <4>1. ~IsReady(j) /\ (IsReady(j)' <=> wait = 0)
        BY <2>4, <2>8, <2>14, <2>16, <3>3 DEF IsReady
      <4>2. Count(readyTaskInfos, {j}) = 0
        BY <3>1, <4>1
      <4>3. wait = 0 => Count(readyTaskInfos', {j}) = Count(readyTaskInfos, {j}) + 1
        BY <2>4, <2>5, <2>7, <3>3, ReadyCounts
      <4>4. wait # 0 => Count(readyTaskInfos', {j}) = Count(readyTaskInfos, {j})
        BY <2>4
      <4> QED BY ONLY <4>1, <4>2, <4>3, <4>4, SMT
    <3> QED BY <3>2, <3>3
  <2>19. Live'
    <3> SUFFICES ASSUME NEW j \in Keys
                 PROVE  /\ InProgress(j)' => j \in taskInfos'
                        /\ j \in taskInfos' => InProgress(j)' \/ pc' \in Draining
                        /\ j \notin taskInfos' => task'[j] = NewTask
                        /\ state'[j] # "InProgressWaiting" => task'[j].waitCount = 0
      BY DEF Live, Draining, NewTask
    <3>1. /\ InProgress(j) => j \in taskInfos
          /\ j \in taskInfos => InProgress(j) \/ pc \in Draining
          /\ j \notin taskInfos => task[j] = NewTask
          /\ state[j] # "InProgressWaiting" => task[j].waitCount = 0
      BY DEF Accounts, Live, Draining
    <3> QED BY <2>3, <2>4, <2>8, <2>16, <3>1 DEF InProgress
  <2> QED BY <2>17, <2>18, <2>19 DEF Accounts

\* The state of a finished task: it was computing.
<1>CompleteRuleCounts.
  ASSUME TypeOK, TypeOK', Accounts, Threads, finishedTaskInfos # <<>>,
         NEW k \in Keys, k = Back(finishedTaskInfos), CompleteRule(k)
  PROVE  /\ state[k] = "InProgressComputing" /\ k \in taskInfos
         /\ task[k].waitCount = 0
         /\ \A j \in Keys : state'[j] = IF j = k THEN "Complete" ELSE state[j]
         /\ \A j \in Keys : Count(inputRequests', Of(j)) = Count(inputRequests, Of(j))
  <2> USE <1>CompleteRuleCounts
  <2>1. finishedTaskInfos \in Seq(Keys) /\ state \in [Keys -> RuleStates]
    BY DEF TypeOK
  <2>2. PICK n \in DOMAIN finishedTaskInfos : k = finishedTaskInfos[n]
    BY <2>1, SMT DEF Back
  <2>3. k \in Keys
    BY <2>1, BackType
  <2>4. state[k] = "InProgressComputing"
    BY <2>2 DEF Threads
  <2>5. k \in taskInfos /\ task[k].waitCount = 0
    BY <2>3, <2>4 DEF Accounts, Live, InProgress
  <2>6. \A j \in Keys : state'[j] = IF j = k THEN "Complete" ELSE state[j]
    BY <2>1, <2>3 DEF CompleteRule
  <2>7. ASSUME NEW j \in Keys
        PROVE  Count(inputRequests', Of(j)) = Count(inputRequests, Of(j))
    <3>1. PICK d, q : d = task[k].discovered /\ q = [m \in DOMAIN d |-> DummyRequest(d[m].key)]
      OBVIOUS
    <3>2. d \in Seq(Dependency)
      BY <2>3, <3>1 DEF TypeOK, TaskInfo
    <3>3. q \in RequestList /\ Count(q, Of(j)) = 0
      BY <3>1, <3>2, DummyRequestsType, DummiesAreNotCounted DEF RequestList
    <3>4. inputRequests' = inputRequests \o q
      BY <3>1 DEF CompleteRule
    <3>5. Joined(inputRequests', inputRequests, q, Of(j))
      BY <3>3, <3>4, <1>ListTypes, <1>RequestsJoined
    <3>6. Count(inputRequests, Of(j)) \in Nat /\ Count(inputRequests', Of(j)) = Count(inputRequests, Of(j)) + Count(q, Of(j))
      BY <3>5, RequestsType DEF Joined
    <3> QED BY ONLY <3>3, <3>6, SMT
  <2> QED BY <2>3, <2>4, <2>5, <2>6, <2>7

\* The result of a finished task is not stored: the task stays, for the engine to cancel.
<1>FinishedTaskNotStoredAccounts.
  ASSUME TypeOK, TypeOK', Accounts, Threads, FinishedTaskNotStored
  PROVE  Accounts'
  <2> USE <1>FinishedTaskNotStoredAccounts
  <2>1. PICK k : k = Back(finishedTaskInfos)
    OBVIOUS
  <2>2. /\ finishedTaskInfos # <<>> /\ CompleteRule(k) /\ pc' \in Draining
        /\ UNCHANGED <<task, taskInfos, readyTaskInfos, finishedInputRequests, pausedInputRequests>>
    BY <2>1 DEF FinishedTaskNotStored, taskVars, Draining
  <2>3. /\ k \in Keys /\ state[k] = "InProgressComputing" /\ k \in taskInfos
        /\ task[k].waitCount = 0
        /\ \A j \in Keys : state'[j] = IF j = k THEN "Complete" ELSE state[j]
        /\ \A j \in Keys : Count(inputRequests', Of(j)) = Count(inputRequests, Of(j))
    <3>1. k \in Keys
      BY <2>1, <2>2, BackType DEF TypeOK
    <3>2. k = Back(finishedTaskInfos)
      BY <2>1
    <3> QED BY <2>2, <3>1, <3>2, <1>CompleteRuleCounts
  <2>4. \A j \in Keys : Requests(j)' = Requests(j)
    BY <2>2, <2>3, SamePending DEF Requests
  <2>5. Counted'
    BY <2>2, <2>4 DEF Accounts, Counted
  <2>6. \A j \in Keys : IsReady(j)' <=> IsReady(j)
    BY <2>2, <2>3 DEF IsReady
  <2>7. ReadyOnce'
    BY <2>2, <2>6 DEF Accounts, ReadyOnce
  <2>8. Live'
    <3> SUFFICES ASSUME NEW j \in Keys
                 PROVE  /\ InProgress(j)' => j \in taskInfos'
                        /\ j \notin taskInfos' => task'[j] = NewTask
                        /\ state'[j] # "InProgressWaiting" => task'[j].waitCount = 0
      BY <2>2 DEF Live, Draining, NewTask
    <3> QED BY <2>2, <2>3 DEF Accounts, Live, InProgress
  <2> QED BY <2>5, <2>7, <2>8 DEF Accounts

\* A finished task goes away, and the requests for its value are answered.
<1>ProcessFinishedTaskAccounts.
  ASSUME TypeOK, TypeOK', Accounts, Threads, ProcessFinishedTask
  PROVE  Accounts'
  <2> USE <1>ProcessFinishedTaskAccounts
  <2>1. PICK k, q : k = Back(finishedTaskInfos) /\ q = task[k].requestedBy
    OBVIOUS
  <2>2. /\ finishedTaskInfos # <<>> /\ CompleteRule(k) /\ pc' = pc
        /\ finishedInputRequests' = finishedInputRequests \o q
        /\ taskInfos' = taskInfos \ {k}
        /\ task' = [task EXCEPT ![k] = NewTask]
        /\ UNCHANGED <<readyTaskInfos, pausedInputRequests>>
    BY <2>1 DEF ProcessFinishedTask
  <2>3. /\ k \in Keys /\ state[k] = "InProgressComputing" /\ k \in taskInfos
        /\ task[k].waitCount = 0
        /\ \A j \in Keys : state'[j] = IF j = k THEN "Complete" ELSE state[j]
        /\ \A j \in Keys : Count(inputRequests', Of(j)) = Count(inputRequests, Of(j))
    <3>1. k \in Keys
      BY <2>1, <2>2, BackType DEF TypeOK
    <3>2. k = Back(finishedTaskInfos)
      BY <2>1
    <3> QED BY <2>2, <3>1, <3>2, <1>CompleteRuleCounts
  <2>4. /\ task'[k] = NewTask /\ \A j \in Keys : j # k => task'[j] = task[j]
        /\ NewTask.waitCount = 0 /\ NewTask.requestedBy = <<>>
    BY <2>2, <2>3 DEF TypeOK, NewTask
  <2>5. PICK p : p = Pending'
    OBVIOUS
  <2>6. SameBut(p, Pending, k) /\ p[k] = <<>> /\ Pending[k] = q
    BY <2>1, <2>3, <2>4, <2>5 DEF Pending, SameBut
  <2>7. ASSUME NEW j \in Keys
        PROVE  Requests(j)' = Requests(j)
    <3>1. Pending \in RequestLists /\ p \in RequestLists
      BY <2>5, <1>ListTypes, <1>NextListTypes
    <3>2. q \in RequestList
      BY <2>3, <2>6, <3>1 DEF RequestLists, RequestList, Lists
    <3>3. Joined(finishedInputRequests', finishedInputRequests, q, Of(j))
      BY <2>2, <3>2, <1>ListTypes, <1>RequestsJoined
    <3>4. /\ CountAt(p, Of(j)) + Count(Pending[k], Of(j)) = CountAt(Pending, Of(j)) + Count(p[k], Of(j))
          /\ CountAt(p, Of(j)) \in Nat
      BY <2>3, <2>6, <3>1, <1>RequestsReplaced
    <3>5. Count(p[k], Of(j)) = 0 /\ Count(Pending[k], Of(j)) = Count(q, Of(j)) /\ Count(q, Of(j)) \in Nat
      BY <2>6, <3>2, CountSmall, <1>RequestsJoined
    <3>6. Count(finishedInputRequests', Of(j)) = Count(finishedInputRequests, Of(j)) + Count(q, Of(j))
      BY <3>3 DEF Joined
    <3>7. /\ Count(inputRequests', Of(j)) = Count(inputRequests, Of(j))
          /\ CountAt(pausedInputRequests', Of(j)) = CountAt(pausedInputRequests, Of(j))
          /\ CountAt(Pending', Of(j)) = CountAt(p, Of(j))
      BY <2>2, <2>3, <2>5
    <3> QED BY ONLY <3>4, <3>5, <3>6, <3>7, TypeOK, TypeOK', j \in Keys, <1>Numbers, SMT DEF Numbered
  <2>8. \A j \in Keys : task'[j].waitCount = task[j].waitCount
    BY <2>3, <2>4
  <2>9. Counted'
    BY <2>7, <2>8 DEF Accounts, Counted
  <2>10. \A j \in Keys : IsReady(j)' <=> IsReady(j)
    BY <2>3, <2>8 DEF IsReady
  <2>11. ReadyOnce'
    BY <2>2, <2>10 DEF Accounts, ReadyOnce
  <2>12. Live'
    <3> SUFFICES ASSUME NEW j \in Keys
                 PROVE  /\ InProgress(j)' => j \in taskInfos'
                        /\ j \in taskInfos' => InProgress(j)' \/ pc' \in Draining
                        /\ j \notin taskInfos' => task'[j] = NewTask
                        /\ state'[j] # "InProgressWaiting" => task'[j].waitCount = 0
      BY DEF Live, Draining, NewTask
    <3>1. /\ InProgress(j) => j \in taskInfos
          /\ j \in taskInfos => InProgress(j) \/ pc \in Draining
          /\ j \notin taskInfos => task[j] = NewTask
          /\ state[j] # "InProgressWaiting" => task[j].waitCount = 0
      BY DEF Accounts, Live, Draining
    <3>2. j = k => ~InProgress(j)'
      BY <2>3 DEF InProgress
    <3>3. j # k => (InProgress(j)' <=> InProgress(j)) /\ (j \in taskInfos' <=> j \in taskInfos)
      BY <2>2, <2>3 DEF InProgress
    <3> QED BY <2>2, <2>3, <2>4, <2>8, <3>1, <3>2, <3>3
  <2> QED BY <2>9, <2>11, <2>12 DEF Accounts

\* A rule that is scanning is forced to run.
<1>CycleForcesRuleAccounts.
  ASSUME TypeOK, TypeOK', Accounts, CycleForcesRule
  PROVE  Accounts'
  <2> USE <1>CycleForcesRuleAccounts
  <2>1. PICK i \in Keys : /\ FinishScanRequest(i, ruleInfosToScan) /\ IsScanning(i)
                          /\ state' = [state EXCEPT ![i] = "NeedsToRun"]
    BY CycleListType DEF CycleForcesRule
  <2>2. /\ UNCHANGED <<task, taskInfos, readyTaskInfos, finishedInputRequests>>
        /\ pc \notin Draining
    BY DEF CycleForcesRule, taskVars, Stuck, NoWorkLeft, Draining
  <2>3. ~InProgress(i)
    BY NotInProgress, <2>1
  <2>4. \A k \in Keys : state'[k] = state[k] \/ (~InProgress(k) /\ ~InProgress(k)')
    BY <2>1, <2>3 DEF InProgress, TypeOK
  <2>5. Quiet
    BY <2>2, <2>4 DEF Quiet
  <2> QED BY <2>1, <2>2, <2>5, SamePending, <1>FinishScanRequests, QuietAccounts

\* A request is answered with a prior value.
<1>CycleSuppliesPriorValueAccounts.
  ASSUME TypeOK, TypeOK', Accounts, CycleSuppliesPriorValue
  PROVE  Accounts'
  <2> USE <1>CycleSuppliesPriorValueAccounts
  <2>1. PICK i \in Keys : \E at \in DOMAIN task[i].requestedBy :
          /\ finishedInputRequests' =
               Append(finishedInputRequests,
                      [task[i].requestedBy[at] EXCEPT !.forcePriorValue = TRUE])
          /\ task' = [task EXCEPT ![i].requestedBy = Erase(@, at)]
    BY CycleListType, ZenonT(60) DEF CycleSuppliesPriorValue
  <2>2. PICK s : s = task[i].requestedBy
    OBVIOUS
  <2>3. PICK at \in DOMAIN s :
          /\ finishedInputRequests' =
               Append(finishedInputRequests, [s[at] EXCEPT !.forcePriorValue = TRUE])
          /\ task' = [task EXCEPT ![i].requestedBy = Erase(s, at)]
    BY <2>1, <2>2
  <2>4. PICK y : y = [s[at] EXCEPT !.forcePriorValue = TRUE]
    OBVIOUS
  <2>5. /\ pc \notin Draining
        /\ UNCHANGED <<state, taskInfos, readyTaskInfos, inputRequests, pausedInputRequests>>
    BY DEF CycleSuppliesPriorValue, ruleVars, Stuck, NoWorkLeft, Draining
  <2>6. task \in [Keys -> TaskInfo] /\ task[i] \in TaskInfo /\ s \in Seq(PendingRequest)
    BY <2>2 DEF TypeOK, TaskInfo
  <2>7. s[at] \in PendingRequest
    BY ONLY <2>6, at \in DOMAIN s, SMT
  <2>8. /\ s[at] \in InputRequest /\ y \in InputRequest
        /\ y.task = s[at].task /\ s[at].task \in Keys
    BY <2>4, <2>7 DEF PendingRequest, InputRequest, RequestsFrom
  <2>9. PICK new : new = Erase(s, at)
    OBVIOUS
  <2>10. /\ task'[i] = [task[i] EXCEPT !.requestedBy = new]
         /\ \A j \in Keys : j # i => task'[j] = task[j]
    BY <2>3, <2>6, <2>9
  <2>11. /\ [task[i] EXCEPT !.requestedBy = new].waitCount = task[i].waitCount
         /\ [task[i] EXCEPT !.requestedBy = new].requestedBy = new
    BY <2>6 DEF TaskInfo
  <2>12. i \in taskInfos
    <3>1. s # <<>>
      BY ONLY at \in DOMAIN s, SMT
    <3>2. NewTask.requestedBy = <<>>
      BY DEF NewTask
    <3> QED BY <2>2, <3>1, <3>2 DEF Accounts, Live
  <2>13. Quiet
    BY <2>5, <2>10, <2>11, <2>12 DEF Quiet
  <2>14. PICK p : p = Pending'
    OBVIOUS
  <2>15. SameBut(p, Pending, i) /\ p[i] = new /\ Pending[i] = s
    BY <2>2, <2>10, <2>11, <2>14 DEF Pending, SameBut
  <2>16. ASSUME NEW j \in Keys
         PROVE  Requests(j)' = Requests(j)
    <3>1. Pending \in RequestLists /\ p \in RequestLists
      BY <2>14, <1>ListTypes, <1>NextListTypes
    <3>2. s \in RequestList
      BY <2>15, <3>1 DEF RequestLists, RequestList, Lists
    <3>3. Joined(finishedInputRequests', finishedInputRequests, <<y>>, Of(j))
      BY <2>3, <2>4, <2>8, <1>ListTypes, <1>RequestsJoined
    <3>4. Count(s, Of(j)) = Count(new, Of(j)) + Count(<<s[at]>>, Of(j))
      BY <2>9, <3>2, CountErase DEF RequestList
    <3>5. Count(<<y>>, Of(j)) = Count(<<s[at]>>, Of(j)) /\ Count(<<y>>, Of(j)) \in Nat
      <4>1. /\ y.task = j => Count(<<y>>, Of(j)) = 1
            /\ y.task # j => Count(<<y>>, Of(j)) = 0
            /\ s[at].task = j => Count(<<s[at]>>, Of(j)) = 1
            /\ s[at].task # j => Count(<<s[at]>>, Of(j)) = 0
        BY <2>8, <1>OneRequest
      <4> QED BY ONLY <2>8, <4>1, SMT
    <3>6. /\ CountAt(p, Of(j)) + Count(Pending[i], Of(j)) = CountAt(Pending, Of(j)) + Count(p[i], Of(j))
          /\ CountAt(p, Of(j)) \in Nat /\ Count(Pending[i], Of(j)) \in Nat /\ Count(p[i], Of(j)) \in Nat
      BY <2>15, <3>1, <1>RequestsReplaced
    <3>7. Count(finishedInputRequests', Of(j)) = Count(finishedInputRequests, Of(j)) + Count(<<y>>, Of(j))
      BY <3>3 DEF Joined
    <3>8. Count(p[i], Of(j)) = Count(new, Of(j)) /\ Count(Pending[i], Of(j)) = Count(s, Of(j))
      BY <2>15
    <3>9. /\ Count(inputRequests', Of(j)) = Count(inputRequests, Of(j))
          /\ CountAt(pausedInputRequests', Of(j)) = CountAt(pausedInputRequests, Of(j))
          /\ CountAt(Pending', Of(j)) = CountAt(p, Of(j))
      BY <2>5, <2>14
    <3>10. Numbered(j)
      BY <1>Numbers
    <3> QED BY ONLY <3>4, <3>5, <3>6, <3>7, <3>8, <3>9, <3>10, SMT DEF Numbered
  <2> QED BY <2>13, <2>16, QuietAccounts

\* cancelRemainingTasks clears everything, and so does a new process.
<1>CancelAccounts.
  ASSUME TypeOK, Accounts, CancelRemainingTasks \/ Restart
  PROVE  Accounts'
  <2> USE <1>CancelAccounts
  <2>1. Cleared'
    <3>1. CASE Restart
      BY <3>1 DEF Restart, Cleared, InProgress
    <3>2. CASE CancelRemainingTasks
      <4>1. \A k \in Keys : ~InProgress(k)'
        <5> SUFFICES ASSUME NEW k \in Keys
                     PROVE  ~InProgress(k)'
          OBVIOUS
        <5>1. state'[k] = IF k \in CancelledRules THEN "Incomplete" ELSE state[k]
          BY <3>2 DEF CancelRemainingTasks
        <5>2. InProgress(k) => k \in CancelledRules
          BY DEF Accounts, Live, CancelledRules
        <5> QED BY <5>1, <5>2 DEF InProgress
      <4> QED BY <3>2, <4>1 DEF CancelRemainingTasks, Cleared
    <3> QED BY <3>1, <3>2
  <2>2. (Cleared => Accounts)'
    BY ClearedAccounts, PTL
  <2> QED BY <2>1, <2>2

\* A build starts: only what nobody waits for is dropped or added.
<1>BuildStartsAccounts.
  ASSUME TypeOK, TypeOK', Accounts, taskInfos = {}, BuildStarts
  PROVE  Accounts'
  <2> USE <1>BuildStartsAccounts
  <2>1. /\ UNCHANGED <<state, task, taskInfos, readyTaskInfos, pausedInputRequests>>
        /\ finishedInputRequests' = <<>> /\ pc \notin Draining /\ buildKey' \in Keys
    BY BoundsAssumption DEF BuildStarts, ruleVars, taskVars, Draining
  <2>2. PICK x : x = DummyRequest(buildKey')
    OBVIOUS
  <2>3. x \in InputRequest /\ x.task = NoKey /\ inputRequests' = Append(inputRequests, x)
    BY <2>1, <2>2 DEF DummyRequest, InputRequest, RequestsFrom, BuildStarts
  <2>4. Quiet
    BY <2>1 DEF Quiet
  <2>5. ASSUME NEW j \in Keys
        PROVE  Requests(j)' = Requests(j)
    <3>1. Requests(j) = 0
      <4>1. task[j] = NewTask /\ NewTask.waitCount = 0
        BY DEF Accounts, Live, NewTask
      <4> QED BY <4>1 DEF Accounts, Counted
    <3>2. Joined(inputRequests', inputRequests, <<x>>, Of(j))
      BY <2>3, <1>ListTypes, <1>RequestsJoined
    <3>3. Count(<<x>>, Of(j)) = 0
      BY <2>3, <1>OneRequest, KeysAssumption
    <3>4. Count(inputRequests', Of(j)) = Count(inputRequests, Of(j)) + Count(<<x>>, Of(j))
      BY <3>2 DEF Joined
    <3>5. Count(finishedInputRequests', Of(j)) = 0
      BY <2>1, CountSmall
    <3>6. /\ CountAt(pausedInputRequests', Of(j)) = CountAt(pausedInputRequests, Of(j))
          /\ CountAt(Pending', Of(j)) = CountAt(Pending, Of(j))
      BY <2>1, SamePending
    <3>7. Numbered(j)
      BY <1>Numbers
    <3> QED BY ONLY <3>1, <3>3, <3>4, <3>5, <3>6, <3>7, SMT DEF Numbered
  <2> QED BY <2>4, <2>5, QuietAccounts

\* A task that reports its completion waits for nothing.
<1>TaskIsCompleteAccounts.
  ASSUME TypeOK, Accounts, Threads, NEW k \in Keys, TaskIsComplete(k)
  PROVE  Accounts'
  <2> USE <1>TaskIsCompleteAccounts
  <2>1. PICK d : task' = [task EXCEPT ![k].discovered = d]
    BY DEF TaskIsComplete
  <2>2. /\ UNCHANGED <<state, taskInfos, readyTaskInfos, pc>>
        /\ UNCHANGED <<inputRequests, finishedInputRequests, pausedInputRequests>>
    BY DEF TaskIsComplete, workerUnchanged, queueVars
  <2>3. task \in [Keys -> TaskInfo] /\ task[k] \in TaskInfo
    BY DEF TypeOK
  <2>4. task'[k] = [task[k] EXCEPT !.discovered = d] /\ \A j \in Keys : j # k => task'[j] = task[j]
    BY <2>1, <2>3
  <2>5. /\ [task[k] EXCEPT !.discovered = d].waitCount = task[k].waitCount
        /\ [task[k] EXCEPT !.discovered = d].requestedBy = task[k].requestedBy
    BY <2>3 DEF TaskInfo
  <2>6. Pending' = Pending
    BY <2>4, <2>5 DEF Pending
  <2>7. k \in taskInfos
    BY DEF TaskIsComplete, Threads, Computing, Accounts, Live, InProgress
  <2>8. Quiet
    BY <2>2, <2>4, <2>5, <2>7 DEF Quiet
  <2> QED BY <2>2, <2>6, <2>8, SameRequests, QuietAccounts
<1>1. Accounts /\ Threads /\ Turn
  BY DEF LoopInv
<1>2. CASE ProcessRuleScanRequest
  BY <1>1, <1>2, <1>ScanAccounts
<1>3. CASE ProcessInputRequest
  BY <1>1, <1>3, <1>InputPausesAccounts, <1>InputIsDummyAccounts, <1>InputIsAvailableAccounts,
     <1>InputIsPendingAccounts DEF ProcessInputRequest
<1>4. CASE ProcessFinishedInput \/ ProcessReadyTask
  BY <1>1, <1>4, <1>ProcessFinishedInputAccounts, ProcessReadyTaskAccounts
<1>5. CASE ProcessFinishedTask \/ FinishedTaskNotStored
  BY <1>1, <1>5, <1>ProcessFinishedTaskAccounts, <1>FinishedTaskNotStoredAccounts
<1>6. CASE CycleForcesRule \/ CycleSuppliesPriorValue
  BY <1>1, <1>6, <1>CycleForcesRuleAccounts, <1>CycleSuppliesPriorValueAccounts
<1>7. CASE CancelRemainingTasks \/ Restart
  BY <1>1, <1>7, <1>CancelAccounts
<1>8. CASE BuildStarts
  <2>1. taskInfos = {}
    BY <1>1, <1>8 DEF BuildStarts, Turn
  <2> QED BY <1>1, <1>8, <2>1, <1>BuildStartsAccounts
<1>9. CASE Elsewise
  BY <1>1, <1>9, ElsewiseAccounts
<1>10. CASE \E k \in Keys : TaskIsComplete(k)
  BY <1>1, <1>10, <1>TaskIsCompleteAccounts
<1> QED BY <1>2, <1>3, <1>4, <1>5, <1>6, <1>7, <1>8, <1>9, <1>10
        DEF Next, EngineStep, ClientStep, WorkerStep, ResolveOrReportCycle, Elsewise, Rest

=============================================================================
