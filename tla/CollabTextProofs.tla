-------------------------- MODULE CollabTextProofs --------------------------
(***************************************************************************)
(* Proofs about CollabText, for every text and every operation: applying   *)
(* an operation makes a text of the length it promises, two operations on  *)
(* one text converge when each is carried over the other, composing two    *)
(* has the effect of both, and a caret stays inside.                       *)
(*                                                                         *)
(* The loops of the code are functions of the number of turns taken.  What *)
(* they compute is shown by induction over the turns, and what an          *)
(* operation does by induction over its units; the induction rules are     *)
(* about the set of what has the property, first lemmas below.             *)
(***************************************************************************)
EXTENDS CollabText, FiniteSetTheorems, SequenceTheorems, NaturalsInduction,
        WellFoundedInduction, TLAPS

----------------------------------------------------------------------------
(* Induction, stated with the set of what has the property.                *)

\* A set of naturals that has a member has a least one.
LEMMA LeastOf ==
    ASSUME NEW S, S \subseteq Nat, S # {}
    PROVE  \E n \in S : \A m \in S : n <= m
  <1> DEFINE R == {ss \in Nat \X Nat : ss[1] < ss[2]}
  <1>1. IsWellFoundedOn(R, Nat)
    BY NatLessThanWellFounded DEF OpToRel
  <1> HIDE DEF R
  <1>2. PICK n \in S : \A m \in S : ~(<<m, n>> \in R)
    BY <1>1, WFMin
  <1>3. \A m \in S : n <= m
    <2> SUFFICES ASSUME NEW m \in S, m < n PROVE FALSE
      BY DEF R
    <2>1. <<m, n>> \in R
      BY DEF R
    <2> QED
      BY <1>2, <2>1
  <1> QED
    BY <1>3

\* What holds of 0 and passes from each number to the next holds of all.
LEMMA Induction ==
    ASSUME NEW P, 0 \in P, \A n \in Nat : n \in P => n + 1 \in P
    PROVE  Nat \subseteq P
  <1> SUFFICES ASSUME Nat \ P # {} PROVE FALSE
    OBVIOUS
  <1>1. PICK n \in Nat \ P : \A m \in Nat \ P : n <= m
    BY LeastOf
  <1>2. n # 0 /\ n - 1 \in Nat
    BY <1>1
  <1>3. n - 1 \in P
    BY <1>1, <1>2
  <1> QED
    BY <1>1, <1>2, <1>3

\* The same for the numbers up to a bound.
LEMMA InductionUpTo ==
    ASSUME NEW n \in Nat, NEW P, 0 \in P,
           \A i \in 0..n : i \in P /\ i < n => i + 1 \in P
    PROVE  0..n \subseteq P
  <1> DEFINE Q == {i \in Nat : i <= n => i \in P}
  <1>1. 0 \in Q
    OBVIOUS
  <1>2. \A i \in Nat : i \in Q => i + 1 \in Q
    OBVIOUS
  <1> HIDE DEF Q
  <1>3. Nat \subseteq Q
    BY <1>1, <1>2, Induction
  <1> QED
    BY <1>3 DEF Q

\* What holds of the empty sequence and of a sequence with one element more
\* holds of every sequence.
LEMMA InductionAppend ==
    ASSUME NEW S, NEW P, <<>> \in P,
           \A s \in Seq(S), e \in S : s \in P => Append(s, e) \in P
    PROVE  Seq(S) \subseteq P
  <1> DEFINE Q == {n \in Nat : \A s \in Seq(S) : Len(s) = n => s \in P}
  <1>1. 0 \in Q
    BY EmptySeq DEF Q
  <1>2. ASSUME NEW n \in Nat, n \in Q
        PROVE  n + 1 \in Q
    <2> SUFFICES ASSUME NEW s \in Seq(S), Len(s) = n + 1
                 PROVE  s \in P
      BY DEF Q
    <2>1. s # <<>>
      BY EmptySeq
    <2>2. PICK r \in Seq(S), e \in S : s = Append(r, e)
      BY <2>1, SequenceEmptyOrAppend
    <2>3. Len(r) = n
      BY <2>2, AppendProperties, LenProperties
    <2>4. r \in P
      BY <1>2, <2>3 DEF Q
    <2> QED
      BY <2>2, <2>4
  <1> HIDE DEF Q
  <1>3. Nat \subseteq Q
    BY <1>1, <1>2, Induction
  <1> QED
    BY <1>3, LenProperties DEF Q

----------------------------------------------------------------------------
(* The lengths of an operation.                                            *)

\* What an operation reads and what it writes are counted in naturals.
LEMMA LengthsType ==
    ASSUME NEW S, NEW op \in Seq(S)
    PROVE  /\ baseLength(op) \in Nat
           /\ targetLength(op) \in Nat
           /\ IsFiniteSet({i \in DOMAIN op : ~IsLetter(op[i])})
           /\ IsFiniteSet({i \in DOMAIN op : op[i] # Cut})
  <1>1. IsFiniteSet(DOMAIN op)
    BY LenProperties, FS_Interval
  <1>2. /\ IsFiniteSet({i \in DOMAIN op : ~IsLetter(op[i])})
        /\ IsFiniteSet({i \in DOMAIN op : op[i] # Cut})
    <2>1. /\ {i \in DOMAIN op : ~IsLetter(op[i])} \in SUBSET DOMAIN op
          /\ {i \in DOMAIN op : op[i] # Cut} \in SUBSET DOMAIN op
      OBVIOUS
    <2> QED
      BY <1>1, <2>1, FS_Subset
  <1> QED
    BY <1>2, FS_CardinalityType DEF baseLength, targetLength

\* The operation without units reads nothing and makes nothing.
LEMMA LengthsEmpty ==
    baseLength(<<>>) = 0 /\ targetLength(<<>>) = 0
  <1>1. DOMAIN <<>> = {}
    OBVIOUS
  <1>2. /\ {i \in DOMAIN <<>> : ~IsLetter(<<>>[i])} = {}
        /\ {i \in DOMAIN <<>> : <<>>[i] # Cut} = {}
    BY <1>1
  <1> QED
    BY <1>2, FS_EmptySet DEF baseLength, targetLength

\* Keep counts on both sides, Cut on the left, a letter on the right.
LEMMA LengthsAppend ==
    ASSUME NEW S, NEW op \in Seq(S), NEW u \in S
    PROVE  /\ baseLength(Append(op, u))
                = IF IsLetter(u) THEN baseLength(op) ELSE baseLength(op) + 1
           /\ targetLength(Append(op, u))
                = IF u = Cut THEN targetLength(op) ELSE targetLength(op) + 1
  <1> DEFINE longer == Append(op, u)
             n == Len(op) + 1
             B(s) == {i \in DOMAIN s : ~IsLetter(s[i])}
             T(s) == {i \in DOMAIN s : s[i] # Cut}
  <1>1. /\ DOMAIN op = 1..Len(op) /\ Len(op) \in Nat
        /\ DOMAIN longer = 1..n
        /\ longer[n] = u
        /\ \A i \in 1..Len(op) : longer[i] = op[i]
    BY AppendProperties, LenProperties
  <1>2. /\ DOMAIN longer = DOMAIN op \cup {n}
        /\ n \notin DOMAIN op
        /\ \A i \in DOMAIN op : longer[i] = op[i]
    BY <1>1
  <1> HIDE DEF longer, n
  <1>3. B(longer) = IF IsLetter(u) THEN B(op) ELSE B(op) \cup {n}
    BY <1>1, <1>2
  <1>4. T(longer) = IF u = Cut THEN T(op) ELSE T(op) \cup {n}
    BY <1>1, <1>2
  <1>5. n \notin B(op) /\ n \notin T(op)
    BY <1>2
  <1>6. IsFiniteSet(B(op)) /\ IsFiniteSet(T(op))
    BY LengthsType
  <1>7. /\ Cardinality(B(op) \cup {n}) = Cardinality(B(op)) + 1
        /\ Cardinality(T(op) \cup {n}) = Cardinality(T(op)) + 1
    BY <1>5, <1>6, FS_AddElement
  <1>8. /\ baseLength(longer) = Cardinality(B(longer))
        /\ baseLength(op) = Cardinality(B(op))
        /\ targetLength(longer) = Cardinality(T(longer))
        /\ targetLength(op) = Cardinality(T(op))
    BY DEF baseLength, targetLength
  <1> HIDE DEF B, T
  <1> QED
    BY <1>3, <1>4, <1>7, <1>8 DEF longer

----------------------------------------------------------------------------
(* The units an operation has read.                                        *)

\* The units read so far are a sequence; one more is one more.
LEMMA FirstUnits ==
    ASSUME NEW S, NEW op \in Seq(S), NEW i \in 0..Len(op)
    PROVE  /\ First(op, i) \in Seq(S)
           /\ Len(First(op, i)) = i
           /\ \A k \in 1..i : First(op, i)[k] = op[k]
           /\ First(op, 0) = <<>>
           /\ First(op, Len(op)) = op
           /\ i < Len(op) => /\ op[i + 1] \in S
                             /\ First(op, i + 1) = Append(First(op, i), op[i + 1])
  <1>1. Len(op) \in Nat /\ \A k \in 1..Len(op) : op[k] \in S
    BY LenProperties, ElementOfSeq
  <1>2. ASSUME NEW j \in 0..Len(op)
        PROVE  /\ First(op, j) \in Seq(S)
               /\ Len(First(op, j)) = j
               /\ \A k \in 1..j : First(op, j)[k] = op[k]
    <2>1. \A k \in 1..j : op[k] \in S
      BY <1>1
    <2> QED
      BY <1>1, <2>1, SubSeqProperties DEF First
  <1>3. First(op, 0) = <<>>
    BY SubSeqEmpty DEF First
  <1>4. First(op, Len(op)) = op
    BY SubSeqFull DEF First
  <1>5. ASSUME i < Len(op)
        PROVE  op[i + 1] \in S /\ First(op, i + 1) = Append(First(op, i), op[i + 1])
    <2>1. op[i + 1] \in S
      BY <1>1, <1>5
    <2>2. i + 1 \in 0..Len(op)
      BY <1>1, <1>5
    <2> DEFINE s == First(op, i + 1)
               r == First(op, i)
               t == Append(r, op[i + 1])
    <2>3. s \in Seq(S) /\ Len(s) = i + 1 /\ \A k \in 1..(i + 1) : s[k] = op[k]
      BY <1>2, <2>2
    <2>4. r \in Seq(S) /\ Len(r) = i /\ \A k \in 1..i : r[k] = op[k]
      BY <1>2
    <2> HIDE DEF r, s
    <2>5. /\ t \in Seq(S) /\ Len(t) = i + 1
          /\ \A k \in 1..i : t[k] = r[k]
          /\ t[i + 1] = op[i + 1]
      BY <2>1, <2>4, AppendProperties
    <2>6. \A k \in 1..Len(s) : s[k] = t[k]
      BY <2>3, <2>4, <2>5
    <2>7. s = t
      BY <2>3, <2>5, <2>6, SeqEqual
    <2> QED
      BY <2>1, <2>7 DEF r, s
  <1> QED
    BY <1>2, <1>3, <1>4, <1>5

\* The units read of an operation with one more at its end.
LEMMA FirstOfAppend ==
    ASSUME NEW S, NEW op \in Seq(S), NEW u \in S, NEW i \in 0..Len(op)
    PROVE  First(Append(op, u), i) = First(op, i)
  <1> DEFINE longer == Append(op, u)
  <1>1. /\ longer \in Seq(S) /\ Len(longer) = Len(op) + 1 /\ Len(op) \in Nat
        /\ \A k \in 1..Len(op) : longer[k] = op[k]
    BY AppendProperties, LenProperties
  <1> HIDE DEF longer
  <1>2. /\ First(op, i) \in Seq(S) /\ Len(First(op, i)) = i
        /\ \A k \in 1..i : First(op, i)[k] = op[k]
    BY FirstUnits
  <1>3. /\ First(longer, i) \in Seq(S) /\ Len(First(longer, i)) = i
        /\ \A k \in 1..i : First(longer, i)[k] = longer[k]
    BY <1>1, FirstUnits
  <1>4. \A k \in 1..i : First(op, i)[k] = First(longer, i)[k]
    BY <1>1, <1>2, <1>3
  <1> QED
    BY <1>2, <1>3, <1>4, SeqEqual DEF longer

\* An operation reads and writes no less than its first units do.
LEMMA LengthsGrow ==
    ASSUME NEW S, NEW op \in Seq(S), NEW i \in 0..Len(op)
    PROVE  /\ baseLength(First(op, i)) <= baseLength(op)
           /\ targetLength(First(op, i)) <= targetLength(op)
  <1> DEFINE B(s) == {k \in DOMAIN s : ~IsLetter(s[k])}
             T(s) == {k \in DOMAIN s : s[k] # Cut}
             f == First(op, i)
  <1>1. f \in Seq(S) /\ Len(f) = i /\ \A k \in 1..i : f[k] = op[k]
    BY FirstUnits
  <1>2. DOMAIN f = 1..i /\ DOMAIN op = 1..Len(op) /\ Len(op) \in Nat
    BY <1>1, LenProperties
  <1>3. IsFiniteSet(B(op)) /\ IsFiniteSet(T(op))
    BY LengthsType
  <1> HIDE DEF f
  <1>4. B(f) \in SUBSET B(op) /\ T(f) \in SUBSET T(op)
    BY <1>1, <1>2
  <1> QED
    BY <1>3, <1>4, FS_Subset DEF baseLength, targetLength, f
----------------------------------------------------------------------------
(* The builder.                                                            *)

\* A set of numbers up to a bound that has a member has a greatest one.
LEMMA GreatestOf ==
    ASSUME NEW n \in Nat, NEW S, S \subseteq 0..n, S # {}
    PROVE  /\ Max(S) \in S
           /\ \A y \in S : y <= Max(S)
  <1> DEFINE R == {k \in 0..n : n - k \in S}
  <1>1. PICK m \in S : TRUE
    OBVIOUS
  <1>2. n - m \in 0..n /\ n - (n - m) = m
    BY <1>1
  <1>3. R \subseteq Nat /\ R # {}
    BY <1>2
  <1> HIDE DEF R
  <1>4. PICK k \in R : \A j \in R : k <= j
    BY <1>3, LeastOf
  <1>5. k \in 0..n /\ n - k \in S
    BY <1>4 DEF R
  <1>6. ASSUME NEW y \in S
        PROVE  n - k >= y
    <2>1. y \in 0..n /\ n - y \in 0..n /\ n - (n - y) = y
      BY <1>6
    <2>2. n - y \in R
      BY <2>1 DEF R
    <2>3. k <= n - y
      BY <1>4, <2>2
    <2> QED
      BY <1>5, <2>1, <2>3
  <1>7. \E x \in S : \A y \in S : x >= y
    BY <1>5, <1>6
  <1>8. Max(S) \in S /\ \A y \in S : Max(S) >= y
    BY <1>7 DEF Max
  <1> QED
    BY <1>8

\* The builder puts a letter after the last unit that is no deletion.
Place(op) == Max({i \in DOMAIN op : op[i] # Cut} \cup {0})

\* Only deletions follow that place.
LEMMA EmitPlace ==
    ASSUME NEW S, NEW op \in Seq(S)
    PROVE  /\ Place(op) \in 0..Len(op)
           /\ \A i \in (Place(op) + 1)..Len(op) : op[i] = Cut
  <1> DEFINE kept == {i \in DOMAIN op : op[i] # Cut}
             k == Max(kept \cup {0})
  <1>1. DOMAIN op = 1..Len(op) /\ Len(op) \in Nat
    BY LenProperties
  <1>2. kept \cup {0} \subseteq 0..Len(op) /\ kept \cup {0} # {}
    BY <1>1
  <1>3. k \in kept \cup {0} /\ \A y \in kept \cup {0} : y <= k
    BY <1>1, <1>2, GreatestOf
  <1> HIDE DEF k
  <1>4. k \in 0..Len(op)
    BY <1>1, <1>3
  <1>5. \A i \in (k + 1)..Len(op) : op[i] = Cut
    <2> SUFFICES ASSUME NEW i \in (k + 1)..Len(op), op[i] # Cut
                 PROVE  FALSE
      OBVIOUS
    <2>1. i \in DOMAIN op /\ ~(i <= k)
      BY <1>1, <1>4
    <2> QED
      BY <1>3, <2>1
  <1> QED
    BY <1>4, <1>5 DEF k, Place

\* What the builder makes of a letter.
LEMMA EmitLetter ==
    ASSUME NEW S, NEW op \in Seq(S), NEW u \in S, IsLetter(u)
    PROVE  LET k == Place(op)
           IN  /\ Emit(op, u) \in Seq(S)
               /\ Len(Emit(op, u)) = Len(op) + 1
               /\ \A i \in 1..k : Emit(op, u)[i] = op[i]
               /\ Emit(op, u)[k + 1] = u
               /\ \A i \in (k + 2)..(Len(op) + 1) : Emit(op, u)[i] = op[i - 1]
  <1> DEFINE k == Place(op)
             left == SubSeq(op, 1, k)
             right == SubSeq(op, k + 1, Len(op))
             whole == (left \o <<u>>) \o right
  <1>1. k \in 0..Len(op)
    BY EmitPlace
  <1> HIDE DEF k
  <1>2. Emit(op, u) = whole
    <2>1. Emit(op, u) = InsertAt(op, k + 1, u)
      BY DEF Emit, Place, k
    <2>2. (k + 1) - 1 = k
      BY <1>1
    <2> QED
      BY <2>1, <2>2 DEF InsertAt
  <1>3. Len(op) \in Nat /\ \A i \in 1..Len(op) : op[i] \in S
    BY LenProperties, ElementOfSeq
  <1>4. /\ left \in Seq(S) /\ Len(left) = k
        /\ \A i \in 1..k : left[i] = op[i]
    <2>1. \A i \in 1..k : op[i] \in S
      BY <1>1, <1>3
    <2> QED
      BY <1>1, <1>3, <2>1, SubSeqProperties
  <1>5. /\ right \in Seq(S) /\ Len(right) = Len(op) - k
        /\ \A i \in 1..(Len(op) - k) : right[i] = op[k + i]
    <2>1. \A i \in (k + 1)..Len(op) : op[i] \in S
      BY <1>1, <1>3
    <2>2. /\ right \in Seq(S)
          /\ Len(right) = IF k + 1 <= Len(op) THEN Len(op) - (k + 1) + 1 ELSE 0
          /\ \A i \in 1..(Len(op) - (k + 1) + 1) : right[i] = op[(k + 1) + i - 1]
      BY <1>1, <1>3, <2>1, SubSeqProperties
    <2> HIDE DEF right
    <2> QED
      BY <1>1, <1>3, <2>2
  <1>6. <<u>> \in Seq(S) /\ Len(<<u>>) = 1 /\ <<u>>[1] = u
    OBVIOUS
  <1> HIDE DEF left, right
  <1> DEFINE front == left \o <<u>>
  <1>7. /\ front \in Seq(S) /\ Len(front) = k + 1
        /\ \A i \in 1..k : front[i] = op[i]
        /\ front[k + 1] = u
    <2>1. /\ front \in Seq(S) /\ Len(front) = Len(left) + Len(<<u>>)
          /\ \A i \in 1..(Len(left) + Len(<<u>>)) :
                front[i] = IF i <= Len(left) THEN left[i] ELSE <<u>>[i - Len(left)]
      BY <1>4, <1>6, ConcatProperties
    <2>2. (k + 1) - k = 1
      BY <1>1
    <2> HIDE DEF front
    <2> QED
      BY <1>1, <1>4, <1>6, <2>1, <2>2
  <1> HIDE DEF front
  <1>8. /\ whole \in Seq(S) /\ Len(whole) = Len(op) + 1
        /\ \A i \in 1..(k + 1) : whole[i] = front[i]
        /\ \A i \in (k + 2)..(Len(op) + 1) : whole[i] = op[i - 1]
    <2>1. /\ whole \in Seq(S) /\ Len(whole) = Len(front) + Len(right)
          /\ \A i \in 1..(Len(front) + Len(right)) :
                whole[i] = IF i <= Len(front) THEN front[i]
                           ELSE right[i - Len(front)]
      <3>1. whole = front \o right
        BY DEF front
      <3> HIDE DEF whole
      <3> QED
        BY <1>5, <1>7, <3>1, ConcatProperties
    <2> HIDE DEF whole
    <2>2. Len(front) + Len(right) = Len(op) + 1
      BY <1>1, <1>3, <1>5, <1>7
    <2>3. \A i \in (k + 2)..(Len(op) + 1) : whole[i] = right[i - (k + 1)]
      BY <1>1, <1>3, <1>7, <2>1, <2>2
    <2>4. \A i \in (k + 2)..(Len(op) + 1) :
            /\ i - (k + 1) \in 1..(Len(op) - k)
            /\ k + (i - (k + 1)) = i - 1
      BY <1>1, <1>3
    <2>5. \A i \in (k + 2)..(Len(op) + 1) : right[i - (k + 1)] = op[i - 1]
      BY <1>5, <2>4
    <2> QED
      BY <1>1, <1>3, <1>7, <2>1, <2>2, <2>3, <2>5
  <1> HIDE DEF whole
  <1>9. \A i \in 1..k : whole[i] = op[i]
    BY <1>1, <1>7, <1>8
  <1>10. whole[k + 1] = u
    BY <1>1, <1>7, <1>8
  <1> QED
    BY <1>2, <1>8, <1>9, <1>10 DEF k

\* After a deletion a letter goes before it.
LEMMA EmitBeforeCut ==
    ASSUME NEW S, NEW op \in Seq(S), Cut \in S, NEW u \in S, IsLetter(u)
    PROVE  Emit(Append(op, Cut), u) = Append(Emit(op, u), Cut)
  <1> DEFINE longer == Append(op, Cut)
             k == Place(op)
             m == Place(longer)
             n == Len(op)
  <1>1. /\ longer \in Seq(S) /\ Len(longer) = n + 1 /\ n \in Nat
        /\ \A i \in 1..n : longer[i] = op[i]
        /\ longer[n + 1] = Cut
        /\ DOMAIN op = 1..n /\ DOMAIN longer = 1..(n + 1)
    BY AppendProperties, LenProperties
  <1> HIDE DEF longer
  <1>2. {i \in DOMAIN op : op[i] # Cut} = {i \in DOMAIN longer : longer[i] # Cut}
    BY <1>1
  <1>3. k = m
    BY <1>2 DEF Place
  <1>4. k \in 0..n
    BY EmitPlace
  <1>5. /\ Emit(op, u) \in Seq(S) /\ Len(Emit(op, u)) = n + 1
        /\ \A i \in 1..k : Emit(op, u)[i] = op[i]
        /\ Emit(op, u)[k + 1] = u
        /\ \A i \in (k + 2)..(n + 1) : Emit(op, u)[i] = op[i - 1]
    BY EmitLetter
  <1>6. /\ Emit(longer, u) \in Seq(S) /\ Len(Emit(longer, u)) = (n + 1) + 1
        /\ \A i \in 1..m : Emit(longer, u)[i] = longer[i]
        /\ Emit(longer, u)[m + 1] = u
        /\ \A i \in (m + 2)..((n + 1) + 1) : Emit(longer, u)[i] = longer[i - 1]
    BY <1>1, EmitLetter
  <1> HIDE DEF k, m
  <1> DEFINE e == Emit(op, u)
             f == Append(e, Cut)
             g == Emit(longer, u)
  <1>7. /\ f \in Seq(S) /\ Len(f) = n + 2
        /\ \A i \in 1..(n + 1) : f[i] = e[i]
        /\ f[n + 2] = Cut
    BY <1>1, <1>5, AppendProperties
  <1> HIDE DEF f, g, e, n
  <1>8. ASSUME NEW i \in 1..(n + 2)
        PROVE  f[i] = g[i]
    <2>1. CASE i <= k
      BY <1>1, <1>3, <1>4, <1>5, <1>6, <1>7, <2>1 DEF e, g
    <2>2. CASE i = k + 1
      BY <1>1, <1>3, <1>4, <1>5, <1>6, <1>7, <2>2 DEF e, g
    <2>3. CASE i > k + 1 /\ i <= n + 1
      <3>1. i \in (k + 2)..(n + 1) /\ i - 1 \in 1..n /\ i \in (m + 2)..(n + 1 + 1)
        BY <1>1, <1>3, <1>4, <2>3
      <3> QED
        BY <1>1, <1>5, <1>6, <1>7, <3>1 DEF e, g
    <2>4. CASE i = n + 2
      <3>1. i \in (m + 2)..(n + 1 + 1) /\ i - 1 = n + 1
        BY <1>1, <1>3, <1>4, <2>4
      <3> QED
        BY <1>1, <1>6, <1>7, <2>4, <3>1 DEF g
    <2> QED
      BY <1>1, <1>4, <2>1, <2>2, <2>3, <2>4
  <1>9. Len(f) = Len(g) /\ g \in Seq(S)
    BY <1>1, <1>6, <1>7 DEF g
  <1>10. f = g
    BY <1>1, <1>7, <1>8, <1>9, SeqEqual
  <1> QED
    BY <1>10 DEF f, g, e, longer

\* Elsewhere it goes to the end.
LEMMA EmitAtEnd ==
    ASSUME NEW S, NEW op \in Seq(S), NEW u \in S, IsLetter(u),
           op = <<>> \/ op[Len(op)] # Cut
    PROVE  Emit(op, u) = Append(op, u)
  <1> DEFINE k == Place(op)
             n == Len(op)
  <1>1. n \in Nat /\ (op = <<>> => n = 0)
    BY LenProperties, EmptySeq
  <1>2. k \in 0..n /\ \A i \in (k + 1)..n : op[i] = Cut
    BY EmitPlace
  <1>3. /\ Emit(op, u) \in Seq(S) /\ Len(Emit(op, u)) = n + 1
        /\ \A i \in 1..k : Emit(op, u)[i] = op[i]
        /\ Emit(op, u)[k + 1] = u
    BY EmitLetter
  <1> HIDE DEF k
  <1>4. k = n
    BY <1>1, <1>2
  <1> DEFINE f == Append(op, u)
             e == Emit(op, u)
  <1>5. /\ f \in Seq(S) /\ Len(f) = n + 1
        /\ \A i \in 1..n : f[i] = op[i]
        /\ f[n + 1] = u
    BY AppendProperties
  <1> HIDE DEF f, e
  <1>6. \A i \in 1..Len(f) : f[i] = e[i]
    BY <1>1, <1>3, <1>4, <1>5 DEF e
  <1> QED
    BY <1>3, <1>5, <1>6, SeqEqual DEF e, f
----------------------------------------------------------------------------
(* Applying an operation.                                                  *)

\* What the i-th unit of an operation makes of the text made so far.
Made(text, op, i, before) ==
    CASE op[i] = Keep -> Append(before, text[baseLength(First(op, i))])
      [] op[i] = Cut -> before
      [] OTHER -> Append(before, op[i])

\* The loop's texts, one for each number of units read.
Makes(f, text, op, n) ==
    f = [i \in 0..n |-> IF i = 0 THEN <<>> ELSE Made(text, op, i, f[i - 1])]

\* The function applyOperation recurses on exists up to every length.
LEMMA MakesExists ==
    ASSUME NEW text, NEW op
    PROVE  \A n \in Nat : \E f : Makes(f, text, op, n)
  <1> DEFINE P == {n \in Nat : \E f : Makes(f, text, op, n)}
  <1>1. 0 \in P
    <2> DEFINE f == [i \in 0..0 |-> <<>>]
    <2>1. Makes(f, text, op, 0)
      BY DEF Makes
    <2> QED
      BY <2>1
  <1>2. ASSUME NEW n \in Nat, n \in P
        PROVE  n + 1 \in P
    <2>1. PICK f : Makes(f, text, op, n)
      BY <1>2
    <2> DEFINE g == [i \in 0..(n + 1) |->
                        IF i = n + 1 THEN Made(text, op, n + 1, f[n]) ELSE f[i]]
    <2>2. \A i \in 0..n : f[i] = IF i = 0 THEN <<>>
                                 ELSE Made(text, op, i, f[i - 1])
      BY <2>1 DEF Makes
    <2>3. \A i \in 0..n : g[i] = f[i]
      OBVIOUS
    <2>4. g[n + 1] = Made(text, op, n + 1, f[n])
      OBVIOUS
    <2>5. \A i \in 0..(n + 1) : g[i] = IF i = 0 THEN <<>>
                                       ELSE Made(text, op, i, g[i - 1])
      <3> SUFFICES ASSUME NEW i \in 0..(n + 1)
                   PROVE  g[i] = IF i = 0 THEN <<>>
                                 ELSE Made(text, op, i, g[i - 1])
        OBVIOUS
      <3> HIDE DEF g
      <3>1. CASE i = n + 1
        <4>1. g[i - 1] = f[n] /\ i # 0
          BY <2>3, <3>1
        <4> QED
          BY <2>4, <3>1, <4>1
      <3>2. CASE i \in 1..n
        <4>1. g[i - 1] = f[i - 1] /\ g[i] = f[i] /\ i # 0
          BY <2>3, <3>2
        <4> QED
          BY <2>2, <3>2, <4>1
      <3>3. CASE i = 0
        BY <2>2, <2>3, <3>3
      <3> QED
        BY <3>1, <3>2, <3>3
    <2>6. g = [i \in 0..(n + 1) |-> g[i]]
      OBVIOUS
    <2> HIDE DEF g
    <2>7. Makes(g, text, op, n + 1)
      BY <2>5, <2>6 DEF Makes
    <2> QED
      BY <2>7
  <1> HIDE DEF P
  <1>3. Nat \subseteq P
    BY <1>1, <1>2, Induction
  <1> QED
    BY <1>3 DEF P

\* So applyOperation is what it has made after the last unit.
LEMMA ApplyMakes ==
    ASSUME NEW text, NEW op, Len(op) \in Nat
    PROVE  \E f : /\ Makes(f, text, op, Len(op))
                  /\ applyOperation(text, op) = f[Len(op)]
  <1> DEFINE F == CHOOSE f : Makes(f, text, op, Len(op))
  <1>1. applyOperation(text, op) = F[Len(op)]
    BY DEF applyOperation, Makes, Made
  <1>2. Makes(F, text, op, Len(op))
    BY MakesExists
  <1> QED
    BY <1>1, <1>2

\* The first n units of two operations make the same of two texts.
SameMade(text, op, r, longer, n) ==
    \A i \in 1..n : \A before :
        Made(text, op, i, before) = Made(r, longer, i, before)

\* Two operations that make the same of their first units agree up to there.
LEMMA MakesAgree ==
    ASSUME NEW text, NEW r, NEW f, NEW op, NEW n \in Nat, Makes(f, text, op, n),
           NEW g, NEW longer, NEW m \in Nat, Makes(g, r, longer, m), n <= m,
           SameMade(text, op, r, longer, n)
    PROVE  \A i \in 0..n : f[i] = g[i]
  <1> DEFINE P == {i \in 0..n : f[i] = g[i]}
  <1>1. \A i \in 0..n : f[i] = IF i = 0 THEN <<>>
                               ELSE Made(text, op, i, f[i - 1])
    BY DEF Makes
  <1>2. \A i \in 0..m : g[i] = IF i = 0 THEN <<>>
                               ELSE Made(r, longer, i, g[i - 1])
    BY DEF Makes
  <1>3. 0 \in P
    BY <1>1, <1>2
  <1>4. ASSUME NEW i \in 0..n, i \in P, i < n
        PROVE  i + 1 \in P
    <2>1. i + 1 \in 1..n /\ i + 1 \in 0..m /\ (i + 1) - 1 = i /\ i + 1 # 0
      BY <1>4
    <2>2. f[i + 1] = Made(text, op, i + 1, f[i])
      BY <1>1, <2>1
    <2>3. g[i + 1] = Made(r, longer, i + 1, g[i])
      BY <1>2, <2>1
    <2>4. f[i] = g[i]
      BY <1>4
    <2> QED
      BY <2>1, <2>2, <2>3, <2>4 DEF SameMade
  <1> HIDE DEF P
  <1>5. 0..n \subseteq P
    BY <1>3, <1>4, InductionUpTo
  <1> QED
    BY <1>5 DEF P

\* applyOperation on no units and on one unit more.
LEMMA ApplyEmpty ==
    ASSUME NEW text
    PROVE  applyOperation(text, <<>>) = <<>>
  <1>1. Len(<<>>) = 0
    OBVIOUS
  <1>2. PICK f : Makes(f, text, <<>>, 0) /\ applyOperation(text, <<>>) = f[0]
    BY <1>1, ApplyMakes
  <1> QED
    BY <1>2 DEF Makes

\* What one unit more does to the text made so far.
LEMMA ApplyAppend ==
    ASSUME NEW S, NEW op \in Seq(S), NEW u \in S, NEW text
    PROVE  LET before == applyOperation(text, op)
               after == applyOperation(text, Append(op, u))
           IN  /\ u = Keep => after = Append(before, text[baseLength(op) + 1])
               /\ u = Cut => after = before
               /\ IsLetter(u) => after = Append(before, u)
  <1> DEFINE longer == Append(op, u)
             n == Len(op)
             before == applyOperation(text, op)
             after == applyOperation(text, longer)
  <1>1. /\ longer \in Seq(S) /\ Len(longer) = n + 1 /\ n \in Nat
        /\ \A i \in 1..n : longer[i] = op[i]
        /\ longer[n + 1] = u
    BY AppendProperties, LenProperties
  <1>2. \A i \in 0..n : First(longer, i) = First(op, i)
    BY FirstOfAppend
  <1>3. baseLength(longer) = IF IsLetter(u) THEN baseLength(op)
                             ELSE baseLength(op) + 1
    BY LengthsAppend
  <1>4. PICK f : Makes(f, text, op, n) /\ before = f[n]
    BY <1>1, ApplyMakes
  <1> HIDE DEF longer
  <1>5. PICK g : Makes(g, text, longer, n + 1) /\ after = g[n + 1]
    <2>1. Len(longer) \in Nat
      BY <1>1
    <2>2. PICK g : Makes(g, text, longer, Len(longer)) /\ after = g[Len(longer)]
      BY <2>1, ApplyMakes
    <2> QED
      BY <1>1, <2>2
  <1>6. First(longer, n + 1) = longer
    <2>1. First(longer, Len(longer)) = longer
      BY <1>1, SubSeqFull DEF First
    <2> QED
      BY <1>1, <2>1
  <1> HIDE DEF longer, before, after, n
  <1>7. SameMade(text, op, text, longer, n)
    BY <1>1, <1>2 DEF Made, SameMade
  <1>8. \A i \in 0..n : f[i] = g[i]
    <2>1. n + 1 \in Nat /\ n <= n + 1
      BY <1>1
    <2> QED
      BY <1>1, <1>4, <1>5, <1>7, <2>1, MakesAgree
  <1>9. g[n + 1] = Made(text, longer, n + 1, g[n])
    <2>1. n + 1 \in 0..(n + 1) /\ (n + 1) - 1 = n /\ n + 1 # 0
      BY <1>1
    <2> QED
      BY <1>5, <2>1 DEF Makes
  <1>10. after = Made(text, longer, n + 1, before)
    BY <1>1, <1>4, <1>5, <1>8, <1>9
  <1>11. /\ u = Keep => after = Append(before, text[baseLength(op) + 1])
         /\ u = Cut => after = before
         /\ IsLetter(u) => after = Append(before, u)
    BY <1>1, <1>3, <1>6, <1>10 DEF Made, IsLetter, Keep, Cut
  <1> QED
    BY <1>11 DEF before, after, longer, n

\* The units of operations on texts of the letters L.
Units(L) == L \cup {Keep, Cut}

Letters(L) == \A x \in L : IsLetter(x)

\* applyOperation: an operation that reads no more than there is makes a text
\* of the length it promises (targetLength).
THEOREM ApplyLength ==
    ASSUME NEW L, Letters(L), NEW text \in Seq(L),
           NEW op \in Seq(Units(L)), baseLength(op) <= Len(text)
    PROVE  /\ applyOperation(text, op) \in Seq(L)
           /\ Len(applyOperation(text, op)) = targetLength(op)
  <1> DEFINE U == Units(L)
             Good(o) == baseLength(o) <= Len(text) =>
                            /\ applyOperation(text, o) \in Seq(L)
                            /\ Len(applyOperation(text, o)) = targetLength(o)
             P == {o \in Seq(U) : Good(o)}
  <1>1. <<>> \in P
    BY ApplyEmpty, LengthsEmpty, EmptySeq
  <1>2. ASSUME NEW o \in Seq(U), NEW u \in U, o \in P
        PROVE  Append(o, u) \in P
    <2> DEFINE longer == Append(o, u)
               before == applyOperation(text, o)
               after == applyOperation(text, longer)
    <2>1. longer \in Seq(U)
      BY AppendProperties
    <2>2. SUFFICES ASSUME baseLength(longer) <= Len(text)
                   PROVE  after \in Seq(L) /\ Len(after) = targetLength(longer)
      BY <2>1
    <2>3. /\ baseLength(longer) = IF IsLetter(u) THEN baseLength(o)
                                  ELSE baseLength(o) + 1
          /\ targetLength(longer) = IF u = Cut THEN targetLength(o)
                                    ELSE targetLength(o) + 1
      BY LengthsAppend
    <2>4. /\ u = Keep => after = Append(before, text[baseLength(o) + 1])
          /\ u = Cut => after = before
          /\ IsLetter(u) => after = Append(before, u)
      BY ApplyAppend
    <2>5. baseLength(o) \in Nat /\ Len(text) \in Nat
      BY LengthsType, LenProperties
    <2>6. before \in Seq(L) /\ Len(before) = targetLength(o)
      BY <1>2, <2>2, <2>3, <2>5
    <2> HIDE DEF longer, before, after, P
    <2>7. CASE u = Keep
      <3>1. ~IsLetter(u) /\ u # Cut
        BY <2>7 DEF IsLetter, Keep, Cut
      <3>2. baseLength(o) + 1 \in 1..Len(text)
        BY <2>2, <2>3, <2>5, <3>1
      <3>3. text[baseLength(o) + 1] \in L
        BY <3>2, ElementOfSeq
      <3> DEFINE x == text[baseLength(o) + 1]
      <3> HIDE DEF x
      <3>4. x \in L
        BY <3>3 DEF x
      <3>5. Append(before, x) \in Seq(L) /\ Len(Append(before, x)) = Len(before) + 1
        BY <2>6, <3>4, AppendProperties
      <3> QED
        BY <2>3, <2>4, <2>6, <2>7, <3>1, <3>5 DEF x
    <2>8. CASE u = Cut
      BY <2>3, <2>4, <2>6, <2>8
    <2>9. CASE IsLetter(u)
      <3>1. u \in L /\ u # Cut
        BY <2>9 DEF Units, IsLetter
      <3>2. Append(before, u) \in Seq(L) /\ Len(Append(before, u)) = Len(before) + 1
        BY <2>6, <3>1, AppendProperties
      <3> QED
        BY <2>3, <2>4, <2>6, <2>9, <3>1, <3>2
    <2> QED
      BY <2>7, <2>8, <2>9 DEF IsLetter
  <1> HIDE DEF P
  <1>3. Seq(U) \subseteq P
    BY <1>1, <1>2, InductionAppend
  <1> QED
    BY <1>3 DEF P

\* An operation makes the same of texts that agree on what it reads.
LEMMA ApplyAgree ==
    ASSUME NEW S, NEW op \in Seq(S), NEW text, NEW r,
           \A k \in 1..baseLength(op) : text[k] = r[k]
    PROVE  applyOperation(text, op) = applyOperation(r, op)
  <1> DEFINE n == Len(op)
  <1>1. n \in Nat /\ baseLength(op) \in Nat
    BY LenProperties, LengthsType
  <1>2. PICK f : Makes(f, text, op, n) /\ applyOperation(text, op) = f[n]
    BY <1>1, ApplyMakes
  <1>3. PICK g : Makes(g, r, op, n) /\ applyOperation(r, op) = g[n]
    BY <1>1, ApplyMakes
  <1>4. ASSUME NEW i \in 1..n, NEW b
        PROVE  Made(text, op, i, b) = Made(r, op, i, b)
    <2>1. CASE op[i] # Keep
      BY <2>1 DEF Made
    <2>2. CASE op[i] = Keep
      <3>1. i - 1 \in 0..n /\ i \in 0..n /\ (i - 1) + 1 = i /\ i - 1 < n
        BY <1>1
      <3>2. /\ First(op, i - 1) \in Seq(S)
            /\ op[i] \in S
            /\ First(op, i) = Append(First(op, i - 1), op[i])
        BY <3>1, FirstUnits
      <3>3. /\ baseLength(First(op, i)) = baseLength(First(op, i - 1)) + 1
            /\ baseLength(First(op, i - 1)) \in Nat
        BY <2>2, <3>2, LengthsAppend, LengthsType DEF IsLetter
      <3>4. baseLength(First(op, i)) <= baseLength(op)
        BY <3>1, LengthsGrow
      <3>5. text[baseLength(First(op, i))] = r[baseLength(First(op, i))]
        BY <1>1, <3>3, <3>4
      <3> QED
        BY <2>2, <3>5 DEF Made
    <2> QED
      BY <2>1, <2>2
  <1> HIDE DEF n
  <1>5. SameMade(text, op, r, op, n)
    BY <1>4 DEF SameMade
  <1>6. \A i \in 0..n : f[i] = g[i]
    BY <1>1, <1>2, <1>3, <1>5, MakesAgree
  <1> QED
    BY <1>1, <1>2, <1>3, <1>6

\* An operation reads nothing of what is appended to the text it fits.
LEMMA ApplyToLonger ==
    ASSUME NEW S, NEW op \in Seq(S), NEW T, NEW text \in Seq(T), NEW x \in T,
           baseLength(op) <= Len(text)
    PROVE  applyOperation(Append(text, x), op) = applyOperation(text, op)
  <1>1. /\ Len(text) \in Nat /\ baseLength(op) \in Nat
        /\ \A k \in 1..Len(text) : Append(text, x)[k] = text[k]
    <2>1. Len(text) \in Nat /\ baseLength(op) \in Nat
      BY LenProperties, LengthsType
    <2>2. \A k \in 1..Len(text) : Append(text, x)[k] = text[k]
      BY AppendProperties
    <2> QED
      BY <2>1, <2>2
  <1>2. \A k \in 1..baseLength(op) : Append(text, x)[k] = text[k]
    BY <1>1
  <1> QED
    BY <1>2, ApplyAgree

\* Typed on no units and on one unit more.
LEMMA TypedEmpty ==
    Typed(<<>>) = <<>>
  <1>1. [i \in DOMAIN <<>> |-> IF <<>>[i] = Keep THEN Cut ELSE <<>>[i]] = <<>>
    OBVIOUS
  <1> QED
    BY <1>1, ApplyEmpty DEF Typed

\* What one unit more adds to the letters an operation types.
LEMMA TypedAppend ==
    ASSUME NEW S, NEW op \in Seq(S), NEW u \in S
    PROVE  Typed(Append(op, u)) = IF IsLetter(u) THEN Append(Typed(op), u)
                                  ELSE Typed(op)
  <1> DEFINE T == S \cup {Cut}
             Bare(o) == [i \in DOMAIN o |-> IF o[i] = Keep THEN Cut ELSE o[i]]
             longer == Append(op, u)
             n == Len(op)
             v == IF u = Keep THEN Cut ELSE u
  <1>1. /\ longer \in Seq(S) /\ Len(longer) = n + 1 /\ n \in Nat
        /\ \A i \in 1..n : longer[i] = op[i]
        /\ longer[n + 1] = u
    BY AppendProperties, LenProperties
  <1>2. DOMAIN op = 1..n /\ \A i \in 1..n : op[i] \in S
    BY LenProperties, ElementOfSeq
  <1> HIDE DEF longer
  <1>3. DOMAIN longer = 1..(n + 1)
    BY <1>1, LenProperties
  <1>4. v \in T
    OBVIOUS
  <1> HIDE DEF v, n
  <1>5. /\ Bare(op) \in Seq(T) /\ Len(Bare(op)) = n
        /\ \A i \in 1..n : Bare(op)[i] = IF op[i] = Keep THEN Cut ELSE op[i]
    <2>1. Bare(op) \in [1..n -> T]
      BY <1>2
    <2>2. Bare(op) \in Seq(T)
      BY <1>1, <2>1, SeqDef
    <2>3. DOMAIN Bare(op) = 1..n
      BY <1>2
    <2>4. Len(Bare(op)) \in Nat /\ 1..Len(Bare(op)) = 1..n
      BY <2>2, <2>3, LenProperties
    <2> HIDE DEF Bare
    <2>5. Len(Bare(op)) = n
      BY <1>1, <2>4
    <2> QED
      BY <1>2, <2>2, <2>5 DEF Bare
  <1>6. /\ Bare(longer) \in Seq(T) /\ Len(Bare(longer)) = n + 1
        /\ \A i \in 1..n : Bare(longer)[i] = Bare(op)[i]
        /\ Bare(longer)[n + 1] = v
    <2>1. \A i \in 1..(n + 1) : longer[i] \in S
      BY <1>1, ElementOfSeq
    <2>2. Bare(longer) \in [1..(n + 1) -> T]
      BY <1>3, <2>1
    <2>3. Bare(longer) \in Seq(T)
      BY <1>1, <2>2, SeqDef
    <2>4. DOMAIN Bare(longer) = 1..(n + 1)
      BY <1>3
    <2>5. Len(Bare(longer)) \in Nat /\ 1..Len(Bare(longer)) = 1..(n + 1)
      BY <2>3, <2>4, LenProperties
    <2>6. \A i \in 1..n : Bare(longer)[i] = Bare(op)[i]
      BY <1>1, <1>2, <1>3
    <2>7. Bare(longer)[n + 1] = v
      BY <1>1, <1>3 DEF v
    <2> HIDE DEF Bare
    <2>8. Len(Bare(longer)) = n + 1
      BY <1>1, <2>5
    <2> QED
      BY <2>3, <2>6, <2>7, <2>8
  <1>7. Typed(op) = applyOperation(<<>>, Bare(op))
    BY DEF Typed
  <1>8. Typed(longer) = applyOperation(<<>>, Bare(longer))
    BY DEF Typed
  <1> HIDE DEF Bare, T
  <1> DEFINE w == Append(Bare(op), v)
  <1>9. /\ w \in Seq(T) /\ Len(w) = n + 1
        /\ \A i \in 1..n : w[i] = Bare(op)[i]
        /\ w[n + 1] = v
    BY <1>4, <1>5, AppendProperties
  <1> HIDE DEF w
  <1>10. \A i \in 1..Len(w) : w[i] = Bare(longer)[i]
    BY <1>1, <1>6, <1>9
  <1>11. Bare(longer) = Append(Bare(op), v)
    BY <1>6, <1>9, <1>10, SeqEqual DEF w
  <1>12. LET before == applyOperation(<<>>, Bare(op))
             after == applyOperation(<<>>, Append(Bare(op), v))
         IN  /\ v = Cut => after = before
             /\ IsLetter(v) => after = Append(before, v)
    BY <1>4, <1>5, ApplyAppend
  <1>13. IF IsLetter(u) THEN v = u ELSE v = Cut
    BY DEF v, IsLetter
  <1> QED
    BY <1>7, <1>8, <1>11, <1>12, <1>13 DEF longer

\* Where the builder puts a letter makes no difference to what an operation
\* reads, writes, types and makes of a text: it could as well be at the end.
LEMMA EmitAppends ==
    ASSUME NEW S, Cut \in S, NEW u \in S, NEW op \in Seq(S)
    PROVE  LET e == Emit(op, u)
               a == Append(op, u)
           IN  /\ e \in Seq(S)
               /\ baseLength(e) = baseLength(a)
               /\ targetLength(e) = targetLength(a)
               /\ Typed(e) = Typed(a)
               /\ \A text : applyOperation(text, e) = applyOperation(text, a)
  <1>1. CASE ~IsLetter(u)
    BY <1>1, AppendProperties DEF Emit
  <1>2. CASE IsLetter(u)
    <2> DEFINE Same(e, a) ==
                   /\ e \in Seq(S)
                   /\ baseLength(e) = baseLength(a)
                   /\ targetLength(e) = targetLength(a)
                   /\ Typed(e) = Typed(a)
                   /\ \A text : applyOperation(text, e) = applyOperation(text, a)
               P == {o \in Seq(S) : Same(Emit(o, u), Append(o, u))}
    <2>1. <<>> \in P
      <3>1. <<>> \in Seq(S) /\ Append(<<>>, u) \in Seq(S)
        BY EmptySeq, AppendProperties
      <3>2. Emit(<<>>, u) = Append(<<>>, u)
        BY <1>2, <3>1, EmitAtEnd
      <3> QED
        BY <3>1, <3>2
    <2>2. ASSUME NEW o \in Seq(S), NEW v \in S, o \in P
          PROVE  Append(o, v) \in P
      <3> DEFINE ov == Append(o, v)
      <3>1. ov \in Seq(S) /\ ov[Len(ov)] = v
        BY AppendProperties
      <3>2. Append(ov, u) \in Seq(S)
        BY <3>1, AppendProperties
      <3>3. CASE v # Cut
        <4>1. Emit(ov, u) = Append(ov, u)
          BY <1>2, <3>1, <3>3, EmitAtEnd
        <4> QED
          BY <3>1, <3>2, <4>1
      <3>4. CASE v = Cut
        <4> DEFINE e == Emit(o, u)
                   a == Append(o, u)
        <4>1. Emit(ov, u) = Append(e, Cut)
          BY <1>2, <3>4, EmitBeforeCut
        <4>2. e \in Seq(S) /\ a \in Seq(S)
          BY <1>2, EmitLetter, AppendProperties
        <4>3. /\ baseLength(e) = baseLength(a)
              /\ targetLength(e) = targetLength(a)
              /\ Typed(e) = Typed(a)
              /\ \A text : applyOperation(text, e) = applyOperation(text, a)
          BY <2>2
        <4>4. u # Cut /\ ~IsLetter(Cut) /\ Cut # Keep /\ u # Keep
          BY <1>2 DEF IsLetter, Cut, Keep
        <4>5. /\ baseLength(a) = baseLength(o)
              /\ targetLength(a) = targetLength(o) + 1
              /\ Typed(a) = Append(Typed(o), u)
              /\ \A text : applyOperation(text, a)
                                = Append(applyOperation(text, o), u)
          BY <1>2, <4>4, LengthsAppend, TypedAppend, ApplyAppend
        <4>6. /\ baseLength(ov) = baseLength(o) + 1
              /\ targetLength(ov) = targetLength(o)
              /\ Typed(ov) = Typed(o)
              /\ \A text : applyOperation(text, ov) = applyOperation(text, o)
          BY <3>4, <4>4, LengthsAppend, TypedAppend, ApplyAppend
        <4> HIDE DEF e, a, ov
        <4>7. /\ Append(e, Cut) \in Seq(S)
              /\ baseLength(Append(e, Cut)) = baseLength(e) + 1
              /\ targetLength(Append(e, Cut)) = targetLength(e)
              /\ Typed(Append(e, Cut)) = Typed(e)
              /\ \A text : applyOperation(text, Append(e, Cut))
                                = applyOperation(text, e)
          BY <4>2, <4>4, AppendProperties, LengthsAppend, TypedAppend, ApplyAppend
        <4>8. /\ baseLength(Append(ov, u)) = baseLength(ov)
              /\ targetLength(Append(ov, u)) = targetLength(ov) + 1
              /\ Typed(Append(ov, u)) = Append(Typed(ov), u)
              /\ \A text : applyOperation(text, Append(ov, u))
                                = Append(applyOperation(text, ov), u)
          BY <1>2, <3>1, <4>4, LengthsAppend, TypedAppend, ApplyAppend
        <4>9. Same(Append(e, Cut), Append(ov, u))
          BY <4>3, <4>5, <4>6, <4>7, <4>8
        <4> QED
          BY <3>1, <4>1, <4>9 DEF ov, e
      <3> QED
        BY <3>3, <3>4
    <2> HIDE DEF P
    <2>3. Seq(S) \subseteq P
      BY <2>1, <2>2, InductionAppend
    <2> QED
      BY <2>3 DEF P
  <1> QED
    BY <1>1, <1>2

\* What one unit more in the builder reads, writes and types.
LEMMA EmitLengths ==
    ASSUME NEW S, Cut \in S, NEW u \in S, NEW op \in Seq(S)
    PROVE  /\ Emit(op, u) \in Seq(S)
           /\ baseLength(Emit(op, u))
                = IF IsLetter(u) THEN baseLength(op) ELSE baseLength(op) + 1
           /\ targetLength(Emit(op, u))
                = IF u = Cut THEN targetLength(op) ELSE targetLength(op) + 1
           /\ Typed(Emit(op, u)) = IF IsLetter(u) THEN Append(Typed(op), u)
                                   ELSE Typed(op)
  <1>1. LET e == Emit(op, u)
            a == Append(op, u)
        IN  /\ e \in Seq(S)
            /\ baseLength(e) = baseLength(a)
            /\ targetLength(e) = targetLength(a)
            /\ Typed(e) = Typed(a)
    BY EmitAppends
  <1> QED
    BY <1>1, LengthsAppend, TypedAppend

\* What one unit more in the builder makes of the text: Keep and Cut take
\* the letter that the text has more, a letter adds itself.
LEMMA EmitMakes ==
    ASSUME NEW L, NEW text \in Seq(L), NEW x \in L,
           NEW op \in Seq(Units(L)), baseLength(op) = Len(text)
    PROVE  /\ applyOperation(Append(text, x), Emit(op, Keep))
                = Append(applyOperation(text, op), x)
           /\ applyOperation(Append(text, x), Emit(op, Cut))
                = applyOperation(text, op)
           /\ applyOperation(Append(text, x), op) = applyOperation(text, op)
           /\ \A u \in L : IsLetter(u) => applyOperation(text, Emit(op, u))
                                = Append(applyOperation(text, op), u)
  <1> DEFINE U == Units(L)
             more == Append(text, x)
  <1>1. Cut \in U /\ Keep \in U /\ \A u \in L : u \in U
    BY DEF Units
  <1>2. ASSUME NEW u \in U, NEW t
        PROVE  applyOperation(t, Emit(op, u)) = applyOperation(t, Append(op, u))
    BY <1>1, EmitAppends
  <1>3. Len(text) \in Nat /\ more[Len(text) + 1] = x
    BY LenProperties, AppendProperties
  <1>4. applyOperation(more, op) = applyOperation(text, op)
    BY <1>3, ApplyToLonger
  <1> HIDE DEF more
  <1>5. /\ applyOperation(more, Append(op, Keep))
                = Append(applyOperation(more, op), more[baseLength(op) + 1])
        /\ applyOperation(more, Append(op, Cut)) = applyOperation(more, op)
    BY <1>1, ApplyAppend
  <1>6. \A u \in L : IsLetter(u) => applyOperation(text, Append(op, u))
                                = Append(applyOperation(text, op), u)
    BY <1>1, ApplyAppend
  <1> QED
    BY <1>1, <1>2, <1>3, <1>4, <1>5, <1>6 DEF more

----------------------------------------------------------------------------
(* Carrying two operations over each other.                                *)

\* The walk of transformOperations, one state for each number of turns.
TransformWalk(f, a, b, n) ==
    f = [k \in 0..n |->
            IF k = 0 THEN [i |-> 0, j |-> 0, outA |-> <<>>, outB |-> <<>>]
            ELSE TransformTurn(a, b, f[k - 1], {Cut})]

\* Such a walk exists, for any number of turns.
LEMMA TransformWalkExists ==
    ASSUME NEW a, NEW b
    PROVE  \A n \in Nat : \E f : TransformWalk(f, a, b, n)
  <1> DEFINE P == {n \in Nat : \E f : TransformWalk(f, a, b, n)}
             start == [i |-> 0, j |-> 0, outA |-> <<>>, outB |-> <<>>]
             Turn(s) == TransformTurn(a, b, s, {Cut})
  <1>1. 0 \in P
    <2> DEFINE f == [k \in 0..0 |-> start]
    <2>1. TransformWalk(f, a, b, 0)
      BY DEF TransformWalk
    <2> QED
      BY <2>1
  <1>2. ASSUME NEW n \in Nat, n \in P
        PROVE  n + 1 \in P
    <2>1. PICK f : TransformWalk(f, a, b, n)
      BY <1>2
    <2> DEFINE g == [k \in 0..(n + 1) |-> IF k = n + 1 THEN Turn(f[n]) ELSE f[k]]
    <2>2. \A k \in 0..n : f[k] = IF k = 0 THEN start ELSE Turn(f[k - 1])
      BY <2>1 DEF TransformWalk
    <2> HIDE DEF start, Turn
    <2>3. \A k \in 0..n : g[k] = f[k]
      OBVIOUS
    <2>4. g[n + 1] = Turn(f[n])
      OBVIOUS
    <2>5. g = [k \in 0..(n + 1) |-> g[k]]
      OBVIOUS
    <2> HIDE DEF g
    <2>6. ASSUME NEW k \in 0..(n + 1)
          PROVE  g[k] = IF k = 0 THEN start ELSE Turn(g[k - 1])
      <3>1. CASE k = n + 1
        <4>1. g[k - 1] = f[n] /\ k # 0
          BY <2>3, <3>1
        <4> QED
          BY <2>4, <3>1, <4>1
      <3>2. CASE k \in 1..n
        <4>1. g[k - 1] = f[k - 1] /\ g[k] = f[k] /\ k # 0
          BY <2>3, <3>2
        <4> QED
          BY <2>2, <3>2, <4>1
      <3>3. CASE k = 0
        BY <2>2, <2>3, <3>3
      <3> QED
        BY <3>1, <3>2, <3>3
    <2>7. TransformWalk(g, a, b, n + 1)
      BY <2>5, <2>6 DEF TransformWalk, start, Turn
    <2> QED
      BY <2>7
  <1> HIDE DEF P
  <1>3. Nat \subseteq P
    BY <1>1, <1>2, Induction
  <1> QED
    BY <1>3 DEF P

\* transformOperations is where it ends.
LEMMA TransformWalks ==
    ASSUME NEW a, NEW b, Turns(a, b) \in Nat
    PROVE  \E f : /\ TransformWalk(f, a, b, Turns(a, b))
                  /\ transformOperations(a, b)
                        = <<f[Turns(a, b)].outA, f[Turns(a, b)].outB>>
  <1> DEFINE F == CHOOSE f : TransformWalk(f, a, b, Turns(a, b))
  <1>1. transformOperations(a, b) = <<F[Turns(a, b)].outA, F[Turns(a, b)].outB>>
    BY DEF transformOperations, Transformed, TransformWalk
  <1>2. TransformWalk(F, a, b, Turns(a, b))
    BY TransformWalkExists
  <1> QED
    BY <1>1, <1>2

\* What the walk has read of the two operations, and what it has made of
\* them: both have read the same of the text, each result fits what the
\* other operation has written, and either way round one text is made.
Square(L, pa, pb, outA, outB) ==
    /\ pa \in Seq(Units(L)) /\ pb \in Seq(Units(L))
    /\ outA \in Seq(Units(L)) /\ outB \in Seq(Units(L))
    /\ baseLength(pa) = baseLength(pb)
    /\ baseLength(outA) = targetLength(pb)
    /\ baseLength(outB) = targetLength(pa)
    /\ targetLength(outA) = targetLength(outB)
    /\ Typed(outA) = Typed(pa)
    /\ Typed(outB) = Typed(pb)
    /\ \A text \in Seq(L) : baseLength(pa) <= Len(text) =>
           applyOperation(applyOperation(text, pa), outB)
               = applyOperation(applyOperation(text, pb), outA)

\* The texts of a square are typed, and long enough for its operations.
LEMMA SquareTexts ==
    ASSUME NEW L, Letters(L), NEW pa, NEW pb, NEW outA, NEW outB,
           Square(L, pa, pb, outA, outB),
           NEW text \in Seq(L), baseLength(pa) <= Len(text)
    PROVE  LET x == applyOperation(text, pa)
               y == applyOperation(text, pb)
           IN  /\ x \in Seq(L) /\ Len(x) = baseLength(outB)
               /\ y \in Seq(L) /\ Len(y) = baseLength(outA)
               /\ applyOperation(x, outB) = applyOperation(y, outA)
  BY ApplyLength DEF Square

\* An insertion of the first operation: the other side keeps it.
LEMMA SquareInsertFirst ==
    ASSUME NEW L, Letters(L), NEW pa, NEW pb, NEW outA, NEW outB,
           Square(L, pa, pb, outA, outB), NEW u \in L
    PROVE  Square(L, Append(pa, u), pb, Emit(outA, u), Emit(outB, Keep))
  <1> DEFINE U == Units(L)
  <1>1. /\ pa \in Seq(U) /\ pb \in Seq(U) /\ outA \in Seq(U) /\ outB \in Seq(U)
        /\ u \in U /\ Keep \in U /\ Cut \in U /\ IsLetter(u) /\ u # Cut
        /\ ~IsLetter(Keep) /\ Keep # Cut
    BY DEF Square, Units, Letters, IsLetter, Keep, Cut
  <1>2. /\ Append(pa, u) \in Seq(U)
        /\ baseLength(Append(pa, u)) = baseLength(pa)
        /\ targetLength(Append(pa, u)) = targetLength(pa) + 1
        /\ Typed(Append(pa, u)) = Append(Typed(pa), u)
    BY <1>1, AppendProperties, LengthsAppend, TypedAppend
  <1>3. /\ Emit(outA, u) \in Seq(U)
        /\ baseLength(Emit(outA, u)) = baseLength(outA)
        /\ targetLength(Emit(outA, u)) = targetLength(outA) + 1
        /\ Typed(Emit(outA, u)) = Append(Typed(outA), u)
    BY <1>1, EmitLengths
  <1>4. /\ Emit(outB, Keep) \in Seq(U)
        /\ baseLength(Emit(outB, Keep)) = baseLength(outB) + 1
        /\ targetLength(Emit(outB, Keep)) = targetLength(outB) + 1
        /\ Typed(Emit(outB, Keep)) = Typed(outB)
    BY <1>1, EmitLengths
  <1>5. ASSUME NEW text \in Seq(L), baseLength(pa) <= Len(text)
        PROVE  applyOperation(applyOperation(text, Append(pa, u)), Emit(outB, Keep))
                 = applyOperation(applyOperation(text, pb), Emit(outA, u))
    <2> DEFINE x == applyOperation(text, pa)
               y == applyOperation(text, pb)
    <2>1. /\ x \in Seq(L) /\ Len(x) = baseLength(outB)
          /\ y \in Seq(L) /\ Len(y) = baseLength(outA)
          /\ applyOperation(x, outB) = applyOperation(y, outA)
      BY <1>5, SquareTexts
    <2>2. applyOperation(text, Append(pa, u)) = Append(x, u)
      BY <1>1, ApplyAppend
    <2> HIDE DEF x, y
    <2>3. applyOperation(Append(x, u), Emit(outB, Keep))
            = Append(applyOperation(x, outB), u)
      BY <1>1, <2>1, EmitMakes
    <2>4. applyOperation(y, Emit(outA, u)) = Append(applyOperation(y, outA), u)
      BY <1>1, <2>1, EmitMakes
    <2> QED
      BY <2>1, <2>2, <2>3, <2>4 DEF y
  <1> QED
    BY <1>1, <1>2, <1>3, <1>4, <1>5 DEF Square

\* An insertion of the second operation.
LEMMA SquareInsertSecond ==
    ASSUME NEW L, Letters(L), NEW pa, NEW pb, NEW outA, NEW outB,
           Square(L, pa, pb, outA, outB), NEW u \in L
    PROVE  Square(L, pa, Append(pb, u), Emit(outA, Keep), Emit(outB, u))
  <1>1. Square(L, pb, pa, outB, outA)
    BY DEF Square
  <1>2. Square(L, Append(pb, u), pa, Emit(outB, u), Emit(outA, Keep))
    BY <1>1, SquareInsertFirst
  <1> QED
    BY <1>2 DEF Square

\* What the units that read a letter do to the lengths.
LEMMA ReadingUnits ==
    ASSUME NEW L, NEW op \in Seq(Units(L)), NEW u \in {Keep, Cut}
    PROVE  /\ u \in Units(L)
           /\ Append(op, u) \in Seq(Units(L))
           /\ baseLength(Append(op, u)) = baseLength(op) + 1
           /\ targetLength(Append(op, u))
                = IF u = Cut THEN targetLength(op) ELSE targetLength(op) + 1
           /\ Typed(Append(op, u)) = Typed(op)
           /\ Emit(op, u) \in Seq(Units(L))
           /\ baseLength(Emit(op, u)) = baseLength(op) + 1
           /\ targetLength(Emit(op, u))
                = IF u = Cut THEN targetLength(op) ELSE targetLength(op) + 1
           /\ Typed(Emit(op, u)) = Typed(op)
  <1>1. u \in Units(L) /\ Cut \in Units(L) /\ ~IsLetter(u)
    BY DEF Units, IsLetter
  <1> QED
    <2>1. Append(op, u) \in Seq(Units(L))
      BY <1>1, AppendProperties
    <2>2. /\ baseLength(Append(op, u)) = baseLength(op) + 1
          /\ targetLength(Append(op, u))
                = IF u = Cut THEN targetLength(op) ELSE targetLength(op) + 1
      BY <1>1, LengthsAppend
    <2>3. Typed(Append(op, u)) = Typed(op)
      BY <1>1, TypedAppend
    <2>4. /\ Emit(op, u) \in Seq(Units(L))
          /\ baseLength(Emit(op, u)) = baseLength(op) + 1
          /\ targetLength(Emit(op, u))
                = IF u = Cut THEN targetLength(op) ELSE targetLength(op) + 1
          /\ Typed(Emit(op, u)) = Typed(op)
      BY <1>1, EmitLengths
    <2> QED
      BY <1>1, <2>1, <2>2, <2>3, <2>4

\* Two units that meet at a letter: each is kept, unless the other takes the
\* letter away.
LEMMA SquareMeet ==
    ASSUME NEW L, Letters(L), NEW pa, NEW pb, NEW outA, NEW outB,
           Square(L, pa, pb, outA, outB),
           NEW u \in {Keep, Cut}, NEW v \in {Keep, Cut}
    PROVE  Square(L, Append(pa, u), Append(pb, v),
                  IF v = Cut THEN outA ELSE Emit(outA, u),
                  IF u = Cut THEN outB ELSE Emit(outB, v))
  <1> DEFINE U == Units(L)
             newA == IF v = Cut THEN outA ELSE Emit(outA, u)
             newB == IF u = Cut THEN outB ELSE Emit(outB, v)
  <1>1. /\ pa \in Seq(U) /\ pb \in Seq(U) /\ outA \in Seq(U) /\ outB \in Seq(U)
        /\ baseLength(pa) = baseLength(pb)
        /\ baseLength(outA) = targetLength(pb)
        /\ baseLength(outB) = targetLength(pa)
        /\ targetLength(outA) = targetLength(outB)
        /\ Typed(outA) = Typed(pa)
        /\ Typed(outB) = Typed(pb)
        /\ Keep # Cut
    BY DEF Square, Keep, Cut
  <1>2. /\ Append(pa, u) \in Seq(U)
        /\ baseLength(Append(pa, u)) = baseLength(pa) + 1
        /\ targetLength(Append(pa, u))
             = IF u = Cut THEN targetLength(pa) ELSE targetLength(pa) + 1
        /\ Typed(Append(pa, u)) = Typed(pa)
    BY <1>1, ReadingUnits
  <1>3. /\ Append(pb, v) \in Seq(U)
        /\ baseLength(Append(pb, v)) = baseLength(pb) + 1
        /\ targetLength(Append(pb, v))
             = IF v = Cut THEN targetLength(pb) ELSE targetLength(pb) + 1
        /\ Typed(Append(pb, v)) = Typed(pb)
    BY <1>1, ReadingUnits
  <1>4. /\ Emit(outA, u) \in Seq(U)
        /\ baseLength(Emit(outA, u)) = baseLength(outA) + 1
        /\ targetLength(Emit(outA, u))
             = IF u = Cut THEN targetLength(outA) ELSE targetLength(outA) + 1
        /\ Typed(Emit(outA, u)) = Typed(outA)
    BY <1>1, ReadingUnits
  <1>5. /\ Emit(outB, v) \in Seq(U)
        /\ baseLength(Emit(outB, v)) = baseLength(outB) + 1
        /\ targetLength(Emit(outB, v))
             = IF v = Cut THEN targetLength(outB) ELSE targetLength(outB) + 1
        /\ Typed(Emit(outB, v)) = Typed(outB)
    BY <1>1, ReadingUnits
  <1>6. ASSUME NEW text \in Seq(L), baseLength(pa) + 1 <= Len(text)
        PROVE  applyOperation(applyOperation(text, Append(pa, u)), newB)
                 = applyOperation(applyOperation(text, Append(pb, v)), newA)
    <2> DEFINE x == applyOperation(text, pa)
               y == applyOperation(text, pb)
               h == text[baseLength(pa) + 1]
    <2>1. baseLength(pa) \in Nat /\ Len(text) \in Nat
      BY <1>1, LengthsType, LenProperties
    <2>2. baseLength(pa) <= Len(text) /\ baseLength(pa) + 1 \in 1..Len(text)
      BY <1>6, <2>1
    <2>3. /\ x \in Seq(L) /\ Len(x) = baseLength(outB)
          /\ y \in Seq(L) /\ Len(y) = baseLength(outA)
          /\ applyOperation(x, outB) = applyOperation(y, outA)
      BY <2>2, SquareTexts
    <2>4. h \in L
      BY <2>2, ElementOfSeq
    <2>5. applyOperation(text, Append(pa, u)) = IF u = Cut THEN x ELSE Append(x, h)
      <3>1. u \in U
        BY <1>1, ReadingUnits
      <3> QED
        BY <1>1, <3>1, ApplyAppend
    <2>6. applyOperation(text, Append(pb, v)) = IF v = Cut THEN y ELSE Append(y, h)
      <3>1. v \in U
        BY <1>1, ReadingUnits
      <3> QED
        BY <1>1, <3>1, ApplyAppend
    <2> HIDE DEF x, y, h
    <2>7. /\ applyOperation(Append(x, h), Emit(outB, Keep))
               = Append(applyOperation(x, outB), h)
          /\ applyOperation(Append(x, h), Emit(outB, Cut)) = applyOperation(x, outB)
      BY <1>1, <2>3, <2>4, EmitMakes
    <2>8. /\ applyOperation(Append(y, h), Emit(outA, Keep))
               = Append(applyOperation(y, outA), h)
          /\ applyOperation(Append(y, h), Emit(outA, Cut)) = applyOperation(y, outA)
      BY <1>1, <2>3, <2>4, EmitMakes
    <2> QED
      BY <1>1, <2>3, <2>5, <2>6, <2>7, <2>8
  <1> HIDE DEF newA, newB
  <1>7. /\ newA \in Seq(U) /\ newB \in Seq(U)
        /\ baseLength(newA) = targetLength(Append(pb, v))
        /\ baseLength(newB) = targetLength(Append(pa, u))
        /\ targetLength(newA) = targetLength(newB)
        /\ Typed(newA) = Typed(pa)
        /\ Typed(newB) = Typed(pb)
    BY <1>1, <1>2, <1>3, <1>4, <1>5 DEF newA, newB
  <1>8. Square(L, Append(pa, u), Append(pb, v), newA, newB)
    BY <1>1, <1>2, <1>3, <1>6, <1>7 DEF Square
  <1> QED
    BY <1>8 DEF newA, newB

\* Where the walk of transformOperations is.
Carried(L, a, b, s) ==
    /\ s \in [i : 0..Len(a), j : 0..Len(b),
              outA : Seq(Units(L)), outB : Seq(Units(L))]
    /\ Square(L, First(a, s.i), First(b, s.j), s.outA, s.outB)

\* An operation that has read as much as the whole of it reads has no unit
\* left that reads.
LEMMA NothingLeft ==
    ASSUME NEW S, NEW op \in Seq(S), NEW i \in 0..Len(op), i < Len(op),
           baseLength(First(op, i)) = baseLength(op)
    PROVE  IsLetter(op[i + 1])
  <1>1. /\ First(op, i) \in Seq(S) /\ op[i + 1] \in S
        /\ First(op, i + 1) = Append(First(op, i), op[i + 1])
    BY FirstUnits
  <1>2. i + 1 \in 0..Len(op) /\ baseLength(op) \in Nat
    <2>1. Len(op) \in Nat
      BY LenProperties
    <2>2. baseLength(op) \in Nat
      BY LengthsType
    <2> QED
      BY <2>1, <2>2
  <1>3. baseLength(First(op, i + 1)) <= baseLength(op)
    BY <1>2, LengthsGrow
  <1>4. baseLength(First(op, i + 1))
            = IF IsLetter(op[i + 1]) THEN baseLength(op) ELSE baseLength(op) + 1
    BY <1>1, LengthsAppend
  <1> QED
    BY <1>2, <1>3, <1>4

\* A turn reads one unit at least, unless there is none.
Onward(a, b, s, t) ==
    \/ t.i + t.j > s.i + s.j
    \/ t = s /\ s.i = Len(a) /\ s.j = Len(b)

\* A turn of the walk keeps the square.
LEMMA TransformTurnCarries ==
    ASSUME NEW L, Letters(L), NEW a \in Seq(Units(L)), NEW b \in Seq(Units(L)),
           baseLength(a) = baseLength(b), NEW s, Carried(L, a, b, s),
           NEW t, t = TransformTurn(a, b, s, {Cut})
    PROVE  Carried(L, a, b, t) /\ Onward(a, b, s, t)
  <1> DEFINE U == Units(L)
             pa == First(a, s.i)
             pb == First(b, s.j)
             u == a[s.i + 1]
             v == b[s.j + 1]
  <1>1. /\ s \in [i : 0..Len(a), j : 0..Len(b), outA : Seq(U), outB : Seq(U)]
        /\ Square(L, pa, pb, s.outA, s.outB)
    BY DEF Carried, Onward
  <1>2. /\ s.i \in 0..Len(a) /\ s.j \in 0..Len(b)
        /\ s.outA \in Seq(U) /\ s.outB \in Seq(U)
        /\ Len(a) \in Nat /\ Len(b) \in Nat
    BY <1>1, LenProperties
  <1>3. s.i < Len(a) => u \in U /\ First(a, s.i + 1) = Append(pa, u)
    BY <1>2, FirstUnits
  <1>4. s.j < Len(b) => v \in U /\ First(b, s.j + 1) = Append(pb, v)
    BY <1>2, FirstUnits
  <1>5. First(a, Len(a)) = a /\ First(b, Len(b)) = b
    BY SubSeqFull DEF First
  <1>6. Cut \in U /\ Keep \in U
    BY DEF Units
  <1>7. CASE ~More(a, s.i) /\ ~More(b, s.j)
    BY <1>1, <1>2, <1>7 DEF TransformTurn, More, Carried, Onward
  <1>8. CASE More(a, s.i) /\ IsLetter(u)
    <2>1. t = [s EXCEPT !.i = @ + 1, !.outA = Emit(@, u), !.outB = Emit(@, Keep)]
      BY <1>8 DEF TransformTurn
    <2>2. s.i < Len(a) /\ u \in L
      BY <1>3, <1>8 DEF More, Units, IsLetter
    <2>3. Square(L, Append(pa, u), pb, Emit(s.outA, u), Emit(s.outB, Keep))
      BY <1>1, <2>2, SquareInsertFirst
    <2>4. Emit(s.outA, u) \in Seq(U) /\ Emit(s.outB, Keep) \in Seq(U)
      BY <2>3 DEF Square
    <2>5. /\ t \in [i : 0..Len(a), j : 0..Len(b), outA : Seq(U), outB : Seq(U)]
          /\ t.i = s.i + 1 /\ t.j = s.j
          /\ t.outA = Emit(s.outA, u) /\ t.outB = Emit(s.outB, Keep)
      <3> DEFINE A == 0..Len(a)
                 B == 0..Len(b)
      <3>1. s \in [i : A, j : B, outA : Seq(U), outB : Seq(U)]
        BY <1>1
      <3>2. s.i + 1 \in A
        BY <1>2, <2>2
      <3> HIDE DEF A, B, U, u, v
      <3>3. /\ t \in [i : A, j : B, outA : Seq(U), outB : Seq(U)]
             /\ t.i = s.i + 1 /\ t.j = s.j
             /\ t.outA = Emit(s.outA, u) /\ t.outB = Emit(s.outB, Keep)
        BY <2>1, <2>4, <3>1, <3>2
      <3> QED
        BY <3>3 DEF A, B
    <2>6. Square(L, First(a, t.i), First(b, t.j), t.outA, t.outB)
      BY <1>3, <2>2, <2>3, <2>5
    <2> QED
      BY <1>2, <2>5, <2>6 DEF Carried, Onward
  <1>9. CASE ~(More(a, s.i) /\ IsLetter(u)) /\ More(b, s.j) /\ IsLetter(v)
    <2>1. t = [s EXCEPT !.j = @ + 1, !.outA = Emit(@, Keep), !.outB = Emit(@, v)]
      BY <1>9 DEF TransformTurn
    <2>2. s.j < Len(b) /\ v \in L
      BY <1>4, <1>9 DEF More, Units, IsLetter
    <2>3. Square(L, pa, Append(pb, v), Emit(s.outA, Keep), Emit(s.outB, v))
      BY <1>1, <2>2, SquareInsertSecond
    <2>4. Emit(s.outA, Keep) \in Seq(U) /\ Emit(s.outB, v) \in Seq(U)
      BY <2>3 DEF Square
    <2>5. /\ t \in [i : 0..Len(a), j : 0..Len(b), outA : Seq(U), outB : Seq(U)]
          /\ t.i = s.i /\ t.j = s.j + 1
          /\ t.outA = Emit(s.outA, Keep) /\ t.outB = Emit(s.outB, v)
      <3> DEFINE A == 0..Len(a)
                 B == 0..Len(b)
      <3>1. s \in [i : A, j : B, outA : Seq(U), outB : Seq(U)]
        BY <1>1
      <3>2. s.j + 1 \in B
        BY <1>2, <2>2
      <3> HIDE DEF A, B, U, u, v
      <3>3. /\ t \in [i : A, j : B, outA : Seq(U), outB : Seq(U)]
             /\ t.i = s.i /\ t.j = s.j + 1
             /\ t.outA = Emit(s.outA, Keep) /\ t.outB = Emit(s.outB, v)
        BY <2>1, <2>4, <3>1, <3>2
      <3> QED
        BY <3>3 DEF A, B
    <2>6. Square(L, First(a, t.i), First(b, t.j), t.outA, t.outB)
      BY <1>4, <2>2, <2>3, <2>5
    <2> QED
      BY <1>2, <2>5, <2>6 DEF Carried, Onward
  <1>10. CASE /\ More(a, s.i) \/ More(b, s.j)
              /\ ~(More(a, s.i) /\ IsLetter(u))
              /\ ~(More(b, s.j) /\ IsLetter(v))
    <2>1. baseLength(pa) = baseLength(pb)
      BY <1>1 DEF Square
    <2>2. s.i < Len(a)
      <3> SUFFICES ASSUME ~(s.i < Len(a)) PROVE FALSE
        OBVIOUS
      <3>1. s.i = Len(a) /\ s.j < Len(b)
        BY <1>2, <1>10 DEF More
      <3>2. baseLength(pb) = baseLength(b)
        BY <1>5, <2>1, <3>1
      <3>3. IsLetter(v)
        BY <1>2, <3>1, <3>2, NothingLeft
      <3> QED
        BY <1>10, <3>1, <3>3 DEF More
    <2>3. s.j < Len(b)
      <3> SUFFICES ASSUME ~(s.j < Len(b)) PROVE FALSE
        OBVIOUS
      <3>1. s.j = Len(b)
        BY <1>2
      <3>2. baseLength(pa) = baseLength(a)
        BY <1>5, <2>1, <3>1
      <3>3. IsLetter(u)
        BY <1>2, <2>2, <3>2, NothingLeft
      <3> QED
        BY <1>10, <2>2, <3>3 DEF More
    <2>4. u \in {Keep, Cut} /\ v \in {Keep, Cut}
      BY <1>10, <2>2, <2>3 DEF More, IsLetter
    <2> DEFINE newA == IF v = Cut THEN s.outA ELSE Emit(s.outA, u)
               newB == IF u = Cut THEN s.outB ELSE Emit(s.outB, v)
    <2>5. t = [i |-> s.i + 1, j |-> s.j + 1, outA |-> newA, outB |-> newB]
      BY <1>10, <2>2, <2>3 DEF TransformTurn, More
    <2>6. Square(L, Append(pa, u), Append(pb, v), newA, newB)
      BY <1>1, <2>4, SquareMeet
    <2> HIDE DEF newA, newB
    <2>7. newA \in Seq(U) /\ newB \in Seq(U)
      BY <2>6 DEF Square
    <2>8. /\ t \in [i : 0..Len(a), j : 0..Len(b), outA : Seq(U), outB : Seq(U)]
          /\ t.i = s.i + 1 /\ t.j = s.j + 1
          /\ t.outA = newA /\ t.outB = newB
      BY <1>2, <2>2, <2>3, <2>5, <2>7
    <2>9. Square(L, First(a, t.i), First(b, t.j), t.outA, t.outB)
      BY <1>3, <1>4, <2>2, <2>3, <2>6, <2>8
    <2> QED
      BY <1>2, <2>8, <2>9 DEF Carried, Onward
  <1> QED
    BY <1>7, <1>8, <1>9, <1>10

\* The walk ends with both operations read.
LEMMA TransformSquare ==
    ASSUME NEW L, Letters(L), NEW a \in Seq(Units(L)), NEW b \in Seq(Units(L)),
           baseLength(a) = baseLength(b)
    PROVE  LET pair == transformOperations(a, b)
           IN  Square(L, a, b, pair[1], pair[2])
  <1> DEFINE N == Turns(a, b)
  <1>1. Len(a) \in Nat /\ Len(b) \in Nat /\ N \in Nat /\ N = Len(a) + Len(b)
    BY LenProperties DEF Turns
  <1>2. PICK f : /\ TransformWalk(f, a, b, N)
                 /\ transformOperations(a, b) = <<f[N].outA, f[N].outB>>
    BY <1>1, TransformWalks
  <1> HIDE DEF N
  <1>3. \A k \in 0..N :
            f[k] = IF k = 0 THEN [i |-> 0, j |-> 0, outA |-> <<>>, outB |-> <<>>]
                   ELSE TransformTurn(a, b, f[k - 1], {Cut})
    BY <1>2 DEF TransformWalk
  <1> DEFINE P == {k \in 0..N : /\ Carried(L, a, b, f[k])
                                /\ \/ f[k].i + f[k].j >= k
                                   \/ f[k].i = Len(a) /\ f[k].j = Len(b)}
  <1>4. 0 \in P
    <2> DEFINE s == [i |-> 0, j |-> 0, outA |-> <<>>, outB |-> <<>>]
    <2>1. f[0] = s
      BY <1>1, <1>3
    <2>2. /\ <<>> \in Seq(Units(L)) /\ <<>> \in Seq(L)
          /\ First(a, 0) = <<>> /\ First(b, 0) = <<>>
      BY EmptySeq, SubSeqEmpty DEF First
    <2>3. Square(L, <<>>, <<>>, <<>>, <<>>)
      BY <2>2, LengthsEmpty, ApplyEmpty DEF Square
    <2>4. s \in [i : 0..Len(a), j : 0..Len(b),
                 outA : Seq(Units(L)), outB : Seq(Units(L))]
      BY <1>1, <2>2
    <2>5. Carried(L, a, b, s)
      BY <2>2, <2>3, <2>4 DEF Carried
    <2> QED
      BY <1>1, <2>1, <2>5
  <1>5. ASSUME NEW k \in 0..N, k \in P, k < N
        PROVE  k + 1 \in P
    <2> DEFINE s == f[k]
               t == f[k + 1]
    <2>1. k + 1 \in 0..N /\ (k + 1) - 1 = k /\ k + 1 # 0
      BY <1>1, <1>5
    <2>2. t = TransformTurn(a, b, s, {Cut})
      BY <1>3, <2>1
    <2>3. /\ Carried(L, a, b, s)
          /\ s.i + s.j >= k \/ (s.i = Len(a) /\ s.j = Len(b))
      BY <1>5
    <2> HIDE DEF s, t
    <2>4. Carried(L, a, b, t) /\ Onward(a, b, s, t)
      BY <2>2, <2>3, TransformTurnCarries
    <2>5. /\ s.i \in 0..Len(a) /\ s.j \in 0..Len(b)
          /\ t.i \in 0..Len(a) /\ t.j \in 0..Len(b)
      BY <2>3, <2>4 DEF Carried
    <2>6. t.i + t.j >= k + 1 \/ (t.i = Len(a) /\ t.j = Len(b))
      BY <1>1, <2>3, <2>4, <2>5 DEF Onward
    <2> QED
      BY <2>1, <2>4, <2>6 DEF t
  <1> HIDE DEF P
  <1>6. 0..N \subseteq P
    BY <1>1, <1>4, <1>5, InductionUpTo
  <1>7. /\ Carried(L, a, b, f[N])
        /\ f[N].i + f[N].j >= N \/ (f[N].i = Len(a) /\ f[N].j = Len(b))
    BY <1>1, <1>6 DEF P
  <1>8. f[N].i \in 0..Len(a) /\ f[N].j \in 0..Len(b)
    BY <1>7 DEF Carried
  <1>9. f[N].i = Len(a) /\ f[N].j = Len(b)
    BY <1>1, <1>7, <1>8
  <1>10. First(a, Len(a)) = a /\ First(b, Len(b)) = b
    BY SubSeqFull DEF First
  <1>11. Square(L, a, b, f[N].outA, f[N].outB)
    BY <1>7, <1>9, <1>10 DEF Carried
  <1> QED
    BY <1>2, <1>11

\* transformOperations: whatever two operations do to one text, each carried
\* over the other fits what the other makes, types what it typed, and in either
\* order the same text is made.
THEOREM TransformConverges ==
    ASSUME NEW L, Letters(L), NEW a \in Seq(Units(L)), NEW b \in Seq(Units(L)),
           baseLength(a) = baseLength(b)
    PROVE  LET pair == transformOperations(a, b)
           IN  /\ pair[1] \in Seq(Units(L)) /\ pair[2] \in Seq(Units(L))
               /\ baseLength(pair[1]) = targetLength(b)
               /\ baseLength(pair[2]) = targetLength(a)
               /\ targetLength(pair[1]) = targetLength(pair[2])
               /\ Typed(pair[1]) = Typed(a)
               /\ Typed(pair[2]) = Typed(b)
               /\ \A text \in Seq(L) : Len(text) = baseLength(a) =>
                      applyOperation(applyOperation(text, a), pair[2])
                          = applyOperation(applyOperation(text, b), pair[1])
  <1> DEFINE pair == transformOperations(a, b)
  <1>1. Square(L, a, b, pair[1], pair[2])
    BY TransformSquare
  <1>2. baseLength(a) \in Nat
    BY LengthsType
  <1> HIDE DEF pair
  <1>3. /\ pair[1] \in Seq(Units(L)) /\ pair[2] \in Seq(Units(L))
        /\ baseLength(pair[1]) = targetLength(b)
        /\ baseLength(pair[2]) = targetLength(a)
        /\ targetLength(pair[1]) = targetLength(pair[2])
        /\ Typed(pair[1]) = Typed(a)
        /\ Typed(pair[2]) = Typed(b)
    BY <1>1 DEF Square
  <1>4. ASSUME NEW text \in Seq(L), Len(text) = baseLength(a)
        PROVE  applyOperation(applyOperation(text, a), pair[2])
                   = applyOperation(applyOperation(text, b), pair[1])
    <2>1. baseLength(a) <= Len(text)
      BY <1>2, <1>4
    <2> QED
      BY <1>1, <2>1 DEF Square
  <1> QED
    BY <1>3, <1>4 DEF pair

----------------------------------------------------------------------------
(* Composing two operations.                                               *)

\* The walk of composeOperations, one state for each number of turns.
ComposeWalk(f, a, b, n) ==
    f = [k \in 0..n |-> IF k = 0 THEN [i |-> 0, j |-> 0, out |-> <<>>]
                        ELSE ComposeTurn(a, b, f[k - 1])]

\* Such a walk exists, for any number of turns.
LEMMA ComposeWalkExists ==
    ASSUME NEW a, NEW b
    PROVE  \A n \in Nat : \E f : ComposeWalk(f, a, b, n)
  <1> DEFINE P == {n \in Nat : \E f : ComposeWalk(f, a, b, n)}
             start == [i |-> 0, j |-> 0, out |-> <<>>]
             Turn(s) == ComposeTurn(a, b, s)
  <1>1. 0 \in P
    <2> DEFINE f == [k \in 0..0 |-> start]
    <2>1. ComposeWalk(f, a, b, 0)
      BY DEF ComposeWalk
    <2> QED
      BY <2>1
  <1>2. ASSUME NEW n \in Nat, n \in P
        PROVE  n + 1 \in P
    <2>1. PICK f : ComposeWalk(f, a, b, n)
      BY <1>2
    <2> DEFINE g == [k \in 0..(n + 1) |-> IF k = n + 1 THEN Turn(f[n]) ELSE f[k]]
    <2>2. \A k \in 0..n : f[k] = IF k = 0 THEN start ELSE Turn(f[k - 1])
      BY <2>1 DEF ComposeWalk
    <2> HIDE DEF start, Turn
    <2>3. \A k \in 0..n : g[k] = f[k]
      OBVIOUS
    <2>4. g[n + 1] = Turn(f[n])
      OBVIOUS
    <2>5. g = [k \in 0..(n + 1) |-> g[k]]
      OBVIOUS
    <2> HIDE DEF g
    <2>6. ASSUME NEW k \in 0..(n + 1)
          PROVE  g[k] = IF k = 0 THEN start ELSE Turn(g[k - 1])
      <3>1. CASE k = n + 1
        <4>1. g[k - 1] = f[n] /\ k # 0
          BY <2>3, <3>1
        <4> QED
          BY <2>4, <3>1, <4>1
      <3>2. CASE k \in 1..n
        <4>1. g[k - 1] = f[k - 1] /\ g[k] = f[k] /\ k # 0
          BY <2>3, <3>2
        <4> QED
          BY <2>2, <3>2, <4>1
      <3>3. CASE k = 0
        BY <2>2, <2>3, <3>3
      <3> QED
        BY <3>1, <3>2, <3>3
    <2>7. ComposeWalk(g, a, b, n + 1)
      BY <2>5, <2>6 DEF ComposeWalk, start, Turn
    <2> QED
      BY <2>7
  <1> HIDE DEF P
  <1>3. Nat \subseteq P
    BY <1>1, <1>2, Induction
  <1> QED
    BY <1>3 DEF P

\* composeOperations is where it ends.
LEMMA ComposeWalks ==
    ASSUME NEW a, NEW b, Turns(a, b) \in Nat
    PROVE  \E f : /\ ComposeWalk(f, a, b, Turns(a, b))
                  /\ composeOperations(a, b) = f[Turns(a, b)].out
  <1> DEFINE F == CHOOSE f : ComposeWalk(f, a, b, Turns(a, b))
  <1>1. composeOperations(a, b) = F[Turns(a, b)].out
    BY DEF composeOperations, ComposeWalk
  <1>2. ComposeWalk(F, a, b, Turns(a, b))
    BY ComposeWalkExists
  <1> QED
    BY <1>1, <1>2

\* What the walk has read of the two operations, and the one it has made:
\* the second has read what the first has written, and the one has the
\* effect of both.
Chain(L, pa, pb, out) ==
    /\ pa \in Seq(Units(L)) /\ pb \in Seq(Units(L)) /\ out \in Seq(Units(L))
    /\ targetLength(pa) = baseLength(pb)
    /\ baseLength(out) = baseLength(pa)
    /\ targetLength(out) = targetLength(pb)
    /\ \A text \in Seq(L) : baseLength(pa) <= Len(text) =>
           applyOperation(text, out)
               = applyOperation(applyOperation(text, pa), pb)

\* What one unit more in the builder makes of one text.
LEMMA EmitApplies ==
    ASSUME NEW L, NEW op \in Seq(Units(L)), NEW u \in Units(L), NEW text
    PROVE  LET before == applyOperation(text, op)
               after == applyOperation(text, Emit(op, u))
           IN  /\ u = Keep => after = Append(before, text[baseLength(op) + 1])
               /\ u = Cut => after = before
               /\ IsLetter(u) => after = Append(before, u)
  <1>1. applyOperation(text, Emit(op, u)) = applyOperation(text, Append(op, u))
    <2>1. Cut \in Units(L)
      BY DEF Units
    <2> QED
      BY <2>1, EmitAppends
  <1> QED
    BY <1>1, ApplyAppend

\* One unit more that reads the letter the text has more.
LEMMA AppendMakes ==
    ASSUME NEW L, NEW text \in Seq(L), NEW x \in L,
           NEW op \in Seq(Units(L)), baseLength(op) = Len(text)
    PROVE  /\ applyOperation(Append(text, x), Append(op, Keep))
                = Append(applyOperation(text, op), x)
           /\ applyOperation(Append(text, x), Append(op, Cut))
                = applyOperation(text, op)
  <1>1. Cut \in Units(L) /\ Keep \in Units(L)
    BY DEF Units
  <1>2. \A u \in {Keep, Cut} : applyOperation(Append(text, x), Emit(op, u))
                        = applyOperation(Append(text, x), Append(op, u))
    BY <1>1, EmitAppends
  <1> QED
    BY <1>2, EmitMakes

\* A deletion of the first operation passes through.
LEMMA ChainCut ==
    ASSUME NEW L, NEW pa, NEW pb, NEW out, Chain(L, pa, pb, out)
    PROVE  Chain(L, Append(pa, Cut), pb, Emit(out, Cut))
  <1> DEFINE U == Units(L)
  <1>1. /\ pa \in Seq(U) /\ pb \in Seq(U) /\ out \in Seq(U)
        /\ Cut \in {Keep, Cut} /\ Cut \in U
    BY DEF Chain, Units
  <1>2. /\ Append(pa, Cut) \in Seq(U)
        /\ baseLength(Append(pa, Cut)) = baseLength(pa) + 1
        /\ targetLength(Append(pa, Cut)) = targetLength(pa)
    BY <1>1, ReadingUnits
  <1>3. /\ Emit(out, Cut) \in Seq(U)
        /\ baseLength(Emit(out, Cut)) = baseLength(out) + 1
        /\ targetLength(Emit(out, Cut)) = targetLength(out)
    BY <1>1, ReadingUnits
  <1>4. ASSUME NEW text \in Seq(L), baseLength(pa) + 1 <= Len(text)
        PROVE  applyOperation(text, Emit(out, Cut))
                 = applyOperation(applyOperation(text, Append(pa, Cut)), pb)
    <2>1. baseLength(pa) <= Len(text)
      <3>1. baseLength(pa) \in Nat /\ Len(text) \in Nat
        BY <1>1, LengthsType, LenProperties
      <3> QED
        BY <1>4, <3>1
    <2>2. applyOperation(text, out) = applyOperation(applyOperation(text, pa), pb)
      BY <2>1 DEF Chain
    <2>3. applyOperation(text, Append(pa, Cut)) = applyOperation(text, pa)
      BY <1>1, ApplyAppend
    <2>4. applyOperation(text, Emit(out, Cut)) = applyOperation(text, out)
      BY <1>1, EmitApplies
    <2> QED
      BY <2>2, <2>3, <2>4
  <1> QED
    BY <1>1, <1>2, <1>3, <1>4 DEF Chain

\* So does an insertion of the second.
LEMMA ChainInsert ==
    ASSUME NEW L, Letters(L), NEW pa, NEW pb, NEW out, Chain(L, pa, pb, out),
           NEW u \in L
    PROVE  Chain(L, pa, Append(pb, u), Emit(out, u))
  <1> DEFINE U == Units(L)
  <1>1. /\ pa \in Seq(U) /\ pb \in Seq(U) /\ out \in Seq(U)
        /\ u \in U /\ Cut \in U /\ IsLetter(u) /\ u # Cut
    BY DEF Chain, Units, Letters, IsLetter
  <1>2. /\ Append(pb, u) \in Seq(U)
        /\ baseLength(Append(pb, u)) = baseLength(pb)
        /\ targetLength(Append(pb, u)) = targetLength(pb) + 1
    BY <1>1, AppendProperties, LengthsAppend
  <1>3. /\ Emit(out, u) \in Seq(U)
        /\ baseLength(Emit(out, u)) = baseLength(out)
        /\ targetLength(Emit(out, u)) = targetLength(out) + 1
    BY <1>1, EmitLengths
  <1>4. ASSUME NEW text \in Seq(L), baseLength(pa) <= Len(text)
        PROVE  applyOperation(text, Emit(out, u))
                 = applyOperation(applyOperation(text, pa), Append(pb, u))
    <2> DEFINE x == applyOperation(text, pa)
    <2>1. applyOperation(text, out) = applyOperation(x, pb)
      BY <1>4 DEF Chain
    <2>2. applyOperation(text, Emit(out, u)) = Append(applyOperation(text, out), u)
      BY <1>1, EmitApplies
    <2>3. applyOperation(x, Append(pb, u)) = Append(applyOperation(x, pb), u)
      BY <1>1, ApplyAppend
    <2> QED
      BY <2>1, <2>2, <2>3
  <1> QED
    BY <1>1, <1>2, <1>3, <1>4 DEF Chain

\* The second operation meets what the first has written.
LEMMA ChainMeet ==
    ASSUME NEW L, Letters(L), NEW pa, NEW pb, NEW out, Chain(L, pa, pb, out),
           NEW u \in L \cup {Keep}, NEW v \in {Keep, Cut}, NEW new,
           v = Keep => new = Emit(out, u),
           v = Cut /\ u = Keep => new = Emit(out, Cut),
           v = Cut /\ u # Keep => new = out
    PROVE  Chain(L, Append(pa, u), Append(pb, v), new)
  <1> DEFINE U == Units(L)
  <1>1. /\ pa \in Seq(U) /\ pb \in Seq(U) /\ out \in Seq(U)
        /\ targetLength(pa) = baseLength(pb)
        /\ baseLength(out) = baseLength(pa)
        /\ targetLength(out) = targetLength(pb)
        /\ u \in U /\ v \in U /\ Keep \in U /\ Cut \in U /\ u # Cut /\ Keep # Cut
        /\ IF u = Keep THEN ~IsLetter(u) ELSE u \in L /\ IsLetter(u)
        /\ ~IsLetter(v) /\ ~IsLetter(Cut)
    BY DEF Chain, Units, Letters, IsLetter, Keep, Cut
  <1>2. /\ Append(pa, u) \in Seq(U)
        /\ baseLength(Append(pa, u))
             = IF IsLetter(u) THEN baseLength(pa) ELSE baseLength(pa) + 1
        /\ targetLength(Append(pa, u)) = targetLength(pa) + 1
    BY <1>1, AppendProperties, LengthsAppend
  <1>3. /\ Append(pb, v) \in Seq(U)
        /\ baseLength(Append(pb, v)) = baseLength(pb) + 1
        /\ targetLength(Append(pb, v))
             = IF v = Cut THEN targetLength(pb) ELSE targetLength(pb) + 1
    BY <1>1, ReadingUnits
  <1>4. /\ Emit(out, u) \in Seq(U)
        /\ baseLength(Emit(out, u))
             = IF IsLetter(u) THEN baseLength(out) ELSE baseLength(out) + 1
        /\ targetLength(Emit(out, u)) = targetLength(out) + 1
    BY <1>1, EmitLengths
  <1>5. /\ Emit(out, Cut) \in Seq(U)
        /\ baseLength(Emit(out, Cut)) = baseLength(out) + 1
        /\ targetLength(Emit(out, Cut)) = targetLength(out)
    BY <1>1, EmitLengths
  <1>6. /\ new \in Seq(U)
        /\ baseLength(new) = baseLength(Append(pa, u))
        /\ targetLength(new) = targetLength(Append(pb, v))
    BY <1>1, <1>2, <1>3, <1>4, <1>5
  <1>7. ASSUME NEW text \in Seq(L), baseLength(Append(pa, u)) <= Len(text)
        PROVE  applyOperation(text, new)
                 = applyOperation(applyOperation(text, Append(pa, u)), Append(pb, v))
    <2> DEFINE x == applyOperation(text, pa)
               e == IF u = Keep THEN text[baseLength(pa) + 1] ELSE u
    <2>1. baseLength(pa) \in Nat /\ Len(text) \in Nat
      BY <1>1, LengthsType, LenProperties
    <2>2. /\ baseLength(pa) <= Len(text)
          /\ u = Keep => baseLength(pa) + 1 \in 1..Len(text)
      BY <1>1, <1>2, <1>7, <2>1
    <2>3. e \in L
      BY <1>1, <2>2, ElementOfSeq
    <2>4. applyOperation(text, out) = applyOperation(x, pb)
      BY <2>2 DEF Chain
    <2>5. x \in Seq(L) /\ Len(x) = baseLength(pb)
      BY <1>1, <2>2, ApplyLength
    <2>6. applyOperation(text, Append(pa, u)) = Append(x, e)
      BY <1>1, ApplyAppend
    <2>7. applyOperation(text, Emit(out, u)) = Append(applyOperation(text, out), e)
      BY <1>1, EmitApplies
    <2>8. applyOperation(text, Emit(out, Cut)) = applyOperation(text, out)
      BY <1>1, EmitApplies
    <2> HIDE DEF x, e
    <2>9. /\ applyOperation(Append(x, e), Append(pb, Keep))
               = Append(applyOperation(x, pb), e)
          /\ applyOperation(Append(x, e), Append(pb, Cut)) = applyOperation(x, pb)
      BY <1>1, <2>3, <2>5, AppendMakes
    <2>10. CASE v = Keep
      BY <2>4, <2>6, <2>7, <2>9, <2>10
    <2>11. CASE v = Cut
      BY <2>4, <2>6, <2>8, <2>9, <2>11
    <2> QED
      BY <2>10, <2>11
  <1> QED
    BY <1>1, <1>2, <1>3, <1>6, <1>7 DEF Chain

\* Where the walk of composeOperations is.
Chained(L, a, b, s) ==
    /\ s \in [i : 0..Len(a), j : 0..Len(b), out : Seq(Units(L))]
    /\ Chain(L, First(a, s.i), First(b, s.j), s.out)

\* An operation that has written as much as the whole of it writes has only
\* deletions left.
LEMMA OnlyCutsLeft ==
    ASSUME NEW S, NEW op \in Seq(S), NEW i \in 0..Len(op), i < Len(op),
           targetLength(First(op, i)) = targetLength(op)
    PROVE  op[i + 1] = Cut
  <1>1. /\ First(op, i) \in Seq(S) /\ op[i + 1] \in S
        /\ First(op, i + 1) = Append(First(op, i), op[i + 1])
    BY FirstUnits
  <1>2. i + 1 \in 0..Len(op) /\ targetLength(op) \in Nat
    <2>1. Len(op) \in Nat
      BY LenProperties
    <2>2. targetLength(op) \in Nat
      BY LengthsType
    <2> QED
      BY <2>1, <2>2
  <1>3. targetLength(First(op, i + 1)) <= targetLength(op)
    BY <1>2, LengthsGrow
  <1>4. targetLength(First(op, i + 1))
            = IF op[i + 1] = Cut THEN targetLength(op) ELSE targetLength(op) + 1
    BY <1>1, LengthsAppend
  <1> QED
    BY <1>2, <1>3, <1>4

\* A turn of the walk keeps the chain.
LEMMA ComposeTurnChains ==
    ASSUME NEW L, Letters(L), NEW a \in Seq(Units(L)), NEW b \in Seq(Units(L)),
           targetLength(a) = baseLength(b), NEW s, Chained(L, a, b, s),
           NEW t, t = ComposeTurn(a, b, s)
    PROVE  Chained(L, a, b, t) /\ Onward(a, b, s, t)
  <1> DEFINE U == Units(L)
             A == 0..Len(a)
             B == 0..Len(b)
             pa == First(a, s.i)
             pb == First(b, s.j)
             u == a[s.i + 1]
             v == b[s.j + 1]
  <1>1. s \in [i : A, j : B, out : Seq(U)] /\ Chain(L, pa, pb, s.out)
    BY DEF Chained
  <1>2. /\ s.i \in 0..Len(a) /\ s.j \in 0..Len(b) /\ s.out \in Seq(U)
        /\ Len(a) \in Nat /\ Len(b) \in Nat
    BY <1>1, LenProperties
  <1>3. s.i < Len(a) => u \in U /\ First(a, s.i + 1) = Append(pa, u)
    BY <1>2, FirstUnits
  <1>4. s.j < Len(b) => v \in U /\ First(b, s.j + 1) = Append(pb, v)
    BY <1>2, FirstUnits
  <1>5. First(a, Len(a)) = a /\ First(b, Len(b)) = b
    BY SubSeqFull DEF First
  <1>6. CASE ~More(a, s.i) /\ ~More(b, s.j)
    BY <1>1, <1>2, <1>6 DEF ComposeTurn, More, Chained, Onward
  <1>7. CASE More(a, s.i) /\ u = Cut
    <2>1. t = [s EXCEPT !.i = @ + 1, !.out = Emit(@, Cut)]
      BY <1>7 DEF ComposeTurn
    <2>2. s.i < Len(a)
      BY <1>7 DEF More
    <2>3. Chain(L, Append(pa, Cut), pb, Emit(s.out, Cut))
      BY <1>1, ChainCut
    <2>4. Emit(s.out, Cut) \in Seq(U)
      BY <2>3 DEF Chain
    <2>5. s.i + 1 \in A
      BY <1>2, <2>2
    <2> HIDE DEF A, B, U, u, v
    <2>6. /\ t \in [i : A, j : B, out : Seq(U)]
          /\ t.i = s.i + 1 /\ t.j = s.j /\ t.out = Emit(s.out, Cut)
      BY <1>1, <2>1, <2>4, <2>5
    <2>7. Chain(L, First(a, t.i), First(b, t.j), t.out)
      BY <1>3, <1>7, <2>2, <2>3, <2>6
    <2> QED
      BY <1>2, <2>6, <2>7 DEF Chained, Onward, A, B, U
  <1>8. CASE ~(More(a, s.i) /\ u = Cut) /\ More(b, s.j) /\ IsLetter(v)
    <2>1. t = [s EXCEPT !.j = @ + 1, !.out = Emit(@, v)]
      BY <1>8 DEF ComposeTurn
    <2>2. s.j < Len(b) /\ v \in L
      BY <1>4, <1>8 DEF More, Units, IsLetter
    <2>3. Chain(L, pa, Append(pb, v), Emit(s.out, v))
      BY <1>1, <2>2, ChainInsert
    <2>4. Emit(s.out, v) \in Seq(U)
      BY <2>3 DEF Chain
    <2>5. s.j + 1 \in B
      BY <1>2, <2>2
    <2> HIDE DEF A, B, U, u, v
    <2>6. /\ t \in [i : A, j : B, out : Seq(U)]
          /\ t.i = s.i /\ t.j = s.j + 1 /\ t.out = Emit(s.out, v)
      BY <1>1, <2>1, <2>4, <2>5
    <2>7. Chain(L, First(a, t.i), First(b, t.j), t.out)
      BY <1>4, <2>2, <2>3, <2>6
    <2> QED
      BY <1>2, <2>6, <2>7 DEF Chained, Onward, A, B, U
  <1>9. CASE /\ More(a, s.i) \/ More(b, s.j)
             /\ ~(More(a, s.i) /\ u = Cut)
             /\ ~(More(b, s.j) /\ IsLetter(v))
    <2>1. targetLength(pa) = baseLength(pb)
      BY <1>1 DEF Chain
    <2>2. s.i < Len(a)
      <3> SUFFICES ASSUME ~(s.i < Len(a)) PROVE FALSE
        OBVIOUS
      <3>1. s.i = Len(a) /\ s.j < Len(b)
        BY <1>2, <1>9 DEF More
      <3>2. baseLength(pb) = baseLength(b)
        BY <1>5, <2>1, <3>1
      <3>3. IsLetter(v)
        BY <1>2, <3>1, <3>2, NothingLeft
      <3> QED
        BY <1>9, <3>1, <3>3 DEF More
    <2>3. s.j < Len(b)
      <3> SUFFICES ASSUME ~(s.j < Len(b)) PROVE FALSE
        OBVIOUS
      <3>1. s.j = Len(b)
        BY <1>2
      <3>2. targetLength(pa) = targetLength(a)
        BY <1>5, <2>1, <3>1
      <3>3. u = Cut
        BY <1>2, <2>2, <3>2, OnlyCutsLeft
      <3> QED
        BY <1>9, <2>2, <3>3 DEF More
    <2>4. u \in L \cup {Keep} /\ v \in {Keep, Cut}
      BY <1>3, <1>9, <2>2, <2>3 DEF More, IsLetter, Units
    <2> DEFINE new == IF v = Keep THEN Emit(s.out, u)
                      ELSE IF u = Keep THEN Emit(s.out, Cut) ELSE s.out
    <2>5. t = [i |-> s.i + 1, j |-> s.j + 1, out |-> new]
      BY <1>9, <2>2, <2>3 DEF ComposeTurn, More
    <2>6. /\ v = Keep => new = Emit(s.out, u)
          /\ v = Cut /\ u = Keep => new = Emit(s.out, Cut)
          /\ v = Cut /\ u # Keep => new = s.out
      BY DEF Keep, Cut
    <2> HIDE DEF new
    <2>7. Chain(L, Append(pa, u), Append(pb, v), new)
      BY <1>1, <2>4, <2>6, ChainMeet
    <2>8. new \in Seq(U)
      BY <2>7 DEF Chain
    <2>9. s.i + 1 \in A /\ s.j + 1 \in B
      BY <1>2, <2>2, <2>3
    <2> HIDE DEF A, B, U
    <2>10. /\ t \in [i : A, j : B, out : Seq(U)]
           /\ t.i = s.i + 1 /\ t.j = s.j + 1 /\ t.out = new
      BY <2>5, <2>8, <2>9
    <2>11. Chain(L, First(a, t.i), First(b, t.j), t.out)
      BY <1>3, <1>4, <2>2, <2>3, <2>7, <2>10
    <2> QED
      BY <1>2, <2>10, <2>11 DEF Chained, Onward, A, B, U
  <1> QED
    BY <1>6, <1>7, <1>8, <1>9

\* composeOperations: two operations, of which the second applies to what the
\* first makes, are composed to one that has the effect of both.
THEOREM ComposeIsBoth ==
    ASSUME NEW L, Letters(L), NEW a \in Seq(Units(L)), NEW b \in Seq(Units(L)),
           targetLength(a) = baseLength(b)
    PROVE  LET both == composeOperations(a, b)
           IN  /\ both \in Seq(Units(L))
               /\ baseLength(both) = baseLength(a)
               /\ targetLength(both) = targetLength(b)
               /\ \A text \in Seq(L) : Len(text) = baseLength(a) =>
                      applyOperation(text, both)
                          = applyOperation(applyOperation(text, a), b)
  <1> DEFINE N == Turns(a, b)
             both == composeOperations(a, b)
  <1>1. Len(a) \in Nat /\ Len(b) \in Nat /\ N \in Nat /\ N = Len(a) + Len(b)
    BY LenProperties DEF Turns
  <1>2. PICK f : ComposeWalk(f, a, b, N) /\ both = f[N].out
    BY <1>1, ComposeWalks
  <1> HIDE DEF N, both
  <1>3. \A k \in 0..N : f[k] = IF k = 0 THEN [i |-> 0, j |-> 0, out |-> <<>>]
                               ELSE ComposeTurn(a, b, f[k - 1])
    BY <1>2 DEF ComposeWalk
  <1> DEFINE P == {k \in 0..N : /\ Chained(L, a, b, f[k])
                                /\ \/ f[k].i + f[k].j >= k
                                   \/ f[k].i = Len(a) /\ f[k].j = Len(b)}
  <1>4. 0 \in P
    <2> DEFINE s == [i |-> 0, j |-> 0, out |-> <<>>]
    <2>1. f[0] = s
      BY <1>1, <1>3
    <2>2. /\ <<>> \in Seq(Units(L)) /\ <<>> \in Seq(L)
          /\ First(a, 0) = <<>> /\ First(b, 0) = <<>>
      BY EmptySeq, SubSeqEmpty DEF First
    <2>3. Chain(L, <<>>, <<>>, <<>>)
      BY <2>2, LengthsEmpty, ApplyEmpty DEF Chain
    <2>4. s \in [i : 0..Len(a), j : 0..Len(b), out : Seq(Units(L))]
      BY <1>1, <2>2
    <2>5. Chained(L, a, b, s)
      BY <2>2, <2>3, <2>4 DEF Chained
    <2> QED
      BY <1>1, <2>1, <2>5
  <1>5. ASSUME NEW k \in 0..N, k \in P, k < N
        PROVE  k + 1 \in P
    <2> DEFINE s == f[k]
               t == f[k + 1]
    <2>1. k + 1 \in 0..N /\ (k + 1) - 1 = k /\ k + 1 # 0
      BY <1>1, <1>5
    <2>2. t = ComposeTurn(a, b, s)
      BY <1>3, <2>1
    <2>3. /\ Chained(L, a, b, s)
          /\ s.i + s.j >= k \/ (s.i = Len(a) /\ s.j = Len(b))
      BY <1>5
    <2> HIDE DEF s, t
    <2>4. Chained(L, a, b, t) /\ Onward(a, b, s, t)
      BY <2>2, <2>3, ComposeTurnChains
    <2>5. /\ s.i \in 0..Len(a) /\ s.j \in 0..Len(b)
          /\ t.i \in 0..Len(a) /\ t.j \in 0..Len(b)
      BY <2>3, <2>4 DEF Chained
    <2>6. t.i + t.j >= k + 1 \/ (t.i = Len(a) /\ t.j = Len(b))
      BY <1>1, <2>3, <2>4, <2>5 DEF Onward
    <2> QED
      BY <2>1, <2>4, <2>6 DEF t
  <1> HIDE DEF P
  <1>6. 0..N \subseteq P
    BY <1>1, <1>4, <1>5, InductionUpTo
  <1>7. /\ Chained(L, a, b, f[N])
        /\ f[N].i + f[N].j >= N \/ (f[N].i = Len(a) /\ f[N].j = Len(b))
    BY <1>1, <1>6 DEF P
  <1>8. f[N].i \in 0..Len(a) /\ f[N].j \in 0..Len(b)
    BY <1>7 DEF Chained
  <1>9. f[N].i = Len(a) /\ f[N].j = Len(b)
    BY <1>1, <1>7, <1>8
  <1>10. First(a, Len(a)) = a /\ First(b, Len(b)) = b
    BY SubSeqFull DEF First
  <1>11. Chain(L, a, b, both)
    BY <1>2, <1>7, <1>9, <1>10 DEF Chained
  <1>12. baseLength(a) \in Nat
    BY LengthsType
  <1>13. ASSUME NEW text \in Seq(L), Len(text) = baseLength(a)
         PROVE  applyOperation(text, both)
                    = applyOperation(applyOperation(text, a), b)
    <2>1. baseLength(a) <= Len(text)
      BY <1>12, <1>13
    <2> QED
      BY <1>11, <2>1 DEF Chain
  <1>14. /\ both \in Seq(Units(L))
         /\ baseLength(both) = baseLength(a)
         /\ targetLength(both) = targetLength(b)
    BY <1>11 DEF Chain
  <1> QED
    BY <1>13, <1>14 DEF both

----------------------------------------------------------------------------
(* Carets.                                                                 *)

\* transformPosition: a caret is carried to a position; one inside the text an
\* operation reads is carried inside the text it makes.
THEOREM PositionInside ==
    ASSUME NEW S, NEW op \in Seq(S), NEW position \in Nat
    PROVE  LET to == transformPosition(position, op)
           IN  /\ to \in Nat
               /\ position <= baseLength(op) => to <= targetLength(op)
  <1> DEFINE n == Len(op)
             R == {i \in 0..n : baseLength(First(op, i)) <= position}
             m == Max(R)
             before == First(op, m)
             to == transformPosition(position, op)
  <1>1. n \in Nat
    BY LenProperties
  <1>2. First(op, 0) = <<>> /\ First(op, n) = op
    BY SubSeqEmpty, SubSeqFull DEF First
  <1>3. 0 \in R
    BY <1>1, <1>2, LengthsEmpty
  <1>4. m \in R /\ \A i \in R : i <= m
    <2>1. R \subseteq 0..n /\ R # {}
      BY <1>3
    <2> HIDE DEF R
    <2> QED
      BY <1>1, <2>1, GreatestOf
  <1>5. to = (position - baseLength(before)) + targetLength(before)
    BY DEF transformPosition
  <1> HIDE DEF m, to
  <1>6. m \in 0..n /\ baseLength(before) <= position
    BY <1>4
  <1>7. /\ before \in Seq(S)
        /\ m < n => /\ op[m + 1] \in S
                    /\ First(op, m + 1) = Append(before, op[m + 1])
    BY <1>6, FirstUnits
  <1>8. baseLength(before) \in Nat /\ targetLength(before) \in Nat
    BY <1>7, LengthsType
  <1>9. /\ baseLength(op) \in Nat /\ targetLength(op) \in Nat
        /\ targetLength(before) <= targetLength(op)
    BY <1>6, LengthsType, LengthsGrow
  <1>10. ASSUME position <= baseLength(op)
         PROVE  to <= targetLength(op)
    <2>1. baseLength(before) = position
      <3>1. CASE m = n
        BY <1>2, <1>6, <1>8, <1>9, <1>10, <3>1
      <3>2. CASE m < n
        <4>1. m + 1 \in 0..n /\ ~(m + 1 <= m)
          BY <1>1, <1>6, <3>2
        <4>2. m + 1 \notin R
          BY <1>4, <4>1
        <4>3. ~(baseLength(First(op, m + 1)) <= position)
          BY <4>1, <4>2
        <4>4. baseLength(First(op, m + 1))
                = IF IsLetter(op[m + 1]) THEN baseLength(before)
                  ELSE baseLength(before) + 1
          BY <1>7, <3>2, LengthsAppend
        <4> QED
          BY <1>6, <1>8, <4>3, <4>4
      <3> QED
        BY <1>1, <1>6, <3>1, <3>2
    <2> QED
      BY <1>5, <1>8, <1>9, <2>1
  <1>11. to \in Nat
    BY <1>5, <1>6, <1>8
  <1> QED
    BY <1>10, <1>11 DEF to
=============================================================================
