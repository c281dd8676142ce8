------------------------- MODULE OSSequenceLemmas -------------------------
(* Facts about the operators on sequences from which the thread list, the     *)
(* wait queues and the queue of alarms are modelled, about functions defined  *)
(* by recursion, and about how many elements of a sequence are of a kind.     *)

EXTENDS Integers, SequencesExt, SequenceTheorems, FiniteSetTheorems, WellFoundedInduction, TLAPS

\* A nonempty set of numbers has a least element, and Min is one.
LEMMA MinIsLeast ==
  ASSUME NEW S \in SUBSET Nat, S # {}
  PROVE  Min(S) \in S /\ \A m \in S : Min(S) <= m
<1> DEFINE Less == {p \in Nat \X Nat : p[1] < p[2]}
<1>1. IsWellFoundedOn(Less, Nat)
  BY NatLessThanWellFounded DEF OpToRel
<1>2. \E n \in S : \A m \in S : <<m, n>> \notin Less
  <2> HIDE DEF Less
  <2> QED BY <1>1, WFMin
<1>3. \E n \in S : \A m \in S : n <= m
  <2>1. PICK n \in S : \A m \in S : <<m, n>> \notin Less
    BY <1>2
  <2>2. ASSUME NEW m \in S PROVE n <= m
    <3>1. n \in Nat /\ m \in Nat
      OBVIOUS
    <3>2. ~(m < n)
      BY <2>1, <3>1
    <3> QED BY <3>1, <3>2
  <2> QED BY <2>2
<1> QED BY <1>3 DEF Min

\* A function defined by recursion on numbers exists.
LEMMA RecursionExists ==
  ASSUME NEW Q, NEW q \in Q, NEW n \in Nat, NEW step \in [1..n -> [Q -> Q]]
  PROVE  \E f \in [0..n -> Q] : f[0] = q /\ \A m \in 1..n : f[m] = step[m][f[m - 1]]
<1> DEFINE IsUpTo(f, k) ==
      f \in [0..k -> Q] /\ f[0] = q /\ \A m \in 1..k : f[m] = step[m][f[m - 1]]
<1> DEFINE missing == {k \in 0..n : ~\E f : IsUpTo(f, k)}
<1>1. ASSUME missing # {} PROVE FALSE
  <2>1. PICK k \in missing : \A m \in missing : k <= m
    <3>1. missing \in SUBSET Nat
      OBVIOUS
    <3> HIDE DEF missing
    <3> QED BY <1>1, <3>1, MinIsLeast
  <2>2. k \in 0..n /\ ~\E f : IsUpTo(f, k)
    OBVIOUS
  <2>3. CASE k = 0
    <3>1. IsUpTo([m \in 0..0 |-> q], 0)
      OBVIOUS
    <3> HIDE DEF IsUpTo
    <3> QED BY <2>2, <2>3, <3>1
  <2>4. CASE k # 0
    <3>0. k - 1 \in 0..n /\ ~(k <= k - 1)
      BY <2>2, <2>4
    <3>1. k - 1 \in 0..n /\ k - 1 \notin missing
      <4> HIDE DEF missing
      <4> QED BY <2>1, <3>0
    <3>2. PICK f : IsUpTo(f, k - 1)
      <4> HIDE DEF IsUpTo
      <4> QED BY <3>1
    <3> DEFINE g == [m \in 0..k |-> IF m = k THEN step[k][f[k - 1]] ELSE f[m]]
    <3>3. f[k - 1] \in Q /\ k \in 1..n
      BY <2>2, <2>4, <3>2
    <3>4. step[k][f[k - 1]] \in Q
      BY <3>3
    <3>5. g \in [0..k -> Q]
      <4>1. ASSUME NEW m \in 0..k PROVE g[m] \in Q
        <5>1. CASE m = k
          BY <3>4, <5>1
        <5>2. CASE m # k
          <6>1. m \in 0..k - 1
            BY <2>2, <5>2
          <6> QED BY <3>2, <5>2, <6>1
        <5> QED BY <5>1, <5>2
      <4> QED BY <4>1
    <3>6. g[0] = q
      BY <2>2, <2>4, <3>2
    <3>7. ASSUME NEW m \in 1..k PROVE g[m] = step[m][g[m - 1]]
      <4>1. m \in 0..k /\ m - 1 \in 0..k /\ m - 1 # k
        BY <2>2
      <4>2. CASE m = k
        BY <4>1, <4>2
      <4>3. CASE m # k
        <5>1. m \in 1..k - 1
          BY <2>2, <4>3
        <5>2. f[m] = step[m][f[m - 1]]
          BY <3>2, <5>1
        <5> QED BY <4>1, <4>3, <5>2
      <4> QED BY <4>2, <4>3
    <3>8. IsUpTo(g, k)
      <4> HIDE DEF g
      <4> QED BY <3>5, <3>6, <3>7
    <3> HIDE DEF IsUpTo
    <3> QED BY <2>2, <3>8
  <2> QED BY <2>3, <2>4
<1>2. \E f : IsUpTo(f, n)
  <2> HIDE DEF IsUpTo
  <2> QED BY <1>1
<1> QED BY <1>2

\* A nonempty set of numbers up to n has a greatest element, and Max is one.
LEMMA MaxIsGreatest ==
  ASSUME NEW n \in Nat, NEW S \in SUBSET (1..n), S # {}
  PROVE  Max(S) \in S /\ \A m \in S : m <= Max(S)
<1> DEFINE below == {k \in 0..n : n - k \in S}
<1>1. below \in SUBSET Nat
  OBVIOUS
<1>2. below # {}
  <2>1. PICK m \in S : TRUE
    OBVIOUS
  <2>2. n - m \in 0..n /\ n - (n - m) = m
    OBVIOUS
  <2> QED BY <2>2
<1>3. Min(below) \in below /\ \A k \in below : Min(below) <= k
  BY <1>1, <1>2, MinIsLeast
<1>4. ASSUME NEW m \in S PROVE n - Min(below) >= m
  <2>1. n - m \in below
    <3>1. n - m \in 0..n /\ n - (n - m) = m
      OBVIOUS
    <3> QED BY <3>1
  <2>2. Min(below) <= n - m /\ Min(below) \in 0..n
    BY <1>3, <2>1
  <2>3. m \in 1..n
    OBVIOUS
  <2> HIDE DEF below
  <2> QED BY <2>2, <2>3
<1>5. \E x \in S : \A y \in S : x >= y
  BY <1>3, <1>4
<1> QED BY <1>5 DEF Max

\* Where the element goes, and what moves up.
LEMMA InsertAtFacts ==
  ASSUME NEW T, NEW s \in Seq(T), NEW i \in 1..Len(s) + 1, NEW e \in T
  PROVE  /\ InsertAt(s, i, e) \in Seq(T)
         /\ Len(InsertAt(s, i, e)) = Len(s) + 1
         /\ \A j \in 1..Len(s) + 1 :
              InsertAt(s, i, e)[j] = IF j < i THEN s[j] ELSE IF j = i THEN e ELSE s[j - 1]
<1> DEFINE front == SubSeq(s, 1, i - 1)
           back == SubSeq(s, i, Len(s))
           left == front \o <<e>>
<1>1. front \in Seq(T) /\ Len(front) = i - 1 /\ \A j \in 1..i - 1 : front[j] = s[j]
  BY SubSeqProperties
<1>2. /\ back \in Seq(T)
      /\ Len(back) = Len(s) - i + 1
      /\ \A j \in 1..Len(s) - i + 1 : back[j] = s[i + j - 1]
  BY SubSeqProperties
<1> HIDE DEF front, back
<1>3. left \in Seq(T) /\ Len(left) = i /\ \A j \in 1..i : left[j] = IF j < i THEN front[j] ELSE e
  BY <1>1
<1>4. InsertAt(s, i, e) = left \o back
  BY DEF InsertAt, front, back
<1> HIDE DEF left
<1>5. /\ left \o back \in Seq(T)
      /\ Len(left \o back) = i + (Len(s) - i + 1)
      /\ \A j \in 1..Len(s) + 1 : (left \o back)[j] = IF j <= i THEN left[j] ELSE back[j - i]
  BY <1>2, <1>3, ConcatProperties
<1> QED BY <1>1, <1>2, <1>3, <1>4, <1>5

\* There is one more.
LEMMA InsertAtLength ==
  ASSUME NEW T, NEW s \in Seq(T), NEW i \in 1..Len(s) + 1, NEW e \in T
  PROVE  Len(InsertAt(s, i, e)) = Len(s) + 1
BY InsertAtFacts

\* What moves down.
LEMMA RemoveAtFacts ==
  ASSUME NEW T, NEW s \in Seq(T), NEW i \in 1..Len(s)
  PROVE  /\ RemoveAt(s, i) \in Seq(T)
         /\ Len(RemoveAt(s, i)) = Len(s) - 1
         /\ \A j \in 1..Len(s) - 1 : RemoveAt(s, i)[j] = IF j < i THEN s[j] ELSE s[j + 1]
<1> DEFINE front == SubSeq(s, 1, i - 1)
           back == SubSeq(s, i + 1, Len(s))
<1>1. front \in Seq(T) /\ Len(front) = i - 1 /\ \A j \in 1..i - 1 : front[j] = s[j]
  BY SubSeqProperties
<1>2. /\ back \in Seq(T)
      /\ Len(back) = Len(s) - i
      /\ \A j \in 1..Len(s) - i : back[j] = s[i + j]
  BY SubSeqProperties
<1>3. RemoveAt(s, i) = front \o back
  BY DEF RemoveAt
<1> HIDE DEF front, back
<1>4. /\ front \o back \in Seq(T)
      /\ Len(front \o back) = Len(front) + Len(back)
      /\ \A j \in 1..Len(front) + Len(back) :
           (front \o back)[j] = IF j <= Len(front) THEN front[j] ELSE back[j - Len(front)]
  BY <1>1, <1>2, ConcatProperties
<1>5. Len(front) + Len(back) = Len(s) - 1
  BY <1>1, <1>2
<1>6. ASSUME NEW j \in 1..Len(s) - 1
      PROVE  (front \o back)[j] = IF j < i THEN s[j] ELSE s[j + 1]
  <2>1. CASE j < i
    <3>1. j <= Len(front) /\ j \in 1..i - 1
      BY <1>1, <2>1
    <3> QED BY <1>1, <1>4, <1>5, <2>1, <3>1
  <2>2. CASE ~(j < i)
    <3>1. ~(j <= Len(front)) /\ j - Len(front) \in 1..Len(s) - i
      BY <1>1, <2>2
    <3>2. i + (j - Len(front)) = j + 1
      BY <1>1
    <3> QED BY <1>2, <1>4, <1>5, <2>2, <3>1, <3>2
  <2> QED BY <2>1, <2>2
<1>7. (front \o back) \in Seq(T) /\ Len(front \o back) = Len(s) - 1
  BY <1>4, <1>5
<1> QED BY <1>3, <1>6, <1>7, Zenon

\* The element removed is the first one; nothing happens if there is none.
LEMMA RemoveFirstFacts ==
  ASSUME NEW T, NEW s \in Seq(T), NEW e
  PROVE  \/ /\ e \notin ToSet(s)
            /\ RemoveFirst(s, e) = s
         \/ \E i \in 1..Len(s) : s[i] = e /\ RemoveFirst(s, e) = RemoveAt(s, i)
<1> DEFINE found == {i \in 1..Len(s) : s[i] = e}
<1>1. CASE found = {}
  <2>1. \A i \in 1..Len(s) : s[i] # e
    BY <1>1
  <2>2. RemoveFirst(s, e) = s
    BY <2>1 DEF RemoveFirst
  <2> QED BY <2>1, <2>2 DEF ToSet
<1>2. CASE found # {}
  <2>1. found \in SUBSET Nat
    OBVIOUS
  <2>2. Min(found) \in found
    BY <1>2, <2>1, MinIsLeast
  <2>3. RemoveFirst(s, e) = RemoveAt(s, Min(found))
    BY <1>2 DEF RemoveFirst, SelectInSeq
  <2> QED BY <2>2, <2>3
<1> QED BY <1>1, <1>2

\* The members of a sequence after an insertion ...
LEMMA InsertAtMembers ==
  ASSUME NEW T, NEW s \in Seq(T), NEW i \in 1..Len(s) + 1, NEW e \in T
  PROVE  ToSet(InsertAt(s, i, e)) = ToSet(s) \cup {e}
<1> DEFINE r == InsertAt(s, i, e)
<1>1. /\ r \in Seq(T)
      /\ Len(r) = Len(s) + 1
      /\ \A j \in 1..Len(s) + 1 : r[j] = IF j < i THEN s[j] ELSE IF j = i THEN e ELSE s[j - 1]
  BY InsertAtFacts
<1> HIDE DEF r
<1>2. ASSUME NEW x \in ToSet(r) PROVE x \in ToSet(s) \cup {e}
  <2>1. PICK j \in 1..Len(s) + 1 : x = r[j]
    BY <1>1 DEF ToSet
  <2> QED BY <1>1, <2>1 DEF ToSet
<1>3. ASSUME NEW x \in ToSet(s) PROVE x \in ToSet(r)
  <2>1. PICK j \in 1..Len(s) : x = s[j]
    BY DEF ToSet
  <2>2. CASE j < i
    <3>1. j \in DOMAIN r /\ r[j] = x
      BY <1>1, <2>1, <2>2
    <3> QED BY <3>1 DEF ToSet
  <2>3. CASE j >= i
    <3>1. j + 1 \in DOMAIN r /\ r[j + 1] = x
      BY <1>1, <2>1, <2>3
    <3> QED BY <3>1 DEF ToSet
  <2> QED BY <2>2, <2>3
<1>4. e \in ToSet(r)
  BY <1>1 DEF ToSet
<1> QED BY <1>2, <1>3, <1>4 DEF r

\* ... and after a removal: nothing new, and all that is not equal to it.
LEMMA RemoveFirstMembers ==
  ASSUME NEW T, NEW s \in Seq(T), NEW e
  PROVE  /\ RemoveFirst(s, e) \in Seq(T)
         /\ ToSet(RemoveFirst(s, e)) \subseteq ToSet(s)
         /\ ToSet(s) \ {e} \subseteq ToSet(RemoveFirst(s, e))
<1>1. CASE RemoveFirst(s, e) = s
  BY <1>1
<1>2. ASSUME NEW i \in 1..Len(s), s[i] = e, RemoveFirst(s, e) = RemoveAt(s, i)
      PROVE  /\ RemoveAt(s, i) \in Seq(T)
             /\ ToSet(RemoveAt(s, i)) \subseteq ToSet(s)
             /\ ToSet(s) \ {e} \subseteq ToSet(RemoveAt(s, i))
  <2> DEFINE r == RemoveAt(s, i)
  <2>1. /\ r \in Seq(T)
        /\ Len(r) = Len(s) - 1
        /\ \A j \in 1..Len(s) - 1 : r[j] = IF j < i THEN s[j] ELSE s[j + 1]
    BY RemoveAtFacts
  <2> HIDE DEF r
  <2>2. ASSUME NEW x \in ToSet(r) PROVE x \in ToSet(s)
    <3>1. PICK j \in 1..Len(s) - 1 : x = r[j]
      BY <2>1 DEF ToSet
    <3>2. x = IF j < i THEN s[j] ELSE s[j + 1]
      BY <2>1, <3>1
    <3>3. j \in 1..Len(s) /\ j + 1 \in 1..Len(s)
      OBVIOUS
    <3> QED BY <3>2, <3>3 DEF ToSet
  <2>3. ASSUME NEW x \in ToSet(s), x # e PROVE x \in ToSet(r)
    <3>1. PICK j \in 1..Len(s) : x = s[j]
      BY DEF ToSet
    <3>2. \E k \in 1..Len(s) - 1 : x = r[k]
      <4>1. CASE j < i
        BY <2>1, <3>1, <4>1
      <4>2. CASE j > i
        <5>1. j - 1 \in 1..Len(s) - 1 /\ x = r[j - 1]
          BY <2>1, <3>1, <4>2
        <5> QED BY <5>1
      <4> QED BY <1>2, <2>3, <3>1, <4>1, <4>2
    <3> QED BY <2>1, <3>2 DEF ToSet
  <2> QED BY <2>1, <2>2, <2>3 DEF r
<1> QED BY <1>1, <1>2, RemoveFirstFacts

\* A sequence that holds each of its members once ...
EachOnce(s) == \A i, j \in 1..Len(s) : s[i] = s[j] => i = j

\* ... is one after something new is put at its end,
LEMMA AppendOnce ==
  ASSUME NEW T, NEW s \in Seq(T), NEW e \in T
  PROVE  /\ Append(s, e) \in Seq(T)
         /\ ToSet(Append(s, e)) = ToSet(s) \cup {e}
         /\ EachOnce(s) /\ e \notin ToSet(s) => EachOnce(Append(s, e))
<1> DEFINE r == Append(s, e)
<1>1. /\ r \in Seq(T) /\ Len(r) = Len(s) + 1
      /\ \A j \in 1..Len(s) + 1 : r[j] = IF j <= Len(s) THEN s[j] ELSE e
  OBVIOUS
<1> HIDE DEF r
<1>2. ASSUME NEW x \in ToSet(r) PROVE x \in ToSet(s) \cup {e}
  <2>1. PICK j \in 1..Len(s) + 1 : x = r[j]
    BY <1>1 DEF ToSet
  <2> QED BY <1>1, <2>1 DEF ToSet
<1>3. ASSUME NEW x \in ToSet(s) PROVE x \in ToSet(r)
  <2>1. PICK j \in 1..Len(s) : x = s[j]
    BY DEF ToSet
  <2>2. j \in DOMAIN r /\ r[j] = x
    BY <1>1, <2>1
  <2> QED BY <2>2 DEF ToSet
<1>4. e \in ToSet(r)
  <2>1. Len(s) + 1 \in DOMAIN r /\ r[Len(s) + 1] = e
    BY <1>1
  <2> QED BY <2>1 DEF ToSet
<1>5. ASSUME EachOnce(s), e \notin ToSet(s) PROVE EachOnce(r)
  <2>1. \A j \in 1..Len(s) : s[j] # e
    BY <1>5 DEF ToSet
  <2> QED BY <1>1, <1>5, <2>1 DEF EachOnce
<1> QED BY <1>1, <1>2, <1>3, <1>4, <1>5 DEF r

\* after something new is inserted,
LEMMA InsertAtOnce ==
  ASSUME NEW T, NEW s \in Seq(T), NEW i \in 1..Len(s) + 1, NEW e \in T,
         EachOnce(s), e \notin ToSet(s)
  PROVE  EachOnce(InsertAt(s, i, e))
<1> DEFINE r == InsertAt(s, i, e)
<1>1. /\ r \in Seq(T)
      /\ Len(r) = Len(s) + 1
      /\ \A j \in 1..Len(s) + 1 : r[j] = IF j < i THEN s[j] ELSE IF j = i THEN e ELSE s[j - 1]
  BY InsertAtFacts
<1> HIDE DEF r
<1>2. \A j \in 1..Len(s) : s[j] # e
  BY DEF ToSet
<1>3. ASSUME NEW j \in 1..Len(r), NEW k \in 1..Len(r), r[j] = r[k] PROVE j = k
  <2>1. j \in 1..Len(s) + 1 /\ k \in 1..Len(s) + 1
    BY <1>1, <1>3
  <2> DEFINE at(n) == IF n < i THEN n ELSE n - 1
  <2>2. \A n \in 1..Len(s) + 1 : n # i => at(n) \in 1..Len(s) /\ r[n] = s[at(n)]
    <3> SUFFICES ASSUME NEW n \in 1..Len(s) + 1, n # i
                 PROVE  at(n) \in 1..Len(s) /\ r[n] = s[at(n)]
      OBVIOUS
    <3>1. CASE n < i
      BY <1>1, <3>1
    <3>2. CASE n > i
      BY <1>1, <3>2
    <3> QED BY <3>1, <3>2
  <2>3. CASE j = i \/ k = i
    BY <1>1, <1>2, <1>3, <2>1, <2>2, <2>3
  <2>4. CASE j # i /\ k # i
    <3>1. at(j) = at(k)
      BY <1>3, <2>1, <2>2, <2>4 DEF EachOnce
    <3> QED BY <2>1, <2>4, <3>1
  <2> QED BY <2>3, <2>4
<1> QED BY <1>3 DEF r, EachOnce

\* and after a removal, which leaves all other members.
LEMMA RemoveFirstOnce ==
  ASSUME NEW T, NEW s \in Seq(T), NEW e, EachOnce(s)
  PROVE  /\ EachOnce(RemoveFirst(s, e))
         /\ ToSet(RemoveFirst(s, e)) = ToSet(s) \ {e}
<1>1. CASE e \notin ToSet(s) /\ RemoveFirst(s, e) = s
  BY <1>1
<1>2. ASSUME NEW i \in 1..Len(s), s[i] = e, RemoveFirst(s, e) = RemoveAt(s, i)
      PROVE  EachOnce(RemoveAt(s, i)) /\ e \notin ToSet(RemoveAt(s, i))
  <2> DEFINE r == RemoveAt(s, i)
  <2>1. /\ r \in Seq(T)
        /\ Len(r) = Len(s) - 1
        /\ \A j \in 1..Len(s) - 1 : r[j] = IF j < i THEN s[j] ELSE s[j + 1]
    BY RemoveAtFacts
  <2> HIDE DEF r
  <2>2. EachOnce(r)
    BY <2>1 DEF EachOnce
  <2>3. \A j \in 1..Len(r) : r[j] # e
    BY <1>2, <2>1 DEF EachOnce
  <2>4. e \notin ToSet(r)
    BY <2>1, <2>3 DEF ToSet
  <2> QED BY <2>2, <2>4 DEF r
<1>3. /\ ToSet(RemoveFirst(s, e)) \subseteq ToSet(s)
      /\ ToSet(s) \ {e} \subseteq ToSet(RemoveFirst(s, e))
  BY RemoveFirstMembers
<1> QED BY <1>1, <1>2, <1>3, RemoveFirstFacts

-----------------------------------------------------------------------------
(* Sequences in the order of a priority.                                      *)

\* A sequence is in the order of the priorities of its elements.
InOrder(s, prio) == \A i, j \in 1..Len(s) : i < j => prio[s[i]] <= prio[s[j]]

\* An element put between those that are not less urgent and those that are not
\* more urgent is in its place.
LEMMA InsertInOrder ==
  ASSUME NEW T, NEW prio \in [T -> Int], NEW s \in Seq(T), NEW i \in 1..Len(s) + 1, NEW e \in T,
         InOrder(s, prio),
         \A j \in 1..Len(s) : /\ j < i => prio[s[j]] <= prio[e]
                              /\ j >= i => prio[e] <= prio[s[j]]
  PROVE  InOrder(InsertAt(s, i, e), prio)
<1> DEFINE r == InsertAt(s, i, e)
<1>1. /\ Len(r) = Len(s) + 1
      /\ \A j \in 1..Len(s) + 1 : r[j] = IF j < i THEN s[j] ELSE IF j = i THEN e ELSE s[j - 1]
  BY InsertAtFacts
<1> HIDE DEF r
<1>2. ASSUME NEW j \in 1..Len(r), NEW k \in 1..Len(r), j < k
      PROVE  prio[r[j]] <= prio[r[k]]
  <2>1. j \in 1..Len(s) + 1 /\ k \in 1..Len(s) + 1
    BY <1>1
  <2>2. CASE k < i
    <3>1. r[j] = s[j] /\ r[k] = s[k] /\ j \in 1..Len(s) /\ k \in 1..Len(s)
      BY <1>1, <1>2, <2>1, <2>2
    <3> QED BY <1>2, <3>1 DEF InOrder
  <2>3. CASE k = i
    BY <1>1, <1>2, <2>1, <2>3
  <2>4. CASE k > i /\ j < i
    <3>1. r[j] = s[j] /\ r[k] = s[k - 1] /\ j \in 1..Len(s) /\ k - 1 \in 1..Len(s) /\ k - 1 >= i
      BY <1>1, <2>1, <2>4
    <3>2. prio[s[j]] <= prio[e] /\ prio[e] <= prio[s[k - 1]]
      BY <2>4, <3>1
    <3>3. prio[s[j]] \in Int /\ prio[s[k - 1]] \in Int /\ prio[e] \in Int
      BY <3>1
    <3> QED BY <3>1, <3>2, <3>3
  <2>5. CASE k > i /\ j = i
    <3>1. r[j] = e /\ r[k] = s[k - 1] /\ k - 1 \in 1..Len(s) /\ k - 1 >= i
      BY <1>1, <2>1, <2>5
    <3> QED BY <3>1
  <2>6. CASE k > i /\ j > i
    <3>1. /\ r[j] = s[j - 1] /\ r[k] = s[k - 1] /\ j - 1 < k - 1
          /\ j - 1 \in 1..Len(s) /\ k - 1 \in 1..Len(s)
      BY <1>1, <1>2, <2>1, <2>6
    <3> QED BY <3>1 DEF InOrder
  <2> QED BY <2>1, <2>2, <2>3, <2>4, <2>5, <2>6
<1> QED BY <1>2 DEF r, InOrder

\* Removing an element disturbs no order.
LEMMA RemoveInOrder ==
  ASSUME NEW T, NEW prio \in [T -> Nat], NEW s \in Seq(T), NEW e, InOrder(s, prio)
  PROVE  InOrder(RemoveFirst(s, e), prio)
<1>1. CASE RemoveFirst(s, e) = s
  BY <1>1
<1>2. ASSUME NEW i \in 1..Len(s), RemoveFirst(s, e) = RemoveAt(s, i)
      PROVE  InOrder(RemoveAt(s, i), prio)
  <2> DEFINE r == RemoveAt(s, i)
  <2>1. /\ r \in Seq(T)
        /\ Len(r) = Len(s) - 1
        /\ \A j \in 1..Len(s) - 1 : r[j] = IF j < i THEN s[j] ELSE s[j + 1]
    BY RemoveAtFacts
  <2> HIDE DEF r
  <2>2. ASSUME NEW j \in 1..Len(r), NEW k \in 1..Len(r), j < k
        PROVE  prio[r[j]] <= prio[r[k]]
    <3> DEFINE at(n) == IF n < i THEN n ELSE n + 1
    <3>1. j \in 1..Len(s) - 1 /\ k \in 1..Len(s) - 1
      BY <2>1
    <3>2. ASSUME NEW n \in 1..Len(s) - 1 PROVE at(n) \in 1..Len(s) /\ r[n] = s[at(n)]
      <4>1. r[n] = s[at(n)]
        BY <2>1
      <4> QED BY <4>1
    <3>3. at(j) < at(k)
      BY <2>2, <3>1
    <3>4. /\ at(j) \in 1..Len(s) /\ r[j] = s[at(j)]
          /\ at(k) \in 1..Len(s) /\ r[k] = s[at(k)]
      BY <3>1, <3>2
    <3> HIDE DEF at
    <3> QED BY <3>3, <3>4 DEF InOrder
  <2> QED BY <2>2 DEF r, InOrder
<1> QED BY <1>1, <1>2, RemoveFirstFacts

\* Where an element goes: before the first that has a property, at the end when
\* none has.
LEMMA PlaceInRange ==
  ASSUME NEW n \in Nat, NEW S \in SUBSET (1..n)
  PROVE  /\ Min(S \cup {n + 1}) \in 1..n + 1
         /\ \A j \in 1..n : j < Min(S \cup {n + 1}) => j \notin S
         /\ Min(S \cup {n + 1}) \in S \/ Min(S \cup {n + 1}) = n + 1
<1>1. S \cup {n + 1} \in SUBSET Nat /\ S \cup {n + 1} # {}
  OBVIOUS
<1>2. Min(S \cup {n + 1}) \in S \cup {n + 1} /\ \A j \in S \cup {n + 1} : Min(S \cup {n + 1}) <= j
  BY <1>1, MinIsLeast
<1>3. S \cup {n + 1} \subseteq 1..n + 1
  OBVIOUS
<1>4. Min(S \cup {n + 1}) \in 1..n + 1
  BY <1>2, <1>3, Zenon
<1>5. ASSUME NEW j \in 1..n, j < Min(S \cup {n + 1}) PROVE j \notin S
  BY <1>2, <1>4, <1>5
<1> QED BY <1>2, <1>4, <1>5

\* The others stay.
LEMMA RemoveAtOnce ==
  ASSUME NEW T, NEW s \in Seq(T), EachOnce(s), NEW k \in 1..Len(s)
  PROVE  EachOnce(RemoveAt(s, k)) /\ ToSet(RemoveAt(s, k)) = ToSet(s) \ {s[k]}
<1> DEFINE t == RemoveAt(s, k)
<1>1. /\ t \in Seq(T) /\ Len(t) = Len(s) - 1 /\ Len(s) \in Nat /\ k \in 1..Len(s)
      /\ \A j \in 1..Len(s) - 1 : t[j] = IF j < k THEN s[j] ELSE s[j + 1]
  BY RemoveAtFacts
<1> HIDE DEF t
<1> DEFINE old == [j \in 1..Len(t) |-> IF j < k THEN j ELSE j + 1]
<1>2. \A j \in 1..Len(t) : old[j] \in 1..Len(s) /\ old[j] # k /\ t[j] = s[old[j]]
  BY <1>1
<1>3. \A i, j \in 1..Len(t) : old[i] = old[j] => i = j
  BY <1>1
<1>4. ASSUME NEW m \in 1..Len(s), m # k PROVE \E j \in 1..Len(t) : old[j] = m
  <2> DEFINE j == IF m < k THEN m ELSE m - 1
  <2>1. j \in 1..Len(t) /\ old[j] = m
    BY <1>1, <1>4
  <2> QED BY <2>1
<1> HIDE DEF old
<1>5. EachOnce(t)
  <2> SUFFICES ASSUME NEW i \in 1..Len(t), NEW j \in 1..Len(t), t[i] = t[j] PROVE i = j
    BY DEF EachOnce
  <2>1. old[i] = old[j]
    BY <1>2 DEF EachOnce
  <2> QED BY <1>3, <2>1
<1>6. ASSUME NEW x \in ToSet(t) PROVE x \in ToSet(s) \ {s[k]}
  <2>1. PICK j \in 1..Len(t) : x = t[j]
    BY <1>1 DEF ToSet
  <2>2. x = s[old[j]] /\ old[j] \in 1..Len(s) /\ s[old[j]] # s[k]
    BY <1>1, <1>2, <2>1 DEF EachOnce
  <2> QED BY <2>2 DEF ToSet
<1>7. ASSUME NEW x \in ToSet(s) \ {s[k]} PROVE x \in ToSet(t)
  <2>1. PICK m \in 1..Len(s) : x = s[m]
    BY DEF ToSet
  <2>2. PICK j \in 1..Len(t) : old[j] = m
    BY <1>4, <2>1
  <2>3. x = t[j]
    BY <1>2, <2>1, <2>2
  <2> QED BY <1>1, <2>2, <2>3 DEF ToSet
<1> QED BY <1>5, <1>6, <1>7 DEF t

-----------------------------------------------------------------------------
(* Linked lists.                                                              *)

\* Links that begin at a are those of sequence s; nil ends them.
Follows(link, a, s, nil) ==
  /\ a = IF s = <<>> THEN nil ELSE s[1]
  /\ \A i \in 1..Len(s) : link[s[i]] = IF i = Len(s) THEN nil ELSE s[i + 1]

\* The list q, linked both ways, has the elements of s in this order, each once.
IsListOf(q, s, T, nil) ==
  /\ s \in Seq(T) /\ EachOnce(s)
  /\ Follows(q.next, q.head, s, nil)
  /\ q.tail = IF s = <<>> THEN nil ELSE s[Len(s)]
  /\ \A i \in 1..Len(s) : q.prev[s[i]] = IF i = 1 THEN nil ELSE s[i - 1]

\* The first n numbers are n.
LEMMA CardinalityUpTo == ASSUME NEW n \in Nat PROVE Cardinality(1..n) = n
<1>1. 1 \in Int /\ n \in Int
  OBVIOUS
<1>2. Cardinality(1..n) = IF 1 > n THEN 0 ELSE n - 1 + 1
  BY <1>1, FS_Interval, Zenon
<1> QED BY <1>2

\* There are no more of them than there can be.
LEMMA NoMoreThanAll ==
  ASSUME NEW T, IsFiniteSet(T), NEW s \in Seq(T), EachOnce(s)
  PROVE  Cardinality(T) \in Nat /\ Len(s) <= Cardinality(T)
<1>1. s \in [1..Len(s) -> T]
  OBVIOUS
<1>2. s \in Injection(1..Len(s), T)
  BY <1>1 DEF Injection, EachOnce, IsInjective
<1>3. Len(s) \in Nat /\ Cardinality(1..Len(s)) = Len(s)
  BY CardinalityUpTo
<1>4. Len(s) <= Cardinality(T)
  BY <1>2, <1>3, FS_Injection
<1> QED
  BY <1>4, FS_CardinalityType

\* A walk along links from a, for N steps.
IsWalk(f, link, a, N, nil) ==
  f = [n \in 1..N |-> IF n = 1 THEN a
                      ELSE IF f[n - 1] = nil THEN nil ELSE link[f[n - 1]]]

\* It finds the elements of the sequence they are links of.
LEMMA WalkFinds ==
  ASSUME NEW T, IsFiniteSet(T), NEW nil, nil \notin T, NEW s \in Seq(T), EachOnce(s),
         NEW link, NEW a, Follows(link, a, s, nil),
         NEW node, \A f : IsWalk(f, link, a, Cardinality(T), nil)
                            => IsWalk(node, link, a, Cardinality(T), nil)
  PROVE  [n \in 1..Cardinality({i \in DOMAIN node : node[i] # nil}) |-> node[n]] = s
<1> DEFINE N == Cardinality(T)
<1> DEFINE walk == [n \in 1..N |-> IF n <= Len(s) THEN s[n] ELSE nil]
<1>2. N \in Nat /\ Len(s) \in 0..N
  BY NoMoreThanAll
<1>3. \A i \in 1..Len(s) : s[i] \in T /\ s[i] # nil
  OBVIOUS
<1> HIDE DEF N
<1>4. IsWalk(walk, link, a, N, nil)
  <2>1. ASSUME NEW n \in 1..N
        PROVE  walk[n] = IF n = 1 THEN a ELSE IF walk[n - 1] = nil THEN nil ELSE link[walk[n - 1]]
    <3>1. CASE n = 1
      BY <1>2, <1>3, <3>1 DEF Follows
    <3>2. CASE n # 1
      <4>1. n - 1 \in 1..N
        BY <1>2, <3>2
      <4> QED BY <1>2, <1>3, <3>2, <4>1 DEF Follows
    <3> QED BY <3>1, <3>2
  <2> QED BY <2>1 DEF IsWalk
<1>5. IsWalk(node, link, a, N, nil)
  <2> HIDE DEF walk
  <2> QED BY <1>4 DEF N
<1>6. ASSUME NEW n \in 1..N PROVE node[n] = walk[n]
  <2> DEFINE wrong == {m \in 1..N : node[m] # walk[m]}
  <2>1. ASSUME wrong # {} PROVE FALSE
    <3>1. wrong \in SUBSET Nat
      BY <1>2
    <3>2. PICK m \in wrong : \A k \in wrong : m <= k
      BY <2>1, <3>1, MinIsLeast
    <3>3. m \in 1..N /\ node[m] # walk[m]
      OBVIOUS
    <3>4. m # 1
      <4> HIDE DEF walk
      <4> QED BY <1>4, <1>5, <3>3 DEF IsWalk
    <3>5. m - 1 \in 1..N /\ m - 1 < m
      BY <1>2, <3>3, <3>4
    <3>6. node[m - 1] = walk[m - 1]
      BY <3>2, <3>5, <1>2
    <3>7. node[m] = IF node[m - 1] = nil THEN nil ELSE link[node[m - 1]]
      BY <1>5, <3>3, <3>4 DEF IsWalk
    <3>8. walk[m] = IF walk[m - 1] = nil THEN nil ELSE link[walk[m - 1]]
      <4> HIDE DEF walk
      <4> QED BY <1>4, <3>3, <3>4 DEF IsWalk
    <3> QED BY <3>3, <3>6, <3>7, <3>8
  <2> QED BY <2>1
<1>7. DOMAIN node = 1..N
  BY <1>5 DEF IsWalk
<1>8. {i \in DOMAIN node : node[i] # nil} = 1..Len(s)
  <2>1. ASSUME NEW i \in 1..N PROVE node[i] # nil <=> i \in 1..Len(s)
    BY <1>2, <1>3, <1>6
  <2>2. 1..Len(s) \subseteq 1..N
    BY <1>2
  <2> QED BY <1>7, <2>1, <2>2
<1>9. Cardinality(1..Len(s)) = Len(s)
  BY CardinalityUpTo
<1>10. \A n \in 1..Len(s) : node[n] = s[n]
  BY <1>2, <1>6
<1>11. [n \in 1..Len(s) |-> node[n]] = [n \in 1..Len(s) |-> s[n]]
  BY <1>10
<1>12. [n \in 1..Len(s) |-> s[n]] = s
  OBVIOUS
<1>13. Cardinality({i \in DOMAIN node : node[i] # nil}) = Len(s)
  BY <1>8, <1>9
<1> QED BY <1>11, <1>12, <1>13

\* The elements of a reversed sequence, from the last to the first;
LEMMA ReverseFacts ==
  ASSUME NEW T, NEW s \in Seq(T)
  PROVE  /\ Reverse(s) \in Seq(T) /\ Len(Reverse(s)) = Len(s)
         /\ \A i \in 1..Len(s) : Reverse(s)[i] = s[Len(s) + 1 - i]
<1>1. Reverse(s) = [i \in 1..Len(s) |-> s[Len(s) - i + 1]]
  BY DEF Reverse
<1>2. \A i \in 1..Len(s) : Len(s) - i + 1 \in 1..Len(s) /\ Len(s) - i + 1 = Len(s) + 1 - i
  OBVIOUS
<1> QED BY <1>1, <1>2

\* each is in it as often,
LEMMA ReverseOnce ==
  ASSUME NEW T, NEW s \in Seq(T), EachOnce(s)
  PROVE  EachOnce(Reverse(s)) /\ ToSet(Reverse(s)) = ToSet(s)
<1> DEFINE r == Reverse(s)
<1>1. /\ r \in Seq(T) /\ Len(r) = Len(s) /\ Len(s) \in Nat
      /\ \A i \in 1..Len(s) : r[i] = s[Len(s) + 1 - i]
  BY ReverseFacts
<1> HIDE DEF r
<1>2. EachOnce(r)
  <2> SUFFICES ASSUME NEW i \in 1..Len(s), NEW j \in 1..Len(s), r[i] = r[j] PROVE i = j
    BY <1>1 DEF EachOnce
  <2>1. Len(s) + 1 - i \in 1..Len(s) /\ Len(s) + 1 - j \in 1..Len(s)
    BY <1>1
  <2>2. Len(s) + 1 - i = Len(s) + 1 - j
    BY <1>1, <2>1 DEF EachOnce
  <2> QED BY <1>1, <2>2
<1>3. \A x : x \in ToSet(r) <=> x \in ToSet(s)
  <2>1. \A i \in 1..Len(s) : Len(s) + 1 - i \in 1..Len(s) /\ Len(s) + 1 - (Len(s) + 1 - i) = i
    BY <1>1
  <2>2. \A i \in 1..Len(s) : r[Len(s) + 1 - i] = s[i]
    BY <1>1, <2>1
  <2>3. ASSUME NEW i \in 1..Len(s) PROVE r[i] \in ToSet(s)
    <3>1. r[i] = s[Len(s) + 1 - i] /\ Len(s) + 1 - i \in DOMAIN s
      BY <1>1, <2>1
    <3> QED BY <3>1 DEF ToSet
  <2>4. ASSUME NEW i \in 1..Len(s) PROVE s[i] \in ToSet(r)
    <3>1. s[i] = r[Len(s) + 1 - i] /\ Len(s) + 1 - i \in 1..Len(r)
      BY <1>1, <2>1, <2>2
    <3> QED BY <3>1 DEF ToSet
  <2>5. \A x \in ToSet(r) : \E i \in 1..Len(s) : x = r[i]
    BY <1>1 DEF ToSet
  <2>6. \A x \in ToSet(s) : \E i \in 1..Len(s) : x = s[i]
    BY DEF ToSet
  <2> QED BY <2>3, <2>4, <2>5, <2>6
<1> QED BY <1>2, <1>3 DEF r

\* Backwards from its tail a list is the reverse of the sequence.
LEMMA BackFollows ==
  ASSUME NEW T, NEW s \in Seq(T), NEW link, NEW last, NEW nil
  PROVE  Follows(link, last, Reverse(s), nil) <=>
           /\ last = IF s = <<>> THEN nil ELSE s[Len(s)]
           /\ \A i \in 1..Len(s) : link[s[i]] = IF i = 1 THEN nil ELSE s[i - 1]
<1> DEFINE r == Reverse(s)
<1>1. /\ r \in Seq(T) /\ Len(r) = Len(s) /\ Len(s) \in Nat
      /\ \A i \in 1..Len(s) : r[i] = s[Len(s) + 1 - i]
  BY ReverseFacts
<1> HIDE DEF r
<1>2. \A i \in 1..Len(s) : Len(s) + 1 - i \in 1..Len(s) /\ Len(s) + 1 - (Len(s) + 1 - i) = i
  BY <1>1
<1>3. (IF r = <<>> THEN nil ELSE r[1]) = IF s = <<>> THEN nil ELSE s[Len(s)]
  <2>1. CASE s = <<>>
    BY <1>1, <2>1
  <2>2. CASE s # <<>>
    <3>1. 1 \in 1..Len(s) /\ Len(s) + 1 - 1 = Len(s) /\ r # <<>>
      BY <1>1, <2>2
    <3> QED BY <1>1, <2>2, <3>1
  <2> QED BY <2>1, <2>2
<1>4. \A i \in 1..Len(s) : (IF i = Len(r) THEN nil ELSE r[i + 1]) =
        IF Len(s) + 1 - i = 1 THEN nil ELSE s[Len(s) + 1 - i - 1]
  <2> SUFFICES ASSUME NEW i \in 1..Len(s), i # Len(s) PROVE r[i + 1] = s[Len(s) + 1 - i - 1]
    BY <1>1
  <2>1. i + 1 \in 1..Len(s) /\ Len(s) + 1 - (i + 1) = Len(s) + 1 - i - 1
    BY <1>1
  <2> QED BY <1>1, <2>1
<1>5. ASSUME NEW i \in 1..Len(s)
      PROVE  (link[r[i]] = IF i = Len(r) THEN nil ELSE r[i + 1]) <=>
             (link[s[Len(s) + 1 - i]] =
                IF Len(s) + 1 - i = 1 THEN nil ELSE s[Len(s) + 1 - i - 1])
  BY <1>1, <1>4
<1>6. (\A i \in 1..Len(r) : link[r[i]] = IF i = Len(r) THEN nil ELSE r[i + 1]) <=>
      \A i \in 1..Len(s) : link[s[i]] = IF i = 1 THEN nil ELSE s[i - 1]
  <2>1. ASSUME \A i \in 1..Len(r) : link[r[i]] = IF i = Len(r) THEN nil ELSE r[i + 1],
               NEW i \in 1..Len(s)
        PROVE  link[s[i]] = IF i = 1 THEN nil ELSE s[i - 1]
    <3>1. PICK j \in 1..Len(s) : Len(s) + 1 - j = i
      BY <1>2
    <3>2. link[r[j]] = IF j = Len(r) THEN nil ELSE r[j + 1]
      BY <1>1, <2>1
    <3> QED BY <1>5, <3>1, <3>2
  <2>2. ASSUME \A i \in 1..Len(s) : link[s[i]] = IF i = 1 THEN nil ELSE s[i - 1],
               NEW i \in 1..Len(r)
        PROVE  link[r[i]] = IF i = Len(r) THEN nil ELSE r[i + 1]
    <3>1. i \in 1..Len(s) /\ Len(s) + 1 - i \in 1..Len(s)
      BY <1>1, <1>2
    <3>2. link[s[Len(s) + 1 - i]] = IF Len(s) + 1 - i = 1 THEN nil ELSE s[Len(s) + 1 - i - 1]
      BY <2>2, <3>1
    <3> QED BY <1>5, <3>1, <3>2
  <2> QED BY <2>1, <2>2
<1> QED BY <1>3, <1>6 DEF Follows, r

\* one that was put in is at the mirrored place,
LEMMA ReverseInserted ==
  ASSUME NEW T, NEW s \in Seq(T), NEW i \in 1..Len(s) + 1, NEW e \in T
  PROVE  Reverse(InsertAt(s, i, e)) = InsertAt(Reverse(s), Len(s) + 2 - i, e)
<1> DEFINE t == InsertAt(s, i, e)
           r == Reverse(s)
           k == Len(s) + 2 - i
           u == InsertAt(r, k, e)
           v == Reverse(t)
<1>1. /\ t \in Seq(T) /\ Len(t) = Len(s) + 1
      /\ \A j \in 1..Len(s) + 1 : t[j] = IF j < i THEN s[j] ELSE IF j = i THEN e ELSE s[j - 1]
  BY InsertAtFacts
<1>2. /\ r \in Seq(T) /\ Len(r) = Len(s) /\ Len(s) \in Nat
      /\ \A j \in 1..Len(s) : r[j] = s[Len(s) + 1 - j]
  BY ReverseFacts
<1> HIDE DEF t, r
<1>3. /\ v \in Seq(T) /\ Len(v) = Len(t)
      /\ \A j \in 1..Len(t) : v[j] = t[Len(t) + 1 - j]
  BY <1>1, ReverseFacts
<1>4. k \in 1..Len(r) + 1
  BY <1>2
<1> HIDE DEF k
<1>5. /\ u \in Seq(T) /\ Len(u) = Len(r) + 1
      /\ \A j \in 1..Len(r) + 1 : u[j] = IF j < k THEN r[j] ELSE IF j = k THEN e ELSE r[j - 1]
  BY <1>2, <1>4, InsertAtFacts
<1> HIDE DEF u, v
<1>6. ASSUME NEW j \in 1..Len(s) + 1 PROVE u[j] = v[j]
  <2> DEFINE m == Len(s) + 2 - j
  <2>1. m \in 1..Len(s) + 1 /\ m = Len(t) + 1 - j
    BY <1>1, <1>2
  <2>2. v[j] = IF m < i THEN s[m] ELSE IF m = i THEN e ELSE s[m - 1]
    BY <1>1, <1>3, <2>1
  <2>3. u[j] = IF j < k THEN r[j] ELSE IF j = k THEN e ELSE r[j - 1]
    BY <1>2, <1>5
  <2>4. CASE j < k
    <3>1. m > i /\ j \in 1..Len(s) /\ Len(s) + 1 - j = m - 1
      BY <1>2, <2>4 DEF k
    <3> QED BY <1>2, <2>2, <2>3, <2>4, <3>1
  <2>5. CASE j = k
    BY <1>2, <2>2, <2>3, <2>5 DEF k
  <2>6. CASE j > k
    <3>1. m < i /\ j - 1 \in 1..Len(s) /\ Len(s) + 1 - (j - 1) = m
      BY <1>2, <1>4, <2>6 DEF k
    <3> QED BY <1>2, <1>4, <2>2, <2>3, <2>6, <3>1
  <2> QED BY <1>2, <1>4, <2>4, <2>5, <2>6
<1>7. u = v
  <2>1. Len(u) = Len(v) /\ 1..Len(u) = 1..Len(s) + 1
    BY <1>1, <1>2, <1>3, <1>5
  <2> QED BY <1>3, <1>5, <1>6, <2>1, SeqEqual
<1> QED BY <1>7 DEF u, v, t, r, k

\* and one that was taken out is gone from both.
LEMMA ReverseRemoved ==
  ASSUME NEW T, NEW s \in Seq(T), NEW k \in 1..Len(s)
  PROVE  Reverse(RemoveAt(s, k)) = RemoveAt(Reverse(s), Len(s) + 1 - k)
<1> DEFINE t == RemoveAt(s, k)
           r == Reverse(s)
           i == Len(s) + 1 - k
           u == RemoveAt(r, i)
           v == Reverse(t)
<1>1. /\ t \in Seq(T) /\ Len(t) = Len(s) - 1
      /\ \A j \in 1..Len(s) - 1 : t[j] = IF j < k THEN s[j] ELSE s[j + 1]
  BY RemoveAtFacts
<1>2. /\ r \in Seq(T) /\ Len(r) = Len(s) /\ Len(s) \in Nat
      /\ \A j \in 1..Len(s) : r[j] = s[Len(s) + 1 - j]
  BY ReverseFacts
<1> HIDE DEF t, r
<1>3. /\ v \in Seq(T) /\ Len(v) = Len(t)
      /\ \A j \in 1..Len(t) : v[j] = t[Len(t) + 1 - j]
  BY <1>1, ReverseFacts
<1>4. i \in 1..Len(r)
  BY <1>2
<1> HIDE DEF i
<1>5. /\ u \in Seq(T) /\ Len(u) = Len(r) - 1
      /\ \A j \in 1..Len(r) - 1 : u[j] = IF j < i THEN r[j] ELSE r[j + 1]
  BY <1>2, <1>4, RemoveAtFacts
<1> HIDE DEF u, v
<1>6. ASSUME NEW j \in 1..Len(s) - 1 PROVE u[j] = v[j]
  <2> DEFINE m == Len(s) - j
  <2>1. m \in 1..Len(s) - 1 /\ m = Len(t) + 1 - j
    BY <1>1, <1>2
  <2>2. v[j] = IF m < k THEN s[m] ELSE s[m + 1]
    BY <1>1, <1>3, <2>1
  <2>3. u[j] = IF j < i THEN r[j] ELSE r[j + 1]
    BY <1>2, <1>5
  <2>4. CASE j < i
    <3>1. ~(m < k) /\ j \in 1..Len(s) /\ Len(s) + 1 - j = m + 1
      BY <1>2, <2>4 DEF i
    <3> QED BY <1>2, <2>2, <2>3, <2>4, <3>1
  <2>5. CASE ~(j < i)
    <3>1. m < k /\ j + 1 \in 1..Len(s) /\ Len(s) + 1 - (j + 1) = m
      BY <1>2, <1>4, <2>5 DEF i
    <3> QED BY <1>2, <2>2, <2>3, <2>5, <3>1
  <2> QED BY <2>4, <2>5
<1>7. u = v
  <2>1. Len(u) = Len(v) /\ 1..Len(u) = 1..Len(s) - 1
    BY <1>1, <1>2, <1>3, <1>5
  <2> QED BY <1>3, <1>5, <1>6, <2>1, SeqEqual
<1> QED BY <1>7 DEF u, v, t, r, i

\* The neighbours of place i, where an element goes in.
LEMMA FollowsInserted ==
  ASSUME NEW T, NEW nil, nil \notin T, NEW s \in Seq(T), EachOnce(s),
         NEW link, NEW first, Follows(link, first, s, nil),
         NEW e \in T, e \notin ToSet(s), NEW i \in 1..Len(s) + 1,
         NEW before, before = IF i = 1 THEN nil ELSE s[i - 1],
         NEW after, after = IF i = Len(s) + 1 THEN nil ELSE s[i],
         NEW linked,
         \A b \in T : linked[b] = IF b = e THEN after ELSE IF b = before THEN e ELSE link[b]
  PROVE  Follows(linked, IF before = nil THEN e ELSE first, InsertAt(s, i, e), nil)
<1> DEFINE t == InsertAt(s, i, e)
<1>0. s \in Seq(T) /\ i \in 1..Len(s) + 1 /\ e \in T
  OBVIOUS
<1>1. /\ t \in Seq(T) /\ Len(t) = Len(s) + 1
      /\ \A j \in 1..Len(s) + 1 : t[j] = IF j < i THEN s[j] ELSE IF j = i THEN e ELSE s[j - 1]
  BY ONLY <1>0, InsertAtFacts
<1>2. /\ Len(s) \in Nat /\ i \in 1..Len(s) + 1 /\ e # nil
      /\ \A j \in 1..Len(s) : s[j] \in T /\ s[j] # nil /\ s[j] # e
  <2>1. \A j \in 1..Len(s) : s[j] # e
    BY DEF ToSet
  <2> QED BY <2>1
<1>3. before \in T \cup {nil} /\ before # e /\ (before = nil <=> i = 1)
  <2>1. CASE i = 1
    BY <1>2, <2>1
  <2>2. CASE i # 1
    <3>1. i - 1 \in 1..Len(s)
      BY <1>2, <2>2
    <3> QED BY <1>2, <2>2, <3>1
  <2> QED BY <2>1, <2>2
<1> HIDE DEF t
<1>4. (IF before = nil THEN e ELSE first) = IF t = <<>> THEN nil ELSE t[1]
  <2>0. t # <<>> /\ 1 \in 1..Len(s) + 1
    BY <1>1, <1>2
  <2>1. CASE i = 1
    BY <1>1, <1>2, <1>3, <2>0, <2>1
  <2>2. CASE i # 1
    <3>1. first = s[1] /\ 1 < i
      BY <1>2, <2>2 DEF Follows
    <3> QED BY <1>1, <1>2, <1>3, <2>0, <2>2, <3>1
  <2> QED BY <2>1, <2>2
<1>5. ASSUME NEW j \in 1..Len(t) PROVE linked[t[j]] = IF j = Len(t) THEN nil ELSE t[j + 1]
  <2>0. j \in 1..Len(s) + 1
    BY <1>1
  <2>1. CASE j = i
    <3>1. linked[t[j]] = after
      BY <1>1, <1>2, <2>1
    <3>2. j # Len(t) => t[j + 1] = s[i]
      <4>1. j # Len(t) => j + 1 \in 1..Len(s) + 1 /\ ~(j + 1 < i) /\ j + 1 # i /\ (j + 1) - 1 = i
        BY <1>1, <1>2, <2>1
      <4> QED BY <1>1, <4>1
    <3> QED BY <1>1, <2>1, <3>1, <3>2
  <2>2. CASE j < i
    <3>1. t[j] = s[j] /\ j \in 1..Len(s)
      BY <1>1, <1>2, <2>0, <2>2
    <3>2. link[s[j]] = IF j = Len(s) THEN nil ELSE s[j + 1]
      BY <3>1 DEF Follows
    <3>3. s[j] = before <=> j = i - 1
      <4>1. CASE j = i - 1
        BY <1>2, <3>1, <4>1
      <4>2. CASE j # i - 1
        <5>1. i - 1 \in 1..Len(s) /\ before = s[i - 1]
          BY <1>2, <2>2, <3>1
        <5> QED BY <3>1, <4>2, <5>1 DEF EachOnce
      <4> QED BY <4>1, <4>2
    <3>4. linked[t[j]] = IF j = i - 1 THEN e ELSE link[s[j]]
      BY <1>2, <3>1, <3>3
    <3>5. t[j + 1] = (IF j = i - 1 THEN e ELSE s[j + 1]) /\ j # Len(t)
      <4>1. /\ j + 1 \in 1..Len(s) + 1 /\ j # Len(s) + 1
            /\ IF j = i - 1 THEN j + 1 = i ELSE j + 1 < i
        BY <1>2, <2>2, <3>1
      <4> QED BY <1>1, <4>1
    <3>6. j # i - 1 => j # Len(s)
      BY <1>2, <2>2, <3>1
    <3> QED BY <3>2, <3>4, <3>5, <3>6
  <2>3. CASE j > i
    <3>1. t[j] = s[j - 1] /\ j - 1 \in 1..Len(s) /\ (j - 1) + 1 = j
      BY <1>1, <1>2, <2>0, <2>3
    <3>2. link[s[j - 1]] = IF j - 1 = Len(s) THEN nil ELSE s[j]
      BY <3>1 DEF Follows
    <3>3. s[j - 1] # before
      <4>1. CASE i = 1
        BY <1>2, <1>3, <3>1, <4>1
      <4>2. CASE i # 1
        <5>1. i - 1 \in 1..Len(s) /\ before = s[i - 1] /\ i - 1 # j - 1
          BY <1>2, <2>3, <3>1, <4>2
        <5> QED BY <3>1, <5>1 DEF EachOnce
      <4> QED BY <4>1, <4>2
    <3>4. linked[t[j]] = link[s[j - 1]]
      BY <1>2, <3>1, <3>3
    <3>5. j # Len(t) => t[j + 1] = s[j]
      <4>1. j # Len(s) + 1 => j + 1 \in 1..Len(s) + 1 /\ ~(j + 1 < i) /\ j + 1 # i
               /\ (j + 1) - 1 = j
        BY <1>2, <2>0, <2>3
      <4> QED BY <1>1, <4>1
    <3>6. j - 1 = Len(s) <=> j = Len(t)
      BY <1>1, <1>2, <2>0
    <3> QED BY <3>2, <3>4, <3>5, <3>6
  <2> QED BY <1>2, <2>0, <2>1, <2>2, <2>3
<1> QED BY <1>4, <1>5 DEF Follows, t

\* The neighbours of place k, from which an element goes.
LEMMA FollowsRemoved ==
  ASSUME NEW T, NEW nil, nil \notin T, NEW s \in Seq(T), EachOnce(s),
         NEW link, NEW first, Follows(link, first, s, nil),
         NEW k \in 1..Len(s),
         NEW before, before = IF k = 1 THEN nil ELSE s[k - 1],
         NEW after, after = IF k = Len(s) THEN nil ELSE s[k + 1],
         NEW linked,
         \A b \in T \ {s[k]} : linked[b] = IF b = before THEN after ELSE link[b]
  PROVE  Follows(linked, IF before = nil THEN after ELSE first, RemoveAt(s, k), nil)
<1> DEFINE t == RemoveAt(s, k)
<1>1. /\ t \in Seq(T) /\ Len(t) = Len(s) - 1
      /\ \A j \in 1..Len(s) - 1 : t[j] = IF j < k THEN s[j] ELSE s[j + 1]
  BY RemoveAtFacts
<1>2. /\ Len(s) \in Nat /\ k \in 1..Len(s)
      /\ \A j \in 1..Len(s) : s[j] \in T /\ s[j] # nil
      /\ \A j \in 1..Len(s) : j # k => s[j] # s[k]
  BY DEF EachOnce
<1>3. before = nil <=> k = 1
  <2>1. CASE k # 1
    <3>1. k - 1 \in 1..Len(s)
      BY <1>2, <2>1
    <3> QED BY <1>2, <2>1, <3>1
  <2> QED BY <2>1
<1> HIDE DEF t
<1>4. (IF before = nil THEN after ELSE first) = IF t = <<>> THEN nil ELSE t[1]
  <2>1. CASE k = 1
    <3>1. CASE Len(s) = 1
      BY <1>1, <1>3, <2>1, <3>1
    <3>2. CASE Len(s) # 1
      <4>1. 1 \in 1..Len(s) - 1 /\ t # <<>>
        BY <1>1, <1>2, <3>2
      <4> QED BY <1>1, <1>3, <2>1, <3>2, <4>1
    <3> QED BY <3>1, <3>2
  <2>2. CASE k # 1
    <3>1. 1 \in 1..Len(s) - 1 /\ 1 < k /\ t # <<>>
      BY <1>1, <1>2, <2>2
    <3>2. first = s[1]
      BY <1>2 DEF Follows
    <3> QED BY <1>1, <1>3, <2>2, <3>1, <3>2
  <2> QED BY <2>1, <2>2
<1>5. ASSUME NEW j \in 1..Len(t) PROVE linked[t[j]] = IF j = Len(t) THEN nil ELSE t[j + 1]
  <2>0. j \in 1..Len(s) - 1
    BY <1>1
  <2>1. CASE j < k
    <3>1. t[j] = s[j] /\ j \in 1..Len(s) /\ j # Len(s)
      BY <1>1, <1>2, <2>0, <2>1
    <3>2. link[s[j]] = s[j + 1]
      BY <3>1 DEF Follows
    <3>3. s[j] = before <=> j = k - 1
      <4>1. CASE j = k - 1
        BY <1>2, <3>1, <4>1
      <4>2. CASE j # k - 1
        <5>1. k - 1 \in 1..Len(s) /\ before = s[k - 1]
          BY <1>2, <2>1, <3>1
        <5> QED BY <3>1, <4>2, <5>1 DEF EachOnce
      <4> QED BY <4>1, <4>2
    <3>4. linked[t[j]] = IF j = k - 1 THEN after ELSE s[j + 1]
      <4>1. s[j] \in T \ {s[k]}
        BY <1>2, <2>1, <3>1
      <4> QED BY <3>1, <3>2, <3>3, <4>1
    <3>5. CASE j = k - 1
      <4>1. j = Len(t) <=> k = Len(s)
        BY <1>1, <1>2, <3>5
      <4>2. j # Len(t) => j + 1 \in 1..Len(s) - 1 /\ ~(j + 1 < k) /\ (j + 1) + 1 = k + 1
        BY <1>1, <1>2, <2>0, <3>5
      <4>3. j # Len(t) => t[j + 1] = s[k + 1]
        BY <1>1, <4>2
      <4> QED BY <3>4, <3>5, <4>1, <4>3
    <3>6. CASE j # k - 1
      <4>1. j + 1 \in 1..Len(s) - 1 /\ j + 1 < k /\ j # Len(t)
        BY <1>1, <1>2, <2>0, <2>1, <3>6
      <4> QED BY <1>1, <3>4, <3>6, <4>1
    <3> QED BY <3>5, <3>6
  <2>2. CASE ~(j < k)
    <3>1. t[j] = s[j + 1] /\ j + 1 \in 1..Len(s) /\ j + 1 # k
      BY <1>1, <1>2, <2>0, <2>2
    <3>2. link[s[j + 1]] = IF j + 1 = Len(s) THEN nil ELSE s[(j + 1) + 1]
      BY <3>1 DEF Follows
    <3>3. s[j + 1] # before
      <4>1. CASE k = 1
        BY <1>2, <1>3, <3>1, <4>1
      <4>2. CASE k # 1
        <5>1. k - 1 \in 1..Len(s) /\ before = s[k - 1] /\ k - 1 # j + 1
          BY <1>2, <2>0, <2>2, <4>2
        <5> QED BY <3>1, <5>1 DEF EachOnce
      <4> QED BY <4>1, <4>2
    <3>4. linked[t[j]] = link[s[j + 1]]
      <4>1. s[j + 1] \in T \ {s[k]}
        BY <1>2, <3>1
      <4> QED BY <3>1, <3>3, <4>1
    <3>5. j + 1 = Len(s) <=> j = Len(t)
      BY <1>1, <1>2, <2>0
    <3>6. j # Len(t) => j + 1 \in 1..Len(s) - 1 /\ ~(j + 1 < k)
      BY <1>1, <1>2, <2>0, <2>2
    <3>7. j # Len(t) => t[j + 1] = s[(j + 1) + 1]
      BY <1>1, <3>6
    <3> QED BY <3>2, <3>4, <3>5, <3>7
  <2> QED BY <2>1, <2>2
<1> QED BY <1>4, <1>5 DEF Follows, t

\* A list into which an element is linked at place i.
LEMMA ListInserted ==
  ASSUME NEW T, NEW nil, nil \notin T, NEW q, NEW s, IsListOf(q, s, T, nil),
         NEW e \in T, e \notin ToSet(s), NEW i \in 1..Len(s) + 1,
         NEW before, before = IF i = 1 THEN nil ELSE s[i - 1],
         NEW after, after = IF i = Len(s) + 1 THEN nil ELSE s[i],
         NEW r,
         r.head = IF before = nil THEN e ELSE q.head,
         r.tail = IF after = nil THEN e ELSE q.tail,
         \A b \in T : /\ r.next[b] = IF b = e THEN after ELSE IF b = before THEN e ELSE q.next[b]
                      /\ r.prev[b] = IF b = e THEN before ELSE IF b = after THEN e ELSE q.prev[b]
  PROVE  IsListOf(r, InsertAt(s, i, e), T, nil)
<1> DEFINE t == InsertAt(s, i, e)
           u == Reverse(s)
           k == Len(s) + 2 - i
<1>1. s \in Seq(T) /\ Len(s) \in Nat /\ EachOnce(s)
  BY DEF IsListOf
<1>2. t \in Seq(T) /\ EachOnce(t)
  BY <1>1, InsertAtFacts, InsertAtOnce
<1>3. Follows(r.next, r.head, t, nil)
  <2>1. Follows(q.next, q.head, s, nil)
    BY DEF IsListOf
  <2>2. Follows(r.next, IF before = nil THEN e ELSE q.head, t, nil)
    <3> HIDE DEF t
    <3> QED BY <1>1, <2>1, FollowsInserted DEF t
  <2> QED BY <2>2
<1>4. Follows(r.prev, r.tail, Reverse(t), nil)
  <2>1. Follows(q.prev, q.tail, u, nil)
    BY <1>1, BackFollows DEF IsListOf
  <2>2. /\ u \in Seq(T) /\ EachOnce(u) /\ e \notin ToSet(u) /\ Len(u) = Len(s)
        /\ \A j \in 1..Len(s) : u[j] = s[Len(s) + 1 - j]
    BY <1>1, ReverseFacts, ReverseOnce
  <2>3. k \in 1..Len(u) + 1
    BY <1>1, <2>2
  <2>4. after = IF k = 1 THEN nil ELSE u[k - 1]
    <3>1. i # Len(s) + 1 => k - 1 \in 1..Len(s) /\ Len(s) + 1 - (k - 1) = i
      BY <1>1
    <3>2. i # Len(s) + 1 => u[k - 1] = s[i]
      BY <2>2, <3>1
    <3>3. i = Len(s) + 1 <=> k = 1
      BY <1>1
    <3> QED BY <3>2, <3>3
  <2>5. before = IF k = Len(u) + 1 THEN nil ELSE u[k]
    <3>1. i # 1 => k \in 1..Len(s) /\ Len(s) + 1 - k = i - 1
      BY <1>1
    <3>2. i # 1 => u[k] = s[i - 1]
      BY <2>2, <3>1
    <3>3. i = 1 <=> k = Len(u) + 1
      BY <1>1, <2>2
    <3> QED BY <3>2, <3>3
  <2> HIDE DEF k, u
  <2>6. Follows(r.prev, IF after = nil THEN e ELSE q.tail, InsertAt(u, k, e), nil)
    <3> DEFINE old == q.prev
               new == r.prev
               last == q.tail
    <3>1. \A b \in T : new[b] = IF b = e THEN before ELSE IF b = after THEN e ELSE old[b]
      OBVIOUS
    <3>2. u \in Seq(T) /\ EachOnce(u) /\ e \notin ToSet(u) /\ Follows(old, last, u, nil)
      BY <2>1, <2>2
    <3> HIDE DEF old, new, last
    <3>3. Follows(new, IF after = nil THEN e ELSE last, InsertAt(u, k, e), nil)
      BY ONLY nil \notin T, e \in T, <2>3, <2>4, <2>5, <3>1, <3>2, FollowsInserted
    <3> QED BY <3>3 DEF new, last
  <2>7. Reverse(t) = InsertAt(u, k, e)
    BY <1>1, ReverseInserted DEF u, k
  <2> QED BY <2>6, <2>7
<1> HIDE DEF t
<1>5. /\ r.tail = IF t = <<>> THEN nil ELSE t[Len(t)]
      /\ \A j \in 1..Len(t) : r.prev[t[j]] = IF j = 1 THEN nil ELSE t[j - 1]
  BY <1>2, <1>4, BackFollows
<1> QED BY <1>2, <1>3, <1>5 DEF IsListOf, t

\* A list out of which the element at place k is unlinked.
LEMMA ListRemoved ==
  ASSUME NEW T, NEW nil, nil \notin T, NEW q, NEW s, IsListOf(q, s, T, nil),
         NEW k \in 1..Len(s),
         NEW before, before = IF k = 1 THEN nil ELSE s[k - 1],
         NEW after, after = IF k = Len(s) THEN nil ELSE s[k + 1],
         NEW r,
         r.head = IF before = nil THEN after ELSE q.head,
         r.tail = IF after = nil THEN before ELSE q.tail,
         \A b \in T \ {s[k]} : /\ r.next[b] = IF b = before THEN after ELSE q.next[b]
                               /\ r.prev[b] = IF b = after THEN before ELSE q.prev[b]
  PROVE  IsListOf(r, RemoveAt(s, k), T, nil)
<1> DEFINE t == RemoveAt(s, k)
           u == Reverse(s)
           i == Len(s) + 1 - k
<1>1. s \in Seq(T) /\ Len(s) \in Nat /\ EachOnce(s)
  BY DEF IsListOf
<1>2. t \in Seq(T) /\ EachOnce(t)
  BY <1>1, RemoveAtFacts, RemoveAtOnce
<1>3. Follows(r.next, r.head, t, nil)
  <2>1. Follows(q.next, q.head, s, nil)
    BY DEF IsListOf
  <2>2. Follows(r.next, IF before = nil THEN after ELSE q.head, t, nil)
    <3> HIDE DEF t
    <3>1. \A b \in T \ {s[k]} : r.next[b] = IF b = before THEN after ELSE q.next[b]
      OBVIOUS
    <3>2. before = (IF k = 1 THEN nil ELSE s[k - 1]) /\ after = IF k = Len(s) THEN nil ELSE s[k + 1]
      OBVIOUS
    <3> QED
      BY ONLY nil \notin T, k \in 1..Len(s), <1>1, <2>1, <3>1, <3>2, FollowsRemoved DEF t
  <2> QED BY <2>2
<1>4. Follows(r.prev, r.tail, Reverse(t), nil)
  <2>1. Follows(q.prev, q.tail, u, nil)
    BY <1>1, BackFollows DEF IsListOf
  <2>2. /\ u \in Seq(T) /\ EachOnce(u) /\ Len(u) = Len(s)
        /\ \A j \in 1..Len(s) : u[j] = s[Len(s) + 1 - j]
    BY <1>1, ReverseFacts, ReverseOnce
  <2>3. i \in 1..Len(u) /\ u[i] = s[k]
    <3>1. i \in 1..Len(s) /\ Len(s) + 1 - i = k
      BY <1>1
    <3> QED BY <2>2, <3>1
  <2>4. after = IF i = 1 THEN nil ELSE u[i - 1]
    <3>1. k # Len(s) => i - 1 \in 1..Len(s) /\ Len(s) + 1 - (i - 1) = k + 1
      BY <1>1
    <3>2. k # Len(s) => u[i - 1] = s[k + 1]
      BY <2>2, <3>1
    <3>3. k = Len(s) <=> i = 1
      BY <1>1
    <3> QED BY <3>2, <3>3
  <2>5. before = IF i = Len(u) THEN nil ELSE u[i + 1]
    <3>1. k # 1 => i + 1 \in 1..Len(s) /\ Len(s) + 1 - (i + 1) = k - 1
      BY <1>1
    <3>2. k # 1 => u[i + 1] = s[k - 1]
      BY <2>2, <3>1
    <3>3. k = 1 <=> i = Len(u)
      BY <1>1, <2>2
    <3> QED BY <3>2, <3>3
  <2> HIDE DEF i, u
  <2>6. Follows(r.prev, IF after = nil THEN before ELSE q.tail, RemoveAt(u, i), nil)
    <3>1. \A b \in T \ {u[i]} : r.prev[b] = IF b = after THEN before ELSE q.prev[b]
      BY <2>3
    <3>2. u \in Seq(T) /\ EachOnce(u) /\ i \in 1..Len(u)
      BY <2>2, <2>3
    <3> QED
      BY ONLY nil \notin T, <2>1, <2>4, <2>5, <3>1, <3>2, FollowsRemoved
  <2>7. Reverse(t) = RemoveAt(u, i)
    BY <1>1, ReverseRemoved DEF u, i
  <2> QED BY <2>6, <2>7
<1> HIDE DEF t
<1>5. /\ r.tail = IF t = <<>> THEN nil ELSE t[Len(t)]
      /\ \A j \in 1..Len(t) : r.prev[t[j]] = IF j = 1 THEN nil ELSE t[j - 1]
  BY <1>2, <1>4, BackFollows
<1> QED BY <1>2, <1>3, <1>5 DEF IsListOf, t

-----------------------------------------------------------------------------
(* How many elements of a sequence are of a kind.                             *)

\* One for what is so, none for what is not.
One(is) == IF is THEN 1 ELSE 0

\* How many of the elements from the k-th on are in S.
Hits(t, k, S) == {n \in k..Len(t) : t[n] \in S}
Later(t, k, S) == Cardinality(Hits(t, k, S))

\* There are so many of them, and none when none is in S.
LEMMA LaterIsCount ==
  ASSUME NEW T, NEW t \in Seq(T), NEW k \in Nat, NEW S
  PROVE  /\ IsFiniteSet(Hits(t, k, S)) /\ Later(t, k, S) \in Nat
         /\ Later(t, k, S) = 0 <=> \A n \in k..Len(t) : t[n] \notin S
<1>1. IsFiniteSet(Hits(t, k, S))
  <2>1. IsFiniteSet(k..Len(t))
    BY FS_Interval
  <2> QED BY <2>1, FS_Subset DEF Hits
<1>2. Later(t, k, S) \in Nat /\ (Later(t, k, S) = 0 <=> Hits(t, k, S) = {})
  BY <1>1, FS_CardinalityType, FS_EmptySet DEF Later
<1> QED BY <1>1, <1>2 DEF Hits

\* Those from the k-th on are the k-th and those after it.
LEMMA LaterOfHead ==
  ASSUME NEW T, NEW t \in Seq(T), NEW k \in 1..Len(t), NEW S
  PROVE  Later(t, k, S) = Later(t, k + 1, S) + One(t[k] \in S)
<1>1. IsFiniteSet(Hits(t, k + 1, S)) /\ Later(t, k + 1, S) \in Nat
  BY LaterIsCount
<1>2. k \notin Hits(t, k + 1, S)
  BY DEF Hits
<1>3. Cardinality(Hits(t, k + 1, S) \cup {k}) = Later(t, k + 1, S) + 1
  BY <1>1, <1>2, FS_AddElement DEF Later
<1>4. Hits(t, k, S) = IF t[k] \in S THEN Hits(t, k + 1, S) \cup {k} ELSE Hits(t, k + 1, S)
  BY DEF Hits
<1>5. CASE t[k] \in S
  BY <1>3, <1>4, <1>5 DEF Later, One
<1>6. CASE t[k] \notin S
  <2>1. Later(t, k, S) = Later(t, k + 1, S)
    BY <1>4, <1>6 DEF Later
  <2> QED BY <1>1, <1>6, <2>1 DEF One
<1> QED BY <1>5, <1>6

\* An element that comes last counts for all that are before it.
LEMMA LaterAppended ==
  ASSUME NEW T, NEW t \in Seq(T), NEW x \in T, NEW k \in 1..Len(t) + 1, NEW S
  PROVE  Later(Append(t, x), k, S) = Later(t, k, S) + One(x \in S)
<1> DEFINE u == Append(t, x)
<1>1. Len(u) = Len(t) + 1 /\ u[Len(t) + 1] = x /\ \A n \in 1..Len(t) : u[n] = t[n]
  OBVIOUS
<1> HIDE DEF u
<1>2. Hits(u, k, S) = IF x \in S THEN Hits(t, k, S) \cup {Len(t) + 1} ELSE Hits(t, k, S)
  BY <1>1 DEF Hits
<1>3. IsFiniteSet(Hits(t, k, S)) /\ Later(t, k, S) \in Nat
  BY LaterIsCount
<1>4. Len(t) + 1 \notin Hits(t, k, S)
  BY DEF Hits
<1>5. Cardinality(Hits(t, k, S) \cup {Len(t) + 1}) = Later(t, k, S) + 1
  BY <1>3, <1>4, FS_AddElement DEF Later
<1>6. CASE x \in S
  BY <1>2, <1>5, <1>6 DEF Later, One, u
<1>7. CASE x \notin S
  <2>1. Later(u, k, S) = Later(t, k, S)
    BY <1>2, <1>7 DEF Later
  <2> QED BY <1>3, <1>7, <2>1 DEF One, u
<1> QED BY <1>6, <1>7

\* When the first element is taken the others move up.
LEMMA LaterOfTail ==
  ASSUME NEW T, NEW t \in Seq(T), t # <<>>, NEW k \in 1..Len(t), NEW S
  PROVE  Later(Tail(t), k, S) = Later(t, k + 1, S)
<1> DEFINE u == Tail(t)
<1> DEFINE All == Hits(t, k + 1, S)
<1> DEFINE Rest == Hits(u, k, S)
<1> DEFINE back == [n \in All |-> n - 1]
<1>1. Len(t) \in Nat /\ Len(u) = Len(t) - 1 /\ \A n \in 1..Len(u) : u[n] = t[n + 1]
  OBVIOUS
<1> HIDE DEF u
<1>2. IsFiniteSet(All)
  BY LaterIsCount
<1>3. back \in Bijection(All, Rest)
  <2>1. \A n \in All : n - 1 \in Rest
    BY <1>1 DEF Hits
  <2>2. \A n \in Rest : n + 1 \in All /\ (n + 1) - 1 = n
    BY <1>1 DEF Hits
  <2>3. \A n, m \in All : n - 1 = m - 1 => n = m
    BY DEF Hits
  <2> HIDE DEF All, Rest
  <2>4. back \in [All -> Rest] /\ \A n \in All : back[n] = n - 1
    BY <2>1
  <2> HIDE DEF back
  <2>5. \A n \in Rest : \E m \in All : back[m] = n
    BY <2>2, <2>4
  <2>6. back \in Surjection(All, Rest)
    BY <2>4, <2>5 DEF Surjection
  <2>7. \A n, m \in All : back[n] = back[m] => n = m
    BY <2>3, <2>4
  <2>8. back \in Injection(All, Rest)
    BY <2>4, <2>7 DEF Injection, IsInjective
  <2> QED BY <2>6, <2>8 DEF Bijection
<1>4. Cardinality(Rest) = Cardinality(All)
  <2> HIDE DEF All, Rest, back
  <2> QED BY <1>2, <1>3, FS_Bijection DEF ExistsBijection
<1> QED BY <1>4 DEF Later, u

-----------------------------------------------------------------------------
(* Linked lists.  Follows(link, a, s, nil): the links from a on are those of s. *)

\* Two sequences one after the other,
LEMMA JoinedOnce ==
  ASSUME NEW T, NEW s \in Seq(T), NEW t \in Seq(T)
  PROVE  /\ s \o t \in Seq(T) /\ Len(s \o t) = Len(s) + Len(t)
         /\ \A i \in 1..Len(s) : (s \o t)[i] = s[i]
         /\ \A i \in 1..Len(t) : (s \o t)[Len(s) + i] = t[i]
         /\ ToSet(s \o t) = ToSet(s) \cup ToSet(t)
         /\ EachOnce(s) /\ EachOnce(t) /\ ToSet(s) \cap ToSet(t) = {} => EachOnce(s \o t)
<1> DEFINE r == s \o t
<1>1. /\ r \in Seq(T) /\ Len(r) = Len(s) + Len(t) /\ Len(s) \in Nat /\ Len(t) \in Nat
      /\ \A i \in 1..Len(s) : r[i] = s[i]
      /\ \A i \in 1..Len(r) : r[i] = IF i <= Len(s) THEN s[i] ELSE t[i - Len(s)]
  OBVIOUS
<1> HIDE DEF r
<1>2. \A i \in 1..Len(t) : r[Len(s) + i] = t[i]
  <2>1. ASSUME NEW i \in 1..Len(t) PROVE r[Len(s) + i] = t[i]
    <3>1. Len(s) + i \in 1..Len(r) /\ ~(Len(s) + i <= Len(s)) /\ Len(s) + i - Len(s) = i
      BY <1>1
    <3> QED BY <1>1, <3>1
  <2> QED BY <2>1
<1>3. \A i \in 1..Len(r) : i \in 1..Len(s) \/ \E k \in 1..Len(t) : i = Len(s) + k
  <2>1. ASSUME NEW i \in 1..Len(r), i \notin 1..Len(s)
        PROVE  \E k \in 1..Len(t) : i = Len(s) + k
    <3>1. i - Len(s) \in 1..Len(t) /\ i = Len(s) + (i - Len(s))
      BY <1>1, <2>1
    <3> QED BY <3>1
  <2> QED BY <2>1
<1>4. ToSet(r) = ToSet(s) \cup ToSet(t)
  <2>1. ASSUME NEW x \in ToSet(r) PROVE x \in ToSet(s) \cup ToSet(t)
    <3>1. PICK i \in 1..Len(r) : x = r[i]
      BY <1>1 DEF ToSet
    <3>2. CASE i \in 1..Len(s)
      BY <1>1, <3>1, <3>2 DEF ToSet
    <3>3. CASE i \notin 1..Len(s)
      <4>1. PICK k \in 1..Len(t) : i = Len(s) + k
        BY <1>3, <3>3
      <4>2. x = t[k] /\ k \in DOMAIN t
        BY <1>2, <3>1, <4>1
      <4> QED BY <4>2 DEF ToSet
    <3> QED BY <3>2, <3>3
  <2>2. ASSUME NEW x \in ToSet(s) PROVE x \in ToSet(r)
    <3>1. PICK i \in 1..Len(s) : x = s[i]
      BY DEF ToSet
    <3>2. i \in DOMAIN r /\ r[i] = x
      BY <1>1, <3>1
    <3> QED BY <3>2 DEF ToSet
  <2>3. ASSUME NEW x \in ToSet(t) PROVE x \in ToSet(r)
    <3>1. PICK i \in 1..Len(t) : x = t[i]
      BY DEF ToSet
    <3>2. Len(s) + i \in DOMAIN r /\ r[Len(s) + i] = x
      BY <1>1, <1>2, <3>1
    <3> QED BY <3>2 DEF ToSet
  <2> QED BY <2>1, <2>2, <2>3
<1>5. ASSUME EachOnce(s), EachOnce(t), ToSet(s) \cap ToSet(t) = {} PROVE EachOnce(r)
  <2>1. \A i \in 1..Len(s), k \in 1..Len(t) : s[i] # t[k]
    BY <1>5 DEF ToSet
  <2> SUFFICES ASSUME NEW i \in 1..Len(r), NEW j \in 1..Len(r), r[i] = r[j] PROVE i = j
    BY DEF EachOnce
  <2>2. CASE i \in 1..Len(s) /\ j \in 1..Len(s)
    BY <1>1, <1>5, <2>2 DEF EachOnce
  <2>3. CASE i \notin 1..Len(s) /\ j \in 1..Len(s)
    BY <1>1, <1>2, <1>3, <2>1, <2>3
  <2>4. CASE i \in 1..Len(s) /\ j \notin 1..Len(s)
    BY <1>1, <1>2, <1>3, <2>1, <2>4
  <2>5. CASE i \notin 1..Len(s) /\ j \notin 1..Len(s)
    <3>1. PICK k \in 1..Len(t) : i = Len(s) + k
      BY <1>3, <2>5
    <3>2. PICK l \in 1..Len(t) : j = Len(s) + l
      BY <1>3, <2>5
    <3>3. t[k] = t[l]
      BY <1>2, <3>1, <3>2
    <3> QED BY <1>5, <3>1, <3>2, <3>3 DEF EachOnce
  <2> QED BY <2>2, <2>3, <2>4, <2>5
<1> QED BY <1>1, <1>2, <1>4, <1>5 DEF r

\* and one without its first element.
LEMMA TailOnce ==
  ASSUME NEW T, NEW s \in Seq(T), s # <<>>, EachOnce(s)
  PROVE  /\ Tail(s) \in Seq(T) /\ Len(Tail(s)) = Len(s) - 1 /\ EachOnce(Tail(s))
         /\ \A i \in 1..Len(s) - 1 : Tail(s)[i] = s[i + 1]
         /\ ToSet(Tail(s)) = ToSet(s) \ {s[1]} /\ s[1] \in ToSet(s)
<1> DEFINE r == Tail(s)
<1>1. /\ r \in Seq(T) /\ Len(r) = Len(s) - 1 /\ Len(s) \in Nat \ {0}
      /\ \A i \in 1..Len(s) - 1 : r[i] = s[i + 1]
  OBVIOUS
<1> HIDE DEF r
<1>2. EachOnce(r)
  <2> SUFFICES ASSUME NEW i \in 1..Len(r), NEW j \in 1..Len(r), r[i] = r[j] PROVE i = j
    BY DEF EachOnce
  <2>1. i + 1 \in 1..Len(s) /\ j + 1 \in 1..Len(s) /\ s[i + 1] = s[j + 1]
    BY <1>1
  <2>2. i + 1 = j + 1
    BY <2>1 DEF EachOnce
  <2> QED BY <1>1, <2>2
<1>3. ToSet(r) = ToSet(s) \ {s[1]} /\ s[1] \in ToSet(s)
  <2>1. ASSUME NEW x \in ToSet(r) PROVE x \in ToSet(s) /\ x # s[1]
    <3>1. PICK i \in 1..Len(r) : x = r[i]
      BY <1>1 DEF ToSet
    <3>2. i + 1 \in 1..Len(s) /\ 1 \in 1..Len(s) /\ i + 1 # 1 /\ x = s[i + 1]
      BY <1>1, <3>1
    <3>3. i + 1 \in DOMAIN s
      BY <1>1, <3>2
    <3> QED BY <3>2, <3>3 DEF EachOnce, ToSet
  <2>2. ASSUME NEW x \in ToSet(s), x # s[1] PROVE x \in ToSet(r)
    <3>1. PICK i \in 1..Len(s) : x = s[i]
      BY DEF ToSet
    <3>2. i - 1 \in 1..Len(s) - 1 /\ (i - 1) + 1 = i
      BY <1>1, <2>2, <3>1
    <3>3. i - 1 \in DOMAIN r /\ r[i - 1] = x
      BY <1>1, <3>1, <3>2
    <3> QED BY <3>3 DEF ToSet
  <2>3. s[1] \in ToSet(s)
    <3>1. 1 \in DOMAIN s
      BY <1>1
    <3> QED BY <3>1 DEF ToSet
  <2> QED BY <2>1, <2>2, <2>3
<1> QED BY <1>1, <1>2, <1>3 DEF r

\* Links of other elements may change.
LEMMA FollowsKept ==
  ASSUME NEW T, NEW s \in Seq(T), NEW link, NEW new, NEW a, NEW nil, Follows(link, a, s, nil),
         \A x \in ToSet(s) : new[x] = link[x]
  PROVE  Follows(new, a, s, nil)
<1>1. \A i \in 1..Len(s) : new[s[i]] = link[s[i]]
  BY DEF ToSet
<1> QED BY <1>1 DEF Follows

\* A list linked to the last element of another goes on where that ends.
LEMMA FollowsJoined ==
  ASSUME NEW T, NEW s \in Seq(T), NEW t \in Seq(T), s # <<>>, t # <<>>, EachOnce(s),
         ToSet(s) \cap ToSet(t) = {}, NEW nil, NEW link \in [T -> T \cup {nil}], NEW a, NEW b,
         Follows(link, a, s, nil), Follows(link, b, t, nil)
  PROVE  Follows([link EXCEPT ![s[Len(s)]] = b], a, s \o t, nil)
<1> DEFINE new == [link EXCEPT ![s[Len(s)]] = b]
           r == s \o t
<1>1. /\ r \in Seq(T) /\ Len(r) = Len(s) + Len(t)
      /\ \A i \in 1..Len(s) : r[i] = s[i]
      /\ \A i \in 1..Len(t) : r[Len(s) + i] = t[i]
  BY JoinedOnce
<1>2. Len(s) \in Nat \ {0} /\ Len(t) \in Nat \ {0} /\ s[Len(s)] \in T
  OBVIOUS
<1>3. \A i \in 1..Len(t) : t[i] # s[Len(s)] /\ t[i] \in T
  BY <1>2 DEF ToSet
<1>4. \A x \in T : new[x] = IF x = s[Len(s)] THEN b ELSE link[x]
  BY <1>2
<1> HIDE DEF new, r
<1>5. a = IF r = <<>> THEN nil ELSE r[1]
  <2>1. r # <<>> /\ 1 \in 1..Len(s) /\ a = s[1]
    BY <1>1, <1>2 DEF Follows
  <2> QED BY <1>1, <2>1
<1>6. ASSUME NEW i \in 1..Len(r) PROVE new[r[i]] = IF i = Len(r) THEN nil ELSE r[i + 1]
  <2>1. CASE i < Len(s)
    <3>1. i \in 1..Len(s) /\ i + 1 \in 1..Len(s) /\ i # Len(s) /\ Len(s) \in 1..Len(s)
      BY <1>1, <1>2, <2>1
    <3>2. s[i] # s[Len(s)] /\ s[i] \in T
      BY <3>1 DEF EachOnce
    <3>3. link[s[i]] = s[i + 1]
      BY <3>1 DEF Follows
    <3> QED BY <1>1, <1>2, <1>4, <2>1, <3>1, <3>2, <3>3
  <2>2. CASE i = Len(s)
    <3>1. b = t[1] /\ 1 \in 1..Len(t) /\ i \in 1..Len(s)
      BY <1>2, <2>2 DEF Follows
    <3>2. r[i] = s[Len(s)] /\ r[i + 1] = t[1] /\ i # Len(r)
      BY <1>1, <1>2, <2>2, <3>1
    <3> QED BY <1>2, <1>4, <3>1, <3>2
  <2>3. CASE i > Len(s)
    <3> DEFINE k == i - Len(s)
    <3>1. k \in 1..Len(t) /\ i = Len(s) + k /\ (i = Len(r) <=> k = Len(t))
      BY <1>1, <1>2, <2>3
    <3>2. r[i] = t[k] /\ (k # Len(t) => r[i + 1] = t[k + 1])
      <4>1. k # Len(t) => k + 1 \in 1..Len(t) /\ i + 1 = Len(s) + (k + 1)
        BY <1>2, <3>1
      <4> HIDE DEF k
      <4> QED BY <1>1, <3>1, <4>1
    <3> HIDE DEF k
    <3>3. new[t[k]] = link[t[k]]
      BY <1>3, <1>4, <3>1
    <3> QED BY <3>1, <3>2, <3>3 DEF Follows
  <2> QED BY <1>1, <1>2, <2>1, <2>2, <2>3
<1> QED BY <1>5, <1>6 DEF Follows, new, r

\* A list without its first element begins at the next.
LEMMA FollowsTail ==
  ASSUME NEW T, NEW s \in Seq(T), s # <<>>, EachOnce(s), NEW nil, nil \notin T, NEW link, NEW a,
         Follows(link, a, s, nil)
  PROVE  /\ a = s[1] /\ a \in T /\ Follows(link, link[a], Tail(s), nil)
         /\ link[a] = nil <=> Tail(s) = <<>>
<1>1. /\ Tail(s) \in Seq(T) /\ Len(Tail(s)) = Len(s) - 1 /\ Len(s) \in Nat \ {0}
      /\ \A i \in 1..Len(s) - 1 : Tail(s)[i] = s[i + 1]
  BY TailOnce
<1>2. a = s[1] /\ 1 \in 1..Len(s) /\ a \in T /\ \A i \in 1..Len(s) : s[i] \in T
  <2>1. 1 \in 1..Len(s) /\ \A i \in 1..Len(s) : s[i] \in T
    OBVIOUS
  <2> QED BY <2>1 DEF Follows
<1> DEFINE r == Tail(s)
<1>0. /\ r \in Seq(T) /\ Len(r) = Len(s) - 1 /\ Len(s) \in Nat \ {0}
      /\ \A i \in 1..Len(s) - 1 : r[i] = s[i + 1]
      /\ \A i \in 1..Len(s) : s[i] \in T /\ link[s[i]] = IF i = Len(s) THEN nil ELSE s[i + 1]
  <2>1. \A i \in 1..Len(s) : link[s[i]] = IF i = Len(s) THEN nil ELSE s[i + 1]
    BY DEF Follows
  <2> HIDE DEF Follows
  <2> QED BY <1>1, <1>2, <2>1
<1> HIDE DEF r
<1>3. link[a] = IF r = <<>> THEN nil ELSE r[1]
  <2>1. link[a] = IF 1 = Len(s) THEN nil ELSE s[2]
    BY <1>0, <1>2
  <2>2. CASE Len(s) = 1
    BY <1>0, <2>1, <2>2
  <2>3. CASE Len(s) # 1
    <3>1. 1 \in 1..Len(s) - 1 /\ 1 + 1 = 2
      BY <1>0, <2>3
    <3>2. r # <<>> /\ r[1] = s[2]
      BY <1>0, <3>1
    <3> QED BY <2>1, <2>3, <3>2
  <2> QED BY <2>2, <2>3
<1>4. ASSUME NEW i \in 1..Len(r) PROVE link[r[i]] = IF i = Len(r) THEN nil ELSE r[i + 1]
  <2>1. i + 1 \in 1..Len(s) /\ r[i] = s[i + 1] /\ (i = Len(r) <=> i + 1 = Len(s))
    BY <1>0
  <2>2. i # Len(r) => r[i + 1] = s[(i + 1) + 1]
    <3>1. i # Len(r) => i + 1 \in 1..Len(s) - 1
      BY <1>0
    <3> QED BY <1>0, <3>1
  <2> QED BY <1>0, <2>1, <2>2
<1>5. link[a] = nil <=> r = <<>>
  <2>1. r # <<>> => r[1] \in T
    BY <1>0
  <2> QED BY <1>3, <2>1
<1> QED BY <1>2, <1>3, <1>4, <1>5 DEF Follows, r

\* Those from a place on are no more than those from an earlier one, and one at least
\* where there is one.
LEMMA LaterIsLess ==
  ASSUME NEW T, NEW t \in Seq(T), NEW S, NEW j \in 1..Len(t), NEW k \in 1..j
  PROVE  /\ Later(t, j, S) <= Later(t, k, S)
         /\ t[j] \in S => Later(t, j, S) >= 1
<1>1. /\ IsFiniteSet(Hits(t, k, S)) /\ Later(t, k, S) \in Nat
      /\ IsFiniteSet(Hits(t, j, S)) /\ Later(t, j, S) \in Nat
  BY LaterIsCount
<1>2. Hits(t, j, S) \subseteq Hits(t, k, S)
  BY DEF Hits
<1>3. Later(t, j, S) <= Later(t, k, S)
  BY <1>1, <1>2, FS_Subset DEF Later
<1>4. ASSUME t[j] \in S PROVE Later(t, j, S) >= 1
  <2>1. j \in Hits(t, j, S)
    BY <1>4 DEF Hits
  <2>2. Later(t, j, S) # 0
    BY <1>1, <2>1, FS_EmptySet DEF Later
  <2> QED BY <1>1, <2>2
<1> QED BY <1>3, <1>4

\* Sequences of sequences; the provers are better off without seeing it.
Lists(T) == Seq(Seq(T))

\* g[n] is the first n of the sequences of P one after the other.
GathersTo(g, P, T, k) ==
  /\ g \in [0..k -> Seq(T)] /\ g[0] = <<>>
  /\ \A n \in 1..k : g[n] = g[n - 1] \o P[n]
\* All of them are gathered.
Gathers(g, P, T) == GathersTo(g, P, T, Len(P))

\* All of them one after the other.
Gathered(P, T) == (CHOOSE g : Gathers(g, P, T))[Len(P)]

\* Sequences that begin alike do so when gathered.
LEMMA GathersAlike ==
  ASSUME NEW T, NEW P, NEW R, NEW g, NEW h, Gathers(g, P, T), Gathers(h, R, T),
         NEW m \in Nat, m <= Len(P), m <= Len(R), Len(P) \in Nat, Len(R) \in Nat,
         \A i \in 1..m : P[i] = R[i]
  PROVE  \A n \in 0..m : g[n] = h[n]
<1> DEFINE differ == {n \in 0..m : g[n] # h[n]}
<1> SUFFICES ASSUME differ # {} PROVE FALSE
  OBVIOUS
<1>1. PICK n \in differ : \A k \in differ : n <= k
  <2>1. differ \in SUBSET Nat
    OBVIOUS
  <2> HIDE DEF differ
  <2> QED BY <2>1, MinIsLeast
<1>2. n \in 0..m /\ g[n] # h[n]
  OBVIOUS
<1>3. n # 0
  BY <1>2 DEF Gathers, GathersTo
<1>4. n - 1 \in 0..m /\ n \in 1..m /\ ~(n <= n - 1) /\ n \in 1..Len(P) /\ n \in 1..Len(R)
  BY <1>2, <1>3
<1>5. g[n - 1] = h[n - 1]
  BY <1>1, <1>4
<1>6. g[n] = g[n - 1] \o P[n] /\ h[n] = h[n - 1] \o R[n]
  BY <1>4 DEF Gathers, GathersTo
<1> QED BY <1>2, <1>4, <1>5, <1>6

\* Of three sequences it does not matter which two are joined first.
LEMMA JoinedTwice ==
  ASSUME NEW T
  PROVE  \A x, y, z \in Seq(T) : (x \o y) \o z = x \o (y \o z)
BY ConcatAssociative

\* They can be gathered,
LEMMA GathersExist ==
  ASSUME NEW T, NEW n \in Nat, NEW P, \A m \in 1..n : P[m] \in Seq(T)
  PROVE  \E g : GathersTo(g, P, T, n)
<1> DEFINE All == Seq(T)
           empty == <<>>
           step == [m \in 1..n |-> [x \in All |-> x \o P[m]]]
<1>1. step \in [1..n -> [All -> All]]
  <2>1. ASSUME NEW m \in 1..n, NEW x \in All PROVE x \o P[m] \in All
    <3> DEFINE y == P[m]
    <3>1. y \in Seq(T)
      OBVIOUS
    <3> HIDE DEF y
    <3>2. x \o y \in Seq(T)
      BY <3>1
    <3> QED BY <3>2 DEF y
  <2> HIDE DEF All
  <2>2. \A m \in 1..n : [x \in All |-> x \o P[m]] \in [All -> All]
    BY <2>1
  <2> QED BY <2>2
<1>2. \A m \in 1..n, x \in All : step[m][x] = x \o P[m]
  <2> HIDE DEF All
  <2> QED OBVIOUS
<1>3. empty \in All
  OBVIOUS
<1> HIDE DEF All, empty, step
<1>4. \A k \in Nat : \A st \in [1..k -> [All -> All]] :
        \E f \in [0..k -> All] : f[0] = empty /\ \A m \in 1..k : f[m] = st[m][f[m - 1]]
  BY <1>3, RecursionExists
<1>5. PICK f \in [0..n -> All] : f[0] = empty /\ \A m \in 1..n : f[m] = step[m][f[m - 1]]
  BY <1>1, <1>4
<1>6. \A m \in 1..n : f[m - 1] \in All
  <2>1. \A m \in 1..n : m - 1 \in 0..n
    OBVIOUS
  <2> QED BY <2>1
<1>7. \A m \in 1..n : f[m] = f[m - 1] \o P[m]
  BY <1>2, <1>5, <1>6
<1> QED BY <1>5, <1>7 DEF GathersTo, All, empty

\* in one way.
LEMMA GatheredWays ==
  ASSUME NEW T, NEW P, Len(P) \in Nat, \A m \in 1..Len(P) : P[m] \in Seq(T)
  PROVE  /\ \E g : Gathers(g, P, T)
         /\ \A g : Gathers(g, P, T) => Gathered(P, T) = g[Len(P)]
         /\ Gathered(P, T) \in Seq(T)
<1> DEFINE N == Len(P)
           All == Seq(T)
<1>1. N \in Nat /\ \A m \in 1..N : P[m] \in All
  OBVIOUS
<1>2. \E g : Gathers(g, P, T)
  BY GathersExist DEF Gathers
<1> DEFINE h == CHOOSE g : Gathers(g, P, T)
<1>3. Gathers(h, P, T)
  <2> HIDE DEF Gathers
  <2> QED BY <1>2
<1>4. Gathered(P, T) = h[N]
  BY DEF Gathered
<1> HIDE DEF h
<1>5. ASSUME NEW g, Gathers(g, P, T) PROVE h[N] = g[N]
  <2>1. N <= Len(P) /\ N \in 0..N
    BY <1>1
  <2> QED BY <1>1, <1>3, <1>5, <2>1, GathersAlike
<1>6. h[N] \in Seq(T)
  BY <1>1, <1>3 DEF Gathers, GathersTo
<1> QED BY <1>2, <1>4, <1>5, <1>6

\* So what is gathered is one sequence.
LEMMA GatheredOnce ==
  ASSUME NEW T, NEW P \in Lists(T)
  PROVE  /\ \E g : Gathers(g, P, T)
         /\ \A g : Gathers(g, P, T) => Gathered(P, T) = g[Len(P)]
         /\ Gathered(P, T) \in Seq(T)
<1>1. Len(P) \in Nat /\ \A m \in 1..Len(P) : P[m] \in Seq(T)
  BY DEF Lists
<1> QED BY <1>1, GatheredWays

\* None gathered are none,
LEMMA GatheredNone == ASSUME NEW T PROVE Gathered(<<>>, T) = <<>>
<1>1. <<>> \in Lists(T) /\ Len(<<>>) = 0
  BY DEF Lists
<1>2. PICK g : Gathers(g, <<>>, T)
  BY <1>1, GatheredOnce
<1>3. Gathered(<<>>, T) = g[0]
  BY <1>1, <1>2, GatheredOnce
<1> QED BY <1>2, <1>3 DEF Gathers, GathersTo

\* one more is behind the others,
LEMMA GatheredAppend ==
  ASSUME NEW T, NEW P \in Lists(T), NEW v \in Seq(T)
  PROVE  Gathered(Append(P, v), T) = Gathered(P, T) \o v
<1> DEFINE R == Append(P, v)
           N == Len(P)
<1>1. R \in Lists(T) /\ Len(R) = N + 1 /\ N \in Nat /\ R[N + 1] = v /\ \A i \in 1..N : R[i] = P[i]
  <2>1. R \in Lists(T) /\ Len(R) = N + 1 /\ N \in Nat /\ R[N + 1] = v
    BY DEF Lists
  <2>2. \A i \in 1..N : R[i] = P[i]
    BY DEF Lists
  <2> QED BY <2>1, <2>2
<1> HIDE DEF R
<1>2. PICK g : Gathers(g, P, T)
  BY GatheredOnce
<1>3. PICK h : Gathers(h, R, T)
  BY <1>1, GatheredOnce
<1>4. Gathered(P, T) = g[N] /\ Gathered(R, T) = h[N + 1]
  BY <1>1, <1>2, <1>3, GatheredOnce
<1>5. g[N] = h[N]
  <2>1. N <= Len(P) /\ N <= Len(R) /\ Len(R) \in Nat /\ N \in 0..N /\ \A i \in 1..N : P[i] = R[i]
    BY <1>1
  <2>2. \A n \in 0..N : g[n] = h[n]
    <3>1. \A m \in Nat : m <= Len(P) /\ m <= Len(R) /\ (\A i \in 1..m : P[i] = R[i])
            => \A n \in 0..m : g[n] = h[n]
      BY <1>1, <1>2, <1>3, <2>1, GathersAlike
    <3> QED BY <1>1, <2>1, <3>1
  <2> QED BY <2>1, <2>2
<1>6. h[N + 1] = h[N] \o v
  <2>1. N + 1 \in 1..Len(R) /\ (N + 1) - 1 = N
    BY <1>1
  <2> QED BY <1>1, <1>3, <2>1 DEF Gathers, GathersTo
<1> QED BY <1>4, <1>5, <1>6 DEF R

\* and the first is before the others.
LEMMA GatheredTail ==
  ASSUME NEW T, NEW P \in Lists(T), P # <<>>
  PROVE  Gathered(P, T) = P[1] \o Gathered(Tail(P), T)
<1> DEFINE R == Tail(P)
           N == Len(P)
           x == P[1]
<1>1. /\ R \in Lists(T) /\ Len(R) = N - 1 /\ N \in Nat \ {0} /\ x \in Seq(T)
      /\ \A i \in 1..N - 1 : R[i] = P[i + 1]
      /\ \A i \in 1..N - 1 : R[i] \in Seq(T)
  <2>1. R \in Lists(T) /\ Len(R) = N - 1 /\ N \in Nat \ {0} /\ x \in Seq(T)
    BY DEF Lists
  <2>2. \A i \in 1..N - 1 : R[i] = P[i + 1]
    BY DEF Lists
  <2> HIDE DEF R
  <2>3. \A i \in 1..N - 1 : R[i] \in Seq(T)
    BY <2>1 DEF Lists
  <2> QED BY <2>1, <2>2, <2>3
<1>2. PICK g : Gathers(g, P, T)
  BY GatheredOnce
<1> HIDE DEF R, N, x
<1>3. PICK h : Gathers(h, R, T)
  BY <1>1, GatheredOnce
<1>4. Gathered(P, T) = g[N] /\ Gathered(R, T) = h[N - 1]
  BY <1>1, <1>2, <1>3, GatheredOnce DEF N
<1>5. \A a, b, c \in Seq(T) : (a \o b) \o c = a \o (b \o c)
  BY JoinedTwice
<1> DEFINE differ == {n \in 0..N - 1 : g[n + 1] # x \o h[n]}
<1>6. differ = {}
  <2> SUFFICES ASSUME differ # {} PROVE FALSE
    OBVIOUS
  <2>1. PICK n \in differ : \A k \in differ : n <= k
    <3>1. differ \in SUBSET Nat
      BY <1>1
    <3> HIDE DEF differ
    <3> QED BY <3>1, MinIsLeast
  <2>2. n \in 0..N - 1 /\ g[n + 1] # x \o h[n]
    OBVIOUS
  <2>3. \A k \in 1..N : g[k] = g[k - 1] \o P[k]
    BY <1>2 DEF Gathers, GathersTo, N
  <2>4. g[0] = <<>> /\ h[0] = <<>>
    BY <1>2, <1>3 DEF Gathers, GathersTo
  <2>5. CASE n = 0
    <3>1. 1 \in 1..N /\ 1 - 1 = 0 /\ n + 1 = 1
      BY <1>1, <2>5
    <3>2. g[1] = <<>> \o x
      BY <2>3, <2>4, <3>1 DEF x
    <3>3. <<>> \o x = x /\ x \o <<>> = x
      BY <1>1, ConcatEmptySeq
    <3> QED BY <2>2, <2>4, <2>5, <3>1, <3>2, <3>3
  <2>6. CASE n # 0
    <3>1. /\ n - 1 \in 0..N - 1 /\ ~(n <= n - 1) /\ (n - 1) + 1 = n
          /\ n \in 1..N - 1 /\ n + 1 \in 1..N /\ (n + 1) - 1 = n
      BY <1>1, <2>2, <2>6
    <3>2. g[n] = x \o h[n - 1]
      <4>1. n - 1 \notin differ
        <5> HIDE DEF differ
        <5> QED BY <2>1, <3>1
      <4> QED BY <3>1, <4>1
    <3>3. g[n + 1] = g[n] \o P[n + 1]
      BY <2>3, <3>1
    <3>4. h[n] = h[n - 1] \o R[n] /\ h[n - 1] \in Seq(T)
      BY <1>1, <1>3, <3>1 DEF Gathers, GathersTo
    <3>5. R[n] = P[n + 1] /\ R[n] \in Seq(T)
      BY <1>1, <3>1
    <3>6. (x \o h[n - 1]) \o R[n] = x \o (h[n - 1] \o R[n])
      <4> DEFINE y == h[n - 1]
                 z == R[n]
      <4>1. x \in Seq(T) /\ y \in Seq(T) /\ z \in Seq(T)
        BY <1>1, <3>4, <3>5
      <4> DEFINE Q == Seq(T)
      <4>2. x \in Q /\ y \in Q /\ z \in Q
        BY <4>1
      <4>3. \A a, b, c \in Q : (a \o b) \o c = a \o (b \o c)
        BY <1>5
      <4> HIDE DEF y, z, differ, Q
      <4>4. (x \o y) \o z = x \o (y \o z)
        BY <4>2, <4>3, Zenon
      <4> QED BY <4>4 DEF y, z
    <3> QED BY <2>2, <3>2, <3>3, <3>4, <3>5, <3>6
  <2> QED BY <2>5, <2>6
<1>7. g[N] = x \o h[N - 1]
  <2>1. N - 1 \in 0..N - 1 /\ (N - 1) + 1 = N
    BY <1>1
  <2> QED BY <1>6, <2>1
<1> QED BY <1>4, <1>7 DEF R, x

\* What is gathered is in one of them.
LEMMA GatheredMembers ==
  ASSUME NEW T, NEW P \in Lists(T), NEW x \in ToSet(Gathered(P, T))
  PROVE  \E i \in 1..Len(P) : x \in ToSet(P[i])
<1> DEFINE N == Len(P)
<1>1. N \in Nat /\ \A i \in 1..N : P[i] \in Seq(T)
  BY DEF Lists
<1>2. PICK g : Gathers(g, P, T)
  BY GatheredOnce
<1>3. /\ g \in [0..N -> Seq(T)] /\ g[0] = <<>>
      /\ \A n \in 1..N : g[n] = g[n - 1] \o P[n]
      /\ Gathered(P, T) = g[N]
  BY <1>2, GatheredOnce DEF Gathers, GathersTo
<1> HIDE DEF N
<1> DEFINE has == {n \in 0..N : x \in ToSet(g[n])}
<1>4. has # {}
  <2>1. N \in 0..N
    BY <1>1
  <2> QED BY <1>3, <2>1
<1>5. PICK n \in has : \A k \in has : n <= k
  <2>1. has \in SUBSET Nat
    OBVIOUS
  <2> HIDE DEF has
  <2> QED BY <1>4, <2>1, MinIsLeast
<1>6. n \in 0..N /\ x \in ToSet(g[n]) /\ n # 0
  <2>1. ToSet(<<>>) = {}
    BY DEF ToSet
  <2> QED BY <1>3, <2>1
<1>7. n - 1 \in 0..N /\ n \in 1..N /\ ~(n <= n - 1)
  BY <1>1, <1>6
<1>8. x \notin ToSet(g[n - 1])
  <2>1. n - 1 \notin has
    <3> HIDE DEF has
    <3> QED BY <1>5, <1>7
  <2> QED BY <1>7, <2>1
<1> DEFINE a == g[n - 1]
           b == P[n]
<1>9. a \in Seq(T) /\ b \in Seq(T) /\ g[n] = a \o b
  BY <1>1, <1>3, <1>7
<1> HIDE DEF a, b
<1>10. ToSet(g[n]) = ToSet(a) \cup ToSet(b)
  BY <1>9, JoinedOnce
<1>11. x \in ToSet(b)
  BY <1>6, <1>8, <1>10 DEF a
<1> QED BY <1>7, <1>11 DEF b, N

\* The links of a list at whose end something new is put.
LEMMA FollowsAppended ==
  ASSUME NEW T, NEW r \in Seq(T), EachOnce(r), NEW nil, nil \notin T,
         NEW link, NEW new, NEW a, NEW b, NEW x \in T, x \notin ToSet(r), Follows(link, a, r, nil),
         b = IF r = <<>> THEN x ELSE a,
         \A y \in T : new[y] = IF y = x THEN nil
                               ELSE IF r # <<>> /\ y = r[Len(r)] THEN x ELSE link[y]
  PROVE  Follows(new, b, Append(r, x), nil)
<1> DEFINE q == Append(r, x)
<1>1. /\ q \in Seq(T) /\ Len(q) = Len(r) + 1 /\ q # <<>> /\ Len(r) \in Nat
      /\ q[Len(r) + 1] = x /\ \A i \in 1..Len(r) : q[i] = r[i] /\ r[i] \in T
  <2>1. q \in Seq(T) /\ Len(q) = Len(r) + 1 /\ q # <<>> /\ Len(r) \in Nat
    OBVIOUS
  <2>2. q[Len(r) + 1] = x /\ \A i \in 1..Len(r) : q[i] = r[i]
    OBVIOUS
  <2>3. \A i \in 1..Len(r) : r[i] \in T
    OBVIOUS
  <2> QED BY <2>1, <2>2, <2>3
<1>2. \A i \in 1..Len(r) : r[i] # x /\ link[r[i]] = IF i = Len(r) THEN nil ELSE r[i + 1]
  BY DEF Follows, ToSet
<1>3. \A i \in 1..Len(r) : r[i] = r[Len(r)] => i = Len(r)
  BY <1>1 DEF EachOnce
<1>4. a = IF r = <<>> THEN nil ELSE r[1]
  BY DEF Follows
<1> HIDE DEF q
<1>5. b = q[1]
  <2>1. CASE r = <<>>
    BY <1>1, <2>1
  <2>2. CASE r # <<>>
    BY <1>1, <1>4, <2>2
  <2> QED BY <2>1, <2>2
<1>6. ASSUME NEW i \in 1..Len(q) PROVE new[q[i]] = IF i = Len(q) THEN nil ELSE q[i + 1]
  <2>1. CASE i = Len(r) + 1
    BY <1>1, <2>1
  <2>2. CASE i = Len(r)
    BY <1>1, <1>2, <2>2
  <2>3. CASE i < Len(r)
    <3>1. i \in 1..Len(r) /\ i + 1 \in 1..Len(r) /\ i # Len(r) /\ i # Len(q) /\ r # <<>>
      BY <1>1, <2>3
    <3>2. new[r[i]] = link[r[i]]
      BY <1>1, <1>2, <1>3, <3>1
    <3> QED BY <1>1, <1>2, <3>1, <3>2
  <2> QED BY <1>1, <2>1, <2>2, <2>3
<1> QED BY <1>1, <1>5, <1>6 DEF Follows, q

\* Sequences without an element in common, each with an element once.
LEMMA OneListEach ==
  ASSUME NEW T, NEW chains \in Seq(Seq(T)), \A i \in DOMAIN chains : EachOnce(chains[i]),
         \A i, j \in DOMAIN chains : i # j => ToSet(chains[i]) \cap ToSet(chains[j]) = {}
  PROVE  \A i, j \in DOMAIN chains : \A m \in DOMAIN chains[i], n \in DOMAIN chains[j] :
            chains[i][m] = chains[j][n] => i = j /\ m = n
<1> SUFFICES ASSUME NEW i \in DOMAIN chains, NEW j \in DOMAIN chains,
                    NEW m \in DOMAIN chains[i], NEW n \in DOMAIN chains[j],
                    chains[i][m] = chains[j][n]
             PROVE  i = j /\ m = n
  OBVIOUS
<1>1. chains[i][m] \in ToSet(chains[i]) /\ chains[j][n] \in ToSet(chains[j])
  BY DEF ToSet
<1>2. i = j
  BY <1>1
<1>3. chains[i] \in Seq(T)
  OBVIOUS
<1> DEFINE s == chains[i]
<1>4. s \in Seq(T) /\ EachOnce(s) /\ m \in DOMAIN s /\ n \in DOMAIN s /\ s[m] = s[n]
  BY <1>2, <1>3
<1> HIDE DEF s
<1>5. m \in 1..Len(s) /\ n \in 1..Len(s)
  BY <1>4
<1>6. m = n
  BY <1>4, <1>5 DEF EachOnce
<1> QED BY <1>2, <1>6

\* The links from an element of a list on are those of the rest of it.
LEMMA FollowsRest ==
  ASSUME NEW T, NEW s \in Seq(T), EachOnce(s), NEW link, NEW a, NEW nil, Follows(link, a, s, nil),
         NEW k \in 1..Len(s)
  PROVE  \E r \in Seq(T) : /\ EachOnce(r) /\ Follows(link, s[k], r, nil)
                           /\ ToSet(r) \subseteq ToSet(s)
<1> DEFINE r == [i \in 1..Len(s) - (k - 1) |-> s[i + (k - 1)]]
           m == Len(s) - (k - 1)
<1>1. Len(s) \in Nat /\ m \in Nat \ {0} /\ k \in 1..Len(s)
  OBVIOUS
<1>2. \A i \in 1..m : i + (k - 1) \in 1..Len(s)
  BY <1>1
<1>3. \A i \in 1..Len(s) : s[i] \in T
  OBVIOUS
<1>4. r \in Seq(T) /\ Len(r) = m /\ \A i \in 1..m : r[i] = s[i + (k - 1)]
  <2>1. r \in [1..m -> T]
    BY <1>2, <1>3
  <2>2. r \in Seq(T) /\ Len(r) = m
    <3> HIDE DEF r, m
    <3> QED BY <1>1, <2>1
  <2> QED BY <2>2
<1> HIDE DEF r
<1>5. EachOnce(r)
  <2>1. ASSUME NEW i \in 1..m, NEW j \in 1..m, r[i] = r[j] PROVE i = j
    <3> DEFINE x == i + (k - 1)
               y == j + (k - 1)
    <3>1. s[x] = s[y] /\ x \in 1..Len(s) /\ y \in 1..Len(s)
      BY <1>2, <1>4, <2>1
    <3>2. x = y
      <4> HIDE DEF x, y
      <4> QED BY <3>1 DEF EachOnce
    <3> QED BY <1>1, <3>2
  <2>2. Len(r) = m
    BY <1>4
  <2> HIDE DEF m
  <2> QED BY <2>1, <2>2 DEF EachOnce
<1>6. ToSet(r) \subseteq ToSet(s)
  <2>1. DOMAIN r = 1..m /\ DOMAIN s = 1..Len(s)
    BY <1>4
  <2>2. \A i \in DOMAIN r : \E j \in DOMAIN s : r[i] = s[j]
    <3> HIDE DEF m
    <3> QED BY <1>2, <1>4, <2>1
  <2> QED BY <2>2 DEF ToSet
<1>7. r # <<>> /\ r[1] = s[k]
  <2>1. 1 \in 1..m /\ 1 + (k - 1) = k
    BY <1>1
  <2> QED BY <1>1, <1>4, <2>1
<1>8. ASSUME NEW i \in 1..m PROVE link[r[i]] = IF i = m THEN nil ELSE r[i + 1]
  <2>1. link[s[i + (k - 1)]] = IF i + (k - 1) = Len(s) THEN nil ELSE s[(i + (k - 1)) + 1]
    BY <1>2 DEF Follows
  <2>2. i = m <=> i + (k - 1) = Len(s)
    BY <1>1
  <2>3. (i + (k - 1)) + 1 = (i + 1) + (k - 1) /\ (i # m => i + 1 \in 1..m)
    BY <1>1
  <2> HIDE DEF m
  <2> QED BY <1>4, <2>1, <2>2, <2>3
<1> HIDE DEF m
<1> QED BY <1>4, <1>5, <1>6, <1>7, <1>8 DEF Follows

\* What stays when the first element is taken.
LEMMA TailFacts ==
  ASSUME NEW E, NEW t \in Seq(E), t # <<>>
  PROVE  LET u == Tail(t)
         IN  /\ u \in Seq(E) /\ Len(t) \in Nat \ {0} /\ Len(u) = Len(t) - 1
             /\ DOMAIN t = 1..Len(t) /\ DOMAIN u = 1..Len(u)
             /\ \A k \in 1..Len(u) : k + 1 \in 1..Len(t) /\ u[k] = t[k + 1]
             /\ \A k \in 2..Len(t) : k - 1 \in 1..Len(u) /\ t[k] = u[k - 1]
             /\ 1 \in 1..Len(t) /\ Head(t) = t[1] /\ t[1] \in E
             /\ \A k \in 1..Len(t) : \A S : Later(u, k, S) = Later(t, k + 1, S)
             /\ \A S : Later(t, 1, S) = Later(u, 1, S) + One(t[1] \in S)
<1> DEFINE u == Tail(t)
<1>1. u \in Seq(E) /\ Len(t) \in Nat \ {0} /\ Len(u) = Len(t) - 1
  OBVIOUS
<1>2. DOMAIN t = 1..Len(t) /\ DOMAIN u = 1..Len(u)
  OBVIOUS
<1>3. \A k \in 1..Len(u) : u[k] = t[k + 1]
  OBVIOUS
<1>4. Head(t) = t[1] /\ t[1] \in E
  OBVIOUS
<1>5. ASSUME NEW k \in 1..Len(t), NEW S PROVE Later(u, k, S) = Later(t, k + 1, S)
  BY LaterOfTail
<1> HIDE DEF u
<1>6. \A k \in 1..Len(u) : k + 1 \in 1..Len(t) /\ u[k] = t[k + 1]
  BY <1>1, <1>3
<1>7. \A k \in 2..Len(t) : k - 1 \in 1..Len(u) /\ t[k] = u[k - 1]
  BY <1>1, <1>3
<1>8. ASSUME NEW S PROVE Later(t, 1, S) = Later(u, 1, S) + One(t[1] \in S)
  <2>1. 1 \in 1..Len(t)
    BY <1>1
  <2>2. Later(t, 1, S) = Later(t, 1 + 1, S) + One(t[1] \in S)
    BY <2>1, LaterOfHead
  <2>3. Later(u, 1, S) = Later(t, 1 + 1, S)
    BY <1>5, <2>1
  <2> QED BY <2>2, <2>3
<1>9. 1 \in 1..Len(t)
  BY <1>1
<1> QED BY <1>1, <1>2, <1>4, <1>5, <1>6, <1>7, <1>8, <1>9 DEF u

\* What there is with one element more.
More(E, u, t, x) ==
  /\ u \in Seq(E) /\ Len(t) \in Nat /\ Len(u) = Len(t) + 1
  /\ DOMAIN t = 1..Len(t) /\ DOMAIN u = 1..Len(u) /\ u[Len(u)] = x
  /\ \A k \in 1..Len(t) : u[k] = t[k]
  /\ \A k \in 1..Len(t) + 1 : \A S : x \notin S => Later(u, k, S) = Later(t, k, S)
  /\ \A k \in 1..Len(t) + 1 : \A S : x \in S => Later(u, k, S) = Later(t, k, S) + 1
  /\ 1 \in 1..Len(t) + 1

\* A sequence with an element appended is one.
LEMMA OneMore ==
  ASSUME NEW E, NEW t \in Seq(E), NEW x \in E, NEW u, u = Append(t, x)
  PROVE  More(E, u, t, x)
<1>1. /\ u \in Seq(E) /\ Len(t) \in Nat /\ Len(u) = Len(t) + 1
      /\ DOMAIN t = 1..Len(t) /\ DOMAIN u = 1..Len(u) /\ u[Len(u)] = x
      /\ \A k \in 1..Len(t) : u[k] = t[k]
  OBVIOUS
<1>2. \A k \in 1..Len(t) + 1 : \A S : Later(u, k, S) = Later(t, k, S) + One(x \in S)
  BY LaterAppended
<1>3. \A k \in 1..Len(t) + 1 : k \in Nat
  BY <1>1
<1>4. \A k \in 1..Len(t) + 1 : \A S : Later(t, k, S) \in Nat
  BY <1>3, LaterIsCount
<1>5. ASSUME NEW k \in 1..Len(t) + 1, NEW S, x \notin S PROVE Later(u, k, S) = Later(t, k, S)
  <2>1. Later(u, k, S) = Later(t, k, S) + 0
    <3>1. One(x \in S) = 0
      BY <1>5 DEF One
    <3> QED BY <1>2, <3>1
  <2> QED BY <1>4, <2>1
<1>6. ASSUME NEW k \in 1..Len(t) + 1, NEW S, x \in S PROVE Later(u, k, S) = Later(t, k, S) + 1
  <2>1. One(x \in S) = 1
    BY <1>6 DEF One
  <2> QED BY <1>2, <2>1
<1>7. 1 \in 1..Len(t) + 1
  BY <1>1
<1> QED BY <1>1, <1>5, <1>6, <1>7 DEF More

\* The sequences of at most m elements, as a union of sets of functions.
LEMMA BoundedIs ==
  ASSUME NEW E, NEW m \in Nat, NEW B, B = UNION {[1..n -> E] : n \in 0..m}
  PROVE  \A q : q \in B <=> q \in Seq(E) /\ Len(q) <= m
<1>1. ASSUME NEW q \in B PROVE q \in Seq(E) /\ Len(q) <= m
  <2>1. PICK n \in 0..m : q \in [1..n -> E]
    OBVIOUS
  <2> QED BY <2>1
<1>2. ASSUME NEW q \in Seq(E), Len(q) <= m PROVE q \in B
  <2>1. q \in [1..Len(q) -> E] /\ Len(q) \in 0..m
    BY <1>2
  <2> QED BY <2>1
<1> QED BY <1>1, <1>2

\* Such a sequence stays one when an element is added, if there is room, or taken.
LEMMA BoundedFacts ==
  ASSUME NEW E, NEW m \in Nat, NEW B, \A q : q \in B <=> q \in Seq(E) /\ Len(q) <= m,
         NEW s \in B
  PROVE  /\ s \in Seq(E) /\ Len(s) <= m /\ <<>> \in B
         /\ \A e \in E : Len(s) < m => Append(s, e) \in B
         /\ s # <<>> => Tail(s) \in B
<1>1. s \in Seq(E) /\ Len(s) <= m
  OBVIOUS
<1>2. <<>> \in B
  <2>1. <<>> \in Seq(E) /\ Len(<<>>) <= m
    OBVIOUS
  <2> QED BY <2>1, Zenon
<1>3. ASSUME NEW e \in E, Len(s) < m PROVE Append(s, e) \in B
  <2>1. Append(s, e) \in Seq(E) /\ Len(Append(s, e)) <= m
    BY <1>1, <1>3
  <2> QED BY <2>1, Zenon
<1>4. ASSUME s # <<>> PROVE Tail(s) \in B
  <2>1. Tail(s) \in Seq(E) /\ Len(Tail(s)) <= m
    BY <1>1, <1>4
  <2> QED BY <2>1, Zenon
<1> QED BY <1>1, <1>2, <1>3, <1>4
=============================================================================
