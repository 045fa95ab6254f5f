--------------------- MODULE SequentialExercisesProofs ---------------------
(***************************************************************************)
(* The sequential programs of the course, for inputs of any size: the      *)
(* linked list and the cache of hw04 implement what they promise, the file *)
(* copy of hw07 is faithful, the envdir tool of hw08 gives the command its *)
(* environment and the validator of hw09 reports every failure.            *)
(***************************************************************************)
EXTENDS SequentialExercises, SequenceTheorems, FiniteSetTheorems, FunctionTheorems,
        NaturalsInduction, WellFoundedInduction, TLAPS

(* Numbers and sequences.                                                   *)

LEMMA LeastOf ==
    ASSUME NEW S, S \subseteq Nat, S # {}
    PROVE  \E m \in S : \A n \in S : m <= n
<1>1. PICK m \in S : \A n \in S : ~(<<n, m>> \in OpToRel(<, Nat))
    BY NatLessThanWellFounded, WFMin
<1>2. \A n \in S : ~(n < m)
    BY <1>1 DEF OpToRel
<1> QED
    BY <1>2

LEMMA GreatestOf ==
    ASSUME NEW k \in Nat, NEW S, S \subseteq 0..k, S # {}
    PROVE  \E m \in S : \A n \in S : n <= m
<1> DEFINE T == {i \in Nat : k - i \in S}
<1>1. \A n \in S : n \in 0..k /\ k - n \in Nat /\ k - (k - n) = n
    OBVIOUS
<1>2. \A n \in S : k - n \in T
    BY <1>1
<1>3. T \subseteq Nat /\ T # {}
    BY <1>2
<1>4. PICK m \in T : \A n \in T : m <= n
    <2> HIDE DEF T
    <2> QED
        BY <1>3, LeastOf
<1>5. \A n \in S : m <= k - n
    BY <1>2, <1>4
<1>6. k - m \in S /\ m \in Nat
    BY <1>4
<1>7. \A n \in S : n <= k - m
    BY <1>1, <1>5, <1>6
<1> QED
    BY <1>6, <1>7

LEMMA SeqOfElements ==
    ASSUME NEW S, NEW s \in Seq(S), NEW T, \A i \in 1..Len(s) : s[i] \in T
    PROVE  s \in Seq(T)
<1>1. PICK m \in Nat : m = Len(s)
    OBVIOUS
<1>2. s \in [1..m -> T]
    BY <1>1, LenProperties
<1> QED
    BY <1>2, SeqDef

LEMMA LastElement ==
    ASSUME NEW S, NEW s \in Seq(S), s # <<>>
    PROVE  s[Len(s)] \in S
<1>1. Len(s) \in 1..Len(s)
    OBVIOUS
<1> QED
    BY <1>1

-----------------------------------------------------------------------------
(* hw04: what the pointers of the linked list represent.                    *)

\* The item at a place of a sequence, Nil outside of it.
At(s, n) == IF n \in 1..Len(s) THEN s[n] ELSE Nil

Distinct(s) == \A m, n \in 1..Len(s) : s[m] = s[n] => m = n

\* The pointers step lead along the sequence.
Leads(step, s) == \A n \in 1..Len(s) : step[s[n]] = At(s, n + 1)
LeadsBack(step, s) == \A n \in 1..Len(s) : step[s[n]] = At(s, n - 1)

Represents(l, s) ==
    /\ s \in Seq(Items) /\ Distinct(s)
    /\ l = [length |-> l.length, front |-> l.front, back |-> l.back, next |-> l.next, prev |-> l.prev]
    /\ l.next \in [Items -> Items \cup {Nil}] /\ l.prev \in [Items -> Items \cup {Nil}]
    /\ l.length = Len(s) /\ l.front = At(s, 1) /\ l.back = At(s, Len(s))
    /\ Leads(l.next, s) /\ LeadsBack(l.prev, s)
    /\ \A i \in Items : (\A n \in 1..Len(s) : s[n] # i) => l.next[i] = Nil /\ l.prev[i] = Nil

\* A sequence without repetition is not longer than there are items.
LEMMA DistinctIsShort ==
    ASSUME NEW s \in Seq(Items), Distinct(s)
    PROVE  /\ Len(s) \in Nat /\ Cardinality(Items) \in Nat /\ Len(s) <= Cardinality(Items)
           /\ Cardinality(1..Len(s)) = Len(s)
<1>1. Len(s) \in Nat /\ s \in [1..Len(s) -> Items]
    BY LenProperties
<1>2. s \in Injection(1..Len(s), Items)
    BY <1>1 DEF Distinct, Injection, IsInjective
<1>3. Cardinality(1..Len(s)) <= Cardinality(Items)
    BY <1>2, FS_Injection, ListAssumption
<1>4. Cardinality(1..Len(s)) = Len(s)
    BY <1>1, FS_Interval
<1> QED
    BY <1>1, <1>3, <1>4, FS_CardinalityType, ListAssumption

\* Following the pointers that lead along a sequence yields that sequence.
LEMMA WalkIs ==
    ASSUME NEW s \in Seq(Items), Distinct(s), NEW step, Leads(step, s)
    PROVE  Walk(At(s, 1), step) = s
<1> DEFINE N == Cardinality(Items) + 1
           onward == [i \in Items \cup {Nil} |-> IF i = Nil THEN Nil ELSE step[i]]
           Turn(f) == [n \in 1..N |-> IF n = 1 THEN At(s, 1) ELSE onward[f[n - 1]]]
           at == CHOOSE f : f = Turn(f)
           w == [n \in 1..N |-> At(s, n)]
<1>1. Len(s) \in Nat /\ N \in Nat /\ Len(s) + 1 <= N
    BY DistinctIsShort
<1>2. \A n \in 1..Len(s) : s[n] \in Items /\ s[n] # Nil
    BY ListAssumption
<1> HIDE DEF N
<1>3. ASSUME NEW n \in 1..N, n # 1
      PROVE  n - 1 \in 1..N /\ onward[At(s, n - 1)] = At(s, n)
    <2>1. n - 1 \in 1..N /\ (n - 1) + 1 = n
        BY <1>1, <1>3
    <2>2. CASE n - 1 \in 1..Len(s)
        <3>1. At(s, n - 1) = s[n - 1] /\ At(s, n - 1) \in Items /\ At(s, n - 1) # Nil
            BY <1>2, <2>2 DEF At
        <3>2. onward[At(s, n - 1)] = step[s[n - 1]]
            BY <3>1
        <3>3. step[s[n - 1]] = At(s, (n - 1) + 1)
            BY <2>2 DEF Leads
        <3> QED
            BY <2>1, <3>2, <3>3
    <2>3. CASE n - 1 \notin 1..Len(s)
        <3>1. n \notin 1..Len(s)
            BY <1>1, <1>3, <2>1, <2>3
        <3> QED
            BY <2>1, <2>3, <3>1 DEF At
    <2> QED
        BY <2>1, <2>2, <2>3
<1>4. w = Turn(w)
    <2>1. ASSUME NEW n \in 1..N
          PROVE  At(s, n) = IF n = 1 THEN At(s, 1) ELSE onward[w[n - 1]]
        BY <1>3
    <2> QED
        BY <2>1
<1>5. at = Turn(at)
    <2> HIDE DEF Turn, w
    <2> QED
        BY <1>4
<1> HIDE DEF at
<1>6. \A n \in 1..N : at[n] = IF n = 1 THEN At(s, 1) ELSE onward[at[n - 1]]
    BY <1>5
<1> HIDE DEF onward
<1>7. \A n \in 1..N : at[n] = At(s, n)
    <2> DEFINE wrong == {n \in 1..N : at[n] # At(s, n)}
    <2>1. SUFFICES ASSUME wrong # {} PROVE FALSE
        OBVIOUS
    <2>2. wrong \subseteq Nat
        BY <1>1
    <2>3. PICK m \in wrong : \A n \in wrong : m <= n
        <3> HIDE DEF wrong
        <3> QED
            BY <2>1, <2>2, LeastOf
    <2>4. m \in 1..N /\ m # 1
        BY <1>1, <1>6, <2>3
    <2>5. m - 1 \in 1..N /\ m - 1 \notin wrong
        BY <1>1, <2>3, <2>4
    <2>6. at[m - 1] = At(s, m - 1)
        BY <2>5
    <2>7. at[m] = At(s, m)
        BY <1>3, <1>6, <2>4, <2>6
    <2> QED
        BY <2>3, <2>7
<1>8. {m \in DOMAIN at : at[m] # Nil} = 1..Len(s)
    <2>1. DOMAIN at = 1..N
        BY <1>5
    <2>2. \A m \in 1..N : at[m] # Nil <=> m \in 1..Len(s)
        BY <1>2, <1>7 DEF At
    <2>3. \A m \in 1..Len(s) : m \in 1..N
        BY <1>1
    <2> QED
        BY <2>1, <2>2, <2>3
<1>9. Cardinality(1..Len(s)) = Len(s)
    BY DistinctIsShort
<1>10. Walk(At(s, 1), step) = [n \in 1..Cardinality({m \in DOMAIN at : at[m] # Nil}) |-> at[n]]
    BY DEF Walk, at, N, onward
<1>11. Walk(At(s, 1), step) = [n \in 1..Len(s) |-> s[n]]
    <2>1. \A n \in 1..Len(s) : n \in 1..N /\ at[n] = s[n]
        BY <1>1, <1>7 DEF At
    <2> QED
        BY <1>8, <1>9, <1>10, <2>1
<1> QED
    BY <1>11, LenProperties

LEMMA ForwardIs ==
    ASSUME NEW l, NEW s, Represents(l, s)
    PROVE  Forward(l) = s /\ ItemsOf(l) = {s[n] : n \in 1..Len(s)}
<1>1. Forward(l) = s
    BY WalkIs DEF Represents, Forward
<1> QED
    BY <1>1 DEF ItemsOf

Pushed(i, s) == <<i>> \o s
Dropped(s, k) == [n \in 1..(Len(s) - 1) |-> s[IF n < k THEN n ELSE n + 1]]

LEMMA PushedIs ==
    ASSUME NEW S, NEW s \in Seq(S), NEW i \in S
    PROVE  /\ Pushed(i, s) \in Seq(S) /\ Len(Pushed(i, s)) = Len(s) + 1 /\ Len(s) \in Nat
           /\ Pushed(i, s)[1] = i /\ \A n \in 1..Len(s) : Pushed(i, s)[n + 1] = s[n]
<1>1. <<i>> \in Seq(S) /\ Len(<<i>>) = 1 /\ <<i>>[1] = i /\ Len(s) \in Nat
    OBVIOUS
<1>2. /\ Pushed(i, s) \in Seq(S) /\ Len(Pushed(i, s)) = Len(s) + 1
      /\ \A n \in 1..(1 + Len(s)) : Pushed(i, s)[n] = IF n <= 1 THEN <<i>>[n] ELSE s[n - 1]
    BY <1>1, ConcatProperties DEF Pushed
<1>3. ASSUME NEW n \in 1..Len(s) PROVE Pushed(i, s)[n + 1] = s[n]
    <2>1. n + 1 \in 1..(1 + Len(s)) /\ ~(n + 1 <= 1) /\ (n + 1) - 1 = n
        BY <1>1
    <2> QED
        BY <1>2, <2>1
<1>4. 1 \in 1..(1 + Len(s))
    BY <1>1
<1> QED
    BY <1>1, <1>2, <1>3, <1>4

LEMMA DroppedIs ==
    ASSUME NEW S, NEW s \in Seq(S), NEW k \in 1..Len(s)
    PROVE  /\ Dropped(s, k) \in Seq(S) /\ Len(Dropped(s, k)) = Len(s) - 1
           /\ Len(s) \in Nat /\ Len(s) - 1 \in Nat
           /\ \A n \in 1..(Len(s) - 1) :
                 /\ n \in 1..Len(s) /\ n + 1 \in 1..Len(s)
                 /\ Dropped(s, k)[n] = s[IF n < k THEN n ELSE n + 1]
<1>1. PICK m \in Nat : m = Len(s) - 1
    OBVIOUS
<1>2. \A n \in 1..m : n \in 1..Len(s) /\ n + 1 \in 1..Len(s)
    BY <1>1
<1>3. \A n \in 1..m : s[IF n < k THEN n ELSE n + 1] \in S
    BY <1>2
<1>4. Dropped(s, k) = [n \in 1..m |-> s[IF n < k THEN n ELSE n + 1]]
    BY <1>1 DEF Dropped
<1> DEFINE t == Dropped(s, k)
<1> HIDE DEF t
<1>5. t \in [1..m -> S]
    BY <1>3, <1>4 DEF t
<1>6. t \in Seq(S)
    BY <1>5, SeqDef
<1>7. Len(t) \in Nat /\ DOMAIN t = 1..Len(t)
    BY <1>6
<1>8. Len(t) = m
    BY <1>5, <1>7
<1> QED
    BY <1>1, <1>2, <1>4, <1>6, <1>8 DEF t

LEMMA NewListRepresents == Represents(NewList, <<>>)
<1>1. <<>> \in Seq(Items) /\ Len(<<>>) = 0
    OBVIOUS
<1>2. \A n \in 1..0 : FALSE
    OBVIOUS
<1> QED
    BY <1>1, <1>2 DEF Represents, NewList, Distinct, Leads, LeadsBack, At

\* Where the places of the new sequence are in the old one.
LEMMA PushedAt ==
    ASSUME NEW s \in Seq(Items), NEW i \in Items
    PROVE  At(Pushed(i, s), 1) = i /\ \A n \in Nat \ {0} : At(Pushed(i, s), n + 1) = At(s, n)
<1> DEFINE t == Pushed(i, s)
<1>1. /\ t \in Seq(Items) /\ Len(t) = Len(s) + 1 /\ Len(s) \in Nat
      /\ t[1] = i /\ \A n \in 1..Len(s) : t[n + 1] = s[n]
    <2>1. /\ Pushed(i, s) \in Seq(Items) /\ Len(Pushed(i, s)) = Len(s) + 1 /\ Len(s) \in Nat
          /\ Pushed(i, s)[1] = i
        BY PushedIs
    <2>2. \A n \in 1..Len(s) : Pushed(i, s)[n + 1] = s[n]
        BY PushedIs
    <2> QED
        BY <2>1, <2>2
<1> HIDE DEF t
<1>2. ASSUME NEW n \in Nat \ {0} PROVE At(t, n + 1) = At(s, n)
    <2>1. n + 1 \in 1..Len(t) <=> n \in 1..Len(s)
        BY <1>1
    <2> QED
        BY <1>1, <2>1 DEF At
<1>3. 1 \in 1..Len(t)
    BY <1>1
<1> QED
    BY <1>1, <1>2, <1>3 DEF At, t

LEMMA AppendAt ==
    ASSUME NEW s \in Seq(Items), NEW i \in Items
    PROVE  /\ At(Append(s, i), Len(s) + 1) = i /\ At(Append(s, i), Len(s) + 2) = Nil
           /\ \A n \in 0..Len(s) : At(Append(s, i), n) = At(s, n)
<1> DEFINE t == Append(s, i)
<1>1. /\ t \in Seq(Items) /\ Len(t) = Len(s) + 1 /\ Len(s) \in Nat
      /\ t[Len(s) + 1] = i /\ \A n \in 1..Len(s) : t[n] = s[n]
    OBVIOUS
<1> HIDE DEF t
<1>2. \A n \in 0..Len(s) : n \in 1..Len(t) <=> n \in 1..Len(s)
    BY <1>1
<1>3. Len(s) + 1 \in 1..Len(t) /\ Len(s) + 2 \notin 1..Len(t)
    BY <1>1
<1> QED
    BY <1>1, <1>2, <1>3 DEF At, t

LEMMA DroppedAt ==
    ASSUME NEW s \in Seq(Items), NEW k \in 1..Len(s)
    PROVE  \A n \in Nat : At(Dropped(s, k), n) = IF n < k THEN At(s, n) ELSE At(s, n + 1)
<1> DEFINE t == Dropped(s, k)
<1>1. /\ Len(t) = Len(s) - 1 /\ Len(s) \in Nat /\ Len(s) - 1 \in Nat
      /\ \A n \in 1..(Len(s) - 1) : t[n] = s[IF n < k THEN n ELSE n + 1]
    BY DroppedIs
<1> HIDE DEF t
<1>2. ASSUME NEW n \in Nat, n < k PROVE At(t, n) = At(s, n)
    <2>1. n \in 1..Len(t) <=> n \in 1..Len(s)
        BY <1>1, <1>2
    <2> QED
        BY <1>1, <1>2, <2>1 DEF At
<1>3. ASSUME NEW n \in Nat, ~(n < k) PROVE At(t, n) = At(s, n + 1)
    <2>1. n \in 1..Len(t) <=> n + 1 \in 1..Len(s)
        BY <1>1, <1>3
    <2> QED
        BY <1>1, <1>3, <2>1 DEF At
<1> QED
    BY <1>2, <1>3 DEF t

\* The ends of a list that represents a sequence.
LEMMA EndsOf ==
    ASSUME NEW l, NEW s, Represents(l, s)
    PROVE  /\ Len(s) \in Nat /\ \A n \in 1..Len(s) : s[n] \in Items /\ s[n] # Nil
           /\ \A n \in Int : At(s, n) = Nil <=> n \notin 1..Len(s)
           /\ \A m \in 1..Len(s), n \in Int : s[m] = At(s, n) => m = n
           /\ l.front = Nil <=> Len(s) = 0
           /\ l.back = Nil <=> Len(s) = 0
<1>1. s \in Seq(Items) /\ Distinct(s) /\ l.front = At(s, 1) /\ l.back = At(s, Len(s))
    BY DEF Represents
<1>2. Len(s) \in Nat /\ \A n \in 1..Len(s) : s[n] \in Items /\ s[n] # Nil
    BY <1>1, ListAssumption
<1>3. \A n \in Int : At(s, n) = Nil <=> n \notin 1..Len(s)
    BY <1>2 DEF At
<1>4. \A m \in 1..Len(s), n \in Int : s[m] = At(s, n) => m = n
    BY <1>1, <1>2 DEF At, Distinct
<1>5. (1 \notin 1..Len(s) <=> Len(s) = 0) /\ (Len(s) \notin 1..Len(s) <=> Len(s) = 0)
    BY <1>2
<1>6. 1 \in Int /\ Len(s) \in Int
    BY <1>2
<1> QED
    BY <1>1, <1>2, <1>3, <1>4, <1>5, <1>6

LEMMA PushFrontRepresents ==
    ASSUME NEW l, NEW s, Represents(l, s), NEW i \in Items, \A n \in 1..Len(s) : s[n] # i
    PROVE  Represents(PushFront(l, i), Pushed(i, s))
<1> DEFINE t == Pushed(i, s)
           p == PushFront(l, i)
<1>1. /\ s \in Seq(Items) /\ Distinct(s)
      /\ l.next \in [Items -> Items \cup {Nil}] /\ l.prev \in [Items -> Items \cup {Nil}]
      /\ l.length = Len(s) /\ l.front = At(s, 1) /\ l.back = At(s, Len(s))
      /\ \A j \in Items : (\A n \in 1..Len(s) : s[n] # j) => l.next[j] = Nil /\ l.prev[j] = Nil
      /\ \A n \in 1..Len(s) : l.next[s[n]] = At(s, n + 1) /\ l.prev[s[n]] = At(s, n - 1)
    BY DEF Represents, Leads, LeadsBack
<1>2. /\ Len(s) \in Nat /\ \A n \in 1..Len(s) : s[n] \in Items /\ s[n] # Nil
      /\ \A n \in Int : At(s, n) = Nil <=> n \notin 1..Len(s)
      /\ \A m \in 1..Len(s), n \in Int : s[m] = At(s, n) => m = n
      /\ l.front = Nil <=> Len(s) = 0
    BY EndsOf
<1>3. /\ p.length = l.length + 1 /\ p.front = i
      /\ p.back = (IF l.front = Nil THEN i ELSE l.back)
      /\ p.next = [l.next EXCEPT ![i] = l.front]
      /\ p.prev = [j \in Items |-> IF j = i THEN Nil ELSE IF j = l.front THEN i ELSE l.prev[j]]
      /\ p = [length |-> p.length, front |-> p.front, back |-> p.back, next |-> p.next, prev |-> p.prev]
    BY DEF PushFront
<1>4. /\ t \in Seq(Items) /\ Len(t) = Len(s) + 1
      /\ t[1] = i /\ \A n \in 1..Len(s) : t[n + 1] = s[n]
    <2>1. t \in Seq(Items) /\ Len(t) = Len(s) + 1 /\ t[1] = i
        BY <1>1, PushedIs
    <2>2. \A n \in 1..Len(s) : t[n + 1] = s[n]
        BY <1>1, PushedIs
    <2> QED
        BY <2>1, <2>2
<1>5. At(t, 1) = i /\ \A n \in Nat \ {0} : At(t, n + 1) = At(s, n)
    BY <1>1, PushedAt
<1> HIDE DEF t, p
<1>6. \A n \in 1..Len(t) : n = 1 \/ \E m \in 1..Len(s) : n = m + 1 /\ t[n] = s[m]
    <2> TAKE n \in 1..Len(t)
    <2>1. n # 1 => n - 1 \in 1..Len(s) /\ n = (n - 1) + 1
        BY <1>2, <1>4
    <2> QED
        BY <1>4, <2>1
<1>7. Distinct(t)
    <2>1. \A m, n \in 1..Len(s) : s[m] = s[n] => m = n
        BY <1>1 DEF Distinct
    <2> QED
        BY <1>4, <1>6, <2>1 DEF Distinct
<1>8. p.next \in [Items -> Items \cup {Nil}] /\ p.prev \in [Items -> Items \cup {Nil}]
    <2>1. l.front \in Items \cup {Nil}
        BY <1>1, <1>2 DEF At
    <2> QED
        BY <1>1, <1>3, <2>1
<1>9. p.length = Len(t) /\ p.front = At(t, 1) /\ p.back = At(t, Len(t))
    <2>1. CASE Len(s) = 0
        BY <1>1, <1>2, <1>3, <1>4, <1>5, <2>1
    <2>2. CASE Len(s) # 0
        <3>1. At(t, Len(s) + 1) = At(s, Len(s))
            BY <1>2, <1>5, <2>2
        <3> QED
            BY <1>1, <1>2, <1>3, <1>4, <1>5, <2>2, <3>1
    <2> QED
        BY <2>1, <2>2
<1>10. ASSUME NEW n \in 1..Len(t)
       PROVE  p.next[t[n]] = At(t, n + 1) /\ p.prev[t[n]] = At(t, n - 1)
    <2>1. CASE n = 1
        <3>1. At(t, 1 + 1) = At(s, 1) /\ At(t, 1 - 1) = Nil
            BY <1>5 DEF At
        <3>2. p.next[i] = l.front /\ p.prev[i] = Nil
            BY <1>1, <1>3
        <3> QED
            BY <1>1, <1>4, <2>1, <3>1, <3>2
    <2>2. CASE n # 1
        <3>1. PICK m \in 1..Len(s) : n = m + 1 /\ t[n] = s[m]
            BY <1>6, <2>2
        <3>2. s[m] # i /\ s[m] \in Items /\ m \in Nat \ {0}
            BY <1>2
        <3>3. p.next[s[m]] = At(s, m + 1) /\ At(t, (m + 1) + 1) = At(s, m + 1)
            <4>1. m + 1 \in Nat \ {0}
                BY <3>2
            <4>2. p.next[s[m]] = l.next[s[m]]
                BY <1>1, <1>3, <3>2
            <4> QED
                BY <1>1, <1>5, <4>1, <4>2
        <3>4. CASE m = 1
            <4>1. s[m] = l.front
                BY <1>1, <3>4 DEF At
            <4>2. p.prev[s[m]] = i
                BY <1>3, <3>2, <4>1
            <4> QED
                BY <1>5, <3>1, <3>3, <3>4, <4>2
        <3>5. CASE m # 1
            <4>1. s[m] # l.front
                BY <1>1, <1>2, <3>5
            <4>2. p.prev[s[m]] = At(s, m - 1)
                BY <1>1, <1>3, <3>2, <4>1
            <4>3. m - 1 \in Nat \ {0} /\ (m - 1) + 1 = n - 1
                BY <3>1, <3>2, <3>5
            <4>4. At(t, n - 1) = At(s, m - 1)
                BY <1>5, <4>3
            <4> QED
                BY <3>1, <3>3, <4>2, <4>4
        <3> QED
            BY <3>4, <3>5
    <2> QED
        BY <2>1, <2>2
<1>11. ASSUME NEW j \in Items, \A n \in 1..Len(t) : t[n] # j
       PROVE  p.next[j] = Nil /\ p.prev[j] = Nil
    <2>1. 1 \in 1..Len(t) /\ \A n \in 1..Len(s) : n + 1 \in 1..Len(t)
        BY <1>2, <1>4
    <2>2. j # i /\ \A n \in 1..Len(s) : s[n] # j
        BY <1>4, <1>11, <2>1
    <2>3. j # l.front
        BY <1>1, <2>2, ListAssumption DEF At
    <2> QED
        BY <1>1, <1>3, <2>2, <2>3
<1> QED
    BY <1>3, <1>4, <1>7, <1>8, <1>9, <1>10, <1>11 DEF Represents, Leads, LeadsBack, t, p

LEMMA PushBackRepresents ==
    ASSUME NEW l, NEW s, Represents(l, s), NEW i \in Items, \A n \in 1..Len(s) : s[n] # i
    PROVE  Represents(PushBack(l, i), Append(s, i))
<1> DEFINE t == Append(s, i)
           p == PushBack(l, i)
<1>1. /\ s \in Seq(Items) /\ Distinct(s)
      /\ l.next \in [Items -> Items \cup {Nil}] /\ l.prev \in [Items -> Items \cup {Nil}]
      /\ l.length = Len(s) /\ l.front = At(s, 1) /\ l.back = At(s, Len(s))
      /\ \A j \in Items : (\A n \in 1..Len(s) : s[n] # j) => l.next[j] = Nil /\ l.prev[j] = Nil
      /\ \A n \in 1..Len(s) : l.next[s[n]] = At(s, n + 1) /\ l.prev[s[n]] = At(s, n - 1)
    BY DEF Represents, Leads, LeadsBack
<1>2. /\ Len(s) \in Nat /\ \A n \in 1..Len(s) : s[n] \in Items /\ s[n] # Nil
      /\ \A n \in Int : At(s, n) = Nil <=> n \notin 1..Len(s)
      /\ \A m \in 1..Len(s), n \in Int : s[m] = At(s, n) => m = n
      /\ l.back = Nil <=> Len(s) = 0
    BY EndsOf
<1>3. /\ p.length = l.length + 1 /\ p.back = i
      /\ p.front = (IF l.back = Nil THEN i ELSE l.front)
      /\ p.next = [j \in Items |-> IF j = i THEN Nil ELSE IF j = l.back THEN i ELSE l.next[j]]
      /\ p.prev = [l.prev EXCEPT ![i] = l.back]
      /\ p = [length |-> p.length, front |-> p.front, back |-> p.back, next |-> p.next, prev |-> p.prev]
    BY DEF PushBack
<1>4. /\ t \in Seq(Items) /\ Len(t) = Len(s) + 1
      /\ t[Len(s) + 1] = i /\ \A n \in 1..Len(s) : t[n] = s[n]
    BY <1>1
<1>5. /\ At(t, Len(s) + 1) = i /\ At(t, Len(s) + 2) = Nil
      /\ \A n \in 0..Len(s) : At(t, n) = At(s, n)
    BY <1>1, AppendAt
<1> HIDE DEF t, p
<1>6. \A n \in 1..Len(t) : n = Len(s) + 1 \/ n \in 1..Len(s)
    BY <1>2, <1>4
<1>7. Distinct(t)
    <2>1. \A m, n \in 1..Len(s) : s[m] = s[n] => m = n
        BY <1>1 DEF Distinct
    <2> QED
        BY <1>4, <1>6, <2>1 DEF Distinct
<1>8. p.next \in [Items -> Items \cup {Nil}] /\ p.prev \in [Items -> Items \cup {Nil}]
    <2>1. l.back \in Items \cup {Nil}
        BY <1>1, <1>2 DEF At
    <2> QED
        BY <1>1, <1>3, <2>1
<1>9. p.length = Len(t) /\ p.front = At(t, 1) /\ p.back = At(t, Len(t))
    <2>1. CASE Len(s) = 0
        BY <1>1, <1>2, <1>3, <1>4, <1>5, <2>1
    <2>2. CASE Len(s) # 0
        <3>1. At(t, 1) = At(s, 1)
            BY <1>2, <1>5, <2>2
        <3> QED
            BY <1>1, <1>2, <1>3, <1>4, <1>5, <2>2, <3>1
    <2> QED
        BY <2>1, <2>2
<1>10. ASSUME NEW n \in 1..Len(t)
       PROVE  p.next[t[n]] = At(t, n + 1) /\ p.prev[t[n]] = At(t, n - 1)
    <2>1. CASE n = Len(s) + 1
        <3>1. At(t, n + 1) = Nil /\ At(t, n - 1) = At(s, Len(s))
            <4>1. n + 1 = Len(s) + 2 /\ n - 1 = Len(s) /\ Len(s) \in 0..Len(s)
                BY <1>2, <2>1
            <4> QED
                BY <1>5, <4>1
        <3>2. p.next[i] = Nil /\ p.prev[i] = l.back
            BY <1>1, <1>3
        <3> QED
            BY <1>1, <1>4, <2>1, <3>1, <3>2
    <2>2. CASE n \in 1..Len(s)
        <3>1. t[n] = s[n] /\ s[n] # i /\ s[n] \in Items
            BY <1>2, <1>4, <2>2
        <3>2. p.prev[s[n]] = At(s, n - 1) /\ At(t, n - 1) = At(s, n - 1)
            <4>1. n - 1 \in 0..Len(s)
                BY <1>2, <2>2
            <4>2. p.prev[s[n]] = l.prev[s[n]]
                BY <1>1, <1>3, <3>1
            <4> QED
                BY <1>1, <1>5, <2>2, <4>1, <4>2
        <3>3. CASE n = Len(s)
            <4>1. s[n] = l.back
                BY <1>1, <2>2, <3>3 DEF At
            <4>2. p.next[s[n]] = i
                BY <1>3, <3>1, <4>1
            <4> QED
                BY <1>5, <3>1, <3>2, <3>3, <4>2
        <3>4. CASE n # Len(s)
            <4>1. s[n] # l.back
                BY <1>1, <1>2, <2>2, <3>4
            <4>2. p.next[s[n]] = l.next[s[n]]
                BY <1>3, <3>1, <4>1
            <4>3. n + 1 \in 0..Len(s)
                BY <1>2, <2>2, <3>4
            <4>4. At(t, n + 1) = At(s, n + 1)
                BY <1>5, <4>3
            <4> QED
                BY <1>1, <2>2, <3>1, <3>2, <4>2, <4>4
        <3> QED
            BY <3>3, <3>4
    <2> QED
        BY <1>6, <2>1, <2>2
<1>11. ASSUME NEW j \in Items, \A n \in 1..Len(t) : t[n] # j
       PROVE  p.next[j] = Nil /\ p.prev[j] = Nil
    <2>1. Len(s) + 1 \in 1..Len(t) /\ \A n \in 1..Len(s) : n \in 1..Len(t)
        BY <1>2, <1>4
    <2>2. j # i /\ \A n \in 1..Len(s) : s[n] # j
        BY <1>4, <1>11, <2>1
    <2>3. j # l.back
        BY <1>1, <2>2, ListAssumption DEF At
    <2> QED
        BY <1>1, <1>3, <2>2, <2>3
<1> QED
    BY <1>3, <1>4, <1>7, <1>8, <1>9, <1>10, <1>11 DEF Represents, Leads, LeadsBack, t, p

LEMMA RemoveRepresents ==
    ASSUME NEW l, NEW s, Represents(l, s), NEW k \in 1..Len(s)
    PROVE  Represents(Remove(l, s[k]), Dropped(s, k))
<1> DEFINE t == Dropped(s, k)
           i == s[k]
           p == Remove(l, i)
           Old(n) == IF n < k THEN n ELSE n + 1
<1>1. /\ s \in Seq(Items) /\ Distinct(s)
      /\ l.next \in [Items -> Items \cup {Nil}] /\ l.prev \in [Items -> Items \cup {Nil}]
      /\ l.length = Len(s) /\ l.front = At(s, 1) /\ l.back = At(s, Len(s))
      /\ \A j \in Items : (\A n \in 1..Len(s) : s[n] # j) => l.next[j] = Nil /\ l.prev[j] = Nil
      /\ \A n \in 1..Len(s) : l.next[s[n]] = At(s, n + 1) /\ l.prev[s[n]] = At(s, n - 1)
    BY DEF Represents, Leads, LeadsBack
<1>2. /\ Len(s) \in Nat /\ \A n \in 1..Len(s) : s[n] \in Items /\ s[n] # Nil
      /\ \A n \in Int : At(s, n) = Nil <=> n \notin 1..Len(s)
      /\ \A m \in 1..Len(s), n \in Int : s[m] = At(s, n) => m = n
      /\ \A m, n \in 1..Len(s) : s[m] = s[n] => m = n
    BY <1>1, EndsOf DEF Distinct
<1>3. /\ i \in Items /\ l.next[i] = At(s, k + 1) /\ l.prev[i] = At(s, k - 1)
      /\ l.next[i] \in Items \cup {Nil} /\ l.prev[i] \in Items \cup {Nil}
    BY <1>1, <1>2
<1>4. /\ t \in Seq(Items) /\ Len(t) = Len(s) - 1
      /\ \A n \in 1..(Len(s) - 1) : n \in 1..Len(s) /\ n + 1 \in 1..Len(s) /\ t[n] = s[Old(n)]
    BY <1>1, DroppedIs
<1>5. \A n \in Nat : At(t, n) = At(s, Old(n))
    BY <1>1, DroppedAt
<1> HIDE DEF t, i
<1>6. /\ p.length = l.length - 1
      /\ p.front = (IF l.prev[i] = Nil THEN l.next[i] ELSE l.front)
      /\ p.back = (IF l.next[i] = Nil THEN l.prev[i] ELSE l.back)
      /\ p.next = [BypassNext(l, i) EXCEPT ![i] = Nil]
      /\ p.prev = [BypassPrev(l, i) EXCEPT ![i] = Nil]
      /\ p = [length |-> p.length, front |-> p.front, back |-> p.back, next |-> p.next, prev |-> p.prev]
    BY DEF Remove
<1> HIDE DEF p
<1>7. /\ p.next = [j \in Items |-> IF j = i THEN Nil ELSE IF j = l.prev[i] THEN l.next[i] ELSE l.next[j]]
      /\ p.prev = [j \in Items |-> IF j = i THEN Nil ELSE IF j = l.next[i] THEN l.prev[i] ELSE l.prev[j]]
    BY <1>3, <1>6 DEF BypassNext, BypassPrev
<1>8. p.next \in [Items -> Items \cup {Nil}] /\ p.prev \in [Items -> Items \cup {Nil}]
    BY <1>1, <1>3, <1>7
<1>9. Distinct(t)
    <2>1. ASSUME NEW m \in 1..(Len(s) - 1), NEW n \in 1..(Len(s) - 1), t[m] = t[n]
          PROVE  m = n
        <3>1. Old(m) \in 1..Len(s) /\ Old(n) \in 1..Len(s) /\ s[Old(m)] = s[Old(n)]
            BY <1>4, <2>1
        <3>2. Old(m) = Old(n)
            BY <1>2, <3>1
        <3> QED
            BY <1>2, <3>2
    <2> QED
        BY <1>4, <2>1 DEF Distinct
<1>10. k \in Nat \ {0} /\ k <= Len(s)
    BY <1>2
<1>11. p.length = Len(t) /\ p.front = At(t, 1) /\ p.back = At(t, Len(t))
    <2>1. l.prev[i] = Nil <=> k = 1
        BY <1>2, <1>3, <1>10
    <2>2. l.next[i] = Nil <=> k = Len(s)
        BY <1>2, <1>3, <1>10
    <2>3. p.front = At(t, 1)
        <3>1. At(t, 1) = IF 1 < k THEN At(s, 1) ELSE At(s, 2)
            BY <1>5
        <3>2. CASE k = 1
            BY <1>3, <1>6, <2>1, <3>1, <3>2
        <3>3. CASE k # 1
            BY <1>1, <1>6, <1>10, <2>1, <3>1, <3>3
        <3> QED
            BY <3>2, <3>3
    <2>4. p.back = At(t, Len(t))
        <3>1. Len(s) - 1 \in Nat /\ (Len(s) - 1) + 1 = Len(s)
            BY <1>2, <1>10
        <3>2. At(t, Len(t)) = IF Len(s) - 1 < k THEN At(s, Len(s) - 1) ELSE At(s, Len(s))
            BY <1>4, <1>5, <3>1
        <3>3. CASE k = Len(s)
            BY <1>2, <1>3, <1>6, <2>2, <3>2, <3>3
        <3>4. CASE k # Len(s)
            BY <1>1, <1>2, <1>6, <1>10, <2>2, <3>2, <3>4
        <3> QED
            BY <3>3, <3>4
    <2> QED
        BY <1>1, <1>4, <1>6, <2>3, <2>4
<1>12. ASSUME NEW n \in 1..Len(t)
       PROVE  p.next[t[n]] = At(t, n + 1) /\ p.prev[t[n]] = At(t, n - 1)
    <2> DEFINE m == Old(n)
    <2>1. m \in 1..Len(s) /\ t[n] = s[m] /\ m # k /\ n \in Nat /\ n - 1 \in Nat /\ n + 1 \in Nat
        BY <1>2, <1>4, <1>10
    <2>2. s[m] # i /\ s[m] \in Items
        BY <1>2, <2>1 DEF i
    <2>3. /\ s[m] = l.prev[i] <=> m = k - 1
          /\ s[m] = l.next[i] <=> m = k + 1
        <3>1. m = k - 1 => s[m] = At(s, k - 1)
            BY <2>1 DEF At
        <3>2. m = k + 1 => s[m] = At(s, k + 1)
            BY <2>1 DEF At
        <3>3. k - 1 \in Int /\ k + 1 \in Int
            BY <1>10
        <3> QED
            BY <1>2, <1>3, <2>1, <3>1, <3>2, <3>3
    <2>4. p.next[s[m]] = IF m = k - 1 THEN At(s, k + 1) ELSE At(s, m + 1)
        BY <1>1, <1>3, <1>7, <2>1, <2>2, <2>3
    <2>5. p.prev[s[m]] = IF m = k + 1 THEN At(s, k - 1) ELSE At(s, m - 1)
        BY <1>1, <1>3, <1>7, <2>1, <2>2, <2>3
    <2>6. At(t, n + 1) = At(s, Old(n + 1)) /\ At(t, n - 1) = At(s, Old(n - 1))
        BY <1>5, <2>1
    <2>7. Old(n + 1) = IF m = k - 1 THEN k + 1 ELSE m + 1
        BY <1>10, <2>1
    <2>8. Old(n - 1) = IF m = k + 1 THEN k - 1 ELSE m - 1
        BY <1>10, <2>1
    <2> HIDE DEF m, Old
    <2> QED
        BY <2>1, <2>4, <2>5, <2>6, <2>7, <2>8
<1>13. ASSUME NEW j \in Items, \A n \in 1..Len(t) : t[n] # j
       PROVE  p.next[j] = Nil /\ p.prev[j] = Nil
    <2>1. CASE j = i
        BY <1>3, <1>7, <2>1
    <2>2. CASE j # i
        <3>1. ASSUME NEW n \in 1..Len(s) PROVE s[n] # j
            <4>1. CASE n = k
                BY <2>2, <4>1 DEF i
            <4>2. CASE n < k
                <5>1. n \in 1..(Len(s) - 1) /\ Old(n) = n
                    BY <1>2, <1>10, <4>2
                <5> QED
                    BY <1>4, <1>13, <5>1
            <4>3. CASE n > k
                <5>1. n - 1 \in 1..(Len(s) - 1) /\ Old(n - 1) = n
                    BY <1>2, <1>10, <4>3
                <5>2. t[n - 1] = s[n]
                    BY <1>4, <5>1
                <5> QED
                    BY <1>4, <1>13, <5>1, <5>2
            <4> QED
                BY <1>10, <4>1, <4>2, <4>3
        <3>2. j # l.prev[i] /\ j # l.next[i]
            BY <1>3, <3>1, ListAssumption DEF At
        <3> QED
            BY <1>1, <1>7, <2>2, <3>1, <3>2
    <2> QED
        BY <2>1, <2>2
<1> QED
    BY <1>4, <1>6, <1>8, <1>9, <1>11, <1>12, <1>13 DEF Represents, Leads, LeadsBack, t, p, i

\* Moving an item is removing it and pushing it to the front again.
LEMMA MoveToFrontRepresents ==
    ASSUME NEW l, NEW s, Represents(l, s), NEW k \in 1..Len(s)
    PROVE  Represents(MoveToFront(l, s[k]), Pushed(s[k], Dropped(s, k)))
<1> DEFINE i == s[k]
           t == Dropped(s, k)
           r == Remove(l, i)
<1>1. /\ s \in Seq(Items) /\ Len(s) \in Nat /\ k \in Nat \ {0} /\ k <= Len(s) /\ l.front = At(s, 1)
      /\ \A n \in 1..Len(s) : s[n] \in Items /\ s[n] # Nil
      /\ \A m, n \in 1..Len(s) : s[m] = s[n] => m = n
      /\ \A n \in Int : At(s, n) = Nil <=> n \notin 1..Len(s)
      /\ i \in Items /\ l.prev[i] = At(s, k - 1)
    <2>1. /\ Len(s) \in Nat /\ \A n \in 1..Len(s) : s[n] \in Items /\ s[n] # Nil
          /\ \A n \in Int : At(s, n) = Nil <=> n \notin 1..Len(s)
        BY EndsOf
    <2>2. /\ s \in Seq(Items) /\ l.front = At(s, 1) /\ l.prev[s[k]] = At(s, k - 1)
          /\ \A m, n \in 1..Len(s) : s[m] = s[n] => m = n
        BY DEF Represents, Distinct, LeadsBack
    <2> QED
        BY <2>1, <2>2
<1>2. /\ t \in Seq(Items) /\ Len(t) = Len(s) - 1 /\ Len(s) - 1 \in Nat
      /\ \A n \in 1..(Len(s) - 1) :
            n \in 1..Len(s) /\ n + 1 \in 1..Len(s) /\ t[n] = s[IF n < k THEN n ELSE n + 1]
    BY <1>1, DroppedIs
<1> HIDE DEF t
<1>3. l.front = s[1] /\ 1 \in 1..Len(s)
    BY <1>1 DEF At
<1>4. CASE k = 1
    <2>1. MoveToFront(l, i) = l
        BY <1>3, <1>4 DEF MoveToFront
    <2> DEFINE u == Pushed(i, t)
    <2> HIDE DEF i
    <2>2. u \in Seq(Items) /\ Len(u) = Len(t) + 1 /\ u[1] = i
        BY <1>1, <1>2, PushedIs
    <2>3. \A n \in 1..Len(t) : u[n + 1] = t[n]
        BY <1>1, <1>2, PushedIs
    <2> HIDE DEF u
    <2>4. Len(u) = Len(s)
        BY <1>1, <1>2, <2>2
    <2>5. ASSUME NEW n \in 1..Len(s) PROVE u[n] = s[n]
        <3>1. CASE n = 1
            BY <1>4, <2>2, <3>1 DEF i
        <3>2. CASE n # 1
            <4>1. n - 1 \in 1..(Len(s) - 1) /\ (n - 1) + 1 = n /\ ~(n - 1 < 1)
                BY <1>1, <3>2
            <4>2. t[n - 1] = s[n]
                BY <1>2, <1>4, <4>1
            <4>3. u[(n - 1) + 1] = t[n - 1]
                BY <1>2, <2>3, <4>1
            <4> QED
                BY <4>1, <4>2, <4>3
        <3> QED
            BY <3>1, <3>2
    <2>6. u = s
        BY <1>1, <2>2, <2>4, <2>5, SeqEqual
    <2> QED
        BY <2>1, <2>6 DEF u, t, i
<1>5. CASE k # 1
    <2>1. Represents(r, t)
        BY RemoveRepresents DEF t
    <2>2. \A n \in 1..Len(t) : t[n] # i
        BY <1>1, <1>2, SMTT(30)
    <2>3. Represents(PushFront(r, i), Pushed(i, t))
        BY <1>1, <2>1, <2>2, PushFrontRepresents
    <2>4. i # l.front
        BY <1>1, <1>3, <1>5
    <2>5. l.prev[i] # Nil
        BY <1>1, <1>5
    <2>6. l.front # Nil /\ l.front \in Items
        BY <1>1, <1>3
    <2>7. /\ l.length \in Nat /\ l.next \in [Items -> Items \cup {Nil}]
          /\ l.prev \in [Items -> Items \cup {Nil}]
          /\ l = [length |-> l.length, front |-> l.front, back |-> l.back, next |-> l.next, prev |-> l.prev]
        BY <1>1 DEF Represents
    <2> HIDE DEF i
    <2>8. /\ r.length = l.length - 1 /\ r.front = l.front
          /\ r.back = (IF l.next[i] = Nil THEN l.prev[i] ELSE l.back)
          /\ r.next = [BypassNext(l, i) EXCEPT ![i] = Nil]
          /\ r.prev = [BypassPrev(l, i) EXCEPT ![i] = Nil]
        BY <2>5 DEF Remove
    <2> HIDE DEF r
    <2> DEFINE bn == BypassNext(l, i)
               bp == BypassPrev(l, i)
    <2>9. bn = [j \in Items |-> bn[j]] /\ bp = [j \in Items |-> bp[j]]
        BY DEF BypassNext, BypassPrev
    <2> HIDE DEF bn, bp
    <2>10. PushFront(r, i) =
              [length |-> l.length, front |-> i, back |-> r.back,
               next |-> [bn EXCEPT ![i] = l.front], prev |-> [bp EXCEPT ![i] = Nil, ![l.front] = i]]
        <3>1. r.length + 1 = l.length
            BY <2>7, <2>8
        <3>2. [r.next EXCEPT ![i] = r.front] = [bn EXCEPT ![i] = l.front]
            BY <1>1, <2>8, <2>9 DEF bn
        <3>3. [j \in Items |-> IF j = i THEN Nil ELSE IF j = r.front THEN i ELSE r.prev[j]]
                = [bp EXCEPT ![i] = Nil, ![l.front] = i]
            BY <1>1, <2>4, <2>6, <2>8, <2>9 DEF bp
        <3> QED
            BY <2>6, <2>8, <3>1, <3>2, <3>3 DEF PushFront
    <2>11. MoveToFront(l, i) =
              [l EXCEPT !.front = i, !.back = r.back,
                        !.next = [bn EXCEPT ![i] = l.front],
                        !.prev = [bp EXCEPT ![i] = Nil, ![l.front] = i]]
        BY <2>4, <2>8 DEF MoveToFront, bn, bp
    <2>12. MoveToFront(l, i) = PushFront(r, i)
        BY <2>7, <2>10, <2>11
    <2> QED
        BY <2>3, <2>12 DEF i, t
<1> QED
    BY <1>4, <1>5

\* The same sequence is read in both directions, and its items are as many as the
\* length says.
LEMMA RepresentsIsWellFormed ==
    ASSUME NEW l, NEW s, Represents(l, s)
    PROVE  WellFormed(l)
<1> DEFINE L == Len(s)
           b == [n \in 1..L |-> s[L + 1 - n]]
<1>1. /\ s \in Seq(Items) /\ Distinct(s) /\ L \in Nat /\ l.length = L /\ l.back = At(s, L)
      /\ \A n \in 1..L : s[n] \in Items
      /\ \A m, n \in 1..L : s[m] = s[n] => m = n
      /\ \A n \in 1..L : l.prev[s[n]] = At(s, n - 1)
    BY DEF Represents, Distinct, LeadsBack
<1>2. Forward(l) = s /\ ItemsOf(l) = {s[n] : n \in 1..L}
    BY ForwardIs
<1>3. \A n \in 1..L : L + 1 - n \in 1..L
    BY <1>1
<1>4. b \in Seq(Items) /\ Len(b) = L /\ \A n \in 1..L : b[n] = s[L + 1 - n]
    <2> HIDE DEF L
    <2>1. b \in [1..L -> Items] /\ \A n \in 1..L : b[n] = s[L + 1 - n]
        BY <1>1, <1>3
    <2> HIDE DEF b
    <2>2. b \in Seq(Items)
        BY <1>1, <2>1, SeqDef, SMTT(30)
    <2>3. Len(b) \in Nat /\ DOMAIN b = 1..Len(b)
        BY <2>2
    <2>4. Len(b) = L
        BY <1>1, <2>1, <2>3
    <2> QED
        BY <2>1, <2>2, <2>4
<1> HIDE DEF L, b
<1>5. Distinct(b)
    <2>1. ASSUME NEW m \in 1..L, NEW n \in 1..L, b[m] = b[n] PROVE m = n
        <3>1. L + 1 - m = L + 1 - n
            <4>1. L + 1 - m \in 1..L /\ L + 1 - n \in 1..L
                BY <1>3
            <4>2. s[L + 1 - m] = s[L + 1 - n]
                BY <1>4, <2>1
            <4> QED
                BY <1>1, <4>1, <4>2
        <3> QED
            BY <1>1, <3>1
    <2> QED
        BY <1>4, <2>1 DEF Distinct
<1>6. \A n \in Int : At(b, n) = At(s, L + 1 - n)
    <2> TAKE n \in Int
    <2>1. n \in 1..L <=> L + 1 - n \in 1..L
        BY <1>1
    <2> QED
        BY <1>4, <2>1 DEF At, L
<1>7. Leads(l.prev, b)
    <2>1. ASSUME NEW n \in 1..L PROVE l.prev[b[n]] = At(b, n + 1)
        <3>1. l.prev[b[n]] = At(s, (L + 1 - n) - 1)
            BY <1>1, <1>3, <1>4
        <3>2. n + 1 \in Int /\ (L + 1 - n) - 1 = L + 1 - (n + 1)
            BY <1>1
        <3> QED
            BY <1>6, <3>1, <3>2
    <2> QED
        BY <1>4, <2>1 DEF Leads
<1>8. Backward(l) = b
    <2>1. L + 1 - 1 = L /\ 1 \in Int
        BY <1>1
    <2>2. l.back = At(b, 1)
        BY <1>1, <1>6, <2>1
    <2> QED
        BY <1>4, <1>5, <1>7, <2>2, WalkIs DEF Backward
<1>9. Cardinality(ItemsOf(l)) = L
    <2> DEFINE T == ItemsOf(l)
    <2>1. s \in [1..L -> T] /\ \A x \in T : \E n \in 1..L : s[n] = x
        <3>1. s \in [1..L -> Items]
            BY <1>1, LenProperties DEF L
        <3>2. \A n \in 1..L : s[n] \in T
            BY <1>2
        <3>3. \A x \in T : \E n \in 1..L : s[n] = x
            BY <1>2
        <3> HIDE DEF T
        <3> QED
            BY <3>1, <3>2, <3>3
    <2> HIDE DEF T
    <2>2. s \in Bijection(1..L, T)
        BY <1>1, <2>1 DEF Bijection, Injection, Surjection, IsInjective
    <2>3. ExistsBijection(1..L, T)
        BY <2>2 DEF ExistsBijection
    <2>4. IsFiniteSet(1..L) /\ Cardinality(1..L) = L
        BY <1>1, FS_Interval, DistinctIsShort DEF L
    <2> QED
        BY <2>3, <2>4, FS_Bijection DEF T
<1>10. \A i \in Items \ ItemsOf(l) : l.next[i] = Nil /\ l.prev[i] = Nil
    BY <1>2 DEF Represents, L
<1> QED
    BY <1>1, <1>2, <1>4, <1>8, <1>9, <1>10 DEF WellFormed, L

ListInv == Represents(list, Forward(list))

LEMMA ListStep ==
    ASSUME ListInv, ListNext
    PROVE  ListInv' /\ Order!Next
<1> DEFINE s == Forward(list)
<1>1. Represents(list, s) /\ ItemsOf(list) = {s[n] : n \in 1..Len(s)}
    BY ForwardIs DEF ListInv
<1>2. Order!Members = {s[n] : n \in 1..Len(s)}
    BY DEF Order!Members
<1>3. ASSUME NEW t, Represents(list', t)
      PROVE  ListInv' /\ Forward(list') = t
    <2>1. Forward(list') = t
        BY <1>3, ForwardIs
    <2> QED
        BY <1>3, <2>1 DEF ListInv
<1>4. PICK i \in Items : Allocate(i) \/ Relink(i)
    BY DEF ListNext
<1>5. CASE Allocate(i)
    <2>1. i \notin ItemsOf(list) /\ \A n \in 1..Len(s) : s[n] # i
        BY <1>1, <1>5 DEF Allocate
    <2>2. CASE list' = PushFront(list, i) /\ op' = <<"PushFront", i>>
        <3>1. ListInv' /\ Forward(list') = <<i>> \o s
            BY <1>1, <1>3, <2>1, <2>2, PushFrontRepresents DEF Pushed
        <3>2. Order!PushFront(i)
            BY <1>1, <1>2, <2>1, <2>2, <3>1 DEF Order!PushFront
        <3> QED
            BY <3>1, <3>2 DEF Order!Next
    <2>3. CASE list' = PushBack(list, i) /\ op' = <<"PushBack", i>>
        <3>1. ListInv' /\ Forward(list') = Append(s, i)
            BY <1>1, <1>3, <2>1, <2>3, PushBackRepresents
        <3>2. Order!PushBack(i)
            BY <1>1, <1>2, <2>1, <2>3, <3>1 DEF Order!PushBack
        <3> QED
            BY <3>1, <3>2 DEF Order!Next
    <2> QED
        BY <1>5, <2>2, <2>3 DEF Allocate
<1>6. CASE Relink(i)
    <2> DEFINE k == Order!Place(i)
    <2>1. i \in ItemsOf(list) /\ \E n \in 1..Len(s) : s[n] = i
        BY <1>1, <1>6 DEF Relink
    <2>2. k \in 1..Len(s) /\ s[k] = i
        BY <2>1 DEF Order!Place
    <2>3. Order!Without(i) = Dropped(s, k)
        BY DEF Order!Without, Dropped
    <2> HIDE DEF k
    <2>4. CASE list' = Remove(list, i) /\ op' = <<"Remove", i>>
        <3>1. ListInv' /\ Forward(list') = Dropped(s, k)
            BY <1>1, <1>3, <2>2, <2>4, RemoveRepresents
        <3>2. Order!Remove(i)
            BY <1>1, <1>2, <2>1, <2>3, <2>4, <3>1 DEF Order!Remove
        <3> QED
            BY <3>1, <3>2 DEF Order!Next
    <2>5. CASE list' = MoveToFront(list, i) /\ op' = <<"MoveToFront", i>>
        <3>1. ListInv' /\ Forward(list') = <<i>> \o Dropped(s, k)
            BY <1>1, <1>3, <2>2, <2>5, MoveToFrontRepresents DEF Pushed
        <3>2. Order!MoveToFront(i)
            BY <1>1, <1>2, <2>1, <2>3, <2>5, <3>1 DEF Order!MoveToFront
        <3> QED
            BY <3>1, <3>2 DEF Order!Next
    <2> QED
        BY <1>6, <2>4, <2>5 DEF Relink
<1> QED
    BY <1>4, <1>5, <1>6

LEMMA InitList == ListInit => ListInv /\ Order!Init
<1>1. Forward(NewList) = <<>>
    BY NewListRepresents, ForwardIs
<1> QED
    BY <1>1, NewListRepresents DEF ListInit, ListInv, Order!Init

LEMMA ListInvariant == ExercisesSpec => []ListInv
<1>1. ExercisesInit => ListInv
    BY InitList DEF ExercisesInit
<1>2. ListInv /\ [ExercisesNext]_allVars => ListInv'
    <2>1. ASSUME ListInv, UNCHANGED listVars PROVE ListInv'
        BY <2>1 DEF ListInv, listVars
    <2> QED
        BY <2>1, ListStep DEF ExercisesNext, allVars
<1> QED
    BY <1>1, <1>2, PTL DEF ExercisesSpec

\* The linked list implements the interface on sequences, for any number of items:
\* whatever pushes, moves and removals came before, the pointer operations of
\* PushFront, PushBack, Remove and MoveToFront do to the order of the items what
\* their names say, at both ends and between.
THEOREM ListKeepsItsOrder == ExercisesSpec => ImplementsSequenceList
<1>1. ExercisesInit => Order!Init
    BY InitList DEF ExercisesInit
<1>2. ListInv /\ [ExercisesNext]_allVars => [Order!Next]_Order!vars
    <2>1. UNCHANGED listVars => UNCHANGED Order!vars
        BY DEF listVars, Order!vars
    <2> QED
        BY <2>1, ListStep DEF ExercisesNext, allVars
<1> QED
    BY <1>1, <1>2, ListInvariant, PTL DEF ExercisesSpec, ImplementsSequenceList, Order!Spec

-----------------------------------------------------------------------------
(* hw04: the cache keeps its entries in the order of their last use.        *)

\* The map m and the entries e go with a list that represents s.
Caches(q, m, e, s) ==
    /\ Represents(q, s) /\ e = [i \in Items |-> e[i]] /\ DOMAIN m \subseteq Keys
    /\ \A n \in 1..Len(s) :
          e[s[n]] \in Keys \X Values /\ e[s[n]][1] \in DOMAIN m /\ m[e[s[n]][1]] = s[n]
    /\ \A k \in DOMAIN m : \E n \in 1..Len(s) : s[n] = m[k] /\ e[s[n]][1] = k

EntriesOf(e, s) == [n \in 1..Len(s) |-> e[s[n]]]

CacheInv ==
    /\ capacity \in Nat /\ Len(Forward(queue)) <= capacity
    /\ Caches(queue, items, entry, Forward(queue))

LEMMA EntriesAre ==
    ASSUME NEW q, NEW m, NEW e, NEW s, Caches(q, m, e, s)
    PROVE  /\ s \in Seq(Items) /\ Len(s) \in Nat
           /\ EntriesOf(e, s) \in Seq(Keys \X Values) /\ Len(EntriesOf(e, s)) = Len(s)
           /\ \A n \in 1..Len(s) : s[n] \in Items /\ EntriesOf(e, s)[n] = e[s[n]]
<1>1. /\ s \in Seq(Items) /\ Len(s) \in Nat /\ \A n \in 1..Len(s) : s[n] \in Items
      /\ \A n \in 1..Len(s) : e[s[n]] \in Keys \X Values
    BY DEF Caches, Represents
<1> DEFINE t == EntriesOf(e, s)
           K == Keys \X Values
<1> HIDE DEF K
<1>2. PICK l \in Nat : l = Len(s)
    BY <1>1
<1>3. t \in [1..l -> K] /\ \A n \in 1..l : t[n] = e[s[n]]
    BY <1>1, <1>2 DEF EntriesOf, K
<1> HIDE DEF t
<1>4. t \in Seq(K)
    BY <1>3, SeqDef
<1>5. Len(t) \in Nat /\ DOMAIN t = 1..Len(t)
    BY <1>4
<1>6. Len(t) = l
    BY <1>3, <1>5
<1> QED
    BY <1>1, <1>2, <1>3, <1>4, <1>6 DEF t, K

\* Entries that agree on the list are as good.
LEMMA EntriesElsewhere ==
    ASSUME NEW q, NEW m, NEW e, NEW s, Caches(q, m, e, s),
           NEW f, f = [i \in Items |-> f[i]], \A n \in 1..Len(s) : f[s[n]] = e[s[n]]
    PROVE  Caches(q, m, f, s) /\ EntriesOf(f, s) = EntriesOf(e, s)
BY DEF Caches, EntriesOf

LEMMA PushedEntries ==
    ASSUME NEW s \in Seq(Items), NEW e, NEW i \in Items, NEW S, e[i] \in S,
           \A n \in 1..Len(s) : e[s[n]] \in S
    PROVE  EntriesOf(e, Pushed(i, s)) = Pushed(e[i], EntriesOf(e, s))
<1> DEFINE t == Pushed(i, s)
           x == EntriesOf(e, s)
           y == EntriesOf(e, t)
           z == Pushed(e[i], x)
<1>1. t \in Seq(Items) /\ Len(t) = Len(s) + 1 /\ t[1] = i /\ Len(s) \in Nat
    BY PushedIs
<1>2. \A n \in 1..Len(s) : t[n + 1] = s[n]
    BY PushedIs
<1>3. x \in Seq(S) /\ Len(x) = Len(s) /\ \A n \in 1..Len(s) : x[n] = e[s[n]]
    <2>1. PICK l \in Nat : l = Len(s)
        BY <1>1
    <2>2. x \in [1..l -> S] /\ \A n \in 1..l : x[n] = e[s[n]]
        BY <2>1 DEF EntriesOf
    <2> HIDE DEF x
    <2>3. x \in Seq(S)
        BY <2>2, SeqDef
    <2>4. Len(x) \in Nat /\ DOMAIN x = 1..Len(x)
        BY <2>3
    <2>5. Len(x) = l
        BY <2>2, <2>4
    <2> QED
        BY <2>1, <2>2, <2>3, <2>5
<1> HIDE DEF x
<1>c. PICK c \in S : c = e[i]
    OBVIOUS
<1>4. z \in Seq(S) /\ Len(z) = Len(x) + 1 /\ z[1] = e[i]
    <2>1. Pushed(c, x) \in Seq(S) /\ Len(Pushed(c, x)) = Len(x) + 1 /\ Pushed(c, x)[1] = c
        BY <1>3, PushedIs
    <2> QED
        BY <1>c, <2>1
<1>5. \A n \in 1..Len(x) : z[n + 1] = x[n]
    <2>1. \A n \in 1..Len(x) : Pushed(c, x)[n + 1] = x[n]
        BY <1>3, PushedIs
    <2> QED
        BY <1>c, <2>1
<1> HIDE DEF t, z
<1>6. z = [n \in 1..Len(t) |-> z[n]]
    <2>1. Len(z) = Len(t)
        BY <1>1, <1>3, <1>4
    <2> QED
        BY <1>4, <2>1, LenProperties
<1>7. ASSUME NEW n \in 1..Len(t) PROVE e[t[n]] = z[n]
    <2>1. CASE n = 1
        BY <1>1, <1>4, <2>1
    <2>2. CASE n # 1
        <3>1. n - 1 \in 1..Len(s) /\ (n - 1) + 1 = n
            BY <1>1, <2>2
        <3>2. t[n] = s[n - 1] /\ z[n] = x[n - 1]
            BY <1>2, <1>3, <1>5, <3>1
        <3> QED
            BY <1>3, <3>1, <3>2
    <2> QED
        BY <2>1, <2>2
<1>8. y = [n \in 1..Len(t) |-> e[t[n]]]
    BY DEF EntriesOf
<1> HIDE DEF y
<1>9. y = z
    BY <1>6, <1>7, <1>8
<1> QED
    BY <1>9 DEF t, x, y, z

LEMMA DroppedEntries ==
    ASSUME NEW q, NEW m, NEW e, NEW s, Caches(q, m, e, s), NEW k \in 1..Len(s)
    PROVE  EntriesOf(e, Dropped(s, k)) = Dropped(EntriesOf(e, s), k)
<1> DEFINE x == EntriesOf(e, s)
           t == Dropped(s, k)
<1>1. /\ s \in Seq(Items) /\ Len(s) \in Nat /\ Len(x) = Len(s)
      /\ \A n \in 1..Len(s) : x[n] = e[s[n]]
    BY EntriesAre
<1>2. /\ Len(t) = Len(s) - 1
      /\ \A n \in 1..(Len(s) - 1) :
            n \in 1..Len(s) /\ n + 1 \in 1..Len(s) /\ t[n] = s[IF n < k THEN n ELSE n + 1]
    BY <1>1, DroppedIs
<1> HIDE DEF x, t
<1>3. \A n \in 1..(Len(s) - 1) : e[t[n]] = x[IF n < k THEN n ELSE n + 1]
    BY <1>1, <1>2
<1>4. EntriesOf(e, t) = [n \in 1..(Len(s) - 1) |-> e[t[n]]]
    BY <1>2 DEF EntriesOf
<1>5. Dropped(x, k) = [n \in 1..(Len(s) - 1) |-> x[IF n < k THEN n ELSE n + 1]]
    BY <1>1 DEF Dropped
<1> QED
    BY <1>3, <1>4, <1>5 DEF x, t

Adds(d, m, k, i) == d = [j \in DOMAIN m \cup {k} |-> IF j = k THEN i ELSE m[j]]
Replaces(f, e, i, c) == f = [e EXCEPT ![i] = c]

\* Using an entry: it is replaced and moves to the front.
LEMMA UseKeeps ==
    ASSUME NEW q, NEW m, NEW e, NEW s, Caches(q, m, e, s), NEW k \in DOMAIN m, NEW v \in Values,
           NEW p \in 1..Len(s), s[p] = m[k], NEW f, Replaces(f, e, m[k], <<k, v>>)
    PROVE  /\ Caches(MoveToFront(q, m[k]), m, f, Pushed(m[k], Dropped(s, p)))
           /\ EntriesOf(f, Pushed(m[k], Dropped(s, p))) = Pushed(<<k, v>>, Dropped(EntriesOf(e, s), p))
           /\ Len(Pushed(m[k], Dropped(s, p))) = Len(s)
<1> DEFINE r == Dropped(s, p)
           t == Pushed(s[p], r)
<1>1. /\ Represents(q, s) /\ e = [i \in Items |-> e[i]] /\ k \in Keys /\ DOMAIN m \subseteq Keys
      /\ s \in Seq(Items) /\ Len(s) \in Nat /\ s[p] \in Items
      /\ \A a, b \in 1..Len(s) : s[a] = s[b] => a = b
      /\ \A n \in 1..Len(s) :
            s[n] \in Items /\ e[s[n]] \in Keys \X Values /\ e[s[n]][1] \in DOMAIN m /\ m[e[s[n]][1]] = s[n]
      /\ \A j \in DOMAIN m : \E n \in 1..Len(s) : s[n] = m[j] /\ e[s[n]][1] = j
    BY EntriesAre DEF Caches, Represents, Distinct
<1>0. s \in Seq(Items)
    BY <1>1
<1>2. /\ r \in Seq(Items) /\ Len(r) = Len(s) - 1 /\ Len(s) - 1 \in Nat
      /\ \A n \in 1..(Len(s) - 1) :
            n \in 1..Len(s) /\ n + 1 \in 1..Len(s) /\ r[n] = s[IF n < p THEN n ELSE n + 1]
    BY <1>0, DroppedIs
<1>i. PICK i \in Items : i = s[p]
    BY <1>1
<1>3. /\ Pushed(i, r) \in Seq(Items) /\ Len(Pushed(i, r)) = Len(r) + 1 /\ Pushed(i, r)[1] = i
      /\ \A n \in 1..Len(r) : Pushed(i, r)[n + 1] = r[n]
    <2> HIDE DEF r
    <2>1. Pushed(i, r) \in Seq(Items) /\ Len(Pushed(i, r)) = Len(r) + 1 /\ Pushed(i, r)[1] = i
        BY <1>2, PushedIs
    <2>2. \A n \in 1..Len(r) : Pushed(i, r)[n + 1] = r[n]
        BY <1>2, PushedIs
    <2> QED
        BY <2>1, <2>2
<1>4. t = Pushed(i, r) /\ Len(t) = Len(s)
    BY <1>1, <1>2, <1>3, <1>i
<1> HIDE DEF r, t
<1>5. \A n \in 1..Len(r) : r[n] # i /\ \E a \in 1..Len(s) : r[n] = s[a]
    <2> TAKE n \in 1..Len(r)
    <2>1. PICK a \in 1..Len(s) : a # p /\ r[n] = s[a]
        <3>1. /\ n \in 1..Len(s) /\ n + 1 \in 1..Len(s) /\ n \in Nat /\ p \in Nat
              /\ r[n] = s[IF n < p THEN n ELSE n + 1]
            BY <1>2
        <3>2. CASE n < p
            BY <3>1, <3>2
        <3>3. CASE ~(n < p)
            <4>1. n + 1 # p
                BY <3>1, <3>3
            <4> QED
                BY <3>1, <3>3, <4>1
        <3> QED
            BY <3>2, <3>3
    <2>2. \A b \in 1..Len(s) : s[b] = s[a] => b = a
        BY <1>1
    <2> QED
        BY <1>i, <2>1, <2>2
<1>6. ASSUME NEW n \in 1..Len(t) PROVE \E a \in 1..Len(s) : t[n] = s[a]
    <2>1. CASE n = 1
        BY <1>3, <1>4, <1>i, <2>1
    <2>2. CASE n # 1
        <3>1. n - 1 \in 1..Len(r) /\ (n - 1) + 1 = n
            BY <1>1, <1>2, <1>4, <2>2
        <3>2. t[n] = r[n - 1]
            BY <1>3, <1>4, <3>1
        <3> QED
            BY <1>5, <3>1, <3>2
    <2> QED
        BY <2>1, <2>2
<1>7. ASSUME NEW a \in 1..Len(s) PROVE \E n \in 1..Len(t) : t[n] = s[a]
    <2>1. CASE a = p
        <3>1. 1 \in 1..Len(t)
            BY <1>1, <1>4
        <3> QED
            BY <1>3, <1>4, <1>i, <2>1, <3>1
    <2>2. CASE a < p
        <3>1. a \in 1..Len(r) /\ r[a] = s[a] /\ a + 1 \in 1..Len(t)
            <4>1. Len(s) \in Nat /\ Len(r) = Len(s) - 1 /\ Len(t) = Len(s)
                BY <1>1, <1>2, <1>4
            <4>2. a \in 1..(Len(s) - 1) /\ a + 1 \in 1..Len(s)
                BY <2>2, <4>1
            <4>3. r[a] = s[a]
                BY <1>2, <2>2, <4>2
            <4> QED
                BY <4>1, <4>2, <4>3
        <3> QED
            BY <1>3, <1>4, <3>1
    <2>3. CASE a > p
        <3>1. a - 1 \in 1..Len(r) /\ ~(a - 1 < p) /\ (a - 1) + 1 = a /\ a \in 1..Len(t)
            BY <1>1, <1>2, <1>4, <2>3
        <3>2. r[a - 1] = s[a]
            BY <1>2, <3>1
        <3>3. t[a] = r[a - 1]
            BY <1>3, <1>4, <3>1
        <3> QED
            BY <3>1, <3>2, <3>3
    <2> QED
        BY <1>1, <2>1, <2>2, <2>3
<1>8. /\ f = [j \in Items |-> f[j]] /\ f[i] = <<k, v>> /\ \A j \in Items \ {i} : f[j] = e[j]
      /\ e[i][1] = k
    <2>1. f = [e EXCEPT ![i] = <<k, v>>]
        BY <1>i DEF Replaces
    <2>2. f = [j \in Items |-> IF j = i THEN <<k, v>> ELSE e[j]]
        BY <1>1, <2>1
    <2>3. e[i][1] = k
        BY <1>1, <1>i
    <2> QED
        BY <2>2, <2>3
<1>9. \A n \in 1..Len(s) : f[s[n]] \in Keys \X Values /\ f[s[n]][1] = e[s[n]][1]
    BY <1>1, <1>8, SMTT(30)
<1>10. Caches(MoveToFront(q, m[k]), m, f, t)
    <2>1. Represents(MoveToFront(q, m[k]), t)
        BY <1>1, MoveToFrontRepresents DEF t, r
    <2>2. \A n \in 1..Len(t) :
              f[t[n]] \in Keys \X Values /\ f[t[n]][1] \in DOMAIN m /\ m[f[t[n]][1]] = t[n]
        <3> TAKE n \in 1..Len(t)
        <3>1. PICK a \in 1..Len(s) : t[n] = s[a]
            BY <1>6
        <3>2. e[s[a]][1] \in DOMAIN m /\ m[e[s[a]][1]] = s[a]
            BY <1>1
        <3> QED
            BY <1>9, <3>1, <3>2
    <2>3. ASSUME NEW j \in DOMAIN m PROVE \E n \in 1..Len(t) : t[n] = m[j] /\ f[t[n]][1] = j
        <3>1. PICK a \in 1..Len(s) : s[a] = m[j] /\ e[s[a]][1] = j
            BY <1>1
        <3>2. PICK n \in 1..Len(t) : t[n] = s[a]
            BY <1>7
        <3> QED
            BY <1>9, <3>1, <3>2
    <2> QED
        BY <1>1, <1>8, <2>1, <2>2, <2>3 DEF Caches
<1>11. EntriesOf(f, t) = Pushed(<<k, v>>, Dropped(EntriesOf(e, s), p))
    <2> DEFINE S == Keys \X Values
    <2>1. f[i] \in S /\ \A n \in 1..Len(r) : f[r[n]] \in S
        <3>1. f[i] \in S
            BY <1>9, <1>i
        <3> QED
            BY <1>5, <1>9, <3>1
    <2> HIDE DEF S
    <2>2. EntriesOf(f, t) = Pushed(f[i], EntriesOf(f, r))
        BY <1>2, <1>4, <2>1, PushedEntries
    <2>3. \A n \in 1..Len(r) : f[r[n]] = e[r[n]]
        <3>1. \A n \in 1..Len(r) : r[n] \in Items \ {i}
            BY <1>2, <1>5
        <3> QED
            BY <1>8, <3>1
    <2>4. EntriesOf(f, r) = EntriesOf(e, r)
        BY <2>3 DEF EntriesOf
    <2>5. EntriesOf(e, r) = Dropped(EntriesOf(e, s), p)
        BY DroppedEntries DEF r
    <2> QED
        BY <1>8, <2>2, <2>4, <2>5
<1> QED
    BY <1>4, <1>10, <1>11 DEF t, r

\* A new entry comes to the front.
LEMMA InsertKeeps ==
    ASSUME NEW q, NEW m, NEW e, NEW s, Caches(q, m, e, s), NEW k \in Keys \ DOMAIN m, NEW v \in Values,
           NEW i \in Items, \A n \in 1..Len(s) : s[n] # i,
           NEW d, Adds(d, m, k, i),
           NEW f, Replaces(f, e, i, <<k, v>>)
    PROVE  /\ Caches(PushFront(q, i), d, f, Pushed(i, s))
           /\ EntriesOf(f, Pushed(i, s)) = Pushed(<<k, v>>, EntriesOf(e, s))
<1> DEFINE t == Pushed(i, s)
<1>1. /\ Represents(q, s) /\ e = [j \in Items |-> e[j]] /\ DOMAIN m \subseteq Keys
      /\ s \in Seq(Items) /\ Len(s) \in Nat
      /\ \A n \in 1..Len(s) :
            s[n] \in Items /\ e[s[n]] \in Keys \X Values /\ e[s[n]][1] \in DOMAIN m /\ m[e[s[n]][1]] = s[n]
      /\ \A j \in DOMAIN m : \E n \in 1..Len(s) : s[n] = m[j] /\ e[s[n]][1] = j
    BY EntriesAre DEF Caches, Represents
<1>0. s \in Seq(Items)
    BY <1>1
<1>2. t \in Seq(Items) /\ Len(t) = Len(s) + 1 /\ t[1] = i
    BY <1>0, PushedIs
<1>3. \A n \in 1..Len(s) : t[n + 1] = s[n]
    BY <1>0, PushedIs
<1> HIDE DEF t
<1>4. f = [j \in Items |-> IF j = i THEN <<k, v>> ELSE e[j]]
    BY <1>1 DEF Replaces
<1>5. f = [j \in Items |-> f[j]] /\ f[i] = <<k, v>> /\ \A n \in 1..Len(s) : f[s[n]] = e[s[n]]
    BY <1>1, <1>4
<1>6. DOMAIN d = DOMAIN m \cup {k} /\ d[k] = i /\ \A j \in DOMAIN m : d[j] = m[j]
    BY DEF Adds
<1>7. ASSUME NEW n \in 1..Len(t)
      PROVE  f[t[n]] \in Keys \X Values /\ f[t[n]][1] \in DOMAIN d /\ d[f[t[n]][1]] = t[n]
    <2>1. CASE n = 1
        BY <1>2, <1>5, <1>6, <2>1
    <2>2. CASE n # 1
        <3>1. n - 1 \in 1..Len(s) /\ (n - 1) + 1 = n
            BY <1>1, <1>2, <2>2
        <3>2. t[n] = s[n - 1]
            BY <1>3, <3>1
        <3> QED
            BY <1>1, <1>5, <1>6, <3>1, <3>2
    <2> QED
        BY <2>1, <2>2
<1>8. ASSUME NEW j \in DOMAIN d PROVE \E n \in 1..Len(t) : t[n] = d[j] /\ f[t[n]][1] = j
    <2>1. CASE j = k
        <3>1. 1 \in 1..Len(t)
            BY <1>1, <1>2
        <3> QED
            BY <1>2, <1>5, <1>6, <2>1, <3>1
    <2>2. CASE j # k
        <3>1. PICK n \in 1..Len(s) : s[n] = m[j] /\ e[s[n]][1] = j
            BY <1>1, <1>6, <2>2
        <3>2. n + 1 \in 1..Len(t)
            BY <1>1, <1>2
        <3> QED
            BY <1>3, <1>5, <1>6, <2>2, <3>1, <3>2
    <2> QED
        BY <2>1, <2>2
<1>9. Represents(PushFront(q, i), t)
    BY <1>1, PushFrontRepresents DEF t
<1>10. Caches(PushFront(q, i), d, f, t)
    BY <1>1, <1>5, <1>6, <1>7, <1>8, <1>9 DEF Caches
<1>11. EntriesOf(f, t) = Pushed(<<k, v>>, EntriesOf(e, s))
    <2> DEFINE S == Keys \X Values
    <2>1. f[i] \in S /\ \A n \in 1..Len(s) : f[s[n]] \in S
        BY <1>1, <1>5
    <2> HIDE DEF S
    <2>2. EntriesOf(f, t) = Pushed(f[i], EntriesOf(f, s))
        BY <1>1, <2>1, PushedEntries DEF t
    <2>3. EntriesOf(f, s) = EntriesOf(e, s)
        BY <1>5 DEF EntriesOf
    <2> QED
        BY <1>5, <2>2, <2>3
<1> QED
    BY <1>10, <1>11 DEF t

\* The last entry leaves the list and the map.
LEMMA EvictKeeps ==
    ASSUME NEW q, NEW m, NEW e, NEW s, Caches(q, m, e, s), Len(s) # 0
    PROVE  /\ Caches(Remove(q, q.back), Without(m, e[q.back][1]), e, Dropped(s, Len(s)))
           /\ EntriesOf(e, Dropped(s, Len(s))) = Dropped(EntriesOf(e, s), Len(s))
<1> DEFINE L == Len(s)
           t == Dropped(s, L)
           k == e[s[L]][1]
           d == Without(m, k)
<1>1. /\ Represents(q, s) /\ e = [i \in Items |-> e[i]] /\ DOMAIN m \subseteq Keys
      /\ s \in Seq(Items) /\ L \in Nat
      /\ \A a, b \in 1..L : s[a] = s[b] => a = b
      /\ \A n \in 1..L :
            s[n] \in Items /\ e[s[n]] \in Keys \X Values /\ e[s[n]][1] \in DOMAIN m /\ m[e[s[n]][1]] = s[n]
      /\ \A j \in DOMAIN m : \E n \in 1..L : s[n] = m[j] /\ e[s[n]][1] = j
    BY EntriesAre DEF Caches, Represents, Distinct
<1>2. L \in 1..L /\ q.back = s[L]
    BY <1>1 DEF Represents, At
<1>3. /\ Len(t) = L - 1 /\ L - 1 \in Nat
      /\ \A n \in 1..(L - 1) : n \in 1..L /\ t[n] = s[IF n < L THEN n ELSE n + 1]
    <2>1. s \in Seq(Items) /\ Len(s) \in 1..Len(s)
        BY <1>1, <1>2
    <2> QED
        BY <2>1, DroppedIs
<1>4. Represents(Remove(q, q.back), t)
    BY <1>1, <1>2, RemoveRepresents
<1>5. EntriesOf(e, t) = Dropped(EntriesOf(e, s), L)
    BY <1>2, DroppedEntries
<1> HIDE DEF t, L
<1>6. \A n \in 1..(L - 1) : n \in 1..L /\ n # L /\ t[n] = s[n]
    BY <1>1, <1>3
<1>7. DOMAIN d = DOMAIN m \ {k} /\ \A j \in DOMAIN m \ {k} : d[j] = m[j]
    BY DEF Without
<1> HIDE DEF d
<1>8. \A n \in 1..Len(t) : e[t[n]] \in Keys \X Values /\ e[t[n]][1] \in DOMAIN d /\ d[e[t[n]][1]] = t[n]
    BY <1>1, <1>2, <1>3, <1>6, <1>7
<1>9. ASSUME NEW j \in DOMAIN d PROVE \E n \in 1..Len(t) : t[n] = d[j] /\ e[t[n]][1] = j
    <2>1. PICK n \in 1..L : s[n] = m[j] /\ e[s[n]][1] = j
        BY <1>1, <1>7
    <2>2. n # L
        BY <1>7, <2>1
    <2>3. n \in 1..(L - 1)
        BY <1>1, <2>2
    <2> QED
        BY <1>3, <1>6, <1>7, <2>1, <2>3
<1>10. Caches(Remove(q, q.back), d, e, t)
    BY <1>1, <1>4, <1>7, <1>8, <1>9 DEF Caches
<1> QED
    BY <1>2, <1>5, <1>10 DEF t, d, L

\* What RecencyCache reads off the entries is what the map says.
LEMMA CacheReads ==
    ASSUME CacheInv
    PROVE  LET s == Forward(queue)
               x == EntriesOf(entry, s)
           IN  /\ Entries = x /\ x \in Seq(Keys \X Values) /\ Len(x) = Len(s) /\ Len(s) \in Nat
               /\ \A k : Recency!Present(k) <=> k \in DOMAIN items
               /\ \A k \in DOMAIN items :
                     LET p == Recency!Place(k)
                     IN  /\ p \in 1..Len(s) /\ s[p] = items[k] /\ k \in Keys
                         /\ Recency!Others(k) = Dropped(x, p)
                         /\ entry[items[k]] = <<k, Recency!ValueOf(k)>> /\ Recency!ValueOf(k) \in Values
               /\ \A k : k \notin DOMAIN items => Recency!Others(k) = x
<1> DEFINE s == Forward(queue)
           x == EntriesOf(entry, s)
<1>1. Caches(queue, items, entry, s)
    BY DEF CacheInv
<1>2. Entries = x
    BY DEF Entries, EntriesOf
<1>3. /\ x \in Seq(Keys \X Values) /\ Len(x) = Len(s) /\ Len(s) \in Nat
      /\ \A n \in 1..Len(s) : x[n] = entry[s[n]]
    <2> HIDE DEF s
    <2> QED
        BY <1>1, EntriesAre
<1>4. /\ DOMAIN items \subseteq Keys
      /\ \A n \in 1..Len(s) :
            /\ x[n] \in Keys \X Values /\ x[n][1] \in DOMAIN items /\ items[x[n][1]] = s[n]
            /\ x[n] = entry[s[n]]
      /\ \A k \in DOMAIN items : \E n \in 1..Len(s) : s[n] = items[k] /\ x[n][1] = k
    <2> HIDE DEF s, x
    <2> QED
        BY <1>1, <1>3 DEF Caches
<1> HIDE DEF x, s
<1>5. \A k : Recency!Present(k) <=> \E n \in 1..Len(s) : x[n][1] = k
    BY <1>2, <1>3 DEF Recency!Present
<1>6. \A k : Recency!Present(k) <=> k \in DOMAIN items
    BY <1>4, <1>5
<1>7. ASSUME NEW k \in DOMAIN items
      PROVE  LET p == Recency!Place(k)
             IN  /\ p \in 1..Len(s) /\ s[p] = items[k] /\ k \in Keys
                 /\ Recency!Others(k) = Dropped(x, p)
                 /\ entry[items[k]] = <<k, Recency!ValueOf(k)>> /\ Recency!ValueOf(k) \in Values
    <2> DEFINE p == Recency!Place(k)
    <2>1. p \in 1..Len(s) /\ x[p][1] = k
        <3>1. p = CHOOSE n \in 1..Len(s) : x[n][1] = k
            BY <1>2, <1>3 DEF Recency!Place
        <3>2. \E n \in 1..Len(s) : x[n][1] = k
            BY <1>4
        <3> HIDE DEF p
        <3> QED
            BY <3>1, <3>2
    <2>2. Recency!Others(k) = Dropped(x, p) /\ Recency!ValueOf(k) = x[p][2]
        BY <1>2, <1>6, <1>7 DEF Recency!Others, Dropped, Recency!ValueOf
    <2> HIDE DEF p
    <2>3. s[p] = items[k] /\ x[p] \in Keys \X Values /\ x[p] = entry[s[p]]
        BY <1>4, <2>1
    <2>4. x[p] = <<x[p][1], x[p][2]>> /\ x[p][2] \in Values
        BY <2>3
    <2> QED
        BY <1>4, <2>1, <2>2, <2>3, <2>4 DEF p
<1>8. \A k : k \notin DOMAIN items => Recency!Others(k) = x
    BY <1>2, <1>6 DEF Recency!Others
<1> QED
    BY <1>2, <1>3, <1>6, <1>7, <1>8 DEF s, x

\* A step that leaves a list, a map and entries that go together.
LEMMA CacheAfter ==
    ASSUME NEW t, Caches(queue', items', entry', t), capacity' \in Nat, Len(t) <= capacity'
    PROVE  CacheInv' /\ Entries' = EntriesOf(entry', t)
<1>1. Forward(queue') = t
    BY ForwardIs DEF Caches
<1>2. CacheInv'
    BY <1>1 DEF CacheInv
<1> QED
    BY <1>1, <1>2 DEF Entries, EntriesOf

LEMMA SetPresentStep ==
    ASSUME CacheInv, NEW k \in Keys, NEW v \in Values, SetPresent(k, v), UNCHANGED capacity
    PROVE  CacheInv' /\ Recency!Set(k, v)
<1> DEFINE s == Forward(queue)
           x == EntriesOf(entry, s)
           p == Recency!Place(k)
           t == Pushed(items[k], Dropped(s, p))
<1>1. /\ k \in DOMAIN items /\ entry' = [entry EXCEPT ![items[k]] = <<k, v>>]
      /\ queue' = MoveToFront(queue, items[k]) /\ answer' = <<"Set", k, v, TRUE>> /\ items' = items
    BY DEF SetPresent
<1>2. /\ Caches(queue, items, entry, s) /\ capacity \in Nat /\ Len(s) <= capacity
      /\ p \in 1..Len(s) /\ s[p] = items[k] /\ Recency!Present(k)
      /\ Recency!Others(k) = Dropped(x, p)
    BY <1>1, CacheReads DEF CacheInv
<1> HIDE DEF s, p
<1>3. /\ Caches(queue', items', entry', t) /\ Len(t) = Len(s)
      /\ EntriesOf(entry', t) = Pushed(<<k, v>>, Dropped(x, p))
    <2>1. Replaces(entry', entry, items[k], <<k, v>>)
        BY <1>1 DEF Replaces
    <2> QED
        BY <1>1, <1>2, <2>1, UseKeeps
<1> HIDE DEF t
<1>4. Len(EntriesOf(entry', t)) = Len(t)
    BY <1>3, EntriesAre
<1>5. CacheInv' /\ Entries' = EntriesOf(entry', t)
    BY <1>2, <1>3, CacheAfter
<1>6. /\ Entries' = <<<<k, v>>>> \o Recency!Others(k)
      /\ ~(Len(<<<<k, v>>>> \o Recency!Others(k)) > capacity)
    <2>1. Entries' = <<<<k, v>>>> \o Recency!Others(k)
        BY <1>2, <1>3, <1>5 DEF Pushed
    <2>2. Len(Entries') = Len(s) /\ Len(s) \in Nat
        BY <1>2, <1>3, <1>4, <1>5, EntriesAre
    <2> QED
        BY <1>2, <2>1, <2>2
<1> QED
    BY <1>1, <1>2, <1>5, <1>6 DEF Recency!Set

LEMMA GetStep ==
    ASSUME CacheInv, NEW k \in Keys, Get(k), UNCHANGED capacity
    PROVE  CacheInv' /\ Recency!Get(k)
<1> DEFINE s == Forward(queue)
           x == EntriesOf(entry, s)
           p == Recency!Place(k)
           v == Recency!ValueOf(k)
           t == Pushed(items[k], Dropped(s, p))
<1>1. /\ Caches(queue, items, entry, s) /\ capacity \in Nat /\ Len(s) <= capacity
      /\ items' = items /\ entry' = entry /\ Entries = x
    BY CacheReads DEF CacheInv, Get
<1>2. CASE k \in DOMAIN items
    <2>1. queue' = MoveToFront(queue, items[k]) /\ answer' = <<"Get", k, entry[items[k]][2], TRUE>>
        BY <1>2 DEF Get
    <2>2. /\ p \in 1..Len(s) /\ s[p] = items[k] /\ Recency!Present(k) /\ Recency!Others(k) = Dropped(x, p)
          /\ entry[items[k]] = <<k, v>> /\ v \in Values
        BY <1>2, CacheReads
    <2> HIDE DEF s, p, v
    <2>3. Replaces(entry, entry, items[k], <<k, v>>)
        <3>1. entry = [i \in Items |-> entry[i]]
            BY <1>1 DEF Caches
        <3> QED
            BY <2>2, <3>1 DEF Replaces
    <2>4. /\ Caches(queue', items', entry', t) /\ Len(t) = Len(s)
          /\ EntriesOf(entry, t) = Pushed(<<k, v>>, Dropped(x, p))
        BY <1>1, <1>2, <2>1, <2>2, <2>3, UseKeeps
    <2> HIDE DEF t
    <2>5. CacheInv' /\ Entries' = EntriesOf(entry', t)
        BY <1>1, <2>4, CacheAfter
    <2>6. Entries' = <<<<k, v>>>> \o Recency!Others(k) /\ answer' = <<"Get", k, v, TRUE>>
        BY <1>1, <2>1, <2>2, <2>4, <2>5 DEF Pushed
    <2> QED
        BY <2>2, <2>5, <2>6 DEF Recency!Get, v
<1>3. CASE k \notin DOMAIN items
    <2>1. queue' = queue /\ answer' = <<"Get", k, FALSE>>
        BY <1>3 DEF Get
    <2>2. ~Recency!Present(k)
        BY <1>3, CacheReads
    <2>3. CacheInv' /\ Entries' = Entries
        BY <1>1, <2>1 DEF CacheInv, Entries
    <2> QED
        BY <2>1, <2>2, <2>3 DEF Recency!Get
<1> QED
    BY <1>2, <1>3

LEMMA EmptyCaches ==
    Caches(NewList, NoItems, [i \in Items |-> Nil], <<>>) /\ EntriesOf([i \in Items |-> Nil], <<>>) = <<>>
<1>1. DOMAIN NoItems = {} /\ Len(<<>>) = 0 /\ \A n \in 1..0 : FALSE
    BY DEF NoItems
<1>2. [i \in Items |-> Nil] = [j \in Items |-> [i \in Items |-> Nil][j]]
    OBVIOUS
<1>3. Caches(NewList, NoItems, [i \in Items |-> Nil], <<>>)
    BY <1>1, <1>2, NewListRepresents DEF Caches
<1>4. EntriesOf([i \in Items |-> Nil], <<>>) = <<>>
    <2> DEFINE y == EntriesOf([i \in Items |-> Nil], <<>>)
    <2>1. y \in Seq(Keys \X Values) /\ Len(y) = 0
        BY <1>1, <1>3, EntriesAre
    <2> HIDE DEF y
    <2>2. y = <<>>
        BY <2>1
    <2> QED
        BY <2>2 DEF y
<1> QED
    BY <1>3, <1>4

\* Without its last element a sequence is cut by one.
LEMMA DroppedLast ==
    ASSUME NEW S, NEW x \in Seq(S), Len(x) # 0
    PROVE  Dropped(x, Len(x)) = SubSeq(x, 1, Len(x) - 1)
<1> DEFINE y == Dropped(x, Len(x))
           z == SubSeq(x, 1, Len(x) - 1)
<1>1. Len(x) \in Nat /\ Len(x) \in 1..Len(x) /\ Len(x) - 1 \in Nat
    OBVIOUS
<1>2. /\ y \in Seq(S) /\ Len(y) = Len(x) - 1
      /\ \A n \in 1..(Len(x) - 1) : y[n] = x[IF n < Len(x) THEN n ELSE n + 1]
    BY <1>1, DroppedIs
<1>3. z \in Seq(S) /\ Len(z) = Len(x) - 1 /\ \A n \in 1..(Len(x) - 1) : z[n] = x[n]
    <2>0. Len(x) - 1 \in 0..Len(x)
        BY <1>1
    <2>1. PICK l \in 0..Len(x) : l = Len(x) - 1
        BY <2>0
    <2>2. SubSeq(x, 1, l) \in Seq(S) /\ Len(SubSeq(x, 1, l)) = l /\ \A n \in 1..l : SubSeq(x, 1, l)[n] = x[n]
        OBVIOUS
    <2> QED
        BY <2>1, <2>2
<1> HIDE DEF y, z
<1>4. \A n \in 1..(Len(x) - 1) : y[n] = z[n]
    BY <1>1, <1>2, <1>3
<1>5. y = z
    BY <1>2, <1>3, <1>4, SeqEqual
<1> QED
    BY <1>5 DEF y, z

LEMMA SetAbsentStep ==
    ASSUME CacheInv, NEW k \in Keys, NEW v \in Values, SetAbsent(k, v), UNCHANGED capacity
    PROVE  CacheInv' /\ Recency!Set(k, v)
<1> DEFINE s == Forward(queue)
           x == EntriesOf(entry, s)
           d(i) == [j \in DOMAIN items \cup {k} |-> IF j = k THEN i ELSE items[j]]
           f(i) == [entry EXCEPT ![i] = <<k, v>>]
           last(i) == PushFront(queue, i).back
           all == Pushed(<<k, v>>, x)
<1>1. PICK i \in Items \ ItemsOf(queue) :
          LET evicted == Evict(PushFront(queue, i), d(i), f(i))
          IN  /\ queue' = evicted[1] /\ items' = evicted[2]
              /\ entry' = [j \in Items |-> IF j \in ItemsOf(evicted[1]) THEN f(i)[j] ELSE Nil]
    BY DEF SetAbsent
<1> DEFINE t == Pushed(i, s)
<1>2. /\ Caches(queue, items, entry, s) /\ capacity \in Nat /\ Len(s) <= capacity /\ Len(s) \in Nat
      /\ k \notin DOMAIN items /\ answer' = <<"Set", k, v, FALSE>>
      /\ ~Recency!Present(k) /\ Recency!Others(k) = x
    BY CacheReads DEF CacheInv, SetAbsent
<1>3. \A n \in 1..Len(s) : s[n] # i
    <2>1. ItemsOf(queue) = {s[n] : n \in 1..Len(s)}
        BY DEF ItemsOf
    <2> QED
        BY <2>1
<1> HIDE DEF s
<1>d. PICK m : m = d(i)
    OBVIOUS
<1>f. PICK e : e = f(i)
    OBVIOUS
<1> HIDE DEF d, f
<1>4. /\ Caches(PushFront(queue, i), m, e, t) /\ EntriesOf(e, t) = all
    <2>1. Replaces(e, entry, i, <<k, v>>)
        BY <1>f DEF Replaces, f
    <2>2. Adds(m, items, k, i)
        BY <1>d DEF Adds, d
    <2> QED
        BY <1>2, <1>3, <2>1, <2>2, InsertKeeps
<1>5. Len(t) = Len(s) + 1 /\ PushFront(queue, i).length = Len(t)
    <2>1. t \in Seq(Items) /\ Len(EntriesOf(e, t)) = Len(t)
        BY <1>4, EntriesAre
    <2>2. s \in Seq(Items)
        BY <1>2, EntriesAre
    <2>3. Len(t) = Len(s) + 1
        BY <2>2, PushedIs
    <2> QED
        BY <1>4, <2>3 DEF Caches, Represents
<1>6. all \in Seq(Keys \X Values) /\ Len(all) = Len(t)
    BY <1>4, EntriesAre
<1> HIDE DEF t
<1>a. /\ all = <<<<k, v>>>> \o Recency!Others(k)
      /\ answer' = <<"Set", k, v, Recency!Present(k)>>
    <2>1. Recency!Present(k) = FALSE
        BY <1>2
    <2> QED
        BY <1>2, <2>1 DEF Pushed
<1>7. ASSUME NEW q, NEW w, NEW u, Caches(q, w, e, u), Len(u) <= capacity,
             queue' = q, items' = w,
             entry' = [j \in Items |-> IF j \in ItemsOf(q) THEN e[j] ELSE Nil]
      PROVE  CacheInv' /\ Entries' = EntriesOf(e, u)
    <2>0. Represents(q, u)
        BY <1>7 DEF Caches
    <2>1. ItemsOf(q) = {u[n] : n \in 1..Len(u)} /\ \A n \in 1..Len(u) : u[n] \in Items
        <3>1. ItemsOf(q) = {u[n] : n \in 1..Len(u)}
            BY <2>0, ForwardIs
        <3>2. \A n \in 1..Len(u) : u[n] \in Items
            BY <2>0 DEF Represents
        <3> QED
            BY <3>1, <3>2
    <2>2. entry' = [j \in Items |-> entry'[j]] /\ \A n \in 1..Len(u) : entry'[u[n]] = e[u[n]]
        BY <1>7, <2>1
    <2>3. Caches(q, w, entry', u) /\ EntriesOf(entry', u) = EntriesOf(e, u)
        BY <1>7, <2>2, EntriesElsewhere
    <2> QED
        BY <1>2, <1>7, <2>3, CacheAfter
<1>8. CASE Len(t) > capacity
    <2> DEFINE q == Remove(PushFront(queue, i), last(i))
               w == Without(m, e[last(i)][1])
               u == Dropped(t, Len(t))
    <2>1. Evict(PushFront(queue, i), m, e) = <<q, w>>
        BY <1>5, <1>8 DEF Evict
    <2>2. Len(t) # 0 /\ Len(t) \in Nat /\ Len(t) - 1 = Len(s) /\ Len(s) = capacity
        BY <1>2, <1>5, <1>8
    <2>3. Caches(q, w, e, u) /\ EntriesOf(e, u) = Dropped(all, Len(all))
        BY <1>4, <1>6, <2>2, EvictKeeps
    <2>4. Len(u) = Len(s)
        <3>1. t \in Seq(Items) /\ Len(t) \in 1..Len(t)
            BY <1>4, <2>2, EntriesAre
        <3> QED
            BY <2>2, <3>1, DroppedIs
    <2>5. queue' = q /\ items' = w /\ entry' = [j \in Items |-> IF j \in ItemsOf(q) THEN e[j] ELSE Nil]
        BY <1>1, <1>d, <1>f, <2>1
    <2> HIDE DEF q, w, u
    <2>6. CacheInv' /\ Entries' = EntriesOf(e, u)
        BY <1>2, <1>7, <2>3, <2>4, <2>5
    <2>7. Dropped(all, Len(all)) = SubSeq(all, 1, Len(all) - 1)
        <3> DEFINE K == Keys \X Values
        <3> HIDE DEF K, all
        <3>1. all \in Seq(K) /\ Len(all) # 0
            BY <1>6, <2>2 DEF K
        <3> QED
            BY <3>1, DroppedLast
    <2>8. Entries' = SubSeq(all, 1, capacity) /\ Len(all) > capacity
        BY <1>6, <1>8, <2>2, <2>3, <2>6, <2>7
    <2> QED
        <3> HIDE DEF all
        <3> QED
            BY <1>a, <1>2, <2>6, <2>8 DEF Recency!Set
<1>9. CASE ~(Len(t) > capacity)
    <2> DEFINE q == PushFront(queue, i)
    <2>1. Evict(q, m, e) = <<q, m>>
        BY <1>5, <1>9 DEF Evict
    <2>2. queue' = q /\ items' = m /\ entry' = [j \in Items |-> IF j \in ItemsOf(q) THEN e[j] ELSE Nil]
        BY <1>1, <1>d, <1>f, <2>1
    <2>3. Len(t) <= capacity
        BY <1>2, <1>5, <1>9
    <2> HIDE DEF q
    <2>4. CacheInv' /\ Entries' = EntriesOf(e, t)
        BY <1>4, <1>7, <2>2, <2>3 DEF q
    <2>5. Entries' = all /\ ~(Len(all) > capacity)
        BY <1>4, <1>6, <1>9, <2>4
    <2> QED
        <3> HIDE DEF all
        <3> QED
            BY <1>a, <1>2, <2>4, <2>5 DEF Recency!Set
<1> QED
    BY <1>8, <1>9

LEMMA CacheStep ==
    ASSUME CacheInv, CacheNext
    PROVE  CacheInv' /\ Recency!Next
<1>1. UNCHANGED capacity /\ capacity \in Nat
    BY DEF CacheNext, CacheInv
<1>2. CASE Clear
    <2>1. /\ queue' = NewList /\ items' = NoItems /\ entry' = [i \in Items |-> Nil]
          /\ answer' = <<"Clear">>
        BY <1>2 DEF Clear
    <2>2. Caches(queue', items', entry', <<>>) /\ EntriesOf(entry', <<>>) = <<>>
        BY <2>1, EmptyCaches
    <2>3. Len(<<>>) <= capacity'
        BY <1>1
    <2>4. CacheInv' /\ Entries' = <<>>
        BY <1>1, <2>2, <2>3, CacheAfter
    <2> QED
        BY <1>1, <2>1, <2>4 DEF Recency!Next, Recency!Clear
<1>3. ASSUME NEW k \in Keys, Get(k)
      PROVE  CacheInv' /\ Recency!Next
    BY <1>1, <1>3, GetStep DEF Recency!Next
<1>4. ASSUME NEW k \in Keys, NEW v \in Values, Set(k, v)
      PROVE  CacheInv' /\ Recency!Next
    BY <1>1, <1>4, SetPresentStep, SetAbsentStep DEF Recency!Next, Set
<1> QED
    BY <1>2, <1>3, <1>4 DEF CacheNext

LEMMA InitCache == CacheInit => CacheInv /\ Recency!Init
<1> SUFFICES ASSUME CacheInit PROVE CacheInv /\ Recency!Init
    OBVIOUS
<1>1. /\ queue = NewList /\ items = NoItems /\ entry = [i \in Items |-> Nil] /\ answer = <<"NewCache">>
      /\ capacity \in Nat
    BY CacheAssumption DEF CacheInit
<1>2. Caches(queue, items, entry, <<>>) /\ EntriesOf(entry, <<>>) = <<>>
    BY <1>1, EmptyCaches
<1>3. Forward(queue) = <<>>
    BY <1>2, ForwardIs DEF Caches
<1>4. CacheInv /\ Entries = <<>>
    BY <1>1, <1>2, <1>3 DEF CacheInv, Entries, EntriesOf
<1> QED
    BY <1>1, <1>4 DEF Recency!Init

\* Map and list agree in every state the invariant allows.
LEMMA CachesMatch ==
    ASSUME CacheInv
    PROVE  MapMatchesList
<1> DEFINE s == Forward(queue)
<1>1. Caches(queue, items, entry, s)
    BY DEF CacheInv
<1>2. WellFormed(queue)
    BY <1>1, RepresentsIsWellFormed DEF Caches
<1>3. ItemsOf(queue) = {s[n] : n \in 1..Len(s)}
    BY DEF ItemsOf
<1> HIDE DEF s
<1>4. {items[k] : k \in DOMAIN items} = ItemsOf(queue)
    BY <1>1, <1>3 DEF Caches
<1>5. \A k \in DOMAIN items : entry[items[k]][1] = k
    BY <1>1 DEF Caches
<1> QED
    BY <1>2, <1>4, <1>5 DEF MapMatchesList

LEMMA CacheInvariant == ExercisesSpec => []CacheInv
<1>1. ExercisesInit => CacheInv
    BY InitCache DEF ExercisesInit, CacheIdle
<1>2. CacheInv /\ [ExercisesNext]_allVars => CacheInv'
    <2>1. ASSUME CacheInv, UNCHANGED cacheVars PROVE CacheInv'
        BY <2>1 DEF CacheInv, cacheVars
    <2> QED
        BY <2>1, CacheStep DEF ExercisesNext, allVars
<1> QED
    BY <1>1, <1>2, PTL DEF ExercisesSpec

\* The cache implements the one that keeps its entries in the order of their last
\* use, for any capacity, zero included, any keys and values: every Set, Get and
\* Clear answers as that one does, and evicts the same entry.
THEOREM CacheKeepsRecency == ExercisesSpec => ImplementsRecencyCache
<1>1. ExercisesInit => Recency!Init
    BY InitCache DEF ExercisesInit, CacheIdle
<1>2. CacheInv /\ [ExercisesNext]_allVars => [Recency!Next]_Recency!vars
    <2>1. UNCHANGED cacheVars => UNCHANGED Recency!vars
        BY DEF cacheVars, Recency!vars, Entries
    <2> QED
        BY <2>1, CacheStep DEF ExercisesNext, allVars
<1> QED
    BY <1>1, <1>2, CacheInvariant, PTL DEF ExercisesSpec, ImplementsRecencyCache, Recency!Spec

\* After every sequence of calls the list reads the same in both directions, has no
\* cycle and is as long as Len says; the map of the cache leads to the items of its
\* list and to no other, and each item to its own key.
THEOREM ListsStayWellFormed == ExercisesSpec => [](ListWellFormed /\ MapMatchesList)
<1>1. ListInv => ListWellFormed
    BY RepresentsIsWellFormed DEF ListInv, ListWellFormed
<1>2. CacheInv => MapMatchesList
    BY CachesMatch
<1> QED
    BY <1>1, <1>2, ListInvariant, CacheInvariant, PTL

-----------------------------------------------------------------------------
(* hw07: the copy of a file.                                                *)

\* What copyFile has copied and shown, from the checks to the return.
Copying == pc = "copy" \/ C!Succeeded

Requested == IF limit > 0 /\ limit < size - offset THEN limit ELSE size - offset

CopyTypes ==
    /\ pc \in {"open", "destination", "copy", "returned"}
    /\ source = Missing \/ source \in Seq(Nat)
    /\ offset \in Int /\ limit \in Int /\ disturbed \in Nat
    /\ reports \in Seq(0..100)

\* The bounds that OpenSource computed still stand.
Planned ==
    pc = "destination" \/ Copying =>
        /\ source \in Seq(Nat) /\ size \in Nat /\ offset \in 0..size /\ limit >= 0
        /\ total = Requested
        /\ disturbed = 0 => size = Len(source)

\* Past the comparison of the two files they are two.
Apart == Copying => linked = FALSE

Copied ==
    /\ pc \in {"open", "destination"} => written = 0
    /\ pc = "destination" => position = offset
    /\ Copying =>
        /\ target \in Seq(Nat) /\ written = Len(target) /\ written <= total
        /\ position = offset + written
        /\ disturbed = 0 => target = SubSeq(source, offset + 1, offset + written)
    /\ C!Succeeded => written = total

\* The last percentage never runs ahead of what is written.
Shown ==
    /\ pc \in {"open", "destination"} => reports = <<>>
    /\ \A i \in 1..(Len(reports) - 1) : reports[i] < reports[i + 1]
    /\ reports # <<>> => reports[1] = 0
    /\ pc = "copy" =>
        /\ reports # <<>> /\ lastPercent = reports[Len(reports)]
        /\ lastPercent * total <= written * 100
    /\ C!Succeeded => reports # <<>> /\ reports[Len(reports)] = 100
    /\ pc \in {"open", "destination"} => lastPercent = -1

CopyInv == CopyTypes /\ Planned /\ Apart /\ Copied /\ Shown

-----------------------------------------------------------------------------
\* A percentage rounded down does not fall and does not exceed 100.
LEMMA Percentage ==
    ASSUME NEW a \in Nat, NEW t \in Nat \ {0}, NEW q \in Nat, q * t <= a, a <= 100 * t
    PROVE  a \div t \in q..100 /\ (a \div t) * t <= a
<1> DEFINE p == a \div t
<1>1. p \in Nat /\ p * t <= a /\ a < (p + 1) * t
    OBVIOUS
<1> HIDE DEF p
<1>3. p >= q
    <2>1. SUFFICES ASSUME p + 1 <= q PROVE FALSE
        BY <1>1
    <2>2. (p + 1) * t <= q * t /\ q * t \in Nat /\ (p + 1) * t \in Nat
        BY <1>1, <2>1
    <2> QED
        BY <1>1, <2>2
<1>4. p <= 100
    <2>1. SUFFICES ASSUME 101 <= p PROVE FALSE
        BY <1>1
    <2>2. 101 * t <= p * t /\ p * t \in Nat
        BY <1>1, <2>1
    <2> QED
        BY <1>1, <2>2
<1> QED
    BY <1>1, <1>3, <1>4 DEF p

\* One turn of the loop appends the next n elements of s to t, whose elements come
\* from s after the first o.
Extends(u, t, s, o, n) ==
    /\ o \in Nat /\ n \in Nat /\ o + Len(t) + n <= Len(s)
    /\ u = t \o SubSeq(s, o + Len(t) + 1, o + Len(t) + n)

LEMMA NextChunk ==
    ASSUME NEW S, NEW s \in Seq(S), NEW t \in Seq(S), NEW o, NEW n, NEW u, Extends(u, t, s, o, n)
    PROVE  /\ u \in Seq(S) /\ Len(u) = Len(t) + n
           /\ t = SubSeq(s, o + 1, o + Len(t)) => u = SubSeq(s, o + 1, o + Len(t) + n)
<1>e. o \in Nat /\ n \in Nat /\ o + Len(t) + n <= Len(s)
    BY DEF Extends
<1> DEFINE w == Len(t)
           c == SubSeq(s, o + w + 1, o + w + n)
           v == SubSeq(s, o + 1, o + w + n)
<1>0. w \in Nat
    OBVIOUS
<1>1. c \in Seq(S) /\ Len(c) = n /\ \A i \in 1..n : c[i] = s[o + w + i]
    <2> DEFINE b == o + w
    <2>1. b \in Nat /\ n \in Nat /\ b + n <= Len(s)
        BY <1>0, <1>e
    <2>2. c = SubSeq(s, b + 1, b + n)
        BY <1>0, <1>e
    <2> HIDE DEF b, c, w
    <2>4. c \in Seq(S)
        BY <2>1, <2>2
    <2>5. Len(c) = n
        BY <2>1, <2>2
    <2>3. ASSUME NEW i \in 1..n PROVE c[i] = s[b + i]
        BY <2>1, <2>2
    <2> QED
        BY <2>3, <2>4, <2>5 DEF b
<1>2. u \in Seq(S) /\ Len(u) = w + n
      /\ \A i \in 1..(w + n) : u[i] = IF i <= w THEN t[i] ELSE c[i - w]
    <2> HIDE DEF c
    <2>3. u = t \o c
        BY DEF c, Extends
    <2>1. u \in Seq(S) /\ Len(u) = w + n
        BY <1>1, <2>3, ConcatProperties
    <2>2. ASSUME NEW i \in 1..(w + n)
          PROVE  u[i] = IF i <= w THEN t[i] ELSE c[i - w]
        BY <1>0, <1>e, <1>1, <2>3
    <2> QED
        BY <2>1, <2>2
<1>3. v \in Seq(S) /\ Len(v) = w + n /\ \A i \in 1..(w + n) : v[i] = s[o + i]
    BY <1>0, <1>e
<1>4. ASSUME t = SubSeq(s, o + 1, o + w)
      PROVE  u = v
    <2>0. w \in Nat /\ o + w <= Len(s)
        BY <1>0, <1>e
    <2>1. \A i \in 1..w : t[i] = s[o + i]
        <3> HIDE DEF w
        <3>1. \A i \in 1..w : SubSeq(s, o + 1, o + w)[i] = s[o + i]
            BY <1>e, <2>0
        <3> QED
            BY <1>4, <3>1
    <2>2. \A i \in 1..(w + n) : u[i] = v[i]
        <3> HIDE DEF v, c, w
        <3> TAKE i \in 1..(w + n)
        <3>1. CASE i <= w
            <4>1. i \in 1..w
                BY <1>0, <1>e, <3>1
            <4>2. u[i] = t[i]
                BY <1>2, <3>1
            <4> QED
                BY <1>3, <2>1, <4>1, <4>2
        <3>2. CASE ~(i <= w)
            <4>1. i - w \in 1..n /\ o + w + (i - w) = o + i
                BY <1>0, <1>e, <3>2
            <4>2. u[i] = c[i - w] /\ c[i - w] = s[o + w + (i - w)]
                BY <1>1, <1>2, <3>2, <4>1
            <4> QED
                BY <1>3, <4>1, <4>2
        <3> QED
            BY <3>1, <3>2
    <2> HIDE DEF v, c, w
    <2> QED BY <1>0, <1>e, <1>2, <1>3, <2>2, SeqEqual
<1> QED
    BY <1>2, <1>4

\* The percentages grow by a report.
LEMMA ReportGrows ==
    ASSUME CopyTypes, Shown, NEW p \in 0..100, C!Report(p),
           reports = <<>> => p = 0 /\ lastPercent = -1,
           reports # <<>> => lastPercent = reports[Len(reports)] /\ lastPercent <= p
    PROVE  /\ reports' \in Seq(0..100) /\ reports' # <<>>
           /\ lastPercent' = p /\ reports'[Len(reports')] = p /\ reports'[1] = 0
           /\ \A i \in 1..(Len(reports') - 1) : reports'[i] < reports'[i + 1]
<1>1. CASE p = lastPercent
    <2>1. reports # <<>> /\ reports' = reports /\ lastPercent' = p
        BY <1>1 DEF C!Report
    <2> QED
        BY <1>1, <2>1 DEF CopyTypes, Shown
<1>2. CASE p # lastPercent
    <2>1. reports' = Append(reports, p) /\ lastPercent' = p
        BY <1>2 DEF C!Report
    <2>2. reports \in Seq(0..100)
        BY DEF CopyTypes
    <2>3. /\ reports' \in Seq(0..100) /\ Len(reports') = Len(reports) + 1
          /\ reports'[Len(reports) + 1] = p
          /\ \A i \in 1..Len(reports) : reports'[i] = reports[i]
        BY <2>1, <2>2
    <2>4. CASE reports = <<>>
        BY <2>1, <2>2, <2>3, <2>4
    <2>5. CASE reports # <<>>
        <3>1. Len(reports) \in Nat /\ Len(reports) >= 1
            BY <2>2, <2>5
        <3>4. lastPercent \in 0..100 /\ lastPercent <= p
            <4>1. reports[Len(reports)] \in 0..100
                BY <2>2, <2>5, LastElement
            <4> QED
                BY <2>5, <4>1
        <3>5. lastPercent < p
            BY <1>2, <3>4
        <3>2. reports'[1] = 0
            BY <2>3, <2>5, <3>1 DEF Shown
        <3>3. ASSUME NEW i \in 1..Len(reports)
              PROVE  reports'[i] < reports'[i + 1]
            <4>1. CASE i = Len(reports)
                BY <2>3, <2>5, <3>1, <3>5, <4>1
            <4>2. CASE i < Len(reports)
                BY <2>2, <2>3, <3>1, <4>2 DEF Shown
            <4> QED
                BY <3>1, <4>1, <4>2
        <3> QED
            BY <2>1, <2>3, <3>1, <3>2, <3>3
    <2> QED
        BY <2>4, <2>5
<1> QED
    BY <1>1, <1>2

-----------------------------------------------------------------------------
LEMMA InitCopyInv == C!Init => CopyInv
BY CopyAssumption DEF C!Init, CopyInv, CopyTypes, Planned, Apart, Copied, Shown, Copying, C!Succeeded

LEMMA OpenSourceKeeps ==
    ASSUME CopyInv, C!OpenSource
    PROVE  CopyInv'
<1>1. CASE pc' = "returned" /\ resultErr' = "refused"
    BY <1>1 DEF C!OpenSource, CopyInv, CopyTypes, Planned, Apart, Copied, Shown, Copying,
        C!Succeeded, C!args, C!fileVars, C!Return
<1>2. CASE pc' = "destination"
    <2>1. /\ offset >= 0 /\ limit >= 0 /\ source # Missing /\ size' = Len(source)
          /\ offset <= Len(source) /\ position' = offset
          /\ total' = C!BytesToCopy(Len(source) - offset)
          /\ UNCHANGED <<source, offset, limit, disturbed, reports, written, lastPercent>>
        <3>1. offset \in Int /\ limit \in Int /\ (source # Missing => Len(source) \in Int)
            BY DEF CopyInv, CopyTypes
        <3> QED
            BY <1>2, <3>1 DEF C!OpenSource, C!Return, C!args, C!fileVars
    <2>2. pc = "open" /\ source \in Seq(Nat)
        BY <2>1 DEF C!OpenSource, CopyInv, CopyTypes
    <2>3. CopyTypes'
        BY <1>2, <2>1 DEF CopyInv, CopyTypes
    <2>4. Planned'
        BY <1>2, <2>1, <2>2 DEF CopyInv, CopyTypes, Planned, C!BytesToCopy, Requested
    <2>5. Apart' /\ Copied' /\ Shown'
        BY <1>2, <2>1, <2>2 DEF CopyInv, Apart, Copied, Shown, Copying, C!Succeeded
    <2> QED
        BY <2>3, <2>4, <2>5 DEF CopyInv
<1> QED
    BY <1>1, <1>2 DEF C!OpenSource, C!Return

LEMMA ReturnKeeps ==
    ASSUME CopyInv, pc' = "returned", resultErr' = "failed" \/ resultErr' = "same",
           UNCHANGED <<source, offset, limit, disturbed, reports>>
    PROVE  CopyInv'
BY DEF CopyInv, CopyTypes, Planned, Apart, Copied, Shown, Copying, C!Succeeded

LEMMA OpenDestinationKeeps ==
    ASSUME CopyInv, C!OpenDestination
    PROVE  CopyInv'
<1>1. CASE pc' = "returned"
    BY <1>1, ReturnKeeps DEF C!OpenDestination, C!Return, C!args
<1>2. CASE pc' # "returned"
    <2>1. /\ pc = "destination" /\ pc' = "copy" /\ target' = <<>> /\ C!Report(0)
          /\ ~linked /\ UNCHANGED <<linked, source, offset, limit, disturbed, total, written, size, position>>
        BY <1>2 DEF C!OpenDestination, C!SetContent, C!SameFile, C!Return, C!args
    <2>0. Apart'
        BY <2>1 DEF Apart
    <2>2. reports = <<>> /\ lastPercent = -1
        BY <2>1 DEF CopyInv, Shown
    <2>3. /\ reports' \in Seq(0..100) /\ reports' # <<>>
          /\ lastPercent' = 0 /\ reports'[Len(reports')] = 0 /\ reports'[1] = 0
          /\ \A i \in 1..(Len(reports') - 1) : reports'[i] < reports'[i + 1]
        BY <2>1, <2>2, ReportGrows DEF CopyInv
    <2>4. CopyTypes'
        BY <2>1, <2>3 DEF CopyInv, CopyTypes
    <2>5. Planned'
        BY <2>1 DEF CopyInv, Planned, Copying, C!Succeeded, Requested
    <2>6. total' \in Nat /\ offset \in Nat
        BY <2>1 DEF CopyInv, CopyTypes, Planned, Requested
    <2>7. Copied'
        <3>1. disturbed = 0 => SubSeq(source, offset + 1, offset + 0) = <<>>
            BY <2>1, <2>6 DEF CopyInv, Planned
        <3> QED
            BY <2>1, <2>6, <3>1 DEF CopyInv, Copied, Copying, C!Succeeded
    <2>8. Shown'
        BY <2>1, <2>3, <2>6 DEF CopyInv, Shown, Copied, C!Succeeded
    <2> QED
        BY <2>0, <2>4, <2>5, <2>7, <2>8 DEF CopyInv
<1> QED
    BY <1>1, <1>2

LEMMA CopyChunkKeeps ==
    ASSUME CopyInv, C!CopyChunk
    PROVE  CopyInv'
<1>0. pc = "copy" /\ linked = FALSE /\ UNCHANGED linked
    BY DEF C!CopyChunk, CopyInv, Apart, Copying, C!args
<1>1. CASE pc' = "returned"
    BY <1>0, <1>1, ReturnKeeps DEF C!CopyChunk, C!SetContent, C!Return, C!args
<1>2. CASE pc' # "returned"
    <2>1. PICK n \in 1..BufferSize :
          /\ n <= total - written /\ n <= Len(source) - position
          /\ target' = target \o SubSeq(source, position + 1, position + n)
          /\ position' = position + n /\ written' = written + n
          /\ C!Report(((written + n) * 100) \div total)
        BY <1>0, <1>2 DEF C!CopyChunk, C!SetContent, C!Return
    <2>2. /\ pc = "copy" /\ pc' = "copy" /\ written < total
          /\ UNCHANGED <<source, offset, limit, disturbed, total, size, resultErr>>
        BY <1>0, <1>2 DEF C!CopyChunk, C!SetContent, C!Return, C!args
    <2>3. /\ source \in Seq(Nat) /\ target \in Seq(Nat) /\ written = Len(target)
          /\ offset \in Nat /\ position = offset + written /\ total \in Nat /\ written \in Nat
          /\ n \in Nat /\ n >= 1
        BY <2>2, CopyAssumption DEF CopyInv, CopyTypes, Planned, Copied, Copying, Requested
    <2> DEFINE a == (written + n) * 100
               p == a \div total
    <2>4. p \in 0..100 /\ lastPercent \in 0..100 /\ lastPercent <= p /\ p * total <= a
        <3>0. /\ reports # <<>> /\ lastPercent = reports[Len(reports)] /\ reports \in Seq(0..100)
              /\ lastPercent * total <= written * 100
            BY <2>2 DEF CopyInv, CopyTypes, Shown
        <3>1. lastPercent \in 0..100 /\ lastPercent * total <= written * 100
            BY <3>0, LastElement
        <3>2. total \in Nat \ {0} /\ a \in Nat /\ a <= 100 * total
            <4>1. written + n <= total /\ total # 0
                BY <2>1, <2>2, <2>3
            <4>2. (written + n) * 100 <= 100 * total /\ (written + n) * 100 \in Nat
                BY <2>3, <4>1
            <4> QED
                BY <2>3, <4>1, <4>2
        <3>3. lastPercent * total <= a
            <4>1. lastPercent * total \in Nat /\ written * 100 <= a
                BY <2>3, <3>1
            <4> HIDE DEF a
            <4> QED BY <2>3, <3>1, <3>2, <4>1
        <3> HIDE DEF a
        <3>4. a \div total \in lastPercent..100 /\ (a \div total) * total <= a
            BY <3>1, <3>2, <3>3, Percentage
        <3> QED
            BY <3>1, <3>4
    <2>5. C!Report(p)
        BY <2>1
    <2> HIDE DEF p, a
    <2>6. /\ reports' \in Seq(0..100) /\ reports' # <<>>
          /\ lastPercent' = p /\ reports'[Len(reports')] = p /\ reports'[1] = 0
          /\ \A i \in 1..(Len(reports') - 1) : reports'[i] < reports'[i + 1]
        <3>1. reports # <<>> /\ lastPercent = reports[Len(reports)]
            BY <2>2 DEF CopyInv, Shown
        <3> QED
            BY <2>4, <2>5, <3>1, ReportGrows DEF CopyInv
    <2>7. CopyTypes'
        BY <2>2, <2>6 DEF CopyInv, CopyTypes
    <2>8. Planned'
        BY <2>2 DEF CopyInv, Planned, Copying, C!Succeeded, Requested
    <2>9. Copied'
        <3>1. Extends(target', target, source, offset, n)
            BY <2>1, <2>3 DEF Extends
        <3>2. /\ target' \in Seq(Nat) /\ Len(target') = Len(target) + n
              /\ target = SubSeq(source, offset + 1, offset + Len(target))
                    => target' = SubSeq(source, offset + 1, offset + Len(target) + n)
            <4>1. \A u : Extends(u, target, source, offset, n) =>
                    /\ u \in Seq(Nat) /\ Len(u) = Len(target) + n
                    /\ target = SubSeq(source, offset + 1, offset + Len(target))
                          => u = SubSeq(source, offset + 1, offset + Len(target) + n)
                <5>1. source \in Seq(Nat) /\ target \in Seq(Nat)
                    BY <2>3
                <5> QED
                    BY <5>1, NextChunk
            <4> QED
                BY <3>1, <4>1
        <3>3. target' \in Seq(Nat) /\ written' = Len(target') /\ written' <= total'
              /\ position' = offset' + written'
            BY <2>1, <2>2, <2>3, <3>2
        <3>4. disturbed' = 0 => target' = SubSeq(source', offset' + 1, offset' + written')
            <4>1. disturbed = 0 => target = SubSeq(source, offset + 1, offset + Len(target))
                BY <2>2, <2>3 DEF CopyInv, Copied, Copying
            <4>2. offset + Len(target) + n = offset + written'
                BY <2>1, <2>3
            <4> QED
                BY <2>2, <3>2, <4>1, <4>2
        <3> QED
            BY <2>2, <3>3, <3>4 DEF Copied, Copying, C!Succeeded
    <2>10. Shown'
        BY <2>1, <2>2, <2>4, <2>6 DEF Shown, C!Succeeded, a
    <2>11. Apart'
        BY <1>0 DEF Apart
    <2> QED
        BY <2>7, <2>8, <2>9, <2>10, <2>11 DEF CopyInv
<1> QED
    BY <1>1, <1>2

LEMMA FinishKeeps ==
    ASSUME CopyInv, C!Finish
    PROVE  CopyInv'
<1>1. /\ pc = "copy" /\ written = total /\ pc' = "returned" /\ C!Report(100)
      /\ UNCHANGED <<linked, source, target, offset, limit, disturbed, total, written, size, position>>
    BY DEF C!Finish, C!Return, C!args, C!fileVars
<1>2. /\ reports' \in Seq(0..100) /\ reports' # <<>>
      /\ lastPercent' = 100 /\ reports'[Len(reports')] = 100 /\ reports'[1] = 0
      /\ \A i \in 1..(Len(reports') - 1) : reports'[i] < reports'[i + 1]
    <2>1. reports # <<>> /\ lastPercent = reports[Len(reports)] /\ reports \in Seq(0..100)
        BY <1>1 DEF CopyInv, CopyTypes, Shown
    <2>2. lastPercent \in 0..100
        BY <2>1, LastElement
    <2>3. lastPercent <= 100
        BY <2>2
    <2> QED
        BY <1>1, <2>1, <2>3, ReportGrows DEF CopyInv
<1>3. CopyTypes'
    BY <1>1, <1>2 DEF CopyInv, CopyTypes
<1>4. Planned'
    BY <1>1 DEF CopyInv, Planned, Copying, C!Succeeded, Requested
<1>5. Apart' /\ Copied'
    BY <1>1 DEF CopyInv, Apart, Copied, Copying, C!Succeeded
<1>6. Shown'
    BY <1>1, <1>2 DEF Shown, C!Succeeded
<1> QED
    BY <1>3, <1>4, <1>5, <1>6 DEF CopyInv

LEMMA DisturbKeeps ==
    ASSUME CopyInv, C!Disturb
    PROVE  CopyInv'
<1>1. /\ source # Missing /\ disturbed' = disturbed + 1
      /\ source' \in {SubSeq(source, 1, Len(source) \div 2), Append(source, 7)}
      /\ linked = FALSE => target' = target
      /\ UNCHANGED <<linked, offset, limit, total, written, lastPercent, reports, pc, size,
                     position, resultErr>>
    BY DEF C!Disturb, C!args, C!progressVars
<1>2. source \in Seq(Nat) /\ disturbed \in Nat
    BY <1>1 DEF CopyInv, CopyTypes
<1>3. source' \in Seq(Nat) /\ disturbed' \in Nat /\ disturbed' # 0
    <2>1. Len(source) \div 2 \in 0..Len(source)
        BY <1>2
    <2>2. SubSeq(source, 1, Len(source) \div 2) \in Seq(Nat)
        BY <1>2, <2>1
    <2>3. Append(source, 7) \in Seq(Nat)
        BY <1>2
    <2>4. disturbed + 1 \in Nat /\ disturbed + 1 # 0
        BY <1>2
    <2> QED
        BY <1>1, <2>2, <2>3, <2>4
<1>4. CopyTypes'
    BY <1>1, <1>3 DEF CopyInv, CopyTypes
<1>5. Planned' /\ Apart' /\ Copied' /\ Shown'
    BY <1>1, <1>3 DEF CopyInv, Planned, Apart, Copied, Shown, Copying, C!Succeeded, Requested
<1> QED
    BY <1>4, <1>5 DEF CopyInv

LEMMA CopyInvariant == ExercisesSpec => []CopyInv
<1>1. ExercisesInit => CopyInv
    BY InitCopyInv DEF ExercisesInit, CopyIdle
<1>2. CopyInv /\ [ExercisesNext]_allVars => CopyInv'
    <2>1. ASSUME CopyInv, UNCHANGED copyVars
          PROVE  CopyInv'
        BY <2>1 DEF copyVars, CopyInv, CopyTypes, Planned, Apart, Copied, Shown, Copying, C!Succeeded,
            Requested
    <2>2. ASSUME CopyInv, C!Next
          PROVE  CopyInv'
        <3>1. CASE C!Returned
            BY <2>1, <2>2, <3>1 DEF C!Returned, C!vars, C!args, C!fileVars, C!progressVars, copyVars
        <3> QED
            BY <2>2, <3>1, OpenSourceKeeps, OpenDestinationKeeps, CopyChunkKeeps, FinishKeeps,
               DisturbKeeps DEF C!Next, C!CopierStep
    <2> QED
        BY <2>1, <2>2 DEF ExercisesNext, allVars
<1> QED
    BY <1>1, <1>2, PTL DEF ExercisesSpec

\* copyFile is faithful, for files of any length, any offset, limit and size of the
\* buffer, although the source may change while it is read and a write may fail:
\* success means the requested part and nothing else, the percentages only grow,
\* from 0 to 100, and no step of the copy changes the source.
THEOREM CopyAlwaysFaithful == ExercisesSpec => CopyIsFaithful
<1>1. CopyInv => C!CopyIsExact
    <2> SUFFICES ASSUME CopyInv, C!Succeeded
                 PROVE  /\ Len(target) = Requested
                        /\ disturbed = 0 => target = SubSeq(source, offset + 1, offset + Len(target))
        BY DEF C!CopyIsExact, Requested
    <2> QED
        BY DEF CopyInv, Planned, Copied, Copying
<1>2. CopyInv => C!ProgressGrows
    <2> SUFFICES ASSUME CopyInv
                 PROVE  C!ProgressGrows
        OBVIOUS
    <2>1. reports # <<>> => reports[Len(reports)] \in 0..100
        BY LastElement DEF CopyInv, CopyTypes
    <2> DEFINE r == reports[Len(reports)]
    <2> HIDE DEF r
    <2>2. r \in 0..100 => r <= 100
        OBVIOUS
    <2>3. reports # <<>> => r <= 100
        BY <2>1, <2>2 DEF r
    <2> QED
        BY <2>3 DEF CopyInv, Shown, C!ProgressGrows, r
<1>3. ExercisesSpec => C!SourceUntouched
    <2>1. ASSUME CopyInv, C!CopierStep
          PROVE  source' = source
        <3>1. CASE C!OpenSource
            BY <3>1 DEF C!OpenSource, C!fileVars
        <3>2. CASE C!OpenDestination
            BY <3>2 DEF C!OpenDestination, C!SetContent, C!SameFile
        <3>3. CASE C!CopyChunk
            <4>1. linked = FALSE
                BY <2>1, <3>3 DEF CopyInv, Apart, Copying, C!CopyChunk
            <4> QED
                BY <3>3, <4>1 DEF C!CopyChunk, C!SetContent
        <3>4. CASE C!Finish
            BY <3>4 DEF C!Finish, C!fileVars
        <3> QED
            BY <2>1, <3>1, <3>2, <3>3, <3>4 DEF C!CopierStep
    <2>2. CopyInv => [C!CopierStep => source' = source]_C!vars
        BY <2>1
    <2> QED
        BY <2>2, CopyInvariant, PTL DEF C!SourceUntouched
<1> QED
    BY <1>1, <1>2, <1>3, CopyInvariant, PTL DEF CopyIsFaithful

-----------------------------------------------------------------------------
(* hw08: reading a file, and the environment as a sequence.                 *)

\* Cutting a content at its first newline, replacing the NULs and then trimming is
\* what SaidBy reads backwards.
LEMMA ValueIsSaid ==
    ASSUME NEW content \in Seq(STRING)
    PROVE  E!Value(content) = E!SaidBy(content)
<1> DEFINE ends == {i \in 1..Len(content) : content[i] = "n"}
           line == E!FirstLine(content)
           clean == E!ReplaceNul(line)
           kept == {0} \cup {i \in 1..Len(clean) : clean[i] # "s"}
           fits == {i \in 0..Len(content) :
                       (\A j \in 1..i : content[j] # "n") /\ (i = 0 \/ content[i] # "s")}
           last == CHOOSE i \in kept : \A j \in kept : j <= i
           Characters == STRING \cup {"n"}
<1>0. Len(content) \in Nat /\ \A i \in 1..Len(content) : content[i] \in STRING
    OBVIOUS
<1>1. PICK k \in 0..Len(content) :
          /\ line = SubSeq(content, 1, k)
          /\ \A i \in 0..Len(content) : i <= k <=> \A j \in 1..i : content[j] # "n"
    <2>1. CASE ends = {}
        <3>1. line = content
            BY <2>1 DEF E!FirstLine
        <3>2. line = SubSeq(content, 1, Len(content))
            BY <3>1, SubSeqFull
        <3>3. \A i \in 0..Len(content) : i <= Len(content) /\ \A j \in 1..i : content[j] # "n"
            BY <1>0, <2>1
        <3> QED
            BY <1>0, <3>2, <3>3
    <2>2. CASE ends # {}
        <3> DEFINE m == CHOOSE i \in ends : \A j \in ends : i <= j
        <3>1. ends \subseteq Nat
            BY <1>0
        <3>2. m \in ends /\ \A j \in ends : m <= j
            <4> HIDE DEF ends
            <4> QED
                BY <2>2, <3>1, LeastOf
        <3>3. line = SubSeq(content, 1, m - 1)
            BY <2>2 DEF E!FirstLine
        <3> HIDE DEF m
        <3>4. m - 1 \in 0..Len(content) /\ m \in 1..Len(content) /\ content[m] = "n"
            BY <1>0, <3>2
        <3>5. ASSUME NEW i \in 0..Len(content)
              PROVE  i <= m - 1 <=> \A j \in 1..i : content[j] # "n"
            <4>1. ASSUME i <= m - 1, NEW j \in 1..i PROVE content[j] # "n"
                BY <1>0, <3>2, <3>4, <4>1
            <4>2. ASSUME ~(i <= m - 1) PROVE m \in 1..i
                BY <1>0, <3>4, <4>2
            <4> QED
                BY <3>4, <4>1, <4>2
        <3> QED
            BY <3>3, <3>4, <3>5
    <2> QED
        BY <2>1, <2>2
<1> HIDE DEF line
<1>2. line \in Seq(STRING) /\ Len(line) = k /\ \A i \in 1..k : line[i] = content[i]
    BY <1>0, <1>1
<1>3. /\ clean = [i \in 1..k |-> IF content[i] = "z" THEN "n" ELSE content[i]]
      /\ clean \in Seq(Characters) /\ Len(clean) = k
    <2>1. clean = [i \in 1..k |-> IF line[i] = "z" THEN "n" ELSE line[i]]
        BY <1>2 DEF E!ReplaceNul
    <2>2. \A i \in 1..k : content[i] \in Characters
        BY <1>0, <1>1
    <2>3. clean = [i \in 1..k |-> IF content[i] = "z" THEN "n" ELSE content[i]]
        BY <1>2, <2>1
    <2> HIDE DEF clean
    <2>4. clean \in [1..k -> Characters] /\ k \in Nat
        <3>1. k \in Nat
            BY <1>0, <1>1
        <3>2. \A i \in 1..k : (IF content[i] = "z" THEN "n" ELSE content[i]) \in Characters
            BY <2>2
        <3> QED
            BY <2>3, <3>1, <3>2
    <2>5. clean \in Seq(Characters)
        BY <2>4, SeqDef
    <2>6. DOMAIN clean = 1..Len(clean) /\ Len(clean) \in Nat
        BY <2>5
    <2>7. Len(clean) = k
        BY <2>4, <2>6
    <2> QED
        BY <2>3, <2>5, <2>7
<1>4. \A i \in 1..k : clean[i] # "s" <=> content[i] # "s"
    BY <1>3
<1>5. E!Value(content) = SubSeq(clean, 1, last)
    BY DEF E!Value, E!TrimRight, line
<1> HIDE DEF clean
<1>6. kept = fits
    <2>1. kept = {0} \cup {i \in 1..k : content[i] # "s"}
        BY <1>3, <1>4
    <2>2. ASSUME NEW i \in fits PROVE i \in kept
        BY <1>0, <1>1, <2>1, <2>2
    <2>3. ASSUME NEW i \in kept PROVE i \in fits
        <3>1. i \in 0..Len(content) /\ i <= k /\ (i = 0 \/ content[i] # "s")
            BY <1>0, <1>1, <2>1, <2>3
        <3> QED
            BY <1>1, <3>1
    <2> HIDE DEF kept, fits
    <2> QED
        BY <2>2, <2>3
<1>7. last \in 0..k
    <2>1. kept \subseteq 0..k /\ kept # {} /\ k \in Nat
        BY <1>0, <1>1, <1>3
    <2> HIDE DEF kept
    <2>2. \E m \in kept : \A n \in kept : n <= m
        BY <2>1, GreatestOf
    <2> QED
        BY <2>1, <2>2
<1>8. E!SaidBy(content) =
          [i \in 1..last |-> IF content[i] = "z" THEN "n" ELSE content[i]]
    BY <1>6 DEF E!SaidBy
<1> HIDE DEF last
<1>9. SubSeq(clean, 1, last) = [i \in 1..last |-> clean[i]]
    BY <1>3, <1>7
<1> QED
    BY <1>3, <1>5, <1>7, <1>8, <1>9

LEMMA LookupEmpty ==
    ASSUME NEW n
    PROVE  E!Lookup(<<>>, n) = Absent
BY DEF E!Lookup

\* What is looked up when an entry is appended.
LEMMA LookupAppend ==
    ASSUME NEW S, NEW env \in Seq(S), NEW x \in S, NEW n
    PROVE  E!Lookup(Append(env, x), n) = IF x[1] = n THEN x[2] ELSE E!Lookup(env, n)
<1> DEFINE at == {i \in 1..Len(env) : env[i][1] = n}
           more == Append(env, x)
           after == {i \in 1..Len(more) : more[i][1] = n}
           top == CHOOSE i \in at : \A j \in at : j <= i
<1>1. /\ Len(env) \in Nat /\ Len(more) = Len(env) + 1 /\ more[Len(env) + 1] = x
      /\ \A i \in 1..Len(env) : more[i] = env[i]
    OBVIOUS
<1>2. E!Lookup(more, n) =
          IF after = {} THEN Absent ELSE more[CHOOSE i \in after : \A j \in after : j <= i][2]
    BY DEF E!Lookup
<1>3. E!Lookup(env, n) = IF at = {} THEN Absent ELSE env[top][2]
    BY DEF E!Lookup
<1> HIDE DEF more
<1>4. CASE x[1] = n
    <2>1. Len(env) + 1 \in after /\ \A j \in after : j <= Len(env) + 1
        BY <1>1, <1>4
    <2>2. \A i \in after : i \in Nat
        OBVIOUS
    <2> HIDE DEF after
    <2>3. (CHOOSE i \in after : \A j \in after : j <= i) = Len(env) + 1
        <3>1. \A i \in after : (\A j \in after : j <= i) => i = Len(env) + 1
            BY <1>1, <2>1, <2>2
        <3> QED
            BY <2>1, <3>1
    <2> QED
        BY <1>1, <1>2, <1>4, <2>1, <2>3 DEF more
<1>5. CASE x[1] # n
    <2>1. after = at
        BY <1>1, <1>5
    <2>2. at # {} => top \in at
        <3>1. at \subseteq 0..Len(env)
            BY <1>1
        <3> HIDE DEF at
        <3>2. at # {} => \E m \in at : \A j \in at : j <= m
            BY <1>1, <3>1, GreatestOf
        <3> QED
            BY <3>2
    <2>3. at # {} => more[top] = env[top]
        BY <1>1, <2>2
    <2> HIDE DEF at, after
    <2> QED
        BY <1>2, <1>3, <1>5, <2>1, <2>3 DEF more
<1> QED
    BY <1>4, <1>5

-----------------------------------------------------------------------------
(* hw08: the environment of the command.                                    *)

Variables == {n \in DOMAIN files : ~files[n].isDir /\ ~files[n].hasEquals}

\* What a file makes of its variable.
Override(n) ==
    IF files[n].content = <<>> THEN [value |-> <<>>, needRemove |-> TRUE]
    ELSE [value |-> E!SaidBy(files[n].content), needRemove |-> FALSE]

\* Everything that can get into the environment, and every name that may be asked for.
Pairs == {parent[i] : i \in 1..Len(parent)} \cup {<<n, Override(n).value>> : n \in DOMAIN files}
Names == DOMAIN files \cup {parent[i][1] : i \in 1..Len(parent)} \cup {"PATH"}

EnvdirTypes ==
    /\ files \in Directories /\ parent \in Parents
    /\ stage \in {"read", "merge", "run", "exited"}
    /\ next \in 1..(Len(parent) + 1) /\ environment \in Seq(Pairs)
    /\ unread \subseteq DOMAIN files /\ left \subseteq DOMAIN overrides

\* Whatever is left of the loops, the files read so far are the overrides.
FilesRead ==
    /\ DOMAIN overrides \subseteq Variables
    /\ \A n \in DOMAIN overrides : overrides[n] = Override(n)
    /\ stage # "exited" => Variables \ unread \subseteq DOMAIN overrides
    /\ stage = "read" /\ unread # {} => next = 1 /\ environment = <<>>
    /\ stage \in {"merge", "run"} => unread = {} /\ next = Len(parent) + 1
    /\ stage = "run" => left = {} /\ (bare => E!Searched \in GoodPaths)

\* The part of the parent that has been passed is seen where the directory says
\* nothing, and an override once its turn has come.
Merged ==
    /\ stage # "exited" =>
          /\ \A n \in Names \ DOMAIN overrides :
                E!Lookup(environment, n) = E!Lookup(SubSeq(parent, 1, next - 1), n)
          /\ \A i \in 1..Len(environment) : environment[i][1] \in DOMAIN overrides =>
                stage # "read" /\ environment[i][1] \notin left
          /\ \A i, j \in 1..Len(environment) :
                environment[i][1] = environment[j][1] /\ environment[i][1] \in DOMAIN overrides => i = j
    /\ stage \in {"merge", "run"} => \A n \in DOMAIN overrides \ left :
          E!Lookup(environment, n) =
             IF overrides[n].needRemove THEN Absent ELSE overrides[n].value

EnvdirInv ==
    /\ EnvdirTypes /\ FilesRead /\ Merged
    /\ started => stage = "exited"
    /\ E!FoundInItsOwnPath

LEMMA DirectoryTypes ==
    ASSUME EnvdirTypes
    PROVE  /\ parent \in Seq(STRING \X Seq(STRING)) /\ parent \in Seq(Pairs) /\ Len(parent) \in Nat
           /\ next \in Nat \ {0} /\ next <= Len(parent) + 1
           /\ \A n \in DOMAIN files : files[n].content \in Seq(STRING)
           /\ \A n \in DOMAIN files : <<n, Override(n).value>> \in Pairs
<1>1. parent \in Seq(STRING \X Seq(STRING)) /\ Len(parent) \in Nat
    BY EnvdirAssumption DEF EnvdirTypes
<1>2. parent \in Seq(Pairs)
    <2>1. \A i \in 1..Len(parent) : parent[i] \in Pairs
        BY DEF Pairs
    <2> HIDE DEF Pairs
    <2> QED
        BY <1>1, <2>1, SeqOfElements
<1>3. \A n \in DOMAIN files : files[n].content \in Seq(STRING)
    BY EnvdirAssumption DEF EnvdirTypes
<1>4. next \in Nat \ {0} /\ next <= Len(parent) + 1
    BY <1>1 DEF EnvdirTypes
<1> QED
    BY <1>1, <1>2, <1>3, <1>4 DEF Pairs

LEMMA InitEnvdirInv == E!Init => EnvdirInv
<1> SUFFICES ASSUME E!Init PROVE EnvdirInv
    OBVIOUS
<1>1. /\ files \in Directories /\ parent \in Parents /\ stage = "read" /\ unread = DOMAIN files
      /\ overrides = [n \in {} |-> Absent] /\ next = 1 /\ left = {} /\ environment = <<>>
      /\ started = FALSE
    BY DEF E!Init
<1>2. EnvdirTypes
    <2>1. Len(parent) \in Nat
        BY <1>1, EnvdirAssumption
    <2>2. environment \in Seq(Pairs)
        BY <1>1
    <2> QED
        BY <1>1, <2>1, <2>2 DEF EnvdirTypes
<1>3. DOMAIN overrides = {}
    BY <1>1
<1>4. FilesRead
    BY <1>1, <1>3 DEF FilesRead, Variables
<1>5. Merged
    <2>1. SubSeq(parent, 1, next - 1) = <<>>
        BY <1>1, SubSeqEmpty
    <2>2. Len(environment) = 0
        BY <1>1
    <2> QED
        BY <1>1, <1>3, <2>1, <2>2 DEF Merged
<1>6. E!FoundInItsOwnPath
    BY <1>1 DEF E!FoundInItsOwnPath
<1> QED
    BY <1>1, <1>2, <1>4, <1>5, <1>6 DEF EnvdirInv

\* What depends only on the directory and on the parent.
LEMMA InputsStay ==
    ASSUME UNCHANGED <<files, parent>>
    PROVE  /\ Variables' = Variables /\ Pairs' = Pairs /\ Names' = Names
           /\ \A n : Override(n)' = Override(n)
BY DEF Variables, Pairs, Names, Override


LEMMA ReadEntryKeeps ==
    ASSUME EnvdirInv, NEW n \in unread, E!ReadEntry(n)
    PROVE  EnvdirInv'
<1>1. /\ stage = "read" /\ unread' = unread \ {n} /\ unread # {} /\ n \in DOMAIN files
      /\ UNCHANGED <<files, parent, bare, next, left, environment, started>>
    BY DEF E!ReadEntry, EnvdirInv, EnvdirTypes
<1>2. next = 1 /\ environment = <<>> /\ ~started
    BY <1>1 DEF EnvdirInv, FilesRead
<1>3. /\ Variables' = Variables /\ Pairs' = Pairs /\ Names' = Names
      /\ \A m : Override(m)' = Override(m)
    BY <1>1, InputsStay
<1>4. stage' \in {"read", "exited"} => Merged'
    <2>1. SubSeq(parent', 1, next' - 1) = environment'
        BY <1>1, <1>2, SubSeqEmpty
    <2>2. \A i \in 1..Len(environment') : FALSE
        BY <1>1, <1>2
    <2> QED
        BY <2>1, <2>2 DEF Merged
<1>5. ~started' /\ E!FoundInItsOwnPath'
    BY <1>1, <1>2 DEF E!FoundInItsOwnPath
<1>6. ASSUME stage' \in {"read", "exited"}, DOMAIN overrides \subseteq DOMAIN overrides'
      PROVE  EnvdirTypes'
    BY <1>1, <1>3, <1>6 DEF EnvdirInv, EnvdirTypes
<1>7. CASE (files[n].isDir \/ files[n].hasEquals) /\ UNCHANGED <<stage, overrides>>
    <2>1. FilesRead'
        BY <1>1, <1>2, <1>3, <1>7 DEF EnvdirInv, FilesRead, Variables
    <2> QED
        BY <1>1, <1>4, <1>5, <1>6, <1>7, <2>1 DEF EnvdirInv
<1>8. CASE ~files[n].isDir /\ ~files[n].hasEquals /\ stage' = "exited" /\ UNCHANGED overrides
    <2>1. FilesRead'
        BY <1>1, <1>2, <1>3, <1>8 DEF EnvdirInv, FilesRead, Variables
    <2> QED
        BY <1>1, <1>4, <1>5, <1>6, <1>8, <2>1 DEF EnvdirInv
<1>9. CASE /\ ~files[n].isDir /\ ~files[n].hasEquals /\ UNCHANGED stage
           /\ overrides' = [m \in DOMAIN overrides \cup {n} |->
                 IF m # n THEN overrides[m]
                 ELSE IF files[n].content = <<>> THEN [value |-> <<>>, needRemove |-> TRUE]
                 ELSE [value |-> E!Value(files[n].content), needRemove |-> FALSE]]
    <2>1. E!Value(files[n].content) = E!SaidBy(files[n].content)
        BY <1>1, DirectoryTypes, ValueIsSaid DEF EnvdirInv
    <2>2. overrides' = [m \in DOMAIN overrides \cup {n} |-> IF m # n THEN overrides[m] ELSE Override(n)]
        BY <1>9, <2>1 DEF Override
    <2>3. DOMAIN overrides' = DOMAIN overrides \cup {n}
        BY <2>2
    <2>4. \A m \in DOMAIN overrides' : overrides'[m] = Override(m)
        BY <2>2 DEF EnvdirInv, FilesRead
    <2>5. DOMAIN overrides' \subseteq Variables /\ Variables \ unread' \subseteq DOMAIN overrides'
        BY <1>1, <1>9, <2>3 DEF EnvdirInv, FilesRead, Variables
    <2>6. FilesRead'
        BY <1>1, <1>2, <1>3, <1>9, <2>4, <2>5 DEF FilesRead
    <2> QED
        BY <1>1, <1>4, <1>5, <1>6, <1>9, <2>3, <2>6 DEF EnvdirInv
<1> QED
    BY <1>7, <1>8, <1>9 DEF E!ReadEntry, E!Exit

LEMMA MergeParentKeeps ==
    ASSUME EnvdirInv, E!MergeParent
    PROVE  EnvdirInv'
<1> DEFINE x == parent[next]
           seen == SubSeq(parent, 1, next - 1)
<1>1. /\ stage = "read" /\ unread = {} /\ next <= Len(parent) /\ next' = next + 1
      /\ environment' = IF x[1] \in DOMAIN overrides THEN environment ELSE Append(environment, x)
      /\ UNCHANGED <<files, parent, bare, stage, unread, overrides, left, started>>
    BY DEF E!MergeParent
<1>2. /\ parent \in Seq(Pairs) /\ Len(parent) \in Nat /\ next \in 1..Len(parent)
      /\ environment \in Seq(Pairs) /\ ~started
    BY <1>1, DirectoryTypes DEF EnvdirInv, EnvdirTypes
<1>3. /\ Variables' = Variables /\ Pairs' = Pairs /\ Names' = Names
      /\ \A m : Override(m)' = Override(m)
    BY <1>1, InputsStay
<1>4. x \in Pairs /\ seen \in Seq(Pairs) /\ SubSeq(parent', 1, next' - 1) = Append(seen, x)
    <2> HIDE DEF Pairs
    <2>1. x \in Pairs /\ seen \in Seq(Pairs)
        BY <1>2
    <2>2. SubSeq(parent, 1, next) = seen \o <<x>>
        BY <1>2, SubSeqRecursiveSecond
    <2>3. seen \o <<x>> = Append(seen, x)
        BY <2>1, AppendIsConcat
    <2> QED
        BY <1>1, <1>2, <2>1, <2>2, <2>3
<1> HIDE DEF x, seen, Pairs
<1>5. environment' \in Seq(Pairs)
    BY <1>1, <1>2, <1>4
<1>6. EnvdirTypes' /\ FilesRead' /\ ~started' /\ E!FoundInItsOwnPath'
    <2>1. next' \in 1..(Len(parent) + 1)
        BY <1>1, <1>2
    <2>2. EnvdirTypes'
        BY <1>1, <1>3, <1>5, <2>1 DEF EnvdirInv, EnvdirTypes
    <2>3. FilesRead'
        BY <1>1, <1>3 DEF EnvdirInv, FilesRead
    <2> QED
        BY <1>1, <1>2, <2>2, <2>3 DEF E!FoundInItsOwnPath
<1>7. ASSUME NEW m \in Names \ DOMAIN overrides
      PROVE  E!Lookup(environment', m) = E!Lookup(SubSeq(parent', 1, next' - 1), m)
    <2>1. E!Lookup(environment, m) = E!Lookup(seen, m)
        BY <1>1 DEF EnvdirInv, Merged, seen
    <2>2. E!Lookup(Append(seen, x), m) = IF x[1] = m THEN x[2] ELSE E!Lookup(seen, m)
        BY <1>4, LookupAppend
    <2>3. E!Lookup(Append(environment, x), m) = IF x[1] = m THEN x[2] ELSE E!Lookup(environment, m)
        BY <1>2, <1>4, LookupAppend
    <2> QED
        BY <1>1, <1>4, <2>1, <2>2, <2>3
<1>8. ASSUME NEW i \in 1..Len(environment')
      PROVE  environment'[i][1] \notin DOMAIN overrides
    <2>1. \A j \in 1..Len(environment) : environment[j][1] \notin DOMAIN overrides
        BY <1>1 DEF EnvdirInv, Merged
    <2>2. CASE environment' = environment
        BY <2>1, <2>2
    <2>3. CASE environment' = Append(environment, x) /\ x[1] \notin DOMAIN overrides
        <3>1. /\ Len(environment) \in Nat /\ Len(environment') = Len(environment) + 1
              /\ environment'[Len(environment) + 1] = x
              /\ \A j \in 1..Len(environment) : environment'[j] = environment[j]
            BY <1>2, <1>4, <2>3
        <3>2. i \in 1..Len(environment) \/ i = Len(environment) + 1
            BY <3>1
        <3> QED
            BY <2>1, <2>3, <3>1, <3>2
    <2> QED
        BY <1>1, <2>2, <2>3
<1>9. Merged'
    BY <1>1, <1>3, <1>7, <1>8 DEF Merged
<1> QED
    BY <1>6, <1>9 DEF EnvdirInv

LEMMA StartOverridesKeeps ==
    ASSUME EnvdirInv, E!StartOverrides
    PROVE  EnvdirInv'
<1>1. /\ stage = "read" /\ unread = {} /\ next > Len(parent)
      /\ stage' = "merge" /\ left' = DOMAIN overrides
      /\ UNCHANGED <<files, parent, bare, unread, overrides, next, environment, started>>
    BY DEF E!StartOverrides
<1>2. next = Len(parent) + 1 /\ ~started
    BY <1>1, DirectoryTypes DEF EnvdirInv
<1>3. /\ Variables' = Variables /\ Pairs' = Pairs /\ Names' = Names
      /\ \A m : Override(m)' = Override(m)
    BY <1>1, InputsStay
<1>4. EnvdirTypes' /\ FilesRead'
    BY <1>1, <1>2, <1>3 DEF EnvdirInv, EnvdirTypes, FilesRead
<1>5. Merged'
    BY <1>1, <1>3 DEF EnvdirInv, Merged
<1> QED
    BY <1>1, <1>2, <1>4, <1>5 DEF EnvdirInv, E!FoundInItsOwnPath

LEMMA MergeOverrideKeeps ==
    ASSUME EnvdirInv, NEW n \in left, E!MergeOverride(n)
    PROVE  EnvdirInv'
<1> DEFINE x == <<n, overrides[n].value>>
           k == Len(environment)
<1>1. /\ stage = "merge" /\ left' = left \ {n}
      /\ environment' = IF overrides[n].needRemove THEN environment ELSE Append(environment, x)
      /\ UNCHANGED <<files, parent, bare, stage, unread, overrides, next, started>>
    BY DEF E!MergeOverride
<1>2. /\ n \in DOMAIN overrides /\ n \in DOMAIN files /\ overrides[n] = Override(n)
      /\ environment \in Seq(Pairs) /\ k \in Nat /\ ~started
    BY <1>1 DEF EnvdirInv, EnvdirTypes, FilesRead, Variables
<1>3. /\ Variables' = Variables /\ Pairs' = Pairs /\ Names' = Names
      /\ \A m : Override(m)' = Override(m)
    BY <1>1, InputsStay
<1>4. x \in Pairs /\ x[1] = n /\ x[2] = overrides[n].value
    BY <1>2, DirectoryTypes DEF EnvdirInv
<1>5. /\ \A i \in 1..k : environment[i][1] \in DOMAIN overrides => environment[i][1] \notin left
      /\ \A i \in 1..k : environment[i][1] # n
      /\ \A i, j \in 1..k :
            environment[i][1] = environment[j][1] /\ environment[i][1] \in DOMAIN overrides => i = j
      /\ \A m \in Names \ DOMAIN overrides :
            E!Lookup(environment, m) = E!Lookup(SubSeq(parent, 1, next - 1), m)
      /\ \A m \in DOMAIN overrides \ left :
            E!Lookup(environment, m) = IF overrides[m].needRemove THEN Absent ELSE overrides[m].value
    BY <1>1, <1>2 DEF EnvdirInv, Merged
<1> HIDE DEF x, Pairs
<1>6. EnvdirTypes' /\ FilesRead' /\ ~started' /\ E!FoundInItsOwnPath'
    <2>1. environment' \in Seq(Pairs)
        BY <1>1, <1>2, <1>4
    <2>2. EnvdirTypes'
        BY <1>1, <1>3, <2>1 DEF EnvdirInv, EnvdirTypes
    <2>3. FilesRead'
        BY <1>1, <1>3 DEF EnvdirInv, FilesRead
    <2> QED
        BY <1>1, <1>2, <2>2, <2>3 DEF E!FoundInItsOwnPath
<1>7. CASE overrides[n].needRemove
    <2>1. environment' = environment
        BY <1>1, <1>7
    <2>2. E!Lookup(environment, n) = Absent
        BY <1>5 DEF E!Lookup
    <2>3. \A m \in DOMAIN overrides' \ left' : E!Lookup(environment, m) =
              IF overrides[m].needRemove THEN Absent ELSE overrides[m].value
        BY <1>1, <1>5, <1>7, <2>2
    <2>4. Merged'
        BY <1>1, <1>3, <1>5, <2>1, <2>3 DEF Merged
    <2> QED
        BY <1>6, <2>4 DEF EnvdirInv
<1>8. CASE ~overrides[n].needRemove
    <2>1. environment' = Append(environment, x)
        BY <1>1, <1>8
    <2>2. /\ Len(environment') = k + 1 /\ environment'[k + 1] = x
          /\ \A i \in 1..k : environment'[i] = environment[i]
        BY <1>2, <1>4, <2>1
    <2>3. \A m : E!Lookup(environment', m) =
              IF n = m THEN overrides[n].value ELSE E!Lookup(environment, m)
        BY <1>2, <1>4, <2>1, LookupAppend
    <2> HIDE DEF k
    <2>4. \A i \in 1..(k + 1) : i \in 1..k \/ i = k + 1
        BY <1>2
    <2>5. ASSUME NEW i \in 1..(k + 1), environment'[i][1] \in DOMAIN overrides
          PROVE  environment'[i][1] \notin left'
        BY <1>1, <1>4, <1>5, <2>2, <2>4, <2>5
    <2>6. ASSUME NEW i \in 1..(k + 1), NEW j \in 1..(k + 1),
                 environment'[i][1] = environment'[j][1], environment'[i][1] \in DOMAIN overrides
          PROVE  i = j
        BY <1>4, <1>5, <2>2, <2>4, <2>6
    <2>7. \A m \in Names \ DOMAIN overrides :
              E!Lookup(environment', m) = E!Lookup(SubSeq(parent, 1, next - 1), m)
        BY <1>2, <1>5, <2>3
    <2>8. \A m \in DOMAIN overrides \ left' : E!Lookup(environment', m) =
              IF overrides[m].needRemove THEN Absent ELSE overrides[m].value
        BY <1>1, <1>5, <1>8, <2>3
    <2>9. Merged'
        BY <1>1, <1>3, <2>2, <2>5, <2>6, <2>7, <2>8 DEF Merged
    <2> QED
        BY <1>6, <2>9 DEF EnvdirInv
<1> QED
    BY <1>7, <1>8

\* Once the overrides are in, every name is seen as wanted.
LEMMA SeenAsWanted ==
    ASSUME EnvdirInv, stage \in {"merge", "run"}, left = {}, NEW n \in Names
    PROVE  E!Lookup(environment, n) = E!Wanted(n)
<1>1. DOMAIN overrides = Variables /\ next - 1 = Len(parent)
    <2> DEFINE D == DOMAIN overrides
    <2>1. unread = {} /\ D \subseteq Variables /\ Variables \ unread \subseteq D
        BY DEF EnvdirInv, FilesRead
    <2>2. next = Len(parent) + 1 /\ Len(parent) \in Nat
        BY DirectoryTypes DEF EnvdirInv, FilesRead
    <2> HIDE DEF D
    <2>3. \A m : m \in D <=> m \in Variables
        BY <2>1
    <2>4. D = Variables
        BY <2>3
    <2>5. next - 1 = Len(parent)
        BY <2>2
    <2> QED
        BY <2>4, <2>5 DEF D
<1>2. CASE n \notin Variables
    <2>1. E!Lookup(environment, n) = E!Lookup(SubSeq(parent, 1, Len(parent)), n)
        BY <1>1, <1>2 DEF EnvdirInv, Merged
    <2>2. SubSeq(parent, 1, Len(parent)) = parent
        BY DirectoryTypes, SubSeqFull DEF EnvdirInv
    <2> QED
        BY <1>2, <2>1, <2>2 DEF E!Wanted, Variables
<1>3. CASE n \in Variables
    <2>1. /\ overrides[n] = Override(n)
          /\ E!Lookup(environment, n) = IF overrides[n].needRemove THEN Absent ELSE overrides[n].value
        BY <1>1, <1>3 DEF EnvdirInv, FilesRead, Merged
    <2> QED
        BY <1>3, <2>1 DEF Override, E!Wanted, Variables
<1> QED
    BY <1>2, <1>3

LEMMA CommandKeeps ==
    ASSUME EnvdirInv, E!LookPath \/ E!Run
    PROVE  EnvdirInv'
<1>1. UNCHANGED <<files, parent, bare, unread, overrides, next, left, environment>>
    BY DEF E!LookPath, E!Run
<1>2. /\ Variables' = Variables /\ Pairs' = Pairs /\ Names' = Names
      /\ \A m : Override(m)' = Override(m)
    BY <1>1, InputsStay
<1>3. /\ stage \in {"merge", "run"} /\ left = {}
      /\ stage' \in {"run", "exited"} /\ (stage' = "run" => stage = "merge")
      /\ stage' = "run" => (bare => E!Searched \in GoodPaths)
      /\ started' => started \/ (stage = "run" /\ stage' = "exited")
    BY DEF E!LookPath, E!Run, E!Exit, EnvdirInv, FilesRead
<1>4. EnvdirTypes' /\ Merged'
    BY <1>1, <1>2, <1>3 DEF EnvdirInv, EnvdirTypes, Merged
<1>5. FilesRead'
    BY <1>1, <1>2, <1>3 DEF EnvdirInv, FilesRead, E!Searched
<1>6. (started => stage = "exited")' /\ E!FoundInItsOwnPath'
    <2>1. E!Lookup(environment, "PATH") = E!Wanted("PATH")
        BY <1>3, SeenAsWanted DEF Names
    <2>2. stage = "run" => (bare => E!Wanted("PATH") \in GoodPaths) /\ unread = {}
        BY <2>1 DEF EnvdirInv, FilesRead, E!Searched
    <2>3. E!Wanted("PATH")' = E!Wanted("PATH")
        BY <1>1 DEF E!Wanted
    <2> QED
        BY <1>1, <1>3, <2>2, <2>3 DEF EnvdirInv, E!FoundInItsOwnPath
<1> QED
    BY <1>4, <1>5, <1>6 DEF EnvdirInv

LEMMA EnvdirInvariant == ExercisesSpec => []EnvdirInv
<1>1. ExercisesInit => EnvdirInv
    BY InitEnvdirInv DEF ExercisesInit, EnvdirIdle
<1>2. EnvdirInv /\ [ExercisesNext]_allVars => EnvdirInv'
    <2>1. ASSUME EnvdirInv, UNCHANGED envdirVars
          PROVE  EnvdirInv'
        <3>1. UNCHANGED <<files, parent, bare, stage, unread, overrides, next, left, environment,
                          started>>
            BY <2>1 DEF envdirVars
        <3>2. /\ Variables' = Variables /\ Pairs' = Pairs /\ Names' = Names
              /\ \A m : Override(m)' = Override(m)
            BY <3>1, InputsStay
        <3>3. E!FoundInItsOwnPath'
            BY <2>1, <3>1 DEF EnvdirInv, E!FoundInItsOwnPath, E!Wanted
        <3> QED
            BY <2>1, <3>1, <3>2, <3>3 DEF EnvdirInv, EnvdirTypes, FilesRead, Merged, E!Searched
    <2>2. ASSUME EnvdirInv, E!Next
          PROVE  EnvdirInv'
        <3>1. CASE E!Exited
            BY <2>1, <2>2, <3>1 DEF E!Exited, E!vars, envdirVars
        <3> QED
            BY <2>2, <3>1, ReadEntryKeeps, MergeParentKeeps, StartOverridesKeeps,
               MergeOverrideKeeps, CommandKeeps DEF E!Next
    <2> QED
        BY <2>1, <2>2 DEF ExercisesNext, allVars
<1> QED
    BY <1>1, <1>2, PTL DEF ExercisesSpec

\* The envdir tool gives the command its environment, for directories and parents
\* of any size and contents of any length, in whatever order the map is walked:
\* for every name what the directory says or else what the parent had, no second
\* value for a name of the directory; a bare command is searched in that PATH.
THEOREM CommandAlwaysSeesItsEnvironment == ExercisesSpec => []CommandSeesItsEnvironment
<1>1. EnvdirInv => E!EnvironmentAsWanted
    <2> SUFFICES ASSUME EnvdirInv, stage = "run" \/ (stage = "merge" /\ left = {})
                 PROVE  E!EnvironmentAsWanted
        BY DEF E!EnvironmentAsWanted
    <2>1. stage \in {"merge", "run"} /\ left = {}
        BY DEF EnvdirInv, FilesRead
    <2>2. \A n \in DOMAIN files \cup {parent[i][1] : i \in 1..Len(parent)} :
              E!Lookup(environment, n) = E!Wanted(n)
        BY <2>1, SeenAsWanted DEF Names
    <2>3. \A i, j \in 1..Len(environment) :
              environment[i][1] = environment[j][1] /\ environment[i][1] \in DOMAIN overrides => i = j
        BY <2>1 DEF EnvdirInv, Merged
    <2> QED
        BY <2>2, <2>3 DEF E!EnvironmentAsWanted
<1>2. EnvdirInv => E!FoundInItsOwnPath
    BY DEF EnvdirInv
<1> QED
    BY <1>1, <1>2, EnvdirInvariant, PTL DEF CommandSeesItsEnvironment

-----------------------------------------------------------------------------
(* hw09: the loops of Validate, validateField and validateValue.            *)

\* The failure of a rule on an element of a field, as the struct has it.
Fails(i, e, r) ==
    /\ i \in V!Tagged
    /\ e \in 1..Len(fields[i].values) /\ r \in 1..Len(fields[i].rules)
    /\ ~V!Passes(fields[i].rules[r], fields[i].values[e])

\* The loops have passed the rule.
Passed(i, e, r) ==
    i < index \/ (i = index /\ (e < element \/ (e = element /\ r < rule)))

Triple == Nat \X Nat \X Nat

LoopTypes ==
    /\ fields \in Structs
    /\ index \in Nat \ {0} /\ element \in Nat /\ rule \in Nat \ {0}
    /\ errors \in Seq(Triple)

LoopPlace ==
    /\ element > 0 =>
          /\ index \in V!Tagged /\ V!TagError(fields[index]) = "nil"
          /\ element > Len(fields[index].values) => rule = 1
    /\ element = 0 => rule = 1

TagsRead == \A i \in V!Tagged : i < index => V!TagError(fields[i]) = "nil"

\* The failures passed so far, each once and in order.
Collected ==
    /\ \A n \in 1..Len(errors) :
          /\ Fails(errors[n][1], errors[n][2], errors[n][3])
          /\ Passed(errors[n][1], errors[n][2], errors[n][3])
    /\ \A i, e, r \in Nat : Fails(i, e, r) /\ Passed(i, e, r) =>
          \E n \in 1..Len(errors) : errors[n] = <<i, e, r>>
    /\ \A n \in 1..(Len(errors) - 1) : V!Before(errors[n], errors[n + 1])

Verdict ==
    \/ result = "running"
    \/ /\ result = IF errors = <<>> THEN "nil" ELSE "ValidationErrors"
       /\ index > Len(fields)
    \/ /\ result \notin {"running", "nil", "ValidationErrors"}
       /\ index \in V!Tagged /\ V!TagError(fields[index]) # "nil"
       /\ result = V!TagError(fields[index])

ValidatorInv == LoopTypes /\ LoopPlace /\ TagsRead /\ Collected /\ Verdict

LEMMA FieldTypes ==
    ASSUME fields \in Structs
    PROVE  /\ Len(fields) \in Nat
           /\ \A i \in 1..Len(fields) :
                 Len(fields[i].rules) \in Nat /\ Len(fields[i].values) \in Nat
           /\ V!Tagged \subseteq 1..Len(fields)
BY StructsAssumption DEF V!Tagged

LEMMA TagErrorValues ==
    ASSUME NEW f
    PROVE  V!TagError(f) \in {"nil", "ErrUnsupportedType", "ErrInvalidTag", "ErrUnsupportedValidator"}
<1>1. ASSUME NEW c, NEW kind
      PROVE  V!RuleError(c, kind) \in {"nil", "ErrInvalidTag", "ErrUnsupportedValidator"}
    BY DEF V!RuleError
<1> QED
    BY <1>1 DEF V!TagError

LEMMA InitValidatorInv == V!Init => ValidatorInv
<1> SUFFICES ASSUME V!Init PROVE ValidatorInv
    OBVIOUS
<1>1. LoopTypes /\ LoopPlace /\ Verdict
    BY DEF V!Init, LoopTypes, LoopPlace, Verdict
<1>2. \A i \in V!Tagged : i \in Nat /\ i >= 1
    BY <1>1, FieldTypes DEF LoopTypes
<1>3. TagsRead
    BY <1>2 DEF V!Init, TagsRead
<1>4. \A i, e, r \in Nat : Fails(i, e, r) => ~Passed(i, e, r)
    BY <1>2 DEF V!Init, Fails, Passed
<1>5. errors = <<>>
    BY DEF V!Init
<1>6. Collected
    BY <1>4, <1>5 DEF Collected
<1> QED
    BY <1>1, <1>3, <1>6 DEF ValidatorInv

\* A step of the loops that passes no failure.
LEMMA NothingPassed ==
    ASSUME ValidatorInv, UNCHANGED <<fields, errors>>,
           \A i, e, r \in Nat : Fails(i, e, r) => (Passed(i, e, r)' <=> Passed(i, e, r))
    PROVE  Collected'
<1>1. \A i, e, r : Fails(i, e, r)' <=> Fails(i, e, r)
    BY DEF Fails, V!Tagged
<1>2. \A n \in 1..Len(errors) :
          /\ errors[n][1] \in Nat /\ errors[n][2] \in Nat /\ errors[n][3] \in Nat
    BY DEF ValidatorInv, LoopTypes, Triple
<1>3. \A n \in 1..Len(errors) :
          /\ Fails(errors[n][1], errors[n][2], errors[n][3])'
          /\ Passed(errors[n][1], errors[n][2], errors[n][3])'
    <2> TAKE n \in 1..Len(errors)
    <2>1. /\ Fails(errors[n][1], errors[n][2], errors[n][3])
          /\ Passed(errors[n][1], errors[n][2], errors[n][3])
        BY DEF ValidatorInv, Collected
    <2>2. PICK i, e, r \in Nat : errors[n][1] = i /\ errors[n][2] = e /\ errors[n][3] = r
        BY <1>2
    <2>3. Fails(i, e, r)' /\ Passed(i, e, r)'
        BY <1>1, <2>1, <2>2
    <2>4. errors'[n][1] = i /\ errors'[n][2] = e /\ errors'[n][3] = r
        BY <2>2
    <2> QED
        BY <2>3, <2>4 DEF Fails, Passed
<1> QED
    BY <1>1, <1>3 DEF ValidatorInv, Collected

LEMMA SkipKeeps ==
    ASSUME ValidatorInv, V!Skip
    PROVE  ValidatorInv'
<1>1. /\ result = "running" /\ element = 0 /\ index <= Len(fields) /\ ~V!Checked(fields[index])
      /\ index' = index + 1 /\ UNCHANGED <<fields, element, rule, errors, result>>
    BY DEF V!Skip, V!AtField
<1>2. /\ index \in Nat \ {0} /\ rule = 1 /\ LoopTypes'
      /\ \A i \in V!Tagged : i \in Nat /\ i # index
    BY <1>1, FieldTypes DEF ValidatorInv, LoopTypes, LoopPlace, V!Tagged, V!Checked
<1>3. LoopPlace' /\ Verdict'
    BY <1>1, <1>2 DEF LoopPlace, Verdict
<1>4. TagsRead'
    BY <1>1, <1>2 DEF ValidatorInv, TagsRead, V!Tagged
<1>5. \A i, e, r \in Nat : Fails(i, e, r) => (Passed(i, e, r)' <=> Passed(i, e, r))
    BY <1>1, <1>2 DEF Fails, Passed
<1> QED
    BY <1>1, <1>2, <1>3, <1>4, <1>5, NothingPassed DEF ValidatorInv

LEMMA AcceptTagKeeps ==
    ASSUME ValidatorInv, V!AcceptTag
    PROVE  ValidatorInv'
<1>1. /\ result = "running" /\ element = 0 /\ index <= Len(fields) /\ V!Checked(fields[index])
      /\ V!TagError(fields[index]) = "nil"
      /\ element' = 1 /\ UNCHANGED <<fields, index, rule, errors, result>>
    BY DEF V!AcceptTag, V!AtField
<1>2. index \in Nat \ {0} /\ rule = 1 /\ LoopTypes' /\ index \in V!Tagged
    BY <1>1, FieldTypes DEF ValidatorInv, LoopTypes, LoopPlace, V!Tagged, V!Checked
<1>3. LoopPlace' /\ Verdict'
    BY <1>1, <1>2 DEF LoopPlace, Verdict, V!Tagged
<1>4. TagsRead'
    BY <1>1 DEF ValidatorInv, TagsRead, V!Tagged
<1>5. \A i, e, r \in Nat : Fails(i, e, r) => e >= 1 /\ r >= 1
    BY <1>1, FieldTypes DEF Fails, ValidatorInv, LoopTypes
<1>6. \A i, e, r \in Nat : Fails(i, e, r) => (Passed(i, e, r)' <=> Passed(i, e, r))
    BY <1>1, <1>2, <1>5 DEF Passed
<1> QED
    BY <1>1, <1>2, <1>3, <1>4, <1>6, NothingPassed DEF ValidatorInv

LEMMA NextElementKeeps ==
    ASSUME ValidatorInv, V!NextElement
    PROVE  ValidatorInv'
<1>1. /\ result = "running" /\ element > 0 /\ rule > Len(fields[index].rules)
      /\ element' = element + 1 /\ rule' = 1 /\ UNCHANGED <<fields, index, errors, result>>
    BY DEF V!NextElement, V!AtElement
<1>2. /\ index \in Nat \ {0} /\ element \in Nat /\ rule \in Nat /\ LoopTypes'
      /\ index \in V!Tagged /\ Len(fields[index].rules) \in Nat
    BY <1>1, FieldTypes DEF ValidatorInv, LoopTypes, LoopPlace
<1>3. LoopPlace' /\ Verdict'
    BY <1>1, <1>2 DEF ValidatorInv, LoopPlace, Verdict, V!Tagged
<1>4. TagsRead'
    BY <1>1 DEF ValidatorInv, TagsRead, V!Tagged
<1>5. \A i, e, r \in Nat : Fails(i, e, r) => r >= 1 /\ (i = index => r < rule)
    BY <1>1, <1>2, FieldTypes DEF Fails, ValidatorInv, LoopTypes
<1>6. \A i, e, r \in Nat : Fails(i, e, r) => (Passed(i, e, r)' <=> Passed(i, e, r))
    BY <1>1, <1>2, <1>5 DEF Passed
<1> QED
    BY <1>1, <1>2, <1>3, <1>4, <1>6, NothingPassed DEF ValidatorInv

LEMMA NextFieldKeeps ==
    ASSUME ValidatorInv, V!NextField
    PROVE  ValidatorInv'
<1>1. /\ result = "running" /\ element > 0 /\ element > Len(fields[index].values)
      /\ index' = index + 1 /\ element' = 0 /\ UNCHANGED <<fields, rule, errors, result>>
    BY DEF V!NextField
<1>2. /\ index \in Nat \ {0} /\ element \in Nat /\ rule = 1 /\ LoopTypes'
      /\ index \in V!Tagged /\ Len(fields[index].values) \in Nat
      /\ V!TagError(fields[index]) = "nil"
    BY <1>1, FieldTypes DEF ValidatorInv, LoopTypes, LoopPlace
<1>3. LoopPlace' /\ Verdict'
    BY <1>1, <1>2 DEF LoopPlace, Verdict
<1>4. TagsRead'
    <2>1. \A i \in V!Tagged : i \in Nat
        BY FieldTypes DEF ValidatorInv, LoopTypes
    <2> QED
        BY <1>1, <1>2, <2>1 DEF ValidatorInv, TagsRead, V!Tagged
<1>5. \A i, e, r \in Nat : Fails(i, e, r) => e >= 1 /\ (i = index => e < element)
    BY <1>1, <1>2, FieldTypes DEF Fails, ValidatorInv, LoopTypes
<1>6. \A i, e, r \in Nat : Fails(i, e, r) => (Passed(i, e, r)' <=> Passed(i, e, r))
    BY <1>1, <1>2, <1>5 DEF Passed
<1> QED
    BY <1>1, <1>2, <1>3, <1>4, <1>6, NothingPassed DEF ValidatorInv

LEMMA CheckRuleKeeps ==
    ASSUME ValidatorInv, V!CheckRule
    PROVE  ValidatorInv'
<1> DEFINE fail == ~V!Passes(fields[index].rules[rule], fields[index].values[element])
           here == <<index, element, rule>>
<1>1. /\ result = "running" /\ element > 0 /\ element <= Len(fields[index].values)
      /\ rule <= Len(fields[index].rules) /\ rule' = rule + 1
      /\ errors' = IF fail THEN Append(errors, here) ELSE errors
      /\ UNCHANGED <<fields, index, element, result>>
    BY DEF V!CheckRule, V!AtElement
<1>2. /\ index \in Nat \ {0} /\ element \in Nat /\ rule \in Nat \ {0} /\ errors \in Seq(Triple)
      /\ index \in V!Tagged /\ Len(fields[index].rules) \in Nat /\ Len(fields[index].values) \in Nat
    BY <1>1, FieldTypes DEF ValidatorInv, LoopTypes, LoopPlace
<1>3. Fails(index, element, rule) <=> fail
    BY <1>1, <1>2 DEF Fails
<1>4. \A i, e, r \in Nat :
          Passed(i, e, r)' <=> Passed(i, e, r) \/ (i = index /\ e = element /\ r = rule)
    BY <1>1, <1>2 DEF Passed
<1>5. LoopPlace' /\ Verdict' /\ TagsRead'
    BY <1>1, <1>2 DEF ValidatorInv, LoopPlace, Verdict, TagsRead, V!Tagged
<1>6. CASE ~fail
    <2>1. \A i, e, r \in Nat : Fails(i, e, r) => (Passed(i, e, r)' <=> Passed(i, e, r))
        BY <1>3, <1>4, <1>6
    <2>2. LoopTypes'
        BY <1>1, <1>2, <1>6 DEF ValidatorInv, LoopTypes
    <2> QED
        BY <1>1, <1>5, <1>6, <2>1, <2>2, NothingPassed DEF ValidatorInv
<1>7. CASE fail
    <2> HIDE DEF fail
    <2> DEFINE k == Len(errors)
    <2>1. /\ k \in Nat /\ here \in Triple
          /\ errors' = Append(errors, here)
        BY <1>1, <1>2, <1>7 DEF Triple
    <2>2. /\ errors' \in Seq(Triple) /\ Len(errors') = k + 1 /\ errors'[k + 1] = here
          /\ \A n \in 1..k : errors'[n] = errors[n]
        <3> HIDE DEF here
        <3> QED
            BY <1>2, <2>1
    <2> HIDE DEF k
    <2>3. LoopTypes'
        BY <1>1, <1>2, <2>2 DEF ValidatorInv, LoopTypes
    <2>4. \A i, e, r : Fails(i, e, r)' <=> Fails(i, e, r)
        BY <1>1 DEF Fails, V!Tagged
    <2>5. /\ \A n \in 1..k :
                /\ errors[n][1] \in Nat /\ errors[n][2] \in Nat /\ errors[n][3] \in Nat
                /\ Fails(errors[n][1], errors[n][2], errors[n][3])
                /\ Passed(errors[n][1], errors[n][2], errors[n][3])
          /\ \A n \in 1..(k - 1) : V!Before(errors[n], errors[n + 1])
        <3>1. \A n \in 1..k : errors[n] \in Triple
            BY <1>2 DEF k
        <3>2. /\ \A n \in 1..k :
                    /\ Fails(errors[n][1], errors[n][2], errors[n][3])
                    /\ Passed(errors[n][1], errors[n][2], errors[n][3])
              /\ \A n \in 1..(k - 1) : V!Before(errors[n], errors[n + 1])
            BY DEF ValidatorInv, Collected, k
        <3>3. \A x \in Triple : x[1] \in Nat /\ x[2] \in Nat /\ x[3] \in Nat
            BY DEF Triple
        <3> QED
            BY <3>1, <3>2, <3>3
    <2>6. ASSUME NEW n \in 1..(k + 1)
          PROVE  /\ Fails(errors[n][1], errors[n][2], errors[n][3])'
                 /\ Passed(errors[n][1], errors[n][2], errors[n][3])'
        <3>1. PICK i, e, r \in Nat :
                  /\ errors'[n][1] = i /\ errors'[n][2] = e /\ errors'[n][3] = r
                  /\ Fails(i, e, r) /\ (Passed(i, e, r) \/ (i = index /\ e = element /\ r = rule))
            <4>1. CASE n \in 1..k
                BY <2>2, <2>5, <4>1
            <4>2. CASE n = k + 1
                BY <1>2, <1>3, <1>7, <2>2, <4>2
            <4> QED
                BY <2>1, <4>1, <4>2 DEF k
        <3>2. Fails(i, e, r)' /\ Passed(i, e, r)'
            BY <1>4, <2>4, <3>1
        <3> QED
            BY <3>1, <3>2 DEF Fails, Passed
    <2>7. ASSUME NEW i \in Nat, NEW e \in Nat, NEW r \in Nat, Fails(i, e, r)', Passed(i, e, r)'
          PROVE  \E n \in 1..(k + 1) : errors'[n] = <<i, e, r>>
        <3>1. CASE i = index /\ e = element /\ r = rule
            BY <2>1, <2>2, <3>1 DEF k
        <3>2. CASE ~(i = index /\ e = element /\ r = rule)
            <4>1. Fails(i, e, r) /\ Passed(i, e, r)
                BY <1>4, <2>4, <2>7, <3>2
            <4>2. PICK n \in 1..k : errors[n] = <<i, e, r>>
                BY <4>1 DEF ValidatorInv, Collected, k
            <4> QED
                BY <2>1, <2>2, <4>2, SMTT(30) DEF k
        <3> QED
            BY <3>1, <3>2
    <2>8. ASSUME NEW n \in 1..k
          PROVE  V!Before(errors'[n], errors'[n + 1])
        <3>1. CASE n = k
            <4>1. V!Before(errors[n], here)
                BY <1>2, <2>5 DEF Passed, V!Before
            <4> QED
                BY <2>2, <3>1, <4>1
        <3>2. CASE n # k
            <4>1. n \in 1..(k - 1) /\ n + 1 \in 1..k
                BY <2>1, <3>2 DEF k
            <4>2. errors'[n] = errors[n] /\ errors'[n + 1] = errors[n + 1]
                BY <2>2, <4>1
            <4> QED
                BY <2>5, <4>1, <4>2
        <3> QED
            BY <3>1, <3>2
    <2>9. Collected'
        <3>1. \A n \in 1..Len(errors') :
                  /\ Fails(errors[n][1], errors[n][2], errors[n][3])'
                  /\ Passed(errors[n][1], errors[n][2], errors[n][3])'
            BY <2>2, <2>6
        <3>2. \A i, e, r \in Nat : Fails(i, e, r)' /\ Passed(i, e, r)' =>
                  \E n \in 1..(k + 1) : errors'[n] = <<i, e, r>>
            BY <2>7
        <3>3. Len(errors') - 1 = k
            BY <2>1, <2>2 DEF k
        <3>4. \A n \in 1..(Len(errors') - 1) : V!Before(errors'[n], errors'[n + 1])
            BY <2>8, <3>3
        <3>5. \A n \in 1..(Len(errors') - 1) : V!Before(errors[n], errors[n + 1])'
            BY <3>4 DEF V!Before
        <3>6. \A i, e, r \in Nat : Fails(i, e, r)' /\ Passed(i, e, r)' =>
                  \E n \in 1..Len(errors') : errors'[n] = <<i, e, r>>
            <4> TAKE i, e, r \in Nat
            <4> HAVE Fails(i, e, r)' /\ Passed(i, e, r)'
            <4>1. PICK n \in 1..(k + 1) : errors'[n] = <<i, e, r>>
                BY <3>2
            <4>2. n \in 1..Len(errors')
                BY <2>2
            <4> QED
                BY <4>1, <4>2
        <3> QED
            BY <3>1, <3>5, <3>6 DEF Collected
    <2> QED
        BY <1>5, <2>3, <2>9 DEF ValidatorInv
<1> QED
    BY <1>6, <1>7

LEMMA VerdictKeeps ==
    ASSUME ValidatorInv, V!RejectTag \/ V!Return
    PROVE  ValidatorInv'
<1>1. result = "running" /\ UNCHANGED <<fields, index, element, rule, errors>>
    BY DEF V!RejectTag, V!Return, V!AtField
<1>2. LoopTypes' /\ LoopPlace' /\ TagsRead' /\ Collected'
    BY <1>1, NothingPassed DEF ValidatorInv, LoopTypes, LoopPlace, TagsRead, V!Tagged, Passed
<1>3. CASE V!RejectTag
    <2>1. /\ index <= Len(fields) /\ V!Checked(fields[index])
          /\ V!TagError(fields[index]) # "nil" /\ result' = V!TagError(fields[index])
        BY <1>3 DEF V!RejectTag, V!AtField
    <2>2. index \in V!Tagged
        BY <2>1, FieldTypes DEF ValidatorInv, LoopTypes, V!Tagged, V!Checked
    <2>3. result' \notin {"running", "nil", "ValidationErrors"}
        BY <2>1, TagErrorValues
    <2>4. Verdict'
        BY <1>1, <2>1, <2>2, <2>3 DEF Verdict, V!Tagged
    <2> QED
        BY <1>2, <2>4 DEF ValidatorInv
<1>4. CASE V!Return
    BY <1>1, <1>2, <1>4 DEF ValidatorInv, Verdict, V!Return
<1> QED
    BY <1>3, <1>4

LEMMA ValidatorInvariant == ExercisesSpec => []ValidatorInv
<1>1. ExercisesInit => ValidatorInv
    BY InitValidatorInv DEF ExercisesInit, ValidatorIdle
<1>2. ValidatorInv /\ [ExercisesNext]_allVars => ValidatorInv'
    <2>1. ASSUME ValidatorInv, UNCHANGED validatorVars
          PROVE  ValidatorInv'
        <3>1. UNCHANGED <<fields, index, element, rule, errors, result>>
            BY <2>1 DEF validatorVars
        <3>2. Collected'
            BY <2>1, <3>1, NothingPassed DEF Passed
        <3> QED
            BY <2>1, <3>1, <3>2 DEF ValidatorInv, LoopTypes, LoopPlace, TagsRead, Verdict, V!Tagged
    <2>2. ASSUME ValidatorInv, V!Next
          PROVE  ValidatorInv'
        <3>1. CASE V!Returned
            BY <2>1, <2>2, <3>1 DEF V!Returned, V!vars, validatorVars
        <3> QED
            BY <2>2, <3>1, SkipKeeps, AcceptTagKeeps, CheckRuleKeeps, NextElementKeeps,
               NextFieldKeeps, VerdictKeeps DEF V!Next
    <2> QED
        BY <2>1, <2>2 DEF ExercisesNext, allVars
<1> QED
    BY <1>1, <1>2, PTL DEF ExercisesSpec

\* Validate is complete, for structs of any number of fields, elements and rules: a
\* mistake in a tag is reported for the first field that has one, and otherwise
\* every failure once and in order, nil meaning that there is none.
THEOREM ValidationAlwaysComplete == ExercisesSpec => []ValidationIsComplete
<1>1. ValidatorInv => V!BadTagReported
    <2> SUFFICES ASSUME ValidatorInv, result # "running"
                 PROVE  LET bad == {i \in V!Tagged : V!TagError(fields[i]) # "nil"}
                        IN  IF bad = {} THEN result \in {"nil", "ValidationErrors"}
                            ELSE result = V!TagError(fields[CHOOSE i \in bad : \A j \in bad : i <= j])
        BY DEF V!BadTagReported
    <2> DEFINE bad == {i \in V!Tagged : V!TagError(fields[i]) # "nil"}
    <2>1. \A i \in V!Tagged : i \in 1..Len(fields)
        BY FieldTypes DEF ValidatorInv, LoopTypes
    <2>2. \A i \in bad : i \in 1..Len(fields) /\ i >= index
        BY <2>1 DEF ValidatorInv, LoopTypes, TagsRead
    <2>3. CASE index > Len(fields) /\ result \in {"nil", "ValidationErrors"}
        BY <2>2, <2>3, FieldTypes DEF ValidatorInv, LoopTypes
    <2>4. CASE index \in bad /\ result = V!TagError(fields[index])
        <3>1. \A i \in bad : (\A j \in bad : i <= j) => i = index
            BY <2>2, <2>4 DEF ValidatorInv, LoopTypes
        <3> HIDE DEF bad
        <3>2. \A j \in bad : index <= j
            BY <2>2 DEF ValidatorInv, LoopTypes
        <3>3. (CHOOSE i \in bad : \A j \in bad : i <= j) = index
            BY <2>4, <3>1, <3>2
        <3> QED
            BY <2>4, <3>3 DEF bad
    <2> QED
        BY <2>3, <2>4 DEF ValidatorInv, Verdict
<1>2. ValidatorInv => V!EveryFailureReported
    <2> SUFFICES ASSUME ValidatorInv, result \in {"nil", "ValidationErrors"}
                 PROVE  V!EveryFailureReported
        BY DEF V!EveryFailureReported
    <2> DEFINE Failed(i) ==
                   {x \in {i} \X (1..Len(fields[i].values)) \X (1..Len(fields[i].rules)) :
                       ~V!Passes(fields[i].rules[x[3]], fields[i].values[x[2]])}
    <2>1. /\ index > Len(fields) /\ index \in Nat /\ Len(fields) \in Nat
          /\ result = IF errors = <<>> THEN "nil" ELSE "ValidationErrors"
        BY FieldTypes DEF ValidatorInv, LoopTypes, Verdict
    <2>2. \A i \in V!Tagged : i \in 1..Len(fields) /\ i < index
        BY <2>1, FieldTypes DEF ValidatorInv, LoopTypes
    <2>3. ASSUME NEW n \in 1..Len(errors)
          PROVE  errors[n] \in UNION {Failed(i) : i \in V!Tagged}
        <3>1. PICK i \in Nat, e \in Nat, r \in Nat : errors[n] = <<i, e, r>>
            <4>1. errors[n] \in Triple
                BY DEF ValidatorInv, LoopTypes
            <4>2. \A x \in Triple : x = <<x[1], x[2], x[3]>> /\ x[1] \in Nat /\ x[2] \in Nat /\ x[3] \in Nat
                BY DEF Triple
            <4> QED
                BY <4>1, <4>2
        <3>2. Fails(i, e, r)
            BY <3>1 DEF ValidatorInv, Collected
        <3>3. <<i, e, r>> \in Failed(i)
            BY <3>2 DEF Fails
        <3> QED
            BY <3>1, <3>2, <3>3 DEF Fails
    <2>4. ASSUME NEW x \in UNION {Failed(i) : i \in V!Tagged}
          PROVE  x \in {errors[n] : n \in 1..Len(errors)}
        <3>1. PICK i \in V!Tagged : x \in Failed(i)
            BY <2>4
        <3>2. PICK e \in 1..Len(fields[i].values), r \in 1..Len(fields[i].rules) : x = <<i, e, r>>
            BY <3>1
        <3>3. Fails(i, e, r)
            BY <3>1, <3>2 DEF Fails
        <3>4. i \in Nat /\ e \in Nat /\ r \in Nat /\ Passed(i, e, r)
            BY <2>2 DEF Passed
        <3>5. \E n \in 1..Len(errors) : errors[n] = <<i, e, r>>
            BY <3>3, <3>4 DEF ValidatorInv, Collected
        <3> QED
            BY <3>2, <3>5
    <2>5. {errors[n] : n \in 1..Len(errors)} = UNION {Failed(i) : i \in V!Tagged}
        <3> HIDE DEF Failed
        <3> QED
            BY <2>3, <2>4
    <2>6. \A n \in 1..(Len(errors) - 1) : V!Before(errors[n], errors[n + 1])
        BY DEF ValidatorInv, Collected
    <2>7. (result = "nil") = (errors = <<>>)
        BY <2>1
    <2> QED
        BY <2>5, <2>6, <2>7 DEF V!EveryFailureReported
<1> QED
    BY <1>1, <1>2, ValidatorInvariant, PTL DEF ValidationIsComplete
=============================================================================
