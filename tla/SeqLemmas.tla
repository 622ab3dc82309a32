----------------------------- MODULE SeqLemmas -----------------------------
(***************************************************************************)
(* Facts about the sequences that stand for the kernel's linked lists:     *)
(* which elements they hold after list_add, list_del, a concatenation or a *)
(* reversal, and that an element is linked at most once.                   *)
(***************************************************************************)
EXTENDS Integers, SequencesExt, SequenceTheorems, TLAPS

(* list_add_before on the head of a list: the new elements come last. *)
LEMMA ConcatSet ==
    ASSUME NEW S, NEW s \in Seq(S), NEW t \in Seq(S)
    PROVE  /\ s \o t \in Seq(S)
           /\ ToSet(s \o t) = ToSet(s) \cup ToSet(t)
<1>1. s \o t \in Seq(S)
  OBVIOUS
<1>2. ASSUME NEW x \in ToSet(s \o t) PROVE x \in ToSet(s) \cup ToSet(t)
  <2>1. PICK k \in 1..(Len(s) + Len(t)) : x = (s \o t)[k]
    BY DEF ToSet
  <2>2. CASE k <= Len(s)
    BY <2>1, <2>2 DEF ToSet
  <2>3. CASE k > Len(s)
    <3>1. k - Len(s) \in 1..Len(t) /\ x = t[k - Len(s)]
      BY <2>1, <2>3
    <3> QED BY <3>1 DEF ToSet
  <2> QED BY <2>2, <2>3
<1>3. ASSUME NEW x \in ToSet(s) PROVE x \in ToSet(s \o t)
  <2>1. PICK k \in 1..Len(s) : x = s[k]
    BY DEF ToSet
  <2>2. k \in 1..Len(s \o t) /\ x = (s \o t)[k]
    BY <2>1
  <2> QED BY <2>2, <1>1 DEF ToSet
<1>4. ASSUME NEW x \in ToSet(t) PROVE x \in ToSet(s \o t)
  <2>1. PICK k \in 1..Len(t) : x = t[k]
    BY DEF ToSet
  <2>2. Len(s) + k \in 1..Len(s \o t) /\ x = (s \o t)[Len(s) + k]
    BY <2>1
  <2> QED BY <2>2, <1>1 DEF ToSet
<1> QED BY <1>1, <1>2, <1>3, <1>4

(* Two lists without common elements can be joined. *)
LEMMA ConcatNoDup ==
    ASSUME NEW S, NEW s \in Seq(S), NEW t \in Seq(S),
           IsInjective(s), IsInjective(t), ToSet(s) \cap ToSet(t) = {}
    PROVE  IsInjective(s \o t)
<1> SUFFICES ASSUME NEW i \in 1..(Len(s) + Len(t)), NEW j \in 1..(Len(s) + Len(t)),
                    (s \o t)[i] = (s \o t)[j], i # j
             PROVE  FALSE
  BY DEF IsInjective
<1>1. CASE i <= Len(s) /\ j <= Len(s)
  BY <1>1 DEF IsInjective
<1>2. CASE i > Len(s) /\ j > Len(s)
  <2>1. i - Len(s) \in 1..Len(t) /\ j - Len(s) \in 1..Len(t)
    BY <1>2
  <2>2. t[i - Len(s)] = t[j - Len(s)]
    BY <1>2
  <2> QED BY <2>1, <2>2 DEF IsInjective
<1>3. CASE i <= Len(s) /\ j > Len(s)
  <2>1. s[i] \in ToSet(s) /\ t[j - Len(s)] \in ToSet(t)
    BY <1>3 DEF ToSet
  <2>2. s[i] = t[j - Len(s)]
    BY <1>3
  <2> QED BY <2>1, <2>2
<1>4. CASE i > Len(s) /\ j <= Len(s)
  <2>1. s[j] \in ToSet(s) /\ t[i - Len(s)] \in ToSet(t)
    BY <1>4 DEF ToSet
  <2>2. s[j] = t[i - Len(s)]
    BY <1>4
  <2> QED BY <2>1, <2>2
<1> QED BY <1>1, <1>2, <1>3, <1>4

(* RR_pick_next and RR_dequeue: the head leaves the queue. *)
LEMMA TailSet ==
    ASSUME NEW S, NEW s \in Seq(S), s # <<>>, IsInjective(s)
    PROVE  /\ Head(s) \in S /\ Head(s) \in ToSet(s)
           /\ Tail(s) \in Seq(S)
           /\ IsInjective(Tail(s))
           /\ ToSet(Tail(s)) = ToSet(s) \ {Head(s)}
<1>1. Len(s) \in Nat /\ Len(s) >= 1 /\ Head(s) = s[1] /\ DOMAIN s = 1..Len(s)
  OBVIOUS
<1>2. /\ Tail(s) \in Seq(S) /\ Len(Tail(s)) = Len(s) - 1
      /\ \A i \in 1..(Len(s) - 1) : Tail(s)[i] = s[i + 1]
      /\ DOMAIN Tail(s) = 1..(Len(s) - 1)
  BY <1>1
<1>3. IsInjective(Tail(s))
  BY <1>1, <1>2 DEF IsInjective
<1>4. ASSUME NEW x \in ToSet(Tail(s)) PROVE x \in ToSet(s) \ {Head(s)}
  <2>1. PICK k \in 1..(Len(s) - 1) : x = Tail(s)[k]
    BY <1>2 DEF ToSet
  <2>2. k + 1 \in 1..Len(s) /\ x = s[k + 1] /\ k + 1 # 1 /\ 1 \in 1..Len(s)
    BY <2>1, <1>1, <1>2
  <2> QED BY <2>2, <1>1 DEF IsInjective, ToSet
<1>5. ASSUME NEW x \in ToSet(s) \ {Head(s)} PROVE x \in ToSet(Tail(s))
  <2>1. PICK k \in 1..Len(s) : x = s[k]
    BY <1>1 DEF ToSet
  <2>2. k - 1 \in 1..(Len(s) - 1) /\ x = Tail(s)[k - 1]
    BY <2>1, <1>1, <1>2
  <2> QED BY <2>2, <1>2 DEF ToSet
<1>6. Head(s) \in S /\ Head(s) \in ToSet(s)
  BY <1>1 DEF ToSet
<1>7. ToSet(Tail(s)) = ToSet(s) \ {Head(s)}
  BY <1>4, <1>5
<1> QED BY <1>2, <1>3, <1>6, <1>7

(* list_add: one element put before or behind the others. *)
LEMMA OneElement ==
    ASSUME NEW S, NEW x \in S
    PROVE  <<x>> \in Seq(S) /\ ToSet(<<x>>) = {x} /\ IsInjective(<<x>>)
BY DEF ToSet, IsInjective

LEMMA EmptyList ==
    ASSUME NEW S
    PROVE  <<>> \in Seq(S) /\ ToSet(<<>>) = {} /\ IsInjective(<<>>)
BY EmptySeq DEF ToSet, IsInjective

(* Moving the elements one by one to the front of another list. *)
LEMMA ReverseSet ==
    ASSUME NEW S, NEW s \in Seq(S)
    PROVE  /\ Reverse(s) \in Seq(S)
           /\ ToSet(Reverse(s)) = ToSet(s)
           /\ IsInjective(s) => IsInjective(Reverse(s))
<1>1. /\ Reverse(s) \in Seq(S) /\ DOMAIN Reverse(s) = 1..Len(s)
      /\ DOMAIN s = 1..Len(s) /\ Len(s) \in Nat
      /\ \A i \in 1..Len(s) : Reverse(s)[i] = s[(Len(s) - i) + 1]
  BY DEF Reverse
<1>2. ASSUME NEW x \in ToSet(s) PROVE x \in ToSet(Reverse(s))
  <2>1. PICK k \in 1..Len(s) : x = s[k]
    BY <1>1 DEF ToSet
  <2>2. /\ (Len(s) - k) + 1 \in 1..Len(s)
        /\ (Len(s) - ((Len(s) - k) + 1)) + 1 = k
    BY <1>1
  <2>3. Reverse(s)[(Len(s) - k) + 1] = x
    BY <1>1, <2>1, <2>2
  <2> QED BY <1>1, <2>2, <2>3 DEF ToSet
<1>3. ASSUME NEW x \in ToSet(Reverse(s)) PROVE x \in ToSet(s)
  <2>1. PICK k \in 1..Len(s) : x = s[(Len(s) - k) + 1]
    BY <1>1 DEF ToSet
  <2>2. (Len(s) - k) + 1 \in 1..Len(s)
    BY <1>1
  <2> QED BY <1>1, <2>1, <2>2 DEF ToSet
<1>4. ASSUME IsInjective(s) PROVE IsInjective(Reverse(s))
  <2> SUFFICES ASSUME NEW i \in 1..Len(s), NEW j \in 1..Len(s),
                      s[(Len(s) - i) + 1] = s[(Len(s) - j) + 1]
               PROVE  i = j
    BY <1>1 DEF IsInjective
  <2>1. (Len(s) - i) + 1 \in 1..Len(s) /\ (Len(s) - j) + 1 \in 1..Len(s)
    BY <1>1
  <2>2. (Len(s) - i) + 1 = (Len(s) - j) + 1
    BY <1>1, <1>4, <2>1 DEF IsInjective
  <2> QED BY <1>1, <2>2
<1> QED BY <1>1, <1>2, <1>3, <1>4

LEMMA RemoveAtType ==
    ASSUME NEW S, NEW s \in Seq(S), NEW i \in 1..Len(s)
    PROVE  RemoveAt(s, i) \in Seq(S)
<1>1. Len(s) \in Nat /\ \A k \in 1..Len(s) : s[k] \in S
  OBVIOUS
<1>2. SubSeq(s, 1, i - 1) \in Seq(S)
  BY <1>1, SubSeqProperties
<1>3. SubSeq(s, i + 1, Len(s)) \in Seq(S)
  BY <1>1, SubSeqProperties
<1> QED BY <1>2, <1>3, ConcatProperties DEF RemoveAt

LEMMA RemoveAtLen ==
    ASSUME NEW S, NEW s \in Seq(S), NEW i \in 1..Len(s)
    PROVE  Len(RemoveAt(s, i)) = Len(s) - 1
<1>1. Len(s) \in Nat /\ \A k \in 1..Len(s) : s[k] \in S
  OBVIOUS
<1>2. SubSeq(s, 1, i - 1) \in Seq(S) /\ Len(SubSeq(s, 1, i - 1)) = i - 1
  BY <1>1, SubSeqProperties
<1>3. SubSeq(s, i + 1, Len(s)) \in Seq(S) /\ Len(SubSeq(s, i + 1, Len(s))) = Len(s) - i
  BY <1>1, SubSeqProperties
<1> DEFINE a == SubSeq(s, 1, i - 1)
           b == SubSeq(s, i + 1, Len(s))
<1>4. a \in Seq(S) /\ b \in Seq(S) /\ Len(a) = i - 1 /\ Len(b) = Len(s) - i
  BY <1>2, <1>3
<1>5. RemoveAt(s, i) = a \o b
  BY DEF RemoveAt
<1> HIDE DEF a, b
<1>6. Len(a \o b) = Len(a) + Len(b)
  BY <1>4, ConcatProperties
<1> QED BY <1>1, <1>4, <1>5, <1>6

(* list_del of the i-th element. *)
LEMMA RemoveAtSet ==
    ASSUME NEW S, NEW s \in Seq(S), NEW i \in 1..Len(s), IsInjective(s)
    PROVE  /\ RemoveAt(s, i) \in Seq(S)
           /\ ToSet(RemoveAt(s, i)) = ToSet(s) \ {s[i]}
           /\ IsInjective(RemoveAt(s, i))
<1> DEFINE r == RemoveAt(s, i)
<1>0. Len(s) \in Nat /\ DOMAIN s = 1..Len(s)
  OBVIOUS
<1>1. /\ r \in Seq(S) /\ DOMAIN r = 1..(Len(s) - 1)
      /\ \A k \in 1..(Len(s) - 1) : r[k] = IF k < i THEN s[k] ELSE s[k + 1]
  <2> DEFINE a == SubSeq(s, 1, i - 1)
             b == SubSeq(s, i + 1, Len(s))
  <2>0. \A k \in 1..Len(s) : s[k] \in S
    BY <1>0
  <2>1. /\ a \in Seq(S) /\ Len(a) = i - 1
        /\ \A k \in 1..(i - 1) : a[k] = s[k]
    <3>1. 1 \in Int /\ i - 1 \in Int /\ \A k \in 1..(i - 1) : s[k] \in S
      BY <1>0, <2>0
    <3>2. /\ a \in Seq(S) /\ Len(a) = IF 1 <= i - 1 THEN (i - 1) - 1 + 1 ELSE 0
          /\ \A k \in 1..((i - 1) - 1 + 1) : a[k] = s[1 + k - 1]
      BY <3>1, SubSeqProperties
    <3> HIDE DEF a
    <3> QED BY <1>0, <3>2
  <2>2. /\ b \in Seq(S) /\ Len(b) = Len(s) - i
        /\ \A k \in 1..(Len(s) - i) : b[k] = s[k + i]
    <3>1. /\ i + 1 \in Int /\ Len(s) \in Int
          /\ \A k \in (i + 1)..Len(s) : s[k] \in S
      BY <1>0, <2>0
    <3>2. /\ b \in Seq(S)
          /\ Len(b) = IF i + 1 <= Len(s) THEN Len(s) - (i + 1) + 1 ELSE 0
          /\ \A k \in 1..(Len(s) - (i + 1) + 1) : b[k] = s[(i + 1) + k - 1]
      BY <3>1, SubSeqProperties
    <3> HIDE DEF b
    <3>3. Len(b) = Len(s) - i /\ Len(s) - (i + 1) + 1 = Len(s) - i
      <4>1. \A n \in Nat : \A k \in 1..n :
              /\ n - (k + 1) + 1 = n - k
              /\ n - k = IF k + 1 <= n THEN n - (k + 1) + 1 ELSE 0
        OBVIOUS
      <4> QED BY <1>0, <3>2, <4>1
    <3>4. ASSUME NEW k \in 1..(Len(s) - i) PROVE b[k] = s[k + i]
      <4>1. (i + 1) + k - 1 = k + i
        BY <1>0
      <4> QED BY <3>2, <3>3, <4>1
    <3> QED BY <3>2, <3>3, <3>4
  <2>3. r = a \o b
    BY DEF RemoveAt
  <2> HIDE DEF a, b, r
  <2>4. /\ r \in Seq(S) /\ Len(r) = Len(s) - 1
        /\ \A k \in 1..(Len(s) - 1) : r[k] = IF k <= i - 1 THEN a[k] ELSE b[k - (i - 1)]
    <3>1. /\ r \in Seq(S) /\ Len(r) = Len(a) + Len(b)
          /\ \A k \in 1..(Len(a) + Len(b)) :
                r[k] = IF k <= Len(a) THEN a[k] ELSE b[k - Len(a)]
      BY <2>1, <2>2, <2>3, ConcatProperties
    <3> QED BY <1>0, <2>1, <2>2, <3>1
  <2>5. ASSUME NEW k \in 1..(Len(s) - 1) PROVE r[k] = IF k < i THEN s[k] ELSE s[k + 1]
    <3>1. CASE k < i
      BY <3>1, <1>0, <2>1, <2>4
    <3>2. CASE ~(k < i)
      <4>1. k - (i - 1) \in 1..(Len(s) - i) /\ (k - (i - 1)) + i = k + 1
        BY <3>2, <1>0
      <4>2. r[k] = b[k - (i - 1)]
        BY <3>2, <1>0, <2>4
      <4>3. b[k - (i - 1)] = s[k + 1]
        BY <4>1, <2>2
      <4> QED BY <3>2, <4>2, <4>3
    <3> QED BY <3>1, <3>2
  <2> QED BY <2>4, <2>5, <1>0
<1> HIDE DEF r
<1>2. ASSUME NEW x \in ToSet(r) PROVE x \in ToSet(s) \ {s[i]}
  <2>1. PICK k \in 1..(Len(s) - 1) : x = r[k]
    BY <1>1 DEF ToSet
  <2>2. PICK m \in 1..Len(s) : x = s[m] /\ m # i
    BY <1>0, <1>1, <2>1
  <2> QED BY <1>0, <2>2 DEF ToSet, IsInjective
<1>3. ASSUME NEW x \in ToSet(s) \ {s[i]} PROVE x \in ToSet(r)
  <2>1. PICK m \in 1..Len(s) : x = s[m] /\ m # i
    BY <1>0 DEF ToSet
  <2>2. PICK k \in 1..(Len(s) - 1) : k = IF m < i THEN m ELSE m - 1
    BY <1>0, <2>1
  <2>3. r[k] = x
    BY <1>0, <1>1, <2>1, <2>2
  <2> QED BY <1>1, <2>3 DEF ToSet
<1>4. IsInjective(r)
  BY <1>0, <1>1 DEF IsInjective
<1> QED BY <1>1, <1>2, <1>3, <1>4 DEF r
=============================================================================
