--------------------------- MODULE SequenceLemmas ---------------------------
(***************************************************************************)
(* Facts the proofs share: about sequences without repetitions and about   *)
(* counting (the gate and the gateway both keep a queue of requests and a  *)
(* set of the requests that own a slot), and about frames that move from   *)
(* one buffer to the next (the relay).                                     *)
(***************************************************************************)
EXTENDS Integers, Sequences, FiniteSets, SequencesExt, TLAPS,
        FiniteSetTheorems, SequenceTheorems

-----------------------------------------------------------------------------
(* Appending a new element keeps a sequence without repetitions.           *)
LEMMA AppendDistinct ==
    ASSUME NEW S, NEW s \in Seq(S), NEW x \in S,
           IsInjective(s), x \notin Range(s)
    PROVE  /\ Append(s, x) \in Seq(S)
           /\ Append(s, x) # <<>>
           /\ IsInjective(Append(s, x))
           /\ Range(Append(s, x)) = Range(s) \cup {x}
<1> DEFINE t == Append(s, x)
<1>1. /\ t \in Seq(S) /\ t # <<>> /\ Len(t) = Len(s) + 1
      /\ \A i \in 1 .. Len(s) : t[i] = s[i]
      /\ t[Len(s) + 1] = x
  BY AppendProperties
<1>2. Len(s) \in Nat /\ DOMAIN s = 1 .. Len(s) /\ DOMAIN t = 1 .. (Len(s) + 1)
  BY <1>1, LenProperties
<1> HIDE DEF t
<1>3. IsInjective(t)
  <2> SUFFICES ASSUME NEW i \in 1 .. (Len(s) + 1), NEW j \in 1 .. (Len(s) + 1),
                      t[i] = t[j]
               PROVE  i = j
    BY <1>2 DEF IsInjective
  <2>1. \A k \in 1 .. Len(s) : s[k] # x
    BY <1>2 DEF Range
  <2>2. \A k \in 1 .. (Len(s) + 1) : k \in 1 .. Len(s) \/ k = Len(s) + 1
    BY <1>2
  <2>3. CASE i \in 1 .. Len(s) /\ j \in 1 .. Len(s)
    BY <2>3, <1>1, <1>2 DEF IsInjective
  <2>4. QED
    BY <2>1, <2>2, <2>3, <1>1
<1>4. Range(t) = Range(s) \cup {x}
  BY <1>1, <1>2 DEF Range
<1> QED
  BY <1>1, <1>3, <1>4 DEF t

(* The tail of such a sequence loses exactly its head.                     *)
LEMMA TailDistinct ==
    ASSUME NEW S, NEW s \in Seq(S), s # <<>>, IsInjective(s)
    PROVE  /\ Head(s) \in S
           /\ Head(s) \in Range(s)
           /\ Tail(s) \in Seq(S)
           /\ IsInjective(Tail(s))
           /\ Range(Tail(s)) = Range(s) \ {Head(s)}
<1> DEFINE t == Tail(s)
<1>1. /\ Head(s) \in S /\ t \in Seq(S) /\ Len(t) = Len(s) - 1
      /\ \A i \in 1 .. Len(t) : t[i] = s[i + 1]
  BY HeadTailProperties
<1>2. /\ Len(s) \in Nat \ {0} /\ DOMAIN s = 1 .. Len(s)
      /\ DOMAIN t = 1 .. Len(t) /\ Head(s) = s[1]
  BY <1>1, LenProperties, EmptySeq
<1> HIDE DEF t
<1>3. IsInjective(t)
  <2> SUFFICES ASSUME NEW i \in 1 .. Len(t), NEW j \in 1 .. Len(t), t[i] = t[j]
               PROVE  i = j
    BY <1>2 DEF IsInjective
  <2>1. s[i + 1] = s[j + 1] /\ i + 1 \in DOMAIN s /\ j + 1 \in DOMAIN s
    BY <1>1, <1>2
  <2> QED
    BY <2>1 DEF IsInjective
<1>4. Range(t) \subseteq Range(s) \ {Head(s)}
  <2> SUFFICES ASSUME NEW i \in 1 .. Len(t)
               PROVE  t[i] \in Range(s) /\ t[i] # Head(s)
    BY <1>2 DEF Range
  <2>1. t[i] = s[i + 1] /\ i + 1 \in DOMAIN s /\ 1 \in DOMAIN s /\ i + 1 # 1
    BY <1>1, <1>2
  <2> QED
    BY <2>1, <1>2 DEF IsInjective, Range
<1>5. Range(s) \ {Head(s)} \subseteq Range(t)
  <2> SUFFICES ASSUME NEW i \in 1 .. Len(s), s[i] # Head(s)
               PROVE  s[i] \in Range(t)
    BY <1>2 DEF Range
  <2>1. i - 1 \in 1 .. Len(t) /\ t[i - 1] = s[(i - 1) + 1] /\ (i - 1) + 1 = i
    BY <1>1, <1>2
  <2> QED
    BY <2>1, <1>2 DEF Range
<1>6. Head(s) \in Range(s)
  BY <1>2 DEF Range
<1> QED
  BY <1>1, <1>3, <1>4, <1>5, <1>6 DEF t

(* Removing one position of such a sequence loses exactly its element.     *)
LEMMA RemoveAtDistinct ==
    ASSUME NEW S, NEW s \in Seq(S), NEW n \in DOMAIN s, IsInjective(s)
    PROVE  /\ RemoveAt(s, n) \in Seq(S)
           /\ IsInjective(RemoveAt(s, n))
           /\ Range(RemoveAt(s, n)) = Range(s) \ {s[n]}
<1> DEFINE a == SubSeq(s, 1, n - 1)
           b == SubSeq(s, n + 1, Len(s))
           t == RemoveAt(s, n)
           from(i) == IF i < n THEN i ELSE i + 1
<1>1. Len(s) \in Nat /\ DOMAIN s = 1 .. Len(s) /\ n \in 1 .. Len(s)
  BY LenProperties
<1>2. \A i \in 1 .. Len(s) : s[i] \in S
  BY ElementOfSeq
<1>3. /\ a \in Seq(S) /\ Len(a) = n - 1
      /\ \A i \in 1 .. (n - 1) : a[i] = s[i]
  <2>1. \A i \in 1 .. (n - 1) : s[i] \in S
    BY <1>1, <1>2
  <2>2. /\ a \in Seq(S) /\ Len(a) = IF 1 <= n - 1 THEN (n - 1) - 1 + 1 ELSE 0
        /\ \A i \in 1 .. ((n - 1) - 1 + 1) : a[i] = s[1 + i - 1]
    BY <1>1, <2>1, SubSeqProperties
  <2> HIDE DEF a
  <2>3. \A i \in 1 .. (n - 1) : 1 + i - 1 = i
    BY <1>1
  <2>4. Len(a) = n - 1 /\ (n - 1) - 1 + 1 = n - 1
    BY <1>1, <2>2
  <2> QED
    BY <2>2, <2>3, <2>4
<1>4. /\ b \in Seq(S) /\ Len(b) = Len(s) - n
      /\ \A i \in 1 .. (Len(s) - n) : b[i] = s[n + i]
  <2>1. \A i \in (n + 1) .. Len(s) : s[i] \in S
    BY <1>1, <1>2
  <2>2. /\ b \in Seq(S)
        /\ Len(b) = IF n + 1 <= Len(s) THEN Len(s) - (n + 1) + 1 ELSE 0
        /\ \A i \in 1 .. (Len(s) - (n + 1) + 1) : b[i] = s[(n + 1) + i - 1]
    BY <1>1, <2>1, SubSeqProperties
  <2> HIDE DEF b
  <2>3. \A i \in 1 .. (Len(s) - n) : (n + 1) + i - 1 = n + i
    BY <1>1
  <2>4. Len(b) = Len(s) - n /\ Len(s) - (n + 1) + 1 = Len(s) - n
    BY <1>1, <2>2
  <2> QED
    BY <2>2, <2>3, <2>4
<1>5. /\ t \in Seq(S) /\ Len(t) = Len(s) - 1
      /\ \A i \in 1 .. (Len(s) - 1) : t[i] = s[from(i)]
  <2>1. t = a \o b
    BY DEF RemoveAt
  <2> HIDE DEF a, b, t
  <2>2. /\ t \in Seq(S) /\ Len(t) = Len(a) + Len(b)
        /\ \A i \in 1 .. (Len(a) + Len(b)) :
              t[i] = IF i <= Len(a) THEN a[i] ELSE b[i - Len(a)]
    BY <2>1, <1>3, <1>4, ConcatProperties
  <2>3. Len(a) + Len(b) = Len(s) - 1
    BY <1>1, <1>3, <1>4
  <2> SUFFICES ASSUME NEW i \in 1 .. (Len(s) - 1)
               PROVE  t[i] = s[from(i)]
    BY <2>2, <2>3
  <2>4. CASE i < n
    BY <2>2, <2>3, <2>4, <1>1, <1>3
  <2>5. CASE ~(i < n)
    <3>1. i - (n - 1) \in 1 .. (Len(s) - n) /\ n + (i - (n - 1)) = i + 1
      BY <1>1, <2>5
    <3>2. t[i] = b[i - (n - 1)]
      BY <2>2, <2>3, <2>5, <1>1, <1>3
    <3> QED
      BY <3>1, <3>2, <2>5, <1>4
  <2> QED
    BY <2>4, <2>5
<1> HIDE DEF a, b, t
<1>6. DOMAIN t = 1 .. (Len(s) - 1)
  BY <1>1, <1>5, LenProperties
<1>7. \A i \in 1 .. (Len(s) - 1) : from(i) \in DOMAIN s /\ from(i) # n
  BY <1>1
<1>8. IsInjective(t)
  <2> SUFFICES ASSUME NEW i \in 1 .. (Len(s) - 1), NEW j \in 1 .. (Len(s) - 1),
                      t[i] = t[j]
               PROVE  i = j
    BY <1>6 DEF IsInjective
  <2>1. from(i) = from(j)
    BY <1>5, <1>7 DEF IsInjective
  <2> QED
    BY <2>1, <1>1
<1>9. Range(t) \subseteq Range(s) \ {s[n]}
  BY <1>5, <1>6, <1>7 DEF IsInjective, Range
<1>10. Range(s) \ {s[n]} \subseteq Range(t)
  <2> SUFFICES ASSUME NEW i \in 1 .. Len(s), i # n
               PROVE  s[i] \in Range(t)
    BY <1>1 DEF Range
  <2>1. PICK k \in 1 .. (Len(s) - 1) : from(k) = i
    <3>1. CASE i < n
      BY <3>1, <1>1
    <3>2. CASE i > n
      <4>1. i - 1 \in 1 .. (Len(s) - 1) /\ from(i - 1) = i
        BY <3>2, <1>1
      <4> QED
        BY <4>1
    <3> QED
      BY <3>1, <3>2, <1>1
  <2> QED
    BY <2>1, <1>5, <1>6 DEF Range
<1> QED
  BY <1>5, <1>8, <1>9, <1>10 DEF t

(* A sequence without repetitions is as long as its set of elements.       *)
LEMMA LengthIsCardinality ==
    ASSUME NEW S, NEW s \in Seq(S), IsInjective(s)
    PROVE  IsFiniteSet(Range(s)) /\ Cardinality(Range(s)) = Len(s)
<1>1. Len(s) \in Nat /\ DOMAIN s = 1 .. Len(s) /\ s \in [1 .. Len(s) -> S]
  BY LenProperties
<1>2. s \in Bijection(1 .. Len(s), Range(s))
  <2>1. s \in [1 .. Len(s) -> Range(s)]
    BY <1>1 DEF Range
  <2>2. s \in Injection(1 .. Len(s), Range(s))
    BY <2>1 DEF Injection
  <2>3. s \in Surjection(1 .. Len(s), Range(s))
    BY <1>1, <2>1 DEF Surjection, Range
  <2> QED
    BY <2>2, <2>3 DEF Bijection
<1>3. ExistsBijection(1 .. Len(s), Range(s))
  BY <1>2 DEF ExistsBijection
<1> QED
  BY <1>1, <1>3, FS_CountingElements, FS_NatBijection

-----------------------------------------------------------------------------
(* A slot that changes hands keeps the number of slots: with p of them     *)
(* free and H their owners, r takes one, gives one back, or passes its own *)
(* on to w.                                                                *)
LEMMA TakeCount ==
    ASSUME NEW H, IsFiniteSet(H), NEW r, r \notin H, NEW p \in Nat, p > 0
    PROVE  (p - 1) + Cardinality(H \cup {r}) = p + Cardinality(H)
<1>1. Cardinality(H \cup {r}) = Cardinality(H) + 1 /\ Cardinality(H) \in Nat
  BY FS_AddElement, FS_CardinalityType
<1> QED
  BY <1>1

LEMMA GiveBackCount ==
    ASSUME NEW H, IsFiniteSet(H), NEW r \in H, NEW p \in Nat
    PROVE  (p + 1) + Cardinality(H \ {r}) = p + Cardinality(H)
<1>1. Cardinality(H \ {r}) = Cardinality(H) - 1 /\ Cardinality(H) \in Nat
  BY FS_RemoveElement, FS_CardinalityType
<1> QED
  BY <1>1

LEMMA PassOnCount ==
    ASSUME NEW H, IsFiniteSet(H), NEW r \in H, NEW w, w \notin H
    PROVE  Cardinality((H \ {r}) \cup {w}) = Cardinality(H)
<1>1. IsFiniteSet(H \ {r}) /\ Cardinality(H \ {r}) = Cardinality(H) - 1
  BY FS_RemoveElement
<1>2. Cardinality((H \ {r}) \cup {w}) = Cardinality(H \ {r}) + 1
  BY <1>1, FS_AddElement
<1>3. Cardinality(H) \in Nat
  BY FS_CardinalityType
<1> QED
  BY <1>1, <1>2, <1>3

-----------------------------------------------------------------------------
(* What an appended sequence holds: what it held, and the new element at   *)
(* its end.                                                                *)
LEMMA AppendElements ==
    ASSUME NEW S, NEW s \in Seq(S), NEW x \in S
    PROVE  /\ Append(s, x) \in Seq(S)
           /\ Len(Append(s, x)) = Len(s) + 1
           /\ \A i \in DOMAIN Append(s, x) :
                 \/ i \in DOMAIN s /\ Append(s, x)[i] = s[i]
                 \/ i = Len(Append(s, x)) /\ Append(s, x)[i] = x
<1>1. /\ Append(s, x) \in Seq(S)
      /\ Len(Append(s, x)) = Len(s) + 1
      /\ \A i \in 1 .. Len(s) : Append(s, x)[i] = s[i]
      /\ Append(s, x)[Len(s) + 1] = x
  BY AppendProperties
<1>2. /\ Len(s) \in Nat /\ DOMAIN s = 1 .. Len(s)
      /\ DOMAIN Append(s, x) = 1 .. (Len(s) + 1)
  BY <1>1, LenProperties
<1>3. \A i \in 1 .. (Len(s) + 1) : i \in 1 .. Len(s) \/ i = Len(s) + 1
  BY <1>2
<1> QED
  BY <1>1, <1>2, <1>3

(* An element appended to the second of two buffers is at the end of both. *)
LEMMA ConcatAppend ==
    ASSUME NEW S, NEW s \in Seq(S), NEW t \in Seq(S), NEW x \in S
    PROVE  s \o Append(t, x) = Append(s \o t, x)
<1>1. <<x>> \in Seq(S)
  OBVIOUS
<1>2. s \o t \in Seq(S)
  BY ConcatProperties
<1>3. /\ Append(t, x) = t \o <<x>>
      /\ Append(s \o t, x) = (s \o t) \o <<x>>
  BY <1>2, AppendIsConcat
<1> QED
  BY <1>1, <1>3, ConcatAssociative

(* A sequence is its head and its tail.                                    *)
LEMMA HeadAndTail ==
    ASSUME NEW S, NEW s \in Seq(S), s # <<>>
    PROVE  <<Head(s)>> \o Tail(s) = s
<1>1. Len(s) \in Nat \ {0} /\ Head(s) = s[1]
  BY EmptySeq
<1>2. 1 \in 1 .. Len(s) /\ Len(s) \in 1 .. Len(s)
  BY <1>1
<1>3. SubSeq(s, 1, Len(s)) = <<s[1]>> \o SubSeq(s, 1 + 1, Len(s))
  BY ONLY <1>2, s \in Seq(S), SubSeqRecursiveFirst
<1>4. SubSeq(s, 1, Len(s)) = s /\ Tail(s) = SubSeq(s, 2, Len(s))
  BY SubSeqFull, TailIsSubSeq
<1>5. SubSeq(s, 1 + 1, Len(s)) = SubSeq(s, 2, Len(s))
  OBVIOUS
<1> QED
  BY <1>1, <1>3, <1>4, <1>5, Zenon

(* The head of the second of two buffers moves to the end of the first,    *)
(* and both together hold what they held.                                  *)
LEMMA HeadMoves ==
    ASSUME NEW S, NEW s \in Seq(S), NEW t \in Seq(S), t # <<>>
    PROVE  Append(s, Head(t)) \o Tail(t) = s \o t
<1>1. Head(t) \in S /\ Tail(t) \in Seq(S) /\ <<Head(t)>> \in Seq(S)
  BY HeadTailProperties
<1>2. Append(s, Head(t)) = s \o <<Head(t)>>
  BY <1>1, AppendIsConcat
<1>3. (s \o <<Head(t)>>) \o Tail(t) = s \o (<<Head(t)>> \o Tail(t))
  BY <1>1, ConcatAssociative
<1> QED
  BY <1>2, <1>3, HeadAndTail

(* A prefix and a tail hold nothing that the sequence does not hold.       *)
LEMMA PrefixElements ==
    ASSUME NEW S, NEW s \in Seq(S), NEW n \in 0 .. Len(s)
    PROVE  /\ SubSeq(s, 1, n) \in Seq(S)
           /\ Len(SubSeq(s, 1, n)) <= Len(s)
           /\ \A i \in DOMAIN SubSeq(s, 1, n) :
                 i \in DOMAIN s /\ SubSeq(s, 1, n)[i] = s[i]
<1>1. Len(s) \in Nat /\ DOMAIN s = 1 .. Len(s) /\ n \in Nat /\ n <= Len(s)
  BY LenProperties
<1>2. \A i \in 1 .. n : i \in 1 .. Len(s) /\ s[i] \in S
  BY <1>1, ElementOfSeq
<1> DEFINE p == SubSeq(s, 1, n)
<1>3. /\ p \in Seq(S) /\ Len(p) = IF 1 <= n THEN n - 1 + 1 ELSE 0
      /\ \A i \in 1 .. (n - 1 + 1) : p[i] = s[1 + i - 1]
  BY <1>1, <1>2, SubSeqProperties
<1> HIDE DEF p
<1>4. Len(p) = n /\ n - 1 + 1 = n /\ \A i \in 1 .. n : 1 + i - 1 = i
  BY <1>1, <1>3
<1>5. DOMAIN p = 1 .. n
  BY <1>3, <1>4, LenProperties
<1>6. \A i \in 1 .. n : p[i] = s[i]
  BY <1>3, <1>4
<1> QED
  BY <1>1, <1>2, <1>3, <1>4, <1>5, <1>6 DEF p

LEMMA TailElements ==
    ASSUME NEW S, NEW s \in Seq(S), s # <<>>
    PROVE  /\ Head(s) \in S
           /\ 1 \in DOMAIN s /\ Head(s) = s[1]
           /\ Tail(s) \in Seq(S)
           /\ Len(Tail(s)) = Len(s) - 1
           /\ \A i \in DOMAIN Tail(s) : i + 1 \in DOMAIN s /\ Tail(s)[i] = s[i + 1]
<1>1. /\ Head(s) \in S /\ Tail(s) \in Seq(S) /\ Len(Tail(s)) = Len(s) - 1
      /\ \A i \in 1 .. Len(Tail(s)) : Tail(s)[i] = s[i + 1]
  BY HeadTailProperties
<1>2. /\ Len(s) \in Nat \ {0} /\ Head(s) = s[1] /\ DOMAIN s = 1 .. Len(s)
      /\ DOMAIN Tail(s) = 1 .. Len(Tail(s))
  BY <1>1, EmptySeq, LenProperties
<1>3. \A i \in 1 .. (Len(s) - 1) : i + 1 \in 1 .. Len(s)
  BY <1>2
<1> QED
  BY <1>1, <1>2, <1>3
=============================================================================
