------------------------ MODULE WechatDelivery_proofs ------------------------
(***************************************************************************)
(* What holds of WechatDelivery for every set of lessons, every room of    *)
(* the queue and every number of bindings, faults and lessons that begin.  *)
(*                                                                         *)
(* Inv says where each coroutine can be and what it then has in hand, what *)
(* memory becomes of the write under way, and that a reminder claimed is   *)
(* in one place: in the queue or in the hands of one coroutine.  A step    *)
(* moves one coroutine (Moves); it begins a write (Begins), ends one       *)
(* (Ends), or does neither (Turns).  Only the steps of the binder, of      *)
(* remove(), of the pause and of a restart do otherwise.                   *)
(***************************************************************************)
EXTENDS WechatDelivery, SequenceTheorems, FiniteSetTheorems, WellFoundedInduction, TLAPS

(***************************************************************************)
(* The queue.  Reminders stand first, the most urgent before the others,   *)
(* and none stands there twice.                                            *)
(***************************************************************************)
Orderly(s) ==
  \A i, j \in DOMAIN s : i < j /\ IsReminder(s[j]) =>
    IsReminder(s[i]) /\ Start[s[i].key] <= Start[s[j].key] /\ s[i] # s[j]

LEMMA EntryFacts ==
  ASSUME NEW e \in Entry
  PROVE  /\ IsReminder(e) => e.key \in Keys /\ Start[e.key] \in Nat
         /\ e.generation \in Generations
         /\ IsOrdinary(e) <=> ~IsReminder(e)
BY WechatAssumption DEF Entry, IsReminder, IsOrdinary, Generations

LEMMA SeqFacts ==
  ASSUME NEW s \in Seq(Entry)
  PROVE  /\ Len(s) \in Nat /\ DOMAIN s = 1 .. Len(s)
         /\ \A i \in 1 .. Len(s) : s[i] \in Entry
         /\ Range(s) = {s[i] : i \in 1 .. Len(s)} /\ Range(s) \subseteq Entry
         /\ s = <<>> <=> Len(s) = 0
BY LenProperties, ElementOfSeq, RangeEquality, EmptySeq

\* A set of indices that is not empty has a first one.
LEMMA FirstIndex ==
  ASSUME NEW T, T \subseteq Nat, T # {}
  PROVE  Min(T) \in T /\ \A i \in T : Min(T) <= i
<1>1. PICK m \in T : \A i \in T : ~(<<i, m>> \in OpToRel(<, Nat))
  BY NatLessThanWellFounded, WFMin
<1>2. \A i \in T : ~(i < m)
  BY <1>1 DEF OpToRel
<1>3. \A i \in T : m <= i
  BY <1>2
<1>4. QED BY <1>3 DEF Min

LEMMA FirstOrdinary ==
  ASSUME NEW s \in Seq(Entry)
  PROVE  LET i == SelectInSeq(s, IsOrdinary) IN
         IF \E j \in 1 .. Len(s) : IsOrdinary(s[j])
         THEN i \in 1 .. Len(s) /\ IsOrdinary(s[i])
         ELSE i = 0
<1> DEFINE T == {i \in 1 .. Len(s) : IsOrdinary(s[i])}
<1>1. T \subseteq Nat /\ (T # {} => Min(T) \in T)
  <2>1. T \subseteq Nat
    BY SeqFacts
  <2> HIDE DEF T
  <2>2. QED BY <2>1, FirstIndex
<1>2. SelectInSeq(s, IsOrdinary) = IF T # {} THEN Min(T) ELSE 0
  BY DEF SelectInSeq
<1>3. QED BY <1>1, <1>2

\* Leaving out one entry.
LEMMA WithoutOne ==
  ASSUME NEW s \in Seq(Entry), Orderly(s), NEW d \in 1 .. Len(s)
  PROVE  LET t == RemoveAt(s, d) IN
         /\ t \in Seq(Entry) /\ Len(t) = Len(s) - 1 /\ Orderly(t)
         /\ Range(s) = Range(t) \cup {s[d]}
         /\ IsReminder(s[d]) => s[d] \notin Range(t)
<1> DEFINE a == SubSeq(s, 1, d - 1)
           b == SubSeq(s, d + 1, Len(s))
           t == RemoveAt(s, d)
<1>0. Len(s) \in Nat /\ d \in Nat /\ (\A i \in 1 .. Len(s) : s[i] \in Entry) /\ DOMAIN s = 1 .. Len(s)
  BY SeqFacts
<1>1. /\ a \in Seq(Entry) /\ Len(a) = d - 1
      /\ \A i \in 1 .. d - 1 : a[i] = s[i]
  <2>1. \A i \in 1 .. d - 1 : s[i] \in Entry
    BY <1>0
  <2>2. /\ a \in Seq(Entry) /\ Len(a) = IF 1 <= d - 1 THEN d - 1 - 1 + 1 ELSE 0
        /\ \A i \in 1 .. d - 1 - 1 + 1 : a[i] = s[1 + i - 1]
    BY <1>0, <2>1, SubSeqProperties
  <2>3. QED BY <1>0, <2>2
<1>2. /\ b \in Seq(Entry) /\ Len(b) = Len(s) - d
      /\ \A i \in 1 .. Len(s) - d : b[i] = s[d + i]
  <2>1. \A i \in d + 1 .. Len(s) : s[i] \in Entry
    BY <1>0
  <2>2. /\ b \in Seq(Entry) /\ Len(b) = IF d + 1 <= Len(s) THEN Len(s) - (d + 1) + 1 ELSE 0
        /\ \A i \in 1 .. Len(s) - (d + 1) + 1 : b[i] = s[d + 1 + i - 1]
    BY <1>0, <2>1, SubSeqProperties
  <2>3. QED BY <1>0, <2>2
<1>3. /\ t \in Seq(Entry) /\ Len(t) = Len(s) - 1
      /\ \A i \in 1 .. Len(t) : t[i] = IF i <= d - 1 THEN a[i] ELSE b[i - (d - 1)]
  <2>1. /\ a \o b \in Seq(Entry) /\ Len(a \o b) = Len(a) + Len(b)
        /\ \A i \in 1 .. Len(a) + Len(b) :
             (a \o b)[i] = IF i <= Len(a) THEN a[i] ELSE b[i - Len(a)]
    BY <1>1, <1>2, ConcatProperties
  <2>2. t = a \o b
    BY DEF RemoveAt
  <2> HIDE DEF a, b, t
  <2>3. Len(a) + Len(b) = Len(s) - 1 /\ Len(a) = d - 1
    BY <1>0, <1>1, <1>2
  <2>4. QED BY <2>1, <2>2, <2>3
<1> HIDE DEF a, b, t
<1>4. \A i \in 1 .. Len(t) : t[i] = IF i < d THEN s[i] ELSE s[i + 1]
  BY <1>0, <1>1, <1>2, <1>3
<1>5. DOMAIN t = 1 .. Len(t) /\ Range(t) = {t[i] : i \in 1 .. Len(t)}
  BY <1>3, SeqFacts
<1>6. Orderly(t)
  <2> SUFFICES ASSUME NEW i \in 1 .. Len(t), NEW j \in 1 .. Len(t), i < j, IsReminder(t[j])
               PROVE  IsReminder(t[i]) /\ Start[t[i].key] <= Start[t[j].key] /\ t[i] # t[j]
    BY <1>5 DEF Orderly
  <2> DEFINE h(n) == IF n < d THEN n ELSE n + 1
  <2>1. /\ h(i) \in 1 .. Len(s) /\ h(j) \in 1 .. Len(s) /\ h(i) < h(j)
        /\ t[i] = s[h(i)] /\ t[j] = s[h(j)]
    BY <1>0, <1>3, <1>4
  <2>2. QED BY <1>0, <2>1 DEF Orderly
<1>7. Range(s) = Range(t) \cup {s[d]}
  <2>1. Range(s) = {s[i] : i \in 1 .. Len(s)}
    BY SeqFacts
  <2>2. \A i \in 1 .. Len(t) : t[i] \in Range(s)
    BY <1>0, <1>3, <1>4, <2>1
  <2>3. ASSUME NEW i \in 1 .. Len(s), i # d PROVE s[i] \in Range(t)
    <3>1. CASE i < d
      BY <1>0, <1>3, <1>4, <1>5, <3>1
    <3>2. CASE i > d
      <4>1. i - 1 \in 1 .. Len(t) /\ ~(i - 1 < d) /\ i - 1 + 1 = i
        BY <1>0, <1>3, <3>2
      <4>2. QED BY <1>4, <1>5, <4>1
    <3>3. QED BY <1>0, <2>3, <3>1, <3>2
  <2>4. QED BY <1>5, <2>1, <2>2, <2>3
<1>8. ASSUME IsReminder(s[d]), NEW i \in 1 .. Len(t) PROVE t[i] # s[d]
  <2>1. CASE i < d
    <3>1. t[i] = s[i] /\ i \in 1 .. Len(s)
      BY <1>0, <1>3, <1>4, <2>1
    <3>2. QED BY <1>0, <1>8, <2>1, <3>1 DEF Orderly
  <2>2. CASE ~(i < d)
    <3>1. t[i] = s[i + 1] /\ i + 1 \in 1 .. Len(s) /\ d < i + 1
      BY <1>0, <1>3, <1>4, <2>2
    <3>2. QED BY <1>0, <1>8, <3>1 DEF Orderly
  <2>3. QED BY <2>1, <2>2
<1>9. QED BY <1>3, <1>5, <1>6, <1>7, <1>8 DEF t

LEMMA WithoutHead ==
  ASSUME NEW s \in Seq(Entry), Orderly(s), s # <<>>
  PROVE  /\ Head(s) \in Entry /\ Head(s) \in Range(s)
         /\ Tail(s) \in Seq(Entry) /\ Len(Tail(s)) = Len(s) - 1 /\ Orderly(Tail(s))
         /\ Range(Tail(s)) \subseteq Range(s)
         /\ IsReminder(Head(s)) => Head(s) \notin Range(Tail(s))
<1> DEFINE t == Tail(s)
<1>1. /\ Len(s) \in Nat \ {0} /\ DOMAIN s = 1 .. Len(s) /\ Head(s) = s[1]
      /\ Range(s) = {s[i] : i \in 1 .. Len(s)} /\ \A i \in 1 .. Len(s) : s[i] \in Entry
  BY SeqFacts
<1>2. /\ t \in Seq(Entry) /\ Len(t) = Len(s) - 1
      /\ \A i \in 1 .. Len(t) : t[i] = s[i + 1]
  BY HeadTailProperties
<1>3. DOMAIN t = 1 .. Len(t) /\ Range(t) = {t[i] : i \in 1 .. Len(t)}
  BY <1>2, SeqFacts
<1> HIDE DEF t
<1>4. \A i \in 1 .. Len(t) : i + 1 \in 1 .. Len(s) /\ 1 < i + 1
  BY <1>1, <1>2
<1>5. Orderly(t)
  <2> SUFFICES ASSUME NEW i \in 1 .. Len(t), NEW j \in 1 .. Len(t), i < j, IsReminder(t[j])
               PROVE  IsReminder(t[i]) /\ Start[t[i].key] <= Start[t[j].key] /\ t[i] # t[j]
    BY <1>3 DEF Orderly
  <2>1. i + 1 < j + 1
    OBVIOUS
  <2>2. QED BY <1>1, <1>2, <1>4, <2>1 DEF Orderly
<1>6. Range(t) \subseteq Range(s)
  BY <1>1, <1>2, <1>3, <1>4
<1>7. ASSUME IsReminder(s[1]), NEW i \in 1 .. Len(t) PROVE t[i] # s[1]
  BY <1>1, <1>2, <1>4, <1>7 DEF Orderly
<1>8. QED BY <1>1, <1>2, <1>3, <1>5, <1>6, <1>7 DEF t

LEMMA Appended ==
  ASSUME NEW s \in Seq(Entry), Orderly(s), NEW e \in Entry,
         IsReminder(e) => /\ e \notin Range(s)
                          /\ \A i \in 1 .. Len(s) : IsReminder(s[i])
                                                     /\ Start[s[i].key] <= Start[e.key]
  PROVE  LET t == Append(s, e) IN
         /\ t \in Seq(Entry) /\ Len(t) = Len(s) + 1 /\ Orderly(t)
         /\ Range(t) = Range(s) \cup {e}
<1> DEFINE t == Append(s, e)
<1>1. /\ Len(s) \in Nat /\ DOMAIN s = 1 .. Len(s)
      /\ Range(s) = {s[i] : i \in 1 .. Len(s)}
  BY SeqFacts
<1>2. /\ t \in Seq(Entry) /\ Len(t) = Len(s) + 1
      /\ \A i \in 1 .. Len(s) : t[i] = s[i]
      /\ t[Len(s) + 1] = e
  BY AppendProperties
<1>3. DOMAIN t = 1 .. Len(t) /\ Range(t) = {t[i] : i \in 1 .. Len(t)}
  BY <1>2, SeqFacts
<1> HIDE DEF t
<1>4. \A i \in 1 .. Len(t) : i \in 1 .. Len(s) \/ i = Len(s) + 1
  BY <1>1, <1>2
<1>5. Range(t) = Range(s) \cup {e}
  <2>1. 1 .. Len(t) = 1 .. Len(s) \cup {Len(s) + 1}
    BY <1>1, <1>2
  <2>2. QED BY <1>1, <1>2, <1>3, <2>1
<1>6. Orderly(t)
  <2> SUFFICES ASSUME NEW i \in 1 .. Len(t), NEW j \in 1 .. Len(t), i < j, IsReminder(t[j])
               PROVE  IsReminder(t[i]) /\ Start[t[i].key] <= Start[t[j].key] /\ t[i] # t[j]
    BY <1>3 DEF Orderly
  <2>1. i \in 1 .. Len(s) /\ t[i] = s[i]
    BY <1>1, <1>2
  <2>2. CASE j \in 1 .. Len(s)
    BY <1>1, <1>2, <2>1, <2>2 DEF Orderly
  <2>3. CASE j = Len(s) + 1
    BY <1>1, <1>2, <2>1, <2>3
  <2>4. QED BY <1>4, <2>2, <2>3
<1>7. QED BY <1>2, <1>5, <1>6 DEF t

\* Inserting a reminder before the first entry that has to stand behind it.
LEMMA Inserted ==
  ASSUME NEW s \in Seq(Entry), Orderly(s), NEW e \in Entry, IsReminder(e),
         e \notin Range(s), NEW d \in 1 .. Len(s),
         \A i \in 1 .. d - 1 : IsReminder(s[i]) /\ Start[s[i].key] <= Start[e.key],
         IsReminder(s[d]) => Start[e.key] <= Start[s[d].key]
  PROVE  LET t == InsertAt(s, d, e) IN
         /\ t \in Seq(Entry) /\ Len(t) = Len(s) + 1 /\ Orderly(t)
         /\ Range(t) = Range(s) \cup {e}
<1> DEFINE a == SubSeq(s, 1, d - 1)
           b == SubSeq(s, d, Len(s))
           t == InsertAt(s, d, e)
<1>0. /\ Len(s) \in Nat /\ d \in Nat /\ DOMAIN s = 1 .. Len(s)
      /\ \A i \in 1 .. Len(s) : s[i] \in Entry
      /\ Range(s) = {s[i] : i \in 1 .. Len(s)}
  BY SeqFacts
<1>1. /\ a \in Seq(Entry) /\ Len(a) = d - 1
      /\ \A i \in 1 .. d - 1 : a[i] = s[i]
  <2>1. \A i \in 1 .. d - 1 : s[i] \in Entry
    BY <1>0
  <2>2. /\ a \in Seq(Entry) /\ Len(a) = IF 1 <= d - 1 THEN d - 1 - 1 + 1 ELSE 0
        /\ \A i \in 1 .. d - 1 - 1 + 1 : a[i] = s[1 + i - 1]
    BY <1>0, <2>1, SubSeqProperties
  <2>3. QED BY <1>0, <2>2
<1>2. /\ b \in Seq(Entry) /\ Len(b) = Len(s) - d + 1
      /\ \A i \in 1 .. Len(s) - d + 1 : b[i] = s[d + i - 1]
  <2>1. \A i \in d .. Len(s) : s[i] \in Entry
    BY <1>0
  <2>2. /\ b \in Seq(Entry) /\ Len(b) = IF d <= Len(s) THEN Len(s) - d + 1 ELSE 0
        /\ \A i \in 1 .. Len(s) - d + 1 : b[i] = s[d + i - 1]
    BY <1>0, <2>1, SubSeqProperties
  <2>3. QED BY <1>0, <2>2
<1>3. /\ t \in Seq(Entry) /\ Len(t) = Len(s) + 1
      /\ \A i \in 1 .. Len(t) :
           t[i] = IF i < d THEN a[i] ELSE IF i = d THEN e ELSE b[i - d]
  <2> DEFINE c == a \o <<e>>
  <2>1. /\ <<e>> \in Seq(Entry) /\ Len(<<e>>) = 1 /\ <<e>>[1] = e
    OBVIOUS
  <2>2. /\ c \in Seq(Entry) /\ Len(c) = Len(a) + Len(<<e>>)
        /\ \A i \in 1 .. Len(a) + Len(<<e>>) :
             c[i] = IF i <= Len(a) THEN a[i] ELSE <<e>>[i - Len(a)]
    BY <1>1, <2>1, ConcatProperties
  <2> HIDE DEF a, b
  <2>3. /\ Len(c) = d
        /\ \A i \in 1 .. d : c[i] = IF i < d THEN a[i] ELSE e
    <3> HIDE DEF c
    <3>1. Len(c) = d
      BY <1>0, <1>1, <2>1, <2>2
    <3>2. ASSUME NEW i \in 1 .. d PROVE c[i] = IF i < d THEN a[i] ELSE e
      <4>1. c[i] = IF i <= d - 1 THEN a[i] ELSE <<e>>[i - (d - 1)]
        BY <1>0, <1>1, <2>1, <2>2
      <4>2. CASE i < d
        BY <1>0, <4>1, <4>2
      <4>3. CASE ~(i < d)
        <5>1. i - (d - 1) = 1
          BY <1>0, <4>3
        <5>2. QED BY <1>0, <2>1, <4>1, <4>3, <5>1
      <4>4. QED BY <4>2, <4>3
    <3>3. QED BY <3>1, <3>2
  <2> HIDE DEF c
  <2>4. /\ c \o b \in Seq(Entry) /\ Len(c \o b) = Len(c) + Len(b)
        /\ \A i \in 1 .. Len(c) + Len(b) :
             (c \o b)[i] = IF i <= Len(c) THEN c[i] ELSE b[i - Len(c)]
    BY <1>2, <2>2, ConcatProperties
  <2>5. t = c \o b
    BY DEF InsertAt, a, b, c
  <2> HIDE DEF t
  <2>6. t \in Seq(Entry) /\ Len(t) = Len(s) + 1
    BY <1>0, <1>2, <2>3, <2>4, <2>5
  <2>7. ASSUME NEW i \in 1 .. Len(t)
        PROVE  t[i] = IF i < d THEN a[i] ELSE IF i = d THEN e ELSE b[i - d]
    <3>1. t[i] = IF i <= d THEN c[i] ELSE b[i - d]
      BY <1>0, <1>2, <2>3, <2>4, <2>5, <2>6
    <3>2. i \in Nat /\ (i <= d => i \in 1 .. d)
      BY <1>0, <2>6
    <3>3. QED BY <1>0, <2>3, <3>1, <3>2
  <2>8. QED BY <2>6, <2>7
<1> HIDE DEF a, b, t
<1>4. \A i \in 1 .. Len(t) :
        t[i] = IF i < d THEN s[i] ELSE IF i = d THEN e ELSE s[i - 1]
  <2> SUFFICES ASSUME NEW i \in 1 .. Len(t)
               PROVE  t[i] = IF i < d THEN s[i] ELSE IF i = d THEN e ELSE s[i - 1]
    OBVIOUS
  <2>1. CASE i < d
    BY <1>0, <1>1, <1>3, <2>1
  <2>2. CASE i = d
    BY <1>0, <1>3, <2>2
  <2>3. CASE i > d
    <3>1. i - d \in 1 .. Len(s) - d + 1 /\ d + (i - d) - 1 = i - 1
      BY <1>0, <1>3, <2>3
    <3>2. t[i] = b[i - d]
      BY <1>0, <1>3, <2>3
    <3>3. QED BY <1>0, <1>2, <2>3, <3>1, <3>2
  <2>4. QED BY <1>0, <1>3, <2>1, <2>2, <2>3
<1>5. DOMAIN t = 1 .. Len(t) /\ Range(t) = {t[i] : i \in 1 .. Len(t)}
  BY <1>3, SeqFacts
<1>6. Orderly(t)
  <2> SUFFICES ASSUME NEW i \in 1 .. Len(t), NEW j \in 1 .. Len(t), i < j, IsReminder(t[j])
               PROVE  IsReminder(t[i]) /\ Start[t[i].key] <= Start[t[j].key] /\ t[i] # t[j]
    BY <1>5 DEF Orderly
  <2>0. /\ i \in Nat /\ j \in Nat /\ d \in 1 .. Len(s)
        /\ \A n \in 1 .. Len(t) : (n < d => n \in 1 .. Len(s)) /\ (n > d => n - 1 \in 1 .. Len(s))
    BY <1>0, <1>3
  <2>1. CASE j < d
    BY <1>0, <1>4, <2>0, <2>1 DEF Orderly
  <2>2. CASE j = d
    <3>1. t[j] = e /\ t[i] = s[i] /\ i \in 1 .. d - 1 /\ i \in 1 .. Len(s)
      BY <1>4, <2>0, <2>2
    <3>2. QED BY <1>0, <3>1
  <2>3. CASE j > d
    <3>1. t[j] = s[j - 1] /\ j - 1 \in 1 .. Len(s) /\ d <= j - 1
      <4>1. j - 1 \in 1 .. Len(s) /\ d <= j - 1 /\ ~(j < d) /\ j # d
        BY <2>0, <2>3
      <4>2. QED BY <1>4, <4>1
    <3>2. CASE i < d
      <4>1. t[i] = s[i] /\ i \in 1 .. Len(s) /\ i < j - 1
        BY <1>4, <2>0, <3>1, <3>2
      <4>2. QED BY <1>0, <3>1, <4>1 DEF Orderly
    <3>3. CASE i = d
      <4>1. t[i] = e /\ t[i] # t[j]
        BY <1>0, <1>4, <3>1, <3>3
      <4>2. IsReminder(s[d]) /\ Start[s[d].key] <= Start[s[j - 1].key]
        <5>1. CASE d = j - 1
          BY <3>1, <5>1, EntryFacts, <1>0
        <5>2. CASE d # j - 1
          <6>1. d < j - 1
            BY <2>0, <3>1, <5>2
          <6>2. QED BY <1>0, <3>1, <6>1 DEF Orderly
        <5>3. QED BY <5>1, <5>2
      <4>3. /\ Start[e.key] \in Nat /\ Start[s[d].key] \in Nat
            /\ Start[s[j - 1].key] \in Nat
        BY <1>0, <3>1, <4>2, EntryFacts
      <4>4. QED BY <3>1, <4>1, <4>2, <4>3
    <3>4. CASE i > d
      <4>1. t[i] = s[i - 1] /\ i - 1 \in 1 .. Len(s) /\ i - 1 < j - 1
        BY <1>4, <2>0, <3>4
      <4>2. QED BY <1>0, <3>1, <4>1 DEF Orderly
    <3>5. QED BY <2>0, <3>2, <3>3, <3>4
  <2>4. QED BY <2>0, <2>1, <2>2, <2>3
<1>7. Range(t) = Range(s) \cup {e}
  <2>1. \A i \in 1 .. Len(t) : t[i] \in Range(s) \cup {e}
    <3> SUFFICES ASSUME NEW i \in 1 .. Len(t) PROVE t[i] \in Range(s) \cup {e}
      OBVIOUS
    <3>1. CASE i < d
      <4>1. t[i] = s[i] /\ i \in 1 .. Len(s)
        BY <1>0, <1>3, <1>4, <3>1
      <4>2. QED BY <1>0, <4>1
    <3>2. CASE i = d
      BY <1>4, <3>2, <1>0
    <3>3. CASE i > d
      <4>1. t[i] = s[i - 1] /\ i - 1 \in 1 .. Len(s)
        BY <1>0, <1>3, <1>4, <3>3
      <4>2. QED BY <1>0, <4>1
    <3>4. QED BY <1>0, <3>1, <3>2, <3>3
  <2>2. e \in Range(t)
    <3>1. d \in 1 .. Len(t) /\ t[d] = e
      BY <1>0, <1>3, <1>4
    <3>2. QED BY <1>5, <3>1
  <2>3. ASSUME NEW i \in 1 .. Len(s) PROVE s[i] \in Range(t)
    <3>1. CASE i < d
      <4>1. i \in 1 .. Len(t) /\ t[i] = s[i]
        BY <1>0, <1>3, <1>4, <3>1
      <4>2. QED BY <1>5, <4>1
    <3>2. CASE ~(i < d)
      <4>1. i + 1 \in 1 .. Len(t) /\ t[i + 1] = s[i]
        BY <1>0, <1>3, <1>4, <3>2
      <4>2. QED BY <1>5, <4>1
    <3>3. QED BY <3>1, <3>2
  <2>4. QED BY <1>0, <1>5, <2>1, <2>2, <2>3
<1>8. QED BY <1>3, <1>6, <1>7 DEF t

LEMMA Placed ==
  ASSUME NEW s \in Seq(Entry), Orderly(s), NEW e \in Entry,
         IsReminder(e) => e \notin Range(s)
  PROVE  LET t == Place(s, e) IN
         /\ t \in Seq(Entry) /\ Len(t) = Len(s) + 1 /\ Orderly(t)
         /\ Range(t) = Range(s) \cup {e}
<1> DEFINE T == {i \in 1 .. Len(s) : IsOrdinary(s[i]) \/ Start[s[i].key] > Start[e.key]}
           d == IF T # {} THEN Min(T) ELSE 0
<1>0. /\ Len(s) \in Nat /\ DOMAIN s = 1 .. Len(s) /\ \A i \in 1 .. Len(s) : s[i] \in Entry
  BY SeqFacts
<1>1. Place(s, e) = IF IsOrdinary(e) \/ d = 0 THEN Append(s, e) ELSE InsertAt(s, d, e)
  BY DEF Place, SelectInSeq
<1>2. CASE IsOrdinary(e)
  <2>1. ~IsReminder(e)
    BY <1>2, EntryFacts
  <2>2. QED BY <1>1, <1>2, <2>1, Appended
<1>3. CASE ~IsOrdinary(e)
  <2>1. IsReminder(e) /\ Start[e.key] \in Nat
    BY <1>3, EntryFacts
  <2>2. \A i \in (1 .. Len(s)) \ T : IsReminder(s[i]) /\ Start[s[i].key] <= Start[e.key]
    <3> SUFFICES ASSUME NEW i \in (1 .. Len(s)) \ T
                 PROVE  IsReminder(s[i]) /\ Start[s[i].key] <= Start[e.key]
      OBVIOUS
    <3>1. ~IsOrdinary(s[i]) /\ ~(Start[s[i].key] > Start[e.key]) /\ s[i] \in Entry
      BY <1>0
    <3>2. IsReminder(s[i]) /\ Start[s[i].key] \in Nat
      BY <3>1, EntryFacts
    <3>3. QED BY <2>1, <3>1, <3>2
  <2>3. CASE T = {}
    <3>1. Place(s, e) = Append(s, e)
      BY <1>1, <2>3
    <3>2. QED BY <2>1, <2>2, <2>3, <3>1, Appended
  <2>4. CASE T # {}
    <3>1. d \in T /\ \A i \in T : d <= i
      <4>1. T \subseteq Nat
        BY <1>0
      <4>2. d = Min(T)
        BY <2>4
      <4> HIDE DEF T, d
      <4>3. QED BY <2>4, <4>1, <4>2, FirstIndex
    <3>2. d \in 1 .. Len(s) /\ (IsOrdinary(s[d]) \/ Start[s[d].key] > Start[e.key])
      BY <3>1
    <3> HIDE DEF d
    <3>3. Place(s, e) = InsertAt(s, d, e)
      BY <1>1, <1>3, <3>2
    <3>4. \A i \in 1 .. d - 1 : i \in (1 .. Len(s)) \ T
      <4> HIDE DEF T
      <4>1. QED BY <1>0, <3>1, <3>2
    <3>5. IsReminder(s[d]) => Start[e.key] <= Start[s[d].key]
      BY <1>0, <2>1, <3>2, EntryFacts
    <3> HIDE DEF T
    <3>6. QED BY <2>1, <2>2, <3>2, <3>3, <3>4, <3>5, Inserted
  <2>5. QED BY <2>3, <2>4
<1>4. QED BY <1>2, <1>3

(***************************************************************************)
(* enqueue(): the queue stays in order and within its room; what goes is   *)
(* in no place afterwards, and is a reminder only if all that stay are     *)
(* reminders at least as urgent.                                           *)
(***************************************************************************)
LessUrgent(e, s) == \A d \in Range(s) : IsReminder(d) /\ Start[d.key] <= Start[e.key]

LEMMA Enqueued ==
  ASSUME queue \in Seq(Entry), Len(queue) <= Room, Orderly(queue), NEW e \in Entry,
         IsReminder(e) => e \notin Range(queue), Enqueue(e)
  PROVE  /\ queue' \in Seq(Entry) /\ Len(queue') <= Room /\ Orderly(queue')
         /\ Range(queue') \subseteq Range(queue) \cup {e}
         /\ Victim(e) \in Range(queue) \cup {e, NoEntry}
         /\ IsReminder(Victim(e)) =>
              Victim(e) \notin Range(queue') /\ LessUrgent(Victim(e), queue')
         /\ \A d \in Range(queue) \cup {e} : d \notin Range(queue') => d = Victim(e)
<1>0. /\ Len(queue) \in Nat /\ DOMAIN queue = 1 .. Len(queue)
      /\ Range(queue) = {queue[i] : i \in 1 .. Len(queue)}
      /\ \A i \in 1 .. Len(queue) : queue[i] \in Entry
      /\ Room \in Nat \ {0}
  BY SeqFacts, WechatAssumption
<1>1. CASE ~Full
  <2>1. queue' = Place(queue, e) /\ Victim(e) = NoEntry /\ Len(queue) + 1 <= Room
    BY <1>0, <1>1 DEF Enqueue, Victim, Full
  <2>2. /\ queue' \in Seq(Entry) /\ Len(queue') = Len(queue) + 1 /\ Orderly(queue')
        /\ Range(queue') = Range(queue) \cup {e}
    BY <2>1, Placed
  <2>3. ~IsReminder(Victim(e))
    BY <2>1 DEF NoEntry, IsReminder
  <2>4. QED BY <1>0, <2>1, <2>2, <2>3
<1>2. CASE Full /\ Drop(e) = 0
  <2>1. queue' = queue /\ Victim(e) = e
    BY <1>2 DEF Enqueue, Victim
  <2>2. \A i \in 1 .. Len(queue) : ~IsOrdinary(queue[i])
    <3> SUFFICES ASSUME \E i \in 1 .. Len(queue) : IsOrdinary(queue[i]) PROVE FALSE
      OBVIOUS
    <3>1. Drop(e) = SelectInSeq(queue, IsOrdinary)
      BY <1>0 DEF Drop
    <3>2. Drop(e) \in 1 .. Len(queue)
      BY <3>1, FirstOrdinary
    <3>3. QED BY <1>0, <1>2, <3>2
  <2>3. ASSUME IsReminder(e) PROVE LessUrgent(e, queue)
    <3>1. Len(queue) >= 1 /\ Last(queue) = queue[Len(queue)]
      BY <1>0, <1>2 DEF Full, Last
    <3>2. Start[e.key] >= Start[Last(queue).key]
      <4>1. ~IsOrdinary(e)
        BY <2>3, EntryFacts
      <4>2. ~(\E i \in DOMAIN queue : IsOrdinary(queue[i]))
        BY <1>0, <2>2
      <4>3. Drop(e) = IF Start[e.key] >= Start[Last(queue).key] THEN 0 ELSE Len(queue)
        BY <4>1, <4>2 DEF Drop
      <4>4. Len(queue) # 0
        BY <1>0, <3>1
      <4>5. QED BY <1>2, <4>3, <4>4
    <3>3. ASSUME NEW i \in 1 .. Len(queue)
          PROVE  IsReminder(queue[i]) /\ Start[queue[i].key] <= Start[e.key]
      <4>1. /\ IsReminder(queue[i]) /\ Start[queue[i].key] \in Nat
            /\ IsReminder(Last(queue)) /\ Start[Last(queue).key] \in Nat
            /\ Start[e.key] \in Nat
        BY <1>0, <2>2, <2>3, <3>1, EntryFacts
      <4>2. Start[queue[i].key] <= Start[Last(queue).key]
        <5>1. CASE i = Len(queue)
          BY <3>1, <4>1, <5>1
        <5>2. CASE i # Len(queue)
          <6> DEFINE n == Len(queue)
          <6>0. n \in Nat /\ i \in 1 .. n /\ i # n /\ n >= 1 /\ DOMAIN queue = 1 .. n
            BY <1>0, <3>1, <5>2
          <6>1. Last(queue) = queue[n] /\ IsReminder(queue[n])
            BY <3>1, <4>1
          <6> HIDE DEF n
          <6>2. i < n /\ n \in 1 .. n
            BY <6>0
          <6>3. QED BY <6>0, <6>1, <6>2 DEF Orderly
        <5>3. QED BY <5>1, <5>2
      <4>3. QED BY <3>2, <4>1, <4>2
    <3>4. QED BY <1>0, <3>3 DEF LessUrgent
  <2>4. QED BY <2>1, <2>3, <1>0
<1>3. CASE Full /\ Drop(e) # 0
  <2> DEFINE d == Drop(e)
             s == RemoveAt(queue, d)
  <2>1. queue' = Place(s, e) /\ Victim(e) = queue[d]
    BY <1>3 DEF Enqueue, Victim
  <2>2. CASE \E i \in 1 .. Len(queue) : IsOrdinary(queue[i])
    <3>1. d \in 1 .. Len(queue) /\ IsOrdinary(queue[d])
      <4>1. d = SelectInSeq(queue, IsOrdinary)
        BY <1>0, <2>2 DEF Drop
      <4>2. QED BY <2>2, <4>1, FirstOrdinary
    <3>2. ~IsReminder(queue[d])
      BY <1>0, <3>1, EntryFacts
    <3> HIDE DEF d
    <3>3. /\ s \in Seq(Entry) /\ Len(s) = Len(queue) - 1 /\ Orderly(s)
          /\ Range(queue) = Range(s) \cup {queue[d]}
      BY <3>1, WithoutOne
    <3> HIDE DEF s
    <3>4. /\ queue' \in Seq(Entry) /\ Len(queue') = Len(s) + 1 /\ Orderly(queue')
          /\ Range(queue') = Range(s) \cup {e}
      BY <2>1, <3>3, Placed
    <3>5. Len(queue') <= Room
      BY <1>0, <3>3, <3>4
    <3>6. queue[d] \in Range(queue)
      BY <1>0, <3>1
    <3>7. QED BY <2>1, <3>2, <3>3, <3>4, <3>5, <3>6
  <2>3. CASE \A i \in 1 .. Len(queue) : ~IsOrdinary(queue[i])
    <3>1. Len(queue) >= 1 /\ Last(queue) = queue[Len(queue)]
      BY <1>0, <1>3 DEF Full, Last
    <3>2. /\ d = Len(queue) /\ ~IsOrdinary(e)
          /\ ~(Start[e.key] >= Start[Last(queue).key])
      BY <1>0, <1>3, <2>3 DEF Drop
    <3>3. d \in 1 .. Len(queue) /\ IsReminder(queue[d]) /\ IsReminder(e)
      BY <1>0, <2>3, <3>1, <3>2, EntryFacts
    <3>4. \A i \in 1 .. Len(queue) : IsReminder(queue[i]) /\ Start[queue[i].key] \in Nat
      BY <1>0, <2>3, EntryFacts
    <3>5. Start[e.key] \in Nat /\ Start[e.key] <= Start[queue[d].key]
      <4>1. Start[e.key] \in Nat
        BY <3>3, EntryFacts
      <4>2. QED BY <3>1, <3>2, <3>3, <3>4, <4>1
    <3>6. \A i \in 1 .. Len(queue) : Start[queue[i].key] <= Start[queue[d].key]
      <4> SUFFICES ASSUME NEW i \in 1 .. Len(queue)
                   PROVE  Start[queue[i].key] <= Start[queue[d].key]
        OBVIOUS
      <4>1. CASE i = d
        BY <3>4, <4>1
      <4>2. CASE i # d
        <5>0. d \in Nat /\ i \in 1 .. d /\ i # d /\ d \in 1 .. Len(queue)
          BY <1>0, <3>2, <3>3, <4>2
        <5> HIDE DEF d
        <5>1. i < d
          BY <5>0
        <5>2. QED BY <1>0, <3>3, <5>0, <5>1 DEF Orderly
      <4>3. QED BY <4>1, <4>2
    <3> HIDE DEF d
    <3>7. /\ s \in Seq(Entry) /\ Len(s) = Len(queue) - 1 /\ Orderly(s)
          /\ Range(queue) = Range(s) \cup {queue[d]} /\ queue[d] \notin Range(s)
      BY <3>3, WithoutOne
    <3> HIDE DEF s
    <3>8. /\ queue' \in Seq(Entry) /\ Len(queue') = Len(s) + 1 /\ Orderly(queue')
          /\ Range(queue') = Range(s) \cup {e}
      BY <2>1, <3>7, Placed
    <3>9. Len(queue') <= Room
      BY <1>0, <3>7, <3>8
    <3>10. queue[d] \in Range(queue) /\ queue[d] # e
      BY <1>0, <3>3
    <3>11. queue[d] \notin Range(queue')
      BY <3>7, <3>8, <3>10
    <3>12. LessUrgent(queue[d], queue')
      <4>1. \A x \in Range(s) : IsReminder(x) /\ Start[x.key] <= Start[queue[d].key]
        BY <1>0, <3>4, <3>6, <3>7
      <4>2. QED BY <3>3, <3>5, <3>8, <4>1 DEF LessUrgent
    <3>13. QED BY <2>1, <3>7, <3>8, <3>9, <3>10, <3>11, <3>12
  <2>4. QED BY <2>2, <2>3
<1>4. QED BY <1>1, <1>2, <1>3
-----------------------------------------------------------------------------
(***************************************************************************)
(* The reminders that configure() withdraws, and the ordinary notices that *)
(* it leaves in the queue.                                                 *)
(***************************************************************************)
LEMMA SomeIndices ==
  ASSUME NEW s \in Seq(Entry), NEW I \in SUBSET (1 .. Len(s))
  PROVE  /\ Cardinality(I) \in Nat /\ Cardinality(I) <= Len(s)
         /\ Cardinality(I) = Len(s) => I = 1 .. Len(s)
<1>1. Len(s) \in Nat
  BY SeqFacts
<1>2. IsFiniteSet(1 .. Len(s)) /\ Cardinality(1 .. Len(s)) = Len(s)
  <2>1. Cardinality(1 .. Len(s)) = IF 1 > Len(s) THEN 0 ELSE Len(s) - 1 + 1
    BY <1>1, FS_Interval
  <2>2. QED BY <1>1, <2>1, FS_Interval
<1>3. IsFiniteSet(I) /\ Cardinality(I) <= Cardinality(1 .. Len(s))
  BY <1>2, FS_Subset
<1>4. Cardinality(I) = Cardinality(1 .. Len(s)) => I = 1 .. Len(s)
  BY <1>2, FS_Subset
<1>5. QED BY <1>2, <1>3, <1>4, FS_CardinalityType

LEMMA Withdrawn ==
  ASSUME NEW s \in Seq(Entry), Orderly(s), NEW r \in Selections(s, IsReminder)
  PROVE  /\ r \in Seq(Entry)
         /\ \A e \in Range(r) : e \in Range(s) /\ IsReminder(e)
         /\ \A i, j \in DOMAIN r : r[i] = r[j] => i = j
<1> DEFINE I == {i \in DOMAIN s : IsReminder(s[i])}
           N == 1 .. Cardinality(I)
<1>1. PICK f \in [N -> I] : /\ \A m, n \in N : m < n => f[m] < f[n]
                            /\ r = [n \in N |-> s[f[n]]]
  BY DEF Selections
<1>2. /\ Len(s) \in Nat /\ DOMAIN s = 1 .. Len(s) /\ \A i \in 1 .. Len(s) : s[i] \in Entry
      /\ Range(s) = {s[i] : i \in 1 .. Len(s)}
  BY SeqFacts
<1>3. I \in SUBSET (1 .. Len(s))
  BY <1>2
<1>4. Cardinality(I) \in Nat
  <2> HIDE DEF I
  <2>1. QED BY <1>3, SomeIndices
<1>5. \A i \in I : i \in 1 .. Len(s) /\ IsReminder(s[i]) /\ s[i] \in Entry /\ s[i] \in Range(s)
  BY <1>2
<1>6. \A i, j \in I : i < j => s[i] # s[j]
  BY <1>2 DEF Orderly
<1> HIDE DEF I
<1>7. \A n \in N : f[n] \in I /\ r[n] = s[f[n]]
  BY <1>1
<1>8. r \in Seq(Entry) /\ DOMAIN r = N
  <2>1. r \in [1 .. Cardinality(I) -> Entry]
    BY <1>1, <1>5, <1>7
  <2>2. QED BY <1>4, <2>1
<1>9. \A e \in Range(r) : e \in Range(s) /\ IsReminder(e)
  BY <1>5, <1>7, <1>8 DEF Range
<1>10. \A i, j \in N : r[i] = r[j] => i = j
  <2> SUFFICES ASSUME NEW i \in N, NEW j \in N, r[i] = r[j], i # j PROVE FALSE
    OBVIOUS
  <2>1. i < j \/ j < i
    BY <1>4
  <2>2. f[i] < f[j] \/ f[j] < f[i]
    BY <1>1, <2>1
  <2>3. QED BY <1>6, <1>7, <2>2
<1>11. QED BY <1>8, <1>9, <1>10

LEMMA LeftOrdinary ==
  ASSUME NEW s \in Seq(Entry), NEW r \in Selections(s, IsOrdinary)
  PROVE  /\ r \in Seq(Entry) /\ Len(r) <= Len(s) /\ Orderly(r)
         /\ \A e \in Range(r) : ~IsReminder(e)
         /\ Len(r) = Len(s) => \A e \in Range(s) : ~IsReminder(e)
<1> DEFINE I == {i \in DOMAIN s : IsOrdinary(s[i])}
           N == 1 .. Cardinality(I)
<1>1. PICK f \in [N -> I] : r = [n \in N |-> s[f[n]]]
  BY DEF Selections
<1>2. /\ Len(s) \in Nat /\ DOMAIN s = 1 .. Len(s) /\ \A i \in 1 .. Len(s) : s[i] \in Entry
      /\ Range(s) = {s[i] : i \in 1 .. Len(s)}
  BY SeqFacts
<1>3. I \in SUBSET (1 .. Len(s))
  BY <1>2
<1>4. /\ Cardinality(I) \in Nat /\ Cardinality(I) <= Len(s)
      /\ Cardinality(I) = Len(s) => I = 1 .. Len(s)
  <2> HIDE DEF I
  <2>1. QED BY <1>3, SomeIndices
<1>5. \A i \in I : i \in 1 .. Len(s) /\ ~IsReminder(s[i]) /\ s[i] \in Entry
  BY <1>2, EntryFacts
<1> HIDE DEF I
<1>7. \A n \in N : f[n] \in I /\ r[n] = s[f[n]]
  BY <1>1
<1>8. r \in Seq(Entry) /\ DOMAIN r = N /\ Len(r) = Cardinality(I)
  <2>1. r \in [1 .. Cardinality(I) -> Entry]
    BY <1>1, <1>5, <1>7
  <2>2. QED BY <1>4, <2>1
<1>9. \A n \in N : ~IsReminder(r[n])
  BY <1>5, <1>7
<1>10. \A e \in Range(r) : ~IsReminder(e)
  BY <1>8, <1>9 DEF Range
<1>11. Orderly(r)
  BY <1>8, <1>9 DEF Orderly
<1>12. QED BY <1>2, <1>4, <1>5, <1>8, <1>10, <1>11
-----------------------------------------------------------------------------
At(p, pcs) == at[p].pc \in pcs

\* The reminders that a coroutine has in hand.
HandOf(l) == {e \in {l.entry} \cup Range(l.rest) : IsReminder(e)}
LinedOf(l) ==
  /\ IsReminder(l.entry) => l.entry \notin Range(l.rest)
  /\ \A i, j \in DOMAIN l.rest : l.rest[i] = l.rest[j] => i = j

Hand(p) == HandOf(at[p])
Queued == {e \in Range(queue) : IsReminder(e)}
Claims == {e \in Entry : e \in Queued \/ \E p \in Procs : e \in Hand(p)}

\* Where a coroutine can be, and what it then has in hand.
Noticing(p) ==
  At(p, {"note", "noting"}) =>
    /\ \A e \in {at[p].entry} \cup Range(at[p].rest) : IsReminder(e)
    /\ at[p].note \in Unsent
         \/ (p = "sender" /\ At(p, {"noting"}) /\ at[p].note \in Answers)

Put(p) ==
  /\ At(p, {"idle"}) => at[p] = Idle
  /\ p # "request" => at[p].rest = <<>>
  /\ Noticing(p)
  /\ p = "sender" =>
       /\ At(p, {"idle", "gate", "marking", "reply", "note", "noting", "pause", "pausing"})
       /\ At(p, {"gate", "marking", "reply", "pause", "pausing"}) =>
            at[p].entry \in Entry
       /\ At(p, {"marking"}) => IsReminder(at[p].entry)
  /\ p \in {"poller", "binder"} => /\ At(p, {"idle", "reply", "write"}) /\ Hand(p) = {}
                                   /\ At(p, {"reply"}) => at[p].generation # 0
  /\ p = "reminder" =>
       /\ At(p, {"idle", "read", "write", "note", "noting"})
       /\ At(p, {"read"}) => Hand(p) = {} /\ at[p].generation # 0
       /\ At(p, {"write"}) => at[p].entry \in Entry /\ IsReminder(at[p].entry)
  /\ p = "drain" => At(p, {"idle", "note", "noting"})
  /\ p = "request" =>
       /\ At(p, {"idle", "write", "dispose", "note", "noting"})
       /\ At(p, {"write", "dispose"}) => Hand(p) = {} /\ at[p].rest = <<>>

SameBinding(b, c) ==
  /\ b.generation = c.generation /\ b.rows = c.rows /\ b.others = c.others

\* The write under way, as what memory becomes of it.
Marking(p) ==
  /\ p = "sender" /\ At(p, {"marking"})
  /\ write.value = WithRow(memory, at[p].entry.key, "sending")
  /\ write.otherwise = WithRow(memory, at[p].entry.key, "storage_blocked")
Recording(p) ==
  /\ At(p, {"noting"}) /\ Current(at[p].entry)
  /\ write.value = WithRow(memory, at[p].entry.key, at[p].note)
  /\ write.otherwise = write.value
  /\ at[p].note = "accepted" => at[p].entry.key \in wire.accepted
Renewing(p) ==
  /\ (p = "sender" /\ At(p, {"pausing"})) \/ (p = "poller" /\ At(p, {"write"}))
  /\ SameBinding(write.value, memory) /\ write.otherwise = memory
  /\ write.value.enabled = memory.enabled /\ write.value.reminders = memory.reminders
  /\ memory.generation # 0
Claiming(p) ==
  /\ p = "reminder" /\ At(p, {"write"}) /\ gate = p /\ Current(at[p].entry)
  /\ write.value = WithRow(memory, at[p].entry.key, "queued") /\ write.otherwise = memory
  /\ memory.rows[at[p].entry.key] = "none"
Setting(p) ==
  /\ p = "request" /\ At(p, {"write"}) /\ gate = p
  /\ SameBinding(write.value, memory) /\ SameBinding(write.otherwise, memory)
Rebinding(p) ==
  /\ p = "binder" /\ At(p, {"write"})
  /\ write.value.generation = pending /\ pending # 0
  /\ write.value.rows = [k \in Keys |-> "none"] /\ write.value.others
  /\ write.otherwise = memory

Writing ==
  write # NoWrite =>
    /\ memory.others
    /\ LET p == write.by IN
         Marking(p) \/ Recording(p) \/ Renewing(p) \/ Claiming(p) \/ Setting(p) \/ Rebinding(p)

\* A binding drawn, but not yet written, is later than all there are.
Drawn ==
  /\ memory.generation \in {0, file.generation} /\ file.generation <= generations
  /\ \A e \in Claims : e.generation <= generations
  /\ pending # 0 =>
       /\ pending = generations /\ memory.generation = 0
       /\ file.generation < pending /\ \A e \in Claims : e.generation < pending
  /\ \A b \in {memory, file} : b.generation = 0 => b.rows = [k \in Keys |-> "none"]

\* A reminder is in one place.
Apart ==
  \A p \in Procs :
    /\ LinedOf(at[p])
    /\ \A e \in Hand(p) : e \notin Queued /\ \A q \in Procs \ {p} : e \notin Hand(q)

\* The reminder of the sender has left, or its answer is known.
Left == At("sender", {"reply", "pause", "pausing"})
          \/ (At("sender", {"noting"}) /\ at["sender"].note \in Answers)
Gone == IF Left THEN Hand("sender") ELSE {}

Untouched ==
  \A e \in Claims : Current(e) =>
    /\ \/ memory.rows[e.key] # "none"
       \/ At("reminder", {"write"}) /\ e = at["reminder"].entry
    /\ e \notin Gone => wire.sent[e.key] = 0

TrueRows(b) == \A k \in Keys :
  /\ b.generation # 0 /\ b.rows[k] \in {"none", "queued"} => wire.sent[k] = 0
  /\ b.rows[k] \in Unsent => wire.sent[k] = 0
  /\ b.rows[k] = "accepted" => k \in wire.accepted

SenderHolds ==
  /\ At("sender", {"marking"}) \/ Left => gate = "sender" /\ Current(Sending)
  /\ At("sender", {"marking"}) => memory.enabled /\ memory.reminders
  /\ At("sender", {"reply"}) /\ IsReminder(Sending) =>
       memory.rows[Sending.key] = "sending" /\ file.rows[Sending.key] = "sending"

OthersSafe ==
  /\ file.others
  /\ ~memory.others => storage_error /\ memory.generation = 0 /\ pending = 0

Located == \A p \in Procs : Put(p)
WInv ==
  /\ Located /\ Writing /\ Drawn /\ Orderly(queue) /\ Apart /\ Untouched
  /\ TrueRows(memory) /\ TrueRows(file) /\ AtMostOnce /\ SenderHolds /\ OthersSafe
Inv == TypeOK /\ WInv

LEMMA HandFacts ==
  ASSUME NEW l \in Local
  PROVE  /\ HandOf(l) \subseteq Entry
         /\ \A e \in HandOf(l) : IsReminder(e)
         /\ l.rest = <<>> => LinedOf(l)
         /\ l.rest = <<>> => \A e : e \in HandOf(l) <=> e = l.entry /\ IsReminder(e)
<1>1. /\ l.entry \in Entry \cup {NoEntry} /\ l.rest \in Seq(Entry)
  BY DEF Local
<1>2. Range(l.rest) \subseteq Entry
  BY <1>1, SeqFacts
<1>3. ~IsReminder(NoEntry)
  BY DEF IsReminder, NoEntry
<1>4. l.rest = <<>> => Range(l.rest) = {} /\ DOMAIN l.rest = {}
  <2>1. ASSUME l.rest = <<>> PROVE Len(l.rest) = 0
    BY <1>1, <2>1, SeqFacts
  <2>2. ASSUME Len(l.rest) = 0 PROVE Range(l.rest) = {} /\ DOMAIN l.rest = {}
    BY <1>1, <2>2, SeqFacts
  <2>3. QED BY <2>1, <2>2
<1>5. QED BY <1>1, <1>2, <1>3, <1>4 DEF HandOf, LinedOf

LEMMA IdleFacts ==
  /\ Idle \in Local /\ HandOf(Idle) = {} /\ LinedOf(Idle)
  /\ Idle.pc = "idle" /\ Idle.entry = NoEntry /\ Idle.note = "none"
  /\ Idle.generation = 0 /\ Idle.rest = <<>> /\ ~IsReminder(NoEntry)
<1>1. /\ Idle.pc = "idle" /\ Idle.entry = NoEntry /\ Idle.note = "none"
      /\ Idle.generation = 0 /\ Idle.rest = <<>> /\ ~IsReminder(NoEntry)
  BY DEF Idle, IsReminder, NoEntry
<1>2. Idle \in Local
  BY DEF Idle, Local, Places, Row
<1>3. QED BY <1>1, <1>2, HandFacts

\* What is left to note of e and of the entries behind it.
Waiting(e, note, rest) ==
  [Idle EXCEPT !.pc = "note", !.entry = e, !.note = note, !.rest = rest]

LEMMA WaitingFacts ==
  ASSUME NEW e \in Entry, NEW note \in Row, NEW rest \in Seq(Entry)
  PROVE  LET l == Waiting(e, note, rest) IN
         /\ l \in Local /\ l.pc = "note" /\ l.entry = e /\ l.note = note /\ l.rest = rest
         /\ HandOf(l) = {d \in {e} \cup Range(rest) : IsReminder(d)}
<1>1. Idle \in Local
  BY IdleFacts
<1>2. Waiting(e, note, rest) \in Local
  BY <1>1 DEF Waiting, Local, Places
<1>3. /\ Waiting(e, note, rest).pc = "note" /\ Waiting(e, note, rest).entry = e
      /\ Waiting(e, note, rest).note = note /\ Waiting(e, note, rest).rest = rest
  BY <1>1 DEF Waiting, Local
<1>4. QED BY <1>2, <1>3 DEF HandOf

LEMMA NextInLine ==
  ASSUME NEW l \in Local, LinedOf(l), l.rest # <<>>, NEW note \in Row,
         \A e \in Range(l.rest) : IsReminder(e)
  PROVE  LET k == Waiting(Head(l.rest), note, Tail(l.rest)) IN
         /\ k \in Local /\ LinedOf(k) /\ HandOf(k) \subseteq HandOf(l)
         /\ k.pc = "note" /\ k.note = note
         /\ \A e \in {k.entry} \cup Range(k.rest) : IsReminder(e)
<1> DEFINE s == l.rest
           t == Tail(s)
<1>1. s \in Seq(Entry)
  BY DEF Local
<1>2. /\ Len(s) \in Nat \ {0} /\ DOMAIN s = 1 .. Len(s) /\ Head(s) = s[1]
      /\ Range(s) = {s[i] : i \in 1 .. Len(s)} /\ \A i \in 1 .. Len(s) : s[i] \in Entry
  BY <1>1, SeqFacts
<1>3. /\ t \in Seq(Entry) /\ Len(t) = Len(s) - 1
      /\ \A i \in 1 .. Len(t) : t[i] = s[i + 1]
  BY <1>1, HeadTailProperties
<1>4. DOMAIN t = 1 .. Len(t) /\ Range(t) = {t[i] : i \in 1 .. Len(t)}
  BY <1>3, SeqFacts
<1>5. \A i, j \in 1 .. Len(s) : s[i] = s[j] => i = j
  BY <1>2 DEF LinedOf
<1>6. \A e \in Range(s) : IsReminder(e)
  OBVIOUS
<1>7. HandOf(l) = {e \in {l.entry} \cup Range(s) : IsReminder(e)}
  BY DEF HandOf
<1> HIDE DEF t, s
<1>8. \A i \in 1 .. Len(t) : i + 1 \in 1 .. Len(s) /\ i + 1 # 1
  BY <1>2, <1>3
<1>9. Range(t) \subseteq Range(s) /\ Head(s) \in Range(s) /\ Head(s) \in Entry
  BY <1>2, <1>3, <1>4, <1>8
<1>10. Head(s) \notin Range(t)
  <2>1. \A i \in 1 .. Len(t) : t[i] # s[1]
    BY <1>2, <1>3, <1>5, <1>8
  <2>2. QED BY <1>2, <1>4, <2>1
<1>11. \A i, j \in 1 .. Len(t) : t[i] = t[j] => i = j
  <2> SUFFICES ASSUME NEW i \in 1 .. Len(t), NEW j \in 1 .. Len(t), t[i] = t[j] PROVE i = j
    OBVIOUS
  <2>1. i + 1 = j + 1
    BY <1>3, <1>5, <1>8
  <2>2. QED BY <2>1
<1> DEFINE k == Waiting(Head(s), note, t)
<1>12. /\ k \in Local /\ k.pc = "note" /\ k.entry = Head(s) /\ k.note = note /\ k.rest = t
       /\ HandOf(k) = {d \in {Head(s)} \cup Range(t) : IsReminder(d)}
  BY <1>3, <1>9, WaitingFacts
<1> HIDE DEF k
<1>13. LinedOf(k)
  BY <1>4, <1>10, <1>11, <1>12 DEF LinedOf
<1>14. HandOf(k) \subseteq HandOf(l) /\ \A e \in {k.entry} \cup Range(k.rest) : IsReminder(e)
  BY <1>6, <1>7, <1>9, <1>12
<1>15. QED BY <1>12, <1>13, <1>14 DEF k, t, s
-----------------------------------------------------------------------------
(***************************************************************************)
(* A step in which only p moves, and holds or queues no reminder that it   *)
(* did not hold, or the queue did not have, before.                        *)
(***************************************************************************)
Moves(p) ==
  /\ at' \in [Procs -> Local] /\ \A q \in Procs \ {p} : at'[q] = at[q]
  /\ queue' \in Seq(Entry) /\ Len(queue') <= Room /\ Orderly(queue')
  /\ LinedOf(at'[p])
  /\ \A e \in HandOf(at'[p]) : e \in Hand(p) \/ e \in Queued
  /\ \A e \in Queued' : e \in Hand(p) \/ e \in Queued
  /\ \A e \in HandOf(at'[p]) : e \notin Queued'
  /\ p = "sender" =>
       \A e \in Gone : e \in HandOf(at'[p]) \/ e \in Queued' => e \in Gone'

LEMMA HandPrimed == \A p \in Procs : Hand(p)' = HandOf(at'[p])
BY DEF Hand, HandOf, IsReminder

LEMMA GoneKept ==
  ASSUME at'["sender"] = at["sender"]
  PROVE  Left' = Left /\ Gone' = Gone
BY DEF Left, Gone, At, Hand, HandOf, IsReminder

LEMMA Moved ==
  ASSUME Inv, NEW p \in Procs, Moves(p)
  PROVE  /\ Apart'
         /\ \A e \in Claims' : e \in Claims
         /\ \A e \in Claims' : e \in Gone => e \in Gone'
<1>1. /\ \A q \in Procs \ {p} : Hand(q)' = Hand(q)
      /\ Hand(p)' = HandOf(at'[p])
  BY HandPrimed DEF Moves, Hand
<1>2. /\ \A q \in Procs : LinedOf(at[q])
      /\ \A q \in Procs : \A e \in Hand(q) : e \notin Queued
      /\ \A q, r \in Procs : \A e \in Hand(q) : e \in Hand(r) => q = r
  BY DEF Inv, WInv, Apart
<1>3. \A q \in Procs : LinedOf(at'[q])
  BY <1>2 DEF Moves
<1>4. \A q \in Procs : \A e \in Hand(q)' : e \notin Queued'
  BY <1>1, <1>2 DEF Moves
<1>5. \A q, r \in Procs : \A e \in Hand(q)' : e \in Hand(r)' => q = r
  BY <1>1, <1>2 DEF Moves
<1>6. Apart'
  <2>1. \A q \in Procs : LinedOf(at[q])'
    BY <1>3 DEF LinedOf, IsReminder
  <2>2. QED BY <1>4, <1>5, <2>1 DEF Apart
<1>7. \A e \in Claims' : e \in Claims
  BY <1>1 DEF Claims, Moves
<1>8. ASSUME NEW e \in Claims', e \in Gone PROVE e \in Gone'
  <2>1. CASE p = "sender"
    <3>1. "sender" \in Procs /\ e \in Hand("sender")
      BY <1>8 DEF Gone, Procs
    <3>2. e \in HandOf(at'[p]) \/ e \in Queued'
      BY <1>1, <1>2, <1>8, <2>1, <3>1 DEF Claims
    <3>3. QED BY <1>8, <2>1, <3>2 DEF Moves
  <2>2. CASE p # "sender"
    <3>1. at'["sender"] = at["sender"]
      BY <2>2 DEF Moves, Procs
    <3>2. QED BY <1>8, <3>1, GoneKept
  <2>3. QED BY <2>1, <2>2
<1>9. QED BY <1>6, <1>7, <1>8

LEMMA MoveKeeps ==
  ASSUME Inv, NEW p \in Procs, Moves(p), UNCHANGED <<memory, file, pending, generations>>,
         storage_error' = storage_error \/ memory.others,
         wire'.sent = wire.sent, \A k \in wire.accepted : k \in wire'.accepted,
         p = "reminder" => ~At(p, {"write"})
  PROVE  /\ Apart' /\ Drawn' /\ Untouched' /\ TrueRows(memory)' /\ TrueRows(file)'
         /\ AtMostOnce' /\ OthersSafe'
<1>1. /\ Apart'
      /\ \A e \in Claims' : e \in Claims
      /\ \A e \in Claims' : e \in Gone => e \in Gone'
  BY Moved
<1>2. memory' = memory /\ file' = file
  OBVIOUS
<1>3. Drawn'
  BY <1>1, <1>2 DEF Inv, WInv, Drawn
<1>4. Untouched'
  <2>1. At("reminder", {"write"}) => At("reminder", {"write"})' /\ at'["reminder"] = at["reminder"]
    BY DEF Moves, At, Procs
  <2>2. \A e \in Claims : Current(e)' => Current(e)
    BY <1>2 DEF Current
  <2> SUFFICES ASSUME NEW e \in Claims', Current(e)'
               PROVE  /\ \/ memory'.rows[e.key] # "none"
                         \/ At("reminder", {"write"})' /\ e = at'["reminder"].entry
                      /\ e \notin Gone' => wire'.sent[e.key] = 0
    BY DEF Untouched, Current
  <2>3. QED BY <1>1, <1>2, <2>1, <2>2 DEF Inv, WInv, Untouched
<1>5. TrueRows(memory)' /\ TrueRows(file)'
  BY <1>2 DEF Inv, WInv, TrueRows
<1>6. AtMostOnce' /\ OthersSafe'
  BY <1>2 DEF Inv, WInv, AtMostOnce, OthersSafe
<1>7. QED BY <1>1, <1>3, <1>4, <1>5, <1>6

\* The coroutines that are not in the middle of a write.
Reading(p) == ~At(p, {"marking", "noting", "pausing", "write"})

LEMMA WritingKept ==
  ASSUME Inv, NEW p \in Procs, Moves(p), Reading(p) \/ UNCHANGED <<at, gate>>,
         UNCHANGED <<memory, write, pending>>,
         \A k \in wire.accepted : k \in wire'.accepted,
         gate' = gate \/ gate \in {"nobody", p}
  PROVE  Writing'
<1> SUFFICES ASSUME write # NoWrite PROVE Writing'
  BY DEF Writing
<1>1. PICK w \in Procs : w = write.by
  BY DEF Inv, TypeOK
<1>2. /\ memory.others
      /\ Marking(w) \/ Recording(w) \/ Renewing(w) \/ Claiming(w) \/ Setting(w) \/ Rebinding(w)
  BY <1>1 DEF Inv, WInv, Writing
<1>3. At(w, {"marking", "noting", "pausing", "write"})
  BY <1>2 DEF Marking, Recording, Renewing, Claiming, Setting, Rebinding, At
<1>4. w # p \/ UNCHANGED <<at, gate>>
  BY <1>3 DEF Reading
<1>5. at'[w] = at[w]
  BY <1>1, <1>4 DEF Moves
<1>6. gate = w => gate' = w
  BY <1>1, <1>4 DEF Procs
<1>7. /\ Marking(w) => Marking(w)'
      /\ Recording(w) => Recording(w)'
      /\ Renewing(w) => Renewing(w)'
      /\ Claiming(w) => Claiming(w)'
      /\ Setting(w) => Setting(w)'
      /\ Rebinding(w) => Rebinding(w)'
  <2>1. Marking(w) => Marking(w)'
    BY <1>5 DEF Marking, At, WithRow
  <2>2. Recording(w) => Recording(w)'
    BY <1>5 DEF Recording, At, WithRow, Current
  <2>3. Renewing(w) => Renewing(w)'
    BY <1>5 DEF Renewing, At, SameBinding
  <2>4. Claiming(w) => Claiming(w)'
    BY <1>5, <1>6 DEF Claiming, At, WithRow, Current
  <2>5. Setting(w) => Setting(w)'
    BY <1>5, <1>6 DEF Setting, At, SameBinding
  <2>6. Rebinding(w) => Rebinding(w)'
    BY <1>5 DEF Rebinding, At
  <2>7. QED BY <2>1, <2>2, <2>3, <2>4, <2>5, <2>6
<1>8. QED BY <1>1, <1>2, <1>7 DEF Writing

LEMMA SenderKept ==
  ASSUME Inv, NEW p \in Procs \ {"sender"}, Moves(p), UNCHANGED <<memory, file>>,
         gate' = gate \/ gate # "sender"
  PROVE  SenderHolds'
<1>1. at'["sender"] = at["sender"]
  BY DEF Moves, Procs
<1>2. Left' = Left
  BY <1>1, GoneKept
<1>3. /\ At("sender", {"marking"})' = At("sender", {"marking"})
      /\ At("sender", {"reply"})' = At("sender", {"reply"})
      /\ Sending' = Sending
  BY <1>1 DEF At, Sending
<1>4. Current(Sending)' = Current(Sending) /\ IsReminder(Sending)' = IsReminder(Sending)
  BY <1>3 DEF Current, IsReminder
<1>5. QED BY <1>2, <1>3, <1>4 DEF Inv, WInv, SenderHolds

LEMMA PutKept ==
  ASSUME Inv, NEW p \in Procs, \A q \in Procs \ {p} : at'[q] = at[q], Put(p)'
  PROVE  Located'
<1>1. ASSUME NEW q \in Procs, q # p PROVE Put(q)'
  <2>1. at'[q] = at[q] /\ Put(q)
    BY <1>1 DEF Inv, WInv, Located
  <2>2. Hand(q)' = Hand(q)
    BY <2>1, HandPrimed DEF Hand
  <2>3. Noticing(q)'
    BY <2>1 DEF Put, Noticing, At, IsReminder
  <2>4. QED BY <2>1, <2>2, <2>3 DEF Put, At, IsReminder
<1>2. QED BY <1>1 DEF Located
-----------------------------------------------------------------------------
(***************************************************************************)
(* What a write makes of the memory.                                       *)
(***************************************************************************)
LEMMA RowSet ==
  ASSUME NEW b \in Binding, NEW k \in Keys, NEW row \in Row
  PROVE  /\ WithRow(b, k, row) \in Binding
         /\ WithRow(b, k, row).generation = b.generation
         /\ WithRow(b, k, row).enabled = b.enabled
         /\ WithRow(b, k, row).reminders = b.reminders
         /\ WithRow(b, k, row).others = b.others
         /\ \A j \in Keys : WithRow(b, k, row).rows[j] = IF j = k THEN row ELSE b.rows[j]
<1>1. WithRow(b, k, row) \in Binding
  BY DEF WithRow, Binding
<1>2. QED BY <1>1 DEF WithRow, Binding

LEMMA SameEntry ==
  ASSUME NEW d \in Entry, NEW e \in Entry, d.key = e.key, d.generation = e.generation
  PROVE  d = e
BY DEF Entry

Safe(b) ==
  /\ b.generation = memory.generation /\ b.others
  /\ b.generation = 0 => b.rows = [k \in Keys |-> "none"]
  /\ \A k \in Keys : memory.rows[k] # "none" => b.rows[k] # "none"
  /\ TrueRows(b)
  /\ At("sender", {"marking"}) => b.enabled /\ b.reminders
  /\ At("sender", {"reply"}) /\ IsReminder(Sending) => b.rows[Sending.key] = "sending"

LEMMA SafeMemory == Inv /\ memory.others => Safe(memory)
BY DEF Inv, WInv, Drawn, SenderHolds, Safe

\* A reminder that is recorded or marked is not the one on its way.
LEMMA SafeRow ==
  ASSUME Inv, memory.others, memory.generation # 0, NEW k \in Keys, NEW row \in Row \ {"none"},
         row \in {"queued"} \cup Unsent => wire.sent[k] = 0,
         row = "accepted" => k \in wire.accepted,
         At("sender", {"reply"}) /\ IsReminder(Sending) => k # Sending.key
  PROVE  Safe(WithRow(memory, k, row)) /\ WithRow(memory, k, row) \in Binding
<1> DEFINE c == WithRow(memory, k, row)
<1>0. memory \in Binding /\ row \in Row
  BY DEF Inv, TypeOK
<1>1. /\ c \in Binding /\ c.generation = memory.generation /\ c.enabled = memory.enabled
      /\ c.reminders = memory.reminders /\ c.others = memory.others
      /\ \A j \in Keys : c.rows[j] = IF j = k THEN row ELSE memory.rows[j]
  <2>1. WithRow(memory, k, row) \in Binding
    BY <1>0, RowSet
  <2>2. WithRow(memory, k, row).generation = memory.generation
    BY <1>0, RowSet
  <2>3. WithRow(memory, k, row).enabled = memory.enabled
    BY <1>0, RowSet
  <2>4. \A j \in Keys : WithRow(memory, k, row).rows[j] = IF j = k THEN row ELSE memory.rows[j]
    BY <1>0, RowSet
  <2>5. WithRow(memory, k, row).reminders = memory.reminders
    BY <1>0, RowSet
  <2>6. WithRow(memory, k, row).others = memory.others
    BY <1>0, RowSet
  <2>7. QED BY <2>1, <2>2, <2>3, <2>4, <2>5, <2>6
<1> HIDE DEF c
<1>2. TrueRows(c)
  BY <1>1 DEF Inv, WInv, TrueRows, Unsent
<1>3. At("sender", {"reply"}) /\ IsReminder(Sending) => c.rows[Sending.key] = "sending"
  <2>1. IsReminder(Sending) /\ At("sender", {"reply"}) => Sending.key \in Keys
    BY EntryFacts DEF Inv, WInv, Located, Put, Procs, Sending, At
  <2>2. QED BY <1>1, <2>1 DEF Inv, WInv, SenderHolds
<1>4. At("sender", {"marking"}) => c.enabled /\ c.reminders
  BY <1>1 DEF Inv, WInv, SenderHolds
<1>5. QED BY <1>1, <1>2, <1>3, <1>4 DEF Safe, c

\* An entry in hand of the present binding, that is not on its way, was not sent.
LEMMA NotSent ==
  ASSUME Inv, NEW e \in Claims, Current(e), e \notin Gone
  PROVE  e.key \in Keys /\ memory.generation # 0 /\ wire.sent[e.key] = 0 /\ IsReminder(e)
<1>1. e \in Entry /\ IsReminder(e)
  <2>1. \A p \in Procs : \A d \in Hand(p) : IsReminder(d)
    BY DEF Hand, HandOf
  <2>2. QED BY <2>1 DEF Claims, Queued
<1>2. e.key \in Keys /\ e.generation # 0
  BY <1>1, EntryFacts DEF Generations
<1>3. QED BY <1>1, <1>2 DEF Inv, WInv, Untouched, Current

\* What a coroutine has in hand.
LEMMA InHand ==
  ASSUME Inv, NEW p \in Procs, IsReminder(at[p].entry)
  PROVE  /\ at[p].entry \in Hand(p) /\ at[p].entry \in Claims /\ at[p].entry \in Entry
         /\ \A q \in Procs \ {p} : at[p].entry \notin Hand(q)
         /\ p # "sender" \/ ~Left => at[p].entry \notin Gone
<1>1. at[p] \in Local
  BY DEF Inv, TypeOK
<1>2. at[p].entry \in Hand(p)
  BY DEF Hand, HandOf
<1>3. at[p].entry \in Entry
  BY <1>1, <1>2, HandFacts DEF Hand
<1>4. \A q \in Procs \ {p} : at[p].entry \notin Hand(q)
  BY <1>2 DEF Inv, WInv, Apart
<1>5. QED BY <1>2, <1>3, <1>4 DEF Claims, Gone, Procs

LEMMA WriteFacts ==
  ASSUME Inv, write # NoWrite
  PROVE  /\ write.by \in Procs /\ write.value \in Binding /\ write.otherwise \in Binding
         /\ memory.others /\ Safe(write.otherwise)
         /\ write.by # "binder" => Safe(write.value)
         /\ write.by = "binder" =>
              /\ pending # 0 /\ write.value.generation = pending /\ write.value.others
              /\ write.value.rows = [k \in Keys |-> "none"]
<1>1. PICK w \in Procs : w = write.by
  BY DEF Inv, TypeOK
<1>2. write.value \in Binding /\ write.otherwise \in Binding /\ memory \in Binding
  BY DEF Inv, TypeOK
<1>3. /\ memory.others
      /\ Marking(w) \/ Recording(w) \/ Renewing(w) \/ Claiming(w) \/ Setting(w) \/ Rebinding(w)
  BY <1>1 DEF Inv, WInv, Writing
<1>4. Safe(memory)
  BY <1>3, SafeMemory
<1>5. w = "binder" <=> Rebinding(w)
  <2>1. w = "binder" => ~At(w, {"marking", "noting", "pausing"})
    BY DEF Inv, WInv, Located, Put, At
  <2>2. QED BY <1>3, <2>1 DEF Marking, Recording, Renewing, Claiming, Setting, Rebinding, At
<1>6. CASE Marking(w)
  <2> DEFINE k == at[w].entry.key
  <2>1. w = "sender" /\ At("sender", {"marking"})
    BY <1>6 DEF Marking
  <2>2. IsReminder(at[w].entry) /\ ~Left /\ Current(at[w].entry)
    <3>1. IsReminder(at[w].entry)
      BY <2>1 DEF Inv, WInv, Located, Put, Procs
    <3>2. ~Left
      BY <2>1 DEF Left, At
    <3>3. Current(Sending)
      BY <2>1 DEF Inv, WInv, SenderHolds
    <3>4. QED BY <2>1, <3>1, <3>2, <3>3 DEF Sending
  <2>3. k \in Keys /\ memory.generation # 0 /\ wire.sent[k] = 0
    BY <2>2, InHand, NotSent
  <2>4. ~At("sender", {"reply"})
    BY <2>1 DEF At
  <2>5. "sending" \in Row \ {"none"} /\ "sending" \notin {"queued"} \cup Unsent
    BY DEF Row, Unsent
  <2>6. "storage_blocked" \in Row \ {"none"}
    BY DEF Row, Unsent
  <2>7. Safe(WithRow(memory, k, "sending"))
    BY <1>3, <2>3, <2>4, <2>5, SafeRow
  <2>8. Safe(WithRow(memory, k, "storage_blocked"))
    BY <1>3, <2>3, <2>4, <2>6, SafeRow
  <2>9. QED BY <1>1, <1>2, <1>3, <1>6, <2>1, <2>7, <2>8 DEF Marking
<1>7. CASE Recording(w)
  <2> DEFINE e == at[w].entry
             k == e.key
             n == at[w].note
  <2>1. /\ At(w, {"noting"}) /\ Current(e)
        /\ n = "accepted" => k \in wire.accepted
        /\ write.value = WithRow(memory, k, n) /\ write.otherwise = write.value
    BY <1>7 DEF Recording
  <2>2. IsReminder(e) /\ (n \in Unsent \/ (w = "sender" /\ n \in Answers))
    BY <2>1 DEF Inv, WInv, Located, Put, Noticing, At
  <2>3. e \in Claims /\ e \in Entry /\ e \in Hand(w) /\ \A q \in Procs \ {w} : e \notin Hand(q)
    BY <2>2, InHand
  <2>4. n \in Unsent => e \notin Gone
    <3>1. ASSUME n \in Unsent, w = "sender" PROVE ~Left
      <4>1. n \notin Answers
        BY <3>1, WechatAssumption DEF Unsent
      <4>2. QED BY <2>1, <3>1, <4>1 DEF Left, At
    <3>2. QED BY <2>2, <3>1, InHand
  <2>5. k \in Keys /\ memory.generation # 0
    BY <2>1, <2>2, <2>3, EntryFacts DEF Current, Generations
  <2>6. n \in Unsent => wire.sent[k] = 0
    BY <2>1, <2>3, <2>4, NotSent
  <2>7. n \in Row \ {"none"} /\ n # "queued"
    BY <2>2, WechatAssumption DEF Row, Unsent
  <2>8. At("sender", {"reply"}) /\ IsReminder(Sending) => k # Sending.key
    <3> SUFFICES ASSUME At("sender", {"reply"}), IsReminder(Sending), k = Sending.key PROVE FALSE
      OBVIOUS
    <3>1. w # "sender"
      BY <2>1 DEF At
    <3>2. Current(Sending) /\ Sending \in Hand("sender") /\ Sending \in Entry
      <4>1. "sender" \in Procs /\ Left
        BY DEF Left, At, Procs
      <4>2. QED BY <4>1, InHand DEF Sending, Inv, WInv, SenderHolds
    <3>3. Sending = e
      BY <2>1, <2>3, <3>2, SameEntry DEF Current
    <3>4. QED BY <2>3, <3>1, <3>2, <3>3 DEF Procs
  <2>9. Safe(WithRow(memory, k, n))
    <3> HIDE DEF k, n, e
    <3>1. QED BY <1>3, <2>1, <2>5, <2>6, <2>7, <2>8, SafeRow
  <2>10. w # "binder"
    BY <2>1 DEF Inv, WInv, Located, Put, At
  <2>11. QED BY <1>1, <1>2, <1>3, <2>1, <2>9, <2>10
<1>8. CASE Renewing(w)
  <2>1. /\ SameBinding(write.value, memory) /\ write.otherwise = memory
        /\ write.value.enabled = memory.enabled /\ write.value.reminders = memory.reminders
    BY <1>8 DEF Renewing
  <2>2. Safe(write.value)
    BY <1>3, <1>4, <2>1 DEF Safe, SameBinding, TrueRows
  <2>3. w # "binder"
    BY <1>8 DEF Renewing
  <2>4. QED BY <1>1, <1>2, <1>3, <1>4, <2>1, <2>2, <2>3
<1>9. CASE Claiming(w)
  <2> DEFINE e == at[w].entry
             k == e.key
  <2>1. /\ w = "reminder" /\ At("reminder", {"write"}) /\ gate = "reminder" /\ Current(e)
        /\ write.value = WithRow(memory, k, "queued") /\ write.otherwise = memory
        /\ memory.rows[k] = "none"
    BY <1>9 DEF Claiming
  <2>2. e \in Entry /\ IsReminder(e)
    BY <2>1 DEF Inv, WInv, Located, Put
  <2>3. k \in Keys /\ memory.generation # 0
    BY <2>1, <2>2, EntryFacts DEF Current, Generations
  <2>4. wire.sent[k] = 0
    BY <2>1, <2>3 DEF Inv, WInv, TrueRows
  <2>5. ~At("sender", {"reply"})
    BY <2>1 DEF Inv, WInv, SenderHolds, Left, At
  <2>6. "queued" \in Row \ {"none"}
    BY DEF Row
  <2>7. Safe(WithRow(memory, k, "queued"))
    BY <1>3, <2>3, <2>4, <2>5, <2>6, SafeRow
  <2>8. QED BY <1>1, <1>2, <1>3, <1>4, <2>1, <2>7
<1>10. CASE Setting(w)
  <2>1. /\ w = "request" /\ gate = "request"
        /\ SameBinding(write.value, memory) /\ SameBinding(write.otherwise, memory)
    BY <1>10 DEF Setting
  <2>2. ~At("sender", {"marking"}) /\ ~At("sender", {"reply"})
    BY <2>1 DEF Inv, WInv, SenderHolds, Left, At
  <2>3. Safe(write.value) /\ Safe(write.otherwise)
    BY <1>3, <1>4, <2>1, <2>2 DEF Safe, SameBinding, TrueRows
  <2>4. QED BY <1>1, <1>2, <1>3, <2>1, <2>3
<1>11. CASE Rebinding(w)
  BY <1>1, <1>2, <1>3, <1>4, <1>5, <1>11 DEF Rebinding
<1>12. QED BY <1>3, <1>6, <1>7, <1>8, <1>9, <1>10, <1>11
-----------------------------------------------------------------------------
(***************************************************************************)
(* A write ends, that of the binder excepted.                              *)
(***************************************************************************)
LEMMA WrittenStore ==
  ASSUME Inv, NEW p \in Procs \ {"binder"}, NEW ok \in BOOLEAN, Written(p, ok)
  PROVE  /\ memory' \in Binding /\ file' \in Binding /\ storage_error' \in BOOLEAN
         /\ write' = NoWrite /\ faults' \in 0 .. Faults
         /\ Safe(memory') /\ memory.others
         /\ ok => memory' = write.value /\ file' = memory' /\ storage_error' = FALSE
         /\ ~ok => memory' = write.otherwise /\ file' = file
<1>1. write # NoWrite /\ write.by = p /\ write' = NoWrite
  BY DEF Written
<1>2. /\ write.value \in Binding /\ write.otherwise \in Binding /\ memory.others
      /\ Safe(write.value) /\ Safe(write.otherwise)
  BY <1>1, WriteFacts
<1>3. /\ storage_error' = ~ok
      /\ memory' = IF ok THEN write.value ELSE write.otherwise
      /\ file' = IF ok THEN write.value ELSE file
  BY DEF Written
<1>4. faults' \in 0 .. Faults
  <2>1. faults \in 0 .. Faults /\ Faults \in Nat
    BY WechatAssumption DEF Inv, TypeOK
  <2>2. (ok \/ faults < Faults) /\ faults' = IF ok THEN faults ELSE faults + 1
    BY DEF Written
  <2>3. QED BY <2>1, <2>2
<1>5. file \in Binding
  BY DEF Inv, TypeOK
<1>6. QED BY <1>1, <1>2, <1>3, <1>4, <1>5

LEMMA WrittenKeeps ==
  ASSUME Inv, NEW p \in Procs \ {"binder"}, NEW ok \in BOOLEAN, Written(p, ok), Moves(p),
         UNCHANGED <<pending, generations>>,
         p = "reminder" /\ At(p, {"write"}) =>
           /\ ok => memory'.rows[at[p].entry.key] # "none"
           /\ ~ok => HandOf(at'[p]) = {} /\ queue' = queue
  PROVE  /\ Apart' /\ Drawn' /\ OthersSafe' /\ Writing'
         /\ \A e \in Claims' : Current(e)' =>
              /\ e \in Claims /\ Current(e) /\ e.key \in Keys
              /\ e \in Gone => e \in Gone'
              /\ \/ memory'.rows[e.key] # "none"
                 \/ At("reminder", {"write"})' /\ e = at'["reminder"].entry
<1>1. /\ Apart'
      /\ \A e \in Claims' : e \in Claims
      /\ \A e \in Claims' : e \in Gone => e \in Gone'
  BY Moved
<1>2. /\ Safe(memory') /\ memory.others /\ write' = NoWrite
      /\ file' = memory' \/ file' = file
      /\ ok => file' = memory' /\ storage_error' = FALSE
  BY WrittenStore
<1>3. /\ memory'.generation = memory.generation /\ memory'.others
      /\ memory'.generation = 0 => memory'.rows = [k \in Keys |-> "none"]
      /\ \A k \in Keys : memory.rows[k] # "none" => memory'.rows[k] # "none"
  BY <1>2 DEF Safe
<1>4. Writing'
  BY <1>2 DEF Writing, NoWrite
<1>5. Drawn'
  <2>1. /\ memory'.generation \in {0, file'.generation} /\ file'.generation <= generations
        /\ pending # 0 => file'.generation < pending
        /\ file'.generation = 0 => file'.rows = [k \in Keys |-> "none"]
    <3>1. CASE file' = file
      BY <1>3, <3>1 DEF Inv, WInv, Drawn
    <3>2. CASE file' = memory'
      <4>1. memory.generation = 0 \/ memory.generation = file.generation
        BY DEF Inv, WInv, Drawn
      <4>2. file.generation <= generations /\ 0 <= generations
        BY DEF Inv, WInv, Drawn, TypeOK
      <4>3. pending # 0 => memory.generation = 0 /\ 0 < pending
        BY DEF Inv, WInv, Drawn, TypeOK, Generations
      <4>4. QED BY <1>3, <3>2, <4>1, <4>2, <4>3
    <3>3. QED BY <1>2, <3>1, <3>2
  <2>2. QED BY <1>1, <1>3, <2>1 DEF Inv, WInv, Drawn
<1>7. OthersSafe'
  BY <1>2, <1>3 DEF OthersSafe, Inv, WInv
<1>9. ASSUME NEW e \in Claims', Current(e)'
      PROVE  /\ e \in Claims /\ Current(e) /\ e.key \in Keys
             /\ \/ memory'.rows[e.key] # "none"
                \/ At("reminder", {"write"})' /\ e = at'["reminder"].entry
  <2>1. e \in Claims /\ Current(e) /\ e.key \in Keys
    <3>1. e \in Claims /\ Current(e)
      BY <1>1, <1>3, <1>9 DEF Current
    <3>2. e \in Entry /\ IsReminder(e)
      BY <3>1 DEF Claims, Queued, Hand, HandOf
    <3>3. QED BY <3>1, <3>2, EntryFacts
  <2>3. CASE memory.rows[e.key] # "none"
    BY <1>3, <2>1, <2>3
  <2>4. CASE At("reminder", {"write"}) /\ e = at["reminder"].entry
    <3>1. CASE p = "reminder"
      <4>1. ok
        <5> SUFFICES ASSUME ~ok PROVE FALSE
          OBVIOUS
        <5>1. HandOf(at'[p]) = {} /\ queue' = queue
          BY <2>4, <3>1
        <5>2. e \in Hand("reminder") /\ \A q \in Procs \ {"reminder"} : e \notin Hand(q)
          <6>1. "reminder" \in Procs /\ IsReminder(at["reminder"].entry)
            BY <2>4 DEF Inv, WInv, Located, Put, Procs
          <6>2. QED BY <2>4, <6>1, InHand
        <5>3. e \notin Queued
          BY <5>2 DEF Inv, WInv, Apart, Procs
        <5>4. \A q \in Procs \ {p} : Hand(q)' = Hand(q)
          BY HandPrimed DEF Moves, Hand
        <5>5. Queued' = Queued
          BY <5>1 DEF Queued, IsReminder
        <5>6. e \notin Hand(p)'
          BY <5>1, HandPrimed
        <5>7. QED BY <1>9, <3>1, <5>2, <5>3, <5>4, <5>5, <5>6 DEF Claims
      <4>2. QED BY <2>1, <2>4, <3>1, <4>1
    <3>2. CASE p # "reminder"
      <4>1. at'["reminder"] = at["reminder"]
        BY <3>2 DEF Moves, Procs
      <4>2. QED BY <2>1, <2>4, <4>1 DEF At
    <3>3. QED BY <3>1, <3>2
  <2>5. QED BY <2>1, <2>3, <2>4 DEF Inv, WInv, Untouched
<1>10. QED BY <1>1, <1>4, <1>5, <1>7, <1>9

\* When nothing was sent or answered.
LEMMA WrittenRows ==
  ASSUME Inv, NEW p \in Procs \ {"binder"}, NEW ok \in BOOLEAN, Written(p, ok), Moves(p),
         UNCHANGED <<pending, generations, wire>>,
         p = "reminder" /\ At(p, {"write"}) =>
           /\ ok => memory'.rows[at[p].entry.key] # "none"
           /\ ~ok => HandOf(at'[p]) = {} /\ queue' = queue
  PROVE  TrueRows(memory)' /\ TrueRows(file)' /\ AtMostOnce' /\ Untouched'
<1>1. Safe(memory') /\ (file' = memory' \/ file' = file)
  BY WrittenStore
<1>2. TrueRows(memory)'
  BY <1>1 DEF Safe, TrueRows
<1>3. TrueRows(file)'
  BY <1>1 DEF Safe, TrueRows, Inv, WInv
<1>4. AtMostOnce'
  BY DEF AtMostOnce, Inv, WInv
<1>5. Untouched'
  <2>1. \A e \in Claims' : Current(e)' =>
              /\ e \in Claims /\ Current(e) /\ e.key \in Keys
              /\ e \in Gone => e \in Gone'
              /\ \/ memory'.rows[e.key] # "none"
                 \/ At("reminder", {"write"})' /\ e = at'["reminder"].entry
    BY WrittenKeeps
  <2> SUFFICES ASSUME NEW e \in Claims', Current(e)'
               PROVE  /\ \/ memory'.rows[e.key] # "none"
                         \/ At("reminder", {"write"})' /\ e = at'["reminder"].entry
                      /\ e \notin Gone' => wire'.sent[e.key] = 0
    BY DEF Untouched, Current
  <2>2. e \notin Gone' => wire'.sent[e.key] = 0
    BY <2>1 DEF Inv, WInv, Untouched
  <2>3. QED BY <2>1, <2>2
<1>6. QED BY <1>2, <1>3, <1>4, <1>5

LEMMA WrittenHolds ==
  ASSUME Inv, NEW p \in Procs \ {"binder", "sender"}, NEW ok \in BOOLEAN, Written(p, ok),
         Moves(p), gate' = gate \/ gate # "sender"
  PROVE  SenderHolds'
<1>1. at'["sender"] = at["sender"]
  BY DEF Moves, Procs
<1>2. Left' = Left
  BY <1>1, GoneKept
<1>3. /\ At("sender", {"marking"})' = At("sender", {"marking"})
      /\ At("sender", {"reply"})' = At("sender", {"reply"})
      /\ Sending' = Sending
  BY <1>1 DEF At, Sending
<1>4. Safe(memory') /\ (file' = memory' \/ file' = file)
  BY WrittenStore
<1>5. Current(Sending)' = Current(Sending) /\ IsReminder(Sending)' = IsReminder(Sending)
  BY <1>3, <1>4 DEF Current, IsReminder, Safe
<1>6. At("sender", {"marking"}) => memory'.enabled /\ memory'.reminders
  BY <1>4 DEF Safe
<1>7. At("sender", {"reply"}) /\ IsReminder(Sending) =>
        memory'.rows[Sending.key] = "sending" /\ file'.rows[Sending.key] = "sending"
  BY <1>4 DEF Safe, Inv, WInv, SenderHolds
<1>8. At("sender", {"marking"}) \/ Left => gate' = "sender" /\ Current(Sending)
  BY DEF Inv, WInv, SenderHolds
<1>9. QED BY <1>2, <1>3, <1>5, <1>6, <1>7, <1>8 DEF SenderHolds
-----------------------------------------------------------------------------
(***************************************************************************)
(* How a coroutine moves.                                                  *)
(***************************************************************************)
Turned(p) == at' \in [Procs -> Local] /\ \A q \in Procs \ {p} : at'[q] = at[q]

LEMMA Going ==
  ASSUME Inv, NEW p \in Procs, NEW pc \in Places, Goto(p, pc)
  PROVE  /\ Turned(p) /\ at'[p].pc = pc /\ at'[p].entry = at[p].entry
         /\ at'[p].note = at[p].note /\ at'[p].generation = at[p].generation
         /\ at'[p].rest = at[p].rest /\ HandOf(at'[p]) = Hand(p) /\ LinedOf(at'[p])
<1>1. at \in [Procs -> Local] /\ LinedOf(at[p])
  BY DEF Inv, TypeOK, WInv, Apart
<1>2. at' = [at EXCEPT ![p].pc = pc]
  BY DEF Goto
<1>3. /\ at'[p].pc = pc /\ at'[p].entry = at[p].entry
      /\ at'[p].note = at[p].note /\ at'[p].generation = at[p].generation
      /\ at'[p].rest = at[p].rest
  BY <1>1, <1>2 DEF Local
<1>4. Turned(p)
  BY <1>1, <1>2 DEF Local, Turned
<1>5. HandOf(at'[p]) = Hand(p) /\ LinedOf(at'[p])
  BY <1>1, <1>3 DEF HandOf, Hand, LinedOf
<1>6. QED BY <1>3, <1>4, <1>5

LEMMA Returning ==
  ASSUME Inv, NEW p \in Procs, Return(p)
  PROVE  Turned(p) /\ at'[p] = Idle /\ HandOf(at'[p]) = {} /\ LinedOf(at'[p])
<1>1. at \in [Procs -> Local] /\ Idle \in Local
  BY IdleFacts DEF Inv, TypeOK
<1>2. Turned(p) /\ at'[p] = Idle
  BY <1>1 DEF Return, Turned
<1>3. QED BY <1>2, IdleFacts

LEMMA Putting ==
  ASSUME Inv, NEW p \in Procs, NEW l \in Local, at' = [at EXCEPT ![p] = l]
  PROVE  Turned(p) /\ at'[p] = l
BY DEF Inv, TypeOK, Turned

\* The queue as it is, and no reminder in hand that was not.
LEMMA MovesOnly ==
  ASSUME Inv, NEW p \in Procs, Turned(p), queue' = queue, LinedOf(at'[p]),
         \A e \in HandOf(at'[p]) : e \in Hand(p),
         p = "sender" /\ Left => Left' \/ HandOf(at'[p]) = {}
  PROVE  Moves(p)
<1>1. Queued' = Queued
  BY DEF Queued, IsReminder
<1>2. \A e \in Hand(p) : e \notin Queued
  BY DEF Inv, WInv, Apart
<1>3. queue' \in Seq(Entry) /\ Len(queue') <= Room /\ Orderly(queue')
  BY DEF Inv, TypeOK, WInv
<1>4. ASSUME p = "sender", NEW e \in Gone, e \in HandOf(at'[p]) \/ e \in Queued'
      PROVE  e \in Gone'
  <2>1. Left /\ e \in Hand(p)
    BY <1>4 DEF Gone
  <2>2. e \in HandOf(at'[p]) /\ Left'
    BY <1>1, <1>2, <1>4, <2>1
  <2>3. QED BY <1>4, <2>2, HandPrimed DEF Gone
<1>5. QED BY <1>1, <1>2, <1>3, <1>4 DEF Moves, Turned

GateKept(p) == gate' = gate \/ (gate \in {"nobody", p} /\ gate' \in {"nobody", p})

LEMMA GateTyped ==
  ASSUME Inv, NEW p \in Procs, GateKept(p)
  PROVE  /\ gate' \in Procs \cup {"nobody"}
         /\ gate' = gate \/ gate \in {"nobody", p}
         /\ p # "sender" => gate' = gate \/ gate # "sender"
BY DEF Inv, TypeOK, GateKept, Procs

LEMMA LettingGo ==
  ASSUME NEW p \in Procs, LetGo(p)
  PROVE  GateKept(p)
BY DEF LetGo, GateKept

(***************************************************************************)
(* A step that ends no write: it begins one, or leaves it as it is.        *)
(***************************************************************************)
LEMMA Begins ==
  ASSUME Inv, NEW p \in Procs, Moves(p), Put(p)', Reading(p), GateKept(p),
         UNCHANGED <<Store, pending, generations, faults>>,
         exists' \in BOOLEAN, begun' \subseteq Keys,
         wire' \in [sent : [Keys -> Nat], accepted : SUBSET Keys],
         wire'.sent = wire.sent, \A k \in wire.accepted : k \in wire'.accepted,
         write' \in [by : Procs, value : Binding, otherwise : Binding], Writing',
         p = "sender" => SenderHolds'
  PROVE  Inv'
<1>1. memory' = memory /\ file' = file /\ storage_error' = storage_error
  BY DEF Store
<1>2. /\ Apart' /\ Drawn' /\ Untouched' /\ TrueRows(memory)' /\ TrueRows(file)'
      /\ AtMostOnce' /\ OthersSafe'
  <2>1. p = "reminder" => ~At(p, {"write"})
    BY DEF Reading, At
  <2>2. QED BY <1>1, <2>1, MoveKeeps
<1>3. SenderHolds'
  BY <1>1, SenderKept, GateTyped
<1>4. Located'
  BY PutKept DEF Moves
<1>5. Orderly(queue)'
  BY DEF Moves, Orderly, IsReminder
<1>6. TypeOK'
  BY <1>1, GateTyped DEF Inv, TypeOK, Moves
<1>7. QED BY <1>2, <1>3, <1>4, <1>5, <1>6 DEF Inv, WInv

LEMMA Turns ==
  ASSUME Inv, NEW p \in Procs, Moves(p), Put(p)', GateKept(p),
         Reading(p) \/ (p # "reminder" /\ UNCHANGED <<at, gate>>),
         UNCHANGED <<Store, write, wire, pending, generations, faults>>,
         exists' \in BOOLEAN, begun' \subseteq Keys,
         p = "sender" => SenderHolds'
  PROVE  Inv'
<1>1. memory' = memory /\ file' = file /\ storage_error' = storage_error
  BY DEF Store
<1>2. /\ Apart' /\ Drawn' /\ Untouched' /\ TrueRows(memory)' /\ TrueRows(file)'
      /\ AtMostOnce' /\ OthersSafe'
  <2>1. p = "reminder" => ~At(p, {"write"})
    BY DEF Reading, At
  <2>2. QED BY <1>1, <2>1, MoveKeeps
<1>3. SenderHolds'
  BY <1>1, SenderKept, GateTyped
<1>4. Located'
  BY PutKept DEF Moves
<1>5. Orderly(queue)'
  BY DEF Moves, Orderly, IsReminder
<1>6. TypeOK'
  BY <1>1, GateTyped DEF Inv, TypeOK, Moves
<1>7. Writing'
  BY <1>1, GateTyped, WritingKept
<1>8. QED BY <1>2, <1>3, <1>4, <1>5, <1>6, <1>7 DEF Inv, WInv

LEMMA Saving ==
  ASSUME NEW p \in Procs, NEW v \in Binding, NEW o \in Binding, Save(p, v, o)
  PROVE  /\ write' \in [by : Procs, value : Binding, otherwise : Binding]
         /\ write'.by = p /\ write'.value = v /\ write'.otherwise = o
BY DEF Save

(***************************************************************************)
(* A step that ends a write.                                               *)
(***************************************************************************)
LEMMA Ends ==
  ASSUME Inv, NEW p \in Procs \ {"binder"}, NEW ok \in BOOLEAN, Written(p, ok), Moves(p),
         Put(p)', GateKept(p),
         UNCHANGED <<pending, generations, exists, begun, wire>>,
         p = "reminder" /\ At(p, {"write"}) =>
           /\ ok => memory'.rows[at[p].entry.key] # "none"
           /\ ~ok => HandOf(at'[p]) = {} /\ queue' = queue,
         p = "sender" => SenderHolds'
  PROVE  Inv'
<1>1. /\ Apart' /\ Drawn' /\ Untouched' /\ TrueRows(memory)' /\ TrueRows(file)'
      /\ AtMostOnce' /\ OthersSafe' /\ Writing'
  BY WrittenKeeps, WrittenRows
<1>2. /\ memory' \in Binding /\ file' \in Binding /\ storage_error' \in BOOLEAN
      /\ write' = NoWrite /\ faults' \in 0 .. Faults
  BY WrittenStore
<1>3. SenderHolds'
  BY GateTyped, WrittenHolds
<1>4. Located'
  BY PutKept DEF Moves
<1>5. Orderly(queue)'
  BY DEF Moves, Orderly, IsReminder
<1>6. TypeOK'
  BY <1>2, GateTyped DEF Inv, TypeOK, Moves
<1>7. QED BY <1>1, <1>3, <1>4, <1>5, <1>6 DEF Inv, WInv

\* What was dropped or answered is noted, if it was a reminder.
LEMMA Telling ==
  ASSUME Inv, NEW p \in Procs, NEW e \in Entry \cup {NoEntry}, NEW note \in Unsent,
         Told(p, e, note)
  PROVE  /\ Turned(p) /\ LinedOf(at'[p])
         /\ \A d \in HandOf(at'[p]) : d = e /\ IsReminder(e)
         /\ IsReminder(e) => at'[p].entry = e /\ at'[p].note = note /\ at'[p].pc = "note"
         /\ p \in {"sender", "reminder", "drain"} => Put(p)'
         /\ p = "sender" => ~Left' /\ ~At("sender", {"marking", "reply"})'
<1>1. CASE IsReminder(e)
  <2>1. e \in Entry
    BY <1>1, IdleFacts
  <2>2. PICK none \in Seq(Entry) : none = <<>>
    <3>1. <<>> \in Seq(Entry)
      OBVIOUS
    <3> DEFINE n == <<>>
    <3>2. n \in Seq(Entry) /\ n = <<>>
      BY <3>1
    <3> HIDE DEF n
    <3>3. QED BY <3>2
  <2>3. at' = [at EXCEPT ![p] = Waiting(e, note, none)] /\ note \in Row
    BY <1>1, <2>2 DEF Told, Noting, Waiting, Row
  <2>4. /\ Waiting(e, note, none) \in Local /\ Waiting(e, note, none).pc = "note"
        /\ Waiting(e, note, none).entry = e /\ Waiting(e, note, none).note = note
        /\ Waiting(e, note, none).rest = none
    BY <2>1, <2>3, WaitingFacts
  <2>5. Turned(p) /\ at'[p] = Waiting(e, note, none)
    BY <2>3, <2>4, Putting
  <2>6. LinedOf(at'[p]) /\ \A d : d \in HandOf(at'[p]) <=> d = e
    BY <1>1, <2>2, <2>4, <2>5, HandFacts
  <2>7. Range(at'[p].rest) = {}
    <3>1. Len(none) = 0
      BY <2>2
    <3>2. Range(none) = {none[i] : i \in 1 .. Len(none)}
      BY SeqFacts
    <3>3. 1 .. Len(none) = {}
      BY <3>1
    <3>4. Range(none) = {}
      BY <3>2, <3>3
    <3>5. QED BY <2>4, <2>5, <3>4
  <2>8. Noticing(p)'
    BY <1>1, <2>4, <2>5, <2>7 DEF Noticing, At, IsReminder
  <2>9. p \in {"sender", "reminder", "drain"} => Put(p)'
    BY <2>2, <2>4, <2>5, <2>8 DEF Put, At
  <2>10. p = "sender" => ~Left' /\ ~At("sender", {"marking", "reply"})'
    BY <2>4, <2>5 DEF Left, At
  <2>11. QED BY <1>1, <2>4, <2>5, <2>6, <2>9, <2>10
<1>2. CASE ~IsReminder(e)
  <2>1. Return(p)
    BY <1>2 DEF Told
  <2>2. Turned(p) /\ at'[p] = Idle /\ HandOf(at'[p]) = {} /\ LinedOf(at'[p])
    BY <2>1, Returning
  <2>3. Idle.pc = "idle" /\ Idle.rest = <<>>
    BY IdleFacts
  <2>4. p \in {"sender", "reminder", "drain"} => Put(p)'
    BY <2>2, <2>3 DEF Put, Noticing, At
  <2>5. p = "sender" => ~Left' /\ ~At("sender", {"marking", "reply"})'
    BY <2>2, <2>3 DEF Left, At
  <2>6. QED BY <1>2, <2>2, <2>4, <2>5
<1>3. QED BY <1>1, <1>2

\* Back to where a coroutine begins.
LEMMA PutIdle ==
  ASSUME Inv, NEW p \in Procs, at'[p] = Idle
  PROVE  /\ Put(p)'
         /\ p = "sender" => ~Left' /\ ~At("sender", {"marking", "reply"})'
<1>1. /\ Idle.pc = "idle" /\ Idle.rest = <<>> /\ HandOf(Idle) = {}
  BY IdleFacts
<1>2. Hand(p)' = {}
  BY <1>1, HandPrimed
<1>3. QED BY <1>1, <1>2 DEF Put, Noticing, At, Left

\* After a note: the next entry, the pause, or nothing any more.
LEMMA Noteds ==
  ASSUME Inv, NEW p \in Procs, At(p, {"note", "noting"}), Noted(p)
  PROVE  /\ Turned(p) /\ LinedOf(at'[p]) /\ Put(p)'
         /\ \A e \in HandOf(at'[p]) : e \in Hand(p)
         /\ p = "sender" =>
              \/ ~Left' /\ HandOf(at'[p]) = {} /\ ~At("sender", {"marking", "reply"})'
              \/ /\ Left /\ Left' /\ at'[p].entry = at[p].entry
                 /\ at'[p].pc = "pause" /\ at[p].note = "session_expired"
<1>0. /\ at[p] \in Local /\ LinedOf(at[p]) /\ Put(p) /\ Noticing(p)
  BY DEF Inv, TypeOK, WInv, Apart, Located, Put
<1>1. /\ \A e \in {at[p].entry} \cup Range(at[p].rest) : IsReminder(e)
      /\ at[p].note \in Unsent
           \/ (p = "sender" /\ At(p, {"noting"}) /\ at[p].note \in Answers)
  BY <1>0 DEF Noticing
<1>2. at[p].note \in Row
  BY <1>0 DEF Local
<1>3. CASE at[p].rest # <<>>
  <2> DEFINE k == Waiting(Head(at[p].rest), at[p].note, Tail(at[p].rest))
  <2>1. p = "request"
    BY <1>0, <1>3 DEF Put
  <2>2. at' = [at EXCEPT ![p] = k]
    BY <1>3 DEF Noted, Noting, Waiting
  <2>3. /\ k \in Local /\ LinedOf(k) /\ HandOf(k) \subseteq HandOf(at[p])
        /\ k.pc = "note" /\ k.note = at[p].note
        /\ \A e \in {k.entry} \cup Range(k.rest) : IsReminder(e)
    BY <1>0, <1>1, <1>2, <1>3, NextInLine
  <2> HIDE DEF k
  <2>4. Turned(p) /\ at'[p] = k
    BY <2>2, <2>3, Putting
  <2>5. Noticing(p)'
    BY <1>1, <2>1, <2>3, <2>4 DEF Noticing, At, IsReminder
  <2>6. Put(p)'
    BY <2>1, <2>3, <2>4, <2>5 DEF Put, At
  <2>7. QED BY <2>1, <2>3, <2>4, <2>6 DEF Hand
<1>4. CASE at[p].rest = <<>> /\ at[p].note = "session_expired"
  <2>1. Goto(p, "pause") /\ "pause" \in Places
    BY <1>4 DEF Noted, Places
  <2>2. p = "sender" /\ At(p, {"noting"}) /\ at[p].note \in Answers
    BY <1>1, <1>4 DEF Unsent
  <2>3. /\ Turned(p) /\ at'[p].pc = "pause" /\ at'[p].entry = at[p].entry
        /\ at'[p].rest = at[p].rest /\ HandOf(at'[p]) = Hand(p) /\ LinedOf(at'[p])
    BY <2>1, Going
  <2>4. at[p].entry \in Entry
    BY <1>1, InHand
  <2>5. Left /\ Left'
    BY <2>2, <2>3 DEF Left, At
  <2>6. Put(p)'
    BY <1>4, <2>2, <2>3, <2>4 DEF Put, Noticing, At
  <2>7. QED BY <1>4, <2>3, <2>5, <2>6
<1>5. CASE at[p].rest = <<>> /\ at[p].note # "session_expired"
  <2>1. Return(p)
    BY <1>5 DEF Noted
  <2>2. QED BY <2>1, Returning, PutIdle
<1>6. QED BY <1>3, <1>4, <1>5
-----------------------------------------------------------------------------
(***************************************************************************)
(* The steps of the sender.                                                *)
(***************************************************************************)
LEMMA SenderPut ==
  ASSUME Inv
  PROVE  /\ "sender" \in Procs /\ at["sender"] \in Local /\ at["sender"].rest = <<>>
         /\ At("sender", {"idle"}) => at["sender"] = Idle
         /\ At("sender", {"gate", "marking", "reply", "pause", "pausing"}) => Sending \in Entry
         /\ At("sender", {"marking"}) => IsReminder(Sending)
BY DEF Inv, TypeOK, WInv, Located, Put, Procs, Sending

LEMMA SenderAway ==
  ASSUME ~Left', ~At("sender", {"marking", "reply"})'
  PROVE  SenderHolds'
<1>1. ~At("sender", {"marking"})' /\ ~At("sender", {"reply"})'
  BY DEF At
<1>2. QED BY <1>1 DEF SenderHolds

LEMMA TakeStep == ASSUME Inv, SenderTake PROVE Inv'
<1> DEFINE e == Head(queue)
           t == Tail(queue)
<1>1. /\ SenderAt("idle") /\ queue # <<>> /\ queue' = t
      /\ UNCHANGED <<Store, write, gate, pending, generations, exists, begun, faults, wire>>
      /\ \/ at' = [at EXCEPT !["sender"].pc = "gate", !["sender"].entry = e]
         \/ Told("sender", e, "expired")
  BY DEF SenderTake, World, Outside
<1>2. queue \in Seq(Entry) /\ Orderly(queue) /\ Len(queue) <= Room /\ Len(queue) \in Nat
  BY SeqFacts DEF Inv, TypeOK, WInv
<1>3. /\ e \in Entry /\ e \in Range(queue)
      /\ t \in Seq(Entry) /\ Len(t) = Len(queue) - 1 /\ Orderly(t)
      /\ Range(t) \subseteq Range(queue)
      /\ IsReminder(e) => e \notin Range(t)
  BY <1>1, <1>2, WithoutHead
<1> HIDE DEF e, t
<1>4. At("sender", {"idle"}) /\ at["sender"] = Idle /\ "sender" \in Procs /\ at["sender"] \in Local
  BY <1>1, SenderPut DEF SenderAt, At
<1>5. /\ Turned("sender") /\ LinedOf(at'["sender"]) /\ Put("sender")'
      /\ \A d \in HandOf(at'["sender"]) : d = e /\ IsReminder(e)
      /\ ~Left' /\ ~At("sender", {"marking", "reply"})'
  <2>1. CASE at' = [at EXCEPT !["sender"].pc = "gate", !["sender"].entry = e]
    <3>1. at \in [Procs -> Local] /\ "gate" \in Places
      BY DEF Inv, TypeOK, Places
    <3>2. Turned("sender")
      BY <1>3, <1>4, <2>1, <3>1 DEF Turned, Local
    <3>3. /\ at'["sender"].pc = "gate" /\ at'["sender"].entry = e
          /\ at'["sender"].rest = <<>> /\ at'["sender"] \in Local
      BY <1>3, <1>4, <2>1, <3>1, SenderPut DEF Local
    <3>4. LinedOf(at'["sender"]) /\ \A d \in HandOf(at'["sender"]) : d = e /\ IsReminder(e)
      BY <3>3, HandFacts
    <3>5. Put("sender")'
      BY <1>3, <3>3 DEF Put, Noticing, At
    <3>6. ~Left' /\ ~At("sender", {"marking", "reply"})'
      BY <3>3 DEF Left, At
    <3>7. QED BY <3>2, <3>4, <3>5, <3>6
  <2>2. CASE Told("sender", e, "expired")
    <3>1. "expired" \in Unsent
      BY DEF Unsent
    <3>2. QED BY <1>3, <1>4, <2>2, <3>1, Telling
  <2>3. QED BY <1>1, <2>1, <2>2
<1>6. Moves("sender")
  <2>1. Queued' = {d \in Range(t) : IsReminder(d)}
    BY <1>1 DEF Queued, IsReminder
  <2>2. e \in Queued \/ ~IsReminder(e)
    BY <1>3 DEF Queued
  <2>3. Gone = {}
    BY <1>1 DEF Gone, Left, At, SenderAt
  <2>4. Len(queue') <= Room
    BY <1>1, <1>2, <1>3, WechatAssumption
  <2>5. \A d \in Queued' : d \in Queued
    BY <1>3, <2>1 DEF Queued
  <2>6. \A d \in HandOf(at'["sender"]) : d \in Queued /\ d \notin Queued'
    BY <1>3, <1>5, <2>1, <2>2
  <2>7. QED BY <1>1, <1>3, <1>5, <2>3, <2>4, <2>5, <2>6 DEF Moves, Turned
<1>7. Reading("sender") /\ GateKept("sender")
  BY <1>1 DEF Reading, At, SenderAt, GateKept
<1>8. SenderHolds'
  BY <1>5, SenderAway
<1>9. exists' \in BOOLEAN /\ begun' \subseteq Keys
  BY <1>1 DEF Inv, TypeOK
<1>10. QED BY <1>1, <1>4, <1>5, <1>6, <1>7, <1>8, <1>9, Turns

\* It gives up, in or before the gate, and lets it go.
LEMMA StayMoves ==
  ASSUME Inv, Stay, queue' = queue
  PROVE  Moves("sender") /\ Put("sender")' /\ GateKept("sender") /\ SenderHolds'
<1>1. Return("sender") /\ LetGo("sender") /\ "sender" \in Procs
  BY DEF Stay, Procs
<1>2. /\ Turned("sender") /\ at'["sender"] = Idle /\ HandOf(at'["sender"]) = {}
      /\ LinedOf(at'["sender"])
  BY <1>1, Returning
<1>3. /\ Put("sender")' /\ ~Left' /\ ~At("sender", {"marking", "reply"})'
  BY <1>1, <1>2, PutIdle
<1>4. Moves("sender")
  BY <1>1, <1>2, MovesOnly
<1>5. QED BY <1>1, <1>3, <1>4, LettingGo, SenderAway

LEMMA GateStep == ASSUME Inv, SenderGate PROVE Inv'
<1> DEFINE e == Sending
           allowed == Current(e) /\ memory.enabled /\ exists
           late == IsReminder(e) /\ (~memory.reminders \/ e.key \in begun)
<1>1. /\ SenderAt("gate") /\ gate = "nobody" /\ queue' = queue
      /\ UNCHANGED <<Store, pending, generations, exists, begun, faults, wire>>
  BY DEF SenderGate, World, Outside, Leave, Sending, IsReminder, IsOrdinary
<1>2. \/ Stay /\ UNCHANGED write
      \/ gate' = "sender" /\ Told("sender", e, "expired") /\ UNCHANGED write
      \/ /\ allowed /\ ~late /\ IsReminder(e)
         /\ gate' = "sender" /\ Goto("sender", "marking")
         /\ Save("sender", WithRow(memory, e.key, "sending"),
                           WithRow(memory, e.key, "storage_blocked"))
      \/ /\ allowed /\ IsOrdinary(e) /\ gate' = "sender" /\ Goto("sender", "reply")
         /\ UNCHANGED write
  BY DEF SenderGate, Leave
<1>3. /\ "sender" \in Procs /\ e \in Entry /\ e = at["sender"].entry
      /\ at["sender"].rest = <<>> /\ ~Left
  BY <1>1, SenderPut DEF SenderAt, At, Left, Sending
<1>4. Reading("sender")
  BY <1>1 DEF Reading, At, SenderAt
<1>5. exists' \in BOOLEAN /\ begun' \subseteq Keys
  BY <1>1 DEF Inv, TypeOK
<1> HIDE DEF e
<1>6. CASE Stay /\ UNCHANGED write
  BY <1>1, <1>3, <1>4, <1>5, <1>6, StayMoves, Turns
<1>7. CASE gate' = "sender" /\ Told("sender", e, "expired") /\ UNCHANGED write
  <2>1. "expired" \in Unsent
    BY DEF Unsent
  <2>2. /\ Turned("sender") /\ LinedOf(at'["sender"]) /\ Put("sender")'
        /\ \A d \in HandOf(at'["sender"]) : d = e /\ IsReminder(e)
        /\ ~Left' /\ ~At("sender", {"marking", "reply"})'
    <3>1. e \in Entry \cup {NoEntry} /\ Told("sender", e, "expired") /\ "sender" \in Procs
      BY <1>3, <1>7
    <3>2. QED BY <2>1, <3>1, Telling
  <2>3. IsReminder(e) => e \in Hand("sender")
    BY <1>3, InHand
  <2>4. Moves("sender")
    BY <1>1, <1>3, <2>2, <2>3, MovesOnly
  <2>5. GateKept("sender")
    BY <1>1, <1>7 DEF GateKept
  <2>6. QED BY <1>1, <1>3, <1>4, <1>5, <1>7, <2>2, <2>4, <2>5, SenderAway, Turns
<1>8. CASE /\ allowed /\ ~late /\ IsReminder(e)
           /\ gate' = "sender" /\ Goto("sender", "marking")
           /\ Save("sender", WithRow(memory, e.key, "sending"),
                             WithRow(memory, e.key, "storage_blocked"))
  <2>1. /\ Turned("sender") /\ at'["sender"].pc = "marking" /\ at'["sender"].entry = e
        /\ at'["sender"].rest = <<>> /\ HandOf(at'["sender"]) = Hand("sender")
        /\ LinedOf(at'["sender"])
    <3>1. "marking" \in Places
      BY DEF Places
    <3>2. QED BY <1>3, <1>8, <3>1, Going
  <2>2. Moves("sender")
    BY <1>1, <1>3, <2>1, MovesOnly
  <2>3. Put("sender")'
    BY <1>3, <1>8, <2>1 DEF Put, Noticing, At, IsReminder
  <2>4. GateKept("sender")
    BY <1>1, <1>8 DEF GateKept
  <2>5. /\ Current(e) /\ memory.enabled /\ memory.reminders
    BY <1>8
  <2>6. memory' = memory
    BY <1>1 DEF Store
  <2>7. SenderHolds'
    <3>1. ~At("sender", {"reply"})' /\ Sending' = e
      BY <2>1 DEF At, Sending
    <3>2. Current(Sending)'
      BY <2>5, <2>6, <3>1 DEF Current
    <3>3. QED BY <1>8, <2>5, <2>6, <3>1, <3>2 DEF SenderHolds
  <2>8. e.key \in Keys /\ memory.generation # 0
    BY <1>3, <1>8, <2>5, EntryFacts DEF Current, Generations
  <2>9. memory.others
    BY <2>8 DEF Inv, WInv, OthersSafe
  <2>10. /\ WithRow(memory, e.key, "sending") \in Binding
         /\ WithRow(memory, e.key, "storage_blocked") \in Binding
    <3>1. "sending" \in Row /\ "storage_blocked" \in Row /\ memory \in Binding
      BY DEF Row, Unsent, Inv, TypeOK
    <3>2. QED BY <2>8, <3>1, RowSet
  <2>11. /\ write' \in [by : Procs, value : Binding, otherwise : Binding]
         /\ write'.by = "sender" /\ write'.value = WithRow(memory, e.key, "sending")
         /\ write'.otherwise = WithRow(memory, e.key, "storage_blocked")
    BY <1>3, <1>8, <2>10, Saving
  <2>12. Writing'
    <3>1. Marking("sender")'
      BY <2>1, <2>6, <2>11 DEF Marking, At, WithRow
    <3>2. QED BY <2>6, <2>9, <2>11, <3>1 DEF Writing
  <2>13. wire' \in [sent : [Keys -> Nat], accepted : SUBSET Keys]
    BY <1>1 DEF Inv, TypeOK
  <2>14. QED BY <1>1, <1>3, <1>4, <1>5, <2>2, <2>3, <2>4, <2>7, <2>11, <2>12, <2>13, Begins
<1>9. CASE /\ allowed /\ IsOrdinary(e) /\ gate' = "sender" /\ Goto("sender", "reply")
           /\ UNCHANGED write
  <2>1. /\ Turned("sender") /\ at'["sender"].pc = "reply" /\ at'["sender"].entry = e
        /\ at'["sender"].rest = <<>> /\ HandOf(at'["sender"]) = Hand("sender")
        /\ LinedOf(at'["sender"])
    <3>1. "reply" \in Places
      BY DEF Places
    <3>2. QED BY <1>3, <1>9, <3>1, Going
  <2>2. Moves("sender")
    BY <1>1, <1>3, <2>1, MovesOnly
  <2>3. Put("sender")'
    BY <1>3, <2>1 DEF Put, Noticing, At
  <2>4. GateKept("sender")
    BY <1>1, <1>9 DEF GateKept
  <2>5. SenderHolds'
    <3>1. ~At("sender", {"marking"})' /\ Sending' = e /\ memory' = memory
      BY <1>1, <2>1 DEF At, Sending, Store
    <3>2. Current(Sending)' /\ ~IsReminder(Sending)'
      BY <1>3, <1>9, <3>1, EntryFacts DEF Current, IsReminder
    <3>3. QED BY <1>9, <3>1, <3>2 DEF SenderHolds
  <2>6. QED BY <1>1, <1>3, <1>4, <1>5, <1>9, <2>2, <2>3, <2>4, <2>5, Turns
<1>10. QED BY <1>2, <1>6, <1>7, <1>8, <1>9
-----------------------------------------------------------------------------
\* The mark is on the disk: the reminder leaves.
LEMMA LeaveMarked ==
  ASSUME Inv, SenderAt("marking"), Written("sender", TRUE), Leave(Sending),
         memory'.generation = Sending.generation,
         UNCHANGED <<gate, queue, pending, generations, exists, begun>>
  PROVE  Inv'
<1> DEFINE e == Sending
           k == Sending.key
<1>1. /\ "sender" \in Procs \ {"binder"} /\ "sender" \in Procs /\ e \in Entry
      /\ e = at["sender"].entry /\ At("sender", {"marking"})
      /\ at["sender"].rest = <<>> /\ ~Left /\ IsReminder(e)
  BY SenderPut DEF SenderAt, At, Left, Sending, Procs
<1>2. gate = "sender" /\ Current(e)
  BY <1>1 DEF Inv, WInv, SenderHolds
<1>3. k \in Keys /\ e \in Hand("sender") /\ wire.sent[k] = 0 /\ memory.generation # 0
  BY <1>1, <1>2, InHand, NotSent
<1>4. /\ Goto("sender", "reply") /\ "reply" \in Places
      /\ wire' = [wire EXCEPT !.sent[k] = @ + 1]
  BY <1>1 DEF Leave, Places
<1>5. wire \in [sent : [Keys -> Nat], accepted : SUBSET Keys]
  BY DEF Inv, TypeOK
<1> HIDE DEF e, k
<1>6. /\ wire' \in [sent : [Keys -> Nat], accepted : SUBSET Keys]
      /\ wire'.accepted = wire.accepted /\ wire'.sent[k] = 1
      /\ \A j \in Keys \ {k} : wire'.sent[j] = wire.sent[j]
  BY <1>3, <1>4, <1>5
<1>7. /\ Turned("sender") /\ at'["sender"].pc = "reply" /\ at'["sender"].entry = e
      /\ at'["sender"].rest = <<>> /\ HandOf(at'["sender"]) = Hand("sender")
      /\ LinedOf(at'["sender"])
  BY <1>1, <1>4, Going
<1>8. Moves("sender") /\ Left'
  <2>1. Left'
    BY <1>7 DEF Left, At
  <2>2. QED BY <1>1, <1>7, <2>1, MovesOnly
<1>9. Put("sender")' /\ ~At("sender", {"marking"})' /\ Sending' = e
  BY <1>1, <1>7 DEF Put, Noticing, At, Sending
<1>10. /\ memory' = write.value /\ file' = memory' /\ memory' \in Binding
       /\ write' = NoWrite /\ faults' \in 0 .. Faults /\ storage_error' \in BOOLEAN
       /\ Safe(memory')
  BY <1>1, WrittenStore
<1>11. memory'.rows[k] = "sending"
  <2>1. write # NoWrite /\ write.by = "sender"
    BY DEF Written
  <2>2. write.value = WithRow(memory, k, "sending")
    BY <1>1, <2>1 DEF Inv, WInv, Writing, Marking, Recording, Renewing, Claiming, Setting,
                      Rebinding, At, k, Sending
  <2>3. memory \in Binding /\ "sending" \in Row
    BY DEF Inv, TypeOK, Row
  <2>4. QED BY <1>3, <1>10, <2>2, <2>3, RowSet
<1>12. /\ Apart' /\ Drawn' /\ OthersSafe' /\ Writing'
       /\ \A d \in Claims' : Current(d)' =>
            /\ d \in Claims /\ Current(d) /\ d.key \in Keys
            /\ d \in Gone => d \in Gone'
            /\ \/ memory'.rows[d.key] # "none"
               \/ At("reminder", {"write"})' /\ d = at'["reminder"].entry
  BY <1>1, <1>8, WrittenKeeps
<1>13. TrueRows(memory)' /\ TrueRows(file)'
  <2>1. TrueRows(memory')
    BY <1>10 DEF Safe
  <2> SUFFICES ASSUME NEW j \in Keys
               PROVE  /\ memory'.generation # 0 /\ memory'.rows[j] \in {"none", "queued"} =>
                           wire'.sent[j] = 0
                      /\ memory'.rows[j] \in Unsent => wire'.sent[j] = 0
                      /\ memory'.rows[j] = "accepted" => j \in wire'.accepted
    BY <1>10 DEF TrueRows
  <2>2. CASE j = k
    BY <1>11, <2>2 DEF Unsent
  <2>3. CASE j # k
    BY <1>6, <2>1, <2>3 DEF TrueRows
  <2>4. QED BY <2>2, <2>3
<1>14. AtMostOnce'
  <2>1. \A j \in Keys : wire.sent[j] <= 1
    BY DEF Inv, WInv, AtMostOnce
  <2>2. QED BY <1>6, <2>1 DEF AtMostOnce
<1>15. Untouched'
  <2> SUFFICES ASSUME NEW d \in Claims', Current(d)'
               PROVE  /\ \/ memory'.rows[d.key] # "none"
                         \/ At("reminder", {"write"})' /\ d = at'["reminder"].entry
                      /\ d \notin Gone' => wire'.sent[d.key] = 0
    BY DEF Untouched, Current
  <2>1. /\ d \in Claims /\ Current(d) /\ d.key \in Keys
        /\ d \in Gone => d \in Gone'
        /\ \/ memory'.rows[d.key] # "none"
           \/ At("reminder", {"write"})' /\ d = at'["reminder"].entry
    BY <1>12
  <2>2. CASE d.key = k
    <3>1. d \in Entry
      BY <2>1 DEF Claims
    <3>2. d = e
      BY <1>1, <1>2, <2>1, <2>2, <3>1, SameEntry DEF Current, k, e
    <3>3. d \in Gone'
      BY <1>3, <1>7, <1>8, <3>2, HandPrimed DEF Gone, Procs
    <3>4. QED BY <2>1, <3>3
  <2>3. CASE d.key # k
    BY <1>6, <2>1, <2>3 DEF Inv, WInv, Untouched
  <2>4. QED BY <2>2, <2>3
<1>16. SenderHolds'
  <2>1. gate' = "sender" /\ Current(Sending)'
    BY <1>2, <1>9 DEF Current, e
  <2>2. QED BY <1>9, <1>10, <1>11, <2>1 DEF SenderHolds, e, k
<1>17. Located'
  BY <1>1, <1>8, <1>9, PutKept DEF Moves
<1>18. Orderly(queue)'
  BY <1>8 DEF Moves, Orderly, IsReminder
<1>19. TypeOK'
  BY <1>6, <1>8, <1>10 DEF Inv, TypeOK, Moves
<1>20. QED BY <1>12, <1>13, <1>14, <1>15, <1>16, <1>17, <1>18, <1>19 DEF Inv, WInv

LEMMA MarkedStep == ASSUME Inv, SenderMarked PROVE Inv'
<1> DEFINE e == Sending
<1>1. PICK ok \in BOOLEAN :
        /\ SenderAt("marking") /\ Written("sender", ok)
        /\ UNCHANGED <<queue, pending, generations, exists, begun>>
        /\ \/ Stay /\ UNCHANGED wire
           \/ Told("sender", e, "expired") /\ UNCHANGED <<gate, wire>>
           \/ ok /\ memory'.generation = e.generation /\ Leave(e) /\ UNCHANGED gate
  BY DEF SenderMarked, Outside
<1>2. /\ "sender" \in Procs \ {"binder"} /\ "sender" \in Procs /\ e \in Entry
      /\ e = at["sender"].entry /\ ~Left
  BY <1>1, SenderPut DEF SenderAt, At, Left, Sending, Procs
<1> HIDE DEF e
<1>3. CASE Stay /\ UNCHANGED wire
  BY <1>1, <1>2, <1>3, StayMoves, Ends
<1>4. CASE Told("sender", e, "expired") /\ UNCHANGED <<gate, wire>>
  <2>1. "expired" \in Unsent /\ e \in Entry \cup {NoEntry} /\ Told("sender", e, "expired")
    BY <1>2, <1>4 DEF Unsent
  <2>2. /\ Turned("sender") /\ LinedOf(at'["sender"]) /\ Put("sender")'
        /\ \A d \in HandOf(at'["sender"]) : d = e /\ IsReminder(e)
        /\ ~Left' /\ ~At("sender", {"marking", "reply"})'
    BY <1>2, <2>1, Telling
  <2>3. IsReminder(e) => e \in Hand("sender")
    BY <1>2, InHand
  <2>4. Moves("sender")
    BY <1>1, <1>2, <2>2, <2>3, MovesOnly
  <2>5. GateKept("sender")
    BY <1>4 DEF GateKept
  <2>6. QED BY <1>1, <1>2, <1>4, <2>2, <2>4, <2>5, SenderAway, Ends
<1>5. CASE ok /\ memory'.generation = e.generation /\ Leave(e) /\ UNCHANGED gate
  BY <1>1, <1>5, LeaveMarked DEF e
<1>6. QED BY <1>1, <1>3, <1>4, <1>5

LEMMA ReplyStep == ASSUME Inv, SenderReply PROVE Inv'
<1> DEFINE e == Sending
<1>1. PICK answer \in Answers :
        /\ SenderAt("reply")
        /\ \/ /\ IsReminder(e)
              /\ Save("sender", WithRow(memory, e.key, answer), WithRow(memory, e.key, answer))
              /\ at' = [at EXCEPT !["sender"].pc = "noting", !["sender"].note = answer]
              /\ UNCHANGED gate
              /\ wire' = IF answer # "accepted" THEN wire
                         ELSE [wire EXCEPT !.accepted = @ \cup {e.key}]
           \/ Goto("sender", "pause") /\ UNCHANGED <<write, gate, wire>>
           \/ Stay /\ UNCHANGED <<write, wire>>
        /\ UNCHANGED <<Store, queue, pending, generations, exists, begun, faults>>
  BY DEF SenderReply, World, Outside
<1>2. /\ "sender" \in Procs /\ e \in Entry /\ e = at["sender"].entry /\ Left
      /\ at["sender"].rest = <<>> /\ Reading("sender")
  BY <1>1, SenderPut DEF SenderAt, At, Left, Sending, Reading
<1>3. gate = "sender" /\ Current(e) /\ memory' = memory /\ memory.generation # 0 /\ memory.others
  <2>1. gate = "sender" /\ Current(e)
    BY <1>2 DEF Inv, WInv, SenderHolds
  <2>2. memory.generation # 0
    BY <1>2, <2>1, EntryFacts DEF Current, Generations
  <2>3. memory.others
    BY <2>2 DEF Inv, WInv, OthersSafe
  <2>4. QED BY <1>1, <2>1, <2>2, <2>3 DEF Store
<1>4. exists' \in BOOLEAN /\ begun' \subseteq Keys
  BY <1>1 DEF Inv, TypeOK
<1> HIDE DEF e
<1>5. CASE /\ IsReminder(e)
           /\ Save("sender", WithRow(memory, e.key, answer), WithRow(memory, e.key, answer))
           /\ at' = [at EXCEPT !["sender"].pc = "noting", !["sender"].note = answer]
           /\ UNCHANGED gate
           /\ wire' = IF answer # "accepted" THEN wire
                      ELSE [wire EXCEPT !.accepted = @ \cup {e.key}]
  <2> DEFINE b == WithRow(memory, e.key, answer)
  <2>0. e.key \in Keys /\ answer \in Row /\ memory \in Binding
    BY <1>2, <1>5, EntryFacts DEF Row, Inv, TypeOK
  <2>1. /\ Turned("sender") /\ at'["sender"] \in Local /\ at'["sender"].pc = "noting"
        /\ at'["sender"].note = answer /\ at'["sender"].entry = e
        /\ at'["sender"].rest = <<>>
    <3>1. at \in [Procs -> Local] /\ "noting" \in Places
      BY DEF Inv, TypeOK, Places
    <3>2. Turned("sender")
      BY <1>2, <1>5, <2>0, <3>1 DEF Turned, Local
    <3>3. /\ at'["sender"].pc = "noting" /\ at'["sender"].note = answer
          /\ at'["sender"].entry = e /\ at'["sender"].rest = <<>>
      BY <1>2, <1>5, <3>1 DEF Local
    <3>4. QED BY <1>2, <3>2, <3>3 DEF Turned
  <2>2. LinedOf(at'["sender"]) /\ \A d \in HandOf(at'["sender"]) : d \in Hand("sender")
    <3>1. LinedOf(at'["sender"]) /\ \A d \in HandOf(at'["sender"]) : d = e
      BY <2>1, HandFacts
    <3>2. e \in Hand("sender")
      BY <1>2, <1>5, InHand
    <3>3. QED BY <3>1, <3>2
  <2>3. Left' /\ ~At("sender", {"marking"})' /\ ~At("sender", {"reply"})' /\ Sending' = e
    BY <2>1 DEF Left, At, Sending
  <2>4. Moves("sender")
    BY <1>1, <1>2, <2>1, <2>2, <2>3, MovesOnly
  <2>5. Put("sender")'
    <3>1. Range(<<>>) = {}
      <4>1. <<>> \in Seq(Entry) /\ Len(<<>>) = 0
        OBVIOUS
      <4>2. QED BY <4>1 DEF Range
    <3>2. Noticing("sender")'
      BY <1>5, <2>1, <3>1 DEF Noticing, At, IsReminder
    <3>3. QED BY <2>1, <3>2 DEF Put, At
  <2>6. SenderHolds'
    <3>1. Current(Sending)'
      BY <1>3, <2>3 DEF Current
    <3>2. QED BY <1>3, <1>5, <2>3, <3>1 DEF SenderHolds
  <2>7. b \in Binding
    BY <2>0, RowSet
  <2>8. /\ write' \in [by : Procs, value : Binding, otherwise : Binding]
        /\ write'.by = "sender" /\ write'.value = b /\ write'.otherwise = b
    <3> HIDE DEF b
    <3>1. Save("sender", b, b)
      BY <1>5 DEF b
    <3>2. QED BY <1>2, <2>7, <3>1, Saving
  <2>9. /\ wire' \in [sent : [Keys -> Nat], accepted : SUBSET Keys]
        /\ wire'.sent = wire.sent /\ \A k \in wire.accepted : k \in wire'.accepted
        /\ answer = "accepted" => e.key \in wire'.accepted
    <3>1. wire \in [sent : [Keys -> Nat], accepted : SUBSET Keys]
      BY DEF Inv, TypeOK
    <3>2. CASE answer = "accepted"
      BY <1>5, <2>0, <3>1, <3>2
    <3>3. CASE answer # "accepted"
      BY <1>5, <3>1, <3>3
    <3>4. QED BY <3>2, <3>3
  <2>10. Writing'
    <3>1. Current(at["sender"].entry)'
      BY <1>3, <2>1 DEF Current
    <3>2. Recording("sender")'
      BY <1>3, <2>1, <2>8, <2>9, <3>1 DEF Recording, At, WithRow
    <3>3. QED BY <1>3, <2>8, <3>2 DEF Writing
  <2>11. GateKept("sender")
    BY <1>5 DEF GateKept
  <2>12. QED BY <1>1, <1>2, <1>4, <2>4, <2>5, <2>6, <2>8, <2>9, <2>10, <2>11, Begins
<1>6. CASE Goto("sender", "pause") /\ UNCHANGED <<write, gate, wire>>
  <2>1. /\ Turned("sender") /\ at'["sender"].pc = "pause" /\ at'["sender"].entry = e
        /\ at'["sender"].rest = <<>> /\ HandOf(at'["sender"]) = Hand("sender")
        /\ LinedOf(at'["sender"])
    <3>1. "pause" \in Places
      BY DEF Places
    <3>2. QED BY <1>2, <1>6, <3>1, Going
  <2>2. Left' /\ ~At("sender", {"marking"})' /\ ~At("sender", {"reply"})' /\ Sending' = e
    BY <2>1 DEF Left, At, Sending
  <2>3. Moves("sender")
    BY <1>1, <1>2, <2>1, <2>2, MovesOnly
  <2>4. Put("sender")'
    BY <1>2, <2>1 DEF Put, Noticing, At
  <2>5. SenderHolds'
    <3>1. Current(Sending)'
      BY <1>3, <2>2 DEF Current
    <3>2. QED BY <1>3, <1>6, <2>2, <3>1 DEF SenderHolds
  <2>6. GateKept("sender")
    BY <1>6 DEF GateKept
  <2>7. QED BY <1>1, <1>2, <1>4, <1>6, <2>3, <2>4, <2>5, <2>6, Turns
<1>7. CASE Stay /\ UNCHANGED <<write, wire>>
  BY <1>1, <1>2, <1>4, <1>7, StayMoves, Turns
<1>8. QED BY <1>1, <1>5, <1>6, <1>7
-----------------------------------------------------------------------------
\* The writes that leave the rows and the binding as they are.
LEMMA SameSaved ==
  ASSUME Inv, NEW b \in Binding, NEW c \in BOOLEAN, NEW d \in BOOLEAN
  PROVE  /\ [b EXCEPT !.context = c] \in Binding
         /\ SameBinding([b EXCEPT !.context = c], b)
         /\ [b EXCEPT !.context = c].enabled = b.enabled
         /\ [b EXCEPT !.context = c].reminders = b.reminders
         /\ SessionOver(b) \in Binding /\ SameBinding(SessionOver(b), b)
         /\ SessionOver(b).enabled = b.enabled /\ SessionOver(b).reminders = b.reminders
         /\ [b EXCEPT !.enabled = c, !.reminders = d] \in Binding
         /\ SameBinding([b EXCEPT !.enabled = c, !.reminders = d], b)
BY DEF Binding, SameBinding, SessionOver

\* A write that only renews the binding, by the sender or the poller.
LEMMA RenewingStarts ==
  ASSUME Inv, NEW p \in Procs, NEW v \in Binding, Save(p, v, memory),
         (p = "sender" /\ at'[p].pc = "pausing") \/ (p = "poller" /\ at'[p].pc = "write"),
         SameBinding(v, memory), v.enabled = memory.enabled, v.reminders = memory.reminders,
         memory.generation # 0, memory' = memory
  PROVE  /\ Writing'
         /\ write' \in [by : Procs, value : Binding, otherwise : Binding]
<1>1. memory \in Binding /\ memory.others
  BY DEF Inv, TypeOK, WInv, OthersSafe
<1>2. /\ write' \in [by : Procs, value : Binding, otherwise : Binding]
      /\ write'.by = p /\ write'.value = v /\ write'.otherwise = memory
  BY <1>1, Saving
<1>3. Renewing(p)'
  BY <1>2 DEF Renewing, At, SameBinding
<1>4. QED BY <1>1, <1>2, <1>3 DEF Writing

LEMMA PauseStep == ASSUME Inv, SenderPause PROVE Inv'
<1>1. /\ at["sender"].pc = "pause" /\ Save("sender", SessionOver(memory), memory)
      /\ Goto("sender", "pausing") /\ memory' = memory
      /\ UNCHANGED <<Store, gate, queue, pending, generations, exists, begun, faults, wire>>
  BY DEF SenderPause, SenderAt, World, Outside, Store
<1>2. /\ "sender" \in Procs /\ Sending \in Entry /\ at["sender"].rest = <<>> /\ Left
      /\ Reading("sender")
  BY <1>1, SenderPut DEF At, Left, Reading
<1>3. /\ Turned("sender") /\ at'["sender"].pc = "pausing"
      /\ at'["sender"].entry = at["sender"].entry
      /\ at'["sender"].rest = <<>> /\ HandOf(at'["sender"]) = Hand("sender")
      /\ LinedOf(at'["sender"])
  <2>1. "pausing" \in Places
    BY DEF Places
  <2>2. QED BY <1>1, <1>2, <2>1, Going
<1>4. Left' /\ ~At("sender", {"marking"})' /\ ~At("sender", {"reply"})' /\ Sending' = Sending
  BY <1>3 DEF Left, At, Sending
<1>5. Moves("sender")
  BY <1>1, <1>2, <1>3, <1>4, MovesOnly
<1>6. Put("sender")'
  BY <1>2, <1>3 DEF Put, Noticing, At, Sending
<1>7. gate = "sender" /\ Current(Sending) /\ memory.generation # 0
  <2>1. gate = "sender" /\ Current(Sending)
    BY <1>2 DEF Inv, WInv, SenderHolds
  <2>2. QED BY <1>2, <2>1, EntryFacts DEF Current, Generations
<1>8. SenderHolds'
  <2>1. Current(Sending)'
    BY <1>1, <1>4, <1>7 DEF Current
  <2>2. QED BY <1>1, <1>4, <1>7, <2>1 DEF SenderHolds
<1>9. memory \in Binding /\ exists' \in BOOLEAN /\ begun' \subseteq Keys
      /\ wire' \in [sent : [Keys -> Nat], accepted : SUBSET Keys]
  BY <1>1 DEF Inv, TypeOK
<1>10. /\ SessionOver(memory) \in Binding /\ SameBinding(SessionOver(memory), memory)
       /\ SessionOver(memory).enabled = memory.enabled
       /\ SessionOver(memory).reminders = memory.reminders
  BY <1>9, SameSaved
<1>11. /\ Writing'
       /\ write' \in [by : Procs, value : Binding, otherwise : Binding]
  BY <1>1, <1>2, <1>3, <1>7, <1>10, RenewingStarts
<1>12. GateKept("sender")
  BY <1>1 DEF GateKept
<1>13. QED BY <1>1, <1>2, <1>5, <1>6, <1>8, <1>9, <1>11, <1>12, Begins

LEMMA PausedStep == ASSUME Inv, SenderPaused PROVE Inv'
<1>1. PICK ok \in BOOLEAN :
        /\ SenderAt("pausing") /\ Written("sender", ok) /\ Stay
        /\ UNCHANGED <<queue, pending, generations, exists, begun, wire>>
  BY DEF SenderPaused, Outside
<1>2. "sender" \in Procs \ {"binder"} /\ "sender" \in Procs
  BY DEF Procs
<1>3. QED BY <1>1, <1>2, StayMoves, Ends

(***************************************************************************)
(* The steps of the poller.                                                *)
(***************************************************************************)
LEMMA PollerPut ==
  ASSUME Inv
  PROVE  /\ "poller" \in Procs /\ at["poller"] \in Local /\ at["poller"].rest = <<>>
         /\ at["poller"].pc = "idle" => at["poller"] = Idle
         /\ at["poller"].pc = "reply" => at["poller"].generation # 0
         /\ Hand("poller") = {}
BY DEF Inv, TypeOK, WInv, Located, Put, Procs, At

LEMMA PollStartStep == ASSUME Inv, PollStart PROVE Inv'
<1>1. /\ at["poller"].pc = "idle" /\ memory.generation # 0
      /\ at' = [at EXCEPT !["poller"].pc = "reply",
                          !["poller"].generation = memory.generation]
      /\ UNCHANGED <<Store, write, gate, queue, pending, generations, exists, begun, faults,
                     wire>>
  BY DEF PollStart, IsBound, World, Outside
<1>2. /\ "poller" \in Procs /\ at["poller"] = Idle /\ Reading("poller") /\ GateKept("poller")
  BY <1>1, PollerPut DEF Reading, At, GateKept
<1>3. memory.generation \in Nat /\ at \in [Procs -> Local] /\ "reply" \in Places
  BY DEF Inv, TypeOK, Binding, Places
<1>4. Turned("poller")
  BY <1>1, <1>2, <1>3 DEF Turned, Local
<1>5. /\ at'["poller"].pc = "reply" /\ at'["poller"].entry = NoEntry
      /\ at'["poller"].generation = memory.generation /\ at'["poller"].rest = <<>>
      /\ at'["poller"] \in Local
  <2>1. at'["poller"].pc = "reply" /\ at'["poller"].generation = memory.generation
    BY <1>1, <1>2, <1>3 DEF Local
  <2>2. at'["poller"].entry = at["poller"].entry /\ at'["poller"].rest = at["poller"].rest
    BY <1>1, <1>2, <1>3 DEF Local
  <2>3. QED BY <1>2, <1>4, <2>1, <2>2, IdleFacts DEF Turned
<1>6. HandOf(at'["poller"]) = {} /\ LinedOf(at'["poller"])
  BY <1>5, HandFacts, IdleFacts
<1>7. Moves("poller")
  BY <1>1, <1>2, <1>4, <1>6, MovesOnly
<1>8. Put("poller")'
  <2>1. Hand("poller")' = {}
    BY <1>2, <1>6, HandPrimed
  <2>2. QED BY <1>1, <1>5, <2>1 DEF Put, Noticing, At
<1>9. exists' \in BOOLEAN /\ begun' \subseteq Keys
  BY <1>1 DEF Inv, TypeOK
<1>10. QED BY <1>1, <1>2, <1>7, <1>8, <1>9, Turns

LEMMA PollAnswerStep == ASSUME Inv, PollAnswer PROVE Inv'
<1>1. /\ at["poller"].pc = "reply" /\ memory' = memory
      /\ UNCHANGED <<Store, gate, queue, pending, generations, exists, begun, faults, wire>>
      /\ \/ /\ memory.generation = at["poller"].generation
            /\ \E new \in {memory, [memory EXCEPT !.context = TRUE], SessionOver(memory)} :
                 Save("poller", new, memory) /\ Goto("poller", "write")
         \/ Return("poller") /\ UNCHANGED write
  BY DEF PollAnswer, World, Outside, Store
<1>2. /\ "poller" \in Procs /\ Reading("poller") /\ GateKept("poller")
      /\ at["poller"].generation # 0 /\ at["poller"].rest = <<>> /\ Hand("poller") = {}
  BY <1>1, PollerPut DEF Reading, At, GateKept
<1>3. /\ memory \in Binding /\ exists' \in BOOLEAN /\ begun' \subseteq Keys
      /\ wire' \in [sent : [Keys -> Nat], accepted : SUBSET Keys]
  BY <1>1 DEF Inv, TypeOK
<1>4. CASE /\ memory.generation = at["poller"].generation
           /\ \E new \in {memory, [memory EXCEPT !.context = TRUE], SessionOver(memory)} :
                Save("poller", new, memory) /\ Goto("poller", "write")
  <2>1. PICK new \in {memory, [memory EXCEPT !.context = TRUE], SessionOver(memory)} :
          Save("poller", new, memory) /\ Goto("poller", "write")
    BY <1>4
  <2>2. /\ new \in Binding /\ SameBinding(new, memory)
        /\ new.enabled = memory.enabled /\ new.reminders = memory.reminders
    <3>1. CASE new = memory
      BY <1>3, <3>1 DEF SameBinding
    <3>2. CASE new = [memory EXCEPT !.context = TRUE]
      BY <1>3, <3>2, SameSaved
    <3>3. CASE new = SessionOver(memory)
      BY <1>3, <3>3, SameSaved
    <3>4. QED BY <2>1, <3>1, <3>2, <3>3
  <2>3. /\ Turned("poller") /\ at'["poller"].pc = "write"
        /\ at'["poller"].rest = <<>> /\ HandOf(at'["poller"]) = Hand("poller")
        /\ LinedOf(at'["poller"])
    <3>1. "write" \in Places
      BY DEF Places
    <3>2. QED BY <1>2, <2>1, <3>1, Going
  <2>4. Moves("poller")
    BY <1>1, <1>2, <2>3, MovesOnly
  <2>5. Put("poller")'
    <3>1. Hand("poller")' = {}
      BY <1>2, <2>3, HandPrimed
    <3>2. QED BY <2>3, <3>1 DEF Put, Noticing, At
  <2>6. /\ Writing'
        /\ write' \in [by : Procs, value : Binding, otherwise : Binding]
    BY <1>1, <1>2, <1>4, <2>1, <2>2, <2>3, RenewingStarts
  <2>7. QED BY <1>1, <1>2, <1>3, <2>4, <2>5, <2>6, Begins
<1>5. CASE Return("poller") /\ UNCHANGED write
  <2>1. /\ Turned("poller") /\ at'["poller"] = Idle /\ HandOf(at'["poller"]) = {}
        /\ LinedOf(at'["poller"])
    BY <1>2, <1>5, Returning
  <2>2. Put("poller")'
    BY <1>2, <2>1, PutIdle
  <2>3. Moves("poller")
    BY <1>1, <1>2, <2>1, MovesOnly
  <2>4. QED BY <1>1, <1>2, <1>3, <1>5, <2>2, <2>3, Turns
<1>6. QED BY <1>1, <1>4, <1>5

LEMMA PollWrittenStep == ASSUME Inv, PollWritten PROVE Inv'
<1>1. PICK ok \in BOOLEAN :
        /\ Written("poller", ok) /\ Return("poller")
        /\ UNCHANGED <<gate, queue, pending, generations, exists, begun, wire>>
  BY DEF PollWritten, Outside
<1>2. "poller" \in Procs \ {"binder"} /\ "poller" \in Procs /\ GateKept("poller")
  BY <1>1 DEF Procs, GateKept
<1>3. /\ Turned("poller") /\ at'["poller"] = Idle /\ HandOf(at'["poller"]) = {}
      /\ LinedOf(at'["poller"])
  BY <1>1, <1>2, Returning
<1>4. Put("poller")'
  BY <1>2, <1>3, PutIdle
<1>5. Moves("poller")
  BY <1>1, <1>2, <1>3, MovesOnly
<1>6. QED BY <1>1, <1>2, <1>4, <1>5, Ends
-----------------------------------------------------------------------------
(***************************************************************************)
(* The steps of the reminder.                                              *)
(***************************************************************************)
LEMMA ReminderPut ==
  ASSUME Inv
  PROVE  /\ "reminder" \in Procs /\ at["reminder"] \in Local /\ at["reminder"].rest = <<>>
         /\ at["reminder"].pc = "idle" => at["reminder"] = Idle
         /\ at["reminder"].pc = "read" => at["reminder"].generation # 0 /\ Hand("reminder") = {}
         /\ at["reminder"].pc = "write" =>
              at["reminder"].entry \in Entry /\ IsReminder(at["reminder"].entry)
BY DEF Inv, TypeOK, WInv, Located, Put, Procs, At

LEMMA RemindStartStep == ASSUME Inv, RemindStart PROVE Inv'
<1>1. /\ at["reminder"].pc = "idle" /\ memory.generation # 0
      /\ at' = [at EXCEPT !["reminder"].pc = "read",
                          !["reminder"].generation = memory.generation]
      /\ UNCHANGED <<Store, write, gate, queue, pending, generations, exists, begun, faults,
                     wire>>
  BY DEF RemindStart, IsBound, World, Outside
<1>2. /\ "reminder" \in Procs /\ at["reminder"] = Idle
      /\ Reading("reminder") /\ GateKept("reminder")
  BY <1>1, ReminderPut DEF Reading, At, GateKept
<1>3. memory.generation \in Nat /\ at \in [Procs -> Local] /\ "read" \in Places
  BY DEF Inv, TypeOK, Binding, Places
<1>4. Turned("reminder")
  BY <1>1, <1>2, <1>3 DEF Turned, Local
<1>5. /\ at'["reminder"].pc = "read" /\ at'["reminder"].entry = NoEntry
      /\ at'["reminder"].generation = memory.generation /\ at'["reminder"].rest = <<>>
      /\ at'["reminder"] \in Local
  <2>1. at'["reminder"].pc = "read" /\ at'["reminder"].generation = memory.generation
    BY <1>1, <1>2, <1>3 DEF Local
  <2>2. /\ at'["reminder"].entry = at["reminder"].entry
        /\ at'["reminder"].rest = at["reminder"].rest
    BY <1>1, <1>2, <1>3 DEF Local
  <2>3. QED BY <1>2, <1>4, <2>1, <2>2, IdleFacts DEF Turned
<1>6. HandOf(at'["reminder"]) = {} /\ LinedOf(at'["reminder"])
  BY <1>5, HandFacts, IdleFacts
<1>7. Moves("reminder")
  BY <1>1, <1>2, <1>4, <1>6, MovesOnly
<1>8. Put("reminder")'
  <2>1. Hand("reminder")' = {}
    BY <1>2, <1>6, HandPrimed
  <2>2. QED BY <1>1, <1>5, <2>1 DEF Put, Noticing, At
<1>9. exists' \in BOOLEAN /\ begun' \subseteq Keys
  BY <1>1 DEF Inv, TypeOK
<1>10. QED BY <1>1, <1>2, <1>7, <1>8, <1>9, Turns

\* A lesson that nobody has claimed is claimed: nobody holds it.
LEMMA ClaimNew ==
  ASSUME Inv, NEW k \in Keys, NEW e \in Entry,
         e.key = k, Current(e), at["reminder"].pc = "read",
         gate = "nobody", gate' = "reminder", memory.rows[k] = "none",
         Save("reminder", WithRow(memory, k, "queued"), memory),
         at' = [at EXCEPT !["reminder"].pc = "write", !["reminder"].entry = e],
         UNCHANGED <<Store, queue, pending, generations, exists, begun, faults, wire>>
  PROVE  Inv'
<1>1. /\ "reminder" \in Procs /\ at["reminder"].rest = <<>> /\ Hand("reminder") = {}
      /\ IsReminder(e) /\ memory.generation # 0 /\ memory.others
  <2>1. IsReminder(e)
    BY WechatAssumption DEF IsReminder
  <2>2. memory.generation # 0
    BY EntryFacts DEF Current, Generations
  <2>3. memory.others
    BY <2>2 DEF Inv, WInv, OthersSafe
  <2>4. QED BY <2>1, <2>2, <2>3, ReminderPut
<1>2. /\ memory' = memory /\ file' = file /\ storage_error' = storage_error
      /\ memory \in Binding /\ at \in [Procs -> Local] /\ "write" \in Places
  BY DEF Store, Inv, TypeOK, Places
<1>3. Turned("reminder")
  BY <1>1, <1>2 DEF Turned, Local
<1>4. /\ at'["reminder"].pc = "write" /\ at'["reminder"].entry = e
      /\ at'["reminder"].rest = <<>> /\ at'["reminder"] \in Local
  BY <1>1, <1>2, <1>3 DEF Turned, Local
<1>5. LinedOf(at'["reminder"]) /\ \A d : d \in HandOf(at'["reminder"]) <=> d = e
  BY <1>1, <1>4, HandFacts
<1>6. /\ \A q \in Procs \ {"reminder"} : at'[q] = at[q] /\ Hand(q)' = Hand(q)
      /\ \A d : d \in Hand("reminder")' <=> d = e
      /\ Queued' = Queued
  BY <1>1, <1>3, <1>5, HandPrimed DEF Turned, Hand, Queued, IsReminder
<1>7. e \notin Claims /\ wire.sent[k] = 0
  <2>1. ~At("reminder", {"write"})
    BY DEF At
  <2>2. QED BY <1>1, <2>1 DEF Inv, WInv, Untouched, TrueRows
<1>8. \A d \in Claims' : d = e \/ d \in Claims
  BY <1>6 DEF Claims
<1>9. e \notin Queued /\ \A q \in Procs : e \notin Hand(q)
  BY <1>7 DEF Claims
<1>10. Apart'
  <2>1. \A q \in Procs : LinedOf(at'[q])
    BY <1>5, <1>6 DEF Inv, WInv, Apart
  <2>2. \A q \in Procs : LinedOf(at[q])'
    BY <2>1 DEF LinedOf, IsReminder
  <2>3. \A q \in Procs : \A d \in Hand(q)' : d \notin Queued'
    BY <1>6, <1>9 DEF Inv, WInv, Apart
  <2>4. \A q \in Procs : \A d \in Hand(q)' : \A r \in Procs \ {q} : d \notin Hand(r)'
    <3> SUFFICES ASSUME NEW q \in Procs, NEW d \in Hand(q)', NEW r \in Procs \ {q},
                        d \in Hand(r)'
                 PROVE  FALSE
      OBVIOUS
    <3>1. CASE q = "reminder"
      BY <1>6, <1>9, <3>1
    <3>2. CASE r = "reminder"
      BY <1>6, <1>9, <3>2
    <3>3. CASE q # "reminder" /\ r # "reminder"
      BY <1>6, <3>3 DEF Inv, WInv, Apart
    <3>4. QED BY <3>1, <3>2, <3>3
  <2>5. QED BY <2>2, <2>3, <2>4 DEF Apart
<1>11. Drawn'
  <2>1. pending = 0 /\ e.generation <= generations
    BY <1>1 DEF Inv, WInv, Drawn, Current
  <2>2. QED BY <1>2, <1>8, <2>1 DEF Inv, WInv, Drawn
<1>12. Untouched'
  <2> SUFFICES ASSUME NEW d \in Claims', Current(d)'
               PROVE  /\ \/ memory'.rows[d.key] # "none"
                         \/ At("reminder", {"write"})' /\ d = at'["reminder"].entry
                      /\ d \notin Gone' => wire'.sent[d.key] = 0
    BY DEF Untouched, Current
  <2>1. CASE d = e
    BY <1>4, <1>7, <2>1 DEF At
  <2>2. CASE d # e
    <3>1. d \in Claims /\ Current(d)
      BY <1>2, <1>8, <2>2 DEF Current
    <3>2. ~At("reminder", {"write"})
      BY DEF At
    <3>3. Gone' = Gone
      BY <1>6, GoneKept DEF Procs
    <3>4. QED BY <1>2, <3>1, <3>2, <3>3 DEF Inv, WInv, Untouched
  <2>3. QED BY <2>1, <2>2
<1>13. TrueRows(memory)' /\ TrueRows(file)' /\ AtMostOnce' /\ OthersSafe'
  BY <1>2 DEF Inv, WInv, TrueRows, AtMostOnce, OthersSafe
<1>14. SenderHolds'
  <2>1. ~At("sender", {"marking"}) /\ ~Left
    BY DEF Inv, WInv, SenderHolds
  <2>2. ~At("sender", {"reply"})
    BY <2>1 DEF Left, At
  <2>3. at'["sender"] = at["sender"]
    BY <1>6 DEF Procs
  <2>4. ~Left' /\ ~At("sender", {"marking"})' /\ ~At("sender", {"reply"})'
    BY <2>1, <2>2, <2>3, GoneKept DEF At
  <2>5. QED BY <2>4 DEF SenderHolds
<1>15. Located'
  <2>1. Put("reminder")'
    BY <1>1, <1>4 DEF Put, Noticing, At, IsReminder
  <2>2. QED BY <1>1, <1>6, <2>1, PutKept
<1>16. /\ write' \in [by : Procs, value : Binding, otherwise : Binding]
       /\ write'.by = "reminder" /\ write'.value = WithRow(memory, k, "queued")
       /\ write'.otherwise = memory
  <2>1. "queued" \in Row
    BY DEF Row
  <2>2. WithRow(memory, k, "queued") \in Binding
    BY <1>2, <2>1, RowSet
  <2>3. QED BY <1>1, <1>2, <2>2, Saving
<1>17. Writing'
  <2>1. Current(at["reminder"].entry)'
    BY <1>2, <1>4 DEF Current
  <2>2. Claiming("reminder")'
    BY <1>2, <1>4, <1>16, <2>1 DEF Claiming, At, WithRow
  <2>3. QED BY <1>1, <1>2, <1>16, <2>2 DEF Writing
<1>18. Orderly(queue)'
  BY DEF Inv, WInv, Orderly, IsReminder
<1>19. TypeOK'
  BY <1>1, <1>2, <1>3, <1>16 DEF Inv, TypeOK, Turned
<1>20. QED BY <1>10, <1>11, <1>12, <1>13, <1>14, <1>15, <1>17, <1>18, <1>19 DEF Inv, WInv

LEMMA ClaimStep == ASSUME Inv, Claim PROVE Inv'
<1> DEFINE g == at["reminder"].generation
<1>1. /\ at["reminder"].pc = "read"
      /\ UNCHANGED <<Store, queue, pending, generations, exists, begun, faults, wire>>
      /\ \/ /\ gate = "nobody" /\ memory.generation = g /\ gate' = "reminder"
            /\ \E k \in Keys \ begun :
                 /\ memory.rows[k] = "none"
                 /\ Save("reminder", WithRow(memory, k, "queued"), memory)
                 /\ at' = [at EXCEPT !["reminder"].pc = "write",
                             !["reminder"].entry = [key |-> k, generation |-> g]]
         \/ Return("reminder") /\ UNCHANGED <<write, gate>>
  BY DEF Claim, World, Outside
<1>2. /\ "reminder" \in Procs /\ g # 0 /\ Reading("reminder")
  BY <1>1, ReminderPut DEF Reading, At
<1> HIDE DEF g
<1>3. CASE /\ gate = "nobody" /\ memory.generation = g /\ gate' = "reminder"
           /\ \E k \in Keys \ begun :
                /\ memory.rows[k] = "none"
                /\ Save("reminder", WithRow(memory, k, "queued"), memory)
                /\ at' = [at EXCEPT !["reminder"].pc = "write",
                            !["reminder"].entry = [key |-> k, generation |-> g]]
  <2>1. PICK k \in Keys \ begun :
          /\ memory.rows[k] = "none"
          /\ Save("reminder", WithRow(memory, k, "queued"), memory)
          /\ at' = [at EXCEPT !["reminder"].pc = "write",
                      !["reminder"].entry = [key |-> k, generation |-> g]]
    BY <1>3
  <2>2. g \in Generations
    <3>1. g \in Nat /\ g <= generations /\ generations \in 0 .. Bindings /\ Bindings \in Nat
      BY <1>2, <1>3, WechatAssumption DEF Inv, TypeOK, Binding, WInv, Drawn
    <3>2. QED BY <1>2, <3>1 DEF Generations
  <2>3. PICK e \in Entry : e = [key |-> k, generation |-> g]
    BY <2>1, <2>2 DEF Entry
  <2>4. e.key = k /\ Current(e)
    BY <1>3, <2>3 DEF Current
  <2>5. at' = [at EXCEPT !["reminder"].pc = "write", !["reminder"].entry = e]
    BY <2>1, <2>3
  <2>6. QED BY <1>1, <1>3, <2>1, <2>4, <2>5, ClaimNew
<1>4. CASE Return("reminder") /\ UNCHANGED <<write, gate>>
  <2>1. /\ Turned("reminder") /\ at'["reminder"] = Idle /\ HandOf(at'["reminder"]) = {}
        /\ LinedOf(at'["reminder"])
    BY <1>2, <1>4, Returning
  <2>2. Put("reminder")'
    BY <1>2, <2>1, PutIdle
  <2>3. Moves("reminder")
    BY <1>1, <1>2, <2>1, MovesOnly
  <2>4. GateKept("reminder") /\ exists' \in BOOLEAN /\ begun' \subseteq Keys
    BY <1>1, <1>4 DEF GateKept, Inv, TypeOK
  <2>5. QED BY <1>1, <1>2, <1>4, <2>2, <2>3, <2>4, Turns
<1>5. QED BY <1>1, <1>3, <1>4
-----------------------------------------------------------------------------
\* Whose write it is.
LEMMA Writer ==
  ASSUME Inv, write # NoWrite
  PROVE  /\ write.by = "reminder" /\ At("reminder", {"write"}) => Claiming("reminder")
         /\ write.by = "request" /\ At("request", {"write"}) => Setting("request")
BY DEF Inv, WInv, Writing, Marking, Recording, Renewing, Claiming, Setting, Rebinding, At

\* The reminder claimed is not in the queue yet.
LEMMA QueueReady ==
  ASSUME Inv
  PROVE  /\ queue \in Seq(Entry) /\ Len(queue) <= Room /\ Orderly(queue)
         /\ at["reminder"].pc = "write" =>
              at["reminder"].entry \in Hand("reminder") /\ at["reminder"].entry \notin Range(queue)
<1>1. queue \in Seq(Entry) /\ Len(queue) <= Room /\ Orderly(queue)
  BY DEF Inv, TypeOK, WInv
<1>2. ASSUME at["reminder"].pc = "write"
      PROVE  /\ at["reminder"].entry \in Hand("reminder")
             /\ at["reminder"].entry \notin Range(queue)
  <2>1. IsReminder(at["reminder"].entry) /\ "reminder" \in Procs
    BY <1>2, ReminderPut
  <2>2. at["reminder"].entry \in Hand("reminder")
    BY <2>1, InHand
  <2>3. at["reminder"].entry \notin Queued
    BY <2>1, <2>2 DEF Inv, WInv, Apart
  <2>4. QED BY <2>1, <2>2, <2>3 DEF Queued
<1>3. QED BY <1>1, <1>2

LEMMA ClaimedStep == ASSUME Inv, Claimed PROVE Inv'
<1> DEFINE e == at["reminder"].entry
<1>1. PICK ok \in BOOLEAN :
        /\ at["reminder"].pc = "write" /\ Written("reminder", ok) /\ gate' = "nobody"
        /\ \/ ~ok /\ Return("reminder") /\ UNCHANGED queue
           \/ ok /\ Told("reminder", e, "disabled") /\ UNCHANGED queue
           \/ ok /\ Enqueue(e) /\ Told("reminder", Victim(e), "queue_full")
        /\ UNCHANGED <<pending, generations, exists, begun, wire>>
  BY DEF Claimed, Outside
<1>2. /\ "reminder" \in Procs \ {"binder"} /\ "reminder" \in Procs
      /\ e \in Entry /\ IsReminder(e) /\ e \in Hand("reminder") /\ e \notin Range(queue)
      /\ queue \in Seq(Entry) /\ Len(queue) <= Room /\ Orderly(queue)
  BY <1>1, ReminderPut, QueueReady DEF Procs
<1>3. /\ gate = "reminder" /\ write # NoWrite
      /\ write.value = WithRow(memory, e.key, "queued")
  <2>1. write # NoWrite /\ write.by = "reminder" /\ At("reminder", {"write"})
    BY <1>1 DEF Written, At
  <2>2. QED BY <2>1, Writer DEF Claiming
<1>4. GateKept("reminder")
  BY <1>1, <1>3 DEF GateKept
<1>5. ok => memory'.rows[e.key] # "none"
  <2>1. ok => memory' = write.value
    BY <1>1, <1>2, WrittenStore
  <2>2. memory \in Binding /\ "queued" \in Row /\ e.key \in Keys
    BY <1>2, EntryFacts DEF Inv, TypeOK, Row
  <2>3. WithRow(memory, e.key, "queued").rows[e.key] = "queued"
    BY <2>2, RowSet
  <2>4. QED BY <1>3, <2>1, <2>3
<1> HIDE DEF e
<1>6. CASE ~ok /\ Return("reminder") /\ UNCHANGED queue
  <2>1. /\ Turned("reminder") /\ at'["reminder"] = Idle /\ HandOf(at'["reminder"]) = {}
        /\ LinedOf(at'["reminder"])
    BY <1>2, <1>6, Returning
  <2>2. Put("reminder")'
    BY <1>2, <2>1, PutIdle
  <2>3. Moves("reminder")
    BY <1>2, <1>6, <2>1, MovesOnly
  <2>4. QED BY <1>1, <1>2, <1>4, <1>6, <2>1, <2>2, <2>3, Ends
<1>7. CASE ok /\ Told("reminder", e, "disabled") /\ UNCHANGED queue
  <2>1. "disabled" \in Unsent /\ e \in Entry \cup {NoEntry} /\ Told("reminder", e, "disabled")
    BY <1>2, <1>7 DEF Unsent
  <2>2. /\ Turned("reminder") /\ LinedOf(at'["reminder"]) /\ Put("reminder")'
        /\ \A d \in HandOf(at'["reminder"]) : d = e
    BY <1>2, <2>1, Telling
  <2>3. Moves("reminder")
    BY <1>2, <1>7, <2>2, MovesOnly
  <2>4. QED BY <1>1, <1>2, <1>4, <1>5, <1>7, <2>2, <2>3, Ends DEF e
<1>8. CASE ok /\ Enqueue(e) /\ Told("reminder", Victim(e), "queue_full")
  <2>1. /\ queue' \in Seq(Entry) /\ Len(queue') <= Room /\ Orderly(queue')
        /\ Range(queue') \subseteq Range(queue) \cup {e}
        /\ Victim(e) \in Range(queue) \cup {e, NoEntry}
        /\ IsReminder(Victim(e)) => Victim(e) \notin Range(queue')
    BY <1>2, <1>8, Enqueued
  <2>2. Victim(e) \in Entry \cup {NoEntry}
    BY <1>2, <2>1, SeqFacts
  <2>3. "queue_full" \in Unsent /\ Told("reminder", Victim(e), "queue_full")
    BY <1>8 DEF Unsent
  <2>4. /\ Turned("reminder") /\ LinedOf(at'["reminder"]) /\ Put("reminder")'
        /\ \A d \in HandOf(at'["reminder"]) : d = Victim(e) /\ IsReminder(Victim(e))
    BY <1>2, <2>2, <2>3, Telling
  <2>5. Moves("reminder")
    <3>1. Queued' = {d \in Range(queue') : IsReminder(d)}
      BY DEF Queued, IsReminder
    <3>2. \A d \in Queued' : d \in Hand("reminder") \/ d \in Queued
      BY <1>2, <2>1, <3>1 DEF Queued
    <3>3. \A d \in HandOf(at'["reminder"]) :
            (d \in Hand("reminder") \/ d \in Queued) /\ d \notin Queued'
      BY <1>2, <2>1, <2>4, <3>1, IdleFacts DEF Queued
    <3>4. QED BY <2>1, <2>4, <3>2, <3>3 DEF Moves, Turned
  <2>6. QED BY <1>1, <1>2, <1>4, <1>5, <1>8, <2>4, <2>5, Ends DEF e
<1>9. QED BY <1>1, <1>6, <1>7, <1>8

(***************************************************************************)
(* The steps of the notices.                                               *)
(***************************************************************************)
LEMMA NoticeEntry ==
  ASSUME Inv, Notice
  PROVE  \E e \in Entry : ~IsReminder(e) /\ Enqueue(e)
<1> DEFINE g == memory.generation
<1>1. g # 0 /\ Enqueue([key |-> Log, generation |-> g])
  BY DEF Notice, IsBound
<1>2. g \in Generations
  <2>1. g \in Nat /\ g <= generations /\ generations \in 0 .. Bindings /\ Bindings \in Nat
    BY <1>1, WechatAssumption DEF Inv, TypeOK, Binding, WInv, Drawn
  <2>2. QED BY <1>1, <2>1 DEF Generations
<1>3. PICK e \in Entry : e = [key |-> Log, generation |-> g]
  BY <1>2 DEF Entry
<1>4. QED BY <1>1, <1>3 DEF IsReminder

LEMMA NoticeStep == ASSUME Inv, Notice PROVE Inv'
<1>1. UNCHANGED <<Store, write, gate, at, pending, generations, exists, begun, faults, wire>>
  BY DEF Notice, World, Outside
<1>4. PICK e \in Entry : ~IsReminder(e) /\ Enqueue(e)
  BY NoticeEntry
<1>5. queue \in Seq(Entry) /\ Len(queue) <= Room /\ Orderly(queue)
  BY DEF Inv, TypeOK, WInv
<1>6. /\ queue' \in Seq(Entry) /\ Len(queue') <= Room /\ Orderly(queue')
      /\ Range(queue') \subseteq Range(queue) \cup {e}
  BY <1>4, <1>5, Enqueued
<1>7. \A d \in Queued' : d \in Queued
  BY <1>4, <1>6 DEF Queued, IsReminder
<1>8. "drain" \in Procs /\ Put("drain") /\ LinedOf(at["drain"]) /\ at \in [Procs -> Local]
      /\ exists' \in BOOLEAN /\ begun' \subseteq Keys
  BY <1>1 DEF Procs, Inv, TypeOK, WInv, Located, Apart
<1>9. HandOf(at'["drain"]) = Hand("drain") /\ at' = at
  BY <1>1 DEF Hand
<1>10. Moves("drain")
  <2>1. \A d \in Hand("drain") : d \notin Queued
    BY <1>8 DEF Inv, WInv, Apart
  <2>2. QED BY <1>6, <1>7, <1>8, <1>9, <2>1 DEF Moves
<1>11. Put("drain")'
  <2>1. Hand("drain")' = Hand("drain")
    BY <1>8, <1>9, HandPrimed
  <2>2. Noticing("drain")'
    BY <1>8, <1>9 DEF Put, Noticing, At, IsReminder
  <2>3. QED BY <1>8, <1>9, <2>1, <2>2 DEF Put, At
<1>12. GateKept("drain")
  BY <1>1 DEF GateKept
<1>13. QED BY <1>1, <1>8, <1>10, <1>11, <1>12, Turns

LEMMA DrainStep == ASSUME Inv, DrainExpired PROVE Inv'
<1>1. PICK i \in DOMAIN queue :
        /\ at["drain"].pc = "idle" /\ queue' = RemoveAt(queue, i)
        /\ Told("drain", queue[i], "expired")
        /\ UNCHANGED <<Store, write, gate, pending, generations, exists, begun, faults, wire>>
  BY DEF DrainExpired, World, Outside
<1>2. queue \in Seq(Entry) /\ Len(queue) <= Room /\ Orderly(queue)
  BY DEF Inv, TypeOK, WInv
<1>3. i \in 1 .. Len(queue) /\ queue[i] \in Entry /\ queue[i] \in Range(queue) /\ Len(queue) \in Nat
  BY <1>2, SeqFacts
<1>4. /\ queue' \in Seq(Entry) /\ Len(queue') = Len(queue) - 1 /\ Orderly(queue')
      /\ Range(queue) = Range(queue') \cup {queue[i]}
      /\ IsReminder(queue[i]) => queue[i] \notin Range(queue')
  BY <1>1, <1>2, <1>3, WithoutOne
<1>5. PICK e \in Entry : e = queue[i]
  BY <1>3
<1>6. /\ Turned("drain") /\ LinedOf(at'["drain"]) /\ Put("drain")'
      /\ \A d \in HandOf(at'["drain"]) : d = e /\ IsReminder(e)
  <2>1. /\ "expired" \in Unsent /\ e \in Entry \cup {NoEntry} /\ Told("drain", e, "expired")
        /\ "drain" \in Procs
    BY <1>1, <1>5 DEF Unsent, Procs
  <2>2. QED BY <2>1, Telling
<1>7. Moves("drain")
  <2>1. Queued' = {d \in Range(queue') : IsReminder(d)}
    BY DEF Queued, IsReminder
  <2>2. \A d \in Queued' : d \in Queued
    BY <1>4, <2>1 DEF Queued
  <2>3. \A d \in HandOf(at'["drain"]) : d \in Queued /\ d \notin Queued'
    BY <1>3, <1>4, <1>5, <1>6, <2>1 DEF Queued
  <2>4. Len(queue') <= Room
    BY <1>2, <1>3, <1>4, WechatAssumption
  <2>5. QED BY <1>4, <1>6, <2>2, <2>3, <2>4 DEF Moves, Turned
<1>8. "drain" \in Procs /\ Reading("drain") /\ GateKept("drain")
      /\ exists' \in BOOLEAN /\ begun' \subseteq Keys
  BY <1>1 DEF Procs, Reading, At, GateKept, Inv, TypeOK
<1>9. QED BY <1>1, <1>6, <1>7, <1>8, Turns
-----------------------------------------------------------------------------
(***************************************************************************)
(* The binder.                                                             *)
(***************************************************************************)
LEMMA StillMoves ==
  ASSUME Inv, UNCHANGED <<at, queue>>
  PROVE  /\ "drain" \in Procs /\ Moves("drain") /\ Put("drain")'
         /\ \A p \in Procs : Hand(p)' = Hand(p)
         /\ Claims' = Claims /\ Gone' = Gone /\ Left' = Left
<1>1. "drain" \in Procs /\ Put("drain") /\ LinedOf(at["drain"]) /\ at \in [Procs -> Local]
  BY DEF Procs, Inv, TypeOK, WInv, Located, Apart
<1>2. /\ \A p \in Procs : Hand(p)' = Hand(p)
      /\ Gone' = Gone /\ Left' = Left
  BY HandPrimed, GoneKept DEF Hand
<1>3. Queued' = Queued
  BY DEF Queued, IsReminder
<1>4. Claims' = Claims
  BY <1>2, <1>3 DEF Claims
<1>5. Moves("drain")
  <2>1. Turned("drain") /\ HandOf(at'["drain"]) = Hand("drain")
    BY <1>1 DEF Turned, Hand
  <2>2. QED BY <1>1, <2>1, MovesOnly
<1>6. Put("drain")'
  <2>1. Noticing("drain")'
    BY <1>1 DEF Put, Noticing, At, IsReminder
  <2>2. QED BY <1>1, <1>2, <2>1 DEF Put, At
<1>7. QED BY <1>1, <1>2, <1>4, <1>5, <1>6

LEMMA BeginStep == ASSUME Inv, Begin PROVE Inv'
<1>1. /\ ~storage_error /\ memory.generation = 0 /\ generations < Bindings /\ write = NoWrite
      /\ generations' = generations + 1 /\ pending' = generations + 1
      /\ UNCHANGED <<memory, file, storage_error, write, gate, queue, at, exists, begun,
                     faults, wire>>
  BY DEF Begin, IsBound, LockFree, Store
<1>2. generations \in Nat /\ generations' \in Nat /\ pending' \in Generations
      /\ generations' \in 0 .. Bindings
  <2>1. generations \in 0 .. Bindings /\ Bindings \in Nat
    BY WechatAssumption DEF Inv, TypeOK
  <2>2. QED BY <1>1, <2>1 DEF Generations
<1>3. /\ "drain" \in Procs /\ Moves("drain") /\ Put("drain")'
      /\ \A p \in Procs : Hand(p)' = Hand(p)
      /\ Claims' = Claims /\ Gone' = Gone /\ Left' = Left
  BY <1>1, StillMoves
<1>4. /\ Apart' /\ Located'
  BY <1>3, Moved, PutKept DEF Moves
<1>5. Drawn'
  <2>1. file.generation \in Nat /\ \A e \in Claims : e.generation \in Nat
    BY EntryFacts DEF Inv, TypeOK, Binding, Claims, Generations
  <2>2. file.generation <= generations /\ \A e \in Claims : e.generation <= generations
    BY DEF Inv, WInv, Drawn
  <2>3. /\ file.generation <= generations' /\ file.generation < pending'
        /\ \A e \in Claims : e.generation <= generations' /\ e.generation < pending'
    BY <1>1, <1>2, <2>1, <2>2
  <2>4. QED BY <1>1, <1>3, <2>3 DEF Inv, WInv, Drawn
<1>6. Untouched'
  BY <1>1, <1>3 DEF Inv, WInv, Untouched, At, Current
<1>7. TrueRows(memory)' /\ TrueRows(file)' /\ AtMostOnce' /\ OthersSafe'
  BY <1>1 DEF Inv, WInv, TrueRows, AtMostOnce, OthersSafe
<1>8. SenderHolds'
  <2>1. IsReminder(Sending)' = IsReminder(Sending) /\ Sending' = Sending
    BY <1>1 DEF Sending, IsReminder
  <2>2. QED BY <1>1, <1>3, <2>1 DEF Inv, WInv, SenderHolds, At, Current
<1>9. Writing' /\ Orderly(queue)'
  BY <1>1 DEF Inv, WInv, Writing, NoWrite, Orderly, IsReminder
<1>10. TypeOK'
  BY <1>1, <1>2 DEF Inv, TypeOK
<1>11. QED BY <1>4, <1>5, <1>6, <1>7, <1>8, <1>9, <1>10 DEF Inv, WInv

LEMMA BinderPut ==
  ASSUME Inv
  PROVE  /\ "binder" \in Procs /\ at["binder"] \in Local /\ at["binder"].rest = <<>>
         /\ Hand("binder") = {}
BY DEF Inv, TypeOK, WInv, Located, Put, Procs, At

LEMMA ConfirmStep == ASSUME Inv, Confirm PROVE Inv'
<1> DEFINE v == [memory EXCEPT !.generation = pending, !.enabled = TRUE,
                        !.reminders = TRUE, !.context = FALSE, !.paused = FALSE,
                        !.rows = [k \in Keys |-> "none"]]
<1>1. /\ at["binder"].pc = "idle" /\ pending # 0
      /\ Save("binder", v, memory) /\ Goto("binder", "write")
      /\ memory' = memory
      /\ UNCHANGED <<Store, gate, queue, pending, generations, exists, begun, faults, wire>>
  BY DEF Confirm, World, Outside, Store
<1>2. /\ "binder" \in Procs /\ Reading("binder") /\ GateKept("binder")
      /\ at["binder"].rest = <<>> /\ Hand("binder") = {}
  BY <1>1, BinderPut DEF Reading, At, GateKept
<1>3. /\ memory \in Binding /\ pending \in Nat /\ memory.others
      /\ exists' \in BOOLEAN /\ begun' \subseteq Keys
      /\ wire' \in [sent : [Keys -> Nat], accepted : SUBSET Keys]
  <2>1. memory.others
    BY <1>1 DEF Inv, WInv, OthersSafe
  <2>2. QED BY <1>1, <2>1 DEF Inv, TypeOK, Generations
<1>4. /\ v \in Binding /\ v.generation = pending /\ v.rows = [k \in Keys |-> "none"]
      /\ v.others = memory.others
  <2>1. [k \in Keys |-> "none"] \in [Keys -> Row]
    BY DEF Row
  <2>2. v \in Binding
    BY <1>3, <2>1 DEF Binding
  <2>3. v.generation = pending /\ v.rows = [k \in Keys |-> "none"]
    BY <1>3 DEF Binding
  <2>4. v.others = memory.others
    BY <1>3 DEF Binding
  <2>5. QED BY <2>2, <2>3, <2>4
<1> HIDE DEF v
<1>5. /\ Turned("binder") /\ at'["binder"].pc = "write"
      /\ at'["binder"].rest = <<>> /\ HandOf(at'["binder"]) = Hand("binder")
      /\ LinedOf(at'["binder"])
  <2>1. "write" \in Places
    BY DEF Places
  <2>2. QED BY <1>1, <1>2, <2>1, Going
<1>6. Moves("binder")
  BY <1>1, <1>2, <1>5, MovesOnly
<1>7. Put("binder")'
  <2>1. Hand("binder")' = {}
    BY <1>2, <1>5, HandPrimed
  <2>2. QED BY <1>5, <2>1 DEF Put, Noticing, At
<1>8. /\ write' \in [by : Procs, value : Binding, otherwise : Binding]
      /\ write'.by = "binder" /\ write'.value = v /\ write'.otherwise = memory
  BY <1>1, <1>2, <1>3, <1>4, Saving
<1>9. Writing'
  <2>1. Rebinding("binder")'
    BY <1>1, <1>3, <1>4, <1>5, <1>8 DEF Rebinding, At
  <2>2. QED BY <1>1, <1>3, <1>8, <2>1 DEF Writing
<1>10. QED BY <1>1, <1>2, <1>3, <1>6, <1>7, <1>8, <1>9, Begins

\* Nothing is on its way for a binding that is not there.
LEMMA NotBoundNotSending ==
  ASSUME Inv, memory.generation = 0
  PROVE  ~Left /\ ~At("sender", {"marking", "reply"})
<1> SUFFICES ASSUME Left \/ At("sender", {"marking"}) PROVE FALSE
  BY DEF Left, At
<1>1. Current(Sending)
  BY DEF Inv, WInv, SenderHolds
<1>2. Sending \in Entry
  <2>1. CASE At("sender", {"marking", "reply", "pause", "pausing"})
    BY <2>1, SenderPut DEF At
  <2>2. CASE At("sender", {"noting"})
    <3>1. Noticing("sender") /\ "sender" \in Procs
      BY DEF Inv, WInv, Located, Put, Procs
    <3>2. IsReminder(at["sender"].entry)
      BY <2>2, <3>1 DEF Noticing, At
    <3>3. QED BY <3>1, <3>2, InHand DEF Sending
  <2>3. QED BY <2>1, <2>2 DEF Left, At
<1>3. QED BY <1>1, <1>2, EntryFacts DEF Current, Generations

LEMMA ConfirmedStep == ASSUME Inv, Confirmed PROVE Inv'
<1>1. PICK ok \in BOOLEAN :
        /\ at["binder"].pc = "write" /\ Written("binder", ok)
        /\ pending' = IF ok THEN 0 ELSE pending
        /\ wire' = IF ok THEN NothingSent ELSE wire
        /\ Return("binder")
        /\ UNCHANGED <<gate, queue, generations, exists, begun>>
  BY DEF Confirmed
<1>2. /\ "binder" \in Procs /\ at["binder"].rest = <<>> /\ Hand("binder") = {}
  BY BinderPut
<1>3. /\ write # NoWrite /\ write.by = "binder" /\ write' = NoWrite
      /\ storage_error' = ~ok
      /\ memory' = IF ok THEN write.value ELSE write.otherwise
      /\ file' = IF ok THEN write.value ELSE file
  BY <1>1 DEF Written
<1>4. faults' \in 0 .. Faults
  <2>1. faults \in 0 .. Faults /\ Faults \in Nat
    BY WechatAssumption DEF Inv, TypeOK
  <2>2. (ok \/ faults < Faults) /\ faults' = IF ok THEN faults ELSE faults + 1
    BY <1>1 DEF Written
  <2>3. QED BY <2>1, <2>2
<1>5. /\ write.value \in Binding /\ write.otherwise \in Binding /\ memory.others
      /\ pending # 0 /\ write.value.generation = pending /\ write.value.others
      /\ write.value.rows = [k \in Keys |-> "none"]
  BY <1>3, WriteFacts
<1>6. write.otherwise = memory
  BY <1>1, <1>3 DEF Inv, WInv, Writing, Marking, Recording, Renewing, Claiming, Setting,
                    Rebinding, At
<1>7. /\ memory.generation = 0 /\ pending = generations /\ file.generation < pending
      /\ \A e \in Claims : e.generation < pending
  BY <1>5 DEF Inv, WInv, Drawn
<1>8. /\ Turned("binder") /\ at'["binder"] = Idle /\ HandOf(at'["binder"]) = {}
      /\ LinedOf(at'["binder"])
  BY <1>1, <1>2, Returning
<1>9. Put("binder")'
  BY <1>2, <1>8, PutIdle
<1>10. Moves("binder")
  BY <1>1, <1>2, <1>8, MovesOnly
<1>11. Located' /\ Apart' /\ \A e \in Claims' : e \in Claims
  BY <1>2, <1>9, <1>10, PutKept, Moved DEF Moves
<1>12. Writing' /\ Orderly(queue)'
  BY <1>1, <1>3 DEF Inv, WInv, Writing, NoWrite, Orderly, IsReminder
<1>13. SenderHolds'
  <2>1. ~Left /\ ~At("sender", {"marking", "reply"})
    BY <1>7, NotBoundNotSending
  <2>2. at'["sender"] = at["sender"]
    BY <1>8 DEF Turned, Procs
  <2>3. ~Left' /\ ~At("sender", {"marking", "reply"})'
    BY <2>1, <2>2, GoneKept DEF At
  <2>4. QED BY <2>3, SenderAway
<1>14. TypeOK'
  <2>1. wire' \in [sent : [Keys -> Nat], accepted : SUBSET Keys]
    BY <1>1 DEF NothingSent, Inv, TypeOK
  <2>2. /\ memory' \in Binding /\ file' \in Binding /\ storage_error' \in BOOLEAN
        /\ pending' \in {0} \cup Generations
    BY <1>1, <1>3, <1>5 DEF Inv, TypeOK
  <2>3. QED BY <1>1, <1>3, <1>4, <1>8, <2>1, <2>2 DEF Inv, TypeOK, Turned
<1>15. CASE ok
  <2>1. /\ memory' = write.value /\ file' = write.value /\ storage_error' = FALSE
        /\ pending' = 0 /\ wire' = NothingSent /\ generations' = generations
    BY <1>1, <1>3, <1>15
  <2>2. /\ memory'.generation = pending /\ memory'.others
        /\ \A k \in Keys : memory'.rows[k] = "none"
    BY <1>5, <2>1
  <2>3. Drawn'
    <3>1. pending \in Nat /\ \A e \in Claims : e.generation \in Nat
      BY EntryFacts DEF Inv, TypeOK, Claims, Generations
    <3>2. QED BY <1>5, <1>7, <1>11, <2>1, <2>2, <3>1 DEF Drawn
  <2>4. Untouched'
    <3>1. \A e \in Claims' : e.generation # pending
      <4>1. pending \in Nat /\ \A e \in Claims : e.generation \in Nat
        BY EntryFacts DEF Inv, TypeOK, Claims, Generations
      <4>2. QED BY <1>7, <1>11, <4>1
    <3>2. \A e \in Claims' : ~Current(e)'
      BY <2>2, <3>1 DEF Current
    <3>3. QED BY <3>2 DEF Untouched
  <2>5. TrueRows(memory)' /\ TrueRows(file)' /\ AtMostOnce'
    BY <2>1, <2>2 DEF TrueRows, AtMostOnce, NothingSent, Unsent
  <2>6. OthersSafe'
    BY <2>1, <2>2 DEF OthersSafe
  <2>7. QED BY <1>11, <1>12, <1>13, <1>14, <2>3, <2>4, <2>5, <2>6 DEF Inv, WInv
<1>16. CASE ~ok
  <2>1. /\ memory' = memory /\ file' = file /\ pending' = pending /\ wire' = wire
        /\ generations' = generations
    BY <1>1, <1>3, <1>6, <1>16
  <2>2. /\ Apart' /\ Drawn' /\ Untouched' /\ TrueRows(memory)' /\ TrueRows(file)'
        /\ AtMostOnce' /\ OthersSafe'
    BY <1>2, <1>5, <1>10, <2>1, MoveKeeps
  <2>3. QED BY <1>11, <1>12, <1>13, <1>14, <2>2 DEF Inv, WInv
<1>17. QED BY <1>15, <1>16
-----------------------------------------------------------------------------
(***************************************************************************)
(* The student's requests.                                                 *)
(***************************************************************************)
LEMMA RequestPut ==
  ASSUME Inv
  PROVE  /\ "request" \in Procs /\ "request" \in Procs \ {"binder"} /\ at["request"] \in Local
         /\ LinedOf(at["request"])
         /\ at["request"].pc = "idle" => at["request"] = Idle
         /\ at["request"].pc \in {"write", "dispose"} => Hand("request") = {}
BY DEF Inv, TypeOK, WInv, Located, Put, Procs, At, Apart

LEMMA ConfigureStep == ASSUME Inv, Configure PROVE Inv'
<1>1. PICK enabled \in BOOLEAN, reminders \in BOOLEAN :
        /\ RequestAt("idle") /\ gate = "nobody" /\ memory' = memory
        /\ \/ /\ memory.generation # 0 /\ gate' = "request"
              /\ Save("request", [memory EXCEPT !.enabled = enabled, !.reminders = reminders],
                                 memory)
              /\ at' = [at EXCEPT !["request"].pc = "write", !["request"].note = "disabled"]
           \/ UNCHANGED <<write, gate, at>>
        /\ UNCHANGED <<Store, queue, pending, generations, exists, begun, faults, wire>>
  BY DEF Configure, IsBound, World, Outside, Store
<1>2. /\ "request" \in Procs /\ at["request"] = Idle /\ Reading("request")
  BY <1>1, RequestPut DEF RequestAt, Reading, At
<1>3. /\ memory \in Binding /\ at \in [Procs -> Local]
      /\ exists' \in BOOLEAN /\ begun' \subseteq Keys
      /\ wire' \in [sent : [Keys -> Nat], accepted : SUBSET Keys]
  BY <1>1 DEF Inv, TypeOK
<1>4. CASE UNCHANGED <<write, gate, at>>
  <2>1. "drain" \in Procs /\ Moves("drain") /\ Put("drain")' /\ GateKept("drain")
    BY <1>1, <1>4, StillMoves DEF GateKept
  <2>2. QED BY <1>1, <1>3, <1>4, <2>1, Turns
<1>5. CASE /\ memory.generation # 0 /\ gate' = "request"
           /\ Save("request", [memory EXCEPT !.enabled = enabled, !.reminders = reminders],
                              memory)
           /\ at' = [at EXCEPT !["request"].pc = "write", !["request"].note = "disabled"]
  <2> DEFINE v == [memory EXCEPT !.enabled = enabled, !.reminders = reminders]
  <2>1. v \in Binding /\ SameBinding(v, memory)
    BY <1>3, SameSaved
  <2>2. memory.others
    BY <1>5 DEF Inv, WInv, OthersSafe
  <2>3. Save("request", v, memory)
    BY <1>5
  <2> HIDE DEF v
  <2>4. /\ write' \in [by : Procs, value : Binding, otherwise : Binding]
        /\ write'.by = "request" /\ write'.value = v /\ write'.otherwise = memory
    BY <1>2, <1>3, <2>1, <2>3, Saving
  <2>5. Turned("request")
    <3>1. "disabled" \in Row /\ "write" \in Places
      BY DEF Row, Unsent, Places
    <3>2. QED BY <1>2, <1>3, <1>5, <3>1 DEF Turned, Local
  <2>6. /\ at'["request"].pc = "write" /\ at'["request"].entry = NoEntry
        /\ at'["request"].rest = <<>> /\ at'["request"] \in Local
    <3>1. at'["request"].pc = "write"
      BY <1>2, <1>3, <1>5 DEF Local
    <3>2. at'["request"].entry = at["request"].entry /\ at'["request"].rest = at["request"].rest
      BY <1>2, <1>3, <1>5 DEF Local
    <3>3. QED BY <1>2, <2>5, <3>1, <3>2, IdleFacts DEF Turned
  <2>7. HandOf(at'["request"]) = {} /\ LinedOf(at'["request"])
    BY <2>6, HandFacts, IdleFacts
  <2>8. Moves("request")
    BY <1>1, <1>2, <2>5, <2>7, MovesOnly
  <2>9. Put("request")'
    <3>1. Hand("request")' = {}
      BY <1>2, <2>7, HandPrimed
    <3>2. QED BY <2>6, <3>1 DEF Put, Noticing, At
  <2>10. Writing'
    <3>1. Setting("request")'
      BY <1>1, <1>5, <2>1, <2>4, <2>6 DEF Setting, At, SameBinding
    <3>2. QED BY <1>1, <2>2, <2>4, <3>1 DEF Writing
  <2>11. GateKept("request")
    BY <1>1, <1>5 DEF GateKept
  <2>12. QED BY <1>1, <1>2, <1>3, <2>4, <2>8, <2>9, <2>10, <2>11, Begins
<1>6. QED BY <1>1, <1>4, <1>5

\* The first of the reminders withdrawn, and those behind it.
LEMMA FirstInLine ==
  ASSUME NEW s \in Seq(Entry), s # <<>>, \A i, j \in DOMAIN s : s[i] = s[j] => i = j,
         \A e \in Range(s) : IsReminder(e), NEW note \in Row
  PROVE  LET k == Waiting(Head(s), note, Tail(s)) IN
         /\ k \in Local /\ LinedOf(k) /\ k.pc = "note" /\ k.note = note
         /\ \A e \in {k.entry} \cup Range(k.rest) : IsReminder(e)
         /\ \A e \in HandOf(k) : e \in Range(s)
<1> DEFINE l == [Idle EXCEPT !.rest = s]
<1>1. l \in Local
  BY IdleFacts DEF Local
<1>2. l.rest = s /\ l.entry = NoEntry
  BY IdleFacts DEF Local
<1> HIDE DEF l
<1>3. LinedOf(l)
  BY <1>2, IdleFacts DEF LinedOf
<1>4. \A e \in HandOf(l) : e \in Range(s)
  BY <1>2, IdleFacts DEF HandOf
<1>5. LET k == Waiting(Head(l.rest), note, Tail(l.rest)) IN
         /\ k \in Local /\ LinedOf(k) /\ HandOf(k) \subseteq HandOf(l)
         /\ k.pc = "note" /\ k.note = note
         /\ \A e \in {k.entry} \cup Range(k.rest) : IsReminder(e)
  <2>1. l.rest # <<>> /\ \A e \in Range(l.rest) : IsReminder(e)
    BY <1>2
  <2>2. QED BY <1>1, <1>3, <2>1, NextInLine
<1>6. QED BY <1>2, <1>4, <1>5

LEMMA ConfiguredStep == ASSUME Inv, Configured PROVE Inv'
<1>1. PICK ok \in BOOLEAN, reminding \in Selections(queue, IsReminder),
           ordinary \in Selections(queue, IsOrdinary) :
        LET enabled == write.value.enabled
            reminders == write.value.reminders
            withdrawn == IF enabled /\ reminders THEN <<>> ELSE reminding
        IN
        /\ RequestAt("write") /\ Written("request", ok) /\ gate' = "nobody"
        /\ IF ok
           THEN /\ queue' = IF ~enabled THEN <<>>
                            ELSE IF ~reminders THEN ordinary
                            ELSE queue
                /\ IF withdrawn = <<>> THEN Return("request")
                   ELSE Noting("request", Head(withdrawn), "disabled", Tail(withdrawn))
           ELSE Return("request") /\ UNCHANGED queue
        /\ UNCHANGED <<pending, generations, exists, begun, wire>>
  BY DEF Configured, Outside
<1>2. /\ "request" \in Procs /\ "request" \in Procs \ {"binder"}
      /\ at["request"].pc = "write" /\ Hand("request") = {}
  BY <1>1, RequestPut DEF RequestAt
<1>3. /\ queue \in Seq(Entry) /\ Len(queue) <= Room /\ Len(queue) \in Nat /\ Orderly(queue)
  BY SeqFacts DEF Inv, TypeOK, WInv
<1>4. GateKept("request")
  <2>1. write # NoWrite /\ write.by = "request" /\ At("request", {"write"})
    BY <1>1, <1>2 DEF Written, At
  <2>2. gate = "request"
    BY <2>1, Writer DEF Setting
  <2>3. QED BY <1>1, <2>2 DEF GateKept
<1>5. /\ reminding \in Seq(Entry)
      /\ \A e \in Range(reminding) : e \in Range(queue) /\ IsReminder(e)
      /\ \A i, j \in DOMAIN reminding : reminding[i] = reminding[j] => i = j
  BY <1>3, Withdrawn
<1>6. /\ ordinary \in Seq(Entry) /\ Len(ordinary) <= Len(queue) /\ Orderly(ordinary)
      /\ \A e \in Range(ordinary) : ~IsReminder(e)
  BY <1>3, LeftOrdinary
<1>7. PICK none \in Seq(Entry) : none = <<>> /\ Len(none) = 0
  <2>1. <<>> \in Seq(Entry) /\ Len(<<>>) = 0
    OBVIOUS
  <2> DEFINE n == <<>>
  <2>2. n \in Seq(Entry) /\ Len(n) = 0 /\ n = <<>>
    BY <2>1
  <2> HIDE DEF n
  <2>3. QED BY <2>2
<1>8. Range(none) = {} /\ Orderly(none) /\ Len(none) <= Room
  <2>1. DOMAIN none = {}
    <3>1. DOMAIN none = 1 .. Len(none)
      BY SeqFacts
    <3>2. QED BY <1>7, <3>1
  <2>2. QED BY <1>7, <2>1, WechatAssumption DEF Range, Orderly
<1>9. /\ queue' \in Seq(Entry) /\ Len(queue') <= Room /\ Orderly(queue')
      /\ \A e \in Queued' : e \in Queued
      /\ queue' = queue \/ \A e \in Queued' : FALSE
  <2>1. queue' \in {queue, none, ordinary}
    BY <1>1, <1>7
  <2>2. Queued' = {e \in Range(queue') : IsReminder(e)}
    BY DEF Queued, IsReminder
  <2>3. CASE queue' = queue
    BY <1>3, <2>2, <2>3 DEF Queued
  <2>4. CASE queue' = none
    BY <1>7, <1>8, <2>2, <2>4
  <2>5. CASE queue' = ordinary
    <3>1. Len(ordinary) <= Room
      <4>1. Len(ordinary) \in Nat /\ Room \in Nat
        BY <1>6, SeqFacts, WechatAssumption
      <4>2. QED BY <1>3, <1>6, <4>1
    <3>2. QED BY <1>6, <2>2, <2>5, <3>1
  <2>6. QED BY <2>1, <2>3, <2>4, <2>5
<1>10. CASE Return("request")
  <2>1. /\ Turned("request") /\ at'["request"] = Idle /\ HandOf(at'["request"]) = {}
        /\ LinedOf(at'["request"])
    BY <1>2, <1>10, Returning
  <2>2. Put("request")'
    BY <1>2, <2>1, PutIdle
  <2>3. Moves("request")
    BY <1>2, <1>9, <2>1 DEF Moves, Turned
  <2>4. QED BY <1>1, <1>2, <1>4, <2>2, <2>3, Ends
<1>11. CASE ~Return("request")
  <2>1. /\ ok /\ reminding # <<>> /\ queue' \in {none, ordinary}
        /\ Noting("request", Head(reminding), "disabled", Tail(reminding))
    BY <1>1, <1>7, <1>11
  <2>2. "disabled" \in Row
    BY DEF Row, Unsent
  <2> DEFINE k == Waiting(Head(reminding), "disabled", Tail(reminding))
  <2>3. /\ k \in Local /\ LinedOf(k) /\ k.pc = "note" /\ k.note = "disabled"
        /\ \A e \in {k.entry} \cup Range(k.rest) : IsReminder(e)
        /\ \A e \in HandOf(k) : e \in Range(reminding)
    BY <1>5, <2>1, <2>2, FirstInLine
  <2>4. at' = [at EXCEPT !["request"] = k]
    BY <2>1 DEF Noting, Waiting
  <2> HIDE DEF k
  <2>5. Turned("request") /\ at'["request"] = k
    BY <1>2, <2>3, <2>4, Putting
  <2>6. \A e \in Queued' : FALSE
    <3>1. Queued' = {e \in Range(queue') : IsReminder(e)}
      BY DEF Queued, IsReminder
    <3>2. QED BY <1>6, <1>8, <2>1, <3>1
  <2>7. \A e \in HandOf(at'["request"]) : e \in Queued
    BY <1>5, <2>3, <2>5 DEF Queued
  <2>8. Moves("request")
    BY <1>2, <1>9, <2>3, <2>5, <2>6, <2>7 DEF Moves, Turned
  <2>9. Put("request")'
    <3>1. Noticing("request")'
      BY <2>3, <2>5 DEF Noticing, At, IsReminder, Unsent
    <3>2. QED BY <2>3, <2>5, <3>1 DEF Put, At
  <2>10. QED BY <1>1, <1>2, <1>4, <2>8, <2>9, Ends
<1>12. QED BY <1>10, <1>11
-----------------------------------------------------------------------------
LEMMA UnbindDoneStep == ASSUME Inv, UnbindDone PROVE Inv'
<1>1. PICK ok \in BOOLEAN :
        /\ RequestAt("write") /\ at["request"].note = "none" /\ Written("request", ok)
        /\ Return("request") /\ LetGo("request")
        /\ UNCHANGED <<queue, pending, generations, exists, begun, wire>>
  BY DEF UnbindDone, Outside
<1>2. /\ "request" \in Procs /\ "request" \in Procs \ {"binder"}
  BY RequestPut
<1>3. /\ Turned("request") /\ at'["request"] = Idle /\ HandOf(at'["request"]) = {}
      /\ LinedOf(at'["request"]) /\ Put("request")' /\ GateKept("request")
  BY <1>1, <1>2, Returning, PutIdle, LettingGo
<1>4. Moves("request")
  BY <1>1, <1>2, <1>3, MovesOnly
<1>5. QED BY <1>1, <1>2, <1>3, <1>4, Ends

LEMMA DisposeStep == ASSUME Inv, Dispose PROVE Inv'
<1>1. /\ RequestAt("idle") /\ exists' = FALSE /\ Goto("request", "dispose")
      /\ UNCHANGED <<Store, write, gate, queue, pending, generations, begun, faults, wire>>
  BY DEF Dispose
<1>2. /\ "request" \in Procs /\ at["request"] = Idle /\ Reading("request")
      /\ exists' \in BOOLEAN /\ begun' \subseteq Keys /\ GateKept("request")
  BY <1>1, RequestPut DEF RequestAt, Reading, At, GateKept, Inv, TypeOK
<1>3. /\ Turned("request") /\ at'["request"].pc = "dispose"
      /\ at'["request"].rest = <<>> /\ HandOf(at'["request"]) = {}
      /\ LinedOf(at'["request"])
  <2>1. "dispose" \in Places
    BY DEF Places
  <2>2. Hand("request") = {}
    BY <1>2, IdleFacts DEF Hand
  <2>3. QED BY <1>1, <1>2, <2>1, <2>2, Going, IdleFacts
<1>4. Moves("request")
  BY <1>1, <1>2, <1>3, MovesOnly
<1>5. Put("request")'
  <2>1. Hand("request")' = {}
    BY <1>2, <1>3, HandPrimed
  <2>2. QED BY <1>3, <2>1 DEF Put, Noticing, At
<1>6. QED BY <1>1, <1>2, <1>4, <1>5, Turns

\* Who may have something to note.
LEMMA NotingPut ==
  ASSUME Inv, NEW p \in Procs, At(p, {"note", "noting"})
  PROVE  /\ at[p] \in Local /\ LinedOf(at[p]) /\ p \in Procs \ {"binder"}
         /\ IsReminder(at[p].entry) /\ at[p].entry \in Entry /\ at[p].entry.key \in Keys
         /\ at[p].note \in Row
         /\ At(p, {"note"}) => at[p].note \in Unsent /\ at[p].note \notin Answers
         /\ At(p, {"note"}) => Reading(p) /\ (p = "sender" => ~Left)
<1>1. /\ at[p] \in Local /\ LinedOf(at[p]) /\ Put(p) /\ Noticing(p)
  BY DEF Inv, TypeOK, WInv, Apart, Located, Put
<1>2. /\ IsReminder(at[p].entry)
      /\ at[p].note \in Unsent
           \/ (p = "sender" /\ At(p, {"noting"}) /\ at[p].note \in Answers)
  BY <1>1 DEF Noticing
<1>3. p # "binder"
  BY <1>1 DEF Put, At
<1>4. at[p].entry \in Entry /\ at[p].entry.key \in Keys
  BY <1>2, InHand, EntryFacts
<1>5. ASSUME At(p, {"note"}) PROVE at[p].note \in Unsent /\ at[p].note \notin Answers
  <2>1. at[p].note \in Unsent
    BY <1>2, <1>5 DEF At
  <2>2. QED BY <2>1, WechatAssumption DEF Unsent
<1>6. ASSUME At(p, {"note"}) PROVE Reading(p) /\ (p = "sender" => ~Left)
  BY <1>6 DEF Reading, At, Left
<1>7. QED BY <1>1, <1>2, <1>3, <1>4, <1>5, <1>6 DEF Local

LEMMA NoteStep == ASSUME Inv, NEW p \in Procs, Note(p) PROVE Inv'
<1> DEFINE e == at[p].entry
           b == WithRow(memory, at[p].entry.key, at[p].note)
<1>1. /\ at[p].pc = "note" /\ write = NoWrite
      /\ \/ Current(e) /\ Save(p, b, b) /\ Goto(p, "noting") /\ UNCHANGED gate
         \/ UNCHANGED write /\ Noted(p) /\ LetGoAfterNote(p)
      /\ UNCHANGED <<Store, queue, pending, generations, exists, begun, faults, wire>>
      /\ memory' = memory
  BY DEF Note, LockFree, World, Outside, Store
<1>2. At(p, {"note", "noting"}) /\ At(p, {"note"})
  BY <1>1 DEF At
<1>3. /\ LinedOf(at[p]) /\ p \in Procs \ {"binder"}
      /\ IsReminder(e) /\ e \in Entry /\ e.key \in Keys /\ at[p].note \in Unsent
      /\ at[p].note \notin Answers /\ Reading(p) /\ (p = "sender" => ~Left)
      /\ at[p] \in Local /\ at[p].note \in Row
  BY <1>2, NotingPut
<1>4. /\ exists' \in BOOLEAN /\ begun' \subseteq Keys /\ memory \in Binding
      /\ wire' \in [sent : [Keys -> Nat], accepted : SUBSET Keys]
  BY <1>1 DEF Inv, TypeOK
<1>5. CASE Current(e) /\ Save(p, b, b) /\ Goto(p, "noting") /\ UNCHANGED gate
  <2>1. b \in Binding
    BY <1>3, <1>4, RowSet
  <2>2. memory.generation # 0 /\ memory.others
    <3>1. memory.generation # 0
      BY <1>3, <1>5, EntryFacts DEF Current, Generations
    <3>2. QED BY <3>1 DEF Inv, WInv, OthersSafe
  <2>3. /\ write' \in [by : Procs, value : Binding, otherwise : Binding]
        /\ write'.by = p /\ write'.value = b /\ write'.otherwise = b
    <3> HIDE DEF b
    <3>1. QED BY <1>5, <2>1, Saving
  <2>4. /\ Turned(p) /\ at'[p].pc = "noting" /\ at'[p].entry = e
        /\ at'[p].note = at[p].note /\ at'[p].rest = at[p].rest
        /\ HandOf(at'[p]) = Hand(p) /\ LinedOf(at'[p])
    <3>1. "noting" \in Places
      BY DEF Places
    <3>2. QED BY <1>5, <3>1, Going
  <2>5. Moves(p)
    BY <1>1, <1>3, <2>4, MovesOnly
  <2>6. Put(p)'
    <3>1. Put(p) /\ Noticing(p)
      BY DEF Inv, WInv, Located, Put
    <3>2. Noticing(p)'
      BY <1>2, <1>3, <2>4, <3>1 DEF Noticing, At, IsReminder
    <3>3. Hand(p)' = Hand(p)
      BY <2>4, HandPrimed
    <3>4. QED BY <1>2, <2>4, <3>1, <3>2, <3>3 DEF Put, At
  <2>7. Writing'
    <3>1. Recording(p)'
      BY <1>1, <1>3, <1>5, <2>3, <2>4 DEF Recording, At, WithRow, Current, Unsent
    <3>2. QED BY <1>1, <2>2, <2>3, <3>1 DEF Writing
  <2>8. p = "sender" => SenderHolds'
    BY <1>3, <2>4 DEF SenderHolds, At, Left
  <2>9. GateKept(p)
    BY <1>5 DEF GateKept
  <2>10. QED BY <1>1, <1>3, <1>4, <2>3, <2>5, <2>6, <2>7, <2>8, <2>9, Begins
<1>6. CASE UNCHANGED write /\ Noted(p) /\ LetGoAfterNote(p)
  <2>1. /\ Turned(p) /\ LinedOf(at'[p]) /\ Put(p)'
        /\ \A d \in HandOf(at'[p]) : d \in Hand(p)
        /\ p = "sender" => ~Left' /\ HandOf(at'[p]) = {} /\ ~At("sender", {"marking", "reply"})'
    BY <1>2, <1>3, <1>6, Noteds
  <2>2. Moves(p)
    BY <1>1, <1>3, <2>1, MovesOnly
  <2>3. GateKept(p)
    <3>1. UNCHANGED gate \/ LetGo(p)
      BY <1>6 DEF LetGoAfterNote
    <3>2. QED BY <3>1, LettingGo DEF GateKept
  <2>4. p = "sender" => SenderHolds'
    BY <2>1, SenderAway
  <2>5. QED BY <1>1, <1>3, <1>4, <1>6, <2>1, <2>2, <2>3, <2>4, Turns
<1>7. QED BY <1>1, <1>5, <1>6

LEMMA NoteWrittenStep == ASSUME Inv, NEW p \in Procs, NoteWritten(p) PROVE Inv'
<1>1. PICK ok \in BOOLEAN :
        /\ at[p].pc = "noting" /\ Written(p, ok) /\ Noted(p) /\ LetGoAfterNote(p)
        /\ UNCHANGED <<queue, pending, generations, exists, begun, wire>>
  BY DEF NoteWritten, Outside
<1>2. At(p, {"note", "noting"}) /\ At(p, {"noting"})
  BY <1>1 DEF At
<1>3. LinedOf(at[p]) /\ p \in Procs \ {"binder"} /\ at[p].entry \in Entry
  BY <1>2, NotingPut
<1>4. /\ Turned(p) /\ LinedOf(at'[p]) /\ Put(p)'
      /\ \A e \in HandOf(at'[p]) : e \in Hand(p)
      /\ p = "sender" =>
           \/ ~Left' /\ HandOf(at'[p]) = {} /\ ~At("sender", {"marking", "reply"})'
           \/ /\ Left /\ Left' /\ at'[p].entry = at[p].entry
              /\ at'[p].pc = "pause" /\ at[p].note = "session_expired"
  BY <1>1, <1>2, Noteds
<1>5. Moves(p)
  BY <1>1, <1>3, <1>4, MovesOnly
<1>6. GateKept(p)
  <2>1. UNCHANGED gate \/ LetGo(p)
    BY <1>1 DEF LetGoAfterNote
  <2>2. QED BY <2>1, LettingGo DEF GateKept
<1>7. ASSUME p = "sender" PROVE SenderHolds'
  <2>1. CASE ~Left' /\ ~At("sender", {"marking", "reply"})'
    BY <2>1, SenderAway
  <2>2. CASE /\ Left /\ Left' /\ at'[p].entry = at[p].entry
             /\ at'[p].pc = "pause" /\ at[p].note = "session_expired"
    <3>1. gate' = gate
      BY <1>1, <2>2 DEF LetGoAfterNote
    <3>2. gate = "sender" /\ Current(Sending)
      BY <2>2 DEF Inv, WInv, SenderHolds
    <3>3. Sending' = Sending /\ ~At("sender", {"marking"})' /\ ~At("sender", {"reply"})'
      BY <1>7, <2>2 DEF Sending, At
    <3>4. memory'.generation = memory.generation
      BY <1>1, <1>3, WrittenStore DEF Safe
    <3>5. QED BY <3>1, <3>2, <3>3, <3>4 DEF SenderHolds, Current
  <2>3. QED BY <1>4, <1>7, <2>1, <2>2
<1>8. p = "reminder" => ~At(p, {"write"})
  BY <1>1 DEF At
<1>9. QED BY <1>1, <1>3, <1>4, <1>5, <1>6, <1>7, <1>8, Ends

\* Another student's login, and a lesson that begins: no coroutine moves.
LEMMA LoginStep == ASSUME Inv, Login PROVE Inv'
<1>1. /\ exists' = TRUE
      /\ UNCHANGED <<Store, write, gate, queue, at, pending, generations, begun, faults, wire>>
  BY DEF Login
<1>2. "drain" \in Procs /\ Moves("drain") /\ Put("drain")' /\ GateKept("drain")
  BY <1>1, StillMoves DEF GateKept
<1>3. exists' \in BOOLEAN /\ begun' \subseteq Keys
  BY <1>1 DEF Inv, TypeOK
<1>4. QED BY <1>1, <1>2, <1>3, Turns

LEMMA BeginsStep == ASSUME Inv, LessonBegins PROVE Inv'
<1>1. PICK k \in Keys :
        /\ begun' = begun \cup {k}
        /\ UNCHANGED <<Store, write, gate, queue, at, pending, generations, exists, faults,
                       wire>>
  BY DEF LessonBegins
<1>2. "drain" \in Procs /\ Moves("drain") /\ Put("drain")' /\ GateKept("drain")
  BY <1>1, StillMoves DEF GateKept
<1>3. exists' \in BOOLEAN /\ begun' \subseteq Keys
  BY <1>1 DEF Inv, TypeOK
<1>4. QED BY <1>1, <1>2, <1>3, Turns
-----------------------------------------------------------------------------
(***************************************************************************)
(* The hour after a lost session is over, for all copies of the binding.   *)
(***************************************************************************)
Over(b) == [b EXCEPT !.paused = FALSE]

LEMMA OverFacts ==
  ASSUME NEW b \in Binding
  PROVE  /\ Over(b) \in Binding /\ Over(b).generation = b.generation
         /\ Over(b).rows = b.rows /\ Over(b).context = b.context /\ Over(b).paused = FALSE
         /\ Over(b).enabled = b.enabled /\ Over(b).reminders = b.reminders
         /\ Over(b).others = b.others
<1>1. Over(b) \in Binding /\ Over(b).generation = b.generation /\ Over(b).rows = b.rows
  BY DEF Over, Binding
<1>2. Over(b).context = b.context
  BY DEF Over, Binding
<1>3. Over(b).paused = FALSE
  BY DEF Over, Binding
<1>4. Over(b).enabled = b.enabled
  BY DEF Over, Binding
<1>5. Over(b).reminders = b.reminders
  BY DEF Over, Binding
<1>6. Over(b).others = b.others
  BY DEF Over, Binding
<1>7. QED BY <1>1, <1>2, <1>3, <1>4, <1>5, <1>6

LEMMA OverRow ==
  ASSUME NEW b \in Binding, NEW k \in Keys, NEW row \in Row
  PROVE  Over(WithRow(b, k, row)) = WithRow(Over(b), k, row)
BY DEF Over, WithRow, Binding

LEMMA PauseEndsStep == ASSUME Inv, PauseEnds PROVE Inv'
<1>1. /\ memory' = Over(memory) /\ file' = Over(file)
      /\ write' = IF write = NoWrite THEN NoWrite
                  ELSE [write EXCEPT !.value = Over(@), !.otherwise = Over(@)]
      /\ UNCHANGED <<storage_error, gate, queue, at, pending, generations, exists, begun,
                     faults, wire>>
  BY DEF PauseEnds, World, Outside, Over
<1>2. memory \in Binding /\ file \in Binding
  BY DEF Inv, TypeOK
<1>3. /\ memory' \in Binding /\ memory'.generation = memory.generation
      /\ memory'.rows = memory.rows /\ memory'.others = memory.others
      /\ memory'.enabled = memory.enabled /\ memory'.reminders = memory.reminders
      /\ file' \in Binding /\ file'.generation = file.generation
      /\ file'.rows = file.rows /\ file'.others = file.others
  BY <1>1, <1>2, OverFacts
<1>4. /\ "drain" \in Procs /\ Moves("drain") /\ Put("drain")'
      /\ Claims' = Claims /\ Gone' = Gone /\ Left' = Left
  BY <1>1, StillMoves
<1>5. Apart' /\ Located'
  BY <1>4, Moved, PutKept DEF Moves
<1>6. \A e : Current(e)' <=> Current(e)
  BY <1>3 DEF Current
<1>7. /\ write # NoWrite => write \in [by : Procs, value : Binding, otherwise : Binding]
      /\ write # NoWrite =>
           /\ write' \in [by : Procs, value : Binding, otherwise : Binding]
           /\ write'.by = write.by /\ write'.value = Over(write.value)
           /\ write'.otherwise = Over(write.otherwise)
      /\ write = NoWrite => write' = NoWrite
  <2>1. write # NoWrite => write \in [by : Procs, value : Binding, otherwise : Binding]
    BY DEF Inv, TypeOK
  <2>2. ASSUME write # NoWrite
        PROVE  /\ write' \in [by : Procs, value : Binding, otherwise : Binding]
               /\ write'.by = write.by /\ write'.value = Over(write.value)
               /\ write'.otherwise = Over(write.otherwise)
    <3>1. write' = [write EXCEPT !.value = Over(@), !.otherwise = Over(@)]
      BY <1>1, <2>2
    <3>2. Over(write.value) \in Binding /\ Over(write.otherwise) \in Binding
      BY <2>1, <2>2, OverFacts
    <3>3. QED BY <2>1, <2>2, <3>1, <3>2
  <2>3. QED BY <1>1, <2>1, <2>2
<1>8. Writing'
  <2> SUFFICES ASSUME write # NoWrite PROVE Writing'
    BY <1>7 DEF Writing, NoWrite
  <2>1. PICK w \in Procs : w = write.by
    BY <1>7
  <2>2. /\ memory.others
        /\ Marking(w) \/ Recording(w) \/ Renewing(w) \/ Claiming(w) \/ Setting(w) \/ Rebinding(w)
    BY <2>1 DEF Inv, WInv, Writing
  <2>3. /\ write.value \in Binding /\ write.otherwise \in Binding
        /\ write'.by = w /\ write'.value = Over(write.value)
        /\ write'.otherwise = Over(write.otherwise)
    BY <1>7, <2>1
  <2>4. /\ write'.value.generation = write.value.generation
        /\ write'.value.rows = write.value.rows
        /\ write'.value.others = write.value.others
        /\ write'.value.enabled = write.value.enabled
        /\ write'.value.reminders = write.value.reminders
        /\ write'.otherwise.generation = write.otherwise.generation
        /\ write'.otherwise.rows = write.otherwise.rows
        /\ write'.otherwise.others = write.otherwise.others
    BY <2>3, OverFacts
  <2>5. ASSUME NEW k \in Keys, NEW row \in Row
        PROVE  WithRow(memory', k, row) = Over(WithRow(memory, k, row))
    BY <1>1, <1>2, OverRow
  <2>6. CASE Marking(w)
    <3> DEFINE k == at[w].entry.key
    <3>1. k \in Keys /\ w = "sender" /\ At(w, {"marking"})
      <4>1. w = "sender" /\ At(w, {"marking"}) /\ at["sender"].pc = "marking"
        BY <2>6 DEF Marking, At
      <4>2. Sending \in Entry /\ IsReminder(Sending)
        BY <4>1, SenderPut DEF At
      <4>3. QED BY <4>1, <4>2, EntryFacts DEF Sending
    <3>2. "sending" \in Row /\ "storage_blocked" \in Row
      BY DEF Row, Unsent
    <3>3. /\ write'.value = WithRow(memory', k, "sending")
          /\ write'.otherwise = WithRow(memory', k, "storage_blocked")
      BY <2>3, <2>5, <2>6, <3>1, <3>2 DEF Marking
    <3>4. Marking(w)'
      BY <1>1, <3>1, <3>3 DEF Marking, At, WithRow
    <3>5. QED BY <1>3, <2>2, <2>3, <3>4 DEF Writing
  <2>7. CASE Recording(w)
    <3> DEFINE k == at[w].entry.key
    <3>1. At(w, {"note", "noting"})
      BY <2>7 DEF Recording, At
    <3>2. k \in Keys /\ at[w].note \in Row
      BY <3>1, NotingPut
    <3>3. /\ write'.value = WithRow(memory', k, at[w].note)
          /\ write'.otherwise = write'.value
      BY <2>3, <2>5, <2>7, <3>2 DEF Recording
    <3>4. Recording(w)'
      BY <1>1, <1>6, <2>7, <3>3 DEF Recording, At, WithRow, Current
    <3>5. QED BY <1>3, <2>2, <2>3, <3>4 DEF Writing
  <2>8. CASE Renewing(w)
    <3>1. Renewing(w)'
      BY <1>1, <1>3, <2>3, <2>4, <2>8 DEF Renewing, At, SameBinding
    <3>2. QED BY <1>3, <2>2, <2>3, <3>1 DEF Writing
  <2>9. CASE Claiming(w)
    <3> DEFINE k == at[w].entry.key
    <3>1. k \in Keys /\ "queued" \in Row
      BY <2>9, ReminderPut, EntryFacts DEF Claiming, At, Row
    <3>2. /\ write'.value = WithRow(memory', k, "queued") /\ write'.otherwise = memory'
      BY <1>1, <2>3, <2>5, <2>9, <3>1 DEF Claiming
    <3>3. Claiming(w)'
      BY <1>1, <1>3, <1>6, <2>9, <3>2 DEF Claiming, At, WithRow, Current
    <3>4. QED BY <1>3, <2>2, <2>3, <3>3 DEF Writing
  <2>10. CASE Setting(w)
    <3>1. Setting(w)'
      BY <1>1, <1>3, <2>4, <2>10 DEF Setting, At, SameBinding
    <3>2. QED BY <1>3, <2>2, <2>3, <3>1 DEF Writing
  <2>11. CASE Rebinding(w)
    <3>1. Rebinding(w)'
      BY <1>1, <2>3, <2>4, <2>11 DEF Rebinding, At
    <3>2. QED BY <1>3, <2>2, <2>3, <3>1 DEF Writing
  <2>12. QED BY <2>2, <2>6, <2>7, <2>8, <2>9, <2>10, <2>11
<1>9. Drawn'
  BY <1>1, <1>3, <1>4 DEF Inv, WInv, Drawn
<1>10. Untouched'
  BY <1>1, <1>3, <1>4, <1>6 DEF Inv, WInv, Untouched, At, Current
<1>11. TrueRows(memory)' /\ TrueRows(file)' /\ AtMostOnce' /\ OthersSafe'
  BY <1>1, <1>3 DEF Inv, WInv, TrueRows, AtMostOnce, OthersSafe
<1>12. SenderHolds'
  <2>1. IsReminder(Sending)' = IsReminder(Sending) /\ Sending' = Sending
    BY <1>1 DEF Sending, IsReminder
  <2>2. Current(Sending)' = Current(Sending)
    BY <1>3, <2>1 DEF Current
  <2>3. QED BY <1>1, <1>3, <1>4, <2>1, <2>2 DEF Inv, WInv, SenderHolds, At
<1>13. Orderly(queue)'
  BY <1>1 DEF Inv, WInv, Orderly, IsReminder
<1>14. TypeOK'
  BY <1>1, <1>3, <1>7 DEF Inv, TypeOK
<1>15. QED BY <1>5, <1>8, <1>9, <1>10, <1>11, <1>12, <1>13, <1>14 DEF Inv, WInv
-----------------------------------------------------------------------------
LEMMA NoEntries == <<>> \in Seq(Entry) /\ Len(<<>>) = 0 /\ Range(<<>>) = {}
<1>1. <<>> \in Seq(Entry) /\ Len(<<>>) = 0
  OBVIOUS
<1>2. QED BY <1>1 DEF Range

(***************************************************************************)
(* The binding is given up: what waits and the two workers go.             *)
(***************************************************************************)
LEMMA UnboundFacts ==
  ASSUME NEW b, b.others \in BOOLEAN
  PROVE  /\ Unbound(b) \in Binding /\ Unbound(b).generation = 0
         /\ Unbound(b).rows = [k \in Keys |-> "none"] /\ Unbound(b).others = b.others
         /\ TrueRows(Unbound(b))
<1>1. "none" \in Row /\ "none" \notin Unsent /\ "none" # "accepted"
  BY DEF Row, Unsent
<1>2. /\ Unbound(b).generation = 0
      /\ Unbound(b).rows = [k \in Keys |-> "none"] /\ Unbound(b).others = b.others
  BY DEF Unbound
<1>3. Unbound(b) \in Binding
  <2>1. [k \in Keys |-> "none"] \in [Keys -> Row]
    BY <1>1
  <2>2. QED BY <2>1 DEF Unbound, Binding
<1>4. TrueRows(Unbound(b))
  BY <1>1, <1>2 DEF TrueRows
<1>5. QED BY <1>2, <1>3, <1>4

LEMMA UnbindingStep ==
  ASSUME Inv, at["request"].pc \in {"idle", "dispose"}, Unbinding, exists' \in BOOLEAN
  PROVE  Inv'
<1> DEFINE cancelled == [at EXCEPT !["sender"] = Idle, !["poller"] = Idle]
           asking == [Idle EXCEPT !.pc = "write"]
           u == Unbound(memory)
<1>1. /\ gate = "nobody" /\ write = NoWrite /\ pending' = 0 /\ queue' = <<>> /\ memory' = u
      /\ \/ /\ memory.generation # 0 /\ Save("request", u, u) /\ gate' = "request"
            /\ at' = [cancelled EXCEPT !["request"] = asking]
         \/ at' = [cancelled EXCEPT !["request"] = Idle] /\ UNCHANGED <<write, gate>>
      /\ UNCHANGED <<file, storage_error, generations, begun, faults, wire>>
  BY DEF Unbinding, LockFree, IsBound
<1>2. asking \in Local /\ asking.pc = "write" /\ asking.entry = NoEntry /\ asking.rest = <<>>
  <2>1. Idle \in Local /\ Idle.entry = NoEntry /\ Idle.rest = <<>>
    BY IdleFacts
  <2>2. asking \in Local
    BY <2>1 DEF Local, Places
  <2>3. QED BY <2>1, <2>2 DEF Local
<1>3. HandOf(asking) = {} /\ LinedOf(asking) /\ ~IsReminder(NoEntry)
  BY <1>2, HandFacts, IdleFacts
<1>4. at \in [Procs -> Local] /\ memory \in Binding /\ Idle \in Local
  BY IdleFacts DEF Inv, TypeOK
<1>5. /\ u \in Binding /\ u.generation = 0 /\ u.rows = [k \in Keys |-> "none"]
      /\ u.others = memory.others
  BY <1>4, UnboundFacts DEF Binding
<1>6. TrueRows(u)
  <2>1. memory.others \in BOOLEAN
    BY <1>4 DEF Binding
  <2>2. QED BY <2>1, UnboundFacts
<1> HIDE DEF asking, u
<1>7. /\ at' \in [Procs -> Local]
      /\ at'["sender"] = Idle /\ at'["poller"] = Idle
      /\ \A q \in Procs \ {"sender", "poller", "request"} : at'[q] = at[q]
      /\ \/ /\ memory.generation # 0 /\ Save("request", u, u) /\ gate' = "request"
            /\ at'["request"] = asking
         \/ at'["request"] = Idle /\ UNCHANGED <<write, gate>>
  BY <1>1, <1>2, <1>4 DEF Procs
<1>8. \A q \in Procs : LinedOf(at'[q]) /\ HandOf(at'[q]) \subseteq Hand(q)
  <2>1. \A q \in Procs : LinedOf(at[q]) /\ HandOf(at[q]) = Hand(q)
    BY DEF Inv, WInv, Apart, Hand
  <2>2. LinedOf(Idle) /\ HandOf(Idle) = {}
    BY IdleFacts
  <2>3. QED BY <1>3, <1>7, <2>1, <2>2 DEF Procs
<1>9. Queued' = {}
  BY <1>1, NoEntries DEF Queued
<1>10. Apart'
  <2>1. \A q, r \in Procs : \A e \in Hand(q) : e \in Hand(r) => q = r
    BY DEF Inv, WInv, Apart
  <2>2. \A q, r \in Procs : \A e \in Hand(q)' : e \in Hand(r)' => q = r
    BY <1>8, <2>1, HandPrimed
  <2>3. \A q \in Procs : LinedOf(at[q])'
    BY <1>8 DEF LinedOf, IsReminder
  <2>4. QED BY <1>9, <2>2, <2>3 DEF Apart
<1>11. \A e \in Claims' : e \in Claims /\ ~Current(e)'
  <2>1. \A e \in Claims' : e \in Claims
    BY <1>8, <1>9, HandPrimed DEF Claims
  <2>2. \A e \in Claims : e.generation # 0
    BY EntryFacts DEF Claims, Generations
  <2>3. QED BY <1>1, <1>5, <2>1, <2>2 DEF Current
<1>12. Located'
  <2>1. \A q \in {"sender", "poller"} : Put(q)'
    BY <1>7, PutIdle DEF Procs
  <2>2. Put("request")'
    <3>1. CASE at'["request"] = Idle
      BY <3>1, PutIdle DEF Procs
    <3>2. CASE at'["request"] = asking
      <4>1. Hand("request")' = {}
        BY <1>3, <3>2, HandPrimed DEF Procs
      <4>2. QED BY <1>2, <3>2, <4>1 DEF Put, Noticing, At
    <3>3. QED BY <1>7, <3>1, <3>2
  <2>3. ASSUME NEW q \in Procs \ {"sender", "poller", "request"} PROVE Put(q)'
    <3>1. at'[q] = at[q] /\ Put(q)
      BY <1>7 DEF Inv, WInv, Located
    <3>2. Hand(q)' = Hand(q)
      BY <3>1, HandPrimed DEF Hand
    <3>3. Noticing(q)'
      BY <3>1 DEF Put, Noticing, At, IsReminder
    <3>4. QED BY <3>1, <3>2, <3>3 DEF Put, At, IsReminder
  <2>4. QED BY <2>1, <2>2, <2>3 DEF Located
<1>13. SenderHolds'
  BY <1>7, PutIdle, SenderAway DEF Procs
<1>14. Drawn'
  <2>1. file.generation <= generations /\ \A e \in Claims : e.generation <= generations
    BY DEF Inv, WInv, Drawn
  <2>2. file.generation = 0 => file.rows = [k \in Keys |-> "none"]
    BY DEF Inv, WInv, Drawn
  <2>3. QED BY <1>1, <1>5, <1>11, <2>1, <2>2 DEF Drawn
<1>15. OthersSafe' /\ AtMostOnce' /\ TrueRows(memory)' /\ TrueRows(file)' /\ Untouched'
  <2>1. OthersSafe' /\ AtMostOnce'
    BY <1>1, <1>5 DEF Inv, WInv, OthersSafe, AtMostOnce
  <2>2. TrueRows(memory)' /\ TrueRows(file)'
    BY <1>1, <1>6 DEF Inv, WInv, TrueRows
  <2>3. Untouched'
    BY <1>11 DEF Untouched
  <2>4. QED BY <2>1, <2>2, <2>3
<1>16. CASE at'["request"] = Idle /\ UNCHANGED <<write, gate>>
  <2>1. Writing'
    BY <1>1, <1>16 DEF Writing, NoWrite
  <2>2. TypeOK'
    BY <1>1, <1>5, <1>7, <1>16, NoEntries, WechatAssumption DEF Inv, TypeOK
  <2>3. Orderly(queue)'
    BY <1>1, NoEntries DEF Orderly
  <2>4. QED BY <1>10, <1>12, <1>13, <1>14, <1>15, <2>1, <2>2, <2>3 DEF Inv, WInv
<1>17. CASE /\ memory.generation # 0 /\ Save("request", u, u) /\ gate' = "request"
            /\ at'["request"] = asking
  <2>1. /\ write' \in [by : Procs, value : Binding, otherwise : Binding]
        /\ write'.by = "request" /\ write'.value = u /\ write'.otherwise = u
    BY <1>5, <1>17, Saving DEF Procs
  <2>2. u.others
    BY <1>5, <1>17 DEF Inv, WInv, OthersSafe
  <2>3. Setting("request")'
    BY <1>1, <1>2, <1>17, <2>1 DEF Setting, SameBinding, At
  <2>4. Writing'
    BY <1>1, <2>1, <2>2, <2>3 DEF Writing
  <2>5. TypeOK'
    BY <1>1, <1>5, <1>7, <1>17, <2>1, NoEntries, WechatAssumption DEF Inv, TypeOK, Procs
  <2>6. Orderly(queue)'
    BY <1>1, NoEntries DEF Orderly
  <2>7. QED BY <1>10, <1>12, <1>13, <1>14, <1>15, <2>4, <2>5, <2>6 DEF Inv, WInv
<1>18. QED BY <1>7, <1>16, <1>17

LEMMA UnbindStep == ASSUME Inv, Unbind \/ Disposing PROVE Inv'
<1>1. at["request"].pc \in {"idle", "dispose"} /\ Unbinding /\ exists' = exists
  BY DEF Unbind, Disposing, RequestAt, Unbinding
<1>2. exists' \in BOOLEAN
  BY <1>1 DEF Inv, TypeOK
<1>3. QED BY <1>1, <1>2, UnbindingStep
-----------------------------------------------------------------------------
(***************************************************************************)
(* The process ends, and starts again from what the disk has.              *)
(***************************************************************************)
\* What the disk can have when the process ends, and what is then true of it.
LEMMA OnDisk ==
  ASSUME Inv, NEW disk \in {file} \cup (IF write = NoWrite THEN {} ELSE {write.value}),
         wire' = IF disk.generation \in {0, file.generation} THEN wire ELSE NothingSent
  PROVE  /\ disk \in Binding /\ disk.others /\ disk.generation <= generations
         /\ disk.generation = 0 => disk.rows = [k \in Keys |-> "none"]
         /\ \A k \in Keys :
              /\ disk.generation # 0 /\ disk.rows[k] \in {"none", "queued"} => wire'.sent[k] = 0
              /\ disk.rows[k] \in Unsent => wire'.sent[k] = 0
              /\ disk.rows[k] = "accepted" => k \in wire'.accepted
         /\ wire' \in [sent : [Keys -> Nat], accepted : SUBSET Keys]
         /\ \A k \in Keys : wire'.sent[k] <= 1
<1>1. /\ file \in Binding /\ file.others /\ file.generation <= generations
      /\ file.generation = 0 => file.rows = [k \in Keys |-> "none"]
      /\ TrueRows(file) /\ generations \in Nat /\ file.generation \in Nat
  BY WechatAssumption DEF Inv, TypeOK, WInv, Drawn, OthersSafe, Binding
<1>2. /\ NothingSent \in [sent : [Keys -> Nat], accepted : SUBSET Keys]
      /\ \A k \in Keys : NothingSent.sent[k] = 0
  BY DEF NothingSent
<1>3. /\ wire \in [sent : [Keys -> Nat], accepted : SUBSET Keys]
      /\ \A k \in Keys : wire.sent[k] <= 1
  BY DEF Inv, TypeOK, WInv, AtMostOnce
<1>4. /\ wire' \in [sent : [Keys -> Nat], accepted : SUBSET Keys]
      /\ \A k \in Keys : wire'.sent[k] <= 1
  BY <1>2, <1>3
<1>5. CASE disk = file
  BY <1>1, <1>4, <1>5 DEF TrueRows
<1>6. CASE write # NoWrite /\ disk = write.value /\ write.by # "binder"
  <2>1. disk \in Binding /\ Safe(disk)
    BY <1>6, WriteFacts
  <2>2. disk.generation \in {0, file.generation}
    BY <2>1 DEF Safe, Inv, WInv, Drawn
  <2>3. 0 <= generations
    BY <1>1
  <2>4. disk.generation <= generations
    BY <1>1, <2>2, <2>3
  <2>5. QED BY <1>4, <2>1, <2>2, <2>4 DEF Safe, TrueRows
<1>7. CASE write # NoWrite /\ disk = write.value /\ write.by = "binder"
  <2>1. /\ disk \in Binding /\ pending # 0 /\ disk.generation = pending /\ disk.others
        /\ disk.rows = [k \in Keys |-> "none"]
    BY <1>7, WriteFacts
  <2>2. pending = generations /\ file.generation < pending
    BY <2>1 DEF Inv, WInv, Drawn
  <2>3. wire' = NothingSent
    BY <1>1, <2>1, <2>2
  <2>4. "none" \notin Unsent /\ "none" # "accepted"
    BY DEF Unsent
  <2>5. disk.generation <= generations
    BY <1>1, <2>1, <2>2
  <2>6. QED BY <1>2, <1>4, <2>1, <2>3, <2>4, <2>5
<1>8. QED BY <1>5, <1>6, <1>7

LEMMA RestartStep == ASSUME Inv, Restart PROVE Inv'
<1>1. PICK disk \in {file} \cup (IF write = NoWrite THEN {} ELSE {write.value}) :
        /\ faults < Faults /\ faults' = faults + 1
        /\ \/ /\ memory' = Unbound([others |-> FALSE]) /\ file' = disk
              /\ storage_error' = TRUE
           \/ /\ memory' = Retired(disk) /\ file' \in {disk, Retired(disk)}
              /\ storage_error' \in BOOLEAN
        /\ write' = NoWrite /\ gate' = "nobody" /\ queue' = <<>>
        /\ at' = [p \in Procs |-> Idle] /\ pending' = 0
        /\ wire' = IF disk.generation \in {0, file.generation} THEN wire ELSE NothingSent
        /\ UNCHANGED <<generations, exists, begun>>
  BY DEF Restart
<1>2. /\ disk \in Binding /\ disk.others /\ disk.generation <= generations
      /\ disk.generation = 0 => disk.rows = [k \in Keys |-> "none"]
      /\ \A k \in Keys :
           /\ disk.generation # 0 /\ disk.rows[k] \in {"none", "queued"} => wire'.sent[k] = 0
           /\ disk.rows[k] \in Unsent => wire'.sent[k] = 0
           /\ disk.rows[k] = "accepted" => k \in wire'.accepted
      /\ wire' \in [sent : [Keys -> Nat], accepted : SUBSET Keys]
      /\ \A k \in Keys : wire'.sent[k] <= 1
  BY <1>1, OnDisk
<1> DEFINE r == Retired(disk)
           u == Unbound([others |-> FALSE])
<1>3. /\ r \in Binding /\ r.generation = disk.generation /\ r.others
      /\ disk.generation = 0 => r.rows = [k \in Keys |-> "none"]
      /\ \A k \in Keys :
           r.rows[k] = disk.rows[k] \/ r.rows[k] = "not_replayed"
  <2> DEFINE rows == [k \in Keys |-> IF disk.rows[k] \in {"queued", "sending"}
                                     THEN "not_replayed" ELSE disk.rows[k]]
  <2>1. disk.rows \in [Keys -> Row] /\ "not_replayed" \in Row
    BY <1>2 DEF Binding, Row
  <2>2. rows \in [Keys -> Row]
    BY <2>1
  <2>3. r = [disk EXCEPT !.rows = rows]
    BY DEF Retired
  <2>4. /\ disk.generation = 0 => rows = [k \in Keys |-> "none"]
        /\ \A k \in Keys : rows[k] = disk.rows[k] \/ rows[k] = "not_replayed"
    BY <1>2
  <2> HIDE DEF rows, r
  <2>5. r \in Binding /\ r.rows = rows
    BY <1>2, <2>2, <2>3 DEF Binding
  <2>6. r.generation = disk.generation
    BY <1>2, <2>3 DEF Binding
  <2>7. r.others = disk.others
    BY <1>2, <2>3 DEF Binding
  <2>8. QED BY <1>2, <2>4, <2>5, <2>6, <2>7
<1>4. /\ u \in Binding /\ u.generation = 0 /\ u.rows = [k \in Keys |-> "none"]
  <2> DEFINE n == [others |-> FALSE]
  <2>1. n.others \in BOOLEAN
    OBVIOUS
  <2> HIDE DEF n
  <2>2. /\ Unbound(n) \in Binding /\ Unbound(n).generation = 0
        /\ Unbound(n).rows = [k \in Keys |-> "none"]
    BY <2>1, UnboundFacts
  <2>3. QED BY <2>2 DEF n
<1> HIDE DEF r, u
<1>5. \/ memory' = u /\ file' = disk /\ storage_error' = TRUE
      \/ memory' = r /\ file' \in {disk, r} /\ storage_error' \in BOOLEAN
  BY <1>1 DEF r, u
<1>6. \A p \in Procs : at'[p] = Idle
  BY <1>1
<1>7. /\ \A p \in Procs : HandOf(at'[p]) = {} /\ LinedOf(at'[p])
      /\ Queued' = {}
  BY <1>1, <1>6, IdleFacts, NoEntries DEF Queued
<1>8. Apart' /\ Claims' = {}
  <2>1. \A p \in Procs : Hand(p)' = {}
    BY <1>7, HandPrimed
  <2>2. \A p \in Procs : LinedOf(at[p])'
    BY <1>7 DEF LinedOf, IsReminder
  <2>3. QED BY <1>7, <2>1, <2>2 DEF Apart, Claims
<1>9. Located' /\ SenderHolds'
  BY <1>6, PutIdle, SenderAway DEF Located, Procs
<1>10. Writing' /\ Orderly(queue)'
  BY <1>1, NoEntries DEF Writing, NoWrite, Orderly
<1>11. TypeOK'
  <2>1. memory' \in Binding /\ file' \in Binding /\ storage_error' \in BOOLEAN
    BY <1>2, <1>3, <1>4, <1>5
  <2>2. at' \in [Procs -> Local]
    BY <1>1, IdleFacts
  <2>3. faults' \in 0 .. Faults
    BY <1>1, WechatAssumption DEF Inv, TypeOK
  <2>4. queue' \in Seq(Entry) /\ Len(queue') <= Room
    BY <1>1, NoEntries, WechatAssumption
  <2>5. QED BY <1>1, <1>2, <2>1, <2>2, <2>3, <2>4 DEF Inv, TypeOK
<1>12. Drawn' /\ Untouched'
  BY <1>1, <1>2, <1>3, <1>4, <1>5, <1>8 DEF Drawn, Untouched
<1>13. TrueRows(memory)' /\ TrueRows(file)'
  <2> SUFFICES ASSUME NEW b \in {disk, r, u}, NEW k \in Keys
               PROVE  /\ b.generation # 0 /\ b.rows[k] \in {"none", "queued"} => wire'.sent[k] = 0
                      /\ b.rows[k] \in Unsent => wire'.sent[k] = 0
                      /\ b.rows[k] = "accepted" => k \in wire'.accepted
    BY <1>5 DEF TrueRows
  <2>1. "none" \notin Unsent /\ "not_replayed" \notin Unsent
    BY DEF Unsent
  <2>2. CASE b = disk
    BY <1>2, <2>2
  <2>3. CASE b = r
    BY <1>2, <1>3, <2>1, <2>3
  <2>4. CASE b = u
    BY <1>4, <2>1, <2>4
  <2>5. QED BY <2>2, <2>3, <2>4
<1>14. AtMostOnce' /\ OthersSafe'
  BY <1>1, <1>2, <1>3, <1>4, <1>5 DEF AtMostOnce, OthersSafe
<1>15. QED BY <1>8, <1>9, <1>10, <1>11, <1>12, <1>13, <1>14 DEF Inv, WInv
-----------------------------------------------------------------------------
LEMMA InitHolds == Init => Inv
<1> SUFFICES ASSUME Init PROVE Inv
  OBVIOUS
<1>1. /\ memory = Unbound([others |-> TRUE]) /\ file = memory /\ storage_error = FALSE
      /\ write = NoWrite /\ gate = "nobody" /\ queue = <<>> /\ at = [p \in Procs |-> Idle]
      /\ pending = 0 /\ generations = 0 /\ exists = TRUE /\ begun = {} /\ faults = 0
      /\ wire = NothingSent
  BY DEF Init
<1>2. /\ memory \in Binding /\ memory.generation = 0 /\ memory.others
      /\ memory.rows = [k \in Keys |-> "none"] /\ TrueRows(memory)
  <2> DEFINE n == [others |-> TRUE]
  <2>0. n.others
    OBVIOUS
  <2>1. n.others \in BOOLEAN
    OBVIOUS
  <2>2. memory = Unbound(n)
    BY <1>1
  <2> HIDE DEF n
  <2>3. /\ Unbound(n) \in Binding /\ Unbound(n).generation = 0
        /\ Unbound(n).rows = [k \in Keys |-> "none"] /\ TrueRows(Unbound(n))
    BY <2>1, UnboundFacts
  <2>4. Unbound(n).others = n.others
    BY <2>1, UnboundFacts
  <2>5. memory.others
    BY <2>0, <2>2, <2>4
  <2>6. QED BY <2>2, <2>3, <2>5
<1>3. \A p \in Procs : at[p] = Idle /\ Hand(p) = {} /\ LinedOf(at[p]) /\ Put(p)
  <2>1. /\ Idle.pc = "idle" /\ HandOf(Idle) = {} /\ LinedOf(Idle) /\ Idle.rest = <<>>
    BY IdleFacts
  <2>2. \A p \in Procs : at[p] = Idle
    BY <1>1
  <2>3. QED BY <2>1, <2>2 DEF Hand, Put, Noticing, At
<1>4. Queued = {} /\ Claims = {}
  BY <1>1, <1>3, NoEntries DEF Queued, Claims
<1>5. ~Left /\ ~At("sender", {"marking"}) /\ ~At("sender", {"reply"})
  BY <1>3, IdleFacts DEF Left, At, Procs
<1>6. wire \in [sent : [Keys -> Nat], accepted : SUBSET Keys] /\ \A k \in Keys : wire.sent[k] = 0
  BY <1>1 DEF NothingSent
<1>7. TypeOK
  <2>1. at \in [Procs -> Local]
    BY <1>1, IdleFacts
  <2>2. queue \in Seq(Entry) /\ Len(queue) <= Room
    BY <1>1, NoEntries, WechatAssumption
  <2>3. faults \in 0 .. Faults /\ generations \in 0 .. Bindings /\ pending \in {0} \cup Generations
    BY <1>1, WechatAssumption
  <2>4. QED BY <1>1, <1>2, <1>6, <2>1, <2>2, <2>3 DEF TypeOK
<1>8. Located /\ Writing /\ Orderly(queue) /\ Apart
  BY <1>1, <1>3, <1>4, NoEntries DEF Located, Writing, Orderly, Apart
<1>9. Drawn /\ Untouched
  BY <1>1, <1>2, <1>4 DEF Drawn, Untouched
<1>10. TrueRows(file) /\ AtMostOnce /\ SenderHolds /\ OthersSafe
  BY <1>1, <1>2, <1>5, <1>6 DEF AtMostOnce, SenderHolds, OthersSafe
<1>11. QED BY <1>2, <1>7, <1>8, <1>9, <1>10 DEF Inv, WInv

LEMMA NextKeeps == ASSUME Inv, [Next]_vars PROVE Inv'
<1>1. CASE Sender
  BY <1>1, TakeStep, GateStep, MarkedStep, ReplyStep, PauseStep, PausedStep DEF Sender
<1>2. CASE Poller
  BY <1>2, PollStartStep, PollAnswerStep, PollWrittenStep DEF Poller
<1>3. CASE Reminder
  BY <1>3, RemindStartStep, ClaimStep, ClaimedStep DEF Reminder
<1>4. CASE Drain
  BY <1>4, NoticeStep, DrainStep DEF Drain
<1>5. CASE Begin \/ Confirm \/ Confirmed
  BY <1>5, BeginStep, ConfirmStep, ConfirmedStep
<1>6. CASE Request
  BY <1>6, ConfigureStep, ConfiguredStep, UnbindStep, DisposeStep, UnbindDoneStep DEF Request
<1>7. CASE \E p \in Procs : Note(p) \/ NoteWritten(p)
  BY <1>7, NoteStep, NoteWrittenStep
<1>8. CASE Login \/ LessonBegins \/ PauseEnds \/ Restart
  BY <1>8, LoginStep, BeginsStep, PauseEndsStep, RestartStep
<1>9. CASE UNCHANGED vars
  <2>1. /\ UNCHANGED <<at, queue, gate>>
        /\ UNCHANGED <<Store, write, wire, pending, generations, faults>>
        /\ exists' = exists /\ begun' = begun
    BY <1>9 DEF vars, Store
  <2>2. "drain" \in Procs /\ Moves("drain") /\ Put("drain")' /\ GateKept("drain")
    BY <2>1, StillMoves DEF GateKept
  <2>3. exists' \in BOOLEAN /\ begun' \subseteq Keys
    BY <2>1 DEF Inv, TypeOK
  <2>4. QED BY <2>1, <2>2, <2>3, Turns
<1>10. QED
  BY <1>1, <1>2, <1>3, <1>4, <1>5, <1>6, <1>7, <1>8, <1>9 DEF Next

\* The invariant holds in every reachable state.
THEOREM Invariant == Spec => []Inv
<1>1. Init => Inv
  BY InitHolds
<1>2. Inv /\ [Next]_vars => Inv'
  BY NextKeeps
<1>3. QED BY <1>1, <1>2, PTL DEF Spec

\* All variables keep their types; the queue never holds more than its room.
THEOREM Types == Spec => []TypeOK
<1>1. Inv => TypeOK
  BY DEF Inv
<1>2. QED BY <1>1, Invariant, PTL

\* Whatever the writes do and however often the process is restarted, a reminder
\* leaves at most once for a binding (claim_reminder, delivery, start).
THEOREM SentOnce == Spec => []AtMostOnce
<1>1. Inv => AtMostOnce
  BY DEF Inv, WInv
<1>2. QED BY <1>1, Invariant, PTL

\* A reminder on its way is marked on the disk (delivery, sender).
THEOREM Marked == Spec => []MarkedBefore
<1>1. ASSUME Inv, SenderAt("reply"), IsReminder(Sending)
      PROVE  file.generation = Sending.generation /\ file.rows[Sending.key] = "sending"
  <2>1. At("sender", {"reply"}) /\ Left
    BY <1>1 DEF SenderAt, At, Left
  <2>2. Current(Sending) /\ file.rows[Sending.key] = "sending"
    BY <1>1, <2>1 DEF Inv, WInv, SenderHolds
  <2>3. Sending \in Entry
    BY <1>1, <2>1, SenderPut DEF At, SenderAt
  <2>4. memory.generation # 0
    BY <2>2, <2>3, EntryFacts DEF Current, Generations
  <2>5. QED BY <1>1, <2>2, <2>4 DEF Inv, WInv, Drawn, Current
<1>2. Inv => MarkedBefore
  BY <1>1 DEF MarkedBefore
<1>3. QED BY <1>2, Invariant, PTL

\* What the student reads of a reminder is true, in memory and on the disk.
THEOREM Honest == Spec => []HonestRows
<1>1. Inv => HonestRows
  BY DEF Inv, WInv, TrueRows, HonestRows
<1>2. QED BY <1>1, Invariant, PTL

\* The other students' bindings stay on the disk (start, begin).
THEOREM OthersStay == Spec => []OthersKept
<1>1. Inv => OthersKept
  BY DEF Inv, WInv, OthersSafe, OthersKept
<1>2. QED BY <1>1, Invariant, PTL
-----------------------------------------------------------------------------
(***************************************************************************)
(* What a step may not do.                                                 *)
(***************************************************************************)

\* The steps in which the sender may let something leave, and those in which a
\* claim is queued.
LEMMA Movers ==
  ASSUME Inv, [Next]_vars
  PROVE  /\ \/ at'["sender"] = at["sender"] \/ at'["sender"].pc # "reply"
            \/ SenderGate \/ SenderMarked
         /\ \/ at'["reminder"] = at["reminder"] \/ at'["reminder"].pc # "note"
            \/ at["reminder"].pc # "write" \/ Claimed
<1> DEFINE Still(p) == at'[p] = at[p]
           Goal == /\ Still("sender") \/ at'["sender"].pc # "reply" \/ SenderGate \/ SenderMarked
                   /\ \/ Still("reminder") \/ at'["reminder"].pc # "note"
                      \/ at["reminder"].pc # "write" \/ Claimed
<1>0. at \in [Procs -> Local] /\ "sender" \in Procs /\ "reminder" \in Procs /\ Idle.pc = "idle"
  BY IdleFacts DEF Inv, TypeOK, Procs
<1>1. ASSUME NEW p \in Procs, Return(p)
      PROVE  /\ \A q \in Procs \ {p} : Still(q)
             /\ at'[p].pc = "idle"
  BY <1>0, <1>1 DEF Return
<1>2. ASSUME NEW p \in Procs, NEW pc \in Places, Goto(p, pc)
      PROVE  /\ \A q \in Procs \ {p} : Still(q)
             /\ at'[p].pc = pc
  BY <1>2, Going DEF Turned
<1>3. ASSUME NEW p \in Procs, NEW e \in Entry, NEW note \in Unsent, Told(p, e, note)
      PROVE  /\ \A q \in Procs \ {p} : Still(q)
             /\ at'[p].pc \in {"idle", "note"}
  BY <1>0, <1>3, <1>1 DEF Told, Noting, Idle
<1>4. CASE SenderTake
  <2>1. Still("reminder")
    BY <1>0, <1>4, <1>1 DEF SenderTake, Told, Noting, Procs
  <2>2. at'["sender"].pc # "reply"
    <3>1. CASE \E e \in {Head(queue)} : at' = [at EXCEPT !["sender"].pc = "gate",
                                                      !["sender"].entry = e]
      BY <1>0, <3>1 DEF Local
    <3>2. CASE Told("sender", Head(queue), "expired")
      BY <1>0, <1>1, <3>2 DEF Told, Noting, Idle
    <3>3. QED BY <1>4, <3>1, <3>2 DEF SenderTake
  <2>3. QED BY <2>1, <2>2
<1>5. CASE SenderGate \/ SenderMarked
  <2>1. Still("reminder")
    BY <1>0, <1>5 DEF SenderGate, SenderMarked, Stay, Return, Told, Noting, Goto, Leave, Procs
  <2>2. QED BY <1>5, <2>1
<1>6. CASE SenderReply \/ SenderPause \/ SenderPaused
  <2>1. Still("reminder")
    BY <1>0, <1>6 DEF SenderReply, SenderPause, SenderPaused, Stay, Return, Goto, Procs
  <2>2. at'["sender"].pc # "reply"
    BY <1>0, <1>6 DEF SenderReply, SenderPause, SenderPaused, Stay, Return, Goto, Local
  <2>3. QED BY <2>1, <2>2
<1>7. CASE Poller
  BY <1>0, <1>7 DEF Poller, PollStart, PollAnswer, PollWritten, Return, Goto, Procs
<1>8. CASE Reminder
  <2>1. Still("sender")
    BY <1>0, <1>8 DEF Reminder, RemindStart, Claim, Claimed, Return, Told, Noting, Procs
  <2>2. Claimed \/ at["reminder"].pc # "write"
    BY <1>8 DEF Reminder, RemindStart, Claim
  <2>3. QED BY <2>1, <2>2
<1>9. CASE Drain
  BY <1>0, <1>9 DEF Drain, Notice, DrainExpired, Return, Told, Noting, Procs
<1>10. CASE Begin \/ Confirm \/ Confirmed
  BY <1>0, <1>10 DEF Begin, Confirm, Confirmed, Return, Goto, Procs
<1>11. CASE Configure \/ Configured \/ Dispose \/ UnbindDone
  BY <1>0, <1>11 DEF Configure, Configured, Dispose, UnbindDone, Return, Noting, Goto, Procs
<1>12. CASE Unbind \/ Disposing
  <2>1. Unbinding
    BY <1>12 DEF Unbind, Disposing
  <2>2. at'["sender"] = Idle /\ Still("reminder")
    BY <1>0, <2>1 DEF Unbinding, Procs
  <2>3. QED BY <1>0, <2>2
<1>13. ASSUME NEW p \in Procs, Note(p) \/ NoteWritten(p) PROVE Goal
  <2>1. At(p, {"note", "noting"}) /\ at[p].pc # "write"
    BY <1>13 DEF Note, NoteWritten, At
  <2>2. Goto(p, "noting") \/ Noted(p)
    BY <1>13 DEF Note, NoteWritten
  <2>3. CASE Goto(p, "noting")
    <3>1. "noting" \in Places
      BY DEF Places
    <3>2. QED BY <1>0, <1>2, <2>1, <2>3, <3>1
  <2>4. CASE Noted(p)
    <3>1. /\ Turned(p)
          /\ p = "sender" => ~At("sender", {"marking", "reply"})' \/ at'[p].pc = "pause"
      BY <2>1, <2>4, Noteds
    <3>2. QED BY <1>0, <2>1, <3>1 DEF Turned, At
  <2>5. QED BY <2>2, <2>3, <2>4
<1>14. CASE Login \/ LessonBegins \/ PauseEnds \/ UNCHANGED vars
  BY <1>14 DEF Login, LessonBegins, PauseEnds, vars
<1>15. CASE Restart
  BY <1>0, <1>15 DEF Restart
<1>16. QED
  BY <1>4, <1>5, <1>6, <1>7, <1>8, <1>9, <1>10, <1>11, <1>12, <1>13, <1>14, <1>15
  DEF Next, Sender, Request

LEMMA LeavesWanted ==
  ASSUME Inv, [Next]_vars, at["sender"].pc # "reply", at'["sender"].pc = "reply"
  PROVE  /\ memory.generation = Sending.generation /\ memory.enabled /\ memory.context
         /\ IsReminder(Sending) => memory.reminders /\ Sending.key \notin begun
<1>0. /\ at \in [Procs -> Local] /\ "sender" \in Procs /\ Idle.pc = "idle"
      /\ "sender" \in Procs \ {"binder"} /\ at["sender"] \in Local
  BY IdleFacts DEF Inv, TypeOK, Procs
<1>1. ASSUME Stay PROVE at'["sender"].pc = "idle"
  BY <1>0, <1>1 DEF Stay, Return
<1>2. ASSUME Told("sender", Sending, "expired") PROVE at'["sender"].pc # "reply"
  BY <1>0, <1>2 DEF Told, Noting, Return, Idle
<1>3. CASE SenderGate
  <2>1. ~Goto("sender", "marking")
    BY <1>0 DEF Goto, Local
  <2>2. /\ Current(Sending) /\ memory.enabled /\ IsOrdinary(Sending) /\ memory.context
    BY <1>1, <1>2, <1>3, <2>1 DEF SenderGate
  <2>3. QED BY <2>2 DEF Current, IsOrdinary
<1>4. CASE SenderMarked
  <2>1. /\ at["sender"].pc = "marking" /\ Written("sender", TRUE)
        /\ memory'.context /\ Sending.key \notin begun
    BY <1>1, <1>2, <1>4 DEF SenderMarked, SenderAt
  <2>2. /\ At("sender", {"marking"}) /\ write # NoWrite /\ write.by = "sender"
        /\ memory' = write.value
    BY <2>1 DEF At, Written
  <2>3. Current(Sending) /\ memory.enabled /\ memory.reminders
    BY <2>2 DEF Inv, WInv, SenderHolds
  <2>4. memory' = WithRow(memory, at["sender"].entry.key, "sending")
    BY <2>2 DEF Inv, WInv, Writing, Marking, Recording, Renewing, Claiming, Setting,
                Rebinding, At
  <2>5. memory'.context = memory.context
    BY <2>4 DEF WithRow, Inv, TypeOK, Binding
  <2>6. memory.context
    BY <2>1, <2>5
  <2>7. QED BY <2>1, <2>3, <2>6 DEF Current
<1>5. QED BY <1>3, <1>4, Movers

\* A full queue that stays as long as it was has lost no reminder but the least
\* urgent.
LEMMA QueueLaw ==
  ASSUME Inv, [Next]_vars, Full, Len(queue') = Len(queue),
         NEW e \in Range(queue) \ Range(queue'), IsReminder(e)
  PROVE  LessUrgent(e, queue')
<1>0. /\ queue \in Seq(Entry) /\ Len(queue) <= Room /\ Orderly(queue)
      /\ Len(queue) \in Nat \ {0} /\ DOMAIN queue = 1 .. Len(queue) /\ queue # <<>>
  <2>1. queue \in Seq(Entry) /\ Len(queue) <= Room /\ Orderly(queue)
    BY DEF Inv, TypeOK, WInv
  <2>2. Len(queue) \in Nat /\ DOMAIN queue = 1 .. Len(queue) /\ (queue = <<>> <=> Len(queue) = 0)
    BY <2>1, SeqFacts
  <2>3. Len(queue) # 0
    BY <2>2, WechatAssumption DEF Full
  <2>4. QED BY <2>1, <2>2, <2>3
<1>1. queue' # queue
  OBVIOUS
<1>2. ASSUME NEW d \in Entry, IsReminder(d) => d \notin Range(queue), Enqueue(d)
      PROVE  LessUrgent(e, queue')
  <2>1. e = Victim(d)
    BY <1>0, <1>2, Enqueued
  <2>2. IsReminder(Victim(d)) => LessUrgent(Victim(d), queue')
    BY <1>0, <1>2, Enqueued
  <2>3. QED BY <2>1, <2>2
<1>3. queue' # <<>>
  BY <1>0, NoEntries
<1>4. CASE SenderTake
  <2>1. queue' = Tail(queue)
    BY <1>4 DEF SenderTake
  <2>2. Len(Tail(queue)) = Len(queue) - 1
    BY <1>0, WithoutHead
  <2>3. QED BY <1>0, <2>1, <2>2
<1>5. CASE SenderGate \/ SenderMarked \/ SenderReply \/ SenderPause \/ SenderPaused
  BY <1>1, <1>5 DEF SenderGate, SenderMarked, SenderReply, SenderPause, SenderPaused
<1>6. CASE Poller \/ RemindStart \/ Claim
  BY <1>1, <1>6 DEF Poller, PollStart, PollAnswer, PollWritten, RemindStart, Claim
<1>7. CASE Claimed
  <2>1. at["reminder"].pc = "write" /\ Enqueue(at["reminder"].entry)
    BY <1>1, <1>7 DEF Claimed
  <2>2. at["reminder"].entry \in Entry /\ at["reminder"].entry \notin Range(queue)
    BY <2>1, ReminderPut, QueueReady
  <2>3. QED BY <1>2, <2>1, <2>2
<1>8. CASE Notice
  BY <1>2, <1>8, NoticeEntry
<1>9. CASE DrainExpired
  <2>1. PICK i \in DOMAIN queue : queue' = RemoveAt(queue, i)
    BY <1>9 DEF DrainExpired
  <2>2. Len(queue') = Len(queue) - 1
    BY <1>0, <2>1, WithoutOne
  <2>3. QED BY <1>0, <2>2
<1>10. CASE Begin \/ Confirm \/ Confirmed \/ Configure \/ Dispose \/ UnbindDone
  BY <1>1, <1>10 DEF Begin, Confirm, Confirmed, Configure, Dispose, UnbindDone
<1>11. CASE Configured
  <2>1. PICK ordinary \in Selections(queue, IsOrdinary) : queue' = ordinary
    BY <1>1, <1>3, <1>11 DEF Configured
  <2>2. \A d \in Range(queue) : ~IsReminder(d)
    BY <1>0, <2>1, LeftOrdinary
  <2>3. QED BY <2>2
<1>12. CASE Unbind \/ Disposing
  BY <1>3, <1>12 DEF Unbind, Disposing, Unbinding
<1>13. CASE \E p \in Procs : Note(p) \/ NoteWritten(p)
  BY <1>1, <1>13 DEF Note, NoteWritten
<1>14. CASE Login \/ LessonBegins \/ PauseEnds \/ UNCHANGED vars
  BY <1>1, <1>14 DEF Login, LessonBegins, PauseEnds, vars
<1>15. CASE Restart
  BY <1>3, <1>15 DEF Restart
<1>16. QED
  BY <1>4, <1>5, <1>6, <1>7, <1>8, <1>9, <1>10, <1>11, <1>12, <1>13, <1>14, <1>15
  DEF Next, Sender, Reminder, Drain, Request

\* The reminder that is told to have found no room was the least urgent.
LEMMA ToldLaw ==
  ASSUME Inv, [Next]_vars, at["reminder"].pc = "write", at'["reminder"].pc = "note",
         at'["reminder"].note = "queue_full"
  PROVE  LessUrgent(at'["reminder"].entry, queue')
<1> DEFINE e == at["reminder"].entry
<1>1. Claimed
  BY Movers
<1>2. /\ "reminder" \in Procs /\ e \in Entry /\ IsReminder(e) /\ e \notin Range(queue)
      /\ queue \in Seq(Entry) /\ Len(queue) <= Room /\ Orderly(queue)
  BY ReminderPut, QueueReady
<1>3. /\ at'["reminder"] # Idle /\ ~Return("reminder")
  BY <1>2, Returning, IdleFacts
<1>4. ~Told("reminder", e, "disabled")
  <2>1. "disabled" \in Unsent /\ e \in Entry \cup {NoEntry}
    BY <1>2 DEF Unsent
  <2> HIDE DEF e
  <2>2. Told("reminder", e, "disabled") => at'["reminder"].note = "disabled"
    BY <1>2, <2>1, Telling
  <2>3. QED BY <2>2
<1>5. Enqueue(e) /\ Told("reminder", Victim(e), "queue_full")
  BY <1>1, <1>3, <1>4 DEF Claimed
<1> HIDE DEF e
<1>6. PICK v : v = Victim(e)
  OBVIOUS
<1>7. /\ v \in Entry \cup {NoEntry}
      /\ IsReminder(v) => LessUrgent(v, queue')
  <2>1. Victim(e) \in Range(queue) \cup {e, NoEntry}
    BY <1>2, <1>5, Enqueued
  <2>2. IsReminder(Victim(e)) => LessUrgent(Victim(e), queue')
    BY <1>2, <1>5, Enqueued
  <2>3. Range(queue) \subseteq Entry
    BY <1>2, SeqFacts
  <2>4. QED BY <1>2, <1>6, <2>1, <2>2, <2>3
<1>8. IsReminder(v)
  BY <1>3, <1>5, <1>6 DEF Told
<1>9. at'["reminder"].entry = v
  <2>1. "queue_full" \in Unsent
    BY DEF Unsent
  <2>2. QED BY <1>2, <1>5, <1>6, <1>7, <1>8, <2>1, Telling
<1>10. QED BY <1>7, <1>8, <1>9

\* Nothing leaves for a student who has switched the channel off, nor for a
\* former binding, nor a reminder after its lesson has begun (sender, configure,
\* remove).
THEOREM Wanted == Spec => OnlyWhileWanted
<1>1. Inv /\ [Next]_vars =>
        [at["sender"].pc # "reply" /\ at'["sender"].pc = "reply" =>
           LET e == Sending IN
           /\ memory.generation = e.generation /\ memory.enabled /\ memory.context
           /\ IsReminder(e) => memory.reminders /\ e.key \notin begun]_vars
  BY LeavesWanted
<1>2. QED BY <1>1, Invariant, PTL DEF Spec, OnlyWhileWanted

\* A claimed reminder makes no room for an ordinary notice, nor for one of a
\* lesson that begins later (enqueue).
THEOREM RemindersKept == Spec => KeepsReminders
<1>1. Inv /\ [Next]_vars =>
        [LET lessUrgent(e) == \A d \in Range(queue') :
                                IsReminder(d) /\ Start[d.key] <= Start[e.key]
             told == at'["reminder"]
         IN /\ Full /\ Len(queue') = Len(queue) =>
                 \A e \in Range(queue) \ Range(queue') : IsReminder(e) => lessUrgent(e)
            /\ at["reminder"].pc = "write" /\ told.pc = "note" /\ told.note = "queue_full" =>
                 lessUrgent(told.entry)]_vars
  BY QueueLaw, ToldLaw DEF LessUrgent
<1>2. QED BY <1>1, Invariant, PTL DEF Spec, KeepsReminders
=============================================================================
