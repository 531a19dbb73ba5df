---------------------------- MODULE HistoryProofs ----------------------------
(* Theorems about History: a recorded edit turns the text before it into the text
   after it and back, and the stacks keep their meaning. *)
EXTENDS History, FiniteSetTheorems, SequenceTheorems, TLAPS

-----------------------------------------------------------------------------
(* Induction up to a bound, from the cardinality of intervals. *)

(* A set of numbers from 1 on without gaps counts them. *)
LEMMA Counted ==
    ASSUME NEW limit \in Nat, NEW P \in SUBSET (1..limit),
           \A k \in P : 1..k \subseteq P
    PROVE  Cardinality(P) \in 0..limit /\ P = 1..Cardinality(P)
<1> DEFINE c == Cardinality(P)
<1>1. IsFiniteSet(1..limit) /\ Cardinality(1..limit) = limit
  BY FS_Interval
<1>2. IsFiniteSet(P) /\ c \in Nat /\ c <= limit
  BY <1>1, FS_Subset, FS_CardinalityType
<1>3. ASSUME NEW k \in P PROVE k <= c
  <2>1. k \in Nat /\ IsFiniteSet(1..k) /\ Cardinality(1..k) = k
    BY FS_Interval
  <2>2. 1..k \subseteq P
    OBVIOUS
  <2>3. Cardinality(1..k) <= c
    BY <1>2, <2>2, FS_Subset
  <2>. QED  BY <2>1, <2>3
<1>4. ASSUME NEW k \in 1..c, k \notin P PROVE FALSE
  <2>1. P \subseteq 1..(k - 1)
    <3>1. ASSUME NEW j \in P PROVE j \in 1..(k - 1)
      <4>1. j \in Nat /\ j >= 1 /\ k \in Nat /\ k >= 1 /\ 1..j \subseteq P
        BY <1>2
      <4>2. j >= k => k \in 1..j
        BY <4>1
      <4>. QED  BY <4>1, <4>2, <1>4
    <3>. QED  BY <3>1
  <2>2. IsFiniteSet(1..(k - 1)) /\ Cardinality(1..(k - 1)) = k - 1
    <3>1. k \in Nat /\ k >= 1 /\ k - 1 \in Int
      BY <1>2
    <3>. QED  BY <3>1, FS_Interval
  <2>3. c <= Cardinality(1..(k - 1))
    BY <2>1, <2>2, FS_Subset
  <2>. QED  BY <2>2, <2>3, <1>2
<1>5. P = 1..c
  <2>1. \A k \in P : k \in 1..c
    BY <1>2, <1>3
  <2>2. \A k \in 1..c : k \in P
    BY <1>4
  <2>. QED  BY <2>1, <2>2
<1>. QED  BY <1>2, <1>5

(* What holds of no element and passes from k to k + 1 holds up to the limit. *)
LEMMA UpTo ==
    ASSUME NEW limit \in Nat, NEW P,
           \A k \in 1..limit : 1..(k - 1) \subseteq P => k \in P
    PROVE  1..limit \subseteq P
<1> DEFINE Q == {k \in 1..limit : 1..k \subseteq P}
           c == Cardinality(Q)
<1>1. c \in 0..limit /\ Q = 1..c
  <2>1. ASSUME NEW k \in Q, NEW j \in 1..k PROVE j \in Q
    <3>1. k \in 1..limit /\ 1..k \subseteq P
      OBVIOUS
    <3>2. j \in 1..limit /\ 1..j \subseteq 1..k
      BY <3>1
    <3>. QED  BY <3>1, <3>2
  <2>2. Q \in SUBSET (1..limit) /\ \A k \in Q : 1..k \subseteq Q
    BY <2>1
  <2>. QED  BY <2>2, Counted
<1> HIDE DEF c
<1>2. 1..c \subseteq P
  <2>1. ASSUME NEW k \in 1..c PROVE k \in P
    <3>1. k \in Q
      BY <1>1, <2>1
    <3>. QED  BY <3>1
  <2>. QED  BY <2>1
<1>3. CASE c < limit
  <2>1. c + 1 \in 1..limit /\ (c + 1) - 1 = c
    BY <1>1, <1>3
  <2>2. c + 1 \in P
    BY <1>2, <2>1
  <2>3. c + 1 \in Q
    <3>1. 1..(c + 1) \subseteq P
      BY <1>1, <1>2, <2>2
    <3>. QED  BY <2>1, <3>1
  <2> HIDE DEF Q
  <2>4. c + 1 \in 1..c /\ c \in Nat
    BY <1>1, <2>3
  <2>. QED  BY <2>4
<1>4. CASE c = limit
  BY <1>2, <1>4
<1>. QED  BY <1>1, <1>3, <1>4

-----------------------------------------------------------------------------
(* Differences. *)

LEMMA PrefixIsCommon ==
    ASSUME NEW a \in Seq(Units), NEW b \in Seq(Units), NEW limit \in Nat
    PROVE  /\ CommonPrefix(a, b, limit) \in 0..limit
           /\ \A i \in 1..CommonPrefix(a, b, limit) : a[i] = b[i]
<1> DEFINE P == {n \in 1..limit : \A i \in 1..n : a[i] = b[i]}
<1>1. \A k \in P : 1..k \subseteq P
  OBVIOUS
<1>2. Cardinality(P) \in 0..limit /\ P = 1..Cardinality(P)
  BY <1>1, Counted
<1>3. \A k \in P : a[k] = b[k]
  OBVIOUS
<1>. QED  BY <1>2, <1>3 DEF CommonPrefix

LEMMA SuffixIsCommon ==
    ASSUME NEW a \in Seq(Units), NEW b \in Seq(Units), NEW limit \in Nat
    PROVE  /\ CommonSuffix(a, b, limit) \in 0..limit
           /\ \A i \in 0..(CommonSuffix(a, b, limit) - 1) : a[Len(a) - i] = b[Len(b) - i]
<1> DEFINE P == {n \in 1..limit : \A i \in 0..(n - 1) : a[Len(a) - i] = b[Len(b) - i]}
<1>1. \A k \in P : 1..k \subseteq P
  OBVIOUS
<1>2. Cardinality(P) \in 0..limit /\ P = 1..Cardinality(P)
  BY <1>1, Counted
<1>3. \A k \in P : k - 1 \in 0..(k - 1)
  OBVIOUS
<1>4. \A k \in P : a[Len(a) - (k - 1)] = b[Len(b) - (k - 1)]
  BY <1>3
<1> DEFINE c == Cardinality(P)
<1>5. CommonSuffix(a, b, limit) = c
  BY DEF CommonSuffix
<1>6. c \in 0..limit /\ P = 1..c
  BY <1>2
<1> HIDE DEF c, P
<1>7. ASSUME NEW i \in 0..(c - 1) PROVE a[Len(a) - i] = b[Len(b) - i]
  <2>1. i + 1 \in P /\ (i + 1) - 1 = i
    BY <1>6
  <2>. QED  BY <1>4, <2>1
<1>. QED  BY <1>5, <1>6, <1>7

(* The start of one text, the middle of another, the end of the first: the other,
   when they agree at the start and at the end. *)
LEMMA Spliced ==
    ASSUME NEW a \in Seq(Units), NEW b \in Seq(Units), NEW start \in Nat, NEW end \in Nat,
           start + end <= Len(a), start + end <= Len(b),
           \A i \in 1..start : a[i] = b[i],
           \A i \in 0..(end - 1) : a[Len(a) - i] = b[Len(b) - i]
    PROVE  SubSeq(b, 1, start) \o SubSeq(a, start + 1, Len(a) - end)
             \o SubSeq(b, Len(b) - end + 1, Len(b)) = a
<1> DEFINE p == SubSeq(b, 1, start)
           m == SubSeq(a, start + 1, Len(a) - end)
           s == SubSeq(b, Len(b) - end + 1, Len(b))
<1>1. Len(a) \in Nat /\ Len(b) \in Nat
  OBVIOUS
<1>2. /\ p \in Seq(Units) /\ Len(p) = start
      /\ \A i \in 1..start : p[i] = b[i]
  <2>1. \A k \in 1..start : b[k] \in Units
    BY <1>1
  <2>. QED  BY <1>1, <2>1, SubSeqProperties
<1>3. /\ m \in Seq(Units) /\ Len(m) = Len(a) - end - start
      /\ \A i \in 1..(Len(a) - end - start) : m[i] = a[start + i]
  <2>1. \A k \in (start + 1)..(Len(a) - end) : a[k] \in Units
    BY <1>1
  <2>. QED  BY <1>1, <2>1, SubSeqProperties
<1>4. /\ s \in Seq(Units) /\ Len(s) = end
      /\ \A i \in 1..end : s[i] = b[Len(b) - end + i]
  <2>1. \A k \in (Len(b) - end + 1)..Len(b) : b[k] \in Units
    BY <1>1
  <2>. QED  BY <1>1, <2>1, SubSeqProperties
<1> HIDE DEF p, m, s
<1>5. /\ p \o m \in Seq(Units) /\ Len(p \o m) = Len(a) - end
      /\ \A i \in 1..(Len(a) - end) : (p \o m)[i] = a[i]
  <2>1. /\ p \o m \in Seq(Units) /\ Len(p \o m) = Len(p) + Len(m)
        /\ \A i \in 1..(Len(p) + Len(m)) :
             (p \o m)[i] = IF i <= Len(p) THEN p[i] ELSE m[i - Len(p)]
    <3>1. p \in Seq(Units) /\ m \in Seq(Units)
      BY <1>2, <1>3
    <3>. QED  BY ONLY <3>1, ConcatProperties
  <2>2. ASSUME NEW i \in 1..(Len(a) - end) PROVE (p \o m)[i] = a[i]
    <3> HIDE DEF p, m
    <3>0. (p \o m)[i] = IF i <= start THEN p[i] ELSE m[i - start]
      BY <1>1, <1>2, <1>3, <2>1
    <3>1. CASE i <= start
      <4>1. i \in 1..start
        BY <1>1, <3>1
      <4>. QED  BY <1>2, <3>0, <3>1, <4>1
    <3>2. CASE ~(i <= start)
      <4>1. i - start \in 1..(Len(a) - end - start) /\ start + (i - start) = i
        BY <1>1, <3>2
      <4>2. (p \o m)[i] = m[i - start]
        BY <3>0, <3>2
      <4>3. m[i - start] = a[start + (i - start)]
        BY <1>3, <4>1
      <4>. QED  BY <4>1, <4>2, <4>3
    <3>. QED  BY <3>1, <3>2
  <2>. QED  BY <1>1, <1>2, <1>3, <2>1, <2>2
<1> DEFINE pm == p \o m
<1> HIDE DEF pm
<1>6. /\ pm \o s \in Seq(Units) /\ Len(pm \o s) = Len(pm) + Len(s)
      /\ \A i \in 1..(Len(pm) + Len(s)) :
           (pm \o s)[i] = IF i <= Len(pm) THEN pm[i] ELSE s[i - Len(pm)]
  <2>1. pm \in Seq(Units)
    BY <1>5 DEF pm
  <2>. QED  BY <1>4, <2>1, ConcatProperties
<1>7. Len(pm) = Len(a) - end /\ \A i \in 1..(Len(a) - end) : pm[i] = a[i]
  BY <1>5 DEF pm
<1>8. ASSUME NEW i \in 1..Len(a) PROVE (pm \o s)[i] = a[i]
  <2>1. CASE i <= Len(a) - end
    BY <1>1, <1>4, <1>6, <1>7, <2>1
  <2>2. CASE ~(i <= Len(a) - end)
    <3> DEFINE k == Len(a) - i
    <3>1. /\ k \in 0..(end - 1) /\ i - (Len(a) - end) \in 1..end
          /\ Len(b) - end + (i - (Len(a) - end)) = Len(b) - k /\ Len(a) - k = i
      BY <1>1, <2>2
    <3>2. (pm \o s)[i] = s[i - (Len(a) - end)]
      BY <1>1, <1>4, <1>6, <1>7, <2>2
    <3>3. s[i - (Len(a) - end)] = b[Len(b) - end + (i - (Len(a) - end))]
      BY <1>4, <3>1
    <3> HIDE DEF k
    <3>4. a[Len(a) - k] = b[Len(b) - k]
      BY <3>1
    <3>. QED  BY <3>1, <3>2, <3>3, <3>4
  <2>. QED  BY <2>1, <2>2
<1>9. Len(pm \o s) = Len(a)
  BY <1>1, <1>4, <1>6, <1>7
<1>10. pm \o s = a
  BY <1>6, <1>8, <1>9, SeqEqual
<1>. QED  BY <1>10 DEF pm, p, m, s

(* A replacement between a common start and a common end turns one text into the
   other, and back. *)
LEMMA ReplacementTurns ==
    ASSUME NEW a \in Seq(Units), NEW b \in Seq(Units), NEW start \in Nat, NEW end \in Nat,
           start + end <= Len(a), start + end <= Len(b),
           \A i \in 1..start : a[i] = b[i],
           \A i \in 0..(end - 1) : a[Len(a) - i] = b[Len(b) - i]
    PROVE  /\ Replacement(b, a, start, end) \in Edits
           /\ InvertEdit(Replacement(b, a, start, end)) = Replacement(a, b, start, end)
           /\ Applies(b, Replacement(b, a, start, end))
           /\ ApplyEdit(b, Replacement(b, a, start, end)) = a
<1> DEFINE r == SubSeq(b, start + 1, Len(b) - end)
           m == SubSeq(a, start + 1, Len(a) - end)
           e == Replacement(b, a, start, end)
<1>1. Len(a) \in Nat /\ Len(b) \in Nat
  OBVIOUS
<1>2. r \in Seq(Units) /\ Len(r) = Len(b) - end - start
  <2>1. \A k \in (start + 1)..(Len(b) - end) : b[k] \in Units
    BY <1>1
  <2>. QED  BY <1>1, <2>1, SubSeqProperties
<1>3. m \in Seq(Units)
  <2>1. \A k \in (start + 1)..(Len(a) - end) : a[k] \in Units
    BY <1>1
  <2>. QED  BY <1>1, <2>1, SubSeqProperties
<1>4. e = [offset |-> start, removed |-> r, inserted |-> m]
  BY DEF Replacement
<1> HIDE DEF r, m, e
<1>5. /\ e \in Edits
      /\ InvertEdit(e) = [offset |-> start, removed |-> m, inserted |-> r]
      /\ e.offset = start /\ e.removed = r /\ e.inserted = m
  <2>1. e \in Edits /\ e.offset = start /\ e.removed = r /\ e.inserted = m
    BY <1>2, <1>3, <1>4 DEF Edits
  <2>2. InvertEdit(e) = [offset |-> start, removed |-> m, inserted |-> r]
    BY <1>4 DEF InvertEdit
  <2>. QED  BY <2>1, <2>2
<1>6. start + Len(r) = Len(b) - end
  BY <1>1, <1>2
<1>7. Applies(b, e)
  <2>1. e.offset + Len(e.removed) <= Len(b)
    BY <1>1, <1>5, <1>6
  <2>2. SubSeq(b, start + 1, start + Len(r)) = r
    BY <1>6 DEF r
  <2>. QED  BY <2>1, <2>2, <1>5 DEF Applies
<1>8. ApplyEdit(b, e) = a
  <2>1. SubSeq(b, 1, start) \o m \o SubSeq(b, Len(b) - end + 1, Len(b)) = a
    BY Spliced DEF m
  <2>2. start + Len(r) + 1 = Len(b) - end + 1
    BY <1>1, <1>6
  <2>. QED  BY <1>5, <2>1, <2>2 DEF ApplyEdit
<1>. QED  BY <1>5, <1>7, <1>8 DEF Replacement, e, r, m

(* How far diffText trims: over common units, and no further than where it may have
   split a pair. *)
LEMMA Trimmed ==
    ASSUME NEW a \in Seq(Units), NEW b \in Seq(Units)
    PROVE  \E start, end \in Nat :
             /\ DiffText(b, a) = Replacement(b, a, start, end)
             /\ start + end <= Len(a) /\ start + end <= Len(b)
             /\ \A i \in 1..start : a[i] = b[i]
             /\ \A i \in 0..(end - 1) : a[Len(a) - i] = b[Len(b) - i]
             /\ start = 0 \/ b[start] \notin High
                \/ (b[start + 1] \in High /\ a[start + 1] = b[start + 1])
             /\ end = 0 \/ b[Len(b) - end + 1] \notin Low
                \/ (b[Len(b) - end] \in Low /\ a[Len(a) - end] = b[Len(b) - end])
<1> DEFINE shorter == Smaller(Len(b), Len(a))
           prefix == CommonPrefix(b, a, shorter)
           start == IF prefix > 0 /\ b[prefix] \in High THEN prefix - 1 ELSE prefix
           suffix == CommonSuffix(b, a, shorter - start)
           end == IF suffix > 0 /\ b[Len(b) - suffix + 1] \in Low THEN suffix - 1 ELSE suffix
<1>0. DiffText(b, a) = Replacement(b, a, start, end)
  BY DEF DiffText
<1>1. Len(a) \in Nat /\ Len(b) \in Nat
  OBVIOUS
<1>2. shorter \in Nat /\ shorter <= Len(a) /\ shorter <= Len(b)
  BY <1>1 DEF Smaller
<1> HIDE DEF shorter
<1>3. prefix \in 0..shorter /\ \A i \in 1..prefix : b[i] = a[i]
  BY <1>2, PrefixIsCommon
<1> HIDE DEF prefix
<1>4. start = prefix \/ (start = prefix - 1 /\ prefix > 0 /\ b[prefix] \in High)
  OBVIOUS
<1>5. start = prefix => prefix = 0 \/ b[prefix] \notin High
  BY <1>3
<1> HIDE DEF start
<1>6. start \in 0..prefix
  BY <1>2, <1>3, <1>4
<1>7. shorter - start \in Nat
  BY <1>2, <1>3, <1>6
<1>8. suffix \in 0..(shorter - start) /\ \A i \in 0..(suffix - 1) : b[Len(b) - i] = a[Len(a) - i]
  BY <1>7, SuffixIsCommon
<1> HIDE DEF suffix
<1>9. end = suffix \/ (end = suffix - 1 /\ suffix > 0 /\ b[Len(b) - suffix + 1] \in Low)
  OBVIOUS
<1>10. end = suffix => suffix = 0 \/ b[Len(b) - suffix + 1] \notin Low
  BY <1>8
<1> HIDE DEF end
<1>11. end \in 0..suffix
  BY <1>7, <1>8, <1>9
<1>12. start \in Nat /\ end \in Nat /\ start + end <= Len(a) /\ start + end <= Len(b)
  BY <1>1, <1>2, <1>3, <1>6, <1>7, <1>8, <1>11
<1>13. \A i \in 1..start : a[i] = b[i]
  BY <1>2, <1>3, <1>6
<1>14. \A i \in 0..(end - 1) : a[Len(a) - i] = b[Len(b) - i]
  BY <1>7, <1>8, <1>11
<1>15. start = 0 \/ b[start] \notin High
       \/ (b[start + 1] \in High /\ a[start + 1] = b[start + 1])
  <2>1. CASE start = prefix
    BY <1>5, <2>1
  <2>2. CASE start = prefix - 1 /\ prefix > 0 /\ b[prefix] \in High
    <3>1. start + 1 = prefix /\ prefix \in 1..prefix
      BY <1>2, <1>3, <2>2
    <3>. QED  BY <1>3, <2>2, <3>1
  <2>. QED  BY <1>4, <2>1, <2>2
<1>16. end = 0 \/ b[Len(b) - end + 1] \notin Low
       \/ (b[Len(b) - end] \in Low /\ a[Len(a) - end] = b[Len(b) - end])
  <2>1. CASE end = suffix
    BY <1>10, <2>1
  <2>2. CASE end = suffix - 1 /\ suffix > 0 /\ b[Len(b) - suffix + 1] \in Low
    <3>1. end \in 0..(suffix - 1) /\ Len(b) - suffix + 1 = Len(b) - end
      BY <1>1, <1>7, <1>8, <1>11, <2>2
    <3>. QED  BY <1>8, <2>2, <3>1
  <2>. QED  BY <1>9, <2>1, <2>2
<1>. QED  BY <1>0, <1>12, <1>13, <1>14, <1>15, <1>16

(* diffText, applyEdit and invertEdit: an edit gives the text it was made for, and
   its inverse gives back the text before (text-edit.ts:2-3). *)
THEOREM DiffTurns ==
    ASSUME NEW b \in Seq(Units), NEW a \in Seq(Units)
    PROVE  DiffText(b, a) \in Edits /\ Turns(DiffText(b, a), b, a)
<1>1. PICK start \in Nat, end \in Nat :
        /\ DiffText(b, a) = Replacement(b, a, start, end)
        /\ start + end <= Len(a) /\ start + end <= Len(b)
        /\ \A i \in 1..start : a[i] = b[i]
        /\ \A i \in 0..(end - 1) : a[Len(a) - i] = b[Len(b) - i]
  BY Trimmed
<1>2. /\ Replacement(b, a, start, end) \in Edits
      /\ InvertEdit(Replacement(b, a, start, end)) = Replacement(a, b, start, end)
      /\ Applies(b, Replacement(b, a, start, end))
      /\ ApplyEdit(b, Replacement(b, a, start, end)) = a
  BY <1>1, ReplacementTurns
<1>3. /\ Applies(a, Replacement(a, b, start, end))
      /\ ApplyEdit(a, Replacement(a, b, start, end)) = b
  BY <1>1, ReplacementTurns
<1>. QED  BY <1>1, <1>2, <1>3 DEF Turns

(* What is left of a whole text splits no pair when neither end was trimmed beside a
   half of one. *)
LEMMA LeftWhole ==
    ASSUME NEW t \in Seq(Units), Whole(t), NEW start \in Nat, NEW end \in Nat,
           start + end <= Len(t),
           start = 0 \/ t[start] \notin High \/ t[start + 1] \in High,
           end = 0 \/ t[Len(t) - end + 1] \notin Low \/ t[Len(t) - end] \in Low
    PROVE  Whole(SubSeq(t, start + 1, Len(t) - end))
<1> DEFINE n == Len(t) - end - start
           r == SubSeq(t, start + 1, Len(t) - end)
<1>0. ASSUME NEW k \in 1..Len(t)
      PROVE  /\ t[k] \in High => k < Len(t) /\ t[k + 1] \in Low
             /\ t[k] \in Low => k > 1 /\ t[k - 1] \in High
  <2>1. k \in DOMAIN t
    OBVIOUS
  <2>. QED  BY ONLY Whole(t), <2>1, Zenon DEF Whole
<1>1. Len(t) \in Nat /\ n \in Nat
  OBVIOUS
<1>2. r \in Seq(Units) /\ Len(r) = n /\ \A i \in 1..n : r[i] = t[start + i]
  <2>1. \A k \in (start + 1)..(Len(t) - end) : t[k] \in Units
    BY <1>1
  <2>. QED  BY <1>1, <2>1, SubSeqProperties
<1>3. DOMAIN r = 1..n
  BY <1>2
<1> HIDE DEF r
<1>4. ASSUME NEW i \in 1..n, r[i] \in High PROVE i < n /\ r[i + 1] \in Low
  <2>1. start + i \in 1..Len(t) /\ t[start + i] \in High
    BY SMTT(30), <1>1, <1>2, <1>4
  <2>2. start + i < Len(t) /\ t[start + i + 1] \in Low
    BY <1>0, <2>1
  <2>3. i # n
    <3>1. SUFFICES ASSUME i = n PROVE FALSE
      OBVIOUS
    <3>2. start + i = Len(t) - end /\ start + i + 1 = Len(t) - end + 1
      BY <1>1, <3>1
    <3>. QED  BY <1>1, <2>1, <2>2, <3>2, UnitsAssumption
  <2>4. i < n /\ i + 1 \in 1..n /\ start + (i + 1) = start + i + 1
    BY <1>1, <2>3
  <2>. QED  BY <1>2, <2>2, <2>4
<1>5. ASSUME NEW i \in 1..n, r[i] \in Low PROVE i > 1 /\ r[i - 1] \in High
  <2>1. start + i \in 1..Len(t) /\ t[start + i] \in Low
    BY <1>1, <1>2, <1>5
  <2>2. start + i > 1 /\ t[start + i - 1] \in High
    BY <1>0, <2>1
  <2>3. i # 1
    <3>1. SUFFICES ASSUME i = 1 PROVE FALSE
      OBVIOUS
    <3>2. start + i = start + 1 /\ start + i - 1 = start
      BY <3>1
    <3>. QED  BY <2>1, <2>2, <3>2, UnitsAssumption
  <2>4. i > 1 /\ i - 1 \in 1..n /\ start + (i - 1) = start + i - 1
    BY <1>1, <2>3
  <2>. QED  BY <1>2, <2>2, <2>4
<1>6. Whole(r)
  BY <1>2, <1>3, <1>4, <1>5 DEF Whole
<1>. QED  BY <1>6 DEF r

(* An edit between whole texts splits no surrogate pair (text-edit.ts:17). *)
THEOREM DiffIsWhole ==
    ASSUME NEW b \in Seq(Units), NEW a \in Seq(Units), Whole(b), Whole(a)
    PROVE  Whole(DiffText(b, a).removed) /\ Whole(DiffText(b, a).inserted)
<1>1. PICK start \in Nat, end \in Nat :
        /\ DiffText(b, a) = Replacement(b, a, start, end)
        /\ start + end <= Len(a) /\ start + end <= Len(b)
        /\ \A i \in 1..start : a[i] = b[i]
        /\ \A i \in 0..(end - 1) : a[Len(a) - i] = b[Len(b) - i]
        /\ start = 0 \/ b[start] \notin High
           \/ (b[start + 1] \in High /\ a[start + 1] = b[start + 1])
        /\ end = 0 \/ b[Len(b) - end + 1] \notin Low
           \/ (b[Len(b) - end] \in Low /\ a[Len(a) - end] = b[Len(b) - end])
  BY Trimmed
<1>2. Whole(SubSeq(b, start + 1, Len(b) - end))
  BY <1>1, LeftWhole
<1>3. start = 0 \/ a[start] \notin High \/ a[start + 1] \in High
  <2>1. start = 0 \/ start \in 1..start
    OBVIOUS
  <2>. QED  BY <1>1, <2>1
<1>4. end = 0 \/ a[Len(a) - end + 1] \notin Low \/ a[Len(a) - end] \in Low
  <2>1. SUFFICES ASSUME end # 0 PROVE a[Len(a) - end + 1] \notin Low \/ a[Len(a) - end] \in Low
    OBVIOUS
  <2>2. end - 1 \in 0..(end - 1)
    BY <2>1
  <2>3. a[Len(a) - (end - 1)] = b[Len(b) - (end - 1)]
    BY <1>1, <2>2
  <2>4. Len(a) - (end - 1) = Len(a) - end + 1 /\ Len(b) - (end - 1) = Len(b) - end + 1
    OBVIOUS
  <2>5. a[Len(a) - end + 1] = b[Len(b) - end + 1]
    BY <2>3, <2>4
  <2>. QED  BY <1>1, <2>1, <2>5
<1>5. Whole(SubSeq(a, start + 1, Len(a) - end))
  BY <1>1, <1>3, <1>4, LeftWhole
<1>. QED  BY <1>1, <1>2, <1>5 DEF Replacement

-----------------------------------------------------------------------------
(* Stacks. *)

LEMMA FrontLast ==
    ASSUME NEW S, NEW s \in Seq(S), s # <<>>
    PROVE  /\ Len(s) \in Nat /\ Len(s) >= 1
           /\ Front(s) \in Seq(S) /\ Len(Front(s)) = Len(s) - 1
           /\ \A i \in 1..(Len(s) - 1) : Front(s)[i] = s[i]
           /\ Last(s) = s[Len(s)] /\ Last(s) \in S
<1> DEFINE n == Len(s) - 1
<1>1. n \in Nat /\ Len(s) = n + 1 /\ Len(s) \in DOMAIN s /\ \A k \in 1..n : s[k] \in S
  OBVIOUS
<1>2. s[Len(s)] \in S
  BY <1>1
<1> HIDE DEF n
<1>3. /\ SubSeq(s, 1, n) \in Seq(S) /\ Len(SubSeq(s, 1, n)) = n
      /\ \A i \in 1..n : SubSeq(s, 1, n)[i] = s[i]
  BY <1>1, SubSeqProperties
<1>4. Front(s) = SubSeq(s, 1, n)
  BY DEF Front, n
<1>5. Len(s) - 1 = n /\ Len(s) >= 1 /\ Len(s) \in Nat
  BY <1>1
<1>. QED  BY <1>2, <1>3, <1>4, <1>5 DEF Last

LEMMA Appended ==
    ASSUME NEW S, NEW s \in Seq(S), NEW x \in S
    PROVE  /\ Append(s, x) \in Seq(S) /\ Len(Append(s, x)) = Len(s) + 1
           /\ \A i \in 1..Len(s) : Append(s, x)[i] = s[i]
           /\ Append(s, x)[Len(s) + 1] = x
OBVIOUS

LEMMA Dropped ==
    ASSUME NEW S, NEW s \in Seq(S), NEW n \in 0..Len(s)
    PROVE  /\ SubSeq(s, n + 1, Len(s)) \in Seq(S)
           /\ Len(SubSeq(s, n + 1, Len(s))) = Len(s) - n
           /\ \A i \in 1..(Len(s) - n) : SubSeq(s, n + 1, Len(s))[i] = s[n + i]
<1>1. Len(s) \in Nat /\ n \in Nat /\ \A k \in (n + 1)..Len(s) : s[k] \in S
  OBVIOUS
<1>. QED  BY <1>1, SubSeqProperties

(* What is above an entry when a text was pushed, popped, or the oldest dropped *)
LEMMA AboveAppend ==
    ASSUME NEW S, NEW texts \in Seq(S), NEW text \in S, NEW next, NEW i \in 1..(Len(texts) + 1)
    PROVE  /\ i <= Len(texts) => Above(Append(texts, text), i, next) = Above(texts, i, text)
           /\ i = Len(texts) + 1 => Above(Append(texts, text), i, next) = next
BY Appended DEF Above

LEMMA AboveFront ==
    ASSUME NEW S, NEW texts \in Seq(S), texts # <<>>, NEW text, NEW i \in 1..(Len(texts) - 1)
    PROVE  Above(Front(texts), i, Last(texts)) = Above(texts, i, text)
<1>1. i + 1 = Len(texts) \/ i + 1 \in 1..(Len(texts) - 1)
  OBVIOUS
<1>. QED  BY <1>1, FrontLast DEF Above

LEMMA AboveDropped ==
    ASSUME NEW S, NEW texts \in Seq(S), NEW n \in 0..Len(texts), NEW text,
           NEW i \in 1..(Len(texts) - n)
    PROVE  Above(SubSeq(texts, n + 1, Len(texts)), i, text) = Above(texts, n + i, text)
<1>1. i = Len(texts) - n <=> n + i = Len(texts)
  OBVIOUS
<1>2. i # Len(texts) - n => i + 1 \in 1..(Len(texts) - n) /\ n + (i + 1) = n + i + 1
  OBVIOUS
<1>. QED  BY <1>1, <1>2, Dropped DEF Above

(* Two stacks of texts are the same when each text follows from the one above. *)
LEMMA SameFromTop ==
    ASSUME NEW S, NEW p \in Seq(S), NEW q \in Seq(S), Len(p) = Len(q),
           \A i \in 1..Len(p) : (i = Len(p) \/ p[i + 1] = q[i + 1]) => p[i] = q[i]
    PROVE  p = q
<1> DEFINE n == Len(p)
           P == {k \in 1..n : p[n - k + 1] = q[n - k + 1]}
<1>1. n \in Nat
  OBVIOUS
<1>2. ASSUME NEW k \in 1..n, 1..(k - 1) \subseteq P PROVE k \in P
  <2> DEFINE i == n - k + 1
  <2>1. i \in 1..n
    BY <1>1
  <2>2. i = n \/ p[i + 1] = q[i + 1]
    <3>1. CASE k = 1
      BY <1>1, <3>1
    <3>2. CASE k # 1
      <4>1. k - 1 \in 1..(k - 1) /\ n - (k - 1) + 1 = i + 1
        BY <1>1, <3>2
      <4>. QED  BY <1>2, <4>1
    <3>. QED  BY <3>1, <3>2
  <2>. QED  BY <2>1, <2>2
<1>3. 1..n \subseteq P
  <2> HIDE DEF P, n
  <2>. QED  BY <1>1, <1>2, UpTo
<1>4. ASSUME NEW i \in 1..n PROVE p[i] = q[i]
  <2>1. n - i + 1 \in 1..n /\ n - (n - i + 1) + 1 = i
    BY <1>1
  <2>. QED  BY <1>3, <2>1
<1>. QED  BY <1>4, SeqEqual

(* What a stack means after a push and a pop, and that it means one thing. *)

LEMMA PastPush ==
    ASSUME NEW S, NEW texts \in Seq(S), NEW b \in S, NEW a, NEW undo \in Seq(Transactions),
           NEW tx \in Transactions, IsPast(texts, undo, b), Turns(tx.edit, b, a)
    PROVE  IsPast(Append(texts, b), Append(undo, tx), a)
<1>1. /\ Append(texts, b) \in Seq(S) /\ Len(Append(texts, b)) = Len(texts) + 1
      /\ \A i \in 1..Len(texts) : Append(texts, b)[i] = texts[i]
      /\ Append(texts, b)[Len(texts) + 1] = b
  BY Appended
<1>2. /\ Append(undo, tx) \in Seq(Transactions) /\ Len(Append(undo, tx)) = Len(undo) + 1
      /\ \A i \in 1..Len(undo) : Append(undo, tx)[i] = undo[i]
      /\ Append(undo, tx)[Len(undo) + 1] = tx
  BY Appended
<1>3. Len(texts) = Len(undo) /\ \A i \in 1..Len(undo) : Turns(undo[i].edit, texts[i], Above(texts, i, b))
  BY DEF IsPast
<1>4. ASSUME NEW i \in 1..(Len(undo) + 1)
      PROVE  Turns(Append(undo, tx)[i].edit, Append(texts, b)[i], Above(Append(texts, b), i, a))
  <2>1. CASE i \in 1..Len(undo)
    <3>1. Above(Append(texts, b), i, a) = Above(texts, i, b)
      BY <1>3, <2>1, AboveAppend
    <3>. QED  BY <1>1, <1>2, <1>3, <2>1, <3>1
  <2>2. CASE i = Len(undo) + 1
    <3>1. Above(Append(texts, b), i, a) = a
      BY <1>3, <2>2, AboveAppend
    <3>2. Append(undo, tx)[i] = tx /\ Append(texts, b)[i] = b
      BY <1>1, <1>2, <1>3, <2>2
    <3>. QED  BY <3>1, <3>2
  <2>3. i \in 1..Len(undo) \/ i = Len(undo) + 1
    OBVIOUS
  <2>. QED  BY <2>1, <2>2, <2>3
<1>. QED  BY <1>1, <1>2, <1>3, <1>4 DEF IsPast

LEMMA PastPop ==
    ASSUME NEW S, NEW texts \in Seq(S), NEW t, NEW undo \in Seq(Transactions),
           IsPast(texts, undo, t), undo # <<>>
    PROVE  /\ texts # <<>> /\ Turns(Last(undo).edit, Last(texts), t)
           /\ IsPast(Front(texts), Front(undo), Last(texts))
<1>1. Len(texts) = Len(undo) /\ \A i \in 1..Len(undo) : Turns(undo[i].edit, texts[i], Above(texts, i, t))
  BY DEF IsPast
<1>2. texts # <<>>
  BY <1>1
<1>3. /\ Len(texts) \in Nat /\ Len(texts) >= 1
      /\ Front(texts) \in Seq(S) /\ Len(Front(texts)) = Len(texts) - 1
      /\ \A i \in 1..(Len(texts) - 1) : Front(texts)[i] = texts[i]
      /\ Last(texts) = texts[Len(texts)]
  BY <1>2, FrontLast
<1>4. /\ Front(undo) \in Seq(Transactions) /\ Len(Front(undo)) = Len(undo) - 1
      /\ \A i \in 1..(Len(undo) - 1) : Front(undo)[i] = undo[i]
      /\ Last(undo) = undo[Len(undo)]
  BY FrontLast
<1>5. Turns(Last(undo).edit, Last(texts), t)
  <2>1. Len(undo) \in 1..Len(undo) /\ Above(texts, Len(undo), t) = t
    BY <1>1, <1>3 DEF Above
  <2>. QED  BY <1>1, <1>3, <1>4, <2>1
<1>6. ASSUME NEW i \in 1..(Len(undo) - 1)
      PROVE  Turns(Front(undo)[i].edit, Front(texts)[i], Above(Front(texts), i, Last(texts)))
  <2>1. Above(Front(texts), i, Last(texts)) = Above(texts, i, t)
    BY <1>1, <1>2, AboveFront
  <2>2. i \in 1..Len(undo)
    BY <1>1, <1>3
  <2>. QED  BY <1>1, <1>3, <1>4, <2>1, <2>2
<1>. QED  BY <1>1, <1>2, <1>3, <1>4, <1>5, <1>6 DEF IsPast

LEMMA PastSame ==
    ASSUME NEW S, NEW p \in Seq(S), NEW q \in Seq(S), NEW t, NEW undo \in Seq(Transactions),
           IsPast(p, undo, t), IsPast(q, undo, t)
    PROVE  p = q
<1>1. Len(p) = Len(undo) /\ Len(q) = Len(undo)
  BY DEF IsPast
<1>2. ASSUME NEW i \in 1..Len(p), i = Len(p) \/ p[i + 1] = q[i + 1]
      PROVE  p[i] = q[i]
  <2>1. Above(p, i, t) = Above(q, i, t)
    BY <1>1, <1>2 DEF Above
  <2>2. Turns(undo[i].edit, p[i], Above(p, i, t)) /\ Turns(undo[i].edit, q[i], Above(q, i, t))
    BY <1>1 DEF IsPast
  <2>. QED  BY <2>1, <2>2 DEF Turns
<1>. QED  BY <1>1, <1>2, SameFromTop

LEMMA FuturePush ==
    ASSUME NEW S, NEW texts \in Seq(S), NEW b \in S, NEW a, NEW redo \in Seq(Transactions),
           NEW tx \in Transactions, IsFuture(texts, redo, b), Turns(tx.edit, a, b)
    PROVE  IsFuture(Append(texts, b), Append(redo, tx), a)
<1>1. /\ Append(texts, b) \in Seq(S) /\ Len(Append(texts, b)) = Len(texts) + 1
      /\ \A i \in 1..Len(texts) : Append(texts, b)[i] = texts[i]
      /\ Append(texts, b)[Len(texts) + 1] = b
  BY Appended
<1>2. /\ Append(redo, tx) \in Seq(Transactions) /\ Len(Append(redo, tx)) = Len(redo) + 1
      /\ \A i \in 1..Len(redo) : Append(redo, tx)[i] = redo[i]
      /\ Append(redo, tx)[Len(redo) + 1] = tx
  BY Appended
<1>3. Len(texts) = Len(redo) /\ \A i \in 1..Len(redo) : Turns(redo[i].edit, Above(texts, i, b), texts[i])
  BY DEF IsFuture
<1>4. ASSUME NEW i \in 1..(Len(redo) + 1)
      PROVE  Turns(Append(redo, tx)[i].edit, Above(Append(texts, b), i, a), Append(texts, b)[i])
  <2>1. CASE i \in 1..Len(redo)
    <3>1. Above(Append(texts, b), i, a) = Above(texts, i, b)
      BY <1>3, <2>1, AboveAppend
    <3>. QED  BY <1>1, <1>2, <1>3, <2>1, <3>1
  <2>2. CASE i = Len(redo) + 1
    <3>1. Above(Append(texts, b), i, a) = a
      BY <1>3, <2>2, AboveAppend
    <3>2. Append(redo, tx)[i] = tx /\ Append(texts, b)[i] = b
      BY <1>1, <1>2, <1>3, <2>2
    <3>. QED  BY <3>1, <3>2
  <2>3. i \in 1..Len(redo) \/ i = Len(redo) + 1
    OBVIOUS
  <2>. QED  BY <2>1, <2>2, <2>3
<1>. QED  BY <1>1, <1>2, <1>3, <1>4 DEF IsFuture

LEMMA FuturePop ==
    ASSUME NEW S, NEW texts \in Seq(S), NEW t, NEW redo \in Seq(Transactions),
           IsFuture(texts, redo, t), redo # <<>>
    PROVE  /\ texts # <<>> /\ Turns(Last(redo).edit, t, Last(texts))
           /\ IsFuture(Front(texts), Front(redo), Last(texts))
<1>1. Len(texts) = Len(redo) /\ \A i \in 1..Len(redo) : Turns(redo[i].edit, Above(texts, i, t), texts[i])
  BY DEF IsFuture
<1>2. texts # <<>>
  BY <1>1
<1>3. /\ Len(texts) \in Nat /\ Len(texts) >= 1
      /\ Front(texts) \in Seq(S) /\ Len(Front(texts)) = Len(texts) - 1
      /\ \A i \in 1..(Len(texts) - 1) : Front(texts)[i] = texts[i]
      /\ Last(texts) = texts[Len(texts)]
  BY <1>2, FrontLast
<1>4. /\ Front(redo) \in Seq(Transactions) /\ Len(Front(redo)) = Len(redo) - 1
      /\ \A i \in 1..(Len(redo) - 1) : Front(redo)[i] = redo[i]
      /\ Last(redo) = redo[Len(redo)]
  BY FrontLast
<1>5. Turns(Last(redo).edit, t, Last(texts))
  <2>1. Len(redo) \in 1..Len(redo) /\ Above(texts, Len(redo), t) = t
    BY <1>1, <1>3 DEF Above
  <2>. QED  BY <1>1, <1>3, <1>4, <2>1
<1>6. ASSUME NEW i \in 1..(Len(redo) - 1)
      PROVE  Turns(Front(redo)[i].edit, Above(Front(texts), i, Last(texts)), Front(texts)[i])
  <2>1. Above(Front(texts), i, Last(texts)) = Above(texts, i, t)
    BY <1>1, <1>2, AboveFront
  <2>2. i \in 1..Len(redo)
    BY <1>1, <1>3
  <2>. QED  BY <1>1, <1>3, <1>4, <2>1, <2>2
<1>. QED  BY <1>1, <1>2, <1>3, <1>4, <1>5, <1>6 DEF IsFuture

LEMMA FutureSame ==
    ASSUME NEW S, NEW p \in Seq(S), NEW q \in Seq(S), NEW t, NEW redo \in Seq(Transactions),
           IsFuture(p, redo, t), IsFuture(q, redo, t)
    PROVE  p = q
<1>1. Len(p) = Len(redo) /\ Len(q) = Len(redo)
  BY DEF IsFuture
<1>2. ASSUME NEW i \in 1..Len(p), i = Len(p) \/ p[i + 1] = q[i + 1]
      PROVE  p[i] = q[i]
  <2>1. Above(p, i, t) = Above(q, i, t)
    BY <1>1, <1>2 DEF Above
  <2>2. Turns(redo[i].edit, Above(p, i, t), p[i]) /\ Turns(redo[i].edit, Above(q, i, t), q[i])
    BY <1>1 DEF IsFuture
  <2>. QED  BY <2>1, <2>2 DEF Turns
<1>. QED  BY <1>1, <1>2, SameFromTop

(* Forgetting the oldest transactions forgets the oldest texts. *)
LEMMA PastDropped ==
    ASSUME NEW S, NEW texts \in Seq(S), NEW t, NEW undo \in Seq(Transactions),
           IsPast(texts, undo, t), NEW n \in 0..Len(undo)
    PROVE  IsPast(SubSeq(texts, n + 1, Len(texts)), SubSeq(undo, n + 1, Len(undo)), t)
<1>1. Len(texts) = Len(undo) /\ \A i \in 1..Len(undo) : Turns(undo[i].edit, texts[i], Above(texts, i, t))
  BY DEF IsPast
<1>2. /\ SubSeq(texts, n + 1, Len(texts)) \in Seq(S)
      /\ Len(SubSeq(texts, n + 1, Len(texts))) = Len(texts) - n
      /\ \A i \in 1..(Len(texts) - n) : SubSeq(texts, n + 1, Len(texts))[i] = texts[n + i]
  BY <1>1, Dropped
<1>3. /\ SubSeq(undo, n + 1, Len(undo)) \in Seq(Transactions)
      /\ Len(SubSeq(undo, n + 1, Len(undo))) = Len(undo) - n
      /\ \A i \in 1..(Len(undo) - n) : SubSeq(undo, n + 1, Len(undo))[i] = undo[n + i]
  BY Dropped
<1>4. ASSUME NEW i \in 1..(Len(undo) - n)
      PROVE  Turns(SubSeq(undo, n + 1, Len(undo))[i].edit, SubSeq(texts, n + 1, Len(texts))[i],
                   Above(SubSeq(texts, n + 1, Len(texts)), i, t))
  <2>1. n + i \in 1..Len(undo)
    OBVIOUS
  <2>2. Above(SubSeq(texts, n + 1, Len(texts)), i, t) = Above(texts, n + i, t)
    BY <1>1, AboveDropped
  <2>. QED  BY <1>1, <1>2, <1>3, <2>1, <2>2
<1>. QED  BY <1>1, <1>2, <1>3, <1>4 DEF IsPast

LEMMA PastChosen ==
    ASSUME NEW S, NEW undo \in Seq(Transactions), NEW t, NEW p \in Seq(S), IsPast(p, undo, t)
    PROVE  (CHOOSE texts \in [1..Len(undo) -> S] : IsPast(texts, undo, t)) = p
<1>1. p \in [1..Len(undo) -> S]
  BY DEF IsPast
<1>2. ASSUME NEW q \in [1..Len(undo) -> S], IsPast(q, undo, t) PROVE q = p
  <2>1. q \in Seq(S)
    OBVIOUS
  <2>. QED  BY <1>2, <2>1, PastSame
<1>. QED  BY <1>1, <1>2

LEMMA FutureChosen ==
    ASSUME NEW S, NEW redo \in Seq(Transactions), NEW t, NEW p \in Seq(S), IsFuture(p, redo, t)
    PROVE  (CHOOSE texts \in [1..Len(redo) -> S] : IsFuture(texts, redo, t)) = p
<1>1. p \in [1..Len(redo) -> S]
  BY DEF IsFuture
<1>2. ASSUME NEW q \in [1..Len(redo) -> S], IsFuture(q, redo, t) PROVE q = p
  <2>1. q \in Seq(S)
    OBVIOUS
  <2>. QED  BY <1>2, <2>1, FutureSame
<1>. QED  BY <1>1, <1>2

LEMMA PastCut ==
    ASSUME NEW S, NEW E \in SUBSET Transactions, NEW texts \in Seq(S), NEW t, NEW undo \in Seq(E),
           IsPast(texts, undo, t)
    PROVE  Cut(undo) \in Seq(E) /\ Cut(texts) \in Seq(S) /\ IsPast(Cut(texts), Cut(undo), t)
<1>1. Len(texts) = Len(undo) /\ Len(undo) \in Nat /\ undo \in Seq(Transactions)
  BY DEF IsPast
<1>2. CASE Len(undo) <= HistoryLimit
  BY <1>1, <1>2 DEF Cut
<1>3. CASE ~(Len(undo) <= HistoryLimit)
  <2> DEFINE n == Len(undo) - HistoryLimit
  <2>1. n \in 0..Len(undo)
    BY <1>1, <1>3, LimitAssumption
  <2>2. /\ Cut(undo) = SubSeq(undo, n + 1, Len(undo))
        /\ Cut(texts) = SubSeq(texts, n + 1, Len(texts))
    BY <1>1, <1>3 DEF Cut
  <2> HIDE DEF n
  <2>3. SubSeq(undo, n + 1, Len(undo)) \in Seq(E)
    BY <2>1, Dropped
  <2>4. SubSeq(texts, n + 1, Len(texts)) \in Seq(S)
    BY <1>1, <2>1, Dropped
  <2>. QED  BY <1>1, <2>1, <2>2, <2>3, <2>4, PastDropped
<1>. QED  BY <1>2, <1>3

-----------------------------------------------------------------------------
(* What the operations do to the meaning.  E is any set of transactions that a
   difference between two of the texts is in. *)

Differences(T, E) ==
    \A b, a \in T, key \in Keys \cup {NoKey} : Transaction(DiffText(b, a), key) \in E

LEMMA PushMeans ==
    ASSUME NEW T \in SUBSET Seq(Units), NEW E \in SUBSET Transactions, Differences(T, E),
           NEW h \in Histories, h.undo \in Seq(E), NEW b \in T, NEW a \in T,
           NEW key \in Keys \cup {NoKey}, NEW p \in Seq(T), IsPast(p, h.undo, b)
    PROVE  /\ Cut(Append(p, b)) \in Seq(T)
           /\ Push(h, b, a, key).undo \in Seq(E)
           /\ IsPast(Cut(Append(p, b)), Push(h, b, a, key).undo, a)
<1> DEFINE tx == Transaction(DiffText(b, a), key)
           u == Append(h.undo, tx)
<1>1. tx \in E /\ tx.edit = DiffText(b, a) /\ Turns(tx.edit, b, a)
  BY DiffTurns DEF Differences, Transaction
<1>2. u \in Seq(E) /\ Append(p, b) \in Seq(T) /\ h.undo \in Seq(Transactions)
  BY <1>1
<1>3. Push(h, b, a, key).undo = Cut(u)
  BY DEF Push
<1> HIDE DEF tx
<1>4. IsPast(Append(p, b), u, a)
  BY <1>1, <1>2, PastPush
<1>. QED  BY <1>2, <1>3, <1>4, PastCut

LEMMA MergeMeans ==
    ASSUME NEW T \in SUBSET Seq(Units), NEW E \in SUBSET Transactions, Differences(T, E),
           NEW h \in Histories, h.undo \in Seq(E), h.undo # <<>>, NEW b \in T, NEW a \in T,
           NEW p \in Seq(T), IsPast(p, h.undo, b)
    PROVE  /\ p # <<>> /\ (IF a = Last(p) THEN Front(p) ELSE p) \in Seq(T)
           /\ Merge(h, b, a).undo \in Seq(E)
           /\ IsPast(IF a = Last(p) THEN Front(p) ELSE p, Merge(h, b, a).undo, a)
<1>1. h.undo \in Seq(Transactions)
  OBVIOUS
<1>2. /\ p # <<>> /\ Turns(Last(h.undo).edit, Last(p), b)
      /\ IsPast(Front(p), Front(h.undo), Last(p))
  BY <1>1, PastPop
<1>3. /\ Front(p) \in Seq(T) /\ Last(p) \in T /\ Append(Front(p), Last(p)) = p
  <2>1. /\ Len(p) \in Nat /\ Len(p) >= 1 /\ Front(p) \in Seq(T) /\ Len(Front(p)) = Len(p) - 1
        /\ \A i \in 1..(Len(p) - 1) : Front(p)[i] = p[i]
        /\ Last(p) = p[Len(p)] /\ Last(p) \in T
    BY <1>2, FrontLast
  <2>2. /\ Append(Front(p), Last(p)) \in Seq(T) /\ Len(Append(Front(p), Last(p))) = Len(p)
        /\ \A i \in 1..(Len(p) - 1) : Append(Front(p), Last(p))[i] = Front(p)[i]
        /\ Append(Front(p), Last(p))[Len(p)] = Last(p)
    <3>1. /\ Append(Front(p), Last(p)) \in Seq(T) /\ Len(Append(Front(p), Last(p))) = Len(Front(p)) + 1
          /\ \A i \in 1..Len(Front(p)) : Append(Front(p), Last(p))[i] = Front(p)[i]
          /\ Append(Front(p), Last(p))[Len(Front(p)) + 1] = Last(p)
      BY <2>1, Appended
    <3>2. (Len(p) - 1) + 1 = Len(p)
      BY <2>1
    <3>. QED  BY <2>1, <3>1, <3>2
  <2>3. \A i \in 1..Len(p) : i \in 1..(Len(p) - 1) \/ i = Len(p)
    BY <2>1
  <2>4. Append(Front(p), Last(p)) = p
    BY <2>1, <2>2, <2>3, SeqEqual
  <2>. QED  BY <2>1, <2>4
<1>4. Front(h.undo) \in Seq(E) /\ Last(h.undo) \in E
  BY FrontLast
<1> DEFINE tx == Transaction(DiffText(Last(p), a), Last(h.undo).key)
<1>5. ApplyEdit(b, InvertEdit(Last(h.undo).edit)) = Last(p)
  BY <1>2 DEF Turns
<1>6. Merge(h, b, a).undo = IF Last(p) = a THEN Front(h.undo) ELSE Append(Front(h.undo), tx)
  BY <1>5 DEF Merge, Histories
<1>7. CASE a = Last(p)
  BY <1>2, <1>3, <1>4, <1>6, <1>7
<1>8. CASE a # Last(p)
  <2>1. Last(h.undo).key \in Keys \cup {NoKey}
    BY <1>4 DEF Transactions
  <2>2. tx \in E /\ tx.edit = DiffText(Last(p), a)
    BY <1>3, <2>1 DEF Differences, Transaction
  <2>3. Turns(tx.edit, Last(p), a)
    BY <1>3, <2>2, DiffTurns
  <2> HIDE DEF tx
  <2>4. Append(Front(h.undo), tx) \in Seq(E)
    BY <1>4, <2>2
  <2>5. Front(h.undo) \in Seq(Transactions) /\ tx \in Transactions
    BY <1>4, <2>2
  <2>6. IsPast(p, Append(Front(h.undo), tx), a)
    BY <1>2, <1>3, <2>3, <2>5, PastPush
  <2>. QED  BY <1>2, <1>6, <1>8, <2>4, <2>6
<1>. QED  BY <1>7, <1>8

(* The texts to undo to, after an edit that goes on with the last transaction *)
Continued(p, a) == IF a = Last(p) THEN Front(p) ELSE p

(* What the stacks mean after an edit: it is a transaction, or goes on with the last. *)
Extended(T, h, b, a, p, g) ==
    /\ g.redo = <<>> /\ g.sealed = FALSE
    /\ \E q \in Seq(T) :
         /\ IsPast(q, g.undo, a)
         /\ q = Cut(Append(p, b)) \/ (~h.sealed /\ p # <<>> /\ q = Continued(p, a))

(* record *)
LEMMA RecordMeans ==
    ASSUME NEW T \in SUBSET Seq(Units), NEW E \in SUBSET Transactions, Differences(T, E),
           NEW h \in Histories, h.undo \in Seq(E), NEW b \in T, NEW a \in T,
           NEW key \in Keys \cup {NoKey}, NEW p \in Seq(T), IsPast(p, h.undo, b),
           NEW g \in Recorded(h, b, a, key)
    PROVE  g \in Histories /\ g.undo \in Seq(E) /\ Extended(T, h, b, a, p, g)
<1> USE DEF Extended
<1>1. g = Push(h, b, a, key) \/ (Coalesces(h, key) /\ g = Merge(h, b, a))
  BY DEF Recorded
<1> DEFINE u == g.undo
<1>2. CASE g = Push(h, b, a, key)
  <2>1. g.undo \in Seq(E) /\ Cut(Append(p, b)) \in Seq(T) /\ IsPast(Cut(Append(p, b)), g.undo, a)
    BY <1>2, PushMeans
  <2>2. g = [undo |-> u, redo |-> <<>>, sealed |-> FALSE]
    BY <1>2 DEF Push
  <2>3. u \in Seq(Transactions) /\ <<>> \in Seq(Transactions)
    BY <2>1
  <2> HIDE DEF u
  <2>4. g \in Histories
    BY <2>2, <2>3 DEF Histories
  <2>. QED  BY <2>1, <2>2, <2>4
<1>3. CASE Coalesces(h, key) /\ g = Merge(h, b, a)
  <2>1. h.undo # <<>> /\ ~h.sealed /\ h.sealed \in BOOLEAN
    BY <1>3 DEF Coalesces, Histories
  <2>2. /\ p # <<>> /\ Continued(p, a) \in Seq(T)
        /\ g.undo \in Seq(E) /\ IsPast(Continued(p, a), g.undo, a)
    BY <1>3, <2>1, MergeMeans DEF Continued
  <2>3. g = [undo |-> u, redo |-> <<>>, sealed |-> h.sealed]
    BY <1>3 DEF Merge, Histories
  <2>4. u \in Seq(Transactions) /\ <<>> \in Seq(Transactions)
    BY <2>2
  <2> HIDE DEF u
  <2>5. g \in Histories
    BY <2>1, <2>3, <2>4 DEF Histories
  <2>. QED  BY <2>1, <2>2, <2>3, <2>5
<1>. QED  BY <1>1, <1>2, <1>3

(* undo *)
LEMMA UndoMeans ==
    ASSUME NEW T \in SUBSET Seq(Units), NEW E \in SUBSET Transactions,
           NEW h \in Histories, h.undo \in Seq(E), h.redo \in Seq(E), NEW t \in T,
           NEW p \in Seq(T), IsPast(p, h.undo, t), NEW f \in Seq(T), IsFuture(f, h.redo, t),
           h.undo # <<>>
    PROVE  /\ Undone(h) \in Histories /\ Undone(h).undo \in Seq(E) /\ Undone(h).redo \in Seq(E)
           /\ Undone(h).sealed = TRUE
           /\ p # <<>> /\ Front(p) \in Seq(T) /\ Last(p) \in T /\ Append(f, t) \in Seq(T)
           /\ Turns(Last(h.undo).edit, Last(p), t)
           /\ IsPast(Front(p), Undone(h).undo, Last(p))
           /\ IsFuture(Append(f, t), Undone(h).redo, Last(p))
<1>1. h.undo \in Seq(Transactions) /\ h.redo \in Seq(Transactions)
  OBVIOUS
<1>2. /\ p # <<>> /\ Turns(Last(h.undo).edit, Last(p), t)
      /\ IsPast(Front(p), Front(h.undo), Last(p))
  BY <1>1, PastPop
<1>3. Front(p) \in Seq(T) /\ Last(p) \in T /\ Append(f, t) \in Seq(T)
  BY <1>2, FrontLast
<1>4. Front(h.undo) \in Seq(E) /\ Last(h.undo) \in E
  BY FrontLast
<1>5. /\ Undone(h).undo = Front(h.undo) /\ Undone(h).redo = Append(h.redo, Last(h.undo))
      /\ Undone(h).sealed = TRUE
      /\ Undone(h) = [undo |-> Front(h.undo), redo |-> Append(h.redo, Last(h.undo)), sealed |-> TRUE]
  BY DEF Undone
<1>6. Append(h.redo, Last(h.undo)) \in Seq(E)
  BY <1>4
<1>7. Front(h.undo) \in Seq(Transactions) /\ Append(h.redo, Last(h.undo)) \in Seq(Transactions)
      /\ Last(h.undo) \in Transactions
  BY <1>4, <1>6
<1>8. Undone(h) \in Histories
  BY <1>5, <1>7 DEF Histories
<1>9. IsFuture(Append(f, t), Append(h.redo, Last(h.undo)), Last(p))
  BY <1>1, <1>2, <1>7, FuturePush
<1>. QED  BY <1>2, <1>3, <1>4, <1>5, <1>6, <1>8, <1>9

(* redo *)
LEMMA RedoMeans ==
    ASSUME NEW T \in SUBSET Seq(Units), NEW E \in SUBSET Transactions,
           NEW h \in Histories, h.undo \in Seq(E), h.redo \in Seq(E), NEW t \in T,
           NEW p \in Seq(T), IsPast(p, h.undo, t), NEW f \in Seq(T), IsFuture(f, h.redo, t),
           h.redo # <<>>
    PROVE  /\ Redone(h) \in Histories /\ Redone(h).undo \in Seq(E) /\ Redone(h).redo \in Seq(E)
           /\ Redone(h).sealed = TRUE
           /\ f # <<>> /\ Front(f) \in Seq(T) /\ Last(f) \in T /\ Append(p, t) \in Seq(T)
           /\ Turns(Last(h.redo).edit, t, Last(f))
           /\ IsPast(Append(p, t), Redone(h).undo, Last(f))
           /\ IsFuture(Front(f), Redone(h).redo, Last(f))
<1>1. h.undo \in Seq(Transactions) /\ h.redo \in Seq(Transactions)
  OBVIOUS
<1>2. /\ f # <<>> /\ Turns(Last(h.redo).edit, t, Last(f))
      /\ IsFuture(Front(f), Front(h.redo), Last(f))
  BY <1>1, FuturePop
<1>3. Front(f) \in Seq(T) /\ Last(f) \in T /\ Append(p, t) \in Seq(T)
  BY <1>2, FrontLast
<1>4. Front(h.redo) \in Seq(E) /\ Last(h.redo) \in E
  BY FrontLast
<1>5. /\ Redone(h).redo = Front(h.redo) /\ Redone(h).undo = Append(h.undo, Last(h.redo))
      /\ Redone(h).sealed = TRUE
      /\ Redone(h) = [undo |-> Append(h.undo, Last(h.redo)), redo |-> Front(h.redo), sealed |-> TRUE]
  BY DEF Redone
<1>6. Append(h.undo, Last(h.redo)) \in Seq(E)
  BY <1>4
<1>7. Front(h.redo) \in Seq(Transactions) /\ Append(h.undo, Last(h.redo)) \in Seq(Transactions)
      /\ Last(h.redo) \in Transactions
  BY <1>4, <1>6
<1>8. Redone(h) \in Histories
  BY <1>5, <1>7 DEF Histories
<1>9. IsPast(Append(p, t), Append(h.undo, Last(h.redo)), Last(f))
  BY <1>1, <1>2, <1>7, PastPush
<1>. QED  BY <1>2, <1>3, <1>4, <1>5, <1>6, <1>8, <1>9
=============================================================================
