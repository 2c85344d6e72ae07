---------------------------- MODULE Spool_proofs ----------------------------
(***************************************************************************)
(* The theorems about Spool, for any payloads, lengths and limits and any  *)
(* number of crashes, failing file operations and damaged cells.  First    *)
(* what a walk from header to header finds in a file, in a part of it and  *)
(* in two files put together; then the invariant and the steps that keep   *)
(* it.                                                                     *)
(***************************************************************************)
EXTENDS Spool, WellFoundedInduction, TLAPS

-----------------------------------------------------------------------------
(* Sequences; the least and the greatest of some numbers. *)

\* Two sequences with the same cells are the same.
LEMMA SameSeq ==
  ASSUME NEW S, NEW s \in Seq(S), NEW t \in Seq(S), Len(s) = Len(t), \A k \in 1 .. Len(s) : s[k] = t[k]
  PROVE  s = t
  OBVIOUS

\* A set of numbers has a least one.
LEMMA Least ==
  ASSUME NEW S \in SUBSET Nat, S # {} PROVE \E n \in S : \A m \in S : n <= m
<1>1. PICK n \in S : \A m \in S : <<m, n>> \notin OpToRel(<, Nat)
  BY NatLessThanWellFounded, WFMin, Zenon
<1>2. \A m \in S : ~(m < n)
  BY <1>1, Zenon DEF OpToRel
<1>3. QED
  BY <1>2

\* Min and Max of a set of positions are its least and its greatest member.
LEMMA Extremes ==
  ASSUME NEW n \in Nat, NEW S \in SUBSET (0 .. n), S # {}
  PROVE  /\ Min(S) \in S /\ \A m \in S : Min(S) <= m
         /\ Max(S) \in S /\ \A m \in S : m <= Max(S)
<1>1. \E m \in S : \A k \in S : m <= k
  <2>1. S \in SUBSET Nat
    OBVIOUS
  <2>2. QED
    BY <2>1, Least, Zenon
<1>2. \E m \in S : \A k \in S : m >= k
  <2> DEFINE T == {n - k : k \in S}
  <2>1. T \in SUBSET Nat /\ T # {}
    <3>1. \A k \in S : n - k \in Nat
      OBVIOUS
    <3>2. QED
      BY <3>1, Zenon
  <2>2. PICK t \in T : \A u \in T : t <= u
    <3> HIDE DEF T
    <3> QED  BY <2>1, Least, Zenon
  <2>3. PICK m \in S : t = n - m
    BY <2>2
  <2>4. ASSUME NEW k \in S PROVE m >= k
    <3>1. n - k \in T
      BY Zenon
    <3>2. n - m <= n - k
      BY <2>2, <2>3, <3>1, Zenon
    <3>3. m \in Int /\ k \in Int
      OBVIOUS
    <3>4. QED
      BY <3>2, <3>3
  <2>5. QED
    BY <2>4, Zenon
<1>3. Min(S) \in S /\ \A m \in S : Min(S) <= m
  BY <1>1, Zenon DEF Min
<1>4. Max(S) \in S /\ \A m \in S : Max(S) >= m
  BY <1>2, Zenon DEF Max
<1>5. QED
  BY <1>3, <1>4

-----------------------------------------------------------------------------
(* Headers. *)

\* A file is any sequence of cells, torn and damaged ones included.
File == Seq(Cell)

\* A cell has an owner and a number.
LEMMA CellFacts ==
  ASSUME NEW c \in Cell
  PROVE  c[1] \in Payload \cup {0} /\ c[2] \in Nat /\ c = <<c[1], c[2]>>
  BY BoundAssumption DEF Cell, HeaderSize

\* The cells of a file.
LEMMA FileFacts ==
  ASSUME NEW f \in File
  PROVE  Len(f) \in Nat /\ DOMAIN f = 1 .. Len(f) /\ \A k \in 1 .. Len(f) : f[k] \in Cell
  BY DEF File

\* A length that is read is a number.
LEMMA LengthType ==
  ASSUME NEW f \in File, NEW q \in Nat, q + 2 <= Len(f)
  PROVE  LengthAt(f, q) \in Nat
<1>1. f[q + 2] \in Cell
  BY FileFacts
<1>2. f[q + 2][1] \in Payload \cup {0} /\ f[q + 2][2] \in Nat
  BY <1>1, CellFacts, Zenon
<1>3. MaxPayload + 1 \in Nat
  BY BoundAssumption
<1>4. f[q + 2][1] # 0 => LenOf[f[q + 2][1]] \in Nat
  BY <1>2, PayloadAssumption
<1>5. QED
  BY <1>2, <1>3, <1>4, Zenon DEF LengthAt

\* A whole record ends behind its header and within the file.
LEMMA WholeEnd ==
  ASSUME NEW f \in File, NEW q \in Nat, Whole(f, q)
  PROVE  /\ LengthAt(f, q) \in 0 .. MaxPayload /\ q + 2 <= Len(f)
         /\ EndAt(f, q) = q + 2 + LengthAt(f, q) /\ EndAt(f, q) \in q + 2 .. Len(f)
<1>1. Len(f) \in Nat /\ q + 2 <= Len(f)
  BY FileFacts DEF Whole, HeaderSize
<1>2. LengthAt(f, q) \in Nat
  BY <1>1, LengthType
<1>3. LengthAt(f, q) <= MaxPayload /\ EndAt(f, q) <= Len(f)
  BY Zenon DEF Whole, ValidHeader
<1>4. EndAt(f, q) = q + 2 + LengthAt(f, q)
  BY DEF EndAt, HeaderSize
<1>5. QED
  BY <1>1, <1>2, <1>3, <1>4, BoundAssumption

\* What is read of a record depends on its cells only.
LEMMA SameCells ==
  ASSUME NEW f \in File, NEW h \in File, NEW d \in Nat, NEW q \in Nat,
         Whole(f, q + d), EndAt(f, q + d) <= Len(h) + d,
         \A k \in q + 1 .. EndAt(f, q + d) - d : h[k] = f[k + d]
  PROVE  /\ Whole(h, q) /\ EndAt(h, q) = EndAt(f, q + d) - d
         /\ Intact(h, q) <=> Intact(f, q + d)
         /\ h[q + 2][1] = f[q + d + 2][1]
<1> DEFINE e == EndAt(f, q + d)
           l == LengthAt(f, q + d)
           n == Len(h)
           x == EndAt(h, q)
<1>1. l \in Nat /\ n \in Nat /\ e = q + d + 2 + l /\ e <= n + d
  <2>1. q + d \in Nat
    OBVIOUS
  <2>2. l \in 0 .. MaxPayload /\ e = q + d + 2 + l
    BY <2>1, WholeEnd, Zenon
  <2>3. n \in Nat
    BY FileFacts, Zenon
  <2> HIDE DEF l
  <2>4. l \in Nat
    BY <2>2, BoundAssumption
  <2>5. QED
    BY <2>2, <2>3, <2>4, Zenon
<1>2. e \in Nat /\ q + 2 <= n /\ q + 1 \in q + 1 .. e - d /\ q + 2 \in q + 1 .. e - d
  <2> HIDE DEF e, l, n
  <2> QED  BY <1>1
<1>3. h[q + 1] = f[q + d + 1] /\ h[q + 2] = f[q + d + 2]
  <2>1. (q + 1) + d = q + d + 1 /\ (q + 2) + d = q + d + 2
    OBVIOUS
  <2>2. h[q + 1] = f[(q + 1) + d] /\ h[q + 2] = f[(q + 2) + d]
    BY <1>2, Zenon
  <2>3. QED
    BY <2>1, <2>2, Zenon
<1>4. LengthAt(h, q) = l
  BY <1>3, Zenon DEF LengthAt
<1>5. x = e - d
  <2>1. x = q + 2 + l
    BY <1>4, Zenon DEF EndAt, HeaderSize
  <2> HIDE DEF x, e, l, n
  <2>2. QED
    BY <1>1, <2>1
<1>6. Whole(h, q)
  <2>1. ValidHeader(h, q)
    BY <1>3, <1>4, Zenon DEF ValidHeader, Whole
  <2>2. n - q >= 2 /\ x <= n
    <3> HIDE DEF x, e, l, n
    <3> QED  BY <1>1, <1>2, <1>5
  <2>3. QED
    BY <2>1, <2>2, Zenon DEF Whole, HeaderSize
<1>7. Intact(h, q) <=> Intact(f, q + d)
  <2>1. e - (q + d) = x - q /\ x - q \in Nat
    <3> HIDE DEF x, e, l, n
    <3> QED  BY <1>1, <1>2, <1>5
  <2>2. ASSUME NEW k \in 2 .. x - q PROVE h[q + k] = f[q + d + k]
    <3>1. q + k \in q + 1 .. e - d /\ (q + k) + d = q + d + k
      <4> HIDE DEF x, e, l, n
      <4> QED  BY <1>2, <1>5
    <3>2. h[q + k] = f[(q + k) + d]
      BY <3>1, Zenon
    <3>3. QED
      BY <3>1, <3>2, Zenon
  <2>3. QED
    BY <1>3, <2>1, <2>2, Zenon DEF Intact
<1>8. QED
  BY <1>3, <1>5, <1>6, <1>7, Zenon

-----------------------------------------------------------------------------
(* The walk from header to header.  Boundaries is the smallest set of      *)
(* positions that has the start and, with a whole record, its end.         *)

\* g is the function by which Boundaries walks through f.
Walks(f, g) ==
  g = [q \in 0 .. Len(f) |-> {q} \cup IF Whole(f, q) THEN g[EndAt(f, q)] ELSE {}]

\* B has the end of every whole record that begins in it.
Closed(f, B) == \A b \in B : Whole(f, b) => EndAt(f, b) \in B

\* The positions that no closed set with q can leave out.
Reach(f, q) ==
  {b \in 0 .. Len(f) : \A B \in SUBSET (0 .. Len(f)) : q \in B /\ Closed(f, B) => b \in B}

\* What is reached from q begins with q, goes on from record to record, does not
\* go back, and is the least such set.
LEMMA ReachFacts ==
  ASSUME NEW f \in File, NEW q \in 0 .. Len(f)
  PROVE  /\ q \in Reach(f, q) /\ Reach(f, q) \subseteq q .. Len(f) /\ Closed(f, Reach(f, q))
         /\ \A B \in SUBSET (0 .. Len(f)) : q \in B /\ Closed(f, B) => Reach(f, q) \subseteq B
<1>0. Len(f) \in Nat
  BY FileFacts
<1>1. q \in Reach(f, q)
  BY Zenon DEF Reach
<1>2. ASSUME NEW B \in SUBSET (0 .. Len(f)), q \in B, Closed(f, B)
      PROVE  Reach(f, q) \subseteq B
  BY <1>2, Zenon DEF Reach
<1>3. Reach(f, q) \subseteq q .. Len(f)
  <2> DEFINE B == q .. Len(f)
  <2>1. B \in SUBSET (0 .. Len(f)) /\ q \in B
    BY <1>0
  <2>2. ASSUME NEW b \in B, Whole(f, b) PROVE EndAt(f, b) \in B
    <3>1. b \in Nat
      BY <1>0
    <3>2. EndAt(f, b) \in b + 2 .. Len(f)
      BY <2>2, <3>1, WholeEnd, Zenon
    <3>3. QED
      BY <1>0, <3>1, <3>2
  <2>3. Closed(f, B)
    BY <2>2, Zenon DEF Closed
  <2> HIDE DEF B
  <2>4. Reach(f, q) \subseteq B
    BY <1>2, <2>1, <2>3, Zenon
  <2>5. QED
    BY <2>4, Zenon DEF B
<1>4. Closed(f, Reach(f, q))
  <2> SUFFICES ASSUME NEW b \in Reach(f, q), Whole(f, b) PROVE EndAt(f, b) \in Reach(f, q)
    BY Zenon DEF Closed
  <2>1. b \in 0 .. Len(f)
    BY Zenon DEF Reach
  <2>2. EndAt(f, b) \in 0 .. Len(f)
    <3>1. b \in Nat
      BY <1>0, <2>1
    <3>2. EndAt(f, b) \in b + 2 .. Len(f)
      BY <3>1, WholeEnd, Zenon
    <3>3. QED
      BY <1>0, <3>1, <3>2
  <2>3. ASSUME NEW B \in SUBSET (0 .. Len(f)), q \in B, Closed(f, B) PROVE EndAt(f, b) \in B
    <3>1. b \in B
      BY <2>3, Zenon DEF Reach
    <3>2. QED
      BY <2>3, <3>1, Zenon DEF Closed
  <2>4. QED
    BY <2>2, <2>3, Zenon DEF Reach
<1>5. QED
  BY <1>1, <1>2, <1>3, <1>4, Zenon

\* It is q itself, and what is reached from the end of the record there.
LEMMA ReachUnfold ==
  ASSUME NEW f \in File, NEW q \in 0 .. Len(f)
  PROVE  Reach(f, q) = {q} \cup IF Whole(f, q) THEN Reach(f, EndAt(f, q)) ELSE {}
<1> DEFINE e == EndAt(f, q)
           R == {q} \cup IF Whole(f, q) THEN Reach(f, e) ELSE {}
<1>0. Whole(f, q) => e \in 0 .. Len(f)
  <2>1. q \in Nat /\ Len(f) \in Nat
    BY FileFacts
  <2>2. Whole(f, q) => e \in q + 2 .. Len(f)
    BY <2>1, WholeEnd, Zenon
  <2>3. QED
    BY <2>1, <2>2
<1> HIDE DEF e
<1>1. Reach(f, q) \subseteq R
  <2>1. R \in SUBSET (0 .. Len(f)) /\ q \in R
    BY <1>0, Zenon DEF Reach
  <2>2. ASSUME NEW b \in R, Whole(f, b) PROVE EndAt(f, b) \in R
    <3>1. CASE b = q
      <4>1. e \in Reach(f, e)
        BY <1>0, <2>2, <3>1, ReachFacts, Zenon
      <4>2. QED
        BY <2>2, <3>1, <4>1, Zenon DEF e
    <3>2. CASE b # q
      <4>1. Whole(f, q) /\ b \in Reach(f, e)
        BY <3>2, Zenon
      <4>2. Closed(f, Reach(f, e))
        BY <1>0, <4>1, ReachFacts, Zenon
      <4>3. EndAt(f, b) \in Reach(f, e)
        BY <2>2, <4>1, <4>2, Zenon DEF Closed
      <4>4. QED
        BY <4>1, <4>3, Zenon
    <3>3. QED
      BY <3>1, <3>2, Zenon
  <2>3. Closed(f, R)
    BY <2>2, Zenon DEF Closed
  <2> HIDE DEF R
  <2>4. QED
    BY <2>1, <2>3, ReachFacts, Zenon
<1>2. R \subseteq Reach(f, q)
  <2>1. q \in Reach(f, q)
    BY ReachFacts, Zenon
  <2>2. ASSUME Whole(f, q) PROVE Reach(f, e) \subseteq Reach(f, q)
    <3>1. Closed(f, Reach(f, q)) /\ Reach(f, q) \in SUBSET (0 .. Len(f))
      <4>1. Closed(f, Reach(f, q))
        BY ReachFacts, Zenon
      <4>2. QED
        BY <4>1, Zenon DEF Reach
    <3>2. e \in Reach(f, q)
      BY <2>1, <2>2, <3>1, Zenon DEF Closed, e
    <3>3. QED
      BY <1>0, <2>2, <3>1, <3>2, ReachFacts, Zenon
  <2>3. QED
    BY <2>1, <2>2, Zenon
<1>3. QED
  BY <1>1, <1>2, Zenon DEF e

\* Boundaries is what is reached from the start.
LEMMA BoundariesReach == ASSUME NEW f \in File PROVE Boundaries(f) = Reach(f, 0)
<1> DEFINE g == CHOOSE h : Walks(f, h)
           r == [q \in 0 .. Len(f) |-> Reach(f, q)]
<1>0. Len(f) \in Nat /\ 0 \in 0 .. Len(f)
  BY FileFacts
<1>1. Boundaries(f) = g[0]
  BY Zenon DEF Boundaries, Walks
<1>2. Walks(f, r)
  <2> DEFINE s == [q \in 0 .. Len(f) |-> {q} \cup IF Whole(f, q) THEN r[EndAt(f, q)] ELSE {}]
  <2>1. ASSUME NEW q \in 0 .. Len(f) PROVE r[q] = s[q]
    <3>1. CASE Whole(f, q)
      <4>1. EndAt(f, q) \in 0 .. Len(f)
        <5>1. q \in Nat
          BY <1>0
        <5>2. EndAt(f, q) \in q + 2 .. Len(f)
          BY <3>1, <5>1, WholeEnd, Zenon
        <5>3. QED
          BY <1>0, <5>1, <5>2
      <4>2. r[EndAt(f, q)] = Reach(f, EndAt(f, q))
        BY <4>1, Zenon
      <4>3. QED
        BY <3>1, <4>2, ReachUnfold, Zenon
    <3>2. CASE ~Whole(f, q)
      BY <3>2, ReachUnfold, Zenon
    <3>3. QED
      BY <3>1, <3>2, Zenon
  <2>2. r = s
    BY <2>1, Zenon
  <2>3. QED
    BY <2>2, Zenon DEF Walks
<1> HIDE DEF r
<1>3. Walks(f, g)
  BY <1>2, Zenon
<1> HIDE DEF g
<1>4. \A q \in 0 .. Len(f) : g[q] = {q} \cup IF Whole(f, q) THEN g[EndAt(f, q)] ELSE {}
  BY <1>3, Zenon DEF Walks
<1> DEFINE C == {q \in 0 .. Len(f) : g[q] # Reach(f, q)}
<1>5. SUFFICES ASSUME C # {} PROVE FALSE
  BY <1>0, <1>1, Zenon
<1>6. PICK q \in C : \A c \in C : c <= q
  <2>1. C \in SUBSET (0 .. Len(f))
    BY Zenon
  <2> HIDE DEF C
  <2>2. Max(C) \in C /\ \A c \in C : c <= Max(C)
    BY <1>0, <1>5, <2>1, Extremes, Zenon
  <2>3. QED
    BY <2>2, Zenon
<1>7. CASE Whole(f, q)
  <2>1. q \in Nat
    BY <1>0, <1>6
  <2>2. EndAt(f, q) \in q + 2 .. Len(f)
    BY <1>7, <2>1, WholeEnd, Zenon
  <2>3. EndAt(f, q) \in 0 .. Len(f) /\ ~(EndAt(f, q) <= q)
    BY <1>0, <2>1, <2>2
  <2>4. g[EndAt(f, q)] = Reach(f, EndAt(f, q))
    BY <1>6, <2>3, Zenon
  <2>5. QED
    BY <1>4, <1>6, <1>7, <2>4, ReachUnfold, Zenon
<1>8. CASE ~Whole(f, q)
  BY <1>4, <1>6, <1>8, ReachUnfold, Zenon
<1>9. QED
  BY <1>7, <1>8, Zenon

\* Boundaries begin with the start, lie in the file, go on from record to record,
\* and are in every set of positions that does so.
LEMMA Walk ==
  ASSUME NEW f \in File
  PROVE  /\ 0 \in Boundaries(f) /\ Boundaries(f) \in SUBSET (0 .. Len(f))
         /\ \A b \in Boundaries(f) : Whole(f, b) => EndAt(f, b) \in Boundaries(f)
         /\ \A B \in SUBSET (0 .. Len(f)) : 0 \in B /\ Closed(f, B) => Boundaries(f) \subseteq B
<1>1. Len(f) \in Nat /\ 0 \in 0 .. Len(f)
  BY FileFacts
<1>2. /\ 0 \in Reach(f, 0) /\ Closed(f, Reach(f, 0))
      /\ \A B \in SUBSET (0 .. Len(f)) : 0 \in B /\ Closed(f, B) => Reach(f, 0) \subseteq B
  BY <1>1, ReachFacts, Zenon
<1>3. Reach(f, 0) \in SUBSET (0 .. Len(f))
  BY Zenon DEF Reach
<1>4. QED
  BY <1>2, <1>3, BoundariesReach, Zenon DEF Closed

\* Boundaries are positions, of which one is the last.
LEMMA LastBoundary ==
  ASSUME NEW f \in File
  PROVE  /\ Max(Boundaries(f)) \in Boundaries(f)
         /\ \A b \in Boundaries(f) : b \in Nat /\ b <= Len(f) /\ b <= Max(Boundaries(f))
<1>1. Len(f) \in Nat
  BY FileFacts
<1>2. Boundaries(f) \in SUBSET (0 .. Len(f)) /\ Boundaries(f) # {}
  BY Walk, Zenon
<1>3. Max(Boundaries(f)) \in Boundaries(f) /\ \A b \in Boundaries(f) : b <= Max(Boundaries(f))
  BY <1>1, <1>2, Extremes, Zenon
<1>4. \A b \in Boundaries(f) : b \in Nat /\ b <= Len(f)
  BY <1>1, <1>2
<1>5. QED
  BY <1>3, <1>4, Zenon

\* From a boundary one comes to every later one, through the end of its record.
LEMMA Chain ==
  ASSUME NEW f \in File, NEW b \in Boundaries(f), NEW c \in Boundaries(f), b < c
  PROVE  Whole(f, b) /\ EndAt(f, b) <= c
<1>0. Len(f) \in Nat /\ Boundaries(f) \in SUBSET (0 .. Len(f)) /\ 0 \in Boundaries(f)
  BY FileFacts, Walk, Zenon
<1> DEFINE P == {d \in Boundaries(f) : \A x \in Boundaries(f) : x < d \/ x \in Reach(f, d)}
<1>1. 0 \in P
  BY <1>0, BoundariesReach, Zenon
<1>2. ASSUME NEW d \in P, Whole(f, d) PROVE EndAt(f, d) \in P
  <2>1. EndAt(f, d) \in Boundaries(f)
    BY <1>2, Walk, Zenon
  <2>2. d \in 0 .. Len(f) /\ d \in Nat /\ d < EndAt(f, d)
    <3>1. d \in 0 .. Len(f) /\ d \in Nat
      BY <1>0
    <3>2. EndAt(f, d) \in d + 2 .. Len(f)
      BY <1>2, <3>1, WholeEnd, Zenon
    <3>3. QED
      BY <1>0, <3>1, <3>2
  <2>3. Reach(f, d) = {d} \cup Reach(f, EndAt(f, d))
    BY <1>2, <2>2, ReachUnfold, Zenon
  <2>4. ASSUME NEW x \in Boundaries(f) PROVE x < EndAt(f, d) \/ x \in Reach(f, EndAt(f, d))
    <3>1. x \in Nat /\ EndAt(f, d) \in Nat
      BY <1>0, <2>1
    <3>2. x < d \/ x \in Reach(f, d)
      BY Zenon
    <3>3. x < d \/ x = d \/ x \in Reach(f, EndAt(f, d))
      BY <2>3, <3>2, Zenon
    <3>4. x < d => x < EndAt(f, d)
      BY <2>2, <3>1
    <3>5. QED
      BY <2>2, <3>3, <3>4, Zenon
  <2>5. QED
    BY <2>1, <2>4, Zenon
<1>3. P \in SUBSET (0 .. Len(f)) /\ Closed(f, P)
  BY <1>0, <1>2, Zenon DEF Closed
<1>4. b \in P
  <2> HIDE DEF P
  <2>1. Boundaries(f) \subseteq P
    BY <1>1, <1>3, Walk, Zenon
  <2>2. QED
    BY <2>1, Zenon
<1>5. b \in Nat /\ c \in Nat /\ b \in 0 .. Len(f)
  BY <1>0
<1>6. c \in Reach(f, b)
  <2>1. ~(c < b)
    BY <1>5
  <2>2. QED
    BY <1>4, <2>1, Zenon
<1>7. Whole(f, b) /\ c \in Reach(f, EndAt(f, b))
  <2>1. c # b
    BY <1>5
  <2>2. c \in {b} \cup IF Whole(f, b) THEN Reach(f, EndAt(f, b)) ELSE {}
    BY <1>5, <1>6, ReachUnfold, Zenon
  <2>3. QED
    BY <2>1, <2>2
<1>8. EndAt(f, b) \in 0 .. Len(f)
  BY <1>0, <1>7, Walk, Zenon
<1>9. c \in EndAt(f, b) .. Len(f)
  BY <1>7, <1>8, ReachFacts, Zenon
<1>10. QED
  BY <1>0, <1>7, <1>8, <1>9

\* What a file has up to a boundary decides that it is one.
LEMMA Prefix ==
  ASSUME NEW f \in File, NEW h \in File, NEW b \in Boundaries(f), b <= Len(h),
         \A k \in 1 .. b : h[k] = f[k]
  PROVE  b \in Boundaries(h)
<1>0. /\ Len(f) \in Nat /\ Len(h) \in Nat /\ b \in Nat
      /\ Boundaries(f) \in SUBSET (0 .. Len(f)) /\ 0 \in Boundaries(f) /\ 0 \in Boundaries(h)
  BY FileFacts, Walk, LastBoundary, Zenon
<1> DEFINE P == {c \in Boundaries(f) : b < c \/ c \in Boundaries(h)}
<1>1. ASSUME NEW c \in P, Whole(f, c) PROVE EndAt(f, c) \in P
  <2>1. EndAt(f, c) \in Boundaries(f)
    BY <1>1, Walk, Zenon
  <2>2. CASE b < EndAt(f, c)
    BY <2>1, <2>2, Zenon
  <2>3. CASE ~(b < EndAt(f, c))
    <3>1. c \in Nat /\ EndAt(f, c) \in Nat /\ c < EndAt(f, c)
      <4>1. c \in Nat
        BY <1>0
      <4>2. EndAt(f, c) \in c + 2 .. Len(f)
        BY <1>1, <4>1, WholeEnd, Zenon
      <4>3. QED
        BY <1>0, <4>1, <4>2
    <3>2. c \in Boundaries(h)
      <4>1. ~(b < c)
        BY <1>0, <2>3, <3>1
      <4>2. QED
        BY <4>1, Zenon
    <3>3. Whole(h, c) /\ EndAt(h, c) = EndAt(f, c)
      <4>1. c + 0 = c /\ EndAt(f, c) - 0 = EndAt(f, c) /\ EndAt(f, c) <= Len(h) + 0
        BY <1>0, <2>3, <3>1
      <4>2. \A k \in c + 1 .. EndAt(f, c) - 0 : h[k] = f[k + 0]
        <5> SUFFICES ASSUME NEW k \in c + 1 .. EndAt(f, c) PROVE h[k] = f[k + 0]
          BY <4>1, Zenon
        <5>1. k \in 1 .. b /\ k + 0 = k
          BY <1>0, <2>3, <3>1
        <5>2. QED
          BY <5>1, Zenon
      <4>3. Whole(h, c) /\ EndAt(h, c) = EndAt(f, c + 0) - 0
        <5>1. 0 \in Nat /\ Whole(f, c + 0) /\ EndAt(f, c + 0) <= Len(h) + 0
          BY <1>1, <4>1
        <5>2. \A k \in c + 1 .. EndAt(f, c + 0) - 0 : h[k] = f[k + 0]
          BY <4>1, <4>2
        <5>3. QED
          BY <3>1, <5>1, <5>2, SameCells, Zenon
      <4>4. QED
        BY <4>1, <4>3
    <3>4. QED
      BY <2>1, <3>2, <3>3, Walk, Zenon
  <2>4. QED
    BY <2>2, <2>3, Zenon
<1>2. P \in SUBSET (0 .. Len(f)) /\ Closed(f, P) /\ 0 \in P
  BY <1>0, <1>1, Zenon DEF Closed
<1>3. b \in P
  <2> HIDE DEF P
  <2>1. Boundaries(f) \subseteq P
    BY <1>2, Walk, Zenon
  <2>2. QED
    BY <2>1, Zenon
<1>4. ~(b < b)
  BY <1>0
<1>5. QED
  BY <1>3, <1>4, Zenon

-----------------------------------------------------------------------------
(* Parts of files. *)

\* The cells after m up to n.
LEMMA Part ==
  ASSUME NEW f \in File, NEW m \in Nat, NEW n \in 0 .. Len(f), m <= n
  PROVE  /\ SubSeq(f, m + 1, n) \in File /\ Len(SubSeq(f, m + 1, n)) = n - m
         /\ \A k \in 1 .. n - m : SubSeq(f, m + 1, n)[k] = f[m + k]
<1>1. Len(f) \in Nat /\ n \in Nat /\ n <= Len(f)
  BY FileFacts
<1>2. Len(SubSeq(f, m + 1, n)) = n - m /\ \A k \in 1 .. n - m : SubSeq(f, m + 1, n)[k] = f[m + k]
  BY <1>1 DEF File
<1>3. SubSeq(f, m + 1, n) \in Seq(Cell)
  BY <1>1 DEF File
<1>4. QED
  BY <1>2, <1>3, Zenon DEF File

\* The first n cells.
LEMMA Cut ==
  ASSUME NEW f \in File, NEW n \in 0 .. Len(f)
  PROVE  /\ SubSeq(f, 1, n) \in File /\ Len(SubSeq(f, 1, n)) = n
         /\ \A k \in 1 .. n : SubSeq(f, 1, n)[k] = f[k]
<1>1. 0 \in Nat /\ 0 <= n /\ 0 + 1 = 1 /\ n - 0 = n /\ \A k \in 1 .. n : 0 + k = k
  OBVIOUS
<1> DEFINE g == SubSeq(f, 0 + 1, n)
<1>2. g \in File /\ Len(g) = n - 0 /\ \A k \in 1 .. n - 0 : g[k] = f[0 + k]
  BY <1>1, Part, Zenon
<1>3. g = SubSeq(f, 1, n)
  BY <1>1
<1> HIDE DEF g
<1>4. g \in File /\ Len(g) = n /\ \A k \in 1 .. n : g[k] = f[k]
  BY <1>1, <1>2
<1>5. QED
  BY <1>3, <1>4, Zenon

\* A file and more cells.
LEMMA Joined ==
  ASSUME NEW f \in File, NEW h \in File
  PROVE  /\ f \o h \in File /\ Len(f \o h) = Len(f) + Len(h)
         /\ \A k \in 1 .. Len(f) : (f \o h)[k] = f[k]
         /\ \A k \in 1 .. Len(h) : (f \o h)[Len(f) + k] = h[k]
  BY DEF File

\* The cells of a record that fits.
LEMMA RecordCells ==
  ASSUME NEW p \in Payload, LenOf[p] <= MaxPayload
  PROVE  /\ SizeOf(p) \in Nat /\ SizeOf(p) = 2 + LenOf[p] /\ LenOf[p] \in Nat /\ LenOf[p] > 0
         /\ SizeOf(p) <= MaxBytes
         /\ encodeRecord(p) \in File /\ Len(encodeRecord(p)) = SizeOf(p)
         /\ \A k \in 1 .. SizeOf(p) : encodeRecord(p)[k] = <<p, k>>
<1>1. /\ SizeOf(p) \in Nat /\ SizeOf(p) = 2 + LenOf[p] /\ LenOf[p] \in Nat /\ LenOf[p] > 0
      /\ SizeOf(p) <= MaxBytes /\ SizeOf(p) <= 2 + MaxPayload
  BY PayloadAssumption, BoundAssumption DEF SizeOf, HeaderSize
<1>2. \A k \in 1 .. SizeOf(p) : <<p, k>> \in Cell
  BY <1>1, BoundAssumption DEF Cell, HeaderSize
<1>3. encodeRecord(p) = [k \in 1 .. SizeOf(p) |-> <<p, k>>]
  BY DEF encodeRecord
<1>4. encodeRecord(p) \in Seq(Cell) /\ Len(encodeRecord(p)) = SizeOf(p)
  BY <1>1, <1>2, <1>3
<1>5. \A k \in 1 .. SizeOf(p) : encodeRecord(p)[k] = <<p, k>>
  BY <1>3, Zenon
<1>6. QED
  BY <1>1, <1>4, <1>5, Zenon DEF File

\* A record that h has where f has it is read from h as it is read from f.
LEMMA Same ==
  ASSUME NEW f \in File, NEW h \in File, NEW q \in Nat, Whole(f, q), EndAt(f, q) <= Len(h),
         \A k \in 1 .. EndAt(f, q) : h[k] = f[k]
  PROVE  /\ Whole(h, q) /\ EndAt(h, q) = EndAt(f, q)
         /\ Intact(h, q) <=> Intact(f, q)
         /\ h[q + 2][1] = f[q + 2][1]
<1>1. /\ q + 0 = q /\ 0 \in Nat /\ q + 0 + 2 = q + 2 /\ Len(h) \in Nat
      /\ EndAt(f, q) \in Nat /\ EndAt(f, q) - 0 = EndAt(f, q) /\ Len(h) + 0 = Len(h)
  <2>1. Len(h) \in Nat /\ Len(f) \in Nat
    BY FileFacts, Zenon
  <2>2. EndAt(f, q) \in q + 2 .. Len(f)
    BY WholeEnd, Zenon
  <2>3. QED
    BY <2>1, <2>2
<1>2. \A k \in q + 1 .. EndAt(f, q) : k \in 1 .. EndAt(f, q) /\ k + 0 = k
  BY <1>1
<1>3. \A k \in q + 1 .. EndAt(f, q) : h[k] = f[k + 0]
  BY <1>2
<1>4. /\ Whole(f, q + 0) /\ EndAt(f, q + 0) <= Len(h) + 0
      /\ \A k \in q + 1 .. EndAt(f, q + 0) - 0 : h[k] = f[k + 0]
  BY <1>1, <1>3
<1>5. /\ Whole(h, q) /\ EndAt(h, q) = EndAt(f, q + 0) - 0
      /\ Intact(h, q) <=> Intact(f, q + 0)
      /\ h[q + 2][1] = f[q + 0 + 2][1]
  <2>1. 0 \in Nat
    OBVIOUS
  <2>2. QED
    BY <1>4, <2>1, SameCells, Zenon
<1>6. QED
  BY <1>1, <1>5

\* The intact record of p is after position b of f.
RecordAt(f, b, p) == b \in Boundaries(f) /\ Whole(f, b) /\ Intact(f, b) /\ f[b + 2][1] = p

\* It is, and g is the same as f up to its end.
Safe(f, g, b, p) ==
  /\ RecordAt(f, b, p) /\ EndAt(f, b) <= Len(g)
  /\ \A k \in 1 .. EndAt(f, b) : g[k] = f[k]

\* The place of a record.
LEMMA Place ==
  ASSUME NEW f \in File, NEW b, NEW p, RecordAt(f, b, p)
  PROVE  /\ b \in Nat /\ b + 2 <= EndAt(f, b) /\ EndAt(f, b) \in Nat /\ EndAt(f, b) <= Len(f)
         /\ EndAt(f, b) \in Boundaries(f)
<1>1. b \in Boundaries(f) /\ Whole(f, b)
  BY DEF RecordAt
<1>2. b \in Nat /\ EndAt(f, b) \in Boundaries(f) /\ Len(f) \in Nat
  BY <1>1, Walk, LastBoundary, FileFacts, Zenon
<1>3. EndAt(f, b) \in b + 2 .. Len(f)
  BY <1>1, <1>2, WholeEnd, Zenon
<1>4. QED
  BY <1>2, <1>3

\* A record outlives every change of the two files behind its end, and so does every
\* boundary ahead of it.
LEMMA Carry ==
  ASSUME NEW f \in File, NEW g \in File, NEW F \in File, NEW G \in File, NEW b, NEW p,
         Safe(f, g, b, p), EndAt(f, b) <= Len(F), EndAt(f, b) <= Len(G),
         \A k \in 1 .. EndAt(f, b) : F[k] = f[k] /\ G[k] = f[k]
  PROVE  /\ Safe(F, G, b, p) /\ EndAt(F, b) = EndAt(f, b)
         /\ \A c \in Boundaries(f) : c <= b => c \in Boundaries(F)
<1>1. RecordAt(f, b, p) /\ b \in Boundaries(f) /\ Whole(f, b) /\ Intact(f, b) /\ f[b + 2][1] = p
  BY DEF Safe, RecordAt
<1>2. b \in Nat /\ b + 2 <= EndAt(f, b) /\ EndAt(f, b) \in Nat /\ Len(F) \in Nat
  BY <1>1, Place, FileFacts, Zenon
<1>3. /\ Whole(F, b) /\ EndAt(F, b) = EndAt(f, b)
      /\ Intact(F, b) <=> Intact(f, b)
      /\ F[b + 2][1] = f[b + 2][1]
  BY <1>1, <1>2, Same, Zenon
<1>4. ASSUME NEW c \in Boundaries(f), c <= b PROVE c \in Boundaries(F)
  <2>1. c \in Nat
    BY LastBoundary, Zenon
  <2>2. c <= Len(F) /\ \A k \in 1 .. c : k \in 1 .. EndAt(f, b)
    BY <1>2, <1>4, <2>1
  <2>3. \A k \in 1 .. c : F[k] = f[k]
    BY <2>2, Zenon
  <2>4. QED
    BY <2>2, <2>3, Prefix, Zenon
<1>5. b \in Boundaries(F)
  <2>1. b <= b
    BY <1>2
  <2>2. QED
    BY <1>1, <1>4, <2>1, Zenon
<1>6. RecordAt(F, b, p)
  BY <1>1, <1>3, <1>5, Zenon DEF RecordAt
<1>7. EndAt(F, b) <= Len(G) /\ \A k \in 1 .. EndAt(F, b) : G[k] = F[k]
  BY <1>3, Zenon
<1>8. QED
  BY <1>3, <1>4, <1>6, <1>7, Zenon DEF Safe

-----------------------------------------------------------------------------
(* What compaction keeps, and what a crash spares. *)

\* Compaction leaves room for the new record.
LEMMA KeptFits ==
  ASSUME log \in File, offset \in Nat, offset <= Len(log),
         cur \in Payload, LenOf[cur] <= MaxPayload
  PROVE  Kept \in File /\ Len(Kept) + SizeOf(cur) <= MaxBytes
<1> DEFINE u == Unread(log, offset)
           B == Boundaries(u)
           S == {b \in B : Max(B) - b <= MaxBytes - SizeOf(cur)}
<1>1. u \in File
  <2>1. Len(log) \in 0 .. Len(log)
    BY FileFacts
  <2>2. QED
    BY <2>1, Part, Zenon DEF Unread
<1>2. Kept = SubSeq(u, Min(S) + 1, Max(B))
  BY DEF Kept
<1> HIDE DEF u
<1>3. /\ SizeOf(cur) \in Nat /\ SizeOf(cur) <= MaxBytes /\ MaxBytes \in Nat
      /\ Len(u) \in Nat /\ B \in SUBSET (0 .. Len(u)) /\ Max(B) \in B
      /\ \A b \in B : b \in Nat /\ b <= Len(u) /\ b <= Max(B)
  BY <1>1, RecordCells, BoundAssumption, FileFacts, Walk, LastBoundary, Zenon
<1>4. Max(B) \in S /\ S \in SUBSET (0 .. Len(u))
  BY <1>3
<1>5. Min(S) \in S
  <2> HIDE DEF S
  <2>1. QED
    BY <1>3, <1>4, Extremes, Zenon
<1>6. Min(S) \in B /\ Max(B) - Min(S) <= MaxBytes - SizeOf(cur)
  BY <1>5, Zenon
<1> HIDE DEF S, B
<1>7. Min(S) \in Nat /\ Min(S) <= Max(B) /\ Max(B) \in 0 .. Len(u)
  <2>1. Min(S) \in Nat /\ Min(S) <= Max(B)
    BY <1>3, <1>6, Zenon
  <2>2. Max(B) \in 0 .. Len(u)
    BY <1>3, Zenon
  <2>3. QED
    BY <2>1, <2>2, Zenon
<1>8. Kept \in File /\ Len(Kept) = Max(B) - Min(S)
  BY <1>1, <1>2, <1>7, Part, Zenon
<1>9. QED
  <2> DEFINE x == Max(B)
             y == Min(S)
             z == SizeOf(cur)
  <2>1. x \in 0 .. Len(u) /\ Len(u) \in Nat /\ y \in Nat /\ z \in Nat /\ MaxBytes \in Nat
        /\ x - y <= MaxBytes - z /\ Len(Kept) = x - y
    BY <1>3, <1>6, <1>7, <1>8, Zenon
  <2> HIDE DEF x, y, z
  <2>2. (x - y) + z <= MaxBytes
    BY <2>1
  <2>3. QED
    BY <1>8, <2>1, <2>2, Zenon DEF z

\* What the two files have in common survives a crash.
LEMMA CommonFacts ==
  ASSUME log \in File, disk \in File
  PROVE  /\ Common \in 0 .. Len(log)
         /\ \A n \in Nat : n <= Len(log) /\ n <= Len(disk) /\ (\A k \in 1 .. n : disk[k] = log[k])
                           => n <= Common
<1> DEFINE m == Min({Len(log), Len(disk)})
           S == {n \in 0 .. m : SubSeq(log, 1, n) = SubSeq(disk, 1, n)}
<1>1. Len(log) \in Nat /\ Len(disk) \in Nat
  BY FileFacts
<1>2. m \in Nat /\ m <= Len(log) /\ (m = Len(log) \/ m = Len(disk))
  <2>1. {Len(log), Len(disk)} \in SUBSET (0 .. Len(log) + Len(disk)) /\ Len(log) + Len(disk) \in Nat
        /\ {Len(log), Len(disk)} # {}
    BY <1>1
  <2>2. m \in {Len(log), Len(disk)} /\ \A k \in {Len(log), Len(disk)} : m <= k
    BY <2>1, Extremes, Zenon
  <2> HIDE DEF m
  <2>3. QED
    BY <1>1, <2>2
<1> HIDE DEF m
<1>3. 0 \in S /\ S \in SUBSET (0 .. m)
  <2>1. SubSeq(log, 1, 0) = <<>> /\ SubSeq(disk, 1, 0) = <<>>
    BY <1>1 DEF File
  <2>2. QED
    BY <1>2, <2>1
<1>4. Common = Max(S)
  BY DEF Common, m
<1>5. Max(S) \in S /\ \A n \in S : n <= Max(S)
  <2> HIDE DEF S
  <2>1. QED
    BY <1>2, <1>3, Extremes, Zenon
<1>6. Common \in 0 .. Len(log)
  <2>1. Max(S) \in 0 .. m
    BY <1>3, <1>5, Zenon
  <2> HIDE DEF S
  <2>2. QED
    BY <1>1, <1>2, <1>4, <2>1
<1>7. ASSUME NEW n \in Nat, n <= Len(log), n <= Len(disk), \A k \in 1 .. n : disk[k] = log[k]
      PROVE  n <= Common
  <2>1. n \in 0 .. Len(log) /\ n \in 0 .. Len(disk) /\ n \in 0 .. m
    BY <1>1, <1>2, <1>7
  <2>2. /\ SubSeq(log, 1, n) \in Seq(Cell) /\ Len(SubSeq(log, 1, n)) = n
        /\ SubSeq(disk, 1, n) \in Seq(Cell) /\ Len(SubSeq(disk, 1, n)) = n
        /\ \A k \in 1 .. n : SubSeq(log, 1, n)[k] = SubSeq(disk, 1, n)[k]
    BY <1>7, <2>1, Cut, Zenon DEF File
  <2>3. SubSeq(log, 1, n) = SubSeq(disk, 1, n)
    BY <2>2, SameSeq, Zenon
  <2>4. QED
    BY <1>4, <1>5, <2>1, <2>3, Zenon
<1>8. QED
  BY <1>6, <1>7, Zenon

-----------------------------------------------------------------------------
(* The invariant. *)

\* Where an Enqueue is under way.
Enqueueing == {"compact", "swap", "append", "sync"}

\* Files and quarantine keep to their limits, and what is about to be appended fits.
Fits ==
  /\ Len(log) <= MaxBytes /\ Len(disk) <= MaxBytes /\ quarantine <= MaxBytes + PrefixSize
  /\ pc \in Enqueueing => cur \in Payload /\ LenOf[cur] <= MaxPayload
  /\ pc = "append" => Len(log) + SizeOf(cur) <= MaxBytes
  /\ pc = "sync" => SizeOf(cur) <= Len(log)

\* The offset lies in the log, and a record whose sync is pending is at the end of the
\* log unless damage hit it.
Control ==
  /\ pc \notin {"idle", "down"} => open
  /\ pc = "down" => ~open
  /\ open => offset <= Len(Written)
  /\ pc = "swap" => cursor = 0
  /\ pc = "commit" => cur \in settled
  /\ pc = "sync" /\ cur \notin harmed \cup behind =>
       \A k \in 1 .. SizeOf(cur) : log[Len(Written) + k] = <<cur, k>>

\* The cursor file is ahead of the process by no more than the record on offer: a
\* cursor that could not be saved for certain.
Ahead ==
  /\ open /\ errors = 0 => cursor <= offset
  /\ open /\ damage = 0 /\ offset < cursor => Whole(Written, offset) /\ cursor = EndAt(Written, offset)
  /\ pc \in {"send", "commit"} /\ damage = 0 => Whole(log, offset) /\ next = EndAt(log, offset)

\* What the collector owes to the controllers.
Owed == stored \ (settled \cup evicted \cup harmed \cup behind)

\* The record of p after b is stored for certain, and neither the process nor the
\* cursor file is past it.
Held(p, b) ==
  /\ Safe(log, disk, b, p) /\ EndAt(log, b) <= Len(Written) /\ cursor <= b
  /\ open => offset \in Boundaries(log) /\ offset <= b
  /\ pc \in {"send", "commit"} => p = cur \/ next <= b

\* All that is owed is held.
Keeps == damage = 0 \/ errors = 0 => \A p \in Owed : \E b \in Nat : Held(p, b)

-----------------------------------------------------------------------------
(* Types, sizes and control. *)

\* The part of the invariant that stands on its own.
Sound == TypeOK /\ Fits /\ Control

\* The types of the files and the positions.
LEMMA Types ==
  ASSUME TypeOK
  PROVE  /\ log \in File /\ disk \in File /\ Len(log) \in Nat /\ Len(disk) \in Nat
         /\ offset \in Nat /\ next \in Nat /\ cursor \in Int /\ -1 <= cursor /\ cursor <= MaxBytes
         /\ offset <= MaxBytes /\ next <= MaxBytes
         /\ quarantine \in Nat /\ MaxBytes \in Nat /\ MaxPayload \in Nat
         /\ errors \in Nat /\ damage \in Nat
<1>1. log \in File /\ disk \in File
  BY DEF TypeOK, File
<1>2. Len(log) \in Nat /\ Len(disk) \in Nat
  BY <1>1, FileFacts, Zenon
<1>3. QED
  BY <1>1, <1>2, BoundAssumption DEF TypeOK

\* The log without the record that is being written.
LEMMA WrittenFacts ==
  ASSUME Sound
  PROVE  /\ Written \in File /\ Len(Written) \in Nat /\ Len(Written) <= Len(log)
         /\ \A k \in 1 .. Len(Written) : Written[k] = log[k]
         /\ pc # "sync" => Written = log
         /\ pc = "sync" => Len(Written) = Len(log) - SizeOf(cur) /\ SizeOf(cur) \in Nat
<1>1. CASE pc # "sync"
  <2>1. Written = log
    BY <1>1 DEF Written
  <2>2. log \in File /\ Len(log) \in Nat
    BY Types, Zenon DEF Sound
  <2>3. Len(log) <= Len(log)
    BY <2>2
  <2>4. QED
    BY <1>1, <2>1, <2>2, <2>3, Zenon
<1>2. CASE pc = "sync"
  <2>1. log \in File /\ Len(log) \in Nat
    BY Types, Zenon DEF Sound
  <2>2. cur \in Payload /\ LenOf[cur] <= MaxPayload /\ SizeOf(cur) <= Len(log)
    BY <1>2 DEF Sound, Fits, Enqueueing
  <2>3. SizeOf(cur) \in Nat
    BY <2>2, RecordCells, Zenon
  <2>4. Len(log) - SizeOf(cur) \in 0 .. Len(log)
    BY <2>1, <2>2, <2>3
  <2>5. Written = SubSeq(log, 1, Len(log) - SizeOf(cur))
    BY <1>2, Zenon DEF Written
  <2>6. /\ Written \in File /\ Len(Written) = Len(log) - SizeOf(cur)
        /\ \A k \in 1 .. Len(log) - SizeOf(cur) : Written[k] = log[k]
    BY <2>1, <2>4, <2>5, Cut, Zenon
  <2>7. Len(Written) \in Nat /\ Len(Written) <= Len(log)
    BY <2>4, <2>6
  <2>8. QED
    BY <1>2, <2>3, <2>6, <2>7, Zenon
<1>3. QED
  BY <1>1, <1>2, Zenon

\* Initially.
LEMMA SoundInit == Init => Sound
<1> SUFFICES ASSUME Init PROVE Sound
  OBVIOUS
<1>1. <<>> \in Seq(Cell) /\ Len(<<>>) = 0
  OBVIOUS
<1>2. TypeOK
  <2>1. /\ cursor \in -1 .. MaxBytes /\ offset \in 0 .. MaxBytes /\ next \in 0 .. MaxBytes
        /\ crashes \in 0 .. MaxCrashes /\ errors \in 0 .. MaxErrors /\ damage \in 0 .. MaxDamage
        /\ quarantine \in Nat
    BY BoundAssumption DEF Init, NoCursor
  <2>2. /\ log \in Seq(Cell) /\ disk \in Seq(Cell) /\ open \in BOOLEAN /\ cur \in Payload \cup {0}
        /\ stored \cup settled \cup evicted \cup aside \cup harmed \cup behind \subseteq Payload \cup {0}
    BY <1>1, Zenon DEF Init
  <2>3. QED
    BY <2>1, <2>2, Zenon DEF Init, TypeOK
<1>3. Fits
  BY <1>1, BoundAssumption DEF Init, Fits, Enqueueing, PrefixSize
<1>4. Control
  BY DEF Init, Control
<1>5. QED
  BY <1>2, <1>3, <1>4, Zenon DEF Sound

\* An Enqueue that is refused, or that begins.
LEMMA SoundEnqueue ==
  ASSUME Sound, NEW p \in Payload, Enqueue(p) PROVE Sound'
<1>0. TypeOK /\ Fits /\ Control
  BY DEF Sound
<1>1. SizeOf(p) \in Nat /\ Len(log) \in Nat /\ MaxBytes \in Nat
  <2>1. LenOf[p] <= MaxPayload
    BY DEF Enqueue
  <2>2. QED
    BY <1>0, <2>1, RecordCells, Types, Zenon
<1>2. TypeOK'
  BY <1>0 DEF Enqueue, TypeOK, Goto, NoFault, boundVars
<1>3. Fits'
  BY <1>0, <1>1 DEF Enqueue, Fits, Goto, Enqueueing, SizeOf
<1>4. Control'
  BY <1>0 DEF Enqueue, Control, Goto, Written
<1>5. QED
  BY <1>2, <1>3, <1>4, Zenon DEF Sound

\* Steps that leave the files alone.
LEMMA SoundQuiet ==
  ASSUME Sound,
         \/ CompactCursor \/ CompactFails \/ SwapFails \/ DrainStop \/ NextEnd \/ NextRecord
         \/ Send \/ Commit \/ CommitInvalid \/ CommitFails
  PROVE  Sound'
<1>0. TypeOK /\ Fits /\ Control
  BY DEF Sound
<1>1. /\ MaxBytes \in Nat /\ Len(log) \in Nat /\ Len(log) <= MaxBytes /\ offset \in Nat
      /\ errors \in Nat /\ log \in File
  BY <1>0, Types, Zenon DEF Fits
<1>2. /\ UNCHANGED <<log, disk, quarantine, open, crashes, damage, stored, evicted, aside, harmed, behind>>
      /\ pc \notin {"idle", "down", "append", "sync"} /\ pc' \notin {"append", "sync", "down"}
      /\ pc' \in Enqueueing => pc \in Enqueueing /\ cur' = cur
  BY <1>0 DEF CompactCursor, CompactFails, SwapFails, DrainStop, NextEnd, NextRecord, Send, Commit,
     CommitInvalid, CommitFails, Goto, NoFault, FileError, boundVars, ghostVars, Draining, Enqueueing
<1>3. /\ pc' \in {"idle", "swap", "send", "commit", "again"}
      /\ errors' \in 0 .. MaxErrors
  <2>1. /\ pc' \in {"idle", "swap", "send", "commit", "again"}
        /\ errors' = errors \/ (errors + 1 <= MaxErrors /\ errors' = errors + 1)
    BY Zenon DEF CompactCursor, CompactFails, SwapFails, DrainStop, NextEnd, NextRecord, Send, Commit,
       CommitInvalid, CommitFails, Goto, NoFault, FileError, Errors, boundVars
  <2>2. errors \in 0 .. MaxErrors
    BY <1>0, Zenon DEF TypeOK
  <2>3. QED
    BY <2>1, <2>2, BoundAssumption
<1>4. cursor' \in -1 .. MaxBytes /\ offset' \in 0 .. MaxBytes /\ next' \in 0 .. MaxBytes
      /\ cur' \in Payload \cup {0} /\ settled' \subseteq Payload \cup {0} /\ (open => offset' <= Len(log))
  <2>0. /\ cursor \in -1 .. MaxBytes /\ offset \in 0 .. MaxBytes /\ next \in 0 .. MaxBytes
        /\ cur \in Payload \cup {0} /\ settled \subseteq Payload \cup {0} /\ (open => offset <= Len(log))
    <3>1. settled \subseteq Payload \cup {0}
      BY <1>0, Zenon DEF TypeOK
    <3>2. Written = log
      BY <1>2, Zenon DEF Written
    <3>3. QED
      BY <1>0, <3>1, <3>2, Zenon DEF TypeOK, Control
  <2>1. CASE NextRecord
    <3>1. EndAt(log, offset) \in offset + 2 .. Len(log)
      BY <1>1, <2>1, WholeEnd, Zenon DEF NextRecord
    <3>2. log[offset + 2][1] \in Payload \cup {0}
      <4>1. offset + 2 \in 1 .. Len(log)
        BY <1>1, <3>1
      <4>2. QED
        BY <1>1, <4>1, FileFacts, CellFacts, Zenon
    <3>3. EndAt(log, offset) \in 0 .. MaxBytes
      BY <1>1, <3>1
    <3>4. /\ cur' = log[offset + 2][1] /\ next' = EndAt(log, offset)
          /\ cursor' = cursor /\ offset' = offset /\ settled' = settled
      BY <2>1 DEF NextRecord, ghostVars
    <3>5. QED
      BY <2>0, <3>2, <3>3, <3>4, Zenon
  <2>2. CASE Commit \/ CommitFails
    <3>1. next <= Len(log)
      BY <1>1, <2>2, LastBoundary, Zenon DEF Commit, CommitFails, OnBoundary
    <3>2. /\ next' = next /\ cur' = cur /\ settled' = settled
          /\ cursor' \in {cursor, next} /\ offset' \in {offset, next}
      BY <2>2 DEF Commit, CommitFails, ghostVars
    <3>3. next \in -1 .. MaxBytes
      BY <1>1, <2>0
    <3>4. QED
      BY <2>0, <3>1, <3>2, <3>3, Zenon
  <2>3. CASE \/ CompactCursor \/ CompactFails \/ SwapFails \/ DrainStop \/ NextEnd \/ CommitInvalid
    <3>1. /\ offset' = offset /\ next' = next /\ cur' = cur /\ settled' = settled
          /\ cursor' = cursor \/ cursor' = 0
      BY <2>3 DEF CompactCursor, CompactFails, SwapFails, DrainStop, NextEnd, CommitInvalid, ghostVars
    <3>2. 0 \in -1 .. MaxBytes
      BY <1>1
    <3>3. QED
      BY <2>0, <3>1, <3>2, Zenon
  <2>4. CASE Send
    <3>1. /\ settled' = settled \/ settled' = settled \cup {cur}
          /\ cursor' = cursor /\ offset' = offset /\ next' = next /\ cur' = cur
      BY <2>4 DEF Send
    <3>2. settled \cup {cur} \subseteq Payload \cup {0}
      BY <2>0, Zenon
    <3>3. QED
      BY <2>0, <3>1, <3>2, Zenon
  <2>5. QED
    BY <2>1, <2>2, <2>3, <2>4, Zenon
<1>5. TypeOK'
  <2>1. /\ log' = log /\ disk' = disk /\ quarantine' = quarantine /\ open' = open /\ crashes' = crashes
        /\ damage' = damage /\ stored' = stored /\ evicted' = evicted /\ aside' = aside
        /\ harmed' = harmed /\ behind' = behind
    BY <1>2
  <2>2. stored' \cup settled' \cup evicted' \cup aside' \cup harmed' \cup behind' \subseteq Payload \cup {0}
    <3>1. stored \cup evicted \cup aside \cup harmed \cup behind \subseteq Payload \cup {0}
      BY <1>0, Zenon DEF TypeOK
    <3>2. QED
      BY <1>4, <2>1, <3>1, Zenon
  <2>3. QED
    BY <1>0, <1>3, <1>4, <2>1, <2>2, Zenon DEF TypeOK
<1>6. Fits'
  BY <1>0, <1>2 DEF Fits
<1>7. Control'
  <2>1. pc' = "swap" => cursor' = 0
    BY <1>0, <1>2, Zenon DEF CompactCursor, CompactFails, SwapFails, DrainStop, NextEnd, NextRecord, Send, Commit,
       CommitInvalid, CommitFails, Goto
  <2>2. pc' = "commit" => cur' \in settled'
    BY <1>0, <1>2 DEF CompactCursor, CompactFails, SwapFails, DrainStop, NextEnd, NextRecord, Send, Commit,
       CommitInvalid, CommitFails, Goto
  <2>3. Written' = log
    BY <1>2 DEF Written
  <2>4. QED
    BY <1>0, <1>2, <1>3, <1>4, <2>1, <2>2, <2>3 DEF Control
<1>8. QED
  BY <1>5, <1>6, <1>7, Zenon DEF Sound

\* Compaction's rename.
LEMMA SoundSwap == ASSUME Sound, Swap \/ SwapUnsynced PROVE Sound'
<1>0. TypeOK /\ Fits /\ Control
  BY DEF Sound
<1>1. pc = "swap" /\ cur \in Payload /\ LenOf[cur] <= MaxPayload /\ open /\ offset <= Len(log) /\ cursor = 0
  BY <1>0 DEF Swap, SwapUnsynced, Fits, Enqueueing, Control, Written
<1>2. /\ log \in File /\ disk \in File /\ offset \in Nat /\ MaxBytes \in Nat /\ SizeOf(cur) \in Nat
      /\ Len(log) <= MaxBytes /\ Len(disk) <= MaxBytes
  BY <1>0, <1>1, Types, RecordCells, Zenon DEF Fits
<1>3. Kept \in File /\ Len(Kept) + SizeOf(cur) <= MaxBytes /\ Len(Kept) \in Nat
  BY <1>1, <1>2, KeptFits, FileFacts, Zenon
<1>4. Evicted \subseteq Payload \cup {0}
  <2>1. ASSUME NEW p \in RecordsFrom(log, offset) PROVE p \in Payload \cup {0}
    <3>1. PICK b \in Boundaries(log) : Whole(log, b) /\ p = log[b + 2][1]
      BY <2>1, Zenon DEF RecordsFrom
    <3>2. b \in Nat /\ Len(log) \in Nat
      BY <1>2, LastBoundary, FileFacts, Zenon
    <3>3. b + 2 <= Len(log)
      BY <1>2, <3>1, <3>2, WholeEnd, Zenon
    <3>4. b + 2 \in 1 .. Len(log)
      BY <3>2, <3>3
    <3>5. QED
      BY <1>2, <3>1, <3>4, FileFacts, CellFacts, Zenon
  <2>2. QED
    BY <2>1, Zenon DEF Evicted
<1>5. /\ log' \in {log, Kept} /\ disk' \in {disk, Kept} /\ offset' \in {0, offset}
      /\ evicted' \in {evicted, evicted \cup Evicted}
      /\ UNCHANGED <<cursor, quarantine, cur, next, crashes, damage, stored, settled, aside, harmed, behind>>
      /\ pc' \in {"append", "idle"}
      /\ pc' = "append" => log' = Kept /\ offset' = 0
      /\ open' = FALSE \/ (open' = open /\ offset' = 0)
  BY DEF Swap, SwapUnsynced, Goto, NoFault, FileError, boundVars
<1>6. errors' \in 0 .. MaxErrors
  BY <1>0 DEF Swap, SwapUnsynced, NoFault, FileError, Errors, boundVars, TypeOK
<1>7. TypeOK'
  <2>1. log' \in Seq(Cell) /\ disk' \in Seq(Cell)
    BY <1>2, <1>3, <1>5 DEF File
  <2>2. offset' \in 0 .. MaxBytes
    <3>1. offset' = 0 \/ offset' = offset
      BY <1>5, Zenon
    <3>2. QED
      BY <1>0, <1>2, <3>1 DEF TypeOK
  <2>3. evicted' \subseteq Payload \cup {0}
    BY <1>0, <1>4, <1>5, Zenon DEF TypeOK
  <2>4. open' \in BOOLEAN
    BY <1>0, <1>5, Zenon DEF TypeOK
  <2>5. QED
    BY <1>0, <1>5, <1>6, <2>1, <2>2, <2>3, <2>4, SMTT(30) DEF TypeOK
<1>8. Fits'
  BY <1>0, <1>1, <1>2, <1>3, <1>5 DEF Fits, SizeOf
<1>9. Control'
  <2>1. Written' = log'
    BY <1>5 DEF Written
  <2>2. open' => offset' <= Len(log')
    <3>1. Len(log') \in Nat
      BY <1>2, <1>3, <1>5, FileFacts
    <3>2. QED
      BY <1>5, <3>1
  <2>3. pc' = "append" => open'
    BY <1>1 DEF Swap, SwapUnsynced, Goto
  <2>4. QED
    BY <1>0, <1>5, <2>1, <2>2, <2>3 DEF Control
<1>10. QED
  BY <1>7, <1>8, <1>9, Zenon DEF Sound

\* The record is written.
LEMMA SoundWrite ==
  ASSUME Sound, Write
  PROVE  Sound' /\ Written' = log /\ Len(log) <= Len(log') /\ \A k \in 1 .. Len(log) : log'[k] = log[k]
<1>0. TypeOK /\ Fits /\ Control
  BY DEF Sound
<1>1. /\ pc = "append" /\ pc' = "sync" /\ cur \in Payload /\ LenOf[cur] <= MaxPayload /\ open
      /\ offset <= Len(log) /\ Len(log) + SizeOf(cur) <= MaxBytes /\ Len(disk) <= MaxBytes
      /\ log' = log \o encodeRecord(cur)
      /\ UNCHANGED <<disk, cursor, quarantine, open, offset, cur, next, boundVars, ghostVars>>
  BY <1>0 DEF Write, Fits, Enqueueing, Control, Written, Goto, NoFault
<1>2. log \in File /\ Len(log) \in Nat /\ MaxBytes \in Nat /\ offset \in Nat
  BY <1>0, Types, Zenon
<1>3. /\ encodeRecord(cur) \in File /\ SizeOf(cur) \in Nat /\ Len(encodeRecord(cur)) = SizeOf(cur)
      /\ \A k \in 1 .. SizeOf(cur) : encodeRecord(cur)[k] = <<cur, k>>
  BY <1>1, RecordCells, Zenon
<1>4. /\ log' \in File /\ Len(log') = Len(log) + SizeOf(cur)
      /\ \A k \in 1 .. Len(log) : log'[k] = log[k]
      /\ \A k \in 1 .. SizeOf(cur) : log'[Len(log) + k] = <<cur, k>>
  <2> DEFINE r == encodeRecord(cur)
  <2>1. r \in File /\ Len(r) = SizeOf(cur) /\ \A k \in 1 .. SizeOf(cur) : r[k] = <<cur, k>>
    BY <1>3
  <2>2. log' = log \o r
    BY <1>1
  <2> HIDE DEF r
  <2>3. /\ log \o r \in File /\ Len(log \o r) = Len(log) + Len(r)
        /\ \A k \in 1 .. Len(log) : (log \o r)[k] = log[k]
        /\ \A k \in 1 .. Len(r) : (log \o r)[Len(log) + k] = r[k]
    BY <1>2, <2>1, Joined, Zenon
  <2>4. QED
    BY <2>1, <2>2, <2>3, Zenon
<1>5. Written' = log /\ Len(log) <= Len(log')
  <2>1. Written' = SubSeq(log', 1, Len(log') - SizeOf(cur))
    BY <1>1 DEF Written, SizeOf
  <2>2. Len(log') - SizeOf(cur) = Len(log) /\ Len(log) \in 0 .. Len(log') /\ Len(log) <= Len(log')
    BY <1>2, <1>3, <1>4
  <2>3. /\ SubSeq(log', 1, Len(log)) \in Seq(Cell) /\ Len(SubSeq(log', 1, Len(log))) = Len(log)
        /\ \A k \in 1 .. Len(log) : SubSeq(log', 1, Len(log))[k] = log[k]
    BY <1>4, <2>2, Cut, Zenon DEF File
  <2>4. SubSeq(log', 1, Len(log)) = log
    BY <1>2, <2>3, SameSeq, Zenon DEF File
  <2>5. QED
    BY <2>1, <2>2, <2>4
<1>6. TypeOK'
  BY <1>0, <1>1, <1>4 DEF TypeOK, boundVars, ghostVars, File
<1>7. Fits'
  BY <1>0, <1>1, <1>2, <1>3, <1>4 DEF Fits, SizeOf
<1>8. Control'
  <2>1. SizeOf(cur)' = SizeOf(cur)
    BY <1>1 DEF SizeOf
  <2>2. \A k \in 1 .. SizeOf(cur)' : (log[Len(Written) + k] = <<cur, k>>)'
    BY <1>1, <1>4, <1>5, <2>1, Zenon
  <2>3. pc' = "sync" /\ open' /\ offset' <= Len(Written')
    BY <1>1, <1>5
  <2>4. QED
    BY <2>2, <2>3 DEF Control
<1>9. QED
  BY <1>4, <1>5, <1>6, <1>7, <1>8, Zenon DEF Sound

\* Steps after which no Enqueue and no Commit is under way.
LEMMA SoundBetween ==
  ASSUME Sound, log' \in File, disk' \in File, Len(log') <= MaxBytes, Len(disk') <= MaxBytes,
         cursor' \in -1 .. MaxBytes, offset' \in 0 .. MaxBytes, UNCHANGED <<cur, next, evicted, settled>>,
         quarantine' \in Nat, quarantine' <= MaxBytes + PrefixSize, open' \in BOOLEAN,
         pc' \in {"down", "idle", "drain", "again"}, pc' = "down" => ~open',
         pc' \in {"drain", "again"} => open', open' => offset' <= Len(log'),
         crashes' \in 0 .. MaxCrashes, errors' \in 0 .. MaxErrors, damage' \in 0 .. MaxDamage,
         stored' \subseteq Payload \cup {0}, aside' \subseteq Payload \cup {0},
         harmed' \subseteq Payload \cup {0}, behind' \subseteq Payload \cup {0}
  PROVE  Sound'
<1>0. TypeOK /\ Fits /\ Control
  BY DEF Sound
<1>1. TypeOK'
  <2>1. (stored \cup settled \cup evicted \cup aside \cup harmed \cup behind)' \subseteq Payload \cup {0}
    BY <1>0, Zenon DEF TypeOK
  <2>2. next' \in 0 .. MaxBytes /\ cur' \in Payload \cup {0}
    BY <1>0, Zenon DEF TypeOK
  <2>3. pc' \in {"down", "idle", "compact", "swap", "append", "sync", "drain", "again", "send", "commit"}
    BY Zenon
  <2>4. log' \in Seq(Cell) /\ disk' \in Seq(Cell)
    BY Zenon DEF File
  <2>5. QED
    BY <2>1, <2>2, <2>3, <2>4, Zenon DEF TypeOK
<1>2. Fits'
  BY SMTT(30) DEF Fits, Enqueueing
<1>3. Written' = log'
  BY DEF Written
<1>4. Control'
  BY <1>3, SMTT(30) DEF Control
<1>5. QED
  BY <1>1, <1>2, <1>4, Zenon DEF Sound

\* What quarantine grows to, and whose cells a segment has.
LEMMA Segment ==
  ASSUME Sound, NEW raw \in File, Len(raw) <= Len(log)
  PROVE  /\ Quarantined(raw) \in Nat /\ Quarantined(raw) <= MaxBytes + PrefixSize
         /\ Owners(raw) \subseteq Payload \cup {0}
<1>1. /\ Len(raw) \in Nat /\ Len(log) \in Nat /\ Len(log) <= MaxBytes /\ quarantine \in Nat /\ MaxBytes \in Nat
  BY Types, FileFacts, Zenon DEF Sound, Fits
<1>2. Quarantined(raw) \in Nat /\ Quarantined(raw) <= MaxBytes + PrefixSize
  BY <1>1 DEF Quarantined, PrefixSize
<1>3. \A k \in DOMAIN raw : raw[k][1] \in Payload \cup {0}
  BY FileFacts, CellFacts, Zenon
<1>4. Owners(raw) \subseteq Payload \cup {0}
  BY <1>3, Zenon DEF Owners
<1>5. QED
  BY <1>2, <1>4, Zenon

\* A rollback leaves what was there before, and perhaps what was written.
LEMMA RollbackFacts ==
  ASSUME TypeOK, NEW f \in File, NEW start \in 0 .. Len(f), Rollback(f, start)
  PROVE  /\ log' \in File /\ disk' \in {log', disk} /\ start <= Len(log') /\ Len(log') <= Len(f)
         /\ \A k \in 1 .. Len(log') : log'[k] = f[k]
         /\ errors' \in 0 .. MaxErrors /\ errors' # 0 /\ UNCHANGED <<crashes, damage>>
<1>1. errors \in Nat /\ Len(f) \in Nat
  BY Types, FileFacts, Zenon
<1>2. errors' \in 0 .. MaxErrors /\ errors' # 0 /\ UNCHANGED <<crashes, damage>>
  BY <1>1, BoundAssumption DEF Rollback, FileError, Errors
<1>3. (log' = f \/ log' = SubSeq(f, 1, start)) /\ disk' \in {log', disk}
  BY DEF Rollback
<1>4. SubSeq(f, 1, start) \in File /\ Len(SubSeq(f, 1, start)) = start
      /\ \A k \in 1 .. start : SubSeq(f, 1, start)[k] = f[k]
  BY Cut, Zenon
<1>5. CASE log' = f
  <2>1. start <= Len(f) /\ Len(f) <= Len(f)
    BY <1>1
  <2>2. QED
    BY <1>2, <1>3, <1>5, <2>1, Zenon
<1>6. CASE log' = SubSeq(f, 1, start)
  <2>1. start <= Len(f) /\ start <= start
    BY <1>1
  <2>2. log' \in File /\ Len(log') = start /\ \A k \in 1 .. Len(log') : log'[k] = f[k]
    BY <1>4, <1>6, Zenon
  <2>3. QED
    BY <1>2, <1>3, <2>1, <2>2, Zenon
<1>7. QED
  BY <1>3, <1>5, <1>6, Zenon

\* An append that fails: the log is what it was, perhaps with a part of a record.
LEMMA SoundAppendFails ==
  ASSUME Sound, AppendFails
  PROVE  /\ Sound' /\ Len(log) <= Len(log') /\ disk' \in {log', disk} /\ errors' # 0
         /\ \A k \in 1 .. Len(log) : log'[k] = log[k]
<1>0. TypeOK /\ Fits /\ Control
  BY DEF Sound
<1>1. /\ pc = "append" /\ pc' = "idle" /\ cur \in Payload /\ LenOf[cur] <= MaxPayload /\ open
      /\ offset <= Len(log) /\ Len(log) + SizeOf(cur) <= MaxBytes /\ Len(disk) <= MaxBytes
      /\ UNCHANGED <<cursor, quarantine, open, offset, cur, next, ghostVars>>
  BY <1>0 DEF AppendFails, Fits, Enqueueing, Control, Written, Goto
<1>2. log \in File /\ disk \in File /\ Len(log) \in Nat /\ MaxBytes \in Nat /\ offset \in Nat
  BY <1>0, Types, Zenon
<1>3. encodeRecord(cur) \in File /\ SizeOf(cur) \in Nat /\ Len(encodeRecord(cur)) = SizeOf(cur)
  BY <1>1, RecordCells, Zenon
<1>4. PICK n \in 0 .. SizeOf(cur) - 1 : Rollback(log \o SubSeq(encodeRecord(cur), 1, n), Len(log))
  BY Zenon DEF AppendFails
<1> DEFINE r == SubSeq(encodeRecord(cur), 1, n)
<1>5. r \in File /\ Len(r) = n
  <2>1. n \in 0 .. Len(encodeRecord(cur))
    BY <1>3
  <2>2. QED
    BY <1>3, <2>1, Cut, Zenon
<1>6. Rollback(log \o r, Len(log))
  BY <1>4
<1> HIDE DEF r
<1>7. /\ log \o r \in File /\ Len(log \o r) = Len(log) + Len(r)
      /\ \A k \in 1 .. Len(log) : (log \o r)[k] = log[k]
  BY <1>2, <1>5, Joined, Zenon
<1>8. Len(log) \in 0 .. Len(log \o r) /\ Len(log \o r) <= MaxBytes
  BY <1>1, <1>2, <1>3, <1>5, <1>7
<1>9. /\ log' \in File /\ disk' \in {log', disk} /\ Len(log) <= Len(log') /\ Len(log') <= Len(log \o r)
      /\ \A k \in 1 .. Len(log') : log'[k] = (log \o r)[k]
      /\ errors' \in 0 .. MaxErrors /\ errors' # 0 /\ UNCHANGED <<crashes, damage>>
  BY <1>0, <1>6, <1>7, <1>8, RollbackFacts, Zenon
<1>10. Len(log') \in Nat /\ Len(log \o r) \in Nat
  BY <1>7, <1>9, FileFacts, Zenon
<1>11. \A k \in 1 .. Len(log) : log'[k] = log[k]
  <2>1. \A k \in 1 .. Len(log) : k \in 1 .. Len(log')
    BY <1>2, <1>9, <1>10
  <2>2. QED
    BY <1>7, <1>9, <2>1, Zenon
<1>12. Len(log') <= MaxBytes /\ offset <= Len(log')
  BY <1>1, <1>2, <1>8, <1>9, <1>10
<1>13. Len(disk') <= MaxBytes /\ disk' \in File
  BY <1>1, <1>2, <1>9, <1>12, Zenon
<1>14. Sound'
  <2>1. /\ cursor' \in -1 .. MaxBytes /\ offset' \in 0 .. MaxBytes /\ UNCHANGED <<cur, next, evicted, settled>>
        /\ quarantine' \in Nat /\ quarantine' <= MaxBytes + PrefixSize /\ open' \in BOOLEAN
        /\ crashes' \in 0 .. MaxCrashes /\ damage' \in 0 .. MaxDamage
        /\ stored' \subseteq Payload \cup {0} /\ aside' \subseteq Payload \cup {0}
        /\ harmed' \subseteq Payload \cup {0} /\ behind' \subseteq Payload \cup {0}
    BY <1>0, <1>1, <1>9, SMTT(30) DEF TypeOK, Fits, ghostVars
  <2>2. open' => offset' <= Len(log')
    BY <1>1, <1>12
  <2>3. pc' \in {"down", "idle", "drain", "again"} /\ pc' # "down" /\ pc' \notin {"drain", "again"}
    BY <1>1
  <2>4. QED
    BY <1>9, <1>12, <1>13, <2>1, <2>2, <2>3, SoundBetween, Zenon
<1>15. QED
  BY <1>9, <1>11, <1>14, Zenon

\* A sync that fails: the log is what it was before the write, or keeps the record.
LEMMA SoundSyncFails ==
  ASSUME Sound, SyncFails
  PROVE  /\ Sound' /\ Len(Written) <= Len(log') /\ disk' \in {log', disk} /\ errors' # 0
         /\ \A k \in 1 .. Len(Written) : log'[k] = log[k]
<1>0. TypeOK /\ Fits /\ Control
  BY DEF Sound
<1>1. /\ pc = "sync" /\ pc' = "idle" /\ open /\ offset <= Len(Written) /\ Len(disk) <= MaxBytes
      /\ Len(log) <= MaxBytes /\ Rollback(log, Len(log) - SizeOf(cur))
      /\ UNCHANGED <<cursor, quarantine, open, offset, cur, next, ghostVars>>
  BY <1>0 DEF SyncFails, Fits, Control, Goto
<1>2. log \in File /\ disk \in File /\ Len(log) \in Nat /\ MaxBytes \in Nat /\ offset \in Nat
  BY <1>0, Types, Zenon
<1>3. Len(Written) \in Nat /\ Len(Written) <= Len(log) /\ Len(Written) = Len(log) - SizeOf(cur)
  BY <1>1, WrittenFacts, Zenon
<1>4. Rollback(log, Len(Written)) /\ Len(Written) \in 0 .. Len(log)
  BY <1>1, <1>2, <1>3
<1>5. /\ log' \in File /\ disk' \in {log', disk} /\ Len(Written) <= Len(log') /\ Len(log') <= Len(log)
      /\ \A k \in 1 .. Len(log') : log'[k] = log[k]
      /\ errors' \in 0 .. MaxErrors /\ errors' # 0 /\ UNCHANGED <<crashes, damage>>
  BY <1>0, <1>2, <1>4, RollbackFacts, Zenon
<1>6. Len(log') \in Nat
  BY <1>5, FileFacts, Zenon
<1>7. \A k \in 1 .. Len(Written) : log'[k] = log[k]
  <2>1. \A k \in 1 .. Len(Written) : k \in 1 .. Len(log')
    BY <1>3, <1>5, <1>6
  <2>2. QED
    BY <1>5, <2>1, Zenon
<1>8. Len(log') <= MaxBytes /\ offset <= Len(log')
  BY <1>1, <1>2, <1>3, <1>5, <1>6
<1>9. Len(disk') <= MaxBytes /\ disk' \in File
  BY <1>1, <1>2, <1>5, <1>8, Zenon
<1>10. Sound'
  <2>1. /\ cursor' \in -1 .. MaxBytes /\ offset' \in 0 .. MaxBytes /\ UNCHANGED <<cur, next, evicted, settled>>
        /\ quarantine' \in Nat /\ quarantine' <= MaxBytes + PrefixSize /\ open' \in BOOLEAN
        /\ crashes' \in 0 .. MaxCrashes /\ damage' \in 0 .. MaxDamage
        /\ stored' \subseteq Payload \cup {0} /\ aside' \subseteq Payload \cup {0}
        /\ harmed' \subseteq Payload \cup {0} /\ behind' \subseteq Payload \cup {0}
    BY <1>0, <1>1, <1>5, SMTT(30) DEF TypeOK, Fits, ghostVars
  <2>2. open' => offset' <= Len(log')
    BY <1>1, <1>8
  <2>3. pc' \in {"down", "idle", "drain", "again"} /\ pc' # "down" /\ pc' \notin {"drain", "again"}
    BY <1>1
  <2>4. QED
    BY <1>5, <1>8, <1>9, <2>1, <2>2, <2>3, SoundBetween, Zenon
<1>11. QED
  BY <1>5, <1>7, <1>10, Zenon

\* Enqueue returns nil.
LEMMA SoundSync == ASSUME Sound, Sync PROVE Sound'
<1>0. TypeOK /\ Fits /\ Control
  BY DEF Sound
<1>1. /\ pc = "sync" /\ pc' = "drain" /\ open /\ offset <= Len(Written) /\ Len(log) <= MaxBytes
      /\ cur \in Payload /\ log' = log /\ disk' = log
      /\ UNCHANGED <<cursor, quarantine, open, offset, cur, next, settled, evicted, aside, harmed, boundVars>>
      /\ stored' = stored \cup {cur} /\ behind' \subseteq behind \cup {cur}
  BY <1>0 DEF Sync, Fits, Enqueueing, Control, Goto, NoFault
<1>2. log \in File /\ Len(log) \in Nat /\ offset \in Nat /\ Len(Written) \in Nat /\ Len(Written) <= Len(log)
  BY <1>0, Types, WrittenFacts, Zenon
<1>3. /\ cursor' \in -1 .. MaxBytes /\ offset' \in 0 .. MaxBytes /\ UNCHANGED <<cur, next, evicted, settled>>
      /\ quarantine' \in Nat /\ quarantine' <= MaxBytes + PrefixSize /\ open' \in BOOLEAN
      /\ crashes' \in 0 .. MaxCrashes /\ errors' \in 0 .. MaxErrors /\ damage' \in 0 .. MaxDamage
  BY <1>0, <1>1 DEF TypeOK, Fits, boundVars
<1>4. /\ stored' \subseteq Payload \cup {0} /\ aside' \subseteq Payload \cup {0}
      /\ harmed' \subseteq Payload \cup {0} /\ behind' \subseteq Payload \cup {0}
  BY <1>0, <1>1, Zenon DEF TypeOK
<1>5. open' /\ offset' <= Len(log') /\ log' \in File /\ disk' \in File
      /\ Len(log') <= MaxBytes /\ Len(disk') <= MaxBytes
  BY <1>1, <1>2
<1>6. pc' \in {"down", "idle", "drain", "again"} /\ pc' # "down"
  BY <1>1
<1>7. QED
  BY <1>3, <1>4, <1>5, <1>6, SoundBetween, Zenon

\* What Next does where it finds no whole record, or one whose checksum is wrong.
LEMMA SoundRecovery ==
  ASSUME Sound, NextTorn \/ NextBroken \/ NextChecksum \/ RecoveryFails PROVE Sound'
<1>0. TypeOK /\ Fits /\ Control
  BY DEF Sound
<1>1. pc \in {"drain", "again"} /\ open /\ offset <= Len(log)
  BY <1>0, Zenon DEF NextTorn, NextBroken, NextChecksum, RecoveryFails, Draining, Control, Written
<1>2. /\ log \in File /\ disk \in File /\ Len(log) \in Nat /\ Len(log) <= MaxBytes /\ Len(disk) <= MaxBytes
      /\ offset \in Nat /\ MaxBytes \in Nat /\ quarantine \in Nat /\ quarantine <= MaxBytes + PrefixSize
  BY <1>0, Types, Zenon DEF Fits
<1>3. /\ SubSeq(log, 1, offset) \in File /\ Len(SubSeq(log, 1, offset)) = offset
      /\ offset \in 0 .. Len(log) /\ Len(log) \in 0 .. Len(log)
  <2>1. offset \in 0 .. Len(log) /\ Len(log) \in 0 .. Len(log)
    BY <1>1, <1>2
  <2>2. QED
    BY <1>2, <2>1, Cut, Zenon
<1>4. Whole(log, offset) => EndAt(log, offset) \in 0 .. Len(log) /\ offset <= EndAt(log, offset)
  <2>1. SUFFICES ASSUME Whole(log, offset)
                 PROVE  EndAt(log, offset) \in 0 .. Len(log) /\ offset <= EndAt(log, offset)
    OBVIOUS
  <2>2. EndAt(log, offset) \in offset + 2 .. Len(log)
    BY <1>2, <2>1, WholeEnd, Zenon
  <2>3. QED
    BY <1>2, <2>2
<1> DEFINE end == IF Whole(log, offset) THEN EndAt(log, offset) ELSE Len(log)
           raw == SubSeq(log, offset + 1, end)
<1>5. end \in 0 .. Len(log) /\ offset <= end
  BY <1>1, <1>3, <1>4
<1> HIDE DEF end
<1>6. raw \in File /\ Len(raw) = end - offset
  BY <1>2, <1>5, Part, Zenon
<1>7. /\ Quarantined(raw) \in Nat /\ Quarantined(raw) <= MaxBytes + PrefixSize
      /\ Owners(raw) \subseteq Payload \cup {0}
  <2>1. Len(raw) <= Len(log)
    BY <1>2, <1>5, <1>6
  <2> HIDE DEF raw
  <2>2. QED
    BY <1>6, <2>1, Segment, Zenon
<1>8. /\ Broken(log, offset) => raw = Unread(log, offset)
      /\ Whole(log, offset) => end = EndAt(log, offset)
  <2>1. Broken(log, offset) => ~Whole(log, offset)
    BY Zenon DEF Broken, Whole
  <2>2. (~Whole(log, offset) => end = Len(log)) /\ (Whole(log, offset) => end = EndAt(log, offset))
    BY DEF end
  <2>3. QED
    BY <2>1, <2>2, Zenon DEF Unread
<1>9. /\ log' \in {log, SubSeq(log, 1, offset)} /\ disk' \in {disk, SubSeq(log, 1, offset)}
      /\ quarantine' \in {quarantine, Quarantined(raw)} /\ aside' \in {aside, aside \cup Owners(raw)}
      /\ cursor' \in {cursor, end} /\ offset' \in {offset, end}
      /\ offset' # offset => log' = log
  <2>1. CASE NextTorn
    BY <2>1, Zenon DEF NextTorn, ghostVars
  <2>2. CASE NextBroken
    BY <1>8, <2>2, Zenon DEF NextBroken
  <2>3. CASE NextChecksum
    BY <1>8, <2>3, Zenon DEF NextChecksum
  <2>4. CASE RecoveryFails
    BY <2>4, Zenon DEF RecoveryFails, end
  <2>5. QED
    BY <2>1, <2>2, <2>3, <2>4, Zenon
<1> HIDE DEF raw
<1>10. /\ log' \in File /\ disk' \in File /\ Len(log') <= MaxBytes /\ Len(disk') <= MaxBytes
       /\ cursor' \in -1 .. MaxBytes /\ offset' \in 0 .. MaxBytes /\ offset' <= Len(log')
  <2>1. \/ log' = log
        \/ (log' = SubSeq(log, 1, offset) /\ offset' = offset)
    BY <1>9, Zenon
  <2>2. log' \in File /\ Len(log') <= MaxBytes /\ offset' <= Len(log')
    <3>1. offset' = offset \/ offset' = end
      BY <1>9, Zenon
    <3>2. log' = log \/ (Len(log') = offset /\ offset' = offset)
      <4>1. log' = SubSeq(log, 1, offset) => Len(log') = offset
        BY <1>3
      <4>2. QED
        BY <2>1, <4>1, Zenon
    <3>3. log' \in File
      BY <1>2, <1>3, <2>1, Zenon
    <3>4. QED
      BY <1>1, <1>2, <1>5, <3>1, <3>2, <3>3
  <2>3. disk' \in File /\ Len(disk') <= MaxBytes
    <3>1. disk' \in File /\ (disk' = disk \/ Len(disk') = offset)
      BY <1>2, <1>3, <1>9, Zenon
    <3>2. QED
      BY <1>1, <1>2, <3>1
  <2>4. cursor' \in -1 .. MaxBytes /\ offset' \in 0 .. MaxBytes
    BY <1>0, <1>2, <1>5, <1>9 DEF TypeOK
  <2>5. QED
    BY <2>2, <2>3, <2>4, Zenon
<1>11. quarantine' \in Nat /\ quarantine' <= MaxBytes + PrefixSize
  BY <1>2, <1>7, <1>9, Zenon
<1>12. /\ UNCHANGED <<cur, next, evicted, settled, open, stored, harmed, behind, crashes, damage>>
       /\ pc' \in {"idle", "again"} /\ errors' \in 0 .. MaxErrors
  BY <1>0 DEF NextTorn, NextBroken, NextChecksum, RecoveryFails, Goto, NoFault, FileError, Errors,
     boundVars, ghostVars, TypeOK
<1>13. /\ stored' \subseteq Payload \cup {0} /\ aside' \subseteq Payload \cup {0}
       /\ harmed' \subseteq Payload \cup {0} /\ behind' \subseteq Payload \cup {0}
  BY <1>0, <1>7, <1>9, <1>12, Zenon DEF TypeOK
<1>14. /\ open' \in BOOLEAN /\ crashes' \in 0 .. MaxCrashes /\ damage' \in 0 .. MaxDamage /\ open'
  BY <1>0, <1>1, <1>12, Zenon DEF TypeOK
<1>15. pc' \in {"down", "idle", "drain", "again"} /\ pc' # "down"
  BY <1>12
<1>16. QED
  BY <1>10, <1>11, <1>12, <1>13, <1>14, <1>15, SoundBetween, Zenon

\* The process ends.
LEMMA SoundEnd == ASSUME Sound, Close \/ Crash PROVE Sound'
<1>0. TypeOK /\ Fits /\ Control
  BY DEF Sound
<1>1. log \in File /\ disk \in File /\ Len(log) \in Nat /\ Len(log) <= MaxBytes /\ Len(disk) <= MaxBytes
      /\ MaxBytes \in Nat
  BY <1>0, Types, Zenon DEF Fits
<1>2. log' = disk' /\ log' \in File /\ Len(log') <= MaxBytes
  <2>1. CASE Close
    BY <1>1, <2>1 DEF Close
  <2>2. CASE Crash
    <3>1. disk' = log' /\ log' \in {disk} \cup {SubSeq(log, 1, n) : n \in Common .. Len(log)}
      BY <2>2, Zenon DEF Crash
    <3>2. CASE log' = disk
      BY <1>1, <3>1, <3>2, Zenon
    <3>3. CASE log' # disk
      <4>1. PICK n \in Common .. Len(log) : log' = SubSeq(log, 1, n)
        BY <3>1, <3>3, Zenon
      <4>2. Common \in 0 .. Len(log)
        BY <1>1, CommonFacts, Zenon
      <4>3. n \in 0 .. Len(log)
        BY <1>1, <4>2
      <4>4. SubSeq(log, 1, n) \in File /\ Len(SubSeq(log, 1, n)) = n
        BY <1>1, <4>3, Cut, Zenon
      <4>5. log' \in File /\ Len(log') = n
        BY <4>1, <4>4, Zenon
      <4>6. n <= MaxBytes
        BY <1>1, <4>3
      <4>7. QED
        BY <3>1, <4>5, <4>6, Zenon
    <3>4. QED
      BY <3>2, <3>3, Zenon
  <2>3. QED
    BY <2>1, <2>2, Zenon
<1>3. /\ pc' = "down" /\ open' = FALSE /\ UNCHANGED <<cursor, quarantine, offset, cur, next, ghostVars>>
      /\ errors' = errors /\ damage' = damage /\ crashes < MaxCrashes /\ crashes' = crashes + 1
  BY DEF Close, Crash, Goto, Ended
<1>4. /\ cursor' \in -1 .. MaxBytes /\ offset' \in 0 .. MaxBytes /\ UNCHANGED <<cur, next, evicted, settled>>
      /\ quarantine' \in Nat /\ quarantine' <= MaxBytes + PrefixSize
      /\ crashes' \in 0 .. MaxCrashes /\ errors' \in 0 .. MaxErrors /\ damage' \in 0 .. MaxDamage
      /\ stored' \subseteq Payload \cup {0} /\ aside' \subseteq Payload \cup {0}
      /\ harmed' \subseteq Payload \cup {0} /\ behind' \subseteq Payload \cup {0}
  BY <1>0, <1>3, BoundAssumption DEF TypeOK, Fits, ghostVars
<1>5. /\ ~open' /\ open' \in BOOLEAN /\ pc' \in {"down", "idle", "drain", "again"}
      /\ pc' \notin {"drain", "again"}
  BY <1>3, Zenon
<1>6. log' \in File /\ Len(log') <= MaxBytes /\ disk' \in File /\ Len(disk') <= MaxBytes
  BY <1>2, Zenon
<1>7. QED
  BY <1>4, <1>5, <1>6, SoundBetween, Zenon

\* A start cuts the log behind its last boundary or not at all, and begins to read at
\* a boundary: where the cursor file says, or at the start.
LEMMA OpenFacts ==
  ASSUME Sound, Open
  PROVE  /\ log' \in File /\ disk' = log' /\ Len(log') <= Len(log)
         /\ \A k \in 1 .. Len(log') : log'[k] = log[k]
         /\ \A b \in Boundaries(log) : b <= Len(log')
         /\ offset' \in Boundaries(log') /\ cursor' = offset' /\ cursor' \in {cursor, 0}
<1> DEFINE end == Max(Boundaries(log))
           f == IF Torn(log, end) THEN SubSeq(log, 1, end) ELSE log
<1>0. log \in File /\ Len(log) \in Nat
  BY Types, Zenon DEF Sound
<1>1. end \in Boundaries(log) /\ \A b \in Boundaries(log) : b \in Nat /\ b <= Len(log) /\ b <= end
  BY <1>0, LastBoundary, Zenon
<1>2. end \in 0 .. Len(log)
  <2>1. end \in Nat /\ end <= Len(log)
    BY <1>1, Zenon
  <2> HIDE DEF end
  <2>2. QED
    BY <1>0, <2>1
<1>3. /\ log' = f /\ disk' = f /\ cursor' = (IF cursor \in Boundaries(f) THEN cursor ELSE 0)
      /\ offset' = cursor'
  BY Zenon DEF Open
<1> HIDE DEF end
<1>4. /\ SubSeq(log, 1, end) \in File /\ Len(SubSeq(log, 1, end)) = end
      /\ \A k \in 1 .. end : SubSeq(log, 1, end)[k] = log[k]
  BY <1>0, <1>2, Cut, Zenon
<1>5. f = SubSeq(log, 1, end) \/ f = log
  BY Zenon
<1> HIDE DEF f
<1>6. /\ f \in File /\ Len(f) <= Len(log) /\ (\A k \in 1 .. Len(f) : f[k] = log[k])
      /\ \A b \in Boundaries(log) : b <= Len(f)
  <2>1. CASE f = log
    <3>1. Len(log) <= Len(log)
      BY <1>0
    <3>2. QED
      BY <1>0, <1>1, <2>1, <3>1, Zenon
  <2>2. CASE f = SubSeq(log, 1, end)
    <3>1. f \in File /\ Len(f) = end /\ \A k \in 1 .. end : f[k] = log[k]
      BY <1>4, <2>2, Zenon
    <3>2. end <= Len(log)
      BY <1>0, <1>2
    <3>3. QED
      BY <1>1, <3>1, <3>2, Zenon
  <2>3. QED
    BY <1>5, <2>1, <2>2, Zenon
<1>7. cursor' \in Boundaries(f) /\ cursor' \in {cursor, 0}
  <2>1. 0 \in Boundaries(f)
    BY <1>6, Walk, Zenon
  <2>2. QED
    BY <1>3, <2>1, Zenon
<1>8. QED
  BY <1>3, <1>6, <1>7, Zenon

\* Start.
LEMMA SoundOpen == ASSUME Sound, Open PROVE Sound'
<1>0. TypeOK /\ Fits /\ Control
  BY DEF Sound
<1>1. /\ log' \in File /\ disk' = log' /\ Len(log') <= Len(log)
      /\ offset' \in Boundaries(log') /\ cursor' = offset'
  BY OpenFacts, Zenon
<1>2. /\ Len(log) \in Nat /\ Len(log) <= MaxBytes /\ Len(log') \in Nat /\ MaxBytes \in Nat
      /\ offset' \in Nat /\ offset' <= Len(log')
  BY <1>0, <1>1, Types, FileFacts, LastBoundary, Zenon DEF Fits
<1>3. /\ Len(log') <= MaxBytes /\ Len(disk') <= MaxBytes /\ disk' \in File
      /\ cursor' \in -1 .. MaxBytes /\ offset' \in 0 .. MaxBytes
  BY <1>1, <1>2
<1>4. pc' = "idle" /\ open' = TRUE /\ UNCHANGED <<quarantine, cur, next, boundVars, ghostVars>>
  BY Zenon DEF Open, Goto, NoFault
<1>5. /\ UNCHANGED <<cur, next, evicted, settled>> /\ quarantine' \in Nat /\ quarantine' <= MaxBytes + PrefixSize
      /\ crashes' \in 0 .. MaxCrashes /\ errors' \in 0 .. MaxErrors /\ damage' \in 0 .. MaxDamage
      /\ stored' \subseteq Payload \cup {0} /\ aside' \subseteq Payload \cup {0}
      /\ harmed' \subseteq Payload \cup {0} /\ behind' \subseteq Payload \cup {0}
  BY <1>0, <1>4 DEF TypeOK, Fits, boundVars, ghostVars
<1>6. /\ open' /\ open' \in BOOLEAN /\ pc' \in {"down", "idle", "drain", "again"}
      /\ pc' # "down"
  BY <1>4
<1>7. QED
  BY <1>1, <1>2, <1>3, <1>5, <1>6, SoundBetween, Zenon

\* Whose cells are behind position k.
LEMMA BehindCell ==
  ASSUME NEW f \in File, NEW k \in Nat, NEW j \in k + 1 .. Len(f), f[j][1] # 0
  PROVE  f[j][1] \in Owners(Unread(f, k))
<1>1. Len(f) \in Nat /\ j \in Nat /\ k <= Len(f) /\ Len(f) \in 0 .. Len(f) /\ j - k \in 1 .. Len(f) - k
      /\ k + (j - k) = j
  <2>1. Len(f) \in Nat
    BY FileFacts
  <2>2. QED
    BY <2>1
<1> DEFINE u == SubSeq(f, k + 1, Len(f))
<1>2. u \in File /\ Len(u) = Len(f) - k /\ \A i \in 1 .. Len(f) - k : u[i] = f[k + i]
  BY <1>1, Part, Zenon
<1>3. u = Unread(f, k)
  BY DEF Unread
<1> HIDE DEF u
<1>4. u[j - k] = f[k + (j - k)] /\ j - k \in DOMAIN u
  BY <1>1, <1>2, FileFacts, Zenon
<1>5. u[j - k] = f[j]
  BY <1>1, <1>4
<1>6. f[j][1] \in Owners(u)
  BY <1>4, <1>5, Zenon DEF Owners
<1>7. QED
  BY <1>3, <1>6, Zenon

\* One cell changes, in both files where they agree; its payload is harmed, and those
\* behind it are noted.
LEMMA DamageFacts ==
  ASSUME Sound, Damage
  PROVE  \E k \in 1 .. Len(log) :
           /\ log' \in File /\ disk' \in File /\ Len(log') = Len(log) /\ Len(disk') = Len(disk)
           /\ \A j \in 1 .. Len(log) : j # k => log'[j] = log[j]
           /\ \A j \in 1 .. Len(disk) : j # k => disk'[j] = disk[j]
           /\ harmed' = harmed \cup {log[k][1]} /\ behind' = behind \cup Owners(Unread(log, k))
<1>0. /\ log \in File /\ disk \in File /\ Len(log) \in Nat /\ DOMAIN log = 1 .. Len(log)
      /\ DOMAIN disk = 1 .. Len(disk)
  BY Types, FileFacts, Zenon DEF Sound
<1>1. PICK k \in DOMAIN log, n \in 0 .. MaxPayload + 1 :
         /\ log' = [log EXCEPT ![k] = <<0, n>>]
         /\ disk' = IF k \in DOMAIN disk /\ disk[k] = log[k]
                      THEN [disk EXCEPT ![k] = <<0, n>>] ELSE disk
         /\ harmed' = harmed \cup {log[k][1]}
         /\ behind' = behind \cup Owners(Unread(log, k))
  BY Zenon DEF Damage
<1>2. <<0, n>> \in Cell
  BY DEF Cell
<1> DEFINE c == <<0, n>>
<1>3. ASSUME NEW f \in File, k \in DOMAIN f
      PROVE  /\ [f EXCEPT ![k] = c] \in File /\ Len([f EXCEPT ![k] = c]) = Len(f)
             /\ \A j \in 1 .. Len(f) : j # k => [f EXCEPT ![k] = c][j] = f[j]
  <2>1. c \in Cell
    BY <1>2
  <2> HIDE DEF c
  <2>2. QED
    BY <1>3, <2>1 DEF File
<1>4. disk' = disk \/ (k \in DOMAIN disk /\ disk' = [disk EXCEPT ![k] = c])
  BY <1>1, Zenon
<1>5. log' = [log EXCEPT ![k] = c]
  BY <1>1, Zenon
<1> HIDE DEF c
<1>6. log' \in File /\ Len(log') = Len(log) /\ \A j \in 1 .. Len(log) : j # k => log'[j] = log[j]
  BY <1>0, <1>3, <1>5, Zenon
<1>7. disk' \in File /\ Len(disk') = Len(disk) /\ \A j \in 1 .. Len(disk) : j # k => disk'[j] = disk[j]
  <2>1. CASE disk' = disk
    BY <1>0, <2>1, Zenon
  <2>2. CASE k \in DOMAIN disk /\ disk' = [disk EXCEPT ![k] = c]
    BY <1>0, <1>3, <2>2, Zenon
  <2>3. QED
    BY <1>4, <2>1, <2>2, Zenon
<1>8. QED
  BY <1>0, <1>1, <1>6, <1>7, Zenon

\* Damage.
LEMMA SoundDamage == ASSUME Sound, Damage PROVE Sound' /\ Len(Written') = Len(Written)
<1>0. TypeOK /\ Fits /\ Control
  BY DEF Sound
<1>1. PICK k \in 1 .. Len(log) :
        /\ log' \in File /\ disk' \in File /\ Len(log') = Len(log) /\ Len(disk') = Len(disk)
        /\ \A j \in 1 .. Len(log) : j # k => log'[j] = log[j]
        /\ harmed' = harmed \cup {log[k][1]} /\ behind' = behind \cup Owners(Unread(log, k))
  BY DamageFacts, Zenon
<1>2. /\ UNCHANGED <<cursor, quarantine, open, offset, pc, cur, next, crashes, errors,
                     stored, settled, evicted, aside>>
      /\ damage < MaxDamage /\ damage' = damage + 1
  BY Zenon DEF Damage
<1>3. log \in File /\ Len(log) \in Nat
  BY <1>0, Types, Zenon
<1>4. harmed' \subseteq Payload \cup {0} /\ behind' \subseteq Payload \cup {0}
  <2>1. log[k][1] \in Payload \cup {0}
    BY <1>3, FileFacts, CellFacts, Zenon
  <2>2. Unread(log, k) \in File /\ Len(Unread(log, k)) = Len(log) - k
    <3>1. k \in Nat /\ Len(log) \in 0 .. Len(log) /\ k <= Len(log)
      BY <1>3
    <3>2. QED
      BY <1>3, <3>1, Part, Zenon DEF Unread
  <2>3. Len(Unread(log, k)) <= Len(log)
    BY <1>3, <2>2
  <2>4. Owners(Unread(log, k)) \subseteq Payload \cup {0}
    BY <2>2, <2>3, Segment, Zenon
  <2>5. QED
    BY <1>0, <1>1, <2>1, <2>4, Zenon DEF TypeOK
<1>5. Len(Written') = Len(Written)
  <2>1. CASE pc # "sync"
    <3>1. Written = log /\ Written' = log'
      BY <1>2, <2>1 DEF Written
    <3>2. QED
      BY <1>1, <3>1, Zenon
  <2>2. CASE pc = "sync"
    <3>1. /\ Len(Written) = Len(log) - SizeOf(cur) /\ SizeOf(cur) \in Nat /\ Len(Written) \in Nat
          /\ Len(Written) <= Len(log)
      BY <2>2, WrittenFacts, Zenon
    <3>2. Written' = SubSeq(log', 1, Len(log) - SizeOf(cur))
      <4>1. pc' = "sync" /\ cur' = cur /\ Len(log') = Len(log)
        BY <1>1, <1>2, <2>2, Zenon
      <4>2. Written' = SubSeq(log', 1, Len(log') - SizeOf(cur'))
        BY <4>1, Zenon DEF Written, SizeOf
      <4>3. QED
        BY <4>1, <4>2, Zenon
    <3>3. Written' = SubSeq(log', 1, Len(Written)) /\ Len(Written) \in 0 .. Len(log')
      BY <1>1, <1>3, <3>1, <3>2
    <3>4. Len(SubSeq(log', 1, Len(Written))) = Len(Written)
      BY <1>1, <3>3, Cut, Zenon
    <3>5. QED
      BY <3>3, <3>4, Zenon
  <2>3. QED
    BY <2>1, <2>2, Zenon
<1>6. TypeOK'
  <2>1. damage' \in 0 .. MaxDamage
    BY <1>0, <1>2, BoundAssumption DEF TypeOK
  <2>2. (stored \cup settled \cup evicted \cup aside \cup harmed \cup behind)' \subseteq Payload \cup {0}
    BY <1>0, <1>2, <1>4, Zenon DEF TypeOK
  <2>3. log' \in Seq(Cell) /\ disk' \in Seq(Cell)
    BY <1>1, Zenon DEF File
  <2>4. QED
    BY <1>0, <1>2, <2>1, <2>2, <2>3, Zenon DEF TypeOK
<1>7. Fits'
  BY <1>0, <1>1, <1>2 DEF Fits, SizeOf
<1>8. Control'
  <2>1. SUFFICES ASSUME pc = "sync", cur \notin harmed' \cup behind', NEW j \in 1 .. SizeOf(cur)
                 PROVE  log'[Len(Written) + j] = <<cur, j>>
    <3>1. SizeOf(cur)' = SizeOf(cur)
      BY <1>2 DEF SizeOf
    <3>2. \A i \in 1 .. SizeOf(cur) : pc = "sync" /\ cur \notin harmed' \cup behind'
                                        => log'[Len(Written) + i] = <<cur, i>>
      BY <2>1, Zenon
    <3>3. /\ pc \notin {"idle", "down"} => open
          /\ pc = "down" => ~open
          /\ open => offset <= Len(Written)
          /\ pc = "swap" => cursor = 0
          /\ pc = "commit" => cur \in settled
      BY <1>0, Zenon DEF Control
    <3>4. QED
      BY <1>2, <1>5, <3>1, <3>2, <3>3, Zenon DEF Control
  <2>2. cur \notin harmed \cup behind
    BY <1>1, <2>1, Zenon
  <2>3. /\ Len(Written) = Len(log) - SizeOf(cur) /\ SizeOf(cur) \in Nat /\ Len(Written) \in Nat
        /\ Len(Written) <= Len(log)
    BY <2>1, WrittenFacts, Zenon
  <2>4. log[Len(Written) + j] = <<cur, j>> /\ cur \in Payload
    BY <1>0, <2>1, <2>2 DEF Control, Fits, Enqueueing
  <2>5. log[Len(Written) + j][1] = cur /\ cur # 0
    BY <2>4, PayloadAssumption
  <2>6. Len(Written) + j \in 1 .. Len(log)
    BY <1>3, <2>3
  <2>7. Len(Written) + j # k
    <3>1. log[k][1] # cur
      BY <1>1, <2>1, Zenon
    <3>2. QED
      BY <2>5, <3>1
  <2>8. QED
    BY <1>1, <2>4, <2>6, <2>7, Zenon
<1>9. QED
  BY <1>5, <1>6, <1>7, <1>8, Zenon DEF Sound

\* The stuttering step.
LEMMA SoundStutter == ASSUME Sound, UNCHANGED vars PROVE Sound'
<1>1. UNCHANGED <<log, disk, cursor, quarantine, open, offset, pc, cur, next, crashes, errors, damage,
                  stored, settled, evicted, aside, harmed, behind>>
  BY DEF vars, boundVars, ghostVars
<1>2. QED
  BY <1>1, Zenon DEF Sound, TypeOK, Fits, Control, Written, SizeOf

\* Every step.
LEMMA SoundStep == Sound /\ [Next]_vars => Sound'
<1> SUFFICES ASSUME Sound, [Next]_vars PROVE Sound'
  OBVIOUS
<1>1. CASE UNCHANGED vars
  BY <1>1, SoundStutter, Zenon
<1>2. ASSUME NEW p \in Payload, Enqueue(p) \/ Refuse(p) PROVE Sound'
  BY <1>2, SoundEnqueue, SoundStutter, Zenon DEF Refuse
<1>3. CASE \/ CompactCursor \/ CompactFails \/ SwapFails \/ DrainStop \/ NextEnd \/ NextRecord
           \/ Send \/ Commit \/ CommitInvalid \/ CommitFails
  BY <1>3, SoundQuiet, Zenon
<1>4. CASE Swap \/ SwapUnsynced
  BY <1>4, SoundSwap, Zenon
<1>5. CASE Write \/ AppendFails \/ Sync \/ SyncFails
  BY <1>5, SoundWrite, SoundAppendFails, SoundSync, SoundSyncFails, Zenon
<1>6. CASE NextTorn \/ NextBroken \/ NextChecksum \/ RecoveryFails
  BY <1>6, SoundRecovery, Zenon
<1>7. CASE Close \/ Crash \/ Open \/ Damage
  BY <1>7, SoundEnd, SoundOpen, SoundDamage, Zenon
<1>8. QED
  BY <1>1, <1>2, <1>3, <1>4, <1>5, <1>6, <1>7, Zenon DEF Next, LoopStep, FaultStep

\* Sizes, control and types hold.
LEMMA AlwaysSound == Spec => []Sound
<1>1. QED
  BY SoundInit, SoundStep, PTL DEF Spec

\* Types hold in every state: no position, length or counter leaves its range, also
\* when a damaged length or a failing file operation leads the walk astray.
THEOREM TypeCorrect == Spec => []TypeOK
<1>1. Sound => TypeOK
  BY DEF Sound
<1>2. QED
  BY <1>1, AlwaysSound, PTL

\* Neither the log nor the quarantine outgrows its bound, whatever fails: compaction
\* leaves room for the record, and an append happens only where there is room.
THEOREM StaysBounded == Spec => []Bounded
<1>1. Sound => Bounded
  BY DEF Sound, Fits, Bounded
<1>2. QED
  BY <1>1, AlwaysSound, PTL

-----------------------------------------------------------------------------
(* The cursor file and the process. *)

\* Initially.
LEMMA AheadInit == Init => Ahead
  BY DEF Init, Ahead

\* The log grows, or loses no more than the record that was being written.
LEMMA AheadGrows ==
  ASSUME Sound, Ahead, log' \in File, Written' = log', Len(Written) <= Len(log'),
         \A k \in 1 .. Len(Written) : log'[k] = log[k],
         UNCHANGED <<cursor, offset, open, damage>>, errors' # 0 \/ errors' = errors,
         pc' \notin {"send", "commit"}
  PROVE  Ahead'
<1>1. /\ Written \in File /\ Len(Written) \in Nat /\ \A k \in 1 .. Len(Written) : Written[k] = log[k]
      /\ offset \in Nat /\ Len(log') \in Nat
  BY WrittenFacts, Types, FileFacts, Zenon DEF Sound
<1>2. ASSUME Whole(Written, offset)
      PROVE  Whole(log', offset) /\ EndAt(log', offset) = EndAt(Written, offset)
  <2>1. EndAt(Written, offset) \in offset + 2 .. Len(Written)
    BY <1>1, <1>2, WholeEnd, Zenon
  <2>2. EndAt(Written, offset) <= Len(log') /\ \A k \in 1 .. EndAt(Written, offset) : k \in 1 .. Len(Written)
    BY <1>1, <2>1
  <2>3. \A k \in 1 .. EndAt(Written, offset) : log'[k] = Written[k]
    BY <1>1, <2>2, Zenon
  <2>4. QED
    BY <1>1, <1>2, <2>2, <2>3, Same, Zenon
<1>3. open' /\ errors' = 0 => cursor' <= offset'
  BY DEF Ahead
<1>4. open' /\ damage' = 0 /\ offset' < cursor' => Whole(Written', offset') /\ cursor' = EndAt(Written', offset')
  BY <1>2 DEF Ahead
<1>5. QED
  BY <1>3, <1>4, Zenon DEF Ahead

\* Steps that leave the log and the process where they are.
LEMMA AheadQuiet ==
  ASSUME Sound, Ahead,
         \/ \E p \in Payload : Enqueue(p)
         \/ CompactCursor \/ CompactFails \/ SwapFails \/ DrainStop \/ NextEnd \/ NextRecord
         \/ Send \/ CommitInvalid \/ CommitFails
  PROVE  Ahead'
<1>0. TypeOK /\ Fits /\ Control
  BY DEF Sound
<1>1. /\ offset \in Nat /\ errors \in Nat /\ cursor \in Int
  BY <1>0, Types, Zenon
<1>2. /\ UNCHANGED <<log, open, offset, damage>> /\ pc # "sync" /\ pc' # "sync"
      /\ errors' = errors \/ errors' = errors + 1
  BY Zenon DEF Enqueue, CompactCursor, CompactFails, SwapFails, DrainStop, NextEnd, NextRecord,
     Send, CommitInvalid, CommitFails, Goto, NoFault, FileError, Errors, boundVars, Draining
<1>3. Written = log /\ Written' = log'
  BY <1>2 DEF Written
<1>4. errors' = 0 => errors = 0
  BY <1>1, <1>2
<1>5. CASE NextRecord
  <2>1. UNCHANGED cursor /\ Whole(log, offset) /\ next' = EndAt(log, offset)
    BY <1>5 DEF NextRecord
  <2>2. EndAt(log, offset)' = EndAt(log, offset) /\ (Whole(log, offset)' <=> Whole(log, offset))
    BY <1>2
  <2>3. QED
    BY <1>2, <1>3, <1>4, <2>1, <2>2 DEF Ahead
<1>6. CASE CommitFails
  <2>1. /\ cursor' \in {cursor, next} /\ UNCHANGED next /\ pc = "commit" /\ pc' = "idle"
        /\ errors' = errors + 1
    BY <1>6 DEF CommitFails, Goto, FileError, Errors
  <2>2. damage = 0 => Whole(log, offset) /\ next = EndAt(log, offset)
    BY <2>1 DEF Ahead
  <2>3. errors' # 0
    BY <1>1, <2>1
  <2>4. QED
    BY <1>2, <1>3, <2>1, <2>2, <2>3 DEF Ahead
<1>7. CASE Send
  <2>1. UNCHANGED <<cursor, next>> /\ pc = "send"
    BY <1>7 DEF Send
  <2>2. QED
    BY <1>2, <1>3, <1>4, <2>1 DEF Ahead
<1>8. CASE \/ \E p \in Payload : Enqueue(p)
           \/ CompactCursor \/ CompactFails \/ SwapFails \/ DrainStop \/ NextEnd \/ CommitInvalid
  <2>1. (cursor' = cursor \/ cursor' = 0) /\ pc' \notin {"send", "commit"}
    BY <1>8 DEF Enqueue, CompactCursor, CompactFails, SwapFails, DrainStop, NextEnd, CommitInvalid, Goto
  <2>2. offset < cursor' => cursor' = cursor
    BY <1>1, <2>1
  <2>3. cursor <= offset => cursor' <= offset
    BY <1>1, <2>1
  <2>4. QED
    BY <1>2, <1>3, <1>4, <2>1, <2>2, <2>3, Zenon DEF Ahead
<1>9. QED
  BY <1>5, <1>6, <1>7, <1>8, Zenon

\* What Next does where it finds no whole record, or one whose checksum is wrong.
LEMMA AheadRecovery ==
  ASSUME Sound, Ahead, NextTorn \/ NextBroken \/ NextChecksum \/ RecoveryFails PROVE Ahead'
<1>0. TypeOK /\ Fits /\ Control
  BY DEF Sound
<1>1. offset \in Nat /\ errors \in Nat /\ cursor \in Int
  BY <1>0, Types, Zenon
<1>2. /\ UNCHANGED <<open, damage>> /\ Draining /\ pc # "sync" /\ pc' \in {"idle", "again"}
      /\ errors' = errors \/ errors' = errors + 1
  BY DEF NextTorn, NextBroken, NextChecksum, RecoveryFails, Goto, NoFault, FileError, Errors,
     boundVars, Draining
<1>3. Written = log /\ Written' = log'
  BY <1>2 DEF Written
<1>4. errors' = 0 => errors = 0
  BY <1>1, <1>2
<1>5. CASE ~Whole(log, offset)
  <2>1. UNCHANGED <<cursor, offset>>
    BY <1>5 DEF NextTorn, NextBroken, NextChecksum, RecoveryFails
  <2>2. open /\ damage = 0 => ~(offset < cursor)
    BY <1>3, <1>5 DEF Ahead
  <2>3. QED
    BY <1>2, <1>4, <2>1, <2>2 DEF Ahead
<1>6. CASE Whole(log, offset) /\ NextChecksum
  <2>1. cursor' = offset' /\ offset' = EndAt(log, offset)
    BY <1>6 DEF NextChecksum
  <2>2. offset' \in Nat
    <3>1. EndAt(log, offset) \in offset + 2 .. Len(log) /\ Len(log) \in Nat
      BY <1>0, <1>6, Types, WholeEnd, Zenon
    <3>2. QED
      BY <1>1, <2>1, <3>1
  <2>3. QED
    BY <1>2, <2>1, <2>2 DEF Ahead
<1>7. CASE Whole(log, offset) /\ ~NextChecksum
  <2>1. ~Torn(log, offset) /\ ~Broken(log, offset)
    <3>1. Len(log) \in Nat /\ EndAt(log, offset) \in offset + 2 .. Len(log)
      BY <1>0, <1>1, <1>7, Types, WholeEnd, Zenon
    <3>2. QED
      BY <1>1, <1>7, <3>1 DEF Torn, Broken, Whole
  <2>2. RecoveryFails
    BY <1>7, <2>1, Zenon DEF NextTorn, NextBroken
  <2>3. /\ UNCHANGED <<log, offset>> /\ (cursor' = cursor \/ cursor' = EndAt(log, offset))
        /\ errors' = errors + 1
    BY <1>7, <2>1, <2>2, Zenon DEF RecoveryFails, FileError, Errors
  <2>4. errors' # 0
    BY <1>1, <2>3
  <2>5. QED
    BY <1>2, <1>3, <1>7, <2>3, <2>4 DEF Ahead
<1>8. QED
  BY <1>5, <1>6, <1>7, Zenon

\* Every step.
LEMMA AheadStep == Sound /\ Ahead /\ [Next]_vars => Ahead'
<1> SUFFICES ASSUME Sound, Ahead, [Next]_vars PROVE Ahead'
  OBVIOUS
<1>0. TypeOK /\ Fits /\ Control
  BY DEF Sound
<1>1. /\ offset \in Nat /\ errors \in Nat /\ cursor \in Int /\ damage \in Nat /\ next \in Nat
      /\ log \in File /\ Len(log) \in Nat
  BY <1>0, Types, Zenon
<1>2. CASE UNCHANGED vars
  <2>1. UNCHANGED <<log, cursor, open, offset, pc, cur, next, errors, damage>>
    BY <1>2 DEF vars, boundVars
  <2>2. QED
    BY <2>1 DEF Ahead, Written, SizeOf
<1>3. CASE \/ \E p \in Payload : Enqueue(p)
           \/ CompactCursor \/ CompactFails \/ SwapFails \/ DrainStop \/ NextEnd \/ NextRecord
           \/ Send \/ CommitInvalid \/ CommitFails
  BY <1>3, AheadQuiet, Zenon
<1>4. CASE Swap
  <2>1. offset' = 0 /\ cursor' = 0 /\ pc' = "append"
    BY <1>0, <1>4 DEF Swap, Goto, Control
  <2>2. QED
    BY <2>1 DEF Ahead
<1>5. CASE SwapUnsynced \/ Close \/ Crash
  <2>1. ~open' /\ pc' \notin {"send", "commit"}
    BY <1>5 DEF SwapUnsynced, Close, Crash, Goto
  <2>2. QED
    BY <2>1, Zenon DEF Ahead
<1>6. CASE Write
  <2>1. Written = log /\ Written' = log
    BY <1>6, SoundWrite, Zenon DEF Write, Written
  <2>2. UNCHANGED <<cursor, open, offset, errors, damage>> /\ pc' = "sync"
    BY <1>6 DEF Write, Goto, NoFault, boundVars
  <2>3. QED
    BY <2>1, <2>2 DEF Ahead
<1>7. CASE AppendFails
  <2>1. /\ Sound' /\ Len(log) <= Len(log') /\ errors' # 0
        /\ \A k \in 1 .. Len(log) : log'[k] = log[k]
    BY <1>7, SoundAppendFails, Zenon
  <2>2. Written = log /\ Written' = log' /\ pc' = "idle"
    BY <1>7 DEF AppendFails, Written, Goto
  <2>3. UNCHANGED <<cursor, offset, open, damage>>
    BY <1>7 DEF AppendFails, Rollback, FileError
  <2>4. log' \in File
    BY <2>1 DEF Sound, TypeOK, File
  <2>5. pc' \notin {"send", "commit"}
    BY <2>2
  <2>6. Len(Written) <= Len(log') /\ \A k \in 1 .. Len(Written) : log'[k] = log[k]
    BY <2>1, <2>2, Zenon
  <2>7. QED
    BY <2>1, <2>2, <2>3, <2>4, <2>5, <2>6, AheadGrows, Zenon
<1>8. CASE SyncFails
  <2>1. /\ Sound' /\ Len(Written) <= Len(log') /\ errors' # 0
        /\ \A k \in 1 .. Len(Written) : log'[k] = log[k]
    BY <1>8, SoundSyncFails, Zenon
  <2>2. Written' = log' /\ pc' = "idle"
    BY <1>8 DEF SyncFails, Written, Goto
  <2>3. UNCHANGED <<cursor, offset, open, damage>>
    BY <1>8 DEF SyncFails, Rollback, FileError
  <2>4. log' \in File
    BY <2>1 DEF Sound, TypeOK, File
  <2>5. pc' \notin {"send", "commit"}
    BY <2>2
  <2>6. QED
    BY <2>1, <2>2, <2>3, <2>4, <2>5, AheadGrows, Zenon
<1>9. CASE Sync
  <2>1. Written' = log' /\ log' = log /\ pc' = "drain"
    BY <1>9 DEF Sync, Written, Goto
  <2>2. UNCHANGED <<cursor, offset, open, damage>> /\ errors' = errors
    BY <1>9 DEF Sync, NoFault, boundVars
  <2>3. Len(Written) <= Len(log') /\ \A k \in 1 .. Len(Written) : log'[k] = log[k]
    BY <2>1, WrittenFacts, Zenon
  <2>4. pc' \notin {"send", "commit"} /\ log' \in File
    BY <1>1, <2>1
  <2>5. QED
    BY <2>1, <2>2, <2>3, <2>4, AheadGrows, Zenon
<1>10. CASE NextTorn \/ NextBroken \/ NextChecksum \/ RecoveryFails
  BY <1>10, AheadRecovery, Zenon
<1>11. CASE Commit
  <2>1. cursor' = next /\ offset' = next /\ pc' = "again"
    BY <1>11 DEF Commit, Goto
  <2>2. QED
    BY <1>1, <2>1 DEF Ahead
<1>12. CASE Open
  <2>1. cursor' = offset' /\ offset' \in {cursor, 0} /\ pc' = "idle"
    BY <1>12, OpenFacts, Zenon DEF Open, Goto
  <2>2. QED
    BY <1>1, <2>1 DEF Ahead
<1>13. CASE Damage
  <2>1. UNCHANGED <<cursor, open, offset, errors>> /\ damage' = damage + 1
    BY <1>13 DEF Damage
  <2>2. damage' # 0
    BY <1>1, <2>1
  <2>3. QED
    BY <2>1, <2>2 DEF Ahead
<1>14. QED
  BY <1>2, <1>3, <1>4, <1>5, <1>6, <1>7, <1>8, <1>9, <1>10, <1>11, <1>12, <1>13, Zenon
  DEF Next, LoopStep, FaultStep, Refuse

-----------------------------------------------------------------------------
(* Nothing is lost. *)

\* Initially.
LEMMA KeepsInit == Init => Keeps
<1>1. Init => Owed = {}
  BY Zenon DEF Init, Owed
<1>2. QED
  BY <1>1, Zenon DEF Keeps

\* What holds of a state in which a payload is held.
LEMMA HeldFacts ==
  ASSUME Sound, NEW p, NEW b, Held(p, b)
  PROVE  /\ Safe(log, disk, b, p) /\ RecordAt(log, b, p) /\ Whole(log, b) /\ Intact(log, b)
         /\ log[b + 2][1] = p
         /\ b \in Boundaries(log) /\ b \in Nat /\ b + 2 <= EndAt(log, b) /\ EndAt(log, b) \in Nat
         /\ EndAt(log, b) <= Len(log) /\ EndAt(log, b) <= Len(disk) /\ EndAt(log, b) <= Len(Written)
         /\ EndAt(log, b) \in Boundaries(log)
         /\ \A k \in 1 .. EndAt(log, b) : disk[k] = log[k]
<1>1. log \in File
  BY Types, Zenon DEF Sound
<1>2. /\ Safe(log, disk, b, p) /\ RecordAt(log, b, p) /\ Whole(log, b) /\ Intact(log, b)
      /\ log[b + 2][1] = p /\ b \in Boundaries(log) /\ EndAt(log, b) <= Len(disk)
      /\ EndAt(log, b) <= Len(Written) /\ \A k \in 1 .. EndAt(log, b) : disk[k] = log[k]
  BY Zenon DEF Held, Safe, RecordAt
<1>3. QED
  BY <1>1, <1>2, Place, Zenon

\* Where the process stands at a held payload's record, or ahead of it.
LEMMA OnOffer ==
  ASSUME Sound, NEW p, NEW b, Held(p, b), open, pc # "sync"
  PROVE  /\ Whole(log, offset)
         /\ offset = b \/ (EndAt(log, offset) <= b /\ EndAt(log, offset) \in Boundaries(log))
<1>1. log \in File /\ offset \in Nat
  BY Types, Zenon DEF Sound
<1>2. Whole(log, b) /\ b \in Boundaries(log) /\ b \in Nat
  BY HeldFacts, Zenon
<1>3. offset \in Boundaries(log) /\ offset <= b
  BY Zenon DEF Held
<1>4. CASE offset = b
  BY <1>2, <1>4, Zenon
<1>5. CASE offset # b
  <2>1. offset < b
    BY <1>1, <1>2, <1>3, <1>5
  <2>2. Whole(log, offset) /\ EndAt(log, offset) <= b
    BY <1>1, <1>2, <1>3, <2>1, Chain, Zenon
  <2>3. QED
    BY <1>1, <1>3, <2>2, Walk, Zenon
<1>6. QED
  BY <1>4, <1>5, Zenon

\* No step takes a fault back.
LEMMA FaultsStay ==
  ASSUME Sound, [Next]_vars
  PROVE  (errors' = 0 => errors = 0) /\ (damage' = 0 => damage = 0)
<1>1. errors \in Nat /\ damage \in Nat
  BY Types, Zenon DEF Sound
<1>2. CASE \/ UNCHANGED vars \/ (\E p \in Payload : Enqueue(p)) \/ CompactCursor \/ Swap \/ Write \/ Sync
           \/ NextEnd \/ NextTorn \/ NextBroken \/ NextChecksum \/ NextRecord \/ Send \/ Commit
           \/ CommitInvalid \/ DrainStop \/ Open
  <2>1. UNCHANGED boundVars
    BY <1>2, Zenon DEF vars, Enqueue, CompactCursor, Swap, Write, Sync, NextEnd, NextTorn, NextBroken,
       NextChecksum, NextRecord, Send, Commit, CommitInvalid, DrainStop, Open, NoFault
  <2>2. QED
    BY <2>1 DEF boundVars
<1>3. CASE \/ CompactFails \/ SwapFails \/ SwapUnsynced \/ RecoveryFails \/ CommitFails
  <2>1. FileError(1)
    BY <1>3, Zenon DEF CompactFails, SwapFails, SwapUnsynced, RecoveryFails, CommitFails
  <2>2. QED
    BY <1>1, <2>1 DEF FileError, Errors
<1>4. CASE AppendFails \/ SyncFails
  <2>1. FileError(1) \/ FileError(2)
    BY <1>4, Zenon DEF AppendFails, SyncFails, Rollback
  <2>2. QED
    BY <1>1, <2>1 DEF FileError, Errors
<1>5. CASE Close \/ Crash
  <2>1. UNCHANGED <<errors, damage>>
    BY <1>5, Zenon DEF Close, Crash, Ended
  <2>2. QED
    BY <2>1
<1>6. CASE Damage
  <2>1. errors' = errors /\ damage' = damage + 1
    BY <1>6, Zenon DEF Damage
  <2>2. QED
    BY <1>1, <2>1
<1>7. QED
  BY <1>2, <1>3, <1>4, <1>5, <1>6, Zenon DEF Next, LoopStep, FaultStep, Refuse

\* Only Sync owes a payload anew: the one it stored.
LEMMA OwedBefore ==
  ASSUME [Next]_vars, NEW p \in Owed'
  PROVE  p \in Owed \/ (Sync /\ p = cur)
<1>0. p \in stored' /\ p \notin settled' /\ p \notin evicted' /\ p \notin harmed' /\ p \notin behind'
  BY Zenon DEF Owed
<1>1. CASE \/ UNCHANGED vars \/ CompactCursor \/ CompactFails \/ SwapFails \/ Write \/ AppendFails
           \/ SyncFails \/ DrainStop \/ NextEnd \/ NextTorn \/ NextRecord \/ Commit \/ CommitInvalid
           \/ CommitFails \/ Close \/ Crash \/ Open
  <2>1. UNCHANGED ghostVars
    BY <1>1, Zenon DEF vars, CompactCursor, CompactFails, SwapFails, Write, AppendFails, SyncFails,
       DrainStop, NextEnd, NextTorn, NextRecord, Commit, CommitInvalid, CommitFails, Close, Crash, Open
  <2>2. UNCHANGED <<stored, settled, evicted, harmed, behind>>
    BY <2>1 DEF ghostVars
  <2>3. QED
    BY <1>0, <2>2, Zenon DEF Owed
<1>2. CASE \E q \in Payload : Enqueue(q)
  BY <1>0, <1>2, Zenon DEF Enqueue, Owed
<1>3. CASE Swap \/ SwapUnsynced
  <2>1. UNCHANGED <<stored, settled, harmed, behind>> /\ evicted \subseteq evicted'
    BY <1>3, Zenon DEF Swap, SwapUnsynced
  <2>2. QED
    BY <1>0, <2>1, Zenon DEF Owed
<1>4. CASE NextBroken \/ NextChecksum \/ RecoveryFails
  <2>1. UNCHANGED <<stored, settled, evicted, harmed, behind>>
    BY <1>4, Zenon DEF NextBroken, NextChecksum, RecoveryFails
  <2>2. QED
    BY <1>0, <2>1, Zenon DEF Owed
<1>5. CASE Send
  <2>1. UNCHANGED <<stored, evicted, harmed, behind>> /\ settled \subseteq settled'
    BY <1>5, Zenon DEF Send
  <2>2. QED
    BY <1>0, <2>1, Zenon DEF Owed
<1>6. CASE Damage
  BY <1>0, <1>6, Zenon DEF Damage, Owed
<1>7. CASE Sync
  BY <1>0, <1>7, Zenon DEF Sync, Owed
<1>8. QED
  BY <1>1, <1>2, <1>3, <1>4, <1>5, <1>6, <1>7, Zenon DEF Next, LoopStep, FaultStep, Refuse

\* A payload stays held when the files change behind its record only, and neither the
\* cursor file nor the process passes it.
LEMMA HeldMoves ==
  ASSUME Sound, NEW p, NEW b, Held(p, b), log' \in File, disk' \in File,
         EndAt(log, b) <= Len(log'), EndAt(log, b) <= Len(disk'),
         \A k \in 1 .. EndAt(log, b) : log'[k] = log[k] /\ disk'[k] = log[k],
         EndAt(log, b) <= Len(Written'), cursor' <= b,
         open' => \/ open /\ offset' = offset
                  \/ offset' \in Boundaries(log') /\ offset' <= b,
         pc' \notin {"send", "commit"}
  PROVE  Held(p, b)'
<1>1. log \in File /\ disk \in File /\ Safe(log, disk, b, p)
  BY Types, HeldFacts, Zenon DEF Sound
<1>2. /\ Safe(log', disk', b, p) /\ EndAt(log', b) = EndAt(log, b)
      /\ \A c \in Boundaries(log) : c <= b => c \in Boundaries(log')
  BY <1>1, Carry, Zenon
<1>3. open => offset \in Boundaries(log) /\ offset <= b
  BY Zenon DEF Held
<1>4. open' => offset' \in Boundaries(log') /\ offset' <= b
  BY <1>2, <1>3, Zenon
<1>5. QED
  BY <1>2, <1>4, Zenon DEF Held

\* Steps that leave the files alone.
LEMMA HeldQuiet ==
  ASSUME Sound, NEW p \in Owed', NEW b \in Nat, Held(p, b),
         \/ \E q \in Payload : Enqueue(q)
         \/ CompactCursor \/ CompactFails \/ SwapFails \/ DrainStop \/ NextEnd \/ NextRecord
         \/ Send \/ Commit \/ CommitInvalid \/ CommitFails
  PROVE  Held(p, b)'
<1>0. TypeOK /\ Fits /\ Control
  BY DEF Sound
<1>1. UNCHANGED <<log, disk, open>> /\ pc # "sync" /\ pc' # "sync"
  BY Zenon DEF Enqueue, CompactCursor, CompactFails, SwapFails, DrainStop, NextEnd, NextRecord,
     Send, Commit, CommitInvalid, CommitFails, Goto, Draining
<1>2. Written = log /\ Written' = log'
  BY <1>1 DEF Written
<1>3. /\ Safe(log', disk', b, p) /\ EndAt(log', b) <= Len(Written') /\ cursor <= b
      /\ open => offset \in Boundaries(log') /\ offset <= b
      /\ pc \in {"send", "commit"} => p = cur \/ next <= b
  <2>1. /\ Safe(log, disk, b, p) /\ EndAt(log, b) <= Len(log) /\ cursor <= b
        /\ open => offset \in Boundaries(log) /\ offset <= b
        /\ pc \in {"send", "commit"} => p = cur \/ next <= b
    BY <1>2, Zenon DEF Held
  <2>2. QED
    BY <1>1, <1>2, <2>1, Zenon
<1>4. CASE NextRecord
  <2>1. /\ UNCHANGED <<cursor, offset>> /\ cur' = log[offset + 2][1] /\ next' = EndAt(log, offset) /\ open
    BY <1>0, <1>4, Zenon DEF NextRecord, Control, Draining
  <2>2. offset = b \/ EndAt(log, offset) <= b
    BY <1>1, <2>1, OnOffer, Zenon
  <2>3. log[b + 2][1] = p
    BY HeldFacts, Zenon
  <2>4. p = cur' \/ next' <= b
    BY <2>1, <2>2, <2>3, Zenon
  <2>5. QED
    BY <1>1, <1>3, <2>1, <2>4, Zenon DEF Held
<1>5. CASE Send
  <2>1. UNCHANGED <<cursor, offset, cur, next>> /\ pc = "send"
    BY <1>5, Zenon DEF Send
  <2>2. QED
    BY <1>1, <1>3, <2>1 DEF Held
<1>6. CASE Commit \/ CommitFails
  <2>1. /\ pc = "commit" /\ next \in Boundaries(log) /\ cursor' \in {cursor, next} /\ offset' \in {offset, next}
        /\ pc' \in {"again", "idle"} /\ UNCHANGED settled
    BY <1>6, Zenon DEF Commit, CommitFails, OnBoundary, Goto, ghostVars
  <2>2. p # cur
    <3>1. cur \in settled
      BY <1>0, <2>1, Zenon DEF Control
    <3>2. p \notin settled
      BY <2>1, Zenon DEF Owed
    <3>3. QED
      BY <3>1, <3>2, Zenon
  <2>3. next <= b
    BY <1>3, <2>1, <2>2
  <2>4. cursor' <= b /\ (open' => offset' \in Boundaries(log') /\ offset' <= b)
    BY <1>1, <1>3, <2>1, <2>3
  <2>5. pc' \notin {"send", "commit"}
    BY <2>1
  <2>6. QED
    BY <1>3, <2>4, <2>5, Zenon DEF Held
<1>7. CASE \/ \E q \in Payload : Enqueue(q)
           \/ CompactCursor \/ CompactFails \/ SwapFails \/ DrainStop \/ NextEnd \/ CommitInvalid
  <2>1. (cursor' = cursor \/ cursor' = 0) /\ UNCHANGED offset /\ pc' \notin {"send", "commit"}
    BY <1>7, Zenon DEF Enqueue, CompactCursor, CompactFails, SwapFails, DrainStop, NextEnd, CommitInvalid, Goto
  <2>2. cursor' <= b
    BY <1>3, <2>1
  <2>3. QED
    BY <1>1, <1>3, <2>1, <2>2, Zenon DEF Held
<1>8. QED
  BY <1>4, <1>5, <1>6, <1>7, Zenon

\* Compaction keeps what it does not evict.
LEMMA HeldSwap ==
  ASSUME Sound, NEW p \in Owed', NEW b \in Nat, Held(p, b), Swap \/ SwapUnsynced
  PROVE  \E c \in Nat : Held(p, c)'
<1>0. TypeOK /\ Fits /\ Control
  BY DEF Sound
<1>1. pc = "swap" /\ cur \in Payload /\ LenOf[cur] <= MaxPayload /\ open /\ cursor = 0 /\ offset <= Len(log)
  BY <1>0, Zenon DEF Swap, SwapUnsynced, Control, Fits, Enqueueing, Written
<1>2. log \in File /\ disk \in File /\ offset \in Nat
  BY <1>0, Types, Zenon
<1>3. Kept \in File
  BY <1>1, <1>2, KeptFits, Zenon
<1>4. cursor' = 0 /\ pc' \in {"append", "idle"} /\ Written' = log'
  BY <1>1, Zenon DEF Swap, SwapUnsynced, Goto, Written
<1>5. CASE log' = Kept /\ disk' = Kept /\ evicted' = evicted \cup Evicted
  <2>1. p \in RecordsFrom(log, offset)
    <3>1. b \in Boundaries(log) /\ Whole(log, b) /\ Intact(log, b) /\ log[b + 2][1] = p
      BY HeldFacts, Zenon
    <3>2. b >= offset
      <4>1. offset <= b
        BY <1>1, Zenon DEF Held
      <4>2. QED
        BY <1>2, <4>1
    <3>3. QED
      BY <3>1, <3>2, Zenon DEF RecordsFrom
  <2>2. p \notin Evicted
    BY <1>5, Zenon DEF Owed
  <2>3. p \in RecordsFrom(Kept, 0)
    BY <2>1, <2>2, Zenon DEF Evicted
  <2>4. PICK c \in Boundaries(Kept) : Whole(Kept, c) /\ Intact(Kept, c) /\ p = Kept[c + 2][1]
    BY <2>3, Zenon DEF RecordsFrom
  <2>5. RecordAt(Kept, c, p)
    BY <2>4, Zenon DEF RecordAt
  <2>6. EndAt(Kept, c) <= Len(Kept) /\ c \in Nat /\ 0 \in Boundaries(Kept)
    BY <1>3, <2>5, Place, Walk, Zenon
  <2>7. Safe(Kept, Kept, c, p)
    BY <2>5, <2>6, Zenon DEF Safe
  <2>8. open' => offset' = 0
    BY DEF Swap, SwapUnsynced
  <2>9. 0 <= c /\ pc' \notin {"send", "commit"}
    BY <1>4, <2>6
  <2>10. Held(p, c)'
    <3>1. Safe(log', disk', c, p) /\ EndAt(log', c) <= Len(Written') /\ cursor' <= c
      BY <1>4, <1>5, <2>6, <2>7, <2>9, Zenon
    <3>2. open' => offset' \in Boundaries(log') /\ offset' <= c
      BY <1>5, <2>6, <2>8, <2>9, Zenon
    <3>3. QED
      BY <2>9, <3>1, <3>2, Zenon DEF Held
  <2>11. QED
    BY <2>6, <2>10, Zenon
<1>6. CASE UNCHANGED <<log, disk>> /\ open' = FALSE
  <2>1. /\ log' \in File /\ disk' \in File /\ EndAt(log, b) <= Len(log') /\ EndAt(log, b) <= Len(disk')
        /\ \A k \in 1 .. EndAt(log, b) : log'[k] = log[k] /\ disk'[k] = log[k]
        /\ EndAt(log, b) <= Len(Written') /\ cursor' <= b
    <3>1. /\ EndAt(log, b) <= Len(log) /\ EndAt(log, b) <= Len(disk) /\ cursor <= b
          /\ \A k \in 1 .. EndAt(log, b) : disk[k] = log[k]
      BY HeldFacts, Zenon DEF Held
    <3>2. cursor' <= b
      BY <1>1, <1>4, <3>1, Zenon
    <3>3. log' = log /\ disk' = disk
      BY <1>6, Zenon
    <3>4. QED
      BY <1>2, <1>4, <3>1, <3>2, <3>3, Zenon
  <2>2. pc' \notin {"send", "commit"} /\ ~open'
    BY <1>4, <1>6
  <2>3. QED
    BY <2>1, <2>2, HeldMoves, Zenon
<1>7. QED
  BY <1>5, <1>6, Zenon DEF Swap, SwapUnsynced

\* The log grows, or loses no more than the record that was being written.
LEMMA HeldGrows ==
  ASSUME Sound, NEW p, NEW b \in Nat, Held(p, b), log' \in File, disk' \in {log', disk},
         Len(Written) <= Len(log'), Len(Written) <= Len(Written'), Len(Written') \in Nat,
         \A k \in 1 .. Len(Written) : log'[k] = log[k],
         UNCHANGED <<cursor, offset, open>>, pc' \notin {"send", "commit"}
  PROVE  Held(p, b)'
<1>1. /\ Len(Written) \in Nat /\ disk \in File /\ Len(log') \in Nat
  BY WrittenFacts, Types, FileFacts, Zenon DEF Sound
<1>2. /\ EndAt(log, b) \in Nat /\ EndAt(log, b) <= Len(Written) /\ EndAt(log, b) <= Len(disk)
      /\ \A k \in 1 .. EndAt(log, b) : disk[k] = log[k]
  BY HeldFacts, Zenon
<1>3. /\ EndAt(log, b) <= Len(log')
      /\ \A k \in 1 .. EndAt(log, b) : k \in 1 .. Len(Written)
  BY <1>1, <1>2
<1>4. \A k \in 1 .. EndAt(log, b) : log'[k] = log[k]
  BY <1>3, Zenon
<1>5. EndAt(log, b) <= Len(Written')
  BY <1>1, <1>2
<1>6. disk' \in File /\ EndAt(log, b) <= Len(disk') /\ \A k \in 1 .. EndAt(log, b) : disk'[k] = log[k]
  BY <1>1, <1>2, <1>3, <1>4, Zenon
<1>7. cursor' <= b /\ (open' => open /\ offset' = offset)
  BY Zenon DEF Held
<1>8. QED
  BY <1>3, <1>4, <1>5, <1>6, <1>7, HeldMoves, Zenon

\* The steps of an append.
LEMMA HeldAppend ==
  ASSUME Sound, NEW p, NEW b \in Nat, Held(p, b), Write \/ AppendFails \/ Sync \/ SyncFails
  PROVE  Held(p, b)'
<1>0. log \in File /\ Len(log) \in Nat /\ Len(Written) \in Nat
  BY Types, WrittenFacts, Zenon DEF Sound
<1>1. Sound' /\ log' \in File /\ Len(log') \in Nat
  <2>1. Sound'
    BY SoundWrite, SoundAppendFails, SoundSync, SoundSyncFails, Zenon
  <2>2. log' \in File
    BY <2>1, Zenon DEF Sound, TypeOK, File
  <2>3. QED
    BY <2>1, <2>2, FileFacts, Zenon
<1>2. UNCHANGED <<cursor, offset, open>> /\ pc' \notin {"send", "commit"}
  BY DEF Write, AppendFails, Sync, SyncFails, Goto
<1>3. CASE Write
  <2>1. Written' = log /\ Len(log) <= Len(log') /\ \A k \in 1 .. Len(log) : log'[k] = log[k]
    BY <1>3, SoundWrite, Zenon
  <2>2. Written = log /\ disk' = disk
    BY <1>3 DEF Write, Written
  <2>3. Len(Written) <= Len(Written') /\ Len(Written') \in Nat
    BY <1>0, <2>1, <2>2
  <2>4. QED
    BY <1>1, <1>2, <2>1, <2>2, <2>3, HeldGrows, Zenon
<1>4. CASE AppendFails
  <2>1. Len(log) <= Len(log') /\ disk' \in {log', disk} /\ \A k \in 1 .. Len(log) : log'[k] = log[k]
    BY <1>4, SoundAppendFails, Zenon
  <2>2. Written = log /\ Written' = log'
    BY <1>4 DEF AppendFails, Written, Goto
  <2>3. QED
    BY <1>1, <1>2, <2>1, <2>2, HeldGrows, Zenon
<1>5. CASE SyncFails
  <2>1. Len(Written) <= Len(log') /\ disk' \in {log', disk} /\ \A k \in 1 .. Len(Written) : log'[k] = log[k]
    BY <1>5, SoundSyncFails, Zenon
  <2>2. Written' = log'
    BY <1>5 DEF SyncFails, Written, Goto
  <2>3. QED
    BY <1>1, <1>2, <2>1, <2>2, HeldGrows, Zenon
<1>6. CASE Sync
  <2>1. Written' = log' /\ log' = log /\ disk' = log'
    BY <1>6 DEF Sync, Written, Goto
  <2>2. Len(Written) <= Len(log') /\ \A k \in 1 .. Len(Written) : log'[k] = log[k]
    BY <2>1, WrittenFacts, Zenon
  <2>3. QED
    BY <1>1, <1>2, <2>1, <2>2, HeldGrows, Zenon
<1>7. QED
  BY <1>3, <1>4, <1>5, <1>6, Zenon

\* A payload whose Enqueue returns nil is held, unless it is written where no walk leads
\* or damage hit its record.
LEMMA HeldAnew ==
  ASSUME Sound, Ahead, damage = 0 \/ errors = 0, Sync, NEW p \in Owed', p = cur
  PROVE  \E b \in Nat : Held(p, b)'
<1>0. TypeOK /\ Fits /\ Control
  BY DEF Sound
<1> PICK b \in Nat : b = Len(Written)
  BY WrittenFacts, Zenon
<1>1. /\ pc = "sync" /\ pc' = "drain" /\ log' = log /\ disk' = log /\ UNCHANGED <<cursor, offset, open, cur, harmed>>
      /\ behind' = behind \cup {q \in {cur} : ~Reached(Written)}
  BY DEF Sync, Goto
<1>2. Written' = log
  BY <1>1 DEF Written
<1>3. cur \notin harmed \cup behind /\ Reached(Written)
  <2>1. cur \notin harmed' /\ cur \notin behind'
    BY Zenon DEF Owed
  <2>2. QED
    BY <1>1, <2>1, Zenon
<1>4. b \in Boundaries(Written) /\ offset \in Boundaries(Written)
  BY <1>3, Zenon DEF Reached
<1>5. /\ Written \in File /\ b \in Nat /\ b <= Len(log) /\ b = Len(log) - SizeOf(cur)
      /\ \A k \in 1 .. b : Written[k] = log[k]
  BY <1>1, WrittenFacts, Zenon
<1>6. /\ log \in File /\ Len(log) \in Nat /\ offset \in Nat /\ cursor \in Int
      /\ cur \in Payload /\ LenOf[cur] <= MaxPayload /\ open
  <2>1. cur \in Payload /\ LenOf[cur] <= MaxPayload /\ open
    BY <1>0, <1>1 DEF Fits, Enqueueing, Control
  <2>2. QED
    BY <1>0, <2>1, Types, Zenon
<1>7. SizeOf(cur) \in Nat /\ SizeOf(cur) = 2 + LenOf[cur] /\ LenOf[cur] \in Nat
  BY <1>6, RecordCells, Zenon
<1>8. \A k \in 1 .. SizeOf(cur) : log[b + k] = <<cur, k>>
  BY <1>0, <1>1, <1>3 DEF Control
<1>9. \A c \in Boundaries(Written) : c \in Boundaries(log)
  <2>1. SUFFICES ASSUME NEW c \in Boundaries(Written) PROVE c \in Boundaries(log)
    OBVIOUS
  <2>2. c \in Nat /\ c <= b
    BY <1>5, LastBoundary, Zenon
  <2>3. c <= Len(log) /\ \A k \in 1 .. c : k \in 1 .. b
    BY <1>5, <1>6, <2>2
  <2>4. \A k \in 1 .. c : log[k] = Written[k]
    BY <1>5, <2>3, Zenon
  <2>5. QED
    BY <1>5, <1>6, <2>3, <2>4, Prefix, Zenon
<1>10. offset <= b
  BY <1>0, <1>6 DEF Control
<1>11. cursor <= b
  <2>1. CASE ~(offset < cursor)
    <3>1. QED
      BY <1>5, <1>6, <1>10, <2>1
  <2>2. CASE offset < cursor
    <3>1. errors # 0
      BY <1>6, <2>2 DEF Ahead
    <3>2. Whole(Written, offset) /\ cursor = EndAt(Written, offset)
      BY <1>6, <2>2, <3>1 DEF Ahead
    <3>3. EndAt(Written, offset) \in offset + 2 .. b
      BY <1>5, <1>6, <3>2, WholeEnd, Zenon
    <3>4. QED
      BY <1>5, <1>6, <3>2, <3>3
  <2>3. QED
    BY <2>1, <2>2, Zenon
<1>12. b \in Boundaries(log) /\ offset \in Boundaries(log)
  BY <1>4, <1>9, Zenon
<1>13. log[b + 1] = <<cur, 1>> /\ log[b + 2] = <<cur, 2>>
  BY <1>7, <1>8
<1>14. LengthAt(log, b) = LenOf[cur] /\ EndAt(log, b) = Len(log)
  <2>1. cur # 0
    BY <1>6, PayloadAssumption
  <2>2. LengthAt(log, b) = LenOf[cur]
    BY <1>13, <2>1 DEF LengthAt
  <2>3. EndAt(log, b) = b + 2 + LenOf[cur]
    BY <2>2, Zenon DEF EndAt, HeaderSize
  <2>4. Len(log) = b + 2 + LenOf[cur]
    <3> DEFINE l == Len(log)
               z == SizeOf(cur)
               m == LenOf[cur]
    <3>1. l \in Nat /\ b \in Nat /\ m \in Nat /\ z = 2 + m /\ b = l - z
      BY <1>5, <1>6, <1>7, Zenon
    <3> HIDE DEF l, z, m
    <3>2. l = b + 2 + m
      BY <3>1
    <3>3. QED
      BY <3>2, Zenon DEF l, m
  <2>5. QED
    BY <2>2, <2>3, <2>4, Zenon
<1>15. Whole(log, b) /\ log[b + 2][1] = cur
  <2>1. Len(log) - b >= 2 /\ EndAt(log, b) <= Len(log)
    <3> DEFINE l == Len(log)
               z == SizeOf(cur)
               m == LenOf[cur]
               e == EndAt(log, b)
    <3>1. l \in Nat /\ b \in Nat /\ m \in Nat /\ z = 2 + m /\ b = l - z /\ e = l
      BY <1>5, <1>6, <1>7, <1>14, Zenon
    <3> HIDE DEF l, z, m, e
    <3>2. l - b >= 2 /\ e <= l
      BY <3>1
    <3>3. QED
      BY <3>2, Zenon DEF l, e
  <2>2. log[b + 1][2] = 1 /\ log[b + 2][1] = cur
    BY <1>13
  <2>3. ValidHeader(log, b)
    BY <1>6, <1>14, <2>2, Zenon DEF ValidHeader
  <2>4. QED
    BY <2>1, <2>2, <2>3, Zenon DEF Whole, HeaderSize
<1>16. Intact(log, b)
  <2>1. log[b + 1][1] # 0 /\ log[b + 2][1] # 0
    BY <1>6, <1>13, PayloadAssumption
  <2>2. EndAt(log, b) - b = SizeOf(cur)
    BY <1>5, <1>6, <1>7, <1>14
  <2>3. \A k \in 2 .. SizeOf(cur) : log[b + k] = <<cur, k>>
    <3>1. \A k \in 2 .. SizeOf(cur) : k \in 1 .. SizeOf(cur)
      BY <1>7
    <3>2. QED
      BY <1>8, <3>1, Zenon
  <2>4. QED
    BY <1>15, <2>1, <2>2, <2>3, Zenon DEF Intact
<1>17. Safe(log, log, b, p) /\ EndAt(log, b) <= Len(log)
  <2>1. EndAt(log, b) <= Len(log)
    BY <1>6, <1>14
  <2>2. QED
    BY <1>12, <1>15, <1>16, <2>1, Zenon DEF Safe, RecordAt
<1>18. Held(p, b)'
  BY <1>1, <1>2, <1>10, <1>11, <1>12, <1>17 DEF Held
<1>19. QED
  BY <1>18, Zenon

\* Next passes no record whose checksum is right, and cuts the log only where no whole
\* record is ahead.
LEMMA HeldRecovery ==
  ASSUME Sound, NEW p, NEW b \in Nat, Held(p, b), NextTorn \/ NextBroken \/ NextChecksum \/ RecoveryFails
  PROVE  Held(p, b)'
<1>0. TypeOK /\ Fits /\ Control
  BY DEF Sound
<1>1. pc \in {"drain", "again"} /\ open /\ pc # "sync" /\ pc' \in {"idle", "again"}
  BY <1>0, Zenon DEF NextTorn, NextBroken, NextChecksum, RecoveryFails, Draining, Control, Goto
<1>2. log \in File /\ disk \in File /\ offset \in Nat /\ Len(log) \in Nat
  BY <1>0, Types, Zenon
<1>3. /\ Whole(log, offset)
      /\ offset = b \/ (EndAt(log, offset) <= b /\ EndAt(log, offset) \in Boundaries(log))
  BY <1>1, OnOffer, Zenon
<1>4. ~Torn(log, offset) /\ ~Broken(log, offset)
  <2>1. EndAt(log, offset) \in offset + 2 .. Len(log)
    BY <1>2, <1>3, WholeEnd, Zenon
  <2>2. QED
    BY <1>2, <1>3, <2>1 DEF Torn, Broken, Whole
<1>5. ~Intact(log, offset) /\ UNCHANGED <<log, disk, open>>
      /\ cursor' \in {cursor, EndAt(log, offset)} /\ offset' \in {offset, EndAt(log, offset)}
  BY <1>3, <1>4, Zenon DEF NextTorn, NextBroken, NextChecksum, RecoveryFails
<1>6. EndAt(log, offset) <= b /\ EndAt(log, offset) \in Boundaries(log)
  <2>1. Intact(log, b)
    BY HeldFacts, Zenon
  <2>2. QED
    BY <1>3, <1>5, <2>1, Zenon
<1>7. Written = log /\ Written' = log' /\ pc' \notin {"send", "commit"}
  BY <1>1 DEF Written
<1>8. /\ Safe(log, disk, b, p) /\ EndAt(log, b) <= Len(log) /\ cursor <= b
      /\ offset \in Boundaries(log) /\ offset <= b
  BY <1>1, <1>7, Zenon DEF Held
<1>9. cursor' <= b /\ offset' \in Boundaries(log) /\ offset' <= b
  BY <1>5, <1>6, <1>8, Zenon
<1>10. QED
  BY <1>5, <1>7, <1>8, <1>9, Zenon DEF Held

\* The end of the process leaves what is in both files.
LEMMA HeldEnd ==
  ASSUME Sound, NEW p, NEW b \in Nat, Held(p, b), Close \/ Crash
  PROVE  Held(p, b)'
<1>0. log \in File /\ disk \in File /\ Len(log) \in Nat
  BY Types, Zenon DEF Sound
<1>1. disk' = log' /\ pc' = "down" /\ ~open' /\ UNCHANGED cursor
  BY DEF Close, Crash, Goto
<1>2. Written' = log' /\ pc' \notin {"send", "commit"}
  BY <1>1 DEF Written
<1>3. Sound' /\ log' \in File
  <2>1. Sound'
    BY SoundEnd, Zenon
  <2>2. QED
    BY <2>1, Zenon DEF Sound, TypeOK, File
<1>4. /\ EndAt(log, b) \in Nat /\ EndAt(log, b) <= Len(log) /\ EndAt(log, b) <= Len(disk) /\ cursor <= b
      /\ \A k \in 1 .. EndAt(log, b) : disk[k] = log[k]
  BY HeldFacts, Zenon DEF Held
<1>5. EndAt(log, b) <= Len(log') /\ \A k \in 1 .. EndAt(log, b) : log'[k] = log[k]
  <2>1. CASE log' = log \/ log' = disk
    BY <1>4, <2>1, Zenon
  <2>2. CASE ~(log' = log \/ log' = disk)
    <3>1. Crash
      BY <2>2 DEF Close
    <3>2. PICK n \in Common .. Len(log) : log' = SubSeq(log, 1, n)
      BY <2>2, <3>1, Zenon DEF Crash
    <3>3. Common \in 0 .. Len(log) /\ EndAt(log, b) <= Common
      BY <1>0, <1>4, CommonFacts, Zenon
    <3>4. n \in 0 .. Len(log) /\ EndAt(log, b) <= n /\ \A k \in 1 .. EndAt(log, b) : k \in 1 .. n
      BY <1>0, <1>4, <3>3
    <3>5. /\ Len(SubSeq(log, 1, n)) = n
          /\ \A k \in 1 .. n : SubSeq(log, 1, n)[k] = log[k]
      BY <1>0, <3>4, Cut, Zenon
    <3>6. QED
      BY <3>2, <3>4, <3>5, Zenon
  <2>3. QED
    BY <2>1, <2>2, Zenon
<1>6. /\ disk' \in File /\ EndAt(log, b) <= Len(disk') /\ EndAt(log, b) <= Len(Written')
      /\ \A k \in 1 .. EndAt(log, b) : log'[k] = log[k] /\ disk'[k] = log[k]
  BY <1>1, <1>2, <1>3, <1>5, Zenon
<1>7. cursor' <= b
  BY <1>1, <1>4, Zenon
<1>8. QED
  BY <1>1, <1>2, <1>3, <1>5, <1>6, <1>7, HeldMoves, Zenon

\* A start begins at the cursor or at zero, and cuts behind the last boundary only.
LEMMA HeldOpen ==
  ASSUME Sound, NEW p, NEW b \in Nat, Held(p, b), Open
  PROVE  Held(p, b)'
<1>1. /\ log' \in File /\ disk' = log'
      /\ \A k \in 1 .. Len(log') : log'[k] = log[k]
      /\ \A c \in Boundaries(log) : c <= Len(log')
      /\ offset' \in Boundaries(log') /\ cursor' = offset' /\ cursor' \in {cursor, 0}
  BY OpenFacts, Zenon
<1>2. pc' = "idle"
  BY Zenon DEF Open, Goto
<1>3. Written' = log' /\ pc' \notin {"send", "commit"}
  BY <1>2 DEF Written
<1>4. EndAt(log, b) \in Nat /\ EndAt(log, b) \in Boundaries(log) /\ cursor <= b /\ Len(log') \in Nat
  BY <1>1, HeldFacts, FileFacts, Zenon DEF Held
<1>5. EndAt(log, b) <= Len(log') /\ \A k \in 1 .. EndAt(log, b) : log'[k] = log[k]
  <2>1. EndAt(log, b) <= Len(log')
    BY <1>1, <1>4, Zenon
  <2>2. \A k \in 1 .. EndAt(log, b) : k \in 1 .. Len(log')
    BY <1>4, <2>1
  <2>3. QED
    BY <1>1, <2>1, <2>2, Zenon
<1>6. /\ disk' \in File /\ EndAt(log, b) <= Len(disk') /\ EndAt(log, b) <= Len(Written')
      /\ \A k \in 1 .. EndAt(log, b) : log'[k] = log[k] /\ disk'[k] = log[k]
  BY <1>1, <1>3, <1>5, Zenon
<1>7. cursor' <= b /\ offset' <= b
  <2>1. 0 <= b
    OBVIOUS
  <2>2. QED
    BY <1>1, <1>4, <2>1, Zenon
<1>8. QED
  BY <1>1, <1>3, <1>5, <1>6, <1>7, HeldMoves, Zenon

\* Damage spares the records that end ahead of the damaged cell.
LEMMA HeldDamage ==
  ASSUME Sound, NEW p \in Owed', NEW b \in Nat, Held(p, b), Damage
  PROVE  Held(p, b)'
<1>0. log \in File /\ disk \in File /\ Len(log) \in Nat
  BY Types, Zenon DEF Sound
<1>1. PICK k \in 1 .. Len(log) :
        /\ log' \in File /\ disk' \in File /\ Len(log') = Len(log) /\ Len(disk') = Len(disk)
        /\ \A j \in 1 .. Len(log) : j # k => log'[j] = log[j]
        /\ \A j \in 1 .. Len(disk) : j # k => disk'[j] = disk[j]
        /\ harmed' = harmed \cup {log[k][1]} /\ behind' = behind \cup Owners(Unread(log, k))
  BY DamageFacts, Zenon
<1>2. UNCHANGED <<cursor, open, offset, pc, cur, next>> /\ Len(Written') = Len(Written)
  BY SoundDamage, Zenon DEF Damage
<1>3. /\ EndAt(log, b) \in Nat /\ EndAt(log, b) <= Len(log) /\ EndAt(log, b) <= Len(disk)
      /\ EndAt(log, b) <= Len(Written) /\ b + 2 <= EndAt(log, b)
      /\ log[b + 2][1] = p /\ Intact(log, b) /\ Safe(log, disk, b, p)
      /\ \A j \in 1 .. EndAt(log, b) : disk[j] = log[j]
  BY HeldFacts, Zenon
<1>4. p # 0 /\ \A j \in 2 .. EndAt(log, b) - b : log[b + j] = <<p, j>>
  BY <1>3, Zenon DEF Intact
<1>5. EndAt(log, b) < k
  <2>1. SUFFICES ASSUME k <= EndAt(log, b) PROVE FALSE
    BY <1>0, <1>3
  <2>2. log[k][1] # p /\ p \notin Owners(Unread(log, k))
    BY <1>1, Zenon DEF Owed
  <2>3. CASE k < b + 2
    <3>1. k \in Nat /\ b + 2 \in k + 1 .. Len(log)
      BY <1>0, <1>3, <2>3
    <3>2. QED
      BY <1>0, <1>3, <1>4, <2>2, <3>1, BehindCell, Zenon
  <2>4. CASE ~(k < b + 2)
    <3>1. k - b \in 2 .. EndAt(log, b) - b /\ b + (k - b) = k
      BY <1>3, <2>1, <2>4
    <3>2. log[b + (k - b)] = <<p, k - b>>
      BY <1>4, <3>1, Zenon
    <3>3. log[k] = <<p, k - b>>
      BY <3>1, <3>2
    <3>4. log[k][1] = p
      BY <3>3
    <3>5. QED
      BY <2>2, <3>4, Zenon
  <2>5. QED
    BY <2>3, <2>4, Zenon
<1>6. \A j \in 1 .. EndAt(log, b) : j \in 1 .. Len(log) /\ j \in 1 .. Len(disk) /\ j # k
  <2>1. Len(disk) \in Nat
    BY <1>0, FileFacts, Zenon
  <2>2. QED
    BY <1>0, <1>3, <1>5, <2>1
<1>7. \A j \in 1 .. EndAt(log, b) : log'[j] = log[j] /\ disk'[j] = log[j]
  BY <1>1, <1>3, <1>6, Zenon
<1>8. EndAt(log, b) <= Len(log') /\ EndAt(log, b) <= Len(disk')
  BY <1>1, <1>3, Zenon
<1>9. /\ Safe(log', disk', b, p) /\ EndAt(log', b) = EndAt(log, b)
      /\ \A c \in Boundaries(log) : c <= b => c \in Boundaries(log')
  <2>1. log' \in File /\ disk' \in File /\ Safe(log, disk, b, p)
    BY <1>1, <1>3, Zenon
  <2>2. QED
    BY <1>0, <1>7, <1>8, <2>1, Carry, Zenon
<1>10. /\ open => offset \in Boundaries(log) /\ offset <= b
       /\ pc \in {"send", "commit"} => p = cur \/ next <= b
       /\ cursor <= b
  BY Zenon DEF Held
<1>11. EndAt(log', b) <= Len(Written') /\ cursor' <= b
  BY <1>2, <1>3, <1>9, <1>10, Zenon
<1>12. QED
  BY <1>2, <1>9, <1>10, <1>11, Zenon DEF Held

\* Every step.
LEMMA KeepsStep == Sound /\ Ahead /\ Keeps /\ [Next]_vars => Keeps'
<1> SUFFICES ASSUME Sound, Ahead, Keeps, [Next]_vars, damage' = 0 \/ errors' = 0, NEW p \in Owed'
             PROVE  \E b \in Nat : Held(p, b)'
  BY Zenon DEF Keeps
<1>1. damage = 0 \/ errors = 0
  BY FaultsStay, Zenon
<1>2. CASE Sync /\ p = cur
  BY <1>1, <1>2, HeldAnew, Zenon
<1>3. CASE p \in Owed
  <2>1. PICK b \in Nat : Held(p, b)
    BY <1>1, <1>3, Zenon DEF Keeps
  <2>2. CASE UNCHANGED vars
    <3>1. UNCHANGED <<log, disk, cursor, open, offset, pc, cur, next>>
      BY <2>2 DEF vars
    <3>2. Written' = Written
      BY <3>1 DEF Written, SizeOf
    <3>3. Held(p, b)'
      BY <2>1, <3>1, <3>2, Zenon DEF Held
    <3>4. QED
      BY <3>3, Zenon
  <2>3. CASE \/ \E q \in Payload : Enqueue(q)
             \/ CompactCursor \/ CompactFails \/ SwapFails \/ DrainStop \/ NextEnd \/ NextRecord
             \/ Send \/ Commit \/ CommitInvalid \/ CommitFails
    BY <2>1, <2>3, HeldQuiet, Zenon
  <2>4. CASE Swap \/ SwapUnsynced
    BY <2>1, <2>4, HeldSwap, Zenon
  <2>5. CASE Write \/ AppendFails \/ Sync \/ SyncFails
    BY <2>1, <2>5, HeldAppend, Zenon
  <2>6. CASE NextTorn \/ NextBroken \/ NextChecksum \/ RecoveryFails
    BY <2>1, <2>6, HeldRecovery, Zenon
  <2>7. CASE Close \/ Crash
    BY <2>1, <2>7, HeldEnd, Zenon
  <2>8. CASE Open
    BY <2>1, <2>8, HeldOpen, Zenon
  <2>9. CASE Damage
    BY <2>1, <2>9, HeldDamage, Zenon
  <2>10. QED
    BY <2>2, <2>3, <2>4, <2>5, <2>6, <2>7, <2>8, <2>9, Zenon DEF Next, LoopStep, FaultStep, Refuse
<1>4. QED
  BY <1>2, <1>3, OwedBefore, Zenon

\* Where a payload is held, the running process and a restart have yet to read it.
LEMMA HeldIsRead ==
  ASSUME Sound, NEW p, NEW b \in Nat, Held(p, b)
  PROVE  /\ p \in RecordsFrom(disk, ReadFrom(disk))
         /\ p \in RecordsFrom(log, IF open THEN offset ELSE ReadFrom(log))
<1>0. log \in File /\ disk \in File /\ cursor \in Int /\ offset \in Nat
  BY Types, Zenon DEF Sound
<1>1. /\ Safe(log, disk, b, p) /\ RecordAt(log, b, p) /\ EndAt(log, b) <= Len(disk)
      /\ \A k \in 1 .. EndAt(log, b) : disk[k] = log[k]
  BY HeldFacts, Zenon
<1>2. RecordAt(disk, b, p)
  <2>1. Safe(disk, disk, b, p)
    BY <1>0, <1>1, Carry, Zenon
  <2>2. QED
    BY <2>1, Zenon DEF Safe
<1>3. cursor <= b /\ (open => offset <= b)
  BY Zenon DEF Held
<1>4. ASSUME NEW f, RecordAt(f, b, p), NEW q, b >= q PROVE p \in RecordsFrom(f, q)
  BY <1>4, Zenon DEF RecordAt, RecordsFrom
<1>5. b >= ReadFrom(disk) /\ b >= ReadFrom(log)
  BY <1>0, <1>3 DEF ReadFrom
<1>6. b >= (IF open THEN offset ELSE ReadFrom(log))
  <2>1. open => b >= offset
    BY <1>0, <1>3
  <2>2. QED
    BY <1>5, <2>1, Zenon
<1>7. p \in RecordsFrom(disk, ReadFrom(disk))
  BY <1>2, <1>4, <1>5, Zenon
<1>8. p \in RecordsFrom(log, IF open THEN offset ELSE ReadFrom(log))
  BY <1>1, <1>4, <1>6, Zenon
<1>9. QED
  BY <1>7, <1>8, Zenon

\* A batch that Enqueue took is settled, evicted for room, or will be read again, by the
\* running process and by a restart: crashes and any number of failing file operations
\* lose none, and damage without them none that is stored ahead of the damaged cell.
THEOREM NothingIsLost == Spec => []NothingLost
<1>1. Init => Sound /\ Ahead /\ Keeps
  BY SoundInit, AheadInit, KeepsInit, Zenon
<1>2. Sound /\ Ahead /\ Keeps /\ [Next]_vars => (Sound /\ Ahead /\ Keeps)'
  BY SoundStep, AheadStep, KeepsStep, Zenon
<1>3. Sound /\ Ahead /\ Keeps => NothingLost
  <2> SUFFICES ASSUME Sound, Keeps, damage = 0 \/ errors = 0, NEW p \in Owed
               PROVE  /\ p \in RecordsFrom(disk, ReadFrom(disk))
                      /\ p \in RecordsFrom(log, IF open THEN offset ELSE ReadFrom(log))
    BY Zenon DEF NothingLost, Owed
  <2>1. PICK b \in Nat : Held(p, b)
    BY Zenon DEF Keeps
  <2>2. QED
    BY <2>1, HeldIsRead, Zenon
<1>4. QED
  BY <1>1, <1>2, <1>3, PTL DEF Spec
=============================================================================
