-------------------------- MODULE SpoolQueue_proofs --------------------------
(***************************************************************************)
(* The proof that Spool implements DurableQueue, for any payloads, lengths *)
(* and limits and any number of connections and crashes, while no cell is  *)
(* damaged and at most one file operation fails.                           *)
(***************************************************************************)
EXTENDS Spool_proofs

-----------------------------------------------------------------------------
(* Files of whole records. *)

\* f is the records of s, which end at the positions g, and perhaps the beginning of
\* another.
Coded(f, s, g) ==
  /\ s \in Seq(Payload) /\ g \in [0 .. Len(s) -> 0 .. Len(f)] /\ g[0] = 0
  /\ \A i \in 0 .. Len(s) - 1 :
       /\ LenOf[s[i + 1]] <= MaxPayload /\ g[i + 1] = g[i] + SizeOf(s[i + 1])
       /\ \A j \in 1 .. SizeOf(s[i + 1]) : f[g[i] + j] = <<s[i + 1], j>>
  /\ g[Len(s)] = Len(f) \/ Torn(f, g[Len(s)])

\* The types of what it speaks of.
LEMMA CodedTypes ==
  ASSUME NEW f \in File, NEW s, NEW g, Coded(f, s, g)
  PROVE  /\ s \in Seq(Payload) /\ Len(s) \in Nat /\ Len(f) \in Nat
         /\ \A i \in 0 .. Len(s) : g[i] \in Nat /\ g[i] <= Len(f)
         /\ \A i \in 0 .. Len(s) - 1 :
              /\ i \in Nat /\ i + 1 \in 1 .. Len(s) /\ i \in 0 .. Len(s) /\ i + 1 \in 0 .. Len(s)
              /\ s[i + 1] \in Payload
              /\ SizeOf(s[i + 1]) \in Nat /\ SizeOf(s[i + 1]) = 2 + LenOf[s[i + 1]]
              /\ LenOf[s[i + 1]] \in Nat
<1>1. s \in Seq(Payload) /\ g \in [0 .. Len(s) -> 0 .. Len(f)]
  BY Zenon DEF Coded
<1>2. Len(s) \in Nat /\ Len(f) \in Nat
  BY <1>1, FileFacts
<1>3. \A i \in 0 .. Len(s) : g[i] \in Nat /\ g[i] <= Len(f)
  BY <1>1, <1>2
<1>4. ASSUME NEW i \in 0 .. Len(s) - 1
      PROVE /\ i \in Nat /\ i + 1 \in 1 .. Len(s) /\ i \in 0 .. Len(s) /\ i + 1 \in 0 .. Len(s)
            /\ s[i + 1] \in Payload
            /\ SizeOf(s[i + 1]) \in Nat /\ SizeOf(s[i + 1]) = 2 + LenOf[s[i + 1]]
            /\ LenOf[s[i + 1]] \in Nat
  <2>1. i \in Nat /\ i + 1 \in 1 .. Len(s) /\ i \in 0 .. Len(s) /\ i + 1 \in 0 .. Len(s)
    BY <1>2
  <2>2. s[i + 1] \in Payload
    BY <1>1, <2>1
  <2>3. LenOf[s[i + 1]] <= MaxPayload
    BY Zenon DEF Coded
  <2>4. QED
    BY <2>1, <2>2, <2>3, RecordCells, Zenon
<1>5. QED
  BY <1>1, <1>2, <1>3, <1>4, Zenon

\* A reader finds the records of s, one after the other, ...
LEMMA CodedStep ==
  ASSUME NEW f \in File, NEW s, NEW g, Coded(f, s, g), NEW i \in 0 .. Len(s) - 1
  PROVE  /\ Whole(f, g[i]) /\ Intact(f, g[i]) /\ EndAt(f, g[i]) = g[i + 1]
         /\ f[g[i] + 2][1] = s[i + 1]
         /\ g[i + 1] = g[i] + SizeOf(s[i + 1]) /\ g[i] < g[i + 1]
<1> DEFINE p == s[i + 1]
           q == g[i]
<1>1. /\ q \in Nat /\ Len(f) \in Nat /\ g[i + 1] <= Len(f) /\ p \in Payload
      /\ SizeOf(p) \in Nat /\ SizeOf(p) = 2 + LenOf[p] /\ LenOf[p] \in Nat
  BY CodedTypes, Zenon
<1>2. /\ LenOf[p] <= MaxPayload /\ g[i + 1] = q + SizeOf(p)
      /\ \A j \in 1 .. SizeOf(p) : f[q + j] = <<p, j>>
  BY Zenon DEF Coded
<1> HIDE DEF p, q
<1>3. f[q + 1] = <<p, 1>> /\ f[q + 2] = <<p, 2>>
  BY <1>1, <1>2, SMTT(30)
<1>4. f[q + 1][2] = 1 /\ f[q + 2][1] = p /\ f[q + 2][2] = 2 /\ f[q + 1][1] = p /\ p # 0
  BY <1>1, <1>3, PayloadAssumption
<1>5. LengthAt(f, q) = LenOf[p]
  BY <1>4, Zenon DEF LengthAt
<1>6. EndAt(f, q) = g[i + 1]
  <2>1. q + 2 + LenOf[p] = q + SizeOf(p)
    BY <1>1
  <2>2. QED
    BY <1>2, <1>5, <2>1, Zenon DEF EndAt, HeaderSize
<1>7. Whole(f, q)
  <2>1. Len(f) - q >= 2
    BY <1>1, <1>2, SMTT(30)
  <2>2. QED
    BY <1>1, <1>2, <1>4, <1>5, <1>6, <2>1, Zenon DEF Whole, ValidHeader, HeaderSize
<1>8. Intact(f, q)
  <2>1. \A k \in 2 .. EndAt(f, q) - q : k \in 1 .. SizeOf(p)
    BY <1>1, <1>2, <1>6
  <2>2. QED
    BY <1>2, <1>4, <2>1, Zenon DEF Intact
<1>9. q < g[i + 1]
  BY <1>1, <1>2, SMTT(30)
<1>10. QED
  BY <1>2, <1>4, <1>6, <1>7, <1>8, <1>9, Zenon DEF p, q

\* ... and then the end, or a torn record.
LEMMA CodedEnd ==
  ASSUME NEW f \in File, NEW s, NEW g, Coded(f, s, g)
  PROVE  ~Whole(f, g[Len(s)]) /\ ~Broken(f, g[Len(s)]) /\ (Torn(f, g[Len(s)]) <=> g[Len(s)] # Len(f))
<1>1. Len(s) \in 0 .. Len(s) /\ g[Len(s)] \in Nat /\ Len(f) \in Nat
  BY CodedTypes
<1>2. g[Len(s)] = Len(f) \/ Torn(f, g[Len(s)])
  BY Zenon DEF Coded
<1> HIDE DEF Coded
<1>3. CASE g[Len(s)] = Len(f)
  BY <1>1, <1>3 DEF Whole, Broken, Torn, HeaderSize
<1>4. CASE Torn(f, g[Len(s)])
  <2>1. g[Len(s)] < Len(f)
    BY <1>4, Zenon DEF Torn
  <2>2. Len(f) - g[Len(s)] >= HeaderSize => ValidHeader(f, g[Len(s)]) /\ EndAt(f, g[Len(s)]) > Len(f)
    BY <1>4, Zenon DEF Torn
  <2>3. Len(f) - g[Len(s)] >= HeaderSize => ~(EndAt(f, g[Len(s)]) <= Len(f))
    <3>1. SUFFICES ASSUME Len(f) - g[Len(s)] >= HeaderSize PROVE ~(EndAt(f, g[Len(s)]) <= Len(f))
      OBVIOUS
    <3>2. LengthAt(f, g[Len(s)]) \in Nat
      <4>1. g[Len(s)] + 2 <= Len(f)
        BY <1>1, <3>1 DEF HeaderSize
      <4>2. QED
        BY <1>1, <4>1, LengthType, Zenon
    <3>3. QED
      BY <1>1, <2>2, <3>1, <3>2 DEF EndAt, HeaderSize
  <2>4. QED
    BY <1>1, <1>4, <2>1, <2>2, <2>3 DEF Whole, Broken
<1>5. QED
  BY <1>2, <1>3, <1>4, Zenon

\* What holds of 0 and goes from each number to the next holds up to n, ...
LEMMA Upward ==
  ASSUME NEW n \in Nat, NEW S, 0 \in S, \A i \in 0 .. n - 1 : i \in S => i + 1 \in S
  PROVE  \A i \in 0 .. n : i \in S
<1> DEFINE T == {i \in 0 .. n : i \notin S}
<1>1. SUFFICES ASSUME T # {} PROVE FALSE
  BY Zenon
<1>2. T \in SUBSET Nat
  OBVIOUS
<1>3. PICK m \in T : \A i \in T : m <= i
  <2> HIDE DEF T
  <2> QED  BY <1>1, <1>2, Least, Zenon
<1>4. m \in 0 .. n /\ m \notin S /\ m # 0
  BY Zenon
<1>5. m - 1 \in 0 .. n - 1 /\ m - 1 \in 0 .. n /\ (m - 1) + 1 = m /\ ~(m <= m - 1)
  BY <1>4
<1>6. m - 1 \notin T
  BY <1>3, <1>5, Zenon
<1>7. m - 1 \in S
  BY <1>5, <1>6, Zenon
<1>8. (m - 1) + 1 \in S
  BY <1>5, <1>7, Zenon
<1>9. QED
  BY <1>4, <1>5, <1>8, Zenon

\* ... and from n downwards.
LEMMA Downward ==
  ASSUME NEW n \in Nat, NEW S, n \in S, \A i \in 0 .. n - 1 : i + 1 \in S => i \in S
  PROVE  \A i \in 0 .. n : i \in S
<1> DEFINE T == {i \in 0 .. n : n - i \in S}
<1>1. 0 \in T
  <2>1. 0 \in 0 .. n /\ n - 0 = n
    OBVIOUS
  <2>2. QED
    BY <2>1, Zenon
<1>2. ASSUME NEW i \in 0 .. n - 1, i \in T PROVE i + 1 \in T
  <2>1. i + 1 \in 0 .. n /\ n - (i + 1) \in 0 .. n - 1 /\ n - (i + 1) + 1 = n - i
    OBVIOUS
  <2>2. n - i \in S
    BY <1>2, Zenon
  <2>3. n - (i + 1) \in S
    BY <2>1, <2>2, Zenon
  <2>4. QED
    BY <2>1, <2>3, Zenon
<1> HIDE DEF T
<1>3. \A i \in 0 .. n : i \in T
  BY <1>1, <1>2, Upward, Zenon
<1>4. ASSUME NEW i \in 0 .. n PROVE i \in S
  <2>1. n - i \in 0 .. n /\ n - (n - i) = i
    OBVIOUS
  <2>2. n - (n - i) \in S
    BY <1>3, <2>1, Zenon DEF T
  <2>3. QED
    BY <2>1, <2>2, Zenon
<1>5. QED
  BY <1>4, Zenon

\* The positions rise.
LEMMA Rising ==
  ASSUME NEW f \in File, NEW s, NEW g, Coded(f, s, g), NEW i \in 0 .. Len(s)
  PROVE  \A j \in 0 .. Len(s) : (i <= j => g[i] <= g[j]) /\ (i < j => g[i] < g[j])
<1> DEFINE S == {j \in 0 .. Len(s) : (i <= j => g[i] <= g[j]) /\ (i < j => g[i] < g[j])}
<1>1. Len(s) \in Nat /\ \A j \in 0 .. Len(s) : g[j] \in Nat
  BY CodedTypes, Zenon
<1>2. 0 \in S
  BY <1>1
<1>3. ASSUME NEW j \in 0 .. Len(s) - 1, j \in S PROVE j + 1 \in S
  <2>1. g[j] < g[j + 1]
    BY CodedStep, Zenon
  <2>2. j + 1 \in 0 .. Len(s) /\ j \in 0 .. Len(s)
    BY <1>1
  <2>3. g[i] \in Nat /\ g[j] \in Nat /\ g[j + 1] \in Nat
    BY <1>1, <2>2, Zenon
  <2>4. (i <= j => g[i] <= g[j]) /\ (i < j => g[i] < g[j])
    BY <1>3, Zenon
  <2>5. i <= j + 1 => g[i] <= g[j + 1]
    <3>1. CASE i <= j
      BY <2>1, <2>3, <2>4, <3>1
    <3>2. CASE i = j + 1
      BY <2>3, <3>2
    <3>3. QED
      BY <1>1, <3>1, <3>2
  <2>6. i < j + 1 => g[i] < g[j + 1]
    <3>1. i < j + 1 => i <= j
      BY <1>1
    <3>2. QED
      BY <2>1, <2>3, <2>4, <3>1
  <2>7. QED
    BY <2>2, <2>5, <2>6, Zenon
<1> HIDE DEF S
<1>4. \A j \in 0 .. Len(s) : j \in S
  BY <1>1, <1>2, <1>3, Upward, Zenon
<1>5. QED
  BY <1>4, Zenon DEF S

\* They are the boundaries.
LEMMA CodedBounds ==
  ASSUME NEW f \in File, NEW s, NEW g, Coded(f, s, g)
  PROVE  /\ \A i \in 0 .. Len(s) : g[i] \in Boundaries(f)
         /\ \A b \in Boundaries(f) : \E i \in 0 .. Len(s) : b = g[i]
<1>1. /\ Len(s) \in Nat /\ Len(s) \in 0 .. Len(s) /\ 0 \in 0 .. Len(s) /\ Len(f) \in Nat
      /\ \A i \in 0 .. Len(s) : g[i] \in 0 .. Len(f)
      /\ \A i \in 0 .. Len(s) - 1 : i + 1 \in 0 .. Len(s)
  <2>1. Len(s) \in Nat /\ Len(f) \in Nat /\ \A i \in 0 .. Len(s) : g[i] \in Nat /\ g[i] <= Len(f)
    BY CodedTypes, Zenon
  <2>2. QED
    BY <2>1
<1>2. g[0] = 0 /\ \A i \in 0 .. Len(s) - 1 : Whole(f, g[i]) /\ EndAt(f, g[i]) = g[i + 1]
  <2>1. g[0] = 0
    BY Zenon DEF Coded
  <2>2. ASSUME NEW i \in 0 .. Len(s) - 1 PROVE Whole(f, g[i]) /\ EndAt(f, g[i]) = g[i + 1]
    BY CodedStep
  <2>3. QED
    BY <2>1, <2>2, Zenon
<1>3. \A i \in 0 .. Len(s) : g[i] \in Boundaries(f)
  <2> DEFINE S == {i \in 0 .. Len(s) : g[i] \in Boundaries(f)}
  <2>1. 0 \in S
    BY <1>1, <1>2, Walk, Zenon
  <2>2. ASSUME NEW i \in 0 .. Len(s) - 1, i \in S PROVE i + 1 \in S
    <3>1. g[i] \in Boundaries(f)
      BY <2>2, Zenon
    <3>2. g[i + 1] \in Boundaries(f)
      BY <1>2, <3>1, Walk, Zenon
    <3>3. QED
      BY <1>1, <3>2, Zenon
  <2> HIDE DEF S
  <2>3. \A i \in 0 .. Len(s) : i \in S
    BY <1>1, <2>1, <2>2, Upward, Zenon
  <2>4. QED
    BY <2>3, Zenon DEF S
<1>4. \A b \in Boundaries(f) : \E i \in 0 .. Len(s) : b = g[i]
  <2> DEFINE B == {g[i] : i \in 0 .. Len(s)}
  <2>1. B \in SUBSET (0 .. Len(f))
    BY <1>1, Zenon
  <2>2. 0 \in B
    BY <1>1, <1>2, Zenon
  <2>3. Closed(f, B)
    <3>1. SUFFICES ASSUME NEW i \in 0 .. Len(s), Whole(f, g[i]) PROVE EndAt(f, g[i]) \in B
      BY Zenon DEF Closed
    <3>2. i # Len(s)
      BY <3>1, CodedEnd, Zenon
    <3>3. i \in 0 .. Len(s) - 1
      BY <1>1, <3>2
    <3>4. EndAt(f, g[i]) = g[i + 1] /\ i + 1 \in 0 .. Len(s)
      BY <1>1, <1>2, <3>3, Zenon
    <3>5. QED
      BY <3>4, Zenon
  <2>4. Boundaries(f) \subseteq B
    <3> HIDE DEF B
    <3> QED  BY <2>1, <2>2, <2>3, Walk, Zenon
  <2>5. QED
    BY <2>4, Zenon
<1>5. QED
  BY <1>3, <1>4, Zenon

\* The last one of them.
LEMMA CodedLast ==
  ASSUME NEW f \in File, NEW s, NEW g, Coded(f, s, g)
  PROVE  Max(Boundaries(f)) = g[Len(s)]
<1>1. Len(s) \in Nat /\ Len(s) \in 0 .. Len(s) /\ \A i \in 0 .. Len(s) : g[i] \in Nat
  BY CodedTypes
<1>2. PICK i \in 0 .. Len(s) : Max(Boundaries(f)) = g[i]
  <2>1. Max(Boundaries(f)) \in Boundaries(f)
    BY LastBoundary, Zenon
  <2>2. QED
    BY <2>1, CodedBounds
<1>3. g[Len(s)] <= g[i]
  BY <1>1, <1>2, CodedBounds, LastBoundary, Zenon
<1>4. g[i] <= g[Len(s)]
  <2>1. i <= Len(s)
    BY <1>1
  <2>2. QED
    BY <1>1, <2>1, Rising, Zenon
<1>5. QED
  BY <1>1, <1>2, <1>3, <1>4

\* What is left of a sequence without its first items.
LEMMA Rest ==
  ASSUME NEW S, NEW s \in Seq(S), NEW i \in 0 .. Len(s) - 1
  PROVE  <<s[i + 1]>> \o SubSeq(s, i + 2, Len(s)) = SubSeq(s, i + 1, Len(s))
<1>1. Len(s) \in Nat /\ i \in Nat /\ i + 1 \in 1 .. Len(s) /\ s[i + 1] \in S
  OBVIOUS
<1> DEFINE t == SubSeq(s, i + 2, Len(s))
           u == SubSeq(s, i + 1, Len(s))
           v == <<s[i + 1]>> \o t
<1>2. t \in Seq(S) /\ Len(t) = Len(s) - i - 1 /\ \A k \in 1 .. Len(s) - i - 1 : t[k] = s[i + 1 + k]
  BY <1>1
<1>3. u \in Seq(S) /\ Len(u) = Len(s) - i /\ \A k \in 1 .. Len(s) - i : u[k] = s[i + k]
  BY <1>1
<1> HIDE DEF t, u
<1>4. v \in Seq(S) /\ Len(v) = Len(s) - i
  BY <1>1, <1>2
<1>5. ASSUME NEW k \in 1 .. Len(s) - i PROVE v[k] = u[k]
  <2>1. CASE k = 1
    BY <1>1, <1>2, <1>3, <2>1
  <2>2. CASE k # 1
    <3>1. k - 1 \in 1 .. Len(s) - i - 1 /\ i + 1 + (k - 1) = i + k
      BY <1>1, <2>2
    <3>2. v[k] = t[k - 1]
      BY <1>1, <1>2, <2>2
    <3>3. t[k - 1] = s[i + k]
      BY <1>2, <3>1, Zenon
    <3>4. QED
      BY <1>3, <3>2, <3>3, Zenon
  <2>3. QED
    BY <2>1, <2>2, Zenon
<1> HIDE DEF v
<1>6. v = u
  BY <1>3, <1>4, <1>5, SameSeq, Zenon
<1>7. QED
  BY <1>6, Zenon DEF t, u, v

\* u is the function by which Listing walks through f.
Lists(f, u) ==
  u = [b \in Boundaries(f) |-> IF Whole(f, b) THEN <<f[b + 2][1]>> \o u[EndAt(f, b)] ELSE <<>>]

\* The walk lists the records.
LEMMA CodedListing ==
  ASSUME NEW f \in File, NEW s, NEW g, Coded(f, s, g)
  PROVE  Listing(f) = s
<1>1. /\ s \in Seq(Payload) /\ Len(s) \in Nat /\ Len(s) \in 0 .. Len(s) /\ 0 \in 0 .. Len(s)
      /\ \A i \in 0 .. Len(s) : g[i] \in Nat
      /\ \A i \in 0 .. Len(s) - 1 : i \in 0 .. Len(s) /\ i + 1 \in 0 .. Len(s)
  <2>1. s \in Seq(Payload) /\ Len(s) \in Nat /\ \A i \in 0 .. Len(s) : g[i] \in Nat
    BY CodedTypes, Zenon
  <2>2. QED
    BY <2>1
<1>2. g[0] = 0
  BY Zenon DEF Coded
<1>3. ASSUME NEW i \in 0 .. Len(s) - 1
      PROVE Whole(f, g[i]) /\ EndAt(f, g[i]) = g[i + 1] /\ f[g[i] + 2][1] = s[i + 1]
  BY CodedStep
<1>4. ~Whole(f, g[Len(s)])
  BY CodedEnd, Zenon
<1>5. /\ \A i \in 0 .. Len(s) : g[i] \in Boundaries(f)
      /\ \A b \in Boundaries(f) : \E i \in 0 .. Len(s) : b = g[i]
  BY CodedBounds
<1>6. \A i, j \in 0 .. Len(s) : g[i] = g[j] => i = j
  <2>1. SUFFICES ASSUME NEW i \in 0 .. Len(s), NEW j \in 0 .. Len(s), g[i] = g[j] PROVE i = j
    BY Zenon
  <2>2. (i < j => g[i] < g[j]) /\ (j < i => g[j] < g[i])
    BY Rising, Zenon
  <2>3. QED
    BY <1>1, <2>1, <2>2
<1> DEFINE after(i) == SubSeq(s, i + 1, Len(s))
<1>7. after(Len(s)) = <<>> /\ after(0) = s
  BY <1>1
<1>8. ASSUME NEW i \in 0 .. Len(s) - 1 PROVE <<s[i + 1]>> \o after(i + 1) = after(i)
  <2>1. (i + 1) + 1 = i + 2
    BY <1>1
  <2>2. QED
    BY <1>1, <2>1, Rest
<1> HIDE DEF after
<1> DEFINE at(b) == CHOOSE i \in 0 .. Len(s) : b = g[i]
           v == [b \in Boundaries(f) |-> after(at(b))]
<1>9. \A i \in 0 .. Len(s) : v[g[i]] = after(i)
  <2>1. ASSUME NEW i \in 0 .. Len(s) PROVE at(g[i]) = i
    BY <1>6, Zenon
  <2>2. QED
    BY <1>5, <2>1, Zenon
<1>10. Lists(f, v)
  <2> DEFINE w == [b \in Boundaries(f) |->
                     IF Whole(f, b) THEN <<f[b + 2][1]>> \o v[EndAt(f, b)] ELSE <<>>]
  <2>1. ASSUME NEW b \in Boundaries(f) PROVE v[b] = w[b]
    <3>1. PICK i \in 0 .. Len(s) : b = g[i]
      BY <1>5, Zenon
    <3>2. CASE i = Len(s)
      <4>1. v[b] = <<>>
        <5>1. after(i) = <<>>
          BY <1>7, <3>2, Zenon
        <5>2. v[g[i]] = after(i)
          BY <1>9, <3>1, Zenon
        <5>3. QED
          BY <3>1, <5>1, <5>2, Zenon
      <4>2. w[b] = <<>>
        <5>1. ~Whole(f, b)
          BY <1>4, <3>1, <3>2, Zenon
        <5>2. QED
          BY <5>1, Zenon
      <4>3. QED
        BY <4>1, <4>2, Zenon
    <3>3. CASE i # Len(s)
      <4>1. i \in 0 .. Len(s) - 1
        BY <1>1, <3>3
      <4>2. w[b] = <<s[i + 1]>> \o v[g[i + 1]]
        BY <1>3, <3>1, <4>1, Zenon
      <4>3. v[g[i + 1]] = after(i + 1) /\ v[b] = after(i)
        BY <1>1, <1>9, <3>1, <4>1, Zenon
      <4>4. QED
        BY <1>8, <4>1, <4>2, <4>3, Zenon
    <3>4. QED
      BY <3>2, <3>3, Zenon
  <2>2. v = w
    BY <2>1, Zenon
  <2>3. QED
    BY <2>2, Zenon DEF Lists
<1> HIDE DEF v
<1> DEFINE u == CHOOSE x : Lists(f, x)
<1>11. Listing(f) = u[0]
  BY Zenon DEF Listing, Lists
<1>12. Lists(f, u)
  BY <1>10, Zenon
<1> HIDE DEF u
<1>13. \A b \in Boundaries(f) : u[b] = IF Whole(f, b) THEN <<f[b + 2][1]>> \o u[EndAt(f, b)] ELSE <<>>
  BY <1>12, Zenon DEF Lists
<1> DEFINE S == {i \in 0 .. Len(s) : u[g[i]] = after(i)}
<1>14. Len(s) \in S
  BY <1>1, <1>4, <1>5, <1>7, <1>13, Zenon
<1>15. ASSUME NEW i \in 0 .. Len(s) - 1, i + 1 \in S PROVE i \in S
  <2>1. u[g[i]] = <<s[i + 1]>> \o u[g[i + 1]]
    <3>1. Whole(f, g[i]) /\ EndAt(f, g[i]) = g[i + 1] /\ f[g[i] + 2][1] = s[i + 1]
      BY <1>3, Zenon
    <3>2. u[g[i]] = <<f[g[i] + 2][1]>> \o u[EndAt(f, g[i])]
      BY <1>1, <1>5, <1>13, <3>1, Zenon
    <3>3. QED
      BY <3>1, <3>2, Zenon
  <2>2. u[g[i + 1]] = after(i + 1)
    BY <1>15, Zenon
  <2>3. u[g[i]] = after(i)
    BY <1>8, <2>1, <2>2, Zenon
  <2>4. QED
    BY <1>1, <2>3, Zenon
<1> HIDE DEF S
<1>16. \A i \in 0 .. Len(s) : i \in S
  BY <1>1, <1>14, <1>15, Downward, Zenon
<1>17. u[g[0]] = after(0)
  BY <1>1, <1>16, Zenon DEF S
<1>18. QED
  BY <1>2, <1>7, <1>11, <1>17, Zenon

\* h adds up the sizes of the records of s.
Sums(s, h) ==
  /\ h[0] = 0 /\ \A k \in 0 .. Len(s) : h[k] \in Nat
  /\ \A k \in 0 .. Len(s) - 1 : h[k + 1] = h[k] + SizeOf(s[k + 1])

\* There is one such sum, the total weight of the items.
LEMMA TotalOf ==
  ASSUME NEW s \in Seq(Payload), NEW h, Sums(s, h)
  PROVE  Queue!Total(s) = h[Len(s)]
<1>1. Len(s) \in Nat /\ Len(s) \in 0 .. Len(s) /\ 0 \in 0 .. Len(s)
  OBVIOUS
<1>2. h[0] = 0 /\ \A k \in 0 .. Len(s) - 1 : h[k + 1] = h[k] + SizeOf(s[k + 1])
  BY Zenon DEF Sums
<1> DEFINE F(x) == [k \in 0 .. Len(s) |-> IF k = 0 THEN 0 ELSE x[k - 1] + SizeOf(s[k])]
           r == [k \in 0 .. Len(s) |-> h[k]]
           u == CHOOSE x : x = F(x)
<1>3. Queue!Total(s) = u[Len(s)]
  BY Zenon DEF Queue!Total
<1>4. r = F(r)
  <2>1. ASSUME NEW k \in 0 .. Len(s), k # 0 PROVE h[k] = r[k - 1] + SizeOf(s[k])
    <3>1. k - 1 \in 0 .. Len(s) - 1 /\ k - 1 \in 0 .. Len(s) /\ (k - 1) + 1 = k
      BY <1>1, <2>1
    <3>2. h[(k - 1) + 1] = h[k - 1] + SizeOf(s[(k - 1) + 1])
      BY <1>2, <3>1, Zenon
    <3>3. QED
      BY <3>1, <3>2, Zenon
  <2>2. ASSUME NEW k \in 0 .. Len(s) PROVE r[k] = F(r)[k]
    BY <1>2, <2>1, Zenon
  <2>3. QED
    BY <2>2, Zenon
<1>5. u = F(u)
  <2> HIDE DEF r, F
  <2> QED  BY <1>4, Zenon
<1> HIDE DEF u, r
<1>6. \A k \in 0 .. Len(s) : u[k] = IF k = 0 THEN 0 ELSE u[k - 1] + SizeOf(s[k])
  BY <1>5, Zenon
<1> DEFINE S == {k \in 0 .. Len(s) : u[k] = h[k]}
<1>7. 0 \in S
  BY <1>1, <1>2, <1>6, Zenon
<1>8. ASSUME NEW k \in 0 .. Len(s) - 1, k \in S PROVE k + 1 \in S
  <2>1. k + 1 \in 0 .. Len(s) /\ k + 1 # 0 /\ (k + 1) - 1 = k
    BY <1>1
  <2>2. u[k + 1] = u[k] + SizeOf(s[k + 1])
    BY <1>6, <2>1, Zenon
  <2>3. QED
    BY <1>2, <1>8, <2>1, <2>2, Zenon
<1> HIDE DEF S
<1>9. Len(s) \in S
  BY <1>1, <1>7, <1>8, Upward, Zenon
<1>10. QED
  BY <1>3, <1>9, Zenon DEF S

\* The same records are in every file that agrees with f up to their end, and then ends
\* or is torn.
LEMMA Recoded ==
  ASSUME NEW f \in File, NEW s, NEW g, Coded(f, s, g), NEW h \in File,
         g[Len(s)] <= Len(h), \A k \in 1 .. g[Len(s)] : h[k] = f[k],
         g[Len(s)] = Len(h) \/ Torn(h, g[Len(s)])
  PROVE  Coded(h, s, g)
<1>1. /\ s \in Seq(Payload) /\ Len(s) \in Nat /\ Len(s) \in 0 .. Len(s) /\ Len(h) \in Nat
      /\ \A i \in 0 .. Len(s) : g[i] \in Nat
  BY CodedTypes, FileFacts
<1>2. \A i \in 0 .. Len(s) : g[i] <= g[Len(s)]
  <2>1. ASSUME NEW i \in 0 .. Len(s) PROVE g[i] <= g[Len(s)]
    <3>1. i <= Len(s)
      BY <1>1
    <3>2. QED
      BY <1>1, <3>1, Rising, Zenon
  <2>2. QED
    BY <2>1, Zenon
<1>3. g \in [0 .. Len(s) -> 0 .. Len(h)]
  <2>1. g \in [0 .. Len(s) -> 0 .. Len(f)]
    BY Zenon DEF Coded
  <2>2. \A i \in 0 .. Len(s) : g[i] \in 0 .. Len(h)
    BY <1>1, <1>2
  <2>3. QED
    BY <2>1, <2>2, Zenon
<1>4. ASSUME NEW i \in 0 .. Len(s) - 1, NEW j \in 1 .. SizeOf(s[i + 1])
      PROVE  h[g[i] + j] = <<s[i + 1], j>>
  <2>1. i \in 0 .. Len(s) /\ i + 1 \in 0 .. Len(s) /\ SizeOf(s[i + 1]) \in Nat
    BY CodedTypes, Zenon
  <2>2. g[i + 1] = g[i] + SizeOf(s[i + 1]) /\ f[g[i] + j] = <<s[i + 1], j>>
    BY Zenon DEF Coded
  <2>3. g[i] + j \in 1 .. g[Len(s)]
    <3>1. g[i] \in Nat /\ g[i + 1] <= g[Len(s)] /\ g[Len(s)] \in Nat
      BY <1>1, <1>2, <2>1, Zenon
    <3>2. QED
      BY <2>1, <2>2, <3>1, SMTT(30)
  <2>4. QED
    BY <2>2, <2>3, Zenon
<1>5. /\ g[0] = 0
      /\ \A i \in 0 .. Len(s) - 1 :
           LenOf[s[i + 1]] <= MaxPayload /\ g[i + 1] = g[i] + SizeOf(s[i + 1])
  BY Zenon DEF Coded
<1>6. QED
  BY <1>1, <1>3, <1>4, <1>5, Zenon DEF Coded

\* The positions from the i-th to the j-th, counted from the i-th.
Shift(g, i, j) == [k \in 0 .. j - i |-> g[i + k] - g[i]]

\* The cells between the i-th and the j-th are the records between them.
Sliced(f, s, g, i, j) ==
  /\ SubSeq(f, g[i] + 1, g[j]) \in File /\ Len(SubSeq(f, g[i] + 1, g[j])) = g[j] - g[i]
  /\ Coded(SubSeq(f, g[i] + 1, g[j]), SubSeq(s, i + 1, j), Shift(g, i, j))
  /\ Len(SubSeq(s, i + 1, j)) = j - i /\ Shift(g, i, j)[j - i] = g[j] - g[i]

\* So it is wherever f is the records of s.
LEMMA Slice ==
  ASSUME NEW f \in File, NEW s, NEW g, Coded(f, s, g), NEW i \in 0 .. Len(s), NEW j \in i .. Len(s)
  PROVE  Sliced(f, s, g, i, j)
<1> DEFINE h == SubSeq(f, g[i] + 1, g[j])
           t == SubSeq(s, i + 1, j)
           d == Shift(g, i, j)
           n == j - i
<1>1. /\ s \in Seq(Payload) /\ Len(s) \in Nat /\ Len(f) \in Nat /\ j \in 0 .. Len(s) /\ i \in Nat
      /\ n \in Nat /\ i + n = j
      /\ \A k \in 0 .. n : i + k \in 0 .. Len(s) /\ i <= i + k /\ i + k <= j
      /\ \A k \in 0 .. n - 1 : i + k \in 0 .. Len(s) - 1 /\ k + 1 \in 0 .. n /\ k \in 0 .. n
                               /\ k + 1 \in 1 .. n /\ i + (k + 1) = (i + k) + 1 /\ k \in Nat
  <2>1. s \in Seq(Payload) /\ Len(s) \in Nat /\ Len(f) \in Nat
    BY CodedTypes, Zenon
  <2>2. QED
    BY <2>1
<1>2. \A k \in 0 .. Len(s) : g[k] \in Nat /\ g[k] <= Len(f)
  BY CodedTypes, Zenon
<1>3. \A k \in 0 .. n : g[i] <= g[i + k] /\ g[i + k] <= g[j]
  <2>1. ASSUME NEW k \in 0 .. n PROVE g[i] <= g[i + k] /\ g[i + k] <= g[j]
    BY <1>1, Rising, Zenon
  <2>2. QED
    BY <2>1, Zenon
<1>4. /\ h \in File /\ Len(h) = g[j] - g[i]
      /\ \A k \in 1 .. g[j] - g[i] : h[k] = f[g[i] + k]
  <2>1. g[i] \in Nat /\ g[j] \in 0 .. Len(f) /\ g[i] <= g[j]
    <3>1. n \in 0 .. n
      BY <1>1
    <3>2. g[i] \in Nat /\ g[j] \in Nat /\ g[j] <= Len(f) /\ g[i] <= g[j]
      BY <1>1, <1>2, <1>3, <3>1, Zenon
    <3>3. QED
      BY <1>1, <3>2
  <2>2. QED
    BY <2>1, Part, Zenon
<1>5. t \in Seq(Payload) /\ Len(t) = n /\ \A k \in 1 .. n : t[k] = s[i + k]
  BY <1>1
<1>6. \A k \in 0 .. n : d[k] = g[i + k] - g[i]
  BY Zenon DEF Shift
<1>7. d \in [0 .. n -> 0 .. Len(h)]
  <2>1. ASSUME NEW k \in 0 .. n PROVE g[i + k] - g[i] \in 0 .. Len(h)
    <3>1. g[i] \in Nat /\ g[i + k] \in Nat /\ g[j] \in Nat /\ g[i] <= g[i + k] /\ g[i + k] <= g[j]
      BY <1>1, <1>2, <1>3, Zenon
    <3>2. Len(h) = g[j] - g[i]
      BY <1>4, Zenon
    <3> HIDE DEF h, n
    <3>3. QED
      BY <3>1, <3>2, SMTT(30)
  <2>2. QED
    BY <2>1, Zenon DEF Shift
<1> HIDE DEF h, t, d, n
<1>8. d[0] = 0 /\ d[n] = g[j] - g[i]
  <2>1. 0 \in 0 .. n /\ n \in 0 .. n /\ i + 0 = i
    BY <1>1
  <2>2. d[0] = g[i] - g[i] /\ d[n] = g[j] - g[i]
    BY <1>1, <1>6, <2>1, Zenon
  <2>3. g[i] \in Nat
    BY <1>2, Zenon
  <2>4. QED
    BY <2>2, <2>3
<1>9. ASSUME NEW k \in 0 .. n - 1
      PROVE  /\ LenOf[t[k + 1]] <= MaxPayload /\ d[k + 1] = d[k] + SizeOf(t[k + 1])
             /\ \A m \in 1 .. SizeOf(t[k + 1]) : h[d[k] + m] = <<t[k + 1], m>>
  <2>1. /\ i + k \in 0 .. Len(s) - 1 /\ k + 1 \in 0 .. n /\ k \in 0 .. n
        /\ k + 1 \in 1 .. n /\ i + (k + 1) = (i + k) + 1
    BY <1>1, Zenon
  <2>2. t[k + 1] = s[(i + k) + 1]
    <3>1. t[k + 1] = s[i + (k + 1)]
      BY <1>5, <2>1, Zenon
    <3>2. QED
      BY <2>1, <3>1, Zenon
  <2>3. /\ LenOf[s[(i + k) + 1]] <= MaxPayload
        /\ g[(i + k) + 1] = g[i + k] + SizeOf(s[(i + k) + 1])
        /\ \A m \in 1 .. SizeOf(s[(i + k) + 1]) : f[g[i + k] + m] = <<s[(i + k) + 1], m>>
    BY <2>1, Zenon DEF Coded
  <2>4. d[k] = g[i + k] - g[i] /\ d[k + 1] = g[(i + k) + 1] - g[i]
    BY <1>6, <2>1, Zenon
  <2>5. /\ g[i] \in Nat /\ g[i + k] \in Nat /\ g[i] <= g[i + k] /\ g[(i + k) + 1] <= g[j] /\ g[j] \in Nat
        /\ SizeOf(s[(i + k) + 1]) \in Nat
    BY <1>1, <1>2, <1>3, <2>1, CodedTypes, Zenon
  <2>6. d[k + 1] = d[k] + SizeOf(t[k + 1])
    BY <2>2, <2>3, <2>4, <2>5, SMTT(30)
  <2>7. ASSUME NEW m \in 1 .. SizeOf(t[k + 1]) PROVE h[d[k] + m] = <<t[k + 1], m>>
    <3>1. m \in 1 .. SizeOf(s[(i + k) + 1])
      BY <2>2, Zenon
    <3>2. d[k] + m \in 1 .. g[j] - g[i] /\ g[i] + (d[k] + m) = g[i + k] + m
      <4> DEFINE a == g[i]
                 b == g[i + k]
                 c == g[j]
                 z == SizeOf(s[(i + k) + 1])
      <4>1. a \in Nat /\ b \in Nat /\ c \in Nat /\ z \in Nat /\ a <= b /\ b + z <= c /\ m \in 1 .. z
        BY <2>3, <2>5, <3>1, Zenon
      <4>2. d[k] = b - a
        BY <2>4, Zenon
      <4> HIDE DEF a, b, c, z
      <4>3. (b - a) + m \in 1 .. c - a /\ a + ((b - a) + m) = b + m
        BY <4>1
      <4>4. QED
        BY <4>2, <4>3, Zenon DEF a, b, c
    <3>3. h[d[k] + m] = f[g[i + k] + m]
      BY <1>4, <3>2, Zenon
    <3>4. QED
      BY <2>2, <2>3, <3>1, <3>3, Zenon
  <2>8. QED
    BY <2>2, <2>3, <2>6, <2>7, Zenon
<1>10. Coded(h, t, d)
  <2>1. d[Len(t)] = Len(h)
    BY <1>4, <1>5, <1>8, Zenon
  <2>2. QED
    BY <1>5, <1>7, <1>8, <1>9, <2>1, Zenon DEF Coded
<1>11. QED
  BY <1>4, <1>5, <1>8, <1>10, Zenon DEF Sliced, h, t, d, n

\* What the queue holds, and how many of its items are passed.
Shows(f, s, g, i) == Listing(f) = s /\ Len(Listing(SubSeq(f, 1, g[i]))) = i

\* A file of records shows them.
LEMMA Shown ==
  ASSUME NEW f \in File, NEW s, NEW g, Coded(f, s, g), NEW i \in 0 .. Len(s)
  PROVE  Shows(f, s, g, i)
<1> DEFINE h == SubSeq(f, g[0] + 1, g[i])
           t == SubSeq(s, 0 + 1, i)
<1>1. Len(s) \in Nat /\ 0 \in 0 .. Len(s) /\ i \in 0 .. Len(s) /\ i - 0 = i
  BY CodedTypes
<1>2. g[0] = 0
  BY Zenon DEF Coded
<1>3. g[0] + 1 = 1
  BY <1>2
<1>4. h \in File /\ Coded(h, t, Shift(g, 0, i)) /\ Len(t) = i - 0
  <2>1. Sliced(f, s, g, 0, i)
    BY <1>1, Slice, Zenon
  <2>2. QED
    BY <2>1, Zenon DEF Sliced
<1> HIDE DEF h, t
<1>5. Listing(h) = t
  BY <1>4, CodedListing, Zenon
<1>6. Listing(f) = s
  BY CodedListing, Zenon
<1>7. QED
  BY <1>1, <1>3, <1>4, <1>5, <1>6, Zenon DEF h, Shows

\* The room that all the records take, ...
LEMMA CodedTotal ==
  ASSUME NEW f \in File, NEW s, NEW g, Coded(f, s, g)
  PROVE  Queue!Total(s) = g[Len(s)]
<1>1. s \in Seq(Payload) /\ \A k \in 0 .. Len(s) : g[k] \in Nat
  BY CodedTypes, Zenon
<1>2. Sums(s, g)
  BY <1>1, Zenon DEF Coded, Sums
<1>3. QED
  BY <1>1, <1>2, TotalOf, Zenon

\* ... and those from the i-th position on.
LEMMA DropTotal ==
  ASSUME NEW f \in File, NEW s, NEW g, Coded(f, s, g), NEW i \in 0 .. Len(s)
  PROVE  Queue!Total(Queue!Drop(s, i)) = g[Len(s)] - g[i]
<1> DEFINE h == SubSeq(f, g[i] + 1, g[Len(s)])
           t == SubSeq(s, i + 1, Len(s))
           d == Shift(g, i, Len(s))
<1>1. Len(s) \in i .. Len(s)
  BY CodedTypes
<1>2. /\ h \in File /\ Coded(h, t, d) /\ Len(t) = Len(s) - i
      /\ d[Len(s) - i] = g[Len(s)] - g[i]
  <2>1. Sliced(f, s, g, i, Len(s))
    BY <1>1, Slice, Zenon
  <2>2. QED
    BY <2>1, Zenon DEF Sliced
<1> HIDE DEF h, d
<1>3. Queue!Total(t) = d[Len(t)]
  <2> HIDE DEF t
  <2> QED  BY <1>2, CodedTotal, Zenon
<1>4. Queue!Drop(s, i) = t
  BY Zenon DEF Queue!Drop
<1>5. QED
  BY <1>2, <1>3, <1>4, Zenon

\* g, and a last position m.
Grow(g, n, m) == [k \in 0 .. n + 1 |-> IF k <= n THEN g[k] ELSE m]

\* The record of p is put behind those of s.
Grows(f, s, g, p) ==
  LET d == Grow(g, Len(s), Len(f) + SizeOf(p))
  IN /\ f \o encodeRecord(p) \in File /\ Len(f \o encodeRecord(p)) = Len(f) + SizeOf(p)
     /\ Coded(f \o encodeRecord(p), Append(s, p), d) /\ \A k \in 0 .. Len(s) : d[k] = g[k]
     /\ Len(Append(s, p)) = Len(s) + 1 /\ d[Len(s) + 1] = Len(f) + SizeOf(p)
     /\ \A k \in 1 .. Len(s) : Append(s, p)[k] = s[k]

\* So it is when a payload that fits is written.
LEMMA Grown ==
  ASSUME NEW f \in File, NEW s, NEW g, Coded(f, s, g), g[Len(s)] = Len(f),
         NEW p \in Payload, LenOf[p] <= MaxPayload
  PROVE  Grows(f, s, g, p)
<1> DEFINE h == f \o encodeRecord(p)
           t == Append(s, p)
           d == Grow(g, Len(s), Len(f) + SizeOf(p))
<1>1. /\ s \in Seq(Payload) /\ Len(s) \in Nat /\ Len(f) \in Nat /\ 0 \in 0 .. Len(s)
      /\ Len(s) \in 0 .. Len(s) /\ Len(s) + 1 \in 0 .. Len(s) + 1 /\ ~(Len(s) + 1 <= Len(s))
      /\ \A k \in 0 .. Len(s) : k \in 0 .. Len(s) + 1 /\ k <= Len(s)
      /\ \A k \in 0 .. Len(s) - 1 : k \in 0 .. Len(s) /\ k + 1 \in 0 .. Len(s) /\ k + 1 \in 1 .. Len(s)
  <2>1. s \in Seq(Payload) /\ Len(s) \in Nat /\ Len(f) \in Nat
    BY CodedTypes, Zenon
  <2>2. QED
    BY <2>1
<1>2. \A k \in 0 .. Len(s) : g[k] \in Nat /\ g[k] <= Len(f)
  BY CodedTypes, Zenon
<1>3. /\ SizeOf(p) \in Nat /\ encodeRecord(p) \in File /\ Len(encodeRecord(p)) = SizeOf(p)
      /\ \A k \in 1 .. SizeOf(p) : encodeRecord(p)[k] = <<p, k>>
  BY RecordCells, Zenon
<1>4. /\ h \in File /\ Len(h) = Len(f) + SizeOf(p)
      /\ \A k \in 1 .. Len(f) : h[k] = f[k]
      /\ \A k \in 1 .. SizeOf(p) : h[Len(f) + k] = <<p, k>>
  <2> DEFINE e == encodeRecord(p)
  <2>1. /\ h \in File /\ Len(h) = Len(f) + Len(e) /\ \A k \in 1 .. Len(f) : h[k] = f[k]
        /\ \A k \in 1 .. Len(e) : h[Len(f) + k] = e[k]
    <3> HIDE DEF e
    <3> QED  BY <1>3, Joined, Zenon DEF e
  <2> HIDE DEF h
  <2>2. QED
    BY <1>3, <2>1, Zenon
<1>5. /\ t \in Seq(Payload) /\ Len(t) = Len(s) + 1 /\ t[Len(s) + 1] = p
      /\ \A k \in 1 .. Len(s) : t[k] = s[k]
  BY <1>1
<1>6. (\A k \in 0 .. Len(s) : d[k] = g[k]) /\ d[Len(s) + 1] = Len(f) + SizeOf(p)
  <2>1. ASSUME NEW k \in 0 .. Len(s) PROVE d[k] = g[k]
    BY <1>1, Zenon DEF Grow
  <2>2. d[Len(s) + 1] = Len(f) + SizeOf(p)
    BY <1>1, Zenon DEF Grow
  <2>3. QED
    BY <2>1, <2>2, Zenon
<1>7. d \in [0 .. Len(s) + 1 -> 0 .. Len(h)]
  <2>1. ASSUME NEW k \in 0 .. Len(s) + 1
        PROVE (IF k <= Len(s) THEN g[k] ELSE Len(f) + SizeOf(p)) \in 0 .. Len(f) + SizeOf(p)
    <3>1. CASE k <= Len(s)
      <4>1. g[k] \in Nat /\ g[k] <= Len(f)
        BY <1>1, <1>2, <3>1
      <4>2. g[k] \in 0 .. Len(f) + SizeOf(p)
        BY <1>1, <1>3, <4>1, SMTT(30)
      <4>3. QED
        BY <3>1, <4>2, Zenon
    <3>2. CASE ~(k <= Len(s))
      <4>1. Len(f) + SizeOf(p) \in 0 .. Len(f) + SizeOf(p)
        BY <1>1, <1>3, SMTT(30)
      <4>2. QED
        BY <3>2, <4>1, Zenon
    <3>3. QED
      BY <3>1, <3>2, Zenon
  <2>2. QED
    BY <1>4, <2>1, Zenon DEF Grow
<1> HIDE DEF h, t, d
<1>8. ASSUME NEW i \in 0 .. Len(t) - 1
      PROVE  /\ LenOf[t[i + 1]] <= MaxPayload /\ d[i + 1] = d[i] + SizeOf(t[i + 1])
             /\ \A j \in 1 .. SizeOf(t[i + 1]) : h[d[i] + j] = <<t[i + 1], j>>
  <2>1. CASE i = Len(s)
    <3>1. t[i + 1] = p /\ d[i] = Len(f) /\ d[i + 1] = Len(f) + SizeOf(p)
      BY <1>1, <1>5, <1>6, <2>1, Zenon
    <3>2. QED
      BY <1>4, <3>1, Zenon
  <2>2. CASE i # Len(s)
    <3>1. i \in 0 .. Len(s) - 1
      BY <1>1, <1>5, <2>2
    <3>2. t[i + 1] = s[i + 1] /\ d[i] = g[i] /\ d[i + 1] = g[i + 1]
      BY <1>1, <1>5, <1>6, <3>1, Zenon
    <3>3. /\ LenOf[s[i + 1]] <= MaxPayload /\ g[i + 1] = g[i] + SizeOf(s[i + 1])
          /\ \A j \in 1 .. SizeOf(s[i + 1]) : f[g[i] + j] = <<s[i + 1], j>>
      BY <3>1, Zenon DEF Coded
    <3>4. \A j \in 1 .. SizeOf(s[i + 1]) : g[i] + j \in 1 .. Len(f)
      <4>1. g[i] \in Nat /\ g[i + 1] <= Len(f) /\ SizeOf(s[i + 1]) \in Nat
        BY <1>1, <1>2, <3>1, CodedTypes, Zenon
      <4> DEFINE z == SizeOf(s[i + 1])
                 a == g[i]
      <4>2. a \in Nat /\ z \in Nat /\ a + z <= Len(f) /\ Len(f) \in Nat
        BY <1>1, <3>3, <4>1, Zenon
      <4> HIDE DEF z, a
      <4>3. \A j \in 1 .. z : a + j \in 1 .. Len(f)
        BY <4>2
      <4>4. QED
        BY <4>3, Zenon DEF z, a
    <3>5. QED
      BY <1>4, <3>2, <3>3, <3>4, Zenon
  <2>3. QED
    BY <2>1, <2>2, Zenon
<1>9. Coded(h, t, d)
  <2>1. d[0] = 0
    BY <1>1, <1>6, Zenon DEF Coded
  <2>2. d[Len(t)] = Len(h)
    BY <1>4, <1>5, <1>6, Zenon
  <2>3. QED
    BY <1>5, <1>7, <1>8, <2>1, <2>2, Zenon DEF Coded
<1>10. QED
  BY <1>4, <1>5, <1>6, <1>9, Zenon DEF Grows, h, t, d

\* Part of a record is put behind those of s.
LEMMA PartOfRecord ==
  ASSUME NEW f \in File, NEW s, NEW g, Coded(f, s, g), g[Len(s)] = Len(f),
         NEW p \in Payload, LenOf[p] <= MaxPayload, NEW n \in 0 .. SizeOf(p) - 1
  PROVE  Coded(SubSeq(f \o encodeRecord(p), 1, Len(f) + n), s, g)
<1> DEFINE F == f \o encodeRecord(p)
           h == SubSeq(F, 1, Len(f) + n)
           q == Len(f)
<1>1. q \in Nat /\ n \in Nat /\ n < SizeOf(p) /\ SizeOf(p) \in Nat /\ SizeOf(p) = 2 + LenOf[p] /\ LenOf[p] \in Nat
  <2>1. q \in Nat /\ SizeOf(p) \in Nat /\ SizeOf(p) = 2 + LenOf[p] /\ LenOf[p] \in Nat
    BY FileFacts, RecordCells, Zenon
  <2>2. QED
    BY <2>1
<1>2. /\ F \in File /\ Len(F) = q + SizeOf(p)
      /\ \A k \in 1 .. q : F[k] = f[k]
      /\ \A k \in 1 .. SizeOf(p) : F[q + k] = <<p, k>>
  <2> DEFINE e == encodeRecord(p)
  <2>1. e \in File /\ Len(e) = SizeOf(p) /\ \A k \in 1 .. SizeOf(p) : e[k] = <<p, k>>
    BY RecordCells, Zenon
  <2> HIDE DEF e
  <2>2. /\ F \in File /\ Len(F) = q + Len(e) /\ \A k \in 1 .. q : F[k] = f[k]
        /\ \A k \in 1 .. Len(e) : F[q + k] = e[k]
    BY <2>1, Joined, Zenon DEF e
  <2> HIDE DEF F
  <2>3. QED
    BY <2>1, <2>2, Zenon
<1> HIDE DEF F
<1>3. h \in File /\ Len(h) = q + n /\ \A k \in 1 .. q + n : h[k] = F[k]
  <2>1. q + n \in 0 .. Len(F)
    BY <1>1, <1>2, SMTT(30)
  <2>2. QED
    BY <1>2, <2>1, Cut, Zenon
<1> HIDE DEF h
<1>4. \A k \in 1 .. q : h[k] = f[k]
  <2>1. \A k \in 1 .. q : k \in 1 .. q + n
    BY <1>1
  <2>2. QED
    BY <1>2, <1>3, <2>1, Zenon
<1>5. \A k \in 1 .. n : h[q + k] = <<p, k>>
  <2>1. \A k \in 1 .. n : q + k \in 1 .. q + n /\ k \in 1 .. SizeOf(p)
    BY <1>1, SMTT(30)
  <2>2. QED
    BY <1>2, <1>3, <2>1, Zenon
<1>6. q = Len(h) \/ Torn(h, q)
  <2>1. CASE n = 0
    BY <1>1, <1>3, <2>1
  <2>2. CASE n # 0
    <3>1. q < Len(h) /\ Len(h) - q = n
      BY <1>1, <1>3, <2>2
    <3>2. ASSUME n >= 2 PROVE ValidHeader(h, q) /\ EndAt(h, q) > Len(h)
      <4>1. 1 \in 1 .. n /\ 2 \in 1 .. n
        BY <1>1, <3>2
      <4>2. h[q + 1] = <<p, 1>> /\ h[q + 2] = <<p, 2>>
        BY <1>5, <4>1, Zenon
      <4>3. h[q + 1][2] = 1 /\ h[q + 2][1] = p /\ h[q + 2][2] = 2 /\ p # 0
        BY <4>2, PayloadAssumption
      <4>4. LengthAt(h, q) = LenOf[p]
        BY <4>3, Zenon DEF LengthAt
      <4>5. q + 2 + LenOf[p] > q + n
        BY <1>1, SMTT(30)
      <4>6. QED
        BY <1>3, <4>3, <4>4, <4>5, Zenon DEF ValidHeader, EndAt, HeaderSize
    <3>3. QED
      BY <3>1, <3>2, Zenon DEF Torn, HeaderSize
  <2>3. QED
    BY <2>1, <2>2, Zenon
<1>7. q <= Len(h)
  BY <1>1, <1>3
<1>8. Coded(h, s, g)
  BY <1>3, <1>4, <1>6, <1>7, Recoded, Zenon
<1>9. QED
  BY <1>8, Zenon DEF h, F

\* A part of what is behind the first m cells.
LEMMA PartOfRest ==
  ASSUME NEW f \in File, NEW m \in 0 .. Len(f), NEW a \in Nat, NEW b \in Nat,
         a <= b, m + b <= Len(f)
  PROVE  SubSeq(Unread(f, m), a + 1, b) = SubSeq(f, (m + a) + 1, m + b)
<1> DEFINE u == SubSeq(f, m + 1, Len(f))
           v == SubSeq(u, a + 1, b)
           w == SubSeq(f, (m + a) + 1, m + b)
<1>1. Len(f) \in Nat /\ m \in Nat /\ m <= Len(f) /\ Len(f) \in 0 .. Len(f)
  BY FileFacts
<1>2. u \in File /\ Len(u) = Len(f) - m /\ \A k \in 1 .. Len(f) - m : u[k] = f[m + k]
  BY <1>1, Part, Zenon
<1> HIDE DEF u
<1>3. v \in File /\ Len(v) = b - a /\ \A k \in 1 .. b - a : v[k] = u[a + k]
  <2>1. b \in 0 .. Len(u)
    BY <1>1, <1>2
  <2>2. QED
    BY <1>2, <2>1, Part, Zenon
<1>4. w \in File /\ Len(w) = b - a /\ \A k \in 1 .. b - a : w[k] = f[(m + a) + k]
  <2>1. m + a \in Nat /\ m + b \in 0 .. Len(f) /\ m + a <= m + b /\ (m + b) - (m + a) = b - a
    BY <1>1
  <2>2. /\ w \in File /\ Len(w) = (m + b) - (m + a)
        /\ \A k \in 1 .. (m + b) - (m + a) : w[k] = f[(m + a) + k]
    BY <2>1, Part, Zenon
  <2> HIDE DEF w
  <2>3. QED
    BY <2>1, <2>2, Zenon
<1> HIDE DEF v, w
<1>5. ASSUME NEW k \in 1 .. b - a PROVE v[k] = w[k]
  <2>1. a + k \in 1 .. Len(f) - m /\ m + (a + k) = (m + a) + k
    BY <1>1
  <2>2. QED
    BY <1>2, <1>3, <1>4, <2>1, Zenon
<1>6. v = w
  BY <1>3, <1>4, <1>5, SameSeq, Zenon DEF File
<1>7. QED
  BY <1>6, Zenon DEF u, v, w, Unread

\* Compaction keeps the records from some position on, and one more would not fit.
LEMMA KeptCoded ==
  ASSUME log \in File, NEW CONSTANT s, NEW CONSTANT g, Coded(log, s, g), g[Len(s)] = Len(log),
         NEW CONSTANT i \in 0 .. Len(s), g[i] = offset, cur \in Payload, LenOf[cur] <= MaxPayload
  PROVE  \E k \in i .. Len(s) :
           /\ Kept = SubSeq(log, g[k] + 1, g[Len(s)])
           /\ k > i => (g[Len(s)] - g[k - 1]) + SizeOf(cur) > MaxBytes
<1> DEFINE n == Len(s)
           U == SubSeq(log, g[i] + 1, g[n])
           T == SubSeq(s, i + 1, n)
           D == Shift(g, i, n)
           m == Max(Boundaries(U))
           B == {b \in Boundaries(U) : m - b <= MaxBytes - SizeOf(cur)}
           start == Min(B)
<1>1. n \in Nat /\ n \in i .. n /\ n \in 0 .. n /\ \A k \in 0 .. n : g[k] \in Nat /\ g[k] <= Len(log)
  <2>1. n \in Nat /\ \A k \in 0 .. n : g[k] \in Nat /\ g[k] <= Len(log)
    BY CodedTypes, Zenon
  <2>2. QED
    BY <2>1
<1>2. SizeOf(cur) \in Nat /\ SizeOf(cur) <= MaxBytes /\ MaxBytes \in Nat /\ Len(log) \in Nat
  BY RecordCells, BoundAssumption, FileFacts, Zenon
<1>3. U \in File /\ Len(U) = g[n] - g[i] /\ Coded(U, T, D) /\ Len(T) = n - i /\ D[n - i] = g[n] - g[i]
  <2>1. Sliced(log, s, g, i, n)
    BY <1>1, Slice, Zenon
  <2>2. QED
    BY <2>1, Zenon DEF Sliced
<1>4. Kept = SubSeq(Unread(log, g[i]), start + 1, m) /\ U = Unread(log, g[i])
  BY Zenon DEF Kept, Unread
<1>5. \A x \in 0 .. n - i : D[x] = g[i + x] - g[i]
  BY Zenon DEF Shift
<1> HIDE DEF n, U, T, D
<1>6. m = g[n] - g[i] /\ m \in Boundaries(U)
  BY <1>3, CodedLast, LastBoundary, Zenon
<1>7. start \in B /\ \A b \in B : start <= b
  <2>1. m \in B
    <3>1. m - m <= MaxBytes - SizeOf(cur)
      <4>1. m \in Nat
        BY <1>3, LastBoundary, Zenon
      <4> HIDE DEF m
      <4>2. QED
        BY <1>2, <4>1
    <3>2. QED
      BY <1>6, <3>1, Zenon
  <2>2. B \in SUBSET (0 .. Len(U)) /\ Len(U) \in Nat
    BY <1>3, FileFacts, Walk, Zenon
  <2> HIDE DEF B
  <2>3. QED
    BY <2>1, <2>2, Extremes, Zenon
<1>8. PICK x \in 0 .. n - i : start = D[x]
  <2>1. start \in Boundaries(U)
    BY <1>7, Zenon
  <2> HIDE DEF start
  <2>2. QED
    BY <1>3, <2>1, CodedBounds
<1> DEFINE k == i + x
<1>9. k \in i .. n /\ k \in 0 .. n /\ x \in Nat /\ n - i \in Nat
  BY <1>1
<1>10. start = g[k] - g[i]
  BY <1>5, <1>8, Zenon
<1>11. g[i] <= g[k] /\ g[k] <= g[n] /\ g[i] \in Nat /\ g[k] \in Nat /\ g[n] \in Nat
  <2>1. i <= k /\ k <= n /\ i \in 0 .. n
    BY <1>1, <1>9 DEF n
  <2>2. QED
    BY <1>1, <1>9, <2>1, Rising, Zenon DEF n
<1>12. Kept = SubSeq(log, g[k] + 1, g[n])
  <2> DEFINE a == g[i]
             b == g[k]
             c == g[n]
  <2> HIDE DEF a, b, c, k, m, start, B
  <2>1. a \in Nat /\ b \in Nat /\ c \in Nat /\ a <= b /\ b <= c /\ c = Len(log) /\ start = b - a /\ m = c - a
    BY <1>6, <1>10, <1>11, Zenon DEF a, b, c, n
  <2>2. /\ a \in 0 .. Len(log) /\ start \in Nat /\ m \in Nat /\ start <= m /\ a + m <= Len(log)
        /\ a + start = b /\ a + m = c
    BY <2>1
  <2>3. SubSeq(Unread(log, a), start + 1, m) = SubSeq(log, (a + start) + 1, a + m)
    BY <2>2, PartOfRest, Zenon
  <2>4. QED
    BY <1>4, <2>2, <2>3, Zenon DEF a, b, c
<1>13. ASSUME k > i PROVE (g[n] - g[k - 1]) + SizeOf(cur) > MaxBytes
  <2>1. x - 1 \in 0 .. n - i /\ x - 1 < x /\ i + (x - 1) = k - 1 /\ k - 1 \in 0 .. n
    BY <1>1, <1>9, <1>13
  <2>2. D[x - 1] = g[k - 1] - g[i] /\ D[x - 1] \in Boundaries(U)
    <3>1. D[x - 1] = g[i + (x - 1)] - g[i]
      BY <1>5, <2>1, Zenon
    <3>2. D[x - 1] \in Boundaries(U)
      BY <1>3, <2>1, CodedBounds
    <3>3. QED
      BY <2>1, <3>1, <3>2, Zenon
  <2>3. D[x - 1] < D[x]
    BY <1>3, <2>1, Rising, Zenon
  <2>4. D[x - 1] \notin B
    <3>1. D[x - 1] \in Nat /\ start \in Nat
      <4>1. start \in Boundaries(U)
        BY <1>7, Zenon
      <4>2. QED
        BY <1>3, <2>2, <4>1, LastBoundary, Zenon
    <3> HIDE DEF start, B
    <3>2. ~(start <= D[x - 1])
      BY <1>8, <2>3, <3>1
    <3>3. QED
      BY <1>7, <3>2, Zenon
  <2>5. ~(m - D[x - 1] <= MaxBytes - SizeOf(cur))
    BY <2>2, <2>4, Zenon
  <2> DEFINE a == g[i]
             b == g[k - 1]
             c == g[n]
             z == SizeOf(cur)
  <2>6. /\ ~((c - a) - (b - a) <= MaxBytes - z) /\ z \in Nat /\ MaxBytes \in Nat
        /\ a \in Nat /\ b \in Nat /\ c \in Nat
    BY <1>1, <1>2, <1>6, <1>11, <2>1, <2>2, <2>5, Zenon
  <2> HIDE DEF a, b, c, z
  <2>7. (c - b) + z > MaxBytes
    BY <2>6
  <2>8. QED
    BY <2>7, Zenon DEF b, c, z
<1>14. QED
  <2> HIDE DEF k
  <2> QED  BY <1>9, <1>12, <1>13, Zenon DEF n

-----------------------------------------------------------------------------
(* The queue in the files, and the steps that leave them alone. *)

\* While there is no damage, and at most one file operation has failed, both files are
\* the records of s, which end at the positions g, the process stands behind the i-th,
\* and the cursor file is ahead of it by no more than a settled record.
View(s, g, i) ==
  /\ Coded(Written, s, g) /\ disk = Written
  /\ pc # "down" => g[Len(s)] = Len(Written)
  /\ i \in 0 .. Len(s) /\ g[i] = (IF open THEN offset ELSE ReadFrom(Written))
  /\ pc = "sync" => log = Written \o encodeRecord(cur)
  /\ pc \in Enqueueing => \A k \in 1 .. Len(s) : s[k] # cur
  /\ pc \in {"send", "commit"} => i < Len(s) /\ cur = s[i + 1] /\ next = g[i + 1]
  /\ open /\ cursor > offset => i < Len(s) /\ cursor = g[i + 1] /\ s[i + 1] \in settled

\* There is such a view.
Viewed == \E s, g, i : View(s, g, i)

\* What the queue shows of a view, ...
LEMMA ViewShows ==
  ASSUME Sound, NEW CONSTANT s, NEW CONSTANT g, NEW CONSTANT i, View(s, g, i)
  PROVE  Items = s /\ Passed = i
<1>1. Written \in File
  BY WrittenFacts, Zenon
<1>2. Coded(Written, s, g) /\ i \in 0 .. Len(s) /\ g[i] = (IF open THEN offset ELSE ReadFrom(Written))
  BY Zenon DEF View
<1>3. Shows(Written, s, g, i)
  BY <1>1, <1>2, Shown, Zenon
<1>4. QED
  BY <1>2, <1>3, Zenon DEF Items, Passed, Shows

\* ... and of one in the next state.
LEMMA ViewShowsNext ==
  ASSUME Written' \in File, NEW CONSTANT s, NEW CONSTANT g, NEW CONSTANT i, View(s, g, i)'
  PROVE  Items' = s /\ Passed' = i
<1>1. /\ Coded(Written', s, g) /\ i \in 0 .. Len(s)
      /\ g[i] = (IF open' THEN offset' ELSE ReadFrom(Written)')
  BY Zenon DEF View
<1>2. Shows(Written', s, g, i)
  BY <1>1, Shown, Zenon
<1>3. QED
  BY <1>1, <1>2, Zenon DEF Items, Passed, Shows

\* Steps that leave the files and the process where they are.
Quiet ==
  \/ \E p \in Payload : Enqueue(p)
  \/ CompactCursor \/ CompactFails \/ SwapFails \/ DrainStop \/ NextEnd \/ NextRecord
  \/ Send \/ CommitInvalid \/ CommitFails

\* They do.
LEMMA QuietFacts ==
  ASSUME Sound, Quiet
  PROVE  /\ UNCHANGED <<log, disk, offset, open>> /\ open /\ Written = log /\ Written' = log
         /\ pc # "down" /\ pc' # "down" /\ pc' # "sync" /\ log \in File
<1>1. /\ UNCHANGED <<log, disk, offset, open>> /\ open
      /\ pc \notin {"down", "sync"} /\ pc' \notin {"down", "sync"}
  BY Zenon DEF Quiet, Enqueue, CompactCursor, CompactFails, SwapFails, DrainStop, NextEnd, NextRecord,
     Send, CommitInvalid, CommitFails, Goto, Draining, Sound, Control
<1>2. Written = log /\ Written' = log
  BY <1>1 DEF Written
<1>3. log \in File
  BY Types, Zenon DEF Sound
<1>4. QED
  BY <1>1, <1>2, <1>3, Zenon

\* A payload of the view has a cell in its file.
LEMMA ViewOwners ==
  ASSUME NEW f \in File, NEW s, NEW g, Coded(f, s, g), NEW k \in 1 .. Len(s)
  PROVE  s[k] \in Owners(f)
<1>1. k - 1 \in 0 .. Len(s) - 1 /\ (k - 1) + 1 = k
  BY CodedTypes
<1>2. Whole(f, g[k - 1]) /\ f[g[k - 1] + 2][1] = s[k]
  BY <1>1, CodedStep
<1>3. g[k - 1] \in Nat /\ s[k] \in Payload
  BY <1>1, CodedTypes, Zenon
<1>4. g[k - 1] + 2 <= Len(f) /\ Len(f) \in Nat /\ DOMAIN f = 1 .. Len(f)
  BY <1>2, <1>3, WholeEnd, FileFacts, Zenon
<1>5. g[k - 1] + 2 \in DOMAIN f
  BY <1>3, <1>4
<1>6. s[k] # 0
  BY <1>3, PayloadAssumption
<1>7. QED
  BY <1>2, <1>5, <1>6, Zenon DEF Owners

\* Where the process finds a record, it is the next one of the view.
LEMMA OnTurn ==
  ASSUME NEW f \in File, NEW s, NEW g, Coded(f, s, g), NEW i \in 0 .. Len(s), Whole(f, g[i])
  PROVE  i < Len(s) /\ f[g[i] + 2][1] = s[i + 1] /\ EndAt(f, g[i]) = g[i + 1]
<1>1. i # Len(s)
  BY CodedEnd, Zenon
<1>2. i \in 0 .. Len(s) - 1 /\ i < Len(s)
  BY <1>1, CodedTypes
<1>3. QED
  BY <1>2, CodedStep

\* They keep the view, ...
LEMMA ViewQuiet ==
  ASSUME Sound, NEW CONSTANT s, NEW CONSTANT g, NEW CONSTANT i, View(s, g, i), Quiet
  PROVE  View(s, g, i)'
<1>0. /\ UNCHANGED <<log, disk, offset, open>> /\ open /\ Written = log /\ Written' = log
      /\ pc # "down" /\ pc' # "down" /\ pc' # "sync" /\ log \in File
  BY QuietFacts, Zenon
<1>1. /\ Coded(log, s, g) /\ disk = log /\ g[Len(s)] = Len(log)
      /\ i \in 0 .. Len(s) /\ g[i] = offset
  BY <1>0, Zenon DEF View
<1>2. pc' \in Enqueueing => \A k \in 1 .. Len(s) : s[k] # cur'
  <2>1. ASSUME NEW p \in Payload, Enqueue(p) PROVE \A k \in 1 .. Len(s) : s[k] # cur'
    <3>1. cur' = p /\ p \notin Owners(log)
      BY <2>1, Zenon DEF Enqueue, Fresh
    <3>2. QED
      BY <1>0, <1>1, <3>1, ViewOwners, Zenon
  <2>2. CASE CompactCursor
    BY <2>2, Zenon DEF CompactCursor, View, Enqueueing
  <2>3. CASE \/ CompactFails \/ SwapFails \/ DrainStop \/ NextEnd \/ NextRecord
             \/ Send \/ CommitInvalid \/ CommitFails
    <3>1. pc' \in {"idle", "send", "commit"}
      BY <2>3, Zenon DEF CompactFails, SwapFails, DrainStop, NextEnd, NextRecord,
         Send, CommitInvalid, CommitFails, Goto
    <3>2. QED
      BY <3>1 DEF Enqueueing
  <2>4. QED
    BY <2>1, <2>2, <2>3, Zenon DEF Quiet
<1>3. pc' \in {"send", "commit"} => i < Len(s) /\ cur' = s[i + 1] /\ next' = g[i + 1]
  <2>1. CASE NextRecord
    <3>1. Whole(log, offset) /\ cur' = log[offset + 2][1] /\ next' = EndAt(log, offset)
      BY <2>1, Zenon DEF NextRecord
    <3>2. i < Len(s) /\ log[g[i] + 2][1] = s[i + 1] /\ EndAt(log, g[i]) = g[i + 1]
      BY <1>0, <1>1, <3>1, OnTurn
    <3>3. QED
      BY <1>1, <3>1, <3>2, Zenon
  <2>2. CASE Send
    BY <2>2, Zenon DEF Send, View
  <2>3. CASE \/ \E p \in Payload : Enqueue(p)
             \/ CompactCursor \/ CompactFails \/ SwapFails \/ DrainStop \/ NextEnd
             \/ CommitInvalid \/ CommitFails
    <3>1. pc' \in {"compact", "append", "swap", "idle"}
      BY <2>3, Zenon DEF Enqueue, CompactCursor, CompactFails, SwapFails, DrainStop, NextEnd,
         CommitInvalid, CommitFails, Goto
    <3>2. QED
      BY <3>1
  <2>4. QED
    BY <2>1, <2>2, <2>3, Zenon DEF Quiet
<1>4. cursor' > offset => i < Len(s) /\ cursor' = g[i + 1] /\ s[i + 1] \in settled'
  <2>1. offset \in Nat /\ ~(0 > offset)
    <3>1. offset \in Nat
      BY Types, Zenon DEF Sound
    <3>2. QED
      BY <3>1
  <2>2. cursor > offset => i < Len(s) /\ cursor = g[i + 1] /\ s[i + 1] \in settled
    BY <1>0, Zenon DEF View
  <2>3. ASSUME NEW p \in Payload, Enqueue(p)
        PROVE  cursor' > offset => i < Len(s) /\ cursor' = g[i + 1] /\ s[i + 1] \in settled'
    <3>1. cursor' = cursor /\ settled' = settled \ {p} /\ p \notin Owners(log)
      BY <2>3, Zenon DEF Enqueue, Fresh
    <3>2. i < Len(s) => i + 1 \in 1 .. Len(s)
      BY <1>0, <1>1, CodedTypes
    <3>3. i < Len(s) => s[i + 1] # p
      BY <1>0, <1>1, <3>1, <3>2, ViewOwners, Zenon
    <3>4. QED
      BY <2>2, <3>1, <3>3, Zenon
  <2>4. CASE CommitFails
    <3>1. cursor' \in {cursor, next} /\ settled' = settled /\ pc = "commit"
      BY <2>4, Zenon DEF CommitFails, ghostVars
    <3>2. i < Len(s) /\ cur = s[i + 1] /\ next = g[i + 1] /\ cur \in settled
      BY <3>1 DEF View, Sound, Control
    <3>3. QED
      BY <2>2, <3>1, <3>2, Zenon
  <2>5. CASE \/ CompactCursor \/ CompactFails \/ SwapFails \/ DrainStop \/ NextEnd \/ NextRecord
             \/ Send \/ CommitInvalid
    <3>1. cursor' \in {cursor, 0} /\ settled \subseteq settled'
      BY <2>5, Zenon DEF CompactCursor, CompactFails, SwapFails, DrainStop, NextEnd, NextRecord,
         Send, CommitInvalid, ghostVars
    <3>2. QED
      BY <2>1, <2>2, <3>1, Zenon
  <2>6. QED
    BY <2>3, <2>4, <2>5, Zenon DEF Quiet
<1>5. QED
  BY <1>0, <1>1, <1>2, <1>3, <1>4, Zenon DEF View

\* ... and are steps of the queue or none of its steps.
LEMMA QueueQuiet ==
  ASSUME Sound, NEW CONSTANT s, NEW CONSTANT g, NEW CONSTANT i, View(s, g, i), Quiet
  PROVE  [Queue!Next]_Queue!vars
<1>0. Written = log /\ Written' = log /\ log \in File /\ Written' \in File
  BY QuietFacts, Zenon
<1>1. Items = s /\ Passed = i
  BY ViewShows, Zenon
<1>2. Items' = s /\ Passed' = i
  BY <1>0, ViewQuiet, ViewShowsNext, Zenon
<1>3. UNCHANGED <<Items, Passed>>
  BY <1>1, <1>2, Zenon
<1>4. Coded(log, s, g) /\ i \in 0 .. Len(s)
  BY <1>0, Zenon DEF View
<1>5. ASSUME NEW p \in Payload, Enqueue(p) PROVE Queue!Reuse(p)
  <2>1. settled' = settled \ {p} /\ p \notin Owners(log)
    BY <1>5, Zenon DEF Enqueue, Fresh
  <2>2. p \notin Queue!Range(s)
    <3>1. DOMAIN s = 1 .. Len(s)
      BY <1>0, <1>4, CodedTypes
    <3>2. QED
      BY <1>0, <1>4, <2>1, <3>1, ViewOwners, Zenon DEF Queue!Range
  <2>3. QED
    BY <1>1, <1>3, <2>1, <2>2, Zenon DEF Queue!Reuse
<1>6. CASE Send
  <2>1. pc = "send" /\ (settled' = settled \cup {cur} \/ settled' = settled)
    BY <1>6, Zenon DEF Send
  <2>2. i < Len(s) /\ cur = s[i + 1]
    BY <2>1 DEF View
  <2>3. CASE settled' = settled \cup {cur}
    <3>1. Queue!Settle
      BY <1>1, <1>3, <2>2, <2>3, Zenon DEF Queue!Settle
    <3>2. QED
      BY <3>1, Zenon DEF Queue!Next
  <2>4. CASE settled' = settled
    BY <1>3, <2>4, Zenon DEF Queue!vars
  <2>5. QED
    BY <2>1, <2>3, <2>4, Zenon
<1>7. CASE \/ CompactCursor \/ CompactFails \/ SwapFails \/ DrainStop \/ NextEnd \/ NextRecord
           \/ CommitInvalid \/ CommitFails
  <2>1. settled' = settled
    BY <1>7, Zenon DEF CompactCursor, CompactFails, SwapFails, DrainStop, NextEnd, NextRecord,
       CommitInvalid, CommitFails, ghostVars
  <2>2. QED
    BY <1>3, <2>1, Zenon DEF Queue!vars
<1>8. QED
  BY <1>5, <1>6, <1>7, Zenon DEF Quiet, Queue!Next

-----------------------------------------------------------------------------
(* The steps that change the files. *)

\* No record of a view is torn or broken.
LEMMA NoRecovery ==
  ASSUME Sound, NEW CONSTANT s, NEW CONSTANT g, NEW CONSTANT i, View(s, g, i),
         NextTorn \/ NextBroken \/ NextChecksum \/ RecoveryFails
  PROVE  FALSE
<1>1. Draining /\ (Torn(log, offset) \/ Broken(log, offset) \/ (Whole(log, offset) /\ ~Intact(log, offset)))
  BY Zenon DEF NextTorn, NextBroken, NextChecksum, RecoveryFails
<1>2. pc \notin {"idle", "down", "sync"}
  BY <1>1 DEF Draining
<1>3. open /\ Written = log /\ log \in File
  BY <1>2, Types DEF Written, Sound, Control
<1>4. Coded(log, s, g) /\ g[Len(s)] = Len(log) /\ i \in 0 .. Len(s) /\ g[i] = offset
  BY <1>2, <1>3 DEF View
<1>5. CASE i = Len(s)
  BY <1>1, <1>3, <1>4, <1>5, CodedEnd, Zenon
<1>6. CASE i # Len(s)
  <2>1. i \in 0 .. Len(s) - 1
    BY <1>3, <1>4, <1>6, CodedTypes
  <2>2. Whole(log, offset) /\ Intact(log, offset)
    BY <1>3, <1>4, <2>1, CodedStep
  <2>3. EndAt(log, offset) \in offset + 2 .. Len(log) /\ offset \in Nat /\ Len(log) \in Nat
    BY <1>3, <2>2, Types, WholeEnd, Zenon DEF Sound
  <2>4. ~(EndAt(log, offset) > Len(log))
    BY <2>3
  <2>5. ~Torn(log, offset) /\ ~Broken(log, offset)
    BY <2>2, <2>4, Zenon DEF Torn, Broken, Whole
  <2>6. QED
    BY <1>1, <2>2, <2>5, Zenon
<1>7. QED
  BY <1>5, <1>6, Zenon

\* A write, and one that fails and is rolled back.
LEMMA QueueAppend ==
  ASSUME Sound, NEW CONSTANT s, NEW CONSTANT g, NEW CONSTANT i, View(s, g, i), errors' <= 1,
         Write \/ AppendFails \/ SyncFails
  PROVE  View(s, g, i)' /\ UNCHANGED Queue!vars
<1>0. TypeOK /\ Fits /\ Control
  BY DEF Sound
<1>1. /\ pc \in {"append", "sync"} /\ pc' \in {"sync", "idle"} /\ UNCHANGED <<cursor, offset, open, cur, settled>>
      /\ open
  BY <1>0 DEF Write, AppendFails, SyncFails, Goto, ghostVars, Control
<1>2. Written \in File /\ errors \in Nat /\ log \in File /\ Len(log) \in Nat
  BY <1>0, WrittenFacts, Types, Zenon
<1>3. /\ Coded(Written, s, g) /\ disk = Written /\ g[Len(s)] = Len(Written)
      /\ i \in 0 .. Len(s) /\ g[i] = offset
      /\ \A k \in 1 .. Len(s) : s[k] # cur
      /\ cursor > offset => i < Len(s) /\ cursor = g[i + 1] /\ s[i + 1] \in settled
  BY <1>1 DEF View, Enqueueing
<1>4. Written' = Written /\ disk' = Written /\ (pc' = "sync" => log' = Written \o encodeRecord(cur))
  <2>1. CASE Write
    <3>1. Written' = log /\ Written = log /\ disk' = disk /\ log' = log \o encodeRecord(cur)
      BY <2>1, SoundWrite, Zenon DEF Write, Written
    <3>2. QED
      BY <1>3, <3>1, Zenon
  <2>2. ASSUME NEW f, NEW n, Rollback(f, n) PROVE log' = SubSeq(f, 1, n) /\ disk' = log'
    <3>1. \/ log' = SubSeq(f, 1, n) /\ disk' = log'
          \/ errors' = errors + 2
      BY <2>2, Zenon DEF Rollback, FileError, Errors
    <3>2. errors' # errors + 2
      BY <1>2
    <3>3. QED
      BY <3>1, <3>2, Zenon
  <2>3. CASE AppendFails
    <3>1. PICK n \in 0 .. SizeOf(cur) - 1 : Rollback(log \o SubSeq(encodeRecord(cur), 1, n), Len(log))
      BY <2>3, Zenon DEF AppendFails
    <3> DEFINE e == SubSeq(encodeRecord(cur), 1, n)
               f == log \o e
    <3>2. e \in File
      <4>1. cur \in Payload /\ LenOf[cur] <= MaxPayload
        BY <1>0, <1>1 DEF Fits, Enqueueing
      <4>2. encodeRecord(cur) \in File /\ Len(encodeRecord(cur)) = SizeOf(cur) /\ SizeOf(cur) \in Nat
        BY <4>1, RecordCells, Zenon
      <4>3. n \in 0 .. Len(encodeRecord(cur))
        BY <4>2
      <4>4. QED
        BY <4>2, <4>3, Cut, Zenon
    <3> HIDE DEF e
    <3>3. f \in File /\ Len(f) = Len(log) + Len(e) /\ Len(e) \in Nat /\ \A k \in 1 .. Len(log) : f[k] = log[k]
      BY <1>2, <3>2, Joined, FileFacts, Zenon
    <3> HIDE DEF f
    <3>4. Len(log) \in 0 .. Len(f)
      BY <1>2, <3>3
    <3>5. /\ SubSeq(f, 1, Len(log)) \in File /\ Len(SubSeq(f, 1, Len(log))) = Len(log)
          /\ \A k \in 1 .. Len(log) : SubSeq(f, 1, Len(log))[k] = f[k]
      BY <3>3, <3>4, Cut, Zenon
    <3>6. SubSeq(f, 1, Len(log)) = log
      BY <1>2, <3>3, <3>5, SameSeq, Zenon DEF File
    <3>7. log' = log /\ disk' = log
      BY <2>2, <3>1, <3>6, Zenon DEF e, f
    <3>8. pc = "append" /\ pc' = "idle"
      BY <2>3, Zenon DEF AppendFails, Goto
    <3>9. QED
      BY <3>7, <3>8 DEF Written
  <2>4. CASE SyncFails
    <3>1. Rollback(log, Len(log) - SizeOf(cur)) /\ pc = "sync" /\ pc' = "idle"
      BY <2>4, Zenon DEF SyncFails, Goto
    <3>2. log' = Written /\ disk' = Written
      BY <2>2, <3>1, Zenon DEF Written
    <3>3. QED
      BY <3>1, <3>2 DEF Written
  <2>5. QED
    BY <2>1, <2>3, <2>4, Zenon
<1>5. View(s, g, i)'
  <2>1. pc' \notin {"send", "commit"}
    BY <1>1
  <2>2. QED
    BY <1>1, <1>3, <1>4, <2>1, Zenon DEF View
<1>6. Items = s /\ Passed = i /\ Items' = s /\ Passed' = i
  BY <1>2, <1>4, <1>5, ViewShows, ViewShowsNext, Zenon
<1>7. QED
  BY <1>1, <1>5, <1>6, Zenon DEF Queue!vars

\* Enqueue returns nil: a new item.
LEMMA QueueSync ==
  ASSUME Sound, Sound', NEW CONSTANT s, NEW CONSTANT g, NEW CONSTANT i, View(s, g, i), Sync
  PROVE  Viewed' /\ \E p \in Payload : Queue!Put(p)
<1>0. TypeOK /\ Fits /\ Control
  BY DEF Sound
<1>1. /\ pc = "sync" /\ pc' = "drain" /\ disk' = log /\ UNCHANGED <<log, cursor, offset, open, settled>>
      /\ open /\ cur \in Payload /\ LenOf[cur] <= MaxPayload /\ Len(log) <= MaxBytes
  BY <1>0 DEF Sync, Goto, Control, Fits, Enqueueing
<1>2. Written \in File /\ log \in File /\ Len(log) \in Nat
  BY <1>0, WrittenFacts, Types, Zenon
<1>3. /\ Coded(Written, s, g) /\ g[Len(s)] = Len(Written) /\ log = Written \o encodeRecord(cur)
      /\ i \in 0 .. Len(s) /\ g[i] = offset
      /\ \A k \in 1 .. Len(s) : s[k] # cur
      /\ cursor > offset => i < Len(s) /\ cursor = g[i + 1] /\ s[i + 1] \in settled
  BY <1>1 DEF View, Enqueueing
<1>4. Written' = log
  BY <1>1 DEF Written
<1>5. PICK t, d :
      /\ t = Append(s, cur) /\ Len(log) = Len(Written) + SizeOf(cur)
      /\ Coded(log, t, d) /\ \A k \in 0 .. Len(s) : d[k] = g[k]
      /\ Len(t) = Len(s) + 1 /\ d[Len(s) + 1] = Len(Written) + SizeOf(cur)
      /\ \A k \in 1 .. Len(s) : t[k] = s[k]
  <2>1. Grows(Written, s, g, cur)
    BY <1>1, <1>2, <1>3, Grown, Zenon
  <2>2. QED
    BY <1>3, <2>1, Zenon DEF Grows
<1>6. View(t, d, i)'
  <2>1. Len(s) \in Nat /\ i \in 0 .. Len(s) + 1 /\ (i < Len(s) => i < Len(s) + 1 /\ i + 1 \in 0 .. Len(s) /\ i + 1 \in 1 .. Len(s))
    BY <1>2, <1>3, CodedTypes
  <2>2. i \in 0 .. Len(t) /\ d[i] = offset /\ d[Len(t)] = Len(log)
    BY <1>3, <1>5, <2>1, Zenon
  <2>3. cursor > offset => i < Len(t) /\ cursor = d[i + 1] /\ t[i + 1] \in settled
    BY <1>3, <1>5, <2>1, Zenon
  <2>4. pc' \notin Enqueueing /\ pc' \notin {"send", "commit"} /\ pc' # "sync"
    BY <1>1 DEF Enqueueing
  <2>5. QED
    BY <1>1, <1>4, <1>5, <2>2, <2>3, <2>4, Zenon DEF View
<1>7. Items = s /\ Passed = i /\ Items' = t /\ Passed' = i
  BY <1>2, <1>4, <1>6, ViewShows, ViewShowsNext, Zenon
<1>8. Queue!Put(cur)
  <2>1. cur \notin Queue!Range(s)
    <3>1. DOMAIN s = 1 .. Len(s)
      BY <1>2, <1>3, CodedTypes
    <3>2. QED
      BY <1>3, <3>1, Zenon DEF Queue!Range
  <2>2. Queue!Total(t) = Len(log)
    <3>1. Queue!Total(t) = d[Len(t)]
      BY <1>2, <1>5, CodedTotal, Zenon
    <3>2. QED
      BY <1>5, <3>1, Zenon
  <2>3. QED
    BY <1>1, <1>5, <1>7, <2>1, <2>2, Zenon DEF Queue!Put
<1>9. QED
  BY <1>1, <1>6, <1>8, Zenon DEF Viewed

\* Commit: the item on offer is passed.
LEMMA QueueCommit ==
  ASSUME Sound, NEW CONSTANT s, NEW CONSTANT g, NEW CONSTANT i, View(s, g, i), Commit
  PROVE  Viewed' /\ Queue!Pass
<1>1. /\ pc = "commit" /\ pc' = "again" /\ UNCHANGED <<log, disk, open, settled>>
      /\ cursor' = next /\ offset' = next /\ open /\ cur \in settled
  BY DEF Commit, Goto, ghostVars, Sound, Control
<1>2. log \in File /\ Written = log /\ Written' = log /\ next \in Nat
  BY <1>1, Types DEF Written, Sound
<1>3. /\ Coded(log, s, g) /\ disk = log /\ g[Len(s)] = Len(log) /\ i \in 0 .. Len(s)
      /\ i < Len(s) /\ cur = s[i + 1] /\ next = g[i + 1]
  BY <1>1, <1>2 DEF View
<1>4. View(s, g, i + 1)'
  <2>1. i + 1 \in 0 .. Len(s)
    BY <1>2, <1>3, CodedTypes
  <2>2. ~(cursor' > offset') /\ pc' \notin Enqueueing /\ pc' \notin {"send", "commit", "sync"}
    BY <1>1, <1>2 DEF Enqueueing
  <2>3. QED
    BY <1>1, <1>2, <1>3, <2>1, <2>2, Zenon DEF View
<1>5. Items = s /\ Passed = i /\ Items' = s /\ Passed' = i + 1
  BY <1>2, <1>4, ViewShows, ViewShowsNext, Zenon
<1>6. Queue!Pass
  BY <1>1, <1>3, <1>5, Zenon DEF Queue!Pass
<1>7. QED
  BY <1>4, <1>6, Zenon DEF Viewed

\* Compaction: room is made for the new item; or the spool is closed before the rename
\* is certain, and the queue is offered from its start.
LEMMA QueueSwap ==
  ASSUME Sound, NEW CONSTANT s, NEW CONSTANT g, NEW CONSTANT i, View(s, g, i), Swap \/ SwapUnsynced
  PROVE  Viewed' /\ (Queue!Restart \/ \E p \in Payload : Queue!MakeRoom(p))
<1>0. TypeOK /\ Fits /\ Control
  BY DEF Sound
<1>1. /\ pc = "swap" /\ pc' \in {"append", "idle"} /\ UNCHANGED <<cursor, cur, settled>>
      /\ cursor = 0 /\ open /\ cur \in Payload /\ LenOf[cur] <= MaxPayload
      /\ Len(log) <= MaxBytes
  BY <1>0 DEF Swap, SwapUnsynced, Goto, Control, Fits, Enqueueing
<1>2. log \in File /\ Written = log /\ Written' = log' /\ Len(log) \in Nat
  BY <1>0, <1>1, Types DEF Written
<1>3. /\ Coded(log, s, g) /\ disk = log /\ g[Len(s)] = Len(log) /\ i \in 0 .. Len(s) /\ g[i] = offset
      /\ \A k \in 1 .. Len(s) : s[k] # cur
  BY <1>1, <1>2 DEF View, Enqueueing
<1>4. Items = s /\ Passed = i
  BY ViewShows, Zenon
<1>5. Len(s) \in Nat /\ i \in Nat /\ 0 \in 0 .. Len(s) /\ \A k \in i .. Len(s) : k \in 0 .. Len(s)
  BY <1>2, <1>3, CodedTypes
<1>6. /\ open' => offset' = 0 /\ pc' = "append"
      /\ ~open' => pc' = "idle"
      /\ open' \in BOOLEAN
  BY <1>1, Zenon DEF Swap, SwapUnsynced, Goto
<1>7. (IF open' THEN offset' ELSE ReadFrom(Written)') = 0
  BY <1>1, <1>6, Zenon DEF ReadFrom
<1>8. ~(open' /\ cursor' > offset') /\ pc' \notin {"down", "sync", "send", "commit"}
  BY <1>1, <1>6
<1>9. CASE log' = Kept /\ disk' = Kept
  <2>1. PICK k \in i .. Len(s) :
          /\ Kept = SubSeq(log, g[k] + 1, g[Len(s)])
          /\ k > i => (g[Len(s)] - g[k - 1]) + SizeOf(cur) > MaxBytes
    BY <1>1, <1>2, <1>3, KeptCoded, Zenon
  <2> DEFINE t == SubSeq(s, k + 1, Len(s))
             d == Shift(g, k, Len(s))
  <2>2. /\ Kept \in File /\ Len(Kept) = g[Len(s)] - g[k] /\ Coded(Kept, t, d)
        /\ Len(t) = Len(s) - k /\ d[Len(s) - k] = g[Len(s)] - g[k]
    <3>1. Len(s) \in k .. Len(s)
      BY <1>5
    <3>2. Sliced(log, s, g, k, Len(s))
      BY <1>2, <1>3, <1>5, <2>1, <3>1, Slice, Zenon
    <3>3. QED
      BY <2>1, <3>2, Zenon DEF Sliced
  <2>3. \A x \in 1 .. Len(t) : t[x] # cur
    <3>1. s \in Seq(Payload)
      BY <1>3, Zenon DEF Coded
    <3>2. ASSUME NEW x \in 1 .. Len(t) PROVE t[x] = s[k + x] /\ k + x \in 1 .. Len(s)
      BY <1>5, <2>2, <3>1, SMTT(30)
    <3>3. QED
      BY <1>3, <3>2, Zenon
  <2>4. 0 \in 0 .. Len(t) /\ d[0] = 0 /\ d[Len(t)] = Len(Kept)
    <3>1. d[0] = 0
      BY <2>2, Zenon DEF Coded
    <3>2. Len(s) - k \in Nat
      BY <1>5
    <3>3. 0 \in 0 .. Len(s) - k
      BY <3>2
    <3>4. QED
      BY <2>2, <3>1, <3>3, Zenon
  <2>5. View(t, d, 0)'
    BY <1>1, <1>2, <1>7, <1>8, <1>9, <2>2, <2>3, <2>4, Zenon DEF View
  <2>6. Items' = t /\ Passed' = 0
    BY <1>2, <1>9, <2>2, <2>5, ViewShowsNext, Zenon
  <2>7. Queue!MakeRoom(cur)
    <3>1. k > i => Queue!Total(Queue!Drop(s, k - 1)) + SizeOf(cur) > MaxBytes
      <4>1. SUFFICES ASSUME k > i PROVE Queue!Total(Queue!Drop(s, k - 1)) + SizeOf(cur) > MaxBytes
        BY Zenon
      <4>2. k - 1 \in 0 .. Len(s)
        BY <1>5, <4>1
      <4>3. Queue!Total(Queue!Drop(s, k - 1)) = g[Len(s)] - g[k - 1]
        BY <1>2, <1>3, <4>2, DropTotal
      <4>4. (g[Len(s)] - g[k - 1]) + SizeOf(cur) > MaxBytes
        BY <2>1, <4>1, Zenon
      <4>5. QED
        BY <4>3, <4>4, Zenon
    <3>2. t = Queue!Drop(s, k)
      BY Zenon DEF Queue!Drop
    <3>3. QED
      BY <1>1, <1>4, <2>6, <3>1, <3>2, Zenon DEF Queue!MakeRoom
  <2>8. QED
    BY <1>1, <2>5, <2>7, Zenon DEF Viewed
<1>10. CASE UNCHANGED <<log, disk>> /\ ~open'
  <2>1. View(s, g, 0)'
    <3>1. g[0] = 0
      BY <1>3, Zenon DEF Coded
    <3>2. pc' \notin Enqueueing
      BY <1>6, <1>10 DEF Enqueueing
    <3>3. QED
      BY <1>1, <1>2, <1>3, <1>5, <1>7, <1>8, <1>10, <3>1, <3>2, Zenon DEF View
  <2>2. Items' = s /\ Passed' = 0
    BY <1>2, <1>10, <2>1, ViewShowsNext, Zenon
  <2>3. Queue!Total(s) <= MaxBytes
    <3>1. Queue!Total(s) = g[Len(s)]
      BY <1>2, <1>3, CodedTotal, Zenon
    <3>2. QED
      BY <1>1, <1>3, <3>1, Zenon
  <2>4. \A k \in i + 1 .. 0 : FALSE
    BY <1>5
  <2>5. Queue!Restart
    BY <1>1, <1>4, <1>5, <2>2, <2>3, <2>4, Zenon DEF Queue!Restart
  <2>6. QED
    BY <2>1, <2>5, Zenon DEF Viewed
<1>11. QED
  BY <1>9, <1>10, Zenon DEF Swap, SwapUnsynced

\* The log that the end of the process leaves: what was written, and of a record whose
\* sync is pending a part, or all of it.
LEMMA EndFiles ==
  ASSUME Sound, NEW CONSTANT s, NEW CONSTANT g, NEW CONSTANT i, View(s, g, i), Close \/ Crash
  PROVE  /\ log' \in File /\ disk' = log' /\ Len(log') <= MaxBytes
         /\ pc # "sync" => log' = log
         /\ Coded(log', s, g) \/ (pc = "sync" /\ log' = log)
<1>0. TypeOK /\ Fits /\ Control
  BY DEF Sound
<1>1. /\ log \in File /\ disk \in File /\ Len(log) \in Nat /\ Written \in File /\ Len(Written) \in Nat
      /\ Len(log) <= MaxBytes /\ Len(disk) <= MaxBytes /\ MaxBytes \in Nat
  BY <1>0, Types, WrittenFacts, Zenon DEF Fits
<1>2. Coded(Written, s, g) /\ disk = Written
  BY Zenon DEF View
<1>3. SubSeq(log, 1, Len(log)) = log
  BY <1>1 DEF File
<1>4. CASE pc # "sync"
  <2>1. Written = log
    BY <1>4, Zenon DEF Written
  <2>2. CASE Close
    BY <1>1, <1>2, <1>4, <2>1, <2>2, Zenon DEF Close
  <2>3. CASE Crash
    <3>1. Common = Len(log)
      <4>1. Common \in 0 .. Len(log) /\ Len(log) <= Common
        <5>1. Len(log) <= Len(log)
          BY <1>1
        <5>2. Common \in 0 .. Len(log)
          BY <1>1, CommonFacts, Zenon
        <5>3. \A n \in Nat : n <= Len(log) /\ n <= Len(disk) /\ (\A k \in 1 .. n : disk[k] = log[k])
                             => n <= Common
          BY <1>1, CommonFacts, Zenon
        <5>4. QED
          BY <1>1, <1>2, <2>1, <5>1, <5>2, <5>3, Zenon
      <4>2. QED
        BY <1>1, <4>1
    <3>2. \A n \in Common .. Len(log) : n = Len(log)
      BY <1>1, <3>1
    <3>3. log' = log /\ disk' = log'
      BY <1>2, <1>3, <2>1, <2>3, <3>2, Zenon DEF Crash
    <3>4. QED
      BY <1>1, <1>2, <1>4, <2>1, <3>3, Zenon
  <2>4. QED
    BY <2>2, <2>3, Zenon
<1>5. CASE pc = "sync"
  <2>1. /\ log = Written \o encodeRecord(cur) /\ g[Len(s)] = Len(Written)
        /\ cur \in Payload /\ LenOf[cur] <= MaxPayload
    BY <1>0, <1>5 DEF View, Fits, Enqueueing
  <2>2. /\ Len(Written) = Len(log) - SizeOf(cur) /\ SizeOf(cur) \in Nat /\ Len(Written) <= Len(log)
        /\ \A k \in 1 .. Len(Written) : Written[k] = log[k]
    BY <1>5, WrittenFacts, Zenon
  <2>3. disk' = log' /\ (log' = disk \/ \E n \in Common .. Len(log) : log' = SubSeq(log, 1, n))
    <3>1. Crash
      BY <1>5 DEF Close
    <3>2. QED
      BY <3>1, Zenon DEF Crash
  <2>4. CASE log' = disk
    BY <1>1, <1>2, <1>5, <2>3, <2>4, Zenon
  <2>5. ASSUME NEW n \in Common .. Len(log), log' = SubSeq(log, 1, n)
        PROVE  log' \in File /\ Len(log') <= MaxBytes /\ (Coded(log', s, g) \/ log' = log)
    <3>1. Len(Written) <= Common /\ Common \in Nat
      <4>1. Common \in 0 .. Len(log)
        BY <1>1, CommonFacts, Zenon
      <4>2. Len(Written) <= Len(Written)
        BY <1>1
      <4>3. Len(Written) <= Common
        BY <1>1, <1>2, <2>2, <4>2, CommonFacts, Zenon
      <4>4. QED
        BY <4>1, <4>3
    <3>2. n \in Nat /\ n \in 0 .. Len(log) /\ Len(Written) <= n /\ n <= Len(log)
      BY <1>1, <3>1
    <3>3. log' \in File /\ Len(log') = n
      BY <1>1, <2>5, <3>2, Cut, Zenon
    <3>4. Len(log') <= MaxBytes
      BY <1>1, <3>2, <3>3
    <3>5. CASE n = Len(log)
      BY <1>3, <2>5, <3>3, <3>4, <3>5, Zenon
    <3>6. CASE n # Len(log)
      <4> DEFINE m == n - Len(Written)
      <4>1. m \in 0 .. SizeOf(cur) - 1 /\ Len(Written) + m = n
        <5> DEFINE a == Len(log)
                   b == Len(Written)
                   z == SizeOf(cur)
        <5>1. a \in Nat /\ b \in Nat /\ z \in Nat /\ b = a - z /\ n \in Nat /\ b <= n /\ n <= a /\ n # a
          BY <1>1, <2>2, <3>2, <3>6, Zenon
        <5> HIDE DEF a, b, z
        <5>2. n - b \in 0 .. z - 1 /\ b + (n - b) = n
          BY <5>1
        <5>3. QED
          BY <5>2, Zenon DEF b, z
      <4> HIDE DEF m
      <4>2. Coded(SubSeq(Written \o encodeRecord(cur), 1, Len(Written) + m), s, g)
        BY <1>1, <1>2, <2>1, <4>1, PartOfRecord, Zenon
      <4>3. QED
        BY <2>1, <2>5, <3>3, <3>4, <4>1, <4>2, Zenon
    <3>7. QED
      BY <3>5, <3>6, Zenon
  <2>6. QED
    BY <1>5, <2>3, <2>4, <2>5, Zenon
<1>6. QED
  BY <1>4, <1>5, Zenon

\* The end of the process: what is being written is an item or is not, and the queue is
\* offered from where the cursor file says.
LEMMA QueueEnd ==
  ASSUME Sound, NEW CONSTANT s, NEW CONSTANT g, NEW CONSTANT i, View(s, g, i), Close \/ Crash
  PROVE  Viewed' /\ Queue!Restart
<1>0. TypeOK /\ Fits /\ Control
  BY DEF Sound
<1>1. open' = FALSE /\ pc' = "down" /\ UNCHANGED <<cursor, settled>> /\ cursor \in Int /\ offset \in Nat
  BY <1>0, Types, Zenon DEF Close, Crash, Goto, ghostVars
<1>2. /\ log' \in File /\ disk' = log' /\ Len(log') <= MaxBytes
      /\ pc # "sync" => log' = log
      /\ Coded(log', s, g) \/ (pc = "sync" /\ log' = log)
  BY EndFiles, Zenon
<1>3. Written' = log' /\ Written \in File /\ log \in File /\ MaxBytes \in Nat
  BY <1>0, <1>1, WrittenFacts, Types DEF Written
<1>4. /\ Coded(Written, s, g) /\ i \in 0 .. Len(s)
      /\ g[i] = (IF open THEN offset ELSE ReadFrom(Written))
      /\ open /\ cursor > offset => i < Len(s) /\ cursor = g[i + 1] /\ s[i + 1] \in settled
  BY Zenon DEF View
<1>5. Len(s) \in Nat /\ i \in Nat /\ Len(log') \in Nat
  BY <1>2, <1>3, <1>4, CodedTypes, FileFacts
<1>6. Items = s /\ Passed = i
  BY ViewShows, Zenon
<1>7. PICK t, d :
        /\ Coded(log', t, d) /\ \A k \in 0 .. Len(s) : k \in 0 .. Len(t) /\ d[k] = g[k]
        /\ t = s \/ (t = Append(s, cur) /\ cur \in Payload /\ \A k \in 1 .. Len(s) : s[k] # cur)
  <2>1. CASE Coded(log', s, g)
    BY <2>1, Zenon
  <2>2. CASE pc = "sync" /\ log' = log
    <3>1. /\ log = Written \o encodeRecord(cur) /\ g[Len(s)] = Len(Written)
          /\ cur \in Payload /\ LenOf[cur] <= MaxPayload /\ \A k \in 1 .. Len(s) : s[k] # cur
      BY <1>0, <2>2 DEF View, Fits, Enqueueing
    <3> DEFINE t == Append(s, cur)
               d == Grow(g, Len(s), Len(Written) + SizeOf(cur))
    <3>2. Grows(Written, s, g, cur)
      BY <1>3, <1>4, <3>1, Grown, Zenon
    <3>3. Coded(log, t, d) /\ Len(t) = Len(s) + 1 /\ \A k \in 0 .. Len(s) : d[k] = g[k]
      BY <3>1, <3>2, Zenon DEF Grows
    <3> HIDE DEF d
    <3>4. \A k \in 0 .. Len(s) : k \in 0 .. Len(t)
      <4>1. \A k \in 0 .. Len(s) : k \in 0 .. Len(s) + 1
        BY <1>5
      <4>2. QED
        BY <3>3, <4>1, Zenon
    <3>5. QED
      BY <2>2, <3>1, <3>3, <3>4, Zenon
  <2>3. QED
    BY <1>2, <2>1, <2>2, Zenon
<1> DEFINE q == IF cursor \in Boundaries(log') THEN cursor ELSE 0
<1>8. ReadFrom(Written)' = q
  BY <1>1, <1>3, Zenon DEF ReadFrom
<1>9. PICK j \in 0 .. Len(t) : q = d[j]
  <2>1. q \in Boundaries(log')
    BY <1>2, Walk, Zenon
  <2> HIDE DEF q
  <2>2. QED
    BY <1>2, <1>7, <2>1, CodedBounds
<1>10. View(t, d, j)'
  <2>1. pc' \notin Enqueueing /\ pc' \notin {"send", "commit", "sync"}
    BY <1>1 DEF Enqueueing
  <2>2. d[j] = ReadFrom(Written)'
    BY <1>8, <1>9, Zenon
  <2>3. QED
    BY <1>1, <1>2, <1>3, <1>7, <1>9, <2>1, <2>2, Zenon DEF View
<1>11. j <= i \/ (j = i + 1 /\ i < Len(s) /\ s[i + 1] \in settled)
  <2>1. /\ j \in Nat /\ \A k \in 0 .. Len(t) : d[k] \in Nat
        /\ \A k \in 0 .. Len(t) : (k < j => d[k] < d[j]) /\ (j < k => d[j] < d[k])
    <3>1. Len(t) \in Nat /\ \A k \in 0 .. Len(t) : d[k] \in Nat
      BY <1>2, <1>7, CodedTypes, Zenon
    <3>2. \A k \in 0 .. Len(t) : (k < j => d[k] < d[j]) /\ (j < k => d[j] < d[k])
      BY <1>2, <1>7, Rising, Zenon
    <3>3. QED
      BY <3>1, <3>2
  <2>2. i \in 0 .. Len(t) /\ d[i] = g[i]
    BY <1>4, <1>7, Zenon
  <2>3. CASE ~open
    <3>1. pc # "sync"
      BY <1>0, <2>3 DEF Control
    <3>2. Written = log /\ log' = log
      BY <1>2, <3>1, Zenon DEF Written
    <3>3. g[i] = q
      BY <1>4, <2>3, <3>2, Zenon DEF ReadFrom
    <3> HIDE DEF q
    <3>4. d[i] = d[j]
      BY <1>9, <2>2, <3>3, Zenon
    <3>5. QED
      BY <1>5, <2>1, <2>2, <3>4
  <2>4. CASE open /\ ~(cursor > offset)
    <3>1. g[i] = offset
      BY <1>4, <2>4, Zenon
    <3>2. q <= offset
      BY <1>1, <2>4
    <3> HIDE DEF q
    <3>3. d[j] <= d[i]
      BY <1>9, <2>2, <3>1, <3>2, Zenon
    <3>4. QED
      BY <1>5, <2>1, <2>2, <3>3
  <2>5. CASE open /\ cursor > offset
    <3>1. i < Len(s) /\ cursor = g[i + 1] /\ s[i + 1] \in settled
      BY <1>4, <2>5, Zenon
    <3>2. i + 1 \in 0 .. Len(s)
      BY <1>5, <3>1
    <3>3. i + 1 \in 0 .. Len(t) /\ d[i + 1] = cursor
      BY <1>7, <3>1, <3>2, Zenon
    <3>4. CASE q = cursor
      <4> HIDE DEF q
      <4>1. d[j] = d[i + 1]
        BY <1>9, <3>3, <3>4, Zenon
      <4>2. j = i + 1
        BY <1>5, <2>1, <3>3, <4>1
      <4>3. QED
        BY <3>1, <4>2, Zenon
    <3>5. CASE q = 0
      <4> HIDE DEF q
      <4>1. d[j] = 0
        BY <1>9, <3>5, Zenon
      <4>2. ~(i < j)
        BY <2>1, <2>2, <4>1
      <4>3. QED
        BY <1>5, <2>1, <4>2
    <3>6. QED
      BY <3>4, <3>5, Zenon
  <2>6. QED
    BY <2>3, <2>4, <2>5, Zenon
<1>12. Items' = t /\ Passed' = j
  BY <1>2, <1>3, <1>10, ViewShowsNext, Zenon
<1>13. Queue!Restart
  <2>1. t = s \/ \E p \in Payload \ Queue!Range(s) : t = Append(s, p)
    <3>1. DOMAIN s = 1 .. Len(s)
      BY <1>3, <1>4, CodedTypes
    <3>2. QED
      BY <1>7, <3>1, Zenon DEF Queue!Range
  <2>2. Queue!Total(t) <= MaxBytes
    <3>1. Queue!Total(t) = d[Len(t)]
      BY <1>2, <1>7, CodedTotal, Zenon
    <3>2. d[Len(t)] \in Nat /\ d[Len(t)] <= Len(log')
      BY <1>2, <1>7, CodedTypes
    <3>3. QED
      BY <1>2, <1>3, <1>5, <3>1, <3>2
  <2>3. j \in 0 .. Len(s) /\ \A k \in i + 1 .. j : s[k] \in settled
    <3>1. j \in Nat
      BY <1>2, <1>7, <1>9, CodedTypes
    <3>2. i <= Len(s)
      BY <1>4, <1>5
    <3>3. j \in 0 .. Len(s) /\ \A k \in i + 1 .. j : k = i + 1 /\ ~(j <= i)
      BY <1>5, <1>11, <3>1, <3>2
    <3>4. QED
      BY <1>11, <3>3, Zenon
  <2>4. QED
    BY <1>1, <1>6, <1>12, <2>1, <2>2, <2>3, Zenon DEF Queue!Restart
<1>14. QED
  BY <1>10, <1>13, Zenon DEF Viewed

\* A start: the queue is as a restart found it.
LEMMA QueueOpen ==
  ASSUME Sound, NEW CONSTANT s, NEW CONSTANT g, NEW CONSTANT i, View(s, g, i), Open
  PROVE  View(s, g, i)' /\ UNCHANGED Queue!vars
<1> DEFINE end == Max(Boundaries(log))
           f == IF Torn(log, end) THEN SubSeq(log, 1, end) ELSE log
<1>1. /\ pc = "down" /\ pc' = "idle" /\ open' = TRUE /\ UNCHANGED settled
      /\ log' = f /\ disk' = f /\ cursor' = (IF cursor \in Boundaries(f) THEN cursor ELSE 0)
      /\ offset' = cursor'
  BY Zenon DEF Open, Goto, ghostVars
<1>2. log \in File /\ Len(log) \in Nat /\ Written = log /\ Written' = log' /\ ~open
  BY <1>1, Types DEF Written, Sound, Control
<1>3. Coded(log, s, g) /\ i \in 0 .. Len(s) /\ g[i] = ReadFrom(log)
  BY <1>2, Zenon DEF View
<1>4. end = g[Len(s)] /\ (Torn(log, end) <=> end # Len(log))
  BY <1>2, <1>3, CodedLast, CodedEnd, Zenon
<1> HIDE DEF end
<1>5. end \in Nat /\ end <= Len(log) /\ end \in 0 .. Len(log)
  <2>1. Len(s) \in 0 .. Len(s) /\ g[Len(s)] \in Nat /\ g[Len(s)] <= Len(log)
    BY <1>2, <1>3, CodedTypes
  <2>2. end \in Nat /\ end <= Len(log)
    BY <1>4, <2>1, Zenon
  <2>3. QED
    BY <1>2, <2>2
<1>6. f \in File /\ Len(f) = end /\ \A k \in 1 .. end : f[k] = log[k]
  <2>1. CASE end = Len(log)
    BY <1>2, <1>4, <2>1, Zenon
  <2>2. CASE end # Len(log)
    <3>1. f = SubSeq(log, 1, end)
      BY <1>4, <2>2, Zenon
    <3>2. QED
      BY <1>2, <1>5, <3>1, Cut, Zenon
  <2>3. QED
    BY <2>1, <2>2, Zenon
<1> HIDE DEF f
<1>7. Coded(f, s, g)
  <2>1. g[Len(s)] <= Len(f) /\ (\A k \in 1 .. g[Len(s)] : f[k] = log[k]) /\ g[Len(s)] = Len(f)
    <3>1. end <= end
      BY <1>5
    <3>2. QED
      BY <1>4, <1>6, <3>1, Zenon
  <2>2. QED
    BY <1>2, <1>3, <1>6, <2>1, Recoded, Zenon
<1>8. Boundaries(f) = Boundaries(log)
  <2>1. ASSUME NEW b \in Boundaries(f) PROVE b \in Boundaries(log)
    <3>1. PICK k \in 0 .. Len(s) : b = g[k]
      BY <1>6, <1>7, CodedBounds
    <3>2. g[k] \in Boundaries(log)
      BY <1>2, <1>3, CodedBounds
    <3>3. QED
      BY <3>1, <3>2, Zenon
  <2>2. ASSUME NEW b \in Boundaries(log) PROVE b \in Boundaries(f)
    <3>1. PICK k \in 0 .. Len(s) : b = g[k]
      BY <1>2, <1>3, CodedBounds
    <3>2. g[k] \in Boundaries(f)
      BY <1>6, <1>7, CodedBounds
    <3>3. QED
      BY <3>1, <3>2, Zenon
  <2>3. QED
    BY <2>1, <2>2, Zenon
<1>9. g[i] = offset' /\ cursor' = offset' /\ offset' \in Nat
  <2>1. g[i] = offset'
    BY <1>1, <1>3, <1>8, Zenon DEF ReadFrom
  <2>2. g[i] \in Nat
    BY <1>2, <1>3, CodedTypes, Zenon
  <2>3. QED
    BY <1>1, <2>1, <2>2, Zenon
<1>10. View(s, g, i)'
  <2>1. ~(cursor' > offset') /\ pc' \notin Enqueueing /\ pc' \notin {"send", "commit", "sync"}
    BY <1>1, <1>9 DEF Enqueueing
  <2>2. g[Len(s)] = Len(f)
    BY <1>4, <1>6, Zenon
  <2>3. QED
    BY <1>1, <1>2, <1>3, <1>7, <1>9, <2>1, <2>2, Zenon DEF View
<1>11. Items = s /\ Passed = i /\ Items' = s /\ Passed' = i
  BY <1>1, <1>2, <1>6, <1>10, ViewShows, ViewShowsNext, Zenon
<1>12. QED
  BY <1>1, <1>10, <1>11, Zenon DEF Queue!vars

\* The part of the invariant that is about the queue.
Mirrors == damage = 0 /\ errors <= 1 => Viewed

\* Initially, the queue is empty.
LEMMA MirrorsInit == Init => Mirrors /\ Queue!Init
<1> SUFFICES ASSUME Init PROVE Viewed /\ Queue!Init
  BY Zenon DEF Mirrors
<1>0. Sound
  BY SoundInit, Zenon
<1> DEFINE g == [k \in 0 .. 0 |-> 0]
<1>1. log = <<>> /\ disk = <<>> /\ pc = "down" /\ open = FALSE /\ cursor = -1 /\ settled = {}
  BY Zenon DEF Init, NoCursor
<1>2. Written = <<>> /\ <<>> \in Seq(Payload) /\ Len(<<>>) = 0 /\ <<>> \in File
  BY <1>1 DEF Written, File
<1>3. g \in [0 .. 0 -> 0 .. 0] /\ g[0] = 0 /\ 0 \in 0 .. 0 /\ \A k \in 0 .. 0 - 1 : FALSE
  OBVIOUS
<1> HIDE DEF g
<1>4. Coded(<<>>, <<>>, g)
  BY <1>2, <1>3, Zenon DEF Coded
<1>5. ReadFrom(<<>>) = 0
  <2>1. -1 \notin Boundaries(<<>>)
    <3>1. \A b \in Boundaries(<<>>) : b \in Nat
      BY <1>2, LastBoundary, Zenon
    <3>2. -1 \notin Nat
      OBVIOUS
    <3>3. QED
      BY <3>1, <3>2, Zenon
  <2>2. QED
    BY <1>1, <2>1, Zenon DEF ReadFrom
<1>6. View(<<>>, g, 0)
  <2>1. pc \notin Enqueueing /\ pc \notin {"send", "commit", "sync"}
    BY <1>1 DEF Enqueueing
  <2>2. QED
    BY <1>1, <1>2, <1>3, <1>4, <1>5, <2>1, Zenon DEF View
<1>7. Items = <<>> /\ Passed = 0
  BY <1>0, <1>6, ViewShows, Zenon
<1>8. QED
  BY <1>1, <1>6, <1>7, Zenon DEF Viewed, Queue!Init

\* Every step.
LEMMA MirrorsStep ==
  ASSUME Sound, Sound', Mirrors, [Next]_vars
  PROVE  Mirrors' /\ [damage' = 0 /\ errors' <= 1 => Queue!Next]_Queue!vars
<1>1. SUFFICES ASSUME damage' = 0, errors' <= 1
               PROVE  Viewed' /\ [Queue!Next]_Queue!vars
  BY Zenon DEF Mirrors
<1>2. ~Damage
  <2>1. damage \in Nat
    BY Types, Zenon DEF Sound
  <2>2. damage + 1 # 0
    BY <2>1
  <2>3. QED
    BY <1>1, <2>2, Zenon DEF Damage
<1>3. damage = 0 /\ errors <= 1
  <2>1. damage = 0
    BY <1>1, FaultsStay, Zenon
  <2>2. errors' = errors \/ errors' = errors + 1 \/ errors' = errors + 2
    BY Zenon DEF Next, LoopStep, FaultStep, Enqueue, Refuse, CompactCursor, Swap, Write, Sync, NextEnd,
       NextTorn, NextBroken, NextChecksum, NextRecord, Send, Commit, CommitInvalid, DrainStop, Open,
       CompactFails, SwapFails, SwapUnsynced, AppendFails, SyncFails, RecoveryFails, CommitFails,
       Close, Crash, Damage, Rollback, FileError, Errors, NoFault, Ended, boundVars, vars
  <2>3. errors \in Nat
    BY Types, Zenon DEF Sound
  <2>4. QED
    BY <1>1, <2>1, <2>2, <2>3
<1>4. PICK s, g, i : View(s, g, i)
  BY <1>3, Zenon DEF Mirrors, Viewed
<1>5. CASE Quiet
  BY <1>4, <1>5, ViewQuiet, QueueQuiet, Zenon DEF Viewed
<1>6. CASE Write \/ AppendFails \/ SyncFails
  <2>1. View(s, g, i)' /\ UNCHANGED Queue!vars
    BY <1>1, <1>4, <1>6, QueueAppend, Zenon
  <2>2. QED
    BY <2>1, Zenon DEF Viewed
<1>7. CASE Sync
  BY <1>4, <1>7, QueueSync, Zenon DEF Queue!Next
<1>8. CASE Commit
  BY <1>4, <1>8, QueueCommit, Zenon DEF Queue!Next
<1>9. CASE Swap \/ SwapUnsynced
  BY <1>4, <1>9, QueueSwap, Zenon DEF Queue!Next
<1>10. CASE Close \/ Crash
  BY <1>4, <1>10, QueueEnd, Zenon DEF Queue!Next
<1>11. CASE Open
  <2>1. View(s, g, i)' /\ UNCHANGED Queue!vars
    BY <1>4, <1>11, QueueOpen, Zenon
  <2>2. QED
    BY <2>1, Zenon DEF Viewed
<1>12. CASE NextTorn \/ NextBroken \/ NextChecksum \/ RecoveryFails
  BY <1>4, <1>12, NoRecovery, Zenon
<1>13. CASE (\E p \in Payload : Refuse(p)) \/ UNCHANGED vars
  <2>1. UNCHANGED vars
    BY <1>13, Zenon DEF Refuse
  <2>2. UNCHANGED <<log, disk, cursor, open, offset, pc, cur, next, settled>>
    BY <2>1 DEF vars, ghostVars
  <2>3. Written' = Written /\ ReadFrom(Written)' = ReadFrom(Written)
    BY <2>2 DEF Written, ReadFrom
  <2>4. View(s, g, i)'
    BY <1>4, <2>2, <2>3, Zenon DEF View
  <2>5. UNCHANGED Queue!vars
    BY <2>2, <2>3, Zenon DEF Queue!vars, Items, Passed
  <2>6. QED
    BY <2>4, <2>5, Zenon DEF Viewed
<1>14. QED
  BY <1>2, <1>5, <1>6, <1>7, <1>8, <1>9, <1>10, <1>11, <1>12, <1>13, Zenon
     DEF Next, LoopStep, FaultStep, Quiet

\* As long as no cell is damaged, and with one failing file operation, every step of the
\* spool is a step of the durable queue or none: items come out in the order in which they
\* went in, each is passed only once it is settled, a crash loses none that was stored and
\* skips none, and compaction drops the oldest, no more of them than it must.
THEOREM SpoolIsQueue == Spec => ImplementsQueue
<1>1. Spec => []Sound
  BY AlwaysSound
<1>2. Init => Mirrors /\ Queue!Init
  BY MirrorsInit
<1>3. Sound /\ Sound' /\ Mirrors /\ [Next]_vars
        => Mirrors' /\ [damage' = 0 /\ errors' <= 1 => Queue!Next]_Queue!vars
  BY MirrorsStep, Zenon
<1>4. QED
  BY <1>1, <1>2, <1>3, PTL DEF Spec, ImplementsQueue
=============================================================================
