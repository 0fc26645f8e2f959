------------------------- MODULE SourceStreamProofs -------------------------
(***************************************************************************)
(* Proofs about SourceStream, and with it RtcmParser and IoTRelay, for any *)
(* CRC, any streams cut anywhere, any clients and any bounds.              *)
(***************************************************************************)
EXTENDS SourceStream, FiniteSetTheorems, WellFoundedInduction, TLAPS

-----------------------------------------------------------------------------
(* One scan: where it goes on, and that its result is what the rest of the *)
(* stream would have been scanned with                                     *)

\* What is found from place i on, given by f what is found from later places on.
Nothing(b) == [frames |-> <<>>, errors |-> 0, rest |-> b]
Found(h, later) == [later EXCEPT !.frames = <<h>> \o @]
Refused(later) == [later EXCEPT !.errors = @ + 1]

Decide(b, skipped, found) ==
    IF b = <<>> THEN Nothing(b)
    ELSE IF b[1] # Preamble THEN skipped
    ELSE IF ~Whole(b) THEN Nothing(b)
    ELSE IF Good(HeadFrame(b)) THEN Found(HeadFrame(b), found)
    ELSE Refused(skipped)

Rest(s, i) == SubSeq(s, i, Len(s))

Scans(s, f) ==
    f = [i \in 1..(Len(s) + 1) |-> Decide(Rest(s, i), f[i + 1], f[i + FrameLength(Rest(s, i))])]

ScanFrom(s, f) ==
    f = [i \in 1..(Len(s) + 1) |->
          LET b == SubSeq(s, i, Len(s))
          IN  IF b = <<>>
                THEN [frames |-> <<>>, errors |-> 0, rest |-> b]
              ELSE IF b[1] # Preamble
                THEN f[i + 1]
              ELSE IF ~Whole(b)
                THEN [frames |-> <<>>, errors |-> 0, rest |-> b]
              ELSE IF Good(HeadFrame(b))
                THEN LET later == f[i + FrameLength(b)]
                     IN  [later EXCEPT !.frames = <<HeadFrame(b)>> \o @]
              ELSE LET later == f[i + Resume(b) - 1]
                   IN  [later EXCEPT !.errors = @ + 1]]

LEMMA ScanIs == \A s : Scan(s) = (CHOOSE f : ScanFrom(s, f))[1]
  BY Zenon DEF Scan, ScanFrom

LEMMA ScansFrom == ASSUME NEW s \in Seq(Byte), NEW f PROVE ScanFrom(s, f) <=> Scans(s, f)
<1>1. Len(s) \in Nat
  OBVIOUS
<1> DEFINE A(i) ==
          LET b == SubSeq(s, i, Len(s))
          IN  IF b = <<>>
                THEN [frames |-> <<>>, errors |-> 0, rest |-> b]
              ELSE IF b[1] # Preamble
                THEN f[i + 1]
              ELSE IF ~Whole(b)
                THEN [frames |-> <<>>, errors |-> 0, rest |-> b]
              ELSE IF Good(HeadFrame(b))
                THEN LET later == f[i + FrameLength(b)]
                     IN  [later EXCEPT !.frames = <<HeadFrame(b)>> \o @]
              ELSE LET later == f[i + Resume(b) - 1]
                   IN  [later EXCEPT !.errors = @ + 1]
           B(i) == Decide(Rest(s, i), f[i + 1], f[i + FrameLength(Rest(s, i))])
<1>2. ASSUME NEW i \in 1..(Len(s) + 1)
      PROVE  A(i) = B(i)
  <2>1. i + 2 - 1 = i + 1
    BY <1>1
  <2> QED BY <2>1 DEF Decide, Rest, Nothing, Found, Refused, Resume
<1>3. ScanFrom(s, f) <=> f = [i \in 1..(Len(s) + 1) |-> A(i)]
  BY Zenon DEF ScanFrom
<1>4. Scans(s, f) <=> f = [i \in 1..(Len(s) + 1) |-> B(i)]
  BY Zenon DEF Scans
<1> HIDE DEF A, B
<1>5. [i \in 1..(Len(s) + 1) |-> A(i)] = [i \in 1..(Len(s) + 1) |-> B(i)]
  BY <1>2, Zenon
<1> QED BY <1>3, <1>4, <1>5

LEMMA LeastOf ==
    ASSUME NEW S \in SUBSET Nat, S # {}
    PROVE  \E n \in S : \A m \in S : n <= m
<1> DEFINE R == OpToRel(<, Nat)
<1>1. \A x, y \in Nat : <<x, y>> \in R <=> x < y
  BY DEF OpToRel
<1>2. IsWellFoundedOn(R, Nat)
  BY NatLessThanWellFounded
<1> HIDE DEF R
<1>5. \E x \in S : \A y \in S : ~ (<<y, x>> \in R)
  BY <1>2, WFMin
<1>3. PICK x \in S : \A y \in S : ~ (<<y, x>> \in R)
  BY <1>5
<1>4. ASSUME NEW m \in S PROVE x <= m
  <2>1. x \in Nat /\ m \in Nat /\ ~ (<<m, x>> \in R)
    BY <1>3
  <2>2. ~ (m < x)
    BY <1>1, <2>1
  <2> QED BY <2>1, <2>2
<1> QED BY <1>4

\* Before a frame ends, three bytes of header and three of checksum have passed.
LEMMA WholeLength ==
    ASSUME NEW b \in Seq(Byte), Whole(b)
    PROVE  FrameLength(b) \in Nat /\ FrameLength(b) >= 6 /\ FrameLength(b) <= Len(b)
<1>1. Len(b) >= 3 /\ FrameLength(b) <= Len(b)
  BY DEF Whole, HeaderBytes
<1>2. b[2] \in Byte /\ b[3] \in Byte
  BY <1>1
<1> DEFINE x == b[2]
           y == b[3]
<1> HIDE DEF x, y
<1>3. x \in 0..255 /\ y \in 0..255
  BY <1>2 DEF Byte, x, y
<1>4. (x % 4) * 256 + y \in Nat
  BY <1>3
<1>5. FrameLength(b) = 3 + ((x % 4) * 256 + y) + 3
  BY DEF x, y, FrameLength, PayloadLength, HeaderBytes, CrcBytes
<1> QED BY <1>1, <1>4, <1>5

\* Only what the head calls for decides.
LEMMA DecideLocal ==
    ASSUME NEW b, NEW x, NEW y, NEW v, NEW w,
           b # <<>> => x = v,
           b # <<>> /\ Whole(b) => y = w
    PROVE  Decide(b, x, y) = Decide(b, v, w)
  BY DEF Decide

LEMMA RestType ==
    ASSUME NEW s \in Seq(Byte), NEW k \in 1..(Len(s) + 1)
    PROVE  /\ Rest(s, k) \in Seq(Byte) /\ Len(Rest(s, k)) = Len(s) + 1 - k
           /\ \A j \in 1..(Len(s) + 1 - k) : Rest(s, k)[j] = s[k + j - 1]
  BY DEF Rest

LEMMA RestOfRest ==
    ASSUME NEW s \in Seq(Byte), NEW k \in 1..(Len(s) + 1), NEW i \in 1..(Len(s) + 2 - k)
    PROVE  Rest(Rest(s, k), i) = Rest(s, k + i - 1)
<1> DEFINE u == Rest(s, k)
           a == Rest(u, i)
           b == Rest(s, k + i - 1)
<1>0. Len(s) \in Nat /\ k + i - 1 \in 1..(Len(s) + 1)
  OBVIOUS
<1>1. u \in Seq(Byte) /\ Len(u) = Len(s) + 1 - k
      /\ \A j \in 1..(Len(s) + 1 - k) : u[j] = s[k + j - 1]
  BY RestType
<1>2. b \in Seq(Byte) /\ Len(b) = Len(s) + 1 - (k + i - 1)
      /\ \A j \in 1..(Len(s) + 1 - (k + i - 1)) : b[j] = s[(k + i - 1) + j - 1]
  BY <1>0, RestType
<1> HIDE DEF u
<1>3. i \in 1..(Len(u) + 1)
  BY <1>0, <1>1
<1>4. a \in Seq(Byte) /\ Len(a) = Len(u) + 1 - i /\ \A j \in 1..(Len(u) + 1 - i) : a[j] = u[i + j - 1]
  BY <1>1, <1>3, RestType
<1> HIDE DEF a, b
<1>5. Len(a) = Len(b)
  BY <1>0, <1>1, <1>2, <1>4
<1>6. ASSUME NEW j \in 1..Len(a) PROVE a[j] = b[j]
  <2>1. i + j - 1 \in 1..(Len(s) + 1 - k) /\ j \in 1..(Len(u) + 1 - i)
        /\ j \in 1..(Len(s) + 1 - (k + i - 1))
    <3> DEFINE L == Len(s)
               U == Len(u)
               A == Len(a)
    <3>1. L \in Nat /\ k \in 1..(L + 1) /\ i \in 1..(L + 2 - k) /\ j \in 1..A
          /\ U = L + 1 - k /\ A = U + 1 - i
      BY <1>0, <1>1, <1>4
    <3> HIDE DEF L, U, A
    <3>2. j \in 1..(U + 1 - i) /\ i + j - 1 \in 1..(L + 1 - k) /\ j \in 1..(L + 1 - (k + i - 1))
      BY <3>1
    <3> QED BY <3>2 DEF L, U
  <2>2. a[j] = s[k + (i + j - 1) - 1]
    BY <1>1, <1>4, <2>1
  <2>3. k + (i + j - 1) - 1 = (k + i - 1) + j - 1
    BY <2>1
  <2> QED BY <1>2, <2>1, <2>2, <2>3
<1>7. a \in Seq(Byte) /\ b \in Seq(Byte)
  BY <1>2, <1>4
<1>8. a = b
  BY <1>5, <1>6, <1>7
<1> QED BY <1>8 DEF a, b, u

\* The places the scan goes on to.
LEMMA Places ==
    ASSUME NEW s \in Seq(Byte), NEW i \in 1..(Len(s) + 1)
    PROVE  /\ Rest(s, i) \in Seq(Byte)
           /\ Rest(s, i) # <<>> => i + 1 \in (i + 1)..(Len(s) + 1)
           /\ Rest(s, i) # <<>> /\ Whole(Rest(s, i)) =>
                 i + FrameLength(Rest(s, i)) \in (i + 1)..(Len(s) + 1)
<1> DEFINE b == Rest(s, i)
<1>1. b \in Seq(Byte) /\ Len(b) = Len(s) + 1 - i
  BY RestType
<1> HIDE DEF b
<1>2. b # <<>> => Len(b) >= 1
  BY <1>1
<1>3. Whole(b) => FrameLength(b) \in Nat /\ FrameLength(b) >= 6 /\ FrameLength(b) <= Len(b)
  BY <1>1, WholeLength
<1>4. /\ b \in Seq(Byte)
      /\ b # <<>> => i + 1 \in (i + 1)..(Len(s) + 1)
      /\ b # <<>> /\ Whole(b) => i + FrameLength(b) \in (i + 1)..(Len(s) + 1)
  BY <1>1, <1>2, <1>3
<1> QED BY <1>4 DEF b

\* A scan of the last n bytes.
Tails(s, n, f) ==
    f = [i \in (Len(s) + 1 - n)..(Len(s) + 1) |->
            Decide(Rest(s, i), f[i + 1], f[i + FrameLength(Rest(s, i))])]

LEMMA TailsAt ==
    ASSUME NEW s, NEW n, NEW f, Tails(s, n, f), NEW i \in (Len(s) + 1 - n)..(Len(s) + 1)
    PROVE  f[i] = Decide(Rest(s, i), f[i + 1], f[i + FrameLength(Rest(s, i))])
<1> DEFINE D(j) == Decide(Rest(s, j), f[j + 1], f[j + FrameLength(Rest(s, j))])
           I == (Len(s) + 1 - n)..(Len(s) + 1)
<1>1. f = [j \in I |-> D(j)]
  BY Zenon DEF Tails
<1>2. i \in I
  OBVIOUS
<1> HIDE DEF D, I
<1>3. f[i] = D(i)
  BY <1>1, <1>2
<1> QED BY <1>3 DEF D

LEMMA TailsExist ==
    ASSUME NEW s \in Seq(Byte)
    PROVE  \A n \in 0..Len(s) : \E f : Tails(s, n, f)
<1> DEFINE L == Len(s)
           Bad == {n \in 0..L : ~ \E f : Tails(s, n, f)}
<1> SUFFICES ASSUME Bad # {} PROVE FALSE
  OBVIOUS
<1>1. L \in Nat /\ Bad \in SUBSET Nat
  OBVIOUS
<1>2. PICK n \in Bad : \A m \in Bad : n <= m
  <2>1. \E n \in Bad : \A m \in Bad : n <= m
    <3> HIDE DEF Bad
    <3> QED BY <1>1, LeastOf
  <2> QED BY <2>1
<1>3. n \in 0..L /\ ~ \E f : Tails(s, n, f)
  BY <1>2
<1>4. \E f : n > 0 => Tails(s, n - 1, f)
  <2>1. CASE n = 0
    BY <2>1
  <2>2. CASE n > 0
    <3>1. n - 1 \in 0..L /\ ~ (n <= n - 1)
      BY <1>1, <1>3, <2>2
    <3>2. n - 1 \notin Bad
      <4> HIDE DEF Bad
      <4> QED BY <1>2, <3>1
    <3> QED BY <3>1, <3>2
  <2> QED BY <1>1, <1>3, <2>1, <2>2
<1>5. PICK f : n > 0 => Tails(s, n - 1, f)
  BY <1>4
<1> HIDE DEF Bad
<1> DEFINE p == L + 1 - n
           D(h, i) == Decide(Rest(s, i), h[i + 1], h[i + FrameLength(Rest(s, i))])
           F(i) == IF i = p THEN D(f, i) ELSE f[i]
           I == p..(L + 1)
           g == [i \in I |-> F(i)]
<1>6. \A i \in I : g[i] = F(i)
  <2> HIDE DEF F, I
  <2> QED OBVIOUS
<1>7. ASSUME NEW i \in I PROVE F(i) = D(g, i)
  <2>1. i \in 1..(L + 1) /\ i \in Int /\ p \in Int /\ i >= p /\ i <= L + 1
    BY <1>1, <1>3
  <2> DEFINE b == Rest(s, i)
  <2>2. /\ b # <<>> => i + 1 \in (i + 1)..(L + 1)
        /\ b # <<>> /\ Whole(b) => i + FrameLength(b) \in (i + 1)..(L + 1)
    BY <2>1, Places
  <2>3. ASSUME NEW j \in (i + 1)..(L + 1) PROVE g[j] = f[j]
    <3>1. j \in I /\ j # p
      BY <2>1
    <3> HIDE DEF g, I
    <3> QED BY <1>6, <3>1
  <2> HIDE DEF b, g
  <2>4. /\ b # <<>> => f[i + 1] = g[i + 1]
        /\ b # <<>> /\ Whole(b) => f[i + FrameLength(b)] = g[i + FrameLength(b)]
    BY <2>2, <2>3
  <2>5. Decide(b, f[i + 1], f[i + FrameLength(b)]) = Decide(b, g[i + 1], g[i + FrameLength(b)])
    BY <2>4, DecideLocal
  <2>6. D(f, i) = D(g, i)
    BY <2>5 DEF b
  <2>7. CASE i = p
    <3> HIDE DEF D
    <3> QED BY <2>6, <2>7
  <2>8. CASE i # p
    <3>1. n > 0 /\ i \in (Len(s) + 1 - (n - 1))..(Len(s) + 1)
      BY <1>1, <1>3, <2>1, <2>8
    <3>2. f[i] = Decide(Rest(s, i), f[i + 1], f[i + FrameLength(Rest(s, i))])
      <4>1. Tails(s, n - 1, f)
        BY <1>5, <3>1
      <4> DEFINE m == n - 1
      <4>2. Tails(s, m, f) /\ i \in (Len(s) + 1 - m)..(Len(s) + 1)
        BY <3>1, <4>1
      <4> HIDE DEF m
      <4> QED BY <4>2, TailsAt
    <3>3. f[i] = D(f, i)
      BY <3>2
    <3> HIDE DEF D
    <3> QED BY <2>6, <2>8, <3>3
  <2> QED BY <2>7, <2>8
<1>8. Tails(s, n, g)
  <2>1. g = [i \in (Len(s) + 1 - n)..(Len(s) + 1) |-> F(i)]
    OBVIOUS
  <2>2. \A i \in (Len(s) + 1 - n)..(Len(s) + 1) :
           F(i) = Decide(Rest(s, i), g[i + 1], g[i + FrameLength(Rest(s, i))])
    BY <1>7
  <2> DEFINE G(i) == Decide(Rest(s, i), g[i + 1], g[i + FrameLength(Rest(s, i))])
  <2>3. Tails(s, n, g) <=> g = [i \in (Len(s) + 1 - n)..(Len(s) + 1) |-> G(i)]
    <3> HIDE DEF g
    <3> QED BY Zenon DEF Tails
  <2>4. \A i \in (Len(s) + 1 - n)..(Len(s) + 1) : F(i) = G(i)
    BY <2>2
  <2> HIDE DEF F, G, g
  <2>5. [i \in (Len(s) + 1 - n)..(Len(s) + 1) |-> F(i)]
           = [i \in (Len(s) + 1 - n)..(Len(s) + 1) |-> G(i)]
    BY <2>4, Zenon
  <2> QED BY <2>1, <2>3, <2>5
<1> QED BY <1>3, <1>8

LEMMA ScansTails ==
    ASSUME NEW s \in Seq(Byte), NEW f
    PROVE  Scans(s, f) <=> Tails(s, Len(s), f)
<1>1. Len(s) + 1 - Len(s) = 1
  OBVIOUS
<1> QED BY <1>1, Zenon DEF Scans, Tails

LEMMA ScansExists ==
    ASSUME NEW s \in Seq(Byte)
    PROVE  \E f : Scans(s, f)
<1>1. Len(s) \in 0..Len(s)
  OBVIOUS
<1>2. \E f : Tails(s, Len(s), f)
  BY <1>1, TailsExist
<1> QED BY <1>2, ScansTails

LEMMA ScansAt ==
    ASSUME NEW s \in Seq(Byte), NEW f, Scans(s, f), NEW i \in 1..(Len(s) + 1)
    PROVE  f[i] = Decide(Rest(s, i), f[i + 1], f[i + FrameLength(Rest(s, i))])
<1>1. Tails(s, Len(s), f)
  BY ScansTails
<1> DEFINE n == Len(s)
<1>2. Tails(s, n, f) /\ i \in (Len(s) + 1 - n)..(Len(s) + 1)
  BY <1>1
<1> HIDE DEF n
<1> QED BY <1>2, TailsAt

LEMMA ScansOfRest ==
    ASSUME NEW s \in Seq(Byte), NEW f, Scans(s, f), NEW k \in 1..(Len(s) + 1),
           NEW g, Scans(Rest(s, k), g)
    PROVE  g[1] = f[k]
<1> DEFINE u == Rest(s, k)
           L == Len(u) + 1
           Same(n) == g[L - n] = f[L + k - 1 - n]
           Bad == {n \in 0..Len(u) : ~ Same(n)}
<1>1. u \in Seq(Byte) /\ Len(u) = Len(s) + 1 - k /\ Len(u) \in Nat /\ Len(s) \in Nat
  BY RestType
<1>2. Bad = {}
  <2> SUFFICES ASSUME Bad # {} PROVE FALSE
    OBVIOUS
  <2>1. Bad \in SUBSET Nat
    OBVIOUS
  <2>2. PICK n \in Bad : \A m \in Bad : n <= m
    <3>1. \E n \in Bad : \A m \in Bad : n <= m
      <4> HIDE DEF Bad
      <4> QED BY <2>1, LeastOf
    <3> QED BY <3>1
  <2>3. n \in 0..Len(u) /\ ~ Same(n)
    BY <2>2
  <2>4. ASSUME NEW m \in 0..Len(u), m < n PROVE Same(m)
    <3>1. ~ (n <= m)
      BY <1>1, <2>3, <2>4
    <3>2. m \notin Bad
      <4> HIDE DEF Bad
      <4> QED BY <2>2, <3>1
    <3> HIDE DEF Same
    <3> QED BY <3>2
  <2> HIDE DEF Bad
  <2> DEFINE i == L - n
             j == L + k - 1 - n
             b == Rest(u, i)
             d == FrameLength(b)
  <2>5. i \in 1..L /\ j \in 1..(Len(s) + 1) /\ i \in 1..(Len(s) + 2 - k) /\ j = k + i - 1 /\ i \in 1..(Len(u) + 1)
    <3> HIDE DEF u
    <3> QED BY <1>1, <2>3
  <2>6. Rest(s, j) = b
    <3> HIDE DEF i, j
    <3>1. Rest(Rest(s, k), i) = Rest(s, k + i - 1)
      BY <2>5, RestOfRest
    <3> QED BY <2>5, <3>1
  <2>7. g[i] = Decide(b, g[i + 1], g[i + d])
    <3> HIDE DEF i, u
    <3> QED BY <1>1, <2>5, ScansAt DEF u
  <2>8. f[j] = Decide(b, f[j + 1], f[j + d])
    <3> HIDE DEF j, b
    <3> QED BY <2>5, <2>6, ScansAt
  <2>9. /\ b # <<>> => i + 1 \in (i + 1)..L
        /\ b # <<>> /\ Whole(b) => i + d \in (i + 1)..L
    <3> HIDE DEF i, u
    <3> QED BY <1>1, <2>5, Places
  <2>10. ASSUME NEW e \in (i + 1)..L PROVE g[e] = f[e + k - 1]
    <3> DEFINE m == L - e
    <3>0. L \in Nat /\ n \in Nat
      <4> HIDE DEF u
      <4> QED BY <1>1, <2>3
    <3>1. m \in 0..Len(u) /\ m < n
      <4> HIDE DEF u, L
      <4>1. L = Len(u) + 1 BY DEF L
      <4> QED BY <1>1, <2>3, <2>10, <3>0, <4>1
    <3>2. Same(m)
      <4> HIDE DEF m, Same
      <4> QED BY <2>4, <3>1
    <3> HIDE DEF L
    <3>3. L - m = e /\ L + k - 1 - m = e + k - 1
      BY <3>0, <2>10
    <3> QED BY <3>2, <3>3
  <2>11. /\ b # <<>> => g[i + 1] = f[j + 1]
         /\ b # <<>> /\ Whole(b) => g[i + d] = f[j + d]
    <3> HIDE DEF b, d, i, j, L
    <3>1. b # <<>> => g[i + 1] = f[(i + 1) + k - 1]
      BY <2>9, <2>10
    <3>2. b # <<>> /\ Whole(b) => g[i + d] = f[(i + d) + k - 1]
      BY <2>9, <2>10
    <3>3. (i + 1) + k - 1 = j + 1
      BY <2>5
    <3>4. b # <<>> /\ Whole(b) => (i + d) + k - 1 = j + d
      <4>1. b # <<>> /\ Whole(b) => d \in Int
        <5>1. b \in Seq(Byte)
          <6> HIDE DEF u
          <6> QED BY <1>1, <2>5, RestType DEF b
        <5> QED BY <5>1, WholeLength DEF d
      <4> QED BY <2>5, <4>1
    <3> QED BY <3>1, <3>2, <3>3, <3>4
  <2>12. Decide(b, g[i + 1], g[i + d]) = Decide(b, f[j + 1], f[j + d])
    <3> HIDE DEF b, d, i, j
    <3> QED BY <2>11, DecideLocal
  <2>13. g[i] = f[j]
    <3> HIDE DEF b, d, i, j
    <3> QED BY <2>7, <2>8, <2>12
  <2> QED BY <2>3, <2>13
<1>3. Len(u) \in 0..Len(u) /\ L - Len(u) = 1 /\ L + k - 1 - Len(u) = k
  <2> HIDE DEF u
  <2> QED BY <1>1
<1>4. Same(Len(u))
  <2> HIDE DEF u, L, Same
  <2> QED BY <1>2, <1>3
<1> QED BY <1>3, <1>4

LEMMA ScanOf ==
    ASSUME NEW s \in Seq(Byte)
    PROVE  \E f : Scans(s, f) /\ Scan(s) = f[1]
<1>1. \E f : ScanFrom(s, f)
  BY ScansExists, ScansFrom
<1>2. ScanFrom(s, CHOOSE f : ScanFrom(s, f))
  BY Zenon, <1>1
<1>3. Scan(s) = (CHOOSE f : ScanFrom(s, f))[1]
  BY Zenon, ScanIs
<1> DEFINE g == CHOOSE f : ScanFrom(s, f)
<1>4. ScanFrom(s, g) /\ Scan(s) = g[1]
  BY <1>2, <1>3
<1> HIDE DEF g
<1> QED BY <1>4, ScansFrom

LEMMA ScanRest ==
    ASSUME NEW s \in Seq(Byte), NEW f, Scans(s, f), NEW k \in 1..(Len(s) + 1)
    PROVE  f[k] = Scan(Rest(s, k))
<1>1. Rest(s, k) \in Seq(Byte)
  BY RestType
<1>2. PICK g : Scans(Rest(s, k), g) /\ Scan(Rest(s, k)) = g[1]
  BY <1>1, ScanOf
<1> QED BY <1>2, ScansOfRest

\* What the scan does at the head of what is left.
LEMMA ScanStep ==
    ASSUME NEW s \in Seq(Byte)
    PROVE  Scan(s) = Decide(s, Scan(Rest(s, 2)), Scan(Rest(s, 1 + FrameLength(s))))
<1>1. PICK f : Scans(s, f) /\ Scan(s) = f[1]
  BY ScanOf
<1>2. 1 \in 1..(Len(s) + 1) /\ Len(s) \in Nat
  OBVIOUS
<1>3. Rest(s, 1) = s
  BY DEF Rest
<1>4. f[1] = Decide(s, f[1 + 1], f[1 + FrameLength(s)])
  BY <1>1, <1>2, <1>3, ScansAt
<1>5. s # <<>> => f[1 + 1] = Scan(Rest(s, 2))
  <2>1. s # <<>> => 2 \in 1..(Len(s) + 1) /\ 1 + 1 = 2
    BY <1>2
  <2> QED BY <1>1, <2>1, ScanRest
<1>6. s # <<>> /\ Whole(s) => f[1 + FrameLength(s)] = Scan(Rest(s, 1 + FrameLength(s)))
  <2>1. s # <<>> /\ Whole(s) => 1 + FrameLength(s) \in 1..(Len(s) + 1)
    BY <1>2, WholeLength
  <2> QED BY <1>1, <2>1, ScanRest
<1> QED BY <1>1, <1>4, <1>5, <1>6, DecideLocal

LEMMA ShortestSeq ==
    ASSUME NEW B \in SUBSET Seq(Byte), B # {}
    PROVE  \E s \in B : \A t \in Seq(Byte) : Len(t) < Len(s) => t \notin B
<1> DEFINE N == {Len(s) : s \in B}
<1>4. \A s \in B : Len(s) \in Nat
  OBVIOUS
<1>1. N \in SUBSET Nat /\ N # {}
  BY <1>4
<1>2. \E n \in N : \A m \in N : n <= m
  <2> HIDE DEF N
  <2> QED BY <1>1, LeastOf
<1>3. PICK s \in B : \A t \in B : Len(s) <= Len(t)
  BY <1>2
<1> QED BY <1>3

Result == [frames : Seq(Seq(Byte)), errors : Nat, rest : Seq(Byte)]

\* What the parser keeps is too short to be decided.
Undecided(b) == b = <<>> \/ (b[1] = Preamble /\ ~Whole(b))

ScanGood(s) ==
    /\ Scan(s) \in Result
    /\ Undecided(Scan(s).rest)

LEMMA NothingType ==
    ASSUME NEW b \in Seq(Byte)
    PROVE  Nothing(b) \in Result /\ Nothing(b).rest = b
  BY DEF Nothing, Result

LEMMA LaterType ==
    ASSUME NEW later \in Result, NEW h \in Seq(Byte)
    PROVE  /\ Found(h, later) = [frames |-> <<h>> \o later.frames, errors |-> later.errors,
                                 rest |-> later.rest]
           /\ Refused(later) = [frames |-> later.frames, errors |-> later.errors + 1,
                                rest |-> later.rest]
           /\ Found(h, later) \in Result /\ Found(h, later).rest = later.rest
           /\ Refused(later) \in Result /\ Refused(later).rest = later.rest
<1> DEFINE x == later.frames
           y == later.errors
           z == later.rest
           f == [frames |-> <<h>> \o x, errors |-> y, rest |-> z]
           g == [frames |-> x, errors |-> y + 1, rest |-> z]
<1>1. later = [frames |-> x, errors |-> y, rest |-> z]
  BY DEF Result
<1>2. x \in Seq(Seq(Byte)) /\ y \in Nat /\ z \in Seq(Byte)
  BY DEF Result
<1>3. <<h>> \o x \in Seq(Seq(Byte))
  <2>1. <<h>> \in Seq(Seq(Byte))
    OBVIOUS
  <2> DEFINE S == Seq(Byte)
  <2> HIDE DEF x, S
  <2> QED BY <1>2, <2>1
<1> HIDE DEF x, y, z
<1> DEFINE r == [frames |-> x, errors |-> y, rest |-> z]
<1>8. r.frames = x /\ [r EXCEPT !.frames = <<h>> \o r.frames] = f
  <2>1. r.frames = x
    OBVIOUS
  <2> DEFINE hx == <<h>> \o x
  <2> HIDE DEF hx
  <2>2. [r EXCEPT !.frames = hx] = [frames |-> hx, errors |-> y, rest |-> z]
    OBVIOUS
  <2> HIDE DEF r
  <2> QED BY <2>1, <2>2 DEF hx
<1>4. Found(h, later) = f
  <2> HIDE DEF f
  <2>1. Found(h, later) = [later EXCEPT !.frames = <<h>> \o later.frames]
    BY DEF Found
  <2> QED BY <1>1, <1>8, <2>1
<1>5. Refused(later) = g
  BY <1>1 DEF Refused
<1> HIDE DEF r
<1>6. f \in Result /\ f.rest = z /\ g \in Result /\ g.rest = z
  BY <1>2, <1>3 DEF Result
<1> HIDE DEF f, g
<1>7. /\ Found(h, later) \in Result /\ Found(h, later).rest = z
      /\ Refused(later) \in Result /\ Refused(later).rest = z
  BY <1>4, <1>5, <1>6
<1> QED BY <1>4, <1>5, <1>7 DEF x, y, z, f, g

\* A shorter scan follows whatever the head of s is.
LEMMA Shorter ==
    ASSUME NEW s \in Seq(Byte), s # <<>>
    PROVE  /\ Rest(s, 2) \in Seq(Byte) /\ Len(Rest(s, 2)) < Len(s)
           /\ Whole(s) => /\ Rest(s, 1 + FrameLength(s)) \in Seq(Byte)
                          /\ Len(Rest(s, 1 + FrameLength(s))) < Len(s)
                          /\ HeadFrame(s) \in Seq(Byte)
<1>1. Len(s) \in Nat /\ Len(s) >= 1 /\ 2 \in 1..(Len(s) + 1)
  OBVIOUS
<1>2. Rest(s, 2) \in Seq(Byte) /\ Len(Rest(s, 2)) = Len(s) + 1 - 2
  BY <1>1, RestType
<1>3. ASSUME Whole(s)
      PROVE  /\ Rest(s, 1 + FrameLength(s)) \in Seq(Byte)
             /\ Len(Rest(s, 1 + FrameLength(s))) < Len(s)
             /\ HeadFrame(s) \in Seq(Byte)
  <2>1. FrameLength(s) \in Nat /\ FrameLength(s) >= 6 /\ FrameLength(s) <= Len(s)
    BY <1>3, WholeLength
  <2>2. 1 + FrameLength(s) \in 1..(Len(s) + 1)
    BY <1>1, <2>1
  <2>3. /\ Rest(s, 1 + FrameLength(s)) \in Seq(Byte)
        /\ Len(Rest(s, 1 + FrameLength(s))) = Len(s) + 1 - (1 + FrameLength(s))
    BY <2>2, RestType
  <2>4. HeadFrame(s) \in Seq(Byte)
    BY <2>1 DEF HeadFrame
  <2> QED BY <1>1, <2>1, <2>3, <2>4
<1> QED BY <1>1, <1>2, <1>3

LEMMA ScanType == \A s \in Seq(Byte) : ScanGood(s)
<1> DEFINE B == {s \in Seq(Byte) : ~ ScanGood(s)}
<1> SUFFICES ASSUME B # {} PROVE FALSE
  OBVIOUS
<1>1. PICK s \in B : \A t \in Seq(Byte) : Len(t) < Len(s) => t \notin B
  <2>1. B \in SUBSET Seq(Byte)
    OBVIOUS
  <2> HIDE DEF B
  <2> QED BY <2>1, ShortestSeq
<1>2. s \in Seq(Byte) /\ ~ ScanGood(s) /\ \A t \in Seq(Byte) : Len(t) < Len(s) => ScanGood(t)
  BY <1>1
<1> HIDE DEF B
<1> DEFINE skipped == Scan(Rest(s, 2))
           found == Scan(Rest(s, 1 + FrameLength(s)))
<1>3. Scan(s) = Decide(s, skipped, found)
  BY <1>2, ScanStep
<1>4. s # <<>> => skipped \in Result /\ Undecided(skipped.rest)
  BY <1>2, Shorter DEF ScanGood
<1>5. s # <<>> /\ Whole(s) => found \in Result /\ Undecided(found.rest) /\ HeadFrame(s) \in Seq(Byte)
  BY <1>2, Shorter DEF ScanGood
<1> HIDE DEF skipped, found
<1>6. CASE s = <<>> \/ (s[1] = Preamble /\ ~Whole(s))
  BY <1>2, <1>3, <1>6, NothingType DEF Decide, ScanGood, Undecided
<1>7. CASE s # <<>> /\ s[1] # Preamble
  BY <1>2, <1>3, <1>4, <1>7 DEF Decide, ScanGood
<1>8. CASE s # <<>> /\ s[1] = Preamble /\ Whole(s) /\ Good(HeadFrame(s))
  <2>1. Scan(s) = Found(HeadFrame(s), found)
    BY <1>3, <1>8 DEF Decide
  <2>2. Found(HeadFrame(s), found) \in Result /\ Found(HeadFrame(s), found).rest = found.rest
    BY <1>5, <1>8, LaterType
  <2> QED BY <1>2, <1>5, <1>8, <2>1, <2>2 DEF ScanGood
<1>9. CASE s # <<>> /\ s[1] = Preamble /\ Whole(s) /\ ~ Good(HeadFrame(s))
  <2>1. Scan(s) = Refused(skipped)
    BY <1>3, <1>9 DEF Decide
  <2>2. Refused(skipped) \in Result /\ Refused(skipped).rest = skipped.rest
    BY <1>4, <1>5, <1>9, LaterType
  <2> QED BY <1>2, <1>4, <1>9, <2>1, <2>2 DEF ScanGood
<1> QED BY <1>6, <1>7, <1>8, <1>9

\* One scan after another.
Joined(a, b) == [frames |-> a.frames \o b.frames, errors |-> a.errors + b.errors, rest |-> b.rest]

LEMMA JoinedFacts ==
    ASSUME NEW a \in Result, NEW b \in Result, NEW h \in Seq(Byte), NEW c \in Seq(Byte)
    PROVE  /\ Joined(Nothing(c), b) = b
           /\ Joined(Found(h, a), b) = Found(h, Joined(a, b))
           /\ Joined(Refused(a), b) = Refused(Joined(a, b))
           /\ Joined(a, b) \in Result
<1>1. a.frames \in Seq(Seq(Byte)) /\ b.frames \in Seq(Seq(Byte)) /\ a.errors \in Nat /\ b.errors \in Nat
  BY DEF Result
<1>2. Joined(a, b) \in Result
  BY <1>1 DEF Joined, Result
<1>3. Joined(Nothing(c), b) = b
  <2>1. <<>> \o b.frames = b.frames /\ 0 + b.errors = b.errors
    BY <1>1
  <2> QED BY <2>1 DEF Joined, Nothing, Result
<1>4. Joined(Found(h, a), b) = Found(h, Joined(a, b))
  <2> DEFINE x == a.frames  y == b.frames
  <2>1. (<<h>> \o x) \o y = <<h>> \o (x \o y)
    <3>1. x \in Seq(Seq(Byte)) /\ y \in Seq(Seq(Byte)) /\ <<h>> \in Seq(Seq(Byte))
      BY <1>1
    <3> DEFINE S == Seq(Byte)
    <3> HIDE DEF x, y, S
    <3> QED BY <3>1
  <2>2. Found(h, a) = [frames |-> <<h>> \o a.frames, errors |-> a.errors, rest |-> a.rest]
    BY LaterType
  <2>3. Found(h, Joined(a, b)) = [frames |-> <<h>> \o Joined(a, b).frames,
                                  errors |-> Joined(a, b).errors, rest |-> Joined(a, b).rest]
    BY <1>2, LaterType
  <2>4. Joined(Found(h, a), b) = [frames |-> (<<h>> \o x) \o y, errors |-> a.errors + b.errors,
                                  rest |-> b.rest]
    BY <2>2 DEF Joined
  <2>5. Found(h, Joined(a, b)) = [frames |-> <<h>> \o (x \o y), errors |-> a.errors + b.errors,
                                  rest |-> b.rest]
    BY <2>3 DEF Joined
  <2> QED BY <2>1, <2>4, <2>5
<1>5. Joined(Refused(a), b) = Refused(Joined(a, b))
  <2>1. Refused(a) = [frames |-> a.frames, errors |-> a.errors + 1, rest |-> a.rest]
    BY LaterType
  <2>2. Refused(Joined(a, b)) = [frames |-> Joined(a, b).frames,
                                 errors |-> Joined(a, b).errors + 1, rest |-> Joined(a, b).rest]
    BY <1>2, LaterType
  <2>3. (a.errors + 1) + b.errors = (a.errors + b.errors) + 1
    BY <1>1
  <2>4. Joined(Refused(a), b) = [frames |-> a.frames \o b.frames,
                                 errors |-> (a.errors + 1) + b.errors, rest |-> b.rest]
    BY <2>1 DEF Joined
  <2>5. Refused(Joined(a, b)) = [frames |-> a.frames \o b.frames,
                                 errors |-> (a.errors + b.errors) + 1, rest |-> b.rest]
    BY <2>2 DEF Joined
  <2> QED BY <2>3, <2>4, <2>5
<1> QED BY <1>2, <1>3, <1>4, <1>5

LEMMA Concatenated ==
    ASSUME NEW S, NEW b \in Seq(S), NEW t \in Seq(S)
    PROVE  /\ b \o t \in Seq(S) /\ Len(b \o t) = Len(b) + Len(t)
           /\ \A j \in 1..(Len(b) + Len(t)) :
                 (b \o t)[j] = IF j <= Len(b) THEN b[j] ELSE t[j - Len(b)]
  OBVIOUS

\* What more bytes leave as it is.
LEMMA Extended ==
    ASSUME NEW s \in Seq(Byte), NEW t \in Seq(Byte), s # <<>>
    PROVE  /\ s \o t \in Seq(Byte) /\ s \o t # <<>> /\ (s \o t)[1] = s[1]
           /\ Rest(s \o t, 2) = Rest(s, 2) \o t
           /\ Whole(s) => /\ Whole(s \o t) /\ FrameLength(s \o t) = FrameLength(s)
                          /\ HeadFrame(s \o t) = HeadFrame(s)
                          /\ Rest(s \o t, 1 + FrameLength(s)) = Rest(s, 1 + FrameLength(s)) \o t
<1> DEFINE u == s \o t
<1>1. /\ u \in Seq(Byte) /\ Len(u) = Len(s) + Len(t) /\ Len(s) \in Nat /\ Len(t) \in Nat /\ Len(s) >= 1
      /\ \A i \in 1..Len(s) : u[i] = s[i]
      /\ \A i \in 1..Len(t) : u[Len(s) + i] = t[i]
  OBVIOUS
<1>2. ASSUME NEW k \in 1..(Len(s) + 1)
      PROVE  Rest(u, k) = Rest(s, k) \o t
  <2> DEFINE a == Rest(u, k)
             b == Rest(s, k)
  <2>1. a \in Seq(Byte) /\ Len(a) = Len(u) + 1 - k /\ \A j \in 1..(Len(u) + 1 - k) : a[j] = u[k + j - 1]
    <3>1. k \in 1..(Len(u) + 1)
      BY <1>1
    <3> HIDE DEF u
    <3> QED BY <1>1, <3>1, RestType
  <2>2. b \in Seq(Byte) /\ Len(b) = Len(s) + 1 - k /\ \A j \in 1..(Len(s) + 1 - k) : b[j] = s[k + j - 1]
    BY RestType
  <2> HIDE DEF a, b, u
  <2> DEFINE c == b \o t
  <2>3. /\ c \in Seq(Byte) /\ Len(c) = Len(b) + Len(t)
        /\ \A j \in 1..(Len(b) + Len(t)) : c[j] = IF j <= Len(b) THEN b[j] ELSE t[j - Len(b)]
    BY <2>2, Concatenated
  <2> HIDE DEF c
  <2>4. Len(a) = Len(c)
    BY <1>1, <2>1, <2>2, <2>3
  <2>5. ASSUME NEW j \in 1..Len(a)
        PROVE  a[j] = c[j]
    <3>1. a[j] = u[k + j - 1] /\ j \in 1..(Len(b) + Len(t))
      BY <1>1, <2>1, <2>3, <2>4
    <3>2. CASE j <= Len(b)
      <4>1. c[j] = b[j] /\ b[j] = s[k + j - 1] /\ k + j - 1 \in 1..Len(s)
        BY <1>1, <2>2, <2>3, <3>1, <3>2
      <4> QED BY <1>1, <3>1, <4>1
    <3>3. CASE j > Len(b)
      <4> DEFINE m == j - Len(b)
      <4>1. m \in 1..Len(t) /\ k + j - 1 = Len(s) + m
        BY <1>1, <2>2, <3>1, <3>3
      <4>2. c[j] = t[m]
        BY <1>1, <2>2, <2>3, <3>1, <3>3
      <4> HIDE DEF m
      <4> QED BY <1>1, <3>1, <4>1, <4>2
    <3> QED BY <1>1, <2>2, <3>1, <3>2, <3>3
  <2>6. a = c
    BY <2>1, <2>3, <2>4, <2>5
  <2> QED BY <2>6 DEF a, b, c
<1>3. ASSUME Whole(s)
      PROVE  /\ Whole(u) /\ FrameLength(u) = FrameLength(s)
             /\ HeadFrame(u) = HeadFrame(s)
             /\ 1 + FrameLength(s) \in 1..(Len(s) + 1)
  <2>1. Len(s) >= 3 /\ FrameLength(s) \in Nat /\ FrameLength(s) >= 6 /\ FrameLength(s) <= Len(s)
    BY <1>3, WholeLength DEF Whole, HeaderBytes
  <2>2. u[2] = s[2] /\ u[3] = s[3]
    BY <1>1, <2>1
  <2> HIDE DEF u
  <2>3. FrameLength(u) = FrameLength(s)
    BY <2>2 DEF FrameLength, PayloadLength
  <2>4. Whole(u)
    BY <1>1, <2>1, <2>3 DEF Whole, HeaderBytes
  <2>5. HeadFrame(u) = HeadFrame(s)
    <3> DEFINE n == FrameLength(s)
    <3>1. HeadFrame(u) = SubSeq(u, 1, n) /\ HeadFrame(s) = SubSeq(s, 1, n)
      BY <2>3 DEF HeadFrame
    <3>2. n \in Nat /\ n <= Len(s) /\ n <= Len(u)
      BY <1>1, <2>1
    <3> HIDE DEF n
    <3> QED BY <1>1, <3>1, <3>2
  <2> QED BY <2>1, <2>3, <2>4, <2>5
<1>4. 2 \in 1..(Len(s) + 1) /\ u # <<>> /\ u[1] = s[1]
  <2>1. Len(u) >= 1
    <3> HIDE DEF u
    <3> QED BY <1>1
  <2> HIDE DEF u
  <2> QED BY <1>1, <2>1
<1>5. Rest(u, 2) = Rest(s, 2) \o t
  BY <1>2, <1>4
<1>6. Whole(s) => Rest(u, 1 + FrameLength(s)) = Rest(s, 1 + FrameLength(s)) \o t
  BY <1>2, <1>3
<1> HIDE DEF u
<1>7. u \in Seq(Byte) /\ u # <<>> /\ u[1] = s[1]
  BY <1>1, <1>4
<1> QED BY <1>3, <1>5, <1>6, <1>7 DEF u

\* A stream scanned in two parts, the second with what the first left, gives
\* what one scan of it gives.
LEMMA ScanSplit ==
    ASSUME NEW t \in Seq(Byte), NEW s0 \in Seq(Byte)
    PROVE  Scan(s0 \o t) = Joined(Scan(s0), Scan(Scan(s0).rest \o t))
<1> DEFINE Splits(s) == Scan(s \o t) = Joined(Scan(s), Scan(Scan(s).rest \o t))
           B == {s \in Seq(Byte) : ~ Splits(s)}
<1> SUFFICES ASSUME B # {} PROVE FALSE
  OBVIOUS
<1>1. PICK s \in B : \A u \in Seq(Byte) : Len(u) < Len(s) => u \notin B
  <2>1. B \in SUBSET Seq(Byte)
    OBVIOUS
  <2> HIDE DEF B
  <2> QED BY <2>1, ShortestSeq
<1>2. s \in Seq(Byte) /\ ~ Splits(s) /\ \A u \in Seq(Byte) : Len(u) < Len(s) => Splits(u)
  BY <1>1
<1> HIDE DEF B
<1> DEFINE v == Rest(s, 2)
           w == Rest(s, 1 + FrameLength(s))
<1>3. Scan(s) = Decide(s, Scan(v), Scan(w))
  BY <1>2, ScanStep
<1>4. CASE s = <<>> \/ (s[1] = Preamble /\ ~Whole(s))
  <2>0. Scan(s) = Nothing(s)
    BY <1>3, <1>4 DEF Decide
  <2>1. Scan(s) = Nothing(s) /\ Nothing(s).rest = s
    BY <1>2, <2>0, Zenon, NothingType
  <2>2. s \o t \in Seq(Byte)
    BY <1>2, Concatenated
  <2>4. Scan(s \o t) \in Result
    BY <2>2, ScanType DEF ScanGood
  <2>3. Joined(Nothing(s), Scan(s \o t)) = Scan(s \o t)
    BY <1>2, <2>4, Zenon, JoinedFacts
  <2> QED BY <1>2, <2>1, <2>3
<1>5. ASSUME s # <<>>
      PROVE  /\ v \in Seq(Byte) /\ Splits(v) /\ Scan(v) \in Result
             /\ Scan(v).rest \in Seq(Byte) /\ Scan(Scan(v).rest \o t) \in Result
             /\ Scan(s \o t) = Decide(s \o t, Scan(v \o t), Scan(Rest(s \o t, 1 + FrameLength(s \o t))))
  <2>1. v \in Seq(Byte) /\ Splits(v)
    BY <1>2, <1>5, Shorter
  <2>2. Scan(v) \in Result /\ Scan(v).rest \in Seq(Byte)
    BY <2>1, ScanType DEF ScanGood, Result
  <2>3. Scan(v).rest \o t \in Seq(Byte)
    BY <2>2
  <2>4. Scan(Scan(v).rest \o t) \in Result
    BY <2>3, ScanType DEF ScanGood
  <2>5. s \o t \in Seq(Byte) /\ Rest(s \o t, 2) = v \o t
    BY <1>2, <1>5, Extended
  <2>6. Scan(s \o t) = Decide(s \o t, Scan(v \o t), Scan(Rest(s \o t, 1 + FrameLength(s \o t))))
    BY <2>5, ScanStep
  <2> QED BY <2>1, <2>2, <2>4, <2>6
<1>6. ASSUME s # <<>>, Whole(s)
      PROVE  /\ w \in Seq(Byte) /\ Splits(w) /\ Scan(w) \in Result
             /\ Scan(Scan(w).rest \o t) \in Result /\ HeadFrame(s) \in Seq(Byte)
             /\ Scan(s \o t) = Decide(s \o t, Scan(v \o t), Scan(w \o t))
             /\ Whole(s \o t) /\ HeadFrame(s \o t) = HeadFrame(s)
  <2>1. w \in Seq(Byte) /\ Splits(w) /\ HeadFrame(s) \in Seq(Byte)
    BY <1>2, <1>6, Shorter
  <2>2. Scan(w) \in Result /\ Scan(w).rest \in Seq(Byte)
    BY <2>1, ScanType DEF ScanGood, Result
  <2>3. Scan(w).rest \o t \in Seq(Byte)
    BY <2>2
  <2>4. Scan(Scan(w).rest \o t) \in Result
    BY <2>3, ScanType DEF ScanGood
  <2>6. s \in Seq(Byte) /\ s # <<>> /\ Whole(s)
    BY <1>2, <1>6
  <2>7. /\ Whole(s \o t) /\ FrameLength(s \o t) = FrameLength(s) /\ HeadFrame(s \o t) = HeadFrame(s)
        /\ Rest(s \o t, 1 + FrameLength(s)) = w \o t
    BY <2>6, Zenon, Extended
  <2>5. /\ Whole(s \o t) /\ HeadFrame(s \o t) = HeadFrame(s)
        /\ Rest(s \o t, 1 + FrameLength(s \o t)) = w \o t
    BY <2>7, Zenon
  <2> QED BY <1>5, <1>6, <2>1, <2>2, <2>4, <2>5
<1>7. s # <<>> => s \o t # <<>> /\ (s \o t)[1] = s[1]
  BY <1>2, Extended
<1> HIDE DEF v, w
<1>8. CASE s # <<>> /\ s[1] # Preamble
  <2>1. Scan(s) = Scan(v) /\ Scan(s \o t) = Scan(v \o t)
    BY <1>3, <1>5, <1>7, <1>8 DEF Decide
  <2> QED BY <1>2, <1>5, <1>8, <2>1
<1>9. CASE s # <<>> /\ s[1] = Preamble /\ Whole(s) /\ Good(HeadFrame(s))
  <2>1. Scan(s) = Found(HeadFrame(s), Scan(w)) /\ Scan(s \o t) = Found(HeadFrame(s), Scan(w \o t))
    BY <1>3, <1>6, <1>7, <1>9 DEF Decide
  <2>4. Found(HeadFrame(s), Scan(w)).rest = Scan(w).rest
    BY <1>6, <1>9, LaterType
  <2>2. Scan(s).rest = Scan(w).rest
    BY <2>1, <2>4
  <2>3. Joined(Found(HeadFrame(s), Scan(w)), Scan(Scan(w).rest \o t))
           = Found(HeadFrame(s), Joined(Scan(w), Scan(Scan(w).rest \o t)))
    BY <1>6, <1>9, JoinedFacts
  <2>5. Scan(w \o t) = Joined(Scan(w), Scan(Scan(w).rest \o t))
    BY <1>6, <1>9
  <2>6. Scan(s \o t) = Joined(Scan(s), Scan(Scan(s).rest \o t))
    BY <2>1, <2>2, <2>3, <2>5
  <2> QED BY <1>2, <2>6
<1>10. CASE s # <<>> /\ s[1] = Preamble /\ Whole(s) /\ ~ Good(HeadFrame(s))
  <2>1. Scan(s) = Refused(Scan(v)) /\ Scan(s \o t) = Refused(Scan(v \o t))
    BY <1>3, <1>5, <1>6, <1>7, <1>10 DEF Decide
  <2>4. Refused(Scan(v)).rest = Scan(v).rest
    BY <1>5, <1>6, <1>10, LaterType
  <2>2. Scan(s).rest = Scan(v).rest
    BY <2>1, <2>4
  <2>3. Joined(Refused(Scan(v)), Scan(Scan(v).rest \o t))
           = Refused(Joined(Scan(v), Scan(Scan(v).rest \o t)))
    BY <1>5, <1>6, <1>10, JoinedFacts
  <2>5. Scan(v \o t) = Joined(Scan(v), Scan(Scan(v).rest \o t))
    BY <1>5, <1>10
  <2>6. Scan(s \o t) = Joined(Scan(s), Scan(Scan(s).rest \o t))
    BY <2>1, <2>2, <2>3, <2>5
  <2> QED BY <1>2, <2>6
<1> QED BY <1>4, <1>8, <1>9, <1>10

-----------------------------------------------------------------------------
(* The read loop: what the parser found is what one scan would find *)

StreamType ==
    /\ source \in BOOLEAN /\ sources \in 0..MaxSources
    /\ input \in Seq(Byte) /\ pos \in 0..Len(input)
    /\ errors \in Nat /\ crcErrors \in Nat
    /\ emitted \in Seq(Seq(Byte)) /\ begun \in 0..Len(emitted)
    /\ frames = Len(emitted)

ParserInv == StreamType /\ ChunkingIrrelevant

LEMMA ScanNothing == Scan(<<>>) = Nothing(<<>>)
<1>1. <<>> \in Seq(Byte)
  OBVIOUS
<1> QED BY <1>1, ScanStep DEF Decide

LEMMA ScanFields ==
    ASSUME NEW s \in Seq(Byte)
    PROVE  /\ Scan(s).frames \in Seq(Seq(Byte)) /\ Scan(s).errors \in Nat
           /\ Scan(s).rest \in Seq(Byte) /\ Undecided(Scan(s).rest)
  BY ScanType DEF ScanGood, Result

\* Nothing was read yet.
LEMMA FreshParser ==
    ASSUME input' \in Seq(Byte), pos' = 0, errors' = 0, buffer' = <<>>,
           emitted' \in Seq(Seq(Byte)), begun' = Len(emitted')
    PROVE  ChunkingIrrelevant'
<1>1. Received' = <<>>
  BY DEF Received
<1>2. SubSeq(emitted', begun' + 1, Len(emitted')) = <<>>
  <2> DEFINE S == Seq(Byte)
  <2> HIDE DEF S
  <2> QED OBVIOUS
<1>3. ChunkingIrrelevant' <=>
        /\ SubSeq(emitted', begun' + 1, Len(emitted')) = Scan(Received').frames
        /\ errors' = Scan(Received').errors
        /\ buffer' = Scan(Received').rest
  BY DEF ChunkingIrrelevant
<1>4. Scan(Received').frames = <<>> /\ Scan(Received').errors = 0 /\ Scan(Received').rest = <<>>
  BY <1>1, ScanNothing DEF Nothing
<1> QED BY <1>2, <1>3, <1>4

LEMMA SubSeqJoin ==
    ASSUME NEW S, NEW s \in Seq(S), NEW i \in 0..Len(s), NEW n \in Nat, i + n <= Len(s)
    PROVE  /\ SubSeq(s, 1, i) \in Seq(S) /\ SubSeq(s, i + 1, i + n) \in Seq(S)
           /\ SubSeq(s, 1, i + n) = SubSeq(s, 1, i) \o SubSeq(s, i + 1, i + n)
<1> DEFINE a == SubSeq(s, 1, i)
           b == SubSeq(s, i + 1, i + n)
           c == SubSeq(s, 1, i + n)
<1>1. a \in Seq(S) /\ Len(a) = i /\ \A j \in 1..i : a[j] = s[j]
  OBVIOUS
<1>2. b \in Seq(S) /\ Len(b) = n /\ \A j \in 1..n : b[j] = s[i + j]
  OBVIOUS
<1>3. c \in Seq(S) /\ Len(c) = i + n /\ \A j \in 1..(i + n) : c[j] = s[j]
  OBVIOUS
<1> HIDE DEF a, b, c
<1> DEFINE d == a \o b
<1>4. d \in Seq(S) /\ Len(d) = i + n
      /\ \A j \in 1..(i + n) : d[j] = IF j <= i THEN a[j] ELSE b[j - i]
  BY <1>1, <1>2, Concatenated
<1> HIDE DEF d
<1>5. ASSUME NEW j \in 1..(i + n)
      PROVE  c[j] = d[j]
  <2>1. CASE j <= i
    BY <1>1, <1>3, <1>4, <2>1
  <2>2. CASE j > i
    <3>1. j - i \in 1..n /\ i + (j - i) = j
      BY <2>2
    <3>2. b[j - i] = s[i + (j - i)]
      BY <1>2, <3>1
    <3> QED BY <1>3, <1>4, <2>2, <3>1, <3>2
  <2> QED BY <2>1, <2>2
<1>6. c = d
  BY <1>3, <1>4, <1>5
<1> QED BY <1>1, <1>2, <1>6 DEF a, b, c, d

Since(e, b) == SubSeq(e, b + 1, Len(e))

LEMMA SinceJoin ==
    ASSUME NEW S, NEW e \in Seq(S), NEW b \in 0..Len(e), NEW f \in Seq(S)
    PROVE  /\ e \o f \in Seq(S) /\ Len(e \o f) = Len(e) + Len(f)
           /\ Since(e \o f, b) = Since(e, b) \o f
<1> DEFINE a == e \o f
           x == SubSeq(a, b + 1, Len(a))
           y == SubSeq(e, b + 1, Len(e))
           z == y \o f
<1>1. a \in Seq(S) /\ Len(a) = Len(e) + Len(f)
      /\ \A j \in 1..(Len(e) + Len(f)) : a[j] = IF j <= Len(e) THEN e[j] ELSE f[j - Len(e)]
  BY Concatenated
<1> HIDE DEF a
<1>2. x \in Seq(S) /\ Len(x) = Len(a) - b /\ \A j \in 1..(Len(a) - b) : x[j] = a[b + j]
  BY <1>1
<1>3. y \in Seq(S) /\ Len(y) = Len(e) - b /\ \A j \in 1..(Len(e) - b) : y[j] = e[b + j]
  OBVIOUS
<1> HIDE DEF x, y
<1>4. z \in Seq(S) /\ Len(z) = Len(y) + Len(f)
      /\ \A j \in 1..(Len(y) + Len(f)) : z[j] = IF j <= Len(y) THEN y[j] ELSE f[j - Len(y)]
  BY <1>3, Concatenated
<1> HIDE DEF z
<1>5. Len(x) = Len(z) /\ Len(e) \in Nat /\ Len(f) \in Nat
  BY <1>1, <1>2, <1>3, <1>4
<1>6. ASSUME NEW j \in 1..Len(x)
      PROVE  x[j] = z[j]
  <2>1. x[j] = a[b + j] /\ b + j \in 1..(Len(e) + Len(f)) /\ j \in 1..(Len(y) + Len(f))
    BY <1>1, <1>2, <1>4, <1>5
  <2>2. CASE b + j <= Len(e)
    BY <1>1, <1>3, <1>4, <1>5, <2>1, <2>2
  <2>3. CASE b + j > Len(e)
    <3>1. b + j - Len(e) = j - Len(y) /\ j > Len(y)
      BY <1>3, <1>5, <2>3
    <3>2. x[j] = f[b + j - Len(e)]
      BY <1>1, <1>5, <2>1, <2>3
    <3>3. z[j] = f[j - Len(y)]
      BY <1>3, <1>4, <1>5, <2>1, <3>1
    <3> QED BY <3>1, <3>2, <3>3
  <2> QED BY <1>5, <2>2, <2>3
<1>7. x = z
  BY <1>2, <1>4, <1>5, <1>6
<1>8. Since(a, b) = x /\ Since(e, b) \o f = z
  BY DEF Since, x, y, z
<1> QED BY <1>1, <1>7, <1>8 DEF a

\* A read joins the scan of the chunk, behind what was kept, to the scan so far.
LEMMA ChunkScanned ==
    ASSUME ParserInv, NEW n \in 1..Len(input), ReadChunk(n)
    PROVE  /\ Received' = Received \o SubSeq(input, pos + 1, pos + n)
           /\ buffer \o SubSeq(input, pos + 1, pos + n) \in Seq(Byte)
           /\ Received \in Seq(Byte) /\ Received' \in Seq(Byte)
           /\ Scan(Received') = Joined(Scan(Received), Scan(buffer \o SubSeq(input, pos + 1, pos + n)))
<1> DEFINE t == SubSeq(input, pos + 1, pos + n)
<1>1. input \in Seq(Byte) /\ pos \in 0..Len(input) /\ n \in Nat /\ pos + n <= Len(input)
      /\ input' = input /\ pos' = pos + n
  <2>1. pos + n <= Len(input) /\ input' = input /\ pos' = pos + n
    BY DEF ReadChunk
  <2>2. input \in Seq(Byte) /\ pos \in 0..Len(input)
    BY DEF ParserInv, StreamType
  <2> QED BY <2>1, <2>2
<1>2. Received \in Seq(Byte) /\ t \in Seq(Byte) /\ SubSeq(input, 1, pos + n) = Received \o t
  BY <1>1, SubSeqJoin DEF Received
<1>3. Received' = Received \o t
  BY <1>1, <1>2 DEF Received
<1>4. buffer = Scan(Received).rest
  BY DEF ParserInv, ChunkingIrrelevant
<1> HIDE DEF t
<1>5. Scan(Received \o t) = Joined(Scan(Received), Scan(Scan(Received).rest \o t))
  BY <1>2, ScanSplit
<1>6. buffer \in Seq(Byte)
  BY <1>2, <1>4, ScanFields
<1>7. buffer \o t \in Seq(Byte) /\ Received \o t \in Seq(Byte)
  BY <1>2, <1>6, Concatenated
<1> QED BY <1>2, <1>3, <1>4, <1>5, <1>7 DEF t

LEMMA ReadChunkParser ==
    ASSUME ParserInv, NEW n \in 1..Len(input), ReadChunk(n)
    PROVE  ParserInv'
<1> DEFINE t == buffer \o SubSeq(input, pos + 1, pos + n)
           scan == Scan(t)
           was == Scan(Received)
<1>1. /\ t \in Seq(Byte) /\ Received \in Seq(Byte) /\ Received' \in Seq(Byte)
      /\ Scan(Received') = Joined(was, scan)
  BY ChunkScanned
<1>2. /\ buffer' = scan.rest /\ errors' = errors + scan.errors
      /\ crcErrors' = crcErrors + scan.errors
      /\ emitted' = emitted \o scan.frames /\ frames' = frames + Len(scan.frames)
      /\ pos' = pos + n /\ pos + n <= Len(input)
      /\ source' = source /\ sources' = sources /\ input' = input /\ begun' = begun
  BY DEF ReadChunk, Kept
<1> HIDE DEF t
<1>3. scan.frames \in Seq(Seq(Byte)) /\ scan.errors \in Nat
  BY <1>1, ScanFields
<1>4. /\ SubSeq(emitted, begun + 1, Len(emitted)) = was.frames
      /\ errors = was.errors
  BY DEF ParserInv, ChunkingIrrelevant
<1>5. /\ source \in BOOLEAN /\ sources \in 0..MaxSources
      /\ input \in Seq(Byte) /\ pos \in 0..Len(input)
      /\ errors \in Nat /\ crcErrors \in Nat
      /\ emitted \in Seq(Seq(Byte)) /\ begun \in 0..Len(emitted)
      /\ frames = Len(emitted)
  BY DEF ParserInv, StreamType
<1> HIDE DEF scan, was
<1>6. /\ emitted' \in Seq(Seq(Byte)) /\ Len(emitted') = Len(emitted) + Len(scan.frames)
      /\ SubSeq(emitted', begun + 1, Len(emitted'))
            = SubSeq(emitted, begun + 1, Len(emitted)) \o scan.frames
  <2> DEFINE S == Seq(Byte)
             fs == scan.frames
  <2>1. emitted \in Seq(S) /\ begun \in 0..Len(emitted) /\ fs \in Seq(S)
    BY <1>3, <1>5
  <2>2. emitted' = emitted \o fs
    BY <1>2
  <2> HIDE DEF S, fs
  <2>3. /\ emitted \o fs \in Seq(S) /\ Len(emitted \o fs) = Len(emitted) + Len(fs)
        /\ Since(emitted \o fs, begun) = Since(emitted, begun) \o fs
    BY <2>1, SinceJoin
  <2> QED BY <2>2, <2>3 DEF S, fs, Since
<1>7. Len(scan.frames) \in Nat /\ Len(emitted) \in Nat /\ Len(input) \in Nat
  BY <1>3, <1>5
<1>8. StreamType'
  <2>1. input' \in Seq(Byte) /\ pos' \in 0..Len(input')
    BY <1>2, <1>5, <1>7
  <2>2. errors' \in Nat /\ crcErrors' \in Nat
    <3> DEFINE e == scan.errors
    <3>1. e \in Nat /\ errors' = errors + e /\ crcErrors' = crcErrors + e
      BY <1>2, <1>3
    <3> HIDE DEF e
    <3> QED BY <1>5, <3>1
  <2>3. begun' \in 0..Len(emitted') /\ frames' = Len(emitted')
    BY <1>2, <1>5, <1>6, <1>7
  <2> QED BY <1>2, <1>5, <1>6, <2>1, <2>2, <2>3 DEF StreamType
<1>9. /\ Joined(was, scan).frames = was.frames \o scan.frames
      /\ Joined(was, scan).errors = was.errors + scan.errors
      /\ Joined(was, scan).rest = scan.rest
  BY DEF Joined
<1>10. /\ SubSeq(emitted', begun' + 1, Len(emitted')) = Scan(Received').frames
       /\ errors' = Scan(Received').errors
       /\ buffer' = Scan(Received').rest
  BY <1>1, <1>2, <1>4, <1>6, <1>9
<1> QED BY <1>8, <1>10 DEF ParserInv, ChunkingIrrelevant

LEMMA ParserInvInit == Init => ParserInv
<1> SUFFICES ASSUME Init PROVE ParserInv
  OBVIOUS
<1>1. StreamType
  <2>1. <<>> \in Seq(Byte) /\ <<>> \in Seq(Seq(Byte)) /\ 0 \in 0..Len(<<>>) /\ 0 \in 0..MaxSources
        /\ 0 = Len(<<>>) /\ FALSE \in BOOLEAN
    BY StreamAssumption
  <2>2. /\ source = FALSE /\ sources = 0 /\ input = <<>> /\ pos = 0 /\ errors = 0
        /\ emitted = <<>> /\ begun = 0 /\ frames = 0 /\ crcErrors = 0
    BY DEF Init
  <2> QED BY <2>1, <2>2 DEF StreamType
<1>2. Received = <<>>
  BY DEF Init, Received
<1>3. SubSeq(emitted, begun + 1, Len(emitted)) = <<>>
  BY DEF Init
<1>4. Scan(Received).frames = <<>> /\ Scan(Received).errors = 0 /\ Scan(Received).rest = <<>>
  BY <1>2, ScanNothing DEF Nothing
<1> QED BY <1>1, <1>3, <1>4 DEF Init, ParserInv, ChunkingIrrelevant

LEMMA ParserInvNext == ParserInv /\ [Next]_vars => ParserInv'
<1> SUFFICES ASSUME ParserInv, [Next]_vars PROVE ParserInv'
  OBVIOUS
<1>0. emitted \in Seq(Seq(Byte)) /\ Len(emitted) \in Nat
  BY DEF ParserInv, StreamType
<1>1. ASSUME NEW bytes \in Inputs, Connect(bytes) PROVE ParserInv'
  <2>1. /\ bytes \in Seq(Byte) /\ input' = bytes /\ pos' = 0 /\ errors' = 0 /\ buffer' = <<>>
        /\ emitted' = emitted /\ begun' = Len(emitted) /\ crcErrors' = crcErrors
        /\ frames' = frames /\ source' = TRUE /\ sources' = sources + 1 /\ sources < MaxSources
    BY <1>1, StreamAssumption DEF Connect, hubVars
  <2>2. input' \in Seq(Byte) /\ pos' \in 0..Len(input')
    BY <2>1
  <2>3. begun' \in 0..Len(emitted') /\ frames' = Len(emitted')
    BY <1>0, <2>1 DEF ParserInv, StreamType
  <2>4. errors' \in Nat /\ crcErrors' \in Nat /\ sources' \in 0..MaxSources
    BY <2>1, StreamAssumption DEF ParserInv, StreamType
  <2>5. StreamType'
    BY <1>0, <2>1, <2>2, <2>3, <2>4 DEF StreamType
  <2>6. ChunkingIrrelevant'
    BY <1>0, <2>1, FreshParser
  <2> QED BY <2>5, <2>6 DEF ParserInv
<1>2. ASSUME NEW n \in 1..Len(input), ReadChunk(n) PROVE ParserInv'
  BY <1>2, ReadChunkParser
<1>3. CASE Disconnect
  <2>1. /\ input' = <<>> /\ pos' = 0 /\ errors' = 0 /\ buffer' = <<>>
        /\ emitted' = emitted /\ begun' = Len(emitted) /\ crcErrors' = crcErrors
        /\ frames' = frames /\ source' = FALSE /\ sources' = sources
    BY <1>3 DEF Disconnect, hubVars
  <2>2. <<>> \in Seq(Byte) /\ 0 \in 0..Len(<<>>)
    OBVIOUS
  <2>3. input' \in Seq(Byte) /\ pos' \in 0..Len(input')
    BY <2>1, <2>2
  <2>4. begun' \in 0..Len(emitted') /\ frames' = Len(emitted')
    BY <1>0, <2>1 DEF ParserInv, StreamType
  <2>5. errors' \in Nat /\ crcErrors' \in Nat /\ sources' \in 0..MaxSources
    BY <2>1 DEF ParserInv, StreamType
  <2>6. StreamType'
    BY <1>0, <2>1, <2>3, <2>4, <2>5 DEF StreamType
  <2>7. ChunkingIrrelevant'
    BY <1>0, <2>1, <2>3, FreshParser
  <2> QED BY <2>6, <2>7 DEF ParserInv
<1>4. CASE UNCHANGED <<parserVars, hubVars>>
  <2>1. UNCHANGED <<source, sources, input, pos, buffer, errors, begun, emitted, frames, crcErrors>>
    BY <1>4 DEF parserVars, hubVars
  <2>2. StreamType'
    BY <2>1 DEF ParserInv, StreamType
  <2>3. ChunkingIrrelevant'
    BY <2>1 DEF ParserInv, ChunkingIrrelevant, Received
  <2> QED BY <2>2, <2>3 DEF ParserInv
<1>5. UNCHANGED vars => UNCHANGED <<parserVars, hubVars>>
  BY DEF vars
<1> QED BY <1>1, <1>2, <1>3, <1>4, <1>5 DEF Next

LEMMA ParserAlways == Spec => []ParserInv
  BY ParserInvInit, ParserInvNext, PTL DEF Spec

\* However the reads of the socket cut what a source sends, the parser of the
\* connection has found, refused and kept what one feed of all of it would give.
THEOREM CutsDoNotMatter == Spec => []ChunkingIrrelevant
<1>1. ParserInv => ChunkingIrrelevant
  BY DEF ParserInv
<1> QED BY <1>1, ParserAlways, PTL

-----------------------------------------------------------------------------
(* The relay *)

Rising(s) == \A i, j \in 1..Len(s) : i < j => s[i] < s[j]

Before(s, t) == \A i \in 1..Len(s) : \A j \in 1..Len(t) : s[i] < t[j]

\* The numbers of frames the hub has counted.
Numbered(s) == \A i \in 1..Len(s) : s[i] \in 1..frames

LoopType ==
    /\ task \in {"unborn", "running", "ended"}
    /\ queue \in Seq(Nat) /\ Len(queue) <= QueueMax
    /\ hand \in Seq(Nat) /\ Len(hand) <= 1
    /\ hand # <<>> => task = "running"
    /\ fanned \in Seq(Nat)

PeerType ==
    /\ subscribers \subseteq Client /\ stream \subseteq Client
    /\ client \in [Client -> {"out", "opening", "reading", "sending", "left"}]
    /\ peer \in [Client -> BOOLEAN]
    /\ box \in [Client -> Seq(Nat)] /\ sending \in [Client -> Seq(Nat)]
    /\ last \in [Client -> Nat] /\ joined \in [Client -> Nat]
    /\ \A c \in Client : /\ Len(box[c]) <= BoxMax /\ Len(sending[c]) <= 1
                         /\ sending[c] # <<>> <=> client[c] = "sending"

\* What was given out, what is being published and what waits are in the order
\* of the hub's count.
LoopInv ==
    /\ Rising(fanned) /\ Rising(queue)
    /\ Before(fanned, hand) /\ Before(fanned, queue) /\ Before(hand, queue)
    /\ Numbered(fanned) /\ Numbered(hand) /\ Numbered(queue)

\* Frame n is older than whatever c may still get.
Past(c, n) ==
    /\ n <= frames
    /\ \A i \in 1..Len(fanned) : i > Len(fanned) - Len(box[c]) => n < fanned[i]
    /\ \A i \in 1..Len(hand) : n < hand[i]
    /\ \A i \in 1..Len(queue) : n < queue[i]

Newest(c) ==
    /\ joined[c] + Len(box[c]) <= Len(fanned)
    /\ \A i \in 1..Len(box[c]) : box[c][i] = fanned[Len(fanned) - Len(box[c]) + i]

Forward(c) ==
    /\ Past(c, last[c])
    /\ sending[c] # <<>> => Past(c, sending[c][1]) /\ last[c] < sending[c][1]

Stage(c) ==
    /\ client[c] = "out" => c \notin subscribers /\ box[c] = <<>> /\ last[c] = 0
    /\ client[c] = "opening" => c \in stream /\ last[c] = 0
    /\ client[c] = "left" /\ c \in subscribers => c \in stream /\ last[c] = 0

PeerInv ==
    /\ \A c \in subscribers : Newest(c) /\ Forward(c)
    /\ \A c \in Client : Stage(c)

RelayInv == LoopType /\ PeerType /\ LoopInv /\ PeerInv

\* What of the new frames finds room.
Fits(o, q, new, from) ==
    /\ o \in Seq(Nat) /\ Len(o) <= QueueMax /\ Len(q) <= Len(o) /\ Len(o) <= Len(q) + new
    /\ \A i \in 1..Len(o) : o[i] = IF i <= Len(q) THEN q[i] ELSE from + (i - Len(q))

LEMMA OfferFacts ==
    ASSUME NEW q \in Seq(Nat), Len(q) <= QueueMax, NEW new \in Nat, NEW from \in Nat
    PROVE  Fits(Offer(q, [i \in 1..new |-> from + i]), q, new, from)
<1> DEFINE f == [i \in 1..new |-> from + i]
           all == q \o f
           m == Shortest(QueueMax, Len(all))
           o == SubSeq(all, 1, m)
<1>1. f \in Seq(Nat) /\ Len(f) = new /\ \A i \in 1..new : f[i] = from + i
  OBVIOUS
<1> HIDE DEF f
<1>2. all \in Seq(Nat) /\ Len(all) = Len(q) + Len(f)
      /\ \A j \in 1..(Len(q) + Len(f)) : all[j] = IF j <= Len(q) THEN q[j] ELSE f[j - Len(q)]
  BY <1>1, Concatenated
<1> HIDE DEF all
<1>3. m \in Nat /\ m <= QueueMax /\ m <= Len(all) /\ Len(q) <= m
  BY <1>1, <1>2, RelayAssumption DEF Shortest
<1> HIDE DEF m
<1>4. o \in Seq(Nat) /\ Len(o) = m /\ \A j \in 1..m : o[j] = all[j]
  BY <1>2, <1>3
<1> HIDE DEF o
<1>5. ASSUME NEW i \in 1..Len(o)
      PROVE  o[i] = IF i <= Len(q) THEN q[i] ELSE from + (i - Len(q))
  <2>1. o[i] = all[i] /\ i \in 1..(Len(q) + Len(f)) /\ Len(q) \in Nat
    BY <1>1, <1>2, <1>3, <1>4
  <2>2. i > Len(q) => i - Len(q) \in 1..new
    BY <1>1, <2>1
  <2> QED BY <1>1, <1>2, <2>1, <2>2
<1>6. Offer(q, f) = o
  BY DEF Offer, o, m, all
<1>7. Fits(o, q, new, from)
  BY <1>1, <1>2, <1>3, <1>4, <1>5 DEF Fits
<1> QED BY <1>6, <1>7 DEF f

\* A read only adds to the queue, and what it adds the hub has just counted.
Added(new) ==
    /\ new \in Nat /\ frames' = frames + new
    /\ Fits(queue', queue, new, frames)
    /\ UNCHANGED <<task, hand, fanned, subscribers, box, peerVars>>

LEMMA ReadChunkAdds ==
    ASSUME ParserInv, LoopType, NEW n \in 1..Len(input), ReadChunk(n)
    PROVE  \E new : Added(new)
<1> DEFINE scan == Scan(buffer \o SubSeq(input, pos + 1, pos + n))
           new == Len(scan.frames)
<1>1. buffer \o SubSeq(input, pos + 1, pos + n) \in Seq(Byte)
  BY ChunkScanned
<1>2. scan.frames \in Seq(Seq(Byte))
  BY <1>1, ScanFields
<1>3. /\ frames' = frames + new
      /\ queue' = Offer(queue, [i \in 1..new |-> frames + i])
      /\ UNCHANGED <<task, hand, fanned, subscribers, box, peerVars>>
  BY DEF ReadChunk
<1> HIDE DEF scan
<1>4. new \in Nat
  BY <1>2
<1>5. frames \in Nat
  BY DEF ParserInv, StreamType
<1>6. queue \in Seq(Nat) /\ Len(queue) <= QueueMax
  BY DEF LoopType
<1> HIDE DEF new
<1>7. Fits(Offer(queue, [i \in 1..new |-> frames + i]), queue, new, frames)
  BY <1>4, <1>5, <1>6, OfferFacts
<1>8. Fits(queue', queue, new, frames)
  BY <1>3, <1>7
<1>9. Added(new)
  BY <1>3, <1>4, <1>8 DEF Added
<1> QED BY <1>9

\* The steps, sorted by what they do to the relay and its clients.
Quiet == UNCHANGED <<frames, task, queue, hand, fanned, subscribers, box, stream, client, peer, sending,
                     last, joined>>

LEMMA StepKinds ==
    ASSUME ParserInv, LoopType, [Next]_vars
    PROVE  \/ \E new : Added(new)
           \/ Quiet
           \/ RelayNext /\ frames' = frames
<1>1. ASSUME NEW bytes \in Inputs, Connect(bytes) PROVE Quiet
  BY <1>1 DEF Connect, Quiet, hubVars, relayVars
<1>2. ASSUME NEW n \in 1..Len(input), ReadChunk(n) PROVE \E new : Added(new)
  BY <1>2, ReadChunkAdds
<1>3. CASE Disconnect
  BY <1>3 DEF Disconnect, Quiet, hubVars, relayVars
<1>4. CASE RelayNext /\ UNCHANGED <<parserVars, hubVars>>
  BY <1>4 DEF hubVars
<1>5. CASE UNCHANGED vars
  BY <1>5 DEF vars, hubVars, relayVars, Quiet
<1> QED BY <1>1, <1>2, <1>3, <1>4, <1>5 DEF Next

\* One client's state, and what a step of it leaves alone.
ClientType(c) ==
    /\ client[c] \in {"out", "opening", "reading", "sending", "left"}
    /\ peer[c] \in BOOLEAN /\ last[c] \in Nat /\ joined[c] \in Nat
    /\ box[c] \in Seq(Nat) /\ Len(box[c]) <= BoxMax
    /\ sending[c] \in Seq(Nat) /\ Len(sending[c]) <= 1
    /\ sending[c] # <<>> <=> client[c] = "sending"

Functions ==
    /\ client = [c \in Client |-> client[c]] /\ peer = [c \in Client |-> peer[c]]
    /\ box = [c \in Client |-> box[c]] /\ sending = [c \in Client |-> sending[c]]
    /\ last = [c \in Client |-> last[c]] /\ joined = [c \in Client |-> joined[c]]

LEMMA PeerTypeIs ==
    PeerType <=> /\ subscribers \subseteq Client /\ stream \subseteq Client
                 /\ Functions /\ \A c \in Client : ClientType(c)
  BY DEF PeerType, Functions, ClientType

OthersStay(c) ==
    /\ \A d \in Client \ {c} :
          /\ client'[d] = client[d] /\ peer'[d] = peer[d] /\ box'[d] = box[d]
          /\ sending'[d] = sending[d] /\ last'[d] = last[d] /\ joined'[d] = joined[d]
          /\ d \in subscribers' <=> d \in subscribers
          /\ d \in stream' <=> d \in stream
    /\ subscribers' \subseteq subscribers \cup {c} /\ stream' \subseteq stream \cup {c}
    /\ Functions'

\* A step of client c, by what it does to c.
Subscribed(c) ==
    /\ client[c] = "out" /\ joined'[c] = Len(fanned) /\ c \in subscribers'
    /\ client'[c] = "reading" \/ (client'[c] = "opening" /\ c \in stream')
    /\ box'[c] = box[c] /\ sending'[c] = sending[c] /\ last'[c] = last[c] /\ peer'[c] = peer[c]

TookFrame(c) ==
    /\ client[c] = "reading" /\ client'[c] = "sending" /\ box[c] # <<>>
    /\ sending'[c] = <<Head(box[c])>> /\ box'[c] = Tail(box[c])
    /\ last'[c] = last[c] /\ joined'[c] = joined[c] /\ peer'[c] = peer[c]
    /\ c \in subscribers' <=> c \in subscribers
    /\ c \in stream' <=> c \in stream

SentFrame(c) ==
    /\ client[c] = "sending" /\ client'[c] = "reading"
    /\ last'[c] = sending[c][1] /\ sending'[c] = <<>> /\ box'[c] = box[c]
    /\ joined'[c] = joined[c] /\ peer'[c] = peer[c]
    /\ c \in subscribers' <=> c \in subscribers
    /\ c \in stream' <=> c \in stream

EndedHandler(c) ==
    /\ client[c] \in {"reading", "sending"} /\ client'[c] = "left" /\ c \notin subscribers'
    /\ sending'[c] = <<>> /\ box'[c] = <<>>
    /\ last'[c] = last[c] /\ joined'[c] = joined[c] /\ peer'[c] = peer[c]

Moved(c) ==
    /\ \/ client'[c] = client[c]
       \/ client[c] = "opening" /\ client'[c] \in {"reading", "left"}
    /\ peer'[c] \in BOOLEAN
    /\ box'[c] = box[c] /\ sending'[c] = sending[c] /\ last'[c] = last[c] /\ joined'[c] = joined[c]
    /\ c \in subscribers' <=> c \in subscribers
    /\ c \in stream' <=> c \in stream

ClientStep(c) ==
    /\ OthersStay(c) /\ UNCHANGED <<loopVars, frames>>
    /\ \/ Subscribed(c) \/ TookFrame(c) \/ SentFrame(c) \/ EndedHandler(c) \/ Moved(c)

GaveOut ==
    /\ hand # <<>> /\ hand' = <<>> /\ fanned' = fanned \o hand
    /\ box' = [c \in Client |-> IF c \in subscribers THEN Delivered(box[c], hand[1]) ELSE box[c]]
    /\ UNCHANGED <<task, queue, subscribers, peerVars>>

\* Nothing is given out and no client does anything.
LoopTurned ==
    /\ UNCHANGED <<fanned, subscribers, box, peerVars>>
    /\ \/ task = "unborn" /\ task' = "running" /\ UNCHANGED <<queue, hand>>
       \/ /\ task = "running" /\ task' = task /\ hand = <<>> /\ queue # <<>>
          /\ hand' = <<Head(queue)>> /\ queue' = Tail(queue)
       \/ task' = "ended" /\ hand' = <<>> /\ queue' = queue

LEMMA ClientKinds ==
    ASSUME PeerType, frames' = frames, NEW c \in Client,
           \/ OpenSocket(c) \/ AskStream(c) \/ OpenStream(c) \/ ReadBox(c) \/ SendEnds(c)
           \/ PeerLeaves(c) \/ HandlerEnds(c) \/ StreamAborted(c)
    PROVE  ClientStep(c)
<1> USE DEF PeerType, ClientStep, OthersStay, Functions, loopVars, peerVars
<1>1. CASE OpenSocket(c)
  BY <1>1 DEF OpenSocket, Subscribe, Subscribed
<1>2. CASE AskStream(c)
  BY <1>2 DEF AskStream, Subscribe, Subscribed
<1>3. CASE OpenStream(c)
  BY <1>3 DEF OpenStream, Moved
<1>4. CASE ReadBox(c)
  BY <1>4 DEF ReadBox, TookFrame
<1>5. CASE SendEnds(c)
  BY <1>5 DEF SendEnds, SentFrame
<1>6. CASE PeerLeaves(c)
  BY <1>6 DEF PeerLeaves, Moved
<1>7. CASE HandlerEnds(c)
  BY <1>7 DEF HandlerEnds, EndedHandler, Unsubscribed
<1>8. CASE StreamAborted(c)
  BY <1>8 DEF StreamAborted, Moved
<1> QED BY <1>1, <1>2, <1>3, <1>4, <1>5, <1>6, <1>7, <1>8

LEMMA RelayKinds ==
    ASSUME PeerType, RelayNext, frames' = frames
    PROVE  LoopTurned \/ GaveOut \/ \E c \in Client : ClientStep(c)
<1>1. CASE StartRelay \/ TakeFrame \/ CloseRelay
  BY <1>1 DEF StartRelay, TakeFrame, CloseRelay, LoopTurned
<1>2. CASE FanOut
  BY <1>2 DEF FanOut, GaveOut
<1>3. ASSUME NEW c \in Client,
             \/ OpenSocket(c) \/ AskStream(c) \/ OpenStream(c) \/ ReadBox(c) \/ SendEnds(c)
             \/ PeerLeaves(c) \/ HandlerEnds(c) \/ StreamAborted(c)
      PROVE  ClientStep(c)
  BY <1>3, ClientKinds
<1> QED BY <1>1, <1>2, <1>3 DEF RelayNext

LEMMA HeadTail ==
    ASSUME NEW s \in Seq(Nat), s # <<>>
    PROVE  /\ Len(s) \in Nat /\ Len(s) >= 1
           /\ Head(s) = s[1] /\ s[1] \in Nat /\ <<Head(s)>> \in Seq(Nat) /\ Len(<<Head(s)>>) = 1
           /\ <<Head(s)>>[1] = s[1] /\ <<Head(s)>> # <<>>
           /\ Tail(s) \in Seq(Nat) /\ Len(Tail(s)) = Len(s) - 1
           /\ \A i \in 1..Len(Tail(s)) : Tail(s)[i] = s[i + 1]
  OBVIOUS

\* A box takes a frame at its end, and has to lose its oldest when it is full.
LEMMA DeliveredFacts ==
    ASSUME NEW b \in Seq(Nat), Len(b) <= BoxMax, NEW n \in Nat
    PROVE  /\ Delivered(b, n) \in Seq(Nat) /\ Len(Delivered(b, n)) <= BoxMax
           /\ Len(Delivered(b, n)) >= 1 /\ Len(Delivered(b, n)) <= Len(b) + 1
           /\ \A i \in 1..Len(Delivered(b, n)) :
                 Delivered(b, n)[i] = IF i = Len(Delivered(b, n)) THEN n
                                      ELSE b[Len(b) + 1 - Len(Delivered(b, n)) + i]
<1> DEFINE t == IF Len(b) = BoxMax THEN Tail(b) ELSE b
           d == Append(t, n)
<1>1. Len(b) \in Nat /\ BoxMax \in Nat /\ BoxMax >= 1
  BY RelayAssumption
<1>2. /\ t \in Seq(Nat) /\ Len(t) <= Len(b) /\ Len(t) + 1 <= BoxMax /\ Len(t) \in Nat
      /\ \A i \in 1..Len(t) : t[i] = b[Len(b) - Len(t) + i]
  <2>1. CASE Len(b) = BoxMax
    <3>1. b # <<>> /\ t = Tail(b)
      BY <1>1, <2>1
    <3>2. Tail(b) \in Seq(Nat) /\ Len(Tail(b)) = Len(b) - 1
          /\ \A i \in 1..Len(Tail(b)) : Tail(b)[i] = b[i + 1]
      BY <3>1, HeadTail
    <3> HIDE DEF t
    <3> QED BY <1>1, <2>1, <3>1, <3>2
  <2>2. CASE Len(b) # BoxMax
    <3>1. t = b
      BY <2>2
    <3> HIDE DEF t
    <3> QED BY <1>1, <2>2, <3>1
  <2> QED BY <2>1, <2>2
<1> HIDE DEF t
<1>3. d \in Seq(Nat) /\ Len(d) = Len(t) + 1 /\ d[Len(t) + 1] = n /\ \A i \in 1..Len(t) : d[i] = t[i]
  BY <1>2
<1> HIDE DEF d
<1>4. ASSUME NEW i \in 1..Len(d)
      PROVE  d[i] = IF i = Len(d) THEN n ELSE b[Len(b) + 1 - Len(d) + i]
  <2>1. CASE i = Len(d)
    BY <1>2, <1>3, <2>1
  <2>2. CASE i # Len(d)
    <3>1. i \in 1..Len(t) /\ Len(b) + 1 - Len(d) + i = Len(b) - Len(t) + i
      BY <1>1, <1>2, <1>3, <2>2
    <3> QED BY <1>2, <1>3, <2>2, <3>1
  <2> QED BY <2>1, <2>2
<1>5. Delivered(b, n) = d
  BY DEF Delivered, d, t
<1>6. d \in Seq(Nat) /\ Len(d) <= BoxMax /\ Len(d) >= 1 /\ Len(d) <= Len(b) + 1
  BY <1>1, <1>2, <1>3
<1> QED BY <1>4, <1>5, <1>6

\* The frame in hand goes to the end of what was given out.
LEMMA GivenFacts ==
    ASSUME LoopType, hand # <<>>, fanned' = fanned \o hand
    PROVE  /\ Len(hand) = 1 /\ hand[1] \in Nat /\ Len(fanned) \in Nat
           /\ fanned' \in Seq(Nat) /\ Len(fanned') = Len(fanned) + 1
           /\ \A i \in 1..Len(fanned') : fanned'[i] = IF i <= Len(fanned) THEN fanned[i] ELSE hand[1]
<1>1. fanned \in Seq(Nat) /\ hand \in Seq(Nat) /\ Len(hand) <= 1
  BY DEF LoopType
<1>2. Len(hand) = 1 /\ hand[1] \in Nat /\ Len(fanned) \in Nat
  <2>1. Len(hand) \in Nat /\ Len(hand) >= 1 /\ hand[1] \in Nat
    BY <1>1, HeadTail
  <2>2. Len(fanned) \in Nat
    BY <1>1
  <2>3. Len(hand) <= 1
    BY <1>1
  <2>4. \A n \in Nat : n >= 1 /\ n <= 1 => n = 1
    OBVIOUS
  <2> QED BY <2>1, <2>2, <2>3, <2>4, Zenon
<1>3. /\ fanned \o hand \in Seq(Nat) /\ Len(fanned \o hand) = Len(fanned) + Len(hand)
      /\ \A j \in 1..(Len(fanned) + Len(hand)) :
            (fanned \o hand)[j] = IF j <= Len(fanned) THEN fanned[j] ELSE hand[j - Len(fanned)]
  BY <1>1, Concatenated
<1>4. ASSUME NEW i \in 1..(Len(fanned) + 1)
      PROVE  fanned'[i] = IF i <= Len(fanned) THEN fanned[i] ELSE hand[1]
  <2>1. ~(i <= Len(fanned)) => i - Len(fanned) = 1
    BY <1>2
  <2> QED BY <1>2, <1>3, <2>1
<1> QED BY <1>2, <1>3, <1>4

LEMMA LoopTypeNext ==
    ASSUME ParserInv, LoopType, PeerType, [Next]_vars
    PROVE  LoopType'
<1>1. ASSUME NEW new, Added(new) PROVE LoopType'
  BY <1>1 DEF Added, Fits, LoopType
<1>2. CASE Quiet
  BY <1>2 DEF Quiet, LoopType
<1>3. CASE LoopTurned
  <2>1. queue # <<>> => <<Head(queue)>> \in Seq(Nat) /\ Len(<<Head(queue)>>) = 1
                        /\ Tail(queue) \in Seq(Nat) /\ Len(Tail(queue)) = Len(queue) - 1
    BY HeadTail DEF LoopType
  <2>2. Len(queue) \in Nat
    BY DEF LoopType
  <2>3. <<>> \in Seq(Nat) /\ Len(<<>>) = 0
    OBVIOUS
  <2>4. fanned' \in Seq(Nat) /\ task' \in {"unborn", "running", "ended"}
    BY <1>3 DEF LoopTurned, LoopType
  <2>5. queue' \in Seq(Nat) /\ Len(queue') <= QueueMax
    <3>1. CASE queue' = queue
      BY <3>1 DEF LoopType
    <3>2. CASE queue # <<>> /\ queue' = Tail(queue)
      BY <2>1, <2>2, <3>2, RelayAssumption DEF LoopType
    <3> QED BY <1>3, <3>1, <3>2 DEF LoopTurned
  <2>6. hand' \in Seq(Nat) /\ Len(hand') <= 1 /\ (hand' # <<>> => task' = "running")
    <3>1. CASE hand' = <<>>
      BY <2>3, <3>1
    <3>2. CASE hand' = hand /\ task = "unborn"
      BY <3>2 DEF LoopType
    <3>3. CASE queue # <<>> /\ hand' = <<Head(queue)>> /\ task' = "running"
      BY <2>1, <3>3
    <3> QED BY <1>3, <3>1, <3>2, <3>3 DEF LoopTurned
  <2> QED BY <2>4, <2>5, <2>6 DEF LoopType
<1>4. CASE GaveOut
  <2>1. fanned' \in Seq(Nat)
    BY <1>4, GivenFacts DEF GaveOut
  <2>2. <<>> \in Seq(Nat) /\ Len(<<>>) = 0
    OBVIOUS
  <2> QED BY <1>4, <2>1, <2>2 DEF GaveOut, LoopType
<1>5. ASSUME NEW c \in Client, ClientStep(c) PROVE LoopType'
  BY <1>5 DEF ClientStep, loopVars, LoopType
<1> QED BY <1>1, <1>2, <1>3, <1>4, <1>5, StepKinds, RelayKinds

LEMMA PeerTypeNext ==
    ASSUME ParserInv, LoopType, PeerType, [Next]_vars
    PROVE  PeerType'
<1>1. ASSUME NEW new, Added(new) PROVE PeerType'
  BY <1>1 DEF Added, peerVars, PeerType
<1>2. CASE Quiet
  BY <1>2 DEF Quiet, PeerType
<1>3. CASE LoopTurned
  BY <1>3 DEF LoopTurned, peerVars, PeerType
<1>4. CASE GaveOut
  <2>1. hand[1] \in Nat
    BY <1>4, GivenFacts DEF GaveOut
  <2>2. \A c \in Client : box[c] \in Seq(Nat) /\ Len(box[c]) <= BoxMax
    BY DEF PeerType
  <2>3. \A c \in Client : /\ Delivered(box[c], hand[1]) \in Seq(Nat)
                          /\ Len(Delivered(box[c], hand[1])) <= BoxMax
    BY <2>1, <2>2, DeliveredFacts
  <2>4. /\ box' \in [Client -> Seq(Nat)]
        /\ \A c \in Client : Len(box'[c]) <= BoxMax
    BY <1>4, <2>2, <2>3 DEF GaveOut
  <2> QED BY <1>4, <2>4 DEF GaveOut, peerVars, PeerType
<1>5. ASSUME NEW c \in Client, ClientStep(c) PROVE PeerType'
  <2>1. subscribers \subseteq Client /\ stream \subseteq Client /\ \A d \in Client : ClientType(d)
    BY PeerTypeIs
  <2>2. OthersStay(c)
    BY <1>5 DEF ClientStep
  <2>3. Functions' /\ subscribers' \subseteq Client /\ stream' \subseteq Client
    BY <2>1, <2>2 DEF OthersStay
  <2>4. \A d \in Client \ {c} : ClientType(d)'
    BY <2>1, <2>2 DEF OthersStay, ClientType
  <2>5. ClientType(c)'
    <3>1. box[c] # <<>> => /\ <<Head(box[c])>> \in Seq(Nat) /\ Len(<<Head(box[c])>>) = 1
                           /\ <<Head(box[c])>> # <<>>
                           /\ Tail(box[c]) \in Seq(Nat) /\ Len(Tail(box[c])) = Len(box[c]) - 1
      BY <2>1, HeadTail DEF ClientType
    <3>2. sending[c] # <<>> => sending[c][1] \in Nat
      BY <2>1, HeadTail DEF ClientType
    <3>3. <<>> \in Seq(Nat) /\ Len(<<>>) = 0 /\ Len(box[c]) \in Nat /\ Len(fanned) \in Nat
      BY <2>1 DEF ClientType, LoopType
    <3>4. CASE Subscribed(c)
      <4>1. client[c] = "out" /\ sending[c] = <<>>
        BY <2>1, <3>4 DEF Subscribed, ClientType
      <4>2. client'[c] \in {"reading", "opening"} /\ joined'[c] \in Nat
            /\ box'[c] = box[c] /\ sending'[c] = sending[c] /\ last'[c] = last[c] /\ peer'[c] = peer[c]
        BY <3>3, <3>4 DEF Subscribed
      <4> QED BY <2>1, <4>1, <4>2 DEF ClientType
    <3>5. CASE TookFrame(c)
      <4>1. /\ sending'[c] \in Seq(Nat) /\ Len(sending'[c]) <= 1 /\ sending'[c] # <<>>
            /\ box'[c] \in Seq(Nat) /\ Len(box'[c]) = Len(box[c]) - 1
        BY <3>1, <3>5 DEF TookFrame
      <4>2. Len(box[c]) \in Nat /\ Len(box[c]) <= BoxMax
        BY <2>1 DEF ClientType
      <4>3. Len(box'[c]) <= BoxMax
        BY <4>1, <4>2, RelayAssumption
      <4>4. client'[c] = "sending" /\ last'[c] = last[c] /\ joined'[c] = joined[c] /\ peer'[c] = peer[c]
        BY <3>5 DEF TookFrame
      <4> QED BY <2>1, <4>1, <4>3, <4>4 DEF ClientType
    <3>6. CASE SentFrame(c)
      BY <2>1, <3>2, <3>3, <3>6 DEF SentFrame, ClientType
    <3>7. CASE EndedHandler(c)
      BY <2>1, <3>3, <3>7, RelayAssumption DEF EndedHandler, ClientType
    <3>8. CASE Moved(c)
      BY <2>1, <3>8 DEF Moved, ClientType
    <3> QED BY <1>5, <3>4, <3>5, <3>6, <3>7, <3>8 DEF ClientStep
  <2>6. PeerType' <=> /\ subscribers' \subseteq Client /\ stream' \subseteq Client
                      /\ Functions' /\ \A d \in Client : ClientType(d)'
    BY DEF PeerType, Functions, ClientType
  <2> QED BY <2>3, <2>4, <2>5, <2>6
<1> QED BY <1>1, <1>2, <1>3, <1>4, <1>5, StepKinds, RelayKinds

\* The order of the numbers, as the steps of the loop change them.
LEMMA MoreWait ==
    ASSUME NEW q \in Seq(Nat), NEW p, NEW new \in Nat, NEW from \in Nat, Fits(p, q, new, from),
           Rising(q), \A i \in 1..Len(q) : q[i] \in 1..from,
           NEW s \in Seq(Nat), Before(s, q), \A i \in 1..Len(s) : s[i] \in 1..from
    PROVE  /\ Rising(p) /\ Before(s, p)
           /\ \A i \in 1..Len(p) : p[i] \in 1..(from + new)
           /\ \A i \in 1..Len(s) : s[i] \in 1..(from + new)
<1> DEFINE L == Len(q)
           M == Len(p)
           N == Len(s)
<1>1. L \in Nat /\ M \in Nat /\ N \in Nat /\ L <= M /\ M <= L + new
  BY DEF Fits
<1>2. \A i \in 1..M : p[i] = IF i <= L THEN q[i] ELSE from + (i - L)
  BY DEF Fits
<1>3. \A i, j \in 1..L : i < j => q[i] < q[j]
  BY DEF Rising
<1>4. \A i \in 1..N : \A j \in 1..L : s[i] < q[j]
  BY DEF Before
<1>5. (\A i \in 1..L : q[i] \in 1..from) /\ (\A i \in 1..N : s[i] \in 1..from)
  OBVIOUS
<1>6. Rising(p) <=> \A i, j \in 1..M : i < j => p[i] < p[j]
  BY DEF Rising
<1>7. Before(s, p) <=> \A i \in 1..N : \A j \in 1..M : s[i] < p[j]
  BY DEF Before
<1> HIDE DEF L, M, N
<1>8. \A i \in 1..M : \/ i \in 1..L /\ p[i] = q[i] /\ p[i] \in 1..from
                      \/ i > L /\ p[i] = from + (i - L) /\ p[i] \in (from + 1)..(from + new)
  BY <1>1, <1>2, <1>5
<1>9. ASSUME NEW i \in 1..M, NEW j \in 1..M, i < j
      PROVE  p[i] < p[j]
  <2>1. CASE j \in 1..L /\ p[j] = q[j]
    <3>1. i \in 1..L /\ p[i] = q[i]
      BY <1>1, <1>8, <1>9, <2>1
    <3> QED BY <1>3, <1>9, <2>1, <3>1
  <2>2. CASE j > L /\ p[j] = from + (j - L) /\ p[j] \in (from + 1)..(from + new)
    <3>1. CASE i \in 1..L /\ p[i] = q[i] /\ p[i] \in 1..from
      BY <2>2, <3>1
    <3>2. CASE i > L /\ p[i] = from + (i - L)
      BY <1>1, <1>9, <2>2, <3>2
    <3> QED BY <1>8, <3>1, <3>2
  <2> QED BY <1>8, <2>1, <2>2
<1>10. ASSUME NEW i \in 1..N, NEW j \in 1..M
       PROVE  s[i] < p[j]
  <2>1. s[i] \in 1..from
    BY <1>5
  <2>2. CASE j \in 1..L /\ p[j] = q[j]
    BY <1>4, <2>2
  <2>3. CASE p[j] \in (from + 1)..(from + new)
    BY <2>1, <2>3
  <2> QED BY <1>8, <2>2, <2>3
<1>11. \A i \in 1..M : p[i] \in 1..(from + new)
  BY <1>8
<1>12. \A i \in 1..N : s[i] \in 1..(from + new)
  BY <1>5
<1> QED BY <1>6, <1>7, <1>9, <1>10, <1>11, <1>12 DEF M, N

LEMMA OneGiven ==
    ASSUME NEW s \in Seq(Nat), NEW q \in Seq(Nat), NEW h \in Seq(Nat), Len(h) = 1,
           NEW t \in Seq(Nat), Len(t) = Len(s) + 1,
           \A i \in 1..Len(t) : t[i] = IF i <= Len(s) THEN s[i] ELSE h[1],
           Rising(s), Before(s, h), Before(s, q), Before(h, q)
    PROVE  /\ Rising(t) /\ Before(t, q)
           /\ \A n : /\ \A i \in 1..Len(s) : s[i] \in 1..n
                     /\ \A i \in 1..Len(h) : h[i] \in 1..n
                     => \A i \in 1..Len(t) : t[i] \in 1..n
<1> DEFINE L == Len(s)
           x == h[1]
<1>1. L \in Nat /\ 1 \in 1..Len(h)
  OBVIOUS
<1>2. /\ \A i, j \in 1..L : i < j => s[i] < s[j]
      /\ \A i \in 1..L : s[i] < x
      /\ \A i \in 1..L : \A j \in 1..Len(q) : s[i] < q[j]
      /\ \A j \in 1..Len(q) : x < q[j]
  BY <1>1 DEF Rising, Before
<1>3. \A i \in 1..(L + 1) : (i \in 1..L /\ t[i] = s[i]) \/ (i = L + 1 /\ t[i] = x)
  BY <1>1
<1>4. /\ Rising(t) <=> \A i, j \in 1..(L + 1) : i < j => t[i] < t[j]
      /\ Before(t, q) <=> \A i \in 1..(L + 1) : \A j \in 1..Len(q) : t[i] < q[j]
  BY DEF Rising, Before
<1>7. ASSUME NEW n, \A i \in 1..Len(s) : s[i] \in 1..n, \A i \in 1..Len(h) : h[i] \in 1..n
      PROVE  \A i \in 1..Len(t) : t[i] \in 1..n
  <2>1. (\A i \in 1..L : s[i] \in 1..n) /\ x \in 1..n /\ Len(t) = L + 1
    BY <1>1, <1>7
  <2> HIDE DEF L, x
  <2> QED BY <1>3, <2>1
<1> HIDE DEF L, x
<1>5. \A i, j \in 1..(L + 1) : i < j => t[i] < t[j]
  <2> SUFFICES ASSUME NEW i \in 1..(L + 1), NEW j \in 1..(L + 1), i < j PROVE t[i] < t[j]
    OBVIOUS
  <2>1. i \in 1..L /\ t[i] = s[i]
    BY <1>1, <1>3
  <2> QED BY <1>2, <1>3, <2>1
<1>6. \A i \in 1..(L + 1) : \A j \in 1..Len(q) : t[i] < q[j]
  BY <1>2, <1>3
<1> QED BY <1>4, <1>5, <1>6, <1>7

LEMMA OneTaken ==
    ASSUME NEW q \in Seq(Nat), q # <<>>, NEW s, Rising(q), Before(s, q)
    PROVE  /\ Rising(Tail(q)) /\ Before(s, Tail(q)) /\ Before(s, <<Head(q)>>)
           /\ Before(<<Head(q)>>, Tail(q))
           /\ \A n : (\A i \in 1..Len(q) : q[i] \in 1..n) =>
                        /\ \A i \in 1..Len(Tail(q)) : Tail(q)[i] \in 1..n
                        /\ \A i \in 1..Len(<<Head(q)>>) : <<Head(q)>>[i] \in 1..n
<1> DEFINE t == Tail(q)
           h == <<Head(q)>>
<1>1. /\ Len(q) \in Nat /\ Len(q) >= 1 /\ Len(h) = 1 /\ h[1] = q[1]
      /\ Len(t) = Len(q) - 1 /\ \A i \in 1..Len(t) : t[i] = q[i + 1]
  BY HeadTail
<1> HIDE DEF t, h
<1>2. (\A i \in 1..Len(t) : i + 1 \in 1..Len(q) /\ 1 < i + 1) /\ 1 \in 1..Len(q)
  BY <1>1
<1>3. Rising(t)
  <2> SUFFICES ASSUME NEW i \in 1..Len(t), NEW j \in 1..Len(t), i < j PROVE t[i] < t[j]
    BY DEF Rising
  <2>1. i + 1 < j + 1
    BY <1>1
  <2> QED BY <1>1, <1>2, <2>1 DEF Rising
<1>4. Before(s, t)
  BY <1>1, <1>2 DEF Before
<1>5. Before(s, h)
  BY <1>1, <1>2 DEF Before
<1>6. Before(h, t)
  <2> SUFFICES ASSUME NEW i \in 1..Len(h), NEW j \in 1..Len(t) PROVE h[i] < t[j]
    BY DEF Before
  <2>1. i = 1 /\ h[i] = q[1] /\ t[j] = q[j + 1]
    BY <1>1
  <2>2. 1 \in 1..Len(q) /\ j + 1 \in 1..Len(q) /\ 1 < j + 1
    BY <1>2
  <2>3. q[1] < q[j + 1]
    BY <2>2 DEF Rising
  <2> QED BY <2>1, <2>3
<1>7. ASSUME NEW n, \A i \in 1..Len(q) : q[i] \in 1..n
      PROVE  (\A i \in 1..Len(t) : t[i] \in 1..n) /\ (\A i \in 1..Len(h) : h[i] \in 1..n)
  BY <1>1, <1>2, <1>7
<1> QED BY <1>3, <1>4, <1>5, <1>6, <1>7 DEF t, h

LEMMA LoopInvNext ==
    ASSUME ParserInv, LoopType, PeerType, LoopInv, [Next]_vars
    PROVE  LoopInv'
<1>0. /\ queue \in Seq(Nat) /\ hand \in Seq(Nat) /\ fanned \in Seq(Nat) /\ frames \in Nat
  BY DEF LoopType, ParserInv, StreamType
<1>9. /\ Rising(fanned) /\ Rising(queue)
      /\ Before(fanned, hand) /\ Before(fanned, queue) /\ Before(hand, queue)
      /\ \A i \in 1..Len(fanned) : fanned[i] \in 1..frames
      /\ \A i \in 1..Len(hand) : hand[i] \in 1..frames
      /\ \A i \in 1..Len(queue) : queue[i] \in 1..frames
  BY DEF LoopInv, Numbered
<1>1. ASSUME NEW new, Added(new) PROVE LoopInv'
  <2>1. /\ new \in Nat /\ frames' = frames + new /\ fanned' = fanned /\ hand' = hand
        /\ Fits(queue', queue, new, frames)
    BY <1>1 DEF Added
  <2>2. /\ Rising(queue') /\ Before(fanned, queue')
        /\ \A i \in 1..Len(queue') : queue'[i] \in 1..(frames + new)
        /\ \A i \in 1..Len(fanned) : fanned[i] \in 1..(frames + new)
    BY <1>0, <1>9, <2>1, MoreWait
  <2>3. /\ Before(hand, queue')
        /\ \A i \in 1..Len(hand) : hand[i] \in 1..(frames + new)
    BY <1>0, <1>9, <2>1, MoreWait
  <2> QED BY <1>9, <2>1, <2>2, <2>3 DEF LoopInv, Numbered
<1>2. CASE Quiet
  BY <1>2 DEF Quiet, LoopInv, Numbered
<1>6. Len(<<>>) = 0
  OBVIOUS
<1>3. CASE LoopTurned /\ frames' = frames
  <2>1. CASE hand' = <<>> /\ queue' = queue
    BY <1>3, <1>6, <1>9, <2>1 DEF LoopTurned, LoopInv, Numbered, Before
  <2>2. CASE hand' = hand /\ queue' = queue
    BY <1>3, <1>9, <2>2 DEF LoopTurned, LoopInv, Numbered
  <2>3. CASE queue # <<>> /\ hand' = <<Head(queue)>> /\ queue' = Tail(queue)
    <3>1. /\ Rising(queue') /\ Before(fanned, queue') /\ Before(fanned, hand')
          /\ Before(hand', queue')
          /\ \A i \in 1..Len(queue') : queue'[i] \in 1..frames
          /\ \A i \in 1..Len(hand') : hand'[i] \in 1..frames
      BY <1>0, <1>9, <2>3, OneTaken
    <3>2. fanned' = fanned /\ frames' = frames
      BY <1>3 DEF LoopTurned
    <3> QED BY <1>9, <3>1, <3>2 DEF LoopInv, Numbered
  <2> QED BY <1>3, <2>1, <2>2, <2>3 DEF LoopTurned
<1>4. CASE GaveOut /\ frames' = frames
  <2>1. /\ Len(hand) = 1 /\ Len(fanned') = Len(fanned) + 1 /\ fanned' \in Seq(Nat)
        /\ \A i \in 1..Len(fanned') : fanned'[i] = IF i <= Len(fanned) THEN fanned[i] ELSE hand[1]
    BY <1>4, GivenFacts DEF GaveOut
  <2>2. queue' = queue /\ hand' = <<>> /\ Len(hand') = 0 /\ frames' = frames
    BY <1>4, <1>6 DEF GaveOut
  <2>3. /\ Rising(fanned') /\ Before(fanned', queue)
        /\ \A i \in 1..Len(fanned') : fanned'[i] \in 1..frames
    BY <1>0, <1>9, <2>1, OneGiven
  <2>4. Before(fanned', hand') /\ Before(hand', queue')
    BY <2>2 DEF Before
  <2> QED BY <1>9, <2>2, <2>3, <2>4 DEF LoopInv, Numbered
<1>5. ASSUME NEW c \in Client, ClientStep(c) PROVE LoopInv'
  BY <1>5 DEF ClientStep, loopVars, LoopInv, Numbered
<1> QED BY <1>1, <1>2, <1>3, <1>4, <1>5, StepKinds, RelayKinds

\* Past and Newest, of any numbers and sequences.
PastIn(n, fr, f, b, h, q) ==
    /\ n <= fr
    /\ \A i \in 1..Len(f) : i > Len(f) - Len(b) => n < f[i]
    /\ \A i \in 1..Len(h) : n < h[i]
    /\ \A i \in 1..Len(q) : n < q[i]

NewestIn(j, f, b) ==
    /\ j + Len(b) <= Len(f)
    /\ \A i \in 1..Len(b) : b[i] = f[Len(f) - Len(b) + i]

LEMMA PastMore ==
    ASSUME NEW n \in Nat, NEW fr \in Nat, NEW f, NEW b, NEW h, NEW q \in Seq(Nat), NEW p,
           NEW new \in Nat, PastIn(n, fr, f, b, h, q), Fits(p, q, new, fr)
    PROVE  PastIn(n, fr + new, f, b, h, p)
<1>1. Len(q) \in Nat /\ Len(p) \in Nat
  BY DEF Fits
<1>2. n <= fr /\ \A i \in 1..Len(q) : n < q[i]
  BY DEF PastIn
<1>3. ASSUME NEW i \in 1..Len(p) PROVE n < p[i]
  <2>1. CASE i <= Len(q)
    <3>1. i \in 1..Len(q) /\ p[i] = q[i]
      BY <1>1, <2>1 DEF Fits
    <3> QED BY <1>2, <3>1
  <2>2. CASE i > Len(q)
    <3>1. p[i] = fr + (i - Len(q))
      BY <1>1, <2>2 DEF Fits
    <3> QED BY <1>1, <1>2, <2>2, <3>1
  <2> QED BY <1>1, <2>1, <2>2
<1>4. n <= fr + new
  BY <1>2
<1> QED BY <1>3, <1>4 DEF PastIn

LEMMA PastTaken ==
    ASSUME NEW n, NEW fr, NEW f, NEW b, NEW h, NEW q \in Seq(Nat), q # <<>>,
           PastIn(n, fr, f, b, h, q)
    PROVE  PastIn(n, fr, f, b, <<Head(q)>>, Tail(q))
<1> DEFINE t == Tail(q)
           g == <<Head(q)>>
<1>1. /\ Len(q) \in Nat /\ Len(q) >= 1 /\ Len(g) = 1 /\ g[1] = q[1]
      /\ Len(t) = Len(q) - 1 /\ \A i \in 1..Len(t) : t[i] = q[i + 1]
  BY HeadTail
<1> HIDE DEF t, g
<1>2. (\A i \in 1..Len(t) : i + 1 \in 1..Len(q)) /\ 1 \in 1..Len(q)
  BY <1>1
<1>3. \A i \in 1..Len(q) : n < q[i]
  BY DEF PastIn
<1>4. (\A i \in 1..Len(t) : n < t[i]) /\ (\A i \in 1..Len(g) : n < g[i])
  BY <1>1, <1>2, <1>3
<1>5. PastIn(n, fr, f, b, g, t)
  BY <1>4 DEF PastIn
<1> QED BY <1>5 DEF t, g

LEMMA BoxGiven ==
    ASSUME NEW f \in Seq(Nat), NEW b \in Seq(Nat), Len(b) <= BoxMax, NEW h \in Seq(Nat), Len(h) = 1, h[1] \in Nat,
           NEW t \in Seq(Nat), Len(t) = Len(f) + 1,
           \A i \in 1..Len(t) : t[i] = IF i <= Len(f) THEN f[i] ELSE h[1],
           NEW j \in Nat, NewestIn(j, f, b)
    PROVE  /\ NewestIn(j, t, Delivered(b, h[1]))
           /\ \A n, fr, q : PastIn(n, fr, f, b, h, q) =>
                               PastIn(n, fr, t, Delivered(b, h[1]), <<>>, q)
<1> DEFINE L == Len(f)
           B == Len(b)
           x == h[1]
           d == Delivered(b, x)
           D == Len(d)
<1>1. L \in Nat /\ B \in Nat /\ x \in Nat /\ 1 \in 1..Len(h) /\ Len(t) = L + 1
  <2>1. 1 \in 1..1 /\ 1 \in 1..Len(h)
    OBVIOUS
  <2>2. L \in Nat /\ B \in Nat
    OBVIOUS
  <2> QED BY <2>1, <2>2
<1>2. /\ d \in Seq(Nat) /\ D >= 1 /\ D <= B + 1
      /\ \A i \in 1..D : d[i] = IF i = D THEN x ELSE b[B + 1 - D + i]
  BY <1>1, DeliveredFacts
<1>3. D \in Nat
  BY <1>2
<1>4. j + B <= L /\ \A i \in 1..B : b[i] = f[L - B + i]
  BY DEF NewestIn
<1>5. \A i \in 1..(L + 1) : t[i] = IF i <= L THEN f[i] ELSE x
  BY <1>1
<1>6. /\ j + D <= L + 1 /\ (\A i \in 1..D : d[i] = t[L + 1 - D + i])
           => NewestIn(j, t, d)
  BY <1>1 DEF NewestIn
<1>7. ASSUME NEW n, NEW fr, NEW q, PastIn(n, fr, f, b, h, q)
      PROVE  PastIn(n, fr, t, d, <<>>, q)
  <2>1. /\ \A i \in 1..L : i > L - B => n < f[i]
        /\ n < x
    BY <1>1, <1>7 DEF PastIn
  <2>2. Len(<<>>) = 0
    OBVIOUS
  <2>3. (\A i \in 1..(L + 1) : i > L + 1 - D => n < t[i]) => PastIn(n, fr, t, d, <<>>, q)
    BY <1>1, <1>7, <2>2 DEF PastIn
  <2> HIDE DEF L, B, x, d, D
  <2>4. ASSUME NEW i \in 1..(L + 1), i > L + 1 - D
        PROVE  n < t[i]
    <3>1. CASE i <= L
      <4>1. i \in 1..L /\ i > L - B /\ t[i] = f[i]
        BY <1>1, <1>2, <1>3, <1>5, <2>4, <3>1
      <4> QED BY <2>1, <4>1
    <3>2. CASE i > L
      BY <1>1, <1>5, <2>1, <3>2
    <3> QED BY <1>1, <3>1, <3>2
  <2> QED BY <2>3, <2>4
<1> HIDE DEF L, B, x, d, D
<1>8. ASSUME NEW i \in 1..D PROVE d[i] = t[L + 1 - D + i]
  <2>0. L + 1 - D + i \in 1..(L + 1)
    BY <1>1, <1>2, <1>3, <1>4
  <2>1. CASE i = D
    <3>1. L + 1 - D + i = L + 1
      BY <1>1, <1>3, <2>1
    <3> QED BY <1>1, <1>2, <1>5, <2>0, <2>1, <3>1
  <2>2. CASE i # D
    <3>1. B + 1 - D + i \in 1..B /\ L + 1 - D + i <= L /\ L - B + (B + 1 - D + i) = L + 1 - D + i
      BY <1>1, <1>2, <1>3, <2>2
    <3>2. d[i] = b[B + 1 - D + i]
      BY <1>2, <2>2
    <3>3. b[B + 1 - D + i] = f[L + 1 - D + i]
      BY <1>4, <3>1
    <3>4. t[L + 1 - D + i] = f[L + 1 - D + i]
      BY <1>5, <2>0, <3>1
    <3> QED BY <3>2, <3>3, <3>4
  <2> QED BY <2>1, <2>2
<1>9. j + D <= L + 1
  BY <1>1, <1>2, <1>3, <1>4
<1>10. NewestIn(j, t, d)
  BY <1>6, <1>8, <1>9
<1> QED BY <1>7, <1>10 DEF d, x

LEMMA BoxTaken ==
    ASSUME NEW f \in Seq(Nat), NEW b \in Seq(Nat), b # <<>>, NEW h \in Seq(Nat), NEW q \in Seq(Nat),
           NEW fr \in Nat, NEW j \in Nat, NewestIn(j, f, b),
           Rising(f), Before(f, h), Before(f, q), \A i \in 1..Len(f) : f[i] \in 1..fr
    PROVE  /\ NewestIn(j, f, Tail(b)) /\ PastIn(b[1], fr, f, Tail(b), h, q)
           /\ \A n : PastIn(n, fr, f, b, h, q) => n < b[1] /\ PastIn(n, fr, f, Tail(b), h, q)
<1> DEFINE L == Len(f)
           B == Len(b)
           t == Tail(b)
           k == L - B + 1
<1>1. /\ L \in Nat /\ B \in Nat /\ B >= 1 /\ Len(t) = B - 1
      /\ \A i \in 1..Len(t) : t[i] = b[i + 1]
  BY HeadTail
<1>2. j + B <= L /\ \A i \in 1..B : b[i] = f[L - B + i]
  BY DEF NewestIn
<1>3. /\ NewestIn(j, f, t) <=> j + Len(t) <= L /\ \A i \in 1..Len(t) : t[i] = f[L - Len(t) + i]
      /\ \A n : PastIn(n, fr, f, t, h, q) <=> /\ n <= fr
                                              /\ \A i \in 1..L : i > L - Len(t) => n < f[i]
                                              /\ \A i \in 1..Len(h) : n < h[i]
                                              /\ \A i \in 1..Len(q) : n < q[i]
  BY DEF NewestIn, PastIn
<1>4. /\ \A i, m \in 1..L : i < m => f[i] < f[m]
      /\ \A i \in 1..L : \A m \in 1..Len(h) : f[i] < h[m]
      /\ \A i \in 1..L : \A m \in 1..Len(q) : f[i] < q[m]
      /\ \A i \in 1..L : f[i] \in 1..fr
  BY DEF Rising, Before
<1>5. \A n : PastIn(n, fr, f, b, h, q) => /\ n <= fr
                                          /\ \A i \in 1..L : i > L - B => n < f[i]
                                          /\ \A i \in 1..Len(h) : n < h[i]
                                          /\ \A i \in 1..Len(q) : n < q[i]
  BY DEF PastIn
<1> HIDE DEF L, B, t
<1>6. k \in 1..L /\ b[1] = f[k] /\ L - Len(t) = k
  BY <1>1, <1>2
<1>7. NewestIn(j, f, t)
  <2>1. ASSUME NEW i \in 1..Len(t) PROVE t[i] = f[L - Len(t) + i]
    <3>1. i + 1 \in 1..B /\ L - B + (i + 1) = L - Len(t) + i
      BY <1>1
    <3> QED BY <1>1, <1>2, <3>1
  <2>2. j + Len(t) <= L
    BY <1>1, <1>2
  <2> QED BY <1>3, <2>1, <2>2
<1> HIDE DEF k
<1>8. PastIn(b[1], fr, f, t, h, q)
  <2>1. f[k] <= fr
    BY <1>4, <1>6
  <2>2. \A i \in 1..L : i > k => f[k] < f[i]
    BY <1>4, <1>6
  <2>3. (\A i \in 1..Len(h) : f[k] < h[i]) /\ (\A i \in 1..Len(q) : f[k] < q[i])
    BY <1>4, <1>6
  <2> QED BY <1>3, <1>6, <2>1, <2>2, <2>3
<1>9. ASSUME NEW n, PastIn(n, fr, f, b, h, q)
      PROVE  n < b[1] /\ PastIn(n, fr, f, t, h, q)
  <2>1. k > L - B /\ \A i \in 1..L : i > k => i > L - B
    BY <1>1 DEF k
  <2>2. n < f[k] /\ \A i \in 1..L : i > k => n < f[i]
    BY <1>5, <1>6, <1>9, <2>1
  <2> QED BY <1>3, <1>5, <1>6, <1>9, <2>2
<1> QED BY <1>7, <1>8, <1>9 DEF t

LEMMA PastIs == \A c, n : Past(c, n) <=> PastIn(n, frames, fanned, box[c], hand, queue)
  BY DEF Past, PastIn

LEMMA NewestIs == \A c : Newest(c) <=> NewestIn(joined[c], fanned, box[c])
  BY DEF Newest, NewestIn

LEMMA PastIsNext ==
    \A c, n : Past(c, n)' <=> PastIn(n', frames', fanned', box'[c], hand', queue')
  BY DEF Past, PastIn

\* What a client is owed, in the terms of the lemmas above.
Owed(l, s, j, fr, f, b, h, q) ==
    /\ NewestIn(j, f, b)
    /\ PastIn(l, fr, f, b, h, q)
    /\ s # <<>> => PastIn(s[1], fr, f, b, h, q) /\ l < s[1]

LEMMA PeerInvIs ==
    PeerInv <=> /\ \A c \in subscribers :
                      Owed(last[c], sending[c], joined[c], frames, fanned, box[c], hand, queue)
                /\ \A c \in Client : Stage(c)
  BY DEF PeerInv, Newest, NewestIn, Forward, Past, PastIn, Owed

LEMMA PeerInvIsNext ==
    PeerInv' <=> /\ \A c \in subscribers' :
                      Owed(last'[c], sending'[c], joined'[c], frames', fanned', box'[c], hand', queue')
                 /\ \A c \in Client : Stage(c)'
  BY DEF PeerInv, Newest, NewestIn, Forward, Past, PastIn, Owed

LEMMA NothingInHand ==
    ASSUME NEW n, NEW fr, NEW f, NEW b, NEW h, NEW q, PastIn(n, fr, f, b, h, q)
    PROVE  PastIn(n, fr, f, b, <<>>, q)
<1>1. Len(<<>>) = 0
  OBVIOUS
<1> QED BY <1>1 DEF PastIn

LEMMA NewSubscriber ==
    ASSUME NEW f \in Seq(Nat), NEW h \in Seq(Nat), NEW q \in Seq(Nat), NEW fr \in Nat,
           \A i \in 1..Len(f) : f[i] \in 1..fr,
           \A i \in 1..Len(h) : h[i] \in 1..fr,
           \A i \in 1..Len(q) : q[i] \in 1..fr
    PROVE  Owed(0, <<>>, Len(f), fr, f, <<>>, h, q)
<1>1. Len(<<>>) = 0 /\ Len(f) \in Nat
  OBVIOUS
<1>2. NewestIn(Len(f), f, <<>>)
  BY <1>1 DEF NewestIn
<1>3. PastIn(0, fr, f, <<>>, h, q)
  <2>1. (\A i \in 1..Len(h) : 0 < h[i]) /\ (\A i \in 1..Len(q) : 0 < q[i])
        /\ (\A i \in 1..Len(f) : 0 < f[i])
    OBVIOUS
  <2> QED BY <1>1, <2>1 DEF PastIn
<1> QED BY <1>2, <1>3 DEF Owed

LEMMA PeerInvNext ==
    ASSUME ParserInv, LoopType, PeerType, LoopInv, PeerInv, [Next]_vars
    PROVE  PeerInv'
<1>0. /\ queue \in Seq(Nat) /\ hand \in Seq(Nat) /\ fanned \in Seq(Nat) /\ frames \in Nat
      /\ Len(hand) <= 1
  BY DEF LoopType, ParserInv, StreamType
<1>a. subscribers \subseteq Client /\ \A c \in Client : ClientType(c)
  BY PeerTypeIs
<1>b. \A c \in subscribers :
         Owed(last[c], sending[c], joined[c], frames, fanned, box[c], hand, queue)
  BY PeerInvIs
<1>c. \A c \in Client : Stage(c)
  BY DEF PeerInv
<1>d. /\ \A i \in 1..Len(fanned) : fanned[i] \in 1..frames
      /\ \A i \in 1..Len(hand) : hand[i] \in 1..frames
      /\ \A i \in 1..Len(queue) : queue[i] \in 1..frames
      /\ Rising(fanned) /\ Before(fanned, hand) /\ Before(fanned, queue)
  BY DEF LoopInv, Numbered
<1>e. \A c \in Client : /\ last[c] \in Nat /\ joined[c] \in Nat /\ box[c] \in Seq(Nat)
                        /\ Len(box[c]) <= BoxMax
                        /\ sending[c] # <<>> => sending[c][1] \in Nat
  BY <1>a, HeadTail DEF ClientType
<1>1. ASSUME NEW new, Added(new) PROVE PeerInv'
  <2>1. /\ new \in Nat /\ Fits(queue', queue, new, frames) /\ frames' = frames + new
        /\ UNCHANGED <<hand, fanned, subscribers, box, stream, client, sending, last, joined>>
    BY <1>1 DEF Added, peerVars
  <2>2. ASSUME NEW c \in subscribers
        PROVE  Owed(last[c], sending[c], joined[c], frames + new, fanned, box[c], hand, queue')
    <3>1. Owed(last[c], sending[c], joined[c], frames, fanned, box[c], hand, queue) /\ c \in Client
      BY <1>a, <1>b
    <3>2. /\ NewestIn(joined[c], fanned, box[c])
          /\ PastIn(last[c], frames, fanned, box[c], hand, queue)
          /\ sending[c] # <<>> => /\ PastIn(sending[c][1], frames, fanned, box[c], hand, queue)
                                  /\ last[c] < sending[c][1]
      BY <3>1 DEF Owed
    <3> DEFINE l == last[c]
               n == sending[c][1]
               b == box[c]
    <3>3. l \in Nat /\ (sending[c] # <<>> => n \in Nat)
      BY <1>e, <3>1
    <3>4. PastIn(l, frames, fanned, b, hand, queue)
          /\ (sending[c] # <<>> => PastIn(n, frames, fanned, b, hand, queue))
      BY <3>2
    <3> HIDE DEF l, n, b
    <3>5. PastIn(l, frames + new, fanned, b, hand, queue')
      BY <1>0, <2>1, <3>3, <3>4, PastMore
    <3>6. sending[c] # <<>> => PastIn(n, frames + new, fanned, b, hand, queue')
      BY <1>0, <2>1, <3>3, <3>4, PastMore
    <3> QED BY <3>2, <3>5, <3>6 DEF Owed, l, n, b
  <2>3. \A c \in Client : Stage(c)'
    BY <1>c, <2>1 DEF Stage
  <2> QED BY <2>1, <2>2, <2>3, PeerInvIsNext
<1>2. CASE Quiet
  BY <1>2, <1>b, <1>c, PeerInvIsNext DEF Quiet, Stage
<1>3. CASE LoopTurned /\ frames' = frames
  <2>1. UNCHANGED <<frames, fanned, subscribers, box, stream, client, sending, last, joined>>
    BY <1>3 DEF LoopTurned, peerVars
  <2>2. \A c \in Client : Stage(c)'
    BY <1>c, <2>1 DEF Stage
  <2>3. ASSUME NEW c \in subscribers
        PROVE  Owed(last[c], sending[c], joined[c], frames, fanned, box[c], hand', queue')
    <3>1. Owed(last[c], sending[c], joined[c], frames, fanned, box[c], hand, queue) /\ c \in Client
      BY <1>a, <1>b
    <3>2. CASE hand' = hand /\ queue' = queue
      BY <3>1, <3>2
    <3>3. CASE hand' = <<>> /\ queue' = queue
      BY <3>1, <3>3, NothingInHand DEF Owed
    <3>4. CASE queue # <<>> /\ hand' = <<Head(queue)>> /\ queue' = Tail(queue)
      BY <1>0, <3>1, <3>4, PastTaken DEF Owed
    <3> QED BY <1>3, <3>2, <3>3, <3>4 DEF LoopTurned
  <2> QED BY <2>1, <2>2, <2>3, PeerInvIsNext
<1>4. CASE GaveOut /\ frames' = frames
  <2>1. /\ UNCHANGED <<frames, queue, subscribers, stream, client, sending, last, joined>>
        /\ hand # <<>> /\ hand' = <<>> /\ fanned' = fanned \o hand
        /\ box' = [c \in Client |-> IF c \in subscribers THEN Delivered(box[c], hand[1]) ELSE box[c]]
    BY <1>4 DEF GaveOut, peerVars
  <2>2. /\ Len(hand) = 1 /\ hand[1] \in Nat /\ Len(fanned') = Len(fanned) + 1 /\ fanned' \in Seq(Nat)
        /\ \A i \in 1..Len(fanned') : fanned'[i] = IF i <= Len(fanned) THEN fanned[i] ELSE hand[1]
    BY <2>1, GivenFacts
  <2>3. \A c \in Client : Stage(c)'
    <3> SUFFICES ASSUME NEW c \in Client PROVE Stage(c)'
      OBVIOUS
    <3>1. c \notin subscribers => box'[c] = box[c]
      BY <2>1
    <3> QED BY <1>c, <2>1, <3>1 DEF Stage
  <2>4. ASSUME NEW c \in subscribers
        PROVE  Owed(last[c], sending[c], joined[c], frames, fanned', box'[c], <<>>, queue)
    <3>1. Owed(last[c], sending[c], joined[c], frames, fanned, box[c], hand, queue) /\ c \in Client
      BY <1>a, <1>b
    <3>2. box'[c] = Delivered(box[c], hand[1])
      BY <2>1, <3>1
    <3> DEFINE b == box[c]
               j == joined[c]
               d == Delivered(b, hand[1])
    <3>3. b \in Seq(Nat) /\ Len(b) <= BoxMax /\ j \in Nat /\ NewestIn(j, fanned, b)
      BY <1>e, <3>1 DEF Owed
    <3> HIDE DEF b, j
    <3>4. /\ NewestIn(j, fanned', d)
          /\ \A n, fr, q : PastIn(n, fr, fanned, b, hand, q) => PastIn(n, fr, fanned', d, <<>>, q)
      BY <1>0, <2>2, <3>3, BoxGiven
    <3> HIDE DEF d
    <3>5. Owed(last[c], sending[c], j, frames, fanned, b, hand, queue)
      BY <3>1 DEF b, j
    <3>6. Owed(last[c], sending[c], j, frames, fanned', d, <<>>, queue)
      BY <3>4, <3>5 DEF Owed
    <3> QED BY <3>2, <3>6 DEF b, j, d
  <2> QED BY <2>1, <2>3, <2>4, PeerInvIsNext
<1>5. ASSUME NEW c \in Client, ClientStep(c) PROVE PeerInv'
  <2>0. OthersStay(c) /\ UNCHANGED <<frames, task, queue, hand, fanned>>
    BY <1>5 DEF ClientStep, loopVars
  <2>1. \A d \in Client \ {c} :
          /\ client'[d] = client[d] /\ peer'[d] = peer[d] /\ box'[d] = box[d]
          /\ sending'[d] = sending[d] /\ last'[d] = last[d] /\ joined'[d] = joined[d]
          /\ d \in subscribers' <=> d \in subscribers
          /\ d \in stream' <=> d \in stream
    BY <2>0 DEF OthersStay
  <2>2. subscribers' \subseteq Client
    BY <1>a, <2>0 DEF OthersStay
  <2>3. \A d \in Client \ {c} : Stage(d)'
    BY <1>c, <2>1 DEF Stage
  <2>4. \A d \in subscribers' \ {c} :
           Owed(last'[d], sending'[d], joined'[d], frames, fanned, box'[d], hand, queue)
    BY <1>b, <2>1, <2>2
  <2>5. /\ Stage(c)'
        /\ c \in subscribers' =>
              Owed(last'[c], sending'[c], joined'[c], frames, fanned, box'[c], hand, queue)
    <3>0. Stage(c) /\ ClientType(c)
      BY <1>a, <1>c
    <3>1. CASE Subscribed(c)
      <4>1. client[c] = "out" /\ box[c] = <<>> /\ last[c] = 0 /\ sending[c] = <<>>
        BY <3>0, <3>1 DEF Subscribed, Stage, ClientType
      <4>2. box'[c] = <<>> /\ last'[c] = 0 /\ sending'[c] = <<>> /\ joined'[c] = Len(fanned)
            /\ (client'[c] = "reading" \/ (client'[c] = "opening" /\ c \in stream'))
        BY <3>1, <4>1 DEF Subscribed
      <4>3. Owed(0, <<>>, Len(fanned), frames, fanned, <<>>, hand, queue)
        BY <1>0, <1>d, NewSubscriber
      <4> QED BY <4>2, <4>3 DEF Stage
    <3>2. CASE TookFrame(c)
      <4>1. /\ box[c] # <<>> /\ sending'[c] = <<Head(box[c])>> /\ box'[c] = Tail(box[c])
            /\ last'[c] = last[c] /\ joined'[c] = joined[c] /\ client'[c] = "sending"
            /\ c \in subscribers' <=> c \in subscribers
        BY <3>2 DEF TookFrame
      <4>2. Stage(c)'
        BY <4>1 DEF Stage
      <4>3. ASSUME c \in subscribers
            PROVE  Owed(last[c], <<Head(box[c])>>, joined[c], frames, fanned, Tail(box[c]), hand, queue)
        <5> DEFINE b == box[c]
                   j == joined[c]
                   l == last[c]
                   g == <<Head(b)>>
        <5>1. b \in Seq(Nat) /\ b # <<>> /\ j \in Nat /\ NewestIn(j, fanned, b)
              /\ PastIn(l, frames, fanned, b, hand, queue)
          BY <1>b, <1>e, <4>1, <4>3 DEF Owed
        <5>2. g[1] = b[1]
          BY <5>1, HeadTail
        <5> HIDE DEF b, j, l, g
        <5>3. /\ NewestIn(j, fanned, Tail(b)) /\ PastIn(b[1], frames, fanned, Tail(b), hand, queue)
              /\ \A n : PastIn(n, frames, fanned, b, hand, queue)
                           => n < b[1] /\ PastIn(n, frames, fanned, Tail(b), hand, queue)
          BY <1>0, <1>d, <5>1, BoxTaken
        <5>4. Owed(l, g, j, frames, fanned, Tail(b), hand, queue)
          BY <5>1, <5>2, <5>3 DEF Owed
        <5> QED BY <5>4 DEF b, j, l, g
      <4> QED BY <4>1, <4>2, <4>3
    <3>3. CASE SentFrame(c)
      <4>1. /\ client[c] = "sending" /\ client'[c] = "reading"
            /\ last'[c] = sending[c][1] /\ sending'[c] = <<>> /\ box'[c] = box[c]
            /\ joined'[c] = joined[c] /\ (c \in subscribers' <=> c \in subscribers)
        BY <3>3 DEF SentFrame
      <4>2. sending[c] # <<>>
        BY <3>0, <4>1 DEF ClientType
      <4>3. Stage(c)'
        BY <4>1 DEF Stage
      <4>4. c \in subscribers => Owed(sending[c][1], <<>>, joined[c], frames, fanned, box[c], hand, queue)
        BY <1>b, <4>2 DEF Owed
      <4> QED BY <4>1, <4>3, <4>4
    <3>4. CASE EndedHandler(c)
      BY <3>4 DEF EndedHandler, Stage
    <3>5. CASE Moved(c)
      <4>1. /\ box'[c] = box[c] /\ sending'[c] = sending[c] /\ last'[c] = last[c]
            /\ joined'[c] = joined[c]
            /\ c \in subscribers' <=> c \in subscribers
            /\ c \in stream' <=> c \in stream
            /\ \/ client'[c] = client[c]
               \/ client[c] = "opening" /\ client'[c] \in {"reading", "left"}
        BY <3>5 DEF Moved
      <4>2. Stage(c)'
        BY <3>0, <4>1 DEF Stage
      <4> QED BY <1>b, <4>1, <4>2
    <3> QED BY <1>5, <3>1, <3>2, <3>3, <3>4, <3>5 DEF ClientStep
  <2>6. \A d \in Client : Stage(d)'
    BY <2>3, <2>5
  <2>7. \A d \in subscribers' :
           Owed(last'[d], sending'[d], joined'[d], frames', fanned', box'[d], hand', queue')
    BY <2>0, <2>4, <2>5
  <2> QED BY <2>6, <2>7, PeerInvIsNext
<1> QED BY <1>1, <1>2, <1>3, <1>4, <1>5, StepKinds, RelayKinds

LEMMA RelayInvInit == Init => RelayInv
<1> SUFFICES ASSUME Init PROVE RelayInv
  OBVIOUS
<1>1. RelayInit /\ frames = 0
  BY DEF Init
<1>2. <<>> \in Seq(Nat) /\ Len(<<>>) = 0
  OBVIOUS
<1>3. LoopType
  BY <1>1, <1>2, RelayAssumption DEF RelayInit, LoopType
<1>4. PeerType
  BY <1>1, <1>2, RelayAssumption DEF RelayInit, PeerType
<1>5. LoopInv
  BY <1>1, <1>2 DEF RelayInit, LoopInv, Rising, Before, Numbered
<1>6. PeerInv
  BY <1>1 DEF RelayInit, PeerInv, Stage
<1> QED BY <1>3, <1>4, <1>5, <1>6 DEF RelayInv

LEMMA RelayInvNext == ParserInv /\ RelayInv /\ [Next]_vars => RelayInv'
  BY LoopTypeNext, PeerTypeNext, LoopInvNext, PeerInvNext DEF RelayInv

LEMMA RelayAlways == Spec => []RelayInv
  BY ParserAlways, RelayInvInit, RelayInvNext, PTL DEF Spec

LEMMA PartOf ==
    ASSUME NEW s \in Seq(Nat), NEW i \in Nat, NEW m \in Nat, i + m <= Len(s)
    PROVE  LET p == SubSeq(s, i + 1, i + m)
           IN  p \in Seq(Nat) /\ Len(p) = m /\ \A k \in 1..m : p[k] = s[i + k]
<1> DEFINE p == SubSeq(s, i + 1, i + m)
<1>1. p \in Seq(Nat)
  OBVIOUS
<1>2. Len(p) = m
  OBVIOUS
<1>3. ASSUME NEW k \in 1..m PROVE p[k] = s[i + k]
  OBVIOUS
<1> QED BY <1>1, <1>2, <1>3

\* A queue of a web client holds the newest frames given out since it came, and
\* nothing older than what it was sent: a slow client skips ahead, never back.
THEOREM SlowSkipAhead == Spec => []NewestKept
<1>1. RelayInv => NewestKept
  <2> SUFFICES ASSUME RelayInv, NEW c \in subscribers
               PROVE  LET seen == SubSeq(fanned, joined[c] + 1, Len(fanned))
                          held == sending[c] \o box[c]
                      IN  /\ Len(box[c]) <= Len(seen)
                          /\ box[c] = SubSeq(seen, Len(seen) - Len(box[c]) + 1, Len(seen))
                          /\ \A i \in 1..Len(held) : held[i] > last[c]
                          /\ \A i \in 2..Len(held) : held[i - 1] < held[i]
    BY DEF NewestKept
  <2> DEFINE seen == SubSeq(fanned, joined[c] + 1, Len(fanned))
             held == sending[c] \o box[c]
             b == box[c]
             s == sending[c]
             j == joined[c]
             l == last[c]
             k == Len(seen) - Len(b)
             m == SubSeq(seen, Len(seen) - Len(b) + 1, Len(seen))
  <2>1. c \in Client /\ ClientType(c)
    BY PeerTypeIs DEF RelayInv
  <2>2. /\ b \in Seq(Nat) /\ s \in Seq(Nat) /\ Len(s) <= 1 /\ j \in Nat /\ l \in Nat
        /\ fanned \in Seq(Nat)
    BY <2>1 DEF ClientType, RelayInv, LoopType
  <2>3. Owed(l, s, j, frames, fanned, b, hand, queue)
    BY PeerInvIs DEF RelayInv
  <2> HIDE DEF b, s, j, l
  <2>4. /\ j + Len(b) <= Len(fanned) /\ Len(b) \in Nat /\ Len(fanned) \in Nat
        /\ \A i \in 1..Len(b) : b[i] = fanned[Len(fanned) - Len(b) + i]
    BY <2>2, <2>3 DEF Owed, NewestIn
  <2>5. /\ seen \in Seq(Nat) /\ Len(seen) = Len(fanned) - j
        /\ \A i \in 1..Len(seen) : seen[i] = fanned[j + i]
    <3> DEFINE L == Len(fanned)
               N == L - j
    <3>1. N \in Nat /\ j + N = L
      BY <2>2, <2>4
    <3>2. seen = SubSeq(fanned, j + 1, j + N)
      BY <3>1 DEF j
    <3> HIDE DEF N, seen
    <3>3. seen \in Seq(Nat) /\ Len(seen) = N /\ \A i \in 1..N : seen[i] = fanned[j + i]
      BY <2>2, <3>1, <3>2, PartOf
    <3> QED BY <3>3 DEF N
  <2> HIDE DEF seen
  <2>6. Len(b) <= Len(seen) /\ k \in Nat /\ k + Len(b) = Len(seen) /\ j + k = Len(fanned) - Len(b)
    BY <2>2, <2>4, <2>5
  <2>7. b = m
    <3> DEFINE N == Len(b)
    <3>0. N \in Nat /\ k \in Nat /\ k + N = Len(seen) /\ j + k = Len(fanned) - N
      BY <2>4, <2>6
    <3>4. m = SubSeq(seen, k + 1, k + N)
      BY <3>0
    <3> HIDE DEF m, k
    <3>1. m \in Seq(Nat) /\ Len(m) = Len(b) /\ \A i \in 1..Len(b) : m[i] = seen[k + i]
      BY <2>5, <3>0, <3>4, PartOf
    <3>2. ASSUME NEW i \in 1..Len(b) PROVE m[i] = b[i]
      <4> DEFINE L == Len(fanned)
                 M == Len(seen)
      <4>0. L \in Nat /\ M = k + N /\ j \in Nat /\ k \in Nat /\ N \in Nat /\ j + k = L - N /\ i \in 1..N
        BY <2>2, <2>4, <3>0
      <4> HIDE DEF L, M, N
      <4>3. k + i \in 1..M /\ j + (k + i) = L - N + i
        BY <4>0
      <4>1. k + i \in 1..Len(seen) /\ j + (k + i) = Len(fanned) - Len(b) + i
        BY <4>3 DEF L, M, N
      <4>2. seen[k + i] = fanned[j + (k + i)]
        BY <2>5, <4>1
      <4> QED BY <2>4, <3>1, <4>1, <4>2
    <3>3. m \in Seq(Nat) /\ b \in Seq(Nat) /\ Len(m) = Len(b)
      BY <2>2, <3>1
    <3> QED BY <3>2, <3>3
  <2>8. \A i \in 1..Len(b) : l < b[i] /\ (s # <<>> => s[1] < b[i])
    <3>1. /\ \A i \in 1..Len(fanned) : i > Len(fanned) - Len(b) => l < fanned[i]
          /\ s # <<>> => \A i \in 1..Len(fanned) : i > Len(fanned) - Len(b) => s[1] < fanned[i]
      BY <2>3 DEF Owed, PastIn
    <3>2. \A i \in 1..Len(b) : /\ Len(fanned) - Len(b) + i \in 1..Len(fanned)
                               /\ Len(fanned) - Len(b) + i > Len(fanned) - Len(b)
      BY <2>2, <2>4
    <3> QED BY <2>4, <3>1, <3>2
  <2>9. \A i, n \in 1..Len(b) : i < n => b[i] < b[n]
    <3>1. \A i, n \in 1..Len(fanned) : i < n => fanned[i] < fanned[n]
      BY DEF RelayInv, LoopInv, Rising
    <3>2. \A i \in 1..Len(b) : Len(fanned) - Len(b) + i \in 1..Len(fanned)
      BY <2>2, <2>4
    <3>3. \A i, n \in 1..Len(b) : i < n => Len(fanned) - Len(b) + i < Len(fanned) - Len(b) + n
      BY <2>4
    <3> QED BY <2>4, <3>1, <3>2, <3>3
  <2>10. (\A i \in 1..Len(held) : held[i] > l) /\ (\A i \in 2..Len(held) : held[i - 1] < held[i])
    <3>1. CASE s = <<>>
      <4>1. held = b
        BY <2>2, <3>1 DEF b, s
      <4> HIDE DEF held
      <4>2. ASSUME NEW i \in 2..Len(b) PROVE b[i - 1] < b[i]
        <5>1. i - 1 \in 1..Len(b) /\ i \in 1..Len(b) /\ i - 1 < i
          BY <2>4
        <5> QED BY <2>9, <5>1
      <4>3. ASSUME NEW i \in 1..Len(b) PROVE b[i] > l
        <5>1. l < b[i] /\ b[i] \in Nat
          BY <2>2, <2>8
        <5> QED BY <2>2, <5>1
      <4> QED BY <4>1, <4>2, <4>3
    <3>2. CASE s # <<>>
      <4>1. Len(s) = 1 /\ s[1] \in Nat
        <5>1. Len(s) \in Nat /\ Len(s) >= 1 /\ s[1] \in Nat /\ Len(s) <= 1
          BY <2>2, <3>2, HeadTail
        <5> QED BY <5>1
      <4>2. Len(held) = 1 + Len(b)
            /\ \A i \in 1..(1 + Len(b)) : held[i] = IF i <= 1 THEN s[i] ELSE b[i - 1]
        <5>1. held = s \o b
          BY DEF s, b
        <5> HIDE DEF held
        <5>2. Len(s \o b) = Len(s) + Len(b)
              /\ \A i \in 1..(Len(s) + Len(b)) : (s \o b)[i] = IF i <= Len(s) THEN s[i] ELSE b[i - Len(s)]
          BY <2>2, Concatenated
        <5> QED BY <4>1, <5>1, <5>2
      <4>3. l < s[1]
        BY <2>3, <3>2 DEF Owed
      <4> HIDE DEF held
      <4>4. ASSUME NEW i \in 1..Len(held) PROVE held[i] > l
        <5>1. CASE i = 1
          BY <2>2, <4>1, <4>2, <4>3, <5>1
        <5>2. CASE i # 1
          <6>1. i - 1 \in 1..Len(b) /\ held[i] = b[i - 1]
            BY <2>4, <4>2, <5>2
          <6>2. l < b[i - 1] /\ b[i - 1] \in Nat
            BY <2>2, <2>8, <6>1
          <6> QED BY <2>2, <6>1, <6>2
        <5> QED BY <5>1, <5>2
      <4>5. ASSUME NEW i \in 2..Len(held) PROVE held[i - 1] < held[i]
        <5>1. i - 1 \in 1..Len(b) /\ held[i] = b[i - 1]
          BY <2>4, <4>2
        <5>2. CASE i = 2
          <6>1. held[i - 1] = s[1]
            BY <2>4, <4>2, <5>2
          <6> QED BY <2>8, <3>2, <5>1, <6>1
        <5>3. CASE i # 2
          <6>1. i - 2 \in 1..Len(b) /\ held[i - 1] = b[(i - 1) - 1] /\ (i - 1) - 1 = i - 2 /\ i - 2 < i - 1
            BY <2>4, <4>2, <5>3
          <6> QED BY <2>9, <5>1, <6>1
        <5> QED BY <5>2, <5>3
      <4> QED BY <4>4, <4>5
    <3> QED BY <3>1, <3>2
  <2> HIDE DEF held, m
  <2>11. Len(b) <= Len(seen) /\ b = m
         /\ (\A i \in 1..Len(held) : held[i] > l) /\ (\A i \in 2..Len(held) : held[i - 1] < held[i])
    BY <2>6, <2>7, <2>10
  <2> QED BY <2>11 DEF seen, held, b, s, j, l, m, k
<1> QED BY <1>1, RelayAlways, PTL

\* The only queue left without a handler is that of an event stream whose
\* generator never started, and no frame of it ever reached the peer.
THEOREM OrphansNeverStarted == Spec => []OrphansAreStreams
<1>1. RelayInv => OrphansAreStreams
  BY DEF RelayInv, PeerInv, PeerType, Stage, OrphansAreStreams
<1> QED BY <1>1, RelayAlways, PTL

-----------------------------------------------------------------------------
(* Folds, and the sums they compute *)

LEMMA LeastSubset ==
    ASSUME NEW S, IsFiniteSet(S), NEW B \in SUBSET SUBSET S, B # {}
    PROVE  \E s \in B : \A x \in s : s \ {x} \notin B
<1> DEFINE N == {Cardinality(s) : s \in B}
<1>1. \A s \in SUBSET S : IsFiniteSet(s) /\ Cardinality(s) \in Nat
  BY FS_Subset, FS_CardinalityType
<1>2. N \in SUBSET Nat /\ N # {}
  BY <1>1
<1>3. PICK n \in N : \A m \in N : n <= m
  BY <1>2, LeastOf
<1>4. PICK s \in B : n = Cardinality(s)
  BY <1>3
<1>5. ASSUME NEW x \in s, s \ {x} \in B
      PROVE  FALSE
  <2>1. IsFiniteSet(s) /\ Cardinality(s) \in Nat
    BY <1>1, <1>4
  <2>2. Cardinality(s \ {x}) = Cardinality(s) - 1
    BY <1>5, <2>1, FS_RemoveElement
  <2>3. Cardinality(s \ {x}) \in N
    BY <1>5
  <2> HIDE DEF N
  <2> QED BY <1>3, <1>4, <2>1, <2>2, <2>3
<1> QED BY <1>4, <1>5

\* A fold that takes the members of S in the order c, through values of V.
Folded(S, c, K, base, it) ==
    it = [p \in SUBSET S |-> IF p = {} THEN base ELSE K[<<c[p], it[p \ {c[p]}]>>]]

LEMMA FoldedExists ==
    ASSUME NEW S, IsFiniteSet(S), NEW V, NEW base \in V, NEW K \in [S \X V -> V],
           NEW c, \A p \in SUBSET S : p # {} => c[p] \in p
    PROVE  \E it \in [SUBSET S -> V] : Folded(S, c, K, base, it)
<1> DEFINE Onward(g) == [p \in SUBSET S |-> IF p = {} THEN base ELSE K[<<c[p], g[p \ {c[p]}]>>]]
           Upto(g, n) == \A p \in SUBSET S : Cardinality(p) <= n => g[p] = Onward(g)[p]
           B == {n \in Nat : ~ \E g \in [SUBSET S -> V] : Upto(g, n)}
<1>1. \A p \in SUBSET S : IsFiniteSet(p) /\ Cardinality(p) \in Nat
  BY FS_Subset, FS_CardinalityType
<1>2. \A g \in [SUBSET S -> V] : Onward(g) \in [SUBSET S -> V]
  <2> SUFFICES ASSUME NEW g \in [SUBSET S -> V], NEW p \in SUBSET S, p # {}
               PROVE  K[<<c[p], g[p \ {c[p]}]>>] \in V
    OBVIOUS
  <2>1. c[p] \in S /\ g[p \ {c[p]}] \in V
    OBVIOUS
  <2> QED BY <2>1
<1>3. B = {}
  <2> SUFFICES ASSUME B # {} PROVE FALSE
    OBVIOUS
  <2>1. PICK n \in B : \A m \in B : n <= m
    <3>1. B \in SUBSET Nat
      OBVIOUS
    <3> HIDE DEF B
    <3> QED BY <3>1, LeastOf
  <2>2. n # 0
    <3> DEFINE g == [p \in SUBSET S |-> base]
    <3>1. \A p \in SUBSET S : Cardinality(p) <= 0 => p = {}
      BY <1>1, FS_EmptySet
    <3>2. Upto(g, 0)
      BY <3>1
    <3>3. g \in [SUBSET S -> V]
      OBVIOUS
    <3> HIDE DEF g, Upto
    <3>4. 0 \notin B
      BY <3>2, <3>3
    <3> QED BY <2>1, <3>4
  <2>3. n - 1 \in Nat /\ n - 1 \notin B
    <3>1. n \in Nat
      OBVIOUS
    <3> HIDE DEF B
    <3> QED BY <2>1, <2>2, <3>1
  <2>4. PICK g \in [SUBSET S -> V] : Upto(g, n - 1)
    BY <2>3
  <2> DEFINE h == Onward(g)
  <2>5. h \in [SUBSET S -> V]
    BY <1>2, <2>4
  <2>6. ASSUME NEW p \in SUBSET S, Cardinality(p) <= n
        PROVE  h[p] = Onward(h)[p]
    <3>1. CASE p = {}
      BY <3>1
    <3>2. CASE p # {}
      <4> DEFINE t == p \ {c[p]}
      <4>1. c[p] \in p /\ t \in SUBSET S
        BY <3>2
      <4>2. Cardinality(t) = Cardinality(p) - 1
        <5>1. IsFiniteSet(p)
          BY <1>1
        <5>2. Cardinality(p \ {c[p]}) =
                 IF c[p] \in p THEN Cardinality(p) - 1 ELSE Cardinality(p)
          BY <5>1, FS_RemoveElement, Zenon
        <5> QED BY <4>1, <5>2
      <4>3. Cardinality(t) <= n - 1
        BY <1>1, <2>1, <2>6, <4>2
      <4>4. g[t] = h[t]
        BY <2>4, <4>1, <4>3
      <4>5. h[p] = K[<<c[p], g[t]>>] /\ Onward(h)[p] = K[<<c[p], h[t]>>]
        BY <3>2
      <4> QED BY <4>4, <4>5
    <3> QED BY <3>1, <3>2
  <2>7. Upto(h, n)
    BY <2>6
  <2>8. n \notin B
    <3> HIDE DEF Onward, Upto, h
    <3> QED BY <2>5, <2>7
  <2> QED BY <2>1, <2>8
<1>4. Cardinality(S) \in Nat /\ \A p \in SUBSET S : Cardinality(p) <= Cardinality(S)
  BY FS_Subset, FS_CardinalityType
<1>5. PICK g \in [SUBSET S -> V] : Upto(g, Cardinality(S))
  BY <1>3, <1>4
<1>6. \A p \in SUBSET S : g[p] = Onward(g)[p]
  BY <1>4, <1>5
<1>7. g = Onward(g)
  BY <1>5, <1>6
<1> QED BY <1>5, <1>7 DEF Folded

\* How a fold of + over the members of a set adds them up.
Chosen(s) == CHOOSE x \in s : TRUE

Adds(f, S, it) ==
    it = [s \in SUBSET S |-> IF s = {} THEN 0 ELSE f[Chosen(s)] + it[s \ {Chosen(s)}]]

LEMMA ChosenIn == \A s : s # {} => Chosen(s) \in s
  BY Zenon DEF Chosen

LEMMA AddsAt ==
    ASSUME NEW f, NEW S, NEW it, Adds(f, S, it)
    PROVE  \A s \in SUBSET S :
              it[s] = IF s = {} THEN 0 ELSE f[Chosen(s)] + it[s \ {Chosen(s)}]
  BY Zenon DEF Adds

LEMMA AddsNat ==
    ASSUME NEW S, IsFiniteSet(S), NEW f, \A x \in S : f[x] \in Nat, NEW it, Adds(f, S, it)
    PROVE  \A s \in SUBSET S : it[s] \in Nat
<1> DEFINE B == {s \in SUBSET S : it[s] \notin Nat}
<1>1. SUFFICES ASSUME B # {} PROVE FALSE
  OBVIOUS
<1>2. PICK s \in B : \A x \in s : s \ {x} \notin B
  BY <1>1, LeastSubset
<1>7. s \in SUBSET S /\ it[s] = IF s = {} THEN 0 ELSE f[Chosen(s)] + it[s \ {Chosen(s)}]
  BY <1>2, AddsAt
<1>3. s # {}
  BY <1>7
<1>4. Chosen(s) \in s /\ Chosen(s) \in S
  BY <1>3, ChosenIn
<1>5. it[s \ {Chosen(s)}] \in Nat /\ f[Chosen(s)] \in Nat
  BY <1>2, <1>4
<1>6. it[s] = f[Chosen(s)] + it[s \ {Chosen(s)}]
  BY <1>3, <1>7
<1> QED BY <1>5, <1>6

LEMMA AddsExists ==
    ASSUME NEW S, IsFiniteSet(S), NEW f, \A x \in S : f[x] \in Nat
    PROVE  \E it : Adds(f, S, it)
<1> DEFINE c == [p \in SUBSET S |-> Chosen(p)]
           K == [z \in S \X Nat |-> f[z[1]] + z[2]]
<1>1. \A p \in SUBSET S : p # {} => c[p] \in p
  BY ChosenIn
<1>2. K \in [S \X Nat -> Nat]
  OBVIOUS
<1>3. PICK it \in [SUBSET S -> Nat] : Folded(S, c, K, 0, it)
  <2> HIDE DEF c, K
  <2> QED BY <1>1, <1>2, FoldedExists
<1>4. ASSUME NEW p \in SUBSET S, p # {}
      PROVE  K[<<c[p], it[p \ {c[p]}]>>] = f[Chosen(p)] + it[p \ {Chosen(p)}]
  <2>1. c[p] = Chosen(p) /\ Chosen(p) \in S /\ it[p \ {Chosen(p)}] \in Nat
    BY <1>1, <1>3, <1>4
  <2> QED BY <2>1
<1> HIDE DEF c, K
<1>5. it = [p \in SUBSET S |-> IF p = {} THEN 0 ELSE f[Chosen(p)] + it[p \ {Chosen(p)}]]
  <2> DEFINE E(p) == IF p = {} THEN 0 ELSE K[<<c[p], it[p \ {c[p]}]>>]
             G(p) == IF p = {} THEN 0 ELSE f[Chosen(p)] + it[p \ {Chosen(p)}]
  <2>1. it = [p \in SUBSET S |-> E(p)]
    BY <1>3 DEF Folded
  <2>2. \A p \in SUBSET S : E(p) = G(p)
    BY <1>4
  <2> HIDE DEF E, G
  <2>3. it = [p \in SUBSET S |-> G(p)]
    BY <2>1, <2>2
  <2> QED BY <2>3 DEF G
<1> QED BY <1>5 DEF Adds

\* The sum does not depend on the member it takes first.
Splits(f, F, s) == \A y \in s : F[s] = f[y] + F[s \ {y}]

LEMMA AddsSplit ==
    ASSUME NEW S, IsFiniteSet(S), NEW f, \A x \in S : f[x] \in Nat, NEW F, Adds(f, S, F)
    PROVE  \A s \in SUBSET S : Splits(f, F, s)
<1> DEFINE B == {s \in SUBSET S : \E y \in s : F[s] # f[y] + F[s \ {y}]}
<1>1. SUFFICES ASSUME B # {} PROVE FALSE
  BY DEF Splits
<1>2. PICK s \in B : \A x \in s : s \ {x} \notin B
  BY <1>1, LeastSubset
<1>3. PICK y \in s : F[s] # f[y] + F[s \ {y}]
  BY <1>2
<1> DEFINE x == Chosen(s)
           u == (s \ {x}) \ {y}
<1>4. x \in s /\ x \in S /\ y \in S /\ s \in SUBSET S /\ u \in SUBSET S
  BY <1>2, <1>3, ChosenIn
<1>5. F[s] = f[x] + F[s \ {x}]
  BY <1>3, <1>4, AddsAt
<1>6. x # y
  BY <1>3, <1>5
<1>7. F[s \ {x}] = f[y] + F[u]
  <2>1. y \in s \ {x} /\ s \ {x} \in SUBSET S /\ s \ {x} \notin B
    BY <1>2, <1>4, <1>6
  <2> QED BY <2>1
<1>8. F[s \ {y}] = f[x] + F[u]
  <2>1. x \in s \ {y} /\ s \ {y} \in SUBSET S /\ s \ {y} \notin B /\ (s \ {y}) \ {x} = u
    BY <1>2, <1>3, <1>4, <1>6
  <2> QED BY <2>1
<1>9. f[x] \in Nat /\ f[y] \in Nat /\ F[u] \in Nat
  BY <1>4, AddsNat
<1> DEFINE fx == f[x]  fy == f[y]  fu == F[u]
<1>10. F[s] = fx + (fy + fu) /\ F[s \ {y}] = fx + fu /\ fx \in Nat /\ fy \in Nat /\ fu \in Nat
  BY <1>5, <1>7, <1>8, <1>9
<1>11. F[s] # fy + F[s \ {y}]
  BY <1>3
<1> HIDE DEF fx, fy, fu
<1> QED BY <1>10, <1>11

\* Terms that are the same have the same sum.
Same(f, g, U) == \A x \in U : g[x] = f[x]
SameSums(F, G, U) == \A s \in SUBSET U : G[s] = F[s]

LEMMA AddsSame ==
    ASSUME NEW S, IsFiniteSet(S), NEW T, NEW U, U \in SUBSET S, U \in SUBSET T,
           NEW f, NEW F, Adds(f, S, F), NEW g, NEW G, Adds(g, T, G), Same(f, g, U)
    PROVE  SameSums(F, G, U)
<1> DEFINE B == {s \in SUBSET U : G[s] # F[s]}
<1>1. SUFFICES ASSUME B # {} PROVE FALSE
  BY DEF SameSums
<1>2. PICK s \in B : \A x \in s : s \ {x} \notin B
  <2>1. IsFiniteSet(U) /\ B \in SUBSET SUBSET U
    BY FS_Subset
  <2> HIDE DEF B
  <2> QED BY <1>1, <2>1, LeastSubset
<1>3. s \in SUBSET T /\ s \in SUBSET S /\ s \in SUBSET U /\ G[s] # F[s]
  BY <1>2
<1>10. Adds(g, T, G) /\ Adds(f, S, F)
  OBVIOUS
<1>4. G[s] = IF s = {} THEN 0 ELSE g[Chosen(s)] + G[s \ {Chosen(s)}]
  BY <1>3, <1>10, Zenon DEF Adds
<1>5. F[s] = IF s = {} THEN 0 ELSE f[Chosen(s)] + F[s \ {Chosen(s)}]
  BY <1>3, <1>10, Zenon DEF Adds
<1>6. s # {}
  BY <1>3, <1>4, <1>5
<1>7. Chosen(s) \in s /\ Chosen(s) \in U
  BY <1>3, <1>6, ChosenIn
<1>8. G[s \ {Chosen(s)}] = F[s \ {Chosen(s)}]
  BY <1>2, <1>3, <1>7
<1>9. g[Chosen(s)] = f[Chosen(s)]
  BY <1>7 DEF Same
<1> QED BY <1>3, <1>4, <1>5, <1>6, <1>8, <1>9

\* A sum up to n + m is the sum up to n and m terms more.
From(f, h, n, m) == \A j \in 1..m : h[j] = f[n + j]
JoinedSums(F, H, n, m) == F[1..(n + m)] = F[1..n] + H[1..m]

LEMMA AddsOnward ==
    ASSUME NEW n \in Nat, NEW m \in Nat,
           NEW f, \A x \in 1..(n + m) : f[x] \in Nat, NEW F, Adds(f, 1..(n + m), F),
           NEW h, From(f, h, n, m), NEW H, Adds(h, 1..m, H)
    PROVE  JoinedSums(F, H, n, m)
<1>0. \A j \in 1..m : h[j] = f[n + j]
  BY DEF From
<1> DEFINE Onward(j) == F[1..(n + j)] = F[1..n] + H[1..j]
           B == {j \in 0..m : ~ Onward(j)}
<1>1. SUFFICES ASSUME B # {} PROVE FALSE
  <2>1. m \in 0..m
    OBVIOUS
  <2> QED BY <2>1 DEF JoinedSums
<1>2. PICK j \in B : \A k \in B : j <= k
  <2>1. B \in SUBSET Nat
    OBVIOUS
  <2> HIDE DEF B
  <2> QED BY <1>1, <2>1, LeastOf
<1>3. j \in 0..m /\ ~ Onward(j)
  BY <1>2
<1>4. IsFiniteSet(1..(n + m)) /\ IsFiniteSet(1..m)
  BY FS_Interval
<1>5. \A x \in 1..m : h[x] \in Nat
  <2> SUFFICES ASSUME NEW x \in 1..m PROVE h[x] \in Nat
    OBVIOUS
  <2>1. n + x \in 1..(n + m)
    OBVIOUS
  <2> QED BY <1>0, <2>1
<1>6. /\ \A s \in SUBSET (1..(n + m)) : F[s] \in Nat
      /\ \A s \in SUBSET (1..m) : H[s] \in Nat
  BY <1>4, <1>5, AddsNat
<1>7. j # 0
  <2>1. H[{}] = 0
    BY AddsAt
  <2>2. F[1..n] \in Nat /\ 1..(n + 0) = 1..n /\ 1..0 = {}
    BY <1>6
  <2> QED BY <1>3, <2>1, <2>2
<1>8. Onward(j - 1)
  <2>1. j - 1 \in 0..m /\ ~ (j <= j - 1)
    BY <1>3, <1>7
  <2>2. j - 1 \notin B
    <3> HIDE DEF B
    <3> QED BY <1>2, <2>1
  <2> QED BY <2>1, <2>2
<1>20. j \in Nat /\ j >= 1 /\ j <= m
  BY <1>3, <1>7
<1> HIDE DEF Onward, B
<1>9. F[1..(n + j)] = f[n + j] + F[1..(n + (j - 1))]
  <2>1. 1..(n + j) \in SUBSET (1..(n + m))
    BY <1>20
  <2>3. n + j \in 1..(n + j)
    BY <1>20
  <2>4. (1..(n + j)) \ {n + j} = 1..(n + (j - 1))
    <3> DEFINE N == n + j
    <3>1. N \in Nat /\ n + (j - 1) = N - 1
      BY <1>20
    <3> HIDE DEF N
    <3>2. (1..N) \ {N} = 1..(N - 1)
      BY <3>1
    <3> QED BY <3>1, <3>2 DEF N
  <2>5. \A s \in SUBSET (1..(n + m)) : \A y \in s : F[s] = f[y] + F[s \ {y}]
    <3> DEFINE S == 1..(n + m)
    <3>1. IsFiniteSet(S) /\ (\A x \in S : f[x] \in Nat) /\ Adds(f, S, F)
      BY <1>4
    <3> HIDE DEF S
    <3>2. \A s \in SUBSET S : Splits(f, F, s)
      BY <3>1, AddsSplit
    <3> QED BY <3>2 DEF S, Splits
  <2>2. F[1..(n + j)] = f[n + j] + F[(1..(n + j)) \ {n + j}]
    BY <2>1, <2>3, <2>5
  <2> QED BY <2>2, <2>4
<1>10. H[1..j] = h[j] + H[1..(j - 1)]
  <2>1. 1..j \in SUBSET (1..m)
    BY <1>20
  <2>3. j \in 1..j
    BY <1>20
  <2>4. (1..j) \ {j} = 1..(j - 1)
    BY <1>20
  <2>5. \A s \in SUBSET (1..m) : \A y \in s : H[s] = h[y] + H[s \ {y}]
    <3> DEFINE S == 1..m
    <3>1. IsFiniteSet(S) /\ (\A x \in S : h[x] \in Nat) /\ Adds(h, S, H)
      BY <1>4, <1>5
    <3> HIDE DEF S
    <3>2. \A s \in SUBSET S : Splits(h, H, s)
      BY <3>1, AddsSplit
    <3> QED BY <3>2 DEF S, Splits
  <2>2. H[1..j] = h[j] + H[(1..j) \ {j}]
    BY <2>1, <2>3, <2>5
  <2> QED BY <2>2, <2>4
<1>11. h[j] = f[n + j] /\ h[j] \in Nat
  BY <1>0, <1>5, <1>20
<1>12. /\ F[1..n] \in Nat /\ F[1..(n + (j - 1))] \in Nat /\ H[1..(j - 1)] \in Nat
  <2>1. /\ 1..n \in SUBSET (1..(n + m)) /\ 1..(n + (j - 1)) \in SUBSET (1..(n + m))
        /\ 1..(j - 1) \in SUBSET (1..m)
    BY <1>20
  <2> QED BY <1>6, <2>1
<1> DEFINE a == F[1..n]
           b == H[1..(j - 1)]
           c == h[j]
           d == F[1..(n + (j - 1))]
<1>13. /\ a \in Nat /\ b \in Nat /\ c \in Nat /\ d = a + b
       /\ F[1..(n + j)] = c + d /\ H[1..j] = c + b /\ F[1..(n + j)] # a + H[1..j]
  BY <1>3, <1>8, <1>9, <1>10, <1>11, <1>12 DEF Onward
<1> HIDE DEF a, b, c, d
<1> QED BY <1>13

\* The bytes of frames.
Lens(s) == [i \in 1..Len(s) |-> Len(s[i])]

BytesEq(s, it) ==
    it = [p \in SUBSET DOMAIN s |-> IF p = {} THEN 0 ELSE Len(s[Chosen(p)]) + it[p \ {Chosen(p)}]]

LEMMA LensNat ==
    ASSUME NEW s \in Seq(Seq(Byte))
    PROVE  /\ Len(s) \in Nat /\ DOMAIN s = 1..Len(s) /\ IsFiniteSet(1..Len(s))
           /\ \A x \in 1..Len(s) : Lens(s)[x] = Len(s[x]) /\ Lens(s)[x] \in Nat
<1>1. Len(s) \in Nat /\ DOMAIN s = 1..Len(s) /\ IsFiniteSet(1..Len(s))
  BY FS_Interval
<1>2. ASSUME NEW x \in 1..Len(s) PROVE Lens(s)[x] = Len(s[x]) /\ Lens(s)[x] \in Nat
  <2>1. s[x] \in Seq(Byte)
    OBVIOUS
  <2>2. Lens(s)[x] = Len(s[x])
    BY DEF Lens
  <2> QED BY <2>1, <2>2
<1> QED BY <1>1, <1>2

LEMMA BytesAdds ==
    ASSUME NEW s \in Seq(Seq(Byte))
    PROVE  \E F : Adds(Lens(s), 1..Len(s), F) /\ Bytes(s) = F[1..Len(s)]
<1>1. DOMAIN s = 1..Len(s) /\ Len(s) \in Nat
  BY LensNat
<1>2. ASSUME NEW it, BytesEq(s, it) \/ Adds(Lens(s), 1..Len(s), it)
      PROVE  BytesEq(s, it) /\ Adds(Lens(s), 1..Len(s), it)
  <2> DEFINE E(p) == IF p = {} THEN 0 ELSE Len(s[Chosen(p)]) + it[p \ {Chosen(p)}]
             G(p) == IF p = {} THEN 0 ELSE Lens(s)[Chosen(p)] + it[p \ {Chosen(p)}]
  <2>1. ASSUME NEW p \in SUBSET DOMAIN s
        PROVE  E(p) = G(p)
    <3>1. CASE p = {}
      BY <3>1
    <3>2. CASE p # {}
      <4>1. Chosen(p) \in 1..Len(s)
        BY <1>1, <3>2, ChosenIn
      <4>2. Lens(s)[Chosen(p)] = Len(s[Chosen(p)])
        BY <4>1, LensNat
      <4> QED BY <4>2
    <3> QED BY <3>1, <3>2
  <2>2. BytesEq(s, it) <=> it = [p \in SUBSET DOMAIN s |-> E(p)]
    BY DEF BytesEq
  <2>3. Adds(Lens(s), 1..Len(s), it) <=> it = [p \in SUBSET DOMAIN s |-> G(p)]
    BY <1>1 DEF Adds
  <2>4. [p \in SUBSET DOMAIN s |-> E(p)] = [p \in SUBSET DOMAIN s |-> G(p)]
    <3> HIDE DEF E, G
    <3> QED BY <2>1
  <2> HIDE DEF E, G
  <2> QED BY <1>2, <2>2, <2>3, <2>4
<1>3. \E it : Adds(Lens(s), 1..Len(s), it)
  BY LensNat, AddsExists
<1>4. \E it : BytesEq(s, it)
  BY <1>2, <1>3
<1>5. BytesEq(s, CHOOSE it : BytesEq(s, it))
  BY Zenon, <1>4
<1>6. Bytes(s) = (CHOOSE it : BytesEq(s, it))[DOMAIN s]
  BY Zenon DEF Bytes, FoldSeq, FoldFunction, FoldFunctionOnSet, MapThenFoldSet, BytesEq, Chosen
<1> DEFINE it == CHOOSE it : BytesEq(s, it)
<1>7. BytesEq(s, it) /\ Bytes(s) = it[1..Len(s)]
  BY <1>1, <1>5, <1>6
<1> HIDE DEF it
<1>8. Adds(Lens(s), 1..Len(s), it)
  BY <1>2, <1>7
<1> QED BY <1>7, <1>8

LEMMA BytesNat ==
    ASSUME NEW s \in Seq(Seq(Byte))
    PROVE  Bytes(s) \in Nat /\ (Len(s) = 0 => Bytes(s) = 0)
<1>1. PICK F : Adds(Lens(s), 1..Len(s), F) /\ Bytes(s) = F[1..Len(s)]
  BY BytesAdds
<1>2. F[1..Len(s)] \in Nat
  BY <1>1, LensNat, AddsNat
<1>3. F[{}] = 0
  BY <1>1, AddsAt
<1>4. Len(s) = 0 => 1..Len(s) = {}
  OBVIOUS
<1> QED BY <1>1, <1>2, <1>3, <1>4

LEMMA BytesJoin ==
    ASSUME NEW s \in Seq(Seq(Byte)), NEW t \in Seq(Seq(Byte))
    PROVE  Bytes(s \o t) = Bytes(s) + Bytes(t)
<1> DEFINE u == s \o t
           n == Len(s)
           m == Len(t)
<1>1. /\ u \in Seq(Seq(Byte)) /\ Len(u) = n + m
      /\ \A j \in 1..(n + m) : u[j] = IF j <= n THEN s[j] ELSE t[j - n]
  <2> DEFINE S == Seq(Byte)
  <2>1. s \in Seq(S) /\ t \in Seq(S)
    OBVIOUS
  <2> HIDE DEF S
  <2>2. u \in Seq(S) /\ Len(u) = n + m /\ \A j \in 1..(n + m) : u[j] = IF j <= n THEN s[j] ELSE t[j - n]
    BY <2>1, Concatenated
  <2> QED BY <2>2 DEF S
<1>2. PICK F : Adds(Lens(u), 1..Len(u), F) /\ Bytes(u) = F[1..Len(u)]
  BY <1>1, BytesAdds
<1>3. PICK G : Adds(Lens(s), 1..n, G) /\ Bytes(s) = G[1..n]
  BY BytesAdds
<1>4. PICK H : Adds(Lens(t), 1..m, H) /\ Bytes(t) = H[1..m]
  BY BytesAdds
<1> HIDE DEF u
<1>5. /\ n \in Nat /\ m \in Nat /\ IsFiniteSet(1..(n + m))
      /\ \A x \in 1..(n + m) : Lens(u)[x] = Len(u[x]) /\ Lens(u)[x] \in Nat
      /\ \A x \in 1..n : Lens(s)[x] = Len(s[x])
      /\ \A x \in 1..m : Lens(t)[x] = Len(t[x])
  BY <1>1, LensNat
<1>6. G[1..n] = F[1..n]
  <2>1. \A x \in 1..n : Lens(s)[x] = Lens(u)[x]
    <3> SUFFICES ASSUME NEW x \in 1..n PROVE Lens(s)[x] = Lens(u)[x]
      OBVIOUS
    <3>1. x \in 1..(n + m) /\ x <= n
      BY <1>5
    <3> QED BY <1>1, <1>5, <3>1
  <2>2. 1..n \in SUBSET (1..(n + m)) /\ Adds(Lens(u), 1..(n + m), F) /\ Adds(Lens(s), 1..n, G)
    BY <1>1, <1>2, <1>3, <1>5
  <2> HIDE DEF n, m
  <2> DEFINE P == 1..n
             Q == 1..(n + m)
             f == Lens(u)
             g == Lens(s)
  <2>3. IsFiniteSet(Q) /\ P \in SUBSET Q /\ P \in SUBSET P /\ Adds(f, Q, F) /\ Adds(g, P, G)
        /\ Same(f, g, P)
    BY <1>5, <2>1, <2>2 DEF Same
  <2> HIDE DEF P, Q, f, g
  <2>4. SameSums(F, G, P)
    BY <2>3, AddsSame
  <2> QED BY <2>3, <2>4 DEF P, SameSums
<1>7. F[1..(n + m)] = F[1..n] + H[1..m]
  <2>1. \A j \in 1..m : Lens(t)[j] = Lens(u)[n + j]
    <3> SUFFICES ASSUME NEW j \in 1..m PROVE Lens(t)[j] = Lens(u)[n + j]
      OBVIOUS
    <3>1. n + j \in 1..(n + m) /\ ~(n + j <= n) /\ (n + j) - n = j
      BY <1>5
    <3>2. u[n + j] = t[j]
      BY <1>1, <3>1
    <3> QED BY <1>5, <3>1, <3>2
  <2>2. Adds(Lens(u), 1..(n + m), F) /\ Adds(Lens(t), 1..m, H)
    BY <1>1, <1>2, <1>4
  <2> HIDE DEF n, m
  <2>3. \A x \in 1..(n + m) : Lens(u)[x] \in Nat
    BY <1>5
  <2> DEFINE f == Lens(u)
             h == Lens(t)
  <2>4. /\ n \in Nat /\ m \in Nat /\ (\A x \in 1..(n + m) : f[x] \in Nat) /\ Adds(f, 1..(n + m), F)
        /\ From(f, h, n, m) /\ Adds(h, 1..m, H)
    BY <1>5, <2>1, <2>2, <2>3 DEF From
  <2> HIDE DEF f, h
  <2>5. JoinedSums(F, H, n, m)
    BY <2>4, AddsOnward
  <2> QED BY <2>5 DEF JoinedSums
<1>8. Bytes(u) = F[1..(n + m)]
  BY <1>1, <1>2
<1> QED BY <1>3, <1>4, <1>6, <1>7, <1>8 DEF u

-----------------------------------------------------------------------------
(* The table of message types *)

Tables == UNION {[D -> Nat \ {0}] : D \in SUBSET MessageTypes}

Total(tb) == FoldSet(LAMBDA t, sum : tb[t] + sum, 0, DOMAIN tb)

\* The entry of type 0 may come on top of the types the table has room for.
Room(tb) ==
    \/ Cardinality(DOMAIN tb) <= MaxTypes
    \/ 0 \in DOMAIN tb /\ Cardinality(DOMAIN tb) <= MaxTypes + 1

LEMMA TableIs ==
    ASSUME NEW tb
    PROVE  tb \in Tables <=> /\ DOMAIN tb \in SUBSET MessageTypes
                             /\ tb \in [DOMAIN tb -> Nat \ {0}]
<1>1. ASSUME tb \in Tables
      PROVE  DOMAIN tb \in SUBSET MessageTypes /\ tb \in [DOMAIN tb -> Nat \ {0}]
  <2>1. PICK D \in SUBSET MessageTypes : tb \in [D -> Nat \ {0}]
    BY <1>1 DEF Tables
  <2>2. DOMAIN tb = D
    BY <2>1
  <2> QED BY <2>1, <2>2
<1>2. ASSUME DOMAIN tb \in SUBSET MessageTypes, tb \in [DOMAIN tb -> Nat \ {0}]
      PROVE  tb \in Tables
  BY <1>2 DEF Tables
<1> QED BY <1>1, <1>2

LEMMA TableFinite ==
    ASSUME NEW tb \in Tables
    PROVE  /\ DOMAIN tb \in SUBSET MessageTypes /\ IsFiniteSet(DOMAIN tb)
           /\ Cardinality(DOMAIN tb) \in Nat
           /\ \A x \in DOMAIN tb : tb[x] \in Nat /\ tb[x] # 0
<1>1. DOMAIN tb \in SUBSET MessageTypes /\ \A x \in DOMAIN tb : tb[x] \in Nat \ {0}
  <2>1. DOMAIN tb \in SUBSET MessageTypes /\ tb \in [DOMAIN tb -> Nat \ {0}]
    BY TableIs
  <2> DEFINE D == DOMAIN tb
  <2>2. tb \in [D -> Nat \ {0}]
    BY <2>1
  <2> HIDE DEF D
  <2>3. \A x \in D : tb[x] \in Nat \ {0}
    BY <2>2
  <2> QED BY <2>1, <2>3 DEF D
<1>2. IsFiniteSet(MessageTypes)
  <2>1. 0 \in Int /\ 4095 \in Int
    OBVIOUS
  <2> DEFINE a == 0
             b == 4095
  <2>3. a \in Int /\ b \in Int
    BY <2>1
  <2> HIDE DEF a, b
  <2>4. IsFiniteSet(a..b)
    BY <2>3, FS_Interval
  <2>2. IsFiniteSet(0..4095)
    BY <2>4 DEF a, b
  <2> QED BY <2>2 DEF MessageTypes
<1> QED BY <1>1, <1>2, FS_Subset, FS_CardinalityType

LEMMA TotalAdds ==
    ASSUME NEW tb \in Tables
    PROVE  \E F : Adds(tb, DOMAIN tb, F) /\ Total(tb) = F[DOMAIN tb]
<1>1. \E F : Adds(tb, DOMAIN tb, F)
  BY TableFinite, AddsExists
<1>2. Adds(tb, DOMAIN tb, CHOOSE F : Adds(tb, DOMAIN tb, F))
  BY Zenon, <1>1
<1>3. Total(tb) = (CHOOSE F : Adds(tb, DOMAIN tb, F))[DOMAIN tb]
  BY Zenon DEF Total, FoldSet, MapThenFoldSet, Adds, Chosen
<1> QED BY <1>2, <1>3

LEMMA TotalNat ==
    ASSUME NEW tb \in Tables
    PROVE  Total(tb) \in Nat
<1>1. PICK F : Adds(tb, DOMAIN tb, F) /\ Total(tb) = F[DOMAIN tb]
  BY TotalAdds
<1>2. F[DOMAIN tb] \in Nat
  BY <1>1, TableFinite, AddsNat
<1> QED BY <1>1, <1>2

\* Two tables that differ in the entry e, which the second one has one higher or
\* has for the first time.
Entry(tb, t) == IF t \in DOMAIN tb \/ Cardinality(DOMAIN tb) < MaxTypes THEN t ELSE 0

Raised(tb, new, e) ==
    /\ DOMAIN new = DOMAIN tb \cup {e}
    /\ new[e] = (IF e \in DOMAIN tb THEN tb[e] ELSE 0) + 1
    /\ Same(tb, new, DOMAIN tb \ {e})

LEMMA CountedRaises ==
    ASSUME NEW tb \in Tables, NEW t \in MessageTypes
    PROVE  /\ Raised(tb, Counted(tb, t), Entry(tb, t)) /\ Counted(tb, t) \in Tables
           /\ Entry(tb, t) \in MessageTypes
<1> DEFINE e == Entry(tb, t)
           new == Counted(tb, t)
           D == DOMAIN tb
<1>1. e \in MessageTypes
  BY DEF Entry, MessageTypes
<1>2. new = [x \in D \cup {e} |->
                IF x # e THEN tb[x] ELSE IF x \in D THEN tb[x] + 1 ELSE 1]
  BY Zenon DEF Counted, Incremented, Entry
<1>3. D \in SUBSET MessageTypes /\ tb \in [D -> Nat \ {0}]
  BY TableIs
<1> HIDE DEF e, new, D
<1>4. D \cup {e} \in SUBSET MessageTypes /\ new \in [D \cup {e} -> Nat \ {0}]
  <2>1. \A x \in D \cup {e} :
           (IF x # e THEN tb[x] ELSE IF x \in D THEN tb[x] + 1 ELSE 1) \in Nat \ {0}
    BY <1>3
  <2> QED BY <1>1, <1>2, <1>3, <2>1
<1>5. DOMAIN new = D \cup {e}
  BY <1>2
<1>6. new[e] = (IF e \in D THEN tb[e] ELSE 0) + 1
  <2>1. new[e] = IF e \in D THEN tb[e] + 1 ELSE 1
    BY <1>2
  <2> QED BY <2>1
<1>7. \A x \in D \ {e} : new[x] = tb[x]
  BY <1>2
<1> QED BY <1>1, <1>4, <1>5, <1>6, <1>7, TableIs DEF Raised, Same, D, e, new

LEMMA RaisedTotal ==
    ASSUME NEW tb \in Tables, NEW new \in Tables, NEW e, Raised(tb, new, e)
    PROVE  Total(new) = Total(tb) + 1
<1> DEFINE D == DOMAIN tb
           E == DOMAIN new
           U == D \ {e}
<1>1. PICK F : Adds(tb, D, F) /\ Total(tb) = F[D]
  BY TotalAdds
<1>2. PICK G : Adds(new, E, G) /\ Total(new) = G[E]
  BY TotalAdds
<1>3. /\ IsFiniteSet(D) /\ IsFiniteSet(E)
      /\ \A x \in D : tb[x] \in Nat
      /\ \A x \in E : new[x] \in Nat
  BY TableFinite
<1>4. E = D \cup {e} /\ U \in SUBSET D /\ U \in SUBSET E /\ U \in SUBSET U /\ E \ {e} = U /\ e \in E
      /\ E \in SUBSET E /\ D \in SUBSET D
  BY DEF Raised
<1>5. Same(tb, new, U) /\ new[e] = (IF e \in D THEN tb[e] ELSE 0) + 1
  BY DEF Raised
<1> HIDE DEF D, E, U
<1>6. G[U] = F[U]
  <2>1. SameSums(F, G, U)
    BY <1>1, <1>2, <1>3, <1>4, <1>5, AddsSame
  <2> QED BY <1>4, <2>1 DEF SameSums
<1>7. G[E] = new[e] + G[U]
  <2>1. Splits(new, G, E)
    BY <1>2, <1>3, <1>4, AddsSplit
  <2> QED BY <1>4, <2>1 DEF Splits
<1>8. F[U] \in Nat
  BY <1>1, <1>3, <1>4, AddsNat
<1>9. CASE e \in D
  <2>1. Splits(tb, F, D)
    BY <1>1, <1>3, <1>4, AddsSplit
  <2>2. F[D] = tb[e] + F[U] /\ tb[e] \in Nat
    BY <1>3, <1>9, <2>1 DEF Splits, U
  <2>3. new[e] = tb[e] + 1
    BY <1>5, <1>9
  <2> DEFINE a == tb[e]
             b == F[U]
  <2>4. a \in Nat /\ b \in Nat /\ F[D] = a + b /\ G[E] = (a + 1) + b
    BY <1>6, <1>7, <1>8, <2>2, <2>3
  <2> HIDE DEF a, b
  <2> QED BY <1>1, <1>2, <2>4
<1>10. CASE e \notin D
  <2>1. U = D /\ new[e] = 1
    BY <1>5, <1>10 DEF U
  <2> QED BY <1>1, <1>2, <1>6, <1>7, <1>8, <2>1
<1> QED BY <1>9, <1>10

\* record_rtcm_frame: one frame more is counted, and the table stays in bounds.
LEMMA CountedFacts ==
    ASSUME NEW tb \in Tables, Room(tb), NEW t \in MessageTypes
    PROVE  /\ Counted(tb, t) \in Tables /\ Room(Counted(tb, t))
           /\ Total(Counted(tb, t)) = Total(tb) + 1
<1> DEFINE e == Entry(tb, t)
           new == Counted(tb, t)
           D == DOMAIN tb
<1>1. Raised(tb, new, e) /\ new \in Tables
  BY CountedRaises
<1>2. Total(new) = Total(tb) + 1
  BY <1>1, RaisedTotal
<1>3. DOMAIN new = D \cup {e} /\ IsFiniteSet(D) /\ Cardinality(D) \in Nat
  BY <1>1, TableFinite DEF Raised
<1>4. Cardinality(D \cup {e}) = IF e \in D THEN Cardinality(D) ELSE Cardinality(D) + 1
  BY <1>3, FS_AddElement
<1>5. e = t \/ e = 0
  BY DEF Entry
<1>6. (e \notin D => (Cardinality(D) < MaxTypes \/ e = 0)) /\ MaxTypes \in Nat
  BY StreamAssumption DEF Entry
<1>7. Room(tb)
  OBVIOUS
<1> HIDE DEF e, new
<1>8. Room(new)
  <2>1. CASE e \in D
    <3>1. D \cup {e} = D
      BY <2>1
    <3> QED BY <1>3, <1>7, <3>1 DEF Room
  <2>2. CASE e \notin D
    BY <1>3, <1>4, <1>6, <1>7, <2>2 DEF Room
  <2> QED BY <2>1, <2>2
<1> QED BY <1>1, <1>2, <1>8 DEF new

LEMMA LargestIn ==
    ASSUME NEW n \in Nat, NEW p \in SUBSET (1..n), p # {}
    PROVE  Max(p) \in p
<1> DEFINE B == {n - x : x \in p}
<1>1. B \in SUBSET Nat /\ B # {}
  <2>1. \A x \in p : n - x \in Nat
    OBVIOUS
  <2> QED BY <2>1
<1>2. PICK k \in B : \A m \in B : k <= m
  <2> HIDE DEF B
  <2> QED BY <1>1, LeastOf
<1>3. PICK x \in p : k = n - x
  BY <1>2
<1>4. \A y \in p : x >= y
  <2> SUFFICES ASSUME NEW y \in p PROVE x >= y
    OBVIOUS
  <2>1. n - y \in B
    OBVIOUS
  <2>2. n - x <= n - y
    <3> HIDE DEF B
    <3> QED BY <1>2, <1>3, <2>1
  <2>3. x \in Nat /\ y \in Nat
    OBVIOUS
  <2> QED BY <2>2, <2>3
<1>5. \E y \in p : \A z \in p : y >= z
  BY <1>4
<1> QED BY <1>5, Zenon DEF Max

\* The table after the frames fs.
TableAfter(tb, fs) == FoldLeft(LAMBDA table, f : Counted(table, MessageType(f)), tb, fs)

TableEq(tb, fs, it) ==
    it = [p \in SUBSET DOMAIN fs |->
             IF p = {} THEN tb ELSE Counted(it[p \ {Max(p)}], MessageType(fs[Max(p)]))]

Typed(fs) == \A i \in 1..Len(fs) : MessageType(fs[i]) \in MessageTypes

LEMMA TableEqExists ==
    ASSUME NEW tb \in Tables, NEW fs \in Seq(Seq(Byte)), Typed(fs)
    PROVE  \E it : TableEq(tb, fs, it)
<1> DEFINE D == 1..Len(fs)
           c == [p \in SUBSET D |-> Max(p)]
           K == [z \in D \X Tables |-> Counted(z[2], MessageType(fs[z[1]]))]
<1>1. D = DOMAIN fs /\ IsFiniteSet(D) /\ Len(fs) \in Nat
  BY LensNat
<1>2. \A p \in SUBSET D : p # {} => c[p] \in p /\ c[p] = Max(p)
  BY <1>1, LargestIn
<1>3. K \in [D \X Tables -> Tables]
  <2> SUFFICES ASSUME NEW i \in D, NEW t \in Tables
               PROVE  Counted(t, MessageType(fs[i])) \in Tables
    OBVIOUS
  <2>1. MessageType(fs[i]) \in MessageTypes
    BY DEF Typed
  <2> QED BY <2>1, CountedRaises
<1>4. PICK it \in [SUBSET D -> Tables] : Folded(D, c, K, tb, it)
  <2> HIDE DEF D, c, K
  <2>1. \A p \in SUBSET D : p # {} => c[p] \in p
    BY <1>2
  <2> QED BY <1>1, <1>3, <2>1, FoldedExists
<1> DEFINE E(p) == IF p = {} THEN tb ELSE K[<<c[p], it[p \ {c[p]}]>>]
           G(p) == IF p = {} THEN tb ELSE Counted(it[p \ {Max(p)}], MessageType(fs[Max(p)]))
<1>5. ASSUME NEW p \in SUBSET D
      PROVE  E(p) = G(p)
  <2>1. CASE p = {}
    BY <2>1
  <2>2. CASE p # {}
    <3> DEFINE x == c[p]
               t == it[p \ {x}]
    <3>1. x = Max(p) /\ x \in D /\ p \ {x} \in SUBSET D
      BY <1>2, <2>2
    <3>2. t \in Tables
      BY <1>4, <3>1
    <3>3. K[<<x, t>>] = Counted(t, MessageType(fs[x]))
      <4> HIDE DEF D, x, t
      <4> QED BY <3>1, <3>2
    <3>4. E(p) = K[<<x, t>>] /\ G(p) = Counted(it[p \ {Max(p)}], MessageType(fs[Max(p)]))
      BY <2>2
    <3> HIDE DEF x, K
    <3> QED BY <3>1, <3>3, <3>4
  <2> QED BY <2>1, <2>2
<1>6. it = [p \in SUBSET D |-> E(p)]
  BY <1>4 DEF Folded
<1>7. it = [p \in SUBSET D |-> G(p)]
  <2> HIDE DEF E, G, D
  <2> QED BY <1>5, <1>6
<1>8. TableEq(tb, fs, it)
  BY <1>1, <1>7 DEF TableEq
<1> QED BY <1>8

\* What holds of the table once the frames at the places p were counted.
Booked(tb, t, p) == t \in Tables /\ Room(t) /\ Total(t) = Total(tb) + Cardinality(p)

LEMMA TableEqFacts ==
    ASSUME NEW tb \in Tables, Room(tb), NEW fs \in Seq(Seq(Byte)), Typed(fs),
           NEW it, TableEq(tb, fs, it)
    PROVE  Booked(tb, it[1..Len(fs)], 1..Len(fs))
<1> DEFINE D == 1..Len(fs)
           B == {p \in SUBSET D : ~ Booked(tb, it[p], p)}
<1>1. D = DOMAIN fs /\ IsFiniteSet(D) /\ Len(fs) \in Nat
  BY LensNat
<1>2. SUFFICES ASSUME B # {} PROVE FALSE
  OBVIOUS
<1>3. PICK p \in B : \A x \in p : p \ {x} \notin B
  <2> HIDE DEF D
  <2> QED BY <1>1, <1>2, LeastSubset
<1>4. p \in SUBSET D /\ ~ Booked(tb, it[p], p) /\ \A x \in p : Booked(tb, it[p \ {x}], p \ {x})
  BY <1>3
<1>5. it[p] = IF p = {} THEN tb ELSE Counted(it[p \ {Max(p)}], MessageType(fs[Max(p)]))
  <2>1. TableEq(tb, fs, it)
    OBVIOUS
  <2>2. p \in SUBSET DOMAIN fs
    BY <1>1, <1>4
  <2> QED BY <2>1, <2>2, Zenon DEF TableEq
<1>6. p # {}
  <2> SUFFICES ASSUME p = {} PROVE FALSE
    OBVIOUS
  <2>1. it[p] = tb /\ Cardinality(p) = 0
    BY <1>5, FS_EmptySet
  <2>2. Total(tb) + 0 = Total(tb)
    BY TotalNat
  <2> QED BY <1>4, <2>1, <2>2 DEF Booked
<1> DEFINE x == Max(p)
           t == it[p \ {x}]
           q == p \ {x}
           m == MessageType(fs[x])
<1>7. x \in p /\ x \in D
  BY <1>1, <1>4, <1>6, LargestIn
<1>8. it[p] = Counted(t, m)
  BY <1>5, <1>6
<1>9. Booked(tb, t, q)
  BY <1>4, <1>7
<1>10. m \in MessageTypes
  BY <1>7 DEF Typed
<1>11. IsFiniteSet(p) /\ Cardinality(p) \in Nat /\ Cardinality(q) = Cardinality(p) - 1
  <2>1. IsFiniteSet(p) /\ Cardinality(p) \in Nat
    BY <1>1, <1>4, FS_Subset, FS_CardinalityType
  <2>2. Cardinality(p \ {x}) = IF x \in p THEN Cardinality(p) - 1 ELSE Cardinality(p)
    BY <2>1, FS_RemoveElement, Zenon
  <2> QED BY <1>7, <2>1, <2>2
<1> HIDE DEF x, t, q, m, B, D
<1>12. t \in Tables /\ Room(t) /\ Total(t) = Total(tb) + Cardinality(q)
  BY <1>9 DEF Booked
<1>13. Counted(t, m) \in Tables /\ Room(Counted(t, m)) /\ Total(Counted(t, m)) = Total(t) + 1
  BY <1>10, <1>12, CountedFacts
<1>14. Total(tb) \in Nat
  BY TotalNat
<1> QED BY <1>4, <1>8, <1>11, <1>12, <1>13, <1>14 DEF Booked

LEMMA TableAfterFacts ==
    ASSUME NEW tb \in Tables, Room(tb), NEW fs \in Seq(Seq(Byte)), Typed(fs)
    PROVE  /\ TableAfter(tb, fs) \in Tables /\ Room(TableAfter(tb, fs))
           /\ Total(TableAfter(tb, fs)) = Total(tb) + Len(fs)
<1>1. TableEq(tb, fs, CHOOSE it : TableEq(tb, fs, it))
  BY Zenon, TableEqExists
<1>2. TableAfter(tb, fs) = (CHOOSE it : TableEq(tb, fs, it))[DOMAIN fs]
  BY Zenon DEF TableAfter, FoldLeft, MapThenFoldSet, TableEq
<1> DEFINE it == CHOOSE it : TableEq(tb, fs, it)
<1>3. TableEq(tb, fs, it) /\ TableAfter(tb, fs) = it[1..Len(fs)]
  BY <1>1, <1>2, LensNat
<1> HIDE DEF it
<1>4. Booked(tb, TableAfter(tb, fs), 1..Len(fs))
  BY <1>3, TableEqFacts
<1>5. Len(fs) \in Nat /\ Cardinality(1..Len(fs)) = Len(fs)
  BY LensNat, FS_Interval
<1> QED BY <1>4, <1>5 DEF Booked

-----------------------------------------------------------------------------
(* The hub's statistics *)

\* A frame has a header and a checksum.
LongFrames(s) == \A i \in 1..Len(Scan(s).frames) : Len(Scan(s).frames[i]) >= 6

LEMMA HeadLong ==
    ASSUME NEW s \in Seq(Byte), Whole(s)
    PROVE  HeadFrame(s) \in Seq(Byte) /\ Len(HeadFrame(s)) >= 6
<1>1. FrameLength(s) \in Nat /\ FrameLength(s) >= 6 /\ FrameLength(s) <= Len(s)
  BY WholeLength
<1> DEFINE n == FrameLength(s)
<1>2. n \in Nat /\ n >= 6 /\ n <= Len(s)
  BY <1>1
<1> HIDE DEF n
<1>3. SubSeq(s, 1, n) \in Seq(Byte) /\ Len(SubSeq(s, 1, n)) = n
  BY <1>2
<1> QED BY <1>2, <1>3 DEF HeadFrame, n

LEMMA OneBefore ==
    ASSUME NEW h \in Seq(Byte), Len(h) >= 6, NEW fs \in Seq(Seq(Byte)),
           \A i \in 1..Len(fs) : Len(fs[i]) >= 6
    PROVE  \A i \in 1..Len(<<h>> \o fs) : Len((<<h>> \o fs)[i]) >= 6
<1> DEFINE S == Seq(Byte)
           u == <<h>> \o fs
           n == Len(fs)
<1>1. <<h>> \in Seq(S) /\ fs \in Seq(S) /\ Len(<<h>>) = 1 /\ <<h>>[1] = h /\ n \in Nat
  OBVIOUS
<1> HIDE DEF S
<1>2. Len(u) = 1 + n /\ \A i \in 1..(1 + n) : u[i] = IF i <= 1 THEN <<h>>[i] ELSE fs[i - 1]
  BY <1>1, Concatenated
<1> HIDE DEF u
<1>3. ASSUME NEW i \in 1..Len(u) PROVE Len(u[i]) >= 6
  <2>1. CASE i = 1
    <3>1. u[i] = h
      BY <1>1, <1>2, <2>1
    <3> QED BY <3>1
  <2>2. CASE i # 1
    <3>1. i - 1 \in 1..n /\ i \in 1..(1 + n) /\ ~(i <= 1)
      BY <1>1, <1>2, <2>2
    <3>2. u[i] = fs[i - 1]
      BY <1>2, <3>1
    <3> QED BY <3>1, <3>2
  <2> QED BY <2>1, <2>2
<1> QED BY <1>3 DEF u

LEMMA FramesLong == \A s \in Seq(Byte) : LongFrames(s)
<1> DEFINE B == {s \in Seq(Byte) : ~ LongFrames(s)}
<1> SUFFICES ASSUME B # {} PROVE FALSE
  OBVIOUS
<1>1. PICK s \in B : \A t \in Seq(Byte) : Len(t) < Len(s) => t \notin B
  <2>1. B \in SUBSET Seq(Byte)
    OBVIOUS
  <2> HIDE DEF B
  <2> QED BY <2>1, ShortestSeq
<1>2. s \in Seq(Byte) /\ ~ LongFrames(s) /\ \A t \in Seq(Byte) : Len(t) < Len(s) => LongFrames(t)
  BY <1>1
<1> HIDE DEF B
<1> DEFINE skipped == Scan(Rest(s, 2))
           found == Scan(Rest(s, 1 + FrameLength(s)))
           Long(r) == \A i \in 1..Len(r.frames) : Len(r.frames[i]) >= 6
<1>3. Scan(s) = Decide(s, skipped, found)
  BY <1>2, ScanStep
<1>4. s # <<>> => skipped \in Result /\ Long(skipped)
  BY <1>2, Shorter, ScanType DEF ScanGood, LongFrames
<1>5. s # <<>> /\ Whole(s) => found \in Result /\ Long(found)
  BY <1>2, Shorter, ScanType DEF ScanGood, LongFrames
<1>10. ~ Long(Scan(s))
  BY <1>2 DEF LongFrames
<1> HIDE DEF skipped, found
<1>6. CASE s = <<>> \/ (s[1] = Preamble /\ ~Whole(s))
  <2>1. Scan(s) = Nothing(s)
    BY <1>3, <1>6 DEF Decide
  <2>2. Nothing(s).frames = <<>>
    BY DEF Nothing
  <2> QED BY <1>10, <2>1, <2>2
<1>7. CASE s # <<>> /\ s[1] # Preamble
  <2>1. Scan(s) = skipped
    BY <1>3, <1>7 DEF Decide
  <2> QED BY <1>4, <1>7, <1>10, <2>1
<1>8. CASE s # <<>> /\ s[1] = Preamble /\ Whole(s) /\ Good(HeadFrame(s))
  <2> DEFINE h == HeadFrame(s)
             fs == found.frames
  <2>1. Scan(s) = Found(h, found)
    BY <1>3, <1>8 DEF Decide
  <2>2. h \in Seq(Byte) /\ Len(h) >= 6
    BY <1>2, <1>8, HeadLong
  <2>3. found \in Result /\ Long(found)
    BY <1>5, <1>8
  <2> HIDE DEF h
  <2>4. Found(h, found).frames = <<h>> \o fs
    <3>1. found \in Result /\ h \in Seq(Byte)
      BY <2>2, <2>3
    <3>2. Found(h, found) = [frames |-> <<h>> \o fs, errors |-> found.errors, rest |-> found.rest]
      BY <3>1, LaterType
    <3> HIDE DEF fs
    <3> QED BY <3>2
  <2>5. fs \in Seq(Seq(Byte)) /\ \A i \in 1..Len(fs) : Len(fs[i]) >= 6
    BY <2>3 DEF Result
  <2> HIDE DEF fs
  <2>6. \A i \in 1..Len(<<h>> \o fs) : Len((<<h>> \o fs)[i]) >= 6
    BY <2>2, <2>5, OneBefore
  <2> QED BY <1>10, <2>1, <2>4, <2>6
<1>9. CASE s # <<>> /\ s[1] = Preamble /\ Whole(s) /\ ~ Good(HeadFrame(s))
  <2>1. Scan(s) = Refused(skipped)
    BY <1>3, <1>9 DEF Decide
  <2>2. Refused(skipped).frames = skipped.frames
    <3>1. skipped \in Result /\ <<>> \in Seq(Byte)
      BY <1>4, <1>9
    <3>2. Refused(skipped) = [frames |-> skipped.frames, errors |-> skipped.errors + 1,
                              rest |-> skipped.rest]
      BY <3>1, LaterType
    <3> QED BY <3>2
  <2> QED BY <1>4, <1>9, <1>10, <2>1, <2>2
<1> QED BY <1>6, <1>7, <1>8, <1>9

\* Twelve bits.
LEMMA MessageTypeType ==
    ASSUME NEW f \in Seq(Byte), Len(f) >= 6
    PROVE  MessageType(f) \in MessageTypes
<1>1. f[4] \in Byte /\ f[5] \in Byte
  OBVIOUS
<1> DEFINE x == f[4]
           y == f[5]
<1>2. x \in 0..255 /\ y \in 0..255 /\ MessageType(f) = x * 16 + y \div 16
  BY <1>1 DEF Byte, MessageType
<1> HIDE DEF x, y
<1>3. y \div 16 \in 0..15
  BY <1>2
<1>4. x * 16 + y \div 16 \in 0..4095
  BY <1>2, <1>3
<1> QED BY <1>2, <1>4 DEF MessageTypes

LEMMA ScanTyped ==
    ASSUME NEW s \in Seq(Byte)
    PROVE  Typed(Scan(s).frames)
<1> DEFINE fs == Scan(s).frames
<1>1. fs \in Seq(Seq(Byte)) /\ \A i \in 1..Len(fs) : Len(fs[i]) >= 6
  BY ScanFields, FramesLong DEF LongFrames
<1> HIDE DEF fs
<1>2. ASSUME NEW i \in 1..Len(fs) PROVE MessageType(fs[i]) \in MessageTypes
  BY <1>1, MessageTypeType
<1> QED BY <1>2 DEF Typed, fs

\* What record_rtcm_frame keeps agrees with the frames it was given.
HubInv ==
    /\ counts \in Tables /\ Room(counts)
    /\ Total(counts) = Len(emitted)
    /\ rxBytes = Bytes(emitted)

LEMMA EmptyTable ==
    /\ << >> \in Tables /\ Room(<< >>) /\ Total(<< >>) = 0
    /\ <<>> \in Seq(Seq(Byte)) /\ Bytes(<<>>) = 0 /\ Len(<<>>) = 0
<1>1. << >> \in Tables /\ DOMAIN << >> = {}
  <2>1. DOMAIN << >> = {} /\ << >> \in [{} -> Nat \ {0}]
    OBVIOUS
  <2> QED BY <2>1, TableIs
<1>2. Room(<< >>)
  BY <1>1, FS_EmptySet, StreamAssumption DEF Room
<1>3. Total(<< >>) = 0
  <2>1. PICK F : Adds(<< >>, DOMAIN << >>, F) /\ Total(<< >>) = F[DOMAIN << >>]
    BY <1>1, TotalAdds
  <2> QED BY <1>1, <2>1, AddsAt
<1>4. <<>> \in Seq(Seq(Byte)) /\ Len(<<>>) = 0
  OBVIOUS
<1> QED BY <1>1, <1>2, <1>3, <1>4, BytesNat

LEMMA HubInvInit == Init => HubInv
  BY EmptyTable DEF Init, HubInv

LEMMA ReadChunkHub ==
    ASSUME ParserInv, HubInv, NEW n \in 1..Len(input), ReadChunk(n)
    PROVE  HubInv'
<1> DEFINE t == buffer \o SubSeq(input, pos + 1, pos + n)
           fs == Scan(t).frames
<1>1. t \in Seq(Byte)
  BY ChunkScanned
<1>2. /\ emitted' = emitted \o fs
      /\ counts' = TableAfter(counts, fs)
      /\ rxBytes' = rxBytes + Bytes(fs)
  BY DEF ReadChunk, TableAfter
<1> HIDE DEF t
<1>3. fs \in Seq(Seq(Byte)) /\ Typed(fs)
  BY <1>1, ScanFields, ScanTyped
<1>4. emitted \in Seq(Seq(Byte))
  BY DEF ParserInv, StreamType
<1> HIDE DEF fs
<1>5. /\ counts' \in Tables /\ Room(counts')
      /\ Total(counts') = Total(counts) + Len(fs)
  BY <1>2, <1>3, TableAfterFacts DEF HubInv
<1>6. Len(emitted') = Len(emitted) + Len(fs)
  BY <1>2, <1>3, <1>4
<1>7. Bytes(emitted') = Bytes(emitted) + Bytes(fs)
  BY <1>2, <1>3, <1>4, BytesJoin
<1>8. Total(counts') = Len(emitted') /\ rxBytes' = Bytes(emitted')
  BY <1>2, <1>5, <1>6, <1>7 DEF HubInv
<1> QED BY <1>5, <1>8 DEF HubInv

LEMMA HubInvNext == ParserInv /\ HubInv /\ [Next]_vars => HubInv'
<1> SUFFICES ASSUME ParserInv, HubInv, [Next]_vars PROVE HubInv'
  OBVIOUS
<1>1. ASSUME NEW bytes \in Inputs, Connect(bytes) PROVE HubInv'
  BY <1>1 DEF Connect, HubInv, hubVars
<1>2. ASSUME NEW n \in 1..Len(input), ReadChunk(n) PROVE HubInv'
  BY <1>2, ReadChunkHub
<1>3. CASE Disconnect
  BY <1>3 DEF Disconnect, HubInv, hubVars
<1>4. CASE RelayNext /\ UNCHANGED <<parserVars, hubVars>>
  BY <1>4 DEF HubInv, hubVars
<1>5. CASE UNCHANGED vars
  BY <1>5 DEF HubInv, vars, hubVars
<1> QED BY <1>1, <1>2, <1>3, <1>4, <1>5 DEF Next

LEMMA HubAlways == Spec => []HubInv
  BY ParserAlways, HubInvInit, HubInvNext, PTL DEF Spec

\* The hub's counts tell the same story as its frames, however many message
\* types there are: no frame is missing in the sum of the table, the table stays
\* in bounds, the bytes add up (record_rtcm_frame, on_source_data).
THEOREM CountsAddUp == Spec => []CountsAgree
<1>1. ParserInv /\ HubInv => CountsAgree
  <2> SUFFICES ASSUME ParserInv, HubInv PROVE CountsAgree
    OBVIOUS
  <2>1. frames = Len(emitted) /\ rxBytes = Bytes(emitted) /\ Total(counts) = frames
    BY DEF ParserInv, StreamType, HubInv
  <2>2. Cardinality(DOMAIN counts) \in Nat
    BY TableFinite DEF HubInv
  <2>3. Cardinality(DOMAIN counts) <= MaxTypes + 1
    BY <2>2, StreamAssumption DEF HubInv, Room
  <2> QED BY <2>1, <2>3, Zenon DEF CountsAgree, Total
<1> QED BY <1>1, ParserAlways, HubAlways, PTL

\* What the parser cannot decide is shorter than the longest frame.
LEMMA UndecidedShort ==
    ASSUME NEW b \in Seq(Byte), Undecided(b)
    PROVE  Len(b) < HeaderBytes + 1023 + CrcBytes
<1>1. CASE Len(b) < 3
  BY <1>1 DEF HeaderBytes, CrcBytes
<1>2. CASE Len(b) >= 3
  <2> DEFINE x == b[2]
             y == b[3]
  <2>0. b[2] \in Byte /\ b[3] \in Byte
    BY <1>2
  <2>1. x \in 0..255 /\ y \in 0..255 /\ FrameLength(b) = 3 + ((x % 4) * 256 + y) + 3
    BY <2>0 DEF Byte, FrameLength, PayloadLength, HeaderBytes, CrcBytes
  <2> HIDE DEF x, y
  <2>2. x % 4 \in 0..3
    BY <2>1
  <2>3. FrameLength(b) <= 3 + 1023 + 3 /\ FrameLength(b) \in Nat
    BY <2>1, <2>2
  <2>4. b # <<>> /\ ~Whole(b)
    BY <1>2 DEF Undecided
  <2>5. Len(b) < FrameLength(b)
    BY <1>2, <2>3, <2>4 DEF Whole, HeaderBytes
  <2> QED BY <2>3, <2>5 DEF HeaderBytes, CrcBytes
<1> QED BY <1>1, <1>2

\* Every variable of the uplink, the hub and the relay has its type; the parser
\* waits for no more than one frame, and no queue passes its bound.
THEOREM TypeCorrect == Spec => []TypeOK
<1>1. ParserInv /\ HubInv /\ RelayInv => TypeOK
  <2> SUFFICES ASSUME ParserInv, HubInv, RelayInv PROVE TypeOK
    OBVIOUS
  <2>1. StreamType /\ buffer = Scan(Received).rest
    BY DEF ParserInv, ChunkingIrrelevant
  <2>2. Received \in Seq(Byte)
    BY <2>1 DEF StreamType, Received
  <2>3. buffer \in Seq(Byte) /\ Undecided(buffer)
    BY <2>1, <2>2, ScanFields
  <2>4. Len(buffer) < HeaderBytes + 1023 + CrcBytes
    BY <2>3, UndecidedShort
  <2>5. frames \in Nat /\ rxBytes \in Nat
    <3>1. emitted \in Seq(Seq(Byte)) /\ frames = Len(emitted) /\ rxBytes = Bytes(emitted)
      BY <2>1 DEF StreamType, HubInv
    <3>2. Len(emitted) \in Nat
      BY <3>1
    <3>3. Bytes(emitted) \in Nat
      BY <3>1, BytesNat
    <3> QED BY <3>1, <3>2, <3>3
  <2>6. DOMAIN counts \subseteq MessageTypes /\ \A t \in DOMAIN counts : counts[t] \in Nat \ {0}
    BY TableFinite DEF HubInv
  <2>7. RelayTypeOK
    BY DEF RelayInv, LoopType, PeerType, RelayTypeOK
  <2> QED BY <2>1, <2>3, <2>4, <2>5, <2>6, <2>7 DEF TypeOK, StreamType
<1> QED BY <1>1, ParserAlways, HubAlways, RelayAlways, PTL

-----------------------------------------------------------------------------
(* What the frames of a scan are: all good ones in no earlier one *)

Sound(b) == b # <<>> /\ b[1] = Preamble /\ Whole(b) /\ Good(HeadFrame(b))

Reach(s, i) == i + FrameLength(Rest(s, i))

\* S is where good frames begin in s that lie in no earlier one, up to g.
Free(s, S, i) == \A j \in S : j < i => Reach(s, j) <= i

Greedy(s, S, g) ==
    S \in SUBSET (1..g) /\ \A i \in 1..g : i \in S <=> (Sound(Rest(s, i)) /\ Free(s, S, i))

Upwards(S, i) == {j \in S : j <= i}

\* The frames fs are those that begin at S, in order.
Told(s, S, fs) ==
    /\ Len(fs) = Cardinality(S)
    /\ \A i \in S : fs[Cardinality(Upwards(S, i))] = HeadFrame(Rest(s, i))

Shifted(S, k) == {i + k : i \in S}

LEMMA ShiftedIn ==
    ASSUME NEW g \in Nat, NEW S \in SUBSET (1..g), NEW k \in Nat
    PROVE  /\ Shifted(S, k) \in SUBSET ((k + 1)..(g + k))
           /\ \A i \in 1..g : i + k \in Shifted(S, k) <=> i \in S
           /\ \A j \in Shifted(S, k) : j - k \in S /\ j - k \in 1..g /\ (j - k) + k = j
<1>1. \A i \in S : i + k \in (k + 1)..(g + k)
  OBVIOUS
<1>2. ASSUME NEW i \in 1..g PROVE i + k \in Shifted(S, k) <=> i \in S
  <2>1. ASSUME NEW j \in S, i + k = j + k PROVE i = j
    BY <2>1
  <2> QED BY <2>1 DEF Shifted
<1>3. ASSUME NEW j \in Shifted(S, k) PROVE j - k \in S /\ j - k \in 1..g /\ (j - k) + k = j
  <2>1. PICK i \in S : j = i + k
    BY DEF Shifted
  <2>2. i \in 1..g
    OBVIOUS
  <2>3. j - k = i
    BY <2>1, <2>2
  <2> QED BY <2>1, <2>2, <2>3
<1>4. Shifted(S, k) \in SUBSET ((k + 1)..(g + k))
  BY <1>1 DEF Shifted
<1> QED BY <1>2, <1>3, <1>4

Back(S, g, k, j) == j - k \in S /\ j - k \in 1..g /\ (j - k) + k = j

LEMMA MovedBack ==
    ASSUME NEW g \in Nat, NEW S \in SUBSET (1..g), NEW k \in Nat, NEW j \in Shifted(S, k)
    PROVE  Back(S, g, k, j)
<1>1. PICK i \in S : j = i + k
  BY DEF Shifted
<1>2. i \in 1..g
  OBVIOUS
<1>3. j - k = i
  BY <1>1, <1>2
<1> QED BY <1>1, <1>2, <1>3 DEF Back

LEMMA MovedSize ==
    ASSUME NEW g \in Nat, NEW S \in SUBSET (1..g), NEW k \in Nat
    PROVE  /\ IsFiniteSet(S) /\ Cardinality(S) \in Nat /\ IsFiniteSet(Shifted(S, k))
           /\ Cardinality(Shifted(S, k)) = Cardinality(S)
<1>1. IsFiniteSet(S) /\ Cardinality(S) \in Nat
  <2>1. IsFiniteSet(1..g)
    BY FS_Interval
  <2> QED BY <2>1, FS_Subset, FS_CardinalityType
<1> DEFINE f == [i \in S |-> i + k]
           T == Shifted(S, k)
<1>2. f \in [S -> T] /\ \A i \in S : f[i] = i + k
  BY DEF Shifted
<1>3. \A i, j \in S : f[i] = f[j] => i = j
  <2> SUFFICES ASSUME NEW i \in S, NEW j \in S, f[i] = f[j] PROVE i = j
    OBVIOUS
  <2>1. i + k = j + k /\ i \in Nat /\ j \in Nat
    BY <1>2
  <2> QED BY <2>1
<1>4. \A j \in T : \E i \in S : f[i] = j
  BY <1>2 DEF Shifted
<1> HIDE DEF f, T
<1>5. f \in Bijection(S, T)
  BY <1>2, <1>3, <1>4 DEF Bijection, Injection, Surjection, IsInjective
<1>6. ExistsBijection(S, T)
  BY <1>5 DEF ExistsBijection
<1>7. IsFiniteSet(T) /\ Cardinality(T) = Cardinality(S)
  BY <1>1, <1>6, FS_Bijection
<1> QED BY <1>1, <1>7 DEF T

\* What is at i in the rest of s from k + 1 on is at i + k in s.
LEMMA RestMoved ==
    ASSUME NEW s \in Seq(Byte), NEW k \in 1..Len(s), NEW i \in 1..(Len(s) + 1 - k)
    PROVE  Rest(Rest(s, 1 + k), i) = Rest(s, i + k)
<1>1. Len(s) \in Nat
  OBVIOUS
<1>2. 1 + k \in 1..(Len(s) + 1) /\ i \in 1..(Len(s) + 2 - (1 + k)) /\ (1 + k) + i - 1 = i + k
  BY <1>1
<1> DEFINE m == 1 + k
<1>3. m \in 1..(Len(s) + 1) /\ i \in 1..(Len(s) + 2 - m) /\ m + i - 1 = i + k
  BY <1>2
<1> HIDE DEF m
<1>4. Rest(Rest(s, m), i) = Rest(s, m + i - 1)
  BY <1>3, RestOfRest
<1> QED BY <1>3, <1>4 DEF m

LEMMA SoundReach ==
    ASSUME NEW s \in Seq(Byte), NEW i \in 1..(Len(s) + 1), Sound(Rest(s, i))
    PROVE  /\ FrameLength(Rest(s, i)) \in Nat /\ FrameLength(Rest(s, i)) >= 6
           /\ Reach(s, i) = i + FrameLength(Rest(s, i))
<1>1. Rest(s, i) \in Seq(Byte) /\ Whole(Rest(s, i))
  BY RestType DEF Sound
<1> QED BY <1>1, WholeLength DEF Reach

\* What holds up to g of the rest holds from k on of s.
LEMMA GreedyMoved ==
    ASSUME NEW s \in Seq(Byte), NEW k \in 1..Len(s), NEW g \in Nat, g <= Len(s) - k,
           NEW S, Greedy(Rest(s, 1 + k), S, g), NEW i \in 1..g
    PROVE  i + k \in Shifted(S, k) <=> (Sound(Rest(s, i + k)) /\ Free(s, Shifted(S, k), i + k))
<1> DEFINE r == Rest(s, 1 + k)
           M == Shifted(S, k)
<1>0. Len(s) \in Nat /\ k \in Nat /\ r \in Seq(Byte) /\ Len(r) = Len(s) - k
  <2>1. 1 + k \in 1..(Len(s) + 1) /\ Len(s) \in Nat
    OBVIOUS
  <2>2. Rest(s, 1 + k) \in Seq(Byte) /\ Len(Rest(s, 1 + k)) = Len(s) + 1 - (1 + k)
    BY <2>1, RestType
  <2> QED BY <2>1, <2>2
<1>1. S \in SUBSET (1..g) /\ (i \in S <=> (Sound(Rest(r, i)) /\ Free(r, S, i)))
  BY DEF Greedy
<1>2. \A j \in 1..g : j \in 1..(Len(s) + 1 - k) /\ j \in 1..(Len(r) + 1) /\ j \in Nat
  BY <1>0
<1>3. \A j \in 1..g : Rest(r, j) = Rest(s, j + k)
  BY <1>2, RestMoved
<1>4. \A j \in S : Reach(r, j) \in Nat /\ Reach(s, j + k) = Reach(r, j) + k
  <2> SUFFICES ASSUME NEW j \in S
               PROVE  Reach(r, j) \in Nat /\ Reach(s, j + k) = Reach(r, j) + k
    OBVIOUS
  <2>1. j \in 1..g /\ Sound(Rest(r, j))
    BY <1>1 DEF Greedy
  <2> HIDE DEF r
  <2>2. j \in 1..(Len(r) + 1) /\ j \in Nat /\ Rest(r, j) = Rest(s, j + k)
    BY <1>2, <1>3, <2>1
  <2>3. FrameLength(Rest(r, j)) \in Nat /\ Reach(r, j) = j + FrameLength(Rest(r, j))
    BY <1>0, <2>1, <2>2, SoundReach
  <2> DEFINE n == FrameLength(Rest(r, j))
  <2>4. Reach(s, j + k) = (j + k) + n
    BY <2>2 DEF Reach
  <2>5. n \in Nat /\ Reach(r, j) = j + n
    BY <2>3
  <2> HIDE DEF n
  <2> QED BY <1>0, <2>2, <2>4, <2>5
<1>5. i + k \in M <=> i \in S
  BY <1>0, <1>1, ShiftedIn
<1>6. Free(s, M, i + k) <=> Free(r, S, i)
  <2>1. ASSUME Free(r, S, i), NEW m \in M, m < i + k PROVE Reach(s, m) <= i + k
    <3> DEFINE j == m - k
    <3>4. g \in Nat /\ S \in SUBSET (1..g) /\ k \in Nat /\ m \in Shifted(S, k)
      BY <1>0, <1>1
    <3>0. Back(S, g, k, m)
      BY <3>4, MovedBack
    <3>1. j \in S /\ j \in 1..g /\ j + k = m
      BY <3>0 DEF Back
    <3> HIDE DEF j
    <3>2. j < i
      BY <1>0, <2>1, <3>1
    <3>3. Reach(r, j) <= i
      BY <2>1, <3>1, <3>2 DEF Free
    <3>5. Reach(r, j) \in Nat /\ Reach(s, m) = Reach(r, j) + k
      BY <1>4, <3>1
    <3> QED BY <1>0, <3>3, <3>5
  <2>2. ASSUME Free(s, M, i + k), NEW j \in S, j < i PROVE Reach(r, j) <= i
    <3>1. j \in 1..g /\ j + k \in M
      BY <1>0, <1>1, ShiftedIn
    <3>2. j + k < i + k
      BY <1>0, <2>2, <3>1
    <3>3. Reach(s, j + k) <= i + k
      BY <2>2, <3>1, <3>2 DEF Free
    <3>4. Reach(r, j) \in Nat /\ Reach(s, j + k) = Reach(r, j) + k
      BY <1>4
    <3> QED BY <1>0, <3>3, <3>4
  <2> QED BY <2>1, <2>2 DEF Free
<1>7. Rest(r, i) = Rest(s, i + k)
  BY <1>3
<1> HIDE DEF r, M
<1>8. i + k \in M <=> (Sound(Rest(s, i + k)) /\ Free(s, M, i + k))
  BY <1>1, <1>5, <1>6, <1>7
<1> QED BY <1>8 DEF M

LEMMA UpwardsMoved ==
    ASSUME NEW g \in Nat, NEW S \in SUBSET (1..g), NEW k \in Nat, NEW i \in 1..g
    PROVE  /\ Upwards(Shifted(S, k), i + k) = Shifted(Upwards(S, i), k)
           /\ Upwards(S, i) \in SUBSET (1..g)
<1>1. Upwards(S, i) \in SUBSET (1..g)
  BY DEF Upwards
<1>2. ASSUME NEW m \in Upwards(Shifted(S, k), i + k)
      PROVE  m \in Shifted(Upwards(S, i), k)
  <2>1. m \in Shifted(S, k) /\ m <= i + k
    BY DEF Upwards
  <2>2. PICK j \in S : m = j + k
    BY <2>1 DEF Shifted
  <2>3. j \in 1..g
    OBVIOUS
  <2>4. j <= i
    BY <2>1, <2>2, <2>3
  <2>5. j \in Upwards(S, i)
    BY <2>4 DEF Upwards
  <2> QED BY <2>2, <2>5 DEF Shifted
<1>3. ASSUME NEW m \in Shifted(Upwards(S, i), k)
      PROVE  m \in Upwards(Shifted(S, k), i + k)
  <2>1. PICK j \in Upwards(S, i) : m = j + k
    BY DEF Shifted
  <2>2. j \in S /\ j <= i
    BY DEF Upwards
  <2>3. j \in 1..g
    BY <2>2
  <2>4. m <= i + k
    BY <2>1, <2>2, <2>3
  <2>5. m \in Shifted(S, k)
    BY <2>1, <2>2 DEF Shifted
  <2> QED BY <2>4, <2>5 DEF Upwards
<1> QED BY <1>1, <1>2, <1>3

\* A byte that begins no good frame is passed over.
LEMMA PassedOver ==
    ASSUME NEW s \in Seq(Byte), s # <<>>, ~ Sound(s),
           NEW g \in Nat, g <= Len(s) - 1, NEW S, Greedy(Rest(s, 2), S, g),
           NEW fs, Told(Rest(s, 2), S, fs)
    PROVE  Greedy(s, Shifted(S, 1), g + 1) /\ Told(s, Shifted(S, 1), fs)
<1> DEFINE M == Shifted(S, 1)
           r == Rest(s, 2)
<1>0. Len(s) \in Nat /\ 1 \in 1..Len(s) /\ 1 \in Nat /\ 1 + 1 = 2 /\ S \in SUBSET (1..g)
  BY DEF Greedy
<1>1. /\ M \in SUBSET (2..(g + 1))
      /\ \A j \in M : j - 1 \in S /\ j - 1 \in 1..g /\ (j - 1) + 1 = j
  <2>1. \A j \in M : j - 1 \in S /\ j - 1 \in 1..g /\ (j - 1) + 1 = j
    <3> SUFFICES ASSUME NEW j \in M PROVE j - 1 \in S /\ j - 1 \in 1..g /\ (j - 1) + 1 = j
      OBVIOUS
    <3>1. Back(S, g, 1, j)
      BY <1>0, MovedBack
    <3> QED BY <3>1 DEF Back
  <2>2. M \in SUBSET ((1 + 1)..(g + 1))
    BY <1>0, ShiftedIn
  <2> QED BY <2>1, <2>2
<1>2. \A i \in 1..g : i + 1 \in M <=> (Sound(Rest(s, i + 1)) /\ Free(s, M, i + 1))
  BY <1>0, GreedyMoved
<1>3. ~ Sound(Rest(s, 1))
  <2>1. Rest(s, 1) = s
    BY DEF Rest
  <2> QED BY <2>1
<1>4. \A i \in 1..g : Rest(r, i) = Rest(s, i + 1)
  <2> SUFFICES ASSUME NEW i \in 1..g PROVE Rest(r, i) = Rest(s, i + 1)
    OBVIOUS
  <2>1. i \in 1..(Len(s) + 1 - 1)
    BY <1>0
  <2> QED BY <1>0, <2>1, RestMoved
<1>5. Cardinality(M) = Cardinality(S)
  BY <1>0, MovedSize
<1>6. \A i \in 1..g : Cardinality(Upwards(M, i + 1)) = Cardinality(Upwards(S, i))
  <2> SUFFICES ASSUME NEW i \in 1..g
               PROVE  Cardinality(Upwards(M, i + 1)) = Cardinality(Upwards(S, i))
    OBVIOUS
  <2> DEFINE U == Upwards(S, i)
  <2>1. Upwards(M, i + 1) = Shifted(U, 1) /\ U \in SUBSET (1..g)
    BY <1>0, UpwardsMoved
  <2> HIDE DEF U, M
  <2>2. Cardinality(Shifted(U, 1)) = Cardinality(U)
    BY <1>0, <2>1, MovedSize
  <2> QED BY <2>1, <2>2 DEF U
<1> HIDE DEF M, r
<1>7. Greedy(s, M, g + 1)
  <2>1. M \in SUBSET (1..(g + 1))
    BY <1>1
  <2>2. ASSUME NEW i \in 1..(g + 1) PROVE i \in M <=> (Sound(Rest(s, i)) /\ Free(s, M, i))
    <3>1. CASE i = 1
      <4>1. 1 \notin M
        BY <1>1
      <4> QED BY <1>3, <3>1, <4>1
    <3>2. CASE i # 1
      <4> DEFINE j == i - 1
      <4>1. j \in 1..g /\ j + 1 = i
        BY <3>2
      <4> HIDE DEF j
      <4>2. j + 1 \in M <=> (Sound(Rest(s, j + 1)) /\ Free(s, M, j + 1))
        BY <1>2, <4>1
      <4> QED BY <4>1, <4>2
    <3> QED BY <3>1, <3>2
  <2> QED BY <2>1, <2>2 DEF Greedy
<1>8. Told(s, M, fs)
  <2>1. Len(fs) = Cardinality(M)
    BY <1>5 DEF Told
  <2>2. ASSUME NEW i \in M PROVE fs[Cardinality(Upwards(M, i))] = HeadFrame(Rest(s, i))
    <3> DEFINE j == i - 1
    <3>1. j \in S /\ j \in 1..g /\ j + 1 = i
      BY <1>1
    <3> HIDE DEF j
    <3>2. fs[Cardinality(Upwards(S, j))] = HeadFrame(Rest(r, j))
      BY <3>1 DEF Told, r
    <3>3. Cardinality(Upwards(M, j + 1)) = Cardinality(Upwards(S, j)) /\ Rest(r, j) = Rest(s, j + 1)
      BY <1>4, <1>6, <3>1
    <3> QED BY <3>1, <3>2, <3>3
  <2> QED BY <2>1, <2>2 DEF Told
<1> QED BY <1>7, <1>8 DEF M

\* A good frame is taken, and what begins inside it is not.
LEMMA TakenWhole ==
    ASSUME NEW s \in Seq(Byte), Sound(s),
           NEW g \in Nat, g <= Len(s) - FrameLength(s),
           NEW S, Greedy(Rest(s, 1 + FrameLength(s)), S, g),
           NEW fs \in Seq(Seq(Byte)), Told(Rest(s, 1 + FrameLength(s)), S, fs)
    PROVE  /\ Greedy(s, {1} \cup Shifted(S, FrameLength(s)), g + FrameLength(s))
           /\ Told(s, {1} \cup Shifted(S, FrameLength(s)), <<HeadFrame(s)>> \o fs)
<1> DEFINE n == FrameLength(s)
           r == Rest(s, 1 + n)
           M == Shifted(S, n)
           A == {1} \cup M
           h == HeadFrame(s)
           all == <<h>> \o fs
<1>0. /\ Len(s) \in Nat /\ n \in Nat /\ n >= 6 /\ n <= Len(s) /\ n \in 1..Len(s)
      /\ S \in SUBSET (1..g) /\ g <= Len(s) - n
  <2>1. Len(s) \in Nat /\ S \in SUBSET (1..g)
    BY DEF Greedy
  <2>2. n \in Nat /\ n >= 6 /\ n <= Len(s)
    BY WholeLength DEF Sound
  <2> QED BY <2>1, <2>2
<1>9. Greedy(r, S, g) /\ Told(r, S, fs)
  OBVIOUS
<1>1. Rest(s, 1) = s /\ Reach(s, 1) = 1 + n /\ Sound(s)
  <2>1. Rest(s, 1) = s
    BY DEF Rest
  <2> QED BY <2>1 DEF Reach
<1>2. h \in Seq(Byte)
  BY HeadLong DEF Sound
<1> HIDE DEF n
<1>3. /\ M \in SUBSET ((n + 1)..(g + n))
      /\ \A j \in M : j - n \in S /\ j - n \in 1..g /\ (j - n) + n = j
      /\ \A i \in 1..g : i + n \in M <=> i \in S
  BY <1>0, ShiftedIn
<1>4. \A i \in 1..g : i + n \in M <=> (Sound(Rest(s, i + n)) /\ Free(s, M, i + n))
  BY <1>0, <1>9, GreedyMoved
<1>5. \A i \in 1..g : Rest(r, i) = Rest(s, i + n)
  <2> SUFFICES ASSUME NEW i \in 1..g PROVE Rest(r, i) = Rest(s, i + n)
    OBVIOUS
  <2>1. i \in 1..(Len(s) + 1 - n)
    BY <1>0
  <2> QED BY <1>0, <2>1, RestMoved
<1>6. /\ IsFiniteSet(S) /\ Cardinality(S) \in Nat /\ IsFiniteSet(M)
      /\ Cardinality(M) = Cardinality(S)
  BY <1>0, MovedSize
<1>7. 1 \notin M
  BY <1>0, <1>3
<1>8. Cardinality(A) = Cardinality(S) + 1
  <2>1. A = M \cup {1}
    OBVIOUS
  <2>2. Cardinality(M \cup {1}) = IF 1 \in M THEN Cardinality(M) ELSE Cardinality(M) + 1
    BY <1>6, FS_AddElement
  <2> HIDE DEF M, A
  <2> QED BY <1>6, <1>7, <2>1, <2>2
<1>10. \A i \in 1..g : i \in S => /\ Cardinality(Upwards(A, i + n)) = Cardinality(Upwards(S, i)) + 1
                                  /\ Cardinality(Upwards(S, i)) \in 1..Cardinality(S)
  <2> SUFFICES ASSUME NEW i \in 1..g, i \in S
               PROVE  /\ Cardinality(Upwards(A, i + n)) = Cardinality(Upwards(S, i)) + 1
                      /\ Cardinality(Upwards(S, i)) \in 1..Cardinality(S)
    OBVIOUS
  <2> DEFINE U == Upwards(S, i)
             V == Shifted(U, n)
  <2>1. Upwards(M, i + n) = V /\ U \in SUBSET (1..g)
    BY <1>0, UpwardsMoved
  <2>2. Upwards(A, i + n) = V \cup {1} /\ 1 \notin V
    <3>1. 1 <= i + n
      BY <1>0
    <3>2. Upwards(A, i + n) = Upwards(M, i + n) \cup {1}
      BY <3>1 DEF Upwards
    <3>3. 1 \notin Upwards(M, i + n)
      BY <1>7 DEF Upwards
    <3> QED BY <2>1, <3>2, <3>3
  <2>3. i \in U /\ U \in SUBSET S
    BY DEF Upwards
  <2> HIDE DEF U
  <2>4. IsFiniteSet(U) /\ Cardinality(U) \in Nat /\ IsFiniteSet(V) /\ Cardinality(V) = Cardinality(U)
    BY <1>0, <2>1, MovedSize
  <2>5. Cardinality(U) <= Cardinality(S)
    BY <1>6, <2>3, FS_Subset
  <2>6. Cardinality(U) # 0
    BY <2>3, <2>4, FS_EmptySet
  <2> HIDE DEF V
  <2>7. Cardinality(V \cup {1}) = IF 1 \in V THEN Cardinality(V) ELSE Cardinality(V) + 1
    BY <2>4, FS_AddElement
  <2>8. Cardinality(Upwards(A, i + n)) = Cardinality(U) + 1
    <3> HIDE DEF A
    <3> QED BY <2>2, <2>4, <2>7
  <2>9. Cardinality(U) \in 1..Cardinality(S)
    BY <1>6, <2>4, <2>5, <2>6
  <2> QED BY <2>8, <2>9 DEF U
<1> HIDE DEF M, r, h
<1>11. Greedy(s, A, g + n)
  <2>1. A \in SUBSET (1..(g + n))
    BY <1>0, <1>3
  <2>2. ASSUME NEW i \in 1..(g + n) PROVE i \in A <=> (Sound(Rest(s, i)) /\ Free(s, A, i))
    <3>1. CASE i = 1
      <4>1. Free(s, A, 1)
        <5> SUFFICES ASSUME NEW j \in A, j < 1 PROVE FALSE
          BY DEF Free
        <5>1. j \in 1..(g + n)
          BY <2>1
        <5> QED BY <5>1
      <4> QED BY <1>1, <3>1, <4>1
    <3>2. CASE i # 1 /\ i <= n
      <4>1. i \notin A
        BY <1>0, <1>3, <3>2
      <4>2. 1 \in A /\ 1 < i /\ ~ (Reach(s, 1) <= i)
        BY <1>0, <1>1, <3>2
      <4> QED BY <4>1, <4>2 DEF Free
    <3>3. CASE i > n
      <4> DEFINE j == i - n
      <4>1. j \in 1..g /\ j + n = i
        BY <1>0, <3>3
      <4> HIDE DEF j
      <4>2. i \in M <=> (Sound(Rest(s, i)) /\ Free(s, M, i))
        BY <1>4, <4>1
      <4>3. i \in A <=> i \in M
        BY <1>0, <3>3
      <4>4. Reach(s, 1) <= i
        BY <1>0, <1>1, <3>3
      <4>5. Free(s, A, i) <=> Free(s, M, i)
        BY <4>4 DEF Free
      <4> QED BY <4>2, <4>3, <4>5
    <3> QED BY <1>0, <3>1, <3>2, <3>3
  <2> QED BY <2>1, <2>2 DEF Greedy
<1>12. Told(s, A, all)
  <2>1. Len(all) = 1 + Len(fs) /\ Len(fs) \in Nat
        /\ \A x \in 1..(1 + Len(fs)) : all[x] = IF x <= 1 THEN h ELSE fs[x - 1]
    <3> DEFINE Q == Seq(Byte)
    <3>1. <<h>> \in Seq(Q) /\ fs \in Seq(Q) /\ Len(<<h>>) = 1 /\ <<h>>[1] = h /\ Len(fs) \in Nat
      BY <1>2
    <3> HIDE DEF Q
    <3>2. Len(<<h>> \o fs) = 1 + Len(fs)
          /\ \A x \in 1..(1 + Len(fs)) : (<<h>> \o fs)[x] = IF x <= 1 THEN <<h>>[x] ELSE fs[x - 1]
      BY <3>1, Concatenated
    <3>3. \A x \in 1..(1 + Len(fs)) : x <= 1 => x = 1
      BY <3>1
    <3> HIDE DEF all
    <3> QED BY <3>1, <3>2, <3>3 DEF all
  <2>2. Len(fs) = Cardinality(S)
    BY <1>9 DEF Told
  <2> HIDE DEF all, A
  <2>3. Len(all) = Cardinality(A)
    BY <1>6, <1>8, <2>1, <2>2
  <2>4. ASSUME NEW i \in A PROVE all[Cardinality(Upwards(A, i))] = HeadFrame(Rest(s, i))
    <3>1. CASE i = 1
      <4>1. Upwards(A, 1) = {1}
        <5>1. \A j \in A : j <= 1 <=> j = 1
          BY <1>0, <1>3 DEF A
        <5> QED BY <5>1 DEF Upwards, A
      <4>2. Cardinality({1}) = 1
        BY FS_Singleton
      <4>3. all[1] = h
        BY <2>1
      <4> QED BY <1>1, <3>1, <4>1, <4>2, <4>3 DEF h
    <3>2. CASE i # 1
      <4> DEFINE j == i - n
      <4>1. i \in M
        BY <3>2 DEF A
      <4>2. j \in S /\ j \in 1..g /\ j + n = i
        BY <1>3, <4>1
      <4> HIDE DEF j
      <4> DEFINE c == Cardinality(Upwards(S, j))
      <4>3. Cardinality(Upwards(A, i)) = c + 1 /\ c \in 1..Len(fs)
        BY <1>10, <2>2, <4>2
      <4>4. fs[c] = HeadFrame(Rest(r, j))
        BY <1>9, <4>2 DEF Told
      <4> HIDE DEF c
      <4>5. all[c + 1] = fs[c]
        <5>1. c + 1 \in 1..(1 + Len(fs)) /\ ~(c + 1 <= 1) /\ (c + 1) - 1 = c
          BY <2>1, <4>3
        <5> QED BY <2>1, <5>1
      <4>6. Rest(r, j) = Rest(s, i)
        BY <1>5, <4>2
      <4> QED BY <4>3, <4>4, <4>5, <4>6
    <3> QED BY <3>1, <3>2
  <2> QED BY <2>3, <2>4 DEF Told
<1> QED BY <1>11, <1>12 DEF A, all, M, h, n

Finds(s) ==
    /\ Len(Scan(s).rest) <= Len(s)
    /\ \E S : Greedy(s, S, Len(s) - Len(Scan(s).rest)) /\ Told(s, S, Scan(s).frames)

\* The same, for a result of s.
FindsIn(s, r) ==
    /\ Len(r.rest) <= Len(s)
    /\ \E S : Greedy(s, S, Len(s) - Len(r.rest)) /\ Told(s, S, r.frames)

LEMMA NothingFinds ==
    ASSUME NEW s \in Seq(Byte)
    PROVE  FindsIn(s, Nothing(s))
<1>1. Nothing(s).rest = s /\ Nothing(s).frames = <<>> /\ Len(s) - Len(s) = 0 /\ Len(s) <= Len(s)
  BY DEF Nothing
<1>2. Greedy(s, {}, 0)
  BY DEF Greedy
<1>3. Told(s, {}, <<>>)
  BY FS_EmptySet DEF Told
<1> HIDE DEF Nothing
<1>4. Greedy(s, {}, Len(s) - Len(Nothing(s).rest)) /\ Told(s, {}, Nothing(s).frames)
  BY <1>1, <1>2, <1>3
<1> QED BY <1>1, <1>4 DEF FindsIn

LEMMA PassedFinds ==
    ASSUME NEW s \in Seq(Byte), s # <<>>, ~ Sound(s), NEW r \in Result, FindsIn(Rest(s, 2), r),
           NEW q, q.rest = r.rest, q.frames = r.frames
    PROVE  FindsIn(s, q)
<1> DEFINE t == Rest(s, 2)
           g == Len(t) - Len(r.rest)
<1>1. t \in Seq(Byte) /\ Len(t) = Len(s) - 1 /\ Len(s) \in Nat /\ Len(r.rest) \in Nat
  <2>1. 2 \in 1..(Len(s) + 1) /\ Len(s) \in Nat
    OBVIOUS
  <2>2. Rest(s, 2) \in Seq(Byte) /\ Len(Rest(s, 2)) = Len(s) + 1 - 2
    BY <2>1, RestType
  <2>3. Len(r.rest) \in Nat
    BY DEF Result
  <2> QED BY <2>1, <2>2, <2>3
<1>2. PICK S : Greedy(t, S, g) /\ Told(t, S, r.frames)
  BY DEF FindsIn
<1>3. Len(r.rest) <= Len(t)
  BY DEF FindsIn
<1>4. g \in Nat /\ g <= Len(s) - 1 /\ g + 1 = Len(s) - Len(r.rest) /\ Len(r.rest) <= Len(s)
  BY <1>1, <1>3
<1> HIDE DEF g
<1>5. Greedy(s, Shifted(S, 1), g + 1) /\ Told(s, Shifted(S, 1), r.frames)
  BY <1>2, <1>4, PassedOver DEF t
<1> QED BY <1>4, <1>5 DEF FindsIn

LEMMA TakenFinds ==
    ASSUME NEW s \in Seq(Byte), Sound(s), NEW r \in Result,
           FindsIn(Rest(s, 1 + FrameLength(s)), r)
    PROVE  FindsIn(s, Found(HeadFrame(s), r))
<1> DEFINE n == FrameLength(s)
           t == Rest(s, 1 + n)
           g == Len(t) - Len(r.rest)
           h == HeadFrame(s)
           q == Found(h, r)
<1>1. n \in Nat /\ n >= 6 /\ n <= Len(s) /\ Len(s) \in Nat /\ Len(r.rest) \in Nat
      /\ r.frames \in Seq(Seq(Byte)) /\ h \in Seq(Byte)
  BY WholeLength, HeadLong DEF Sound, Result
<1>2. t \in Seq(Byte) /\ Len(t) = Len(s) - n
  <2>1. 1 + n \in 1..(Len(s) + 1)
    BY <1>1
  <2>2. Rest(s, 1 + n) \in Seq(Byte) /\ Len(Rest(s, 1 + n)) = Len(s) + 1 - (1 + n)
    BY <2>1, RestType
  <2> QED BY <1>1, <2>2
<1>3. PICK S : Greedy(t, S, g) /\ Told(t, S, r.frames)
  BY DEF FindsIn
<1>4. Len(r.rest) <= Len(t)
  BY DEF FindsIn
<1>5. g \in Nat /\ g <= Len(s) - n /\ g + n = Len(s) - Len(r.rest) /\ Len(r.rest) <= Len(s)
  <2> DEFINE lt == Len(t)
             lr == Len(r.rest)
             ls == Len(s)
  <2>1. n \in Nat /\ ls \in Nat /\ lr \in Nat /\ lt = ls - n /\ lr <= lt /\ n <= ls
    BY <1>1, <1>2, <1>4
  <2>2. g = lt - lr
    OBVIOUS
  <2> HIDE DEF n, g, lt, lr, ls
  <2>3. g \in Nat /\ g <= ls - n /\ g + n = ls - lr /\ lr <= ls
    BY <2>1, <2>2
  <2> QED BY <2>3 DEF lr, ls
<1> HIDE DEF g
<1>6. /\ Greedy(s, {1} \cup Shifted(S, n), g + n)
      /\ Told(s, {1} \cup Shifted(S, n), <<h>> \o r.frames)
  BY <1>1, <1>3, <1>5, TakenWhole DEF t, n, h
<1>7. q.rest = r.rest /\ q.frames = <<h>> \o r.frames
  <2> HIDE DEF h
  <2>1. Found(h, r) = [frames |-> <<h>> \o r.frames, errors |-> r.errors, rest |-> r.rest]
    BY <1>1, LaterType
  <2> DEFINE x == <<h>> \o r.frames
  <2> HIDE DEF x
  <2>2. Found(h, r) = [frames |-> x, errors |-> r.errors, rest |-> r.rest]
    BY <2>1 DEF x
  <2>3. q.rest = r.rest /\ q.frames = x
    BY <2>2
  <2> QED BY <2>3 DEF x
<1> HIDE DEF q, n
<1>8. FindsIn(s, q)
  BY <1>5, <1>6, <1>7 DEF FindsIn
<1> QED BY <1>8 DEF q, h

LEMMA ScanFinds == \A s \in Seq(Byte) : Finds(s)
<1> DEFINE B == {s \in Seq(Byte) : ~ Finds(s)}
<1> SUFFICES ASSUME B # {} PROVE FALSE
  OBVIOUS
<1>1. PICK s \in B : \A t \in Seq(Byte) : Len(t) < Len(s) => t \notin B
  <2>1. B \in SUBSET Seq(Byte)
    OBVIOUS
  <2> HIDE DEF B
  <2> QED BY <2>1, ShortestSeq
<1>2. s \in Seq(Byte) /\ ~ Finds(s) /\ \A t \in Seq(Byte) : Len(t) < Len(s) => Finds(t)
  BY <1>1
<1> HIDE DEF B
<1>11. \A t \in Seq(Byte) : Finds(t) <=> FindsIn(t, Scan(t))
  BY DEF Finds, FindsIn
<1> DEFINE skipped == Scan(Rest(s, 2))
           found == Scan(Rest(s, 1 + FrameLength(s)))
<1>3. Scan(s) = Decide(s, skipped, found) /\ ~ FindsIn(s, Scan(s))
  BY <1>2, <1>11, ScanStep
<1>4. s # <<>> => skipped \in Result /\ FindsIn(Rest(s, 2), skipped)
  BY <1>2, <1>11, Shorter, ScanType DEF ScanGood
<1>5. s # <<>> /\ Whole(s) => found \in Result /\ FindsIn(Rest(s, 1 + FrameLength(s)), found)
  BY <1>2, <1>11, Shorter, ScanType DEF ScanGood
<1> HIDE DEF skipped, found
<1>6. CASE s = <<>> \/ (s[1] = Preamble /\ ~Whole(s))
  <2>1. Scan(s) = Nothing(s)
    BY <1>3, <1>6 DEF Decide
  <2> QED BY <1>2, <1>3, <2>1, NothingFinds
<1>7. CASE s # <<>> /\ s[1] # Preamble
  <2>1. Scan(s) = skipped
    BY <1>3, <1>7 DEF Decide
  <2>2. ~ Sound(s)
    BY <1>7 DEF Sound
  <2>3. FindsIn(s, skipped)
    BY <1>2, <1>4, <1>7, <2>2, PassedFinds
  <2> QED BY <1>3, <2>1, <2>3
<1>8. CASE s # <<>> /\ s[1] = Preamble /\ Whole(s) /\ Good(HeadFrame(s))
  <2>1. Scan(s) = Found(HeadFrame(s), found)
    BY <1>3, <1>8 DEF Decide
  <2>2. Sound(s)
    BY <1>8 DEF Sound
  <2>3. FindsIn(s, Found(HeadFrame(s), found))
    BY <1>2, <1>5, <1>8, <2>2, TakenFinds
  <2> QED BY <1>3, <2>1, <2>3
<1>9. CASE s # <<>> /\ s[1] = Preamble /\ Whole(s) /\ ~ Good(HeadFrame(s))
  <2>1. Scan(s) = Refused(skipped)
    BY <1>3, <1>9 DEF Decide
  <2>2. ~ Sound(s)
    BY <1>9 DEF Sound
  <2>3. Refused(skipped).frames = skipped.frames /\ Refused(skipped).rest = skipped.rest
    <3>1. skipped \in Result /\ <<>> \in Seq(Byte)
      BY <1>4, <1>9
    <3>2. Refused(skipped) = [frames |-> skipped.frames, errors |-> skipped.errors + 1,
                              rest |-> skipped.rest]
      BY <3>1, LaterType
    <3> QED BY <3>2
  <2>4. FindsIn(s, Refused(skipped))
    BY <1>2, <1>4, <1>9, <2>2, <2>3, PassedFinds
  <2> QED BY <1>3, <2>1, <2>4
<1> QED BY <1>6, <1>7, <1>8, <1>9

\* The recursion of Starts has one solution, and it is S.
StartAt(s, f, i) ==
    /\ GoodAt(s, i)
    /\ \A j \in 1..(i - 1) : f[j] => j + FrameLength(SubSeq(s, j, Len(s))) <= i

StartEq(s, g, f) ==
    f = [i \in 1..g |-> /\ GoodAt(s, i)
                        /\ \A j \in 1..(i - 1) : f[j] => j + FrameLength(SubSeq(s, j, Len(s))) <= i]

LEMMA StartsIs == \A s, g : Starts(s, g) = {i \in 1..g : (CHOOSE f : StartEq(s, g, f))[i]}
  BY Zenon DEF Starts, StartEq

LEMMA StartAtIs ==
    ASSUME NEW s \in Seq(Byte), NEW g \in Nat, NEW S, Greedy(s, S, g), NEW i \in 1..g,
           NEW f, \A j \in 1..(i - 1) : f[j] <=> j \in S
    PROVE  StartAt(s, f, i) <=> i \in S
<1>1. S \in SUBSET (1..g) /\ (i \in S <=> (Sound(Rest(s, i)) /\ Free(s, S, i)))
  BY DEF Greedy
<1>2. GoodAt(s, i) <=> Sound(Rest(s, i))
  BY DEF GoodAt, Sound, Rest
<1>3. \A j \in 1..(i - 1) : j \in 1..g /\ j < i
  OBVIOUS
<1>4. \A j \in S : j < i => j \in 1..(i - 1)
  BY <1>1
<1>5. Free(s, S, i) <=> \A j \in 1..(i - 1) : j \in S => Reach(s, j) <= i
  BY <1>3, <1>4 DEF Free
<1>6. \A j : Reach(s, j) = j + FrameLength(SubSeq(s, j, Len(s)))
  BY DEF Reach, Rest
<1>7. StartAt(s, f, i) <=> GoodAt(s, i) /\ \A j \in 1..(i - 1) : j \in S => Reach(s, j) <= i
  BY <1>6, Zenon DEF StartAt
<1> QED BY <1>1, <1>2, <1>5, <1>7

LEMMA StartsAre ==
    ASSUME NEW s \in Seq(Byte), NEW g \in Nat, NEW S, Greedy(s, S, g)
    PROVE  Starts(s, g) = S
<1>1. \A f : StartEq(s, g, f) <=> f = [i \in 1..g |-> StartAt(s, f, i)]
  BY Zenon DEF StartEq, StartAt
<1>2. \E f : StartEq(s, g, f)
  <2> DEFINE f == [i \in 1..g |-> i \in S]
  <2>1. \A i \in 1..g : \A j \in 1..(i - 1) : f[j] <=> j \in S
    <3> SUFFICES ASSUME NEW i \in 1..g, NEW j \in 1..(i - 1) PROVE f[j] <=> j \in S
      OBVIOUS
    <3>1. j \in 1..g
      OBVIOUS
    <3> QED BY <3>1, Zenon
  <2>2. \A i \in 1..g : StartAt(s, f, i) <=> i \in S
    <3> HIDE DEF f
    <3> QED BY <2>1, StartAtIs
  <2>3. \A i \in 1..g : StartAt(s, f, i) = (i \in S)
    <3>1. \A i : StartAt(s, f, i) \in BOOLEAN
      BY Zenon DEF StartAt
    <3> QED BY <2>2, <3>1
  <2>4. f = [i \in 1..g |-> StartAt(s, f, i)]
    BY <2>3, Zenon
  <2> HIDE DEF f
  <2> QED BY <1>1, <2>4
<1>3. StartEq(s, g, CHOOSE f : StartEq(s, g, f))
  BY <1>2, Zenon
<1> DEFINE f == CHOOSE f : StartEq(s, g, f)
<1>4. Starts(s, g) = {i \in 1..g : f[i]} /\ StartEq(s, g, f)
  BY <1>3, StartsIs
<1> HIDE DEF f
<1>5. \A i \in 1..g : f[i] <=> StartAt(s, f, i)
  BY <1>1, <1>4, Zenon
<1> DEFINE B == {i \in 1..g : ~ (f[i] <=> i \in S)}
<1>6. B = {}
  <2> SUFFICES ASSUME B # {} PROVE FALSE
    OBVIOUS
  <2>1. PICK i \in B : \A j \in B : i <= j
    <3>1. B \in SUBSET Nat
      OBVIOUS
    <3> HIDE DEF B
    <3> QED BY <3>1, LeastOf
  <2>2. i \in 1..g /\ ~ (f[i] <=> i \in S)
    BY <2>1
  <2>3. \A j \in 1..(i - 1) : f[j] <=> j \in S
    <3> SUFFICES ASSUME NEW j \in 1..(i - 1) PROVE j \notin B
      <4>1. \A j \in 1..(i - 1) : j \in 1..g
        BY <2>2
      <4> QED BY <4>1
    <3>1. ~ (i <= j)
      BY <2>2
    <3> HIDE DEF B
    <3> QED BY <2>1, <3>1
  <2>4. StartAt(s, f, i) <=> i \in S
    <3> HIDE DEF B
    <3> QED BY <2>2, <2>3, StartAtIs
  <2> QED BY <1>5, <2>2, <2>4
<1>7. \A i \in 1..g : f[i] <=> i \in S
  BY <1>6
<1>8. S \in SUBSET (1..g)
  BY DEF Greedy
<1> QED BY <1>4, <1>7, <1>8

\* No frame is lost to noise, to a false preamble or to a cut: what the parser
\* emitted of a stream are all its good frames in their order, but for those that
\* lie inside an earlier one (RtcmStreamParser.feed, one byte on after a refusal).
THEOREM GoodFramesTaken == Spec => []NothingLost
<1>1. ParserInv => NothingLost
  <2> SUFFICES ASSUME ParserInv PROVE NothingLost
    OBVIOUS
  <2> DEFINE R == Received
             g == pos - Len(buffer)
             found == SubSeq(emitted, begun + 1, Len(emitted))
  <2>1. R \in Seq(Byte) /\ Len(R) = pos
    BY DEF ParserInv, StreamType, Received
  <2>2. found = Scan(R).frames /\ buffer = Scan(R).rest
    BY DEF ParserInv, ChunkingIrrelevant
  <2> HIDE DEF R, found
  <2>3. Finds(R)
    BY <2>1, ScanFinds
  <2>4. PICK S : Greedy(R, S, g) /\ Told(R, S, found)
    BY <2>1, <2>2, <2>3 DEF Finds
  <2>5. g \in Nat
    <3>1. Len(buffer) \in Nat /\ Len(R) \in Nat /\ Len(buffer) <= Len(R)
      BY <2>1, <2>2, <2>3, ScanFields DEF Finds
    <3> QED BY <2>1, <3>1
  <2> HIDE DEF g
  <2>6. Starts(R, g) = S
    BY <2>1, <2>4, <2>5, StartsAre
  <2>7. Len(found) = Cardinality(S)
    BY <2>4 DEF Told
  <2>8. \A i \in S : found[Cardinality({j \in S : j <= i})] = HeadFrame(SubSeq(R, i, pos))
    BY <2>1, <2>4 DEF Told, Upwards, Rest
  <2> QED BY <2>6, <2>7, <2>8 DEF NothingLost, R, g, found
<1> QED BY <1>1, ParserAlways, PTL

=============================================================================
