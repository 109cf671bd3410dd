------------------------------ MODULE ChunkProofs ------------------------------
(***************************************************************************)
(* What the reception of chunks guarantees for every size of the index     *)
(* byte, every window and every length of a chunk: of the stream alone     *)
(* (ChunkStream), and of the download of a device, with the command        *)
(* channel, the link and the thread that writes the files (Download).      *)
(***************************************************************************)
EXTENDS Download, ChunkStream, FiniteSetTheorems, WellFoundedInduction, TLAPS

-----------------------------------------------------------------------------
(* Arithmetic *)

LEMMA DivMod ==
    ASSUME NEW a \in Nat, NEW w \in Nat \ {0}
    PROVE  /\ a \div w \in Nat
           /\ a % w \in 0..(w - 1)
           /\ a = (a \div w) * w + (a % w)
OBVIOUS

LEMMA MulMono ==
    ASSUME NEW a \in Nat, NEW b \in Nat, NEW w \in Nat, a <= b
    PROVE  a * w <= b * w
OBVIOUS

\* A product with a positive number is at least as big as the other factor.
LEMMA MulGrows ==
    ASSUME NEW a \in Nat, NEW w \in Nat \ {0}
    PROVE  /\ a * w \in Nat
           /\ a <= a * w
OBVIOUS

LEMMA MulStep ==
    ASSUME NEW a \in Nat, NEW w \in Nat
    PROVE  (a + 1) * w = a * w + w
OBVIOUS

-----------------------------------------------------------------------------
(* The index rebuilt from its byte *)

\* A number of turns that reaches the window, while one turn less does not, is
\* the number the loop makes.
LEMMA TurnsIs ==
    ASSUME NEW b \in Nat, NEW h \in Nat, NEW q \in Nat,
           q + 1 <= h + 1,
           b + (q + 1) * Wrap >= h - Window,
           q = 0 \/ b + q * Wrap < h - Window
    PROVE  Turns(b, h) = q + 1
<1> DEFINE Reaches(k) == b + k * Wrap >= h - Window
           Least1(k) == /\ Reaches(k)
                        /\ \A j \in 1..(k - 1) : b + j * Wrap < h - Window
<1>1. Least1(q + 1)
  <2>1. SUFFICES ASSUME NEW j \in 1..q PROVE b + j * Wrap < h - Window
    OBVIOUS
  <2>2. q # 0 /\ j \in Nat /\ j <= q
    OBVIOUS
  <2>3. j * Wrap <= q * Wrap
    BY <2>2, MulMono, WrapAssumption
  <2>4. /\ j * Wrap \in Nat /\ q * Wrap \in Nat
        /\ b + q * Wrap < h - Window
    BY <2>2, MulGrows, WrapAssumption
  <2> HIDE DEF Least1
  <2> QED
    BY <2>3, <2>4, WrapAssumption
<1>2. ASSUME NEW k \in 1..(h + 1), Least1(k) PROVE k = q + 1
  <2>1. CASE k > q + 1
    <3>1. q + 1 \in 1..(k - 1)
      BY <2>1
    <3>2. b + (q + 1) * Wrap < h - Window
      BY <3>1, <1>2
    <3>3. (q + 1) * Wrap \in Nat
      BY MulGrows, WrapAssumption
    <3> QED
      BY <3>2, <3>3, WrapAssumption
  <2>2. CASE k < q + 1
    <3>1. k * Wrap <= q * Wrap
      BY <2>2, MulMono, WrapAssumption
    <3>2. k * Wrap \in Nat /\ q * Wrap \in Nat
      BY <2>2, MulGrows, WrapAssumption
    <3>3. b + k * Wrap >= h - Window /\ b + q * Wrap < h - Window
      BY <1>2, <2>2
    <3> QED
      BY <3>1, <3>2, <3>3, WrapAssumption
  <2> QED
    BY <2>1, <2>2
<1>3. q + 1 \in 1..(h + 1)
  OBVIOUS
<1>4. Turns(b, h) = CHOOSE k \in 1..(h + 1) : Least1(k)
  BY DEF Turns
<1> HIDE DEF Least1
<1> QED
  BY <1>1, <1>2, <1>3, <1>4

\* The loop always ends: its number of turns is a natural number.
LEMMA TurnsEnd ==
    ASSUME NEW b \in Nat, NEW h \in Nat
    PROVE  Turns(b, h) \in Nat
<1>1. CASE b + Wrap >= h - Window
  <2>1. (0 + 1) * Wrap = Wrap
    BY WrapAssumption
  <2>2. Turns(b, h) = 0 + 1
    BY <1>1, <2>1, TurnsIs, WrapAssumption
  <2> QED
    BY <2>2
<1>2. CASE b + Wrap < h - Window
  <2> DEFINE D == h - Window - b
             q == (D - 1) \div Wrap
  <2>1. D \in Nat /\ D - 1 \in Nat /\ D - 1 < h
    BY <1>2, WrapAssumption
  <2> HIDE DEF D
  <2>2. /\ q \in Nat
        /\ (D - 1) % Wrap \in 0..(Wrap - 1)
        /\ D - 1 = q * Wrap + ((D - 1) % Wrap)
    BY <2>1, DivMod, WrapAssumption
  <2> HIDE DEF q
  <2>3. q * Wrap \in Nat /\ q <= q * Wrap /\ (q + 1) * Wrap = q * Wrap + Wrap
    BY <2>2, MulGrows, MulStep, WrapAssumption
  <2>4. q * Wrap <= D - 1 /\ (q + 1) * Wrap >= D
    BY <2>1, <2>2, <2>3, WrapAssumption
  <2>5. q + 1 <= h + 1
    BY <2>1, <2>2, <2>3, <2>4
  <2>6. b + (q + 1) * Wrap >= h - Window /\ b + q * Wrap < h - Window
    BY <2>1, <2>3, <2>4, <2>2, WrapAssumption DEF D
  <2>7. Turns(b, h) = q + 1
    BY <2>2, <2>5, <2>6, TurnsIs
  <2> QED
    BY <2>2, <2>7
<1> QED
  BY <1>1, <1>2, WrapAssumption

\* The index rebuilt for a package that follows the highest one
\* after a gap that fits ahead of the window is the index that package has.
LEMMA IndexIsRight ==
    ASSUME NEW x, NEW t \in Nat, NEW g \in Nat,
           x.highest \in Nat, x.first = FALSE,
           t = x.highest + 1 + g, g + 2 + Window <= Wrap
    PROVE  IndexOf(x, t % Wrap) = t
<1> DEFINE h == x.highest
           b == t % Wrap
           n == t \div Wrap
<1>1. n \in Nat /\ b \in 0..(Wrap - 1) /\ t = n * Wrap + b /\ n * Wrap \in Nat
  BY DivMod, MulGrows, WrapAssumption
<1>2. g + 2 + Window <= Wrap /\ h \in Nat
  OBVIOUS
<1> HIDE DEF n, b
<1>3. IndexOf(x, b) = IF b > h THEN b ELSE b + Turns(b, h) * Wrap
  BY DEF IndexOf
<1>4. ASSUME n = 0 PROVE IndexOf(x, b) = t
  BY <1>1, <1>2, <1>3, <1>4, WrapAssumption
<1>5. ASSUME n # 0 PROVE IndexOf(x, b) = t
  <2> DEFINE q == n - 1
  <2>1. q \in Nat /\ n = q + 1
    BY <1>1, <1>5
  <2> HIDE DEF q
  <2>2. q * Wrap \in Nat /\ q <= q * Wrap /\ n * Wrap = q * Wrap + Wrap
    BY <2>1, MulGrows, MulStep, WrapAssumption
  <2>3. b <= h
    BY <1>1, <1>2, <2>1, <2>2, WrapAssumption
  <2>4. b + (q + 1) * Wrap >= h - Window /\ b + q * Wrap < h - Window
    BY <1>1, <1>2, <2>1, <2>2, WrapAssumption
  <2>5. q + 1 <= h + 1
    BY <1>1, <1>2, <2>1, <2>2, WrapAssumption
  <2>6. Turns(b, h) = q + 1
    BY <1>1, <1>2, <2>1, <2>4, <2>5, TurnsIs, WrapAssumption
  <2>7. IndexOf(x, b) = b + n * Wrap
    BY <1>1, <1>2, <1>3, <2>1, <2>3, <2>6
  <2> QED
    BY <1>1, <2>7
<1> QED
  BY <1>4, <1>5 DEF b

-----------------------------------------------------------------------------
(* Fields of a receiver *)

\* A receiver, whatever its slots hold.
Shaped(x) ==
    x \in [count : Nat, vec : {x.vec}, highest : Nat, first : BOOLEAN,
           last_idx : Nat, skipped : BOOLEAN, last_received : BOOLEAN,
           missed_cnt : Nat, missed : SUBSET Nat, missed_in_request : Nat]

LEMMA ShapedFields ==
    ASSUME NEW x, Shaped(x)
    PROVE  /\ x.count \in Nat /\ x.highest \in Nat /\ x.last_idx \in Nat
           /\ x.first \in BOOLEAN /\ x.skipped \in BOOLEAN
           /\ x.last_received \in BOOLEAN
           /\ x.missed_cnt \in Nat /\ x.missed \in SUBSET Nat
           /\ x.missed_in_request \in Nat
BY DEF Shaped

LEMMA ReceiverShaped ==
    ASSUME NEW P, NEW x, IsReceiver(x, P)
    PROVE  /\ Shaped(x)
           /\ x.vec \in [0..(x.count - 1) -> P \cup {None}]
BY DEF IsReceiver, Shaped

LEMMA IndexIsNat ==
    ASSUME NEW x, Shaped(x), NEW b \in Nat
    PROVE  IndexOf(x, b) \in Nat
<1>1. x.highest \in Nat
  BY ShapedFields
<1>2. Turns(b, x.highest) \in Nat
  BY <1>1, TurnsEnd
<1>3. Turns(b, x.highest) * Wrap \in Nat
  BY <1>2, MulGrows, WrapAssumption
<1> QED
  BY <1>3 DEF IndexOf

\* What the TX pool branch changes.
LEMMA ReceiveFields ==
    ASSUME NEW x, Shaped(x), NEW b \in Nat, NEW p
    PROVE  LET r == ReceivePackage(x, b, p)
               t == IndexOf(x, b)
           IN /\ r.count = x.count
              /\ r.first <=> x.first /\ b # 0
              /\ r.highest = IF x.first /\ b = 0 THEN x.highest ELSE t
              /\ r.vec = IF t < x.count THEN [x.vec EXCEPT ![t] = p] ELSE x.vec
              /\ r.missed_cnt = x.missed_cnt
              /\ r.last_idx = IF x.first /\ b = 0 THEN 1 ELSE x.last_idx + 1
              /\ ~r.skipped => ~x.skipped /\ t = r.last_idx - 1
              /\ r.last_received <=> x.last_received \/ t + 1 = x.count
<1> DEFINE head == x.first /\ b = 0
           t == IndexOf(x, b)
           expected == IF head THEN 0 ELSE x.last_idx
           vec == IF t < x.count THEN [x.vec EXCEPT ![t] = p] ELSE x.vec
           r == ReceivePackage(x, b, p)
<1>1. t \in Nat
  BY IndexIsNat
<1>2. expected \in Nat
  BY ShapedFields
<1> DEFINE first == x.first /\ ~head
           highest == IF head THEN x.highest ELSE t
           skipped == x.skipped \/ t # expected
           last == x.last_received \/ t + 1 = x.count
<1>4. /\ first \in BOOLEAN /\ skipped \in BOOLEAN /\ last \in BOOLEAN
      /\ highest \in Nat /\ expected + 1 \in Nat
  BY <1>1, <1>2, ShapedFields
<1>5. r = [x EXCEPT !.first = first, !.highest = highest, !.vec = vec,
                    !.last_idx = expected + 1, !.skipped = skipped,
                    !.last_received = last]
  BY DEF ReceivePackage
<1>6. /\ r.count = x.count /\ r.vec = vec /\ r.first = first /\ r.highest = highest
      /\ r.missed_cnt = x.missed_cnt /\ r.last_idx = expected + 1
      /\ r.skipped = skipped /\ r.last_received = last
  <2> HIDE DEF t, expected, vec, r, first, highest, skipped, last
  <2> QED
    BY <1>5 DEF Shaped
<1>7. /\ first <=> x.first /\ b # 0
      /\ highest = IF x.first /\ b = 0 THEN x.highest ELSE t
  BY ShapedFields
<1>8. /\ expected + 1 = IF head THEN 1 ELSE x.last_idx + 1
      /\ ~skipped => ~x.skipped /\ t = (expected + 1) - 1
      /\ last <=> x.last_received \/ t + 1 = x.count
  BY <1>1, <1>2
<1> QED
  BY <1>6, <1>7, <1>8

\* It keeps the type of a receiver.
LEMMA ReceiveType ==
    ASSUME NEW P, NEW x, IsReceiver(x, P), NEW b \in Nat, NEW p \in P
    PROVE  IsReceiver(ReceivePackage(x, b, p), P)
<1>0. Shaped(x)
  BY ReceiverShaped
<1> DEFINE head == x.first /\ b = 0
           t == IndexOf(x, b)
           expected == IF head THEN 0 ELSE x.last_idx
           vec == IF t < x.count THEN [x.vec EXCEPT ![t] = p] ELSE x.vec
           r == ReceivePackage(x, b, p)
<1>1. t \in Nat
  BY <1>0, IndexIsNat
<1>2. expected \in Nat
  BY <1>0, ShapedFields
<1>3. vec \in [0..(x.count - 1) -> P \cup {None}]
  BY <1>1, ReceiverShaped
<1> DEFINE first == x.first /\ ~head
           highest == IF head THEN x.highest ELSE t
           skipped == x.skipped \/ t # expected
           last == x.last_received \/ t + 1 = x.count
<1>4. /\ first \in BOOLEAN /\ skipped \in BOOLEAN /\ last \in BOOLEAN
      /\ highest \in Nat /\ expected + 1 \in Nat
  BY <1>0, <1>1, <1>2, ShapedFields
<1>5. r = [x EXCEPT !.first = first, !.highest = highest, !.vec = vec,
                    !.last_idx = expected + 1, !.skipped = skipped,
                    !.last_received = last]
  BY DEF ReceivePackage
<1>6. /\ r.count = x.count /\ r.vec = vec /\ r.first = first /\ r.highest = highest
      /\ r.missed_cnt = x.missed_cnt /\ r.last_idx = expected + 1
      /\ r.skipped = skipped /\ r.last_received = last
  <2> HIDE DEF t, expected, vec, r, first, highest, skipped, last
  <2> QED
    BY <1>5 DEF IsReceiver
<1>7. IsReceiver(r, P)
  <2> HIDE DEF t, expected, vec, r, first, highest, skipped, last
  <2> QED
    BY <1>3, <1>4, <1>5, <1>6 DEF IsReceiver
<1> QED
  BY <1>7

\* The check notes the empty slots and changes nothing else of the chunk.
LEMMA CheckFields ==
    ASSUME NEW x, Shaped(x)
    PROVE  LET r == CheckChunk(x)
           IN /\ Shaped(r)
              /\ r.vec = x.vec /\ r.count = x.count
<1>1. Holes(x) \subseteq 0..(x.count - 1) /\ Holes(x) \subseteq Nat
  BY ShapedFields DEF Holes
<1>2. IsFiniteSet(0..(x.count - 1))
  BY FS_Interval, ShapedFields
<1>3. Cardinality(Holes(x)) \in Nat
  BY <1>1, <1>2, FS_Subset, FS_CardinalityType
<1>4. CASE x.skipped \/ ~x.last_received
  <2> DEFINE n == x.missed_cnt + Cardinality(Holes(x))
             H == Holes(x)
  <2>1. CheckChunk(x) = [x EXCEPT !.missed = H, !.missed_cnt = n, !.skipped = FALSE]
    BY <1>4 DEF CheckChunk
  <2>2. n \in Nat /\ H \in SUBSET Nat
    BY <1>1, <1>3 DEF Shaped
  <2> HIDE DEF n, H
  <2> QED
    BY <2>1, <2>2 DEF Shaped
<1>5. CASE ~(x.skipped \/ ~x.last_received)
  BY <1>5 DEF CheckChunk
<1> QED
  BY <1>4, <1>5


LEMMA CheckType ==
    ASSUME NEW P, NEW x, IsReceiver(x, P)
    PROVE  IsReceiver(CheckChunk(x), P)
<1>1. Shaped(x) /\ x.vec \in [0..(x.count - 1) -> P \cup {None}]
  BY ReceiverShaped
<1> QED
  BY <1>1, CheckFields DEF IsReceiver, Shaped

LEMMA LeastIsMember ==
    ASSUME NEW S \in SUBSET Nat, S # {}
    PROVE  /\ Least(S) \in S /\ Least(S) \in Nat
           /\ \A y \in S : Least(S) <= y
<1> DEFINE R == {ss \in Nat \X Nat : ss[1] < ss[2]}
<1>1. IsWellFoundedOn(R, Nat)
  BY NatLessThanWellFounded DEF OpToRel
<1> HIDE DEF R
<1>2. \E m \in S : \A y \in S : ~ (<<y, m>> \in R)
  BY <1>1, WFMin
<1>3. PICK m \in S : \A y \in S : ~ (<<y, m>> \in R)
  BY <1>2
<1>4. ASSUME NEW y \in S PROVE m <= y
  <2>1. y \in Nat /\ m \in Nat /\ ~ (<<y, m>> \in R)
    BY <1>3
  <2>2. ~(y < m)
    BY <2>1 DEF R
  <2> QED
    BY <2>1, <2>2
<1> QED
  BY <1>4 DEF Least

LEMMA HolesFinite ==
    ASSUME NEW x, Shaped(x)
    PROVE  /\ Holes(x) \in SUBSET Nat /\ IsFiniteSet(Holes(x))
           /\ Cardinality(Holes(x)) \in Nat
           /\ Cardinality(Holes(x)) = 0 <=> Holes(x) = {}
<1>1. Holes(x) \subseteq 0..(x.count - 1) /\ Holes(x) \subseteq Nat
  BY ShapedFields DEF Holes
<1>2. IsFiniteSet(0..(x.count - 1))
  BY FS_Interval, ShapedFields
<1>3. IsFiniteSet(Holes(x))
  BY <1>1, <1>2, FS_Subset
<1>4. Cardinality(Holes(x)) \in Nat
  BY <1>3, FS_CardinalityType
<1>5. Cardinality(Holes(x)) = 0 <=> Holes(x) = {}
  BY <1>3, FS_EmptySet
<1> QED
  BY <1>1, <1>3, <1>4, <1>5

\* A chunk that has just been announced.
LEMMA StartFields ==
    ASSUME NEW x, Shaped(x), NEW n \in Nat
    PROVE  LET r == StartChunk(x, n)
           IN /\ Shaped(r)
              /\ r.count = n /\ r.vec = [i \in 0..(n - 1) |-> None]
              /\ r.highest = 0 /\ r.first /\ r.missed_cnt = 0 /\ ~r.last_received
<1> DEFINE none == [i \in 0..(n - 1) |-> None]
<1>1. StartChunk(x, n) = [x EXCEPT !.count = n, !.vec = none, !.highest = 0,
                                   !.first = TRUE, !.missed_cnt = 0,
                                   !.last_received = FALSE]
  BY DEF StartChunk
<1> HIDE DEF none
<1>a. StartChunk(x, n).vec = none
  BY <1>1 DEF Shaped
<1> DEFINE r == StartChunk(x, n)
<1>2. /\ r.count = n /\ r.highest = 0 /\ r.first = TRUE /\ r.missed_cnt = 0
      /\ r.last_received = FALSE
  BY <1>1 DEF Shaped
<1> HIDE DEF r
<1>3. Shaped(r)
  <2>1. StartChunk(x, n) =
          [count |-> n, vec |-> none, highest |-> 0, first |-> TRUE,
           last_idx |-> x.last_idx, skipped |-> x.skipped,
           last_received |-> FALSE, missed_cnt |-> 0, missed |-> x.missed,
           missed_in_request |-> x.missed_in_request]
    BY <1>1 DEF Shaped
  <2> QED
    BY <2>1, <1>a, ShapedFields DEF Shaped, r
<1> QED
  BY <1>a, <1>2, <1>3 DEF none, r

LEMMA StartType ==
    ASSUME NEW P, NEW x, Shaped(x), NEW n \in Nat
    PROVE  IsReceiver(StartChunk(x, n), P)
<1> DEFINE r == StartChunk(x, n)
<1>1. Shaped(r) /\ r.count = n /\ r.vec = [i \in 0..(n - 1) |-> None]
  BY StartFields
<1>2. r.vec \in [0..(r.count - 1) -> P \cup {None}]
  BY <1>1
<1> HIDE DEF r
<1>3. IsReceiver(r, P)
  BY <1>1, <1>2 DEF IsReceiver, Shaped
<1> QED
  BY <1>3 DEF r

\* What the check finds, when nothing has been counted before.
LEMMA CheckOutcome ==
    ASSUME NEW x, Shaped(x), x.missed_cnt = 0
    PROVE  LET r == CheckChunk(x)
           IN /\ x.skipped \/ ~x.last_received =>
                   /\ r.missed = Holes(x)
                   /\ r.missed_cnt = 0 <=> Holes(x) = {}
              /\ r.vec = x.vec /\ r.count = x.count
              /\ ~(x.skipped \/ ~x.last_received) => r = x
              /\ Holes(r) = Holes(x)
<1> DEFINE n == x.missed_cnt + Cardinality(Holes(x))
           H == Holes(x)
<1>1. n \in Nat /\ (n = 0 <=> H = {}) /\ H \in SUBSET Nat
  BY HolesFinite
<1>2. CASE x.skipped \/ ~x.last_received
  <2>1. CheckChunk(x) = [x EXCEPT !.missed = H, !.missed_cnt = n, !.skipped = FALSE]
    BY <1>2 DEF CheckChunk
  <2> HIDE DEF n, H
  <2>2. /\ CheckChunk(x).missed = H /\ CheckChunk(x).missed_cnt = n
    BY <1>1, <2>1 DEF Shaped
  <2>3. /\ CheckChunk(x).missed = Holes(x)
        /\ CheckChunk(x).missed_cnt = 0 <=> Holes(x) = {}
    BY <1>1, <2>2 DEF H
  <2>4. /\ Holes(CheckChunk(x)) = Holes(x)
        /\ CheckChunk(x).vec = x.vec /\ CheckChunk(x).count = x.count
    BY CheckFields DEF Holes
  <2> QED
    BY <1>2, <2>3, <2>4
<1>3. CASE ~(x.skipped \/ ~x.last_received)
  BY <1>3 DEF CheckChunk
<1> QED
  BY <1>2, <1>3

\* The next package to be requested is one of the missing.
LEMMA NextFields ==
    ASSUME NEW x, Shaped(x), x.missed # {}
    PROVE  LET r == NextMissing(x)
               m == Least(x.missed)
           IN /\ Shaped(r)
              /\ m \in x.missed /\ m \in Nat /\ \A y \in x.missed : m <= y
              /\ r.missed_in_request = m /\ r.missed = x.missed \ {m}
              /\ r.vec = x.vec /\ r.count = x.count
<1> DEFINE m == Least(x.missed)
<1>1. /\ m \in x.missed /\ m \in Nat /\ \A y \in x.missed : m <= y
      /\ x.missed \ {m} \in SUBSET Nat
  BY LeastIsMember, ShapedFields
<1>2. NextMissing(x) = [x EXCEPT !.missed_in_request = m, !.missed = @ \ {m}]
  BY DEF NextMissing
<1> HIDE DEF m
<1>3. LET r == NextMissing(x)
      IN /\ Shaped(r)
         /\ r.missed_in_request = m /\ r.missed = x.missed \ {m}
         /\ r.vec = x.vec /\ r.count = x.count
  BY <1>1, <1>2 DEF Shaped
<1> QED
  BY <1>1, <1>3 DEF m

\* The package that comes after all goes to the slot that was asked for.
LEMMA StoreFields ==
    ASSUME NEW x, Shaped(x), NEW p
    PROVE  LET r == StoreMissing(x, p)
           IN /\ Shaped(r)
              /\ r.vec = [x.vec EXCEPT ![x.missed_in_request] = p]
              /\ r.count = x.count /\ r.missed = x.missed
              /\ r.missed_in_request = x.missed_in_request
<1> DEFINE v == [x.vec EXCEPT ![x.missed_in_request] = p]
<1>1. StoreMissing(x, p) = [x EXCEPT !.vec = v]
  BY DEF StoreMissing
<1> HIDE DEF v
<1>2. LET r == StoreMissing(x, p)
      IN /\ Shaped(r)
         /\ r.vec = v
         /\ r.count = x.count /\ r.missed = x.missed
         /\ r.missed_in_request = x.missed_in_request
  BY <1>1 DEF Shaped
<1> QED
  BY <1>2 DEF v

LEMMA StoreType ==
    ASSUME NEW P, NEW x, IsReceiver(x, P), NEW p \in P \cup {None}
    PROVE  IsReceiver(StoreMissing(x, p), P)
<1> DEFINE r == StoreMissing(x, p)
<1>1. Shaped(x) /\ x.vec \in [0..(x.count - 1) -> P \cup {None}]
  BY ReceiverShaped
<1>2. /\ Shaped(r) /\ r.count = x.count
      /\ r.vec = [x.vec EXCEPT ![x.missed_in_request] = p]
  BY <1>1, StoreFields
<1>3. r.vec \in [0..(r.count - 1) -> P \cup {None}]
  BY <1>1, <1>2
<1> HIDE DEF r
<1>4. IsReceiver(r, P)
  BY <1>2, <1>3 DEF IsReceiver, Shaped
<1> QED
  BY <1>4 DEF r

LEMMA NextType ==
    ASSUME NEW P, NEW x, IsReceiver(x, P), x.missed # {}
    PROVE  IsReceiver(NextMissing(x), P)
<1> DEFINE r == NextMissing(x)
<1>1. Shaped(x) /\ x.vec \in [0..(x.count - 1) -> P \cup {None}]
  BY ReceiverShaped
<1>2. Shaped(r) /\ r.count = x.count /\ r.vec = x.vec
  BY <1>1, NextFields
<1> HIDE DEF r
<1>3. IsReceiver(r, P)
  BY <1>1, <1>2 DEF IsReceiver, Shaped
<1> QED
  BY <1>3 DEF r

\* A request leaves the slots alone.
LEMMA NextVec ==
    ASSUME NEW x, Shaped(x)
    PROVE  NextMissing(x).vec = x.vec
BY DEF NextMissing, Shaped

-----------------------------------------------------------------------------
(* The stream alone: types *)

LEMMA StreamTypeInit == StreamInit => StreamTypeOK
<1> SUFFICES ASSUME StreamInit PROVE StreamTypeOK
  OBVIOUS
<1>1. PICK stale \in Stale, flag \in BOOLEAN : recv = NewReceiver(stale, flag)
  BY DEF StreamInit
<1>2. stale \in Nat
  BY StreamAssumption
<1>3. 0..(0 - 1) = {}
  OBVIOUS
<1>4. IsReceiver(recv, Nat)
  BY <1>1, <1>2, <1>3 DEF NewReceiver, IsReceiver
<1> QED
  BY <1>4 DEF StreamInit, StreamTypeOK

\* The two ways a check can end.
LEMMA Checked ==
    ASSUME Check
    PROVE  LET r == CheckChunk(recv)
           IN \/ r.missed_cnt = 0 /\ recv' = r /\ phase' = "done" /\ asked' = asked
              \/ /\ r.missed_cnt # 0 /\ recv' = NextMissing(r) /\ phase' = "repair"
                 /\ asked' = {Least(r.missed)}
BY DEF Check

\* A check requests a package only if there is an empty slot.
LEMMA CheckedMissing ==
    ASSUME NEW x, Shaped(x), x.missed_cnt = 0, CheckChunk(x).missed_cnt # 0
    PROVE  CheckChunk(x).missed = Holes(x) /\ Holes(x) # {}
<1>1. CASE x.skipped \/ ~x.last_received
  BY <1>1, CheckOutcome
<1>2. CASE ~(x.skipped \/ ~x.last_received)
  BY <1>2, CheckOutcome
<1> QED BY <1>1, <1>2

\* The two ways a reply can end.
LEMMA Replied ==
    ASSUME NEW i, Reply(i)
    PROVE  LET r == StoreMissing(recv, i)
           IN \/ /\ r.missed # {} /\ recv' = NextMissing(r) /\ phase' = phase
                 /\ asked' = asked \cup {Least(r.missed)}
              \/ r.missed = {} /\ recv' = r /\ phase' = "done" /\ asked' = asked
BY DEF Reply

\* Nothing is counted or requested before the check, and no package of the stream
\* comes after it.
Phases == IF phase = "stream" THEN recv.missed_cnt = 0 /\ asked = {} ELSE late = {}

LEMMA StreamTypeStep ==
    StreamTypeOK /\ Phases /\ [StreamNext]_streamVars => (StreamTypeOK /\ Phases)'
<1> SUFFICES ASSUME StreamTypeOK, Phases, [StreamNext]_streamVars
             PROVE  StreamTypeOK' /\ Phases'
  OBVIOUS
<1>0. IsReceiver(recv, Nat) /\ Shaped(recv)
  BY ReceiverShaped DEF StreamTypeOK
<1>1. ASSUME NEW n \in Sizes, Start(n) PROVE StreamTypeOK' /\ Phases'
  <2>1. n \in Nat /\ recv' = StartChunk(recv, n) /\ recv.last_idx \in Nat
    BY <1>0, <1>1, StreamAssumption, ShapedFields DEF Start
  <2>2. IsReceiver(recv', Nat) /\ recv'.missed_cnt = 0
    BY <1>0, <2>1, StartType, StartFields
  <2>3. /\ phase' = "stream" /\ next' = 0 /\ gap' = 0 /\ reach' = reach /\ late' = late
        /\ asked' = {} /\ answered' = {} /\ chunks' = chunks + 1 /\ left' \in Nat
    BY <1>1, <2>1 DEF Start
  <2>4. beheaded' = FALSE /\ repeated' = FALSE
    BY <1>1 DEF Start
  <2>5. asked' \subseteq Nat /\ answered' \subseteq asked' /\ late' \subseteq Nat
    BY <2>3 DEF StreamTypeOK
  <2>6. beheaded' \in BOOLEAN /\ repeated' \in BOOLEAN
    BY <2>4
  <2>7. Phases'
    BY <2>2, <2>3 DEF Phases
  <2>8. StreamTypeOK'
    BY <2>2, <2>3, <2>5, <2>6 DEF StreamTypeOK
  <2> QED
    BY <2>7, <2>8
<1>2. ASSUME NEW t \in Nat, recv' = ReceivePackage(recv, t % Wrap, t)
      PROVE  IsReceiver(recv', Nat) /\ recv'.missed_cnt = recv.missed_cnt
  <2>1. t % Wrap \in Nat
    BY DivMod, WrapAssumption
  <2> QED
    BY <1>0, <1>2, <2>1, ReceiveType, ReceiveFields
<1>3. CASE Arrives
  <2>1. IsReceiver(recv', Nat) /\ recv'.missed_cnt = recv.missed_cnt
    BY <1>2, <1>3 DEF Arrives, StreamTypeOK
  <2> QED
    BY <1>3, <2>1 DEF Arrives, ghosts, StreamTypeOK, Phases
<1>4. CASE IsLost
  BY <1>4 DEF IsLost, StreamTypeOK, Phases
<1>5. CASE IsOvertaken
  BY <1>5 DEF IsOvertaken, MaySend, StreamTypeOK, Phases
<1>6. ASSUME NEW t \in late, ArrivesLate(t) PROVE StreamTypeOK' /\ Phases'
  <2>1. IsReceiver(recv', Nat) /\ recv'.missed_cnt = recv.missed_cnt
    BY <1>2, <1>6 DEF ArrivesLate, StreamTypeOK
  <2> QED
    BY <1>6, <2>1 DEF ArrivesLate, ghosts, StreamTypeOK, Phases
<1>7. CASE Check
  <2> DEFINE r == CheckChunk(recv)
  <2>1. /\ IsReceiver(r, Nat) /\ Shaped(r)
        /\ recv.missed_cnt = 0
    BY <1>0, <1>7, CheckType, ReceiverShaped DEF Check, Phases
  <2>2. CASE r.missed_cnt = 0 /\ recv' = r /\ phase' = "done" /\ asked' = asked
    BY <1>7, <2>1, <2>2 DEF Check, link, ghosts, StreamTypeOK, Phases
  <2>3. CASE r.missed_cnt # 0 /\ recv' = NextMissing(r) /\ phase' = "repair" /\ asked' = {Least(r.missed)}
    <3>1. r.missed # {}
      BY <1>0, <2>1, <2>3, CheckedMissing
    <3>2. IsReceiver(recv', Nat) /\ Least(r.missed) \in Nat
      BY <2>1, <2>3, <3>1, NextType, NextFields
    <3>3. asked' \subseteq Nat
      BY <2>3, <3>2
    <3> HIDE DEF r
    <3>4. answered' = answered /\ late = {} /\ UNCHANGED <<link, chunks, ghosts>>
      BY <1>7 DEF Check, ghosts
    <3>5. Phases'
      BY <2>3, <3>4 DEF link, Phases
    <3>6. answered' \subseteq asked'
      BY <1>7, <3>4 DEF Check, StreamTypeOK, Phases
    <3> QED
      BY <2>3, <3>2, <3>3, <3>4, <3>5, <3>6 DEF link, ghosts, StreamTypeOK
  <2> QED BY <1>7, <2>2, <2>3, Checked
<1>8. ASSUME NEW i \in asked, Reply(i) PROVE StreamTypeOK' /\ Phases'
  <2> DEFINE r == StoreMissing(recv, i)
  <2>1. i \in Nat /\ IsReceiver(r, Nat) /\ Shaped(r)
    BY <1>0, <1>8, StoreType, ReceiverShaped DEF StreamTypeOK
  <2>2. IsReceiver(recv', Nat) /\ phase' \in {"repair", "done"} /\ asked' \subseteq Nat /\ asked \subseteq asked'
    <3>1. CASE r.missed # {} /\ recv' = NextMissing(r) /\ phase' = phase /\ asked' = asked \cup {Least(r.missed)}
      BY <1>8, <2>1, <3>1, NextType, NextFields DEF Reply, StreamTypeOK
    <3>2. CASE r.missed = {} /\ recv' = r /\ phase' = "done" /\ asked' = asked
      BY <2>1, <3>2 DEF StreamTypeOK
    <3> QED BY <1>8, <3>1, <3>2, Replied
  <2> QED
    BY <1>8, <2>1, <2>2 DEF Reply, link, StreamTypeOK, Phases
<1>9. CASE UNCHANGED streamVars
  BY <1>9 DEF streamVars, link, ghosts, StreamTypeOK, IsReceiver, Phases
<1> QED
  BY <1>1, <1>3, <1>4, <1>5, <1>6, <1>7, <1>8, <1>9 DEF StreamNext

\* The receiver is well typed whatever the link does: the loop of the index
\* computation (bleUartRx) ends and no payload is stored outside the slots.
THEOREM StreamTypeCorrect == StreamSpec => []StreamTypeOK
<1>1. StreamInit => StreamTypeOK /\ Phases
  BY StreamTypeInit DEF StreamInit, Phases
<1>2. StreamTypeOK /\ Phases /\ [StreamNext]_streamVars => (StreamTypeOK /\ Phases)'
  BY StreamTypeStep
<1> QED
  BY <1>1, <1>2, PTL DEF StreamSpec

-----------------------------------------------------------------------------
(* The stream alone: missing packages requested *)

\* Requests go up: those made so far end with the one whose slot is awaited, those
\* to come are for empty slots behind it.  While no reply is repeated, only the
\* last request is unanswered.
Requests ==
    /\ phase \notin {"repair", "done"} => asked = {}
    /\ phase = "repair" => asked # {}
    /\ phase = "done" /\ asked # {} => recv.missed = {}
    /\ asked # {} => recv.missed_in_request \in asked
    /\ \A i \in asked : i <= recv.missed_in_request
    /\ phase = "repair" =>
         \A m \in recv.missed :
            /\ m > recv.missed_in_request
            /\ m \in DOMAIN recv.vec => recv.vec[m] = None
    /\ ~repeated => \A i \in asked : i \in answered \/ (phase = "repair" /\ i = recv.missed_in_request)
    /\ RepairIsOwn

LEMMA RequestsInit == StreamInit => Requests
BY DEF StreamInit, Requests, RepairIsOwn

\* The first request.
LEMMA CheckRequests ==
    ASSUME StreamTypeOK, Phases, Requests, Check
    PROVE  Requests'
<1> DEFINE r == CheckChunk(recv)
<1>1. /\ Shaped(recv) /\ Shaped(r) /\ r.vec = recv.vec /\ r.count = recv.count
      /\ recv.missed_cnt = 0 /\ phase = "stream" /\ asked = {} /\ UNCHANGED <<answered, repeated>>
      /\ recv.vec \in [0..(recv.count - 1) -> Nat \cup {None}]
  BY CheckFields, ReceiverShaped DEF Check, ghosts, StreamTypeOK, Phases, Requests
<1>2. CASE r.missed_cnt = 0 /\ recv' = r /\ phase' = "done" /\ asked' = asked
  BY <1>1, <1>2 DEF Requests, RepairIsOwn
<1>3. CASE r.missed_cnt # 0 /\ recv' = NextMissing(r) /\ phase' = "repair" /\ asked' = {Least(r.missed)}
  <2> DEFINE m == Least(r.missed)
  <2>1. r.missed = Holes(recv) /\ r.missed # {} /\ r.missed \subseteq Nat
    BY <1>1, <1>3, CheckedMissing, ShapedFields
  <2>2. /\ m \in r.missed /\ m \in Nat /\ \A y \in r.missed : m <= y
        /\ recv'.missed_in_request = m /\ recv'.missed = r.missed \ {m}
        /\ recv'.vec = recv.vec
    BY <1>1, <1>3, <2>1, NextFields
  <2> HIDE DEF m, r
  <2>3. \A y \in r.missed : y \in DOMAIN recv.vec /\ recv.vec[y] = None
    BY <1>1, <2>1 DEF Holes
  <2>4. asked' = {m}
    BY <1>3 DEF m
  <2>5. \A y \in recv'.missed : y > m
    BY <2>1, <2>2
  <2>6. RepairIsOwn'
    BY <2>2, <2>3, <2>4 DEF RepairIsOwn
  <2> QED BY <1>1, <1>3, <2>2, <2>3, <2>4, <2>5, <2>6 DEF Requests
<1> QED BY <1>2, <1>3, Checked

\* A reply goes to the slot awaited.
LEMMA ReplyRequests ==
    ASSUME StreamTypeOK, Requests, NEW i \in asked, Reply(i)
    PROVE  Requests'
<1> DEFINE r == StoreMissing(recv, i)
           q == recv.missed_in_request
<1>1. /\ Shaped(recv) /\ Shaped(r) /\ i \in Nat /\ q \in Nat /\ asked \subseteq Nat
      /\ r.vec = [recv.vec EXCEPT ![q] = i] /\ DOMAIN r.vec = DOMAIN recv.vec
      /\ r.missed = recv.missed /\ r.missed_in_request = q /\ recv.missed \subseteq Nat
  BY StoreFields, ReceiverShaped, ShapedFields DEF StreamTypeOK
<1>2. /\ answered' = answered \cup {i} /\ repeated' = (repeated \/ i \in answered)
      /\ phase \in {"repair", "done"} /\ q \in asked /\ i <= q
      /\ repeated \in BOOLEAN
  BY DEF Reply, Requests, StreamTypeOK
<1>3. \A t \in DOMAIN recv.vec : r.vec[t] = IF t = q THEN i ELSE recv.vec[t]
  BY <1>1
<1>4. ~repeated' => ~repeated /\ i = q /\ \A t \in asked : t \in answered'
  <2>1. ASSUME ~repeated' PROVE ~repeated /\ i \notin answered
    BY <1>2, <2>1
  <2> QED BY <1>2, <2>1 DEF Requests
<1>5. \A t \in asked \cap DOMAIN recv.vec :
         \/ r.vec[t] \in {None, t}
         \/ repeated' /\ r.vec[t] \in asked /\ r.vec[t] < t
  <2> SUFFICES ASSUME NEW t \in asked \cap DOMAIN recv.vec
               PROVE  \/ r.vec[t] \in {None, t}
                      \/ repeated' /\ r.vec[t] \in asked /\ r.vec[t] < t
    OBVIOUS
  <2>1. CASE t = q
    <3>1. CASE i = q
      BY <1>3, <2>1, <3>1
    <3>2. CASE i # q
      <4>1. repeated' /\ i < q
        BY <1>1, <1>2, <1>4, <3>2
      <4> QED BY <1>3, <2>1, <4>1
    <3> QED BY <3>1, <3>2
  <2>2. CASE t # q
    <3>1. r.vec[t] = recv.vec[t]
      BY <1>3, <2>2
    <3>2. repeated => repeated'
      BY <1>2
    <3> QED BY <3>1, <3>2 DEF Requests, RepairIsOwn
  <2> QED BY <2>1, <2>2
<1>6. CASE r.missed # {} /\ recv' = NextMissing(r) /\ phase' = phase /\ asked' = asked \cup {Least(r.missed)}
  <2> DEFINE m == Least(r.missed)
  <2>1. /\ m \in r.missed /\ m \in Nat /\ \A y \in r.missed : m <= y
        /\ recv'.missed_in_request = m /\ recv'.missed = r.missed \ {m}
        /\ recv'.vec = r.vec
    BY <1>1, <1>6, NextFields
  <2>2. asked' = asked \cup {m}
    BY <1>6
  <2> HIDE DEF m, r
  <2>3. phase = "repair" /\ phase' = "repair"
    BY <1>1, <1>2, <1>6 DEF Requests
  <2>4. \A y \in recv.missed : y > q /\ (y \in DOMAIN recv.vec => r.vec[y] = None)
    BY <1>1, <1>3, <2>3 DEF Requests
  <2>5. \A t \in asked' : t <= m
    <3>1. m > q /\ \A t \in asked : t <= q
      BY <1>1, <2>1, <2>4 DEF Requests
    <3>2. m \in Nat /\ q \in Nat /\ \A t \in asked : t \in Nat
      BY <1>1, <2>1
    <3>3. ASSUME NEW t \in asked PROVE t <= m
      BY <3>1, <3>2, <3>3
    <3> QED BY <2>2, <3>2, <3>3
  <2>6. \A y \in recv'.missed : y > m /\ (y \in DOMAIN recv'.vec => recv'.vec[y] = None)
    BY <1>1, <2>1, <2>4
  <2>7. RepairIsOwn'
    BY <1>1, <1>5, <2>1, <2>2, <2>4 DEF RepairIsOwn
  <2>8. ~repeated' => \A t \in asked' : t \in answered' \/ t = m
    BY <1>4, <2>2
  <2> QED BY <2>1, <2>2, <2>3, <2>5, <2>6, <2>7, <2>8 DEF Requests
<1>7. CASE r.missed = {} /\ recv' = r /\ phase' = "done" /\ asked' = asked
  <2>1. RepairIsOwn'
    BY <1>1, <1>5, <1>7 DEF RepairIsOwn
  <2> HIDE DEF r
  <2> QED BY <1>1, <1>2, <1>4, <1>7, <2>1 DEF Requests
<1> QED BY <1>6, <1>7, Replied

LEMMA RequestsStep ==
    StreamTypeOK /\ Phases /\ Requests /\ [StreamNext]_streamVars => Requests'
<1> SUFFICES ASSUME StreamTypeOK, Phases, Requests, [StreamNext]_streamVars PROVE Requests'
  OBVIOUS
<1>1. ASSUME NEW n \in Sizes, Start(n) PROVE Requests'
  BY <1>1 DEF Start, Requests, RepairIsOwn
<1>2. CASE Arrives
  BY <1>2 DEF Arrives, MaySend, ghosts, Requests, RepairIsOwn
<1>3. CASE IsLost
  BY <1>3 DEF IsLost, MaySend, Requests, RepairIsOwn
<1>4. CASE IsOvertaken
  BY <1>4 DEF IsOvertaken, MaySend, Requests, RepairIsOwn
<1>5. ASSUME NEW t \in late, ArrivesLate(t) PROVE Requests'
  BY <1>5 DEF ArrivesLate, ghosts, Phases, Requests, RepairIsOwn
<1>6. CASE Check
  BY <1>6, CheckRequests
<1>7. ASSUME NEW i \in asked, Reply(i) PROVE Requests'
  BY <1>7, ReplyRequests
<1>8. CASE UNCHANGED streamVars
  BY <1>8 DEF streamVars, link, ghosts, Requests, RepairIsOwn
<1> QED
  BY <1>1, <1>2, <1>3, <1>4, <1>5, <1>6, <1>7, <1>8 DEF StreamNext

\* A requested slot holds its own package or one requested before it, the latter
\* only if a reply has been repeated: on every link.
THEOREM RepairIsOwnHolds == StreamSpec => []RepairIsOwn
<1>1. StreamInit => StreamTypeOK /\ Phases /\ Requests
  BY StreamTypeInit, RequestsInit DEF StreamInit, Phases
<1>2. StreamTypeOK /\ Phases /\ Requests /\ [StreamNext]_streamVars
      => (StreamTypeOK /\ Phases /\ Requests)'
  BY StreamTypeStep, RequestsStep
<1>3. Requests => RepairIsOwn
  BY DEF Requests
<1> QED
  BY <1>1, <1>2, <1>3, PTL DEF StreamSpec

-----------------------------------------------------------------------------
(* The stream alone: slots *)

\* While packages keep their order and the first one has come, the package the
\* device sends next follows the highest index after the gap that has opened since.
InOrder ==
    reach = 0 =>
        /\ late = {}
        /\ ~beheaded /\ ~repeated => \A i \in DOMAIN recv.vec : recv.vec[i] \in {None, i}
        /\ ~beheaded /\ phase = "stream" =>
             /\ gap <= LongestGap
             /\ next = 0 => gap = 0 /\ recv.first = TRUE /\ recv.highest = 0
             /\ next # 0 => recv.first = FALSE /\ next = recv.highest + 1 + gap

LEMMA InOrderInit == StreamInit => InOrder
<1> SUFFICES ASSUME StreamInit PROVE InOrder
  OBVIOUS
<1>1. DOMAIN recv.vec = {}
  BY DEF StreamInit, NewReceiver
<1> QED
  BY <1>1 DEF StreamInit, InOrder

\* The index rebuilt for the next package is its own.
LEMMA NextIndexIsRight ==
    ASSUME LinkIsKind, StreamTypeOK, InOrder, reach = 0, ~beheaded, phase = "stream"
    PROVE  /\ IndexOf(recv, next % Wrap) = next
           /\ next = 0 => recv.first = TRUE /\ next % Wrap = 0
           /\ next # 0 => recv.first = FALSE
<1>1. next \in Nat /\ gap \in Nat /\ recv.highest \in Nat
  BY ReceiverShaped, ShapedFields DEF StreamTypeOK
<1>2. CASE next = 0
  <2>1. recv.first = TRUE /\ next % Wrap = 0
    BY <1>2, WrapAssumption DEF InOrder
  <2> QED
    BY <1>2, <2>1 DEF IndexOf
<1>3. CASE next # 0
  <2>1. recv.first = FALSE /\ next = recv.highest + 1 + gap /\ gap <= LongestGap
    BY <1>3 DEF InOrder
  <2>2. gap + 2 + Window <= Wrap
    BY <1>1, <2>1, WrapAssumption, StreamAssumption DEF LinkIsKind
  <2>3. IndexOf(recv, next % Wrap) = next
    BY <1>1, <2>1, <2>2, IndexIsRight
  <2> QED
    BY <1>3, <2>1, <2>3
<1> QED
  BY <1>2, <1>3

\* A package that arrives is stored in its own slot.
LEMMA ArrivesInOrder ==
    ASSUME LinkIsKind, StreamTypeOK, InOrder, Arrives, reach = 0, ~beheaded
    PROVE  InOrder'
<1> DEFINE b == next % Wrap
<1>1. /\ next < recv.count /\ next \in Nat /\ late = {} /\ LongestGap \in Nat
      /\ recv.vec \in [0..(recv.count - 1) -> Nat \cup {None}] /\ recv.count \in Nat
      /\ Shaped(recv) /\ recv.highest \in Nat /\ phase = "stream"
  BY ReceiverShaped, ShapedFields, StreamAssumption DEF Arrives, MaySend, StreamTypeOK, InOrder
<1>2. b \in Nat
  BY <1>1, DivMod, WrapAssumption
<1>3. /\ IndexOf(recv, b) = next
      /\ next = 0 => recv.first = TRUE /\ b = 0 /\ recv.highest = 0
      /\ next # 0 => recv.first = FALSE
  BY <1>1, NextIndexIsRight DEF InOrder
<1>4. recv' = ReceivePackage(recv, b, next)
  BY DEF Arrives
<1> HIDE DEF b
<1>5. /\ recv'.count = recv.count
      /\ recv'.first <=> recv.first /\ b # 0
      /\ recv'.highest = IF recv.first /\ b = 0 THEN recv.highest ELSE IndexOf(recv, b)
      /\ recv'.vec = IF IndexOf(recv, b) < recv.count
                     THEN [recv.vec EXCEPT ![IndexOf(recv, b)] = next] ELSE recv.vec
      /\ recv'.first \in BOOLEAN
  BY <1>1, <1>2, <1>4, ReceiveFields, ReceiveType, ReceiverShaped, ShapedFields DEF StreamTypeOK
<1>6. recv'.vec = [recv.vec EXCEPT ![next] = next] /\ recv'.first = FALSE /\ recv'.highest = next
  BY <1>1, <1>3, <1>5
<1>7. ~repeated => \A i \in DOMAIN recv'.vec : recv'.vec[i] \in {None, i}
  BY <1>1, <1>6 DEF InOrder
<1> QED
  BY <1>1, <1>6, <1>7 DEF InOrder, Arrives, ghosts

LEMMA InOrderStep ==
    ASSUME LinkIsKind
    PROVE  StreamTypeOK /\ Requests /\ InOrder /\ [StreamNext]_streamVars => InOrder'
<1> SUFFICES ASSUME StreamTypeOK, Requests, InOrder, [StreamNext]_streamVars, reach' = 0
             PROVE  InOrder'
  BY DEF InOrder
<1>0. reach = 0
  BY DEF StreamNext, streamVars, link, Start, Arrives, IsLost, IsOvertaken, ArrivesLate, Check, Reply
<1>1. ASSUME NEW n \in Sizes, Start(n) PROVE InOrder'
  <2>1. /\ recv'.vec = [i \in 0..(n - 1) |-> None]
        /\ recv'.highest = 0 /\ recv'.first = TRUE
    BY <1>1 DEF Start, StartChunk, StreamTypeOK, IsReceiver
  <2>2. LongestGap \in Nat
    BY StreamAssumption
  <2> QED
    BY <1>0, <1>1, <2>1, <2>2 DEF Start, InOrder
<1>2. CASE Arrives
  <2>1. CASE beheaded
    BY <1>0, <1>2, <2>1 DEF Arrives, ghosts, InOrder
  <2> QED BY <1>0, <1>2, <2>1, ArrivesInOrder
<1>3. CASE IsLost
  <2>1. gap \in Nat /\ LongestGap \in Nat /\ recv.highest \in Nat /\ next \in Nat
    BY ReceiverShaped, ShapedFields, StreamAssumption DEF StreamTypeOK
  <2>2. CASE beheaded'
    BY <1>0, <1>3, <2>2 DEF IsLost, InOrder
  <2>3. CASE ~beheaded'
    <3>1. next # 0 /\ phase = "stream" /\ ~beheaded
      BY <1>3, <2>3 DEF IsLost, MaySend
    <3> QED
      BY <1>0, <1>3, <2>1, <3>1 DEF IsLost, InOrder
  <2> QED BY <2>2, <2>3
<1>4. CASE IsOvertaken
  BY <1>0, <1>4 DEF IsOvertaken
<1>5. ASSUME NEW t \in late, ArrivesLate(t) PROVE InOrder'
  BY <1>0, <1>5 DEF InOrder
<1>6. CASE Check
  <2>1. Shaped(recv) /\ Shaped(CheckChunk(recv)) /\ CheckChunk(recv).vec = recv.vec
    BY CheckFields, ReceiverShaped DEF StreamTypeOK
  <2>2. recv'.vec = recv.vec
    <3>1. CASE recv' = CheckChunk(recv)
      BY <2>1, <3>1
    <3>2. CASE recv' = NextMissing(CheckChunk(recv))
      BY <2>1, <3>2, NextVec
    <3> QED BY <1>6, <3>1, <3>2, Checked
  <2> QED
    BY <1>0, <1>6, <2>2 DEF Check, link, ghosts, InOrder
<1>7. ASSUME NEW i \in asked, Reply(i) PROVE InOrder'
  <2>1. /\ Shaped(recv) /\ Shaped(StoreMissing(recv, i))
        /\ StoreMissing(recv, i).vec = [recv.vec EXCEPT ![recv.missed_in_request] = i]
    BY StoreFields, ReceiverShaped DEF StreamTypeOK
  <2>2. recv'.vec = [recv.vec EXCEPT ![recv.missed_in_request] = i]
    <3>1. CASE recv' = StoreMissing(recv, i)
      BY <2>1, <3>1
    <3>2. CASE recv' = NextMissing(StoreMissing(recv, i))
      BY <2>1, <3>2, NextVec
    <3> QED BY <1>7, <3>1, <3>2, Replied
  <2>3. ~repeated' => ~repeated /\ i = recv.missed_in_request
    <3>1. ASSUME ~repeated' PROVE ~repeated /\ i \notin answered
      BY <1>7, <3>1 DEF Reply
    <3> QED BY <1>7, <3>1 DEF Requests
  <2>4. phase' # "stream"
    BY <1>7, Replied DEF Reply
  <2>5. UNCHANGED <<reach, late, beheaded>>
    BY <1>7 DEF Reply, link
  <2>6. ~beheaded' /\ ~repeated' => \A t \in DOMAIN recv'.vec : recv'.vec[t] \in {None, t}
    BY <1>0, <2>2, <2>3, <2>5 DEF InOrder
  <2> QED BY <1>0, <2>4, <2>5, <2>6 DEF InOrder
<1>8. CASE UNCHANGED streamVars
  BY <1>8 DEF streamVars, link, ghosts, InOrder
<1> QED
  BY <1>1, <1>2, <1>3, <1>4, <1>5, <1>6, <1>7, <1>8 DEF StreamNext

\* On a link that keeps packages in order and loses no more in a row than fit
\* ahead of the window, no slot of a chunk that comes with its first package holds
\* the payload of another, unless a reply is repeated.
THEOREM StreamSlotsAreOwnHolds == ASSUME LinkIsKind PROVE StreamSpec => []StreamSlotsAreOwn
<1>1. StreamInit => StreamTypeOK /\ Phases /\ Requests /\ InOrder
  BY StreamTypeInit, RequestsInit, InOrderInit DEF StreamInit, Phases
<1>2. StreamTypeOK /\ Phases /\ Requests /\ InOrder /\ [StreamNext]_streamVars
      => (StreamTypeOK /\ Phases /\ Requests /\ InOrder)'
  BY StreamTypeStep, RequestsStep, InOrderStep
<1>3. InOrder => StreamSlotsAreOwn
  BY DEF InOrder, StreamSlotsAreOwn
<1> QED
  BY <1>1, <1>2, <1>3, PTL DEF StreamSpec

-----------------------------------------------------------------------------
(* The stream alone: holes *)

\* The slots from a on and before b are filled, as far as there are any.
NoHole(x, a, b) == \A i \in a..(b - 1) : i < x.count => x.vec[i] # None

\* As long as nothing seems to have been skipped, the packages came with the indices
\* that last_idx counts: from what it was found at, or from 0 once the first one is
\* in.
NothingHidden ==
    phase = "stream" =>
      /\ ~beheaded /\ recv.first = TRUE =>
           next = 0 /\ late = {} /\ recv.last_received = FALSE
      /\ recv.skipped = FALSE =>
           /\ recv.first = TRUE => left <= recv.last_idx /\ NoHole(recv, left, recv.last_idx)
           /\ recv.first = FALSE => NoHole(recv, 0, recv.last_idx)
           /\ recv.last_received = TRUE => NoHole(recv, left, recv.count)
           /\ recv.last_received = TRUE /\ ~beheaded => NoHole(recv, 0, recv.count)

\* What is still missing is going to be requested.
NothingForgotten ==
    /\ HolesAreFound
    /\ phase = "repair" => Holes(recv) \subseteq recv.missed \cup {recv.missed_in_request}

LEMMA NothingHiddenInit == StreamInit => NothingHidden /\ NothingForgotten
BY DEF StreamInit, NothingHidden, NothingForgotten, HolesAreFound

LEMMA ReceivesOpenly ==
    ASSUME StreamTypeOK, NothingHidden, phase = "stream", NEW b \in Nat, NEW p \in Nat,
           recv' = ReceivePackage(recv, b, p), ~beheaded /\ recv.first = TRUE => b = 0,
           UNCHANGED <<phase, beheaded, left>>
    PROVE  NothingHidden'
<1> DEFINE t == IndexOf(recv, b)
           head == recv.first = TRUE /\ b = 0
<1>1. /\ Shaped(recv) /\ recv.count \in Nat /\ recv.last_idx \in Nat /\ left \in Nat
      /\ recv.first \in BOOLEAN /\ recv.skipped \in BOOLEAN /\ recv.last_received \in BOOLEAN
      /\ recv.vec \in [0..(recv.count - 1) -> Nat \cup {None}]
      /\ t \in Nat /\ None \notin Nat
  BY ReceiverShaped, ShapedFields, IndexIsNat, StreamAssumption DEF StreamTypeOK
<1>2. /\ Shaped(recv') /\ recv'.first \in BOOLEAN /\ recv'.skipped \in BOOLEAN
      /\ recv'.last_received \in BOOLEAN /\ recv'.last_idx \in Nat
  BY ReceiveType, ReceiverShaped, ShapedFields DEF StreamTypeOK
<1>3. /\ recv'.count = recv.count
      /\ recv'.first <=> recv.first /\ b # 0
      /\ recv'.vec = IF t < recv.count THEN [recv.vec EXCEPT ![t] = p] ELSE recv.vec
      /\ recv'.last_idx = IF recv.first /\ b = 0 THEN 1 ELSE recv.last_idx + 1
      /\ ~recv'.skipped => ~recv.skipped /\ t = recv'.last_idx - 1
      /\ recv'.last_received <=> recv.last_received \/ t + 1 = recv.count
  BY <1>1, ReceiveFields
<1> HIDE DEF t
<1>4. \A i \in 0..(recv.count - 1) :
         /\ recv.vec[i] # None => recv'.vec[i] # None
         /\ i = t => recv'.vec[i] # None
  BY <1>1, <1>3
<1>5. \A a \in Nat, z \in Nat :
         /\ NoHole(recv, a, z) => NoHole(recv', a, z)
         /\ NoHole(recv, a, z) /\ z = t => NoHole(recv', a, z + 1)
  BY <1>1, <1>3, <1>4 DEF NoHole
<1>6. \A a \in Nat, z \in Nat : NoHole(recv', 0, z) => NoHole(recv', a, z)
  BY <1>1 DEF NoHole
<1>7. ~beheaded => recv'.first = FALSE
  BY <1>1, <1>2, <1>3
<1>8. ASSUME recv'.skipped = FALSE
      PROVE  /\ recv'.first = TRUE => left <= recv'.last_idx /\ NoHole(recv', left, recv'.last_idx)
             /\ recv'.first = FALSE => NoHole(recv', 0, recv'.last_idx)
             /\ recv'.last_received = TRUE => NoHole(recv', left, recv'.count)
             /\ recv'.last_received = TRUE /\ ~beheaded => NoHole(recv', 0, recv'.count)
  <2>1. recv.skipped = FALSE /\ t = recv'.last_idx - 1
    BY <1>1, <1>2, <1>3, <1>8
  <2>2. /\ recv.first = TRUE => left <= recv.last_idx /\ NoHole(recv, left, recv.last_idx)
        /\ recv.first = FALSE => NoHole(recv, 0, recv.last_idx)
        /\ recv.last_received = TRUE => NoHole(recv, left, recv.count)
        /\ recv.last_received = TRUE /\ ~beheaded => NoHole(recv, 0, recv.count)
    BY <2>1 DEF NothingHidden
  <2>3. recv.last_received = TRUE =>
           /\ NoHole(recv', left, recv.count)
           /\ ~beheaded => NoHole(recv', 0, recv.count)
    BY <1>1, <1>3, <1>5, <2>2
  <2>4. recv'.last_received = TRUE => recv.last_received = TRUE \/ recv'.last_idx = recv.count
    BY <1>1, <1>2, <1>3, <2>1
  <2>5. CASE head
    <3>1. recv'.last_idx = 1 /\ recv'.first = FALSE /\ t = 0
      BY <1>1, <1>2, <1>3, <2>1, <2>5
    <3>2. NoHole(recv', 0, 1)
      <4>1. NoHole(recv, 0, 0)
        BY DEF NoHole
      <4> QED BY <1>5, <3>1, <4>1
    <3>3. NoHole(recv', 0, recv'.last_idx)
      BY <3>1, <3>2 DEF NoHole
    <3>4. recv'.last_idx = recv.count => NoHole(recv', 0, recv.count) /\ NoHole(recv', left, recv.count)
      BY <1>1, <1>3, <1>6, <3>1, <3>2
    <3>5. recv'.count = recv.count
      BY <1>3
    <3> QED BY <2>3, <2>4, <3>1, <3>3, <3>4, <3>5
  <2>6. CASE ~head
    <3>1. recv'.last_idx = recv.last_idx + 1 /\ t = recv.last_idx
      BY <1>1, <1>3, <2>1, <2>6
    <3>2. recv.first = TRUE =>
             /\ recv'.first = TRUE /\ left <= recv'.last_idx /\ beheaded
             /\ NoHole(recv', left, recv.last_idx + 1)
      BY <1>1, <1>2, <1>3, <1>5, <2>2, <2>6, <3>1
    <3>3. recv.first = FALSE => recv'.first = FALSE /\ NoHole(recv', 0, recv.last_idx + 1)
      BY <1>1, <1>2, <1>3, <1>5, <2>2, <3>1
    <3> QED BY <1>1, <1>3, <1>6, <2>3, <2>4, <3>1, <3>2, <3>3
  <2> QED BY <2>5, <2>6
<1> QED
  BY <1>7, <1>8 DEF NothingHidden

\* An empty slot of a chunk taken for complete lies before the old last_idx.
LEMMA CheckFindsHoles ==
    ASSUME StreamTypeOK, Phases, NothingHidden, Check
    PROVE  NothingForgotten'
<1> DEFINE r == CheckChunk(recv)
<1>1. /\ Shaped(recv) /\ Shaped(r) /\ phase = "stream" /\ recv.missed_cnt = 0
      /\ UNCHANGED <<beheaded, left>> /\ left \in Nat /\ recv.count \in Nat
      /\ recv.skipped \in BOOLEAN /\ recv.last_received \in BOOLEAN
  BY CheckFields, ReceiverShaped, ShapedFields DEF Check, ghosts, StreamTypeOK, Phases
<1>2. /\ Holes(r) = Holes(recv)
      /\ \A i \in Holes(recv) : i \in 0..(recv.count - 1) /\ recv.vec[i] = None
  BY <1>1, CheckOutcome DEF Holes
<1>3. CASE r.missed_cnt = 0 /\ recv' = r /\ phase' = "done"
  <2>1. CASE recv.skipped \/ ~recv.last_received
    <3>1. Holes(recv) = {}
      BY <1>1, <1>3, <2>1, CheckOutcome
    <3> QED BY <1>2, <1>3, <3>1 DEF NothingForgotten, HolesAreFound
  <2>2. CASE ~(recv.skipped \/ ~recv.last_received)
    <3>1. NoHole(recv, left, recv.count) /\ (~beheaded => NoHole(recv, 0, recv.count))
      BY <1>1, <2>2 DEF NothingHidden
    <3>2. Holes(recv) \subseteq 0..(left - 1)
      BY <1>1, <1>2, <3>1 DEF NoHole
    <3>3. ~beheaded => Holes(recv) = {}
      BY <1>1, <1>2, <3>1 DEF NoHole
    <3> HIDE DEF r
    <3>4. Holes(recv') = Holes(recv)
      BY <1>2, <1>3
    <3> QED BY <1>1, <1>3, <3>2, <3>3, <3>4 DEF NothingForgotten, HolesAreFound
  <2> QED BY <2>1, <2>2
<1>4. CASE r.missed_cnt # 0 /\ recv' = NextMissing(r) /\ phase' = "repair"
  <2>1. r.missed = Holes(recv) /\ r.missed # {}
    BY <1>1, <1>4, CheckedMissing
  <2>2. /\ recv'.missed_in_request = Least(r.missed) /\ recv'.missed = r.missed \ {Least(r.missed)}
        /\ recv'.vec = r.vec /\ recv'.count = r.count
    BY <1>1, <1>4, <2>1, NextFields
  <2> HIDE DEF r
  <2>3. Holes(recv') = Holes(recv)
    BY <1>2, <2>2 DEF Holes
  <2> QED BY <1>4, <2>1, <2>2, <2>3 DEF NothingForgotten, HolesAreFound
<1> QED BY <1>3, <1>4, Checked

\* A reply fills the slot awaited and empties none.
LEMMA ReplyFindsHoles ==
    ASSUME StreamTypeOK, Requests, NothingForgotten, NEW i \in asked, Reply(i)
    PROVE  NothingForgotten'
<1> DEFINE r == StoreMissing(recv, i)
           q == recv.missed_in_request
<1>1. /\ Shaped(recv) /\ Shaped(r) /\ i \in Nat /\ i # None
      /\ r.vec = [recv.vec EXCEPT ![q] = i] /\ r.count = recv.count
      /\ recv.vec \in [0..(recv.count - 1) -> Nat \cup {None}]
      /\ r.missed = recv.missed /\ UNCHANGED <<beheaded, left>>
      /\ phase \in {"repair", "done"} /\ asked # {}
  BY StoreFields, ReceiverShaped, StreamAssumption DEF Reply, link, StreamTypeOK
<1> HIDE DEF r
<1>2. Holes(r) \subseteq Holes(recv) \ {q}
  BY <1>1 DEF Holes
<1>3. CASE r.missed # {} /\ recv' = NextMissing(r) /\ phase' = phase
  <2>1. /\ recv'.missed_in_request = Least(r.missed) /\ recv'.missed = r.missed \ {Least(r.missed)}
        /\ recv'.vec = r.vec /\ recv'.count = r.count
    BY <1>1, <1>3, NextFields
  <2>2. phase = "repair"
    BY <1>1, <1>3 DEF Requests
  <2>3. Holes(recv') = Holes(r)
    BY <2>1 DEF Holes
  <2> QED BY <1>1, <1>2, <1>3, <2>1, <2>2, <2>3 DEF NothingForgotten, HolesAreFound
<1>4. CASE r.missed = {} /\ recv' = r /\ phase' = "done"
  <2>1. CASE phase = "repair"
    <3>1. Holes(r) = {}
      BY <1>1, <1>2, <1>4, <2>1 DEF NothingForgotten
    <3> QED BY <1>4, <3>1 DEF NothingForgotten, HolesAreFound
  <2>2. CASE phase = "done"
    BY <1>1, <1>2, <1>4, <2>2 DEF NothingForgotten, HolesAreFound
  <2> QED BY <1>1, <2>1, <2>2
<1> QED BY <1>3, <1>4, Replied DEF r

LEMMA NothingHiddenStep ==
    /\ StreamTypeOK /\ Phases /\ Requests /\ NothingHidden /\ NothingForgotten
    /\ [StreamNext]_streamVars
    => (NothingHidden /\ NothingForgotten)'
<1> SUFFICES ASSUME StreamTypeOK, Phases, Requests, NothingHidden, NothingForgotten,
                    [StreamNext]_streamVars
             PROVE  NothingHidden' /\ NothingForgotten'
  OBVIOUS
<1>0. recv.first \in BOOLEAN /\ beheaded \in BOOLEAN
  BY ReceiverShaped, ShapedFields DEF StreamTypeOK
<1>1. ASSUME NEW n \in Sizes, Start(n) PROVE NothingHidden' /\ NothingForgotten'
  <2>1. /\ recv'.last_received = FALSE /\ recv'.first = TRUE /\ recv'.last_idx = recv.last_idx
        /\ recv.last_idx \in Nat
    BY <1>1, ReceiverShaped, ShapedFields DEF Start, StartChunk, StreamTypeOK, IsReceiver
  <2>2. /\ phase' = "stream" /\ next' = 0 /\ late' = {} /\ beheaded' = FALSE
        /\ left' = recv.last_idx
    BY <1>1 DEF Start, Phases
  <2>3. NoHole(recv', left', recv'.last_idx)
    BY <2>1, <2>2 DEF NoHole
  <2> QED BY <2>1, <2>2, <2>3 DEF NothingHidden, NothingForgotten, HolesAreFound
<1>2. ASSUME phase' # "done", phase' # "repair" PROVE NothingForgotten'
  BY <1>2 DEF NothingForgotten, HolesAreFound
<1>3. CASE Arrives
  <2>1. /\ phase = "stream" /\ next \in Nat /\ next % Wrap \in Nat
        /\ recv' = ReceivePackage(recv, next % Wrap, next) /\ UNCHANGED <<phase, beheaded, left>>
    BY <1>3, DivMod, WrapAssumption DEF Arrives, MaySend, ghosts, StreamTypeOK
  <2>2. ~beheaded /\ recv.first = TRUE => next % Wrap = 0
    BY <2>1, WrapAssumption DEF NothingHidden
  <2> QED BY <1>2, <2>1, <2>2, ReceivesOpenly
<1>4. CASE IsLost
  <2>1. phase = "stream" /\ (~beheaded' => ~beheaded /\ next # 0)
    BY <1>0, <1>4 DEF IsLost, MaySend
  <2>2. UNCHANGED <<recv, phase, left>>
    BY <1>4 DEF IsLost
  <2> QED BY <1>2, <2>1, <2>2 DEF NothingHidden
<1>5. CASE IsOvertaken
  <2>1. phase = "stream" /\ (~beheaded' => ~beheaded /\ next # 0)
    BY <1>0, <1>5 DEF IsOvertaken, MaySend
  <2>2. UNCHANGED <<recv, phase, left>>
    BY <1>5 DEF IsOvertaken
  <2> QED BY <1>2, <2>1, <2>2 DEF NothingHidden
<1>6. ASSUME NEW t \in late, ArrivesLate(t) PROVE NothingHidden' /\ NothingForgotten'
  <2>1. /\ phase = "stream" /\ t \in Nat /\ t % Wrap \in Nat
        /\ recv' = ReceivePackage(recv, t % Wrap, t) /\ UNCHANGED <<phase, beheaded, left>>
    BY <1>6, DivMod, WrapAssumption DEF ArrivesLate, ghosts, StreamTypeOK, Phases
  <2>2. ~(~beheaded /\ recv.first = TRUE)
    BY <1>6, <2>1 DEF NothingHidden
  <2> QED BY <1>2, <2>1, <2>2, ReceivesOpenly
<1>7. CASE Check
  <2>1. phase' # "stream"
    BY <1>7, Checked
  <2> QED BY <1>7, <2>1, CheckFindsHoles DEF NothingHidden
<1>8. ASSUME NEW i \in asked, Reply(i) PROVE NothingHidden' /\ NothingForgotten'
  <2>1. phase' # "stream"
    BY <1>8, Replied DEF Reply
  <2> QED BY <1>8, <2>1, ReplyFindsHoles DEF NothingHidden
<1>9. CASE UNCHANGED streamVars
  BY <1>9 DEF streamVars, link, ghosts, NothingHidden, NothingForgotten, HolesAreFound, NoHole
<1> QED
  BY <1>1, <1>3, <1>4, <1>5, <1>6, <1>7, <1>8, <1>9 DEF StreamNext

\* On every link a chunk is taken for complete with empty slots only if its first
\* package was lost or overtaken, and then only slots before the one last_idx
\* pointed to when the chunk started are empty.
THEOREM HolesAreFoundHolds == StreamSpec => []HolesAreFound
<1>1. StreamInit => StreamTypeOK /\ Phases /\ Requests /\ NothingHidden /\ NothingForgotten
  BY StreamTypeInit, RequestsInit, NothingHiddenInit DEF StreamInit, Phases
<1>2. /\ StreamTypeOK /\ Phases /\ Requests /\ NothingHidden /\ NothingForgotten
      /\ [StreamNext]_streamVars
      => (StreamTypeOK /\ Phases /\ Requests /\ NothingHidden /\ NothingForgotten)'
  BY StreamTypeStep, RequestsStep, NothingHiddenStep
<1>3. NothingForgotten => HolesAreFound
  BY DEF NothingForgotten
<1> QED
  BY <1>1, <1>2, <1>3, PTL DEF StreamSpec

-----------------------------------------------------------------------------
(* Sequences of messages, commands and events *)

All(q, ops) == \A i \in DOMAIN q : q[i].op \in ops

After(q, op, ops) ==
    \A i, j \in DOMAIN q : i < j /\ q[i].op = op => q[j].op \in ops

Lacks(q, op) == \A i \in DOMAIN q : q[i].op # op

\* An OK comes before anything of a stream, and no START after it.
Answer(q) ==
    \E k \in DOMAIN q :
        /\ q[k].op = "OK"
        /\ \A i \in DOMAIN q : /\ i < k => q[i].op \notin {"PKG", "ACK_PROC"}
                               /\ i > k => q[i].op # "START"

\* The number of the package that message m carries.
No(m) == m.payload[2]

\* The packages in q are those of chunk k, with numbers below n.
Own(q, k, n) ==
    \A i \in DOMAIN q : q[i].op = "PKG" =>
        /\ q[i].chunk = k /\ q[i].payload = <<k, No(q[i])>>
        /\ q[i].byte = No(q[i]) % Wrap
        /\ No(q[i]) \in Nat /\ No(q[i]) < n

\* Package b may follow package a; before the first one a is -1.
Follows(a, b, exact) ==
    /\ a < b /\ b <= a + 1 + MaxGap
    /\ a = -1 => b = 0
    /\ exact => b = a + 1

\* After package a the device goes on with package n, g have been lost since.
Ends(a, n, g) == n = a + 1 + g /\ (a = -1 => g = 0)

\* The packages in q follow each other, from package a to package n.
Run(q, a, n, g, exact) ==
    /\ Lacks(q, "PKG") => Ends(a, n, g)
    /\ \A i \in DOMAIN q : q[i].op = "PKG" =>
         /\ (\A j \in DOMAIN q : j < i => q[j].op # "PKG") => Follows(a, No(q[i]), exact)
         /\ (\A j \in DOMAIN q : j > i => q[j].op # "PKG") => Ends(No(q[i]), n, g)
         /\ \A j \in DOMAIN q :
              j > i /\ q[j].op = "PKG"
                /\ (\A l \in DOMAIN q : i < l /\ l < j => q[l].op # "PKG")
              => Follows(No(q[i]), No(q[j]), exact)

\* The chunk that is offered in q is k.
Offers(q, k) == \A i \in DOMAIN q : q[i].op = "START" => q[i].chunk = k

\* The missing package that comes in q is p.
Supplies(q, p) == \A i \in DOMAIN q : q[i].op = "MISSED" => q[i].payload = p

\* There is only c in q.
Same(q, c) == \A i \in DOMAIN q : q[i] = c

LEMMA TailAt ==
    ASSUME NEW X, NEW q \in Seq(X), q # <<>>
    PROVE  /\ Tail(q) \in Seq(X) /\ Head(q) \in X /\ Head(q) = q[1]
           /\ Len(q) \in Nat \ {0} /\ DOMAIN q = 1..Len(q)
           /\ Len(Tail(q)) = Len(q) - 1 /\ DOMAIN Tail(q) = 1..(Len(q) - 1)
           /\ \A i \in 1..(Len(q) - 1) : Tail(q)[i] = q[i + 1]
OBVIOUS

LEMMA AppendAt ==
    ASSUME NEW X, NEW q \in Seq(X), NEW e \in X
    PROVE  /\ Append(q, e) \in Seq(X)
           /\ Len(q) \in Nat /\ DOMAIN q = 1..Len(q)
           /\ Len(Append(q, e)) = Len(q) + 1 /\ DOMAIN Append(q, e) = 1..(Len(q) + 1)
           /\ \A i \in 1..Len(q) : Append(q, e)[i] = q[i]
           /\ Append(q, e)[Len(q) + 1] = e
OBVIOUS

LEMMA EmptyAll ==
    /\ \A ops : All(<<>>, ops)
    /\ \A op : Lacks(<<>>, op)
    /\ \A op, ops : After(<<>>, op, ops)
BY DEF All, Lacks, After

LEMMA AllWeaker ==
    ASSUME NEW q, NEW ops, NEW more, ops \subseteq more, All(q, ops)
    PROVE  All(q, more)
BY DEF All

LEMMA AllBut ==
    ASSUME NEW q, NEW ops, NEW op, NEW more, All(q, ops), Lacks(q, op),
           ops \subseteq more \cup {op}
    PROVE  All(q, more)
BY DEF All, Lacks

LEMMA LacksAll ==
    ASSUME NEW q, NEW ops, NEW op, All(q, ops), op \notin ops
    PROVE  Lacks(q, op)
BY DEF All, Lacks

\* Nothing follows an operation that does not occur.
LEMMA AfterNone ==
    ASSUME NEW q, NEW op, NEW ops, Lacks(q, op)
    PROVE  After(q, op, ops)
BY DEF Lacks, After

LEMMA AllNothing ==
    ASSUME NEW X, NEW q \in Seq(X), NEW ops, NEW others,
           All(q, ops), All(q, others), ops \cap others = {}
    PROVE  q = <<>>
<1>1. SUFFICES ASSUME q # <<>> PROVE FALSE
  OBVIOUS
<1>2. 1 \in DOMAIN q
  BY <1>1
<1> QED
  BY <1>2 DEF All

LEMMA TailOps ==
    ASSUME NEW X, NEW q \in Seq(X), q # <<>>
    PROVE  /\ \A ops : All(q, ops) <=> Head(q).op \in ops /\ All(Tail(q), ops)
           /\ \A op : Lacks(q, op) <=> Head(q).op # op /\ Lacks(Tail(q), op)
           /\ \A op, ops : After(q, op, ops) =>
                /\ After(Tail(q), op, ops)
                /\ Head(q).op = op => All(Tail(q), ops)
<1>0. /\ Head(q) = q[1] /\ Len(q) \in Nat \ {0} /\ DOMAIN q = 1..Len(q)
      /\ DOMAIN Tail(q) = 1..(Len(q) - 1)
      /\ \A i \in 1..(Len(q) - 1) : Tail(q)[i] = q[i + 1]
  BY TailAt
<1>a. \A i \in DOMAIN q : i = 1 \/ (i - 1 \in DOMAIN Tail(q) /\ q[i] = Tail(q)[i - 1])
  BY <1>0
<1>1. ASSUME NEW ops
      PROVE  All(q, ops) <=> Head(q).op \in ops /\ All(Tail(q), ops)
  <2>1. ASSUME All(q, ops) PROVE Head(q).op \in ops /\ All(Tail(q), ops)
    BY <1>0, <2>1 DEF All
  <2>2. ASSUME Head(q).op \in ops, All(Tail(q), ops) PROVE All(q, ops)
    BY <1>0, <1>a, <2>2 DEF All
  <2> QED
    BY <2>1, <2>2
<1>2. ASSUME NEW op
      PROVE  Lacks(q, op) <=> Head(q).op # op /\ Lacks(Tail(q), op)
  <2>1. ASSUME Lacks(q, op) PROVE Head(q).op # op /\ Lacks(Tail(q), op)
    BY <1>0, <2>1 DEF Lacks
  <2>2. ASSUME Head(q).op # op, Lacks(Tail(q), op) PROVE Lacks(q, op)
    BY <1>0, <1>a, <2>2 DEF Lacks
  <2> QED
    BY <2>1, <2>2
<1>3. ASSUME NEW op, NEW ops, After(q, op, ops)
      PROVE  /\ After(Tail(q), op, ops)
             /\ Head(q).op = op => All(Tail(q), ops)
  <2>1. After(Tail(q), op, ops)
    BY <1>0, <1>3 DEF After
  <2>2. Head(q).op = op => All(Tail(q), ops)
    BY <1>0, <1>3 DEF After, All
  <2> QED
    BY <2>1, <2>2
<1> QED
  BY <1>1, <1>2, <1>3

LEMMA AppendOps ==
    ASSUME NEW X, NEW q \in Seq(X), NEW e \in X
    PROVE  /\ \A ops : All(Append(q, e), ops) <=> All(q, ops) /\ e.op \in ops
           /\ \A op : Lacks(Append(q, e), op) <=> Lacks(q, op) /\ e.op # op
           /\ \A op, ops : After(q, op, ops) /\ e.op \in ops
                => After(Append(q, e), op, ops)
           /\ \A op, ops : Lacks(q, op) => After(Append(q, e), op, ops)
<1>0. /\ Len(q) \in Nat /\ DOMAIN q = 1..Len(q)
      /\ DOMAIN Append(q, e) = 1..(Len(q) + 1)
      /\ \A i \in 1..Len(q) : Append(q, e)[i] = q[i]
      /\ Append(q, e)[Len(q) + 1] = e
  BY AppendAt
<1>a. \A i \in DOMAIN Append(q, e) :
        \/ i \in DOMAIN q /\ Append(q, e)[i] = q[i]
        \/ i = Len(q) + 1 /\ Append(q, e)[i] = e
  BY <1>0
<1>1. ASSUME NEW ops
      PROVE  All(Append(q, e), ops) <=> All(q, ops) /\ e.op \in ops
  <2>1. ASSUME All(Append(q, e), ops) PROVE All(q, ops) /\ e.op \in ops
    BY <1>0, <2>1 DEF All
  <2>2. ASSUME All(q, ops), e.op \in ops PROVE All(Append(q, e), ops)
    BY <1>a, <2>2 DEF All
  <2> QED
    BY <2>1, <2>2
<1>2. ASSUME NEW op
      PROVE  Lacks(Append(q, e), op) <=> Lacks(q, op) /\ e.op # op
  <2>1. ASSUME Lacks(Append(q, e), op) PROVE Lacks(q, op) /\ e.op # op
    BY <1>0, <2>1 DEF Lacks
  <2>2. ASSUME Lacks(q, op), e.op # op PROVE Lacks(Append(q, e), op)
    BY <1>a, <2>2 DEF Lacks
  <2> QED
    BY <2>1, <2>2
<1>3. ASSUME NEW op, NEW ops, After(q, op, ops), e.op \in ops
      PROVE  After(Append(q, e), op, ops)
  BY <1>0, <1>a, <1>3 DEF After
<1>4. ASSUME NEW op, NEW ops, Lacks(q, op)
      PROVE  After(Append(q, e), op, ops)
  BY <1>0, <1>a, <1>4 DEF After, Lacks
<1> QED
  BY <1>1, <1>2, <1>3, <1>4


LEMMA TailSays ==
    ASSUME NEW X, NEW q \in Seq(X), q # <<>>
    PROVE  /\ \A k : Offers(q, k) => /\ Offers(Tail(q), k)
                                     /\ Head(q).op = "START" => Head(q).chunk = k
           /\ \A p : Supplies(q, p) => /\ Supplies(Tail(q), p)
                                       /\ Head(q).op = "MISSED" => Head(q).payload = p
           /\ \A c : Same(q, c) => Same(Tail(q), c) /\ Head(q) = c
<1>0. /\ Head(q) = q[1] /\ Len(q) \in Nat \ {0} /\ DOMAIN q = 1..Len(q)
      /\ DOMAIN Tail(q) = 1..(Len(q) - 1)
      /\ \A i \in 1..(Len(q) - 1) : Tail(q)[i] = q[i + 1]
  BY TailAt
<1>1. 1 \in DOMAIN q /\ \A i \in DOMAIN Tail(q) : i + 1 \in DOMAIN q /\ Tail(q)[i] = q[i + 1]
  BY <1>0
<1>2. ASSUME NEW k, Offers(q, k)
      PROVE  Offers(Tail(q), k) /\ (Head(q).op = "START" => Head(q).chunk = k)
  BY <1>0, <1>1, <1>2 DEF Offers
<1>3. ASSUME NEW p, Supplies(q, p)
      PROVE  Supplies(Tail(q), p) /\ (Head(q).op = "MISSED" => Head(q).payload = p)
  BY <1>0, <1>1, <1>3 DEF Supplies
<1>4. ASSUME NEW c, Same(q, c)
      PROVE  Same(Tail(q), c) /\ Head(q) = c
  BY <1>0, <1>1, <1>4 DEF Same
<1> QED
  BY <1>2, <1>3, <1>4

LEMMA AppendSays ==
    ASSUME NEW X, NEW q \in Seq(X), NEW e \in X
    PROVE  /\ \A k : Offers(q, k) /\ (e.op = "START" => e.chunk = k) => Offers(Append(q, e), k)
           /\ \A p : Supplies(q, p) /\ (e.op = "MISSED" => e.payload = p)
                => Supplies(Append(q, e), p)
           /\ \A c : Same(q, c) /\ e = c => Same(Append(q, e), c)
<1>1. \A i \in DOMAIN Append(q, e) :
        \/ i \in DOMAIN q /\ Append(q, e)[i] = q[i]
        \/ Append(q, e)[i] = e
  BY AppendAt
<1> QED
  BY <1>1 DEF Offers, Supplies, Same

LEMMA NothingSays ==
    ASSUME NEW q
    PROVE  /\ Lacks(q, "START") => \A k : Offers(q, k)
           /\ Lacks(q, "MISSED") => \A p : Supplies(q, p)
           /\ q = <<>> => \A c : Same(q, c)
BY DEF Lacks, Offers, Supplies, Same

LEMMA SameAll ==
    ASSUME NEW q, NEW c, Same(q, c)
    PROVE  All(q, {c.op})
BY DEF All, Same
-----------------------------------------------------------------------------
(* The download: its invariant *)

\* The link loses packages of streams or other messages, not both, and no
\* more packages in a row than the index computation can cope with.
LinkIsFair == ~Mixed /\ MaxGap + 2 + Window <= Wrap

Cmds == [op : {"REQUEST", "START_OK", "ACK_OK", "MISSING", "OK"}, pkg : Nat]

Msgs == [op : {"OK", "START", "NO_CHUNK", "PKG", "ACK_PROC", "MISSED"},
         chunk : Chunk \cup {0}, byte : 0..(Wrap - 1),
         payload : (Chunk \X Nat) \cup {None}]

\* The messages a device sends.
Sound == {m \in Msgs : /\ m.op = "START" => m.chunk \in Chunk
                       /\ m.op = "PKG" => m.payload \in Chunk \X Nat}

Devs == [chunk : 1..(Len(Counts) + 1),
         phase : {"idle", "offered", "streaming", "sent"},
         next : Nat, gap : 0..MaxGap]

\* The last command that became outstanding.
Last == ch.last_cmd.op

\* The backlog timer runs, and op is what it will ask for.
Waits(op) ==
    ch.backlogTimer /\ ch.backlog # <<>> /\ Newest(ch.backlog).op = op

Streamed == {"PKG", "ACK_PROC"}

Typed ==
    /\ timely \in Timing
    /\ ch \in ChannelType(Cmds, NoCmd) /\ ch.last_cmd \in Cmds
    /\ IsReceiver(rx, Chunk \X Nat)
    /\ kind \in Chunk \cup {0}
    /\ nextTimer \in BOOLEAN
    /\ inbox \in Seq(Sound)
    /\ dev \in Devs
    /\ dev.phase # "idle" => dev.chunk \in Chunk
    /\ pkgLosses \in 0..MaxPkgLoss
    /\ losses \in 0..MaxLoss

Losses ==
    /\ pkgLosses > 0 => timely /\ losses = 0
    /\ losses > 0 => timely
    /\ Last = "MISSING" => pkgLosses > 0
    /\ dev.gap > 0 => pkgLosses > 0

\* What is on its way is about the chunk the device is at.
Messages ==
    /\ Offers(inbox, dev.chunk)
    /\ dev.chunk \in Chunk => Lacks(inbox, "NO_CHUNK") /\ Lacks(ch.air, "OK")

\* On a timely link one command at a time is on its way, or its answer.
Flight == timely =>
    /\ Len(ch.air) <= 1
    /\ ch.air # <<>> => All(inbox, Streamed)
    /\ After(inbox, "OK", Streamed \cup {"MISSED"})
    /\ After(inbox, "START", Streamed)
    /\ After(inbox, "NO_CHUNK", Streamed)
    /\ After(inbox, "MISSED", Streamed \cup {"OK"})
    /\ ch.cmdTimer => Lacks(ch.air, "OK")
    /\ ~ch.cmdTimer => All(ch.air, {"OK"}) /\ All(inbox, Streamed \cup {"MISSED"})
    /\ losses = 0 /\ ch.cmdTimer /\ ch.air = <<>>
         => ~All(inbox, Streamed \cup {"MISSED"})

\* The four stages of the download of a chunk.  The controller asks for it,
Asking ==
    /\ Last = "REQUEST" /\ ~ch.backlogTimer /\ ~nextTimer
    /\ dev.phase \in {"idle", "offered", "sent"}
    /\ All(inbox, {"OK", "START", "NO_CHUNK"})
    /\ dev.phase # "offered" => All(inbox, {"OK", "NO_CHUNK"})
    /\ All(ch.air, {"START_OK", "ACK_OK", "REQUEST", "OK"})
    /\ dev.phase = "offered" => All(ch.air, {"REQUEST"})
    /\ After(ch.air, "REQUEST", {"REQUEST", "OK"})

\* takes its packages,
Conversation ==
    \/ /\ dev.phase = "offered"
       /\ All(inbox, {"OK", "START"})
       /\ All(ch.air, {"REQUEST", "START_OK"})
    \/ /\ dev.phase = "streaming"
       /\ All(inbox, {"OK", "START", "PKG"})
       /\ All(ch.air, {"START_OK"})
       /\ dev.next <= Counts[dev.chunk]
    \/ /\ dev.phase = "sent"
       /\ All(inbox, {"OK", "START", "PKG", "ACK_PROC"})
       /\ All(ch.air, {"START_OK"})
       /\ dev.next = Counts[dev.chunk]

\* (the OK that stops the timer comes before the stream ends)
Answered ==
    losses = 0 /\ dev.phase # "offered" /\ (ch.cmdTimer \/ ~Lacks(inbox, "START"))
        => Answer(inbox)

Base == IF rx.first THEN -1 ELSE rx.highest

\* No slot up to h is empty.
Filled(x, h) == \A i \in 0..h : x.vec[i] # None

Received ==
    /\ rx.count = Counts[kind]
    /\ rx.missed_cnt = 0
    /\ dev.phase = "offered" \/ ~Lacks(inbox, "START") => rx.first
    /\ rx.first => rx.highest = 0 /\ ~rx.last_received
    /\ ~rx.first =>
         /\ rx.highest < rx.count
         /\ ~rx.skipped => rx.last_idx = rx.highest + 1 /\ Filled(rx, rx.highest)
         /\ pkgLosses = 0 => Filled(rx, rx.highest)
         /\ rx.last_received => rx.highest + 1 = rx.count

Coming ==
    dev.phase # "offered" =>
        /\ Own(inbox, dev.chunk, dev.next)
        /\ Run(inbox, Base, dev.next, dev.gap, pkgLosses = 0)

Taking ==
    /\ Last = "START_OK" /\ ~ch.backlogTimer /\ ~nextTimer
    /\ kind = dev.chunk
    /\ After(ch.air, "START_OK", {"START_OK"})
    /\ After(inbox, "PKG", {"OK", "PKG", "ACK_PROC"})
    /\ After(inbox, "ACK_PROC", {"OK"})
    /\ Conversation
    /\ Answered
    /\ Received
    /\ Coming

\* requests what is missing, one package after the other,
Requesting ==
    \/ /\ ~ch.backlogTimer
       /\ All(inbox, {"OK", "MISSED"})
       /\ Same(ch.air, MissingCmd(rx.missed_in_request))
    \/ /\ Waits("MISSING")
       /\ Newest(ch.backlog) = MissingCmd(rx.missed_in_request)
       /\ ch.air = <<>>
       /\ All(inbox, {"OK"})

Repairing ==
    /\ Last = "MISSING" /\ ~nextTimer
    /\ pkgLosses > 0
    /\ dev.phase = "sent"
    /\ kind = dev.chunk
    /\ rx.count = Counts[kind]
    /\ rx.missed_in_request \in Holes(rx)
    /\ rx.missed = Holes(rx) \ {rx.missed_in_request}
    /\ Requesting
    /\ Supplies(inbox, <<dev.chunk, rx.missed_in_request>>)

\* and acknowledges it before it asks for the next one.
Acking ==
    /\ \/ Last = "ACK_OK" /\ ~ch.backlogTimer /\ nextTimer
       \/ /\ Last \in {"START_OK", "MISSING", "ACK_OK"} /\ Waits("ACK_OK")
          /\ nextTimer /\ timely
       \/ /\ Last \in {"START_OK", "MISSING", "ACK_OK"} /\ Waits("REQUEST")
          /\ ~nextTimer /\ (Last # "ACK_OK" => timely)
    /\ dev.phase \in {"idle", "sent"}
    /\ All(inbox, {"OK"})
    /\ All(ch.air, {"START_OK", "ACK_OK"})

Stage == Asking \/ Taking \/ Repairing \/ Acking

\* REPLY_MISSED_PACKAGE carries no index and is stored where the last request
\* pointed; on such a link no slot holds the payload of another one.
SlotsAreOwn == \A t \in DOMAIN rx.vec : rx.vec[t] \in {None, <<kind, t>>}

Rest == Losses /\ Messages /\ Flight /\ Stage /\ SlotsAreOwn

Core == Typed /\ Rest

-----------------------------------------------------------------------------
(* The command channel of a download *)

Channel == ChannelType(Cmds, NoCmd)

LEMMA ChannelFields ==
    ASSUME NEW x \in Channel
    PROVE  /\ x.last_cmd \in Cmds \cup {NoCmd} /\ x.retry \in 0..Retry
           /\ x.cmdTimer \in BOOLEAN /\ x.backlog \in Seq(Cmds)
           /\ x.backlogRetries \in 0..BacklogRetry
           /\ x.backlogTimer \in BOOLEAN /\ x.air \in Seq(Cmds)
BY DEF Channel, ChannelType

LEMMA NewestEntry ==
    ASSUME NEW q \in Seq(Cmds)
    PROVE  /\ q # <<>> => Newest(q) \in Cmds /\ WithoutNewest(q) \in Seq(Cmds)
           /\ \A c \in Cmds : /\ Append(q, c) # <<>> /\ Newest(Append(q, c)) = c
                              /\ Append(q, c) \in Seq(Cmds)
<1>1. q # <<>> => Newest(q) \in Cmds /\ WithoutNewest(q) \in Seq(Cmds)
  BY DEF Newest, WithoutNewest
<1>2. ASSUME NEW c \in Cmds
      PROVE  /\ Append(q, c) # <<>> /\ Newest(Append(q, c)) = c
             /\ Append(q, c) \in Seq(Cmds)
  BY AppendAt DEF Newest
<1> QED
  BY <1>1, <1>2

\* A command sent while the channel is free becomes the outstanding one.
LEMMA SendFree ==
    ASSUME NEW x \in Channel, NEW c \in Cmds, ~x.cmdTimer
    PROVE  LET s == bleUartSendCmdWithResp(x, c)
           IN /\ s \in Channel
              /\ s.last_cmd = c /\ s.cmdTimer /\ s.retry = Retry
              /\ s.air = Append(x.air, c) /\ s.backlog = x.backlog
              /\ s.backlogTimer <=> x.backlogTimer
              /\ s.backlogRetries = x.backlogRetries
<1>1. Append(x.air, c) \in Seq(Cmds) /\ Retry \in 0..Retry
  BY ChannelFields, AppendAt, RetryAssumption
<1>2. StartCmd(x, c) \in Channel
  BY <1>1 DEF StartCmd, Channel, ChannelType
<1>3. bleUartSendCmdWithResp(x, c) = StartCmd(x, c)
  BY DEF bleUartSendCmdWithResp
<1> QED
  BY <1>2, <1>3 DEF StartCmd, Channel, ChannelType

\* While another one is outstanding it goes to the backlog.
LEMMA SendBusy ==
    ASSUME NEW x \in Channel, NEW c \in Cmds, x.cmdTimer
    PROVE  LET s == bleUartSendCmdWithResp(x, c)
           IN /\ s \in Channel
              /\ s.last_cmd = x.last_cmd /\ s.cmdTimer /\ s.retry = x.retry
              /\ s.air = x.air /\ s.backlog = Append(x.backlog, c)
              /\ s.backlogTimer /\ s.backlogRetries = BacklogRetry
              /\ s.backlog # <<>> /\ Newest(s.backlog) = c
<1>1. Append(x.backlog, c) \in Seq(Cmds) /\ BacklogRetry \in 0..BacklogRetry
  BY ChannelFields, AppendAt, RetryAssumption
<1>2. KeepForLater(x, c) \in Channel
  BY <1>1 DEF KeepForLater, Channel, ChannelType
<1>3. bleUartSendCmdWithResp(x, c) = KeepForLater(x, c)
  BY DEF bleUartSendCmdWithResp
<1>4. Append(x.backlog, c) # <<>> /\ Newest(Append(x.backlog, c)) = c
  BY ChannelFields, NewestEntry
<1>5. LET s == KeepForLater(x, c)
      IN /\ s.last_cmd = x.last_cmd /\ s.cmdTimer = x.cmdTimer /\ s.retry = x.retry
         /\ s.air = x.air /\ s.backlog = Append(x.backlog, c)
         /\ s.backlogTimer = TRUE /\ s.backlogRetries = BacklogRetry
  BY <1>2 DEF KeepForLater, Channel, ChannelType
<1> QED
  BY <1>2, <1>3, <1>4, <1>5

LEMMA SendType ==
    ASSUME NEW x \in Channel, NEW c \in Cmds
    PROVE  LET s == bleUartSendCmdWithResp(x, c)
           IN /\ s \in Channel /\ s.cmdTimer
              /\ x.last_cmd \in Cmds => s.last_cmd \in Cmds
BY SendFree, SendBusy, ChannelFields

LEMMA StopFields ==
    ASSUME NEW x \in Channel
    PROVE  LET s == StopCmdTimer(x)
           IN /\ s \in Channel
              /\ s.last_cmd = x.last_cmd /\ s.retry = x.retry /\ ~s.cmdTimer
              /\ s.air = x.air /\ s.backlog = x.backlog
              /\ s.backlogTimer <=> x.backlogTimer
              /\ s.backlogRetries = x.backlogRetries
BY DEF StopCmdTimer, Channel, ChannelType

\* A command that the device has received, or the link has lost.
LEMMA HeardFields ==
    ASSUME NEW x \in Channel, x.air # <<>>
    PROVE  LET s == [x EXCEPT !.air = Tail(@)]
           IN /\ s \in Channel
              /\ s.last_cmd = x.last_cmd /\ s.retry = x.retry
              /\ s.cmdTimer <=> x.cmdTimer
              /\ s.air = Tail(x.air) /\ s.backlog = x.backlog
              /\ s.backlogTimer <=> x.backlogTimer
              /\ s.backlogRetries = x.backlogRetries
<1>1. Tail(x.air) \in Seq(Cmds)
  BY ChannelFields, TailAt
<1> QED
  BY <1>1 DEF Channel, ChannelType

LEMMA CmdTimerFields ==
    ASSUME NEW x \in Channel, x.last_cmd \in Cmds
    PROVE  LET t == onCmdTimerExpired(x)
           IN /\ t \in Channel
              /\ t.last_cmd = x.last_cmd
              /\ t.cmdTimer <=> x.cmdTimer
              /\ t.backlog = x.backlog
              /\ t.backlogTimer <=> x.backlogTimer
              /\ t.air \in {x.air, Append(x.air, x.last_cmd)}
<1>1. CASE x.retry > 0
  <2>1. x.retry - 1 \in 0..Retry /\ Append(x.air, x.last_cmd) \in Seq(Cmds)
    BY <1>1, ChannelFields, AppendAt, RetryAssumption
  <2>2. onCmdTimerExpired(x) = [x EXCEPT !.retry = @ - 1, !.air = Append(@, x.last_cmd)]
    BY <1>1 DEF onCmdTimerExpired
  <2> QED
    BY <2>1, <2>2 DEF Channel, ChannelType
<1>2. CASE ~(x.retry > 0)
  BY <1>2 DEF onCmdTimerExpired
<1> QED
  BY <1>1, <1>2

LEMMA BacklogTimerFields ==
    ASSUME NEW x \in Channel
    PROVE  LET t == onBacklogTimerExpired(x)
               n == Newest(x.backlog)
           IN /\ t \in Channel
              /\ x.backlog = <<>> =>
                   /\ t.last_cmd = x.last_cmd /\ t.air = x.air
                   /\ t.cmdTimer <=> x.cmdTimer
                   /\ ~t.backlogTimer
              /\ x.backlog # <<>> /\ x.cmdTimer =>
                   /\ t.last_cmd = x.last_cmd /\ t.air = x.air
                   /\ t.cmdTimer /\ t.backlogTimer
                   /\ t.backlog # <<>> /\ Newest(t.backlog) = n
              /\ x.backlog # <<>> /\ ~x.cmdTimer =>
                   /\ t.last_cmd = n /\ t.air = Append(x.air, n)
                   /\ t.cmdTimer /\ ~t.backlogTimer
<1> DEFINE fired == [x EXCEPT !.backlogTimer = FALSE]
           n == Newest(x.backlog)
           again == bleUartSendCmdWithResp(fired, n)
           t == onBacklogTimerExpired(x)
<1>1. /\ fired \in Channel
      /\ fired.last_cmd = x.last_cmd /\ fired.air = x.air
      /\ fired.cmdTimer <=> x.cmdTimer
      /\ ~fired.backlogTimer /\ fired.backlog = x.backlog
  BY DEF Channel, ChannelType
<1>2. CASE x.backlog = <<>>
  <2>1. t = fired
    BY <1>2 DEF onBacklogTimerExpired
  <2> QED
    BY <1>1, <1>2, <2>1
<1>3. CASE x.backlog # <<>> /\ x.cmdTimer
  <2>1. n \in Cmds
    BY <1>3, ChannelFields, NewestEntry
  <2>2. BacklogRetry > 0 /\ BacklogRetry - 1 \in 0..BacklogRetry
    BY RetryAssumption
  <2>3. t = IF again.backlogRetries > 0
            THEN [again EXCEPT !.backlogRetries = @ - 1, !.backlogTimer = TRUE]
            ELSE again
    BY <1>3 DEF onBacklogTimerExpired
  <2> HIDE DEF fired, n, t
  <2>4. /\ again \in Channel
        /\ again.last_cmd = fired.last_cmd /\ again.cmdTimer
        /\ again.air = fired.air /\ again.backlogRetries = BacklogRetry
        /\ again.backlog # <<>> /\ Newest(again.backlog) = n
    BY <1>1, <1>3, <2>1, SendBusy
  <2> HIDE DEF again
  <2>5. t = [again EXCEPT !.backlogRetries = @ - 1, !.backlogTimer = TRUE]
    BY <2>2, <2>3, <2>4
  <2>6. /\ t \in Channel
        /\ t.last_cmd = again.last_cmd /\ t.air = again.air
        /\ t.cmdTimer <=> again.cmdTimer
        /\ t.backlogTimer /\ t.backlog = again.backlog
    BY <2>2, <2>4, <2>5 DEF Channel, ChannelType
  <2> QED
    BY <1>1, <1>3, <2>4, <2>6 DEF n, t
<1>4. CASE x.backlog # <<>> /\ ~x.cmdTimer
  <2>1. n \in Cmds /\ WithoutNewest(x.backlog) \in Seq(Cmds)
    BY <1>4, ChannelFields, NewestEntry
  <2>2. t = [again EXCEPT !.backlog = WithoutNewest(@)]
    BY <1>4 DEF onBacklogTimerExpired
  <2> HIDE DEF fired, n, t
  <2>3. /\ again \in Channel
        /\ again.last_cmd = n /\ again.cmdTimer
        /\ again.air = Append(fired.air, n) /\ again.backlog = fired.backlog
        /\ again.backlogTimer <=> fired.backlogTimer
    BY <1>1, <1>4, <2>1, SendFree
  <2> HIDE DEF again
  <2>4. /\ t \in Channel
        /\ t.last_cmd = again.last_cmd /\ t.air = again.air
        /\ t.cmdTimer <=> again.cmdTimer
        /\ t.backlogTimer <=> again.backlogTimer
    BY <1>1, <2>1, <2>2, <2>3 DEF Channel, ChannelType
  <2> QED
    BY <1>1, <1>4, <2>3, <2>4 DEF n, t
<1> QED
  BY <1>2, <1>3, <1>4, ChannelFields

LEMMA CommandType ==
    /\ \A op \in {"REQUEST", "START_OK", "ACK_OK", "OK"} :
          Command(op) \in Cmds /\ Command(op).op = op
    /\ \A i \in Nat : MissingCmd(i) \in Cmds /\ MissingCmd(i).op = "MISSING"
                       /\ MissingCmd(i).pkg = i
BY DEF Command, MissingCmd, Cmds

-----------------------------------------------------------------------------
(* The receiver of a download *)

LEMMA NewType ==
    ASSUME NEW stale \in 0..1, NEW flag \in BOOLEAN
    PROVE  IsReceiver(NewReceiver(stale, flag), Chunk \X Nat)
<1>1. [i \in {} |-> None] \in [0..(0 - 1) -> (Chunk \X Nat) \cup {None}]
  OBVIOUS
<1> DEFINE v == [i \in {} |-> None]
<1>2. NewReceiver(stale, flag) =
        [count |-> 0, vec |-> v, highest |-> 0, first |-> TRUE,
         last_idx |-> stale, skipped |-> flag, last_received |-> FALSE,
         missed_cnt |-> 0, missed |-> {}, missed_in_request |-> 0]
  BY DEF NewReceiver
<1> HIDE DEF v
<1> QED
  BY <1>1, <1>2 DEF IsReceiver, v

-----------------------------------------------------------------------------
(* The types of a download *)

Contents == UNION {[0..(n - 1) -> (Chunk \X Nat) \cup {None}] : n \in Nat}

Writes == [op : {"WRITE"}, chunk : Chunk \cup {0}, content : Contents, intact : BOOLEAN]

Events == Writes \cup [op : {"DONE"}, success : BOOLEAN]

MainTyped ==
    /\ mainq \in Seq(Events)
    /\ DOMAIN files = Chunk
    /\ reported \in SUBSET BOOLEAN

LEMMA ChunkIsInterval == Chunk = 1..Len(Counts) /\ Len(Counts) \in Nat
BY DownloadAssumption DEF Chunk

LEMMA CountIsPositive ==
    ASSUME NEW k \in Chunk
    PROVE  Counts[k] \in Nat \ {0}
BY DownloadAssumption DEF Chunk

LEMMA TypedIsTypeOK == Typed /\ MainTyped => TypeOK
<1> SUFFICES ASSUME Typed, MainTyped PROVE TypeOK
  OBVIOUS
<1>1. \A i \in DOMAIN mainq : mainq[i].op \in {"WRITE", "DONE"}
  <2>1. \A e \in Events : e.op \in {"WRITE", "DONE"}
    BY DEF Events, Writes
  <2>2. \A i \in DOMAIN mainq : mainq[i] \in Events
    BY DEF MainTyped
  <2> QED
    BY <2>1, <2>2
<1>2. inbox \in Seq(Msgs)
  <2>1. inbox \in Seq(Sound) /\ Sound \subseteq Msgs
    BY DEF Typed, Sound
  <2> QED
    BY <2>1
<1> QED
  BY <1>1, <1>2 DEF Typed, MainTyped, TypeOK, Cmds, Msgs, Devs

\* The messages a device makes are sound.
LEMMA MessageSound ==
    /\ \A op \in {"OK", "NO_CHUNK", "ACK_PROC"} : Message(op) \in Sound /\ Message(op).op = op
    /\ \A k \in Chunk : LET m == [Message("START") EXCEPT !.chunk = k]
                        IN m \in Sound /\ m.op = "START" /\ m.chunk = k
    /\ \A p \in (Chunk \X Nat) \cup {None} :
          LET m == [Message("MISSED") EXCEPT !.payload = p]
          IN m \in Sound /\ m.op = "MISSED" /\ m.payload = p
    /\ \A k \in Chunk, t \in Nat :
          LET m == [op |-> "PKG", chunk |-> k, byte |-> t % Wrap, payload |-> <<k, t>>]
          IN m \in Sound
<1>0. 0 \in 0..(Wrap - 1)
  BY WrapAssumption
<1>1. ASSUME NEW op \in {"OK", "NO_CHUNK", "ACK_PROC"}
      PROVE  Message(op) \in Sound /\ Message(op).op = op
  BY <1>0 DEF Message, Sound, Msgs
<1>2. ASSUME NEW k \in Chunk
      PROVE  LET m == [Message("START") EXCEPT !.chunk = k]
             IN m \in Sound /\ m.op = "START" /\ m.chunk = k
  BY <1>0 DEF Message, Sound, Msgs
<1>3. ASSUME NEW p \in (Chunk \X Nat) \cup {None}
      PROVE  LET m == [Message("MISSED") EXCEPT !.payload = p]
             IN m \in Sound /\ m.op = "MISSED" /\ m.payload = p
  BY <1>0 DEF Message, Sound, Msgs
<1>4. ASSUME NEW k \in Chunk, NEW t \in Nat
      PROVE  [op |-> "PKG", chunk |-> k, byte |-> t % Wrap, payload |-> <<k, t>>] \in Sound
  <2>1. t % Wrap \in 0..(Wrap - 1)
    BY DivMod, WrapAssumption
  <2>2. <<k, t>> \in Chunk \X Nat
    OBVIOUS
  <2> DEFINE p == <<k, t>>
             b == t % Wrap
  <2> HIDE DEF p, b
  <2>3. [op |-> "PKG", chunk |-> k, byte |-> b, payload |-> p] \in Sound
    BY <2>1, <2>2 DEF Sound, Msgs, p, b
  <2> QED
    BY <2>3 DEF p, b
<1> QED
  BY <1>1, <1>2, <1>3, <1>4

LEMMA SoundFields ==
    ASSUME NEW m \in Sound
    PROVE  /\ m.byte \in Nat
           /\ m.op = "START" => m.chunk \in Chunk
           /\ m.op = "PKG" => m.payload \in Chunk \X Nat
           /\ m.op # "START" => m.chunk \in Chunk \cup {0}
           /\ m.payload \in (Chunk \X Nat) \cup {None}
BY DEF Sound, Msgs

LEMMA EventType ==
    /\ \A success \in BOOLEAN : Done(success) \in Events
    /\ \A q \in Seq(Events) : Destroyed(q) \in Seq(Events) /\ Len(Destroyed(q)) = Len(q)
<1>1. \A success \in BOOLEAN : Done(success) \in Events
  BY DEF Done, Events
<1>2. ASSUME NEW q \in Seq(Events)
      PROVE  Destroyed(q) \in Seq(Events) /\ Len(Destroyed(q)) = Len(q)
  <2> DEFINE d(i) == IF q[i].op = "WRITE" THEN [q[i] EXCEPT !.intact = FALSE] ELSE q[i]
  <2>1. ASSUME NEW i \in DOMAIN q PROVE d(i) \in Events
    <3>1. q[i] \in Events
      OBVIOUS
    <3>2. CASE q[i].op = "WRITE"
      <4>1. q[i] \in Writes
        BY <3>1, <3>2 DEF Events
      <4>2. [q[i] EXCEPT !.intact = FALSE] \in Writes
        BY <4>1 DEF Writes
      <4> QED
        BY <3>2, <4>2 DEF Events
    <3> QED
      BY <3>1, <3>2
  <2>2. Destroyed(q) = [i \in 1..Len(q) |-> d(i)] /\ Len(q) \in Nat
    BY DEF Destroyed
  <2> HIDE DEF d
  <2> QED
    BY <2>1, <2>2
<1> QED
  BY <1>1, <1>2

LEMMA WriteType ==
    ASSUME NEW q \in Seq(Events), kind \in Chunk \cup {0},
           NEW r, IsReceiver(r, Chunk \X Nat)
    PROVE  writeReceivedChunkToFile(q, r) \in Seq(Events)
<1> DEFINE e == [op |-> "WRITE", chunk |-> kind, content |-> r.vec, intact |-> TRUE]
<1>1. r.vec \in [0..(r.count - 1) -> (Chunk \X Nat) \cup {None}] /\ r.count \in Nat
  BY ReceiverShaped, ShapedFields
<1>2. r.vec \in Contents
  BY <1>1 DEF Contents
<1>3. e \in Events
  BY <1>2 DEF Events, Writes
<1> HIDE DEF e
<1>4. Append(Destroyed(q), e) \in Seq(Events)
  BY <1>3, EventType, AppendAt
<1> QED
  BY <1>4 DEF writeReceivedChunkToFile, e

\* The chunk is whole or at least all that has come of it, and its writing is
\* the next thing the main thread is asked for.
LEMMA FinishedType ==
    ASSUME NEW c \in Channel, NEW r, IsReceiver(r, Chunk \X Nat),
           NEW q \in Seq(Events), kind \in Chunk \cup {0},
           hugeChunkDownloadFinished(c, r, q)
    PROVE  /\ ch' \in Channel /\ ch'.cmdTimer
           /\ c.last_cmd \in Cmds => ch'.last_cmd \in Cmds
           /\ mainq' \in Seq(Events) /\ nextTimer'
BY SendType, CommandType, WriteType DEF hugeChunkDownloadFinished, sendAckOkHugeChunk

LEMMA TypedInit == Init => Typed /\ MainTyped
<1> SUFFICES ASSUME Init PROVE Typed /\ MainTyped
  OBVIOUS
<1>1. ch \in Channel /\ ch.last_cmd \in Cmds
  <2> DEFINE c == IdleChannel(NoCmd)
  <2>1. c \in Channel /\ ~c.cmdTimer
    BY RetryAssumption DEF IdleChannel, Channel, ChannelType
  <2>2. Command("REQUEST") \in Cmds
    BY CommandType
  <2> HIDE DEF c
  <2>3. LET s == bleUartSendCmdWithResp(c, Command("REQUEST"))
        IN s \in Channel /\ s.last_cmd = Command("REQUEST")
    BY <2>1, <2>2, SendFree
  <2> QED
    BY <2>2, <2>3 DEF Init, c
<1>2. IsReceiver(rx, Chunk \X Nat)
  BY NewType DEF Init
<1>3. dev \in Devs /\ dev.phase = "idle"
  BY ChunkIsInterval, DownloadAssumption DEF Init, Devs
<1>4. pkgLosses \in 0..MaxPkgLoss /\ losses \in 0..MaxLoss
  BY DownloadAssumption DEF Init
<1>5. timely \in Timing /\ kind \in Chunk \cup {0} /\ inbox \in Seq(Sound)
  BY DEF Init
<1>a. nextTimer \in BOOLEAN
  BY Zenon DEF Init
<1>6. Typed
  BY <1>1, <1>2, <1>3, <1>4, <1>5, <1>a, Zenon DEF Typed, Channel
<1>7. MainTyped
  BY DEF Init, MainTyped
<1> QED
  BY <1>6, <1>7

LEMMA TimersTyped ==
    ASSUME Typed, MainTyped, Timers
    PROVE  Typed' /\ MainTyped'
<1>0. ch \in Channel /\ ch.last_cmd \in Cmds
  BY DEF Typed, Channel
<1>1. CASE CmdTimerExpires
  <2>1. ch' \in Channel /\ ch'.last_cmd \in Cmds
    BY <1>0, <1>1, CmdTimerFields DEF CmdTimerExpires
  <2>2. mainq' \in Seq(Events)
    <3>1. mainq \in Seq(Events) /\ Done(FALSE) \in Events
      BY EventType DEF MainTyped
    <3>2. Append(mainq, Done(FALSE)) \in Seq(Events)
      BY <3>1, AppendAt
    <3>3. mainq' = Append(mainq, Done(FALSE)) \/ mainq' = mainq
      BY <1>1 DEF CmdTimerExpires
    <3> QED
      BY <3>1, <3>2, <3>3
  <2> QED
    BY <1>1, <2>1, <2>2 DEF CmdTimerExpires, Typed, MainTyped, Channel, budget
<1>2. CASE BacklogTimerExpires
  <2>1. ch' = onBacklogTimerExpired(ch)
    BY <1>2 DEF BacklogTimerExpires
  <2>2. ch.backlog # <<>> => Newest(ch.backlog) \in Cmds
    BY <1>0, ChannelFields, NewestEntry
  <2>3. ch' \in Channel /\ ch'.last_cmd \in Cmds
    BY <1>0, <2>1, <2>2, BacklogTimerFields
  <2> QED
    BY <1>2, <2>3 DEF BacklogTimerExpires, Typed, MainTyped, Channel, budget, main
<1>3. CASE NextRequestTimerExpires
  <2>1. ch' \in Channel /\ ch'.last_cmd \in Cmds
    BY <1>0, <1>3, SendType, CommandType DEF NextRequestTimerExpires
  <2> QED
    BY <1>3, <2>1 DEF NextRequestTimerExpires, Typed, MainTyped, Channel, budget, main
<1> QED
  BY <1>1, <1>2, <1>3 DEF Timers

\* What a handler of a notification starts from and leaves alone.
LEMMA NotifiedTyped ==
    ASSUME Typed, NEW op, Notified(op)
    PROVE  /\ Head(inbox) \in Sound /\ Head(inbox).op = op
           /\ inbox # <<>> /\ inbox' = Tail(inbox) /\ inbox' \in Seq(Sound)
           /\ UNCHANGED <<dev, files, reported, timely, pkgLosses, losses>>
BY TailAt DEF Typed, Notified, budget

LEMMA RequestTyped ==
    ASSUME NEW c \in Channel, c.last_cmd \in Cmds,
           NEW r, IsReceiver(r, Chunk \X Nat), r.missed # {},
           sendRequestMissingPackage(c, r)
    PROVE  /\ ch' \in Channel /\ ch'.last_cmd \in Cmds
           /\ IsReceiver(rx', Chunk \X Nat)
<1>1. Shaped(r)
  BY ReceiverShaped
<1>2. Least(r.missed) \in Nat
  BY <1>1, NextFields
<1>3. MissingCmd(Least(r.missed)) \in Cmds
  BY <1>2, CommandType
<1> QED
  BY <1>3, SendType, NextType DEF sendRequestMissingPackage

LEMMA OkTyped ==
    ASSUME Typed, MainTyped, OkArrives
    PROVE  Typed' /\ MainTyped'
<1>1. ch' \in Channel /\ ch'.last_cmd \in Cmds
  BY StopFields DEF Typed, Channel, OkArrives
<1>2. Notified("OK")
  BY DEF OkArrives
<1> QED
  BY <1>1, <1>2, NotifiedTyped DEF Typed, MainTyped, Channel, OkArrives

LEMMA StartTyped ==
    ASSUME Typed, MainTyped, onStartHugeChunkArrived
    PROVE  Typed' /\ MainTyped'
<1>1. Notified("START")
  BY DEF onStartHugeChunkArrived
<1>2. Head(inbox).chunk \in Chunk
  BY <1>1, NotifiedTyped, SoundFields
<1>3. ch' \in Channel /\ ch'.last_cmd \in Cmds
  BY StopFields, SendType, CommandType DEF Typed, Channel, onStartHugeChunkArrived
<1>4. IsReceiver(rx', Chunk \X Nat)
  BY <1>2, CountIsPositive, ReceiverShaped, StartType DEF Typed, onStartHugeChunkArrived
<1> QED
  BY <1>1, <1>2, <1>3, <1>4, NotifiedTyped
     DEF Typed, MainTyped, Channel, onStartHugeChunkArrived

LEMMA PackageTyped ==
    ASSUME Typed, MainTyped, PackageArrives
    PROVE  Typed' /\ MainTyped'
<1>1. Notified("PKG")
  BY DEF PackageArrives
<1>2. Head(inbox).byte \in Nat /\ Head(inbox).payload \in Chunk \X Nat
  BY <1>1, NotifiedTyped, SoundFields
<1>3. IsReceiver(rx', Chunk \X Nat)
  BY <1>2, ReceiveType DEF Typed, PackageArrives
<1> QED
  BY <1>1, <1>3, NotifiedTyped DEF Typed, MainTyped, Channel, PackageArrives

\* Nothing has been counted as missing before the check.
LEMMA AckProcTyped ==
    ASSUME Typed, MainTyped, onStartHugeChunkAckProcArrived, rx.missed_cnt = 0
    PROVE  Typed' /\ MainTyped'
<1> DEFINE r == CheckChunk(rx)
<1>1. Notified("ACK_PROC")
  BY DEF onStartHugeChunkAckProcArrived
<1>2. IsReceiver(r, Chunk \X Nat) /\ Shaped(rx)
  BY CheckType, ReceiverShaped DEF Typed
<1>3. r.missed_cnt # 0 => r.missed # {}
  BY <1>2, CheckOutcome
<1>4. ch \in Channel /\ ch.last_cmd \in Cmds
  BY DEF Typed, Channel
<1>5. CASE r.missed_cnt = 0
  <2>1. hugeChunkDownloadFinished(ch, r, mainq) /\ rx' = r
    BY <1>5 DEF onStartHugeChunkAckProcArrived
  <2> HIDE DEF r
  <2>2. ch' \in Channel /\ ch'.last_cmd \in Cmds /\ mainq' \in Seq(Events) /\ nextTimer'
    BY <1>2, <1>4, <2>1, FinishedType DEF Typed, MainTyped
  <2>3. nextTimer' = TRUE
    BY <2>1 DEF hugeChunkDownloadFinished
  <2> QED
    BY <1>1, <1>2, <2>1, <2>2, <2>3, NotifiedTyped
       DEF Typed, MainTyped, Channel, onStartHugeChunkAckProcArrived
<1>6. CASE r.missed_cnt # 0
  <2>1. sendRequestMissingPackage(ch, r) /\ UNCHANGED <<nextTimer, mainq>>
    BY <1>6 DEF onStartHugeChunkAckProcArrived
  <2> HIDE DEF r
  <2>2. /\ ch' \in Channel /\ ch'.last_cmd \in Cmds
        /\ IsReceiver(rx', Chunk \X Nat)
    BY <1>2, <1>3, <1>4, <1>6, <2>1, RequestTyped
  <2> QED
    BY <1>1, <2>1, <2>2, NotifiedTyped
       DEF Typed, MainTyped, Channel, onStartHugeChunkAckProcArrived
<1> QED
  BY <1>5, <1>6

LEMMA MissedTyped ==
    ASSUME Typed, MainTyped, onReplyMissingPackageArrived
    PROVE  Typed' /\ MainTyped'
<1> DEFINE r == StoreMissing(rx, Head(inbox).payload)
           q == writeReceivedChunkToFile(mainq, r)
           c == sendAckOkHugeChunk(ch)
<1>1. Notified("MISSED")
  BY DEF onReplyMissingPackageArrived
<1>2. IsReceiver(r, Chunk \X Nat)
  BY <1>1, NotifiedTyped, SoundFields, StoreType DEF Typed
<1>3. ch \in Channel /\ ch.last_cmd \in Cmds
  BY DEF Typed, Channel
<1>4. CASE r.missed # {}
  <2>1. sendRequestMissingPackage(ch, r) /\ UNCHANGED <<nextTimer, mainq>>
    BY <1>4 DEF onReplyMissingPackageArrived
  <2> HIDE DEF r
  <2>2. /\ ch' \in Channel /\ ch'.last_cmd \in Cmds
        /\ IsReceiver(rx', Chunk \X Nat)
    BY <1>2, <1>3, <1>4, <2>1, RequestTyped
  <2> QED
    BY <1>1, <2>1, <2>2, NotifiedTyped
       DEF Typed, MainTyped, Channel, onReplyMissingPackageArrived
<1>5. CASE r.missed = {}
  <2>1. hugeChunkDownloadFinished(c, r, q) /\ rx' = r
    BY <1>5 DEF onReplyMissingPackageArrived
  <2>2. c \in Channel /\ c.last_cmd \in Cmds
    BY <1>3, SendType, CommandType DEF sendAckOkHugeChunk
  <2>3. q \in Seq(Events)
    BY <1>2, WriteType DEF Typed, MainTyped
  <2> HIDE DEF r, c, q
  <2>4. ch' \in Channel /\ ch'.last_cmd \in Cmds /\ mainq' \in Seq(Events)
    BY <1>2, <2>1, <2>2, <2>3, FinishedType DEF Typed
  <2>5. nextTimer' = TRUE
    BY <2>1 DEF hugeChunkDownloadFinished
  <2> QED
    BY <1>1, <1>2, <2>1, <2>4, <2>5, NotifiedTyped
       DEF Typed, MainTyped, Channel, onReplyMissingPackageArrived
<1> QED
  BY <1>4, <1>5

LEMMA NoChunkFields ==
    ASSUME NEW x \in Channel
    PROVE  LET s == [StopCmdTimer(x) EXCEPT !.air = Append(@, Command("OK"))]
           IN /\ s \in Channel
              /\ s.last_cmd = x.last_cmd /\ ~s.cmdTimer
              /\ s.air = Append(x.air, Command("OK"))
              /\ s.backlog = x.backlog /\ s.backlogRetries = x.backlogRetries
              /\ s.backlogTimer <=> x.backlogTimer
<1> DEFINE y == StopCmdTimer(x)
<1>1. y \in Channel /\ y.last_cmd = x.last_cmd /\ ~y.cmdTimer /\ y.air = x.air
      /\ (y.backlogTimer <=> x.backlogTimer)
      /\ y.backlog = x.backlog /\ y.backlogRetries = x.backlogRetries
  BY StopFields
<1>2. Append(y.air, Command("OK")) \in Seq(Cmds)
  BY <1>1, ChannelFields, CommandType, AppendAt
<1> HIDE DEF y
<1>3. LET s == [y EXCEPT !.air = Append(@, Command("OK"))]
      IN /\ s \in Channel
         /\ s.last_cmd = y.last_cmd /\ s.cmdTimer = y.cmdTimer
         /\ s.air = Append(y.air, Command("OK"))
         /\ s.backlog = y.backlog /\ s.backlogRetries = y.backlogRetries
         /\ s.backlogTimer = y.backlogTimer
  BY <1>1, <1>2 DEF Channel, ChannelType
<1> QED
  BY <1>1, <1>3 DEF y

LEMMA NoChunkTyped ==
    ASSUME Typed, MainTyped, onNoChunkAvailableArrived
    PROVE  Typed' /\ MainTyped'
<1>1. Notified("NO_CHUNK")
  BY DEF onNoChunkAvailableArrived
<1>2. ch' \in Channel /\ ch'.last_cmd \in Cmds
  BY NoChunkFields DEF Typed, Channel, onNoChunkAvailableArrived
<1>3. mainq' \in Seq(Events)
  BY EventType, AppendAt DEF MainTyped, onNoChunkAvailableArrived
<1> QED
  BY <1>1, <1>2, <1>3, NotifiedTyped DEF Typed, MainTyped, Channel, onNoChunkAvailableArrived

\* The messages that answer a command.
LEMMA AnswersSound ==
    ASSUME Typed, NEW c \in Cmds, NEW a \in Answers(c)
    PROVE  a \in Seq(Sound)
<1>1. CASE c.op = "REQUEST"
  <2>1. Offer \in Sound
    BY MessageSound DEF Offer
  <2>2. a = <<Offer>>
    BY <1>1 DEF Answers
  <2> QED
    BY <2>1, <2>2
<1>2. CASE c.op = "MISSING"
  <2> DEFINE p == IF dev.chunk \in Chunk THEN <<dev.chunk, c.pkg>> ELSE None
             k == Message("OK")
             m == MissedReply(c.pkg)
  <2>1. c.pkg \in Nat
    BY DEF Cmds
  <2>2. p \in (Chunk \X Nat) \cup {None}
    BY <2>1
  <2>3. m = [Message("MISSED") EXCEPT !.payload = p]
    BY DEF MissedReply
  <2> HIDE DEF p
  <2>4. m \in Sound /\ k \in Sound
    BY <2>2, <2>3, MessageSound
  <2>5. a \in {<<k, m>>, <<m, k>>}
    BY <1>2 DEF Answers
  <2> HIDE DEF k, m
  <2> QED
    BY <2>4, <2>5
<1>3. CASE c.op \in {"START_OK", "ACK_OK"}
  <2>1. a = <<Message("OK")>>
    BY <1>3 DEF Answers
  <2> QED
    BY <2>1, MessageSound
<1>4. CASE c.op = "OK"
  <2>1. a = <<>>
    BY <1>4 DEF Answers
  <2> QED
    BY <2>1
<1> QED
  BY <1>1, <1>2, <1>3, <1>4 DEF Cmds

LEMMA DevFields ==
    ASSUME NEW d \in Devs
    PROVE  /\ d.chunk \in 1..(Len(Counts) + 1)
           /\ d.phase \in {"idle", "offered", "streaming", "sent"}
           /\ d.next \in Nat /\ d.gap \in 0..MaxGap /\ d.gap \in Nat
BY DownloadAssumption DEF Devs

\* The moves of the device.
LEMMA DevMoves ==
    ASSUME NEW d \in Devs
    PROVE  /\ LET e == [d EXCEPT !.phase = "offered"]
              IN /\ e \in Devs /\ e.chunk = d.chunk /\ e.phase = "offered"
                 /\ e.next = d.next /\ e.gap = d.gap
           /\ LET e == [d EXCEPT !.phase = "streaming", !.next = 0, !.gap = 0]
              IN /\ e \in Devs /\ e.chunk = d.chunk /\ e.phase = "streaming"
                 /\ e.next = 0 /\ e.gap = 0
           /\ LET e == [d EXCEPT !.phase = "sent"]
              IN /\ e \in Devs /\ e.chunk = d.chunk /\ e.phase = "sent"
                 /\ e.next = d.next /\ e.gap = d.gap
           /\ LET e == [d EXCEPT !.next = @ + 1, !.gap = 0]
              IN /\ e \in Devs /\ e.chunk = d.chunk /\ e.phase = d.phase
                 /\ e.next = d.next + 1 /\ e.gap = 0
           /\ d.gap < MaxGap =>
                LET e == [d EXCEPT !.next = @ + 1, !.gap = @ + 1]
                IN /\ e \in Devs /\ e.chunk = d.chunk /\ e.phase = d.phase
                   /\ e.next = d.next + 1 /\ e.gap = d.gap + 1
           /\ d.chunk \in Chunk =>
                LET e == [d EXCEPT !.phase = "idle", !.chunk = @ + 1]
                IN /\ e \in Devs /\ e.chunk = d.chunk + 1 /\ e.phase = "idle"
                   /\ e.next = d.next /\ e.gap = d.gap
<1>1. 0 \in 0..MaxGap
  BY DownloadAssumption
<1>2. d.next + 1 \in Nat
  BY DevFields
<1>3. d.gap < MaxGap => d.gap + 1 \in 0..MaxGap
  BY DevFields, DownloadAssumption
<1>4. d.chunk \in Chunk => d.chunk + 1 \in 1..(Len(Counts) + 1)
  BY ChunkIsInterval
<1> QED
  BY <1>1, <1>2, <1>3, <1>4 DEF Devs

LEMMA HearsTyped ==
    ASSUME Typed, MainTyped, DeviceHears
    PROVE  Typed' /\ MainTyped'
<1> DEFINE c == Head(ch.air)
<1>1. ch \in Channel /\ ch.last_cmd \in Cmds
  BY DEF Typed, Channel
<1>2. c \in Cmds
  BY <1>1, ChannelFields, TailAt DEF DeviceHears
<1>3. ch' \in Channel /\ ch'.last_cmd \in Cmds
  BY <1>1, HeardFields DEF DeviceHears
<1>4. inbox' \in Seq(Sound)
  <2>1. PICK a \in Answers(c) : inbox' = inbox \o a
    BY DEF DeviceHears
  <2>2. a \in Seq(Sound)
    BY <1>2, AnswersSound
  <2> QED
    BY <2>1, <2>2 DEF Typed
<1>5. dev' \in Devs /\ (dev'.phase # "idle" => dev'.chunk \in Chunk)
  <2>1. dev \in Devs /\ (dev.phase # "idle" => dev.chunk \in Chunk)
    BY DEF Typed
  <2>2. \/ dev.chunk \in Chunk /\ dev' = [dev EXCEPT !.phase = "offered"]
        \/ /\ dev.phase = "offered"
           /\ dev' = [dev EXCEPT !.phase = "streaming", !.next = 0, !.gap = 0]
        \/ /\ dev.phase = "sent"
           /\ dev' = [dev EXCEPT !.phase = "idle", !.chunk = @ + 1]
        \/ dev' = dev
    BY DEF DeviceHears
  <2>3. CASE dev.chunk \in Chunk /\ dev' = [dev EXCEPT !.phase = "offered"]
    BY <2>1, <2>3, DevMoves
  <2>4. CASE /\ dev.phase = "offered"
             /\ dev' = [dev EXCEPT !.phase = "streaming", !.next = 0, !.gap = 0]
    BY <2>1, <2>4, DevMoves
  <2>5. CASE /\ dev.phase = "sent"
             /\ dev' = [dev EXCEPT !.phase = "idle", !.chunk = @ + 1]
    BY <2>1, <2>5, DevMoves
  <2>6. CASE dev' = dev
    BY <2>1, <2>6
  <2> QED
    BY <2>2, <2>3, <2>4, <2>5, <2>6
<1> QED
  BY <1>3, <1>4, <1>5 DEF DeviceHears, Typed, MainTyped, Channel, main, budget

LEMMA StreamsTyped ==
    ASSUME Typed, MainTyped, DeviceStreams
    PROVE  Typed' /\ MainTyped'
<1>1. dev \in Devs /\ dev.phase = "streaming" /\ dev.chunk \in Chunk /\ dev.next \in Nat
  BY DevFields DEF Typed, DeviceStreams
<1>2. dev' \in Devs /\ dev'.phase = "streaming" /\ dev'.chunk \in Chunk
  <2>1. CASE dev' = [dev EXCEPT !.next = @ + 1, !.gap = 0]
    BY <1>1, <2>1, DevMoves
  <2>2. CASE dev.gap < MaxGap /\ dev' = [dev EXCEPT !.next = @ + 1, !.gap = @ + 1]
    BY <1>1, <2>2, DevMoves
  <2> QED
    BY <2>1, <2>2 DEF DeviceStreams
<1>3. inbox' \in Seq(Sound)
  <2> DEFINE m == [op |-> "PKG", chunk |-> dev.chunk, byte |-> dev.next % Wrap,
                   payload |-> <<dev.chunk, dev.next>>]
  <2>1. m \in Sound
    BY <1>1, MessageSound
  <2>2. inbox' = Append(inbox, m) \/ inbox' = inbox
    BY DEF DeviceStreams
  <2> HIDE DEF m
  <2> QED
    BY <2>1, <2>2 DEF Typed
<1>4. pkgLosses' \in 0..MaxPkgLoss
  BY DownloadAssumption DEF Typed, DeviceStreams
<1> QED
  BY <1>2, <1>3, <1>4 DEF DeviceStreams, Typed, MainTyped, central

LEMMA EndsTyped ==
    ASSUME Typed, MainTyped, DeviceEndsStream
    PROVE  Typed' /\ MainTyped'
<1>1. dev' \in Devs /\ dev'.chunk \in Chunk
  BY DevMoves DEF Typed, DeviceEndsStream
<1>2. inbox' \in Seq(Sound)
  BY MessageSound, AppendAt DEF Typed, DeviceEndsStream
<1> QED
  BY <1>1, <1>2 DEF DeviceEndsStream, Typed, MainTyped, central, budget

LEMMA LinkTyped ==
    ASSUME Typed, MainTyped, Link
    PROVE  Typed' /\ MainTyped'
<1>1. losses' \in 0..MaxLoss
  BY DownloadAssumption DEF Link, LoseCmd, LoseMessage, MayLose, Typed
<1>2. CASE LoseCmd
  <2>1. ch' \in Channel /\ ch'.last_cmd \in Cmds
    BY <1>2, HeardFields DEF LoseCmd, Typed, Channel
  <2> QED
    BY <1>1, <1>2, <2>1 DEF LoseCmd, Typed, MainTyped, Channel, main
<1>3. CASE LoseMessage
  <2>1. inbox' \in Seq(Sound)
    BY <1>3, TailAt DEF LoseMessage, Typed
  <2> QED
    BY <1>1, <1>3, <2>1 DEF LoseMessage, Typed, MainTyped, central
<1> QED
  BY <1>2, <1>3 DEF Link

LEMMA MainTypedKept ==
    ASSUME Typed, MainTyped, MainThread
    PROVE  Typed' /\ MainTyped'
<1>1. Head(mainq) \in Events /\ Tail(mainq) \in Seq(Events)
  BY TailAt DEF MainTyped, MainThread
<1>2. DOMAIN files' = Chunk
  BY DEF MainThread, MainTyped
<1>3. reported' \in SUBSET BOOLEAN
  <2>1. Head(mainq).op = "DONE" => Head(mainq).success \in BOOLEAN
    BY <1>1 DEF Events, Writes
  <2> QED
    BY <2>1 DEF MainThread, MainTyped
<1> QED
  BY <1>1, <1>2, <1>3 DEF MainThread, Typed, MainTyped, budget

LEMMA TypedNext ==
    ASSUME Typed, MainTyped, [Next]_vars,
           onStartHugeChunkAckProcArrived => rx.missed_cnt = 0
    PROVE  Typed' /\ MainTyped'
<1>1. CASE UNCHANGED vars
  BY <1>1 DEF vars, Typed, MainTyped
<1>2. CASE bleUartRx
  BY <1>2, OkTyped, StartTyped, PackageTyped, AckProcTyped, MissedTyped, NoChunkTyped
     DEF bleUartRx
<1>3. CASE Device
  BY <1>3, HearsTyped, StreamsTyped, EndsTyped DEF Device
<1> QED
  BY <1>1, <1>2, <1>3, TimersTyped, LinkTyped, MainTypedKept DEF Next, Controller

-----------------------------------------------------------------------------
(* Answers and packages on their way *)

LEMMA AnswerTail ==
    ASSUME NEW X, NEW q \in Seq(X), q # <<>>, Answer(q),
           Head(q).op # "OK" \/ ~Lacks(Tail(q), "START")
    PROVE  Answer(Tail(q))
<1>0. /\ Head(q) = q[1] /\ Len(q) \in Nat \ {0} /\ DOMAIN q = 1..Len(q)
      /\ DOMAIN Tail(q) = 1..(Len(q) - 1)
      /\ \A i \in 1..(Len(q) - 1) : Tail(q)[i] = q[i + 1]
  BY TailAt
<1>1. PICK k \in DOMAIN q :
        /\ q[k].op = "OK"
        /\ \A i \in DOMAIN q : /\ i < k => q[i].op \notin {"PKG", "ACK_PROC"}
                               /\ i > k => q[i].op # "START"
  BY DEF Answer
<1>2. k # 1
  <2>1. SUFFICES ASSUME k = 1 PROVE FALSE
    OBVIOUS
  <2>2. ~Lacks(Tail(q), "START")
    BY <1>0, <1>1, <2>1
  <2>3. PICK i \in DOMAIN Tail(q) : Tail(q)[i].op = "START"
    BY <2>2 DEF Lacks
  <2>4. i + 1 \in DOMAIN q /\ i + 1 > k /\ q[i + 1].op = "START"
    BY <1>0, <2>1, <2>3
  <2> QED
    BY <1>1, <2>4
<1>3. k - 1 \in DOMAIN Tail(q) /\ Tail(q)[k - 1].op = "OK"
  BY <1>0, <1>1, <1>2
<1>4. ASSUME NEW i \in DOMAIN Tail(q)
      PROVE  /\ i < k - 1 => Tail(q)[i].op \notin {"PKG", "ACK_PROC"}
             /\ i > k - 1 => Tail(q)[i].op # "START"
  <2>1. i + 1 \in DOMAIN q /\ Tail(q)[i] = q[i + 1]
    BY <1>0
  <2>2. (i < k - 1 => i + 1 < k) /\ (i > k - 1 => i + 1 > k)
    BY <1>0
  <2> QED
    BY <1>1, <2>1, <2>2
<1> QED
  BY <1>3, <1>4 DEF Answer

LEMMA AnswerHead ==
    ASSUME NEW X, NEW q \in Seq(X), q # <<>>, Answer(q)
    PROVE  Head(q).op \notin {"PKG", "ACK_PROC"}
<1>0. Head(q) = q[1] /\ Len(q) \in Nat \ {0} /\ DOMAIN q = 1..Len(q)
  BY TailAt
<1>1. PICK k \in DOMAIN q :
        /\ q[k].op = "OK"
        /\ \A i \in DOMAIN q : i < k => q[i].op \notin {"PKG", "ACK_PROC"}
  BY DEF Answer
<1>2. 1 \in DOMAIN q /\ (k = 1 \/ 1 < k)
  BY <1>0
<1> QED
  BY <1>0, <1>1, <1>2

LEMMA AnswerAppend ==
    ASSUME NEW X, NEW q \in Seq(X), NEW e \in X,
           \/ Answer(q) /\ e.op # "START"
           \/ All(q, {"OK", "START"}) /\ e.op = "OK"
    PROVE  Answer(Append(q, e))
<1>0. /\ Len(q) \in Nat /\ DOMAIN q = 1..Len(q)
      /\ DOMAIN Append(q, e) = 1..(Len(q) + 1)
      /\ \A i \in 1..Len(q) : Append(q, e)[i] = q[i]
      /\ Append(q, e)[Len(q) + 1] = e
  BY AppendAt
<1>1. CASE Answer(q) /\ e.op # "START"
  <2>1. PICK k \in DOMAIN q :
          /\ q[k].op = "OK"
          /\ \A i \in DOMAIN q : /\ i < k => q[i].op \notin {"PKG", "ACK_PROC"}
                                 /\ i > k => q[i].op # "START"
    BY <1>1 DEF Answer
  <2>2. k \in DOMAIN Append(q, e) /\ Append(q, e)[k].op = "OK"
    BY <1>0, <2>1
  <2>3. ASSUME NEW i \in DOMAIN Append(q, e)
        PROVE  /\ i < k => Append(q, e)[i].op \notin {"PKG", "ACK_PROC"}
               /\ i > k => Append(q, e)[i].op # "START"
    <3>1. CASE i \in DOMAIN q
      BY <1>0, <2>1, <3>1
    <3>2. CASE i = Len(q) + 1
      BY <1>0, <1>1, <3>2
    <3> QED
      BY <1>0, <3>1, <3>2
  <2> QED
    BY <2>2, <2>3 DEF Answer
<1>2. CASE All(q, {"OK", "START"}) /\ e.op = "OK"
  <2> DEFINE k == Len(q) + 1
  <2>1. k \in DOMAIN Append(q, e) /\ Append(q, e)[k].op = "OK"
    BY <1>0, <1>2
  <2>2. ASSUME NEW i \in DOMAIN Append(q, e)
        PROVE  /\ i < k => Append(q, e)[i].op \notin {"PKG", "ACK_PROC"}
               /\ i > k => Append(q, e)[i].op # "START"
    <3>1. i <= k
      BY <1>0
    <3>2. i < k => i \in DOMAIN q /\ Append(q, e)[i] = q[i]
      BY <1>0
    <3> QED
      BY <1>0, <1>2, <3>1, <3>2 DEF All
  <2> HIDE DEF k
  <2> QED
    BY <2>1, <2>2 DEF Answer
<1> QED
  BY <1>1, <1>2

\* Message m belongs to chunk k and carries a package below n.
IsOwn(m, k, n) ==
    /\ m.chunk = k /\ m.payload = <<k, No(m)>>
    /\ m.byte = No(m) % Wrap
    /\ No(m) \in Nat /\ No(m) < n

LEMMA OwnTail ==
    ASSUME NEW X, NEW q \in Seq(X), q # <<>>, NEW k, NEW n, Own(q, k, n)
    PROVE  /\ Own(Tail(q), k, n)
           /\ Head(q).op = "PKG" => IsOwn(Head(q), k, n)
<1>0. /\ Head(q) = q[1] /\ Len(q) \in Nat \ {0} /\ DOMAIN q = 1..Len(q)
      /\ DOMAIN Tail(q) = 1..(Len(q) - 1)
      /\ \A i \in 1..(Len(q) - 1) : Tail(q)[i] = q[i + 1]
  BY TailAt
<1>1. 1 \in DOMAIN q /\ \A i \in DOMAIN Tail(q) : i + 1 \in DOMAIN q
  BY <1>0
<1>2. \A i \in DOMAIN q : q[i].op = "PKG" => IsOwn(q[i], k, n)
  BY DEF Own, IsOwn
<1> HIDE DEF IsOwn
<1>3. \A i \in DOMAIN Tail(q) : Tail(q)[i].op = "PKG" => IsOwn(Tail(q)[i], k, n)
  BY <1>0, <1>1, <1>2
<1>4. Head(q).op = "PKG" => IsOwn(Head(q), k, n)
  BY <1>0, <1>1, <1>2
<1> QED
  BY <1>3, <1>4 DEF Own, IsOwn

LEMMA OwnAppend ==
    ASSUME NEW X, NEW q \in Seq(X), NEW e \in X, NEW k, NEW n \in Nat, NEW m \in Nat,
           n <= m, Own(q, k, n), e.op = "PKG" => IsOwn(e, k, m)
    PROVE  Own(Append(q, e), k, m)
<1>0. /\ Len(q) \in Nat /\ DOMAIN q = 1..Len(q)
      /\ DOMAIN Append(q, e) = 1..(Len(q) + 1)
      /\ \A i \in 1..Len(q) : Append(q, e)[i] = q[i]
      /\ Append(q, e)[Len(q) + 1] = e
  BY AppendAt
<1>1. \A i \in DOMAIN q : q[i].op = "PKG" => IsOwn(q[i], k, m)
  BY DEF Own, IsOwn
<1> HIDE DEF IsOwn
<1>2. \A i \in DOMAIN Append(q, e) :
        Append(q, e)[i].op = "PKG" => IsOwn(Append(q, e)[i], k, m)
  BY <1>0, <1>1
<1> QED
  BY <1>2 DEF Own, IsOwn

LEMMA OwnMore ==
    ASSUME NEW q, NEW k, NEW n \in Nat, NEW m \in Nat, n <= m, Own(q, k, n)
    PROVE  Own(q, k, m)
BY DEF Own

LEMMA OwnNone ==
    ASSUME NEW q, NEW k, NEW n, Lacks(q, "PKG")
    PROVE  Own(q, k, n)
BY DEF Own, Lacks

-----------------------------------------------------------------------------
(* Runs of packages *)

LEMMA RunNone ==
    ASSUME NEW q, NEW a, NEW n, NEW g, NEW exact, Lacks(q, "PKG")
    PROVE  Run(q, a, n, g, exact) <=> Ends(a, n, g)
BY DEF Run, Lacks

\* What is received is the beginning of the run.
LEMMA RunTail ==
    ASSUME NEW X, NEW q \in Seq(X), q # <<>>, NEW a, NEW n, NEW g, NEW exact,
           Run(q, a, n, g, exact)
    PROVE  /\ Head(q).op # "PKG" => Run(Tail(q), a, n, g, exact)
           /\ Head(q).op = "PKG" => /\ Follows(a, No(Head(q)), exact)
                                    /\ Run(Tail(q), No(Head(q)), n, g, exact)
<1>0. /\ Head(q) = q[1] /\ Len(q) \in Nat \ {0} /\ DOMAIN q = 1..Len(q)
      /\ DOMAIN Tail(q) = 1..(Len(q) - 1)
      /\ \A i \in 1..(Len(q) - 1) : Tail(q)[i] = q[i + 1]
  BY TailAt
<1> DEFINE p == Tail(q)
           Pkg(i) == q[i].op = "PKG"
           First(i) == \A j \in DOMAIN q : j < i => q[j].op # "PKG"
           Final(i) == \A j \in DOMAIN q : j > i => q[j].op # "PKG"
           Adjacent(i, j) == /\ j > i /\ q[j].op = "PKG"
                             /\ \A l \in DOMAIN q : i < l /\ l < j => q[l].op # "PKG"
           TFirst(i) == \A j \in DOMAIN p : j < i => p[j].op # "PKG"
           TFinal(i) == \A j \in DOMAIN p : j > i => p[j].op # "PKG"
           TAdjacent(i, j) == /\ j > i /\ p[j].op = "PKG"
                              /\ \A l \in DOMAIN p : i < l /\ l < j => p[l].op # "PKG"
<1>1. /\ Lacks(q, "PKG") => Ends(a, n, g)
      /\ \A i \in DOMAIN q : Pkg(i) =>
           /\ First(i) => Follows(a, No(q[i]), exact)
           /\ Final(i) => Ends(No(q[i]), n, g)
           /\ \A j \in DOMAIN q : Adjacent(i, j) => Follows(No(q[i]), No(q[j]), exact)
  BY DEF Run
<1>2. SUFFICES ASSUME NEW b, Head(q).op # "PKG" => b = a,
                      Head(q).op = "PKG" => b = No(Head(q))
               PROVE  /\ Head(q).op = "PKG" => Follows(a, No(Head(q)), exact)
                      /\ Run(p, b, n, g, exact)
  OBVIOUS
<1>a. 1 \in DOMAIN q
  BY <1>0
<1>b. \A i \in DOMAIN p : i + 1 \in DOMAIN q /\ p[i] = q[i + 1]
  BY <1>0
<1>c. \A j \in DOMAIN q : j = 1 \/ (j - 1 \in DOMAIN p /\ p[j - 1] = q[j] /\ j > 1)
  BY <1>0
<1>d. \A i \in DOMAIN q : i \in Nat /\ i >= 1
  BY <1>0
<1>e. \A i \in DOMAIN p : i \in Nat /\ i >= 1
  BY <1>0
<1> HIDE DEF p
<1>3. Head(q).op = "PKG" => Follows(a, No(Head(q)), exact)
  <2>1. First(1)
    BY <1>d
  <2> QED
    BY <1>0, <1>1, <1>a, <2>1
<1>4. Lacks(p, "PKG") => Ends(b, n, g)
  <2> SUFFICES ASSUME Lacks(p, "PKG") PROVE Ends(b, n, g)
    OBVIOUS
  <2>1. \A j \in DOMAIN q : j > 1 => q[j].op # "PKG"
    BY <1>c, <1>d DEF Lacks
  <2>2. CASE Head(q).op = "PKG"
    BY <1>0, <1>1, <1>2, <1>a, <2>1, <2>2
  <2>3. CASE Head(q).op # "PKG"
    <3>1. Lacks(q, "PKG")
      BY <1>0, <1>c, <2>1, <2>3 DEF Lacks
    <3> QED
      BY <1>1, <1>2, <2>3, <3>1
  <2> QED
    BY <2>2, <2>3
<1>5. ASSUME NEW i \in DOMAIN p, p[i].op = "PKG"
      PROVE  /\ TFirst(i) => Follows(b, No(p[i]), exact)
             /\ TFinal(i) => Ends(No(p[i]), n, g)
             /\ \A j \in DOMAIN p : TAdjacent(i, j) => Follows(No(p[i]), No(p[j]), exact)
  <2>1. /\ i + 1 \in DOMAIN q /\ p[i] = q[i + 1] /\ Pkg(i + 1)
        /\ i \in Nat /\ i >= 1
    BY <1>5, <1>b, <1>e
  <2>2. ASSUME TFirst(i) PROVE Follows(b, No(p[i]), exact)
    <3>1. \A j \in DOMAIN q : 1 < j /\ j < i + 1 => q[j].op # "PKG"
      <4> SUFFICES ASSUME NEW j \in DOMAIN q, 1 < j, j < i + 1 PROVE q[j].op # "PKG"
        OBVIOUS
      <4>1. j - 1 \in DOMAIN p /\ p[j - 1] = q[j] /\ j \in Nat
        BY <1>c, <1>d
      <4>2. j - 1 < i
        BY <2>1, <4>1
      <4> QED
        BY <2>2, <4>1, <4>2
    <3>2. CASE Head(q).op = "PKG"
      <4>1. Adjacent(1, i + 1)
        BY <2>1, <3>1
      <4> QED
        BY <1>0, <1>1, <1>2, <1>a, <2>1, <3>2, <4>1
    <3>3. CASE Head(q).op # "PKG"
      <4>1. First(i + 1)
        BY <1>0, <1>c, <3>1, <3>3
      <4> QED
        BY <1>1, <1>2, <2>1, <3>3, <4>1
    <3> QED
      BY <3>2, <3>3
  <2>3. ASSUME TFinal(i) PROVE Ends(No(p[i]), n, g)
    <3>1. Final(i + 1)
      <4> SUFFICES ASSUME NEW j \in DOMAIN q, j > i + 1 PROVE q[j].op # "PKG"
        OBVIOUS
      <4>1. j - 1 \in DOMAIN p /\ p[j - 1] = q[j] /\ j \in Nat
        BY <1>c, <1>d, <2>1
      <4>2. j - 1 > i
        BY <2>1, <4>1
      <4> QED
        BY <2>3, <4>1, <4>2
    <3> QED
      BY <1>1, <2>1, <3>1
  <2>4. ASSUME NEW j \in DOMAIN p, TAdjacent(i, j)
        PROVE  Follows(No(p[i]), No(p[j]), exact)
    <3>1. j + 1 \in DOMAIN q /\ p[j] = q[j + 1] /\ j \in Nat
      BY <1>b, <1>e
    <3>2. Adjacent(i + 1, j + 1)
      <4>1. j + 1 > i + 1 /\ q[j + 1].op = "PKG"
        BY <2>1, <2>4, <3>1
      <4>2. ASSUME NEW l \in DOMAIN q, i + 1 < l, l < j + 1 PROVE q[l].op # "PKG"
        <5>1. l - 1 \in DOMAIN p /\ p[l - 1] = q[l] /\ l \in Nat
          BY <1>c, <1>d, <2>1, <4>2
        <5>2. i < l - 1 /\ l - 1 < j
          BY <2>1, <3>1, <4>2, <5>1
        <5> QED
          BY <2>4, <5>1, <5>2
      <4> QED
        BY <4>1, <4>2
    <3> QED
      BY <1>1, <2>1, <3>1, <3>2
  <2> QED
    BY <2>2, <2>3, <2>4
<1>6. Run(p, b, n, g, exact)
  BY <1>4, <1>5 DEF Run
<1> QED
  BY <1>3, <1>6

\* Only packages count.
LEMMA RunAppendOther ==
    ASSUME NEW X, NEW q \in Seq(X), NEW e \in X, NEW a, NEW n, NEW g, NEW exact,
           Run(q, a, n, g, exact), e.op # "PKG"
    PROVE  Run(Append(q, e), a, n, g, exact)
<1>0. /\ Len(q) \in Nat /\ DOMAIN q = 1..Len(q)
      /\ DOMAIN Append(q, e) = 1..(Len(q) + 1)
      /\ \A i \in 1..Len(q) : Append(q, e)[i] = q[i]
      /\ Append(q, e)[Len(q) + 1] = e
  BY AppendAt
<1> DEFINE p == Append(q, e)
<1>1. \A i \in DOMAIN q : i \in DOMAIN p /\ p[i] = q[i]
  BY <1>0
<1>2. \A i \in DOMAIN p : p[i].op = "PKG" => i \in DOMAIN q /\ p[i] = q[i]
  BY <1>0
<1> HIDE DEF p
<1>3. Lacks(p, "PKG") => Ends(a, n, g)
  BY <1>1 DEF Lacks, Run
<1>4. ASSUME NEW i \in DOMAIN p, p[i].op = "PKG"
      PROVE  /\ (\A j \in DOMAIN p : j < i => p[j].op # "PKG") => Follows(a, No(p[i]), exact)
             /\ (\A j \in DOMAIN p : j > i => p[j].op # "PKG") => Ends(No(p[i]), n, g)
             /\ \A j \in DOMAIN p :
                  j > i /\ p[j].op = "PKG"
                    /\ (\A l \in DOMAIN p : i < l /\ l < j => p[l].op # "PKG")
                  => Follows(No(p[i]), No(p[j]), exact)
  <2>1. i \in DOMAIN q /\ p[i] = q[i]
    BY <1>2, <1>4
  <2>2. (\A j \in DOMAIN p : j < i => p[j].op # "PKG") => Follows(a, No(p[i]), exact)
    BY <1>1, <1>4, <2>1 DEF Run
  <2>3. (\A j \in DOMAIN p : j > i => p[j].op # "PKG") => Ends(No(p[i]), n, g)
    BY <1>1, <1>4, <2>1 DEF Run
  <2>4. ASSUME NEW j \in DOMAIN p, j > i, p[j].op = "PKG",
               \A l \in DOMAIN p : i < l /\ l < j => p[l].op # "PKG"
        PROVE  Follows(No(p[i]), No(p[j]), exact)
    BY <1>1, <1>2, <1>4, <2>1, <2>4 DEF Run
  <2> QED
    BY <2>2, <2>3, <2>4
<1>5. Run(p, a, n, g, exact)
  BY <1>3, <1>4 DEF Run
<1> QED
  BY <1>5 DEF p

\* What the device sends next goes on with the run.
LEMMA EndsFollows ==
    ASSUME NEW a \in Int, a >= -1, NEW n \in Nat, NEW g \in Nat, NEW exact,
           g <= MaxGap, exact => g = 0, Ends(a, n, g)
    PROVE  Follows(a, n, exact)
BY DownloadAssumption DEF Ends, Follows

LEMMA RunAppendPkg ==
    ASSUME NEW X, NEW q \in Seq(X), NEW e \in X, NEW k, NEW a \in Int, a >= -1,
           NEW n \in Nat, NEW g \in Nat, NEW exact, g <= MaxGap, exact => g = 0,
           Run(q, a, n, g, exact), Own(q, k, n), e.op = "PKG", No(e) = n
    PROVE  Run(Append(q, e), a, n + 1, 0, exact)
<1>0. /\ Len(q) \in Nat /\ DOMAIN q = 1..Len(q)
      /\ DOMAIN Append(q, e) = 1..(Len(q) + 1)
      /\ \A i \in 1..Len(q) : Append(q, e)[i] = q[i]
      /\ Append(q, e)[Len(q) + 1] = e
  BY AppendAt
<1> DEFINE p == Append(q, e)
           m == Len(q) + 1
<1>1. \A i \in DOMAIN q : i \in DOMAIN p /\ p[i] = q[i] /\ i < m
  BY <1>0
<1>2. \A i \in DOMAIN p : i <= m /\ (i # m => i \in DOMAIN q /\ p[i] = q[i])
  BY <1>0
<1>3. m \in DOMAIN p /\ p[m] = e
  BY <1>0
<1>z. \A i \in DOMAIN p : i \in Nat
  BY <1>0
<1> HIDE DEF p, m
<1>4. Ends(n, n + 1, 0)
  BY DEF Ends
<1>5. \A b \in Int : b >= -1 /\ Ends(b, n, g) => Follows(b, n, exact)
  BY EndsFollows
<1>6. \A i \in DOMAIN q : q[i].op = "PKG" => No(q[i]) \in Int /\ No(q[i]) >= -1
  BY DEF Own
<1>7. ~Lacks(p, "PKG")
  BY <1>3 DEF Lacks
<1>8. ASSUME NEW i \in DOMAIN p, p[i].op = "PKG"
      PROVE  /\ (\A j \in DOMAIN p : j < i => p[j].op # "PKG") => Follows(a, No(p[i]), exact)
             /\ (\A j \in DOMAIN p : j > i => p[j].op # "PKG") => Ends(No(p[i]), n + 1, 0)
             /\ \A j \in DOMAIN p :
                  j > i /\ p[j].op = "PKG"
                    /\ (\A l \in DOMAIN p : i < l /\ l < j => p[l].op # "PKG")
                  => Follows(No(p[i]), No(p[j]), exact)
  <2>1. CASE i = m
    <3>1. ASSUME \A j \in DOMAIN p : j < i => p[j].op # "PKG"
          PROVE  Follows(a, No(p[i]), exact)
      <4>1. Lacks(q, "PKG")
        BY <1>1, <2>1, <3>1 DEF Lacks
      <4>2. Ends(a, n, g)
        BY <4>1 DEF Run
      <4> QED
        BY <1>3, <1>5, <2>1, <4>2
    <3>2. Ends(No(p[i]), n + 1, 0)
      BY <1>3, <1>4, <2>1
    <3>3. \A j \in DOMAIN p : ~(j > i)
      BY <1>2, <1>3, <1>z, <2>1
    <3> QED
      BY <3>1, <3>2, <3>3
  <2>2. CASE i # m
    <3>1. i \in DOMAIN q /\ p[i] = q[i] /\ i < m
      BY <1>1, <1>2, <2>2
    <3>2. (\A j \in DOMAIN p : j < i => p[j].op # "PKG") => Follows(a, No(p[i]), exact)
      BY <1>1, <1>8, <3>1 DEF Run
    <3>3. ~(\A j \in DOMAIN p : j > i => p[j].op # "PKG")
      BY <1>3, <3>1, <1>z
    <3>4. ASSUME NEW j \in DOMAIN p, j > i, p[j].op = "PKG",
                 \A l \in DOMAIN p : i < l /\ l < j => p[l].op # "PKG"
          PROVE  Follows(No(p[i]), No(p[j]), exact)
      <4>1. CASE j = m
        <5>1. \A l \in DOMAIN q : l > i => q[l].op # "PKG"
          BY <1>1, <3>4, <4>1
        <5>2. Ends(No(q[i]), n, g)
          BY <1>8, <3>1, <5>1 DEF Run
        <5> QED
          BY <1>3, <1>5, <1>6, <1>8, <3>1, <4>1, <5>2
      <4>2. CASE j # m
        <5>1. j \in DOMAIN q /\ p[j] = q[j]
          BY <1>2, <4>2
        <5>2. \A l \in DOMAIN q : i < l /\ l < j => q[l].op # "PKG"
          BY <1>1, <3>4
        <5> QED
          BY <1>8, <3>1, <3>4, <5>1, <5>2 DEF Run
      <4> QED
        BY <4>1, <4>2
    <3> QED
      BY <3>2, <3>3, <3>4
  <2> QED
    BY <2>1, <2>2
<1>9. Run(p, a, n + 1, 0, exact)
  BY <1>7, <1>8 DEF Run
<1> QED
  BY <1>9 DEF p

\* A package that is lost leaves a gap.
LEMMA RunLost ==
    ASSUME NEW q, NEW k, NEW a \in Int, NEW n \in Nat \ {0}, NEW g \in Nat, NEW exact,
           Run(q, a, n, g, exact), Own(q, k, n)
    PROVE  Run(q, a, n + 1, g + 1, FALSE)
<1>1. \A b \in Int : Ends(b, n, g) => Ends(b, n + 1, g + 1)
  BY DEF Ends
<1>2. \A b, c : Follows(b, c, exact) => Follows(b, c, FALSE)
  BY DEF Follows
<1>3. \A i \in DOMAIN q : q[i].op = "PKG" => No(q[i]) \in Int
  BY DEF Own
<1>4. Lacks(q, "PKG") => Ends(a, n + 1, g + 1)
  BY <1>1 DEF Run
<1>5. ASSUME NEW i \in DOMAIN q, q[i].op = "PKG"
      PROVE  /\ (\A j \in DOMAIN q : j < i => q[j].op # "PKG") => Follows(a, No(q[i]), FALSE)
             /\ (\A j \in DOMAIN q : j > i => q[j].op # "PKG") => Ends(No(q[i]), n + 1, g + 1)
             /\ \A j \in DOMAIN q :
                  j > i /\ q[j].op = "PKG"
                    /\ (\A l \in DOMAIN q : i < l /\ l < j => q[l].op # "PKG")
                  => Follows(No(q[i]), No(q[j]), FALSE)
  <2>1. (\A j \in DOMAIN q : j < i => q[j].op # "PKG") => Follows(a, No(q[i]), FALSE)
    BY <1>2, <1>5 DEF Run
  <2>2. (\A j \in DOMAIN q : j > i => q[j].op # "PKG") => Ends(No(q[i]), n + 1, g + 1)
    BY <1>1, <1>3, <1>5 DEF Run
  <2>3. ASSUME NEW j \in DOMAIN q, j > i, q[j].op = "PKG",
               \A l \in DOMAIN q : i < l /\ l < j => q[l].op # "PKG"
        PROVE  Follows(No(q[i]), No(q[j]), FALSE)
    <3>1. Follows(No(q[i]), No(q[j]), exact)
      BY <1>5, <2>3 DEF Run
    <3> QED
      BY <1>2, <3>1
  <2> QED
    BY <2>1, <2>2, <2>3
<1> QED
  BY <1>4, <1>5 DEF Run

-----------------------------------------------------------------------------
(* CMD_OK arrives *)

LEMMA OkCore ==
    ASSUME LinkIsFair, Core, OkArrives
    PROVE  Rest'
<1> DEFINE p == Tail(inbox)
<1>1. /\ Typed /\ Losses /\ Messages /\ Flight /\ Stage /\ SlotsAreOwn
      /\ ch \in Channel /\ inbox \in Seq(Sound)
  BY DEF Core, Rest, Typed, Channel
<1>2. /\ inbox # <<>> /\ Head(inbox).op = "OK" /\ inbox' = p /\ p \in Seq(Sound)
      /\ UNCHANGED <<rx, kind, nextTimer, dev, timely, pkgLosses, losses>>
      /\ ch' = StopCmdTimer(ch)
  BY <1>1, NotifiedTyped DEF OkArrives
<1>3. /\ ch'.last_cmd = ch.last_cmd /\ ~ch'.cmdTimer /\ ch'.air = ch.air
      /\ ch'.backlog = ch.backlog /\ (ch'.backlogTimer <=> ch.backlogTimer)
  BY <1>1, <1>2, StopFields
<1>4. /\ \A ops : All(inbox, ops) => "OK" \in ops /\ All(p, ops)
      /\ \A op : Lacks(inbox, op) => Lacks(p, op)
      /\ \A op, ops : After(inbox, op, ops) => After(p, op, ops)
      /\ \A ops : After(inbox, "OK", ops) => All(p, ops)
      /\ \A op : Lacks(p, op) /\ op # "OK" => Lacks(inbox, op)
  BY <1>1, <1>2, TailOps
<1>5. /\ \A k : Offers(inbox, k) => Offers(p, k)
      /\ \A m : Supplies(inbox, m) => Supplies(p, m)
      /\ Answer(inbox) /\ ~Lacks(p, "START") => Answer(p)
      /\ \A k, n : Own(inbox, k, n) => Own(p, k, n)
      /\ \A a, n, g, exact : Run(inbox, a, n, g, exact) => Run(p, a, n, g, exact)
  BY <1>1, <1>2, TailSays, AnswerTail, OwnTail, RunTail
<1> HIDE DEF p
<1>6. Losses'
  BY <1>1, <1>2, <1>3 DEF Losses, Last
<1>7. Messages'
  BY <1>1, <1>2, <1>3, <1>4, <1>5 DEF Messages
<1>8. Flight'
  BY <1>1, <1>2, <1>3, <1>4, <1>5, EmptyAll DEF Flight, Streamed
<1>9. SlotsAreOwn'
  BY <1>1, <1>2 DEF SlotsAreOwn
<1>10. CASE Asking
  <2>1. Asking'
    BY <1>2, <1>3, <1>4, <1>10 DEF Asking, Last
  <2> QED
    BY <1>6, <1>7, <1>8, <1>9, <2>1 DEF Rest, Stage
<1>11. CASE Taking
  <2>1. Conversation'
    BY <1>2, <1>3, <1>4, <1>11 DEF Taking, Conversation
  <2>2. Answered'
    BY <1>2, <1>3, <1>4, <1>5, <1>11 DEF Taking, Answered
  <2>3. Received'
    BY <1>2, <1>3, <1>4, <1>11 DEF Taking, Received, Filled
  <2>4. Coming'
    BY <1>2, <1>3, <1>5, <1>11 DEF Taking, Coming, Base
  <2>5. Taking'
    BY <1>2, <1>3, <1>4, <1>11, <2>1, <2>2, <2>3, <2>4 DEF Taking, Last
  <2> QED
    BY <1>6, <1>7, <1>8, <1>9, <2>5 DEF Rest, Stage
<1>12. CASE Repairing
  <2>1. Requesting'
    BY <1>2, <1>3, <1>4, <1>12 DEF Repairing, Requesting, Waits
  <2>2. Repairing'
    BY <1>2, <1>3, <1>5, <1>12, <2>1 DEF Repairing, Last
  <2> QED
    BY <1>6, <1>7, <1>8, <1>9, <2>2 DEF Rest, Stage
<1>13. CASE Acking
  <2>1. Acking'
    BY <1>2, <1>3, <1>4, <1>13 DEF Acking, Last, Waits
  <2> QED
    BY <1>6, <1>7, <1>8, <1>9, <2>1 DEF Rest, Stage
<1> QED
  BY <1>1, <1>10, <1>11, <1>12, <1>13 DEF Stage

-----------------------------------------------------------------------------
(* Timers expire *)

\* A command that is written when nothing else is on its way.
LEMMA SentAlone ==
    ASSUME NEW q \in Seq(Cmds), q = <<>>, NEW c \in Cmds
    PROVE  Len(Append(q, c)) = 1 /\ Append(q, c) # <<>>
OBVIOUS

LEMMA Appended ==
    ASSUME NEW q \in Seq(Cmds), NEW c \in Cmds
    PROVE  Append(q, c) \in Seq(Cmds) /\ Append(q, c) # <<>>
BY NewestEntry

LEMMA CmdTimerCore ==
    ASSUME LinkIsFair, Core, CmdTimerExpires
    PROVE  Rest'
<1> DEFINE c == ch.last_cmd
           p == Append(ch.air, c)
<1>1. /\ Typed /\ Losses /\ Messages /\ Flight /\ Stage /\ SlotsAreOwn
      /\ ch \in Channel /\ ch.air \in Seq(Cmds) /\ c \in Cmds /\ ch.cmdTimer
  BY ChannelFields DEF Core, Rest, Typed, Channel, CmdTimerExpires
<1>2. /\ UNCHANGED <<rx, kind, nextTimer, inbox, dev, timely, pkgLosses, losses>>
      /\ timely => NoAnswerDue
      /\ ch' = onCmdTimerExpired(ch)
  BY DEF CmdTimerExpires, budget
<1>3. /\ ch'.last_cmd = ch.last_cmd /\ ch'.cmdTimer
      /\ ch'.backlog = ch.backlog /\ (ch'.backlogTimer <=> ch.backlogTimer)
      /\ ch'.air = ch.air \/ ch'.air = p
  BY <1>1, <1>2, CmdTimerFields
<1>4. c.op # "OK"
  BY <1>1 DEF Stage, Asking, Taking, Repairing, Acking, Last
<1>5. /\ \A ops : All(ch.air, ops) /\ c.op \in ops => All(p, ops)
      /\ \A op : Lacks(ch.air, op) /\ c.op # op => Lacks(p, op)
      /\ \A op, ops : After(ch.air, op, ops) /\ c.op \in ops => After(p, op, ops)
      /\ ch.air = <<>> => Len(p) = 1
  BY <1>1, AppendOps, SentAlone
<1>6. timely => /\ ch.air = <<>> /\ All(inbox, Streamed)
                /\ losses > 0 /\ pkgLosses = 0
  <2>1. NoAnswerDue => ch.air = <<>> /\ All(inbox, Streamed)
    BY DEF NoAnswerDue, All, Streamed
  <2>2. All(inbox, Streamed) => All(inbox, Streamed \cup {"MISSED"})
    BY DEF All
  <2>3. losses \in Nat /\ pkgLosses \in Nat
    BY <1>1, DownloadAssumption DEF Typed
  <2> QED
    BY <1>1, <1>2, <2>1, <2>2, <2>3 DEF Flight, Losses
<1>7. pkgLosses = 0
  <2>1. pkgLosses \in Nat
    BY <1>1, DownloadAssumption DEF Typed
  <2> QED
    BY <1>1, <1>6, <2>1 DEF Losses
<1> HIDE DEF p
<1>8. Losses'
  BY <1>1, <1>2, <1>3 DEF Losses, Last
<1>9. Messages'
  BY <1>1, <1>2, <1>3, <1>4, <1>5 DEF Messages
<1>10. Flight'
  <2>1. \A op : Lacks(<<>>, op)
    BY EmptyAll
  <2>2. Len(<<>>) = 0
    OBVIOUS
  <2>3. SUFFICES ASSUME timely PROVE Flight'
    BY <1>2 DEF Flight
  <2>4. /\ ch.air = <<>> /\ All(inbox, Streamed) /\ losses > 0
        /\ Len(ch'.air) <= 1 /\ Lacks(ch'.air, "OK")
    <3>1. /\ ch.air = <<>> /\ All(inbox, Streamed) /\ losses > 0
      BY <1>6, <2>3
    <3>2. Lacks(p, "OK") /\ Len(p) = 1
      BY <1>4, <1>5, <2>1, <3>1
    <3>3. Lacks(ch.air, "OK") /\ Len(ch.air) = 0
      BY <2>1, <2>2, <3>1
    <3>4. CASE ch'.air = ch.air
      BY <3>1, <3>3, <3>4
    <3>5. CASE ch'.air = p
      BY <3>1, <3>2, <3>5
    <3> QED
      BY <1>3, <3>4, <3>5
  <2> QED
    BY <1>1, <1>2, <1>3, <2>3, <2>4 DEF Flight
<1>11. SlotsAreOwn'
  BY <1>1, <1>2 DEF SlotsAreOwn
<1>12. CASE Asking
  <2>1. Asking'
    BY <1>2, <1>3, <1>5, <1>12 DEF Asking, Last
  <2> QED
    BY <1>8, <1>9, <1>10, <1>11, <2>1 DEF Rest, Stage
<1>13. CASE Taking
  <2>1. Conversation'
    BY <1>2, <1>3, <1>5, <1>13 DEF Taking, Conversation, Last
  <2>2. Answered' /\ Received' /\ Coming'
    BY <1>1, <1>2, <1>3, <1>13 DEF Taking, Answered, Received, Coming, Base, Filled
  <2>3. Taking'
    BY <1>2, <1>3, <1>5, <1>13, <2>1, <2>2 DEF Taking, Last
  <2> QED
    BY <1>8, <1>9, <1>10, <1>11, <2>3 DEF Rest, Stage
<1>14. CASE Repairing
  BY <1>7, <1>14 DEF Repairing
<1>15. CASE Acking
  <2>1. Last \in {"START_OK", "ACK_OK"}
    BY <1>1, <1>7, <1>15 DEF Acking, Losses
  <2>2. Acking'
    BY <1>2, <1>3, <1>5, <1>15, <2>1 DEF Acking, Last, Waits
  <2> QED
    BY <1>8, <1>9, <1>10, <1>11, <2>2 DEF Rest, Stage
<1> QED
  BY <1>1, <1>12, <1>13, <1>14, <1>15 DEF Stage

\* A command is written when nothing else is on its way but a stream.
LEMMA SendFlight ==
    ASSUME Typed, Flight, NEW c \in Cmds, c.op # "OK",
           timely => ch.air = <<>> /\ All(inbox', Streamed),
           UNCHANGED <<timely, losses>>,
           ch'.air = Append(ch.air, c), ch'.cmdTimer
    PROVE  Flight'
<1> DEFINE p == Append(ch.air, c)
<1>1. ch.air \in Seq(Cmds)
  BY ChannelFields DEF Typed, Channel
<1>2. /\ p # <<>>
      /\ ch.air = <<>> => Len(p) = 1
      /\ Lacks(ch.air, "OK") => Lacks(p, "OK")
  BY <1>1, AppendOps, SentAlone, Appended
<1>3. Lacks(<<>>, "OK")
  BY EmptyAll
<1>4. ASSUME All(inbox', Streamed)
      PROVE  \A op, ops : op \notin Streamed => After(inbox', op, ops)
  BY <1>4, LacksAll, AfterNone
<1>5. {"OK", "START", "NO_CHUNK", "MISSED"} \cap Streamed = {}
  BY DEF Streamed
<1> HIDE DEF p
<1> QED
  BY <1>2, <1>3, <1>4, <1>5 DEF Flight, p

LEMMA BacklogTimerCore ==
    ASSUME LinkIsFair, Core, BacklogTimerExpires
    PROVE  Rest'
<1> DEFINE c == Newest(ch.backlog)
           p == Append(ch.air, c)
<1>1. /\ Typed /\ Losses /\ Messages /\ Flight /\ Stage /\ SlotsAreOwn
      /\ ch \in Channel /\ ch.air \in Seq(Cmds) /\ ch.backlogTimer
  BY ChannelFields DEF Core, Rest, Typed, Channel, BacklogTimerExpires
<1>2. /\ UNCHANGED <<rx, kind, nextTimer, inbox, dev, timely, pkgLosses, losses>>
      /\ timely /\ ~ch.cmdTimer => NoAnswerDue
      /\ ch' = onBacklogTimerExpired(ch)
  BY DEF BacklogTimerExpires, budget, main
<1>3. ch.backlog # <<>> /\ (Repairing \/ Acking)
  BY <1>1 DEF Stage, Asking, Taking, Repairing, Requesting, Acking, Waits
<1>4. c \in Cmds /\ c.op \in {"MISSING", "ACK_OK", "REQUEST"}
  BY <1>1, <1>3, ChannelFields, NewestEntry DEF Repairing, Requesting, Acking, Waits
<1>5. /\ ch.cmdTimer => /\ ch'.last_cmd = ch.last_cmd /\ ch'.air = ch.air
                        /\ ch'.cmdTimer /\ ch'.backlogTimer
                        /\ ch'.backlog # <<>> /\ Newest(ch'.backlog) = c
      /\ ~ch.cmdTimer => /\ ch'.last_cmd = c /\ ch'.air = p
                         /\ ch'.cmdTimer /\ ~ch'.backlogTimer
  BY <1>1, <1>2, <1>3, BacklogTimerFields
<1>6. /\ \A ops : All(ch.air, ops) /\ c.op \in ops => All(p, ops)
      /\ \A op : Lacks(ch.air, op) /\ c.op # op => Lacks(p, op)
      /\ \A op, ops : Lacks(ch.air, op) => After(p, op, ops)
      /\ Same(ch.air, c) => Same(p, c)
  BY <1>1, <1>4, AppendOps, AppendSays
<1>7. timely /\ ~ch.cmdTimer => ch.air = <<>> /\ All(inbox, Streamed)
  BY <1>2 DEF NoAnswerDue, All, Streamed
<1>8. Losses'
  BY <1>1, <1>2, <1>3, <1>5 DEF Losses, Last, Repairing, Acking, Waits
<1>9. Messages'
  BY <1>1, <1>2, <1>4, <1>5, <1>6 DEF Messages
<1>10. Flight'
  <2>1. CASE ch.cmdTimer
    BY <1>1, <1>2, <1>5, <2>1 DEF Flight
  <2>2. CASE ~ch.cmdTimer
    BY <1>1, <1>2, <1>4, <1>5, <1>7, <2>2, SendFlight
  <2> QED
    BY <2>1, <2>2
<1>11. SlotsAreOwn'
  BY <1>1, <1>2 DEF SlotsAreOwn
<1> HIDE DEF p, c
<1>12. CASE Repairing
  <2>1. /\ Waits("MISSING") /\ c = MissingCmd(rx.missed_in_request)
        /\ ch.air = <<>> /\ All(inbox, {"OK"})
    BY <1>1, <1>12 DEF Repairing, Requesting, c
  <2>2. All(inbox, {"OK", "MISSED"})
    BY <2>1, AllWeaker
  <2>3. Same(<<>>, c) /\ c.op = "MISSING"
    BY <2>1, NothingSays DEF MissingCmd
  <2>4. Requesting'
    BY <1>2, <1>5, <1>6, <2>1, <2>2, <2>3 DEF Requesting, Waits
  <2>5. Repairing'
    BY <1>2, <1>5, <1>12, <2>3, <2>4 DEF Repairing, Last
  <2> QED
    BY <1>8, <1>9, <1>10, <1>11, <2>5 DEF Rest, Stage
<1>13. CASE Acking
  <2>1. \/ /\ Waits("ACK_OK") /\ Last \in {"START_OK", "MISSING", "ACK_OK"}
           /\ nextTimer /\ timely /\ c.op = "ACK_OK"
        \/ /\ Waits("REQUEST") /\ Last \in {"START_OK", "MISSING", "ACK_OK"}
           /\ ~nextTimer /\ (Last # "ACK_OK" => timely) /\ c.op = "REQUEST"
    <3>1. \A op : Waits(op) => c.op = op
      BY DEF Waits, c
    <3>2. CASE Last = "ACK_OK" /\ ~ch.backlogTimer
      BY <1>1, <3>2
    <3>3. CASE /\ Last \in {"START_OK", "MISSING", "ACK_OK"} /\ Waits("ACK_OK")
               /\ nextTimer /\ timely
      BY <3>1, <3>3
    <3>4. CASE /\ Last \in {"START_OK", "MISSING", "ACK_OK"} /\ Waits("REQUEST")
               /\ ~nextTimer /\ (Last # "ACK_OK" => timely)
      BY <3>1, <3>4
    <3> QED
      BY <1>13, <3>2, <3>3, <3>4 DEF Acking
  <2>2. CASE ch.cmdTimer
    <3>1. Acking'
      BY <1>2, <1>5, <1>13, <2>1, <2>2 DEF Acking, Last, Waits
    <3> QED
      BY <1>8, <1>9, <1>10, <1>11, <3>1 DEF Rest, Stage
  <2>3. CASE ~ch.cmdTimer /\ c.op = "ACK_OK"
    <3>1. Acking'
      BY <1>2, <1>5, <1>6, <1>13, <2>1, <2>3 DEF Acking, Last
    <3> QED
      BY <1>8, <1>9, <1>10, <1>11, <3>1 DEF Rest, Stage
  <2>4. CASE ~ch.cmdTimer /\ c.op = "REQUEST"
    <3>1. /\ dev.phase \in {"idle", "sent"} /\ All(inbox, {"OK"})
          /\ All(ch.air, {"START_OK", "ACK_OK"})
      BY <1>13 DEF Acking
    <3>2. /\ All(inbox, {"OK", "NO_CHUNK"}) /\ All(inbox, {"OK", "START", "NO_CHUNK"})
          /\ All(ch.air, {"START_OK", "ACK_OK", "REQUEST", "OK"})
          /\ Lacks(ch.air, "REQUEST")
      BY <3>1, AllWeaker, LacksAll
    <3>3. Asking'
      BY <1>2, <1>5, <1>6, <2>1, <2>4, <3>1, <3>2 DEF Asking, Last
    <3> QED
      BY <1>8, <1>9, <1>10, <1>11, <3>3 DEF Rest, Stage
  <2> QED
    BY <2>1, <2>2, <2>3, <2>4
<1> QED
  BY <1>3, <1>12, <1>13

LEMMA NextTimerCore ==
    ASSUME LinkIsFair, Core, NextRequestTimerExpires
    PROVE  Rest'
<1> DEFINE c == Command("REQUEST")
           p == Append(ch.air, c)
<1>1. /\ Typed /\ Losses /\ Messages /\ Flight /\ Stage /\ SlotsAreOwn
      /\ ch \in Channel /\ ch.air \in Seq(Cmds) /\ nextTimer
  BY ChannelFields DEF Core, Rest, Typed, Channel, NextRequestTimerExpires
<1>2. /\ UNCHANGED <<rx, kind, inbox, dev, timely, pkgLosses, losses>>
      /\ timely /\ ch.backlogTimer => ch.cmdTimer
      /\ ~nextTimer'
      /\ ch' = bleUartSendCmdWithResp(ch, c)
  BY DEF NextRequestTimerExpires, budget, main
<1>3. c \in Cmds /\ c.op = "REQUEST"
  BY CommandType
<1>4. /\ \/ Last = "ACK_OK" /\ ~ch.backlogTimer
         \/ /\ Last \in {"START_OK", "MISSING", "ACK_OK"}
            /\ ch.backlogTimer /\ ch.cmdTimer /\ timely
      /\ dev.phase \in {"idle", "sent"}
      /\ All(inbox, {"OK"}) /\ All(ch.air, {"START_OK", "ACK_OK"})
  BY <1>1, <1>2 DEF Stage, Asking, Taking, Repairing, Acking, Waits
<1>5. /\ ch.cmdTimer => /\ ch'.last_cmd = ch.last_cmd /\ ch'.air = ch.air
                        /\ ch'.cmdTimer /\ ch'.backlogTimer
                        /\ ch'.backlog # <<>> /\ Newest(ch'.backlog) = c
      /\ ~ch.cmdTimer => /\ ch'.last_cmd = c /\ ch'.air = p
                         /\ ch'.cmdTimer /\ ~ch'.backlogTimer
  BY <1>1, <1>2, <1>3, <1>4, SendFree, SendBusy
<1>6. /\ \A ops : All(ch.air, ops) /\ c.op \in ops => All(p, ops)
      /\ \A op : Lacks(ch.air, op) /\ c.op # op => Lacks(p, op)
      /\ \A op, ops : Lacks(ch.air, op) => After(p, op, ops)
  BY <1>1, <1>3, AppendOps
<1>7. timely /\ ~ch.cmdTimer => ch.air = <<>> /\ All(inbox, Streamed)
  <2>1. SUFFICES ASSUME timely, ~ch.cmdTimer PROVE ch.air = <<>> /\ All(inbox, Streamed)
    OBVIOUS
  <2>2. All(ch.air, {"OK"}) /\ All(inbox, Streamed \cup {"MISSED"}) /\ inbox \in Seq(Sound)
    BY <1>1, <2>1 DEF Flight, Typed
  <2>3. {"OK"} \cap {"START_OK", "ACK_OK"} = {}
    OBVIOUS
  <2>4. {"OK"} \cap (Streamed \cup {"MISSED"}) = {}
    BY DEF Streamed
  <2>5. ch.air = <<>>
    BY <1>1, <1>4, <2>2, <2>3, AllNothing
  <2>6. inbox = <<>>
    BY <1>4, <2>2, <2>4, AllNothing
  <2> QED
    BY <2>5, <2>6, EmptyAll
<1> HIDE DEF p, c
<1>8. Losses'
  BY <1>1, <1>2, <1>3, <1>5 DEF Losses, Last
<1>9. Messages'
  BY <1>1, <1>2, <1>3, <1>5, <1>6 DEF Messages
<1>10. Flight'
  <2>1. CASE ch.cmdTimer
    BY <1>1, <1>2, <1>5, <2>1 DEF Flight
  <2>2. CASE ~ch.cmdTimer
    BY <1>1, <1>2, <1>3, <1>5, <1>7, <2>2, SendFlight DEF p
  <2> QED
    BY <2>1, <2>2
<1>11. SlotsAreOwn'
  BY <1>1, <1>2 DEF SlotsAreOwn
<1>12. CASE ch.cmdTimer
  <2>1. Acking'
    BY <1>2, <1>3, <1>4, <1>5, <1>12 DEF Acking, Last, Waits
  <2> QED
    BY <1>8, <1>9, <1>10, <1>11, <2>1 DEF Rest, Stage
<1>13. CASE ~ch.cmdTimer
  <2>1. /\ All(inbox, {"OK", "NO_CHUNK"}) /\ All(inbox, {"OK", "START", "NO_CHUNK"})
        /\ All(ch.air, {"START_OK", "ACK_OK", "REQUEST", "OK"})
        /\ Lacks(ch.air, "REQUEST")
    BY <1>4, AllWeaker, LacksAll
  <2>2. Asking'
    BY <1>2, <1>3, <1>4, <1>5, <1>6, <1>13, <2>1 DEF Asking, Last
  <2> QED
    BY <1>8, <1>9, <1>10, <1>11, <2>2 DEF Rest, Stage
<1> QED
  BY <1>12, <1>13

-----------------------------------------------------------------------------
(* A chunk is offered *)

LEMMA StartCore ==
    ASSUME LinkIsFair, Core, onStartHugeChunkArrived
    PROVE  Rest'
<1> DEFINE p == Tail(inbox)
           c == Command("START_OK")
           y == StopCmdTimer(ch)
           o == Append(ch.air, c)
           k == Head(inbox).chunk
<1>1. /\ Typed /\ Losses /\ Messages /\ Flight /\ Stage /\ SlotsAreOwn
      /\ ch \in Channel /\ inbox \in Seq(Sound) /\ ch.air \in Seq(Cmds)
  BY ChannelFields DEF Core, Rest, Typed, Channel
<1>2. /\ inbox # <<>> /\ Head(inbox).op = "START" /\ inbox' = p /\ p \in Seq(Sound)
      /\ k \in Chunk
      /\ UNCHANGED <<nextTimer, dev, timely, pkgLosses, losses>>
      /\ kind' = k /\ rx' = StartChunk(rx, Counts[k])
      /\ ch' = bleUartSendCmdWithResp(y, c)
  BY <1>1, NotifiedTyped, SoundFields DEF onStartHugeChunkArrived
<1>3. /\ y \in Channel /\ ~y.cmdTimer /\ y.air = ch.air
      /\ (y.backlogTimer <=> ch.backlogTimer)
  BY <1>1, StopFields
<1>4. c \in Cmds /\ c.op = "START_OK"
  BY CommandType
<1> HIDE DEF y, c
<1>5. /\ ch'.last_cmd = c /\ ch'.cmdTimer /\ ch'.air = o
      /\ (ch'.backlogTimer <=> ch.backlogTimer)
  BY <1>2, <1>3, <1>4, SendFree
<1>6. /\ \A ops : All(inbox, ops) => "START" \in ops /\ All(p, ops)
      /\ \A op : Lacks(inbox, op) => Lacks(p, op)
      /\ \A op, ops : After(inbox, op, ops) => After(p, op, ops)
      /\ \A ops : After(inbox, "START", ops) => All(p, ops)
      /\ ~Lacks(inbox, "START")
  BY <1>1, <1>2, TailOps
<1>7. /\ Offers(inbox, dev.chunk) => Offers(p, dev.chunk) /\ k = dev.chunk
      /\ Answer(inbox) => Answer(p)
      /\ \A n : Own(inbox, dev.chunk, n) => Own(p, dev.chunk, n)
      /\ \A a, n, g, exact : Run(inbox, a, n, g, exact) => Run(p, a, n, g, exact)
  BY <1>1, <1>2, TailSays, AnswerTail, OwnTail, RunTail
<1>8. /\ \A ops : All(ch.air, ops) /\ c.op \in ops => All(o, ops)
      /\ \A op : Lacks(ch.air, op) /\ c.op # op => Lacks(o, op)
      /\ \A op, ops : After(ch.air, op, ops) /\ c.op \in ops => After(o, op, ops)
      /\ \A op, ops : Lacks(ch.air, op) => After(o, op, ops)
  BY <1>1, <1>4, AppendOps
<1> HIDE DEF p, o
<1>9. k = dev.chunk /\ dev.chunk \in Chunk
  BY <1>1, <1>2, <1>7 DEF Messages
<1>10. /\ Shaped(rx) /\ Counts[k] \in Nat \ {0}
  BY <1>1, <1>2, CountIsPositive, ReceiverShaped DEF Typed
<1>11. /\ rx'.count = Counts[k] /\ rx'.vec = [i \in 0..(Counts[k] - 1) |-> None]
       /\ rx'.highest = 0 /\ rx'.first /\ rx'.missed_cnt = 0 /\ ~rx'.last_received
  BY <1>2, <1>10, StartFields
<1>12. timely => ch.air = <<>> /\ All(p, Streamed)
  BY <1>1, <1>6 DEF Flight, Streamed
<1>13. Losses'
  BY <1>1, <1>2, <1>4, <1>5 DEF Losses, Last
<1>14. Messages'
  BY <1>1, <1>2, <1>4, <1>5, <1>6, <1>7, <1>8 DEF Messages
<1>15. Flight'
  BY <1>1, <1>2, <1>4, <1>5, <1>12, SendFlight DEF o
<1>16. SlotsAreOwn'
  BY <1>11 DEF SlotsAreOwn
<1>17. Received'
  BY <1>2, <1>11 DEF Received
<1>18. CASE Asking
  <2>1. /\ dev.phase = "offered" /\ ~ch.backlogTimer /\ ~nextTimer
        /\ All(inbox, {"OK", "START", "NO_CHUNK"}) /\ All(ch.air, {"REQUEST"})
    BY <1>6, <1>18 DEF Asking
  <2>2. All(p, {"OK", "START", "NO_CHUNK"}) /\ Lacks(p, "NO_CHUNK")
    BY <1>1, <1>6, <1>9, <2>1 DEF Messages
  <2>3. All(p, {"OK", "START"})
    BY <2>2, AllBut
  <2>4. Lacks(p, "PKG") /\ Lacks(p, "ACK_PROC") /\ Lacks(ch.air, "START_OK")
    BY <2>1, <2>3, LacksAll
  <2>5. All(ch.air, {"REQUEST", "START_OK"})
    BY <2>1, AllWeaker
  <2>6. Conversation'
    BY <1>2, <1>4, <1>5, <1>8, <2>1, <2>3, <2>5 DEF Conversation
  <2>7. Answered' /\ Coming'
    BY <1>2, <2>1 DEF Answered, Coming
  <2>8. /\ After(o, "START_OK", {"START_OK"})
        /\ After(p, "PKG", {"OK", "PKG", "ACK_PROC"})
        /\ After(p, "ACK_PROC", {"OK"})
    BY <1>8, <2>4, AfterNone
  <2>9. Taking'
    BY <1>2, <1>4, <1>5, <1>9, <1>17, <2>1, <2>6, <2>7, <2>8 DEF Taking, Last
  <2> QED
    BY <1>13, <1>14, <1>15, <1>16, <2>9 DEF Rest, Stage
<1>19. CASE Taking
  <2>1. rx.first
    BY <1>6, <1>19 DEF Taking, Received
  <2>2. Conversation'
    BY <1>2, <1>4, <1>5, <1>6, <1>8, <1>19 DEF Taking, Conversation
  <2>3. Answered'
    BY <1>2, <1>6, <1>7, <1>19 DEF Taking, Answered
  <2>4. Coming'
    BY <1>2, <1>7, <1>11, <1>19, <2>1 DEF Taking, Coming, Base
  <2>5. Taking'
    BY <1>2, <1>4, <1>5, <1>6, <1>8, <1>9, <1>17, <1>19, <2>2, <2>3, <2>4 DEF Taking, Last
  <2> QED
    BY <1>13, <1>14, <1>15, <1>16, <2>5 DEF Rest, Stage
<1>20. CASE Repairing \/ Acking
  BY <1>6, <1>20 DEF Repairing, Requesting, Acking
<1> QED
  BY <1>1, <1>18, <1>19, <1>20 DEF Stage

-----------------------------------------------------------------------------
(* A package arrives *)

LEMMA ExceptAt ==
    ASSUME NEW D, NEW S, NEW f \in [D -> S], NEW t \in D, NEW v
    PROVE  LET h == [f EXCEPT ![t] = v]
           IN /\ DOMAIN h = D /\ h[t] = v
              /\ \A i \in D : i # t => h[i] = f[i]
OBVIOUS

\* The package gets the index it was sent with.
LEMMA IndexIsNo ==
    ASSUME LinkIsFair, Shaped(rx), rx.first => rx.highest = 0,
           NEW t \in Nat, NEW exact, Follows(Base, t, exact)
    PROVE  IndexOf(rx, t % Wrap) = t
<1>1. rx.highest \in Nat /\ rx.first \in BOOLEAN
  BY ShapedFields
<1>2. CASE rx.first
  <2>1. t = 0
    BY <1>2 DEF Follows, Base
  <2>2. 0 % Wrap = 0
    BY WrapAssumption
  <2> QED
    BY <1>2, <2>1, <2>2 DEF IndexOf
<1>3. CASE ~rx.first
  <2> DEFINE g == t - rx.highest - 1
  <2>1. rx.highest < t /\ t <= rx.highest + 1 + MaxGap
    BY <1>3 DEF Follows, Base
  <2>2. g \in Nat /\ t = rx.highest + 1 + g /\ g <= MaxGap
    BY <1>1, <2>1, DownloadAssumption
  <2>3. g + 2 + Window <= Wrap
    BY <2>2, DownloadAssumption, WrapAssumption DEF LinkIsFair
  <2> HIDE DEF g
  <2>4. rx.first = FALSE
    BY <1>1, <1>3
  <2> QED
    BY <1>1, <2>2, <2>3, <2>4, IndexIsRight
<1> QED
  BY <1>2, <1>3

LEMMA PackageCore ==
    ASSUME LinkIsFair, Core, PackageArrives
    PROVE  Rest'
<1> DEFINE p == Tail(inbox)
           m == Head(inbox)
           t == No(m)
<1>1. /\ Typed /\ Losses /\ Messages /\ Flight /\ Stage /\ SlotsAreOwn
      /\ inbox \in Seq(Sound)
  BY DEF Core, Rest, Typed
<1>2. /\ inbox # <<>> /\ m.op = "PKG" /\ inbox' = p /\ p \in Seq(Sound)
      /\ UNCHANGED <<ch, kind, nextTimer, dev, timely, pkgLosses, losses>>
      /\ rx' = ReceivePackage(rx, m.byte, m.payload)
  BY <1>1, NotifiedTyped DEF PackageArrives
<1>3. /\ \A ops : All(inbox, ops) <=> "PKG" \in ops /\ All(p, ops)
      /\ \A op : Lacks(inbox, op) => Lacks(p, op)
      /\ \A op, ops : After(inbox, op, ops) => After(p, op, ops)
      /\ \A ops : After(inbox, "PKG", ops) => All(p, ops)
  BY <1>1, <1>2, TailOps
<1>4. /\ \A k : Offers(inbox, k) => Offers(p, k)
      /\ ~Answer(inbox)
      /\ \A k, n : Own(inbox, k, n) => Own(p, k, n) /\ IsOwn(m, k, n)
      /\ \A a, n, g, exact : Run(inbox, a, n, g, exact)
           => Follows(a, t, exact) /\ Run(p, t, n, g, exact)
  BY <1>1, <1>2, TailSays, AnswerHead, OwnTail, RunTail
<1> HIDE DEF p, m
<1>5. Taking
  BY <1>1, <1>3 DEF Stage, Asking, Repairing, Requesting, Acking
<1>6. /\ dev.phase \in {"streaming", "sent"} /\ dev.next <= Counts[dev.chunk]
      /\ kind = dev.chunk /\ kind \in Chunk /\ dev.next \in Nat
      /\ Counts[kind] \in Nat
  <2>1. dev \in Devs /\ (dev.phase # "idle" => dev.chunk \in Chunk) /\ kind = dev.chunk
    BY <1>1, <1>5 DEF Typed, Taking
  <2>2. dev.next \in Nat
    BY <2>1, DevFields
  <2>3. dev.phase \in {"streaming", "sent"}
    BY <1>3, <1>5 DEF Taking, Conversation
  <2>4. Counts[dev.chunk] \in Nat
    BY <2>1, <2>3, CountIsPositive
  <2>5. dev.next <= Counts[dev.chunk]
    BY <1>5, <2>2, <2>3, <2>4 DEF Taking, Conversation
  <2> QED
    BY <2>1, <2>2, <2>3, <2>4, <2>5
<1>7. /\ Shaped(rx) /\ rx.vec \in [0..(rx.count - 1) -> (Chunk \X Nat) \cup {None}]
      /\ rx.count = Counts[kind] /\ rx.highest \in Nat /\ rx.first \in BOOLEAN
      /\ rx.first => rx.highest = 0
  <2>1. Shaped(rx) /\ rx.vec \in [0..(rx.count - 1) -> (Chunk \X Nat) \cup {None}]
    BY <1>1, ReceiverShaped DEF Typed
  <2> QED
    BY <1>5, <2>1, ShapedFields DEF Taking, Received
<1>8. /\ m.payload = <<kind, t>> /\ m.byte = t % Wrap /\ t \in Nat /\ t < rx.count
      /\ Follows(Base, t, pkgLosses = 0) /\ Run(p, t, dev.next, dev.gap, pkgLosses = 0)
      /\ Own(p, dev.chunk, dev.next)
  <2>1. Own(inbox, dev.chunk, dev.next) /\ Run(inbox, Base, dev.next, dev.gap, pkgLosses = 0)
    BY <1>5, <1>6 DEF Taking, Coming
  <2>2. IsOwn(m, dev.chunk, dev.next) /\ Own(p, dev.chunk, dev.next)
    BY <1>4, <2>1
  <2>3. Follows(Base, t, pkgLosses = 0) /\ Run(p, t, dev.next, dev.gap, pkgLosses = 0)
    BY <1>4, <2>1
  <2> HIDE DEF t
  <2>4. m.payload = <<kind, t>> /\ m.byte = t % Wrap /\ t \in Nat /\ t < dev.next
    BY <1>6, <2>2 DEF IsOwn, t
  <2>5. t < rx.count
    BY <1>6, <1>7, <2>4
  <2> QED
    BY <2>2, <2>3, <2>4, <2>5
<1> HIDE DEF t
<1> DEFINE b == t % Wrap
           v == m.payload
<1>9. IndexOf(rx, b) = t
  BY <1>7, <1>8, IndexIsNo
<1>10. b \in Nat /\ (rx.first => t = 0 /\ b = 0)
  <2>1. b \in Nat
    BY <1>8, DivMod, WrapAssumption
  <2>2. rx.first => t = 0
    BY <1>8 DEF Follows, Base
  <2>3. 0 % Wrap = 0
    BY WrapAssumption
  <2> QED
    BY <2>1, <2>2, <2>3
<1>11. rx' = ReceivePackage(rx, b, v)
  BY <1>2, <1>8
<1>12. v = <<kind, t>> /\ v # None
  BY <1>6, <1>8, SentinelAssumption
<1> HIDE DEF b, v
<1>13. /\ rx'.count = rx.count /\ ~rx'.first /\ rx'.highest = t
       /\ rx'.vec = [rx.vec EXCEPT ![t] = v]
       /\ rx'.missed_cnt = rx.missed_cnt
       /\ rx'.last_idx = IF rx.first THEN 1 ELSE rx.last_idx + 1
       /\ ~rx'.skipped => ~rx.skipped /\ t = rx'.last_idx - 1
       /\ rx'.last_received <=> rx.last_received \/ t + 1 = rx.count
  <2>1. LET r == ReceivePackage(rx, b, v)
        IN /\ r.count = rx.count
           /\ r.first <=> rx.first /\ b # 0
           /\ r.highest = IF rx.first /\ b = 0 THEN rx.highest ELSE t
           /\ r.vec = IF t < rx.count THEN [rx.vec EXCEPT ![t] = v] ELSE rx.vec
           /\ r.missed_cnt = rx.missed_cnt
           /\ r.last_idx = IF rx.first /\ b = 0 THEN 1 ELSE rx.last_idx + 1
           /\ ~r.skipped => ~rx.skipped /\ t = r.last_idx - 1
           /\ r.last_received <=> rx.last_received \/ t + 1 = rx.count
    BY <1>7, <1>9, <1>10, ReceiveFields
  <2> QED
    BY <1>7, <1>8, <1>10, <1>11, <2>1
<1>14. /\ DOMAIN rx'.vec = DOMAIN rx.vec /\ rx'.vec[t] = v
       /\ \A i \in DOMAIN rx.vec : i # t => rx'.vec[i] = rx.vec[i]
       /\ DOMAIN rx.vec = 0..(rx.count - 1)
  <2>1. rx.count \in Nat /\ t \in 0..(rx.count - 1)
    BY <1>6, <1>7, <1>8
  <2> DEFINE D == 0..(rx.count - 1)
             S == (Chunk \X Nat) \cup {None}
  <2>2. rx.vec \in [D -> S] /\ t \in D
    BY <1>7, <2>1
  <2> HIDE DEF D, S
  <2>3. LET h == [rx.vec EXCEPT ![t] = v]
        IN /\ DOMAIN h = D /\ h[t] = v
           /\ \A i \in D : i # t => h[i] = rx.vec[i]
    BY <2>2, ExceptAt
  <2>4. DOMAIN rx.vec = D
    BY <2>2
  <2> QED
    BY <1>13, <2>3, <2>4 DEF D
<1>15. SlotsAreOwn'
  BY <1>1, <1>2, <1>12, <1>14 DEF SlotsAreOwn
<1>16. Losses' /\ Messages'
  BY <1>1, <1>2, <1>3, <1>4 DEF Losses, Messages, Last
<1>17. Flight'
  BY <1>1, <1>2, <1>3 DEF Flight, Streamed
<1>18. Lacks(p, "START")
  <2>1. All(p, {"OK", "PKG", "ACK_PROC"})
    BY <1>3, <1>5 DEF Taking
  <2> QED
    BY <2>1, LacksAll
<1>19. Conversation'
  BY <1>2, <1>3, <1>5 DEF Taking, Conversation
<1>20. Answered'
  BY <1>2, <1>4, <1>5, <1>6, <1>18 DEF Taking, Answered
<1>21. Coming'
  BY <1>2, <1>8, <1>13 DEF Coming, Base
<1>22. Received'
  <2>1. rx.missed_cnt = 0 /\ rx.count \in Nat
    BY <1>5, <1>6, <1>7 DEF Taking, Received
  <2>2. ASSUME NEW h \in Nat, Filled(rx, h), t = h + 1 PROVE Filled(rx', t)
    <3>1. SUFFICES ASSUME NEW i \in 0..t PROVE rx'.vec[i] # None
      BY DEF Filled
    <3>2. CASE i = t
      BY <1>12, <1>14, <3>2
    <3>3. CASE i # t
      <4>1. i \in 0..h /\ i \in 0..(rx.count - 1)
        BY <1>8, <2>1, <2>2, <3>3
      <4> QED
        BY <1>14, <2>2, <3>3, <4>1 DEF Filled
    <3> QED
      BY <3>2, <3>3
  <2>3. t = 0 => Filled(rx', t)
    BY <1>8, <1>12, <1>14, <2>1 DEF Filled
  <2>4. ~rx'.skipped => rx'.last_idx = t + 1 /\ Filled(rx', t)
    <3>1. SUFFICES ASSUME ~rx'.skipped PROVE rx'.last_idx = t + 1 /\ Filled(rx', t)
      OBVIOUS
    <3>2. CASE rx.first
      BY <1>10, <1>13, <2>3, <3>1, <3>2
    <3>3. CASE ~rx.first
      <4>1. rx.last_idx = rx.highest + 1 /\ Filled(rx, rx.highest)
        BY <1>5, <1>13, <3>1, <3>3 DEF Taking, Received
      <4>2. t = rx.highest + 1 /\ rx'.last_idx = t + 1
        BY <1>7, <1>8, <1>13, <3>1, <3>3, <4>1
      <4> QED
        BY <1>7, <2>2, <4>1, <4>2
    <3> QED
      BY <3>2, <3>3
  <2>5. pkgLosses = 0 => Filled(rx', t)
    <3>1. SUFFICES ASSUME pkgLosses = 0 PROVE Filled(rx', t)
      OBVIOUS
    <3>2. CASE rx.first
      BY <1>10, <2>3, <3>2
    <3>3. CASE ~rx.first
      <4>1. Filled(rx, rx.highest) /\ t = rx.highest + 1
        BY <1>5, <1>8, <3>1, <3>3 DEF Taking, Received, Follows, Base
      <4> QED
        BY <1>7, <2>2, <4>1
    <3> QED
      BY <3>2, <3>3
  <2>6. rx'.last_received => t + 1 = rx.count
    <3>1. SUFFICES ASSUME rx.last_received PROVE t + 1 = rx.count
      BY <1>13
    <3>2. ~rx.first /\ rx.highest + 1 = rx.count
      BY <1>5, <3>1 DEF Taking, Received
    <3>3. rx.highest < t
      BY <1>8, <3>2 DEF Follows, Base
    <3> QED
      BY <1>7, <1>8, <2>1, <3>2, <3>3
  <2>7. dev.phase # "offered"
    BY <1>6
  <2> QED
    BY <1>2, <1>7, <1>8, <1>13, <1>18, <2>1, <2>4, <2>5, <2>6, <2>7 DEF Received, Filled
<1>23. Taking'
  BY <1>2, <1>3, <1>5, <1>19, <1>20, <1>21, <1>22 DEF Taking, Last
<1> QED
  BY <1>15, <1>16, <1>17, <1>23 DEF Rest, Stage

-----------------------------------------------------------------------------
(* The stream has been sent *)

\* A free channel on a timely link has nothing on its way that is answered.
LEMMA FreeAir ==
    ASSUME Typed, Flight, timely, ~ch.cmdTimer, NEW ops, All(ch.air, ops), "OK" \notin ops
    PROVE  ch.air = <<>>
<1>1. ch.air \in Seq(Cmds) /\ All(ch.air, {"OK"})
  BY ChannelFields DEF Typed, Channel, Flight
<1>2. {"OK"} \cap ops = {}
  OBVIOUS
<1> QED
  BY <1>1, <1>2, AllNothing

\* What has been received when the device has sent it all.
LEMMA StreamEnded ==
    ASSUME LinkIsFair, Core, onStartHugeChunkAckProcArrived
    PROVE  LET p == Tail(inbox)
               r == CheckChunk(rx)
           IN /\ dev.phase = "sent" /\ kind = dev.chunk /\ dev.chunk \in Chunk
              /\ Last = "START_OK" /\ ~ch.backlogTimer /\ ~nextTimer
              /\ All(ch.air, {"START_OK"}) /\ All(p, {"OK"})
              /\ ch.cmdTimer => losses # 0 /\ pkgLosses = 0 /\ timely
              /\ timely /\ ~ch.cmdTimer => ch.air = <<>> /\ All(p, Streamed)
              /\ rx.vec \in [0..(rx.count - 1) -> (Chunk \X Nat) \cup {None}]
              /\ rx.missed_cnt = 0 /\ rx.count = Counts[kind] /\ rx.count \in Nat \ {0}
              /\ pkgLosses = 0 => Holes(rx) = {}
              /\ Shaped(r) /\ r.vec = rx.vec /\ r.count = rx.count /\ Holes(r) = Holes(rx)
              /\ r.missed_cnt = 0 <=> Holes(rx) = {}
              /\ r.missed_cnt # 0 => r.missed = Holes(rx)
<1> DEFINE p == Tail(inbox)
           r == CheckChunk(rx)
<1>1. /\ Typed /\ Losses /\ Messages /\ Flight /\ Stage /\ SlotsAreOwn
      /\ ch \in Channel /\ inbox \in Seq(Sound) /\ ch.air \in Seq(Cmds)
  BY ChannelFields DEF Core, Rest, Typed, Channel
<1>2. /\ inbox # <<>> /\ Head(inbox).op = "ACK_PROC" /\ inbox' = p /\ p \in Seq(Sound)
      /\ UNCHANGED <<kind, dev, timely, pkgLosses, losses>>
  BY <1>1, NotifiedTyped DEF onStartHugeChunkAckProcArrived
<1>3. /\ \A ops : All(inbox, ops) => "ACK_PROC" \in ops /\ All(p, ops)
      /\ \A op : Lacks(inbox, op) => Lacks(p, op)
      /\ \A op, ops : After(inbox, op, ops) => After(p, op, ops)
      /\ \A ops : After(inbox, "ACK_PROC", ops) => All(p, ops)
  BY <1>1, <1>2, TailOps
<1>4. /\ \A k : Offers(inbox, k) => Offers(p, k)
      /\ ~Answer(inbox)
      /\ \A a, n, g, exact : Run(inbox, a, n, g, exact) => Run(p, a, n, g, exact)
  BY <1>1, <1>2, TailSays, AnswerHead, RunTail
<1> HIDE DEF p
<1>5. Taking
  BY <1>1, <1>3 DEF Stage, Asking, Repairing, Requesting, Acking
<1>6. /\ dev.phase = "sent" /\ dev.next = Counts[dev.chunk]
      /\ All(ch.air, {"START_OK"}) /\ All(p, {"OK"})
      /\ Last = "START_OK" /\ ~ch.backlogTimer /\ ~nextTimer /\ kind = dev.chunk
  BY <1>3, <1>5 DEF Taking, Conversation
<1>7. Lacks(p, "PKG") /\ Lacks(p, "MISSED") /\ Lacks(p, "START")
  BY <1>6, LacksAll
<1>8. ch.cmdTimer => losses # 0 /\ pkgLosses = 0 /\ timely
  <2>1. losses \in Nat /\ pkgLosses \in Nat
    BY <1>1, DownloadAssumption DEF Typed
  <2> QED
    BY <1>1, <1>4, <1>5, <1>6, <2>1 DEF Taking, Answered, Losses
<1>9. timely /\ ~ch.cmdTimer => ch.air = <<>> /\ All(p, Streamed)
  <2>1. SUFFICES ASSUME timely, ~ch.cmdTimer PROVE ch.air = <<>> /\ All(p, Streamed)
    OBVIOUS
  <2>2. ch.air = <<>>
    BY <1>1, <1>6, <2>1, FreeAir
  <2>3. All(p, Streamed \cup {"MISSED"})
    BY <1>1, <1>3, <2>1 DEF Flight
  <2>4. All(p, Streamed)
    BY <1>7, <2>3, AllBut
  <2> QED
    BY <2>2, <2>4
<1>10. /\ Shaped(rx) /\ rx.vec \in [0..(rx.count - 1) -> (Chunk \X Nat) \cup {None}]
       /\ rx.missed_cnt = 0 /\ rx.count = Counts[kind] /\ rx.count \in Nat \ {0}
       /\ dev.gap \in Nat /\ rx.highest \in Nat
  <2>1. dev \in Devs /\ dev.chunk \in Chunk
    BY <1>1, <1>6 DEF Typed
  <2> QED
    BY <1>1, <1>5, <1>6, <2>1, ReceiverShaped, ShapedFields, DevFields, CountIsPositive
       DEF Typed, Taking, Received
<1>11. ~rx.first /\ rx.highest + 1 + dev.gap = rx.count
  <2>1. Run(inbox, Base, dev.next, dev.gap, pkgLosses = 0)
    BY <1>5, <1>6 DEF Taking, Coming
  <2>2. Ends(Base, dev.next, dev.gap)
    BY <1>4, <1>7, <2>1, RunNone
  <2> QED
    BY <1>6, <1>10, <2>2 DEF Ends, Base
<1>12. rx.highest + 1 = rx.count /\ Filled(rx, rx.highest) => Holes(rx) = {}
  BY <1>10 DEF Filled, Holes
<1>13. pkgLosses = 0 => Holes(rx) = {}
  <2>1. pkgLosses = 0 => dev.gap = 0
    BY <1>1, <1>10 DEF Losses
  <2> QED
    BY <1>5, <1>10, <1>11, <1>12, <2>1 DEF Taking, Received
<1>14. ~(rx.skipped \/ ~rx.last_received) => Holes(rx) = {}
  BY <1>5, <1>11, <1>12 DEF Taking, Received
<1>15. /\ Shaped(r) /\ r.vec = rx.vec /\ r.count = rx.count /\ Holes(r) = Holes(rx)
       /\ r.missed_cnt = 0 <=> Holes(rx) = {}
       /\ r.missed_cnt # 0 => r.missed = Holes(rx)
  BY <1>10, <1>14, CheckFields, CheckOutcome
<1>16. dev.chunk \in Chunk
  BY <1>1, <1>6 DEF Typed
<1> HIDE DEF r
<1> QED
  <2>1. /\ dev.phase = "sent" /\ kind = dev.chunk /\ dev.chunk \in Chunk
        /\ Last = "START_OK" /\ ~ch.backlogTimer /\ ~nextTimer
        /\ All(ch.air, {"START_OK"}) /\ All(p, {"OK"})
        /\ ch.cmdTimer => losses # 0 /\ pkgLosses = 0 /\ timely
        /\ timely /\ ~ch.cmdTimer => ch.air = <<>> /\ All(p, Streamed)
    BY <1>6, <1>8, <1>9, <1>16
  <2>2. /\ rx.vec \in [0..(rx.count - 1) -> (Chunk \X Nat) \cup {None}]
        /\ rx.missed_cnt = 0 /\ rx.count = Counts[kind] /\ rx.count \in Nat \ {0}
        /\ pkgLosses = 0 => Holes(rx) = {}
    BY <1>10, <1>13
  <2> QED
    BY <1>15, <2>1, <2>2 DEF p, r

LEMMA AckProcCore ==
    ASSUME LinkIsFair, Core, onStartHugeChunkAckProcArrived
    PROVE  Rest' /\ rx.missed_cnt = 0
<1> DEFINE p == Tail(inbox)
           r == CheckChunk(rx)
<1>1. /\ Typed /\ Losses /\ Messages /\ Flight /\ Stage /\ SlotsAreOwn
      /\ ch \in Channel /\ inbox \in Seq(Sound) /\ ch.air \in Seq(Cmds)
  BY ChannelFields DEF Core, Rest, Typed, Channel
<1>2. /\ inbox # <<>> /\ Head(inbox).op = "ACK_PROC" /\ inbox' = p /\ p \in Seq(Sound)
      /\ UNCHANGED <<kind, dev, timely, pkgLosses, losses>>
  BY <1>1, NotifiedTyped DEF onStartHugeChunkAckProcArrived
<1>3. /\ \A ops : All(inbox, ops) => "ACK_PROC" \in ops /\ All(p, ops)
      /\ \A op : Lacks(inbox, op) => Lacks(p, op)
      /\ \A op, ops : After(inbox, op, ops) => After(p, op, ops)
      /\ \A ops : After(inbox, "ACK_PROC", ops) => All(p, ops)
  BY <1>1, <1>2, TailOps
<1>4. \A k : Offers(inbox, k) => Offers(p, k)
  BY <1>1, <1>2, TailSays
<1>5. /\ dev.phase = "sent" /\ kind = dev.chunk
      /\ Last = "START_OK" /\ ~ch.backlogTimer /\ ~nextTimer
      /\ All(ch.air, {"START_OK"}) /\ All(p, {"OK"})
  BY StreamEnded
<1>6. ch.cmdTimer => losses # 0 /\ pkgLosses = 0 /\ timely
  BY StreamEnded
<1>7. timely /\ ~ch.cmdTimer => ch.air = <<>> /\ All(p, Streamed)
  BY StreamEnded
<1>8. /\ rx.missed_cnt = 0 /\ rx.count = Counts[kind] /\ rx.count \in Nat \ {0}
      /\ rx.vec \in [0..(rx.count - 1) -> (Chunk \X Nat) \cup {None}]
      /\ pkgLosses = 0 => Holes(rx) = {}
  BY StreamEnded
<1>9. /\ Shaped(r) /\ r.vec = rx.vec /\ r.count = rx.count /\ Holes(r) = Holes(rx)
      /\ r.missed_cnt = 0 <=> Holes(rx) = {}
      /\ r.missed_cnt # 0 => r.missed = Holes(rx)
  BY StreamEnded
<1> HIDE DEF p
<1>10. Lacks(p, "PKG") /\ Lacks(p, "MISSED") /\ Lacks(p, "START")
  BY <1>5, LacksAll
<1>11. CASE r.missed_cnt = 0
  <2> DEFINE c == Command("ACK_OK")
             o == Append(ch.air, c)
  <2>1. /\ ch' = bleUartSendCmdWithResp(ch, c) /\ rx' = r /\ nextTimer'
    BY <1>11 DEF onStartHugeChunkAckProcArrived, hugeChunkDownloadFinished, sendAckOkHugeChunk
  <2>2. c \in Cmds /\ c.op = "ACK_OK"
    BY CommandType
  <2> HIDE DEF c
  <2>3. /\ ch.cmdTimer => /\ ch'.last_cmd = ch.last_cmd /\ ch'.air = ch.air
                          /\ ch'.cmdTimer /\ ch'.backlogTimer
                          /\ ch'.backlog # <<>> /\ Newest(ch'.backlog) = c
        /\ ~ch.cmdTimer => /\ ch'.last_cmd = c /\ ch'.air = o
                           /\ ch'.cmdTimer /\ ~ch'.backlogTimer
    BY <1>1, <1>5, <2>1, <2>2, SendFree, SendBusy
  <2>4. /\ \A ops : All(ch.air, ops) /\ c.op \in ops => All(o, ops)
        /\ \A op : Lacks(ch.air, op) /\ c.op # op => Lacks(o, op)
    BY <1>1, <2>2, AppendOps
  <2> HIDE DEF o
  <2>5. Losses'
    BY <1>1, <1>2, <1>5, <2>2, <2>3 DEF Losses, Last
  <2>6. Messages'
    BY <1>1, <1>2, <1>3, <1>4, <2>2, <2>3, <2>4 DEF Messages
  <2>7. Flight'
    <3>1. CASE ch.cmdTimer
      BY <1>1, <1>2, <1>3, <1>6, <2>3, <3>1 DEF Flight
    <3>2. CASE ~ch.cmdTimer
      BY <1>1, <1>2, <1>7, <2>2, <2>3, <3>2, SendFlight DEF o
    <3> QED
      BY <3>1, <3>2
  <2>8. SlotsAreOwn'
    BY <1>1, <1>2, <1>9, <2>1 DEF SlotsAreOwn
  <2>9. All(ch.air, {"START_OK", "ACK_OK"})
    BY <1>5, AllWeaker
  <2>10. Acking'
    <3>1. CASE ch.cmdTimer
      BY <1>2, <1>5, <1>6, <2>1, <2>2, <2>3, <2>9, <3>1 DEF Acking, Last, Waits
    <3>2. CASE ~ch.cmdTimer
      BY <1>2, <1>5, <2>1, <2>2, <2>3, <2>4, <2>9, <3>2 DEF Acking, Last
    <3> QED
      BY <3>1, <3>2
  <2> QED
    BY <1>8, <2>5, <2>6, <2>7, <2>8, <2>10 DEF Rest, Stage
<1>12. CASE r.missed_cnt # 0
  <2> DEFINE l == Least(r.missed)
             c == MissingCmd(l)
             o == Append(ch.air, c)
  <2>1. /\ ch' = bleUartSendCmdWithResp(ch, c) /\ rx' = NextMissing(r)
        /\ UNCHANGED nextTimer
    BY <1>12 DEF onStartHugeChunkAckProcArrived, sendRequestMissingPackage
  <2>2. /\ r.missed = Holes(rx) /\ r.missed # {}
    BY <1>9, <1>12
  <2> HIDE DEF r
  <2>3. /\ l \in Holes(rx) /\ l \in Nat
        /\ rx'.missed_in_request = l /\ rx'.missed = Holes(rx) \ {l}
        /\ rx'.vec = rx.vec /\ rx'.count = rx.count
    BY <1>9, <2>1, <2>2, NextFields
  <2> HIDE DEF l
  <2>4. c \in Cmds /\ c.op = "MISSING"
    BY <2>3, CommandType
  <2>5. /\ pkgLosses > 0 /\ timely /\ losses = 0 /\ ~ch.cmdTimer
    <3>1. pkgLosses \in Nat /\ pkgLosses # 0
      BY <1>1, <1>8, <1>9, <1>12, DownloadAssumption DEF Typed
    <3> QED
      BY <1>1, <1>6, <3>1 DEF Losses
  <2>6. ch.air = <<>> /\ All(p, Streamed)
    BY <1>7, <2>5
  <2> HIDE DEF c
  <2>7. /\ ch'.last_cmd = c /\ ch'.air = o /\ ch'.cmdTimer /\ ~ch'.backlogTimer
    BY <1>1, <1>5, <2>1, <2>4, <2>5, SendFree
  <2>8. /\ \A op : Lacks(ch.air, op) /\ c.op # op => Lacks(o, op)
        /\ Same(o, c)
    BY <1>1, <2>4, <2>6, AppendOps, AppendSays, NothingSays
  <2> HIDE DEF o
  <2>9. Losses'
    BY <1>1, <1>2, <2>5 DEF Losses
  <2>10. Messages'
    BY <1>1, <1>2, <1>3, <1>4, <2>4, <2>7, <2>8 DEF Messages
  <2>11. Flight'
    BY <1>1, <1>2, <2>4, <2>6, <2>7, SendFlight DEF o
  <2>12. SlotsAreOwn'
    BY <1>1, <1>2, <2>3 DEF SlotsAreOwn
  <2>13. Requesting'
    <3>1. All(p, {"OK", "MISSED"})
      BY <1>5, AllWeaker
    <3> QED
      BY <1>2, <2>3, <2>7, <2>8, <3>1 DEF Requesting, c
  <2>14. Holes(rx') = Holes(rx) /\ Supplies(p, <<dev.chunk, l>>)
    BY <1>10, <2>3, NothingSays DEF Holes
  <2>15. Repairing'
    BY <1>2, <1>5, <1>8, <2>1, <2>3, <2>4, <2>5, <2>7, <2>13, <2>14 DEF Repairing, Last
  <2> QED
    BY <1>8, <2>9, <2>10, <2>11, <2>12, <2>15 DEF Rest, Stage
<1> QED
  BY <1>11, <1>12

-----------------------------------------------------------------------------
(* A missing package arrives *)

\* What has been repaired when a missing package arrives.
LEMMA Repaired ==
    ASSUME LinkIsFair, Core, onReplyMissingPackageArrived
    PROVE  LET p == Tail(inbox)
               r == StoreMissing(rx, Head(inbox).payload)
               H == Holes(rx) \ {rx.missed_in_request}
           IN /\ dev.phase = "sent" /\ kind = dev.chunk /\ dev.chunk \in Chunk
              /\ Last = "MISSING" /\ ~ch.backlogTimer /\ ~nextTimer /\ pkgLosses > 0
              /\ timely /\ losses = 0 /\ ch.air = <<>> /\ All(p, {"OK"})
              /\ ~ch.cmdTimer => All(p, Streamed)
              /\ Shaped(r) /\ r.count = Counts[kind] /\ DOMAIN r.vec = 0..(r.count - 1)
              /\ r.vec \in [DOMAIN r.vec -> (Chunk \X Nat) \cup {None}]
              /\ r.missed = H /\ Holes(r) = H
              /\ \A t \in DOMAIN r.vec : r.vec[t] \in {None, <<kind, t>>}
<1> DEFINE p == Tail(inbox)
           v == Head(inbox).payload
           r == StoreMissing(rx, v)
           i == rx.missed_in_request
           H == Holes(rx) \ {i}
<1>1. /\ Typed /\ Losses /\ Messages /\ Flight /\ Stage /\ SlotsAreOwn
      /\ ch \in Channel /\ inbox \in Seq(Sound) /\ ch.air \in Seq(Cmds)
  BY ChannelFields DEF Core, Rest, Typed, Channel
<1>2. /\ inbox # <<>> /\ Head(inbox).op = "MISSED" /\ inbox' = p /\ p \in Seq(Sound)
      /\ UNCHANGED <<kind, dev, timely, pkgLosses, losses>>
  BY <1>1, NotifiedTyped DEF onReplyMissingPackageArrived
<1>3. /\ \A ops : All(inbox, ops) <=> "MISSED" \in ops /\ All(p, ops)
      /\ \A op : Lacks(inbox, op) => Lacks(p, op)
      /\ \A op, ops : After(inbox, op, ops) => After(p, op, ops)
      /\ \A ops : After(inbox, "MISSED", ops) => All(p, ops)
  BY <1>1, <1>2, TailOps
<1>4. /\ \A k : Offers(inbox, k) => Offers(p, k)
      /\ \A m : Supplies(inbox, m) => v = m
  BY <1>1, <1>2, TailSays
<1> HIDE DEF p, v
<1>5. Repairing
  BY <1>1, <1>3 DEF Stage, Asking, Taking, Conversation, Acking
<1>6. /\ Last = "MISSING" /\ ~nextTimer /\ pkgLosses > 0 /\ dev.phase = "sent"
      /\ kind = dev.chunk /\ kind \in Chunk /\ rx.count = Counts[kind]
      /\ i \in Holes(rx) /\ rx.missed = H
      /\ ~ch.backlogTimer /\ All(p, {"OK", "MISSED"})
      /\ v = <<kind, i>>
  BY <1>1, <1>3, <1>4, <1>5 DEF Repairing, Requesting, Typed
<1>7. timely /\ losses = 0 /\ ch.air = <<>>
  BY <1>1, <1>3, <1>6 DEF Losses, Flight, Streamed
<1>8. All(p, {"OK"})
  <2>1. All(p, Streamed \cup {"OK"})
    BY <1>1, <1>3, <1>7 DEF Flight
  <2>2. Lacks(p, "MISSED")
    BY <2>1, LacksAll DEF Streamed
  <2> QED
    BY <1>6, <2>2, AllBut
<1>9. ~ch.cmdTimer => All(p, Streamed)
  <2>1. SUFFICES ASSUME ~ch.cmdTimer PROVE All(p, Streamed)
    OBVIOUS
  <2>2. All(p, Streamed \cup {"MISSED"}) /\ Lacks(p, "MISSED")
    BY <1>1, <1>3, <1>7, <1>8, <2>1, LacksAll DEF Flight
  <2> QED
    BY <2>2, AllBut
<1>11. /\ Shaped(rx) /\ rx.vec \in [0..(rx.count - 1) -> (Chunk \X Nat) \cup {None}]
       /\ rx.count \in Nat /\ i \in 0..(rx.count - 1) /\ i \in Nat
  BY <1>1, <1>6, ReceiverShaped, ShapedFields DEF Typed, Holes
<1>12. v # None
  BY <1>6, <1>11, SentinelAssumption
<1>13. /\ Shaped(r) /\ r.vec = [rx.vec EXCEPT ![i] = v] /\ r.count = rx.count
       /\ r.missed = H /\ r.missed_in_request = i
  BY <1>6, <1>11, StoreFields
<1>14. /\ DOMAIN r.vec = 0..(rx.count - 1) /\ r.vec[i] = v
       /\ \A t \in 0..(rx.count - 1) : t # i => r.vec[t] = rx.vec[t]
       /\ DOMAIN rx.vec = 0..(rx.count - 1)
  <2> DEFINE D == 0..(rx.count - 1)
             S == (Chunk \X Nat) \cup {None}
  <2>1. rx.vec \in [D -> S] /\ i \in D
    BY <1>11
  <2> HIDE DEF D, S, i, r
  <2>2. LET h == [rx.vec EXCEPT ![i] = v]
        IN /\ DOMAIN h = D /\ h[i] = v
           /\ \A t \in D : t # i => h[t] = rx.vec[t]
    BY <2>1, ExceptAt
  <2>3. DOMAIN rx.vec = D
    BY <2>1
  <2> QED
    BY <1>13, <2>2, <2>3 DEF D
<1> HIDE DEF r
<1>15. Holes(r) = H
  BY <1>12, <1>13, <1>14 DEF Holes
<1>16. \A t \in DOMAIN r.vec : r.vec[t] \in {None, <<kind, t>>}
  BY <1>1, <1>6, <1>14 DEF SlotsAreOwn
<1>17. r.vec \in [DOMAIN r.vec -> (Chunk \X Nat) \cup {None}]
  <2>1. v \in (Chunk \X Nat) \cup {None}
    BY <1>6, <1>11
  <2> QED
    BY <1>11, <1>13, <2>1
<1> HIDE DEF H
<1>18. /\ r.count = Counts[kind] /\ DOMAIN r.vec = 0..(r.count - 1)
  BY <1>6, <1>13, <1>14
<1> QED
  BY <1>6, <1>7, <1>8, <1>9, <1>13, <1>15, <1>16, <1>17, <1>18 DEF p, r, v, H

LEMMA MissedCore ==
    ASSUME LinkIsFair, Core, onReplyMissingPackageArrived
    PROVE  Rest'
<1> DEFINE p == Tail(inbox)
           v == Head(inbox).payload
           r == StoreMissing(rx, v)
           i == rx.missed_in_request
           H == Holes(rx) \ {i}
<1>1. /\ Typed /\ Losses /\ Messages /\ Flight /\ Stage /\ SlotsAreOwn
      /\ ch \in Channel /\ inbox \in Seq(Sound) /\ ch.air \in Seq(Cmds)
  BY ChannelFields DEF Core, Rest, Typed, Channel
<1>2. /\ inbox # <<>> /\ Head(inbox).op = "MISSED" /\ inbox' = p /\ p \in Seq(Sound)
      /\ UNCHANGED <<kind, dev, timely, pkgLosses, losses>>
  BY <1>1, NotifiedTyped DEF onReplyMissingPackageArrived
<1>3. /\ \A ops : All(inbox, ops) <=> "MISSED" \in ops /\ All(p, ops)
      /\ \A op : Lacks(inbox, op) => Lacks(p, op)
      /\ \A op, ops : After(inbox, op, ops) => After(p, op, ops)
  BY <1>1, <1>2, TailOps
<1>4. \A k : Offers(inbox, k) => Offers(p, k)
  BY <1>1, <1>2, TailSays
<1>5. /\ Last = "MISSING" /\ ~nextTimer /\ pkgLosses > 0 /\ dev.phase = "sent"
      /\ kind = dev.chunk /\ kind \in Chunk /\ ~ch.backlogTimer
  BY Repaired
<1>6. timely /\ losses = 0 /\ ch.air = <<>>
  BY Repaired
<1>7. All(p, {"OK"}) /\ (~ch.cmdTimer => All(p, Streamed))
  BY Repaired
<1>8. Shaped(r) /\ r.count = Counts[kind] /\ r.missed = H /\ Holes(r) = H
  BY Repaired
<1>9. \A t \in DOMAIN r.vec : r.vec[t] \in {None, <<kind, t>>}
  BY Repaired
<1> HIDE DEF p, v, r
<1>10. Lacks(p, "START") /\ Lacks(p, "MISSED")
  BY <1>7, LacksAll
<1>11. CASE r.missed # {}
  <2> DEFINE l == Least(r.missed)
             c == MissingCmd(l)
             o == Append(ch.air, c)
  <2>1. /\ ch' = bleUartSendCmdWithResp(ch, c) /\ rx' = NextMissing(r)
        /\ UNCHANGED nextTimer
    BY <1>11 DEF onReplyMissingPackageArrived, sendRequestMissingPackage, r, v
  <2>2. /\ l \in H /\ l \in Nat
        /\ rx'.missed_in_request = l /\ rx'.missed = H \ {l}
        /\ rx'.vec = r.vec /\ rx'.count = r.count
    BY <1>8, <1>11, <2>1, NextFields
  <2> HIDE DEF l, H
  <2>3. c \in Cmds /\ c.op = "MISSING"
    BY <2>2, CommandType
  <2> HIDE DEF c
  <2>4. /\ ch.cmdTimer => /\ ch'.last_cmd = ch.last_cmd /\ ch'.air = ch.air
                          /\ ch'.cmdTimer /\ ch'.backlogTimer
                          /\ ch'.backlog # <<>> /\ Newest(ch'.backlog) = c
        /\ ~ch.cmdTimer => /\ ch'.last_cmd = c /\ ch'.air = o
                           /\ ch'.cmdTimer /\ ~ch'.backlogTimer
    BY <1>1, <1>5, <2>1, <2>3, SendFree, SendBusy
  <2>5. /\ \A op : Lacks(ch.air, op) /\ c.op # op => Lacks(o, op)
        /\ Same(o, c)
    BY <1>1, <1>6, <2>3, AppendOps, AppendSays, NothingSays
  <2> HIDE DEF o
  <2>6. Losses'
    BY <1>1, <1>2, <1>5 DEF Losses
  <2>7. Messages'
    BY <1>1, <1>2, <1>3, <1>4, <2>3, <2>4, <2>5 DEF Messages
  <2>8. Flight'
    <3>1. CASE ch.cmdTimer
      BY <1>1, <1>2, <1>3, <1>6, <2>4, <3>1 DEF Flight
    <3>2. CASE ~ch.cmdTimer
      BY <1>1, <1>2, <1>6, <1>7, <2>3, <2>4, <3>2, SendFlight DEF o
    <3> QED
      BY <3>1, <3>2
  <2>9. SlotsAreOwn'
    BY <1>2, <1>9, <2>2 DEF SlotsAreOwn
  <2>10. Requesting'
    <3>1. CASE ch.cmdTimer
      BY <1>2, <1>6, <1>7, <2>2, <2>3, <2>4, <3>1 DEF Requesting, Waits, c
    <3>2. CASE ~ch.cmdTimer
      <4>1. All(p, {"OK", "MISSED"})
        BY <1>7, AllWeaker
      <4> QED
        BY <1>2, <1>5, <2>2, <2>4, <2>5, <3>2, <4>1 DEF Requesting, c
    <3> QED
      BY <3>1, <3>2
  <2>11. Holes(rx') = H /\ Supplies(p, <<dev.chunk, l>>)
    BY <1>10, <1>8, <2>2, NothingSays DEF Holes
  <2>12. Repairing'
    BY <1>2, <1>5, <1>8, <2>1, <2>2, <2>3, <2>4, <2>10, <2>11 DEF Repairing, Last
  <2> QED
    BY <2>6, <2>7, <2>8, <2>9, <2>12 DEF Rest, Stage
<1>12. CASE r.missed = {}
  <2> DEFINE c == Command("ACK_OK")
             y == bleUartSendCmdWithResp(ch, c)
             o == Append(ch.air, c)
  <2>1. /\ ch' = bleUartSendCmdWithResp(y, c) /\ rx' = r /\ nextTimer'
    BY <1>12 DEF onReplyMissingPackageArrived, hugeChunkDownloadFinished, sendAckOkHugeChunk,
                 r, v
  <2>2. c \in Cmds /\ c.op = "ACK_OK"
    BY CommandType
  <2> HIDE DEF c
  <2>3. /\ y \in Channel /\ y.cmdTimer
        /\ ch.cmdTimer => y.last_cmd = ch.last_cmd /\ y.air = ch.air
        /\ ~ch.cmdTimer => y.last_cmd = c /\ y.air = o
    BY <1>1, <2>2, SendFree, SendBusy
  <2> HIDE DEF y
  <2>4. /\ ch'.last_cmd = y.last_cmd /\ ch'.air = y.air
        /\ ch'.cmdTimer /\ ch'.backlogTimer
        /\ ch'.backlog # <<>> /\ Newest(ch'.backlog) = c
    BY <2>1, <2>2, <2>3, SendBusy
  <2>5. /\ \A ops : All(ch.air, ops) /\ c.op \in ops => All(o, ops)
        /\ \A op : Lacks(ch.air, op) /\ c.op # op => Lacks(o, op)
    BY <1>1, <2>2, AppendOps
  <2> HIDE DEF o
  <2>6. Losses'
    BY <1>1, <1>2, <1>5 DEF Losses
  <2>7. Messages'
    BY <1>1, <1>2, <1>3, <1>4, <2>2, <2>3, <2>4, <2>5 DEF Messages
  <2>8. Flight'
    <3>1. CASE ch.cmdTimer
      BY <1>1, <1>2, <1>3, <1>6, <2>3, <2>4, <3>1 DEF Flight
    <3>2. CASE ~ch.cmdTimer
      BY <1>1, <1>2, <1>6, <1>7, <2>2, <2>3, <2>4, <3>2, SendFlight DEF o
    <3> QED
      BY <3>1, <3>2
  <2>9. SlotsAreOwn'
    BY <1>2, <1>9, <2>1 DEF SlotsAreOwn
  <2>10. All(ch.air, {"START_OK", "ACK_OK"})
    BY <1>6, EmptyAll
  <2>11. Acking'
    BY <1>2, <1>5, <1>6, <1>7, <2>1, <2>2, <2>3, <2>4, <2>5, <2>10 DEF Acking, Last, Waits
  <2> QED
    BY <2>6, <2>7, <2>8, <2>9, <2>11 DEF Rest, Stage
<1> QED
  BY <1>11, <1>12

-----------------------------------------------------------------------------
(* There are no more chunks *)

LEMMA NoChunkCore ==
    ASSUME LinkIsFair, Core, onNoChunkAvailableArrived
    PROVE  Rest'
<1> DEFINE p == Tail(inbox)
           c == Command("OK")
           o == Append(ch.air, c)
<1>1. /\ Typed /\ Losses /\ Messages /\ Flight /\ Stage /\ SlotsAreOwn
      /\ ch \in Channel /\ inbox \in Seq(Sound) /\ ch.air \in Seq(Cmds)
  BY ChannelFields DEF Core, Rest, Typed, Channel
<1>2. /\ inbox # <<>> /\ Head(inbox).op = "NO_CHUNK" /\ inbox' = p /\ p \in Seq(Sound)
      /\ UNCHANGED <<rx, kind, nextTimer, dev, timely, pkgLosses, losses>>
      /\ ch' = [StopCmdTimer(ch) EXCEPT !.air = Append(@, c)]
  BY <1>1, NotifiedTyped DEF onNoChunkAvailableArrived
<1>3. /\ ch'.last_cmd = ch.last_cmd /\ ~ch'.cmdTimer /\ ch'.air = o
      /\ ch'.backlogTimer <=> ch.backlogTimer
  BY <1>1, <1>2, NoChunkFields
<1>4. c \in Cmds /\ c.op = "OK"
  BY CommandType
<1> HIDE DEF c
<1>5. /\ \A ops : All(inbox, ops) => "NO_CHUNK" \in ops /\ All(p, ops)
      /\ \A op : Lacks(inbox, op) => Lacks(p, op)
      /\ \A op, ops : After(inbox, op, ops) => After(p, op, ops)
      /\ \A ops : After(inbox, "NO_CHUNK", ops) => All(p, ops)
      /\ ~Lacks(inbox, "NO_CHUNK")
      /\ \A k : Offers(inbox, k) => Offers(p, k)
  BY <1>1, <1>2, TailOps, TailSays
<1>6. /\ \A ops : All(ch.air, ops) /\ c.op \in ops => All(o, ops)
      /\ \A op, ops : After(ch.air, op, ops) /\ c.op \in ops => After(o, op, ops)
      /\ o # <<>>
  BY <1>1, <1>4, AppendOps, Appended
<1>a. ch.air = <<>> => Len(o) = 1
  BY <1>1, <1>4, SentAlone
<1> HIDE DEF p, o
<1>7. /\ Asking /\ dev.chunk \notin Chunk
  BY <1>1, <1>5 DEF Messages, Stage, Taking, Conversation, Repairing, Requesting, Acking
<1>8. dev.phase = "idle"
  BY <1>1, <1>7 DEF Typed
<1>9. Losses' /\ Messages'
  BY <1>1, <1>2, <1>3, <1>5, <1>7 DEF Losses, Messages, Last
<1>10. Flight'
  <2>1. SUFFICES ASSUME timely PROVE Flight'
    BY <1>2 DEF Flight
  <2>2. ch.air = <<>> /\ All(p, Streamed)
    BY <1>1, <1>5, <2>1 DEF Flight, Streamed
  <2>3. All(o, {"OK"}) /\ All(p, Streamed \cup {"MISSED"})
    BY <1>4, <1>6, <2>2, EmptyAll, AllWeaker
  <2>4. Len(o) <= 1
    <3>1. ch.air = <<>>
      BY <2>2
    <3>2. Len(o) = 1
      BY <1>a, <3>1
    <3> QED
      BY <3>2
  <2>5. \A op, ops : After(inbox, op, ops) => After(p, op, ops)
    BY <1>5
  <2> QED
    BY <1>1, <1>2, <1>3, <2>1, <2>2, <2>3, <2>4, <2>5 DEF Flight
<1>11. SlotsAreOwn'
  BY <1>1, <1>2 DEF SlotsAreOwn
<1>12. Asking'
  BY <1>2, <1>3, <1>4, <1>5, <1>6, <1>7, <1>8 DEF Asking, Last
<1> QED
  BY <1>9, <1>10, <1>11, <1>12 DEF Rest, Stage

-----------------------------------------------------------------------------
(* The device hears a command *)

LEMMA JoinOne ==
    ASSUME NEW X, NEW q \in Seq(X), NEW e \in X
    PROVE  q \o <<e>> = Append(q, e)
OBVIOUS

LEMMA JoinNothing ==
    ASSUME NEW X, NEW q \in Seq(X)
    PROVE  q \o <<>> = q
OBVIOUS

LEMMA JoinTwo ==
    ASSUME NEW X, NEW a \in X, NEW b \in X
    PROVE  /\ <<>> \o <<a, b>> = Append(Append(<<>>, a), b)
           /\ Append(<<>>, a) \in Seq(X)
OBVIOUS

LEMMA NothingFollows ==
    ASSUME NEW X, NEW q \in Seq(X), q # <<>>, Len(q) <= 1
    PROVE  Tail(q) = <<>>
OBVIOUS

\* What hearing a command means for the central and the link.
LEMMA Heard ==
    ASSUME Core, DeviceHears
    PROVE  /\ ch.air # <<>> /\ Head(ch.air) \in Cmds
           /\ ch'.last_cmd = ch.last_cmd
           /\ ch'.cmdTimer <=> ch.cmdTimer
           /\ ch'.air = Tail(ch.air) /\ ch'.air \in Seq(Cmds) /\ ch'.backlog = ch.backlog
           /\ ch'.backlogTimer <=> ch.backlogTimer
           /\ UNCHANGED <<rx, kind, nextTimer, timely, pkgLosses, losses>>
           /\ timely => ch'.air = <<>> /\ All(inbox, Streamed)
           /\ timely => (ch.cmdTimer <=> Head(ch.air).op # "OK")
<1>1. /\ ch \in Channel /\ ch.air \in Seq(Cmds) /\ Typed /\ Flight
  BY ChannelFields DEF Core, Rest, Typed, Channel
<1>2. /\ ch.air # <<>> /\ ch' = [ch EXCEPT !.air = Tail(@)]
      /\ UNCHANGED <<rx, kind, nextTimer, timely, pkgLosses, losses>>
  BY DEF DeviceHears, budget
<1>3. /\ ch'.last_cmd = ch.last_cmd
      /\ ch'.cmdTimer <=> ch.cmdTimer
      /\ ch'.air = Tail(ch.air) /\ ch'.backlog = ch.backlog
      /\ ch'.backlogTimer <=> ch.backlogTimer
  BY <1>1, <1>2, HeardFields
<1>4. /\ Head(ch.air) \in Cmds /\ Tail(ch.air) \in Seq(Cmds)
      /\ \A ops : All(ch.air, ops) => Head(ch.air).op \in ops
      /\ \A op : Lacks(ch.air, op) => Head(ch.air).op # op
  BY <1>1, <1>2, TailAt, TailOps
<1>5. ASSUME timely PROVE ch'.air = <<>> /\ All(inbox, Streamed)
  <2>1. Len(ch.air) <= 1 /\ All(inbox, Streamed)
    BY <1>1, <1>2, <1>5 DEF Flight
  <2>2. Tail(ch.air) = <<>>
    BY <1>1, <1>2, <2>1, NothingFollows
  <2> QED
    BY <1>3, <2>1, <2>2
<1>6. ASSUME timely PROVE ch.cmdTimer <=> Head(ch.air).op # "OK"
  BY <1>1, <1>4, <1>6 DEF Flight
<1> QED
  BY <1>2, <1>3, <1>4, <1>5, <1>6

\* One answer takes the place of the command.
LEMMA AnswerFlight ==
    ASSUME Core, DeviceHears, Head(ch.air).op # "OK",
           NEW m \in Sound, m.op \in {"OK", "START", "NO_CHUNK"},
           inbox' = Append(inbox, m)
    PROVE  Flight'
<1>1. SUFFICES ASSUME timely' PROVE Flight'
  BY DEF Flight
<1>2. /\ timely /\ ch'.cmdTimer /\ ch'.air = <<>> /\ All(inbox, Streamed)
      /\ UNCHANGED losses
  BY <1>1, Heard
<1>3. inbox \in Seq(Sound)
  BY DEF Core, Typed
<1>4. /\ Lacks(inbox, "OK") /\ Lacks(inbox, "START") /\ Lacks(inbox, "NO_CHUNK")
      /\ Lacks(inbox, "MISSED")
  BY <1>2 DEF All, Lacks, Streamed
<1>5. /\ \A op, ops : Lacks(inbox, op) => After(inbox', op, ops)
      /\ ~All(inbox', Streamed \cup {"MISSED"})
  BY <1>3, AppendOps DEF Streamed
<1>6. Len(ch'.air) <= 1
  BY <1>2
<1>7. Lacks(ch'.air, "OK")
  BY <1>2, EmptyAll
<1>8. /\ After(inbox', "OK", Streamed \cup {"MISSED"})
      /\ After(inbox', "START", Streamed)
      /\ After(inbox', "NO_CHUNK", Streamed)
      /\ After(inbox', "MISSED", Streamed \cup {"OK"})
  BY <1>4, <1>5
<1> QED
  BY <1>2, <1>5, <1>6, <1>7, <1>8 DEF Flight

LEMMA HearsOk ==
    ASSUME LinkIsFair, Core, DeviceHears, Head(ch.air).op = "OK"
    PROVE  Rest'
<1> DEFINE a == Tail(ch.air)
<1>1. /\ Typed /\ Losses /\ Messages /\ Flight /\ Stage /\ SlotsAreOwn
      /\ ch \in Channel /\ inbox \in Seq(Sound) /\ ch.air \in Seq(Cmds)
  BY ChannelFields DEF Core, Rest, Typed, Channel
<1>2. /\ ch.air # <<>> /\ ch'.last_cmd = ch.last_cmd
      /\ ch'.cmdTimer <=> ch.cmdTimer
      /\ ch'.air = a
      /\ ch'.backlogTimer <=> ch.backlogTimer
      /\ UNCHANGED <<rx, kind, nextTimer, timely, pkgLosses, losses>>
      /\ timely => a = <<>> /\ All(inbox, Streamed) /\ ~ch.cmdTimer
  BY Heard
<1>3. inbox' = inbox /\ dev' = dev
  BY <1>1, JoinNothing DEF DeviceHears, Answers
<1>4. /\ \A ops : All(ch.air, ops) => "OK" \in ops /\ All(a, ops)
      /\ \A op : Lacks(ch.air, op) => op # "OK" /\ Lacks(a, op)
      /\ \A op, ops : After(ch.air, op, ops) => After(a, op, ops)
  BY <1>1, <1>2, TailOps
<1>5. \A c : Same(ch.air, c) => c.op = "OK"
  BY <1>1, <1>2, TailSays
<1> HIDE DEF a
<1>6. Asking
  <2>1. ~Taking
    BY <1>4 DEF Taking, Conversation
  <2>2. ~Repairing
    BY <1>2, <1>5 DEF Repairing, Requesting, MissingCmd
  <2> QED
    BY <1>1, <1>4, <2>1, <2>2 DEF Stage, Acking
<1>7. Losses' /\ SlotsAreOwn'
  BY <1>1, <1>2, <1>3 DEF Losses, SlotsAreOwn, Last
<1>8. Messages'
  BY <1>1, <1>2, <1>3, <1>4 DEF Messages
<1>9. Flight'
  <2>1. SUFFICES ASSUME timely PROVE Flight'
    BY <1>2 DEF Flight
  <2>2. Len(a) <= 1 /\ All(a, {"OK"}) /\ a = <<>> /\ ~ch.cmdTimer
    BY <1>2, <2>1, EmptyAll
  <2> QED
    BY <1>1, <1>2, <1>3, <2>1, <2>2 DEF Flight
<1>10. Asking'
  BY <1>2, <1>3, <1>4, <1>6 DEF Asking, Last
<1> QED
  BY <1>7, <1>8, <1>9, <1>10 DEF Rest, Stage

LEMMA HearsRequest ==
    ASSUME LinkIsFair, Core, DeviceHears, Head(ch.air).op = "REQUEST"
    PROVE  Rest'
<1> DEFINE a == Tail(ch.air)
           m == Offer
           q == Append(inbox, m)
<1>1. /\ Typed /\ Losses /\ Messages /\ Flight /\ Stage /\ SlotsAreOwn
      /\ ch \in Channel /\ inbox \in Seq(Sound) /\ ch.air \in Seq(Cmds)
      /\ dev \in Devs
  BY ChannelFields DEF Core, Rest, Typed, Channel
<1>2. /\ ch.air # <<>> /\ ch'.last_cmd = ch.last_cmd
      /\ ch'.cmdTimer <=> ch.cmdTimer
      /\ ch'.air = a
      /\ ch'.backlogTimer <=> ch.backlogTimer
      /\ UNCHANGED <<rx, kind, nextTimer, timely, pkgLosses, losses>>
  BY Heard
<1>3. /\ m \in Sound
      /\ dev.chunk \in Chunk => m.op = "START" /\ m.chunk = dev.chunk
      /\ dev.chunk \notin Chunk => m.op = "NO_CHUNK"
  BY MessageSound DEF Offer
<1> HIDE DEF m
<1>4. /\ inbox' = q
      /\ dev' = IF dev.chunk \in Chunk THEN [dev EXCEPT !.phase = "offered"] ELSE dev
  BY <1>1, <1>3, JoinOne DEF DeviceHears, Answers, m
<1>5. /\ \A ops : All(ch.air, ops) => "REQUEST" \in ops /\ All(a, ops)
      /\ \A op : Lacks(ch.air, op) => Lacks(a, op)
      /\ \A op, ops : After(ch.air, op, ops) => After(a, op, ops)
      /\ \A ops : After(ch.air, "REQUEST", ops) => All(a, ops)
  BY <1>1, <1>2, TailOps
<1>6. \A c : Same(ch.air, c) => c.op = "REQUEST"
  BY <1>1, <1>2, TailSays
<1>7. /\ \A ops : All(inbox, ops) /\ m.op \in ops => All(q, ops)
      /\ \A op : Lacks(inbox, op) /\ m.op # op => Lacks(q, op)
      /\ \A op, ops : Lacks(inbox, op) => After(q, op, ops)
      /\ \A k : Offers(inbox, k) /\ (m.op = "START" => m.chunk = k) => Offers(q, k)
  BY <1>1, <1>3, AppendOps, AppendSays
<1>8. Flight'
  BY <1>3, <1>4, AnswerFlight
<1> HIDE DEF a, q
<1>9. \/ Asking
      \/ Taking /\ dev.phase = "offered" /\ All(inbox, {"OK", "START"})
                /\ All(ch.air, {"REQUEST", "START_OK"})
  <2>1. ~Repairing
    BY <1>2, <1>6 DEF Repairing, Requesting, MissingCmd
  <2>2. Taking => dev.phase = "offered" /\ All(inbox, {"OK", "START"})
                  /\ All(ch.air, {"REQUEST", "START_OK"})
    BY <1>5 DEF Taking, Conversation
  <2> QED
    BY <1>1, <1>5, <2>1, <2>2 DEF Stage, Acking
<1>10. SlotsAreOwn'
  BY <1>1, <1>2 DEF SlotsAreOwn
<1>11. CASE dev.chunk \in Chunk
  <2>1. dev'.chunk = dev.chunk /\ dev'.phase = "offered" /\ dev'.gap = dev.gap
    BY <1>1, <1>4, <1>11, DevMoves
  <2>2. Losses'
    BY <1>1, <1>2, <2>1 DEF Losses, Last
  <2>3. Messages'
    BY <1>1, <1>2, <1>3, <1>4, <1>5, <1>7, <1>11, <2>1 DEF Messages
  <2>4. CASE Asking
    <3>1. All(a, {"REQUEST", "OK"}) /\ Lacks(a, "OK")
      BY <1>1, <1>5, <1>11, <2>4 DEF Asking, Messages
    <3>2. All(a, {"REQUEST"})
      BY <3>1, AllBut
    <3>3. Asking'
      BY <1>2, <1>3, <1>4, <1>5, <1>7, <1>11, <2>1, <2>4, <3>2 DEF Asking, Last
    <3> QED
      BY <1>8, <1>10, <2>2, <2>3, <3>3 DEF Rest, Stage
  <2>5. CASE Taking /\ dev.phase = "offered" /\ All(inbox, {"OK", "START"})
                    /\ All(ch.air, {"REQUEST", "START_OK"})
    <3>1. Lacks(inbox, "PKG") /\ Lacks(inbox, "ACK_PROC")
      BY <2>5, LacksAll
    <3>2. Conversation'
      BY <1>2, <1>3, <1>4, <1>5, <1>7, <1>11, <2>1, <2>5 DEF Conversation
    <3>3. Answered' /\ Received' /\ Coming'
      BY <1>2, <2>1, <2>5 DEF Answered, Taking, Received, Coming, Filled
    <3>4. Taking'
      BY <1>2, <1>4, <1>5, <1>7, <2>1, <2>5, <3>1, <3>2, <3>3 DEF Taking, Last
    <3> QED
      BY <1>8, <1>10, <2>2, <2>3, <3>4 DEF Rest, Stage
  <2> QED
    BY <1>9, <2>4, <2>5
<1>12. CASE dev.chunk \notin Chunk
  <2>1. dev' = dev /\ dev.phase = "idle" /\ Asking
    BY <1>1, <1>4, <1>9, <1>12 DEF Typed
  <2>2. Losses'
    BY <1>1, <1>2, <2>1 DEF Losses, Last
  <2>3. Messages'
    BY <1>1, <1>2, <1>3, <1>4, <1>5, <1>7, <1>12, <2>1 DEF Messages
  <2>4. Asking'
    BY <1>2, <1>3, <1>4, <1>5, <1>7, <1>12, <2>1 DEF Asking, Last
  <2> QED
    BY <1>8, <1>10, <2>2, <2>3, <2>4 DEF Rest, Stage
<1> QED
  BY <1>11, <1>12

LEMMA HearsStartOk ==
    ASSUME LinkIsFair, Core, DeviceHears, Head(ch.air).op = "START_OK"
    PROVE  Rest'
<1> DEFINE a == Tail(ch.air)
           m == Message("OK")
           q == Append(inbox, m)
<1>1. /\ Typed /\ Losses /\ Messages /\ Flight /\ Stage /\ SlotsAreOwn
      /\ ch \in Channel /\ inbox \in Seq(Sound) /\ ch.air \in Seq(Cmds)
      /\ dev \in Devs
  BY ChannelFields DEF Core, Rest, Typed, Channel
<1>2. /\ ch.air # <<>> /\ ch'.last_cmd = ch.last_cmd
      /\ ch'.cmdTimer <=> ch.cmdTimer
      /\ ch'.air = a /\ ch'.backlog = ch.backlog
      /\ ch'.backlogTimer <=> ch.backlogTimer
      /\ UNCHANGED <<rx, kind, nextTimer, timely, pkgLosses, losses>>
  BY Heard
<1>3. m \in Sound /\ m.op = "OK"
  BY MessageSound
<1> HIDE DEF m
<1>4. /\ inbox' = q
      /\ dev' = IF dev.phase = "offered"
                THEN [dev EXCEPT !.phase = "streaming", !.next = 0, !.gap = 0] ELSE dev
  BY <1>1, <1>3, JoinOne DEF DeviceHears, Answers, m
<1>5. /\ \A ops : All(ch.air, ops) => "START_OK" \in ops /\ All(a, ops)
      /\ \A op : Lacks(ch.air, op) => Lacks(a, op)
      /\ \A op, ops : After(ch.air, op, ops) => After(a, op, ops)
      /\ \A ops : After(ch.air, "START_OK", ops) => All(a, ops)
  BY <1>1, <1>2, TailOps
<1>6. \A c : Same(ch.air, c) => c.op = "START_OK"
  BY <1>1, <1>2, TailSays
<1>7. /\ \A ops : All(inbox, ops) /\ m.op \in ops => All(q, ops)
      /\ \A op : m.op # op => (Lacks(q, op) <=> Lacks(inbox, op))
      /\ \A op, ops : After(inbox, op, ops) /\ m.op \in ops => After(q, op, ops)
      /\ \A k : Offers(inbox, k) => Offers(q, k)
  BY <1>1, <1>3, AppendOps, AppendSays
<1>8. Flight'
  BY <1>3, <1>4, AnswerFlight
<1>9. /\ Answer(inbox) \/ All(inbox, {"OK", "START"}) => Answer(q)
  BY <1>1, <1>3, AnswerAppend
<1>10. SlotsAreOwn'
  BY <1>1, <1>2 DEF SlotsAreOwn
<1>11. ASSUME NEW k, NEW n \in Nat, NEW b, NEW g, NEW exact,
              Own(inbox, k, n), Run(inbox, b, n, g, exact)
       PROVE  Own(q, k, n) /\ Run(q, b, n, g, exact)
  BY <1>1, <1>3, <1>11, OwnAppend, RunAppendOther
<1> HIDE DEF a, q
<1>12. Asking \/ Taking \/ Acking
  <2>1. ~Repairing
    BY <1>2, <1>6 DEF Repairing, Requesting, MissingCmd
  <2> QED
    BY <1>1, <2>1 DEF Stage
<1>13. CASE dev.phase # "offered"
  <2>1. dev' = dev
    BY <1>4, <1>13
  <2>2. Losses'
    BY <1>1, <1>2, <2>1 DEF Losses, Last
  <2>3. Messages'
    BY <1>1, <1>2, <1>3, <1>4, <1>5, <1>7, <2>1 DEF Messages
  <2>4. CASE Asking
    <3>1. Asking'
      BY <1>2, <1>3, <1>4, <1>5, <1>7, <1>13, <2>1, <2>4 DEF Asking, Last
    <3> QED
      BY <1>8, <1>10, <2>2, <2>3, <3>1 DEF Rest, Stage
  <2>5. CASE Acking
    <3>1. Acking'
      BY <1>2, <1>3, <1>4, <1>5, <1>7, <2>1, <2>5 DEF Acking, Last, Waits
    <3> QED
      BY <1>8, <1>10, <2>2, <2>3, <3>1 DEF Rest, Stage
  <2>6. CASE Taking
    <3>1. Conversation'
      <4>1. CASE dev.phase = "streaming" /\ dev.next <= Counts[dev.chunk]
                 /\ All(inbox, {"OK", "START", "PKG"}) /\ All(ch.air, {"START_OK"})
        BY <1>2, <1>3, <1>4, <1>5, <1>7, <2>1, <4>1 DEF Conversation
      <4>2. CASE dev.phase = "sent" /\ dev.next = Counts[dev.chunk]
                 /\ All(inbox, {"OK", "START", "PKG", "ACK_PROC"})
                 /\ All(ch.air, {"START_OK"})
        BY <1>2, <1>3, <1>4, <1>5, <1>7, <2>1, <4>2 DEF Conversation
      <4> QED
        BY <1>13, <2>6, <4>1, <4>2 DEF Taking, Conversation
    <3>2. Answered'
      BY <1>2, <1>3, <1>4, <1>7, <1>9, <2>1, <2>6 DEF Answered, Taking
    <3>3. Received'
      BY <1>2, <1>3, <1>4, <1>7, <2>1, <2>6 DEF Received, Taking, Filled
    <3>4. Coming'
      <4>1. dev.next \in Nat
        BY <1>1, DevFields
      <4>2. Own(q, dev.chunk, dev.next) /\ Run(q, Base, dev.next, dev.gap, pkgLosses = 0)
        BY <1>11, <1>13, <2>6, <4>1 DEF Taking, Coming
      <4> QED
        BY <1>2, <1>4, <2>1, <4>2 DEF Coming, Base
    <3>5. Taking'
      BY <1>2, <1>3, <1>4, <1>5, <1>7, <2>1, <2>6, <3>1, <3>2, <3>3, <3>4
         DEF Taking, Last
    <3> QED
      BY <1>8, <1>10, <2>2, <2>3, <3>5 DEF Rest, Stage
  <2> QED
    BY <1>12, <2>4, <2>5, <2>6
<1>14. CASE dev.phase = "offered"
  <2>1. /\ Taking /\ All(inbox, {"OK", "START"})
    BY <1>5, <1>12, <1>14 DEF Asking, Acking, Taking, Conversation
  <2>2. /\ dev'.chunk = dev.chunk /\ dev'.phase = "streaming"
        /\ dev'.next = 0 /\ dev'.gap = 0
    BY <1>1, <1>4, <1>14, DevMoves
  <2>3. dev.chunk \in Chunk
    BY <1>1, <1>14 DEF Typed
  <2>4. Losses'
    BY <1>1, <1>2, <2>2 DEF Losses, Last
  <2>5. Messages'
    BY <1>1, <1>2, <1>3, <1>4, <1>5, <1>7, <2>2 DEF Messages
  <2>6. Conversation'
    <3>1. All(inbox', {"OK", "START", "PKG"})
      <4>1. All(inbox', {"OK", "START"})
        BY <1>3, <1>4, <1>7, <2>1
      <4> QED
        BY <4>1, AllWeaker
    <3>2. All(ch'.air, {"START_OK"})
      BY <1>2, <1>5, <2>1 DEF Taking
    <3>3. 0 <= Counts[dev.chunk]
      BY <2>3, CountIsPositive
    <3> QED
      BY <2>2, <3>1, <3>2, <3>3 DEF Conversation
  <2>7. Answered'
    BY <1>4, <1>9, <2>1 DEF Answered
  <2>8. Received'
    BY <1>2, <1>14, <2>1, <2>2 DEF Received, Taking, Filled
  <2>9. Coming'
    <3>1. Lacks(inbox', "PKG")
      BY <1>3, <1>4, <1>7, <2>1, LacksAll
    <3>2. Base' = -1
      BY <1>2, <1>14, <2>1 DEF Base, Taking, Received
    <3>3. Ends(-1, 0, 0)
      BY DEF Ends
    <3> QED
      BY <2>2, <3>1, <3>2, <3>3, OwnNone, RunNone DEF Coming
  <2>10. Taking'
    BY <1>2, <1>3, <1>4, <1>5, <1>7, <2>1, <2>2, <2>6, <2>7, <2>8, <2>9 DEF Taking, Last
  <2> QED
    BY <1>8, <1>10, <2>4, <2>5, <2>10 DEF Rest, Stage
<1> QED
  BY <1>13, <1>14

LEMMA HearsAckOk ==
    ASSUME LinkIsFair, Core, DeviceHears, Head(ch.air).op = "ACK_OK"
    PROVE  Rest'
<1> DEFINE a == Tail(ch.air)
           m == Message("OK")
           q == Append(inbox, m)
<1>1. /\ Typed /\ Losses /\ Messages /\ Flight /\ Stage /\ SlotsAreOwn
      /\ ch \in Channel /\ inbox \in Seq(Sound) /\ ch.air \in Seq(Cmds)
      /\ dev \in Devs
  BY ChannelFields DEF Core, Rest, Typed, Channel
<1>2. /\ ch.air # <<>> /\ ch'.last_cmd = ch.last_cmd
      /\ ch'.cmdTimer <=> ch.cmdTimer
      /\ ch'.air = a /\ ch'.backlog = ch.backlog
      /\ ch'.backlogTimer <=> ch.backlogTimer
      /\ UNCHANGED <<rx, kind, nextTimer, timely, pkgLosses, losses>>
  BY Heard
<1>3. m \in Sound /\ m.op = "OK"
  BY MessageSound
<1> HIDE DEF m
<1>4. /\ inbox' = q
      /\ dev' = IF dev.phase = "sent"
                THEN [dev EXCEPT !.phase = "idle", !.chunk = @ + 1] ELSE dev
  BY <1>1, <1>3, JoinOne DEF DeviceHears, Answers, m
<1>5. /\ \A ops : All(ch.air, ops) => "ACK_OK" \in ops /\ All(a, ops)
      /\ \A op : Lacks(ch.air, op) => Lacks(a, op)
      /\ \A op, ops : After(ch.air, op, ops) => After(a, op, ops)
  BY <1>1, <1>2, TailOps
<1>6. \A c : Same(ch.air, c) => c.op = "ACK_OK"
  BY <1>1, <1>2, TailSays
<1>7. /\ \A ops : All(inbox, ops) /\ m.op \in ops => All(q, ops)
      /\ \A op : m.op # op => (Lacks(q, op) <=> Lacks(inbox, op))
      /\ \A k : Offers(inbox, k) => Offers(q, k)
  BY <1>1, <1>3, AppendOps, AppendSays
<1>8. Flight'
  BY <1>3, <1>4, AnswerFlight
<1>9. SlotsAreOwn'
  BY <1>1, <1>2 DEF SlotsAreOwn
<1> HIDE DEF a, q
<1>10. (Asking /\ dev.phase \in {"idle", "sent"}) \/ Acking
  <2>1. ~Repairing
    BY <1>2, <1>6 DEF Repairing, Requesting, MissingCmd
  <2>2. ~Taking
    BY <1>5 DEF Taking, Conversation
  <2> QED
    BY <1>1, <1>5, <2>1, <2>2 DEF Stage, Asking
<1>11. /\ dev'.gap = dev.gap /\ dev'.phase \in {"idle", "sent"}
       /\ dev'.chunk = dev.chunk \/ (dev.phase = "sent" /\ dev.chunk \in Chunk)
  <2>1. CASE dev.phase = "sent"
    BY <1>1, <1>4, <2>1, DevMoves DEF Typed
  <2>2. CASE dev.phase # "sent"
    BY <1>4, <1>10, <2>2 DEF Acking
  <2> QED
    BY <2>1, <2>2
<1>12. Losses'
  BY <1>1, <1>2, <1>11 DEF Losses, Last
<1>13. Messages'
  <2>1. CASE dev'.chunk = dev.chunk
    BY <1>1, <1>2, <1>3, <1>4, <1>5, <1>7, <2>1 DEF Messages
  <2>2. CASE dev.phase = "sent" /\ dev.chunk \in Chunk
    <3>1. All(inbox, {"OK", "NO_CHUNK"}) \/ All(inbox, {"OK"})
      BY <1>10, <2>2 DEF Asking, Acking
    <3>2. Lacks(q, "START")
      BY <1>3, <1>7, <3>1, LacksAll
    <3>3. \A k : Offers(q, k)
      BY <3>2, NothingSays
    <3>4. Lacks(q, "NO_CHUNK") /\ Lacks(a, "OK")
      BY <1>1, <1>3, <1>5, <1>7, <2>2 DEF Messages
    <3> QED
      BY <1>2, <1>4, <3>3, <3>4 DEF Messages
  <2> QED
    BY <1>11, <2>1, <2>2
<1>14. CASE Asking /\ dev.phase \in {"idle", "sent"}
  <2>1. Asking'
    BY <1>2, <1>3, <1>4, <1>5, <1>7, <1>11, <1>14 DEF Asking, Last
  <2> QED
    BY <1>8, <1>9, <1>12, <1>13, <2>1 DEF Rest, Stage
<1>15. CASE Acking
  <2>1. Acking'
    BY <1>2, <1>3, <1>4, <1>5, <1>7, <1>11, <1>15 DEF Acking, Last, Waits
  <2> QED
    BY <1>8, <1>9, <1>12, <1>13, <2>1 DEF Rest, Stage
<1> QED
  BY <1>10, <1>14, <1>15

LEMMA HearsMissing ==
    ASSUME LinkIsFair, Core, DeviceHears, Head(ch.air).op = "MISSING"
    PROVE  Rest'
<1> DEFINE a == Tail(ch.air)
           i == rx.missed_in_request
           v == <<dev.chunk, i>>
           m == Message("OK")
           n == [Message("MISSED") EXCEPT !.payload = v]
<1>1. /\ Typed /\ Losses /\ Messages /\ Flight /\ Stage /\ SlotsAreOwn
      /\ ch \in Channel /\ inbox \in Seq(Sound) /\ ch.air \in Seq(Cmds)
      /\ dev \in Devs
  BY ChannelFields DEF Core, Rest, Typed, Channel
<1>2. /\ ch.air # <<>> /\ ch'.last_cmd = ch.last_cmd
      /\ ch'.cmdTimer <=> ch.cmdTimer
      /\ ch'.air = a /\ ch'.backlog = ch.backlog
      /\ ch'.backlogTimer <=> ch.backlogTimer
      /\ UNCHANGED <<rx, kind, nextTimer, timely, pkgLosses, losses>>
      /\ timely => a = <<>> /\ All(inbox, Streamed) /\ ch.cmdTimer
  BY Heard
<1>3. /\ \A ops : All(ch.air, ops) => "MISSING" \in ops
  BY <1>1, <1>2, TailOps
<1>4. \A c : Same(ch.air, c) => Head(ch.air) = c
  BY <1>1, <1>2, TailSays
<1>5. /\ Repairing /\ ~ch.backlogTimer /\ All(inbox, {"OK", "MISSED"})
      /\ Head(ch.air) = MissingCmd(i)
  <2>1. ~Asking /\ ~Taking /\ ~Acking
    BY <1>3 DEF Asking, Taking, Conversation, Acking
  <2> QED
    BY <1>1, <1>2, <1>4, <2>1 DEF Stage, Repairing, Requesting
<1>6. /\ dev.phase = "sent" /\ dev.chunk \in Chunk /\ pkgLosses > 0 /\ timely
      /\ i \in Nat
  BY <1>1, <1>5 DEF Repairing, Typed, Losses, Holes, IsReceiver
<1>7. inbox = <<>> /\ a = <<>> /\ ch.cmdTimer
  <2>1. {"OK", "MISSED"} \cap Streamed = {}
    BY DEF Streamed
  <2>2. inbox = <<>>
    BY <1>1, <1>2, <1>5, <1>6, <2>1, AllNothing
  <2> QED
    BY <1>2, <1>6, <2>2
<1>8. /\ m \in Sound /\ m.op = "OK"
      /\ n \in Sound /\ n.op = "MISSED" /\ n.payload = v
  BY <1>6, MessageSound
<1>9. n = MissedReply(i)
  BY <1>6 DEF MissedReply
<1> HIDE DEF m, n, v
<1>10. PICK x, y \in {m, n} : x # y /\ inbox' = <<>> \o <<x, y>>
  <2>1. m # n
    BY <1>8
  <2>2. MissingCmd(i).op = "MISSING" /\ MissingCmd(i).pkg = i
    BY <1>6, CommandType
  <2>3. \E s \in {<<m, n>>, <<n, m>>} : inbox' = inbox \o s
    BY <1>5, <1>9, <2>2 DEF DeviceHears, Answers, m
  <2> QED
    BY <1>7, <2>1, <2>3
<1>11. dev' = dev
  BY <1>5, <1>6 DEF DeviceHears, MissingCmd
<1> DEFINE s == Append(<<>>, x)
           q == Append(s, y)
<1>12. x \in Sound /\ y \in Sound /\ inbox' = q /\ s \in Seq(Sound) /\ <<>> \in Seq(Sound)
  BY <1>8, <1>10, JoinTwo
<1>13. /\ \A ops : All(<<>>, ops) /\ x.op \in ops => All(s, ops)
       /\ \A op : Lacks(<<>>, op) /\ x.op # op => Lacks(s, op)
       /\ \A op, ops : Lacks(<<>>, op) => After(s, op, ops)
       /\ \A p : Supplies(<<>>, p) /\ (x.op = "MISSED" => x.payload = p) => Supplies(s, p)
       /\ \A k : Offers(<<>>, k) /\ x.op # "START" => Offers(s, k)
       /\ \A ops : All(s, ops) => x.op \in ops
  BY <1>12, AppendOps, AppendSays
<1>14. /\ \A ops : All(s, ops) /\ y.op \in ops => All(q, ops)
       /\ \A op : Lacks(s, op) /\ y.op # op => Lacks(q, op)
       /\ \A op, ops : After(s, op, ops) /\ y.op \in ops => After(q, op, ops)
       /\ \A op, ops : Lacks(s, op) => After(q, op, ops)
       /\ \A p : Supplies(s, p) /\ (y.op = "MISSED" => y.payload = p) => Supplies(q, p)
       /\ \A k : Offers(s, k) /\ y.op # "START" => Offers(q, k)
       /\ \A ops : All(q, ops) => All(s, ops) /\ y.op \in ops
  BY <1>12, AppendOps, AppendSays
<1> HIDE DEF s, q
<1>15. /\ x.op \in {"OK", "MISSED"} /\ y.op \in {"OK", "MISSED"} /\ x.op # y.op
       /\ x.op = "MISSED" => x.payload = v
       /\ y.op = "MISSED" => y.payload = v
  BY <1>8, <1>10
<1>16. /\ \A ops : All(<<>>, ops)
       /\ \A op : Lacks(<<>>, op)
       /\ \A p : Supplies(<<>>, p) 
       /\ \A k : Offers(<<>>, k)
  BY EmptyAll, NothingSays
<1>17. /\ All(q, {"OK", "MISSED"}) /\ Supplies(q, v)
       /\ \A k : Offers(q, k)
       /\ Lacks(q, "NO_CHUNK")
       /\ After(q, "OK", Streamed \cup {"MISSED"})
       /\ After(q, "START", Streamed)
       /\ After(q, "NO_CHUNK", Streamed)
       /\ After(q, "MISSED", Streamed \cup {"OK"})
       /\ ~All(q, Streamed \cup {"MISSED"})
  <2>1. \A k : Offers(q, k)
    BY <1>13, <1>14, <1>15, <1>16
  <2>2. All(q, {"OK", "MISSED"}) /\ Supplies(q, v)
    BY <1>13, <1>14, <1>15, <1>16
  <2>3. Lacks(q, "NO_CHUNK") /\ After(q, "START", Streamed) /\ After(q, "NO_CHUNK", Streamed)
    BY <1>13, <1>14, <1>15, <1>16
  <2>4. After(q, "OK", Streamed \cup {"MISSED"}) /\ After(q, "MISSED", Streamed \cup {"OK"})
    <3>1. CASE x.op = "OK" /\ y.op = "MISSED"
      BY <1>13, <1>14, <1>16, <3>1
    <3>2. CASE x.op = "MISSED" /\ y.op = "OK"
      BY <1>13, <1>14, <1>16, <3>2
    <3> QED
      BY <1>15, <3>1, <3>2
  <2>5. ~All(q, Streamed \cup {"MISSED"})
    <3>1. "OK" \notin Streamed \cup {"MISSED"}
      BY DEF Streamed
    <3> QED
      BY <1>13, <1>14, <1>15, <3>1
  <2> QED
    BY <2>1, <2>2, <2>3, <2>4, <2>5
<1>18. Losses' /\ SlotsAreOwn'
  BY <1>1, <1>2, <1>11 DEF Losses, SlotsAreOwn, Last
<1> HIDE DEF a
<1>19. Lacks(a, "OK") /\ Len(a) <= 1 /\ Same(a, MissingCmd(i))
  <2>1. a = <<>>
    BY <1>7
  <2>2. Len(a) = 0
    BY <2>1
  <2>3. Lacks(a, "OK") /\ Same(a, MissingCmd(i))
    BY <2>1, EmptyAll, NothingSays
  <2> QED
    BY <2>2, <2>3
<1>20. Messages'
  BY <1>2, <1>12, <1>17, <1>19 DEF Messages
<1>21. Flight'
  BY <1>2, <1>7, <1>12, <1>17, <1>19 DEF Flight
<1>22. Requesting'
  BY <1>2, <1>5, <1>12, <1>17, <1>19 DEF Requesting
<1>23. Repairing'
  BY <1>2, <1>5, <1>11, <1>12, <1>17, <1>22 DEF Repairing, Holes, Last, v
<1> QED
  BY <1>18, <1>20, <1>21, <1>23 DEF Rest, Stage

LEMMA HearsCore ==
    ASSUME LinkIsFair, Core, DeviceHears
    PROVE  Rest'
<1>1. Head(ch.air) \in Cmds
  BY Heard
<1>2. Head(ch.air).op \in {"REQUEST", "START_OK", "ACK_OK", "MISSING", "OK"}
  BY <1>1 DEF Cmds
<1> QED
  BY <1>2, HearsRequest, HearsStartOk, HearsAckOk, HearsMissing, HearsOk

-----------------------------------------------------------------------------
(* The device sends the packages *)

\* Anything may join the messages on their way while no answer is due.
LEMMA StreamedFlight ==
    ASSUME Typed, Flight, NEW m \in Sound, m.op \in Streamed,
           inbox' = Append(inbox, m), UNCHANGED <<ch, timely, losses>>
    PROVE  Flight'
<1>1. inbox \in Seq(Sound)
  BY DEF Typed
<1>2. /\ \A ops : All(inbox', ops) <=> All(inbox, ops) /\ m.op \in ops
      /\ \A op, ops : After(inbox, op, ops) /\ m.op \in ops => After(inbox', op, ops)
  BY <1>1, AppendOps
<1>3. m.op \in Streamed \cup {"MISSED"} /\ m.op \in Streamed \cup {"OK"}
  OBVIOUS
<1> QED
  BY <1>2, <1>3 DEF Flight

LEMMA EndsStreamCore ==
    ASSUME LinkIsFair, Core, DeviceEndsStream
    PROVE  Rest'
<1> DEFINE m == Message("ACK_PROC")
           q == Append(inbox, m)
<1>1. /\ Typed /\ Losses /\ Messages /\ Flight /\ Stage /\ SlotsAreOwn
      /\ inbox \in Seq(Sound) /\ dev \in Devs
  BY DEF Core, Rest, Typed
<1>2. m \in Sound /\ m.op = "ACK_PROC"
  BY MessageSound
<1> HIDE DEF m
<1>3. /\ inbox' = q
      /\ dev.phase = "streaming" /\ dev.next = Counts[dev.chunk]
      /\ UNCHANGED <<ch, rx, kind, nextTimer, timely, pkgLosses, losses>>
  BY DEF DeviceEndsStream, central, budget, m
<1>4. /\ dev'.chunk = dev.chunk /\ dev'.phase = "sent" /\ dev'.gap = dev.gap
      /\ dev'.next = dev.next /\ dev.next \in Nat
  BY <1>1, DevMoves, DevFields DEF DeviceEndsStream
<1>5. Taking
  BY <1>1, <1>3 DEF Stage, Asking, Repairing, Acking
<1>6. /\ \A ops : All(inbox, ops) /\ m.op \in ops => All(q, ops)
      /\ \A op : m.op # op => (Lacks(q, op) <=> Lacks(inbox, op))
      /\ \A op, ops : After(inbox, op, ops) /\ m.op \in ops => After(q, op, ops)
      /\ \A op, ops : Lacks(inbox, op) => After(q, op, ops)
      /\ \A k : Offers(inbox, k) => Offers(q, k)
      /\ Answer(inbox) => Answer(q)
  BY <1>1, <1>2, AppendOps, AppendSays, AnswerAppend
<1>7. All(inbox, {"OK", "START", "PKG"}) /\ All(ch.air, {"START_OK"})
  BY <1>3, <1>5 DEF Taking, Conversation
<1>8. Lacks(inbox, "ACK_PROC")
  BY <1>7, LacksAll
<1>9. Own(q, dev.chunk, dev.next) /\ Run(q, Base, dev.next, dev.gap, pkgLosses = 0)
  BY <1>1, <1>2, <1>3, <1>4, <1>5, OwnAppend, RunAppendOther DEF Taking, Coming
<1>10. Flight'
  BY <1>1, <1>2, <1>3, StreamedFlight DEF Streamed
<1> HIDE DEF q
<1>11. All(q, {"OK", "START", "PKG", "ACK_PROC"})
  <2>1. All(inbox, {"OK", "START", "PKG", "ACK_PROC"})
    BY <1>7, AllWeaker
  <2> QED
    BY <1>2, <1>6, <2>1
<1>12. Losses' /\ Messages' /\ SlotsAreOwn'
  BY <1>1, <1>2, <1>3, <1>4, <1>6 DEF Losses, Messages, SlotsAreOwn, Last
<1>13. Conversation'
  BY <1>3, <1>4, <1>7, <1>11 DEF Conversation
<1>14. Answered'
  BY <1>2, <1>3, <1>4, <1>5, <1>6 DEF Answered, Taking
<1>15. Received'
  BY <1>2, <1>3, <1>4, <1>5, <1>6 DEF Received, Taking, Filled
<1>16. Coming'
  BY <1>3, <1>4, <1>9 DEF Coming, Base
<1>17. After(q, "PKG", {"OK", "PKG", "ACK_PROC"}) /\ After(q, "ACK_PROC", {"OK"})
  BY <1>2, <1>5, <1>6, <1>8 DEF Taking
<1>18. Taking'
  BY <1>3, <1>4, <1>5, <1>13, <1>14, <1>15, <1>16, <1>17 DEF Taking, Last
<1> QED
  BY <1>10, <1>12, <1>18 DEF Rest, Stage

LEMMA StreamsCore ==
    ASSUME LinkIsFair, Core, DeviceStreams
    PROVE  Rest'
<1> DEFINE n == dev.next
           k == dev.chunk
           m == [op |-> "PKG", chunk |-> k, byte |-> n % Wrap, payload |-> <<k, n>>]
           q == Append(inbox, m)
<1>1. /\ Typed /\ Losses /\ Messages /\ Flight /\ Stage /\ SlotsAreOwn
      /\ inbox \in Seq(Sound) /\ dev \in Devs /\ pkgLosses \in Nat /\ losses \in Nat
  BY DownloadAssumption DEF Core, Rest, Typed
<1>2. /\ dev.phase = "streaming" /\ n < Counts[k]
      /\ UNCHANGED <<ch, rx, kind, nextTimer, timely, losses>>
  BY DEF DeviceStreams, central
<1>3. /\ k \in Chunk /\ n \in Nat /\ dev.gap \in Nat /\ dev.gap <= MaxGap
      /\ Counts[k] \in Nat
  BY <1>1, <1>2, DevFields, CountIsPositive DEF Typed
<1>4. Taking
  BY <1>1, <1>2 DEF Stage, Asking, Repairing, Acking
<1>5. All(inbox, {"OK", "START", "PKG"}) /\ All(ch.air, {"START_OK"})
  BY <1>2, <1>4 DEF Taking, Conversation
<1>6. /\ Own(inbox, k, n) /\ Run(inbox, Base, n, dev.gap, pkgLosses = 0)
      /\ pkgLosses = 0 => dev.gap = 0
  BY <1>1, <1>2, <1>3, <1>4 DEF Taking, Coming, Losses
<1>7. Base \in Int /\ Base >= -1
  <2>1. rx.highest \in Nat
    BY <1>1, ReceiverShaped, ShapedFields DEF Typed
  <2> QED
    BY <2>1 DEF Base
<1>8. CASE /\ inbox' = q
           /\ dev' = [dev EXCEPT !.next = @ + 1, !.gap = 0]
           /\ UNCHANGED pkgLosses
  <2>1. m \in Sound /\ m.op = "PKG" /\ No(m) = n /\ IsOwn(m, k, n + 1)
    <3>1. m \in Sound
      BY <1>3, MessageSound
    <3> QED
      BY <1>3, <3>1 DEF No, IsOwn
  <2> HIDE DEF m
  <2>2. /\ dev'.chunk = k /\ dev'.phase = "streaming" /\ dev'.gap = 0
        /\ dev'.next = n + 1
    BY <1>1, <1>2, <1>8, DevMoves
  <2>3. /\ \A ops : All(inbox, ops) /\ m.op \in ops => All(q, ops)
        /\ \A op : m.op # op => (Lacks(q, op) <=> Lacks(inbox, op))
        /\ \A op, ops : After(inbox, op, ops) /\ m.op \in ops => After(q, op, ops)
        /\ \A op, ops : Lacks(inbox, op) => After(q, op, ops)
        /\ \A j : Offers(inbox, j) => Offers(q, j)
        /\ Answer(inbox) => Answer(q)
    BY <1>1, <2>1, AppendOps, AppendSays, AnswerAppend
  <2>4. Own(q, k, n + 1)
    <3>1. n + 1 \in Nat /\ n <= n + 1
      BY <1>3
    <3> HIDE DEF k, n
    <3> QED
      BY <1>1, <1>3, <1>6, <2>1, <3>1, OwnAppend
  <2>5. Run(q, Base, n + 1, 0, pkgLosses = 0)
    BY <1>1, <1>3, <1>6, <1>7, <2>1, RunAppendPkg
  <2>6. Flight'
    BY <1>1, <1>2, <1>8, <2>1, StreamedFlight DEF Streamed
  <2> HIDE DEF q
  <2>7. Losses' /\ Messages' /\ SlotsAreOwn'
    BY <1>1, <1>2, <1>8, <2>1, <2>2, <2>3 DEF Losses, Messages, SlotsAreOwn, Last
  <2>8. Conversation'
    BY <1>2, <1>3, <1>5, <1>8, <2>1, <2>2, <2>3 DEF Conversation
  <2>9. Answered'
    BY <1>2, <1>4, <1>8, <2>1, <2>2, <2>3 DEF Answered, Taking
  <2>10. Received'
    BY <1>2, <1>4, <1>8, <2>1, <2>2, <2>3 DEF Received, Taking, Filled
  <2>11. Coming'
    BY <1>2, <1>8, <2>2, <2>4, <2>5 DEF Coming, Base
  <2>12. Lacks(inbox, "ACK_PROC")
    BY <1>5, LacksAll
  <2>13. After(q, "PKG", {"OK", "PKG", "ACK_PROC"}) /\ After(q, "ACK_PROC", {"OK"})
    BY <1>4, <2>1, <2>3, <2>12 DEF Taking
  <2>14. Taking'
    BY <1>2, <1>4, <1>8, <2>2, <2>8, <2>9, <2>10, <2>11, <2>13 DEF Taking, Last
  <2> QED
    BY <2>6, <2>7, <2>14 DEF Rest, Stage
<1>9. CASE /\ timely
           /\ losses = 0 \/ Mixed
           /\ dev.next > 0
           /\ dev.gap < MaxGap
           /\ dev' = [dev EXCEPT !.next = @ + 1, !.gap = @ + 1]
           /\ pkgLosses' = pkgLosses + 1
           /\ UNCHANGED inbox
  <2>1. /\ dev'.chunk = k /\ dev'.phase = "streaming" /\ dev'.gap = dev.gap + 1
        /\ dev'.next = n + 1
    BY <1>1, <1>2, <1>9, DevMoves
  <2>2. losses = 0 /\ timely /\ pkgLosses' > 0 /\ n \in Nat \ {0}
    BY <1>1, <1>3, <1>9 DEF LinkIsFair
  <2>3. Own(inbox, k, n + 1)
    <3>1. n + 1 \in Nat /\ n <= n + 1
      BY <1>3
    <3> HIDE DEF k, n
    <3> QED
      BY <1>3, <1>6, <3>1, OwnMore
  <2>4. Run(inbox, Base, n + 1, dev.gap + 1, FALSE)
    BY <1>3, <1>6, <1>7, <2>2, RunLost
  <2>5. Losses' /\ Messages' /\ SlotsAreOwn' /\ Flight'
    BY <1>1, <1>2, <1>9, <2>1, <2>2 DEF Losses, Messages, SlotsAreOwn, Flight, Last
  <2>6. Conversation'
    BY <1>2, <1>3, <1>5, <1>9, <2>1 DEF Conversation
  <2>7. Answered'
    BY <1>2, <1>4, <1>9, <2>1 DEF Answered, Taking
  <2>8. Received'
    BY <1>2, <1>4, <1>9, <2>1, <2>2 DEF Received, Taking, Filled
  <2>9. Coming'
    <3>1. (pkgLosses = 0)' <=> FALSE
      BY <2>2
    <3>2. Run(inbox, Base, n + 1, dev.gap + 1, (pkgLosses = 0)')
      BY <2>4, <3>1
    <3> QED
      BY <1>2, <1>9, <2>1, <2>3, <3>2 DEF Coming, Base
  <2>10. Taking'
    BY <1>2, <1>4, <1>9, <2>1, <2>6, <2>7, <2>8, <2>9 DEF Taking, Last
  <2> QED
    BY <2>5, <2>10 DEF Rest, Stage
<1> QED
  BY <1>2, <1>8, <1>9 DEF DeviceStreams

-----------------------------------------------------------------------------
(* The link loses a command or a message *)

\* What the link may lose is no command of a download that has lost packages.
LEMMA LossMeans ==
    ASSUME LinkIsFair, Core, MayLose, losses' = losses + 1,
           UNCHANGED <<timely, pkgLosses>>
    PROVE  /\ timely /\ pkgLosses = 0 /\ losses' > 0 /\ losses' # 0
           /\ losses \in Nat /\ Last # "MISSING" /\ ~Repairing
<1>1. /\ losses \in Nat /\ pkgLosses \in Nat
  BY DownloadAssumption DEF Core, Typed
<1>2. timely /\ pkgLosses = 0
  BY <1>1 DEF MayLose, LinkIsFair
<1>3. Last # "MISSING" /\ ~Repairing
  BY <1>2 DEF Core, Rest, Losses, Repairing
<1> QED
  BY <1>1, <1>2, <1>3

LEMMA LoseCmdCore ==
    ASSUME LinkIsFair, Core, LoseCmd
    PROVE  Rest'
<1> DEFINE a == Tail(ch.air)
<1>1. /\ Typed /\ Losses /\ Messages /\ Flight /\ Stage /\ SlotsAreOwn
      /\ ch \in Channel /\ ch.air \in Seq(Cmds)
  BY ChannelFields DEF Core, Rest, Typed, Channel
<1>2. /\ ch.air # <<>> /\ ch' = [ch EXCEPT !.air = Tail(@)]
      /\ UNCHANGED <<rx, kind, nextTimer, inbox, dev, timely, pkgLosses>>
      /\ losses' = losses + 1 /\ MayLose
  BY DEF LoseCmd
<1>3. /\ timely /\ pkgLosses = 0 /\ losses' > 0 /\ losses' # 0
      /\ Last # "MISSING" /\ ~Repairing
  BY <1>2, LossMeans
<1>4. /\ ch'.last_cmd = ch.last_cmd
      /\ ch'.cmdTimer <=> ch.cmdTimer
      /\ ch'.air = a /\ ch'.backlog = ch.backlog
      /\ ch'.backlogTimer <=> ch.backlogTimer
  BY <1>1, <1>2, HeardFields
<1>5. /\ \A ops : All(ch.air, ops) => All(a, ops)
      /\ \A op : Lacks(ch.air, op) => Lacks(a, op)
      /\ \A op, ops : After(ch.air, op, ops) => After(a, op, ops)
  BY <1>1, <1>2, TailOps
<1>6. a = <<>>
  <2>1. Len(ch.air) <= 1
    BY <1>1, <1>3 DEF Flight
  <2> QED
    BY <1>1, <1>2, <2>1, NothingFollows
<1> HIDE DEF a
<1>7. Len(a) = 0
  BY <1>6
<1>8. Losses' /\ SlotsAreOwn'
  BY <1>1, <1>2, <1>3, <1>4 DEF Losses, SlotsAreOwn, Last
<1>9. Messages'
  BY <1>1, <1>2, <1>4, <1>5 DEF Messages
<1>10. Flight'
  <2>1. /\ Len(a) <= 1
        /\ a # <<>> => All(inbox, Streamed)
        /\ ch.cmdTimer => Lacks(a, "OK")
        /\ ~ch.cmdTimer => All(a, {"OK"})
    BY <1>1, <1>3, <1>5, <1>6, <1>7 DEF Flight
  <2> QED
    BY <1>1, <1>2, <1>3, <1>4, <2>1 DEF Flight
<1>11. CASE Asking
  <2>1. Asking'
    BY <1>2, <1>4, <1>5, <1>11 DEF Asking, Last
  <2> QED
    BY <1>8, <1>9, <1>10, <2>1 DEF Rest, Stage
<1>12. CASE Acking
  <2>1. Acking'
    BY <1>2, <1>4, <1>5, <1>12 DEF Acking, Last, Waits
  <2> QED
    BY <1>8, <1>9, <1>10, <2>1 DEF Rest, Stage
<1>13. CASE Taking
  <2>1. Conversation'
    BY <1>2, <1>4, <1>5, <1>13 DEF Taking, Conversation
  <2>2. Answered' /\ Received' /\ Coming'
    BY <1>2, <1>3, <1>13 DEF Taking, Answered, Received, Coming, Base, Filled
  <2>3. Taking'
    BY <1>2, <1>4, <1>5, <1>13, <2>1, <2>2 DEF Taking, Last
  <2> QED
    BY <1>8, <1>9, <1>10, <2>3 DEF Rest, Stage
<1> QED
  BY <1>1, <1>3, <1>11, <1>12, <1>13 DEF Stage

LEMMA LoseMessageCore ==
    ASSUME LinkIsFair, Core, LoseMessage
    PROVE  Rest'
<1> DEFINE p == Tail(inbox)
<1>1. /\ Typed /\ Losses /\ Messages /\ Flight /\ Stage /\ SlotsAreOwn
      /\ inbox \in Seq(Sound)
  BY DEF Core, Rest, Typed
<1>2. /\ inbox # <<>> /\ inbox' = p /\ Head(inbox).op # "PKG"
      /\ UNCHANGED <<ch, rx, kind, nextTimer, dev, timely, pkgLosses>>
      /\ losses' = losses + 1 /\ MayLose
  BY DownloadAssumption DEF LoseMessage, central
<1>3. /\ timely /\ pkgLosses = 0 /\ losses' > 0 /\ losses' # 0
      /\ Last # "MISSING" /\ ~Repairing
  BY <1>2, LossMeans
<1>4. /\ \A ops : All(inbox, ops) => All(p, ops)
      /\ \A op : Lacks(inbox, op) => Lacks(p, op)
      /\ \A op, ops : After(inbox, op, ops) => After(p, op, ops)
      /\ \A k : Offers(inbox, k) => Offers(p, k)
      /\ \A k, n : Own(inbox, k, n) => Own(p, k, n)
      /\ \A b, n, g, exact : Run(inbox, b, n, g, exact) => Run(p, b, n, g, exact)
  BY <1>1, <1>2, TailOps, TailSays, OwnTail, RunTail
<1> HIDE DEF p
<1>5. Losses' /\ SlotsAreOwn'
  BY <1>1, <1>2, <1>3 DEF Losses, SlotsAreOwn, Last
<1>6. Messages'
  BY <1>1, <1>2, <1>4 DEF Messages
<1>7. Flight'
  BY <1>1, <1>2, <1>3, <1>4 DEF Flight
<1>8. CASE Asking
  <2>1. Asking'
    BY <1>2, <1>4, <1>8 DEF Asking, Last
  <2> QED
    BY <1>5, <1>6, <1>7, <2>1 DEF Rest, Stage
<1>9. CASE Acking
  <2>1. Acking'
    BY <1>2, <1>4, <1>9 DEF Acking, Last, Waits
  <2> QED
    BY <1>5, <1>6, <1>7, <2>1 DEF Rest, Stage
<1>10. CASE Taking
  <2>1. Conversation'
    BY <1>2, <1>4, <1>10 DEF Taking, Conversation
  <2>2. Answered' /\ Received'
    BY <1>2, <1>3, <1>4, <1>10 DEF Taking, Answered, Received, Filled
  <2>3. Coming'
    BY <1>2, <1>4, <1>10 DEF Taking, Coming, Base
  <2>4. Taking'
    BY <1>2, <1>4, <1>10, <2>1, <2>2, <2>3 DEF Taking, Last
  <2> QED
    BY <1>5, <1>6, <1>7, <2>4 DEF Rest, Stage
<1> QED
  BY <1>1, <1>3, <1>8, <1>9, <1>10 DEF Stage

-----------------------------------------------------------------------------
(* The invariant *)

\* What an event of the main thread or a stuttering step leaves alone.
LEMMA SameCore ==
    ASSUME Core, UNCHANGED <<timely, ch, rx, kind, nextTimer, inbox, dev, pkgLosses, losses>>
    PROVE  Rest'
<1>1. Losses' /\ Messages' /\ Flight' /\ SlotsAreOwn'
  BY DEF Core, Rest, Losses, Messages, Flight, SlotsAreOwn, Last
<1>2. CASE Asking
  BY <1>1, <1>2 DEF Rest, Stage, Asking, Last
<1>3. CASE Taking
  <2>1. Taking'
    BY <1>3 DEF Taking, Conversation, Answered, Received, Coming, Base, Filled, Last
  <2> QED
    BY <1>1, <2>1 DEF Rest, Stage
<1>4. CASE Repairing
  <2>1. Repairing'
    BY <1>4 DEF Repairing, Requesting, Waits, Holes, Last
  <2> QED
    BY <1>1, <2>1 DEF Rest, Stage
<1>5. CASE Acking
  BY <1>1, <1>5 DEF Rest, Stage, Acking, Waits, Last
<1> QED
  BY <1>2, <1>3, <1>4, <1>5 DEF Core, Rest, Stage

LEMMA InitCore == Init => Rest
<1> SUFFICES ASSUME Init PROVE Rest
  OBVIOUS
<1> DEFINE c == Command("REQUEST")
           x == IdleChannel(NoCmd)
<1>1. /\ c \in Cmds /\ c.op = "REQUEST"
      /\ x \in Channel /\ ~x.cmdTimer /\ ~x.backlogTimer /\ x.air = <<>>
  BY CommandType, RetryAssumption DEF IdleChannel, Channel, ChannelType
<1>2. /\ ch = bleUartSendCmdWithResp(x, c) /\ inbox = <<>> /\ ~nextTimer
      /\ dev = [chunk |-> 1, phase |-> "idle", next |-> 0, gap |-> 0]
      /\ pkgLosses = 0 /\ losses = 0
      /\ \E stale \in 0..1, flag \in BOOLEAN : rx = NewReceiver(stale, flag)
  BY DEF Init
<1> HIDE DEF c, x
<1>3. /\ ch.last_cmd = c /\ ch.cmdTimer /\ ch.air = Append(x.air, c)
      /\ ch.backlogTimer <=> x.backlogTimer
  BY <1>1, <1>2, SendFree
<1> DEFINE a == Append(<<>>, c)
<1>4. ch.air = a
  BY <1>1, <1>3
<1>5. /\ \A ops : All(<<>>, ops) /\ c.op \in ops => All(a, ops)
      /\ \A op : Lacks(<<>>, op) /\ c.op # op => Lacks(a, op)
      /\ \A op, ops : Lacks(<<>>, op) => After(a, op, ops)
      /\ Len(a) = 1 /\ a # <<>>
  <2>1. <<>> \in Seq(Cmds)
    OBVIOUS
  <2> QED
    BY <1>1, <2>1, AppendOps, SentAlone
<1> HIDE DEF a
<1>6. /\ \A ops : All(inbox, ops)
      /\ \A op : Lacks(inbox, op)
      /\ \A op, ops : After(inbox, op, ops)
      /\ \A k : Offers(inbox, k)
  BY <1>2, EmptyAll, NothingSays
<1>7. /\ \A ops : c.op \in ops => All(a, ops)
      /\ \A op : c.op # op => Lacks(a, op)
      /\ \A op, ops : After(a, op, ops)
  BY <1>5, EmptyAll
<1>8. Losses
  BY <1>1, <1>2, <1>3 DEF Losses, Last
<1>9. Messages
  BY <1>1, <1>4, <1>6, <1>7 DEF Messages
<1>10. Flight
  <2>1. Len(a) <= 1
    BY <1>5
  <2> QED
    BY <1>1, <1>3, <1>4, <1>5, <1>6, <1>7, <2>1 DEF Flight
<1>11. SlotsAreOwn
  BY <1>2 DEF SlotsAreOwn, NewReceiver
<1>12. Asking
  BY <1>1, <1>2, <1>3, <1>4, <1>6, <1>7 DEF Asking, Last
<1> QED
  BY <1>8, <1>9, <1>10, <1>11, <1>12 DEF Rest, Stage

LEMMA CoreNext ==
    ASSUME LinkIsFair, Core, MainTyped, [Next]_vars
    PROVE  Core' /\ MainTyped'
<1>1. Rest' /\ (onStartHugeChunkAckProcArrived => rx.missed_cnt = 0)
  <2>1. CASE onStartHugeChunkAckProcArrived
    BY <2>1, AckProcCore
  <2>2. CASE ~onStartHugeChunkAckProcArrived
    <3>1. ASSUME MainThread PROVE Rest'
      BY <3>1, SameCore DEF MainThread, budget
    <3>2. ASSUME Timers PROVE Rest'
      BY <3>2, CmdTimerCore, BacklogTimerCore, NextTimerCore DEF Timers
    <3>3. ASSUME bleUartRx PROVE Rest'
      BY <2>2, <3>3, OkCore, StartCore, PackageCore, MissedCore, NoChunkCore DEF bleUartRx
    <3>4. ASSUME Device PROVE Rest'
      BY <3>4, HearsCore, StreamsCore, EndsStreamCore DEF Device
    <3>5. ASSUME Link PROVE Rest'
      BY <3>5, LoseCmdCore, LoseMessageCore DEF Link
    <3>6. ASSUME UNCHANGED vars PROVE Rest'
      BY <3>6, SameCore DEF vars
    <3>7. Rest'
      BY <3>1, <3>2, <3>3, <3>4, <3>5, <3>6 DEF Next, Controller
    <3> QED
      BY <2>2, <3>7
  <2> QED
    BY <2>1, <2>2
<1>2. Typed' /\ MainTyped'
  BY <1>1, TypedNext DEF Core
<1> QED
  BY <1>1, <1>2 DEF Core

-----------------------------------------------------------------------------
(* What follows for the download *)

\* On a link that loses packages of streams or other messages, not both, and
\* not more packages in a row than the index computation can cope with, the
\* parts of DeviceController, the messages and the events keep their types: a
\* request for a missing package is only made when there is one.
THEOREM TypeCorrect ==
    ASSUME LinkIsFair
    PROVE  Spec => []TypeOK
<1>1. Init => Core /\ MainTyped
  BY TypedInit, InitCore DEF Core
<1>2. Core /\ MainTyped /\ [Next]_vars => Core' /\ MainTyped'
  BY CoreNext
<1>3. Core /\ MainTyped => TypeOK
  BY TypedIsTypeOK DEF Core
<1> QED
  BY <1>1, <1>2, <1>3, PTL DEF Spec

-----------------------------------------------------------------------------
(* Retries *)

\* Neither the outstanding command nor an answer to it is on its way.
Unanswered == ch.air = <<>> /\ All(inbox, Streamed \cup {"MISSED"})

\* On a timely link every repetition of a command is due to a message lost.
Tries == timely /\ ch.cmdTimer =>
    /\ Retry - ch.retry <= losses
    /\ Unanswered => Retry - ch.retry < losses

LEMMA CmdTimerRetry ==
    ASSUME NEW x \in Channel, x.last_cmd \in Cmds
    PROVE  LET t == onCmdTimerExpired(x)
           IN /\ x.retry = 0 => t.retry = x.retry /\ t.air = x.air
              /\ x.retry # 0 => t.retry = x.retry - 1 /\ t.air # <<>>
<1>1. CASE x.retry > 0
  <2>1. x.air \in Seq(Cmds) /\ x.retry \in Nat
    BY ChannelFields, RetryAssumption
  <2>2. Append(x.air, x.last_cmd) # <<>>
    BY <2>1, Appended
  <2>3. onCmdTimerExpired(x) = [x EXCEPT !.retry = @ - 1, !.air = Append(@, x.last_cmd)]
    BY <1>1 DEF onCmdTimerExpired
  <2> QED
    BY <1>1, <2>1, <2>2, <2>3 DEF Channel, ChannelType
<1>2. CASE ~(x.retry > 0)
  <2>1. x.retry \in Nat
    BY ChannelFields, RetryAssumption
  <2> QED
    BY <1>2, <2>1 DEF onCmdTimerExpired
<1> QED
  BY <1>1, <1>2

LEMMA SendRetry ==
    ASSUME NEW x \in Channel, NEW c \in Cmds
    PROVE  LET s == bleUartSendCmdWithResp(x, c)
           IN /\ s \in Channel /\ s.cmdTimer
              /\ \/ s.retry = Retry /\ s.air # <<>>
                 \/ x.cmdTimer /\ s.retry = x.retry /\ s.air = x.air
<1>1. x.air \in Seq(Cmds)
  BY ChannelFields
<1>2. Append(x.air, c) # <<>>
  BY <1>1, Appended
<1> QED
  BY <1>2, SendFree, SendBusy

LEMMA BacklogTimerRetry ==
    ASSUME NEW x \in Channel
    PROVE  LET t == onBacklogTimerExpired(x)
           IN \/ ~t.cmdTimer
              \/ t.retry = Retry /\ t.air # <<>>
              \/ x.cmdTimer /\ t.retry = x.retry /\ t.air = x.air
<1> DEFINE fired == [x EXCEPT !.backlogTimer = FALSE]
           n == Newest(x.backlog)
           again == bleUartSendCmdWithResp(fired, n)
           t == onBacklogTimerExpired(x)
<1>1. /\ fired \in Channel /\ fired.retry = x.retry /\ fired.air = x.air
      /\ fired.cmdTimer <=> x.cmdTimer
  BY DEF Channel, ChannelType
<1>2. CASE x.backlog = <<>>
  <2>1. t = fired
    BY <1>2 DEF onBacklogTimerExpired
  <2> QED
    BY <1>1, <2>1
<1>3. CASE x.backlog # <<>>
  <2>1. n \in Cmds
    BY <1>3, ChannelFields, NewestEntry
  <2> HIDE DEF n, fired
  <2>2. /\ again \in Channel
        /\ \/ again.retry = Retry /\ again.air # <<>>
           \/ fired.cmdTimer /\ again.retry = fired.retry /\ again.air = fired.air
    BY <1>1, <2>1, SendRetry
  <2>3. \/ t = again
        \/ t = [again EXCEPT !.backlogRetries = @ - 1, !.backlogTimer = TRUE]
        \/ t = [again EXCEPT !.backlog = WithoutNewest(@)]
    BY <1>3 DEF onBacklogTimerExpired, fired, n
  <2> HIDE DEF again, t
  <2>4. t.retry = again.retry /\ t.air = again.air
    BY <2>2, <2>3 DEF Channel, ChannelType
  <2> QED
    BY <1>1, <2>2, <2>4 DEF t
<1> QED
  BY <1>2, <1>3

LEMMA KeptTries ==
    ASSUME Core, Tries, UNCHANGED <<timely, losses>>,
           \/ ~ch'.cmdTimer
           \/ ch'.retry = Retry /\ ch'.air # <<>>
           \/ ch.cmdTimer /\ ch'.retry = ch.retry /\ (Unanswered' => Unanswered)
    PROVE  Tries'
<1>1. Retry - Retry = 0 /\ losses \in Nat /\ 0 <= losses
  BY RetryAssumption, DownloadAssumption DEF Core, Typed
<1>2. ASSUME ch'.retry = Retry, ch'.air # <<>> PROVE Tries'
  BY <1>1, <1>2 DEF Tries, Unanswered
<1> QED
  BY <1>2 DEF Tries

\* A notification that is part of a stream or brings a missing package answers
\* no command.
LEMMA NotifiedTries ==
    ASSUME Core, Tries, NEW op \in {"PKG", "ACK_PROC", "MISSED"}, Notified(op),
           ch'.air = ch.air
    PROVE  Unanswered' => Unanswered
<1>1. /\ inbox \in Seq(Sound) /\ inbox # <<>> /\ Head(inbox).op = op /\ inbox' = Tail(inbox)
  BY DEF Core, Typed, Notified
<1>2. \A ops : All(inbox, ops) <=> Head(inbox).op \in ops /\ All(Tail(inbox), ops)
  BY <1>1, TailOps
<1>3. op \in Streamed \cup {"MISSED"}
  BY DEF Streamed
<1> QED
  BY <1>1, <1>2, <1>3 DEF Unanswered

LEMMA CmdTimerTries ==
    ASSUME Core, Tries, CmdTimerExpires
    PROVE  Tries' /\ (timely /\ ch.retry = 0 => losses > Retry)
<1>1. /\ ch \in Channel /\ ch.last_cmd \in Cmds /\ ch.retry \in 0..Retry
      /\ losses \in Nat /\ Retry \in Nat
  BY ChannelFields, RetryAssumption, DownloadAssumption DEF Core, Typed, Channel
<1>2. /\ ch' = onCmdTimerExpired(ch) /\ ch.cmdTimer
      /\ timely => NoAnswerDue
      /\ UNCHANGED <<timely, losses, inbox>>
  BY DEF CmdTimerExpires, budget
<1>3. /\ ch.retry = 0 => ch'.retry = ch.retry /\ ch'.air = ch.air
      /\ ch.retry # 0 => ch'.retry = ch.retry - 1 /\ ch'.air # <<>>
  BY <1>1, <1>2, CmdTimerRetry
<1>4. ch'.cmdTimer
  BY <1>1, <1>2, CmdTimerFields
<1>5. SUFFICES ASSUME timely PROVE Tries' /\ (ch.retry = 0 => losses > Retry)
  BY <1>2 DEF Tries
<1>6. Unanswered
  <2>1. ch.air = <<>> /\ All(inbox, Streamed)
    BY <1>2, <1>5 DEF NoAnswerDue, All, Streamed
  <2> QED
    BY <2>1, AllWeaker DEF Unanswered
<1>7. Retry - ch.retry < losses
  BY <1>2, <1>5, <1>6 DEF Tries
<1>8. CASE ch.retry = 0
  BY <1>1, <1>2, <1>3, <1>7, <1>8 DEF Tries
<1>9. CASE ch.retry # 0
  <2>1. Retry - ch'.retry <= losses
    BY <1>1, <1>3, <1>7, <1>9
  <2>2. ~Unanswered'
    BY <1>3, <1>9 DEF Unanswered
  <2> QED
    BY <1>2, <1>9, <2>1, <2>2 DEF Tries
<1> QED
  BY <1>8, <1>9
LEMMA TimersTries ==
    ASSUME Core, Tries, Timers
    PROVE  Tries'
<1>1. ch \in Channel
  BY DEF Core, Typed, Channel
<1>2. ASSUME BacklogTimerExpires PROVE Tries'
  <2>1. ch' = onBacklogTimerExpired(ch) /\ UNCHANGED <<timely, losses, inbox>>
    BY <1>2 DEF BacklogTimerExpires, budget
  <2>2. \/ ~ch'.cmdTimer
        \/ ch'.retry = Retry /\ ch'.air # <<>>
        \/ ch.cmdTimer /\ ch'.retry = ch.retry /\ ch'.air = ch.air
    BY <1>1, <2>1, BacklogTimerRetry
  <2> QED
    BY <2>1, <2>2, KeptTries DEF Unanswered
<1>3. ASSUME NextRequestTimerExpires PROVE Tries'
  <2>1. /\ ch' = bleUartSendCmdWithResp(ch, Command("REQUEST"))
        /\ UNCHANGED <<timely, losses, inbox>>
    BY <1>3 DEF NextRequestTimerExpires, budget
  <2>2. \/ ch'.retry = Retry /\ ch'.air # <<>>
        \/ ch.cmdTimer /\ ch'.retry = ch.retry /\ ch'.air = ch.air
    BY <1>1, <2>1, CommandType, SendRetry
  <2> QED
    BY <2>1, <2>2, KeptTries DEF Unanswered
<1> QED
  BY <1>2, <1>3, CmdTimerTries DEF Timers

\* What the end of a stream or a missing package leads to.
LEMMA AskTries ==
    ASSUME Core, Tries, NEW op \in {"ACK_PROC", "MISSED"}, Notified(op),
           NEW x \in Channel, NEW c \in Cmds, ch' = bleUartSendCmdWithResp(x, c),
           \/ x = ch
           \/ x.retry = Retry /\ x.air # <<>>
           \/ ch.cmdTimer /\ x.retry = ch.retry /\ x.air = ch.air
    PROVE  Tries'
<1>1. \/ ch'.retry = Retry /\ ch'.air # <<>>
      \/ x.cmdTimer /\ ch'.retry = x.retry /\ ch'.air = x.air
  BY SendRetry
<1>2. \/ ch'.retry = Retry /\ ch'.air # <<>>
      \/ ch.cmdTimer /\ ch'.retry = ch.retry /\ ch'.air = ch.air
  BY <1>1
<1>3. UNCHANGED <<timely, losses>>
  BY DEF Notified, budget
<1>4. ch'.air = ch.air => (Unanswered' => Unanswered)
  BY NotifiedTries
<1> QED
  BY <1>2, <1>3, <1>4, KeptTries

LEMMA bleUartRxTries ==
    ASSUME LinkIsFair, Core, Tries, bleUartRx
    PROVE  Tries'
<1>1. ch \in Channel /\ rx.missed_cnt \in Nat /\ Shaped(rx)
  BY ReceiverShaped, ShapedFields DEF Core, Typed, Channel
<1>2. UNCHANGED <<timely, losses>>
  BY DEF bleUartRx, OkArrives, onStartHugeChunkArrived, PackageArrives, Notified, budget,
         onStartHugeChunkAckProcArrived, onReplyMissingPackageArrived,
         onNoChunkAvailableArrived
<1>3. ASSUME OkArrives PROVE Tries'
  <2>1. ~ch'.cmdTimer
    BY <1>1, <1>3, StopFields DEF OkArrives
  <2> QED
    BY <1>2, <2>1, KeptTries
<1>4. ASSUME onStartHugeChunkArrived PROVE Tries'
  <2> DEFINE x == StopCmdTimer(ch)
  <2>1. x \in Channel /\ ~x.cmdTimer /\ ch' = bleUartSendCmdWithResp(x, Command("START_OK"))
    BY <1>1, <1>4, StopFields DEF onStartHugeChunkArrived
  <2> HIDE DEF x
  <2>2. ch'.retry = Retry /\ ch'.air # <<>>
    BY <2>1, CommandType, SendRetry
  <2> QED
    BY <1>2, <2>2, KeptTries
<1>5. ASSUME PackageArrives PROVE Tries'
  <2>1. UNCHANGED ch /\ Notified("PKG")
    BY <1>5 DEF PackageArrives
  <2>2. Unanswered' => Unanswered
    BY <2>1, NotifiedTries
  <2> QED
    BY <1>2, <2>1, <2>2, KeptTries
<1>6. ASSUME onStartHugeChunkAckProcArrived PROVE Tries'
  <2>1. Notified("ACK_PROC")
    BY <1>6 DEF onStartHugeChunkAckProcArrived
  <2>2. \E c \in Cmds : ch' = bleUartSendCmdWithResp(ch, c)
    <3> DEFINE r == CheckChunk(rx)
    <3>1. CASE r.missed_cnt = 0
      <4>1. ch' = bleUartSendCmdWithResp(ch, Command("ACK_OK"))
        BY <1>6, <3>1 DEF onStartHugeChunkAckProcArrived, hugeChunkDownloadFinished,
                          sendAckOkHugeChunk
      <4> QED
        BY <4>1, CommandType
    <3>2. CASE r.missed_cnt # 0
      <4>1. ch' = bleUartSendCmdWithResp(ch, MissingCmd(Least(r.missed)))
        BY <1>6, <3>2 DEF onStartHugeChunkAckProcArrived, sendRequestMissingPackage
      <4>2. Shaped(r) /\ r.missed = Holes(rx) /\ Holes(rx) # {}
        BY <1>6, <3>2, StreamEnded
      <4> HIDE DEF r
      <4>3. r.missed \in SUBSET Nat /\ r.missed # {}
        BY <4>2, ShapedFields
      <4> QED
        BY <4>1, <4>3, LeastIsMember, CommandType
    <3> QED
      BY <3>1, <3>2
  <2> QED
    BY <1>1, <2>1, <2>2, AskTries
<1>7. ASSUME onReplyMissingPackageArrived PROVE Tries'
  <2> DEFINE r == StoreMissing(rx, Head(inbox).payload)
  <2>1. Notified("MISSED")
    BY <1>7 DEF onReplyMissingPackageArrived
  <2>2. CASE r.missed = {}
    <3> DEFINE c == Command("ACK_OK")
               x == bleUartSendCmdWithResp(ch, c)
    <3>1. ch' = bleUartSendCmdWithResp(x, c)
      BY <1>7, <2>2 DEF onReplyMissingPackageArrived, hugeChunkDownloadFinished,
                        sendAckOkHugeChunk
    <3>2. c \in Cmds
      BY CommandType
    <3> HIDE DEF c
    <3>3. /\ x \in Channel
          /\ \/ x.retry = Retry /\ x.air # <<>>
             \/ ch.cmdTimer /\ x.retry = ch.retry /\ x.air = ch.air
      BY <1>1, <3>2, SendRetry
    <3> HIDE DEF x
    <3> QED
      BY <2>1, <3>1, <3>2, <3>3, AskTries
  <2>3. CASE r.missed # {}
    <3>1. ch' = bleUartSendCmdWithResp(ch, MissingCmd(Least(r.missed)))
      BY <1>7, <2>3 DEF onReplyMissingPackageArrived, sendRequestMissingPackage
    <3>2. Shaped(r)
      BY <1>7, Repaired
    <3> HIDE DEF r
    <3>3. r.missed \in SUBSET Nat
      BY <3>2, ShapedFields
    <3>4. MissingCmd(Least(r.missed)) \in Cmds
      BY <2>3, <3>3, LeastIsMember, CommandType
    <3> QED
      BY <1>1, <2>1, <3>1, <3>4, AskTries
  <2> QED
    BY <2>2, <2>3
<1>8. ASSUME onNoChunkAvailableArrived PROVE Tries'
  <2>1. ~ch'.cmdTimer
    BY <1>1, <1>8, NoChunkFields DEF onNoChunkAvailableArrived
  <2> QED
    BY <1>2, <2>1, KeptTries
<1> QED
  BY <1>3, <1>4, <1>5, <1>6, <1>7, <1>8 DEF bleUartRx

LEMMA DeviceTries ==
    ASSUME Core, Tries, Device
    PROVE  Tries'
<1>1. inbox \in Seq(Sound) /\ ch \in Channel /\ Typed
  BY DEF Core, Typed, Channel
<1>2. ASSUME DeviceHears PROVE Tries'
  <2> DEFINE c == Head(ch.air)
  <2>1. /\ c \in Cmds /\ UNCHANGED <<timely, losses>>
        /\ ch'.cmdTimer <=> ch.cmdTimer
        /\ timely => (ch.cmdTimer <=> c.op # "OK")
    BY <1>2, Heard
  <2>2. ch'.retry = ch.retry
    <3>1. ch' = [ch EXCEPT !.air = Tail(@)] /\ ch.air # <<>>
      BY <1>2 DEF DeviceHears
    <3> QED
      BY <1>1, <3>1, HeardFields
  <2>3. PICK a \in Answers(c) : inbox' = inbox \o a
    BY <1>2 DEF DeviceHears
  <2> HIDE DEF c
  <2>4. SUFFICES ASSUME timely, ch.cmdTimer PROVE Tries'
    BY <2>1 DEF Tries
  <2>5. c.op # "OK"
    BY <2>1, <2>4
  <2>6. a \in Seq(Sound) /\ ~All(a, Streamed \cup {"MISSED"})
    <3>1. a \in Seq(Sound)
      BY <1>1, <2>1, AnswersSound
    <3>2. \E i \in DOMAIN a : a[i].op \in {"OK", "START", "NO_CHUNK"}
      <4> DEFINE k == Message("OK")
                 m == MissedReply(c.pkg)
      <4>1. k.op = "OK" /\ Offer.op \in {"START", "NO_CHUNK"}
        BY DEF Message, Offer
      <4>2. a \in {<<Offer>>, <<k, m>>, <<m, k>>, <<k>>}
        BY <2>1, <2>5 DEF Answers, Cmds
      <4> HIDE DEF k, m
      <4>3. CASE a = <<Offer>>
        BY <4>1, <4>3
      <4>4. CASE a = <<k, m>>
        <5>1. 1 \in DOMAIN a /\ a[1] = k
          BY <4>4
        <5> QED
          BY <4>1, <5>1
      <4>5. CASE a = <<m, k>>
        <5>1. 2 \in DOMAIN a /\ a[2] = k
          BY <4>5
        <5> QED
          BY <4>1, <5>1
      <4>6. CASE a = <<k>>
        BY <4>1, <4>6
      <4> QED
        BY <4>2, <4>3, <4>4, <4>5, <4>6
    <3> QED
      BY <3>1, <3>2 DEF All, Streamed
  <2>7. ~Unanswered'
    <3>1. \A i \in DOMAIN a : Len(inbox) + i \in DOMAIN inbox' /\ inbox'[Len(inbox) + i] = a[i]
      BY <1>1, <2>3, <2>6
    <3>2. All(inbox', Streamed \cup {"MISSED"}) => All(a, Streamed \cup {"MISSED"})
      BY <3>1 DEF All
    <3> QED
      BY <2>6, <3>2 DEF Unanswered
  <2> QED
    BY <2>1, <2>2, <2>4, <2>7, KeptTries
<1>3. ASSUME DeviceStreams \/ DeviceEndsStream PROVE Tries'
  <2>1. UNCHANGED <<ch, timely, losses>>
    BY <1>3 DEF DeviceStreams, DeviceEndsStream, central, budget
  <2>2. \/ UNCHANGED inbox
        \/ \E e \in Sound : inbox' = Append(inbox, e)
    <3>1. CASE DeviceEndsStream
      BY <3>1, MessageSound DEF DeviceEndsStream
    <3>2. CASE DeviceStreams
      <4> DEFINE m == [op |-> "PKG", chunk |-> dev.chunk, byte |-> dev.next % Wrap,
                       payload |-> <<dev.chunk, dev.next>>]
      <4>1. dev.chunk \in Chunk /\ dev.next \in Nat
        BY <1>1, <3>2, DevFields DEF Typed, DeviceStreams
      <4>2. m \in Sound
        BY <4>1, MessageSound
      <4>3. inbox' = Append(inbox, m) \/ inbox' = inbox
        BY <3>2 DEF DeviceStreams
      <4> HIDE DEF m
      <4> QED
        BY <4>2, <4>3
    <3> QED
      BY <1>3, <3>1, <3>2
  <2>3. Unanswered' => Unanswered
    <3>1. ASSUME NEW e \in Sound
          PROVE  \A ops : All(Append(inbox, e), ops) => All(inbox, ops)
      BY <1>1, AppendOps
    <3>2. All(inbox', Streamed \cup {"MISSED"}) => All(inbox, Streamed \cup {"MISSED"})
      BY <2>2, <3>1
    <3> QED
      BY <2>1, <3>2 DEF Unanswered
  <2> QED
    BY <2>1, <2>3, KeptTries DEF Tries
<1> QED
  BY <1>2, <1>3 DEF Device

LEMMA LinkTries ==
    ASSUME Core, Tries, Link
    PROVE  Tries' /\ losses' >= losses
<1>1. /\ losses \in Nat /\ losses' = losses + 1 /\ UNCHANGED timely
  BY DownloadAssumption DEF Core, Typed, Link, LoseCmd, LoseMessage
<1>2. /\ ch'.retry = ch.retry
      /\ ch'.cmdTimer <=> ch.cmdTimer
  <2>1. ch \in Channel
    BY DEF Core, Typed, Channel
  <2>2. \/ UNCHANGED ch
        \/ ch.air # <<>> /\ ch' = [ch EXCEPT !.air = Tail(@)]
    BY DEF Link, LoseCmd, LoseMessage, central
  <2>3. ASSUME ch.air # <<>>, ch' = [ch EXCEPT !.air = Tail(@)]
        PROVE  /\ ch'.retry = ch.retry
               /\ ch'.cmdTimer <=> ch.cmdTimer
    BY <2>1, <2>3, HeardFields
  <2> QED
    BY <2>2, <2>3
<1>3. ch.retry \in 0..Retry /\ Retry \in Nat
  BY ChannelFields, RetryAssumption DEF Core, Typed, Channel
<1> QED
  BY <1>1, <1>2, <1>3 DEF Tries

LEMMA TriesNext ==
    ASSUME LinkIsFair, Core, Tries, [Next]_vars
    PROVE  Tries'
<1>1. ASSUME UNCHANGED <<timely, ch, inbox, losses>> PROVE Tries'
  BY <1>1 DEF Tries, Unanswered
<1> QED
  BY <1>1, TimersTries, bleUartRxTries, DeviceTries, LinkTries
     DEF Next, Controller, MainThread, budget, vars

LEMMA InitTries == Init => Tries
<1> SUFFICES ASSUME Init PROVE Tries
  OBVIOUS
<1>1. ch.retry = Retry /\ ch.air # <<>>
  <2> DEFINE x == IdleChannel(NoCmd)
  <2>1. x \in Channel /\ ~x.cmdTimer
    BY RetryAssumption DEF IdleChannel, Channel, ChannelType
  <2>2. ch = bleUartSendCmdWithResp(x, Command("REQUEST"))
    BY DEF Init
  <2> HIDE DEF x
  <2> QED
    BY <2>1, <2>2, CommandType, SendRetry
<1>2. Retry - ch.retry <= losses /\ ~Unanswered
  BY <1>1, RetryAssumption DEF Init, Unanswered
<1> QED
  BY <1>2 DEF Tries

\* On a timely link that loses packages only, the channel is free when the
\* backlog timer expires: it is not restarted, and m_nextRequestTimer, which is
\* due right after it, finds no acknowledgement in the backlog that is waiting
\* to be sent.
Fresh == timely /\ losses = 0 =>
    /\ ch.backlogTimer => ch.backlogRetries = BacklogRetry
    /\ Waits("REQUEST") => Last = "ACK_OK"

\* The channel is as good as before: what Fresh is about is left alone.
LEMMA KeptFresh ==
    ASSUME Fresh, losses' = 0 => losses = 0, UNCHANGED timely,
           ch'.last_cmd = ch.last_cmd, ch'.backlog = ch.backlog,
           ch'.backlogTimer <=> ch.backlogTimer, ch'.backlogRetries = ch.backlogRetries
    PROVE  Fresh'
BY DEF Fresh, Waits, Last

\* A command is sent, or put in the backlog on top of the others.
LEMMA AskFresh ==
    ASSUME NEW x \in Channel, NEW c \in Cmds, c.op # "REQUEST", ~x.backlogTimer \/ x.cmdTimer,
           ch' = bleUartSendCmdWithResp(x, c)
    PROVE  Fresh'
<1>1. CASE x.cmdTimer
  BY <1>1, SendBusy DEF Fresh, Waits
<1>2. CASE ~x.cmdTimer
  <2>1. ~ch'.backlogTimer
    BY <1>2, SendFree
  <2> QED
    BY <2>1 DEF Fresh, Waits
<1> QED
  BY <1>1, <1>2

LEMMA TimersFresh ==
    ASSUME LinkIsFair, Core, Tries, Fresh, Timers
    PROVE  Fresh'
<1>1. /\ Typed /\ Flight /\ Stage /\ ch \in Channel
      /\ ch.retry \in 0..Retry /\ Retry \in Nat /\ ch.backlogTimer \in BOOLEAN
  BY ChannelFields, RetryAssumption DEF Core, Rest, Typed, Channel
<1>2. UNCHANGED <<timely, losses>>
  BY DEF Timers, CmdTimerExpires, BacklogTimerExpires, NextRequestTimerExpires, budget
<1>3. SUFFICES ASSUME timely, losses = 0 PROVE Fresh'
  BY <1>2 DEF Fresh
<1>4. ch.cmdTimer => ~NoAnswerDue
  <2>1. NoAnswerDue => ch.air = <<>> /\ All(inbox, Streamed)
    BY DEF NoAnswerDue, All, Streamed
  <2>2. All(inbox, Streamed) => All(inbox, Streamed \cup {"MISSED"})
    BY DEF All
  <2> QED
    BY <1>1, <1>3, <2>1, <2>2 DEF Flight
<1>5. ~CmdTimerExpires
  BY <1>3, <1>4 DEF CmdTimerExpires
<1>6. ASSUME BacklogTimerExpires PROVE Fresh'
  <2>1. ch.cmdTimer => ch.retry >= Retry
    BY <1>1, <1>3 DEF Tries
  <2>2. /\ ~ch.cmdTimer /\ ch.backlogTimer
        /\ ch' = onBacklogTimerExpired(ch)
    BY <1>1, <1>3, <1>4, <1>6, <2>1 DEF BacklogTimerExpires
  <2>3. ~ch'.backlogTimer
    BY <1>1, <2>2, BacklogTimerFields
  <2> QED
    BY <2>3 DEF Fresh, Waits
<1>7. ASSUME NextRequestTimerExpires PROVE Fresh'
  <2> DEFINE c == Command("REQUEST")
  <2>1. c \in Cmds /\ c.op = "REQUEST" /\ ch' = bleUartSendCmdWithResp(ch, c)
    BY <1>7, CommandType DEF NextRequestTimerExpires
  <2>2. ~ch.backlogTimer
    BY <1>3, <1>7, RetryAssumption DEF NextRequestTimerExpires, Restarted, Fresh
  <2>3. Last = "ACK_OK"
    BY <1>1, <1>7, <2>2
       DEF NextRequestTimerExpires, Stage, Asking, Taking, Repairing, Acking, Waits
  <2> HIDE DEF c
  <2>4. CASE ch.cmdTimer
    BY <1>1, <2>1, <2>3, <2>4, SendBusy DEF Fresh, Last
  <2>5. CASE ~ch.cmdTimer
    <3>1. ~ch'.backlogTimer
      BY <1>1, <2>1, <2>2, <2>5, SendFree
    <3> QED
      BY <3>1 DEF Fresh, Waits
  <2> QED
    BY <2>4, <2>5
<1> QED
  BY <1>5, <1>6, <1>7 DEF Timers

LEMMA bleUartRxFresh ==
    ASSUME LinkIsFair, Core, Fresh, bleUartRx
    PROVE  Fresh'
<1>1. /\ Typed /\ Stage /\ ch \in Channel /\ inbox \in Seq(Sound)
  BY DEF Core, Rest, Typed, Channel
<1>2. UNCHANGED <<timely, losses>>
  BY DEF bleUartRx, OkArrives, onStartHugeChunkArrived, PackageArrives,
         onStartHugeChunkAckProcArrived, onReplyMissingPackageArrived,
         onNoChunkAvailableArrived, Notified, budget
<1>3. ASSUME OkArrives PROVE Fresh'
  BY <1>1, <1>2, <1>3, StopFields, KeptFresh DEF OkArrives
<1>4. ASSUME PackageArrives PROVE Fresh'
  BY <1>2, <1>4, KeptFresh DEF PackageArrives
<1>5. ASSUME onNoChunkAvailableArrived PROVE Fresh'
  BY <1>1, <1>2, <1>5, NoChunkFields, KeptFresh DEF onNoChunkAvailableArrived
<1>6. ASSUME onStartHugeChunkArrived PROVE Fresh'
  <2> DEFINE y == StopCmdTimer(ch)
  <2>1. inbox # <<>> /\ Head(inbox).op = "START"
        /\ ch' = bleUartSendCmdWithResp(y, Command("START_OK"))
    BY <1>6 DEF onStartHugeChunkArrived, Notified
  <2>2. \A ops : All(inbox, ops) => "START" \in ops
    BY <1>1, <2>1, TailOps
  <2>3. ~ch.backlogTimer
    BY <1>1, <2>2 DEF Stage, Asking, Taking, Repairing, Requesting, Acking
  <2>4. y \in Channel /\ ~y.backlogTimer
    BY <1>1, <2>3, StopFields
  <2> HIDE DEF y
  <2> QED
    BY <2>1, <2>4, CommandType, AskFresh
<1>7. ASSUME onStartHugeChunkAckProcArrived PROVE Fresh'
  <2> DEFINE r == CheckChunk(rx)
  <2>1. ~ch.backlogTimer
    BY <1>7, StreamEnded
  <2>2. CASE r.missed_cnt = 0
    <3>1. ch' = bleUartSendCmdWithResp(ch, Command("ACK_OK"))
      BY <1>7, <2>2
         DEF onStartHugeChunkAckProcArrived, hugeChunkDownloadFinished, sendAckOkHugeChunk
    <3> QED
      BY <1>1, <2>1, <3>1, CommandType, AskFresh
  <2>3. CASE r.missed_cnt # 0
    <3> DEFINE c == MissingCmd(Least(r.missed))
    <3>1. ch' = bleUartSendCmdWithResp(ch, c)
      BY <1>7, <2>3 DEF onStartHugeChunkAckProcArrived, sendRequestMissingPackage
    <3>2. c \in Cmds /\ c.op = "MISSING"
      <4>1. Shaped(r) /\ r.missed = Holes(rx) /\ Holes(rx) # {}
        BY <1>7, <2>3, StreamEnded
      <4> HIDE DEF r
      <4>2. r.missed \in SUBSET Nat /\ r.missed # {}
        BY <4>1, ShapedFields
      <4> QED
        BY <4>2, LeastIsMember, CommandType
    <3> HIDE DEF c
    <3> QED
      BY <1>1, <2>1, <3>1, <3>2, AskFresh
  <2> QED
    BY <2>2, <2>3
<1>8. ASSUME onReplyMissingPackageArrived PROVE Fresh'
  <2> DEFINE r == StoreMissing(rx, Head(inbox).payload)
  <2>1. ~ch.backlogTimer
    BY <1>8, Repaired
  <2>2. CASE r.missed = {}
    <3> DEFINE c == Command("ACK_OK")
               y == bleUartSendCmdWithResp(ch, c)
    <3>1. ch' = bleUartSendCmdWithResp(y, c)
      BY <1>8, <2>2
         DEF onReplyMissingPackageArrived, hugeChunkDownloadFinished, sendAckOkHugeChunk
    <3>2. c \in Cmds /\ c.op = "ACK_OK"
      BY CommandType
    <3> HIDE DEF c
    <3>3. y \in Channel /\ y.cmdTimer
      BY <1>1, <3>2, SendRetry
    <3> HIDE DEF y
    <3> QED
      BY <3>1, <3>2, <3>3, AskFresh
  <2>3. CASE r.missed # {}
    <3> DEFINE c == MissingCmd(Least(r.missed))
    <3>1. ch' = bleUartSendCmdWithResp(ch, c)
      BY <1>8, <2>3 DEF onReplyMissingPackageArrived, sendRequestMissingPackage
    <3>2. c \in Cmds /\ c.op = "MISSING"
      <4>1. Shaped(r)
        BY <1>8, Repaired
      <4> HIDE DEF r
      <4>2. r.missed \in SUBSET Nat
        BY <4>1, ShapedFields
      <4> QED
        BY <2>3, <4>2, LeastIsMember, CommandType
    <3> HIDE DEF c
    <3> QED
      BY <1>1, <2>1, <3>1, <3>2, AskFresh
  <2> QED
    BY <2>2, <2>3
<1> QED
  BY <1>3, <1>4, <1>5, <1>6, <1>7, <1>8 DEF bleUartRx

LEMMA InitFresh == Init => Fresh
<1> SUFFICES ASSUME Init PROVE Fresh
  OBVIOUS
<1>1. ~ch.backlogTimer
  <2> DEFINE x == IdleChannel(NoCmd)
  <2>1. x \in Channel /\ ~x.cmdTimer /\ ~x.backlogTimer
    BY RetryAssumption DEF IdleChannel, Channel, ChannelType
  <2>2. ch = bleUartSendCmdWithResp(x, Command("REQUEST"))
    BY DEF Init
  <2> HIDE DEF x
  <2> QED
    BY <2>1, <2>2, CommandType, SendFree
<1> QED
  BY <1>1 DEF Fresh, Waits

LEMMA FreshNext ==
    ASSUME LinkIsFair, Core, Tries, Fresh, [Next]_vars
    PROVE  Fresh'
<1>1. ch \in Channel /\ losses \in Nat
  BY DownloadAssumption DEF Core, Typed, Channel
<1>2. ASSUME Device PROVE Fresh'
  <2>1. UNCHANGED <<timely, losses>>
    BY <1>2 DEF Device, DeviceHears, DeviceStreams, DeviceEndsStream, budget
  <2>2. ch' = ch \/ (ch.air # <<>> /\ ch' = [ch EXCEPT !.air = Tail(@)])
    BY <1>2 DEF Device, DeviceHears, DeviceStreams, DeviceEndsStream, central
  <2>3. CASE ch' = ch
    BY <2>1, <2>3, KeptFresh
  <2>4. CASE ch.air # <<>> /\ ch' = [ch EXCEPT !.air = Tail(@)]
    BY <1>1, <2>1, <2>4, HeardFields, KeptFresh
  <2> QED
    BY <2>2, <2>3, <2>4
<1>3. ASSUME Link PROVE Fresh'
  <2>1. losses' # 0
    BY <1>1, <1>3 DEF Link, LoseCmd, LoseMessage
  <2> QED
    BY <2>1 DEF Fresh
<1>4. ASSUME UNCHANGED <<timely, ch, losses>> PROVE Fresh'
  BY <1>4, KeptFresh
<1> QED
  BY <1>2, <1>3, <1>4, TimersFresh, bleUartRxFresh
     DEF Next, Controller, MainThread, budget, vars

-----------------------------------------------------------------------------
(* The files: their invariant *)

\* The controller is done with the chunk it has received.
Over == Last \in {"REQUEST", "ACK_OK"} \/ nextTimer \/ Waits("REQUEST")

\* The event by which chunk k is written; intact is lost with the payload.
Write(k, intact) ==
    [op |-> "WRITE", chunk |-> k, content |-> Whole(k), intact |-> intact]

\* Chunk k is whole on disk, or will be.
Stored(k) == files[k] = Whole(k) \/ \E i \in DOMAIN mainq : mainq[i] = Write(k, TRUE)

Unsaved(k) ==
    /\ files[k] # Whole(k)
    /\ \A i \in DOMAIN mainq : mainq[i].op = "WRITE" => mainq[i].chunk # k

SavedBefore(k) == \A j \in Chunk : j < k => files[j] = Whole(j)

\* The events for the main thread that one event of the controller causes.
Queue ==
    \/ mainq = <<>>
    \/ mainq = <<Done(FALSE)>>
    \/ mainq = <<Done(TRUE)>> /\ SavedBefore(Len(Counts) + 1)
    \/ \E k \in Chunk : mainq = <<Write(k, TRUE)>> /\ SavedBefore(k)
    \/ \E k \in Chunk : /\ mainq = <<Write(k, FALSE), Write(k, TRUE)>>
                        /\ SavedBefore(k) /\ files[k] # Whole(k)

\* The chunks behind the device, and the one the controller is done with.
Behind ==
    /\ \A k \in Chunk : k < dev.chunk => Stored(k)
    /\ dev.phase = "sent" /\ Over => Stored(dev.chunk)

\* On a timely link that loses packages only, the device hears the
\* acknowledgement before it is asked for a chunk again,
AckFirst == timely /\ losses = 0 =>
    (dev.phase = "sent" /\ Last \in {"ACK_OK", "REQUEST"} =>
        Last = "ACK_OK" /\ ch.air # <<>> /\ All(ch.air, {"ACK_OK"}))

\* and no chunk is received twice.
Ahead == timely /\ losses = 0 =>
    \A k \in Chunk :
        k > dev.chunk \/ (k = dev.chunk /\ ~(dev.phase = "sent" /\ Over)) => Unsaved(k)

Filing == Queue /\ Behind /\ AckFirst /\ Ahead

\* A step that leaves alone which chunks are stored.
LEMMA KeptFiling ==
    ASSUME Typed, Filing, UNCHANGED timely, dev'.chunk = dev.chunk,
           losses' = 0 => losses = 0,
           dev'.phase = "sent" /\ Over' => dev.phase = "sent" /\ Over,
           timely /\ losses = 0 /\ dev.phase = "sent" /\ Over
               => dev'.phase = "sent" /\ Over',
           \A k \in Chunk : (Stored(k) => Stored(k)') /\ (Unsaved(k) => Unsaved(k)'),
           AckFirst', Queue'
    PROVE  Filing'
<1>1. Behind'
  <2>1. dev.phase = "sent" => dev.chunk \in Chunk
    BY DEF Typed
  <2> QED
    BY <2>1 DEF Filing, Behind
<1>2. Ahead'
  <2>1. SUFFICES ASSUME timely', losses' = 0 PROVE Ahead'
    BY DEF Ahead
  <2> QED
    BY <2>1 DEF Filing, Ahead
<1> QED
  BY <1>1, <1>2 DEF Filing

\* A step that has nothing to do with the files.
LEMMA QuietFiling ==
    ASSUME Typed, Filing, UNCHANGED <<timely, mainq, files>>, dev'.chunk = dev.chunk,
           losses' = 0 => losses = 0,
           dev'.phase = "sent" /\ Over' => dev.phase = "sent" /\ Over,
           timely /\ losses = 0 /\ dev.phase = "sent" /\ Over
               => dev'.phase = "sent" /\ Over',
           AckFirst'
    PROVE  Filing'
<1>1. \A k \in Chunk : (Stored(k) => Stored(k)') /\ (Unsaved(k) => Unsaved(k)')
  BY DEF Stored, Unsaved
<1>2. Queue'
  BY DEF Filing, Queue, SavedBefore
<1> QED
  BY <1>1, <1>2, KeptFiling

\* A step that tells the main thread of success or failure.
LEMMA DoneFiling ==
    ASSUME Typed, Filing, UNCHANGED <<timely, files, dev, losses, nextTimer>>, mainq = <<>>,
           Over' <=> Over, AckFirst', NEW success \in BOOLEAN,
           mainq' = <<Done(success)>>, success => SavedBefore(Len(Counts) + 1)
    PROVE  Filing'
<1>1. /\ DOMAIN mainq' = 1..1 /\ mainq'[1] = Done(success)
  OBVIOUS
<1>2. Done(success).op = "DONE"
  BY DEF Done
<1>3. \A k \in Chunk : (Stored(k) => Stored(k)') /\ (Unsaved(k) => Unsaved(k)')
  <2>1. ASSUME NEW k \in Chunk PROVE (Stored(k) => Stored(k)') /\ (Unsaved(k) => Unsaved(k)')
    <3>1. Stored(k) => files[k] = Whole(k)
      BY DEF Stored
    <3>2. Stored(k) => Stored(k)'
      BY <3>1 DEF Stored
    <3>3. \A i \in DOMAIN mainq' : mainq'[i].op # "WRITE"
      BY <1>1, <1>2
    <3>4. Unsaved(k) => Unsaved(k)'
      BY <3>3 DEF Unsaved
    <3> QED
      BY <3>2, <3>4
  <2> QED
    BY <2>1
<1>4. Queue'
  <2>1. CASE success
    <3>1. mainq' = <<Done(TRUE)>> /\ SavedBefore(Len(Counts) + 1)'
      BY <2>1 DEF SavedBefore
    <3> QED
      BY <3>1 DEF Queue
  <2>2. CASE ~success
    <3>1. mainq' = <<Done(FALSE)>>
      BY <2>2
    <3> QED
      BY <3>1 DEF Queue
  <2> QED
    BY <2>1, <2>2
<1> QED
  BY <1>3, <1>4, KeptFiling

-----------------------------------------------------------------------------
(* Timers expire *)

LEMMA CmdTimerFiling ==
    ASSUME Core, Filing, CmdTimerExpires, mainq = <<>>
    PROVE  Filing'
<1>1. /\ Typed /\ ch \in Channel /\ ch.last_cmd \in Cmds
  BY DEF Core, Typed, Channel
<1>2. /\ UNCHANGED <<nextTimer, dev, files, timely, losses>>
      /\ timely => ch.air = <<>>
      /\ ch' = onCmdTimerExpired(ch)
      /\ mainq' = mainq \/ mainq' = Append(mainq, Done(FALSE))
  BY DEF CmdTimerExpires, budget, NoAnswerDue
<1>3. Last' = Last /\ (Over' <=> Over)
  <2>1. ch'.last_cmd = ch.last_cmd /\ ch'.backlog = ch.backlog
        /\ (ch'.backlogTimer <=> ch.backlogTimer)
    BY <1>1, <1>2, CmdTimerFields
  <2> QED
    BY <1>2, <2>1 DEF Last, Over, Waits
<1>4. AckFirst'
  BY <1>2, <1>3 DEF Filing, AckFirst
<1>5. CASE mainq' = mainq
  BY <1>1, <1>2, <1>3, <1>4, <1>5, QuietFiling
<1>6. CASE mainq' = Append(mainq, Done(FALSE))
  <2>1. mainq' = <<Done(FALSE)>>
    BY <1>6
  <2> QED
    BY <1>1, <1>2, <1>3, <1>4, <2>1, DoneFiling
<1> QED
  BY <1>2, <1>5, <1>6

LEMMA BacklogTimerFiling ==
    ASSUME Core, Fresh, Filing, BacklogTimerExpires
    PROVE  Filing'
<1> DEFINE c == Newest(ch.backlog)
           p == Append(ch.air, c)
<1>1. /\ Typed /\ Stage /\ ch \in Channel /\ ch.air \in Seq(Cmds) /\ ch.backlogTimer
  BY ChannelFields DEF Core, Rest, Typed, Channel, BacklogTimerExpires
<1>2. /\ UNCHANGED <<nextTimer, dev, mainq, files, timely, losses>>
      /\ timely /\ ~ch.cmdTimer => ch.air = <<>>
      /\ ch' = onBacklogTimerExpired(ch)
  BY DEF BacklogTimerExpires, budget, main, NoAnswerDue
<1>3. /\ ch.backlog # <<>> /\ (Waits("REQUEST") <=> c.op = "REQUEST")
      /\ \/ c.op = "MISSING" /\ Last = "MISSING" /\ ~nextTimer
         \/ c.op = "ACK_OK" /\ nextTimer
         \/ c.op = "REQUEST" /\ ~nextTimer
  BY <1>1 DEF Stage, Asking, Taking, Repairing, Requesting, Acking, Waits
<1>4. c \in Cmds
  BY <1>1, <1>3, ChannelFields, NewestEntry
<1>5. /\ ch.cmdTimer => /\ ch'.last_cmd = ch.last_cmd /\ ch'.air = ch.air
                        /\ ch'.backlog # <<>> /\ Newest(ch'.backlog) = c
                        /\ ch'.backlogTimer
      /\ ~ch.cmdTimer => /\ ch'.last_cmd = c /\ ch'.air = p
                         /\ ~ch'.backlogTimer
  BY <1>1, <1>2, <1>3, BacklogTimerFields
<1>6. ch.air = <<>> /\ c.op = "ACK_OK" => p # <<>> /\ All(p, {"ACK_OK"})
  <2>1. SUFFICES ASSUME ch.air = <<>>, c.op = "ACK_OK" PROVE p # <<>> /\ All(p, {"ACK_OK"})
    OBVIOUS
  <2>2. All(ch.air, {"ACK_OK"})
    BY <2>1, EmptyAll
  <2>3. p # <<>>
    BY <1>1, <1>4, Appended
  <2>4. \A ops : All(ch.air, ops) /\ c.op \in ops => All(p, ops)
    BY <1>1, <1>4, AppendOps
  <2> HIDE DEF c, p
  <2> QED
    BY <2>1, <2>2, <2>3, <2>4
<1> HIDE DEF c, p
<1>7. Over' <=> Over
  <2>1. CASE ch.cmdTimer
    <3>1. Waits("REQUEST")' <=> Waits("REQUEST")
      BY <1>3, <1>5, <2>1 DEF Waits
    <3> QED
      BY <1>2, <1>5, <2>1, <3>1 DEF Over, Last
  <2>2. CASE ~ch.cmdTimer
    BY <1>2, <1>3, <1>5, <2>2 DEF Over, Last, Waits
  <2> QED
    BY <2>1, <2>2
<1>8. AckFirst'
  <2>1. SUFFICES ASSUME timely, losses = 0 PROVE AckFirst'
    BY <1>2 DEF AckFirst
  <2>2. CASE ch.cmdTimer
    BY <1>2, <1>5, <2>2 DEF Filing, AckFirst, Last
  <2>3. CASE ~ch.cmdTimer
    <3>1. ch.air = <<>> /\ ~(dev.phase = "sent" /\ Last \in {"ACK_OK", "REQUEST"})
      BY <1>2, <2>1, <2>3 DEF Filing, AckFirst
    <3>2. c.op = "REQUEST" => dev.phase # "sent"
      BY <1>3, <2>1, <3>1 DEF Fresh
    <3> QED
      BY <1>2, <1>3, <1>5, <1>6, <2>3, <3>1, <3>2 DEF AckFirst, Last
  <2> QED
    BY <2>2, <2>3
<1> QED
  BY <1>1, <1>2, <1>7, <1>8, QuietFiling

LEMMA NextTimerFiling ==
    ASSUME Core, Fresh, Filing, NextRequestTimerExpires
    PROVE  Filing'
<1> DEFINE c == Command("REQUEST")
<1>1. /\ Typed /\ Flight /\ Stage /\ ch \in Channel /\ ch.air \in Seq(Cmds) /\ nextTimer
  BY ChannelFields DEF Core, Rest, Typed, Channel, NextRequestTimerExpires
<1>2. /\ UNCHANGED <<dev, mainq, files, timely, losses>>
      /\ ~nextTimer'
      /\ ch' = bleUartSendCmdWithResp(ch, c)
  BY DEF NextRequestTimerExpires, budget, main
<1>3. c \in Cmds /\ c.op = "REQUEST"
  BY CommandType
<1>4. All(ch.air, {"START_OK", "ACK_OK"})
  BY <1>1 DEF Stage, Asking, Taking, Repairing, Acking, Waits
<1> HIDE DEF c
<1>5. /\ ch.cmdTimer => /\ ch'.last_cmd = ch.last_cmd /\ ch'.air = ch.air
                        /\ ch'.backlogTimer /\ ch'.backlog # <<>>
                        /\ Newest(ch'.backlog) = c
      /\ ~ch.cmdTimer => ch'.last_cmd = c
  BY <1>1, <1>2, <1>3, SendFree, SendBusy
<1>6. Over /\ Over'
  BY <1>1, <1>3, <1>5 DEF Over, Last, Waits
<1>7. AckFirst'
  <2>1. SUFFICES ASSUME timely, losses = 0 PROVE AckFirst'
    BY <1>2 DEF AckFirst
  <2>2. CASE ch.cmdTimer
    BY <1>2, <1>5, <2>2 DEF Filing, AckFirst, Last
  <2>3. CASE ~ch.cmdTimer
    <3>1. ch.air = <<>>
      BY <1>1, <1>4, <2>1, <2>3, FreeAir
    <3>2. Last = "ACK_OK"
      BY <1>1, <2>1, <2>3 DEF NextRequestTimerExpires, Stage, Asking, Taking, Repairing,
                              Acking, Waits
    <3>3. dev.phase # "sent"
      BY <2>1, <3>1, <3>2 DEF Filing, AckFirst
    <3> QED
      BY <1>2, <3>3 DEF AckFirst
  <2> QED
    BY <2>2, <2>3
<1> QED
  BY <1>1, <1>2, <1>6, <1>7, QuietFiling

-----------------------------------------------------------------------------
(* Notifications that write no file *)

LEMMA OkFiling ==
    ASSUME Core, Filing, OkArrives
    PROVE  Filing'
<1>1. Typed /\ ch \in Channel
  BY DEF Core, Typed, Channel
<1>2. /\ UNCHANGED <<dev, files, timely, losses, nextTimer, mainq>>
      /\ ch' = StopCmdTimer(ch)
  BY DEF OkArrives, Notified, budget
<1>3. /\ ch'.last_cmd = ch.last_cmd /\ ch'.air = ch.air /\ ch'.backlog = ch.backlog
      /\ ch'.backlogTimer <=> ch.backlogTimer
  BY <1>1, <1>2, StopFields
<1>4. (Over' <=> Over) /\ AckFirst'
  BY <1>2, <1>3 DEF Over, Last, Waits, Filing, AckFirst
<1> QED
  BY <1>1, <1>2, <1>4, QuietFiling

LEMMA PackageFiling ==
    ASSUME Core, Filing, PackageArrives
    PROVE  Filing'
<1>1. Typed
  BY DEF Core
<1>2. UNCHANGED <<dev, files, timely, losses, nextTimer, mainq, ch>>
  BY DEF PackageArrives, Notified, budget
<1>3. (Over' <=> Over) /\ AckFirst'
  BY <1>2 DEF Over, Last, Waits, Filing, AckFirst
<1> QED
  BY <1>1, <1>2, <1>3, QuietFiling

LEMMA StartFiling ==
    ASSUME Core, Filing, onStartHugeChunkArrived
    PROVE  Filing'
<1> DEFINE c == Command("START_OK")
           y == StopCmdTimer(ch)
<1>1. Typed /\ Stage /\ ch \in Channel /\ inbox \in Seq(Sound)
  BY DEF Core, Rest, Typed, Channel
<1>2. /\ inbox # <<>> /\ Head(inbox).op = "START"
      /\ UNCHANGED <<nextTimer, dev, timely, losses, mainq, files>>
      /\ ch' = bleUartSendCmdWithResp(y, c)
  BY DEF onStartHugeChunkArrived, Notified, budget
<1>3. c \in Cmds /\ c.op = "START_OK" /\ y \in Channel /\ ~y.cmdTimer
  BY <1>1, CommandType, StopFields
<1> HIDE DEF c, y
<1>4. ch'.last_cmd = c /\ (ch'.backlogTimer <=> ch.backlogTimer)
  <2>1. y.backlogTimer <=> ch.backlogTimer
    BY <1>1, StopFields DEF y
  <2> QED
    BY <1>2, <1>3, <2>1, SendFree
<1>5. \A ops : All(inbox, ops) => "START" \in ops
  BY <1>1, <1>2, TailOps
<1>6. ~nextTimer /\ ~ch.backlogTimer /\ (dev.phase = "offered" \/ Last = "START_OK")
  BY <1>1, <1>5 DEF Stage, Asking, Taking, Repairing, Requesting, Acking
<1>7. ~Over' /\ AckFirst' /\ (dev.phase = "sent" => ~Over)
  BY <1>2, <1>3, <1>4, <1>6 DEF Over, AckFirst, Last, Waits
<1> QED
  BY <1>1, <1>2, <1>7, QuietFiling

LEMMA NoChunkFiling ==
    ASSUME Core, Filing, onNoChunkAvailableArrived, mainq = <<>>
    PROVE  Filing'
<1>1. Typed /\ Messages /\ Stage /\ ch \in Channel /\ inbox \in Seq(Sound) /\ dev \in Devs
  BY DEF Core, Rest, Typed, Channel
<1>2. /\ inbox # <<>> /\ Head(inbox).op = "NO_CHUNK"
      /\ UNCHANGED <<nextTimer, dev, timely, losses, files>>
      /\ ch' = [StopCmdTimer(ch) EXCEPT !.air = Append(@, Command("OK"))]
      /\ mainq' = <<Done(TRUE)>>
  BY DEF onNoChunkAvailableArrived, Notified, budget
<1>3. Over' <=> Over
  <2>1. /\ ch'.last_cmd = ch.last_cmd /\ ch'.backlog = ch.backlog
        /\ ch'.backlogTimer <=> ch.backlogTimer
    BY <1>1, <1>2, NoChunkFields
  <2> QED
    BY <1>2, <2>1 DEF Over, Last, Waits
<1>4. ~Lacks(inbox, "NO_CHUNK")
  BY <1>1, <1>2, TailOps
<1>5. dev.chunk \notin Chunk
  BY <1>1, <1>4 DEF Messages
<1>6. dev.phase = "idle"
  BY <1>1, <1>5 DEF Typed
<1>7. AckFirst'
  BY <1>2, <1>6 DEF AckFirst
<1>8. SavedBefore(Len(Counts) + 1)
  <2>1. \A k \in Chunk : k < dev.chunk
    BY <1>1, <1>5, ChunkIsInterval, DevFields
  <2>2. \A k \in Chunk : Stored(k)
    BY <2>1 DEF Filing, Behind
  <2> QED
    BY <2>2 DEF Stored, SavedBefore
<1> QED
  BY <1>1, <1>2, <1>3, <1>7, <1>8, DoneFiling

-----------------------------------------------------------------------------
(* The device and the link *)

LEMMA HearsFiling ==
    ASSUME LinkIsFair, Core, Filing, DeviceHears
    PROVE  Filing'
<1> DEFINE c == Head(ch.air)
<1>1. /\ Typed /\ Messages /\ Stage /\ ch \in Channel /\ ch.air \in Seq(Cmds) /\ dev \in Devs
  BY ChannelFields DEF Core, Rest, Typed, Channel
<1>2. /\ ch.air # <<>> /\ c \in Cmds /\ ch'.last_cmd = ch.last_cmd
      /\ ch'.backlog = ch.backlog /\ (ch'.backlogTimer <=> ch.backlogTimer)
      /\ UNCHANGED <<nextTimer, timely, losses, mainq, files>>
  BY Heard DEF DeviceHears, main
<1>3. dev' = IF c.op = "REQUEST" /\ dev.chunk \in Chunk
             THEN [dev EXCEPT !.phase = "offered"]
             ELSE IF c.op = "START_OK" /\ dev.phase = "offered"
             THEN [dev EXCEPT !.phase = "streaming", !.next = 0, !.gap = 0]
             ELSE IF c.op = "ACK_OK" /\ dev.phase = "sent"
             THEN [dev EXCEPT !.phase = "idle", !.chunk = @ + 1]
             ELSE dev
  BY DEF DeviceHears
<1>4. /\ \A ops : All(ch.air, ops) => c.op \in ops
      /\ \A op : Lacks(ch.air, op) => c.op # op
      /\ \A d : Same(ch.air, d) => c = d
  BY <1>1, <1>2, TailOps, TailSays
<1> HIDE DEF c
<1>5. Over' <=> Over
  BY <1>2 DEF Over, Last, Waits
<1>6. timely /\ losses = 0 /\ dev.phase = "sent" /\ Last \in {"ACK_OK", "REQUEST"}
        => c.op = "ACK_OK"
  BY <1>4 DEF Filing, AckFirst
<1>7. CASE c.op = "ACK_OK" /\ dev.phase = "sent"
  <2>1. dev.chunk \in Chunk
    BY <1>1, <1>7 DEF Typed
  <2>2. dev'.chunk = dev.chunk + 1 /\ dev'.phase = "idle" /\ dev.chunk \in Nat
    <3>1. dev' = [dev EXCEPT !.phase = "idle", !.chunk = @ + 1]
      BY <1>3, <1>7
    <3>2. dev'.chunk = dev.chunk + 1 /\ dev'.phase = "idle"
      BY <1>1, <2>1, <3>1, DevMoves
    <3>3. dev.chunk \in Nat
      BY <2>1, ChunkIsInterval
    <3> QED
      BY <3>2, <3>3
  <2>3. Over
    <3>1. ~Taking
      BY <1>4, <1>7 DEF Taking, Conversation
    <3>2. ~Repairing
      BY <1>2, <1>4, <1>7 DEF Repairing, Requesting, MissingCmd
    <3> QED
      BY <1>1, <3>1, <3>2 DEF Stage, Asking, Acking, Over
  <2>4. Chunk \subseteq Nat
    BY ChunkIsInterval
  <2>5. Behind'
    <3>1. \A k \in Chunk : k < dev'.chunk => Stored(k)
      BY <1>7, <2>2, <2>3, <2>4 DEF Filing, Behind
    <3> QED
      BY <1>2, <2>2, <3>1 DEF Behind, Stored
  <2>6. AckFirst'
    BY <2>2 DEF AckFirst
  <2>7. Ahead'
    BY <1>2, <2>2, <2>4 DEF Filing, Ahead, Unsaved
  <2>8. Queue'
    BY <1>2 DEF Filing, Queue, SavedBefore
  <2> QED
    BY <2>5, <2>6, <2>7, <2>8 DEF Filing
<1>8. CASE ~(c.op = "ACK_OK" /\ dev.phase = "sent")
  <2>1. /\ dev'.chunk = dev.chunk
        /\ dev' = dev \/ dev'.phase \in {"offered", "streaming"}
    <3>1. CASE c.op = "REQUEST" /\ dev.chunk \in Chunk
      BY <1>1, <1>3, <3>1, DevMoves
    <3>2. CASE c.op = "START_OK" /\ dev.phase = "offered"
      BY <1>1, <1>3, <3>2, DevMoves
    <3> QED
      BY <1>3, <1>8, <3>1, <3>2
  <2>2. AckFirst'
    <3>1. SUFFICES ASSUME timely, losses = 0 PROVE AckFirst'
      BY <1>2 DEF AckFirst
    <3>2. dev.phase = "sent" => Last \notin {"ACK_OK", "REQUEST"}
      BY <1>6, <1>8, <3>1
    <3> QED
      BY <1>2, <2>1, <3>2 DEF AckFirst, Last
  <2>3. timely /\ losses = 0 /\ dev.phase = "sent" /\ Over => dev' = dev
    <3>1. SUFFICES ASSUME timely, losses = 0, dev.phase = "sent", Over PROVE dev' = dev
      OBVIOUS
    <3>2. c.op # "REQUEST"
      <4>1. CASE Asking
        BY <1>6, <1>8, <3>1, <4>1 DEF Asking
      <4>2. CASE Taking
        BY <3>1, <4>2 DEF Taking, Over, Waits
      <4>3. CASE Repairing
        BY <3>1, <4>3 DEF Repairing, Requesting, MissingCmd, Over, Waits
      <4>4. CASE Acking
        BY <1>4, <4>4 DEF Acking
      <4> QED
        BY <1>1, <4>1, <4>2, <4>3, <4>4 DEF Stage
    <3> QED
      BY <1>3, <1>8, <3>1, <3>2
  <2> QED
    BY <1>1, <1>2, <1>5, <2>1, <2>2, <2>3, QuietFiling
<1> QED
  BY <1>7, <1>8

LEMMA StreamsFiling ==
    ASSUME Core, Filing, DeviceStreams
    PROVE  Filing'
<1>1. Typed /\ dev \in Devs
  BY DEF Core, Typed
<1>2. /\ UNCHANGED <<ch, nextTimer, mainq, files, timely, losses>>
      /\ dev.phase = "streaming"
      /\ \/ dev' = [dev EXCEPT !.next = @ + 1, !.gap = 0]
         \/ dev.gap < MaxGap /\ dev' = [dev EXCEPT !.next = @ + 1, !.gap = @ + 1]
  BY DEF DeviceStreams, central
<1>3. dev'.chunk = dev.chunk /\ dev'.phase = "streaming"
  <2>1. CASE dev' = [dev EXCEPT !.next = @ + 1, !.gap = 0]
    BY <1>1, <1>2, <2>1, DevMoves
  <2>2. CASE dev.gap < MaxGap /\ dev' = [dev EXCEPT !.next = @ + 1, !.gap = @ + 1]
    BY <1>1, <1>2, <2>2, DevMoves
  <2> QED
    BY <1>2, <2>1, <2>2
<1>4. AckFirst'
  BY <1>3 DEF AckFirst
<1> QED
  BY <1>1, <1>2, <1>3, <1>4, QuietFiling

LEMMA EndsStreamFiling ==
    ASSUME Core, Filing, DeviceEndsStream
    PROVE  Filing'
<1>1. Typed /\ Stage /\ dev \in Devs
  BY DEF Core, Rest, Typed
<1>2. /\ UNCHANGED <<ch, nextTimer, mainq, files, timely, losses>>
      /\ dev.phase = "streaming"
      /\ dev' = [dev EXCEPT !.phase = "sent"]
  BY DEF DeviceEndsStream, central, budget
<1>3. dev'.chunk = dev.chunk
  BY <1>1, <1>2, DevMoves
<1>4. Last = "START_OK" /\ ~nextTimer /\ ~ch.backlogTimer
  BY <1>1, <1>2 DEF Stage, Asking, Taking, Repairing, Acking
<1>5. ~Over' /\ AckFirst'
  BY <1>2, <1>4 DEF Over, AckFirst, Last, Waits
<1> QED
  BY <1>1, <1>2, <1>3, <1>5, QuietFiling

LEMMA LinkFiling ==
    ASSUME Core, Filing, Link
    PROVE  Filing'
<1>1. Typed /\ ch \in Channel /\ losses \in Nat
  BY DownloadAssumption DEF Core, Typed, Channel
<1>2. /\ UNCHANGED <<nextTimer, dev, mainq, files, timely>>
      /\ losses' = losses + 1
  BY DEF Link, LoseCmd, LoseMessage, central, main
<1>3. /\ ch'.last_cmd = ch.last_cmd /\ ch'.backlog = ch.backlog
      /\ ch'.backlogTimer <=> ch.backlogTimer
  <2>1. CASE LoseCmd
    BY <1>1, <2>1, HeardFields DEF LoseCmd
  <2>2. CASE LoseMessage
    BY <2>2 DEF LoseMessage, central
  <2> QED
    BY <2>1, <2>2 DEF Link
<1>4. losses' # 0
  BY <1>1, <1>2
<1>5. AckFirst'
  BY <1>4 DEF AckFirst
<1>6. Over' <=> Over
  BY <1>2, <1>3 DEF Over, Waits, Last
<1> QED
  BY <1>1, <1>2, <1>4, <1>5, <1>6, QuietFiling

-----------------------------------------------------------------------------
(* A chunk is acknowledged and handed over *)

LEMMA NoHolesWhole ==
    ASSUME NEW x, NEW S, x.vec \in [DOMAIN x.vec -> S], DOMAIN x.vec = 0..(x.count - 1),
           NEW k \in Chunk, x.count = Counts[k], Holes(x) = {},
           \A t \in DOMAIN x.vec : x.vec[t] \in {None, <<k, t>>}
    PROVE  x.vec = Whole(k)
<1>1. \A t \in DOMAIN x.vec : x.vec[t] = <<k, t>>
  BY DEF Holes
<1> QED
  BY <1>1 DEF Whole

LEMMA OneEntry ==
    ASSUME NEW w
    PROVE  /\ DOMAIN <<w>> = 1..1 /\ <<w>>[1] = w /\ Append(<<>>, w) = <<w>>
           /\ [i \in 1..1 |-> w] = <<w>>
<1>1. DOMAIN <<w>> = 1..1 /\ <<w>>[1] = w /\ Append(<<>>, w) = <<w>>
  OBVIOUS
<1>2. [i \in 1..1 |-> w] = <<w>>
  OBVIOUS
<1> QED
  BY <1>1, <1>2

LEMMA TwoEntries ==
    ASSUME NEW u, NEW w
    PROVE  /\ DOMAIN <<u, w>> = 1..2 /\ <<u, w>>[1] = u /\ <<u, w>>[2] = w
           /\ Append(<<u>>, w) = <<u, w>>
<1> DEFINE q == <<u>>
           a == Append(q, w)
<1>1. q \in Seq({u, w}) /\ Len(q) = 1 /\ q[1] = u
  OBVIOUS
<1> HIDE DEF q
<1>2. a \in Seq({u, w}) /\ DOMAIN a = 1..2 /\ a[1] = u /\ a[2] = w
  <2> DEFINE X == {u, w}
  <2>1. q \in Seq(X) /\ w \in X
    BY <1>1
  <2> HIDE DEF X
  <2>2. /\ DOMAIN a = 1..(Len(q) + 1) /\ a[Len(q) + 1] = w /\ a \in Seq(X)
        /\ \A i \in 1..Len(q) : a[i] = q[i]
    BY <2>1, AppendAt
  <2> HIDE DEF a
  <2>3. DOMAIN a = 1..2 /\ a[2] = w /\ a[1] = q[1]
    BY <1>1, <2>2
  <2> QED
    BY <1>1, <2>2, <2>3 DEF X
<1> HIDE DEF a
<1>3. a = [i \in 1..2 |-> a[i]]
  BY <1>2
<1>4. [i \in 1..2 |-> a[i]] = <<u, w>>
  BY <1>2
<1>5. a = <<u, w>>
  BY <1>3, <1>4
<1>6. DOMAIN <<u, w>> = 1..2 /\ <<u, w>>[1] = u /\ <<u, w>>[2] = w
  OBVIOUS
<1> QED
  BY <1>5, <1>6 DEF a, q

LEMMA PayloadDestroyed ==
    ASSUME NEW k, NEW data, NEW old, NEW new
    PROVE  [[op |-> "WRITE", chunk |-> k, content |-> data, intact |-> old]
               EXCEPT !.intact = new]
           = [op |-> "WRITE", chunk |-> k, content |-> data, intact |-> new]
OBVIOUS

LEMMA HandedOver ==
    ASSUME NEW r, r.vec = Whole(kind)
    PROVE  /\ writeReceivedChunkToFile(<<>>, r) = <<Write(kind, TRUE)>>
           /\ writeReceivedChunkToFile(<<Write(kind, TRUE)>>, r)
                = <<Write(kind, FALSE), Write(kind, TRUE)>>
<1> DEFINE w == Write(kind, TRUE)
           u == Write(kind, FALSE)
<1>1. Destroyed(<<>>) = <<>>
  BY DEF Destroyed
<1>2. [w EXCEPT !.intact = FALSE] = u
  BY PayloadDestroyed DEF Write
<1>3. w.op = "WRITE"
  BY DEF Write
<1>4. \A q : writeReceivedChunkToFile(q, r) = Append(Destroyed(q), w)
  BY DEF writeReceivedChunkToFile, Write
<1> HIDE DEF w, u
<1>5. Destroyed(<<w>>) = <<u>>
  <2> DEFINE q == <<w>>
  <2>1. DOMAIN q = 1..1 /\ q[1] = w
    BY OneEntry
  <2>2. Destroyed(q) = [i \in DOMAIN q |-> IF q[i].op = "WRITE"
                                           THEN [q[i] EXCEPT !.intact = FALSE] ELSE q[i]]
    BY DEF Destroyed
  <2> HIDE DEF q
  <2>3. Destroyed(q) = [i \in 1..1 |-> u]
    BY <1>2, <1>3, <2>1, <2>2
  <2> QED
    BY <2>3, OneEntry DEF q
<1>6. Append(<<>>, w) = <<w>> /\ Append(<<u>>, w) = <<u, w>>
  BY OneEntry, TwoEntries
<1> QED
  BY <1>1, <1>4, <1>5, <1>6 DEF w, u

LEMMA HandedOverFiling ==
    ASSUME Typed, Filing, UNCHANGED <<timely, files, dev, losses>>, mainq = <<>>,
           dev.phase = "sent", ~Over, nextTimer', AckFirst',
           \/ mainq' = <<Write(dev.chunk, TRUE)>>
           \/ /\ mainq' = <<Write(dev.chunk, FALSE), Write(dev.chunk, TRUE)>>
              /\ timely /\ losses = 0
    PROVE  Filing'
<1> DEFINE k == dev.chunk
<1>1. k \in Chunk /\ k \in Nat /\ Chunk \subseteq Nat
  BY ChunkIsInterval DEF Typed
<1>2. Write(k, TRUE).op = "WRITE" /\ Write(k, TRUE).chunk = k
      /\ Write(k, FALSE).op = "WRITE" /\ Write(k, FALSE).chunk = k
  BY DEF Write
<1>3. \A j \in Chunk : Stored(j) => files[j] = Whole(j)
  BY DEF Stored
<1>4. SavedBefore(k)
  BY <1>3 DEF Filing, Behind, SavedBefore
<1>5. timely /\ losses = 0 => files[k] # Whole(k)
  BY <1>1 DEF Filing, Ahead, Unsaved
<1>6. /\ \E i \in DOMAIN mainq' : mainq'[i] = Write(k, TRUE)
      /\ \A i \in DOMAIN mainq' : mainq'[i] \in {Write(k, FALSE), Write(k, TRUE)}
  <2> DEFINE w == Write(k, TRUE)
             u == Write(k, FALSE)
  <2> HIDE DEF w, u
  <2>1. CASE mainq' = <<w>>
    <3>1. DOMAIN mainq' = 1..1 /\ mainq'[1] = w
      BY <2>1, OneEntry
    <3>2. 1 \in DOMAIN mainq' /\ \A i \in DOMAIN mainq' : i = 1
      BY <3>1
    <3> QED
      BY <3>1, <3>2 DEF w
  <2>2. CASE mainq' = <<u, w>>
    <3>1. DOMAIN mainq' = 1..2 /\ mainq'[1] = u /\ mainq'[2] = w
      BY <2>2, TwoEntries
    <3>2. 2 \in DOMAIN mainq' /\ \A i \in DOMAIN mainq' : i = 1 \/ i = 2
      BY <3>1
    <3> QED
      BY <3>1, <3>2 DEF u, w
  <2> QED
    BY <2>1, <2>2 DEF u, w
<1>7. Queue'
  <2>1. CASE mainq' = <<Write(k, TRUE)>>
    BY <1>1, <1>4, <2>1 DEF Queue, SavedBefore
  <2>2. CASE mainq' = <<Write(k, FALSE), Write(k, TRUE)>> /\ timely /\ losses = 0
    BY <1>1, <1>4, <1>5, <2>2 DEF Queue, SavedBefore
  <2> QED
    BY <2>1, <2>2
<1>8. Behind'
  <2>1. Stored(k)'
    BY <1>6 DEF Stored
  <2>2. \A j \in Chunk : j < k => files[j] = Whole(j)
    BY <1>4 DEF SavedBefore
  <2> QED
    BY <2>1, <2>2 DEF Behind, Stored
<1>9. Ahead'
  <2>1. SUFFICES ASSUME timely, losses = 0, NEW j \in Chunk, j > k PROVE Unsaved(j)'
    BY DEF Ahead, Over
  <2>2. files[j] # Whole(j)
    BY <2>1 DEF Filing, Ahead, Unsaved
  <2>3. \A i \in DOMAIN mainq' : mainq'[i].chunk = k
    BY <1>2, <1>6
  <2>4. j # k
    BY <1>1, <2>1
  <2> QED
    BY <2>2, <2>3, <2>4 DEF Unsaved
<1> QED
  BY <1>7, <1>8, <1>9 DEF Filing

LEMMA AckProcFiling ==
    ASSUME LinkIsFair, Core, Filing, onStartHugeChunkAckProcArrived, mainq = <<>>
    PROVE  Filing'
<1> DEFINE r == CheckChunk(rx)
<1>1. Typed /\ ch \in Channel /\ SlotsAreOwn /\ ch.air \in Seq(Cmds)
  BY ChannelFields DEF Core, Rest, Typed, Channel
<1>2. UNCHANGED <<kind, dev, files, timely, losses>>
  BY DEF onStartHugeChunkAckProcArrived, Notified, budget
<1>3. /\ dev.phase = "sent" /\ kind = dev.chunk /\ kind \in Chunk
      /\ Last = "START_OK" /\ ~nextTimer /\ ~ch.backlogTimer
      /\ timely /\ ~ch.cmdTimer => ch.air = <<>>
  BY StreamEnded
<1>4. /\ rx.vec \in [0..(rx.count - 1) -> (Chunk \X Nat) \cup {None}]
      /\ rx.count = Counts[kind]
      /\ r.vec = rx.vec
      /\ r.missed_cnt = 0 => Holes(rx) = {}
  BY StreamEnded
<1>5. ~Over
  BY <1>3 DEF Over, Waits
<1>6. CASE r.missed_cnt = 0
  <2> DEFINE c == Command("ACK_OK")
             o == Append(ch.air, c)
  <2>1. /\ ch' = bleUartSendCmdWithResp(ch, c) /\ nextTimer'
        /\ mainq' = writeReceivedChunkToFile(mainq, r)
    BY <1>6 DEF onStartHugeChunkAckProcArrived, hugeChunkDownloadFinished, sendAckOkHugeChunk
  <2>2. c \in Cmds /\ c.op = "ACK_OK"
    BY CommandType
  <2> HIDE DEF c
  <2>3. /\ ch.cmdTimer => ch'.last_cmd = ch.last_cmd /\ ch'.air = ch.air
        /\ ~ch.cmdTimer => ch'.last_cmd = c /\ ch'.air = o
    BY <1>1, <2>1, <2>2, SendFree, SendBusy
  <2>4. All(ch.air, {"ACK_OK"}) => All(o, {"ACK_OK"})
    BY <1>1, <2>2, AppendOps
  <2>5. o # <<>>
    BY <1>1, <2>2, Appended
  <2> HIDE DEF o, r
  <2>6. rx.vec = Whole(kind)
    <3>1. DOMAIN rx.vec = 0..(rx.count - 1)
      BY <1>4
    <3>2. \A t \in DOMAIN rx.vec : rx.vec[t] \in {None, <<kind, t>>}
      BY <1>1 DEF SlotsAreOwn
    <3> QED
      BY <1>3, <1>4, <1>6, <3>1, <3>2, NoHolesWhole
  <2>7. mainq' = <<Write(dev.chunk, TRUE)>>
    BY <1>3, <1>4, <2>1, <2>6, HandedOver
  <2>8. AckFirst'
    <3>1. SUFFICES ASSUME timely, losses = 0 PROVE AckFirst'
      BY <1>2 DEF AckFirst
    <3>2. CASE ch.cmdTimer
      BY <1>3, <2>3, <3>2 DEF AckFirst, Last
    <3>3. CASE ~ch.cmdTimer
      <4>1. All(o, {"ACK_OK"})
        BY <1>3, <2>4, <3>1, <3>3, EmptyAll
      <4> QED
        BY <2>2, <2>3, <2>5, <3>3, <4>1 DEF AckFirst, Last
    <3> QED
      BY <3>2, <3>3
  <2> QED
    BY <1>1, <1>2, <1>3, <1>5, <2>1, <2>7, <2>8, HandedOverFiling
<1>7. CASE r.missed_cnt # 0
  <2> DEFINE c == MissingCmd(Least(r.missed))
  <2>1. ch' = bleUartSendCmdWithResp(ch, c) /\ UNCHANGED <<nextTimer, mainq>>
    BY <1>7 DEF onStartHugeChunkAckProcArrived, sendRequestMissingPackage
  <2>2. c \in Cmds /\ c.op = "MISSING"
    <3>1. Shaped(r) /\ r.missed = Holes(rx) /\ Holes(rx) # {}
      BY <1>7, StreamEnded
    <3> HIDE DEF r
    <3>2. r.missed \in SUBSET Nat /\ r.missed # {}
      BY <3>1, ShapedFields
    <3> QED
      BY <3>2, LeastIsMember, CommandType
  <2> HIDE DEF c, r
  <2>3. /\ ch'.last_cmd = ch.last_cmd \/ ch'.last_cmd = c
        /\ ch'.backlogTimer => Newest(ch'.backlog) = c
    BY <1>1, <1>3, <2>1, <2>2, SendFree, SendBusy
  <2>4. Last' \in {"START_OK", "MISSING"}
    BY <1>3, <2>2, <2>3 DEF Last
  <2>5. ~Over' /\ AckFirst'
    BY <1>3, <2>1, <2>2, <2>3, <2>4 DEF Over, AckFirst, Waits
  <2> QED
    BY <1>1, <1>2, <1>5, <2>1, <2>5, QuietFiling
<1> QED
  BY <1>6, <1>7

LEMMA MissedFiling ==
    ASSUME LinkIsFair, Core, Filing, onReplyMissingPackageArrived, mainq = <<>>
    PROVE  Filing'
<1> DEFINE r == StoreMissing(rx, Head(inbox).payload)
<1>1. Typed /\ ch \in Channel /\ ch.air \in Seq(Cmds)
  BY ChannelFields DEF Core, Typed, Channel
<1>2. UNCHANGED <<kind, dev, files, timely, losses>>
  BY DEF onReplyMissingPackageArrived, Notified, budget
<1>3. /\ dev.phase = "sent" /\ kind = dev.chunk /\ kind \in Chunk
      /\ Last = "MISSING" /\ ~nextTimer /\ ~ch.backlogTimer
      /\ timely /\ losses = 0 /\ ch.air = <<>>
  BY Repaired
<1>4. /\ r.vec \in [DOMAIN r.vec -> (Chunk \X Nat) \cup {None}]
      /\ DOMAIN r.vec = 0..(r.count - 1)
      /\ r.count = Counts[kind] /\ Shaped(r)
      /\ r.missed = Holes(r)
      /\ \A t \in DOMAIN r.vec : r.vec[t] \in {None, <<kind, t>>}
  BY Repaired
<1>5. ~Over
  BY <1>3 DEF Over, Waits
<1>6. CASE r.missed = {}
  <2> DEFINE c == Command("ACK_OK")
             y == bleUartSendCmdWithResp(ch, c)
             o == Append(ch.air, c)
             q == writeReceivedChunkToFile(mainq, r)
  <2>1. /\ ch' = bleUartSendCmdWithResp(y, c) /\ nextTimer'
        /\ mainq' = writeReceivedChunkToFile(q, r)
    BY <1>6 DEF onReplyMissingPackageArrived, hugeChunkDownloadFinished, sendAckOkHugeChunk
  <2>2. c \in Cmds /\ c.op = "ACK_OK"
    BY CommandType
  <2> HIDE DEF c
  <2>3. /\ y \in Channel /\ y.cmdTimer
        /\ ch.cmdTimer => y.last_cmd = ch.last_cmd /\ y.air = ch.air
        /\ ~ch.cmdTimer => y.last_cmd = c /\ y.air = o
    BY <1>1, <2>2, SendFree, SendBusy
  <2> HIDE DEF y
  <2>4. ch'.last_cmd = y.last_cmd /\ ch'.air = y.air
    BY <2>1, <2>2, <2>3, SendBusy
  <2>5. All(o, {"ACK_OK"})
    <3>1. All(ch.air, {"ACK_OK"})
      BY <1>3, EmptyAll
    <3>2. \A ops : All(ch.air, ops) /\ c.op \in ops => All(o, ops)
      BY <1>1, <2>2, AppendOps
    <3> HIDE DEF o
    <3> QED
      BY <2>2, <3>1, <3>2
  <2>6. o # <<>>
    BY <1>1, <2>2, Appended
  <2> HIDE DEF o, r
  <2>7. r.vec = Whole(kind)
    BY <1>3, <1>4, <1>6, NoHolesWhole
  <2>8. mainq' = <<Write(dev.chunk, FALSE), Write(dev.chunk, TRUE)>>
    BY <1>3, <2>1, <2>7, HandedOver
  <2>9. AckFirst'
    <3>1. CASE ch.cmdTimer
      BY <1>3, <2>3, <2>4, <3>1 DEF AckFirst, Last
    <3>2. CASE ~ch.cmdTimer
      BY <2>2, <2>3, <2>4, <2>5, <2>6, <3>2 DEF AckFirst, Last
    <3> QED
      BY <3>1, <3>2
  <2> QED
    BY <1>1, <1>2, <1>3, <1>5, <2>1, <2>8, <2>9, HandedOverFiling
<1>7. CASE r.missed # {}
  <2> DEFINE c == MissingCmd(Least(r.missed))
  <2>1. ch' = bleUartSendCmdWithResp(ch, c) /\ UNCHANGED <<nextTimer, mainq>>
    BY <1>7 DEF onReplyMissingPackageArrived, sendRequestMissingPackage
  <2>2. c \in Cmds /\ c.op = "MISSING"
    <3> HIDE DEF r
    <3>1. r.missed \in SUBSET Nat
      BY <1>4, ShapedFields
    <3> QED
      BY <1>7, <3>1, LeastIsMember, CommandType
  <2> HIDE DEF c, r
  <2>3. /\ ch'.last_cmd = ch.last_cmd \/ ch'.last_cmd = c
        /\ ch'.backlogTimer => Newest(ch'.backlog) = c
    BY <1>1, <1>3, <2>1, <2>2, SendFree, SendBusy
  <2>4. Last' = "MISSING"
    BY <1>3, <2>2, <2>3 DEF Last
  <2>5. ~Over' /\ AckFirst'
    BY <1>3, <2>1, <2>2, <2>3, <2>4 DEF Over, AckFirst, Waits
  <2> QED
    BY <1>1, <1>2, <1>5, <2>1, <2>5, QuietFiling
<1> QED
  BY <1>6, <1>7

-----------------------------------------------------------------------------
(* The main thread writes *)

LEMMA EventMeans ==
    ASSUME NEW k \in Chunk, NEW intact \in BOOLEAN
    PROVE  /\ Write(k, intact).op = "WRITE" /\ Write(k, intact).chunk = k
           /\ Write(k, intact).content = Whole(k)
           /\ Write(k, intact).intact <=> intact
           /\ Done(intact).op = "DONE"
           /\ Done(intact).success <=> intact
BY DEF Write, Done

LEMMA OneLeft ==
    ASSUME NEW u, NEW w
    PROVE  /\ Head(<<w>>) = w /\ Tail(<<w>>) = <<>>
           /\ Head(<<u, w>>) = u /\ Tail(<<u, w>>) = <<w>>
<1>1. Head(<<w>>) = w /\ Tail(<<w>>) = <<>> /\ Head(<<u, w>>) = u
  OBVIOUS
<1>2. Tail(<<u, w>>) = <<w>>
  OBVIOUS
<1> QED
  BY <1>1, <1>2

\* One event is handled: what the files hold and what is told.
LEMMA Handled ==
    ASSUME MainTyped, Queue, MainThread
    PROVE  \/ /\ \E success \in BOOLEAN :
                    /\ mainq = <<Done(success)>>
                    /\ success => SavedBefore(Len(Counts) + 1)
                    /\ reported' = reported \cup {success}
              /\ mainq' = <<>> /\ UNCHANGED files
           \/ /\ UNCHANGED reported
              /\ \E k \in Chunk :
                    /\ SavedBefore(k)
                    /\ \/ /\ mainq = <<Write(k, TRUE)>> /\ mainq' = <<>>
                          /\ files' = [files EXCEPT ![k] = Whole(k)]
                       \/ /\ mainq = <<Write(k, FALSE), Write(k, TRUE)>>
                          /\ mainq' = <<Write(k, TRUE)>>
                          /\ files[k] # Whole(k)
                          /\ \E data : files' = [files EXCEPT ![k] = data]
<1> DEFINE e == Head(mainq)
<1>1. /\ mainq # <<>> /\ mainq' = Tail(mainq)
      /\ \/ /\ e.op = "WRITE" /\ UNCHANGED reported
            /\ \E data \in {e.content} \cup (IF e.intact THEN {} ELSE {Garbage}) :
                 files' = [files EXCEPT ![e.chunk] = data]
         \/ /\ e.op = "DONE" /\ UNCHANGED files
            /\ reported' = reported \cup {e.success}
  BY DEF MainThread
<1> HIDE DEF e
<1>2. ASSUME NEW success \in BOOLEAN, mainq = <<Done(success)>>,
             success => SavedBefore(Len(Counts) + 1)
      PROVE  /\ mainq' = <<>> /\ UNCHANGED files
             /\ reported' = reported \cup {success}
  <2>1. e = Done(success) /\ mainq' = <<>>
    BY <1>1, <1>2, OneLeft DEF e
  <2>2. e.op = "DONE" /\ e.success = success
    BY <2>1, Zenon DEF Done
  <2> QED
    BY <1>1, <2>1, <2>2
<1>3. ASSUME NEW k \in Chunk, mainq = <<Write(k, TRUE)>>
      PROVE  /\ mainq' = <<>> /\ UNCHANGED reported
             /\ files' = [files EXCEPT ![k] = Whole(k)]
  <2>1. e = Write(k, TRUE) /\ mainq' = <<>>
    BY <1>1, <1>3, OneLeft DEF e
  <2>2. e.op = "WRITE" /\ e.chunk = k /\ e.content = Whole(k) /\ e.intact
    BY <2>1, EventMeans
  <2> QED
    BY <1>1, <2>1, <2>2
<1>4. ASSUME NEW k \in Chunk, mainq = <<Write(k, FALSE), Write(k, TRUE)>>
      PROVE  /\ mainq' = <<Write(k, TRUE)>> /\ UNCHANGED reported
             /\ \E data : files' = [files EXCEPT ![k] = data]
  <2>1. e = Write(k, FALSE) /\ mainq' = <<Write(k, TRUE)>>
    BY <1>1, <1>4, OneLeft DEF e
  <2>2. e.op = "WRITE" /\ e.chunk = k
    BY <2>1, EventMeans
  <2> QED
    BY <1>1, <2>1, <2>2
<1>5. CASE mainq = <<Done(FALSE)>>
  BY <1>2, <1>5
<1>6. CASE mainq = <<Done(TRUE)>> /\ SavedBefore(Len(Counts) + 1)
  BY <1>2, <1>6
<1>7. CASE \E k \in Chunk : mainq = <<Write(k, TRUE)>> /\ SavedBefore(k)
  BY <1>3, <1>7
<1>8. CASE \E k \in Chunk : /\ mainq = <<Write(k, FALSE), Write(k, TRUE)>>
                            /\ SavedBefore(k) /\ files[k] # Whole(k)
  BY <1>4, <1>8
<1> QED
  BY <1>1, <1>5, <1>6, <1>7, <1>8 DEF Queue

LEMMA MainFiling ==
    ASSUME Core, MainTyped, Filing, MainThread
    PROVE  Filing'
<1>1. Typed /\ DOMAIN files = Chunk /\ Queue /\ Chunk \subseteq Nat
  BY ChunkIsInterval DEF Core, MainTyped, Filing
<1>2. UNCHANGED <<ch, nextTimer, dev, timely, losses>>
  BY DEF MainThread, budget
<1>3. AckFirst' /\ (Over' <=> Over)
  BY <1>2 DEF Filing, AckFirst, Over, Last, Waits
<1>4. ASSUME NEW success \in BOOLEAN, mainq = <<Done(success)>>,
             mainq' = <<>>, UNCHANGED files
      PROVE  Filing'
  <2>1. \A i \in DOMAIN mainq : mainq[i].op = "DONE"
    <3>1. \A i \in DOMAIN mainq : mainq[i] = Done(success)
      BY <1>4, OneEntry
    <3> QED
      BY <3>1 DEF Done
  <2>2. \A k \in Chunk : (Stored(k) => Stored(k)') /\ (Unsaved(k) => Unsaved(k)')
    <3>1. ASSUME NEW k \in Chunk PROVE Stored(k) => Stored(k)'
      <4>1. Write(k, TRUE).op # "DONE"
        BY DEF Write
      <4> QED
        BY <1>4, <2>1, <4>1 DEF Stored
    <3>2. ASSUME NEW k \in Chunk PROVE Unsaved(k) => Unsaved(k)'
      BY <1>4 DEF Unsaved
    <3> QED
      BY <3>1, <3>2
  <2>3. Queue'
    BY <1>4 DEF Queue
  <2> QED
    BY <1>1, <1>2, <1>3, <2>2, <2>3, KeptFiling
<1>5. ASSUME NEW k \in Chunk, SavedBefore(k), mainq = <<Write(k, TRUE)>>, mainq' = <<>>,
             files' = [files EXCEPT ![k] = Whole(k)]
      PROVE  Filing'
  <2>1. files'[k] = Whole(k) /\ \A j \in Chunk : j # k => files'[j] = files[j]
    BY <1>1, <1>5
  <2>2. 1 \in DOMAIN mainq /\ \A i \in DOMAIN mainq : mainq[i] = Write(k, TRUE)
    <3> DEFINE w == Write(k, TRUE)
    <3> HIDE DEF w
    <3>1. mainq = <<w>>
      BY <1>5 DEF w
    <3>2. DOMAIN mainq = 1..1 /\ mainq[1] = w
      BY <3>1, OneEntry
    <3>3. 1 \in DOMAIN mainq /\ \A i \in DOMAIN mainq : i = 1
      BY <3>2
    <3> QED
      BY <3>2, <3>3 DEF w
  <2>3. Write(k, TRUE).op = "WRITE" /\ Write(k, TRUE).chunk = k
    BY EventMeans
  <2>4. ASSUME NEW j \in Chunk PROVE Stored(j) => Stored(j)'
    <3>1. CASE j = k
      BY <2>1, <3>1 DEF Stored
    <3>2. CASE j # k
      <4>1. Write(j, TRUE) # Write(k, TRUE)
        BY <2>3, <3>2, EventMeans
      <4>2. Stored(j) => files[j] = Whole(j)
        BY <2>2, <4>1, Zenon DEF Stored
      <4> QED
        BY <2>1, <3>2, <4>2 DEF Stored
    <3> QED
      BY <3>1, <3>2
  <2>5. ASSUME NEW j \in Chunk PROVE Unsaved(j) => Unsaved(j)'
    <3>1. mainq[1].op = "WRITE" /\ mainq[1].chunk = k
      BY <2>2, <2>3
    <3>2. Unsaved(j) => j # k /\ files[j] # Whole(j)
      BY <2>2, <3>1, Zenon DEF Unsaved
    <3>3. DOMAIN mainq' = {}
      BY <1>5
    <3> QED
      BY <2>1, <3>2, <3>3 DEF Unsaved
  <2>6. Queue'
    BY <1>5 DEF Queue
  <2> QED
    BY <1>1, <1>2, <1>3, <2>4, <2>5, <2>6, KeptFiling
<1>6. ASSUME NEW k \in Chunk, SavedBefore(k),
             mainq = <<Write(k, FALSE), Write(k, TRUE)>>, mainq' = <<Write(k, TRUE)>>,
             NEW data, files' = [files EXCEPT ![k] = data]
      PROVE  Filing'
  <2>1. \A j \in Chunk : j # k => files'[j] = files[j]
    BY <1>1, <1>6
  <2>2. /\ 1 \in DOMAIN mainq /\ 2 \in DOMAIN mainq
        /\ \A i \in DOMAIN mainq : i = 1 \/ i = 2
        /\ mainq[1] = Write(k, FALSE) /\ mainq[2] = Write(k, TRUE)
    <3> DEFINE w == Write(k, TRUE)
               u == Write(k, FALSE)
    <3> HIDE DEF w, u
    <3>1. mainq = <<u, w>>
      BY <1>6 DEF u, w
    <3>2. DOMAIN mainq = 1..2 /\ mainq[1] = u /\ mainq[2] = w
      BY <3>1, TwoEntries
    <3>3. /\ 1 \in DOMAIN mainq /\ 2 \in DOMAIN mainq
          /\ \A i \in DOMAIN mainq : i = 1 \/ i = 2
      BY <3>2
    <3> QED
      BY <3>2, <3>3 DEF u, w
  <2>3. 1 \in DOMAIN mainq' /\ \A i \in DOMAIN mainq' : mainq'[i] = Write(k, TRUE)
    <3> DEFINE w == Write(k, TRUE)
    <3> HIDE DEF w
    <3>1. mainq' = <<w>>
      BY <1>6 DEF w
    <3>2. DOMAIN mainq' = 1..1 /\ mainq'[1] = w
      BY <3>1, OneEntry
    <3>3. 1 \in DOMAIN mainq' /\ \A i \in DOMAIN mainq' : i = 1
      BY <3>2
    <3> QED
      BY <3>2, <3>3 DEF w
  <2>4. /\ Write(k, TRUE).op = "WRITE" /\ Write(k, TRUE).chunk = k
        /\ Write(k, FALSE).chunk = k
    BY EventMeans
  <2>5. ASSUME NEW j \in Chunk PROVE Stored(j) => Stored(j)'
    <3>1. CASE j = k
      BY <2>3, <3>1, Zenon DEF Stored
    <3>2. CASE j # k
      <4>1. Write(j, TRUE).chunk = j
        BY EventMeans
      <4>2. Write(j, TRUE) # Write(k, TRUE) /\ Write(j, TRUE) # Write(k, FALSE)
        BY <2>4, <3>2, <4>1
      <4>3. \A i \in DOMAIN mainq : mainq[i] # Write(j, TRUE)
        BY <2>2, <4>2, Zenon
      <4>4. Stored(j) => files[j] = Whole(j)
        BY <4>3 DEF Stored
      <4> QED
        BY <2>1, <3>2, <4>4 DEF Stored
    <3> QED
      BY <3>1, <3>2
  <2>6. ASSUME NEW j \in Chunk PROVE Unsaved(j) => Unsaved(j)'
    <3>1. Unsaved(j) => j # k /\ files[j] # Whole(j)
      <4>1. mainq[2].op = "WRITE" /\ mainq[2].chunk = k
        BY <2>2, <2>4
      <4> QED
        BY <2>2, <4>1, Zenon DEF Unsaved
    <3>2. \A i \in DOMAIN mainq' : mainq'[i].chunk = k
      <4>1. \A i \in DOMAIN mainq' : mainq'[i] = Write(k, TRUE)
        BY <2>3
      <4> QED
        BY <2>4, <4>1
    <3> QED
      BY <2>1, <3>1, <3>2 DEF Unsaved
  <2>7. Queue'
    <3>1. SavedBefore(k)'
      BY <1>1, <1>6, <2>1 DEF SavedBefore
    <3> QED
      BY <1>6, <3>1 DEF Queue
  <2> QED
    BY <1>1, <1>2, <1>3, <2>5, <2>6, <2>7, KeptFiling
<1> QED
  BY <1>1, <1>4, <1>5, <1>6, Handled

-----------------------------------------------------------------------------
(* The invariant of the files *)

LEMMA InitFiling == Init => Filing
<1> SUFFICES ASSUME Init PROVE Filing
  OBVIOUS
<1>1. /\ dev.chunk = 1 /\ dev.phase = "idle" /\ mainq = <<>>
      /\ files = [k \in Chunk |-> NoFile]
  BY DEF Init
<1>2. Behind
  BY <1>1, ChunkIsInterval DEF Behind
<1>3. Ahead
  BY <1>1, SentinelAssumption DEF Ahead, Unsaved
<1>4. Queue /\ AckFirst
  BY <1>1 DEF Queue, AckFirst
<1> QED
  BY <1>2, <1>3, <1>4 DEF Filing

LEMMA FilingNext ==
    ASSUME LinkIsFair, Prompt, Core, MainTyped, Fresh, Filing, [Next]_vars
    PROVE  Filing'
<1>1. ASSUME Controller(Timers) PROVE Filing'
  BY <1>1, CmdTimerFiling, BacklogTimerFiling, NextTimerFiling DEF Controller, Timers
<1>2. ASSUME Controller(bleUartRx) PROVE Filing'
  BY <1>2, OkFiling, StartFiling, PackageFiling, AckProcFiling, MissedFiling, NoChunkFiling
     DEF Controller, bleUartRx
<1>3. ASSUME Device PROVE Filing'
  BY <1>3, HearsFiling, StreamsFiling, EndsStreamFiling DEF Device
<1>4. ASSUME UNCHANGED vars PROVE Filing'
  <2>1. UNCHANGED <<timely, ch, nextTimer, dev, mainq, files, losses>>
    BY <1>4 DEF vars
  <2>2. AckFirst' /\ (Over' <=> Over)
    BY <2>1 DEF Filing, AckFirst, Over, Last, Waits
  <2> QED
    BY <2>1, <2>2, QuietFiling DEF Core
<1> QED
  BY <1>1, <1>2, <1>3, <1>4, MainFiling, LinkFiling DEF Next

\* On a link as above, and when the main thread has handled what was posted to
\* it before the next event of the controller, the device lets go of no chunk
\* that is not whole on disk or whole in an event that will write it, although
\* CMD_HC_ACK_OK names no chunk, leaves before the chunk is written and is sent
\* a second time after a repair (hugeChunkDownloadFinished).
THEOREM AckMeansWrittenHolds ==
    ASSUME LinkIsFair, Prompt
    PROVE  Spec => []AckMeansWritten
<1> DEFINE Inv == Core /\ MainTyped /\ Tries /\ Fresh /\ Filing
<1>1. Init => Inv
  BY TypedInit, InitCore, InitTries, InitFresh, InitFiling DEF Core
<1>2. Inv /\ [Next]_vars => Inv'
  BY CoreNext, TriesNext, FreshNext, FilingNext
<1>3. Inv => AckMeansWritten
  <2>1. SUFFICES ASSUME Filing, NEW k \in Chunk, k < dev.chunk
                 PROVE  \/ files[k] = Whole(k)
                        \/ \E i \in DOMAIN mainq : /\ mainq[i].op = "WRITE"
                                                   /\ mainq[i].chunk = k
                                                   /\ mainq[i].content = Whole(k)
    BY DEF AckMeansWritten
  <2>2. Stored(k)
    BY <2>1 DEF Filing, Behind
  <2>3. ASSUME NEW i \in DOMAIN mainq, mainq[i] = Write(k, TRUE)
        PROVE  mainq[i].op = "WRITE" /\ mainq[i].chunk = k /\ mainq[i].content = Whole(k)
    <3>1. /\ Write(k, TRUE).op = "WRITE" /\ Write(k, TRUE).chunk = k
          /\ Write(k, TRUE).content = Whole(k)
      BY EventMeans
    <3> QED
      BY <2>3, <3>1
  <2> QED
    BY <2>2, <2>3, Zenon DEF Stored
<1> QED
  BY <1>1, <1>2, <1>3, PTL DEF Spec

-----------------------------------------------------------------------------
(* The download implements ChunkDelivery *)

\* The chunks that count as saved there.
SavedChunks == {k \in Chunk : files[k] = Whole(k)}

AbstractStep == Saved!Next \/ UNCHANGED <<SavedChunks, reported>>

\* Only the main thread writes files and is told of the end.
LEMMA OthersSave ==
    ASSUME [Next]_vars, ~MainThread
    PROVE  UNCHANGED <<files, reported>>
<1>1. ASSUME Controller(Timers) PROVE UNCHANGED <<files, reported>>
  BY <1>1 DEF Controller, Timers, CmdTimerExpires, BacklogTimerExpires,
              NextRequestTimerExpires, main
<1>2. ASSUME Controller(bleUartRx) PROVE UNCHANGED <<files, reported>>
  BY <1>2 DEF Controller, bleUartRx, OkArrives, onStartHugeChunkArrived, PackageArrives,
              onStartHugeChunkAckProcArrived, onReplyMissingPackageArrived,
              onNoChunkAvailableArrived, Notified
<1>3. ASSUME Device PROVE UNCHANGED <<files, reported>>
  BY <1>3 DEF Device, DeviceHears, DeviceStreams, DeviceEndsStream, main
<1>4. ASSUME Link PROVE UNCHANGED <<files, reported>>
  BY <1>4 DEF Link, LoseCmd, LoseMessage, main
<1>5. ASSUME UNCHANGED vars PROVE UNCHANGED <<files, reported>>
  BY <1>5 DEF vars
<1> QED
  BY <1>1, <1>2, <1>3, <1>4, <1>5 DEF Next

LEMMA SavingStep ==
    ASSUME Core, MainTyped, Filing, [Next]_vars
    PROVE  AbstractStep
<1>1. /\ Chunk = 1..Len(Counts) /\ Len(Counts) \in Nat
      /\ DOMAIN files = Chunk
  BY ChunkIsInterval DEF MainTyped
<1>2. ASSUME NEW k \in Chunk, SavedBefore(k), UNCHANGED reported,
             files' = [files EXCEPT ![k] = Whole(k)]
      PROVE  AbstractStep
  <2>1. SavedChunks' = SavedChunks \cup {k}
    BY <1>1, <1>2 DEF SavedChunks
  <2>2. 1..(k - 1) \subseteq SavedChunks
    BY <1>1, <1>2 DEF SavedBefore, SavedChunks
  <2>3. Saved!Save
    BY <1>1, <1>2, <2>1, <2>2 DEF Saved!Save, SavedChunks
  <2> QED
    BY <2>3 DEF AbstractStep, Saved!Next
<1>3. ASSUME NEW k \in Chunk, SavedBefore(k), UNCHANGED reported, files[k] # Whole(k),
             NEW data, files' = [files EXCEPT ![k] = data]
      PROVE  AbstractStep
  <2>1. CASE data = Whole(k)
    BY <1>2, <1>3, <2>1
  <2>2. CASE data # Whole(k)
    <3>1. SavedChunks' = SavedChunks
      BY <1>1, <1>3, <2>2 DEF SavedChunks
    <3> QED
      BY <1>3, <3>1 DEF AbstractStep
  <2> QED
    BY <2>1, <2>2
<1>4. ASSUME NEW success \in BOOLEAN, success => SavedBefore(Len(Counts) + 1),
             UNCHANGED files, reported' = reported \cup {success}
      PROVE  AbstractStep
  <2>1. SavedChunks' = SavedChunks
    BY <1>4 DEF SavedChunks
  <2>2. success => SavedChunks = 1..Len(Counts)
    BY <1>1, <1>4 DEF SavedBefore, SavedChunks
  <2>3. Saved!Tell
    BY <1>4, <2>1, <2>2 DEF Saved!Tell, SavedChunks
  <2> QED
    BY <2>3 DEF AbstractStep, Saved!Next
<1>5. CASE MainThread
  BY <1>2, <1>3, <1>4, <1>5, Handled DEF Filing
<1>6. CASE ~MainThread
  <2>1. UNCHANGED <<SavedChunks, reported>>
    BY <1>6, OthersSave DEF SavedChunks
  <2> QED
    BY <2>1 DEF AbstractStep
<1> QED
  BY <1>5, <1>6

\* Under the same conditions the download, with the repair of its streams, the
\* chunks that are written twice and the payload that is destroyed in between,
\* implements ChunkDelivery: every file in the device's order, none spoilt
\* once it is whole, and success told only when all are.
THEOREM SavesInOrderHolds ==
    ASSUME LinkIsFair, Prompt
    PROVE  Spec => SavesInOrder
<1> DEFINE Inv == Core /\ MainTyped /\ Tries /\ Fresh /\ Filing
<1>1. Init => Inv
  BY TypedInit, InitCore, InitTries, InitFresh, InitFiling DEF Core
<1>2. Inv /\ [Next]_vars => Inv'
  BY CoreNext, TriesNext, FreshNext, FilingNext
<1>3. Init => Saved!Init
  <2>1. SUFFICES ASSUME Init PROVE SavedChunks = {} /\ reported = {}
    BY DEF Saved!Init, SavedChunks
  <2>2. files = [k \in Chunk |-> NoFile] /\ reported = {}
    BY <2>1 DEF Init
  <2> QED
    BY <2>2, SentinelAssumption DEF SavedChunks
<1>4. Inv /\ [Next]_vars => [Saved!Next]_<<SavedChunks, reported>>
  BY SavingStep DEF AbstractStep
<1> QED
  BY <1>1, <1>2, <1>3, <1>4, PTL DEF Spec, SavesInOrder, Saved!Spec, SavedChunks

-----------------------------------------------------------------------------
(* What the main thread is told *)

Tells(q, success) == \E i \in DOMAIN q : q[i] = Done(success)

Told(success) == success \in reported \/ Tells(mainq, success)

LEMMA TellsTail ==
    ASSUME NEW q \in Seq(Events), q # <<>>, NEW success
    PROVE  Tells(q, success) <=> Head(q) = Done(success) \/ Tells(Tail(q), success)
<1>1. /\ Head(q) = q[1] /\ Len(q) \in Nat \ {0} /\ DOMAIN q = 1..Len(q)
      /\ DOMAIN Tail(q) = 1..(Len(q) - 1)
      /\ \A i \in 1..(Len(q) - 1) : Tail(q)[i] = q[i + 1]
  BY TailAt
<1>2. \A i \in DOMAIN q : i = 1 \/ (i - 1 \in DOMAIN Tail(q) /\ q[i] = Tail(q)[i - 1])
  BY <1>1
<1>3. \A i \in DOMAIN Tail(q) : i + 1 \in DOMAIN q /\ Tail(q)[i] = q[i + 1]
  BY <1>1
<1>4. 1 \in DOMAIN q
  BY <1>1
<1> QED
  BY <1>1, <1>2, <1>3, <1>4 DEF Tells

LEMMA TellsAppend ==
    ASSUME NEW q \in Seq(Events), NEW e \in Events, NEW success
    PROVE  Tells(Append(q, e), success) <=> Tells(q, success) \/ e = Done(success)
<1>1. /\ Len(q) \in Nat /\ DOMAIN q = 1..Len(q)
      /\ DOMAIN Append(q, e) = 1..(Len(q) + 1)
      /\ \A i \in 1..Len(q) : Append(q, e)[i] = q[i]
      /\ Append(q, e)[Len(q) + 1] = e
  BY AppendAt
<1>2. \A i \in DOMAIN Append(q, e) :
        \/ i \in DOMAIN q /\ Append(q, e)[i] = q[i]
        \/ Append(q, e)[i] = e
  BY <1>1
<1>3. \A i \in DOMAIN q : i \in DOMAIN Append(q, e) /\ Append(q, e)[i] = q[i]
  BY <1>1
<1>4. Len(q) + 1 \in DOMAIN Append(q, e)
  BY <1>1
<1> QED
  BY <1>1, <1>2, <1>3, <1>4 DEF Tells

LEMMA TellsWrite ==
    ASSUME NEW q \in Seq(Events), kind \in Chunk \cup {0},
           NEW r, IsReceiver(r, Chunk \X Nat), NEW success
    PROVE  Tells(writeReceivedChunkToFile(q, r), success) <=> Tells(q, success)
<1> DEFINE e == [op |-> "WRITE", chunk |-> kind, content |-> r.vec, intact |-> TRUE]
           d == Destroyed(q)
<1>1. r.vec \in [0..(r.count - 1) -> (Chunk \X Nat) \cup {None}] /\ r.count \in Nat
  BY ReceiverShaped, ShapedFields
<1>2. r.vec \in Contents
  BY <1>1 DEF Contents
<1>3. e \in Events /\ e # Done(success)
  BY <1>2 DEF Events, Writes, Done
<1> HIDE DEF e
<1>4. d \in Seq(Events) /\ DOMAIN d = DOMAIN q
  BY EventType DEF Destroyed
<1>5. ASSUME NEW i \in DOMAIN q PROVE d[i] = Done(success) <=> q[i] = Done(success)
  <2>1. q[i] \in Events
    OBVIOUS
  <2>2. d[i] = IF q[i].op = "WRITE" THEN [q[i] EXCEPT !.intact = FALSE] ELSE q[i]
    BY DEF Destroyed
  <2>3. CASE q[i].op = "WRITE"
    <3>1. [q[i] EXCEPT !.intact = FALSE].op = "WRITE"
      <4>1. q[i] \in Writes
        BY <2>1, <2>3 DEF Events
      <4> QED
        BY <4>1 DEF Writes
    <3>2. Done(success).op = "DONE"
      BY DEF Done
    <3> QED
      BY <2>2, <2>3, <3>1, <3>2
  <2>4. CASE q[i].op # "WRITE"
    BY <2>2, <2>4
  <2> QED
    BY <2>3, <2>4
<1> HIDE DEF d
<1>6. Tells(d, success) <=> Tells(q, success)
  BY <1>4, <1>5 DEF Tells
<1>7. Tells(Append(d, e), success) <=> Tells(d, success)
  BY <1>3, <1>4, TellsAppend
<1> QED
  BY <1>6, <1>7 DEF writeReceivedChunkToFile, d, e

LEMMA MainTells ==
    ASSUME MainTyped, MainThread, NEW success \in BOOLEAN
    PROVE  Told(success)' <=> Told(success)
<1> DEFINE e == Head(mainq)
<1>1. /\ mainq \in Seq(Events) /\ mainq # <<>> /\ mainq' = Tail(mainq) /\ e \in Events
      /\ \/ e.op = "WRITE" /\ UNCHANGED reported
         \/ e.op = "DONE" /\ reported' = reported \cup {e.success}
  BY DEF MainTyped, MainThread
<1>2. Tells(mainq, success) <=> e = Done(success) \/ Tells(Tail(mainq), success)
  BY <1>1, TellsTail
<1> HIDE DEF e
<1>3. CASE e.op = "WRITE" /\ UNCHANGED reported
  <2>1. e # Done(success)
    BY <1>3 DEF Done
  <2> QED
    BY <1>1, <1>2, <1>3, <2>1 DEF Told
<1>4. CASE e.op = "DONE" /\ reported' = reported \cup {e.success}
  <2>1. e \in [op : {"DONE"}, success : BOOLEAN]
    BY <1>1, <1>4 DEF Events, Writes
  <2>2. e = Done(e.success) /\ e.success \in BOOLEAN
    BY <2>1 DEF Done
  <2>3. e = Done(success) <=> e.success = success
    BY <2>1, <2>2 DEF Done
  <2> QED
    BY <1>1, <1>2, <1>4, <2>3 DEF Told
<1> QED
  BY <1>1, <1>3, <1>4

LEMMA bleUartRxTells ==
    ASSUME LinkIsFair, Core, MainTyped, bleUartRx, NEW success \in BOOLEAN
    PROVE  /\ Told(success) => Told(success)'
           /\ Told(success)' => Told(success) \/ success
           /\ onNoChunkAvailableArrived => Told(TRUE)'
<1>1. /\ mainq \in Seq(Events) /\ kind \in Chunk \cup {0} /\ UNCHANGED reported
      /\ IsReceiver(rx, Chunk \X Nat)
  BY DEF Core, Typed, MainTyped, bleUartRx, OkArrives, onStartHugeChunkArrived,
         PackageArrives, Notified, onStartHugeChunkAckProcArrived,
         onReplyMissingPackageArrived, onNoChunkAvailableArrived
<1>2. ASSUME onNoChunkAvailableArrived
      PROVE  /\ Told(success) => Told(success)'
             /\ Told(success)' => Told(success) \/ success
             /\ Told(TRUE)'
  <2>1. mainq' = Append(mainq, Done(TRUE)) /\ Done(TRUE) \in Events
    BY <1>2, EventType DEF onNoChunkAvailableArrived
  <2>2. \A b : Tells(mainq', b) <=> Tells(mainq, b) \/ Done(TRUE) = Done(b)
    BY <1>1, <2>1, TellsAppend
  <2>3. /\ Tells(mainq, success) => Tells(mainq', success)
        /\ Tells(mainq', success) => Tells(mainq, success) \/ success
        /\ Tells(mainq', TRUE)
    <3>1. Done(TRUE) = Done(success) => success
      BY DEF Done
    <3>2. Tells(mainq', success) <=> Tells(mainq, success) \/ Done(TRUE) = Done(success)
      BY <2>2, Zenon
    <3>3. Tells(mainq', TRUE)
      BY <2>2, Zenon
    <3> QED
      BY <3>1, <3>2, <3>3
  <2> QED
    BY <1>1, <2>3 DEF Told
<1>3. ASSUME ~onNoChunkAvailableArrived PROVE Told(success)' <=> Told(success)
  <2>1. SUFFICES ASSUME ~UNCHANGED mainq PROVE Tells(mainq', success) <=> Tells(mainq, success)
    BY <1>1 DEF Told
  <2>2. CASE onStartHugeChunkAckProcArrived
    <3> DEFINE r == CheckChunk(rx)
    <3>1. mainq' = writeReceivedChunkToFile(mainq, r)
      BY <2>1, <2>2 DEF onStartHugeChunkAckProcArrived, hugeChunkDownloadFinished
    <3>2. IsReceiver(r, Chunk \X Nat)
      BY <1>1, CheckType
    <3> HIDE DEF r
    <3> QED
      BY <1>1, <3>1, <3>2, TellsWrite
  <2>3. CASE onReplyMissingPackageArrived
    <3> DEFINE r == StoreMissing(rx, Head(inbox).payload)
               q == writeReceivedChunkToFile(mainq, r)
    <3>1. mainq' = writeReceivedChunkToFile(q, r)
      BY <2>1, <2>3 DEF onReplyMissingPackageArrived, hugeChunkDownloadFinished
    <3>2. IsReceiver(r, Chunk \X Nat)
      <4>1. inbox \in Seq(Sound) /\ inbox # <<>>
        BY <2>3 DEF Core, Typed, onReplyMissingPackageArrived, Notified
      <4>2. Head(inbox).payload \in (Chunk \X Nat) \cup {None}
        BY <4>1, SoundFields
      <4> QED
        BY <1>1, <4>2, StoreType
    <3>3. q \in Seq(Events)
      BY <1>1, <3>2, WriteType
    <3>4. Tells(q, success) <=> Tells(mainq, success)
      BY <1>1, <3>2, TellsWrite
    <3> HIDE DEF q, r
    <3> QED
      BY <1>1, <3>1, <3>2, <3>3, <3>4, TellsWrite
  <2> QED
    BY <1>3, <2>1, <2>2, <2>3 DEF bleUartRx, OkArrives, onStartHugeChunkArrived, PackageArrives
<1> QED
  BY <1>2, <1>3

LEMMA CmdTimerTells ==
    ASSUME MainTyped, CmdTimerExpires, NEW success \in BOOLEAN
    PROVE  /\ Told(success) => Told(success)'
           /\ Told(success)' => Told(success) \/ ch.retry = 0
<1>1. mainq \in Seq(Events) /\ Done(FALSE) \in Events
  BY EventType DEF MainTyped
<1>2. /\ UNCHANGED reported
      /\ UNCHANGED mainq \/ mainq' = Append(mainq, Done(FALSE))
      /\ ch.retry # 0 => UNCHANGED mainq
  BY DEF CmdTimerExpires
<1>3. Tells(mainq, success) => Tells(Append(mainq, Done(FALSE)), success)
  BY <1>1, TellsAppend
<1> QED
  BY <1>2, <1>3 DEF Told

\* Success is told by the device alone, failure by the timer of the command.
LEMMA TellsNext ==
    ASSUME LinkIsFair, Core, MainTyped, [Next]_vars, NEW success \in BOOLEAN
    PROVE  /\ Told(success) => Told(success)'
           /\ Told(success)' => \/ Told(success) \/ success
                                \/ CmdTimerExpires /\ ch.retry = 0
<1>1. ASSUME UNCHANGED <<mainq, reported>> PROVE Told(success)' <=> Told(success)
  BY <1>1 DEF Told
<1>2. BacklogTimerExpires \/ NextRequestTimerExpires \/ Device \/ Link \/ UNCHANGED vars
        => UNCHANGED <<mainq, reported>>
  BY DEF BacklogTimerExpires, NextRequestTimerExpires, Device, DeviceHears, DeviceStreams,
         DeviceEndsStream, Link, LoseCmd, LoseMessage, main, central, vars
<1> QED
  BY <1>1, <1>2, MainTells, CmdTimerTells, bleUartRxTells DEF Next, Controller, Timers

\* The failure of a request for sensor data is reported (onCmdTimerExpired) only
\* when answers come late or the link has lost more messages than m_cmdTimer
\* has retries: no repetition is spent while the answer is on its way, and none
\* of the other commands uses up the retries of this one.
FailureMeansLoss == FALSE \in reported => ~timely \/ losses > Retry

\* On a link that loses packages of streams or other messages, not both, a
\* failure that the main thread hears of is the link's.
THEOREM FailureMeansLossHolds ==
    ASSUME LinkIsFair
    PROVE  Spec => []FailureMeansLoss
<1> DEFINE Blame == Told(FALSE) => ~timely \/ losses > Retry
           Inv == Core /\ MainTyped /\ Tries /\ Blame
<1>1. Init => Inv
  <2>1. SUFFICES ASSUME Init PROVE ~Told(FALSE)
    BY TypedInit, InitCore, InitTries DEF Core
  <2> QED
    BY <2>1 DEF Init, Told, Tells
<1>2. Inv /\ [Next]_vars => Inv'
  <2>1. SUFFICES ASSUME Inv, [Next]_vars PROVE Blame'
    BY CoreNext, TriesNext
  <2>2. losses' \in Nat /\ losses \in Nat /\ losses' >= losses /\ UNCHANGED timely
    <3>1. losses \in Nat
      BY <2>1, DownloadAssumption DEF Core, Typed
    <3>2. UNCHANGED timely
      BY <2>1 DEF Next, Controller, Timers, CmdTimerExpires, BacklogTimerExpires,
             NextRequestTimerExpires, bleUartRx, OkArrives, onStartHugeChunkArrived,
             PackageArrives, onStartHugeChunkAckProcArrived, onReplyMissingPackageArrived,
             onNoChunkAvailableArrived, Notified, Device, DeviceHears, DeviceStreams,
             DeviceEndsStream, Link, LoseCmd, LoseMessage, MainThread, budget, vars
    <3>3. losses' = losses \/ losses' = losses + 1
      BY <2>1 DEF Next, Controller, Timers, CmdTimerExpires, BacklogTimerExpires,
             NextRequestTimerExpires, bleUartRx, OkArrives, onStartHugeChunkArrived,
             PackageArrives, onStartHugeChunkAckProcArrived, onReplyMissingPackageArrived,
             onNoChunkAvailableArrived, Notified, Device, DeviceHears, DeviceStreams,
             DeviceEndsStream, Link, LoseCmd, LoseMessage, MainThread, budget, vars
    <3> QED
      BY <3>1, <3>2, <3>3
  <2>3. CASE CmdTimerExpires /\ ch.retry = 0
    <3>1. timely => losses > Retry
      BY <2>1, <2>3, CmdTimerTries
    <3> QED
      BY <2>2, <3>1, RetryAssumption
  <2>4. CASE ~(CmdTimerExpires /\ ch.retry = 0)
    <3>1. Told(FALSE)' => Told(FALSE)
      BY <2>1, <2>4, TellsNext
    <3> QED
      BY <2>1, <2>2, <3>1, RetryAssumption
  <2> QED
    BY <2>3, <2>4
<1>3. Inv => FailureMeansLoss
  BY DEF FailureMeansLoss, Told
<1> QED
  BY <1>1, <1>2, <1>3, PTL DEF Spec

-----------------------------------------------------------------------------
(* The download never falls silent *)

Comes(op) == ~Lacks(inbox, op)

Goes(op) == ~Lacks(ch.air, op)

\* On a timely link only the outstanding command is on its way,
Current == timely /\ ch.cmdTimer => All(ch.air, {Last})

\* and its timer runs until it is answered by what it asks for.
Guarded == ch.cmdTimer /\ Lacks(inbox, "OK")

AskingDue == Last = "REQUEST" /\ ~Told(TRUE) =>
    /\ timely => Guarded
    /\ ~timely => Comes("START") \/ Comes("NO_CHUNK") \/ Goes("REQUEST")

OfferedDue == Last = "START_OK" /\ ~ch.backlogTimer /\ dev.phase = "offered" =>
    /\ timely => Guarded
    /\ ~timely => Comes("START") \/ Goes("START_OK")

SentDue == Last = "START_OK" /\ ~ch.backlogTimer /\ dev.phase = "sent" =>
    Comes("ACK_PROC")

MissingDue == Last = "MISSING" /\ ~ch.backlogTimer =>
    Comes("MISSED") \/ Goes("MISSING")

Due == Current /\ AskingDue /\ OfferedDue /\ SentDue /\ MissingDue

\* The messages that end a stage; no timer asks for the last two again.
AsksAgain == Losable \cap {"ACK_PROC", "MISSED"} = {}

\* A step that leaves the outstanding command, its timer and what is due alone.
LEMMA KeptDue ==
    ASSUME Due, UNCHANGED timely, Told(TRUE) => Told(TRUE)',
           dev'.phase = dev.phase \/ dev'.phase \in {"idle", "streaming"},
           ch'.last_cmd = ch.last_cmd,
           ch'.backlogTimer <=> ch.backlogTimer,
           timely => (ch'.cmdTimer <=> ch.cmdTimer),
           timely /\ ch.cmdTimer /\ All(ch.air, {Last}) => All(ch'.air, {Last}),
           Lacks(inbox, "OK") => Lacks(inbox', "OK"),
           \A op \in {"START", "NO_CHUNK", "ACK_PROC", "MISSED"} :
               Lacks(inbox', op) => Lacks(inbox, op),
           \A op \in {"REQUEST", "START_OK", "MISSING"} :
               Lacks(ch'.air, op) => Lacks(ch.air, op)
    PROVE  Due'
<1>1. Current'
  BY DEF Due, Current, Last
<1>2. AskingDue'
  BY DEF Due, AskingDue, Guarded, Comes, Goes, Last
<1>3. OfferedDue' /\ SentDue' /\ MissingDue'
  BY DEF Due, OfferedDue, SentDue, MissingDue, Guarded, Comes, Goes, Last
<1> QED
  BY <1>1, <1>2, <1>3 DEF Due

\* A command is sent while none is outstanding, and on a timely link nothing
\* else is on its way.
LEMMA SentDueNow ==
    ASSUME Core, NEW x \in Channel, NEW c \in Cmds, ~x.cmdTimer,
           ch' = bleUartSendCmdWithResp(x, c), UNCHANGED timely,
           timely => x.air = <<>> /\ Lacks(inbox', "OK"),
           c.op = "START_OK" /\ ~x.backlogTimer /\ dev'.phase = "sent"
               => ~Lacks(inbox', "ACK_PROC")
    PROVE  Due'
<1>1. /\ ch'.last_cmd = c /\ ch'.cmdTimer /\ ch'.air = Append(x.air, c)
      /\ ch'.backlogTimer <=> x.backlogTimer
  BY SendFree
<1>2. x.air \in Seq(Cmds)
  BY ChannelFields
<1>3. /\ ~Lacks(ch'.air, c.op)
      /\ x.air = <<>> => All(ch'.air, {c.op})
  <2> DEFINE a == Append(x.air, c)
  <2>1. /\ \A ops : All(a, ops) <=> All(x.air, ops) /\ c.op \in ops
        /\ \A op : Lacks(a, op) <=> Lacks(x.air, op) /\ c.op # op
    BY <1>2, AppendOps
  <2> HIDE DEF a
  <2>2. \A ops : All(<<>>, ops)
    BY EmptyAll
  <2> QED
    BY <1>1, <2>1, <2>2 DEF a
<1>4. Current'
  BY <1>1, <1>3 DEF Current, Last
<1>5. AskingDue' /\ OfferedDue'
  BY <1>1, <1>3 DEF AskingDue, OfferedDue, Guarded, Goes, Last
<1>6. SentDue' /\ MissingDue'
  BY <1>1, <1>3 DEF SentDue, MissingDue, Comes, Goes, Last
<1> QED
  BY <1>4, <1>5, <1>6 DEF Due

\* A command is sent while another one is outstanding: the backlog timer runs.
LEMMA SentDueLater ==
    ASSUME Due, Last # "REQUEST", UNCHANGED timely,
           ch'.last_cmd = ch.last_cmd, ch'.air = ch.air, ch.cmdTimer, ch'.backlogTimer
    PROVE  Due'
<1>1. Current'
  BY DEF Due, Current, Last
<1>2. AskingDue' /\ OfferedDue' /\ SentDue' /\ MissingDue'
  BY DEF AskingDue, OfferedDue, SentDue, MissingDue, Last
<1> QED
  BY <1>1, <1>2 DEF Due

LEMMA TimersDue ==
    ASSUME LinkIsFair, Core, MainTyped, Due, Timers
    PROVE  Due'
<1>1. /\ ch \in Channel /\ ch.air \in Seq(Cmds) /\ ch.last_cmd \in Cmds
      /\ Typed /\ Flight /\ Stage
      /\ inbox \in Seq(Sound)
  BY ChannelFields DEF Core, Rest, Typed, Channel
<1>2. UNCHANGED <<timely, inbox, dev>>
  BY DEF Timers, CmdTimerExpires, BacklogTimerExpires, NextRequestTimerExpires, budget
<1>3. ASSUME CmdTimerExpires PROVE Due'
  <2> DEFINE a == Append(ch.air, ch.last_cmd)
  <2>1. /\ ch'.last_cmd = ch.last_cmd
        /\ ch'.cmdTimer <=> ch.cmdTimer
        /\ ch'.backlogTimer <=> ch.backlogTimer
        /\ ch'.air = ch.air \/ ch'.air = a
    BY <1>1, <1>3, CmdTimerFields DEF CmdTimerExpires
  <2>2. /\ \A ops : All(a, ops) <=> All(ch.air, ops) /\ Last \in ops
        /\ \A op : Lacks(a, op) <=> Lacks(ch.air, op) /\ Last # op
    BY <1>1, AppendOps DEF Last
  <2>3. Told(TRUE) => Told(TRUE)'
    BY <1>3, CmdTimerTells
  <2> HIDE DEF a
  <2>4. /\ All(ch.air, {Last}) => All(ch'.air, {Last})
        /\ \A op : Lacks(ch'.air, op) => Lacks(ch.air, op)
    BY <2>1, <2>2
  <2> QED
    BY <1>2, <2>1, <2>3, <2>4, KeptDue
<1>4. ASSUME BacklogTimerExpires PROVE Due'
  <2>1. /\ ch' = onBacklogTimerExpired(ch) /\ ch.backlogTimer
        /\ timely /\ ~ch.cmdTimer => NoAnswerDue
    BY <1>4 DEF BacklogTimerExpires
  <2>2. ch.backlog # <<>> /\ (Repairing \/ Acking)
    BY <1>1, <2>1 DEF Stage, Asking, Taking, Repairing, Requesting, Acking, Waits
  <2>3. Last # "REQUEST"
    BY <2>2 DEF Repairing, Acking
  <2>4. CASE ch.cmdTimer
    BY <1>1, <1>2, <2>1, <2>2, <2>3, <2>4, BacklogTimerFields, SentDueLater
  <2>5. CASE ~ch.cmdTimer
    <3> DEFINE c == Newest(ch.backlog)
    <3>1. c \in Cmds /\ c.op \in {"MISSING", "ACK_OK", "REQUEST"}
      BY <1>1, <2>1, <2>2, ChannelFields, NewestEntry
         DEF Repairing, Requesting, Acking, Waits
    <3>2. /\ ch'.last_cmd = c /\ ch'.air = Append(ch.air, c)
          /\ ch'.cmdTimer
      BY <1>1, <2>1, <2>2, <2>5, BacklogTimerFields
    <3> HIDE DEF c
    <3>3. timely => ch.air = <<>> /\ Lacks(inbox, "OK")
      BY <2>1, <2>5 DEF NoAnswerDue, Lacks
    <3> DEFINE a == Append(ch.air, c)
    <3>4. /\ \A ops : All(a, ops) <=> All(ch.air, ops) /\ c.op \in ops
          /\ \A op : Lacks(a, op) <=> Lacks(ch.air, op) /\ c.op # op
      BY <1>1, <3>1, AppendOps
    <3>5. \A ops : All(<<>>, ops)
      BY EmptyAll
    <3>6. ch'.air = a
      BY <3>2
    <3> HIDE DEF a
    <3>7. Current'
      BY <1>2, <3>2, <3>3, <3>4, <3>5, <3>6 DEF Current, Last
    <3>8. AskingDue' /\ OfferedDue'
      BY <1>2, <3>1, <3>2, <3>3, <3>4, <3>6
         DEF AskingDue, OfferedDue, Guarded, Goes, Last
    <3>9. SentDue' /\ MissingDue'
      BY <3>1, <3>2, <3>4, <3>6 DEF SentDue, MissingDue, Goes, Last
    <3> QED
      BY <3>7, <3>8, <3>9 DEF Due
  <2> QED
    BY <2>4, <2>5
<1>5. ASSUME NextRequestTimerExpires PROVE Due'
  <2> DEFINE c == Command("REQUEST")
  <2>1. c \in Cmds /\ c.op = "REQUEST" /\ ch' = bleUartSendCmdWithResp(ch, c)
    BY <1>5, CommandType DEF NextRequestTimerExpires
  <2>2. /\ \/ Last = "ACK_OK" /\ ~ch.backlogTimer
           \/ Last \in {"START_OK", "MISSING", "ACK_OK"} /\ ch.cmdTimer
        /\ All(inbox, {"OK"}) /\ All(ch.air, {"START_OK", "ACK_OK"})
    BY <1>1, <1>5 DEF NextRequestTimerExpires, Stage, Asking, Taking, Repairing, Acking, Waits
  <2> HIDE DEF c
  <2>3. CASE ch.cmdTimer
    BY <1>1, <1>2, <2>1, <2>2, <2>3, SendBusy, SentDueLater
  <2>4. CASE ~ch.cmdTimer
    <3>1. timely => ch.air = <<>>
      BY <1>1, <2>2, <2>4, FreeAir
    <3>2. timely => All(inbox, Streamed \cup {"MISSED"})
      BY <1>1, <2>4 DEF Flight
    <3>3. All(inbox, Streamed \cup {"MISSED"}) => Lacks(inbox, "OK")
      BY DEF All, Lacks, Streamed
    <3> QED
      BY <1>1, <1>2, <2>1, <2>4, <3>1, <3>2, <3>3, SentDueNow
  <2> QED
    BY <2>3, <2>4
<1> QED
  BY <1>3, <1>4, <1>5 DEF Timers
LEMMA bleUartRxDue ==
    ASSUME LinkIsFair, Core, MainTyped, Due, bleUartRx
    PROVE  Due'
<1> DEFINE p == Tail(inbox)
<1>1. /\ ch \in Channel /\ ch.air \in Seq(Cmds)
      /\ Typed /\ Flight /\ Stage
      /\ inbox \in Seq(Sound)
  BY ChannelFields DEF Core, Rest, Typed, Channel
<1>2. UNCHANGED <<timely, dev>> /\ inbox # <<>> /\ inbox' = p
  BY DEF bleUartRx, OkArrives, onStartHugeChunkArrived, PackageArrives, Notified, budget,
         onStartHugeChunkAckProcArrived, onReplyMissingPackageArrived,
         onNoChunkAvailableArrived
<1>3. /\ \A op : Lacks(inbox, op) <=> Head(inbox).op # op /\ Lacks(p, op)
      /\ \A ops : All(inbox, ops) => Head(inbox).op \in ops
      /\ \A op, ops : After(inbox, op, ops) /\ Head(inbox).op = op => All(p, ops)
  BY <1>1, <1>2, TailOps
<1>4. Told(TRUE) => Told(TRUE)'
  BY bleUartRxTells
<1> HIDE DEF p
<1>5. ASSUME OkArrives PROVE Due'
  <2>1. /\ Head(inbox).op = "OK" /\ ch' = StopCmdTimer(ch)
    BY <1>5 DEF OkArrives, Notified
  <2>2. /\ ch'.last_cmd = ch.last_cmd /\ ~ch'.cmdTimer /\ ch'.air = ch.air
        /\ ch'.backlogTimer <=> ch.backlogTimer
    BY <1>1, <2>1, StopFields
  <2>3. /\ ~Lacks(inbox, "OK")
        /\ \A op : op # "OK" => (Lacks(inbox', op) <=> Lacks(inbox, op))
    BY <1>2, <1>3, <2>1
  <2>4. AskingDue'
    BY <1>2, <1>4, <2>2, <2>3 DEF Due, AskingDue, Guarded, Comes, Goes, Last
  <2>5. OfferedDue' /\ SentDue' /\ MissingDue'
    BY <1>2, <2>2, <2>3
       DEF Due, OfferedDue, SentDue, MissingDue, Guarded, Comes, Goes, Last
  <2>6. Current'
    BY <2>2 DEF Current
  <2> QED
    BY <2>4, <2>5, <2>6 DEF Due
<1>6. ASSUME onStartHugeChunkArrived PROVE Due'
  <2> DEFINE c == Command("START_OK")
             x == StopCmdTimer(ch)
  <2>1. Head(inbox).op = "START" /\ ch' = bleUartSendCmdWithResp(x, c)
    BY <1>6 DEF onStartHugeChunkArrived, Notified
  <2>2. c \in Cmds /\ c.op = "START_OK"
    BY CommandType
  <2>3. /\ x \in Channel /\ ~x.cmdTimer /\ x.air = ch.air
        /\ x.backlogTimer <=> ch.backlogTimer
    BY <1>1, StopFields
  <2> HIDE DEF c, x
  <2>4. timely => ch.air = <<>> /\ Lacks(inbox', "OK")
    <3>1. SUFFICES ASSUME timely PROVE ch.air = <<>> /\ Lacks(inbox', "OK")
      OBVIOUS
    <3>2. ~All(inbox, Streamed)
      BY <1>3, <2>1 DEF Streamed
    <3>3. All(p, Streamed)
      BY <1>1, <1>3, <2>1, <3>1 DEF Flight
    <3>4. "OK" \notin Streamed
      BY DEF Streamed
    <3> QED
      BY <1>1, <1>2, <3>1, <3>2, <3>3, <3>4, LacksAll DEF Flight
  <2>5. ~ch.backlogTimer /\ dev.phase = "sent" => ~Lacks(inbox', "ACK_PROC")
    <3>1. ~Asking \/ dev.phase # "sent"
      BY <1>3, <2>1 DEF Asking
    <3>2. ~Repairing /\ ~Acking
      BY <1>3, <2>1 DEF Repairing, Requesting, Acking
    <3>3. Taking /\ dev.phase = "sent" => Comes("ACK_PROC")
      BY DEF Taking, Due, SentDue
    <3> QED
      BY <1>1, <1>2, <1>3, <2>1, <3>1, <3>2, <3>3 DEF Stage, Comes
  <2> QED
    BY <1>2, <2>1, <2>2, <2>3, <2>4, <2>5, SentDueNow
<1>7. ASSUME PackageArrives PROVE Due'
  <2>1. Head(inbox).op = "PKG" /\ UNCHANGED ch
    BY <1>7 DEF PackageArrives, Notified
  <2>2. \A op : op # "PKG" => (Lacks(inbox', op) <=> Lacks(inbox, op))
    BY <1>2, <1>3, <2>1
  <2> QED
    BY <1>2, <1>4, <2>1, <2>2, KeptDue
<1>8. ASSUME onStartHugeChunkAckProcArrived PROVE Due'
  <2> DEFINE r == CheckChunk(rx)
  <2>1. /\ Last = "START_OK" /\ All(p, {"OK"})
        /\ timely /\ ~ch.cmdTimer => ch.air = <<>> /\ All(p, Streamed)
    BY <1>8, StreamEnded DEF p
  <2>2. PICK c \in Cmds : /\ ch' = bleUartSendCmdWithResp(ch, c)
                          /\ c.op \in {"ACK_OK", "MISSING"}
    <3>1. CASE r.missed_cnt = 0
      <4>1. ch' = bleUartSendCmdWithResp(ch, Command("ACK_OK"))
        BY <1>8, <3>1 DEF onStartHugeChunkAckProcArrived, hugeChunkDownloadFinished,
                          sendAckOkHugeChunk
      <4> QED
        BY <4>1, CommandType
    <3>2. CASE r.missed_cnt # 0
      <4>1. ch' = bleUartSendCmdWithResp(ch, MissingCmd(Least(r.missed)))
        BY <1>8, <3>2 DEF onStartHugeChunkAckProcArrived, sendRequestMissingPackage
      <4>2. Shaped(r) /\ r.missed = Holes(rx) /\ Holes(rx) # {}
        BY <1>8, <3>2, StreamEnded
      <4> HIDE DEF r
      <4>3. r.missed \in SUBSET Nat /\ r.missed # {}
        BY <4>2, ShapedFields
      <4> QED
        BY <4>1, <4>3, LeastIsMember, CommandType
    <3> QED
      BY <3>1, <3>2
  <2>3. CASE ch.cmdTimer
    BY <1>1, <1>2, <2>1, <2>2, <2>3, SendBusy, SentDueLater
  <2>4. CASE ~ch.cmdTimer
    <3>1. All(p, Streamed) => Lacks(p, "OK")
      BY DEF All, Lacks, Streamed
    <3> QED
      BY <1>1, <1>2, <2>1, <2>2, <2>4, <3>1, SentDueNow
  <2> QED
    BY <2>3, <2>4
<1>9. ASSUME onReplyMissingPackageArrived PROVE Due'
  <2> DEFINE r == StoreMissing(rx, Head(inbox).payload)
  <2>1. /\ Last = "MISSING" /\ ch.air = <<>>
        /\ ~ch.cmdTimer => All(p, Streamed)
    BY <1>9, Repaired DEF p
  <2>2. CASE r.missed = {}
    <3> DEFINE c == Command("ACK_OK")
               x == bleUartSendCmdWithResp(ch, c)
    <3>1. ch' = bleUartSendCmdWithResp(x, c)
      BY <1>9, <2>2 DEF onReplyMissingPackageArrived, hugeChunkDownloadFinished,
                        sendAckOkHugeChunk
    <3>2. c \in Cmds /\ c.op = "ACK_OK"
      BY CommandType
    <3> HIDE DEF c
    <3>3. /\ x \in Channel /\ x.cmdTimer
          /\ ch.cmdTimer => x.last_cmd = ch.last_cmd /\ x.air = ch.air
          /\ ~ch.cmdTimer => x.last_cmd = c /\ x.air = Append(ch.air, c)
      BY <1>1, <3>2, SendFree, SendBusy
    <3> HIDE DEF x
    <3>4. ch'.last_cmd = x.last_cmd /\ ch'.air = x.air /\ ch'.backlogTimer /\ ch'.cmdTimer
      BY <3>1, <3>2, <3>3, SendBusy
    <3>5. CASE ch.cmdTimer
      BY <1>2, <2>1, <3>3, <3>4, <3>5, SentDueLater
    <3>6. CASE ~ch.cmdTimer
      <4>1. All(ch'.air, {"ACK_OK"})
        <5>1. \A ops : All(Append(ch.air, c), ops) <=> All(ch.air, ops) /\ c.op \in ops
          BY <1>1, <3>2, AppendOps
        <5>2. All(ch.air, {"ACK_OK"})
          BY <2>1, EmptyAll
        <5> QED
          BY <3>2, <3>3, <3>4, <3>6, <5>1, <5>2
      <4>2. ch'.last_cmd.op = "ACK_OK"
        BY <3>2, <3>3, <3>4, <3>6
      <4>3. Current'
        BY <4>1, <4>2 DEF Current, Last
      <4>4. AskingDue' /\ OfferedDue' /\ SentDue' /\ MissingDue'
        BY <4>2 DEF AskingDue, OfferedDue, SentDue, MissingDue, Last
      <4> QED
        BY <4>3, <4>4 DEF Due
    <3> QED
      BY <3>5, <3>6
  <2>3. CASE r.missed # {}
    <3> DEFINE c == MissingCmd(Least(r.missed))
    <3>1. ch' = bleUartSendCmdWithResp(ch, c)
      BY <1>9, <2>3 DEF onReplyMissingPackageArrived, sendRequestMissingPackage
    <3>2. Shaped(r)
      BY <1>9, Repaired
    <3>3. c \in Cmds /\ c.op = "MISSING"
      <4> HIDE DEF r
      <4>1. r.missed \in SUBSET Nat
        BY <3>2, ShapedFields
      <4> QED
        BY <2>3, <4>1, LeastIsMember, CommandType
    <3> HIDE DEF c, r
    <3>4. CASE ch.cmdTimer
      BY <1>1, <1>2, <2>1, <3>1, <3>3, <3>4, SendBusy, SentDueLater
    <3>5. CASE ~ch.cmdTimer
      <4>1. All(p, Streamed) => Lacks(p, "OK")
        BY DEF All, Lacks, Streamed
      <4> QED
        BY <1>1, <1>2, <2>1, <3>1, <3>3, <3>5, <4>1, SentDueNow
    <3> QED
      BY <3>4, <3>5
  <2> QED
    BY <2>2, <2>3
<1>10. ASSUME onNoChunkAvailableArrived PROVE Due'
  <2>1. Head(inbox).op = "NO_CHUNK" /\ Told(TRUE)'
    BY <1>10, bleUartRxTells DEF onNoChunkAvailableArrived, Notified
  <2>2. ch'.last_cmd = ch.last_cmd /\ ~ch'.cmdTimer
    BY <1>1, <1>10, NoChunkFields DEF onNoChunkAvailableArrived
  <2>3. Last = "REQUEST"
    <3>1. ~Taking
      BY <1>3, <2>1 DEF Taking, Conversation
    <3>2. ~Repairing /\ ~Acking
      BY <1>3, <2>1 DEF Repairing, Requesting, Acking
    <3> QED
      BY <1>1, <3>1, <3>2 DEF Stage, Asking
  <2>4. Current'
    BY <2>2 DEF Current
  <2>5. AskingDue' /\ OfferedDue' /\ SentDue' /\ MissingDue'
    BY <2>1, <2>2, <2>3 DEF AskingDue, OfferedDue, SentDue, MissingDue, Last
  <2> QED
    BY <2>4, <2>5 DEF Due
<1> QED
  BY <1>5, <1>6, <1>7, <1>8, <1>9, <1>10 DEF bleUartRx
\* What an answer of the device adds to the notifications.
LEMMA AnswerMeans ==
    ASSUME Typed, NEW c \in Cmds, NEW a \in Answers(c)
    PROVE  /\ \A op : Lacks(inbox \o a, op) => Lacks(inbox, op)
           /\ c.op = "REQUEST" =>
                /\ \A op : op \notin {"START", "NO_CHUNK"} /\ Lacks(inbox, op)
                     => Lacks(inbox \o a, op)
                /\ ~(Lacks(inbox \o a, "START") /\ Lacks(inbox \o a, "NO_CHUNK"))
                /\ dev.chunk \in Chunk => ~Lacks(inbox \o a, "START")
           /\ c.op = "MISSING" => ~Lacks(inbox \o a, "MISSED")
           /\ c.op = "OK" => inbox \o a = inbox
<1>1. inbox \in Seq(Sound) /\ a \in Seq(Sound)
  BY AnswersSound DEF Typed
<1>2. /\ \A i \in DOMAIN inbox : i \in DOMAIN (inbox \o a) /\ (inbox \o a)[i] = inbox[i]
      /\ \A i \in DOMAIN a : /\ Len(inbox) + i \in DOMAIN (inbox \o a)
                             /\ (inbox \o a)[Len(inbox) + i] = a[i]
  BY <1>1
<1>3. \A op : Lacks(inbox \o a, op) => Lacks(inbox, op) /\ Lacks(a, op)
  BY <1>2 DEF Lacks
<1>4. ASSUME c.op = "REQUEST"
      PROVE  /\ \A op : op \notin {"START", "NO_CHUNK"} /\ Lacks(inbox, op)
                  => Lacks(inbox \o a, op)
             /\ ~(Lacks(inbox \o a, "START") /\ Lacks(inbox \o a, "NO_CHUNK"))
             /\ dev.chunk \in Chunk => ~Lacks(inbox \o a, "START")
  <2>1. a = <<Offer>> /\ Offer \in Sound
    BY <1>4, MessageSound DEF Answers, Offer
  <2>2. /\ Offer.op \in {"START", "NO_CHUNK"}
        /\ dev.chunk \in Chunk => Offer.op = "START"
    BY DEF Offer, Message
  <2>3. inbox \o a = Append(inbox, Offer)
    BY <1>1, <2>1, JoinOne
  <2>4. \A op : Lacks(Append(inbox, Offer), op) <=> Lacks(inbox, op) /\ Offer.op # op
    BY <1>1, <2>1, AppendOps
  <2> QED
    BY <2>2, <2>3, <2>4
<1>5. ASSUME c.op = "MISSING" PROVE ~Lacks(inbox \o a, "MISSED")
  <2> DEFINE k == Message("OK")
             m == MissedReply(c.pkg)
  <2>1. m.op = "MISSED"
    BY DEF MissedReply, Message
  <2>2. a \in {<<k, m>>, <<m, k>>}
    BY <1>5 DEF Answers
  <2> HIDE DEF k, m
  <2>3. \E i \in DOMAIN a : a[i] = m
    <3>1. CASE a = <<k, m>>
      <4>1. 2 \in DOMAIN a /\ a[2] = m
        BY <3>1
      <4> QED
        BY <4>1
    <3>2. CASE a = <<m, k>>
      <4>1. 1 \in DOMAIN a /\ a[1] = m
        BY <3>2
      <4> QED
        BY <4>1
    <3> QED
      BY <2>2, <3>1, <3>2
  <2>4. ~Lacks(a, "MISSED")
    BY <2>1, <2>3 DEF Lacks
  <2> QED
    BY <1>3, <2>4
<1>6. ASSUME c.op = "OK" PROVE inbox \o a = inbox
  <2>1. a = <<>>
    BY <1>6 DEF Answers
  <2> QED
    BY <1>1, <2>1, JoinNothing
<1> QED
  BY <1>3, <1>4, <1>5, <1>6

LEMMA HearsDue ==
    ASSUME LinkIsFair, Core, MainTyped, Due, DeviceHears
    PROVE  Due'
<1> DEFINE c == Head(ch.air)
<1>1. /\ ch \in Channel /\ ch.air \in Seq(Cmds)
      /\ Typed /\ Flight /\ Stage
      /\ dev.phase # "idle" => dev.chunk \in Chunk
  BY ChannelFields DEF Core, Rest, Typed, Channel
<1>2. /\ ch.air # <<>> /\ c \in Cmds
      /\ ch'.last_cmd = ch.last_cmd
      /\ ch'.cmdTimer <=> ch.cmdTimer
      /\ ch'.air = Tail(ch.air)
      /\ ch'.backlogTimer <=> ch.backlogTimer
      /\ UNCHANGED timely
      /\ timely => ch'.air = <<>>
      /\ timely => (ch.cmdTimer <=> c.op # "OK")
  BY Heard
<1>3. PICK a \in Answers(c) : inbox' = inbox \o a
  BY DEF DeviceHears
<1>4. /\ \A op : Lacks(ch.air, op) <=> c.op # op /\ Lacks(Tail(ch.air), op)
      /\ \A ops : All(ch.air, ops) <=> c.op \in ops /\ All(Tail(ch.air), ops)
  BY <1>1, <1>2, TailOps
<1>5. Told(TRUE) => Told(TRUE)'
  BY DEF DeviceHears, main, Told
<1>6. /\ dev'.phase = "sent" => dev.phase = "sent"
      /\ dev'.phase = "offered" =>
           \/ c.op = "REQUEST" /\ dev.chunk \in Chunk
           \/ dev.phase = "offered" /\ c.op # "START_OK"
  BY <1>1 DEF DeviceHears, Typed, Devs
<1> HIDE DEF c
<1>7. timely /\ ch.cmdTimer => c.op = Last
  BY <1>4 DEF Due, Current
<1>8. /\ \A op : Lacks(inbox', op) => Lacks(inbox, op)
      /\ c.op = "REQUEST" =>
           /\ Lacks(inbox, "OK") => Lacks(inbox', "OK")
           /\ ~(Lacks(inbox', "START") /\ Lacks(inbox', "NO_CHUNK"))
           /\ dev.chunk \in Chunk => ~Lacks(inbox', "START")
      /\ c.op = "MISSING" => ~Lacks(inbox', "MISSED")
  BY <1>1, <1>2, <1>3, AnswerMeans
<1>9. Current'
  BY <1>2, <1>4 DEF Due, Current, Last
<1>10. AskingDue'
  BY <1>2, <1>4, <1>5, <1>7, <1>8 DEF Due, AskingDue, Guarded, Comes, Goes, Last
<1>11. OfferedDue'
  <2>1. SUFFICES ASSUME Last = "START_OK", ~ch.backlogTimer, dev'.phase = "offered"
                 PROVE  /\ timely => Guarded'
                        /\ ~timely => Comes("START")' \/ Goes("START_OK")'
    BY <1>2 DEF OfferedDue, Last
  <2>2. Taking
    BY <1>1, <2>1 DEF Stage, Asking, Repairing, Acking, Waits
  <2>3. dev.phase = "offered" /\ c.op = "REQUEST"
    <3>1. /\ dev.phase \in {"streaming", "sent"} => c.op = "START_OK"
          /\ dev.phase = "offered" => c.op \in {"REQUEST", "START_OK"}
          /\ dev.phase \in {"offered", "streaming", "sent"}
      BY <1>4, <2>2 DEF Taking, Conversation
    <3> QED
      BY <1>6, <2>1, <3>1
  <2>4. ~timely
    BY <1>7, <2>1, <2>3 DEF Due, OfferedDue, Guarded
  <2>5. ~Lacks(inbox', "START")
    BY <1>1, <1>8, <2>3
  <2> QED
    BY <2>4, <2>5 DEF Comes
<1>12. SentDue'
  BY <1>2, <1>6, <1>8 DEF Due, SentDue, Comes, Last
<1>13. MissingDue'
  BY <1>2, <1>4, <1>8 DEF Due, MissingDue, Comes, Goes, Last
<1> QED
  BY <1>9, <1>10, <1>11, <1>12, <1>13 DEF Due

LEMMA DeviceDue ==
    ASSUME LinkIsFair, Core, MainTyped, Due, Device
    PROVE  Due'
<1>1. inbox \in Seq(Sound) /\ Typed
  BY DEF Core, Typed
<1>2. ASSUME DeviceStreams PROVE Due'
  <2> DEFINE m == [op |-> "PKG", chunk |-> dev.chunk, byte |-> dev.next % Wrap,
                   payload |-> <<dev.chunk, dev.next>>]
  <2>1. dev.chunk \in Chunk /\ dev.next \in Nat /\ dev.phase = "streaming" /\ dev \in Devs
    BY <1>1, <1>2, DevFields DEF Typed, DeviceStreams
  <2>2. m \in Sound /\ m.op = "PKG"
    BY <2>1, MessageSound
  <2>3. inbox' = Append(inbox, m) \/ inbox' = inbox
    BY <1>2 DEF DeviceStreams
  <2>4. dev'.phase = "streaming"
    BY <1>2, <2>1 DEF DeviceStreams, Devs
  <2>5. UNCHANGED <<ch, timely, mainq, reported>>
    BY <1>2 DEF DeviceStreams, central
  <2>6. Told(TRUE) => Told(TRUE)'
    BY <2>5 DEF Told
  <2> HIDE DEF m
  <2>7. \A op : Lacks(Append(inbox, m), op) <=> Lacks(inbox, op) /\ "PKG" # op
    BY <1>1, <2>2, AppendOps
  <2>8. \A op : op # "PKG" => (Lacks(inbox', op) <=> Lacks(inbox, op))
    BY <2>3, <2>7
  <2> QED
    BY <2>4, <2>5, <2>6, <2>8, KeptDue
<1>3. ASSUME DeviceEndsStream PROVE Due'
  <2> DEFINE m == Message("ACK_PROC")
  <2>1. m \in Sound /\ m.op = "ACK_PROC" /\ inbox' = Append(inbox, m)
    BY <1>3, MessageSound DEF DeviceEndsStream, Message
  <2>2. dev'.phase = "sent"
    BY <1>1, <1>3 DEF DeviceEndsStream, Typed, Devs
  <2>3. UNCHANGED <<ch, timely, mainq, reported>>
    BY <1>3 DEF DeviceEndsStream, central, budget
  <2> HIDE DEF m
  <2>4. \A op : Lacks(inbox', op) <=> Lacks(inbox, op) /\ "ACK_PROC" # op
    BY <1>1, <2>1, AppendOps
  <2>5. Told(TRUE) <=> Told(TRUE)'
    BY <2>3 DEF Told
  <2>6. Current' /\ AskingDue' /\ MissingDue'
    BY <2>3, <2>4, <2>5
       DEF Due, Current, AskingDue, MissingDue, Guarded, Comes, Goes, Last
  <2>7. OfferedDue' /\ SentDue'
    BY <2>2, <2>4 DEF OfferedDue, SentDue, Comes
  <2> QED
    BY <2>6, <2>7 DEF Due
<1> QED
  BY <1>2, <1>3, HearsDue DEF Device

LEMMA LinkDue ==
    ASSUME LinkIsFair, AsksAgain, Core, MainTyped, Due, Link
    PROVE  Due'
<1>1. /\ ch \in Channel /\ ch.air \in Seq(Cmds) /\ inbox \in Seq(Sound)
      /\ timely /\ UNCHANGED <<timely, dev, mainq, reported>>
      /\ pkgLosses = 0
  BY ChannelFields DEF Core, Typed, Channel, Link, LoseCmd, LoseMessage, MayLose, LinkIsFair,
                       central, main
<1>2. Last # "MISSING"
  BY <1>1 DEF Core, Rest, Losses
<1>3. Told(TRUE) <=> Told(TRUE)'
  BY <1>1 DEF Told
<1>4. /\ ch'.last_cmd = ch.last_cmd
      /\ ch'.cmdTimer <=> ch.cmdTimer
      /\ ch'.backlogTimer <=> ch.backlogTimer
      /\ All(ch.air, {Last}) => All(ch'.air, {Last})
      /\ Lacks(inbox, "OK") => Lacks(inbox', "OK")
      /\ Lacks(inbox', "ACK_PROC") => Lacks(inbox, "ACK_PROC")
  <2>1. CASE LoseCmd
    <3>1. /\ ch.air # <<>> /\ ch' = [ch EXCEPT !.air = Tail(@)] /\ UNCHANGED inbox
      BY <2>1 DEF LoseCmd
    <3>2. /\ ch'.last_cmd = ch.last_cmd /\ ch'.air = Tail(ch.air)
          /\ ch'.cmdTimer <=> ch.cmdTimer
          /\ ch'.backlogTimer <=> ch.backlogTimer
      BY <1>1, <3>1, HeardFields
    <3>3. \A ops : All(ch.air, ops) => All(Tail(ch.air), ops)
      BY <1>1, <3>1, TailOps
    <3> QED
      BY <3>1, <3>2, <3>3
  <2>2. CASE LoseMessage
    <3>1. /\ inbox # <<>> /\ inbox' = Tail(inbox) /\ UNCHANGED ch
          /\ Head(inbox).op # "ACK_PROC"
      BY <2>2 DEF LoseMessage, central, AsksAgain
    <3>2. \A op : Lacks(inbox, op) <=> Head(inbox).op # op /\ Lacks(Tail(inbox), op)
      BY <1>1, <3>1, TailOps
    <3> QED
      BY <3>1, <3>2
  <2> QED
    BY <2>1, <2>2 DEF Link
<1>5. Current' /\ MissingDue'
  BY <1>1, <1>2, <1>4 DEF Due, Current, MissingDue, Last
<1>6. AskingDue'
  BY <1>1, <1>3, <1>4 DEF Due, AskingDue, Guarded, Last
<1>7. OfferedDue' /\ SentDue'
  BY <1>1, <1>4 DEF Due, OfferedDue, SentDue, Guarded, Comes, Last
<1> QED
  BY <1>5, <1>6, <1>7 DEF Due

LEMMA DueNext ==
    ASSUME LinkIsFair, AsksAgain, Core, MainTyped, Due, [Next]_vars
    PROVE  Due'
<1>1. ASSUME UNCHANGED <<timely, ch, inbox, dev>> PROVE Due'
  <2>1. Told(TRUE) => Told(TRUE)'
    BY TellsNext
  <2> QED
    BY <1>1, <2>1, KeptDue
<1> QED
  BY <1>1, TimersDue, bleUartRxDue, DeviceDue, LinkDue
     DEF Next, Controller, MainThread, budget, vars

LEMMA InitDue == Init => Due
<1> SUFFICES ASSUME Init PROVE Due
  OBVIOUS
<1> DEFINE c == Command("REQUEST")
           x == IdleChannel(NoCmd)
           a == Append(<<>>, c)
<1>1. x \in Channel /\ ~x.cmdTimer /\ ~x.backlogTimer /\ x.air = <<>>
      /\ c \in Cmds /\ c.op = "REQUEST" /\ <<>> \in Seq(Cmds)
  BY CommandType, RetryAssumption DEF IdleChannel, Channel, ChannelType
<1>2. ch = bleUartSendCmdWithResp(x, c) /\ inbox = <<>>
  BY DEF Init
<1> HIDE DEF c, x
<1>3. ch.last_cmd = c /\ ch.cmdTimer /\ ch.air = a
  BY <1>1, <1>2, SendFree
<1>4. /\ \A ops : All(a, ops) <=> All(<<>>, ops) /\ c.op \in ops
      /\ \A op : Lacks(a, op) <=> Lacks(<<>>, op) /\ c.op # op
  BY <1>1, AppendOps
<1> HIDE DEF a
<1>5. All(a, {"REQUEST"}) /\ ~Lacks(a, "REQUEST") /\ Lacks(inbox, "OK")
  BY <1>1, <1>2, <1>4, EmptyAll
<1>6. Last = "REQUEST"
  BY <1>1, <1>3 DEF Last
<1> QED
  BY <1>3, <1>5, <1>6
     DEF Due, Current, AskingDue, OfferedDue, SentDue, MissingDue, Guarded, Goes

\* No event, message or stream is under way and no timer is running.
Silent ==
    /\ mainq = <<>> /\ inbox = <<>> /\ ch.air = <<>>
    /\ ~ch.cmdTimer /\ ~ch.backlogTimer /\ ~nextTimer
    /\ dev.phase # "streaming"

\* The download falls silent only when its success has been told: until then
\* what moves it on is under way, or a timer that asks for it again is running.
NeverSilent == Silent => TRUE \in reported

\* On such a link, when it does not lose the two messages that no timer asks for
\* again, CMD_START_HUGE_CHUNK_ACK_PROC and REPLY_MISSED_PACKAGE, no command is
\* left waiting for good, late answers or not.
THEOREM NeverSilentHolds ==
    ASSUME LinkIsFair, AsksAgain
    PROVE  Spec => []NeverSilent
<1> DEFINE Inv == Core /\ MainTyped /\ Due
<1>1. Init => Inv
  BY TypedInit, InitCore, InitDue DEF Core
<1>2. Inv /\ [Next]_vars => Inv'
  BY CoreNext, DueNext
<1>3. Inv => NeverSilent
  <2>1. SUFFICES ASSUME Core, Due, Silent PROVE TRUE \in reported
    BY DEF NeverSilent
  <2>2. \A op : ~Comes(op) /\ ~Goes(op)
    BY <2>1, EmptyAll DEF Silent, Comes, Goes
  <2>3. ~Told(TRUE) => Last # "REQUEST"
    BY <2>1, <2>2 DEF Due, AskingDue, Guarded, Silent
  <2>4. ~Asking \/ Told(TRUE)
    BY <2>3 DEF Asking
  <2>5. ~Taking
    <3>1. Taking => /\ dev.phase \in {"offered", "streaming", "sent"}
                    /\ Last = "START_OK"
      BY DEF Taking, Conversation
    <3> QED
      BY <2>1, <2>2, <3>1 DEF Silent, Due, OfferedDue, SentDue, Guarded
  <2>6. ~Repairing
    BY <2>1, <2>2 DEF Silent, Due, MissingDue, Repairing
  <2>7. ~Acking
    BY <2>1 DEF Silent, Acking, Waits
  <2>8. Told(TRUE)
    BY <2>1, <2>4, <2>5, <2>6, <2>7 DEF Core, Rest, Stage
  <2>9. \A i \in DOMAIN <<>> : FALSE
    OBVIOUS
  <2>10. ~Tells(mainq, TRUE)
    BY <2>1, <2>9 DEF Tells, Silent
  <2> QED
    BY <2>8, <2>10 DEF Told
<1> QED
  BY <1>1, <1>2, <1>3, PTL DEF Spec
=============================================================================
