---------------------------- MODULE VirtioProofs ----------------------------
(***************************************************************************)
(* Proofs about module Virtio, for every ring size, every number of        *)
(* descriptors per request, every size of vhost's table and every number   *)
(* of requests.                                                            *)
(*                                                                         *)
(* The invariant has two halves.  Sequence and Registers follow the        *)
(* driver's set-up: three counters say how many of its messages have been  *)
(* posted, stored and served, and the registers and the queues are what    *)
(* the messages up to there make them.  BlkRing follows the requests:      *)
(* vhost's table is a ring of descriptors, in which the descriptors of a   *)
(* request that was entered at n are at n, n + 1 and so on, modulo         *)
(* MaxRegions, until they are lapped.                                      *)
(***************************************************************************)
EXTENDS Virtio, SequenceTheorems, WellFoundedInduction, TLAPS

(* The n-th message of the driver's set-up.                                *)
Message(n) == SetUp(NumQueues)[n]

(* How far the set-up is: messages posted, stores made, messages served.   *)
Total == IF kind = "net" THEN 15 ELSE 12
Stored == Total - Len(todo)
Posted == IF storing = None THEN Stored ELSE Stored + 1
InFlight == box # None /\ box.reg \notin {"QUEUE_NOTIFY", "INTERRUPT_ACK"}
Served == IF InFlight THEN Posted - 1 ELSE Posted

(* The messages are those of the driver's set-up in their order, one of    *)
(* them under way at a time; a queue is notified of once it is set up.     *)
Sequence ==
  /\ Len(todo) <= Total
  /\ \A n \in 1 .. Len(todo) : todo[n] = Message(Stored + n)
  /\ storing # None => todo # << >> /\ storing = todo[1] /\ storing.reg # "read"
  /\ InFlight => Posted > 0 /\ box = Message(Posted) /\ box.reg # "read"
  /\ owes # {} => Len(todo) <= 1
  /\ owes \subseteq Live
  /\ box # None /\ box.reg = "QUEUE_NOTIFY" => Len(todo) <= 1 /\ box.data \in Live

(* What the registers and the device hold at each point of the set-up.     *)
Registers ==
  /\ offered = IF Served >= 3 THEN 1 ELSE 0
  /\ FeaturesSel = IF Stored >= 7 THEN 1 ELSE 0
  /\ AckGuestFeatures = <<IF Served >= 6 THEN Feature(0) ELSE 0,
                          IF Served >= 8 THEN Feature(1) ELSE 0>>
  /\ Served >= 9 => SelectedIndex = IF kind = "net" /\ Served >= 12 THEN 1 ELSE 0
  /\ Stored >= 10 /\ ~(kind = "net" /\ Served >= 12) => info.num = QueueNum[0]
  /\ kind = "net" /\ Stored >= 13 => info.num = QueueNum[1]
  /\ Served >= 11 => Queues[0].num = QueueNum[0] /\ Queues[0].page = 1
  /\ kind = "net" /\ Served >= 14 => Queues[1].num = QueueNum[1] /\ Queues[1].page = 2

(* The table of a block device is a ring of the descriptors entered: those *)
(* of request k are at entry[k + 1] and after it, modulo MaxRegions, and   *)
(* each is there, and in vhost's copy, until the ring has gone round it.   *)
LastIdx == Queues[0].last_avail_idx
At(k, j) == entry[k + 1] + j - 1
Ring ==
  /\ LastIdx = Len(entry) /\ LastIdx <= avail[0]
  /\ Served < 11 => LastIdx = 0
  /\ \A k \in 0 .. LastIdx - 1 : entry[k + 1] + Parts[0] <= memTableIdx
  /\ \A k \in 0 .. LastIdx - 1, j \in 1 .. Parts[0] :
        memTableIdx <= At(k, j) + MaxRegions =>
          table[At(k, j) % MaxRegions] = Part(0, k, j) /\ Part(0, k, j) \in shared

BlkRing == kind = "blk" => Ring

VirtioInv == TypeOK /\ Sequence /\ Registers /\ BlkRing
-----------------------------------------------------------------------------
(* Arithmetic *)

(* Division with remainder, as the index of a ring uses it.                *)
LEMMA DivMod ==
  ASSUME NEW x \in Nat, NEW r \in Nat \ {0}
  PROVE  x \div r \in Nat /\ x % r \in 0 .. r - 1 /\ x = r * (x \div r) + (x % r)
OBVIOUS

(* A greater multiple is greater by at least one.                          *)
LEMMA Multiples ==
  ASSUME NEW a \in Nat, NEW b \in Nat, NEW r \in Nat, a < b
  PROVE  r * a + r <= r * b
OBVIOUS

(* Quotient and remainder are unique.                                      *)
LEMMA DivUnique ==
  ASSUME NEW r \in Nat \ {0}, NEW a \in Nat, NEW c \in 0 .. r - 1
  PROVE  (r * a + c) \div r = a /\ (r * a + c) % r = c
<1> DEFINE x == r * a + c
           b == x \div r
           d == x % r
<1>1. x \in Nat
  OBVIOUS
<1>2. b \in Nat /\ d \in 0 .. r - 1 /\ r * a + c = r * b + d
  <2> HIDE DEF x
  <2>1. b \in Nat /\ d \in 0 .. r - 1 /\ x = r * b + d
    BY <1>1, DivMod
  <2> QED BY <2>1 DEF x
<1> SUFFICES b = a /\ d = c
  OBVIOUS
<1> HIDE DEF b, d
<1>3. ~(a < b)
  <2> SUFFICES ASSUME a < b PROVE FALSE
    OBVIOUS
  <2> DEFINE ra == r * a
             rb == r * b
  <2>1. ra \in Int /\ rb \in Int /\ ra + r <= rb /\ ra + c = rb + d
    BY <1>2, Multiples
  <2> HIDE DEF ra, rb
  <2> QED BY <1>2, <2>1
<1>4. ~(b < a)
  <2> SUFFICES ASSUME b < a PROVE FALSE
    OBVIOUS
  <2> DEFINE ra == r * a
             rb == r * b
  <2>1. ra \in Int /\ rb \in Int /\ rb + r <= ra /\ ra + c = rb + d
    BY <1>2, Multiples
  <2> HIDE DEF ra, rb
  <2> QED BY <1>2, <2>1
<1>5. a = b
  BY <1>2, <1>3, <1>4
<1> QED BY <1>2, <1>5

(* Two places that are less than a lap apart are in different slots.       *)
LEMMA Window ==
  ASSUME NEW r \in Nat \ {0}, NEW x \in Nat, NEW y \in Nat, x < y, y < x + r
  PROVE  x % r # y % r
<1> SUFFICES ASSUME x % r = y % r PROVE FALSE
  OBVIOUS
<1> DEFINE a == x \div r
           b == y \div r
           m == x % r
<1>1. a \in Nat /\ b \in Nat /\ m \in Nat /\ x = r * a + m /\ y = r * b + m
  <2>1. a \in Nat /\ m \in 0 .. r - 1 /\ x = r * a + m
    BY DivMod
  <2>2. b \in Nat /\ y = r * b + (y % r)
    BY DivMod
  <2> QED BY <2>1, <2>2
<1> HIDE DEF a, b, m
<1> DEFINE ra == r * a
           rb == r * b
<1>2. ra \in Int /\ rb \in Int /\ x = ra + m /\ y = rb + m
  BY <1>1
<1>3. CASE a < b
  <2>1. ra + r <= rb
    BY <1>1, <1>3, Multiples
  <2> HIDE DEF ra, rb
  <2> QED BY <1>1, <1>2, <2>1
<1>4. CASE a = b
  BY <1>1, <1>4
<1>5. CASE b < a
  <2>1. rb + r <= ra
    BY <1>1, <1>5, Multiples
  <2> HIDE DEF ra, rb
  <2> QED BY <1>1, <1>2, <2>1
<1> QED BY <1>1, <1>3, <1>4, <1>5

(* A set of numbers that is not empty has a least element.                 *)
LEMMA Minimum ==
  ASSUME NEW S \in SUBSET Nat, S # {}
  PROVE  \E m \in S : \A n \in S : m <= n
<1> DEFINE R == {p \in Nat \X Nat : p[1] < p[2]}
<1>1. IsWellFoundedOn(R, Nat)
  BY NatLessThanWellFounded, Zenon DEF OpToRel
<1>2. PICK m \in S : \A n \in S : ~(<<n, m>> \in R)
  <2> HIDE DEF R
  <2> QED BY <1>1, WFMin, Zenon
<1>3. ASSUME NEW n \in S PROVE m <= n
  <2>1. m \in Nat /\ n \in Nat /\ ~(<<n, m>> \in R)
    BY <1>2
  <2> QED BY <2>1
<1> QED BY <1>3

-----------------------------------------------------------------------------
(* The driver's set-up *)

(* The first eleven messages are the same for both kinds of device.        *)
LEMMA SetUpMessages ==
  ASSUME NEW n \in {1, 2}
  PROVE  /\ Len(SetUp(n)) = IF n = 2 THEN 15 ELSE 12
         /\ SetUp(n)[1] = Msg("HOST_FEATURES_SEL", 0) /\ SetUp(n)[2] = Msg("read", 0)
         /\ SetUp(n)[3] = Msg("HOST_FEATURES_SEL", 1) /\ SetUp(n)[4] = Msg("read", 1)
         /\ SetUp(n)[5] = Msg("GUEST_FEATURES_SEL", 0)
         /\ SetUp(n)[6] = Msg("GUEST_FEATURES", Feature(0))
         /\ SetUp(n)[7] = Msg("GUEST_FEATURES_SEL", 1)
         /\ SetUp(n)[8] = Msg("GUEST_FEATURES", Feature(1))
         /\ SetUp(n)[9] = Msg("QUEUE_SEL", 0) /\ SetUp(n)[10] = Msg("QUEUE_NUM", QueueNum[0])
         /\ SetUp(n)[11] = Msg("QUEUE_PFN", 1)
         /\ n = 1 => SetUp(n)[12] = Msg("STATUS", DRIVER_OK)
         /\ n = 2 => /\ SetUp(n)[12] = Msg("QUEUE_SEL", 1)
                     /\ SetUp(n)[13] = Msg("QUEUE_NUM", QueueNum[1])
                     /\ SetUp(n)[14] = Msg("QUEUE_PFN", 2)
                     /\ SetUp(n)[15] = Msg("STATUS", DRIVER_OK)
<1> DEFINE A == <<Msg("HOST_FEATURES_SEL", 0), Msg("read", 0), Msg("HOST_FEATURES_SEL", 1),
                  Msg("read", 1), Msg("GUEST_FEATURES_SEL", 0), Msg("GUEST_FEATURES", Feature(0)),
                  Msg("GUEST_FEATURES_SEL", 1), Msg("GUEST_FEATURES", Feature(1))>>
           B == <<Msg("QUEUE_SEL", 0), Msg("QUEUE_NUM", QueueNum[0]), Msg("QUEUE_PFN", 1)>>
           C == IF n = 2
                THEN <<Msg("QUEUE_SEL", 1), Msg("QUEUE_NUM", QueueNum[1]), Msg("QUEUE_PFN", 2)>>
                ELSE << >>
           D == <<Msg("STATUS", DRIVER_OK)>>
<1>1. SetUp(n) = A \o B \o C \o D
  BY DEF SetUp
<1>2. A \in Seq(Messages) /\ Len(A) = 8
  BY DEF Messages, Msg, Feature
<1>3. B \in Seq(Messages) /\ Len(B) = 3
  BY ShapeAssumption DEF Messages, Msg
<1>4. C \in Seq(Messages) /\ Len(C) = IF n = 2 THEN 3 ELSE 0
  <2>1. CASE n = 1
    BY <2>1
  <2>2. CASE n = 2
    BY <2>2, ShapeAssumption DEF Messages, Msg
  <2> QED BY <2>1, <2>2
<1>5. D \in Seq(Messages) /\ Len(D) = 1
  BY DEF Messages, Msg, DRIVER_OK
<1>6. /\ A[1] = Msg("HOST_FEATURES_SEL", 0) /\ A[2] = Msg("read", 0)
      /\ A[3] = Msg("HOST_FEATURES_SEL", 1) /\ A[4] = Msg("read", 1)
      /\ A[5] = Msg("GUEST_FEATURES_SEL", 0) /\ A[6] = Msg("GUEST_FEATURES", Feature(0))
      /\ A[7] = Msg("GUEST_FEATURES_SEL", 1) /\ A[8] = Msg("GUEST_FEATURES", Feature(1))
  OBVIOUS
<1>7. /\ B[1] = Msg("QUEUE_SEL", 0) /\ B[2] = Msg("QUEUE_NUM", QueueNum[0])
      /\ B[3] = Msg("QUEUE_PFN", 1) /\ D[1] = Msg("STATUS", DRIVER_OK)
  OBVIOUS
<1>8. n = 2 => /\ C[1] = Msg("QUEUE_SEL", 1) /\ C[2] = Msg("QUEUE_NUM", QueueNum[1])
               /\ C[3] = Msg("QUEUE_PFN", 2)
  OBVIOUS
<1> HIDE DEF A, B, C, D
<1> DEFINE AB == A \o B
           ABC == AB \o C
<1>9. /\ AB \in Seq(Messages) /\ Len(AB) = 11
      /\ \A i \in 1 .. 11 : AB[i] = IF i <= 8 THEN A[i] ELSE B[i - 8]
  <2>1. /\ AB \in Seq(Messages) /\ Len(AB) = Len(A) + Len(B)
        /\ \A i \in 1 .. Len(A) + Len(B) :
              AB[i] = IF i <= Len(A) THEN A[i] ELSE B[i - Len(A)]
    BY <1>2, <1>3, ConcatProperties, Zenon
  <2> HIDE DEF AB
  <2> QED BY <1>2, <1>3, <2>1
<1>10. SetUp(n) = ABC \o D
  BY <1>1
<1> HIDE DEF AB
<1>11. /\ ABC \in Seq(Messages) /\ Len(ABC) = 11 + Len(C)
       /\ \A i \in 1 .. 11 + Len(C) : ABC[i] = IF i <= 11 THEN AB[i] ELSE C[i - 11]
  <2>1. /\ ABC \in Seq(Messages) /\ Len(ABC) = Len(AB) + Len(C)
        /\ \A i \in 1 .. Len(AB) + Len(C) :
              ABC[i] = IF i <= Len(AB) THEN AB[i] ELSE C[i - Len(AB)]
    BY <1>4, <1>9, ConcatProperties, Zenon
  <2> HIDE DEF ABC
  <2> QED BY <1>4, <1>9, <2>1
<1> HIDE DEF ABC
<1>12. /\ Len(SetUp(n)) = 12 + Len(C)
       /\ \A i \in 1 .. 12 + Len(C) :
             SetUp(n)[i] = IF i <= 11 + Len(C) THEN ABC[i] ELSE D[i - 11 - Len(C)]
  <2>1. /\ Len(ABC \o D) = Len(ABC) + Len(D)
        /\ \A i \in 1 .. Len(ABC) + Len(D) :
              (ABC \o D)[i] = IF i <= Len(ABC) THEN ABC[i] ELSE D[i - Len(ABC)]
    BY <1>5, <1>11, ConcatProperties, Zenon
  <2>2. /\ Len(SetUp(n)) = Len(ABC) + Len(D)
        /\ \A i \in 1 .. Len(ABC) + Len(D) :
              SetUp(n)[i] = IF i <= Len(ABC) THEN ABC[i] ELSE D[i - Len(ABC)]
    BY <1>10, <2>1, Zenon
  <2> QED BY <1>4, <1>5, <1>11, <2>2
<1>13. \A i \in 1 .. 11 : SetUp(n)[i] = IF i <= 8 THEN A[i] ELSE B[i - 8]
  BY <1>4, <1>9, <1>11, <1>12
<1>14. CASE n = 1
  <2>1. Len(C) = 0 /\ SetUp(n)[12] = D[1]
    BY <1>4, <1>12, <1>14
  <2> QED BY <1>6, <1>7, <1>12, <1>13, <1>14, <2>1
<1>15. CASE n = 2
  <2>1. Len(C) = 3
    BY <1>4, <1>15
  <2>2. SetUp(n)[12] = C[1] /\ SetUp(n)[13] = C[2] /\ SetUp(n)[14] = C[3] /\ SetUp(n)[15] = D[1]
    BY <1>11, <1>12, <2>1
  <2> QED BY <1>6, <1>7, <1>8, <1>12, <1>13, <1>15, <2>1, <2>2
<1> QED BY <1>14, <1>15

(* The messages by their place.                                            *)
LEMMA Script ==
  ASSUME kind \in Kinds, NEW p \in 1 .. Total
  PROVE  /\ Message(p) \in Messages
         /\ Message(p).reg \notin {"QUEUE_NOTIFY", "INTERRUPT_ACK"}
         /\ Message(p).reg = "HOST_FEATURES_SEL" <=> p \in {1, 3}
         /\ Message(p).reg = "read" <=> p \in {2, 4}
         /\ Message(p).reg = "GUEST_FEATURES_SEL" <=> p \in {5, 7}
         /\ Message(p).reg = "GUEST_FEATURES" <=> p \in {6, 8}
         /\ Message(p).reg = "QUEUE_SEL" <=> p = 9 \/ (kind = "net" /\ p = 12)
         /\ Message(p).reg = "QUEUE_NUM" <=> p = 10 \/ (kind = "net" /\ p = 13)
         /\ Message(p).reg = "QUEUE_PFN" <=> p = 11 \/ (kind = "net" /\ p = 14)
         /\ Message(p).reg = "STATUS" <=> p = Total
         /\ p \in {1, 2, 5, 9} => Message(p).data = 0
         /\ p \in {3, 4, 7, 11} => Message(p).data = 1
         /\ p = 6 => Message(p).data = Feature(0)
         /\ p = 8 => Message(p).data = Feature(1)
         /\ p = 10 => Message(p).data = QueueNum[0]
         /\ kind = "net" /\ p = 12 => Message(p).data = 1
         /\ kind = "net" /\ p = 13 => Message(p).data = QueueNum[1]
         /\ kind = "net" /\ p = 14 => Message(p).data = 2
<1>1. kind \in {"blk", "net"}
  BY ShapeAssumption
<1> USE DEF Msg
<1>2. CASE kind = "net"
  <2>1. NumQueues = 2 /\ Total = 15
    BY <1>2 DEF NumQueues, Total
  <2>2. p \in 1 .. 15
    BY <2>1
  <2>3. CASE p \in 1 .. 4
    BY <1>2, <2>1, <2>3, SetUpMessages DEF Message, Messages
  <2>4. CASE p \in 5 .. 8
    BY <1>2, <2>1, <2>4, SetUpMessages DEF Message, Messages, Feature
  <2>5. CASE p \in 9 .. 11
    BY <1>2, <2>1, <2>5, SetUpMessages, ShapeAssumption DEF Message, Messages
  <2>6. CASE p \in 12 .. 15
    BY <1>2, <2>1, <2>6, SetUpMessages, ShapeAssumption DEF Message, Messages, DRIVER_OK
  <2> QED BY <2>2, <2>3, <2>4, <2>5, <2>6
<1>3. CASE kind = "blk"
  <2>1. NumQueues = 1 /\ Total = 12
    BY <1>3 DEF NumQueues, Total
  <2>2. p \in 1 .. 12
    BY <2>1
  <2>3. CASE p \in 1 .. 4
    BY <1>3, <2>1, <2>3, SetUpMessages DEF Message, Messages
  <2>4. CASE p \in 5 .. 8
    BY <1>3, <2>1, <2>4, SetUpMessages DEF Message, Messages, Feature
  <2>5. CASE p \in 9 .. 12
    BY <1>3, <2>1, <2>5, SetUpMessages, ShapeAssumption DEF Message, Messages, DRIVER_OK
  <2> QED BY <2>2, <2>3, <2>4, <2>5
<1> QED BY <1>1, <1>2, <1>3

-----------------------------------------------------------------------------
(* Types *)

(* The message that is under way is one of the set-up.                     *)
LEMMA UnderWay ==
  ASSUME TypeOK, Sequence
  PROVE  /\ Stored \in 0 .. Total /\ Posted \in 0 .. Total /\ Total \in {12, 15}
         /\ InFlight => Posted \in 1 .. Total /\ Served = Posted - 1
         /\ ~InFlight => Served = Posted
         /\ Served \in 0 .. Total
         /\ storing # None => Posted = Stored + 1 /\ storing = Message(Posted)
         /\ storing = None => Posted = Stored
<1>1. Total \in {12, 15} /\ Len(todo) \in Nat
  BY DEF Total, TypeOK
<1>2. Stored \in 0 .. Total
  BY <1>1 DEF Stored, Sequence
<1>3. storing # None => Posted \in 1 .. Total /\ Posted = Stored + 1 /\ storing = Message(Posted)
  <2> SUFFICES ASSUME storing # None
               PROVE  Posted \in 1 .. Total /\ Posted = Stored + 1 /\ storing = Message(Posted)
    OBVIOUS
  <2>1. Len(todo) >= 1 /\ storing = todo[1]
    BY <1>1 DEF Sequence, TypeOK
  <2>2. todo[1] = Message(Stored + 1)
    BY <1>1, <2>1 DEF Sequence
  <2> QED BY <1>1, <1>2, <2>1, <2>2 DEF Posted, Stored
<1>4. storing = None => Posted = Stored
  BY DEF Posted
<1>5. Posted \in 0 .. Total
  BY <1>1, <1>2, <1>3, <1>4
<1>6. InFlight => Posted \in 1 .. Total
  BY <1>1, <1>5 DEF Sequence
<1> QED BY <1>1, <1>2, <1>3, <1>4, <1>5, <1>6 DEF Served

(* What the cases of PerformOperation find in the message.                 *)
LEMMA BoxData ==
  ASSUME TypeOK, Sequence, box # None
  PROVE  /\ box.reg \in {"HOST_FEATURES_SEL", "QUEUE_SEL", "QUEUE_NOTIFY"} => box.data \in {0, 1}
         /\ box.data \in Nat
<1>1. box.data \in Nat
  BY DEF TypeOK, Messages
<1>2. CASE InFlight
  <2>1. box = Message(Posted) /\ Posted \in 1 .. Total /\ kind \in Kinds
    BY <1>2, UnderWay DEF Sequence, TypeOK
  <2>2. box.reg = "HOST_FEATURES_SEL" => box.data \in {0, 1}
    BY <2>1, Script
  <2>3. box.reg = "QUEUE_SEL" => box.data \in {0, 1}
    BY <2>1, Script
  <2>4. box.reg # "QUEUE_NOTIFY"
    BY <1>2 DEF InFlight
  <2> QED BY <1>1, <2>2, <2>3, <2>4
<1>3. CASE ~InFlight
  BY <1>1, <1>3 DEF InFlight, Sequence, Live, NumQueues
<1> QED BY <1>2, <1>3

(* Entering buffers into the table leaves it a table of buffers.           *)
LEMMA EnteredType ==
  ASSUME NEW t \in [0 .. MaxRegions - 1 -> Buffers \cup {None}], NEW i \in Nat,
         NEW n \in Nat, NEW b \in [1 .. n -> Buffers]
  PROVE  Entered(t, i, b) \in [0 .. MaxRegions - 1 -> Buffers \cup {None}]
<1> DEFINE here(s) == {m \in DOMAIN b : (i + m - 1) % MaxRegions = s}
<1>1. ASSUME NEW s \in 0 .. MaxRegions - 1, here(s) # {}
      PROVE  b[CHOOSE m \in here(s) : \A l \in here(s) : l <= m] \in Buffers \cup {None}
  <2> DEFINE H == here(s)
             Greatest(m) == \A l \in H : l <= m
             Ends == {n - m : m \in H}
  <2>1. H \in SUBSET (1 .. n) /\ H # {}
    BY <1>1
  <2> HIDE DEF H
  <2>2. Ends \in SUBSET Nat /\ Ends # {}
    <3>1. \A m \in H : n - m \in Nat
      BY <2>1
    <3>2. PICK m : m \in H
      BY <2>1
    <3>3. n - m \in Ends
      BY <3>2
    <3> QED BY <3>1, <3>3
  <2>3. PICK e \in Ends : \A f \in Ends : e <= f
    <3> HIDE DEF Ends
    <3> QED BY <2>2, Minimum
  <2>4. PICK m \in H : e = n - m
    OBVIOUS
  <2>5. ASSUME NEW l \in H PROVE l <= m
    <3>1. e <= n - l
      BY <2>3
    <3> QED BY <2>1, <2>4, <3>1
  <2>6. (CHOOSE x \in H : Greatest(x)) \in H
    BY <2>5, Zenon
  <2>7. b[CHOOSE x \in H : Greatest(x)] \in Buffers
    BY <2>1, <2>6
  <2> QED BY <2>7 DEF H
<1> QED BY <1>1 DEF Entered

(* The limits that the registers of the device give.                       *)
LEMMA Shape ==
  /\ QueueNum[0] \in Nat \ {0} /\ QueueNum[1] \in Nat \ {0}
  /\ Parts[0] \in Nat \ {0} /\ Parts[1] \in Nat \ {0}
  /\ MaxRegions \in Nat \ {0}
BY ShapeAssumption

(* The counters of a queue are numbers.                                    *)
LEMMA Numbers ==
  ASSUME TypeOK
  PROVE  /\ MaxRequests[kind] \in Nat
         /\ \A q \in {0, 1} : avail[q] \in Nat /\ seen[q] \in Nat /\ used[q] \in Nat
         /\ LastIdx \in Nat
<1>1. MaxRequests[kind] \in Nat
  BY ShapeAssumption DEF TypeOK
<1>2. \A q \in {0, 1} : avail[q] \in Nat /\ seen[q] \in Nat /\ used[q] \in Nat
  BY <1>1 DEF TypeOK
<1>3. Queues[0] \in Vrings
  BY DEF TypeOK, AllQueues
<1> QED BY <1>1, <1>2, <1>3 DEF LastIdx, Vrings

(* What an update of a block device enters: how many descriptors, and how  *)
(* many requests of which it enters every one.                             *)
NewCount == Limited((avail[0] - LastIdx) * Parts[0])
NewRequests == NewCount \div Parts[0]

(* The new descriptors are buffers that the table can hold, and the        *)
(* requests they make up have been made available.                         *)
LEMMA NewDescriptors ==
  ASSUME TypeOK, LastIdx <= avail[0]
  PROVE  /\ NewCount \in 0 .. MaxRegions - 1
         /\ NewParts \in [1 .. NewCount -> Buffers] /\ Len(NewParts) = NewCount
         /\ \A m \in 1 .. NewCount :
              NewParts[m] = Part(0, LastIdx + (m - 1) \div Parts[0], ((m - 1) % Parts[0]) + 1)
         /\ NewRequests \in Nat /\ NewRequests * Parts[0] <= NewCount
         /\ LastIdx + NewRequests <= avail[0]
<1> DEFINE P == Parts[0]
           L == LastIdx
           e == avail[0] - L
           N == NewCount
           r == NewRequests
<1>1. P \in Nat \ {0} /\ L \in Nat /\ e \in Nat /\ MaxRegions \in Nat \ {0}
  BY Numbers, Shape
<1>2. N \in 0 .. MaxRegions - 1 /\ N <= e * P
  <2> DEFINE M == e * P
  <2>1. M \in Nat
    BY <1>1
  <2>2. N = Least(M, MaxRegions - 1)
    BY DEF NewCount, Limited
  <2> HIDE DEF M, N
  <2>3. N \in 0 .. MaxRegions - 1 /\ N <= M
    BY <1>1, <2>1, <2>2 DEF Least
  <2> QED BY <2>3 DEF M
<1>3. NewParts = [m \in 1 .. N |-> Part(0, L + (m - 1) \div P, ((m - 1) % P) + 1)]
  BY Zenon DEF NewParts, NewCount, LastIdx, RECEIVE_QUEUE
<1> HIDE DEF N
<1>4. ASSUME NEW m \in 1 .. N
      PROVE  Part(0, L + (m - 1) \div P, ((m - 1) % P) + 1) \in Buffers
  <2>1. m - 1 \in Nat
    BY <1>2
  <2> HIDE DEF P, L
  <2>2. (m - 1) \div P \in Nat /\ (m - 1) % P \in 0 .. P - 1
    BY <1>1, <2>1, DivMod
  <2> QED BY <1>1, <2>2 DEF Buffers, Part
<1>5. NewParts \in [1 .. N -> Buffers] /\ Len(NewParts) = N
  <2>1. NewParts \in [1 .. N -> Buffers]
    BY <1>3, <1>4
  <2>2. NewParts \in Seq(Buffers)
    BY <1>2, <2>1
  <2> QED BY <1>2, <2>1, <2>2
<1>6. r \in Nat /\ r * P <= N /\ r <= e
  <2>1. r = N \div P
    BY DEF NewRequests, N
  <2> HIDE DEF P, e, r
  <2>6. N \in Nat
    BY <1>1, <1>2
  <2>7. N \div P \in Nat /\ N % P \in 0 .. P - 1 /\ N = P * (N \div P) + (N % P)
    BY <1>1, <2>6, DivMod, Zenon
  <2>2. r \in Nat /\ N % P \in 0 .. P - 1 /\ N = P * r + (N % P)
    BY <2>1, <2>7, Zenon
  <2> DEFINE Pr == P * r
             c == N % P
  <2>3. Pr \in Nat /\ c \in Nat /\ N = Pr + c /\ r * P = Pr
    BY <1>1, <2>2
  <2> HIDE DEF Pr, c
  <2>4. r * P <= N
    BY <2>3
  <2>5. ~(e < r)
    <3> SUFFICES ASSUME e < r PROVE FALSE
      OBVIOUS
    <3> DEFINE Pe == P * e
    <3>1. Pe \in Nat /\ e * P = Pe
      BY <1>1
    <3>2. Pe + P <= Pr
      BY <1>1, <2>2, Multiples DEF Pr
    <3> HIDE DEF Pe
    <3> QED BY <1>1, <1>2, <2>3, <3>1, <3>2
  <2> QED BY <1>1, <2>2, <2>4, <2>5
<1>7. L + r <= avail[0]
  <2>1. avail[0] \in Nat
    BY Numbers
  <2> HIDE DEF L, r
  <2> QED BY <1>1, <1>6, <2>1
<1>8. \A m \in 1 .. N : NewParts[m] = Part(0, L + (m - 1) \div P, ((m - 1) % P) + 1)
  BY <1>3
<1> QED BY <1>2, <1>5, <1>6, <1>7, <1>8, Zenon DEF N, r, P, L

(* updateBlkTableFromQueue enters them from memTableIdx on.                *)
LEMMA BlkUpdate ==
  ASSUME TypeOK, LastIdx <= avail[0]
  PROVE  /\ updateBlkTableFromQueue.table = Entered(table, memTableIdx, NewParts)
         /\ updateBlkTableFromQueue.idx = memTableIdx + NewCount
         /\ updateBlkTableFromQueue.ret = NewRequests
         /\ updateBlkTableFromQueue.entry =
               entry \o [i \in 1 .. NewRequests |-> memTableIdx + (i - 1) * Parts[0]]
         /\ updateBlkTableFromQueue.queues =
               [Queues EXCEPT ![0].last_avail_idx = LastIdx + NewRequests]
<1>1. Len(NewParts) = NewCount
  BY NewDescriptors
<1> DEFINE r == NewRequests
           E == entry \o [i \in 1 .. r |-> memTableIdx + (i - 1) * Parts[0]]
           Q == [Queues EXCEPT ![0].last_avail_idx = LastIdx + r]
           T == Entered(table, memTableIdx, NewParts)
           I == memTableIdx + NewCount
<1>2. updateBlkTableFromQueue = [table |-> T, idx |-> I, ret |-> r, entry |-> E, queues |-> Q]
  BY <1>1, Zenon DEF updateBlkTableFromQueue, NewRequests, LastIdx, RECEIVE_QUEUE
<1> HIDE DEF T, I, r, E, Q
<1>3. /\ updateBlkTableFromQueue.table = T /\ updateBlkTableFromQueue.idx = I
      /\ updateBlkTableFromQueue.ret = r /\ updateBlkTableFromQueue.entry = E
      /\ updateBlkTableFromQueue.queues = Q
  BY <1>2
<1> QED BY <1>3 DEF T, I, r, E, Q

(* Where the new requests are entered, after those before them.            *)
LEMMA NewPlaces ==
  ASSUME TypeOK, LastIdx <= avail[0], Len(entry) = LastIdx
  PROVE  LET E == entry \o [i \in 1 .. NewRequests |-> memTableIdx + (i - 1) * Parts[0]]
         IN  /\ E \in Seq(Nat) /\ Len(E) = LastIdx + NewRequests
             /\ \A k \in 0 .. LastIdx - 1 : E[k + 1] = entry[k + 1]
             /\ \A k \in LastIdx .. LastIdx + NewRequests - 1 :
                  E[k + 1] = memTableIdx + (k - LastIdx) * Parts[0]
<1> DEFINE r == NewRequests
           L == LastIdx
           P == Parts[0]
           B == [i \in 1 .. r |-> memTableIdx + (i - 1) * P]
           E == entry \o B
<1>1. r \in Nat /\ L \in Nat /\ P \in Nat /\ memTableIdx \in Nat /\ entry \in Seq(Nat)
  BY NewDescriptors, Numbers, Shape DEF TypeOK
<1> HIDE DEF r, L, P
<1>2. B \in Seq(Nat) /\ Len(B) = r
  <2>1. ASSUME NEW i \in 1 .. r PROVE memTableIdx + (i - 1) * P \in Nat
    <3>1. i - 1 \in Nat
      BY <1>1
    <3>2. (i - 1) * P \in Nat
      BY <1>1, <3>1
    <3> QED BY <1>1, <3>2
  <2>2. B \in [1 .. r -> Nat]
    BY <2>1
  <2> HIDE DEF B
  <2>3. B \in Seq(Nat)
    BY <1>1, <2>2
  <2> QED BY <1>1, <2>2, <2>3
<1>3. \A i \in 1 .. r : B[i] = memTableIdx + (i - 1) * P
  OBVIOUS
<1> HIDE DEF B
<1>4. /\ E \in Seq(Nat) /\ Len(E) = Len(entry) + Len(B)
      /\ \A i \in 1 .. Len(entry) + Len(B) :
            E[i] = IF i <= Len(entry) THEN entry[i] ELSE B[i - Len(entry)]
  BY <1>1, <1>2, ConcatProperties, Zenon
<1>5. Len(entry) = L
  BY DEF L
<1> HIDE DEF E
<1>6. /\ E \in Seq(Nat) /\ Len(E) = L + r
      /\ \A i \in 1 .. L + r : E[i] = IF i <= L THEN entry[i] ELSE B[i - L]
  BY <1>2, <1>4, <1>5
<1>7. ASSUME NEW k \in 0 .. L - 1 PROVE E[k + 1] = entry[k + 1]
  BY <1>1, <1>6
<1>8. ASSUME NEW k \in L .. L + r - 1 PROVE E[k + 1] = memTableIdx + (k - L) * P
  <2> DEFINE n == k + 1 - L
  <2>1. k + 1 \in 1 .. L + r /\ ~(k + 1 <= L) /\ n \in 1 .. r /\ n - 1 = k - L
    BY <1>1
  <2>2. E[k + 1] = B[n]
    <3> DEFINE m == k + 1
    <3>1. m \in 1 .. L + r /\ ~(m <= L) /\ n = m - L
      BY <1>1, <2>1
    <3> HIDE DEF m, n
    <3>2. E[m] = IF m <= L THEN entry[m] ELSE B[m - L]
      BY <1>6, <3>1
    <3>3. E[m] = B[n]
      BY <3>1, <3>2, Zenon
    <3> QED BY <3>3 DEF m
  <2> HIDE DEF n
  <2>3. B[n] = memTableIdx + (n - 1) * P
    BY <1>3, <2>1
  <2> QED BY <2>1, <2>2, <2>3, Zenon
<1> QED BY <1>6, <1>7, <1>8, Zenon DEF E, B, r, L, P

(* The limit of an update is a number of descriptors.                      *)
LEMMA LimitedType == Limited(Parts[0]) \in Nat /\ Limited(Parts[1]) \in Nat
BY Shape DEF Limited, Least

(* updateMemoryTable leaves a table of buffers, as long as MaxRegions, and *)
(* changes nothing of a queue but how far it has been taken.               *)
LEMMA UpdateTypes ==
  ASSUME TypeOK, BlkRing, updateMemoryTable
  PROVE  /\ table' \in [0 .. MaxRegions - 1 -> Buffers \cup {None}]
         /\ memTableIdx' \in Nat /\ nregions' \in 0 .. MaxRegions /\ entry' \in Seq(Nat)
         /\ Queues' \in [AllQueues -> Vrings]
         /\ \A q \in AllQueues : Queues'[q].num = Queues[q].num /\ Queues'[q].page = Queues[q].page
<1> DEFINE u == IF kind = "net" THEN NetTables ELSE updateBlkTableFromQueue
<1>1. table' = u.table /\ memTableIdx' = u.idx /\ Queues' = u.queues /\ entry' = u.entry
  BY DEF updateMemoryTable
<1>2. nregions' = Least(u.idx, MaxRegions) \/ nregions' = nregions
  BY DEF updateMemoryTable
<1>3. /\ u.table \in [0 .. MaxRegions - 1 -> Buffers \cup {None}]
      /\ u.idx \in Nat /\ u.entry \in Seq(Nat)
      /\ u.queues \in [AllQueues -> Vrings]
      /\ \A q \in AllQueues : u.queues[q].num = Queues[q].num /\ u.queues[q].page = Queues[q].page
  <2>1. CASE kind = "net"
    <3>1. ASSUME NEW q \in {0, 1}, NEW t \in [0 .. MaxRegions - 1 -> Buffers \cup {None}]
          PROVE  updateNetTableFromQueue(q, t) \in [0 .. MaxRegions - 1 -> Buffers \cup {None}]
      <4> DEFINE last == Queues[q].last_avail_idx
                 k == IF last < avail[q] THEN last ELSE last - QueueNum[q]
                 n == Limited(Parts[q])
                 b == [j \in 1 .. n |-> Part(q, k, j)]
      <4>1. last \in Nat
        <5>1. q \in AllQueues
          BY DEF AllQueues
        <5>2. Queues[q] \in Vrings
          BY <5>1 DEF TypeOK
        <5> QED BY <5>2 DEF Vrings
      <4>2. k \in Int /\ n \in Nat /\ nregions \in Nat
        <5>1. avail[q] \in Nat /\ QueueNum[q] \in Nat
          BY Numbers, Shape
        <5>2. nregions \in Nat
          BY Shape DEF TypeOK
        <5>3. n \in Nat
          BY LimitedType
        <5> HIDE DEF last, n
        <5> QED BY <4>1, <5>1, <5>2, <5>3
      <4> HIDE DEF k, n
      <4>3. b \in [1 .. n -> Buffers]
        BY <4>2 DEF Buffers, Part
      <4>4. Entered(t, nregions, b) \in [0 .. MaxRegions - 1 -> Buffers \cup {None}]
        <5> HIDE DEF b
        <5> QED BY <4>2, <4>3, EnteredType
      <4> QED BY <4>4, Zenon DEF updateNetTableFromQueue, k, n
    <3> DEFINE T == updateNetTableFromQueue(1, updateNetTableFromQueue(0, table))
               Q == [q \in AllQueues |->
                       IF q \in Live /\ Parts[q] < MaxRegions
                       THEN [Queues[q] EXCEPT !.last_avail_idx = @ + 1]
                       ELSE Queues[q]]
    <3>2. u = [table |-> T, idx |-> nregions + Limited(Parts[1]),
               ret |-> Limited(Parts[0]) + Limited(Parts[1]), entry |-> entry, queues |-> Q]
      BY <2>1, Zenon DEF NetTables
    <3>3. T \in [0 .. MaxRegions - 1 -> Buffers \cup {None}]
      <4>1. updateNetTableFromQueue(0, table) \in [0 .. MaxRegions - 1 -> Buffers \cup {None}]
        BY <3>1 DEF TypeOK
      <4> QED BY <3>1, <4>1
    <3>4. /\ Q \in [AllQueues -> Vrings]
          /\ \A q \in AllQueues : Q[q].num = Queues[q].num /\ Q[q].page = Queues[q].page
      <4>1. ASSUME NEW q \in AllQueues
            PROVE  Q[q] \in Vrings /\ Q[q].num = Queues[q].num /\ Q[q].page = Queues[q].page
        <5> DEFINE v == Queues[q]
        <5>1. v \in Vrings
          BY DEF TypeOK
        <5>2. Q[q] = [v EXCEPT !.last_avail_idx = @ + 1] \/ Q[q] = v
          OBVIOUS
        <5> HIDE DEF v, Q
        <5>3. [v EXCEPT !.last_avail_idx = @ + 1] =
                [num |-> v.num, page |-> v.page, last_avail_idx |-> v.last_avail_idx + 1]
          BY <5>1 DEF Vrings
        <5>4. Q[q] \in Vrings /\ Q[q].num = v.num /\ Q[q].page = v.page
          BY <5>1, <5>2, <5>3 DEF Vrings
        <5> QED BY <5>4 DEF v
      <4> QED BY <4>1
    <3>5. nregions + Limited(Parts[1]) \in Nat /\ entry \in Seq(Nat)
      <4>1. nregions \in 0 .. MaxRegions /\ entry \in Seq(Nat)
        BY DEF TypeOK
      <4>2. Limited(Parts[1]) \in Nat
        BY LimitedType
      <4> QED BY <4>1, <4>2, Shape
    <3> HIDE DEF T, Q, u
    <3> QED BY <3>2, <3>3, <3>4, <3>5
  <2>2. CASE kind # "net"
    <3>1. kind = "blk" /\ Ring
      BY <2>2, ShapeAssumption DEF TypeOK, BlkRing
    <3>2. u = updateBlkTableFromQueue
      BY <2>2
    <3> DEFINE N == NewCount
               B == NewParts
               D == LastIdx + NewRequests
               E == entry \o [i \in 1 .. NewRequests |-> memTableIdx + (i - 1) * Parts[0]]
    <3>3. /\ LastIdx <= avail[0] /\ Len(entry) = LastIdx /\ LastIdx \in Nat
          /\ N \in 0 .. MaxRegions - 1 /\ B \in [1 .. N -> Buffers] /\ D \in Nat
      <4>1. LastIdx <= avail[0] /\ Len(entry) = LastIdx /\ LastIdx \in Nat
        BY <3>1, Numbers DEF Ring
      <4>2. N \in 0 .. MaxRegions - 1 /\ B \in [1 .. N -> Buffers] /\ NewRequests \in Nat
        BY <4>1, NewDescriptors
      <4> QED BY <4>1, <4>2
    <3>4. /\ u.table = Entered(table, memTableIdx, B) /\ u.idx = memTableIdx + N
          /\ u.entry = E /\ u.queues = [Queues EXCEPT ![0].last_avail_idx = D]
      BY <3>2, <3>3, BlkUpdate
    <3>8. u.entry \in Seq(Nat)
      <4>1. E \in Seq(Nat)
        BY <3>3, NewPlaces, Zenon
      <4> HIDE DEF E, u
      <4> QED BY <3>4, <4>1
    <3>5. u.table \in [0 .. MaxRegions - 1 -> Buffers \cup {None}]
      <4> HIDE DEF N, B, E, u
      <4>1. memTableIdx \in Nat /\ N \in Nat
        BY <3>3, Shape DEF TypeOK
      <4>2. table \in [0 .. MaxRegions - 1 -> Buffers \cup {None}]
        BY DEF TypeOK
      <4>3. Entered(table, memTableIdx, B) \in [0 .. MaxRegions - 1 -> Buffers \cup {None}]
        BY <3>3, <4>1, <4>2, EnteredType
      <4> QED BY <3>4, <4>3
    <3>6. u.idx \in Nat
      <4> HIDE DEF N, B, E, u
      <4>1. memTableIdx \in Nat /\ N \in Nat
        BY <3>3, Shape DEF TypeOK
      <4> QED BY <3>4, <4>1
    <3>7. /\ u.queues \in [AllQueues -> Vrings]
          /\ \A q \in AllQueues :
               u.queues[q].num = Queues[q].num /\ u.queues[q].page = Queues[q].page
      <4> DEFINE v == Queues[0]
                 w == [v EXCEPT !.last_avail_idx = D]
      <4> HIDE DEF u, N, B, D, E
      <4>1. v \in Vrings /\ Queues \in [AllQueues -> Vrings] /\ 0 \in AllQueues
        BY DEF TypeOK, AllQueues
      <4>2. u.queues = [Queues EXCEPT ![0] = w]
        BY <3>4
      <4>3. D \in Nat
        BY <3>3
      <4> HIDE DEF v
      <4>4. w \in Vrings /\ w.num = v.num /\ w.page = v.page
        BY <4>1, <4>3 DEF Vrings
      <4> HIDE DEF w
      <4>5. u.queues[0] = w
        BY <4>1, <4>2
      <4>6. \A q \in AllQueues : q # 0 => u.queues[q] = Queues[q]
        BY <4>1, <4>2
      <4>7. u.queues \in [AllQueues -> Vrings]
        BY <4>1, <4>2, <4>4
      <4>8. \A q \in AllQueues : q = 0 \/ q # 0
        BY Zenon
      <4> QED BY <4>4, <4>5, <4>6, <4>7, <4>8 DEF v
    <3> HIDE DEF u
    <3> QED BY <3>5, <3>6, <3>7, <3>8
  <2> QED BY <2>1, <2>2
<1> HIDE DEF u
<1>4. nregions' \in 0 .. MaxRegions
  <2>1. nregions \in 0 .. MaxRegions /\ MaxRegions \in Nat /\ u.idx \in Nat
    BY <1>3, Shape DEF TypeOK
  <2> QED BY <1>2, <2>1 DEF Least
<1> QED BY <1>1, <1>3, <1>4

(* The messages that are made are messages.                                *)
LEMMA MadeMessages ==
  ASSUME NEW d \in Nat
  PROVE  Msg("QUEUE_NOTIFY", d) \in Messages /\ Msg("INTERRUPT_ACK", d) \in Messages
BY DEF Msg, Messages

(* The constructors leave every variable in its type.                      *)
LEMMA TypeInit == Init => TypeOK
<1> SUFFICES ASSUME Init PROVE TypeOK
  OBVIOUS
<1>1. kind \in {"blk", "net"} /\ NumQueues \in {1, 2}
  BY ShapeAssumption DEF Init, NumQueues
<1>2. todo \in Seq(Messages)
  <2>1. SetUp(1) \in Seq(Messages) /\ SetUp(2) \in Seq(Messages)
    BY ShapeAssumption DEF SetUp, Msg, Messages, Feature, DRIVER_OK
  <2> QED BY <1>1, <2>1 DEF Init
<1>3. MaxRequests[kind] \in Nat
  BY ShapeAssumption DEF Init
<1>4. /\ info \in Infos /\ SavedQueues \in [AllQueues -> Infos]
      /\ Queues \in [AllQueues -> Vrings]
  BY DEF Init, Infos, Vrings
<1>5. table \in [0 .. MaxRegions - 1 -> Buffers \cup {None}]
  BY DEF Init
<1>6. /\ memTableIdx \in Nat /\ nregions \in 0 .. MaxRegions /\ AckGuestFeatures \in Seq(Nat)
      /\ entry \in Seq(Nat)
  BY Shape DEF Init
<1>7. /\ avail \in [{0, 1} -> 0 .. MaxRequests[kind]]
      /\ seen \in [{0, 1} -> 0 .. MaxRequests[kind]]
      /\ used \in [{0, 1} -> 0 .. MaxRequests[kind]]
  BY <1>3 DEF Init
<1> QED BY <1>2, <1>4, <1>5, <1>6, <1>7 DEF Init, TypeOK, Updates

(* Every step keeps every variable in its type: what a store or a message  *)
(* carries fits the register it is for, since it is a message of the       *)
(* set-up, and an update of the table stays within it.                     *)
LEMMA TypeStep == VirtioInv /\ [Next]_vars => TypeOK'
<1> SUFFICES ASSUME VirtioInv, [Next]_vars PROVE TypeOK'
  OBVIOUS
<1> USE DEF VirtioInv
<1> USE DEF vars, registers, config, tables, guest, interrupts
<1>1. MaxRequests[kind] \in Nat
  BY Numbers
<1>2. CASE GuestWrite
  <2>1. Head(todo) \in Messages
    BY <1>2 DEF GuestWrite, TypeOK
  <2> QED BY <1>2, <2>1 DEF GuestWrite, TypeOK
<1>3. CASE GuestStore
  <2>1. storing \in Messages /\ storing = Message(Posted) /\ Posted \in 1 .. Total /\ kind \in Kinds
    BY <1>3, UnderWay DEF GuestStore, TypeOK
  <2>2. storing.data \in Nat
    BY <2>1 DEF Messages
  <2>3. storing.reg = "GUEST_FEATURES_SEL" => storing.data \in {0, 1}
    BY <2>1, Script
  <2>4. info' \in Infos
    <3>1. info \in Infos
      BY DEF TypeOK
    <3>2. /\ [info EXCEPT !.num = storing.data] \in Infos
          /\ [info EXCEPT !.pfn = storing.data] \in Infos
      BY <2>2, <3>1 DEF Infos
    <3>3. \/ info' = [info EXCEPT !.num = storing.data]
          \/ info' = [info EXCEPT !.pfn = storing.data] \/ info' = info
      BY <1>3 DEF GuestStore
    <3> QED BY <3>1, <3>2, <3>3
  <2>5. todo' \in Seq(Messages)
    <3>1. todo # << >> /\ todo \in Seq(Messages) /\ todo' = Tail(todo)
      BY <1>3 DEF GuestStore, Sequence, TypeOK
    <3> QED BY <3>1
  <2> QED BY <1>3, <2>3, <2>4, <2>5 DEF GuestStore, TypeOK
<1>4. CASE GuestRead
  BY <1>4 DEF GuestRead, Reading, TypeOK
<1>5. CASE Isr
  <2>1. box' \in Messages \cup {None}
    BY <1>5, MadeMessages DEF Isr, TypeOK
  <2>2. seen' \in [{0, 1} -> 0 .. MaxRequests[kind]]
    BY <1>5 DEF Isr, TypeOK
  <2>3. isr' \in {"idle", "ack0", "ack1", "scan"}
    BY <1>5 DEF Isr, TypeOK
  <2> QED BY <1>5, <2>1, <2>2, <2>3 DEF Isr, TypeOK
<1>6. CASE SelHostFeatures
  <2>1. box.data \in {0, 1}
    BY <1>6, BoxData DEF SelHostFeatures, Serving
  <2> QED BY <1>6, <2>1 DEF SelHostFeatures, TypeOK
<1>7. CASE SetGuestFeatures
  <2>1. AckGuestFeatures' \in Seq(Nat)
    <3>1. box.data \in Nat
      BY <1>7, BoxData DEF SetGuestFeatures, Serving
    <3>2. AckGuestFeatures \in Seq(Nat) /\ FeaturesSel + 1 \in 1 .. Len(AckGuestFeatures)
      <4>1. AckGuestFeatures \in Seq(Nat) /\ FeaturesSel \in {0, 1}
        BY DEF TypeOK
      <4>2. Len(AckGuestFeatures) = 2
        BY DEF Registers
      <4> QED BY <4>1, <4>2
    <3>3. [AckGuestFeatures EXCEPT ![FeaturesSel + 1] = box.data] \in Seq(Nat)
      BY <3>1, <3>2, ExceptSeq, Zenon
    <3> QED BY <1>7, <3>3 DEF SetGuestFeatures
  <2> QED BY <1>7, <2>1 DEF SetGuestFeatures, TypeOK
<1>8. CASE UpdateQueue
  <2>1. box.data \in {0, 1}
    BY <1>8, BoxData DEF UpdateQueue, Serving
  <2>2. SavedQueues' \in [AllQueues -> Infos] /\ info' \in Infos /\ SelectedIndex' \in Indices
    BY <1>8, <2>1 DEF UpdateQueue, TypeOK, AllQueues, Indices
  <2> QED BY <1>8, <2>2 DEF UpdateQueue, TypeOK
<1>9. CASE UpdateVirtQueue
  <2>1. box.data \in Nat
    BY <1>9, BoxData DEF UpdateVirtQueue, Serving
  <2>2. createVring(info.num, box.data) \in Vrings
    BY <2>1 DEF createVring, Vrings, TypeOK, Infos
  <2>3. Queues' \in [AllQueues -> Vrings]
    BY <1>9, <2>2 DEF UpdateVirtQueue, TypeOK
  <2> QED BY <1>9, <2>3 DEF UpdateVirtQueue, TypeOK
<1>10. CASE NoOperation
  BY <1>10 DEF NoOperation, TypeOK
<1>11. CASE NotifyDevice
  <2>1. CASE updateMemoryTable
    <3>1. /\ table' \in [0 .. MaxRegions - 1 -> Buffers \cup {None}]
          /\ memTableIdx' \in Nat /\ nregions' \in 0 .. MaxRegions /\ entry' \in Seq(Nat)
          /\ Queues' \in [AllQueues -> Vrings]
      BY <2>1, UpdateTypes
    <3>2. kicked' \in [{0, 1} -> BOOLEAN]
      BY <1>11 DEF NotifyDevice, TypeOK
    <3> QED BY <1>11, <3>1, <3>2 DEF NotifyDevice, TypeOK
  <2>2. CASE UNCHANGED <<Queues, tables, kicked>>
    BY <1>11, <2>2 DEF NotifyDevice, TypeOK
  <2> QED BY <1>11, <2>1, <2>2 DEF NotifyDevice
<1>12. CASE UpdateStatus
  <2>1. CASE updateMemoryTable
    <3>1. /\ table' \in [0 .. MaxRegions - 1 -> Buffers \cup {None}]
          /\ memTableIdx' \in Nat /\ nregions' \in 0 .. MaxRegions /\ entry' \in Seq(Nat)
          /\ Queues' \in [AllQueues -> Vrings]
      BY <2>1, UpdateTypes
    <3>2. DeviceStarted' \in BOOLEAN
      BY <1>12 DEF UpdateStatus, TypeOK
    <3> QED BY <1>12, <3>1, <3>2 DEF UpdateStatus, TypeOK
  <2>2. CASE UNCHANGED <<Queues, tables, DeviceStarted>>
    BY <1>12, <2>2 DEF UpdateStatus, TypeOK
  <2> QED BY <1>12, <2>1, <2>2 DEF UpdateStatus
<1>13. CASE AckInterrupt
  <2>1. InterruptStatus' \in {0, 1} /\ line' \in BOOLEAN /\ dpc' \in Updates /\ loaded' \in {0, 1}
    BY <1>13 DEF AckInterrupt, TypeOK, Updates, Chosen
  <2>2. box' \in Messages \cup {None}
    <3>1. box \in Messages \cup {None} /\ box' \in {box, None}
      BY <1>13 DEF AckInterrupt, TypeOK
    <3> QED BY <3>1, Zenon
  <2> QED BY <1>13, <2>1, <2>2 DEF AckInterrupt, TypeOK
<1>14. ASSUME NEW q \in {0, 1}, Submit(q) PROVE TypeOK'
  <2>1. avail' \in [{0, 1} -> 0 .. MaxRequests[kind]] /\ owes' \subseteq {0, 1}
    <3>1. avail \in [{0, 1} -> 0 .. MaxRequests[kind]] /\ owes \subseteq {0, 1}
      BY DEF TypeOK
    <3>2. /\ avail[q] < MaxRequests[kind] /\ avail' = [avail EXCEPT ![q] = @ + 1]
          /\ owes' = owes \cup {q}
      BY <1>14 DEF Submit
    <3>3. avail' \in [{0, 1} -> 0 .. MaxRequests[kind]]
      BY <1>1, <3>1, <3>2
    <3> QED BY <3>1, <3>2, <3>3
  <2> QED BY <1>14, <2>1 DEF Submit, TypeOK
<1>15. ASSUME NEW q \in {0, 1}, Notify(q) PROVE TypeOK'
  <2>1. box' \in Messages \cup {None} /\ owes' \subseteq {0, 1}
    BY <1>15, MadeMessages DEF Notify, TypeOK
  <2> QED BY <1>15, <2>1 DEF Notify, TypeOK
<1>16. ASSUME NEW q \in {0, 1}, GenerateInterrupt(q) PROVE TypeOK'
  <2>1. InterruptStatus' \in {0, 1} /\ line' \in BOOLEAN
    BY <1>16 DEF GenerateInterrupt, TypeOK
  <2>2. ppc' \in [{0, 1} -> Updates]
    BY <1>16 DEF GenerateInterrupt, TypeOK, Updates, Chosen
  <2>3. called' \in [{0, 1} -> BOOLEAN]
    <3>1. called \in [{0, 1} -> BOOLEAN]
      BY DEF TypeOK
    <3>2. called' = called \/ called' = [called EXCEPT ![q] = FALSE]
      BY <1>16 DEF GenerateInterrupt
    <3> QED BY <3>1, <3>2
  <2> QED BY <1>16, <2>1, <2>2, <2>3 DEF GenerateInterrupt, TypeOK
<1>17. ASSUME NEW q \in {0, 1}, VhostTake(q) PROVE TypeOK'
  <2>1. kicked' \in [{0, 1} -> BOOLEAN] /\ called' \in [{0, 1} -> BOOLEAN]
    <3>1. kicked \in [{0, 1} -> BOOLEAN] /\ called \in [{0, 1} -> BOOLEAN]
      BY DEF TypeOK
    <3>2. kicked' = kicked \/ kicked' = [kicked EXCEPT ![q] = FALSE]
      BY <1>17 DEF VhostTake
    <3>3. called' = called \/ called' = [called EXCEPT ![q] = TRUE]
      BY <1>17 DEF VhostTake
    <3>4. kicked' \in [{0, 1} -> BOOLEAN]
      BY <3>1, <3>2
    <3>5. called' \in [{0, 1} -> BOOLEAN]
      BY <3>1, <3>3
    <3> QED BY <3>4, <3>5
  <2>2. used' \in [{0, 1} -> 0 .. MaxRequests[kind]]
    BY <1>1, <1>17 DEF VhostTake, TypeOK
  <2> QED BY <1>17, <2>1, <2>2 DEF VhostTake, TypeOK
<1>18. ASSUME NEW q \in {0, 1}, VhostIdle(q) PROVE TypeOK'
  BY <1>18 DEF VhostIdle, TypeOK
<1>19. CASE UNCHANGED vars
  BY <1>19 DEF TypeOK
<1>20. CASE VblkStart
  <2>1. /\ table' \in [0 .. MaxRegions - 1 -> Buffers \cup {None}]
        /\ memTableIdx' \in Nat /\ nregions' \in 0 .. MaxRegions /\ entry' \in Seq(Nat)
        /\ Queues' \in [AllQueues -> Vrings]
    BY <1>20, UpdateTypes DEF VblkStart
  <2> QED BY <1>20, <2>1 DEF VblkStart, TypeOK
<1>21. CASE SaveQueueFaults
  BY <1>21 DEF SaveQueueFaults, TypeOK, Updates
<1> QED
  BY <1>2, <1>3, <1>4, <1>5, <1>6, <1>7, <1>8, <1>9, <1>10, <1>11, <1>12, <1>13, <1>14, <1>15,
     <1>16, <1>17, <1>18, <1>19, <1>20, <1>21, Zenon
  DEF Next, Driver, PerformOperation

-----------------------------------------------------------------------------
(* The messages of the set-up *)

(* The whole set-up is ahead of the driver when the device is created.     *)
LEMMA SequenceInit == Init => Sequence
<1> SUFFICES ASSUME Init PROVE Sequence
  OBVIOUS
<1>1. kind \in {"blk", "net"}
  BY ShapeAssumption DEF Init
<1>2. NumQueues \in {1, 2} /\ Total = IF NumQueues = 2 THEN 15 ELSE 12
  BY <1>1 DEF NumQueues, Total
<1>3. todo = SetUp(NumQueues) /\ storing = None /\ box = None /\ owes = {}
  BY DEF Init
<1>4. Len(todo) = Total /\ Total \in Nat
  BY <1>2, <1>3, SetUpMessages
<1>5. \A n \in 1 .. Len(todo) : todo[n] = Message(Stored + n)
  BY <1>3, <1>4 DEF Stored, Message
<1> QED BY <1>3, <1>4, <1>5 DEF Sequence, InFlight

(* A thread that neither posts a message of the set-up nor makes a store   *)
(* leaves the driver where it is; it may finish what is in the box.        *)
LEMMA Elsewhere ==
  ASSUME UNCHANGED <<kind, todo, storing>>
  PROVE  /\ Total' = Total /\ Stored' = Stored /\ Posted' = Posted
         /\ Live' = Live /\ NumQueues' = NumQueues
<1>1. Total' = Total /\ NumQueues' = NumQueues
  BY DEF Total, NumQueues
<1>2. Stored' = Stored
  BY <1>1 DEF Stored
<1>3. Posted' = Posted
  BY <1>2 DEF Posted
<1> QED BY <1>1, <1>2, <1>3 DEF Live

(* So the messages stay in order when the device thread is done with one   *)
(* and when the interrupt handler posts an acknowledgement.                *)
LEMMA SequenceKept ==
  ASSUME TypeOK, Sequence, UNCHANGED <<kind, todo, storing>>, owes' = owes,
         \/ box' = box \/ box' = None
         \/ \E d : box' = Msg("INTERRUPT_ACK", d)
  PROVE  Sequence'
<1>1. /\ Total' = Total /\ Stored' = Stored /\ Posted' = Posted
      /\ Live' = Live /\ NumQueues' = NumQueues
  BY Elsewhere
<1>2. (\A n \in 1 .. Len(todo) : todo[n] = Message(Stored + n))'
  BY <1>1 DEF Sequence, Message
<1>3. (InFlight => Posted > 0 /\ box = Message(Posted) /\ box.reg # "read")'
  BY <1>1 DEF Sequence, Message, InFlight, Msg
<1>4. (box # None /\ box.reg = "QUEUE_NOTIFY" => Len(todo) <= 1 /\ box.data \in Live)'
  BY <1>1 DEF Sequence, Msg
<1> QED BY <1>1, <1>2, <1>3, <1>4 DEF Sequence

(* Driver: what is left of the set-up after a store or a read.             *)
LEMMA NextMessage ==
  ASSUME TypeOK, Sequence, todo # << >>, todo' = Tail(todo), kind' = kind
  PROVE  /\ Len(todo') <= Total' /\ (Len(todo) <= 1 => Len(todo') <= 1)
         /\ Total' = Total /\ Stored' = Stored + 1 /\ NumQueues' = NumQueues /\ Live' = Live
         /\ \A n \in 1 .. Len(todo') : todo'[n] = Message(Stored' + n)
         /\ Head(todo) = Message(Stored + 1) /\ todo[1] = Message(Stored + 1)
<1>1. todo \in Seq(Messages) /\ Len(todo) \in Nat /\ Len(todo) >= 1
  BY DEF TypeOK
<1>2. Len(todo') = Len(todo) - 1 /\ \A n \in 1 .. Len(todo) - 1 : todo'[n] = todo[n + 1]
  BY <1>1
<1>3. Total' = Total /\ NumQueues' = NumQueues /\ Total \in {12, 15} /\ Live' = Live
  BY DEF Total, NumQueues, Live
<1>4. Stored' = Stored + 1 /\ Stored \in Int
  BY <1>1, <1>2, <1>3 DEF Stored
<1>5. ASSUME NEW n \in 1 .. Len(todo') PROVE todo'[n] = Message(Stored' + n)
  <2>1. n + 1 \in 1 .. Len(todo) /\ todo'[n] = todo[n + 1]
    BY <1>1, <1>2
  <2>2. todo[n + 1] = Message(Stored + (n + 1))
    BY <2>1 DEF Sequence
  <2>3. Stored + (n + 1) = Stored' + n
    BY <1>4
  <2> QED BY <2>1, <2>2, <2>3
<1>6. todo[1] = Message(Stored + 1) /\ Head(todo) = todo[1]
  BY <1>1 DEF Sequence
<1>7. Len(todo') <= Total' /\ (Len(todo) <= 1 => Len(todo') <= 1)
  <2> DEFINE k == Len(todo)
             l == Len(todo')
  <2>1. k \in Nat /\ l = k - 1 /\ k <= Total
    BY <1>1, <1>2 DEF Sequence
  <2> HIDE DEF k, l
  <2>2. l <= Total' /\ (k <= 1 => l <= 1)
    BY <1>3, <2>1
  <2> QED BY <2>2 DEF k, l
<1> QED BY <1>3, <1>4, <1>5, <1>6, <1>7

(* Every step keeps the messages of the set-up in order.                   *)
LEMMA SequenceStep == VirtioInv /\ [Next]_vars => Sequence'
<1> SUFFICES ASSUME VirtioInv, [Next]_vars PROVE Sequence'
  OBVIOUS
<1> USE DEF VirtioInv
<1> USE DEF vars, registers, config, tables, guest, interrupts
<1>a. /\ owes # {} => Len(todo) <= 1
      /\ owes \subseteq Live
      /\ box # None /\ box.reg = "QUEUE_NOTIFY" => Len(todo) <= 1 /\ box.data \in Live
  BY DEF Sequence
<1>1. kind \in Kinds /\ Len(todo) \in Nat
  BY DEF TypeOK
<1>2. CASE GuestWrite
  <2>1. /\ box = None /\ storing = None /\ todo # << >>
        /\ box' = Head(todo) /\ storing' = Head(todo)
        /\ kind' = kind /\ todo' = todo /\ owes' = owes /\ Head(todo).reg # "read"
    BY <1>2 DEF GuestWrite
  <2>2. todo \in Seq(Messages) /\ Len(todo) >= 1 /\ Head(todo) = todo[1] /\ Head(todo) \in Messages
    BY <2>1 DEF TypeOK
  <2>3. storing' # None
    BY <2>1, <2>2, NoneAssumption
  <2>4. todo[1] = Message(Stored + 1)
    BY <1>1, <2>2 DEF Sequence
  <2>5. Total' = Total /\ NumQueues' = NumQueues /\ Live' = Live
    BY <2>1 DEF Total, NumQueues, Live
  <2>6. Stored' = Stored /\ Stored \in Nat /\ Stored + 1 \in 1 .. Total
    BY <2>1, <2>2, <2>5, UnderWay DEF Stored
  <2>7. Posted' = Stored + 1
    BY <2>3, <2>6 DEF Posted
  <2>8. (\A n \in 1 .. Len(todo) : todo[n] = Message(Stored + n))'
    BY <2>1, <2>5, <2>6 DEF Sequence, Message
  <2>9. (storing # None => todo # << >> /\ storing = todo[1] /\ storing.reg # "read")'
    BY <2>1, <2>2
  <2>10. (InFlight => Posted > 0 /\ box = Message(Posted) /\ box.reg # "read")'
    BY <2>1, <2>2, <2>4, <2>5, <2>6, <2>7 DEF Message
  <2>11. box'.reg # "QUEUE_NOTIFY"
    BY <1>1, <2>1, <2>2, <2>4, <2>6, Script
  <2> QED BY <2>1, <2>5, <2>8, <2>9, <2>10, <2>11 DEF Sequence
<1>3. CASE GuestStore
  <2>1. /\ storing # None /\ storing' = None /\ todo' = Tail(todo) /\ todo # << >>
        /\ kind' = kind /\ box' = box /\ owes' = owes
    BY <1>3 DEF GuestStore, Sequence
  <2>2. /\ Len(todo') <= Total' /\ (Len(todo) <= 1 => Len(todo') <= 1)
        /\ Total' = Total /\ Stored' = Stored + 1 /\ NumQueues' = NumQueues /\ Live' = Live
        /\ \A n \in 1 .. Len(todo') : todo'[n] = Message(Stored' + n)
    BY <2>1, NextMessage
  <2>3. Posted' = Posted
    BY <2>1, <2>2 DEF Posted
  <2>4. (\A n \in 1 .. Len(todo) : todo[n] = Message(Stored + n))'
    BY <2>2 DEF Message
  <2>5. (InFlight => Posted > 0 /\ box = Message(Posted) /\ box.reg # "read")'
    BY <2>1, <2>2, <2>3 DEF Message, InFlight, Sequence
  <2>6. Len(todo') <= Total' /\ (owes' # {} => Len(todo') <= 1) /\ owes' \subseteq Live'
    BY <1>a, <2>1, <2>2, Zenon
  <2>7. (box # None /\ box.reg = "QUEUE_NOTIFY" => Len(todo) <= 1 /\ box.data \in Live)'
    BY <1>a, <2>1, <2>2, Zenon
  <2> QED BY <2>1, <2>4, <2>5, <2>6, <2>7 DEF Sequence
<1>4. CASE GuestRead
  <2>1. /\ box = None /\ storing = None /\ storing' = storing /\ todo' = Tail(todo) /\ todo # << >>
        /\ kind' = kind /\ box' = box /\ owes' = owes
    BY <1>4 DEF GuestRead, Reading
  <2>2. /\ Len(todo') <= Total' /\ (Len(todo) <= 1 => Len(todo') <= 1)
        /\ Total' = Total /\ NumQueues' = NumQueues /\ Live' = Live
        /\ \A n \in 1 .. Len(todo') : todo'[n] = Message(Stored' + n)
    BY <2>1, NextMessage
  <2>3. (\A n \in 1 .. Len(todo) : todo[n] = Message(Stored + n))'
    BY <2>2 DEF Message
  <2>4. ~InFlight'
    BY <2>1 DEF InFlight
  <2>5. Len(todo') <= Total' /\ (owes' # {} => Len(todo') <= 1) /\ owes' \subseteq Live'
    BY <1>a, <2>1, <2>2, Zenon
  <2> QED BY <2>1, <2>3, <2>4, <2>5 DEF Sequence
<1>5. CASE Isr
  <2>1. \/ box' = box
        \/ box' = Msg("INTERRUPT_ACK", IF isr = "ack1" THEN 1 ELSE 0)
    BY <1>5 DEF Isr
  <2>2. UNCHANGED <<kind, todo, storing>> /\ owes' = owes
    BY <1>5 DEF Isr
  <2> QED BY <2>1, <2>2, SequenceKept
<1>6. CASE SelHostFeatures
  BY <1>6, SequenceKept DEF SelHostFeatures
<1>7. CASE SetGuestFeatures
  BY <1>7, SequenceKept DEF SetGuestFeatures
<1>8. CASE UpdateQueue
  BY <1>8, SequenceKept DEF UpdateQueue
<1>9. CASE UpdateVirtQueue
  BY <1>9, SequenceKept DEF UpdateVirtQueue
<1>10. CASE NoOperation
  BY <1>10, SequenceKept DEF NoOperation
<1>11. CASE NotifyDevice
  BY <1>11, SequenceKept DEF NotifyDevice
<1>12. CASE UpdateStatus
  BY <1>12, SequenceKept DEF UpdateStatus
<1>20. CASE VblkStart \/ SaveQueueFaults
  BY <1>20, SequenceKept DEF VblkStart, SaveQueueFaults
<1>13. CASE AckInterrupt
  <2>1. box' = box \/ box' = None
    BY <1>13 DEF AckInterrupt
  <2>2. UNCHANGED <<kind, todo, storing>> /\ owes' = owes
    BY <1>13 DEF AckInterrupt
  <2> QED BY <2>1, <2>2, SequenceKept
<1>14. ASSUME NEW q \in {0, 1}, Submit(q) PROVE Sequence'
  <2>1. /\ UNCHANGED <<kind, todo, storing>> /\ box' = box /\ owes' = owes \cup {q}
        /\ q \in Live /\ Len(todo) <= 1
    BY <1>14 DEF Submit
  <2>2. /\ Total' = Total /\ Stored' = Stored /\ Posted' = Posted
        /\ Live' = Live /\ NumQueues' = NumQueues
    BY <2>1, Elsewhere
  <2>3. (\A n \in 1 .. Len(todo) : todo[n] = Message(Stored + n))'
    BY <2>1, <2>2 DEF Sequence, Message
  <2>4. (InFlight => Posted > 0 /\ box = Message(Posted) /\ box.reg # "read")'
    BY <2>1, <2>2 DEF Sequence, Message, InFlight
  <2> QED BY <2>1, <2>2, <2>3, <2>4 DEF Sequence
<1>15. ASSUME NEW q \in {0, 1}, Notify(q) PROVE Sequence'
  <2>1. /\ UNCHANGED <<kind, todo, storing>> /\ box' = Msg("QUEUE_NOTIFY", q)
        /\ owes' = owes \ {q} /\ q \in owes
    BY <1>15 DEF Notify
  <2>2. /\ Total' = Total /\ Stored' = Stored /\ Posted' = Posted
        /\ Live' = Live /\ NumQueues' = NumQueues
    BY <2>1, Elsewhere
  <2>3. (\A n \in 1 .. Len(todo) : todo[n] = Message(Stored + n))'
    BY <2>1, <2>2 DEF Sequence, Message
  <2>4. ~InFlight' /\ box'.reg = "QUEUE_NOTIFY" /\ box'.data = q
    BY <2>1 DEF InFlight, Msg
  <2>5. Len(todo) <= 1 /\ q \in Live
    BY <2>1 DEF Sequence
  <2> QED BY <2>1, <2>2, <2>3, <2>4, <2>5 DEF Sequence
<1>16. ASSUME NEW q \in {0, 1}, GenerateInterrupt(q) PROVE Sequence'
  BY <1>16, SequenceKept DEF GenerateInterrupt
<1>17. ASSUME NEW q \in {0, 1}, VhostTake(q) PROVE Sequence'
  BY <1>17, SequenceKept DEF VhostTake
<1>18. ASSUME NEW q \in {0, 1}, VhostIdle(q) PROVE Sequence'
  BY <1>18, SequenceKept DEF VhostIdle
<1>19. CASE UNCHANGED vars
  BY <1>19, SequenceKept
<1> QED
  BY <1>2, <1>3, <1>4, <1>5, <1>6, <1>7, <1>8, <1>9, <1>10, <1>11, <1>12, <1>13, <1>14, <1>15,
     <1>16, <1>17, <1>18, <1>19, <1>20, Zenon
  DEF Next, Driver, PerformOperation

-----------------------------------------------------------------------------
(* What the registers hold *)

(* The registers before the first message, as Initialize leaves them.      *)
LEMMA RegistersInit == Init => Registers
<1> SUFFICES ASSUME Init PROVE Registers
  OBVIOUS
<1>1. TypeOK /\ Sequence
  BY TypeInit, SequenceInit
<1>2. storing = None /\ box = None /\ todo = SetUp(NumQueues)
  BY DEF Init
<1>3. NumQueues \in {1, 2} /\ Total = IF NumQueues = 2 THEN 15 ELSE 12
  BY DEF NumQueues, Total
<1>4. Len(todo) = Total /\ Total \in Nat
  BY <1>2, <1>3, SetUpMessages
<1>5. Stored = 0
  BY <1>4 DEF Stored
<1>6. Served = 0
  BY <1>2, <1>5 DEF Served, InFlight, Posted
<1> QED BY <1>5, <1>6 DEF Init, Registers

(* A step of another thread, and the message of a notification or of an    *)
(* acknowledgement, are not part of the set-up.                            *)
LEMMA ServedKept ==
  ASSUME TypeOK, Sequence, UNCHANGED <<kind, todo, storing>>, InFlight' <=> InFlight
  PROVE  Served' = Served /\ Stored' = Stored
BY Elsewhere DEF Served

(* The registers mean the same as long as the set-up does not advance.     *)
LEMMA RegistersKept ==
  ASSUME TypeOK, Sequence, Registers, UNCHANGED <<kind, todo, storing>>, InFlight' <=> InFlight,
         UNCHANGED <<info, FeaturesSel, offered, SelectedIndex, AckGuestFeatures>>,
         \A q \in AllQueues : Queues'[q].num = Queues[q].num /\ Queues'[q].page = Queues[q].page
  PROVE  Registers'
<1>1. Served' = Served /\ Stored' = Stored
  BY ServedKept
<1>2. 0 \in AllQueues /\ 1 \in AllQueues
  BY DEF AllQueues
<1> QED BY <1>1, <1>2 DEF Registers

(* The device thread serves the message that was posted last.              *)
LEMMA Serve ==
  ASSUME TypeOK, Sequence, UNCHANGED <<kind, todo, storing>>,
         box # None, box.reg \notin {"QUEUE_NOTIFY", "INTERRUPT_ACK"}, box' = None
  PROVE  /\ Posted \in 1 .. Total /\ box = Message(Posted)
         /\ Served = Posted - 1 /\ Served' = Posted /\ Stored' = Stored
         /\ Stored \in {Posted - 1, Posted} /\ Stored \in Nat
<1>1. InFlight /\ ~InFlight'
  BY DEF InFlight
<1>2. Posted \in 1 .. Total /\ Served = Posted - 1 /\ Stored \in Nat
  BY <1>1, UnderWay
<1>3. Stored \in {Posted - 1, Posted}
  BY <1>2, UnderWay DEF Posted
<1> QED BY <1>1, <1>2, <1>3, Elsewhere DEF Served, Sequence

(* Every step leaves the registers and the device with what the driver has *)
(* written up to there: a message is served before or after the store that *)
(* follows it, and the store reaches the registers before the next message *)
(* of the queue is served.                                                 *)
LEMMA RegistersStep == VirtioInv /\ [Next]_vars => Registers'
<1> SUFFICES ASSUME VirtioInv, [Next]_vars PROVE Registers'
  OBVIOUS
<1> USE DEF VirtioInv
<1> USE DEF vars, registers, config, tables, guest, interrupts
<1>1. kind \in Kinds /\ Total \in {12, 15}
  BY DEF TypeOK, Total
<1>2. CASE GuestWrite
  <2>1. /\ box = None /\ storing = None /\ storing' = Head(todo) /\ box' = Head(todo)
        /\ kind' = kind /\ todo' = todo /\ todo # << >>
    BY <1>2 DEF GuestWrite
  <2>2. Stored' = Stored /\ Stored \in 0 .. Total
    BY <2>1, UnderWay DEF Stored, Total
  <2>3. todo \in Seq(Messages) /\ Len(todo) >= 1 /\ Head(todo) = todo[1] /\ Head(todo) \in Messages
    BY <2>1 DEF TypeOK
  <2>4. todo[1] = Message(Stored + 1) /\ Stored + 1 \in 1 .. Total
    <3>1. todo[1] = Message(Stored + 1)
      BY <2>3 DEF Sequence, TypeOK
    <3> QED BY <1>1, <2>2, <2>3, <3>1 DEF Stored
  <2>5. InFlight' /\ ~InFlight
    BY <1>1, <2>1, <2>3, <2>4, Script, NoneAssumption DEF InFlight
  <2>6. Posted' = Stored + 1 /\ Posted = Stored
    BY <2>1, <2>2, <2>3, NoneAssumption DEF Posted
  <2>7. Served' = Served
    BY <2>2, <2>5, <2>6 DEF Served
  <2> QED BY <1>2, <2>2, <2>7 DEF GuestWrite, Registers
<1>3. CASE GuestStore
  <2>1. /\ storing # None /\ storing' = None /\ todo' = Tail(todo) /\ todo # << >>
        /\ kind' = kind /\ box' = box /\ UNCHANGED <<offered, config, Queues>>
    BY <1>3 DEF GuestStore, Sequence
  <2>2. /\ Posted \in 1 .. Total /\ Posted = Stored + 1 /\ storing = Message(Posted)
        /\ Stored \in 0 .. Total
    BY <2>1, UnderWay
  <2>3. Stored' = Posted
    BY <2>1, <2>2, NextMessage
  <2>4. Served' = Served /\ Served \in {Posted - 1, Posted}
    BY <2>1, <2>2, <2>3 DEF Served, Posted, InFlight
  <2>5. FeaturesSel' = IF storing.reg = "GUEST_FEATURES_SEL" THEN storing.data ELSE FeaturesSel
    BY <1>3 DEF GuestStore
  <2>6. (FeaturesSel = IF Stored >= 7 THEN 1 ELSE 0)'
    <3>1. /\ storing.reg = "GUEST_FEATURES_SEL" <=> Posted \in {5, 7}
          /\ Posted = 5 => storing.data = 0
          /\ Posted = 7 => storing.data = 1
      BY <1>1, <2>2, Script
    <3> QED BY <1>1, <2>2, <2>3, <2>5, <3>1 DEF Registers
  <2>7. info'.num = IF storing.reg = "QUEUE_NUM" THEN storing.data ELSE info.num
    <3>1. info \in Infos /\ storing.data \in Nat
      BY <2>1 DEF TypeOK, Messages
    <3> QED BY <1>3, <3>1 DEF GuestStore, Infos
  <2>8. /\ storing.reg = "QUEUE_NUM" <=> Posted = 10 \/ (kind = "net" /\ Posted = 13)
        /\ Posted = 10 => storing.data = QueueNum[0]
        /\ kind = "net" /\ Posted = 13 => storing.data = QueueNum[1]
    BY <1>1, <2>2, Script
  <2>9. (Stored >= 10 /\ ~(kind = "net" /\ Served >= 12) => info.num = QueueNum[0])'
    BY <1>1, <2>1, <2>2, <2>3, <2>4, <2>7, <2>8 DEF Registers
  <2>10. (kind = "net" /\ Stored >= 13 => info.num = QueueNum[1])'
    BY <1>1, <2>1, <2>2, <2>3, <2>4, <2>7, <2>8 DEF Registers
  <2> QED BY <2>1, <2>4, <2>6, <2>9, <2>10 DEF Registers
<1>4. CASE GuestRead
  <2>1. /\ box = None /\ storing = None /\ storing' = storing /\ todo' = Tail(todo) /\ todo # << >>
        /\ kind' = kind /\ box' = box /\ Head(todo).reg = "read"
        /\ UNCHANGED <<registers, config, Queues>>
    BY <1>4 DEF GuestRead, Reading
  <2>2. Stored' = Stored + 1 /\ Head(todo) = Message(Stored + 1)
    BY <2>1, NextMessage
  <2>3. Posted = Stored /\ Posted' = Stored + 1 /\ Served = Stored /\ Served' = Stored + 1
    BY <2>1, <2>2 DEF Posted, Served, InFlight
  <2>4. Stored \in 0 .. Total /\ Stored + 1 \in 1 .. Total
    <3>1. todo \in Seq(Messages) /\ Len(todo) >= 1
      BY <2>1 DEF TypeOK
    <3> QED BY <1>1, <3>1, UnderWay DEF Stored
  <2>5. Stored + 1 \in {2, 4}
    BY <1>1, <2>1, <2>2, <2>4, Script
  <2> QED BY <2>1, <2>2, <2>3, <2>4, <2>5 DEF Registers
<1>5. CASE Isr
  <2>1. InFlight' <=> InFlight
    BY <1>5 DEF Isr, InFlight, Msg
  <2> QED BY <1>5, <2>1, RegistersKept DEF Isr
<1>6. CASE SelHostFeatures
  <2>1. /\ UNCHANGED <<kind, todo, storing>> /\ box # None /\ box.reg = "HOST_FEATURES_SEL"
        /\ box' = None /\ offered' = box.data
        /\ UNCHANGED <<info, FeaturesSel, config, Queues>>
    BY <1>6 DEF SelHostFeatures, Serving
  <2>2. /\ Posted \in 1 .. Total /\ box = Message(Posted)
        /\ Served = Posted - 1 /\ Served' = Posted /\ Stored' = Stored
    BY <2>1, Serve
  <2>3. Posted \in {1, 3} /\ (Posted = 1 => offered' = 0) /\ (Posted = 3 => offered' = 1)
    BY <1>1, <2>1, <2>2, Script
  <2> QED BY <2>1, <2>2, <2>3 DEF Registers
<1>7. CASE SetGuestFeatures
  <2>1. /\ UNCHANGED <<kind, todo, storing>> /\ box # None /\ box.reg = "GUEST_FEATURES"
        /\ box' = None
        /\ AckGuestFeatures' = [AckGuestFeatures EXCEPT ![FeaturesSel + 1] = box.data]
        /\ UNCHANGED <<registers, SelectedIndex, Queues>>
    BY <1>7 DEF SetGuestFeatures, Serving
  <2>2. /\ Posted \in 1 .. Total /\ box = Message(Posted)
        /\ Served = Posted - 1 /\ Served' = Posted /\ Stored' = Stored
        /\ Stored \in {Posted - 1, Posted}
    BY <2>1, Serve
  <2>3. /\ Posted \in {6, 8} /\ (Posted = 6 => box.data = Feature(0))
        /\ (Posted = 8 => box.data = Feature(1))
    BY <1>1, <2>1, <2>2, Script
  <2>4. CASE Posted = 6
    <3>1. FeaturesSel = 0 /\ AckGuestFeatures = <<0, 0>>
      BY <2>2, <2>4 DEF Registers
    <3>2. AckGuestFeatures' = <<Feature(0), 0>>
      BY <2>1, <2>3, <2>4, <3>1
    <3> QED BY <2>1, <2>2, <2>4, <3>2 DEF Registers
  <2>5. CASE Posted = 8
    <3>1. FeaturesSel = 1 /\ AckGuestFeatures = <<Feature(0), 0>>
      BY <2>2, <2>5 DEF Registers
    <3>2. AckGuestFeatures' = <<Feature(0), Feature(1)>>
      BY <2>1, <2>3, <2>5, <3>1
    <3> QED BY <2>1, <2>2, <2>5, <3>2 DEF Registers
  <2> QED BY <2>3, <2>4, <2>5
<1>8. CASE UpdateQueue
  <2>1. /\ UNCHANGED <<kind, todo, storing>> /\ box # None /\ box.reg = "QUEUE_SEL"
        /\ box' = None /\ SelectedIndex' = box.data
        /\ UNCHANGED <<FeaturesSel, offered, AckGuestFeatures, Queues>>
    BY <1>8 DEF UpdateQueue, Serving
  <2>2. /\ Posted \in 1 .. Total /\ box = Message(Posted)
        /\ Served = Posted - 1 /\ Served' = Posted /\ Stored' = Stored
        /\ Stored \in {Posted - 1, Posted}
    BY <2>1, Serve
  <2>3. /\ Posted = 9 \/ (kind = "net" /\ Posted = 12)
        /\ (Posted = 9 => box.data = 0) /\ (Posted = 12 => box.data = 1)
    BY <1>1, <2>1, <2>2, Script
  <2>4. CASE Posted = 9
    BY <2>1, <2>2, <2>3, <2>4 DEF Registers
  <2>5. CASE kind = "net" /\ Posted = 12
    BY <2>1, <2>2, <2>3, <2>5 DEF Registers
  <2> QED BY <2>3, <2>4, <2>5
<1>9. CASE UpdateVirtQueue
  <2>1. /\ UNCHANGED <<kind, todo, storing>> /\ box # None /\ box.reg = "QUEUE_PFN"
        /\ box' = None
        /\ Queues' = [Queues EXCEPT ![SelectedIndex] = createVring(info.num, box.data)]
        /\ UNCHANGED <<registers, config>>
    BY <1>9 DEF UpdateVirtQueue, Serving
  <2>2. /\ Posted \in 1 .. Total /\ box = Message(Posted)
        /\ Served = Posted - 1 /\ Served' = Posted /\ Stored' = Stored
        /\ Stored \in {Posted - 1, Posted}
    BY <2>1, Serve
  <2>3. /\ Posted = 11 \/ (kind = "net" /\ Posted = 14)
        /\ (Posted = 11 => box.data = 1) /\ (Posted = 14 => box.data = 2)
    BY <1>1, <2>1, <2>2, Script
  <2>4. Queues \in [AllQueues -> Vrings] /\ 0 \in AllQueues /\ 1 \in AllQueues
    BY DEF TypeOK, AllQueues
  <2> DEFINE v == createVring(info.num, box.data)
  <2>5. v.num = info.num /\ v.page = box.data
    BY DEF createVring
  <2> HIDE DEF v
  <2>6. CASE Posted = 11
    <3>1. SelectedIndex = 0 /\ info.num = QueueNum[0]
      BY <2>2, <2>6 DEF Registers
    <3>2. Queues'[0] = v
      BY <2>1, <2>4, <3>1 DEF v
    <3> QED BY <2>1, <2>2, <2>3, <2>5, <2>6, <3>1, <3>2 DEF Registers
  <2>7. CASE kind = "net" /\ Posted = 14
    <3>1. SelectedIndex = 1 /\ info.num = QueueNum[1]
      BY <2>2, <2>7 DEF Registers
    <3>2. Queues'[1] = v /\ Queues'[0] = Queues[0]
      BY <2>1, <2>4, <3>1 DEF v
    <3> QED BY <2>1, <2>2, <2>3, <2>5, <2>7, <3>1, <3>2 DEF Registers
  <2> QED BY <2>3, <2>6, <2>7
<1>10. CASE NoOperation
  <2>1. /\ UNCHANGED <<kind, todo, storing>> /\ box # None
        /\ box.reg \in {"QUEUE_NUM", "GUEST_FEATURES_SEL"} /\ box' = None
        /\ UNCHANGED <<registers, config, Queues>>
    BY <1>10 DEF NoOperation, Serving
  <2>2. /\ Posted \in 1 .. Total /\ box = Message(Posted)
        /\ Served = Posted - 1 /\ Served' = Posted /\ Stored' = Stored
    BY <2>1, Serve
  <2>3. Posted \in {5, 7, 10} \/ (kind = "net" /\ Posted = 13)
    BY <1>1, <2>1, <2>2, Script
  <2> QED BY <2>1, <2>2, <2>3 DEF Registers
<1>11. CASE NotifyDevice
  <2>1. \A q \in AllQueues : Queues'[q].num = Queues[q].num /\ Queues'[q].page = Queues[q].page
    BY <1>11, UpdateTypes DEF NotifyDevice
  <2>2. InFlight' <=> InFlight
    BY <1>11 DEF NotifyDevice, Serving, InFlight
  <2> QED BY <1>11, <2>1, <2>2, RegistersKept DEF NotifyDevice
<1>12. CASE UpdateStatus
  <2>1. /\ UNCHANGED <<kind, todo, storing>> /\ box # None
        /\ box.reg = "STATUS" /\ box' = None
        /\ UNCHANGED <<registers, config>>
    BY <1>12 DEF UpdateStatus, Serving
  <2>2. /\ Posted \in 1 .. Total /\ box = Message(Posted)
        /\ Served = Posted - 1 /\ Served' = Posted /\ Stored' = Stored
    BY <2>1, Serve
  <2>3. Posted = Total /\ Total = IF kind = "net" THEN 15 ELSE 12
    BY <1>1, <2>1, <2>2, Script DEF Total
  <2>4. \A q \in AllQueues : Queues'[q].num = Queues[q].num /\ Queues'[q].page = Queues[q].page
    BY <1>12, UpdateTypes DEF UpdateStatus
  <2>5. /\ Queues'[0].num = Queues[0].num /\ Queues'[0].page = Queues[0].page
        /\ Queues'[1].num = Queues[1].num /\ Queues'[1].page = Queues[1].page
    BY <2>4 DEF AllQueues
  <2> QED BY <2>1, <2>2, <2>3, <2>5 DEF Registers
<1>20. CASE VblkStart
  <2>1. \A q \in AllQueues : Queues'[q].num = Queues[q].num /\ Queues'[q].page = Queues[q].page
    BY <1>20, UpdateTypes DEF VblkStart
  <2>2. InFlight' <=> InFlight
    BY <1>20 DEF VblkStart, InFlight
  <2> QED BY <1>20, <2>1, <2>2, RegistersKept DEF VblkStart
<1>21. CASE SaveQueueFaults
  BY <1>21, RegistersKept DEF SaveQueueFaults, InFlight
<1>13. CASE AckInterrupt
  <2>1. InFlight' <=> InFlight
    BY <1>13 DEF AckInterrupt, InFlight
  <2> QED BY <1>13, <2>1, RegistersKept DEF AckInterrupt
<1>14. ASSUME NEW q \in {0, 1}, Submit(q) PROVE Registers'
  BY <1>14, RegistersKept DEF Submit, InFlight
<1>15. ASSUME NEW q \in {0, 1}, Notify(q) PROVE Registers'
  <2>1. InFlight' <=> InFlight
    BY <1>15 DEF Notify, InFlight, Msg
  <2> QED BY <1>15, <2>1, RegistersKept DEF Notify
<1>16. ASSUME NEW q \in {0, 1}, GenerateInterrupt(q) PROVE Registers'
  BY <1>16, RegistersKept DEF GenerateInterrupt, InFlight
<1>17. ASSUME NEW q \in {0, 1}, VhostTake(q) PROVE Registers'
  BY <1>17, RegistersKept DEF VhostTake, InFlight
<1>18. ASSUME NEW q \in {0, 1}, VhostIdle(q) PROVE Registers'
  BY <1>18, RegistersKept DEF VhostIdle, InFlight
<1>19. CASE UNCHANGED vars
  BY <1>19, RegistersKept DEF InFlight
<1> QED
  BY <1>2, <1>3, <1>4, <1>5, <1>6, <1>7, <1>8, <1>9, <1>10, <1>11, <1>12, <1>13, <1>14, <1>15,
     <1>16, <1>17, <1>18, <1>19, <1>20, <1>21, Zenon
  DEF Next, Driver, PerformOperation

-----------------------------------------------------------------------------
(* The table of a block device *)

(* Descriptor c + 1 of new request d is at place d * P + c + 1 of the list *)
(* of new descriptors.                                                     *)
LEMMA Place ==
  ASSUME NEW P \in Nat \ {0}, NEW e \in Nat, NEW d \in 0 .. e - 1, NEW c \in 0 .. P - 1
  PROVE  /\ d * P + c \in Nat /\ d * P + c + 1 <= e * P
         /\ (d * P + c) \div P = d /\ (d * P + c) % P = c
<1> DEFINE Pd == P * d
           Pe == P * e
<1>1. (Pd + c) \div P = d /\ (Pd + c) % P = c
  BY DivUnique
<1>2. Pd + P <= Pe /\ Pd \in Nat /\ Pe \in Nat
  BY Multiples
<1>3. d * P = Pd /\ e * P = Pe
  OBVIOUS
<1> HIDE DEF Pd, Pe
<1> QED BY <1>1, <1>2, <1>3

(* What updateTableEntry leaves in a slot: the one new buffer that is      *)
(* entered there, since there are fewer of them than slots, or what was    *)
(* there before.                                                           *)
LEMMA NewTable ==
  ASSUME TypeOK, LastIdx <= avail[0], NEW s \in 0 .. MaxRegions - 1
  PROVE  LET T == Entered(table, memTableIdx, NewParts)
         IN  /\ \A m \in 1 .. NewCount :
                   (memTableIdx + m - 1) % MaxRegions = s => T[s] = NewParts[m]
             /\ (\A m \in 1 .. NewCount : (memTableIdx + m - 1) % MaxRegions # s) =>
                   T[s] = table[s]
<1> DEFINE b == NewParts
           i == memTableIdx
           T == Entered(table, i, b)
           N == NewCount
           here == {l \in DOMAIN b : (i + l - 1) % MaxRegions = s}
           C == CHOOSE h \in here : \A l \in here : l <= h
<1>1. T[s] = IF here = {} THEN table[s] ELSE b[C]
  BY DEF Entered
<1>2. i \in Nat /\ N \in 0 .. MaxRegions - 1 /\ MaxRegions \in Nat \ {0}
  BY NewDescriptors, Shape DEF TypeOK
<1>3. b \in [1 .. N -> Buffers]
  BY NewDescriptors
<1> HIDE DEF N, b, T, i
<1>4. ASSUME NEW m \in 1 .. N, (i + m - 1) % MaxRegions = s
      PROVE  T[s] = b[m]
  <2>1. ASSUME NEW l \in here PROVE l = m
    <3>1. l \in 1 .. N /\ (i + l - 1) % MaxRegions = s
      BY <1>3
    <3> DEFINE x == i + m - 1
               y == i + l - 1
    <3>2. x \in Nat /\ y \in Nat /\ y < x + MaxRegions /\ x < y + MaxRegions
      BY <1>2, <3>1
    <3>3. x % MaxRegions = y % MaxRegions
      BY <1>4, <3>1
    <3> HIDE DEF x, y
    <3>4. ~(x < y) /\ ~(y < x)
      BY <1>2, <3>2, <3>3, Window
    <3> QED BY <1>2, <3>1, <3>2, <3>4 DEF x, y
  <2>2. m \in here /\ m <= m
    BY <1>2, <1>3, <1>4
  <2> HIDE DEF here
  <2>3. C = m
    BY <2>1, <2>2
  <2> HIDE DEF C
  <2> QED BY <1>1, <2>2, <2>3
<1>5. (\A m \in 1 .. N : (i + m - 1) % MaxRegions # s) => here = {}
  BY <1>3
<1> HIDE DEF here, C
<1>6. /\ \A m \in 1 .. N : (i + m - 1) % MaxRegions = s => T[s] = b[m]
      /\ (\A m \in 1 .. N : (i + m - 1) % MaxRegions # s) => T[s] = table[s]
  BY <1>1, <1>4, <1>5
<1> QED BY <1>6, Zenon DEF N, b, T, i

(* updateMemoryTable, block device: the new descriptors follow the earlier *)
(* ones in the ring, each of the last MaxRegions stays in its slot, and    *)
(* vhost is given the table as it is then, unless there is no new request. *)
LEMMA RingUpdate ==
  ASSUME TypeOK, Ring, kind = "blk", updateMemoryTable, avail' = avail, ~(Served' < 11)
  PROVE  Ring'
<1> DEFINE P == Parts[0]
           L == LastIdx
           r == NewRequests
           N == NewCount
           R == MaxRegions
           i == memTableIdx
           u == updateBlkTableFromQueue
           E == entry \o [n \in 1 .. r |-> i + (n - 1) * P]
           T == Entered(table, i, NewParts)
<1>1. /\ L \in Nat /\ P \in Nat \ {0} /\ R \in Nat \ {0} /\ i \in Nat /\ entry \in Seq(Nat)
      /\ L = Len(entry) /\ L <= avail[0]
  BY Numbers, Shape DEF TypeOK, Ring
<1>2. r \in Nat /\ N \in 0 .. R - 1 /\ r * P <= N /\ L + r <= avail[0]
  BY <1>1, NewDescriptors
<1>3. /\ table' = T /\ memTableIdx' = i + N /\ entry' = E
      /\ Queues' = [Queues EXCEPT ![0].last_avail_idx = L + r]
      /\ IF r > 0 THEN shared' = {T[s] : s \in 0 .. Least(i + N, R) - 1} ELSE shared' = shared
  <2>1. /\ u.table = T /\ u.idx = i + N /\ u.ret = r /\ u.entry = E
        /\ u.queues = [Queues EXCEPT ![0].last_avail_idx = L + r]
    BY <1>1, BlkUpdate
  <2>2. /\ table' = u.table /\ memTableIdx' = u.idx /\ Queues' = u.queues /\ entry' = u.entry
        /\ IF u.ret > 0
           THEN shared' = {u.table[s] : s \in 0 .. Least(u.idx, R) - 1}
           ELSE shared' = shared
    BY DEF updateMemoryTable
  <2> HIDE DEF u, T, E, r, N, R, L
  <2> QED BY <2>1, <2>2
<1>4. LastIdx' = L + r
  <2>1. Queues \in [AllQueues -> Vrings] /\ Queues[0] \in Vrings /\ 0 \in AllQueues
    BY DEF TypeOK, AllQueues
  <2>2. Queues'[0] = [Queues[0] EXCEPT !.last_avail_idx = L + r]
    BY <1>3, <2>1
  <2> HIDE DEF L, r
  <2> QED BY <2>1, <2>2 DEF LastIdx, Vrings
<1>5. /\ Len(E) = L + r
      /\ \A k \in 0 .. L - 1 : E[k + 1] = entry[k + 1]
      /\ \A k \in L .. L + r - 1 : E[k + 1] = i + (k - L) * P
  BY <1>1, NewPlaces, Zenon
<1>6. \A m \in 1 .. N : NewParts[m] = Part(0, L + (m - 1) \div P, ((m - 1) % P) + 1)
  BY <1>1, NewDescriptors
<1>7. /\ \A k \in 0 .. L - 1 : entry[k + 1] + P <= i
      /\ \A k \in 0 .. L - 1, j \in 1 .. P :
           i <= entry[k + 1] + j - 1 + R =>
             table[(entry[k + 1] + j - 1) % R] = Part(0, k, j) /\ Part(0, k, j) \in shared
  BY DEF Ring, At
<1>8. ASSUME NEW s \in 0 .. R - 1
      PROVE  /\ \A m \in 1 .. N : (i + m - 1) % R = s => T[s] = NewParts[m]
             /\ (\A m \in 1 .. N : (i + m - 1) % R # s) => T[s] = table[s]
  BY <1>1, NewTable, Zenon
<1>9. \A k \in 0 .. L - 1 : entry[k + 1] \in Nat
  BY <1>1
<1> HIDE DEF P, L, r, N, R, i, u, E, T
<1>10. ASSUME NEW k \in 0 .. L + r - 1
       PROVE  /\ E[k + 1] \in Nat /\ E[k + 1] + P <= i + N
              /\ k < L => E[k + 1] = entry[k + 1] /\ E[k + 1] + P <= i
              /\ L <= k => /\ k - L \in 0 .. r - 1 /\ E[k + 1] = i + (k - L) * P
                           /\ (k - L) * P \in Nat
  <2>1. CASE k < L
    <3>1. k \in 0 .. L - 1
      BY <1>1, <2>1
    <3>2. E[k + 1] = entry[k + 1] /\ E[k + 1] \in Nat /\ E[k + 1] + P <= i
      BY <1>5, <1>7, <1>9, <3>1
    <3> QED BY <1>1, <1>2, <2>1, <3>2
  <2>2. CASE L <= k
    <3> DEFINE d == k - L
               dP == d * P
               rP == r * P
    <3>1. d \in 0 .. r - 1 /\ E[k + 1] = i + dP
      BY <1>1, <1>2, <1>5, <2>2
    <3>2. dP \in Nat /\ rP \in Nat /\ dP + P <= rP
      <4> HIDE DEF d
      <4>1. P * d + P <= P * r /\ P * d = d * P /\ P * r = r * P /\ d * P \in Nat /\ r * P \in Nat
        BY <1>1, <1>2, <3>1, Multiples
      <4> QED BY <4>1
    <3>3. rP <= N
      BY <1>2
    <3> HIDE DEF d, dP, rP
    <3>4. E[k + 1] \in Nat /\ E[k + 1] + P <= i + N
      BY <1>1, <1>2, <3>1, <3>2, <3>3
    <3> QED BY <1>1, <2>2, <3>1, <3>2, <3>4 DEF d, dP
  <2> QED BY <1>1, <1>2, <2>1, <2>2
<1>11. ASSUME NEW k \in 0 .. L + r - 1, NEW j \in 1 .. P, i + N <= E[k + 1] + j - 1 + R
       PROVE  T[(E[k + 1] + j - 1) % R] = Part(0, k, j) /\ Part(0, k, j) \in shared'
  <2> DEFINE x == E[k + 1] + j - 1
             s == x % R
  <2>5. N \in Nat /\ r \in Nat
    BY <1>1, <1>2
  <2>6. E[k + 1] \in Nat /\ E[k + 1] + P <= i + N
    BY <1>10, Zenon
  <2>1. x \in Nat /\ x < i + N
    BY <1>1, <2>5, <2>6
  <2>2. s \in 0 .. R - 1
    <3> HIDE DEF x
    <3> QED BY <1>1, <2>1, DivMod
  <2>3. T[s] = Part(0, k, j)
    <3>1. CASE k < L
      <4>1. E[k + 1] = entry[k + 1] /\ x < i
        <5>1. E[k + 1] = entry[k + 1] /\ E[k + 1] + P <= i
          BY <1>10, <3>1, Zenon
        <5> QED BY <1>1, <2>6, <5>1
      <4>2. ASSUME NEW m \in 1 .. N PROVE (i + m - 1) % R # s
        <5> DEFINE y == i + m - 1
        <5>1. i + N <= x + R
          BY <1>11
        <5> HIDE DEF x
        <5>2. y \in Nat /\ x < y /\ y < x + R
          <6>1. x < i
            BY <4>1
          <6> QED BY <1>1, <2>1, <2>5, <5>1, <6>1
        <5> HIDE DEF y
        <5>3. x % R # y % R
          BY <1>1, <2>1, <5>2, Window
        <5> QED BY <5>3 DEF y
      <4>3. T[s] = table[s]
        <5> HIDE DEF s
        <5> QED BY <1>8, <2>2, <4>2
      <4>4. i <= x + R
        <5>1. i + N <= x + R
          BY <1>11
        <5> HIDE DEF x
        <5> QED BY <1>1, <1>2, <2>1, <5>1
      <4>5. table[s] = Part(0, k, j)
        <5>1. k \in 0 .. L - 1
          BY <1>1, <3>1
        <5> QED BY <1>7, <4>1, <4>4, <5>1
      <4> QED BY <4>3, <4>5
    <3>2. CASE L <= k
      <4> DEFINE d == k - L
                 c == j - 1
                 m == d * P + c + 1
      <4>1. d \in 0 .. r - 1 /\ c \in 0 .. P - 1 /\ E[k + 1] = i + d * P
        BY <1>1, <1>10, <3>2
      <4> HIDE DEF d, c
      <4>2. /\ d * P + c \in Nat /\ d * P + c + 1 <= r * P
            /\ (d * P + c) \div P = d /\ (d * P + c) % P = c
        BY <1>1, <1>2, <4>1, Place
      <4> DEFINE dP == d * P
                 rP == r * P
      <4>3. dP \in Nat /\ rP \in Nat
        BY <1>1, <1>2, <4>1
      <4>4. m \in 1 .. N /\ m - 1 = d * P + c /\ x = i + m - 1
        <5>1. dP + c + 1 <= rP /\ rP <= N /\ E[k + 1] = i + dP /\ c = j - 1
          BY <1>2, <4>1, <4>2 DEF c
        <5>2. m = dP + c + 1
          OBVIOUS
        <5> HIDE DEF dP, rP, m
        <5>3. m \in 1 .. N /\ m - 1 = dP + c /\ x = i + m - 1
          BY <1>1, <1>2, <4>1, <4>3, <5>1, <5>2
        <5> QED BY <5>3 DEF dP
      <4> HIDE DEF m, x
      <4>5. T[s] = NewParts[m]
        BY <1>8, <2>2, <4>4
      <4>6. NewParts[m] = Part(0, L + d, c + 1)
        BY <1>6, <4>2, <4>4
      <4>7. L + d = k /\ c + 1 = j
        BY <1>1, <1>2 DEF d, c
      <4> QED BY <4>5, <4>6, <4>7
    <3> QED BY <1>1, <1>2, <3>1, <3>2
  <2>4. Part(0, k, j) \in shared'
    <3>1. CASE r > 0
      <4>1. s \in 0 .. Least(i + N, R) - 1
        <5> HIDE DEF x
        <5> DEFINE c == x % R
                   d == R * (x \div R)
        <5>1. c \in 0 .. R - 1 /\ d \in Nat /\ x = d + c
          <6>1. x % R \in 0 .. R - 1 /\ x = R * (x \div R) + (x % R) /\ x \div R \in Nat
            BY <1>1, <2>1, DivMod
          <6>2. R * (x \div R) \in Nat
            <7> DEFINE g == x \div R
            <7>1. g \in Nat
              BY <6>1
            <7> HIDE DEF g
            <7>2. R * g \in Nat
              BY <1>1, <7>1
            <7> QED BY <7>2 DEF g
          <6> QED BY <6>1, <6>2, Zenon
        <5> HIDE DEF c, d
        <5>2. c \in 0 .. Least(i + N, R) - 1
          BY <1>1, <1>2, <2>1, <5>1 DEF Least
        <5> QED BY <5>2 DEF c
      <4>2. shared' = {T[l] : l \in 0 .. Least(i + N, R) - 1}
        BY <1>3, <3>1
      <4> HIDE DEF s
      <4>3. T[s] \in shared'
        BY <4>1, <4>2
      <4> QED BY <2>3, <4>3
    <3>2. CASE ~(r > 0)
      <4>1. r = 0 /\ shared' = shared
        BY <1>2, <1>3, <3>2
      <4>2. k \in 0 .. L - 1 /\ E[k + 1] = entry[k + 1]
        <5>1. k \in 0 .. L - 1 /\ k < L
          BY <1>1, <4>1
        <5> QED BY <1>10, <5>1, Zenon
      <4>3. i <= x + R
        <5>1. i + N <= x + R
          BY <1>11
        <5> HIDE DEF x
        <5> QED BY <1>1, <1>2, <2>1, <5>1
      <4> QED BY <1>7, <4>1, <4>2, <4>3
    <3> QED BY <3>1, <3>2
  <2> QED BY <2>3, <2>4
<1>12. LastIdx' = Len(entry') /\ LastIdx' <= avail'[0]
  BY <1>2, <1>3, <1>4, <1>5
<1>13. \A k \in 0 .. LastIdx' - 1 : entry'[k + 1] + Parts[0] <= memTableIdx'
  <2>1. \A k \in 0 .. L + r - 1 : E[k + 1] + P <= i + N
    BY <1>10
  <2>2. LastIdx' = L + r /\ entry' = E /\ memTableIdx' = i + N /\ P = Parts[0]
    BY <1>3, <1>4 DEF P
  <2>3. 0 .. LastIdx' - 1 = 0 .. L + r - 1
    BY <1>1, <1>2, <2>2
  <2>4. \A k \in 0 .. L + r - 1 : entry'[k + 1] + Parts[0] <= memTableIdx'
    BY <2>1, <2>2
  <2> QED BY <2>3, <2>4, Zenon
<1>14. \A k \in 0 .. LastIdx' - 1, j \in 1 .. Parts[0] :
         memTableIdx' <= entry'[k + 1] + j - 1 + MaxRegions =>
           table'[(entry'[k + 1] + j - 1) % MaxRegions] = Part(0, k, j) /\ Part(0, k, j) \in shared'
  <2>1. \A k \in 0 .. L + r - 1, j \in 1 .. P :
          i + N <= E[k + 1] + j - 1 + R =>
            T[(E[k + 1] + j - 1) % R] = Part(0, k, j) /\ Part(0, k, j) \in shared'
    BY <1>11
  <2>2. /\ LastIdx' = L + r /\ entry' = E /\ memTableIdx' = i + N /\ table' = T
        /\ P = Parts[0] /\ R = MaxRegions
    BY <1>3, <1>4 DEF P, R
  <2>3. 0 .. LastIdx' - 1 = 0 .. L + r - 1 /\ 1 .. Parts[0] = 1 .. P
    BY <1>1, <1>2, <2>2
  <2>4. ASSUME NEW k \in 0 .. L + r - 1, NEW j \in 1 .. P,
               memTableIdx' <= entry'[k + 1] + j - 1 + MaxRegions
        PROVE  /\ table'[(entry'[k + 1] + j - 1) % MaxRegions] = Part(0, k, j)
               /\ Part(0, k, j) \in shared'
    <3>1. i + N <= E[k + 1] + j - 1 + R
      BY <2>2, <2>4, Zenon
    <3>2. T[(E[k + 1] + j - 1) % R] = Part(0, k, j) /\ Part(0, k, j) \in shared'
      BY <2>1, <3>1, Zenon
    <3> QED BY <2>2, <3>2, Zenon
  <2> QED BY <2>3, <2>4, Zenon
<1> QED BY <1>12, <1>13, <1>14 DEF Ring, At

(* The ring is kept by a step that leaves the table and the counters alone.*)
LEMMA RingKept ==
  ASSUME BlkRing, UNCHANGED <<kind, avail, table, memTableIdx, shared, entry>>,
         LastIdx' = LastIdx, Served' < 11 => Served < 11
  PROVE  BlkRing'
BY DEF BlkRing, Ring, At

(* Vhost's constructor leaves an empty table.                              *)
LEMMA RingInit == Init => BlkRing
<1> SUFFICES ASSUME Init PROVE Ring
  BY DEF BlkRing
<1>1. LastIdx = 0 /\ avail[0] = 0 /\ Len(entry) = 0
  BY DEF Init, LastIdx, AllQueues
<1> QED BY <1>1 DEF Ring

(* Every step keeps the table of a block device a ring of the descriptors  *)
(* that were entered.                                                      *)
LEMMA RingStep == VirtioInv /\ [Next]_vars => BlkRing'
<1> SUFFICES ASSUME VirtioInv, [Next]_vars PROVE BlkRing'
  OBVIOUS
<1> USE DEF VirtioInv
<1> USE DEF vars, registers, config, tables, guest, interrupts
<1>1. /\ Stored \in 0 .. Total /\ Posted \in 0 .. Total /\ Total \in {12, 15}
      /\ Served \in 0 .. Total /\ kind \in Kinds
      /\ Served \in {Posted - 1, Posted} /\ Posted \in {Stored, Stored + 1}
  <2>1. /\ Stored \in 0 .. Total /\ Posted \in 0 .. Total /\ Total \in {12, 15}
        /\ Served \in 0 .. Total /\ kind \in Kinds
    BY UnderWay DEF TypeOK
  <2> QED BY <2>1 DEF Served, Posted
<1>2. CASE GuestWrite \/ GuestStore \/ GuestRead
  <2>1. /\ UNCHANGED <<kind, avail, table, memTableIdx, shared, entry>>
        /\ Queues' = Queues
    BY <1>2 DEF GuestWrite, GuestStore, GuestRead
  <2>2. Served' >= Served
    <3>1. CASE GuestWrite
      <4>1. box = None /\ storing = None /\ todo' = todo /\ kind' = kind
        BY <3>1 DEF GuestWrite
      <4>2. Served = Stored /\ Stored' = Stored
        BY <4>1 DEF Served, InFlight, Posted, Stored, Total
      <4>3. storing' # None
        <5>1. Head(todo) \in Messages /\ storing' = Head(todo)
          BY <3>1 DEF GuestWrite, TypeOK
        <5> QED BY <5>1, NoneAssumption
      <4>4. Posted' = Stored + 1
        BY <4>2, <4>3 DEF Posted
      <4>5. Served' \in {Stored, Stored + 1}
        BY <1>1, <4>4 DEF Served
      <4> QED BY <1>1, <4>2, <4>5
    <3>2. CASE GuestStore
      <4>1. /\ storing # None /\ storing' = None /\ todo' = Tail(todo) /\ todo # << >>
            /\ kind' = kind /\ box' = box
        BY <3>2 DEF GuestStore, Sequence
      <4>2. Stored' = Stored + 1
        BY <4>1, NextMessage
      <4>3. Posted' = Posted
        BY <4>1, <4>2 DEF Posted
      <4>4. Served' = Served
        BY <4>1, <4>3 DEF Served, InFlight
      <4> QED BY <1>1, <4>4
    <3>3. CASE GuestRead
      <4>1. /\ box = None /\ storing = None /\ storing' = None /\ todo' = Tail(todo) /\ todo # << >>
            /\ kind' = kind /\ box' = box
        BY <3>3 DEF GuestRead, Reading
      <4>2. Stored' = Stored + 1
        BY <4>1, NextMessage
      <4>3. Served = Stored /\ Served' = Stored'
        BY <4>1 DEF Served, InFlight, Posted
      <4> QED BY <1>1, <4>2, <4>3
    <3> QED BY <1>2, <3>1, <3>2, <3>3
  <2>3. Served' \in Int
    <3>1. TypeOK' /\ Sequence'
      BY TypeStep, SequenceStep
    <3>2. (Served \in 0 .. Total /\ Total \in {12, 15})'
      BY <3>1, UnderWay, PTL
    <3> QED BY <3>2
  <2>4. Served' < 11 => Served < 11
    BY <1>1, <2>2, <2>3
  <2> QED BY <2>1, <2>4, RingKept DEF LastIdx
<1>3. CASE Isr
  <2>1. InFlight' <=> InFlight
    BY <1>3 DEF Isr, InFlight, Msg
  <2>2. Served' = Served
    BY <1>3, <2>1, ServedKept DEF Isr
  <2> QED BY <1>3, <2>2, RingKept DEF Isr, LastIdx
<1>4. CASE SelHostFeatures \/ SetGuestFeatures \/ UpdateQueue \/ NoOperation
  <2>1. /\ UNCHANGED <<kind, todo, storing>> /\ box # None /\ box' = None
        /\ box.reg \notin {"QUEUE_NOTIFY", "INTERRUPT_ACK"}
        /\ UNCHANGED <<kind, avail, table, memTableIdx, shared, entry>>
        /\ Queues' = Queues
    BY <1>4 DEF SelHostFeatures, SetGuestFeatures, UpdateQueue, NoOperation, Serving
  <2>2. Posted \in 1 .. Total /\ Served = Posted - 1 /\ Served' = Posted
    BY <2>1, Serve
  <2>3. Served' < 11 => Served < 11
    BY <1>1, <2>2
  <2> QED BY <2>1, <2>3, RingKept DEF LastIdx
<1>5. CASE UpdateVirtQueue
  <2>1. /\ UNCHANGED <<kind, todo, storing>> /\ box # None /\ box.reg = "QUEUE_PFN"
        /\ box' = None
        /\ Queues' = [Queues EXCEPT ![SelectedIndex] = createVring(info.num, box.data)]
        /\ UNCHANGED <<kind, avail, table, memTableIdx, shared, entry>>
    BY <1>5 DEF UpdateVirtQueue, Serving
  <2>2. Posted \in 1 .. Total /\ box = Message(Posted) /\ Served = Posted - 1 /\ Served' = Posted
    BY <2>1, Serve
  <2>3. CASE kind = "blk"
    <3>1. Posted = 11
      BY <1>1, <2>1, <2>2, <2>3, Script
    <3>2. SelectedIndex = 0 /\ LastIdx = 0
      BY <2>2, <2>3, <3>1 DEF Registers, BlkRing, Ring
    <3>3. Queues \in [AllQueues -> Vrings] /\ 0 \in AllQueues
      BY DEF TypeOK, AllQueues
    <3>4. LastIdx' = 0
      <4>1. Queues'[0] = createVring(info.num, box.data)
        BY <2>1, <3>2, <3>3
      <4> QED BY <4>1 DEF LastIdx, createVring
    <3>5. Served' < 11 => Served < 11
      BY <2>2, <3>1
    <3> QED BY <2>1, <3>2, <3>4, <3>5, RingKept
  <2>4. CASE kind # "blk"
    BY <2>1, <2>4 DEF BlkRing
  <2> QED BY <2>3, <2>4
<1>6. CASE NotifyDevice \/ VblkStart
  <2>1. CASE kind = "blk"
    <3>1. /\ updateMemoryTable /\ UNCHANGED <<kind, todo, storing, avail>>
          /\ box # None /\ box.reg = "QUEUE_NOTIFY" /\ box' \in {box, None}
      BY <1>6, <2>1 DEF NotifyDevice, VblkStart, Serving
    <3>2. ~InFlight /\ ~InFlight'
      BY <3>1 DEF InFlight
    <3>3. Served' = Served
      BY <3>1, <3>2, ServedKept
    <3>4. Served >= 11
      <4>1. Len(todo) <= 1 /\ Len(todo) \in Nat
        BY <3>1 DEF Sequence, TypeOK
      <4>2. Stored >= 11
        BY <1>1, <4>1 DEF Stored
      <4>3. Served = Posted
        BY <3>2 DEF Served
      <4> QED BY <1>1, <4>2, <4>3
    <3>5. Ring
      BY <2>1 DEF BlkRing
    <3>6. ~(Served' < 11)
      BY <1>1, <3>3, <3>4
    <3> QED BY <2>1, <3>1, <3>5, <3>6, RingUpdate DEF BlkRing
  <2>2. CASE kind # "blk"
    BY <1>6, <2>2 DEF NotifyDevice, VblkStart, BlkRing
  <2> QED BY <2>1, <2>2
<1>7. CASE UpdateStatus
  <2>1. CASE kind = "net"
    BY <1>7, <2>1 DEF UpdateStatus, BlkRing
  <2>2. CASE kind # "net"
    <3>1. /\ UNCHANGED <<kind, todo, storing>> /\ box # None /\ box' = None /\ box.reg = "STATUS"
          /\ UNCHANGED <<kind, avail, table, memTableIdx, shared, entry>>
          /\ Queues' = Queues
      BY <1>7, <2>2 DEF UpdateStatus, Serving
    <3>2. Posted \in 1 .. Total /\ Served = Posted - 1 /\ Served' = Posted
      BY <3>1, Serve
    <3>3. Served' < 11 => Served < 11
      BY <1>1, <3>2
    <3> QED BY <3>1, <3>3, RingKept DEF LastIdx
  <2> QED BY <2>1, <2>2
<1>8. CASE AckInterrupt
  <2>1. InFlight' <=> InFlight
    BY <1>8 DEF AckInterrupt, InFlight
  <2>2. Served' = Served
    BY <1>8, <2>1, ServedKept DEF AckInterrupt
  <2> QED BY <1>8, <2>2, RingKept DEF AckInterrupt, LastIdx
<1>9. ASSUME NEW q \in {0, 1}, Submit(q) PROVE BlkRing'
  <2>1. /\ UNCHANGED <<kind, todo, storing, box, Queues>>
        /\ UNCHANGED <<table, memTableIdx, shared, entry>>
        /\ avail' = [avail EXCEPT ![q] = @ + 1]
    BY <1>9 DEF Submit
  <2>2. Served' = Served
    BY <2>1, ServedKept DEF InFlight
  <2>3. avail \in [{0, 1} -> 0 .. MaxRequests[kind]] /\ avail[0] \in Nat /\ LastIdx \in Nat
    BY Numbers DEF TypeOK
  <2>4. avail'[0] \in {avail[0], avail[0] + 1}
    BY <2>1, <2>3
  <2>5. LastIdx <= avail[0] => LastIdx <= avail'[0]
    BY <2>3, <2>4
  <2>6. LastIdx' = LastIdx
    BY <2>1 DEF LastIdx
  <2> QED BY <2>1, <2>2, <2>5, <2>6 DEF BlkRing, Ring, At
<1>10. ASSUME NEW q \in {0, 1}, Notify(q) PROVE BlkRing'
  <2>1. InFlight' <=> InFlight
    BY <1>10 DEF Notify, InFlight, Msg
  <2>2. Served' = Served
    BY <1>10, <2>1, ServedKept DEF Notify
  <2> QED BY <1>10, <2>2, RingKept DEF Notify, LastIdx
<1>11. ASSUME NEW q \in {0, 1}, GenerateInterrupt(q) \/ VhostTake(q) \/ VhostIdle(q)
       PROVE  BlkRing'
  <2>1. /\ UNCHANGED <<kind, todo, storing, box, avail, Queues>>
        /\ UNCHANGED <<table, memTableIdx, shared, entry>>
    BY <1>11 DEF GenerateInterrupt, VhostTake, VhostIdle
  <2>2. Served' = Served
    BY <2>1, ServedKept DEF InFlight
  <2> QED BY <2>1, <2>2, RingKept DEF LastIdx
<1>12. CASE SaveQueueFaults
  <2>1. Served' = Served
    BY <1>12, ServedKept DEF SaveQueueFaults, InFlight
  <2> QED BY <1>12, <2>1, RingKept DEF SaveQueueFaults, LastIdx
<1>13. CASE UNCHANGED vars
  <2>1. Served' = Served
    BY <1>13, ServedKept DEF InFlight
  <2> QED BY <1>13, <2>1, RingKept DEF LastIdx
<1> QED
  BY <1>2, <1>3, <1>4, <1>5, <1>6, <1>7, <1>8, <1>9, <1>10, <1>11, <1>12, <1>13, Zenon
  DEF Next, Driver, PerformOperation

-----------------------------------------------------------------------------
(* The results *)

(* The invariant holds initially.                                          *)
LEMMA InvInit == Init => VirtioInv
BY TypeInit, SequenceInit, RegistersInit, RingInit DEF VirtioInv

(* Every step of every thread preserves the invariant.                     *)
LEMMA InvStep == VirtioInv /\ [Next]_vars => VirtioInv'
BY TypeStep, SequenceStep, RegistersStep, RingStep DEF VirtioInv

(* The invariant holds throughout.                                         *)
LEMMA Invariant == Spec => []VirtioInv
BY InvInit, InvStep, PTL DEF Spec

(* VirtioDevice, VirtioBlk, VirtioNet, Vhost: every variable keeps its     *)
(* type; no register gets a value that it does not hold, and the table     *)
(* that vhost is given never has more than MaxRegions regions.             *)
THEOREM TypeCorrect == Spec => []TypeOK
<1>1. VirtioInv => TypeOK
  BY DEF VirtioInv
<1> QED BY <1>1, Invariant, PTL

(* VirtioDevice::PerformOperation: whatever the driver's sizes, and        *)
(* however the device thread, the stores and the interrupts interleave,    *)
(* the device ends up with the set-up the driver wrote, and the driver     *)
(* reads the half of the features that it selected.                        *)
THEOREM SetupRight == Spec => []SetupAsWritten
<1>1. VirtioInv => SetupAsWritten
  <2> SUFFICES ASSUME VirtioInv PROVE SetupAsWritten
    OBVIOUS
  <2> USE DEF VirtioInv
  <2>1. /\ Stored \in 0 .. Total /\ Total \in {12, 15} /\ kind \in Kinds
        /\ Total = IF kind = "net" THEN 15 ELSE 12
    BY UnderWay DEF TypeOK, Total
  <2>2. ASSUME Reading PROVE offered = Head(todo).data
    <3>1. /\ box = None /\ storing = None /\ todo # << >> /\ Head(todo).reg = "read"
          /\ todo \in Seq(Messages)
      BY <2>2 DEF Reading, TypeOK
    <3>2. Head(todo) = todo[1] /\ Len(todo) \in Nat /\ Len(todo) >= 1
      BY <3>1
    <3>3. Head(todo) = Message(Stored + 1) /\ Stored + 1 \in 1 .. Total
      BY <2>1, <3>2 DEF Sequence, Stored
    <3>4. Served = Stored
      BY <3>1 DEF Served, InFlight, Posted
    <3>5. /\ Stored + 1 \in {2, 4} /\ (Stored + 1 = 2 => Head(todo).data = 0)
          /\ (Stored + 1 = 4 => Head(todo).data = 1)
      BY <2>1, <3>1, <3>3, Script
    <3> QED BY <2>1, <3>4, <3>5 DEF Registers
  <2>3. ASSUME Len(todo) <= 1, storing = None, box = None
        PROVE  /\ AckGuestFeatures = <<Feature(0), Feature(1)>>
               /\ \A q \in Live : Queues[q].num = QueueNum[q] /\ Queues[q].page = q + 1
    <3>1. Served = Stored
      BY <2>3 DEF Served, InFlight, Posted
    <3>2. Len(todo) \in Nat
      BY DEF TypeOK
    <3>3. Served \in Nat /\ Served >= Total - 1
      BY <2>1, <2>3, <3>1, <3>2 DEF Stored
    <3>4. AckGuestFeatures = <<Feature(0), Feature(1)>>
      BY <2>1, <3>3 DEF Registers
    <3>5. Queues[0].num = QueueNum[0] /\ Queues[0].page = 1
      BY <2>1, <3>3 DEF Registers
    <3>6. kind = "net" => Queues[1].num = QueueNum[1] /\ Queues[1].page = 2
      BY <2>1, <3>3 DEF Registers
    <3>7. \A q \in Live : q = 0 \/ (q = 1 /\ kind = "net")
      BY DEF Live, NumQueues
    <3> QED BY <3>4, <3>5, <3>6, <3>7
  <2> QED BY <2>2, <2>3 DEF SetupAsWritten
<1> QED BY <1>1, Invariant, PTL

(* VirtioBlk, Vhost::updateMemoryTable: for every ring, also one larger    *)
(* than the table, every table and every number of descriptors per         *)
(* request, vhost's table covers each request that was entered until       *)
(* MaxRegions descriptors have been entered from its first one on, however *)
(* often the ring has lapped the table and updates have met their limit.   *)
THEOREM BlkRequestsCovered == Spec => []BlkTakenCovered
<1>1. VirtioInv => BlkTakenCovered
  <2> SUFFICES ASSUME VirtioInv, kind = "blk", NEW k \in Taken(0), NEW j \in 1 .. Parts[0],
                      memTableIdx <= entry[k + 1] + MaxRegions
               PROVE  Part(0, k, j) \in shared
    BY DEF BlkTakenCovered, Covered
  <2> USE DEF VirtioInv
  <2>1. Ring /\ LastIdx \in Nat /\ used[0] \in Nat /\ avail[0] \in Nat
    BY Numbers DEF BlkRing
  <2>2. k \in 0 .. LastIdx - 1
    BY <2>1 DEF Taken, LastIdx
  <2>3. entry[k + 1] \in Nat /\ memTableIdx \in Nat /\ MaxRegions \in Nat /\ Parts[0] \in Nat
    <3>1. entry \in Seq(Nat) /\ k + 1 \in 1 .. Len(entry)
      BY <2>1, <2>2 DEF TypeOK, Ring
    <3>2. memTableIdx \in Nat
      BY DEF TypeOK
    <3>3. entry[k + 1] \in Nat
      BY <3>1
    <3> QED BY <3>2, <3>3, Shape
  <2>4. memTableIdx <= At(k, j) + MaxRegions
    BY <2>3 DEF At
  <2> QED BY <2>1, <2>2, <2>4 DEF Ring
<1> QED BY <1>1, Invariant, PTL

=============================================================================
