--------------------------- MODULE AlsaSinkProofs ---------------------------
(***************************************************************************)
(* The audio sink, for every size of the ring, of a frame, a period and    *)
(* the device's queue, every length a write() may offer and every fault of *)
(* the device: bytes stay in order, the tap is used by its owner's leave   *)
(* and stop() is clean.                                                    *)
(*                                                                         *)
(* The ring is FIFO because its head is where its used bytes end (FifoOK). *)
(* Beyond it the order is that of NextOut, the serial number that leaves   *)
(* the ring next: it never falls, what was taken lies below it, and what   *)
(* the device has lies below what the period still holds (OrderOK).  The   *)
(* tap needs HandshakeOK, a flush FloorOK and stop() ThreadOK.             *)
(***************************************************************************)
EXTENDS AlsaSink, TLAPS

-----------------------------------------------------------------------------
(* The inductive invariant.                                                *)

(* The history counts, and no serial number that is cut off, asked for or  *)
(* a floor is still to come out of the ring.                               *)
DoneOK ==
  /\ done \in [put : Nat, cut : Nat, asked : Nat, floor : Nat,
               starts : Nat, clears : Nat, taps : Taps]
  /\ done.asked <= done.cut
  /\ done.cut <= done.put - ring.used /\ done.floor <= done.put - ring.used

(* Where the main thread is says whether there is a playback thread and an *)
(* open device; only a device that is ready or suspended holds frames.     *)
ThreadOK ==
  /\ thread = "live" <=> play.pc # "none"
  /\ main.pc \in {"close", "setup", "running", "spawn", "destroyed"} => thread = "none"
  /\ main.pc = "setup" => pcm.state = "closed"
  /\ main.pc \in {"running", "spawn"} => pcm.state # "closed"
  /\ pcm.state \notin {"ready", "suspended"} => pcm.queue = << >>
  /\ StopIsClean

(* The handshake: tap_busy_ is up around each use of a Writer, and the one *)
(* in use is the one published, or the one that is waited for.             *)
HandshakeOK ==
  /\ flags.busy <=> play.pc \in {"load", "using", "unbusy"}
  /\ IF main.pc \in {"await", "endPrev"}
     THEN flags.tap = main.new /\ main.prev = owner
     ELSE flags.tap = owner
  /\ IF main.pc \in {"swap", "await", "endPrev"} THEN main.new # owner ELSE main.new = 0
  /\ play.pc = "using" =>
       /\ play.writer # 0
       /\ \/ play.writer = flags.tap
          \/ main.pc = "await" /\ play.writer = main.prev

(* The ring ends where it is written next.                                 *)
FifoOK == ring.head = (ring.tail + ring.used) % Cap /\ RingIsFifo

(* What the playback thread holds came out of the ring, and goes on to the *)
(* device behind what the device already has.                              *)
OrderOK ==
  /\ \A i \in DOMAIN play.buf : play.buf[i] = play.buf[1] + i - 1
  /\ play.buf # << >> =>
       /\ play.buf[1] % B = 0 /\ Len(play.buf) % B = 0
       /\ play.buf[1] + Len(play.buf) <= done.put - ring.used
  /\ play.pc \in {"none", "flush", "dropQueue", "prepare", "read", "asleep"} => play.buf = << >>
  /\ play.pc \in {"hint", "load", "using"} => play.then = "begin" \/ play.buf # << >>
  /\ \A i, j \in DOMAIN pcm.queue : i < j => pcm.queue[i] < pcm.queue[j]
  /\ \A i \in DOMAIN pcm.queue : pcm.queue[i] < done.put - ring.used
  /\ play.pc \in {"write", "writei", "failed", "recover"} =>
       /\ play.buf # << >> /\ play.offset <= Frames
       /\ \A i \in DOMAIN pcm.queue : pcm.queue[i] < play.buf[1] + play.offset * B

(* A flush that was taken is carried out before anything else is played.   *)
FloorOK ==
  /\ \A i \in DOMAIN play.buf : play.buf[i] >= done.floor
  /\ play.pc # "dropQueue" => \A i \in DOMAIN pcm.queue : pcm.queue[i] >= done.floor

(* A Writer is in no stream that is still to come.                         *)
StreamOK ==
  /\ \A t \in DOMAIN taps : taps[t].stream <= play.stream
  /\ TapStreamIsFresh

IInv == TypeOK /\ DoneOK /\ ThreadOK /\ HandshakeOK /\ FifoOK /\ OrderOK /\ FloorOK /\ StreamOK

-----------------------------------------------------------------------------
(* Remainders.  Whatever divides by a constant the prover needs told.      *)

LEMMA ModUnique ==
  ASSUME NEW m \in Nat \ {0}, NEW x \in Int, NEW q \in Int, NEW r \in 0 .. m - 1, x = m * q + r
  PROVE  x % m = r
<1>. DEFINE p == x \div m
            s == x % m
<1>1. x = m * p + s /\ p \in Int /\ s \in 0 .. m - 1
  OBVIOUS
<1>. HIDE DEF p, s
<1>2. m * (p - q) = r - s
  <2>1. m * (p - q) = m * p - m * q
    BY <1>1
  <2>. QED BY <1>1, <2>1
<1>3. ASSUME NEW d \in Int, d > 0 PROVE m * d >= m
  BY <1>3
<1>4. CASE p - q > 0
  BY <1>1, <1>2, <1>3, <1>4
<1>5. CASE q - p > 0
  <2>1. m * (q - p) = s - r
    BY <1>1, <1>2
  <2>. QED BY <1>1, <1>3, <1>5, <2>1
<1>6. CASE p = q
  BY <1>1, <1>2, <1>6
<1>7. s = r
  BY <1>1, <1>4, <1>5, <1>6
<1>. QED BY <1>7 DEF s

LEMMA ModRange ==
  ASSUME NEW m \in Nat \ {0}, NEW x \in Int
  PROVE  x % m \in 0 .. m - 1
OBVIOUS

LEMMA ModForm ==
  ASSUME NEW m \in Nat \ {0}, NEW x \in Int
  PROVE  \E q \in Int : \E r \in 0 .. m - 1 : x = m * q + r /\ x % m = r
<1>1. x = m * (x \div m) + (x % m) /\ x \div m \in Int /\ x % m \in 0 .. m - 1
  OBVIOUS
<1>. QED BY <1>1

LEMMA ModTimes ==
  ASSUME NEW m \in Nat \ {0}, NEW p \in Int, NEW q \in Int
  PROVE  m * (p + q) = m * p + m * q
OBVIOUS

(* A multiple more or less.                                                *)
LEMMA ModShift ==
  ASSUME NEW m \in Nat \ {0}, NEW x \in Int, NEW q \in Int
  PROVE  (x + m * q) % m = x % m
<1>1. PICK p \in Int : \E r \in 0 .. m - 1 : x = m * p + r /\ x % m = r
  BY ModForm
<1>2. PICK r \in 0 .. m - 1 : x = m * p + r /\ x % m = r
  BY <1>1
<1>. DEFINE y == x + m * q
<1>3. y = m * (p + q) + r /\ y \in Int /\ p + q \in Int
  BY <1>2, ModTimes
<1>. HIDE DEF y
<1>4. y % m = r
  BY <1>3, ModUnique
<1>. QED BY <1>2, <1>4 DEF y

LEMMA ModAdd ==
  ASSUME NEW m \in Nat \ {0}, NEW a \in Int, NEW b \in Int
  PROVE  ((a % m) + b) % m = (a + b) % m
<1>1. PICK p \in Int : \E r \in 0 .. m - 1 : a = m * p + r /\ a % m = r
  BY ModForm
<1>2. PICK r \in 0 .. m - 1 : a = m * p + r /\ a % m = r
  BY <1>1
<1>. DEFINE x == r + b
<1>3. a + b = x + m * p /\ x \in Int
  BY <1>2
<1>. HIDE DEF x
<1>4. (a + b) % m = x % m
  BY <1>3, ModShift
<1>. QED BY <1>2, <1>4 DEF x

LEMMA ModSub ==
  ASSUME NEW m \in Nat \ {0}, NEW a \in Int, NEW b \in Int
  PROVE  (a - (b % m)) % m = (a - b) % m
<1>1. PICK p \in Int : \E r \in 0 .. m - 1 : b = m * p + r /\ b % m = r
  BY ModForm
<1>2. PICK r \in 0 .. m - 1 : b = m * p + r /\ b % m = r
  BY <1>1
<1>. DEFINE x == a - b
<1>3. a - r = x + m * p /\ x \in Int
  BY <1>2
<1>. HIDE DEF x
<1>4. (a - r) % m = x % m
  BY <1>3, ModShift
<1>. QED BY <1>2, <1>4 DEF x

LEMMA ModSmall ==
  ASSUME NEW m \in Nat \ {0}, NEW r \in 0 .. m - 1
  PROVE  r % m = r /\ (r - m) % m = r
<1>1. r = m * 0 + r /\ r - m = m * (0 - 1) + r
  OBVIOUS
<1>. QED BY <1>1, ModUnique

(* Whole frames.                                                           *)
LEMMA FrameSum ==
  ASSUME SizeAssumption, NEW a \in Int, NEW b \in Int, a % B = 0, b % B = 0
  PROVE  (a + b) % B = 0 /\ (a - b) % B = 0
<1>1. B \in Nat \ {0}
  BY DEF SizeAssumption
<1>. DEFINE m == B
<1>2. m \in Nat \ {0} /\ a % m = 0 /\ b % m = 0
  BY <1>1
<1>. HIDE DEF m
<1>3. (0 + b) % m = (a + b) % m
  BY <1>2, ModAdd
<1>4. (a - 0) % m = (a - b) % m
  BY <1>2, ModSub
<1>. QED BY <1>2, <1>3, <1>4 DEF m

LEMMA WholeFrames ==
  ASSUME SizeAssumption, NEW n \in Nat
  PROVE  /\ Whole(n) \in Nat /\ Whole(n) <= n /\ Whole(n) % B = 0
         /\ n >= B => Whole(n) >= B
<1>1. B \in Nat \ {0}
  BY DEF SizeAssumption
<1>. DEFINE q == n \div B
<1>2. n = B * q + (n % B) /\ q \in Int /\ n % B \in 0 .. B - 1
  BY <1>1
<1>. HIDE DEF q
<1>3. Whole(n) = B * q + 0
  BY <1>1, <1>2 DEF Whole
<1>4. Whole(n) % B = 0
  BY <1>1, <1>2, <1>3, ModUnique
<1>5. q >= 0
  <2>1. ASSUME q <= -1 PROVE B * q <= -B
    BY <1>1, <1>2, <2>1
  <2>. QED BY <1>1, <1>2, <2>1
<1>6. n >= B => q >= 1
  <2>1. q = 0 => B * q = 0
    BY <1>1
  <2>. QED BY <1>1, <1>2, <1>5, <2>1
<1>7. B * q >= 0 /\ (q >= 1 => B * q >= B)
  BY <1>1, <1>2, <1>5
<1>. QED BY <1>1, <1>2, <1>3, <1>4, <1>6, <1>7 DEF Whole

(* The frames of a period, and the byte each begins with.                  *)
LEMMA FrameCount ==
  ASSUME SizeAssumption, NEW n \in Nat
  PROVE  n \div B \in Nat
<1>1. B \in Nat \ {0}
  BY DEF SizeAssumption
<1>. QED BY <1>1

LEMMA FrameBytes ==
  ASSUME SizeAssumption, NEW n \in Nat, NEW k \in Nat, k <= n \div B
  PROVE  k * B <= n
<1>1. B \in Nat \ {0}
  BY DEF SizeAssumption
<1>2. n = B * (n \div B) + (n % B) /\ n \div B \in Int /\ n % B \in 0 .. B - 1
  BY <1>1
<1>3. n \div B >= 0
  BY <1>2
<1>4. B * k <= B * (n \div B)
  BY <1>1, <1>2
<1>. QED BY <1>1, <1>2, <1>3, <1>4

-----------------------------------------------------------------------------
(* Types.                                                                  *)

Assumptions == SizeAssumption /\ InputAssumption /\ BoundAssumption

LEMMA SizeFacts ==
  ASSUME SizeAssumption
  PROVE  /\ Cap \in Nat \ {0} /\ B \in Nat \ {0} /\ Period \in Nat \ {0} /\ HwFrames \in Nat \ {0}
         /\ 0 \in 0 .. Cap - 1 /\ 0 \in 0 .. Cap
BY DEF SizeAssumption

LEMMA Members ==
  /\ MainPcs = {"idle", "stop", "drop", "join", "close", "setup", "running", "spawn", "clearRing",
                "clearFlag", "swap", "await", "endPrev", "destroyed", "terminated"}
  /\ PlayPcs = {"none", "newStream", "hint", "load", "using", "unbusy", "loop", "flush", "dropQueue",
                "prepare", "read", "asleep", "write", "writei", "failed", "recover"}
  /\ PcmStates = {"closed", "ready", "setup", "xrun", "suspended", "gone"}
  /\ << >> \in Seq(Int) /\ Junk \in Int
BY DEF MainPcs, PlayPcs, PcmStates, Junk

LEMMA TapFacts ==
  ASSUME BoundAssumption
  PROVE  MaxTaps \in Nat /\ 0 \in Taps /\ \A n \in Taps : n < MaxTaps => n + 1 \in Taps
BY DEF BoundAssumption, Taps

LEMMA MainMembers ==
  \A pc \in {"idle", "stop", "drop", "join", "close", "setup", "running", "spawn", "clearRing",
             "clearFlag", "swap", "await", "endPrev", "destroyed", "terminated"} : pc \in MainPcs
BY DEF MainPcs

LEMMA PlayMembers ==
  \A pc \in {"none", "newStream", "hint", "load", "using", "unbusy", "loop", "flush", "dropQueue",
             "prepare", "read", "asleep", "write", "writei", "failed", "recover"} : pc \in PlayPcs
BY DEF PlayPcs

LEMMA PcmMembers ==
  \A state \in {"closed", "ready", "setup", "xrun", "suspended", "gone"} : state \in PcmStates
BY DEF PcmStates

LEMMA EmptyRingType ==
  ASSUME SizeAssumption, TypeOK
  PROVE  /\ EmptyRing \in Rings
         /\ EmptyRing.used = 0 /\ EmptyRing.head = 0 /\ EmptyRing.tail = 0 /\ EmptyRing.bytes = ring.bytes
BY SizeFacts DEF EmptyRing, TypeOK, Rings

LEMMA NoPlayType ==
  ASSUME BoundAssumption, NEW pc \in PlayPcs, NEW stream \in Nat
  PROVE  /\ [NoPlay EXCEPT !.stream = stream] \in Plays
         /\ [NoPlay EXCEPT !.pc = pc, !.stream = stream] \in Plays
<1>. QED BY TapFacts, PlayMembers, Members DEF NoPlay, Plays

LEMMA TypeMain ==
  ASSUME Assumptions, TypeOK, DoneOK, MainCall \/ MainStep
  PROVE  TypeOK'
<1>0. SizeAssumption /\ BoundAssumption
  BY DEF Assumptions
<1>. USE MainMembers, PcmMembers DEF TypeOK, At, Move, mainOnly
<1>1. CASE StreamStart BY <1>1 DEF StreamStart, Mains
<1>2. CASE StreamEnd BY <1>2 DEF StreamEnd, Mains
<1>3. CASE TapOn
  <2>1. done.taps \in Taps /\ done.taps < MaxTaps
    BY <1>3 DEF TapOn, DoneOK
  <2>2. done.taps + 1 \in Taps
    BY <1>0, <2>1, TapFacts
  <2>. QED BY <1>3, <2>2 DEF TapOn, Mains
<1>4. CASE TapOff BY <1>0, <1>4, TapFacts DEF TapOff, Mains
<1>5. CASE Shutdown BY <1>5 DEF Shutdown, Mains
<1>6. CASE StopFlag BY <1>6 DEF StopFlag, Mains, Atomics
<1>7. CASE StopDrop BY <1>7, Members DEF StopDrop, Mains, Devices
<1>8. CASE Join BY <1>8 DEF Join, Mains
<1>9. CASE Close
  <2>1. ring' \in Rings /\ pcm' \in Devices
    BY <1>0, <1>9, EmptyRingType, Members DEF Close, Devices
  <2>2. main' \in Mains
    BY <1>9 DEF Close, Mains
  <2>. QED BY <1>9, <2>1, <2>2 DEF Close
<1>10. CASE Setup
  <2>0. [state |-> "ready", queue |-> << >>] \in Devices
    BY Members DEF Devices
  <2>1. ring' \in Rings /\ pcm' \in Devices
    BY <1>0, <1>10, <2>0, EmptyRingType DEF Setup
  <2>2. main' \in Mains /\ flags' \in Atomics
    BY <1>10 DEF Setup, Mains, Atomics
  <2>. QED BY <1>10, <2>1, <2>2 DEF Setup
<1>11. CASE SetRunning BY <1>11 DEF SetRunning, Mains, Atomics
<1>12. CASE Spawn
  <2>1. main' \in Mains
    BY <1>12 DEF Spawn, Mains
  <2>2. play' \in Plays
    <3>1. play.stream \in Nat /\ "newStream" \in PlayPcs
      BY PlayMembers DEF Plays
    <3>2. ASSUME thread = "none" PROVE play' = [NoPlay EXCEPT !.pc = "newStream", !.stream = play.stream]
      BY <1>12, <3>2 DEF Spawn
    <3>3. [NoPlay EXCEPT !.pc = "newStream", !.stream = play.stream] \in Plays
      BY <1>0, <3>1, TapFacts, NoPlayType
    <3>. QED BY <1>12, <3>2, <3>3 DEF Spawn
  <2>. QED BY <1>12, <2>1, <2>2 DEF Spawn
<1>13. CASE ClearRing BY <1>0, <1>13, EmptyRingType DEF ClearRing, Mains
<1>14. CASE ClearFlag BY <1>14 DEF ClearFlag, Mains, Atomics
<1>15. CASE TapSwap BY <1>15 DEF TapSwap, Mains, Atomics
<1>16. CASE TapAwait BY <1>16 DEF TapAwait, Mains
<1>17. CASE TapEndPrev BY <1>0, <1>17, TapFacts, Members DEF TapEndPrev, Mains, Streams
<1>. QED BY <1>1, <1>2, <1>3, <1>4, <1>5, <1>6, <1>7, <1>8, <1>9, <1>10, <1>11, <1>12, <1>13, <1>14,
            <1>15, <1>16, <1>17 DEF MainCall, MainStep

(* What a write puts into the ring is of whole frames and fits.            *)
LEMMA PutFits ==
  ASSUME SizeAssumption, TypeOK, NEW whole \in Nat
  PROVE  /\ Whole(Smaller(whole, Cap - ring.used)) \in Nat
         /\ Whole(Smaller(whole, Cap - ring.used)) <= whole
         /\ Whole(Smaller(whole, Cap - ring.used)) <= Cap - ring.used
         /\ Whole(Smaller(whole, Cap - ring.used)) % B = 0
<1>. DEFINE n == Smaller(whole, Cap - ring.used)
<1>0. Cap - ring.used \in Nat
  BY SizeFacts DEF TypeOK, Rings
<1>1. n \in Nat /\ n <= whole /\ n <= Cap - ring.used
  BY <1>0 DEF Smaller
<1>. HIDE DEF n
<1>2. Whole(n) \in Nat /\ Whole(n) <= n /\ Whole(n) % B = 0
  BY <1>1, WholeFrames
<1>3. Whole(n) <= whole /\ Whole(n) <= Cap - ring.used
  BY <1>0, <1>1, <1>2
<1>. QED BY <1>2, <1>3 DEF n

LEMMA PutType ==
  ASSUME SizeAssumption, TypeOK, DoneOK, NEW chunk \in Nat, chunk <= Cap - ring.used, Put(chunk)
  PROVE  /\ ring' \in Rings
         /\ ring'.head = (ring.head + chunk) % Cap /\ ring'.tail = ring.tail /\ ring'.used = ring.used + chunk
         /\ ring'.bytes = [i \in 0 .. Cap - 1 |->
                             IF (i - ring.head) % Cap < chunk THEN done.put + ((i - ring.head) % Cap)
                             ELSE ring.bytes[i]]
         /\ done' = [done EXCEPT !.put = done.put + chunk]
<1>0. /\ Cap \in Nat \ {0} /\ ring.head \in 0 .. Cap - 1 /\ ring.tail \in 0 .. Cap - 1 /\ ring.used \in 0 .. Cap
      /\ ring.bytes \in [0 .. Cap - 1 -> Int] /\ done.put \in Nat
  BY SizeFacts DEF TypeOK, Rings, DoneOK
<1>1. (ring.head + chunk) % Cap \in 0 .. Cap - 1
  <2>1. ring.head + chunk \in Int
    BY <1>0
  <2>. QED BY <1>0, <2>1, ModRange
<1>2. \A i \in 0 .. Cap - 1 : (i - ring.head) % Cap \in 0 .. Cap - 1
  <2>1. \A i \in 0 .. Cap - 1 : i - ring.head \in Int
    BY <1>0
  <2>. QED BY <1>0, <2>1, ModRange
<1>. DEFINE new == [i \in 0 .. Cap - 1 |->
                     IF (i - ring.head) % Cap < chunk THEN done.put + ((i - ring.head) % Cap) ELSE ring.bytes[i]]
<1>3. ring' = [bytes |-> new, head |-> (ring.head + chunk) % Cap, tail |-> ring.tail, used |-> ring.used + chunk]
      /\ done' = [done EXCEPT !.put = done.put + chunk]
  BY Zenon DEF Put
<1>4. ASSUME NEW i \in 0 .. Cap - 1
      PROVE  (IF (i - ring.head) % Cap < chunk THEN done.put + ((i - ring.head) % Cap)
              ELSE ring.bytes[i]) \in Int
  <2>. DEFINE k == (i - ring.head) % Cap
  <2>0. k \in 0 .. Cap - 1
    BY Zenon, <1>2
  <2>. HIDE DEF k
  <2>1. k \in Int /\ ring.bytes[i] \in Int
    BY <1>0, <2>0
  <2>2. (IF k < chunk THEN done.put + k ELSE ring.bytes[i]) \in Int
    BY <1>0, <2>1
  <2>. QED BY <2>2 DEF k
<1>5. new \in [0 .. Cap - 1 -> Int]
  BY Zenon, <1>4
<1>. HIDE DEF new
<1>6. ring' \in Rings
  <2>1. ring.used + chunk \in 0 .. Cap
    BY <1>0
  <2>. DEFINE h == (ring.head + chunk) % Cap
  <2>2. h \in 0 .. Cap - 1
    BY <1>1
  <2>. HIDE DEF h
  <2>3. [bytes |-> new, head |-> h, tail |-> ring.tail, used |-> ring.used + chunk] \in Rings
    BY <1>0, <1>5, <2>1, <2>2 DEF Rings
  <2>. QED BY <1>3, <2>3 DEF h
<1>. QED BY <1>3, <1>6 DEF new


LEMMA NetMembers ==
  ASSUME net \in Nets, NEW left \in Nat, NEW pc \in {"idle", "fill", "wait"}
  PROVE  LET new == [net EXCEPT !.left = left, !.pc = pc] IN new \in Nets /\ new.left = left
BY DEF Nets

LEMMA OffsetMembers ==
  ASSUME play \in Plays, NEW offset \in Nat
  PROVE  [play EXCEPT !.pc = "write", !.offset = offset] \in Plays
BY PlayMembers DEF Plays

LEMMA Appended ==
  ASSUME NEW s \in Seq(Int), NEW t \in Seq(Int)
  PROVE  /\ s \o t \in Seq(Int) /\ Len(s \o t) = Len(s) + Len(t)
         /\ \A i \in 1 .. Len(s) : (s \o t)[i] = s[i]
         /\ \A i \in 1 .. Len(t) : (s \o t)[Len(s) + i] = t[i]
OBVIOUS

(* One hold of the lock in write() puts whole frames that fit.             *)
LEMMA FillEffect ==
  ASSUME SizeAssumption, TypeOK, Fill
  PROVE  \E chunk \in Nat :
           /\ chunk <= Cap - ring.used /\ chunk % B = 0 /\ chunk <= net.left
           /\ Put(chunk) /\ net'.left = net.left - chunk
           /\ net' \in Nets /\ netOnly
<1>. DEFINE whole == IF flags.running THEN Whole(net.left) ELSE 0
            chunk == Whole(Smaller(whole, Cap - ring.used))
<1>1. net.left \in Nat /\ net \in Nets
  BY DEF TypeOK, Nets
<1>2. Whole(net.left) \in Nat /\ Whole(net.left) <= net.left
  BY <1>1, WholeFrames
<1>3. whole \in Nat /\ whole <= net.left
  BY <1>1, <1>2
<1>. HIDE DEF whole
<1>4. /\ chunk \in Nat /\ chunk <= whole /\ chunk <= Cap - ring.used /\ chunk % B = 0
  BY <1>3, PutFits
<1>5. /\ Put(chunk) /\ netOnly
      /\ net' = [net EXCEPT !.left = net.left - chunk,
                            !.pc = IF whole = chunk \/ net.expired THEN "idle" ELSE "wait"]
  BY Zenon DEF Fill, whole
<1>. HIDE DEF chunk
<1>6. net' \in Nets /\ net'.left = net.left - chunk
    <2>1. net.left - chunk \in Nat
    BY <1>1, <1>3, <1>4
  <2>2. (IF whole = chunk \/ net.expired THEN "idle" ELSE "wait") \in {"idle", "fill", "wait"}
    OBVIOUS
  <2>. QED BY <1>1, <1>5, <2>1, <2>2, NetMembers
<1>7. chunk <= net.left
  BY <1>1, <1>3, <1>4
<1>. QED BY <1>4, <1>5, <1>6, <1>7

(* The playback thread takes whole frames, at least one, out of the ring.  *)
LEMMA TakeEffect ==
  ASSUME SizeAssumption, TypeOK, Take
  PROVE  \E n \in Nat :
           /\ n % B = 0 /\ n >= B /\ n <= ring.used
           /\ ring' \in Rings /\ ring'.bytes = ring.bytes /\ ring'.head = ring.head
           /\ ring'.tail = (ring.tail + n) % Cap /\ ring'.used = ring.used - n
           /\ play' \in Plays /\ play'.pc = "write" /\ play'.offset = 0 /\ play'.stream = play.stream
           /\ Len(play'.buf) = n
           /\ \A i \in 1 .. n : play'.buf[i] = ring.bytes[(ring.tail + i - 1) % Cap]
           /\ playOnly /\ UNCHANGED <<flags, pcm, thread, taps, done>>
<1>. DEFINE most == Smaller(ring.used, Period * B)
            n == Whole(most)
<1>1. /\ Cap \in Nat \ {0} /\ B \in Nat \ {0} /\ Period \in Nat \ {0} /\ ring \in Rings /\ play \in Plays
      /\ ring.used \in 0 .. Cap /\ ring.tail \in 0 .. Cap - 1 /\ ring.bytes \in [0 .. Cap - 1 -> Int]
  BY SizeFacts DEF TypeOK, Rings
<1>2. ring.used >= B
  BY DEF Take
<1>3. Period * B \in Nat /\ Period * B >= B
  <2>1. Period * B = B * (Period - 1) + B /\ B * (Period - 1) \in Nat
    BY <1>1
  <2>. QED BY <1>1, <2>1
<1>4. most \in Nat /\ most >= B /\ most <= ring.used
  BY <1>1, <1>2, <1>3 DEF Smaller
<1>. HIDE DEF most
<1>5. n \in Nat /\ n % B = 0 /\ n >= B /\ n <= ring.used
  <2>1. n \in Nat /\ n <= most /\ n % B = 0 /\ n >= B
    BY <1>4, WholeFrames
  <2>. QED BY <1>1, <1>4, <2>1
<1>. DEFINE buf == [i \in 1 .. n |-> ring.bytes[(ring.tail + i - 1) % Cap]]
<1>6. /\ ring' = [ring EXCEPT !.tail = (ring.tail + n) % Cap, !.used = ring.used - n]
      /\ playOnly /\ UNCHANGED <<flags, pcm, thread, taps, done>>
      /\ \E hint \in BOOLEAN :
           play' = [play EXCEPT !.pc = "write", !.offset = 0, !.tapping = hint, !.buf = buf]
  <2>1. (IF done.taps > 0 THEN BOOLEAN ELSE {FALSE}) \subseteq BOOLEAN
    OBVIOUS
  <2>. QED BY Zenon, <2>1 DEF Take, most
<1>. HIDE DEF n
<1>7. \A i \in 1 .. n : ring.bytes[(ring.tail + i - 1) % Cap] \in Int
  <2>1. ASSUME NEW i \in 1 .. n PROVE (ring.tail + i - 1) % Cap \in 0 .. Cap - 1
    <3>1. ring.tail + i - 1 \in Int
      BY <1>1, <1>5
    <3>. QED BY <1>1, <3>1, ModRange
  <2>. QED BY Zenon, <1>1, <2>1
<1>8. buf \in Seq(Int) /\ Len(buf) = n
      /\ \A i \in 1 .. n : buf[i] = ring.bytes[(ring.tail + i - 1) % Cap]
  BY <1>5, <1>7
<1>. HIDE DEF buf
<1>9. (ring.tail + n) % Cap \in 0 .. Cap - 1
  <2>1. ring.tail + n \in Int
    BY <1>1, <1>5
  <2>. QED BY <1>1, <2>1, ModRange
<1>. DEFINE tail == (ring.tail + n) % Cap
<1>10. ring' = [ring EXCEPT !.tail = tail, !.used = ring.used - n] /\ tail \in 0 .. Cap - 1
  BY <1>6, <1>9
<1>. HIDE DEF tail
<1>11. ring' \in Rings /\ ring'.bytes = ring.bytes /\ ring'.head = ring.head
       /\ ring'.tail = tail /\ ring'.used = ring.used - n
  <2>1. ring.used - n \in 0 .. Cap
    BY <1>1, <1>5, SMTT(30)
  <2>2. ring \in Rings
    BY <1>1
  <2>. QED BY <1>10, <2>1, <2>2 DEF Rings
<1>12. play' \in Plays /\ play'.pc = "write" /\ play'.offset = 0 /\ play'.stream = play.stream
       /\ play'.buf = buf
  <2>1. PICK hint \in BOOLEAN : play' = [play EXCEPT !.pc = "write", !.offset = 0, !.tapping = hint, !.buf = buf]
    BY <1>6
  <2>2. play \in Plays /\ buf \in Seq(Int)
    BY <1>1, <1>8
  <2>. QED BY <2>1, <2>2, PlayMembers DEF Plays
<1>. QED BY <1>5, <1>6, <1>8, <1>11, <1>12 DEF tail

(* The device takes some of the frames that are left of a period: one byte *)
(* stands for each.                                                        *)
LEMMA AcceptEffect ==
  ASSUME SizeAssumption, TypeOK, WriteAccepted
  PROVE  \E k \in Nat :
           /\ k >= 1 /\ play.offset + k <= Frames
           /\ \A i \in 1 .. k : (play.offset + i - 1) * B + 1 \in 1 .. Len(play.buf)
           /\ pcm' \in Devices /\ pcm'.state = "ready"
           /\ Len(pcm'.queue) = Len(pcm.queue) + k
           /\ \A i \in 1 .. Len(pcm.queue) : pcm'.queue[i] = pcm.queue[i]
           /\ \A i \in 1 .. k :
                pcm'.queue[Len(pcm.queue) + i] = play.buf[(play.offset + i - 1) * B + 1]
           /\ play' \in Plays /\ play' = [play EXCEPT !.pc = "write", !.offset = play.offset + k]
           /\ playOnly /\ UNCHANGED <<ring, flags, thread, taps, done>>
<1>1. /\ B \in Nat \ {0} /\ HwFrames \in Nat /\ play \in Plays /\ pcm \in Devices
      /\ play.buf \in Seq(Int) /\ Len(play.buf) \in Nat /\ play.offset \in Nat
      /\ pcm.queue \in Seq(Int) /\ Len(pcm.queue) \in Nat
  BY SizeFacts DEF TypeOK, Plays, Devices
<1>2. Frames \in Nat
  BY <1>1, FrameCount DEF Frames
<1>. DEFINE More(k) == [i \in 1 .. k |-> play.buf[(play.offset + i - 1) * B + 1]]
<1>3. PICK k \in 1 .. Smaller(HwFrames - Len(pcm.queue), Frames - play.offset) :
        /\ pcm' = [pcm EXCEPT !.queue = pcm.queue \o More(k)]
        /\ play' = [play EXCEPT !.pc = "write", !.offset = play.offset + k]
  BY Zenon DEF WriteAccepted
<1>4. k \in Nat /\ k >= 1 /\ play.offset + k <= Frames
  BY <1>1, <1>2 DEF Smaller
<1>5. ASSUME NEW i \in 1 .. k
      PROVE  (play.offset + i - 1) * B + 1 \in 1 .. Len(play.buf)
  <2>. DEFINE f == play.offset + i - 1
  <2>1. f \in Nat /\ f + 1 <= Frames
    BY <1>1, <1>2, <1>4
  <2>. HIDE DEF f
  <2>2. (f + 1) * B <= Len(play.buf)
    <3>. DEFINE g == f + 1
    <3>1. g \in Nat /\ g <= Len(play.buf) \div B
      BY <2>1 DEF Frames
    <3>. HIDE DEF g
    <3>2. g * B <= Len(play.buf)
      BY <1>1, <3>1, FrameBytes
    <3>. QED BY <3>2 DEF g
  <2>3. (f + 1) * B = f * B + B /\ f * B \in Nat
    BY <1>1, <2>1
  <2>4. f * B + 1 \in 1 .. Len(play.buf)
    <3>. DEFINE x == f * B
    <3>1. x \in Nat /\ x + B <= Len(play.buf)
      BY <2>2, <2>3
    <3>. HIDE DEF x
    <3>2. x + 1 \in 1 .. Len(play.buf)
      BY <1>1, <3>1
    <3>. QED BY <3>2 DEF x
  <2>. QED BY <2>4 DEF f
<1>6. \A i \in 1 .. k : play.buf[(play.offset + i - 1) * B + 1] \in Int
  <2>1. \A j \in 1 .. Len(play.buf) : play.buf[j] \in Int
    BY <1>1
  <2>. QED BY Zenon, <1>5, <2>1
<1>7. /\ More(k) \in Seq(Int) /\ Len(More(k)) = k
      /\ \A i \in 1 .. k : More(k)[i] = play.buf[(play.offset + i - 1) * B + 1]
  BY <1>4, <1>6
<1>. HIDE DEF More
<1>8. /\ pcm.queue \o More(k) \in Seq(Int)
      /\ Len(pcm.queue \o More(k)) = Len(pcm.queue) + k
      /\ \A i \in 1 .. Len(pcm.queue) : (pcm.queue \o More(k))[i] = pcm.queue[i]
      /\ \A i \in 1 .. k : (pcm.queue \o More(k))[Len(pcm.queue) + i] = More(k)[i]
  <2>. DEFINE m == More(k)
  <2>1. m \in Seq(Int) /\ Len(m) = k
    BY <1>7
  <2>. HIDE DEF m
  <2>2. /\ pcm.queue \o m \in Seq(Int) /\ Len(pcm.queue \o m) = Len(pcm.queue) + k
        /\ \A i \in 1 .. Len(pcm.queue) : (pcm.queue \o m)[i] = pcm.queue[i]
        /\ \A i \in 1 .. k : (pcm.queue \o m)[Len(pcm.queue) + i] = m[i]
    BY <1>1, <2>1, Appended
  <2>. QED BY <2>2 DEF m
<1>9. pcm' \in Devices /\ pcm'.state = "ready" /\ pcm'.queue = pcm.queue \o More(k)
  BY <1>1, <1>3, <1>8 DEF Devices, WriteAccepted
<1>10. play' \in Plays
  <2>1. play.offset + k \in Nat
    BY <1>1, <1>4
  <2>. QED BY <1>1, <1>3, <2>1, OffsetMembers
<1>11. playOnly /\ UNCHANGED <<ring, flags, thread, taps, done>>
  BY DEF WriteAccepted
<1>12. \A i \in 1 .. k : pcm'.queue[Len(pcm.queue) + i] = play.buf[(play.offset + i - 1) * B + 1]
  BY <1>7, <1>8, <1>9
<1>. QED BY <1>3, <1>4, <1>5, <1>8, <1>9, <1>10, <1>11, <1>12

LEMMA TypeNet ==
  ASSUME Assumptions, TypeOK, DoneOK, NetCall \/ NetStep
  PROVE  TypeOK'
<1>0. SizeAssumption /\ InputAssumption
  BY DEF Assumptions
<1>1. CASE NetCall
  <2>1. PICK len \in Lengths, expired \in BOOLEAN : Write(len, expired)
    BY <1>1 DEF NetCall
  <2>2. len \in Nat
    BY <1>0 DEF InputAssumption
  <2>. QED BY <2>1, <2>2 DEF TypeOK, Write, netOnly, Nets
<1>2. CASE Fill
  <2>1. PICK chunk \in Nat : chunk <= Cap - ring.used /\ Put(chunk) /\ net' \in Nets /\ netOnly
    BY <1>0, <1>2, FillEffect
  <2>2. ring' \in Rings
    BY <1>0, <2>1, PutType
  <2>. QED BY <2>1, <2>2 DEF TypeOK, netOnly
<1>3. CASE WaitEnds
  BY <1>3 DEF TypeOK, WaitEnds, netOnly, Nets
<1>. QED BY <1>1, <1>2, <1>3 DEF NetStep

LEMMA TypePlay ==
  ASSUME Assumptions, TypeOK, OrderOK, HandshakeOK, PlayStep \/ Resume
  PROVE  TypeOK'
<1>0. SizeAssumption /\ BoundAssumption
  BY DEF Assumptions
<1>. USE PlayMembers, PcmMembers DEF TypeOK, PlayAt, Goto, playOnly
<1>1. CASE NewStream
  <2>1. play.stream + 1 \in Nat
    BY DEF Plays
  <2>2. play' \in Plays
    BY <1>1, <2>1 DEF NewStream, Plays
  <2>. QED BY <1>1, <2>2 DEF NewStream
<1>2. CASE Hint BY <1>2 DEF Hint, Plays, Atomics
<1>3. CASE LoadTap BY <1>3 DEF LoadTap, Plays, Atomics
<1>4. CASE UseTap
  <2>1. taps' \in [1 .. MaxTaps -> Streams]
    <3>1. play.then = "begin" \/ play.buf # << >>
      BY <1>4 DEF OrderOK, UseTap
    <3>2. play.stream \in Nat /\ play.buf \in Seq(Int)
      BY DEF Plays
    <3>3. play.buf # << >> => play.buf[1] \in Int
      BY <3>2
    <3>. DEFINE t == taps[play.writer]
                oldest == IF play.then = "begin" THEN Junk
                          ELSE IF t.stream = play.stream /\ t.oldest # Junk THEN t.oldest
                          ELSE play.buf[1]
    <3>4. play.writer \in 1 .. MaxTaps => oldest \in Int
      BY <3>1, <3>3, Members DEF Streams
    <3>5. taps' = [taps EXCEPT ![play.writer] = [stream |-> play.stream, oldest |-> oldest]]
      BY <1>4 DEF UseTap
    <3>. HIDE DEF oldest
    <3>. QED BY <3>2, <3>4, <3>5 DEF Streams
  <2>. QED BY <1>4, <2>1 DEF UseTap, Plays
<1>5. CASE Unbusy BY <1>0, <1>5, TapFacts DEF Unbusy, Plays, Atomics
<1>6. CASE LoopTop
  <2>1. play' \in Plays
    <3>1. CASE flags.running
      <4>1. play' = [play EXCEPT !.pc = "flush", !.buf = << >>, !.offset = 0, !.tapping = FALSE, !.err = "none"]
        BY <1>6, <3>1 DEF LoopTop
      <4>2. play \in Plays /\ << >> \in Seq(Int) /\ "none" \in {"none"} \cup PcmStates /\ "flush" \in PlayPcs
        BY Members
      <4>. HIDE DEF TypeOK
      <4>. QED BY <4>1, <4>2 DEF Plays
    <3>2. CASE ~flags.running
      <4>1. play.stream \in Nat /\ "none" \in PlayPcs
        BY DEF Plays
      <4>2. play' = [NoPlay EXCEPT !.stream = play.stream]
        BY <1>6, <3>2 DEF LoopTop
      <4>. QED BY <1>0, <4>1, <4>2, NoPlayType
    <3>. QED BY <3>1, <3>2
  <2>. QED BY <1>6, <2>1 DEF LoopTop
<1>7. CASE TakeFlush BY <1>7 DEF TakeFlush, Plays, Atomics
<1>8. CASE FlushDrop BY <1>8, Members DEF FlushDrop, Plays, Devices
<1>9. CASE FlushPrepare BY <1>9 DEF FlushPrepare, Plays, Devices
<1>10. CASE Sleep BY <1>10 DEF Sleep, Plays
<1>11. CASE WakeForNothing BY <1>11 DEF WakeForNothing, Plays
<1>12. CASE Take BY <1>0, <1>12, TakeEffect
<1>13. CASE NextWrite
  <2>1. PICK pc \in {"writei", "hint", "loop"}, then \in {"commit", play.then} :
          play' = [play EXCEPT !.then = then, !.pc = pc]
    BY <1>13 DEF NextWrite, Goto, Plays
  <2>2. pc \in PlayPcs /\ then \in {"loop", "begin", "commit"}
    BY DEF PlayPcs, Plays
  <2>3. play' \in Plays
    BY <2>1, <2>2 DEF Plays
  <2>. QED BY <1>13, <2>3 DEF NextWrite
<1>14. CASE WriteAccepted BY <1>0, <1>14, AcceptEffect
<1>15. CASE WriteFails BY <1>15 DEF WriteFails, Plays, Devices
<1>16. CASE LookAgain BY <1>16 DEF LookAgain, Plays
<1>17. CASE Recover BY <1>17, Members DEF Recover, Plays, Devices
<1>18. CASE Resume
  <2>1. PICK queue \in {pcm.queue, << >>} : pcm' = [state |-> "ready", queue |-> queue]
    BY <1>18 DEF Resume
  <2>2. pcm' \in Devices
    BY <2>1, Members DEF Devices
  <2>3. play' \in Plays
    BY <1>18 DEF Resume, Plays
  <2>. QED BY <1>18, <2>2, <2>3 DEF Resume
<1>19. CASE GiveUp BY <1>19 DEF GiveUp, Plays, Atomics
<1>. QED BY <1>1, <1>2, <1>3, <1>4, <1>5, <1>6, <1>7, <1>8, <1>9, <1>10, <1>11, <1>12, <1>13, <1>14,
            <1>15, <1>16, <1>17, <1>18, <1>19 DEF PlayStep

LEMMA TailFacts ==
  ASSUME NEW s \in Seq(Int), s # << >>
  PROVE  /\ Tail(s) \in Seq(Int) /\ Len(Tail(s)) = Len(s) - 1 /\ Len(s) \in Nat \ {0}
         /\ \A i \in 1 .. Len(s) - 1 : Tail(s)[i] = s[i + 1]
OBVIOUS

LEMMA TypeDevice ==
  ASSUME TypeOK, DevicePlays \/ DeviceSuspends \/ DeviceGone
  PROVE  TypeOK'
<1>1. pcm' \in Devices
  <2>1. CASE DevicePlays
    <3>1. pcm.queue \in Seq(Int) /\ pcm.queue # << >>
      BY <2>1 DEF TypeOK, Devices, DevicePlays
    <3>2. Tail(pcm.queue) \in Seq(Int)
      BY <3>1, TailFacts
    <3>. QED BY <2>1, <3>2, PcmMembers DEF Devices, DevicePlays
  <2>2. CASE DeviceGone
    BY <2>2, PcmMembers, Members DEF TypeOK, Devices, DeviceGone
  <2>3. CASE DeviceSuspends
    BY <2>3, PcmMembers DEF TypeOK, Devices, DeviceSuspends
  <2>. QED BY <2>1, <2>2, <2>3
<1>. QED BY <1>1 DEF TypeOK, DevicePlays, DeviceSuspends, DeviceGone, deviceOnly

LEMMA TypeStutter ==
  ASSUME TypeOK, UNCHANGED vars
  PROVE  TypeOK'
BY DEF TypeOK, vars

LEMMA TypeInit ==
  ASSUME Assumptions, Init
  PROVE  TypeOK
<1>0. SizeAssumption /\ BoundAssumption
  BY DEF Assumptions
<1>1. ring \in Rings
  BY <1>0, SizeFacts, Members DEF Init, Rings
<1>2. flags \in Atomics /\ pcm \in Devices /\ main \in Mains /\ net \in Nets
  BY <1>0, TapFacts, MainMembers, PcmMembers, Members DEF Init, Atomics, Devices, Mains, Nets
<1>3. play \in Plays
  <2>1. play = [NoPlay EXCEPT !.stream = 0]
    BY DEF Init, NoPlay
  <2>2. "none" \in PlayPcs /\ 0 \in Nat
    BY PlayMembers
  <2>. QED BY <1>0, <2>1, <2>2, NoPlayType
<1>4. taps \in [1 .. MaxTaps -> Streams]
  BY Members DEF Init, Streams
<1>5. thread \in {"none", "live", "exited"} /\ owner \in Taps
  BY <1>0, TapFacts DEF Init
<1>. QED BY <1>1, <1>2, <1>3, <1>4, <1>5 DEF TypeOK

-----------------------------------------------------------------------------
(* The ring.                                                               *)

(* The steps that touch the ring or the history.                           *)
LEMMA RingSteps ==
  ASSUME [Next]_vars
  PROVE  \/ UNCHANGED <<ring, done>>
         \/ ring' = ring /\ (StreamStart \/ StreamEnd \/ TapOn \/ ClearFlag \/ TakeFlush)
         \/ Close \/ Setup \/ ClearRing \/ Fill \/ Take
<1>. USE DEF mainOnly, netOnly, playOnly, deviceOnly
<1>1. CASE MainCall \/ MainStep
  BY <1>1 DEF MainCall, MainStep, StreamStart, StreamEnd, TapOn, TapOff, Shutdown, StopFlag, StopDrop,
              Join, SetRunning, Spawn, ClearFlag, TapSwap, TapAwait, TapEndPrev
<1>2. CASE NetCall \/ NetStep
  BY <1>2 DEF NetCall, NetStep, Write, WaitEnds
<1>3. CASE PlayStep \/ Resume
  BY <1>3 DEF PlayStep, NewStream, Hint, LoadTap, UseTap, Unbusy, LoopTop, TakeFlush, FlushDrop,
              FlushPrepare, Sleep, WakeForNothing, NextWrite, WriteAccepted, WriteFails, LookAgain,
              Recover, Resume, GiveUp
<1>4. CASE DevicePlays \/ DeviceSuspends \/ DeviceGone \/ UNCHANGED vars
  BY <1>4 DEF DevicePlays, DeviceSuspends, DeviceGone, vars
<1>. QED BY <1>1, <1>2, <1>3, <1>4 DEF Next

LEMMA DoneInv ==
  ASSUME Assumptions, TypeOK, DoneOK, [Next]_vars
  PROVE  DoneOK'
<1>0. SizeAssumption /\ BoundAssumption
  BY DEF Assumptions
<1>1. ring.used \in Nat /\ done.put \in Nat /\ done.asked \in Nat /\ done.cut \in Nat
      /\ done.floor \in Nat /\ done.put - ring.used <= done.put
  BY <1>0, SizeFacts DEF TypeOK, Rings, DoneOK
<1>2. CASE UNCHANGED <<ring, done>>
  BY <1>2 DEF DoneOK
<1>3. CASE ring' = ring /\ (StreamStart \/ StreamEnd)
  BY <1>3 DEF DoneOK, StreamStart, StreamEnd
<1>4. CASE ring' = ring /\ TapOn
  <2>1. done.taps + 1 \in Taps
    BY <1>0, <1>4, TapFacts DEF DoneOK, TapOn
  <2>. QED BY <1>4, <2>1 DEF DoneOK, TapOn
<1>5. CASE ring' = ring /\ ClearFlag
  BY <1>5 DEF DoneOK, ClearFlag
<1>6. CASE ring' = ring /\ TakeFlush
  BY <1>1, <1>6 DEF DoneOK, TakeFlush
<1>7. CASE Close
  <2>1. ring'.used = 0
    BY <1>0, <1>7, EmptyRingType DEF Close
  <2>. QED BY <1>1, <1>7, <2>1 DEF DoneOK, Close
<1>8. CASE Setup
  <2>1. ring'.used = 0
    BY <1>0, <1>8, EmptyRingType DEF Setup
  <2>. QED BY <1>1, <1>8, <2>1 DEF DoneOK, Setup
<1>9. CASE ClearRing
  <2>1. ring'.used = 0
    BY <1>0, <1>9, EmptyRingType DEF ClearRing
  <2>. QED BY <1>1, <1>9, <2>1 DEF DoneOK, ClearRing
<1>10. CASE Fill
  <2>1. PICK chunk \in Nat : chunk <= Cap - ring.used /\ Put(chunk)
    BY <1>0, <1>10, FillEffect
  <2>2. ring'.used = ring.used + chunk /\ done' = [done EXCEPT !.put = done.put + chunk]
    BY <1>0, <2>1, PutType
  <2>. QED BY <1>1, <2>2 DEF DoneOK
<1>11. CASE Take
  <2>1. PICK n \in Nat : n <= ring.used /\ ring'.used = ring.used - n /\ UNCHANGED done
    BY <1>0, <1>11, TakeEffect
  <2>. QED BY <1>1, <2>1 DEF DoneOK
<1>. QED BY <1>2, <1>3, <1>4, <1>5, <1>6, <1>7, <1>8, <1>9, <1>10, <1>11, RingSteps

LEMMA RingFacts ==
  ASSUME SizeAssumption, TypeOK, DoneOK
  PROVE  /\ Cap \in Nat \ {0} /\ B \in Nat \ {0} /\ ring.used \in 0 .. Cap /\ done.put \in Nat
         /\ ring.head \in 0 .. Cap - 1 /\ ring.tail \in 0 .. Cap - 1 /\ ring.bytes \in [0 .. Cap - 1 -> Int]
BY SizeFacts DEF TypeOK, DoneOK, Rings

(* An emptied ring is in order, whatever its bytes.                        *)
LEMMA FifoEmpty ==
  ASSUME SizeAssumption, TypeOK, DoneOK, FifoOK,
         ring'.used = 0, ring'.head = 0, ring'.tail = 0, done'.put = done.put
  PROVE  FifoOK'
<1>1. (0 + 0) % Cap = 0 /\ 0 % B = 0
  <2>1. Cap \in Nat \ {0} /\ B \in Nat \ {0} /\ 0 \in 0 .. Cap - 1 /\ 0 \in 0 .. B - 1
    BY RingFacts
  <2>2. 0 % Cap = 0 /\ 0 % B = 0
    BY <2>1, ModSmall
  <2>. QED BY <2>2
<1>2. (done.put - 0) % B = 0
  <2>. DEFINE a == done.put - ring.used
  <2>1. a \in Int /\ ring.used \in Int /\ a % B = 0 /\ ring.used % B = 0 /\ a + ring.used = done.put - 0
    BY RingFacts DEF FifoOK, RingIsFifo
  <2>. HIDE DEF a
  <2>. QED BY <2>1, FrameSum
<1>. QED BY <1>1, <1>2 DEF FifoOK, RingIsFifo

LEMMA FifoFill ==
  ASSUME SizeAssumption, TypeOK, DoneOK, FifoOK, Fill
  PROVE  FifoOK'
<1>1. PICK chunk \in Nat : chunk <= Cap - ring.used /\ chunk % B = 0 /\ Put(chunk)
  BY FillEffect
<1>. DEFINE used == ring.used
            tail == ring.tail
            put == done.put
<1>2. /\ Cap \in Nat \ {0} /\ B \in Nat \ {0} /\ used \in 0 .. Cap /\ put \in Nat /\ tail \in 0 .. Cap - 1
      /\ ring.head = (tail + used) % Cap /\ used % B = 0 /\ (put - used) % B = 0
      /\ chunk <= Cap - used
      /\ \A i \in 0 .. used - 1 : ring.bytes[(tail + i) % Cap] = put - used + i
  BY <1>1, RingFacts DEF FifoOK, RingIsFifo
<1>3. /\ ring'.head = (ring.head + chunk) % Cap /\ ring'.tail = tail /\ ring'.used = used + chunk
      /\ ring'.bytes = [i \in 0 .. Cap - 1 |->
                          IF (i - ring.head) % Cap < chunk THEN put + ((i - ring.head) % Cap) ELSE ring.bytes[i]]
      /\ done'.put = put + chunk
  <2>1. done' = [done EXCEPT !.put = done.put + chunk]
    BY <1>1, PutType
  <2>2. done'.put = put + chunk
    BY <2>1 DEF DoneOK
  <2>. QED BY <1>1, <2>2, PutType
<1>. HIDE DEF used, tail, put
<1>4. ring'.head = (ring'.tail + ring'.used) % Cap
  <2>1. (((tail + used) % Cap) + chunk) % Cap = (tail + used + chunk) % Cap
    <3>. DEFINE a == tail + used
    <3>1. a \in Int /\ chunk \in Int /\ Cap \in Nat \ {0}
      BY <1>1, <1>2
    <3>. HIDE DEF a
    <3>2. ((a % Cap) + chunk) % Cap = (a + chunk) % Cap
      BY <3>1, ModAdd
    <3>. QED BY <3>2 DEF a
  <2>2. tail + used + chunk = tail + (used + chunk)
    BY <1>2
  <2>. QED BY <1>2, <1>3, <2>1, <2>2
<1>5. ASSUME NEW i \in 0 .. used + chunk - 1
      PROVE  ring'.bytes[(tail + i) % Cap] = (put + chunk) - (used + chunk) + i
  <2>. DEFINE x == (tail + i) % Cap
              d == (x - ring.head) % Cap
  <2>1. x \in 0 .. Cap - 1
    <3>1. tail + i \in Int
      BY <1>2
    <3>. QED BY <1>2, <3>1, ModRange
  <2>2. d = (i - used) % Cap
    <3>. DEFINE a == tail + i
                b == tail + used
                c == - b
    <3>1. a \in Int /\ b \in Int /\ c \in Int /\ a + c = i - used
      BY <1>2
    <3>2. x = a % Cap /\ ring.head = b % Cap
      BY <1>2
    <3>3. x \in Int /\ Cap \in Nat \ {0} /\ d = (x - (b % Cap)) % Cap
      BY <1>2, <2>1, <3>2
    <3>4. x - b = (a % Cap) + c
      BY <2>1, <3>1, <3>2
    <3>. HIDE DEF a, b, c, x, d
    <3>7. (x - (b % Cap)) % Cap = (x - b) % Cap
      BY <3>1, <3>3, ModSub
    <3>5. d = ((a % Cap) + c) % Cap
      BY <3>3, <3>4, <3>7
    <3>6. ((a % Cap) + c) % Cap = (a + c) % Cap
      BY <3>1, <3>3, ModAdd
    <3>. QED BY <3>1, <3>5, <3>6
  <2>3. ring'.bytes[x] = IF d < chunk THEN put + d ELSE ring.bytes[x]
    BY <1>3, <2>1
  <2>. HIDE DEF d
  <2>4. CASE i >= used
    <3>. DEFINE r == i - used
    <3>1. r \in 0 .. Cap - 1 /\ r < chunk
      BY <1>1, <1>2, <2>4
    <3>. HIDE DEF r
    <3>2. d = r
      BY <1>2, <2>2, <3>1, ModSmall DEF r
    <3>. HIDE DEF x
    <3>3. ring'.bytes[x] = put + r
      BY <2>3, <3>1, <3>2
    <3>4. put + r = (put + chunk) - (used + chunk) + i
      BY <1>1, <1>2 DEF r
    <3>. QED BY <3>3, <3>4 DEF x
  <2>5. CASE i < used
    <3>. DEFINE r == i - used + Cap
    <3>1. r \in 0 .. Cap - 1 /\ r >= chunk /\ i - used = r - Cap
      BY <1>1, <1>2, <2>5
    <3>. HIDE DEF r
    <3>2. d = r
      BY <1>2, <2>2, <3>1, ModSmall
    <3>3. ring.bytes[x] = put - used + i
      <4>1. i \in 0 .. used - 1
        BY <1>2, <2>5
      <4>. QED BY <1>2, <4>1
    <3>. HIDE DEF x
    <3>4. ~(d < chunk)
      BY <1>1, <3>1, <3>2
    <3>5. ring'.bytes[x] = put - used + i
      BY <2>3, <3>3, <3>4
    <3>6. put - used + i = (put + chunk) - (used + chunk) + i
      BY <1>1, <1>2
    <3>. QED BY <3>5, <3>6 DEF x
  <2>. QED BY <1>1, <1>2, <2>4, <2>5
<1>6. ((put + chunk) - (used + chunk)) % B = 0
  <2>1. (put + chunk) - (used + chunk) = put - used
    BY <1>1, <1>2
  <2>. QED BY <1>2, <2>1
<1>7. (used + chunk) % B = 0
  <2>1. used \in Int /\ chunk \in Int /\ used % B = 0 /\ chunk % B = 0
    BY <1>1, <1>2
  <2>. QED BY <2>1, FrameSum
<1>8. RingIsFifo'
  <2>1. ring'.tail = tail /\ ring'.used = used + chunk /\ done'.put = put + chunk
    BY <1>3
  <2>2. \A i \in 0 .. ring'.used - 1 :
          ring'.bytes[(ring'.tail + i) % Cap] = done'.put - ring'.used + i
    <3>1. used \in Int /\ chunk \in Int /\ put \in Int
      BY <1>1, <1>2
    <3>. QED BY <1>5, <2>1, <3>1
  <2>3. (done'.put - ring'.used) % B = 0 /\ ring'.used % B = 0
    BY <1>6, <1>7, <2>1
  <2>. QED BY <2>2, <2>3 DEF RingIsFifo
<1>. QED BY <1>4, <1>8 DEF FifoOK

LEMMA FifoTake ==
  ASSUME SizeAssumption, TypeOK, DoneOK, FifoOK, Take
  PROVE  FifoOK'
<1>1. PICK n \in Nat :
        /\ n % B = 0 /\ n <= ring.used /\ ring'.bytes = ring.bytes /\ ring'.head = ring.head
        /\ ring'.tail = (ring.tail + n) % Cap /\ ring'.used = ring.used - n /\ UNCHANGED done
  BY TakeEffect
<1>. DEFINE used == ring.used
            tail == ring.tail
            put == done.put
            a == tail + n
<1>2. /\ Cap \in Nat \ {0} /\ B \in Nat \ {0} /\ used \in 0 .. Cap /\ put \in Nat /\ tail \in 0 .. Cap - 1
      /\ ring.head = (tail + used) % Cap /\ used % B = 0 /\ (put - used) % B = 0
      /\ \A i \in 0 .. used - 1 : ring.bytes[(tail + i) % Cap] = put - used + i
  BY RingFacts DEF FifoOK, RingIsFifo
<1>3. ring'.tail = a % Cap /\ ring'.used = used - n /\ n <= used /\ a \in Int
  BY <1>1, <1>2
<1>4. ASSUME NEW b \in Int PROVE ((a % Cap) + b) % Cap = (tail + (n + b)) % Cap
  <2>0. tail \in Int /\ n \in Int
    BY <1>2
  <2>1. a + b = tail + (n + b)
    BY ONLY <2>0, b \in Int
  <2>. HIDE DEF a, tail
  <2>2. ((a % Cap) + b) % Cap = (a + b) % Cap
    BY <1>2, <1>3, ModAdd
  <2>. QED BY <2>1, <2>2
<1>. HIDE DEF used, tail, put, a
<1>5. ring'.head = (ring'.tail + ring'.used) % Cap
  <2>1. used - n \in Int /\ n + (used - n) = used
    BY <1>1, <1>2
  <2>. QED BY <1>1, <1>2, <1>3, <1>4, <2>1
<1>6. ASSUME NEW i \in 0 .. used - n - 1
      PROVE  ring.bytes[((a % Cap) + i) % Cap] = put - (used - n) + i
  <2>1. n + i \in 0 .. used - 1 /\ i \in Int /\ put - used + (n + i) = put - (used - n) + i
    BY <1>1, <1>2, <1>3
  <2>2. ((a % Cap) + i) % Cap = (tail + (n + i)) % Cap
    BY <1>4, <2>1
  <2>. QED BY <1>2, <2>1, <2>2
<1>7. (put - (used - n)) % B = 0 /\ (used - n) % B = 0
  <2>. DEFINE b == put - used
  <2>1. b \in Int /\ put - (used - n) = b + n /\ used \in Int /\ n \in Int
    BY <1>1, <1>2
  <2>2. b % B = 0 /\ used % B = 0 /\ n % B = 0
    BY <1>1, <1>2
  <2>. HIDE DEF b
  <2>3. (b + n) % B = 0
    BY <2>1, <2>2, FrameSum
  <2>4. (used - n) % B = 0
    BY <2>1, <2>2, FrameSum
  <2>. QED BY <2>1, <2>3, <2>4
<1>. QED BY <1>1, <1>3, <1>5, <1>6, <1>7 DEF FifoOK, RingIsFifo, used, put

LEMMA FifoInv ==
  ASSUME Assumptions, TypeOK, DoneOK, FifoOK, [Next]_vars
  PROVE  FifoOK'
<1>0. SizeAssumption
  BY DEF Assumptions
<1>1. CASE ring' = ring /\ done'.put = done.put
  BY <1>1 DEF FifoOK, RingIsFifo
<1>2. CASE UNCHANGED <<ring, done>>
  BY <1>1, <1>2
<1>3. CASE ring' = ring /\ (StreamStart \/ StreamEnd \/ TapOn \/ ClearFlag \/ TakeFlush)
  <2>1. done'.put = done.put
    BY <1>3 DEF DoneOK, StreamStart, StreamEnd, TapOn, ClearFlag, TakeFlush
  <2>. QED BY <1>1, <1>3, <2>1
<1>4. CASE Close \/ Setup \/ ClearRing
  <2>1. ring' = EmptyRing /\ done'.put = done.put
    BY <1>4 DEF DoneOK, Close, Setup, ClearRing, mainOnly
  <2>2. ring'.used = 0 /\ ring'.head = 0 /\ ring'.tail = 0
    BY <1>0, <2>1, EmptyRingType
  <2>. QED BY <1>0, <2>1, <2>2, FifoEmpty
<1>5. CASE Fill BY <1>0, <1>5, FifoFill
<1>6. CASE Take BY <1>0, <1>6, FifoTake
<1>. QED BY <1>2, <1>3, <1>4, <1>5, <1>6, RingSteps

-----------------------------------------------------------------------------
(* The playback thread and its device.                                     *)

LEMMA ThreadMain ==
  ASSUME TypeOK, ThreadOK, MainCall \/ MainStep
  PROVE  ThreadOK'
<1>. USE DEF ThreadOK, StopIsClean, NeverTerminates, PcmOutlivesThread, At, Move, mainOnly
<1>0. main \in Mains /\ pcm \in Devices /\ play \in Plays /\ thread \in {"none", "live", "exited"}
  BY DEF TypeOK
<1>1. CASE StreamStart BY <1>0, <1>1 DEF StreamStart, Mains
<1>2. CASE StreamEnd BY <1>0, <1>2 DEF StreamEnd, Mains
<1>3. CASE TapOn BY <1>0, <1>3 DEF TapOn, Mains
<1>4. CASE TapOff BY <1>0, <1>4 DEF TapOff, Mains
<1>5. CASE Shutdown BY <1>0, <1>5 DEF Shutdown, Mains
<1>6. CASE StopFlag BY <1>0, <1>6 DEF StopFlag, Mains
<1>7. CASE StopDrop BY <1>0, <1>7 DEF StopDrop, Mains, Devices
<1>8. CASE Join BY <1>0, <1>8 DEF Join, Mains
<1>9. CASE Close BY <1>0, <1>9 DEF Close, Mains, Devices
<1>10. CASE Setup BY <1>0, <1>10 DEF Setup, Mains, Devices
<1>11. CASE SetRunning BY <1>0, <1>11 DEF SetRunning, Mains
<1>12. CASE Spawn
  <2>1. thread = "none"
    BY <1>12 DEF Spawn
  <2>2. play'.pc = "newStream" /\ thread' = "live" /\ main'.pc = "idle" /\ pcm' = pcm
    BY <1>0, <1>12, <2>1 DEF Spawn, NoPlay, Mains
  <2>. QED BY <1>12, <2>2 DEF Spawn
<1>13. CASE ClearRing BY <1>0, <1>13 DEF ClearRing, Mains
<1>14. CASE ClearFlag BY <1>0, <1>14 DEF ClearFlag, Mains
<1>15. CASE TapSwap BY <1>0, <1>15 DEF TapSwap, Mains
<1>16. CASE TapAwait BY <1>0, <1>16 DEF TapAwait, Mains
<1>17. CASE TapEndPrev BY <1>0, <1>17 DEF TapEndPrev, Mains
<1>. QED BY <1>1, <1>2, <1>3, <1>4, <1>5, <1>6, <1>7, <1>8, <1>9, <1>10, <1>11, <1>12, <1>13, <1>14,
            <1>15, <1>16, <1>17 DEF MainCall, MainStep

(* A running playback thread stays where there is one.                     *)
LEMMA PlayStays ==
  ASSUME SizeAssumption, TypeOK, PlayStep \/ Resume, ~LoopTop
  PROVE  play.pc # "none" /\ play'.pc # "none" /\ thread' = thread /\ playOnly
<1>. USE DEF PlayAt, Goto, playOnly
<1>0. play \in Plays
  BY DEF TypeOK
<1>1. CASE NewStream BY <1>0, <1>1 DEF NewStream, Plays
<1>2. CASE Hint BY <1>0, <1>2 DEF Hint, Plays
<1>3. CASE LoadTap BY <1>0, <1>3 DEF LoadTap, Plays
<1>4. CASE UseTap BY <1>0, <1>4 DEF UseTap, Plays
<1>5. CASE Unbusy BY <1>0, <1>5 DEF Unbusy, Plays
<1>7. CASE TakeFlush BY <1>0, <1>7 DEF TakeFlush, Plays
<1>8. CASE FlushDrop BY <1>0, <1>8 DEF FlushDrop, Plays
<1>9. CASE FlushPrepare BY <1>0, <1>9 DEF FlushPrepare, Plays
<1>10. CASE Sleep BY <1>0, <1>10 DEF Sleep, Plays
<1>11. CASE WakeForNothing BY <1>0, <1>11 DEF WakeForNothing, Plays
<1>12. CASE Take
  <2>1. play'.pc = "write" /\ playOnly /\ UNCHANGED thread
    BY <1>12, TakeEffect
  <2>. QED BY <1>12, <2>1 DEF Take
<1>13. CASE NextWrite BY <1>0, <1>13 DEF NextWrite, Plays
<1>14. CASE WriteAccepted BY <1>0, <1>14 DEF WriteAccepted, Plays
<1>15. CASE WriteFails BY <1>0, <1>15 DEF WriteFails, Plays
<1>16. CASE LookAgain BY <1>0, <1>16 DEF LookAgain, Plays
<1>17. CASE Recover BY <1>0, <1>17 DEF Recover, Plays
<1>18. CASE Resume BY <1>0, <1>18 DEF Resume, Plays
<1>19. CASE GiveUp BY <1>0, <1>19 DEF GiveUp, Plays
<1>. QED BY <1>1, <1>2, <1>3, <1>4, <1>5, <1>7, <1>8, <1>9, <1>10, <1>11, <1>12, <1>13, <1>14,
            <1>15, <1>16, <1>17, <1>18, <1>19 DEF PlayStep

LEMMA PlayFrame ==
  ASSUME PlayStep \/ Resume
  PROVE  /\ playOnly
         /\ pcm' = pcm \/ FlushDrop \/ FlushPrepare \/ WriteAccepted \/ Recover \/ Resume
         /\ flags' = flags \/ Hint \/ Unbusy \/ TakeFlush \/ GiveUp
         /\ taps' = taps \/ UseTap
         /\ done' = done \/ TakeFlush
         /\ ring' = ring \/ Take
         /\ thread' = thread \/ LoopTop
BY DEF PlayStep, NewStream, Hint, LoadTap, UseTap, Unbusy, LoopTop, TakeFlush, FlushDrop, FlushPrepare,
       Sleep, WakeForNothing, Take, NextWrite, WriteAccepted, WriteFails, LookAgain, Recover, Resume, GiveUp

LEMMA EmptySequence ==
  ASSUME NEW s \in Seq(Int), Len(s) = 0
  PROVE  s = << >>
OBVIOUS

LEMMA ThreadInv ==
  ASSUME Assumptions, TypeOK, ThreadOK, [Next]_vars
  PROVE  ThreadOK'
<1>0. SizeAssumption
  BY DEF Assumptions
<1>1. CASE MainCall \/ MainStep BY <1>1, ThreadMain
<1>2. CASE LoopTop
  <2>1. play.pc = "loop" /\ main' = main /\ pcm' = pcm
    BY <1>2 DEF LoopTop, PlayAt, playOnly
  <2>2. CASE flags.running
    <3>1. play'.pc = "flush" /\ thread' = thread
      BY <1>2, <2>2 DEF LoopTop, TypeOK, Plays
    <3>. QED BY <2>1, <3>1 DEF ThreadOK, StopIsClean, NeverTerminates, PcmOutlivesThread
  <2>3. CASE ~flags.running
    <3>1. play'.pc = "none" /\ thread' = "exited"
      BY <1>2, <2>3 DEF LoopTop, NoPlay
    <3>. QED BY <2>1, <3>1 DEF ThreadOK, StopIsClean, NeverTerminates, PcmOutlivesThread
  <2>. QED BY <2>2, <2>3
<1>3. CASE (PlayStep \/ Resume) /\ ~LoopTop
  <2>1. play.pc # "none" /\ play'.pc # "none" /\ thread' = thread /\ main' = main
    BY <1>0, <1>3, PlayStays DEF playOnly
  <2>2. /\ pcm'.state \notin {"ready", "suspended"} => pcm'.queue = << >>
        /\ pcm.state # "closed" => pcm'.state # "closed"
    <3>0. pcm \in Devices /\ (pcm.state \notin {"ready", "suspended"} => pcm.queue = << >>)
      BY DEF TypeOK, ThreadOK
    <3>1. CASE WriteAccepted
      BY <1>0, <3>1, AcceptEffect
    <3>2. CASE FlushDrop
      BY <3>0, <3>2 DEF FlushDrop, Devices
    <3>3. CASE FlushPrepare
      BY <3>0, <3>3 DEF FlushPrepare, Devices
    <3>4. CASE Recover
      BY <3>0, <3>4 DEF Recover, Devices
    <3>5. CASE Resume
      BY <3>0, <3>5 DEF Resume, Devices
    <3>6. CASE pcm' = pcm
      BY <3>0, <3>6
    <3>. QED BY <1>3, <3>1, <3>2, <3>3, <3>4, <3>5, <3>6, PlayFrame
  <2>. QED BY <2>1, <2>2 DEF ThreadOK, StopIsClean, NeverTerminates, PcmOutlivesThread
<1>4. CASE NetCall \/ NetStep
  <2>1. UNCHANGED <<pcm, main, play, thread>>
    BY <1>4 DEF NetCall, NetStep, Write, Fill, WaitEnds, netOnly
  <2>. QED BY <2>1 DEF ThreadOK, StopIsClean, NeverTerminates, PcmOutlivesThread
<1>5. CASE DevicePlays \/ DeviceSuspends \/ DeviceGone
  <2>1. UNCHANGED <<main, play, thread>>
    BY <1>5 DEF DevicePlays, DeviceSuspends, DeviceGone, deviceOnly
  <2>2. /\ pcm'.state \notin {"ready", "suspended"} => pcm'.queue = << >>
        /\ pcm.state # "closed" /\ pcm'.state # "closed"
    <3>1. CASE DevicePlays
      <4>1. pcm.queue \in Seq(Int) /\ pcm.queue # << >>
        BY <3>1 DEF DevicePlays, TypeOK, Devices
      <4>2. Len(pcm.queue) = 1 => Tail(pcm.queue) = << >>
        <5>. DEFINE rest == Tail(pcm.queue)
        <5>1. rest \in Seq(Int) /\ Len(rest) = Len(pcm.queue) - 1
          BY <4>1, TailFacts
        <5>. HIDE DEF rest
        <5>2. Len(pcm.queue) = 1 => rest = << >>
          BY <5>1, EmptySequence
        <5>. QED BY <5>2 DEF rest
      <4>. QED BY <3>1, <4>2 DEF DevicePlays
    <3>2. CASE DeviceGone
      BY <3>2 DEF DeviceGone
    <3>3. CASE DeviceSuspends
      BY <3>3 DEF DeviceSuspends, TypeOK, Devices
    <3>. QED BY <1>5, <3>1, <3>2, <3>3
  <2>. QED BY <2>1, <2>2 DEF ThreadOK, StopIsClean, NeverTerminates, PcmOutlivesThread
<1>6. CASE UNCHANGED vars
  BY <1>6 DEF vars, ThreadOK, StopIsClean, NeverTerminates, PcmOutlivesThread
<1>. QED BY <1>1, <1>2, <1>3, <1>4, <1>5, <1>6 DEF Next, PlayStep

-----------------------------------------------------------------------------
(* The handshake on the tap.                                               *)

LEMMA HandshakeMain ==
  ASSUME Assumptions, TypeOK, DoneOK, ThreadOK, HandshakeOK, MainCall \/ MainStep
  PROVE  HandshakeOK'
<1>. USE DEF HandshakeOK, At, Move, mainOnly
<1>0. main \in Mains /\ flags \in Atomics /\ owner \in Taps /\ done.taps \in Taps
  BY DEF TypeOK, DoneOK
<1>1. CASE StreamStart BY <1>0, <1>1 DEF StreamStart, Mains
<1>2. CASE StreamEnd BY <1>0, <1>2 DEF StreamEnd, Mains
<1>3. CASE TapOn
  <2>1. done.taps + 1 # owner
    BY <1>0, <1>3 DEF TapOn, Taps
  <2>. QED BY <1>0, <1>3, <2>1 DEF TapOn, Mains
<1>4. CASE TapOff BY <1>0, <1>4 DEF TapOff, Mains
<1>5. CASE Shutdown BY <1>0, <1>5 DEF Shutdown, Mains
<1>6. CASE StopFlag BY <1>0, <1>6 DEF StopFlag, Mains, Atomics
<1>7. CASE StopDrop BY <1>0, <1>7 DEF StopDrop, Mains
<1>8. CASE Join BY <1>0, <1>8 DEF Join, Mains
<1>9. CASE Close BY <1>0, <1>9 DEF Close, Mains
<1>10. CASE Setup BY <1>0, <1>10 DEF Setup, Mains, Atomics
<1>11. CASE SetRunning BY <1>0, <1>11 DEF SetRunning, Mains, Atomics
<1>12. CASE Spawn
  <2>1. thread = "none" /\ play.pc = "none"
    BY <1>12 DEF Spawn, ThreadOK
  <2>2. play'.pc = "newStream"
    BY <1>12, <2>1 DEF Spawn, NoPlay
  <2>3. main'.pc = "idle" /\ main'.new = main.new
    BY <1>0, <1>12, <2>1 DEF Spawn, Mains
  <2>. QED BY <1>12, <2>1, <2>2, <2>3 DEF Spawn
<1>13. CASE ClearRing BY <1>0, <1>13 DEF ClearRing, Mains
<1>14. CASE ClearFlag BY <1>0, <1>14 DEF ClearFlag, Mains, Atomics
<1>15. CASE TapSwap BY <1>0, <1>15 DEF TapSwap, Mains, Atomics
<1>16. CASE TapAwait BY <1>0, <1>16 DEF TapAwait, Mains
<1>17. CASE TapEndPrev BY <1>0, <1>17 DEF TapEndPrev, Mains
<1>. QED BY <1>1, <1>2, <1>3, <1>4, <1>5, <1>6, <1>7, <1>8, <1>9, <1>10, <1>11, <1>12, <1>13, <1>14,
            <1>15, <1>16, <1>17 DEF MainCall, MainStep

LEMMA HandshakePlay ==
  ASSUME SizeAssumption, TypeOK, HandshakeOK, PlayStep \/ Resume
  PROVE  HandshakeOK'
<1>. USE DEF HandshakeOK, PlayAt, Goto, playOnly
<1>0. play \in Plays /\ flags \in Atomics
  BY DEF TypeOK
<1>1. CASE NewStream BY <1>0, <1>1 DEF NewStream, Plays
<1>2. CASE Hint BY <1>0, <1>2 DEF Hint, Plays, Atomics
<1>3. CASE LoadTap BY <1>0, <1>3 DEF LoadTap, Plays
<1>4. CASE UseTap BY <1>0, <1>4 DEF UseTap, Plays
<1>5. CASE Unbusy BY <1>0, <1>5 DEF Unbusy, Plays, Atomics
<1>6. CASE LoopTop
  <2>1. play'.pc \in {"flush", "none"} /\ play.pc = "loop"
    BY <1>0, <1>6 DEF LoopTop, Plays, NoPlay
  <2>. QED BY <1>6, <2>1 DEF LoopTop
<1>7. CASE TakeFlush BY <1>0, <1>7 DEF TakeFlush, Plays, Atomics
<1>8. CASE FlushDrop BY <1>0, <1>8 DEF FlushDrop, Plays
<1>9. CASE FlushPrepare BY <1>0, <1>9 DEF FlushPrepare, Plays
<1>10. CASE Sleep BY <1>0, <1>10 DEF Sleep, Plays
<1>11. CASE WakeForNothing BY <1>0, <1>11 DEF WakeForNothing, Plays
<1>12. CASE Take
  <2>1. play'.pc = "write" /\ UNCHANGED <<flags, main, owner>> /\ play.pc \in {"read", "asleep"}
    BY <1>12, TakeEffect DEF Take
  <2>. QED BY <2>1
<1>13. CASE NextWrite BY <1>0, <1>13 DEF NextWrite, Plays
<1>14. CASE WriteAccepted
  <2>1. play'.pc = "write" /\ UNCHANGED <<flags, main, owner>> /\ play.pc = "writei"
    BY <1>0, <1>14 DEF WriteAccepted, Plays
  <2>. QED BY <2>1
<1>15. CASE WriteFails BY <1>0, <1>15 DEF WriteFails, Plays
<1>16. CASE LookAgain BY <1>0, <1>16 DEF LookAgain, Plays
<1>17. CASE Recover BY <1>0, <1>17 DEF Recover, Plays
<1>18. CASE Resume BY <1>0, <1>18 DEF Resume, Plays
<1>19. CASE GiveUp BY <1>0, <1>19 DEF GiveUp, Plays, Atomics
<1>. QED BY <1>1, <1>2, <1>3, <1>4, <1>5, <1>6, <1>7, <1>8, <1>9, <1>10, <1>11, <1>12, <1>13, <1>14,
            <1>15, <1>16, <1>17, <1>18, <1>19 DEF PlayStep

LEMMA HandshakeInv ==
  ASSUME Assumptions, TypeOK, DoneOK, ThreadOK, HandshakeOK, [Next]_vars
  PROVE  HandshakeOK'
<1>1. CASE MainCall \/ MainStep BY <1>1, HandshakeMain
<1>2. CASE PlayStep \/ Resume BY <1>2, HandshakePlay DEF Assumptions
<1>3. CASE NetCall \/ NetStep \/ DevicePlays \/ DeviceSuspends \/ DeviceGone \/ UNCHANGED vars
  <2>1. UNCHANGED <<flags, main, play, owner>>
    BY <1>3 DEF NetCall, NetStep, Write, Fill, WaitEnds, netOnly,
         DevicePlays, DeviceSuspends, DeviceGone, deviceOnly, vars
  <2>. QED BY <2>1 DEF HandshakeOK
<1>. QED BY <1>1, <1>2, <1>3 DEF Next

-----------------------------------------------------------------------------
(* The order of the bytes beyond the ring.                                 *)

NextOut == done.put - ring.used   \* the serial number that leaves the ring next

LEMMA NextOutGrows ==
  ASSUME Assumptions, TypeOK, DoneOK, [Next]_vars
  PROVE  NextOut \in Nat /\ NextOut' \in Nat /\ NextOut <= NextOut'
<1>0. SizeAssumption
  BY DEF Assumptions
<1>1. /\ done.put \in Nat /\ ring.used \in Nat
      /\ done.cut \in Nat /\ done.cut <= done.put - ring.used
  BY <1>0, RingFacts DEF DoneOK
<1>2. NextOut \in Nat
  BY <1>1 DEF NextOut
<1>3. NextOut' \in Nat /\ NextOut <= NextOut'
  <2>1. CASE ring' = ring /\ done'.put = done.put
    BY <1>2, <2>1 DEF NextOut
  <2>2. CASE ring' = ring /\ (StreamStart \/ StreamEnd \/ TapOn \/ ClearFlag \/ TakeFlush)
    BY <2>1, <2>2 DEF DoneOK, StreamStart, StreamEnd, TapOn, ClearFlag, TakeFlush
  <2>3. CASE Close \/ Setup \/ ClearRing
    <3>1. ring' = EmptyRing /\ done'.put = done.put
      BY <2>3 DEF DoneOK, Close, Setup, ClearRing, mainOnly
    <3>2. ring'.used = 0
      BY <1>0, <3>1, EmptyRingType
    <3>. QED BY <1>1, <3>1, <3>2 DEF NextOut
  <2>4. CASE Fill
    <3>1. PICK chunk \in Nat : chunk <= Cap - ring.used /\ Put(chunk)
      BY <1>0, <2>4, FillEffect
    <3>2. ring'.used = ring.used + chunk /\ done' = [done EXCEPT !.put = done.put + chunk]
      BY <1>0, <3>1, PutType
    <3>3. done'.put = done.put + chunk
      BY <3>2 DEF DoneOK
    <3>. QED BY <1>1, <3>2, <3>3 DEF NextOut
  <2>5. CASE Take
    <3>1. PICK n \in Nat : n <= ring.used /\ ring'.used = ring.used - n /\ UNCHANGED done
      BY <1>0, <2>5, TakeEffect
    <3>. QED BY <1>1, <3>1 DEF NextOut
  <2>. QED BY <2>1, <2>2, <2>3, <2>4, <2>5, RingSteps
<1>. QED BY <1>2, <1>3

(* A step that leaves the period alone, and the queue or all of it.        *)
LEMMA OrderFrame ==
  ASSUME TypeOK, OrderOK, NextOut \in Nat, NextOut' \in Nat, NextOut <= NextOut',
         play'.buf = play.buf, play'.offset = play.offset,
         pcm'.queue = pcm.queue \/ pcm'.queue = << >>,
         play'.pc \in {"none", "flush", "dropQueue", "prepare", "read", "asleep"} => play.buf = << >>,
         play'.pc \in {"hint", "load", "using"} => play'.then = "begin" \/ play.buf # << >>,
         play'.pc \in {"write", "writei", "failed", "recover"} =>
           play.pc \in {"write", "writei", "failed", "recover"}
  PROVE  OrderOK'
<1>1. /\ play.buf \in Seq(Int) /\ pcm.queue \in Seq(Int) /\ Len(play.buf) \in Nat
      /\ play.buf # << >> => play.buf[1] \in Int
      /\ \A i \in DOMAIN pcm.queue : pcm.queue[i] \in Int
  BY DEF TypeOK, Plays, Devices
<1>2. play.buf # << >> => play.buf[1] + Len(play.buf) <= NextOut'
  BY <1>1 DEF OrderOK, NextOut
<1>3. \A i \in DOMAIN pcm'.queue :
        /\ pcm'.queue[i] = pcm.queue[i] /\ i \in DOMAIN pcm.queue /\ pcm'.queue[i] < NextOut'
  <2>1. CASE pcm'.queue = pcm.queue
    BY <1>1, <2>1 DEF OrderOK, NextOut
  <2>2. CASE pcm'.queue = << >>
    BY <2>2
  <2>. QED BY <2>1, <2>2
<1>4. \A i, j \in DOMAIN pcm'.queue : i < j => pcm'.queue[i] < pcm'.queue[j]
  BY <1>3 DEF OrderOK
<1>5. Frames' = Frames
  BY DEF Frames
<1>6. play'.pc \in {"write", "writei", "failed", "recover"} =>
        /\ play'.buf # << >> /\ play'.offset <= Frames'
        /\ \A i \in DOMAIN pcm'.queue : pcm'.queue[i] < play'.buf[1] + play'.offset * B
  BY <1>3, <1>5 DEF OrderOK
<1>. QED BY <1>2, <1>3, <1>4, <1>6 DEF OrderOK, NextOut

(* A step after which the playback thread holds nothing.                   *)
LEMMA OrderEmpty ==
  ASSUME TypeOK, OrderOK, NextOut \in Nat, NextOut' \in Nat, NextOut <= NextOut',
         play'.buf = << >>, play'.pc \in {"none", "newStream", "flush"}, pcm'.queue = pcm.queue
  PROVE  OrderOK'
<1>1. \A i \in DOMAIN pcm.queue : pcm.queue[i] \in Int /\ pcm.queue[i] < NextOut
  BY DEF TypeOK, Devices, OrderOK, NextOut
<1>2. \A i \in DOMAIN pcm'.queue : pcm'.queue[i] < NextOut'
  BY <1>1
<1>3. \A i, j \in DOMAIN pcm'.queue : i < j => pcm'.queue[i] < pcm'.queue[j]
  BY DEF OrderOK
<1>4. play'.pc \notin {"hint", "load", "using", "write", "writei", "failed", "recover"}
  OBVIOUS
<1>5. \A i \in DOMAIN play'.buf : play'.buf[i] = play'.buf[1] + i - 1
  OBVIOUS
<1>. QED BY <1>2, <1>3, <1>4, <1>5 DEF OrderOK, NextOut

LEMMA OrderMain ==
  ASSUME Assumptions, TypeOK, DoneOK, ThreadOK, OrderOK, MainCall \/ MainStep
  PROVE  OrderOK'
<1>0. NextOut \in Nat /\ NextOut' \in Nat /\ NextOut <= NextOut'
  BY NextOutGrows DEF Next
<1>1. CASE Spawn
  <2>1. thread = "none"
    BY <1>1 DEF Spawn, ThreadOK, At
  <2>2. play'.buf = << >> /\ play'.pc = "newStream" /\ pcm' = pcm
    BY <1>1, <2>1 DEF Spawn, NoPlay
  <2>. QED BY <1>0, <2>2, OrderEmpty
<1>2. CASE ~Spawn
  <2>1. play' = play /\ (pcm'.queue = pcm.queue \/ pcm'.queue = << >>)
    BY <1>2 DEF MainCall, MainStep, StreamStart, StreamEnd, TapOn, TapOff, Shutdown, StopFlag, StopDrop,
                Join, Close, Setup, SetRunning, ClearRing, ClearFlag, TapSwap, TapAwait, TapEndPrev, mainOnly
  <2>2. /\ play.pc \in {"none", "flush", "dropQueue", "prepare", "read", "asleep"} => play.buf = << >>
        /\ play.pc \in {"hint", "load", "using"} => play.then = "begin" \/ play.buf # << >>
    BY DEF OrderOK
  <2>. QED BY <1>0, <2>1, <2>2, OrderFrame
<1>. QED BY <1>1, <1>2

(* The steps of the playback thread that move no byte.                     *)
LEMMA OrderQuiet ==
  ASSUME Assumptions, TypeOK, DoneOK, ThreadOK, OrderOK, PlayStep \/ Resume, ~Take, ~WriteAccepted, ~LoopTop
  PROVE  OrderOK'
<1>0. NextOut \in Nat /\ NextOut' \in Nat /\ NextOut <= NextOut'
  BY NextOutGrows DEF Next
<1>1. pcm'.queue = pcm.queue \/ pcm'.queue = << >>
  <2>1. pcm \in Devices
    BY DEF TypeOK
  <2>. QED BY <2>1, PlayFrame DEF FlushDrop, FlushPrepare, Recover, Resume, Devices
<1>2. /\ play'.buf = play.buf /\ play'.offset = play.offset
      /\ play'.pc \in {"none", "flush", "dropQueue", "prepare", "read", "asleep"} => play.buf = << >>
      /\ play'.pc \in {"hint", "load", "using"} => play'.then = "begin" \/ play.buf # << >>
      /\ play'.pc \in {"write", "writei", "failed", "recover"} =>
           play.pc \in {"write", "writei", "failed", "recover"}
  <2>. USE DEF PlayAt, Goto
  <2>0. /\ play \in Plays
        /\ play.pc \in {"none", "flush", "dropQueue", "prepare", "read", "asleep"} => play.buf = << >>
        /\ play.pc \in {"hint", "load", "using"} => play.then = "begin" \/ play.buf # << >>
        /\ play.pc \in {"write", "writei", "failed", "recover"} => play.buf # << >>
    BY DEF TypeOK, OrderOK
  <2>1. CASE NewStream BY <2>0, <2>1 DEF NewStream, Plays
  <2>2. CASE Hint BY <2>0, <2>2 DEF Hint, Plays
  <2>3. CASE LoadTap BY <2>0, <2>3 DEF LoadTap, Plays
  <2>4. CASE UseTap BY <2>0, <2>4 DEF UseTap, Plays
  <2>5. CASE Unbusy BY <2>0, <2>5 DEF Unbusy, Plays
  <2>7. CASE TakeFlush BY <2>0, <2>7 DEF TakeFlush, Plays
  <2>8. CASE FlushDrop BY <2>0, <2>8 DEF FlushDrop, Plays
  <2>9. CASE FlushPrepare BY <2>0, <2>9 DEF FlushPrepare, Plays
  <2>10. CASE Sleep BY <2>0, <2>10 DEF Sleep, Plays
  <2>11. CASE WakeForNothing BY <2>0, <2>11 DEF WakeForNothing, Plays
  <2>13. CASE NextWrite BY <2>0, <2>13 DEF NextWrite, Plays
  <2>15. CASE WriteFails BY <2>0, <2>15 DEF WriteFails, Plays
  <2>16. CASE LookAgain BY <2>0, <2>16 DEF LookAgain, Plays
  <2>17. CASE Recover BY <2>0, <2>17 DEF Recover, Plays
  <2>18. CASE Resume BY <2>0, <2>18 DEF Resume, Plays
  <2>19. CASE GiveUp BY <2>0, <2>19 DEF GiveUp, Plays
  <2>. QED BY <2>1, <2>2, <2>3, <2>4, <2>5, <2>7, <2>8, <2>9, <2>10, <2>11, <2>13, <2>15, <2>16, <2>17,
            <2>18, <2>19 DEF PlayStep
<1>. QED BY <1>0, <1>1, <1>2, OrderFrame

LEMMA OrderTake ==
  ASSUME Assumptions, TypeOK, DoneOK, FifoOK, OrderOK, Take
  PROVE  OrderOK'
<1>0. SizeAssumption
  BY DEF Assumptions
<1>1. PICK n \in Nat :
        /\ n % B = 0 /\ n >= B /\ n <= ring.used /\ ring'.used = ring.used - n
        /\ play' \in Plays /\ play'.pc = "write" /\ play'.offset = 0 /\ Len(play'.buf) = n
        /\ \A i \in 1 .. n : play'.buf[i] = ring.bytes[(ring.tail + i - 1) % Cap]
        /\ UNCHANGED <<pcm, done>>
  BY <1>0, TakeEffect
<1>2. /\ B \in Nat \ {0} /\ ring.used \in Nat /\ done.put \in Nat /\ ring.tail \in Int
      /\ play'.buf \in Seq(Int) /\ DOMAIN play'.buf = 1 .. n
  <2>1. play'.buf \in Seq(Int)
    BY <1>1 DEF Plays
  <2>. QED BY <1>0, <1>1, <2>1, RingFacts
<1>. DEFINE p == done.put - ring.used
<1>3. /\ p \in Int /\ p % B = 0 /\ done'.put - ring'.used = p + n
      /\ \A i \in 0 .. ring.used - 1 : ring.bytes[(ring.tail + i) % Cap] = p + i
  <2>1. /\ p % B = 0
        /\ \A i \in 0 .. ring.used - 1 : ring.bytes[(ring.tail + i) % Cap] = p + i
    BY DEF FifoOK, RingIsFifo
  <2>2. p \in Int /\ done'.put - ring'.used = p + n
    BY <1>1, <1>2
  <2>. QED BY <2>1, <2>2
<1>4. \A i \in DOMAIN pcm.queue : pcm.queue[i] < p /\ pcm.queue[i] \in Int
  BY DEF OrderOK, TypeOK, Devices
<1>5. \A i, j \in DOMAIN pcm.queue : i < j => pcm.queue[i] < pcm.queue[j]
  BY DEF OrderOK
<1>. HIDE DEF p
<1>6. ASSUME NEW i \in 1 .. n PROVE play'.buf[i] = p + i - 1
  <2>. DEFINE j == i - 1
  <2>1. j \in 0 .. ring.used - 1 /\ ring.tail + i - 1 = ring.tail + j /\ p + j = p + i - 1
    BY <1>1, <1>2, <1>3
  <2>. HIDE DEF j
  <2>. QED BY <1>1, <1>3, <2>1
<1>7. n >= 1 /\ play'.buf[1] = p
  <2>1. n >= 1 /\ 1 \in 1 .. n
    BY <1>1, <1>2
  <2>2. play'.buf[1] = p + 1 - 1
    BY <1>6, <2>1
  <2>. QED BY <1>3, <2>1, <2>2
<1>8. \A i \in DOMAIN play'.buf : play'.buf[i] = play'.buf[1] + i - 1
  BY <1>2, <1>6, <1>7
<1>9. play'.buf # << >>
  BY <1>1, <1>7
<1>10. Frames' \in Nat
  <2>1. n \div B \in Nat
    BY <1>0, FrameCount
  <2>. QED BY <1>1, <2>1 DEF Frames
<1>11. play'.offset * B = 0 /\ play'.offset <= Frames'
  BY <1>1, <1>2, <1>10
<1>12. \A i \in DOMAIN pcm'.queue : pcm'.queue[i] < done'.put - ring'.used
  BY <1>1, <1>3, <1>4
<1>13. \A i \in DOMAIN pcm'.queue : pcm'.queue[i] < play'.buf[1] + play'.offset * B
  BY <1>1, <1>3, <1>4, <1>7, <1>11
<1>14. play'.buf[1] % B = 0 /\ Len(play'.buf) % B = 0 /\ play'.buf[1] + Len(play'.buf) <= done'.put - ring'.used
  BY <1>1, <1>3, <1>7
<1>15. \A i, j \in DOMAIN pcm'.queue : i < j => pcm'.queue[i] < pcm'.queue[j]
  BY <1>1, <1>5
<1>16. play'.pc \notin {"none", "flush", "dropQueue", "prepare", "read", "asleep", "hint", "load", "using"}
  BY <1>1
<1>. QED BY <1>8, <1>9, <1>11, <1>12, <1>13, <1>14, <1>15, <1>16 DEF OrderOK

LEMMA TimesFrame ==
  ASSUME SizeAssumption, NEW a \in Nat, NEW b \in Nat
  PROVE  a * B \in Nat /\ (a <= b => a * B <= b * B) /\ (a < b => a * B < b * B)
<1>1. B \in Nat \ {0}
  BY DEF SizeAssumption
<1>2. a * B \in Nat
  BY <1>1
<1>3. ASSUME a <= b PROVE a * B <= b * B
  <2>1. PICK c \in Nat : b = a + c
    <3>1. b - a \in Nat /\ b = a + (b - a)
      BY <1>3
    <3>. QED BY <3>1
  <2>2. (a + c) * B = a * B + c * B /\ c * B \in Nat
    BY <1>1
  <2>. QED BY <1>2, <2>1, <2>2
<1>4. ASSUME a < b PROVE a * B < b * B
  <2>1. PICK c \in Nat : b = a + c + 1
    <3>1. b - a - 1 \in Nat /\ b = a + (b - a - 1) + 1
      BY <1>4
    <3>. QED BY <3>1
  <2>2. (a + c + 1) * B = a * B + c * B + B /\ c * B \in Nat
    BY <1>1
  <2>. QED BY <1>1, <1>2, <2>1, <2>2
<1>. QED BY <1>2, <1>3, <1>4

(* The device appends frames of the period, each behind the one before.    *)
LEMMA OrderAccept ==
  ASSUME Assumptions, TypeOK, DoneOK, OrderOK, WriteAccepted
  PROVE  OrderOK'
<1>0. SizeAssumption
  BY DEF Assumptions
<1>. DEFINE L == Len(pcm.queue)
            off == play.offset
<1>1. PICK k \in Nat :
        /\ k >= 1 /\ off + k <= Frames
        /\ \A i \in 1 .. k : (off + i - 1) * B + 1 \in 1 .. Len(play.buf)
        /\ pcm' \in Devices
        /\ Len(pcm'.queue) = L + k
        /\ \A i \in 1 .. L : pcm'.queue[i] = pcm.queue[i]
        /\ \A i \in 1 .. k : pcm'.queue[L + i] = play.buf[(off + i - 1) * B + 1]
        /\ play' \in Plays /\ play' = [play EXCEPT !.pc = "write", !.offset = off + k]
        /\ UNCHANGED <<ring, done>>
  BY <1>0, AcceptEffect DEF Frames
<1>2. /\ play.buf \in Seq(Int) /\ pcm.queue \in Seq(Int) /\ pcm'.queue \in Seq(Int) /\ off \in Nat /\ L \in Nat
      /\ play'.pc = "write" /\ play'.buf = play.buf /\ play'.offset = off + k
  BY <1>1 DEF TypeOK, Plays, Devices
<1>3. /\ play.pc = "writei" /\ play.buf # << >>
      /\ play.buf[1] % B = 0 /\ Len(play.buf) % B = 0
      /\ play.buf[1] + Len(play.buf) <= done.put - ring.used
      /\ \A i \in DOMAIN play.buf : play.buf[i] = play.buf[1] + i - 1
      /\ \A i, j \in DOMAIN pcm.queue : i < j => pcm.queue[i] < pcm.queue[j]
      /\ \A i \in DOMAIN pcm.queue : pcm.queue[i] < done.put - ring.used
      /\ \A i \in DOMAIN pcm.queue : pcm.queue[i] < play.buf[1] + off * B
  BY DEF OrderOK, WriteAccepted, PlayAt
<1>. DEFINE first == play.buf[1]
            after == done.put - ring.used
<1>4. first \in Int /\ after \in Int /\ Len(play.buf) \in Nat /\ first + Len(play.buf) <= after
  <2>1. Len(play.buf) \in Nat /\ first \in Int
    <3>1. 1 \in 1 .. Len(play.buf)
      BY <1>2, <1>3
    <3>. QED BY <1>2, <3>1
  <2>2. after \in Int
    BY <1>0, RingFacts
  <2>. QED BY <1>3, <2>1, <2>2
<1>5. ASSUME NEW i \in 1 .. k
      PROVE  /\ off + i - 1 \in Nat
             /\ pcm'.queue[L + i] = first + (off + i - 1) * B /\ pcm'.queue[L + i] < after
  <2>. DEFINE x == (off + i - 1) * B
  <2>1. off + i - 1 \in Nat
    BY <1>2
  <2>2. x \in Nat
    BY <1>0, <2>1, TimesFrame
  <2>3. x + 1 \in 1 .. Len(play.buf) /\ pcm'.queue[L + i] = play.buf[x + 1]
    BY <1>1
  <2>. HIDE DEF x
  <2>4. play.buf[x + 1] = first + (x + 1) - 1
    BY <1>2, <1>3, <2>3
  <2>5. pcm'.queue[L + i] = first + x /\ first + x < after
    BY <1>4, <2>2, <2>3, <2>4
  <2>. QED BY <2>1, <2>5 DEF x
<1>6. ASSUME NEW i \in 1 .. L
      PROVE  /\ pcm'.queue[i] = pcm.queue[i] /\ pcm'.queue[i] \in Int
             /\ pcm'.queue[i] < first + off * B /\ pcm'.queue[i] < after
  <2>1. i \in DOMAIN pcm.queue /\ pcm.queue[i] \in Int /\ pcm'.queue[i] = pcm.queue[i]
    BY <1>1, <1>2
  <2>2. pcm.queue[i] < first + off * B /\ pcm.queue[i] < after
    BY <1>3, <2>1
  <2>. QED BY <2>1, <2>2
<1>7. ASSUME NEW i \in 1 .. L + k
      PROVE  i \in 1 .. L \/ \E m \in 1 .. k : i = L + m
  <2>1. L \in Nat
    BY <1>2
  <2>. HIDE DEF L
  <2>2. i > L => i - L \in 1 .. k /\ i = L + (i - L)
    BY <2>1
  <2>3. i <= L => i \in 1 .. L
    BY <2>1
  <2>4. i \in Int
    BY <2>1
  <2>. QED BY <2>1, <2>2, <2>3, <2>4
<1>8. off * B \in Nat /\ off + k \in Nat
  BY <1>0, <1>1, <1>2, TimesFrame
<1>. DEFINE end == (off + k) * B
<1>9. end \in Nat /\ off * B <= end
  BY <1>0, <1>1, <1>2, <1>8, TimesFrame
<1>10. \A m \in 1 .. k : (off + m - 1) * B \in Nat /\ (off + m - 1) * B < end /\ off * B <= (off + m - 1) * B
  <2>1. ASSUME NEW m \in 1 .. k
        PROVE  (off + m - 1) * B \in Nat /\ (off + m - 1) * B < end /\ off * B <= (off + m - 1) * B
    <3>. DEFINE a == off + m - 1
    <3>1. a \in Nat /\ a < off + k /\ off <= a
      BY <1>2
    <3>. HIDE DEF a
    <3>2. a * B \in Nat /\ a * B < end
      BY <1>0, <1>8, <3>1, TimesFrame
    <3>3. off * B <= a * B
      BY <1>0, <1>2, <3>1, TimesFrame
    <3>. QED BY <3>2, <3>3 DEF a
  <2>. QED BY <2>1
<1>. HIDE DEF L, off, first, after, end
<1>11. DOMAIN pcm'.queue = 1 .. L + k
  BY <1>1, <1>2
<1>12. \A i \in DOMAIN pcm'.queue : pcm'.queue[i] < after /\ pcm'.queue[i] < first + end
  <2>1. ASSUME NEW i \in 1 .. L + k PROVE pcm'.queue[i] < after /\ pcm'.queue[i] < first + end
    <3>1. CASE i \in 1 .. L
      <4>1. pcm'.queue[i] \in Int /\ pcm'.queue[i] < first + off * B /\ pcm'.queue[i] < after
        BY <1>6, <3>1
      <4>. QED BY <1>4, <1>8, <1>9, <4>1
    <3>2. ASSUME NEW m \in 1 .. k, i = L + m PROVE pcm'.queue[i] < after /\ pcm'.queue[i] < first + end
      <4>. DEFINE x == (off + m - 1) * B
      <4>1. pcm'.queue[i] = first + x /\ pcm'.queue[i] < after /\ x \in Nat /\ x < end
        BY <1>5, <1>10, <3>2
      <4>. HIDE DEF x
      <4>. QED BY <1>4, <1>9, <4>1
    <3>. QED BY <1>7, <3>1, <3>2
  <2>. QED BY <1>11, <2>1
<1>13. ASSUME NEW i \in 1 .. L + k, NEW j \in 1 .. L + k, i < j
       PROVE  pcm'.queue[i] < pcm'.queue[j]
  <2>1. CASE j \in 1 .. L
    <3>1. i \in 1 .. L
      BY <1>1, <1>2, <1>13, <2>1
    <3>2. pcm'.queue[i] = pcm.queue[i] /\ pcm'.queue[j] = pcm.queue[j]
      BY <1>6, <2>1, <3>1
    <3>3. pcm.queue[i] < pcm.queue[j]
      <4>1. DOMAIN pcm.queue = 1 .. L
        BY <1>2 DEF L
      <4>. QED BY <1>3, <1>13, <2>1, <3>1, <4>1
    <3>. QED BY <3>2, <3>3
  <2>2. ASSUME NEW m \in 1 .. k, j = L + m PROVE pcm'.queue[i] < pcm'.queue[j]
    <3>. DEFINE x == (off + m - 1) * B
    <3>1. pcm'.queue[j] = first + x /\ x \in Nat /\ off * B <= x
      BY <1>5, <1>10, <2>2
    <3>2. CASE i \in 1 .. L
      <4>. HIDE DEF x
      <4>1. pcm'.queue[i] \in Int /\ pcm'.queue[i] < first + off * B
        BY <1>6, <3>2
      <4>. QED BY <1>4, <1>8, <3>1, <4>1
    <3>3. ASSUME NEW l \in 1 .. k, i = L + l PROVE pcm'.queue[i] < pcm'.queue[j]
      <4>. DEFINE y == (off + l - 1) * B
                  a == off + l - 1
                  b == off + m - 1
      <4>1. a \in Nat /\ b \in Nat /\ a < b
        <5>1. l < m
          BY <1>2, <1>13, <2>2, <3>3
        <5>. QED BY <1>2, <5>1
      <4>2. pcm'.queue[i] = first + y /\ y \in Nat
        BY <1>5, <1>10, <3>3
      <4>3. y = a * B /\ x = b * B
        OBVIOUS
      <4>. HIDE DEF a, b, x, y
      <4>4. y < x
        BY <1>0, <4>1, <4>3, TimesFrame
      <4>. QED BY <1>4, <3>1, <4>2, <4>4
    <3>. QED BY <1>7, <3>2, <3>3
  <2>. QED BY <1>7, <2>1, <2>2
<1>14. \A i, j \in DOMAIN pcm'.queue : i < j => pcm'.queue[i] < pcm'.queue[j]
  BY <1>11, <1>13
<1>15. Frames' = Frames /\ done'.put - ring'.used = after
  BY <1>1, <1>2 DEF Frames, after
<1>16. \A i \in DOMAIN pcm'.queue :
         pcm'.queue[i] < done'.put - ring'.used /\ pcm'.queue[i] < play'.buf[1] + play'.offset * B
  BY <1>2, <1>12, <1>15 DEF first, end
<1>17. play'.offset <= Frames'
  BY <1>1, <1>2, <1>15
<1>. QED BY <1>2, <1>3, <1>14, <1>15, <1>16, <1>17 DEF OrderOK, after

LEMMA OrderDevice ==
  ASSUME Assumptions, TypeOK, DoneOK, OrderOK, DevicePlays \/ DeviceSuspends \/ DeviceGone
  PROVE  OrderOK'
<1>0. NextOut \in Nat /\ NextOut' \in Nat /\ NextOut <= NextOut'
  BY NextOutGrows DEF Next
<1>1. CASE DevicePlays
  <2>1. pcm.queue \in Seq(Int) /\ pcm.queue # << >> /\ pcm'.queue = Tail(pcm.queue)
        /\ UNCHANGED <<play, ring, done>>
    BY <1>1 DEF DevicePlays, deviceOnly, TypeOK, Devices
  <2>2. /\ DOMAIN pcm'.queue = 1 .. Len(pcm.queue) - 1 /\ Len(pcm.queue) \in Nat
        /\ \A i \in 1 .. Len(pcm.queue) - 1 :
             pcm'.queue[i] = pcm.queue[i + 1] /\ i + 1 \in DOMAIN pcm.queue
    BY <2>1, TailFacts
  <2>3. /\ \A i, j \in DOMAIN pcm'.queue : i < j => pcm'.queue[i] < pcm'.queue[j]
        /\ \A i \in DOMAIN pcm'.queue : pcm'.queue[i] < done'.put - ring'.used
    <3>. DEFINE q == pcm.queue
                n == Len(pcm.queue) - 1
    <3>1. /\ \A i, j \in DOMAIN q : i < j => q[i] < q[j]
          /\ \A i \in DOMAIN q : q[i] < done.put - ring.used
      BY DEF OrderOK
    <3>2. /\ n \in Int /\ DOMAIN pcm'.queue = 1 .. n
          /\ \A i \in 1 .. n : pcm'.queue[i] = q[i + 1] /\ i + 1 \in DOMAIN q
      BY <2>2
    <3>. HIDE DEF q, n
    <3>3. \A i, j \in 1 .. n : i < j => q[i + 1] < q[j + 1]
      <4>1. ASSUME NEW i \in 1 .. n, NEW j \in 1 .. n, i < j PROVE q[i + 1] < q[j + 1]
        <5>. DEFINE a == i + 1
                    b == j + 1
        <5>1. a \in DOMAIN q /\ b \in DOMAIN q
          BY <3>2
        <5>2. a < b
          BY <3>2, <4>1
        <5>. HIDE DEF a, b
        <5>3. q[a] < q[b]
          BY <3>1, <5>1, <5>2
        <5>. QED BY <5>3 DEF a, b
      <4>. QED BY <4>1
    <3>4. \A i, j \in DOMAIN pcm'.queue : i < j => pcm'.queue[i] < pcm'.queue[j]
      BY <3>2, <3>3
    <3>5. \A i \in DOMAIN pcm'.queue : pcm'.queue[i] < done.put - ring.used
      BY <3>1, <3>2
    <3>. QED BY <2>1, <3>4, <3>5
  <2>4. play'.pc \in {"write", "writei", "failed", "recover"} =>
          \A i \in DOMAIN pcm'.queue : pcm'.queue[i] < play'.buf[1] + play'.offset * B
    BY <2>1, <2>2 DEF OrderOK
  <2>5. Frames' = Frames
    BY <2>1 DEF Frames
  <2>. QED BY <2>1, <2>3, <2>4, <2>5 DEF OrderOK
<1>2. CASE DeviceSuspends \/ DeviceGone
  <2>1. play' = play /\ (pcm'.queue = pcm.queue \/ pcm'.queue = << >>)
    BY <1>2 DEF DeviceSuspends, DeviceGone, deviceOnly, TypeOK, Devices
  <2>2. /\ play.pc \in {"none", "flush", "dropQueue", "prepare", "read", "asleep"} => play.buf = << >>
        /\ play.pc \in {"hint", "load", "using"} => play.then = "begin" \/ play.buf # << >>
    BY DEF OrderOK
  <2>. QED BY <1>0, <2>1, <2>2, OrderFrame
<1>. QED BY <1>1, <1>2

LEMMA OrderInv ==
  ASSUME Assumptions, TypeOK, DoneOK, ThreadOK, FifoOK, OrderOK, [Next]_vars
  PROVE  OrderOK'
<1>0. NextOut \in Nat /\ NextOut' \in Nat /\ NextOut <= NextOut'
  BY NextOutGrows
<1>1. CASE MainCall \/ MainStep BY <1>1, OrderMain
<1>2. CASE Take BY <1>2, OrderTake
<1>3. CASE WriteAccepted BY <1>3, OrderAccept
<1>4. CASE LoopTop
  <2>1. pcm' = pcm /\ play.pc = "loop"
    BY <1>4 DEF LoopTop, PlayAt
  <2>2. play'.buf = << >> /\ play'.pc \in {"none", "flush"}
    BY <1>4 DEF LoopTop, NoPlay, TypeOK, Plays
  <2>. QED BY <1>0, <2>1, <2>2, OrderEmpty
<1>5. CASE (PlayStep \/ Resume) /\ ~Take /\ ~WriteAccepted /\ ~LoopTop BY <1>5, OrderQuiet
<1>6. CASE DevicePlays \/ DeviceSuspends \/ DeviceGone BY <1>6, OrderDevice
<1>7. CASE NetCall \/ NetStep \/ UNCHANGED vars
  <2>1. play' = play /\ pcm' = pcm
    BY <1>7 DEF NetCall, NetStep, Write, Fill, WaitEnds, netOnly, vars
  <2>2. /\ play.pc \in {"none", "flush", "dropQueue", "prepare", "read", "asleep"} => play.buf = << >>
        /\ play.pc \in {"hint", "load", "using"} => play.then = "begin" \/ play.buf # << >>
    BY DEF OrderOK
  <2>. QED BY <1>0, <2>1, <2>2, OrderFrame
<1>. QED BY <1>1, <1>2, <1>3, <1>4, <1>5, <1>6, <1>7 DEF Next, PlayStep

-----------------------------------------------------------------------------
(* What a flush cuts off.                                                  *)

LEMMA FloorFrame ==
  ASSUME FloorOK, done'.floor = done.floor,
         play'.buf = play.buf \/ play'.buf = << >>,
         \/ pcm'.queue = << >>
         \/ pcm'.queue = pcm.queue /\ (play.pc = "dropQueue" => play'.pc = "dropQueue")
  PROVE  FloorOK'
<1>1. \A i \in DOMAIN play'.buf : play'.buf[i] >= done'.floor
  BY DEF FloorOK
<1>2. play'.pc # "dropQueue" => \A i \in DOMAIN pcm'.queue : pcm'.queue[i] >= done'.floor
  BY DEF FloorOK
<1>. QED BY <1>1, <1>2 DEF FloorOK

(* The steps that change the floor, and those that move bytes.             *)
LEMMA FloorSetup ==
  ASSUME ThreadOK, OrderOK, Setup
  PROVE  FloorOK'
<1>1. pcm.queue = << >> /\ play.buf = << >> /\ play' = play
  BY DEF Setup, At, ThreadOK, OrderOK, mainOnly
<1>2. pcm'.queue = << >>
  BY <1>1 DEF Setup
<1>. QED BY <1>1, <1>2 DEF FloorOK

LEMMA FloorTakeFlush ==
  ASSUME TypeOK, DoneOK, OrderOK, FloorOK, TakeFlush
  PROVE  FloorOK'
<1>1. play.pc = "flush" /\ play.buf = << >> /\ play'.buf = << >> /\ pcm' = pcm
  BY DEF TakeFlush, PlayAt, Goto, OrderOK, TypeOK, Plays
<1>2. CASE flags.flush
  <2>1. play'.pc = "dropQueue"
    BY <1>2 DEF TakeFlush, Goto, TypeOK, Plays
  <2>. QED BY <1>1, <2>1 DEF FloorOK
<1>3. CASE ~flags.flush
  <2>1. done' = done
    BY <1>3 DEF TakeFlush
  <2>. QED BY <1>1, <2>1, FloorFrame
<1>. QED BY <1>2, <1>3

LEMMA FloorTake ==
  ASSUME Assumptions, TypeOK, DoneOK, FifoOK, FloorOK, Take
  PROVE  FloorOK'
<1>0. SizeAssumption
  BY DEF Assumptions
<1>1. PICK n \in Nat :
        /\ n <= ring.used /\ play' \in Plays /\ play'.pc = "write" /\ Len(play'.buf) = n
        /\ \A i \in 1 .. n : play'.buf[i] = ring.bytes[(ring.tail + i - 1) % Cap]
        /\ UNCHANGED <<pcm, done>>
  BY <1>0, TakeEffect
<1>2. /\ ring.used \in Nat /\ done.put \in Nat /\ ring.tail \in Int /\ play'.buf \in Seq(Int)
      /\ done.floor \in Nat /\ done.floor <= done.put - ring.used
  <2>1. play'.buf \in Seq(Int)
    BY <1>1 DEF Plays
  <2>. QED BY <1>0, <2>1, RingFacts DEF DoneOK
<1>. DEFINE p == done.put - ring.used
<1>3. p \in Int /\ done.floor <= p
  BY <1>2
<1>4. \A i \in 0 .. ring.used - 1 : ring.bytes[(ring.tail + i) % Cap] = p + i
  BY DEF FifoOK, RingIsFifo
<1>. HIDE DEF p
<1>5. ASSUME NEW i \in 1 .. n PROVE play'.buf[i] >= done.floor
  <2>. DEFINE j == i - 1
  <2>1. j \in 0 .. ring.used - 1 /\ ring.tail + i - 1 = ring.tail + j
    BY <1>1, <1>2
  <2>. HIDE DEF j
  <2>2. play'.buf[i] = p + j
    BY <1>1, <1>4, <2>1
  <2>. QED BY <1>2, <1>3, <2>1, <2>2
<1>6. \A i \in DOMAIN play'.buf : play'.buf[i] >= done'.floor
  BY <1>1, <1>2, <1>5
<1>7. \A i \in DOMAIN pcm'.queue : pcm'.queue[i] >= done'.floor
  <2>1. play.pc # "dropQueue"
    BY DEF Take, PlayAt
  <2>. QED BY <1>1, <2>1 DEF FloorOK
<1>. QED BY <1>6, <1>7 DEF FloorOK

LEMMA FloorAccept ==
  ASSUME Assumptions, TypeOK, FloorOK, WriteAccepted
  PROVE  FloorOK'
<1>0. SizeAssumption
  BY DEF Assumptions
<1>. DEFINE L == Len(pcm.queue)
            at(i) == (play.offset + i - 1) * B + 1
<1>1. PICK k \in Nat :
        /\ \A i \in 1 .. k : at(i) \in 1 .. Len(play.buf)
        /\ pcm' \in Devices
        /\ Len(pcm'.queue) = L + k
        /\ \A i \in 1 .. L : pcm'.queue[i] = pcm.queue[i]
        /\ \A i \in 1 .. k : pcm'.queue[L + i] = play.buf[at(i)]
        /\ play' = [play EXCEPT !.pc = "write", !.offset = play.offset + k]
        /\ UNCHANGED <<ring, done>>
  BY <1>0, AcceptEffect
<1>. HIDE DEF at
<1>2. /\ play.buf \in Seq(Int) /\ pcm.queue \in Seq(Int) /\ pcm'.queue \in Seq(Int) /\ L \in Nat
      /\ play'.buf = play.buf
  BY <1>1 DEF TypeOK, Plays, Devices
<1>3. /\ \A i \in 1 .. Len(play.buf) : play.buf[i] >= done.floor
      /\ \A i \in 1 .. L : pcm.queue[i] >= done.floor
  BY <1>2, SMTT(30) DEF FloorOK, WriteAccepted, PlayAt
<1>. HIDE DEF L
<1>4. ASSUME NEW i \in 1 .. L + k PROVE pcm'.queue[i] >= done.floor
  <2>1. CASE i \in 1 .. L
    BY <1>1, <1>3, <2>1
  <2>2. ASSUME NEW m \in 1 .. k, i = L + m PROVE pcm'.queue[i] >= done.floor
    BY <1>1, <1>3, <2>2
  <2>3. i > L => i - L \in 1 .. k /\ i = L + (i - L)
    BY <1>2
  <2>. QED BY <1>2, <2>1, <2>2, <2>3
<1>5. DOMAIN pcm'.queue = 1 .. L + k
  BY <1>1, <1>2
<1>6. \A i \in DOMAIN pcm'.queue : pcm'.queue[i] >= done'.floor
  BY <1>1, <1>4, <1>5
<1>7. \A i \in DOMAIN play'.buf : play'.buf[i] >= done'.floor
  BY <1>1, <1>2 DEF FloorOK
<1>. QED BY <1>6, <1>7 DEF FloorOK

LEMMA FloorInv ==
  ASSUME Assumptions, TypeOK, DoneOK, ThreadOK, FifoOK, OrderOK, FloorOK, [Next]_vars
  PROVE  FloorOK'
<1>0. SizeAssumption /\ play \in Plays /\ pcm \in Devices
  BY DEF Assumptions, TypeOK
<1>1. CASE MainCall \/ MainStep
  <2>1. CASE Setup BY <2>1, FloorSetup
  <2>2. CASE Spawn
    <3>1. play'.buf = << >> /\ pcm' = pcm /\ done' = done /\ play.pc = "none"
      BY <2>2 DEF Spawn, NoPlay, ThreadOK, At
    <3>. QED BY <3>1, FloorFrame
  <2>3. CASE ~Setup /\ ~Spawn
    <3>1. /\ play' = play /\ (pcm'.queue = pcm.queue \/ pcm'.queue = << >>)
          /\ done'.floor = done.floor
      BY <1>1, <2>3 DEF DoneOK, MainCall, MainStep, StreamStart, StreamEnd, TapOn, TapOff, Shutdown,
           StopFlag, StopDrop, Join, Close, SetRunning, ClearRing, ClearFlag, TapSwap, TapAwait,
           TapEndPrev, mainOnly
    <3>. QED BY <3>1, FloorFrame
  <2>. QED BY <2>1, <2>2, <2>3
<1>2. CASE PlayStep \/ Resume
  <2>1. CASE TakeFlush BY <2>1, FloorTakeFlush
  <2>2. CASE Take BY <2>2, FloorTake
  <2>3. CASE WriteAccepted BY <2>3, FloorAccept
  <2>4. CASE FlushDrop
    <3>1. pcm'.queue = << >> /\ play'.buf = play.buf /\ done' = done
      BY <1>0, <2>4 DEF FlushDrop, Goto, Plays, ThreadOK
    <3>. QED BY <3>1, FloorFrame
  <2>5. CASE LoopTop
    <3>1. play'.buf = << >> /\ pcm' = pcm /\ done' = done /\ play.pc = "loop"
      BY <1>0, <2>5 DEF LoopTop, Plays, NoPlay, PlayAt
    <3>. QED BY <3>1, FloorFrame
  <2>6. CASE ~TakeFlush /\ ~Take /\ ~WriteAccepted /\ ~FlushDrop /\ ~LoopTop
    <3>1. play'.buf = play.buf /\ play.pc # "dropQueue" /\ done' = done
      BY <1>0, <1>2, <2>6 DEF PlayStep, NewStream, Hint, LoadTap, UseTap, Unbusy, FlushPrepare, Sleep,
           WakeForNothing, NextWrite, WriteFails, LookAgain, Recover, Resume, GiveUp, Plays, PlayAt, Goto
    <3>2. pcm'.queue = pcm.queue \/ pcm'.queue = << >>
      BY <1>0, <1>2, <2>6, PlayFrame DEF FlushPrepare, Recover, Resume, Devices
    <3>. QED BY <3>1, <3>2, FloorFrame
  <2>. QED BY <2>1, <2>2, <2>3, <2>4, <2>5, <2>6
<1>3. CASE NetCall \/ NetStep
  <2>1. play' = play /\ pcm' = pcm
    BY <1>3 DEF NetCall, NetStep, Write, Fill, WaitEnds, netOnly
  <2>2. done'.floor = done.floor
    <3>1. CASE Fill
      <4>1. PICK chunk \in Nat : Put(chunk)
        BY <1>0, <3>1, FillEffect
      <4>. QED BY <4>1 DEF Put, DoneOK
    <3>2. CASE ~Fill
      BY <1>3, <3>2 DEF NetCall, NetStep, Write, WaitEnds
    <3>. QED BY <3>1, <3>2
  <2>. QED BY <2>1, <2>2, FloorFrame
<1>4. CASE DevicePlays
  <2>1. pcm.queue \in Seq(Int) /\ pcm.queue # << >> /\ pcm'.queue = Tail(pcm.queue)
        /\ UNCHANGED <<play, done>>
    BY <1>4 DEF DevicePlays, deviceOnly, TypeOK, Devices
  <2>2. /\ DOMAIN pcm'.queue = 1 .. Len(pcm.queue) - 1 /\ Len(pcm.queue) \in Nat
        /\ \A i \in 1 .. Len(pcm.queue) - 1 :
             pcm'.queue[i] = pcm.queue[i + 1] /\ i + 1 \in DOMAIN pcm.queue
    BY <2>1, TailFacts
  <2>. QED BY <2>1, <2>2 DEF FloorOK
<1>5. CASE DeviceSuspends \/ DeviceGone
  <2>1. play' = play /\ (pcm'.queue = pcm.queue \/ pcm'.queue = << >>) /\ done' = done
    BY <1>0, <1>5 DEF DeviceSuspends, DeviceGone, deviceOnly, Devices
  <2>. QED BY <2>1, FloorFrame
<1>6. CASE UNCHANGED vars
  <2>1. play' = play /\ pcm' = pcm /\ done' = done
    BY <1>6 DEF vars
  <2>. QED BY <2>1, FloorFrame
<1>. QED BY <1>1, <1>2, <1>3, <1>4, <1>5, <1>6 DEF Next

-----------------------------------------------------------------------------
(* The streams of the tap.                                                 *)

LEMMA StreamFrame ==
  ASSUME StreamOK, taps' = taps, play'.stream = play.stream, done'.floor = done.floor,
         \/ thread' # "live"
         \/ play'.pc \in {"dropQueue", "prepare", "newStream"}
         \/ thread = "live" /\ play.pc \notin {"dropQueue", "prepare", "newStream"}
  PROVE  StreamOK'
BY DEF StreamOK, TapStreamIsFresh

LEMMA StreamMain ==
  ASSUME Assumptions, TypeOK, DoneOK, ThreadOK, StreamOK, MainCall \/ MainStep
  PROVE  StreamOK'
<1>1. CASE Setup
  <2>1. play' = play /\ taps' = taps /\ thread' = thread /\ thread = "none"
    BY <1>1 DEF Setup, ThreadOK, At, mainOnly
  <2>. QED BY <2>1 DEF StreamOK, TapStreamIsFresh
<1>2. CASE Spawn
  <2>1. /\ play'.stream = play.stream /\ play'.pc = "newStream" /\ taps' = taps /\ done' = done
    BY <1>2 DEF Spawn, NoPlay, ThreadOK, At
  <2>. QED BY <2>1, StreamFrame
<1>3. CASE TapEndPrev
  <2>1. /\ play' = play /\ thread' = thread /\ done' = done
        /\ \A t \in DOMAIN taps : taps'[t] = [stream |-> 0, oldest |-> Junk] \/ taps'[t] = taps[t]
        /\ DOMAIN taps' = DOMAIN taps
    BY <1>3 DEF TapEndPrev, mainOnly
  <2>2. play.stream \in Nat
    BY DEF TypeOK, Plays
  <2>3. \A t \in DOMAIN taps' : taps'[t].stream <= play'.stream
    BY <2>1, <2>2 DEF StreamOK
  <2>4. TapStreamIsFresh'
    BY <2>1 DEF StreamOK, TapStreamIsFresh
  <2>. QED BY <2>3, <2>4 DEF StreamOK
<1>4. CASE ~Setup /\ ~Spawn /\ ~TapEndPrev
  <2>1. /\ play' = play /\ taps' = taps /\ done'.floor = done.floor
        /\ thread' = thread \/ thread' = "none"
    BY <1>4 DEF DoneOK, MainCall, MainStep, StreamStart, StreamEnd, TapOn, TapOff, Shutdown, StopFlag,
         StopDrop, Join, Close, SetRunning, ClearRing, ClearFlag, TapSwap, TapAwait, mainOnly
  <2>. QED BY <2>1, StreamFrame
<1>. QED BY <1>1, <1>2, <1>3, <1>4

LEMMA StreamUse ==
  ASSUME Assumptions, TypeOK, ThreadOK, HandshakeOK, OrderOK, FloorOK, StreamOK, UseTap
  PROVE  StreamOK'
<1>. DEFINE w == play.writer
            old == taps[w].oldest
            oldest == IF play.then = "begin" THEN Junk
                      ELSE IF taps[w].stream = play.stream /\ old # Junk THEN old ELSE play.buf[1]
<1>1. /\ play.pc = "using" /\ thread = "live" /\ UNCHANGED <<thread, done>>
      /\ play'.stream = play.stream /\ play'.pc = "unbusy" /\ play.stream \in Nat
      /\ taps' = [taps EXCEPT ![w] = [stream |-> play.stream, oldest |-> oldest]]
  BY DEF UseTap, PlayAt, Goto, TypeOK, Plays, ThreadOK
<1>2. oldest # Junk => oldest >= done.floor
  <2>1. CASE play.then = "begin"
    BY <2>1
  <2>2. CASE play.then # "begin" /\ taps[w].stream = play.stream /\ old # Junk
    <3>1. w \in DOMAIN taps
      BY <1>1 DEF HandshakeOK, TypeOK, Plays, Taps
    <3>. QED BY <1>1, <2>2, <3>1 DEF StreamOK, TapStreamIsFresh
  <2>3. CASE play.then # "begin" /\ ~(taps[w].stream = play.stream /\ old # Junk)
    <3>1. play.buf # << >> /\ play.buf \in Seq(Int)
      BY <1>1, <2>3 DEF OrderOK, TypeOK, Plays
    <3>2. 1 \in DOMAIN play.buf
      BY <3>1
    <3>. QED BY <2>3, <3>2 DEF FloorOK
  <2>. QED BY <2>1, <2>2, <2>3
<1>. HIDE DEF oldest, w
<1>3. DOMAIN taps' = DOMAIN taps
      /\ \A t \in DOMAIN taps :
           \/ taps'[t] = taps[t]
           \/ taps'[t].stream = play.stream /\ taps'[t].oldest = oldest
  BY <1>1
<1>4. \A t \in DOMAIN taps' : taps'[t].stream <= play'.stream
  BY <1>1, <1>3 DEF StreamOK
<1>5. TapStreamIsFresh'
  BY <1>1, <1>2, <1>3 DEF StreamOK, TapStreamIsFresh
<1>. QED BY <1>4, <1>5 DEF StreamOK

LEMMA StreamPlay ==
  ASSUME Assumptions, TypeOK, DoneOK, ThreadOK, HandshakeOK, OrderOK, FloorOK, StreamOK, PlayStep \/ Resume
  PROVE  StreamOK'
<1>. USE DEF PlayAt, Goto
<1>0. SizeAssumption /\ play \in Plays /\ (play.pc # "none" => thread = "live")
  BY DEF Assumptions, TypeOK, ThreadOK
<1>1. CASE UseTap BY <1>1, StreamUse
<1>2. CASE NewStream
  <2>1. play'.stream = play.stream + 1 /\ play.stream \in Nat /\ taps' = taps /\ thread' = thread
    BY <1>0, <1>2 DEF NewStream, Plays
  <2>2. \A t \in DOMAIN taps : taps[t].stream \in Nat /\ taps[t].stream <= play.stream
    BY DEF StreamOK, TypeOK, Streams
  <2>3. \A t \in DOMAIN taps' : taps'[t].stream < play'.stream
    BY <2>1, <2>2
  <2>4. \A t \in DOMAIN taps' : taps'[t].stream <= play'.stream /\ taps'[t].stream # play'.stream
    BY <2>1, <2>2
  <2>. QED BY <2>4 DEF StreamOK, TapStreamIsFresh
<1>3. CASE TakeFlush
  <2>1. taps' = taps /\ play'.stream = play.stream /\ thread' = thread /\ play.pc = "flush"
    BY <1>0, <1>3 DEF TakeFlush, Plays
  <2>2. CASE flags.flush
    <3>1. play'.pc = "dropQueue"
      BY <1>0, <1>3, <2>2 DEF TakeFlush, Plays
    <3>. QED BY <2>1, <3>1 DEF StreamOK, TapStreamIsFresh
  <2>3. CASE ~flags.flush
    <3>1. done' = done
      BY <1>3, <2>3 DEF TakeFlush
    <3>. QED BY <1>0, <2>1, <3>1, StreamFrame
  <2>. QED BY <2>2, <2>3
<1>4. CASE FlushDrop
  <2>1. taps' = taps /\ play'.stream = play.stream /\ play'.pc = "prepare" /\ done' = done
    BY <1>0, <1>4 DEF FlushDrop, Plays
  <2>. QED BY <2>1, StreamFrame
<1>5. CASE FlushPrepare
  <2>1. taps' = taps /\ play'.stream = play.stream /\ play'.pc = "newStream" /\ done' = done
    BY <1>0, <1>5 DEF FlushPrepare, Plays
  <2>. QED BY <2>1, StreamFrame
<1>6. CASE Take
  <2>1. taps' = taps /\ play'.stream = play.stream /\ done' = done /\ thread' = thread
        /\ play.pc \in {"read", "asleep"}
    BY <1>0, <1>6, TakeEffect DEF Take
  <2>. QED BY <1>0, <2>1, StreamFrame
<1>7. CASE LoopTop
  <2>1. taps' = taps /\ done' = done /\ play.pc = "loop" /\ thread' \in {thread, "exited"}
    BY <1>7 DEF LoopTop
  <2>2. play'.stream = play.stream
    BY <1>0, <1>7 DEF LoopTop, NoPlay, Plays
  <2>. QED BY <1>0, <2>1, <2>2, StreamFrame
<1>8. CASE ~UseTap /\ ~NewStream /\ ~TakeFlush /\ ~FlushDrop /\ ~FlushPrepare /\ ~Take /\ ~LoopTop
  <2>1. /\ taps' = taps /\ play'.stream = play.stream /\ done' = done /\ thread' = thread
        /\ play.pc \notin {"none", "dropQueue", "prepare", "newStream"}
    BY <1>0, <1>8 DEF PlayStep, Hint, LoadTap, Unbusy, Sleep, WakeForNothing, NextWrite, WriteAccepted,
         WriteFails, LookAgain, Recover, Resume, GiveUp, Plays
  <2>. QED BY <1>0, <2>1, StreamFrame
<1>. QED BY <1>1, <1>2, <1>3, <1>4, <1>5, <1>6, <1>7, <1>8

LEMMA StreamInv ==
  ASSUME Assumptions, TypeOK, DoneOK, ThreadOK, HandshakeOK, OrderOK, FloorOK, StreamOK, [Next]_vars
  PROVE  StreamOK'
<1>1. CASE MainCall \/ MainStep BY <1>1, StreamMain
<1>2. CASE PlayStep \/ Resume BY <1>2, StreamPlay
<1>3. CASE NetCall \/ NetStep \/ DevicePlays \/ DeviceSuspends \/ DeviceGone \/ UNCHANGED vars
  <2>1. UNCHANGED <<play, taps, thread>>
    BY <1>3 DEF NetCall, NetStep, Write, Fill, WaitEnds, netOnly,
         DevicePlays, DeviceSuspends, DeviceGone, deviceOnly, vars
  <2>2. done'.floor = done.floor
    BY <1>3 DEF NetCall, NetStep, Write, Fill, Put, WaitEnds,
         DevicePlays, DeviceSuspends, DeviceGone, deviceOnly, vars, DoneOK
  <2>. QED BY <2>1, <2>2, StreamFrame
<1>. QED BY <1>1, <1>2, <1>3 DEF Next

-----------------------------------------------------------------------------
(* The invariant, and what it implies.                                     *)

LEMMA InitInv ==
  ASSUME Assumptions, Init
  PROVE  IInv
<1>0. SizeAssumption /\ BoundAssumption
  BY DEF Assumptions
<1>1. TypeOK
  BY TypeInit
<1>2. DoneOK
  BY <1>0, TapFacts DEF Init, DoneOK
<1>3. ThreadOK /\ HandshakeOK
  BY DEF Init, NoPlay, ThreadOK, StopIsClean, NeverTerminates, PcmOutlivesThread, HandshakeOK
<1>4. FifoOK
  <2>1. Cap \in Nat \ {0} /\ B \in Nat \ {0} /\ 0 \in 0 .. Cap - 1 /\ 0 \in 0 .. B - 1
    BY <1>0, SizeFacts
  <2>2. 0 % Cap = 0 /\ 0 % B = 0
    BY <2>1, ModSmall
  <2>3. ring.head = 0 /\ ring.tail = 0 /\ ring.used = 0 /\ done.put = 0
    BY DEF Init
  <2>. QED BY <2>2, <2>3 DEF FifoOK, RingIsFifo
<1>5. OrderOK /\ FloorOK
  BY DEF Init, NoPlay, OrderOK, FloorOK
<1>6. StreamOK
  BY DEF Init, NoPlay, StreamOK, TapStreamIsFresh
<1>. QED BY <1>1, <1>2, <1>3, <1>4, <1>5, <1>6 DEF IInv

LEMMA StepInv ==
  ASSUME Assumptions, IInv, [Next]_vars
  PROVE  IInv'
<1>0. TypeOK /\ DoneOK /\ ThreadOK /\ HandshakeOK /\ FifoOK /\ OrderOK /\ FloorOK /\ StreamOK
  BY DEF IInv
<1>1. TypeOK'
  BY <1>0, TypeMain, TypeNet, TypePlay, TypeDevice, TypeStutter DEF Next
<1>2. DoneOK' BY <1>0, DoneInv
<1>3. ThreadOK' BY <1>0, ThreadInv
<1>4. HandshakeOK' BY <1>0, HandshakeInv
<1>5. FifoOK' BY <1>0, FifoInv
<1>6. OrderOK' BY <1>0, OrderInv
<1>7. FloorOK' BY <1>0, FloorInv
<1>8. StreamOK' BY <1>0, StreamInv
<1>. QED BY <1>1, <1>2, <1>3, <1>4, <1>5, <1>6, <1>7, <1>8 DEF IInv

(* The ring, the period and the queue are in order, with no byte of what a *)
(* flush has dropped.                                                      *)
LEMMA InOrder ==
  ASSUME IInv
  PROVE  BytesInOrder
<1>1. RingIsFifo
  BY DEF IInv, FifoOK
<1>2. PeriodIsWhole
  BY DEF IInv, OrderOK, PeriodIsWhole
<1>3. FlushedIsGone
  BY DEF IInv, FloorOK, FlushedIsGone
<1>. QED BY <1>1, <1>2, <1>3 DEF BytesInOrder

(* A Writer in use is the published one, which the main thread owns or is  *)
(* about to own, or the one it waits for; at endPrev there is no such wait.*)
LEMMA InUse ==
  ASSUME IInv
  PROVE  TapIsOwned
<1>1. WriterIsLive
  BY DEF IInv, HandshakeOK, WriterIsLive
<1>2. TapStreamIsFresh
  BY DEF IInv, StreamOK
<1>. QED BY <1>1, <1>2 DEF TapIsOwned

LEMMA Invariant ==
  ASSUME SizeAssumption, InputAssumption, BoundAssumption
  PROVE  Spec => []IInv
<1>. USE DEF Assumptions
<1>1. Init => IInv
  BY InitInv
<1>2. IInv /\ [Next]_vars => IInv'
  BY StepInv
<1>. QED BY <1>1, <1>2, PTL DEF Spec

(* Every variable keeps its type and the ring its indices, whatever the    *)
(* size of the ring, of a frame and of a period.                           *)
THEOREM SinkTypes ==
  ASSUME SizeAssumption, InputAssumption, BoundAssumption
  PROVE  Spec => []TypeOK
<1>1. IInv => TypeOK
  BY DEF IInv
<1>. QED BY <1>1, Invariant, PTL

(* The bytes come out of write(), the ring, a period and the device in the *)
(* order they went in, in whole frames, without those a clear() cut off:   *)
(* alsa_pipe_sink.cpp's ring arithmetic and its flush.                     *)
THEOREM BytesStayInOrder ==
  ASSUME SizeAssumption, InputAssumption, BoundAssumption
  PROVE  Spec => []BytesInOrder
<1>1. IInv => BytesInOrder
  BY InOrder
<1>. QED BY <1>1, Invariant, PTL

(* set_pcm_tap() never ends or frees a Writer with_tap() is using, and a   *)
(* stream of the tap has only its own samples.                             *)
THEOREM TapStaysOwned ==
  ASSUME SizeAssumption, InputAssumption, BoundAssumption
  PROVE  Spec => []TapIsOwned
<1>1. IInv => TapIsOwned
  BY InUse
<1>. QED BY <1>1, Invariant, PTL

(* stop() leaves no joinable thread behind and no thread without a device. *)
THEOREM StopStaysClean ==
  ASSUME SizeAssumption, InputAssumption, BoundAssumption
  PROVE  Spec => []StopIsClean
<1>1. IInv => StopIsClean
  BY DEF IInv, ThreadOK
<1>. QED BY <1>1, Invariant, PTL
=============================================================================
