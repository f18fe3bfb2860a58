---------------------------- MODULE RolesProofs -----------------------------
(***************************************************************************)
(* Proofs about the player's display roles.                                *)
(*                                                                         *)
(* The visualizer's gate (VizGate) holds for every slack below the margin, *)
(* however late a callback reaches the main loop and wherever the drain    *)
(* thread is.  It never compares streams: it compares a frame's due time   *)
(* with the time of the boundary.  That this is enough takes BoundaryOK: a *)
(* frame of an older stream was checked before that stream's end, hence    *)
(* before its boundary, hence it is due no later than Slack after it.      *)
(*                                                                         *)
(* The artwork store (ArtworkStore) keeps the files it names.  What take() *)
(* deletes is what falls off the deque, and the deque holds no image       *)
(* twice: so what falls off is not in it any more.  The screen's file is   *)
(* kept because the image put up last is the deque's first (FrontIsUp).    *)
(***************************************************************************)
EXTENDS VizGate, ArtworkStore, TLAPS, SequenceTheorems

(***************************************************************************)
(* The gate.                                                               *)
(***************************************************************************)
GateTypesOK ==
  /\ now \in Nat /\ stream \in Nat /\ queue \in Seq(Nat)
  /\ drain \in [pc : {"idle", "hint", "emit"}, stream : Nat, due : Int]
  /\ gate \in [enabled : BOOLEAN, boundary : Nat \union {NoBoundary}, stream : Nat]
  /\ last \in [kind : {"frame", "boundary", "ack"}, stream : Nat, told : BOOLEAN]

\* A frame on its way is due at most Slack from now, and at most Slack after
\* the boundary if that belongs to a newer stream.
BoundaryOK ==
  drain.pc # "idle" =>
    /\ drain.due <= now + Slack
    /\ drain.stream < gate.stream =>
         gate.boundary # NoBoundary /\ drain.due <= gate.boundary + Slack

\* What the main loop was told of has begun.
MarksOK == gate.stream <= stream /\ \A k \in 1 .. Len(queue) : queue[k] <= stream

GateInv == GateTypesOK /\ BoundaryOK /\ MarksOK /\ last.told = gate.enabled

LEMMA GateStarts ==
  ASSUME Init PROVE GateInv
BY DEF Init, GateInv, GateTypesOK, BoundaryOK, MarksOK, Idle, NoBoundary

\* What the library and the main thread do to a frame on its way.
LEMMA GateMainSteps ==
  ASSUME TimeAssumption, GateInv,
         Tick \/ Mark \/ Boundary \/ (\E enabled \in BOOLEAN : SetEnabled(enabled))
  PROVE  GateInv'
<1>. USE DEF GateInv, GateTypesOK, BoundaryOK, MarksOK, TimeAssumption
<1>1. CASE Tick
  BY <1>1 DEF Tick
<1>2. CASE Mark
  <2>1. UNCHANGED <<now, drain, gate, last>> /\ stream' = stream + 1
    BY <1>2 DEF Mark
  <2>2. queue' \in Seq(Nat) /\ \A k \in 1 .. Len(queue') : queue'[k] <= stream'
    BY <1>2 DEF Mark
  <2>. QED BY <2>1, <2>2
<1>3. CASE Boundary
  <2>1. PICK begun : begun = Head(queue)
    OBVIOUS
  <2>2. /\ begun \in Nat /\ begun <= stream /\ queue' \in Seq(Nat)
        /\ \A k \in 1 .. Len(queue') : queue'[k] <= stream
    <3>1. queue \in Seq(Nat) /\ queue # << >> /\ queue' = Tail(queue)
      BY <1>3 DEF Boundary
    <3>2. /\ begun \in Nat /\ begun = queue[1] /\ 1 \in 1 .. Len(queue)
          /\ queue' \in Seq(Nat) /\ Len(queue') = Len(queue) - 1 /\ Len(queue) \in Nat
          /\ \A k \in 1 .. Len(queue') : queue'[k] = queue[k + 1]
      BY <2>1, <3>1, HeadTailProperties
    <3>. HIDE DEF GateTypesOK, BoundaryOK
    <3>. QED BY <3>2
  <2>3. /\ gate' = [gate EXCEPT !.boundary = now, !.stream = begun]
        /\ last' = [last EXCEPT !.kind = "boundary", !.stream = begun]
        /\ UNCHANGED <<now, stream, drain>>
    BY <1>3, <2>1 DEF Boundary
  <2>4. /\ gate'.boundary = now /\ gate'.enabled = gate.enabled /\ gate'.stream = begun
        /\ gate' \in [enabled : BOOLEAN, boundary : Nat \union {NoBoundary}, stream : Nat]
    BY <2>2, <2>3
  <2>5. /\ last'.told = last.told
        /\ last' \in [kind : {"frame", "boundary", "ack"}, stream : Nat, told : BOOLEAN]
    BY <2>2, <2>3
  <2>6. now # NoBoundary
    BY DEF NoBoundary
  <2>. QED BY <2>2, <2>3, <2>4, <2>5, <2>6
<1>4. ASSUME NEW enabled \in BOOLEAN, SetEnabled(enabled)
      PROVE  GateInv'
  <2>1. /\ gate' = [gate EXCEPT !.enabled = enabled]
        /\ last' = [kind |-> "ack", stream |-> 0, told |-> enabled]
        /\ UNCHANGED <<now, stream, queue, drain>>
    BY <1>4 DEF SetEnabled
  <2>2. /\ gate'.boundary = gate.boundary /\ gate'.stream = gate.stream
        /\ gate' \in [enabled : BOOLEAN, boundary : Nat \union {NoBoundary}, stream : Nat]
    BY <2>1
  <2>3. last' \in [kind : {"frame", "boundary", "ack"}, stream : Nat, told : BOOLEAN]
    BY <2>1
  <2>4. last'.told = gate'.enabled
    BY <2>1, Zenon
  <2>. QED BY <2>1, <2>2, <2>3, <2>4
<1>. QED BY <1>1, <1>2, <1>3, <1>4

\* What the drain thread does: a frame is checked, let through, written or dropped.
LEMMA GateDrainSteps ==
  ASSUME TimeAssumption, GateInv, Hint \/ Write \/ Drop \/ (\E due \in Int : Check(due))
  PROVE  GateInv'
<1>. USE DEF GateInv, GateTypesOK, BoundaryOK, MarksOK, TimeAssumption, Idle
<1>1. CASE Hint
  BY <1>1 DEF Hint
<1>2. CASE Write
  <2>1. drain' = Idle /\ UNCHANGED <<now, stream, queue, gate>>
    BY <1>2 DEF Write
  <2>2. /\ last'.told = last.told
        /\ last' \in [kind : {"frame", "boundary", "ack"}, stream : Nat, told : BOOLEAN]
    BY <1>2 DEF Write
  <2>. QED BY <2>1, <2>2
<1>3. CASE Drop
  BY <1>3 DEF Drop
<1>4. CASE \E due \in Int : Check(due)
  BY <1>4 DEF Check
<1>. QED BY <1>1, <1>2, <1>3, <1>4

\* A step that writes a frame is Write; the frame that passes the gate is
\* not of an older stream than the boundary's, and the last ack said on.
LEMMA WritesWell ==
  ASSUME TimeAssumption, GateInv, [Next]_vars
  PROVE  FrameIsOfStream /\ FrameIsEnabled
<1>1. SUFFICES ASSUME WritesFrame
               PROVE  drain.stream >= gate.stream /\ last.told
  BY DEF FrameIsOfStream, FrameIsEnabled
<1>2. drain.pc = "emit" /\ last'.kind = "frame" /\ last' # last /\ drain' = Idle /\ drain' # drain
  BY <1>1 DEF WritesFrame, Idle
<1>3. Write
  BY <1>2 DEF Next, vars, Tick, Mark, Check, Hint, Drop, Boundary, SetEnabled
<1>4. gate.enabled /\ ~Late(drain.due)
  BY <1>3 DEF Write, Passes
<1>5. last.told
  BY <1>4 DEF GateInv
<1>6. drain.stream >= gate.stream
  BY <1>2, <1>4 DEF GateInv, GateTypesOK, BoundaryOK, Late, TimeAssumption
<1>. QED BY <1>5, <1>6

\* No visualizer frame follows the boundary that ends its stream, and none
\* the ack of viz_enable:false, for any slack below the margin, any clock and
\* any number of streams (viz_gate.h:20-60).
THEOREM GateIsTight ==
  ASSUME TimeAssumption
  PROVE  Spec => GateHolds
<1>1. Init => GateInv
  BY GateStarts
<1>2. GateInv /\ [Next]_vars => GateInv'
  <2>1. SUFFICES ASSUME GateInv, [Next]_vars PROVE GateInv'
    OBVIOUS
  <2>2. CASE Tick \/ Mark \/ Boundary \/ (\E enabled \in BOOLEAN : SetEnabled(enabled))
    BY <2>1, <2>2, GateMainSteps
  <2>3. CASE Hint \/ Write \/ Drop \/ (\E due \in Int : Check(due))
    BY <2>1, <2>3, GateDrainSteps
  <2>4. CASE UNCHANGED vars
    BY <2>1, <2>4 DEF vars, GateInv, GateTypesOK, BoundaryOK, MarksOK
  <2>5. -Slack .. MaxTime + Slack \subseteq Int
    OBVIOUS
  <2>. QED BY <2>1, <2>2, <2>3, <2>4, <2>5 DEF Next
<1>3. GateInv /\ [Next]_vars => [FrameIsOfStream /\ FrameIsEnabled]_vars
  BY WritesWell
<1>. QED BY <1>1, <1>2, <1>3, PTL DEF Spec, GateHolds

(***************************************************************************)
(* The artwork store.                                                      *)
(***************************************************************************)
\* With one slot the image on the screen is the one displayed last.
FrontIsUp ==
  (\A s, t \in DOMAIN screen : s = t)
    => \A s \in DOMAIN screen : screen[s] # None => Len(shown) > 0 /\ shown[1] = screen[s]

ArtInv == ArtTypeOK /\ NeededExist /\ StrayIsLost /\ FrontIsUp

\* No image is in the sequence twice.
Once(q) == \A i, j \in 1 .. Len(q) : q[i] = q[j] => i = j

LEMMA ShownRange ==
  ASSUME NEW q \in Seq(Images)
  PROVE  /\ ShownIn(q) = {q[i] : i \in 1 .. Len(q)}
         /\ IsInjective(q) <=> Once(q)
<1>1. DOMAIN q = 1 .. Len(q)
  OBVIOUS
<1>. QED BY <1>1 DEF ShownIn, Range, IsInjective, Once

\* The sequence without its k-th element.
LEMMA RemoveAtElements ==
  ASSUME NEW q \in Seq(Images), NEW n \in Nat, n = Len(q), NEW k \in 1 .. n
  PROVE  /\ RemoveAt(q, k) \in Seq(Images) /\ Len(RemoveAt(q, k)) = n - 1
         /\ \A i \in 1 .. n - 1 : RemoveAt(q, k)[i] = IF i < k THEN q[i] ELSE q[i + 1]
<1>. DEFINE a == SubSeq(q, 1, k - 1)
            b == SubSeq(q, k + 1, n)
<1>1. n \in Nat /\ k \in Int /\ 1 <= k /\ k <= n
  OBVIOUS
<1>2. /\ a \in Seq(Images) /\ Len(a) = k - 1 /\ \A i \in 1 .. k - 1 : a[i] = q[i]
  BY <1>1, SubSeqProperties
<1>3. /\ b \in Seq(Images) /\ Len(b) = n - k /\ \A i \in 1 .. n - k : b[i] = q[k + i]
  <2>1. \A i \in k + 1 .. n : q[i] \in Images
    BY <1>1
  <2>2. k + 1 \in 1 .. Len(q) + 1 /\ n \in (k + 1) - 1 .. Len(q)
    BY <1>1
  <2>3. b \in Seq(Images) /\ Len(b) = n - k
    BY <1>1, <2>2, SubSeqProperties
  <2>4. ASSUME NEW i \in 1 .. n - k PROVE b[i] = q[k + i]
    <3>1. b[i] = q[(k + 1) + i - 1]
      BY <1>1, <2>2, <2>3, SubSeqProperties
    <3>. QED BY <1>1, <3>1
  <2>. QED BY <2>3, <2>4
<1>. HIDE DEF a, b
<1>4. /\ a \o b \in Seq(Images) /\ Len(a \o b) = n - 1
      /\ \A i \in 1 .. n - 1 : (a \o b)[i] = IF i < k THEN a[i] ELSE b[i - (k - 1)]
  <2>1. /\ a \o b \in Seq(Images) /\ Len(a \o b) = Len(a) + Len(b)
        /\ \A i \in 1 .. Len(a) + Len(b) :
             (a \o b)[i] = IF i <= Len(a) THEN a[i] ELSE b[i - Len(a)]
    BY <1>2, <1>3, ConcatProperties
  <2>2. Len(a) + Len(b) = n - 1 /\ Len(a) = k - 1
    BY <1>1, <1>2, <1>3
  <2>. HIDE <1>2, <1>3
  <2>3. \A i \in 1 .. n - 1 : i <= k - 1 <=> i < k
    BY <1>1
  <2>. QED BY <2>1, <2>2, <2>3
<1>5. ASSUME NEW i \in 1 .. n - 1 PROVE (a \o b)[i] = IF i < k THEN q[i] ELSE q[i + 1]
  <2>1. CASE i < k
    BY <1>1, <1>2, <1>4, <2>1
  <2>2. CASE ~(i < k)
    <3>1. i - (k - 1) \in 1 .. n - k /\ k + (i - (k - 1)) = i + 1
      BY <1>1, <2>2
    <3>2. b[i - (k - 1)] = q[k + (i - (k - 1))]
      BY <1>3, <3>1
    <3>. QED BY <1>4, <2>2, <3>1, <3>2
  <2>. QED BY <2>1, <2>2
<1>. QED BY <1>4, <1>5 DEF a, b, RemoveAt

\* Taking the image out of the deque keeps the others, in order.
LEMMA WithoutElements ==
  ASSUME NEW q \in Seq(Images), NEW image \in Images, Once(q)
  PROVE  /\ Without(q, image) \in Seq(Images)
         /\ Once(Without(q, image))
         /\ ShownIn(Without(q, image)) = ShownIn(q) \ {image}
<1>. DEFINE w == Without(q, image)
<1>1. CASE image \notin ShownIn(q)
  <2>1. w = q
    BY <1>1 DEF Without
  <2>. QED BY <1>1, <2>1
<1>2. CASE image \in ShownIn(q)
  <2>. DEFINE k == CHOOSE i \in DOMAIN q : q[i] = image
              n == Len(q)
  <2>1. n \in Nat /\ DOMAIN q = 1 .. n
    OBVIOUS
  <2>2. k \in 1 .. n /\ q[k] = image
    BY <1>2, <2>1 DEF ShownIn, Range
  <2>3. w = RemoveAt(q, k)
    BY <1>2 DEF Without
  <2>. HIDE DEF w, k, n
  <2>6. /\ w \in Seq(Images) /\ Len(w) = n - 1
        /\ \A i \in 1 .. n - 1 : w[i] = IF i < k THEN q[i] ELSE q[i + 1]
    <3>1. n = Len(q)
      BY DEF n
    <3>2. /\ RemoveAt(q, k) \in Seq(Images) /\ Len(RemoveAt(q, k)) = n - 1
          /\ \A i \in 1 .. n - 1 : RemoveAt(q, k)[i] = IF i < k THEN q[i] ELSE q[i + 1]
      BY <2>1, <2>2, <3>1, RemoveAtElements
    <3>. QED BY <2>3, <3>2
  <2>7. Once(w)
    <3>. SUFFICES ASSUME NEW i \in 1 .. n - 1, NEW j \in 1 .. n - 1, w[i] = w[j] PROVE i = j
      BY <2>6 DEF Once
    <3>. DEFINE At(x) == IF x < k THEN x ELSE x + 1
    <3>1. At(i) \in 1 .. n /\ At(j) \in 1 .. n
      BY <2>1, <2>2
    <3>2. q[At(i)] = q[At(j)]
      BY <2>6
    <3>3. At(i) = At(j)
      <4>. HIDE DEF At
      <4>. QED BY <3>1, <3>2 DEF Once, n
    <3>. QED BY <2>1, <2>2, <3>3
  <2>8. \A x : x \in ShownIn(w) <=> x \in ShownIn(q) /\ x # image
    <3>1. ASSUME NEW x, x \in ShownIn(w) PROVE x \in ShownIn(q) /\ x # image
      <4>1. PICK i \in 1 .. n - 1 : x = w[i]
        BY <2>6, <3>1, ShownRange
      <4>2. (x = q[i] /\ i # k) \/ (x = q[i + 1] /\ i + 1 # k)
        BY <2>1, <2>2, <2>6, <4>1
      <4>3. i \in 1 .. n /\ i + 1 \in 1 .. n
        BY <2>1, <4>1
      <4>. QED BY <2>1, <2>2, <4>2, <4>3, ShownRange DEF Once
    <3>2. ASSUME NEW x, x \in ShownIn(q), x # image PROVE x \in ShownIn(w)
      <4>1. PICK i \in 1 .. n : x = q[i]
        BY <2>1, <3>2, ShownRange
      <4>2. i # k
        BY <2>2, <3>2, <4>1
      <4>3. PICK j \in 1 .. n - 1 : w[j] = x
        <5>1. CASE i < k
          BY <2>1, <2>2, <2>6, <4>1, <5>1
        <5>2. CASE i > k
          <6>1. i - 1 \in 1 .. n - 1 /\ ~(i - 1 < k) /\ (i - 1) + 1 = i
            BY <2>1, <2>2, <5>2
          <6>. QED BY <2>6, <4>1, <6>1
        <5>. QED BY <2>1, <2>2, <4>2, <5>1, <5>2
      <4>. QED BY <2>6, <4>3, ShownRange
    <3>. QED BY <3>1, <3>2
  <2>. QED BY <2>6, <2>7, <2>8 DEF w
<1>. QED BY <1>1, <1>2

LEMMA Members ==
  ASSUME NEW q \in Seq(Images), NEW n \in Nat, n = Len(q), NEW x
  PROVE  x \in ShownIn(q) <=> \E i \in 1 .. n : q[i] = x
BY ShownRange

\* Putting an image that is not in the deque before the others.
LEMMA PushElements ==
  ASSUME NEW w \in Seq(Images), NEW image \in Images, Once(w), image \notin ShownIn(w),
         NEW q, q = <<image>> \o w
  PROVE  /\ q \in Seq(Images) /\ Once(q) /\ Len(q) > 0 /\ q[1] = image
         /\ ShownIn(q) = ShownIn(w) \union {image}
<1>1. PICK m \in Nat : m = Len(w)
  OBVIOUS
<1>2. /\ q \in Seq(Images) /\ Len(q) = m + 1 /\ q[1] = image
      /\ \A i \in 2 .. m + 1 : q[i] = w[i - 1]
  BY <1>1
<1>3. \A x : x \in ShownIn(w) <=> \E i \in 1 .. m : w[i] = x
  BY <1>1, Members
<1>4. \A x : x \in ShownIn(q) <=> \E i \in 1 .. m + 1 : q[i] = x
  <2>1. m + 1 \in Nat
    BY <1>1
  <2>. QED BY <1>2, <2>1, Members
<1>5. \A i \in 1 .. m + 1 : i = 1 \/ i \in 2 .. m + 1
  BY <1>1
<1>6. \A i \in 2 .. m + 1 : i - 1 \in 1 .. m /\ (i - 1) + 1 = i /\ w[i - 1] # image
  BY <1>1, <1>3
<1>7. Once(q)
  <2>. SUFFICES ASSUME NEW i \in 1 .. m + 1, NEW j \in 1 .. m + 1, q[i] = q[j]
                PROVE  i = j
    BY <1>2 DEF Once
  <2>1. CASE i = 1 \/ j = 1
    BY <1>2, <1>5, <1>6, <2>1
  <2>2. CASE i # 1 /\ j # 1
    <3>1. i - 1 \in 1 .. m /\ j - 1 \in 1 .. m /\ w[i - 1] = w[j - 1]
      BY <1>2, <1>5, <1>6, <2>2
    <3>2. i - 1 = j - 1
      BY <1>1, <3>1 DEF Once
    <3>. QED BY <3>2
  <2>. QED BY <2>1, <2>2
<1>8. ASSUME NEW x, x \in ShownIn(q) PROVE x \in ShownIn(w) \union {image}
  <2>1. PICK i \in 1 .. m + 1 : q[i] = x
    BY <1>4, <1>8
  <2>. QED BY <1>2, <1>3, <1>5, <1>6, <2>1
<1>9. ASSUME NEW x \in ShownIn(w) PROVE x \in ShownIn(q)
  <2>1. PICK i \in 1 .. m : w[i] = x
    BY <1>3
  <2>2. i + 1 \in 2 .. m + 1 /\ (i + 1) - 1 = i /\ i + 1 \in 1 .. m + 1
    BY <1>1
  <2>. QED BY <1>2, <1>4, <2>1, <2>2
<1>10. 1 \in 1 .. m + 1
  BY <1>1
<1>11. image \in ShownIn(q)
  BY <1>2, <1>4, <1>10
<1>. QED BY <1>1, <1>2, <1>7, <1>8, <1>9, <1>11

\* What is left of the deque when it is cut at Keep.
LEMMA KeptElements ==
  ASSUME KeepAssumption, NEW q \in Seq(Images), Once(q), Len(q) > 0
  PROVE  /\ Kept(q) \in Seq(Images) /\ Once(Kept(q)) /\ Len(Kept(q)) <= Keep
         /\ Len(Kept(q)) > 0 /\ Kept(q)[1] = q[1]
         /\ ShownIn(Kept(q)) \subseteq ShownIn(q)
<1>1. PICK n \in Nat : n = Len(q)
  OBVIOUS
<1>2. CASE n > Keep
  <2>. DEFINE k == SubSeq(q, 1, Keep)
  <2>1. Kept(q) = k
    BY <1>1, <1>2 DEF Kept
  <2>2. \A i \in 1 .. Keep : q[i] \in Images
    BY <1>1, <1>2 DEF KeepAssumption
  <2>3. k \in Seq(Images) /\ Len(k) = Keep /\ \A i \in 1 .. Keep : k[i] = q[i]
    BY <2>2, SubSeqProperties DEF KeepAssumption
  <2>. HIDE DEF k
  <2>4. Keep \in Nat /\ 1 \in 1 .. Keep /\ 1 .. Keep \subseteq 1 .. n
    BY <1>1, <1>2 DEF KeepAssumption
  <2>5. Once(k)
    BY <1>1, <2>3, <2>4 DEF Once
  <2>6. ASSUME NEW x \in ShownIn(k) PROVE x \in ShownIn(q)
    <3>1. PICK i \in 1 .. Keep : k[i] = x
      BY <2>3, <2>4, Members
    <3>. QED BY <1>1, <2>3, <2>4, <3>1, Members
  <2>. QED BY <2>1, <2>3, <2>4, <2>5, <2>6
<1>3. CASE ~(n > Keep)
  <2>1. Kept(q) = q /\ n <= Keep
    BY <1>1, <1>3 DEF Kept, KeepAssumption
  <2>. QED BY <1>1, <2>1
<1>. QED BY <1>2, <1>3

\* What take() makes of the deque: the image, then the others, cut at Keep.
LEMMA FrontElements ==
  ASSUME NEW q \in Seq(Images), NEW image \in Images, Once(q), KeepAssumption
  PROVE  LET front == ToFront(q, image)
         IN  /\ ShownIn(front) = ShownIn(q) \union {image}
             /\ Kept(front) \in Seq(Images) /\ Once(Kept(front)) /\ Len(Kept(front)) <= Keep
             /\ Len(Kept(front)) > 0 /\ Kept(front)[1] = image
             /\ ShownIn(Kept(front)) \subseteq ShownIn(front)
<1>1. PICK w, front : w = Without(q, image) /\ front = ToFront(q, image)
  OBVIOUS
<1>2. w \in Seq(Images) /\ Once(w) /\ ShownIn(w) = ShownIn(q) \ {image}
  BY <1>1, WithoutElements
<1>3. front = <<image>> \o w /\ image \notin ShownIn(w)
  BY <1>1, <1>2 DEF ToFront
<1>4. /\ front \in Seq(Images) /\ Once(front) /\ Len(front) > 0 /\ front[1] = image
      /\ ShownIn(front) = ShownIn(w) \union {image}
  BY <1>2, <1>3, PushElements, Zenon
<1>5. /\ Kept(front) \in Seq(Images) /\ Once(Kept(front)) /\ Len(Kept(front)) <= Keep
      /\ Len(Kept(front)) > 0 /\ Kept(front)[1] = front[1]
      /\ ShownIn(Kept(front)) \subseteq ShownIn(front)
  BY <1>4, KeptElements, Zenon
<1>6. /\ ShownIn(front) = ShownIn(q) \union {image}
      /\ Kept(front)[1] = image
  BY <1>2, <1>4, <1>5
<1>. QED BY <1>1, <1>5, <1>6, Zenon

-----------------------------------------------------------------------------
LEMMA ArtStarts ==
  ASSUME KeepAssumption, ArtInit PROVE ArtInv
<1>1. shown \in Seq(Images) /\ ShownIn(shown) = {} /\ IsInjective(shown) /\ Len(shown) = 0
  BY DEF ArtInit, ShownIn, Range, IsInjective
<1>2. PendingIn(pending) = {}
  BY DEF ArtInit, PendingIn, Range
<1>. QED BY <1>1, <1>2 DEF ArtInit, ArtInv, ArtTypeOK, KeepAssumption, NeededExist, StrayIsLost, FrontIsUp

\* Which images are pending, and which when a slot has got another.
LEMMA PendingElements ==
  ASSUME NEW f \in [Slots -> Images \union {None}], NEW slot \in Slots, NEW x
  PROVE  x \in PendingIn(f)
           <=> x # None /\ (x = f[slot] \/ \E s \in Slots \ {slot} : f[s] = x)
BY DEF PendingIn, Range

LEMMA PendingChange ==
  ASSUME NEW f \in [Slots -> Images \union {None}], NEW g \in [Slots -> Images \union {None}],
         NEW slot \in Slots, \A s \in Slots \ {slot} : g[s] = f[s], NEW x
  PROVE  x \in PendingIn(g)
           <=> x # None /\ (x = g[slot] \/ \E s \in Slots \ {slot} : f[s] = x)
BY DEF PendingIn, Range

\* Staging an image, written or not.
LEMMA ArtStages ==
  ASSUME KeepAssumption, ImageAssumption, ArtInv, NEW slot \in Slots, NEW image \in Images,
         NEW ok \in BOOLEAN, Stage(slot, image, ok)
  PROVE  ArtInv'
<1>. DEFINE old == pending[slot]
            rest == [pending EXCEPT ![slot] = None]
            gone == Replaced(slot, image)
<1>1. /\ files' = (files \union (IF ok THEN {image} ELSE {})) \ gone
      /\ pending' = [pending EXCEPT ![slot] = IF ok THEN image ELSE None]
      /\ decoded' = decoded \union {slot}
      /\ lost' = IF ok THEN lost \ {image} ELSE lost \union ({old} \intersect {image})
      /\ shown' = shown /\ screen' = screen
  BY DEF Stage
<1>2. /\ pending \in [Slots -> Images \union {None}] /\ old \in Images \union {None}
      /\ rest \in [Slots -> Images \union {None}]
      /\ pending' \in [Slots -> Images \union {None}]
  BY <1>1 DEF ArtInv, ArtTypeOK
<1>3. \A x : x \in gone <=> x = old /\ x \notin ShownIn(shown) /\ x \notin PendingIn(rest) /\ x # image
  BY DEF Replaced
<1>4. ASSUME NEW x
      PROVE  /\ x \in PendingIn(pending') <=> x \in PendingIn(rest) \/ (ok /\ x = image)
             /\ x \in PendingIn(pending) <=> x \in PendingIn(rest) \/ (x = old /\ x # None)
  <2>1. PICK r \in [Slots -> Images \union {None}], p \in [Slots -> Images \union {None}] :
          r = rest /\ p = pending'
    BY <1>2
  <2>2. /\ \A s \in Slots \ {slot} : r[s] = pending[s] /\ p[s] = pending[s]
        /\ r[slot] = None /\ p[slot] = IF ok THEN image ELSE None
    BY <1>1, <1>2, <2>1
  <2>3. old = pending[slot]
    OBVIOUS
  <2>. HIDE DEF rest, old
  <2>4. x \in PendingIn(r) <=> x # None /\ (x = r[slot] \/ \E s \in Slots \ {slot} : pending[s] = x)
    BY <1>2, <2>2, PendingChange
  <2>5. x \in PendingIn(p) <=> x # None /\ (x = p[slot] \/ \E s \in Slots \ {slot} : pending[s] = x)
    BY <1>2, <2>2, PendingChange
  <2>6. x \in PendingIn(pending)
          <=> x # None /\ (x = pending[slot] \/ \E s \in Slots \ {slot} : pending[s] = x)
    BY <1>2, PendingElements
  <2>. QED BY <2>1, <2>2, <2>3, <2>4, <2>5, <2>6 DEF ImageAssumption
<1>5. \A x : x \in PendingIn(pending) <=> x \in PendingIn(rest) \/ (x = old /\ x # None)
  BY <1>4
<1>. HIDE DEF old, rest, gone
<1>6. ArtTypeOK' /\ FrontIsUp'
  BY <1>1, <1>2 DEF ArtInv, ArtTypeOK, FrontIsUp
<1>7. NeededExist'
  <2>. SUFFICES ASSUME NEW x, x \in ShownIn(shown) \/ x \in PendingIn(pending') PROVE x \in files'
    BY <1>1 DEF NeededExist
  <2>1. x \in files \/ (ok /\ x = image)
    BY <1>4, <1>5 DEF ArtInv, NeededExist
  <2>2. x \notin gone
    BY <1>3, <1>4
  <2>. QED BY <1>1, <2>1, <2>2
<1>8. StrayIsLost'
  <2>. SUFFICES ASSUME NEW x \in files', x \notin ShownIn(shown), x \notin PendingIn(pending')
                PROVE  x \in lost'
    BY <1>1 DEF StrayIsLost
  <2>1. x \in files /\ x \notin gone /\ (ok => x # image)
    BY <1>1, <1>4
  <2>2. x \in PendingIn(pending) \union lost
    BY <2>1 DEF ArtInv, StrayIsLost
  <2>3. CASE x \in lost
    BY <1>1, <2>1, <2>3
  <2>4. CASE x \in PendingIn(pending)
    BY <1>1, <1>3, <1>4, <1>5, <2>1, <2>4
  <2>. QED BY <2>2, <2>3, <2>4
<1>. QED BY <1>6, <1>7, <1>8 DEF ArtInv

\* An image is displayed: older ones go.
LEMMA ArtDisplays ==
  ASSUME KeepAssumption, ImageAssumption, ArtInv, NEW slot \in Slots, Display(slot)
  PROVE  ArtInv'
<1>. DEFINE image == pending[slot]
            rest == [pending EXCEPT ![slot] = None]
            front == ToFront(shown, image)
<1>1. /\ image # None /\ pending' = rest /\ shown' = Kept(front)
      /\ files' = files \ Victims(front, rest)
      /\ screen' = [screen EXCEPT ![slot] = image] /\ decoded' = decoded \ {slot}
      /\ lost' = lost
  BY DEF Display
<1>2. /\ image \in Images /\ rest \in [Slots -> Images \union {None}]
      /\ pending \in [Slots -> Images \union {None}] /\ shown \in Seq(Images)
      /\ Once(shown)
  BY <1>1, ShownRange DEF ArtInv, ArtTypeOK
<1>3. ASSUME NEW x
      PROVE  x \in PendingIn(pending) <=> x \in PendingIn(rest) \/ x = image
  <2>1. PICK r \in [Slots -> Images \union {None}] : r = rest
    BY <1>2
  <2>2. r[slot] = None /\ image = pending[slot] /\ \A s \in Slots \ {slot} : r[s] = pending[s]
    BY <1>2, <2>1
  <2>. HIDE DEF rest, image
  <2>3. x \in PendingIn(r) <=> x # None /\ (x = r[slot] \/ \E s \in Slots \ {slot} : pending[s] = x)
    BY <1>2, <2>2, PendingChange
  <2>4. x \in PendingIn(pending)
          <=> x # None /\ (x = pending[slot] \/ \E s \in Slots \ {slot} : pending[s] = x)
    BY <1>2, PendingElements
  <2>. QED BY <1>1, <2>1, <2>2, <2>3, <2>4
<1>4. \A x : x \in Victims(front, rest)
         <=> x \in ShownIn(front) /\ x \notin ShownIn(Kept(front)) /\ x \notin PendingIn(rest)
  BY DEF Victims
<1>. HIDE DEF rest, image
<1>5. PICK f : f = front
  OBVIOUS
<1>6. /\ ShownIn(f) = ShownIn(shown) \union {image}
      /\ shown' \in Seq(Images) /\ Once(shown') /\ Len(shown') <= Keep
      /\ Len(shown') > 0 /\ shown'[1] = image
      /\ ShownIn(shown') \subseteq ShownIn(f) /\ shown' = Kept(f)
  <2>1. PICK q, i : q = shown /\ i = image /\ q \in Seq(Images) /\ i \in Images /\ Once(q)
    BY <1>2
  <2>2. f = ToFront(q, i) /\ shown' = Kept(f)
    BY <1>1, <1>5, <2>1
  <2>. HIDE DEF front
  <2>3. LET g == ToFront(q, i)
        IN  /\ ShownIn(g) = ShownIn(q) \union {i}
            /\ Kept(g) \in Seq(Images) /\ Once(Kept(g)) /\ Len(Kept(g)) <= Keep
            /\ Len(Kept(g)) > 0 /\ Kept(g)[1] = i
            /\ ShownIn(Kept(g)) \subseteq ShownIn(g)
    BY <2>1, FrontElements, Zenon
  <2>. QED BY <2>1, <2>2, <2>3
<1>7. \A x : x \in Victims(f, rest)
         <=> x \in ShownIn(f) /\ x \notin ShownIn(shown') /\ x \notin PendingIn(rest)
  BY <1>1, <1>4, <1>5
<1>8. files' = files \ Victims(f, rest)
  BY <1>1, <1>5
<1>. HIDE DEF front
<1>9. ArtTypeOK'
  BY <1>1, <1>2, <1>6, <1>8, ShownRange DEF ArtInv, ArtTypeOK
<1>10. NeededExist'
  BY <1>1, <1>3, <1>6, <1>7, <1>8 DEF ArtInv, NeededExist
<1>11. StrayIsLost'
  BY <1>1, <1>3, <1>6, <1>7, <1>8 DEF ArtInv, StrayIsLost
<1>12. FrontIsUp'
  BY <1>1, <1>2, <1>6 DEF ArtInv, ArtTypeOK, FrontIsUp
<1>. QED BY <1>9, <1>10, <1>11, <1>12 DEF ArtInv

\* A delivery without an image, or a clear.
LEMMA ArtClears ==
  ASSUME ArtInv, NEW slot \in Slots, DisplayNothing(slot) \/ Clear(slot) PROVE ArtInv'
<1>1. /\ screen' = [screen EXCEPT ![slot] = None] /\ decoded' = decoded \ {slot}
      /\ UNCHANGED <<pending, shown, files, lost>>
  BY DEF DisplayNothing, Clear
<1>. QED BY <1>1 DEF ArtInv, ArtTypeOK, NeededExist, StrayIsLost, FrontIsUp

LEMMA ArtStep ==
  ASSUME KeepAssumption, ImageAssumption, ArtInv, [ArtNext]_artVars PROVE ArtInv'
<1>1. CASE UNCHANGED artVars
  BY <1>1 DEF artVars, ArtInv, ArtTypeOK, NeededExist, StrayIsLost, FrontIsUp
<1>. QED BY <1>1, ArtStages, ArtDisplays, ArtClears DEF ArtNext

LEMMA ArtImplies ==
  ASSUME ArtInv PROVE FilesAreKept
<1>1. ScreenExists
  <2>. SUFFICES ASSUME \A s, t \in DOMAIN screen : s = t,
                       NEW s \in DOMAIN screen, screen[s] # None
                PROVE  screen[s] \in files
    BY DEF ScreenExists
  <2>1. Len(shown) > 0 /\ shown[1] = screen[s] /\ shown \in Seq(Images)
    BY DEF ArtInv, FrontIsUp, ArtTypeOK
  <2>2. shown[1] \in ShownIn(shown)
    BY <2>1, ShownRange
  <2>. QED BY <2>1, <2>2 DEF ArtInv, NeededExist
<1>. QED BY <1>1 DEF ArtInv, FilesAreKept

\* What is pending, displayed or on the screen has its file, and no other
\* file stays but for a rewrite that failed, for any slots, images and keep
\* (artwork_store.cpp:50-100).
THEOREM ArtworkIsKept ==
  ASSUME KeepAssumption, ImageAssumption
  PROVE  ArtSpec => []FilesAreKept
<1>1. ArtInit => ArtInv
  BY ArtStarts
<1>2. ArtInv /\ [ArtNext]_artVars => ArtInv'
  BY ArtStep
<1>3. ArtInv => FilesAreKept
  BY ArtImplies
<1>. QED BY <1>1, <1>2, <1>3, PTL DEF ArtSpec

\* The type invariant; the deque holds an image once, and never more than keep.
THEOREM ArtworkTypes ==
  ASSUME KeepAssumption, ImageAssumption
  PROVE  ArtSpec => []ArtTypeOK
<1>1. ArtInit => ArtInv
  BY ArtStarts
<1>2. ArtInv /\ [ArtNext]_artVars => ArtInv'
  BY ArtStep
<1>3. ArtInv => ArtTypeOK
  BY DEF ArtInv
<1>. QED BY <1>1, <1>2, <1>3, PTL DEF ArtSpec
=============================================================================
