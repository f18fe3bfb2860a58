---------------------------- MODULE PcmTapProofs ----------------------------
(***************************************************************************)
(* What PcmTap guarantees for every ring size, every sequence of commits   *)
(* and kills, and every call of the reader.                                *)
(*                                                                         *)
(* A read may copy torn or foreign bytes, so nothing can be said of what   *)
(* it holds while it runs, except conditionally: AS LONG AS the reserved   *)
(* counters have not moved past what it copied, what it copied is true.    *)
(* The counters never fall, so the condition, once lost, stays lost, and   *)
(* the checks of settled() are checks of that condition.                   *)
(***************************************************************************)
EXTENDS PcmTap, TLAPS

-----------------------------------------------------------------------------
(* The inductive invariant, the writer's half.                             *)

Active == w.pc \notin {"dead", "zeroing", "magic"}
NewEpochDue == w.pc \in {"formatOdd", "formatEpoch"}
ChunkAt(n) == \E c \in chunks : c.n = n

(* Until the magic number is there, there is nothing.                      *)
FreshOK ==
  /\ w.pc \in {"zeroing", "magic"} => ~file.magic
  /\ Active => file.magic
  /\ ~file.magic => /\ chunks = {} /\ r.pc = "idle"
                    /\ file.framesReserved = 0 /\ file.framesWritten = 0
                    /\ file.chunksReserved = 0 /\ file.chunksWritten = 0
                    /\ file.epoch = 0
                    /\ w.frames = 0 /\ w.chunks = 0 /\ w.epoch = 0 /\ w.len = 0
                    /\ \A k \in 0 .. C - 1 : records[k].epoch = 0

(* How the counters of the file stand to the private ones of the writer.   *)
CountersOK ==
  /\ file.framesWritten <= file.framesReserved
  /\ file.chunksWritten <= file.chunksReserved
  /\ Active => w.epoch = file.epoch
  /\ w.pc \in {"idle", "formatOdd", "formatEpoch", "formatRate", "formatEven",
               "reserveFrames", "publishFrames", "publishChunks"} =>
       file.framesReserved = w.frames
  /\ w.pc \in {"reserveChunks", "copy", "copying"} =>
       file.framesReserved = w.frames + w.len
  /\ w.pc \in {"idle", "formatOdd", "formatEpoch", "formatRate", "formatEven",
               "reserveFrames", "reserveChunks", "publishFrames", "publishChunks"} =>
       file.chunksReserved = w.chunks
  /\ w.pc \in {"copy", "copying"} => file.chunksReserved = w.chunks + 1
  /\ w.len > 0 => w.stream \in Streams
  /\ w.pc \in {"reserveFrames", "reserveChunks", "copy", "copying"} => w.len > 0
  /\ w.pc \in {"publishFrames", "publishChunks"} => ChunkAt(w.chunks - 1)
  /\ file.chunksWritten > 0 => ChunkAt(file.chunksWritten - 1)

(* The history is bounded by the counters and is in order.                 *)
HistoryOK ==
  /\ \A c \in chunks :
       /\ c.n < file.chunksReserved
       /\ c.rec.start + c.rec.frames <= file.framesReserved
       /\ c.rec.epoch <= file.epoch
       /\ Active => /\ c.n < w.chunks
                    /\ c.rec.start + c.rec.frames <= w.frames
  /\ \A c, d \in chunks : c.n = d.n => c = d

(* The epoch the writer is in, when it is no longer due for a new one, is  *)
(* that of its stream and ends where the writer stands.                    *)
EpochOK ==
  /\ EpochIsOneRun
  /\ (Active /\ ~NewEpochDue) =>
       \A c \in chunks : c.rec.epoch = w.epoch =>
         /\ c.stream = w.stream
         /\ \E b \in chunks : /\ b.n + 1 = w.chunks /\ b.rec.epoch = w.epoch
                              /\ b.rec.start + b.rec.frames = w.frames

(* What the reserved counters have not passed is still in the ring.        *)
RecordsOK ==
  \A c \in chunks :
    file.chunksReserved <= c.n + C => records[Place(c.n)] = c.rec

SamplesOK ==
  \A c \in chunks : \A i \in FramesOf(c) :
    file.framesReserved <= i + F =>
      samples[Slot(i)] = [frame |-> i, epoch |-> c.rec.epoch]

(* A record that no commit completed is never mistaken for one: it holds   *)
(* an epoch that ended before that of the chunk after it.                  *)
HolesOK ==
  /\ \A k \in 0 .. C - 1 : records[k].epoch <= file.epoch
  /\ \A d \in chunks :
       (/\ d.n > 0 /\ file.chunksReserved <= (d.n - 1) + C
        /\ records[Place(d.n - 1)].epoch = d.rec.epoch) => ChunkAt(d.n - 1)
  /\ (Active /\ ~NewEpochDue /\ w.chunks > 0
       /\ records[Place(w.chunks - 1)].epoch = w.epoch) => ChunkAt(w.chunks - 1)

WriterInv ==
  FreshOK /\ CountersOK /\ HistoryOK /\ EpochOK /\ RecordsOK /\ SamplesOK /\ HolesOK

-----------------------------------------------------------------------------
(* The reader's half.                                                      *)

Live == file.chunksReserved <= r.oldest + C
Fresh == file.framesReserved <= r.first + F
Chunk(n, rec) == \E c \in chunks : c.n = n /\ c.rec = rec

(* The call walks down from the newest record.                             *)
WalkOK ==
  /\ r.pc \in {"loadEpoch", "loadRate", "loadWritten", "newest"} => ~r.copied /\ ~r.hasPrev
  /\ r.pc \in {"newest", "target", "place", "walk", "window"} =>
       ~r.copied /\ r.n >= 0 /\ r.oldest <= r.n /\ ChunkAt(r.written - 1)
  /\ r.pc \in {"newest", "target", "place", "walk"} => r.n >= Lo
  /\ r.pc = "newest" => r.n = r.written - 1 /\ r.oldest = r.n
  /\ r.pc \in {"target", "place"} =>
       r.best.tEnd >= r.t /\ r.best.epoch = r.epoch /\ (Live => Chunk(r.n, r.best))
  /\ (r.pc = "place" /\ r.hasPrev) =>
       /\ r.n > Lo /\ r.prev.epoch = r.epoch /\ r.oldest <= r.n - 1
       /\ Live => Chunk(r.n - 1, r.prev)
  /\ r.pc \in {"walk", "window"} =>
       /\ r.low.epoch = r.epoch
       /\ Live => /\ Chunk(r.n, r.low)
                  /\ \A i \in r.low.start .. (r.end - 1) : Committed(i, r.epoch)

(* The frames copied so far, and what is known of them.                    *)
Zeros == r.window - (r.end - r.first)
WindowExact ==
  \A k \in 1 .. Len(out) :
    IF k <= Zeros THEN out[k] = Blank
    ELSE Fresh => out[k] = [frame |-> Wanted(k), epoch |-> r.epoch]
WindowCommitted == \A i \in r.first .. (r.end - 1) : Committed(i, r.epoch)

CopyOK ==
  /\ r.pc = "copy" => r.copied
  /\ r.pc \in {"okSeq", "settleFrames"} => r.copied /\ Len(out) = r.window
  /\ r.pc = "noDataSeq" => ~r.copied
  /\ (r.pc = "settleChunks" /\ r.copied) => Len(out) = r.window
  /\ (r.pc \in {"copy", "okSeq", "settleChunks", "settleFrames"} /\ r.copied) =>
       /\ r.first <= r.end /\ Zeros \in Nat /\ Zeros <= Len(out) /\ Len(out) <= r.window
       /\ (Live \/ r.pc = "settleFrames") => WindowExact /\ WindowCommitted

ReaderInv == WalkOK /\ CopyOK /\ OkIsExact

IInv == TypeOK /\ WriterInv /\ ReaderInv

-----------------------------------------------------------------------------
(* Slots: two indices less than a lap apart never share one.               *)

LEMMA ModFacts ==
  ASSUME NEW m \in Nat \ {0}, NEW i \in Int
  PROVE  i % m \in 0 .. m - 1
OBVIOUS

LEMMA ModDistinct ==
  ASSUME NEW m \in Nat \ {0}, NEW i \in Int, NEW j \in Int, i < j, j < i + m
  PROVE  i % m # j % m
<1>1. i = m * (i \div m) + (i % m) /\ i \div m \in Int
  OBVIOUS
<1>2. j = m * (j \div m) + (j % m) /\ j \div m \in Int
  OBVIOUS
<1>. DEFINE p == i \div m
            q == j \div m
<1>3. m * q - m * p = m * (q - p)
  BY <1>1, <1>2
<1>4. ASSUME i % m = j % m PROVE m * (q - p) > 0 /\ m * (q - p) < m
  BY <1>1, <1>2, <1>3, <1>4
<1>5. ASSUME NEW d \in Int, m * d > 0, m * d < m PROVE FALSE
  <2>1. CASE d <= 0 BY <1>5, <2>1
  <2>2. CASE d >= 1 BY <1>5, <2>2
  <2>. QED BY <2>1, <2>2
<1>. QED BY <1>1, <1>2, <1>4, <1>5

-----------------------------------------------------------------------------
(* Type correctness.                                                       *)

Assumptions ==
  /\ F \in Nat \ {0} /\ C \in Nat \ {0}
  /\ Streams \subseteq Nat \ {0}
  /\ Lengths \subseteq Nat /\ Gaps \subseteq Int
  /\ Windows \subseteq Nat \ {0}

LEMMA Assumed == Assumptions
BY RingAssumption, StreamAssumption, LengthAssumption, WindowAssumption DEF Assumptions

LEMMA NewRecType == TypeOK => NewRec \in Rec
BY Assumed DEF Assumptions, TypeOK, WriterType, HistoryType, NewRec, Rec

(* What a reader sees of a record is a record.                             *)
LEMMA SeenType ==
  ASSUME TypeOK, NEW n \in Int, NEW rec \in Seen(n)
  PROVE  rec \in Rec
<1>1. Place(n) \in 0 .. C - 1
  BY Assumed, ModFacts DEF Place, Assumptions
<1>2. records[Place(n)] \in Rec
  BY <1>1 DEF TypeOK, RingType
<1>3. NewRec \in Rec
  BY NewRecType
<1>4. ASSUME NEW a \in Rec, NEW b \in Rec, NEW m \in Mixed(a, b) PROVE m \in Rec
  BY DEF Mixed, Rec
<1>. QED BY <1>2, <1>3, <1>4 DEF Seen

LEMMA TypeInit == Init => TypeOK
<1>. SUFFICES ASSUME Init PROVE TypeOK OBVIOUS
<1>. USE Assumed DEF Assumptions, Init
<1>1. FileType BY DEF FileType, ZeroHeader, Stream0
<1>2. RingType BY DEF RingType, NoRec, Rec, Blank, Frame
<1>3. WriterType BY DEF WriterType, NewWriter, WriterPcs, Stream0
<1>4. ReaderType BY DEF ReaderType, CallType, NewReader, NoRec, Rec, ReaderPcs, Stream0
<1>5. HistoryType BY DEF HistoryType
<1>. QED BY <1>1, <1>2, <1>3, <1>4, <1>5 DEF TypeOK

(* The members of the types that the writer's updates draw on.             *)
LEMMA WriterMembers ==
  /\ \A pc \in {"dead", "zeroing", "magic", "idle", "formatOdd", "formatEpoch",
                "formatRate", "formatEven", "reserveFrames", "reserveChunks",
                "copy", "copying", "publishFrames", "publishChunks"} : pc \in WriterPcs
  /\ 0 \in Stream0 /\ 0 \in 0 .. F /\ Streams \subseteq Stream0
  /\ \A n \in Nat : n + 1 \in Nat /\ n - (n % 2) \in Nat
  /\ \A n \in Lengths : Smaller(n, F) \in 0 .. F
  /\ \A n \in 0 .. F, m \in Nat : m + n \in Nat
  /\ \A n, m \in Nat : Larger(n, m) \in Nat
BY Assumed DEF Assumptions, WriterPcs, Stream0, Smaller, Larger

LEMMA TypeWriter ==
  ASSUME TypeOK, CountersOK, WriterNext
  PROVE  TypeOK'
<1>. USE WriterMembers DEF TypeOK, readerUnchanged, historyUnchanged, ring
<1>1. CASE OpenFresh
  <2>1. FileType' BY <1>1 DEF OpenFresh, FileType, WriterType
  <2>2. WriterType' BY <1>1 DEF OpenFresh, Goto, FileType, WriterType, NewWriter
  <2>3. RingType' BY <1>1 DEF OpenFresh, RingType
  <2>4. HistoryType' BY <1>1 DEF OpenFresh, HistoryType
  <2>5. ReaderType' BY <1>1 DEF OpenFresh, ReaderType, CallType
  <2>. QED BY <2>1, <2>2, <2>3, <2>4, <2>5
<1>2. CASE ZeroFile
  <2>1. FileType' BY <1>2, Assumed DEF ZeroFile, FileType, WriterType, ZeroHeader
  <2>2. WriterType' BY <1>2 DEF ZeroFile, Goto, FileType, WriterType
  <2>3. RingType' BY <1>2, Assumed DEF ZeroFile, RingType, NoRec, Rec, Blank, Frame, Assumptions
  <2>4. HistoryType' BY <1>2 DEF ZeroFile, HistoryType
  <2>5. ReaderType' BY <1>2 DEF ZeroFile, ReaderType, CallType
  <2>. QED BY <2>1, <2>2, <2>3, <2>4, <2>5
<1>3. CASE StoreMagic
  <2>1. FileType' BY <1>3 DEF StoreMagic, FileType, WriterType
  <2>2. WriterType' BY <1>3 DEF StoreMagic, Goto, FileType, WriterType
  <2>3. RingType' BY <1>3 DEF StoreMagic, RingType
  <2>4. HistoryType' BY <1>3 DEF StoreMagic, HistoryType
  <2>5. ReaderType' BY <1>3 DEF StoreMagic, ReaderType, CallType
  <2>. QED BY <2>1, <2>2, <2>3, <2>4, <2>5
<1>4. CASE OpenReuse
  <2>1. FileType' BY <1>4 DEF OpenReuse, FileType, WriterType
  <2>2. WriterType' BY <1>4 DEF OpenReuse, Goto, FileType, WriterType, NewWriter
  <2>3. RingType' BY <1>4 DEF OpenReuse, RingType
  <2>4. HistoryType' BY <1>4 DEF OpenReuse, HistoryType
  <2>5. ReaderType' BY <1>4 DEF OpenReuse, ReaderType, CallType
  <2>. QED BY <2>1, <2>2, <2>3, <2>4, <2>5
<1>5. CASE FormatOdd
  <2>1. FileType' BY <1>5 DEF FormatOdd, FileType, WriterType
  <2>2. WriterType' BY <1>5 DEF FormatOdd, Goto, FileType, WriterType
  <2>3. RingType' BY <1>5 DEF FormatOdd, RingType
  <2>4. HistoryType' BY <1>5 DEF FormatOdd, HistoryType
  <2>5. ReaderType' BY <1>5 DEF FormatOdd, ReaderType, CallType
  <2>. QED BY <2>1, <2>2, <2>3, <2>4, <2>5
<1>6. CASE FormatEpoch
  <2>1. FileType' BY <1>6 DEF FormatEpoch, FileType, WriterType
  <2>2. WriterType' BY <1>6 DEF FormatEpoch, Goto, FileType, WriterType
  <2>3. RingType' BY <1>6 DEF FormatEpoch, RingType
  <2>4. HistoryType' BY <1>6 DEF FormatEpoch, HistoryType
  <2>5. ReaderType' BY <1>6 DEF FormatEpoch, ReaderType, CallType
  <2>. QED BY <2>1, <2>2, <2>3, <2>4, <2>5
<1>7. CASE FormatRate
  <2>1. FileType' BY <1>7 DEF FormatRate, FileType, WriterType
  <2>2. WriterType' BY <1>7 DEF FormatRate, Goto, FileType, WriterType
  <2>3. RingType' BY <1>7 DEF FormatRate, RingType
  <2>4. HistoryType' BY <1>7 DEF FormatRate, HistoryType
  <2>5. ReaderType' BY <1>7 DEF FormatRate, ReaderType, CallType
  <2>. QED BY <2>1, <2>2, <2>3, <2>4, <2>5
<1>8. CASE FormatEven
  <2>1. FileType' BY <1>8 DEF FormatEven, FileType, WriterType
  <2>2. WriterType' BY <1>8 DEF FormatEven, Goto, FileType, WriterType
  <2>3. RingType' BY <1>8 DEF FormatEven, RingType
  <2>4. HistoryType' BY <1>8 DEF FormatEven, HistoryType
  <2>5. ReaderType' BY <1>8 DEF FormatEven, ReaderType, CallType
  <2>. QED BY <2>1, <2>2, <2>3, <2>4, <2>5
<1>9. CASE EndStream
  <2>1. FileType' BY <1>9 DEF EndStream, FileType, WriterType
  <2>2. WriterType' BY <1>9 DEF EndStream, Goto, FileType, WriterType
  <2>3. RingType' BY <1>9 DEF EndStream, RingType
  <2>4. HistoryType' BY <1>9 DEF EndStream, HistoryType
  <2>5. ReaderType' BY <1>9 DEF EndStream, ReaderType, CallType
  <2>. QED BY <2>1, <2>2, <2>3, <2>4, <2>5
<1>10. ASSUME NEW s \in Streams, NEW len \in Lengths, NEW gap \in Gaps, Commit(s, len, gap)
       PROVE  TypeOK'
  <2>1. FileType' BY <1>10 DEF Commit, FileType, WriterType
  <2>2. WriterType' BY <1>10 DEF Commit, Goto, FileType, WriterType
  <2>3. RingType' BY <1>10 DEF Commit, RingType
  <2>4. HistoryType' BY <1>10, Assumed DEF Commit, HistoryType, Assumptions
  <2>5. ReaderType' BY <1>10 DEF Commit, ReaderType, CallType
  <2>. QED BY <2>1, <2>2, <2>3, <2>4, <2>5
<1>11. CASE ReserveFrames
  <2>1. FileType' BY <1>11 DEF ReserveFrames, FileType, WriterType
  <2>2. WriterType' BY <1>11 DEF ReserveFrames, Goto, FileType, WriterType
  <2>3. RingType' BY <1>11 DEF ReserveFrames, RingType
  <2>4. HistoryType' BY <1>11 DEF ReserveFrames, HistoryType
  <2>5. ReaderType' BY <1>11 DEF ReserveFrames, ReaderType, CallType
  <2>. QED BY <2>1, <2>2, <2>3, <2>4, <2>5
<1>12. CASE ReserveChunks
  <2>1. FileType' BY <1>12 DEF ReserveChunks, FileType, WriterType
  <2>2. WriterType' BY <1>12 DEF ReserveChunks, Goto, FileType, WriterType
  <2>3. RingType' BY <1>12 DEF ReserveChunks, RingType
  <2>4. HistoryType' BY <1>12 DEF ReserveChunks, HistoryType
  <2>5. ReaderType' BY <1>12 DEF ReserveChunks, ReaderType, CallType
  <2>. QED BY <2>1, <2>2, <2>3, <2>4, <2>5
<1>13. CASE CopyBegin
  <2>1. FileType' BY <1>13 DEF CopyBegin, FileType, WriterType
  <2>2. WriterType' BY <1>13 DEF CopyBegin, Goto, FileType, WriterType
  <2>3. RingType'
    <3>1. Torn \in Frame
      BY DEF Torn, Frame
    <3>. QED BY <1>13, <3>1 DEF CopyBegin, RingType
  <2>4. HistoryType' BY <1>13 DEF CopyBegin, HistoryType
  <2>5. ReaderType' BY <1>13 DEF CopyBegin, ReaderType, CallType
  <2>. QED BY <2>1, <2>2, <2>3, <2>4, <2>5
<1>14. CASE CopyEnd
  <2>1. FileType' BY <1>14 DEF CopyEnd, FileType, WriterType
  <2>2. WriterType' BY <1>14 DEF CopyEnd, Goto, FileType, WriterType
  <2>3. RingType'
    <3>1. ASSUME NEW k \in NewSlots
          PROVE  (CHOOSE i \in NewFrames : Slot(i) = k) \in Int
      <4>1. PICK i \in NewFrames : Slot(i) = k
        BY DEF NewSlots
      <4>2. NewFrames \subseteq Int
        BY DEF NewFrames
      <4>. QED BY <4>1, <4>2
    <3>2. w.epoch \in Nat /\ NewRec \in Rec
      BY NewRecType DEF WriterType
    <3>3. samples' \in [0 .. F - 1 -> Frame]
      BY <1>14, <3>1, <3>2 DEF CopyEnd, RingType, Frame
    <3>4. records' \in [0 .. C - 1 -> Rec]
      BY <1>14, <3>2 DEF CopyEnd, RingType
    <3>. QED BY <3>3, <3>4 DEF RingType
  <2>4. HistoryType'
    <3>1. w.stream \in Streams
      BY <1>14 DEF CopyEnd, CountersOK
    <3>. QED BY <1>14, <3>1, NewRecType DEF CopyEnd, HistoryType, WriterType
  <2>5. ReaderType' BY <1>14 DEF CopyEnd, ReaderType, CallType
  <2>. QED BY <2>1, <2>2, <2>3, <2>4, <2>5
<1>15. CASE PublishFrames
  <2>1. FileType' BY <1>15 DEF PublishFrames, FileType, WriterType
  <2>2. WriterType' BY <1>15 DEF PublishFrames, Goto, FileType, WriterType
  <2>3. RingType' BY <1>15 DEF PublishFrames, RingType
  <2>4. HistoryType' BY <1>15 DEF PublishFrames, HistoryType
  <2>5. ReaderType' BY <1>15 DEF PublishFrames, ReaderType, CallType
  <2>. QED BY <2>1, <2>2, <2>3, <2>4, <2>5
<1>16. CASE PublishChunks
  <2>1. FileType' BY <1>16 DEF PublishChunks, FileType, WriterType
  <2>2. WriterType' BY <1>16 DEF PublishChunks, Goto, FileType, WriterType
  <2>3. RingType' BY <1>16 DEF PublishChunks, RingType
  <2>4. HistoryType' BY <1>16 DEF PublishChunks, HistoryType
  <2>5. ReaderType' BY <1>16 DEF PublishChunks, ReaderType, CallType
  <2>. QED BY <2>1, <2>2, <2>3, <2>4, <2>5
<1>17. CASE Kill
  <2>1. FileType' BY <1>17 DEF Kill, FileType, WriterType
  <2>2. WriterType' BY <1>17 DEF Kill, Goto, FileType, WriterType, NewWriter
  <2>3. RingType'
    <3>1. ASSUME NEW m \in Mixed(records[Place(w.chunks)], NewRec) PROVE m \in Rec
      <4>0. w.chunks \in Int
        BY DEF WriterType
      <4>1. w.chunks % C \in 0 .. C - 1
        BY <4>0, Assumed, ModFacts DEF Assumptions
      <4>2. records[Place(w.chunks)] \in Rec
        BY <4>1 DEF Place, RingType
      <4>. QED BY <4>2, <3>1, NewRecType DEF Mixed, Rec
    <3>. QED BY <1>17, <3>1 DEF Kill, RingType
  <2>4. HistoryType' BY <1>17 DEF Kill, HistoryType
  <2>5. ReaderType' BY <1>17 DEF Kill, ReaderType, CallType
  <2>. QED BY <2>1, <2>2, <2>3, <2>4, <2>5
<1>. QED BY <1>1, <1>2, <1>3, <1>4, <1>5, <1>6, <1>7, <1>8, <1>9, <1>10, <1>11, <1>12, <1>13, <1>14, <1>15, <1>16, <1>17 DEF WriterNext

(* The reader's updates: each leaf is left the memberships it needs.       *)
LEMMA NewReaderType == NewReader \in
  [pc : {"idle"}, latest : BOOLEAN, t : Int, window : Nat, s1 : Nat,
   epoch : Nat, rate : Stream0, written : Nat, oldest : Int, n : Int,
   best : Rec, prev : Rec, hasPrev : BOOLEAN, low : Rec,
   bounded : BOOLEAN, end : Nat, first : Nat, copied : BOOLEAN]
BY DEF NewReader, NoRec, Rec, Stream0

LEMMA TypeCall ==
  ASSUME NEW latest \in BOOLEAN, NEW t \in Int, NEW window \in Nat, TypeOK,
         LoadSeq(latest, t, window)
  PROVE  ReaderType'
<1>. DEFINE pc == IF window > F THEN "nodata"
                  ELSE IF file.seq % 2 = 1 THEN "retry" ELSE "loadEpoch"
<1>1. pc \in ReaderPcs
  BY DEF ReaderPcs, Verdicts
<1>2. file.seq \in Nat
  BY DEF TypeOK, FileType
<1>3. /\ r' = [NewReader EXCEPT !.latest = latest, !.t = t, !.window = window,
                 !.s1 = file.seq, !.pc = pc]
      /\ out' = << >>
  BY DEF LoadSeq
<1>. HIDE DEF pc
<1>4. CallType'
  BY <1>1, <1>2, <1>3, NewReaderType DEF CallType
<1>. QED BY <1>3, <1>4 DEF ReaderType

LEMMA OlderType ==
  ASSUME TypeOK, NEW prev \in Seen(r.n - 1)
  PROVE  Older(prev) \in
        [pc : ReaderPcs, latest : BOOLEAN, t : Int, window : Nat, s1 : Nat,
         epoch : Nat, rate : Stream0, written : Nat, oldest : Int, n : Int,
         best : Rec, prev : Rec, hasPrev : BOOLEAN, low : Rec,
         bounded : BOOLEAN, end : Nat, first : Nat, copied : BOOLEAN]
<1>1. CallType
  BY DEF TypeOK, ReaderType
<1>2. r.n - 1 \in Int
  BY <1>1 DEF CallType
<1>3. prev \in Rec
  BY <1>2, SeenType
<1>4. Smaller(r.oldest, r.n - 1) \in Int
  BY <1>1 DEF CallType, Smaller
<1>5. (prev.epoch # r.epoch) \in BOOLEAN
  OBVIOUS
<1>. QED BY <1>1, <1>3, <1>4, <1>5, Zenon DEF CallType, Older

LEMMA TypeReader ==
  ASSUME TypeOK, ReaderStep \/ ReaderCall \/ Return
  PROVE  TypeOK'
<1>0. (FileType /\ RingType /\ WriterType /\ HistoryType)'
  BY DEF TypeOK, ReaderStep, ReaderCall, LoadEpoch, LoadRate, LoadWritten, ReadNewest, SeekTarget, PlaceEnd, WalkBack, WalkDone, FillZeros, CopyFrame, CopyDone, SettleSeq, SettleChunks, SettleFrames,
     LoadSeq, Return, writerUnchanged, FileType, RingType, WriterType, HistoryType
<1>. SUFFICES ReaderType'
  BY <1>0 DEF TypeOK
<1>t. CallType /\ out \in Seq(Frame)
  BY DEF TypeOK, ReaderType
<1>s. \A n \in Int : \A rec \in Seen(n) : rec \in Rec
  BY SeenType
<1>1. CASE LoadEpoch
  <2>1. file.epoch \in Nat /\ "loadRate" \in ReaderPcs
    BY DEF TypeOK, FileType, ReaderPcs
  <2>2. CallType'
    BY <1>t, <2>1, <1>1, Zenon DEF LoadEpoch, CallType
  <2>. QED BY <1>1, <1>t, <2>2 DEF LoadEpoch, ReaderType
<1>2. CASE LoadRate
  <2>1. file.rate \in Stream0 /\ "loadWritten" \in ReaderPcs
    BY DEF TypeOK, FileType, ReaderPcs
  <2>2. CallType'
    BY <1>t, <2>1, <1>2, Zenon DEF LoadRate, CallType
  <2>. QED BY <1>2, <1>t, <2>2 DEF LoadRate, ReaderType
<1>3. CASE LoadWritten
  <2>. DEFINE pc == IF r.rate = 0 \/ file.chunksWritten = 0 THEN "nodata" ELSE "newest"
              m == file.chunksWritten - 1
  <2>1. file.chunksWritten \in Nat /\ m \in Int /\ pc \in ReaderPcs
    BY DEF TypeOK, FileType, ReaderPcs, Verdicts
  <2>2. r' = [r EXCEPT !.written = file.chunksWritten, !.pc = pc, !.oldest = m, !.n = m]
    BY <1>3 DEF LoadWritten
  <2>. HIDE DEF pc, m
  <2>3. CallType'
    BY <1>t, <2>1, <2>2, Zenon DEF CallType
  <2>. QED BY <1>3, <1>t, <2>3 DEF LoadWritten, ReaderType
<1>4. CASE ReadNewest
  <2>. DEFINE pc(best) == IF best.epoch # r.epoch \/ (~r.latest /\ best.tEnd < r.t)
                          THEN "noDataSeq"
                          ELSE IF r.latest THEN "place" ELSE "target"
              t(best) == IF r.latest THEN best.tEnd ELSE r.t
  <2>1. PICK best \in Seen(r.n) : r' = [r EXCEPT !.best = best, !.t = t(best), !.pc = pc(best)]
    BY <1>4 DEF ReadNewest
  <2>2. best \in Rec /\ best.tEnd \in Int /\ r.t \in Int
    BY <1>s, <1>t DEF CallType, Rec
  <2>3. t(best) \in Int /\ pc(best) \in ReaderPcs
    BY <2>2 DEF ReaderPcs
  <2>. HIDE DEF pc, t
  <2>4. CallType'
    BY <1>t, <2>1, <2>2, <2>3, Zenon DEF CallType
  <2>. QED BY <1>4, <1>t, <2>4 DEF ReadNewest, ReaderType
<1>o. ASSUME NEW prev \in Seen(r.n - 1)
      PROVE  prev \in Rec /\ r.n - 1 \in Int /\ Older(prev) \in
        [pc : ReaderPcs, latest : BOOLEAN, t : Int, window : Nat, s1 : Nat,
         epoch : Nat, rate : Stream0, written : Nat, oldest : Int, n : Int,
         best : Rec, prev : Rec, hasPrev : BOOLEAN, low : Rec,
         bounded : BOOLEAN, end : Nat, first : Nat, copied : BOOLEAN]
  <2>1. r.n - 1 \in Int
    BY <1>t DEF CallType
  <2>. QED BY <1>s, <2>1, OlderType
<1>5. CASE SeekTarget
  <2>1. "place" \in ReaderPcs /\ (Lo = 0) \in BOOLEAN
    BY DEF ReaderPcs
  <2>2. CASE r.n = Lo
    <3>1. r' = [r EXCEPT !.pc = "place", !.hasPrev = FALSE, !.bounded = (Lo = 0)]
      BY <1>5, <2>2 DEF SeekTarget
    <3>2. CallType'
      BY <1>t, <2>1, <3>1, Zenon DEF CallType
    <3>. QED BY <1>5, <1>t, <3>2 DEF SeekTarget, ReaderType
  <2>3. ASSUME NEW prev \in Seen(r.n - 1),
               \/ r' = [Older(prev) EXCEPT !.pc = "place", !.hasPrev = ~Older(prev).bounded]
               \/ r' = [Older(prev) EXCEPT !.best = prev, !.n = r.n - 1, !.hasPrev = TRUE]
        PROVE  CallType'
    <3>1. (~Older(prev).bounded) \in BOOLEAN
      OBVIOUS
    <3>. QED BY <1>o, <2>1, <2>3, <3>1, ZenonT(30) DEF CallType
  <2>4. CASE r.n # Lo
    <3>1. CallType'
      BY <1>5, <2>3, <2>4 DEF SeekTarget
    <3>. QED BY <1>5, <1>t, <3>1 DEF SeekTarget, ReaderType
  <2>. QED BY <2>2, <2>4
<1>6. CASE PlaceEnd
  <2>. DEFINE lag == r.best.tEnd - r.t
              inBest == lag < r.best.frames
              base == IF inBest THEN r.best ELSE r.prev
              n == IF inBest THEN r.n ELSE r.n - 1
              end == IF inBest THEN r.best.start + r.best.frames - lag ELSE r.best.start
  <2>1. /\ r.best.start \in Nat /\ r.best.frames \in Nat /\ r.best.tEnd \in Int
        /\ r.t \in Int /\ r.n \in Int /\ r.best \in Rec /\ r.prev \in Rec
    BY <1>t DEF CallType, Rec
  <2>2. base \in Rec /\ n \in Int /\ end \in Nat
    BY <2>1
  <2>3. "noDataSeq" \in ReaderPcs /\ "walk" \in ReaderPcs
    BY DEF ReaderPcs
  <2>4. \/ r' = [r EXCEPT !.pc = "noDataSeq"]
        \/ r' = [r EXCEPT !.pc = "walk", !.best = base, !.low = base, !.n = n,
                          !.end = end, !.bounded = FALSE]
    BY <1>6, Zenon DEF PlaceEnd
  <2>. HIDE DEF lag, inBest, base, n, end
  <2>5. CallType'
    <3>1. CASE r' = [r EXCEPT !.pc = "noDataSeq"]
      BY <1>t, <2>3, <3>1, Zenon DEF CallType
    <3>2. CASE r' = [r EXCEPT !.pc = "walk", !.best = base, !.low = base, !.n = n,
                              !.end = end, !.bounded = FALSE]
      BY <1>t, <2>2, <2>3, <3>2, ZenonT(30) DEF CallType
    <3>. QED BY <2>4, <3>1, <3>2
  <2>. QED BY <1>6, <1>t, <2>5 DEF PlaceEnd, ReaderType
<1>7. CASE WalkBack
  <2>1. PICK prev \in Seen(r.n - 1) :
          \/ r' = [Older(prev) EXCEPT !.pc = "window"]
          \/ r' = [Older(prev) EXCEPT !.pc = "window", !.bounded = TRUE]
          \/ r' = [Older(prev) EXCEPT !.low = prev, !.n = r.n - 1]
    BY <1>7 DEF WalkBack
  <2>2. "window" \in ReaderPcs
    BY DEF ReaderPcs
  <2>3. CallType'
    BY <1>o, <2>1, <2>2, ZenonT(30) DEF CallType
  <2>. QED BY <1>7, <1>t, <2>3 DEF WalkBack, ReaderType
<1>8. CASE WalkDone
  <2>. DEFINE bounded == IF r.low.start <= Start THEN r.bounded ELSE Lo = 0
  <2>1. "window" \in ReaderPcs /\ bounded \in BOOLEAN
    BY <1>t DEF ReaderPcs, CallType
  <2>2. r' = [r EXCEPT !.pc = "window", !.bounded = bounded]
    BY <1>8 DEF WalkDone
  <2>. HIDE DEF bounded
  <2>3. CallType'
    BY <1>t, <2>1, <2>2, Zenon DEF CallType
  <2>. QED BY <1>8, <1>t, <2>3 DEF WalkDone, ReaderType
<1>9. CASE FillZeros
  <2>. DEFINE first == Smaller(Larger(r.low.start, Start), r.end)
              zeros == r.window - (r.end - first)
  <2>1. r.low.start \in Nat /\ r.end \in Nat /\ r.window \in Nat
    BY <1>t DEF CallType, Rec
  <2>2. first \in Nat /\ zeros \in Nat
    BY <2>1 DEF Smaller, Larger, Start
  <2>3. "noDataSeq" \in ReaderPcs /\ "copy" \in ReaderPcs
    BY DEF ReaderPcs
  <2>4. \/ r' = [r EXCEPT !.pc = "noDataSeq"] /\ out' = out
        \/ /\ r' = [r EXCEPT !.pc = "copy", !.first = first, !.copied = TRUE]
           /\ out' = [i \in 1 .. zeros |-> Blank]
    BY <1>9 DEF FillZeros
  <2>. HIDE DEF first, zeros
  <2>5. CallType'
    BY <1>t, <2>2, <2>3, <2>4, ZenonT(30) DEF CallType
  <2>6. [i \in 1 .. zeros |-> Blank] \in Seq(Frame)
    BY <2>2 DEF Blank, Frame
  <2>. QED BY <1>t, <2>4, <2>5, <2>6 DEF ReaderType
<1>10. CASE CopyFrame
  <2>. DEFINE i == r.end - r.window + Len(out)
  <2>1. r.end \in Nat /\ r.window \in Nat /\ Len(out) \in Nat
    BY <1>t DEF CallType
  <2>2. i \in Int
    BY <2>1
  <2>. HIDE DEF i
  <2>3. i % F \in 0 .. F - 1
    BY <2>2, Assumed, ModFacts DEF Assumptions
  <2>4. samples[Slot(i)] \in Frame
    BY <2>3 DEF Slot, TypeOK, RingType
  <2>5. out' = Append(out, samples[Slot(i)]) /\ r' = r
    BY <1>10 DEF CopyFrame, i
  <2>. QED BY <1>t, <2>4, <2>5 DEF CallType, ReaderType
<1>11. CASE CopyDone
  <2>1. "okSeq" \in ReaderPcs
    BY DEF ReaderPcs
  <2>2. CallType'
    BY <1>t, <2>1, <1>11, Zenon DEF CopyDone, CallType
  <2>. QED BY <1>11, <1>t, <2>2 DEF CopyDone, ReaderType
<1>12. CASE SettleSeq
  <2>1. "settleChunks" \in ReaderPcs /\ "retry" \in ReaderPcs
    BY DEF ReaderPcs, Verdicts
  <2>2. r' = [r EXCEPT !.pc = "settleChunks"] \/ r' = [r EXCEPT !.pc = "retry"]
    BY <1>12 DEF SettleSeq
  <2>3. CallType'
    BY <1>t, <2>1, <2>2, Zenon DEF CallType
  <2>. QED BY <1>12, <1>t, <2>3 DEF SettleSeq, ReaderType
<1>13. CASE SettleChunks
  <2>1. "settleFrames" \in ReaderPcs /\ "retry" \in ReaderPcs /\ "nodata" \in ReaderPcs
    BY DEF ReaderPcs, Verdicts
  <2>2. \/ r' = [r EXCEPT !.pc = "settleFrames"]
        \/ r' = [r EXCEPT !.pc = "retry"]
        \/ r' = [r EXCEPT !.pc = "nodata"]
    BY <1>13 DEF SettleChunks
  <2>3. CallType'
    BY <1>t, <2>1, <2>2, ZenonT(30) DEF CallType
  <2>. QED BY <1>13, <1>t, <2>3 DEF SettleChunks, ReaderType
<1>14. CASE SettleFrames
  <2>1. "ok" \in ReaderPcs /\ "retry" \in ReaderPcs
    BY DEF ReaderPcs, Verdicts
  <2>2. r' = [r EXCEPT !.pc = "ok"] \/ r' = [r EXCEPT !.pc = "retry"]
    BY <1>14 DEF SettleFrames
  <2>3. CallType'
    BY <1>t, <2>1, <2>2, Zenon DEF CallType
  <2>. QED BY <1>14, <1>t, <2>3 DEF SettleFrames, ReaderType
<1>15. CASE Return
  <2>1. "idle" \in ReaderPcs
    BY DEF ReaderPcs
  <2>2. CallType'
    BY <2>1, <1>15, NewReaderType, Zenon DEF Return, CallType
  <2>. QED BY <1>15, <2>2 DEF Return, ReaderType
<1>16. CASE ReaderCall
  <2>1. PICK latest \in BOOLEAN, window \in Windows :
          \E t \in (IF latest THEN {0} ELSE 0 .. clock) : LoadSeq(latest, t, window)
    BY <1>16 DEF ReaderCall
  <2>2. PICK t \in (IF latest THEN {0} ELSE 0 .. clock) : LoadSeq(latest, t, window)
    BY <2>1
  <2>3. t \in Int /\ window \in Nat
    BY Assumed DEF Assumptions
  <2>. QED BY <2>2, <2>3, TypeCall
<1>. QED
  BY <1>1, <1>2, <1>3, <1>4, <1>5, <1>6, <1>7, <1>8, <1>9, <1>10, <1>11, <1>12,
     <1>13, <1>14, <1>15, <1>16 DEF ReaderStep


-----------------------------------------------------------------------------
(* The writer keeps its half of the invariant.  Most of its steps leave    *)
(* the ring and the history alone; what they do to the counters is stated  *)
(* first and the conjuncts follow from that.                               *)

LEMMA TypeFacts ==
  ASSUME TypeOK
  PROVE  /\ w.epoch \in Nat /\ w.frames \in Nat /\ w.chunks \in Nat /\ w.len \in Nat
         /\ file.epoch \in Nat /\ file.framesReserved \in Nat /\ file.chunksReserved \in Nat
         /\ file.framesWritten \in Nat /\ file.chunksWritten \in Nat
         /\ \A c \in chunks : /\ c.n \in Nat /\ c.rec.start \in Nat
                              /\ c.rec.frames \in Nat /\ c.rec.epoch \in Nat
         /\ \A k \in 0 .. C - 1 : records[k].epoch \in Nat
         /\ \A k \in Nat : Place(k) \in 0 .. C - 1
<1>1. /\ w.epoch \in Nat /\ w.frames \in Nat /\ w.chunks \in Nat /\ w.len \in Nat
  BY Assumed DEF TypeOK, WriterType, Assumptions
<1>2. /\ file.epoch \in Nat /\ file.framesReserved \in Nat /\ file.chunksReserved \in Nat
      /\ file.framesWritten \in Nat /\ file.chunksWritten \in Nat
  BY DEF TypeOK, FileType
<1>3. \A c \in chunks : /\ c.n \in Nat /\ c.rec.start \in Nat
                        /\ c.rec.frames \in Nat /\ c.rec.epoch \in Nat
  BY DEF TypeOK, HistoryType, Rec
<1>4. \A k \in 0 .. C - 1 : records[k].epoch \in Nat
  BY DEF TypeOK, RingType, Rec
<1>5. \A k \in Nat : Place(k) \in 0 .. C - 1
  BY Assumed, ModFacts DEF Assumptions, Place
<1>. QED BY <1>1, <1>2, <1>3, <1>4, <1>5

LEMMA WriterOpenFresh ==
  ASSUME TypeOK, WriterInv, OpenFresh
  PROVE  WriterInv'
<1>1. /\ w.pc = "dead" /\ ~file.magic
      /\ w'.pc = "zeroing" /\ w'.epoch = 0 /\ w'.frames = 0
      /\ w'.chunks = 0 /\ w'.stream = 0 /\ w'.len = 0
      /\ file'.magic = file.magic /\ file'.epoch = file.epoch
      /\ file'.framesReserved = file.framesReserved /\ file'.framesWritten = file.framesWritten
      /\ file'.chunksReserved = file.chunksReserved /\ file'.chunksWritten = file.chunksWritten
      /\ UNCHANGED <<records, samples, chunks, r>>
  BY DEF OpenFresh, NewWriter, ring, readerUnchanged, historyUnchanged, TypeOK,
     WriterType, FileType
<1>2. /\ w.epoch \in Nat /\ w.frames \in Nat /\ w.chunks \in Nat /\ w.len \in Nat
      /\ file.epoch \in Nat /\ file.framesReserved \in Nat /\ file.chunksReserved \in Nat
      /\ file.framesWritten \in Nat /\ file.chunksWritten \in Nat
      /\ \A c \in chunks : c.n \in Nat /\ c.rec.start \in Nat /\ c.rec.frames \in Nat /\ c.rec.epoch \in Nat
      /\ \A k \in 0 .. C - 1 : records[k].epoch \in Nat
      /\ \A k \in Nat : Place(k) \in 0 .. C - 1
  BY TypeFacts
<1>3. FreshOK'
  BY <1>1, <1>2, Assumed DEF WriterInv, FreshOK, Active, Assumptions
<1>4. CountersOK'
  BY <1>1, <1>2, Assumed DEF WriterInv, CountersOK, FreshOK, Active, ChunkAt, Assumptions
<1>5. HistoryOK'
  BY <1>1, <1>2, Assumed DEF WriterInv, HistoryOK, CountersOK, FreshOK, Active, Assumptions
<1>6. EpochOK'
  BY <1>1, <1>2, Assumed DEF WriterInv, EpochOK, EpochIsOneRun, HistoryOK, FreshOK, CountersOK, Active, NewEpochDue, Assumptions
<1>7. RecordsOK'
  BY <1>1, <1>2, Assumed DEF WriterInv, RecordsOK, CountersOK, Assumptions
<1>8. SamplesOK'
  BY <1>1, <1>2, Assumed DEF WriterInv, SamplesOK, FramesOf, CountersOK, Assumptions
<1>9. HolesOK'
  BY <1>1, <1>2, Assumed DEF WriterInv, HolesOK, ChunkAt, Active, NewEpochDue, FreshOK, CountersOK, Assumptions
<1>. QED BY <1>3, <1>4, <1>5, <1>6, <1>7, <1>8, <1>9 DEF WriterInv

LEMMA WriterStoreMagic ==
  ASSUME TypeOK, WriterInv, StoreMagic
  PROVE  WriterInv'
<1>1. /\ w.pc = "magic"
      /\ w'.pc = "idle" /\ w'.epoch = w.epoch /\ w'.frames = w.frames
      /\ w'.chunks = w.chunks /\ w'.stream = w.stream /\ w'.len = w.len
      /\ file'.magic = TRUE /\ file'.epoch = file.epoch
      /\ file'.framesReserved = file.framesReserved /\ file'.framesWritten = file.framesWritten
      /\ file'.chunksReserved = file.chunksReserved /\ file'.chunksWritten = file.chunksWritten
      /\ UNCHANGED <<records, samples, chunks, r>>
  BY DEF StoreMagic, Goto, ring, readerUnchanged, historyUnchanged, TypeOK,
     WriterType, FileType
<1>2. /\ w.epoch \in Nat /\ w.frames \in Nat /\ w.chunks \in Nat /\ w.len \in Nat
      /\ file.epoch \in Nat /\ file.framesReserved \in Nat /\ file.chunksReserved \in Nat
      /\ file.framesWritten \in Nat /\ file.chunksWritten \in Nat
      /\ \A c \in chunks : c.n \in Nat /\ c.rec.start \in Nat /\ c.rec.frames \in Nat /\ c.rec.epoch \in Nat
      /\ \A k \in 0 .. C - 1 : records[k].epoch \in Nat
      /\ \A k \in Nat : Place(k) \in 0 .. C - 1
  BY TypeFacts
<1>3. FreshOK'
  BY <1>1, <1>2, Assumed DEF WriterInv, FreshOK, Active, Assumptions
<1>4. CountersOK'
  BY <1>1, <1>2, Assumed DEF WriterInv, CountersOK, FreshOK, Active, ChunkAt, Assumptions
<1>5. HistoryOK'
  BY <1>1, <1>2, Assumed DEF WriterInv, HistoryOK, CountersOK, FreshOK, Active, Assumptions
<1>6. EpochOK'
  BY <1>1, <1>2, Assumed DEF WriterInv, EpochOK, EpochIsOneRun, HistoryOK, FreshOK, CountersOK, Active, NewEpochDue, Assumptions
<1>7. RecordsOK'
  BY <1>1, <1>2, Assumed DEF WriterInv, RecordsOK, CountersOK, Assumptions
<1>8. SamplesOK'
  BY <1>1, <1>2, Assumed DEF WriterInv, SamplesOK, FramesOf, CountersOK, Assumptions
<1>9. HolesOK'
  BY <1>1, <1>2, Assumed DEF WriterInv, HolesOK, ChunkAt, Active, NewEpochDue, FreshOK, CountersOK, Assumptions
<1>. QED BY <1>3, <1>4, <1>5, <1>6, <1>7, <1>8, <1>9 DEF WriterInv

LEMMA WriterOpenReuse ==
  ASSUME TypeOK, WriterInv, OpenReuse
  PROVE  WriterInv'
<1>0. /\ Larger(file.framesReserved, file.framesWritten) = file.framesReserved
      /\ Larger(file.chunksReserved, file.chunksWritten) = file.chunksReserved
  BY TypeFacts DEF Larger, WriterInv, CountersOK
<1>1. /\ w.pc = "dead" /\ file.magic
      /\ w'.pc = "formatOdd" /\ w'.epoch = file.epoch /\ w'.frames = file.framesReserved
      /\ w'.chunks = file.chunksReserved /\ w'.stream = 0 /\ w'.len = 0
      /\ file'.magic = file.magic /\ file'.epoch = file.epoch
      /\ file'.framesReserved = file.framesReserved /\ file'.framesWritten = file.framesWritten
      /\ file'.chunksReserved = file.chunksReserved /\ file'.chunksWritten = file.chunksWritten
      /\ UNCHANGED <<records, samples, chunks, r>>
  BY <1>0 DEF OpenReuse, NewWriter, ring, readerUnchanged, historyUnchanged
<1>2. /\ w.epoch \in Nat /\ w.frames \in Nat /\ w.chunks \in Nat /\ w.len \in Nat
      /\ file.epoch \in Nat /\ file.framesReserved \in Nat /\ file.chunksReserved \in Nat
      /\ file.framesWritten \in Nat /\ file.chunksWritten \in Nat
      /\ \A c \in chunks : c.n \in Nat /\ c.rec.start \in Nat /\ c.rec.frames \in Nat /\ c.rec.epoch \in Nat
      /\ \A k \in 0 .. C - 1 : records[k].epoch \in Nat
      /\ \A k \in Nat : Place(k) \in 0 .. C - 1
  BY TypeFacts
<1>3. FreshOK'
  BY <1>1, <1>2, Assumed DEF WriterInv, FreshOK, Active, Assumptions
<1>4. CountersOK'
  BY <1>1, <1>2, Assumed DEF WriterInv, CountersOK, FreshOK, Active, ChunkAt, Assumptions
<1>5. HistoryOK'
  BY <1>1, <1>2, Assumed DEF WriterInv, HistoryOK, CountersOK, FreshOK, Active, Assumptions
<1>6. EpochOK'
  BY <1>1, <1>2, Assumed DEF WriterInv, EpochOK, EpochIsOneRun, HistoryOK, FreshOK, CountersOK, Active, NewEpochDue, Assumptions
<1>7. RecordsOK'
  BY <1>1, <1>2, Assumed DEF WriterInv, RecordsOK, CountersOK, Assumptions
<1>8. SamplesOK'
  BY <1>1, <1>2, Assumed DEF WriterInv, SamplesOK, FramesOf, CountersOK, Assumptions
<1>9. HolesOK'
  BY <1>1, <1>2, Assumed DEF WriterInv, HolesOK, ChunkAt, Active, NewEpochDue, FreshOK, CountersOK, Assumptions
<1>. QED BY <1>3, <1>4, <1>5, <1>6, <1>7, <1>8, <1>9 DEF WriterInv

LEMMA WriterFormatOdd ==
  ASSUME TypeOK, WriterInv, FormatOdd
  PROVE  WriterInv'
<1>1. /\ w.pc = "formatOdd"
      /\ w'.pc = "formatEpoch" /\ w'.epoch = w.epoch /\ w'.frames = w.frames
      /\ w'.chunks = w.chunks /\ w'.stream = w.stream /\ w'.len = w.len
      /\ file'.magic = file.magic /\ file'.epoch = file.epoch
      /\ file'.framesReserved = file.framesReserved /\ file'.framesWritten = file.framesWritten
      /\ file'.chunksReserved = file.chunksReserved /\ file'.chunksWritten = file.chunksWritten
      /\ UNCHANGED <<records, samples, chunks, r>>
  BY DEF FormatOdd, ring, readerUnchanged, historyUnchanged, TypeOK,
     WriterType, FileType
<1>2. /\ w.epoch \in Nat /\ w.frames \in Nat /\ w.chunks \in Nat /\ w.len \in Nat
      /\ file.epoch \in Nat /\ file.framesReserved \in Nat /\ file.chunksReserved \in Nat
      /\ file.framesWritten \in Nat /\ file.chunksWritten \in Nat
      /\ \A c \in chunks : c.n \in Nat /\ c.rec.start \in Nat /\ c.rec.frames \in Nat /\ c.rec.epoch \in Nat
      /\ \A k \in 0 .. C - 1 : records[k].epoch \in Nat
      /\ \A k \in Nat : Place(k) \in 0 .. C - 1
  BY TypeFacts
<1>3. FreshOK'
  BY <1>1, <1>2, Assumed DEF WriterInv, FreshOK, Active, Assumptions
<1>4. CountersOK'
  BY <1>1, <1>2, Assumed DEF WriterInv, CountersOK, FreshOK, Active, ChunkAt, Assumptions
<1>5. HistoryOK'
  BY <1>1, <1>2, Assumed DEF WriterInv, HistoryOK, CountersOK, FreshOK, Active, Assumptions
<1>6. EpochOK'
  BY <1>1, <1>2, Assumed DEF WriterInv, EpochOK, EpochIsOneRun, HistoryOK, FreshOK, CountersOK, Active, NewEpochDue, Assumptions
<1>7. RecordsOK'
  BY <1>1, <1>2, Assumed DEF WriterInv, RecordsOK, CountersOK, Assumptions
<1>8. SamplesOK'
  BY <1>1, <1>2, Assumed DEF WriterInv, SamplesOK, FramesOf, CountersOK, Assumptions
<1>9. HolesOK'
  BY <1>1, <1>2, Assumed DEF WriterInv, HolesOK, ChunkAt, Active, NewEpochDue, FreshOK, CountersOK, Assumptions
<1>. QED BY <1>3, <1>4, <1>5, <1>6, <1>7, <1>8, <1>9 DEF WriterInv

LEMMA WriterFormatEpoch ==
  ASSUME TypeOK, WriterInv, FormatEpoch
  PROVE  WriterInv'
<1>1. /\ w.pc = "formatEpoch"
      /\ w'.pc = "formatRate" /\ w'.epoch = w.epoch + 1 /\ w'.frames = w.frames
      /\ w'.chunks = w.chunks /\ w'.stream = w.stream /\ w'.len = w.len
      /\ file'.magic = file.magic /\ file'.epoch = w.epoch + 1
      /\ file'.framesReserved = file.framesReserved /\ file'.framesWritten = file.framesWritten
      /\ file'.chunksReserved = file.chunksReserved /\ file'.chunksWritten = file.chunksWritten
      /\ UNCHANGED <<records, samples, chunks, r>>
  BY DEF FormatEpoch, ring, readerUnchanged, historyUnchanged, TypeOK,
     WriterType, FileType
<1>2. /\ w.epoch \in Nat /\ w.frames \in Nat /\ w.chunks \in Nat /\ w.len \in Nat
      /\ file.epoch \in Nat /\ file.framesReserved \in Nat /\ file.chunksReserved \in Nat
      /\ file.framesWritten \in Nat /\ file.chunksWritten \in Nat
      /\ \A c \in chunks : c.n \in Nat /\ c.rec.start \in Nat /\ c.rec.frames \in Nat /\ c.rec.epoch \in Nat
      /\ \A k \in 0 .. C - 1 : records[k].epoch \in Nat
      /\ \A k \in Nat : Place(k) \in 0 .. C - 1
  BY TypeFacts
<1>3. FreshOK'
  BY <1>1, <1>2, Assumed DEF WriterInv, FreshOK, Active, Assumptions
<1>4. CountersOK'
  BY <1>1, <1>2, Assumed DEF WriterInv, CountersOK, FreshOK, Active, ChunkAt, Assumptions
<1>5. HistoryOK'
  BY <1>1, <1>2, Assumed DEF WriterInv, HistoryOK, CountersOK, FreshOK, Active, Assumptions
<1>6. EpochOK'
  BY <1>1, <1>2, Assumed DEF WriterInv, EpochOK, EpochIsOneRun, HistoryOK, FreshOK, CountersOK, Active, NewEpochDue, Assumptions
<1>7. RecordsOK'
  BY <1>1, <1>2, Assumed DEF WriterInv, RecordsOK, CountersOK, Assumptions
<1>8. SamplesOK'
  BY <1>1, <1>2, Assumed DEF WriterInv, SamplesOK, FramesOf, CountersOK, Assumptions
<1>9. HolesOK'
  BY <1>1, <1>2, Assumed DEF WriterInv, HolesOK, ChunkAt, Active, NewEpochDue, FreshOK, CountersOK, Assumptions
<1>. QED BY <1>3, <1>4, <1>5, <1>6, <1>7, <1>8, <1>9 DEF WriterInv

LEMMA WriterFormatRate ==
  ASSUME TypeOK, WriterInv, FormatRate
  PROVE  WriterInv'
<1>1. /\ w.pc = "formatRate"
      /\ w'.pc = "formatEven" /\ w'.epoch = w.epoch /\ w'.frames = w.frames
      /\ w'.chunks = w.chunks /\ w'.stream = w.stream /\ w'.len = w.len
      /\ file'.magic = file.magic /\ file'.epoch = file.epoch
      /\ file'.framesReserved = file.framesReserved /\ file'.framesWritten = file.framesWritten
      /\ file'.chunksReserved = file.chunksReserved /\ file'.chunksWritten = file.chunksWritten
      /\ UNCHANGED <<records, samples, chunks, r>>
  BY DEF FormatRate, Goto, ring, readerUnchanged, historyUnchanged, TypeOK,
     WriterType, FileType
<1>2. /\ w.epoch \in Nat /\ w.frames \in Nat /\ w.chunks \in Nat /\ w.len \in Nat
      /\ file.epoch \in Nat /\ file.framesReserved \in Nat /\ file.chunksReserved \in Nat
      /\ file.framesWritten \in Nat /\ file.chunksWritten \in Nat
      /\ \A c \in chunks : c.n \in Nat /\ c.rec.start \in Nat /\ c.rec.frames \in Nat /\ c.rec.epoch \in Nat
      /\ \A k \in 0 .. C - 1 : records[k].epoch \in Nat
      /\ \A k \in Nat : Place(k) \in 0 .. C - 1
  BY TypeFacts
<1>3. FreshOK'
  BY <1>1, <1>2, Assumed DEF WriterInv, FreshOK, Active, Assumptions
<1>4. CountersOK'
  BY <1>1, <1>2, Assumed DEF WriterInv, CountersOK, FreshOK, Active, ChunkAt, Assumptions
<1>5. HistoryOK'
  BY <1>1, <1>2, Assumed DEF WriterInv, HistoryOK, CountersOK, FreshOK, Active, Assumptions
<1>6. EpochOK'
  BY <1>1, <1>2, Assumed DEF WriterInv, EpochOK, EpochIsOneRun, HistoryOK, FreshOK, CountersOK, Active, NewEpochDue, Assumptions
<1>7. RecordsOK'
  BY <1>1, <1>2, Assumed DEF WriterInv, RecordsOK, CountersOK, Assumptions
<1>8. SamplesOK'
  BY <1>1, <1>2, Assumed DEF WriterInv, SamplesOK, FramesOf, CountersOK, Assumptions
<1>9. HolesOK'
  BY <1>1, <1>2, Assumed DEF WriterInv, HolesOK, ChunkAt, Active, NewEpochDue, FreshOK, CountersOK, Assumptions
<1>. QED BY <1>3, <1>4, <1>5, <1>6, <1>7, <1>8, <1>9 DEF WriterInv

LEMMA WriterFormatEven ==
  ASSUME TypeOK, WriterInv, FormatEven
  PROVE  WriterInv'
<1>1. /\ w.pc = "formatEven"
      /\ w'.pc = (IF w.len = 0 THEN "idle" ELSE "reserveFrames") /\ w'.epoch = w.epoch /\ w'.frames = w.frames
      /\ w'.chunks = w.chunks /\ w'.stream = w.stream /\ w'.len = w.len
      /\ file'.magic = file.magic /\ file'.epoch = file.epoch
      /\ file'.framesReserved = file.framesReserved /\ file'.framesWritten = file.framesWritten
      /\ file'.chunksReserved = file.chunksReserved /\ file'.chunksWritten = file.chunksWritten
      /\ UNCHANGED <<records, samples, chunks, r>>
  BY DEF FormatEven, ring, readerUnchanged, historyUnchanged, TypeOK,
     WriterType, FileType
<1>2. /\ w.epoch \in Nat /\ w.frames \in Nat /\ w.chunks \in Nat /\ w.len \in Nat
      /\ file.epoch \in Nat /\ file.framesReserved \in Nat /\ file.chunksReserved \in Nat
      /\ file.framesWritten \in Nat /\ file.chunksWritten \in Nat
      /\ \A c \in chunks : c.n \in Nat /\ c.rec.start \in Nat /\ c.rec.frames \in Nat /\ c.rec.epoch \in Nat
      /\ \A k \in 0 .. C - 1 : records[k].epoch \in Nat
      /\ \A k \in Nat : Place(k) \in 0 .. C - 1
  BY TypeFacts
<1>3. FreshOK'
  BY <1>1, <1>2, Assumed DEF WriterInv, FreshOK, Active, Assumptions
<1>4. CountersOK'
  BY <1>1, <1>2, Assumed DEF WriterInv, CountersOK, FreshOK, Active, ChunkAt, Assumptions
<1>5. HistoryOK'
  BY <1>1, <1>2, Assumed DEF WriterInv, HistoryOK, CountersOK, FreshOK, Active, Assumptions
<1>6. EpochOK'
  BY <1>1, <1>2, Assumed DEF WriterInv, EpochOK, EpochIsOneRun, HistoryOK, FreshOK, CountersOK, Active, NewEpochDue, Assumptions
<1>7. RecordsOK'
  BY <1>1, <1>2, Assumed DEF WriterInv, RecordsOK, CountersOK, Assumptions
<1>8. SamplesOK'
  BY <1>1, <1>2, Assumed DEF WriterInv, SamplesOK, FramesOf, CountersOK, Assumptions
<1>9. HolesOK'
  BY <1>1, <1>2, Assumed DEF WriterInv, HolesOK, ChunkAt, Active, NewEpochDue, FreshOK, CountersOK, Assumptions
<1>. QED BY <1>3, <1>4, <1>5, <1>6, <1>7, <1>8, <1>9 DEF WriterInv

LEMMA WriterEndStream ==
  ASSUME TypeOK, WriterInv, EndStream
  PROVE  WriterInv'
<1>1. /\ w.pc = "idle"
      /\ w'.pc = "formatOdd" /\ w'.epoch = w.epoch /\ w'.frames = w.frames
      /\ w'.chunks = w.chunks /\ w'.stream = 0 /\ w'.len = 0
      /\ file'.magic = file.magic /\ file'.epoch = file.epoch
      /\ file'.framesReserved = file.framesReserved /\ file'.framesWritten = file.framesWritten
      /\ file'.chunksReserved = file.chunksReserved /\ file'.chunksWritten = file.chunksWritten
      /\ UNCHANGED <<records, samples, chunks, r>>
  BY DEF EndStream, ring, readerUnchanged, historyUnchanged, TypeOK,
     WriterType, FileType
<1>2. /\ w.epoch \in Nat /\ w.frames \in Nat /\ w.chunks \in Nat /\ w.len \in Nat
      /\ file.epoch \in Nat /\ file.framesReserved \in Nat /\ file.chunksReserved \in Nat
      /\ file.framesWritten \in Nat /\ file.chunksWritten \in Nat
      /\ \A c \in chunks : c.n \in Nat /\ c.rec.start \in Nat /\ c.rec.frames \in Nat /\ c.rec.epoch \in Nat
      /\ \A k \in 0 .. C - 1 : records[k].epoch \in Nat
      /\ \A k \in Nat : Place(k) \in 0 .. C - 1
  BY TypeFacts
<1>3. FreshOK'
  BY <1>1, <1>2, Assumed DEF WriterInv, FreshOK, Active, Assumptions
<1>4. CountersOK'
  BY <1>1, <1>2, Assumed DEF WriterInv, CountersOK, FreshOK, Active, ChunkAt, Assumptions
<1>5. HistoryOK'
  BY <1>1, <1>2, Assumed DEF WriterInv, HistoryOK, CountersOK, FreshOK, Active, Assumptions
<1>6. EpochOK'
  BY <1>1, <1>2, Assumed DEF WriterInv, EpochOK, EpochIsOneRun, HistoryOK, FreshOK, CountersOK, Active, NewEpochDue, Assumptions
<1>7. RecordsOK'
  BY <1>1, <1>2, Assumed DEF WriterInv, RecordsOK, CountersOK, Assumptions
<1>8. SamplesOK'
  BY <1>1, <1>2, Assumed DEF WriterInv, SamplesOK, FramesOf, CountersOK, Assumptions
<1>9. HolesOK'
  BY <1>1, <1>2, Assumed DEF WriterInv, HolesOK, ChunkAt, Active, NewEpochDue, FreshOK, CountersOK, Assumptions
<1>. QED BY <1>3, <1>4, <1>5, <1>6, <1>7, <1>8, <1>9 DEF WriterInv

LEMMA WriterReserveFrames ==
  ASSUME TypeOK, WriterInv, ReserveFrames
  PROVE  WriterInv'
<1>1. /\ w.pc = "reserveFrames"
      /\ w'.pc = "reserveChunks" /\ w'.epoch = w.epoch /\ w'.frames = w.frames
      /\ w'.chunks = w.chunks /\ w'.stream = w.stream /\ w'.len = w.len
      /\ file'.magic = file.magic /\ file'.epoch = file.epoch
      /\ file'.framesReserved = w.frames + w.len /\ file'.framesWritten = file.framesWritten
      /\ file'.chunksReserved = file.chunksReserved /\ file'.chunksWritten = file.chunksWritten
      /\ UNCHANGED <<records, samples, chunks, r>>
  BY DEF ReserveFrames, Goto, ring, readerUnchanged, historyUnchanged, TypeOK,
     WriterType, FileType
<1>2. /\ w.epoch \in Nat /\ w.frames \in Nat /\ w.chunks \in Nat /\ w.len \in Nat
      /\ file.epoch \in Nat /\ file.framesReserved \in Nat /\ file.chunksReserved \in Nat
      /\ file.framesWritten \in Nat /\ file.chunksWritten \in Nat
      /\ \A c \in chunks : c.n \in Nat /\ c.rec.start \in Nat /\ c.rec.frames \in Nat /\ c.rec.epoch \in Nat
      /\ \A k \in 0 .. C - 1 : records[k].epoch \in Nat
      /\ \A k \in Nat : Place(k) \in 0 .. C - 1
  BY TypeFacts
<1>3. FreshOK'
  BY <1>1, <1>2, Assumed DEF WriterInv, FreshOK, Active, Assumptions
<1>4. CountersOK'
  BY <1>1, <1>2, Assumed DEF WriterInv, CountersOK, FreshOK, Active, ChunkAt, Assumptions
<1>5. HistoryOK'
  BY <1>1, <1>2, Assumed DEF WriterInv, HistoryOK, CountersOK, FreshOK, Active, Assumptions
<1>6. EpochOK'
  BY <1>1, <1>2, Assumed DEF WriterInv, EpochOK, EpochIsOneRun, HistoryOK, FreshOK, CountersOK, Active, NewEpochDue, Assumptions
<1>7. RecordsOK'
  BY <1>1, <1>2, Assumed DEF WriterInv, RecordsOK, CountersOK, Assumptions
<1>8. SamplesOK'
  BY <1>1, <1>2, Assumed DEF WriterInv, SamplesOK, FramesOf, CountersOK, Assumptions
<1>9. HolesOK'
  BY <1>1, <1>2, Assumed DEF WriterInv, HolesOK, ChunkAt, Active, NewEpochDue, FreshOK, CountersOK, Assumptions
<1>. QED BY <1>3, <1>4, <1>5, <1>6, <1>7, <1>8, <1>9 DEF WriterInv

LEMMA WriterReserveChunks ==
  ASSUME TypeOK, WriterInv, ReserveChunks
  PROVE  WriterInv'
<1>1. /\ w.pc = "reserveChunks"
      /\ w'.pc = "copy" /\ w'.epoch = w.epoch /\ w'.frames = w.frames
      /\ w'.chunks = w.chunks /\ w'.stream = w.stream /\ w'.len = w.len
      /\ file'.magic = file.magic /\ file'.epoch = file.epoch
      /\ file'.framesReserved = file.framesReserved /\ file'.framesWritten = file.framesWritten
      /\ file'.chunksReserved = w.chunks + 1 /\ file'.chunksWritten = file.chunksWritten
      /\ UNCHANGED <<records, samples, chunks, r>>
  BY DEF ReserveChunks, Goto, ring, readerUnchanged, historyUnchanged, TypeOK,
     WriterType, FileType
<1>2. /\ w.epoch \in Nat /\ w.frames \in Nat /\ w.chunks \in Nat /\ w.len \in Nat
      /\ file.epoch \in Nat /\ file.framesReserved \in Nat /\ file.chunksReserved \in Nat
      /\ file.framesWritten \in Nat /\ file.chunksWritten \in Nat
      /\ \A c \in chunks : c.n \in Nat /\ c.rec.start \in Nat /\ c.rec.frames \in Nat /\ c.rec.epoch \in Nat
      /\ \A k \in 0 .. C - 1 : records[k].epoch \in Nat
      /\ \A k \in Nat : Place(k) \in 0 .. C - 1
  BY TypeFacts
<1>3. FreshOK'
  BY <1>1, <1>2, Assumed DEF WriterInv, FreshOK, Active, Assumptions
<1>4. CountersOK'
  BY <1>1, <1>2, Assumed DEF WriterInv, CountersOK, FreshOK, Active, ChunkAt, Assumptions
<1>5. HistoryOK'
  BY <1>1, <1>2, Assumed DEF WriterInv, HistoryOK, CountersOK, FreshOK, Active, Assumptions
<1>6. EpochOK'
  BY <1>1, <1>2, Assumed DEF WriterInv, EpochOK, EpochIsOneRun, HistoryOK, FreshOK, CountersOK, Active, NewEpochDue, Assumptions
<1>7. RecordsOK'
  BY <1>1, <1>2, Assumed DEF WriterInv, RecordsOK, CountersOK, Assumptions
<1>8. SamplesOK'
  BY <1>1, <1>2, Assumed DEF WriterInv, SamplesOK, FramesOf, CountersOK, Assumptions
<1>9. HolesOK'
  BY <1>1, <1>2, Assumed DEF WriterInv, HolesOK, ChunkAt, Active, NewEpochDue, FreshOK, CountersOK, Assumptions
<1>. QED BY <1>3, <1>4, <1>5, <1>6, <1>7, <1>8, <1>9 DEF WriterInv

LEMMA WriterPublishFrames ==
  ASSUME TypeOK, WriterInv, PublishFrames
  PROVE  WriterInv'
<1>1. /\ w.pc = "publishFrames"
      /\ w'.pc = "publishChunks" /\ w'.epoch = w.epoch /\ w'.frames = w.frames
      /\ w'.chunks = w.chunks /\ w'.stream = w.stream /\ w'.len = w.len
      /\ file'.magic = file.magic /\ file'.epoch = file.epoch
      /\ file'.framesReserved = file.framesReserved /\ file'.framesWritten = w.frames
      /\ file'.chunksReserved = file.chunksReserved /\ file'.chunksWritten = file.chunksWritten
      /\ UNCHANGED <<records, samples, chunks, r>>
  BY DEF PublishFrames, Goto, ring, readerUnchanged, historyUnchanged, TypeOK,
     WriterType, FileType
<1>2. /\ w.epoch \in Nat /\ w.frames \in Nat /\ w.chunks \in Nat /\ w.len \in Nat
      /\ file.epoch \in Nat /\ file.framesReserved \in Nat /\ file.chunksReserved \in Nat
      /\ file.framesWritten \in Nat /\ file.chunksWritten \in Nat
      /\ \A c \in chunks : c.n \in Nat /\ c.rec.start \in Nat /\ c.rec.frames \in Nat /\ c.rec.epoch \in Nat
      /\ \A k \in 0 .. C - 1 : records[k].epoch \in Nat
      /\ \A k \in Nat : Place(k) \in 0 .. C - 1
  BY TypeFacts
<1>3. FreshOK'
  BY <1>1, <1>2, Assumed DEF WriterInv, FreshOK, Active, Assumptions
<1>4. CountersOK'
  BY <1>1, <1>2, Assumed DEF WriterInv, CountersOK, FreshOK, Active, ChunkAt, Assumptions
<1>5. HistoryOK'
  BY <1>1, <1>2, Assumed DEF WriterInv, HistoryOK, CountersOK, FreshOK, Active, Assumptions
<1>6. EpochOK'
  BY <1>1, <1>2, Assumed DEF WriterInv, EpochOK, EpochIsOneRun, HistoryOK, FreshOK, CountersOK, Active, NewEpochDue, Assumptions
<1>7. RecordsOK'
  BY <1>1, <1>2, Assumed DEF WriterInv, RecordsOK, CountersOK, Assumptions
<1>8. SamplesOK'
  BY <1>1, <1>2, Assumed DEF WriterInv, SamplesOK, FramesOf, CountersOK, Assumptions
<1>9. HolesOK'
  BY <1>1, <1>2, Assumed DEF WriterInv, HolesOK, ChunkAt, Active, NewEpochDue, FreshOK, CountersOK, Assumptions
<1>. QED BY <1>3, <1>4, <1>5, <1>6, <1>7, <1>8, <1>9 DEF WriterInv

LEMMA WriterPublishChunks ==
  ASSUME TypeOK, WriterInv, PublishChunks
  PROVE  WriterInv'
<1>1. /\ w.pc = "publishChunks"
      /\ w'.pc = "idle" /\ w'.epoch = w.epoch /\ w'.frames = w.frames
      /\ w'.chunks = w.chunks /\ w'.stream = w.stream /\ w'.len = 0
      /\ file'.magic = file.magic /\ file'.epoch = file.epoch
      /\ file'.framesReserved = file.framesReserved /\ file'.framesWritten = file.framesWritten
      /\ file'.chunksReserved = file.chunksReserved /\ file'.chunksWritten = w.chunks
      /\ UNCHANGED <<records, samples, chunks, r>>
  BY DEF PublishChunks, ring, readerUnchanged, historyUnchanged, TypeOK,
     WriterType, FileType
<1>2. /\ w.epoch \in Nat /\ w.frames \in Nat /\ w.chunks \in Nat /\ w.len \in Nat
      /\ file.epoch \in Nat /\ file.framesReserved \in Nat /\ file.chunksReserved \in Nat
      /\ file.framesWritten \in Nat /\ file.chunksWritten \in Nat
      /\ \A c \in chunks : c.n \in Nat /\ c.rec.start \in Nat /\ c.rec.frames \in Nat /\ c.rec.epoch \in Nat
      /\ \A k \in 0 .. C - 1 : records[k].epoch \in Nat
      /\ \A k \in Nat : Place(k) \in 0 .. C - 1
  BY TypeFacts
<1>3. FreshOK'
  BY <1>1, <1>2, Assumed DEF WriterInv, FreshOK, Active, Assumptions
<1>4. CountersOK'
  BY <1>1, <1>2, Assumed DEF WriterInv, CountersOK, FreshOK, Active, ChunkAt, Assumptions
<1>5. HistoryOK'
  BY <1>1, <1>2, Assumed DEF WriterInv, HistoryOK, CountersOK, FreshOK, Active, Assumptions
<1>6. EpochOK'
  BY <1>1, <1>2, Assumed DEF WriterInv, EpochOK, EpochIsOneRun, HistoryOK, FreshOK, CountersOK, Active, NewEpochDue, Assumptions
<1>7. RecordsOK'
  BY <1>1, <1>2, Assumed DEF WriterInv, RecordsOK, CountersOK, Assumptions
<1>8. SamplesOK'
  BY <1>1, <1>2, Assumed DEF WriterInv, SamplesOK, FramesOf, CountersOK, Assumptions
<1>9. HolesOK'
  BY <1>1, <1>2, Assumed DEF WriterInv, HolesOK, ChunkAt, Active, NewEpochDue, FreshOK, CountersOK, Assumptions
<1>. QED BY <1>3, <1>4, <1>5, <1>6, <1>7, <1>8, <1>9 DEF WriterInv

LEMMA WriterZeroFile ==
  ASSUME TypeOK, WriterInv, ZeroFile
  PROVE  WriterInv'
<1>1. /\ w.pc = "zeroing" /\ ~file.magic /\ chunks = {} /\ r.pc = "idle"
      /\ w.frames = 0 /\ w.chunks = 0 /\ w.epoch = 0 /\ w.len = 0
  BY DEF ZeroFile, WriterInv, FreshOK
<1>2. /\ w'.pc = "magic" /\ chunks' = {} /\ r' = r
      /\ w'.frames = 0 /\ w'.chunks = 0 /\ w'.epoch = 0 /\ w'.len = 0
  BY <1>1 DEF ZeroFile, Goto, readerUnchanged, historyUnchanged, TypeOK, WriterType
<1>3. /\ ~file'.magic /\ file'.epoch = 0
      /\ file'.framesReserved = 0 /\ file'.framesWritten = 0
      /\ file'.chunksReserved = 0 /\ file'.chunksWritten = 0
      /\ \A k \in 0 .. C - 1 : records'[k].epoch = 0
  BY DEF ZeroFile, ZeroHeader, NoRec
<1>4. FreshOK' BY <1>1, <1>2, <1>3 DEF FreshOK, Active
<1>5. CountersOK' BY <1>2, <1>3 DEF CountersOK, Active
<1>6. HistoryOK' /\ EpochOK' /\ RecordsOK' /\ SamplesOK'
  BY <1>2 DEF HistoryOK, EpochOK, EpochIsOneRun, RecordsOK, SamplesOK
<1>7. HolesOK' BY <1>2, <1>3 DEF HolesOK, Active
<1>. QED BY <1>4, <1>5, <1>6, <1>7 DEF WriterInv

LEMMA WriterCommit ==
  ASSUME NEW s \in Streams, NEW len \in Lengths, NEW gap \in Gaps,
         TypeOK, WriterInv, Commit(s, len, gap)
  PROVE  WriterInv'
<1>1. /\ w.pc = "idle"
      /\ w'.epoch = w.epoch /\ w'.frames = w.frames /\ w'.chunks = w.chunks
      /\ w'.stream = s /\ w'.len = Smaller(len, F)
      /\ w'.pc = IF s # w.stream THEN "formatOdd"
                 ELSE IF len = 0 THEN "idle" ELSE "reserveFrames"
      /\ UNCHANGED <<file, records, samples, chunks, r>>
  BY DEF Commit, ring, readerUnchanged, TypeOK, WriterType
<1>2. len # 0 => Smaller(len, F) > 0
  BY Assumed DEF Assumptions, Smaller
<1>3. FreshOK' BY <1>1 DEF WriterInv, FreshOK, Active
<1>4. CountersOK' BY <1>1, <1>2 DEF WriterInv, CountersOK, Active, ChunkAt
<1>5. HistoryOK' BY <1>1 DEF WriterInv, HistoryOK, Active
<1>6. EpochOK' BY <1>1 DEF WriterInv, EpochOK, EpochIsOneRun, Active, NewEpochDue
<1>7. RecordsOK' BY <1>1 DEF WriterInv, RecordsOK
<1>8. SamplesOK' BY <1>1 DEF WriterInv, SamplesOK, FramesOf
<1>9. HolesOK' BY <1>1 DEF WriterInv, HolesOK, ChunkAt, Active, NewEpochDue
<1>. QED BY <1>3, <1>4, <1>5, <1>6, <1>7, <1>8, <1>9 DEF WriterInv

(* The frames of a commit lie after every frame of the history and, while  *)
(* they are written, no slot of a frame still covered is among theirs.     *)
LEMMA NewSlotsApart ==
  ASSUME TypeOK, CountersOK, HistoryOK, Active, w.pc \in {"copy", "copying"},
         NEW c \in chunks, NEW i \in FramesOf(c), file.framesReserved <= i + F
  PROVE  Slot(i) \notin NewSlots
<1>. SUFFICES ASSUME NEW j \in NewFrames, Slot(i) = Slot(j) PROVE FALSE
  BY DEF NewSlots
<1>1. i \in Int /\ j \in Int /\ i < w.frames /\ w.frames <= j /\ j < w.frames + w.len
  BY TypeFacts DEF FramesOf, NewFrames, HistoryOK
<1>2. file.framesReserved = w.frames + w.len
  BY DEF CountersOK
<1>3. i < j /\ j < i + F
  BY <1>1, <1>2, TypeFacts, Assumed DEF Assumptions
<1>. QED BY <1>1, <1>3, ModDistinct, Assumed DEF Slot, Assumptions

LEMMA WriterCopyBegin ==
  ASSUME TypeOK, WriterInv, CopyBegin
  PROVE  WriterInv'
<1>1. /\ w.pc = "copy" /\ w'.pc = "copying"
      /\ w'.epoch = w.epoch /\ w'.frames = w.frames /\ w'.chunks = w.chunks
      /\ w'.stream = w.stream /\ w'.len = w.len
      /\ UNCHANGED <<file, records, chunks, r>>
  BY DEF CopyBegin, Goto, readerUnchanged, historyUnchanged, TypeOK, WriterType
<1>2. ASSUME NEW c \in chunks, NEW i \in FramesOf(c), file.framesReserved <= i + F
      PROVE  samples'[Slot(i)] = samples[Slot(i)]
  <2>1. Slot(i) \notin NewSlots
    BY <1>1, <1>2, NewSlotsApart DEF WriterInv, Active
  <2>2. Slot(i) \in 0 .. F - 1
    BY Assumed, ModFacts, TypeFacts DEF Assumptions, Slot, FramesOf
  <2>. QED BY <2>1, <2>2 DEF CopyBegin
<1>3. FreshOK' BY <1>1 DEF WriterInv, FreshOK, Active
<1>4. CountersOK' BY <1>1 DEF WriterInv, CountersOK, Active, ChunkAt
<1>5. HistoryOK' BY <1>1 DEF WriterInv, HistoryOK, Active
<1>6. EpochOK' BY <1>1 DEF WriterInv, EpochOK, EpochIsOneRun, Active, NewEpochDue
<1>7. RecordsOK' BY <1>1 DEF WriterInv, RecordsOK
<1>8. SamplesOK' BY <1>1, <1>2 DEF WriterInv, SamplesOK, FramesOf
<1>9. HolesOK' BY <1>1 DEF WriterInv, HolesOK, ChunkAt, Active, NewEpochDue
<1>. QED BY <1>3, <1>4, <1>5, <1>6, <1>7, <1>8, <1>9 DEF WriterInv

(* Nor is the place of a record still covered that of the new record.      *)
LEMMA NewPlaceApart ==
  ASSUME TypeOK, CountersOK, w.pc = "copying", NEW n \in Nat, n < w.chunks,
         file.chunksReserved <= n + C
  PROVE  Place(n) # Place(w.chunks)
<1>1. file.chunksReserved = w.chunks + 1 /\ w.chunks \in Nat
  BY TypeFacts DEF CountersOK
<1>2. w.chunks < n + C
  BY <1>1, Assumed DEF Assumptions
<1>3. n \in Int /\ w.chunks \in Int /\ C \in Nat \ {0}
  BY <1>1, Assumed DEF Assumptions
<1>4. n % C # w.chunks % C
  BY <1>2, <1>3, ModDistinct
<1>. QED BY <1>4 DEF Place

LEMMA WriterCopyEnd ==
  ASSUME TypeOK, WriterInv, CopyEnd
  PROVE  WriterInv'
<1>. DEFINE new == [n |-> w.chunks, rec |-> NewRec, stream |-> w.stream]
<1>1. /\ w.pc = "copying" /\ w'.pc = "publishFrames"
      /\ w'.epoch = w.epoch /\ w'.frames = w.frames + w.len
      /\ w'.chunks = w.chunks + 1 /\ w'.stream = w.stream /\ w'.len = w.len
      /\ UNCHANGED <<file, r>>
  BY DEF CopyEnd, readerUnchanged, TypeOK, WriterType
<1>2. chunks' = chunks \cup {new} /\ records' = [records EXCEPT ![Place(w.chunks)] = NewRec]
  BY DEF CopyEnd
<1>3. /\ new.n = w.chunks /\ new.rec.start = w.frames /\ new.rec.frames = w.len
      /\ new.rec.epoch = w.epoch /\ new.stream = w.stream /\ new.rec = NewRec
      /\ NewRec.epoch = w.epoch
  BY DEF NewRec
<1>. HIDE DEF new
<1>4. /\ file.magic /\ file.framesReserved = w.frames + w.len
      /\ file.chunksReserved = w.chunks + 1 /\ w.epoch = file.epoch
      /\ w.len > 0 /\ w.stream \in Streams /\ Active /\ ~NewEpochDue
  BY <1>1 DEF WriterInv, FreshOK, CountersOK, Active, NewEpochDue
<1>5. \A c \in chunks : c.n < w.chunks /\ c.rec.start + c.rec.frames <= w.frames
  BY <1>4 DEF WriterInv, HistoryOK
<1>6. FreshOK' BY <1>1, <1>4 DEF FreshOK, Active
<1>7. CountersOK'
  <2>1. /\ \E c \in chunks' : c.n = w'.chunks - 1
        /\ file.chunksWritten > 0 => \E c \in chunks' : c.n = file.chunksWritten - 1
    BY <1>1, <1>2, <1>3, TypeFacts, SMTT(30) DEF ChunkAt, WriterInv, CountersOK
  <2>. QED BY <1>1, <1>4, <2>1, TypeFacts DEF CountersOK, WriterInv, Active, ChunkAt
<1>8. HistoryOK'
  BY <1>1, <1>2, <1>3, <1>4, <1>5, TypeFacts DEF WriterInv, HistoryOK, Active
<1>9. EpochOK'
  <2>1. \A c \in chunks : c.rec.epoch = w.epoch =>
          /\ c.stream = w.stream
          /\ \E b \in chunks : /\ b.n + 1 = w.chunks /\ b.rec.epoch = w.epoch
                               /\ b.rec.start + b.rec.frames = w.frames
    BY <1>4 DEF WriterInv, EpochOK
  <2>2. EpochIsOneRun'
    <3>. SUFFICES ASSUME NEW c \in chunks', NEW d \in chunks',
                         c.rec.epoch = d.rec.epoch, c.n < d.n
                  PROVE  /\ c.stream = d.stream
                         /\ \E b \in chunks' :
                              /\ b.n + 1 = d.n /\ b.rec.epoch = d.rec.epoch
                              /\ b.rec.start + b.rec.frames = d.rec.start
      BY DEF EpochIsOneRun
    <3>1. CASE d = new
      <4>1. c \in chunks
        BY <1>2, <3>1, TypeFacts, <1>3
      <4>. QED BY <1>2, <1>3, <2>1, <3>1, <4>1
    <3>2. CASE d # new
      <4>1. c \in chunks /\ d \in chunks
        BY <1>2, <1>3, <1>5, <3>2, TypeFacts
      <4>. QED BY <1>2, <4>1 DEF WriterInv, EpochOK, EpochIsOneRun
    <3>. QED BY <3>1, <3>2
  <2>3. \A c \in chunks' : c.rec.epoch = w.epoch => c.stream = w.stream
    BY <1>2, <1>3, <2>1
  <2>4. /\ new \in chunks' /\ new.n + 1 = w'.chunks /\ new.rec.epoch = w'.epoch
        /\ new.rec.start + new.rec.frames = w'.frames
    BY <1>1, <1>2, <1>3
  <2>. QED BY <1>1, <2>2, <2>3, <2>4 DEF EpochOK
<1>10. Place(w.chunks) \in 0 .. C - 1 /\ records \in [0 .. C - 1 -> Rec]
  BY TypeFacts DEF TypeOK, RingType
<1>11. \A n \in Nat : (n < w.chunks /\ file.chunksReserved <= n + C) =>
         records'[Place(n)] = records[Place(n)]
  BY <1>1, <1>2, <1>10, TypeFacts, NewPlaceApart DEF WriterInv
<1>12. RecordsOK'
  <2>1. records'[Place(new.n)] = new.rec
    BY <1>2, <1>3, <1>10
  <2>2. ASSUME NEW c \in chunks, file.chunksReserved <= c.n + C
        PROVE  records'[Place(c.n)] = c.rec
    BY <1>5, <1>11, <2>2, TypeFacts DEF WriterInv, RecordsOK
  <2>. QED BY <1>1, <1>2, <2>1, <2>2 DEF RecordsOK
<1>13. SamplesOK'
  <2>1. ASSUME NEW c \in chunks, NEW i \in FramesOf(c), file.framesReserved <= i + F
        PROVE  samples'[Slot(i)] = [frame |-> i, epoch |-> c.rec.epoch]
    <3>1. Slot(i) \notin NewSlots
      BY <1>1, <1>4, <2>1, NewSlotsApart DEF WriterInv
    <3>2. Slot(i) \in 0 .. F - 1
      BY Assumed, ModFacts, TypeFacts DEF Assumptions, Slot, FramesOf
    <3>3. samples'[Slot(i)] = samples[Slot(i)]
      BY <3>1, <3>2 DEF CopyEnd
    <3>. QED BY <2>1, <3>3 DEF WriterInv, SamplesOK
  <2>2. ASSUME NEW i \in FramesOf(new)
        PROVE  samples'[Slot(i)] = [frame |-> i, epoch |-> new.rec.epoch]
    <3>1. i \in NewFrames /\ i \in Int
      BY <1>3, TypeFacts DEF FramesOf, NewFrames
    <3>2. Slot(i) \in 0 .. F - 1 /\ Slot(i) \in NewSlots
      BY <3>1, Assumed, ModFacts DEF Assumptions, Slot, NewSlots
    <3>3. \A j \in NewFrames : Slot(j) = Slot(i) => j = i
      <4>. SUFFICES ASSUME NEW j \in NewFrames, Slot(j) = Slot(i), j # i PROVE FALSE
        OBVIOUS
      <4>1. /\ j \in Int /\ w.frames <= i /\ i < w.frames + w.len
            /\ w.frames <= j /\ j < w.frames + w.len /\ w.len <= F
            /\ w.frames \in Nat /\ w.len \in Nat /\ F \in Nat \ {0}
        BY <3>1, TypeFacts, Assumed DEF NewFrames, TypeOK, WriterType, Assumptions
      <4>2. CASE i < j
        BY <3>1, <4>1, <4>2, ModDistinct DEF Slot
      <4>3. CASE j < i
        BY <3>1, <4>1, <4>3, ModDistinct DEF Slot
      <4>. QED BY <3>1, <4>1, <4>2, <4>3
    <3>4. (CHOOSE j \in NewFrames : Slot(j) = Slot(i)) = i
      BY <3>1, <3>3
    <3>5. samples'[Slot(i)] = [frame |-> CHOOSE j \in NewFrames : Slot(j) = Slot(i),
                               epoch |-> w.epoch]
      BY <3>2 DEF CopyEnd
    <3>. QED BY <1>3, <3>4, <3>5
  <2>. QED BY <1>1, <1>2, <2>1, <2>2 DEF SamplesOK, FramesOf
<1>14. HolesOK'
  <2>1. \A k \in 0 .. C - 1 : records'[k].epoch <= file.epoch
    <3>1. \A k \in 0 .. C - 1 :
            records'[k].epoch = records[k].epoch \/ records'[k].epoch = w.epoch
      BY <1>2, <1>3, <1>10
    <3>. QED BY <1>4, <3>1, TypeFacts DEF WriterInv, HolesOK
  <2>2. ASSUME NEW d \in chunks', d.n > 0, file.chunksReserved <= (d.n - 1) + C,
               records'[Place(d.n - 1)].epoch = d.rec.epoch
        PROVE  \E c \in chunks' : c.n = d.n - 1
    <3>1. d.n \in Nat /\ d.n - 1 \in Nat /\ d.n - 1 < w.chunks
      BY <1>2, <1>3, <1>5, <2>2, TypeFacts
    <3>2. records'[Place(d.n - 1)] = records[Place(d.n - 1)]
      BY <1>11, <2>2, <3>1
    <3>3. CASE d = new
      BY <1>1, <1>2, <1>3, <1>4, <2>2, <3>2, <3>3 DEF WriterInv, HolesOK, ChunkAt
    <3>4. CASE d \in chunks
      BY <1>2, <2>2, <3>2, <3>4 DEF WriterInv, HolesOK, ChunkAt
    <3>. QED BY <1>2, <3>3, <3>4
  <2>3. \E c \in chunks' : c.n = w'.chunks - 1
    BY <1>1, <1>2, <1>3, TypeFacts
  <2>. QED BY <1>1, <2>1, <2>2, <2>3 DEF HolesOK, ChunkAt
<1>. QED BY <1>6, <1>7, <1>8, <1>9, <1>12, <1>13, <1>14 DEF WriterInv

LEMMA WriterKill ==
  ASSUME TypeOK, WriterInv, Kill
  PROVE  WriterInv'
<1>1. /\ w'.pc = "dead" /\ w'.epoch = 0 /\ w'.frames = 0 /\ w'.chunks = 0
      /\ w'.stream = 0 /\ w'.len = 0
      /\ UNCHANGED <<file, samples, chunks, r>>
  BY DEF Kill, NewWriter, readerUnchanged
<1>2. /\ Place(w.chunks) \in 0 .. C - 1 /\ records \in [0 .. C - 1 -> Rec]
      /\ w.epoch \in Nat /\ NewRec.epoch = w.epoch
  BY TypeFacts DEF TypeOK, RingType, NewRec
<1>3. CASE w.pc # "copying"
  <2>1. records' = records
    BY <1>3 DEF Kill
  <2>2. FreshOK' BY <1>1, <2>1 DEF WriterInv, FreshOK, Active
  <2>3. CountersOK' BY <1>1 DEF WriterInv, CountersOK, Active, ChunkAt
  <2>4. HistoryOK' BY <1>1 DEF WriterInv, HistoryOK, Active
  <2>5. EpochOK' BY <1>1 DEF WriterInv, EpochOK, EpochIsOneRun, Active
  <2>6. RecordsOK' BY <1>1, <2>1 DEF WriterInv, RecordsOK
  <2>7. SamplesOK' BY <1>1 DEF WriterInv, SamplesOK, FramesOf
  <2>8. HolesOK' BY <1>1, <2>1 DEF WriterInv, HolesOK, ChunkAt, Active
  <2>. QED BY <2>2, <2>3, <2>4, <2>5, <2>6, <2>7, <2>8 DEF WriterInv
<1>4. CASE w.pc = "copying"
  <2>1. PICK m \in Mixed(records[Place(w.chunks)], NewRec) :
          records' = [records EXCEPT ![Place(w.chunks)] = m]
    BY <1>4 DEF Kill
  <2>2. Active /\ file.magic /\ w.epoch = file.epoch
    BY <1>4 DEF WriterInv, FreshOK, CountersOK, Active
  <2>3. m.epoch <= file.epoch
    BY <1>2, <2>2 DEF Mixed, WriterInv, HolesOK
  <2>4. \A n \in Nat : (n < w.chunks /\ file.chunksReserved <= n + C) =>
          records'[Place(n)] = records[Place(n)]
    BY <1>2, <1>4, <2>1, TypeFacts, NewPlaceApart DEF WriterInv
  <2>5. \A c \in chunks : c.n < w.chunks
    BY <2>2 DEF WriterInv, HistoryOK
  <2>6. FreshOK' BY <1>1, <2>2 DEF FreshOK, Active
  <2>7. CountersOK' BY <1>1 DEF WriterInv, CountersOK, Active, ChunkAt
  <2>8. HistoryOK' BY <1>1 DEF WriterInv, HistoryOK, Active
  <2>9. EpochOK' BY <1>1 DEF WriterInv, EpochOK, EpochIsOneRun, Active
  <2>10. RecordsOK' BY <1>1, <2>4, <2>5, TypeFacts DEF WriterInv, RecordsOK
  <2>11. SamplesOK' BY <1>1 DEF WriterInv, SamplesOK, FramesOf
  <2>12. HolesOK'
    <3>1. \A k \in 0 .. C - 1 : records'[k].epoch <= file.epoch
      BY <1>2, <2>1, <2>3, TypeFacts DEF WriterInv, HolesOK
    <3>2. ASSUME NEW d \in chunks, d.n > 0, file.chunksReserved <= (d.n - 1) + C,
                 records'[Place(d.n - 1)].epoch = d.rec.epoch
          PROVE  ChunkAt(d.n - 1)
      <4>1. d.n - 1 \in Nat /\ d.n - 1 < w.chunks
        BY <2>5, <3>2, TypeFacts
      <4>2. records'[Place(d.n - 1)] = records[Place(d.n - 1)]
        BY <2>4, <3>2, <4>1
      <4>. QED BY <3>2, <4>2 DEF WriterInv, HolesOK
    <3>. QED BY <1>1, <3>1, <3>2 DEF HolesOK, ChunkAt, Active
  <2>. QED BY <2>6, <2>7, <2>8, <2>9, <2>10, <2>11, <2>12 DEF WriterInv
<1>. QED BY <1>3, <1>4

LEMMA WriterKeepsInv ==
  ASSUME TypeOK, WriterInv, WriterNext
  PROVE  WriterInv'
BY WriterOpenFresh, WriterZeroFile, WriterStoreMagic, WriterOpenReuse,
   WriterFormatOdd, WriterFormatEpoch, WriterFormatRate, WriterFormatEven,
   WriterEndStream, WriterCommit, WriterReserveFrames, WriterReserveChunks,
   WriterCopyBegin, WriterCopyEnd, WriterPublishFrames, WriterPublishChunks,
   WriterKill DEF WriterNext

-----------------------------------------------------------------------------
(* The writer's steps only ever add to the history and raise the counters, *)
(* which is what makes every conditional of the reader's half stable.      *)
LEMMA WriterGrows ==
  ASSUME TypeOK, WriterInv, WriterNext
  PROVE  /\ r' = r /\ out' = out /\ chunks \subseteq chunks'
         /\ file.framesReserved <= file'.framesReserved
         /\ file.chunksReserved <= file'.chunksReserved
         /\ file.epoch <= file'.epoch
<1>1. r' = r /\ out' = out /\ chunks \subseteq chunks'
  BY DEF WriterNext, OpenFresh, ZeroFile, StoreMagic, OpenReuse, FormatOdd,
     FormatEpoch, FormatRate, FormatEven, EndStream, Commit, ReserveFrames,
     ReserveChunks, CopyBegin, CopyEnd, PublishFrames, PublishChunks, Kill,
     ring, readerUnchanged, historyUnchanged
<1>. DEFINE Rises == /\ file.framesReserved <= file'.framesReserved
                     /\ file.chunksReserved <= file'.chunksReserved
                     /\ file.epoch <= file'.epoch
<1>2. CASE file' = file
  BY <1>1, <1>2, TypeFacts
<1>3. CASE ZeroFile
  <2>1. file.framesReserved = 0 /\ file.chunksReserved = 0 /\ file.epoch = 0
    BY <1>3 DEF ZeroFile, WriterInv, FreshOK
  <2>. QED BY <1>1, <1>3, <2>1 DEF ZeroFile, ZeroHeader
<1>4. CASE ReserveFrames
  <2>1. file.framesReserved = w.frames
    BY <1>4 DEF ReserveFrames, WriterInv, CountersOK
  <2>. QED BY <1>1, <1>4, <2>1, TypeFacts DEF ReserveFrames, TypeOK, FileType
<1>5. CASE ReserveChunks
  <2>1. file.chunksReserved = w.chunks
    BY <1>5 DEF ReserveChunks, WriterInv, CountersOK
  <2>. QED BY <1>1, <1>5, <2>1, TypeFacts DEF ReserveChunks, TypeOK, FileType
<1>6. CASE FormatEpoch
  <2>1. file.epoch = w.epoch
    BY <1>6 DEF FormatEpoch, WriterInv, CountersOK, Active
  <2>. QED BY <1>1, <1>6, <2>1, TypeFacts DEF FormatEpoch, TypeOK, FileType
<1>7. CASE StoreMagic \/ FormatOdd \/ FormatRate \/ FormatEven \/ PublishFrames \/ PublishChunks
  BY <1>1, <1>7, TypeFacts DEF StoreMagic, FormatOdd, FormatRate, FormatEven,
     PublishFrames, PublishChunks, TypeOK, FileType
<1>8. \/ file' = file \/ ZeroFile \/ ReserveFrames \/ ReserveChunks \/ FormatEpoch
      \/ StoreMagic \/ FormatOdd \/ FormatRate \/ FormatEven
      \/ PublishFrames \/ PublishChunks
  BY DEF WriterNext, OpenFresh, OpenReuse, EndStream, Commit, CopyBegin, CopyEnd,
     Kill, ring
<1>. QED BY <1>2, <1>3, <1>4, <1>5, <1>6, <1>7, <1>8

LEMMA WriterKeepsReader ==
  ASSUME TypeOK, WriterInv, ReaderInv, WriterNext
  PROVE  ReaderInv'
<1>1. /\ r' = r /\ out' = out /\ chunks \subseteq chunks'
      /\ file.framesReserved <= file'.framesReserved
      /\ file.chunksReserved <= file'.chunksReserved
  BY WriterGrows
<1>2. /\ file.framesReserved \in Int /\ file.chunksReserved \in Int
      /\ file'.framesReserved \in Int /\ file'.chunksReserved \in Int
      /\ r.first \in Int /\ r.oldest \in Int /\ F \in Int /\ C \in Int
  BY TypeWriter, Assumed DEF WriterInv, TypeOK, FileType, ReaderType, CallType, Assumptions
<1>3. (Live' => Live) /\ (Fresh' => Fresh)
  BY <1>1, <1>2 DEF Live, Fresh
<1>4. \A i, e : Committed(i, e) => Committed(i, e)'
  BY <1>1 DEF Committed, FramesOf
<1>5. \A n, rec : Chunk(n, rec) => Chunk(n, rec)'
  BY <1>1 DEF Chunk
<1>6. \A n : ChunkAt(n) => ChunkAt(n)'
  BY <1>1 DEF ChunkAt
<1>7. WalkOK'
  BY <1>1, <1>3, <1>4, <1>5, <1>6 DEF ReaderInv, WalkOK, Lo
<1>8. CopyOK'
  BY <1>1, <1>3, <1>4 DEF ReaderInv, CopyOK, Zeros, WindowExact, WindowCommitted, Wanted
<1>9. OkIsExact'
  BY <1>1, <1>4 DEF ReaderInv, OkIsExact, Wanted
<1>. QED BY <1>7, <1>8, <1>9 DEF ReaderInv

-----------------------------------------------------------------------------
(* What the reader copies while the reserved counter has not passed it is  *)
(* what the writer completed; and a record below a chunk of this epoch     *)
(* that claims this epoch is that of the chunk before.                     *)
LEMMA SeenPlain ==
  ASSUME TypeOK, WriterInv, NEW n \in Nat, n < file.chunksReserved,
         w.pc = "copying" => n < w.chunks, file.chunksReserved <= n + C
  PROVE  Seen(n) = {records[Place(n)]}
<1>1. CASE w.pc # "copying"
  BY <1>1 DEF Seen
<1>2. CASE w.pc = "copying"
  BY <1>2, NewPlaceApart DEF Seen, WriterInv
<1>. QED BY <1>1, <1>2

LEMMA SeenIsChunk ==
  ASSUME TypeOK, WriterInv, NEW n \in Nat, ChunkAt(n), file.chunksReserved <= n + C,
         NEW rec \in Seen(n)
  PROVE  Chunk(n, rec)
<1>1. PICK c \in chunks : c.n = n
  BY DEF ChunkAt
<1>2. n < file.chunksReserved /\ (w.pc = "copying" => n < w.chunks)
  BY <1>1 DEF WriterInv, HistoryOK, Active
<1>3. rec = records[Place(n)]
  BY <1>2, SeenPlain
<1>. QED BY <1>1, <1>3 DEF Chunk, WriterInv, RecordsOK

LEMMA SeenBelow ==
  ASSUME TypeOK, WriterInv, NEW n \in Nat, n > 0, NEW e, NEW above, Chunk(n, above),
         above.epoch = e, file.chunksReserved <= (n - 1) + C,
         NEW rec \in Seen(n - 1), rec.epoch = e
  PROVE  Chunk(n - 1, rec)
<1>1. PICK d \in chunks : d.n = n /\ d.rec = above
  BY DEF Chunk
<1>2. /\ n - 1 \in Nat /\ n - 1 < file.chunksReserved
      /\ w.pc = "copying" => n - 1 < w.chunks
  BY <1>1, TypeFacts DEF WriterInv, HistoryOK, Active
<1>3. rec = records[Place(n - 1)]
  BY <1>2, SeenPlain
<1>4. ChunkAt(n - 1)
  BY <1>1, <1>3 DEF WriterInv, HolesOK
<1>. QED BY <1>2, <1>4, SeenIsChunk

(* Neighbouring chunks of one epoch share a border.                        *)
LEMMA ChunksMeet ==
  ASSUME TypeOK, WriterInv, NEW n \in Nat, NEW lower, NEW upper,
         Chunk(n - 1, lower), Chunk(n, upper), lower.epoch = upper.epoch
  PROVE  lower.start + lower.frames = upper.start
<1>1. PICK c \in chunks : c.n = n - 1 /\ c.rec = lower
  BY DEF Chunk
<1>2. PICK d \in chunks : d.n = n /\ d.rec = upper
  BY DEF Chunk
<1>3. c.n \in Nat /\ d.n \in Nat /\ c.n < d.n
  BY <1>1, <1>2, TypeFacts
<1>4. PICK b \in chunks : b.n + 1 = d.n /\ b.rec.start + b.rec.frames = d.rec.start
  BY <1>1, <1>2, <1>3 DEF WriterInv, EpochOK, EpochIsOneRun
<1>5. b.n = c.n
  BY <1>1, <1>2, <1>4, TypeFacts
<1>6. b = c
  BY <1>5 DEF WriterInv, HistoryOK
<1>. QED BY <1>1, <1>2, <1>4, <1>6

LEMMA ChunkCommitted ==
  ASSUME NEW n, NEW rec, Chunk(n, rec),
         NEW i \in rec.start .. (rec.start + rec.frames - 1)
  PROVE  Committed(i, rec.epoch)
BY DEF Chunk, Committed, FramesOf

(* The facts about a call that its steps draw on.                          *)
LEMMA CallFacts ==
  ASSUME TypeOK
  PROVE  /\ r.n \in Int /\ r.oldest \in Int /\ r.t \in Int /\ r.end \in Nat
         /\ r.first \in Nat /\ r.window \in Nat /\ r.written \in Nat /\ r.epoch \in Nat
         /\ r.best \in Rec /\ r.prev \in Rec /\ r.low \in Rec
         /\ file.chunksReserved \in Nat /\ file.framesReserved \in Nat
         /\ file.chunksWritten \in Nat /\ Len(out) \in Nat
         /\ F \in Nat \ {0} /\ C \in Nat \ {0}
<1>1. /\ r.n \in Int /\ r.oldest \in Int /\ r.t \in Int /\ r.end \in Nat
      /\ r.first \in Nat /\ r.window \in Nat /\ r.written \in Nat /\ r.epoch \in Nat
      /\ r.best \in Rec /\ r.prev \in Rec /\ r.low \in Rec
  BY DEF TypeOK, ReaderType, CallType
<1>2. Len(out) \in Nat
  BY DEF TypeOK, ReaderType
<1>. QED BY <1>1, <1>2, TypeFacts, Assumed DEF Assumptions

(* A record is known by its fields' types.                                 *)
LEMMA RecFacts ==
  ASSUME NEW rec \in Rec
  PROVE  rec.start \in Nat /\ rec.tEnd \in Int /\ rec.frames \in Nat /\ rec.epoch \in Nat
BY DEF Rec

LEMMA ReaderLoads ==
  ASSUME TypeOK, WriterInv, ReaderInv,
         ReaderCall \/ LoadEpoch \/ LoadRate \/ LoadWritten \/ Return
  PROVE  ReaderInv'
<1>1. CASE ReaderCall
  <2>1. r'.pc \in {"nodata", "retry", "loadEpoch"} /\ ~r'.copied /\ ~r'.hasPrev
    <3>1. PICK latest, t, window : LoadSeq(latest, t, window)
      BY <1>1 DEF ReaderCall
    <3>2. ~NewReader.copied /\ ~NewReader.hasPrev
      BY DEF NewReader
    <3>3. /\ r'.pc \in {"nodata", "retry", "loadEpoch"}
          /\ r'.copied = NewReader.copied /\ r'.hasPrev = NewReader.hasPrev
      BY <3>1, NewReaderType DEF LoadSeq
    <3>. QED BY <3>2, <3>3
  <2>. QED BY <2>1 DEF ReaderInv, WalkOK, CopyOK, OkIsExact
<1>2. CASE LoadEpoch
  <2>1. r'.pc = "loadRate" /\ ~r'.copied /\ ~r'.hasPrev
    BY <1>2 DEF LoadEpoch, ReaderInv, WalkOK, TypeOK, ReaderType, CallType
  <2>. QED BY <2>1 DEF ReaderInv, WalkOK, CopyOK, OkIsExact
<1>3. CASE LoadRate
  <2>1. r'.pc = "loadWritten" /\ ~r'.copied /\ ~r'.hasPrev
    BY <1>3 DEF LoadRate, ReaderInv, WalkOK, TypeOK, ReaderType, CallType
  <2>. QED BY <2>1 DEF ReaderInv, WalkOK, CopyOK, OkIsExact
<1>4. CASE LoadWritten
  <2>1. /\ r'.written = file.chunksWritten /\ r'.n = file.chunksWritten - 1
        /\ r'.oldest = file.chunksWritten - 1 /\ ~r'.copied /\ ~r'.hasPrev
        /\ r'.pc = IF r.rate = 0 \/ file.chunksWritten = 0 THEN "nodata" ELSE "newest"
    BY <1>4 DEF LoadWritten, ReaderInv, WalkOK, TypeOK, ReaderType, CallType
  <2>2. UNCHANGED <<file, chunks>>
    BY <1>4 DEF LoadWritten, writerUnchanged
  <2>3. CASE r'.pc = "nodata"
    BY <2>3 DEF ReaderInv, WalkOK, CopyOK, OkIsExact
  <2>4. CASE r'.pc = "newest"
    <3>1. r'.n >= 0 /\ Lo' <= r'.n
      BY <2>1, <2>4, CallFacts DEF Lo
    <3>2. ChunkAt(r.written - 1)'
      BY <2>1, <2>2, <2>4, CallFacts DEF ChunkAt, WriterInv, CountersOK
    <3>. QED BY <2>1, <2>4, <3>1, <3>2, CallFacts DEF ReaderInv, WalkOK, CopyOK, OkIsExact
  <2>. QED BY <2>1, <2>3, <2>4
<1>5. CASE Return
  BY <1>5 DEF Return, NewReader, ReaderInv, WalkOK, CopyOK, OkIsExact
<1>. QED BY <1>1, <1>2, <1>3, <1>4, <1>5

LEMMA SmallerFacts ==
  ASSUME NEW a \in Int, NEW b \in Int
  PROVE  Smaller(a, b) \in Int /\ Smaller(a, b) <= a /\ Smaller(a, b) <= b
BY DEF Smaller

LEMMA LoFacts == TypeOK => Lo \in Nat
BY CallFacts DEF Lo

(* A step down the walk: the record below is a chunk, if still covered.    *)
LEMMA StepDown ==
  ASSUME TypeOK, WriterInv, r.oldest <= r.n, r.n > Lo,
         NEW above, above.epoch = r.epoch, Live => Chunk(r.n, above),
         NEW prev \in Seen(r.n - 1), prev.epoch = r.epoch,
         file.chunksReserved <= Smaller(r.oldest, r.n - 1) + C
  PROVE  Chunk(r.n - 1, prev) /\ Chunk(r.n, above)
<1>. DEFINE m == Smaller(r.oldest, r.n - 1)
<1>1. r.n \in Nat /\ r.n > 0
  BY LoFacts, CallFacts, SMTT(30)
<1>t. r.oldest \in Int /\ r.n - 1 \in Int /\ C \in Int /\ file.chunksReserved \in Int
  BY CallFacts
<1>2. m \in Int /\ m <= r.oldest /\ m <= r.n - 1
  BY ONLY <1>t, SmallerFacts
<1>d. file.chunksReserved <= m + C
  OBVIOUS
<1>. HIDE DEF m
<1>3. file.chunksReserved <= r.oldest + C /\ file.chunksReserved <= (r.n - 1) + C
  BY ONLY <1>t, <1>2, <1>d
<1>4. Chunk(r.n, above)
  BY <1>3 DEF Live
<1>. QED BY <1>1, <1>3, <1>4, SeenBelow

LEMMA ReaderNewest ==
  ASSUME TypeOK, WriterInv, ReaderInv, ReadNewest
  PROVE  ReaderInv'
<1>1. PICK best \in Seen(r.n) :
        r' = [r EXCEPT !.best = best, !.t = IF r.latest THEN best.tEnd ELSE r.t,
               !.pc = IF best.epoch # r.epoch \/ (~r.latest /\ best.tEnd < r.t)
                      THEN "noDataSeq"
                      ELSE IF r.latest THEN "place" ELSE "target"]
  BY DEF ReadNewest
<1>2. best \in Rec
  BY SeenType, CallFacts
<1>3. /\ r'.best = best /\ r'.n = r.n /\ r'.oldest = r.oldest /\ r'.epoch = r.epoch
      /\ r'.written = r.written /\ r'.hasPrev = r.hasPrev /\ r'.copied = r.copied
      /\ r'.t = IF r.latest THEN best.tEnd ELSE r.t
      /\ r'.pc = IF best.epoch # r.epoch \/ (~r.latest /\ best.tEnd < r.t)
                 THEN "noDataSeq"
                 ELSE IF r.latest THEN "place" ELSE "target"
  BY <1>1 DEF TypeOK, ReaderType, CallType
<1>4. r.pc = "newest" /\ UNCHANGED <<file, chunks>> /\ ~r.hasPrev
  BY DEF ReadNewest, writerUnchanged, ReaderInv, WalkOK
<1>5. CASE r'.pc = "noDataSeq"
  BY <1>3, <1>4, <1>5 DEF ReaderInv, WalkOK, CopyOK, OkIsExact
<1>6. CASE r'.pc \in {"target", "place"}
  <2>1. best.epoch = r.epoch /\ best.tEnd >= r'.t
    BY <1>2, <1>3, <1>6, CallFacts, RecFacts, SMTT(30)
  <2>2. /\ ~r.copied /\ r.n >= 0 /\ r.oldest = r.n /\ ChunkAt(r.n) /\ r.n >= Lo
        /\ ChunkAt(r.written - 1)
    <3>1. /\ ~r.copied /\ r.n >= 0 /\ r.n = r.written - 1 /\ r.n >= Lo
          /\ ChunkAt(r.written - 1)
      BY <1>4 DEF ReaderInv, WalkOK
    <3>2. r.oldest = r.n
      BY <1>4 DEF ReaderInv, WalkOK
    <3>. QED BY <3>1, <3>2
  <2>3. Live => Chunk(r.n, best)
    BY <2>2, SeenIsChunk, CallFacts DEF Live
  <2>. QED BY <1>3, <1>4, <1>6, <2>1, <2>2, <2>3
           DEF ReaderInv, WalkOK, CopyOK, OkIsExact, Live, Chunk, ChunkAt, Lo
<1>. QED BY <1>3, <1>5, <1>6

LEMMA ReaderTarget ==
  ASSUME TypeOK, WriterInv, ReaderInv, SeekTarget
  PROVE  ReaderInv'
<1>1. /\ r.pc = "target" /\ UNCHANGED <<file, chunks>>
      /\ ~r.copied /\ r.n >= 0 /\ r.oldest <= r.n /\ r.n >= Lo /\ ChunkAt(r.written - 1)
      /\ r.best.tEnd >= r.t /\ r.best.epoch = r.epoch /\ (Live => Chunk(r.n, r.best))
  BY DEF SeekTarget, writerUnchanged, ReaderInv, WalkOK
<1>2. CASE r.n = Lo
  <2>1. r' = [r EXCEPT !.pc = "place", !.hasPrev = FALSE, !.bounded = (Lo = 0)]
    BY <1>2 DEF SeekTarget
  <2>2. /\ r'.pc = "place" /\ ~r'.hasPrev /\ r'.best = r.best /\ r'.n = r.n
        /\ r'.oldest = r.oldest /\ r'.epoch = r.epoch /\ r'.written = r.written
        /\ r'.copied = r.copied /\ r'.t = r.t
    BY <2>1 DEF TypeOK, ReaderType, CallType
  <2>. QED BY <1>1, <2>2 DEF ReaderInv, WalkOK, CopyOK, OkIsExact, Live, Chunk, ChunkAt, Lo
<1>3. CASE r.n # Lo
  <2>1. PICK prev \in Seen(r.n - 1) :
          r' = IF Older(prev).bounded \/ prev.tEnd < r.t
               THEN [Older(prev) EXCEPT !.pc = "place", !.hasPrev = ~Older(prev).bounded]
               ELSE [Older(prev) EXCEPT !.best = prev, !.n = r.n - 1, !.hasPrev = TRUE]
    BY <1>3 DEF SeekTarget
  <2>2. prev \in Rec /\ prev.tEnd \in Int
    BY SeenType, CallFacts, RecFacts
  <2>. DEFINE oldest == Smaller(r.oldest, r.n - 1)
  <2>3. /\ Older(prev).bounded = (prev.epoch # r.epoch) /\ Older(prev).oldest = oldest
        /\ Older(prev).prev = prev /\ Older(prev).pc = r.pc
        /\ Older(prev).best = r.best /\ Older(prev).n = r.n /\ Older(prev).t = r.t
        /\ Older(prev).epoch = r.epoch /\ Older(prev).written = r.written
        /\ Older(prev).copied = r.copied /\ Older(prev).end = r.end
    BY DEF Older, TypeOK, ReaderType, CallType
  <2>4. r.n > Lo /\ r.n > 0 /\ oldest <= r.n - 1 /\ oldest <= r.oldest /\ oldest \in Int
    <3>1. r.oldest \in Int /\ r.n - 1 \in Int /\ r.n \in Int /\ Lo \in Nat
      BY CallFacts, LoFacts
    <3>2. oldest <= r.n - 1 /\ oldest <= r.oldest /\ oldest \in Int
      BY ONLY <3>1, SmallerFacts
    <3>3. r.n > Lo /\ r.n > 0
      BY <1>1, <1>3, <3>1
    <3>. QED BY <3>2, <3>3
  <2>5. (file.chunksReserved <= oldest + C) => Live
    BY <2>4, CallFacts, SMTT(30) DEF Live
  <2>6. ASSUME prev.epoch = r.epoch, file.chunksReserved <= oldest + C
        PROVE  Chunk(r.n - 1, prev)
    BY <1>1, <2>4, <2>6, StepDown
  <2>. HIDE DEF oldest
  <2>7. Older(prev) \in
        [pc : ReaderPcs, latest : BOOLEAN, t : Int, window : Nat, s1 : Nat,
         epoch : Nat, rate : Stream0, written : Nat, oldest : Int, n : Int,
         best : Rec, prev : Rec, hasPrev : BOOLEAN, low : Rec,
         bounded : BOOLEAN, end : Nat, first : Nat, copied : BOOLEAN]
    BY OlderType
  <2>8. CASE Older(prev).bounded \/ prev.tEnd < r.t
    <3>1. /\ r'.pc = "place" /\ r'.hasPrev = (prev.epoch = r.epoch)
          /\ r'.best = r.best /\ r'.n = r.n /\ r'.prev = prev
          /\ r'.oldest = oldest /\ r'.epoch = r.epoch /\ r'.written = r.written
          /\ r'.copied = r.copied /\ r'.t = r.t
      BY <2>1, <2>3, <2>7, <2>8
    <3>2. WalkOK'
      <4>1. Live' = (file.chunksReserved <= oldest + C) /\ Lo' = Lo
        BY <1>1, <3>1 DEF Live, Lo
      <4>2. Live' => Chunk(r.n, r.best)'
        BY <1>1, <2>5, <3>1, <4>1 DEF Chunk
      <4>3. (r'.hasPrev /\ Live') => Chunk(r.n - 1, prev)
        BY <2>6, <3>1, <4>1
      <4>4. (r'.hasPrev /\ Live') => Chunk(r.n - 1, r.prev)'
        BY <1>1, <3>1, <4>3 DEF Chunk
      <4>5. r'.oldest <= r'.n /\ r'.n >= 0
        BY <2>4, <3>1, CallFacts, SMTT(30)
      <4>. QED BY <1>1, <2>4, <3>1, <4>1, <4>2, <4>4, <4>5 DEF WalkOK, ChunkAt
    <3>. QED BY <3>1, <3>2 DEF ReaderInv, CopyOK, OkIsExact
  <2>9. CASE ~(Older(prev).bounded \/ prev.tEnd < r.t)
    <3>1. /\ r'.pc = "target" /\ r'.hasPrev /\ prev.epoch = r.epoch /\ prev.tEnd >= r.t
          /\ r'.best = prev /\ r'.n = r.n - 1
          /\ r'.oldest = oldest /\ r'.epoch = r.epoch /\ r'.written = r.written
          /\ r'.copied = r.copied /\ r'.t = r.t
      <4>1. /\ prev.epoch = r.epoch /\ ~(prev.tEnd < r.t)
            /\ r' = [Older(prev) EXCEPT !.best = prev, !.n = r.n - 1, !.hasPrev = TRUE]
        BY <2>1, <2>3, <2>9
      <4>2. prev.tEnd >= r.t
        BY <2>2, <4>1, CallFacts, SMTT(30)
      <4>. QED BY <1>1, <2>3, <2>7, <4>1, <4>2
    <3>2. WalkOK'
      <4>1. Live' = (file.chunksReserved <= oldest + C) /\ Lo' = Lo
        BY <1>1, <3>1 DEF Live, Lo
      <4>2. Live' => Chunk(r.n - 1, prev)
        BY <2>6, <3>1, <4>1
      <4>3. Live' => Chunk(r.n, r.best)'
        BY <1>1, <3>1, <4>2 DEF Chunk
      <4>4. r'.n >= 0 /\ r'.n >= Lo
        BY <2>4, <3>1, CallFacts, SMTT(30) DEF Lo
      <4>. QED BY <1>1, <2>4, <3>1, <4>1, <4>3, <4>4 DEF WalkOK, ChunkAt
    <3>. QED BY <3>1, <3>2 DEF ReaderInv, CopyOK, OkIsExact
  <2>. QED BY <2>8, <2>9
<1>. QED BY <1>2, <1>3

LEMMA ReaderPlace ==
  ASSUME TypeOK, WriterInv, ReaderInv, PlaceEnd
  PROVE  ReaderInv'
<1>. DEFINE lag == r.best.tEnd - r.t
            inBest == lag < r.best.frames
            base == IF inBest THEN r.best ELSE r.prev
            n == IF inBest THEN r.n ELSE r.n - 1
            end == IF inBest THEN r.best.start + r.best.frames - lag ELSE r.best.start
<1>1. /\ r.pc = "place" /\ UNCHANGED <<file, chunks>>
      /\ ~r.copied /\ r.n >= 0 /\ r.oldest <= r.n /\ r.n >= Lo /\ ChunkAt(r.written - 1)
      /\ r.best.tEnd >= r.t /\ r.best.epoch = r.epoch /\ (Live => Chunk(r.n, r.best))
      /\ r.hasPrev => /\ r.n > Lo /\ r.prev.epoch = r.epoch /\ r.oldest <= r.n - 1
                      /\ Live => Chunk(r.n - 1, r.prev)
  BY DEF PlaceEnd, writerUnchanged, ReaderInv, WalkOK
<1>2. \/ r' = [r EXCEPT !.pc = "noDataSeq"]
      \/ /\ inBest \/ r.hasPrev
         /\ r' = [r EXCEPT !.pc = "walk", !.best = base, !.low = base, !.n = n,
                          !.end = end, !.bounded = FALSE]
  BY Zenon DEF PlaceEnd
<1>3. CASE r' = [r EXCEPT !.pc = "noDataSeq"]
  <2>1. r'.pc = "noDataSeq" /\ r'.copied = r.copied
    BY <1>3 DEF TypeOK, ReaderType, CallType
  <2>. QED BY <1>1, <2>1 DEF ReaderInv, WalkOK, CopyOK, OkIsExact
<1>4. ASSUME inBest \/ r.hasPrev,
             r' = [r EXCEPT !.pc = "walk", !.best = base, !.low = base, !.n = n,
                            !.end = end, !.bounded = FALSE]
      PROVE  ReaderInv'
  <2>1. /\ r'.pc = "walk" /\ r'.low = base /\ r'.n = n /\ r'.end = end
        /\ r'.oldest = r.oldest /\ r'.epoch = r.epoch /\ r'.written = r.written
        /\ r'.copied = r.copied
    BY <1>4, Zenon DEF TypeOK, ReaderType, CallType
  <2>2. /\ r.best.start \in Nat /\ r.best.frames \in Nat /\ r.best.tEnd \in Int
        /\ r.prev.start \in Nat /\ r.prev.frames \in Nat /\ r.prev.tEnd \in Int
        /\ r.t \in Int /\ r.n \in Int /\ r.oldest \in Int /\ Lo \in Nat
    BY CallFacts, RecFacts, LoFacts
  <2>3. /\ base.epoch = r.epoch /\ n >= 0 /\ r.oldest <= n /\ n >= Lo
        /\ Live => Chunk(n, base)
    <3>1. CASE inBest BY <1>1, <3>1
    <3>2. CASE ~inBest BY <1>1, <1>4, <2>2, <3>2
    <3>. QED BY <3>1, <3>2
  <2>4. ASSUME Live, NEW i \in base.start .. (end - 1) PROVE Committed(i, r.epoch)
    <3>1. CASE inBest
      <4>1. i \in r.best.start .. (r.best.start + r.best.frames - 1)
        BY <1>1, <2>2, <2>4, <3>1
      <4>. QED BY <1>1, <2>4, <4>1, ChunkCommitted
    <3>2. CASE ~inBest
      <4>1. r.hasPrev /\ Chunk(r.n, r.best) /\ Chunk(r.n - 1, r.prev)
            /\ r.prev.epoch = r.epoch
        BY <1>1, <1>4, <2>4, <3>2
      <4>2. r.n \in Nat
        BY <1>1, <2>2
      <4>3. r.prev.start + r.prev.frames = r.best.start
        BY <1>1, <4>1, <4>2, ChunksMeet
      <4>4. i \in r.prev.start .. (r.prev.start + r.prev.frames - 1)
        BY <2>2, <2>4, <3>2, <4>3
      <4>. QED BY <4>1, <4>4, ChunkCommitted
    <3>. QED BY <3>1, <3>2
  <2>. HIDE DEF base, n, end, inBest
  <2>5. Live' = Live /\ Lo' = Lo
    BY <1>1, <2>1 DEF Live, Lo
  <2>6. Live => /\ Chunk(r.n, r.low)'
                /\ \A i \in base.start .. (end - 1) : Committed(i, r.epoch)'
    BY <1>1, <2>1, <2>3, <2>4 DEF Chunk, Committed, FramesOf
  <2>7. WalkOK'
    BY <1>1, <2>1, <2>3, <2>5, <2>6 DEF WalkOK, ChunkAt
  <2>. QED BY <2>1, <2>7 DEF ReaderInv, CopyOK, OkIsExact
<1>. QED BY <1>2, <1>3, <1>4

LEMMA ReaderWalk ==
  ASSUME TypeOK, WriterInv, ReaderInv, WalkBack
  PROVE  ReaderInv'
<1>. DEFINE oldest == Smaller(r.oldest, r.n - 1)
<1>1. /\ r.pc = "walk" /\ UNCHANGED <<file, chunks>> /\ r.n # Lo
      /\ ~r.copied /\ r.n >= 0 /\ r.oldest <= r.n /\ r.n >= Lo /\ ChunkAt(r.written - 1)
      /\ r.low.epoch = r.epoch
      /\ Live => /\ Chunk(r.n, r.low)
                 /\ \A i \in r.low.start .. (r.end - 1) : Committed(i, r.epoch)
  BY DEF WalkBack, writerUnchanged, ReaderInv, WalkOK
<1>2. PICK prev \in Seen(r.n - 1) :
        \/ r' = [Older(prev) EXCEPT !.pc = "window"]
        \/ r' = [Older(prev) EXCEPT !.pc = "window", !.bounded = TRUE]
        \/ /\ ~Older(prev).bounded
           /\ r' = [Older(prev) EXCEPT !.low = prev, !.n = r.n - 1]
  BY DEF WalkBack
<1>3. prev \in Rec /\ Older(prev) \in
        [pc : ReaderPcs, latest : BOOLEAN, t : Int, window : Nat, s1 : Nat,
         epoch : Nat, rate : Stream0, written : Nat, oldest : Int, n : Int,
         best : Rec, prev : Rec, hasPrev : BOOLEAN, low : Rec,
         bounded : BOOLEAN, end : Nat, first : Nat, copied : BOOLEAN]
  <2>1. r.n - 1 \in Int
    BY CallFacts
  <2>. QED BY <2>1, OlderType, SeenType
<1>4. /\ Older(prev).bounded = (prev.epoch # r.epoch) /\ Older(prev).oldest = oldest
      /\ Older(prev).pc = r.pc /\ Older(prev).low = r.low /\ Older(prev).n = r.n
      /\ Older(prev).epoch = r.epoch /\ Older(prev).written = r.written
      /\ Older(prev).copied = r.copied /\ Older(prev).end = r.end
  BY DEF Older, TypeOK, ReaderType, CallType
<1>5. /\ r.n > Lo /\ r.n > 0 /\ r.n \in Nat /\ r.n - 1 >= Lo /\ r.n - 1 >= 0
      /\ oldest <= r.n - 1 /\ oldest <= r.oldest /\ oldest <= r.n /\ oldest \in Int
  <2>1. r.oldest \in Int /\ r.n - 1 \in Int /\ r.n \in Int /\ Lo \in Nat
    BY CallFacts, LoFacts
  <2>2. oldest <= r.n - 1 /\ oldest <= r.oldest /\ oldest \in Int
    BY ONLY <2>1, SmallerFacts
  <2>3. r.n > Lo /\ r.n > 0 /\ r.n \in Nat /\ r.n - 1 >= Lo /\ r.n - 1 >= 0
    BY <1>1, <2>1
  <2>. QED BY ONLY <2>1, <2>2, <2>3
<1>6. ASSUME prev.epoch = r.epoch, file.chunksReserved <= oldest + C
      PROVE  Chunk(r.n - 1, prev)
  BY <1>1, <1>5, <1>6, StepDown
<1>7. (file.chunksReserved <= oldest + C) => Live
  <2>1. file.chunksReserved \in Int /\ C \in Int /\ r.oldest \in Int /\ oldest \in Int
    BY <1>5, CallFacts
  <2>. HIDE DEF oldest
  <2>. QED BY <1>5, <2>1 DEF Live
<1>. HIDE DEF oldest
<1>8. ASSUME \/ r' = [Older(prev) EXCEPT !.pc = "window"]
             \/ r' = [Older(prev) EXCEPT !.pc = "window", !.bounded = TRUE]
      PROVE  ReaderInv'
  <2>1. /\ r'.pc = "window" /\ r'.low = r.low /\ r'.n = r.n /\ r'.end = r.end
        /\ r'.oldest = oldest /\ r'.epoch = r.epoch /\ r'.written = r.written
        /\ r'.copied = r.copied
    BY <1>3, <1>4, <1>8
  <2>2. Live' => Live
    BY <1>1, <1>7, <2>1 DEF Live
  <2>3. Live' => /\ Chunk(r.n, r.low)'
                 /\ (\A i \in r.low.start .. (r.end - 1) : Committed(i, r.epoch))'
    BY <1>1, <2>1, <2>2 DEF Chunk, Committed, FramesOf
  <2>4. WalkOK'
    BY <1>1, <1>5, <2>1, <2>3 DEF WalkOK, ChunkAt
  <2>. QED BY <2>1, <2>4 DEF ReaderInv, CopyOK, OkIsExact
<1>9. ASSUME ~Older(prev).bounded, r' = [Older(prev) EXCEPT !.low = prev, !.n = r.n - 1]
      PROVE  ReaderInv'
  <2>1. /\ r'.pc = "walk" /\ r'.low = prev /\ r'.n = r.n - 1 /\ r'.end = r.end
        /\ r'.oldest = oldest /\ r'.epoch = r.epoch /\ r'.written = r.written
        /\ r'.copied = r.copied /\ prev.epoch = r.epoch
    BY <1>1, <1>3, <1>4, <1>9
  <2>2. Live' = (file.chunksReserved <= oldest + C) /\ Lo' = Lo
    BY <1>1, <2>1 DEF Live, Lo
  <2>3. ASSUME Live'
        PROVE  /\ Chunk(r.n - 1, prev)
               /\ \A i \in prev.start .. (r.end - 1) : Committed(i, r.epoch)
    <3>1. Chunk(r.n - 1, prev) /\ Chunk(r.n, r.low) /\ prev.epoch = r.low.epoch
      BY <1>1, <1>6, <1>7, <2>1, <2>2, <2>3
    <3>2. prev.start + prev.frames = r.low.start
      BY <1>5, <3>1, ChunksMeet
    <3>3. /\ prev.start \in Nat /\ prev.frames \in Nat /\ r.low.start \in Nat
          /\ r.end \in Nat
      BY <1>3, CallFacts, RecFacts
    <3>4. ASSUME NEW i \in prev.start .. (r.end - 1) PROVE Committed(i, r.epoch)
      <4>1. CASE i < r.low.start
        <5>1. i \in prev.start .. (prev.start + prev.frames - 1)
          BY <3>2, <3>3, <3>4, <4>1
        <5>. QED BY <2>1, <3>1, <5>1, ChunkCommitted
      <4>2. CASE i >= r.low.start
        <5>1. i \in r.low.start .. (r.end - 1)
          BY <3>3, <3>4, <4>2
        <5>2. Live
          BY <1>7, <2>2, <2>3
        <5>. QED BY <1>1, <5>1, <5>2
      <4>. QED BY <3>3, <4>1, <4>2
    <3>. QED BY <3>1, <3>4
  <2>4. Live' => /\ Chunk(r.n, r.low)'
                 /\ (\A i \in r.low.start .. (r.end - 1) : Committed(i, r.epoch))'
    BY <1>1, <2>1, <2>3 DEF Chunk, Committed, FramesOf
  <2>5. WalkOK'
    BY <1>1, <1>5, <2>1, <2>2, <2>4 DEF WalkOK, ChunkAt
  <2>. QED BY <2>1, <2>5 DEF ReaderInv, CopyOK, OkIsExact
<1>. QED BY <1>2, <1>8, <1>9

LEMMA ReaderWalkDone ==
  ASSUME TypeOK, WriterInv, ReaderInv, WalkDone
  PROVE  ReaderInv'
<1>1. /\ r.pc = "walk" /\ UNCHANGED <<file, chunks>>
      /\ r'.pc = "window" /\ r'.low = r.low /\ r'.n = r.n /\ r'.end = r.end
      /\ r'.oldest = r.oldest /\ r'.epoch = r.epoch /\ r'.written = r.written
      /\ r'.copied = r.copied
  BY DEF WalkDone, writerUnchanged, TypeOK, ReaderType, CallType
<1>2. WalkOK'
  BY <1>1 DEF ReaderInv, WalkOK, Live, Chunk, ChunkAt, Committed, FramesOf, Lo
<1>. QED BY <1>1, <1>2 DEF ReaderInv, CopyOK, OkIsExact

LEMMA ReaderFill ==
  ASSUME TypeOK, WriterInv, ReaderInv, FillZeros
  PROVE  ReaderInv'
<1>. DEFINE first == Smaller(Larger(r.low.start, Start), r.end)
            zeros == r.window - (r.end - first)
<1>1. /\ r.pc = "window" /\ UNCHANGED <<file, chunks>>
      /\ ~r.copied /\ r.low.epoch = r.epoch
      /\ Live => \A i \in r.low.start .. (r.end - 1) : Committed(i, r.epoch)
  BY DEF FillZeros, writerUnchanged, ReaderInv, WalkOK
<1>2. \/ r' = [r EXCEPT !.pc = "noDataSeq"]
      \/ /\ r' = [r EXCEPT !.pc = "copy", !.first = first, !.copied = TRUE]
         /\ out' = [i \in 1 .. zeros |-> Blank]
  BY DEF FillZeros
<1>3. CASE r' = [r EXCEPT !.pc = "noDataSeq"]
  <2>1. r'.pc = "noDataSeq" /\ r'.copied = r.copied
    BY <1>3 DEF TypeOK, ReaderType, CallType
  <2>. QED BY <1>1, <2>1 DEF ReaderInv, WalkOK, CopyOK, OkIsExact
<1>4. ASSUME r' = [r EXCEPT !.pc = "copy", !.first = first, !.copied = TRUE],
             out' = [i \in 1 .. zeros |-> Blank]
      PROVE  ReaderInv'
  <2>1. r.low.start \in Nat /\ r.end \in Nat /\ r.window \in Nat
    BY CallFacts, RecFacts
  <2>2. /\ first \in Nat /\ zeros \in Nat /\ zeros <= r.window /\ first <= r.end
        /\ \A i \in first .. (r.end - 1) : i \in r.low.start .. (r.end - 1)
    BY <2>1 DEF Smaller, Larger, Start
  <2>. HIDE DEF first
  <2>3. /\ r'.pc = "copy" /\ r'.first = first /\ r'.copied /\ r'.end = r.end
        /\ r'.window = r.window /\ r'.oldest = r.oldest /\ r'.epoch = r.epoch
    BY <1>4 DEF TypeOK, ReaderType, CallType
  <2>4. Zeros' = zeros
    BY <2>3 DEF Zeros
  <2>. HIDE DEF zeros
  <2>5. Len(out') = zeros /\ \A k \in 1 .. zeros : out'[k] = Blank
    BY <1>4, <2>2
  <2>6. WindowExact'
    BY <2>4, <2>5 DEF WindowExact
  <2>7. Live' => WindowCommitted'
    BY <1>1, <2>2, <2>3 DEF WindowCommitted, Live, Committed, FramesOf
  <2>8. CopyOK'
    BY <2>2, <2>3, <2>4, <2>5, <2>6, <2>7 DEF CopyOK
  <2>. QED BY <2>3, <2>8 DEF ReaderInv, WalkOK, OkIsExact
<1>. QED BY <1>2, <1>3, <1>4

(* The frame copied is the one wanted, if the frames from `first` on are   *)
(* still covered.                                                          *)
LEMMA ReaderCopy ==
  ASSUME TypeOK, WriterInv, ReaderInv, CopyFrame
  PROVE  ReaderInv'
<1>. DEFINE i == r.end - r.window + Len(out)
            k == Len(out) + 1
<1>1. /\ r.pc = "copy" /\ Len(out) < r.window /\ r' = r
      /\ UNCHANGED <<file, chunks, samples>> /\ out' = Append(out, samples[Slot(i)])
  BY DEF CopyFrame, writerUnchanged
<1>2. /\ r.copied /\ r.first <= r.end /\ Zeros \in Nat /\ Zeros <= Len(out)
      /\ Live => WindowExact /\ WindowCommitted
  BY <1>1 DEF ReaderInv, CopyOK
<1>3. out \in Seq(Frame)
  BY DEF TypeOK, ReaderType
<1>4. /\ Len(out') = k /\ out'[k] = samples[Slot(i)]
      /\ \A j \in 1 .. Len(out) : out'[j] = out[j]
  BY <1>1, <1>3
<1>5. /\ Len(out) \in Nat /\ r.end \in Nat /\ r.window \in Nat /\ r.first \in Nat
      /\ F \in Nat /\ file.framesReserved \in Nat
  BY CallFacts
<1>6. i \in r.first .. (r.end - 1) /\ i = Wanted(k) /\ k > Zeros /\ k <= r.window
  BY <1>1, <1>2, <1>5, SMTT(30) DEF Zeros, Wanted
<1>7. ASSUME Live, Fresh PROVE samples[Slot(i)] = [frame |-> i, epoch |-> r.epoch]
  <2>1. Committed(i, r.epoch)
    BY <1>2, <1>6, <1>7 DEF WindowCommitted
  <2>2. PICK c \in chunks : c.rec.epoch = r.epoch /\ i \in FramesOf(c)
    BY <2>1 DEF Committed
  <2>3. file.framesReserved <= i + F
    BY <1>5, <1>6, <1>7 DEF Fresh
  <2>. QED BY <2>2, <2>3 DEF WriterInv, SamplesOK
<1>. HIDE DEF i, k
<1>8. (Live' = Live) /\ (Fresh' = Fresh) /\ Zeros' = Zeros /\ (WindowCommitted' = WindowCommitted)
  BY <1>1 DEF Live, Fresh, Zeros, WindowCommitted, Committed, FramesOf
<1>9. Live => WindowExact'
  <2>. SUFFICES ASSUME Live, NEW j \in 1 .. k
                PROVE  IF j <= Zeros THEN out'[j] = Blank
                       ELSE Fresh => out'[j] = [frame |-> Wanted(j), epoch |-> r.epoch]
    BY <1>1, <1>4, <1>8 DEF WindowExact, Wanted
  <2>1. CASE j = k
    BY <1>2, <1>4, <1>5, <1>6, <1>7, <2>1
  <2>2. CASE j # k
    <3>1. j \in 1 .. Len(out)
      BY <1>5, <2>2 DEF k
    <3>. QED BY <1>2, <1>4, <3>1 DEF WindowExact
  <2>. QED BY <2>1, <2>2
<1>10. Zeros' \in Nat /\ Zeros' <= Len(out') /\ Len(out') <= r'.window
  BY <1>1, <1>2, <1>4, <1>5, <1>6, <1>8
<1>11. CopyOK'
  BY <1>1, <1>2, <1>8, <1>9, <1>10 DEF CopyOK
<1>. QED BY <1>1, <1>11 DEF ReaderInv, WalkOK, OkIsExact

LEMMA ReaderSettles ==
  ASSUME TypeOK, WriterInv, ReaderInv,
         CopyDone \/ SettleSeq \/ SettleChunks \/ SettleFrames
  PROVE  ReaderInv'
<1>1. /\ UNCHANGED <<file, chunks, out>>
      /\ r'.first = r.first /\ r'.end = r.end /\ r'.window = r.window
      /\ r'.oldest = r.oldest /\ r'.epoch = r.epoch /\ r'.copied = r.copied
  BY DEF CopyDone, SettleSeq, SettleChunks, SettleFrames, writerUnchanged,
     TypeOK, ReaderType, CallType
<1>2. /\ (Live' = Live) /\ (Fresh' = Fresh) /\ Zeros' = Zeros
      /\ (WindowCommitted' = WindowCommitted) /\ (WindowExact' = WindowExact)
  BY <1>1 DEF Live, Fresh, Zeros, WindowCommitted, WindowExact, Wanted, Committed, FramesOf
<1>3. CASE CopyDone
  <2>1. r.pc = "copy" /\ Len(out) = r.window /\ r'.pc = "okSeq"
    BY <1>3 DEF CopyDone, TypeOK, ReaderType, CallType
  <2>2. CopyOK' BY <1>1, <1>2, <2>1 DEF ReaderInv, CopyOK
  <2>. QED BY <2>1, <2>2 DEF ReaderInv, WalkOK, OkIsExact
<1>4. CASE SettleSeq
  <2>1. r.pc \in {"okSeq", "noDataSeq"} /\ r'.pc \in {"settleChunks", "retry"}
    BY <1>4 DEF SettleSeq, TypeOK, ReaderType, CallType
  <2>2. CopyOK' BY <1>1, <1>2, <2>1 DEF ReaderInv, CopyOK
  <2>. QED BY <2>1, <2>2 DEF ReaderInv, WalkOK, OkIsExact
<1>5. CASE SettleChunks
  <2>1. /\ r.pc = "settleChunks" /\ r'.pc \in {"settleFrames", "nodata", "retry"}
        /\ r'.pc = "settleFrames" => r.copied /\ ~(file.chunksReserved > r.oldest + C)
    BY <1>5 DEF SettleChunks, TypeOK, ReaderType, CallType
  <2>2. r'.pc = "settleFrames" => Live
    BY <2>1, CallFacts DEF Live
  <2>3. CopyOK' BY <1>1, <1>2, <2>1, <2>2 DEF ReaderInv, CopyOK
  <2>. QED BY <2>1, <2>3 DEF ReaderInv, WalkOK, OkIsExact
<1>6. CASE SettleFrames
  <2>1. /\ r.pc = "settleFrames" /\ r'.pc \in {"ok", "retry"}
        /\ r'.pc = "ok" => Fresh
    BY <1>6 DEF SettleFrames, Fresh, TypeOK, ReaderType, CallType
  <2>2. /\ Len(out) = r.window /\ WindowExact /\ WindowCommitted
        /\ r.first <= r.end /\ Zeros \in Nat
    BY <2>1 DEF ReaderInv, CopyOK
  <2>3. /\ r.first \in Nat /\ r.end \in Nat /\ r.window \in Nat
    BY CallFacts
  <2>4. ASSUME r'.pc = "ok", NEW j \in 1 .. r.window
        PROVE  \/ out[j] = Blank
               \/ /\ out[j] = [frame |-> Wanted(j), epoch |-> r.epoch]
                  /\ Committed(Wanted(j), r.epoch)
    <3>1. CASE j <= Zeros
      BY <2>2, <2>4, <3>1 DEF WindowExact
    <3>2. CASE ~(j <= Zeros)
      <4>1. Wanted(j) \in r.first .. (r.end - 1)
        BY <2>2, <2>3, <2>4, <3>2 DEF Wanted, Zeros
      <4>. QED BY <2>1, <2>2, <2>4, <3>2, <4>1 DEF WindowExact, WindowCommitted
    <3>. QED BY <3>1, <3>2
  <2>5. OkIsExact'
    BY <1>1, <2>2, <2>4 DEF OkIsExact, Wanted, Committed, FramesOf
  <2>. QED BY <2>1, <2>5 DEF ReaderInv, WalkOK, CopyOK
<1>. QED BY <1>3, <1>4, <1>5, <1>6

LEMMA ReaderKeepsReader ==
  ASSUME TypeOK, WriterInv, ReaderInv, ReaderStep \/ ReaderCall \/ Return
  PROVE  ReaderInv'
BY ReaderLoads, ReaderNewest, ReaderTarget, ReaderPlace, ReaderWalk, ReaderWalkDone,
   ReaderFill, ReaderCopy, ReaderSettles DEF ReaderStep

LEMMA ReaderKeepsWriter ==
  ASSUME TypeOK, WriterInv, ReaderStep \/ ReaderCall \/ Return
  PROVE  WriterInv'
<1>0. UNCHANGED <<file, records, samples, w, chunks>>
  <2>1. CASE ReaderStep
    <3>1. CASE LoadEpoch BY <3>1 DEF LoadEpoch, writerUnchanged
    <3>2. CASE LoadRate BY <3>2 DEF LoadRate, writerUnchanged
    <3>3. CASE LoadWritten BY <3>3 DEF LoadWritten, writerUnchanged
    <3>4. CASE ReadNewest BY <3>4 DEF ReadNewest, writerUnchanged
    <3>5. CASE SeekTarget BY <3>5 DEF SeekTarget, writerUnchanged
    <3>6. CASE PlaceEnd BY <3>6 DEF PlaceEnd, writerUnchanged
    <3>7. CASE WalkBack BY <3>7 DEF WalkBack, writerUnchanged
    <3>8. CASE WalkDone BY <3>8 DEF WalkDone, writerUnchanged
    <3>9. CASE FillZeros BY <3>9 DEF FillZeros, writerUnchanged
    <3>10. CASE CopyFrame BY <3>10 DEF CopyFrame, writerUnchanged
    <3>11. CASE CopyDone BY <3>11 DEF CopyDone, writerUnchanged
    <3>12. CASE SettleSeq BY <3>12 DEF SettleSeq, writerUnchanged
    <3>13. CASE SettleChunks BY <3>13 DEF SettleChunks, writerUnchanged
    <3>14. CASE SettleFrames BY <3>14 DEF SettleFrames, writerUnchanged
    <3>. QED BY <2>1, <3>1, <3>2, <3>3, <3>4, <3>5, <3>6, <3>7, <3>8, <3>9, <3>10,
                <3>11, <3>12, <3>13, <3>14 DEF ReaderStep
  <2>2. CASE ReaderCall BY <2>2 DEF ReaderCall, LoadSeq, writerUnchanged
  <2>3. CASE Return BY <2>3 DEF Return, writerUnchanged
  <2>. QED BY <2>1, <2>2, <2>3
<1>1. UNCHANGED <<file, records, samples, w, chunks>> /\ (r'.pc = "idle" \/ r.pc # "idle" \/ file.magic)
  <2>1. CASE ReaderStep
    <3>1. r.pc # "idle"
      BY <2>1 DEF ReaderStep, LoadEpoch, LoadRate, LoadWritten, ReadNewest, SeekTarget,
         PlaceEnd, WalkBack, WalkDone, FillZeros, CopyFrame, CopyDone, SettleSeq,
         SettleChunks, SettleFrames
    <3>. QED BY <1>0, <3>1
  <2>2. CASE ReaderCall BY <1>0, <2>2 DEF ReaderCall, LoadSeq
  <2>3. CASE Return
    <3>1. r.pc # "idle" BY <2>3 DEF Return, Verdicts
    <3>. QED BY <1>0, <3>1
  <2>. QED BY <2>1, <2>2, <2>3
<1>2. FreshOK' BY <1>1 DEF WriterInv, FreshOK, Active
<1>3. CountersOK' BY <1>1 DEF WriterInv, CountersOK, Active, ChunkAt
<1>4. HistoryOK' BY <1>1 DEF WriterInv, HistoryOK, Active
<1>5. EpochOK' BY <1>1 DEF WriterInv, EpochOK, EpochIsOneRun, Active, NewEpochDue
<1>6. RecordsOK' BY <1>1 DEF WriterInv, RecordsOK
<1>7. SamplesOK' BY <1>1 DEF WriterInv, SamplesOK, FramesOf
<1>8. HolesOK' BY <1>1 DEF WriterInv, HolesOK, ChunkAt, Active, NewEpochDue
<1>. QED BY <1>2, <1>3, <1>4, <1>5, <1>6, <1>7, <1>8 DEF WriterInv

-----------------------------------------------------------------------------
(* The invariant, and what follows from it.                                *)

LEMMA InitInv == Init => IInv
<1>. SUFFICES ASSUME Init PROVE IInv
  OBVIOUS
<1>1. TypeOK
  BY TypeInit
<1>2. /\ w.pc = "dead" /\ w.frames = 0 /\ w.chunks = 0 /\ w.epoch = 0 /\ w.len = 0
      /\ ~file.magic /\ file.epoch = 0 /\ file.framesReserved = 0 /\ file.framesWritten = 0
      /\ file.chunksReserved = 0 /\ file.chunksWritten = 0
      /\ r.pc = "idle" /\ chunks = {} /\ \A k \in 0 .. C - 1 : records[k].epoch = 0
  BY DEF Init, ZeroHeader, NewWriter, NewReader, NoRec
<1>3. FreshOK /\ HistoryOK /\ EpochOK /\ RecordsOK /\ SamplesOK
  BY <1>2 DEF FreshOK, HistoryOK, EpochOK, EpochIsOneRun, RecordsOK, SamplesOK, Active
<1>4. CountersOK BY <1>2 DEF CountersOK, Active
<1>5. HolesOK BY <1>2 DEF HolesOK, Active
<1>6. ReaderInv BY <1>2 DEF ReaderInv, WalkOK, CopyOK, OkIsExact
<1>. QED BY <1>1, <1>3, <1>4, <1>5, <1>6 DEF IInv, WriterInv

LEMMA StepInv == IInv /\ [Next]_vars => IInv'
<1>. SUFFICES ASSUME IInv, [Next]_vars PROVE IInv'
  OBVIOUS
<1>1. TypeOK /\ WriterInv /\ ReaderInv /\ CountersOK
  BY DEF IInv, WriterInv
<1>2. CASE WriterNext
  BY <1>1, <1>2, TypeWriter, WriterKeepsInv, WriterKeepsReader DEF IInv
<1>3. CASE ReaderStep \/ ReaderCall \/ Return
  BY <1>1, <1>3, TypeReader, ReaderKeepsWriter, ReaderKeepsReader DEF IInv
<1>4. CASE UNCHANGED vars
  <2>1. TypeOK'
    BY <1>1, <1>4 DEF vars, TypeOK, FileType, RingType, WriterType, ReaderType,
       CallType, HistoryType
  <2>2. WriterInv'
    BY <1>1, <1>4 DEF vars, WriterInv, FreshOK, CountersOK, HistoryOK, EpochOK,
       EpochIsOneRun, RecordsOK, SamplesOK, HolesOK, Active, NewEpochDue, ChunkAt, FramesOf
  <2>3. ReaderInv'
    BY <1>1, <1>4 DEF vars, ReaderInv, WalkOK, CopyOK, OkIsExact, Live, Fresh, Chunk,
       ChunkAt, Committed, FramesOf, WindowExact, WindowCommitted, Zeros, Wanted, Lo
  <2>. QED BY <2>1, <2>2, <2>3 DEF IInv
<1>. QED BY <1>2, <1>3, <1>4 DEF Next

(* Every reachable state satisfies the inductive invariant.                *)
THEOREM Invariance == Spec => []IInv
BY InitInv, StepInv, PTL DEF Spec

(* Type correctness.                                                       *)
THEOREM TypeCorrect == Spec => []TypeOK
<1>1. IInv => TypeOK
  BY DEF IInv
<1>. QED BY <1>1, Invariance, PTL

(* What a reader is given with Ok is what the writer committed: whole      *)
(* frames of one epoch, each the one asked for, or zeros - for any ring    *)
(* size, any chunking and any number of kills of the writer.               *)
THEOREM ReadsAreExact == Spec => []OkIsExact
<1>1. IInv => OkIsExact
  BY DEF IInv, ReaderInv
<1>. QED BY <1>1, Invariance, PTL

(* An epoch is one stream's unbroken run of frames, across restarts.       *)
THEOREM EpochsAreRuns == Spec => []EpochIsOneRun
<1>1. IInv => EpochIsOneRun
  BY DEF IInv, WriterInv, EpochOK
<1>. QED BY <1>1, Invariance, PTL

(* The reserved counters and the epoch never fall, across restarts.        *)
THEOREM ReservedRises == Spec => ReservedNeverFalls
<1>1. IInv /\ [Next]_vars => [/\ file'.framesReserved >= file.framesReserved
                              /\ file'.chunksReserved >= file.chunksReserved
                              /\ file'.epoch >= file.epoch]_vars
  <2>. SUFFICES ASSUME IInv, Next
                PROVE  /\ file'.framesReserved >= file.framesReserved
                       /\ file'.chunksReserved >= file.chunksReserved
                       /\ file'.epoch >= file.epoch
    OBVIOUS
  <2>0. TypeOK /\ WriterInv /\ CountersOK
    BY DEF IInv, WriterInv
  <2>1. CASE WriterNext
    <3>1. /\ file.framesReserved \in Nat /\ file'.framesReserved \in Nat
          /\ file.chunksReserved \in Nat /\ file'.chunksReserved \in Nat
          /\ file.epoch \in Nat /\ file'.epoch \in Nat
      BY <2>0, <2>1, TypeWriter DEF TypeOK, FileType
    <3>. QED BY <2>0, <2>1, <3>1, WriterGrows
  <2>2. CASE ReaderStep \/ ReaderCall \/ Return
    <3>1. file' = file
      BY <2>2 DEF ReaderStep, ReaderCall, LoadSeq, LoadEpoch, LoadRate, LoadWritten,
         ReadNewest, SeekTarget, PlaceEnd, WalkBack, WalkDone, FillZeros, CopyFrame,
         CopyDone, SettleSeq, SettleChunks, SettleFrames, Return, writerUnchanged
    <3>. QED BY <2>0, <3>1, TypeFacts
  <2>. QED BY <2>1, <2>2 DEF Next
<1>. QED BY <1>1, Invariance, PTL DEF Spec, ReservedNeverFalls

-----------------------------------------------------------------------------
(* The seqlock over the format.  Epoch and rate are stored while seq is    *)
(* odd, also by a writer that takes over from one that was killed between  *)
(* the stores; seq never falls.  So a reader that finds seq even and, in   *)
(* the end, unchanged has loaded the two values of one format.             *)

Steady == {"idle", "reserveFrames", "reserveChunks", "copy", "copying", "publishFrames", "publishChunks"}

SeqOK ==
  /\ ~file.magic => file.seq = 0 /\ file.rate = 0
  /\ w.pc \in {"zeroing", "magic"} => w.seq = 0 /\ w.stream = 0
  /\ w.pc = "formatOdd" => w.seq % 2 = 0 /\ (file.seq = w.seq \/ file.seq = w.seq + 1)
  /\ w.pc \in {"formatEpoch", "formatRate", "formatEven"} => w.seq % 2 = 1 /\ file.seq = w.seq
  /\ w.pc \in Steady => w.seq % 2 = 0 /\ file.seq = w.seq

FormatOK ==
  /\ w.pc \in {"formatRate", "formatEven"} => \A c \in chunks : c.rec.epoch # file.epoch
  /\ w.pc \in Steady \union {"formatEven"} => w.stream = file.rate
  /\ file.seq % 2 = 0 => \A c \in chunks : c.rec.epoch = file.epoch => c.stream = file.rate

\* The chunks of epoch e, and those yet to come, are of this rate.
Formatted(e, rate) ==
  /\ e <= file.epoch
  /\ \A c \in chunks : c.rec.epoch = e => c.stream = rate
  /\ e = file.epoch => rate = file.rate /\ w.pc \notin {"formatRate", "formatEven"}

Unsettled == {"loadWritten", "newest", "target", "place", "walk", "window", "copy", "okSeq", "noDataSeq"}

LoadedOK ==
  /\ r.pc \in Unsettled \union {"loadEpoch", "loadRate"} => r.s1 <= file.seq /\ r.s1 % 2 = 0
  /\ r.pc \in Unsettled \union {"loadRate"} /\ r.s1 = file.seq => r.epoch = file.epoch
  /\ r.pc \in Unsettled /\ r.s1 = file.seq => r.rate = file.rate
  /\ r.pc \in {"settleChunks", "settleFrames", "ok"} => Formatted(r.epoch, r.rate)

LEMMA Parity ==
  ASSUME NEW n \in Nat
  PROVE  /\ n % 2 \in {0, 1} /\ (n % 2 = 0 => (n + 1) % 2 = 1) /\ (n % 2 = 1 => (n + 1) % 2 = 0)
         /\ n - (n % 2) \in Nat /\ (n - (n % 2)) % 2 = 0
         /\ (n = n - (n % 2) \/ n = (n - (n % 2)) + 1)
OBVIOUS

\* What a step of the writer leaves to those who have read the format.
FormatStep ==
  /\ file.seq <= file'.seq
  /\ file'.seq = file.seq /\ file.seq % 2 = 0 => file'.epoch = file.epoch /\ file'.rate = file.rate
  /\ \A e \in Nat, rate \in Nat : Formatted(e, rate) => Formatted(e, rate)'

LEMMA FormatTypes ==
  ASSUME TypeOK
  PROVE  /\ file.seq \in Nat /\ file.epoch \in Nat /\ file.rate \in Nat
         /\ w.seq \in Nat /\ w.epoch \in Nat /\ w.stream \in Nat
         /\ r.s1 \in Nat /\ r.epoch \in Nat /\ r.rate \in Nat
<1>1. Stream0 \subseteq Nat
  BY Assumed DEF Assumptions, Stream0
<1>. QED BY <1>1 DEF TypeOK, FileType, WriterType, ReaderType, CallType

LEMMA FormatWriter ==
  ASSUME TypeOK, WriterInv, SeqOK, FormatOK, WriterNext
  PROVE  SeqOK' /\ FormatOK' /\ FormatStep
<1>0. /\ file.seq \in Nat /\ file.epoch \in Nat /\ file.rate \in Nat
      /\ w.seq \in Nat /\ w.epoch \in Nat /\ w.stream \in Nat
  BY FormatTypes
<1>. USE DEF Steady
<1>1. CASE OpenFresh \/ ZeroFile \/ StoreMagic
  <2>1. /\ file.seq = 0 /\ file.rate = 0 /\ file.epoch = 0 /\ chunks = {} /\ chunks' = chunks
    BY <1>1 DEF OpenFresh, ZeroFile, StoreMagic, SeqOK, WriterInv, FreshOK, historyUnchanged
  <2>2. file'.seq = 0 /\ file'.rate = 0 /\ file'.epoch = 0
    BY <1>1, <2>1 DEF OpenFresh, ZeroFile, StoreMagic, ZeroHeader, ring, TypeOK, FileType
  <2>3. w'.seq = 0 /\ w'.stream = 0
    BY <1>1 DEF OpenFresh, ZeroFile, StoreMagic, Goto, NewWriter, SeqOK, TypeOK, WriterType
  <2>4. w'.pc \in {"zeroing", "magic", "idle"}
    BY <1>1 DEF OpenFresh, ZeroFile, StoreMagic, Goto, NewWriter, TypeOK, WriterType
  <2>5. SeqOK'
    BY <2>2, <2>3, <2>4 DEF SeqOK
  <2>6. FormatOK'
    BY <2>1, <2>2, <2>3, <2>4 DEF FormatOK
  <2>7. FormatStep
    BY <2>1, <2>2, <2>4 DEF FormatStep, Formatted
  <2>. QED BY <2>5, <2>6, <2>7
<1>2. CASE OpenReuse
  <2>1. /\ file' = file /\ chunks' = chunks /\ w'.pc = "formatOdd" /\ w'.seq = file.seq - (file.seq % 2)
        /\ file.magic
    BY <1>2 DEF OpenReuse, NewWriter, ring, historyUnchanged
  <2>2. SeqOK'
    BY <1>0, <2>1, Parity DEF SeqOK
  <2>3. FormatOK' /\ FormatStep
    BY <1>0, <2>1 DEF FormatOK, FormatStep, Formatted
  <2>. QED BY <2>2, <2>3
<1>3. CASE FormatOdd
  <2>1. /\ chunks' = chunks /\ w.pc = "formatOdd" /\ w'.pc = "formatEpoch" /\ w'.seq = w.seq + 1
        /\ file'.seq = w.seq + 1 /\ file'.epoch = file.epoch /\ file'.rate = file.rate
        /\ file'.magic = file.magic /\ file.magic
    BY <1>3 DEF FormatOdd, historyUnchanged, TypeOK, WriterType, FileType, WriterInv, FreshOK, Active
  <2>2. w.seq % 2 = 0 /\ (file.seq = w.seq \/ file.seq = w.seq + 1) /\ (w.seq + 1) % 2 = 1
    BY <1>0, <2>1, Parity DEF SeqOK
  <2>3. SeqOK'
    BY <2>1, <2>2 DEF SeqOK
  <2>4. FormatOK' /\ FormatStep
    BY <1>0, <2>1, <2>2 DEF FormatOK, FormatStep, Formatted
  <2>. QED BY <2>3, <2>4
<1>4. CASE FormatEpoch
  <2>1. /\ chunks' = chunks /\ w.pc = "formatEpoch" /\ w'.pc = "formatRate" /\ w'.seq = w.seq
        /\ file'.seq = file.seq /\ file'.epoch = w.epoch + 1 /\ file'.rate = file.rate
        /\ file'.magic = file.magic /\ file.magic /\ w.epoch = file.epoch
    BY <1>4 DEF FormatEpoch, historyUnchanged, TypeOK, WriterType, FileType, WriterInv, FreshOK, CountersOK, Active
  <2>2. w.seq % 2 = 1 /\ file.seq = w.seq
    BY <2>1 DEF SeqOK
  <2>3. \A c \in chunks : c.rec.epoch \in Nat /\ c.rec.epoch <= file.epoch
    BY TypeFacts DEF WriterInv, HistoryOK
  <2>4. SeqOK'
    BY <2>1, <2>2 DEF SeqOK
  <2>5. FormatOK' /\ FormatStep
    BY <1>0, <2>1, <2>2, <2>3 DEF FormatOK, FormatStep, Formatted
  <2>. QED BY <2>4, <2>5
<1>5. CASE FormatRate
  <2>1. /\ chunks' = chunks /\ w.pc = "formatRate" /\ w'.pc = "formatEven" /\ w'.seq = w.seq /\ w'.stream = w.stream
        /\ file'.seq = file.seq /\ file'.epoch = file.epoch /\ file'.rate = w.stream
        /\ file'.magic = file.magic /\ file.magic
    BY <1>5 DEF FormatRate, Goto, historyUnchanged, TypeOK, WriterType, FileType, WriterInv, FreshOK, Active
  <2>2. w.seq % 2 = 1 /\ file.seq = w.seq
    BY <2>1 DEF SeqOK
  <2>3. SeqOK'
    BY <2>1, <2>2 DEF SeqOK
  <2>4. FormatOK' /\ FormatStep
    BY <1>0, <2>1, <2>2 DEF FormatOK, FormatStep, Formatted
  <2>. QED BY <2>3, <2>4
<1>6. CASE FormatEven
  <2>1. /\ chunks' = chunks /\ w.pc = "formatEven" /\ w'.seq = w.seq + 1 /\ w'.stream = w.stream
        /\ w'.pc \in {"idle", "reserveFrames"}
        /\ file'.seq = w.seq + 1 /\ file'.epoch = file.epoch /\ file'.rate = file.rate
        /\ file'.magic = file.magic /\ file.magic
    BY <1>6 DEF FormatEven, historyUnchanged, TypeOK, WriterType, FileType, WriterInv, FreshOK, Active
  <2>2. w.seq % 2 = 1 /\ file.seq = w.seq /\ (w.seq + 1) % 2 = 0
    BY <1>0, <2>1, Parity DEF SeqOK
  <2>3. SeqOK'
    BY <2>1, <2>2 DEF SeqOK
  <2>4. FormatOK' /\ FormatStep
    BY <1>0, <2>1, <2>2 DEF FormatOK, FormatStep, Formatted
  <2>. QED BY <2>3, <2>4
<1>7. CASE EndStream \/ \E s \in Streams, len \in Lengths, gap \in Gaps : Commit(s, len, gap)
  <2>1. /\ chunks' = chunks /\ file' = file /\ w.pc = "idle" /\ w'.seq = w.seq
    BY <1>7 DEF EndStream, Commit, ring, historyUnchanged, TypeOK, WriterType
  <2>2. w'.pc = "formatOdd" \/ (w'.pc \in {"idle", "reserveFrames"} /\ w'.stream = w.stream)
    BY <1>7 DEF EndStream, Commit, TypeOK, WriterType
  <2>3. file.magic
    BY <2>1 DEF WriterInv, FreshOK, Active
  <2>4. SeqOK'
    BY <1>0, <2>1, <2>2, <2>3 DEF SeqOK
  <2>5. FormatOK' /\ FormatStep
    BY <1>0, <2>1, <2>2 DEF FormatOK, FormatStep, Formatted
  <2>. QED BY <2>4, <2>5
<1>8. CASE ReserveFrames \/ ReserveChunks \/ CopyBegin \/ PublishFrames \/ PublishChunks
  <2>1. /\ chunks' = chunks /\ w'.seq = w.seq /\ w'.stream = w.stream /\ w.pc \in Steady /\ w'.pc \in Steady
    BY <1>8 DEF ReserveFrames, ReserveChunks, CopyBegin, PublishFrames, PublishChunks, Goto,
       historyUnchanged, TypeOK, WriterType
  <2>2. /\ file'.seq = file.seq /\ file'.epoch = file.epoch /\ file'.rate = file.rate
        /\ file'.magic = file.magic
    BY <1>8 DEF ReserveFrames, ReserveChunks, CopyBegin, PublishFrames, PublishChunks, TypeOK, FileType
  <2>3. SeqOK'
    BY <2>1, <2>2 DEF SeqOK
  <2>4. FormatOK' /\ FormatStep
    BY <1>0, <2>1, <2>2 DEF FormatOK, FormatStep, Formatted
  <2>. QED BY <2>3, <2>4
<1>9. CASE CopyEnd
  <2>1. /\ file' = file /\ w'.seq = w.seq /\ w'.stream = w.stream /\ w.pc = "copying" /\ w'.pc = "publishFrames"
        /\ chunks' = chunks \union {[n |-> w.chunks, rec |-> NewRec, stream |-> w.stream]}
    BY <1>9 DEF CopyEnd, TypeOK, WriterType
  <2>2. w.epoch = file.epoch /\ w.stream = file.rate /\ NewRec.epoch = w.epoch
    BY <2>1 DEF WriterInv, CountersOK, Active, FormatOK, NewRec
  <2>3. SeqOK'
    BY <2>1 DEF SeqOK
  <2>4. \A c \in chunks' : c \in chunks \/ (c.rec.epoch = file.epoch /\ c.stream = file.rate)
    BY <2>1, <2>2
  <2>5. FormatOK'
    BY <2>1, <2>4 DEF FormatOK
  <2>6. FormatStep
    BY <1>0, <2>1, <2>4 DEF FormatStep, Formatted
  <2>. QED BY <2>3, <2>5, <2>6
<1>10. CASE Kill
  <2>1. file' = file /\ chunks' = chunks /\ w'.pc = "dead"
    BY <1>10 DEF Kill, NewWriter
  <2>. QED BY <1>0, <2>1 DEF SeqOK, FormatOK, FormatStep, Formatted
<1>. QED BY <1>1, <1>2, <1>3, <1>4, <1>5, <1>6, <1>7, <1>8, <1>9, <1>10 DEF WriterNext

LEMMA LoadedWriter ==
  ASSUME TypeOK, TypeOK', LoadedOK, FormatStep, r' = r
  PROVE  LoadedOK'
<1>1. /\ file.seq \in Nat /\ file'.seq \in Nat /\ r.s1 \in Nat /\ r.epoch \in Nat /\ r.rate \in Nat
  <2>1. file'.seq \in Nat
    BY DEF TypeOK, FileType
  <2>. QED BY <2>1, FormatTypes
<1>2. r.pc \in Unsettled \union {"loadEpoch", "loadRate"} /\ r.s1 = file'.seq =>
        r.s1 = file.seq /\ file'.epoch = file.epoch /\ file'.rate = file.rate
  BY <1>1 DEF LoadedOK, FormatStep
<1>3. Formatted(r.epoch, r.rate) => Formatted(r.epoch, r.rate)'
  BY <1>1 DEF FormatStep, Formatted
<1>. QED BY <1>1, <1>2, <1>3 DEF LoadedOK, FormatStep

LEMMA LoadedReader ==
  ASSUME TypeOK, WriterInv, SeqOK, FormatOK, LoadedOK, ReaderStep \/ ReaderCall \/ Return
  PROVE  LoadedOK'
<1>. USE DEF Unsettled
<1>0. /\ file.seq \in Nat /\ file.epoch \in Nat /\ file.rate \in Nat
      /\ r.s1 \in Nat /\ r.epoch \in Nat /\ r.rate \in Nat
  BY FormatTypes
<1>1. CASE ReaderCall
  <2>1. PICK latest, t, window : LoadSeq(latest, t, window)
    BY <1>1 DEF ReaderCall
  <2>2. /\ r'.pc \in {"nodata", "retry", "loadEpoch"} /\ r'.s1 = file.seq /\ file' = file
        /\ (r'.pc = "loadEpoch" => file.seq % 2 # 1)
    BY <2>1, NewReaderType DEF LoadSeq, writerUnchanged
  <2>3. file.seq % 2 \in {0, 1}
    BY <1>0, Parity
  <2>. QED BY <1>0, <2>2, <2>3 DEF LoadedOK
<1>2. CASE LoadEpoch
  <2>1. /\ file' = file /\ r.pc = "loadEpoch" /\ r'.pc = "loadRate" /\ r'.s1 = r.s1 /\ r'.epoch = file.epoch
    BY <1>2 DEF LoadEpoch, writerUnchanged, TypeOK, ReaderType, CallType
  <2>. QED BY <2>1 DEF LoadedOK
<1>3. CASE LoadRate
  <2>1. /\ file' = file /\ r.pc = "loadRate" /\ r'.pc = "loadWritten" /\ r'.s1 = r.s1 /\ r'.epoch = r.epoch
        /\ r'.rate = file.rate
    BY <1>3 DEF LoadRate, writerUnchanged, TypeOK, ReaderType, CallType
  <2>. QED BY <2>1 DEF LoadedOK
<1>4. CASE \/ LoadWritten \/ ReadNewest \/ SeekTarget \/ PlaceEnd \/ WalkBack \/ WalkDone
           \/ FillZeros \/ CopyFrame \/ CopyDone
  <2>1. file' = file
    BY <1>4 DEF LoadWritten, ReadNewest, SeekTarget, PlaceEnd, WalkBack, WalkDone, FillZeros,
       CopyFrame, CopyDone, writerUnchanged
  <2>2. r.pc \in Unsettled
    BY <1>4 DEF LoadWritten, ReadNewest, SeekTarget, PlaceEnd, WalkBack, WalkDone, FillZeros,
       CopyFrame, CopyDone
  <2>3. r'.s1 = r.s1 /\ r'.epoch = r.epoch /\ r'.rate = r.rate /\ r'.pc \in Unsettled \union {"nodata"}
    <3>1. CASE LoadWritten BY <3>1 DEF LoadWritten, TypeOK, ReaderType, CallType
    <3>2. CASE ReadNewest BY <3>2 DEF ReadNewest, TypeOK, ReaderType, CallType
    <3>3. CASE SeekTarget
      <4>1. \A prev : /\ Older(prev).s1 = r.s1 /\ Older(prev).epoch = r.epoch
                      /\ Older(prev).rate = r.rate /\ Older(prev).pc = r.pc
                      /\ DOMAIN Older(prev) = DOMAIN r
        BY DEF Older, TypeOK, ReaderType, CallType
      <4>2. /\ {"s1", "epoch", "rate", "pc"} \subseteq DOMAIN r /\ r.pc = "target"
            /\ {"target", "place"} \subseteq Unsettled
        BY <3>3 DEF SeekTarget, TypeOK, ReaderType, CallType, Unsettled
      <4>3. CASE r.n = Lo
        BY <3>3, <4>2, <4>3 DEF SeekTarget
      <4>4. CASE r.n # Lo
        <5>1. PICK prev :
                \/ r' = [Older(prev) EXCEPT !.pc = "place", !.hasPrev = ~Older(prev).bounded]
                \/ r' = [Older(prev) EXCEPT !.best = prev, !.n = r.n - 1, !.hasPrev = TRUE]
          BY <3>3, <4>4 DEF SeekTarget
        <5>2. PICK found : found = Older(prev)
          OBVIOUS
        <5>3. \/ r' = [found EXCEPT !.pc = "place", !.hasPrev = ~found.bounded]
              \/ r' = [found EXCEPT !.best = prev, !.n = r.n - 1, !.hasPrev = TRUE]
          BY <5>1, <5>2, Zenon
        <5>4. /\ found.s1 = r.s1 /\ found.epoch = r.epoch /\ found.rate = r.rate
              /\ found.pc = r.pc /\ {"s1", "epoch", "rate", "pc"} \subseteq DOMAIN found
          BY <4>1, <4>2, <5>2
        <5>. QED BY <4>2, <5>3, <5>4
      <4>. QED BY <4>3, <4>4
    <3>4. CASE PlaceEnd BY <3>4 DEF PlaceEnd, TypeOK, ReaderType, CallType
    <3>5. CASE WalkBack BY <3>5 DEF WalkBack, Older, TypeOK, ReaderType, CallType
    <3>6. CASE WalkDone BY <3>6 DEF WalkDone, TypeOK, ReaderType, CallType
    <3>7. CASE FillZeros
      <4>1. \/ r' = [r EXCEPT !.pc = "noDataSeq"]
            \/ \E first : r' = [r EXCEPT !.pc = "copy", !.first = first, !.copied = TRUE]
        BY <3>7, Zenon DEF FillZeros
      <4>. QED BY <4>1 DEF TypeOK, ReaderType, CallType
    <3>8. CASE CopyFrame BY <3>8 DEF CopyFrame
    <3>9. CASE CopyDone BY <3>9 DEF CopyDone, TypeOK, ReaderType, CallType
    <3>. QED BY <1>4, <3>1, <3>2, <3>3, <3>4, <3>5, <3>6, <3>7, <3>8, <3>9
  <2>. QED BY <2>1, <2>2, <2>3 DEF LoadedOK
<1>5. CASE SettleSeq
  <2>1. /\ file' = file /\ w' = w /\ chunks' = chunks /\ r.pc \in Unsettled
        /\ r'.epoch = r.epoch /\ r'.rate = r.rate
        /\ r'.pc = IF file.seq = r.s1 THEN "settleChunks" ELSE "retry"
    BY <1>5 DEF SettleSeq, writerUnchanged, TypeOK, ReaderType, CallType
  <2>2. CASE file.seq = r.s1
    <3>1. r.epoch = file.epoch /\ r.rate = file.rate /\ file.seq % 2 = 0
      BY <2>1, <2>2 DEF LoadedOK
    <3>2. w.pc \notin {"formatRate", "formatEven"}
      BY <3>1 DEF SeqOK
    <3>3. Formatted(r.epoch, r.rate)
      BY <1>0, <3>1, <3>2 DEF Formatted, FormatOK
    <3>4. Formatted(r.epoch, r.rate)'
      BY <2>1, <3>3 DEF Formatted
    <3>. QED BY <2>1, <2>2, <3>4 DEF LoadedOK
  <2>3. CASE file.seq # r.s1
    BY <2>1, <2>3 DEF LoadedOK
  <2>. QED BY <2>2, <2>3
<1>6. CASE SettleChunks \/ SettleFrames
  <2>1. /\ file' = file /\ w' = w /\ chunks' = chunks
        /\ r'.epoch = r.epoch /\ r'.rate = r.rate
        /\ r.pc \in {"settleChunks", "settleFrames"} /\ r'.pc \in {"retry", "settleFrames", "nodata", "ok"}
    BY <1>6 DEF SettleChunks, SettleFrames, writerUnchanged, TypeOK, ReaderType, CallType
  <2>2. Formatted(r.epoch, r.rate)'
    BY <2>1 DEF LoadedOK, Formatted
  <2>. QED BY <2>1, <2>2 DEF LoadedOK
<1>7. CASE Return
  <2>1. r'.pc = "idle"
    BY <1>7 DEF Return, NewReader
  <2>. QED BY <2>1 DEF LoadedOK
<1>. QED BY <1>1, <1>2, <1>3, <1>4, <1>5, <1>6, <1>7 DEF ReaderStep

FormatInv == SeqOK /\ FormatOK /\ LoadedOK

\* The rate that is reported with a window is that of the stream its frames
\* are of (pcm_tap_writer.h:205, pcm_tap.h:270), for any number of streams and
\* of writers killed between the two stores.
THEOREM RatesMatch == Spec => []OkFormatMatches
<1>1. Init => FormatInv
  <2>. SUFFICES ASSUME Init PROVE FormatInv
    OBVIOUS
  <2>1. /\ w.pc = "dead" /\ r.pc = "idle" /\ chunks = {} /\ file.seq = 0 /\ file.rate = 0
    BY DEF Init, ZeroHeader, NewWriter, NewReader
  <2>. QED BY <2>1 DEF FormatInv, SeqOK, FormatOK, LoadedOK, Steady, Unsettled
<1>2. IInv /\ IInv' /\ FormatInv /\ [Next]_vars => FormatInv'
  <2>. SUFFICES ASSUME IInv, IInv', FormatInv, [Next]_vars PROVE FormatInv'
    OBVIOUS
  <2>0. TypeOK /\ TypeOK' /\ WriterInv /\ SeqOK /\ FormatOK /\ LoadedOK
    BY DEF IInv, FormatInv
  <2>1. CASE WriterNext
    <3>1. r' = r
      BY <2>0, <2>1, WriterGrows
    <3>. QED BY <2>0, <2>1, <3>1, FormatWriter, LoadedWriter DEF FormatInv
  <2>2. CASE ReaderStep \/ ReaderCall \/ Return
    <3>1. UNCHANGED <<file, w, chunks>>
      BY <2>2 DEF ReaderStep, ReaderCall, LoadSeq, LoadEpoch, LoadRate, LoadWritten,
         ReadNewest, SeekTarget, PlaceEnd, WalkBack, WalkDone, FillZeros, CopyFrame,
         CopyDone, SettleSeq, SettleChunks, SettleFrames, Return, writerUnchanged
    <3>2. SeqOK' /\ FormatOK'
      BY <2>0, <3>1 DEF SeqOK, FormatOK
    <3>. QED BY <2>0, <2>2, <3>2, LoadedReader DEF FormatInv
  <2>3. CASE UNCHANGED vars
    BY <2>0, <2>3 DEF vars, FormatInv, SeqOK, FormatOK, LoadedOK, Formatted
  <2>. QED BY <2>1, <2>2, <2>3 DEF Next
<1>3. FormatInv => OkFormatMatches
  BY DEF FormatInv, LoadedOK, Formatted, OkFormatMatches
<1>. QED BY <1>1, <1>2, <1>3, Invariance, PTL DEF Spec

-----------------------------------------------------------------------------
(* When a window ends, and what its zeros and a refusal stand for.  As     *)
(* before, all is said of what the call has copied only as long as it is   *)
(* Live.  That a walk which met another epoch has seen the first chunk of  *)
(* its own needs more than EpochIsOneRun: the history is sorted.           *)

ChunksInOrder ==
  /\ \A c \in chunks : c.rec.frames > 0
  /\ \A c, d \in chunks : c.n < d.n => c.rec.start + c.rec.frames <= d.rec.start

Own(i) == Committed(i, r.epoch)
Copied == r.pc \in {"copy", "okSeq", "settleChunks", "settleFrames"} /\ r.copied
StillLive == Live \/ r.pc = "settleFrames"

PlacedOK ==
  /\ r.pc = "place" /\ r.hasPrev => r.prev.tEnd < r.t
  /\ r.pc = "place" /\ r.latest => r.t = r.best.tEnd
  /\ r.pc = "target" => ~r.latest
  /\ r.pc \in {"walk", "window"} /\ Live => EndsOnTime /\ r.low.start < r.end
  /\ Copied /\ StillLive => EndsOnTime
  /\ OkIsOnTime

GapsOK ==
  /\ r.pc = "walk" => ~r.bounded
  /\ r.pc = "window" /\ Live /\ r.bounded =>
       \A i \in Int : i < r.low.start /\ Own(i) => AfterUnderrun(i)
  /\ Copied /\ StillLive =>
       \A i \in Int : r.end - r.window <= i /\ i < r.first /\ Own(i) => AfterUnderrun(i)
  /\ ZerosAreGaps

\* The newest chunk is of another epoch, or the oldest that is kept starts
\* after the window does.
Refused ==
  \/ \E c \in chunks : c.n = r.written - 1 /\ c.rec.epoch # r.epoch
  \/ \E c \in chunks : /\ c.n = Lo /\ Lo > 0 /\ c.rec.epoch = r.epoch
                       /\ c.rec.start > Start

RefusedOK ==
  /\ r.pc = "window" /\ Live /\ ~r.bounded /\ r.low.start > Start => r.n = Lo /\ Lo > 0
  /\ r.pc \in {"noDataSeq", "settleChunks"} /\ ~r.copied /\ r.latest /\ Live => Refused
  /\ r.pc = "nodata" /\ r.latest /\ r.rate # 0 /\ r.written # 0 /\ r.window <= F => Refused

TimeInv == ChunksInOrder /\ PlacedOK /\ GapsOK /\ RefusedOK

(* A step of the writer adds at most a chunk after all the others.         *)
LEMMA WriterAdds ==
  ASSUME TypeOK, WriterInv, WriterNext
  PROVE  \/ chunks' = chunks
         \/ \E new : /\ chunks' = chunks \union {new} /\ new.rec.frames > 0
                     /\ \A c \in chunks : c.n < new.n /\ c.rec.start + c.rec.frames <= new.rec.start
<1>1. CASE CopyEnd
  <2>. DEFINE new == [n |-> w.chunks, rec |-> NewRec, stream |-> w.stream]
  <2>1. w.pc = "copying" /\ chunks' = chunks \union {new}
    BY <1>1 DEF CopyEnd
  <2>2. w.len > 0 /\ \A c \in chunks : c.n < w.chunks /\ c.rec.start + c.rec.frames <= w.frames
    BY <2>1 DEF WriterInv, CountersOK, HistoryOK, Active
  <2>3. new.n = w.chunks /\ new.rec.start = w.frames /\ new.rec.frames = w.len
    BY DEF NewRec
  <2>. HIDE DEF new
  <2>. QED BY <2>1, <2>2, <2>3
<1>2. CASE ~CopyEnd
  BY <1>2 DEF WriterNext, OpenFresh, ZeroFile, StoreMagic, OpenReuse, FormatOdd,
     FormatEpoch, FormatRate, FormatEven, EndStream, Commit, ReserveFrames,
     ReserveChunks, CopyBegin, PublishFrames, PublishChunks, Kill, historyUnchanged
<1>. QED BY <1>1, <1>2

LEMMA OrderWriter ==
  ASSUME TypeOK, TypeOK', WriterInv, ChunksInOrder, WriterNext
  PROVE  ChunksInOrder'
<1>1. CASE chunks' = chunks
  BY <1>1 DEF ChunksInOrder
<1>2. ASSUME NEW new, chunks' = chunks \union {new}, new.rec.frames > 0,
             \A c \in chunks : c.n < new.n /\ c.rec.start + c.rec.frames <= new.rec.start
      PROVE  ChunksInOrder'
  <2>1. \A c \in chunks' : c.n \in Nat
    BY DEF TypeOK, HistoryType
  <2>2. \A c \in chunks' : c.rec.frames > 0
    BY <1>2 DEF ChunksInOrder
  <2>3. ASSUME NEW c \in chunks', NEW d \in chunks', c.n < d.n
        PROVE  c.rec.start + c.rec.frames <= d.rec.start
    <3>1. c.n \in Nat /\ d.n \in Nat
      BY <2>1
    <3>2. c # new
      BY <1>2, <2>3, <3>1
    <3>3. c \in chunks
      BY <1>2, <3>2
    <3>. QED BY <1>2, <2>3, <3>3 DEF ChunksInOrder
  <2>. QED BY <2>2, <2>3 DEF ChunksInOrder
<1>. QED BY <1>1, <1>2, WriterAdds

(* Nothing is added to the epoch before the end of a window.               *)
LEMMA NoneBefore ==
  ASSUME TypeOK, TypeOK', WriterInv, WriterNext, EndsOnTime, NEW i \in Int, i < r.end, Own(i)'
  PROVE  Own(i)
<1>1. r' = r
  BY WriterGrows
<1>2. PICK last \in chunks : r.end - 1 \in FramesOf(last)
  BY DEF EndsOnTime
<1>3. PICK c \in chunks' : c.rec.epoch = r.epoch /\ i \in FramesOf(c)
  BY <1>1 DEF Own, Committed, FramesOf
<1>4. /\ r.end \in Nat /\ c.rec.start \in Nat /\ c.rec.frames \in Nat
      /\ last.rec.start \in Nat /\ last.rec.frames \in Nat
  <2>1. c.rec.start \in Nat /\ c.rec.frames \in Nat
    BY DEF TypeOK, HistoryType, Rec
  <2>. QED BY <2>1, CallFacts, TypeFacts
<1>5. c \in chunks
  <2>1. ASSUME last.rec.start + last.rec.frames <= c.rec.start PROVE FALSE
    BY <1>2, <1>3, <1>4, <2>1 DEF FramesOf
  <2>. QED BY <2>1, WriterAdds
<1>. QED BY <1>3, <1>5 DEF Own, Committed

LEMMA TimeWriter ==
  ASSUME TypeOK, TypeOK', WriterInv, ReaderInv, TimeInv, WriterNext
  PROVE  TimeInv'
<1>1. /\ r' = r /\ out' = out /\ chunks \subseteq chunks'
      /\ file.chunksReserved <= file'.chunksReserved
  BY WriterGrows
<1>2. Live' => Live
  <2>1. file'.chunksReserved \in Nat
    BY DEF TypeOK, FileType
  <2>. QED BY <1>1, <2>1, CallFacts, SMTT(30) DEF Live
<1>3. EndsOnTime => EndsOnTime'
  BY <1>1 DEF EndsOnTime, FramesOf, PlayTime
<1>4. \A i : AfterUnderrun(i) => AfterUnderrun(i)'
  BY <1>1 DEF AfterUnderrun, Underrun
<1>5. Refused => Refused'
  BY <1>1 DEF Refused, Lo, Start
<1>6. EndsOnTime => \A i \in Int : i < r.end /\ Own(i)' => Own(i)
  BY NoneBefore
<1>7. (Copied' => Copied) /\ (StillLive' => StillLive) /\ Lo' = Lo /\ Start' = Start
  BY <1>1, <1>2 DEF Copied, StillLive, Lo, Start
<1>8. ChunksInOrder'
  BY OrderWriter DEF TimeInv
<1>9. PlacedOK'
  BY <1>1, <1>2, <1>3, <1>7 DEF TimeInv, PlacedOK, OkIsOnTime
<1>10. RefusedOK'
  BY <1>1, <1>2, <1>5, <1>7 DEF TimeInv, RefusedOK
<1>11. GapsOK'
  <2>1. r'.pc = "walk" => ~r'.bounded
    BY <1>1 DEF TimeInv, GapsOK
  <2>2. ASSUME r.pc = "window", Live', r.bounded, NEW i \in Int, i < r.low.start, Own(i)'
        PROVE  AfterUnderrun(i)'
    <3>1. EndsOnTime /\ r.low.start < r.end
      BY <1>2, <2>2 DEF TimeInv, PlacedOK
    <3>2. r.low.start \in Nat /\ r.end \in Nat
      BY CallFacts, RecFacts
    <3>3. i < r.end
      BY <2>2, <3>1, <3>2
    <3>4. Own(i)
      BY <1>6, <2>2, <3>1, <3>3
    <3>. QED BY <1>2, <1>4, <2>2, <3>4 DEF TimeInv, GapsOK
  <2>3. ASSUME Copied', StillLive', NEW i \in Int, r.end - r.window <= i, i < r.first, Own(i)'
        PROVE  AfterUnderrun(i)'
    <3>1. Copied /\ StillLive /\ EndsOnTime
      BY <1>7, <2>3 DEF TimeInv, PlacedOK
    <3>2. CASE i < r.end
      <4>1. Own(i)
        BY <1>6, <2>3, <3>1, <3>2
      <4>. QED BY <1>4, <2>3, <3>1, <4>1 DEF TimeInv, GapsOK
    <3>3. CASE ~(i < r.end)
      <4>1. r.first <= r.end
        BY <3>1 DEF Copied, ReaderInv, CopyOK
      <4>. QED BY <2>3, <3>3, <4>1, CallFacts
    <3>. QED BY <3>2, <3>3
  <2>4. ZerosAreGaps'
    <3>1. ASSUME r.pc = "ok", NEW k \in 1 .. r.window, out[k] = Blank, NEW i \in Int, i = Wanted(k), Own(i)'
          PROVE  AfterUnderrun(i)'
      <4>1. i < r.end
        BY <3>1, CallFacts, SMTT(30) DEF Wanted
      <4>2. EndsOnTime
        BY <3>1 DEF TimeInv, PlacedOK, OkIsOnTime
      <4>3. Own(i)
        BY <1>6, <3>1, <4>1, <4>2
      <4>. QED BY <1>4, <3>1, <4>3 DEF TimeInv, GapsOK, ZerosAreGaps, Own
    <3>2. \A k \in 1 .. r.window : Wanted(k) \in Int
      BY CallFacts, SMTT(30) DEF Wanted
    <3>. QED BY <1>1, <3>1, <3>2 DEF ZerosAreGaps, Own, Wanted, AfterUnderrun, Committed, FramesOf, Underrun
  <2>. QED BY <1>1, <2>1, <2>2, <2>3, <2>4 DEF GapsOK
<1>. QED BY <1>8, <1>9, <1>10, <1>11 DEF TimeInv

LEMMA SameCall ==
  ASSUME UNCHANGED <<file, chunks>>, r'.epoch = r.epoch, r'.end = r.end
  PROVE  /\ \A i : (Own(i)' <=> Own(i)) /\ (AfterUnderrun(i)' <=> AfterUnderrun(i))
         /\ r'.t = r.t => (EndsOnTime' <=> EndsOnTime)
         /\ r'.oldest = r.oldest => (Live' <=> Live)
         /\ r'.written = r.written => Lo' = Lo
         /\ r'.window = r.window => Start' = Start
<1>1. \A i : (Own(i)' <=> Own(i)) /\ (AfterUnderrun(i)' <=> AfterUnderrun(i))
  BY DEF Own, Committed, FramesOf, AfterUnderrun, Underrun
<1>2. r'.t = r.t => (EndsOnTime' <=> EndsOnTime)
  BY DEF EndsOnTime, FramesOf, PlayTime
<1>. QED BY <1>1, <1>2 DEF Live, Lo, Start

LEMMA TimeLoads ==
  ASSUME TypeOK, TimeInv, ReaderCall \/ LoadEpoch \/ LoadRate \/ LoadWritten \/ Return
  PROVE  PlacedOK' /\ GapsOK' /\ RefusedOK'
<1>1. r'.pc \in {"retry", "idle", "loadEpoch", "loadRate", "loadWritten", "newest", "nodata"}
  <2>1. CASE ReaderCall
    <3>1. PICK latest, t, window : LoadSeq(latest, t, window)
      BY <2>1 DEF ReaderCall
    <3>. QED BY <3>1, NewReaderType DEF LoadSeq
  <2>2. CASE LoadEpoch BY <2>2 DEF LoadEpoch, TypeOK, ReaderType, CallType
  <2>3. CASE LoadRate BY <2>3 DEF LoadRate, TypeOK, ReaderType, CallType
  <2>4. CASE LoadWritten BY <2>4 DEF LoadWritten, TypeOK, ReaderType, CallType
  <2>5. CASE Return BY <2>5 DEF Return, NewReader
  <2>. QED BY <2>1, <2>2, <2>3, <2>4, <2>5
<1>2. r'.pc = "nodata" => r'.rate = 0 \/ r'.written = 0
  <2>1. CASE ReaderCall
    <3>1. PICK latest, t, window : LoadSeq(latest, t, window)
      BY <2>1 DEF ReaderCall
    <3>2. NewReader.rate = 0
      BY DEF NewReader
    <3>. QED BY <3>1, <3>2, NewReaderType DEF LoadSeq
  <2>2. CASE LoadWritten
    BY <2>2 DEF LoadWritten, TypeOK, ReaderType, CallType
  <2>3. CASE LoadEpoch BY <2>3 DEF LoadEpoch, TypeOK, ReaderType, CallType
  <2>4. CASE LoadRate BY <2>4 DEF LoadRate, TypeOK, ReaderType, CallType
  <2>5. CASE Return BY <2>5 DEF Return, NewReader
  <2>. QED BY <2>1, <2>2, <2>3, <2>4, <2>5
<1>. QED BY <1>1, <1>2 DEF PlacedOK, GapsOK, RefusedOK, OkIsOnTime, ZerosAreGaps, Copied

LEMMA TimeNewest ==
  ASSUME TypeOK, WriterInv, ReaderInv, TimeInv, ReadNewest
  PROVE  PlacedOK' /\ GapsOK' /\ RefusedOK'
<1>1. PICK best \in Seen(r.n) :
        r' = [r EXCEPT !.best = best, !.t = IF r.latest THEN best.tEnd ELSE r.t,
               !.pc = IF best.epoch # r.epoch \/ (~r.latest /\ best.tEnd < r.t)
                      THEN "noDataSeq"
                      ELSE IF r.latest THEN "place" ELSE "target"]
  BY DEF ReadNewest
<1>2. /\ r'.best = best /\ r'.n = r.n /\ r'.oldest = r.oldest /\ r'.epoch = r.epoch
      /\ r'.written = r.written /\ r'.hasPrev = r.hasPrev /\ r'.latest = r.latest
      /\ r'.t = IF r.latest THEN best.tEnd ELSE r.t
      /\ r'.pc = IF best.epoch # r.epoch \/ (~r.latest /\ best.tEnd < r.t)
                 THEN "noDataSeq"
                 ELSE IF r.latest THEN "place" ELSE "target"
  BY <1>1 DEF TypeOK, ReaderType, CallType
<1>3. /\ UNCHANGED <<file, chunks>> /\ ~r.hasPrev /\ r.oldest = r.n
      /\ r.n = r.written - 1 /\ r.n >= 0 /\ ChunkAt(r.written - 1)
  BY DEF ReadNewest, writerUnchanged, ReaderInv, WalkOK
<1>4. r'.pc \in {"noDataSeq", "place", "target"}
  BY <1>2
<1>5. PlacedOK' /\ GapsOK'
  BY <1>2, <1>3, <1>4 DEF PlacedOK, GapsOK, OkIsOnTime, ZerosAreGaps, Copied
<1>6. ASSUME r'.pc = "noDataSeq", r.latest, Live PROVE Refused'
  <2>1. best.epoch # r.epoch
    BY <1>2, <1>6
  <2>2. Chunk(r.n, best)
    BY <1>3, <1>6, SeenIsChunk, CallFacts DEF Live
  <2>. QED BY <1>2, <1>3, <2>1, <2>2 DEF Chunk, Refused
<1>7. RefusedOK'
  BY <1>2, <1>3, <1>4, <1>6 DEF RefusedOK, Live
<1>. QED BY <1>5, <1>7

LEMMA TimeTarget ==
  ASSUME TypeOK, WriterInv, ReaderInv, TimeInv, SeekTarget
  PROVE  PlacedOK' /\ GapsOK' /\ RefusedOK'
<1>1. r.pc = "target" /\ ~r.latest
  BY DEF SeekTarget, TimeInv, PlacedOK
<1>2. r'.latest = r.latest /\ r'.pc \in {"place", "target"}
      /\ (r'.pc = "place" /\ r'.hasPrev => r'.prev.tEnd < r'.t)
  <2>1. CASE r.n = Lo
    BY <1>1, <2>1 DEF SeekTarget, TypeOK, ReaderType, CallType
  <2>2. CASE r.n # Lo
    <3>1. PICK prev \in Seen(r.n - 1) :
          r' = IF Older(prev).bounded \/ prev.tEnd < r.t
               THEN [Older(prev) EXCEPT !.pc = "place", !.hasPrev = ~Older(prev).bounded]
               ELSE [Older(prev) EXCEPT !.best = prev, !.n = r.n - 1, !.hasPrev = TRUE]
      BY <2>2 DEF SeekTarget
    <3>2. /\ Older(prev).latest = r.latest /\ Older(prev).pc = r.pc /\ Older(prev).prev = prev
          /\ Older(prev).t = r.t
      BY DEF Older, TypeOK, ReaderType, CallType
    <3>3. Older(prev) \in
        [pc : ReaderPcs, latest : BOOLEAN, t : Int, window : Nat, s1 : Nat,
         epoch : Nat, rate : Stream0, written : Nat, oldest : Int, n : Int,
         best : Rec, prev : Rec, hasPrev : BOOLEAN, low : Rec,
         bounded : BOOLEAN, end : Nat, first : Nat, copied : BOOLEAN]
      BY OlderType
    <3>4. CASE Older(prev).bounded \/ prev.tEnd < r.t
      <4>1. /\ r'.pc = "place" /\ r'.latest = r.latest /\ r'.prev = prev /\ r'.t = r.t
            /\ r'.hasPrev = ~Older(prev).bounded
        BY <3>1, <3>2, <3>3, <3>4
      <4>. QED BY <3>4, <4>1
    <3>5. CASE ~(Older(prev).bounded \/ prev.tEnd < r.t)
      BY <1>1, <3>1, <3>2, <3>3, <3>5
    <3>. QED BY <3>4, <3>5
  <2>. QED BY <2>1, <2>2
<1>. QED BY <1>1, <1>2 DEF PlacedOK, GapsOK, RefusedOK, OkIsOnTime, ZerosAreGaps, Copied

LEMMA TimePlace ==
  ASSUME TypeOK, WriterInv, ReaderInv, TimeInv, PlaceEnd
  PROVE  PlacedOK' /\ GapsOK' /\ RefusedOK'
<1>. DEFINE lag == r.best.tEnd - r.t
            inBest == lag < r.best.frames
            base == IF inBest THEN r.best ELSE r.prev
            n == IF inBest THEN r.n ELSE r.n - 1
            end == IF inBest THEN r.best.start + r.best.frames - lag ELSE r.best.start
<1>1. /\ r.pc = "place" /\ UNCHANGED <<file, chunks>> /\ r.n >= 0
      /\ r.best.tEnd >= r.t /\ r.best.epoch = r.epoch /\ (Live => Chunk(r.n, r.best))
      /\ r.hasPrev => r.n > Lo /\ r.prev.epoch = r.epoch /\ (Live => Chunk(r.n - 1, r.prev))
  BY DEF PlaceEnd, writerUnchanged, ReaderInv, WalkOK
<1>2. (r.hasPrev => r.prev.tEnd < r.t) /\ (r.latest => r.t = r.best.tEnd)
  BY <1>1 DEF TimeInv, PlacedOK
<1>3. \/ /\ r' = [r EXCEPT !.pc = "noDataSeq"]
         /\ ~inBest
      \/ /\ inBest \/ (r.hasPrev /\ ~(r.t - r.prev.tEnd > r.best.frames))
         /\ r' = [r EXCEPT !.pc = "walk", !.best = base, !.low = base, !.n = n,
                          !.end = end, !.bounded = FALSE]
  BY Zenon DEF PlaceEnd
<1>4. /\ r.best.start \in Nat /\ r.best.frames \in Nat /\ r.best.tEnd \in Int
      /\ r.prev.start \in Nat /\ r.prev.frames \in Nat /\ r.prev.tEnd \in Int
      /\ r.t \in Int /\ r.n \in Int /\ Lo \in Nat
  BY CallFacts, RecFacts, LoFacts
<1>5. CASE r' = [r EXCEPT !.pc = "noDataSeq"] /\ ~inBest
  <2>1. /\ r'.pc = "noDataSeq" /\ r'.latest = r.latest /\ r'.oldest = r.oldest
    BY <1>5 DEF TypeOK, ReaderType, CallType
  <2>2. ASSUME Live, r.latest PROVE FALSE
    <3>1. r.best.frames > 0
      BY <1>1, <2>2 DEF Chunk, TimeInv, ChunksInOrder
    <3>. QED BY <1>2, <1>4, <1>5, <2>2, <3>1
  <2>3. Live' = Live
    BY <1>1, <2>1 DEF Live
  <2>. HIDE DEF inBest
  <2>. QED BY <2>1, <2>2, <2>3 DEF PlacedOK, GapsOK, RefusedOK, OkIsOnTime, ZerosAreGaps, Copied
<1>6. ASSUME inBest \/ (r.hasPrev /\ ~(r.t - r.prev.tEnd > r.best.frames)),
             r' = [r EXCEPT !.pc = "walk", !.best = base, !.low = base, !.n = n,
                            !.end = end, !.bounded = FALSE]
      PROVE  PlacedOK' /\ GapsOK' /\ RefusedOK'
  <2>1. /\ r'.pc = "walk" /\ r'.low = base /\ r'.end = end /\ ~r'.bounded
        /\ r'.oldest = r.oldest /\ r'.epoch = r.epoch /\ r'.t = r.t
    BY <1>6, Zenon DEF TypeOK, ReaderType, CallType
  <2>2. ASSUME Live PROVE EndsOnTime' /\ base.start < end
    <3>1. PICK d \in chunks : d.n = r.n /\ d.rec = r.best
      BY <1>1, <2>2 DEF Chunk
    <3>2. r.best.frames > 0
      BY <3>1 DEF TimeInv, ChunksInOrder
    <3>3. CASE inBest
      <4>1. r'.end = r.best.start + r.best.frames - lag /\ base = r.best
        BY <2>1, <3>3
      <4>2. lag \in Int /\ lag >= 0 /\ lag < r.best.frames
        BY <1>1, <1>4, <3>3
      <4>3. r'.end - 1 \in FramesOf(d)
        BY <1>4, <3>1, <4>1, <4>2 DEF FramesOf
      <4>4. PlayTime(d, r'.end - 1) = r'.t
        BY <1>4, <2>1, <3>1, <4>1, <4>2 DEF PlayTime
      <4>5. EndsOnTime'
        BY <1>1, <2>1, <3>1, <4>3, <4>4 DEF EndsOnTime, FramesOf, PlayTime
      <4>. QED BY <1>4, <2>1, <4>1, <4>2, <4>5
    <3>4. CASE ~inBest
      <4>1. /\ r.hasPrev /\ r.t - r.prev.tEnd <= r.best.frames /\ r'.end = r.best.start
            /\ base = r.prev /\ end = r.best.start
        BY <1>4, <1>6, <2>1, <3>4
      <4>2. PICK c \in chunks : c.n = r.n - 1 /\ c.rec = r.prev
        BY <1>1, <2>2, <4>1 DEF Chunk
      <4>3. r.prev.frames > 0
        BY <4>2 DEF TimeInv, ChunksInOrder
      <4>4. r.n \in Nat
        BY <1>1, <1>4
      <4>5. r.prev.start + r.prev.frames = r.best.start
        BY <1>1, <2>2, <4>1, <4>4, ChunksMeet
      <4>6. r.prev.tEnd < r.t /\ r.t <= r.best.tEnd - r.best.frames
        BY <1>2, <1>4, <3>4, <4>1
      <4>7. r'.end - 1 \in FramesOf(c)
        BY <1>4, <4>1, <4>2, <4>3, <4>5 DEF FramesOf
      <4>8. r.t <= PlayTime(d, d.rec.start) - 1
        BY <1>4, <3>1, <4>6 DEF PlayTime
      <4>9. d.n = c.n + 1
        BY <1>4, <3>1, <4>2
      <4>10. EndsOnTime'
        BY <1>1, <2>1, <3>1, <4>1, <4>2, <4>6, <4>7, <4>8, <4>9 DEF EndsOnTime, FramesOf, PlayTime
      <4>. QED BY <1>4, <4>1, <4>3, <4>5, <4>10
    <3>. QED BY <3>3, <3>4
  <2>3. Live' = Live
    BY <1>1, <2>1 DEF Live
  <2>. HIDE DEF base, end
  <2>. QED BY <2>1, <2>2, <2>3 DEF PlacedOK, GapsOK, RefusedOK, OkIsOnTime, ZerosAreGaps, Copied
<1>. QED BY <1>3, <1>5, <1>6

(* What is first in the run of an epoch is below all its other frames.     *)
LEMMA FirstOfRun ==
  ASSUME TypeOK, WriterInv, ChunksInOrder, NEW n \in Int, Chunk(n, r.low),
         \A c \in chunks : c.rec.epoch = r.epoch => c.n >= n,
         NEW i \in Int, Own(i)
  PROVE  i >= r.low.start
<1>1. PICK d \in chunks : d.n = n /\ d.rec = r.low
  BY DEF Chunk
<1>2. PICK c \in chunks : c.rec.epoch = r.epoch /\ i \in FramesOf(c)
  BY DEF Own, Committed
<1>3. /\ c.n \in Nat /\ d.n \in Nat /\ c.rec.start \in Nat /\ c.rec.frames \in Nat
      /\ d.rec.start \in Nat /\ d.rec.frames \in Nat
  BY TypeFacts
<1>4. c.n >= d.n /\ i >= c.rec.start
  BY <1>1, <1>2, <1>3 DEF FramesOf
<1>5. CASE c.n = d.n
  <2>1. c = d
    BY <1>5 DEF WriterInv, HistoryOK
  <2>. QED BY <1>1, <1>4, <2>1
<1>6. CASE c.n > d.n
  <2>1. d.rec.start + d.rec.frames <= c.rec.start
    BY <1>3, <1>6 DEF ChunksInOrder
  <2>. QED BY <1>1, <1>3, <1>4, <2>1
<1>. QED BY <1>3, <1>4, <1>5, <1>6

LEMMA TimeWalk ==
  ASSUME TypeOK, WriterInv, ReaderInv, TimeInv, WalkBack
  PROVE  PlacedOK' /\ GapsOK' /\ RefusedOK'
<1>. DEFINE oldest == Smaller(r.oldest, r.n - 1)
<1>1. /\ r.pc = "walk" /\ UNCHANGED <<file, chunks>> /\ r.n # Lo
      /\ r.n >= 0 /\ r.oldest <= r.n /\ r.n >= Lo
      /\ r.low.epoch = r.epoch /\ (Live => Chunk(r.n, r.low))
  BY DEF WalkBack, writerUnchanged, ReaderInv, WalkOK
<1>2. ~r.bounded /\ (Live => EndsOnTime /\ r.low.start < r.end)
  BY <1>1 DEF TimeInv, PlacedOK, GapsOK
<1>3. PICK prev \in Seen(r.n - 1) :
        \/ Older(prev).bounded /\ r' = [Older(prev) EXCEPT !.pc = "window"]
        \/ /\ ~Older(prev).bounded /\ r.low.tEnd - prev.tEnd > 2 * r.low.frames
           /\ r' = [Older(prev) EXCEPT !.pc = "window", !.bounded = TRUE]
        \/ /\ ~Older(prev).bounded
           /\ r' = [Older(prev) EXCEPT !.low = prev, !.n = r.n - 1]
  BY DEF WalkBack
<1>4. prev \in Rec /\ Older(prev) \in
        [pc : ReaderPcs, latest : BOOLEAN, t : Int, window : Nat, s1 : Nat,
         epoch : Nat, rate : Stream0, written : Nat, oldest : Int, n : Int,
         best : Rec, prev : Rec, hasPrev : BOOLEAN, low : Rec,
         bounded : BOOLEAN, end : Nat, first : Nat, copied : BOOLEAN]
  <2>1. r.n - 1 \in Int
    BY CallFacts
  <2>. QED BY <2>1, OlderType, SeenType
<1>5. /\ Older(prev).bounded = (prev.epoch # r.epoch) /\ Older(prev).oldest = oldest
      /\ Older(prev).pc = r.pc /\ Older(prev).low = r.low
      /\ Older(prev).epoch = r.epoch /\ Older(prev).end = r.end /\ Older(prev).t = r.t
  BY DEF Older, TypeOK, ReaderType, CallType
<1>6. r.n > Lo /\ r.n \in Nat /\ r.n - 1 \in Nat /\ oldest <= r.n - 1 /\ oldest <= r.oldest /\ oldest \in Int
  <2>1. r.oldest \in Int /\ r.n - 1 \in Int /\ r.n \in Int /\ Lo \in Nat
    BY CallFacts, LoFacts
  <2>2. oldest <= r.n - 1 /\ oldest <= r.oldest /\ oldest \in Int
    BY ONLY <2>1, SmallerFacts
  <2>3. r.n > Lo /\ r.n \in Nat /\ r.n - 1 \in Nat
    BY <1>1, <2>1
  <2>. QED BY <2>2, <2>3
<1>7. ASSUME prev.epoch = r.epoch, file.chunksReserved <= oldest + C
      PROVE  Chunk(r.n - 1, prev)
  BY <1>1, <1>6, <1>7, StepDown
<1>8. (file.chunksReserved <= oldest + C) => Live /\ file.chunksReserved <= (r.n - 1) + C
  <2>1. file.chunksReserved \in Int /\ C \in Int /\ r.oldest \in Int /\ oldest \in Int /\ r.n - 1 \in Int
    BY <1>6, CallFacts
  <2>. HIDE DEF oldest
  <2>. QED BY <1>6, <2>1 DEF Live
<1>. HIDE DEF oldest
<1>9. r'.epoch = r.epoch /\ r'.end = r.end /\ r'.t = r.t /\ r'.oldest = oldest /\ r'.pc \in {"walk", "window"}
  BY <1>1, <1>3, <1>4, <1>5
<1>10. Live' <=> file.chunksReserved <= oldest + C
  BY <1>1, <1>9 DEF Live
<1>11. Live' => EndsOnTime' /\ r.low.start < r.end
  BY <1>1, <1>2, <1>8, <1>9, <1>10, SameCall
<1>12. CASE Older(prev).bounded /\ r' = [Older(prev) EXCEPT !.pc = "window"]
  <2>1. r'.pc = "window" /\ r'.low = r.low /\ r'.bounded /\ prev.epoch # r.epoch
    BY <1>4, <1>5, <1>12
  <2>2. ASSUME Live', NEW i \in Int, Own(i) PROVE i >= r.low.start
    <3>1. Live /\ Chunk(r.n, r.low) /\ file.chunksReserved <= (r.n - 1) + C
      BY <1>1, <1>8, <1>10, <2>2
    <3>2. PICK d \in chunks : d.n = r.n /\ d.rec = r.low
      BY <3>1 DEF Chunk
    <3>3. ASSUME NEW c \in chunks, c.rec.epoch = r.epoch, c.n < r.n PROVE FALSE
      <4>1. PICK b \in chunks : b.n + 1 = d.n /\ b.rec.epoch = d.rec.epoch
        BY <1>1, <3>2, <3>3 DEF WriterInv, EpochOK, EpochIsOneRun
      <4>2. b.n = r.n - 1
        BY <1>6, <3>2, <4>1, TypeFacts, SMTT(30)
      <4>3. Chunk(r.n - 1, prev)
        BY <1>6, <3>1, <4>2, SeenIsChunk DEF ChunkAt
      <4>4. PICK e \in chunks : e.n = r.n - 1 /\ e.rec = prev
        BY <4>3 DEF Chunk
      <4>5. e = b
        BY <4>2, <4>4 DEF WriterInv, HistoryOK
      <4>. QED BY <1>1, <2>1, <3>2, <4>1, <4>4, <4>5
    <3>4. \A c \in chunks : c.rec.epoch = r.epoch => c.n >= r.n
      BY <1>6, <3>3, TypeFacts
    <3>. QED BY <1>6, <2>2, <3>1, <3>4, FirstOfRun DEF TimeInv
  <2>3. ASSUME Live', NEW i \in Int, i < r.low.start, Own(i)' PROVE FALSE
    <3>1. Own(i)
      BY <1>1, <1>9, <2>3, SameCall
    <3>. QED BY <2>2, <2>3, <3>1, CallFacts, RecFacts, SMTT(30)
  <2>. QED BY <1>11, <1>9, <2>1, <2>3 DEF PlacedOK, GapsOK, RefusedOK, OkIsOnTime, ZerosAreGaps, Copied
<1>13. CASE /\ ~Older(prev).bounded /\ r.low.tEnd - prev.tEnd > 2 * r.low.frames
            /\ r' = [Older(prev) EXCEPT !.pc = "window", !.bounded = TRUE]
  <2>1. r'.pc = "window" /\ r'.low = r.low /\ r'.bounded /\ prev.epoch = r.epoch
    BY <1>4, <1>5, <1>13
  <2>2. ASSUME Live', NEW i \in Int, i < r.low.start PROVE AfterUnderrun(i)
    <3>1. PICK d \in chunks : d.n = r.n /\ d.rec = r.low
      BY <1>1, <1>8, <1>10, <2>2 DEF Chunk
    <3>2. PICK c \in chunks : c.n = r.n - 1 /\ c.rec = prev
      BY <1>7, <1>10, <2>1, <2>2 DEF Chunk
    <3>3. Underrun(c, d)
      BY <1>6, <1>13, <3>1, <3>2 DEF Underrun
    <3>. QED BY <1>1, <1>11, <2>2, <3>1, <3>3 DEF AfterUnderrun
  <2>3. ASSUME Live', NEW i \in Int, i < r.low.start PROVE AfterUnderrun(i)'
    BY <1>1, <1>9, <2>2, <2>3, SameCall
  <2>. QED BY <1>11, <1>9, <2>1, <2>3 DEF PlacedOK, GapsOK, RefusedOK, OkIsOnTime, ZerosAreGaps, Copied
<1>14. CASE ~Older(prev).bounded /\ r' = [Older(prev) EXCEPT !.low = prev, !.n = r.n - 1]
  <2>1. r'.pc = "walk" /\ r'.low = prev /\ prev.epoch = r.epoch /\ r'.bounded = FALSE
    BY <1>1, <1>4, <1>5, <1>14
  <2>2. Live' => prev.start < r.end
    <3>. SUFFICES ASSUME Live' PROVE prev.start < r.end
      OBVIOUS
    <3>1. Chunk(r.n - 1, prev) /\ Chunk(r.n, r.low) /\ prev.epoch = r.low.epoch
      BY <1>1, <1>7, <1>8, <1>10, <2>1
    <3>2. prev.start + prev.frames = r.low.start
      BY <1>6, <3>1, ChunksMeet
    <3>3. prev.start \in Nat /\ prev.frames \in Nat /\ r.low.start \in Nat /\ r.end \in Nat
      BY <1>4, CallFacts, RecFacts
    <3>. QED BY <1>11, <3>2, <3>3
  <2>. QED BY <1>9, <1>11, <2>1, <2>2 DEF PlacedOK, GapsOK, RefusedOK, OkIsOnTime, ZerosAreGaps, Copied
<1>. QED BY <1>3, <1>12, <1>13, <1>14

LEMMA TimeWalkDone ==
  ASSUME TypeOK, WriterInv, ReaderInv, TimeInv, WalkDone
  PROVE  PlacedOK' /\ GapsOK' /\ RefusedOK'
<1>1. /\ r.pc = "walk" /\ UNCHANGED <<file, chunks>>
      /\ r'.pc = "window" /\ r'.low = r.low /\ r'.n = r.n /\ r'.end = r.end /\ r'.t = r.t
      /\ r'.oldest = r.oldest /\ r'.epoch = r.epoch /\ r'.written = r.written /\ r'.window = r.window
      /\ r'.bounded = IF r.low.start <= Start THEN r.bounded ELSE Lo = 0
      /\ r.low.start <= Start \/ r.n = Lo
  BY DEF WalkDone, writerUnchanged, TypeOK, ReaderType, CallType
<1>2. (Live => Chunk(r.n, r.low)) /\ r.low.epoch = r.epoch
  BY <1>1 DEF ReaderInv, WalkOK
<1>3. ~r.bounded /\ (Live => EndsOnTime /\ r.low.start < r.end)
  BY <1>1 DEF TimeInv, PlacedOK, GapsOK
<1>4. r.low.start \in Nat /\ Start \in Nat /\ Lo \in Nat
  BY CallFacts, RecFacts, LoFacts DEF Start
<1>5. /\ Live' <=> Live
      /\ EndsOnTime' <=> EndsOnTime
      /\ Lo' = Lo /\ Start' = Start
  BY <1>1, SameCall
<1>6. ASSUME Live, r'.bounded, NEW i \in Int, i < r.low.start, Own(i)' PROVE FALSE
  <2>1. r.n = 0
    BY <1>1, <1>3, <1>6
  <2>2. \A c \in chunks : c.rec.epoch = r.epoch => c.n >= r.n
    BY <2>1, TypeFacts
  <2>3. Own(i)
    BY <1>1, <1>6, SameCall
  <2>4. i >= r.low.start
    BY <1>2, <1>6, <2>1, <2>2, <2>3, FirstOfRun DEF TimeInv
  <2>. QED BY <1>4, <1>6, <2>4
<1>7. ASSUME ~r'.bounded, r.low.start > Start PROVE r.n = Lo /\ Lo > 0
  <2>1. ~(r.low.start <= Start)
    BY <1>4, <1>7
  <2>2. r'.bounded = (Lo = 0) /\ r.n = Lo
    BY <1>1, <2>1
  <2>3. Lo # 0
    BY <1>7, <2>2, Zenon
  <2>. QED BY <1>4, <2>2, <2>3
<1>. QED BY <1>1, <1>3, <1>5, <1>6, <1>7 DEF PlacedOK, GapsOK, RefusedOK, OkIsOnTime, ZerosAreGaps, Copied

LEMMA TimeFill ==
  ASSUME TypeOK, WriterInv, ReaderInv, TimeInv, FillZeros
  PROVE  PlacedOK' /\ GapsOK' /\ RefusedOK'
<1>. DEFINE first == Smaller(Larger(r.low.start, Start), r.end)
<1>1. /\ r.pc = "window" /\ UNCHANGED <<file, chunks>> /\ ~r.copied
      /\ r.low.epoch = r.epoch /\ (Live => Chunk(r.n, r.low))
  BY DEF FillZeros, writerUnchanged, ReaderInv, WalkOK
<1>2. /\ Live => EndsOnTime /\ r.low.start < r.end
      /\ Live /\ r.bounded => \A i \in Int : i < r.low.start /\ Own(i) => AfterUnderrun(i)
      /\ Live /\ ~r.bounded /\ r.low.start > Start => r.n = Lo /\ Lo > 0
  BY <1>1 DEF TimeInv, PlacedOK, GapsOK, RefusedOK
<1>3. \/ r.low.start > Start /\ ~r.bounded /\ r' = [r EXCEPT !.pc = "noDataSeq"]
      \/ /\ ~(r.low.start > Start /\ ~r.bounded)
         /\ r' = [r EXCEPT !.pc = "copy", !.first = first, !.copied = TRUE]
  BY DEF FillZeros
<1>4. /\ r.low.start \in Nat /\ r.end \in Nat /\ r.window \in Nat
      /\ r.bounded \in BOOLEAN
  BY CallFacts, RecFacts DEF TypeOK, ReaderType, CallType
<1>5. CASE r.low.start > Start /\ ~r.bounded /\ r' = [r EXCEPT !.pc = "noDataSeq"]
  <2>1. /\ r'.pc = "noDataSeq" /\ r'.oldest = r.oldest /\ r'.written = r.written /\ r'.window = r.window
        /\ r'.epoch = r.epoch /\ r'.end = r.end
    BY <1>5 DEF TypeOK, ReaderType, CallType
  <2>2. (Live' <=> Live) /\ Lo' = Lo /\ Start' = Start
    BY <1>1, <2>1, SameCall
  <2>3. Live => Refused'
    BY <1>1, <1>2, <1>5, <2>1, <2>2 DEF Chunk, Refused
  <2>. QED BY <2>1, <2>2, <2>3 DEF PlacedOK, GapsOK, RefusedOK, OkIsOnTime, ZerosAreGaps, Copied
<1>6. ASSUME ~(r.low.start > Start /\ ~r.bounded),
             r' = [r EXCEPT !.pc = "copy", !.first = first, !.copied = TRUE]
      PROVE  PlacedOK' /\ GapsOK' /\ RefusedOK'
  <2>1. /\ r'.pc = "copy" /\ r'.oldest = r.oldest /\ r'.window = r.window /\ r'.first = first
        /\ r'.epoch = r.epoch /\ r'.end = r.end /\ r'.t = r.t
    BY <1>6 DEF TypeOK, ReaderType, CallType
  <2>2. (Live' <=> Live) /\ (EndsOnTime' <=> EndsOnTime)
    BY <1>1, <2>1, SameCall
  <2>3. ASSUME Live, NEW i \in Int, r.end - r.window <= i, i < first, Own(i)
        PROVE  AfterUnderrun(i)
    <3>1. i >= 0
      <4>1. PICK c \in chunks : i \in FramesOf(c)
        BY <2>3 DEF Own, Committed
      <4>. QED BY <4>1, TypeFacts DEF FramesOf
    <3>2. i >= Start
      BY <1>4, <2>3, <3>1 DEF Start
    <3>3. i < r.low.start /\ r.low.start > Start
      BY <1>4, <2>3, <3>2 DEF Smaller, Larger, Start
    <3>. QED BY <1>2, <1>4, <1>6, <2>3, <3>3
  <2>4. ASSUME Live, NEW i \in Int, r.end - r.window <= i, i < first, Own(i)'
        PROVE  AfterUnderrun(i)'
    <3>1. Own(i)
      BY <1>1, <2>1, <2>4, SameCall
    <3>2. AfterUnderrun(i)
      BY <2>3, <2>4, <3>1
    <3>. QED BY <1>1, <2>1, <3>2, SameCall
  <2>. HIDE DEF first
  <2>. QED BY <1>2, <2>1, <2>2, <2>4 DEF PlacedOK, GapsOK, RefusedOK, OkIsOnTime, ZerosAreGaps, Copied, StillLive
<1>. QED BY <1>3, <1>5, <1>6

LEMMA TimeSettles ==
  ASSUME TypeOK, WriterInv, ReaderInv, TimeInv,
         CopyFrame \/ CopyDone \/ SettleSeq \/ SettleChunks \/ SettleFrames
  PROVE  PlacedOK' /\ GapsOK' /\ RefusedOK'
<1>1. /\ UNCHANGED <<file, chunks>>
      /\ r'.first = r.first /\ r'.end = r.end /\ r'.window = r.window /\ r'.t = r.t
      /\ r'.oldest = r.oldest /\ r'.epoch = r.epoch /\ r'.copied = r.copied
      /\ r'.written = r.written /\ r'.latest = r.latest /\ r'.rate = r.rate
  BY DEF CopyFrame, CopyDone, SettleSeq, SettleChunks, SettleFrames, writerUnchanged,
     TypeOK, ReaderType, CallType
<1>2. /\ (Live' <=> Live) /\ (EndsOnTime' <=> EndsOnTime) /\ Lo' = Lo /\ Start' = Start
      /\ \A i : (Own(i)' <=> Own(i)) /\ (AfterUnderrun(i)' <=> AfterUnderrun(i))
  BY <1>1, SameCall
<1>3. Refused' <=> Refused
  BY <1>1, <1>2 DEF Refused
<1>4. ASSUME Copied, Copied', StillLive' => StillLive PROVE PlacedOK' /\ GapsOK' /\ RefusedOK'
  <2>1. PlacedOK'
    BY <1>1, <1>2, <1>4 DEF TimeInv, PlacedOK, OkIsOnTime, Copied
  <2>2. GapsOK'
    BY <1>1, <1>2, <1>4 DEF TimeInv, GapsOK, ZerosAreGaps, Copied
  <2>3. RefusedOK'
    BY <1>4 DEF RefusedOK, Copied
  <2>. QED BY <2>1, <2>2, <2>3
<1>5. CASE CopyFrame \/ CopyDone
  <2>1. r.pc = "copy" /\ r'.pc \in {"copy", "okSeq"} /\ r.copied
    BY <1>5 DEF CopyFrame, CopyDone, TypeOK, ReaderType, CallType, ReaderInv, CopyOK
  <2>. QED BY <1>1, <1>2, <1>4, <2>1 DEF Copied, StillLive
<1>6. CASE SettleSeq
  <2>1. r.pc \in {"okSeq", "noDataSeq"} /\ r'.pc \in {"settleChunks", "retry"}
        /\ (r.pc = "okSeq" => r.copied) /\ (r.pc = "noDataSeq" => ~r.copied)
    BY <1>6 DEF SettleSeq, TypeOK, ReaderType, CallType, ReaderInv, CopyOK
  <2>2. CASE r'.pc = "retry"
    BY <2>2 DEF PlacedOK, GapsOK, RefusedOK, OkIsOnTime, ZerosAreGaps, Copied
  <2>3. CASE r.pc = "okSeq" /\ r'.pc = "settleChunks"
    BY <1>1, <1>2, <1>4, <2>1, <2>3 DEF Copied, StillLive
  <2>4. CASE r.pc = "noDataSeq" /\ r'.pc = "settleChunks"
    BY <1>1, <1>2, <1>3, <2>1, <2>4 DEF TimeInv, PlacedOK, GapsOK, RefusedOK, OkIsOnTime, ZerosAreGaps, Copied
  <2>. QED BY <2>1, <2>2, <2>3, <2>4
<1>7. CASE SettleChunks
  <2>1. /\ r.pc = "settleChunks"
        /\ r'.pc = IF file.chunksReserved > r.oldest + C THEN "retry"
                   ELSE IF r.copied THEN "settleFrames" ELSE "nodata"
    BY <1>7 DEF SettleChunks, TypeOK, ReaderType, CallType
  <2>2. r'.pc # "retry" => Live
    BY <2>1, CallFacts DEF Live
  <2>3. CASE r'.pc = "retry"
    BY <2>3 DEF PlacedOK, GapsOK, RefusedOK, OkIsOnTime, ZerosAreGaps, Copied
  <2>4. CASE r'.pc = "settleFrames"
    BY <1>1, <1>4, <2>1, <2>2, <2>4 DEF Copied, StillLive
  <2>5. CASE r'.pc = "nodata"
    BY <1>1, <1>2, <1>3, <2>1, <2>2, <2>5 DEF TimeInv, PlacedOK, GapsOK, RefusedOK, OkIsOnTime, ZerosAreGaps, Copied
  <2>. QED BY <2>1, <2>3, <2>4, <2>5
<1>8. CASE SettleFrames
  <2>1. /\ r.pc = "settleFrames" /\ r'.pc \in {"ok", "retry"} /\ out' = out /\ r.copied
        /\ r'.pc = "ok" => Fresh
    BY <1>8 DEF SettleFrames, Fresh, TypeOK, ReaderType, CallType, ReaderInv, CopyOK
  <2>2. /\ Len(out) = r.window /\ WindowExact /\ r.first <= r.end /\ Zeros \in Nat
    BY <2>1 DEF ReaderInv, CopyOK
  <2>3. /\ EndsOnTime
        /\ \A i \in Int : r.end - r.window <= i /\ i < r.first /\ Own(i) => AfterUnderrun(i)
    BY <2>1 DEF TimeInv, PlacedOK, GapsOK, Copied, StillLive
  <2>4. r.first \in Nat /\ r.end \in Nat /\ r.window \in Nat
    BY CallFacts
  <2>5. ASSUME Fresh, NEW k \in 1 .. r.window, out[k] = Blank, Own(Wanted(k))
        PROVE  AfterUnderrun(Wanted(k))
    <3>1. CASE k <= Zeros
      <4>1. Wanted(k) \in Int /\ r.end - r.window <= Wanted(k) /\ Wanted(k) < r.first
        BY <2>2, <2>4, <3>1 DEF Wanted, Zeros
      <4>. QED BY <2>3, <2>5, <4>1
    <3>2. CASE ~(k <= Zeros)
      <4>1. out[k] = [frame |-> Wanted(k), epoch |-> r.epoch]
        BY <2>2, <2>5, <3>2 DEF WindowExact
      <4>2. Wanted(k) >= 0
        BY <2>2, <2>4, <3>2 DEF Wanted, Zeros
      <4>. QED BY <2>5, <4>1, <4>2 DEF Blank
    <3>. QED BY <3>1, <3>2
  <2>6. Fresh => \A k \in 1 .. r.window :
          out[k] = Blank /\ Committed(Wanted(k), r.epoch) => AfterUnderrun(Wanted(k))
    BY <2>5 DEF Own
  <2>7. r'.pc = "ok" => ZerosAreGaps'
    BY <1>1, <2>1, <2>6 DEF ZerosAreGaps, Wanted, Committed, FramesOf, AfterUnderrun, Underrun
  <2>8. ZerosAreGaps'
    BY <2>7 DEF ZerosAreGaps
  <2>. QED BY <1>2, <2>1, <2>3, <2>8 DEF PlacedOK, GapsOK, RefusedOK, OkIsOnTime, Copied
<1>. QED BY <1>5, <1>6, <1>7, <1>8

\* A window that is returned for a play time ends with the frame that plays
\* then, its zeros stand for frames the epoch never had or for those before
\* an underrun, and the newest frames are refused only where they are of
\* another epoch or reach back past what is kept (Reader::read, pcm_tap.h:270).
THEOREM WindowsAreTrue == Spec => []WindowIsTrue
<1>1. Init => TimeInv
  <2>. SUFFICES ASSUME Init PROVE TimeInv
    OBVIOUS
  <2>1. r.pc = "idle" /\ chunks = {}
    BY DEF Init, NewReader
  <2>. QED BY <2>1 DEF TimeInv, ChunksInOrder, PlacedOK, GapsOK, RefusedOK, OkIsOnTime, ZerosAreGaps, Copied
<1>2. IInv /\ IInv' /\ TimeInv /\ [Next]_vars => TimeInv'
  <2>. SUFFICES ASSUME IInv, IInv', TimeInv, [Next]_vars PROVE TimeInv'
    OBVIOUS
  <2>0. TypeOK /\ TypeOK' /\ WriterInv /\ ReaderInv
    BY DEF IInv
  <2>1. CASE WriterNext
    BY <2>0, <2>1, TimeWriter
  <2>2. CASE ReaderStep \/ ReaderCall \/ Return
    <3>1. chunks' = chunks
      BY <2>2 DEF ReaderStep, ReaderCall, LoadSeq, LoadEpoch, LoadRate, LoadWritten,
         ReadNewest, SeekTarget, PlaceEnd, WalkBack, WalkDone, FillZeros, CopyFrame,
         CopyDone, SettleSeq, SettleChunks, SettleFrames, Return, writerUnchanged
    <3>2. ChunksInOrder'
      BY <3>1 DEF TimeInv, ChunksInOrder
    <3>3. PlacedOK' /\ GapsOK' /\ RefusedOK'
      BY <2>0, <2>2, TimeLoads, TimeNewest, TimeTarget, TimePlace, TimeWalk, TimeWalkDone,
         TimeFill, TimeSettles DEF ReaderStep
    <3>. QED BY <3>2, <3>3 DEF TimeInv
  <2>3. CASE UNCHANGED vars
    <3>1. ChunksInOrder'
      BY <2>3 DEF vars, TimeInv, ChunksInOrder
    <3>2. UNCHANGED <<file, chunks, r, out>>
      BY <2>3 DEF vars
    <3>3. /\ (Live' <=> Live) /\ (EndsOnTime' <=> EndsOnTime) /\ Lo' = Lo /\ Start' = Start
          /\ \A i : (Own(i)' <=> Own(i)) /\ (AfterUnderrun(i)' <=> AfterUnderrun(i))
      BY <3>2, SameCall
    <3>4. PlacedOK'
      BY <3>2, <3>3 DEF TimeInv, PlacedOK, OkIsOnTime, Copied, StillLive
    <3>5. ZerosAreGaps'
      BY <3>2 DEF TimeInv, GapsOK, ZerosAreGaps, Wanted, Committed, FramesOf, AfterUnderrun, Underrun
    <3>6. GapsOK'
      BY <3>2, <3>3, <3>5 DEF TimeInv, GapsOK, Copied, StillLive
    <3>7. RefusedOK'
      BY <3>2, <3>3 DEF TimeInv, RefusedOK, Refused
    <3>. QED BY <3>1, <3>4, <3>6, <3>7 DEF TimeInv
  <2>. QED BY <2>1, <2>2, <2>3 DEF Next
<1>3. IInv /\ TimeInv => WindowIsTrue
  <2>. SUFFICES ASSUME IInv, TimeInv PROVE WindowIsTrue
    OBVIOUS
  <2>1. OkIsOnTime /\ ZerosAreGaps
    BY DEF TimeInv, PlacedOK, GapsOK
  <2>2. NoDataIsTrue
    BY DEF IInv, WriterInv, HistoryOK, TimeInv, RefusedOK, Refused, NoDataIsTrue
  <2>. QED BY <2>1, <2>2 DEF WindowIsTrue
<1>. QED BY <1>1, <1>2, <1>3, Invariance, PTL DEF Spec
=============================================================================
