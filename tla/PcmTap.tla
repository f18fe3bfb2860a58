------------------------------- MODULE PcmTap -------------------------------
(***************************************************************************)
(* The PCM tap: a ring of samples and chunk records in a file that one     *)
(* writer (the playback thread of sendspin_player) and one reader (the     *)
(* milkdrop_renderer, another process) map without locks.                  *)
(*                                                                         *)
(*   sendspin_player/src/pcm_tap_writer.h  Writer                          *)
(*   sendspin_player/src/pcm_tap.h         Header, ChunkRecord, Reader     *)
(*                                                                         *)
(* Every shared load and store is a step of its own, so the two processes  *)
(* interleave between them.  A memcpy of plain bytes is a phase: while it  *)
(* lasts, a reader may see any mixture of the old and the new bytes, and   *)
(* a writer killed in it leaves such a mixture behind.                     *)
(*                                                                         *)
(* Time is counted in frame periods: longer_than(us, frames, rate) is      *)
(* then us > frames and the rounding of `lag` is exact.  A sample rate is  *)
(* a label, that of its stream; 0 is "no stream".                          *)
(***************************************************************************)
EXTENDS Integers, FiniteSets, Sequences

CONSTANTS
  F,            \* capacity_frames of the ring
  C,            \* chunk_capacity of the ring
  Streams,      \* stream ids (with their rates) the sink commits under
  Lengths,      \* frames per commit; more than F is the oversize case
  Gaps,         \* jitter of play times: 0, negative, or an underrun
  Windows,      \* how many frames a reader asks for
  MaxFrame,     \* bound: the absolute frame index the writer stops at
  MaxChunk,     \* bound: the chunk index the writer stops at
  MaxEpoch,     \* bound: the epochs the writer goes through
  MaxKills      \* bound: how often the writer's process is killed

ASSUME RingAssumption == F \in Nat \ {0} /\ C \in Nat \ {0}
ASSUME StreamAssumption == Streams \subseteq Nat \ {0}
ASSUME LengthAssumption == Lengths \subseteq Nat /\ Gaps \subseteq Int
ASSUME WindowAssumption == Windows \subseteq Nat \ {0}
ASSUME BoundAssumption == {MaxFrame, MaxChunk, MaxEpoch, MaxKills} \subseteq Nat

VARIABLES
  file,     \* the Header: magic, seq, epoch, rate and the four counters
  records,  \* ChunkRecord[C]
  samples,  \* the frames of the ring, each known by its index and epoch
  w,        \* the writer's thread: where it is and its private copies
  r,        \* the reader's thread: where it is and its locals
  out,      \* the frames the reader's call has produced so far
  clock,    \* play time of the last frame handed to the sink
  kills,    \* how often the writer was killed
  chunks    \* history: every chunk record the writer completed

vars == <<file, records, samples, w, r, out, clock, kills, chunks>>
ring == <<file, records, samples>>

-----------------------------------------------------------------------------
(* Data.                                                                   *)

Rec == [start : Nat, tEnd : Int, frames : Nat, epoch : Nat]
NoRec == [start |-> 0, tEnd |-> 0, frames |-> 0, epoch |-> 0]

(* A frame of the ring or of a reader's buffer: the frame-th of the file's *)
(* history, written in `epoch`.  Epoch 0 is no frame at all.               *)
Frame == [frame : Int, epoch : Nat]
Blank == [frame |-> -1, epoch |-> 0]     \* a zero sample
Torn  == [frame |-> -2, epoch |-> 0]     \* bytes of two writes

Slot(i) == i % F
Place(n) == n % C

Larger(a, b) == IF a > b THEN a ELSE b
Smaller(a, b) == IF a < b THEN a ELSE b

(* What a copy of a 24-byte record may hold while another memcpy writes it *)
Mixed(old, new) ==
  [start : {old.start, new.start}, tEnd : {old.tEnd, new.tEnd},
   frames : {old.frames, new.frames}, epoch : {old.epoch, new.epoch}]

(* The record and the frames the commit in progress writes.                *)
NewRec == [start |-> w.frames, tEnd |-> clock, frames |-> w.len, epoch |-> w.epoch]
NewFrames == w.frames .. (w.frames + w.len - 1)
NewSlots == {Slot(i) : i \in NewFrames}

(* The values a reader's memcpy of record n may give it.                   *)
Seen(n) ==
  IF w.pc = "copying" /\ Place(n) = Place(w.chunks)
  THEN Mixed(records[Place(n)], NewRec)
  ELSE {records[Place(n)]}

ZeroHeader ==
  [magic |-> FALSE, seq |-> 0, epoch |-> 0, rate |-> 0, framesReserved |-> 0,
   framesWritten |-> 0, chunksReserved |-> 0, chunksWritten |-> 0]

NewWriter ==
  [pc |-> "dead", seq |-> 0, epoch |-> 0, frames |-> 0, chunks |-> 0,
   stream |-> 0, len |-> 0]

NewReader ==
  [pc |-> "idle", latest |-> FALSE, t |-> 0, window |-> 0, s1 |-> 0,
   epoch |-> 0, rate |-> 0, written |-> 0, oldest |-> 0, n |-> 0,
   best |-> NoRec, prev |-> NoRec, hasPrev |-> FALSE, low |-> NoRec,
   bounded |-> FALSE, end |-> 0, first |-> 0, copied |-> FALSE]

(* The file exists, of the right size and all zero: ftruncate made it.     *)
Init ==
  /\ file = ZeroHeader
  /\ records = [k \in 0 .. C - 1 |-> NoRec]
  /\ samples = [k \in 0 .. F - 1 |-> Blank]
  /\ w = NewWriter
  /\ r = NewReader
  /\ out = << >>
  /\ clock = 0
  /\ kills = 0
  /\ chunks = {}

-----------------------------------------------------------------------------
(* The writer.  `Goto` moves its thread; the ring is the shared file.      *)

Goto(pc) == [w EXCEPT !.pc = pc]

readerUnchanged == UNCHANGED <<r, out>>
historyUnchanged == UNCHANGED <<clock, kills, chunks>>

(* Writer::open, init() of a file that holds no ring yet: magic goes to 0  *)
(* first and to MAGIC last, so a reader never maps a half-made header.     *)
OpenFresh ==
  /\ w.pc = "dead" /\ ~file.magic
  /\ w' = [NewWriter EXCEPT !.pc = "zeroing"]
  /\ UNCHANGED ring /\ readerUnchanged /\ historyUnchanged

ZeroFile ==
  /\ w.pc = "zeroing"
  /\ file' = ZeroHeader
  /\ records' = [k \in 0 .. C - 1 |-> NoRec]
  /\ samples' = [k \in 0 .. F - 1 |-> Blank]
  /\ w' = Goto("magic")
  /\ readerUnchanged /\ historyUnchanged

StoreMagic ==
  /\ w.pc = "magic"
  /\ file' = [file EXCEPT !.magic = TRUE]
  /\ w' = Goto("idle")
  /\ UNCHANGED <<records, samples>> /\ readerUnchanged /\ historyUnchanged

(* Writer::open of a ring an earlier writer left: go on from whichever     *)
(* counter is further, then end_stream().                                  *)
OpenReuse ==
  /\ w.pc = "dead" /\ file.magic
  /\ file.epoch < MaxEpoch
  /\ w' = [NewWriter EXCEPT
             !.pc = "formatOdd",
             !.seq = file.seq - (file.seq % 2),
             !.epoch = file.epoch,
             !.frames = Larger(file.framesReserved, file.framesWritten),
             !.chunks = Larger(file.chunksReserved, file.chunksWritten)]
  /\ UNCHANGED ring /\ readerUnchanged /\ historyUnchanged

(* Writer::set_format, one store at a time: the seqlock over the format.   *)
FormatOdd ==
  /\ w.pc = "formatOdd"
  /\ file' = [file EXCEPT !.seq = w.seq + 1]
  /\ w' = [w EXCEPT !.pc = "formatEpoch", !.seq = w.seq + 1]
  /\ UNCHANGED <<records, samples>> /\ readerUnchanged /\ historyUnchanged

FormatEpoch ==
  /\ w.pc = "formatEpoch"
  /\ file' = [file EXCEPT !.epoch = w.epoch + 1]
  /\ w' = [w EXCEPT !.pc = "formatRate", !.epoch = w.epoch + 1]
  /\ UNCHANGED <<records, samples>> /\ readerUnchanged /\ historyUnchanged

FormatRate ==
  /\ w.pc = "formatRate"
  /\ file' = [file EXCEPT !.rate = w.stream]
  /\ w' = Goto("formatEven")
  /\ UNCHANGED <<records, samples>> /\ readerUnchanged /\ historyUnchanged

FormatEven ==
  /\ w.pc = "formatEven"
  /\ file' = [file EXCEPT !.seq = w.seq + 1]
  /\ w' = [w EXCEPT !.pc = IF w.len = 0 THEN "idle" ELSE "reserveFrames",
                    !.seq = w.seq + 1]
  /\ UNCHANGED <<records, samples>> /\ readerUnchanged /\ historyUnchanged

(* Writer::end_stream: a new epoch with no stream.                         *)
EndStream ==
  /\ w.pc = "idle" /\ w.epoch < MaxEpoch
  /\ w' = [w EXCEPT !.pc = "formatOdd", !.stream = 0, !.len = 0]
  /\ UNCHANGED ring /\ readerUnchanged /\ historyUnchanged

(* Mutants: a change of stream alone starts no epoch; an oversize chunk is *)
(* not cut to the ring.                                                    *)
CommitKeepsEpoch(stream, len, gap) ==
  /\ w.pc = "idle"
  /\ w.frames + Smaller(len, F) <= MaxFrame /\ w.chunks < MaxChunk
  /\ w.stream = 0 => w.epoch < MaxEpoch
  /\ clock' = clock + len + gap
  /\ w' = [w EXCEPT !.stream = stream, !.len = Smaller(len, F),
                    !.pc = IF w.stream = 0 THEN "formatOdd"
                           ELSE IF len = 0 THEN "idle" ELSE "reserveFrames"]
  /\ UNCHANGED <<ring, kills, chunks>> /\ readerUnchanged

CommitOversize(stream, len, gap) ==
  /\ w.pc = "idle"
  /\ w.frames + len <= MaxFrame /\ w.chunks < MaxChunk
  /\ stream # w.stream => w.epoch < MaxEpoch
  /\ clock' = clock + len + gap
  /\ w' = [w EXCEPT !.stream = stream, !.len = len,
                    !.pc = IF stream # w.stream THEN "formatOdd"
                           ELSE IF len = 0 THEN "idle" ELSE "reserveFrames"]
  /\ UNCHANGED <<ring, kills, chunks>> /\ readerUnchanged

(* Writer::commit entered with `len` frames of `stream` that follow the    *)
(* last ones after `gap`; an oversize chunk keeps its newest F frames.     *)
Commit(stream, len, gap) ==
  /\ w.pc = "idle"
  /\ w.frames + Smaller(len, F) <= MaxFrame /\ w.chunks < MaxChunk
  /\ stream # w.stream => w.epoch < MaxEpoch
  /\ clock' = clock + len + gap
  /\ w' = [w EXCEPT !.stream = stream, !.len = Smaller(len, F),
                    !.pc = IF stream # w.stream THEN "formatOdd"
                           ELSE IF len = 0 THEN "idle" ELSE "reserveFrames"]
  /\ UNCHANGED <<ring, kills, chunks>> /\ readerUnchanged

ReserveFrames ==
  /\ w.pc = "reserveFrames"
  /\ file' = [file EXCEPT !.framesReserved = w.frames + w.len]
  /\ w' = Goto("reserveChunks")
  /\ UNCHANGED <<records, samples>> /\ readerUnchanged /\ historyUnchanged

ReserveChunks ==
  /\ w.pc = "reserveChunks"
  /\ file' = [file EXCEPT !.chunksReserved = w.chunks + 1]
  /\ w' = Goto("copy")
  /\ UNCHANGED <<records, samples>> /\ readerUnchanged /\ historyUnchanged

(* The two memcpys of the samples and that of the record, which nothing    *)
(* orders among themselves: from here to CopyEnd they are in progress.     *)
CopyBegin ==
  /\ w.pc = "copy"
  /\ samples' = [k \in 0 .. F - 1 |-> IF k \in NewSlots THEN Torn ELSE samples[k]]
  /\ w' = Goto("copying")
  /\ UNCHANGED <<file, records>> /\ readerUnchanged /\ historyUnchanged

CopyEnd ==
  /\ w.pc = "copying"
  /\ samples' = [k \in 0 .. F - 1 |->
                   IF k \in NewSlots
                   THEN [frame |-> CHOOSE i \in NewFrames : Slot(i) = k,
                         epoch |-> w.epoch]
                   ELSE samples[k]]
  /\ records' = [records EXCEPT ![Place(w.chunks)] = NewRec]
  /\ chunks' = chunks \cup {[n |-> w.chunks, rec |-> NewRec, stream |-> w.stream]}
  /\ w' = [w EXCEPT !.pc = "publishFrames",
                    !.frames = w.frames + w.len, !.chunks = w.chunks + 1]
  /\ UNCHANGED <<file, clock, kills>> /\ readerUnchanged

PublishFrames ==
  /\ w.pc = "publishFrames"
  /\ file' = [file EXCEPT !.framesWritten = w.frames]
  /\ w' = Goto("publishChunks")
  /\ UNCHANGED <<records, samples>> /\ readerUnchanged /\ historyUnchanged

PublishChunks ==
  /\ w.pc = "publishChunks"
  /\ file' = [file EXCEPT !.chunksWritten = w.chunks]
  /\ w' = [w EXCEPT !.pc = "idle", !.len = 0]
  /\ UNCHANGED <<records, samples>> /\ readerUnchanged /\ historyUnchanged

(* The writer's process is killed; the file outlives it.  A record it was  *)
(* copying keeps some mixture of its old and its new fields.               *)
Kill ==
  /\ w.pc # "dead" /\ kills < MaxKills
  /\ kills' = kills + 1
  /\ w' = NewWriter
  /\ IF w.pc = "copying"
     THEN \E m \in Mixed(records[Place(w.chunks)], NewRec) :
            records' = [records EXCEPT ![Place(w.chunks)] = m]
     ELSE records' = records
  /\ UNCHANGED <<file, samples, clock, chunks>> /\ readerUnchanged

WriterNext ==
  \/ OpenFresh \/ ZeroFile \/ StoreMagic \/ OpenReuse
  \/ FormatOdd \/ FormatEpoch \/ FormatRate \/ FormatEven \/ EndStream
  \/ \E s \in Streams, len \in Lengths, gap \in Gaps : Commit(s, len, gap)
  \/ ReserveFrames \/ ReserveChunks \/ CopyBegin \/ CopyEnd
  \/ PublishFrames \/ PublishChunks
  \/ Kill

-----------------------------------------------------------------------------
(* The reader: one call of Reader::read at a time, on a mapping it keeps   *)
(* across writers.  The verdicts are "ok", "nodata" and "retry".           *)

writerUnchanged == UNCHANGED <<file, records, samples, w, clock, kills, chunks>>
Verdicts == {"ok", "nodata", "retry"}

Lo == IF r.written > C THEN r.written - C ELSE 0

(* read_latest and read_ending_at are called; the first load is of seq,    *)
(* and an odd value is a format change in progress.                        *)
LoadSeq(latest, t, window) ==
  /\ r.pc = "idle" /\ file.magic
  /\ r' = [NewReader EXCEPT !.latest = latest, !.t = t, !.window = window,
             !.s1 = file.seq,
             !.pc = IF window > F THEN "nodata"
                    ELSE IF file.seq % 2 = 1 THEN "retry" ELSE "loadEpoch"]
  /\ out' = << >>
  /\ writerUnchanged

LoadEpoch ==
  /\ r.pc = "loadEpoch"
  /\ r' = [r EXCEPT !.pc = "loadRate", !.epoch = file.epoch]
  /\ UNCHANGED out /\ writerUnchanged

LoadRate ==
  /\ r.pc = "loadRate"
  /\ r' = [r EXCEPT !.pc = "loadWritten", !.rate = file.rate]
  /\ UNCHANGED out /\ writerUnchanged

LoadWritten ==
  /\ r.pc = "loadWritten"
  /\ r' = [r EXCEPT !.written = file.chunksWritten,
             !.pc = IF r.rate = 0 \/ file.chunksWritten = 0
                    THEN "nodata" ELSE "newest",
             !.oldest = file.chunksWritten - 1, !.n = file.chunksWritten - 1]
  /\ UNCHANGED out /\ writerUnchanged

(* Mutant: a verdict of no data that is not settled.                       *)
ReadNewestUnsettled ==
  /\ r.pc = "newest"
  /\ \E best \in Seen(r.n) :
       r' = [r EXCEPT !.best = best,
               !.t = IF r.latest THEN best.tEnd ELSE r.t,
               !.pc = IF best.epoch # r.epoch \/ (~r.latest /\ best.tEnd < r.t)
                      THEN "nodata"
                      ELSE IF r.latest THEN "place" ELSE "target"]
  /\ UNCHANGED out /\ writerUnchanged

(* Copy the newest record; it must be of this epoch and not end too early. *)
ReadNewest ==
  /\ r.pc = "newest"
  /\ \E best \in Seen(r.n) :
       r' = [r EXCEPT !.best = best,
               !.t = IF r.latest THEN best.tEnd ELSE r.t,
               !.pc = IF best.epoch # r.epoch \/ (~r.latest /\ best.tEnd < r.t)
                      THEN "noDataSeq"
                      ELSE IF r.latest THEN "place" ELSE "target"]
  /\ UNCHANGED out /\ writerUnchanged

(* older(): copy record n - 1, unless n is the first of the file (bounded) *)
(* or the first one kept.  The reads of the two loops share it.            *)
Older(prev) ==
  [r EXCEPT !.oldest = Smaller(r.oldest, r.n - 1), !.prev = prev,
            !.bounded = prev.epoch # r.epoch]

(* The loop that looks for the oldest record ending at or after t.         *)
SeekTarget ==
  /\ r.pc = "target"
  /\ \/ /\ r.n = Lo
        /\ r' = [r EXCEPT !.pc = "place", !.hasPrev = FALSE, !.bounded = (Lo = 0)]
     \/ /\ r.n # Lo
        /\ \E prev \in Seen(r.n - 1) :
             LET found == Older(prev) IN
             r' = IF found.bounded \/ prev.tEnd < r.t
                  THEN [found EXCEPT !.pc = "place", !.hasPrev = ~found.bounded]
                  ELSE [found EXCEPT !.best = prev, !.n = r.n - 1, !.hasPrev = TRUE]
  /\ UNCHANGED out /\ writerUnchanged

(* Which frame plays at t: one of best's, or prev's last when t falls      *)
(* between the two by no more than a chunk.                                *)
PlaceEnd ==
  /\ r.pc = "place"
  /\ LET lag == r.best.tEnd - r.t
         inBest == lag < r.best.frames
         base == IF inBest THEN r.best ELSE r.prev
     IN r' = IF ~inBest /\ (~r.hasPrev \/ r.t - r.prev.tEnd > r.best.frames)
             THEN [r EXCEPT !.pc = "noDataSeq"]
             ELSE [r EXCEPT !.pc = "walk", !.best = base, !.low = base,
                     !.n = IF inBest THEN r.n ELSE r.n - 1,
                     !.end = IF inBest THEN r.best.start + r.best.frames - lag
                             ELSE r.best.start,
                     !.bounded = FALSE]
  /\ UNCHANGED out /\ writerUnchanged

Start == IF r.end > r.window THEN r.end - r.window ELSE 0

(* The loop that walks back until the window is covered, or the epoch or   *)
(* a gap of over a chunk starts.                                           *)
WalkBack ==
  /\ r.pc = "walk" /\ r.low.start > Start /\ r.n # Lo
  /\ \E prev \in Seen(r.n - 1) :
       LET found == Older(prev) IN
       r' = IF found.bounded
            THEN [found EXCEPT !.pc = "window"]
            ELSE IF r.low.tEnd - prev.tEnd > 2 * r.low.frames
            THEN [found EXCEPT !.pc = "window", !.bounded = TRUE]
            ELSE [found EXCEPT !.low = prev, !.n = r.n - 1]
  /\ UNCHANGED out /\ writerUnchanged

WalkDone ==
  /\ r.pc = "walk" /\ (r.low.start <= Start \/ r.n = Lo)
  /\ r' = [r EXCEPT !.pc = "window",
             !.bounded = IF r.low.start <= Start THEN r.bounded ELSE Lo = 0]
  /\ UNCHANGED out /\ writerUnchanged

(* The zeros before the first frame, unless the window reaches back past   *)
(* the oldest record kept.                                                 *)
FillZeros ==
  /\ r.pc = "window"
  /\ LET first == Smaller(Larger(r.low.start, Start), r.end) IN
     IF r.low.start > Start /\ ~r.bounded
     THEN r' = [r EXCEPT !.pc = "noDataSeq"] /\ out' = out
     ELSE /\ r' = [r EXCEPT !.pc = "copy", !.first = first, !.copied = TRUE]
          /\ out' = [i \in 1 .. r.window - (r.end - first) |-> Blank]
  /\ writerUnchanged

(* copy_frames, a frame at a time: each is what its slot holds just then.  *)
CopyFrame ==
  /\ r.pc = "copy" /\ Len(out) < r.window
  /\ out' = Append(out, samples[Slot(r.end - r.window + Len(out))])
  /\ UNCHANGED r /\ writerUnchanged

CopyDone ==
  /\ r.pc = "copy" /\ Len(out) = r.window
  /\ r' = [r EXCEPT !.pc = "okSeq"]
  /\ UNCHANGED out /\ writerUnchanged

(* Mutants: settled() without one of its checks.                           *)
SettleSeqUnchecked ==
  /\ r.pc \in {"okSeq", "noDataSeq"}
  /\ r' = [r EXCEPT !.pc = "settleChunks"]
  /\ UNCHANGED out /\ writerUnchanged

SettleFramesUnchecked ==
  /\ r.pc = "settleFrames"
  /\ r' = [r EXCEPT !.pc = "ok"]
  /\ UNCHANGED out /\ writerUnchanged

(* settled(): seq, then chunks_reserved, then (copied) frames_reserved.    *)
SettleSeq ==
  /\ r.pc \in {"okSeq", "noDataSeq"}
  /\ r' = [r EXCEPT !.pc = IF file.seq = r.s1 THEN "settleChunks" ELSE "retry"]
  /\ UNCHANGED out /\ writerUnchanged

SettleChunks ==
  /\ r.pc = "settleChunks"
  /\ r' = [r EXCEPT !.pc = IF file.chunksReserved > r.oldest + C THEN "retry"
                           ELSE IF r.copied THEN "settleFrames" ELSE "nodata"]
  /\ UNCHANGED out /\ writerUnchanged

SettleFrames ==
  /\ r.pc = "settleFrames"
  /\ r' = [r EXCEPT !.pc = IF file.framesReserved <= r.first + F THEN "ok" ELSE "retry"]
  /\ UNCHANGED out /\ writerUnchanged

(* The call has returned and its caller is done with `out`.                *)
Return ==
  /\ r.pc \in Verdicts
  /\ r' = NewReader
  /\ out' = << >>
  /\ writerUnchanged

(* The steps of a call in progress: no environment input among them.       *)
ReaderStep ==
  \/ LoadEpoch \/ LoadRate \/ LoadWritten \/ ReadNewest \/ SeekTarget
  \/ PlaceEnd \/ WalkBack \/ WalkDone \/ FillZeros \/ CopyFrame \/ CopyDone
  \/ SettleSeq \/ SettleChunks \/ SettleFrames

ReaderCall ==
  \E latest \in BOOLEAN, window \in Windows :
    \E t \in (IF latest THEN {0} ELSE 0 .. clock) : LoadSeq(latest, t, window)

Next == WriterNext \/ ReaderStep \/ ReaderCall \/ Return

Spec == Init /\ [][Next]_vars

-----------------------------------------------------------------------------
(* What the tap promises its reader.                                       *)

(* Every variable keeps its type; the reader's program counter, too.       *)
ReaderPcs == Verdicts \cup
  {"idle", "loadEpoch", "loadRate", "loadWritten", "newest", "target", "place",
   "walk", "window", "copy", "okSeq", "noDataSeq", "settleChunks", "settleFrames"}

WriterPcs ==
  {"dead", "zeroing", "magic", "idle", "formatOdd", "formatEpoch", "formatRate",
   "formatEven", "reserveFrames", "reserveChunks", "copy", "copying",
   "publishFrames", "publishChunks"}

Stream0 == Streams \cup {0}

FileType ==
  file \in [magic : BOOLEAN, seq : Nat, epoch : Nat, rate : Stream0,
           framesReserved : Nat, framesWritten : Nat,
           chunksReserved : Nat, chunksWritten : Nat]

RingType ==
  /\ records \in [0 .. C - 1 -> Rec]
  /\ samples \in [0 .. F - 1 -> Frame]

WriterType ==
  w \in [pc : WriterPcs, seq : Nat, epoch : Nat, frames : Nat, chunks : Nat,
        stream : Stream0, len : 0 .. F]

CallType ==
  r \in [pc : ReaderPcs, latest : BOOLEAN, t : Int, window : Nat, s1 : Nat,
        epoch : Nat, rate : Stream0, written : Nat, oldest : Int, n : Int,
        best : Rec, prev : Rec, hasPrev : BOOLEAN, low : Rec,
        bounded : BOOLEAN, end : Nat, first : Nat, copied : BOOLEAN]

ReaderType == CallType /\ out \in Seq(Frame)

HistoryType ==
  /\ clock \in Int /\ kills \in Nat
  /\ chunks \subseteq [n : Nat, rec : Rec, stream : Streams]

TypeOK == FileType /\ RingType /\ WriterType /\ ReaderType /\ HistoryType

(* The frames of the history: those of the chunks an epoch committed.      *)
FramesOf(c) == c.rec.start .. (c.rec.start + c.rec.frames - 1)
Committed(i, e) == \E c \in chunks : c.rec.epoch = e /\ i \in FramesOf(c)

(* The i-th frame of a returned window, by its index in the file's history *)
Wanted(i) == r.end - r.window + i - 1

(* A read that returns Ok holds only whole frames of one epoch, each the   *)
(* one asked for: none torn by a commit that raced the copy, none of a     *)
(* lap later, none of another stream or of a killed writer.                *)
OkIsExact ==
  r.pc = "ok" =>
    /\ Len(out) = r.window
    /\ \A i \in 1 .. r.window :
         \/ out[i] = Blank
         \/ /\ out[i] = [frame |-> Wanted(i), epoch |-> r.epoch]
            /\ Committed(Wanted(i), r.epoch)

(* A zero in a window stands for a frame the epoch never had, or for one   *)
(* before an underrun: two neighbouring chunks whose play times are        *)
(* further apart than two chunks.                                          *)
Underrun(c, d) ==
  c.n + 1 = d.n /\ d.rec.tEnd - c.rec.tEnd > 2 * d.rec.frames

AfterUnderrun(i) ==
  \E c, d \in chunks :
    /\ Underrun(c, d) /\ d.rec.epoch = r.epoch
    /\ i < d.rec.start /\ d.rec.start < r.end

ZerosAreGaps ==
  r.pc = "ok" =>
    \A i \in 1 .. r.window :
      (out[i] = Blank /\ Committed(Wanted(i), r.epoch)) => AfterUnderrun(Wanted(i))

(* When the frame at index i of chunk c plays.                             *)
PlayTime(c, i) == c.rec.tEnd - (c.rec.start + c.rec.frames - 1 - i)

(* A read for time t ends with the frame that plays at t or, where no      *)
(* frame plays just then, with the last before a pause of at most a chunk. *)
EndsOnTime ==
  \E c \in chunks :
    /\ c.rec.epoch = r.epoch /\ r.end - 1 \in FramesOf(c)
    /\ \/ PlayTime(c, r.end - 1) = r.t
       \/ \E d \in chunks :
            /\ d.n = c.n + 1 /\ d.rec.epoch = c.rec.epoch
            /\ r.end = d.rec.start
            /\ c.rec.tEnd < r.t /\ r.t - c.rec.tEnd <= d.rec.frames
            /\ r.t <= PlayTime(d, d.rec.start) - 1

OkIsOnTime == r.pc = "ok" => EndsOnTime

(* The rate reported with a window is that of the stream the frames are of *)
(* (the seqlock), although epoch and rate are loaded one after the other.  *)
OkFormatMatches ==
  r.pc = "ok" => \A c \in chunks : c.rec.epoch = r.epoch => c.stream = r.rate

(* NoData, too, rests on whole records: the newest `window` frames are     *)
(* refused only when the newest chunk is of another epoch, or the window   *)
(* reaches back past the oldest record kept.  This is about read_latest(); *)
(* read_ending_at() says NoData for a time that is not kept, or not played *)
(* yet, and only what it says with Ok is held to be true.                  *)
NoDataIsTrue ==
  (r.pc = "nodata" /\ r.latest /\ r.rate # 0 /\ r.written # 0 /\ r.window <= F) =>
    \/ ~ \E c \in chunks : c.n = r.written - 1 /\ c.rec.epoch = r.epoch
    \/ \E c \in chunks :
         /\ c.n = Lo /\ Lo > 0 /\ c.rec.epoch = r.epoch
         /\ c.rec.start > Start

(* A window by play time ends with the frame that plays then, its zeros    *)
(* stand for gaps only (Reader::read_ending_at), and NoData is said of the *)
(* newest frames (Reader::read_latest) only when they are not kept.        *)
WindowIsTrue == OkIsOnTime /\ ZerosAreGaps /\ NoDataIsTrue

(* An epoch is one stream's unbroken run of frames, whichever writers it   *)
(* took: no chunk of another stream, and none over a hole a kill left.     *)
EpochIsOneRun ==
  \A c, d \in chunks :
    (c.rec.epoch = d.rec.epoch /\ c.n < d.n) =>
      /\ c.stream = d.stream
      /\ \E b \in chunks : /\ b.n + 1 = d.n /\ b.rec.epoch = d.rec.epoch
                            /\ b.rec.start + b.rec.frames = d.rec.start

(* The reserved counters never go back, not even across a kill in the      *)
(* middle of a commit: they are all a reader has to tell what is stale.    *)
ReservedNeverFalls ==
  [][/\ file'.framesReserved >= file.framesReserved
     /\ file'.chunksReserved >= file.chunksReserved
     /\ file'.epoch >= file.epoch]_vars
=============================================================================
