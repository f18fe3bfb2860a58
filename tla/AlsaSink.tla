------------------------------ MODULE AlsaSink ------------------------------
(***************************************************************************)
(* The audio sink of sendspin_player (alsa_pipe_sink.cpp) and the command  *)
(* handlers of main.cpp that drive it.  Three threads run over it:         *)
(*                                                                         *)
(*   main   the main loop: stream starts and ends, the pcm_tap command and *)
(*          shutdown (configure, clear, set_pcm_tap, stop)                 *)
(*   net    the library's role thread: write()                             *)
(*   play   the playback thread: playback_loop()                           *)
(*                                                                         *)
(* A critical section of ring_mtx_ is one step, and so is every access to  *)
(* an atomic; a wait on ring_cv_ ends when its predicate holds or its time *)
(* is up, so a lost notification is only a longer wait.  Bytes are known   *)
(* by their serial number, the how-many-th write() put into the ring.      *)
(***************************************************************************)
EXTENDS Integers, Sequences, FiniteSets

CONSTANTS
  Cap,         \* RING_CAPACITY, in bytes
  B,           \* bytes_per_frame_; it need not divide Cap
  Period,      \* period_frames_
  HwFrames,    \* buffer_frames_, the device's own queue
  Lengths,     \* bytes a write() offers
  Faults,      \* what the device may do: "xrun", "suspend", "gone", fail to "open"
  MaxBytes,    \* bound: bytes put into the ring
  MaxStarts,   \* bound: stream starts
  MaxClears,   \* bound: stream ends
  MaxTaps      \* bound: times the tap is turned on

SizeAssumption == {Cap, B, Period, HwFrames} \subseteq Nat \ {0} /\ Cap >= B
InputAssumption == Lengths \subseteq Nat /\ Faults \subseteq {"xrun", "suspend", "gone", "open"}
BoundAssumption == {MaxBytes, MaxStarts, MaxClears, MaxTaps} \subseteq Nat

VARIABLES
  ring,     \* ring_, ring_head_, ring_tail_, ring_used_
  flags,    \* the atomics running_, flush_requested_, tap_busy_ and tap_
  pcm,      \* the ALSA device: its state and the frames it has queued
  main,     \* the main thread, with its pcm_tap locals
  net,      \* the role thread, inside or outside of write()
  play,     \* the playback thread's position and locals
  thread,   \* playback_thread_: "none", "live", or "exited" and joinable
  owner,    \* tap_owner_: the Writer the main thread owns, 0 for none
  taps,     \* per Writer: the stream it is in, its oldest byte in it
  done      \* history: bytes put, the cuts made by clears, and the bounds

vars == <<ring, flags, pcm, main, net, play, thread, owner, taps, done>>

-----------------------------------------------------------------------------
Smaller(a, b) == IF a < b THEN a ELSE b
Whole(n) == n - (n % B)          \* rounded down to whole frames
Junk == -1

EmptyRing == [ring EXCEPT !.head = 0, !.tail = 0, !.used = 0]
NoPlay == [pc |-> "none", buf |-> << >>, tapping |-> FALSE, offset |-> 0,
           writer |-> 0, err |-> "none", then |-> "loop", stream |-> 0]

Init ==
  /\ ring = [bytes |-> [i \in 0 .. Cap - 1 |-> Junk], head |-> 0, tail |-> 0, used |-> 0]
  /\ flags = [running |-> FALSE, flush |-> FALSE, busy |-> FALSE, tap |-> 0]
  /\ pcm = [state |-> "closed", queue |-> << >>]
  /\ main = [pc |-> "idle", new |-> 0, prev |-> 0, then |-> "idle"]
  /\ net = [pc |-> "idle", left |-> 0, expired |-> FALSE]
  /\ play = NoPlay
  /\ thread = "none"
  /\ owner = 0
  /\ taps = [t \in 1 .. MaxTaps |-> [stream |-> 0, oldest |-> Junk]]
  /\ done = [put |-> 0, cut |-> 0, asked |-> 0, floor |-> 0,
             starts |-> 0, clears |-> 0, taps |-> 0]

-----------------------------------------------------------------------------
(* The main thread.                                                        *)

mainOnly == UNCHANGED <<net, play>>
At(pc) == main.pc = pc
Move(pc) == main' = [main EXCEPT !.pc = pc]

(* on_stream_start: configure(), which begins with stop().                 *)
StreamStart ==
  /\ At("idle") /\ done.starts < MaxStarts
  /\ main' = [main EXCEPT !.pc = "stop", !.then = "setup"]
  /\ done' = [done EXCEPT !.starts = @ + 1]
  /\ mainOnly /\ UNCHANGED <<ring, flags, pcm, thread, owner, taps>>

(* The main loop is over: client.stop() joins the role thread, and only    *)
(* then ~AlsaPipeSink() stops the sink.                                    *)
Shutdown ==
  /\ At("idle") /\ net.pc = "idle"
  /\ main' = [main EXCEPT !.pc = "stop", !.then = "destroyed"]
  /\ mainOnly /\ UNCHANGED <<ring, flags, pcm, thread, owner, taps, done>>

(* Mutant: joins only when it was this call that stopped the thread.       *)
StopFlagOnlyJoins ==
  /\ At("stop")
  /\ flags' = [flags EXCEPT !.running = FALSE]
  /\ Move(IF flags.running THEN "drop" ELSE "close")
  /\ mainOnly /\ UNCHANGED <<ring, pcm, thread, owner, taps, done>>

(* stop(): the exchange decides only about the drop; ...                   *)
StopFlag ==
  /\ At("stop")
  /\ flags' = [flags EXCEPT !.running = FALSE]
  /\ Move(IF flags.running THEN "drop" ELSE "join")
  /\ mainOnly /\ UNCHANGED <<ring, pcm, thread, owner, taps, done>>

(* Mutant: leaves the device as it is.                                     *)
StopDropNot ==
  /\ At("drop")
  /\ Move("join")
  /\ mainOnly /\ UNCHANGED <<ring, flags, pcm, thread, owner, taps, done>>

StopDrop ==
  /\ At("drop")
  /\ pcm' = IF pcm.state \in {"closed", "gone"} THEN pcm
            ELSE [state |-> "setup", queue |-> << >>]
  /\ Move("join")
  /\ mainOnly /\ UNCHANGED <<ring, flags, thread, owner, taps, done>>

(* ... the join is unconditional: the thread may have stopped by itself.   *)
Join ==
  /\ At("join") /\ thread # "live"
  /\ thread' = "none"
  /\ Move("close")
  /\ mainOnly /\ UNCHANGED <<ring, flags, pcm, owner, taps, done>>

(* close_alsa() and the locked reset of the ring.  Destroying a joinable   *)
(* std::thread ends the process.                                           *)
Close ==
  /\ At("close")
  /\ pcm' = [state |-> "closed", queue |-> << >>]
  /\ ring' = EmptyRing
  /\ Move(IF main.then = "destroyed" /\ thread # "none" THEN "terminated" ELSE main.then)
  /\ mainOnly /\ UNCHANGED <<flags, thread, owner, taps, done>>

(* The rest of configure(), up to open_alsa(), which may fail.             *)
Setup ==
  /\ At("setup")
  /\ ring' = EmptyRing
  /\ flags' = [flags EXCEPT !.flush = FALSE]
  /\ done' = [done EXCEPT !.floor = done.put]
  /\ \/ pcm' = [state |-> "ready", queue |-> << >>] /\ Move("running")
     \/ "open" \in Faults /\ pcm' = pcm /\ Move("idle")
  /\ mainOnly /\ UNCHANGED <<thread, owner, taps>>

SetRunning ==
  /\ At("running")
  /\ flags' = [flags EXCEPT !.running = TRUE]
  /\ Move("spawn")
  /\ mainOnly /\ UNCHANGED <<ring, pcm, thread, owner, taps, done>>

(* playback_thread_ = std::thread(...): assigning over a joinable thread   *)
(* ends the process.                                                       *)
Spawn ==
  /\ At("spawn")
  /\ IF thread # "none"
     THEN Move("terminated") /\ UNCHANGED <<thread, play>>
     ELSE /\ Move("idle")
          /\ thread' = "live"
          /\ play' = [NoPlay EXCEPT !.pc = "newStream", !.stream = play.stream]
  /\ UNCHANGED <<net, ring, flags, pcm, owner, taps, done>>

(* on_stream_end: clear() empties the ring, ...                            *)
StreamEnd ==
  /\ At("idle") /\ done.clears < MaxClears
  /\ Move("clearRing")
  /\ done' = [done EXCEPT !.clears = @ + 1]
  /\ mainOnly /\ UNCHANGED <<ring, flags, pcm, thread, owner, taps>>

ClearRing ==
  /\ At("clearRing")
  /\ ring' = EmptyRing
  /\ done' = [done EXCEPT !.cut = done.put]
  /\ Move("clearFlag")
  /\ mainOnly /\ UNCHANGED <<flags, pcm, thread, owner, taps>>

(* ... and then asks the playback thread to drop what the device holds.    *)
ClearFlag ==
  /\ At("clearFlag")
  /\ flags' = [flags EXCEPT !.flush = TRUE]
  /\ done' = [done EXCEPT !.asked = done.cut]
  /\ Move("idle")
  /\ mainOnly /\ UNCHANGED <<ring, pcm, thread, owner, taps>>

(* handle_pcm_tap: on only when there is no tap yet; off always.           *)
TapOn ==
  /\ At("idle") /\ owner = 0 /\ done.taps < MaxTaps
  /\ main' = [main EXCEPT !.pc = "swap", !.new = done.taps + 1]
  /\ done' = [done EXCEPT !.taps = @ + 1]
  /\ mainOnly /\ UNCHANGED <<ring, flags, pcm, thread, owner, taps>>

TapOff ==
  /\ At("idle") /\ owner # 0
  /\ main' = [main EXCEPT !.pc = "swap", !.new = 0]
  /\ mainOnly /\ UNCHANGED <<ring, flags, pcm, thread, owner, taps, done>>

(* set_pcm_tap: swap the pointer, wait out a use in flight, and only then  *)
(* end the old Writer's stream and free it.                                *)
TapSwap ==
  /\ At("swap")
  /\ flags' = [flags EXCEPT !.tap = main.new]
  /\ main' = [main EXCEPT !.pc = "await", !.prev = flags.tap]
  /\ mainOnly /\ UNCHANGED <<ring, pcm, thread, owner, taps, done>>

(* Mutant: does not wait for the playback thread.                          *)
TapAwaitNot ==
  /\ At("await")
  /\ Move("endPrev")
  /\ mainOnly /\ UNCHANGED <<ring, flags, pcm, thread, owner, taps, done>>

TapAwait ==
  /\ At("await") /\ ~flags.busy
  /\ Move("endPrev")
  /\ mainOnly /\ UNCHANGED <<ring, flags, pcm, thread, owner, taps, done>>

TapEndPrev ==
  /\ At("endPrev")
  /\ taps' = [t \in DOMAIN taps |->
                IF t = main.prev THEN [stream |-> 0, oldest |-> Junk] ELSE taps[t]]
  /\ owner' = main.new
  /\ main' = [main EXCEPT !.pc = "idle", !.new = 0, !.prev = 0]
  /\ mainOnly /\ UNCHANGED <<ring, flags, pcm, thread, done>>

MainCall == StreamStart \/ StreamEnd \/ TapOn \/ TapOff \/ Shutdown
MainStep ==
  \/ StopFlag \/ StopDrop \/ Join \/ Close \/ Setup \/ SetRunning \/ Spawn
  \/ ClearRing \/ ClearFlag \/ TapSwap \/ TapAwait \/ TapEndPrev

-----------------------------------------------------------------------------
(* The role thread: write() of `len` bytes; a sub-frame tail is refused.   *)

netOnly == UNCHANGED <<flags, pcm, main, play, thread, owner, taps>>

Write(len, expired) ==
  /\ net.pc = "idle" /\ flags.running /\ main.then # "destroyed"
  /\ done.put + Whole(len) <= MaxBytes
  /\ net' = [pc |-> "fill", left |-> len, expired |-> expired]
  /\ UNCHANGED <<ring, done>> /\ netOnly

Put(chunk) ==
  /\ ring' = [bytes |-> [i \in 0 .. Cap - 1 |->
                           LET k == (i - ring.head) % Cap
                           IN IF k < chunk THEN done.put + k ELSE ring.bytes[i]],
              head |-> (ring.head + chunk) % Cap,
              tail |-> ring.tail, used |-> ring.used + chunk]
  /\ done' = [done EXCEPT !.put = @ + chunk]

(* One hold of the lock: as many whole frames as fit, then done or wait.   *)
Fill ==
  /\ net.pc = "fill"
  /\ LET whole == IF flags.running THEN Whole(net.left) ELSE 0
         chunk == Whole(Smaller(whole, Cap - ring.used))
     IN /\ Put(chunk)
        /\ net' = [net EXCEPT !.left = @ - chunk,
                     !.pc = IF whole = chunk \/ net.expired THEN "idle" ELSE "wait"]
  /\ netOnly

(* The wait for room ends with room, with the sink stopped, or too late.   *)
WaitEnds ==
  /\ net.pc = "wait"
  /\ \/ /\ Cap - ring.used >= B \/ ~flags.running
        /\ net' = [net EXCEPT !.pc = "fill"]
     \/ net' = [net EXCEPT !.pc = "fill", !.expired = TRUE]
  /\ UNCHANGED <<ring, done>> /\ netOnly

NetStep == Fill \/ WaitEnds
NetCall == \E len \in Lengths, expired \in BOOLEAN : Write(len, expired)

-----------------------------------------------------------------------------
(* The playback thread.                                                    *)

playOnly == UNCHANGED <<main, net, owner>>
PlayAt(pc) == play.pc = pc
Goto(pc) == play' = [play EXCEPT !.pc = pc]
Frames == Len(play.buf) \div B

(* tap_new_stream(): a new thread or a flush begins a new tap stream.      *)
NewStream ==
  /\ PlayAt("newStream")
  /\ play' = [play EXCEPT !.pc = "hint", !.then = "begin", !.stream = @ + 1]
  /\ playOnly /\ UNCHANGED <<ring, flags, pcm, thread, taps, done>>

(* with_tap(): the relaxed load is only a hint and may be out of date.     *)
Hint ==
  /\ PlayAt("hint")
  /\ \/ Goto("loop") /\ UNCHANGED flags
     \/ /\ done.taps > 0
        /\ flags' = [flags EXCEPT !.busy = TRUE]
        /\ Goto("load")
  /\ playOnly /\ UNCHANGED <<ring, pcm, thread, taps, done>>

LoadTap ==
  /\ PlayAt("load")
  /\ play' = [play EXCEPT !.pc = IF flags.tap = 0 THEN "unbusy" ELSE "using",
                          !.writer = flags.tap]
  /\ playOnly /\ UNCHANGED <<ring, flags, pcm, thread, taps, done>>

(* begin_stream() or commit() of the frames the device took, on the Writer *)
UseTap ==
  /\ PlayAt("using")
  /\ taps' = [taps EXCEPT ![play.writer] =
                [stream |-> play.stream,
                 oldest |-> IF play.then = "begin" THEN Junk
                            ELSE IF @.stream = play.stream /\ @.oldest # Junk THEN @.oldest
                            ELSE play.buf[1]]]
  /\ Goto("unbusy")
  /\ playOnly /\ UNCHANGED <<ring, flags, pcm, thread, done>>

Unbusy ==
  /\ PlayAt("unbusy")
  /\ flags' = [flags EXCEPT !.busy = FALSE]
  /\ play' = [play EXCEPT !.pc = "loop", !.writer = 0]
  /\ playOnly /\ UNCHANGED <<ring, pcm, thread, taps, done>>

(* The top of the loop: running_, then the flush request.                  *)
LoopTop ==
  /\ PlayAt("loop")
  /\ IF flags.running
     THEN play' = [play EXCEPT !.pc = "flush", !.buf = << >>, !.offset = 0,
                               !.tapping = FALSE, !.err = "none"] /\ UNCHANGED thread
     ELSE play' = [NoPlay EXCEPT !.stream = play.stream] /\ thread' = "exited"
  /\ playOnly /\ UNCHANGED <<ring, flags, pcm, taps, done>>

(* Mutant: never looks at the request.                                     *)
TakeNoFlush ==
  /\ PlayAt("flush")
  /\ Goto("read")
  /\ playOnly /\ UNCHANGED <<ring, flags, pcm, thread, taps, done>>

TakeFlush ==
  /\ PlayAt("flush")
  /\ flags' = [flags EXCEPT !.flush = FALSE]
  /\ Goto(IF flags.flush THEN "dropQueue" ELSE "read")
  /\ done' = IF flags.flush THEN [done EXCEPT !.floor = done.asked] ELSE done
  /\ playOnly /\ UNCHANGED <<ring, pcm, thread, taps>>

(* Mutant: takes the request without dropping what the device holds.       *)
FlushDropNothing ==
  /\ PlayAt("dropQueue")
  /\ Goto("prepare")
  /\ playOnly /\ UNCHANGED <<ring, flags, pcm, thread, taps, done>>

FlushDrop ==
  /\ PlayAt("dropQueue")
  /\ pcm' = IF pcm.state = "gone" THEN pcm ELSE [state |-> "setup", queue |-> << >>]
  /\ Goto("prepare")
  /\ playOnly /\ UNCHANGED <<ring, flags, thread, taps, done>>

FlushPrepare ==
  /\ PlayAt("prepare")
  /\ pcm' = IF pcm.state = "setup" THEN [pcm EXCEPT !.state = "ready"] ELSE pcm
  /\ Goto("newStream")
  /\ playOnly /\ UNCHANGED <<ring, flags, thread, taps, done>>

(* No whole frame in the ring: sleep for at most 5 ms.                     *)
Sleep ==
  /\ PlayAt("read") /\ ring.used < B
  /\ Goto("asleep")
  /\ playOnly /\ UNCHANGED <<ring, flags, pcm, thread, taps, done>>

WakeForNothing ==
  /\ PlayAt("asleep") /\ (~flags.running \/ flags.flush \/ ring.used < B)
  /\ Goto("loop")
  /\ playOnly /\ UNCHANGED <<ring, flags, pcm, thread, taps, done>>

(* One period, or the whole frames there are, out of the ring.  Whether it *)
(* is also kept for the tap is the same relaxed hint as in with_tap().     *)
Take ==
  /\ \/ PlayAt("read") /\ ring.used >= B
     \/ PlayAt("asleep") /\ flags.running /\ ~flags.flush /\ ring.used >= B
  /\ LET n == Whole(Smaller(ring.used, Period * B)) IN
     /\ ring' = [ring EXCEPT !.tail = (@ + n) % Cap, !.used = @ - n]
     /\ \E hint \in (IF done.taps > 0 THEN BOOLEAN ELSE {FALSE}) :
          play' = [play EXCEPT !.pc = "write", !.offset = 0, !.tapping = hint,
                     !.buf = [i \in 1 .. n |-> ring.bytes[(ring.tail + i - 1) % Cap]]]
  /\ playOnly /\ UNCHANGED <<flags, pcm, thread, taps, done>>

(* The loop over snd_pcm_writei, and what it leaves to the tap.            *)
NextWrite ==
  /\ PlayAt("write")
  /\ IF play.offset < Frames /\ flags.running
     THEN Goto("writei")
     ELSE play' = [play EXCEPT !.then = "commit",
                               !.pc = IF play.offset > 0 /\ play.tapping
                                      THEN "hint" ELSE "loop"]
  /\ playOnly /\ UNCHANGED <<ring, flags, pcm, thread, taps, done>>

(* It blocks while the queue is full and takes any part of what fits.      *)
WriteAccepted ==
  /\ PlayAt("writei") /\ pcm.state = "ready"
  /\ \E k \in 1 .. Smaller(HwFrames - Len(pcm.queue), Frames - play.offset) :
       /\ pcm' = [pcm EXCEPT !.queue = @ \o
                    [i \in 1 .. k |-> play.buf[(play.offset + i - 1) * B + 1]]]
       /\ play' = [play EXCEPT !.pc = "write", !.offset = @ + k]
  /\ playOnly /\ UNCHANGED <<ring, flags, thread, taps, done>>

WriteFails ==
  /\ PlayAt("writei") /\ pcm.state # "ready"
  /\ play' = [play EXCEPT !.pc = "failed", !.err = pcm.state]
  /\ playOnly /\ UNCHANGED <<ring, flags, pcm, thread, taps, done>>

(* running_ is looked at once for an error, ...                            *)
LookAgain ==
  /\ PlayAt("failed")
  /\ Goto(IF flags.running THEN "recover" ELSE "write")
  /\ playOnly /\ UNCHANGED <<ring, flags, pcm, thread, taps, done>>

(* ... and not again in recover_xrun().  An underrun is over with          *)
(* snd_pcm_prepare().  So is what snd_pcm_resume() refuses because the     *)
(* device is not suspended any more: stop() dropped what it held.          *)
Recover ==
  /\ PlayAt("recover") /\ play.err \in {"xrun", "suspended"} /\ pcm.state # "gone"
  /\ play.err = "suspended" => pcm.state # "suspended"
  /\ pcm' = [state |-> "ready", queue |-> << >>]
  /\ Goto("write")
  /\ playOnly /\ UNCHANGED <<ring, flags, thread, taps, done>>

(* While it is suspended, snd_pcm_resume() may say EAGAIN for ever.  It    *)
(* resumes where it was, or it can't resume and is prepared.               *)
Resume ==
  /\ PlayAt("recover") /\ play.err = "suspended" /\ pcm.state = "suspended"
  /\ \E queue \in {pcm.queue, << >>} : pcm' = [state |-> "ready", queue |-> queue]
  /\ Goto("write")
  /\ playOnly /\ UNCHANGED <<ring, flags, thread, taps, done>>

(* Any other error stops the sink.                                         *)
GiveUp ==
  /\ PlayAt("recover") /\ (play.err \notin {"xrun", "suspended"} \/ pcm.state = "gone")
  /\ flags' = [flags EXCEPT !.running = FALSE]
  /\ Goto("write")
  /\ playOnly /\ UNCHANGED <<ring, pcm, thread, taps, done>>

PlayStep ==
  \/ NewStream \/ Hint \/ LoadTap \/ UseTap \/ Unbusy \/ LoopTop \/ TakeFlush
  \/ FlushDrop \/ FlushPrepare \/ Sleep \/ WakeForNothing \/ Take
  \/ NextWrite \/ WriteAccepted \/ WriteFails \/ LookAgain \/ Recover \/ GiveUp

-----------------------------------------------------------------------------
(* The device: it plays its queue, runs dry, is suspended with the system, *)
(* or is unplugged.                                                        *)

deviceOnly == UNCHANGED <<ring, flags, main, net, play, thread, owner, taps, done>>

DevicePlays ==
  /\ pcm.state = "ready" /\ pcm.queue # << >>
  /\ pcm' = [queue |-> Tail(pcm.queue),
             state |-> IF Len(pcm.queue) = 1 /\ "xrun" \in Faults THEN "xrun" ELSE "ready"]
  /\ deviceOnly

DeviceSuspends ==
  /\ "suspend" \in Faults /\ pcm.state \in {"ready", "xrun"}
  /\ pcm' = [pcm EXCEPT !.state = "suspended"]
  /\ deviceOnly

DeviceGone ==
  /\ "gone" \in Faults /\ pcm.state \notin {"closed", "gone"}
  /\ pcm' = [state |-> "gone", queue |-> << >>]
  /\ deviceOnly

Next ==
  \/ MainCall \/ MainStep \/ NetCall \/ NetStep \/ PlayStep \/ Resume
  \/ DevicePlays \/ DeviceSuspends \/ DeviceGone

Spec == Init /\ [][Next]_vars

(* Every thread that is inside a call keeps running, timed waits end and a *)
(* device that is there plays; that a suspended one resumes is nothing     *)
(* that is counted on.  The playback thread raises tap_busy_ for one       *)
(* period's copy in twenty milliseconds, so a main thread that looks again *)
(* and again finds it down.                                                *)
FairSpec ==
  /\ Spec
  /\ WF_vars(MainStep) /\ SF_vars(TapAwait)
  /\ WF_vars(NetStep) /\ WF_vars(PlayStep) /\ WF_vars(DevicePlays)

-----------------------------------------------------------------------------
(* What the sink promises.                                                 *)

MainPcs == {"idle", "stop", "drop", "join", "close", "setup", "running", "spawn",
            "clearRing", "clearFlag", "swap", "await", "endPrev", "destroyed",
            "terminated"}
PlayPcs == {"none", "newStream", "hint", "load", "using", "unbusy", "loop", "flush",
            "dropQueue", "prepare", "read", "asleep", "write", "writei", "failed", "recover"}
PcmStates == {"closed", "ready", "setup", "xrun", "suspended", "gone"}
Taps == 0 .. MaxTaps

Rings == [bytes : [0 .. Cap - 1 -> Int], head : 0 .. Cap - 1, tail : 0 .. Cap - 1, used : 0 .. Cap]
Atomics == [running : BOOLEAN, flush : BOOLEAN, busy : BOOLEAN, tap : Taps]
Devices == [state : PcmStates, queue : Seq(Int)]
Mains == [pc : MainPcs, new : Taps, prev : Taps, then : {"idle", "setup", "destroyed"}]
Nets == [pc : {"idle", "fill", "wait"}, left : Nat, expired : BOOLEAN]
Plays == [pc : PlayPcs, buf : Seq(Int), tapping : BOOLEAN, offset : Nat, writer : Taps,
          err : {"none"} \cup PcmStates, then : {"loop", "begin", "commit"}, stream : Nat]
Streams == [stream : Nat, oldest : Int]

(* Every variable keeps its type, and the ring's indices stay inside it.   *)
TypeOK ==
  /\ ring \in Rings /\ flags \in Atomics /\ pcm \in Devices
  /\ main \in Mains /\ net \in Nets /\ play \in Plays
  /\ thread \in {"none", "live", "exited"} /\ owner \in Taps
  /\ taps \in [1 .. MaxTaps -> Streams]

(* The playback thread never uses a Writer that was freed, and never one   *)
(* whose stream the main thread is ending at that moment: the handshake of *)
(* tap_ and tap_busy_ excludes the two.                                    *)
WriterIsLive ==
  play.pc = "using" =>
    /\ play.writer \in {owner, main.new}
    /\ ~(main.pc = "endPrev" /\ main.prev = play.writer)

(* playback_thread_ is neither overwritten nor destroyed while joinable,   *)
(* not even when the thread stopped itself on a hard write error.          *)
NeverTerminates == main.pc # "terminated"

(* The device is open for as long as a playback thread runs over it.       *)
PcmOutlivesThread == thread = "live" => pcm.state # "closed"

(* What is in the ring is what was put there last, in order, and begins    *)
(* with a whole frame, wherever the ring wraps around.                     *)
RingIsFifo ==
  /\ \A i \in 0 .. ring.used - 1 :
       ring.bytes[(ring.tail + i) % Cap] = done.put - ring.used + i
  /\ (done.put - ring.used) % B = 0 /\ ring.used % B = 0

(* A period is whole frames that were put one after the other, and what    *)
(* the device has queued is in order.                                      *)
PeriodIsWhole ==
  /\ \A i \in DOMAIN play.buf : play.buf[i] = play.buf[1] + i - 1
  /\ play.buf # << >> => play.buf[1] % B = 0 /\ Len(play.buf) % B = 0
  /\ \A i, j \in DOMAIN pcm.queue : i < j => pcm.queue[i] < pcm.queue[j]

(* Once the playback thread has taken a flush request and dropped the      *)
(* queue, nothing of what clear() cut off plays or waits to be played.     *)
FlushedIsGone ==
  play.pc \notin {"dropQueue"} /\ main.pc # "setup" =>
    /\ \A i \in DOMAIN pcm.queue : pcm.queue[i] >= done.floor
    /\ \A i \in DOMAIN play.buf : play.buf[i] >= done.floor

(* A tap stream holds no sample from before the flush it began with.       *)
TapStreamIsFresh ==
  \A t \in DOMAIN taps :
    (taps[t].stream = play.stream /\ taps[t].oldest # Junk
       /\ play.pc \notin {"dropQueue", "prepare", "newStream"} /\ thread = "live") =>
      taps[t].oldest >= done.floor

(* The three promises: bytes come out as they went in, whole frames and    *)
(* none of what was cut off (alsa_pipe_sink.cpp:307 and 377); the tap is   *)
(* used by its owner's leave, with samples of its stream only (:272);      *)
(* stop() leaves no thread that ends the process or lost its device (:165).*)
BytesInOrder == RingIsFifo /\ PeriodIsWhole /\ FlushedIsGone
TapIsOwned == WriterIsLive /\ TapStreamIsFresh
StopIsClean == NeverTerminates /\ PcmOutlivesThread

(* What FairSpec brings to an end.  stop() always joins: wherever the      *)
(* playback thread is - asleep, blocked in a full device, recovering from  *)
(* an underrun - it sees running_ fall.  The one place where it does not   *)
(* look, the loop over snd_pcm_resume(), is left because stop() drops the  *)
(* suspended device first, which no resume can follow.  set_pcm_tap() and  *)
(* write() return; a flush request is taken, or the stream it was for is   *)
(* over; only for a suspended device it waits.                             *)
MainBlocked == main.pc \notin {"idle", "destroyed"}
NetBlocked == net.pc # "idle"
FlushWaits == flags.flush /\ thread = "live" /\ pcm.state # "suspended"
=============================================================================
