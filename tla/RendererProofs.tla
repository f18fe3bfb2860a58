--------------------------- MODULE RendererProofs ---------------------------
(***************************************************************************)
(* Four parts of the renderer that depend on the order of events outside   *)
(* of it.  StderrSync: who is to blame for a failure that the driver       *)
(* reports through a pipe.  The invariant follows the last marker through  *)
(* the pipe (SyncOK): once it is seen the pipe is empty, so that what is   *)
(* counted from the first sync of a warm-up on was said in that warm-up,   *)
(* and with the last sync all of it is counted (CountsOK).                 *)
(*                                                                         *)
(* FramePacer: when a frame is shown whose sound was chosen for a time.    *)
(*                                                                         *)
(* CostLadder: the cost guard, however frames in flight, switches, hangs,  *)
(* takes and thermal drops interleave.  LadderIsSound is not inductive:    *)
(* whether a frame that is in flight is one of the level and the preset    *)
(* that are measured shows only when it flips.  InFlightOK says what       *)
(* settling is for: for as long as such a frame is in flight, enough       *)
(* frames are still to be left out.                                        *)
(*                                                                         *)
(* Scanout: what the display scans out stays locked and keeps its          *)
(* framebuffer, provided that flips land while release() waits for them.   *)
(* (With flips that come later main.cpp:118 does not hold: run             *)
(* ScanoutStale.)  The properties speak of KMS, the code acts on what it   *)
(* believes: front_, pending_ and scanout_left_.  FlipsAgree says how      *)
(* belief and display belong together in each stage of a flip;             *)
(* HoldersDiffer says that no buffer has two holders, so that unlocking    *)
(* one unlocks no other.                                                   *)
(***************************************************************************)
EXTENDS StderrSync, FramePacer, CostLadder, Scanout, FiniteSetTheorems, WellFoundedInduction, TLAPS

-----------------------------------------------------------------------------
Lines == [kind : Kinds \union {"sync"}, n : Nat]

Captures == [on : BOOLEAN, thread : BOOLEAN, sent : Nat, seen : Nat, ra : Nat, findings : Nat]

Mains ==
  [pc : {"frames", "mark", "wait", "base", "preload", "draw", "check", "over", "join", "stopped"},
   step : {"none", "before", "preload", "draw"}, before : BOOLEAN, after : BOOLEAN,
   every : BOOLEAN, base : Nat, verdict : {"none", "other", "register_allocate"}, done : Nat]

StderrTypesOK ==
  /\ pipe \in Seq(Lines) /\ Len(pipe) <= Cap /\ tail \in Kinds \union {"none"}
  /\ capture \in Captures /\ capture.findings <= MaxFindings
  /\ main \in Mains /\ reported \in Nat /\ reported <= MaxReported
  /\ wrote \in BOOLEAN /\ lines \in Nat

\* The step of a warm-up, and the markers it has sent.
InWarmUp == main.pc \notin {"frames", "join", "stopped"}
Marks ==
  IF ~InWarmUp THEN 0
  ELSE CASE main.step = "before" -> IF At("mark") THEN 0 ELSE 1
         [] main.step = "preload" -> IF At("mark") THEN 1 ELSE 2
         [] OTHER -> IF At("mark") THEN 2 ELSE 3

StepOK ==
  /\ main.pc \in {"base", "preload"} => main.step = "before"
  /\ At("draw") => main.step = "preload"
  /\ main.pc \in {"check", "over"} => main.step \in {"preload", "draw"}
  /\ main.pc \in {"mark", "wait"} => main.step \in {"before", "preload", "draw"}
  /\ main.done <= MaxWarmups /\ (InWarmUp => main.done < MaxWarmups)
  /\ capture.sent <= main.done * 3 + Marks
  /\ InWarmUp /\ ~At("over") => main.verdict = "none"

\* No marker is behind another in number: the one that is waited for is the
\* last line of the pipe, and once it is seen the pipe is empty.
SyncOK ==
  /\ capture.on => capture.thread /\ ~(main.pc \in {"join", "stopped"})
  /\ capture.thread => capture.seen <= capture.sent
  /\ capture.seen <= All
  /\ \A i \in 1 .. Len(pipe) : pipe[i].kind = "sync" => pipe[i].n <= capture.sent
  /\ At("wait") => \A i \in 1 .. Len(pipe) :
                      pipe[i].kind = "sync" /\ pipe[i].n = capture.sent => i = Len(pipe)
  /\ main.pc \in {"wait", "base", "check"} => tail = "none"
  /\ At("wait") /\ capture.on /\ capture.seen >= capture.sent => pipe = << >>
  /\ At("base") /\ capture.on /\ main.before => pipe = << >>
  /\ At("check") /\ capture.on /\ main.after => pipe = << >>

\* Where stderr was left alone nothing comes.
OffOK ==
  ~capture.on /\ ~(main.pc \in {"join", "stopped"}) =>
    /\ pipe = << >> /\ tail = "none" /\ ~capture.thread
    /\ capture.ra = 0 /\ main.base = 0 /\ ~wrote

\* From the first sync of a warm-up to its end, what is counted since base is
\* what the driver said in this warm-up, as far as the syncs completed.
Attributing ==
  \/ main.pc \in {"base", "preload", "draw", "check"}
  \/ main.pc \in {"mark", "wait"} /\ main.step # "before"

NoFailureComes == \A i \in 1 .. Len(pipe) : pipe[i].kind # "ra"

CountsOK ==
  /\ main.base <= capture.ra
  /\ Attributing /\ main.every => main.before
  /\ At("check") /\ main.every => main.after
  /\ (main.pc \in {"mark", "wait"} /\ main.step = "before") \/ At("base") => ~wrote
  /\ Attributing /\ main.before /\ ~wrote =>
       NoFailureComes /\ (~At("base") => capture.ra = main.base)
  /\ Attributing /\ main.every /\ wrote => capture.ra > main.base \/ ~NoFailureComes

SInv == StderrTypesOK /\ StepOK /\ SyncOK /\ OffOK /\ CountsOK /\ BlamedIsGuilty

LEMMA StderrImplies ==
  ASSUME StderrAssumption, SInv PROVE StderrTypeOK
<1>1. main.done \in Nat /\ capture.sent \in Nat /\ capture.seen \in Nat /\ MaxWarmups \in Nat
  BY DEF SInv, StderrTypesOK, Captures, Mains, StderrAssumption
<1>2. Marks \in 0 .. 3 /\ (~InWarmUp => Marks = 0)
  BY DEF Marks
<1>3. capture.sent <= All /\ capture.sent \in 0 .. All
  BY <1>1, <1>2 DEF SInv, StepOK, All
<1>4. capture.seen \in 0 .. All
  BY <1>1 DEF SInv, SyncOK, All
<1>. QED BY <1>3, <1>4 DEF StderrTypeOK, SInv, StderrTypesOK, CountsOK

LEMMA StderrStarts ==
  ASSUME StderrAssumption, StderrInit PROVE SInv
<1>1. PICK on \in BOOLEAN :
    /\ pipe = << >> /\ tail = "none" /\ reported = 0 /\ wrote = FALSE /\ lines = 0
    /\ capture = [on |-> on, thread |-> on, sent |-> 0, seen |-> 0, ra |-> 0, findings |-> 0]
    /\ main = [pc |-> "frames", step |-> "none", before |-> FALSE, after |-> FALSE,
               every |-> TRUE, base |-> 0, verdict |-> "none", done |-> 0]
  BY DEF StderrInit
<1>2. capture \in Captures /\ main \in Mains
  BY <1>1 DEF Captures, Mains
<1>3. StderrTypesOK
  <2>1. wrote \in BOOLEAN
    BY Zenon, <1>1
  <2>2. Len(pipe) = 0 /\ pipe \in Seq(Lines)
    BY <1>1
  <2>. QED BY <1>1, <1>2, <2>1, <2>2 DEF StderrTypesOK, StderrAssumption, Captures
<1>4. StepOK
  BY <1>1 DEF StepOK, InWarmUp, Marks, At, StderrAssumption
<1>5. SyncOK
  BY <1>1 DEF SyncOK, At, All, StderrAssumption
<1>6. OffOK
  BY <1>1 DEF OffOK
<1>7. CountsOK /\ BlamedIsGuilty
  BY <1>1 DEF CountsOK, Attributing, At, BlamedIsGuilty
<1>. QED BY <1>3, <1>4, <1>5, <1>6, <1>7 DEF SInv

-----------------------------------------------------------------------------
(* The steps of the main thread alone.                                     *)

LEMMA StderrReturn ==
  ASSUME StderrAssumption, SInv, Return PROVE SInv'
<1>. USE DEF SInv
<1>1. PICK ok \in {Synced, FALSE} :
       main' = IF main.step = "before"
               THEN [main EXCEPT !.before = ok, !.every = ok, !.pc = "base"]
               ELSE [main EXCEPT !.after = ok, !.every = main.every /\ ok, !.pc = "check"]
  BY DEF Return
<1>2. At("wait") /\ UNCHANGED <<pipe, tail, capture, reported, wrote, lines>>
  BY DEF Return
<1>3. ok \in BOOLEAN /\ (ok => ~capture.on \/ capture.seen >= capture.sent)
  BY DEF Synced
<1>4. main' \in Mains
  <2>1. CASE main.step = "before"
    BY <1>1, <1>3, <2>1 DEF StderrTypesOK, Mains
  <2>2. CASE main.step # "before"
    BY <1>1, <1>3, <2>2 DEF StderrTypesOK, Mains
  <2>. QED BY <2>1, <2>2
<1>5. /\ main'.pc = IF main.step = "before" THEN "base" ELSE "check"
      /\ main'.step = main.step /\ main'.done = main.done /\ main'.base = main.base
      /\ main'.verdict = main.verdict
  BY <1>1 DEF StderrTypesOK, Mains
<1>6. /\ main.step = "before" => main'.before = ok /\ main'.every = ok
      /\ main.step # "before" =>
           main'.before = main.before /\ main'.after = ok /\ main'.every = (main.every /\ ok)
  BY <1>1 DEF StderrTypesOK, Mains
<1>7. StderrTypesOK'
  BY <1>2, <1>4 DEF StderrTypesOK
<1>8. StepOK'
  BY <1>2, <1>5 DEF StepOK, InWarmUp, Marks, At
<1>9. SyncOK'
  BY <1>2, <1>3, <1>5, <1>6 DEF SyncOK, At
<1>10. OffOK'
  BY <1>2, <1>5 DEF OffOK, At
<1>11. CountsOK'
  <2>1. CASE main.step = "before"
    <3>1. main'.before => pipe = << >>
      BY <1>2, <1>3, <1>6, <2>1 DEF SyncOK, OffOK, At
    <3>. QED BY <1>2, <1>5, <1>6, <2>1, <3>1 DEF CountsOK, Attributing, At, NoFailureComes
  <2>2. CASE main.step # "before"
    BY <1>2, <1>3, <1>5, <1>6, <2>2 DEF CountsOK, Attributing, At, NoFailureComes
  <2>. QED BY <2>1, <2>2
<1>12. BlamedIsGuilty'
  BY <1>5 DEF BlamedIsGuilty
<1>. QED BY <1>7, <1>8, <1>9, <1>10, <1>11, <1>12

LEMMA StderrBase ==
  ASSUME StderrAssumption, SInv, Base PROVE SInv'
<1>. USE DEF SInv
<1>1. /\ At("base") /\ main' = [main EXCEPT !.base = capture.ra, !.pc = "preload"]
      /\ UNCHANGED <<pipe, tail, capture, reported, wrote, lines>>
  BY DEF Base
<1>2. capture.ra \in Nat /\ main' \in Mains
  BY <1>1 DEF StderrTypesOK, Mains, Captures
<1>3. /\ main'.pc = "preload" /\ main'.step = main.step /\ main'.done = main.done
      /\ main'.base = capture.ra /\ main'.before = main.before /\ main'.every = main.every
      /\ main'.verdict = main.verdict
  BY <1>1 DEF StderrTypesOK, Mains
<1>4. StderrTypesOK'
  BY <1>1, <1>2 DEF StderrTypesOK
<1>5. StepOK' /\ SyncOK' /\ BlamedIsGuilty'
  BY <1>1, <1>3 DEF StepOK, InWarmUp, Marks, At, SyncOK, BlamedIsGuilty
<1>6. OffOK'
  BY <1>1, <1>3 DEF OffOK, At
<1>7. CountsOK'
  BY <1>1, <1>2, <1>3 DEF CountsOK, Attributing, At, NoFailureComes
<1>. QED BY <1>4, <1>5, <1>6, <1>7

LEMMA StderrSteps ==
  ASSUME StderrAssumption, SInv, Step PROVE SInv'
<1>. USE DEF SInv
<1>1. /\ main.pc \in {"preload", "draw"} /\ main' = [main EXCEPT !.step = main.pc, !.pc = "mark"]
      /\ UNCHANGED <<pipe, tail, capture, reported, wrote, lines>>
  BY DEF Step
<1>2. main' \in Mains
  BY <1>1 DEF StderrTypesOK, Mains
<1>3. /\ main'.pc = "mark" /\ main'.step = main.pc /\ main'.done = main.done
      /\ main'.base = main.base /\ main'.before = main.before /\ main'.every = main.every
      /\ main'.verdict = main.verdict
  BY <1>1 DEF StderrTypesOK, Mains
<1>4. StderrTypesOK'
  BY <1>1, <1>2 DEF StderrTypesOK
<1>5. StepOK' /\ SyncOK' /\ BlamedIsGuilty'
  BY <1>1, <1>3 DEF StepOK, InWarmUp, Marks, At, SyncOK, BlamedIsGuilty
<1>6. OffOK'
  BY <1>1, <1>3 DEF OffOK, At
<1>7. CountsOK'
  BY <1>1, <1>3 DEF CountsOK, Attributing, At, NoFailureComes
<1>. QED BY <1>4, <1>5, <1>6, <1>7

\* A preset is blamed here: what is counted is of this warm-up, and all of it.
LEMMA StderrCheck ==
  ASSUME StderrAssumption, SInv, Check PROVE SInv'
<1>. USE DEF SInv
<1>1. At("check") /\ UNCHANGED <<pipe, tail, capture, reported, wrote, lines>>
  BY DEF Check
<1>2. capture.ra \in Nat /\ main.base \in Nat /\ capture.on \in BOOLEAN
  BY DEF StderrTypesOK, Captures, Mains
<1>3. Failed => wrote
  <2>1. Failed => capture.ra # main.base /\ main.before
    BY DEF Failed
  <2>. QED BY <1>1, <2>1 DEF CountsOK, Attributing, At
<1>4. wrote /\ capture.on /\ main.every => Failed
  <2>1. capture.on /\ main.every => main.before /\ main.after /\ pipe = << >>
    BY <1>1 DEF CountsOK, Attributing, At, SyncOK
  <2>2. capture.on /\ main.every => NoFailureComes
    BY <2>1 DEF NoFailureComes
  <2>3. wrote /\ capture.on /\ main.every => capture.ra > main.base
    BY <1>1, <2>2 DEF CountsOK, Attributing, At
  <2>. QED BY <1>2, <2>1, <2>3 DEF Failed
<1>5. CASE Failed /\ main' = [main EXCEPT !.pc = "over", !.verdict = "register_allocate"]
  <2>1. /\ main' \in Mains /\ main'.pc = "over" /\ main'.step = main.step /\ main'.done = main.done
        /\ main'.base = main.base /\ main'.verdict = "register_allocate"
    BY <1>5 DEF StderrTypesOK, Mains
  <2>2. StderrTypesOK' /\ StepOK'
    BY <1>1, <2>1 DEF StderrTypesOK, StepOK, InWarmUp, Marks, At
  <2>3. SyncOK' /\ OffOK' /\ CountsOK'
    BY <1>1, <2>1 DEF SyncOK, OffOK, CountsOK, Attributing, At
  <2>4. BlamedIsGuilty'
    BY <1>1, <1>3, <1>5, <2>1 DEF BlamedIsGuilty
  <2>. QED BY <2>2, <2>3, <2>4
<1>6. CASE ~Failed /\ main' = [main EXCEPT !.pc = "over", !.base = capture.ra, !.verdict = "other"]
  <2>1. /\ main' \in Mains /\ main'.pc = "over" /\ main'.step = main.step /\ main'.done = main.done
        /\ main'.base = capture.ra /\ main'.verdict = "other" /\ main'.every = main.every
    BY <1>2, <1>6 DEF StderrTypesOK, Mains
  <2>2. StderrTypesOK' /\ StepOK'
    BY <1>1, <2>1 DEF StderrTypesOK, StepOK, InWarmUp, Marks, At
  <2>3. SyncOK' /\ OffOK' /\ CountsOK'
    BY <1>1, <1>2, <2>1 DEF SyncOK, OffOK, CountsOK, Attributing, At
  <2>4. BlamedIsGuilty'
    BY <1>1, <1>4, <1>6, <2>1 DEF BlamedIsGuilty
  <2>. QED BY <2>2, <2>3, <2>4
<1>7. CASE ~Failed /\ main' = [main EXCEPT !.pc = IF main.step = "preload" THEN "draw" ELSE "over",
                                           !.base = capture.ra]
  <2>1. /\ main' \in Mains /\ main'.step = main.step /\ main'.done = main.done
        /\ main'.pc = IF main.step = "preload" THEN "draw" ELSE "over"
        /\ main'.base = capture.ra /\ main'.verdict = main.verdict
        /\ main'.every = main.every /\ main'.before = main.before
    BY <1>2, <1>7 DEF StderrTypesOK, Mains
  <2>2. StderrTypesOK' /\ StepOK'
    BY <1>1, <2>1 DEF StderrTypesOK, StepOK, InWarmUp, Marks, At
  <2>3. SyncOK' /\ OffOK'
    BY <1>1, <2>1 DEF SyncOK, OffOK, At
  <2>4. CountsOK'
    <3>1. ~wrote /\ main.before => NoFailureComes
      BY <1>1 DEF CountsOK, Attributing, At
    <3>2. main.every /\ wrote => ~capture.on
      BY <1>4, <1>7
    <3>3. ~capture.on => ~wrote
      BY <1>1 DEF OffOK, At
    <3>4. main.every => main.before
      BY <1>1 DEF CountsOK, Attributing, At
    <3>5. NoFailureComes' <=> NoFailureComes
      BY <1>1 DEF NoFailureComes
    <3>. QED BY <1>1, <1>2, <2>1, <3>1, <3>2, <3>3, <3>4, <3>5 DEF CountsOK, Attributing, At
  <2>5. BlamedIsGuilty'
    <3>1. main.verdict = "register_allocate" => FALSE
      BY <1>1 DEF StepOK, InWarmUp, At
    <3>. QED BY <1>1, <1>4, <1>7, <2>1, <3>1 DEF BlamedIsGuilty
  <2>. QED BY <2>2, <2>3, <2>4, <2>5
<1>. QED BY <1>5, <1>6, <1>7 DEF Check

LEMMA StderrOver ==
  ASSUME StderrAssumption, SInv, Over \/ Joined PROVE SInv'
<1>. USE DEF SInv
<1>1. UNCHANGED <<pipe, tail, capture, reported, wrote, lines>>
  BY DEF Over, Joined
<1>2. main.done \in Nat /\ main' \in Mains
  <2>1. main \in Mains /\ main.done \in Nat
    BY DEF StderrTypesOK, Mains
  <2>2. CASE Over
    <3>1. main' = [main EXCEPT !.pc = "frames", !.done = main.done + 1] /\ main.done + 1 \in Nat
      BY <2>1, <2>2 DEF Over
    <3>. QED BY <2>1, <3>1 DEF Mains
  <2>3. CASE Joined
    BY <2>1, <2>3 DEF Joined, Goto, Mains
  <2>. QED BY <2>1, <2>2, <2>3
<1>3. CASE Over
  <2>1. /\ main.pc = "over" /\ main'.pc = "frames" /\ main'.done = main.done + 1
        /\ main'.base = main.base
    BY <1>3 DEF Over, StderrTypesOK, Mains, At
  <2>2. StderrTypesOK' /\ BlamedIsGuilty'
    BY <1>1, <1>2, <2>1 DEF StderrTypesOK, BlamedIsGuilty
  <2>3. StepOK'
    <3>1. Marks <= 3 /\ Marks \in Nat /\ Marks' = 0
      BY <2>1 DEF Marks, InWarmUp
    <3>. QED BY <1>1, <1>2, <2>1, <3>1, SMTT(30) DEF StepOK, InWarmUp, At, StderrAssumption, StderrTypesOK, Captures
  <2>4. SyncOK' /\ OffOK' /\ CountsOK'
    BY <1>1, <2>1 DEF SyncOK, OffOK, CountsOK, Attributing, At
  <2>. QED BY <2>2, <2>3, <2>4
<1>4. CASE Joined
  <2>1. /\ main.pc = "join" /\ main'.pc = "stopped" /\ main'.done = main.done
        /\ main'.base = main.base
    BY <1>4 DEF Joined, Goto, StderrTypesOK, Mains, At
  <2>2. StderrTypesOK' /\ BlamedIsGuilty'
    BY <1>1, <1>2, <2>1 DEF StderrTypesOK, BlamedIsGuilty
  <2>3. StepOK'
    BY <1>1, <2>1 DEF StepOK, InWarmUp, Marks, At
  <2>4. SyncOK' /\ OffOK' /\ CountsOK'
    BY <1>1, <2>1 DEF SyncOK, OffOK, CountsOK, Attributing, At
  <2>. QED BY <2>2, <2>3, <2>4
<1>. QED BY <1>3, <1>4

-----------------------------------------------------------------------------
(* The steps of the driver and of the reader.                              *)

LEMMA LinesAppended ==
  ASSUME NEW S, NEW s \in Seq(S), NEW x \in S
  PROVE  /\ Append(s, x) \in Seq(S) /\ Len(Append(s, x)) = Len(s) + 1 /\ Len(s) \in Nat
         /\ \A i \in 1 .. Len(s) : Append(s, x)[i] = s[i]
         /\ Append(s, x)[Len(s) + 1] = x
OBVIOUS

LEMMA LinesRead ==
  ASSUME NEW S, NEW s \in Seq(S), s # << >>
  PROVE  /\ Tail(s) \in Seq(S) /\ Head(s) = s[1] /\ s[1] \in S
         /\ Len(s) \in Nat \ {0} /\ Len(Tail(s)) = Len(s) - 1
         /\ \A i \in 1 .. Len(Tail(s)) : Tail(s)[i] = s[i + 1]
OBVIOUS

LEMMA StderrBegins ==
  ASSUME StderrAssumption, SInv, NEW kind \in Kinds, BeginsLine(kind) PROVE SInv'
<1>. USE DEF SInv
<1>1. /\ main.pc \in {"frames", "preload", "draw"} /\ capture.on /\ tail' = kind /\ lines' = lines + 1
      /\ UNCHANGED <<pipe, capture, main, reported, wrote>>
  BY DEF BeginsLine, Writes
<1>2. StderrTypesOK'
  BY <1>1 DEF StderrTypesOK
<1>3. StepOK' /\ SyncOK' /\ OffOK' /\ BlamedIsGuilty'
  BY <1>1 DEF StepOK, InWarmUp, Marks, At, SyncOK, OffOK, BlamedIsGuilty
<1>4. CountsOK'
  BY <1>1 DEF CountsOK, Attributing, At, NoFailureComes
<1>. QED BY <1>2, <1>3, <1>4

LEMMA StderrEnds ==
  ASSUME StderrAssumption, SInv, Ends PROVE SInv'
<1>. USE DEF SInv
<1>. DEFINE line == [kind |-> tail, n |-> 0]
<1>1. /\ main.pc \in {"frames", "preload", "draw"} /\ tail # "none" /\ Len(pipe) < Cap
      /\ pipe' = Append(pipe, line) /\ tail' = "none"
      /\ wrote' = (wrote \/ (tail = "ra" /\ main.pc # "frames"))
      /\ UNCHANGED <<capture, main, reported, lines>>
  BY DEF Ends, Writes, Room, Wrote
<1>2. line \in Lines /\ line.kind = tail /\ tail \in Kinds /\ tail # "sync"
  BY <1>1 DEF StderrTypesOK, Lines, Kinds
<1>. HIDE DEF line
<1>3. /\ pipe' \in Seq(Lines) /\ Len(pipe') = Len(pipe) + 1 /\ Len(pipe) \in Nat
      /\ \A i \in 1 .. Len(pipe) : pipe'[i] = pipe[i]
      /\ pipe'[Len(pipe) + 1] = line
  BY <1>1, <1>2, LinesAppended DEF StderrTypesOK
<1>4. \A i \in 1 .. Len(pipe') : i \in 1 .. Len(pipe) \/ i = Len(pipe) + 1
  BY <1>3
<1>5. StderrTypesOK'
  <2>1. wrote' \in BOOLEAN
    BY <1>1
  <2>. QED BY <1>1, <1>3, <2>1 DEF StderrTypesOK, StderrAssumption
<1>6. capture.on
  BY <1>1 DEF OffOK, StderrTypesOK, Captures
<1>7. StepOK' /\ OffOK' /\ BlamedIsGuilty'
  BY <1>1, <1>6 DEF StepOK, InWarmUp, Marks, At, OffOK, BlamedIsGuilty
<1>8. SyncOK'
  <2>1. \A i \in 1 .. Len(pipe') : pipe'[i].kind = "sync" => pipe'[i].n <= capture.sent
    BY <1>2, <1>3, <1>4 DEF SyncOK
  <2>. QED BY <1>1, <2>1 DEF SyncOK, At
<1>9. CountsOK'
  <2>1. NoFailureComes' => NoFailureComes
    BY <1>3 DEF NoFailureComes
  <2>2. NoFailureComes /\ tail # "ra" => NoFailureComes'
    BY <1>2, <1>3, <1>4 DEF NoFailureComes
  <2>3. tail = "ra" => ~NoFailureComes'
    <3>1. Len(pipe) + 1 \in 1 .. Len(pipe')
      BY <1>3
    <3>. QED BY <1>2, <1>3, <3>1 DEF NoFailureComes
  <2>. HIDE DEF NoFailureComes
  <2>. QED BY <1>1, <2>1, <2>2, <2>3 DEF CountsOK, Attributing, At
<1>. QED BY <1>5, <1>7, <1>8, <1>9

\* The line read: a marker is the last of those waited for, a failure is counted.
LEMMA StderrReads ==
  ASSUME StderrAssumption, SInv, Read PROVE SInv'
<1>. USE DEF SInv
<1>. DEFINE line == pipe[1]
<1>1. pipe # << >> /\ capture.thread /\ UNCHANGED <<tail, main, reported, wrote, lines>>
  BY DEF Read
<1>2. /\ pipe' = Tail(pipe) /\ pipe' \in Seq(Lines) /\ Len(pipe') = Len(pipe) - 1 /\ line \in Lines
      /\ Head(pipe) = line /\ Len(pipe) \in Nat \ {0}
      /\ \A i \in 1 .. Len(pipe') : pipe'[i] = pipe[i + 1]
  BY <1>1, LinesRead DEF StderrTypesOK, Read
<1>. HIDE DEF line
<1>3. PICK found \in {0, 1} :
        /\ capture.findings + found <= MaxFindings
        /\ capture' = [capture EXCEPT
             !.seen = IF line.kind = "sync" /\ line.n > capture.seen THEN line.n ELSE capture.seen,
             !.ra = IF line.kind = "ra" THEN capture.ra + 1 ELSE capture.ra,
             !.findings = capture.findings + found]
  <2>1. capture.findings \in Nat /\ capture.findings <= MaxFindings /\ MaxFindings \in Nat
    BY DEF StderrTypesOK, Captures, StderrAssumption
  <2>. DEFINE n == IF line.kind \in {"ra", "error"} /\ capture.findings < MaxFindings THEN 1 ELSE 0
  <2>2. capture' = [capture EXCEPT
             !.seen = IF line.kind = "sync" /\ line.n > capture.seen THEN line.n ELSE capture.seen,
             !.ra = IF line.kind = "ra" THEN capture.ra + 1 ELSE capture.ra,
             !.findings = capture.findings + n]
    BY <1>2 DEF Read
  <2>3. n \in {0, 1} /\ capture.findings + n <= MaxFindings
    BY <2>1
  <2>. HIDE DEF n
  <2>. QED BY <2>2, <2>3
<1>4. line.n \in Nat /\ capture.seen \in Nat /\ capture.ra \in Nat /\ capture.findings \in Nat /\ capture.sent \in Nat
  BY <1>2 DEF Lines, StderrTypesOK, Captures
<1>5. capture' \in Captures
  <2>1. capture \in Captures
    BY DEF StderrTypesOK
  <2>2. capture.findings + found \in Nat
    BY <1>4
  <2>. DEFINE seen == IF line.kind = "sync" /\ line.n > capture.seen THEN line.n ELSE capture.seen
              ra == IF line.kind = "ra" THEN capture.ra + 1 ELSE capture.ra
  <2>3. seen \in Nat /\ ra \in Nat
    BY <1>4
  <2>4. capture' = [capture EXCEPT !.seen = seen, !.ra = ra, !.findings = capture.findings + found]
    BY <1>3
  <2>. HIDE DEF seen, ra
  <2>. QED BY <2>1, <2>2, <2>3, <2>4 DEF Captures
<1>6. /\ capture'.on = capture.on /\ capture'.thread = capture.thread /\ capture'.sent = capture.sent
      /\ capture'.seen = (IF line.kind = "sync" /\ line.n > capture.seen THEN line.n ELSE capture.seen)
      /\ capture'.ra = (IF line.kind = "ra" THEN capture.ra + 1 ELSE capture.ra)
      /\ capture'.findings <= MaxFindings
  BY <1>3 DEF StderrTypesOK, Captures
<1>7. StderrTypesOK'
  BY <1>1, <1>2, <1>5, <1>6 DEF StderrTypesOK, StderrAssumption
<1>8. StepOK' /\ BlamedIsGuilty'
  BY <1>1, <1>6 DEF StepOK, InWarmUp, Marks, At, BlamedIsGuilty
<1>9. \A i \in 1 .. Len(pipe') : i + 1 \in 1 .. Len(pipe) /\ 1 \in 1 .. Len(pipe)
  BY <1>2
<1>10. 1 \in 1 .. Len(pipe)
  BY <1>2
<1>11. line.kind = "sync" => line.n <= capture.sent
  BY <1>10 DEF SyncOK, line
<1>12. SyncOK'
  <2>1. \A i \in 1 .. Len(pipe') : pipe'[i].kind = "sync" => pipe'[i].n <= capture.sent
    BY <1>2, <1>9 DEF SyncOK
  <2>2. capture'.seen <= capture.sent
    BY <1>1, <1>4, <1>6, <1>11 DEF SyncOK
  <2>3. At("wait") => \A i \in 1 .. Len(pipe') :
                        pipe'[i].kind = "sync" /\ pipe'[i].n = capture.sent => i = Len(pipe')
    <3>1. SUFFICES ASSUME At("wait"), NEW i \in 1 .. Len(pipe'),
                          pipe'[i].kind = "sync", pipe'[i].n = capture.sent
                   PROVE  i = Len(pipe')
      OBVIOUS
    <3>2. i + 1 = Len(pipe)
      BY <1>2, <1>9, <3>1 DEF SyncOK
    <3>3. Len(pipe') = Len(pipe) - 1 /\ Len(pipe) \in Nat /\ i \in Int
      BY <1>2, <3>1
    <3>. QED BY <3>2, <3>3
  <2>4. At("wait") /\ capture.on /\ capture'.seen >= capture.sent => pipe' = << >>
    <3>1. SUFFICES ASSUME At("wait"), capture.on, capture'.seen >= capture.sent PROVE Len(pipe') = 0
      BY <1>2
    <3>2. ~(capture.seen >= capture.sent)
      BY <1>1, <3>1 DEF SyncOK
    <3>3. line.kind = "sync" /\ line.n = capture.sent
      BY <1>4, <1>6, <1>11, <3>1, <3>2
    <3>4. 1 = Len(pipe)
      BY <1>10, <3>1, <3>3 DEF SyncOK, line
    <3>. QED BY <1>2, <3>4
  <2>5. capture'.seen <= All
    <3>1. capture.sent <= All
      <4>1. Marks \in 0 .. 3 /\ (~InWarmUp => Marks = 0) /\ main.done \in Nat /\ MaxWarmups \in Nat
        BY DEF Marks, StderrTypesOK, Mains, StderrAssumption
      <4>. QED BY <1>4, <4>1 DEF StepOK, All
    <3>. QED BY <1>4, <1>6, <2>2, <3>1 DEF All, StderrAssumption, StderrTypesOK, Captures
  <2>. QED BY <1>1, <1>6, <2>1, <2>2, <2>3, <2>4, <2>5 DEF SyncOK, At
<1>13. OffOK'
  BY <1>1, <1>6 DEF OffOK, At
<1>14. CountsOK'
  <2>1. NoFailureComes => NoFailureComes' /\ line.kind # "ra"
    BY <1>2, <1>9, <1>10 DEF NoFailureComes, line
  <2>2. ~NoFailureComes => ~NoFailureComes' \/ line.kind = "ra"
    <3>1. SUFFICES ASSUME NEW i \in 1 .. Len(pipe), pipe[i].kind = "ra", line.kind # "ra"
                   PROVE ~NoFailureComes'
      BY DEF NoFailureComes
    <3>2. i # 1
      BY <3>1 DEF line
    <3>3. i - 1 \in 1 .. Len(pipe') /\ (i - 1) + 1 = i
      BY <1>2, <3>2
    <3>. QED BY <1>2, <3>1, <3>3 DEF NoFailureComes
  <2>3. main.base \in Nat
    BY DEF StderrTypesOK, Mains
  <2>. HIDE DEF NoFailureComes
  <2>4. ~At("base") \/ ~main.before \/ ~capture.on
    BY <1>1 DEF SyncOK
  <2>. QED BY <1>1, <1>4, <1>6, <2>1, <2>2, <2>3 DEF CountsOK, Attributing, At
<1>. QED BY <1>7, <1>8, <1>12, <1>13, <1>14

LEMMA StderrReaderEnds ==
  ASSUME StderrAssumption, SInv, ReaderEnds PROVE SInv'
<1>. USE DEF SInv
<1>1. /\ ~capture.on /\ capture.thread /\ pipe = << >> /\ UNCHANGED <<pipe, tail, main, reported, wrote, lines>>
      /\ capture' = [capture EXCEPT !.thread = FALSE, !.seen = All]
  BY DEF ReaderEnds
<1>2. main.pc \in {"join", "stopped"}
  BY <1>1 DEF OffOK
<1>3. All \in Nat
  BY DEF All, StderrAssumption
<1>4. /\ capture' \in Captures /\ capture'.on = FALSE /\ capture'.thread = FALSE /\ capture'.seen = All
      /\ capture'.sent = capture.sent /\ capture'.ra = capture.ra /\ capture'.findings = capture.findings
  <2>1. capture \in Captures /\ capture.on = FALSE
    BY <1>1 DEF StderrTypesOK, Captures
  <2>. QED BY <1>1, <1>3, <2>1 DEF Captures
<1>5. StderrTypesOK'
  BY <1>1, <1>4 DEF StderrTypesOK
<1>6. StepOK' /\ OffOK' /\ CountsOK' /\ BlamedIsGuilty'
  BY <1>1, <1>2, <1>4 DEF StepOK, InWarmUp, Marks, At, OffOK, CountsOK, Attributing, BlamedIsGuilty
<1>7. SyncOK'
  BY <1>1, <1>2, <1>3, <1>4 DEF SyncOK, At
<1>. QED BY <1>5, <1>6, <1>7

LEMMA StderrReports ==
  ASSUME StderrAssumption, SInv, Report PROVE SInv'
<1>. USE DEF SInv
<1>1. /\ capture' = [capture EXCEPT !.findings = 0] /\ UNCHANGED <<pipe, tail, main, wrote, lines>>
      /\ reported' = IF reported + capture.findings > MaxReported THEN MaxReported
                     ELSE reported + capture.findings
  BY DEF Report
<1>2. reported' \in Nat /\ reported' <= MaxReported
  BY <1>1 DEF StderrTypesOK, Captures, StderrAssumption
<1>3. /\ capture' \in Captures /\ capture'.findings = 0
      /\ capture'.on = capture.on /\ capture'.thread = capture.thread /\ capture'.seen = capture.seen
      /\ capture'.sent = capture.sent /\ capture'.ra = capture.ra
  BY <1>1 DEF StderrTypesOK, Captures
<1>4. StderrTypesOK'
  BY <1>1, <1>2, <1>3 DEF StderrTypesOK, StderrAssumption
<1>5. StepOK' /\ SyncOK' /\ OffOK' /\ BlamedIsGuilty'
  BY <1>1, <1>3 DEF StepOK, InWarmUp, Marks, At, SyncOK, OffOK, BlamedIsGuilty
<1>6. CountsOK'
  BY <1>1, <1>3 DEF CountsOK, Attributing, At, NoFailureComes
<1>. QED BY <1>4, <1>5, <1>6

-----------------------------------------------------------------------------
LEMMA StderrWarmUp ==
  ASSUME StderrAssumption, SInv, WarmUp PROVE SInv'
<1>. USE DEF SInv
<1>1. /\ At("frames") /\ main.done < MaxWarmups /\ wrote' = FALSE
      /\ main' = [main EXCEPT !.pc = "mark", !.step = "before", !.every = TRUE, !.verdict = "none"]
      /\ UNCHANGED <<pipe, tail, capture, reported, lines>>
  BY DEF WarmUp
<1>2. /\ main' \in Mains /\ main'.pc = "mark" /\ main'.step = "before" /\ main'.verdict = "none"
      /\ main'.done = main.done /\ main'.base = main.base
  BY <1>1 DEF StderrTypesOK, Mains
<1>3. StderrTypesOK'
  <2>1. wrote' \in BOOLEAN
    BY Zenon, <1>1
  <2>. QED BY <1>1, <1>2, <2>1 DEF StderrTypesOK
<1>4. StepOK'
  BY <1>1, <1>2 DEF StepOK, InWarmUp, Marks, At
<1>5. SyncOK' /\ OffOK' /\ CountsOK' /\ BlamedIsGuilty'
  BY <1>1, <1>2 DEF SyncOK, OffOK, CountsOK, Attributing, At, BlamedIsGuilty
<1>. QED BY <1>3, <1>4, <1>5

\* The marker: it ends what the driver has begun, and is then lost.
LEMMA StderrMarks ==
  ASSUME StderrAssumption, SInv, Mark PROVE SInv'
<1>. USE DEF SInv
<1>1. At("mark") /\ Len(pipe) < Cap /\ UNCHANGED <<reported, lines>> /\ main' = [main EXCEPT !.pc = "wait"]
  BY DEF Mark, Room, Goto
<1>2. /\ main' \in Mains /\ main'.pc = "wait" /\ main'.step = main.step /\ main'.verdict = main.verdict
      /\ main'.done = main.done /\ main'.base = main.base /\ main'.before = main.before
      /\ main'.every = main.every
  BY <1>1 DEF StderrTypesOK, Mains
<1>3. CASE ~capture.on
  <2>1. UNCHANGED <<pipe, tail, capture, wrote>>
    BY <1>3 DEF Mark
  <2>2. StderrTypesOK'
    BY <1>1, <1>2, <2>1 DEF StderrTypesOK
  <2>3. /\ pipe = << >> /\ tail = "none"
    BY <1>1, <1>3 DEF OffOK, At
  <2>4. StepOK'
    <3>1. Marks <= Marks' /\ Marks \in Nat /\ Marks' \in Nat
      BY <1>1, <1>2 DEF Marks, InWarmUp, At
    <3>2. capture.sent \in Nat /\ main.done \in Nat
      BY DEF StderrTypesOK, Captures, Mains
    <3>. QED BY <1>1, <1>2, <2>1, <3>1, <3>2 DEF StepOK, InWarmUp, At
  <2>5. SyncOK' /\ OffOK' /\ CountsOK' /\ BlamedIsGuilty'
    BY <1>1, <1>2, <1>3, <2>1, <2>3
       DEF SyncOK, OffOK, CountsOK, Attributing, At, NoFailureComes, BlamedIsGuilty
  <2>. QED BY <2>2, <2>4, <2>5
<1>4. CASE capture.on
  <2>. DEFINE line == IF tail = "none" THEN [kind |-> "sync", n |-> capture.sent + 1]
                      ELSE [kind |-> tail, n |-> 0]
  <2>1. /\ capture' = [capture EXCEPT !.sent = capture.sent + 1] /\ pipe' = Append(pipe, line) /\ tail' = "none"
        /\ wrote' = (wrote \/ (tail = "ra" /\ main.step # "before"))
    BY <1>4 DEF Mark
  <2>2. /\ capture' \in Captures /\ capture'.sent = capture.sent + 1 /\ capture'.findings = capture.findings
        /\ capture'.on = capture.on /\ capture'.thread = capture.thread /\ capture'.seen = capture.seen
        /\ capture'.ra = capture.ra /\ capture.sent \in Nat /\ capture.seen \in Nat
    BY <2>1, SMTT(30) DEF StderrTypesOK, Captures
  <2>3. /\ line \in Lines /\ (line.kind = "sync" => tail = "none" /\ line.n = capture.sent + 1)
        /\ (line.kind = "ra" <=> tail = "ra")
    BY <2>2 DEF StderrTypesOK, Lines, Kinds
  <2>. HIDE DEF line
  <2>4. /\ pipe' \in Seq(Lines) /\ Len(pipe') = Len(pipe) + 1 /\ Len(pipe) \in Nat
        /\ \A i \in 1 .. Len(pipe) : pipe'[i] = pipe[i]
        /\ pipe'[Len(pipe) + 1] = line
    BY <2>1, <2>3, LinesAppended DEF StderrTypesOK
  <2>5. \A i \in 1 .. Len(pipe') : i \in 1 .. Len(pipe) \/ i = Len(pipe')
    BY <2>4
  <2>6. StderrTypesOK'
    <3>1. wrote' \in BOOLEAN
      BY <2>1
    <3>. QED BY <1>1, <1>2, <2>1, <2>2, <2>4, <3>1 DEF StderrTypesOK, StderrAssumption
  <2>7. StepOK'
    <3>1. Marks' = Marks + 1 /\ Marks \in Nat
      BY <1>1, <1>2 DEF Marks, InWarmUp, At
    <3>2. main.done \in Nat
      BY DEF StderrTypesOK, Mains
    <3>. QED BY <1>1, <1>2, <2>2, <3>1, <3>2 DEF StepOK, InWarmUp, At
  <2>8. SyncOK'
    <3>1. \A i \in 1 .. Len(pipe') : pipe'[i].kind = "sync" => pipe'[i].n <= capture'.sent
      <4>1. SUFFICES ASSUME NEW i \in 1 .. Len(pipe'), pipe'[i].kind = "sync"
                     PROVE  pipe'[i].n <= capture'.sent
        OBVIOUS
      <4>2. CASE i \in 1 .. Len(pipe)
        <5>0. pipe[i] \in Lines
          BY <4>2 DEF StderrTypesOK
        <5>1. pipe[i].n \in Nat /\ pipe[i].n <= capture.sent
          BY <2>4, <4>1, <4>2, <5>0 DEF SyncOK, Lines
        <5>. QED BY <2>2, <2>4, <4>2, <5>1
      <4>3. CASE i = Len(pipe')
        BY <2>2, <2>3, <2>4, <4>1, <4>3
      <4>. QED BY <2>5, <4>1, <4>2, <4>3
    <3>2. \A i \in 1 .. Len(pipe) : pipe[i].kind = "sync" => pipe[i].n # capture'.sent
      BY <2>2 DEF SyncOK, StderrTypesOK, Lines
    <3>3. \A i \in 1 .. Len(pipe') :
             pipe'[i].kind = "sync" /\ pipe'[i].n = capture'.sent => i = Len(pipe')
      BY <2>4, <2>5, <3>2
    <3>4. capture.seen <= capture.sent
      BY <1>4 DEF SyncOK
    <3>. QED BY <1>1, <1>2, <1>4, <2>1, <2>2, <3>1, <3>3, <3>4 DEF SyncOK, At
  <2>9. OffOK'
    BY <1>4, <2>2 DEF OffOK
  <2>10. CountsOK'
    <3>1. NoFailureComes' => NoFailureComes
      BY <2>4 DEF NoFailureComes
    <3>2. NoFailureComes /\ tail # "ra" => NoFailureComes'
      BY <2>3, <2>4, <2>5 DEF NoFailureComes
    <3>3. tail = "ra" => ~NoFailureComes'
      <4>1. Len(pipe') \in 1 .. Len(pipe') /\ Len(pipe') = Len(pipe) + 1
        BY <2>4
      <4>. QED BY <2>3, <2>4, <4>1 DEF NoFailureComes
    <3>. HIDE DEF NoFailureComes
    <3>. QED BY <1>1, <1>2, <2>1, <2>2, <3>1, <3>2, <3>3 DEF CountsOK, Attributing, At
  <2>11. BlamedIsGuilty'
    BY <1>2 DEF BlamedIsGuilty
  <2>. QED BY <2>6, <2>7, <2>8, <2>9, <2>10, <2>11
<1>. QED BY <1>3, <1>4

LEMMA StderrStops ==
  ASSUME StderrAssumption, SInv, Stop PROVE SInv'
<1>. USE DEF SInv
<1>1. /\ At("frames") /\ capture.on /\ capture' = [capture EXCEPT !.on = FALSE] /\ tail' = "none"
      /\ main' = [main EXCEPT !.pc = "join"] /\ UNCHANGED <<pipe, reported, wrote, lines>>
  BY DEF Stop, Goto
<1>2. /\ main' \in Mains /\ main'.pc = "join" /\ main'.done = main.done /\ main'.base = main.base
  BY <1>1 DEF StderrTypesOK, Mains
<1>3. /\ capture' \in Captures /\ capture'.on = FALSE /\ capture'.thread = capture.thread
      /\ capture'.seen = capture.seen /\ capture'.sent = capture.sent /\ capture'.ra = capture.ra
      /\ capture'.findings = capture.findings
  BY <1>1 DEF StderrTypesOK, Captures
<1>4. StderrTypesOK'
  BY <1>1, <1>2, <1>3 DEF StderrTypesOK
<1>5. StepOK' /\ OffOK' /\ CountsOK' /\ BlamedIsGuilty'
  BY <1>1, <1>2, <1>3 DEF StepOK, InWarmUp, Marks, At, OffOK, CountsOK, Attributing, BlamedIsGuilty
<1>6. SyncOK'
  BY <1>1, <1>2, <1>3 DEF SyncOK, At
<1>. QED BY <1>4, <1>5, <1>6

LEMMA StderrStep ==
  ASSUME StderrAssumption, SInv, [StderrNext]_stderrVars PROVE SInv'
<1>1. CASE Read
  BY <1>1, StderrReads
<1>2. CASE ReaderEnds
  BY <1>2, StderrReaderEnds
<1>3. CASE Mark
  BY <1>3, StderrMarks
<1>4. CASE Return
  BY <1>4, StderrReturn
<1>5. CASE Base
  BY <1>5, StderrBase
<1>6. CASE Step
  BY <1>6, StderrSteps
<1>7. CASE Check
  BY <1>7, StderrCheck
<1>8. CASE Over \/ Joined
  BY <1>8, StderrOver
<1>9. CASE \E kind \in Kinds : BeginsLine(kind)
  BY <1>9, StderrBegins
<1>10. CASE Ends
  BY <1>10, StderrEnds
<1>11. CASE WarmUp
  BY <1>11, StderrWarmUp
<1>12. CASE Report
  BY <1>12, StderrReports
<1>13. CASE Stop
  BY <1>13, StderrStops
<1>14. CASE UNCHANGED stderrVars
  <2>1. StderrTypesOK' /\ StepOK'
    BY <1>14 DEF stderrVars, SInv, StderrTypesOK, StepOK, InWarmUp, Marks, At
  <2>2. SyncOK' /\ OffOK' /\ CountsOK' /\ BlamedIsGuilty'
    BY <1>14 DEF stderrVars, SInv, SyncOK, OffOK, CountsOK, Attributing, NoFailureComes, At, BlamedIsGuilty
  <2>. QED BY <2>1, <2>2 DEF SInv
<1>. QED BY <1>1, <1>2, <1>3, <1>4, <1>5, <1>6, <1>7, <1>8, <1>9, <1>10, <1>11, <1>12, <1>13, <1>14
        DEF StderrNext, ReaderStep, MainStep

\* For a pipe of any size, any number of warm-ups, lines and syncs that time
\* out: a preset is blamed only for what the driver said while it was warmed
\* up, and it is blamed when all its syncs completed (main.cpp:362 and 370).
THEOREM BlameIsRight ==
  ASSUME StderrAssumption
  PROVE  StderrSpec => []BlamedIsGuilty
<1>1. StderrInit => SInv
  BY StderrStarts
<1>2. SInv /\ [StderrNext]_stderrVars => SInv'
  BY StderrStep
<1>3. SInv => BlamedIsGuilty
  BY DEF SInv
<1>. QED BY <1>1, <1>2, <1>3, PTL DEF StderrSpec

\* The type invariant; no count of markers, findings or reports exceeds its bound.
THEOREM StderrTypes ==
  ASSUME StderrAssumption
  PROVE  StderrSpec => []StderrTypeOK
<1>1. StderrInit => SInv
  BY StderrStarts
<1>2. SInv /\ [StderrNext]_stderrVars => SInv'
  BY StderrStep
<1>3. SInv => StderrTypeOK
  BY StderrImplies
<1>. QED BY <1>1, <1>2, <1>3, PTL DEF StderrSpec

-----------------------------------------------------------------------------
(* FramePacer.  A frame carries what was predicted of it: if it was        *)
(* expected to be ready for its slot, the prediction names the slot.  The  *)
(* display's side: time does not pass a vblank at which the pending flip   *)
(* can be latched, and the flip is not submitted before the vblank ahead   *)
(* of its slot, so that the slot is where it lands.                        *)

PacedFrames == [target : Int, due : Int, ready : Int, after : Int, slots : Nat, submitted : Int]

SlotOf(f) == f.after + f.slots * Period

PredictionIsSlot(f) == f.slots # 0 /\ f.due <= SlotOf(f) => f.target = SlotOf(f)

PacerTypesOK ==
  /\ now \in Nat /\ now <= MaxTime /\ interval \in Intervals /\ last \in Nat /\ last <= now
  /\ drawing \in PacedFrames /\ waiting \in PacedFrames /\ flipping \in PacedFrames
  /\ drawing # NoFrame => waiting = NoFrame
  /\ flipped \in BOOLEAN

PendingOK ==
  flipping # NoFrame =>
    /\ \A v \in Nat : v % Period = 0 /\ flipping.submitted < v /\ flipping.ready <= v => now <= v
    /\ flipping.slots # 0 => flipping.submitted >= last + (flipping.slots - 1) * Period

FramesOK == PredictionIsSlot(drawing) /\ PredictionIsSlot(waiting) /\ PredictionIsSlot(flipping)

GridOK == flipped => last % Period = 0

PInv == PacerTypesOK /\ FramesOK /\ PendingOK /\ GridOK /\ PredictionHolds

\* Vblanks are a period apart.
LEMMA PeriodsApart ==
  ASSUME NEW P \in Nat \ {0}, NEW k \in Nat \ {0}, NEW a \in Nat, NEW b \in Nat,
         a % P = 0, b % P = 0, b > a + (k - 1) * P
  PROVE  b >= a + k * P
<1>1. PICK m \in Int : a = m * P
  OBVIOUS
<1>2. PICK n \in Int : b = n * P
  OBVIOUS
<1>3. ASSUME n < m + k PROVE FALSE
  <2>1. n <= m + (k - 1)
    BY <1>3
  <2>2. \A x \in Int, y \in Int : x <= y => x * P <= y * P
    OBVIOUS
  <2>3. n * P <= (m + (k - 1)) * P
    BY <2>1, <2>2
  <2>4. (m + (k - 1)) * P = m * P + (k - 1) * P
    OBVIOUS
  <2>. HIDE <2>2
  <2>. QED BY <1>1, <1>2, <2>3, <2>4
<1>4. n >= m + k
  BY <1>3
<1>5. n * P >= (m + k) * P
  BY <1>4
<1>6. (m + k) * P = m * P + k * P
  OBVIOUS
<1>. QED BY <1>1, <1>2, <1>5, <1>6

LEMMA SlotOnGrid ==
  ASSUME NEW P \in Nat \ {0}, NEW k \in Nat, NEW a \in Nat, a % P = 0
  PROVE  (a + k * P) \in Nat /\ (a + k * P) % P = 0
<1>1. PICK m \in Int : a = m * P
  OBVIOUS
<1>2. a + k * P = (m + k) * P
  BY <1>1
<1>3. k * P \in Nat
  OBVIOUS
<1>4. \A x \in Int : (x * P) % P = 0
  OBVIOUS
<1>. QED BY <1>2, <1>3, <1>4

LEMMA SlotType ==
  ASSUME PeriodAssumption, NEW f \in PacedFrames
  PROVE  SlotOf(f) \in Int /\ f.slots * Period \in Nat
<1>1. f.slots \in Nat /\ f.after \in Int /\ Period \in Nat
  BY DEF PacedFrames, PeriodAssumption
<1>2. f.slots * Period \in Nat
  BY <1>1
<1>. QED BY <1>1, <1>2 DEF SlotOf

LEMMA PacerStarts ==
  ASSUME PeriodAssumption, PacerInit PROVE PInv
<1>1. NoFrame \in PacedFrames /\ NoFrame.slots = 0
  BY DEF NoFrame, PacedFrames
<1>2. PacerTypesOK
  <2>1. flipped \in BOOLEAN
    BY Zenon DEF PacerInit
  <2>. QED BY <1>1, <2>1 DEF PacerInit, PacerTypesOK, PeriodAssumption
<1>3. FramesOK
  BY <1>1 DEF PacerInit, FramesOK, PredictionIsSlot
<1>4. PendingOK /\ GridOK /\ PredictionHolds
  BY DEF PacerInit, PendingOK, GridOK, PredictionHolds
<1>. QED BY <1>2, <1>3, <1>4 DEF PInv

LEMMA PacerTick ==
  ASSUME PeriodAssumption, PInv, Tick PROVE PInv'
<1>. USE DEF PInv
<1>1. /\ now < MaxTime /\ now' = now + 1
      /\ ~(now % Period = 0 /\ flipping # NoFrame /\ flipping.submitted < now /\ flipping.ready <= now)
      /\ UNCHANGED <<changes, interval, last, drawing, waiting, flipping, shown, flipped>>
  BY DEF Tick
<1>2. now \in Nat /\ last \in Nat /\ last <= now /\ MaxTime \in Nat
  BY DEF PacerTypesOK, PeriodAssumption
<1>3. PacerTypesOK'
  BY <1>1, <1>2 DEF PacerTypesOK, NoFrame
<1>4. PendingOK'
  <2>1. SUFFICES ASSUME flipping # NoFrame PROVE PendingOK'
    BY <1>1 DEF PendingOK, NoFrame
  <2>2. ASSUME NEW v \in Nat, v % Period = 0, flipping.submitted < v, flipping.ready <= v
        PROVE  now + 1 <= v
    <3>1. now <= v
      BY <2>1, <2>2 DEF PendingOK
    <3>2. now # v
      BY <1>1, <2>1, <2>2
    <3>. QED BY <1>2, <3>1, <3>2
  <2>. QED BY <1>1, <2>1, <2>2 DEF PendingOK, NoFrame
<1>5. FramesOK' /\ GridOK' /\ PredictionHolds'
  BY <1>1 DEF FramesOK, PredictionIsSlot, SlotOf, GridOK, PredictionHolds
<1>. QED BY <1>3, <1>4, <1>5

\* What predict_present() says is the slot, unless the frame is expected later.
LEMMA PacerDraws ==
  ASSUME PeriodAssumption, PInv, Draw PROVE PInv'
<1>. USE DEF PInv
<1>1. /\ drawing = NoFrame /\ waiting = NoFrame
      /\ drawing' = [NoFrame EXCEPT
            !.target = Predict(flipping # NoFrame), !.due = now + Estimate, !.slots = interval,
            !.after = IF flipping # NoFrame THEN last + Slot ELSE last]
      /\ UNCHANGED <<changes, now, interval, last, waiting, flipping, shown, flipped>>
  BY DEF Draw
<1>2. /\ now \in Nat /\ last \in Nat /\ interval \in Nat \ {0} /\ Estimate \in Nat /\ Period \in Nat \ {0}
  BY DEF PacerTypesOK, PeriodAssumption
<1>3. Slot \in Nat /\ Slot = interval * Period
  BY <1>2 DEF Slot
<1>. DEFINE after == IF flipping # NoFrame THEN last + Slot ELSE last
            target == Predict(flipping # NoFrame)
            ready == now + Estimate
            t == last + Slot + (IF flipping # NoFrame THEN Slot ELSE 0)
<1>4. target = IF t >= ready THEN t ELSE t + ((ready - t + Period - 1) \div Period) * Period
  BY Zenon DEF Predict
<1>5. after \in Nat /\ t \in Nat /\ ready \in Nat /\ t = after + Slot
  BY <1>2, <1>3
<1>. HIDE DEF t, ready, after
<1>6. target \in Int /\ (ready <= t => target = t)
  <2>1. CASE t >= ready
    BY <1>4, <1>5, <2>1
  <2>2. CASE ~(t >= ready)
    <3>1. (ready - t + Period - 1) \div Period \in Int
      BY <1>2, <1>5
    <3>2. ((ready - t + Period - 1) \div Period) * Period \in Int
      BY <1>2, <3>1
    <3>. HIDE DEF target
    <3>3. target = t + ((ready - t + Period - 1) \div Period) * Period
      BY <1>4, <2>2
    <3>. QED BY <1>5, <2>2, <3>2, <3>3
  <2>. QED BY <2>1, <2>2
<1>. HIDE DEF target
<1>7. drawing' = [target |-> target, due |-> ready, ready |-> 0, after |-> after, slots |-> interval, submitted |-> 0]
  BY <1>1 DEF target, ready, after, NoFrame
<1>8. /\ drawing' \in PacedFrames /\ drawing'.due = ready /\ drawing'.after = after
      /\ drawing'.slots = interval /\ drawing'.target = target
  BY <1>2, <1>5, <1>6, <1>7 DEF PacedFrames
<1>9. PredictionIsSlot(drawing')
  <2>1. SlotOf(drawing') = t
    BY <1>3, <1>5, <1>8 DEF SlotOf
  <2>. QED BY <1>6, <1>8, <2>1 DEF PredictionIsSlot
<1>10. PacerTypesOK'
  BY <1>1, <1>8 DEF PacerTypesOK, NoFrame
<1>11. FramesOK'
  BY <1>1, <1>9 DEF FramesOK, PredictionIsSlot, SlotOf
<1>12. PendingOK' /\ GridOK' /\ PredictionHolds'
  BY <1>1 DEF PendingOK, GridOK, PredictionHolds, NoFrame
<1>. QED BY <1>10, <1>11, <1>12

LEMMA PacerDrawn ==
  ASSUME PeriodAssumption, PInv, NEW ready \in Int, Drawn(ready) PROVE PInv'
<1>. USE DEF PInv
<1>1. /\ waiting' = [drawing EXCEPT !.ready = ready] /\ drawing' = NoFrame
      /\ UNCHANGED <<changes, now, interval, last, flipping, shown, flipped>>
  BY DEF Drawn
<1>2. /\ waiting' \in PacedFrames /\ waiting'.target = drawing.target /\ waiting'.slots = drawing.slots
      /\ waiting'.due = drawing.due /\ waiting'.after = drawing.after
  BY <1>1 DEF PacerTypesOK, PacedFrames
<1>3. drawing' \in PacedFrames /\ drawing'.slots = 0
  BY <1>1 DEF NoFrame, PacedFrames
<1>4. PacerTypesOK'
  BY <1>1, <1>2, <1>3 DEF PacerTypesOK, NoFrame
<1>5. FramesOK'
  BY <1>1, <1>2, <1>3 DEF FramesOK, PredictionIsSlot, SlotOf
<1>6. PendingOK' /\ GridOK' /\ PredictionHolds'
  BY <1>1 DEF PendingOK, GridOK, PredictionHolds, NoFrame
<1>. QED BY <1>4, <1>5, <1>6

\* A frame is not submitted before the vblank ahead of its slot.
LEMMA PacerSubmits ==
  ASSUME PeriodAssumption, PInv, SubmitPaced PROVE PInv'
<1>. USE DEF PInv
<1>1. /\ flipping = NoFrame /\ now >= Earliest
      /\ flipping' = [waiting EXCEPT !.submitted = now,
                                   !.slots = IF waiting.slots = interval THEN waiting.slots ELSE 0]
      /\ waiting' = NoFrame
      /\ UNCHANGED <<changes, now, interval, last, drawing, shown, flipped>>
  BY DEF SubmitPaced, Submitted
<1>2. now \in Nat /\ last \in Nat /\ last <= now /\ interval \in Nat \ {0} /\ Period \in Nat \ {0} /\ Margin \in Nat
  BY DEF PacerTypesOK, PeriodAssumption
<1>3. /\ flipping' \in PacedFrames /\ flipping'.target = waiting.target /\ flipping'.submitted = now
      /\ flipping'.slots = (IF waiting.slots = interval THEN waiting.slots ELSE 0)
      /\ flipping'.due = waiting.due /\ flipping'.after = waiting.after
  <2>1. waiting \in PacedFrames /\ waiting.slots \in Nat
    BY DEF PacerTypesOK, PacedFrames
  <2>. DEFINE k == IF waiting.slots = interval THEN waiting.slots ELSE 0
  <2>2. k \in Nat /\ now \in Int
    BY <1>2, <2>1
  <2>3. flipping' = [waiting EXCEPT !.submitted = now, !.slots = k]
    BY <1>1
  <2>. HIDE DEF k
  <2>4. /\ flipping' \in PacedFrames /\ flipping'.target = waiting.target /\ flipping'.submitted = now
        /\ flipping'.slots = k /\ flipping'.due = waiting.due /\ flipping'.after = waiting.after
    BY <2>1, <2>2, <2>3 DEF PacedFrames
  <2>. QED BY <2>4 DEF k
<1>4. waiting' \in PacedFrames /\ waiting'.slots = 0
  BY <1>1 DEF NoFrame, PacedFrames
<1>5. PacerTypesOK'
  BY <1>1, <1>3, <1>4 DEF PacerTypesOK, NoFrame
<1>6. FramesOK'
  BY <1>1, <1>3, <1>4 DEF FramesOK, PredictionIsSlot, SlotOf
<1>7. PendingOK'
  <2>1. \A v \in Nat : flipping'.submitted < v => now' <= v
    BY <1>1, <1>2, <1>3
  <2>2. now >= last + (interval - 1) * Period
    <3>1. CASE interval = 1
      <4>1. (interval - 1) * Period = 0
        BY <1>2, <3>1
      <4>. QED BY <1>2, <4>1
    <3>2. CASE interval # 1
      <4>1. (interval - 1) * Period \in Int
        BY <1>2
      <4>2. now >= last + (interval - 1) * Period + Margin
        BY <1>1, <3>2 DEF Earliest
      <4>. QED BY <1>2, <4>1, <4>2
    <3>. QED BY <3>1, <3>2
  <2>3. flipping'.slots # 0 => flipping'.slots = interval
    BY <1>3
  <2>4. flipping'.slots # 0 => flipping'.submitted >= last' + (flipping'.slots - 1) * Period
    BY <1>1, <1>3, <2>2, <2>3
  <2>. QED BY <2>1, <2>4 DEF PendingOK
<1>8. GridOK' /\ PredictionHolds'
  BY <1>1 DEF GridOK, PredictionHolds
<1>. QED BY <1>5, <1>6, <1>7, <1>8

\* An expected frame lands in its slot: not before, since it was submitted
\* past the vblank ahead, and not later, since it could be latched there.
LEMMA PacerVblank ==
  ASSUME PeriodAssumption, PInv, Vblank PROVE PInv'
<1>. USE DEF PInv
<1>1. /\ now % Period = 0 /\ flipping # NoFrame /\ flipping.submitted < now /\ flipping.ready <= now
      /\ last' = now /\ flipping' = NoFrame /\ flipped' = TRUE
      /\ shown' = IF Expected(flipping) THEN flipping.target ELSE 0
      /\ UNCHANGED <<changes, now, interval, drawing, waiting>>
  BY DEF Vblank
<1>2. flipping' \in PacedFrames /\ flipping'.slots = 0
  BY <1>1 DEF NoFrame, PacedFrames
<1>3. PacerTypesOK'
  <2>1. flipped' \in BOOLEAN
    BY Zenon, <1>1
  <2>. QED BY <1>1, <1>2, <2>1 DEF PacerTypesOK, NoFrame
<1>4. FramesOK'
  BY <1>1, <1>2 DEF FramesOK, PredictionIsSlot, SlotOf
<1>5. PendingOK' /\ GridOK'
  BY <1>1 DEF PendingOK, GridOK, NoFrame
<1>6. ASSUME Expected(flipping) PROVE flipping.target = now
  <2>1. /\ flipped /\ last = flipping.after /\ flipping.slots # 0
        /\ flipping.due <= SlotOf(flipping) /\ flipping.ready <= SlotOf(flipping)
        /\ flipping.submitted < SlotOf(flipping)
    BY <1>6 DEF Expected, SlotOf
  <2>2. /\ Period \in Nat \ {0} /\ last \in Nat /\ now \in Nat /\ flipping.slots \in Nat \ {0}
        /\ flipping.submitted \in Int
    BY <2>1 DEF PacerTypesOK, PacedFrames, PeriodAssumption
  <2>3. last % Period = 0
    BY <2>1 DEF GridOK
  <2>4. SlotOf(flipping) \in Nat /\ SlotOf(flipping) % Period = 0
    BY <2>1, <2>2, <2>3, SlotOnGrid DEF SlotOf
  <2>5. now <= SlotOf(flipping)
    BY <1>1, <2>1, <2>4 DEF PendingOK
  <2>6. now > last + (flipping.slots - 1) * Period
    <3>1. (flipping.slots - 1) * Period \in Int
      BY <2>2
    <3>2. flipping.submitted >= last + (flipping.slots - 1) * Period
      BY <1>1, <2>1 DEF PendingOK
    <3>. QED BY <1>1, <2>2, <3>1, <3>2
  <2>7. now >= last + flipping.slots * Period
    BY <1>1, <2>2, <2>3, <2>6, PeriodsApart
  <2>8. now >= SlotOf(flipping)
    BY <2>1, <2>7 DEF SlotOf
  <2>9. flipping.target = SlotOf(flipping)
    BY <2>1 DEF FramesOK, PredictionIsSlot
  <2>. QED BY <2>2, <2>4, <2>5, <2>8, <2>9
<1>7. PredictionHolds'
  BY <1>1, <1>6 DEF PredictionHolds
<1>. QED BY <1>3, <1>4, <1>5, <1>7

LEMMA PacerStep ==
  ASSUME PeriodAssumption, PInv, [PacerNext]_pacerVars PROVE PInv'
<1>1. CASE Tick
  BY <1>1, PacerTick
<1>2. CASE Draw
  BY <1>2, PacerDraws
<1>3. CASE SubmitPaced
  BY <1>3, PacerSubmits
<1>4. CASE Vblank
  BY <1>4, PacerVblank
<1>5. ASSUME NEW ready \in {now, now + Estimate, now + Estimate + Period}, Drawn(ready) PROVE PInv'
  <2>1. ready \in Int
    BY DEF PInv, PacerTypesOK, PeriodAssumption
  <2>. QED BY <1>5, <2>1, PacerDrawn
<1>6. ASSUME NEW i \in Intervals, SetInterval(i) PROVE PInv'
  <2>1. interval' = i /\ UNCHANGED <<now, last, drawing, waiting, flipping, shown, flipped>>
    BY <1>6 DEF SetInterval
  <2>2. PacerTypesOK' /\ PendingOK'
    BY <2>1 DEF PInv, PacerTypesOK, PendingOK, NoFrame
  <2>3. FramesOK' /\ GridOK' /\ PredictionHolds'
    BY <2>1 DEF PInv, FramesOK, PredictionIsSlot, SlotOf, GridOK, PredictionHolds
  <2>. QED BY <2>2, <2>3 DEF PInv
<1>7. CASE UNCHANGED pacerVars
  <2>1. UNCHANGED <<now, interval, last, drawing, waiting, flipping, shown, flipped>>
    BY <1>7 DEF pacerVars
  <2>2. PacerTypesOK' /\ PendingOK'
    BY <2>1 DEF PInv, PacerTypesOK, PendingOK, NoFrame
  <2>3. FramesOK' /\ GridOK' /\ PredictionHolds'
    BY <2>1 DEF PInv, FramesOK, PredictionIsSlot, SlotOf, GridOK, PredictionHolds
  <2>. QED BY <2>2, <2>3 DEF PInv
<1>. QED BY <1>1, <1>2, <1>3, <1>4, <1>5, <1>6, <1>7 DEF PacerNext

\* For any period, margin, render estimate and intervals, and a loop and a GPU
\* as late as they like: a frame whose part of the prediction came true is
\* shown at the time its sound was chosen for (frame_pacer.h:42, main.cpp:602).
THEOREM PredictionIsRight ==
  ASSUME PeriodAssumption
  PROVE  PacerSpec => []PredictionHolds
<1>1. PacerInit => PInv
  BY PacerStarts
<1>2. PInv /\ [PacerNext]_pacerVars => PInv'
  BY PacerStep
<1>3. PInv => PredictionHolds
  BY DEF PInv
<1>. QED BY <1>1, <1>2, <1>3, PTL DEF PacerSpec

\* The type invariant of the pacer.
THEOREM PacerTypes ==
  ASSUME PeriodAssumption
  PROVE  PacerSpec => []PacerTypeOK
<1>1. PacerInit => PInv
  BY PacerStarts
<1>2. PInv /\ [PacerNext]_pacerVars => PInv'
  BY PacerStep
<1>3. PInv => PacerTypeOK
  BY DEF PInv, PacerTypesOK, PacerTypeOK, PeriodAssumption
<1>. QED BY <1>1, <1>2, <1>3, PTL DEF PacerSpec

-----------------------------------------------------------------------------
(* The cost guard. *)

Guards ==
  [file : Presets \union {NoPreset}, level : 1 .. Last, floor : 0 .. Rungs - 1,
   settled : [Presets -> 0 .. Last], settle : 0 .. Settle, window : Seq(Frames), min : MinFps]

Apps ==
  [current : Presets, first : BOOLEAN, blends : BOOLEAN, holds : BOOLEAN, presents : BOOLEAN]

TypesOK ==
  /\ guard \in Guards /\ app \in Apps
  /\ pending \in Frames \union {NoPreset} /\ queued \in Frames \union {NoPreset}
  /\ applied \in 1 .. Last
  /\ judged \in [Presets -> MinFps]
  /\ thermal \in [hot : Int, dropped : BOOLEAN]

\* A frame that would be counted though it is of another preset or level.
Foreign(f) ==
  f # NoPreset /\ f.measurable /\ ~(f.preset = guard.file /\ f.level = guard.level)

InFlightOK ==
  /\ app.holds => queued = NoPreset
  /\ guard.file # NoPreset =>
       /\ Foreign(pending) => guard.settle >= 1
       /\ Foreign(queued) =>
            IF pending = NoPreset THEN guard.settle >= 1
            ELSE pending.measurable => guard.settle >= 2

IInv == TypesOK /\ LadderIsSound /\ InFlightOK

-----------------------------------------------------------------------------
(* The ladder.                                                             *)

\* The levels are in order of their rungs, the last one has the last rung.
LEMMA LevelsInOrder ==
  ASSUME LadderAssumption
  PROVE  /\ Last \in Nat \ {0}
         /\ \A l \in 1 .. Last : Levels[l].rung \in 0 .. Rungs - 1
         /\ Levels[Last].rung = Rungs - 1
         /\ \A l, m \in 1 .. Last : l <= m => Levels[l].rung <= Levels[m].rung
<1>. DEFINE at(r) == [rung |-> r - 1, interval |-> IF StartInterval = 1 THEN 2 ELSE StartInterval]
            half == [r \in 1 .. Rungs |-> at(r)]
            full == [rung |-> 0, interval |-> 1]
<1>1. half \in Seq([rung : Int, interval : Nat]) /\ Len(half) = Rungs
  BY DEF LadderAssumption
<1>2. \A r \in 1 .. Rungs : half[r].rung = r - 1
  OBVIOUS
<1>. HIDE DEF half
<1>3. CASE StartInterval = 1
  <2>1. Levels = <<full>> \o half
    BY <1>3 DEF Levels, half
  <2>2. Last = Rungs + 1 /\ Levels[1].rung = 0 /\ \A l \in 2 .. Last : Levels[l].rung = l - 2
    BY <2>1, <1>1, <1>2 DEF Last, LadderAssumption
  <2>. QED BY <2>2 DEF LadderAssumption
<1>4. CASE StartInterval # 1
  <2>1. Levels = << >> \o half
    BY <1>4 DEF Levels, half
  <2>2. Last = Rungs /\ \A l \in 1 .. Last : Levels[l].rung = l - 1
    BY <2>1, <1>1, <1>2 DEF Last, LadderAssumption
  <2>. QED BY <2>2 DEF LadderAssumption
<1>. QED BY <1>3, <1>4

LessThan == {ss \in Nat \X Nat : ss[1] < ss[2]}

\* A set of numbers that is not empty has a least one.
LEMMA LeastOf ==
  ASSUME NEW S \in SUBSET Nat, S # {}
  PROVE  \E x \in S : \A y \in S : x <= y
<1>1. IsWellFoundedOn(LessThan, Nat)
  BY NatLessThanWellFounded DEF OpToRel, LessThan
<1>2. PICK x \in S : \A y \in S : <<y, x>> \notin LessThan
  BY <1>1, WFMin
<1>3. \A y \in S : x <= y
  <2>1. SUFFICES ASSUME NEW y \in S PROVE x <= y
    OBVIOUS
  <2>2. <<y, x>> \notin LessThan /\ y \in Nat /\ x \in Nat
    BY <1>2
  <2>3. <<y, x>> \in Nat \X Nat
    BY <2>2
  <2>4. ~(y < x)
    BY <2>2, <2>3 DEF LessThan
  <2>. QED BY <2>2, <2>4
<1>. QED BY <1>3

\* What comes down to a rung is at or below it.
LEMMA DownToRung ==
  ASSUME LadderAssumption, NEW rung \in 0 .. Rungs - 1, NEW l \in 1 .. Last
  PROVE  DownTo(rung, l) \in l .. Last /\ Levels[DownTo(rung, l)].rung >= rung
<1>. DEFINE S == {k \in l .. Last : k = Last \/ Levels[k].rung >= rung}
<1>1. Last \in Nat /\ S \in SUBSET Nat /\ Last \in S
  BY LevelsInOrder
<1>2. PICK k \in S : \A j \in S : k <= j
  BY <1>1, LeastOf
<1>3. \A j \in l .. k - 1 : Levels[j].rung < rung
  <2>1. SUFFICES ASSUME NEW j \in l .. k - 1 PROVE Levels[j].rung < rung
    OBVIOUS
  <2>2. j \notin S /\ j \in l .. Last /\ j \in 1 .. Last
    BY <1>1, <1>2
  <2>. QED BY <2>2, LevelsInOrder
<1>4. /\ DownTo(rung, l) \in l .. Last
      /\ DownTo(rung, l) = Last \/ Levels[DownTo(rung, l)].rung >= rung
  BY <1>2, <1>3 DEF DownTo
<1>. QED BY <1>4, LevelsInOrder

\* The next reachable level is further down, or there is none.
LEMMA ReachableFromBelow ==
  ASSUME LadderAssumption, NEW min, NEW l \in 1 .. Last + 1
  PROVE  ReachableFrom(min, l) \in l .. Last + 1
<1>. DEFINE good == {k \in l .. Last : Reachable(min, k)}
<1>1. Last \in Nat /\ good \in SUBSET Nat
  BY LevelsInOrder
<1>2. CASE good = {}
  BY <1>1, <1>2 DEF ReachableFrom
<1>3. CASE good # {}
  <2>1. \E k \in good : \A j \in good : k <= j
    BY <1>1, <1>3, LeastOf
  <2>2. ReachableFrom(min, l) \in good
    BY <2>1, <1>3 DEF ReachableFrom
  <2>. QED BY <2>2, <1>1
<1>. QED BY <1>2, <1>3

-----------------------------------------------------------------------------
(* The guard's operations: each keeps the type and says what it changes.   *)

\* The window is emptied.
LEMMA GuardEmptied ==
  ASSUME NEW g \in Guards, NEW e, e = [g EXCEPT !.window = << >>]
  PROVE  /\ e \in Guards /\ e.window = << >>
         /\ e.file = g.file /\ e.level = g.level /\ e.floor = g.floor
         /\ e.settled = g.settled /\ e.settle = g.settle /\ e.min = g.min
<1>1. PICK empty : empty = << >>
  OBVIOUS
<1>2. empty \in Seq(Frames)
  BY <1>1
<1>3. e = [g EXCEPT !.window = empty]
  BY <1>1
<1>4. /\ e \in Guards /\ e.window = empty
      /\ e.file = g.file /\ e.level = g.level /\ e.floor = g.floor
      /\ e.settled = g.settled /\ e.settle = g.settle /\ e.min = g.min
  BY <1>2, <1>3 DEF Guards
<1>. QED BY <1>1, <1>4

\* The window starts anew behind the frames to be left out.
LEMMA GuardCleared ==
  ASSUME SettleAssumption, NEW g \in Guards, NEW c, c = Cleared(g)
  PROVE  /\ c \in Guards /\ c.settle = Settle /\ c.window = << >>
         /\ c.file = g.file /\ c.level = g.level /\ c.floor = g.floor
         /\ c.settled = g.settled /\ c.min = g.min
<1>1. PICK empty : empty = << >>
  OBVIOUS
<1>2. empty \in Seq(Frames) /\ Settle \in 0 .. Settle
  BY <1>1 DEF SettleAssumption
<1>3. c = [g EXCEPT !.settle = Settle, !.window = empty]
  BY <1>1 DEF Cleared
<1>4. /\ c \in Guards /\ c.settle = Settle /\ c.window = empty
      /\ c.file = g.file /\ c.level = g.level /\ c.floor = g.floor
      /\ c.settled = g.settled /\ c.min = g.min
  BY <1>2, <1>3 DEF Guards
<1>. QED BY <1>1, <1>4

\* A level is settled for the preset that is measured.
LEMMA GuardSettles ==
  ASSUME LadderAssumption, NEW g \in Guards, g.file # NoPreset, NEW l \in 1 .. Last,
         NEW h, h = Settles(g, l)
  PROVE  /\ h \in Guards /\ h.level = l /\ h.settled[g.file] = l
         /\ h.file = g.file /\ h.floor = g.floor /\ h.min = g.min
         /\ h.settle = g.settle /\ h.window = g.window
         /\ \A q \in Presets \ {g.file} : h.settled[q] = g.settled[q]
<1>1. g.file \in Presets /\ g.settled \in [Presets -> 0 .. Last] /\ l \in 0 .. Last
  BY LevelsInOrder DEF Guards
<1>2. PICK with : with = [g.settled EXCEPT ![g.file] = l]
  OBVIOUS
<1>3. /\ with \in [Presets -> 0 .. Last] /\ with[g.file] = l
      /\ \A q \in Presets \ {g.file} : with[q] = g.settled[q]
  BY <1>1, <1>2
<1>4. h = [g EXCEPT !.level = l, !.settled = with]
  BY <1>2 DEF Settles, Guards
<1>5. /\ h \in Guards /\ h.level = l /\ h.settled = with
      /\ h.file = g.file /\ h.floor = g.floor /\ h.min = g.min
      /\ h.settle = g.settle /\ h.window = g.window
  BY <1>3, <1>4 DEF Guards
<1>. QED BY <1>3, <1>5

\* A preset that no level holds is no longer measured.
LEMMA GuardForgets ==
  ASSUME LadderAssumption, NEW g \in Guards, g.file # NoPreset,
         NEW h, h = [g EXCEPT !.settled[g.file] = 0, !.file = NoPreset]
  PROVE  /\ h \in Guards /\ h.file = NoPreset /\ h.settled[g.file] = 0
         /\ h.level = g.level /\ h.floor = g.floor /\ h.min = g.min
         /\ h.settle = g.settle /\ h.window = g.window
         /\ \A q \in Presets \ {g.file} : h.settled[q] = g.settled[q]
<1>1. g.file \in Presets /\ g.settled \in [Presets -> 0 .. Last] /\ 0 \in 0 .. Last
  BY LevelsInOrder DEF Guards
<1>2. PICK with : with = [g.settled EXCEPT ![g.file] = 0]
  OBVIOUS
<1>3. /\ with \in [Presets -> 0 .. Last] /\ with[g.file] = 0
      /\ \A q \in Presets \ {g.file} : with[q] = g.settled[q]
  BY <1>1, <1>2
<1>4. h = [g EXCEPT !.settled = with, !.file = NoPreset]
  BY <1>2 DEF Guards
<1>5. /\ h \in Guards /\ h.file = NoPreset /\ h.settled = with
      /\ h.level = g.level /\ h.floor = g.floor /\ h.min = g.min
      /\ h.settle = g.settle /\ h.window = g.window
  BY <1>3, <1>4 DEF Guards
<1>. QED BY <1>3, <1>5

\* A preset begins with an empty window at a level at or below the floor.
LEMMA BeginsWell ==
  ASSUME LadderAssumption, SettleAssumption, NEW g \in Guards, NEW p \in Presets,
         NEW h, h = Begins(g, p)
  PROVE  /\ h \in Guards /\ h.file = p /\ h.window = << >> /\ h.settle = Settle
         /\ h.floor = g.floor /\ h.min = g.min /\ h.settled = g.settled
         /\ Levels[h.level].rung >= g.floor
<1>. DEFINE from == IF g.settled[p] = 0 THEN DownTo(Hint[p], 1) ELSE g.settled[p]
            level == BeginAt(g, p)
            usable == ReachableFrom(g.min, level)
            begun == IF usable <= Last THEN usable ELSE level
<1>1. from \in 1 .. Last
  <2>1. Hint[p] \in 0 .. Rungs - 1 /\ g.settled[p] \in 0 .. Last /\ Last \in Nat \ {0}
    BY LevelsInOrder DEF Guards, LadderAssumption
  <2>2. DownTo(Hint[p], 1) \in 1 .. Last
    BY <2>1, DownToRung
  <2>. QED BY <2>1, <2>2
<1>2. level \in 1 .. Last /\ Levels[level].rung >= g.floor
  BY <1>1, DownToRung, LevelsInOrder DEF Guards, BeginAt
<1>. HIDE DEF level
<1>3. usable \in level .. Last + 1
  BY <1>2, ReachableFromBelow, LevelsInOrder
<1>. HIDE DEF usable
<1>4. begun \in 1 .. Last /\ Levels[begun].rung >= g.floor
  <2>1. begun \in 1 .. Last /\ level <= begun
    BY <1>2, <1>3, LevelsInOrder
  <2>. QED BY <2>1, <1>2, LevelsInOrder DEF Guards
<1>5. PICK c : c = Cleared(g)
  OBVIOUS
<1>6. /\ c \in Guards /\ c.settle = Settle /\ c.window = << >>
      /\ c.floor = g.floor /\ c.settled = g.settled /\ c.min = g.min
  BY <1>5, GuardCleared
<1>7. h = [c EXCEPT !.file = p, !.level = begun]
  BY <1>5 DEF Begins, usable, level
<1>. HIDE DEF begun
<1>. QED BY <1>4, <1>6, <1>7 DEF Guards

\* The verdict on a window.
LEMMA JudgesWell ==
  ASSUME LadderAssumption, SettleAssumption, NEW g \in Guards, g.file # NoPreset, NEW fps,
         NEW j, j = Judge(g, fps)
  PROVE  /\ j.g \in Guards /\ j.verdict \in {"accept", "stepdown", "skip"}
         /\ j.g.window = << >> /\ j.g.floor = g.floor /\ j.g.min = g.min
         /\ \A q \in Presets \ {g.file} : j.g.settled[q] = g.settled[q]
         /\ j.verdict = "accept" =>
              j.g.file = g.file /\ j.g.level = g.level /\ j.g.settle = g.settle
         /\ j.verdict = "stepdown" =>
              j.g.file = g.file /\ j.g.level > g.level /\ j.g.settle = Settle
         /\ j.verdict = "skip" =>
              j.g.file = NoPreset /\ j.g.level = g.level /\ j.g.settled[g.file] = 0
<1>1. g.level \in 1 .. Last /\ g.file \in Presets /\ Last \in Nat
  BY LevelsInOrder DEF Guards
<1>2. PICK next : next = ReachableFrom(g.min, g.level + 1)
  OBVIOUS
<1>3. next \in g.level + 1 .. Last + 1
  BY <1>1, <1>2, ReachableFromBelow, LevelsInOrder
<1>4. PICK e : e = [g EXCEPT !.window = << >>]
  OBVIOUS
<1>5. /\ e \in Guards /\ e.window = << >>
      /\ e.file = g.file /\ e.level = g.level /\ e.floor = g.floor
      /\ e.settled = g.settled /\ e.settle = g.settle /\ e.min = g.min
  BY <1>4, GuardEmptied
<1>6. CASE fps >= LevelFloor(g.min, g.level)
  <2>1. PICK h : h = Settles(e, g.level)
    OBVIOUS
  <2>2. /\ h \in Guards /\ h.level = g.level /\ h.file = g.file /\ h.floor = g.floor
        /\ h.min = g.min /\ h.settle = g.settle /\ h.window = << >>
        /\ \A q \in Presets \ {g.file} : h.settled[q] = g.settled[q]
    BY <2>1, <1>1, <1>5, GuardSettles
  <2>3. j = [g |-> h, verdict |-> "accept"]
    BY <2>1, <1>4, <1>6 DEF Judge
  <2>. QED BY <2>2, <2>3
<1>7. CASE ~(fps >= LevelFloor(g.min, g.level)) /\ next > Last
  <2>1. PICK h : h = [e EXCEPT !.settled[e.file] = 0, !.file = NoPreset]
    OBVIOUS
  <2>2. /\ h \in Guards /\ h.file = NoPreset /\ h.settled[g.file] = 0 /\ h.level = g.level
        /\ h.floor = g.floor /\ h.min = g.min /\ h.window = << >>
        /\ \A q \in Presets \ {g.file} : h.settled[q] = g.settled[q]
    <3>1. e.file # NoPreset
      BY <1>1, <1>5
    <3>2. /\ h \in Guards /\ h.file = NoPreset /\ h.settled[e.file] = 0
          /\ h.level = e.level /\ h.floor = e.floor /\ h.min = e.min
          /\ h.settle = e.settle /\ h.window = e.window
          /\ \A q \in Presets \ {e.file} : h.settled[q] = e.settled[q]
      BY <2>1, <3>1, <1>5, GuardForgets, ZenonT(30)
    <3>. QED BY <3>2, <1>5
  <2>3. j = [g |-> h, verdict |-> "skip"]
    BY <2>1, <1>2, <1>4, <1>5, <1>7 DEF Judge
  <2>. QED BY <2>2, <2>3
<1>8. CASE ~(fps >= LevelFloor(g.min, g.level)) /\ ~(next > Last)
  <2>1. next \in 1 .. Last /\ next > g.level
    BY <1>1, <1>3, <1>8
  <2>2. PICK s : s = Settles(e, next)
    OBVIOUS
  <2>3. /\ s \in Guards /\ s.level = next /\ s.file = g.file /\ s.floor = g.floor
        /\ s.min = g.min /\ s.window = << >>
        /\ \A q \in Presets \ {g.file} : s.settled[q] = g.settled[q]
    BY <2>1, <2>2, <1>1, <1>5, GuardSettles
  <2>4. PICK h : h = [s EXCEPT !.settle = Settle]
    OBVIOUS
  <2>5. /\ h \in Guards /\ h.level = next /\ h.file = g.file /\ h.floor = g.floor
        /\ h.min = g.min /\ h.window = << >> /\ h.settle = Settle /\ h.settled = s.settled
    <3>1. Settle \in 0 .. Settle
      BY DEF SettleAssumption
    <3>. QED BY <2>3, <2>4, <3>1 DEF Guards
  <2>6. j = [g |-> h, verdict |-> "stepdown"]
    BY <2>2, <2>4, <1>2, <1>4, <1>8 DEF Judge
  <2>. QED BY <2>1, <2>3, <2>5, <2>6
<1>. QED BY <1>6, <1>7, <1>8

\* A lower floor, and the level down to it.
LEMMA FloorsWell ==
  ASSUME LadderAssumption, SettleAssumption, NEW g \in Guards,
         NEW h, h = FloorSet(g, g.floor + 1)
  PROVE  /\ h \in Guards /\ h.file = g.file /\ h.min = g.min
         /\ h.floor = Least(g.floor + 1, Rungs - 1) /\ Levels[h.level].rung >= h.floor
         /\ h.level = g.level => h.settle = g.settle /\ h.window = g.window /\ h.settled = g.settled
         /\ h.level # g.level => h.settle = Settle /\ h.window = << >>
         /\ g.file = NoPreset => h.settled = g.settled
         /\ \A q \in Presets \ {g.file} : h.settled[q] = g.settled[q]
<1>1. PICK floor : floor = Least(g.floor + 1, Rungs - 1)
  OBVIOUS
<1>2. floor \in 0 .. Rungs - 1
  BY <1>1 DEF Guards, Least, LadderAssumption
<1>3. PICK w : w = [g EXCEPT !.floor = floor]
  OBVIOUS
<1>4. /\ w \in Guards /\ w.floor = floor /\ w.file = g.file /\ w.min = g.min
      /\ w.settle = g.settle /\ w.window = g.window /\ w.settled = g.settled
      /\ w.level = g.level
  BY <1>2, <1>3 DEF Guards
<1>5. PICK to : to = DownTo(w.floor, g.level)
  OBVIOUS
<1>6. to \in 1 .. Last /\ Levels[to].rung >= floor
  <2>1. g.level \in 1 .. Last /\ Last \in Nat
    BY LevelsInOrder DEF Guards
  <2>. QED BY <2>1, <1>2, <1>4, <1>5, DownToRung
<1>7. h = IF to = g.level THEN w
          ELSE Cleared(IF g.file = NoPreset THEN [w EXCEPT !.level = to] ELSE Settles(w, to))
  BY <1>1, <1>3, <1>5 DEF FloorSet
<1>8. CASE to = g.level
  BY <1>1, <1>4, <1>6, <1>7, <1>8
<1>9. CASE to # g.level /\ g.file = NoPreset
  <2>1. PICK d : d = [w EXCEPT !.level = to]
    OBVIOUS
  <2>2. /\ d \in Guards /\ d.floor = floor /\ d.file = g.file /\ d.min = g.min
        /\ d.settled = g.settled /\ d.level = to
    BY <2>1, <1>4, <1>6 DEF Guards
  <2>3. h = Cleared(d)
    BY <2>1, <1>7, <1>9
  <2>4. /\ h \in Guards /\ h.settle = Settle /\ h.window = << >>
        /\ h.file = d.file /\ h.level = d.level /\ h.floor = d.floor
        /\ h.settled = d.settled /\ h.min = d.min
    BY <2>2, <2>3, GuardCleared
  <2>. QED BY <2>2, <2>4, <1>1, <1>6, <1>9
<1>10. CASE to # g.level /\ g.file # NoPreset
  <2>1. PICK d : d = Settles(w, to)
    OBVIOUS
  <2>2. /\ d \in Guards /\ d.floor = floor /\ d.file = g.file /\ d.min = g.min
        /\ d.level = to /\ \A q \in Presets \ {g.file} : d.settled[q] = g.settled[q]
    BY <2>1, <1>4, <1>6, <1>10, GuardSettles
  <2>3. h = Cleared(d)
    BY <2>1, <1>7, <1>10
  <2>4. /\ h \in Guards /\ h.settle = Settle /\ h.window = << >>
        /\ h.file = d.file /\ h.level = d.level /\ h.floor = d.floor
        /\ h.settled = d.settled /\ h.min = d.min
    BY <2>2, <2>3, GuardCleared
  <2>. QED BY <2>2, <2>4, <1>1, <1>6, <1>10
<1>. QED BY <1>8, <1>9, <1>10

Pure(g) ==
  \A k \in DOMAIN g.window : g.window[k].preset = g.file /\ g.window[k].level = g.level

\* A flip: a frame is counted only if it is one of the measured preset at
\* its level; the frames to be left out become fewer only by a frame that is.
LEMMA FlipsWell ==
  ASSUME LadderAssumption, SettleAssumption, NEW g \in Guards, NEW f \in Frames, NEW fps,
         Pure(g), NEW j, j = OnFlip(g, f, fps),
         g.file # NoPreset /\ f.measurable /\ g.settle = 0 => f.preset = g.file /\ f.level = g.level
  PROVE  /\ j.g \in Guards /\ Pure(j.g) /\ j.g.floor = g.floor /\ j.g.min = g.min
         /\ j.verdict \in {"none", "accept", "stepdown", "skip"}
         /\ \A q \in Presets \ {g.file} : j.g.settled[q] = g.settled[q]
         /\ j.verdict = "none" => j.g.settled = g.settled
         /\ j.verdict # "none" => g.file # NoPreset
         /\ j.verdict = "skip" => j.g.file = NoPreset /\ j.g.settled[g.file] = 0
         /\ j.verdict # "skip" => j.g.file = g.file
         /\ j.verdict = "stepdown" => j.g.level > g.level
         /\ j.verdict # "stepdown" => j.g.level = g.level
         /\ j.g.file # NoPreset =>
              \/ j.g.settle >= 2
              \/ /\ f.measurable /\ j.g.file = g.file /\ j.g.level = g.level
                 /\ g.settle = 0 \/ j.g.settle = g.settle - 1
<1>1. CASE g.file = NoPreset
  <2>1. j = [g |-> g, verdict |-> "none"]
    BY <1>1 DEF OnFlip
  <2>. QED BY <2>1, <1>1
<1>2. CASE g.file # NoPreset /\ ~f.measurable
  <2>1. PICK c : c = Cleared(g)
    OBVIOUS
  <2>2. /\ c \in Guards /\ c.settle = Settle /\ c.window = << >>
        /\ c.file = g.file /\ c.level = g.level /\ c.floor = g.floor
        /\ c.settled = g.settled /\ c.min = g.min
    BY <2>1, GuardCleared
  <2>3. Pure(c)
    BY <2>2 DEF Pure
  <2>4. j = [g |-> c, verdict |-> "none"]
    BY <2>1, <1>2 DEF OnFlip
  <2>. QED BY <2>2, <2>3, <2>4, <1>2 DEF SettleAssumption
<1>3. CASE g.file # NoPreset /\ f.measurable /\ g.settle > 0
  <2>1. PICK c : c = [g EXCEPT !.settle = @ - 1]
    OBVIOUS
  <2>2. g.settle \in 0 .. Settle /\ g.settle - 1 \in 0 .. Settle
    BY <1>3 DEF Guards, SettleAssumption
  <2>3. /\ c \in Guards /\ c.settle = g.settle - 1 /\ c.window = g.window
        /\ c.file = g.file /\ c.level = g.level /\ c.floor = g.floor
        /\ c.settled = g.settled /\ c.min = g.min
    BY <2>1, <2>2 DEF Guards
  <2>4. Pure(c)
    BY <2>3 DEF Pure
  <2>5. j = [g |-> c, verdict |-> "none"]
    BY <2>1, <1>3 DEF OnFlip
  <2>. QED BY <2>3, <2>4, <2>5, <1>3
<1>4. CASE g.file # NoPreset /\ f.measurable /\ ~(g.settle > 0) /\ Len(g.window) + 1 < Window
  <2>0. g.settle = 0 /\ f.preset = g.file /\ f.level = g.level
    BY <1>4 DEF Guards, SettleAssumption
  <2>1. PICK w : w = Append(g.window, f)
    OBVIOUS
  <2>2. /\ w \in Seq(Frames)
        /\ \A k \in DOMAIN w : w[k].preset = g.file /\ w[k].level = g.level
    <3>1. g.window \in Seq(Frames)
      BY DEF Guards
    <3>. QED BY <2>0, <2>1, <3>1 DEF Pure
  <2>3. PICK c : c = [g EXCEPT !.window = w]
    OBVIOUS
  <2>4. /\ c \in Guards /\ c.settle = g.settle /\ c.window = w
        /\ c.file = g.file /\ c.level = g.level /\ c.floor = g.floor
        /\ c.settled = g.settled /\ c.min = g.min
    BY <2>2, <2>3 DEF Guards
  <2>5. Pure(c)
    BY <2>2, <2>4 DEF Pure
  <2>6. j = [g |-> c, verdict |-> "none"]
    BY <2>1, <2>3, <1>4 DEF OnFlip
  <2>. QED BY <2>0, <2>4, <2>5, <2>6, <1>4
<1>5. CASE /\ g.file # NoPreset /\ f.measurable /\ ~(g.settle > 0) /\ ~(Len(g.window) + 1 < Window)
  <2>1. j = Judge(g, fps)
    BY <1>5 DEF OnFlip
  <2>2. g.settle = 0
    BY <1>5 DEF Guards, SettleAssumption
  <2>3. Pure(j.g)
    <3>1. j.g.window = << >>
      BY <2>1, <1>5, JudgesWell
    <3>. QED BY <3>1 DEF Pure
  <2>4. /\ j.g \in Guards /\ j.verdict \in {"accept", "stepdown", "skip"}
        /\ j.g.floor = g.floor /\ j.g.min = g.min
        /\ \A q \in Presets \ {g.file} : j.g.settled[q] = g.settled[q]
        /\ j.verdict = "accept" =>
             j.g.file = g.file /\ j.g.level = g.level /\ j.g.settle = g.settle
        /\ j.verdict = "stepdown" =>
             j.g.file = g.file /\ j.g.level > g.level /\ j.g.settle = Settle
        /\ j.verdict = "skip" =>
             j.g.file = NoPreset /\ j.g.level = g.level /\ j.g.settled[g.file] = 0
    BY <2>1, <1>5, JudgesWell
  <2>5. Settle >= 2
    BY DEF SettleAssumption
  <2>. QED BY <2>2, <2>3, <2>4, <2>5, <1>5
<1>. QED BY <1>1, <1>2, <1>3, <1>4, <1>5

-----------------------------------------------------------------------------
(* Every step keeps IInv.                                                  *)

\* A preset was loaded: no level is settled yet, no frame is in flight.
LEMMA LadderStarts ==
  ASSUME LadderAssumption, SettleAssumption, LadderInit
  PROVE  IInv
<1>1. PICK min \in MinFps, p \in Presets :
        /\ guard = Begins(NoGuard(min), p) /\ applied = guard.level
        /\ front = NoPreset /\ pending = NoPreset /\ queued = NoPreset
        /\ app = [current |-> p, first |-> TRUE, blends |-> FALSE, holds |-> FALSE, presents |-> FALSE]
        /\ skipped = {} /\ thermal = [hot |-> -1, dropped |-> FALSE]
        /\ judged = [q \in Presets |-> min]
  BY DEF LadderInit
<1>2. PICK g : g = NoGuard(min)
  OBVIOUS
<1>3. g \in Guards /\ g.floor = 0 /\ g.settled = [q \in Presets |-> 0]
  <2>1. PICK empty, none : empty = << >> /\ none = [q \in Presets |-> 0]
    OBVIOUS
  <2>2. empty \in Seq(Frames) /\ none \in [Presets -> 0 .. Last]
    BY <2>1, LevelsInOrder
  <2>3. g = [file |-> NoPreset, level |-> 1, floor |-> 0, settled |-> none,
             settle |-> 0, window |-> empty, min |-> min]
    BY <1>2, <2>1 DEF NoGuard
  <2>4. 1 \in 1 .. Last /\ 0 \in 0 .. Rungs - 1 /\ 0 \in 0 .. Settle
    BY LevelsInOrder DEF LadderAssumption, SettleAssumption
  <2>. QED BY <1>1, <2>1, <2>2, <2>3, <2>4 DEF Guards
<1>4. /\ guard \in Guards /\ guard.file = p /\ guard.window = << >>
      /\ guard.floor = 0 /\ guard.settled = [q \in Presets |-> 0]
      /\ Levels[guard.level].rung >= 0
  BY <1>1, <1>2, <1>3, BeginsWell
<1>5. TypesOK
  <2>1. applied \in 1 .. Last
    BY <1>1, <1>4 DEF Guards
  <2>. QED BY <2>1, <1>1, <1>4 DEF TypesOK, Apps
<1>6. WindowIsPure
  BY <1>1, <1>4 DEF WindowIsPure
<1>7. LevelIsApplied
  BY <1>1, <1>4 DEF LevelIsApplied
<1>8. SettledIsCurrent
  BY <1>4 DEF SettledIsCurrent
<1>9. InFlightOK
  BY <1>1 DEF InFlightOK, Foreign
<1>. QED BY <1>5, <1>6, <1>7, <1>8, <1>9 DEF IInv, LadderIsSound

\* A frame is rendered for the preset that plays at the level that is applied.
LEMMA LadderRender ==
  ASSUME LadderAssumption, SettleAssumption, IInv, RenderFrame
  PROVE  IInv'
<1>. USE DEF IInv, LadderIsSound
<1>1. PICK blends \in BOOLEAN :
        /\ queued' = [preset |-> app.current, level |-> applied, measurable |-> ~app.first /\ ~blends]
        /\ app' = [app EXCEPT !.first = FALSE, !.blends = blends]
  BY DEF RenderFrame
<1>2. UNCHANGED <<guard, applied, front, pending, skipped, thermal, judged>> /\ ~app.holds
  BY DEF RenderFrame
<1>3. /\ app' \in Apps /\ app'.current = app.current /\ app'.holds = app.holds
      /\ queued' \in Frames /\ queued'.preset = app.current /\ queued'.level = applied
  BY <1>1 DEF TypesOK, Apps, Frames
<1>4. TypesOK'
  BY <1>2, <1>3 DEF TypesOK
<1>5. WindowIsPure' /\ LevelIsApplied' /\ SettledIsCurrent'
  BY <1>2, <1>3 DEF WindowIsPure, LevelIsApplied, SettledIsCurrent
<1>6. InFlightOK'
  BY <1>2, <1>3 DEF InFlightOK, Foreign, WindowIsPure, LevelIsApplied
<1>. QED BY <1>4, <1>5, <1>6

LEMMA LadderSubmit ==
  ASSUME LadderAssumption, SettleAssumption, IInv, PageFlip
  PROVE  IInv'
<1>. USE DEF IInv, LadderIsSound, PageFlip
<1>1. TypesOK'
  BY DEF TypesOK
<1>2. WindowIsPure' /\ LevelIsApplied' /\ SettledIsCurrent'
  BY DEF WindowIsPure, LevelIsApplied, SettledIsCurrent
<1>3. InFlightOK'
  BY DEF InFlightOK, Foreign
<1>. QED BY <1>1, <1>2, <1>3

\* A frame reached the screen; it is judged unless the preset is replaced.
LEMMA LadderFlip ==
  ASSUME LadderAssumption, SettleAssumption, IInv, Flip
  PROVE  IInv'
<1>. USE DEF IInv, LadderIsSound
<1>1. pending # NoPreset /\ pending' = NoPreset /\ UNCHANGED <<queued, thermal>>
  BY DEF Flip
<1>2. CASE app.holds
  <2>1. UNCHANGED <<guard, applied, app, skipped, judged>>
    BY <1>2 DEF Flip
  <2>2. TypesOK' /\ WindowIsPure' /\ LevelIsApplied' /\ SettledIsCurrent'
    BY <1>1, <2>1 DEF TypesOK, WindowIsPure, LevelIsApplied, SettledIsCurrent
  <2>3. InFlightOK'
    BY <1>1, <1>2, <2>1 DEF InFlightOK, Foreign
  <2>. QED BY <2>2, <2>3
<1>3. CASE ~app.holds
  <2>1. PICK fps, j :
          /\ j = OnFlip(guard, pending, fps) /\ guard' = j.g
          /\ CASE j.verdict = "stepdown" ->
                    applied' = guard'.level /\ app' = [app EXCEPT !.first = TRUE] /\ UNCHANGED skipped
               [] j.verdict = "skip" -> Skips /\ UNCHANGED <<applied, app>>
               [] OTHER -> UNCHANGED <<applied, app, skipped>>
          /\ IF j.verdict \in {"accept", "stepdown"} THEN Judged ELSE UNCHANGED judged
    BY <1>3 DEF Flip
  <2>2. guard \in Guards /\ pending \in Frames /\ Pure(guard)
    BY <1>1 DEF TypesOK, WindowIsPure, Pure
  <2>3. guard.file # NoPreset /\ pending.measurable /\ guard.settle = 0 =>
          pending.preset = guard.file /\ pending.level = guard.level
    BY <1>1 DEF InFlightOK, Foreign
  <2>4. /\ guard' \in Guards /\ Pure(guard') /\ guard'.floor = guard.floor /\ guard'.min = guard.min
        /\ j.verdict \in {"none", "accept", "stepdown", "skip"}
        /\ \A q \in Presets \ {guard.file} : guard'.settled[q] = guard.settled[q]
        /\ j.verdict = "none" => guard'.settled = guard.settled
        /\ j.verdict # "none" => guard.file # NoPreset
        /\ j.verdict = "skip" => guard'.file = NoPreset /\ guard'.settled[guard.file] = 0
        /\ j.verdict # "skip" => guard'.file = guard.file
        /\ j.verdict = "stepdown" => guard'.level > guard.level
        /\ j.verdict # "stepdown" => guard'.level = guard.level
        /\ guard'.file # NoPreset =>
             \/ guard'.settle >= 2
             \/ /\ pending.measurable /\ guard'.file = guard.file /\ guard'.level = guard.level
                /\ guard.settle = 0 \/ guard'.settle = guard.settle - 1
    BY <2>1, <2>2, <2>3, FlipsWell
  <2>5. app' \in Apps /\ app'.current = app.current /\ app'.holds = app.holds
    <3>1. app' = app \/ app' = [app EXCEPT !.first = TRUE]
      BY <2>1, <2>4
    <3>. QED BY <3>1 DEF TypesOK, Apps
  <2>6. applied' = guard'.level /\ applied' \in 1 .. Last
    <3>1. applied' = guard'.level
      BY <2>1, <2>4 DEF LevelIsApplied
    <3>. QED BY <3>1, <2>4 DEF Guards
  <2>7. judged' \in [Presets -> MinFps] /\ SettledIsCurrent'
    <3>1. CASE j.verdict \in {"accept", "stepdown"}
      <4>1. judged' = [judged EXCEPT ![guard.file] = guard.min] /\ guard.file \in Presets
        BY <2>1, <2>2, <2>4, <3>1 DEF Judged, Guards
      <4>2. guard.min \in MinFps
        BY <2>2 DEF Guards
      <4>3. judged' \in [Presets -> MinFps]
        BY <4>1, <4>2 DEF TypesOK
      <4>4. \A q \in Presets : guard'.settled[q] # 0 => judged'[q] = guard'.min
        BY <2>4, <4>1 DEF TypesOK, SettledIsCurrent
      <4>. QED BY <4>3, <4>4 DEF SettledIsCurrent
    <3>2. CASE j.verdict \in {"none", "skip"}
      <4>1. judged' = judged
        BY <2>1, <3>2
      <4>2. \A q \in Presets : guard'.settled[q] # 0 => judged'[q] = guard'.min
        BY <2>4, <3>2, <4>1 DEF SettledIsCurrent
      <4>. QED BY <4>1, <4>2 DEF TypesOK, SettledIsCurrent
    <3>. QED BY <2>4, <3>1, <3>2
  <2>8. TypesOK'
    BY <1>1, <2>4, <2>5, <2>6, <2>7 DEF TypesOK
  <2>9. WindowIsPure'
    <3>1. guard'.file \in {app'.current, NoPreset}
      BY <2>4, <2>5 DEF WindowIsPure
    <3>. QED BY <2>4, <3>1 DEF WindowIsPure, Pure
  <2>10. LevelIsApplied'
    <3>1. Levels[guard'.level].rung >= guard'.floor
      <4>1. guard.level \in 1 .. Last /\ guard'.level \in 1 .. Last /\ guard'.level >= guard.level
        BY <2>2, <2>4, LevelsInOrder DEF Guards
      <4>2. Levels[guard.level].rung <= Levels[guard'.level].rung
        BY <4>1, LevelsInOrder
      <4>3. guard.floor \in Int /\ Levels[guard.level].rung \in Int /\ Levels[guard'.level].rung \in Int
        BY <2>2, <4>1, LevelsInOrder DEF Guards, LadderAssumption
      <4>. QED BY <2>4, <4>2, <4>3 DEF LevelIsApplied
    <3>. QED BY <1>1, <2>4, <2>6, <3>1 DEF LevelIsApplied
  <2>11. InFlightOK'
    <3>1. guard.settle \in Nat /\ guard'.settle \in Nat
      BY <2>2, <2>4 DEF Guards, SettleAssumption
    <3>. QED BY <1>1, <1>3, <2>2, <2>4, <2>5, <3>1 DEF InFlightOK, Foreign
  <2>. QED BY <2>7, <2>8, <2>9, <2>10, <2>11
<1>. QED BY <1>2, <1>3

\* A preset begins, be it another or the playing one again: no frame waits,
\* the one that waits for its flip is among those to be left out.
LEMMA LadderBegins ==
  ASSUME LadderAssumption, SettleAssumption, IInv, NEW p \in Presets,
         guard' = Begins(guard, p), applied' = guard'.level, queued = NoPreset,
         app' \in Apps, app'.current = p, UNCHANGED <<frames, thermal, judged>>
  PROVE  IInv'
<1>. USE DEF IInv, LadderIsSound
<1>1. /\ guard' \in Guards /\ guard'.file = p /\ guard'.window = << >> /\ guard'.settle = Settle
      /\ guard'.floor = guard.floor /\ guard'.min = guard.min /\ guard'.settled = guard.settled
      /\ Levels[guard'.level].rung >= guard.floor
  BY BeginsWell DEF TypesOK
<1>2. TypesOK'
  <2>1. guard'.level \in 1 .. Last
    BY <1>1 DEF Guards
  <2>. QED BY <1>1, <2>1 DEF TypesOK, frames
<1>3. WindowIsPure'
  BY <1>1 DEF WindowIsPure
<1>4. LevelIsApplied'
  BY <1>1 DEF LevelIsApplied
<1>5. SettledIsCurrent'
  BY <1>1 DEF SettledIsCurrent
<1>6. InFlightOK'
  BY <1>1 DEF InFlightOK, Foreign, frames, SettleAssumption
<1>. QED BY <1>2, <1>3, <1>4, <1>5, <1>6

LEMMA LadderSwitchTo ==
  ASSUME LadderAssumption, SettleAssumption, IInv,
         NEW p \in Presets, NEW b \in BOOLEAN, SwitchTo(p, b) \/ Deferred(p, b)
  PROVE  IInv'
<1>1. CASE SwitchTo(p, b)
  <2>1. app' \in Apps /\ app'.current = p
    BY <1>1 DEF SwitchTo, IInv, TypesOK, Apps
  <2>. QED BY <1>1, <2>1, LadderBegins DEF SwitchTo
<1>2. CASE Deferred(p, b)
  <2>1. app' \in Apps /\ app'.current = app.current /\ app.current \in Presets
    BY <1>2 DEF Deferred, IInv, TypesOK, Apps
  <2>. QED BY <1>2, <2>1, LadderBegins DEF Deferred
<1>. QED BY <1>1, <1>2

LEMMA LadderHang ==
  ASSUME LadderAssumption, SettleAssumption, IInv, Hang
  PROVE  IInv'
<1>. USE DEF IInv, LadderIsSound, Hang
<1>1. app' \in Apps /\ app'.current = app.current
  BY DEF TypesOK, Apps
<1>2. TypesOK'
  BY <1>1 DEF TypesOK
<1>3. WindowIsPure' /\ LevelIsApplied' /\ SettledIsCurrent'
  BY <1>1 DEF WindowIsPure, LevelIsApplied, SettledIsCurrent
<1>4. InFlightOK'
  BY DEF InFlightOK, Foreign
<1>. QED BY <1>2, <1>3, <1>4

\* The display is taken: the window starts anew.
LEMMA LadderTake ==
  ASSUME LadderAssumption, SettleAssumption, IInv, Take
  PROVE  IInv'
<1>. USE DEF IInv, LadderIsSound
<1>1. /\ guard' \in Guards /\ guard'.settle = Settle /\ guard'.window = << >>
      /\ guard'.file = guard.file /\ guard'.level = guard.level /\ guard'.floor = guard.floor
      /\ guard'.settled = guard.settled /\ guard'.min = guard.min
  BY GuardCleared DEF Take, TypesOK
<1>2. app' \in Apps /\ app'.current = app.current /\ queued' = NoPreset
  BY DEF Take, TypesOK, Apps
<1>3. UNCHANGED <<applied, pending, skipped, thermal, judged>>
  BY DEF Take
<1>4. TypesOK'
  BY <1>1, <1>2, <1>3 DEF TypesOK
<1>5. WindowIsPure' /\ LevelIsApplied' /\ SettledIsCurrent'
  BY <1>1, <1>2, <1>3 DEF WindowIsPure, LevelIsApplied, SettledIsCurrent
<1>6. InFlightOK'
  BY <1>1, <1>2, <1>3 DEF InFlightOK, Foreign, SettleAssumption
<1>. QED BY <1>4, <1>5, <1>6

LEMMA LadderRelease ==
  ASSUME LadderAssumption, SettleAssumption, IInv, ReleaseDisplay
  PROVE  IInv'
<1>. USE DEF IInv, LadderIsSound, ReleaseDisplay
<1>1. app' \in Apps /\ app'.current = app.current
  BY DEF TypesOK, Apps
<1>2. TypesOK'
  BY <1>1 DEF TypesOK
<1>3. WindowIsPure' /\ LevelIsApplied' /\ SettledIsCurrent'
  BY <1>1 DEF WindowIsPure, LevelIsApplied, SettledIsCurrent
<1>4. InFlightOK'
  BY DEF InFlightOK, Foreign
<1>. QED BY <1>2, <1>3, <1>4

\* Another minimum rate: what was settled is forgotten.
LEMMA LadderSetMinFps ==
  ASSUME LadderAssumption, SettleAssumption, IInv, NEW min \in MinFps, SetMinFps(min)
  PROVE  IInv'
<1>. USE DEF IInv, LadderIsSound
<1>1. guard' = MinSet(guard, min) /\ UNCHANGED <<applied, frames, app, thermal, judged>>
  BY DEF SetMinFps
<1>2. PICK c : c = [guard EXCEPT !.min = min, !.settled = [p \in Presets |-> 0]]
  OBVIOUS
<1>3. /\ c \in Guards /\ c.min = min /\ c.settled = [p \in Presets |-> 0]
      /\ c.file = guard.file /\ c.level = guard.level /\ c.floor = guard.floor
      /\ c.settle = guard.settle /\ c.window = guard.window
  <2>1. PICK none : none = [p \in Presets |-> 0]
    OBVIOUS
  <2>2. none \in [Presets -> 0 .. Last]
    BY <2>1, LevelsInOrder
  <2>3. c = [guard EXCEPT !.min = min, !.settled = none]
    BY <1>2, <2>1
  <2>. QED BY <2>1, <2>2, <2>3 DEF TypesOK, Guards
<1>4. PICK e : e = Cleared(c)
  OBVIOUS
<1>5. /\ e \in Guards /\ e.settle = Settle /\ e.window = << >>
      /\ e.file = guard.file /\ e.level = guard.level /\ e.floor = guard.floor
      /\ e.settled = [p \in Presets |-> 0] /\ e.min = min
  BY <1>3, <1>4, GuardCleared
<1>6. /\ guard' \in Guards /\ guard'.min = min /\ guard'.settled = [p \in Presets |-> 0]
      /\ guard'.level = guard.level /\ guard'.floor = guard.floor
      /\ \/ guard.file = NoPreset /\ guard'.file = NoPreset /\ guard'.window = guard.window
         \/ guard'.file \in {guard.file, NoPreset} /\ guard'.window = << >> /\ guard'.settle = Settle
  <2>1. CASE guard.file = NoPreset
    <3>1. guard' = c
      BY <1>1, <1>2, <2>1 DEF MinSet
    <3>. QED BY <3>1, <2>1, <1>3
  <2>2. CASE guard.file # NoPreset /\ Reachable(min, guard.level)
    <3>1. guard' = e
      BY <1>1, <1>2, <1>4, <2>2 DEF MinSet
    <3>. QED BY <3>1, <1>5
  <2>3. CASE guard.file # NoPreset /\ ~Reachable(min, guard.level)
    <3>1. guard' = [e EXCEPT !.file = NoPreset]
      BY <1>1, <1>2, <1>4, <2>3 DEF MinSet
    <3>. QED BY <3>1, <1>5 DEF Guards
  <2>. QED BY <2>1, <2>2, <2>3
<1>7. TypesOK'
  BY <1>1, <1>6 DEF TypesOK, frames
<1>8. WindowIsPure'
  BY <1>1, <1>6 DEF WindowIsPure
<1>9. LevelIsApplied' /\ SettledIsCurrent'
  BY <1>1, <1>6 DEF LevelIsApplied, SettledIsCurrent
<1>10. InFlightOK'
  BY <1>1, <1>6 DEF InFlightOK, Foreign, frames, SettleAssumption
<1>. QED BY <1>7, <1>8, <1>9, <1>10

\* A reading: when the device has been hot for long the floor comes down one
\* rung, and the level with it.
LEMMA LadderThermal ==
  ASSUME LadderAssumption, SettleAssumption, IInv,
         NEW reading \in {"missing", "cool", "warm"}, Thermal(reading)
  PROVE  IInv'
<1>. USE DEF IInv, LadderIsSound
<1>1. UNCHANGED <<frames, skipped>>
  BY DEF Thermal
<1>2. Hotter \in Int /\ Most(Hotter, 0) \in Int
  BY DEF Hotter, Least, Most, TypesOK, LadderAssumption
<1>3. CASE reading = "warm" /\ Drops
  <2>1. guard' = FloorSet(guard, guard.floor + 1)
    BY <1>3 DEF Thermal
  <2>2. guard \in Guards
    BY DEF TypesOK
  <2>3. /\ guard' \in Guards /\ guard'.file = guard.file /\ guard'.min = guard.min
        /\ guard'.floor = Least(guard.floor + 1, Rungs - 1)
        /\ Levels[guard'.level].rung >= guard'.floor
        /\ guard'.level = guard.level =>
             guard'.settle = guard.settle /\ guard'.window = guard.window
             /\ guard'.settled = guard.settled
        /\ guard'.level # guard.level => guard'.settle = Settle /\ guard'.window = << >>
        /\ guard.file = NoPreset => guard'.settled = guard.settled
        /\ \A q \in Presets \ {guard.file} : guard'.settled[q] = guard.settled[q]
    BY <2>1, <2>2, FloorsWell
  <2>4. thermal' \in [hot : Int, dropped : BOOLEAN]
    BY <1>2, <1>3 DEF Thermal, Drops, TypesOK
  <2>5. app' \in Apps /\ app'.current = app.current /\ app'.holds = app.holds
    <3>1. app' = app \/ app' = [app EXCEPT !.first = TRUE]
      BY <1>3 DEF Thermal
    <3>. QED BY <3>1 DEF TypesOK, Apps
  <2>6. applied' = guard'.level /\ applied' \in 1 .. Last
    <3>1. applied' = guard'.level
      BY <1>3 DEF Thermal, LevelIsApplied
    <3>. QED BY <3>1, <2>3 DEF Guards
  <2>7. judged' \in [Presets -> MinFps] /\ SettledIsCurrent'
    <3>1. CASE guard'.level = guard.level \/ guard.file = NoPreset
      <4>1. judged' = judged /\ guard'.settled = guard.settled
        BY <1>3, <2>3, <3>1 DEF Thermal
      <4>. QED BY <4>1, <2>3 DEF TypesOK, SettledIsCurrent
    <3>2. CASE guard'.level # guard.level /\ guard.file # NoPreset
      <4>1. judged' = [judged EXCEPT ![guard.file] = guard.min]
        BY <1>3, <3>2 DEF Thermal, Judged
      <4>2. guard.file \in Presets /\ guard.min \in MinFps
        BY <2>2, <3>2 DEF Guards
      <4>3. judged' \in [Presets -> MinFps]
        BY <4>1, <4>2 DEF TypesOK
      <4>4. \A q \in Presets : guard'.settled[q] # 0 => judged'[q] = guard'.min
        BY <2>3, <4>1, <4>2 DEF TypesOK, SettledIsCurrent
      <4>. QED BY <4>3, <4>4 DEF SettledIsCurrent
    <3>. QED BY <3>1, <3>2
  <2>8. TypesOK'
    BY <1>1, <2>3, <2>4, <2>5, <2>6, <2>7 DEF TypesOK, frames
  <2>9. WindowIsPure'
    BY <2>3, <2>5 DEF WindowIsPure
  <2>10. LevelIsApplied'
    <3>1. guard'.floor >= Least(1, Rungs - 1)
      BY <2>2, <2>3 DEF Guards, Least, LadderAssumption
    <3>. QED BY <2>3, <2>6, <3>1 DEF LevelIsApplied
  <2>11. InFlightOK'
    BY <1>1, <2>3, <2>5 DEF InFlightOK, Foreign, frames, SettleAssumption
  <2>. QED BY <2>7, <2>8, <2>9, <2>10, <2>11
<1>4. CASE ~(reading = "warm" /\ Drops)
  <2>1. UNCHANGED <<guard, applied, app, judged>>
    BY <1>4 DEF Thermal
  <2>2. thermal' \in [hot : Int, dropped : BOOLEAN] /\ thermal'.dropped = thermal.dropped
    BY <1>2, <1>4 DEF Thermal, TypesOK
  <2>3. TypesOK' /\ WindowIsPure' /\ LevelIsApplied' /\ SettledIsCurrent'
    BY <1>1, <2>1, <2>2 DEF TypesOK, WindowIsPure, LevelIsApplied, SettledIsCurrent, frames
  <2>4. InFlightOK'
    BY <1>1, <2>1 DEF InFlightOK, Foreign, frames
  <2>. QED BY <2>3, <2>4
<1>. QED BY <1>3, <1>4

\* What the cost guard measures is of the playing preset at the level that is
\* rendered, what is rendered is its level and never above the thermal floor,
\* and what it remembers was judged under the minimum rate of now, for every
\* ladder, set of presets and hints, window and settling time (cost_guard.cpp:65,
\* main.cpp:643 and 884).
THEOREM LadderHolds ==
  ASSUME LadderAssumption, SettleAssumption
  PROVE  LadderSpec => []LadderIsSound
<1>1. LadderInit => IInv
  BY LadderStarts
<1>2. IInv /\ [LadderNext]_ladderVars => IInv'
  <2>1. SUFFICES ASSUME IInv, [LadderNext]_ladderVars PROVE IInv'
    OBVIOUS
  <2>2. CASE RenderFrame
    BY <2>1, <2>2, LadderRender
  <2>3. CASE PageFlip
    BY <2>1, <2>3, LadderSubmit
  <2>4. CASE Flip
    BY <2>1, <2>4, LadderFlip
  <2>5. CASE Hang
    BY <2>1, <2>5, LadderHang
  <2>6. CASE Take
    BY <2>1, <2>6, LadderTake
  <2>7. CASE ReleaseDisplay
    BY <2>1, <2>7, LadderRelease
  <2>8. ASSUME NEW p \in Presets, NEW b \in BOOLEAN, SwitchTo(p, b) \/ Deferred(p, b)
        PROVE  IInv'
    BY <2>1, <2>8, LadderSwitchTo
  <2>9. ASSUME NEW min \in MinFps, SetMinFps(min)
        PROVE  IInv'
    BY <2>1, <2>9, LadderSetMinFps
  <2>10. ASSUME NEW reading \in {"missing", "cool", "warm"}, Thermal(reading)
         PROVE  IInv'
    BY <2>1, <2>10, LadderThermal
  <2>11. CASE UNCHANGED ladderVars
    BY <2>1, <2>11 DEF ladderVars, IInv, TypesOK, LadderIsSound, WindowIsPure, LevelIsApplied,
                       SettledIsCurrent, InFlightOK, Foreign
  <2>. QED BY <2>1, <2>2, <2>3, <2>4, <2>5, <2>6, <2>7, <2>8, <2>9, <2>10, <2>11 DEF LadderNext
<1>3. IInv => LadderIsSound
  BY DEF IInv
<1>. QED BY <1>1, <1>2, <1>3, PTL DEF LadderSpec

-----------------------------------------------------------------------------
(* Scanout: buffers, locks and flips, for any number of buffers.           *)

BuffersTypeOK ==
  /\ locked \subseteq Bufs /\ left \subseteq Bufs /\ fbs \subseteq Bufs
  /\ held \in [front : Bufs \union {None}, pend : Bufs \union {None}, queue : Bufs \union {None}]
  /\ kms \in [screen : Bufs \union {None}, flight : Bufs \union {None}, events : Nat]
  /\ phase \in {"prepared", "presenting", "released"}

\* Presenting, the renderer is master, and the display shows what it thinks:
\* between flips, with a flip in flight, or with an event not read.
Between == held.pend = None /\ kms.flight = None /\ kms.events = 0 /\ kms.screen = held.front
InFlight == held.pend # None /\ kms.flight = held.pend /\ kms.events = 0 /\ kms.screen = held.front
Unread == held.pend # None /\ kms.flight = None /\ kms.events = 1 /\ kms.screen = held.pend

FlipsAgree ==
  IF phase = "presenting" THEN master = TRUE /\ (Between \/ InFlight \/ Unread)
  ELSE /\ held.front = None /\ held.pend = None /\ kms.flight = None /\ kms.events = 0
       /\ kms.screen \notin fbs
       /\ pc # "done" => kms.screen \in left \union {None}

\* Where the loop is says what it is about to do.
StagesOK ==
  /\ pc \in {"render", "master", "crtc", "done"} => phase # "presenting"
  /\ pc \in {"frame", "drain", "drainExit"} => phase = "presenting"
  /\ pc = "crtc" => master = TRUE

HoldersDiffer ==
  /\ Real({held.front, held.pend, held.queue}) \union left \subseteq locked
  /\ Real({held.front, held.pend, held.queue}) \intersect left = {}
  /\ held.front # None => held.front \notin {held.pend, held.queue}
  /\ held.pend # None => held.pend # held.queue
  /\ left \intersect fbs = {}

ScanoutInv == BuffersTypeOK /\ FlipsAgree /\ StagesOK /\ HoldersDiffer

LEMMA ScanoutInit ==
  ASSUME BufsAssumption, Init PROVE ScanoutInv
BY DEF Init, Nothing, ScanoutInv, BuffersTypeOK, FlipsAgree, StagesOK, HoldersDiffer, Real, BufsAssumption

LEMMA ScanoutImplies ==
  ASSUME BufsAssumption, ScanoutInv PROVE OnScreenIsSafe
<1>1. ScanoutIsLocked
  BY DEF ScanoutInv, BuffersTypeOK, FlipsAgree, HoldersDiffer, Between, InFlight, Unread, ScanoutIsLocked, Real
<1>2. ScanoutKeepsFb
  BY DEF ScanoutInv, FlipsAgree, StagesOK, ScanoutKeepsFb, Real, BuffersTypeOK, BufsAssumption
<1>3. ReleasedStaysLeft
  BY DEF ScanoutInv, FlipsAgree, StagesOK, ReleasedStaysLeft, Real
<1>. QED BY <1>1, <1>2, <1>3 DEF OnScreenIsSafe

\* An event read: the buffer shown before has no other holder.
LEMMA LandedWell ==
  ASSUME BufsAssumption, ScanoutInv, phase = "presenting", kms.events > 0, Dispatch,
         UNCHANGED <<left, fbs, master, phase>>
  PROVE  BuffersTypeOK' /\ HoldersDiffer' /\ Between'
<1>. USE DEF ScanoutInv
<1>1. Unread
  BY DEF FlipsAgree, Between, InFlight, Unread
<1>2. /\ held'.front = held.pend /\ held'.pend = None /\ held'.queue = held.queue
      /\ held' \in [front : Bufs \union {None}, pend : Bufs \union {None}, queue : Bufs \union {None}]
  BY DEF Dispatch, Landed, BuffersTypeOK
<1>3. /\ kms'.events = 0 /\ kms'.flight = kms.flight /\ kms'.screen = kms.screen
      /\ kms' \in [screen : Bufs \union {None}, flight : Bufs \union {None}, events : Nat]
  BY DEF Dispatch, BuffersTypeOK
<1>4. locked' = locked \ {held.front}
  BY DEF Dispatch, Landed
<1>5. BuffersTypeOK'
  BY <1>2, <1>3, <1>4 DEF BuffersTypeOK
<1>6. HoldersDiffer'
  <2>1. held.front \notin left
    BY DEF HoldersDiffer, Real, BuffersTypeOK, BufsAssumption
  <2>2. {held.pend, held.queue} \ {None} \subseteq locked /\ left \subseteq locked
    BY DEF HoldersDiffer, Real
  <2>3. held.front = None \/ held.front \notin {held.pend, held.queue}
    BY DEF HoldersDiffer
  <2>4. ({held.pend, held.queue} \ {None}) \union left \subseteq locked'
    BY <1>4, <2>1, <2>2, <2>3
  <2>5. held.pend # None /\ held.pend # held.queue
    BY <1>1 DEF Unread, HoldersDiffer
  <2>6. ({held.pend, held.queue} \ {None}) \intersect left = {} /\ left \intersect fbs = {}
    BY DEF HoldersDiffer, Real
  <2>. QED BY <1>2, <2>4, <2>5, <2>6 DEF HoldersDiffer, Real
<1>7. Between'
  BY <1>1, <1>2, <1>3 DEF Between, Unread
<1>. QED BY <1>5, <1>6, <1>7

\* A buffer drawn is a free one: nobody holds it, the display does not show it.
LEMMA RenderedWell ==
  ASSUME BufsAssumption, ScanoutInv, Render, UNCHANGED <<left, kms, master, phase>>, pc # "done", pc' # "done"
  PROVE  BuffersTypeOK' /\ HoldersDiffer' /\ FlipsAgree'
<1>. USE DEF ScanoutInv
<1>1. PICK b \in Bufs :
        /\ b \notin locked /\ locked' = locked \union {b} /\ fbs' = fbs \union {b}
        /\ held' = [held EXCEPT !.queue = b] /\ held.queue = None
  BY DEF Render, Free
<1>2. /\ held'.front = held.front /\ held'.pend = held.pend /\ held'.queue = b
      /\ held' \in [front : Bufs \union {None}, pend : Bufs \union {None}, queue : Bufs \union {None}]
  BY <1>1 DEF BuffersTypeOK
<1>3. BuffersTypeOK'
  BY <1>1, <1>2 DEF BuffersTypeOK
<1>4. HoldersDiffer'
  BY <1>1, <1>2 DEF HoldersDiffer, Real, BuffersTypeOK
<1>5. FlipsAgree'
  BY <1>1, <1>2 DEF FlipsAgree, Between, InFlight, Unread, HoldersDiffer, BufsAssumption
<1>. QED BY <1>3, <1>4, <1>5

\* A queued frame that is given up.
LEMMA QueueDropped ==
  ASSUME BufsAssumption, ScanoutInv, held.queue # None, pc # "done", pc' # "done",
         locked' = locked \ {held.queue}, held' = [held EXCEPT !.queue = None],
         UNCHANGED <<left, kms, fbs, master, phase>>
  PROVE  BuffersTypeOK' /\ HoldersDiffer' /\ FlipsAgree'
<1>. USE DEF ScanoutInv
<1>1. /\ held'.front = held.front /\ held'.pend = held.pend /\ held'.queue = None
      /\ held' \in [front : Bufs \union {None}, pend : Bufs \union {None}, queue : Bufs \union {None}]
  BY DEF BuffersTypeOK
<1>2. BuffersTypeOK' /\ HoldersDiffer'
  BY <1>1 DEF BuffersTypeOK, HoldersDiffer, Real
<1>3. FlipsAgree'
  BY <1>1 DEF FlipsAgree, Between, InFlight, Unread
<1>. QED BY <1>2, <1>3

\* The loop's steps between its acts, with nothing held or shown otherwise.
LEMMA NothingMoves ==
  ASSUME BufsAssumption, ScanoutInv, UNCHANGED <<locked, held, left, kms, fbs, phase>>, StagesOK',
         pc # "done", pc' # "done", phase = "presenting" => master' = master
  PROVE  ScanoutInv'
BY DEF ScanoutInv, BuffersTypeOK, FlipsAgree, Between, InFlight, Unread, HoldersDiffer

-----------------------------------------------------------------------------
LEMMA ScanoutPoll ==
  ASSUME BufsAssumption, ScanoutInv, Poll PROVE ScanoutInv'
<1>1. StagesOK' /\ UNCHANGED <<left, fbs, master, phase>> /\ pc' # "done" /\ pc # "done"
  BY DEF Poll, ScanoutInv, StagesOK
<1>2. CASE phase = "presenting" /\ held.pend # None /\ kms.events > 0
  <2>1. BuffersTypeOK' /\ HoldersDiffer' /\ Between'
    BY <1>1, <1>2, LandedWell DEF Poll
  <2>. QED BY <1>1, <1>2, <2>1 DEF ScanoutInv, FlipsAgree
<1>3. CASE ~(phase = "presenting" /\ held.pend # None /\ kms.events > 0)
  BY <1>1, <1>3, NothingMoves DEF Poll
<1>. QED BY <1>2, <1>3

LEMMA ScanoutDrops ==
  ASSUME BufsAssumption, ScanoutInv, DropQueued PROVE ScanoutInv'
<1>1. StagesOK' /\ pc' # "done" /\ pc # "done"
  BY DEF DropQueued, ScanoutInv, StagesOK
<1>. QED BY <1>1, QueueDropped DEF DropQueued, ScanoutInv

LEMMA ScanoutCommands ==
  ASSUME BufsAssumption, ScanoutInv,
         CommandsRead \/ TakeCommand \/ TakeMaster \/ TakeFails \/ NoSubmit \/ Release
  PROVE  ScanoutInv'
<1>1. /\ StagesOK' /\ UNCHANGED <<locked, held, left, kms, fbs, phase>>
      /\ pc' # "done" /\ pc # "done" /\ (phase = "presenting" => master' = master)
  BY DEF CommandsRead, TakeCommand, TakeMaster, TakeFails, NoSubmit, Release, ScanoutInv, StagesOK
<1>. QED BY <1>1, NothingMoves

LEMMA ScanoutRenders ==
  ASSUME BufsAssumption, ScanoutInv, TakeRenders \/ PresentFrame PROVE ScanoutInv'
<1>1. /\ StagesOK' /\ UNCHANGED <<left, kms, master, phase>> /\ pc' # "done" /\ pc # "done"
  BY DEF TakeRenders, PresentFrame, ScanoutInv, StagesOK
<1>2. CASE Render
  BY <1>1, <1>2, RenderedWell DEF ScanoutInv
<1>3. CASE UNCHANGED <<locked, fbs, held>>
  BY <1>1, <1>3, NothingMoves
<1>. QED BY <1>2, <1>3 DEF TakeRenders, PresentFrame

\* SetCrtc: the queued frame is up, what was left to the display is not.
LEMMA ScanoutPuts ==
  ASSUME BufsAssumption, ScanoutInv, TakePuts PROVE ScanoutInv'
<1>. USE DEF ScanoutInv, TakePuts
<1>1. phase # "presenting" /\ held.front = None /\ held.pend = None /\ master = TRUE
      /\ kms.flight = None /\ kms.events = 0
  BY DEF StagesOK, FlipsAgree
<1>2. /\ held'.front = held.queue /\ held'.pend = None /\ held'.queue = None
      /\ held' \in [front : Bufs \union {None}, pend : Bufs \union {None}, queue : Bufs \union {None}]
  BY <1>1 DEF BuffersTypeOK
<1>3. /\ kms'.screen = held.queue /\ kms'.flight = None /\ kms'.events = 0
      /\ kms' \in [screen : Bufs \union {None}, flight : Bufs \union {None}, events : Nat]
  BY <1>1 DEF BuffersTypeOK
<1>4. BuffersTypeOK'
  BY <1>2, <1>3 DEF BuffersTypeOK
<1>5. FlipsAgree'
  BY <1>1, <1>2, <1>3 DEF FlipsAgree, Between
<1>6. StagesOK'
  BY DEF StagesOK
<1>7. HoldersDiffer'
  BY <1>2 DEF HoldersDiffer, Real
<1>. QED BY <1>4, <1>5, <1>6, <1>7

LEMMA ScanoutSubmits ==
  ASSUME BufsAssumption, ScanoutInv, Submit PROVE ScanoutInv'
<1>. USE DEF ScanoutInv, Submit
<1>1. Between
  BY DEF FlipsAgree, Between, InFlight, Unread
<1>2. /\ held'.front = held.front /\ held'.pend = held.queue /\ held'.queue = None
      /\ held' \in [front : Bufs \union {None}, pend : Bufs \union {None}, queue : Bufs \union {None}]
  BY DEF BuffersTypeOK
<1>3. /\ kms'.screen = kms.screen /\ kms'.flight = held.queue /\ kms'.events = kms.events
      /\ kms' \in [screen : Bufs \union {None}, flight : Bufs \union {None}, events : Nat]
  BY DEF BuffersTypeOK
<1>4. BuffersTypeOK'
  BY <1>2, <1>3 DEF BuffersTypeOK
<1>5. FlipsAgree'
  BY <1>1, <1>2, <1>3 DEF FlipsAgree, Between, InFlight
<1>6. StagesOK' /\ HoldersDiffer'
  BY <1>1, <1>2 DEF StagesOK, HoldersDiffer, Between, Real
<1>. QED BY <1>4, <1>5, <1>6

LEMMA ScanoutDrains ==
  ASSUME BufsAssumption, ScanoutInv, DrainEvent PROVE ScanoutInv'
<1>1. phase = "presenting" /\ StagesOK' /\ kms.events > 0
  BY DEF DrainEvent, Draining, Dispatch, ScanoutInv, StagesOK
<1>2. BuffersTypeOK' /\ HoldersDiffer' /\ Between'
  BY <1>1, LandedWell DEF DrainEvent
<1>. QED BY <1>1, <1>2 DEF ScanoutInv, FlipsAgree, DrainEvent

\* The flip in flight has landed: front_ is what the display shows, and is left to it.
LEMMA ScanoutLeaves ==
  ASSUME BufsAssumption, ~LateFlips, ScanoutInv, Leave PROVE ScanoutInv'
<1>. USE DEF ScanoutInv, Leave
<1>1. phase = "presenting" /\ held.pend = None
  BY DEF MayLeave, Draining, StagesOK
<1>2. Between
  BY <1>1 DEF FlipsAgree, Between, InFlight, Unread
<1>3. /\ held'.front = None /\ held'.pend = None /\ held'.queue = None
      /\ held' \in [front : Bufs \union {None}, pend : Bufs \union {None}, queue : Bufs \union {None}]
  BY DEF Nothing
<1>4. ScreenLeft = {held.front} \ {None} /\ ScreenLeft \subseteq Bufs
  BY <1>1 DEF ScreenLeft, Real, BuffersTypeOK
<1>5. BuffersTypeOK'
  BY <1>3, <1>4 DEF BuffersTypeOK
<1>6. FlipsAgree'
  BY <1>2, <1>3, <1>4 DEF FlipsAgree, Between, BuffersTypeOK, BufsAssumption
<1>7. StagesOK'
  BY DEF StagesOK, Draining
<1>8. HoldersDiffer'
  <2>1. locked' = locked \ {held.queue} /\ left' = left \union ScreenLeft /\ fbs' = fbs \ ScreenLeft
    OBVIOUS
  <2>2. left \subseteq locked /\ ScreenLeft \subseteq locked /\ left \intersect fbs = {}
    BY <1>4 DEF HoldersDiffer, Real
  <2>3. held.queue \notin left /\ held.queue \notin ScreenLeft
    BY <1>4 DEF HoldersDiffer, Real, BuffersTypeOK, BufsAssumption
  <2>4. left' \subseteq locked' /\ left' \intersect fbs' = {}
    BY <2>1, <2>2, <2>3
  <2>. QED BY <1>3, <2>4 DEF HoldersDiffer, Real
<1>. QED BY <1>5, <1>6, <1>7, <1>8

LEMMA ScanoutTeardown ==
  ASSUME BufsAssumption, ScanoutInv, Teardown PROVE ScanoutInv'
<1>. USE DEF ScanoutInv, Teardown
<1>1. /\ held'.front = held.front /\ held'.pend = held.pend /\ held'.queue = None
      /\ held' \in [front : Bufs \union {None}, pend : Bufs \union {None}, queue : Bufs \union {None}]
  BY DEF BuffersTypeOK
<1>2. BuffersTypeOK'
  BY <1>1 DEF BuffersTypeOK
<1>3. FlipsAgree' /\ StagesOK'
  BY <1>1 DEF FlipsAgree, StagesOK
<1>4. HoldersDiffer'
  BY <1>1 DEF HoldersDiffer, Real, FlipsAgree
<1>. QED BY <1>2, <1>3, <1>4

\* What the display and other programs do.
LEMMA ScanoutDisplay ==
  ASSUME BufsAssumption, ScanoutInv, FlipLands \/ OtherTakes PROVE ScanoutInv'
<1>. USE DEF ScanoutInv
<1>1. CASE FlipLands
  <2>1. phase = "presenting" /\ InFlight
    BY <1>1 DEF FlipLands, FlipsAgree, Between, InFlight, Unread
  <2>2. /\ kms'.screen = kms.flight /\ kms'.flight = None /\ kms'.events = 1
        /\ kms' \in [screen : Bufs \union {None}, flight : Bufs \union {None}, events : Nat]
    BY <1>1, <2>1 DEF FlipLands, BuffersTypeOK, InFlight
  <2>3. BuffersTypeOK' /\ HoldersDiffer' /\ StagesOK'
    BY <1>1, <2>2 DEF FlipLands, BuffersTypeOK, HoldersDiffer, StagesOK
  <2>4. FlipsAgree'
    BY <1>1, <2>1, <2>2 DEF FlipLands, FlipsAgree, InFlight, Unread
  <2>. QED BY <2>3, <2>4
<1>2. CASE OtherTakes
  <2>1. phase # "presenting"
    BY <1>2 DEF OtherTakes, FlipsAgree
  <2>2. /\ kms'.screen = None /\ kms'.flight = kms.flight /\ kms'.events = kms.events
        /\ kms' \in [screen : Bufs \union {None}, flight : Bufs \union {None}, events : Nat]
    BY <1>2 DEF OtherTakes, BuffersTypeOK
  <2>3. BuffersTypeOK' /\ HoldersDiffer' /\ StagesOK'
    BY <1>2, <2>2 DEF OtherTakes, BuffersTypeOK, HoldersDiffer, StagesOK
  <2>4. FlipsAgree'
    BY <1>2, <2>1, <2>2 DEF OtherTakes, FlipsAgree, BuffersTypeOK, BufsAssumption
  <2>. QED BY <2>3, <2>4
<1>. QED BY <1>1, <1>2

LEMMA ScanoutStep ==
  ASSUME BufsAssumption, ~LateFlips, ScanoutInv, [Next]_vars PROVE ScanoutInv'
<1>1. CASE Poll
  BY <1>1, ScanoutPoll
<1>2. CASE DropQueued
  BY <1>2, ScanoutDrops
<1>3. CASE CommandsRead \/ TakeCommand \/ TakeMaster \/ TakeFails \/ NoSubmit \/ Release
  BY <1>3, ScanoutCommands
<1>4. CASE TakeRenders \/ PresentFrame
  BY <1>4, ScanoutRenders
<1>5. CASE TakePuts
  BY <1>5, ScanoutPuts
<1>6. CASE Submit
  BY <1>6, ScanoutSubmits
<1>7. CASE DrainEvent
  BY <1>7, ScanoutDrains
<1>8. CASE Leave
  BY <1>8, ScanoutLeaves
<1>9. CASE Teardown
  BY <1>9, ScanoutTeardown
<1>10. CASE FlipLands \/ OtherTakes
  BY <1>10, ScanoutDisplay
<1>11. CASE UNCHANGED vars
  BY <1>11 DEF vars, ScanoutInv, BuffersTypeOK, FlipsAgree, StagesOK, HoldersDiffer,
                     Between, InFlight, Unread
<1>. QED BY <1>1, <1>2, <1>3, <1>4, <1>5, <1>6, <1>7, <1>8, <1>9, <1>10, <1>11
         DEF Next, LoopStep

\* The buffer on screen and the one on its way there stay locked, keep their
\* framebuffer over the teardown and are not redrawn after a release before a
\* new frame is up, for any number of buffers (main.cpp:118, 640 and 737-790,
\* README.md:58), as long as flips land within the wait of release().
THEOREM ScreenIsSafe ==
  ASSUME BufsAssumption, ~LateFlips
  PROVE  Spec => []OnScreenIsSafe
<1>1. Init => ScanoutInv
  BY ScanoutInit
<1>2. ScanoutInv /\ [Next]_vars => ScanoutInv'
  BY ScanoutStep
<1>3. ScanoutInv => OnScreenIsSafe
  BY ScanoutImplies
<1>. QED BY <1>1, <1>2, <1>3, PTL DEF Spec

-----------------------------------------------------------------------------
(* Flips that land when release() has given up on them: whatever is on     *)
(* screen then, the locks are right.  The display is left out of this      *)
(* invariant but for the number of its events, which TypeOK bounds.        *)

\* Between takes only queued_ and what releases left are locked; while frames
\* are presented nothing is left to the display; and a release leaves two.
LateStages ==
  /\ pc \in {"poll", "commands", "render", "master", "crtc", "step", "frame",
             "drain", "drainExit", "finish", "done"}
  /\ pc \in {"render", "master", "crtc", "done"} => phase # "presenting"
  /\ pc \in {"frame", "drain", "drainExit"} => phase = "presenting"
  /\ pc = "render" => held.queue = None
  /\ phase = "presenting" => left = {}
  /\ phase # "presenting" => held.front = None /\ held.pend = None

FewAreLeft == \E a, b \in Bufs \union {None} : left \subseteq {a, b}

OneHolder ==
  /\ locked = Real({held.front, held.pend, held.queue}) \union left
  /\ Real({held.front, held.pend, held.queue}) \intersect left = {}
  /\ held.front # None => held.front \notin {held.pend, held.queue}
  /\ held.pend # None => held.pend # held.queue

\* A second event is only there between a submission and the next poll.
Coming == kms.events + (IF kms.flight # None THEN 1 ELSE 0)
FewEvents ==
  /\ master \in BOOLEAN
  /\ Coming <= 2
  /\ Coming = 2 => \/ pc \in {"finish", "drainExit", "done"}
                   \/ pc \in {"frame", "poll"} /\ phase = "presenting" /\ held.pend # None

LInv == BuffersTypeOK /\ LateStages /\ FewAreLeft /\ OneHolder /\ FewEvents

LEMMA LateInit ==
  ASSUME BufsAssumption, Init PROVE LInv
<1>1. BuffersTypeOK /\ LateStages /\ OneHolder
  BY DEF Init, Nothing, BuffersTypeOK, LateStages, OneHolder, Real, BufsAssumption
<1>2. FewAreLeft
  BY DEF Init, FewAreLeft
<1>3. FewEvents
  <2>1. kms.events = 0 /\ kms.flight = None /\ master = FALSE
    BY DEF Init
  <2>2. Coming = 0
    BY <2>1 DEF Coming
  <2>3. master \in BOOLEAN
    BY Zenon, <2>1
  <2>4. Coming <= 2 /\ Coming # 2
    BY <2>2
  <2>. QED BY <2>3, <2>4 DEF FewEvents
<1>. QED BY <1>1, <1>2, <1>3 DEF LInv

\* Counting the holders: front_, pending_ and queued_ that hold one hold
\* different ones, and none of those is left to the display.
LEMMA LocksCount ==
  ASSUME BufsAssumption, BuffersTypeOK, OneHolder PROVE LocksAreHeld
<1>. DEFINE F == {f \in DOMAIN held : held[f] # None}
            R == Real({held.front, held.pend, held.queue})
<1>1. held = [f \in {"front", "pend", "queue"} |-> held[f]] /\ DOMAIN held = {"front", "pend", "queue"}
  BY DEF BuffersTypeOK
<1>2. IsFiniteSet(F)
  <2>1. IsFiniteSet({"front"}) /\ {"front", "pend", "queue"} = ({"front"} \union {"pend"}) \union {"queue"}
    BY FS_Singleton
  <2>2. IsFiniteSet({"front", "pend", "queue"})
    <3>1. IsFiniteSet({"front"} \union {"pend"})
      BY <2>1, FS_AddElement
    <3>2. IsFiniteSet(({"front"} \union {"pend"}) \union {"queue"})
      BY <3>1, FS_AddElement
    <3>. QED BY <2>1, <3>2
  <2>3. F \in SUBSET {"front", "pend", "queue"}
    BY <1>1
  <2>. QED BY <2>2, <2>3, FS_Subset
<1>3. R \subseteq Bufs /\ IsFiniteSet(R)
  BY FS_Subset DEF BuffersTypeOK, Real, BufsAssumption
<1>4. [f \in F |-> held[f]] \in Bijection(F, R)
  <2>1. F \subseteq {"front", "pend", "queue"} /\ R = {held.front, held.pend, held.queue} \ {None}
    BY <1>1 DEF Real
  <2>2. \A f \in F : held[f] \in R
    BY <2>1
  <2>3. \A f, g \in F : held[f] = held[g] => f = g
    BY <2>1 DEF OneHolder
  <2>4. \A r \in R : \E f \in F : held[f] = r
    BY <1>1, <2>1
  <2>. HIDE DEF F, R
  <2>. DEFINE m == [f \in F |-> held[f]]
  <2>5. m \in [F -> R] /\ \A f \in F : m[f] = held[f]
    BY <2>2
  <2>. HIDE DEF m
  <2>6. m \in Injection(F, R)
    BY <2>3, <2>5 DEF Injection, IsInjective
  <2>7. m \in Surjection(F, R)
    BY <2>4, <2>5 DEF Surjection
  <2>8. m \in Bijection(F, R)
    BY <2>6, <2>7 DEF Bijection
  <2>. QED BY <2>8 DEF m
<1>5. Cardinality(R) = Cardinality(F)
  <2>1. ExistsBijection(F, R)
    BY <1>4 DEF ExistsBijection
  <2>. HIDE DEF F, R
  <2>. QED BY <1>2, <2>1, FS_Bijection
<1>6. IsFiniteSet(left)
  BY FS_Subset DEF BuffersTypeOK, BufsAssumption
<1>7. Cardinality(R \union left) = Cardinality(R) + Cardinality(left)
  <2>1. R \intersect left = {}
    BY DEF OneHolder
  <2>2. Cardinality(R) \in Nat /\ Cardinality(left) \in Nat /\ Cardinality({}) = 0
    BY <1>3, <1>6, FS_CardinalityType, FS_EmptySet
  <2>. HIDE DEF R
  <2>3. Cardinality(R \union left) = Cardinality(R) + Cardinality(left) - Cardinality(R \intersect left)
    BY <1>3, <1>6, FS_Union
  <2>4. Cardinality(R \intersect left) = 0
    BY <2>1, <2>2 DEF R
  <2>. QED BY <2>2, <2>3, <2>4
<1>8. locked = R \union left
  BY DEF OneHolder
<1>. QED BY <1>5, <1>7, <1>8 DEF LocksAreHeld

LEMMA LateImplies ==
  ASSUME BufsAssumption, EnoughBuffers, LInv PROVE NoBufferLeaks
<1>1. LocksAreHeld
  BY LocksCount DEF LInv
<1>2. TakeFindsBuffer
  <2>1. SUFFICES ASSUME pc = "render", Bufs \subseteq locked PROVE FALSE
    BY DEF TakeFindsBuffer, Free
  <2>2. locked = left
    BY <2>1 DEF LInv, LateStages, OneHolder, Real
  <2>3. PICK a, b \in Bufs \union {None} : left \subseteq {a, b}
    BY DEF LInv, FewAreLeft
  <2>4. IsFiniteSet({a}) /\ Cardinality({a}) = 1
    BY FS_Singleton
  <2>5. {a, b} = {a} \union {b}
    OBVIOUS
  <2>6. IsFiniteSet({a, b}) /\ Cardinality({a, b}) <= 2
    BY <2>4, <2>5, FS_AddElement
  <2>7. Bufs \subseteq {a, b}
    BY <2>1, <2>2, <2>3
  <2>8. Cardinality(Bufs) <= Cardinality({a, b})
    BY <2>6, <2>7, FS_Subset
  <2>9. Cardinality(Bufs) \in Nat /\ Cardinality({a, b}) \in Nat
    BY <2>6, FS_CardinalityType DEF BufsAssumption
  <2>. QED BY <2>6, <2>8, <2>9 DEF EnoughBuffers
<1>. QED BY <1>1, <1>2 DEF NoBufferLeaks

\* With flips that land in time there is at most one event.
LEMMA LateTypes ==
  ASSUME BufsAssumption, LInv, LateFlips \/ FlipsAgree PROVE TypeOK
<1>1. kms \in [screen : Bufs \union {None}, flight : Bufs \union {None}, events : Nat] /\ kms.events \in Nat
  BY DEF LInv, BuffersTypeOK
<1>2. kms.events <= IF LateFlips THEN 2 ELSE 1
  <2>1. CASE LateFlips
    BY <1>1, <2>1 DEF LInv, FewEvents, Coming
  <2>2. CASE ~LateFlips
    BY <1>1, <2>2 DEF FlipsAgree, Between, InFlight, Unread
  <2>. QED BY <2>1, <2>2
<1>3. kms \in [screen : Bufs \union {None}, flight : Bufs \union {None},
              events : 0 .. IF LateFlips THEN 2 ELSE 1]
  BY <1>1, <1>2
<1>. QED BY <1>3 DEF TypeOK, LInv, BuffersTypeOK, LateStages, FewEvents

\* An event read: the buffer shown before has no other holder.
LEMMA LateLanded ==
  ASSUME BufsAssumption, LInv, phase = "presenting", held.pend # None, Dispatch,
         UNCHANGED <<left, fbs, master, phase>>
  PROVE  BuffersTypeOK' /\ OneHolder' /\ FewAreLeft' /\ left' = {} /\ Coming' <= 1
<1>. USE DEF LInv
<1>1. /\ held'.front = held.pend /\ held'.pend = None /\ held'.queue = held.queue
      /\ held' \in [front : Bufs \union {None}, pend : Bufs \union {None}, queue : Bufs \union {None}]
  BY DEF Dispatch, Landed, BuffersTypeOK
<1>2. /\ kms'.events = 0
      /\ kms' \in [screen : Bufs \union {None}, flight : Bufs \union {None}, events : Nat]
  BY DEF Dispatch, BuffersTypeOK
<1>3. locked' = locked \ {held.front} /\ left = {}
  BY DEF Dispatch, Landed, LateStages
<1>4. BuffersTypeOK'
  BY <1>1, <1>2, <1>3 DEF BuffersTypeOK
<1>5. OneHolder'
  <2>1. locked = {held.front, held.pend, held.queue} \ {None}
    BY <1>3 DEF OneHolder, Real
  <2>2. held.front = None \/ held.front \notin {held.pend, held.queue}
    BY DEF OneHolder
  <2>3. locked' = {held.pend, held.queue} \ {None} /\ left' = {} /\ held.pend # held.queue
    BY <1>3, <2>1, <2>2 DEF OneHolder
  <2>. QED BY <1>1, <2>3 DEF OneHolder, Real
<1>6. FewAreLeft' /\ left' = {}
  BY <1>3 DEF FewAreLeft
<1>7. Coming' <= 1
  BY <1>2 DEF Coming
<1>. QED BY <1>4, <1>5, <1>6, <1>7

LEMMA LatePoll ==
  ASSUME BufsAssumption, LInv, Poll PROVE LInv'
<1>. USE DEF LInv
<1>0. UNCHANGED <<left, fbs, master, phase>> /\ pc = "poll" /\ pc' = "commands"
  BY DEF Poll
<1>1. CASE phase = "presenting" /\ held.pend # None /\ kms.events > 0
  <2>0. Dispatch
    BY <1>1 DEF Poll
  <2>1. BuffersTypeOK' /\ OneHolder' /\ FewAreLeft' /\ left' = {} /\ Coming' <= 1
    BY <1>0, <1>1, <2>0, LateLanded
  <2>2. LateStages'
    BY <1>0, <1>1, <2>1 DEF LateStages
  <2>3. FewEvents'
    BY <1>0, <2>1 DEF FewEvents, Coming, BuffersTypeOK
  <2>. QED BY <2>1, <2>2, <2>3
<1>2. CASE ~(phase = "presenting" /\ held.pend # None /\ kms.events > 0)
  <2>1. UNCHANGED <<locked, held, kms>>
    BY <1>2 DEF Poll
  <2>2. kms.events \in Nat
    BY DEF BuffersTypeOK
  <2>3. Coming # 2
    BY <1>0, <1>2, <2>2 DEF FewEvents, Coming
  <2>4. FewEvents'
    BY <1>0, <2>1, <2>3 DEF FewEvents, Coming
  <2>. QED BY <1>0, <2>1, <2>4 DEF BuffersTypeOK, LateStages, FewAreLeft, OneHolder
<1>. QED BY <1>1, <1>2

\* A step that moves no buffer, in the order of the loop.
LEMMA LateNothingMoves ==
  ASSUME BufsAssumption, LInv, UNCHANGED <<locked, held, left, kms, fbs, phase>>, master' \in BOOLEAN,
         LateStages', Coming = 2 => pc' \in {"finish", "drainExit", "done"}
  PROVE  LInv'
<1>1. Coming' = Coming
  BY DEF Coming
<1>. QED BY <1>1 DEF LInv, BuffersTypeOK, FewAreLeft, OneHolder, FewEvents

LEMMA LateCommands ==
  ASSUME BufsAssumption, LInv,
         CommandsRead \/ TakeCommand \/ TakeMaster \/ TakeFails \/ NoSubmit \/ Release
  PROVE  LInv'
<1>1. UNCHANGED <<locked, held, left, kms, fbs, phase>> /\ master' \in BOOLEAN
  BY DEF CommandsRead, TakeCommand, TakeMaster, TakeFails, NoSubmit, Release, LInv, FewEvents
<1>2. LateStages'
  BY DEF CommandsRead, TakeCommand, TakeMaster, TakeFails, NoSubmit, Release, LInv, LateStages
<1>3. Coming = 2 => pc' \in {"finish", "drainExit", "done"}
  BY DEF CommandsRead, TakeCommand, TakeMaster, TakeFails, NoSubmit, Release, LInv, FewEvents
<1>. QED BY <1>1, <1>2, <1>3, LateNothingMoves

\* The queued frame given up, or a free buffer drawn and queued.
LEMMA LateQueue ==
  ASSUME BufsAssumption, LInv, LateStages', UNCHANGED <<left, kms, master, phase>>,
         pc' = pc \/ Coming # 2 \/ (pc = "frame" /\ pc' \in {"poll", "finish"}),
         \/ /\ held.queue # None /\ locked' = locked \ {held.queue} /\ fbs' = fbs
            /\ held' = [held EXCEPT !.queue = None]
         \/ Render
  PROVE  LInv'
<1>. USE DEF LInv
<1>1. PICK q \in Bufs \union {None} :
        /\ held' = [held EXCEPT !.queue = q]
        /\ q # None => /\ q \in Bufs \ locked /\ held.queue = None
                       /\ locked' = locked \union {q} /\ fbs' = fbs \union {q}
        /\ q = None => locked' = locked \ {held.queue} /\ fbs' = fbs
  <2>1. CASE Render
    BY <2>1 DEF Render, Free, BufsAssumption
  <2>2. CASE ~Render
    BY <2>2
  <2>. QED BY <2>1, <2>2
<1>2. /\ held'.front = held.front /\ held'.pend = held.pend /\ held'.queue = q
      /\ held' \in [front : Bufs \union {None}, pend : Bufs \union {None}, queue : Bufs \union {None}]
  BY <1>1 DEF BuffersTypeOK
<1>3. locked' \subseteq Bufs /\ fbs' \subseteq Bufs
  BY <1>1 DEF BuffersTypeOK
<1>4. BuffersTypeOK' /\ FewAreLeft'
  BY <1>2, <1>3 DEF BuffersTypeOK, FewAreLeft
<1>5. OneHolder'
  <2>1. CASE q = None
    <3>1. locked' = locked \ {held.queue} /\ left' = left
      BY <1>1, <2>1
    <3>2. locked = ({held.front, held.pend, held.queue} \ {None}) \union left
      BY DEF OneHolder, Real
    <3>3. held.queue \notin left /\ (held.queue = None \/ held.queue \notin {held.front, held.pend})
      BY DEF OneHolder, Real, BuffersTypeOK, BufsAssumption
    <3>4. locked' = ({held.front, held.pend} \ {None}) \union left
      BY <3>1, <3>2, <3>3 DEF BuffersTypeOK, BufsAssumption
    <3>. QED BY <1>2, <2>1, <3>1, <3>4 DEF OneHolder, Real
  <2>2. CASE q # None
    BY <1>1, <1>2, <2>2 DEF OneHolder, Real
  <2>. QED BY <2>1, <2>2
<1>6. FewEvents'
  <2>1. Coming' = Coming
    BY DEF Coming
  <2>. QED BY <1>2, <2>1 DEF FewEvents
<1>. QED BY <1>4, <1>5, <1>6

LEMMA LateDraws ==
  ASSUME BufsAssumption, LInv, DropQueued \/ TakeRenders \/ PresentFrame PROVE LInv'
<1>. USE DEF LInv
<1>0. kms.events \in Nat /\ held.front \in Bufs \union {None}
  BY DEF BuffersTypeOK
<1>1. CASE DropQueued
  <2>1. LateStages'
    <3>1. held'.front = held.front /\ held'.pend = held.pend
      BY <1>1 DEF DropQueued, BuffersTypeOK
    <3>. QED BY <1>1, <3>1 DEF DropQueued, LateStages
  <2>. QED BY <1>1, <2>1, LateQueue DEF DropQueued
<1>2. CASE TakeRenders
  <2>0. Coming # 2
    BY <1>2 DEF TakeRenders, FewEvents
  <2>1. CASE Render
    <3>1. held'.front = held.front /\ held'.pend = held.pend
      BY <2>1 DEF Render, BuffersTypeOK
    <3>2. pc' \in {"master", "finish"} /\ UNCHANGED <<left, kms, master, phase>> /\ pc = "render"
      BY <1>2 DEF TakeRenders
    <3>3. LateStages'
      BY <3>1, <3>2 DEF LateStages
    <3>. QED BY <2>0, <2>1, <3>2, <3>3, LateQueue
  <2>2. CASE UNCHANGED <<locked, fbs, held>>
    <3>1. pc' \in {"master", "finish"} /\ UNCHANGED <<left, kms, master, phase>> /\ pc = "render"
      BY <1>2 DEF TakeRenders
    <3>2. LateStages'
      BY <2>2, <3>1 DEF LateStages
    <3>. QED BY <2>0, <2>2, <3>1, <3>2, LateNothingMoves DEF FewEvents
  <2>. QED BY <1>2, <2>1, <2>2 DEF TakeRenders
<1>3. CASE PresentFrame
  <2>1. pc = "frame" /\ pc' \in {"poll", "finish"} /\ UNCHANGED <<left, kms, master, phase>>
    BY <1>3 DEF PresentFrame
  <2>2. CASE Render
    <3>1. held'.front = held.front /\ held'.pend = held.pend
      BY <2>2 DEF Render, BuffersTypeOK
    <3>2. LateStages'
      BY <2>1, <3>1 DEF LateStages
    <3>. QED BY <2>1, <2>2, <3>2, LateQueue
  <2>3. CASE UNCHANGED <<locked, fbs, held>>
    <3>1. Coming' = Coming
      BY <2>1 DEF Coming
    <3>2. FewEvents'
      BY <2>1, <2>3, <3>1 DEF FewEvents
    <3>. QED BY <2>1, <2>3, <3>2 DEF BuffersTypeOK, LateStages, FewAreLeft, OneHolder
  <2>. QED BY <1>3, <2>2, <2>3 DEF PresentFrame
<1>. QED BY <1>1, <1>2, <1>3

\* SetCrtc: the queued frame is up, what releases left goes.
LEMMA LatePuts ==
  ASSUME BufsAssumption, LInv, TakePuts PROVE LInv'
<1>. USE DEF LInv, TakePuts
<1>1. phase # "presenting" /\ held.front = None /\ held.pend = None
  BY DEF LateStages
<1>2. /\ held'.front = held.queue /\ held'.pend = None /\ held'.queue = None
      /\ held' \in [front : Bufs \union {None}, pend : Bufs \union {None}, queue : Bufs \union {None}]
  BY <1>1 DEF BuffersTypeOK
<1>3. /\ kms'.flight = kms.flight /\ kms'.events = kms.events
      /\ kms' \in [screen : Bufs \union {None}, flight : Bufs \union {None}, events : Nat]
  BY DEF BuffersTypeOK
<1>4. BuffersTypeOK'
  BY <1>2, <1>3 DEF BuffersTypeOK
<1>5. LateStages' /\ FewAreLeft'
  BY <1>2 DEF LateStages, FewAreLeft
<1>6. OneHolder'
  BY <1>1, <1>2 DEF OneHolder, Real
<1>7. FewEvents'
  <2>1. Coming' = Coming
    BY <1>3 DEF Coming
  <2>. QED BY <2>1 DEF FewEvents
<1>. QED BY <1>4, <1>5, <1>6, <1>7

LEMMA LateSubmits ==
  ASSUME BufsAssumption, LInv, Submit PROVE LInv'
<1>. USE DEF LInv, Submit
<1>1. /\ held'.front = held.front /\ held'.pend = held.queue /\ held'.queue = None
      /\ held' \in [front : Bufs \union {None}, pend : Bufs \union {None}, queue : Bufs \union {None}]
  BY DEF BuffersTypeOK
<1>2. /\ kms'.flight = held.queue /\ kms'.events = kms.events
      /\ kms' \in [screen : Bufs \union {None}, flight : Bufs \union {None}, events : Nat]
  BY DEF BuffersTypeOK
<1>3. BuffersTypeOK'
  BY <1>1, <1>2 DEF BuffersTypeOK
<1>4. LateStages' /\ FewAreLeft'
  BY <1>1 DEF LateStages, FewAreLeft
<1>5. OneHolder'
  BY <1>1 DEF OneHolder, Real
<1>6. FewEvents'
  <2>1. kms.events \in Nat /\ Coming = kms.events /\ Coming' = Coming + 1
    BY <1>2 DEF Coming, BuffersTypeOK
  <2>2. Coming # 2 /\ Coming <= 2
    BY DEF FewEvents
  <2>. QED BY <1>1, <2>1, <2>2 DEF FewEvents
<1>. QED BY <1>3, <1>4, <1>5, <1>6

LEMMA LateDrains ==
  ASSUME BufsAssumption, LInv, DrainEvent PROVE LInv'
<1>. USE DEF LInv
<1>1. phase = "presenting" /\ held.pend # None /\ Dispatch /\ UNCHANGED <<left, fbs, master, phase, pc>>
  BY DEF DrainEvent, Draining, LateStages
<1>2. BuffersTypeOK' /\ OneHolder' /\ FewAreLeft' /\ left' = {} /\ Coming' <= 1
  BY <1>1, LateLanded
<1>3. LateStages'
  BY <1>1, <1>2 DEF LateStages, DrainEvent, Draining
<1>4. FewEvents'
  <2>1. Coming' \in Int
    BY <1>2 DEF Coming, BuffersTypeOK
  <2>. QED BY <1>1, <1>2, <2>1 DEF FewEvents
<1>. QED BY <1>2, <1>3, <1>4

\* What release() leaves is the buffer on screen, and a flip it gave up on.
LEMMA LateLeaves ==
  ASSUME BufsAssumption, LInv, Leave PROVE LInv'
<1>. USE DEF LInv, Leave
<1>1. phase = "presenting" /\ left = {} /\ pc \in {"drain", "drainExit"} /\ pc' \in {"commands", "finish"}
  BY DEF Draining, LateStages
<1>2. /\ held'.front = None /\ held'.pend = None /\ held'.queue = None
      /\ held' \in [front : Bufs \union {None}, pend : Bufs \union {None}, queue : Bufs \union {None}]
  BY DEF Nothing
<1>3. /\ held.front \in Bufs \union {None} /\ held.pend \in Bufs \union {None}
      /\ ScreenLeft = {held.front, held.pend} \ {None} /\ ScreenLeft \subseteq Bufs
      /\ left' = ScreenLeft
  BY <1>1 DEF ScreenLeft, Real, BuffersTypeOK
<1>4. BuffersTypeOK'
  BY <1>2, <1>3 DEF BuffersTypeOK
<1>5. LateStages'
  BY <1>1, <1>2 DEF LateStages
<1>6. FewAreLeft'
  BY <1>3 DEF FewAreLeft
<1>7. OneHolder'
  <2>1. locked = {held.front, held.pend, held.queue} \ {None}
    BY <1>1 DEF OneHolder, Real
  <2>2. held.queue = None \/ held.queue \notin {held.front, held.pend}
    BY DEF OneHolder
  <2>3. locked' = ScreenLeft
    BY <1>3, <2>1, <2>2
  <2>. QED BY <1>2, <1>3, <2>3 DEF OneHolder, Real
<1>8. FewEvents'
  <2>1. Coming' = Coming
    BY DEF Coming
  <2>. QED BY <1>1, <2>1 DEF FewEvents
<1>. QED BY <1>4, <1>5, <1>6, <1>7, <1>8

LEMMA LateTeardown ==
  ASSUME BufsAssumption, LInv, Teardown PROVE LInv'
<1>. USE DEF LInv, Teardown
<1>1. /\ held'.front = held.front /\ held'.pend = held.pend /\ held'.queue = None
      /\ held' \in [front : Bufs \union {None}, pend : Bufs \union {None}, queue : Bufs \union {None}]
  BY DEF BuffersTypeOK
<1>2. BuffersTypeOK' /\ FewAreLeft'
  BY <1>1 DEF BuffersTypeOK, FewAreLeft
<1>3. LateStages'
  BY <1>1 DEF LateStages
<1>4. OneHolder'
  BY <1>1 DEF OneHolder, Real, LateStages
<1>5. FewEvents'
  <2>1. Coming' = Coming
    BY DEF Coming
  <2>. QED BY <2>1 DEF FewEvents
<1>. QED BY <1>2, <1>3, <1>4, <1>5

LEMMA LateDisplay ==
  ASSUME BufsAssumption, LInv, FlipLands \/ OtherTakes PROVE LInv'
<1>. USE DEF LInv
<1>1. /\ kms' \in [screen : Bufs \union {None}, flight : Bufs \union {None}, events : Nat]
      /\ Coming' = Coming
  BY DEF FlipLands, OtherTakes, BuffersTypeOK, Coming
<1>2. UNCHANGED <<locked, held, left, fbs, master, phase, pc>>
  BY DEF FlipLands, OtherTakes
<1>. QED BY <1>1, <1>2 DEF BuffersTypeOK, LateStages, FewAreLeft, OneHolder, FewEvents

LEMMA LateStep ==
  ASSUME BufsAssumption, LInv, [Next]_vars PROVE LInv'
<1>1. CASE Poll
  BY <1>1, LatePoll
<1>2. CASE DropQueued \/ TakeRenders \/ PresentFrame
  BY <1>2, LateDraws
<1>3. CASE CommandsRead \/ TakeCommand \/ TakeMaster \/ TakeFails \/ NoSubmit \/ Release
  BY <1>3, LateCommands
<1>4. CASE TakePuts
  BY <1>4, LatePuts
<1>5. CASE Submit
  BY <1>5, LateSubmits
<1>6. CASE DrainEvent
  BY <1>6, LateDrains
<1>7. CASE Leave
  BY <1>7, LateLeaves
<1>8. CASE Teardown
  BY <1>8, LateTeardown
<1>9. CASE FlipLands \/ OtherTakes
  BY <1>9, LateDisplay
<1>10. CASE UNCHANGED vars
  <2>1. BuffersTypeOK' /\ LateStages' /\ FewAreLeft'
    BY <1>10 DEF vars, LInv, BuffersTypeOK, LateStages, FewAreLeft
  <2>2. OneHolder' /\ FewEvents'
    BY <1>10 DEF vars, LInv, OneHolder, FewEvents, Coming
  <2>. QED BY <2>1, <2>2 DEF LInv
<1>. QED BY <1>1, <1>2, <1>3, <1>4, <1>5, <1>6, <1>7, <1>8, <1>9, <1>10 DEF Next, LoopStep

\* Every lock has one holder, and a frame that a take must draw finds a free
\* buffer, with three buffers or more and however late flips land: release()
\* and the takes neither leak a lock nor give one up twice (main.cpp:640, 737-790).
THEOREM LocksAreRight ==
  ASSUME BufsAssumption, EnoughBuffers
  PROVE  Spec => []NoBufferLeaks
<1>1. Init => LInv
  BY LateInit
<1>2. LInv /\ [Next]_vars => LInv'
  BY LateStep
<1>3. LInv => NoBufferLeaks
  BY LateImplies
<1>. QED BY <1>1, <1>2, <1>3, PTL DEF Spec

\* The type invariant, with at most two unread events, or one if flips land
\* in time.
THEOREM ScanoutTypes ==
  ASSUME BufsAssumption
  PROVE  Spec => []TypeOK
<1>1. Init => LInv
  BY LateInit
<1>2. LInv /\ [Next]_vars => LInv'
  BY LateStep
<1>3. CASE LateFlips
  <2>1. LInv => TypeOK
    BY <1>3, LateTypes
  <2>. QED BY <1>1, <1>2, <2>1, PTL DEF Spec
<1>4. CASE ~LateFlips
  <2>1. Init => ScanoutInv
    BY ScanoutInit
  <2>2. ScanoutInv /\ [Next]_vars => ScanoutInv'
    BY <1>4, ScanoutStep
  <2>3. LInv /\ ScanoutInv => TypeOK
    BY LateTypes DEF ScanoutInv
  <2>. QED BY <1>1, <1>2, <2>1, <2>2, <2>3, PTL DEF Spec
<1>. QED BY <1>3, <1>4
=============================================================================
