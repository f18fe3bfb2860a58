---------------------------- MODULE RendererExit ----------------------------
(***************************************************************************)
(* How milkdrop_renderer reads its commands and how it ends: the loop of   *)
(* main.cpp with drain_lines() and LineBuffer (protocol.h), the ExitGuard  *)
(* thread (exit_guard.cpp), and the two threads' writes to stdout under    *)
(* the writer's mutex (json.cpp).                                          *)
(*                                                                         *)
(* A byte of stdin is "x", "e" or the newline "n"; the line "e" is the     *)
(* command `exit`, every other line one that does something else.  stdout  *)
(* is a list of whole lines, each "event" or "exiting", and whether a line *)
(* has been begun and not finished.  The display, the GPU and the pack are *)
(* out of sight here: the main thread may hang for good inside of any of   *)
(* its steps that call them.  A timeout has passed when the step that      *)
(* waits for it says so.                                                   *)
(***************************************************************************)
EXTENDS Integers, Sequences, SequencesExt

CONSTANTS
  Inputs,      \* what may be sent to stdin
  MaxLine,     \* max_line of the LineBuffer
  Cap,         \* the size of drain_lines()'s buffer
  MaxReads,    \* max_reads
  MaxEvents    \* bound: lines emitted before the end

VARIABLES
  stdin,       \* what is sent, how much has arrived and been read, hung up
  lines,       \* stdin_lines_, and the complete lines of the chunk not yet handled
  main,        \* the main thread: its step, the reads of this drain, what it emits
  exit,        \* exit_reason_ and exit_code_
  guard,       \* the ExitGuard: its thread and its fields
  sig,         \* g_signal
  writer,      \* who holds g_emit_mtx
  out,         \* stdout: lines, a line begun, full
  proc,        \* the process: running, or its exit code
  ran          \* the lines that were run as commands

vars == <<stdin, lines, main, exit, guard, sig, writer, out, proc, ran>>

Reasons == {"requested", "eof", "signal", "fail"}
Running == -1
Code(reason) == IF reason = "fail" THEN 1 ELSE 0

Init ==
  /\ stdin \in [sent : Inputs, arrived : {0}, read : {0}, hup : {FALSE}]
  /\ lines = [buf |-> << >>, discarding |-> FALSE, done |-> << >>]
  /\ main = [pc |-> "loop", reads |-> 0, line |-> "none", next |-> "loop", hung |-> FALSE]
  /\ exit = [reason |-> "none", code |-> 0]
  /\ guard = [pc |-> "poll", armed |-> FALSE, due |-> FALSE, reason |-> "none", code |-> 0,
              stopping |-> FALSE, sent |-> FALSE, gaveUp |-> FALSE]
  /\ sig = FALSE /\ writer = "none" /\ out = [lines |-> << >>, begun |-> FALSE, full |-> FALSE]
  /\ proc = Running /\ ran = << >>

Runs == proc = Running
MainAt(pc) == Runs /\ main.pc = pc /\ ~main.hung
GuardAt(pc) == Runs /\ guard.pc = pc
Goto(pc) == main' = [main EXCEPT !.pc = pc]
GuardGoto(pc) == guard' = [guard EXCEPT !.pc = pc]

-----------------------------------------------------------------------------
\* arm(): the first one sets the deadline, each sets what is reported.
Armed(g, reason) == [g EXCEPT !.armed = TRUE, !.reason = reason, !.code = Code(reason)]

\* decide_exit(): the first decision wins.
Decides(reason) ==
  IF exit.reason # "none" THEN UNCHANGED <<exit, guard>>
  ELSE exit' = [reason |-> reason, code |-> Code(reason)] /\ guard' = Armed(guard, reason)

\* mutant of Fed: a line that is too long is cut instead of dropped
FedCut(s, byte) ==
  IF byte = "n" THEN [buf |-> << >>, discarding |-> FALSE, done |-> Append(s.done, s.buf)]
  ELSE IF Len(s.buf) >= MaxLine THEN [s EXCEPT !.discarding = TRUE]
  ELSE [s EXCEPT !.buf = Append(@, byte)]

\* LineBuffer::feed() of one byte: a line longer than max_line is dropped whole.
Fed(s, byte) ==
  IF byte = "n"
  THEN [buf |-> << >>, discarding |-> FALSE,
        done |-> IF s.discarding THEN s.done ELSE Append(s.done, s.buf)]
  ELSE IF s.discarding THEN s
  ELSE IF Len(s.buf) >= MaxLine THEN [s EXCEPT !.buf = << >>, !.discarding = TRUE]
  ELSE [s EXCEPT !.buf = Append(@, byte)]

Feed(chunk) == FoldLeft(Fed, lines, chunk)

-----------------------------------------------------------------------------
(* The main thread.                                                        *)

\* A call into the display, the GPU or the disk does not return.
Hang ==
  /\ Runs /\ ~main.hung /\ main.pc \in {"loop", "handle", "release", "teardown"}
  /\ main' = [main EXCEPT !.hung = TRUE]
  /\ UNCHANGED <<stdin, lines, exit, guard, sig, writer, out, proc, ran>>

Emits(line, next) == main' = [main EXCEPT !.pc = "lock", !.line = line, !.next = next]

\* The top of the loop: a signal, a failing poll(), a round with commands
\* or without; an event of the round is emitted.
Top ==
  /\ MainAt("loop")
  /\ CASE exit.reason # "none" -> Goto("finish") /\ UNCHANGED <<exit, guard>>
       [] exit.reason = "none" /\ sig -> Decides("signal") /\ Goto("finish")
       [] exit.reason = "none" /\ ~sig ->
            \/ Decides("fail") /\ Emits("event", "finish")
            \/ main' = [main EXCEPT !.pc = "drain", !.reads = 0] /\ UNCHANGED <<exit, guard>>
            \/ /\ Len(out.lines) < MaxEvents
               /\ Emits("event", "loop") /\ UNCHANGED <<exit, guard>>
  /\ UNCHANGED <<stdin, lines, sig, writer, out, proc, ran>>

\* drain_lines(): stopped, out of budget, data, end of input, or nothing there.
Drain ==
  /\ MainAt("drain")
  /\ \/ /\ exit.reason # "none" \/ main.reads = MaxReads
        /\ Goto("loop") /\ UNCHANGED <<stdin, lines, exit, guard>>
     \/ /\ exit.reason = "none" /\ main.reads < MaxReads
        /\ \/ \E n \in 1 .. Cap :
                /\ stdin.read + n <= stdin.arrived
                /\ n = Cap \/ stdin.read + n = stdin.arrived
                /\ stdin' = [stdin EXCEPT !.read = @ + n]
                /\ lines' = Feed(SubSeq(stdin.sent, stdin.read + 1, stdin.read + n))
                /\ main' = [main EXCEPT !.pc = "handle", !.reads = @ + 1]
                /\ UNCHANGED <<exit, guard>>
           \/ /\ stdin.read = stdin.arrived
              /\ IF stdin.hup THEN Decides("eof") ELSE UNCHANGED <<exit, guard>>
              /\ Goto("loop") /\ UNCHANGED <<stdin, lines>>
  /\ UNCHANGED <<sig, writer, out, proc, ran>>

\* A complete line: dropped once an exit is decided, or run; a command may
\* emit an event or, when it is none, an error.
Handle ==
  /\ MainAt("handle") /\ lines.done # << >>
  /\ lines' = [lines EXCEPT !.done = Tail(@)]
  /\ LET line == Head(lines.done) IN
     IF exit.reason # "none" \/ line = << >> THEN UNCHANGED <<ran, main, exit, guard>>
     ELSE /\ ran' = Append(ran, line)
          /\ IF line = <<"e">> THEN Decides("requested") /\ UNCHANGED main
             ELSE /\ UNCHANGED <<exit, guard>>
                  /\ UNCHANGED main \/ (Len(out.lines) < MaxEvents /\ Emits("event", "handle"))
  /\ UNCHANGED <<stdin, sig, writer, out, proc>>

Handled ==
  /\ MainAt("handle") /\ lines.done = << >> /\ Goto("drain")
  /\ UNCHANGED <<stdin, lines, exit, guard, sig, writer, out, proc, ran>>

\* emit_line(): the mutex, then writes that wait for room in a full stdout.
Lock ==
  /\ MainAt("lock") /\ writer = "none"
  /\ writer' = "main" /\ Goto("begin")
  /\ UNCHANGED <<stdin, lines, exit, guard, sig, out, proc, ran>>

Begin ==
  /\ MainAt("begin") /\ ~out.full
  /\ out' = [out EXCEPT !.begun = TRUE] /\ Goto("write")
  /\ UNCHANGED <<stdin, lines, exit, guard, sig, writer, proc, ran>>

Write ==
  /\ MainAt("write") /\ ~out.full
  /\ out' = [out EXCEPT !.begun = FALSE, !.lines = Append(@, main.line)]
  /\ writer' = "none" /\ Goto(main.next)
  /\ UNCHANGED <<stdin, lines, exit, guard, sig, proc, ran>>

\* finish(): armed, the release (see Scanout), the last line, then the guard is told.
Finish ==
  /\ MainAt("finish") /\ guard' = Armed(guard, exit.reason) /\ Goto("release")
  /\ UNCHANGED <<stdin, lines, exit, sig, writer, out, proc, ran>>

Released ==
  /\ MainAt("release") /\ Emits("exiting", "sent")
  /\ UNCHANGED <<stdin, lines, exit, guard, sig, writer, out, proc, ran>>

ExitingSent ==
  /\ MainAt("sent") /\ guard' = [guard EXCEPT !.sent = TRUE] /\ Goto("teardown")
  /\ UNCHANGED <<stdin, lines, exit, sig, writer, out, proc, ran>>

\* The teardown, then stop(): the watchdog is joined and main() returns.
Stop ==
  /\ MainAt("teardown") /\ guard' = [guard EXCEPT !.stopping = TRUE] /\ Goto("join")
  /\ UNCHANGED <<stdin, lines, exit, sig, writer, out, proc, ran>>

Return ==
  /\ MainAt("join") /\ guard.pc = "done"
  /\ proc' = exit.code
  /\ UNCHANGED <<stdin, lines, main, exit, guard, sig, writer, out, ran>>

-----------------------------------------------------------------------------
(* The watchdog.                                                           *)

\* A round of run(): told to stop, a signal arms it, past the deadline it
\* takes what it is to report and lets the mutex go.
Watch ==
  /\ GuardAt("poll")
  /\ IF guard.stopping THEN GuardGoto("done")
     ELSE IF ~guard.armed /\ sig THEN guard' = Armed(guard, "signal")
     ELSE guard.due /\ GuardGoto("log")
  /\ UNCHANGED <<stdin, lines, main, exit, sig, writer, out, proc, ran>>

\* The budget is over.
Expire ==
  /\ Runs /\ guard.armed /\ ~guard.due /\ guard.pc = "poll"
  /\ guard' = [guard EXCEPT !.due = TRUE]
  /\ UNCHANGED <<stdin, lines, main, exit, sig, writer, out, proc, ran>>

\* The log line is bounded; then `exiting`, unless the main thread's is out.
GuardLog ==
  /\ GuardAt("log") /\ GuardGoto(IF guard.sent THEN "exit" ELSE "lock")
  /\ UNCHANGED <<stdin, lines, main, exit, sig, writer, out, proc, ran>>

\* emit_line_within(): the mutex in time or not at all.
GuardLock ==
  /\ GuardAt("lock")
  /\ \/ writer = "none" /\ writer' = "guard" /\ GuardGoto("write")
     \/ writer # "none" /\ guard' = [guard EXCEPT !.pc = "exit", !.gaveUp = TRUE] /\ UNCHANGED writer
  /\ UNCHANGED <<stdin, lines, main, exit, sig, out, proc, ran>>

\* write_within(): whole, or given up with nothing or a part of it written.
GuardWrite ==
  /\ GuardAt("write") /\ writer' = "none"
  /\ \/ /\ ~out.full /\ GuardGoto("exit")
        /\ out' = [out EXCEPT !.lines = Append(@, "exiting")]
     \/ /\ out.full /\ guard' = [guard EXCEPT !.pc = "exit", !.gaveUp = TRUE]
        /\ \E begun \in BOOLEAN : out' = [out EXCEPT !.begun = @ \/ begun]
  /\ UNCHANGED <<stdin, lines, main, exit, sig, proc, ran>>

GuardExit ==
  /\ GuardAt("exit") /\ proc' = guard.code
  /\ UNCHANGED <<stdin, lines, main, exit, guard, sig, writer, out, ran>>

-----------------------------------------------------------------------------
(* The owner of the port.                                                  *)

Send ==
  /\ Runs /\ ~stdin.hup
  /\ \/ /\ stdin.arrived < Len(stdin.sent)
        /\ \E n \in stdin.arrived + 1 .. Len(stdin.sent) : stdin' = [stdin EXCEPT !.arrived = n]
     \/ stdin' = [stdin EXCEPT !.hup = TRUE]
  /\ UNCHANGED <<lines, main, exit, guard, sig, writer, out, proc, ran>>

Signal ==
  /\ Runs /\ ~sig /\ sig' = TRUE
  /\ UNCHANGED <<stdin, lines, main, exit, guard, writer, out, proc, ran>>

\* The owner stops reading stdout, or reads again.
Room ==
  /\ Runs /\ out' = [out EXCEPT !.full = ~@]
  /\ UNCHANGED <<stdin, lines, main, exit, guard, sig, writer, proc, ran>>

MainStep ==
  \/ Top \/ Drain \/ Handle \/ Handled \/ Lock \/ Begin \/ Write
  \/ Finish \/ Released \/ ExitingSent \/ Stop \/ Return

GuardStep == Watch \/ GuardLog \/ GuardLock \/ GuardWrite \/ GuardExit

Next == MainStep \/ GuardStep \/ Hang \/ Expire \/ Send \/ Signal \/ Room

Spec == Init /\ [][Next]_vars

\* Nothing is asked of the main thread or of the owner: only the watchdog
\* runs, and time passes; a watchdog that was stopped lets main() return.
FairSpec == Spec /\ WF_vars(GuardStep) /\ WF_vars(Expire) /\ WF_vars(Return)

-----------------------------------------------------------------------------
TypeOK ==
  /\ stdin.read <= stdin.arrived /\ stdin.arrived <= Len(stdin.sent)
  /\ Len(lines.buf) <= MaxLine
  /\ exit.reason \in Reasons \union {"none"} /\ exit.code = Code(exit.reason)
  /\ writer \in {"none", "main", "guard"} /\ proc \in {Running, 0, 1}
  /\ guard.armed => guard.code = Code(guard.reason)

\* The lines of a text, empty ones and those that are too long left out.
LinesOf(text) ==
  LET nls == SetToSortSeq({k \in 1 .. Len(text) : text[k] = "n"}, <)
      From(k) == IF k = 1 THEN 1 ELSE nls[k - 1] + 1
  IN SelectSeq([k \in 1 .. Len(nls) |-> SubSeq(text, From(k), nls[k] - 1)],
               LAMBDA line : Len(line) \in 1 .. MaxLine)

\* Whatever the reads cut the input into, the commands that run are its
\* lines in order, up to and with the first `exit`; nothing after an exit
\* was decided runs, nothing before it is left out (protocol.h:82).
CommandsAreLines ==
  LET sent == LinesOf(SubSeq(stdin.sent, 1, stdin.read)) IN
  /\ IsPrefix(ran, sent)
  /\ \A k \in 1 .. Len(ran) - 1 : ran[k] # <<"e">>
  /\ main.pc = "drain" /\ exit.reason = "none" => ran = sent

Exitings == Len(SelectSeq(out.lines, LAMBDA line : line = "exiting"))

\* stdout holds whole lines, one writer's at a time, and while the watchdog has
\* not fired ends with the one `exiting`.  A process that ended has said
\* `exiting`, unless the watchdog found the writer taken or stdout full
\* (exit_guard.cpp:58).
OutputEnds ==
  /\ writer = "guard" => ~out.begun
  /\ out.begun => writer = "main" \/ guard.gaveUp
  /\ guard.pc \in {"poll", "done"} => Exitings <= 1 /\ (Exitings = 1 => Last(out.lines) = "exiting")
  /\ proc # Running => Exitings >= 1 \/ guard.gaveUp
  /\ Exitings <= 2

\* What FairSpec brings to an end: a decided exit and a signal end the process,
\* whatever the main thread hangs in and whether or not anybody reads stdout.
Asked == Runs /\ (sig \/ exit.reason # "none")
=============================================================================
