----------------------------- MODULE StderrSync -----------------------------
(***************************************************************************)
(* How milkdrop_renderer learns from the driver's stderr which preset it   *)
(* could not compile: fd 2 is a pipe that a thread drains and classifies   *)
(* (stderr_capture.cpp), and the warm-up of a preset writes markers into   *)
(* it and waits for them, each time for a while only (main.cpp).           *)
(*                                                                         *)
(* A line is known by what it is classified as.  The driver writes on the  *)
(* render thread, during frames and in the two steps of a warm-up; text it *)
(* has not ended yet runs on into what is written next.  Left out is the   *)
(* other witness of a warm-up: a GPU reset in the kernel's log overrides   *)
(* whatever the driver said, with reason gpu_hang (main.cpp:425).          *)
(***************************************************************************)
EXTENDS Integers, Sequences

CONSTANTS
  Cap,          \* lines the pipe holds
  MaxFindings,  \* findings_ kept, 64
  MaxReported,  \* driver errors reported, 20
  MaxWarmups,   \* bound: warm-ups
  MaxLines      \* bound: lines of the driver

StderrAssumption ==
  /\ Cap \in Nat \ {0} /\ MaxFindings \in Nat /\ MaxReported \in Nat
  /\ MaxWarmups \in Nat /\ MaxLines \in Nat

VARIABLES
  pipe,         \* lines written to fd 2 and not read
  tail,         \* the line begun and not ended: its kind, or "none"
  capture,      \* StderrCapture
  main,         \* the main thread: warm_up()
  reported,     \* driver_errors_reported_
  wrote,        \* history: the warm-up ended a register allocation failure
  lines         \* bound: lines so far

stderrVars == <<pipe, tail, capture, main, reported, wrote, lines>>

Kinds == {"ra", "error", "text"}
All == MaxWarmups * 3 + 1      \* marker_seen_ at the end: more than any marker

\* start() may fail: stderr is left alone.
StderrInit ==
  \E on \in BOOLEAN :
    /\ pipe = << >> /\ tail = "none" /\ reported = 0 /\ wrote = FALSE /\ lines = 0
    /\ capture = [on |-> on, thread |-> on, sent |-> 0, seen |-> 0, ra |-> 0, findings |-> 0]
    /\ main = [pc |-> "frames", step |-> "none", before |-> FALSE, after |-> FALSE,
               every |-> TRUE, base |-> 0, verdict |-> "none", done |-> 0]

At(pc) == main.pc = pc
Goto(pc) == main' = [main EXCEPT !.pc = pc]
Room == Len(pipe) < Cap

-----------------------------------------------------------------------------
(* The driver, and what it wrote in this warm-up.                          *)

Writes == main.pc \in {"frames", "preload", "draw"}
Wrote(kind) == wrote' = (wrote \/ (kind = "ra" /\ main.pc # "frames"))

BeginsLine(kind) ==
  /\ Writes /\ capture.on /\ tail = "none" /\ lines < MaxLines /\ lines' = lines + 1
  /\ tail' = kind
  /\ UNCHANGED <<pipe, capture, main, reported, wrote>>

\* A full pipe blocks the writer until the thread has read.
Ends ==
  /\ Writes /\ tail # "none" /\ Room
  /\ pipe' = Append(pipe, [kind |-> tail, n |-> 0]) /\ tail' = "none" /\ Wrote(tail)
  /\ UNCHANGED <<capture, main, reported, lines>>

-----------------------------------------------------------------------------
(* The reader.                                                             *)

\* run() with feed(), for a line.
Read ==
  /\ capture.thread /\ pipe # << >> /\ pipe' = Tail(pipe)
  /\ LET line == Head(pipe)
         found == IF line.kind \in {"ra", "error"} /\ capture.findings < MaxFindings THEN 1 ELSE 0
     IN capture' = [capture EXCEPT
          !.seen = IF line.kind = "sync" /\ line.n > @ THEN line.n ELSE @,
          !.ra = IF line.kind = "ra" THEN @ + 1 ELSE @,
          !.findings = @ + found]
  /\ UNCHANGED <<tail, main, reported, wrote, lines>>

\* The end of the pipe releases who waits.
ReaderEnds ==
  /\ capture.thread /\ ~capture.on /\ pipe = << >>
  /\ capture' = [capture EXCEPT !.thread = FALSE, !.seen = All]
  /\ UNCHANGED <<pipe, tail, main, reported, wrote, lines>>

-----------------------------------------------------------------------------
(* The main thread.                                                        *)

\* warm_up() of a preset, with the first sync().
WarmUp ==
  /\ At("frames") /\ main.done < MaxWarmups
  /\ main' = [main EXCEPT !.pc = "mark", !.step = "before", !.every = TRUE, !.verdict = "none"]
  /\ wrote' = FALSE
  /\ UNCHANGED <<pipe, tail, capture, reported, lines>>

\* sync(): the marker, which ends a line that the driver has not ended.
Mark ==
  /\ At("mark") /\ Room
  /\ IF ~capture.on THEN Goto("wait") /\ UNCHANGED <<pipe, tail, capture, wrote>>
     ELSE /\ capture' = [capture EXCEPT !.sent = @ + 1]
          /\ pipe' = Append(pipe, IF tail = "none" THEN [kind |-> "sync", n |-> capture.sent + 1]
                                  ELSE [kind |-> tail, n |-> 0])
          /\ tail' = "none" /\ wrote' = (wrote \/ (tail = "ra" /\ main.step # "before"))
          /\ Goto("wait")
  /\ UNCHANGED <<reported, lines>>

Synced == ~capture.on \/ capture.seen >= capture.sent

\* It returns: the marker was seen, or the time is over.
Return ==
  /\ At("wait")
  /\ \E ok \in {Synced, FALSE} :
       main' = IF main.step = "before"
               THEN [main EXCEPT !.before = ok, !.every = ok, !.pc = "base"]
               ELSE [main EXCEPT !.after = ok, !.every = @ /\ ok, !.pc = "check"]
  /\ UNCHANGED <<pipe, tail, capture, reported, wrote, lines>>

Base ==
  /\ At("base") /\ main' = [main EXCEPT !.base = capture.ra, !.pc = "preload"]
  /\ UNCHANGED <<pipe, tail, capture, reported, wrote, lines>>

\* preload() or the frame off the screen is done: sync() again.
Step ==
  /\ main.pc \in {"preload", "draw"}
  /\ main' = [main EXCEPT !.step = main.pc, !.pc = "mark"]
  /\ UNCHANGED <<pipe, tail, capture, reported, wrote, lines>>

\* mutant of Failed: only the sync after the step counts
FailedAfter == capture.ra # main.base /\ main.after

\* ra_failed(): a changed count is attributed between two completed syncs.
Failed == capture.ra # main.base /\ main.before /\ main.after

\* The preset failed, for that or for another reason, or goes on.
Check ==
  /\ At("check")
  /\ \/ Failed /\ main' = [main EXCEPT !.pc = "over", !.verdict = "register_allocate"]
     \/ ~Failed /\ main' = [main EXCEPT !.pc = "over", !.base = capture.ra, !.verdict = "other"]
     \/ ~Failed /\ main' = [main EXCEPT !.pc = IF main.step = "preload" THEN "draw" ELSE "over",
                                        !.base = capture.ra]
  /\ UNCHANGED <<pipe, tail, capture, reported, wrote, lines>>

Over ==
  /\ At("over") /\ main' = [main EXCEPT !.pc = "frames", !.done = @ + 1]
  /\ UNCHANGED <<pipe, tail, capture, reported, wrote, lines>>

\* report_driver_errors()
Report ==
  /\ At("frames") /\ capture.findings > 0
  /\ capture' = [capture EXCEPT !.findings = 0]
  /\ reported' = IF reported + capture.findings > MaxReported THEN MaxReported ELSE reported + capture.findings
  /\ UNCHANGED <<pipe, tail, main, wrote, lines>>

\* stop(): fd 2 is what it was, which ends the pipe; the thread is joined.
Stop ==
  /\ At("frames") /\ capture.on
  /\ capture' = [capture EXCEPT !.on = FALSE] /\ tail' = "none" /\ Goto("join")
  /\ UNCHANGED <<pipe, reported, wrote, lines>>

Joined ==
  /\ At("join") /\ ~capture.thread /\ Goto("stopped")
  /\ UNCHANGED <<pipe, tail, capture, reported, wrote, lines>>

ReaderStep == Read \/ ReaderEnds
MainStep == Mark \/ Return \/ Base \/ Step \/ Check \/ Over \/ Joined

StderrNext ==
  \/ ReaderStep \/ MainStep
  \/ \E kind \in Kinds : BeginsLine(kind)
  \/ Ends \/ WarmUp \/ Report \/ Stop

StderrSpec == StderrInit /\ [][StderrNext]_stderrVars

-----------------------------------------------------------------------------
StderrTypeOK ==
  /\ Len(pipe) <= Cap /\ tail \in Kinds \union {"none"}
  /\ capture.sent \in 0 .. All /\ capture.seen \in 0 .. All /\ capture.findings <= MaxFindings
  /\ reported <= MaxReported /\ main.base <= capture.ra

\* A preset is blamed for a register allocation failure only if the driver
\* reported one while it was warmed up, however late the reader is and
\* however many syncs timed out before; and it is blamed if every sync of
\* its warm-up completed (main.cpp:362 and 370).
BlamedIsGuilty ==
  main.pc = "over" =>
    /\ main.verdict = "register_allocate" => wrote
    /\ wrote /\ capture.on /\ main.every => main.verdict = "register_allocate"
=============================================================================
