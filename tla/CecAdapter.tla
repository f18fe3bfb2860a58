----------------------------- MODULE CecAdapter -----------------------------
(***************************************************************************)
(* A CEC adapter: the kernel's /dev/cecN, the cec_port helper that pumps   *)
(* its ioctls, results and events (cec_port.c), the transport that numbers *)
(* the requests (transport/port.ex), and Circuits.CEC.Adapter, which       *)
(* claims a logical address, follows the addresses, polls the TV and the   *)
(* receiver and transmits for its callers (adapter.ex).                    *)
(*                                                                         *)
(* A message is known by where it goes and what waits for its result.  The *)
(* callers transmit to the receiver (with the retry at the TV) or announce *)
(* the active source.  Of what the bus says, the messages are received     *)
(* that move the active source: another's <Active Source> (to the follower *)
(* a change of the route is the same) and the TV's <Set Stream Path>,      *)
(* which makes this adapter the active source and is answered.  A deadline *)
(* may pass at any time.                                                   *)
(*                                                                         *)
(* Left out: One Touch Play, keys, requests with a reply; the follower's   *)
(* other answers, which change nothing of its own, and <Standby>, sent or  *)
(* received, which only clears the flag; foreign configurations; a helper  *)
(* without the follower mode (EBUSY, adapter.ex:661), which hears nothing; *)
(* a transmit that the ioctl itself ends (tx_status, adapter.ex:1142: the  *)
(* poll of one's own address); and lost_msgs, which asks for the addresses *)
(* as a dropped event does.                                                *)
(***************************************************************************)
EXTENDS Integers, Sequences, SequencesExt

CONSTANTS
  Calls,        \* callers, each with one call
  Pas,          \* valid physical addresses; 0 is the invalid one
  MaxId,        \* @max_req_id
  MaxDrain,     \* MAX_DRAIN
  MaxOrphans,   \* @max_orphans
  MaxKernel,    \* bound: what happens to the adapter
  MaxHeard,     \* bound: messages about the active source
  Results,      \* what a transmit may end with
  MaxClaims,    \* bound: re-claims
  MaxDeadlines, \* bound: transmits whose result is late
  MaxPolls,     \* bound: polls of the TV on demand
  MaxRestart    \* bound: helpers that die

ASSUME CecAssumption ==
  /\ 0 \notin Pas \union Calls
  /\ MaxId \in Nat /\ MaxId >= 2 /\ MaxDrain \in Nat \ {0} /\ MaxOrphans \in Nat

VARIABLES
  kern,         \* the kernel's adapter and this file handle's queues
  helper,       \* cec_port: its step and how many frames it has read of stdin
  to, from,     \* its stdin and stdout, frame by frame
  ad,           \* the adapter process with its transport
  calls,        \* what each caller waits for
  count         \* bounds

cecVars == <<kern, helper, to, from, ad, calls, count>>

Off == -1
NoConf == [pa |-> 0, mask |-> FALSE]

\* init() with open/2: the helper is started.
FreshAdapter ==
  [up |-> TRUE, next |-> 1, reqs |-> {}, txs |-> {}, refs |-> 0, orphans |-> << >>,
   pa |-> 0, mask |-> FALSE, claim |-> "pending", ready |-> FALSE, gen |-> 0, active |-> FALSE,
   receiver |-> "unknown", tv |-> "unknown", flight |-> Off, repoll |-> FALSE, reclaim |-> FALSE,
   out |-> << >>, answers |-> {}, activeAt |-> 0, era |-> 0, tvEra |-> 0, receiverEra |-> 0]

CecInit ==
  /\ kern \in [pa : Pas, conf : {FALSE}, mask : {FALSE}, events : {<< >>},
               rx : {<< >>}, out : {{}}, seq : {0}, gone : {FALSE}]
  /\ helper = [at |-> "open", read |-> 0] /\ to = << >> /\ from = << >> /\ ad = FreshAdapter
  /\ calls = [c \in Calls |-> "idle"]
  /\ count = [kernel |-> 0, heard |-> 0, restarts |-> 0, claims |-> 0, deadlines |-> 0, polls |-> 0]

-----------------------------------------------------------------------------
(* The kernel (external).                                                  *)

\* One state change is queued for the helper; a newer one replaces it and is
\* flagged.
Notified(k) ==
  [k EXCEPT !.events = <<[pa |-> k.pa, mask |-> k.mask, dropped |-> @ # << >>]>>]

\* The result of a transmit, as it is received.
Result(seq, result) == [seq |-> seq, result |-> result, pa |-> 0]

\* The TV is plugged, unplugged or gives another address: the logical
\* address is gone, what is being transmitted is aborted.
Plug(pa) ==
  /\ ~kern.gone /\ pa # kern.pa /\ count.kernel < MaxKernel
  /\ \E aborted \in SetToSeqs({t.seq : t \in kern.out}) :
       /\ \A i, j \in DOMAIN aborted : i < j => aborted[i] < aborted[j]
       /\ kern' = Notified([kern EXCEPT !.pa = pa, !.mask = FALSE, !.out = {},
                    !.rx = @ \o [i \in DOMAIN aborted |-> Result(aborted[i], "error")]])
  /\ count' = [count EXCEPT !.kernel = @ + 1]
  /\ UNCHANGED <<helper, to, from, ad, calls>>

\* The claim in the background; it may also never succeed.
Claimed ==
  /\ ~kern.gone /\ kern.pa # 0 /\ kern.conf /\ ~kern.mask
  /\ kern' = Notified([kern EXCEPT !.mask = TRUE])
  /\ UNCHANGED <<helper, to, from, ad, calls, count>>

Transmitted(t, result) ==
  /\ ~kern.gone /\ t \in kern.out
  /\ kern' = [kern EXCEPT !.out = @ \ {t}, !.rx = Append(@, Result(t.seq, result))]
  /\ UNCHANGED <<helper, to, from, ad, calls, count>>

\* A message comes that is about the active source: another device announces
\* itself, or the TV sets the stream path.
Received(kind, pa) ==
  /\ ~kern.gone /\ kern.mask /\ count.heard < MaxHeard
  /\ kind = "stream_path" \/ pa # kern.pa
  /\ kern' = [kern EXCEPT !.rx = Append(@, [seq |-> 0, result |-> kind, pa |-> pa])]
  /\ count' = [count EXCEPT !.heard = @ + 1]
  /\ UNCHANGED <<helper, to, from, ad, calls>>

DeviceGone ==
  /\ ~kern.gone /\ count.kernel < MaxKernel /\ kern' = [kern EXCEPT !.gone = TRUE, !.out = {}]
  /\ count' = [count EXCEPT !.kernel = @ + 1]
  /\ UNCHANGED <<helper, to, from, ad, calls>>

\* What an ioctl does and answers.
Ioctl(k, req) ==
  LET ok(body) == [k |-> k, ok |-> TRUE, body |-> body]
      log(m) == [seq |-> 0, pa |-> 0, mask |-> m, conf |-> k.conf]
      failed == [k |-> k, ok |-> FALSE, body |-> log(FALSE)]
  IN CASE k.gone -> failed
       [] ~k.gone /\ req.op = "s_mode" -> ok(log(FALSE))
       [] ~k.gone /\ req.op = "g_phys" -> ok([log(FALSE) EXCEPT !.pa = k.pa])
       [] ~k.gone /\ req.op = "g_log" -> ok(log(k.mask))
       [] ~k.gone /\ req.op = "clear" ->
            LET cleared == [k EXCEPT !.conf = FALSE, !.mask = FALSE]
            IN [ok(log(FALSE)) EXCEPT !.k = IF k.mask THEN Notified(cleared) ELSE cleared]
       [] ~k.gone /\ req.op = "set" ->
            IF k.conf THEN failed ELSE [ok(log(FALSE)) EXCEPT !.k = [k EXCEPT !.conf = TRUE]]
       [] ~k.gone /\ req.op = "transmit" ->
            IF ~k.mask THEN failed
            ELSE [ok([log(FALSE) EXCEPT !.seq = k.seq + 1]) EXCEPT
                   !.k = [k EXCEPT !.seq = @ + 1, !.out = @ \union {[seq |-> k.seq + 1, ref |-> req.ref]}]]

-----------------------------------------------------------------------------
(* cec_port.                                                               *)

Frame(tag) == [tag |-> tag, id |-> 0, body |-> NoConf]
Says(frames) == from' = IF ad.up THEN from \o frames ELSE from
Goes(at) == helper' = [at |-> at, read |-> 0]

\* main(): the device is opened and answers G_CAPS, or not.  A new file
\* handle has nothing queued but the initial state.
Open ==
  /\ helper.at = "open"
  /\ IF kern.gone THEN Says(<<Frame("open_error"), Frame("exit")>>) /\ Goes("off") /\ UNCHANGED kern
     ELSE /\ Says(<<Frame("ready")>>) /\ Goes("poll")
          /\ kern' = Notified([kern EXCEPT !.events = << >>, !.rx = << >>])
  /\ UNCHANGED <<to, ad, calls, count>>

Shorter(queue) == SubSeq(queue, 1, IF Len(queue) < MaxDrain THEN Len(queue) ELSE MaxDrain)
Rest(queue) == SubSeq(queue, Len(Shorter(queue)) + 1, Len(queue))
Frames(tag, queue) == [i \in DOMAIN queue |-> [tag |-> tag, id |-> 0, body |-> queue[i]]]

\* A round of poll(): gone, or events, then results and messages, then stdin.
Poll ==
  /\ helper.at = "poll" /\ (kern.events # << >> \/ kern.rx # << >> \/ to # << >> \/ kern.gone)
  /\ IF kern.gone
     THEN /\ Says(<<Frame("gone"), Frame("exit")>>) /\ Goes("off") /\ UNCHANGED kern
     ELSE /\ Says(Frames("event", Shorter(kern.events)) \o Frames("msg", Shorter(kern.rx)))
          /\ kern' = [kern EXCEPT !.events = Rest(@), !.rx = Rest(@)]
          /\ Goes(IF to = << >> THEN "poll" ELSE "stdin")
  /\ UNCHANGED <<to, ad, calls, count>>

\* process_stdin() reads what is there once.
Read ==
  /\ helper.at = "stdin" /\ helper.read = 0
  /\ helper' = [helper EXCEPT !.read = Len(to)]
  /\ UNCHANGED <<kern, to, from, ad, calls, count>>

\* mutant of Consumed: what is left of the read is not counted
ConsumedUncounted ==
  /\ helper.at = "stdin" /\ helper.read > 0
  /\ to' = Tail(to)
  /\ IF Len(to) = 1 THEN Goes("poll") ELSE UNCHANGED helper
  /\ UNCHANGED <<ad, calls, count>>

\* One more of the frames that were read is done.
Consumed ==
  /\ helper.at = "stdin" /\ helper.read > 0
  /\ to' = Tail(to)
  /\ IF helper.read = 1 THEN Goes("poll") ELSE helper' = [helper EXCEPT !.read = @ - 1]
  /\ UNCHANGED <<ad, calls, count>>

\* mutant of HandleRequest: an ioctl that fails is not answered
HandleRequestSilent ==
  /\ Consumed
  /\ LET req == Head(to)
         done == Ioctl(kern, req)
     IN /\ kern' = done.k
        /\ IF done.ok THEN Says(<<[tag |-> "ok", id |-> req.id, body |-> done.body]>>) ELSE UNCHANGED from

\* Each frame is an ioctl and an answer.
HandleRequest ==
  /\ Consumed
  /\ LET req == Head(to)
         done == Ioctl(kern, req)
     IN /\ kern' = done.k
        /\ Says(<<[tag |-> IF done.ok THEN "ok" ELSE "err", id |-> req.id, body |-> done.body]>>)

\* stdin is closed.
Eof ==
  /\ helper.at = "poll" /\ ~ad.up /\ to = << >> /\ Goes("off")
  /\ UNCHANGED <<kern, to, from, ad, calls, count>>

\* It dies of an I/O error.
Dies ==
  /\ helper.at # "off" /\ ad.up /\ count.restarts < MaxRestart
  /\ Goes("off") /\ Says(<<Frame("exit")>>) /\ to' = << >>
  /\ kern' = [kern EXCEPT !.events = << >>, !.rx = << >>, !.out = {}]
  /\ count' = [count EXCEPT !.restarts = @ + 1]
  /\ UNCHANGED <<ad, calls>>

-----------------------------------------------------------------------------
(* The transport and the adapter's transmits, as functions of its state s; *)
(* s.out is what is written to the helper, s.answers which callers get a   *)
(* result, s.era (history) how often the adapter became configured.        *)

Configured(s) == s.pa # 0 /\ s.mask /\ s.claim \in {"kept", "claimed"}
Ids(s) == {r.id : r \in s.reqs}

FreeId(s) ==
  LET from0(id) == (id - s.next + MaxId) % MaxId
  IN CHOOSE id \in (1 .. MaxId) \ Ids(s) : \A j \in (1 .. MaxId) \ Ids(s) : from0(id) <= from0(j)

\* send_request()
Busy(s) == Cardinality(s.reqs) >= MaxId
Requested(s, op, purpose, ref) ==
  LET id == FreeId(s)
  IN [s EXCEPT !.next = IF id = MaxId THEN 1 ELSE id + 1,
               !.reqs = @ \union {[id |-> id, purpose |-> purpose, ref |-> ref]},
               !.out = Append(@, [op |-> op, id |-> id, ref |-> ref])]

\* send_internal(): a request that can't be sent is dropped.
Asks(s, op, purpose) == IF Busy(s) THEN s ELSE Requested(s, op, purpose, 0)

\* start_tx(), when it succeeds.
CanStart(s) == Configured(s) /\ ~Busy(s)
Started(s, cont) ==
  LET ref == s.refs + 1
  IN [Requested(s, "transmit", "transmit", ref) EXCEPT !.refs = ref,
        !.txs = @ \union {[ref |-> ref, seq |-> 0, cont |-> cont, gen |-> s.gen, era |-> s.era]}]

NoJob == [kind |-> "none", call |-> 0, to |-> "none", fallback |-> FALSE, pa |-> 0]
Poller(kind) == [NoJob EXCEPT !.kind = kind]
Start(s, cont) == IF CanStart(s) THEN Started(s, cont) ELSE s

\* poll_tv_now()
PollTv(s) ==
  IF ~Configured(s) THEN s
  ELSE IF s.flight = Off
  THEN IF CanStart(s) THEN [Started(s, Poller("tv_poll")) EXCEPT !.flight = s.gen] ELSE s
  ELSE IF s.flight # s.gen THEN [s EXCEPT !.repoll = TRUE] ELSE s

Answered(s, job) == [s EXCEPT !.answers = @ \union {job.call}]

\* start_job(): without a transmit the caller has its error at once.
StartJob(s, job) == IF CanStart(s) THEN Started(s, job) ELSE Answered(s, job)

\* presence(), and what is believed of the receiver and the TV from then on.
Tells(result) == result \in {"ok", "nack"}
Presence(result) == IF result = "ok" THEN "present" ELSE "absent"
Receiver(s, era, result) ==
  IF Tells(result) THEN [s EXCEPT !.receiver = Presence(result), !.receiverEra = era] ELSE s
Tv(s, era, result) == IF Tells(result) THEN [s EXCEPT !.tv = Presence(result), !.tvEra = era] ELSE s

\* finish_job(): a receiver that does not answer is tried at the TV.
FinishJob(s, tx, job, stale, result) ==
  IF job.fallback /\ ~stale
  THEN IF result = "nack"
       THEN StartJob(Receiver(s, tx.era, result), [job EXCEPT !.to = "tv", !.fallback = FALSE])
       ELSE Answered(Receiver(s, tx.era, result), job)
  ELSE Answered(IF job.to = "all" /\ result = "ok" /\ ~stale
                THEN [s EXCEPT !.active = TRUE, !.activeAt = job.pa] ELSE s, job)

\* mutant of CompleteTx: what was sent in an earlier generation counts
CompleteTxAny(s, tx, result) ==
  LET done == [s EXCEPT !.txs = @ \ {tx}]
      cont == tx.cont
  IN CASE cont.kind = "job" -> FinishJob(done, tx, cont, FALSE, result)
       [] cont.kind = "receiver_poll" -> Receiver(done, tx.era, result)
       [] cont.kind = "tv_poll" -> Tv([done EXCEPT !.flight = Off], tx.era, result)
       [] cont.kind = "follower" -> done

\* complete_tx() with continue(), stale() in an earlier generation.
CompleteTx(s, tx, result) ==
  LET done == [s EXCEPT !.txs = @ \ {tx}]
      stale == tx.gen # s.gen
      cont == tx.cont
  IN CASE cont.kind = "job" -> FinishJob(done, tx, cont, stale, result)
       [] cont.kind = "receiver_poll" -> IF stale THEN done ELSE Receiver(done, tx.era, result)
       [] cont.kind = "tv_poll" /\ stale ->
            LET over == [done EXCEPT !.flight = Off]
            IN IF s.repoll THEN PollTv([over EXCEPT !.repoll = FALSE]) ELSE over
       [] cont.kind = "tv_poll" /\ ~stale -> Tv([done EXCEPT !.flight = Off], tx.era, result)
       [] cont.kind = "follower" -> done

\* on_tx_result(): an orphan if no transmit has the sequence.
TxResult(s, msg) ==
  LET mine == {t \in s.txs : t.seq = msg.seq}
  IN IF mine # {} THEN CompleteTx(s, CHOOSE t \in mine : TRUE, msg.result)
     ELSE LET all == <<msg>> \o s.orphans
          IN [s EXCEPT !.orphans = SubSeq(all, 1, IF Len(all) < MaxOrphans THEN Len(all) ELSE MaxOrphans)]

\* on_tx_reply()
TxReply(s, ref, frame) ==
  LET mine == {t \in s.txs : t.ref = ref}
      tx == CHOOSE t \in mine : TRUE
      known == [s EXCEPT !.txs = (@ \ {tx}) \union {[tx EXCEPT !.seq = frame.body.seq]}]
      early == {i \in DOMAIN s.orphans : s.orphans[i].seq = frame.body.seq}
      first == CHOOSE i \in early : \A j \in early : i <= j
  IN IF mine = {} THEN s
     ELSE IF frame.tag = "err" THEN CompleteTx(s, tx, "error")
     ELSE IF early = {} THEN known
     ELSE TxResult([known EXCEPT !.orphans = RemoveAt(@, first)], s.orphans[first])

-----------------------------------------------------------------------------
(* The adapter's addresses.                                                *)

NeedsReclaim(s) == s.ready /\ s.claim \in {"kept", "claimed"} /\ s.pa # 0 /\ ~s.mask
ArmReclaim(s) == [s EXCEPT !.reclaim = NeedsReclaim(s)]

\* on_configured()
OnConfigured(s) ==
  LET new == [s EXCEPT !.era = @ + 1]
  IN PollTv(Start(new, Poller("receiver_poll")))

\* transition()
Transition(old, changed) ==
  LET was == Configured(old)
      now == Configured(changed)
      new == IF (was /\ ~now) \/ changed.pa # old.pa
             THEN [changed EXCEPT !.gen = @ + 1, !.active = FALSE] ELSE changed
  IN ArmReclaim(CASE now /\ ~was -> OnConfigured(new)
                  [] was /\ ~now -> [new EXCEPT !.receiver = "unknown", !.tv = "unknown"]
                  [] was = now -> new)

SetAddresses(s, pa, mask) == Transition(s, [s EXCEPT !.pa = pa, !.mask = mask])
SetClaim(s, claim) == Transition(s, [s EXCEPT !.claim = claim, !.ready = TRUE])

\* claim() and reclaim(), on what G_LOG found.
Claim(s, conf) == IF conf THEN SetClaim(s, "kept") ELSE Asks(s, "set", "claim_set")
Reclaim(s, conf) ==
  IF ~NeedsReclaim(s) THEN s
  ELSE IF conf THEN Asks(s, "clear", "reclaim_clear") ELSE Asks(s, "set", "reclaim_set")

\* on_kernel_event()
Event(s, ev) ==
  SetAddresses(IF ev.dropped THEN Asks(Asks(s, "g_phys", "g_phys"), "g_log", "resync") ELSE s, ev.pa, ev.mask)

\* on_received() with follow(), of a message that is about the active source:
\* told to stream from here, the adapter is the active source from then on;
\* its <Active Source> may not get out, and what becomes of it is not looked
\* at (continue(), adapter.ex:1301).  Another address is the active source.
FollowerReply(s) == [NoJob EXCEPT !.kind = "follower", !.to = "all", !.pa = s.pa]
Follow(s, msg) ==
  LET routed == msg.result = "stream_path" /\ Configured(s)
  IN CASE msg.pa # s.pa -> [s EXCEPT !.active = FALSE]
       [] msg.pa = s.pa /\ ~routed -> s
       [] msg.pa = s.pa /\ routed ->
            Start([s EXCEPT !.active = TRUE, !.activeAt = s.pa], FollowerReply(s))

\* on_reply()
Reply(s, purpose, ref, frame) ==
  LET ok == frame.tag = "ok"
      log == SetAddresses(s, s.pa, frame.body.mask)
  IN CASE purpose = "transmit" -> TxReply(s, ref, frame)
       [] purpose = "mode" /\ ok -> Asks(s, "g_log", "claim")
       [] purpose = "g_phys" /\ ok -> SetAddresses(s, frame.body.pa, s.mask)
       [] purpose = "claim" /\ ok -> Claim(log, frame.body.conf)
       [] purpose = "reclaim" /\ ok -> Reclaim(log, frame.body.conf)
       [] purpose = "resync" /\ ok -> log
       [] purpose \in {"claim_set", "reclaim_set"} /\ ok ->
            SetClaim([s EXCEPT !.mask = frame.body.mask], "claimed")
       [] purpose = "reclaim_clear" /\ ok -> Asks(s, "set", "reclaim_set")
       [] purpose \in {"claim", "claim_set"} /\ ~ok -> [s EXCEPT !.claim = "error", !.ready = TRUE]
       [] OTHER -> s

\* A message of the helper; none of a reply whose request is not known.
HandledFrame(s, frame) ==
  CASE frame.tag = "ready" -> Asks(s, "s_mode", "mode")
    [] frame.tag \in {"ok", "err"} ->
         LET req == CHOOSE r \in s.reqs : r.id = frame.id
         IN IF frame.id \in Ids(s)
            THEN Reply([s EXCEPT !.reqs = @ \ {req}], req.purpose, req.ref, frame) ELSE s
    [] frame.tag = "event" -> Event(s, frame.body)
    [] frame.tag = "msg" -> IF frame.body.seq # 0 THEN TxResult(s, frame.body) ELSE Follow(s, frame.body)

\* mode errors, gone and the end of the helper stop the adapter: fail_all().
Stops(frame) ==
  \/ frame.tag \in {"open_error", "gone", "exit"}
  \/ frame.tag = "err" /\ \E r \in ad.reqs : r.id = frame.id /\ r.purpose = "mode"

Becomes(s) ==
  /\ ad' = [s EXCEPT !.out = << >>, !.answers = {}]
  /\ to' = IF helper.at = "off" THEN << >> ELSE to \o s.out
  /\ calls' = [c \in DOMAIN calls |-> IF c \in s.answers THEN "answered" ELSE calls[c]]

HandleInfo ==
  /\ ad.up /\ from # << >> /\ ~Stops(Head(from))
  /\ Becomes(HandledFrame(ad, Head(from))) /\ from' = Tail(from)
  /\ UNCHANGED <<kern, helper, count>>

StopAdapter ==
  /\ ad.up /\ from # << >> /\ Stops(Head(from))
  /\ ad' = [ad EXCEPT !.up = FALSE, !.txs = {}, !.reqs = {}, !.reclaim = FALSE] /\ from' = << >>
  /\ calls' = [c \in DOMAIN calls |-> IF \E t \in ad.txs : t.cont.call = c THEN "answered" ELSE calls[c]]
  /\ UNCHANGED <<kern, helper, to, count>>

\* A :transient child is restarted when the helper died; the kernel keeps
\* the claim.
Restart ==
  /\ ~ad.up /\ helper.at = "off" /\ ~kern.gone /\ count.restarts > 0
  /\ ad' = FreshAdapter /\ Goes("open") /\ to' = << >>
  /\ UNCHANGED <<kern, from, calls, count>>

TxDeadline(tx) ==
  /\ ad.up /\ tx \in ad.txs /\ count.deadlines < MaxDeadlines
  /\ Becomes(CompleteTx(ad, tx, "error"))
  /\ count' = [count EXCEPT !.deadlines = @ + 1]
  /\ UNCHANGED <<kern, helper, from>>

ReclaimTimer ==
  /\ ad.up /\ ad.reclaim /\ count.claims < MaxClaims
  /\ Becomes(ArmReclaim(Asks(ad, "g_log", "reclaim")))
  /\ count' = [count EXCEPT !.claims = @ + 1]
  /\ UNCHANGED <<kern, helper, from>>

\* transmit() to :receiver, active_source()
Call(c, target) ==
  /\ ad.up /\ calls[c] = "idle"
  /\ LET waits == [calls EXCEPT ![c] = "waiting"]
         job == IF target = "all" THEN [kind |-> "job", call |-> c, to |-> "all", fallback |-> FALSE, pa |-> ad.pa]
                ELSE [kind |-> "job", call |-> c, pa |-> 0, fallback |-> ad.receiver # "absent",
                      to |-> IF ad.receiver = "absent" THEN "tv" ELSE "receiver"]
         s == StartJob(ad, job)
     IN /\ ad' = [s EXCEPT !.out = << >>, !.answers = {}]
        /\ to' = IF helper.at = "off" THEN << >> ELSE to \o s.out
        /\ calls' = IF c \in s.answers THEN [calls EXCEPT ![c] = "answered"] ELSE waits
  /\ UNCHANGED <<kern, helper, from, count>>

PollTvCast ==
  /\ ad.up /\ count.polls < MaxPolls
  /\ Becomes(PollTv(ad))
  /\ count' = [count EXCEPT !.polls = @ + 1]
  /\ UNCHANGED <<kern, helper, from>>

CecNext ==
  \/ \E pa \in Pas \union {0} : Plug(pa)
  \/ Claimed \/ DeviceGone
  \/ \E kind \in {"active_source", "stream_path"}, pa \in Pas : Received(kind, pa)
  \/ \E t \in kern.out, result \in Results : Transmitted(t, result)
  \/ Open \/ Poll \/ Read \/ HandleRequest \/ Eof \/ Dies
  \/ HandleInfo \/ StopAdapter \/ Restart \/ ReclaimTimer \/ PollTvCast
  \/ \E tx \in ad.txs : TxDeadline(tx)
  \/ \E c \in Calls, target \in {"receiver", "all"} : Call(c, target)

CecSpec == CecInit /\ [][CecNext]_cecVars

-----------------------------------------------------------------------------
CecTypeOK ==
  /\ kern.pa \in Pas \union {0} /\ (kern.mask => kern.conf /\ kern.pa # 0) /\ Len(kern.events) <= 1
  /\ helper.at \in {"open", "poll", "stdin", "off"} /\ helper.read \in 0 .. Len(to) /\ Len(ad.orphans) <= MaxOrphans
  /\ ad.receiver \in {"unknown", "present", "absent"} /\ ad.tv \in {"unknown", "present", "absent"}
  /\ ad.next \in 1 .. MaxId /\ ad.out = << >> /\ ad.answers = {}

Numbers(frames, tags) == {i \in DOMAIN frames : frames[i].tag \in tags}

\* Every request is answered exactly once: while the helper lives, each id in
\* flight is on its way there or back once, and no other is (transport.ex:14).
OneReplyEach ==
  LET asked(id) == {i \in DOMAIN to : to[i].id = id}
      back(id) == {i \in Numbers(from, {"ok", "err"}) : from[i].id = id}
  IN ad.up /\ helper.at # "off" =>
       /\ Cardinality(Ids(ad)) = Cardinality(ad.reqs)
       /\ \A id \in 1 .. MaxId :
            Cardinality(asked(id)) + Cardinality(back(id)) = IF id \in Ids(ad) THEN 1 ELSE 0

\* What is believed of the TV and the receiver was learnt by a transmit sent
\* since the adapter was last configured, and nothing is believed while it
\* is not (adapter.ex:868).
BeliefIsCurrent ==
  /\ ad.tv # "unknown" => Configured(ad) /\ ad.tvEra = ad.era
  /\ ad.receiver # "unknown" => Configured(ad) /\ ad.receiverEra = ad.era

\* Who takes itself for the active source is configured, and became it at the
\* address that it has: it announced that one, or the TV routed to it
\* (adapter.ex:872).  That its answer to the TV got out is not promised.
ActiveIsHere == ad.active => Configured(ad) /\ ad.activeAt = ad.pa

\* A caller that waits has a transmit out, the poll of the TV that is counted
\* as out is out, and no result is put aside that a transmit waits for: with
\* this helper the reply to a transmit comes before its result.
WaitsForSomething ==
  /\ \A c \in DOMAIN calls : calls[c] = "waiting" => ad.up /\ \E t \in ad.txs : t.cont.call = c
  /\ ad.flight # Off /\ ad.up => \E t \in ad.txs : t.cont.kind = "tv_poll" /\ t.gen = ad.flight
  /\ \A t \in ad.txs, i \in DOMAIN ad.orphans :
       \A k \in kern.out : k.seq = ad.orphans[i].seq => k.ref # t.ref

\* Every request is answered once while the helper lives, and who waits - a
\* caller, the poll of the TV - waits for a transmit that is out
\* (transport.ex:14, adapter.ex:868).
RequestsAreAnswered == OneReplyEach /\ WaitsForSomething

\* What is believed of the TV and the receiver was learnt since the adapter
\* was last configured, and it is the active source only at the address that
\* it announced or was routed to (adapter.ex:868 and 872).
BeliefsAreCurrent == BeliefIsCurrent /\ ActiveIsHere
=============================================================================
