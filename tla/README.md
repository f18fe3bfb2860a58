# Universal Proxy in TLA+

TLA+ modules for Universal Proxy: the Nerves firmware (Elixir, `lib/`) that
makes a small board a Bluetooth, serial, Zigbee, Z-Wave, infrared and audio
proxy for Home Assistant and Music Assistant, and its two native programs,
`sendspin_player` and `milkdrop_renderer` (C++, `c_src/`).  They are checked
with TLC on small instances; what matters most of eleven of the parts is proved
with TLAPS for all instances.  `PROJECT.json` maps every definition to the lines
it models.

    tlc -workers 2 -config Tap.cfg MCPcmTap        # a run
    tlapm PcmTapProofs.tla                         # the proofs

## 1. Inventory

Each part, its state, who talks to it, and what makes it correct.

### Audio path (native)

| Part | State | Interaction | Hard | Correct when |
|---|---|---|---|---|
| PCM tap (`pcm_tap_writer.h`, `pcm_tap.h`) | header counters, chunk records, sample ring, in a mapped file | one writer process, one reader process, no locks | torn copies, laps, a writer killed between two stores, reuse of the file | an `Ok` copy is committed samples of one epoch; counters only rise |
| ALSA sink (`alsa_pipe_sink.cpp`) | byte ring, running/flush/tap flags, PCM | library role thread, main thread, playback thread | hand-over of the tap without a lock, device loss, restarts | FIFO, whole frames, nothing used after it is closed, every call returns |
| Visualizer gate (`viz_gate.h`) | enabled flag, stream boundary | drain thread writes frames, main thread boundaries | a frame between check and write | nothing of an old stream after its boundary |
| Artwork store (`artwork_store.cpp`) | pending per slot, displayed list, files | decode thread, main thread, the BEAM reads the files | sharing by content, pruning, failing writes | what is shown or pending exists; nothing else stays |
| State directory (`file_persistence.cpp`) | keypair and pairing token, a file each | the library and `main()` load and save | calls that fail, kills and power cuts between any two system calls | old or new and never torn; the advertised identity is the one servers know |
| ALSA capabilities (`alsa_caps.cpp`, `started_event.cpp`) | none | probe of the device, ELD of the TV | ELD lines in any order, several descriptors | advertises the floor and only what can be played |
| Display roles (`display_roles.cpp`) | change caches | library callbacks, stdout | thread of the callback | events only on change |
| Player main (`main.cpp`) | option state, pipes, what the BEAM was told | commands on stdin, events on stdout, signals | the end of stdin among lines, listeners while `main()` returns | commands in order, what was said last is so, clean exit |

### Visualizer (native)

| Part | State | Interaction | Hard | Correct when |
|---|---|---|---|---|
| Preset switch (`preset_manager.cpp`, `switch_state.h`, `main.cpp`) | skip set, history, bag, pending switch, warm-ups | commands, GPU hang reports in the kernel log, budget verdicts | orders of command, hang, warm-up failure, take and release | a preset that hung the GPU is not presented again; frames are not held for ever |
| Scanout (`kms.cpp`, `main.cpp`) | front, pending, queued, left buffers, flip events | kernel page flips, DRM master passed with the TV UI | late flips, release and take | what is scanned out is locked and keeps its framebuffer |
| Cost and thermal guard (`cost_guard.cpp`, `thermal.cpp`) | window of frame times, level, settled level per preset | frames that flip, presets that begin, the user's minimum rate, the temperature | frames of the level or preset before are in flight | a window is of one preset and level; what is settled was judged by the rate of now |
| Frame pacer (`frame_pacer.cpp`) | last flip, interval | the loop, page flips | late flips, a change of the interval | the frame shown is the one its sound was chosen for |
| Commands and exit (`protocol.h`, `json.cpp`, `exit_guard.cpp`) | line buffer, exit reason, watchdog | stdin, stdout, signals | lines cut by reads, a main thread or a stdout that hangs | commands are the lines sent; the process ends, saying so |
| Stderr capture (`stderr_capture.cpp`) | pipe, findings, markers | the driver writes, a thread classifies | lines that come after the step that caused them | the preset blamed is the one that was warmed up |

### Servers (Elixir)

| Part | State | Interaction | Hard | Correct when |
|---|---|---|---|---|
| Zigbee proxy (`esphome/zigbee_proxy.ex`) | session, subscriber, tty, modem cache, 256-byte buffer, snapshot | ESPHome connections by call and cast, tty messages, timer | calls given up by their caller, dead clients with `:DOWN` queued, replugged sticks | bytes once and in order; no ghost session; advertised stick is the one held |
| Audio registry (`audio/server.ex`) | outputs, players, ports, live state, owner of the display roles | players, PubSub, uevents, UI | queued events of stopped players, respawns, restart | table equals reality, volumes converge |
| Audio player (`audio/player.ex`) | port, mDNS, tap lease, display snapshot | its binary, tap owners, mDNS | lease after owner's death, retry of registration | tap on only under a lease |
| Audio input, store, enumeration | capture ports; DETS rows | arecord, registry | capture restarts | — |
| Serial proxy, UART registry | open ports, owners | ESPHome connections | owner dies, port vanishes | one owner per port |
| Z-Wave proxy | parser state, home id, subscriber | tty, connections | frames split over reads | ACK for each frame |
| Bluetooth proxy, manager, radios | connection slots, radio roles | BlueZ, connections | slot leaks, radio taken over | slots in use = connections |
| CEC driver (`circuits_cec`: `cec_port.c`, `port.ex`, `adapter.ex`) | claim, addresses, requests and transmits out, what is believed of TV and receiver | the kernel's `/dev/cecN`, callers | results late or of an earlier configuration, a helper that dies | each request is answered once; beliefs are of the bus of now |
| CEC server, volume link | power state, link | CEC adapter, registry | echo loops, player restarts | volume follows one side |
| Display (`display/`) | mode, playback, bound output, viewport, renderer session, timers | players, CEC, pack, the viewport, the renderer's port owner and its reaper | renderer or port owner dies in any phase, rebinding, timeouts | one program has the screen, and it comes back |
| MilkDrop store (`milk_drop/`) | packs, settings, skipped presets, the preset in flight | display, UI | a crash between install steps or during a preset | a pack is whole; a preset that hung the GPU is skipped |
| Storage (`storage/`) | mounts, smbd | uevents, UI | stick pulled while mounted | share never points at an unmounted dir |
| Tuya meshes | sequence numbers, retries, group state | BLE radio, HA | reboot, lost adverts | a sequence number is not used twice |
| FMA120, BTD700 | requests in flight | HID | late replies | reply matched to its request |
| Firmware update, Wi-Fi policy, SSH | update step, network choice | UI, network | cut power, two updates | one update at a time |
| Web UI | pages | all servers | — | renders |

The other vendored libraries (`deps_local/`), cryptography (`sendspin/`), and pages are
listed in `PROJECT.json` with the reason they are not modelled.

## 2. Modules

Parameters are CONSTANTS with named assumptions.  One action is one indivisible
step of the code: an atomic access, a critical section, or a handler of a
GenServer run to its end with every helper it calls.

| Module | Code | Model-checked by | Runs |
|---|---|---|---|
| `PcmTap`, `PcmTapProofs` | PCM tap | `MCPcmTap` | Tap |
| `AlsaSink`, `AlsaSinkProofs` | playback sink | `MCPlayer`, `MCEnds` | Player, Ends |
| `PlayerMain`, `PlayerProofs` | main thread and display roles of the player | `MCPlayer` | Player |
| `AlsaCaps` | formats a player advertises | `MCPlayer` | Player |
| `FilePersistence`, `PlayerProofs` | the player's state directory | `MCPlayer` | Player |
| `KeyStore` | what a state directory promises | refined by `FilePersistence` | Player |
| `VizGate`, `RolesProofs` | visualizer gate | `MCDisplayRoles` | Roles |
| `ArtworkStore`, `RolesProofs` | artwork files | `MCDisplayRoles` | Roles, ArtLeak |
| `Scanout`, `RendererProofs` | buffers on the display | `MCEnds`, `MCRenderer` | Ends, Renderer, ScanoutStale |
| `PresetSwitch`, `PresetSwitchProofs` | choice of the preset | `MCPresetSwitch`, `MCEnds` | Switch, Ends |
| `CostLadder`, `RendererProofs` | cost and thermal guard | `MCRenderer` | Renderer |
| `FramePacer`, `RendererProofs` | page-flip pacing | `MCRenderer` | Renderer |
| `RendererExit` | commands, exit and watchdog of the renderer | `MCRenderer`, `MCEnds` | Renderer, Ends |
| `StderrSync`, `RendererProofs` | blame for what the driver says | `MCRenderer` | Renderer |
| `ZigbeeProxy`, `ZigbeeProofs` | owner of the Zigbee stick | `MCZigbeeProxy`, `MCEnds` | Zig, Ends |
| `AudioServer` | registry of outputs | `MCAudioServer`, `MCEnds` | Aud, AudStale, Ends |
| `CecAdapter`, `TvProofs` | CEC helper, transport and adapter | `MCTv` | Tv |
| `DisplayHandover`, `TvProofs` | screen between viewport and renderer | `MCTv`, `MCEnds` | Tv, Ends |

An MC module EXTENDS the modules whose properties are proved too, so that the run checks
the very definitions that the theorems name, and instantiates the others.  Modules that are
extended together have names of their own for what each has (`LadderNext`, `PacerNext` ...).

**PcmTap.** Every shared load and store is a step.  `file` is the header,
`records` and `data` the rings, `w` and `r` the private state of the writer and the reader
with their program counters, `chunks` a history of what was committed.  While a
memcpy lasts its slots are "mixed": a reader may see any blend.  `Kill` stops
the writer anywhere; `OpenReuse` is the next process on the same file.  Time is
counted in frame periods.  Replacement of the file itself (inode change) is not
modelled, nor weak memory: the code's acquire/release pairs are taken to order
what they order.

**AlsaSink.** Three threads, each with a program counter.  A section under
`ring_mtx_` is a step, a condition wait ends when its predicate holds or at its
time limit.  Bytes are serial numbers, so loss and reordering show.  ALSA is
external: it drains, underruns, is suspended with the system, disappears or fails to open.
`recover_xrun()` prepares a device that ran dry at once (`Recover`), but asks a suspended one
to resume for as long as it says `EAGAIN`, without a look at `running_`: `Resume` is a step that
may never come.  `snd_pcm_drop()` takes a suspended device to SETUP, in which a resume is refused.

**PlayerMain.** `loop` is the main thread, a step per piece of start-up, of a 10 ms
round and of the shutdown.  `opts` are the options as `getopt` leaves them, with
every early return of their checks.  A line of stdin is a list of tokens, so that a
missing value, one of the wrong type or a rest behind the object take the code's way
through the scanner.  `lib` is the library: a server comes and goes and its listeners
are called in `client.loop()`, `on_audio_write` on the role thread at any time.
`said` is what the last event of each kind told the BEAM.  A `client.start()` that
fails is taken to leave no role thread behind.

**AlsaCaps.** `device` is what the hardware takes and the lines of its ELD, in any
order and with any missing; `Probe` asks as `probe_alsa_caps()` does, and
`menu` is what `started_event.cpp` makes of the answer.

**FilePersistence.** A step is a system call; each may fail (`MaxFaults`), and a kill
or a power cut may come between any two.  A directory entry names an inode; `dirs`
keeps every state of the directory since its last fsync: the last is what is
seen, any of them is what a power cut may leave, with the data of an inode that was not
synced torn.  Around the writes are `main()` and the library's `start()`: load or
mint the keypair, give up if it was not saved, write the pairing token, advertise.

**KeyStore** is the abstract specification: per key a register that is written at
once, and a set of blobs a power cut may leave, which an accepted write makes a
single one.  `FilePersistence!StoreIsAtomic` is `KeyStore!Spec` under the mapping
`now` = what the directory that is seen says, `may` = what any of `dirs` says,
`acked` = itself.  `Rename` is `Replace`, a successful `SyncDir` is `Accept`,
`OpenTemp` is `Begin`, `PowerCut` is `PowerCut`, all else stutters.

**VizGate.** Two threads over `gate`; the library's promise (a frame passes its
stale check no earlier than `Slack` before it is due) is an assumption taken
from the header of `viz_gate.h`.

**ArtworkStore.** A file is its content; `pending`, `shown` and `files` follow
stage, take, clear and prune; writes may fail.  `lost` is a history: the images whose
rewrite over a pending copy failed, the case of ArtLeak.

**PresetSwitch.** The render loop is one thread; a step is a piece of a round.
Commands, GPU hang reports, failing warm-ups and verdicts come between.  What
depends on the clock may happen or not.

**Scanout.** gbm locks, the App's `front_`, `pending_`, `queued_`,
`scanout_left_`, and KMS: the flip in flight and events not yet read.
`LateFlips` says whether a flip may land after `release()` stopped waiting for it.
`drmModeCloseFB()` is taken to succeed: where it fails (`kms.cpp:325`) the buffer keeps its id,
which is removed with the surface, and the picture goes off at the teardown.

**CostLadder.** `guard` is the `CostGuard`, `app` what the App knows of the preset
that plays, `pending` and `queued` the two frames in flight, each with the preset and
the level it was rendered at.  A window ends with any rate the level's interval can
present; `judged` is a history: the minimum rate that a settled level was judged by.

**FramePacer.** The clock ticks between any two steps, vblanks come every `Period`,
the loop and the GPU are as late as they like.  A frame carries the time it was drawn
for and what the prediction took for granted (the flip before it lands where it was
expected, the interval stays); a frame for which that did not hold is not held to it.

**RendererExit.** The main thread's loop, `drain_lines()` and `LineBuffer` over bytes,
the exit reason, the `ExitGuard` thread and stdout under the writer's mutex.  The main
thread may hang for good wherever it calls the display or the GPU, and any writer where
nobody reads stdout.  When the watchdog and the main thread end at
the same moment there may be two `exiting` lines; that is harmless to their reader and
no property forbids it.

**StderrSync.** fd 2 as a pipe of classified lines, the thread that drains it, and
`warm_up()`, which writes a marker before and after and waits for each, both waits
with a time limit.  That a GPU reset in the kernel's log overrides what the driver said
(`main.cpp:425`, reason `gpu_hang`) is left out; such resets are `PresetSwitch`'s.

**CecAdapter.** `kern` is the kernel's adapter with its queues for this file handle,
`helper` the loop of `cec_port`, `to` and `from` its two pipes, frame by frame.  A file that is
opened has one event queued, the state the adapter is in (`test_backend.h:74`).  `ad` is the
GenServer with its transport: the ids of requests, claims, configurations, the polls of the TV
and the receiver, transmits with their deadlines and orphans.  `calls` is what each caller
waits for.  A handler is a chain of functions of `ad`; what it writes to the helper is gathered
in `ad.out` and appended to `to` in the same step.  Callers transmit to the receiver or announce
themselves as active source.  Of what the bus says the messages are received that move the
active source (`Received`, `Follow`): another's `<Active Source>`, which to the follower is the
same as a change of the route, and the TV's `<Set Stream Path>`.  The latter makes the adapter the
active source before its answer is sent, and whatever becomes of that answer.  Left out are One
Touch Play, keys, requests that wait for a reply, the follower's other answers, `<Standby>` (it
only clears the flag), a helper without the follower mode (`EBUSY`, `adapter.ex:661`), a transmit
that the ioctl itself ends (`tx_status`, `adapter.ex:1142`) and `lost_msgs`.

**ZigbeeProxy.** `st` is the struct of the GenServer, `mbox` its mailbox.  A
client blocks in a call, gives it up after 500 ms (`CallTimeout`,
`GiveUpAttach`) while the message stays queued, and may die.  Sticks are pulled,
plugged on another tty, or share a name.  The resolve and open of a tty is one step;
calls that only read, writes to the tty and the variant of a row given by a
bare port path are left out; a stick without serial number is matched by name,
as in the code.

**AudioServer.** One action per handler: `Refresh` is `refresh_outputs/1` with
adds, removals, respawns and the transfer of the display roles.  A player and
its binary are one record that takes commands in order and reports back through
the registry's mailbox.  A player that crashes may leave its binary holding the
port (`held`).  `Restart` and `Restarted` are the two halves of a restart: the
server subscribes before it ends the old players, so their last events reach
it.  Mute and static delay go the same way as the volume and are left out.
Failing saves and start failures other than a missing binary are left out.

**DisplayHandover.** `m` is the part of the display's model that decides who has
the screen, `md` the session of `Display.State` with a renderer, `view` the
viewport process, `r` the renderer with its port owner and its reaper.  A step of
State is one message: the event, the effects it has, and the events those
produce (`Dispatch`).  `c` is what the step meets: whether a start succeeds and
how many earlier failures are still within the window.  A session's messages
come in order from its port owner; the reaper's, the viewport's `:DOWN`, the audio jobs' answers
and timers come in between.  Timers may fire whenever they are armed: a phase
may be slow.  Only the reaping budget is taken at its word, 3 s against the
2 s of grace and the SIGKILL: it runs out only when the reaper could not
confirm that the renderer is gone.  State then takes the display back (`loose`
stays false for such a renderer, and it is no longer followed).  A failed audio
job, keys for the renderer, settings, blanking and the download of the pack are left out.

## 3. What the runs check

TLC explores everything within the bounds; a bound is a constant whose name
starts with `Max`, or the size of a set.

One set of bounds seldom suits a module: what matters to a lap of the ring
(many frames, one writer) is not what matters to a crash.  An MC module
therefore instantiates its module once per *set-up*, with other constants over
the same variables, and a variable `part`, chosen initially and never changed,
says which one a behaviour is of.  A run is the sum of its set-ups, each with
its own interesting cases, and checks every property in all of them unless the
property names the part it is about; the variables of an extended module stand
still while another part runs.

| Run | Set-ups and bounds | Why they are enough |
|---|---|---|
| Tap | `crash`: ring of 2 frames and 2 records, 3 frames, 1 kill, 3 epochs | a kill between any two stores, a reuse and a second writer's lap |
| | `stream`: 4 frames, 2 streams, 2 epochs | two full laps, and a change of format in the middle of a read |
| | `walk`: ring of 4, pauses, windows of 1 and 3 | a window spans chunks, a pause and the end of what is kept |
| Player | `ring`: capacity 5 with frames of 2 bytes, 8 bytes, 2 clears | the wrap splits a frame; the flush finds the ring wrapped |
| | `tap`: the same capacity, 4 bytes, 2 taps over a stream and its clear | the tap is turned on, off and on, before and in the stream |
| | `fault`: the same capacity, 4 bytes, 3 starts, every fault | a start after a stop, after a failed open, after a loss, in a suspend |
| | `main`: 3 command lines, 12 lines of stdin of which 2 are sent, 2 events of the server | options at both ends of their ranges; a command behind a broken one, behind the shutdown, before the end of stdin |
| | `caps`: 2 rates, ELDs of up to 4 lines | two descriptors with a coding type and a field each, in every order |
| | `files`: 3 launches, 2 failing calls, 2 power cuts, 8 inodes | an identity that is loaded while its rename is not on the disk, minted again and written over; no inode runs out |
| Roles | `gate`: 3 streams, 5 ms | a late frame of the first stream meets the boundary of the third |
| | `one`, `two`: 5 images in one slot, 4 in two, failing writes | more images than `Keep` and the slots together need |
| Renderer | `ladder`: 2 presets of two hints, 2 rungs, windows of 2, 2 minimum rates | each change of level or preset with two frames of another in flight; a drop by heat under a settled level |
| | `late`: 4 buffers, late flips | gbm's own number |
| | `exit`: 2 inputs of 6 and 8 bytes, lines of 2, a buffer of 3, 2 reads a drain | lines too long, cut, and behind an `exit`; a drain that stops early |
| | `pacer`: vblanks 3 apart, time 9, full and half rate, a change | a flip that misses its vblank, a change while one is pending |
| | `stderr`: 2 warm-ups, 3 lines, a pipe of 2, 1 finding kept | a line of the first warm-up is read in the second; the pipe and the findings overflow |
| Switch | 4 presets of two kinds, history and batch of 2 | an exclusion can empty a kind, history and warm-ups fill up |
| Zig | `sticks`: 2 sticks, ttys and names, 3 plug events, 2 faults | a swap, a move, a return to another tty |
| | `bytes`, `error`: 2 clients, 3 bytes, a buffer of 2 | it overflows; an error between two bytes |
| | `sessions`: 2 clients, mailbox of 3 | an abandoned attach, a take-over and a `:DOWN` are queued at once |
| | `lines`: 2 faults | an ioctl fails again in its retry |
| | in all of these each stick has a serial number | the match by name is exercised in Ends only |
| Aud | `players`: 2 outputs, 2 ports, a crash, a plug, a user action | a respawn while the other output holds the port |
| | `roles`: 2 HDMI outputs, 2 plug or TV events, a fault | the owner goes, the other takes over, the owner returns |
| | `volumes`: 2 changes of the user, 2 of the Sendspin server, a crash, a restart | echoes of both sides cross |
| Tv | `tvs`: 2 TVs, no input while an audio job waits, 2 failures latch | a rebinding in every phase; a failure that holds, one that latches |
| | `jobs`: 1 TV, inputs while fewer than 3 jobs wait, 1 failure latches | jobs of one session are queued when the next begins |
| | `calls`: a caller, 2 addresses, a change on the bus | a configuration, and another address, under a transmit |
| | `others`: a caller, 2 addresses, a message about the active source, results ok and nack | a route to this adapter while its own announcement is out; another's announcement before or after |
| | `routes`: no caller, 2 addresses, such a message and a change on the bus | a route to the address before; an answer that does not get out |
| | `late`: a caller, a change on the bus, a late result | an orphan's result, of the configuration before |
| | `reclaim`: 2 changes on the bus, a claim lost and made again, a poll on demand | results of the configuration before the last |
| | `crash`: a caller, a change, the helper dies and restarts | requests and transmits out, the kernel's claim kept |
| Ends | the smallest set-up of each part in which it can block; of the buffers gbm's own 4, with every flip in time | see section 4 |

ArtLeak (3 images in a slot), ScanoutStale (4 buffers) and AudStale (set-ups of Aud)
expect a violation, see below.

| Property | Says |
|---|---|
| `OkIsExact`, `OkFormatMatches` | an `Ok` copy is committed samples of one epoch in order, and of the format it names |
| `WindowIsTrue` | it ends at the right frame, its zeros are gaps; `read_latest()` never says `NoData` of data that is there.  Of `read_ending_at()`, which the renderer's `pcm_feed.cpp` uses, only what it says with `Ok` is held to be true |
| `EpochIsOneRun` | an epoch has one stream, one rate and no hole |
| `BytesInOrder` | FIFO and whole periods; nothing of before a flush is played after it |
| `TapIsOwned` | no thread uses a tap it does not own; a tap turned on carries the stream that plays |
| `StopIsClean` | no joinable thread is destroyed, none runs on a closed device |
| `EventsAreTrue` | what the BEAM was told last is so; at the end the shutdown was said, no listener is inside a call, no line is left |
| `MenuIsPlayable` | the formats advertised are the floor and what the device plays, once each |
| `IdentityIsKept` | no key is torn, an accepted write stays; every launch that advertises an identity advertises the one servers know |
| `StoreIsAtomic` | `FilePersistence` implements `KeyStore` |
| `OnScreenIsSafe` | a scanned-out buffer is locked and keeps its framebuffer; what was left to the display is not redrawn.  With every flip in time: late ones are `NoBufferLeaks`' and ScanoutStale's |
| `NoBufferLeaks` | however late flips land, no lock is lost or given up twice, and a take finds a buffer |
| `GateHolds` | no frame after the boundary that ends its stream, none after an ack of off |
| `FilesAreKept` | files of pending, displayed and visible images exist (visible: if there is one slot); others do not, but where a rewrite over a pending copy failed |
| `LadderIsSound` | a window is of one preset at one level; the level is the rendered one and within the floor; what is settled was judged under the minimum rate of now |
| `PredictionHolds` | a frame is shown when its sound was chosen for |
| `BlamedIsGuilty` | a preset is blamed for a failure of the driver if and only if it was the one warmed up |
| `ProcessTalksInLines` | commands run are the lines sent, up to `exit`; stdout ends whole and with `exiting` |
| `HangIsCutAway` | a preset that hung the GPU is not queued; its forced cut is not forgotten |
| `FilterHolds` | an excluded preset is not shown after the filter; a switch away from a bad one is a cut |
| `BytesAreForwarded` | every byte once, in order, lost only by overflow or with the tty |
| `TtyIsKnown` | cached lines are the hardware's; the ASH parser saw every byte since its first |
| `NoGhostSession`, `OwnerKeepsPort` | no session of a client that gave up or died; nobody loses the port to a message of another |
| `PushedIsCurrent`, `StickIsKept` | the identity pushed, and the tty held, are those of the advertised stick |
| `PlayersAreRight` | table equals running players, two never share a port, the display roles are with their owner |
| `VolumesAgree` | cache, store and binary agree once quiet |
| `RequestsAreAnswered` | a CEC request is answered once; who waits, waits for a transmit that is out |
| `BeliefsAreCurrent` | what is believed of TV and receiver was learnt since the last configuration; it takes itself for the active source only while configured, at the address that it announced or was routed to.  That its answer to the TV got out is not promised |
| `ScreenIsHandedOver` | the viewport never runs while a renderer is, or is told to become, DRM master; the renderer is on the bound TV |
| `HandoverAgrees` | between two messages: a yielded screen has a session that returns it, a session not wanted is ending, no renderer without session, the tap follows the session |
| `CallsReturn`, `FramesMove`, `RequestsEnd`, `ComesBack` | liveness, see section 4 |
| `TypesOK`, `CecTypeOK` | the type invariant of each part; in `MCPlayer` and `MCRenderer` it is a conjunct of the property of an instantiated part.  Those of the parts with proofs are theorems |

For each property of a passing run `PROJECT.json` names a mutant: a plausible
bug of the code, defined next to the action it changes, that breaks it.

### Disagreements with the code's own words

* **ArtLeak.** `artwork_store.h:38` promises that a pending image never
  displayed is deleted when replaced.  Staged again over its own pending copy
  after a clear, with a write that fails, its file stays for good.
* **ScanoutStale.** `main.cpp:118` of the renderer says buffers left to the display
  are not redrawn until a new frame replaces them.  When `release()` gives up
  after 200 ms, the old flip's event is taken for the next flip's.
* **AudStale.** `audio/server.ex:1198` says live state does not survive its
  player.  A `connected` still queued when the player is stopped before it had
  an entry in `connection_state` is cached afterwards; a disabled output stays
  "connected".  Events that reach a restarting server before it ends the old
  players do the same.

## 4. Fairness

All liveness is in `MCEnds`.  In a behaviour one part runs, so one fairness
condition over the sum of the parts' steps is that of the part that runs;
`FairSpec` of each module states the same for the module alone.

* Sink: weak fairness of every thread and of the device (threads are scheduled,
  ALSA drains), but none of `Resume`: a suspended device may say `EAGAIN` for ever.  `stop()`
  returns all the same, since it drops the device before it joins the thread (without the drop,
  the mutant `StopDropNot`, it would not); a flush waits while the device is suspended.  Strong fairness only of `TapAwait`: the main thread polls
  `tap_busy_` every millisecond while the playback thread sets it for a
  fraction of each period, so the poll hits a clear flag in the end.
* Preset switch: weak fairness of the loop; nothing of commands or hangs.
* Scanout: weak fairness of the loop and the kernel, strong fairness of
  `Submit`: a submission is enabled again and again between flips and is taken
  at the next round.
* Zigbee: the owner takes its messages, its timer fires, the pusher runs.
* Display hand-over: no session stays in a phase that has a timer, a renderer
  that is being killed ends or is given up, messages to State and audio jobs are
  taken.  It is stated as what does not last (`Waiting`), not as weak
  fairness of the timers' steps: each change of phase cancels the timer and arms another.
  That the viewport starts again, or the renderer behaves, is not assumed.
* Audio: the server takes its messages, binaries start and take commands, the
  debounce timer fires.  That an orphaned binary ends is not assumed.
* Renderer's exit: weak fairness of the watchdog's steps, of its budget, and of
  `main()`'s return once the watchdog is joined.  Nothing is assumed of the main
  thread, which may hang, or of who reads stdout: `RequestsEnd` says that a
  renderer told to exit is gone all the same.

`MCEnds` has no environment fairness: clients, users, cards, sticks and hangs may stop
or go on.  The tap needs no liveness run: a read has a bounded number of steps
and waits for nobody.

## 5. What is proved

Every theorem holds for all values of the constants that meet the named
assumptions; none needs an instance to be finite.

| Theorem | Property | Assumes |
|---|---|---|
| `PcmTapProofs!TypeCorrect` | `TypeOK` | room for a frame and a record; streams positive, lengths and windows natural |
| `PcmTapProofs!ReadsAreExact` | `OkIsExact` | the same |
| `PcmTapProofs!EpochsAreRuns` | `EpochIsOneRun` | the same |
| `PcmTapProofs!RatesMatch` | `OkFormatMatches` | the same |
| `PcmTapProofs!WindowsAreTrue` | `WindowIsTrue` | the same |
| `PcmTapProofs!ReservedRises` | `ReservedNeverFalls` (an action property) | the same |
| `AlsaSinkProofs!BytesStayInOrder` | `BytesInOrder` | the ring holds a frame; sizes positive, lengths natural |
| `AlsaSinkProofs!TapStaysOwned` | `TapIsOwned` | the same |
| `AlsaSinkProofs!StopStaysClean` | `StopIsClean` | the same |
| `AlsaSinkProofs!SinkTypes` | `TypeOK` | the same |
| `PlayerProofs!IdentitySurvives` | `IdentityIsKept` | `None` is no inode and no blob |
| `PlayerProofs!StoreIsImplemented` | `StoreIsAtomic`: `FilesSpec => KeyStore!Spec` | the same |
| `PlayerProofs!EventsStayTrue` | `EventsAreTrue` | a number of JSON is whole, a flag of getopt is one; the round's interval is natural |
| `RolesProofs!GateIsTight` | `GateHolds` (an action property) | the margin is more than the slack |
| `RolesProofs!ArtworkIsKept` | `FilesAreKept` | a file is kept; `None` is no image |
| `RolesProofs!ArtworkTypes` | `ArtTypeOK` | the same |
| `PresetSwitchProofs!HangsAreCutAway` | `HangIsCutAway` | `None` is no preset; a history and a batch hold one at least |
| `PresetSwitchProofs!FilterIsTight` | `FilterHolds` (two action properties) | the same |
| `PresetSwitchProofs!SwitchTypes` | `TypeOK` | the same |
| `RendererProofs!ScreenIsSafe` | `OnScreenIsSafe` | `None` is no buffer; no late flips |
| `RendererProofs!LocksAreRight` | `NoBufferLeaks` | three buffers at least; flips as late as they like |
| `RendererProofs!ScanoutTypes` | `TypeOK` | flips as late as they like |
| `RendererProofs!LadderHolds` | `LadderIsSound` | at least a rung, hints within the ladder, a frame per window, two of settling |
| `RendererProofs!BlameIsRight` | `BlamedIsGuilty` | the pipe holds a line |
| `RendererProofs!StderrTypes` | `StderrTypeOK` | the same |
| `RendererProofs!PredictionIsRight` | `PredictionHolds` | the margin lies within a period |
| `RendererProofs!PacerTypes` | `PacerTypeOK` | the same |
| `TvProofs!ScreenNeverShared` | `ScreenIsHandedOver` | crashes latch after one at least; `Nil` is no TV |
| `TvProofs!ModelFollowsSession` | `HandoverAgrees` | the same |
| `TvProofs!HandoverTypes` | `TypeOK` | the same |
| `TvProofs!RequestsAnswered` | `RequestsAreAnswered` | 0 is no address and no caller; two ids at least, a drain takes one frame at least, orphans kept are a natural number |
| `TvProofs!BeliefsCurrent` | `BeliefsAreCurrent` | the same |
| `TvProofs!CecTypes` | `CecTypeOK` | the same |
| `ZigbeeProofs!NoGhost` | `NoGhostSession` | the buffer holds a byte; `Nil` is none of the values it stands beside |
| `ZigbeeProofs!BytesForwarded` | `BytesAreForwarded` (order, and an action property) | the same |
| `ZigbeeProofs!PortKept` | `OwnerKeepsPort` (an action property) | the same |
| `ZigbeeProofs!TtyKnown` | `TtyIsKnown` | the same |
| `ZigbeeProofs!StickKept` | `StickIsKept` (two action properties) | the same |
| `ZigbeeProofs!PushIsCurrent` | `PushedIsCurrent` | the same |
| `ZigbeeProofs!ZigbeeTypes` | `TypeOK` | the same |

None of the properties is inductive alone; what each needs:

**PcmTap.**  A copy may be torn, so what the reader has is true only
*conditionally*: as long as the reserved counters have not moved past what it
copied.  Counters never fall, so a lost condition stays lost, and
`settled()` checks just that condition after the copy.  `IInv` is `TypeOK` with
`FreshOK` (nothing before the magic number), `CountersOK` (file counters against
the writer's private ones, per program counter), `HistoryOK` (chunks are ordered
and below the counters), `EpochOK`, `RecordsOK` and `SamplesOK` (a slot that is
not overwritten holds its chunk), `HolesOK`, `WalkOK` (the walk back is over
true records, conditionally), `CopyOK` and `OkIsExact`.  There is one
lemma per writer action (`WriterCommit`, `WriterCopyEnd`, `WriterKill` ...) and per
reader action (`ReaderWalk`, `ReaderFill`, `ReaderSettles` ...).

`OkFormatMatches` is the promise of a sequence lock whose writer may be killed while the
sequence is odd.  `SeqOK` says how `seq` stands per program counter, `FormatOK` that
an even `seq` means the epoch and the rate in the file belong together, `LoadedOK` that what the
reader loaded belongs together if `seq` is what it was.  `WindowIsTrue` needs more
than the order of one epoch: `ChunksInOrder` orders the whole history, so a walk that
met another epoch has seen the first chunk of its own.  `PlacedOK` says where the end lies in
time, `GapsOK` that before the first chunk only an underrun was, `RefusedOK` why "no
data" may be said, each as long as the copy is still live.

**AlsaSink.**  `FifoOK`: the ring ends where it is written next, and holds the serial numbers
before `done.put`.  Behind the ring the order is that of `NextOut`, the number that
leaves it next, which never falls: `OrderOK` puts the period below it, and the device
below what the period has left.  `FloorOK` says that a flush that was taken is carried out
before anything else is played.  `HandshakeOK` is the tap's: `tap_busy_` is up around each
use, and the writer in use is the one published, or the one that is being waited for.
`StreamOK`: no tap is in a stream that is still to come.  `ThreadOK`: where
the main thread is says whether there is a playback thread and an open device, and that only a ready
or a suspended device holds frames.  `DoneOK`
bounds the histories.  The ring's arithmetic (a split copy is `% Cap`) rests on lemmas
about remainders (`ModUnique`, `ModAdd` ...), since no prover divides by a constant it
does not know.

**FilePersistence.**  `DiskOK` keeps the inode of the temporary file apart from every
entry that a power cut may bring back, `WriteOK` follows a blob from the temporary
file to its name, `IdentityOK` says where the running identity is known to be on the
disk: not after a keypair was loaded, only after the fsync that ends the token's write.  The
refinement needs the same invariant: a power cut picks one of `dirs` for all keys
and tears what is not synced, and `DiskOK` says that no key's entry names such an inode.

**PlayerMain.**  `LaunchOK` says what each step of the launch has started and said, and with
what code it can end; `StdinOK` that every line written is in the pipe, waits in the round or is
dispatched, and none is in the pipe behind the end of stdin: what is left at the exit follows.
That a volume is between 0 and 100 rests on the clamp of a command and on what `parse_args()`
accepts.

**VizGate.**  The gate compares a frame's due time with the time of the boundary, never
streams.  `BoundaryOK` says why that is enough: a frame of an older stream was checked
before that stream's end, so it is due no later than the slack after the boundary.

**ArtworkStore.**  What `take()` deletes falls off the deque, and the deque holds no image
twice (`ArtTypeOK`): so what falls off is in it no more.  `FrontIsUp`: with one slot the
picture on the screen is the deque's first, which is why `Keep` of one is enough.

**PresetSwitch.**  The properties speak of frames, the code decides by what it believes is on
screen, `showing` and `outgoing`.  Between a candidate's failure after its activation and the cut
that replaces it that is not what projectM draws: `DrawnOK` says that then, and only then, a cut
is forced (`Cutting`), `DeadOK` that without one nothing on screen is dead, and `QueueOK` that no
frame is queued meanwhile.  `SelectOK` says what a selection was begun for, and at which steps
no forced cut can be open.

**Scanout.**  The properties speak of KMS, the code acts on `front_`, `pending_` and
`scanout_left_`.  `FlipsAgree` says how belief and display belong together between flips,
with one in flight, and with an event unread; `HoldersDiffer` that no buffer has two
holders, so that unlocking one unlocks no other.  With late flips `FlipsAgree`
fails, and so does the property: run ScanoutStale.  What survives late flips is
the locking (`LInv`): `OneHolder` says that a buffer is locked exactly for one of its holders,
`FewAreLeft` that a release leaves two buffers at the most, `FewEvents` that a second
event comes only between a submission and the next poll, and `LateStages` when
something is held at all.  Two left and one queued are three: `EnoughBuffers`.

**CostLadder.**  Whether a frame in flight is of the level and preset that
are measured shows only when it flips.  `InFlightOK` says what settling is for: while a
foreign frame is pending one more frame is left out, and two while one is queued behind it.
Hence two frames of settling suffice and one would not (`SettleAssumption`);
the code has more.

**StderrSync.**  `SyncOK` follows the last marker through the pipe: once it is seen the
pipe is empty.  So what is counted since the first sync of a warm-up was said in it, and with
the last sync all of it is counted (`CountsOK`), as far as the syncs completed; `StepOK`
numbers the markers, `OffOK` is for a stderr that is not captured.

**FramePacer.**  A frame's target is the slot counted from the last flip (`FramesOK`).  A
flip that is pending was submitted late enough for its slot and has not missed a vblank it
could have been latched at (`PendingOK`), and vblanks lie on the grid (`GridOK`); two
multiples of the period that are more than k - 1 periods apart are k apart, which is
where the flip lands.

**DisplayHandover.**  A message is handled by a chain of helpers over a record of the
variables.  `Base` is what holds between any two of them, with a viewport that is being started or a
reclaim that is not yet made; `Settled` is what a handler leaves, and each helper has a lemma
that says so.  The parts: `RendererOK` (process, port owner and reaper; the renderer is told to
take the display by its first command or never), `HeardOK` (what State was told is so, or
about to be), `SessionOK` and `CmdsOK` (phase, flags and commands belong together),
`ScreenOK` (who has the screen), `TvOK` and `JobsOK` (the last audio job or the tap is what the
session wants).  While State is down `Orphaned` says what its viewport and its renderer may
still do.

**CecAdapter.**  A handler is a chain of functions of the state; `Sound` is what each of them
keeps, relative to the requests the helper has, the callers that wait and the sequence numbers
the kernel has done with.  Its parts: `ReqsOK` (no two requests share an id; what is written are
the requests the helper has not), `WaitersOK` and `FlightOK` (who waits, and the poll that is
counted as out, has a transmit out or is answered), `OrphansOK` (an orphan is a result the
kernel has done with, so nobody waits for it).  `ExchangeOK` follows each id through the pipes:
there or back, once, and no other.  `KernelOK` numbers transmits: those out have a number of
their own, and what is delivered has one that is out no more.  `LifeOK` is needed
since the adapter stops when the device refuses the follower mode, while its helper goes on:
such a refusal comes only from a device that is gone, and after the helper's last frame nothing
follows, so an adapter that restarts finds no answer to its predecessor in its
pipe.  `CecInv` joins the parts.  The proof has a lemma per helper function (`TxReplyIs`,
`TransitionIs`, `AsksIs` ...), per handler and per action.

`BelInv`, beside `CecInv`, carries `BeliefsAreCurrent`.  The reply of a `set_claim` request
overwrites `log_addr_mask` without the comparison of old and new that `transition` makes, so a
re-claim that finds the adapter configured would leave beliefs of an earlier configuration.
That it never does, however many re-claims are under way, is a fact about both pipes.  Seen as
a loop (requests on their way, then replies that lead to further requests), they hold no `set`
before a `clear` while the kernel is not configured and no `clear` before a `set` while it is
(`PhaseOK`): a `set` or a `clear` that succeeds turns the kernel, and the rest of the loop, the
other way round (`FlipPhase`).  So the kernel tells of the cleared address before the `set` that
follows is read (`MaskOK`), and the reply to it finds the adapter's mask `FALSE` (`SetsSafe`).
The other parts: `Believes` (what is believed is of the present era, and the adapter is active
at the present address: by an announcement of it, or by a route to it), `TxsOK`
(so is a transmit of the present generation, whose result would be believed), `ClaimOK` and
`FirstOK` (one first claim at a time, none beside a re-claim), `Matched` and `IdsOK` (a reply is
to the request its id names).

**ZigbeeProxy.**  What the owner may rely on lies in its mailbox, so the invariant is about what
lies there.  `CallsOK`: a caller that waits has one message there.  `AttachesOK`: an attach nobody waits
for is followed by its detach, or its client is dead; hence `SessionsOK`: a session no
living client has is in a message that ends it, and with the mailbox empty there is none.
`DownsOK`: a `:DOWN` there is of a session, of a dead client, the only one, which
is what makes a take-over and a flush safe.  `RxOK`: the bytes there are those of the open tty that
were sent and not handled, in order; bytes of a lost tty lie before the reopen (`RescanOK`), so none is
taken for one of the next.  `BytesOK` puts those forwarded below those buffered, below the next.
Every handler takes the head and may take a `:DOWN` out of the middle:
`Took` is the map of places from the new mailbox to the old that all these parts are carried along,
so that each is shown once for all of the plain handlers (`PlainMail`).

Only model-checked, so far:

* `ProcessTalksInLines` (`RendererExit`), `PlayersAreRight` and `VolumesAgree`
  (`AudioServer`): their steps sort, filter and fold sequences of lines and of outputs;
  what those compute for every input needs an induction over data.
* `MenuIsPlayable` (`AlsaCaps`): a sorted and filtered menu is data, built with folds over
  sequences; what those compute for every input needs an induction.
* `OnScreenIsSafe` with late flips: it is false, run ScanoutStale shows it.

All liveness stays with TLC (liveness under fairness and ENABLED are beyond
the prover used).

## 6. Hazards

`PROJECT.json` lists the hazards of the modelled parts at their lines, with the
properties that would catch them; each has one, or a note on what the property
leaves out.  Left out of the list, since the models have no step for them:

* `configure()` of the sink resets the format outside the mutex.
* the loudness zeroed at a stream end can be overtaken by a late `on_loudness()`.
* a Zigbee stick swapped between listing and open: inside one handler.
* a player start that fails for an unusual reason, or a row that could not be
  saved, is tried again only at the next enumeration.

## 7. Not modelled, and what is next

Left out for good:

* Drawing (`gl_output`, `visualizer`), parsing of options, manifests and JSON,
  `sha256`, `output_select`, the views and pages: data without steps in between.
* The host tools of the preset pack: they run alone, one preset after the other.
* `c_src/linux/cec.h`: the kernel's header, external; `CecAdapter` models the ioctls used.
* Cryptography and wire formats (`sendspin/`): nothing a model checker tells apart.
* Weak memory, and the replacement of the tap's file (a new inode).
* The composition of the renderer's modules: `main.cpp` is seen from six of them, each
  with its own part of the loop; together they are out of TLC's reach.

Next, as far as they would add something:

1. Audio player (`AudioPlayer`): tap lease, mDNS registration and retry, display
   snapshot, composed with `AudioServer`'s player records; an abstract
   "tap is on only while leased" as the specification it implements.
2. `Storage`, `UartServer` with `SerialRelay`: owners that die, media that vanish.
3. `ZWaveProxy` and `TuyaBeacon`: frames split over reads; numbers reserved
   across restarts.
4. `InFlightRecord`: the record of the preset in flight that `Display.MilkDrop`
   keeps in `MilkDrop.Store` (`milk_drop.ex:530`), so that a preset that hangs the GPU is
   skipped after a power cut; `MilkDropStore` (crash between install steps).
5. One Touch Play, keys and requests with a reply in `CecAdapter`, then `VolumeLink`;
   `BluetoothManager`, `FirmwareUpdate`, `WifiPolicy`, the dongle workers.
6. Abstractions: a mailbox of bytes implemented by `AlsaSink`'s ring; an
   exclusive port implemented by `ZigbeeProxy`.
7. Proofs: the facts about data of section 5, with a prover that does induction.
