--------------------------- MODULE FilePersistence --------------------------
(***************************************************************************)
(* The player's state directory (file_persistence.cpp, and what main() and *)
(* the library do with it at a start): a launch loads its keypair or mints *)
(* one, rewrites the pairing token, then advertises the client_id that     *)
(* belongs to the keypair.                                                 *)
(*                                                                         *)
(* A directory entry names an inode.  What was done to the directory since *)
(* its last fsync is kept in dirs, oldest first: a power cut falls back to *)
(* any of them, and tears an inode whose data was not synced.  A kill      *)
(* leaves the directory as it is seen.  A call that fails is one of        *)
(* MaxFaults; everything else is bounded by the launches.                  *)
(*                                                                         *)
(* Keys that are not valid and the output delay, which is never stored,    *)
(* touch no file and are left out; the library treats a torn blob, of a    *)
(* wrong length, as absent.                                                *)
(***************************************************************************)
EXTENDS Naturals, Sequences

CONSTANTS
  Inodes, None,
  MaxLaunches,  \* bound: launches of the player; identities minted
  MaxFaults,    \* bound: failing system calls
  MaxCuts       \* bound: power cuts

DiskAssumption == MaxLaunches \in Nat /\ None \notin Inodes \union 1 .. MaxLaunches

Keys == {"keypair", "token"}
Temp == [keypair |-> ".keypair.tmp", token |-> ".token.tmp"]
Torn == 0

VARIABLES
  dirs,     \* the directory since its last fsync; the last one is what is seen
  inode,    \* an inode's blob and whether its data is on the disk
  p,        \* the process: its step, what it writes, its flags
  launches, faults, cuts,
  acked,    \* the last accepted write of a key, None while a later one is open
  adv,      \* the client_id that the running player advertises
  known     \* the client_ids that servers know

filesVars == <<dirs, inode, p, launches, faults, cuts, acked, adv, known>>
rest == <<launches, cuts, adv, known>>

dir == dirs[Len(dirs)]
Empty == [f \in Keys \union {Temp[k] : k \in Keys} |-> None]
Off == [pc |-> "off", key |-> None, blob |-> None, id |-> None,
        loadFailed |-> FALSE, saveFailed |-> FALSE, tokenOk |-> FALSE]

FilesInit ==
  /\ dirs = <<Empty>> /\ inode = [i \in Inodes |-> [blob |-> Torn, synced |-> FALSE]]
  /\ p = Off /\ launches = 0 /\ faults = 0 /\ cuts = 0
  /\ acked = [k \in Keys |-> None] /\ adv = None /\ known = {}

-----------------------------------------------------------------------------
Moves(d) == dirs' = IF d = dir THEN dirs ELSE Append(dirs, d)
Quiet == UNCHANGED <<dirs, inode, faults>>
Fault == faults < MaxFaults /\ faults' = faults + 1

Proceed(pc) == p' = [p EXCEPT !.pc = pc]

\* init(): the directory is made and opened, or the launch ends.
Launch ==
  /\ p.pc = "off" /\ launches < MaxLaunches
  /\ launches' = launches + 1
  /\ \/ Quiet /\ p' = [Off EXCEPT !.pc = "load"]
     \/ Fault /\ UNCHANGED <<dirs, inode, p>>
  /\ UNCHANGED <<cuts, acked, adv, known>>

\* A write of blob under key, from save_blob() or write_file().
Opening(q, key, blob) == [q EXCEPT !.pc = "open", !.key = key, !.blob = blob]

\* save_blob() of the keypair: one that could not be read is not replaced.
SaveKeypair(q) ==
  IF q.loadFailed THEN [q EXCEPT !.pc = "started", !.saveFailed = TRUE]
  ELSE Opening(q, "keypair", launches)

Mints(q) == SaveKeypair([q EXCEPT !.id = launches])
Seen(key) == IF dir[key] = None THEN Torn ELSE inode[dir[key]].blob
Loads(q) == [q EXCEPT !.id = Seen("keypair"), !.pc = "started"]

\* load_blob() by the library's start(), which mints a keypair without one.
LoadKeypair ==
  /\ p.pc = "load"
  /\ \/ Seen("keypair") # Torn /\ Quiet /\ p' = Loads(p)
     \/ Seen("keypair") = Torn /\ Quiet /\ p' = Mints(p)
     \/ dir["keypair"] # None /\ Fault /\ p' = Mints([p EXCEPT !.loadFailed = TRUE]) /\ UNCHANGED <<dirs, inode>>
  /\ UNCHANGED <<rest, acked>>

-----------------------------------------------------------------------------
\* write_blob(), a system call a step.  Its result goes to save_blob() or main().
Return(q, ok) ==
  IF q.key = "keypair" THEN [q EXCEPT !.pc = "started", !.saveFailed = ~ok]
  ELSE [q EXCEPT !.pc = "bind", !.tokenOk = ok]

Held == {dirs[n][f] : n \in DOMAIN dirs, f \in DOMAIN Empty}
TempInodes == IF dir[Temp[p.key]] # None THEN {dir[Temp[p.key]]} ELSE Inodes \ Held

\* O_CREAT | O_TRUNC: a leftover temporary file is used again.
OpenTemp ==
  /\ p.pc = "open"
  /\ acked' = [acked EXCEPT ![p.key] = None]
  /\ \/ /\ TempInodes # {}
        /\ LET i == CHOOSE i \in TempInodes : TRUE IN
             /\ inode' = [inode EXCEPT ![i] = [blob |-> Torn, synced |-> FALSE]]
             /\ Moves([dir EXCEPT ![Temp[p.key]] = i])
        /\ Proceed("write") /\ UNCHANGED faults
     \/ Fault /\ p' = Return(p, FALSE) /\ UNCHANGED <<dirs, inode>>
  /\ UNCHANGED rest

\* write_all(): all of it, or a part and an error.
WriteTemp ==
  /\ p.pc = "write"
  /\ \/ inode' = [inode EXCEPT ![dir[Temp[p.key]]].blob = p.blob] /\ Proceed("sync") /\ UNCHANGED faults
     \/ Fault /\ Proceed("unlink") /\ UNCHANGED inode
  /\ UNCHANGED <<rest, dirs, acked>>

\* mutant of SyncTemp: the data is left to the page cache
SyncLater ==
  /\ p.pc = "sync" /\ Proceed("rename")
  /\ UNCHANGED <<rest, dirs, inode, faults, acked>>

\* fsync() and close().
SyncTemp ==
  /\ p.pc = "sync"
  /\ \/ inode' = [inode EXCEPT ![dir[Temp[p.key]]].synced = TRUE] /\ Proceed("rename") /\ UNCHANGED faults
     \/ Fault /\ Proceed("unlink") /\ UNCHANGED inode
  /\ UNCHANGED <<rest, dirs, acked>>

Rename ==
  /\ p.pc = "rename"
  /\ \/ /\ Moves([dir EXCEPT ![p.key] = dir[Temp[p.key]], ![Temp[p.key]] = None])
        /\ Proceed("syncdir") /\ UNCHANGED <<inode, faults>>
     \/ Fault /\ Proceed("unlink") /\ UNCHANGED <<dirs, inode>>
  /\ UNCHANGED <<rest, acked>>

\* mutant of Unlink: the file of the key is taken away
UnlinkPath ==
  /\ p.pc = "unlink"
  /\ Moves([dir EXCEPT ![p.key] = None])
  /\ p' = Return(p, FALSE)
  /\ UNCHANGED <<rest, inode, faults, acked>>

Unlink ==
  /\ p.pc = "unlink"
  /\ Moves([dir EXCEPT ![Temp[p.key]] = None])
  /\ p' = Return(p, FALSE)
  /\ UNCHANGED <<rest, inode, faults, acked>>

SyncDir ==
  /\ p.pc = "syncdir"
  /\ \/ dirs' = <<dir>> /\ p' = Return(p, TRUE) /\ acked' = [acked EXCEPT ![p.key] = p.blob] /\ UNCHANGED faults
     \/ Fault /\ p' = Return(p, FALSE) /\ UNCHANGED <<dirs, acked>>
  /\ UNCHANGED <<rest, inode>>

-----------------------------------------------------------------------------
\* main() after start(): an identity that was not kept ends the launch, else
\* the token is written (when the library has one), whatever comes of it.
Started ==
  /\ p.pc = "started"
  /\ IF p.saveFailed THEN p' = Off
     ELSE p' = Opening(p, "token", p.id) \/ Proceed("bind")
  /\ Quiet /\ UNCHANGED <<rest, acked>>

\* `listening`: the BEAM side advertises the client_id.
Listen ==
  /\ p.pc = "bind" /\ Proceed("run")
  /\ adv' = p.id /\ known' = known \union {i \in {p.id} : p.tokenOk}
  /\ Quiet /\ UNCHANGED <<launches, cuts, acked>>

\* The process is killed, or ends on its own.
Kill ==
  /\ p.pc # "off" /\ p' = Off /\ adv' = None
  /\ Quiet /\ UNCHANGED <<launches, cuts, acked, known>>

\* Any prefix of the directory's changes survives, data that was not synced
\* may be torn.
PowerCut ==
  /\ cuts < MaxCuts /\ cuts' = cuts + 1
  /\ \E n \in DOMAIN dirs : dirs' = <<dirs[n]>>
  /\ \E torn \in SUBSET {i \in Held \ {None} : ~inode[i].synced} :
       inode' = [i \in Inodes |-> [blob |-> IF i \in torn THEN Torn ELSE inode[i].blob, synced |-> TRUE]]
  /\ p' = Off /\ adv' = None
  /\ UNCHANGED <<launches, faults, acked, known>>

FilesNext ==
  \/ Launch \/ LoadKeypair \/ OpenTemp \/ WriteTemp \/ SyncTemp \/ Rename \/ Unlink
  \/ SyncDir \/ Started \/ Listen \/ Kill \/ PowerCut

FilesSpec == FilesInit /\ [][FilesNext]_filesVars

-----------------------------------------------------------------------------
\* What a power cut at this moment may leave under key.
Survives(key) == {inode[dirs[n][key]] : n \in {m \in DOMAIN dirs : dirs[m][key] # None}}

\* A power cut leaves the old blob or the new one, never a torn one
\* (file_persistence.h:23), and of a key whose last write was accepted
\* always that one (file_persistence.cpp:193).
SavedSurvives ==
  \A key \in Keys :
    /\ \A s \in Survives(key) : s.synced /\ s.blob # Torn
    /\ acked[key] # None =>
         /\ \A n \in DOMAIN dirs : dirs[n][key] # None
         /\ \A s \in Survives(key) : s.blob = acked[key]

\* The client_id that servers know is that of every later launch that
\* advertises one, through failed calls, unreadable files, kills and power
\* cuts.  It counts as known once a launch that advertises it has written
\* its token, because a keypair that was loaded, not saved, may owe its
\* place in the directory to a rename whose fsync never came: then the
\* token's fsync of the directory is what makes it last.
OneIdentity == adv # None => known \subseteq {adv}

\* Neither what was saved nor the identity is lost.
IdentityIsKept == SavedSurvives /\ OneIdentity

\* What an entry of the directory e says of key.
Read(e, key) == IF e[key] = None THEN None ELSE inode[e[key]].blob

Store == INSTANCE KeyStore WITH
  Blobs <- 1 .. MaxLaunches,
  now <- [k \in Keys |-> Read(dir, k)],
  may <- [k \in Keys |-> {Read(dirs[n], k) : n \in DOMAIN dirs}]

\* The system calls of a write, the failures, kills and power cuts between
\* them, and what they leave behind look like a store whose writes take
\* effect at once and which keeps an accepted one (file_persistence.h:23,
\* file_persistence.cpp:166).
StoreIsAtomic == Store!Spec
=============================================================================
