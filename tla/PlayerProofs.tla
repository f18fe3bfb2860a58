---------------------------- MODULE PlayerProofs ----------------------------
(***************************************************************************)
(* The player's own state over time: its identity and what was saved       *)
(* survive, for any number of launches, failing calls, kills and power     *)
(* cuts; and its events say what is so, for any lines on its stdin.        *)
(*                                                                         *)
(* FilePersistence: of the sequence of directories only its set (Past) and *)
(* its last member (dir) matter.  The properties are not inductive: DiskOK *)
(* keeps the temporary file apart from every entry that a power cut may    *)
(* bring back, WriteOK follows a blob from the temporary file to its name, *)
(* IdentityOK says where the running identity is known to be on the disk.  *)
(*                                                                         *)
(* PlayerMain, further down: LaunchOK says what each step of the launch    *)
(* has started and said, StdinOK where every line of stdin is.             *)
(***************************************************************************)
EXTENDS FilePersistence, PlayerMain, TLAPS

Temps == {Temp[k] : k \in Keys}
Names == Keys \union Temps
Dirs == [Names -> Inodes \union {None}]
Past == {dirs[n] : n \in 1 .. Len(dirs)}
Blobs == 1 .. MaxLaunches
Contents == [blob : Blobs \union {Torn}, synced : BOOLEAN]
Writing == {"open", "write", "sync", "rename", "unlink", "syncdir"}
Stages == {"off", "load", "started", "bind", "run"} \union Writing
Processes ==
  [pc : Stages, key : Keys \union {None}, blob : Nat \union {None}, id : Nat \union {None},
   loadFailed : BOOLEAN, saveFailed : BOOLEAN, tokenOk : BOOLEAN]

TypesOK ==
  /\ dirs \in Seq(Dirs) /\ dirs # << >>
  /\ inode \in [Inodes -> Contents]
  /\ acked \in [Keys -> Nat \union {None}]
  /\ launches \in Blobs \union {Torn}
  /\ p \in Processes

\* In the directory e the key is absent or whole; it has that blob.
Whole(e, key) == e[key] # None => inode[e[key]].synced = TRUE /\ inode[e[key]].blob # Torn
Holds(e, key, blob) == e[key] # None /\ inode[e[key]].blob = blob

\* No two names of a directory share an inode.
Distinct(e) == \A f, g \in Names : f # g /\ e[f] # None => e[f] # e[g]

DiskOK ==
  /\ \A e \in Past, key \in Keys : Whole(e, key)
  /\ \A e \in Past : Distinct(e)
  /\ \A t \in Temps : dir[t] # None => \A e \in Past, key \in Keys : e[key] # dir[t]
  /\ \A key \in Keys : acked[key] # None => \A e \in Past : Holds(e, key, acked[key])

WriteOK ==
  /\ p.pc \in Writing =>
       /\ p.key \in Keys /\ p.blob = p.id /\ p.id \in Blobs
       /\ p.pc # "open" => acked[p.key] = None
  /\ p.pc \in {"write", "sync", "rename", "unlink"} => dir[Temp[p.key]] # None
  /\ p.pc \in {"sync", "rename"} => inode[dir[Temp[p.key]]].blob = p.blob
  /\ p.pc = "rename" => inode[dir[Temp[p.key]]].synced = TRUE
  /\ p.pc = "syncdir" => Holds(dir, p.key, p.blob)

\* The identity of the process has its place in the directory that is seen.
Placed ==
  \/ p.pc \in Writing /\ p.key = "token"
  \/ p.pc = "started" /\ p.saveFailed = FALSE
  \/ p.pc \in {"bind", "run"}

IdentityOK ==
  /\ \A i \in known : \A e \in Past : Holds(e, "keypair", i)
  /\ p.pc \in Writing /\ p.key = "keypair" => known = {}
  /\ Placed => p.id \in Blobs /\ Holds(dir, "keypair", p.id)
  /\ p.tokenOk = TRUE => p.pc \in {"bind", "run"}
  /\ p.pc = "bind" /\ p.tokenOk = TRUE => \A e \in Past : Holds(e, "keypair", p.id)
  /\ adv # None => p.pc = "run" /\ adv = p.id
  /\ p.pc = "load" => launches \in Blobs /\ p.saveFailed = FALSE

IInv == TypesOK /\ DiskOK /\ WriteOK /\ IdentityOK

-----------------------------------------------------------------------------
(* Names and directories.                                                  *)

LEMMA NamesDiffer ==
  /\ Names = {"keypair", "token", ".keypair.tmp", ".token.tmp"} /\ Names = DOMAIN Empty
  /\ Temps = {".keypair.tmp", ".token.tmp"} /\ Keys = {"keypair", "token"}
  /\ Temp["keypair"] = ".keypair.tmp" /\ Temp["token"] = ".token.tmp"
  /\ \A k \in Keys : Temp[k] \in Names /\ Temp[k] \in Temps /\ Temp[k] \notin Keys /\ k \in Names
BY DEF Names, Keys, Temps, Temp, Empty

LEMMA BlobsAre ==
  ASSUME DiskAssumption
  PROVE  /\ Blobs \subseteq Nat /\ None \notin Blobs /\ Torn \in Nat /\ Torn \notin Blobs
         /\ \A n \in Blobs \union {Torn} : n < MaxLaunches => n + 1 \in Blobs
BY DEF DiskAssumption, Blobs, Torn

LEMMA DirIsPast ==
  ASSUME TypesOK
  PROVE  dir \in Past /\ dir \in Dirs /\ Past \subseteq Dirs
BY DEF TypesOK, Past, dir

\* A change of the directory joins what may come back.
LEMMA MovesWell ==
  ASSUME TypesOK, NEW d \in Dirs, Moves(d)
  PROVE  dirs' \in Seq(Dirs) /\ dirs' # << >> /\ dir' = d /\ Past' = Past \union {d}
<1>1. CASE d = dir
  <2>1. dirs' = dirs
    BY <1>1 DEF Moves
  <2>. QED BY <2>1, <1>1, DirIsPast DEF TypesOK, Past, dir
<1>2. CASE d # dir
  <2>1. dirs' = Append(dirs, d)
    BY <1>2 DEF Moves
  <2>2. /\ dirs' \in Seq(Dirs) /\ Len(dirs') = Len(dirs) + 1 /\ dirs' # << >> /\ Len(dirs) \in Nat
        /\ dirs'[Len(dirs')] = d /\ \A n \in 1 .. Len(dirs) : dirs'[n] = dirs[n]
    BY <2>1 DEF TypesOK
  <2>3. dir' = d
    BY <2>2 DEF dir
  <2>4. Past' \subseteq Past \union {d}
    BY <2>2 DEF Past
  <2>5. Past \union {d} \subseteq Past'
    <3>1. ASSUME NEW n \in 1 .. Len(dirs) PROVE dirs[n] \in Past'
      <4>1. n \in 1 .. Len(dirs') /\ dirs'[n] = dirs[n]
        BY <2>2
      <4>. QED BY <4>1 DEF Past
    <3>2. d \in Past'
      <4>1. Len(dirs') \in 1 .. Len(dirs')
        BY <2>2
      <4>. QED BY <4>1, <2>2 DEF Past
    <3>. QED BY <3>1, <3>2 DEF Past
  <2>. QED BY <2>2, <2>3, <2>4, <2>5
<1>. QED BY <1>1, <1>2

LEMMA DirsKept ==
  ASSUME TypesOK, dirs' = dirs PROVE dir' = dir /\ Past' = Past
BY DEF Past, dir

LEMMA DirsCut ==
  ASSUME TypesOK, NEW e \in Past, dirs' = <<e>>
  PROVE  dirs' \in Seq(Dirs) /\ dirs' # << >> /\ dir' = e /\ Past' = {e}
<1>1. e \in Dirs
  BY DirIsPast
<1>2. dirs' \in Seq(Dirs) /\ Len(dirs') = 1 /\ dirs'[1] = e /\ dirs' # << >>
  BY <1>1
<1>. QED BY <1>2 DEF Past, dir

\* A step that disturbs no key: it writes only inodes that no key leads to,
\* and the directory changes in its temporary names only.
Undisturbed(d) ==
  /\ \A e \in Past, key \in Keys : e[key] # None => inode'[e[key]] = inode[e[key]]
  /\ d \in Dirs /\ \A key \in Keys : d[key] = dir[key]
  /\ Past' = Past \union {d} /\ dir' = d

LEMMA UndisturbedHolds ==
  ASSUME TypesOK, NEW d, Undisturbed(d), NEW key \in Keys, NEW blob
  PROVE  /\ (\A e \in Past : Holds(e, key, blob)) => (\A e \in Past : Holds(e, key, blob))'
         /\ Holds(dir, key, blob) => Holds(dir, key, blob)'
<1>1. dir \in Past
  BY DirIsPast
<1>2. \A e \in Past : Holds(e, key, blob) => e[key] # None /\ inode'[e[key]].blob = blob
  BY DEF Undisturbed, Holds
<1>3. Holds(dir, key, blob) => d[key] # None /\ inode'[d[key]].blob = blob
  BY <1>1, <1>2 DEF Undisturbed
<1>. QED BY <1>1, <1>2, <1>3 DEF Undisturbed, Holds

LEMMA UndisturbedDisk ==
  ASSUME TypesOK, DiskOK, NEW d, Undisturbed(d), Distinct(d),
         \A t \in Temps : d[t] # None => \A e \in Past, key \in Keys : e[key] # d[t],
         \A key \in Keys : acked'[key] \in {acked[key], None}
  PROVE  DiskOK'
<1>1. dir \in Past
  BY DirIsPast
<1>2. (\A e \in Past, key \in Keys : Whole(e, key))'
  <2>1. ASSUME NEW e \in Past, NEW key \in Keys
        PROVE  e[key] # None => inode'[e[key]].synced = TRUE /\ inode'[e[key]].blob # Torn
    <3>1. Whole(e, key)
      BY DEF DiskOK
    <3>. QED BY <3>1 DEF Undisturbed, Whole
  <2>2. ASSUME NEW key \in Keys
        PROVE  d[key] # None => inode'[d[key]].synced = TRUE /\ inode'[d[key]].blob # Torn
    <3>1. dir[key] # None => inode'[dir[key]].synced = TRUE /\ inode'[dir[key]].blob # Torn
      BY <1>1, <2>1
    <3>2. d[key] = dir[key]
      BY DEF Undisturbed
    <3>. QED BY <3>1, <3>2
  <2>. QED BY <2>1, <2>2 DEF Undisturbed, Whole
<1>3. (\A e \in Past : Distinct(e))'
  BY DEF Undisturbed, DiskOK, Distinct
<1>4. (\A t \in Temps : dir[t] # None => \A e \in Past, key \in Keys : e[key] # dir[t])'
  <2>1. ASSUME NEW t \in Temps, d[t] # None, NEW key \in Keys PROVE d[key] # d[t]
    <3>1. dir[key] # d[t]
      BY <1>1, <2>1
    <3>. QED BY <3>1 DEF Undisturbed
  <2>. QED BY <2>1 DEF Undisturbed
<1>5. (\A key \in Keys : acked[key] # None => \A e \in Past : Holds(e, key, acked[key]))'
  <2>1. ASSUME NEW key \in Keys, acked'[key] # None
        PROVE  (\A e \in Past : Holds(e, key, acked[key]))'
    <3>1. acked'[key] = acked[key] /\ \A e \in Past : Holds(e, key, acked[key])
      BY <2>1 DEF DiskOK
    <3>2. PICK blob : blob = acked[key]
      OBVIOUS
    <3>3. (\A e \in Past : Holds(e, key, blob))'
      BY <3>1, <3>2, UndisturbedHolds
    <3>. QED BY <3>1, <3>2, <3>3
  <2>. QED BY <2>1
<1>. QED BY <1>2, <1>3, <1>4, <1>5 DEF DiskOK

\* Nothing but the process moves.
LEMMA QuietDisk ==
  ASSUME TypesOK, DiskOK, dirs' = dirs, inode' = inode,
         \A key \in Keys : acked'[key] \in {acked[key], None}
  PROVE  DiskOK' /\ Undisturbed(dir)
<1>1. dir \in Past /\ dir \in Dirs /\ dir' = dir /\ Past' = Past
  BY DirIsPast, DirsKept
<1>2. Undisturbed(dir)
  BY <1>1 DEF Undisturbed
<1>3. Distinct(dir)
  BY <1>1 DEF DiskOK
<1>4. \A t \in Temps : dir[t] # None => \A e \in Past, key \in Keys : e[key] # dir[t]
  BY DEF DiskOK
<1>5. DiskOK'
  BY <1>2, <1>3, <1>4, UndisturbedDisk
<1>. QED BY <1>2, <1>5

\* The temporary file of the write is written or synced.
LEMMA TempTouched ==
  ASSUME DiskAssumption, TypesOK, DiskOK, NEW t \in Temps, dir[t] # None, NEW to \in Contents,
         dirs' = dirs, inode' = [inode EXCEPT ![dir[t]] = to], acked' = acked
  PROVE  DiskOK' /\ Undisturbed(dir) /\ inode' \in [Inodes -> Contents]
         /\ dir' = dir /\ inode'[dir[t]] = to
<1>1. dir \in Past /\ dir \in Dirs /\ dir' = dir /\ Past' = Past /\ Past \subseteq Dirs
  BY DirIsPast, DirsKept
<1>2. dir[t] \in Inodes
  BY <1>1, NamesDiffer DEF Dirs
<1>3. inode' \in [Inodes -> Contents] /\ inode'[dir[t]] = to
      /\ \A i \in Inodes \ {dir[t]} : inode'[i] = inode[i]
  BY <1>2 DEF TypesOK
<1>4. ASSUME NEW e \in Past, NEW key \in Keys, e[key] # None
      PROVE  inode'[e[key]] = inode[e[key]]
  <2>1. e[key] # dir[t]
    BY DEF DiskOK
  <2>2. e[key] \in Inodes
    BY <1>1, <1>4, NamesDiffer DEF Dirs
  <2>. QED BY <1>3, <2>1, <2>2
<1>5. Undisturbed(dir)
  BY <1>1, <1>4 DEF Undisturbed
<1>6. Distinct(dir)
  BY <1>1 DEF DiskOK
<1>7. \A u \in Temps : dir[u] # None => \A e \in Past, key \in Keys : e[key] # dir[u]
  BY DEF DiskOK
<1>8. DiskOK'
  BY <1>5, <1>6, <1>7, UndisturbedDisk
<1>. QED BY <1>1, <1>3, <1>5, <1>8

\* What does not disturb the keys leaves the identity where it is.
LEMMA IdentityKept ==
  ASSUME TypesOK, NEW d, Undisturbed(d), IdentityOK, known' = known, adv' = None,
         p'.tokenOk = FALSE, Placed' => Placed /\ p'.id = p.id,
         p'.pc \in Writing /\ p'.key = "keypair" => known = {},
         p'.pc = "load" => launches' \in Blobs /\ p'.saveFailed = FALSE
  PROVE  IdentityOK'
<1>1. (\A i \in known : \A e \in Past : Holds(e, "keypair", i))'
  <2>1. ASSUME NEW i \in known PROVE (\A e \in Past : Holds(e, "keypair", i))'
    BY NamesDiffer, UndisturbedHolds DEF IdentityOK
  <2>. QED BY <2>1
<1>2. ASSUME Placed' PROVE (p.id \in Blobs /\ Holds(dir, "keypair", p.id))'
  <2>1. PICK id : id = p.id
    OBVIOUS
  <2>2. id \in Blobs /\ Holds(dir, "keypair", id) /\ p'.id = id
    BY <1>2, <2>1 DEF IdentityOK
  <2>3. Holds(dir, "keypair", id)'
    BY <2>2, NamesDiffer, UndisturbedHolds
  <2>. QED BY <2>2, <2>3
<1>. QED BY <1>1, <1>2 DEF IdentityOK

-----------------------------------------------------------------------------
(* The steps.                                                              *)

LEMMA FilesBegin ==
  ASSUME DiskAssumption, FilesInit PROVE IInv
<1>1. PICK e : e = Empty
  OBVIOUS
<1>2. e \in Dirs /\ \A f \in Names : e[f] = None
  BY <1>1, NamesDiffer DEF Empty, Dirs
<1>3. dirs = <<e>>
  BY <1>1 DEF FilesInit
<1>4. dirs \in Seq(Dirs) /\ dirs # << >> /\ Past = {e} /\ dir = e
  BY <1>2, <1>3 DEF Past, dir
<1>5. p.pc = "off" /\ p.tokenOk = FALSE
      /\ p \in Processes
  <2>1. p = [pc |-> "off", key |-> None, blob |-> None, id |-> None,
             loadFailed |-> FALSE, saveFailed |-> FALSE, tokenOk |-> FALSE]
    BY DEF FilesInit, Off
  <2>2. p.pc = "off"
    BY <2>1
  <2>3. p.tokenOk = FALSE
    BY <2>1
  <2>4. p \in Processes
    BY <2>1 DEF Processes, Stages
  <2>. QED BY <2>2, <2>3, <2>4
<1>6. TypesOK
  BY <1>4, <1>5, BlobsAre DEF FilesInit, TypesOK, Contents, Torn
<1>7. DiskOK
  BY <1>2, <1>4, NamesDiffer DEF FilesInit, DiskOK, Whole, Distinct
<1>8. WriteOK /\ IdentityOK
  BY <1>5 DEF FilesInit, WriteOK, IdentityOK, Placed, Writing
<1>. QED BY <1>6, <1>7, <1>8 DEF IInv

\* What a write returns to.
LEMMA ReturnsWell ==
  ASSUME TypesOK, NEW ok \in BOOLEAN, NEW q, q = Return(p, ok)
  PROVE  /\ q \in Processes /\ q.id = p.id /\ q.key = p.key /\ q.blob = p.blob
         /\ p.key = "keypair" => q.pc = "started" /\ q.saveFailed = ~ok /\ q.tokenOk = p.tokenOk
         /\ p.key # "keypair" => q.pc = "bind" /\ q.tokenOk = ok
<1>1. p \in Processes
  BY DEF TypesOK, Processes
<1>2. CASE p.key = "keypair"
  <2>1. q = [p EXCEPT !.pc = "started", !.saveFailed = ~ok]
    BY <1>2 DEF Return
  <2>2. PICK failed \in BOOLEAN : failed = ~ok
    OBVIOUS
  <2>3. q = [p EXCEPT !.pc = "started", !.saveFailed = failed]
    BY <2>1, <2>2, Zenon
  <2>4. q \in Processes
    BY <2>3, <1>1 DEF Processes, Stages
  <2>5. q.id = p.id /\ q.key = p.key /\ q.blob = p.blob /\ q.pc = "started"
    BY <2>3, <1>1 DEF Processes, Stages
  <2>6. q.saveFailed = failed
    BY <2>3, <1>1 DEF Processes, Stages
  <2>7. q.tokenOk = p.tokenOk
    BY <2>3, <1>1 DEF Processes, Stages
  <2>. QED BY <2>2, <2>4, <2>5, <2>6, <2>7, <1>2, Zenon
<1>3. CASE p.key # "keypair"
  <2>1. q = [p EXCEPT !.pc = "bind", !.tokenOk = ok]
    BY <1>3 DEF Return
  <2>2. q \in Processes
    BY <2>1, <1>1 DEF Processes, Stages
  <2>3. q.id = p.id /\ q.key = p.key /\ q.blob = p.blob /\ q.pc = "bind"
    BY <2>1, <1>1 DEF Processes, Stages
  <2>4. q.tokenOk = ok
    BY <2>1, <1>1 DEF Processes, Stages
  <2>. QED BY <2>2, <2>3, <2>4, <1>3, Zenon
<1>. QED BY <1>2, <1>3, Zenon

LEMMA GoesWell ==
  ASSUME TypesOK, NEW pc \in Stages, Proceed(pc)
  PROVE  /\ p' \in Processes /\ p'.pc = pc /\ p'.id = p.id /\ p'.key = p.key /\ p'.blob = p.blob
         /\ p'.tokenOk = p.tokenOk /\ p'.saveFailed = p.saveFailed /\ p'.loadFailed = p.loadFailed
BY DEF Proceed, TypesOK, Processes

\* A failed write goes back to its caller: nobody takes it for done.
LEMMA WriteFails ==
  ASSUME IInv, NEW d, Undisturbed(d), DiskOK', p.pc \in Writing, p' = Return(p, FALSE),
         UNCHANGED <<launches, adv, known>>, dirs' \in Seq(Dirs), dirs' # << >>,
         inode' \in [Inodes -> Contents],
         acked' \in [Keys -> Nat \union {None}]
  PROVE  IInv'
<1>. USE DEF IInv
<1>1. p.key \in Keys /\ p.tokenOk = FALSE /\ adv = None
  BY DEF WriteOK, IdentityOK, Writing, TypesOK, Processes
<1>2. /\ p' \in Processes /\ p'.id = p.id /\ p'.key = p.key /\ p'.tokenOk = FALSE
      /\ p.key = "keypair" => p'.pc = "started" /\ p'.saveFailed = TRUE
      /\ p.key # "keypair" => p'.pc = "bind"
  <2>1. /\ p' \in Processes /\ p'.id = p.id /\ p'.key = p.key
        /\ p.key = "keypair" => p'.pc = "started" /\ p'.saveFailed = ~FALSE /\ p'.tokenOk = p.tokenOk
        /\ p.key # "keypair" => p'.pc = "bind" /\ p'.tokenOk = FALSE
    BY ReturnsWell
  <2>. QED BY <2>1, <1>1, Zenon
<1>3. p'.pc \in {"started", "bind"}
  BY <1>2
<1>4. TypesOK'
  BY <1>2 DEF TypesOK
<1>5. WriteOK'
  BY <1>3 DEF WriteOK, Writing
<1>6. Placed' => Placed /\ p'.id = p.id
  BY <1>1, <1>2 DEF Placed, Writing, Keys
<1>7. IdentityOK'
  BY <1>1, <1>2, <1>3, <1>6, IdentityKept DEF Writing
<1>. QED BY <1>4, <1>5, <1>7

\* A write goes on: the identity stays where it is.
LEMMA WriteGoesOn ==
  ASSUME IInv, NEW d, Undisturbed(d), p.pc \in Writing, NEW pc \in Writing, Proceed(pc),
         UNCHANGED <<adv, known>>
  PROVE  /\ IdentityOK' /\ p' \in Processes /\ p'.pc = pc /\ p'.key = p.key /\ p'.blob = p.blob
         /\ p'.id = p.id /\ p.key \in Keys /\ p.blob \in Blobs /\ p.blob = p.id
<1>. USE DEF IInv
<1>1. p.key \in Keys /\ p.blob = p.id /\ p.id \in Blobs /\ p.tokenOk = FALSE /\ adv = None
  BY DEF WriteOK, IdentityOK, Writing, TypesOK, Processes
<1>2. /\ p' \in Processes /\ p'.pc = pc /\ p'.id = p.id /\ p'.key = p.key /\ p'.blob = p.blob
      /\ p'.tokenOk = p.tokenOk
  BY GoesWell DEF Stages
<1>3. Placed' => Placed /\ p'.id = p.id
  BY <1>2 DEF Placed, Writing
<1>4. p'.pc \in Writing /\ p'.key = "keypair" => known = {}
  BY <1>2 DEF IdentityOK
<1>5. p'.pc # "load"
  BY <1>2 DEF Writing
<1>6. IdentityOK'
  BY <1>1, <1>2, <1>3, <1>4, <1>5, IdentityKept
<1>. QED BY <1>1, <1>2, <1>6

LEMMA FilesLaunch ==
  ASSUME DiskAssumption, IInv, Launch PROVE IInv'
<1>. USE DEF IInv
<1>1. /\ dirs' = dirs /\ inode' = inode /\ acked' = acked /\ known' = known /\ adv' = adv
      /\ launches' = launches + 1 /\ p.pc = "off"
  BY DEF Launch, Quiet
<1>2. adv = None /\ p.tokenOk = FALSE
  BY <1>1 DEF IdentityOK, TypesOK, Processes
<1>3. /\ p' \in Processes /\ p'.pc \in {"off", "load"} /\ p'.tokenOk = FALSE
      /\ p'.pc = "load" => p'.saveFailed = FALSE
  <2>1. CASE p' = p
    BY <2>1, <1>1, <1>2 DEF TypesOK
  <2>2. CASE p' = [Off EXCEPT !.pc = "load"]
    <3>1. p' = [pc |-> "load", key |-> None, blob |-> None, id |-> None,
                loadFailed |-> FALSE, saveFailed |-> FALSE, tokenOk |-> FALSE]
      BY <2>2 DEF Off
    <3>. QED BY <3>1 DEF Processes, Stages
  <2>. QED BY <2>1, <2>2 DEF Launch
<1>4. DiskOK' /\ Undisturbed(dir)
  BY <1>1, QuietDisk
<1>5. TypesOK'
  BY <1>1, <1>3, BlobsAre DEF TypesOK, Launch
<1>6. WriteOK' /\ ~Placed' /\ p'.pc \notin Writing
  BY <1>3 DEF WriteOK, Placed, Writing
<1>7. launches' \in Blobs
  BY <1>1, BlobsAre DEF TypesOK, Launch
<1>8. IdentityOK'
  BY <1>1, <1>2, <1>3, <1>4, <1>6, <1>7, IdentityKept
<1>. QED BY <1>4, <1>5, <1>6, <1>8

\* A keypair that is there is loaded; none is minted while servers know one.
LEMMA FilesLoad ==
  ASSUME DiskAssumption, IInv, LoadKeypair PROVE IInv'
<1>. USE DEF IInv
<1>1. /\ dirs' = dirs /\ inode' = inode /\ acked' = acked /\ known' = known /\ adv' = adv
      /\ launches' = launches /\ p.pc = "load"
  BY DEF LoadKeypair, Quiet, rest
<1>2. adv = None /\ p.tokenOk = FALSE /\ launches \in Blobs /\ p.saveFailed = FALSE /\ p \in Processes
  BY <1>1 DEF IdentityOK, TypesOK, Processes
<1>3. DiskOK' /\ Undisturbed(dir) /\ dir' = dir /\ Past' = Past
  BY <1>1, QuietDisk, DirsKept
<1>4. dir \in Past /\ dir \in Dirs
  BY DirIsPast
<1>5. CASE Seen("keypair") # Torn /\ p' = Loads(p)
  <2>1. PICK id : id = Seen("keypair")
    OBVIOUS
  <2>2. dir["keypair"] # None /\ id = inode[dir["keypair"]].blob /\ id \in Blobs
    <3>1. dir["keypair"] # None /\ id = inode[dir["keypair"]].blob /\ id # Torn
      BY <1>5, <2>1 DEF Seen
    <3>2. dir["keypair"] \in Inodes
      BY <1>4, <3>1, NamesDiffer DEF Dirs
    <3>. QED BY <3>1, <3>2 DEF TypesOK, Contents
  <2>3. p' = [p EXCEPT !.id = id, !.pc = "started"]
    BY <1>5, <2>1 DEF Loads
  <2>4. p' \in Processes /\ p'.pc = "started" /\ p'.id = id /\ p'.tokenOk = FALSE
    BY <1>2, <2>2, <2>3, BlobsAre DEF Processes, Stages
  <2>5. TypesOK'
    BY <1>1, <2>4 DEF TypesOK
  <2>6. WriteOK'
    BY <2>4 DEF WriteOK, Writing
  <2>7. (\A i \in known : \A e \in Past : Holds(e, "keypair", i))'
    BY <1>1, <1>3 DEF IdentityOK, Holds
  <2>8. Holds(dir, "keypair", p.id)'
    BY <1>1, <1>3, <2>2, <2>4 DEF Holds
  <2>9. IdentityOK'
    BY <1>1, <1>2, <2>2, <2>4, <2>7, <2>8 DEF IdentityOK, Writing
  <2>. QED BY <1>3, <2>5, <2>6, <2>9
<1>6. CASE p' = Mints([p EXCEPT !.loadFailed = TRUE]) \/ (Seen("keypair") = Torn /\ p' = Mints(p))
  <2>1. PICK q : q = p \/ q = [p EXCEPT !.loadFailed = TRUE]
    OBVIOUS
  <2>2. \/ /\ p' \in Processes /\ p'.pc = "started" /\ p'.saveFailed = TRUE /\ p'.tokenOk = FALSE
        \/ /\ p' \in Processes /\ p'.pc = "open" /\ p'.key = "keypair" /\ p'.tokenOk = FALSE
           /\ p'.blob = launches /\ p'.id = launches /\ Seen("keypair") = Torn
    <3>1. CASE p' = Mints([p EXCEPT !.loadFailed = TRUE])
      <4>1. p' = [p EXCEPT !.loadFailed = TRUE, !.id = launches, !.pc = "started", !.saveFailed = TRUE]
        BY <1>2, <3>1 DEF Mints, SaveKeypair, Processes
      <4>. QED BY <1>2, <4>1, BlobsAre DEF Processes, Stages
    <3>2. CASE Seen("keypair") = Torn /\ p' = Mints(p)
      <4>1. \/ p' = [p EXCEPT !.id = launches, !.pc = "started", !.saveFailed = TRUE]
            \/ p' = [p EXCEPT !.id = launches, !.pc = "open", !.key = "keypair", !.blob = launches]
        BY <1>2, <3>2 DEF Mints, SaveKeypair, Opening, Processes
      <4>2. CASE p' = [p EXCEPT !.id = launches, !.pc = "started", !.saveFailed = TRUE]
        BY <1>2, <4>2, BlobsAre DEF Processes, Stages
      <4>3. CASE p' = [p EXCEPT !.id = launches, !.pc = "open", !.key = "keypair", !.blob = launches]
        <5>1. p'.pc = "open" /\ p'.key = "keypair" /\ p'.tokenOk = p.tokenOk
              /\ p'.blob = launches /\ p'.id = launches
          BY <4>3 DEF Processes
        <5>2. p' \in Processes
          BY <1>2, <4>3, BlobsAre DEF Processes, Stages, Keys, Writing
        <5>. QED BY <1>2, <3>2, <5>1, <5>2
      <4>. QED BY <4>1, <4>2, <4>3
    <3>. QED BY <1>6, <3>1, <3>2
  <2>3. p'.pc = "open" => known = {}
    <3>1. SUFFICES ASSUME Seen("keypair") = Torn, NEW i \in known PROVE FALSE
      BY <2>2
    <3>2. dir["keypair"] # None /\ Whole(dir, "keypair")
      BY <1>4, <3>1, NamesDiffer DEF IdentityOK, Holds, DiskOK
    <3>. QED BY <3>1, <3>2 DEF Seen, Whole
  <2>4. TypesOK'
    BY <1>1, <2>2 DEF TypesOK
  <2>5. WriteOK'
    BY <1>2, <2>2 DEF WriteOK, Writing, Keys
  <2>6. ~Placed' /\ p'.pc # "load" /\ (p'.pc \in Writing => known = {})
    BY <2>2, <2>3 DEF Placed, Writing
  <2>7. IdentityOK'
    BY <1>1, <1>2, <1>3, <2>2, <2>6, IdentityKept
  <2>. QED BY <1>3, <2>4, <2>5, <2>7
<1>. QED BY <1>5, <1>6 DEF LoadKeypair
\* The write of a key begins: until it ends nobody is promised anything of it.
LEMMA AckedDropped ==
  ASSUME TypesOK, NEW k \in Keys, acked' = [acked EXCEPT ![k] = None]
  PROVE  /\ acked' \in [Keys -> Nat \union {None}] /\ acked'[k] = None
         /\ \A key \in Keys : acked'[key] \in {acked[key], None}
BY DEF TypesOK

LEMMA FilesOpen ==
  ASSUME DiskAssumption, IInv, OpenTemp PROVE IInv' /\ \E d : Undisturbed(d)
<1>. USE DEF IInv
<1>1. PICK k \in Keys : k = p.key
  BY DEF OpenTemp, WriteOK, Writing
<1>2. /\ p.pc = "open" /\ p.pc \in Writing /\ UNCHANGED <<launches, adv, known>>
      /\ acked' = [acked EXCEPT ![k] = None]
  BY <1>1 DEF OpenTemp, rest, Writing
<1>3. /\ acked' \in [Keys -> Nat \union {None}] /\ acked'[k] = None
      /\ \A key \in Keys : acked'[key] \in {acked[key], None}
  BY <1>2, AckedDropped
<1>4. CASE p' = Return(p, FALSE) /\ UNCHANGED <<dirs, inode>>
  <2>1. DiskOK' /\ Undisturbed(dir)
    BY <1>3, <1>4, QuietDisk
  <2>2. dirs' \in Seq(Dirs) /\ dirs' # << >> /\ inode' \in [Inodes -> Contents]
    BY <1>4 DEF TypesOK
  <2>. QED BY <1>2, <1>3, <1>4, <2>1, <2>2, WriteFails
<1>5. CASE /\ \E i \in TempInodes : /\ inode' = [inode EXCEPT ![i] = [blob |-> Torn, synced |-> FALSE]]
                                    /\ Moves([dir EXCEPT ![Temp[k]] = i])
           /\ Proceed("write")
  <2>1. PICK i \in TempInodes : /\ inode' = [inode EXCEPT ![i] = [blob |-> Torn, synced |-> FALSE]]
                                /\ Moves([dir EXCEPT ![Temp[k]] = i])
    BY <1>5
  <2>2. PICK t \in Temps : t = Temp[k]
    BY NamesDiffer
  <2>3. dir \in Past /\ dir \in Dirs /\ Past \subseteq Dirs
    BY DirIsPast
  <2>4. t \in Names /\ t \notin Keys /\ Keys \subseteq Names
    BY <2>2, NamesDiffer
  <2>5. CASE dir[t] # None
    <3>1. i = dir[t]
      BY <1>1, <2>2, <2>5 DEF TempInodes
    <3>2. i \in Inodes /\ i # None
      BY <2>3, <2>4, <2>5, <3>1 DEF Dirs
    <3>3. [dir EXCEPT ![Temp[k]] = i] = dir
      BY <2>2, <2>3, <2>4, <3>1 DEF Dirs
    <3>4. dirs' = dirs
      BY <2>1, <3>3 DEF Moves
    <3>5. dir' = dir /\ Past' = Past
      BY <3>4, DirsKept
    <3>6. \A e \in Past, key \in Keys : e[key] # i
      BY <2>5, <3>1 DEF DiskOK
    <3>7. inode' \in [Inodes -> Contents] /\ \A j \in Inodes \ {i} : inode'[j] = inode[j]
      BY <2>1, <3>2 DEF TypesOK, Contents
    <3>8. \A e \in Past, key \in Keys : e[key] # None => inode'[e[key]] = inode[e[key]]
      BY <2>3, <2>4, <3>6, <3>7 DEF Dirs
    <3>9. Undisturbed(dir)
      BY <2>3, <3>5, <3>8 DEF Undisturbed
    <3>10. Distinct(dir)
      BY <2>3 DEF DiskOK
    <3>11. \A u \in Temps : dir[u] # None => \A e \in Past, key \in Keys : e[key] # dir[u]
      BY DEF DiskOK
    <3>12. DiskOK'
      BY <1>3, <3>9, <3>10, <3>11, UndisturbedDisk
    <3>13. /\ IdentityOK' /\ p' \in Processes /\ p'.pc = "write" /\ p'.key = k /\ p'.blob = p'.id /\ p'.id \in Blobs
      BY <1>1, <1>2, <1>5, <3>9, WriteGoesOn DEF Writing
    <3>14. TypesOK'
      BY <1>2, <1>3, <3>4, <3>7, <3>13 DEF TypesOK
    <3>15. WriteOK'
      BY <1>3, <2>2, <2>5, <3>5, <3>13 DEF WriteOK, Writing
    <3>. QED BY <3>9, <3>12, <3>13, <3>14, <3>15
  <2>6. CASE dir[t] = None
    <3>1. i \in Inodes /\ i \notin Held
      BY <1>1, <2>2, <2>6 DEF TempInodes
    <3>2. i # None
      BY <3>1 DEF DiskAssumption
    <3>3. \A e \in Past, f \in Names : e[f] # i
      BY <3>1, NamesDiffer DEF Held, Past, TypesOK
    <3>4. PICK d : d = [dir EXCEPT ![t] = i]
      OBVIOUS
    <3>5. d \in Dirs /\ d[t] = i /\ \A f \in Names \ {t} : d[f] = dir[f]
      BY <2>3, <2>4, <3>1, <3>4 DEF Dirs
    <3>6. dirs' \in Seq(Dirs) /\ dirs' # << >> /\ dir' = d /\ Past' = Past \union {d}
      BY <2>1, <2>2, <3>4, <3>5, MovesWell
    <3>7. inode' \in [Inodes -> Contents] /\ \A j \in Inodes \ {i} : inode'[j] = inode[j]
      BY <2>1, <3>1 DEF TypesOK, Contents
    <3>8. \A e \in Past, key \in Keys : e[key] # None => inode'[e[key]] = inode[e[key]]
      BY <2>3, <2>4, <3>3, <3>7 DEF Dirs
    <3>9. Undisturbed(d)
      BY <2>4, <3>5, <3>6, <3>8 DEF Undisturbed
    <3>10. Distinct(d)
      BY <2>3, <3>3, <3>5 DEF DiskOK, Distinct
    <3>11. \A u \in Temps : d[u] # None => \A e \in Past, key \in Keys : e[key] # d[u]
      <4>1. ASSUME NEW u \in Temps, d[u] # None, NEW e \in Past, NEW key \in Keys PROVE e[key] # d[u]
        <5>1. CASE u = t
          BY <2>4, <3>3, <3>5, <5>1
        <5>2. CASE u # t
          <6>1. d[u] = dir[u]
            BY <3>5, <5>2 DEF Names
          <6>. QED BY <4>1, <6>1 DEF DiskOK
        <5>. QED BY <5>1, <5>2
      <4>. QED BY <4>1
    <3>12. DiskOK'
      BY <1>3, <3>9, <3>10, <3>11, UndisturbedDisk
    <3>13. /\ IdentityOK' /\ p' \in Processes /\ p'.pc = "write" /\ p'.key = k /\ p'.blob = p'.id /\ p'.id \in Blobs
      BY <1>1, <1>2, <1>5, <3>9, WriteGoesOn DEF Writing
    <3>14. TypesOK'
      BY <1>2, <1>3, <3>6, <3>7, <3>13 DEF TypesOK
    <3>15. WriteOK'
      BY <1>3, <2>2, <3>2, <3>5, <3>6, <3>13 DEF WriteOK, Writing
    <3>. QED BY <3>9, <3>12, <3>13, <3>14, <3>15
  <2>. QED BY <2>5, <2>6
<1>6. (TempInodes # {}) => (CHOOSE i \in TempInodes : TRUE) \in TempInodes
  OBVIOUS
<1>. QED BY <1>1, <1>4, <1>5, <1>6 DEF OpenTemp

\* The data of the temporary file is written, then synced; a failure of either
\* leaves the file as it is, to be unlinked.
LEMMA FilesWrite ==
  ASSUME DiskAssumption, IInv, WriteTemp \/ SyncTemp PROVE IInv' /\ \E d : Undisturbed(d)
<1>. USE DEF IInv
<1>1. PICK k \in Keys : k = p.key
  BY DEF WriteTemp, SyncTemp, WriteOK, Writing
<1>2. PICK t \in Temps : t = Temp[k]
  BY NamesDiffer
<1>3. /\ p.pc \in {"write", "sync"} /\ p.pc \in Writing /\ dir[t] # None
      /\ dirs' = dirs /\ acked' = acked /\ launches' = launches /\ known' = known /\ adv' = adv
  BY <1>1, <1>2 DEF WriteTemp, SyncTemp, rest, Writing, WriteOK
<1>4. dir \in Dirs /\ t \in Names /\ dir[t] \in Inodes
  BY <1>2, <1>3, DirIsPast, NamesDiffer DEF Dirs
<1>5. acked[k] = None /\ acked'[k] = None
  BY <1>1, <1>3 DEF WriteOK
<1>6. PICK at : at = inode[dir[t]]
  OBVIOUS
<1>7. at \in Contents
  BY <1>4, <1>6 DEF TypesOK
<1>8. CASE Proceed("unlink") /\ inode' = inode
  <2>1. DiskOK' /\ Undisturbed(dir) /\ dir' = dir
    BY <1>3, <1>8, QuietDisk, DirsKept
  <2>2. IdentityOK' /\ p' \in Processes /\ p'.pc = "unlink" /\ p'.key = k /\ p'.blob = p'.id /\ p'.id \in Blobs
    BY <1>1, <1>3, <1>8, <2>1, WriteGoesOn DEF Writing
  <2>3. TypesOK'
    BY <1>3, <1>8, <2>2 DEF TypesOK
  <2>4. WriteOK'
    BY <1>2, <1>3, <1>5, <2>1, <2>2 DEF WriteOK
  <2>. QED BY <2>1, <2>2, <2>3, <2>4
<1>9. CASE WriteTemp /\ Proceed("sync") /\ inode' = [inode EXCEPT ![dir[Temp[p.key]]].blob = p.blob]
  <2>1. p.blob \in Blobs
    BY <1>1, <1>3 DEF WriteOK
  <2>2. PICK to : to = [at EXCEPT !.blob = p.blob]
    OBVIOUS
  <2>3. to \in Contents /\ to.blob = p.blob
    BY <1>7, <2>1, <2>2 DEF Contents
  <2>4. inode' = [inode EXCEPT ![dir[t]] = to]
    BY <1>1, <1>2, <1>6, <1>9, <2>2
  <2>5. DiskOK' /\ Undisturbed(dir) /\ inode' \in [Inodes -> Contents]
        /\ dir' = dir /\ inode'[dir[t]] = to
    BY <1>3, <2>3, <2>4, TempTouched
  <2>6. IdentityOK' /\ p' \in Processes /\ p'.pc = "sync" /\ p'.key = k /\ p'.blob = p.blob
        /\ p'.blob = p'.id /\ p'.id \in Blobs
    BY <1>1, <1>3, <1>9, <2>5, WriteGoesOn DEF Writing
  <2>7. TypesOK'
    BY <1>3, <2>5, <2>6 DEF TypesOK
  <2>8. WriteOK'
    BY <1>2, <1>3, <1>5, <2>3, <2>5, <2>6 DEF WriteOK
  <2>. QED BY <2>5, <2>6, <2>7, <2>8
<1>10. CASE SyncTemp /\ Proceed("rename") /\ inode' = [inode EXCEPT ![dir[Temp[p.key]]].synced = TRUE]
  <2>1. at.blob = p.blob
    BY <1>1, <1>2, <1>6, <1>10 DEF WriteOK, SyncTemp
  <2>2. PICK to : to = [at EXCEPT !.synced = TRUE]
    OBVIOUS
  <2>3. to \in Contents
    BY <1>7, <2>2 DEF Contents
  <2>4. to.blob = p.blob
    BY <1>7, <2>1, <2>2 DEF Contents
  <2>5. to.synced = TRUE
    BY <1>7, <2>2 DEF Contents
  <2>6. inode' = [inode EXCEPT ![dir[t]] = to]
    BY <1>1, <1>2, <1>6, <1>10, <2>2
  <2>7. DiskOK' /\ Undisturbed(dir) /\ inode' \in [Inodes -> Contents]
        /\ dir' = dir /\ inode'[dir[t]] = to
    BY <1>3, <2>3, <2>6, TempTouched
  <2>8. IdentityOK' /\ p' \in Processes /\ p'.pc = "rename" /\ p'.key = k /\ p'.blob = p.blob
        /\ p'.blob = p'.id /\ p'.id \in Blobs
    BY <1>1, <1>3, <1>10, <2>7, WriteGoesOn DEF Writing
  <2>9. TypesOK'
    BY <1>3, <2>7, <2>8 DEF TypesOK
  <2>10. inode'[dir'[Temp[k]]] = to
    BY <1>2, <2>7
  <2>11. WriteOK'
    BY <1>2, <1>3, <1>5, <2>4, <2>5, <2>7, <2>8, <2>10 DEF WriteOK
  <2>. QED BY <2>7, <2>8, <2>9, <2>11
<1>. QED BY <1>3, <1>8, <1>9, <1>10 DEF WriteTemp, SyncTemp

\* The name moves to the whole, synced file.
LEMMA FilesRename ==
  ASSUME DiskAssumption, IInv, Rename PROVE IInv'
<1>. USE DEF IInv
<1>1. PICK k \in Keys : k = p.key
  BY DEF Rename, WriteOK, Writing
<1>2. PICK t \in Temps : t = Temp[k]
  BY NamesDiffer
<1>3. p.pc = "rename" /\ p.pc \in Writing /\ launches' = launches /\ known' = known /\ adv' = adv /\ acked' = acked
  BY DEF Rename, rest, Writing
<1>4. /\ dir[t] # None /\ inode[dir[t]].blob = p.blob /\ inode[dir[t]].synced = TRUE
      /\ p.blob = p.id /\ p.id \in Blobs /\ acked[k] = None
  BY <1>1, <1>2, <1>3 DEF WriteOK
<1>5. dir \in Past /\ dir \in Dirs /\ t \in Names /\ k \in Names /\ t \notin Keys /\ Keys \subseteq Names
  BY <1>2, DirIsPast, NamesDiffer
<1>6. CASE Proceed("unlink") /\ UNCHANGED <<dirs, inode>>
  <2>1. DiskOK' /\ Undisturbed(dir) /\ dir' = dir
    BY <1>3, <1>6, QuietDisk, DirsKept
  <2>2. IdentityOK' /\ p' \in Processes /\ p'.pc = "unlink" /\ p'.key = k /\ p'.blob = p'.id /\ p'.id \in Blobs
    BY <1>1, <1>3, <1>6, <2>1, WriteGoesOn DEF Writing
  <2>3. TypesOK'
    BY <1>3, <1>6, <2>2 DEF TypesOK
  <2>4. WriteOK'
    BY <1>2, <1>3, <1>4, <2>1, <2>2 DEF WriteOK
  <2>. QED BY <2>1, <2>2, <2>3, <2>4
<1>7. CASE /\ Moves([dir EXCEPT ![p.key] = dir[Temp[p.key]], ![Temp[p.key]] = None])
           /\ Proceed("syncdir") /\ UNCHANGED <<inode, faults>>
  <2>1. PICK d : d = [dir EXCEPT ![k] = dir[t], ![t] = None]
    OBVIOUS
  <2>2. d \in Dirs /\ d[k] = dir[t] /\ d[t] = None /\ \A f \in Names \ {t, k} : d[f] = dir[f]
    BY <1>5, <2>1 DEF Dirs
  <2>3. dirs' \in Seq(Dirs) /\ dirs' # << >> /\ dir' = d /\ Past' = Past \union {d}
    BY <1>1, <1>2, <1>7, <2>1, <2>2, MovesWell
  <2>4. \A key \in Keys : key # k => d[key] = dir[key]
    BY <1>5, <2>2
  <2>5. (\A e \in Past, key \in Keys : Whole(e, key))'
    <3>1. ASSUME NEW e \in Past, NEW key \in Keys PROVE Whole(e, key)'
      BY <1>7 DEF DiskOK, Whole
    <3>2. ASSUME NEW key \in Keys
          PROVE  d[key] # None => inode'[d[key]].synced = TRUE /\ inode'[d[key]].blob # Torn
      <4>1. CASE key = k
        BY <1>4, <1>7, <2>2, <4>1, BlobsAre
      <4>2. CASE key # k
        BY <1>5, <1>7, <2>4, <4>2 DEF DiskOK, Whole
      <4>. QED BY <4>1, <4>2
    <3>. QED BY <2>3, <3>1, <3>2 DEF Whole
  <2>6. (\A e \in Past : Distinct(e))'
    <3>1. Distinct(dir)
      BY <1>5 DEF DiskOK
    <3>2. Distinct(d)
      BY <1>5, <2>2, <3>1 DEF Distinct
    <3>. QED BY <2>3, <3>2 DEF DiskOK, Distinct
  <2>7. (\A u \in Temps : dir[u] # None => \A e \in Past, key \in Keys : e[key] # dir[u])'
    <3>1. ASSUME NEW u \in Temps, d[u] # None, NEW e \in Past \union {d}, NEW key \in Keys
          PROVE  e[key] # d[u]
      <4>1. u # t /\ u # k /\ u \in Names /\ u \notin Keys
        BY <1>5, <2>2, <3>1, NamesDiffer
      <4>2. d[u] = dir[u]
        BY <2>2, <4>1
      <4>3. \A e2 \in Past : e2[key] # d[u]
        BY <3>1, <4>2 DEF DiskOK
      <4>4. Distinct(dir)
        BY <1>5 DEF DiskOK
      <4>5. CASE e = d /\ key = k
        BY <1>4, <1>5, <2>2, <4>1, <4>2, <4>4, <4>5 DEF Distinct
      <4>6. CASE e = d /\ key # k
        BY <1>5, <2>4, <4>3, <4>6
      <4>. QED BY <4>3, <4>5, <4>6
    <3>. QED BY <2>3, <3>1
  <2>8. \A b : \A key \in Keys : key # k /\ Holds(dir, key, b) => Holds(dir, key, b)'
    BY <1>7, <2>3, <2>4 DEF Holds
  <2>9. \A b : \A e \in Past, key \in Keys : Holds(e, key, b) => e[key] # None /\ inode'[e[key]].blob = b
    BY <1>7 DEF Holds
  <2>10. \A b : \A key \in Keys : key # k /\ (\A e \in Past : Holds(e, key, b)) => (\A e \in Past : Holds(e, key, b))'
    BY <1>5, <2>3, <2>4, <2>9, SMTT(30) DEF Holds
  <2>11. (\A key \in Keys : acked[key] # None => \A e \in Past : Holds(e, key, acked[key]))'
    <3>1. ASSUME NEW key \in Keys, acked[key] # None PROVE (\A e \in Past : Holds(e, key, acked[key]))'
      <4>1. PICK b : b = acked[key]
        OBVIOUS
      <4>2. key # k /\ \A e \in Past : Holds(e, key, b)
        BY <1>4, <3>1, <4>1 DEF DiskOK
      <4>3. (\A e \in Past : Holds(e, key, b))'
        BY <2>10, <4>2
      <4>. QED BY <1>3, <4>1, <4>3
    <3>. QED BY <1>3, <3>1
  <2>12. DiskOK'
    BY <2>5, <2>6, <2>7, <2>11 DEF DiskOK
  <2>13. /\ p' \in Processes /\ p'.pc = "syncdir" /\ p'.key = k /\ p'.blob = p.blob /\ p'.id = p.id
         /\ p'.tokenOk = p.tokenOk
    BY <1>1, <1>7, GoesWell DEF Stages, Writing
  <2>14. p.tokenOk = FALSE /\ adv = None
    BY <1>3 DEF IdentityOK, TypesOK, Processes, Writing
  <2>15. TypesOK'
    BY <1>3, <1>7, <2>3, <2>13 DEF TypesOK
  <2>16. WriteOK'
    BY <1>3, <1>4, <1>7, <2>2, <2>3, <2>13 DEF WriteOK, Holds
  <2>17. (\A i \in known : \A e \in Past : Holds(e, "keypair", i))'
    <3>1. ASSUME NEW i \in known PROVE (\A e \in Past : Holds(e, "keypair", i))'
      <4>1. k # "keypair" /\ \A e \in Past : Holds(e, "keypair", i)
        BY <1>1, <1>3 DEF IdentityOK
      <4>. QED BY <2>10, <4>1, NamesDiffer
    <3>. QED BY <1>3, <3>1
  <2>18. ASSUME Placed' PROVE (p.id \in Blobs /\ Holds(dir, "keypair", p.id))'
    <3>1. k = "token"
      BY <2>13, <2>18 DEF Placed
    <3>2. Placed
      BY <1>1, <1>3, <3>1 DEF Placed
    <3>3. PICK id : id = p.id
      OBVIOUS
    <3>4. id \in Blobs /\ Holds(dir, "keypair", id)
      BY <3>2, <3>3 DEF IdentityOK
    <3>5. Holds(dir, "keypair", id)'
      BY <2>8, <3>1, <3>4, NamesDiffer
    <3>. QED BY <2>13, <3>3, <3>4, <3>5
  <2>19. IdentityOK'
    BY <1>1, <1>3, <2>13, <2>14, <2>17, <2>18 DEF IdentityOK, Writing
  <2>. QED BY <2>12, <2>15, <2>16, <2>19
<1>. QED BY <1>6, <1>7 DEF Rename

\* The temporary file is taken away, and the write has failed.
LEMMA FilesUnlink ==
  ASSUME DiskAssumption, IInv, Unlink PROVE IInv' /\ \E d : Undisturbed(d)
<1>. USE DEF IInv
<1>1. PICK k \in Keys : k = p.key
  BY DEF Unlink, WriteOK, Writing
<1>2. PICK t \in Temps : t = Temp[k]
  BY NamesDiffer
<1>3. /\ p.pc \in Writing /\ UNCHANGED <<launches, adv, known>> /\ p' = Return(p, FALSE)
      /\ acked' = acked /\ inode' = inode
  BY DEF Unlink, rest, Writing
<1>4. dir \in Past /\ dir \in Dirs /\ t \in Names /\ t \notin Keys /\ Keys \subseteq Names
  BY <1>2, DirIsPast, NamesDiffer
<1>5. PICK d : d = [dir EXCEPT ![t] = None]
  OBVIOUS
<1>6. d \in Dirs /\ d[t] = None /\ \A f \in Names \ {t} : d[f] = dir[f]
  BY <1>4, <1>5 DEF Dirs
<1>7. dirs' \in Seq(Dirs) /\ dirs' # << >> /\ dir' = d /\ Past' = Past \union {d}
  BY <1>1, <1>2, <1>5, <1>6, MovesWell DEF Unlink
<1>8. Undisturbed(d)
  BY <1>3, <1>4, <1>6, <1>7 DEF Undisturbed
<1>9. Distinct(d)
  BY <1>4, <1>6 DEF DiskOK, Distinct
<1>10. \A u \in Temps : d[u] # None => \A e \in Past, key \in Keys : e[key] # d[u]
  BY <1>6 DEF DiskOK, Names
<1>11. DiskOK'
  BY <1>3, <1>8, <1>9, <1>10, UndisturbedDisk
<1>. QED BY <1>3, <1>7, <1>8, <1>11, WriteFails DEF TypesOK

\* The directory is on the disk: what was written is what any power cut leaves.
LEMMA FilesSyncDir ==
  ASSUME DiskAssumption, IInv, SyncDir PROVE IInv'
<1>. USE DEF IInv
<1>1. PICK k \in Keys : k = p.key
  BY DEF SyncDir, WriteOK, Writing
<1>2. p.pc = "syncdir" /\ p.pc \in Writing /\ UNCHANGED <<launches, adv, known>> /\ inode' = inode
  BY DEF SyncDir, rest, Writing
<1>3. /\ dir \in Past /\ dir \in Dirs /\ Holds(dir, k, p.blob) /\ p.blob = p.id /\ p.id \in Blobs
      /\ p.tokenOk = FALSE /\ adv = None
  BY <1>1, <1>2, DirIsPast DEF WriteOK, IdentityOK, TypesOK, Processes, Writing
<1>4. CASE p' = Return(p, FALSE) /\ UNCHANGED <<dirs, acked>>
  <2>1. DiskOK' /\ Undisturbed(dir)
    BY <1>2, <1>4, QuietDisk
  <2>. QED BY <1>2, <1>4, <2>1, WriteFails DEF TypesOK
<1>5. CASE dirs' = <<dir>> /\ p' = Return(p, TRUE) /\ acked' = [acked EXCEPT ![p.key] = p.blob]
  <2>1. PICK d : d = dir
    OBVIOUS
  <2>2. d \in Past /\ dirs' = <<d>>
    BY <1>3, <1>5, <2>1
  <2>3. dirs' \in Seq(Dirs) /\ dirs' # << >> /\ dir' = dir /\ Past' = {dir}
    BY <2>1, <2>2, DirsCut
  <2>4. acked' \in [Keys -> Nat \union {None}] /\ acked'[k] = p.blob
        /\ \A key \in Keys : key # k => acked'[key] = acked[key]
    BY <1>1, <1>3, <1>5 DEF TypesOK, Blobs
  <2>5. \A b : \A key \in Keys : Holds(dir, key, b) => (\A e \in Past : Holds(e, key, b))'
    BY <1>2, <2>3 DEF Holds
  <2>6. (\A key \in Keys : acked[key] # None => \A e \in Past : Holds(e, key, acked[key]))'
    <3>1. ASSUME NEW key \in Keys, acked'[key] # None PROVE (\A e \in Past : Holds(e, key, acked[key]))'
      <4>1. PICK b : b = acked'[key]
        OBVIOUS
      <4>2. Holds(dir, key, b)
        BY <1>3, <2>4, <3>1, <4>1 DEF DiskOK
      <4>3. (\A e \in Past : Holds(e, key, b))'
        BY <2>5, <4>2
      <4>. QED BY <4>1, <4>3
    <3>. QED BY <3>1
  <2>7. DiskOK'
    <3>1. (\A e \in Past, key \in Keys : Whole(e, key))'
      BY <1>2, <1>3, <2>3 DEF DiskOK, Whole
    <3>2. (\A e \in Past : Distinct(e))'
      BY <1>3, <2>3 DEF DiskOK, Distinct
    <3>3. (\A t \in Temps : dir[t] # None => \A e \in Past, key \in Keys : e[key] # dir[t])'
      BY <1>3, <2>3 DEF DiskOK
    <3>. QED BY <2>6, <3>1, <3>2, <3>3 DEF DiskOK
  <2>8. /\ p' \in Processes /\ p'.id = p.id /\ p'.key = k
        /\ k = "keypair" => p'.pc = "started" /\ p'.saveFailed = ~TRUE /\ p'.tokenOk = p.tokenOk
        /\ k # "keypair" => p'.pc = "bind" /\ p'.tokenOk = TRUE
    <3>1. PICK q : q = p'
      OBVIOUS
    <3>. QED BY <1>1, <1>5, <3>1, ReturnsWell
  <2>9. TypesOK'
    BY <1>2, <2>3, <2>4, <2>8 DEF TypesOK
  <2>10. WriteOK'
    BY <2>8 DEF WriteOK, Writing
  <2>11. Holds(dir, "keypair", p.id)
    <3>1. CASE k = "keypair"
      BY <1>3, <3>1
    <3>2. CASE k # "keypair"
      <4>1. Placed
        BY <1>1, <1>2, <3>2 DEF Placed, Keys
      <4>. QED BY <4>1 DEF IdentityOK
    <3>. QED BY <3>1, <3>2
  <2>12. PICK id : id = p.id
    OBVIOUS
  <2>13. (\A e \in Past : Holds(e, "keypair", id))' /\ Holds(dir, "keypair", id)'
    BY <2>3, <2>5, <2>11, <2>12, NamesDiffer
  <2>14. (\A i \in known : \A e \in Past : Holds(e, "keypair", i))'
    BY <1>2, <1>3, <2>5, NamesDiffer DEF IdentityOK
  <2>15. p'.pc \notin Writing /\ p'.pc # "load" /\ (p'.tokenOk = TRUE => p'.pc = "bind")
    <3>1. k = "keypair" => p'.tokenOk = FALSE
      BY <1>3, <2>8
    <3>. QED BY <2>8, <3>1 DEF Writing
  <2>16. IdentityOK'
    BY <1>2, <1>3, <2>8, <2>12, <2>13, <2>14, <2>15 DEF IdentityOK
  <2>. QED BY <2>7, <2>9, <2>10, <2>16
<1>. QED BY <1>4, <1>5 DEF SyncDir

\* A step of the process alone, after start().
LEMMA ProcessMoves ==
  ASSUME IInv, dirs' = dirs, inode' = inode, acked' = acked, launches' = launches,
         p' \in Processes, p'.pc # "load"
  PROVE  TypesOK' /\ DiskOK' /\ dir' = dir /\ Past' = Past
<1>1. DiskOK' /\ dir' = dir /\ Past' = Past
  BY QuietDisk, DirsKept DEF IInv
<1>2. TypesOK'
  BY DEF IInv, TypesOK
<1>. QED BY <1>1, <1>2

LEMMA OffWell ==
  /\ Off \in Processes /\ Off.pc = "off" /\ Off.tokenOk = FALSE
<1>1. Off = [pc |-> "off", key |-> None, blob |-> None, id |-> None,
             loadFailed |-> FALSE, saveFailed |-> FALSE, tokenOk |-> FALSE]
  BY DEF Off
<1>2. Off.pc = "off"
  BY <1>1
<1>3. Off.tokenOk = FALSE
  BY <1>1
<1>4. Off \in Processes
  BY <1>1 DEF Processes, Stages
<1>. QED BY <1>2, <1>3, <1>4

LEMMA FilesStarted ==
  ASSUME DiskAssumption, IInv, Started PROVE IInv'
<1>. USE DEF IInv
<1>1. /\ dirs' = dirs /\ inode' = inode /\ acked' = acked /\ launches' = launches /\ known' = known /\ adv' = adv
      /\ p.pc = "started"
  BY DEF Started, Quiet, rest
<1>2. adv = None /\ p.tokenOk = FALSE /\ p \in Processes
  BY <1>1 DEF IdentityOK, TypesOK, Processes
<1>3. Undisturbed(dir)
  BY <1>1, QuietDisk
<1>4. CASE p' = Off
  <2>1. p' \in Processes /\ p'.pc = "off" /\ p'.tokenOk = FALSE
    BY <1>4, OffWell
  <2>2. TypesOK' /\ DiskOK'
    BY <1>1, <2>1, ProcessMoves
  <2>3. WriteOK' /\ ~Placed' /\ p'.pc \notin Writing
    BY <2>1 DEF WriteOK, Placed, Writing
  <2>4. IdentityOK'
    BY <1>1, <1>2, <1>3, <2>1, <2>3, IdentityKept
  <2>. QED BY <2>2, <2>3, <2>4
<1>5. CASE p.saveFailed = FALSE /\ (p' = Opening(p, "token", p.id) \/ Proceed("bind"))
  <2>1. Placed /\ p.id \in Blobs
    BY <1>1, <1>5 DEF Placed, IdentityOK
  <2>2. \/ /\ p' \in Processes /\ p'.pc = "open" /\ p'.key = "token" /\ p'.blob = p.id /\ p'.id = p.id
           /\ p'.tokenOk = FALSE
        \/ p' \in Processes /\ p'.pc = "bind" /\ p'.id = p.id /\ p'.tokenOk = FALSE
    <3>1. CASE p' = Opening(p, "token", p.id)
      <4>1. p' = [p EXCEPT !.pc = "open", !.key = "token", !.blob = p.id]
        BY <3>1 DEF Opening
      <4>. QED BY <1>2, <2>1, <4>1 DEF Processes, Stages, Writing, Keys, Blobs
    <3>2. CASE Proceed("bind")
      BY <1>2, <3>2, GoesWell DEF Stages
    <3>. QED BY <1>5, <3>1, <3>2
  <2>3. TypesOK' /\ DiskOK'
    BY <1>1, <2>2, ProcessMoves
  <2>4. WriteOK'
    BY <2>1, <2>2 DEF WriteOK, Writing, Keys
  <2>5. /\ Placed' => Placed /\ p'.id = p.id
        /\ p'.pc \in Writing => p'.key # "keypair"
        /\ p'.pc # "load" /\ p'.tokenOk = FALSE
    BY <2>1, <2>2 DEF Writing
  <2>6. IdentityOK'
    BY <1>1, <1>2, <1>3, <2>5, IdentityKept
  <2>. QED BY <2>3, <2>4, <2>6
<1>6. p.saveFailed = TRUE \/ p.saveFailed = FALSE
  BY <1>2 DEF Processes
<1>7. CASE p.saveFailed = TRUE
  BY <1>4, <1>7 DEF Started
<1>8. CASE p.saveFailed = FALSE
  BY <1>5, <1>8 DEF Started
<1>. QED BY <1>6, <1>7, <1>8

\* The identity becomes known only when every directory that may come back
\* holds it.
LEMMA FilesListen ==
  ASSUME DiskAssumption, IInv, Listen PROVE IInv'
<1>. USE DEF IInv
<1>1. /\ dirs' = dirs /\ inode' = inode /\ acked' = acked /\ launches' = launches
      /\ adv' = p.id /\ p.pc = "bind"
      /\ p' \in Processes /\ p'.pc = "run" /\ p'.id = p.id
  BY GoesWell DEF Listen, Quiet, Stages
<1>2. TypesOK' /\ DiskOK' /\ dir' = dir /\ Past' = Past
  BY <1>1, ProcessMoves
<1>3. WriteOK'
  BY <1>1 DEF WriteOK, Writing
<1>4. p.id \in Blobs /\ Holds(dir, "keypair", p.id)
  BY <1>1 DEF IdentityOK, Placed
<1>5. Holds(dir, "keypair", p.id)'
  BY <1>1, <1>2, <1>4 DEF Holds
<1>6. (\A i \in known : \A e \in Past : Holds(e, "keypair", i))'
  <2>1. ASSUME NEW i \in known' PROVE \A e \in Past : Holds(e, "keypair", i)
    <3>1. CASE i \in known
      BY <3>1 DEF IdentityOK
    <3>2. CASE i \notin known
      <4>1. i = p.id /\ p.tokenOk
        BY <2>1, <3>2 DEF Listen
      <4>2. p.tokenOk = TRUE
        BY <4>1 DEF TypesOK, Processes
      <4>. QED BY <1>1, <4>1, <4>2 DEF IdentityOK
    <3>. QED BY <3>1, <3>2
  <2>. QED BY <1>1, <1>2, <2>1 DEF Holds
<1>7. IdentityOK'
  BY <1>1, <1>4, <1>5, <1>6 DEF IdentityOK, Writing
<1>. QED BY <1>2, <1>3, <1>7

LEMMA FilesKill ==
  ASSUME DiskAssumption, IInv, Kill PROVE IInv'
<1>. USE DEF IInv
<1>1. /\ dirs' = dirs /\ inode' = inode /\ acked' = acked /\ launches' = launches /\ known' = known /\ adv' = None
      /\ p' \in Processes /\ p'.pc = "off" /\ p'.tokenOk = FALSE
  BY OffWell DEF Kill, Quiet
<1>2. TypesOK' /\ DiskOK' /\ dir' = dir /\ Past' = Past
  BY <1>1, ProcessMoves
<1>3. WriteOK' /\ ~Placed' /\ p'.pc \notin Writing
  BY <1>1 DEF WriteOK, Placed, Writing
<1>4. (\A i \in known : \A e \in Past : Holds(e, "keypair", i))'
  BY <1>1, <1>2 DEF IdentityOK, Holds
<1>5. IdentityOK'
  BY <1>1, <1>3, <1>4 DEF IdentityOK
<1>. QED BY <1>2, <1>3, <1>5

\* The disk falls back to a directory of the past; whatever is torn, no key
\* of it is, because its data was synced before the name moved.
LEMMA FilesPowerCut ==
  ASSUME DiskAssumption, IInv, PowerCut PROVE IInv'
<1>. USE DEF IInv
<1>1. /\ acked' = acked /\ launches' = launches /\ known' = known /\ adv' = None
      /\ p' \in Processes /\ p'.pc = "off" /\ p'.tokenOk = FALSE
  BY OffWell DEF PowerCut
<1>2. PICK n \in DOMAIN dirs : dirs' = <<dirs[n]>>
  BY DEF PowerCut
<1>3. PICK e : e = dirs[n]
  OBVIOUS
<1>4. e \in Past /\ dirs' = <<e>>
  BY <1>2, <1>3 DEF Past, TypesOK
<1>5. dirs' \in Seq(Dirs) /\ dirs' # << >> /\ dir' = e /\ Past' = {e} /\ e \in Dirs
  BY <1>4, DirsCut, DirIsPast
<1>6. PICK torn \in SUBSET {i \in Held \ {None} : ~inode[i].synced} :
        inode' = [i \in Inodes |-> [blob |-> IF i \in torn THEN Torn ELSE inode[i].blob, synced |-> TRUE]]
  BY DEF PowerCut
<1>7. inode' \in [Inodes -> Contents]
  BY <1>6 DEF TypesOK, Contents
<1>8. ASSUME NEW key \in Keys, e[key] # None
      PROVE  inode'[e[key]].synced = TRUE /\ inode'[e[key]].blob = inode[e[key]].blob /\ inode[e[key]].blob # Torn
  <2>1. e[key] \in Inodes
    BY <1>5, <1>8, NamesDiffer DEF Dirs
  <2>2. inode[e[key]].synced = TRUE /\ inode[e[key]].blob # Torn
    BY <1>4, <1>8 DEF DiskOK, Whole
  <2>3. e[key] \notin torn
    BY <2>2
  <2>4. inode'[e[key]] = [blob |-> inode[e[key]].blob, synced |-> TRUE]
    BY <1>6, <2>1, <2>3
  <2>5. inode'[e[key]].synced = TRUE
    BY <2>4
  <2>. QED BY <2>2, <2>4, <2>5
<1>9. \A b : \A key \in Keys : Holds(e, key, b) => (\A g \in Past : Holds(g, key, b))'
  BY <1>5, <1>8 DEF Holds
<1>10. DiskOK'
  <2>1. (\A g \in Past, key \in Keys : Whole(g, key))'
    BY <1>5, <1>8 DEF Whole
  <2>2. Distinct(e)
    BY <1>4 DEF DiskOK
  <2>3. (\A g \in Past : Distinct(g))'
    BY <1>5, <2>2 DEF Distinct
  <2>4. (\A t \in Temps : dir[t] # None => \A g \in Past, key \in Keys : g[key] # dir[t])'
    <3>1. ASSUME NEW t \in Temps, e[t] # None, NEW key \in Keys PROVE e[key] # e[t]
      <4>1. t \in Names /\ key \in Names /\ t # key
        BY NamesDiffer
      <4>. QED BY <2>2, <3>1, <4>1 DEF Distinct
    <3>. QED BY <1>5, <3>1
  <2>5. (\A key \in Keys : acked[key] # None => \A g \in Past : Holds(g, key, acked[key]))'
    <3>1. ASSUME NEW key \in Keys, acked[key] # None PROVE (\A g \in Past : Holds(g, key, acked[key]))'
      <4>1. PICK b : b = acked[key]
        OBVIOUS
      <4>2. Holds(e, key, b)
        BY <1>4, <3>1, <4>1 DEF DiskOK
      <4>3. (\A g \in Past : Holds(g, key, b))'
        BY <1>9, <4>2
      <4>. QED BY <1>1, <4>1, <4>3
    <3>. QED BY <1>1, <3>1
  <2>. QED BY <2>1, <2>3, <2>4, <2>5 DEF DiskOK
<1>11. TypesOK'
  BY <1>1, <1>5, <1>7 DEF TypesOK
<1>12. WriteOK' /\ ~Placed' /\ p'.pc \notin Writing
  BY <1>1 DEF WriteOK, Placed, Writing
<1>13. (\A i \in known : \A g \in Past : Holds(g, "keypair", i))'
  BY <1>1, <1>4, <1>9, NamesDiffer DEF IdentityOK
<1>14. IdentityOK'
  BY <1>1, <1>12, <1>13 DEF IdentityOK
<1>. QED BY <1>10, <1>11, <1>12, <1>14

LEMMA FilesStutter ==
  ASSUME IInv, UNCHANGED filesVars PROVE IInv'
BY DEF IInv, filesVars, TypesOK, DiskOK, WriteOK, IdentityOK, Placed, Past, dir, Whole, Holds, Distinct

-----------------------------------------------------------------------------
(* The directory as a store.                                               *)

Now == [k \in Keys |-> Read(dir, k)]
May == [k \in Keys |-> {Read(e, k) : e \in Past}]
Same == UNCHANGED <<Now, May, acked>>

LEMMA StoreSees ==
  ASSUME TypesOK, TypesOK'
  PROVE  /\ May = [k \in Keys |-> {Read(dirs[n], k) : n \in DOMAIN dirs}]
         /\ May' = [k \in Keys |-> {Read(dirs[n], k) : n \in DOMAIN dirs}]'
<1>1. ASSUME NEW k \in Keys PROVE {Read(e, k) : e \in Past} = {Read(dirs[n], k) : n \in DOMAIN dirs}
  BY DEF TypesOK, Past
<1>2. ASSUME NEW k \in Keys PROVE ({Read(e, k) : e \in Past} = {Read(dirs[n], k) : n \in DOMAIN dirs})'
  BY DEF TypesOK, Past
<1>. QED BY <1>1, <1>2 DEF May

\* The steps of the store, over Now and May.
LEMMA StoreSteps ==
  ASSUME TypesOK, TypesOK'
  PROVE  /\ Same => UNCHANGED Store!vars
         /\ \A k \in Keys : UNCHANGED <<Now, May>> /\ acked' = [acked EXCEPT ![k] = None] => Store!Next
         /\ \A k \in Keys, b \in Blobs :
              acked[k] = None /\ acked' = acked /\ Now' = [Now EXCEPT ![k] = b]
                /\ May' = [May EXCEPT ![k] = @ \union {b}] => Store!Next
         /\ \A k \in Keys :
              Now[k] # None /\ acked' = [acked EXCEPT ![k] = Now[k]] /\ Now' = Now
                /\ May' = [j \in Keys |-> {Now[j]}] => Store!Next
         /\ acked' = acked /\ Now' \in [Keys -> Blobs \union {None}]
              /\ (\A k \in Keys : Now'[k] \in May[k])
              /\ May' = [k \in Keys |-> {Now'[k]}] => Store!Next
<1>1. /\ May = [k \in Keys |-> {Read(dirs[n], k) : n \in DOMAIN dirs}]
      /\ May' = [k \in Keys |-> {Read(dirs[n], k) : n \in DOMAIN dirs}]'
  BY StoreSees
<1>2. Same => UNCHANGED Store!vars
  BY <1>1 DEF Same, Store!vars, Now
<1>3. \A k \in Keys : UNCHANGED <<Now, May>> /\ acked' = [acked EXCEPT ![k] = None] => Store!Next
  BY <1>1 DEF Store!Next, Store!Begin, Now
<1>4. \A k \in Keys, b \in Blobs :
        acked[k] = None /\ acked' = acked /\ Now' = [Now EXCEPT ![k] = b]
          /\ May' = [May EXCEPT ![k] = @ \union {b}] => Store!Next
  BY <1>1 DEF Store!Next, Store!Replace, Now, Blobs
<1>5. \A k \in Keys :
        Now[k] # None /\ acked' = [acked EXCEPT ![k] = Now[k]] /\ Now' = Now
          /\ May' = [j \in Keys |-> {Now[j]}] => Store!Next
  BY <1>1 DEF Store!Next, Store!Accept, Now
<1>6. acked' = acked /\ Now' \in [Keys -> Blobs \union {None}]
        /\ (\A k \in Keys : Now'[k] \in May[k])
        /\ May' = [k \in Keys |-> {Now'[k]}] => Store!Next
  BY <1>1 DEF Store!Next, Store!PowerCut, Now, Blobs
<1>. QED BY <1>2, <1>3, <1>4, <1>5, <1>6

LEMMA StoreInit ==
  ASSUME DiskAssumption, FilesInit PROVE Store!Init
<1>1. PICK e : e = Empty
  OBVIOUS
<1>2. \A k \in Keys : e[k] = None
  BY <1>1, NamesDiffer DEF Empty
<1>3. dirs = <<e>> /\ dir = e /\ DOMAIN dirs = {1} /\ dirs[1] = e
  BY <1>1 DEF FilesInit, dir
<1>4. \A k \in Keys : Read(dir, k) = None /\ {Read(dirs[n], k) : n \in DOMAIN dirs} = {None}
  BY <1>2, <1>3 DEF Read
<1>. QED BY <1>4 DEF FilesInit, Store!Init

\* What leaves the keys alone is not seen.
LEMMA StoreUndisturbed ==
  ASSUME TypesOK, NEW d, Undisturbed(d) PROVE UNCHANGED <<Now, May>>
<1>1. dir \in Past
  BY DirIsPast
<1>2. ASSUME NEW e \in Past, NEW k \in Keys PROVE Read(e, k)' = Read(e, k)
  BY DEF Undisturbed, Read
<1>3. ASSUME NEW k \in Keys PROVE Read(dir, k)' = Read(dir, k)
  BY <1>1 DEF Undisturbed, Read
<1>4. ASSUME NEW k \in Keys PROVE Read(d, k)' = Read(dir, k)
  BY <1>1, <1>3 DEF Undisturbed, Read
<1>5. ASSUME NEW k \in Keys PROVE {Read(e, k) : e \in Past}' = {Read(e, k) : e \in Past}
  BY <1>1, <1>2, <1>4 DEF Undisturbed
<1>. QED BY <1>3, <1>5 DEF Now, May

LEMMA StoreStep ==
  ASSUME DiskAssumption, IInv, IInv', [FilesNext]_filesVars
  PROVE  Store!Next \/ UNCHANGED Store!vars
<1>. USE DEF IInv
<1>1. ASSUME dirs' = dirs, inode' = inode, acked' = acked PROVE UNCHANGED Store!vars
  BY <1>1 DEF Store!vars, Read, dir
<1>2. CASE Launch \/ LoadKeypair \/ Started \/ Listen \/ Kill \/ UNCHANGED filesVars
  BY <1>1, <1>2 DEF Launch, LoadKeypair, Started, Listen, Kill, Quiet, rest, filesVars
<1>3. CASE OpenTemp
  <2>1. PICK k \in Keys : k = p.key
    BY <1>3 DEF OpenTemp, WriteOK, Writing
  <2>2. acked' = [acked EXCEPT ![k] = None]
    BY <1>3, <2>1 DEF OpenTemp
  <2>3. UNCHANGED <<Now, May>>
    BY <1>3, FilesOpen, StoreUndisturbed
  <2>. QED BY <2>2, <2>3, StoreSteps
<1>4. CASE WriteTemp \/ SyncTemp \/ Unlink
  <2>1. acked' = acked
    BY <1>4 DEF WriteTemp, SyncTemp, Unlink
  <2>2. UNCHANGED <<Now, May>>
    BY <1>4, FilesWrite, FilesUnlink, StoreUndisturbed
  <2>. QED BY <2>1, <2>2, StoreSteps DEF Same
<1>5. CASE Rename
  <2>1. PICK k \in Keys : k = p.key
    BY <1>5 DEF Rename, WriteOK, Writing
  <2>2. PICK t \in Temps : t = Temp[k]
    BY NamesDiffer
  <2>3. CASE UNCHANGED <<dirs, inode>>
    BY <1>1, <1>5, <2>3 DEF Rename
  <2>4. CASE Moves([dir EXCEPT ![p.key] = dir[Temp[p.key]], ![Temp[p.key]] = None]) /\ inode' = inode
    <3>1. PICK d : d = [dir EXCEPT ![k] = dir[t], ![t] = None]
      OBVIOUS
    <3>2. dir \in Past /\ dir \in Dirs /\ t \in Names /\ k \in Names /\ t \notin Keys /\ Keys \subseteq Names
      BY <2>2, DirIsPast, NamesDiffer
    <3>3. d \in Dirs /\ d[k] = dir[t] /\ \A key \in Keys : key # k => d[key] = dir[key]
      BY <3>1, <3>2 DEF Dirs
    <3>4. dir' = d /\ Past' = Past \union {d}
      BY <2>1, <2>2, <2>4, <3>1, <3>3, MovesWell
    <3>5. /\ dir[t] # None /\ inode[dir[t]].blob = p.blob /\ p.blob \in Blobs
          /\ acked[k] = None /\ acked' = acked
      BY <1>5, <2>1, <2>2 DEF Rename, WriteOK, Writing
    <3>6. PICK b \in Blobs : b = p.blob
      BY <3>5
    <3>7. \A e, key : Read(e, key)' = IF e[key] = None THEN None ELSE inode[e[key]].blob
      BY <2>4 DEF Read
    <3>8. \A key \in Keys : Read(dir, key)' = IF key = k THEN b ELSE Read(dir, key)
      BY <2>4, <3>3, <3>4, <3>5, <3>6 DEF Read
    <3>9. ASSUME NEW key \in Keys
          PROVE  {Read(e, key) : e \in Past}' =
                   IF key = k THEN {Read(e, key) : e \in Past} \union {b} ELSE {Read(e, key) : e \in Past}
      <4>1. {Read(e, key) : e \in Past}' = {Read(e, key) : e \in Past} \union {Read(d, key)}
        BY <2>4, <3>4 DEF Read
      <4>2. Read(d, key) = IF key = k THEN b ELSE Read(dir, key)
        BY <3>3, <3>5, <3>6 DEF Read
      <4>. QED BY <3>2, <4>1, <4>2
    <3>10. Now' = [Now EXCEPT ![k] = b]
      BY <3>8 DEF Now
    <3>11. May' = [May EXCEPT ![k] = @ \union {b}]
      BY <3>9 DEF May
    <3>. QED BY <3>5, <3>10, <3>11, StoreSteps
  <2>. QED BY <1>5, <2>3, <2>4 DEF Rename
<1>6. CASE SyncDir
  <2>1. PICK k \in Keys : k = p.key
    BY <1>6 DEF SyncDir, WriteOK, Writing
  <2>2. CASE UNCHANGED <<dirs, acked>>
    BY <1>1, <1>6, <2>2 DEF SyncDir
  <2>3. CASE dirs' = <<dir>> /\ acked' = [acked EXCEPT ![p.key] = p.blob]
    <3>1. PICK d : d = dir
      OBVIOUS
    <3>2. d \in Past /\ dirs' = <<d>> /\ inode' = inode
      BY <1>6, <2>3, <3>1, DirIsPast DEF SyncDir
    <3>3. dir' = dir /\ Past' = {dir}
      BY <3>1, <3>2, DirsCut
    <3>4. p.blob \in Blobs /\ Read(dir, k) = p.blob
      BY <1>6, <2>1 DEF SyncDir, WriteOK, Writing, Holds, Read
    <3>5. Now' = Now /\ May' = [j \in Keys |-> {Now[j]}] /\ Now[k] = p.blob
      BY <3>2, <3>3, <3>4 DEF Now, May, Read
    <3>6. Now[k] # None
      BY <3>4, <3>5, BlobsAre
    <3>. QED BY <2>1, <2>3, <3>5, <3>6, StoreSteps
  <2>. QED BY <1>6, <2>2, <2>3 DEF SyncDir
<1>7. CASE PowerCut
  <2>1. PICK n \in DOMAIN dirs : dirs' = <<dirs[n]>>
    BY <1>7 DEF PowerCut
  <2>2. PICK e : e = dirs[n]
    OBVIOUS
  <2>3. e \in Past /\ dirs' = <<e>>
    BY <2>1, <2>2 DEF Past, TypesOK
  <2>4. dir' = e /\ Past' = {e} /\ e \in Dirs
    BY <2>3, DirsCut, DirIsPast
  <2>5. PICK torn \in SUBSET {i \in Held \ {None} : ~inode[i].synced} :
          inode' = [i \in Inodes |-> [blob |-> IF i \in torn THEN Torn ELSE inode[i].blob, synced |-> TRUE]]
    BY <1>7 DEF PowerCut
  <2>6. ASSUME NEW key \in Keys
        PROVE  Read(e, key)' = Read(e, key) /\ Read(e, key) \in Blobs \union {None}
    <3>1. CASE e[key] = None
      BY <3>1 DEF Read
    <3>2. CASE e[key] # None
      <4>1. e[key] \in Inodes
        BY <2>4, <3>2, NamesDiffer DEF Dirs
      <4>2. inode[e[key]].synced = TRUE /\ inode[e[key]].blob # Torn
        BY <2>3, <3>2 DEF DiskOK, Whole
      <4>3. e[key] \notin torn
        BY <4>2
      <4>4. inode'[e[key]].blob = inode[e[key]].blob
        BY <2>5, <4>1, <4>3
      <4>5. inode[e[key]].blob \in Blobs
        BY <4>1, <4>2 DEF TypesOK, Contents
      <4>. QED BY <3>2, <4>4, <4>5 DEF Read
    <3>. QED BY <3>1, <3>2
  <2>7. \A key \in Keys : Now'[key] = Read(e, key)
    BY <2>4, <2>6 DEF Now, Read
  <2>8. Now' \in [Keys -> Blobs \union {None}]
    <3>1. Now' = [key \in Keys |-> Now'[key]]
      BY DEF Now
    <3>. QED BY <2>6, <2>7, <3>1
  <2>9. \A key \in Keys : Now'[key] \in May[key]
    BY <2>3, <2>7 DEF May
  <2>10. May' = [key \in Keys |-> {Now'[key]}]
    BY <2>4, <2>6, <2>7 DEF May, Read
  <2>11. acked' = acked
    BY <1>7 DEF PowerCut
  <2>. QED BY <2>8, <2>9, <2>10, <2>11, StoreSteps
<1>. QED BY <1>2, <1>3, <1>4, <1>5, <1>6, <1>7 DEF FilesNext

-----------------------------------------------------------------------------
LEMMA FilesImply ==
  ASSUME IInv PROVE IdentityIsKept
<1>. USE DEF IInv
<1>1. DOMAIN dirs = 1 .. Len(dirs) /\ \A n \in DOMAIN dirs : dirs[n] \in Past
  BY DEF TypesOK, Past
<1>2. ASSUME NEW key \in Keys, NEW s \in Survives(key)
      PROVE  \E e \in Past : e[key] # None /\ s = inode[e[key]]
  BY <1>1 DEF Survives
<1>3. ASSUME NEW key \in Keys, NEW s \in Survives(key) PROVE s.synced /\ s.blob # Torn
  <2>1. PICK e \in Past : e[key] # None /\ s = inode[e[key]]
    BY <1>2
  <2>2. s.synced = TRUE /\ s.blob # Torn
    BY <2>1 DEF DiskOK, Whole
  <2>. QED BY <2>2
<1>4. ASSUME NEW key \in Keys, acked[key] # None, NEW s \in Survives(key) PROVE s.blob = acked[key]
  <2>1. PICK e \in Past : e[key] # None /\ s = inode[e[key]]
    BY <1>2
  <2>. QED BY <1>4, <2>1 DEF DiskOK, Holds
<1>5. ASSUME NEW key \in Keys, acked[key] # None, NEW n \in DOMAIN dirs PROVE dirs[n][key] # None
  BY <1>1, <1>5 DEF DiskOK, Holds
<1>6. SavedSurvives
  BY <1>3, <1>4, <1>5 DEF SavedSurvives
<1>7. ASSUME adv # None, NEW i \in known PROVE i = adv
  <2>1. adv = p.id /\ Holds(dir, "keypair", p.id) /\ dir \in Past
    BY <1>7, DirIsPast DEF IdentityOK, Placed
  <2>. QED BY <2>1 DEF IdentityOK, Holds
<1>8. OneIdentity
  BY <1>7 DEF OneIdentity
<1>. QED BY <1>6, <1>8 DEF IdentityIsKept

LEMMA FilesStep ==
  ASSUME DiskAssumption, IInv, [FilesNext]_filesVars PROVE IInv'
BY FilesLaunch, FilesLoad, FilesOpen, FilesWrite, FilesRename, FilesUnlink, FilesSyncDir,
   FilesStarted, FilesListen, FilesKill, FilesPowerCut, FilesStutter DEF FilesNext

\* At any moment a power cut leaves every key whole, and one whose write was
\* accepted as it was written; every launch that advertises a client_id
\* advertises the one that servers know.
THEOREM IdentitySurvives ==
  ASSUME DiskAssumption
  PROVE  FilesSpec => []IdentityIsKept
<1>1. FilesInit => IInv
  BY FilesBegin
<1>2. IInv /\ [FilesNext]_filesVars => IInv'
  BY FilesStep
<1>3. IInv => IdentityIsKept
  BY FilesImply
<1>. QED BY <1>1, <1>2, <1>3, PTL DEF FilesSpec

\* The state directory implements the store that its header promises: a write
\* takes effect at once, and an accepted one stays.
THEOREM StoreIsImplemented ==
  ASSUME DiskAssumption
  PROVE  FilesSpec => StoreIsAtomic
<1>1. FilesInit => IInv /\ Store!Init
  BY FilesBegin, StoreInit
<1>2. IInv /\ [FilesNext]_filesVars => IInv' /\ [Store!Next]_(Store!vars)
  BY FilesStep, StoreStep
<1>. QED BY <1>1, <1>2, PTL DEF FilesSpec, StoreIsAtomic, Store!Spec

-----------------------------------------------------------------------------
(* PlayerMain.                                                             *)
Mains == [pc : {"args", "setup", "start", "identity", "initial", "top", "loop", "lines", "stop", "off"},
          running : BOOLEAN, listening : BOOLEAN, was : BOOLEAN, since : 0 .. Interval, code : {-1, 0, 1}]
Libraries == [started : BOOLEAN, bound : BOOLEAN, connected : BOOLEAN, volume : -1 .. 100,
              muted : BOOLEAN, state : [States -> Texts], writing : BOOLEAN]
Sinks == [volume : -1 .. 100, muted : BOOLEAN, external : BOOLEAN, tap : BOOLEAN]
Stdins == [pipe : Seq(Lines), open : BOOLEAN, lines : Seq(Lines), eof : BOOLEAN, done : Nat]
Events == [volume : -1 .. 100, muted : BOOLEAN, external : BOOLEAN, tap : BOOLEAN,
           listening : BOOLEAN, connected : BOOLEAN, started : BOOLEAN, shutdown : BOOLEAN,
           state : [States -> Texts]]

MainStateOK ==
  /\ opts \in Launches /\ loop \in Mains /\ lib \in Libraries /\ sink \in Sinks
  /\ stdin \in Stdins /\ said \in Events /\ count \in [lines : Nat, server : Nat]

\* Where the launch is says what was started and said, and with what code it
\* can end.
LaunchOK ==
  /\ loop.pc \notin {"args", "off"} => opts.volume \in 0 .. 100
  /\ loop.pc \in {"args", "setup", "start", "identity", "initial"} => ~said.listening
  /\ loop.pc \in {"args", "setup", "start"} => ~lib.started
  /\ loop.pc \notin {"stop", "off"} => loop.code = -1
  /\ loop.pc = "stop" => loop.code \in {-1, 1} /\ (loop.code = 1 => ~said.listening)
  /\ loop.pc # "off" => ~said.shutdown
  /\ lib.writing => lib.started
  /\ loop.pc = "off" => /\ ~lib.started /\ (said.shutdown <=> loop.code = 0)
                        /\ said.listening => loop.code = 0

\* Every line written is in the pipe, waits in the round or is dispatched;
\* behind the end of stdin there is none in the pipe.
StdinOK ==
  /\ stdin.done + Len(stdin.lines) + Len(stdin.pipe) = count.lines
  /\ loop.pc # "lines" => stdin.lines = << >>
  /\ stdin.eof => stdin.pipe = << >> /\ ~stdin.open

MainInv == MainStateOK /\ LaunchOK /\ StdinOK /\ SaidIsTrue

LEMMA MainTypes ==
  ASSUME MainStateOK PROVE MainTypeOK
BY DEF MainStateOK, MainTypeOK, Mains, Libraries, Sinks

LEMMA MainImplies ==
  ASSUME MainInv PROVE EventsAreTrue
<1>1. EndIsClean
  <2>1. ASSUME loop.pc = "off", stdin.eof PROVE stdin.done = count.lines
    <3>1. stdin.lines = << >> /\ stdin.pipe = << >>
      BY <2>1 DEF MainInv, StdinOK
    <3>2. stdin.done \in Nat /\ stdin.done + Len(<< >>) + Len(<< >>) = count.lines
      BY <3>1 DEF MainInv, StdinOK, MainStateOK, Stdins
    <3>. QED BY <3>2
  <2>2. ASSUME loop.pc = "off"
        PROVE  /\ ~lib.started /\ ~lib.writing /\ (said.shutdown <=> loop.code = 0)
               /\ said.listening => loop.code = 0
    BY <2>2 DEF MainInv, LaunchOK
  <2>3. said.shutdown \in BOOLEAN
    BY DEF MainInv, MainStateOK, Events
  <2>4. loop.pc = "off" => said.shutdown = (loop.code = 0)
    BY Zenon, <2>2, <2>3
  <2>. QED BY <2>1, <2>2, <2>4 DEF EndIsClean
<1>. QED BY <1>1, MainTypes DEF MainInv, EventsAreTrue

LEMMA MainBegins ==
  ASSUME LaunchAssumption, MainInit PROVE MainInv
<1>1. /\ loop \in Mains /\ sink \in Sinks
  BY DEF MainInit, LaunchAssumption, Mains, Sinks
<1>2. [s \in States |-> "none"] \in [States -> Texts]
  BY DEF LaunchAssumption
<1>3. lib \in Libraries /\ said \in Events
  BY <1>2 DEF MainInit, Libraries, Events
<1>4. stdin \in Stdins /\ count \in [lines : Nat, server : Nat] /\ opts \in Launches
  BY DEF MainInit, Stdins
<1>5. LaunchOK
  BY DEF MainInit, LaunchOK
<1>6. StdinOK
  BY DEF MainInit, StdinOK
<1>7. -1 \in AskedVolumes
  BY DEF AskedVolumes
<1>8. SaidIsTrue
  BY <1>7 DEF MainInit, SaidIsTrue
<1>. QED BY <1>1, <1>3, <1>4, <1>5, <1>6, <1>8 DEF MainInv, MainStateOK

LEMMA AskedStay ==
  ASSUME opts' = opts PROVE AskedVolumes' = AskedVolumes
BY DEF AskedVolumes, Volumes, Clamped

\* A step of the main thread that tells nothing and changes nothing it told.
LEMMA NothingSaid ==
  ASSUME MainInv, UNCHANGED <<opts, lib, sink, said>>, loop'.was = loop.was,
         MainStateOK', LaunchOK', StdinOK'
  PROVE  MainInv'
<1>1. AskedVolumes' = AskedVolumes
  BY AskedStay
<1>. QED BY <1>1 DEF MainInv, SaidIsTrue

LEMMA AcceptedVolume ==
  ASSUME NEW o, Accepted(o) PROVE o.volume \in 0 .. 100
BY DEF Accepted

LEMMA MainParses ==
  ASSUME MainInv, ParseArgs PROVE MainInv'
<1>. USE DEF MainInv, ParseArgs
<1>1. loop' \in Mains /\ loop'.was = loop.was /\ loop'.pc \in {"setup", "off"}
      /\ (loop'.pc = "setup" => Accepted(opts) /\ loop'.code = -1) /\ (loop'.pc = "off" => loop'.code = 1)
  <2>1. \/ Accepted(opts) /\ loop' = [loop EXCEPT !.pc = "setup"]
        \/ loop' = [loop EXCEPT !.pc = "off", !.code = 1]
    BY DEF To, Exits
  <2>. QED BY <2>1 DEF MainStateOK, LaunchOK, Mains
<1>2. MainStateOK' /\ StdinOK'
  BY <1>1 DEF MainStateOK, StdinOK
<1>3. LaunchOK'
  BY <1>1, AcceptedVolume DEF LaunchOK
<1>. QED BY <1>1, <1>2, <1>3, NothingSaid

LEMMA MainSetsUp ==
  ASSUME MainInv, SetUp PROVE MainInv'
<1>. USE DEF MainInv, SetUp
<1>1. loop' \in Mains /\ loop'.was = loop.was /\ loop'.pc \in {"start", "off"}
      /\ (loop'.pc = "start" => loop'.code = -1) /\ (loop'.pc = "off" => loop'.code = 1)
  BY DEF MainStateOK, LaunchOK, Mains, To, Exits
<1>2. /\ said' \in Events /\ UNCHANGED <<opts, lib, sink, stdin, count>>
      /\ said' = [said EXCEPT !.started = said'.started]
  BY DEF MainStateOK, Events
<1>3. MainStateOK' /\ StdinOK'
  BY <1>1, <1>2 DEF MainStateOK, StdinOK
<1>4. LaunchOK'
  BY <1>1, <1>2 DEF MainStateOK, LaunchOK, Events
<1>5. AskedVolumes' = AskedVolumes
  BY <1>2, AskedStay
<1>6. SaidIsTrue'
  BY <1>1, <1>2, <1>5 DEF SaidIsTrue, MainStateOK, Events
<1>. QED BY <1>3, <1>4, <1>6

LEMMA MainClientStarts ==
  ASSUME MainInv, Start PROVE MainInv'
<1>. USE DEF MainInv, Start
<1>1. loop' \in Mains /\ loop'.was = loop.was /\ loop'.pc \in {"identity", "off"}
      /\ (loop'.pc = "identity" => loop'.code = -1) /\ (loop'.pc = "off" => loop'.code = 1 /\ lib' = lib)
  BY ZenonT(60) DEF MainStateOK, LaunchOK, Mains, To, Exits
<1>2. /\ lib' \in Libraries /\ UNCHANGED <<opts, said, sink, stdin, count>>
      /\ lib' = [lib EXCEPT !.started = lib'.started]
  BY DEF MainStateOK, Libraries
<1>3. MainStateOK' /\ StdinOK'
  BY <1>1, <1>2 DEF MainStateOK, StdinOK
<1>4. LaunchOK'
  BY <1>1, <1>2 DEF MainStateOK, LaunchOK, Libraries, Events
<1>5. AskedVolumes' = AskedVolumes
  BY <1>2, AskedStay
<1>6. SaidIsTrue'
  BY <1>1, <1>2, <1>5 DEF SaidIsTrue, MainStateOK, Libraries
<1>. QED BY <1>3, <1>4, <1>6

LEMMA MainGoesOn ==
  ASSUME MainInv, Identity \/ Top PROVE MainInv'
<1>. USE DEF MainInv, Identity, Top
<1>1. loop' \in Mains /\ loop'.was = loop.was /\ UNCHANGED <<opts, lib, sink, stdin, said, count>>
      /\ \/ loop.pc = "identity" /\ loop'.pc = "initial" /\ loop'.code = -1
         \/ loop.pc = "identity" /\ loop'.pc = "stop" /\ loop'.code = 1
         \/ loop.pc = "top" /\ loop'.pc \in {"loop", "stop"} /\ loop'.code = -1
  BY ZenonT(60) DEF MainStateOK, LaunchOK, Mains, To
<1>2. MainStateOK' /\ StdinOK'
  BY <1>1 DEF MainStateOK, StdinOK
<1>3. LaunchOK'
  BY <1>1 DEF LaunchOK
<1>. QED BY <1>1, <1>2, <1>3, NothingSaid

LEMMA MainSetsInitial ==
  ASSUME LaunchAssumption, MainInv, InitialState PROVE MainInv'
<1>. USE DEF MainInv, InitialState
<1>1. loop' \in Mains /\ loop'.was = loop.was /\ loop'.pc = "top" /\ loop'.code = -1
      /\ UNCHANGED <<opts, stdin, count>>
  BY DEF MainStateOK, LaunchOK, Mains, To
<1>2. opts.volume \in -1 .. 100 /\ opts.external \in BOOLEAN
  <2>1. opts.volume \in 0 .. 100
    BY DEF LaunchOK
  <2>2. opts \in Launches
    BY DEF MainStateOK
  <2>. QED BY <2>1, <2>2 DEF LaunchAssumption
<1>3. /\ lib' \in Libraries /\ lib' = [lib EXCEPT !.volume = opts.volume]
      /\ sink' \in Sinks /\ sink' = [sink EXCEPT !.volume = opts.volume, !.external = opts.external]
      /\ said' \in Events /\ said' = [said EXCEPT !.volume = opts.volume, !.external = opts.external]
  BY <1>2 DEF MainStateOK, Libraries, Sinks, Events
<1>4. MainStateOK' /\ StdinOK'
  BY <1>1, <1>3 DEF MainStateOK, StdinOK
<1>5. LaunchOK'
  BY <1>1, <1>3 DEF MainStateOK, LaunchOK, Libraries, Events
<1>6. AskedVolumes' = AskedVolumes /\ opts.volume \in AskedVolumes
  BY <1>1, AskedStay DEF AskedVolumes
<1>7. SaidIsTrue'
  <2>1. /\ lib'.volume = opts.volume /\ lib'.muted = lib.muted /\ lib'.state = lib.state
        /\ lib'.bound = lib.bound
        /\ sink'.volume = opts.volume /\ sink'.muted = sink.muted /\ sink'.tap = sink.tap
        /\ sink'.external = opts.external
    BY <1>3 DEF MainStateOK, Libraries, Sinks
  <2>2. /\ said'.volume = opts.volume /\ said'.external = opts.external /\ said'.muted = said.muted
        /\ said'.tap = said.tap /\ said'.state = said.state /\ said'.listening = said.listening
        /\ said'.connected = said.connected
    BY <1>3 DEF MainStateOK, Events
  <2>. QED BY <1>1, <1>6, <2>1, <2>2 DEF SaidIsTrue
<1>. QED BY <1>4, <1>5, <1>7

\* A step outside of the main thread, or a command, that leaves where it is.
LEMMA MainStays ==
  ASSUME MainInv, UNCHANGED <<opts, stdin>>, loop'.pc = loop.pc, loop'.code = loop.code,
         loop'.was = loop.was, MainStateOK', SaidIsTrue', count'.lines = count.lines,
         UNCHANGED <<said.listening, said.shutdown, lib.started>>,
         lib'.writing => lib.started
  PROVE  MainInv'
BY DEF MainInv, LaunchOK, StdinOK

LEMMA MainServed ==
  ASSUME MainInv, Binds \/ Connection \/ AudioWrite PROVE MainInv'
<1>. USE DEF MainInv
<1>1. /\ UNCHANGED <<opts, loop, stdin, sink, said>> /\ lib' \in Libraries
      /\ lib' = [lib EXCEPT !.bound = lib'.bound, !.connected = lib'.connected, !.writing = lib'.writing]
      /\ lib'.writing => lib.started
      /\ lib.bound => lib'.bound
  BY ZenonT(60) DEF Binds, InLoop, Connection, AudioWrite, MainStateOK, Libraries, LaunchOK
<1>2. count' \in [lines : Nat, server : Nat] /\ count'.lines = count.lines
  BY DEF Binds, Connection, AudioWrite, Server, MainStateOK
<1>3. AskedVolumes' = AskedVolumes
  BY <1>1, AskedStay
<1>4. MainStateOK' /\ SaidIsTrue'
  BY <1>1, <1>2, <1>3 DEF MainStateOK, SaidIsTrue, Libraries
<1>. QED BY <1>1, <1>2, <1>4, MainStays DEF MainStateOK, Libraries

LEMMA MainHearsVolume ==
  ASSUME MainInv, NEW v \in {20, 100}, NEW m \in BOOLEAN, ServerVolume(v, m) PROVE MainInv'
<1>. USE DEF MainInv, ServerVolume
<1>1. /\ UNCHANGED <<opts, loop, stdin>> /\ v \in -1 .. 100
      /\ count' \in [lines : Nat, server : Nat] /\ count'.lines = count.lines
  BY DEF InLoop, Server, MainStateOK
<1>2. /\ lib' \in Libraries /\ lib'.volume = v /\ lib'.muted = m /\ lib'.state = lib.state
      /\ lib'.bound = lib.bound /\ lib'.started = lib.started /\ lib'.writing = lib.writing
      /\ sink' \in Sinks /\ sink'.volume = v /\ sink'.muted = m /\ sink'.tap = sink.tap
      /\ sink'.external = sink.external
  BY <1>1 DEF MainStateOK, Libraries, Sinks
<1>3. /\ said' \in Events /\ said'.volume = v /\ said'.muted = m /\ said'.external = said.external
      /\ said'.tap = said.tap /\ said'.state = said.state /\ said'.listening = said.listening
      /\ said'.connected = said.connected /\ said'.shutdown = said.shutdown
  BY <1>1 DEF MainStateOK, Events
<1>4. AskedVolumes' = AskedVolumes /\ v \in AskedVolumes
  BY <1>1, AskedStay DEF AskedVolumes
<1>5. MainStateOK' /\ SaidIsTrue'
  BY <1>1, <1>2, <1>3, <1>4 DEF MainStateOK, SaidIsTrue
<1>. QED BY <1>1, <1>2, <1>3, <1>5, MainStays DEF LaunchOK

LEMMA MainHearsState ==
  ASSUME MainInv, NEW s \in States, NEW text \in Texts, ServerState(s, text) PROVE MainInv'
<1>. USE DEF MainInv, ServerState
<1>1. /\ UNCHANGED <<opts, loop, stdin, sink>>
      /\ count' \in [lines : Nat, server : Nat] /\ count'.lines = count.lines
  BY DEF InLoop, Server, MainStateOK
<1>2. /\ lib' \in Libraries /\ lib'.volume = lib.volume /\ lib'.muted = lib.muted
      /\ lib'.state = [lib.state EXCEPT ![s] = text]
      /\ lib'.bound = lib.bound /\ lib'.started = lib.started /\ lib'.writing = lib.writing
  BY DEF MainStateOK, Libraries
<1>3. /\ said' \in Events /\ said'.volume = said.volume /\ said'.muted = said.muted
      /\ said'.external = said.external /\ said'.tap = said.tap /\ said'.listening = said.listening
      /\ said'.connected = said.connected /\ said'.shutdown = said.shutdown
      /\ opts.display => said'.state = [said.state EXCEPT ![s] = text]
  BY DEF MainStateOK, Events
<1>4. AskedVolumes' = AskedVolumes
  BY <1>1, AskedStay
<1>5. MainStateOK'
  BY <1>1, <1>2, <1>3 DEF MainStateOK
<1>6. ASSUME opts.display PROVE said'.state = lib'.state
  <2>1. said.state = lib.state /\ said'.state = [said.state EXCEPT ![s] = text]
    BY <1>3, <1>6 DEF SaidIsTrue
  <2>. QED BY <1>2, <2>1
<1>7. SaidIsTrue'
  BY <1>1, <1>2, <1>3, <1>4, <1>6 DEF SaidIsTrue
<1>. QED BY <1>1, <1>2, <1>3, <1>5, <1>7, MainStays DEF LaunchOK

LEMMA MainIsWritten ==
  ASSUME MainInv, (\E line \in Lines : BeamWrites(line)) \/ BeamCloses \/ Signal PROVE MainInv'
<1>. USE DEF MainInv
<1>1. /\ UNCHANGED <<opts, lib, sink, said>> /\ loop' \in Mains
      /\ loop' = [loop EXCEPT !.running = loop'.running]
  BY DEF BeamWrites, BeamCloses, Signal, MainStateOK, Mains
<1>2. CASE UNCHANGED count /\ stdin' = [stdin EXCEPT !.open = stdin'.open] /\ stdin' \in Stdins
           /\ (stdin.eof => stdin'.open = stdin.open)
  BY ZenonT(60), <1>1, <1>2, NothingSaid DEF MainStateOK, Mains, Stdins, LaunchOK, StdinOK
<1>3. ASSUME NEW line \in Lines, BeamWrites(line) PROVE MainInv'
  <2>1. /\ stdin'.pipe = Append(stdin.pipe, line) /\ stdin'.lines = stdin.lines
        /\ stdin'.eof = stdin.eof /\ stdin'.done = stdin.done /\ stdin' \in Stdins /\ loop' = loop
        /\ stdin.open /\ stdin'.open = stdin.open
    <3>1. Append(stdin.pipe, line) \in Seq(Lines)
      BY DEF MainStateOK, Stdins
    <3>2. stdin.open /\ loop' = loop /\ stdin' = [stdin EXCEPT !.pipe = Append(stdin.pipe, line)]
      BY <1>3 DEF BeamWrites
    <3>. QED BY <3>1, <3>2 DEF MainStateOK, Stdins
  <2>2. count' \in [lines : Nat, server : Nat] /\ count'.lines = count.lines + 1
    BY <1>3 DEF BeamWrites, MainStateOK
  <2>3. stdin.pipe \in Seq(Lines) /\ stdin.lines \in Seq(Lines) /\ stdin.done \in Nat
    BY DEF MainStateOK, Stdins
  <2>4. Len(Append(stdin.pipe, line)) = Len(stdin.pipe) + 1 /\ Len(stdin.pipe) \in Nat
        /\ Len(stdin.lines) \in Nat
    BY <2>3
  <2>5. StdinOK'
    BY <2>1, <2>2, <2>3, <2>4 DEF StdinOK
  <2>6. MainStateOK' /\ LaunchOK'
    BY <1>1, <2>1, <2>2 DEF MainStateOK, LaunchOK
  <2>. QED BY <1>1, <2>1, <2>5, <2>6, NothingSaid
<1>4. CASE BeamCloses
  BY <1>2, <1>4 DEF BeamCloses, MainStateOK, Stdins, StdinOK
<1>5. CASE Signal
  BY <1>2, <1>5 DEF Signal, MainStateOK, Stdins
<1>. QED BY <1>3, <1>4, <1>5

\* What a line can ask for: a whole number, a flag, or nothing.
LEMMA CommandParsed ==
  ASSUME TokenAssumption, NEW line \in Lines
  PROVE  LET c == ParseCommand(line)
         IN /\ c.kind = "int" => c.value \in Int
            /\ c.kind = "bool" => c.value \in BOOLEAN
            /\ c.cmd = "set_volume" /\ c.kind = "int" => line \in Volumes /\ c.value = line[8].of
<1>. DEFINE At(i) == IF i <= Len(line) THEN line[i] ELSE [is |-> "end", of |-> 0]
            valued == At(5) = [is |-> "punct", of |-> ","]
            close == IF valued THEN 9 ELSE 5
            c == ParseCommand(line)
<1>1. CASE c = Bad
  BY <1>1 DEF Bad
<1>2. CASE c # Bad
  <2>1. /\ c = [cmd |-> At(4).of, kind |-> IF valued THEN At(8).is ELSE "",
               value |-> IF valued THEN At(8).of ELSE 0]
        /\ Len(line) = close
    BY <1>2 DEF ParseCommand
  <2>2. valued => Len(line) = 9
    BY <2>1
  <2>3. Len(line) = 9 => At(8) = line[8] /\ At(4) = line[4]
    OBVIOUS
  <2>4. 8 \in 1 .. 9
    OBVIOUS
  <2>. HIDE DEF c, At, valued, close
  <2>5. CASE ~valued
    <3>1. c.kind = ""
      BY <2>1, <2>5
    <3>. QED BY <3>1 DEF c
  <2>6. CASE valued
    <3>1. c.cmd = line[4].of /\ c.kind = line[8].is /\ c.value = line[8].of
      BY <2>1, <2>2, <2>3, <2>6
    <3>2. /\ line[8].is = "int" => line[8].of \in Int
          /\ line[8].is = "bool" => line[8].of \in BOOLEAN
      BY <2>2, <2>4, <2>6 DEF TokenAssumption
    <3>. QED BY <2>2, <2>6, <3>1, <3>2 DEF Volumes, c
  <2>. QED BY <2>5, <2>6
<1>. QED BY <1>1, <1>2

\* A line taken from those that wait.
Taken(s, left) == [s EXCEPT !.lines = left, !.done = s.done + 1]
LEMMA StdinsKept ==
  ASSUME NEW s \in Stdins, NEW left \in Seq(Lines)
  PROVE  /\ Taken(s, left) \in Stdins
         /\ Taken(s, left).lines = left /\ Taken(s, left).done = s.done + 1
         /\ Taken(s, left).pipe = s.pipe /\ Taken(s, left).eof = s.eof
         /\ Taken(s, left).open = s.open
<1>1. PICK n \in Nat : n = s.done + 1
  BY DEF Stdins
<1>2. DEFINE u == [pipe |-> s.pipe, open |-> s.open, lines |-> left, eof |-> s.eof, done |-> n]
<1>3. s = [pipe |-> s.pipe, open |-> s.open, lines |-> s.lines, eof |-> s.eof, done |-> s.done]
  BY DEF Stdins
<1>4. Taken(s, left) = [s EXCEPT !.lines = left, !.done = n]
  BY <1>1 DEF Taken
<1>5. Taken(s, left) = u
  BY <1>3, <1>4
<1>6. u \in Stdins
  BY DEF Stdins
<1>. QED BY <1>1, <1>5, <1>6

LEMMA MainDispatches ==
  ASSUME TokenAssumption, MainInv, DispatchCommand PROVE MainInv'
<1>. USE DEF MainInv
<1>. DEFINE c == ParseCommand(Head(stdin.lines))
<1>1. /\ stdin.lines \in Seq(Lines) /\ stdin.lines # << >> /\ loop.pc = "lines"
      /\ UNCHANGED <<opts, count>>
      /\ stdin' = [stdin EXCEPT !.lines = Tail(stdin.lines), !.done = stdin.done + 1]
  BY DEF DispatchCommand, MainStateOK, Stdins
<1>2. /\ Head(stdin.lines) \in Lines /\ Tail(stdin.lines) \in Seq(Lines)
      /\ Len(Tail(stdin.lines)) = Len(stdin.lines) - 1
  BY <1>1
<1>3. /\ stdin' \in Stdins /\ stdin'.pipe = stdin.pipe /\ stdin'.eof = stdin.eof
      /\ stdin'.open = stdin.open /\ stdin'.lines = Tail(stdin.lines) /\ stdin'.done = stdin.done + 1
  <2>1. stdin \in Stdins /\ Tail(stdin.lines) \in Seq(Lines)
    BY <1>2 DEF MainStateOK
  <2>2. stdin' = Taken(stdin, Tail(stdin.lines))
    BY <1>1 DEF Taken
  <2>. QED BY <2>1, <2>2, StdinsKept
<1>4. StdinOK' \/ loop'.pc # "lines"
  <2>1. Len(stdin.lines) \in Nat /\ Len(stdin.pipe) \in Nat /\ stdin.done \in Nat
    BY DEF MainStateOK, Stdins
  <2>. QED BY <1>1, <1>2, <1>3, <2>1 DEF StdinOK
<1>5. /\ c.kind = "int" => c.value \in Int
      /\ c.kind = "bool" => c.value \in BOOLEAN
      /\ c.cmd = "set_volume" /\ c.kind = "int" => c.value \in Int /\ Clamped(c.value) \in AskedVolumes
  BY <1>2, CommandParsed DEF AskedVolumes
<1>6. \/ SetVolume(c) \/ SetMuted(c) \/ SetVolumeExternal(c) \/ PcmTap(c) \/ ShutdownCommand(c) \/ Dropped(c)
  BY DEF DispatchCommand
<1>. HIDE DEF c
<1>7. AskedVolumes' = AskedVolumes
  BY <1>1, AskedStay
<1>8. CASE ShutdownCommand(c) \/ Dropped(c)
  <2>1. /\ loop' \in Mains /\ loop'.pc = loop.pc /\ loop'.code = loop.code /\ loop'.was = loop.was
        /\ UNCHANGED <<lib, sink, said>>
    BY <1>8 DEF ShutdownCommand, Dropped, MainStateOK, Mains
  <2>2. MainStateOK' /\ LaunchOK' /\ StdinOK'
    BY <1>1, <1>3, <1>4, <2>1 DEF MainStateOK, LaunchOK
  <2>. QED BY <1>1, <2>1, <2>2, NothingSaid
<1>9. CASE SetVolume(c)
  <2>1. Clamped(c.value) \in -1 .. 100 /\ Clamped(c.value) \in AskedVolumes
    BY <1>5, <1>9 DEF SetVolume, Clamped
  <2>2. /\ loop' = loop
        /\ sink' \in Sinks /\ sink' = [sink EXCEPT !.volume = Clamped(c.value)]
        /\ lib' \in Libraries /\ lib' = [lib EXCEPT !.volume = Clamped(c.value)]
        /\ said' \in Events /\ said' = [said EXCEPT !.volume = Clamped(c.value)]
    BY <1>9, <2>1 DEF SetVolume, MainStateOK, Sinks, Libraries, Events
  <2>3. MainStateOK' /\ StdinOK'
    BY <1>1, <1>3, <1>4, <2>2 DEF MainStateOK
  <2>4. LaunchOK'
    BY <1>1, <2>2 DEF MainStateOK, Libraries, Events, LaunchOK
  <2>5. SaidIsTrue'
    BY <1>1, <1>7, <2>1, <2>2 DEF MainStateOK, Libraries, Events, Sinks, SaidIsTrue
  <2>. QED BY <2>3, <2>4, <2>5
<1>10. CASE SetMuted(c)
  <2>1. /\ loop' = loop /\ c.value \in BOOLEAN
        /\ sink' \in Sinks /\ sink' = [sink EXCEPT !.muted = c.value]
        /\ lib' \in Libraries /\ lib' = [lib EXCEPT !.muted = c.value]
        /\ said' \in Events /\ said' = [said EXCEPT !.muted = c.value]
    BY <1>5, <1>10 DEF SetMuted, MainStateOK, Sinks, Libraries, Events
  <2>2. MainStateOK' /\ StdinOK'
    BY <1>1, <1>3, <1>4, <2>1 DEF MainStateOK
  <2>3. LaunchOK'
    BY <1>1, <2>1 DEF MainStateOK, Libraries, Events, LaunchOK
  <2>4. SaidIsTrue'
    BY <1>1, <1>7, <2>1 DEF MainStateOK, Libraries, Events, Sinks, SaidIsTrue
  <2>. QED BY <2>2, <2>3, <2>4
<1>11. CASE SetVolumeExternal(c)
  <2>1. /\ UNCHANGED <<loop, lib>> /\ c.value \in BOOLEAN
        /\ sink' \in Sinks /\ sink' = [sink EXCEPT !.external = c.value]
        /\ said' \in Events /\ said' = [said EXCEPT !.external = c.value]
    BY <1>5, <1>11 DEF SetVolumeExternal, MainStateOK, Sinks, Events
  <2>2. MainStateOK' /\ StdinOK'
    BY <1>1, <1>3, <1>4, <2>1 DEF MainStateOK
  <2>3. LaunchOK'
    BY <1>1, <2>1 DEF MainStateOK, Events, LaunchOK
  <2>4. SaidIsTrue'
    BY <1>1, <1>7, <2>1 DEF MainStateOK, Events, Sinks, SaidIsTrue
  <2>. QED BY <2>2, <2>3, <2>4
<1>12. CASE PcmTap(c)
  <2>1. PICK opened \in BOOLEAN :
          /\ sink' = [sink EXCEPT !.tap = c.value /\ (sink.tap \/ opened)]
          /\ said' = [said EXCEPT !.tap = c.value /\ (sink.tap \/ opened)]
    BY <1>12 DEF PcmTap
  <2>2. (c.value /\ (sink.tap \/ opened)) \in BOOLEAN
    OBVIOUS
  <2>3. PICK on \in BOOLEAN : sink' = [sink EXCEPT !.tap = on] /\ said' = [said EXCEPT !.tap = on]
    BY Zenon, <2>1, <2>2
  <2>4. /\ UNCHANGED <<loop, lib>> /\ sink' \in Sinks /\ said' \in Events
    BY <1>12, <2>3 DEF PcmTap, MainStateOK, Sinks, Events
  <2>5. MainStateOK' /\ StdinOK'
    BY <1>1, <1>3, <1>4, <2>4 DEF MainStateOK
  <2>6. LaunchOK'
    BY <1>1, <2>3, <2>4 DEF MainStateOK, Events, LaunchOK
  <2>7. SaidIsTrue'
    BY <1>1, <1>7, <2>3, <2>4 DEF MainStateOK, Events, Sinks, SaidIsTrue
  <2>. QED BY <2>5, <2>6, <2>7
<1>. QED BY <1>6, <1>8, <1>9, <1>10, <1>11, <1>12

LEMMA MainPolls ==
  ASSUME MainInv, PollLines PROVE MainInv'
<1>. USE DEF MainInv, PollLines
<1>1. /\ UNCHANGED <<opts, lib, sink, count>> /\ loop' \in Mains /\ loop.pc = "loop"
      /\ loop' = [loop EXCEPT !.pc = "lines"] /\ loop'.pc = "lines" /\ loop'.code = loop.code
      /\ loop'.was = loop.was
  BY DEF To, MainStateOK, Mains
<1>2. /\ stdin.pipe \in Seq(Lines) /\ stdin.lines = << >> /\ stdin.done \in Nat
      /\ stdin.done + Len(stdin.pipe) = count.lines
  <2>1. stdin.pipe \in Seq(Lines) /\ stdin.lines = << >> /\ stdin.done \in Nat
        /\ stdin.done + Len(stdin.lines) + Len(stdin.pipe) = count.lines
    BY <1>1 DEF MainStateOK, Stdins, StdinOK
  <2>2. Len(stdin.lines) = 0 /\ Len(stdin.pipe) \in Nat
    BY <2>1
  <2>. QED BY <2>1, <2>2
<1>3. stdin.lines \o stdin.pipe = stdin.pipe
  BY <1>2
<1>4. stdin' = [stdin EXCEPT !.lines = stdin.pipe, !.pipe = << >>, !.eof = ~stdin.open]
  BY <1>3
<1>5. /\ stdin' \in Stdins /\ stdin'.lines = stdin.pipe /\ stdin'.pipe = << >>
      /\ stdin'.open = stdin.open /\ stdin'.done = stdin.done /\ (stdin'.eof => ~stdin.open)
  <2>1. << >> \in Seq(Lines)
    OBVIOUS
  <2>. QED BY <1>2, <1>4, <2>1 DEF MainStateOK, Stdins
<1>6. StdinOK'
  <2>1. Len(stdin'.pipe) = 0 /\ Len(stdin'.lines) = Len(stdin.pipe) /\ Len(stdin.pipe) \in Nat
    BY <1>2, <1>5
  <2>. QED BY <1>1, <1>2, <1>5, <2>1 DEF StdinOK
<1>7. /\ said' \in Events /\ said' = [said EXCEPT !.listening = said'.listening]
      /\ said'.listening => said.listening \/ lib.bound
  BY DEF MainStateOK, Events, Libraries
<1>8. MainStateOK'
  BY <1>1, <1>5, <1>7 DEF MainStateOK
<1>9. LaunchOK'
  BY <1>1, <1>7 DEF MainStateOK, Events, LaunchOK
<1>10. AskedVolumes' = AskedVolumes
  BY <1>1, AskedStay
<1>11. SaidIsTrue'
  BY ZenonT(60), <1>1, <1>7, <1>10 DEF MainStateOK, Events, SaidIsTrue
<1>. QED BY <1>6, <1>8, <1>9, <1>11

LEMMA MainEndsRound ==
  ASSUME LaunchAssumption, MainInv, EndRound PROVE MainInv'
<1>. USE DEF MainInv, EndRound
<1>1. PICK since \in 0 .. Interval, running \in BOOLEAN :
        loop' = [loop EXCEPT !.pc = "top", !.running = running, !.was = lib.connected, !.since = since]
  <2>. DEFINE waited == IF ~lib.connected /\ opts.server /\ loop.since = Interval THEN 0 ELSE loop.since
              after == IF waited < Interval THEN waited + 1 ELSE waited
              on == loop.running /\ ~stdin.eof
  <2>1. loop' = [loop EXCEPT !.pc = "top", !.running = on, !.was = lib.connected, !.since = after]
    OBVIOUS
  <2>2. loop.since \in 0 .. Interval /\ Interval \in Nat
    BY DEF MainStateOK, Mains, LaunchAssumption
  <2>3. waited \in 0 .. Interval
    BY <2>2
  <2>. HIDE DEF waited
  <2>4. after \in 0 .. Interval
    BY <2>2, <2>3
  <2>5. on \in BOOLEAN
    OBVIOUS
  <2>. HIDE DEF after, on
  <2>. QED BY <2>1, <2>4, <2>5
<1>2. /\ loop' \in Mains /\ loop'.pc = "top" /\ loop'.code = loop.code /\ loop.pc = "lines"
      /\ loop'.was = lib.connected /\ UNCHANGED <<opts, lib, sink, stdin, count>> /\ stdin.lines = << >>
  BY <1>1 DEF MainStateOK, Mains, Libraries
<1>3. said' \in Events /\ said' = [said EXCEPT !.connected = lib.connected]
  BY DEF MainStateOK, Events, Libraries
<1>4. MainStateOK' /\ StdinOK'
  BY <1>2, <1>3 DEF MainStateOK, StdinOK
<1>5. LaunchOK'
  BY <1>2, <1>3 DEF MainStateOK, Events, LaunchOK
<1>6. AskedVolumes' = AskedVolumes
  BY <1>2, AskedStay
<1>7. SaidIsTrue'
  BY <1>2, <1>3, <1>6 DEF MainStateOK, Events, SaidIsTrue
<1>. QED BY <1>4, <1>5, <1>7

LEMMA MainStops ==
  ASSUME MainInv, Stop PROVE MainInv'
<1>. USE DEF MainInv, Stop
<1>1. /\ loop' \in Mains /\ loop'.pc = "off" /\ loop.pc = "stop" /\ loop'.was = loop.was
      /\ loop'.code = IF loop.code = 1 THEN 1 ELSE 0
      /\ UNCHANGED <<opts, sink, stdin, count>> /\ ~lib.writing
  BY DEF Exits, MainStateOK, Mains
<1>2. lib' \in Libraries /\ lib' = [lib EXCEPT !.started = FALSE, !.connected = FALSE]
  BY DEF MainStateOK, Libraries
<1>3. PICK clean \in BOOLEAN : said' = [said EXCEPT !.shutdown = clean] /\ (clean <=> loop.code # 1)
  <2>1. said' = [said EXCEPT !.shutdown = loop.code # 1] /\ (loop.code # 1) \in BOOLEAN
    OBVIOUS
  <2>. QED BY Zenon, <2>1
<1>4. said' \in Events
  BY <1>3 DEF MainStateOK, Events
<1>5. MainStateOK' /\ StdinOK'
  BY <1>1, <1>2, <1>4 DEF MainStateOK, StdinOK
<1>6. LaunchOK'
  BY <1>1, <1>2, <1>3 DEF MainStateOK, Libraries, Events, LaunchOK
<1>7. AskedVolumes' = AskedVolumes
  BY <1>1, AskedStay
<1>8. SaidIsTrue'
  BY ZenonT(60), <1>1, <1>2, <1>3, <1>7 DEF MainStateOK, Libraries, Events, SaidIsTrue
<1>. QED BY <1>5, <1>6, <1>8

LEMMA MainStep ==
  ASSUME TokenAssumption, LaunchAssumption, MainInv, [MainNext]_mainVars PROVE MainInv'
<1>1. CASE UNCHANGED mainVars
  <2>1. MainStateOK' /\ LaunchOK' /\ StdinOK'
    BY <1>1 DEF mainVars, MainInv, MainStateOK, LaunchOK, StdinOK
  <2>. QED BY <1>1, <2>1, NothingSaid DEF mainVars
<1>2. CASE MainNext
  BY <1>2, MainParses, MainSetsUp, MainClientStarts, MainGoesOn, MainSetsInitial, MainPolls,
     MainDispatches, MainEndsRound, MainStops, MainServed, MainHearsVolume, MainHearsState,
     MainIsWritten DEF MainNext
<1>. QED BY <1>1, <1>2

\* Whatever the server, the BEAM and signals do, and however the launch
\* fails: what the player said last of volume, mute, tap, gain stage, display
\* and connection is so; when main() returns no thread is inside of a
\* listener, only a launch that did not fail was advertised and says
\* shutdown, and all lines before the end of stdin were dispatched
\* (main.cpp:615, 936 and 975).
THEOREM EventsStayTrue ==
  ASSUME TokenAssumption, LaunchAssumption
  PROVE  MainSpec => []EventsAreTrue
<1>1. MainInit => MainInv
  BY MainBegins
<1>2. MainInv /\ [MainNext]_mainVars => MainInv'
  BY MainStep
<1>3. MainInv => EventsAreTrue
  BY MainImplies
<1>. QED BY <1>1, <1>2, <1>3, PTL DEF MainSpec
====
