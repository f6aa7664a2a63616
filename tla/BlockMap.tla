------------------------------ MODULE BlockMap ------------------------------
(* inode.c's block trees under the file commands of fs.c: what imapblock   *)
(* allocates, what itest and itrunc free, and when the inode that refers   *)
(* to it all reaches the disk.  A command is planned when it begins, from  *)
(* the size and the blocks of the inode it has just read; each step then   *)
(* is one write to the disk server, between any two of which the file      *)
(* server can die.  Commands run under the server's mutex.  File contents  *)
(* are abstracted to `Text'; names and permissions are left out, and so    *)
(* are the blocks of the directories.  Inodes and data blocks are apart    *)
(* here: of the inodes of a disk that holds for those Layout.tla calls     *)
(* Apart only, and what becomes of the others is not modelled.             *)
EXTENDS Integers, SequencesExt

CONSTANTS
    ND,         \* NDIRECT, direct addresses of an inode (9 in the code)
    APB,        \* addresses of an indirect block (128 in the code)
    B,          \* BSIZE, bytes of a block (512 in the code)
    NB,         \* data blocks are 1 .. NB; block 0 is the superblock
    MAXUINT,    \* 2^32 - 1; sizes and positions are unsigned
    Files,      \* the inodes mk can allocate
    MaxSize     \* bound: no command that makes a file longer is entered

None == "none"

ASSUME BlockMapAssumption ==
    /\ ND \in Nat \ {0} /\ APB \in Nat \ {0} /\ B \in Nat \ {0} /\ NB \in Nat
    /\ MAXUINT \in Nat /\ MaxSize \in Nat /\ None \notin Files

(* No position in a file wraps, only the sum of two numbers from a client. *)
ASSUME RangeAssumption == 2 * (ND + APB + APB * APB) * B <= MAXUINT

VARIABLES
    bits,       \* on disk: the blocks marked in the bitmap
    cells,      \* on disk: the addresses a block holds, read as an indirect one
    disk,       \* on disk: the inodes
    names,      \* on disk: the files that have a directory entry
    file,       \* the file the command in progress works on, or None
    ip,         \* in memory: its inode
    todo,       \* what is left of the command
    fresh,      \* allocate_block's block, marked but not yet referred to
    freed,      \* itrunc has freed a block of the inode on disk
    hurt        \* history: what has happened to the disk

vars == <<bits, cells, disk, names, file, ip, todo, fresh, freed, hurt>>

Blocks == 0 .. NB
MAXFILEB == ND + APB + APB * APB

(* A word of file text and a word of the superblock, taken as an address,  *)
(* is a block beyond the end of the disk.                                  *)
Text == NB + 1
Super == NB + 2
Filled(word) == [w \in 0 .. APB - 1 |-> word]

NoInode == [type |-> 0, links |-> 0, size |-> 0, blocks |-> 0,
            addrs |-> [w \in 0 .. ND + 1 |-> 0]]
T_FILE == 2
UShort == 0 .. 65535

(* One thing left to do: "put", "get" or "recycle" the n-th block of the   *)
(* file, "free" the block path n leads to, write the inode with size n and *)
(* m blocks, clear it, or put the file's entry into its directory or take  *)
(* it out.                                                                 *)
Job(k, n, m) == [k |-> k, n |-> n, m |-> m]

Harms == {"recycle", "torn", "full", "hole", "crash"}

TypeOK ==
    /\ bits \subseteq Blocks
    /\ cells \in [Blocks -> [0 .. APB - 1 -> 0 .. Super]]
    /\ disk \in [Files -> [type : {0, T_FILE}, links : UShort,
                           size : 0 .. MaxSize, blocks : 0 .. MAXFILEB,
                           addrs : [0 .. ND + 1 -> Blocks]]]
    /\ names \subseteq {f \in Files : disk[f].type = T_FILE}
    /\ file \in Files \cup {None}
    /\ file = None => ip = NoInode /\ todo = <<>> /\ fresh = {}
    /\ fresh \subseteq Blocks \ {0}
    /\ freed \in BOOLEAN
    /\ hurt \subseteq Harms

Init ==
    /\ bits = {0}
    /\ cells = [b \in Blocks |-> Filled(IF b = 0 THEN Super ELSE 0)]
    /\ disk = [f \in Files |-> NoInode] /\ names = {}
    /\ file = None /\ ip = NoInode /\ todo = <<>>
    /\ fresh = {} /\ freed = FALSE /\ hurt = {}

-----------------------------------------------------------------------------
(* The tree of an inode.  A path is the slot of addrs, then the word of    *)
(* each indirect block on the way.                                         *)
Path(bno) ==
    IF bno < ND THEN <<bno>>
    ELSE IF bno < ND + APB THEN <<ND, bno - ND>>
    ELSE <<ND + 1, (bno - ND - APB) \div APB, (bno - ND - APB) % APB>>

Follow(addr, word) == IF addr \in 1 .. NB THEN cells[addr][word] ELSE 0
Resolve(inode, p) ==
    LET a == inode.addrs[p[1]]
    IN IF Len(p) = 1 THEN a
       ELSE IF Len(p) = 2 THEN Follow(a, p[2]) ELSE Follow(Follow(a, p[2]), p[3])

Words == 0 .. APB - 1
Paths == {<<k>> : k \in 0 .. ND + 1} \cup ({ND, ND + 1} \X Words)
         \cup ({ND + 1} \X Words \X Words)

Mapped(inode) == {p \in Paths : Resolve(inode, p) # 0}
RefsOf(inode) == {Resolve(inode, p) : p \in Mapped(inode)}

(* The slots of all inodes, as the server sees them now, that hold a block. *)
Now(f) == IF f = file THEN ip ELSE disk[f]
Slots == UNION {{f} \X Mapped(Now(f)) : f \in Files}
Trees == [s \in Slots |-> Resolve(Now(s[1]), s[2])]

(* No block is reached from two slots, and none that was just allocated    *)
(* from any.  Where this fails, text may be read as an address: the model  *)
(* takes it for one that leads nowhere, and says nothing of what follows.  *)
Unshared == IsInjective(Trees) /\ Range(Trees) \cap fresh = {}

-----------------------------------------------------------------------------
(* Planning a command on inode i.                                          *)
Larger(m, n) == IF m > n THEN m ELSE n
Smaller(m, n) == IF m < n THEN m ELSE n

(* The blocks readi and writei walk through for n bytes from off.          *)
Touch(k, off, n) ==
    IF n = 0 THEN <<>>
    ELSE [j \in 1 .. (off + n - 1) \div B - off \div B + 1 |->
             Job(k, off \div B + j - 1, 0)]

(* readi stops at the end of the file; past the largest file imapblock     *)
(* maps nothing.                                                           *)
readi(i, off, n) ==
    LET end == Smaller(Smaller(off + n, i.size), MAXFILEB * B)
    IN IF off > end THEN <<>> ELSE Touch("get", off, end - off)

(* writei: the jobs and the inode after it.  A write past the largest file *)
(* does nothing, not even the iupdate.                                     *)
(* Mutant: the inode is written before the blocks.                         *)
Refused(i, off, n) == off > i.size \/ off + n > MAXFILEB * B
Grown(i, off, n) ==
    IF Refused(i, off, n) \/ n = 0 \/ off + n <= i.size THEN i
    ELSE [i EXCEPT !.size = off + n,
                   !.blocks = Larger(1 + (off + n - 1) \div B, @)]
iupdate(i) == <<Job("iupdate", i.size, i.blocks)>>
writei_SizeFirst(i, off, n) ==
    IF Refused(i, off, n) THEN <<>>
    ELSE iupdate(Grown(i, off, n)) \o Touch("put", off, n)
writei(i, off, n) ==
    IF Refused(i, off, n) THEN <<>>
    ELSE Touch("put", off, n) \o iupdate(Grown(i, off, n))

(* itest: when the file needs at most half of its blocks, all but one of   *)
(* those it does not need are freed, last first, and blocks is lowered;    *)
(* the addresses stay in the inode.  An empty file needs 1 + (0 - 1) /     *)
(* BSIZE blocks, in unsigned arithmetic.                                   *)
true_blocks(i) == IF i.size = 0 THEN 1 + MAXUINT \div B ELSE 1 + (i.size - 1) \div B
itest(i) ==
    LET last == i.blocks - 1  t == true_blocks(i)
    IN IF t > i.blocks \div 2 THEN <<>>
       ELSE [j \in 1 .. last - t |-> Job("recycle", last - j + 1, 0)]
            \o iupdate([i EXCEPT !.blocks = t])

(* itrunc: in each round of its loops the block that the tree refers to    *)
(* there, if any, is freed, an indirect one after those under it; then the *)
(* inode is written without them.                                          *)
(* Mutant: the double indirect block itself is not freed.                  *)
Under(p) == [w \in 1 .. APB + 1 |-> IF w <= APB THEN Append(p, w - 1) ELSE p]
Singles == [k \in 1 .. ND |-> <<k - 1>>] \o Under(<<ND>>)
Doubles == [j \in 1 .. APB * (APB + 1) |->
               Under(<<ND + 1, (j - 1) \div (APB + 1)>>)[1 + ((j - 1) % (APB + 1))]]
TruncOrder_KeepRoot == Singles \o Doubles
TruncOrder == Append(Singles \o Doubles, <<ND + 1>>)
itrunc == [j \in DOMAIN TruncOrder |-> Job("free", TruncOrder[j], 0)]
          \o <<Job("iclear", 0, 0)>>

-----------------------------------------------------------------------------
(* Commands.  Open is what each does first: read the inode and plan.  A    *)
(* server that starts on a disk without a superblock refuses them all.     *)
checkFmt == cells[0] = Filled(Super)

Open(f, i, plan) ==
    /\ file = None /\ checkFmt
    /\ f \in names
    /\ file' = f /\ ip' = i /\ todo' = plan
    /\ UNCHANGED <<bits, cells, disk, names, fresh, freed, hurt>>

(* mk: ialloc writes the type, icreate's iupdate the links, and the write  *)
(* of the parent's inode makes the entry visible.  Bound: the entry fits   *)
(* into the parent's last block.                                           *)
cmd_mk(f) ==
    LET i == [NoInode EXCEPT !.type = T_FILE]
    IN /\ file = None /\ checkFmt
       /\ disk[f].type = 0
       /\ disk' = [disk EXCEPT ![f] = i]
       /\ file' = f /\ ip' = [i EXCEPT !.links = 1]
       /\ todo' = iupdate(i) \o <<Job("enter", 0, 0)>>
       /\ UNCHANGED <<bits, cells, names, fresh, freed, hurt>>

cmd_cat(f) == Open(f, disk[f], readi(disk[f], 0, disk[f].size))

(* w: at most a block of text from the start of the file, which is then    *)
(* cut to its length.                                                      *)
cmd_w(f, len) ==
    LET i == disk[f]  cut == [Grown(i, 0, len) EXCEPT !.size = len]
    IN /\ len <= B /\ len <= MaxSize
       /\ Open(f, i, writei(i, 0, len)
                     \o (IF len < i.size THEN iupdate(cut) \o itest(cut) ELSE <<>>))

(* i: the tail is read, the text written over it, and the tail after it;   *)
(* the second write takes its length from the size the first has set.      *)
cmd_i(f, pos, len) ==
    LET i == disk[f]  g == Grown(i, pos, len)
    IN /\ len <= B
       /\ IF pos >= i.size
          THEN /\ i.size + len <= MaxSize
               /\ Open(f, i, writei(i, i.size, len))
          ELSE /\ g.size + len <= MaxSize
               /\ Open(f, i, readi(i, pos, i.size - pos) \o writei(i, pos, len)
                             \o writei(g, pos + len, g.size - pos))

(* d: at or past the end the size becomes pos, even when the file was      *)
(* shorter; otherwise the tail moves down and itest may free blocks.  The  *)
(* end of what goes wraps, so that a huge len counts backwards: the file   *)
(* then grows.                                                             *)
Wrapped(n) == n % (MAXUINT + 1)
cmd_d(f, pos, len) ==
    LET i == disk[f]
        end == Wrapped(pos + len)
        copylen == i.size - end
        g == Grown(i, pos, copylen)
        cut == [g EXCEPT !.size = Wrapped(g.size - len)]
    IN IF end >= i.size
       THEN /\ pos <= MaxSize
            /\ Open(f, i, iupdate([i EXCEPT !.size = pos]))
       ELSE /\ g.size <= MaxSize /\ cut.size <= MaxSize
            /\ Open(f, i, readi(i, end, copylen) \o writei(i, pos, copylen)
                          \o iupdate(cut) \o itest(cut))

(* rm: links is an unsigned short.                                         *)
cmd_rm(f) ==
    LET i == [disk[f] EXCEPT !.links = (@ + 65535) % 65536]
    IN Open(f, i, (IF i.links = 0 THEN itrunc ELSE iupdate(i))
                  \o <<Job("unlink", 0, 0)>>)

-----------------------------------------------------------------------------
(* Steps of the command in progress.                                       *)
Doing(k) == todo # <<>> /\ Head(todo).k = k
path == Path(Head(todo).n)

(* imapblock: the part of the path that still has to be allocated begins   *)
(* with missing.                                                           *)
Mapping == \E k \in {"put", "get", "recycle"} : Doing(k)
Gap == Mapping /\ Resolve(ip, path) = 0
missing == CHOOSE p \in {SubSeq(path, 1, d) : d \in 1 .. Len(path)} :
               /\ Resolve(ip, p) = 0
               /\ Len(p) > 1 => Resolve(ip, Front(p)) # 0

Free == Blocks \ bits

(* allocate_block: the first free block is marked, ...                     *)
Mark ==
    /\ Gap /\ fresh = {}
    /\ \E b \in Free :
           /\ \A c \in Free : b <= c
           /\ bits' = bits \cup {b}
           /\ fresh' = {b}
    /\ UNCHANGED <<cells, disk, names, file, ip, todo, freed, hurt>>

(* ... zeroed, and the address goes into the inode in memory, or ...       *)
ZeroRoot ==
    /\ Gap /\ Len(missing) = 1
    /\ \E b \in fresh :
           /\ cells' = [cells EXCEPT ![b] = Filled(0)]
           /\ ip' = [ip EXCEPT !.addrs[missing[1]] = b]
    /\ fresh' = {}
    /\ UNCHANGED <<bits, disk, names, file, todo, freed, hurt>>

(* ... with one more write into the indirect block above it.               *)
ZeroChild ==
    /\ Gap /\ Len(missing) > 1
    /\ \E b \in fresh :
           /\ cells[b] # Filled(0)
           /\ cells' = [cells EXCEPT ![b] = Filled(0)]
    /\ UNCHANGED <<bits, disk, names, file, ip, todo, fresh, freed, hurt>>

LinkChild ==
    /\ Gap /\ Len(missing) > 1
    /\ \E b \in fresh :
           /\ cells[b] = Filled(0)
           /\ cells' = [cells EXCEPT ![Resolve(ip, Front(missing))][Last(missing)] = b]
    /\ fresh' = {}
    /\ UNCHANGED <<bits, disk, names, file, ip, todo, freed, hurt>>

(* Out of blocks: allocate_block returns 0, which becomes the address, and *)
(* text goes to the superblock.  Only for the last block of a path: what   *)
(* follows from an indirect block at address 0, or from itest's freeing    *)
(* block 0, is left out of the model.                                      *)
Full ==
    /\ Gap /\ missing = path /\ Free = {} /\ fresh = {}
    /\ ~Doing("recycle")
    /\ cells' = IF Doing("put") THEN [cells EXCEPT ![0] = Filled(Text)] ELSE cells
    /\ todo' = Tail(todo)
    /\ hurt' = hurt \cup {"full"}
    /\ UNCHANGED <<bits, disk, names, file, ip, fresh, freed>>

(* The block is mapped: it is written, read, or freed by itest.            *)
Put ==
    /\ Doing("put") /\ Resolve(ip, path) # 0
    /\ cells' = [cells EXCEPT ![Resolve(ip, path)] = Filled(Text)]
    /\ todo' = Tail(todo)
    /\ UNCHANGED <<bits, disk, names, file, ip, fresh, freed, hurt>>

Get ==
    /\ Doing("get") /\ Resolve(ip, path) # 0
    /\ todo' = Tail(todo)
    /\ UNCHANGED <<bits, cells, disk, names, file, ip, fresh, freed, hurt>>

Recycle ==
    /\ Doing("recycle") /\ Resolve(ip, path) # 0
    /\ bits' = bits \ {Resolve(ip, path)}
    /\ todo' = Tail(todo)
    /\ hurt' = hurt \cup {"recycle"}
    /\ UNCHANGED <<cells, disk, names, file, ip, fresh, freed>>

FreeBlock ==
    /\ Doing("free")
    /\ LET b == Resolve(ip, Head(todo).n)
       IN IF b = 0 THEN UNCHANGED <<bits, freed>>
          ELSE bits' = bits \ {b} /\ freed' = TRUE
    /\ todo' = Tail(todo)
    /\ UNCHANGED <<cells, disk, names, file, ip, fresh, hurt>>

(* iupdate writes the inode; d may have set its size past its end.         *)
Update ==
    /\ Doing("iupdate")
    /\ LET i == [ip EXCEPT !.size = Head(todo).n, !.blocks = Head(todo).m]
       IN /\ ip' = i
          /\ disk' = [disk EXCEPT ![file] = i]
          /\ hurt' = IF i.size > i.blocks * B THEN hurt \cup {"hole"} ELSE hurt
    /\ todo' = Tail(todo)
    /\ UNCHANGED <<bits, cells, names, file, fresh, freed>>

(* Mutant: the addresses stay in the inode.                                *)
Clear_KeepAddrs ==
    /\ Doing("iclear")
    /\ ip' = [ip EXCEPT !.size = 0, !.blocks = 0]
    /\ disk' = [disk EXCEPT ![file] = ip']
    /\ freed' = FALSE
    /\ todo' = Tail(todo)
    /\ UNCHANGED <<bits, cells, names, file, fresh, hurt>>

Clear ==
    /\ Doing("iclear")
    /\ ip' = [NoInode EXCEPT !.type = T_FILE, !.links = ip.links]
    /\ disk' = [disk EXCEPT ![file] = ip']
    /\ freed' = FALSE
    /\ todo' = Tail(todo)
    /\ UNCHANGED <<bits, cells, names, file, fresh, hurt>>

Enter ==
    /\ Doing("enter")
    /\ names' = names \cup {file}
    /\ todo' = Tail(todo)
    /\ UNCHANGED <<bits, cells, disk, file, ip, fresh, freed, hurt>>

Unlink ==
    /\ Doing("unlink")
    /\ names' = names \ {file}
    /\ todo' = Tail(todo)
    /\ UNCHANGED <<bits, cells, disk, file, ip, fresh, freed, hurt>>

(* The command is over: the server writes the superblock back, as          *)
(* save_user does after every command.                                     *)
(* Mutant: it does not.                                                    *)
Finish_NoSave ==
    /\ file # None /\ todo = <<>>
    /\ file' = None /\ ip' = NoInode
    /\ UNCHANGED <<bits, cells, disk, names, todo, fresh, freed, hurt>>

Finish ==
    /\ file # None /\ todo = <<>>
    /\ cells' = [cells EXCEPT ![0] = Filled(Super)]
    /\ file' = None /\ ip' = NoInode
    /\ UNCHANGED <<bits, disk, names, todo, fresh, freed, hurt>>

(* The file server dies with a command in progress, and is started again.  *)
Crash ==
    /\ file # None
    /\ file' = None /\ ip' = NoInode /\ todo' = <<>> /\ fresh' = {} /\ freed' = FALSE
    /\ hurt' = hurt \cup {"crash"} \cup (IF freed THEN {"torn"} ELSE {})
    /\ UNCHANGED <<bits, cells, disk, names>>

Next ==
    \/ \E f \in Files : cmd_mk(f) \/ cmd_cat(f) \/ cmd_rm(f)
    \/ \E f \in Files, len \in 0 .. B : cmd_w(f, len)
    \/ \E f \in Files, pos \in 0 .. MaxSize, len \in 0 .. B : cmd_i(f, pos, len)
    \/ \E f \in Files, pos, len \in 0 .. MAXUINT : cmd_d(f, pos, len)
    \/ Mark \/ ZeroRoot \/ ZeroChild \/ LinkChild \/ Full
    \/ Put \/ Get \/ Recycle \/ FreeBlock \/ Update \/ Clear
    \/ Enter \/ Unlink
    \/ Finish \/ Crash

Spec == Init /\ [][Next]_vars

-----------------------------------------------------------------------------
(* As long as itest has freed nothing and no crash has cut itrunc short,   *)
(* no two slots of any inodes ever hold the same block, whatever is being  *)
(* allocated, and every block an inode refers to is marked, but for those  *)
(* of the file that is being truncated: what a crash at any moment leaves  *)
(* on the disk is a set of disjoint trees (imapblock's order of marking,   *)
(* zeroing and linking; itrunc before the inode is written).               *)
Exclusive ==
    hurt \cap {"recycle", "torn"} = {} =>
        /\ Unshared
        /\ \A f \in Files : RefsOf(Now(f)) \subseteq bits \/ (freed /\ f = file)

(* On a disk that nothing has happened to, the bitmap says exactly which   *)
(* blocks are referred to whenever no command is in progress: w, i, d, cat *)
(* and rm neither lose a block nor free one in use.  The addresses they    *)
(* link are blocks of the disk in any case.                                *)
Exact ==
    /\ TypeOK
    /\ hurt = {} /\ file = None =>
         bits = {0} \cup UNION {RefsOf(disk[f]) : f \in Files}

(* However often the server has died, a block below the size of an inode   *)
(* on disk is mapped there: data blocks are linked before the size that    *)
(* covers them is written.  Not once a d has set a size past the blocks    *)
(* ("hole"), the disk has been full, itest has freed a block or a crash    *)
(* has cut itrunc short.                                                   *)
NoHoles ==
    hurt \subseteq {"crash"} =>
        \A f \in Files : \A k \in 0 .. MAXFILEB - 1 :
            k * B < disk[f].size => Resolve(disk[f], Path(k)) # 0

(* The superblock is overwritten only by a command that found the disk     *)
(* full, and is back when that command ends; only a crash in between       *)
(* leaves the disk without it (allocate_block's 0, save_user's write).     *)
SuperblockKept ==
    cells[0] = Filled(Super) \/ ("full" \in hurt /\ (file # None \/ "crash" \in hurt))
=============================================================================
