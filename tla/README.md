# A verified model of the file server

The repository is a small networked file system in C: a disk server that
simulates a hard disk (`BDS`), a file server that keeps a file system on it and
serves several clients (`FS`), and a client (`FC`). This directory models the
three in TLA+, from the bytes of a connection to the directory tree, model-checks
the models with TLC and proves theorems about ten of them with TLAPS.
Paths below are relative to the repository's root.

## 1. Inventory

| Component | Source | State | Operations | Talks to |
|---|---|---|---|---|
| Block allocator and format | `fs/src/block.c`, `fs/src/fs.c:60-112` | the superblock in memory (`sb`) and in block 0, the bitmap | `allocate_block`, `free_block`, `zero_block`, `format`, `sbinit` | disk server: one message per block |
| Inode layer | `fs/src/inode.c` | inode table, block trees | `ialloc`, `iget`, `iupdate`, `readi`, `writei`, `imapblock`, `itest`, `itrunc`, `icreate` | allocator |
| Directories and permissions | `fs/src/fs.c:131-475` | directory entries, `cwd` | `findinum`, `delinum`, `cd`, `mk`, `mkdir`, `rm`, `rmdir`, `ls`, `pwd` | inode layer |
| File commands | `fs/src/fs.c:477-622` | contents and sizes of files | `cat`, `w`, `i`, `d` | inode layer |
| Sessions | `fs/src/fs.c:11-58`, `fs/src/server.c` | `clientmap`, `sb.users`, the globals `uid`, `cwd`, `profid`, `mutex_lock` | `on_connection`, `cleanup`, `load_user`, `save_user`, `login`, `e` | superblock, directories, TCP server |
| TCP server loop | `lib/tcp_utils.c` | `connfd`, `read_set`, slot mutexes | `server_run`, `add_conn`, `handle_read` | thread pool; callbacks into the server |
| Command dispatch | `fs/src/server.c:27-48, 385-406` | `strtok`'s pointer, the mutex, `argv` of each handler | `on_recv`, `parse`, `handle_*` | TCP server loop, commands |
| TCP buffers | `lib/tcp_buffer.c`, client half of `lib/tcp_utils.c` | read and write index of each buffer | `buffer_append`, `read_to_buffer`, `send_buffer`, `client_send`, `client_recv` | sockets |
| Thread pool | `lib/thpool.c` | job queue, binary semaphore, counters | `thpool_add_work`, `thread_do` | server loop |
| Disk server, block RPC | `disk/src/*.c`, `fs/src/block.c:50-124` | mapped disk file, head position | `I`, `R`, `W` | file server |

How they interact. The main thread sits in `select`; a readable socket becomes a
job for one of twelve threads, which calls `on_recv` for each complete message.
`on_recv` takes the server's one mutex, fills the globals with `load_user`, runs
the command, stores the globals with `save_user`, which also rewrites the
superblock on the disk, and unlocks. Connecting and disconnecting change the
client map *without* the mutex. Each command reads and writes blocks one message
at a time, so the file server can die between any two writes; the disk server
keeps what was written.

What is hard, and what makes each part correct:

- **Allocator**: the order bit, zeroes, link across a crash; the order of
  `format`'s writes; the end of the disk; where the inode table lies. Correct
  when a block is owned by at most one file, owned blocks are marked at every
  write, superblock, bitmap and inodes are never granted, nothing leaks. (Of most
  inodes the code does not keep that: section 3.)
- **Inode layer**: two levels of indirection, each an allocation and a write of
  its own; freeing in `itrunc` and `itest` against the inode on disk; a full
  disk, for which `allocate_block` returns 0. Correct when trees are disjoint,
  marked, complete up to the size, and the bitmap is exact.
- **Sessions**: identity depends on a map that two threads change, a profile
  table shared by all users and three globals. Correct when a command runs as
  its client, in its client's directory, and survives a restart.
- **Dispatch**: one `strtok` pointer for all threads, moved outside the mutex.
  Correct when a command is about the file its own client named.
- **TCP loop, pool**: races over descriptors and slots, wake-ups. Correct when one
  thread handles a slot, answers reach who asked, and no job is stranded.
- **TCP buffers**: messages in pieces, compaction in the middle of one, messages
  dropped at the limit. Correct when frames stay whole and replies in step.
- **Disk RPC**: refused requests, and a server that goes away, which the callers
  do not notice. Correct when what is acknowledged is on the disk, and what was
  misunderstood never gets there.

`PROJECT.json` lists every hazard at its line under `hazards`, with the
properties that cover it or the reason why none does.

## 2. Modules

| Module | Models | Extends / instantiates |
|---|---|---|
| `Layout` | the geometry macros and what `format` puts in the superblock | |
| `Allocator` | abstract: what an allocator promises | |
| `BlockAlloc` | `block.c` and `format`, one step per disk write | `Layout`, `Allocator` (refinement) |
| `BlockMap` | `inode.c` under the commands of `fs.c` on files: which blocks, one step per disk write | |
| `FileEdit` | `readi`, `writei` and `w`, `i`, `d`, `cat`: which bytes, one step per round of a loop | |
| `FsTree` | inode table, directories, permissions, where users are, one step per disk write | |
| `Sessions` | client map, profiles, globals | |
| `JobQueue` | abstract: what the server needs of the thread pool | |
| `ThreadPool` | `thpool.c` | `JobQueue` (refinement) |
| `ServerLoop` | `server_run`, `add_conn`, `handle_read`, with clients | `JobQueue` (refinement) |
| `TcpBuffer` | `tcp_buffer.c` without its sockets: a buffer, frames, the first message | |
| `Connection` | one client and its slot, byte by byte | `TcpBuffer` |
| `DiskServer` | the disk server and the file server's calls to it | |
| `Dispatch` | `on_recv` and `parse` on several threads | |
| `BlockAllocProofs`, `BlockMapProofs`, `FileEditProofs`, `FsTreeProofs`, `ServerLoopProofs`, `DiskServerProofs` | proofs | the module each is named for, `TLAPS` |
| `ServerProofs` | proofs about the commands of the file server | `Sessions`, `Dispatch`, `TLAPS` |
| `LibraryProofs` | proofs about the two libraries of `lib/` | `ThreadPool`, `Connection`, `TLAPS` |
| `MC...` | bounds and symmetry for TLC | the module each is named for |

The layers meet at what they take for granted of each other. `BlockAlloc`,
`BlockMap`, `FileEdit` and `FsTree` take a disk write as atomic and successful:
`DiskServer` shows when it is (`Coherent`, `Durable`). There are two ways for it
not to be. A file server whose connection has ended, and which takes that for an
answer, has lost its disk for good (`Cut`); that is a crash to the others, as it is
all the disk will ever see of it. A request that the disk refuses, because the
block is not on it or `msync` fails, leaves the connection as it is: `write_block`
logs it and goes on, and `read_block` leaves its caller's buffer as it was. Blocks
off the disk are granted only once the disk is full (`GrantIsFresh`), and what is
written to them is lost; the other three models have no blocks off the disk. They
have no block that holds both inodes and data either: on a real disk that is so of the
inodes `Layout` calls `Apart` only, and of the others for as long as the blocks of
the table that `allocate_block` has granted hold no inode in use (section 3).
`DiskServer` takes requests and replies
as whole messages in order, as `ServerLoop` does in `Recv` and `Reply`: that is
`Connection`'s `Intact` and `HalfFits`, since a request or a reply of a block is
far shorter than half a buffer. `BlockMap` scans for the lowest free block
as `BlockAlloc` does and adds who refers to it. `FileEdit` takes the blocks of a
file as its own and mapped, which is `BlockMap`'s `Exclusive` and `NoHoles`.
`FsTree` takes a write of an inode with its entries as one step, the entries of a
directory being in one block. All four take one command at a time, which is
`Sessions`' mutex, and a command to have the arguments its client sent, of which
`Dispatch` shows the first to be (`FirstIsOwn`); `Sessions` takes from the server loop that one thread handles a
slot, `ServerLoop`'s `OneHandler`; `ServerLoop` gives jobs to a pool that starts
each once and in order, `JobQueue`, which `ThreadPool` implements; and
`ThreadPool` takes for granted that a job is not added twice, which `ServerLoop`
shows in turn (`UsesPool`).

**`BlockAlloc`.** `bits` is the bitmap on disk as the set of marked blocks;
`magic` and `sbmagic` say whether block 0 and `sb` carry `MAGIC`. An operation in
progress is `op`; its writes are the actions: `allocate_block` then `ClearBlock`;
`format`, `ZeroBitmap` for each bitmap block, `ZeroInodes`, `MarkMeta` for each
bitmap block. (`ZeroInodes` stands for one write per block of the table; nothing in this
module depends on how many were made, and `FsTree` makes them one by one.)
`free_block` also takes a block that is free already. `Meta` is what `format` marks,
`InodeTable` where it puts the inodes, `Reserved` the superblock, the bitmap and the
part of the table that is marked. `Crash` is possible between any two and `sbinit` starts the server
again. `held` is a ghost: the blocks callers own. A write of zeroes to a block
clears the bits stored in it when it is a bitmap block, which is how a table in
the wrong place would show. `torn` says that a format began and was not
completed: no promise is made until one is.

**`BlockMap`.** `cells` holds, for each block on disk, the addresses read from it
when it is taken for an indirect block; `disk` the inodes on disk; `ip` the inode
in memory of the command in progress. A command is planned when it starts
(`todo`), from the size and the block count it has just read: which blocks it
puts, gets, frees, and when the inode is written. `readi` gets no block past
`MAXFILEB`, where `imapblock` maps none; `itrunc` looks at every place of the tree
in the order of its loops (`TruncOrder`) and frees what it finds. Each step is one
disk write: `mk` writes the inode with a type, again with a link, and then the
parent's entry (`Enter`);
`imapblock` becomes `Mark`, `ZeroRoot` or `ZeroChild`, `LinkChild`, depending on
what is missing on the path. File text is one value, `Text`. `hurt` records what
has happened to the disk: itest freed a block (`recycle`), a crash inside
`itrunc` (`torn`) or elsewhere (`crash`), an allocation failed (`full`), `d` made
a file longer than its blocks (`hole`). Each property names the ones it excepts.
A server may crash any number of times. Positions, lengths and sizes that clients
make wrap as unsigned ints do (`Wrapped`, `true_blocks`).
Names, permissions, mode, owner and times are left out, and the blocks of the
parent. The model stops short of
two cases: what follows from an indirect block at address 0 on a full disk, and
a block shared by two trees.

**`FileEdit`.** One file: `blk` its bytes on disk, `saved` its size there, `size`
the size in memory. A command is the list of its calls to `readi` and `writei`
and its assignments to the size (`todo`); a call is carried out a block, or what
is left of one, at a time (`ReadChunk`, `WriteChunk`), so a crash falls between
any two block writes and between the last one and the size. What `writei` copies
from beyond the buffer it was given is any byte. `spilt` records that `i` did so
(`Spills`), or that `d` was given a position beyond the end or lengths that wrap.
A `writei` beyond the largest file does nothing and returns -1 (`inode.c:88`), which
`i` does not look at. Sizes are unsigned ints of `W` values.

**`FsTree`.** `ino` is the inode table on disk, directories with their entries;
`cwd` the directory in each user's profile. A command computes its writes from
the table (`icreate`, `delinum`, `rmdir`, `to_home`, `format`) and makes them one
by one (`Step`), the server dying between any two (`Crash`); `save_user` comes
last (`Finish`). `fate` says how the command ends: it returns, fails `delinum`'s
assertion, or uses the NULL that `ialloc` or `iget` returned. A command that is
refused still saves the profile, so a user whose directory is gone is put into the
root (`Where`, `refused`). A mode is the pair
of the owner's and the others' rights. A format clears the table by one write for
each block of `IPB` inodes (`Clearing`), then makes the root and the home
(`Founding`); after a crash in the clearing the table is `torn` until a format
gets past it, and no other command is modelled on it. `crashed` and `lost` record that the server
died between writes and that a format removed a directory a user was in. `pwd`
asks for the right to read the inode numbered as the user is (`Denied`, `fs.c:682`),
and has room for `MAXNAMES` names (256, `fs.c:687`). Left out: the visible bit (it hides lines of `ls`), times, sizes of files, directories
of more than one block, and a user who works in a directory that has become a
file after somebody else's format. Where `delinum` finds two entries of one inode
it writes them in one step instead of two; that needs a crash in a compaction.

**`Sessions`.** One command at a time (`busy`), in three steps (`Begin`: lock and
`load_user`; `Run`; `End`: `save_user` and unlock), with `Connect` and
`Disconnect` in between, since those run without the mutex. A connection id is a
slot of the TCP layer, given to another client once free. `dirs` is the set of
inodes that are directories, all that the code reads of the tree when it decides
where a session is; `rmdir` does not shrink it, as no inode is ever given back
(`FsTree`'s `CwdIsDirectory`). The ghosts `who` and `at` say whom a client logged
in as and where its own commands left it. `slips` records what the server has no
answer to; each property names those it excepts. `astray` is the set of clients
whose map entry is not theirs, because the slot had an entry of an earlier client
or because they logged in twice: `NoImpersonation` excepts these clients and
nobody else.

**`ThreadPool`.** `pc` says where a thread is in `thread_do`: in `bsem_wait`,
asleep there, past it, counted in, running, done; `v` is the binary semaphore.
`bsem_post` sets `v` and wakes one sleeper, any of them; a sleeper may also wake
for no reason (`Spurious`). `main` is the thread that adds work or waits in
`thpool_wait`. No program of the repository calls `thpool_wait`: `IdleMeansDone` and
`WaitReturns` are promises of the library to a caller it may have. `thpool_pause`,
`thpool_resume` and `thpool_destroy` are left out: nothing calls them either.

**`ServerLoop`.** The main thread and the threads of the pool share `connfd`,
`read_set` and the mutexes of the slots; a step is one access to these or one
system call. `FD_SET` and `FD_CLR` are a load and a store of a word. The kernel
(`sock`, `backlog`, what is readable, the lowest free descriptor) and the clients,
which send one command and wait for its answer, are external. A `recv` that finds
nothing to read spins, which is no step. Buffers are left out, and with them what
a thread does with buffers that are freed already.

**`TcpBuffer`, `Connection`.** A buffer is its `read_index` and the bytes from
there to its `write_index`; `adjust_buffer` moves them to the front. A byte is a
message and its place in the frame, so that a byte lost, kept or taken for
another shows. `Connection` has the four buffers of one client and its slot, what
is under way in either direction, and where both programs are: the client in
`client_send` and `client_recv`, the server in `select`, `read_to_buffer`,
`handle_read` and `send_buffer`. The network delivers any part of what was sent.
`lost` is a ghost: the first message that `buffer_append` dropped, or that filled
a buffer without being complete, on which `client_recv` returns 0 and a thread
finds nothing to do. `reply_with_yes` and `reply_with_no` are `buffer_append` with
the prefix counted as part of the message.

**`DiskServer`.** `fs` is the file server's call in progress, `queue` what the disk
server has not carried out, `answer` the reply under way. `memcpy` of a write
copies a block byte by byte (`Copy`), and a kill may fall between two. `conn` is
the connection as the file server sees it: a first send after the other end has
closed is still taken (`poked`) and answered with a reset, and the send after that
kills the process (`Fatal`), as does a division by an `_nsec` that was never told.
`ReceiveNothing` is `client_recv` returning 0, which the callers take for success.
A file server that dies leaves its requests in `queue`; its successor connects
behind them, as the disk server runs one worker thread. `known` and `kept` are
ghosts: what the present file server has read or written, and what was last
acknowledged by whomever. `init_disk` clears the last byte of the file at each
start, and the properties say so.

**`Dispatch`.** A message is the numbers of its words; `strtok` moves `olds`, its
one pointer, in two steps, a load and the cut, so that another thread may come
between; a delimiter that was made a NUL is in `ended`. The name of the command is
taken before the mutex is locked (`Name`), the arguments with it (`Load`, `Cut`).
`touched` marks a parse that another thread interfered with. The words
themselves, and a client's second message, are left out: each client sends one.

## 3. Runs

| Run | Question | Properties | Instance |
|---|---|---|---|
| `alloc` | does the bitmap protect what is in use, whatever write a crash falls on? | `InUseIsMarked`, `GrantIsFresh`, `NoLeak`, refinement of `Allocator` | 10 blocks, 6 bits per bitmap block, 2 inodes per block: two bitmap groups, so the loops over groups run twice; the last is partial, and two blocks that are not on the disk are scanned; the inode table is 4 to 6, of which 6 is unmarked |
| `map_tree` | the bitmap is exact, no holes | `Exact`, `NoHoles` | 1 file of up to 4 blocks: 1 direct, 2 single indirect, and the first double indirect, on the 7 data blocks these take |
| `map_files` | trees stay disjoint on a disk that fills up | `Exclusive`, `SuperblockKept` | 2 files of up to 2 blocks (1 direct, 1 single indirect) on 5 data blocks, one less than they take |
| `edit` | what each edit leaves, finished or cut short | `Edited`, `BeforePosition`, `TextOnly` | blocks of 2 bytes, files of up to 3 blocks, 2 kinds of bytes, texts of up to one block, sizes modulo 13 |
| `tree` | shape of the tree, permissions, where users are | `Shape`, `PwdAgrees`, `NothingDangles`, `RemovedByRight` | 5 inodes (root, `home`, the administrator's directory and two more), 2 to a block of the table, room for 2 names in `pwd`, 2 users, a private and a public mode, 2 names, one of them that of a home |
| `sessions` | identity, directories and durability | `Durable`, `NoImpersonation`, `StaysLoggedIn`, `OwnDirectory` | 2 clients, 2 uids (one is the administrator, who may format), 2 directories, 2 map entries and profiles |
| `dispatch` | which words reach a command? | `FirstIsOwn`, `StillThere`, `Whole` | 4 clients; messages that are no command, and commands that parse none, one, two and three arguments, with all the words they want or fewer |
| `pool` | no job is stranded; refinement of `JobQueue`; `thpool_wait` returns | `NoJobStranded`, `IdleMeansDone`, `Promise`, `WaitReturns` | 3 threads, 4 jobs |
| `loop` | one handler per slot, answers to who asked | `OneHandler`, `Descriptors`, `UsesPool` | 2 clients that come, send and leave, 2 threads, 2 slots, 2 descriptors |
| `loop_busy` | every command is answered | `Answered` | 3 clients that stay, 2 threads |
| `conn` | frames whole, after losses too; replies in step, nothing lost that fits half a buffer, an answer to every command | `Intact`, `HalfFits`, `Answered` | buffers of 8 bytes, headers of 2, commands of 1, 2 and 4 bytes, replies of 1, 2 and 5 |
| `disk` | what is on the disk after reads, writes and deaths; every call returns | `Coherent`, `Durable`, `Cut`, `Returns` | 2 cylinders of 2 sectors, 3 block numbers in use, of which one is not on the disk, blocks of two bytes |

Each module's type invariant is checked too, by itself or as a part of another
property (`Exact`, `TextOnly`, `Shape`, `Intact`, `Coherent`).

Bounds. Every instance lets each loop of the code run zero, one and two times
(in `map_files` an indirect block has one address; `map_tree` has two) and lets each
table fill up. In `BlockAlloc`, `FewHeldWhileTorn` lets callers own two blocks at most
while a format is incomplete, where nothing is promised; any number of crashes and
formats may follow each other. In `BlockMap`, with `B = 1` a byte is a block, so
every relation of position, length and block boundary that changes the plan
occurs with small numbers; `MaxSize` bounds the files, `MAXUINT` stands for
2^32 - 1 and has to be at least twice the largest file, so that only sums of what a
client sends wrap. The server crashes any number of times; `FewLeaks` stops the
search where crashes have left more than one block marked and unreachable or
`links` below 65535, and in states after `recycle` or `torn`, about which
`Exclusive`, `Exact` and `NoHoles` say nothing, and after two kinds of harm. In
`FileEdit` a text may end inside, at the end of and beyond a block and beyond the
largest file, and `d`'s lengths range over all values of an unsigned int, so that sums
wrap; `d` is given no position beyond the largest file, which would set a size no
block can hold. In `FsTree`, the table takes three writes to clear, of which the last
is of one inode; `FewWhenLost` stops the search at the commands that make or remove
something after a format took away the directory some user was in; no command but a
format starts on a table that is torn. In `ServerLoop` two clients and two descriptors
are enough for a descriptor to be closed, accepted again and cleared late. In
`ThreadPool` four jobs for three threads leave one queued while all work. In
`Connection` a frame is 3 to 7 bytes of a buffer of 8: the short ones fit half of it in
every position of the indices, the long ones do or do not. After a loss the client may
run ahead of its answers, and `FewUnderWay` lets 11 bytes be in buffers and network
then, which is a full buffer and a frame besides. In `DiskServer`, `MaxKills`
and `MaxCrashes` let each process die twice, so that either meets a successor of
the other; in `Dispatch` the fourth client is the one that makes a word come from
a message whose own command has yet to run.

Deadlock. The `BlockMap` runs do not check for it: the modelled system stops when
a server comes up on a disk whose superblock was overwritten, and on a full disk
where the model leaves the code. Nor does `loop`: after the races below the server
can end up watching none of its clients, and really stops. Nor does `conn`: a
client whose command was dropped waits for an answer for ever. The others check
it; in `dispatch` the end, when each client has been served, is a step of its own.

Fairness. `ThreadPool` assumes that each thread of the pool is scheduled; a
thread that can take a step keeps being able to, so weak fairness is enough. It
assumes nothing of how long a job takes; `WaitReturns` adds that jobs end.
`ServerLoop` assumes the same of the main thread and the pool (`Fairness`).
`loop_busy` also assumes that every connected client sends another command some
day (`ClientsGoOn`). That is an assumption about people, and the code needs it: a
thread given a slot that another thread has just drained waits in `recv` until its
client sends again. Without it, or with clients that leave, `Answered` is false.
`Connection` assumes that both programs are scheduled and TCP delivers; nothing
of how it cuts what it delivers. `DiskServer` assumes that a disk server that is
up carries out its requests and that a file server with something to receive
receives it; nothing makes a process die or start again.

### What the models do as the code does, and no property asks

Written into the actions, and excepted by name (`slips`, `hurt`, `lost`, `spilt`,
the assumptions above) where a property would otherwise be false:

- `fs.c:80` starts the inode table at `1 + NIBLOCK`, as if the bitmap were as long
  as the table; `format` marks `1 + NBBLOCK + NIBLOCK` blocks from the start
  (`fs.c:75, 95-98`, under the comment "mark bitmap and inode blocks as in use"). So
  of the table only the first `NBBLOCK` blocks are marked, and the others are data to
  `allocate_block`: this is so of every disk with more than 8 inodes for each block of
  the bitmap, which is any of 18 blocks or more. On 1024 blocks the table is 66 to 129, and the
  first block that is granted is 67, with inodes 8 to 15: what a file writes there
  overwrites them, and an inode that is made there overwrites the file. The comments
  at `fs.c:94` and at `block.h:30` say otherwise. `Layout` places and marks things as
  the code does; `GrantIsFresh`, `InUseIsMarked` and the refinement promise nothing of
  the blocks that are not marked, and `BlockMap`, `FileEdit` and `FsTree` speak of a disk on
  which this has not happened.
- `block.c:26` compares the position inside a bitmap group with `sb.size`, so on a
  disk of more than 4096 blocks, not a multiple of it, `allocate_block` hands out
  blocks past the end when the disk is full (`fs/tests/test_block.c:83` expects 0, "no
  more blocks available"). `GrantIsFresh` says that it does not before.
- `fs.c:579` computes the length of the tail from a size that the write before it may
  have changed, against the comment at `fs.c:576`: the file becomes longer than the
  text and the tail, by bytes from beyond the buffer. `Edited` says by how many.
- `inode.c:88` refuses a write that makes a file longer than `MAXFILEB` blocks; `i`
  answers Yes all the same, and may have lost the tail by then (`fs.c:577-580`).
  `Edited` says what the file is.
- `pwd` asks for the right to read the inode whose number is the user's uid
  (`fs.c:682`), whatever file that is, so another user can make it fail; it has room for
  256 names and does not count them (`fs.c:687`). `PwdAgrees` excepts both.
- `rmdir .` in an empty directory fails the assertion at `fs.c:242`; `Shape` says
  that nothing but that and a crash in a compaction does.
- `to_home` makes `home` in the directory the user happens to be in; a format
  leaves `home` in the root, where `fs/tests/test_fs.c:35` expects nothing.
- `itest` frees blocks and keeps their addresses (`inode.c:117`).
- `server.c:414` leaves the loop of `cleanup` in its first round: only map entry 0
  is ever given back.
- A second login changes the uid in the profile and not in the map (`fs.c:43`): the
  client's next command looks for the profile of whom it was first.
- A client that connects when the map is full is left out of it; its commands run on
  what the globals hold, and leave their own in them for the next one.
- `server.c:386` calls `strtok` before the mutex is locked. The second and later
  arguments of a command can be words of another client's message, or be missing.
- `handle_read` closes a descriptor before it clears it; accepted again in
  between, it loses its bit in `read_set`.
- `server_run` reads `connfd` before it takes the mutex, so a job may be for a slot
  that has been cleared, and clears it again.
- `select`'s error is not looked at: `accept` then waits for a client that may not
  come.
- A message that does not fit a buffer is dropped (`tcp_buffer.c:62`).
- `client_recv`'s 0 passes for a block of zeroes or for a block written
  (`block.c:90-99, 115`). When the disk refuses a read the caller's buffer stays as
  it was; when `msync` fails a block that is written is refused (`disk.c:110`).
- `init_disk` writes a zero to the last byte of the file at every start
  (`disk.c:42`).

## 4. Proofs

`BlockAllocProofs` proves for every geometry (`GeometryAssumption`: BPB and IPB
positive) and every size with room for its metadata (`SizeAssumption`) that
`BlockAlloc` satisfies `TypeOK`, `InUseIsMarked`, `GrantIsFresh`, `NoLeak` and
`MagicAgrees`, and that it implements `Allocator` (`Refinement`). What is promised is
just this: blocks that files own, the superblock, the bitmap and the inodes that are
`Apart` are marked and not granted, and no block off the disk is granted while one on
it is free. That the later blocks of the table are not granted, or none off the
disk, is false of the code and is neither stated nor implied: the refinement takes for
the blocks of `Allocator` what a complete format leaves free (`Grantable`), whatever
that is, and tells it which are on the disk. A double free, and a crash that loses
blocks, are steps of the abstract allocator too.
The inductive invariant `IInv` adds to these what a format has achieved so far
(`Progress`), that a granted block is marked while it is being zeroed
(`Granting`), that what is held is free for data after a format (`Owned`), the exact
bitmap between operations (`Exact`), and two facts about a disk that is not formatted and a
server that is down (`Unformatted`, `Stopped`). Without `Progress` - while a
format marks, the groups done are marked exactly and those to come are clear -
the last `MarkMeta` could not re-establish the promises. It also needs that the
bits of blocks in range live in bitmap blocks among the metadata, so zeroing a
granted block clears no bit: `LayoutFacts`, from the arithmetic lemmas `DivMono`,
`DivStep` and `GroupsBound`, and that what is `Reserved` is among what `format` marks
(`ReservedIsMeta`). One lemma per action preserves `IInv`; `StepRefines`
maps every step to a step of `Allocator` or a stutter.

`BlockMapProofs` proves for any number of direct addresses, any size of blocks and
of indirect blocks, any disk and any files (`BlockMapAssumption`: the three sizes
are positive), and any number of crashes, `Exclusive`, `NoHoles`, `Exact` and `SuperblockKept`. A tree is not
a recursive structure there but the function that takes a path - the slot of the
inode, then a word in each indirect block - to the block it leads to (`Ref`), and
two families of lemmas carry the proofs: what a write to one cell or one inode
does to all paths (`WalkLinkedTwo`, `WalkLinkedThree`, `WalkPart`, `TreeGrows`,
`TreesKept`), and what each command plans (`WriteiPlan`, `ItestPlan`, `TruncPlan`,
`PlanOf_w`, `PlanOf_i`, `PlanOf_d`). The invariant `IInv` has a part for each
thing that the next would not survive without:
- `Types`: also that an address on disk is 0 or the one in memory, so what a
  crash leaves is a part of a tree that is sound;
- `Meant`: a block that was marked is meant for the gap the command is at, so
  it is linked there and nowhere else;
- `Planned`: a command that frees a tree does nothing after it but clear the
  inode and take its entry, no place is freed twice, and every block that is put
  is followed by a write of the inode;
- `Trunks` (unless itest freed a block or a crash cut itrunc short): no block is
  reached twice, and none just allocated is reached, in any tree, those of the
  inodes that only memory has included. It gives `Exclusive`. A block that is
  written, zeroed or freed is therefore in no other tree and no indirect block of
  its own, which keeps all trees;
- `Filling` (unless there was harm other than crashes): the blocks an inode on
  disk says it has are there, and those that a planned write of it will say are
  there or are put before. It gives `NoHoles`, and is why the inode is written
  last;
- `Accounted` (while nothing has happened to the disk): the marked blocks are
  those in the trees and the one being allocated, where a tree that is being freed
  counts only with the places still to come, of which `itrunc`'s order leaves none
  out (`EachPathOnce`, `PartsOfPaths`). It gives `Exact`.

`ServerProofs` proves of `Sessions` for every number of clients, users and directories
(`SessionsAssumption`) `TypeOK`, `Durable`, `FreshStart`, `NoImpersonation`,
`StaysLoggedIn` and `OwnDirectory`.
The inductive invariant of the first four is
`SInv == TypeOK /\ Stored /\ RootWhenOut /\ Mutex /\ Anonymous /\ Noticed /\ InMap`:
the profiles on disk are those in memory between commands (`Stored`), who is logged
out is at the root (`RootWhenOut`), the holder of the mutex is a connected client
(`Mutex`), only connected clients are logged in (`Anonymous`), who is astray is
connected and recorded (`Noticed`), and, while the map has never been full, every
connection has an entry, one that is not astray has one entry only, with the uid its
client logged in with, and the globals of its command are of that uid or of nobody
(`InMap`). What clients that are astray do to profiles and globals does not disturb
that: `load_user` fills the globals anew for each command, or leaves the 0 that
`save_user` put there. `StaysLoggedIn` and `OwnDirectory` need more: a profile belongs to a
uid and not to a client, so that clients who share a uid take each other's, and
one who leaves empties any of them. `AInv` therefore says that there is *some*
assignment of profiles to the clients that are logged in, one to each, with its
uid (`Assigned`); each step gives the next assignment, exchanging two of them when
a command takes the other's. While no uid is shared the assignment is the only one
and says where each client is (`Kept`).

`LibraryProofs` proves of `ThreadPool` for every finite number of threads and any
jobs (`ThreadPoolAssumption`) `PoolTypeOK`, `NoJobStranded` and `IdleMeansDone`, and that
the pool implements the safety of `JobQueue`. `NoJobStranded` is inductive with
the types; `IdleMeansDone` needs that the counter is the cardinality of the set
of threads that counted themselves in (`Counted`).

`ServerLoopProofs` proves for any clients, threads, slots and descriptors
(`ServerLoopAssumption`) `OneHandler`, `UsesPool` and `Descriptors` (its parts are
`SlotsApart` and `ReplyToAsker`) and `TypeOK`, in three invariants. `LInv` is
`OneHandler` and the shape of what it speaks of;
descriptors play no part in it, so no race over them can make two threads handle
a slot. `UsesPool` follows step by step. `DInv` adds that a slot whose descriptor
is not open is being closed (`Watched`), that a thread which has not yet closed its
descriptor has the one of its slot (`Tracks`), that a descriptor just accepted is
open and only slots being closed still have it (`Accepted`), and that a thread
with an answer to give has an open descriptor (`Replying`). The step that matters
is the close: `SlotsApart` and `OneHandler` say that no other thread is using the
descriptor (`OwnDescriptor`), and that a slot that still has it is being closed.
`TInv` adds what the types need: the backlog holds each queued client once
(`Queued`), for which a client may own one descriptor at most and none while it
queues (`Owned`), and `nready` is bounded by where the main thread is since
`select` counted (`Counted`).

`LibraryProofs` proves of `Connection` for buffers of any length, any messages and
any cut of the network (`TcpBufferAssumption`, `ConnectionAssumption`,
`MessageAssumption`)
`HalfFits`, that the client and the server stay in step (`InStep`), and `Intact`
for as long as nothing was lost. The invariant is
`CInv == HalfFits /\ (lost = NoMsg => Sound)`. `Sound` says that every buffer is
tidy, reading in its first half, and whose turn it is (`Turn`): nothing is under
way (`Idle`), or one command is (`Asking`), or one reply (`Answering`), and then
that one frame lies spread over the reader's buffer, the network and the writer's,
each holding a part where the other ends (`Spread`). `HalfFits` follows because a
message that fits half a buffer fits what is left of one that is tidy. After a
loss, frames follow each other in a buffer in any number, and that they are whole
would take an induction over them: TLC checks it, in `conn`, as far as `FewUnderWay`
lets it go.

`DiskServerProofs` proves for every geometry and any contents
(`DiskServerAssumption`, `NothingAssumption`) `Coherent`, `Durable` and `Cut`. Its `DInv` says that
a request says where its block is (`Placing`, with the lemma `Geometry` that a block
number is a cylinder and a sector), what a connection that has ended leaves
(`Linked`), that on an open one a single request is under way, behind those of file
servers that died (`Order`), that a reply says how things are (`Replied`), that
nothing is claimed of a block while a write to it waits (`Pending`), and how much of
the write under way is on the disk (`Copying`). From these follows that what this
file server read or wrote is there (`KnownIsThere`) and that what was acknowledged
to any stands (`KeptStands`), but for the byte that a restart clears.

`ServerProofs` proves of `Dispatch` for any clients and any messages
(`DispatchAssumption`) `FirstIsOwn`, `StillThere` and `Whole`. `DispatchInv` says that who parses holds the
mutex (`OneParser`), and of each client how many arguments there are (`Counting`),
that its own words among them come first and in order (`Places`), and where the
pointer may be while it parses (`GoesOn`): in the message of another command only
if that one waits for the mutex (`Waits`), in its own only behind the arguments so
far (`Follows`), and at the next word exactly when nobody interfered (`InOrder`).

`FileEditProofs` proves for blocks of any size, files of any number of blocks, any
texts, positions and lengths (`FileEditAssumption`: an unsigned int holds more than
twice the largest file) `Edited`, `BeforePosition` and `TextOnly`. What the rounds
of a loop have done so far is not computed by induction over the rounds but stated
by the invariant `IInv`: for each call of `readi` and `writei` that a command has
still to make there is a formula in `tot` that says which bytes of the file are the
text's (`Wrote`), which are moved (`Moved`), which are as they were (`Kept`), and
what the buffer holds (`Has`); `AtCat`, `AtWrite`, `AtAppend`, `AtInsert`, `AtCut`
and `AtDelete` have one disjunct for each call. A round extends the formula by the
bytes of one chunk, of which the lemmas about blocks say where they lie
(`Divided`, `OneQuotient`, `InFile`). Which command takes which of these paths is decided
by the sums that wrap (`End`, `Then`), and whether the writes of `i` are made by what
fits the largest file (`Taken`, `Fits`): `Edited` says of every `i` what the file is
after it, but for the bytes that it reads beyond its buffer, of which it says how many
there are. `Clean` says that while nothing has spilt
the text reaches up to the size and no command reaches beyond it, and gives
`TextOnly`.

`FsTreeProofs` proves for any number of inodes, users, names and modes
(`FsTreeAssumption`) `NothingDangles`, `RemovedByRight`, `Shape` and `PwdAgrees`,
in two invariants. `RInv` speaks of the writes a command has still to make, whatever
has happened before. While a format clears the table, and after a crash in that,
it says only which writes are still to come: the rest of the clearing, each for a block
of the table, and the founding (`Clearings`, `ToClear`); the last of them leaves a table
with nothing in it. From then on, no write takes an inode away,
and an entry is written only when its inode was (`Ordered`); what a write removes
from a directory its user may remove, in the table as it was when the command
began (`Rightful`); who is in a directory is in one, or in one that the writes still
make (`Placed`). It is kept by a `Step`, which makes the first of the writes, and by
a `Crash`, which forgets them; the lemmas `MakeGood`, `ToHomeGood`, `RmClean`,
`RmdirClean` and `FormatIs` say that every command plans such writes. So
`NothingDangles` promises nothing of the entries on a `torn` table, where the blocks
still to clear name inodes in those that are cleared. `SInv` adds
`Shaped`: until a crash, the table that the writes will leave
(`After(ino, todo)`) is a tree, so that a step keeps it for nothing and a command has to
show it once, of its whole plan. `TreeOf` says more than `Shape`, which would not
be inductive: every directory's dots lead to a directory that has an entry for it,
so that a directory which is made or removed is known to be under no other, and
a root without dots, or a removed directory that someone is still in, has none at
all (`Rooted`). In the middle of `rmdir` the directory is emptied and its entry still
there: `TreeBut` excepts it. That `delinum` keeps as many entries as it counted is a
lemma about cardinalities (`PackedIs`, from `RankIs`): the entries that are kept
correspond to the numbers up to their count, in their order. It fails only
when the directory has been emptied between counting and keeping, `rmdir .`
(`Childless`).

`PwdAgrees` says that `pwd` comes to the root and back for a user in a directory that
`MAXNAMES` names lead to (`Near`) and whom the permission check lets pass. It follows
from `TreeOf` alone, by way of a witness: the sequence of the
entries that lead from the root to a directory (`Trail`). Every inode of `Near` has one
of at most `MAXNAMES` entries (`TreeTrail`, by the least round that would have none), and it comes
to no inode twice (`TrailApart`), since an inode has one entry and the root none.
So what `pwd` finds first in a parent is the entry of the way and neither of the
dots (`DotsBefore`, `UpByInode`), and `cd` finds it by its name (`DownByName`). The
values of `pwd` and `cd` round by round can then be written down from the way
(`Went`, `Led`); that these are the ones the recursive functions have is shown by
the least round where they would differ (`PwdTrail`, `CdTrail`).

Only model-checked: `Intact` after a loss, for the reason given above, and liveness
under fairness (the pool's promise to start jobs, `WaitReturns`, both `Answered`,
`Returns`), which is out of the prover's reach, as is `ENABLED`. No module uses a
`RECURSIVE` operator. Induction over data, which the prover cannot do either, is
avoided as above: by a witness, and the least number that is wrong.

## 5. Not modelled, and why

- The words of commands and replies: the models keep how many there are, whose
  they are and how long a message is, which is all that the state depends on.
- `ls`: it changes no state. `pwd` changes none either; it is an operator in `FsTree`,
  with its permission check and the names it has room for. Writing beyond these is where
  the model stops (`end` is "overflow").
- Inodes that the data of a file has overwritten, and blocks of files that an inode has:
  what section 3 says of `fs.c:80` is written into `Layout` and `BlockAlloc`, and the
  other models speak of disks on which it has not happened.
- `thpool_pause`, `thpool_resume`, `thpool_destroy` and what only they use: nothing
  calls them.
- The shells that run a file server or a disk in one process (`fs/src/main.c`,
  `disk/src/main.c`): the same functions, called one after the other. Of the clients
  (`fs/src/client.c`, `disk/src/client.c`), what `Connection` needs: one message
  sent, one received. A disk client beside the file server, with which nothing
  coordinates.
- A loss of power that keeps a block from the medium after `msync`: the code can do
  nothing about it. The delay of the simulated arm.
- In `DiskServer`, a file server that gets a lower slot of the TCP layer than one
  that died and is overtaken in `select`'s order: with one worker thread its first
  request would have to arrive before the old ones were read.
- In `Dispatch`, a second message of a client, read into the buffer a word was
  taken from; in `ServerLoop`, buffers freed while a thread uses them. What they
  then hold is arbitrary.
- Logging and the tests' harness: they keep no state of the system.

## 6. Plan

Done, in this order: `Allocator`, `BlockAlloc`, `Sessions`, `BlockMap`, with proofs;
`FileEdit`; `FsTree`; `JobQueue`, `ThreadPool`, `ServerLoop`, with proofs;
`Dispatch`, `TcpBuffer`, `Connection` and `DiskServer`, with proofs; the proofs about
`FileEdit` and `FsTree`.

Left: `Intact` after the first loss, which takes a formula for the frames that follow
each other in a buffer.
