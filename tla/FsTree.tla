------------------------------- MODULE FsTree -------------------------------
(* The tree of directories: the inode table with the entries of each       *)
(* directory, the permissions, and the directory each user is in.  One     *)
(* command runs at a time (Sessions), a step is a write of an inode or of  *)
(* its entries, and the server can die between two.  Entries of a          *)
(* directory fit one block; one beyond its size is not there.              *)
(* Assumed: no block holds both entries and inodes.  The allocator grants  *)
(* blocks of the inode table beyond the first few as well (Layout's        *)
(* Apart), so this holds of a disk while the inodes of the blocks it has   *)
(* granted are not in use.                                                 *)
EXTENDS Integers, SequencesExt, FiniteSets

CONSTANTS
    NINODE,     \* inodes of the disk
    IPB,        \* inodes in a block of their table
    MAXNAMES,   \* names pwd has room for
    Users,      \* uids; 1 is the superuser
    Names,      \* names given to mk and mkdir
    Modes,      \* modes given to them
    Open        \* the mode of the directories to_home makes: all rights

ASSUME FsTreeAssumption ==
    /\ NINODE \in Nat /\ NINODE > 3
    /\ IPB \in Nat \ {0} /\ MAXNAMES \in Nat
    /\ 1 \in Users /\ Users \subseteq Nat \ {0}
    /\ Open \in Modes
    /\ \A m \in Modes : m.own \subseteq {"R", "W"} /\ m.oth \subseteq {"R", "W"}

VARIABLES
    ino,        \* on disk: the inodes, directories with their entries
    cwd,        \* on disk, in the profiles: where each user is
    cmd,        \* the command in progress, its user, and how it will end
    todo,       \* the writes it has still to make
    torn,       \* history: a format has cleared a part of the table only
    crashed,    \* history: the server died in the middle of its writes, and
                \* no format has cleared the table since
    lost        \* history: a format took away the directory a user was in

vars == <<ino, cwd, cmd, todo, torn, crashed, lost>>

T_DIR == "dir"
T_FILE == "file"
Inums == 0 .. NINODE - 1
NoRights == [own |-> {}, oth |-> {}]
Empty == [type |-> "empty", mode |-> NoRights, uid |-> 0, ents |-> <<>>]
Entry(name, inum) == [name |-> name, inum |-> inum]

(* fate: the command returns, fails the assertion of delinum, or uses the  *)
(* NULL that ialloc or iget returned.                                      *)
Cmd(k, u, to, fate) == [k |-> k, u |-> u, to |-> to, fate |-> fate]
Idle == Cmd("idle", 0, 0, "returns")
Quiet == cmd = Idle

TypeOK ==
    /\ \A i \in Inums :
         /\ ino[i].type \in {"empty", T_DIR, T_FILE}
         /\ ino[i].mode \in Modes \cup {NoRights} /\ ino[i].uid \in Users \cup {0}
         /\ ino[i].type # T_DIR => ino[i].ents = <<>>
         /\ \A e \in ToSet(ino[i].ents) : e.inum \in 0 .. NINODE
    /\ cwd \in [Users -> Inums]
    /\ cmd.fate \in {"returns", "asserts", "null"}
    /\ Quiet => todo = <<>>
    /\ torn \in BOOLEAN /\ crashed \in BOOLEAN /\ lost \in BOOLEAN

-----------------------------------------------------------------------------
(* Reading a table of inodes.                                              *)
Live(t, d) == {e \in ToSet(t[d].ents) : e.inum # NINODE}
Deleted(ents) == Cardinality({k \in DOMAIN ents : ents[k].inum = NINODE})

(* findinum: the first entry of the name, or NINODE.                       *)
findinum(t, d, name) ==
    LET k == SelectInSeq(t[d].ents, LAMBDA e : e.inum # NINODE /\ e.name = name)
    IN IF k = 0 THEN NINODE ELSE t[d].ents[k].inum

(* checkPermission.                                                        *)
(* Mutant: the rights of others are not looked at.                         *)
Can_Others(t, u, i, need) ==
    \/ u = 1
    \/ t[i].uid # u
    \/ need \subseteq t[i].mode.own

Can(t, u, i, need) ==
    \/ u = 1
    \/ t[i].uid = u /\ need \subseteq t[i].mode.own
    \/ t[i].uid # u /\ need \subseteq t[i].mode.oth

RW == {"R", "W"}

MayEnter(t, u, i) == Can(t, u, i, {"R"}) /\ t[i].type = T_DIR

(* _cd for one name and cmd_cd for a path; NINODE when it fails.           *)
_cd(t, u, d, name) ==
    LET i == findinum(t, d, name)
    IN IF i = NINODE THEN NINODE
       ELSE IF MayEnter(t, u, i) THEN i ELSE NINODE

cd(t, u, d, path) ==
    LET at[n \in 0 .. Len(path)] ==
          IF n = 0 THEN d
          ELSE IF at[n - 1] = NINODE THEN NINODE ELSE _cd(t, u, at[n - 1], path[n])
    IN at[Len(path)]

-----------------------------------------------------------------------------
(* Writes, planned from a table: the inodes at `at' become `to'.  After    *)
(* several an inode is what the last one at it made of it.                 *)
Write(i, to) == [at |-> {i}, to |-> to]
Apply(t, w) == [i \in Inums |-> IF i \in w.at THEN w.to ELSE t[i]]
After(t, ws) ==
    [i \in Inums |->
       LET ks == {k \in DOMAIN ws : i \in ws[k].at}
       IN IF ks = {} THEN t[i] ELSE ws[Max(ks)].to]
Plan(ok, fate, ws) == [ok |-> ok, fate |-> fate, ws |-> ws]
Refused == Plan(FALSE, "returns", <<>>)

(* ialloc takes the first empty inode; an inode is never emptied again.    *)
Unused(t) == {i \in Inums : t[i].type = "empty"}

(* Mutant: `..' is the root.                                               *)
Dots_Root(type, i, p) == IF type = T_DIR THEN <<Entry(".", i), Entry("..", 0)>> ELSE <<>>
Dots(type, i, p) == IF type = T_DIR THEN <<Entry(".", i), Entry("..", p)>> ELSE <<>>

(* The parent's entry comes last; the root (its own parent) has none.      *)
(* Mutant: it comes before the inode.                                      *)
Linked_First(made, entry) == entry \o made
Linked(made, entry) == made \o entry

icreate(t, type, name, p, u, mode) ==
    IF Unused(t) = {} THEN Plan(FALSE, "null", <<>>)
    ELSE LET i == CHOOSE x \in Unused(t) : \A y \in Unused(t) : x <= y
             new == [Empty EXCEPT !.type = type]
             made == [type |-> type, mode |-> mode, uid |-> u, ents |-> Dots(type, i, p)]
             entry == [t[p] EXCEPT !.ents = Append(@, Entry(name, i))]
         IN Plan(TRUE, "returns", Linked(<<Write(i, new), Write(i, made)>>,
                                         IF p = i THEN <<>> ELSE <<Write(p, entry)>>))

(* cmd_mk and cmd_mkdir.                                                   *)
Acceptable(t, d, name) == name \notin {".", ".."} /\ findinum(t, d, name) = NINODE

make(t, type, name, d, u, mode) ==
    IF t[d].type = "empty" THEN Plan(FALSE, "null", <<>>)
    ELSE IF Can(t, u, d, RW) /\ Acceptable(t, d, name)
    THEN icreate(t, type, name, d, u, mode)
    ELSE Refused

(* delinum: entries of the inode are marked deleted; when more than half   *)
(* are, the others are moved to the front and the size follows.            *)
(* The entries that are kept, each moved over the deleted ones before it.  *)
Packed(ents) ==
    [n \in 1 .. Len(ents) - Deleted(ents) |->
       ents[CHOOSE k \in DOMAIN ents :
              /\ ents[k].inum # NINODE
              /\ Cardinality({j \in 1 .. k : ents[j].inum # NINODE}) = n]]

(* Mutant: the size does not follow.                                       *)
Compacted_KeepSize(ents, kept) == <<kept \o SubSeq(ents, Len(kept) + 1, Len(ents))>>
Compacted(ents, kept) ==
    <<kept \o SubSeq(ents, Len(kept) + 1, Len(ents)), kept>>

delinum(t, d, i) ==
    LET ents == t[d].ents
        marked == [k \in DOMAIN ents |->
                     IF ents[k].inum = i THEN [ents[k] EXCEPT !.inum = NINODE] ELSE ents[k]]
        kept == Packed(marked)
        deleted == 1 + Deleted(ents)
        put(es) == Write(d, [t[d] EXCEPT !.ents = es])
    IN IF deleted <= Len(ents) \div 2 THEN Plan(TRUE, "returns", <<put(marked)>>)
       ELSE IF Len(kept) # Len(ents) - deleted THEN Plan(FALSE, "asserts", <<put(marked)>>)
       ELSE Plan(TRUE, "returns",
                 <<put(marked)>> \o [k \in DOMAIN Compacted(marked, kept) |->
                                       put(Compacted(marked, kept)[k])])

(* cmd_rm: what itrunc and iupdate write of the file is in BlockMap.       *)
rm(t, name, d, u) ==
    LET i == findinum(t, d, name)
    IN IF i = NINODE THEN Refused
       ELSE IF t[i].type = T_FILE /\ Can(t, u, i, {"W"}) /\ Can(t, u, d, RW)
       THEN delinum(t, d, i)
       ELSE Refused

(* cmd_rmdir: the directory loses its entries before its parent loses it.  *)
Vacant(t, i) == \A e \in Live(t, i) : e.name \in {".", ".."}

rmdir(t, name, d, u) ==
    LET i == findinum(t, d, name)
        clear == Write(i, [t[i] EXCEPT !.ents = <<>>])
        rest == delinum(Apply(t, clear), d, i)
    IN IF i = NINODE THEN Refused
       ELSE IF t[i].type = T_DIR /\ Can(t, u, i, RW) /\ Can(t, u, d, RW) /\ Vacant(t, i)
       THEN [rest EXCEPT !.ws = <<clear>> \o @]
       ELSE Refused

(* to_home, from the directory c: /home and the user's directory in it are *)
(* made when cd does not get there, /home in c.  It ends in c, but in home *)
(* when the user's directory cannot be made or entered.                    *)
to_home(t, u, c) ==
    LET absent == cd(t, u, 0, <<"home">>) = NINODE
        p1 == IF absent THEN make(t, T_DIR, "home", c, u, Open) ELSE Plan(TRUE, "returns", <<>>)
        t1 == After(t, p1.ws)
        home == cd(t1, u, 0, <<"home">>)
        own == ToString(u)
        p2 == IF cd(t1, u, home, <<own>>) = NINODE THEN make(t1, T_DIR, own, home, u, Open)
              ELSE Plan(TRUE, "returns", <<>>)
        t2 == After(t1, p2.ws)
    IN IF ~p1.ok \/ home = NINODE THEN [p1 |-> p1, to |-> c]
       ELSE [p1 |-> [p2 EXCEPT !.ws = p1.ws \o @],
             to |-> IF p2.ok /\ cd(t2, u, home, <<own>>) # NINODE THEN c ELSE home]

-----------------------------------------------------------------------------
(* Commands.  load_user puts a user whose directory is gone in the root;   *)
(* a refused command changes nothing else, nor does one that finds no      *)
(* directory where its user is.  Bounds: nobody works in a directory that  *)
(* has become a file since, nor, but to format it again, on a disk whose   *)
(* format has died in the clearing (its bitmap was emptied first, so that  *)
(* blocks in use would be granted: BlockAlloc).                            *)
Exists(d) == ino[d].type = T_DIR
Where(u) == IF ino[cwd[u]].type = "empty" THEN 0 ELSE cwd[u]

Begin(k, u, p, to) ==
    /\ Quiet /\ ~torn
    /\ cmd' = Cmd(k, u, to, p.fate) /\ todo' = p.ws
    /\ UNCHANGED <<ino, cwd, torn, crashed, lost>>

Do(k, u, p) == (p.ok \/ p.fate # "returns") /\ Begin(k, u, p, Where(u))

cmd_mk(u, name, mode) ==
    Exists(Where(u)) /\ Do("mk", u, make(ino, T_FILE, name, Where(u), u, mode))
cmd_mkdir(u, name, mode) ==
    Exists(Where(u)) /\ Do("mkdir", u, make(ino, T_DIR, name, Where(u), u, mode))
cmd_rm(u, name) == Exists(Where(u)) /\ Do("rm", u, rm(ino, name, Where(u), u))
cmd_rmdir(u, name) == Exists(Where(u)) /\ Do("rmdir", u, rmdir(ino, name, Where(u), u))

cmd_cd(u, from, path) ==
    /\ Exists(from)
    /\ LET to == cd(ino, u, from, path)
       IN to # NINODE /\ Begin("cd", u, Plan(TRUE, "returns", <<>>), to)

cmd_login(u) ==
    /\ Exists(0) /\ ino[Where(u)].type # T_FILE
    /\ LET h == to_home(ino, u, Where(u)) IN Begin("login", u, h.p1, h.to)

refused(u) == Begin("refused", u, Refused, Where(u))

(* cmd_f: format puts the superuser in the root with its first write, then *)
(* clears the table, a block at a write, makes the root, and to_home.      *)
Formatted == [i \in Inums |-> Empty]
Clearing ==
    [k \in 1 .. (NINODE + IPB - 1) \div IPB |->
       [at |-> {i \in Inums : i \div IPB = k - 1}, to |-> Empty]]
Root == icreate(Formatted, T_DIR, "", 0, 0, Open)
Homes == to_home(After(Formatted, Root.ws), 1, 0)
Founding == Root.ws \o Homes.p1.ws
FormatWrites == Clearing \o Founding

cmd_f ==
    /\ Quiet
    /\ cmd' = Cmd("f", 1, Homes.to, "returns") /\ todo' = FormatWrites
    /\ cwd' = [cwd EXCEPT ![1] = 0]
    /\ torn' = TRUE /\ lost' = (lost \/ \E u \in Users \ {1} : cwd[u] # 0)
    /\ UNCHANGED <<ino, crashed>>

(* The last write of the clearing leaves a table with nothing of before.   *)
Step ==
    /\ todo # <<>>
    /\ ino' = Apply(ino, Head(todo)) /\ todo' = Tail(todo)
    /\ torn' = (torn /\ Tail(todo) # Founding)
    /\ crashed' = (crashed /\ torn' = torn)
    /\ UNCHANGED <<cwd, cmd, lost>>

(* save_user stores where the user is; a command that takes the server     *)
(* down does not get there.                                                *)
Finish ==
    /\ ~Quiet /\ todo = <<>>
    /\ cwd' = IF cmd.fate = "returns" THEN [cwd EXCEPT ![cmd.u] = cmd.to] ELSE cwd
    /\ cmd' = Idle
    /\ crashed' = (crashed \/ cmd.fate = "asserts")
    /\ UNCHANGED <<ino, todo, torn, lost>>

Crash ==
    /\ todo # <<>>
    /\ todo' = <<>> /\ cmd' = Idle
    /\ crashed' = TRUE /\ lost' = (lost \/ cmd.k = "f")
    /\ UNCHANGED <<ino, cwd, torn>>

Init ==
    /\ ino = After(Formatted, FormatWrites)
    /\ cwd = [u \in Users |-> 0]
    /\ cmd = Idle /\ todo = <<>>
    /\ torn = FALSE /\ crashed = FALSE /\ lost = FALSE

Next ==
    \/ \E u \in Users, name \in Names, mode \in Modes :
         cmd_mk(u, name, mode) \/ cmd_mkdir(u, name, mode)
    \/ \E u \in Users, name \in Names \cup {".", ".."} :
         \/ cmd_rm(u, name) \/ cmd_rmdir(u, name)
         \/ \E from \in {0, Where(u)} : cmd_cd(u, from, <<name>>)
    \/ \E u \in Users : cmd_login(u) \/ cmd_cd(u, 0, <<>>) \/ refused(u)
    \/ cmd_f
    \/ Step \/ Finish \/ Crash

Spec == Init /\ [][Next]_vars
-----------------------------------------------------------------------------
(* Properties.                                                             *)
Children(d) == {e \in Live(ino, d) : e.name \notin {".", ".."}}
Dirs == {i \in Inums : ino[i].type = T_DIR}
Sound == Quiet /\ ~crashed

(* Whatever write the server dies at, but one of the clearing, an entry    *)
(* names an inode that exists: no command meets the NULL of iget on its    *)
(* way down from the root.  In the clearing of the table (fs.c:92) there   *)
(* are entries in the blocks still to clear that name inodes of those      *)
(* cleared, until a format gets past it.                                   *)
EntriesExist ==
    ~torn => \A d \in Dirs : \A e \in Live(ino, d) : ino[e.inum].type # "empty"

(* Short of a crash the directories are a tree: an inode has one entry, a  *)
(* name is used once in a directory, and a directory's `.' and `..' say    *)
(* where it is, after any moves, deletions and compactions.                *)
TreeAgrees ==
    Sound =>
        /\ \A c, d \in Dirs : \A e \in Children(c), f \in Children(d) :
             e.inum = f.inum => c = d /\ e = f
        /\ \A d \in Dirs :
             /\ \A j, k \in DOMAIN ino[d].ents :
                  LET e == ino[d].ents[j]
                      f == ino[d].ents[k]
                  IN j # k /\ NINODE \notin {e.inum, f.inum} => e.name # f.name
             /\ \A e \in Children(d) :
                  ino[e.inum].type = T_DIR =>
                    IsPrefix(<<Entry(".", e.inum), Entry("..", d)>>, ino[e.inum].ents)

(* Not more than half the entries of a directory are deleted ones.         *)
HalfFull == Sound => \A d \in Dirs : 2 * Deleted(ino[d].ents) <= Len(ino[d].ents)

(* delinum counts as many entries as it keeps, `assert(j == newn)', but in *)
(* the rmdir of an empty current directory (where the command would end),  *)
(* which has cleared its entries before delinum counts them.               *)
AssertsOnlyOnDot ==
    cmd.fate = "asserts" =>
        crashed \/ (cmd.k = "rmdir" /\ Vacant(ino, cmd.to))

(* The directories keep their shape under every command.                   *)
Shape == TypeOK /\ TreeAgrees /\ HalfFull /\ AssertsOnlyOnDot

(* A user is in a directory, even one that others have removed since:      *)
(* nothing but a format takes an inode away.                               *)
CwdIsDirectory == ~lost /\ cmd.k # "f" => \A u \in Users : cwd[u] \in Dirs

(* What names an inode, an entry or a profile, names one that exists.      *)
NothingDangles == EntriesExist /\ CwdIsDirectory

(* cmd_pwd asks first whether the user may read the inode whose number is  *)
(* the user's own (fs.c:682); one that does not exist it takes for yes.    *)
Denied(u) == u \in Inums /\ ino[u].type # "empty" /\ ~Can(ino, u, u, {"R"})

(* Then it goes from parent to parent by the second entry of each, looking *)
(* for the entry that leads back, and writes the names into MAXNAMES       *)
(* places, beyond the last of them too.                                    *)
pwd(u, d) ==
    LET up[n \in 0 .. MAXNAMES + 1] ==
          IF n = 0 THEN [at |-> d, path |-> <<>>, end |-> IF Denied(u) THEN "denied" ELSE "no"]
          ELSE LET x == up[n - 1]
                   p == ino[x.at].ents[2].inum
                   k == SelectInSeq(ino[p].ents, LAMBDA e : e.inum = x.at)
               IN IF x.end # "no" THEN x
                  ELSE IF x.at = 0 THEN [x EXCEPT !.end = "root"]
                  ELSE IF Len(ino[x.at].ents) < 2 THEN [x EXCEPT !.end = "no parent"]
                  ELSE IF p \notin Inums THEN [x EXCEPT !.end = "no parent"]
                  ELSE IF k = 0 THEN [x EXCEPT !.end = "no name"]
                  ELSE IF n > MAXNAMES THEN [x EXCEPT !.end = "overflow"]
                  ELSE [x EXCEPT !.at = p, !.path = <<ino[p].ents[k].name>> \o @]
    IN up[MAXNAMES + 1]

(* The inodes that at most MAXNAMES names lead to.                         *)
Near ==
    LET down[n \in 0 .. MAXNAMES] ==
          IF n = 0 THEN {0}
          ELSE down[n - 1] \cup UNION {{e.inum : e \in Children(d)} : d \in down[n - 1]}
    IN down[MAXNAMES]

(* For a user whose directory is still in the tree, and not too deep in    *)
(* it, pwd comes to the root, and cd of what it prints comes back, unless  *)
(* the inode numbered as the user is may not be read.                      *)
PwdAgrees ==
    Sound => \A u \in Users :
        cwd[u] \in Near \cap Dirs /\ ~Denied(u) =>
            /\ pwd(u, cwd[u]).end = "root"
            /\ cd(ino, 1, 0, pwd(u, cwd[u]).path) = cwd[u]

(* Nothing disappears from a directory but by a user with the right to     *)
(* write it and its directory, crash or not.                               *)
Entitled(u, i) ==
    u = 1 \/ (IF ino[i].uid = u THEN "W" \in ino[i].mode.own ELSE "W" \in ino[i].mode.oth)
RemovedByRight ==
    [][cmd.k # "f" =>
        \A d \in Dirs : \A e \in Children(d) \ Live(ino', d) :
            Entitled(cmd.u, e.inum) /\ Entitled(cmd.u, d)]_vars
=============================================================================
