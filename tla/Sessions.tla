------------------------------ MODULE Sessions ------------------------------
(* Who a command runs as.  The server keeps a map from connections to user *)
(* ids (clientmap), a table of profiles in the superblock (sb.users) and,  *)
(* while it holds its mutex, the globals uid, cwd and profid of the one    *)
(* command it is running.  load_user fills the globals before a command,   *)
(* save_user stores them after it; on_connection and cleanup change the    *)
(* map without the mutex.  Connection ids are slots of the TCP layer and   *)
(* are given to another client once free.                                  *)
EXTENDS Integers

CONSTANTS
    MAXUSER,    \* entries of the map, and of the profile table
    Ids,        \* connection slots
    Uids,       \* user ids clients log in with; 1 is the administrator
    Dirs,       \* inode numbers of directories; 0 is the root
    Home        \* inode number of /home

ASSUME SessionsAssumption ==
    /\ MAXUSER \in Nat \ {0}
    /\ Ids \subseteq Nat
    /\ Uids \subseteq Nat \ {0}
    /\ Dirs \subseteq Nat /\ 0 \in Dirs /\ Home \in Dirs \ {0}

NoId == -1      \* client_id of a free map entry, and the owner of a free mutex
Slots == 0 .. MAXUSER - 1
UidsOrNone == Uids \cup {0}

VARIABLES
    conn,       \* state of each connection: free, open, or leaving after `e'
    map,        \* clientmap
    users,      \* sb.users
    disk,       \* the profiles in block 0 on disk
    dirs,       \* directories that exist; {} until the disk is formatted
    g,          \* the globals uid, cwd, profid
    busy,       \* owner of mutex_lock, NoId when it is free
    ran,        \* the handler of the command in progress has returned
    who,        \* ghost: whom the client of each connection logged in as
    at,         \* ghost: the directory that client is in
    slips,      \* history: what happened that the code does not allow for
    astray      \* history: clients whose map entry is not theirs (see below)

vars == <<conn, map, users, disk, dirs, g, busy, ran, who, at, slips, astray>>

Globals == [uid : UidsOrNone, cwd : Dirs, profid : Slots]
NoUser  == [uid |-> 0, cwd |-> 0, profid |-> 0]
NoProfile == [uid |-> 0, cwd |-> 0]
Profiles == [Slots -> [uid : UidsOrNone, cwd : Dirs]]

TypeOK ==
    /\ conn \in [Ids -> {"free", "open", "leaving"}]
    /\ map \in [Slots -> [id : Ids \cup {NoId}, uid : UidsOrNone]]
    /\ users \in Profiles /\ disk \in Profiles
    /\ dirs \in SUBSET Dirs
    /\ g \in Globals
    /\ busy \in Ids \cup {NoId}
    /\ ran \in BOOLEAN
    /\ who \in [Ids -> UidsOrNone]
    /\ at \in [Ids -> Dirs]
    /\ slips \in SUBSET {"full", "mixed", "lost", "shared"}
    /\ astray \in SUBSET Ids

NoMap == [i \in Slots |-> [id |-> NoId, uid |-> 0]]

Init ==
    /\ conn = [i \in Ids |-> "free"]
    /\ map = NoMap
    /\ users = [j \in Slots |-> NoProfile] /\ disk = users
    /\ dirs = {}
    /\ g = NoUser
    /\ busy = NoId /\ ran = FALSE
    /\ who = [i \in Ids |-> 0] /\ at = [i \in Ids |-> 0]
    /\ slips = {} /\ astray = {}

-----------------------------------------------------------------------------
(* Loops that stop at the first index of a table.                          *)
First(i, S) == i \in S /\ \A k \in S : i <= k

Entries(id) == {i \in Slots : map[i].id = id}

-----------------------------------------------------------------------------
(* Connections.  add_conn takes a free slot and calls on_connection, which *)
(* takes the first free map entry, or reports "No free uid space" and      *)
(* leaves the client out of the map.                                       *)
(* Mutants: the uid left in the entry is kept; the entry gets a bad uid.   *)
on_connection_KeepUid(id) ==
    \/ \E i \in Slots : First(i, Entries(NoId)) /\ map' = [map EXCEPT ![i].id = id]
    \/ Entries(NoId) = {} /\ map' = map
on_connection_BadUid(id) ==
    \/ \E i \in Slots : First(i, Entries(NoId))
                     /\ map' = [map EXCEPT ![i] = [id |-> id, uid |-> NoId]]
    \/ Entries(NoId) = {} /\ map' = map

on_connection(id) ==
    \/ \E i \in Slots : First(i, Entries(NoId))
                     /\ map' = [map EXCEPT ![i] = [id |-> id, uid |-> 0]]
    \/ Entries(NoId) = {} /\ map' = map

Connect(id) ==
    /\ conn[id] = "free"
    /\ conn' = [conn EXCEPT ![id] = "open"]
    /\ on_connection(id)
    /\ slips' = slips \cup (IF Entries(NoId) = {} THEN {"full"} ELSE {})
                      \cup (IF Entries(id) # {} THEN {"mixed"} ELSE {})
    /\ astray' = IF Entries(id) # {} THEN astray \cup {id} ELSE astray
    /\ UNCHANGED <<users, disk, dirs, g, busy, ran, who, at>>

(* cleanup: the loop breaks after its first round, so that only entry 0 is *)
(* ever given back.                                                        *)
cleanup(id) ==
    map' = IF map[0].id = id THEN [map EXCEPT ![0].id = NoId] ELSE map

(* The client closed the connection, or `e' closed it.  The thread that    *)
(* cleans up has finished the client's commands.                           *)
Disconnect(id) ==
    /\ conn[id] # "free" /\ busy # id
    /\ conn' = [conn EXCEPT ![id] = "free"]
    /\ cleanup(id)
    /\ who' = [who EXCEPT ![id] = 0] /\ at' = [at EXCEPT ![id] = 0]
    /\ astray' = astray \ {id}
    /\ UNCHANGED <<users, disk, dirs, g, busy, ran, slips>>

-----------------------------------------------------------------------------
(* A command: lock and load, run, save and unlock.                         *)

(* load_user: the first profile of the first map entry of id that has one; *)
(* cwd falls back to the root when its inode does not exist.  When there   *)
(* is none the globals keep what the last command left in them.            *)
ProfilesOf(i) == {j \in Slots : users[j].uid = map[i].uid}
Matching(id) == {i \in Entries(id) : ProfilesOf(i) # {}}

(* Mutant: profid is not set.                                              *)
load_user_NoProfid(id) ==
    \/ \E i \in Slots, j \in Slots :
         /\ First(i, Matching(id)) /\ First(j, ProfilesOf(i))
         /\ g' = [g EXCEPT !.uid = users[j].uid,
                           !.cwd = IF users[j].cwd \in dirs THEN users[j].cwd ELSE 0]
    \/ Matching(id) = {} /\ g' = g

load_user(id) ==
    \/ \E i \in Slots, j \in Slots :
         /\ First(i, Matching(id)) /\ First(j, ProfilesOf(i))
         /\ g' = [uid |-> users[j].uid, profid |-> j,
                  cwd |-> IF users[j].cwd \in dirs THEN users[j].cwd ELSE 0]
    \/ Matching(id) = {} /\ g' = g

Begin(id) ==
    /\ conn[id] = "open" /\ busy = NoId
    /\ busy' = id /\ ran' = FALSE
    /\ load_user(id)
    /\ slips' = slips \cup (IF Matching(id) = {} THEN {"lost"} ELSE {})
    /\ UNCHANGED <<conn, map, users, disk, dirs, who, at, astray>>

(* Commands.  to_home makes the directories it needs, here any of `more',  *)
(* and comes back to where it was, unless it fails below /home.            *)
to_home(more, cwd) ==
    /\ dirs' = IF dirs = {} THEN {} ELSE dirs \cup more
    /\ cwd = g.cwd \/ (cwd = Home /\ Home \in dirs')

cmd_login(u, more, cwd) ==
    /\ to_home(more, cwd)
    /\ g' = [g EXCEPT !.uid = u, !.cwd = cwd]
    /\ who' = [who EXCEPT ![busy] = u] /\ at' = [at EXCEPT ![busy] = cwd]
    /\ slips' = slips
         \cup (IF who[busy] # 0 THEN {"mixed"} ELSE {})
         \cup (IF \E j \in Slots : users[j].uid = u THEN {"shared"} ELSE {})
    /\ astray' = IF who[busy] # 0 THEN astray \cup {busy} ELSE astray
    /\ UNCHANGED <<conn, users, disk>>

cmd_exit ==
    /\ g' = [g EXCEPT !.uid = 0, !.cwd = 0]
    /\ conn' = [conn EXCEPT ![busy] = "leaving"]
    /\ who' = [who EXCEPT ![busy] = 0] /\ at' = [at EXCEPT ![busy] = 0]
    /\ UNCHANGED <<users, disk, dirs, slips, astray>>

cmd_cd(d) ==
    /\ g.uid # 0 /\ d \in dirs
    /\ g' = [g EXCEPT !.cwd = d]
    /\ at' = [at EXCEPT ![busy] = d]
    /\ UNCHANGED <<conn, users, disk, dirs, who, slips, astray>>

cmd_mkdir(d) ==
    /\ g.uid # 0 /\ dirs # {}
    /\ dirs' = dirs \cup {d}
    /\ UNCHANGED <<conn, users, disk, g, who, at, slips, astray>>

(* format() gives profile 0 to the administrator and writes the superblock *)
(* at once; every directory is gone.                                       *)
cmd_f(more, cwd) ==
    /\ g.uid = 1
    /\ cwd = 0 \/ (cwd = Home /\ Home \in more)
    /\ users' = [users EXCEPT ![0] = [uid |-> 1, cwd |-> 0]]
    /\ disk' = users'
    /\ dirs' = {0} \cup more
    /\ g' = [g EXCEPT !.cwd = cwd]
    /\ at' = [i \in Ids |-> IF i = busy THEN cwd ELSE 0]
    /\ slips' = slips \cup {"lost"}
    /\ UNCHANGED <<conn, who, astray>>

(* Every other command, and every command that is refused.                 *)
OtherCommand == UNCHANGED <<conn, users, disk, dirs, g, who, at, slips, astray>>

Run ==
    /\ busy # NoId /\ ~ran
    /\ ran' = TRUE
    /\ \/ \E u \in Uids, more \in SUBSET (Dirs \ {0}), cwd \in Dirs :
            cmd_login(u, more, cwd)
       \/ cmd_exit
       \/ \E d \in Dirs : cmd_cd(d)
       \/ \E d \in Dirs \ {0} : cmd_mkdir(d)
       \/ \E more \in SUBSET (Dirs \ {0}), cwd \in Dirs : cmd_f(more, cwd)
       \/ OtherCommand
    /\ UNCHANGED <<map, busy>>

(* save_user: for a client of the map only, the profile is stored, the     *)
(* superblock written and the globals reset.                               *)
(* Mutants: the superblock is not written; cwd is not stored.              *)
save_user_NoWrite(id) ==
    \/ \E i \in Slots :
         /\ First(i, Entries(id))
         /\ map' = [map EXCEPT ![i].uid = IF @ = 0 THEN g.uid ELSE @]
         /\ users' = [users EXCEPT ![g.profid] = [uid |-> g.uid, cwd |-> g.cwd]]
         /\ disk' = disk
         /\ g' = NoUser
    \/ Entries(id) = {} /\ UNCHANGED <<map, users, disk, g>>
save_user_NoCwd(id) ==
    \/ \E i \in Slots :
         /\ First(i, Entries(id))
         /\ map' = [map EXCEPT ![i].uid = IF @ = 0 THEN g.uid ELSE @]
         /\ users' = [users EXCEPT ![g.profid].uid = g.uid]
         /\ disk' = users'
         /\ g' = NoUser
    \/ Entries(id) = {} /\ UNCHANGED <<map, users, disk, g>>

save_user(id) ==
    \/ \E i \in Slots :
         /\ First(i, Entries(id))
         /\ map' = [map EXCEPT ![i].uid = IF @ = 0 THEN g.uid ELSE @]
         /\ users' = [users EXCEPT ![g.profid] = [uid |-> g.uid, cwd |-> g.cwd]]
         /\ disk' = users'
         /\ g' = NoUser
    \/ Entries(id) = {} /\ UNCHANGED <<map, users, disk, g>>

End ==
    /\ busy # NoId /\ ran
    /\ save_user(busy)
    /\ busy' = NoId /\ ran' = FALSE
    /\ UNCHANGED <<conn, dirs, who, at, slips, astray>>

-----------------------------------------------------------------------------
(* The server dies and is started again: main() reads the superblock back  *)
(* and empties the map; every connection is gone.                          *)
Restart ==
    /\ conn' = [i \in Ids |-> "free"]
    /\ map' = NoMap
    /\ users' = disk
    /\ g' = NoUser
    /\ busy' = NoId /\ ran' = FALSE
    /\ who' = [i \in Ids |-> 0] /\ at' = [i \in Ids |-> 0]
    /\ slips' = {} /\ astray' = {}
    /\ UNCHANGED <<disk, dirs>>

Next ==
    \/ \E id \in Ids : Connect(id) \/ Disconnect(id) \/ Begin(id)
    \/ Run \/ End
    \/ Restart

Spec == Init /\ [][Next]_vars

-----------------------------------------------------------------------------
(* Properties.  `slips' says what the server met that it has no answer to: *)
(* "full", a client was left out of the map ("No free uid space"), runs on *)
(* what the globals hold and leaves its own behind in them; "mixed", a     *)
(* client was given a slot with an entry of an earlier client, or logged   *)
(* in twice, so that its entry is not what it is: it is then `astray';     *)
(* "lost", the server reported "No matching userfile" or formatted the     *)
(* disk; "shared", a client logged in with a uid that had a profile.       *)

(* Between commands the profiles on disk are those in memory: a crash      *)
(* loses nothing of a command that was answered.                           *)
Durable == busy = NoId => disk = users

(* A profile of nobody is at the root, so a client that takes it over at   *)
(* login does not start in the directory its last owner left.              *)
FreshStart == \A j \in Slots : users[j].uid = 0 => users[j].cwd = 0

(* A command of a client that logged in once, on a slot without an entry   *)
(* of an earlier client, does not run as another user: it has the uid its  *)
(* client logged in with, or none, whatever entries and profiles the       *)
(* clients that are astray get, take or overwrite, and whatever profiles   *)
(* are lost.  Of a client that is astray itself this is false, and once    *)
(* the map was full nothing is said.                                       *)
NoImpersonation ==
    busy # NoId /\ ~ran /\ busy \notin astray /\ "full" \notin slips
        => g.uid \in {0, who[busy]}

Settled(id) == conn[id] = "open" /\ busy # id /\ who[id] # 0

(* A client that is logged in keeps a profile with its uid, also when      *)
(* several clients share a uid and some of them leave.                     *)
StaysLoggedIn ==
    slips \subseteq {"shared"} =>
        \A id \in Ids : Settled(id) => \E j \in Slots : users[j].uid = who[id]

(* Clients of different uids do not move each other: each one's profile    *)
(* has the directory its own commands left it in.                          *)
OwnDirectory ==
    slips = {} =>
        \A id \in Ids : Settled(id) =>
            \E j \in Slots : users[j] = [uid |-> who[id], cwd |-> at[id]]
=============================================================================
