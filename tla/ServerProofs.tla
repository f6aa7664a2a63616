---------------------------- MODULE ServerProofs -----------------------------
(* Proofs about the commands of the file server.  Sessions, for any number *)
(* of connections, profiles, users and directories: the profiles on disk   *)
(* are always those in memory, a free profile is at the root, and no       *)
(* command of a client that logged in once, on a slot that nobody left an  *)
(* entry for, runs as another user while the map has room; who is logged   *)
(* in keeps a profile, and a directory.  Dispatch, for any clients and any *)
(* messages: what the arguments of a command are.                          *)
EXTENDS Sessions, Dispatch, TLAPS

-----------------------------------------------------------------------------
(* Sessions.                                                               *)
(* The inductive invariant.  While the map has room every connection has   *)
(* an entry, so that save_user resets the globals after every command, and *)
(* one that is not astray has one entry, which carries the uid of its      *)
(* client; only between the handler of the first login and save_user is    *)
(* the uid still to be stored, and then it is the one in the globals.      *)

Stored == disk = users
RootWhenOut == FreshStart /\ (g.uid = 0 => g.cwd = 0)

Mutex == /\ busy = NoId => ~ran
         /\ busy # NoId => conn[busy] # "free" /\ (~ran => conn[busy] = "open")

Anonymous == \A id \in Ids : conn[id] # "open" => who[id] = 0

(* The clients that are connected and not astray.                          *)
Proper == {id \in Ids : conn[id] # "free" /\ id \notin astray}

OneEntry == \A i, j \in Slots : map[i].id \in Proper /\ map[i].id = map[j].id => i = j
HasEntry == \A id \in Ids : conn[id] # "free" => Entries(id) # {}
RightEntry ==
    \A id \in Proper, i \in Slots : conn[id] = "open" /\ map[i].id = id =>
        \/ map[i].uid = who[id]
        \/ busy = id /\ ran /\ map[i].uid = 0 /\ g.uid = who[id]
RightGlobals ==
    /\ busy = NoId => g.uid = 0
    /\ busy \in Proper /\ conn[busy] = "open" => g.uid \in {0, who[busy]}

InMap == "full" \notin slips => OneEntry /\ HasEntry /\ RightEntry /\ RightGlobals

(* Nobody is astray unnoticed.                                             *)
Noticed == /\ astray # {} => "mixed" \in slips
           /\ \A id \in astray : conn[id] # "free"

SInv == TypeOK /\ Stored /\ RootWhenOut /\ Mutex /\ Anonymous /\ Noticed /\ InMap

LEMMA NoIdFresh == NoId \notin Ids
  BY SessionsAssumption DEF NoId

LEMMA InitSInv == Init => SInv
  <1> SUFFICES ASSUME Init
               PROVE  SInv
    OBVIOUS
  <1>1. 0 \in Dirs /\ 0 \in Slots
    BY SessionsAssumption DEF Slots
  <1>2. TypeOK
    BY <1>1 DEF Init, TypeOK, NoMap, NoUser, NoProfile, Globals, Profiles, UidsOrNone
  <1>3. Stored /\ RootWhenOut /\ Mutex
    BY DEF Init, Stored, RootWhenOut, FreshStart, Mutex, NoUser, NoProfile
  <1>5. Anonymous /\ Noticed
    BY DEF Init, Anonymous, Noticed
  <1>4. InMap
    BY NoIdFresh DEF Init, InMap, OneEntry, HasEntry, RightEntry, RightGlobals,
                     NoMap, NoUser, Entries, Proper
  <1> QED  BY <1>2, <1>3, <1>4, <1>5 DEF SInv

-----------------------------------------------------------------------------
(* One lemma per action.                                                   *)

LEMMA ConnectSInv == ASSUME NEW id \in Ids
                     PROVE  SInv /\ Connect(id) => SInv'
  <1> SUFFICES ASSUME SInv, Connect(id)
               PROVE  SInv'
    OBVIOUS
  <1> USE DEF SInv
  <1>1. /\ conn[id] = "free" /\ conn' = [conn EXCEPT ![id] = "open"]
        /\ UNCHANGED <<users, disk, dirs, g, busy, ran, who, at>>
        /\ slips' \in SUBSET {"full", "mixed", "lost", "shared"} /\ slips \subseteq slips'
        /\ "full" \notin slips' => Entries(NoId) # {}
        /\ \/ Entries(id) = {} /\ astray' = astray
           \/ Entries(id) # {} /\ astray' = astray \cup {id} /\ "mixed" \in slips'
    BY DEF Connect, TypeOK
  <1>2. \/ \E i \in Slots : i \in Entries(NoId)
                          /\ map' = [map EXCEPT ![i] = [id |-> id, uid |-> 0]]
        \/ Entries(NoId) = {} /\ map' = map
    BY DEF Connect, on_connection, First
  <1>3. TypeOK'
    BY <1>1, <1>2 DEF TypeOK, UidsOrNone
  <1>4. Stored' /\ RootWhenOut' /\ Mutex' /\ Anonymous'
    BY <1>1 DEF Stored, RootWhenOut, FreshStart, Mutex, Anonymous, TypeOK
  <1>6. Noticed'
    BY <1>1 DEF Noticed, TypeOK
  <1>5. ASSUME "full" \notin slips'
        PROVE  OneEntry' /\ HasEntry' /\ RightEntry' /\ RightGlobals'
    <2>1. PICK i \in Slots : /\ map[i].id = NoId
                             /\ map' = [map EXCEPT ![i] = [id |-> id, uid |-> 0]]
      BY <1>1, <1>2, <1>5 DEF Entries
    <2>2. \A k \in Slots : map'[k] = IF k = i THEN [id |-> id, uid |-> 0] ELSE map[k]
      BY <2>1 DEF TypeOK
    <2>3. id \notin astray' => \A k \in Slots : map[k].id # id
      BY <1>1 DEF Entries
    <2>4. OneEntry /\ HasEntry /\ RightEntry /\ RightGlobals
      BY <1>1, <1>5 DEF InMap
    <2>5. busy # id
      BY <1>1, NoIdFresh DEF Mutex
    <2>6. \A k \in Ids : conn'[k] = IF k = id THEN "open" ELSE conn[k]
      BY <1>1 DEF TypeOK
    <2>11. \A c \in Ids : c \in Proper' =>
              IF c = id THEN id \notin astray' ELSE c \in Proper
      BY <1>1, <2>6 DEF Proper
    <2>7. OneEntry'
      <3> SUFFICES ASSUME NEW k \in Slots, NEW l \in Slots, map'[k].id \in Proper',
                          map'[k].id = map'[l].id
                   PROVE  k = l
        BY DEF OneEntry
      <3>1. map'[k].id \in Ids
        BY DEF Proper
      <3>2. CASE map'[k].id = id
        BY <2>2, <2>3, <2>11, <3>1, <3>2
      <3>3. CASE map'[k].id # id
        BY <2>2, <2>4, <2>11, <3>1, <3>3 DEF OneEntry
      <3> QED  BY <3>2, <3>3
    <2>8. HasEntry'
      <3> SUFFICES ASSUME NEW c \in Ids, conn'[c] # "free"
                   PROVE  Entries(c)' # {}
        BY DEF HasEntry
      <3>1. CASE c = id
        <4>1. i \in Entries(c)'
          BY <3>1, <2>2 DEF Entries
        <4> QED  BY <4>1
      <3>2. CASE c # id
        <4>1. PICK k \in Slots : map[k].id = c
          BY <3>2, <2>4, <2>6 DEF HasEntry, Entries
        <4>2. k # i
          BY <4>1, <2>1, NoIdFresh
        <4>3. k \in Entries(c)'
          BY <4>1, <4>2, <2>2 DEF Entries
        <4> QED  BY <4>3
      <3> QED  BY <3>1, <3>2
    <2>9. RightEntry'
      <3>1. who[id] = 0
        BY <1>1 DEF Anonymous
      <3>2. id \in Proper' => \A k \in Slots : map'[k].id = id => map'[k].uid = who'[id]
        BY <1>1, <2>2, <2>3, <2>11, <3>1
      <3>3. \A c \in Ids, k \in Slots : c # id /\ map'[k].id = c => map'[k] = map[k]
        BY <2>2
      <3> SUFFICES ASSUME NEW c \in Proper', NEW k \in Slots,
                          conn'[c] = "open", map'[k].id = c
                   PROVE  \/ map'[k].uid = who'[c]
                          \/ busy' = c /\ ran' /\ map'[k].uid = 0 /\ g'.uid = who'[c]
        BY DEF RightEntry
      <3>4. c \in Ids
        BY DEF Proper
      <3>5. CASE c = id
        BY <3>2, <3>5
      <3>6. CASE c # id
        BY <1>1, <2>4, <2>6, <2>11, <3>3, <3>4, <3>6 DEF RightEntry
      <3> QED  BY <3>5, <3>6
    <2>10. RightGlobals'
      BY <1>1, <2>4, <2>5, <2>6, <2>11 DEF RightGlobals, Mutex, TypeOK, Proper
    <2> QED  BY <2>7, <2>8, <2>9, <2>10
  <1> QED  BY <1>3, <1>4, <1>5, <1>6 DEF InMap

LEMMA DisconnectSInv == ASSUME NEW id \in Ids
                        PROVE  SInv /\ Disconnect(id) => SInv'
  <1> SUFFICES ASSUME SInv, Disconnect(id)
               PROVE  SInv'
    OBVIOUS
  <1> USE DEF SInv
  <1>1. /\ conn[id] # "free" /\ busy # id
        /\ conn' = [conn EXCEPT ![id] = "free"]
        /\ who' = [who EXCEPT ![id] = 0] /\ at' = [at EXCEPT ![id] = 0]
        /\ UNCHANGED <<users, disk, dirs, g, busy, ran, slips>> /\ astray' = astray \ {id}
    BY DEF Disconnect
  <1>2. 0 \in Slots /\ 0 \in Dirs
    BY SessionsAssumption DEF Slots
  <1>3. \/ map[0].id = id /\ map' = [map EXCEPT ![0].id = NoId]
        \/ map[0].id # id /\ map' = map
    BY DEF Disconnect, cleanup
  <1>4. TypeOK'
    BY <1>1, <1>2, <1>3 DEF TypeOK, UidsOrNone
  <1>5. \A k \in Slots : /\ map'[k].uid = map[k].uid
                         /\ map'[k].id = map[k].id \/ (map'[k].id = NoId /\ map[k].id = id)
    BY <1>2, <1>3 DEF TypeOK
  <1>6. Stored' /\ RootWhenOut' /\ Mutex' /\ Anonymous'
    BY <1>1 DEF Stored, RootWhenOut, FreshStart, Mutex, Anonymous, TypeOK
  <1>7. \A c \in Ids : /\ c # id => conn'[c] = conn[c] /\ who'[c] = who[c]
                       /\ conn'[id] = "free"
    BY <1>1 DEF TypeOK
  <1>9. Noticed'
    BY <1>1, <1>7 DEF Noticed, TypeOK
  <1>10. \A c \in Ids : c \in Proper' => c # id /\ c \in Proper
    BY <1>1, <1>7 DEF Proper
  <1>8. ASSUME "full" \notin slips'
        PROVE  OneEntry' /\ HasEntry' /\ RightEntry' /\ RightGlobals'
    <2>1. OneEntry /\ HasEntry /\ RightEntry /\ RightGlobals
      BY <1>1, <1>8 DEF InMap
    <2>2. OneEntry'
      <3> SUFFICES ASSUME NEW k \in Slots, NEW l \in Slots, map'[k].id \in Proper',
                          map'[k].id = map'[l].id
                   PROVE  k = l
        BY DEF OneEntry
      <3>1. map'[k].id \in Ids
        BY DEF Proper
      <3> QED  BY <1>5, <1>10, <2>1, <3>1, NoIdFresh DEF OneEntry
    <2>3. HasEntry'
      <3> SUFFICES ASSUME NEW c \in Ids, conn'[c] # "free"
                   PROVE  Entries(c)' # {}
        BY DEF HasEntry
      <3>1. c # id /\ conn[c] # "free"
        BY <1>7
      <3>2. PICK k \in Slots : map[k].id = c
        BY <2>1, <3>1 DEF HasEntry, Entries
      <3>3. k \in Entries(c)'
        BY <1>5, <3>1, <3>2 DEF Entries
      <3> QED  BY <3>3
    <2>4. RightEntry'
      <3> SUFFICES ASSUME NEW c \in Proper', NEW k \in Slots,
                          conn'[c] = "open", map'[k].id = c
                   PROVE  \/ map'[k].uid = who'[c]
                          \/ busy' = c /\ ran' /\ map'[k].uid = 0 /\ g'.uid = who'[c]
        BY DEF RightEntry
      <3>1. c \in Ids
        BY DEF Proper
      <3> QED  BY <1>1, <1>5, <1>7, <1>10, <2>1, <3>1, NoIdFresh DEF RightEntry
    <2>5. RightGlobals'
      BY <1>1, <1>7, <1>10, <2>1 DEF RightGlobals, TypeOK, Proper
    <2> QED  BY <2>2, <2>3, <2>4, <2>5
  <1> QED  BY <1>4, <1>6, <1>8, <1>9 DEF InMap

LEMMA BeginSInv == ASSUME NEW id \in Ids
                   PROVE  SInv /\ Begin(id) => SInv'
  <1> SUFFICES ASSUME SInv, Begin(id)
               PROVE  SInv'
    OBVIOUS
  <1> USE DEF SInv
  <1>1. /\ conn[id] = "open" /\ busy = NoId /\ busy' = id /\ ran' = FALSE
        /\ slips \subseteq slips' /\ slips' \in SUBSET {"full", "mixed", "lost", "shared"}
        /\ UNCHANGED <<conn, map, users, disk, dirs, who, at, astray>>
    BY DEF Begin, TypeOK
  <1>4. Noticed' /\ Proper' = Proper
    BY <1>1 DEF Noticed, Proper
  <1>2. CASE \E i \in Slots, j \in Slots :
               /\ map[i].id = id /\ users[j].uid = map[i].uid
               /\ g' = [uid |-> users[j].uid, profid |-> j,
                        cwd |-> IF users[j].cwd \in dirs THEN users[j].cwd ELSE 0]
    <2>1. PICK i \in Slots, j \in Slots :
               /\ map[i].id = id /\ users[j].uid = map[i].uid
               /\ g' = [uid |-> users[j].uid, profid |-> j,
                        cwd |-> IF users[j].cwd \in dirs THEN users[j].cwd ELSE 0]
      BY <1>2
    <2>2. g' \in Globals /\ (g'.uid = 0 => g'.cwd = 0) /\ g'.uid = map[i].uid
      BY <2>1, SessionsAssumption
         DEF TypeOK, Globals, Profiles, RootWhenOut, FreshStart
    <2>3. TypeOK' /\ Stored' /\ RootWhenOut' /\ Mutex' /\ Anonymous'
      BY <1>1, <2>2 DEF TypeOK, Stored, RootWhenOut, FreshStart, Mutex, Anonymous
    <2>4. "full" \notin slips' /\ id \in Proper => g'.uid = who[id]
      BY <1>1, <2>1, <2>2, NoIdFresh DEF InMap, RightEntry
    <2>5. InMap'
      BY <1>1, <1>4, <2>4, NoIdFresh
         DEF InMap, OneEntry, HasEntry, Entries, RightEntry, RightGlobals
    <2> QED  BY <1>4, <2>3, <2>5
  <1>3. CASE g' = g
    <2>1. TypeOK' /\ Stored' /\ RootWhenOut' /\ Mutex' /\ Anonymous'
      BY <1>1, <1>3 DEF TypeOK, Stored, RootWhenOut, FreshStart, Mutex, Anonymous
    <2>2. InMap'
      BY <1>1, <1>3, <1>4, NoIdFresh
         DEF InMap, OneEntry, HasEntry, Entries, RightEntry, RightGlobals
    <2> QED  BY <1>4, <2>1, <2>2
  <1> QED  BY <1>2, <1>3 DEF Begin, load_user, First, Matching, ProfilesOf, Entries

LEMMA EndSInv == SInv /\ End => SInv'
  <1> SUFFICES ASSUME SInv, End
               PROVE  SInv'
    OBVIOUS
  <1> USE DEF SInv
  <1>1. /\ busy # NoId /\ busy \in Ids /\ ran /\ busy' = NoId /\ ran' = FALSE
        /\ UNCHANGED <<conn, dirs, who, at, slips, astray>>
    BY DEF End, TypeOK
  <1>4. Noticed' /\ Proper' = Proper
    BY <1>1 DEF Noticed, Proper
  <1>2. CASE \E i \in Slots :
               /\ map[i].id = busy
               /\ map' = [map EXCEPT ![i].uid = IF @ = 0 THEN g.uid ELSE @]
               /\ users' = [users EXCEPT ![g.profid] = [uid |-> g.uid, cwd |-> g.cwd]]
               /\ disk' = users' /\ g' = NoUser
    <2>1. PICK i \in Slots :
               /\ map[i].id = busy
               /\ map' = [map EXCEPT ![i].uid = IF @ = 0 THEN g.uid ELSE @]
               /\ users' = [users EXCEPT ![g.profid] = [uid |-> g.uid, cwd |-> g.cwd]]
               /\ disk' = users' /\ g' = NoUser
      BY <1>2
    <2>2. \A k \in Slots : /\ map'[k].id = map[k].id
                           /\ map'[k].uid = IF k = i /\ map[k].uid = 0
                                               THEN g.uid ELSE map[k].uid
      BY <2>1 DEF TypeOK
    <2>3. map' \in [Slots -> [id : Ids \cup {NoId}, uid : UidsOrNone]]
      BY <2>1 DEF TypeOK, Globals
    <2>4. users' \in Profiles
      BY <2>1 DEF TypeOK, Globals, Profiles
    <2>5. g' \in Globals /\ g'.uid = 0 /\ g'.cwd = 0
      BY <2>1, SessionsAssumption DEF NoUser, Globals, UidsOrNone, Slots
    <2>6. \A k \in Slots : users'[k].uid = 0 => users'[k].cwd = 0
      BY <2>1 DEF TypeOK, Profiles, RootWhenOut, FreshStart
    <2>7. TypeOK' /\ Stored' /\ RootWhenOut' /\ Mutex' /\ Anonymous'
      BY <1>1, <2>1, <2>3, <2>4, <2>5, <2>6
         DEF TypeOK, Stored, RootWhenOut, FreshStart, Mutex, Anonymous
    <2>8. ASSUME "full" \notin slips'
          PROVE  OneEntry' /\ HasEntry' /\ RightEntry' /\ RightGlobals'
      <3>1. OneEntry /\ HasEntry /\ RightEntry /\ RightGlobals
        BY <1>1, <2>8 DEF InMap
      <3>2. OneEntry' /\ HasEntry' /\ RightGlobals'
        BY <1>1, <1>4, <2>2, <2>5, <3>1, NoIdFresh
           DEF OneEntry, HasEntry, Entries, RightGlobals, Proper
      <3>3. ASSUME NEW c \in Proper, NEW k \in Slots, conn[c] = "open", map[k].id = c
            PROVE  map'[k].uid = who[c]
        <4>1. CASE c = busy
          <5>1. k = i
            BY <2>1, <3>1, <3>3, <4>1, <1>1 DEF OneEntry
          <5>2. g.uid \in {0, who[busy]}
            BY <1>1, <3>1, <3>3, <4>1 DEF RightGlobals
          <5> QED  BY <2>2, <3>1, <3>3, <4>1, <5>1, <5>2 DEF RightEntry
        <4>2. CASE c # busy
          BY <2>1, <2>2, <3>1, <3>3, <4>2 DEF RightEntry
        <4> QED  BY <4>1, <4>2
      <3>4. RightEntry'
        BY <1>1, <1>4, <2>2, <3>3 DEF RightEntry
      <3> QED  BY <3>2, <3>4
    <2> QED  BY <1>4, <2>7, <2>8 DEF InMap
  <1>3. CASE Entries(busy) = {} /\ UNCHANGED <<map, users, disk, g>>
    <2>1. TypeOK' /\ Stored' /\ RootWhenOut' /\ Mutex' /\ Anonymous'
      BY <1>1, <1>3 DEF TypeOK, Stored, RootWhenOut, FreshStart, Mutex, Anonymous
    <2>2. "full" \in slips
      BY <1>1, <1>3 DEF InMap, HasEntry, Mutex
    <2> QED  BY <1>1, <1>4, <2>1, <2>2 DEF InMap
  <1> QED  BY <1>2, <1>3 DEF End, save_user, First, Entries

(* What every command leaves alone, and what it must keep for the          *)
(* invariant: shared by the cases of RunSInv.                              *)
LEMMA CommandSInv ==
    ASSUME SInv, busy # NoId, ~ran, ran', UNCHANGED <<map, busy>>,
           TypeOK', Stored', RootWhenOut',
           slips \subseteq slips', astray \subseteq astray',
           \A c \in Ids : c \in astray' => c \in astray \/ (c = busy /\ "mixed" \in slips'),
           \A c \in Ids : c # busy => conn'[c] = conn[c] /\ who'[c] = who[c],
           \/ conn'[busy] = "leaving" /\ who'[busy] = 0
           \/ /\ conn'[busy] = "open"
              /\ \/ who'[busy] = who[busy] /\ g'.uid = g.uid
                 \/ /\ g'.uid = who'[busy]
                    /\ who[busy] = 0 \/ busy \in astray'
    PROVE  SInv'
  <1> USE DEF SInv
  <1>1. busy \in Ids /\ busy' = busy /\ busy # NoId /\ conn[busy] = "open"
    BY DEF TypeOK, Mutex
  <1>2. Mutex' /\ Anonymous'
    BY <1>1 DEF Mutex, Anonymous
  <1>4. Noticed'
    BY <1>1 DEF Noticed, TypeOK
  <1>5. \A c \in Ids : c \in Proper' => c \in Proper
    BY <1>1 DEF Proper
  <1>3. ASSUME "full" \notin slips'
        PROVE  OneEntry' /\ HasEntry' /\ RightEntry' /\ RightGlobals'
    <2>1. OneEntry /\ HasEntry /\ RightEntry /\ RightGlobals
      BY <1>3 DEF InMap
    <2>2. OneEntry' /\ HasEntry'
      BY <1>1, <1>5, <2>1 DEF OneEntry, HasEntry, Entries, Proper
    <2>3. RightGlobals'
      BY <1>1, <1>5, <2>1 DEF RightGlobals, Proper
    <2>4. RightEntry'
      <3> SUFFICES ASSUME NEW c \in Proper', NEW k \in Slots,
                          conn'[c] = "open", map'[k].id = c
                   PROVE  \/ map'[k].uid = who'[c]
                          \/ busy' = c /\ ran' /\ map'[k].uid = 0 /\ g'.uid = who'[c]
        BY DEF RightEntry
      <3>1. c \in Ids /\ c \in Proper /\ c \notin astray'
        BY <1>5 DEF Proper
      <3> QED  BY <1>1, <2>1, <3>1 DEF RightEntry
    <2> QED  BY <2>2, <2>3, <2>4
  <1> QED  BY <1>2, <1>3, <1>4 DEF InMap

LEMMA RunSInv == SInv /\ Run => SInv'
  <1> SUFFICES ASSUME SInv, Run
               PROVE  SInv'
    OBVIOUS
  <1> USE DEF SInv
  <1>1. /\ busy # NoId /\ busy \in Ids /\ ~ran /\ ran' /\ ran' \in BOOLEAN
        /\ UNCHANGED <<map, busy>>
    BY DEF Run, TypeOK
  <1>2. conn[busy] = "open"
    BY <1>1 DEF Mutex
  <1>3. 0 \in Dirs /\ Home \in Dirs /\ 0 \in Slots
    BY SessionsAssumption DEF Slots
  <1>4. ASSUME NEW u \in Uids, NEW more \in SUBSET (Dirs \ {0}), NEW cwd \in Dirs,
               cmd_login(u, more, cwd)
        PROVE  SInv'
    <2>1. /\ g' = [g EXCEPT !.uid = u, !.cwd = cwd]
          /\ who' = [who EXCEPT ![busy] = u] /\ at' = [at EXCEPT ![busy] = cwd]
          /\ UNCHANGED <<conn, users, disk>>
          /\ dirs' \in SUBSET Dirs /\ slips' \in SUBSET {"full", "mixed", "lost", "shared"}
          /\ slips \subseteq slips'
          /\ \/ who[busy] = 0 /\ astray' = astray
             \/ astray' = astray \cup {busy} /\ "mixed" \in slips'
      BY <1>4 DEF cmd_login, to_home, TypeOK
    <2>2. g'.uid = u /\ u # 0 /\ g' \in Globals
      BY <2>1, SessionsAssumption DEF TypeOK, Globals, UidsOrNone
    <2>3. TypeOK' /\ Stored' /\ RootWhenOut'
      BY <1>1, <2>1, <2>2 DEF TypeOK, UidsOrNone, Stored, RootWhenOut, FreshStart
    <2>4. who'[busy] = u /\ \A c \in Ids : c # busy => who'[c] = who[c]
      BY <1>1, <2>1 DEF TypeOK
    <2> QED  BY <1>1, <1>2, <2>1, <2>2, <2>3, <2>4, CommandSInv
  <1>5. CASE cmd_exit
    <2>1. /\ g' = [g EXCEPT !.uid = 0, !.cwd = 0]
          /\ conn' = [conn EXCEPT ![busy] = "leaving"]
          /\ who' = [who EXCEPT ![busy] = 0] /\ at' = [at EXCEPT ![busy] = 0]
          /\ UNCHANGED <<users, disk, dirs, slips, astray>>
      BY <1>5 DEF cmd_exit
    <2>2. g' \in Globals /\ g'.cwd = 0
      BY <1>3, <2>1 DEF TypeOK, Globals, UidsOrNone
    <2>3. TypeOK' /\ Stored' /\ RootWhenOut'
      BY <1>1, <1>3, <2>1, <2>2 DEF TypeOK, UidsOrNone, Stored, RootWhenOut, FreshStart
    <2>4. /\ conn'[busy] = "leaving" /\ who'[busy] = 0
          /\ \A c \in Ids : c # busy => conn'[c] = conn[c] /\ who'[c] = who[c]
      BY <1>1, <2>1 DEF TypeOK
    <2> QED  BY <1>1, <2>1, <2>3, <2>4, CommandSInv
  <1>6. ASSUME NEW d \in Dirs, cmd_cd(d)
        PROVE  SInv'
    <2>1. /\ g.uid # 0 /\ g' = [g EXCEPT !.cwd = d] /\ at' = [at EXCEPT ![busy] = d]
          /\ UNCHANGED <<conn, users, disk, dirs, who, slips, astray>>
      BY <1>6 DEF cmd_cd
    <2>2. g' \in Globals /\ g'.uid = g.uid
      BY <2>1 DEF TypeOK, Globals
    <2>3. TypeOK' /\ Stored' /\ RootWhenOut'
      BY <1>1, <2>1, <2>2 DEF TypeOK, Stored, RootWhenOut, FreshStart
    <2> QED  BY <1>1, <1>2, <2>1, <2>2, <2>3, CommandSInv
  <1>7. ASSUME NEW d \in Dirs \ {0}, cmd_mkdir(d)
        PROVE  SInv'
    <2>1. dirs' = dirs \cup {d} /\ UNCHANGED <<conn, users, disk, g, who, at, slips, astray>>
      BY <1>7 DEF cmd_mkdir
    <2>2. TypeOK' /\ Stored' /\ RootWhenOut'
      BY <1>1, <2>1 DEF TypeOK, Stored, RootWhenOut, FreshStart
    <2> QED  BY <1>1, <1>2, <2>1, <2>2, CommandSInv
  <1>8. ASSUME NEW more \in SUBSET (Dirs \ {0}), NEW cwd \in Dirs, cmd_f(more, cwd)
        PROVE  SInv'
    <2>1. /\ g.uid = 1 /\ g' = [g EXCEPT !.cwd = cwd] /\ dirs' = {0} \cup more
          /\ users' = [users EXCEPT ![0] = [uid |-> 1, cwd |-> 0]] /\ disk' = users'
          /\ at' = [i \in Ids |-> IF i = busy THEN cwd ELSE 0]
          /\ slips' = slips \cup {"lost"} /\ UNCHANGED <<conn, who, astray>>
      BY <1>8 DEF cmd_f
    <2>2. g' \in Globals /\ g'.uid = g.uid /\ g.uid \in UidsOrNone
      BY <2>1 DEF TypeOK, Globals
    <2>3. users' \in Profiles
      BY <1>3, <2>1, <2>2 DEF TypeOK, Profiles
    <2>4. \A j \in Slots : users'[j].uid = 0 => users'[j].cwd = 0
      BY <1>3, <2>1 DEF TypeOK, Profiles, RootWhenOut, FreshStart
    <2>5. TypeOK' /\ Stored' /\ RootWhenOut'
      BY <1>1, <1>3, <2>1, <2>2, <2>3, <2>4 DEF TypeOK, Stored, RootWhenOut, FreshStart
    <2> QED  BY <1>1, <1>2, <2>1, <2>2, <2>5, CommandSInv
  <1>9. CASE OtherCommand
    <2>1. UNCHANGED <<conn, users, disk, dirs, g, who, at, slips, astray>>
      BY <1>9 DEF OtherCommand
    <2>2. TypeOK' /\ Stored' /\ RootWhenOut'
      BY <1>1, <2>1 DEF TypeOK, Stored, RootWhenOut, FreshStart
    <2> QED  BY <1>1, <1>2, <2>1, <2>2, CommandSInv
  <1> QED  BY <1>4, <1>5, <1>6, <1>7, <1>8, <1>9 DEF Run

LEMMA RestartSInv == SInv /\ Restart => SInv'
  <1> SUFFICES ASSUME SInv, Restart
               PROVE  SInv'
    OBVIOUS
  <1> USE DEF SInv, Restart
  <1>1. 0 \in Dirs /\ 0 \in Slots
    BY SessionsAssumption DEF Slots
  <1>2. TypeOK'
    BY <1>1 DEF TypeOK, NoMap, NoUser, Globals, UidsOrNone
  <1>3. Stored' /\ RootWhenOut' /\ Mutex' /\ Anonymous' /\ Noticed'
    BY DEF Stored, RootWhenOut, FreshStart, Mutex, Anonymous, NoUser, Noticed
  <1>4. InMap'
    BY NoIdFresh DEF InMap, OneEntry, HasEntry, RightEntry, RightGlobals, NoMap,
                     NoUser, Entries, Proper
  <1> QED  BY <1>2, <1>3, <1>4

(* Every state of the server's sessions keeps the inductive invariant,     *)
(* whenever clients connect, leave and send, and whenever it restarts.     *)
THEOREM SessionsInvariance == Spec => []SInv
  <1>1. SInv /\ [Next]_vars => SInv'
    <2> SUFFICES ASSUME SInv, [Next]_vars
                 PROVE  SInv'
      OBVIOUS
    <2>1. CASE UNCHANGED vars
      BY <2>1 DEF vars, SInv, TypeOK, Stored, RootWhenOut, FreshStart, Mutex, Anonymous,
                  InMap, OneEntry, HasEntry, RightEntry, RightGlobals, Entries,
                  Proper, Noticed
    <2>2. CASE Next
      BY <2>2, ConnectSInv, DisconnectSInv, BeginSInv, RunSInv, EndSInv, RestartSInv
         DEF Next
    <2> QED  BY <2>1, <2>2
  <1> QED  BY <1>1, InitSInv, PTL DEF Spec

(* Every variable keeps its type: the globals always name a profile of the *)
(* table, whatever clients do.                                             *)
THEOREM SessionsTypeCorrect == Spec => []TypeOK
  <1>1. SInv => TypeOK
    BY DEF SInv
  <1> QED  BY <1>1, SessionsInvariance, PTL

(* No answered command is lost by a crash: the profiles on disk are those  *)
(* in memory whenever the mutex is free.                                   *)
THEOREM ProfilesAreDurable == Spec => []Durable
  <1>1. SInv => Durable
    BY DEF SInv, Stored, Durable
  <1> QED  BY <1>1, SessionsInvariance, PTL

(* A login into a free profile starts at the root.                         *)
THEOREM LoginsStartAtRoot == Spec => []FreshStart
  <1>1. SInv => FreshStart
    BY DEF SInv, RootWhenOut
  <1> QED  BY <1>1, SessionsInvariance, PTL

(* A command of a client that logged in once, on a slot without an entry   *)
(* of an earlier client, has its client's uid or none: entries left behind *)
(* and second logins of other clients do not change that.  Two cases are   *)
(* left out because the code gets them wrong: such a client itself, and a  *)
(* server whose map was full.                                              *)
THEOREM CommandsRunAsTheirClient == Spec => []NoImpersonation
  <1>1. SInv => NoImpersonation
    BY DEF SInv, NoImpersonation, InMap, RightGlobals, Mutex, Proper, TypeOK
  <1> QED  BY <1>1, SessionsInvariance, PTL

-----------------------------------------------------------------------------
(* Who stays logged in.  Profiles are not tied to clients, load_user takes *)
(* the first that has the uid; but as long as the server meets nothing it  *)
(* has no answer to, the profiles can be assigned to the clients that are  *)
(* logged in, one to each, with its uid, whichever of several with the     *)
(* same uid a command happens to take.  While a command runs, its profile  *)
(* is the one the globals name, and is nobody else's.                      *)
Current == busy # NoId => g.uid = who[busy]

Assigned(p) ==
    /\ \A a, b \in Ids : a # b /\ who[a] # 0 /\ who[b] # 0 => p[a] # p[b]
    /\ \A a \in Ids : who[a] # 0 /\ a # busy => users[p[a]].uid = who[a]
    /\ busy # NoId => \A a \in Ids : who[a] # 0 => (p[a] = g.profid <=> a = busy)

(* When no uid has two profiles either, each client's own is the only one  *)
(* with its uid and says where it is, a directory that exists.             *)
Kept(p) ==
    /\ \A a \in Ids : who[a] # 0 => at[a] \in dirs \cup {0}
    /\ \A a \in Ids : who[a] # 0 /\ a # busy => users[p[a]].cwd = at[a]
    /\ \A a \in Ids, j \in Slots : who[a] # 0 /\ users[j].uid = who[a] => j = p[a]
    /\ \A a, b \in Ids : a # b /\ who[a] # 0 => who[a] # who[b]
    /\ busy # NoId => g.cwd \in dirs \cup {0} /\ (who[busy] # 0 => g.cwd = at[busy])

AInv ==
    slips \subseteq {"shared"} =>
        Current /\ \E p \in [Ids -> Slots] : Assigned(p) /\ (slips = {} => Kept(p))

LEMMA InitAInv == Init => AInv
  <1> SUFFICES ASSUME Init
               PROVE  AInv
    OBVIOUS
  <1> DEFINE p == [a \in Ids |-> 0]
  <1>1. p \in [Ids -> Slots]
    BY SessionsAssumption DEF Slots
  <1>2. busy = NoId /\ \A a \in Ids : who[a] = 0
    BY DEF Init
  <1>3. Current /\ Assigned(p) /\ Kept(p)
    BY <1>2 DEF Current, Assigned, Kept
  <1> QED  BY <1>1, <1>3 DEF AInv

(* A client that comes or goes leaves the profiles as they are.            *)
LEMMA ConnectionAInv ==
    ASSUME SInv, AInv, NEW id \in Ids, Connect(id) \/ Disconnect(id)
    PROVE  AInv'
  <1>1. /\ UNCHANGED <<users, disk, dirs, g, busy>> /\ slips \subseteq slips'
        /\ \A a \in Ids : (who'[a] = who[a] /\ at'[a] = at[a]) \/ who'[a] = 0
        /\ busy # NoId => busy \in Ids /\ who'[busy] = who[busy] /\ at'[busy] = at[busy]
    BY DEF Connect, Disconnect, SInv, TypeOK
  <1> SUFFICES ASSUME slips' \subseteq {"shared"}
               PROVE  Current' /\ \E p \in [Ids -> Slots] : Assigned(p)' /\ (slips' = {} => Kept(p)')
    BY DEF AInv
  <1>2. slips \subseteq {"shared"} /\ (slips' = {} => slips = {})
    BY <1>1
  <1>3. Current /\ \E p \in [Ids -> Slots] : Assigned(p) /\ (slips = {} => Kept(p))
    BY <1>2 DEF AInv
  <1>4. PICK p \in [Ids -> Slots] : Assigned(p) /\ (slips = {} => Kept(p))
    BY <1>3
  <1>5. Current'
    BY <1>1, <1>3 DEF Current
  <1>6. Assigned(p)'
    BY <1>1, <1>4 DEF Assigned
  <1>7. slips' = {} => Kept(p)'
    BY <1>1, <1>2, <1>4 DEF Kept
  <1> QED  BY <1>5, <1>6, <1>7

(* A command takes the first profile with its client's uid.  When that was *)
(* assigned to another client of the same uid, the two change profiles.    *)
LEMMA BeginAInv ==
    ASSUME SInv, AInv, NEW id \in Ids, Begin(id)
    PROVE  AInv'
  <1>1. /\ conn[id] = "open" /\ busy = NoId /\ busy' = id /\ ran' = FALSE
        /\ UNCHANGED <<conn, map, users, disk, dirs, who, at>>
        /\ id # NoId /\ \A a \in Ids : a # NoId
    BY NoIdFresh DEF Begin
  <1> SUFFICES ASSUME slips' \subseteq {"shared"}
               PROVE  Current' /\ \E p \in [Ids -> Slots] : Assigned(p)' /\ (slips' = {} => Kept(p)')
    BY DEF AInv
  <1>2. slips' = slips /\ Matching(id) # {}
    BY DEF Begin
  <1>3. PICK i \in Slots, j \in Slots :
             /\ map[i].id = id /\ users[j].uid = map[i].uid
             /\ g' = [uid |-> users[j].uid, profid |-> j,
                      cwd |-> IF users[j].cwd \in dirs THEN users[j].cwd ELSE 0]
    BY <1>2 DEF Begin, load_user, First, Matching, ProfilesOf, Entries
  <1>4. users[j].uid = who[id]
    <2>1. "full" \notin slips /\ id \in Proper
      BY <1>1, <1>2 DEF SInv, Noticed, Proper
    <2> QED  BY <1>1, <1>3, <2>1, NoIdFresh DEF SInv, InMap, RightEntry
  <1>5. g'.uid = who[id] /\ g'.profid = j
        /\ g'.cwd = IF users[j].cwd \in dirs THEN users[j].cwd ELSE 0
    BY <1>3, <1>4
  <1>6. Current'
    BY <1>1, <1>5 DEF Current
  <1>7. PICK p \in [Ids -> Slots] : Assigned(p) /\ (slips = {} => Kept(p))
    BY <1>2 DEF AInv
  <1>8. /\ \A a, b \in Ids : a # b /\ who[a] # 0 /\ who[b] # 0 => p[a] # p[b]
        /\ \A a \in Ids : who[a] # 0 => users[p[a]].uid = who[a]
    BY <1>1, <1>7 DEF Assigned
  <1>9. ASSUME NEW q \in [Ids -> Slots], q[id] = j,
               \A a, b \in Ids : a # b /\ who[a] # 0 /\ who[b] # 0 => q[a] # q[b],
               \A a \in Ids : who[a] # 0 => users[q[a]].uid = who[a],
               slips = {} => \A a \in Ids : who[a] # 0 => q[a] = p[a]
        PROVE  Assigned(q)' /\ (slips' = {} => Kept(q)')
    <2>1. \A a \in Ids : who[a] # 0 => (q[a] = j <=> a = id)
      <3> SUFFICES ASSUME NEW a \in Ids, who[a] # 0, q[a] = j, a # id  PROVE FALSE
        BY <1>9
      <3>1. who[id] # 0
        BY <1>4, <1>9
      <3> QED  BY <1>9, <3>1
    <2>2. Assigned(q)'
      BY <1>1, <1>5, <1>9, <2>1 DEF Assigned
    <2>3. ASSUME slips = {}
          PROVE  Kept(q)'
      <3>1. Kept(p)
        BY <2>3, <1>7
      <3>2. who[id] # 0 => q[id] = p[id] /\ users[j].cwd = at[id]
        BY <1>1, <1>9, <2>3, <3>1 DEF Kept
      <3>3. g'.cwd \in dirs \cup {0} /\ (who[id] # 0 => g'.cwd = at[id])
        BY <1>5, <3>1, <3>2 DEF Kept
      <3>4. /\ \A a \in Ids : who[a] # 0 => at[a] \in dirs \cup {0}
            /\ \A a \in Ids : who[a] # 0 => users[q[a]].cwd = at[a]
            /\ \A a \in Ids, k \in Slots : who[a] # 0 /\ users[k].uid = who[a] => k = q[a]
            /\ \A a, b \in Ids : a # b /\ who[a] # 0 => who[a] # who[b]
        BY <1>1, <1>9, <2>3, <3>1 DEF Kept
      <3> QED  BY <1>1, <3>3, <3>4 DEF Kept
    <2> QED  BY <1>2, <2>2, <2>3
  <1>10. CASE \E b \in Ids : b # id /\ who[b] # 0 /\ p[b] = j
    <2>1. PICK b \in Ids : b # id /\ who[b] # 0 /\ p[b] = j
      BY <1>10
    <2> DEFINE q == [p EXCEPT ![b] = p[id], ![id] = j]
    <2>2. \A a \in Ids : q[a] = IF a = id THEN j ELSE IF a = b THEN p[id] ELSE p[a]
      BY <2>1
    <2>3. who[b] = who[id] /\ who[id] # 0
      BY <1>4, <1>8, <2>1
    <2>4. \A a, c \in Ids : a # c /\ who[a] # 0 /\ who[c] # 0 => q[a] # q[c]
      BY <1>8, <2>1, <2>2, <2>3
    <2>5. \A a \in Ids : who[a] # 0 => users[q[a]].uid = who[a]
      BY <1>4, <1>8, <2>2, <2>3
    <2>6. slips # {}
      BY <1>7, <2>1, <2>3 DEF Kept
    <2>7. q \in [Ids -> Slots] /\ q[id] = j
      BY <2>2
    <2> QED  BY <1>6, <1>9, <2>4, <2>5, <2>6, <2>7
  <1>11. CASE \A b \in Ids : b # id /\ who[b] # 0 => p[b] # j
    <2> DEFINE q == [p EXCEPT ![id] = j]
    <2>1. q \in [Ids -> Slots] /\ \A a \in Ids : q[a] = IF a = id THEN j ELSE p[a]
      OBVIOUS
    <2>2. \A a, c \in Ids : a # c /\ who[a] # 0 /\ who[c] # 0 => q[a] # q[c]
      BY <1>8, <1>11, <2>1
    <2>3. \A a \in Ids : who[a] # 0 => users[q[a]].uid = who[a]
      BY <1>4, <1>8, <2>1
    <2>4. slips = {} => \A a \in Ids : who[a] # 0 => q[a] = p[a]
      BY <1>4, <1>7, <2>1 DEF Kept
    <2> QED  BY <1>6, <1>9, <2>1, <2>2, <2>3, <2>4
  <1> QED  BY <1>10, <1>11

(* A login takes the profile the globals name, which is nobody's.          *)
LEMMA LoginAInv ==
    ASSUME SInv, AInv, Run, NEW u \in Uids, NEW more \in SUBSET (Dirs \ {0}),
           NEW cwd \in Dirs, cmd_login(u, more, cwd)
    PROVE  AInv'
  <1>1. /\ busy # NoId /\ busy \in Ids /\ busy' = busy /\ UNCHANGED users
        /\ g'.uid = u /\ g'.cwd = cwd /\ g'.profid = g.profid /\ g.profid \in Slots
        /\ who' = [who EXCEPT ![busy] = u] /\ at' = [at EXCEPT ![busy] = cwd]
        /\ \A a \in Ids : who'[a] = (IF a = busy THEN u ELSE who[a])
                        /\ at'[a] = (IF a = busy THEN cwd ELSE at[a])
    BY DEF Run, cmd_login, SInv, TypeOK, Globals
  <1> SUFFICES ASSUME slips' \subseteq {"shared"}
               PROVE  Current' /\ \E p \in [Ids -> Slots] : Assigned(p)' /\ (slips' = {} => Kept(p)')
    BY DEF AInv
  <1>2. /\ slips \subseteq {"shared"} /\ who[busy] = 0
        /\ slips' = {} => slips = {} /\ \A j \in Slots : users[j].uid # u
    BY DEF cmd_login
  <1>3. PICK p \in [Ids -> Slots] : Assigned(p) /\ (slips = {} => Kept(p))
    BY <1>2 DEF AInv
  <1>4. u # 0
    BY SessionsAssumption
  <1>5. Current'
    BY <1>1 DEF Current
  <1>6. PICK q \in [Ids -> Slots] : \A a \in Ids : q[a] = IF a = busy THEN g.profid ELSE p[a]
    <2>1. [p EXCEPT ![busy] = g.profid] \in [Ids -> Slots]
      BY <1>1
    <2> QED  BY <1>1, <2>1
  <1>7. Assigned(q)'
    BY <1>1, <1>2, <1>3, <1>6 DEF Assigned
  <1>8. ASSUME slips' = {}
        PROVE  Kept(q)'
    <2>1. slips = {} /\ (\A j \in Slots : users[j].uid # u) /\ Kept(p)
      BY <1>2, <1>3, <1>8
    <2>2. dirs \subseteq dirs' /\ cwd \in dirs' \cup {0}
      BY <1>1, <1>2, <2>1 DEF cmd_login, to_home, Kept
    <2>3. \A a \in Ids : a # busy /\ who[a] # 0 => who[a] # u
      BY <1>3, <2>1 DEF Assigned
    <2>4. \A a \in Ids : who'[a] # 0 => at'[a] \in dirs' \cup {0}
      BY <1>1, <2>1, <2>2 DEF Kept
    <2>5. \A a \in Ids : who'[a] # 0 /\ a # busy => users'[q[a]].cwd = at'[a]
      BY <1>1, <1>6, <2>1 DEF Kept
    <2>6. \A a \in Ids, j \in Slots : who'[a] # 0 /\ users'[j].uid = who'[a] => j = q[a]
      BY <1>1, <1>6, <2>1 DEF Kept
    <2>7. \A a, b \in Ids : a # b /\ who'[a] # 0 => who'[a] # who'[b]
      BY <1>1, <1>4, <2>1, <2>3 DEF Kept
    <2> QED  BY <1>1, <2>2, <2>4, <2>5, <2>6, <2>7 DEF Kept
  <1> QED  BY <1>5, <1>6, <1>7, <1>8

LEMMA RunAInv ==
    ASSUME SInv, AInv, Run
    PROVE  AInv'
  <1>1. busy # NoId /\ busy \in Ids /\ busy' = busy
    BY DEF Run, SInv, TypeOK
  <1>2. ASSUME NEW u \in Uids, NEW more \in SUBSET (Dirs \ {0}), NEW cwd \in Dirs,
               cmd_login(u, more, cwd)
        PROVE  AInv'
    BY <1>2, LoginAInv
  <1>3. ASSUME NEW more \in SUBSET (Dirs \ {0}), NEW cwd \in Dirs, cmd_f(more, cwd)
        PROVE  AInv'
    BY <1>3 DEF cmd_f, AInv
  <1>4. ASSUME /\ UNCHANGED <<users, slips>> /\ dirs \subseteq dirs'
               /\ g'.profid = g.profid
               /\ g'.uid = g.uid \/ (g'.uid = 0 /\ who'[busy] = 0)
               /\ \A a \in Ids : who'[a] = who[a] \/ who'[a] = 0
               /\ \A a \in Ids : a # busy => who'[a] = who[a] /\ at'[a] = at[a]
               /\ who'[busy] = who[busy] \/ g'.uid = 0
               /\ \/ UNCHANGED <<g, at>>
                  \/ g'.cwd \in dirs' \cup {0} /\ at'[busy] = g'.cwd
        PROVE  AInv'
    <2> SUFFICES ASSUME slips \subseteq {"shared"}
                 PROVE  Current' /\ \E p \in [Ids -> Slots] : Assigned(p)' /\ (slips = {} => Kept(p)')
      BY <1>4 DEF AInv
    <2>1. PICK p \in [Ids -> Slots] : Current /\ Assigned(p) /\ (slips = {} => Kept(p))
      BY DEF AInv
    <2>2. Current'
      BY <1>1, <1>4, <2>1 DEF Current
    <2>3. Assigned(p)'
      <3>1. \A a, b \in Ids : a # b /\ who'[a] # 0 /\ who'[b] # 0 => p[a] # p[b]
        BY <1>4, <2>1 DEF Assigned
      <3>2. \A a \in Ids : who'[a] # 0 /\ a # busy' => users'[p[a]].uid = who'[a]
        BY <1>1, <1>4, <2>1 DEF Assigned
      <3>3. \A a \in Ids : who'[a] # 0 => (p[a] = g'.profid <=> a = busy')
        BY <1>1, <1>4, <2>1 DEF Assigned
      <3> QED  BY <3>1, <3>2, <3>3 DEF Assigned
    <2>4. ASSUME slips = {}
          PROVE  Kept(p)'
      <3>1. /\ \A a \in Ids : who'[a] # 0 => at'[a] \in dirs' \cup {0}
            /\ g'.cwd \in dirs' \cup {0} /\ (who'[busy] # 0 => g'.cwd = at'[busy])
        BY <1>1, <1>4, <2>1, <2>4 DEF Kept
      <3>2. /\ \A a \in Ids : who'[a] # 0 /\ a # busy' => users'[p[a]].cwd = at'[a]
            /\ \A a \in Ids, j \in Slots : who'[a] # 0 /\ users'[j].uid = who'[a] => j = p[a]
        BY <1>1, <1>4, <2>1, <2>4 DEF Kept
      <3>3. \A a, b \in Ids : a # b /\ who'[a] # 0 => who'[a] # who'[b]
        BY <1>4, <2>1, <2>4 DEF Kept
      <3> QED  BY <1>1, <3>1, <3>2, <3>3 DEF Kept
    <2> QED  BY <2>2, <2>3, <2>4
  <1>5. g \in Globals /\ who \in [Ids -> UidsOrNone] /\ at \in [Ids -> Dirs]
    BY DEF SInv, TypeOK
  <1>6. CASE cmd_exit
    <2>1. /\ g'.profid = g.profid /\ g'.uid = 0 /\ g'.cwd = 0
          /\ who' = [who EXCEPT ![busy] = 0] /\ at' = [at EXCEPT ![busy] = 0]
          /\ UNCHANGED <<users, dirs, slips>>
      BY <1>5, <1>6 DEF cmd_exit, Globals
    <2> QED  BY <1>1, <1>4, <1>5, <2>1
  <1>7. ASSUME NEW d \in Dirs, cmd_cd(d)
        PROVE  AInv'
    <2>1. /\ g'.profid = g.profid /\ g'.uid = g.uid /\ g'.cwd = d /\ d \in dirs
          /\ at' = [at EXCEPT ![busy] = d] /\ UNCHANGED <<users, dirs, who, slips>>
      BY <1>5, <1>7 DEF cmd_cd, Globals
    <2> QED  BY <1>1, <1>4, <1>5, <2>1
  <1>8. ASSUME NEW d \in Dirs \ {0}, cmd_mkdir(d)
        PROVE  AInv'
    BY <1>4, <1>8 DEF cmd_mkdir
  <1>9. CASE OtherCommand
    BY <1>4, <1>9 DEF OtherCommand
  <1> QED  BY <1>2, <1>3, <1>6, <1>7, <1>8, <1>9 DEF Run

(* save_user writes the profile the globals name, of nobody but its client.*)
LEMMA EndAInv ==
    ASSUME SInv, AInv, End
    PROVE  AInv'
  <1>1. /\ busy # NoId /\ busy \in Ids /\ busy' = NoId
        /\ UNCHANGED <<conn, dirs, who, at, slips>>
        /\ g.profid \in Slots /\ users \in Profiles /\ \A a \in Ids : a # NoId
    BY NoIdFresh DEF End, SInv, TypeOK, Globals
  <1> SUFFICES ASSUME slips \subseteq {"shared"}
               PROVE  Current' /\ \E p \in [Ids -> Slots] : Assigned(p)' /\ (slips = {} => Kept(p)')
    BY <1>1 DEF AInv
  <1>2. Entries(busy) # {}
    BY <1>1 DEF SInv, InMap, HasEntry, Mutex
  <1>3. users' = [users EXCEPT ![g.profid] = [uid |-> g.uid, cwd |-> g.cwd]]
    BY <1>2 DEF End, save_user
  <1>4. \A j \in Slots : users'[j] = IF j = g.profid THEN [uid |-> g.uid, cwd |-> g.cwd]
                                   ELSE users[j]
    BY <1>1, <1>3 DEF Profiles
  <1>5. PICK p \in [Ids -> Slots] : Current /\ Assigned(p) /\ (slips = {} => Kept(p))
    BY DEF AInv
  <1>6. Current'
    BY <1>1 DEF Current
  <1>7. g.uid = who[busy] /\ \A a \in Ids : who[a] # 0 => (p[a] = g.profid <=> a = busy)
    BY <1>1, <1>5 DEF Current, Assigned
  <1>8. Assigned(p)'
    BY <1>1, <1>4, <1>5, <1>7 DEF Assigned
  <1>9. ASSUME slips = {}
        PROVE  Kept(p)'
    <2>1. Kept(p)
      BY <1>5, <1>9
    <2>2. \A a \in Ids : who[a] # 0 => users'[p[a]].cwd = at[a]
      BY <1>1, <1>4, <1>7, <2>1 DEF Kept
    <2>3. \A a \in Ids, j \in Slots : who[a] # 0 /\ users'[j].uid = who[a] => j = p[a]
      BY <1>1, <1>4, <1>7, <2>1 DEF Kept
    <2>4. /\ \A a \in Ids : who[a] # 0 => at[a] \in dirs \cup {0}
          /\ \A a, b \in Ids : a # b /\ who[a] # 0 => who[a] # who[b]
      BY <2>1 DEF Kept
    <2> QED  BY <1>1, <2>2, <2>3, <2>4 DEF Kept
  <1> QED  BY <1>6, <1>8, <1>9

LEMMA RestartAInv ==
    ASSUME Restart
    PROVE  AInv'
  <1> DEFINE p == [a \in Ids |-> 0]
  <1>1. p \in [Ids -> Slots]
    BY SessionsAssumption DEF Slots
  <1>2. busy' = NoId /\ \A a \in Ids : who'[a] = 0
    BY DEF Restart
  <1>3. Current' /\ Assigned(p)' /\ Kept(p)'
    BY <1>2 DEF Current, Assigned, Kept
  <1> QED  BY <1>1, <1>3 DEF AInv

(* The profiles can be assigned to the clients that are logged in for as   *)
(* long as load_user, login and cleanup leave each of them one.            *)
THEOREM AssignmentInvariance == Spec => []AInv
  <1>1. Init => AInv
    BY InitAInv
  <1>2. SInv /\ AInv /\ [Next]_vars => AInv'
    <2> SUFFICES ASSUME SInv, AInv, [Next]_vars
                 PROVE  AInv'
      OBVIOUS
    <2>1. CASE UNCHANGED vars
      <3>1. UNCHANGED <<users, dirs, g, busy, who, at, slips>>
        BY <2>1 DEF vars
      <3> QED  BY <3>1 DEF AInv, Current, Assigned, Kept
    <2>2. CASE Restart
      BY <2>2, RestartAInv
    <2>3. CASE Next /\ ~Restart
      BY <2>3, ConnectionAInv, BeginAInv, RunAInv, EndAInv DEF Next
    <2> QED  BY <2>1, <2>2, <2>3
  <1> QED  BY <1>1, <1>2, SessionsInvariance, PTL DEF Spec

(* A client that is logged in keeps a profile with its uid, though others  *)
(* with the same uid log in and out, until the map is mixed up, a client   *)
(* finds no profile, or the disk is formatted.                             *)
THEOREM ClientsStayLoggedIn == Spec => []StaysLoggedIn
  <1>1. AInv => StaysLoggedIn
    <2> SUFFICES ASSUME AInv, slips \subseteq {"shared"}, NEW id \in Ids, Settled(id)
                 PROVE  \E j \in Slots : users[j].uid = who[id]
      BY DEF StaysLoggedIn
    <2>1. PICK p \in [Ids -> Slots] : Assigned(p)
      BY DEF AInv
    <2>2. users[p[id]].uid = who[id]
      BY <2>1 DEF Assigned, Settled
    <2> QED  BY <2>2
  <1> QED  BY <1>1, AssignmentInvariance, PTL

(* While no two clients share a uid each one is where it left itself.      *)
THEOREM ClientsKeepTheirDirectory == Spec => []OwnDirectory
  <1>1. SInv /\ AInv => OwnDirectory
    <2> SUFFICES ASSUME SInv, AInv, slips = {}, NEW id \in Ids, Settled(id)
                 PROVE  \E j \in Slots : users[j] = [uid |-> who[id], cwd |-> at[id]]
      BY DEF OwnDirectory
    <2>1. PICK p \in [Ids -> Slots] : Assigned(p) /\ Kept(p)
      BY DEF AInv
    <2>2. users[p[id]].uid = who[id] /\ users[p[id]].cwd = at[id]
      BY <2>1 DEF Assigned, Kept, Settled
    <2>3. users[p[id]] = [uid |-> users[p[id]].uid, cwd |-> users[p[id]].cwd]
      BY DEF SInv, TypeOK, Profiles
    <2> QED  BY <2>2, <2>3
  <1> QED  BY <1>1, AssignmentInvariance, SessionsInvariance, PTL

-----------------------------------------------------------------------------
(* Dispatch.                                                               *)
(* The inductive invariant.  A client's thread parses with the mutex.      *)
Holding(c) == pc[c] \in {"parse", "null", "cut", "run"}
OneParser == \A c \in Clients : Holding(c) <=> mutex = c

(* How many arguments there are at each point, and what the first is.      *)
Counting(c) ==
    /\ pc[c] \in {"name", "lock", "parse"} => argv[c] = <<>>
    /\ pc[c] \in {"parse", "null", "cut"} => Len(argv[c]) < msg[c].takes
    /\ pc[c] \in {"null", "cut"} => argv[c] # <<>>
    /\ pc[c] = "run" /\ msg[c].takes > 0 => (argv[c] = <<>> <=> msg[c].words = 0)
    /\ argv[c] # <<>> => argv[c][1] = Word(c, 1) /\ msg[c].words > 0

Places(c) ==
    /\ \E n \in 0 .. Len(argv[c]) : Own(c) = 1 .. n
    /\ \A i \in Own(c) : argv[c][i].k = i

(* The pointer p may be what c goes on from: when it is in c's message it  *)
(* is behind the arguments so far, when it is in the message of another    *)
(* command that one waits for the mutex, and untouched it is the next word.*)
Waits(c, p) == p.of \in Clients \ {c} /\ msg[p.of].known => pc[p.of] = "lock"
Follows(c, p) ==
    p.of = c => /\ Own(c) = DOMAIN argv[c]
                /\ p.k = Len(argv[c]) + 1 \/ p.k > msg[c].words
InOrder(c, p) ==
    ~touched[c] =>
        /\ p = Word(c, Len(argv[c]) + 1) /\ ended[c] = 0 .. Len(argv[c])
        /\ argv[c] = [i \in 1 .. Len(argv[c]) |-> Word(c, i)]
        /\ Len(argv[c]) <= msg[c].words
GoesOn(c, p) == Waits(c, p) /\ Follows(c, p) /\ InOrder(c, p)

Least(m, n) == IF m < n THEN m ELSE n

Standing(c) ==
    /\ Counting(c) /\ Places(c)
    /\ pc[c] = "null" => GoesOn(c, olds)
    /\ pc[c] = "cut" => GoesOn(c, from[c])
    /\ Holding(c) => \A i \in DOMAIN argv[c] : Waits(c, argv[c][i])
    /\ ~touched[c] =>
         /\ pc[c] = "name" => ended[c] = {}
         /\ pc[c] \in {"lock", "parse"} => ended[c] = {0}
         /\ pc[c] = "run" =>
              argv[c] = [i \in 1 .. Least(msg[c].takes, msg[c].words) |-> Word(c, i)]

DispatchInv == DispatchTypeOK /\ OneParser /\ \A c \in Clients : Standing(c)

LEMMA Types ==
    ASSUME DispatchTypeOK, NEW c \in Clients
    PROVE  /\ msg[c] \in Kinds /\ msg[c].words \in Nat /\ msg[c].takes \in Nat
           /\ msg[c].known \in BOOLEAN
           /\ argv[c] \in Seq(Words) /\ Len(argv[c]) \in Nat
           /\ DOMAIN argv[c] = 1 .. Len(argv[c])
           /\ \A i \in 1 .. Len(argv[c]) : argv[c][i] \in Words
           /\ from[c] \in Pointer /\ c # NoOne
  BY DispatchAssumption DEF DispatchTypeOK

(* What a call of strtok does to the pointer and to the messages.          *)
LEMMA StrtokTypes ==
    ASSUME DispatchTypeOK, NEW p \in Pointer, strtok(p)
    PROVE  /\ olds' \in Pointer /\ olds'.of = p.of
           /\ DOMAIN ended' = Clients
           /\ \A c \in Clients : ended'[c] = IF ~AtNul(p) /\ p.of = c
                                            THEN ended[c] \cup {p.k} ELSE ended[c]
           /\ \A c \in Clients : ended'[c] \subseteq 0 .. msg[c].words
  <1>1. CASE AtNul(p)
    BY <1>1 DEF strtok, DispatchTypeOK
  <1>2. CASE ~AtNul(p)
    <2>1. p.of \in Clients /\ p.k \in Nat /\ p.k <= msg[p.of].words
          /\ msg[p.of].words \in Nat
      BY <1>2, Types DEF AtNul, Pointer
    <2>2. olds' \in Pointer /\ olds'.of = p.of
      BY <1>2, <2>1 DEF strtok, Behind, Word, Pointer
    <2>3. ended' = [ended EXCEPT ![p.of] = @ \cup {p.k}]
      BY <1>2 DEF strtok
    <2>4. ended \in [Clients -> SUBSET Nat]
          /\ \A c \in Clients : ended[c] \subseteq 0 .. msg[c].words
      BY DEF DispatchTypeOK
    <2>5. DOMAIN ended' = Clients
          /\ \A c \in Clients : ended'[c] = IF p.of = c THEN ended[c] \cup {p.k} ELSE ended[c]
      BY <2>1, <2>3, <2>4
    <2>6. p.k \in 0 .. msg[p.of].words
      BY <2>1
    <2>7. \A c \in Clients : ended'[c] \subseteq 0 .. msg[c].words
      <3> SUFFICES ASSUME NEW c \in Clients PROVE ended'[c] \subseteq 0 .. msg[c].words
        OBVIOUS
      <3>1. CASE p.of = c
        BY <3>1, <2>4, <2>5, <2>6
      <3>2. CASE p.of # c
        BY <3>2, <2>4, <2>5
      <3> QED  BY <3>1, <3>2
    <2> QED  BY <1>2, <2>2, <2>5, <2>7
  <1> QED  BY <1>1, <1>2

(* What others do leaves a client as it was when it does not touch its     *)
(* message, its arguments and what it goes on from.                        *)
LEMMA OthersStand ==
    ASSUME DispatchInv, NEW d \in Clients,
           msg' = msg, pc'[d] = pc[d], argv'[d] = argv[d], from'[d] = from[d],
           ended'[d] = ended[d] \/ touched'[d], touched[d] => touched'[d],
           \A e \in Clients : pc[e] = "lock" => pc'[e] = "lock" \/ ~Holding(d),
           pc[d] = "null" => \/ olds' = olds
                             \/ touched'[d] /\ olds'.of # d /\ Waits(d, olds)'
    PROVE  Standing(d)'
  <1>1. Standing(d) /\ Own(d)' = Own(d)
    BY DEF DispatchInv, Own
  <1>2. Counting(d)' /\ Places(d)'
    BY <1>1 DEF Standing, Counting, Places
  <1>3. \A p : Holding(d) /\ Waits(d, p) => Waits(d, p)'
    BY DEF Waits
  <1>4. \A p : Holding(d) /\ GoesOn(d, p) => GoesOn(d, p)'
    BY <1>1, <1>3 DEF GoesOn, Follows, InOrder
  <1>5. pc[d] = "null" => GoesOn(d, olds)'
    <2>1. ASSUME pc[d] = "null", olds' = olds PROVE GoesOn(d, olds)'
      BY <2>1, <1>1, <1>4 DEF Standing, Holding
    <2>2. ASSUME pc[d] = "null", touched'[d], olds'.of # d, Waits(d, olds)' PROVE GoesOn(d, olds)'
      BY <2>2 DEF GoesOn, Follows, InOrder
    <2> QED  BY <2>1, <2>2
  <1>6. pc[d] = "cut" => GoesOn(d, from[d])'
    BY <1>1, <1>4 DEF Standing, Holding
  <1>7. Holding(d)' = Holding(d)
    BY DEF Holding
  <1>8. Holding(d)' => \A i \in DOMAIN argv[d] : Waits(d, argv[d][i])'
    BY <1>1, <1>3, <1>7 DEF Standing
  <1> QED  BY <1>1, <1>2, <1>5, <1>6, <1>8 DEF Standing

-----------------------------------------------------------------------------
(* The step of parse that both FirstWord and Cut make: strtok at p, from which *)
(* the client goes on, and what is made of its result.                     *)
LEMMA TakeStands ==
    ASSUME DispatchInv, NEW c \in Clients, NEW p \in Pointer, msg' = msg,
           pc[c] \in {"parse", "cut"}, GoesOn(c, p), argv[c] = <<>> => p = Word(c, 1),
           strtok(p), Touch(c, p), Took(c, p)
    PROVE  Standing(c)'
  <1> DEFINE n == Len(argv[c])
             w == msg[c].words
             k == msg[c].takes
  <1>1. /\ DispatchTypeOK /\ Counting(c) /\ Places(c) /\ n < k
        /\ \A i \in DOMAIN argv[c] : Waits(c, argv[c][i])
        /\ n \in Nat /\ w \in Nat /\ k \in Nat /\ argv[c] \in Seq(Words)
        /\ DOMAIN argv[c] = 1 .. n
    BY Types DEF DispatchInv, Standing, Counting, Holding
  <1>2. touched'[c] = touched[c] /\ touched[c] \in BOOLEAN
    BY <1>1 DEF Touch, DispatchTypeOK
  <1>3. pc'[c] \in {"run", "null"} /\ \A d \in Clients \ {c} : pc'[d] = pc[d]
    BY <1>1 DEF Took, Goto, DispatchTypeOK
  <1>4. \A q : Waits(c, q) => Waits(c, q)'
    BY <1>3 DEF Waits
  <1>5. CASE AtNul(p)
    <2>1. argv' = argv /\ pc'[c] = "run" /\ Own(c)' = Own(c)
      BY <1>1, <1>5 DEF Took, Goto, DispatchTypeOK, Own
    <2>2. argv[c] = <<>> => w = 0
      BY <1>1, <1>5, Types DEF AtNul, Word
    <2>3. Counting(c)' /\ Places(c)'
      BY <1>1, <2>1, <2>2 DEF Counting, Places
    <2>4. \A i \in DOMAIN argv[c]' : Waits(c, argv[c][i])'
      BY <1>1, <1>4, <2>1
    <2>5. ~touched[c] => n = w /\ Least(k, w) = w
      BY <1>1, <1>5, DispatchAssumption DEF GoesOn, InOrder, AtNul, Word, Least
    <2>6. ~touched[c] => argv[c] = [i \in 1 .. Least(k, w) |-> Word(c, i)]
      BY <1>1, <2>5 DEF GoesOn, InOrder
    <2> QED  BY <1>2, <2>1, <2>3, <2>4, <2>6 DEF Standing
  <1>6. CASE ~AtNul(p)
    <2>1. p.of \in Clients /\ p.k \in Nat /\ p.k <= msg[p.of].words /\ p \in Words
          /\ msg[p.of].words \in Nat
      BY <1>1, <1>6, Types DEF AtNul, Pointer, Words
    <2>2. /\ argv'[c] = Append(argv[c], p)
          /\ pc'[c] = IF Len(argv'[c]) >= k THEN "run" ELSE "null"
      BY <1>1, <1>6 DEF Took, Goto, DispatchTypeOK
    <2>3. /\ Len(argv'[c]) = n + 1 /\ DOMAIN argv'[c] = 1 .. n + 1
          /\ argv'[c][n + 1] = p /\ \A i \in 1 .. n : argv'[c][i] = argv[c][i]
          /\ argv'[c] # <<>>
      <3>1. \A s \in Seq(Words), x \in Words :
              /\ Len(Append(s, x)) = Len(s) + 1 /\ Append(s, x) # <<>>
              /\ DOMAIN Append(s, x) = 1 .. Len(s) + 1
              /\ Append(s, x)[Len(s) + 1] = x
              /\ \A i \in 1 .. Len(s) : Append(s, x)[i] = s[i]
        OBVIOUS
      <3> QED  BY <1>1, <2>1, <2>2, <3>1
    <2>4. Counting(c)'
      <3>1. argv'[c][1] = Word(c, 1) /\ w > 0
        <4>1. CASE n = 0
          <5>1. argv[c] = <<>>
            BY <1>1, <4>1
          <5>2. p = Word(c, 1)
            BY <5>1
          <5> QED  BY <1>1, <2>1, <2>3, <4>1, <5>2 DEF Word
        <4>2. CASE n # 0
          BY <1>1, <2>3, <4>2 DEF Counting
        <4> QED  BY <4>1, <4>2
      <3> QED  BY <1>1, <1>3, <2>2, <2>3, <3>1 DEF Counting
    <2>5. p.of = c => Own(c) = 1 .. n /\ p.k = n + 1
      BY <1>1, <2>1 DEF GoesOn, Follows
    <2>6. p.of = c => Own(c)' = 1 .. n + 1
      BY <2>3, <2>5, <1>1 DEF Own
    <2>7. p.of # c => Own(c)' = Own(c)
      BY <2>3, <1>1 DEF Own
    <2>8. Places(c)'
      <3>1. CASE p.of = c
        BY <3>1, <1>1, <2>3, <2>5, <2>6 DEF Places
      <3>2. CASE p.of # c
        <4>1. Own(c) \subseteq 1 .. n
          BY <1>1 DEF Own
        <4> QED  BY <3>2, <4>1, <1>1, <2>3, <2>7 DEF Places
      <3> QED  BY <3>1, <3>2
    <2>9. \A i \in DOMAIN argv[c]' : Waits(c, argv[c][i])'
      <3>1. Waits(c, p)'
        BY <1>4 DEF GoesOn
      <3>2. \A i \in 1 .. n : Waits(c, argv[c][i])'
        BY <1>1, <1>4, <2>3
      <3>3. \A i \in 1 .. n + 1 : i \in 1 .. n \/ i = n + 1
        BY <1>1
      <3> QED  BY <2>3, <3>1, <3>2, <3>3
    <2>10. GoesOn(c, olds)'
      <3>1. /\ olds' = IF p.k \in ended[p.of] THEN Behind(p.of) ELSE Word(p.of, p.k + 1)
            /\ olds'.of = p.of
            /\ olds'.k = IF p.k \in ended[p.of] THEN msg[p.of].words + 1 ELSE p.k + 1
        BY <1>6 DEF strtok, Behind, Word
      <3>2. Waits(c, olds)'
        BY <1>4, <3>1 DEF GoesOn, Waits
      <3>3. Follows(c, olds)'
        <4>1. CASE p.of = c
          BY <4>1, <1>1, <2>3, <2>5, <2>6, <3>1 DEF Follows
        <4>2. CASE p.of # c
          BY <4>2, <3>1 DEF Follows
        <4> QED  BY <4>1, <4>2
      <3>4. InOrder(c, olds)'
        <4> SUFFICES ASSUME ~touched[c] PROVE InOrder(c, olds)'
          BY <1>2 DEF InOrder
        <4>1. /\ p = Word(c, n + 1) /\ ended[c] = 0 .. n /\ n <= w
              /\ argv[c] = [i \in 1 .. n |-> Word(c, i)]
          BY DEF GoesOn, InOrder
        <4>2. p.of = c /\ p.k = n + 1 /\ n + 1 <= w
          BY <4>1, <2>1 DEF Word
        <4>3. olds' = Word(c, n + 2)
          BY <4>1, <4>2, <3>1, <1>1
        <4>4. ended'[c] = 0 .. n + 1
          <5>1. ended'[c] = ended[c] \cup {n + 1}
            BY <4>2, <1>6, <1>1, StrtokTypes
          <5> QED  BY <4>1, <5>1, <1>1
        <4>5. argv'[c] = [i \in 1 .. n + 1 |-> Word(c, i)]
          BY <4>1, <1>1, <2>2, <2>3
        <4> QED  BY <4>2, <4>3, <4>4, <4>5, <2>3, <1>1 DEF InOrder
      <3> QED  BY <3>2, <3>3, <3>4 DEF GoesOn
    <2>11. pc'[c] = "run" /\ ~touched[c] =>
             argv'[c] = [i \in 1 .. Least(k, w) |-> Word(c, i)]
      <3> SUFFICES ASSUME pc'[c] = "run", ~touched[c]
                   PROVE  argv'[c] = [i \in 1 .. Least(k, w) |-> Word(c, i)]
        OBVIOUS
      <3>1. n + 1 >= k
        BY <2>2, <2>3
      <3>2. p = Word(c, n + 1) /\ argv[c] = [i \in 1 .. n |-> Word(c, i)]
        BY DEF GoesOn, InOrder
      <3>3. n + 1 <= w
        BY <3>2, <2>1 DEF Word
      <3>4. Least(k, w) = n + 1
        BY <1>1, <3>1, <3>3 DEF Least
      <3>5. argv'[c] = [i \in 1 .. n + 1 |-> Word(c, i)]
        BY <3>2, <1>1, <2>2, <2>3
      <3> QED  BY <3>4, <3>5
    <2> QED  BY <1>2, <1>3, <2>4, <2>8, <2>9, <2>10, <2>11 DEF Standing
  <1> QED  BY <1>5, <1>6

-----------------------------------------------------------------------------
(* The types, and the mutex, are kept by every step.                       *)
LEMMA TypesKept ==
    ASSUME DispatchInv, [DispatchNext]_dispatchvars
    PROVE  DispatchTypeOK'
  <1> USE DEF DispatchInv
  <1>1. ASSUME NEW c \in Clients, NEW p \in Pointer, msg' = msg, strtok(p),
               olds' \in Pointer, pc[c] \in {"parse", "cut"}, Took(c, p), Touch(c, p),
               mutex' = mutex, from' \in [Clients -> Pointer], Len(argv[c]) < msg[c].takes
        PROVE  DispatchTypeOK'
    <2>1. ended' \in [Clients -> SUBSET Nat] /\ \A d \in Clients : ended'[d] \subseteq 0 .. msg[d].words
      <3>1. \A d \in Clients : ended'[d] \subseteq 0 .. msg[d].words
        BY <1>1, StrtokTypes
      <3>2. ended' \in [Clients -> SUBSET Nat]
        BY <1>1 DEF strtok, AtNul, Pointer, DispatchTypeOK
      <3> QED  BY <3>1, <3>2
    <2>2. argv' \in [Clients -> Seq(Words)] /\ \A d \in Clients : Len(argv'[d]) <= msg[d].takes
      <3>1. CASE AtNul(p)
        BY <1>1, <3>1 DEF Took, DispatchTypeOK
      <3>2. CASE ~AtNul(p)
        <4>1. p \in Words /\ argv[c] \in Seq(Words) /\ msg[c].takes \in Nat
          BY <1>1, <3>2, Types DEF AtNul, Pointer, Words
        <4>2. argv' = [argv EXCEPT ![c] = Append(argv[c], p)]
          BY <1>1, <3>2 DEF Took
        <4>3. Append(argv[c], p) \in Seq(Words) /\ Len(Append(argv[c], p)) <= msg[c].takes
          BY <4>1, <1>1
        <4> QED  BY <4>2, <4>3 DEF DispatchTypeOK
      <3> QED  BY <3>1, <3>2
    <2>3. pc' \in [Clients -> {"name", "lock", "parse", "null", "cut", "run", "done"}]
      BY <1>1 DEF Took, Goto, DispatchTypeOK
    <2>4. touched' \in [Clients -> BOOLEAN]
      BY <1>1 DEF Touch, Parsing, DispatchTypeOK
    <2> QED  BY <1>1, <2>1, <2>2, <2>3, <2>4 DEF DispatchTypeOK
  <1>2. ASSUME NEW c \in Clients, Name(c) PROVE DispatchTypeOK'
    <2>1. Word(c, 0) \in Pointer
      BY DEF Word, Pointer
    <2>2. strtok(Word(c, 0)) /\ Touch(c, Word(c, 0))
          /\ UNCHANGED <<msg, mutex, from, argv>> /\ \E k \in {"lock", "done"} : Goto(c, k)
      BY <1>2 DEF Name
    <2>3. olds' \in Pointer /\ \A d \in Clients : ended'[d] \subseteq 0 .. msg[d].words
      BY <2>1, <2>2, StrtokTypes
    <2>4. ended' \in [Clients -> SUBSET Nat]
      BY <2>2 DEF strtok, AtNul, Word, DispatchTypeOK
    <2>5. pc' \in [Clients -> {"name", "lock", "parse", "null", "cut", "run", "done"}]
          /\ touched' \in [Clients -> BOOLEAN]
      BY <2>2 DEF Goto, Touch, Parsing, DispatchTypeOK
    <2> QED  BY <2>2, <2>3, <2>4, <2>5 DEF DispatchTypeOK
  <1>3. ASSUME NEW c \in Clients, FirstWord(c) PROVE DispatchTypeOK'
    <2>1. Word(c, 1) \in Pointer
      BY DEF Word, Pointer
    <2>2. Len(argv[c]) < msg[c].takes /\ from' \in [Clients -> Pointer]
      BY <1>3 DEF FirstWord, Standing, Counting, DispatchTypeOK
    <2> QED  BY <1>1, <1>3, <2>1, <2>2, StrtokTypes DEF FirstWord
  <1>4. ASSUME NEW c \in Clients, Cut(c) PROVE DispatchTypeOK'
    <2>1. from[c] \in Pointer /\ Nowhere \in Pointer
      BY Types DEF Nowhere, Word, Pointer
    <2>2. Len(argv[c]) < msg[c].takes /\ from' \in [Clients -> Pointer]
      BY <1>4, <2>1 DEF Cut, Standing, Counting, DispatchTypeOK
    <2> QED  BY <1>1, <1>4, <2>1, <2>2, StrtokTypes DEF Cut
  <1>5. ASSUME NEW c \in Clients, Lock(c) \/ Load(c) \/ Serve(c) PROVE DispatchTypeOK'
    BY <1>5 DEF Lock, Load, Serve, Goto, DispatchTypeOK
  <1>6. CASE UNCHANGED dispatchvars
    BY <1>6 DEF dispatchvars, DispatchTypeOK
  <1> QED  BY <1>2, <1>3, <1>4, <1>5, <1>6 DEF DispatchNext, AllDone

LEMMA MutexKept ==
    ASSUME DispatchInv, [DispatchNext]_dispatchvars
    PROVE  OneParser'
  <1> USE DEF DispatchInv, OneParser, Holding, DispatchTypeOK
  <1>1. ASSUME NEW c \in Clients, Name(c) PROVE OneParser'
    BY <1>1 DEF Name, Goto
  <1>2. ASSUME NEW c \in Clients, Lock(c) PROVE OneParser'
    BY <1>2, DispatchAssumption DEF Lock, Goto
  <1>3. ASSUME NEW c \in Clients, FirstWord(c) PROVE OneParser'
    BY <1>3 DEF FirstWord, Took, Goto
  <1>4. ASSUME NEW c \in Clients, Load(c) PROVE OneParser'
    BY <1>4 DEF Load, Goto
  <1>5. ASSUME NEW c \in Clients, Cut(c) PROVE OneParser'
    BY <1>5 DEF Cut, Took, Goto
  <1>6. ASSUME NEW c \in Clients, Serve(c) PROVE OneParser'
    BY <1>6, DispatchAssumption DEF Serve, Goto
  <1>7. CASE UNCHANGED dispatchvars
    BY <1>7 DEF dispatchvars
  <1> QED  BY <1>1, <1>2, <1>3, <1>4, <1>5, <1>6, <1>7 DEF DispatchNext, AllDone

-----------------------------------------------------------------------------
(* Each action leaves every client standing.                               *)
LEMMA NameStands ==
    ASSUME DispatchInv, NEW c \in Clients, Name(c)
    PROVE  \A d \in Clients : Standing(d)'
  <1> DEFINE p == Word(c, 0)
  <1>1. /\ strtok(p) /\ Touch(c, p) /\ pc[c] = "name" /\ UNCHANGED <<msg, mutex, from, argv>>
        /\ pc'[c] = IF msg[c].known THEN "lock" ELSE "done"
        /\ \A d \in Clients \ {c} : pc'[d] = pc[d]
        /\ DispatchTypeOK /\ p \in Pointer /\ p.of = c /\ p.k = 0 /\ msg[c].words \in Nat /\ c # NoOne
    BY Types DEF Name, Goto, DispatchInv, DispatchTypeOK, Word, Pointer
  <1>2. ~AtNul(p)
    BY <1>1 DEF AtNul
  <1>3. ended'[c] = ended[c] \cup {0} /\ olds'.of = c
        /\ \A d \in Clients \ {c} : ended'[d] = ended[d]
    BY <1>1, <1>2, StrtokTypes
  <1>4. Standing(c)'
    <2>1. Standing(c) /\ Own(c)' = Own(c)
      BY <1>1 DEF DispatchInv, Own
    <2>2. Counting(c)' /\ Places(c)'
      BY <1>1, <2>1 DEF Standing, Counting, Places
    <2>3. touched'[c] = touched[c]
      BY <1>1 DEF Touch, DispatchTypeOK
    <2>4. ~touched'[c] => ended'[c] = {0}
      BY <1>1, <1>3, <2>1, <2>3 DEF Standing
    <2> QED  BY <1>1, <2>2, <2>4 DEF Standing, Holding
  <1>5. ASSUME NEW d \in Clients, d # c PROVE Standing(d)'
    <2>1. touched[d] => touched'[d]
      BY <1>1 DEF Touch, DispatchTypeOK
    <2>2. pc[d] = "null" => touched'[d] /\ olds'.of # d /\ Waits(d, olds)'
      <3>1. pc[d] = "null" => touched'[d]
        BY <1>1, <1>5 DEF Touch, DispatchTypeOK, Parsing
      <3>2. Waits(d, olds)'
        BY <1>1, <1>3 DEF Waits
      <3> QED  BY <1>3, <1>5, <3>1, <3>2
    <2>3. \A e \in Clients : pc[e] = "lock" => pc'[e] = "lock"
      BY <1>1
    <2> QED  BY <1>1, <1>3, <1>5, <2>1, <2>2, <2>3, OthersStand
  <1> QED  BY <1>4, <1>5

(* A step of the thread with the mutex, for the others.                    *)
LEMMA HolderStands ==
    ASSUME DispatchInv, NEW c \in Clients, mutex = c \/ mutex = NoOne, pc[c] # "lock" \/ mutex = NoOne,
           UNCHANGED msg, \A d \in Clients \ {c} : pc'[d] = pc[d] /\ argv'[d] = argv[d]
                                                     /\ from'[d] = from[d],
           \A d \in Clients \ {c} : (touched[d] => touched'[d]) /\ (ended'[d] = ended[d] \/ touched'[d])
    PROVE  \A d \in Clients \ {c} : Standing(d)'
  <1> SUFFICES ASSUME NEW d \in Clients, d # c PROVE Standing(d)'
    OBVIOUS
  <1>1. ~Holding(d) /\ pc[d] # "null"
    BY DispatchAssumption DEF DispatchInv, OneParser, Holding
  <1>2. \A e \in Clients : pc[e] = "lock" => pc'[e] = "lock" \/ ~Holding(d)
    BY <1>1
  <1> QED  BY <1>1, <1>2, OthersStand

LEMMA LockStands ==
    ASSUME DispatchInv, NEW c \in Clients, Lock(c)
    PROVE  \A d \in Clients : Standing(d)'
  <1>1. /\ pc[c] = "lock" /\ mutex = NoOne /\ UNCHANGED <<msg, ended, olds, from, argv, touched>>
        /\ pc'[c] = IF msg[c].takes = 0 THEN "run" ELSE "parse"
        /\ \A d \in Clients \ {c} : pc'[d] = pc[d]
        /\ Standing(c) /\ argv[c] = <<>> /\ msg[c].takes \in Nat /\ msg[c].words \in Nat
    BY Types DEF Lock, Goto, DispatchInv, DispatchTypeOK, Standing, Counting
  <1>2. \A d \in Clients \ {c} : Standing(d)'
    BY <1>1, HolderStands
  <1>3. Counting(c)' /\ Places(c)'
    BY <1>1 DEF Counting, Standing, Places, Own
  <1>4. msg[c].takes = 0 => <<>> = [i \in 1 .. Least(msg[c].takes, msg[c].words) |-> Word(c, i)]
    BY <1>1 DEF Least
  <1>5. Standing(c)'
    BY <1>1, <1>3, <1>4 DEF Standing
  <1> QED  BY <1>2, <1>5

LEMMA TakingStands ==
    ASSUME DispatchInv, NEW c \in Clients, FirstWord(c) \/ Cut(c)
    PROVE  \A d \in Clients : Standing(d)'
  <1> DEFINE p == IF pc[c] = "parse" THEN Word(c, 1) ELSE from[c]
  <1>1. /\ pc[c] \in {"parse", "cut"} /\ strtok(p) /\ Touch(c, p) /\ Took(c, p)
        /\ msg' = msg /\ \A d \in Clients \ {c} : from'[d] = from[d]
    BY DEF FirstWord, Cut, DispatchInv, DispatchTypeOK
  <1>2. /\ DispatchTypeOK /\ Standing(c) /\ p \in Pointer /\ mutex = c /\ c # NoOne
        /\ argv[c] \in Seq(Words)
    BY <1>1, Types DEF DispatchInv, OneParser, Holding, Word, Pointer
  <1>3. GoesOn(c, p) /\ (argv[c] = <<>> => p = Word(c, 1))
    <2>1. CASE pc[c] = "parse"
      <3>1. argv[c] = <<>> /\ p = Word(c, 1) /\ p.of = c /\ p.k = 1 /\ DOMAIN argv[c] = {}
            /\ Len(argv[c]) = 0 /\ msg[c].words \in Nat
        BY <2>1, <1>2, Types DEF Standing, Counting, Word
      <3>2. Own(c) = {}
        BY <3>1 DEF Own
      <3>3. InOrder(c, p)
        BY <2>1, <3>1, <1>2 DEF InOrder, Standing
      <3> QED  BY <3>1, <3>2, <3>3 DEF GoesOn, Waits, Follows
    <2>2. CASE pc[c] = "cut"
      BY <2>2, <1>2 DEF Standing, Counting
    <2> QED  BY <1>1, <2>1, <2>2
  <1>4. Standing(c)'
    BY <1>1, <1>2, <1>3, TakeStands
  <1>5. \A d \in Clients \ {c} : pc'[d] = pc[d] /\ argv'[d] = argv[d]
    BY <1>1, <1>2 DEF Took, Goto, DispatchTypeOK
  <1>6. \A d \in Clients \ {c} : (touched[d] => touched'[d]) /\ (ended'[d] = ended[d] \/ touched'[d])
    <2>1. \A d \in Clients \ {c} : touched'[d] = (touched[d] \/ Parsing(d) \/ p.of = d)
      BY <1>1 DEF Touch
    <2>2. \A d \in Clients : p.of # d => ended'[d] = ended[d]
      BY <1>1, <1>2, StrtokTypes
    <2> QED  BY <2>1, <2>2
  <1>7. \A d \in Clients \ {c} : Standing(d)'
    BY <1>1, <1>2, <1>5, <1>6, HolderStands
  <1> QED  BY <1>4, <1>7

LEMMA LoadStands ==
    ASSUME DispatchInv, NEW c \in Clients, Load(c)
    PROVE  \A d \in Clients : Standing(d)'
  <1>1. /\ pc[c] = "null" /\ pc'[c] = "cut" /\ from'[c] = olds
        /\ UNCHANGED <<msg, ended, olds, mutex, argv, touched>>
        /\ \A d \in Clients \ {c} : pc'[d] = pc[d] /\ from'[d] = from[d]
        /\ Standing(c) /\ mutex = c
    BY DEF Load, Goto, DispatchInv, DispatchTypeOK, OneParser, Holding
  <1>2. \A d \in Clients \ {c} : Standing(d)'
    BY <1>1, HolderStands
  <1>3. Counting(c)' /\ Places(c)' /\ Own(c)' = Own(c)
    BY <1>1 DEF Counting, Standing, Places, Own
  <1>4. \A q : Waits(c, q) => Waits(c, q)'
    BY <1>1 DEF Waits
  <1>5. GoesOn(c, from[c])'
    BY <1>1, <1>3, <1>4 DEF Standing, GoesOn, Follows, InOrder
  <1>6. Standing(c)'
    BY <1>1, <1>3, <1>4, <1>5 DEF Standing, Holding
  <1> QED  BY <1>2, <1>6

LEMMA RunStands ==
    ASSUME DispatchInv, NEW c \in Clients, Serve(c)
    PROVE  \A d \in Clients : Standing(d)'
  <1>1. /\ pc[c] = "run" /\ pc'[c] = "done" /\ UNCHANGED <<msg, ended, olds, from, argv, touched>>
        /\ \A d \in Clients \ {c} : pc'[d] = pc[d]
        /\ Standing(c) /\ mutex = c
    BY DEF Serve, Goto, DispatchInv, DispatchTypeOK, OneParser, Holding
  <1>2. \A d \in Clients \ {c} : Standing(d)'
    BY <1>1, HolderStands
  <1>3. Counting(c)' /\ Places(c)'
    BY <1>1 DEF Counting, Standing, Places, Own
  <1>4. Standing(c)'
    BY <1>1, <1>3 DEF Standing, Holding
  <1> QED  BY <1>2, <1>4

-----------------------------------------------------------------------------
(* The invariant holds for any clients and messages.                       *)
THEOREM DispatchInvariance == DispatchSpec => []DispatchInv
  <1>1. DispatchInit => DispatchInv
    <2> SUFFICES ASSUME DispatchInit PROVE DispatchInv
      OBVIOUS
    <2>1. DispatchTypeOK
      BY DispatchAssumption DEF DispatchInit, DispatchTypeOK, Nowhere, Word, Pointer
    <2>2. OneParser
      BY DispatchAssumption DEF DispatchInit, OneParser, Holding
    <2>3. ASSUME NEW c \in Clients PROVE Standing(c)
      <3>1. pc[c] = "name" /\ argv[c] = <<>> /\ ended[c] = {}
        BY DEF DispatchInit
      <3>2. Counting(c)
        BY <3>1 DEF Counting
      <3>3. Places(c)
        BY <3>1 DEF Places, Own
      <3> QED  BY <3>1, <3>2, <3>3 DEF Standing, Holding
    <2> QED  BY <2>1, <2>2, <2>3 DEF DispatchInv
  <1>2. DispatchInv /\ [DispatchNext]_dispatchvars => DispatchInv'
    <2> SUFFICES ASSUME DispatchInv, [DispatchNext]_dispatchvars PROVE DispatchInv'
      OBVIOUS
    <2>1. DispatchTypeOK' /\ OneParser'
      BY TypesKept, MutexKept
    <2>2. CASE UNCHANGED dispatchvars
      <3>1. \A d \in Clients : Standing(d)'
        BY <2>2, OthersStand DEF dispatchvars
      <3> QED  BY <2>1, <3>1 DEF DispatchInv
    <2>3. CASE \E c \in Clients : Name(c) \/ Lock(c) \/ FirstWord(c) \/ Load(c) \/ Cut(c) \/ Serve(c)
      <3>1. \A d \in Clients : Standing(d)'
        BY <2>3, NameStands, LockStands, TakingStands, LoadStands, RunStands
      <3> QED  BY <2>1, <3>1 DEF DispatchInv
    <2> QED  BY <2>2, <2>3 DEF DispatchNext, AllDone
  <1> QED  BY <1>1, <1>2, PTL DEF DispatchSpec

(* The first argument is the client's own, whoever else is in strtok.      *)
THEOREM FirstArgumentIsOwn == DispatchSpec => []FirstIsOwn
  <1>1. DispatchInv => FirstIsOwn
    BY DEF DispatchInv, FirstIsOwn, Standing, Counting, Places
  <1> QED  BY <1>1, DispatchInvariance, PTL

(* A foreign argument is still there while a command uses it.              *)
THEOREM ForeignWordsAreThere == DispatchSpec => []StillThere
  <1>1. DispatchInv => StillThere
    <2> SUFFICES ASSUME DispatchInv, NEW c \in Clients, pc[c] = "run",
                        NEW i \in DOMAIN argv[c] \ Own(c), msg[argv[c][i].of].known
                 PROVE  pc[argv[c][i].of] = "lock"
      BY DEF StillThere
    <2>1. argv[c][i].of \in Clients \ {c}
      BY Types DEF DispatchInv, Own, Words
    <2>2. Waits(c, argv[c][i])
      BY DEF DispatchInv, Standing, Holding
    <2> QED  BY <2>1, <2>2 DEF Waits
  <1> QED  BY <1>1, DispatchInvariance, PTL

(* Without interference the arguments are the words that were sent.        *)
THEOREM ArgumentsAreWhole == DispatchSpec => []Whole
  <1>1. DispatchInv => Whole
    BY DEF DispatchInv, Whole, Standing, Least
  <1> QED  BY <1>1, DispatchInvariance, PTL
=============================================================================
