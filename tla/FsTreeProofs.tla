---------------------------- MODULE FsTreeProofs ----------------------------
(* Proofs about FsTree, for every number of inodes, any users, names and   *)
(* modes.                                                                  *)
EXTENDS FsTree, FiniteSetTheorems, SequenceTheorems, WellFoundedInduction, TLAPS

-----------------------------------------------------------------------------
(* What tables and writes are made of.                                     *)
Labels == Names \cup {".", "..", "home"} \cup {ToString(u) : u \in Users}
Entries == [name : Labels, inum : 0 .. NINODE]
Types == {"empty", T_DIR, T_FILE}
Nodes ==
    {n \in [type : Types, mode : Modes \cup {NoRights}, uid : Users \cup {0},
            ents : Seq(Entries)] : n.type # T_DIR => n.ents = <<>>}
Tables == [Inums -> Nodes]
Writes == [at : SUBSET Inums, to : Nodes]

LiveIn(n) == {e \in ToSet(n.ents) : e.inum # NINODE}
ChildrenIn(n) == {e \in LiveIn(n) : e.name \notin {".", ".."}}
EntriesIn(t) == \A d \in Inums : \A e \in LiveIn(t[d]) : t[e.inum].type # "empty"

(* Writes that keep the entries of a table sound at every one of them:    *)
(* none takes an inode away or makes it another thing, and an entry is     *)
(* only written when its inode was.                                        *)
Keeps(ws) == \A k \in DOMAIN ws : ws[k].to.type # "empty"
Makes(ws, k, x, type) == x \in ws[k].at /\ ws[k].to.type = type
SameKind(t, ws) ==
    \A k \in DOMAIN ws : \A x \in ws[k].at :
        /\ t[x].type \in {"empty", ws[k].to.type}
        /\ \A j \in 1 .. k - 1 :
             x \in ws[j].at => ws[j].to.type \in {"empty", ws[k].to.type}
Founded(t, ws) ==
    \A k \in DOMAIN ws : \A e \in LiveIn(ws[k].to) :
        \/ t[e.inum].type # "empty"
        \/ \E j \in 1 .. k - 1 : e.inum \in ws[j].at /\ ws[j].to.type # "empty"
Ordered(t, ws) == Keeps(ws) /\ SameKind(t, ws) /\ Founded(t, ws)

(* An inode is a directory, or the writes make it one.                     *)
Becomes(t, ws, x) ==
    t[x].type = T_DIR \/ \E k \in DOMAIN ws : Makes(ws, k, x, T_DIR)

(* Writes that remove from a directory only what the user may remove.      *)
EntitledIn(t, u, i) ==
    u = 1 \/ (IF t[i].uid = u THEN "W" \in t[i].mode.own ELSE "W" \in t[i].mode.oth)
Stays(t, ws, i) ==
    \A m \in DOMAIN ws :
        i \in ws[m].at => ws[m].to.mode = t[i].mode /\ ws[m].to.uid = t[i].uid
Allowed(t, ws, u, i) == EntitledIn(t, u, i) /\ Stays(t, ws, i)
Removes(from, to) == ChildrenIn(from) \ LiveIn(to)
Rightful(t, ws, u) ==
    \A k \in DOMAIN ws : \A d \in ws[k].at :
        /\ \A e \in Removes(t[d], ws[k].to) :
             Allowed(t, ws, u, e.inum) /\ Allowed(t, ws, u, d)
        /\ \A j \in 1 .. k - 1 : d \in ws[j].at =>
             \A e \in Removes(ws[j].to, ws[k].to) :
                 Allowed(t, ws, u, e.inum) /\ Allowed(t, ws, u, d)

(* The writes a format has still to make in its clearing.                  *)
ToClear(t, ws) ==
    \E c \in Seq(Writes) :
        c # <<>> /\ ws = c \o Founding /\ After(t, c) = Formatted

(* The invariant.                                                          *)
Kinds == {"idle", "mk", "mkdir", "rm", "rmdir", "cd", "login", "refused", "f"}
Typed ==
    /\ ino \in Tables /\ todo \in Seq(Writes) /\ cwd \in [Users -> Inums]
    /\ cmd.k \in Kinds /\ cmd.to \in Inums
    /\ cmd.fate \in {"returns", "asserts", "null"}
    /\ Quiet \/ (cmd.u \in Users /\ cmd.k # "idle")
    /\ Quiet => todo = <<>>
    /\ torn \in BOOLEAN /\ crashed \in BOOLEAN /\ lost \in BOOLEAN
Placed ==
    ~lost =>
        /\ cmd.k # "f" => \A u \in Users : ino[cwd[u]].type = T_DIR
        /\ cmd.k = "f" =>
             /\ \A u \in Users \ {1} : cwd[u] = 0
             /\ cmd.u = 1 /\ cmd.fate = "returns"
             /\ ~torn => Becomes(ino, todo, 0)
        /\ ~Quiet /\ ~torn /\ cmd.fate = "returns" => Becomes(ino, todo, cmd.to)
Clearings ==
    (Quiet /\ crashed) \/ (cmd = Cmd("f", 1, Homes.to, "returns") /\ ToClear(ino, todo))
Writing ==
    /\ EntriesIn(ino) /\ Ordered(ino, todo)
    /\ cmd.k # "f" => Rightful(ino, todo, cmd.u)
RInv == Typed /\ Placed /\ (torn => Clearings) /\ (~torn => Writing)

-----------------------------------------------------------------------------
(* Numbers and sequences.                                                  *)
LEMMA NinodeIs == NINODE \in Nat /\ NINODE > 3
BY FsTreeAssumption

LEMMA LeastIs ==
    ASSUME NEW S \in SUBSET Nat, S # {}
    PROVE  \E x \in S : \A y \in S : x <= y
<1>1. PICK x \in S : \A y \in S : ~(<<y, x>> \in OpToRel(<, Nat))
  BY NatLessThanWellFounded, WFMin
<1>2. \A y \in S : ~(y < x)  BY <1>1 DEF OpToRel
<1> QED  BY <1>2

LEMMA MinIs ==
    ASSUME NEW S \in SUBSET Nat, S # {}
    PROVE  Min(S) \in S /\ \A y \in S : Min(S) <= y
BY LeastIs DEF Min

LEMMA MaxIs ==
    ASSUME NEW n \in Nat, NEW S \in SUBSET (1 .. n), S # {}
    PROVE  Max(S) \in S /\ \A y \in S : Max(S) >= y
<1> DEFINE R == {n - x : x \in S}
<1>1. R \in SUBSET Nat /\ R # {}
  <2>1. \A x \in S : n - x \in Nat  OBVIOUS
  <2> QED  BY <2>1
<1>2. PICK r \in R : \A y \in R : r <= y
  <2> HIDE DEF R
  <2> QED  BY <1>1, LeastIs
<1>3. PICK x \in S : r = n - x  BY <1>2
<1>4. \A y \in S : x >= y
  <2> TAKE y \in S
  <2>1. n - y \in R  OBVIOUS
  <2>2. n - x <= n - y  BY <1>2, <1>3, <2>1
  <2>3. x \in Int /\ y \in Int  OBVIOUS
  <2> QED  BY <2>2, <2>3
<1>5. \E z \in S : \A y \in S : z >= y  BY <1>4
<1> QED  BY <1>5 DEF Max

(* What a table is after writes: the last write at an inode, if any.       *)
LastAt(ws, k, x) ==
    /\ k \in DOMAIN ws /\ x \in ws[k].at
    /\ \A j \in DOMAIN ws : x \in ws[j].at => j <= k
Untouched(ws, x) == \A k \in DOMAIN ws : x \notin ws[k].at

LEMMA AfterIs ==
    ASSUME NEW t, NEW ws \in Seq(Writes), NEW x \in Inums
    PROVE  /\ Untouched(ws, x) => After(t, ws)[x] = t[x]
           /\ \/ Untouched(ws, x)
              \/ \E k \in DOMAIN ws : LastAt(ws, k, x) /\ After(t, ws)[x] = ws[k].to
           /\ \A k \in DOMAIN ws : LastAt(ws, k, x) => After(t, ws)[x] = ws[k].to
<1> DEFINE ks == {k \in DOMAIN ws : x \in ws[k].at}
<1>1. After(t, ws)[x] = IF ks = {} THEN t[x] ELSE ws[Max(ks)].to
  BY DEF After
<1>2. PICK n \in Nat : DOMAIN ws = 1 .. n
  BY LenProperties
<1>3. ks \in SUBSET (1 .. n)  BY <1>2
<1>4. ks # {} => Max(ks) \in ks /\ \A y \in ks : Max(ks) >= y
  <2> HIDE DEF ks
  <2> QED  BY <1>3, MaxIs
<1>5. ks = {} <=> Untouched(ws, x)  BY DEF Untouched
<1>6. ks # {} => LastAt(ws, Max(ks), x) /\ Max(ks) \in DOMAIN ws
  <2> SUFFICES ASSUME ks # {} PROVE LastAt(ws, Max(ks), x) /\ Max(ks) \in DOMAIN ws
    OBVIOUS
  <2>1. Max(ks) \in ks /\ \A y \in ks : Max(ks) >= y  BY <1>4
  <2>2. \A j \in DOMAIN ws : x \in ws[j].at => j \in ks  OBVIOUS
  <2>3. \A j \in ks : j <= Max(ks)
    <3> TAKE j \in ks
    <3>1. j \in Int /\ Max(ks) \in Int  BY <1>3, <2>1
    <3>2. Max(ks) >= j  BY <2>1
    <3> HIDE DEF ks
    <3> QED  BY <3>1, <3>2
  <2>4. Max(ks) \in DOMAIN ws /\ x \in ws[Max(ks)].at  BY <2>1
  <2> QED  BY <2>2, <2>3, <2>4 DEF LastAt
<1>7. \A k \in DOMAIN ws : LastAt(ws, k, x) => ks # {} /\ k = Max(ks)
  <2> TAKE k \in DOMAIN ws
  <2> HAVE LastAt(ws, k, x)
  <2>1. k \in ks  BY DEF LastAt
  <2>2. Max(ks) \in ks /\ Max(ks) >= k /\ Max(ks) <= k
    BY <1>4, <1>6, <2>1 DEF LastAt
  <2>3. k \in Int /\ Max(ks) \in Int  BY <1>3, <2>1, <2>2
  <2> HIDE DEF ks
  <2> QED  BY <2>1, <2>2, <2>3
<1> HIDE DEF ks
<1> QED  BY <1>1, <1>5, <1>6, <1>7

LEMMA WriteIs ==
    ASSUME NEW ws \in Seq(Writes), NEW k \in DOMAIN ws
    PROVE  /\ ws[k].at \subseteq Inums /\ ws[k].to \in Nodes /\ k \in Nat \ {0}
           /\ ws[k].to.type \in Types
<1>1. ws[k] \in Writes  BY ElementOfSeq, LenProperties
<1>2. k \in Nat \ {0}  BY LenProperties
<1> QED  BY <1>1, <1>2 DEF Writes, Nodes

LEMMA NodeIs ==
    ASSUME NEW n \in Nodes
    PROVE  /\ n.type \in Types /\ n.mode \in Modes \cup {NoRights}
           /\ n.uid \in Users \cup {0} /\ n.ents \in Seq(Entries)
           /\ n.type # T_DIR => n.ents = <<>>
BY DEF Nodes

LEMMA LiveIs ==
    ASSUME NEW n \in Nodes, NEW e \in LiveIn(n)
    PROVE  /\ e \in Entries /\ e.inum \in Inums /\ n.type = T_DIR
           /\ \E k \in DOMAIN n.ents : n.ents[k] = e
<1>1. PICK k \in DOMAIN n.ents : n.ents[k] = e  BY DEF LiveIn, ToSet
<1>2. n.ents \in Seq(Entries)  BY NodeIs
<1>3. e \in Entries
  BY <1>1, <1>2, ElementOfSeq, LenProperties
<1>4. e.inum \in 0 .. NINODE /\ e.inum # NINODE  BY <1>3 DEF Entries, LiveIn
<1>5. e.inum \in Inums  BY <1>4, NinodeIs DEF Inums
<1>6. n.type = T_DIR
  <2>1. n.ents # <<>>  BY <1>1
  <2> QED  BY <2>1, NodeIs
<1> QED  BY <1>1, <1>3, <1>5, <1>6

LEMMA AfterTyped ==
    ASSUME NEW t \in Tables, NEW ws \in Seq(Writes)
    PROVE  After(t, ws) \in Tables
<1>1. \A x \in Inums : After(t, ws)[x] \in Nodes
  <2> TAKE x \in Inums
  <2>1. CASE Untouched(ws, x)
    <3>1. After(t, ws)[x] = t[x]  BY <2>1, AfterIs
    <3> QED  BY <3>1 DEF Tables
  <2>2. CASE ~Untouched(ws, x)
    <3>1. PICK k \in DOMAIN ws : After(t, ws)[x] = ws[k].to  BY <2>2, AfterIs
    <3> QED  BY <3>1, WriteIs
  <2> QED  BY <2>1, <2>2
<1>2. After(t, ws) = [x \in Inums |-> After(t, ws)[x]]  BY DEF After
<1> HIDE DEF After
<1> QED  BY <1>1, <1>2 DEF Tables

LEMMA ApplyTyped ==
    ASSUME NEW t \in Tables, NEW w \in Writes
    PROVE  /\ Apply(t, w) \in Tables
           /\ \A x \in Inums : Apply(t, w)[x] = IF x \in w.at THEN w.to ELSE t[x]
<1>1. w.to \in Nodes  BY DEF Writes
<1> QED  BY <1>1 DEF Apply, Tables

-----------------------------------------------------------------------------
(* One write of the plan.                                                  *)
LEMMA PlanIs ==
    ASSUME NEW ws \in Seq(Writes), ws # <<>>
    PROVE  /\ Head(ws) = ws[1] /\ ws[1] \in Writes /\ 1 \in DOMAIN ws
           /\ Tail(ws) \in Seq(Writes)
           /\ \A k \in DOMAIN Tail(ws) :
                /\ Tail(ws)[k] = ws[k + 1] /\ k + 1 \in DOMAIN ws
                /\ k \in Nat \ {0}
           /\ \A k \in DOMAIN ws :
                /\ k \in Nat \ {0}
                /\ k # 1 => k - 1 \in DOMAIN Tail(ws) /\ Tail(ws)[k - 1] = ws[k]
<1>1. PICK n \in Nat : n = Len(ws) /\ DOMAIN ws = 1 .. n  BY LenProperties
<1>2. n # 0  BY <1>1, EmptySeq
<1>3. Head(ws) = ws[1] /\ ws[1] \in Writes  BY <1>1, <1>2, ElementOfSeq
<1>4. /\ Tail(ws) \in Seq(Writes) /\ Len(Tail(ws)) = n - 1
      /\ \A i \in 1 .. n - 1 : Tail(ws)[i] = ws[i + 1]
  BY <1>1, HeadTailProperties
<1>5. DOMAIN Tail(ws) = 1 .. n - 1  BY <1>4, LenProperties
<1> QED  BY <1>1, <1>2, <1>3, <1>4, <1>5

(* What one write leaves of an inode that is there.                        *)
LEMMA ThereStays ==
    ASSUME NEW t \in Tables, NEW ws \in Seq(Writes), ws # <<>>, Keeps(ws),
           SameKind(t, ws), NEW x \in Inums, t[x].type # "empty"
    PROVE  Apply(t, ws[1])[x].type = t[x].type
<1>1. ws[1] \in Writes /\ 1 \in DOMAIN ws  BY PlanIs
<1>2. ws[1].to.type # "empty"  BY <1>1 DEF Keeps
<1>3. x \in ws[1].at => t[x].type \in {"empty", ws[1].to.type}
  BY <1>1, <1>2 DEF SameKind
<1> QED  BY <1>1, <1>3, ApplyTyped

LEMMA StepSound ==
    ASSUME NEW t \in Tables, NEW ws \in Seq(Writes), ws # <<>>,
           EntriesIn(t), Ordered(t, ws)
    PROVE  /\ EntriesIn(Apply(t, ws[1])) /\ Ordered(Apply(t, ws[1]), Tail(ws))
<1> DEFINE w == ws[1]  r == Tail(ws)  t2 == Apply(t, w)
<1>1. /\ w \in Writes /\ 1 \in DOMAIN ws /\ r \in Seq(Writes)
      /\ \A k \in DOMAIN r : r[k] = ws[k + 1] /\ k + 1 \in DOMAIN ws /\ k \in Nat \ {0}
      /\ \A k \in DOMAIN ws :
           k \in Nat \ {0} /\ (k # 1 => k - 1 \in DOMAIN r /\ r[k - 1] = ws[k])
  BY PlanIs
<1>2. t2 \in Tables /\ \A x \in Inums : t2[x] = IF x \in w.at THEN w.to ELSE t[x]
  BY <1>1, ApplyTyped
<1>3. w.to \in Nodes /\ w.at \subseteq Inums  BY <1>1 DEF Writes
<1> HIDE DEF w, r, t2
<1>4. Keeps(ws) /\ SameKind(t, ws) /\ Founded(t, ws)  BY DEF Ordered
<1>5. w.to.type # "empty"  BY <1>1, <1>4 DEF Keeps, w
<1>7. Keeps(r)  BY <1>1, <1>4 DEF Keeps
<1>8. ASSUME NEW x \in Inums, t[x].type # "empty"
      PROVE  t2[x].type # "empty"
  BY <1>2, <1>5, <1>8
<1>9. EntriesIn(t2)
  <2> SUFFICES ASSUME NEW d \in Inums, NEW e \in LiveIn(t2[d])
               PROVE  t2[e.inum].type # "empty"
    BY DEF EntriesIn
  <2>1. t2[d] \in Nodes  BY <1>2 DEF Tables
  <2>2. e.inum \in Inums  BY <2>1, LiveIs
  <2>3. CASE d \in w.at
    <3>1. e \in LiveIn(ws[1].to)  BY <1>2, <2>3 DEF w
    <3>2. t[e.inum].type # "empty"
      <4>1. \A j \in 1 .. 1 - 1 : FALSE  OBVIOUS
      <4> QED  BY <1>1, <1>4, <3>1, <4>1 DEF Founded
    <3> QED  BY <1>8, <2>2, <3>2
  <2>4. CASE d \notin w.at
    <3>1. t[e.inum].type # "empty"  BY <1>2, <2>4 DEF EntriesIn
    <3> QED  BY <1>8, <2>2, <3>1
  <2> QED  BY <2>3, <2>4
<1>11. SameKind(t2, r)
  <2> SUFFICES ASSUME NEW k \in DOMAIN r, NEW x \in r[k].at
               PROVE  /\ t2[x].type \in {"empty", r[k].to.type}
                      /\ \A j \in 1 .. k - 1 :
                           x \in r[j].at => r[j].to.type \in {"empty", r[k].to.type}
    BY DEF SameKind
  <2>1. /\ k \in Nat \ {0} /\ k + 1 \in DOMAIN ws /\ r[k] = ws[k + 1]
        /\ x \in Inums /\ x \in ws[k + 1].at
    BY <1>1, WriteIs
  <2>2. /\ t[x].type \in {"empty", r[k].to.type}
        /\ \A j \in 1 .. k + 1 - 1 :
             x \in ws[j].at => ws[j].to.type \in {"empty", r[k].to.type}
    BY <1>4, <2>1 DEF SameKind
  <2>3. t2[x].type \in {"empty", r[k].to.type}
    <3>1. CASE x \in w.at
      <4>1. 1 \in 1 .. k + 1 - 1  BY <2>1
      <4>2. w.to.type \in {"empty", r[k].to.type}  BY <2>2, <3>1, <4>1 DEF w
      <4> QED  BY <1>2, <2>1, <3>1, <4>2
    <3>2. CASE x \notin w.at  BY <1>2, <2>1, <2>2, <3>2
    <3> QED  BY <3>1, <3>2
  <2>4. ASSUME NEW j \in 1 .. k - 1, x \in r[j].at
        PROVE  r[j].to.type \in {"empty", r[k].to.type}
    <3>1. j + 1 \in 1 .. k + 1 - 1  BY <2>1
    <3>2. j \in DOMAIN r
      <4>1. PICK m \in Nat : DOMAIN r = 1 .. m  BY <1>1, LenProperties
      <4> QED  BY <2>1, <4>1
    <3>3. r[j] = ws[j + 1]  BY <1>1, <3>2
    <3> QED  BY <2>2, <2>4, <3>1, <3>3
  <2> QED  BY <2>3, <2>4
<1>12. Founded(t2, r)
  <2> SUFFICES ASSUME NEW k \in DOMAIN r, NEW e \in LiveIn(r[k].to)
               PROVE  \/ t2[e.inum].type # "empty"
                      \/ \E j \in 1 .. k - 1 :
                           e.inum \in r[j].at /\ r[j].to.type # "empty"
    BY DEF Founded
  <2>1. k \in Nat \ {0} /\ k + 1 \in DOMAIN ws /\ r[k] = ws[k + 1]  BY <1>1
  <2>2. e.inum \in Inums  BY <1>1, WriteIs, LiveIs
  <2>3. \/ t[e.inum].type # "empty"
        \/ \E j \in 1 .. k + 1 - 1 : e.inum \in ws[j].at /\ ws[j].to.type # "empty"
    BY <1>4, <2>1 DEF Founded
  <2>4. CASE t[e.inum].type # "empty"
    BY <1>8, <2>2, <2>4
  <2>5. CASE \E j \in 1 .. k + 1 - 1 : e.inum \in ws[j].at /\ ws[j].to.type # "empty"
    <3>1. PICK j \in 1 .. k + 1 - 1 : e.inum \in ws[j].at /\ ws[j].to.type # "empty"
      BY <2>5
    <3>2. CASE j = 1
      BY <1>2, <2>2, <3>1, <3>2 DEF w
    <3>3. CASE j # 1
      <4>1. j - 1 \in 1 .. k - 1 /\ j - 1 \in DOMAIN r /\ j - 1 + 1 = j
        <5>1. PICK m \in Nat : DOMAIN r = 1 .. m  BY <1>1, LenProperties
        <5> QED  BY <2>1, <3>3, <5>1
      <4>2. r[j - 1] = ws[j]  BY <1>1, <4>1
      <4> QED  BY <3>1, <4>1, <4>2
    <3> QED  BY <3>2, <3>3
  <2> QED  BY <2>3, <2>4, <2>5
<1> QED  BY <1>7, <1>9, <1>11, <1>12 DEF Ordered, w, r, t2

LEMMA StepBecomes ==
    ASSUME NEW t \in Tables, NEW ws \in Seq(Writes), ws # <<>>, Ordered(t, ws),
           EntriesIn(t), NEW x \in Inums, Becomes(t, ws, x)
    PROVE  Becomes(Apply(t, ws[1]), Tail(ws), x)
<1>2. CASE t[x].type = T_DIR
  <2>1. Apply(t, ws[1])[x].type = T_DIR  BY <1>2, ThereStays DEF Ordered, T_DIR
  <2> QED  BY <2>1 DEF Becomes
<1>3. CASE \E k \in DOMAIN ws : Makes(ws, k, x, T_DIR)
  <2>1. PICK k \in DOMAIN ws : Makes(ws, k, x, T_DIR)  BY <1>3
  <2>2. CASE k = 1
    <3>1. Apply(t, ws[1])[x] = ws[1].to
      <4>1. ws[1] \in Writes  BY PlanIs
      <4> QED  BY <2>1, <2>2, <4>1, ApplyTyped DEF Makes
    <3> QED  BY <2>1, <2>2, <3>1 DEF Becomes, Makes
  <2>3. CASE k # 1
    <3>1. k - 1 \in DOMAIN Tail(ws) /\ Tail(ws)[k - 1] = ws[k]  BY <2>3, PlanIs
    <3> QED  BY <2>1, <3>1 DEF Becomes, Makes
  <2> QED  BY <2>2, <2>3
<1> QED  BY <1>2, <1>3 DEF Becomes

LEMMA StepRightful ==
    ASSUME NEW t \in Tables, NEW ws \in Seq(Writes), ws # <<>>, NEW u,
           Rightful(t, ws, u)
    PROVE  Rightful(Apply(t, ws[1]), Tail(ws), u)
<1> DEFINE w == ws[1]  r == Tail(ws)  t2 == Apply(t, w)
<1>1. /\ w \in Writes /\ 1 \in DOMAIN ws /\ r \in Seq(Writes)
      /\ \A k \in DOMAIN r : r[k] = ws[k + 1] /\ k + 1 \in DOMAIN ws /\ k \in Nat \ {0}
  BY PlanIs
<1>2. t2 \in Tables /\ \A x \in Inums : t2[x] = IF x \in w.at THEN w.to ELSE t[x]
  BY <1>1, ApplyTyped
<1> HIDE DEF w, r, t2
<1>3. ASSUME NEW i \in Inums, Allowed(t, ws, u, i) PROVE Allowed(t2, r, u, i)
  <2>1. EntitledIn(t, u, i) /\ Stays(t, ws, i)  BY <1>3 DEF Allowed
  <2>2. t2[i].mode = t[i].mode /\ t2[i].uid = t[i].uid
    BY <1>1, <1>2, <2>1 DEF Stays, w
  <2>3. EntitledIn(t2, u, i)  BY <2>1, <2>2 DEF EntitledIn
  <2>4. Stays(t2, r, i)  BY <1>1, <2>1, <2>2 DEF Stays
  <2> QED  BY <2>3, <2>4 DEF Allowed
<1> SUFFICES ASSUME NEW k \in DOMAIN r, NEW d \in r[k].at
             PROVE  /\ \A e \in Removes(t2[d], r[k].to) :
                         Allowed(t2, r, u, e.inum) /\ Allowed(t2, r, u, d)
                    /\ \A j \in 1 .. k - 1 : d \in r[j].at =>
                         \A e \in Removes(r[j].to, r[k].to) :
                             Allowed(t2, r, u, e.inum) /\ Allowed(t2, r, u, d)
  BY DEF Rightful, r, t2, w
<1>4. /\ k \in Nat \ {0} /\ k + 1 \in DOMAIN ws /\ r[k] = ws[k + 1]
      /\ d \in Inums /\ d \in ws[k + 1].at
  BY <1>1, WriteIs
<1>5. /\ \A e \in Removes(t[d], r[k].to) :
           Allowed(t, ws, u, e.inum) /\ Allowed(t, ws, u, d)
      /\ \A j \in 1 .. k + 1 - 1 : d \in ws[j].at =>
           \A e \in Removes(ws[j].to, r[k].to) :
               Allowed(t, ws, u, e.inum) /\ Allowed(t, ws, u, d)
  BY <1>4 DEF Rightful
<1>6. \A n \in Nodes : \A e : e \in Removes(n, r[k].to) => e.inum \in Inums
  BY LiveIs DEF Removes, ChildrenIn
<1>7. ASSUME NEW e \in Removes(t2[d], r[k].to)
      PROVE  Allowed(t2, r, u, e.inum) /\ Allowed(t2, r, u, d)
  <2>1. e.inum \in Inums  BY <1>2, <1>4, <1>6 DEF Tables
  <2>2. CASE d \in w.at
    <3>1. e \in Removes(ws[1].to, r[k].to)  BY <1>2, <1>4, <2>2 DEF w
    <3>2. 1 \in 1 .. k + 1 - 1  BY <1>4
    <3>3. Allowed(t, ws, u, e.inum) /\ Allowed(t, ws, u, d)
      BY <1>5, <2>2, <3>1, <3>2 DEF w
    <3> QED  BY <1>3, <1>4, <2>1, <3>3
  <2>3. CASE d \notin w.at
    BY <1>2, <1>3, <1>4, <1>5, <2>1, <2>3
  <2> QED  BY <2>2, <2>3
<1>8. ASSUME NEW j \in 1 .. k - 1, d \in r[j].at, NEW e \in Removes(r[j].to, r[k].to)
      PROVE  Allowed(t2, r, u, e.inum) /\ Allowed(t2, r, u, d)
  <2>1. j + 1 \in 1 .. k + 1 - 1  BY <1>4
  <2>2. j \in DOMAIN r
    <3>1. PICK m \in Nat : DOMAIN r = 1 .. m  BY <1>1, LenProperties
    <3> QED  BY <1>4, <3>1
  <2>3. r[j] = ws[j + 1] /\ r[j].to \in Nodes  BY <1>1, <2>2, WriteIs
  <2>4. e.inum \in Inums  BY <1>6, <2>3
  <2>5. Allowed(t, ws, u, e.inum) /\ Allowed(t, ws, u, d)
    BY <1>5, <1>8, <2>1, <2>3
  <2> QED  BY <1>3, <1>4, <2>4, <2>5
<1> QED  BY <1>7, <1>8

-----------------------------------------------------------------------------
(* All the writes of a plan.                                               *)
LEMMA AfterSound ==
    ASSUME NEW t \in Tables, NEW ws \in Seq(Writes), EntriesIn(t), Ordered(t, ws)
    PROVE  EntriesIn(After(t, ws))
<1> DEFINE a == After(t, ws)
<1>1. a \in Tables  BY AfterTyped
<1>2. Keeps(ws) /\ SameKind(t, ws) /\ Founded(t, ws)  BY DEF Ordered
<1>3. \A x \in Inums :
        /\ Untouched(ws, x) => a[x] = t[x]
        /\ \/ Untouched(ws, x)
           \/ \E k \in DOMAIN ws : LastAt(ws, k, x) /\ a[x] = ws[k].to
  BY AfterIs
<1> HIDE DEF a
<1>5. ASSUME NEW x \in Inums, t[x].type # "empty"
      PROVE  a[x].type # "empty"
  BY <1>2, <1>3, <1>5 DEF Keeps
<1>6. ASSUME NEW x \in Inums, NEW j \in DOMAIN ws, x \in ws[j].at
      PROVE  a[x].type # "empty"
  <2>1. ~Untouched(ws, x)  BY <1>6 DEF Untouched
  <2> QED  BY <1>2, <1>3, <2>1 DEF Keeps
<1> SUFFICES ASSUME NEW d \in Inums, NEW e \in LiveIn(a[d])
             PROVE  a[e.inum].type # "empty"
  BY DEF EntriesIn, a
<1>7. e.inum \in Inums  BY <1>1, LiveIs DEF Tables
<1>8. CASE Untouched(ws, d)
  <2>1. t[e.inum].type # "empty"  BY <1>3, <1>8 DEF EntriesIn
  <2> QED  BY <1>5, <1>7, <2>1
<1>9. CASE ~Untouched(ws, d)
  <2>1. PICK k \in DOMAIN ws : LastAt(ws, k, d) /\ a[d] = ws[k].to  BY <1>3, <1>9
  <2>2. \/ t[e.inum].type # "empty"
        \/ \E j \in 1 .. k - 1 : e.inum \in ws[j].at /\ ws[j].to.type # "empty"
    BY <1>2, <2>1 DEF Founded
  <2>3. \A j \in 1 .. k - 1 : j \in DOMAIN ws
    <3>1. PICK m \in Nat : DOMAIN ws = 1 .. m  BY LenProperties
    <3> QED  BY <3>1
  <2> QED  BY <1>5, <1>6, <1>7, <2>2, <2>3
<1> QED  BY <1>8, <1>9

LEMMA BecomesAfter ==
    ASSUME NEW t \in Tables, NEW ws \in Seq(Writes), NEW x \in Inums,
           After(t, ws)[x].type = T_DIR
    PROVE  Becomes(t, ws, x)
<1>1. CASE Untouched(ws, x)  BY <1>1, AfterIs DEF Becomes
<1>2. CASE ~Untouched(ws, x)
  <2>1. PICK k \in DOMAIN ws : LastAt(ws, k, x) /\ After(t, ws)[x] = ws[k].to
    BY <1>2, AfterIs
  <2> QED  BY <2>1 DEF Becomes, Makes, LastAt
<1> QED  BY <1>1, <1>2

-----------------------------------------------------------------------------
(* A plan made for the table that another plan leaves.                     *)
LEMMA ChainIs ==
    ASSUME NEW a \in Seq(Writes), NEW b \in Seq(Writes)
    PROVE  /\ a \o b \in Seq(Writes)
           /\ \A k \in DOMAIN a : k \in DOMAIN (a \o b) /\ (a \o b)[k] = a[k]
           /\ \A k \in DOMAIN b : /\ Len(a) + k \in DOMAIN (a \o b)
                                  /\ (a \o b)[Len(a) + k] = b[k]
           /\ \A k \in DOMAIN (a \o b) :
                \/ k \in DOMAIN a
                \/ \E l \in DOMAIN b : k = Len(a) + l
           /\ Len(a) \in Nat /\ DOMAIN a = 1 .. Len(a)
           /\ DOMAIN a \subseteq Nat \ {0} /\ DOMAIN b \subseteq Nat \ {0}
<1> DEFINE c == a \o b
<1>1. PICK n \in Nat, m \in Nat :
          n = Len(a) /\ m = Len(b) /\ DOMAIN a = 1 .. n /\ DOMAIN b = 1 .. m
  BY LenProperties
<1>2. /\ c \in Seq(Writes) /\ Len(c) = n + m
      /\ \A i \in 1 .. n + m : c[i] = IF i <= n THEN a[i] ELSE b[i - n]
  BY <1>1, ConcatProperties
<1>3. DOMAIN c = 1 .. n + m  BY <1>2, LenProperties
<1> HIDE DEF c
<1>4. \A k \in DOMAIN a : k \in DOMAIN c /\ c[k] = a[k]  BY <1>1, <1>2, <1>3
<1>5. \A k \in DOMAIN b : n + k \in DOMAIN c /\ c[n + k] = b[k]
  <2> TAKE k \in DOMAIN b
  <2>1. n + k \in 1 .. n + m /\ ~(n + k <= n) /\ n + k - n = k  BY <1>1
  <2> QED  BY <1>2, <1>3, <2>1
<1>6. \A k \in DOMAIN c : k \in DOMAIN a \/ \E l \in DOMAIN b : k = n + l
  <2> TAKE k \in DOMAIN c
  <2>1. k > n => k - n \in 1 .. m /\ k = n + (k - n)  BY <1>3
  <2>2. k \in 1 .. n \/ k > n  BY <1>3
  <2> QED  BY <1>1, <2>1, <2>2
<1> QED  BY <1>1, <1>2, <1>4, <1>5, <1>6 DEF c

Grows(t, ws) ==
    \A k \in DOMAIN ws : \A d \in ws[k].at :
        /\ Removes(t[d], ws[k].to) = {}
        /\ \A j \in 1 .. k - 1 : d \in ws[j].at => Removes(ws[j].to, ws[k].to) = {}

LEMMA RemovesNone ==
    ASSUME NEW l, NEW m, NEW n, Removes(l, m) = {}, Removes(m, n) = {}
    PROVE  Removes(l, n) = {}
BY DEF Removes, ChildrenIn

LEMMA ChainOrdered ==
    ASSUME NEW t \in Tables, NEW a \in Seq(Writes), NEW b \in Seq(Writes),
           Ordered(t, a), Ordered(After(t, a), b)
    PROVE  Ordered(t, a \o b)
<1> DEFINE t2 == After(t, a)  c == a \o b  n == Len(a)
<1>1. /\ c \in Seq(Writes) /\ n \in Nat /\ DOMAIN a = 1 .. n
      /\ \A k \in DOMAIN a : k \in DOMAIN c /\ c[k] = a[k]
      /\ \A k \in DOMAIN b : n + k \in DOMAIN c /\ c[n + k] = b[k]
      /\ \A k \in DOMAIN c : k \in DOMAIN a \/ \E l \in DOMAIN b : k = n + l
      /\ DOMAIN b \subseteq Nat \ {0}
  BY ChainIs
<1> HIDE DEF c, n
<1>2. Keeps(c)
  <2>1. \A k \in DOMAIN a : a[k].to.type # "empty"  BY DEF Ordered, Keeps
  <2>2. \A k \in DOMAIN b : b[k].to.type # "empty"  BY DEF Ordered, Keeps
  <2> SUFFICES ASSUME NEW k \in DOMAIN c PROVE c[k].to.type # "empty"
    BY DEF Keeps
  <2>3. CASE k \in DOMAIN a  BY <1>1, <2>1, <2>3
  <2>4. CASE \E l \in DOMAIN b : k = n + l
    <3>1. PICK l \in DOMAIN b : k = n + l  BY <2>4
    <3>2. c[k] = b[l]  BY <1>1, <3>1
    <3> QED  BY <2>2, <3>2
  <2> QED  BY <1>1, <2>3, <2>4
<1>3. \A x \in Inums :
        \/ Untouched(a, x) /\ t2[x] = t[x]
        \/ \E k \in DOMAIN a : LastAt(a, k, x) /\ t2[x] = a[k].to
  BY AfterIs
<1> HIDE DEF t2
<1>4. /\ SameKind(t, a) /\ Founded(t, a) /\ SameKind(t2, b) /\ Founded(t2, b)
      /\ Keeps(a)
  BY DEF Ordered, t2
<1>5. \A l \in DOMAIN b : \A j \in 1 .. n + l - 1 :
        \/ j \in DOMAIN a /\ c[j] = a[j]
        \/ j - n \in 1 .. l - 1 /\ j - n \in DOMAIN b /\ c[j] = b[j - n]
  <2> TAKE l \in DOMAIN b
  <2> TAKE j \in 1 .. n + l - 1
  <2>1. l \in Nat \ {0}  BY <1>1
  <2>2. CASE j <= n
    <3>1. j \in 1 .. n  BY <2>1, <2>2
    <3> QED  BY <1>1, <3>1
  <2>3. CASE ~(j <= n)
    <3>1. j - n \in 1 .. l - 1 /\ n + (j - n) = j  BY <1>1, <2>1, <2>3
    <3>2. j - n \in DOMAIN b
      <4>1. PICK m \in Nat : DOMAIN b = 1 .. m  BY LenProperties
      <4> QED  BY <3>1, <4>1
    <3> QED  BY <1>1, <3>1, <3>2
  <2> QED  BY <2>2, <2>3
<1>9. \A k \in DOMAIN a : \A j \in 1 .. k - 1 : c[j] = a[j]
  <2> TAKE k \in DOMAIN a
  <2> TAKE j \in 1 .. k - 1
  <2>1. j \in 1 .. n  BY <1>1
  <2> QED  BY <1>1, <2>1
<1>6. SameKind(t, c)
  <2> SUFFICES ASSUME NEW k \in DOMAIN c, NEW x \in c[k].at
               PROVE  /\ t[x].type \in {"empty", c[k].to.type}
                      /\ \A j \in 1 .. k - 1 :
                           x \in c[j].at => c[j].to.type \in {"empty", c[k].to.type}
    BY DEF SameKind
  <2>1. CASE k \in DOMAIN a
    <3>1. c[k] = a[k]  BY <1>1, <2>1
    <3>2. \A j \in 1 .. k - 1 : c[j] = a[j]  BY <1>9, <2>1
    <3> QED  BY <1>4, <2>1, <3>1, <3>2 DEF SameKind
  <2>2. CASE \E l \in DOMAIN b : k = n + l
    <3>1. PICK l \in DOMAIN b : k = n + l  BY <2>2
    <3>2. c[k] = b[l] /\ x \in b[l].at /\ x \in Inums
      BY <1>1, <3>1, WriteIs
    <3>3. /\ t2[x].type \in {"empty", c[k].to.type}
          /\ \A j \in 1 .. l - 1 :
               x \in b[j].at => b[j].to.type \in {"empty", c[k].to.type}
      BY <1>4, <3>2 DEF SameKind
    <3>4. ASSUME NEW j \in DOMAIN a, x \in a[j].at
          PROVE  a[j].to.type \in {"empty", c[k].to.type}
      <4>1. PICK i \in DOMAIN a : LastAt(a, i, x) /\ t2[x] = a[i].to
        BY <1>3, <3>2, <3>4 DEF Untouched
      <4>2. a[i].to.type = c[k].to.type  BY <1>4, <3>3, <4>1 DEF Keeps
      <4>3. j <= i /\ i \in Nat /\ j \in Nat \ {0}  BY <1>1, <3>4, <4>1 DEF LastAt
      <4>4. CASE j = i  BY <4>2, <4>4
      <4>5. CASE j # i
        <5>1. j \in 1 .. i - 1  BY <4>3, <4>5
        <5>2. a[i].to.type # "empty" /\ x \in a[i].at
          BY <1>4, <4>1 DEF Keeps, LastAt
        <5> QED  BY <1>4, <3>4, <4>1, <4>2, <5>1, <5>2 DEF SameKind
      <4> QED  BY <4>4, <4>5
    <3>5. t[x].type \in {"empty", c[k].to.type}
      <4>1. CASE Untouched(a, x)
        <5>1. t2[x] = t[x]  BY <1>3, <3>2, <4>1 DEF LastAt, Untouched
        <5> QED  BY <3>3, <5>1
      <4>2. CASE ~Untouched(a, x)
        <5>1. PICK i \in DOMAIN a : x \in a[i].at  BY <4>2 DEF Untouched
        <5>2. a[i].to.type # "empty"  BY <1>4 DEF Keeps
        <5>3. t[x].type \in {"empty", a[i].to.type}  BY <1>4, <5>1, <5>2 DEF SameKind
        <5> QED  BY <3>4, <5>1, <5>2, <5>3
      <4> QED  BY <4>1, <4>2
    <3>6. ASSUME NEW j \in 1 .. k - 1, x \in c[j].at
          PROVE  c[j].to.type \in {"empty", c[k].to.type}
      <4>1. \/ j \in DOMAIN a /\ c[j] = a[j]
            \/ j - n \in 1 .. l - 1 /\ c[j] = b[j - n]
        <5>1. l \in Nat  BY <1>1
        <5>2. j \in 1 .. n + l - 1  BY <1>1, <3>1, <5>1
        <5> QED  BY <1>5, <5>2
      <4> QED  BY <3>3, <3>4, <3>6, <4>1
    <3> QED  BY <3>5, <3>6
  <2> QED  BY <1>1, <2>1, <2>2
<1>7. Founded(t, c)
  <2> SUFFICES ASSUME NEW k \in DOMAIN c, NEW e \in LiveIn(c[k].to)
               PROVE  \/ t[e.inum].type # "empty"
                      \/ \E j \in 1 .. k - 1 :
                           e.inum \in c[j].at /\ c[j].to.type # "empty"
    BY <1>2 DEF Founded
  <2>1. CASE k \in DOMAIN a
    <3>1. c[k] = a[k]  BY <1>1, <2>1
    <3>2. \A j \in 1 .. k - 1 : c[j] = a[j]  BY <1>9, <2>1
    <3>3. Founded(t, a) /\ e \in LiveIn(a[k].to)  BY <1>4, <3>1
    <3>4. \/ t[e.inum].type # "empty"
          \/ \E j \in 1 .. k - 1 : e.inum \in a[j].at /\ a[j].to.type # "empty"
      BY <2>1, <3>3 DEF Founded
    <3> QED  BY <3>2, <3>4
  <2>2. CASE \E l \in DOMAIN b : k = n + l
    <3>1. PICK l \in DOMAIN b : k = n + l  BY <2>2
    <3>2. c[k] = b[l] /\ l \in Nat \ {0} /\ e.inum \in Inums
      <4>1. c[k] = b[l] /\ l \in Nat \ {0}  BY <1>1, <3>1
      <4>2. b[l].to \in Nodes  BY WriteIs
      <4> QED  BY <4>1, <4>2, LiveIs
    <3>3. \/ t2[e.inum].type # "empty"
          \/ \E j \in 1 .. l - 1 : e.inum \in b[j].at /\ b[j].to.type # "empty"
      BY <1>4, <3>2 DEF Founded
    <3>4. CASE \E j \in 1 .. l - 1 : e.inum \in b[j].at /\ b[j].to.type # "empty"
      <4>1. PICK j \in 1 .. l - 1 : e.inum \in b[j].at /\ b[j].to.type # "empty"
        BY <3>4
      <4>2. n + j \in 1 .. k - 1  BY <1>1, <3>1, <3>2
      <4>3. j \in DOMAIN b
        <5>1. PICK m \in Nat : DOMAIN b = 1 .. m  BY LenProperties
        <5> QED  BY <3>2, <5>1
      <4> QED  BY <1>1, <4>1, <4>2, <4>3
    <3>5. CASE t2[e.inum].type # "empty"
      <4>1. CASE \E i \in DOMAIN a : LastAt(a, i, e.inum)
        <5>1. PICK i \in DOMAIN a : e.inum \in a[i].at  BY <4>1 DEF LastAt
        <5>2. a[i].to.type # "empty" /\ c[i] = a[i]  BY <1>1, <1>4 DEF Keeps
        <5>3. i \in 1 .. k - 1  BY <1>1, <3>1, <3>2
        <5> QED  BY <5>1, <5>2, <5>3
      <4>2. CASE ~\E i \in DOMAIN a : LastAt(a, i, e.inum)
        <5>1. t2[e.inum] = t[e.inum]  BY <1>3, <3>2, <4>2
        <5> QED  BY <3>5, <5>1
      <4> QED  BY <4>1, <4>2
    <3> QED  BY <3>3, <3>4, <3>5
  <2> QED  BY <1>1, <2>1, <2>2
<1> QED  BY <1>1, <1>2, <1>6, <1>7 DEF Ordered, c

LEMMA ChainGrows ==
    ASSUME NEW t \in Tables, NEW a \in Seq(Writes), NEW b \in Seq(Writes),
           Grows(t, a), Grows(After(t, a), b)
    PROVE  Grows(t, a \o b)
<1> DEFINE t2 == After(t, a)  c == a \o b  n == Len(a)
<1>1. /\ c \in Seq(Writes) /\ n \in Nat /\ DOMAIN a = 1 .. n
      /\ \A k \in DOMAIN a : k \in DOMAIN c /\ c[k] = a[k]
      /\ \A k \in DOMAIN b : n + k \in DOMAIN c /\ c[n + k] = b[k]
      /\ \A k \in DOMAIN c : k \in DOMAIN a \/ \E l \in DOMAIN b : k = n + l
      /\ DOMAIN b \subseteq Nat \ {0}
  BY ChainIs
<1> HIDE DEF c, n
<1>2. \A x \in Inums :
        \/ Untouched(a, x) /\ t2[x] = t[x]
        \/ \E k \in DOMAIN a : LastAt(a, k, x) /\ t2[x] = a[k].to
  BY AfterIs
<1> HIDE DEF t2
<1>3. Grows(t, a) /\ Grows(t2, b)  BY DEF t2
<1> SUFFICES ASSUME NEW k \in DOMAIN c, NEW d \in c[k].at
             PROVE  /\ Removes(t[d], c[k].to) = {}
                    /\ \A j \in 1 .. k - 1 :
                         d \in c[j].at => Removes(c[j].to, c[k].to) = {}
  BY DEF Grows, c
<1>4. CASE k \in DOMAIN a
  <2>1. c[k] = a[k]  BY <1>1, <1>4
  <2>2. \A j \in 1 .. k - 1 : c[j] = a[j]  BY <1>1, <1>4
  <2> QED  BY <1>3, <1>4, <2>1, <2>2 DEF Grows
<1>5. CASE \E l \in DOMAIN b : k = n + l
  <2>1. PICK l \in DOMAIN b : k = n + l  BY <1>5
  <2>2. c[k] = b[l] /\ d \in b[l].at /\ d \in Inums /\ l \in Nat \ {0}
    BY <1>1, <2>1, WriteIs
  <2>3. /\ Removes(t2[d], c[k].to) = {}
        /\ \A j \in 1 .. l - 1 : d \in b[j].at => Removes(b[j].to, c[k].to) = {}
    BY <1>3, <2>2 DEF Grows
  <2>4. Removes(t[d], c[k].to) = {}
    <3>1. CASE Untouched(a, d)
      <4>1. t2[d] = t[d]  BY <1>2, <2>2, <3>1 DEF Untouched, LastAt
      <4> QED  BY <2>3, <4>1
    <3>2. CASE ~Untouched(a, d)
      <4>1. PICK i \in DOMAIN a : LastAt(a, i, d) /\ t2[d] = a[i].to
        BY <1>2, <2>2, <3>2
      <4>2. Removes(t[d], a[i].to) = {}  BY <1>3, <4>1 DEF Grows, LastAt
      <4> QED  BY <2>3, <4>1, <4>2, RemovesNone
    <3> QED  BY <3>1, <3>2
  <2>5. ASSUME NEW j \in DOMAIN a, d \in a[j].at PROVE Removes(a[j].to, c[k].to) = {}
    <3>1. PICK i \in DOMAIN a : LastAt(a, i, d) /\ t2[d] = a[i].to
      BY <1>2, <2>2, <2>5 DEF Untouched
    <3>2. CASE j = i  BY <2>3, <3>1, <3>2
    <3>3. CASE j # i
      <4>1. j \in 1 .. i - 1  BY <1>1, <2>5, <3>1, <3>3 DEF LastAt
      <4>2. Removes(a[j].to, a[i].to) = {}
        BY <1>3, <2>5, <3>1, <4>1 DEF Grows, LastAt
      <4> QED  BY <2>3, <3>1, <4>2, RemovesNone
    <3> QED  BY <3>2, <3>3
  <2>6. ASSUME NEW j \in 1 .. k - 1, d \in c[j].at PROVE Removes(c[j].to, c[k].to) = {}
    <3>1. CASE j <= n
      <4>1. j \in DOMAIN a /\ c[j] = a[j]  BY <1>1, <2>1, <2>2, <3>1
      <4> QED  BY <2>5, <2>6, <4>1
    <3>2. CASE ~(j <= n)
      <4>1. j - n \in 1 .. l - 1 /\ n + (j - n) = j
        BY <1>1, <2>1, <2>2, <3>2
      <4>2. j - n \in DOMAIN b
        <5>1. PICK m \in Nat : DOMAIN b = 1 .. m  BY LenProperties
        <5> QED  BY <2>2, <4>1, <5>1
      <4>3. c[j] = b[j - n]  BY <1>1, <4>1, <4>2
      <4> QED  BY <2>3, <2>6, <4>1, <4>3
    <3> QED  BY <3>1, <3>2
  <2> QED  BY <2>4, <2>6
<1> QED  BY <1>1, <1>4, <1>5

-----------------------------------------------------------------------------
(* Reading.                                                                *)
LEMMA FindIs ==
    ASSUME NEW t \in Tables, NEW d \in Inums, NEW name
    PROVE  LET i == findinum(t, d, name)
           IN \/ /\ i = NINODE
                 /\ \A e \in LiveIn(t[d]) : e.name # name
              \/ /\ i \in Inums /\ i # NINODE
                 /\ \E k \in DOMAIN t[d].ents :
                      /\ t[d].ents[k].inum = i /\ t[d].ents[k].name = name
                      /\ t[d].ents[k] \in LiveIn(t[d])
<1> DEFINE ents == t[d].ents
           I == {k \in 1 .. Len(ents) : ents[k].inum # NINODE /\ ents[k].name = name}
           i == findinum(t, d, name)
<1>1. t[d] \in Nodes /\ ents \in Seq(Entries)  BY NodeIs DEF Tables
<1>2. DOMAIN ents = 1 .. Len(ents) /\ Len(ents) \in Nat  BY <1>1, LenProperties
<1>3. SelectInSeq(ents, LAMBDA e : e.inum # NINODE /\ e.name = name)
         = IF I # {} THEN Min(I) ELSE 0
  BY DEF SelectInSeq
<1>4. CASE I = {}
  <2>1. i = NINODE  BY <1>3, <1>4 DEF findinum
  <2>2. \A k \in DOMAIN ents : ents[k].inum # NINODE => ents[k].name # name
    BY <1>2, <1>4
  <2>3. \A e \in LiveIn(t[d]) : e.name # name  BY <2>2 DEF LiveIn, ToSet
  <2> QED  BY <2>1, <2>3
<1>5. CASE I # {}
  <2>1. Min(I) \in I
    <3>1. I \in SUBSET Nat  BY <1>2
    <3> HIDE DEF I
    <3> QED  BY <1>5, <3>1, MinIs
  <2>2. PICK k \in DOMAIN ents : /\ k = Min(I) /\ k # 0
                                 /\ ents[k].inum # NINODE /\ ents[k].name = name
    <3>1. Min(I) \in DOMAIN ents /\ Min(I) # 0  BY <1>2, <2>1
    <3> QED  BY <2>1, <3>1
  <2> HIDE DEF I
  <2>3. i = ents[k].inum
    BY <1>3, <1>5, <2>2 DEF findinum
  <2>4. ents[k] \in LiveIn(t[d])  BY <2>2 DEF LiveIn, ToSet
  <2>5. i \in Inums  BY <1>1, <2>3, <2>4, LiveIs
  <2> QED  BY <2>2, <2>3, <2>4, <2>5
<1> QED  BY <1>4, <1>5

(* A path of no name, and of one.                                          *)
LEMMA CdNone == ASSUME NEW t, NEW u, NEW d PROVE cd(t, u, d, <<>>) = d
<1> DEFINE Def(f) == [n \in 0 .. 0 |->
                        IF n = 0 THEN d
                        ELSE IF f[n - 1] = NINODE THEN NINODE
                             ELSE _cd(t, u, f[n - 1], <<>>[n])]
           g == [n \in 0 .. 0 |-> d]
           h == CHOOSE f : f = Def(f)
<1>1. Len(<<>>) = 0  OBVIOUS
<1>2. g = Def(g)  OBVIOUS
<1>3. h = Def(h)  BY <1>2
<1>4. cd(t, u, d, <<>>) = h[0]  BY <1>1 DEF cd
<1>5. h[0] = d
  <2> HIDE DEF h
  <2> QED  BY <1>3
<1> QED  BY <1>4, <1>5

LEMMA CdOne ==
    ASSUME NEW t, NEW u, NEW d, d # NINODE, NEW name
    PROVE  cd(t, u, d, <<name>>) = _cd(t, u, d, name)
<1> DEFINE Def(f) == [n \in 0 .. 1 |->
                        IF n = 0 THEN d
                        ELSE IF f[n - 1] = NINODE THEN NINODE
                             ELSE _cd(t, u, f[n - 1], <<name>>[n])]
           g == [n \in 0 .. 1 |-> IF n = 0 THEN d ELSE _cd(t, u, d, name)]
           h == CHOOSE f : f = Def(f)
<1>1. Len(<<name>>) = 1 /\ <<name>>[1] = name  OBVIOUS
<1>2. g = Def(g)  OBVIOUS
<1>3. h = Def(h)  BY <1>2
<1>4. cd(t, u, d, <<name>>) = h[1]  BY <1>1 DEF cd
<1>5. h[1] = _cd(t, u, d, name)
  <2> HIDE DEF h
  <2>1. h[0] = d  BY <1>3
  <2> QED  BY <1>3, <2>1
<1> QED  BY <1>4, <1>5

LEMMA CdIs ==
    ASSUME NEW t \in Tables, NEW d \in Inums, NEW u, NEW name,
           cd(t, u, d, <<name>>) # NINODE
    PROVE  LET h == cd(t, u, d, <<name>>)
           IN /\ h \in Inums /\ t[h].type = T_DIR /\ Can(t, u, h, {"R"})
              /\ h = findinum(t, d, name)
<1>1. d # NINODE  BY NinodeIs DEF Inums
<1>2. _cd(t, u, d, name) # NINODE /\ cd(t, u, d, <<name>>) = _cd(t, u, d, name)
  BY <1>1, CdOne
<1>3. /\ _cd(t, u, d, name) = findinum(t, d, name)
      /\ findinum(t, d, name) # NINODE
      /\ MayEnter(t, u, findinum(t, d, name))
  BY <1>2 DEF _cd
<1>4. findinum(t, d, name) \in Inums  BY <1>3, FindIs
<1> QED  BY <1>2, <1>3, <1>4 DEF MayEnter

-----------------------------------------------------------------------------
(* Making an inode.                                                        *)
Planned(t, ws) ==
    ws \in Seq(Writes) /\ Ordered(t, ws) /\ Grows(t, ws)

Blank(type) == [Empty EXCEPT !.type = type]
Made(type, i, p, u, mode) ==
    [type |-> type, mode |-> mode, uid |-> u, ents |-> Dots(type, i, p)]
WithEntry(n, name, i) == [n EXCEPT !.ents = Append(@, Entry(name, i))]
Creates(t, type, name, p, u, mode, i) ==
    <<Write(i, Blank(type)), Write(i, Made(type, i, p, u, mode)),
      Write(p, WithEntry(t[p], name, i))>>

LEMMA Three ==
    \A a, b, c : LET s == <<a, b, c>>
                 IN /\ DOMAIN s = 1 .. 3 /\ s[1] = a /\ s[2] = b /\ s[3] = c
                    /\ \A S : a \in S /\ b \in S /\ c \in S => s \in Seq(S)
OBVIOUS

LEMMA TwoAndOne == \A a, b, c : <<a, b>> \o <<c>> = <<a, b, c>>
<1> TAKE a, b, c
<1> DEFINE S == {a, b, c}  s == <<a, b>>  t == <<c>>
<1>1. /\ s \in Seq(S) /\ t \in Seq(S) /\ Len(s) = 2 /\ Len(t) = 1
      /\ s[1] = a /\ s[2] = b /\ t[1] = c
  OBVIOUS
<1> HIDE DEF s, t
<1>2. /\ s \o t \in Seq(S) /\ Len(s \o t) = 3
      /\ (s \o t)[1] = a /\ (s \o t)[2] = b /\ (s \o t)[3] = c
  <2>1. /\ s \o t \in Seq(S) /\ Len(s \o t) = Len(s) + Len(t)
        /\ \A i \in 1 .. Len(s) + Len(t) :
             (s \o t)[i] = IF i <= Len(s) THEN s[i] ELSE t[i - Len(s)]
    BY <1>1, ConcatProperties
  <2>2. \A i \in 1 .. 3 : (s \o t)[i] = IF i <= 2 THEN s[i] ELSE t[i - 2]
    BY <1>1, <2>1
  <2>3. 1 \in 1 .. 3 /\ 2 \in 1 .. 3 /\ 3 \in 1 .. 3  OBVIOUS
  <2>4. /\ (s \o t)[1] = IF 1 <= 2 THEN s[1] ELSE t[1 - 2]
        /\ (s \o t)[2] = IF 2 <= 2 THEN s[2] ELSE t[2 - 2]
        /\ (s \o t)[3] = IF 3 <= 2 THEN s[3] ELSE t[3 - 2]
    BY <2>2, <2>3, Zenon
  <2> QED  BY <1>1, <2>1, <2>4
<1>3. <<a, b, c>> \in Seq(S) /\ Len(<<a, b, c>>) = 3  OBVIOUS
<1>4. <<a, b, c>>[1] = a /\ <<a, b, c>>[2] = b /\ <<a, b, c>>[3] = c  OBVIOUS
<1>5. \A i \in 1 .. 3 : i = 1 \/ i = 2 \/ i = 3  OBVIOUS
<1>6. \A i \in 1 .. 3 : (s \o t)[i] = <<a, b, c>>[i]  BY <1>2, <1>4, <1>5, Zenon
<1>7. s \o t = <<a, b, c>>  BY <1>2, <1>3, <1>6, SeqEqual
<1> QED  BY <1>7 DEF s, t

LEMMA FirstUnused ==
    ASSUME NEW t, Unused(t) # {}
    PROVE  LET i == CHOOSE x \in Unused(t) : \A y \in Unused(t) : x <= y
           IN i \in Unused(t) /\ \A y \in Unused(t) : i <= y
<1>1. Unused(t) \in SUBSET Nat  BY NinodeIs DEF Unused, Inums
<1> QED  BY <1>1, LeastIs

Creation(q, t, type, name, p, u, mode) ==
    \/ q = Plan(FALSE, "null", <<>>)
    \/ \E i \in Unused(t) :
         q = Plan(TRUE, "returns", Creates(t, type, name, p, u, mode, i))

LEMMA CreateIs ==
    ASSUME NEW t \in Tables, NEW type, NEW name, NEW p \in Inums,
           t[p].type # "empty", NEW u, NEW mode
    PROVE  Creation(icreate(t, type, name, p, u, mode), t, type, name, p, u, mode)
<1> DEFINE i == CHOOSE x \in Unused(t) : \A y \in Unused(t) : x <= y
<1>1. Unused(t) = {} => icreate(t, type, name, p, u, mode) = Plan(FALSE, "null", <<>>)
  BY DEF icreate
<1>2. CASE Unused(t) # {}
  <2>1. i \in Unused(t)  BY <1>2, FirstUnused
  <2>2. p # i  BY <2>1 DEF Unused
  <2> HIDE DEF i
  <2>3. <<Write(i, Blank(type)), Write(i, Made(type, i, p, u, mode))>>
          \o <<Write(p, WithEntry(t[p], name, i))>>
        = Creates(t, type, name, p, u, mode, i)
    BY TwoAndOne, Zenon DEF Creates
  <2>4. icreate(t, type, name, p, u, mode)
          = Plan(TRUE, "returns",
                 <<Write(i, Blank(type)), Write(i, Made(type, i, p, u, mode))>>
                   \o <<Write(p, WithEntry(t[p], name, i))>>)
    BY <1>2, <2>2, Zenon DEF icreate, Linked, Blank, Made, WithEntry, i
  <2> QED  BY <2>1, <2>3, <2>4 DEF Creation
<1> QED  BY <1>1, <1>2 DEF Creation

LEMMA EntriesOf ==
    /\ \A type : ToSet(Blank(type).ents) = {}
    /\ \A type, i, p, u, mode :
         ToSet(Made(type, i, p, u, mode).ents)
           = IF type = T_DIR THEN {Entry(".", i), Entry("..", p)} ELSE {}
    /\ \A n \in Nodes : \A name, i :
         ToSet(WithEntry(n, name, i).ents) = ToSet(n.ents) \cup {Entry(name, i)}
<1>1. \A type : ToSet(Blank(type).ents) = {}  BY DEF Blank, Empty, ToSet
<1>2. \A a, b : ToSet(<<a, b>>) = {a, b}
  <2> TAKE a, b
  <2>1. DOMAIN <<a, b>> = {1, 2} /\ <<a, b>>[1] = a /\ <<a, b>>[2] = b  OBVIOUS
  <2> QED  BY <2>1 DEF ToSet
<1>3. ToSet(<<>>) = {}  BY DEF ToSet
<1>4. \A type, i, p, u, mode :
        ToSet(Made(type, i, p, u, mode).ents)
          = IF type = T_DIR THEN {Entry(".", i), Entry("..", p)} ELSE {}
  BY <1>2, <1>3 DEF Made, Dots
<1>5. ASSUME NEW n \in Nodes, NEW name, NEW i
      PROVE  ToSet(WithEntry(n, name, i).ents) = ToSet(n.ents) \cup {Entry(name, i)}
  <2>1. n.ents \in Seq(Entries)  BY NodeIs
  <2>2. WithEntry(n, name, i).ents = Append(n.ents, Entry(name, i))
    BY DEF WithEntry, Nodes
  <2>3. PICK s, m, e :
            s = n.ents /\ m = Len(s) /\ e = Entry(name, i) /\ m \in Nat
    BY <2>1, LenProperties
  <2>4. /\ DOMAIN s = 1 .. m /\ DOMAIN Append(s, e) = 1 .. m + 1
        /\ \A k \in 1 .. m : Append(s, e)[k] = s[k]
        /\ Append(s, e)[m + 1] = e
    BY <2>1, <2>3, AppendProperties, LenProperties
  <2>5. ToSet(Append(s, e)) = ToSet(s) \cup {e}
    <3> DEFINE r == Append(s, e)
    <3>1. \A k \in 1 .. m + 1 : k \in 1 .. m \/ k = m + 1  BY <2>3
    <3>2. \A k \in 1 .. m : k \in 1 .. m + 1  BY <2>3
    <3>3. m + 1 \in 1 .. m + 1  BY <2>3
    <3>4. /\ DOMAIN s = 1 .. m /\ DOMAIN r = 1 .. m + 1
          /\ \A k \in 1 .. m : r[k] = s[k]
          /\ r[m + 1] = e
      BY <2>4
    <3> HIDE DEF r
    <3>5. ASSUME NEW x \in ToSet(r) PROVE x \in ToSet(s) \cup {e}
      BY <3>1, <3>4 DEF ToSet
    <3>6. ASSUME NEW x \in ToSet(s) \cup {e} PROVE x \in ToSet(r)
      BY <3>2, <3>3, <3>4 DEF ToSet
    <3> QED  BY <3>5, <3>6 DEF r
  <2> QED  BY <2>2, <2>3, <2>5
<1> QED  BY <1>1, <1>4, <1>5

LEMMA NodesOfCreate ==
    ASSUME NEW t \in Tables, NEW type \in {T_DIR, T_FILE}, NEW name \in Labels,
           NEW p \in Inums, t[p].type = T_DIR, NEW u \in Users, NEW mode \in Modes,
           NEW i \in Inums
    PROVE  /\ Blank(type) \in Nodes /\ Blank(type).type = type
           /\ Made(type, i, p, u, mode) \in Nodes
           /\ Made(type, i, p, u, mode).type = type
           /\ WithEntry(t[p], name, i) \in Nodes
           /\ WithEntry(t[p], name, i).type = T_DIR
           /\ WithEntry(t[p], name, i).mode = t[p].mode
           /\ WithEntry(t[p], name, i).uid = t[p].uid
<1>1. type \in Types  BY DEF Types
<1>2. Blank(type) \in Nodes /\ Blank(type).type = type
  <2>1. Blank(type) = [type |-> type, mode |-> NoRights, uid |-> 0, ents |-> <<>>]
    BY DEF Blank, Empty
  <2>2. <<>> \in Seq(Entries) /\ NoRights \in Modes \cup {NoRights} /\ 0 \in Users \cup {0}
    OBVIOUS
  <2> HIDE DEF Blank
  <2>3. Blank(type) \in [type : Types, mode : Modes \cup {NoRights},
                        uid : Users \cup {0}, ents : Seq(Entries)]
    BY <1>1, <2>1, <2>2
  <2>4. Blank(type).ents = <<>> /\ Blank(type).type = type  BY <2>1
  <2> QED  BY <2>3, <2>4 DEF Nodes
<1>3. Dots(type, i, p) \in Seq(Entries) /\ (type # T_DIR => Dots(type, i, p) = <<>>)
  <2>1. Entry(".", i) \in Entries /\ Entry("..", p) \in Entries
    BY NinodeIs DEF Entries, Entry, Labels, Inums
  <2> QED  BY <2>1 DEF Dots
<1>4. Made(type, i, p, u, mode) \in Nodes /\ Made(type, i, p, u, mode).type = type
  <2> HIDE DEF Dots
  <2> QED  BY <1>1, <1>3 DEF Made, Nodes
<1>5. Entry(name, i) \in Entries  BY NinodeIs DEF Entry, Entries, Inums
<1>6. t[p] \in Nodes  BY DEF Tables
<1>7. Append(t[p].ents, Entry(name, i)) \in Seq(Entries)
  <2>1. t[p].ents \in Seq(Entries)  BY <1>6, NodeIs
  <2> QED  BY <1>5, <2>1, AppendProperties
<1>8. WithEntry(t[p], name, i) = [t[p] EXCEPT !.ents = Append(t[p].ents, Entry(name, i))]
  BY <1>6 DEF WithEntry, Nodes
<1>9. \A n \in Nodes, s \in Seq(Entries) :
        n.type = T_DIR => /\ [n EXCEPT !.ents = s] \in Nodes
                          /\ [n EXCEPT !.ents = s].type = T_DIR
                          /\ [n EXCEPT !.ents = s].mode = n.mode
                          /\ [n EXCEPT !.ents = s].uid = n.uid
  BY DEF Nodes
<1>10. /\ WithEntry(t[p], name, i) \in Nodes
       /\ WithEntry(t[p], name, i).type = T_DIR
       /\ WithEntry(t[p], name, i).mode = t[p].mode
       /\ WithEntry(t[p], name, i).uid = t[p].uid
  <2>1. PICK s \in Seq(Entries) : s = Append(t[p].ents, Entry(name, i))  BY <1>7
  <2>2. WithEntry(t[p], name, i) = [t[p] EXCEPT !.ents = s]  BY <1>8, <2>1
  <2> QED  BY <1>6, <1>9, <2>2
<1> QED  BY <1>2, <1>4, <1>10

LEMMA CreateWrites ==
    ASSUME NEW t \in Tables, NEW type \in {T_DIR, T_FILE}, NEW name \in Labels,
           NEW p \in Inums, t[p].type = T_DIR, NEW u \in Users, NEW mode \in Modes,
           NEW i \in Unused(t)
    PROVE  LET ws == Creates(t, type, name, p, u, mode, i)
           IN /\ ws \in Seq(Writes) /\ DOMAIN ws = 1 .. 3
              /\ ws[1] = Write(i, Blank(type))
              /\ ws[2] = Write(i, Made(type, i, p, u, mode))
              /\ ws[3] = Write(p, WithEntry(t[p], name, i))
              /\ i \in Inums /\ p # i /\ t[i].type = "empty"
<1>1. i \in Inums /\ p # i /\ t[i].type = "empty"  BY DEF Unused, T_DIR
<1>2. \A j \in Inums, n \in Nodes : Write(j, n) \in Writes  BY DEF Write, Writes
<1> QED  BY <1>1, <1>2, NodesOfCreate, Three DEF Creates

LEMMA CreateAfter ==
    ASSUME NEW t \in Tables, NEW type \in {T_DIR, T_FILE}, NEW name \in Labels,
           NEW p \in Inums, t[p].type = T_DIR, NEW u \in Users, NEW mode \in Modes,
           NEW i \in Unused(t)
    PROVE  LET a == After(t, Creates(t, type, name, p, u, mode, i))
           IN /\ a[i] = Made(type, i, p, u, mode)
              /\ a[p] = WithEntry(t[p], name, i)
              /\ \A x \in Inums \ {i, p} : a[x] = t[x]
<1> DEFINE ws == Creates(t, type, name, p, u, mode, i)  a == After(t, ws)
<1>1. /\ ws \in Seq(Writes) /\ DOMAIN ws = 1 .. 3
      /\ ws[1] = Write(i, Blank(type))
      /\ ws[2] = Write(i, Made(type, i, p, u, mode))
      /\ ws[3] = Write(p, WithEntry(t[p], name, i))
      /\ i \in Inums /\ p # i
  BY CreateWrites
<1>2. \A x \in Inums :
        /\ Untouched(ws, x) => a[x] = t[x]
        /\ \A k \in DOMAIN ws : LastAt(ws, k, x) => a[x] = ws[k].to
  BY <1>1, AfterIs
<1> HIDE DEF ws, a
<1>3. \A k \in 1 .. 3 : k = 1 \/ k = 2 \/ k = 3  OBVIOUS
<1>4. LastAt(ws, 2, i) /\ LastAt(ws, 3, p)  BY <1>1, <1>3 DEF LastAt, Write
<1>5. \A x \in Inums \ {i, p} : Untouched(ws, x)
  BY <1>1, <1>3 DEF Untouched, Write
<1>6. 2 \in DOMAIN ws /\ 3 \in DOMAIN ws  BY <1>1
<1> QED  BY <1>1, <1>2, <1>4, <1>5, <1>6 DEF Write, ws, a

LEMMA CreatePlanned ==
    ASSUME NEW t \in Tables, EntriesIn(t), NEW type \in {T_DIR, T_FILE},
           NEW name \in Labels, NEW p \in Inums, t[p].type = T_DIR,
           NEW u \in Users, NEW mode \in Modes, NEW i \in Unused(t)
    PROVE  Planned(t, Creates(t, type, name, p, u, mode, i))
<1> DEFINE ws == Creates(t, type, name, p, u, mode, i)
           b == Blank(type)  m == Made(type, i, p, u, mode)
           w == WithEntry(t[p], name, i)
<1>1. /\ ws \in Seq(Writes) /\ DOMAIN ws = 1 .. 3
      /\ ws[1] = Write(i, b) /\ ws[2] = Write(i, m) /\ ws[3] = Write(p, w)
      /\ i \in Inums /\ p # i /\ t[i].type = "empty"
  BY CreateWrites
<1>2. b.type = type /\ m.type = type /\ w.type = T_DIR  BY <1>1, NodesOfCreate
<1>3. t[p] \in Nodes /\ t[i] \in Nodes  BY <1>1 DEF Tables
<1>4. /\ LiveIn(b) = {}
      /\ \A e \in LiveIn(m) : e.inum \in {i, p}
      /\ \A e \in LiveIn(w) : e \in LiveIn(t[p]) \/ e.inum = i
      /\ LiveIn(t[p]) \subseteq LiveIn(w)
  <2>1. \A name2, j : Entry(name2, j).inum = j  BY DEF Entry
  <2>2. ToSet(b.ents) = {}  BY EntriesOf
  <2>3. ToSet(m.ents) \subseteq {Entry(".", i), Entry("..", p)}
    <3>1. ToSet(m.ents) = IF type = T_DIR THEN {Entry(".", i), Entry("..", p)} ELSE {}
      BY EntriesOf, Zenon
    <3> HIDE DEF m
    <3> QED  BY <3>1
  <2>4. ToSet(w.ents) = ToSet(t[p].ents) \cup {Entry(name, i)}  BY <1>3, EntriesOf
  <2> HIDE DEF b, m, w
  <2> QED  BY <2>1, <2>2, <2>3, <2>4 DEF LiveIn
<1>5. LiveIn(t[i]) = {}
  <2>1. t[i].ents = <<>>  BY <1>1, <1>3, NodeIs DEF T_DIR
  <2> QED  BY <2>1 DEF LiveIn, ToSet
<1>6. type # "empty"  BY DEF T_DIR, T_FILE
<1> HIDE DEF ws, b, m, w
<1>7. \A k \in DOMAIN ws : \/ k = 1 /\ ws[k].at = {i} /\ ws[k].to = b
                           \/ k = 2 /\ ws[k].at = {i} /\ ws[k].to = m
                           \/ k = 3 /\ ws[k].at = {p} /\ ws[k].to = w
  <2>1. \A k \in 1 .. 3 : k = 1 \/ k = 2 \/ k = 3  OBVIOUS
  <2> QED  BY <1>1, <2>1 DEF Write
<1>8. Keeps(ws)  BY <1>2, <1>6, <1>7 DEF Keeps, T_DIR
<1>10. SameKind(t, ws)
  <2> SUFFICES ASSUME NEW k \in DOMAIN ws, NEW x \in ws[k].at
               PROVE  /\ t[x].type \in {"empty", ws[k].to.type}
                      /\ \A j \in 1 .. k - 1 :
                           x \in ws[j].at => ws[j].to.type \in {"empty", ws[k].to.type}
    BY DEF SameKind
  <2>1. CASE k = 1  BY <1>1, <1>7, <2>1
  <2>2. CASE k = 2
    <3>1. \A j \in 1 .. k - 1 : j = 1  BY <2>2
    <3>2. ws[1].to = b /\ ws[k].to = m /\ x = i  BY <1>1, <1>7, <2>2 DEF Write
    <3> QED  BY <1>1, <1>2, <3>1, <3>2
  <2>3. CASE k = 3
    <3>1. \A j \in 1 .. k - 1 : j = 1 \/ j = 2  BY <2>3
    <3>2. ws[1].at = {i} /\ ws[2].at = {i} /\ ws[k].to = w /\ x = p
      BY <1>1, <1>7, <2>3 DEF Write
    <3> QED  BY <1>1, <1>2, <3>1, <3>2
  <2> QED  BY <1>7, <2>1, <2>2, <2>3
<1>11. Founded(t, ws)
  <2> SUFFICES ASSUME NEW k \in DOMAIN ws, NEW e \in LiveIn(ws[k].to)
               PROVE  \/ t[e.inum].type # "empty"
                      \/ \E j \in 1 .. k - 1 :
                           e.inum \in ws[j].at /\ ws[j].to.type # "empty"
    BY <1>8 DEF Founded
  <2>1. ws[1].at = {i} /\ ws[1].to.type # "empty"  BY <1>1, <1>2, <1>6 DEF Write
  <2>2. k # 1 /\ 1 \in 1 .. k - 1
    <3>1. k # 1  BY <1>4, <1>7
    <3>2. k = 2 \/ k = 3  BY <1>7, <3>1
    <3> QED  BY <3>2
  <2>3. \/ e.inum \in {i, p} \/ e \in LiveIn(t[p])  BY <1>4, <1>7, <2>2
  <2>4. t[p].type # "empty"  BY DEF T_DIR
  <2> QED  BY <2>1, <2>2, <2>3, <2>4 DEF EntriesIn
<1>12. Grows(t, ws)
  <2> SUFFICES ASSUME NEW k \in DOMAIN ws, NEW d \in ws[k].at
               PROVE  /\ Removes(t[d], ws[k].to) = {}
                      /\ \A j \in 1 .. k - 1 :
                           d \in ws[j].at => Removes(ws[j].to, ws[k].to) = {}
    BY DEF Grows
  <2>1. \A n : LiveIn(n) = {} => \A l : Removes(n, l) = {}
    BY DEF Removes, ChildrenIn
  <2>2. CASE k = 1  BY <1>5, <1>7, <2>1, <2>2
  <2>3. CASE k = 2
    <3>1. \A j \in 1 .. k - 1 : j = 1  BY <2>3
    <3>2. ws[1].to = b /\ d = i  BY <1>1, <1>7, <2>3 DEF Write
    <3> QED  BY <1>4, <1>5, <2>1, <3>1, <3>2
  <2>4. CASE k = 3
    <3>1. \A j \in 1 .. k - 1 : j = 1 \/ j = 2  BY <2>4
    <3>2. ws[1].at = {i} /\ ws[2].at = {i} /\ ws[k].to = w /\ d = p
      BY <1>1, <1>7, <2>4 DEF Write
    <3>3. Removes(t[p], w) = {}  BY <1>4 DEF Removes, ChildrenIn
    <3> QED  BY <1>1, <3>1, <3>2, <3>3
  <2> QED  BY <1>7, <2>2, <2>3, <2>4
<1> QED  BY <1>1, <1>8, <1>10, <1>11, <1>12 DEF Planned, Ordered, ws

(* cmd_mk, cmd_mkdir, and the two directories of to_home.                  *)
LEMMA MakeIs ==
    ASSUME NEW t \in Tables, EntriesIn(t), NEW type \in {T_DIR, T_FILE},
           NEW name \in Labels, NEW d \in Inums, t[d].type # T_FILE,
           NEW u \in Users, NEW mode \in Modes
    PROVE  LET q == make(t, type, name, d, u, mode)
           IN \/ q = Plan(FALSE, "null", <<>>) \/ q = Refused
              \/ /\ t[d].type = T_DIR /\ Acceptable(t, d, name) /\ Can(t, u, d, RW)
                 /\ \E i \in Unused(t) :
                      q = Plan(TRUE, "returns", Creates(t, type, name, d, u, mode, i))
<1>1. t[d].type = "empty" \/ t[d].type = T_DIR
  <2>1. t[d] \in Nodes  BY DEF Tables
  <2> QED  BY <2>1, NodeIs DEF Types
<1>2. CASE t[d].type = "empty"  BY <1>2 DEF make
<1>3. CASE t[d].type = T_DIR
  <2>1. t[d].type # "empty"  BY <1>3 DEF T_DIR
  <2>2. Creation(icreate(t, type, name, d, u, mode), t, type, name, d, u, mode)
    BY <2>1, CreateIs
  <2> QED  BY <1>3, <2>1, <2>2 DEF make, Creation
<1> QED  BY <1>1, <1>2, <1>3

LEMMA NoWrites ==
    ASSUME NEW t \in Tables
    PROVE  Planned(t, <<>>) /\ After(t, <<>>) = t
<1> DEFINE ws == <<>>
<1>1. ws \in Seq(Writes) /\ DOMAIN ws = {}  OBVIOUS
<1> HIDE DEF ws
<1>2. Planned(t, ws)
  BY <1>1 DEF Planned, Ordered, SameKind, Founded, Keeps, Grows
<1>3. \A x \in Inums : After(t, ws)[x] = t[x]  BY <1>1, AfterIs DEF Untouched
<1>4. After(t, ws) \in Tables  BY <1>1, AfterTyped
<1>5. After(t, ws) = t  BY <1>3, <1>4 DEF Tables
<1> QED  BY <1>2, <1>5 DEF ws

(* What cmd_mkdir gives to_home, and the commands.                         *)
Good(t, q) ==
    /\ Planned(t, q.ws) /\ q.fate \in {"returns", "null"}
    /\ q.ok \in BOOLEAN /\ (q.ok => q.fate = "returns")
    /\ q = Plan(q.ok, q.fate, q.ws)

LEMMA PlanIsRecord ==
    \A ok, fate, ws, a : [Plan(ok, fate, ws) EXCEPT !.ws = a] = Plan(ok, fate, a)
BY DEF Plan

LEMMA PlanGood ==
    ASSUME NEW t, NEW fate \in {"returns", "null"}, NEW ok \in BOOLEAN,
           ok => fate = "returns", NEW ws, Planned(t, ws)
    PROVE  Good(t, Plan(ok, fate, ws))
<1> DEFINE q == Plan(ok, fate, ws)
<1>1. q.ok = ok /\ q.fate = fate /\ q.ws = ws  BY DEF Plan
<1>2. q = Plan(q.ok, q.fate, q.ws)  BY <1>1
<1> HIDE DEF q
<1> QED  BY <1>1, <1>2 DEF Good, q

LEMMA MakeGood ==
    ASSUME NEW t \in Tables, EntriesIn(t), NEW type \in {T_DIR, T_FILE},
           NEW name \in Labels, NEW d \in Inums, t[d].type # T_FILE,
           NEW u \in Users, NEW mode \in Modes
    PROVE  Good(t, make(t, type, name, d, u, mode))
<1> DEFINE q == make(t, type, name, d, u, mode)
<1>1. \/ q = Plan(FALSE, "null", <<>>) \/ q = Refused
      \/ /\ t[d].type = T_DIR
         /\ \E i \in Unused(t) :
              q = Plan(TRUE, "returns", Creates(t, type, name, d, u, mode, i))
  BY MakeIs
<1> HIDE DEF q
<1>2. CASE q = Plan(FALSE, "null", <<>>) \/ q = Refused
  BY <1>2, PlanGood, NoWrites DEF Refused, q
<1>3. CASE /\ t[d].type = T_DIR
           /\ \E i \in Unused(t) :
                q = Plan(TRUE, "returns", Creates(t, type, name, d, u, mode, i))
  <2>1. PICK i \in Unused(t) :
            q = Plan(TRUE, "returns", Creates(t, type, name, d, u, mode, i))
    BY <1>3
  <2>2. Planned(t, Creates(t, type, name, d, u, mode, i))  BY <1>3, CreatePlanned
  <2> QED  BY <2>1, <2>2, PlanGood DEF q
<1> QED  BY <1>1, <1>2, <1>3

LEMMA GoodAfter ==
    ASSUME NEW t \in Tables, EntriesIn(t), NEW q, Good(t, q)
    PROVE  After(t, q.ws) \in Tables /\ EntriesIn(After(t, q.ws))
BY AfterTyped, AfterSound DEF Good, Planned

LEMMA BecomesLonger ==
    ASSUME NEW t, NEW a \in Seq(Writes), NEW b \in Seq(Writes),
           NEW x, Becomes(t, a, x)
    PROVE  Becomes(t, a \o b, x)
BY ChainIs DEF Becomes, Makes

LEMMA ChainPlanned ==
    ASSUME NEW t \in Tables, NEW a, NEW b, Planned(t, a), Planned(After(t, a), b)
    PROVE  Planned(t, a \o b)
BY ChainOrdered, ChainGrows, ChainIs DEF Planned

(* to_home, by its parts.                                                  *)
Arrived(t, u, name, from) == cd(t, u, from, <<name>>)
HomeMade(t, u, c) ==
    IF Arrived(t, u, "home", 0) = NINODE THEN make(t, T_DIR, "home", c, u, Open)
    ELSE Plan(TRUE, "returns", <<>>)
OwnMade(t, u, h) ==
    IF Arrived(t, u, ToString(u), h) = NINODE THEN make(t, T_DIR, ToString(u), h, u, Open)
    ELSE Plan(TRUE, "returns", <<>>)

LEMMA ToHomeIs ==
    ASSUME NEW t, NEW u, NEW c
    PROVE  LET p1 == HomeMade(t, u, c)
               t1 == After(t, p1.ws)
               home == Arrived(t1, u, "home", 0)
               p2 == OwnMade(t1, u, home)
           IN \/ /\ ~p1.ok \/ home = NINODE
                 /\ to_home(t, u, c) = [p1 |-> p1, to |-> c]
              \/ /\ p1.ok /\ home # NINODE
                 /\ to_home(t, u, c).p1 = [p2 EXCEPT !.ws = p1.ws \o @]
                 /\ to_home(t, u, c).to \in {c, home}
BY DEF to_home, HomeMade, OwnMade, Arrived

LEMMA OrMade ==
    ASSUME NEW t \in Tables, EntriesIn(t), NEW name \in Labels, NEW d \in Inums,
           t[d].type # T_FILE, NEW u \in Users, NEW P
    PROVE  Good(t, IF P THEN make(t, T_DIR, name, d, u, Open)
                   ELSE Plan(TRUE, "returns", <<>>))
<1>1. Good(t, make(t, T_DIR, name, d, u, Open))
  BY MakeGood, FsTreeAssumption
<1>2. Good(t, Plan(TRUE, "returns", <<>>))
  BY PlanGood, NoWrites
<1> QED  BY <1>1, <1>2

LEMMA ToHomeGood ==
    ASSUME NEW t \in Tables, EntriesIn(t), NEW u \in Users, NEW c \in Inums,
           t[c].type # T_FILE
    PROVE  LET h == to_home(t, u, c)
           IN /\ Good(t, h.p1) /\ h.to \in Inums
              /\ t[c].type = T_DIR => Becomes(t, h.p1.ws, h.to)
<1> DEFINE p1 == HomeMade(t, u, c)  t1 == After(t, p1.ws)
           home == Arrived(t1, u, "home", 0)
           p2 == OwnMade(t1, u, home)
           h == to_home(t, u, c)
<1>1. "home" \in Labels /\ ToString(u) \in Labels  BY DEF Labels
<1>2. Good(t, p1)  BY <1>1, OrMade DEF HomeMade
<1>3. t1 \in Tables /\ EntriesIn(t1)  BY <1>2, GoodAfter
<1>4. 0 \in Inums  BY NinodeIs DEF Inums
<1>5. \/ /\ ~p1.ok \/ home = NINODE
         /\ h = [p1 |-> p1, to |-> c]
      \/ /\ p1.ok /\ home # NINODE
         /\ h.p1 = [p2 EXCEPT !.ws = p1.ws \o @]
         /\ h.to \in {c, home}
  BY ToHomeIs
<1>6. home # NINODE => home \in Inums /\ t1[home].type = T_DIR
  BY <1>3, <1>4, CdIs DEF Arrived
<1> HIDE DEF p1, t1, home, h, p2
<1>7. CASE h = [p1 |-> p1, to |-> c]
  <2>1. h.p1 = p1 /\ h.to = c  BY <1>7
  <2>2. t[c].type = T_DIR => Becomes(t, p1.ws, c)
    BY <1>2 DEF Becomes, Good, Planned
  <2> QED  BY <1>2, <2>1, <2>2 DEF h
<1>8. CASE /\ p1.ok /\ home # NINODE
           /\ h.p1 = [p2 EXCEPT !.ws = p1.ws \o @]
           /\ h.to \in {c, home}
  <2>1. Good(t1, p2)
    <3>1. t1[home].type # T_FILE  BY <1>6, <1>8 DEF T_DIR, T_FILE
    <3> QED  BY <1>1, <1>3, <1>6, <1>8, <3>1, OrMade DEF OwnMade, p2
  <2>2. h.p1 = Plan(p2.ok, p2.fate, p1.ws \o p2.ws)
    <3>1. p2 = Plan(p2.ok, p2.fate, p2.ws)  BY <2>1 DEF Good
    <3>2. [p2 EXCEPT !.ws = p1.ws \o @] = [p2 EXCEPT !.ws = p1.ws \o p2.ws]
      BY <3>1 DEF Plan
    <3>3. [p2 EXCEPT !.ws = p1.ws \o p2.ws] = Plan(p2.ok, p2.fate, p1.ws \o p2.ws)
      <4> DEFINE ok == p2.ok  fate == p2.fate  ws == p2.ws  a == p1.ws \o p2.ws
      <4> HIDE DEF ok, fate, ws, a
      <4>1. [Plan(ok, fate, ws) EXCEPT !.ws = a] = Plan(ok, fate, a)
        BY PlanIsRecord
      <4>2. p2 = Plan(ok, fate, ws)  BY <3>1 DEF ok, fate, ws
      <4> QED  BY <4>1, <4>2, Zenon DEF ok, fate, a
    <3> QED  BY <1>8, <3>2, <3>3
  <2>3. Planned(t, p1.ws \o p2.ws)
    BY <1>2, <2>1, ChainPlanned DEF Good, t1
  <2>4. Good(t, h.p1)
    BY <2>1, <2>2, <2>3, PlanGood DEF Good
  <2>5. ASSUME t[c].type = T_DIR PROVE Becomes(t, h.p1.ws, h.to)
    <3>1. h.p1.ws = p1.ws \o p2.ws
      <4> DEFINE ok == p2.ok  fate == p2.fate  a == p1.ws \o p2.ws
      <4>1. Plan(ok, fate, a).ws = a  BY DEF Plan
      <4> QED  BY <2>2, <4>1
    <3>2. Becomes(t, p1.ws, c)  BY <1>2, <2>5 DEF Becomes, Good, Planned
    <3>3. Becomes(t, p1.ws, home)
      BY <1>2, <1>6, <1>8, BecomesAfter DEF Good, Planned, t1
    <3>4. p1.ws \in Seq(Writes) /\ p2.ws \in Seq(Writes)
      BY <1>2, <2>1 DEF Good, Planned
    <3> QED  BY <1>8, <3>1, <3>2, <3>3, <3>4, BecomesLonger
  <2> QED  BY <1>6, <1>8, <2>4, <2>5 DEF h
<1> QED  BY <1>5, <1>7, <1>8

-----------------------------------------------------------------------------
(* Marking and packing the entries of a directory.                         *)
Rank(S, k) == Cardinality({j \in 1 .. k : j \in S})

LEMMA RankIs ==
    ASSUME NEW N \in Nat, NEW S \in SUBSET (1 .. N)
    PROVE  /\ Cardinality(S) \in Nat /\ Cardinality(S) <= N
           /\ \A k \in S : Rank(S, k) \in 1 .. Cardinality(S)
           /\ \A k, l \in S : k < l => Rank(S, k) < Rank(S, l)
           /\ \A n \in 1 .. Cardinality(S) : \E k \in S : Rank(S, k) = n
<1> DEFINE B(k) == {j \in 1 .. k : j \in S}  m == Cardinality(S)
<1>1. IsFiniteSet(1 .. N) /\ Cardinality(1 .. N) = N  BY FS_Interval
<1>2. IsFiniteSet(S) /\ m \in Nat /\ m <= N  BY <1>1, FS_Subset, FS_CardinalityType
<1>3. \A k \in S : /\ B(k) \subseteq S /\ k \in B(k) /\ k \in Nat
                   /\ IsFiniteSet(B(k)) /\ Cardinality(B(k)) \in Nat
                   /\ Cardinality(B(k)) <= m
  <2> SUFFICES ASSUME NEW k \in S
               PROVE /\ B(k) \subseteq S /\ k \in B(k) /\ k \in Nat
                     /\ IsFiniteSet(B(k)) /\ Cardinality(B(k)) \in Nat
                     /\ Cardinality(B(k)) <= m
    OBVIOUS
  <2>1. B(k) \subseteq S /\ k \in B(k) /\ k \in Nat  OBVIOUS
  <2> HIDE DEF B
  <2> QED  BY <1>2, <2>1, FS_Subset, FS_CardinalityType
<1>4. \A k \in S : Cardinality(B(k)) # 0
  BY <1>3, FS_EmptySet
<1>5. \A k \in S : Rank(S, k) = Cardinality(B(k))  BY DEF Rank
<1>6. \A k \in S : Rank(S, k) \in 1 .. m
  <2> HIDE DEF B, m
  <2> QED  BY <1>2, <1>3, <1>4, <1>5
<1>7. \A k, l \in S : k < l => Rank(S, k) < Rank(S, l)
  <2> SUFFICES ASSUME NEW k \in S, NEW l \in S, k < l
               PROVE  Cardinality(B(k)) < Cardinality(B(l))
    BY <1>5
  <2>1. B(k) \subseteq B(l) /\ l \in B(l) /\ l \notin B(k)  OBVIOUS
  <2> HIDE DEF B
  <2> QED  BY <1>3, <2>1, FS_Subset
<1>8. \A n \in 1 .. m : \E k \in S : Rank(S, k) = n
  <2> DEFINE R == {Rank(S, k) : k \in S}  f == [k \in S |-> Rank(S, k)]
  <2>1. f \in Bijection(S, R)
    <3>1. \A k, l \in S : f[k] = f[l] => k = l
      <4> SUFFICES ASSUME NEW k \in S, NEW l \in S, Rank(S, k) = Rank(S, l)
                   PROVE  k = l
        OBVIOUS
      <4>1. k \in Nat /\ l \in Nat /\ Rank(S, k) \in Int  BY <1>3, <1>6
      <4>2. ~(k < l) /\ ~(l < k)  BY <1>7, <4>1
      <4> QED  BY <4>1, <4>2
    <3>2. \A r \in R : \E k \in S : f[k] = r  OBVIOUS
    <3>3. f \in [S -> R]  OBVIOUS
    <3> HIDE DEF f, R
    <3> QED  BY <3>1, <3>2, <3>3, Zenon DEF Bijection, Injection, Surjection, IsInjective
  <2>2. IsFiniteSet(R) /\ Cardinality(R) = m
    <3> HIDE DEF R, f
    <3> QED  BY <1>2, <2>1, FS_Bijection DEF ExistsBijection
  <2>3. R \subseteq 1 .. m  BY <1>6
  <2>4. IsFiniteSet(1 .. m) /\ Cardinality(1 .. m) = m  BY <1>2, FS_Interval
  <2>5. R = 1 .. m
    <3> HIDE DEF R, m
    <3> QED  BY <1>2, <2>2, <2>3, <2>4, FS_Subset
  <2> QED  BY <2>5
<1> QED  BY <1>2, <1>6, <1>7, <1>8

Kept(ents) == {k \in DOMAIN ents : ents[k].inum # NINODE}
Place(ents, n) ==
    CHOOSE k \in DOMAIN ents : ents[k].inum # NINODE /\ Rank(Kept(ents), k) = n

LEMMA DeletedIs ==
    ASSUME NEW s \in Seq(Entries)
    PROVE  /\ Deleted(s) \in Nat /\ Cardinality(Kept(s)) \in Nat
           /\ Len(s) \in Nat /\ Len(s) = Deleted(s) + Cardinality(Kept(s))
           /\ DOMAIN s = 1 .. Len(s) /\ Kept(s) \subseteq 1 .. Len(s)
<1> DEFINE N == Len(s)  D == {k \in DOMAIN s : s[k].inum = NINODE}
<1>1. N \in Nat /\ DOMAIN s = 1 .. N  OBVIOUS
<1>2. IsFiniteSet(1 .. N) /\ Cardinality(1 .. N) = N  BY <1>1, FS_Interval
<1>3. /\ D \subseteq 1 .. N /\ Kept(s) \subseteq 1 .. N
      /\ D \cup Kept(s) = 1 .. N /\ D \cap Kept(s) = {}
  BY <1>1 DEF Kept
<1>4. Deleted(s) = Cardinality(D)  BY DEF Deleted
<1> HIDE DEF D, N
<1>5. /\ IsFiniteSet(D) /\ IsFiniteSet(Kept(s))
      /\ Cardinality(D) \in Nat /\ Cardinality(Kept(s)) \in Nat
  BY <1>2, <1>3, FS_Subset, FS_CardinalityType
<1>6. Cardinality(D \cup Kept(s)) = Cardinality(D) + Cardinality(Kept(s))
  <2>1. Cardinality(D \cup Kept(s))
          = Cardinality(D) + Cardinality(Kept(s)) - Cardinality(D \cap Kept(s))
    BY <1>5, FS_Union
  <2>2. Cardinality(D \cap Kept(s)) = 0  BY <1>3, FS_EmptySet
  <2> QED  BY <1>5, <2>1, <2>2
<1> QED  BY <1>1, <1>2, <1>3, <1>4, <1>5, <1>6 DEF N

LEMMA PackedIs ==
    ASSUME NEW s \in Seq(Entries)
    PROVE  /\ Packed(s) \in Seq(Entries) /\ Len(Packed(s)) = Cardinality(Kept(s))
           /\ DOMAIN Packed(s) = 1 .. Cardinality(Kept(s))
           /\ \A n \in DOMAIN Packed(s) :
                /\ Place(s, n) \in Kept(s) /\ Packed(s)[n] = s[Place(s, n)]
                /\ Rank(Kept(s), Place(s, n)) = n
           /\ \A k \in Kept(s) :
                /\ Rank(Kept(s), k) \in DOMAIN Packed(s)
                /\ Place(s, Rank(Kept(s), k)) = k
<1> DEFINE N == Len(s)  L == Kept(s)  m == Cardinality(L)
<1>1. /\ N \in Nat /\ DOMAIN s = 1 .. N /\ m \in Nat /\ L \subseteq 1 .. N
      /\ N - Deleted(s) = m
  BY DeletedIs
<1>2. /\ \A k \in L : Rank(L, k) \in 1 .. m
      /\ \A k, l \in L : k < l => Rank(L, k) < Rank(L, l)
      /\ \A n \in 1 .. m : \E k \in L : Rank(L, k) = n
  BY <1>1, RankIs
<1>3. \A k \in DOMAIN s : Cardinality({j \in 1 .. k : s[j].inum # NINODE}) = Rank(L, k)
  <2> SUFFICES ASSUME NEW k \in DOMAIN s
               PROVE  {j \in 1 .. k : s[j].inum # NINODE} = {j \in 1 .. k : j \in L}
    BY DEF Rank
  <2> QED  BY <1>1 DEF Kept
<1> DEFINE C(n) == CHOOSE k \in DOMAIN s :
                     /\ s[k].inum # NINODE
                     /\ Cardinality({j \in 1 .. k : s[j].inum # NINODE}) = n
<1>4. \A n : C(n) = Place(s, n)
  BY <1>3, Zenon DEF Place
<1>5. Packed(s) = [n \in 1 .. m |-> s[Place(s, n)]]
  <2>1. Packed(s) = [n \in 1 .. Len(s) - Deleted(s) |-> s[C(n)]]
    BY Zenon DEF Packed
  <2> HIDE DEF C, m
  <2>2. Packed(s) = [n \in 1 .. m |-> s[C(n)]]  BY <1>1, <2>1, Zenon
  <2> QED  BY <1>4, <2>2
<1>6. \A n \in 1 .. m : Place(s, n) \in L /\ Rank(L, Place(s, n)) = n
  BY <1>2 DEF Place, Kept
<1>7. \A k \in L : Place(s, Rank(L, k)) = k
  <2> SUFFICES ASSUME NEW k \in L PROVE Place(s, Rank(L, k)) = k
    OBVIOUS
  <2>1. Rank(L, k) \in 1 .. m  BY <1>2
  <2>2. /\ Place(s, Rank(L, k)) \in L
        /\ Rank(L, Place(s, Rank(L, k))) = Rank(L, k)
    BY <1>6, <2>1
  <2> DEFINE l == Place(s, Rank(L, k))
  <2>3. l \in Nat /\ k \in Nat /\ Rank(L, k) \in Nat  BY <1>1, <2>1, <2>2
  <2> HIDE DEF l
  <2>4. ~(k < l) /\ ~(l < k)  BY <1>2, <2>2, <2>3 DEF l
  <2> QED  BY <2>3, <2>4 DEF l
<1>8. \A n \in 1 .. m : s[Place(s, n)] \in Entries
  BY <1>1, <1>6
<1> HIDE DEF L, m
<1>9. Packed(s) \in Seq(Entries) /\ Len(Packed(s)) = m /\ DOMAIN Packed(s) = 1 .. m
  BY <1>1, <1>5, <1>8
<1>10. \A n \in 1 .. m : Packed(s)[n] = s[Place(s, n)]  BY <1>5
<1> QED  BY <1>2, <1>6, <1>7, <1>9, <1>10 DEF L, m

Marked(ents, i) ==
    [k \in DOMAIN ents |->
       IF ents[k].inum = i THEN [ents[k] EXCEPT !.inum = NINODE] ELSE ents[k]]
Moved(m) == Packed(m) \o SubSeq(m, Len(Packed(m)) + 1, Len(m))

LEMMA MarkedIs ==
    ASSUME NEW s \in Seq(Entries), NEW i \in Inums
    PROVE  /\ Marked(s, i) \in Seq(Entries) /\ Len(Marked(s, i)) = Len(s)
           /\ DOMAIN Marked(s, i) = DOMAIN s
           /\ Kept(Marked(s, i)) = {k \in Kept(s) : s[k].inum # i}
           /\ \A k \in Kept(Marked(s, i)) : Marked(s, i)[k] = s[k]
<1>1. Len(s) \in Nat /\ DOMAIN s = 1 .. Len(s)  OBVIOUS
<1>2. NINODE \in 0 .. NINODE /\ i # NINODE  BY NinodeIs DEF Inums
<1>3. \A k \in DOMAIN s : s[k] \in Entries  OBVIOUS
<1>4. \A e \in Entries : /\ [e EXCEPT !.inum = NINODE] \in Entries
                         /\ [e EXCEPT !.inum = NINODE].inum = NINODE
  BY <1>2 DEF Entries
<1> DEFINE m == Marked(s, i)
<1>5. /\ DOMAIN m = 1 .. Len(s)
      /\ \A k \in DOMAIN s :
           m[k] = IF s[k].inum = i THEN [s[k] EXCEPT !.inum = NINODE] ELSE s[k]
  BY <1>1, Zenon DEF Marked
<1>6. \A k \in 1 .. Len(s) : m[k] \in Entries
  BY <1>1, <1>3, <1>4, <1>5
<1>7. m \in [1 .. Len(s) -> Entries]  BY <1>1, <1>6 DEF Marked
<1>8. \A k \in DOMAIN s : /\ s[k].inum = i => m[k].inum = NINODE
                          /\ s[k].inum # i => m[k] = s[k]
  <2> HIDE DEF m
  <2> TAKE k \in DOMAIN s
  <2>1. CASE s[k].inum = i
    <3>1. m[k] = [s[k] EXCEPT !.inum = NINODE]  BY <1>5, <2>1
    <3> QED  BY <1>3, <1>4, <2>1, <3>1
  <2>2. CASE s[k].inum # i  BY <1>5, <2>2
  <2> QED  BY <2>1, <2>2
<1> HIDE DEF m
<1>9. m \in Seq(Entries) /\ Len(m) = Len(s)  BY <1>1, <1>7
<1>10. Kept(m) = {k \in Kept(s) : s[k].inum # i}
  BY <1>1, <1>2, <1>5, <1>8 DEF Kept
<1>11. \A k \in Kept(m) : m[k] = s[k]  BY <1>8, <1>10 DEF Kept
<1> QED  BY <1>1, <1>5, <1>9, <1>10, <1>11 DEF m

LEMMA MovedIs ==
    ASSUME NEW m \in Seq(Entries)
    PROVE  /\ Moved(m) \in Seq(Entries)
           /\ \A k \in DOMAIN Packed(m) :
                k \in DOMAIN Moved(m) /\ Moved(m)[k] = Packed(m)[k]
           /\ \A k \in DOMAIN Moved(m) :
                \/ k \in DOMAIN Packed(m) /\ Moved(m)[k] = Packed(m)[k]
                \/ k \in DOMAIN m /\ Moved(m)[k] = m[k]
<1> DEFINE p == Packed(m)  c == Len(p)  N == Len(m)  r == SubSeq(m, c + 1, N)
<1>1. /\ p \in Seq(Entries) /\ c = Cardinality(Kept(m)) /\ DOMAIN p = 1 .. c
      /\ N \in Nat /\ c \in Nat /\ c <= N
  BY PackedIs, DeletedIs
<1>2. /\ r \in Seq(Entries) /\ Len(r) = N - c
      /\ \A k \in 1 .. N - c : r[k] = m[c + k]
  <2> HIDE DEF c, p
  <2> QED  BY <1>1
<1> HIDE DEF r, p, c
<1>3. /\ p \o r \in Seq(Entries) /\ Len(p \o r) = N /\ DOMAIN (p \o r) = 1 .. N
      /\ \A k \in 1 .. N : (p \o r)[k] = IF k <= c THEN p[k] ELSE r[k - c]
  BY <1>1, <1>2 DEF c
<1>4. \A k \in 1 .. N : k > c => k - c \in 1 .. N - c /\ (p \o r)[k] = m[k]
  <2> SUFFICES ASSUME NEW k \in 1 .. N, k > c
               PROVE  k - c \in 1 .. N - c /\ (p \o r)[k] = m[k]
    OBVIOUS
  <2>1. k - c \in 1 .. N - c /\ c + (k - c) = k /\ ~(k <= c)  BY <1>1
  <2>2. r[k - c] = m[c + (k - c)]  BY <1>2, <2>1
  <2>3. (p \o r)[k] = r[k - c]  BY <1>3, <2>1
  <2> QED  BY <2>1, <2>2, <2>3
<1>5. Moved(m) = p \o r  BY DEF Moved, p, r, c
<1>6. DOMAIN m = 1 .. N  OBVIOUS
<1> HIDE DEF N
<1>7. \A k \in 1 .. N : k \in 1 .. c \/ k > c  BY <1>1
<1>8. \A k \in 1 .. c : k \in 1 .. N /\ k <= c  BY <1>1
<1> QED  BY <1>1, <1>3, <1>4, <1>5, <1>6, <1>7, <1>8 DEF p

WithEnts(n, ents) == [n EXCEPT !.ents = ents]
Puts(n, d, m) ==
    <<Write(d, WithEnts(n, m)), Write(d, WithEnts(n, Moved(m))),
      Write(d, WithEnts(n, Packed(m)))>>
OverHalf(ents) == ~(1 + Deleted(ents) <= Len(ents) \div 2)
Removal(q, n, d, m) ==
    \/ /\ ~OverHalf(n.ents)
       /\ q = Plan(TRUE, "returns", <<Write(d, WithEnts(n, m))>>)
    \/ /\ OverHalf(n.ents) /\ Len(Packed(m)) # Len(n.ents) - (1 + Deleted(n.ents))
       /\ q = Plan(FALSE, "asserts", <<Write(d, WithEnts(n, m))>>)
    \/ /\ OverHalf(n.ents) /\ Len(Packed(m)) = Len(n.ents) - (1 + Deleted(n.ents))
       /\ q = Plan(TRUE, "returns", Puts(n, d, m))

LEMMA OneAndTwo == \A a, b, c : <<a>> \o <<b, c>> = <<a, b, c>>
<1> TAKE a, b, c
<1> DEFINE S == {a, b, c}  s == <<a>>  t == <<b, c>>
<1>1. /\ s \in Seq(S) /\ t \in Seq(S) /\ Len(s) = 1 /\ Len(t) = 2
      /\ s[1] = a /\ t[1] = b /\ t[2] = c
  OBVIOUS
<1> HIDE DEF s, t
<1>2. /\ s \o t \in Seq(S) /\ Len(s \o t) = 3
      /\ (s \o t)[1] = a /\ (s \o t)[2] = b /\ (s \o t)[3] = c
  <2>1. /\ s \o t \in Seq(S) /\ Len(s \o t) = Len(s) + Len(t)
        /\ \A i \in 1 .. Len(s) + Len(t) :
             (s \o t)[i] = IF i <= Len(s) THEN s[i] ELSE t[i - Len(s)]
    BY <1>1, ConcatProperties, SMTT(30)
  <2>2. \A i \in 1 .. 3 : (s \o t)[i] = IF i <= 1 THEN s[i] ELSE t[i - 1]
    BY <1>1, <2>1
  <2>3. 1 \in 1 .. 3 /\ 2 \in 1 .. 3 /\ 3 \in 1 .. 3  OBVIOUS
  <2>4. /\ (s \o t)[1] = IF 1 <= 1 THEN s[1] ELSE t[1 - 1]
        /\ (s \o t)[2] = IF 2 <= 1 THEN s[2] ELSE t[2 - 1]
        /\ (s \o t)[3] = IF 3 <= 1 THEN s[3] ELSE t[3 - 1]
    BY <2>2, <2>3, Zenon
  <2> QED  BY <1>1, <2>1, <2>4
<1>3. <<a, b, c>> \in Seq(S) /\ Len(<<a, b, c>>) = 3  OBVIOUS
<1>4. <<a, b, c>>[1] = a /\ <<a, b, c>>[2] = b /\ <<a, b, c>>[3] = c  OBVIOUS
<1>5. \A i \in 1 .. 3 : i = 1 \/ i = 2 \/ i = 3  OBVIOUS
<1>6. \A i \in 1 .. 3 : (s \o t)[i] = <<a, b, c>>[i]  BY <1>2, <1>4, <1>5, Zenon
<1>7. s \o t = <<a, b, c>>  BY <1>2, <1>3, <1>6, SeqEqual
<1> QED  BY <1>7 DEF s, t

LEMMA DelinumIs ==
    ASSUME NEW t, NEW d, NEW i
    PROVE  Removal(delinum(t, d, i), t[d], d, Marked(t[d].ents, i))
<1> DEFINE n == t[d]  m == Marked(n.ents, i)
           W(es) == Write(d, WithEnts(n, es))
           C == Compacted(m, Packed(m))
           F == [k \in DOMAIN C |-> W(C[k])]
           q == delinum(t, d, i)
<1>1. F = <<W(Moved(m)), W(Packed(m))>>
  <2> DEFINE x == Moved(m)  y == Packed(m)
  <2>1. C = <<x, y>>  BY DEF Compacted, Moved
  <2> HIDE DEF C, x, y, W
  <2> DEFINE G == [k \in DOMAIN <<x, y>> |-> W(<<x, y>>[k])]
  <2>2. F = G  BY <2>1
  <2>3. DOMAIN <<x, y>> = 1 .. 2 /\ <<x, y>>[1] = x /\ <<x, y>>[2] = y  OBVIOUS
  <2>4. G[1] = W(x) /\ G[2] = W(y)  BY <2>3
  <2>5. G = <<W(x), W(y)>>
    <3>1. G = [k \in 1 .. 2 |-> W(<<x, y>>[k])]  BY <2>3
    <3>2. G = [k \in 1 .. 2 |-> G[k]]  BY <2>3
    <3>3. G \in Seq({W(x), W(y)}) /\ Len(G) = 2  BY <2>3, <2>4, <3>2
    <3> HIDE DEF G
    <3> QED  BY <2>4, <3>3
  <2> QED  BY <2>2, <2>5 DEF x, y
<1>2. <<W(m)>> \o F = Puts(n, d, m)
  <2>1. <<W(m)>> \o <<W(Moved(m)), W(Packed(m))>> = Puts(n, d, m)
    BY OneAndTwo DEF Puts
  <2> HIDE DEF F
  <2> QED  BY <1>1, <2>1, Zenon
<1>3. q = IF 1 + Deleted(n.ents) <= Len(n.ents) \div 2 THEN Plan(TRUE, "returns", <<W(m)>>)
          ELSE IF Len(Packed(m)) # Len(n.ents) - (1 + Deleted(n.ents))
               THEN Plan(FALSE, "asserts", <<W(m)>>)
          ELSE Plan(TRUE, "returns", <<W(m)>> \o F)
  BY Zenon DEF delinum, Marked, WithEnts
<1> HIDE DEF n, m, q, F
<1> QED  BY <1>2, <1>3 DEF n, m, q, Removal, OverHalf

(* Writes that only take entries out of directories.                       *)
Shrunk(n, m) ==
    /\ m \in Nodes /\ m.type = T_DIR /\ m.mode = n.mode /\ m.uid = n.uid
    /\ LiveIn(m) \subseteq LiveIn(n)
Shrinks(t, ws, u) ==
    /\ ws \in Seq(Writes)
    /\ \A k \in DOMAIN ws : \E x \in Inums :
         /\ ws[k].at = {x} /\ t[x].type = T_DIR /\ Shrunk(t[x], ws[k].to)
         /\ \A e \in Removes(t[x], ws[k].to) :
              EntitledIn(t, u, e.inum) /\ EntitledIn(t, u, x)

LEMMA ShrinksOrdered ==
    ASSUME NEW t \in Tables, EntriesIn(t), NEW ws, NEW u, Shrinks(t, ws, u)
    PROVE  Ordered(t, ws)
<1>1. \A k \in DOMAIN ws : /\ ws[k].to.type = T_DIR
                           /\ \A x \in ws[k].at : t[x].type = T_DIR
  BY DEF Shrinks, Shrunk
<1>2. Keeps(ws)  BY <1>1 DEF Keeps, T_DIR
<1>3. \A k \in DOMAIN ws : \A j \in 1 .. k - 1 : j \in DOMAIN ws
  <2>1. ws \in Seq(Writes)  BY DEF Shrinks
  <2>2. DOMAIN ws = 1 .. Len(ws) /\ Len(ws) \in Nat  BY <2>1
  <2> QED  BY <2>2
<1>4. SameKind(t, ws)  BY <1>1, <1>2, <1>3 DEF SameKind
<1>5. Founded(t, ws)
  <2> SUFFICES ASSUME NEW k \in DOMAIN ws, NEW e \in LiveIn(ws[k].to)
               PROVE  t[e.inum].type # "empty"
    BY <1>2 DEF Founded
  <2>1. PICK x \in Inums : Shrunk(t[x], ws[k].to)  BY DEF Shrinks
  <2> QED  BY <2>1 DEF Shrunk, EntriesIn
<1> QED  BY <1>2, <1>4, <1>5 DEF Ordered

LEMMA ShrinksRightful ==
    ASSUME NEW t \in Tables, NEW ws, NEW u, Shrinks(t, ws, u)
    PROVE  Rightful(t, ws, u)
<1>1. \A k \in DOMAIN ws : \A x \in ws[k].at :
        /\ Shrunk(t[x], ws[k].to)
        /\ \A e \in Removes(t[x], ws[k].to) :
             EntitledIn(t, u, e.inum) /\ EntitledIn(t, u, x)
  BY DEF Shrinks
<1>2. \A x : Stays(t, ws, x)  BY <1>1 DEF Stays, Shrunk
<1>3. \A k \in DOMAIN ws : \A j \in 1 .. k - 1 : j \in DOMAIN ws
  <2>1. ws \in Seq(Writes)  BY DEF Shrinks
  <2>2. DOMAIN ws = 1 .. Len(ws) /\ Len(ws) \in Nat  BY <2>1
  <2> QED  BY <2>2
<1>4. \A l, m, n : LiveIn(m) \subseteq LiveIn(l) => Removes(m, n) \subseteq Removes(l, n)
  BY DEF Removes, ChildrenIn
<1>5. \A k \in DOMAIN ws : \A x \in ws[k].at : \A j \in 1 .. k - 1 :
        x \in ws[j].at => Removes(ws[j].to, ws[k].to) \subseteq Removes(t[x], ws[k].to)
  BY <1>1, <1>3, <1>4 DEF Shrunk
<1>6. \A k \in DOMAIN ws : \A x \in ws[k].at : \A e \in Removes(t[x], ws[k].to) :
        Allowed(t, ws, u, e.inum) /\ Allowed(t, ws, u, x)
  BY <1>1, <1>2 DEF Allowed
<1> QED  BY <1>5, <1>6, Zenon DEF Rightful

LEMMA LiveSet ==
    ASSUME NEW n
    PROVE  LiveIn(n) = {n.ents[k] : k \in Kept(n.ents)}
BY DEF LiveIn, Kept, ToSet

LEMMA WithEntsIs ==
    ASSUME NEW n \in Nodes, n.type = T_DIR, NEW s \in Seq(Entries)
    PROVE  /\ WithEnts(n, s) \in Nodes /\ WithEnts(n, s).type = T_DIR
           /\ WithEnts(n, s).mode = n.mode /\ WithEnts(n, s).uid = n.uid
           /\ WithEnts(n, s).ents = s
BY DEF WithEnts, Nodes

Without(n, i) == {e \in LiveIn(n) : e.inum # i}

LEMMA WithoutIs ==
    ASSUME NEW n \in Nodes, n.type = T_DIR, NEW i \in Inums
    PROVE  LET m == Marked(n.ents, i)
           IN /\ m \in Seq(Entries) /\ Packed(m) \in Seq(Entries)
              /\ Moved(m) \in Seq(Entries)
              /\ LiveIn(WithEnts(n, m)) = Without(n, i)
              /\ LiveIn(WithEnts(n, Packed(m))) = Without(n, i)
              /\ LiveIn(WithEnts(n, Moved(m))) = Without(n, i)
<1> DEFINE s == n.ents  m == Marked(s, i)
<1>1. s \in Seq(Entries)  BY NodeIs
<1>2. /\ m \in Seq(Entries) /\ Kept(m) = {k \in Kept(s) : s[k].inum # i}
      /\ \A k \in Kept(m) : m[k] = s[k]
  BY <1>1, MarkedIs
<1>3. /\ Packed(m) \in Seq(Entries)
      /\ \A k \in DOMAIN Packed(m) :
           Place(m, k) \in Kept(m) /\ Packed(m)[k] = m[Place(m, k)]
      /\ \A k \in Kept(m) :
           /\ Rank(Kept(m), k) \in DOMAIN Packed(m)
           /\ Place(m, Rank(Kept(m), k)) = k
  BY <1>2, PackedIs
<1>4. /\ Moved(m) \in Seq(Entries)
      /\ \A k \in DOMAIN Packed(m) :
           k \in DOMAIN Moved(m) /\ Moved(m)[k] = Packed(m)[k]
      /\ \A k \in DOMAIN Moved(m) :
           \/ k \in DOMAIN Packed(m) /\ Moved(m)[k] = Packed(m)[k]
           \/ k \in DOMAIN m /\ Moved(m)[k] = m[k]
  BY <1>2, MovedIs
<1> HIDE DEF m
<1>5. \A x \in Seq(Entries) : LiveIn(WithEnts(n, x)) = {x[k] : k \in Kept(x)}
  BY LiveSet, WithEntsIs
<1>6. Without(n, i) = {m[k] : k \in Kept(m)}
  BY <1>2, LiveSet DEF Without
<1>7. {Packed(m)[k] : k \in Kept(Packed(m))} = {m[k] : k \in Kept(m)}
  <2>1. \A k \in Kept(m) : m[k].inum # NINODE  BY DEF Kept
  <2>2. \A k \in Kept(Packed(m)) : \E j \in Kept(m) : Packed(m)[k] = m[j]
    BY <1>3 DEF Kept
  <2>3. \A k \in Kept(m) : \E j \in Kept(Packed(m)) : Packed(m)[j] = m[k]
    BY <1>3, <2>1 DEF Kept
  <2> QED  BY <2>2, <2>3
<1>8. {Moved(m)[k] : k \in Kept(Moved(m))} = {m[k] : k \in Kept(m)}
  <2>1. \A k \in Kept(m) : m[k].inum # NINODE  BY DEF Kept
  <2>2. \A k \in Kept(Moved(m)) : \E j \in Kept(m) : Moved(m)[k] = m[j]
    BY <1>3, <1>4 DEF Kept
  <2>3. \A k \in Kept(m) : \E j \in Kept(Moved(m)) : Moved(m)[j] = m[k]
    <3> SUFFICES ASSUME NEW k \in Kept(m)
                 PROVE  \E j \in Kept(Moved(m)) : Moved(m)[j] = m[k]
      OBVIOUS
    <3> DEFINE j == Rank(Kept(m), k)
    <3>1. j \in DOMAIN Moved(m) /\ Moved(m)[j] = m[k]  BY <1>3, <1>4
    <3>2. j \in Kept(Moved(m))  BY <2>1, <3>1 DEF Kept
    <3> QED  BY <3>1, <3>2
  <2> QED  BY <2>2, <2>3
<1> QED  BY <1>2, <1>3, <1>4, <1>5, <1>6, <1>7, <1>8 DEF m

Deletes(t, ws, d, i) ==
    /\ ws \in Seq(Writes)
    /\ \A k \in DOMAIN ws :
         /\ ws[k].at = {d} /\ LiveIn(ws[k].to) = Without(t[d], i)
         /\ Shrunk(t[d], ws[k].to)
Fates == {"returns", "asserts", "null"}

LEMMA OneAlone ==
    \A a : /\ DOMAIN <<a>> = 1 .. 1 /\ <<a>>[1] = a
           /\ \A S : a \in S => <<a>> \in Seq(S)
OBVIOUS

LEMMA DelinumDeletes ==
    ASSUME NEW t \in Tables, NEW d \in Inums, t[d].type = T_DIR, NEW i \in Inums
    PROVE  Deletes(t, delinum(t, d, i).ws, d, i) /\ delinum(t, d, i).fate \in Fates
<1> DEFINE n == t[d]  m == Marked(n.ents, i)  q == delinum(t, d, i)
           W(s) == Write(d, WithEnts(n, s))
<1>1. n \in Nodes /\ n.type = T_DIR  BY DEF Tables
<1>2. Removal(q, n, d, m)  BY DelinumIs
<1>3. /\ m \in Seq(Entries) /\ Packed(m) \in Seq(Entries) /\ Moved(m) \in Seq(Entries)
      /\ LiveIn(WithEnts(n, m)) = Without(n, i)
      /\ LiveIn(WithEnts(n, Packed(m))) = Without(n, i)
      /\ LiveIn(WithEnts(n, Moved(m))) = Without(n, i)
  BY <1>1, WithoutIs
<1> HIDE DEF n, m, q
<1>4. \A s \in {m, Moved(m), Packed(m)} :
        /\ W(s) \in Writes /\ W(s).at = {d} /\ W(s).to = WithEnts(n, s)
        /\ LiveIn(W(s).to) = Without(n, i) /\ Shrunk(n, W(s).to)
  <2> SUFFICES ASSUME NEW s \in {m, Moved(m), Packed(m)}
               PROVE  /\ W(s) \in Writes /\ W(s).at = {d} /\ W(s).to = WithEnts(n, s)
                      /\ LiveIn(W(s).to) = Without(n, i) /\ Shrunk(n, W(s).to)
    OBVIOUS
  <2>1. s \in Seq(Entries) /\ LiveIn(WithEnts(n, s)) = Without(n, i)  BY <1>3
  <2> DEFINE v == WithEnts(n, s)
  <2>2. v \in Nodes /\ v.type = T_DIR /\ v.mode = n.mode /\ v.uid = n.uid
    BY <1>1, <2>1, WithEntsIs
  <2>3. LiveIn(v) = Without(n, i)  BY <2>1
  <2> HIDE DEF v
  <2>4. Write(d, v) \in Writes /\ Write(d, v).at = {d} /\ Write(d, v).to = v
    BY <2>2 DEF Write, Writes
  <2>5. Shrunk(n, v)  BY <2>2, <2>3 DEF Shrunk, Without
  <2> QED  BY <2>3, <2>4, <2>5 DEF v
<1>5. q.ws = <<W(m)>> \/ q.ws = <<W(m), W(Moved(m)), W(Packed(m))>>
  BY <1>2 DEF Removal, Plan, Puts
<1>6. q.fate \in Fates  BY <1>2 DEF Removal, Plan, Fates
<1>7. /\ q.ws \in Seq(Writes)
      /\ \A k \in DOMAIN q.ws : q.ws[k] \in {W(m), W(Moved(m)), W(Packed(m))}
  <2> DEFINE a == W(m)  b == W(Moved(m))  c == W(Packed(m))
  <2>1. a \in Writes /\ b \in Writes /\ c \in Writes  BY <1>4
  <2>2. q.ws = <<a>> \/ q.ws = <<a, b, c>>  BY <1>5
  <2> HIDE DEF a, b, c, W
  <2>3. CASE q.ws = <<a>>  BY <2>1, <2>3 DEF a, b, c
  <2>4. CASE q.ws = <<a, b, c>>
    <3>1. /\ <<a, b, c>> \in Seq(Writes)
          /\ \A k \in DOMAIN <<a, b, c>> : <<a, b, c>>[k] \in {a, b, c}
      BY <2>1
    <3> QED  BY <2>4, <3>1 DEF a, b, c
  <2> QED  BY <2>2, <2>3, <2>4
<1> HIDE DEF W
<1>8. Deletes(t, q.ws, d, i)  BY <1>4, <1>7 DEF Deletes, n
<1> QED  BY <1>6, <1>8 DEF q

LEMMA CanWrite ==
    ASSUME NEW t, NEW u, NEW i,
           Can(t, u, i, RW) \/ Can(t, u, i, {"W"})
    PROVE  EntitledIn(t, u, i)
BY DEF Can, EntitledIn, RW

Clean(t, q, u) == Shrinks(t, q.ws, u) /\ q.fate \in Fates

LEMMA RefusedClean ==
    ASSUME NEW t, NEW u
    PROVE  Clean(t, Refused, u)
<1>1. Refused.ws = <<>> /\ Refused.fate = "returns"  BY DEF Refused, Plan
<1> QED  BY <1>1 DEF Clean, Shrinks, Fates

LEMMA DeletesShrinks ==
    ASSUME NEW t, NEW ws, NEW d \in Inums, NEW i, NEW u, t[d].type = T_DIR,
           Deletes(t, ws, d, i), EntitledIn(t, u, i), EntitledIn(t, u, d)
    PROVE  Shrinks(t, ws, u)
<1>1. \A k \in DOMAIN ws : \A e \in Removes(t[d], ws[k].to) : e.inum = i
  BY DEF Deletes, Removes, ChildrenIn, Without
<1> QED  BY <1>1 DEF Deletes, Shrinks

LEMMA RmClean ==
    ASSUME NEW t \in Tables, NEW name, NEW d \in Inums, t[d].type = T_DIR, NEW u
    PROVE  Clean(t, rm(t, name, d, u), u)
<1> DEFINE i == findinum(t, d, name)  q == rm(t, name, d, u)
<1>1. \/ q = Refused
      \/ /\ i # NINODE /\ q = delinum(t, d, i)
         /\ Can(t, u, i, {"W"}) /\ Can(t, u, d, RW)
  BY DEF rm
<1>2. i # NINODE => i \in Inums  BY FindIs
<1> HIDE DEF i, q
<1>3. CASE q = Refused  BY <1>3, RefusedClean DEF q
<1>4. CASE /\ i # NINODE /\ q = delinum(t, d, i)
           /\ Can(t, u, i, {"W"}) /\ Can(t, u, d, RW)
  <2>1. Deletes(t, q.ws, d, i) /\ q.fate \in Fates  BY <1>2, <1>4, DelinumDeletes
  <2>2. Shrinks(t, q.ws, u)  BY <1>4, <2>1, CanWrite, DeletesShrinks
  <2> QED  BY <2>1, <2>2 DEF Clean, q
<1> QED  BY <1>1, <1>3, <1>4

(* cmd_rmdir: the two sorts of writes, the second made for what the first  *)
(* leaves.                                                                 *)
Clear(t, i) == Write(i, WithEnts(t[i], <<>>))

LEMMA RmdirIs ==
    ASSUME NEW t, NEW name, NEW d, NEW u
    PROVE  \/ rmdir(t, name, d, u) = Refused
           \/ LET i == findinum(t, d, name)
                  rest == delinum(Apply(t, Clear(t, i)), d, i)
              IN /\ i # NINODE /\ t[i].type = T_DIR /\ Can(t, u, i, RW)
                 /\ Can(t, u, d, RW) /\ Vacant(t, i)
                 /\ rmdir(t, name, d, u)
                      = [rest EXCEPT !.ws = <<Clear(t, i)>> \o @]
BY DEF rmdir, Clear, WithEnts

LEMMA ClearIs ==
    ASSUME NEW t \in Tables, NEW i \in Inums, t[i].type = T_DIR
    PROVE  /\ Clear(t, i) \in Writes /\ Clear(t, i).at = {i}
           /\ Shrunk(t[i], Clear(t, i).to) /\ LiveIn(Clear(t, i).to) = {}
           /\ Apply(t, Clear(t, i)) \in Tables
           /\ Apply(t, Clear(t, i))[i] = Clear(t, i).to
           /\ \A x \in Inums \ {i} : Apply(t, Clear(t, i))[x] = t[x]
<1> DEFINE n == t[i]  v == WithEnts(n, <<>>)  w == Clear(t, i)
<1>1. n \in Nodes /\ n.type = T_DIR  BY DEF Tables
<1>2. <<>> \in Seq(Entries)  OBVIOUS
<1>3. /\ v \in Nodes /\ v.type = T_DIR /\ v.mode = n.mode /\ v.uid = n.uid
      /\ v.ents = <<>>
  BY <1>1, <1>2, WithEntsIs
<1>4. w = Write(i, v)  BY DEF Clear
<1> HIDE DEF v, w
<1>5. w \in Writes /\ w.at = {i} /\ w.to = v  BY <1>3, <1>4 DEF Write, Writes
<1>6. LiveIn(v) = {}  BY <1>3 DEF LiveIn, ToSet
<1>7. Shrunk(n, v)  BY <1>3, <1>6 DEF Shrunk
<1>8. /\ Apply(t, w) \in Tables
      /\ \A x \in Inums : Apply(t, w)[x] = IF x \in w.at THEN w.to ELSE t[x]
  BY <1>5, ApplyTyped
<1> QED  BY <1>5, <1>6, <1>7, <1>8 DEF w

LEMMA ConsIs ==
    ASSUME NEW a \in Writes, NEW b \in Seq(Writes)
    PROVE  /\ <<a>> \o b \in Seq(Writes)
           /\ \A k \in DOMAIN (<<a>> \o b) :
                \/ (<<a>> \o b)[k] = a
                \/ \E l \in DOMAIN b : (<<a>> \o b)[k] = b[l]
<1> DEFINE h == <<a>>
<1>1. h \in Seq(Writes) /\ \A k \in DOMAIN h : h[k] = a  OBVIOUS
<1> HIDE DEF h
<1>2. h \o b \in Seq(Writes) /\ \A k \in DOMAIN h : (h \o b)[k] = h[k]
  BY <1>1, ChainIs
<1>3. \A k \in DOMAIN b : (h \o b)[Len(h) + k] = b[k]
  BY <1>1, ChainIs
<1>4. \A k \in DOMAIN (h \o b) : k \in DOMAIN h \/ \E l \in DOMAIN b : k = Len(h) + l
  BY <1>1, ChainIs
<1> QED  BY <1>1, <1>2, <1>3, <1>4 DEF h

LEMMA RmdirClean ==
    ASSUME NEW t \in Tables, NEW name, NEW d \in Inums, t[d].type = T_DIR, NEW u
    PROVE  Clean(t, rmdir(t, name, d, u), u)
<1> DEFINE i == findinum(t, d, name)  c == Clear(t, i)  t2 == Apply(t, c)
           rest == delinum(t2, d, i)
<1>1. CASE rmdir(t, name, d, u) = Refused  BY <1>1, RefusedClean
<1>2. CASE /\ i # NINODE /\ t[i].type = T_DIR /\ Can(t, u, i, RW)
           /\ Can(t, u, d, RW) /\ Vacant(t, i)
           /\ rmdir(t, name, d, u) = [rest EXCEPT !.ws = <<c>> \o @]
  <2>1. i \in Inums  BY <1>2, FindIs
  <2>2. /\ c \in Writes /\ c.at = {i} /\ Shrunk(t[i], c.to) /\ LiveIn(c.to) = {}
        /\ t2 \in Tables /\ t2[i] = c.to
        /\ \A x \in Inums \ {i} : t2[x] = t[x]
    <3> HIDE DEF i
    <3> QED  BY <1>2, <2>1, ClearIs
  <2>3. t2[d].type = T_DIR
    <3> HIDE DEF c, t2, i
    <3> QED  BY <2>2 DEF Shrunk
  <2>4. Deletes(t2, rest.ws, d, i) /\ rest.fate \in Fates
    <3> HIDE DEF c, t2, i
    <3> QED  BY <2>1, <2>2, <2>3, DelinumDeletes
  <2>5. /\ [rest EXCEPT !.ws = <<c>> \o @].ws = <<c>> \o rest.ws
        /\ [rest EXCEPT !.ws = <<c>> \o @].fate = rest.fate
    <3>1. \E ok, fate, ws : rest = Plan(ok, fate, ws)
      <4>1. Removal(rest, t2[d], d, Marked(t2[d].ents, i))  BY DelinumIs
      <4> HIDE DEF rest, t2, i
      <4> QED  BY <4>1 DEF Removal
    <3> HIDE DEF rest, c
    <3> QED  BY <3>1 DEF Plan
  <2> DEFINE q == rmdir(t, name, d, u)
  <2>6. q.ws = <<c>> \o rest.ws /\ q.fate = rest.fate  BY <1>2, <2>5
  <2>7. /\ EntitledIn(t, u, i) /\ EntitledIn(t, u, d)
        /\ ChildrenIn(t[i]) = {}
    BY <1>2, CanWrite DEF Vacant, Live, ChildrenIn, LiveIn
  <2> HIDE DEF q, rest, t2, c, i
  <2>8. rest.ws \in Seq(Writes)  BY <2>4 DEF Deletes
  <2>9. Shrunk(t[i], c.to) /\ Removes(t[i], c.to) = {}
    BY <2>2, <2>7 DEF Removes
  <2>10. \A k \in DOMAIN rest.ws :
           /\ rest.ws[k].at = {d} /\ Shrunk(t[d], rest.ws[k].to)
           /\ \A e \in Removes(t[d], rest.ws[k].to) : e.inum = i
    <3> SUFFICES ASSUME NEW k \in DOMAIN rest.ws
                 PROVE  /\ rest.ws[k].at = {d} /\ Shrunk(t[d], rest.ws[k].to)
                        /\ \A e \in Removes(t[d], rest.ws[k].to) : e.inum = i
      OBVIOUS
    <3> DEFINE n == rest.ws[k].to
    <3>1. /\ rest.ws[k].at = {d} /\ LiveIn(n) = Without(t2[d], i)
          /\ Shrunk(t2[d], n)
      BY <2>4 DEF Deletes
    <3> HIDE DEF n
    <3>2. CASE d = i
      <4>1. Shrunk(t[d], n)  BY <2>2, <3>1, <3>2 DEF Shrunk
      <4>2. Removes(t[d], n) = {}  BY <2>7, <3>2 DEF Removes
      <4> QED  BY <3>1, <4>1, <4>2 DEF n
    <3>3. CASE d # i
      <4>1. t2[d] = t[d]  BY <2>2, <3>3
      <4>2. \A e \in Removes(t[d], n) : e.inum = i
        BY <3>1, <4>1 DEF Removes, ChildrenIn, Without
      <4> QED  BY <3>1, <4>1, <4>2 DEF n
    <3> QED  BY <3>2, <3>3
  <2>11. Shrinks(t, <<c>> \o rest.ws, u)
    <3> DEFINE r == rest.ws  s == <<c>> \o r
    <3>1. /\ s \in Seq(Writes)
          /\ \A k \in DOMAIN s : s[k] = c \/ \E l \in DOMAIN r : s[k] = r[l]
      BY <2>2, <2>8, ConsIs
    <3> HIDE DEF s, r
    <3>2. \A l \in DOMAIN r :
            /\ r[l].at = {d} /\ Shrunk(t[d], r[l].to)
            /\ \A e \in Removes(t[d], r[l].to) :
                 EntitledIn(t, u, e.inum) /\ EntitledIn(t, u, d)
      BY <2>7, <2>10 DEF r
    <3>3. /\ c.at = {i} /\ t[i].type = T_DIR /\ Shrunk(t[i], c.to)
          /\ \A e \in Removes(t[i], c.to) :
               EntitledIn(t, u, e.inum) /\ EntitledIn(t, u, i)
      BY <1>2, <2>2, <2>9
    <3>4. \A k \in DOMAIN s : \E x \in Inums :
            /\ s[k].at = {x} /\ t[x].type = T_DIR /\ Shrunk(t[x], s[k].to)
            /\ \A e \in Removes(t[x], s[k].to) :
                 EntitledIn(t, u, e.inum) /\ EntitledIn(t, u, x)
      <4> TAKE k \in DOMAIN s
      <4>1. CASE s[k] = c  BY <2>1, <3>3, <4>1
      <4>2. CASE \E l \in DOMAIN r : s[k] = r[l]
        <5>1. PICK l \in DOMAIN r : s[k] = r[l]  BY <4>2
        <5> QED  BY <2>1, <3>2, <5>1
      <4> QED  BY <3>1, <4>1, <4>2
    <3>5. Shrinks(t, s, u)  BY <3>1, <3>4 DEF Shrinks
    <3> QED  BY <3>5 DEF s, r
  <2> QED  BY <2>4, <2>6, <2>11 DEF Clean, q
<1> QED  BY <1>1, <1>2, RmdirIs

LEMMA GrowsRightful ==
    ASSUME NEW t, NEW ws, Planned(t, ws), NEW u
    PROVE  Rightful(t, ws, u)
BY DEF Planned, Grows, Rightful

LEMMA AfterBecomes ==
    ASSUME NEW t \in Tables, NEW ws \in Seq(Writes), Ordered(t, ws),
           NEW x \in Inums, Becomes(t, ws, x)
    PROVE  After(t, ws)[x].type = T_DIR
<1> DEFINE a == After(t, ws)
<1>1. /\ Untouched(ws, x) => a[x] = t[x]
      /\ \/ Untouched(ws, x)
         \/ \E k \in DOMAIN ws : LastAt(ws, k, x) /\ a[x] = ws[k].to
  BY AfterIs
<1>2. DOMAIN ws = 1 .. Len(ws) /\ Len(ws) \in Nat  OBVIOUS
<1> HIDE DEF a
<1>3. CASE Untouched(ws, x)
  BY <1>1, <1>3 DEF Becomes, Makes, Untouched, a
<1>4. CASE \E k \in DOMAIN ws : LastAt(ws, k, x) /\ a[x] = ws[k].to
  <2>1. PICK k \in DOMAIN ws : LastAt(ws, k, x) /\ a[x] = ws[k].to  BY <1>4
  <2>2. x \in ws[k].at /\ \A j \in DOMAIN ws : x \in ws[j].at => j <= k
    BY <2>1 DEF LastAt
  <2>3. CASE t[x].type = T_DIR
    <3>1. ws[k].to.type # "empty"  BY DEF Ordered, Keeps
    <3>2. t[x].type \in {"empty", ws[k].to.type}
      BY <2>2, <2>3, <3>1 DEF Ordered, SameKind
    <3> QED  BY <2>1, <2>3, <3>2 DEF T_DIR, a
  <2>4. CASE \E l \in DOMAIN ws : Makes(ws, l, x, T_DIR)
    <3>1. PICK l \in DOMAIN ws : x \in ws[l].at /\ ws[l].to.type = T_DIR
      BY <2>4 DEF Makes
    <3>2. l <= k  BY <2>2, <3>1
    <3>3. CASE l = k  BY <2>1, <3>1, <3>3 DEF a
    <3>4. CASE l # k
      <4>1. l \in 1 .. k - 1  BY <1>2, <3>2, <3>4
      <4>2. ws[k].to.type # "empty"  BY DEF Ordered, Keeps
      <4>3. ws[l].to.type \in {"empty", ws[k].to.type}
        BY <2>2, <3>1, <4>1, <4>2 DEF Ordered, SameKind
      <4> QED  BY <2>1, <3>1, <4>3 DEF T_DIR, a
    <3> QED  BY <3>3, <3>4
  <2> QED  BY <2>3, <2>4 DEF Becomes
<1> QED  BY <1>1, <1>3, <1>4

(* cmd_f.  The blocks of the table hold all of its inodes.                 *)
LEMMA DivIs ==
    ASSUME NEW b \in Nat \ {0}, NEW a \in Nat
    PROVE  a \div b \in Nat /\ b * (a \div b) <= a /\ a < b * (a \div b) + b
<1>1. a \div b \in Int /\ a = b * (a \div b) + (a % b) /\ a % b \in 0 .. b - 1
  OBVIOUS
<1>2. a \div b >= 0
  <2>1. SUFFICES ASSUME a \div b <= -1 PROVE FALSE  BY <1>1
  <2> DEFINE q == a \div b
  <2>2. q \in Int /\ q <= -1 /\ a = b * q + (a % b) BY <1>1, <2>1
  <2> HIDE DEF q
  <2>3. b * q <= b * (-1)  BY <2>2
  <2> QED  BY <1>1, <2>2, <2>3
<1> QED  BY <1>1, <1>2

LEMMA DivMono ==
    ASSUME NEW b \in Nat \ {0}, NEW i \in Nat, NEW j \in Nat, i <= j
    PROVE  i \div b <= j \div b
<1> DEFINE p == i \div b  q == j \div b
<1>1. p \in Nat /\ q \in Nat /\ b * p <= i /\ j < b * q + b  BY DivIs
<1> HIDE DEF p, q
<1>2. SUFFICES ASSUME p >= q + 1 PROVE FALSE  BY <1>1 DEF p, q
<1>3. b * p >= b * (q + 1)  BY <1>1, <1>2
<1>4. b * (q + 1) = b * q + b  BY <1>1
<1> QED  BY <1>1, <1>3, <1>4

LEMMA BlocksOf ==
    ASSUME NEW b \in Nat \ {0}, NEW n \in Nat \ {0}
    PROVE  /\ (n + b - 1) \div b \in Nat \ {0}
           /\ \A i \in 0 .. n - 1 : i \div b + 1 \in 1 .. (n + b - 1) \div b
<1>1. (n + b - 1) \div b \in Nat /\ n + b - 1 \in Nat  BY DivIs
<1>2. (n + b - 1) \div b = (n - 1) \div b + 1
  <2> DEFINE p == (n - 1) \div b  q == (n + b - 1) \div b
  <2>1. p \in Nat /\ b * p <= n - 1 /\ n - 1 < b * p + b  BY DivIs
  <2>2. q \in Nat /\ b * q <= n + b - 1 /\ n + b - 1 < b * q + b  BY DivIs
  <2> HIDE DEF p, q
  <2>3. b * (p + 1) = b * p + b /\ b * (q + 1) = b * q + b  BY <2>1, <2>2
  <2>4. ~(q >= p + 2)
    <3>1. SUFFICES ASSUME q >= p + 2 PROVE FALSE  OBVIOUS
    <3>2. b * q >= b * (p + 2)  BY <2>1, <2>2, <3>1
    <3>3. b * (p + 2) = b * p + b + b  BY <2>1
    <3> QED  BY <2>1, <2>2, <3>2, <3>3
  <2>5. ~(q <= p)
    <3>1. SUFFICES ASSUME q <= p PROVE FALSE  OBVIOUS
    <3>2. b * q <= b * p  BY <2>1, <2>2, <3>1
    <3> QED  BY <2>1, <2>2, <3>2
  <2> QED  BY <2>1, <2>2, <2>4, <2>5 DEF p, q
<1>3. ASSUME NEW i \in 0 .. n - 1
      PROVE  i \div b \in Nat /\ i \div b <= (n - 1) \div b
  BY DivIs, DivMono
<1> QED  BY <1>1, <1>2, <1>3

LEMMA FormattedIs ==
    /\ Formatted \in Tables /\ EntriesIn(Formatted) /\ Empty \in Nodes
    /\ \A x \in Inums : Formatted[x] = Empty /\ Formatted[x].type = "empty"
<1>1. Empty \in Nodes /\ Empty.type = "empty" /\ Empty.ents = <<>>
  <2>1. <<>> \in Seq(Entries)  OBVIOUS
  <2> QED  BY <2>1 DEF Empty, Nodes, Types, T_DIR
<1>2. LiveIn(Empty) = {}  BY <1>1 DEF LiveIn, ToSet
<1> QED  BY <1>1, <1>2 DEF Formatted, Tables, EntriesIn

(* The clearing empties any table.                                         *)
LEMMA ClearingIs ==
    /\ Clearing \in Seq(Writes) /\ Clearing # <<>>
    /\ \A t \in Tables : After(t, Clearing) = Formatted
<1> DEFINE n == (NINODE + IPB - 1) \div IPB  c == Clearing
           at(k) == {i \in Inums : i \div IPB = k - 1}
<1>1. n \in Nat \ {0} /\ \A i \in Inums : i \div IPB + 1 \in 1 .. n
  <2>1. IPB \in Nat \ {0} /\ NINODE \in Nat \ {0}  BY FsTreeAssumption
  <2> QED  BY <2>1, BlocksOf DEF Inums
<1>2. c = [k \in 1 .. n |-> [at |-> at(k), to |-> Empty]]  BY DEF Clearing
<1>3. \A k \in 1 .. n : [at |-> at(k), to |-> Empty] \in Writes
  BY FormattedIs DEF Writes
<1> HIDE DEF n, c
<1>4. c \in Seq(Writes) /\ Len(c) = n /\ DOMAIN c = 1 .. n
  BY <1>1, <1>2, <1>3
<1>5. c # <<>>  BY <1>1, <1>4
<1>6. \A k \in DOMAIN c : c[k].to = Empty /\ c[k].at = at(k)
  BY <1>2, <1>4
<1>7. ASSUME NEW t \in Tables PROVE After(t, c) = Formatted
  <2> DEFINE a == After(t, c)
  <2>1. a \in Tables  BY <1>4, AfterTyped
  <2>2. ASSUME NEW i \in Inums PROVE a[i] = Empty
    <3>1. /\ \/ Untouched(c, i)
             \/ \E k \in DOMAIN c : LastAt(c, k, i) /\ a[i] = c[k].to
      BY <1>4, AfterIs
    <3>2. PICK k \in DOMAIN c : k = i \div IPB + 1  BY <1>1, <1>4
    <3>3. k - 1 = i \div IPB
      <4>1. i \div IPB \in Nat
        <5>1. i \in Nat /\ IPB \in Nat \ {0}  BY FsTreeAssumption DEF Inums
        <5> QED  BY <5>1, DivIs
      <4> QED  BY <3>2, <4>1
    <3>4. i \in c[k].at  BY <1>6, <3>3
    <3>5. ~Untouched(c, i)  BY <3>4 DEF Untouched
    <3> QED  BY <1>6, <3>1, <3>5
  <2> HIDE DEF a
  <2>3. a = Formatted  BY <2>1, <2>2, FormattedIs DEF Tables
  <2> QED  BY <2>3 DEF a
<1> QED  BY <1>4, <1>5, <1>7 DEF c

RootWrites == <<Write(0, Blank(T_DIR)), Write(0, Made(T_DIR, 0, 0, 0, Open))>>

LEMMA RootIs == Root.ws = RootWrites
<1>1. Unused(Formatted) = Inums /\ 0 \in Inums
  BY FormattedIs, NinodeIs DEF Unused, Inums
<1> DEFINE i == CHOOSE x \in Unused(Formatted) : \A y \in Unused(Formatted) : x <= y
<1>2. i = 0
  <2>1. i \in Unused(Formatted) /\ \A y \in Unused(Formatted) : i <= y
    BY <1>1, FirstUnused
  <2> HIDE DEF i
  <2> QED  BY <1>1, <2>1, NinodeIs DEF Inums
<1>3. Root = Plan(TRUE, "returns", Linked(<<Write(i, Blank(T_DIR)),
                                            Write(i, Made(T_DIR, i, 0, 0, Open))>>, <<>>))
  BY <1>1, <1>2 DEF Root, icreate, Blank, Made
<1> HIDE DEF i
<1>4. Root.ws = RootWrites \o <<>>
  BY <1>2, <1>3 DEF Plan, Linked, RootWrites
<1>5. RootWrites \in Seq({RootWrites[1], RootWrites[2]})  BY DEF RootWrites
<1>6. RootWrites \o <<>> = RootWrites  BY <1>5, ConcatEmptySeq
<1> QED  BY <1>4, <1>6

LEMMA RootPlanned ==
    /\ Planned(Formatted, RootWrites) /\ Becomes(Formatted, RootWrites, 0)
    /\ 0 \in Inums
<1> DEFINE ws == RootWrites  b == Blank(T_DIR)  m == Made(T_DIR, 0, 0, 0, Open)
           t == Formatted
<1>1. 0 \in Inums  BY NinodeIs DEF Inums
<1>2. b \in Nodes /\ b.type = T_DIR /\ LiveIn(b) = {}
  <2>1. <<>> \in Seq(Entries)  OBVIOUS
  <2>2. b \in Nodes /\ b.type = T_DIR
    BY <2>1 DEF Blank, Empty, Nodes, Types, T_DIR
  <2> QED  BY <2>2, EntriesOf DEF LiveIn
<1>3. m \in Nodes /\ m.type = T_DIR /\ \A e \in LiveIn(m) : e.inum = 0
  <2>1. Dots(T_DIR, 0, 0) \in Seq(Entries)
    <3>1. Entry(".", 0) \in Entries /\ Entry("..", 0) \in Entries
      BY NinodeIs DEF Entry, Entries, Labels
    <3> QED  BY <3>1 DEF Dots
  <2>2. m \in Nodes /\ m.type = T_DIR
    BY <2>1, FsTreeAssumption DEF Made, Nodes, Types
  <2>3. ToSet(m.ents) = {Entry(".", 0), Entry("..", 0)}  BY EntriesOf
  <2> QED  BY <2>2, <2>3 DEF LiveIn, Entry
<1> HIDE DEF b, m
<1>4. /\ Write(0, b) \in Writes /\ Write(0, m) \in Writes
      /\ Write(0, b).at = {0} /\ Write(0, b).to = b
      /\ Write(0, m).at = {0} /\ Write(0, m).to = m
  BY <1>1, <1>2, <1>3 DEF Write, Writes
<1>5. ws = <<Write(0, b), Write(0, m)>>  BY DEF RootWrites, b, m
<1>6. ws \in Seq(Writes) /\ DOMAIN ws = 1 .. 2 /\ ws[1] = Write(0, b) /\ ws[2] = Write(0, m)
  BY <1>4, <1>5
<1> HIDE DEF ws, t
<1>7. \A k \in DOMAIN ws : \/ k = 1 /\ ws[k].at = {0} /\ ws[k].to = b
                           \/ k = 2 /\ ws[k].at = {0} /\ ws[k].to = m
  BY <1>4, <1>6
<1>8. \A x \in Inums : t[x].type = "empty" /\ ChildrenIn(t[x]) = {}
  BY FormattedIs DEF t, ChildrenIn, LiveIn, Empty, ToSet
<1>9. Keeps(ws)  BY <1>2, <1>3, <1>7 DEF Keeps, T_DIR
<1>10. SameKind(t, ws)
  <2> SUFFICES ASSUME NEW k \in DOMAIN ws, NEW x \in ws[k].at
               PROVE  /\ t[x].type = "empty"
                      /\ \A j \in 1 .. k - 1 : ws[j].to.type = ws[k].to.type
    BY DEF SameKind
  <2>1. \A j \in 1 .. k - 1 : j = 1 /\ k = 2  BY <1>7
  <2> QED  BY <1>1, <1>2, <1>3, <1>4, <1>6, <1>7, <1>8, <2>1
<1>11. Founded(t, ws)
  <2> SUFFICES ASSUME NEW k \in DOMAIN ws, NEW e \in LiveIn(ws[k].to)
               PROVE  \E j \in 1 .. k - 1 : e.inum \in ws[j].at /\ ws[j].to.type # "empty"
    BY DEF Founded
  <2>1. k = 2 /\ e.inum = 0  BY <1>2, <1>3, <1>7
  <2>2. 1 \in 1 .. k - 1  BY <2>1
  <2> QED  BY <1>2, <1>4, <1>6, <2>1, <2>2 DEF T_DIR
<1>12. Grows(t, ws)
  <2> SUFFICES ASSUME NEW k \in DOMAIN ws, NEW d \in ws[k].at
               PROVE  /\ Removes(t[d], ws[k].to) = {}
                      /\ \A j \in 1 .. k - 1 : Removes(ws[j].to, ws[k].to) = {}
    BY DEF Grows
  <2>1. \A j \in 1 .. k - 1 : j = 1 /\ k = 2  BY <1>7
  <2>2. \A n : Removes(b, n) = {}  BY <1>2 DEF Removes, ChildrenIn
  <2>3. Removes(t[d], ws[k].to) = {}  BY <1>1, <1>7, <1>8 DEF Removes
  <2> QED  BY <1>4, <1>6, <2>1, <2>2, <2>3
<1>13. Becomes(t, ws, 0)
  <2>1. Makes(ws, 1, 0, T_DIR) /\ 1 \in DOMAIN ws  BY <1>2, <1>4, <1>6 DEF Makes
  <2> QED  BY <2>1 DEF Becomes
<1> QED  BY <1>1, <1>6, <1>9, <1>10, <1>11, <1>12, <1>13 DEF Planned, Ordered, ws, t

(* What a format writes into the cleared table.                            *)
LEMMA FoundingIs ==
    /\ Founding \in Seq(Writes) /\ Ordered(Formatted, Founding)
    /\ Becomes(Formatted, Founding, 0)
    /\ Homes.to \in Inums /\ Becomes(Formatted, Founding, Homes.to)
<1> DEFINE r == RootWrites  t0 == After(Formatted, r)  h == to_home(t0, 1, 0)
           b == r \o h.p1.ws
<1>1. /\ Planned(Formatted, r) /\ Becomes(Formatted, r, 0) /\ 0 \in Inums
      /\ r \in Seq(Writes) /\ Ordered(Formatted, r)
  BY RootPlanned DEF Planned
<1>2. Homes = h /\ Founding = b  BY RootIs DEF Homes, Founding
<1> HIDE DEF r
<1>3. t0 \in Tables /\ EntriesIn(t0)  BY <1>1, FormattedIs, AfterTyped, AfterSound
<1>4. t0[0].type = T_DIR  BY <1>1, FormattedIs, AfterBecomes
<1> HIDE DEF t0
<1>5. /\ Good(t0, h.p1) /\ h.to \in Inums
      /\ Becomes(t0, h.p1.ws, h.to)
  <2>1. t0[0].type # T_FILE  BY <1>4 DEF T_DIR, T_FILE
  <2> QED  BY <1>1, <1>3, <1>4, <2>1, ToHomeGood, FsTreeAssumption
<1> HIDE DEF h
<1>6. Planned(t0, h.p1.ws) /\ h.p1.ws \in Seq(Writes)  BY <1>5 DEF Good, Planned
<1>7. Planned(Formatted, b)
  BY <1>1, <1>6, FormattedIs, ChainPlanned DEF t0
<1>8. Becomes(Formatted, b, 0)  BY <1>1, <1>6, BecomesLonger
<1>9. Becomes(Formatted, b, h.to)
  <2>1. CASE t0[h.to].type = T_DIR
    <3>1. Becomes(Formatted, r, h.to)
      BY <1>1, <1>5, <2>1, FormattedIs, BecomesAfter DEF t0
    <3> QED  BY <1>1, <1>6, <3>1, BecomesLonger
  <2>2. CASE \E k \in DOMAIN h.p1.ws : Makes(h.p1.ws, k, h.to, T_DIR)
    <3>1. PICK k \in DOMAIN h.p1.ws : Makes(h.p1.ws, k, h.to, T_DIR)  BY <2>2
    <3>2. Len(r) + k \in DOMAIN b /\ b[Len(r) + k] = h.p1.ws[k]
      BY <1>1, <1>6, ChainIs
    <3> HIDE DEF b
    <3>3. Makes(b, Len(r) + k, h.to, T_DIR)  BY <3>1, <3>2 DEF Makes
    <3> QED  BY <3>2, <3>3 DEF Becomes
  <2> QED  BY <1>5, <2>1, <2>2 DEF Becomes
<1> HIDE DEF b
<1> QED  BY <1>2, <1>5, <1>7, <1>8, <1>9 DEF Planned

-----------------------------------------------------------------------------
(* The shape of the tree.  Tables left by writes made one after another.   *)
LEMMA AfterOne ==
    ASSUME NEW t \in Tables, NEW w \in Writes
    PROVE  After(t, <<w>>) = Apply(t, w)
<1> DEFINE ws == <<w>>  a == After(t, ws)
<1>1. ws \in Seq(Writes) /\ DOMAIN ws = 1 .. 1 /\ ws[1] = w  OBVIOUS
<1> HIDE DEF ws
<1>2. a \in Tables  BY <1>1, AfterTyped
<1>3. /\ Apply(t, w) \in Tables
      /\ \A x \in Inums : Apply(t, w)[x] = IF x \in w.at THEN w.to ELSE t[x]
  BY ApplyTyped
<1>4. \A x \in Inums : a[x] = IF x \in w.at THEN w.to ELSE t[x]
  <2> SUFFICES ASSUME NEW x \in Inums
               PROVE  a[x] = IF x \in w.at THEN w.to ELSE t[x]
    OBVIOUS
  <2>1. /\ Untouched(ws, x) => a[x] = t[x]
        /\ \A k \in DOMAIN ws : LastAt(ws, k, x) => a[x] = ws[k].to
    BY <1>1, AfterIs
  <2> HIDE DEF a
  <2>2. x \in w.at => LastAt(ws, 1, x)  BY <1>1 DEF LastAt
  <2>3. x \notin w.at => Untouched(ws, x)  BY <1>1 DEF Untouched
  <2> QED  BY <1>1, <2>1, <2>2, <2>3
<1> HIDE DEF a
<1>5. a = Apply(t, w)  BY <1>2, <1>3, <1>4 DEF Tables
<1> QED  BY <1>5 DEF a, ws

LEMMA AfterChain ==
    ASSUME NEW t \in Tables, NEW a \in Seq(Writes), NEW b \in Seq(Writes)
    PROVE  After(t, a \o b) = After(After(t, a), b)
<1> DEFINE c == a \o b  n == Len(a)  t2 == After(t, a)  l == After(t, c)
           r == After(t2, b)
<1>1. /\ c \in Seq(Writes)
      /\ \A k \in DOMAIN a : k \in DOMAIN c /\ c[k] = a[k]
      /\ \A k \in DOMAIN b : n + k \in DOMAIN c /\ c[n + k] = b[k]
      /\ \A k \in DOMAIN c : k \in DOMAIN a \/ \E j \in DOMAIN b : k = n + j
      /\ n \in Nat /\ DOMAIN a = 1 .. n /\ DOMAIN b \subseteq Nat \ {0}
  BY ChainIs
<1>2. t2 \in Tables  BY AfterTyped
<1> HIDE DEF c, n, t2
<1>3. l \in Tables /\ r \in Tables  BY <1>1, <1>2, AfterTyped
<1>4. ASSUME NEW x \in Inums PROVE l[x] = r[x]
  <2>1. /\ Untouched(c, x) => l[x] = t[x]
        /\ \A k \in DOMAIN c : LastAt(c, k, x) => l[x] = c[k].to
    BY <1>1, AfterIs
  <2>2. /\ Untouched(b, x) => r[x] = t2[x]
        /\ \/ Untouched(b, x)
           \/ \E k \in DOMAIN b : LastAt(b, k, x) /\ r[x] = b[k].to
    BY <1>2, AfterIs
  <2>3. /\ Untouched(a, x) => t2[x] = t[x]
        /\ \/ Untouched(a, x)
           \/ \E k \in DOMAIN a : LastAt(a, k, x) /\ t2[x] = a[k].to
    BY AfterIs DEF t2
  <2> HIDE DEF l, r
  <2>4. CASE ~Untouched(b, x)
    <3>1. PICK k \in DOMAIN b : LastAt(b, k, x) /\ r[x] = b[k].to  BY <2>2, <2>4
    <3>2. /\ x \in b[k].at /\ \A j \in DOMAIN b : x \in b[j].at => j <= k
          /\ k \in Nat \ {0}
      BY <1>1, <3>1 DEF LastAt
    <3>3. n + k \in DOMAIN c /\ c[n + k] = b[k]  BY <1>1
    <3>4. ASSUME NEW j \in DOMAIN c, x \in c[j].at PROVE j <= n + k
      <4>1. CASE j \in DOMAIN a  BY <1>1, <3>2, <4>1
      <4>2. CASE \E i \in DOMAIN b : j = n + i
        <5>1. PICK i \in DOMAIN b : j = n + i  BY <4>2
        <5>2. i <= k /\ i \in Nat  BY <1>1, <3>2, <3>4, <5>1
        <5> QED  BY <1>1, <3>2, <5>1, <5>2
      <4> QED  BY <1>1, <4>1, <4>2
    <3>5. LastAt(c, n + k, x)  BY <3>2, <3>3, <3>4 DEF LastAt
    <3> QED  BY <2>1, <3>1, <3>3, <3>5
  <2>5. CASE Untouched(b, x) /\ ~Untouched(a, x)
    <3>1. PICK k \in DOMAIN a : LastAt(a, k, x) /\ t2[x] = a[k].to  BY <2>3, <2>5
    <3>2. /\ x \in a[k].at /\ \A j \in DOMAIN a : x \in a[j].at => j <= k
      BY <3>1 DEF LastAt
    <3>3. k \in DOMAIN c /\ c[k] = a[k]  BY <1>1
    <3>4. ASSUME NEW j \in DOMAIN c, x \in c[j].at PROVE j <= k
      <4>1. CASE j \in DOMAIN a  BY <1>1, <3>2, <3>4, <4>1
      <4>2. CASE \E i \in DOMAIN b : j = n + i
        BY <1>1, <2>5, <3>4, <4>2 DEF Untouched
      <4> QED  BY <1>1, <4>1, <4>2
    <3>5. LastAt(c, k, x)  BY <3>2, <3>3, <3>4 DEF LastAt
    <3> QED  BY <2>1, <2>2, <2>5, <3>1, <3>3, <3>5
  <2>6. CASE Untouched(b, x) /\ Untouched(a, x)
    <3>1. Untouched(c, x)
      <4> SUFFICES ASSUME NEW j \in DOMAIN c PROVE x \notin c[j].at
        BY DEF Untouched
      <4>1. CASE j \in DOMAIN a  BY <1>1, <2>6, <4>1 DEF Untouched
      <4>2. CASE \E i \in DOMAIN b : j = n + i
        BY <1>1, <2>6, <4>2 DEF Untouched
      <4> QED  BY <1>1, <4>1, <4>2
    <3> QED  BY <2>1, <2>2, <2>3, <2>6, <3>1
  <2> QED  BY <2>4, <2>5, <2>6
<1> HIDE DEF l, r
<1>5. l = r  BY <1>3, <1>4 DEF Tables
<1> QED  BY <1>5 DEF l, r, c, t2

LEMMA AfterStep ==
    ASSUME NEW t \in Tables, NEW ws \in Seq(Writes), ws # <<>>
    PROVE  After(Apply(t, Head(ws)), Tail(ws)) = After(t, ws)
<1> DEFINE h == Head(ws)  r == Tail(ws)  s == <<h>>
<1>1. h \in Writes /\ r \in Seq(Writes)  BY PlanIs
<1>2. s \in Seq(Writes)  BY <1>1
<1>3. ws = s \o r  OBVIOUS
<1> HIDE DEF h, r
<1>4. After(t, s) = Apply(t, h)  BY <1>1, AfterOne
<1> HIDE DEF s
<1>5. After(t, s \o r) = After(After(t, s), r)  BY <1>1, <1>2, AfterChain
<1> QED  BY <1>3, <1>4, <1>5 DEF h, r

(* A tree: an inode is the child of one directory at most, the names of a  *)
(* directory differ, and its `.' and `..' are there unless it was removed; *)
(* TreeBut does not look at how the directory `but' begins.                *)
DirsOf(t) == {i \in Inums : t[i].type = T_DIR}
OneParent(t) ==
    \A c, d \in DirsOf(t) : \A e \in ChildrenIn(t[c]), f \in ChildrenIn(t[d]) :
        e.inum = f.inum => c = d /\ e = f
Distinct(s) ==
    \A j, k \in DOMAIN s :
        j # k /\ s[j].inum # NINODE /\ s[k].inum # NINODE => s[j].name # s[k].name
Begins(s, d, p) == Len(s) >= 2 /\ s[1] = Entry(".", d) /\ s[2] = Entry("..", p)
Dotted(t, d, p) == Begins(t[d].ents, d, p)
ChildOf(t, d, p) == t[p].type = T_DIR /\ \E e \in ChildrenIn(t[p]) : e.inum = d
Under(t, d, p) == (d = 0 /\ p = 0) \/ ChildOf(t, d, p)
Bare(n) == \A e \in LiveIn(n) : e.name \notin {".", ".."}
Half(s) == 2 * Deleted(s) <= Len(s)
Rooted(t, d) == Bare(t[d]) \/ \E p \in Inums : Dotted(t, d, p) /\ Under(t, d, p)
TreeBut(t, but) ==
    /\ t[0].type = T_DIR /\ OneParent(t)
    /\ \A d \in DirsOf(t) :
         /\ Distinct(t[d].ents) /\ Half(t[d].ents) /\ Rooted(t, d)
         /\ \A e \in ChildrenIn(t[d]) :
              /\ e.inum # 0
              /\ t[e.inum].type = T_DIR /\ e.inum # but => Dotted(t, e.inum, d)
TreeOf(t) == TreeBut(t, NINODE)

LEMMA HalfAll ==
    ASSUME NEW s \in Seq(Entries), \A k \in DOMAIN s : s[k].inum # NINODE
    PROVE  Half(s) /\ Deleted(s) = 0
<1>1. {k \in DOMAIN s : s[k].inum = NINODE} = {}  OBVIOUS
<1>2. Deleted(s) = 0  BY <1>1, FS_EmptySet DEF Deleted
<1>3. Len(s) \in Nat  OBVIOUS
<1> QED  BY <1>2, <1>3 DEF Half

LEMMA AppendIs ==
    ASSUME NEW s \in Seq(Entries), NEW e \in Entries
    PROVE  /\ Append(s, e) \in Seq(Entries) /\ Len(Append(s, e)) = Len(s) + 1
           /\ DOMAIN Append(s, e) = 1 .. Len(s) + 1 /\ DOMAIN s = 1 .. Len(s)
           /\ Len(s) \in Nat
           /\ \A k \in 1 .. Len(s) : Append(s, e)[k] = s[k]
           /\ Append(s, e)[Len(s) + 1] = e
OBVIOUS

LEMMA AppendHalf ==
    ASSUME NEW s \in Seq(Entries), NEW e \in Entries, e.inum # NINODE, Half(s)
    PROVE  Half(Append(s, e))
<1> DEFINE a == Append(s, e)
<1>1. /\ a \in Seq(Entries) /\ Len(a) = Len(s) + 1 /\ DOMAIN a = 1 .. Len(s) + 1
      /\ DOMAIN s = 1 .. Len(s) /\ Len(s) \in Nat
      /\ \A k \in 1 .. Len(s) : a[k] = s[k]
      /\ a[Len(s) + 1] = e
  BY AppendIs
<1> HIDE DEF a
<1>2. {k \in DOMAIN a : a[k].inum = NINODE} = {k \in DOMAIN s : s[k].inum = NINODE}
  BY <1>1
<1>3. Deleted(a) = Deleted(s) /\ Deleted(s) \in Nat  BY <1>2, DeletedIs DEF Deleted
<1> QED  BY <1>1, <1>3 DEF Half, a

LEMMA AppendDistinct ==
    ASSUME NEW s \in Seq(Entries), NEW e \in Entries, Distinct(s),
           \A k \in DOMAIN s : s[k].inum # NINODE => s[k].name # e.name
    PROVE  Distinct(Append(s, e))
<1> DEFINE a == Append(s, e)
<1>1. /\ DOMAIN a = 1 .. Len(s) + 1
      /\ DOMAIN s = 1 .. Len(s) /\ Len(s) \in Nat
      /\ \A k \in 1 .. Len(s) : a[k] = s[k]
      /\ a[Len(s) + 1] = e
  BY AppendIs
<1> HIDE DEF a
<1>2. \A k \in DOMAIN a : (k \in DOMAIN s /\ a[k] = s[k]) \/ (k = Len(s) + 1 /\ a[k] = e)
  BY <1>1
<1> SUFFICES ASSUME NEW j \in DOMAIN a, NEW k \in DOMAIN a, j # k,
                    a[j].inum # NINODE, a[k].inum # NINODE
             PROVE  a[j].name # a[k].name
  BY DEF Distinct, a
<1>3. CASE j \in DOMAIN s /\ k \in DOMAIN s  BY <1>1, <1>3 DEF Distinct
<1>4. CASE j \in DOMAIN s /\ k = Len(s) + 1  BY <1>1, <1>4
<1>5. CASE k \in DOMAIN s /\ j = Len(s) + 1  BY <1>1, <1>5
<1> QED  BY <1>2, <1>3, <1>4, <1>5

(* The entry of a directory that names what: a child, or `.' and `..'.     *)
LEMMA DotsLead ==
    ASSUME NEW t \in Tables, NEW but, TreeBut(t, but), NEW d \in DirsOf(t),
           NEW e \in LiveIn(t[d]), e.name \in {".", ".."}
    PROVE  \E p \in Inums :
             /\ Dotted(t, d, p) /\ Under(t, d, p)
             /\ e = Entry(".", d) \/ e = Entry("..", p)
<1>1. Rooted(t, d) /\ Distinct(t[d].ents) /\ d \in Inums /\ t[d] \in Nodes
  BY DEF TreeBut, DirsOf, Tables
<1>2. PICK p \in Inums : Dotted(t, d, p) /\ Under(t, d, p)
  BY <1>1 DEF Rooted, Bare
<1>3. PICK k \in DOMAIN t[d].ents : t[d].ents[k] = e  BY <1>1, LiveIs
<1> DEFINE s == t[d].ents
<1>4. s \in Seq(Entries) /\ DOMAIN s = 1 .. Len(s) /\ Len(s) \in Nat
  BY <1>1, NodeIs
<1>5. Len(s) >= 2 /\ s[1] = Entry(".", d) /\ s[2] = Entry("..", p)
  BY <1>2 DEF Dotted, Begins
<1> HIDE DEF s
<1>6. 1 \in DOMAIN s /\ 2 \in DOMAIN s  BY <1>4, <1>5
<1>7. /\ s[1].name = "." /\ s[1].inum # NINODE
      /\ s[2].name = ".." /\ s[2].inum # NINODE
  BY <1>1, <1>2, <1>5, NinodeIs DEF Entry, Inums
<1>8. e.inum # NINODE /\ s[k] = e /\ k \in DOMAIN s  BY <1>3 DEF LiveIn, s
<1>9. k = 1 \/ k = 2  BY <1>1, <1>6, <1>7, <1>8 DEF Distinct, s
<1> QED  BY <1>2, <1>5, <1>8, <1>9

LEMMA MadeIs ==
    ASSUME NEW i \in Inums, NEW p \in Inums, NEW u, NEW mode,
           NEW type \in {T_DIR, T_FILE}, NEW n, n = Made(type, i, p, u, mode)
    PROVE  /\ ChildrenIn(n) = {} /\ Distinct(n.ents) /\ Half(n.ents)
           /\ type = T_DIR => Begins(n.ents, i, p)
<1>1. n.ents = Dots(type, i, p)  BY DEF Made
<1>2. ToSet(n.ents) = IF type = T_DIR THEN {Entry(".", i), Entry("..", p)} ELSE {}
  BY EntriesOf
<1>3. Entry(".", i).name = "." /\ Entry("..", p).name = ".."  BY DEF Entry
<1>4. ChildrenIn(n) = {}  BY <1>2, <1>3 DEF ChildrenIn, LiveIn
<1> DEFINE e == Entry(".", i)  f == Entry("..", p)  s == n.ents
<1>5. /\ e \in Entries /\ e.inum # NINODE /\ e.name = "."
      /\ f \in Entries /\ f.inum # NINODE /\ f.name = ".."
  BY NinodeIs DEF Entry, Entries, Labels, Inums
<1>6. s = <<e, f>> \/ (type # T_DIR /\ s = <<>>)  BY <1>1 DEF Dots
<1> HIDE DEF e, f, s
<1>7. CASE s = <<e, f>>
  <2>1. /\ s \in Seq(Entries) /\ DOMAIN s = 1 .. 2 /\ Len(s) = 2
        /\ s[1] = e /\ s[2] = f
    BY <1>5, <1>7
  <2>2. \A k \in DOMAIN s : (k = 1 /\ s[k] = e) \/ (k = 2 /\ s[k] = f)  BY <2>1
  <2>3. Half(s)  BY <1>5, <2>1, <2>2, HalfAll
  <2>4. Distinct(s)  BY <1>5, <2>2 DEF Distinct
  <2>5. Begins(s, i, p)  BY <2>1 DEF Begins, e, f
  <2> QED  BY <1>4, <2>3, <2>4, <2>5 DEF s
<1>8. CASE type # T_DIR /\ s = <<>>
  <2>1. s \in Seq(Entries) /\ DOMAIN s = {}  BY <1>8
  <2>2. Half(s) /\ Distinct(s)  BY <2>1, HalfAll DEF Distinct
  <2> QED  BY <1>4, <1>8, <2>2 DEF s
<1> QED  BY <1>6, <1>7, <1>8

LEMMA CreateShape ==
    ASSUME NEW t \in Tables, EntriesIn(t), TreeOf(t), NEW type \in {T_DIR, T_FILE},
           NEW name \in Labels, NEW d \in Inums, t[d].type = T_DIR,
           Acceptable(t, d, name),
           NEW u \in Users, NEW mode \in Modes, NEW i \in Unused(t)
    PROVE  TreeOf(After(t, Creates(t, type, name, d, u, mode, i)))
<1> DEFINE a == After(t, Creates(t, type, name, d, u, mode, i))
           m == Made(type, i, d, u, mode)
           w == WithEntry(t[d], name, i)
           e0 == Entry(name, i)
<1>1. a[i] = m /\ a[d] = w /\ \A x \in Inums \ {i, d} : a[x] = t[x]
  BY CreateAfter
<1>2. i \in Inums /\ d # i /\ t[i].type = "empty" /\ i # NINODE
  BY NinodeIs DEF Unused, T_DIR, Inums
<1>3. /\ m.type = type /\ w.type = T_DIR
  BY NodesOfCreate, <1>2
<1>4. /\ ChildrenIn(m) = {} /\ Distinct(m.ents) /\ Half(m.ents)
      /\ type = T_DIR => Begins(m.ents, i, d)
  BY <1>2, MadeIs
<1>5. t[d] \in Nodes /\ t[d].ents \in Seq(Entries) /\ d \in DirsOf(t)
  <2>1. t[d] \in Nodes  BY DEF Tables
  <2> QED  BY <2>1, NodeIs DEF DirsOf
<1>6. /\ e0 \in Entries /\ e0.inum = i /\ e0.name = name
      /\ name \notin {".", ".."}
  BY <1>2, NinodeIs DEF Entry, Entries, Inums, Acceptable
<1>7. w.ents = Append(t[d].ents, e0)
  <2>1. \A n \in Nodes : WithEntry(n, name, i).ents = Append(n.ents, e0)
    BY DEF WithEntry, Nodes
  <2> QED  BY <1>5, <2>1
<1>8. LiveIn(w) = LiveIn(t[d]) \cup {e0} /\ ChildrenIn(w) = ChildrenIn(t[d]) \cup {e0}
  <2>1. ToSet(w.ents) = ToSet(t[d].ents) \cup {e0}  BY <1>5, EntriesOf
  <2> HIDE DEF w, e0
  <2> QED  BY <1>2, <1>6, <2>1 DEF LiveIn, ChildrenIn
<1>9. \A x \in Inums : \A e \in LiveIn(t[x]) : e.inum # i /\ e.inum \in Inums
  <2>1. \A x \in Inums : t[x] \in Nodes  BY DEF Tables
  <2> QED  BY <1>2, <2>1, LiveIs DEF EntriesIn
<1>10. \A e \in LiveIn(t[d]) : e.name # name
  BY FindIs DEF Acceptable
<1>11. /\ t[0].type = T_DIR /\ OneParent(t) /\ 0 \in Inums
       /\ \A x \in DirsOf(t) :
         /\ Distinct(t[x].ents) /\ Half(t[x].ents) /\ Rooted(t, x)
         /\ \A e \in ChildrenIn(t[x]) :
              e.inum # 0 /\ (t[e.inum].type = T_DIR => Dotted(t, e.inum, x))
  <2>1. \A x \in DirsOf(t) : \A e \in ChildrenIn(t[x]) : e.inum # NINODE
    BY DEF ChildrenIn, LiveIn
  <2> QED  BY <2>1, NinodeIs DEF TreeOf, TreeBut, Inums
<1> HIDE DEF a, m, w, e0
<1>12. \A x \in DirsOf(a) :
         \/ x = i /\ a[x] = m /\ type = T_DIR
         \/ x = d /\ a[x] = w
         \/ x \in DirsOf(t) /\ x # i /\ x # d /\ a[x] = t[x]
  BY <1>1, <1>3 DEF DirsOf
<1>13. a[0].type = T_DIR
  BY <1>1, <1>2, <1>3, <1>11 DEF T_DIR
<1>14. \A x \in DirsOf(a) : \A e \in ChildrenIn(a[x]) :
         \/ x \in DirsOf(t) /\ e \in ChildrenIn(t[x]) /\ e.inum # i
         \/ x = d /\ e = e0
  BY <1>4, <1>5, <1>8, <1>9, <1>12 DEF ChildrenIn, DirsOf
<1>15. OneParent(a)
  BY <1>6, <1>11, <1>14 DEF OneParent
<1>16. \A x, p \in Inums : Dotted(t, x, p) /\ x # i => Dotted(a, x, p)
  <2> SUFFICES ASSUME NEW x \in Inums, NEW p \in Inums, Dotted(t, x, p), x # i
               PROVE  Dotted(a, x, p)
    OBVIOUS
  <2>1. CASE x # d  BY <1>1, <2>1 DEF Dotted
  <2>2. CASE x = d
    <3> DEFINE s == t[d].ents  r == Append(s, e0)
    <3>1. /\ s \in Seq(Entries) /\ Len(r) = Len(s) + 1 /\ Len(s) \in Nat
          /\ \A k \in 1 .. Len(s) : r[k] = s[k]
      BY <1>5, <1>6, AppendIs
    <3>2. Begins(s, d, p)  BY <2>2 DEF Dotted
    <3> HIDE DEF s, r
    <3>3. Begins(r, d, p)  BY <3>1, <3>2 DEF Begins
    <3> QED  BY <1>1, <1>7, <2>2, <3>3 DEF Dotted, s, r
  <2> QED  BY <2>1, <2>2
<1>17. \A x, p \in Inums : Under(t, x, p) => Under(a, x, p)
  <2> SUFFICES ASSUME NEW x \in Inums, NEW p \in Inums, ChildOf(t, x, p)
               PROVE  ChildOf(a, x, p)
    BY DEF Under
  <2>1. t[p].type = T_DIR /\ p # i  BY <1>2 DEF ChildOf, T_DIR
  <2>2. CASE p = d  BY <1>1, <1>3, <1>8, <2>2 DEF ChildOf
  <2>3. CASE p # d  BY <1>1, <2>1, <2>3 DEF ChildOf
  <2> QED  BY <2>2, <2>3
<1>18. \A x \in DirsOf(a) : Rooted(a, x)
  <2> SUFFICES ASSUME NEW x \in DirsOf(a) PROVE Rooted(a, x)
    OBVIOUS
  <2>1. CASE x = i /\ type = T_DIR
    <3>1. Dotted(a, i, d)  BY <1>1, <1>4, <2>1 DEF Dotted
    <3>2. ChildOf(a, i, d)  BY <1>1, <1>3, <1>6, <1>8 DEF ChildOf
    <3> QED  BY <2>1, <3>1, <3>2 DEF Rooted, Under
  <2>2. CASE x \in DirsOf(t) /\ x # i
    <3>1. Rooted(t, x) /\ x \in Inums  BY <1>11, <2>2 DEF DirsOf
    <3>2. Bare(t[x]) => Bare(a[x])
      <4>1. CASE x = d  BY <1>1, <1>6, <1>8, <4>1 DEF Bare
      <4>2. CASE x # d  BY <1>1, <2>2, <3>1, <4>2
      <4> QED  BY <4>1, <4>2
    <3> QED  BY <1>16, <1>17, <2>2, <3>1, <3>2 DEF Rooted
  <2> QED  BY <1>2, <1>5, <1>12, <2>1, <2>2
<1>19. \A x \in DirsOf(a) : Distinct(a[x].ents) /\ Half(a[x].ents)
  <2>1. Half(w.ents)
    BY <1>2, <1>5, <1>6, <1>7, <1>11, AppendHalf
  <2>2. Distinct(w.ents)
    <3>1. \A k \in DOMAIN t[d].ents :
            t[d].ents[k].inum # NINODE => t[d].ents[k].name # e0.name
      <4>1. \A k \in DOMAIN t[d].ents :
              t[d].ents[k].inum # NINODE => t[d].ents[k] \in LiveIn(t[d])
        BY DEF LiveIn, ToSet
      <4> QED  BY <1>6, <1>10, <4>1
    <3> QED  BY <1>5, <1>6, <1>7, <1>11, <3>1, AppendDistinct
  <2> QED  BY <1>4, <1>11, <1>12, <2>1, <2>2
<1>20. \A x \in DirsOf(a) : \A e \in ChildrenIn(a[x]) :
         /\ e.inum # 0
         /\ a[e.inum].type = T_DIR => Dotted(a, e.inum, x)
  <2> SUFFICES ASSUME NEW x \in DirsOf(a), NEW e \in ChildrenIn(a[x])
               PROVE  /\ e.inum # 0
                      /\ a[e.inum].type = T_DIR => Dotted(a, e.inum, x)
    OBVIOUS
  <2>1. CASE x \in DirsOf(t) /\ e \in ChildrenIn(t[x]) /\ e.inum # i
    <3>1. e.inum \in Inums /\ x \in Inums  BY <1>9, <2>1 DEF ChildrenIn, DirsOf
    <3>2. a[e.inum].type = T_DIR => t[e.inum].type = T_DIR
      BY <1>1, <2>1, <3>1
    <3> QED  BY <1>11, <1>16, <2>1, <3>1, <3>2
  <2>2. CASE x = d /\ e = e0
    <3>1. e.inum = i /\ i # 0  BY <1>2, <1>6, <1>11, <2>2 DEF T_DIR
    <3>2. a[i].type = T_DIR => Dotted(a, i, d)
      BY <1>1, <1>3, <1>4 DEF Dotted
    <3> QED  BY <2>2, <3>1, <3>2
  <2> QED  BY <1>14, <2>1, <2>2
<1> QED  BY <1>13, <1>15, <1>18, <1>19, <1>20 DEF TreeOf, TreeBut, a

(* delinum of an inode that has one entry.                                 *)
LEMMA MarkedShape ==
    ASSUME NEW s \in Seq(Entries), NEW i \in Inums, Distinct(s),
           NEW k0 \in DOMAIN s, s[k0].inum = i,
           \A k \in DOMAIN s : s[k].inum = i => k = k0
    PROVE  LET m == Marked(s, i)
           IN /\ m \in Seq(Entries) /\ Distinct(m) /\ Len(m) = Len(s)
              /\ Deleted(m) = Deleted(s) + 1 /\ Deleted(s) \in Nat
              /\ Len(Packed(m)) = Len(s) - (1 + Deleted(s))
<1> DEFINE m == Marked(s, i)  K == Kept(s)
<1>1. /\ m \in Seq(Entries) /\ Len(m) = Len(s) /\ DOMAIN m = DOMAIN s
      /\ Kept(m) = {k \in K : s[k].inum # i}
      /\ \A k \in Kept(m) : m[k] = s[k]
  BY MarkedIs
<1>2. i # NINODE  BY NinodeIs DEF Inums
<1>3. k0 \in K /\ K \subseteq DOMAIN s  BY <1>2 DEF Kept
<1> HIDE DEF m
<1>4. Kept(m) = K \ {k0}  BY <1>1, <1>3 DEF Kept
<1>5. /\ Deleted(s) \in Nat /\ Cardinality(K) \in Nat
      /\ Len(s) = Deleted(s) + Cardinality(K)
      /\ DOMAIN s = 1 .. Len(s) /\ Len(s) \in Nat
  BY DeletedIs
<1>6. /\ Deleted(m) \in Nat /\ Cardinality(Kept(m)) \in Nat
      /\ Len(m) = Deleted(m) + Cardinality(Kept(m))
  BY <1>1, DeletedIs
<1> HIDE DEF K
<1>7. Cardinality(K \ {k0}) = Cardinality(K) - 1
  <2>1. IsFiniteSet(1 .. Len(s))  BY <1>5, FS_Interval
  <2>2. IsFiniteSet(K)  BY <1>3, <1>5, <2>1, FS_Subset
  <2> QED  BY <1>3, <2>2, FS_RemoveElement
<1>8. Deleted(m) = Deleted(s) + 1
  <2>1. Cardinality(Kept(m)) = Cardinality(K) - 1  BY <1>4, <1>7
  <2> QED  BY <1>1, <1>5, <1>6, <2>1
<1>9. Len(Packed(m)) = Cardinality(Kept(m))  BY <1>1, PackedIs
<1>10. Len(Packed(m)) = Len(s) - (1 + Deleted(s))  BY <1>4, <1>5, <1>7, <1>9
<1>11. Distinct(m)
  <2> SUFFICES ASSUME NEW j \in Kept(m), NEW k \in Kept(m), j # k
               PROVE  m[j].name # m[k].name
    BY DEF Distinct, Kept
  <2>1. m[j] = s[j] /\ m[k] = s[k] /\ j \in K /\ k \in K  BY <1>1, <1>4
  <2> QED  BY <2>1 DEF Distinct, Kept, K
<1> QED  BY <1>1, <1>5, <1>8, <1>10, <1>11 DEF m

LEMMA MarkedBegins ==
    ASSUME NEW s \in Seq(Entries), NEW i \in Inums, NEW d \in Inums, NEW p \in Inums,
           Begins(s, d, p), d # i, p # i
    PROVE  /\ Begins(Marked(s, i), d, p)
           /\ 1 \in Kept(Marked(s, i)) /\ 2 \in Kept(Marked(s, i))
<1> DEFINE m == Marked(s, i)
<1>1. /\ m \in Seq(Entries) /\ Len(m) = Len(s) /\ DOMAIN m = DOMAIN s
      /\ Kept(m) = {k \in Kept(s) : s[k].inum # i}
      /\ \A k \in Kept(m) : m[k] = s[k]
  BY MarkedIs
<1>2. DOMAIN s = 1 .. Len(s) /\ Len(s) \in Nat  OBVIOUS
<1>3. Len(s) >= 2 /\ s[1] = Entry(".", d) /\ s[2] = Entry("..", p)  BY DEF Begins
<1>4. s[1].inum = d /\ s[2].inum = p /\ d # NINODE /\ p # NINODE
  BY <1>3, NinodeIs DEF Entry, Inums
<1> HIDE DEF m
<1>5. 1 \in Kept(m) /\ 2 \in Kept(m)  BY <1>1, <1>2, <1>3, <1>4 DEF Kept
<1>6. m[1] = s[1] /\ m[2] = s[2]  BY <1>1, <1>5
<1> QED  BY <1>1, <1>3, <1>5, <1>6 DEF Begins, m

LEMMA PackedShape ==
    ASSUME NEW m \in Seq(Entries), Distinct(m)
    PROVE  /\ Packed(m) \in Seq(Entries) /\ Distinct(Packed(m)) /\ Half(Packed(m))
           /\ \A d, p : Begins(m, d, p) /\ 1 \in Kept(m) /\ 2 \in Kept(m)
                          => Begins(Packed(m), d, p)
<1> DEFINE r == Packed(m)  K == Kept(m)
<1>1. /\ r \in Seq(Entries) /\ Len(r) = Cardinality(K)
      /\ DOMAIN r = 1 .. Cardinality(K)
      /\ \A n \in DOMAIN r :
           Place(m, n) \in K /\ r[n] = m[Place(m, n)] /\ Rank(K, Place(m, n)) = n
      /\ \A k \in K : Rank(K, k) \in DOMAIN r /\ Place(m, Rank(K, k)) = k
  BY PackedIs
<1>2. K \subseteq 1 .. Len(m) /\ Len(m) \in Nat /\ Cardinality(K) \in Nat
  BY DeletedIs
<1> HIDE DEF r
<1>3. \A k \in K : k \in DOMAIN m /\ m[k].inum # NINODE  BY DEF Kept
<1> HIDE DEF K
<1>4. Half(r)  BY <1>1, <1>3, HalfAll
<1>5. Distinct(r)
  <2> SUFFICES ASSUME NEW j \in DOMAIN r, NEW k \in DOMAIN r, j # k
               PROVE  r[j].name # r[k].name
    BY DEF Distinct
  <2>1. /\ Place(m, j) \in K /\ Place(m, k) \in K /\ Place(m, j) # Place(m, k)
        /\ r[j] = m[Place(m, j)] /\ r[k] = m[Place(m, k)]
    BY <1>1
  <2> QED  BY <1>3, <2>1 DEF Distinct
<1>6. ASSUME NEW d, NEW p, Begins(m, d, p), 1 \in K, 2 \in K
      PROVE  Begins(r, d, p)
  <2>1. /\ \A k \in K : Rank(K, k) \in 1 .. Cardinality(K)
        /\ \A k, l \in K : k < l => Rank(K, k) < Rank(K, l)
    BY <1>2, RankIs
  <2>2. Rank(K, 1) <= 1 /\ Rank(K, 2) <= 2
    <3> DEFINE A == {j \in 1 .. 1 : j \in K}  B == {j \in 1 .. 2 : j \in K}
    <3>0. \A n \in Nat : IsFiniteSet(1 .. n) /\ Cardinality(1 .. n) = n
      BY FS_Interval
    <3>1. IsFiniteSet(1 .. 1) /\ Cardinality(1 .. 1) = 1  BY <3>0
    <3>2. IsFiniteSet(1 .. 2) /\ Cardinality(1 .. 2) = 2  BY <3>0
    <3>3. A \subseteq 1 .. 1 /\ B \subseteq 1 .. 2  OBVIOUS
    <3>4. Rank(K, 1) = Cardinality(A) /\ Rank(K, 2) = Cardinality(B)  BY DEF Rank
    <3> HIDE DEF A, B
    <3>5. Cardinality(A) <= Cardinality(1 .. 1)  BY <3>1, <3>3, FS_Subset
    <3>6. Cardinality(B) <= Cardinality(1 .. 2)  BY <3>2, <3>3, FS_Subset
    <3> QED  BY <3>1, <3>2, <3>4, <3>5, <3>6
  <2>3. Rank(K, 1) = 1 /\ Rank(K, 2) = 2
    <3>1. Rank(K, 1) \in 1 .. Cardinality(K) /\ Rank(K, 2) \in 1 .. Cardinality(K)
          /\ Rank(K, 1) < Rank(K, 2)
      BY <1>6, <2>1
    <3> QED  BY <2>2, <3>1
  <2>4. r[1] = m[1] /\ r[2] = m[2] /\ 2 \in DOMAIN r
    BY <1>1, <1>6, <2>3
  <2>5. Len(r) >= 2  BY <1>1, <1>2, <2>4
  <2> QED  BY <1>6, <2>4, <2>5 DEF Begins
<1> QED  BY <1>1, <1>4, <1>5, <1>6 DEF r, K

LEMMA AfterAt ==
    ASSUME NEW t, NEW ws \in Seq(Writes), ws # <<>>, NEW d \in Inums,
           \A k \in DOMAIN ws : ws[k].at = {d}
    PROVE  /\ After(t, ws)[d] = ws[Len(ws)].to
           /\ \A x \in Inums \ {d} : After(t, ws)[x] = t[x]
<1>1. DOMAIN ws = 1 .. Len(ws) /\ Len(ws) \in Nat /\ Len(ws) # 0  OBVIOUS
<1>2. LastAt(ws, Len(ws), d)  BY <1>1 DEF LastAt
<1>3. \A x \in Inums \ {d} : Untouched(ws, x)  BY DEF Untouched
<1> QED  BY <1>1, <1>2, <1>3, AfterIs

LEMMA DelinumOne ==
    ASSUME NEW t \in Tables, NEW d \in Inums, t[d].type = T_DIR, NEW i \in Inums,
           Distinct(t[d].ents), Half(t[d].ents),
           NEW k0 \in DOMAIN t[d].ents, t[d].ents[k0].inum = i,
           \A k \in DOMAIN t[d].ents : t[d].ents[k].inum = i => k = k0
    PROVE  LET q == delinum(t, d, i)
           IN /\ q.fate = "returns"
              /\ \A x \in Inums \ {d} : After(t, q.ws)[x] = t[x]
              /\ \E r \in Seq(Entries) :
                   /\ After(t, q.ws)[d] = WithEnts(t[d], r)
                   /\ Distinct(r) /\ Half(r)
                   /\ LiveIn(WithEnts(t[d], r)) = Without(t[d], i)
                   /\ d # i => \A p \in Inums \ {i} :
                        Begins(t[d].ents, d, p) => Begins(r, d, p)
<1> DEFINE n == t[d]  s == n.ents  m == Marked(s, i)  q == delinum(t, d, i)
           a == After(t, q.ws)
<1>1. n \in Nodes /\ n.type = T_DIR /\ s \in Seq(Entries)
  <2>1. n \in Nodes  BY DEF Tables
  <2> QED  BY <2>1, NodeIs
<1>2. /\ m \in Seq(Entries) /\ Distinct(m) /\ Len(m) = Len(s)
      /\ Deleted(m) = Deleted(s) + 1 /\ Deleted(s) \in Nat
      /\ Len(Packed(m)) = Len(s) - (1 + Deleted(s))
  BY <1>1, MarkedShape
<1>3. /\ Packed(m) \in Seq(Entries) /\ Distinct(Packed(m)) /\ Half(Packed(m))
      /\ \A x, p : Begins(m, x, p) /\ 1 \in Kept(m) /\ 2 \in Kept(m)
                          => Begins(Packed(m), x, p)
  BY <1>2, PackedShape
<1>4. d # i => \A p \in Inums \ {i} :
        Begins(s, d, p) => Begins(m, d, p) /\ Begins(Packed(m), d, p)
  <2> SUFFICES ASSUME d # i, NEW p \in Inums \ {i}, Begins(s, d, p)
               PROVE  Begins(m, d, p) /\ Begins(Packed(m), d, p)
    OBVIOUS
  <2>1. Begins(m, d, p) /\ 1 \in Kept(m) /\ 2 \in Kept(m)  BY <1>1, MarkedBegins
  <2> QED  BY <1>3, <2>1
<1>5. /\ LiveIn(WithEnts(n, m)) = Without(n, i)
      /\ LiveIn(WithEnts(n, Packed(m))) = Without(n, i)
  BY <1>1, WithoutIs
<1>6. Deletes(t, q.ws, d, i)  BY DelinumDeletes
<1>7. Removal(q, n, d, m)  BY DelinumIs
<1>8. q.ws \in Seq(Writes) /\ \A k \in DOMAIN q.ws : q.ws[k].at = {d}
  BY <1>6 DEF Deletes
<1>9. Len(s) \in Nat  BY <1>1
<1> HIDE DEF q, m, s, n, a
<1>10. CASE /\ ~OverHalf(s)
            /\ q = Plan(TRUE, "returns", <<Write(d, WithEnts(n, m))>>)
  <2>1. q.fate = "returns" /\ q.ws = <<Write(d, WithEnts(n, m))>>
    BY <1>10 DEF Plan
  <2>2. q.ws # <<>> /\ q.ws[Len(q.ws)].to = WithEnts(n, m)  BY <2>1 DEF Write
  <2>3. a[d] = WithEnts(n, m) /\ \A x \in Inums \ {d} : a[x] = t[x]
    BY <1>8, <2>2, AfterAt DEF a
  <2>4. Half(m)
    <3>1. 1 + Deleted(s) <= Len(s) \div 2  BY <1>10 DEF OverHalf
    <3> DEFINE x == 1 + Deleted(s)  y == Len(s)
    <3>2. x \in Nat /\ y \in Nat /\ x <= y \div 2  BY <1>2, <1>9, <3>1
    <3>3. Len(m) = y /\ Deleted(m) = x  BY <1>2
    <3> HIDE DEF x, y
    <3>4. 2 * x <= y  BY <3>2
    <3> QED  BY <3>3, <3>4 DEF Half
  <2> QED  BY <1>2, <1>4, <1>5, <2>1, <2>3, <2>4 DEF a, q, n, s
<1>11. CASE /\ OverHalf(s)
            /\ q = Plan(TRUE, "returns", Puts(n, d, m))
  <2>1. q.fate = "returns" /\ q.ws = Puts(n, d, m)
    BY <1>11 DEF Plan
  <2>2. q.ws # <<>> /\ q.ws[Len(q.ws)].to = WithEnts(n, Packed(m))
    BY <2>1 DEF Write, Puts
  <2>3. a[d] = WithEnts(n, Packed(m)) /\ \A x \in Inums \ {d} : a[x] = t[x]
    BY <1>8, <2>2, AfterAt DEF a
  <2> QED  BY <1>3, <1>4, <1>5, <2>1, <2>3 DEF a, q, n, s
<1> QED  BY <1>2, <1>7, <1>10, <1>11 DEF Removal, s

LEMMA DeleteShape ==
    ASSUME NEW t \in Tables, NEW i \in Inums, TreeBut(t, i), NEW d \in DirsOf(t),
           LiveIn(t[i]) = {}, NEW e0 \in ChildrenIn(t[d]), e0.inum = i
    PROVE  /\ delinum(t, d, i).fate = "returns"
           /\ TreeOf(After(t, delinum(t, d, i).ws))
<1> DEFINE n == t[d]  s == n.ents  q == delinum(t, d, i)  a == After(t, q.ws)
<1>1. /\ d \in Inums /\ n \in Nodes /\ n.type = T_DIR /\ s \in Seq(Entries)
  <2>1. d \in Inums /\ n \in Nodes /\ n.type = T_DIR  BY DEF Tables, DirsOf
  <2> QED  BY <2>1, NodeIs
<1>2. /\ t[0].type = T_DIR /\ OneParent(t) /\ 0 \in Inums
      /\ \A x \in DirsOf(t) :
         /\ Distinct(t[x].ents) /\ Half(t[x].ents) /\ Rooted(t, x)
         /\ \A e \in ChildrenIn(t[x]) :
              /\ e.inum # 0
              /\ t[e.inum].type = T_DIR /\ e.inum # i => Dotted(t, e.inum, x)
  BY NinodeIs DEF TreeBut, Inums
<1>3. d # i /\ i # 0 /\ e0 \in LiveIn(n) /\ e0.name \notin {".", ".."}
  BY <1>2 DEF ChildrenIn
<1>4. \A x, p \in Inums : Dotted(t, x, p) /\ Under(t, x, p) => p # i
  BY <1>3 DEF Under, ChildOf, ChildrenIn
<1>5. ASSUME NEW e \in LiveIn(n), e.inum = i PROVE e = e0
  <2>1. e.name \notin {".", ".."}
    <3>1. ASSUME e.name \in {".", ".."} PROVE FALSE
      <4>1. PICK p \in Inums : /\ Dotted(t, d, p) /\ Under(t, d, p)
                               /\ e = Entry(".", d) \/ e = Entry("..", p)
        BY <3>1, DotsLead
      <4>2. p # i  BY <1>1, <1>4, <4>1
      <4> QED  BY <1>3, <1>5, <4>1, <4>2 DEF Entry
    <3> QED  BY <3>1
  <2>2. e \in ChildrenIn(t[d])  BY <2>1 DEF ChildrenIn
  <2> QED  BY <1>2, <1>5, <2>2 DEF OneParent
<1>6. PICK k0 \in DOMAIN s : s[k0] = e0  BY <1>1, <1>3, LiveIs
<1>7. ASSUME NEW k \in DOMAIN s, s[k].inum = i PROVE k = k0
  <2>1. s[k] \in LiveIn(n)
    BY <1>7, NinodeIs DEF LiveIn, ToSet, Inums
  <2>2. s[k] = e0  BY <1>5, <1>7, <2>1
  <2>3. e0.inum # NINODE  BY NinodeIs DEF Inums
  <2> QED  BY <1>2, <1>6, <2>2, <2>3 DEF Distinct
<1>8. /\ q.fate = "returns"
      /\ \A x \in Inums \ {d} : a[x] = t[x]
      /\ \E r \in Seq(Entries) :
           /\ a[d] = WithEnts(n, r) /\ Distinct(r) /\ Half(r)
           /\ LiveIn(WithEnts(n, r)) = Without(n, i)
           /\ d # i => \A p \in Inums \ {i} : Begins(s, d, p) => Begins(r, d, p)
  BY <1>1, <1>2, <1>6, <1>7, DelinumOne
<1> HIDE DEF q, a, n, s
<1>9. PICK r \in Seq(Entries) :
           /\ a[d] = WithEnts(n, r) /\ Distinct(r) /\ Half(r)
           /\ LiveIn(WithEnts(n, r)) = Without(n, i)
           /\ d # i => \A p \in Inums \ {i} : Begins(s, d, p) => Begins(r, d, p)
  BY <1>8
<1>10. /\ a[d].type = T_DIR /\ a[d].ents = r /\ LiveIn(a[d]) = Without(t[d], i)
       /\ ChildrenIn(a[d]) = {e \in ChildrenIn(t[d]) : e.inum # i}
  <2>1. a[d].type = T_DIR /\ a[d].ents = r  BY <1>1, <1>9, WithEntsIs
  <2>2. LiveIn(a[d]) = Without(t[d], i)  BY <1>9 DEF n
  <2>3. ChildrenIn(a[d]) = {e \in ChildrenIn(t[d]) : e.inum # i}
    BY <2>2 DEF ChildrenIn, Without
  <2> QED  BY <2>1, <2>2, <2>3
<1>11. DirsOf(a) = DirsOf(t)  BY <1>1, <1>8, <1>10 DEF DirsOf, n
<1>12. ASSUME NEW x \in DirsOf(t), NEW e \in ChildrenIn(a[x])
       PROVE  e \in ChildrenIn(t[x]) /\ e.inum # i /\ e.inum \in Inums /\ x \in Inums
  <2>1. x \in Inums /\ t[x] \in Nodes  BY DEF DirsOf, Tables
  <2>2. e \in ChildrenIn(t[x]) /\ (x = d => e.inum # i)
    BY <1>8, <1>10, <2>1
  <2>3. e.inum # i  BY <1>2, <2>2 DEF OneParent
  <2>4. e.inum \in Inums  BY <2>1, <2>2, LiveIs DEF ChildrenIn
  <2> QED  BY <2>1, <2>2, <2>3, <2>4
<1>13. \A x \in Inums, p \in Inums \ {i} : Dotted(t, x, p) => Dotted(a, x, p)
  BY <1>3, <1>8, <1>9, <1>10 DEF Dotted, s, n
<1>14. \A x \in Inums \ {i}, p \in Inums : Under(t, x, p) => Under(a, x, p)
  <2> SUFFICES ASSUME NEW x \in Inums \ {i}, NEW p \in Inums, ChildOf(t, x, p)
               PROVE  ChildOf(a, x, p)
    BY DEF Under
  <2>1. CASE p = d  BY <1>10, <2>1 DEF ChildOf
  <2>2. CASE p # d  BY <1>8, <2>2 DEF ChildOf
  <2> QED  BY <2>1, <2>2
<1>15. ASSUME NEW x \in DirsOf(t) PROVE Rooted(a, x)
  <2>1. x \in Inums /\ Rooted(t, x)  BY <1>2 DEF DirsOf
  <2>2. Bare(t[x]) => Bare(a[x])
    BY <1>8, <1>10, <2>1 DEF Bare, Without
  <2>3. x = i => Bare(t[x])  BY DEF Bare
  <2> QED  BY <1>4, <1>13, <1>14, <2>1, <2>2, <2>3 DEF Rooted
<1>16. a[0].type = T_DIR  BY <1>2, <1>11 DEF DirsOf
<1>17. OneParent(a)  BY <1>2, <1>11, <1>12 DEF OneParent
<1>18. ASSUME NEW x \in DirsOf(t) PROVE Distinct(a[x].ents) /\ Half(a[x].ents)
  <2>1. x \in Inums  BY DEF DirsOf
  <2> QED  BY <1>2, <1>8, <1>9, <1>10, <2>1
<1>19. ASSUME NEW x \in DirsOf(t), NEW e \in ChildrenIn(a[x])
       PROVE  e.inum # 0 /\ (a[e.inum].type = T_DIR => Dotted(a, e.inum, x))
  <2>1. e \in ChildrenIn(t[x]) /\ e.inum # i /\ e.inum \in Inums /\ x \in Inums
    BY <1>12
  <2>2. a[e.inum].type = T_DIR => t[e.inum].type = T_DIR
    BY <1>11, <2>1 DEF DirsOf
  <2>3. x # i  BY <2>1 DEF ChildrenIn
  <2> QED  BY <1>2, <1>13, <2>1, <2>2, <2>3
<1>20. TreeOf(a)
  BY <1>11, <1>15, <1>16, <1>17, <1>18, <1>19 DEF TreeOf, TreeBut
<1> QED  BY <1>8, <1>20 DEF q, a

(* What the commands leave.                                                *)
LEMMA RefusedShape ==
    ASSUME NEW t \in Tables, TreeOf(t)
    PROVE  Refused.fate = "returns" /\ TreeOf(After(t, Refused.ws))
<1>1. Refused.fate = "returns" /\ Refused.ws = <<>>  BY DEF Refused, Plan
<1> QED  BY <1>1, NoWrites

LEMMA TreeButTree ==
    ASSUME NEW t, TreeOf(t), NEW i
    PROVE  TreeBut(t, i)
<1>1. \A d : \A e \in ChildrenIn(t[d]) : e.inum # NINODE
  BY DEF ChildrenIn, LiveIn
<1> QED  BY <1>1 DEF TreeOf, TreeBut

LEMMA RmShape ==
    ASSUME NEW t \in Tables, TreeOf(t), NEW name, NEW d \in DirsOf(t), NEW u
    PROVE  LET q == rm(t, name, d, u)
           IN q.fate = "returns" /\ TreeOf(After(t, q.ws))
<1> DEFINE i == findinum(t, d, name)  q == rm(t, name, d, u)
<1>1. \/ q = Refused
      \/ /\ i # NINODE /\ t[i].type = T_FILE /\ q = delinum(t, d, i)
  BY DEF rm
<1>2. d \in Inums /\ t[d].type = T_DIR  BY DEF DirsOf
<1>3. i # NINODE => /\ i \in Inums
                    /\ \E e \in LiveIn(t[d]) : e.inum = i
  BY <1>2, FindIs
<1> HIDE DEF i, q
<1>4. CASE q = Refused  BY <1>4, RefusedShape DEF q
<1>5. CASE i # NINODE /\ t[i].type = T_FILE /\ q = delinum(t, d, i)
  <2>1. PICK e \in LiveIn(t[d]) : e.inum = i  BY <1>3, <1>5
  <2>2. i \in Inums /\ i # d  BY <1>2, <1>3, <1>5 DEF T_DIR, T_FILE
  <2>3. TreeBut(t, i)  BY TreeButTree
  <2>4. e.name \notin {".", ".."}
    <3>1. ASSUME e.name \in {".", ".."} PROVE FALSE
      <4>1. PICK p \in Inums : /\ Under(t, d, p)
                               /\ e = Entry(".", d) \/ e = Entry("..", p)
        BY <2>3, <3>1, DotsLead
      <4>2. t[p].type = T_DIR  BY <2>3, <4>1 DEF Under, ChildOf, TreeBut
      <4> QED  BY <1>2, <1>5, <2>1, <4>1, <4>2 DEF Entry, T_DIR, T_FILE
    <3> QED  BY <3>1
  <2>5. e \in ChildrenIn(t[d])  BY <2>4 DEF ChildrenIn
  <2>6. LiveIn(t[i]) = {}
    <3>1. t[i] \in Nodes /\ t[i].type # T_DIR  BY <1>5, <2>2 DEF Tables, T_DIR, T_FILE
    <3> QED  BY <3>1, LiveIs
  <2>7. /\ delinum(t, d, i).fate = "returns"
        /\ TreeOf(After(t, delinum(t, d, i).ws))
    BY <2>1, <2>2, <2>3, <2>5, <2>6, DeleteShape
  <2> QED  BY <1>5, <2>7 DEF q
<1> QED  BY <1>1, <1>4, <1>5

LEMMA ClearShape ==
    ASSUME NEW t \in Tables, TreeOf(t), NEW i \in DirsOf(t), ChildrenIn(t[i]) = {}
    PROVE  LET a == Apply(t, Clear(t, i))
           IN /\ TreeBut(a, i) /\ DirsOf(a) = DirsOf(t) /\ a \in Tables
              /\ LiveIn(a[i]) = {} /\ a[i].ents = <<>>
              /\ \A x \in Inums \ {i} : a[x] = t[x]
<1> DEFINE c == Clear(t, i)  a == Apply(t, c)
<1>1. i \in Inums /\ t[i] \in Nodes /\ t[i].type = T_DIR  BY DEF DirsOf, Tables
<1>2. /\ LiveIn(c.to) = {} /\ c.to.type = T_DIR /\ a \in Tables /\ a[i] = c.to
      /\ \A x \in Inums \ {i} : a[x] = t[x]
  <2>1. /\ Shrunk(t[i], c.to) /\ LiveIn(c.to) = {} /\ a \in Tables /\ a[i] = c.to
        /\ \A x \in Inums \ {i} : a[x] = t[x]
    BY <1>1, ClearIs
  <2> HIDE DEF c, a
  <2> QED  BY <2>1 DEF Shrunk
<1>3. c.to.ents = <<>>
  <2>1. <<>> \in Seq(Entries)  BY <1>1
  <2>2. WithEnts(t[i], <<>>).ents = <<>>  BY <1>1, <2>1, WithEntsIs
  <2> QED  BY <2>2 DEF Clear, Write
<1>4. TreeBut(t, i)  BY TreeButTree
<1>5. /\ t[0].type = T_DIR /\ OneParent(t) /\ 0 \in Inums
      /\ \A x \in DirsOf(t) :
         /\ Distinct(t[x].ents) /\ Half(t[x].ents) /\ Rooted(t, x)
         /\ \A e \in ChildrenIn(t[x]) :
              /\ e.inum # 0
              /\ t[e.inum].type = T_DIR /\ e.inum # i => Dotted(t, e.inum, x)
  BY <1>4, NinodeIs DEF TreeBut, Inums
<1> HIDE DEF c, a
<1>6. DirsOf(a) = DirsOf(t)  BY <1>1, <1>2 DEF DirsOf
<1>7. \A x \in DirsOf(t) : ChildrenIn(a[x]) = ChildrenIn(t[x]) /\ x \in Inums
  BY <1>2 DEF ChildrenIn, DirsOf
<1>8. Distinct(a[i].ents) /\ Half(a[i].ents)
  <2> DEFINE s == a[i].ents
  <2>1. s \in Seq(Entries) /\ DOMAIN s = {}  BY <1>2, <1>3
  <2> HIDE DEF s
  <2> QED  BY <2>1, HalfAll DEF Distinct, s
<1>9. \A x \in Inums \ {i}, p \in Inums : Dotted(t, x, p) => Dotted(a, x, p)
  BY <1>2 DEF Dotted
<1>10. \A x, p \in Inums : Under(t, x, p) => Under(a, x, p)
  <2> SUFFICES ASSUME NEW x \in Inums, NEW p \in Inums, ChildOf(t, x, p)
               PROVE  ChildOf(a, x, p)
    BY DEF Under
  <2>1. p # i  BY DEF ChildOf
  <2> QED  BY <1>2, <2>1 DEF ChildOf
<1>11. ASSUME NEW x \in DirsOf(t) PROVE Rooted(a, x)
  <2>1. CASE x = i  BY <1>2, <2>1 DEF Rooted, Bare
  <2>2. CASE x # i  BY <1>2, <1>5, <1>7, <1>9, <1>10, <2>2 DEF Rooted
  <2> QED  BY <2>1, <2>2
<1>12. \A x \in DirsOf(t) : Distinct(a[x].ents) /\ Half(a[x].ents)
  BY <1>2, <1>5, <1>7, <1>8
<1>13. ASSUME NEW x \in DirsOf(t), NEW e \in ChildrenIn(a[x])
       PROVE  /\ e.inum # 0
              /\ a[e.inum].type = T_DIR /\ e.inum # i => Dotted(a, e.inum, x)
  <2>1. e \in ChildrenIn(t[x]) /\ x \in Inums /\ t[x] \in Nodes  BY <1>7 DEF Tables
  <2>2. e.inum \in Inums  BY <2>1, LiveIs DEF ChildrenIn
  <2> QED  BY <1>2, <1>5, <1>9, <2>1, <2>2
<1>14. TreeBut(a, i)
  <2>1. a[0].type = T_DIR  BY <1>2, <1>5
  <2>2. OneParent(a)  BY <1>5, <1>6, <1>7 DEF OneParent
  <2> QED  BY <1>6, <1>11, <1>12, <1>13, <2>1, <2>2 DEF TreeBut
<1> QED  BY <1>2, <1>3, <1>6, <1>14 DEF a, c

LEMMA RmdirShape ==
    ASSUME NEW t \in Tables, TreeOf(t), NEW name, NEW d \in DirsOf(t), NEW u
    PROVE  LET q == rmdir(t, name, d, u)
           IN \/ q.fate = "returns" /\ TreeOf(After(t, q.ws))
              \/ q.fate = "asserts" /\ ChildrenIn(t[d]) = {}
<1> DEFINE i == findinum(t, d, name)  c == Clear(t, i)  t2 == Apply(t, c)
           rest == delinum(t2, d, i)  q == rmdir(t, name, d, u)
<1>1. CASE q = Refused
  <2> HIDE DEF q
  <2> QED  BY <1>1, RefusedShape DEF q
<1>2. CASE /\ i # NINODE /\ t[i].type = T_DIR /\ Vacant(t, i)
           /\ q = [rest EXCEPT !.ws = <<c>> \o @]
  <2>1. d \in Inums /\ t[d].type = T_DIR  BY DEF DirsOf
  <2>2. i \in Inums /\ \E e \in LiveIn(t[d]) : e.inum = i
    BY <1>2, <2>1, FindIs
  <2>3. q.ws = <<c>> \o rest.ws /\ q.fate = rest.fate
    <3>1. \E ok, fate, ws : rest = Plan(ok, fate, ws)
      <4>1. Removal(rest, t2[d], d, Marked(t2[d].ents, i))  BY DelinumIs
      <4> HIDE DEF rest, t2, i
      <4> QED  BY <4>1 DEF Removal
    <3>2. q = [rest EXCEPT !.ws = <<c>> \o @]  BY <1>2
    <3> HIDE DEF q, rest, c
    <3> QED  BY <3>1, <3>2 DEF Plan
  <2>4. i \in DirsOf(t) /\ ChildrenIn(t[i]) = {}
    <3> HIDE DEF i
    <3> QED  BY <1>2, <2>2 DEF DirsOf, Vacant, Live, ChildrenIn, LiveIn
  <2>5. /\ TreeBut(t2, i) /\ DirsOf(t2) = DirsOf(t) /\ t2 \in Tables
        /\ LiveIn(t2[i]) = {} /\ t2[i].ents = <<>>
        /\ \A x \in Inums \ {i} : t2[x] = t[x]
    <3> HIDE DEF i
    <3> QED  BY <2>4, ClearShape
  <2>6. c \in Writes
    <3> HIDE DEF i
    <3> QED  BY <1>2, <2>2, ClearIs
  <2> HIDE DEF i, q
  <2>7. PICK e \in LiveIn(t[d]) : e.inum = i  BY <2>2
  <2>8. CASE e.name \notin {".", ".."}
    <3>1. e \in ChildrenIn(t[d])  BY <2>8 DEF ChildrenIn
    <3>2. d # i  BY <2>4, <3>1
    <3>3. e \in ChildrenIn(t2[d])  BY <2>1, <2>5, <3>1, <3>2
    <3>4. rest.fate = "returns" /\ TreeOf(After(t2, rest.ws))
      <4> HIDE DEF t2
      <4> QED  BY <2>2, <2>5, <2>7, <3>3, DeleteShape
    <3>5. After(t, q.ws) = After(t2, rest.ws)
      <4>1. Deletes(t2, rest.ws, d, i)
        <5>1. t2[d].type = T_DIR  BY <2>1, <2>5, <3>2
        <5> HIDE DEF t2
        <5> QED  BY <2>1, <2>2, <2>5, <5>1, DelinumDeletes
      <4> DEFINE r == rest.ws  h == <<c>>
      <4>2. r \in Seq(Writes)  BY <4>1 DEF Deletes
      <4>3. h \in Seq(Writes)  BY <2>6
      <4>4. After(t, h) = t2
        <5> HIDE DEF c
        <5> QED  BY <2>6, AfterOne
      <4> HIDE DEF r, h, t2
      <4>5. After(t, h \o r) = After(After(t, h), r)  BY <4>2, <4>3, AfterChain
      <4> QED  BY <2>3, <4>4, <4>5 DEF r, h
    <3> QED  BY <2>3, <3>4, <3>5 DEF q
  <2>9. CASE e.name \in {".", ".."}
    <3>1. TreeBut(t, i)  BY TreeButTree
    <3>2. PICK p \in Inums : /\ Dotted(t, d, p) /\ Under(t, d, p)
                             /\ e = Entry(".", d) \/ e = Entry("..", p)
      BY <2>9, <3>1, DotsLead
    <3>3. i = d
      <4>1. i = d \/ i = p  BY <2>7, <3>2 DEF Entry
      <4>2. CASE i = p  BY <2>4, <3>2, <4>2 DEF Under, ChildOf
      <4> QED  BY <4>1, <4>2
    <3>4. rest.fate = "asserts"
      <4> DEFINE s == t2[d].ents  m == Marked(s, i)
      <4>1. s = <<>>  BY <2>5, <3>3
      <4>2. Removal(rest, t2[d], d, m)  BY DelinumIs
      <4>3. s \in Seq(Entries)  BY <4>1
      <4> HIDE DEF s
      <4>4. m \in Seq(Entries) /\ Len(m) = Len(s)  BY <2>2, <4>3, MarkedIs
      <4>5. /\ Deleted(s) \in Nat /\ Cardinality(Kept(s)) \in Nat
            /\ Len(s) = Deleted(s) + Cardinality(Kept(s)) /\ Len(s) = 0
        BY <4>1, <4>3, DeletedIs
      <4>6. OverHalf(s)
        <5>1. Deleted(s) = 0 /\ Len(s) = 0  BY <4>5
        <5> QED  BY <5>1 DEF OverHalf
      <4> HIDE DEF m
      <4>7. Len(Packed(m)) \in Nat
        <5>1. Packed(m) \in Seq(Entries)  BY <4>4, PackedIs
        <5> QED  BY <5>1
      <4>8. Len(Packed(m)) # Len(s) - (1 + Deleted(s))  BY <4>5, <4>7
      <4> HIDE DEF rest, t2
      <4> QED  BY <4>2, <4>6, <4>8 DEF Removal, Plan, s
    <3> QED  BY <2>3, <2>4, <3>3, <3>4 DEF q
  <2> QED  BY <2>8, <2>9
<1>3. \/ q = Refused
      \/ /\ i # NINODE /\ t[i].type = T_DIR /\ Vacant(t, i)
         /\ q = [rest EXCEPT !.ws = <<c>> \o @]
  BY RmdirIs
<1> QED  BY <1>1, <1>2, <1>3

LEMMA MakeShape ==
    ASSUME NEW t \in Tables, EntriesIn(t), TreeOf(t), NEW type \in {T_DIR, T_FILE},
           NEW name \in Labels, NEW d \in Inums, t[d].type # T_FILE,
           NEW u \in Users, NEW mode \in Modes
    PROVE  TreeOf(After(t, make(t, type, name, d, u, mode).ws))
<1> DEFINE q == make(t, type, name, d, u, mode)
<1>1. \/ q = Plan(FALSE, "null", <<>>) \/ q = Refused
      \/ /\ t[d].type = T_DIR /\ Acceptable(t, d, name)
         /\ \E i \in Unused(t) :
              q = Plan(TRUE, "returns", Creates(t, type, name, d, u, mode, i))
  BY MakeIs
<1> HIDE DEF q
<1>2. CASE q = Plan(FALSE, "null", <<>>) \/ q = Refused
  <2>1. q.ws = <<>>  BY <1>2 DEF Refused, Plan
  <2> QED  BY <2>1, NoWrites DEF q
<1>3. CASE /\ t[d].type = T_DIR /\ Acceptable(t, d, name)
           /\ \E i \in Unused(t) :
                q = Plan(TRUE, "returns", Creates(t, type, name, d, u, mode, i))
  <2>1. PICK i \in Unused(t) :
            q = Plan(TRUE, "returns", Creates(t, type, name, d, u, mode, i))
    BY <1>3
  <2>2. TreeOf(After(t, Creates(t, type, name, d, u, mode, i)))
    BY <1>3, CreateShape
  <2>3. q.ws = Creates(t, type, name, d, u, mode, i)
    <3> DEFINE w == Creates(t, type, name, d, u, mode, i)
    <3> HIDE DEF w
    <3> QED  BY <2>1 DEF Plan, w
  <2> QED  BY <2>2, <2>3 DEF q
<1> QED  BY <1>1, <1>2, <1>3

LEMMA OrMadeShape ==
    ASSUME NEW t \in Tables, EntriesIn(t), TreeOf(t), NEW name \in Labels,
           NEW d \in Inums, t[d].type # T_FILE, NEW u \in Users, NEW P
    PROVE  TreeOf(After(t, (IF P THEN make(t, T_DIR, name, d, u, Open)
                            ELSE Plan(TRUE, "returns", <<>>)).ws))
<1>1. TreeOf(After(t, make(t, T_DIR, name, d, u, Open).ws))
  BY MakeShape, FsTreeAssumption
<1>2. TreeOf(After(t, Plan(TRUE, "returns", <<>>).ws))
  <2>1. Plan(TRUE, "returns", <<>>).ws = <<>>  BY DEF Plan
  <2> QED  BY <2>1, NoWrites
<1> QED  BY <1>1, <1>2

LEMMA ToHomeShape ==
    ASSUME NEW t \in Tables, EntriesIn(t), TreeOf(t), NEW u \in Users, NEW c \in Inums,
           t[c].type # T_FILE
    PROVE  TreeOf(After(t, to_home(t, u, c).p1.ws))
<1> DEFINE p1 == HomeMade(t, u, c)  t1 == After(t, p1.ws)
           home == Arrived(t1, u, "home", 0)
           p2 == OwnMade(t1, u, home)
           h == to_home(t, u, c)
<1>1. "home" \in Labels /\ ToString(u) \in Labels  BY DEF Labels
<1>2. Good(t, p1) /\ TreeOf(t1)  BY <1>1, OrMade, OrMadeShape DEF HomeMade
<1>3. t1 \in Tables /\ EntriesIn(t1)  BY <1>2, GoodAfter
<1>4. 0 \in Inums  BY NinodeIs DEF Inums
<1>5. \/ /\ ~p1.ok \/ home = NINODE
         /\ h = [p1 |-> p1, to |-> c]
      \/ /\ p1.ok /\ home # NINODE
         /\ h.p1 = [p2 EXCEPT !.ws = p1.ws \o @]
         /\ h.to \in {c, home}
  BY ToHomeIs
<1>6. home # NINODE => home \in Inums /\ t1[home].type = T_DIR
  BY <1>3, <1>4, CdIs DEF Arrived
<1> HIDE DEF p1, t1, home, h, p2
<1>7. CASE h = [p1 |-> p1, to |-> c]
  <2>1. h.p1 = p1  BY <1>7
  <2> QED  BY <1>2, <2>1 DEF h, t1
<1>8. CASE /\ p1.ok /\ home # NINODE
           /\ h.p1 = [p2 EXCEPT !.ws = p1.ws \o @]
  <2>1. Good(t1, p2) /\ TreeOf(After(t1, p2.ws))
    <3>1. t1[home].type # T_FILE  BY <1>6, <1>8 DEF T_DIR, T_FILE
    <3> QED  BY <1>1, <1>2, <1>3, <1>6, <1>8, <3>1, OrMade, OrMadeShape DEF OwnMade, p2
  <2>2. h.p1.ws = p1.ws \o p2.ws
    <3>1. p2 = Plan(p2.ok, p2.fate, p2.ws)  BY <2>1 DEF Good
    <3> DEFINE v == p1.ws
    <3> HIDE DEF v
    <3>2. [p2 EXCEPT !.ws = v \o @].ws = v \o p2.ws  BY <3>1 DEF Plan
    <3> QED  BY <1>8, <3>2 DEF v
  <2>3. p1.ws \in Seq(Writes) /\ p2.ws \in Seq(Writes)
    BY <1>2, <2>1 DEF Good, Planned
  <2>4. After(t, p1.ws \o p2.ws) = After(t1, p2.ws)  BY <2>3, AfterChain DEF t1
  <2> QED  BY <2>1, <2>2, <2>4 DEF h
<1> QED  BY <1>5, <1>7, <1>8

LEMMA RootShape == TreeOf(After(Formatted, RootWrites))
<1> DEFINE m == Made(T_DIR, 0, 0, 0, Open)  b == Blank(T_DIR)
           ws == RootWrites  t == After(Formatted, ws)
<1>1. 0 \in Inums  BY NinodeIs DEF Inums
<1>2. /\ ChildrenIn(m) = {} /\ Distinct(m.ents) /\ Half(m.ents)
      /\ Begins(m.ents, 0, 0)
  BY <1>1, MadeIs
<1>3. m.type = T_DIR  BY DEF Made
<1>4. ws \in Seq(Writes)  BY RootPlanned DEF Planned
<1> HIDE DEF m, b
<1>5. ws = <<Write(0, b), Write(0, m)>>  BY DEF RootWrites, b, m
<1> HIDE DEF ws
<1>6. /\ ws # <<>> /\ \A k \in DOMAIN ws : ws[k].at = {0}
      /\ ws[Len(ws)].to = m
  BY <1>5 DEF Write
<1>7. t[0] = m /\ \A x \in Inums \ {0} : t[x] = Formatted[x]
  BY <1>1, <1>4, <1>6, AfterAt
<1> HIDE DEF t
<1>8. DirsOf(t) = {0}
  <2>1. \A x \in Inums \ {0} : t[x].type # T_DIR  BY <1>7, FormattedIs DEF T_DIR
  <2> QED  BY <1>1, <1>3, <1>7, <2>1 DEF DirsOf
<1>9. Rooted(t, 0)  BY <1>1, <1>2, <1>7 DEF Rooted, Dotted, Under
<1>10. OneParent(t)  BY <1>2, <1>7, <1>8 DEF OneParent
<1> QED  BY <1>2, <1>3, <1>7, <1>8, <1>9, <1>10 DEF TreeOf, TreeBut, t, ws

LEMMA FoundingShape == TreeOf(After(Formatted, Founding))
<1> DEFINE r == RootWrites  t0 == After(Formatted, r)  h == to_home(t0, 1, 0)
           v == h.p1.ws
<1>1. /\ r \in Seq(Writes) /\ Ordered(Formatted, r) /\ 0 \in Inums
      /\ Becomes(Formatted, r, 0)
  BY RootPlanned DEF Planned
<1>2. Founding = r \o v  BY RootIs DEF Homes, Founding
<1>3. TreeOf(t0)  BY RootShape
<1> HIDE DEF r
<1>4. t0 \in Tables /\ EntriesIn(t0)  BY <1>1, FormattedIs, AfterTyped, AfterSound
<1>5. t0[0].type = T_DIR  BY <1>1, FormattedIs, AfterBecomes
<1> HIDE DEF t0
<1>6. Good(t0, h.p1) /\ TreeOf(After(t0, v))
  <2>1. t0[0].type # T_FILE  BY <1>5 DEF T_DIR, T_FILE
  <2> QED  BY <1>1, <1>3, <1>4, <2>1, ToHomeGood, ToHomeShape, FsTreeAssumption
<1>7. v \in Seq(Writes)  BY <1>6 DEF Good, Planned
<1> HIDE DEF v
<1>8. After(Formatted, r \o v) = After(t0, v)
  BY <1>1, <1>7, FormattedIs, AfterChain DEF t0
<1> QED  BY <1>2, <1>6, <1>8

(* A format from its first write on: what is left to clear, and what it    *)
(* leads to.                                                               *)
LEMMA FormatIs ==
    ASSUME NEW t \in Tables
    PROVE  FormatWrites \in Seq(Writes) /\ ToClear(t, FormatWrites)
<1>1. /\ Clearing \in Seq(Writes) /\ Clearing # <<>> /\ Founding \in Seq(Writes)
      /\ After(t, Clearing) = Formatted
  BY ClearingIs, FoundingIs
<1>2. FormatWrites = Clearing \o Founding  BY DEF FormatWrites
<1> QED  BY <1>1, <1>2, ChainIs DEF ToClear

LEMMA ClearLeads ==
    ASSUME NEW t \in Tables, NEW ws, ToClear(t, ws)
    PROVE  After(t, ws) = After(Formatted, Founding) /\ ws # <<>>
<1>1. PICK c \in Seq(Writes) : c # <<>> /\ ws = c \o Founding /\ After(t, c) = Formatted
  BY DEF ToClear
<1>2. Founding \in Seq(Writes)  BY FoundingIs
<1>3. After(t, c \o Founding) = After(After(t, c), Founding)
  BY <1>1, <1>2, AfterChain
<1>4. c \o Founding # <<>>
  <2>1. Len(c) # 0 /\ Len(c) \in Nat /\ Len(Founding) \in Nat  BY <1>1, <1>2
  <2>2. Len(c \o Founding) = Len(c) + Len(Founding)  BY <1>1, <1>2, ConcatProperties
  <2> QED  BY <2>1, <2>2
<1> QED  BY <1>1, <1>3, <1>4

(* A write of the clearing: when it is the last, the table is empty.       *)
LEMMA ClearStep ==
    ASSUME NEW t \in Tables, NEW ws \in Seq(Writes), ToClear(t, ws)
    PROVE  LET t2 == Apply(t, Head(ws))
           IN \/ Tail(ws) = Founding /\ t2 = Formatted
              \/ Tail(ws) # Founding /\ ToClear(t2, Tail(ws))
<1> DEFINE f == Founding  t2 == Apply(t, Head(ws))  r == Tail(ws)
<1>1. PICK c \in Seq(Writes) : c # <<>> /\ ws = c \o f /\ After(t, c) = Formatted
  BY DEF ToClear
<1>2. f \in Seq(Writes)  BY FoundingIs
<1> HIDE DEF f
<1> DEFINE h == Head(c)  d == Tail(c)
<1>3. h \in Writes /\ d \in Seq(Writes)  BY <1>1, PlanIs
<1>4. Head(ws) = h /\ r = d \o f
  <2>1. c \o f = <<h>> \o (d \o f)
    <3>1. c = <<h>> \o d  BY <1>1
    <3> HIDE DEF h, d
    <3>2. <<h>> \in Seq(Writes)  BY <1>3
    <3> QED  BY <1>2, <1>3, <3>1, <3>2, ConcatAssociative
  <2> DEFINE x == d \o f
  <2>2. x \in Seq(Writes)  BY <1>2, <1>3, ChainIs
  <2> HIDE DEF h, x
  <2>3. Head(<<h>> \o x) = h /\ Tail(<<h>> \o x) = x  BY <1>3, <2>2
  <2> QED  BY <1>1, <2>1, <2>3 DEF x
<1>5. After(Apply(t, h), d) = Formatted  BY <1>1, AfterStep
<1> HIDE DEF h, d, r
<1>6. CASE d = <<>>
  <2>1. r = f  BY <1>2, <1>4, <1>6, ConcatEmptySeq
  <2>2. Apply(t, h) \in Tables  BY <1>3, ApplyTyped
  <2>3. Apply(t, h) = Formatted  BY <1>5, <1>6, <2>2, NoWrites
  <2> QED  BY <1>4, <2>1, <2>3 DEF r, f
<1>7. CASE d # <<>>
  <2>1. r # f
    <3>1. Len(d) # 0 /\ Len(d) \in Nat /\ Len(f) \in Nat  BY <1>2, <1>3, <1>7
    <3>2. Len(r) = Len(d) + Len(f)  BY <1>2, <1>3, <1>4, ConcatProperties
    <3> QED  BY <3>1, <3>2
  <2>2. ToClear(Apply(t, h), r)  BY <1>3, <1>4, <1>5, <1>7 DEF ToClear, f
  <2> QED  BY <1>4, <2>1, <2>2 DEF r, f
<1> QED  BY <1>6, <1>7

-----------------------------------------------------------------------------
(* Every action keeps the invariant.                                       *)
LEMMA NothingToDo ==
    ASSUME NEW t \in Tables, NEW u
    PROVE  /\ <<>> \in Seq(Writes) /\ Ordered(t, <<>>)
           /\ Rightful(t, <<>>, u)
           /\ \A x : Becomes(t, <<>>, x) <=> t[x].type = T_DIR
<1>1. Planned(t, <<>>)  BY NoWrites
<1>2. \A x : Becomes(t, <<>>, x) <=> t[x].type = T_DIR
  <2> DEFINE ws == <<>>
  <2>1. DOMAIN ws = {}  OBVIOUS
  <2> HIDE DEF ws
  <2>2. \A x : Becomes(t, ws, x) <=> t[x].type = T_DIR
    BY <2>1 DEF Becomes
  <2> QED  BY <2>2 DEF ws
<1> QED  BY <1>1, <1>2, GrowsRightful DEF Planned

LEMMA CmdIs ==
    \A k, u, to, fate :
        /\ Cmd(k, u, to, fate).k = k /\ Cmd(k, u, to, fate).u = u
        /\ Cmd(k, u, to, fate).to = to /\ Cmd(k, u, to, fate).fate = fate
        /\ Cmd(k, u, to, fate) = Idle => k = "idle"
        /\ Idle.k = "idle" /\ Idle.to = 0 /\ Idle.fate = "returns"
BY DEF Cmd, Idle

LEMMA InitRInv == Init => RInv
<1> SUFFICES ASSUME Init PROVE RInv
  OBVIOUS
<1>1. /\ ino = After(Formatted, FormatWrites) /\ cwd = [u \in Users |-> 0]
      /\ cmd = Idle /\ todo = <<>> /\ torn = FALSE /\ crashed = FALSE /\ lost = FALSE
  BY DEF Init
<1>2. ino = After(Formatted, Founding)  BY <1>1, FormattedIs, FormatIs, ClearLeads
<1>3. 0 \in Inums  BY NinodeIs DEF Inums
<1>4. ino \in Tables /\ EntriesIn(ino)
  BY <1>2, FormattedIs, FoundingIs, AfterTyped, AfterSound
<1>5. ino[0].type = T_DIR
  BY <1>2, <1>3, FormattedIs, FoundingIs, AfterBecomes
<1>6. todo \in Seq(Writes) /\ Ordered(ino, todo) /\ Rightful(ino, todo, cmd.u)
  BY <1>1, <1>4, NothingToDo
<1>7. cmd.k = "idle" /\ cmd.to = 0 /\ cmd.fate = "returns" /\ Quiet
  BY <1>1, CmdIs DEF Quiet
<1>8. Typed  BY <1>1, <1>3, <1>4, <1>6, <1>7 DEF Typed, Kinds
<1>9. Placed  BY <1>1, <1>5, <1>7 DEF Placed
<1> QED  BY <1>1, <1>4, <1>6, <1>8, <1>9 DEF RInv, Writing

(* A command starts: what its plan must be.                                *)
Ready(k, u, p, to) ==
    /\ k \in Kinds \ {"idle", "f"} /\ u \in Users /\ to \in Inums
    /\ p.fate \in Fates /\ p.ws \in Seq(Writes)
    /\ Ordered(ino, p.ws) /\ Rightful(ino, p.ws, u)
    /\ ~lost /\ p.fate = "returns" => Becomes(ino, p.ws, to)

LEMMA BeginRInv ==
    ASSUME RInv, NEW k, NEW u, NEW p, NEW to, Ready(k, u, p, to),
           Begin(k, u, p, to)
    PROVE  RInv'
<1> DEFINE ws == p.ws  fate == p.fate
<1>1. /\ Quiet /\ ~torn /\ cmd' = Cmd(k, u, to, fate) /\ todo' = ws
      /\ ino' = ino /\ cwd' = cwd /\ torn' = torn /\ crashed' = crashed /\ lost' = lost
  BY DEF Begin
<1>2. /\ k \in Kinds \ {"idle", "f"} /\ u \in Users /\ to \in Inums
      /\ fate \in Fates /\ ws \in Seq(Writes)
      /\ Ordered(ino, ws) /\ Rightful(ino, ws, u)
      /\ ~lost /\ fate = "returns" => Becomes(ino, ws, to)
  BY DEF Ready
<1> HIDE DEF ws, fate
<1>3. /\ cmd'.k = k /\ cmd'.u = u /\ cmd'.to = to /\ cmd'.fate = fate
      /\ cmd' # Idle
  BY <1>1, <1>2, CmdIs
<1>4. cmd.k = "idle"  BY <1>1, CmdIs DEF Quiet
<1>5. Typed'
  BY <1>1, <1>2, <1>3 DEF RInv, Typed, Quiet, Fates
<1>6. Placed'
  <2>1. ~lost => \A x \in Users : ino[cwd[x]].type = T_DIR
    BY <1>4 DEF RInv, Placed
  <2> QED  BY <1>1, <1>2, <1>3, <2>1 DEF Placed
<1>7. Writing'  BY <1>1, <1>2, <1>3 DEF RInv, Writing
<1> QED  BY <1>1, <1>5, <1>6, <1>7 DEF RInv

LEMMA Standing ==
    ASSUME RInv, NEW u \in Users, Quiet, ~torn
    PROVE  /\ ino \in Tables /\ EntriesIn(ino) /\ Where(u) \in Inums
           /\ u \in Nat \ {0} /\ ino[Where(u)].type \in Types
           /\ ~lost => ino[Where(u)].type = T_DIR
<1>1. cmd.k # "f"  BY CmdIs DEF Quiet
<1>2. ino \in Tables /\ EntriesIn(ino) /\ cwd[u] \in Inums /\ 0 \in Inums
  BY NinodeIs DEF RInv, Typed, Writing, Inums
<1>3. Where(u) \in Inums  BY <1>2 DEF Where
<1>4. ino[Where(u)] \in Nodes  BY <1>2, <1>3 DEF Tables
<1>5. ~lost => ino[cwd[u]].type = T_DIR  BY <1>1 DEF RInv, Placed
<1>6. ~lost => Where(u) = cwd[u]  BY <1>5 DEF Where, T_DIR
<1> QED  BY <1>2, <1>3, <1>4, <1>5, <1>6, FsTreeAssumption DEF Nodes

LEMMA MakeRInv ==
    ASSUME RInv, NEW u \in Users, NEW name \in Names, NEW mode \in Modes,
           cmd_mk(u, name, mode) \/ cmd_mkdir(u, name, mode)
    PROVE  RInv'
<1> DEFINE p(type) == make(ino, type, name, Where(u), u, mode)
<1>1. PICK type \in {T_DIR, T_FILE}, k \in {"mk", "mkdir"} :
        Begin(k, u, p(type), Where(u))
  BY DEF cmd_mk, cmd_mkdir, Do
<1>2. Quiet /\ ~torn /\ Exists(Where(u))  BY DEF cmd_mk, cmd_mkdir, Do, Begin
<1>3. /\ ino \in Tables /\ EntriesIn(ino) /\ Where(u) \in Inums
      /\ ino[Where(u)].type = T_DIR /\ ino[Where(u)].type # T_FILE
  BY <1>2, Standing DEF Exists, T_DIR, T_FILE
<1>4. name \in Labels  BY DEF Labels
<1>5. Good(ino, p(type))  BY <1>3, <1>4, MakeGood
<1> HIDE DEF p
<1>6. Becomes(ino, p(type).ws, Where(u))
  BY <1>3, <1>5 DEF Becomes, Good, Planned
<1>7. Rightful(ino, p(type).ws, u)  BY <1>5, GrowsRightful DEF Good
<1>8. Ready(k, u, p(type), Where(u))
  BY <1>3, <1>5, <1>6, <1>7 DEF Ready, Good, Planned, Kinds, Fates
<1> QED  BY <1>1, <1>8, BeginRInv

LEMMA RemoveRInv ==
    ASSUME RInv, NEW u \in Users, NEW name,
           cmd_rm(u, name) \/ cmd_rmdir(u, name)
    PROVE  RInv'
<1>1. PICK k \in {"rm", "rmdir"},
           p \in {rm(ino, name, Where(u), u), rmdir(ino, name, Where(u), u)} :
        Begin(k, u, p, Where(u))
  BY DEF cmd_rm, cmd_rmdir, Do
<1>2. Quiet /\ ~torn /\ Exists(Where(u))  BY DEF cmd_rm, cmd_rmdir, Do, Begin
<1>3. /\ ino \in Tables /\ EntriesIn(ino) /\ Where(u) \in Inums
      /\ ino[Where(u)].type = T_DIR
  BY <1>2, Standing DEF Exists
<1>4. Clean(ino, p, u)  BY <1>1, <1>3, RmClean, RmdirClean
<1>5. /\ Shrinks(ino, p.ws, u) /\ p.fate \in Fates /\ p.ws \in Seq(Writes)
  BY <1>4 DEF Clean, Shrinks
<1>6. Ordered(ino, p.ws) /\ Rightful(ino, p.ws, u)
  BY <1>3, <1>5, ShrinksOrdered, ShrinksRightful
<1>7. Becomes(ino, p.ws, Where(u))  BY <1>3, <1>6 DEF Becomes
<1>8. Ready(k, u, p, Where(u))
  BY <1>3, <1>5, <1>6, <1>7 DEF Ready, Kinds
<1> QED  BY <1>1, <1>8, BeginRInv

LEMMA GoRInv ==
    ASSUME RInv, NEW u \in Users, NEW from \in {0, Where(u)}, NEW path,
           path = <<>> \/ \E name : path = <<name>>, cmd_cd(u, from, path)
    PROVE  RInv'
<1> DEFINE to == cd(ino, u, from, path)  p == Plan(TRUE, "returns", <<>>)
<1>1. Exists(from) /\ to # NINODE /\ Begin("cd", u, p, to)
  BY DEF cmd_cd
<1>2. ino \in Tables /\ from \in Inums /\ ino[from].type = T_DIR
  <2>1. Quiet /\ ~torn  BY <1>1 DEF Begin
  <2> QED  BY <1>1, <2>1, NinodeIs, Standing DEF Exists, Inums
<1>3. to \in Inums /\ ino[to].type = T_DIR
  <2>1. CASE path = <<>>  BY <1>2, <2>1, CdNone
  <2>2. CASE \E name : path = <<name>>  BY <1>1, <1>2, <2>2, CdIs
  <2> QED  BY <2>1, <2>2
<1> HIDE DEF to
<1>4. p.ws = <<>> /\ p.fate = "returns"  BY DEF Plan
<1> HIDE DEF p
<1>5. Ready("cd", u, p, to)
  BY <1>2, <1>3, <1>4, NothingToDo DEF Ready, Kinds, Fates
<1> QED  BY <1>1, <1>5, BeginRInv

LEMMA RefusedRInv ==
    ASSUME RInv, NEW u \in Users, refused(u)
    PROVE  RInv'
<1> DEFINE p == Refused  to == Where(u)
<1>1. Begin("refused", u, p, to)  BY DEF refused
<1>2. Quiet /\ ~torn  BY <1>1 DEF Begin
<1>3. ino \in Tables /\ to \in Inums /\ (~lost => ino[to].type = T_DIR)
  BY <1>2, Standing
<1> HIDE DEF to
<1>4. p.ws = <<>> /\ p.fate = "returns"  BY DEF Refused, Plan
<1> HIDE DEF p
<1>5. Ready("refused", u, p, to)
  BY <1>3, <1>4, NothingToDo DEF Ready, Kinds, Fates
<1> QED  BY <1>1, <1>5, BeginRInv

LEMMA LoginRInv ==
    ASSUME RInv, NEW u \in Users, cmd_login(u)
    PROVE  RInv'
<1> DEFINE h == to_home(ino, u, Where(u))
<1>1. ino[Where(u)].type # T_FILE /\ Begin("login", u, h.p1, h.to)
  BY DEF cmd_login
<1>2. Quiet /\ ~torn  BY <1>1 DEF Begin
<1>3. /\ ino \in Tables /\ EntriesIn(ino) /\ Where(u) \in Inums
      /\ ~lost => ino[Where(u)].type = T_DIR
  BY <1>2, Standing
<1>4. /\ Good(ino, h.p1) /\ h.to \in Inums
      /\ ino[Where(u)].type = T_DIR => Becomes(ino, h.p1.ws, h.to)
  BY <1>1, <1>3, ToHomeGood
<1> HIDE DEF h
<1>5. Rightful(ino, h.p1.ws, u)  BY <1>4, GrowsRightful DEF Good
<1>6. Ready("login", u, h.p1, h.to)
  BY <1>3, <1>4, <1>5 DEF Ready, Good, Planned, Kinds, Fates
<1> QED  BY <1>1, <1>6, BeginRInv

LEMMA FormatRInv == ASSUME RInv, cmd_f PROVE RInv'
<1>1. /\ Quiet /\ cmd' = Cmd("f", 1, Homes.to, "returns") /\ todo' = FormatWrites
      /\ ino' = ino /\ cwd' = [cwd EXCEPT ![1] = 0] /\ torn' = TRUE
      /\ lost' = (lost \/ \E u \in Users \ {1} : cwd[u] # 0) /\ crashed' = crashed
  BY DEF cmd_f
<1>2. ino \in Tables /\ cwd \in [Users -> Inums] /\ 1 \in Users /\ 0 \in Inums
  BY NinodeIs, FsTreeAssumption DEF RInv, Typed, Inums
<1>3. /\ FormatWrites \in Seq(Writes) /\ ToClear(ino, FormatWrites)
      /\ Homes.to \in Inums
  BY <1>2, FormatIs, FoundingIs
<1>4. /\ cmd'.k = "f" /\ cmd'.u = 1 /\ cmd'.to = Homes.to /\ cmd'.fate = "returns"
      /\ cmd' # Idle
  BY <1>1, CmdIs
<1>5. cwd' \in [Users -> Inums] /\ \A u \in Users \ {1} : cwd'[u] = cwd[u]
  BY <1>1, <1>2
<1>6. Typed'
  BY <1>1, <1>2, <1>3, <1>4, <1>5 DEF RInv, Typed, Quiet, Kinds
<1>7. Placed'  BY <1>1, <1>4, <1>5 DEF Placed
<1>8. Clearings'  BY <1>1, <1>3 DEF Clearings
<1> QED  BY <1>1, <1>6, <1>7, <1>8 DEF RInv

(* A write of a format that is still clearing.                             *)
LEMMA ClearingRInv == ASSUME RInv, Step, torn PROVE RInv'
<1>1. /\ todo # <<>> /\ ino' = Apply(ino, Head(todo)) /\ todo' = Tail(todo)
      /\ torn' = (torn /\ Tail(todo) # Founding) /\ crashed' = (crashed /\ torn' = torn)
      /\ cwd' = cwd /\ cmd' = cmd /\ lost' = lost
  BY DEF Step
<1>2. ino \in Tables /\ todo \in Seq(Writes) /\ ~Quiet
  BY <1>1 DEF RInv, Typed
<1>3. cmd = Cmd("f", 1, Homes.to, "returns") /\ ToClear(ino, todo)
  BY <1>2 DEF RInv, Clearings
<1>4. cmd.k = "f" /\ cmd.to = Homes.to /\ cmd.fate = "returns"  BY <1>3, CmdIs
<1>5. \/ todo' = Founding /\ ino' = Formatted /\ ~torn'
      \/ torn' /\ ToClear(ino', todo')
  BY <1>1, <1>2, <1>3, ClearStep
<1>6. ino' \in Tables /\ todo' \in Seq(Writes)
  BY <1>1, <1>2, PlanIs, ApplyTyped
<1>7. Typed'
  <2>1. torn' \in BOOLEAN /\ crashed' \in BOOLEAN  BY <1>1 DEF RInv, Typed
  <2> QED  BY <1>1, <1>2, <1>6, <2>1 DEF RInv, Typed, Quiet
<1>8. CASE todo' = Founding /\ ino' = Formatted /\ ~torn'
  <2>1. Writing'  BY <1>1, <1>4, <1>8, FormattedIs, FoundingIs DEF Writing
  <2>2. Placed'
    BY <1>1, <1>4, <1>8, FoundingIs DEF RInv, Placed
  <2> QED  BY <1>7, <1>8, <2>1, <2>2 DEF RInv
<1>9. CASE torn' /\ ToClear(ino', todo')
  <2>1. Clearings'  BY <1>1, <1>3, <1>9 DEF Clearings
  <2>2. Placed'  BY <1>1, <1>4, <1>9 DEF RInv, Placed
  <2> QED  BY <1>7, <1>9, <2>1, <2>2 DEF RInv
<1> QED  BY <1>5, <1>8, <1>9

LEMMA StepRInv == ASSUME RInv, Step, ~torn PROVE RInv'
<1>1. /\ todo # <<>> /\ ino' = Apply(ino, Head(todo)) /\ todo' = Tail(todo)
      /\ cwd' = cwd /\ cmd' = cmd /\ lost' = lost
      /\ torn' = FALSE /\ crashed' \in BOOLEAN
  BY DEF Step, RInv, Typed
<1>2. ino \in Tables /\ todo \in Seq(Writes) /\ EntriesIn(ino) /\ Ordered(ino, todo)
  BY DEF RInv, Typed, Writing
<1>3. /\ Head(todo) = todo[1] /\ todo[1] \in Writes /\ Tail(todo) \in Seq(Writes)
  BY <1>1, <1>2, PlanIs
<1>4. /\ ino' = Apply(ino, todo[1]) /\ ino' \in Tables
      /\ EntriesIn(ino') /\ Ordered(ino', todo')
  BY <1>1, <1>2, <1>3, StepSound, ApplyTyped
<1>5. \A x \in Inums : Becomes(ino, todo, x) => Becomes(ino', todo', x)
  BY <1>1, <1>2, <1>4, StepBecomes
<1>6. cmd.k # "f" => Rightful(ino', todo', cmd.u)
  BY <1>1, <1>2, <1>4, StepRightful DEF RInv, Writing
<1>7. Typed'  BY <1>1, <1>3, <1>4 DEF RInv, Typed, Quiet
<1>8. Placed'
  <2>1. ASSUME ~lost, cmd.k # "f" PROVE \A u \in Users : ino'[cwd[u]].type = T_DIR
    <3> SUFFICES ASSUME NEW u \in Users PROVE ino'[cwd[u]].type = T_DIR
      OBVIOUS
    <3>1. cwd[u] \in Inums /\ ino[cwd[u]].type = T_DIR
      BY <2>1 DEF RInv, Typed, Placed
    <3>2. ino[cwd[u]].type # "empty"  BY <3>1 DEF T_DIR
    <3> QED  BY <1>1, <1>2, <1>4, <3>1, <3>2, ThereStays DEF Ordered
  <2>2. 0 \in Inums /\ cmd.to \in Inums  BY NinodeIs DEF Inums, RInv, Typed
  <2> QED  BY <1>1, <1>5, <2>1, <2>2 DEF RInv, Placed, Quiet
<1>9. Writing'  BY <1>1, <1>4, <1>6 DEF Writing
<1> QED  BY <1>1, <1>7, <1>8, <1>9 DEF RInv

LEMMA FinishRInv == ASSUME RInv, Finish PROVE RInv'
<1>1. /\ ~Quiet /\ todo = <<>> /\ cmd' = Idle
      /\ cwd' = IF cmd.fate = "returns" THEN [cwd EXCEPT ![cmd.u] = cmd.to] ELSE cwd
      /\ crashed' = (crashed \/ cmd.fate = "asserts")
      /\ ino' = ino /\ todo' = <<>> /\ torn' = torn /\ lost' = lost
  BY DEF Finish
<1>0. ~torn  BY <1>1, ClearLeads DEF RInv, Typed, Clearings
<1>2. /\ ino \in Tables /\ EntriesIn(ino) /\ cwd \in [Users -> Inums]
      /\ cmd.to \in Inums /\ cmd.u \in Users /\ 0 \in Inums
  BY <1>0, <1>1, NinodeIs DEF RInv, Typed, Writing, Inums
<1>3. cmd'.k = "idle" /\ cmd'.to = 0 /\ cmd'.fate = "returns" /\ Quiet'
  BY <1>1, CmdIs DEF Quiet
<1>4. /\ todo' \in Seq(Writes) /\ Ordered(ino', todo')
      /\ Rightful(ino', todo', cmd'.u)
  BY <1>1, <1>2, NothingToDo
<1>5. cwd' \in [Users -> Inums]  BY <1>1, <1>2
<1>6. Typed'  BY <1>1, <1>2, <1>3, <1>4, <1>5 DEF RInv, Typed, Kinds
<1>7. ASSUME ~lost, NEW u \in Users PROVE ino[cwd'[u]].type = T_DIR
  <2>1. \A x : Becomes(ino, todo, x) <=> ino[x].type = T_DIR
    BY <1>1, <1>2, NothingToDo
  <2>2. CASE cmd.fate = "returns" /\ u = cmd.u
    BY <1>0, <1>1, <1>2, <1>7, <2>1, <2>2 DEF RInv, Placed
  <2>3. CASE ~(cmd.fate = "returns" /\ u = cmd.u)
    <3>1. cwd'[u] = cwd[u]  BY <1>1, <1>2, <2>3
    <3>2. CASE cmd.k # "f"  BY <1>7, <3>1, <3>2 DEF RInv, Placed
    <3>3. CASE cmd.k = "f"
      BY <1>0, <1>7, <2>1, <2>3, <3>1, <3>3 DEF RInv, Placed
    <3> QED  BY <3>2, <3>3
  <2> QED  BY <2>2, <2>3
<1>8. Placed'  BY <1>1, <1>3, <1>7 DEF Placed
<1>9. Writing'  BY <1>1, <1>2, <1>4 DEF Writing
<1> QED  BY <1>0, <1>1, <1>6, <1>8, <1>9 DEF RInv

LEMMA CrashRInv == ASSUME RInv, Crash PROVE RInv'
<1>1. /\ todo' = <<>> /\ cmd' = Idle /\ crashed' = TRUE
      /\ lost' = (lost \/ cmd.k = "f") /\ ino' = ino /\ cwd' = cwd /\ torn' = torn
  BY DEF Crash
<1>2. ino \in Tables /\ (~torn => EntriesIn(ino))  BY DEF RInv, Typed, Writing
<1>3. cmd'.k = "idle" /\ cmd'.to = 0 /\ cmd'.fate = "returns" /\ Quiet'
  BY <1>1, CmdIs DEF Quiet
<1>4. /\ todo' \in Seq(Writes) /\ Ordered(ino', todo')
      /\ Rightful(ino', todo', cmd'.u)
  BY <1>1, <1>2, NothingToDo
<1>5. 0 \in Inums  BY NinodeIs DEF Inums
<1>6. Typed'  BY <1>1, <1>3, <1>4, <1>5 DEF RInv, Typed, Kinds
<1>7. Placed'  BY <1>1, <1>3 DEF RInv, Placed
<1>8. ~torn => Writing'  BY <1>1, <1>2, <1>4 DEF Writing
<1>9. Clearings'  BY <1>1, <1>3 DEF Clearings
<1> QED  BY <1>1, <1>6, <1>7, <1>8, <1>9 DEF RInv

LEMMA NextRInv == ASSUME RInv, [Next]_vars PROVE RInv'
<1>1. CASE UNCHANGED vars
  BY <1>1 DEF vars, RInv, Typed, Placed, Quiet, Writing, Clearings
<1>2. ASSUME NEW u \in Users, NEW name \in Names, NEW mode \in Modes,
             cmd_mk(u, name, mode) \/ cmd_mkdir(u, name, mode)
      PROVE  RInv'
  BY <1>2, MakeRInv
<1>3. ASSUME NEW u \in Users, NEW name, cmd_rm(u, name) \/ cmd_rmdir(u, name)
      PROVE  RInv'
  BY <1>3, RemoveRInv
<1>4. ASSUME NEW u \in Users, NEW from \in {0, Where(u)}, NEW name,
             cmd_cd(u, from, <<name>>)
      PROVE  RInv'
  <2>1. <<name>> = <<>> \/ \E x : <<name>> = <<x>>  OBVIOUS
  <2> QED  BY <1>4, <2>1, GoRInv
<1>5. ASSUME NEW u \in Users, cmd_login(u) \/ refused(u) PROVE RInv'
  BY <1>5, LoginRInv, RefusedRInv
<1>6. ASSUME NEW u \in Users, cmd_cd(u, 0, <<>>) PROVE RInv'
  BY <1>6, GoRInv
<1>7. CASE cmd_f \/ Step \/ Finish \/ Crash
  BY <1>7, FormatRInv, ClearingRInv, StepRInv, FinishRInv, CrashRInv
<1> QED  BY <1>1, <1>2, <1>3, <1>4, <1>5, <1>6, <1>7 DEF Next

(* The inductive invariant: a format that is clearing has before it what   *)
(* empties the table and then what makes the root and the homes; from then *)
(* on, and for every other command, the writes still to make are in an     *)
(* order that leaves the entries sound at every one of them, remove only   *)
(* what the user of the command may remove, and make the directories its   *)
(* end needs.                                                              *)
THEOREM TreeInvariance == Spec => []RInv
<1>1. RInv /\ [Next]_vars => RInv'  BY NextRInv
<1> QED  BY <1>1, InitRInv, PTL DEF Spec

(* Whatever write the server dies at, but one of the clearing of a format, *)
(* an entry names an inode that exists; and a profile names a directory,   *)
(* unless a format took it away.                                           *)
THEOREM NamesExist == Spec => []NothingDangles
<1>1. ASSUME RInv PROVE NothingDangles
  <2>1. EntriesExist
    BY <1>1 DEF RInv, Writing, EntriesIn, EntriesExist, Dirs, Live, LiveIn
  <2>2. CwdIsDirectory
    BY <1>1 DEF RInv, Typed, Placed, CwdIsDirectory, Dirs
  <2> QED  BY <2>1, <2>2 DEF NothingDangles
<1> QED  BY <1>1, TreeInvariance, PTL

(* An entry leaves a directory only by a user with the right to write the  *)
(* inode it names and the directory, crash or not.                         *)
THEOREM RemovedOnlyByRight == Spec => RemovedByRight
<1> DEFINE Right ==
      cmd.k # "f" =>
        \A d \in Dirs : \A e \in Children(d) \ Live(ino', d) :
            Entitled(cmd.u, e.inum) /\ Entitled(cmd.u, d)
<1>1. ASSUME RInv, Step PROVE Right
  <2> SUFFICES ASSUME cmd.k # "f", NEW d \in Dirs,
                      NEW e \in Children(d) \ Live(ino', d)
               PROVE  Entitled(cmd.u, e.inum) /\ Entitled(cmd.u, d)
    OBVIOUS
  <2>1. todo # <<>> /\ ino' = Apply(ino, Head(todo))  BY <1>1 DEF Step
  <2>2. todo \in Seq(Writes) /\ ino \in Tables /\ Rightful(ino, todo, cmd.u)
    <3>1. torn => cmd.k = "f"
      <4>1. torn => cmd = Cmd("f", 1, Homes.to, "returns")
        BY <1>1, <2>1 DEF RInv, Typed, Clearings
      <4> QED  BY <4>1, CmdIs
    <3> QED  BY <1>1, <3>1 DEF RInv, Typed, Writing
  <2>3. Head(todo) = todo[1] /\ 1 \in DOMAIN todo /\ todo[1] \in Writes
    BY <2>1, <2>2, PlanIs
  <2>4. d \in Inums  BY DEF Dirs
  <2>5. ino'[d] = IF d \in todo[1].at THEN todo[1].to ELSE ino[d]
    BY <2>1, <2>2, <2>3, <2>4, ApplyTyped
  <2>6. d \in todo[1].at  BY <2>5 DEF Children, Live
  <2>7. e \in Removes(ino[d], todo[1].to)
    BY <2>5, <2>6 DEF Removes, ChildrenIn, LiveIn, Children, Live
  <2>8. EntitledIn(ino, cmd.u, e.inum) /\ EntitledIn(ino, cmd.u, d)
    BY <2>2, <2>3, <2>6, <2>7 DEF Rightful, Allowed
  <2> QED  BY <2>8 DEF EntitledIn, Entitled
<1>2. ASSUME ino' = ino PROVE Right
  BY <1>2 DEF Children, Live
<1>3. [Next]_vars => Step \/ ino' = ino
  BY DEF Next, vars, cmd_mk, cmd_mkdir, cmd_rm, cmd_rmdir, cmd_cd, cmd_login,
         refused, cmd_f, Do, Begin, Finish, Crash
<1>4. RInv /\ [Next]_vars => [Right]_vars  BY <1>1, <1>2, <1>3
<1> HIDE DEF Right
<1> QED  BY <1>4, TreeInvariance, PTL DEF Spec, RemovedByRight, Right

-----------------------------------------------------------------------------
(* The shape is kept: short of a crash the writes still to make lead to a  *)
(* tree, but for a command that fails the assertion of delinum; that one   *)
(* works in a directory with no children.                                  *)
Childless(t, ws, d) ==
    /\ ChildrenIn(t[d]) = {}
    /\ \A k \in DOMAIN ws : d \in ws[k].at => ChildrenIn(ws[k].to) = {}
Shaped ==
    ~crashed =>
        /\ cmd.fate # "asserts" => TreeOf(After(ino, todo))
        /\ cmd.fate = "asserts" =>
             cmd.k = "rmdir" /\ Childless(ino, todo, cmd.to)
SInv == RInv /\ Shaped

LEMMA InitShaped == Init => Shaped
<1> SUFFICES ASSUME Init PROVE Shaped
  OBVIOUS
<1>1. ino = After(Formatted, FormatWrites) /\ cmd = Idle /\ todo = <<>>
  BY DEF Init
<1>2. TreeOf(ino)  BY <1>1, FormattedIs, FormatIs, ClearLeads, FoundingShape
<1>3. cmd.fate = "returns"  BY <1>1, CmdIs
<1>4. ino \in Tables  BY InitRInv DEF RInv, Typed
<1>5. After(ino, todo) = ino  BY <1>1, <1>4, NoWrites
<1> QED  BY <1>2, <1>3, <1>5 DEF Shaped

LEMMA QuietTree ==
    ASSUME SInv, Quiet, ~crashed
    PROVE  TreeOf(ino) /\ todo = <<>>
<1>1. cmd.fate = "returns"  BY CmdIs DEF Quiet
<1>2. todo = <<>> /\ ino \in Tables  BY DEF SInv, RInv, Typed
<1>3. After(ino, todo) = ino  BY <1>2, NoWrites
<1> QED  BY <1>1, <1>2, <1>3 DEF SInv, Shaped

LEMMA BeginShaped ==
    ASSUME SInv, NEW k, NEW u, NEW p, NEW to, Begin(k, u, p, to),
           TreeOf(ino) =>
             /\ p.fate # "asserts" => TreeOf(After(ino, p.ws))
             /\ p.fate = "asserts" => k = "rmdir" /\ Childless(ino, p.ws, to)
    PROVE  Shaped'
<1> DEFINE ws == p.ws  fate == p.fate
<1>1. /\ Quiet /\ cmd' = Cmd(k, u, to, fate) /\ todo' = ws
      /\ ino' = ino /\ cwd' = cwd /\ crashed' = crashed
  BY DEF Begin
<1>2. ~crashed => TreeOf(ino)  BY <1>1, QuietTree
<1>3. cmd'.k = k /\ cmd'.to = to /\ cmd'.fate = fate
  BY <1>1, CmdIs
<1>4. ~crashed =>
        /\ fate # "asserts" => TreeOf(After(ino, ws))
        /\ fate = "asserts" => k = "rmdir" /\ Childless(ino, ws, to)
  BY <1>2
<1> HIDE DEF ws, fate
<1> QED  BY <1>1, <1>3, <1>4 DEF Shaped

LEMMA MakeShaped ==
    ASSUME SInv, NEW u \in Users, NEW name \in Names, NEW mode \in Modes,
           cmd_mk(u, name, mode) \/ cmd_mkdir(u, name, mode)
    PROVE  Shaped'
<1> DEFINE p(type) == make(ino, type, name, Where(u), u, mode)
<1>1. PICK type \in {T_DIR, T_FILE}, k \in {"mk", "mkdir"} :
        Begin(k, u, p(type), Where(u))
  BY DEF cmd_mk, cmd_mkdir, Do
<1>2. Quiet /\ ~torn /\ Exists(Where(u))  BY DEF cmd_mk, cmd_mkdir, Do, Begin
<1>3. /\ ino \in Tables /\ EntriesIn(ino) /\ Where(u) \in Inums
      /\ ino[Where(u)].type # T_FILE
  BY <1>2, Standing DEF SInv, Exists, T_DIR, T_FILE
<1>4. name \in Labels  BY DEF Labels
<1>5. Good(ino, p(type))  BY <1>3, <1>4, MakeGood
<1>6. TreeOf(ino) => TreeOf(After(ino, p(type).ws))  BY <1>3, <1>4, MakeShape
<1> HIDE DEF p
<1>7. p(type).fate # "asserts"  BY <1>5 DEF Good
<1> QED  BY <1>1, <1>6, <1>7, BeginShaped

LEMMA RmShaped ==
    ASSUME SInv, NEW u \in Users, NEW name, cmd_rm(u, name)
    PROVE  Shaped'
<1> DEFINE p == rm(ino, name, Where(u), u)
<1>1. Exists(Where(u)) /\ Begin("rm", u, p, Where(u)) /\ Quiet /\ ~torn
  BY DEF cmd_rm, Do, Begin
<1>2. ino \in Tables /\ Where(u) \in DirsOf(ino)
  BY <1>1, Standing DEF SInv, Exists, DirsOf
<1>3. TreeOf(ino) => p.fate = "returns" /\ TreeOf(After(ino, p.ws))
  BY <1>2, RmShape
<1> HIDE DEF p
<1> QED  BY <1>1, <1>3, BeginShaped

LEMMA RmdirShaped ==
    ASSUME SInv, NEW u \in Users, NEW name, cmd_rmdir(u, name)
    PROVE  Shaped'
<1> DEFINE p == rmdir(ino, name, Where(u), u)
<1>1. Exists(Where(u)) /\ Begin("rmdir", u, p, Where(u)) /\ Quiet /\ ~torn
  BY DEF cmd_rmdir, Do, Begin
<1>2. /\ ino \in Tables /\ Where(u) \in DirsOf(ino) /\ Where(u) \in Inums
      /\ ino[Where(u)].type = T_DIR
  BY <1>1, Standing DEF SInv, Exists, DirsOf
<1>3. TreeOf(ino) =>
        \/ p.fate = "returns" /\ TreeOf(After(ino, p.ws))
        \/ p.fate = "asserts" /\ ChildrenIn(ino[Where(u)]) = {}
  BY <1>2, RmdirShape
<1>4. Clean(ino, p, u)  BY <1>2, RmdirClean
<1> HIDE DEF p
<1>5. ChildrenIn(ino[Where(u)]) = {} => Childless(ino, p.ws, Where(u))
  BY <1>4 DEF Clean, Shrinks, Shrunk, Childless, ChildrenIn
<1> QED  BY <1>1, <1>3, <1>5, BeginShaped

LEMMA GoShaped ==
    ASSUME SInv, NEW u \in Users, NEW from, NEW path, cmd_cd(u, from, path)
    PROVE  Shaped'
<1> DEFINE to == cd(ino, u, from, path)  p == Plan(TRUE, "returns", <<>>)
<1>1. Begin("cd", u, p, to)  BY DEF cmd_cd
<1> HIDE DEF to
<1>2. p.ws = <<>> /\ p.fate = "returns"  BY DEF Plan
<1>3. ino \in Tables  BY DEF SInv, RInv, Typed
<1>4. After(ino, p.ws) = ino  BY <1>2, <1>3, NoWrites
<1> HIDE DEF p
<1> QED  BY <1>1, <1>2, <1>4, BeginShaped

LEMMA LoginShaped ==
    ASSUME SInv, NEW u \in Users, cmd_login(u)
    PROVE  Shaped'
<1> DEFINE h == to_home(ino, u, Where(u))
<1>1. /\ ino[Where(u)].type # T_FILE /\ Begin("login", u, h.p1, h.to)
      /\ Quiet /\ ~torn
  BY DEF cmd_login, Begin
<1>2. ino \in Tables /\ EntriesIn(ino) /\ Where(u) \in Inums
  BY <1>1, Standing DEF SInv
<1>3. Good(ino, h.p1)  BY <1>1, <1>2, ToHomeGood
<1>4. TreeOf(ino) => TreeOf(After(ino, h.p1.ws))  BY <1>1, <1>2, ToHomeShape
<1> HIDE DEF h
<1>5. h.p1.fate # "asserts"  BY <1>3 DEF Good
<1> QED  BY <1>1, <1>4, <1>5, BeginShaped

LEMMA RefusedShaped == ASSUME SInv, NEW u \in Users, refused(u) PROVE Shaped'
<1>1. Begin("refused", u, Refused, Where(u))  BY DEF refused
<1>2. Refused.ws = <<>> /\ Refused.fate = "returns"  BY DEF Refused, Plan
<1>3. After(ino, Refused.ws) = ino  BY <1>2, NoWrites DEF SInv, RInv, Typed
<1> QED  BY <1>1, <1>2, <1>3, BeginShaped

LEMMA FormatShaped == ASSUME SInv, cmd_f PROVE Shaped'
<1>1. /\ cmd' = Cmd("f", 1, Homes.to, "returns") /\ todo' = FormatWrites
      /\ ino' = ino
  BY DEF cmd_f
<1>2. ino \in Tables  BY DEF SInv, RInv, Typed
<1>3. TreeOf(After(ino, FormatWrites))  BY <1>2, FormatIs, ClearLeads, FoundingShape
<1>4. cmd'.fate = "returns"  BY <1>1, CmdIs
<1> QED  BY <1>1, <1>3, <1>4 DEF Shaped

LEMMA StepShaped == ASSUME SInv, Step PROVE Shaped'
<1>1. /\ todo # <<>> /\ ino' = Apply(ino, Head(todo)) /\ todo' = Tail(todo)
      /\ cmd' = cmd /\ crashed' = (crashed /\ torn' = torn)
      /\ torn' = (torn /\ Tail(todo) # Founding)
  BY DEF Step
<1>2. ino \in Tables /\ todo \in Seq(Writes) /\ cmd.to \in Inums
  BY DEF SInv, RInv, Typed
<1>3. After(ino', todo') = After(ino, todo)  BY <1>1, <1>2, AfterStep
<1>4. CASE torn
  <2>1. ~Quiet  BY <1>1 DEF SInv, RInv, Typed
  <2>2. cmd = Cmd("f", 1, Homes.to, "returns") /\ ToClear(ino, todo)
    BY <1>4, <2>1 DEF SInv, RInv, Clearings
  <2>3. cmd.fate = "returns"  BY <2>2, CmdIs
  <2>4. TreeOf(After(ino, todo))  BY <1>2, <2>2, ClearLeads, FoundingShape
  <2> QED  BY <1>1, <1>3, <2>3, <2>4 DEF Shaped
<1>5. CASE ~torn
  <2>1. crashed' = crashed
    <3>1. torn = FALSE /\ crashed \in BOOLEAN  BY <1>5 DEF SInv, RInv, Typed
    <3> QED  BY <1>1, <3>1
  <2>2. \A d \in Inums : Childless(ino, todo, d) => Childless(ino', todo', d)
    <3>1. /\ Head(todo) = todo[1] /\ todo[1] \in Writes /\ 1 \in DOMAIN todo
          /\ \A k \in DOMAIN Tail(todo) :
               Tail(todo)[k] = todo[k + 1] /\ k + 1 \in DOMAIN todo
      BY <1>1, <1>2, PlanIs
    <3>2. \A x \in Inums : ino'[x] = IF x \in todo[1].at THEN todo[1].to ELSE ino[x]
      BY <1>1, <1>2, <3>1, ApplyTyped
    <3> QED  BY <1>1, <3>1, <3>2 DEF Childless
  <2> QED  BY <1>1, <1>2, <1>3, <2>1, <2>2 DEF SInv, Shaped
<1> QED  BY <1>4, <1>5

LEMMA EndShaped == ASSUME SInv, Finish \/ Crash PROVE Shaped'
<1>1. CASE Crash  BY <1>1 DEF Crash, Shaped
<1>2. CASE Finish
  <2>1. /\ todo = <<>> /\ cmd' = Idle /\ crashed' = (crashed \/ cmd.fate = "asserts")
        /\ ino' = ino /\ todo' = todo
    BY <1>2 DEF Finish
  <2>2. cmd'.fate = "returns"  BY <2>1, CmdIs
  <2> QED  BY <2>1, <2>2 DEF SInv, Shaped
<1> QED  BY <1>1, <1>2

LEMMA NextShaped == ASSUME SInv, [Next]_vars PROVE SInv'
<1>0. RInv'  BY NextRInv DEF SInv
<1>1. CASE UNCHANGED vars
  <2>1. Shaped'  BY <1>1 DEF vars, SInv, Shaped
  <2> QED  BY <1>0, <2>1 DEF SInv
<1>2. ASSUME NEW u \in Users, NEW name \in Names, NEW mode \in Modes,
             cmd_mk(u, name, mode) \/ cmd_mkdir(u, name, mode)
      PROVE  Shaped'
  BY <1>2, MakeShaped
<1>3. ASSUME NEW u \in Users, NEW name, cmd_rm(u, name) \/ cmd_rmdir(u, name)
      PROVE  Shaped'
  BY <1>3, RmShaped, RmdirShaped
<1>4. ASSUME NEW u \in Users, NEW from, NEW path, cmd_cd(u, from, path)
      PROVE  Shaped'
  BY <1>4, GoShaped
<1>5. ASSUME NEW u \in Users, cmd_login(u) \/ refused(u) PROVE Shaped'
  BY <1>5, LoginShaped, RefusedShaped
<1>6. ASSUME cmd_f \/ Step \/ Finish \/ Crash PROVE Shaped'
  BY <1>6, FormatShaped, StepShaped, EndShaped
<1>7. ASSUME Next PROVE Shaped'
  BY <1>2, <1>3, <1>4, <1>5, <1>6, <1>7 DEF Next
<1> QED  BY <1>0, <1>1, <1>7 DEF SInv

(* Short of a crash every command leads from a tree to a tree, and after   *)
(* one a format does.                                                      *)
THEOREM TreeStaysTree == Spec => []SInv
<1>1. Init => SInv  BY InitRInv, InitShaped DEF SInv
<1>2. SInv /\ [Next]_vars => SInv'  BY NextShaped
<1> QED  BY <1>1, <1>2, PTL DEF Spec

LEMMA BeginsPrefix ==
    ASSUME NEW s \in Seq(Entries), NEW d \in Inums, NEW p \in Inums, Begins(s, d, p)
    PROVE  IsPrefix(<<Entry(".", d), Entry("..", p)>>, s)
<1> DEFINE e == Entry(".", d)  f == Entry("..", p)  r == <<e, f>>
<1>1. Len(s) >= 2 /\ Len(s) \in Nat /\ s[1] = e /\ s[2] = f  BY DEF Begins
<1>2. e \in Entries /\ f \in Entries
  BY NinodeIs DEF Entry, Entries, Labels, Inums
<1> HIDE DEF e, f
<1>3. /\ Len(r) = 2 /\ r \in Seq(Entries) /\ r[1] = e /\ r[2] = f
      /\ Len(r) >= 2 /\ Len(r) \in Nat
  BY <1>2
<1> HIDE DEF r
<1>4. \A x \in Seq(Entries) : Len(x) >= 2 =>
        /\ SubSeq(x, 1, 2) \in Seq(Entries) /\ Len(SubSeq(x, 1, 2)) = 2
        /\ \A k \in 1 .. 2 : SubSeq(x, 1, 2)[k] = x[k]
  <2>1. SUFFICES ASSUME NEW x \in Seq(Entries), Len(x) >= 2
                 PROVE  /\ SubSeq(x, 1, 2) \in Seq(Entries) /\ Len(SubSeq(x, 1, 2)) = 2
                        /\ \A k \in 1 .. 2 : SubSeq(x, 1, 2)[k] = x[k]
    OBVIOUS
  <2> QED  BY <2>1
<1>5. /\ SubSeq(r, 1, 2) \in Seq(Entries) /\ Len(SubSeq(r, 1, 2)) = 2
      /\ \A k \in 1 .. 2 : SubSeq(r, 1, 2)[k] = r[k]
  BY <1>3, <1>4, Zenon
<1>6. \A k \in 1 .. 2 : k = 1 \/ k = 2  OBVIOUS
<1>7. \A k \in 1 .. 2 : SubSeq(s, 1, 2)[k] = SubSeq(r, 1, 2)[k]
  BY <1>1, <1>3, <1>4, <1>5, <1>6
<1>8. SubSeq(r, 1, 2) = SubSeq(s, 1, 2)  BY <1>4, <1>5, <1>7, SeqEqual
<1> QED  BY <1>1, <1>3, <1>8 DEF IsPrefix, r, e, f

LEMMA TreeOfAgrees ==
    ASSUME RInv, TreeOf(ino)
    PROVE  TreeAgrees /\ HalfFull
<1>1. ino \in Tables  BY DEF RInv, Typed
<1>2. Dirs = DirsOf(ino) /\ \A d : Children(d) = ChildrenIn(ino[d])
  BY DEF Dirs, DirsOf, Children, ChildrenIn, Live, LiveIn
<1>3. TreeBut(ino, NINODE)  BY DEF TreeOf
<1>4. \A c, d \in Dirs : \A e \in Children(c), f \in Children(d) :
        e.inum = f.inum => c = d /\ e = f
  BY <1>2, <1>3 DEF TreeBut, OneParent
<1>5. ASSUME NEW d \in Dirs,
             NEW j \in DOMAIN ino[d].ents, NEW k \in DOMAIN ino[d].ents,
             j # k, NINODE \notin {ino[d].ents[j].inum, ino[d].ents[k].inum}
      PROVE  ino[d].ents[j].name # ino[d].ents[k].name
  BY <1>2, <1>3, <1>5 DEF TreeBut, Distinct
<1>6. ASSUME NEW d \in Dirs, NEW e \in Children(d), ino[e.inum].type = T_DIR
      PROVE  IsPrefix(<<Entry(".", e.inum), Entry("..", d)>>, ino[e.inum].ents)
  <2>1. d \in Inums /\ ino[d] \in Nodes  BY <1>1 DEF Dirs, Tables
  <2>2. e.inum \in Inums  BY <1>2, <2>1, LiveIs DEF ChildrenIn
  <2>3. e.inum # NINODE  BY <2>2, NinodeIs DEF Inums
  <2>4. Begins(ino[e.inum].ents, e.inum, d)
    BY <1>2, <1>3, <1>6, <2>3 DEF TreeBut, Dotted
  <2>5. ino[e.inum] \in Nodes  BY <1>1, <2>2 DEF Tables
  <2>6. ino[e.inum].ents \in Seq(Entries)  BY <2>5, NodeIs
  <2> QED  BY <2>1, <2>2, <2>4, <2>6, BeginsPrefix
<1>7. \A d \in Dirs : 2 * Deleted(ino[d].ents) <= Len(ino[d].ents)
  BY <1>2, <1>3 DEF TreeBut, Half
<1>8. TreeAgrees  BY <1>4, <1>5, <1>6 DEF TreeAgrees
<1> QED  BY <1>7, <1>8 DEF HalfFull

(* The directories keep their shape under every command, deletion and      *)
(* compaction, and delinum keeps as many entries as it counted but in the  *)
(* rmdir of an empty current directory.                                    *)
THEOREM ShapeKept == Spec => []Shape
<1>1. ASSUME SInv PROVE Shape
  <2>1. RInv /\ Shaped  BY <1>1 DEF SInv
  <2>2. TypeOK
    <3>1. ASSUME NEW i \in Inums
          PROVE  /\ ino[i].type \in {"empty", T_DIR, T_FILE}
                 /\ ino[i].mode \in Modes \cup {NoRights}
                 /\ ino[i].uid \in Users \cup {0}
                 /\ ino[i].type # T_DIR => ino[i].ents = <<>>
                 /\ \A e \in ToSet(ino[i].ents) : e.inum \in 0 .. NINODE
      <4>1. ino[i] \in Nodes  BY <2>1 DEF RInv, Typed, Tables
      <4>2. ino[i].ents \in Seq(Entries)  BY <4>1, NodeIs
      <4>3. \A e \in ToSet(ino[i].ents) : e \in Entries  BY <4>2 DEF ToSet
      <4> QED  BY <4>1, <4>3, NodeIs DEF Types, Entries
    <3> QED  BY <2>1, <3>1 DEF RInv, Typed, TypeOK
  <2>3. ASSUME Sound PROVE TreeAgrees /\ HalfFull
    <3>1. TreeOf(ino)  BY <1>1, <2>3, QuietTree DEF Sound
    <3> QED  BY <2>1, <3>1, TreeOfAgrees
  <2>4. TreeAgrees /\ HalfFull  BY <2>3 DEF TreeAgrees, HalfFull
  <2>5. AssertsOnlyOnDot
    BY <2>1 DEF Shaped, Childless, AssertsOnlyOnDot, Vacant, ChildrenIn, LiveIn, Live
  <2> QED  BY <2>2, <2>4, <2>5 DEF Shape
<1> QED  BY <1>1, TreeStaysTree, PTL

-----------------------------------------------------------------------------
(* The way from the root to an inode, as the entries it goes through.      *)
Led(es, j) == IF j = 0 THEN 0 ELSE es[j].inum
Trail(t, es) ==
    \A j \in 1 .. Len(es) : es[j] \in ChildrenIn(t[Led(es, j - 1)])

LEMMA TrailIs ==
    ASSUME NEW t \in Tables, NEW es \in Seq(Entries), Trail(t, es), TreeOf(t)
    PROVE  /\ \A j \in 0 .. Len(es) : Led(es, j) \in Inums
           /\ \A j \in 1 .. Len(es) :
                /\ t[Led(es, j - 1)].type = T_DIR /\ es[j].inum # 0
                /\ es[j] \in ChildrenIn(t[Led(es, j - 1)])
                /\ t[es[j].inum].type = T_DIR => Dotted(t, es[j].inum, Led(es, j - 1))
<1>1. Len(es) \in Nat  BY LenProperties
<1> DEFINE bad == {j \in 0 .. Len(es) : Led(es, j) \notin Inums}
<1>2. bad = {}
  <2>1. SUFFICES ASSUME bad # {} PROVE FALSE  OBVIOUS
  <2>2. bad \in SUBSET Nat  BY <1>1
  <2>3. PICK j \in bad : \A y \in bad : j <= y
    <3> HIDE DEF bad
    <3> QED  BY <2>1, <2>2, LeastIs
  <2>4. j # 0  BY <2>3, NinodeIs DEF Led, Inums
  <2>5. j - 1 \in 0 .. Len(es) /\ j \in 1 .. Len(es) /\ ~(j <= j - 1)
    BY <1>1, <2>3, <2>4
  <2>6. Led(es, j - 1) \in Inums  BY <2>3, <2>5
  <2>7. t[Led(es, j - 1)] \in Nodes  BY <2>6 DEF Tables
  <2>8. es[j] \in LiveIn(t[Led(es, j - 1)])  BY <2>5 DEF Trail, ChildrenIn
  <2>9. es[j].inum \in Inums  BY <2>7, <2>8, LiveIs
  <2> QED  BY <2>3, <2>4, <2>9 DEF Led
<1>3. ASSUME NEW j \in 1 .. Len(es)
      PROVE  /\ t[Led(es, j - 1)].type = T_DIR /\ es[j].inum # 0
             /\ es[j] \in ChildrenIn(t[Led(es, j - 1)])
             /\ t[es[j].inum].type = T_DIR => Dotted(t, es[j].inum, Led(es, j - 1))
  <2> DEFINE d == Led(es, j - 1)  e == es[j]
  <2>1. d \in Inums /\ e \in ChildrenIn(t[d])
    <3>1. j - 1 \in 0 .. Len(es)  BY <1>1
    <3> QED  BY <1>2, <3>1 DEF Trail
  <2>2. t[d] \in Nodes  BY <2>1 DEF Tables
  <2>3. t[d].type = T_DIR  BY <2>1, <2>2, LiveIs DEF ChildrenIn
  <2>4. d \in DirsOf(t)  BY <2>1, <2>3 DEF DirsOf
  <2>5. e.inum # NINODE  BY <2>1 DEF ChildrenIn, LiveIn
  <2> QED  BY <2>1, <2>3, <2>4, <2>5 DEF TreeOf, TreeBut
<1> QED  BY <1>2, <1>3

(* It does not come to an inode twice.                                     *)
LEMMA TrailApart ==
    ASSUME NEW t \in Tables, NEW es \in Seq(Entries), Trail(t, es), TreeOf(t),
           NEW i \in 0 .. Len(es), NEW j \in 0 .. Len(es), i < j
    PROVE  Led(es, i) # Led(es, j)
<1> DEFINE n == Len(es)
           Twice(k) == \E l \in 0 .. n : k < l /\ Led(es, k) = Led(es, l)
           bad == {k \in 0 .. n : Twice(k)}
<1>1. n \in Nat  BY LenProperties
<1> HIDE DEF n
<1>2. SUFFICES ASSUME bad # {} PROVE FALSE  BY DEF n
<1>3. bad \in SUBSET Nat  BY <1>1
<1>4. PICK k \in bad : \A y \in bad : k <= y
  <2> HIDE DEF bad
  <2> QED  BY <1>2, <1>3, LeastIs
<1>5. PICK l \in 0 .. n : k < l /\ Led(es, k) = Led(es, l)  BY <1>4
<1>6. k \in 0 .. n /\ l \in 1 .. n /\ l # 0  BY <1>1, <1>4, <1>5
<1>7. es[l].inum # 0 /\ Led(es, l) = es[l].inum  BY <1>6, TrailIs DEF Led, n
<1>8. k # 0  BY <1>5, <1>7 DEF Led
<1>9. /\ k \in 1 .. n /\ k - 1 \in 0 .. n /\ l - 1 \in 0 .. n /\ k - 1 < l - 1
      /\ ~(k <= k - 1)
  BY <1>1, <1>5, <1>6, <1>8
<1>10. /\ es[k] \in ChildrenIn(t[Led(es, k - 1)]) /\ Led(es, k - 1) \in DirsOf(t)
       /\ es[l] \in ChildrenIn(t[Led(es, l - 1)]) /\ Led(es, l - 1) \in DirsOf(t)
  BY <1>6, <1>9, TrailIs DEF DirsOf, n
<1>11. es[k].inum = es[l].inum  BY <1>5, <1>7, <1>8 DEF Led
<1>12. Led(es, k - 1) = Led(es, l - 1)  BY <1>10, <1>11 DEF TreeOf, TreeBut, OneParent
<1>13. k - 1 \in bad  BY <1>9, <1>12
<1> QED  BY <1>4, <1>9, <1>13
(* Where a directory of the way looks for the next one it finds it: its    *)
(* dots lead to itself and to the one before.                              *)
LEMMA DotsBefore ==
    ASSUME NEW t \in Tables, NEW es \in Seq(Entries), Trail(t, es), TreeOf(t),
           NEW j \in 1 .. Len(es), NEW e \in LiveIn(t[Led(es, j - 1)]),
           e.name \in {".", ".."}
    PROVE  e.inum # es[j].inum
<1> DEFINE d == Led(es, j - 1)
<1>1. Len(es) \in Nat /\ j - 1 \in 0 .. Len(es) /\ j \in 0 .. Len(es) /\ j # 0
  BY LenProperties
<1>2. d \in Inums /\ t[d].type = T_DIR /\ d \in DirsOf(t)
  BY <1>1, TrailIs DEF DirsOf
<1>3. PICK p \in Inums : /\ Dotted(t, d, p) /\ Under(t, d, p)
                         /\ e = Entry(".", d) \/ e = Entry("..", p)
  BY <1>2, DotsLead DEF TreeOf
<1>4. Led(es, j) = es[j].inum  BY <1>1 DEF Led
<1>5. d # es[j].inum
  <2>1. j - 1 < j  BY <1>1
  <2> QED  BY <1>1, <1>4, <2>1, TrailApart
<1>6. p # es[j].inum
  <2>1. CASE j = 1
    <3>1. d = 0  BY <2>1 DEF Led
    <3>2. ~ChildOf(t, 0, p)  BY DEF ChildOf, TreeOf, TreeBut, DirsOf
    <3>3. p = 0  BY <1>3, <3>1, <3>2 DEF Under
    <3> QED  BY <3>3, TrailIs
  <2>2. CASE j # 1
    <3>1. j - 1 \in 1 .. Len(es) /\ j - 2 \in 0 .. Len(es) /\ j - 2 < j /\ j - 1 # 0
          /\ (j - 1) - 1 = j - 2
      BY <1>1, <2>2
    <3>2. d = es[j - 1].inum  BY <3>1 DEF Led
    <3>3. Dotted(t, d, Led(es, j - 2))  BY <1>2, <3>1, <3>2, TrailIs
    <3>4. Entry("..", p) = Entry("..", Led(es, j - 2))
      BY <1>3, <3>3 DEF Dotted, Begins
    <3>5. p = Led(es, j - 2)  BY <3>4 DEF Entry
    <3> QED  BY <1>1, <1>4, <3>1, <3>5, TrailApart
  <2> QED  BY <2>1, <2>2
<1> QED  BY <1>3, <1>5, <1>6 DEF Entry

LEMMA OneEntry ==
    ASSUME NEW t \in Tables, NEW es \in Seq(Entries), Trail(t, es), TreeOf(t),
           NEW j \in 1 .. Len(es), NEW e \in LiveIn(t[Led(es, j - 1)])
    PROVE  e.inum = es[j].inum \/ e.name = es[j].name => e = es[j]
<1> DEFINE d == Led(es, j - 1)  s == t[d].ents
<1>1. /\ d \in DirsOf(t) /\ t[d] \in Nodes /\ es[j] \in ChildrenIn(t[d])
      /\ es[j] \in LiveIn(t[d])
  <2>1. Len(es) \in Nat /\ j - 1 \in 0 .. Len(es)  BY LenProperties
  <2>2. d \in Inums /\ t[d].type = T_DIR /\ es[j] \in ChildrenIn(t[d])
    BY <2>1, TrailIs
  <2> QED  BY <2>2 DEF DirsOf, Tables, ChildrenIn
<1>2. ASSUME e.inum = es[j].inum PROVE e = es[j]
  <2>1. e \in ChildrenIn(t[d])  BY <1>2, DotsBefore DEF ChildrenIn
  <2> QED  BY <1>1, <1>2, <2>1 DEF TreeOf, TreeBut, OneParent
<1>3. ASSUME e.name = es[j].name PROVE e = es[j]
  <2>1. PICK k \in DOMAIN s : s[k] = e  BY <1>1, LiveIs
  <2>2. PICK l \in DOMAIN s : s[l] = es[j]  BY <1>1, LiveIs
  <2>3. Distinct(s)  BY <1>1 DEF TreeOf, TreeBut
  <2>4. s[k].inum # NINODE /\ s[l].inum # NINODE  BY <1>1, <2>1, <2>2 DEF LiveIn
  <2>5. k = l  BY <1>3, <2>1, <2>2, <2>3, <2>4 DEF Distinct
  <2> QED  BY <2>1, <2>2, <2>5
<1> QED  BY <1>2, <1>3

(* cd by the name of an entry of the way, and pwd's search for its inode.  *)
LEMMA DownByName ==
    ASSUME NEW t \in Tables, NEW es \in Seq(Entries), Trail(t, es), TreeOf(t),
           NEW j \in 1 .. Len(es), t[es[j].inum].type = T_DIR
    PROVE  _cd(t, 1, Led(es, j - 1), es[j].name) = es[j].inum
<1> DEFINE d == Led(es, j - 1)  i == findinum(t, d, es[j].name)
<1>1. d \in Inums /\ es[j] \in LiveIn(t[d]) /\ es[j].inum # NINODE
  <2>1. Len(es) \in Nat /\ j - 1 \in 0 .. Len(es)  BY LenProperties
  <2> QED  BY <2>1, TrailIs DEF ChildrenIn, LiveIn
<1>2. \E k \in DOMAIN t[d].ents :
        /\ t[d].ents[k].inum = i /\ t[d].ents[k].name = es[j].name
        /\ t[d].ents[k] \in LiveIn(t[d])
  BY <1>1, FindIs
<1>3. i = es[j].inum  BY <1>2, OneEntry
<1>4. MayEnter(t, 1, es[j].inum)  BY DEF MayEnter, Can
<1> QED  BY <1>1, <1>3, <1>4 DEF _cd

Found(s, i) == SelectInSeq(s, LAMBDA e : e.inum = i)

LEMMA FoundIs ==
    ASSUME NEW s \in Seq(Entries), NEW k \in DOMAIN s
    PROVE  /\ Found(s, s[k].inum) \in DOMAIN s /\ Found(s, s[k].inum) # 0
           /\ s[Found(s, s[k].inum)].inum = s[k].inum
<1> DEFINE i == s[k].inum
           I == {x \in 1 .. Len(s) : s[x].inum = i}
<1>1. DOMAIN s = 1 .. Len(s) /\ Len(s) \in Nat  BY LenProperties
<1>2. Found(s, i) = IF I # {} THEN Min(I) ELSE 0  BY DEF SelectInSeq, Found
<1>3. k \in I /\ I \in SUBSET Nat  BY <1>1
<1>4. Min(I) \in I
  <2> HIDE DEF I
  <2> QED  BY <1>3, MinIs
<1>5. \A x \in I : x \in DOMAIN s /\ x # 0 /\ s[x].inum = i  BY <1>1
<1> HIDE DEF I
<1> QED  BY <1>2, <1>3, <1>4, <1>5

LEMMA UpByInode ==
    ASSUME NEW t \in Tables, NEW es \in Seq(Entries), Trail(t, es), TreeOf(t),
           NEW j \in 1 .. Len(es)
    PROVE  LET s == t[Led(es, j - 1)].ents
               k == Found(s, es[j].inum)
           IN  k # 0 /\ s[k].name = es[j].name
<1> DEFINE d == Led(es, j - 1)  s == t[d].ents  k == Found(s, es[j].inum)
<1>1. /\ d \in Inums /\ es[j] \in LiveIn(t[d]) /\ t[d] \in Nodes
      /\ s \in Seq(Entries)
  <2>1. Len(es) \in Nat /\ j - 1 \in 0 .. Len(es)  BY LenProperties
  <2>2. d \in Inums /\ es[j] \in LiveIn(t[d])  BY <2>1, TrailIs DEF ChildrenIn
  <2> QED  BY <2>2, NodeIs DEF Tables
<1>2. PICK x \in DOMAIN s : s[x] = es[j]  BY <1>1, LiveIs
<1>3. k \in DOMAIN s /\ k # 0 /\ s[k].inum = es[j].inum  BY <1>1, <1>2, FoundIs
<1>4. s[k] \in LiveIn(t[d])  BY <1>1, <1>3 DEF LiveIn, ToSet
<1>5. s[k] = es[j]  BY <1>3, <1>4, OneEntry
<1> QED  BY <1>3, <1>5
-----------------------------------------------------------------------------
(* What is computed from the last value, again and again.                  *)
HasIterates(S, b, F, m) ==
    \E g \in [0 .. m -> S] : g[0] = b /\ \A n \in 1 .. m : g[n] = F[g[n - 1]]

LEMMA Iterated ==
    ASSUME NEW S, NEW b \in S, NEW F \in [S -> S], NEW m \in Nat
    PROVE  HasIterates(S, b, F, m)
<1> DEFINE P(k) == \E g \in [0 .. k -> S] :
                      g[0] = b /\ \A n \in 1 .. k : g[n] = F[g[n - 1]]
           bad == {k \in Nat : ~P(k)}
<1>1. SUFFICES ASSUME bad # {} PROVE FALSE  BY DEF HasIterates
<1>2. bad \in SUBSET Nat  OBVIOUS
<1>3. PICK k \in bad : \A y \in bad : k <= y
  <2> HIDE DEF bad
  <2> QED  BY <1>1, <1>2, LeastIs
<1>4. k # 0
  <2>1. P(0)
    <3> DEFINE g == [n \in 0 .. 0 |-> b]
    <3>1. g \in [0 .. 0 -> S] /\ g[0] = b /\ 1 .. 0 = {}  OBVIOUS
    <3> HIDE DEF g
    <3> QED  BY <3>1
  <2> QED  BY <1>3, <2>1
<1>5. k - 1 \in Nat /\ ~(k <= k - 1) /\ k \in Nat  BY <1>3, <1>4
<1>6. P(k - 1)  BY <1>3, <1>5
<1>7. PICK h \in [0 .. k - 1 -> S] :
        h[0] = b /\ \A n \in 1 .. k - 1 : h[n] = F[h[n - 1]]
  BY <1>6
<1> DEFINE g == [n \in 0 .. k |-> IF n = k THEN F[h[k - 1]] ELSE h[n]]
<1>8. \A n \in 0 .. k : n # k => n \in 0 .. k - 1  BY <1>5
<1>9. k - 1 \in 0 .. k - 1  BY <1>5
<1>10. g \in [0 .. k -> S]  BY <1>7, <1>8, <1>9
<1>11. g[0] = b  BY <1>4, <1>5, <1>7
<1>12. \A n \in 1 .. k : g[n] = F[g[n - 1]]
  <2> TAKE n \in 1 .. k
  <2>1. n \in 0 .. k /\ n - 1 \in 0 .. k /\ n - 1 # k  BY <1>5
  <2>2. g[n - 1] = h[n - 1]  BY <2>1
  <2>3. CASE n = k  BY <1>5, <2>1, <2>2, <2>3
  <2>4. CASE n # k
    <3>1. n \in 1 .. k - 1  BY <1>5, <2>4
    <3> QED  BY <1>7, <2>1, <2>2, <2>4, <3>1
  <2> QED  BY <2>3, <2>4
<1>13. P(k)
  <2> HIDE DEF g
  <2> QED  BY <1>10, <1>11, <1>12
<1> QED  BY <1>3, <1>13

(* What is near the root has a way that is short enough for pwd.           *)
LEMMA TreeTrail ==
    ASSUME NEW x \in Near, ino \in Tables, TreeOf(ino)
    PROVE  \E es \in Seq(Entries) :
              Trail(ino, es) /\ Led(es, Len(es)) = x /\ Len(es) <= MAXNAMES
<1> DEFINE Wider(X) == X \cup UNION {{e.inum : e \in Children(d)} : d \in X}
           Def(f) == [n \in 0 .. MAXNAMES |->
                        IF n = 0 THEN {0}
                        ELSE f[n - 1] \cup UNION {{e.inum : e \in Children(d)} : d \in f[n - 1]}]
           h == CHOOSE f : f = Def(f)
<1>1. MAXNAMES \in Nat /\ 0 \in Inums  BY NinodeIs, FsTreeAssumption DEF Inums
<1>2. \A d \in Inums : \A e \in Children(d) : e \in ChildrenIn(ino[d]) /\ e.inum \in Inums
  <2> TAKE d \in Inums
  <2> TAKE e \in Children(d)
  <2>1. ino[d] \in Nodes  BY DEF Tables
  <2>2. e \in ChildrenIn(ino[d]) /\ e \in LiveIn(ino[d])
    BY DEF Children, ChildrenIn, Live, LiveIn
  <2> QED  BY <2>1, <2>2, LiveIs
<1>3. \A X \in SUBSET Inums : Wider(X) \in SUBSET Inums  BY <1>2
<1>4. \E g : g = Def(g)
  <2> DEFINE F == [X \in SUBSET Inums |-> Wider(X)]
  <2>1. F \in [SUBSET Inums -> SUBSET Inums]  BY <1>3
  <2>2. {0} \in SUBSET Inums  BY <1>1
  <2>3. PICK g \in [0 .. MAXNAMES -> SUBSET Inums] :
          g[0] = {0} /\ \A n \in 1 .. MAXNAMES : g[n] = F[g[n - 1]]
    <3> HIDE DEF F
    <3>1. HasIterates(SUBSET Inums, {0}, F, MAXNAMES)
      BY <1>1, <2>1, <2>2, Iterated
    <3> QED  BY <3>1 DEF HasIterates
  <2>4. \A n \in 0 .. MAXNAMES : n # 0 => g[n] = Wider(g[n - 1])
    <3> TAKE n \in 0 .. MAXNAMES
    <3> HAVE n # 0
    <3>1. n \in 1 .. MAXNAMES /\ n - 1 \in 0 .. MAXNAMES  BY <1>1
    <3>2. g[n - 1] \in SUBSET Inums  BY <3>1
    <3> QED  BY <2>3, <3>1, <3>2
  <2>5. \A n \in 0 .. MAXNAMES : g[n] = Def(g)[n]  BY <2>3, <2>4
  <2>6. g = Def(g)  BY <2>5
  <2> QED  BY <2>6
<1>5. h = Def(h)  BY <1>4
<1>6. Near = h[MAXNAMES]  BY DEF Near
<1> HIDE DEF h
<1>7. h[0] = {0} /\ \A n \in 1 .. MAXNAMES : h[n] = Wider(h[n - 1])
  BY <1>1, <1>5
<1> DEFINE Within(y, n) == \E es \in Seq(Entries) :
                            Trail(ino, es) /\ Led(es, Len(es)) = y /\ Len(es) <= n
           bad == {n \in 0 .. MAXNAMES : ~(\A y \in h[n] : Within(y, n))}
<1>8. bad = {}
  <2>1. SUFFICES ASSUME bad # {} PROVE FALSE  OBVIOUS
  <2>2. bad \in SUBSET Nat  BY <1>1
  <2>3. PICK n \in bad : \A y \in bad : n <= y
    <3> HIDE DEF bad
    <3> QED  BY <2>1, <2>2, LeastIs
  <2>4. n # 0
    <3>1. Trail(ino, <<>>) /\ Led(<<>>, 0) = 0 /\ <<>> \in Seq(Entries) /\ Len(<<>>) = 0
      BY DEF Trail, Led
    <3>2. Within(0, 0)
      <4>1. Len(<<>>) <= 0  BY <3>1
      <4> QED  BY <3>1, <4>1
    <3>3. \A y \in h[0] : y = 0  BY <1>7
    <3> QED  BY <2>3, <3>2, <3>3
  <2>5. n \in 1 .. MAXNAMES /\ n - 1 \in 0 .. MAXNAMES /\ ~(n <= n - 1) /\ n \in Nat
    BY <1>1, <2>3, <2>4
  <2>6. \A y \in h[n - 1] : Within(y, n - 1)  BY <2>3, <2>5
  <2>7. ASSUME NEW y \in h[n] PROVE Within(y, n)
    <3>1. y \in Wider(h[n - 1])  BY <1>7, <2>5
    <3>2. CASE y \in h[n - 1]
      <4>1. PICK es \in Seq(Entries) :
              Trail(ino, es) /\ Led(es, Len(es)) = y /\ Len(es) <= n - 1
        BY <2>6, <3>2
      <4>2. Len(es) \in Nat  BY LenProperties
      <4>3. Len(es) <= n  BY <2>5, <4>1, <4>2
      <4> QED  BY <4>1, <4>3
    <3>3. CASE y \notin h[n - 1]
      <4>1. PICK d \in h[n - 1] : \E e \in Children(d) : y = e.inum
        BY <3>1, <3>3
      <4>2. PICK e \in Children(d) : y = e.inum  BY <4>1
      <4>3. PICK es \in Seq(Entries) :
              Trail(ino, es) /\ Led(es, Len(es)) = d /\ Len(es) <= n - 1
        BY <2>6, <4>1
      <4>4. e \in ChildrenIn(ino[d])  BY <4>2 DEF Children, ChildrenIn, Live, LiveIn
      <4>5. Len(es) \in Nat /\ Len(es) \in 0 .. Len(es)  BY LenProperties
      <4>6. d \in Inums  BY <4>3, <4>5, TrailIs
      <4>7. e \in Entries /\ ino[d] \in Nodes
        <5>1. ino[d] \in Nodes /\ e \in LiveIn(ino[d])
          BY <4>4, <4>6 DEF Tables, ChildrenIn
        <5> QED  BY <5>1, LiveIs
      <4> DEFINE as == Append(es, e)
      <4>8. /\ as \in Seq(Entries) /\ Len(as) = Len(es) + 1
            /\ \A k \in 1 .. Len(es) : as[k] = es[k]
            /\ as[Len(es) + 1] = e
        BY <4>7, AppendIs
      <4> HIDE DEF as
      <4>9. \A k \in 0 .. Len(es) : Led(as, k) = Led(es, k)
        <5> TAKE k \in 0 .. Len(es)
        <5>1. CASE k = 0  BY <5>1 DEF Led
        <5>2. CASE k # 0
          <6>1. k \in 1 .. Len(es)  BY <4>5, <5>2
          <6>2. as[k] = es[k]  BY <4>8, <6>1
          <6> QED  BY <5>2, <6>2 DEF Led
        <5> QED  BY <5>1, <5>2
      <4>10. Trail(ino, as)
        <5> SUFFICES ASSUME NEW k \in 1 .. Len(as)
                     PROVE  as[k] \in ChildrenIn(ino[Led(as, k - 1)])
          BY DEF Trail
        <5>1. k - 1 \in 0 .. Len(es) /\ (k \in 1 .. Len(es) \/ k = Len(es) + 1)
          BY <4>5, <4>8
        <5>2. Led(as, k - 1) = Led(es, k - 1)  BY <4>9, <5>1
        <5>3. CASE k \in 1 .. Len(es)  BY <4>3, <4>8, <5>2, <5>3 DEF Trail
        <5>4. CASE k = Len(es) + 1
          <6>1. k - 1 = Len(es)  BY <4>5, <5>4
          <6>2. as[k] = e  BY <4>8, <5>4
          <6> QED  BY <4>3, <4>4, <5>2, <6>1, <6>2
        <5> QED  BY <5>1, <5>3, <5>4
      <4>11. Led(as, Len(as)) = y /\ Len(as) <= n
        <5>1. Len(as) # 0  BY <4>5, <4>8
        <5>2. as[Len(as)] = e  BY <4>8
        <5>3. Len(as) <= n  BY <2>5, <4>3, <4>5, <4>8
        <5> QED  BY <4>2, <5>1, <5>2, <5>3 DEF Led
      <4> QED  BY <4>8, <4>10, <4>11
    <3> QED  BY <3>2, <3>3
  <2> QED  BY <2>3, <2>7
<1>9. MAXNAMES \in 0 .. MAXNAMES  BY <1>1
<1>10. Within(x, MAXNAMES)  BY <1>6, <1>8, <1>9
<1> QED  BY <1>10
(* cd follows the names of a way.                                          *)
LEMMA CdTrail ==
    ASSUME NEW t \in Tables, NEW es \in Seq(Entries), Trail(t, es), TreeOf(t),
           t[Led(es, Len(es))].type = T_DIR,
           NEW path, Len(path) = Len(es), \A j \in 1 .. Len(es) : path[j] = es[j].name
    PROVE  cd(t, 1, 0, path) = Led(es, Len(es))
<1> DEFINE m == Len(es)
           Def(f) == [n \in 0 .. Len(path) |->
                        IF n = 0 THEN 0
                        ELSE IF f[n - 1] = NINODE THEN NINODE
                             ELSE _cd(t, 1, f[n - 1], path[n])]
           g == [n \in 0 .. Len(path) |-> Led(es, n)]
           h == CHOOSE f : f = Def(f)
<1>1. m \in Nat /\ Len(path) = m  BY LenProperties
<1>2. \A n \in 0 .. m : Led(es, n) # NINODE
  BY TrailIs, NinodeIs DEF Inums
<1>3. \A n \in 1 .. m : t[es[n].inum].type = T_DIR
  <2> TAKE n \in 1 .. m
  <2>1. n # 0 /\ Led(es, n) = es[n].inum  BY <1>1 DEF Led
  <2>2. CASE n = m  BY <2>1, <2>2
  <2>3. CASE n # m
    <3>1. n + 1 \in 1 .. m /\ (n + 1) - 1 = n  BY <1>1, <2>3
    <3> QED  BY <2>1, <3>1, TrailIs
  <2> QED  BY <2>2, <2>3
<1>4. \A n \in 1 .. m : _cd(t, 1, Led(es, n - 1), path[n]) = Led(es, n)
  <2> TAKE n \in 1 .. m
  <2>1. Led(es, n) = es[n].inum  BY <1>1 DEF Led
  <2> QED  BY <1>3, <2>1, DownByName
<1> HIDE DEF m
<1>5. g = Def(g)
  <2>1. \A n \in 0 .. Len(path) : g[n] = Def(g)[n]
    <3> TAKE n \in 0 .. Len(path)
    <3>1. CASE n = 0  BY <3>1 DEF Led
    <3>2. CASE n # 0
      <4>1. n \in 1 .. m /\ n \in 0 .. Len(path) /\ n - 1 \in 0 .. Len(path)
            /\ n - 1 \in 0 .. m
        BY <1>1, <3>2
      <4>2. g[n - 1] = Led(es, n - 1) /\ g[n] = Led(es, n)  BY <4>1
      <4> QED  BY <1>2, <1>4, <3>2, <4>1, <4>2
    <3> QED  BY <3>1, <3>2
  <2> QED  BY <2>1
<1>6. h = Def(h)  BY <1>5
<1>7. cd(t, 1, 0, path) = h[Len(path)]  BY DEF cd
<1> HIDE DEF h
<1>8. /\ h[0] = 0
      /\ \A n \in 1 .. m : h[n] = IF h[n - 1] = NINODE THEN NINODE
                                  ELSE _cd(t, 1, h[n - 1], path[n])
  <2>1. h[0] = 0  BY <1>1, <1>6
  <2>2. ASSUME NEW n \in 1 .. m
        PROVE  h[n] = IF h[n - 1] = NINODE THEN NINODE
                      ELSE _cd(t, 1, h[n - 1], path[n])
    <3>1. n \in 0 .. Len(path) /\ n # 0  BY <1>1
    <3> QED  BY <1>6, <3>1
  <2> QED  BY <2>1, <2>2
<1> DEFINE bad == {n \in 0 .. m : h[n] # Led(es, n)}
<1>9. bad = {}
  <2>1. SUFFICES ASSUME bad # {} PROVE FALSE  OBVIOUS
  <2>2. bad \in SUBSET Nat  BY <1>1
  <2>3. PICK n \in bad : \A y \in bad : n <= y
    <3> HIDE DEF bad
    <3> QED  BY <2>1, <2>2, LeastIs
  <2>4. n # 0  BY <1>8, <2>3 DEF Led
  <2>5. n \in 1 .. m /\ n - 1 \in 0 .. m /\ ~(n <= n - 1)  BY <1>1, <2>3, <2>4
  <2>6. h[n - 1] = Led(es, n - 1)  BY <2>3, <2>5
  <2>7. h[n] = Led(es, n)  BY <1>2, <1>4, <1>8, <2>5, <2>6
  <2> QED  BY <2>3, <2>7
<1>10. h[m] = Led(es, m)  BY <1>1, <1>9
<1> QED  BY <1>1, <1>7, <1>10 DEF m

(* One round of pwd, and where it is after r of them that went up.         *)
Above(x, n) ==
    LET p == ino[x.at].ents[2].inum
        k == Found(ino[p].ents, x.at)
    IN IF x.end # "no" THEN x
       ELSE IF x.at = 0 THEN [x EXCEPT !.end = "root"]
       ELSE IF Len(ino[x.at].ents) < 2 THEN [x EXCEPT !.end = "no parent"]
       ELSE IF p \notin Inums THEN [x EXCEPT !.end = "no parent"]
       ELSE IF k = 0 THEN [x EXCEPT !.end = "no name"]
       ELSE IF n > MAXNAMES THEN [x EXCEPT !.end = "overflow"]
       ELSE [x EXCEPT !.at = p, !.path = <<ino[p].ents[k].name>> \o @]

Way(es, r) == [j \in 1 .. r |-> es[Len(es) - r + j].name]
At(es, r, end) == [at |-> Led(es, Len(es) - r), path |-> Way(es, r), end |-> end]
Went(es, n) == IF n <= Len(es) THEN At(es, n, "no") ELSE At(es, Len(es), "root")

LEMMA WayLonger ==
    ASSUME NEW es \in Seq(Entries), NEW r \in Nat, r < Len(es)
    PROVE  Way(es, r + 1) = <<es[Len(es) - r].name>> \o Way(es, r)
<1> DEFINE m == Len(es)  a == <<es[m - r].name>>  b == Way(es, r)  c == Way(es, r + 1)
<1>1. m \in Nat  BY LenProperties
<1>2. \A j \in 1 .. m : es[j].name \in Labels
  <2> TAKE j \in 1 .. m
  <2>1. es[j] \in Entries  BY ElementOfSeq
  <2> QED  BY <2>1 DEF Entries
<1> HIDE DEF m
<1>3. \A j \in 1 .. r : m - r + j \in 1 .. m  BY <1>1 DEF m
<1>4. \A j \in 1 .. r + 1 : m - (r + 1) + j \in 1 .. m  BY <1>1 DEF m
<1>5. b \in Seq(Labels) /\ Len(b) = r /\ \A j \in 1 .. r : b[j] = es[m - r + j].name
  <2>1. b = [j \in 1 .. r |-> es[m - r + j].name]  BY DEF Way, m
  <2>2. \A j \in 1 .. r : es[m - r + j].name \in Labels  BY <1>2, <1>3
  <2> QED  BY <2>1, <2>2
<1>6. c \in Seq(Labels) /\ Len(c) = r + 1
      /\ \A j \in 1 .. r + 1 : c[j] = es[m - (r + 1) + j].name
  <2>1. c = [j \in 1 .. r + 1 |-> es[m - (r + 1) + j].name]  BY DEF Way, m
  <2>2. \A j \in 1 .. r + 1 : es[m - (r + 1) + j].name \in Labels  BY <1>2, <1>4
  <2>3. r + 1 \in Nat  OBVIOUS
  <2> QED  BY <2>1, <2>2, <2>3
<1>7. a \in Seq(Labels) /\ Len(a) = 1 /\ a[1] = es[m - r].name
  <2>1. m - r \in 1 .. m  BY <1>1 DEF m
  <2> QED  BY <1>2, <2>1
<1> HIDE DEF a, b, c
<1>8. /\ a \o b \in Seq(Labels) /\ Len(a \o b) = 1 + r
      /\ \A j \in 1 .. 1 + r : (a \o b)[j] = IF j <= 1 THEN a[j] ELSE b[j - 1]
  <2>1. /\ a \o b \in Seq(Labels) /\ Len(a \o b) = Len(a) + Len(b)
        /\ \A j \in 1 .. Len(a) + Len(b) :
             (a \o b)[j] = IF j <= Len(a) THEN a[j] ELSE b[j - Len(a)]
    BY <1>5, <1>7, ConcatProperties
  <2> QED  BY <1>5, <1>7, <2>1
<1>9. \A j \in 1 .. r + 1 : c[j] = (a \o b)[j]
  <2> TAKE j \in 1 .. r + 1
  <2>1. CASE j = 1
    <3>1. m - (r + 1) + 1 = m - r  BY <1>1
    <3> QED  BY <1>6, <1>7, <1>8, <2>1, <3>1
  <2>2. CASE j # 1
    <3>1. j - 1 \in 1 .. r /\ m - r + (j - 1) = m - (r + 1) + j /\ ~(j <= 1)
      BY <1>1, <2>2
    <3>2. b[j - 1] = es[m - r + (j - 1)].name  BY <1>5, <3>1
    <3>3. (a \o b)[j] = b[j - 1]  BY <1>8, <3>1
    <3> QED  BY <1>6, <3>1, <3>2, <3>3
  <2> QED  BY <2>1, <2>2
<1>10. c = a \o b  BY <1>6, <1>8, <1>9, SeqEqual
<1> QED  BY <1>10 DEF a, b, c, m
LEMMA AboveTrail ==
    ASSUME NEW es \in Seq(Entries), ino \in Tables, Trail(ino, es), TreeOf(ino),
           ino[Led(es, Len(es))].type = T_DIR, Len(es) <= MAXNAMES,
           NEW n \in 1 .. MAXNAMES + 1
    PROVE  Above(Went(es, n - 1), n) = Went(es, n)
<1> DEFINE m == Len(es)  r == n - 1  x == Went(es, r)
<1>1. m \in Nat /\ r \in Nat /\ MAXNAMES \in Nat  BY LenProperties, FsTreeAssumption
<1>2. CASE r > m
  <2>1. x = At(es, m, "root") /\ Went(es, n) = At(es, m, "root")
    BY <1>1, <1>2 DEF Went
  <2>2. x.end = "root"  BY <2>1 DEF At
  <2> QED  BY <2>1, <2>2 DEF Above
<1>3. CASE r = m
  <2>1. x = At(es, m, "no") /\ Went(es, n) = At(es, m, "root")  BY <1>1, <1>3 DEF Went
  <2>2. x.at = 0 /\ x.end = "no"
    <3>1. m - m = 0  BY <1>1
    <3> QED  BY <2>1, <3>1 DEF At, Led
  <2>3. Above(x, n) = [x EXCEPT !.end = "root"]  BY <2>2 DEF Above
  <2> QED  BY <2>1, <2>3 DEF At
<1>4. CASE r < m
  <2>0. x = At(es, r, "no") /\ Went(es, n) = At(es, r + 1, "no") /\ ~(n > MAXNAMES)
    BY <1>1, <1>4 DEF Went
  <2>1. PICK j \in 1 .. m : j = m - r  BY <1>1, <1>4
  <2>2. j # 0 /\ j \in 0 .. m /\ j - 1 = m - (r + 1)
    BY <1>1, <2>1
  <2> DEFINE d == es[j].inum  p == Led(es, j - 1)
  <2>3. x.at = d /\ d # 0 /\ x.path = Way(es, r) /\ x.end = "no"
    <3>1. d # 0  BY <2>1, TrailIs
    <3>2. x.at = Led(es, j) /\ x.path = Way(es, r) /\ x.end = "no"
      <4> HIDE DEF d, p
      <4> QED  BY <2>0, <2>1 DEF At
    <3>3. Led(es, j) = d  BY <2>2 DEF Led
    <3> QED  BY <3>1, <3>2, <3>3
  <2>4. ino[d].type = T_DIR
    <3>1. CASE j = m  BY <2>2, <3>1 DEF Led
    <3>2. CASE j # m
      <4>1. j + 1 \in 1 .. m /\ (j + 1) - 1 = j
        <5> HIDE DEF m
        <5> QED  BY <1>1, <3>2
      <4>2. Led(es, j) = d  BY <2>2 DEF Led
      <4> QED  BY <4>1, <4>2, TrailIs
    <3> QED  BY <3>1, <3>2
  <2>5. Dotted(ino, d, p)  BY <2>1, <2>4, TrailIs
  <2>6. Len(ino[d].ents) >= 2 /\ ino[d].ents[2].inum = p
    BY <2>5 DEF Dotted, Begins, Entry
  <2>7. d \in Inums /\ ino[d] \in Nodes
    <3>1. Led(es, j) = d /\ j \in 0 .. m  BY <2>2 DEF Led
    <3> QED  BY <3>1, TrailIs DEF Tables
  <2>8. Len(ino[d].ents) \in Nat  BY <2>7, NodeIs
  <2> DEFINE k == Found(ino[p].ents, d)
  <2>9. k # 0 /\ ino[p].ents[k].name = es[j].name  BY <2>1, UpByInode
  <2>10. ~(Len(ino[d].ents) < 2) /\ p \in Inums
    <3>1. j - 1 \in 0 .. m  BY <1>1
    <3> QED  BY <2>6, <2>8, <3>1, TrailIs
  <2> HIDE DEF p, d, x
  <2>11. Above(x, n) = [x EXCEPT !.at = p, !.path = <<ino[p].ents[k].name>> \o @]
    BY <2>0, <2>3, <2>6, <2>9, <2>10 DEF Above
  <2>12. <<es[j].name>> \o x.path = Way(es, r + 1)
    BY <1>1, <1>4, <2>1, <2>3, WayLonger
  <2>13. x = [at |-> d, path |-> Way(es, r), end |-> "no"]
    BY <2>0, <2>3 DEF At
  <2>14. Above(x, n) = [at |-> p, path |-> Way(es, r + 1), end |-> "no"]
    BY <2>9, <2>11, <2>12, <2>13
  <2>15. Above(x, n) = At(es, r + 1, "no")  BY <2>2, <2>14 DEF At, p
  <2> QED  BY <2>0, <2>15 DEF x
<1> QED  BY <1>1, <1>2, <1>3, <1>4

(* pwd comes to the root, with the names of the way.                       *)
LEMMA PwdTrail ==
    ASSUME NEW es \in Seq(Entries), ino \in Tables, Trail(ino, es), TreeOf(ino),
           ino[Led(es, Len(es))].type = T_DIR, Len(es) <= MAXNAMES,
           NEW u, ~Denied(u)
    PROVE  pwd(u, Led(es, Len(es))) = At(es, Len(es), "root")
<1> DEFINE m == Len(es)  d == Led(es, m)  M == MAXNAMES + 1
           first == [at |-> d, path |-> <<>>, end |-> IF Denied(u) THEN "denied" ELSE "no"]
           Def(f) == [n \in 0 .. MAXNAMES + 1 |->
              IF n = 0 THEN first
              ELSE LET x == f[n - 1]
                       p == ino[x.at].ents[2].inum
                       k == SelectInSeq(ino[p].ents, LAMBDA e : e.inum = x.at)
                   IN IF x.end # "no" THEN x
                      ELSE IF x.at = 0 THEN [x EXCEPT !.end = "root"]
                      ELSE IF Len(ino[x.at].ents) < 2 THEN [x EXCEPT !.end = "no parent"]
                      ELSE IF p \notin Inums THEN [x EXCEPT !.end = "no parent"]
                      ELSE IF k = 0 THEN [x EXCEPT !.end = "no name"]
                      ELSE IF n > MAXNAMES THEN [x EXCEPT !.end = "overflow"]
                      ELSE [x EXCEPT !.at = p, !.path = <<ino[p].ents[k].name>> \o @]]
           g == [n \in 0 .. M |-> Went(es, n)]
           h == CHOOSE f : f = Def(f)
<1>1. m \in Nat /\ M \in Nat /\ m < M /\ MAXNAMES \in Nat
  BY LenProperties, FsTreeAssumption
<1>2. pwd(u, d) = h[MAXNAMES + 1]  BY DEF pwd
<1>3. \A f : Def(f) = [n \in 0 .. M |->
                         IF n = 0 THEN first ELSE Above(f[n - 1], n)]
  BY DEF Above, Found
<1>4. first = Went(es, 0)
  <2>1. Way(es, 0) = <<>>  BY DEF Way
  <2>2. m - 0 = m /\ 0 <= m  BY <1>1
  <2> QED  BY <2>1, <2>2 DEF Went, At
<1> HIDE DEF Def, m, d, first
<1>5. \A n \in 1 .. M : Above(Went(es, n - 1), n) = Went(es, n)
  BY AboveTrail
<1> HIDE DEF M
<1>7. g = Def(g)
  <2>1. \A n \in 0 .. M :
          Went(es, n) = IF n = 0 THEN first ELSE Above(g[n - 1], n)
    <3> TAKE n \in 0 .. M
    <3>1. CASE n = 0  BY <1>4, <3>1
    <3>2. CASE n # 0
      <4>1. n \in 1 .. M /\ n - 1 \in 0 .. M  BY <1>1, <3>2
      <4>2. g[n - 1] = Went(es, n - 1)  BY <4>1
      <4> QED  BY <1>5, <3>2, <4>1, <4>2
    <3> QED  BY <3>1, <3>2
  <2>2. g = [n \in 0 .. M |-> IF n = 0 THEN first ELSE Above(g[n - 1], n)]
    BY <2>1
  <2> HIDE DEF g
  <2> QED  BY <1>3, <2>2
<1>8. h = Def(h)  BY <1>7
<1> HIDE DEF h, g
<1>9. /\ h[0] = Went(es, 0)
      /\ \A n \in 1 .. M : h[n] = Above(h[n - 1], n)
  <2>1. h = [n \in 0 .. M |-> IF n = 0 THEN first ELSE Above(h[n - 1], n)]
    BY <1>3, <1>8
  <2>2. \A n \in 1 .. M : n \in 0 .. M /\ n # 0  BY <1>1
  <2>3. 0 \in 0 .. M  BY <1>1
  <2> QED  BY <1>4, <2>1, <2>2, <2>3
<1> DEFINE bad == {n \in 0 .. M : h[n] # Went(es, n)}
<1>10. bad = {}
  <2>1. SUFFICES ASSUME bad # {} PROVE FALSE  OBVIOUS
  <2>2. bad \in SUBSET Nat  BY <1>1
  <2>3. PICK n \in bad : \A y \in bad : n <= y
    <3> HIDE DEF bad
    <3> QED  BY <2>1, <2>2, LeastIs
  <2>4. n # 0  BY <1>9, <2>3
  <2>5. n \in 1 .. M /\ n - 1 \in 0 .. M /\ ~(n <= n - 1)  BY <1>1, <2>3, <2>4
  <2>6. h[n - 1] = Went(es, n - 1)  BY <2>3, <2>5
  <2>7. h[n] = Went(es, n)  BY <1>5, <1>9, <2>5, <2>6
  <2> QED  BY <2>3, <2>7
<1>11. M \in 0 .. M /\ ~(M <= m)  BY <1>1
<1>12. h[M] = At(es, m, "root")  BY <1>10, <1>11 DEF Went, m
<1> QED  BY <1>2, <1>12 DEF m, d, M

(* For a user whose directory is near enough to the root, and who may read *)
(* the inode numbered as the user is, pwd ends at the root, and cd of what *)
(* it prints comes back.                                                   *)
THEOREM PwdLeadsBack == Spec => []PwdAgrees
<1>1. ASSUME SInv PROVE PwdAgrees
  <2> SUFFICES ASSUME Sound, NEW u \in Users, cwd[u] \in Near \cap Dirs, ~Denied(u)
               PROVE  /\ pwd(u, cwd[u]).end = "root"
                      /\ cd(ino, 1, 0, pwd(u, cwd[u]).path) = cwd[u]
    BY DEF PwdAgrees
  <2>1. ino \in Tables /\ TreeOf(ino)
    BY <1>1, QuietTree DEF Sound, SInv, RInv, Typed
  <2>2. PICK es \in Seq(Entries) :
          Trail(ino, es) /\ Led(es, Len(es)) = cwd[u] /\ Len(es) <= MAXNAMES
    BY <2>1, TreeTrail
  <2>3. ino[Led(es, Len(es))].type = T_DIR  BY <2>2 DEF Dirs
  <2>4. pwd(u, cwd[u]) = At(es, Len(es), "root")  BY <2>1, <2>2, <2>3, PwdTrail
  <2>5. Len(es) \in Nat  BY LenProperties
  <2> DEFINE path == Way(es, Len(es))
  <2>6. pwd(u, cwd[u]).end = "root" /\ pwd(u, cwd[u]).path = path
    BY <2>4 DEF At
  <2>7. Len(path) = Len(es) /\ \A j \in 1 .. Len(es) : path[j] = es[j].name
    <3>1. \A j \in 1 .. Len(es) : Len(es) - Len(es) + j = j  BY <2>5
    <3>2. path = [j \in 1 .. Len(es) |-> es[j].name]  BY <3>1 DEF Way
    <3> QED  BY <2>5, <3>2
  <2> HIDE DEF path
  <2>8. cd(ino, 1, 0, path) = cwd[u]  BY <2>1, <2>2, <2>3, <2>7, CdTrail
  <2> QED  BY <2>6, <2>8
<1> QED  BY <1>1, TreeStaysTree, PTL
=============================================================================
