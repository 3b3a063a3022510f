---------------------------- MODULE CacheProofs ----------------------------
(***************************************************************************)
(* The buffer cache, for any number of buffers from two on and any blocks: *)
(* no change is lost, no blocks are mixed up, and unmounting writes        *)
(* everything, as long as an operation gets at most one block while it     *)
(* holds another (module BlockCache).                                      *)
(***************************************************************************)
EXTENDS BlockCache, TLAPS

\* The operations that do: while they hold a block they get at most one other, and they
\* commit all of them.
Bracketed == {"init", "ls", "close", "read", "write", "indirect"}

\* Where an operation is: the blocks it holds, those of them it is going to commit as
\* written, and whether it may still get another one.
Stage == {g \in [open : SUBSET Block, written : SUBSET Block, more : BOOLEAN] :
            g.written \subseteq g.open}
At(o, w, m) == [open |-> o, written |-> w, more |-> m]
Start == At({}, {}, TRUE)

\* A step s leads from stage g to stage h.
Opens(g, b, h) == /\ g.more /\ (\A a, c \in g.open : a = c)
                  /\ h.open = g.open \cup {b} /\ h.more = (g.open = {})
                  /\ g.written \subseteq h.written
Closes(g, b, h) == /\ b \in g.open
                   /\ h.open = g.open \ {b} /\ h.more = (h.open = {})
Move(g, s, h) ==
  \/ s.do = "get" /\ Opens(g, s.b, h)
  \/ s.do = "fill" /\ Opens(g, s.b, h) /\ s.b \in h.written
  \/ s.do = "use" /\ s.b \in g.open /\ h = g
  \/ s.do = "put" /\ s.b \in g.written /\ h = g
  \/ s.do = "commit" /\ Closes(g, s.b, h) /\ s.b \notin g.written /\ h.written = g.written
  \/ s.do = "dirty" /\ Closes(g, s.b, h) /\ h.written = g.written \ {s.b}

\* The steps of t lead from g to h: lab names the stages between.
Steps == [do : {"get", "fill", "use", "put", "commit", "dirty"}, b : Block]
Labels(g, t, h, lab) ==
  /\ Len(lab) = Len(t) + 1 /\ lab[1] = g /\ lab[Len(t) + 1] = h
  /\ \A k \in 1..Len(t) : Move(lab[k], t[k], lab[k + 1])
Path(g, t, h) == t \in Seq(Steps) /\ \E lab \in Seq(Stage) : Labels(g, t, h, lab)

\* The blocks that are held are loaded, no other buffer is in use, and the next miss
\* does not replace a buffer that is held: it is in use, or was loaded last.
StageOK(g) ==
  /\ \A b \in g.open : held[b] \in Loaded(b)
  /\ \A i \in Buff : using[i] => \E b \in g.open : held[b] = i
  /\ g.more => /\ \A a, b \in g.open : a = b
               /\ \A b \in g.open : \/ using[held[b]]
                                    \/ id_next = (held[b] + 1) % NumBuff

\* A block that is loaded is in one buffer, which has what was written last; the disk has
\* it if the block is not loaded, and also if it is loaded, unless the buffer is dirty or
\* going to be committed as written.
Good(b) == Content(b, latest[b])
Once == \A i, j \in Buff : block_id[i] # None /\ block_id[i] = block_id[j] => i = j
CacheOK(w) ==
  /\ Once
  /\ \A i \in Buff : block_id[i] # None => page[i] = Good(block_id[i])
  /\ \A b \in Block : (\A i \in Buff : block_id[i] # b) => disk[b] = Good(b)
  /\ \A i \in Buff : block_id[i] # None /\ ~dirty[i] /\ block_id[i] \notin w
                       => disk[block_id[i]] = Good(block_id[i])

Unmounted == ~fs_mounted => todo = <<>> /\ \A i \in Buff : ~dirty[i]

CacheInv ==
  /\ TypeOK /\ Unmounted
  /\ \E g \in Stage : Path(g, todo, Start) /\ StageOK(g) /\ CacheOK(g.written)
-----------------------------------------------------------------------------
(***************************************************************************)
(* Paths.                                                                  *)
(***************************************************************************)
LEMMA PathEmpty ==
  ASSUME NEW g, NEW h, Path(g, <<>>, h)
  PROVE  g = h
  BY DEF Path, Labels

LEMMA PathNext ==
  ASSUME NEW g, NEW t, NEW h, Path(g, t, h), t # <<>>
  PROVE  /\ Head(t) \in Steps /\ Tail(t) \in Seq(Steps)
         /\ \E n \in Stage : Move(g, Head(t), n) /\ Path(n, Tail(t), h)
<1>1. t \in Seq(Steps) /\ Len(t) \in Nat \ {0} /\ Head(t) = t[1]
  BY DEF Path
<1>2. /\ Head(t) \in Steps /\ Tail(t) \in Seq(Steps) /\ Len(Tail(t)) = Len(t) - 1
      /\ \A k \in 1..(Len(t) - 1) : Tail(t)[k] = t[k + 1]
  BY <1>1
<1>3. PICK lab \in Seq(Stage) : Labels(g, t, h, lab)
  BY DEF Path
<1>4. /\ Len(lab) = Len(t) + 1 /\ lab[1] = g /\ lab[Len(t) + 1] = h
      /\ \A k \in 1..Len(t) : Move(lab[k], t[k], lab[k + 1])
  BY <1>3 DEF Labels
<1>5. PICK l \in Seq(Stage) : l = Tail(lab)
  <2>1. lab # <<>>
    BY <1>1, <1>4
  <2>2. Tail(lab) \in Seq(Stage)
    BY <1>1, <1>4, <2>1
  <2> QED
    BY <2>2
<1>6. /\ Len(l) = Len(t) /\ \A k \in 1..Len(t) : l[k] = lab[k + 1]
  BY <1>1, <1>4, <1>5
<1>7. lab[2] \in Stage /\ l[1] = lab[2] /\ l[Len(t)] = h
  BY <1>1, <1>4, <1>6
<1>8. Move(g, Head(t), lab[2])
  BY <1>1, <1>4
<1>9. Labels(lab[2], Tail(t), h, l)
  <2>1. Len(l) = Len(Tail(t)) + 1 /\ l[Len(Tail(t)) + 1] = h
    BY <1>1, <1>2, <1>6, <1>7
  <2>2. ASSUME NEW k \in 1..Len(Tail(t))
        PROVE  Move(l[k], Tail(t)[k], l[k + 1])
    <3>1. k \in 1..(Len(t) - 1) /\ k \in 1..Len(t) /\ k + 1 \in 1..Len(t)
      BY <1>1, <1>2
    <3>2. l[k] = lab[k + 1] /\ l[k + 1] = lab[(k + 1) + 1] /\ Tail(t)[k] = t[k + 1]
      BY <1>2, <1>6, <3>1
    <3> QED
      BY <1>4, <3>1, <3>2
  <2> QED
    BY <1>7, <2>1, <2>2 DEF Labels
<1> QED
  BY <1>2, <1>5, <1>7, <1>8, <1>9 DEF Path

LEMMA PathJoin ==
  ASSUME NEW g, NEW t, NEW h, NEW u, NEW k, Path(g, t, h), Path(h, u, k)
  PROVE  Path(g, t \o u, k)
<1>1. t \in Seq(Steps) /\ u \in Seq(Steps) /\ t \o u \in Seq(Steps)
  BY DEF Path
<1>2. PICK lab \in Seq(Stage) : Labels(g, t, h, lab)
  BY DEF Path
<1>3. PICK l \in Seq(Stage) : Labels(h, u, k, l)
  BY DEF Path
<1>4. PICK m, n : m = Len(t) /\ n = Len(u)
  OBVIOUS
<1>5. /\ m \in Nat /\ n \in Nat /\ Len(t \o u) = m + n
      /\ \A j \in 1..m : (t \o u)[j] = t[j]
      /\ \A j \in (m + 1)..(m + n) : (t \o u)[j] = u[j - m]
  BY <1>1, <1>4
<1>6. /\ Len(lab) = m + 1 /\ lab[1] = g /\ lab[m + 1] = h
      /\ \A j \in 1..m : Move(lab[j], t[j], lab[j + 1])
  BY <1>2, <1>4 DEF Labels
<1>7. /\ Len(l) = n + 1 /\ l[1] = h /\ l[n + 1] = k
      /\ \A j \in 1..n : Move(l[j], u[j], l[j + 1])
  BY <1>3, <1>4 DEF Labels
<1> DEFINE f == [j \in 1..(m + n + 1) |-> IF j <= m THEN lab[j] ELSE l[j - m]]
<1>8. f \in Seq(Stage) /\ Len(f) = m + n + 1
  <2>1. \A j \in 1..(m + n + 1) : IF j <= m THEN j \in 1..(m + 1) ELSE j - m \in 1..(n + 1)
    BY <1>5
  <2>2. \A j \in 1..(m + n + 1) : f[j] \in Stage
    BY <1>6, <1>7, <2>1
  <2>3. m + n + 1 \in Nat
    BY <1>5
  <2> QED
    BY <2>2, <2>3
<1>9. \A j \in 1..(m + 1) : f[j] = lab[j]
  <2> SUFFICES ASSUME NEW j \in 1..(m + 1)
               PROVE  f[j] = lab[j]
    OBVIOUS
  <2>1. CASE j <= m
    BY <1>5, <2>1
  <2>2. CASE ~(j <= m)
    <3>1. j = m + 1 /\ j \in 1..(m + n + 1) /\ j - m = 1
      BY <1>5, <2>2
    <3> QED
      BY <1>6, <1>7, <2>2, <3>1
  <2> QED
    BY <2>1, <2>2
<1>10. \A j \in (m + 1)..(m + n + 1) : f[j] = l[j - m]
  BY <1>5
<1> HIDE DEF f
<1>11. f[1] = g /\ f[m + n + 1] = k
  <2>1. 1 \in 1..(m + 1) /\ m + n + 1 \in (m + 1)..(m + n + 1) /\ (m + n + 1) - m = n + 1
    BY <1>5
  <2> QED
    BY <1>6, <1>7, <1>9, <1>10, <2>1
<1>12. ASSUME NEW j \in 1..(m + n)
       PROVE  Move(f[j], (t \o u)[j], f[j + 1])
  <2>1. CASE j <= m
    <3>1. j \in 1..m /\ j \in 1..(m + 1) /\ j + 1 \in 1..(m + 1)
      BY <1>5, <2>1
    <3> QED
      BY <1>5, <1>6, <1>9, <3>1
  <2>2. CASE ~(j <= m)
    <3>1. PICK i : i = j - m
      OBVIOUS
    <3>2. /\ i \in 1..n /\ j \in (m + 1)..(m + n) /\ j \in (m + 1)..(m + n + 1)
          /\ j + 1 \in (m + 1)..(m + n + 1) /\ (j + 1) - m = i + 1
      BY <1>5, <2>2, <3>1
    <3>3. (t \o u)[j] = u[i] /\ f[j] = l[i] /\ f[j + 1] = l[i + 1]
      BY <1>5, <1>10, <3>1, <3>2
    <3> QED
      BY <1>7, <3>2, <3>3
  <2> QED
    BY <2>1, <2>2
<1>13. Labels(g, t \o u, k, f)
  BY <1>5, <1>8, <1>11, <1>12 DEF Labels
<1> QED
  BY <1>1, <1>8, <1>13 DEF Path

LEMMA PathOne ==
  ASSUME NEW g0 \in Stage,
         NEW s1 \in Steps, NEW g1 \in Stage, Move(g0, s1, g1)
  PROVE  Path(g0, <<s1>>, g1)
<1>1. PICK t, l : t = <<s1>> /\ l = <<g0, g1>>
  OBVIOUS
<1>2. t \in Seq(Steps) /\ Len(t) = 1
      /\ t[1] = s1
  BY <1>1
<1>3. l \in Seq(Stage) /\ Len(l) = 2
      /\ l[1] = g0 /\ l[2] = g1
  BY <1>1
<1>4. Labels(g0, t, g1, l)
  BY <1>2, <1>3 DEF Labels
<1> QED
  BY <1>1, <1>2, <1>3, <1>4 DEF Path

LEMMA PathTwo ==
  ASSUME NEW g0 \in Stage,
         NEW s1 \in Steps, NEW g1 \in Stage, Move(g0, s1, g1),
         NEW s2 \in Steps, NEW g2 \in Stage, Move(g1, s2, g2)
  PROVE  Path(g0, <<s1, s2>>, g2)
<1>1. PICK t, l : t = <<s1, s2>> /\ l = <<g0, g1, g2>>
  OBVIOUS
<1>2. t \in Seq(Steps) /\ Len(t) = 2
      /\ t[1] = s1 /\ t[2] = s2
  BY <1>1
<1>3. l \in Seq(Stage) /\ Len(l) = 3
      /\ l[1] = g0 /\ l[2] = g1 /\ l[3] = g2
  BY <1>1
<1>4. Labels(g0, t, g2, l)
  BY <1>2, <1>3 DEF Labels
<1> QED
  BY <1>1, <1>2, <1>3, <1>4 DEF Path

LEMMA PathThree ==
  ASSUME NEW g0 \in Stage,
         NEW s1 \in Steps, NEW g1 \in Stage, Move(g0, s1, g1),
         NEW s2 \in Steps, NEW g2 \in Stage, Move(g1, s2, g2),
         NEW s3 \in Steps, NEW g3 \in Stage, Move(g2, s3, g3)
  PROVE  Path(g0, <<s1, s2, s3>>, g3)
<1>1. PICK t, l : t = <<s1, s2, s3>> /\ l = <<g0, g1, g2, g3>>
  OBVIOUS
<1>2. t \in Seq(Steps) /\ Len(t) = 3
      /\ t[1] = s1 /\ t[2] = s2 /\ t[3] = s3
  BY <1>1
<1>3. l \in Seq(Stage) /\ Len(l) = 4
      /\ l[1] = g0 /\ l[2] = g1 /\ l[3] = g2 /\ l[4] = g3
  BY <1>1
<1>4. Labels(g0, t, g3, l)
  BY <1>2, <1>3 DEF Labels
<1> QED
  BY <1>1, <1>2, <1>3, <1>4 DEF Path

LEMMA PathFour ==
  ASSUME NEW g0 \in Stage,
         NEW s1 \in Steps, NEW g1 \in Stage, Move(g0, s1, g1),
         NEW s2 \in Steps, NEW g2 \in Stage, Move(g1, s2, g2),
         NEW s3 \in Steps, NEW g3 \in Stage, Move(g2, s3, g3),
         NEW s4 \in Steps, NEW g4 \in Stage, Move(g3, s4, g4)
  PROVE  Path(g0, <<s1, s2, s3, s4>>, g4)
<1>1. PICK t, l : t = <<s1, s2, s3, s4>> /\ l = <<g0, g1, g2, g3, g4>>
  OBVIOUS
<1>2. t \in Seq(Steps) /\ Len(t) = 4
      /\ t[1] = s1 /\ t[2] = s2 /\ t[3] = s3 /\ t[4] = s4
  BY <1>1
<1>3. l \in Seq(Stage) /\ Len(l) = 5
      /\ l[1] = g0 /\ l[2] = g1 /\ l[3] = g2 /\ l[4] = g3 /\ l[5] = g4
  BY <1>1
<1>4. Labels(g0, t, g4, l)
  BY <1>2, <1>3 DEF Labels
<1> QED
  BY <1>1, <1>2, <1>3, <1>4 DEF Path

LEMMA PathEight ==
  ASSUME NEW g0 \in Stage,
         NEW s1 \in Steps, NEW g1 \in Stage, Move(g0, s1, g1),
         NEW s2 \in Steps, NEW g2 \in Stage, Move(g1, s2, g2),
         NEW s3 \in Steps, NEW g3 \in Stage, Move(g2, s3, g3),
         NEW s4 \in Steps, NEW g4 \in Stage, Move(g3, s4, g4),
         NEW s5 \in Steps, NEW g5 \in Stage, Move(g4, s5, g5),
         NEW s6 \in Steps, NEW g6 \in Stage, Move(g5, s6, g6),
         NEW s7 \in Steps, NEW g7 \in Stage, Move(g6, s7, g7),
         NEW s8 \in Steps, NEW g8 \in Stage, Move(g7, s8, g8)
  PROVE  Path(g0, <<s1, s2, s3, s4, s5, s6, s7, s8>>, g8)
<1>1. PICK t, l : t = <<s1, s2, s3, s4, s5, s6, s7, s8>> /\ l = <<g0, g1, g2, g3, g4, g5, g6, g7, g8>>
  OBVIOUS
<1>2. t \in Seq(Steps) /\ Len(t) = 8
      /\ t[1] = s1 /\ t[2] = s2 /\ t[3] = s3 /\ t[4] = s4 /\ t[5] = s5 /\ t[6] = s6 /\ t[7] = s7 /\ t[8] = s8
  BY <1>1
<1>3. l \in Seq(Stage) /\ Len(l) = 9
      /\ l[1] = g0 /\ l[2] = g1 /\ l[3] = g2 /\ l[4] = g3 /\ l[5] = g4 /\ l[6] = g5 /\ l[7] = g6 /\ l[8] = g7 /\ l[9] = g8
  BY <1>1
<1>4. Labels(g0, t, g8, l)
  BY <1>2, <1>3 DEF Labels
<1> QED
  BY <1>1, <1>2, <1>3, <1>4 DEF Path
-----------------------------------------------------------------------------
(***************************************************************************)
(* The operations: their steps lead from Start back to Start.              *)
(***************************************************************************)
LEMMA Stages ==
  ASSUME NEW o \in SUBSET Block, NEW w \in SUBSET o, NEW m \in BOOLEAN
  PROVE  /\ At(o, w, m) \in Stage
         /\ At(o, w, m).open = o /\ At(o, w, m).written = w /\ At(o, w, m).more = m
  BY DEF At, Stage

LEMMA StepKinds ==
  ASSUME NEW b \in Block
  PROVE  /\ {Get(b), Fill(b), Use(b), Put(b), Commit(b), Dirty(b)} \subseteq Steps
         /\ Get(b).do = "get" /\ Fill(b).do = "fill" /\ Use(b).do = "use"
         /\ Put(b).do = "put" /\ Commit(b).do = "commit" /\ Dirty(b).do = "dirty"
         /\ Get(b).b = b /\ Fill(b).b = b /\ Use(b).b = b
         /\ Put(b).b = b /\ Commit(b).b = b /\ Dirty(b).b = b
  BY DEF Steps, Get, Fill, Use, Put, Commit, Dirty

\* One block is held, which is read or written.
Reads(b)  == At({b}, {}, TRUE)
Writes(b) == At({b}, {b}, TRUE)

LEMMA SingleMoves ==
  ASSUME NEW b \in Block
  PROVE  /\ Start \in Stage /\ Reads(b) \in Stage /\ Writes(b) \in Stage
         /\ Move(Start, Get(b), Reads(b)) /\ Move(Start, Get(b), Writes(b))
         /\ Move(Start, Fill(b), Writes(b))
         /\ Move(Reads(b), Use(b), Reads(b)) /\ Move(Writes(b), Use(b), Writes(b))
         /\ Move(Writes(b), Put(b), Writes(b))
         /\ Move(Reads(b), Commit(b), Start) /\ Move(Writes(b), Dirty(b), Start)
<1>1. /\ Start \in Stage /\ Start.open = {} /\ Start.written = {} /\ Start.more = TRUE
  BY Stages DEF Start
<1>0. {b} \in SUBSET Block /\ {} \in SUBSET {b} /\ {b} \in SUBSET {b}
  OBVIOUS
<1>2. /\ Reads(b) \in Stage /\ Reads(b).open = {b} /\ Reads(b).written = {}
      /\ Reads(b).more = TRUE
  BY DEF Reads, At, Stage
<1>3. /\ Writes(b) \in Stage /\ Writes(b).open = {b} /\ Writes(b).written = {b}
      /\ Writes(b).more = TRUE
  BY <1>0, Stages DEF Writes
<1>4. Opens(Start, b, Reads(b)) /\ Opens(Start, b, Writes(b))
  BY <1>1, <1>2, <1>3 DEF Opens
<1>5. Closes(Reads(b), b, Start) /\ Closes(Writes(b), b, Start)
  BY <1>1, <1>2, <1>3 DEF Closes
<1> QED
  BY <1>1, <1>2, <1>3, <1>4, <1>5, StepKinds DEF Move

LEMMA SinglePaths ==
  ASSUME NEW b \in Block
  PROVE  /\ Path(Start, <<Get(b), Put(b), Dirty(b)>>, Start)
         /\ Path(Start, <<Get(b), Use(b), Commit(b)>>, Start)
         /\ Path(Start, <<Fill(b), Dirty(b)>>, Start)
<1>1. /\ Start \in Stage /\ Reads(b) \in Stage /\ Writes(b) \in Stage
      /\ Get(b) \in Steps /\ Fill(b) \in Steps /\ Use(b) \in Steps
      /\ Put(b) \in Steps /\ Commit(b) \in Steps /\ Dirty(b) \in Steps
  BY SingleMoves, StepKinds
<1>2. Path(Start, <<Get(b), Put(b), Dirty(b)>>, Start)
  BY <1>1, SingleMoves, PathThree
<1>3. Path(Start, <<Get(b), Use(b), Commit(b)>>, Start)
  BY <1>1, SingleMoves, PathThree
<1>4. Path(Start, <<Fill(b), Dirty(b)>>, Start)
  BY <1>1, SingleMoves, PathTwo
<1> QED
  BY <1>2, <1>3, <1>4

\* Two blocks are held, then one of them is left.
Both(b, c, w) == At({b, c}, w, FALSE)
Left(b, w)    == At({b}, w, FALSE)

LEMMA PairMoves ==
  ASSUME NEW b \in Block, NEW c \in Block, b # c
  PROVE  /\ {Both(b, c, {}), Both(b, c, {b, c}), Left(b, {b}), Left(c, {})} \subseteq Stage
         /\ Move(Reads(b), Get(c), Both(b, c, {}))
         /\ Move(Both(b, c, {}), Use(c), Both(b, c, {}))
         /\ Move(Both(b, c, {}), Commit(b), Left(c, {}))
         /\ Move(Left(c, {}), Commit(c), Start)
         /\ Move(Writes(b), Get(c), Both(b, c, {b, c}))
         /\ Move(Both(b, c, {b, c}), Put(c), Both(b, c, {b, c}))
         /\ Move(Both(b, c, {b, c}), Dirty(c), Left(b, {b}))
         /\ Move(Left(b, {b}), Put(b), Left(b, {b}))
         /\ Move(Left(b, {b}), Dirty(b), Start)
<1>0. /\ {b} \in SUBSET Block /\ {c} \in SUBSET Block /\ {b, c} \in SUBSET Block
      /\ {} \in SUBSET {b} /\ {b} \in SUBSET {b} /\ {} \in SUBSET {c} /\ {} \in SUBSET Block
      /\ {} \in SUBSET {b, c} /\ {b, c} \in SUBSET {b, c} /\ {} \in SUBSET {}
  OBVIOUS
<1>1. /\ Start.open = {} /\ Start.written = {} /\ Start.more = TRUE
  BY <1>0, Stages DEF Start
<1>2. /\ Reads(b).open = {b} /\ Reads(b).written = {} /\ Reads(b).more = TRUE
  BY DEF Reads, At, Stage
<1>3. /\ Writes(b).open = {b} /\ Writes(b).written = {b} /\ Writes(b).more = TRUE
  BY <1>0, Stages DEF Writes
<1>4. /\ Both(b, c, {}) \in Stage /\ Both(b, c, {}).open = {b, c}
      /\ Both(b, c, {}).written = {} /\ Both(b, c, {}).more = FALSE
  BY DEF Both, At, Stage
<1>5. /\ Both(b, c, {b, c}) \in Stage /\ Both(b, c, {b, c}).open = {b, c}
      /\ Both(b, c, {b, c}).written = {b, c} /\ Both(b, c, {b, c}).more = FALSE
  BY <1>0, Stages DEF Both
<1>6. /\ Left(b, {b}) \in Stage /\ Left(b, {b}).open = {b}
      /\ Left(b, {b}).written = {b} /\ Left(b, {b}).more = FALSE
  BY <1>0, Stages DEF Left
<1>7. /\ Left(c, {}) \in Stage /\ Left(c, {}).open = {c}
      /\ Left(c, {}).written = {} /\ Left(c, {}).more = FALSE
  BY DEF Left, At, Stage
<1>8. Opens(Reads(b), c, Both(b, c, {})) /\ Opens(Writes(b), c, Both(b, c, {b, c}))
  BY <1>2, <1>3, <1>4, <1>5 DEF Opens
<1>9. /\ Closes(Both(b, c, {}), b, Left(c, {})) /\ Closes(Left(c, {}), c, Start)
      /\ Closes(Both(b, c, {b, c}), c, Left(b, {b})) /\ Closes(Left(b, {b}), b, Start)
  <2>1. /\ {b, c} \ {b} = {c} /\ {b, c} \ {c} = {b} /\ {b} \ {b} = {} /\ {c} \ {c} = {}
        /\ {b} # {} /\ {c} # {}
    OBVIOUS
  <2> QED
    BY <1>1, <1>4, <1>5, <1>6, <1>7, <2>1 DEF Closes
<1>10. {b, c} \ {c} = {b} /\ {b} \ {b} = {} /\ b \in {b, c} /\ c \in {b, c}
  OBVIOUS
<1>11. /\ Move(Reads(b), Get(c), Both(b, c, {}))
       /\ Move(Writes(b), Get(c), Both(b, c, {b, c}))
  BY <1>8, StepKinds DEF Move
<1>12. /\ Move(Both(b, c, {}), Use(c), Both(b, c, {}))
       /\ Move(Both(b, c, {b, c}), Put(c), Both(b, c, {b, c}))
       /\ Move(Left(b, {b}), Put(b), Left(b, {b}))
  BY <1>4, <1>5, <1>6, <1>10, StepKinds DEF Move
<1>13. /\ Move(Both(b, c, {}), Commit(b), Left(c, {}))
       /\ Move(Left(c, {}), Commit(c), Start)
  BY <1>1, <1>4, <1>7, <1>9, StepKinds DEF Move
<1>14. /\ Move(Both(b, c, {b, c}), Dirty(c), Left(b, {b}))
       /\ Move(Left(b, {b}), Dirty(b), Start)
  <2>1. Left(b, {b}).written = Both(b, c, {b, c}).written \ {c}
    BY <1>5, <1>6
  <2>2. Start.written = Left(b, {b}).written \ {b}
    BY <1>1, <1>6
  <2>3. Dirty(b).do = "dirty" /\ Dirty(b).b = b /\ Dirty(c).do = "dirty" /\ Dirty(c).b = c
    BY StepKinds
  <2>4. Move(Both(b, c, {b, c}), Dirty(c), Left(b, {b}))
    BY <1>9, <2>1, <2>3, Zenon DEF Move
  <2>5. Move(Left(b, {b}), Dirty(b), Start)
    BY <1>9, <2>2, <2>3, Zenon DEF Move
  <2> QED
    BY <2>4, <2>5
<1> QED
  BY <1>4, <1>5, <1>6, <1>7, <1>11, <1>12, <1>13, <1>14

\* do_ls; and the two cases of find_data_block that allocate an address.
LEMMA PairPaths ==
  ASSUME NEW b \in Block, NEW c \in Block, b # c
  PROVE  /\ Path(Start, <<Get(b), Use(b), Get(c), Use(c)>> \o <<Commit(b), Commit(c)>>,
                 Start)
         /\ Path(Start, <<Get(b), Use(b)>> \o <<Get(c), Put(c), Dirty(c)>>
                        \o <<Put(b), Dirty(b)>>, Start)
         /\ Path(Start, <<Get(c), Put(c), Dirty(c)>> \o <<Fill(b)>>
                        \o <<Get(c), Put(c), Dirty(c)>> \o <<Put(b), Dirty(b)>>, Start)
<1>1. /\ Start \in Stage /\ Reads(b) \in Stage /\ Writes(b) \in Stage
      /\ Both(b, c, {}) \in Stage /\ Both(b, c, {b, c}) \in Stage
      /\ Left(b, {b}) \in Stage /\ Left(c, {}) \in Stage
  BY SingleMoves, PairMoves
<1>2. /\ Get(b) \in Steps /\ Get(c) \in Steps /\ Fill(b) \in Steps /\ Use(b) \in Steps
      /\ Use(c) \in Steps /\ Put(b) \in Steps /\ Put(c) \in Steps /\ Commit(b) \in Steps
      /\ Commit(c) \in Steps /\ Dirty(b) \in Steps /\ Dirty(c) \in Steps
  BY StepKinds
<1>3. Path(Start, <<Get(b), Use(b), Get(c), Use(c)>>, Both(b, c, {}))
  BY <1>1, <1>2, SingleMoves, PairMoves, PathFour
<1>4. Path(Both(b, c, {}), <<Commit(b), Commit(c)>>, Start)
  BY <1>1, <1>2, PairMoves, PathTwo
<1>5. Path(Start, <<Get(b), Use(b)>>, Writes(b))
  BY <1>1, <1>2, SingleMoves, PathTwo
<1>6. Path(Writes(b), <<Get(c), Put(c), Dirty(c)>>, Left(b, {b}))
  BY <1>1, <1>2, PairMoves, PathThree
<1>7. Path(Left(b, {b}), <<Put(b), Dirty(b)>>, Start)
  BY <1>1, <1>2, PairMoves, PathTwo
<1>8. Path(Start, <<Fill(b)>>, Writes(b))
  BY <1>1, <1>2, SingleMoves, PathOne
<1>9. Path(Start, <<Get(c), Put(c), Dirty(c)>>, Start)
  BY SinglePaths
<1>10. Path(Start, <<Get(b), Use(b)>> \o <<Get(c), Put(c), Dirty(c)>>, Left(b, {b}))
  BY <1>5, <1>6, PathJoin
<1>11. Path(Start, <<Get(c), Put(c), Dirty(c)>> \o <<Fill(b)>>, Writes(b))
  BY <1>8, <1>9, PathJoin
<1>12. Path(Start, <<Get(c), Put(c), Dirty(c)>> \o <<Fill(b)>>
                   \o <<Get(c), Put(c), Dirty(c)>>, Left(b, {b}))
  BY <1>6, <1>11, PathJoin
<1>13. Path(Start, <<Get(b), Use(b), Get(c), Use(c)>> \o <<Commit(b), Commit(c)>>, Start)
  BY <1>3, <1>4, PathJoin
<1>14. Path(Start, <<Get(b), Use(b)>> \o <<Get(c), Put(c), Dirty(c)>>
                   \o <<Put(b), Dirty(b)>>, Start)
  BY <1>7, <1>10, PathJoin
<1>15. Path(Start, <<Get(c), Put(c), Dirty(c)>> \o <<Fill(b)>>
                   \o <<Get(c), Put(c), Dirty(c)>> \o <<Put(b), Dirty(b)>>, Start)
  BY <1>7, <1>12, PathJoin
<1> QED
  BY <1>13, <1>14, <1>15

LEMMA InitPath ==
  ASSUME NEW i \in InodeBlock, NEW d \in DataBlock
  PROVE  Path(Start, init_file_system(i, d), Start)
<1>1. \A b \in Block : /\ Start \in Stage /\ Writes(b) \in Stage
                       /\ Fill(b) \in Steps /\ Dirty(b) \in Steps
                       /\ Move(Start, Fill(b), Writes(b)) /\ Move(Writes(b), Dirty(b), Start)
  BY SingleMoves, StepKinds
<1>2. i \in Block /\ d \in Block /\ InodeBitmap \in Block /\ BlockBitmap \in Block
  BY DEF Block
<1> QED
  BY <1>1, <1>2, PathEight DEF init_file_system

\* The steps of every operation that is called lead from Start back to Start.
LEMMA ScriptPath ==
  ASSUME NEW op \in Bracketed, NEW i \in InodeBlock, NEW j \in InodeBlock,
         NEW d \in DataBlock, NEW e \in DataBlock, NEW t \in Scripts(op, i, j, d, e)
  PROVE  Path(Start, t, Start)
<1>1. /\ i \in Block /\ d \in Block /\ BlockBitmap \in Block /\ i # d /\ d # BlockBitmap
  BY CacheAssumption DEF Block
<1>2. Path(Start, alloc_data_block, Start)
  BY <1>1, SinglePaths DEF alloc_data_block
<1>3. CASE op = "init"
  BY <1>3, InitPath DEF Scripts
<1>4. CASE op = "ls"
  <2>1. t = <<Get(i), Use(i), Get(d), Use(d)>> \o <<Commit(i), Commit(d)>>
    BY <1>4 DEF Scripts, do_ls, Lookup
  <2> QED
    BY <1>1, <2>1, PairPaths
<1>5. CASE op = "close"
  <2>1. t = <<Get(i), Put(i), Dirty(i)>>
    BY <1>5 DEF Scripts, close
  <2> QED
    BY <1>1, <2>1, SinglePaths
<1>6. CASE op = "read"
  <2>1. Path(Start, read(d), Start)
    BY <1>1, SinglePaths DEF read
  <2>2. t = read(d) \/ t = alloc_data_block \o read(d)
    BY <1>6 DEF Scripts, read_new
  <2> QED
    BY <1>2, <2>1, <2>2, PathJoin
<1>7. CASE op = "write"
  <2>1. \A w \in write(d) : Path(Start, w, Start)
    BY <1>1, SinglePaths DEF write
  <2>2. t \in write(d) \/ \E w \in write(d) : t = alloc_data_block \o w
    BY <1>7 DEF Scripts, write_new
  <2> QED
    BY <1>2, <2>1, <2>2, PathJoin
<1>8. CASE op = "indirect"
  <2>1. PICK s2, s3 :
          /\ s2 = <<Get(d), Use(d)>> \o alloc_data_block \o <<Put(d), Dirty(d)>>
          /\ s3 = alloc_data_block \o <<Fill(d)>> \o alloc_data_block \o <<Put(d), Dirty(d)>>
    OBVIOUS
  <2>2. t \in {<<Get(d), Use(d), Commit(d)>>, s2, s3}
    BY <1>8, <2>1 DEF Scripts, find_data_block_indirect
  <2>3. Path(Start, s2, Start) /\ Path(Start, s3, Start)
    BY <1>1, <2>1, PairPaths DEF alloc_data_block
  <2> QED
    BY <1>1, <2>2, <2>3, SinglePaths
<1> QED
  BY <1>3, <1>4, <1>5, <1>6, <1>7, <1>8 DEF Bracketed
-----------------------------------------------------------------------------
(***************************************************************************)
(* The cache.                                                              *)
(***************************************************************************)

\* While at most one buffer is in use, another one is replaced, and the one at id_next if
\* none is.
LEMMA VictimOK ==
  ASSUME TypeOK, NumBuff > 1, NEW u \in Buff, \A i \in Buff : using[i] => i = u
  PROVE  Victim \in Buff /\ ~using[Victim] /\ (~using[u] => Victim = id_next)
<1>0. PICK N \in Nat : N = NumBuff /\ N > 1
  BY CacheAssumption
<1>1. Buff = 0..(N - 1) /\ id_next \in 0..(N - 1) /\ u \in 0..(N - 1)
  BY <1>0 DEF Buff, TypeOK
<1>2. PICK n \in 0..(N - 1) : n = id_next
  BY <1>1
<1> DEFINE V(k) == Free(k) /\ \A l \in Buff : l < k => ~Free(l)
<1>3. \A k \in Buff : Free(k) <=> ~using[(n + k) % N]
  BY <1>0, <1>2 DEF Free
<1>4. (n + 0) % N = n /\ 0 \in 0..(N - 1) /\ 1 \in 0..(N - 1)
  BY <1>0, <1>2
<1>5. (n + 1) % N \in 0..(N - 1) /\ (n + 1) % N # n
  <2>1. CASE n + 1 < N
    BY <1>0, <2>1
  <2>2. CASE n + 1 = N
    BY <1>0, <2>2
  <2> QED
    BY <1>0, <2>1, <2>2
<1>6. \A k, l \in Buff : V(k) /\ V(l) => k = l
  BY <1>1
<1>7. PICK c : c = CHOOSE k \in Buff : V(k)
  OBVIOUS
<1>8. Victim = (n + c) % N
  BY <1>0, <1>2, <1>7 DEF Victim
<1>9. CASE ~using[n]
  <2>1. Free(0)
    BY <1>1, <1>3, <1>4, <1>9
  <2>2. V(0)
    BY <1>1, <2>1
  <2>3. c = 0
    BY <1>1, <1>4, <1>6, <1>7, <2>2
  <2> QED
    BY <1>1, <1>2, <1>4, <1>8, <1>9, <2>3
<1>10. CASE using[n]
  <2>1. u = n
    BY <1>1, <1>2, <1>10
  <2>2. ~using[(n + 1) % N]
    BY <1>1, <1>5, <2>1
  <2>3. Free(1) /\ ~Free(0)
    BY <1>1, <1>3, <1>4, <1>10, <2>2
  <2>4. V(1)
    BY <1>1, <2>3
  <2>5. c = 1
    BY <1>1, <1>4, <1>6, <1>7, <2>4
  <2> QED
    BY <1>1, <1>5, <1>8, <1>10, <2>1, <2>2, <2>5
<1> QED
  BY <1>9, <1>10

\* A hit: the buffer is marked as in use.
LEMMA HitStage ==
  ASSUME TypeOK, Once, NEW g \in Stage, NEW h \in Stage, NEW b \in Block, NEW i \in Loaded(b),
         StageOK(g), Opens(g, b, h), Hit(b, i)
  PROVE  StageOK(h)'
<1>1. /\ i \in Buff /\ block_id[i] = b
      /\ using' = [using EXCEPT ![i] = TRUE] /\ held' = [held EXCEPT ![b] = i]
      /\ block_id' = block_id /\ id_next' = id_next
  BY DEF Hit, Loaded
<1>2. /\ using \in [Buff -> BOOLEAN] /\ held \in [Block -> Buff \cup {NoBuff}]
      /\ h.open = g.open \cup {b} /\ h.open \subseteq Block
  BY DEF TypeOK, Opens, Stage
<1>3. held'[b] = i /\ \A a \in h.open \ {b} : a \in g.open /\ held'[a] = held[a]
  BY <1>1, <1>2
<1>4. \A a \in h.open : held'[a] \in Loaded(a)'
  BY <1>1, <1>3 DEF StageOK, Loaded
<1>5. \A j \in Buff : using'[j] => \E a \in h.open : held'[a] = j
  <2> SUFFICES ASSUME NEW j \in Buff, using'[j]
               PROVE  \E a \in h.open : held'[a] = j
    OBVIOUS
  <2>1. CASE j = i
    BY <1>2, <1>3, <2>1
  <2>2. CASE j # i
    <3>1. PICK a \in g.open : held[a] = j
      BY <1>1, <1>2, <2>2 DEF StageOK
    <3>2. j \in Loaded(a)
      BY <3>1 DEF StageOK
    <3>3. a # b
      BY <1>1, <2>2, <3>2, CacheAssumption DEF Once, Loaded
    <3> QED
      BY <1>2, <1>3, <3>1, <3>3
  <2> QED
    BY <2>1, <2>2
<1>6. ASSUME h.more
      PROVE  (\A a, c \in h.open : a = c) /\ \A a \in h.open : using'[held'[a]]
  <2>1. h.open = {b}
    BY <1>2, <1>6 DEF Opens
  <2> QED
    BY <1>1, <1>2, <1>3, <2>1
<1> QED
  BY <1>4, <1>5, <1>6 DEF StageOK

\* A miss: the buffer that is replaced is not held, and it is the one before id_next then,
\* unless another block is held.
LEMMA MissStage ==
  ASSUME TypeOK, NumBuff > 1, NEW g \in Stage, NEW h \in Stage, NEW b \in Block,
         NEW do_read, StageOK(g), Opens(g, b, h), Loaded(b) = {}, Miss(b, Victim, do_read)
  PROVE  StageOK(h)' /\ Victim \in Buff /\ \A a \in g.open : held[a] # Victim
<1>0. PICK v : v = Victim
  OBVIOUS
<1>1. /\ block_id' = [block_id EXCEPT ![v] = b] /\ id_next' = (id_next + 1) % NumBuff
      /\ held' = [held EXCEPT ![b] = v] /\ using' = using
  BY <1>0 DEF Miss
<1>2. /\ using \in [Buff -> BOOLEAN] /\ held \in [Block -> Buff \cup {NoBuff}]
      /\ block_id \in [Buff -> Block \cup {None}] /\ id_next \in Buff
      /\ g.more /\ (\A a, c \in g.open : a = c) /\ h.more = (g.open = {})
      /\ h.open = g.open \cup {b} /\ h.open \subseteq Block /\ g.open \subseteq Block
  BY DEF TypeOK, Opens, Stage
<1>3. b \notin g.open
  BY DEF StageOK
<1>4. \A a \in g.open : held[a] \in Buff /\ block_id[held[a]] = a
  BY DEF StageOK, Loaded
<1>5. /\ v \in Buff /\ \A a \in g.open : held[a] # v
      /\ g.open = {} => v = id_next
  <2>1. CASE g.open = {}
    <3>1. \A i \in Buff : ~using[i]
      BY <2>1 DEF StageOK
    <3> QED
      BY <1>0, <1>2, <2>1, <3>1, VictimOK
  <2>2. ASSUME NEW a \in g.open
        PROVE  v \in Buff /\ held[a] # v
    <3>1. held[a] \in Buff
      BY <1>4
    <3>2. \A i \in Buff : using[i] => i = held[a]
      BY <1>2 DEF StageOK
    <3>3. v \in Buff /\ ~using[v] /\ (~using[held[a]] => v = id_next)
      BY <1>0, <3>1, <3>2, VictimOK
    <3>4. using[held[a]] \/ id_next = (held[a] + 1) % NumBuff
      BY <1>2 DEF StageOK
    <3>5. (held[a] + 1) % NumBuff # held[a]
      <4>1. PICK x, N \in Nat : N = NumBuff /\ N > 1 /\ x = held[a] /\ x \in 0..(N - 1)
        BY <3>1, CacheAssumption DEF Buff
      <4>2. CASE x + 1 < N
        BY <4>1, <4>2
      <4>3. CASE x + 1 = N
        BY <4>1, <4>3
      <4> QED
        BY <4>1, <4>2, <4>3
    <3> QED
      BY <3>3, <3>4, <3>5
  <2> QED
    BY <2>1, <2>2
<1>6. held'[b] = v /\ \A a \in g.open : held'[a] = held[a]
  BY <1>1, <1>2, <1>3
<1>7. block_id'[v] = b /\ \A i \in Buff \ {v} : block_id'[i] = block_id[i]
  BY <1>1, <1>2, <1>5
<1>8. ASSUME NEW a \in h.open
      PROVE  held'[a] \in Loaded(a)'
  <2>1. CASE a = b
    BY <1>5, <1>6, <1>7, <2>1 DEF Loaded
  <2>2. CASE a \in g.open
    BY <1>4, <1>5, <1>6, <1>7, <2>2 DEF Loaded
  <2> QED
    BY <1>2, <2>1, <2>2
<1>9. \A i \in Buff : using'[i] => \E a \in h.open : held'[a] = i
  BY <1>1, <1>2, <1>6 DEF StageOK
<1>10. ASSUME h.more
       PROVE  /\ \A a, c \in h.open : a = c
              /\ \A a \in h.open : id_next' = (held'[a] + 1) % NumBuff
  <2>1. h.open = {b} /\ v = id_next
    BY <1>2, <1>5, <1>10
  <2> QED
    BY <1>1, <1>6, <2>1
<1>11. StageOK(h)'
  BY <1>8, <1>9, <1>10 DEF StageOK
<1> QED
  BY <1>0, <1>5, <1>11

LEMMA VersionType ==
  ASSUME TypeOK, NEW b \in Block
  PROVE  /\ NewVersion(b) \in 0..1 /\ latest[b] \in 0..1
         /\ \A v \in 0..1 : Content(b, v) \in Contents
  BY DEF TypeOK, NewVersion, Content, Contents

\* b is written through a pointer to the buffer it is in, and is going to be committed.
LEMMA WriteOK ==
  ASSUME TypeOK, NEW w, CacheOK(w), NEW b \in w, b \in Block, NEW i \in Loaded(b),
         Write(b, i), UNCHANGED <<block_id, dirty, disk>>
  PROVE  CacheOK(w)' /\ latest' \in [Block -> 0..1] /\ page' \in [Buff -> Contents]
<1>1. PICK v \in 0..1 : v = NewVersion(b)
  BY VersionType
<1>2. /\ i \in Buff /\ block_id[i] = b /\ b # None
      /\ latest' = [latest EXCEPT ![b] = v] /\ page' = [page EXCEPT ![i] = Content(b, v)]
      /\ latest \in [Block -> 0..1] /\ page \in [Buff -> Contents]
      /\ block_id \in [Buff -> Block \cup {None}]
  BY <1>1, CacheAssumption DEF Write, Loaded, TypeOK
<1>3. Content(b, v) \in Contents
  BY <1>1, VersionType
<1>4. latest' \in [Block -> 0..1] /\ page' \in [Buff -> Contents]
  BY <1>1, <1>2, <1>3
<1>5. \A c \in Block : Good(c)' = IF c = b THEN Content(b, v) ELSE Good(c)
  BY <1>2 DEF Good
<1>6. \A j \in Buff : page'[j] = IF j = i THEN Content(b, v) ELSE page[j]
  BY <1>2
<1>7. \A j \in Buff : block_id[j] = b => j = i
  BY <1>2 DEF CacheOK, Once
<1>8. \A j \in Buff : block_id[j] # None => page'[j] = Good(block_id[j])'
  BY <1>2, <1>5, <1>6, <1>7 DEF CacheOK
<1>9. \A c \in Block : (\A j \in Buff : block_id[j] # c) => disk[c] = Good(c)'
  BY <1>2, <1>5 DEF CacheOK
<1>10. \A j \in Buff : block_id[j] # None /\ ~dirty[j] /\ block_id[j] \notin w
                         => disk[block_id[j]] = Good(block_id[j])'
  BY <1>2, <1>5 DEF CacheOK
<1>11. CacheOK(w)'
  <2>1. Once'
    BY DEF Once, CacheOK
  <2> QED
    BY <1>8, <1>9, <1>10, <2>1 DEF CacheOK, Good
<1> QED
  BY <1>4, <1>11

\* A buffer that is not held is given to block b, which is not loaded: its old block is
\* on the disk then.
LEMMA ReplaceOK ==
  ASSUME TypeOK, NEW w, CacheOK(w), NEW b \in Block, Loaded(b) = {}, NEW i \in Buff,
         block_id[i] \notin w, NEW x \in SUBSET Block, w \subseteq x,
         disk' = WriteBack(i), block_id' = [block_id EXCEPT ![i] = b],
         \A j \in Buff \ {i} : dirty'[j] = dirty[j] /\ page'[j] = page[j],
         \A c \in Block \ {b} : latest'[c] = latest[c],
         page'[i] = Content(b, latest'[b]),
         dirty'[i] \/ latest'[b] = latest[b]
  PROVE  CacheOK(x)'
<1>1. /\ block_id \in [Buff -> Block \cup {None}] /\ disk \in [Block -> Contents] /\ b # None
      /\ dirty \in [Buff -> BOOLEAN]
  BY CacheAssumption DEF TypeOK
<1>2. block_id'[i] = b /\ \A j \in Buff \ {i} : block_id'[j] = block_id[j]
  BY <1>1
<1>3. \A j \in Buff : block_id[j] # b
  BY DEF Loaded
<1>4. Good(b)' = Content(b, latest'[b]) /\ \A c \in Block \ {b} : Good(c)' = Good(c)
  BY DEF Good
<1>5. ASSUME NEW c \in Block, c # block_id[i]
      PROVE  disk'[c] = disk[c]
  BY <1>1, <1>5 DEF WriteBack
<1>6. ASSUME block_id[i] # None
      PROVE  disk'[block_id[i]] = Good(block_id[i])
  <2>1. page[i] = Good(block_id[i])
    BY <1>6 DEF CacheOK
  <2>2. CASE dirty[i]
    BY <1>1, <1>6, <2>1, <2>2 DEF WriteBack
  <2>3. CASE ~dirty[i]
    BY <1>6, <2>3 DEF WriteBack, CacheOK
  <2> QED
    BY <2>2, <2>3
<1>7. Once'
  BY <1>2, <1>3 DEF Once, CacheOK
<1>8. \A j \in Buff : block_id'[j] # None => page'[j] = Good(block_id[j])'
  <2> SUFFICES ASSUME NEW j \in Buff, block_id'[j] # None
               PROVE  page'[j] = Content(block_id'[j], latest'[block_id'[j]])
    BY DEF Good
  <2>1. CASE j = i
    BY <1>2, <2>1
  <2>2. CASE j # i
    <3>1. PICK c \in Block : c = block_id[j] /\ c = block_id'[j] /\ c # b
      BY <1>1, <1>2, <1>3, <2>2
    <3>2. page'[j] = Good(c)
      BY <2>2, <3>1, CacheAssumption DEF CacheOK
    <3> QED
      BY <3>1, <3>2 DEF Good
  <2> QED
    BY <2>1, <2>2
<1>9. ASSUME NEW c \in Block, \A j \in Buff : block_id'[j] # c
      PROVE  disk'[c] = Good(c)'
  <2>1. c # b
    BY <1>2, <1>9
  <2>2. CASE c = block_id[i]
    BY <1>1, <1>4, <1>6, <2>1, <2>2, CacheAssumption
  <2>3. CASE c # block_id[i]
    <3>1. \A j \in Buff : block_id[j] # c
      BY <1>2, <1>9, <2>3
    <3> QED
      BY <1>4, <1>5, <2>1, <2>3, <3>1 DEF CacheOK
  <2> QED
    BY <2>2, <2>3
<1>10. ASSUME NEW j \in Buff, block_id'[j] # None, ~dirty'[j], block_id'[j] \notin x
       PROVE  disk'[block_id'[j]] = Good(block_id[j])'
  <2>1. CASE j = i
    <3>1. Good(b)' = Good(b) /\ block_id'[j] = b
      BY <1>2, <1>10, <2>1 DEF Good
    <3>2. disk[b] = Good(b)
      BY <1>3 DEF CacheOK
    <3>3. disk'[b] = disk[b]
      BY <1>3, <1>5
    <3> QED
      BY <3>1, <3>2, <3>3 DEF Good
  <2>2. CASE j # i
    <3>1. PICK c \in Block : c = block_id[j] /\ c = block_id'[j] /\ c # b
      BY <1>1, <1>2, <1>3, <1>10, <2>2
    <3>2. c # block_id[i]
      BY <2>2, <3>1, CacheAssumption DEF CacheOK, Once
    <3>3. disk[c] = Good(c)
      BY <1>10, <2>2, <3>1, CacheAssumption DEF CacheOK
    <3> QED
      BY <1>4, <1>5, <3>1, <3>2, <3>3 DEF Good
  <2> QED
    BY <2>1, <2>2
<1> QED
  BY <1>7, <1>8, <1>9, <1>10 DEF CacheOK, Good

\* What the steps of an operation have in common: s leads from g to h.
Before(g, s, h) == /\ TypeOK /\ NumBuff > 1 /\ s \in Steps /\ g \in Stage /\ h \in Stage
                   /\ StageOK(g) /\ CacheOK(g.written) /\ Move(g, s, h)
Typed == /\ block_id \in [Buff -> Block \cup {None}]
         /\ page \in [Buff -> Contents] /\ disk \in [Block -> Contents]
         /\ using \in [Buff -> BOOLEAN] /\ dirty \in [Buff -> BOOLEAN] /\ id_next \in Buff
         /\ held \in [Block -> Buff \cup {NoBuff}] /\ latest \in [Block -> 0..1]
After(h) == Typed /\ StageOK(h) /\ CacheOK(h.written)

LEMMA Weaken ==
  ASSUME NEW w, NEW x, w \subseteq x, CacheOK(w),
         UNCHANGED <<block_id, page, disk, dirty, latest>>
  PROVE  CacheOK(x)'
  BY DEF CacheOK, Once, Good

LEMMA MissFacts ==
  ASSUME NEW g, NEW s, NEW h, Before(g, s, h), NEW do_read \in BOOLEAN, Opens(g, s.b, h),
         Loaded(s.b) = {}, Miss(s.b, Victim, do_read)
  PROVE  /\ StageOK(h)' /\ Victim \in Buff /\ block_id[Victim] \notin g.written
         /\ block_id' \in [Buff -> Block \cup {None}] /\ using' \in [Buff -> BOOLEAN]
         /\ dirty' \in [Buff -> BOOLEAN] /\ dirty'[Victim] = ~do_read /\ id_next' \in Buff
         /\ held' \in [Block -> Buff \cup {NoBuff}] /\ held'[s.b] = Victim
         /\ disk' \in [Block -> Contents]
         /\ disk'[s.b] = Good(s.b)
         /\ \A j \in Buff \ {Victim} : dirty'[j] = dirty[j]
<1>0. /\ TypeOK /\ NumBuff > 1 /\ g \in Stage /\ h \in Stage /\ s.b \in Block
      /\ StageOK(g) /\ CacheOK(g.written) /\ g.written \subseteq g.open
      /\ g.open \subseteq Block
  BY DEF Before, Steps, Stage
<1>1. PICK v, b : v = Victim /\ b = s.b
  OBVIOUS
<1>2. StageOK(h)' /\ v \in Buff /\ \A a \in g.open : held[a] # v
  BY <1>0, <1>1, MissStage
<1>3. block_id[v] \notin g.written
  <2> SUFFICES ASSUME NEW a \in g.written, block_id[v] = a
               PROVE  FALSE
    OBVIOUS
  <2>1. a \in g.open /\ a \in Block /\ held[a] \in Buff /\ block_id[held[a]] = a
    BY <1>0 DEF StageOK, Loaded
  <2>2. held[a] = v
    BY <1>0, <1>2, <2>1, CacheAssumption DEF CacheOK, Once
  <2> QED
    BY <1>2, <2>1, <2>2
<1>4. /\ block_id' = [block_id EXCEPT ![v] = b] /\ using' = using
      /\ dirty' = [dirty EXCEPT ![v] = ~do_read] /\ held' = [held EXCEPT ![b] = v]
      /\ id_next' = (id_next + 1) % NumBuff /\ disk' = WriteBack(v)
  BY <1>1 DEF Miss
<1>5. id_next' \in Buff
  BY <1>0, <1>4, CacheAssumption DEF Buff, TypeOK
<1>6. /\ block_id' \in [Buff -> Block \cup {None}] /\ using' \in [Buff -> BOOLEAN]
      /\ dirty' \in [Buff -> BOOLEAN] /\ dirty'[v] = ~do_read
      /\ held' \in [Block -> Buff \cup {NoBuff}] /\ held'[b] = v
      /\ \A j \in Buff \ {v} : dirty'[j] = dirty[j]
  BY <1>0, <1>1, <1>2, <1>4 DEF TypeOK
<1>7. disk' \in [Block -> Contents]
  BY <1>0, <1>2, <1>4 DEF TypeOK, WriteBack
<1>8. disk'[b] = Good(b)
  <2>1. \A i \in Buff : block_id[i] # b
    BY <1>1 DEF Loaded
  <2>2. disk[b] = Good(b)
    BY <1>0, <1>1, <2>1 DEF CacheOK
  <2>3. disk'[b] = disk[b]
    BY <1>0, <1>1, <1>2, <1>4, <2>1 DEF WriteBack, TypeOK
  <2> QED
    BY <2>2, <2>3
<1> QED
  BY <1>1, <1>2, <1>3, <1>5, <1>6, <1>7, <1>8

LEMMA HitTypes ==
  ASSUME TypeOK, NEW b \in Block, NEW i \in Loaded(b), Hit(b, i)
  PROVE  /\ using' \in [Buff -> BOOLEAN] /\ held' \in [Block -> Buff \cup {NoBuff}]
         /\ held'[b] = i /\ UNCHANGED <<block_id, dirty, id_next, disk>>
  BY DEF TypeOK, Hit, Loaded

LEMMA GetStep ==
  ASSUME NEW g, NEW s, NEW h, Before(g, s, h), s.do = "get", block_get(s.b, TRUE),
         page' = IF Loaded(s.b) = {} THEN [page EXCEPT ![Victim] = disk'[s.b]] ELSE page,
         latest' = latest
  PROVE  After(h)'
<1>0. PICK b \in Block : b = s.b
  BY DEF Before, Steps
<1>1. /\ Opens(g, b, h) /\ TypeOK /\ StageOK(g) /\ CacheOK(g.written) /\ Once
      /\ g \in Stage /\ h \in Stage /\ g.written \subseteq h.written
      /\ h.written \in SUBSET Block
  BY <1>0 DEF Before, Move, Opens, CacheOK, Stage
<1>2. ASSUME NEW i \in Loaded(b), Hit(b, i)
      PROVE  After(h)'
  <2>1. StageOK(h)'
    BY <1>1, <1>2, HitStage
  <2>2. page' = page
    BY <1>0
  <2>3. /\ using' \in [Buff -> BOOLEAN] /\ held' \in [Block -> Buff \cup {NoBuff}]
        /\ UNCHANGED <<block_id, dirty, id_next, disk>>
    BY <1>1, <1>2, HitTypes
  <2>4. CacheOK(h.written)'
    BY <1>1, <2>2, <2>3, Weaken
  <2>5. Typed'
    BY <1>1, <2>2, <2>3 DEF Typed, TypeOK
  <2> QED
    BY <2>1, <2>4, <2>5 DEF After
<1>3. ASSUME Loaded(b) = {}, Miss(b, Victim, TRUE)
      PROVE  After(h)'
  <2>1. PICK v \in Buff : v = Victim
    BY <1>0, <1>1, <1>3, MissFacts
  <2>2. /\ StageOK(h)' /\ block_id[v] \notin g.written
        /\ block_id' \in [Buff -> Block \cup {None}] /\ using' \in [Buff -> BOOLEAN]
        /\ dirty' \in [Buff -> BOOLEAN] /\ id_next' \in Buff
        /\ held' \in [Block -> Buff \cup {NoBuff}] /\ disk' \in [Block -> Contents]
        /\ disk'[b] = Good(b) /\ \A j \in Buff \ {v} : dirty'[j] = dirty[j]
    BY <1>0, <1>1, <1>3, <2>1, MissFacts
  <2>3. page' = [page EXCEPT ![v] = Good(b)]
    BY <1>0, <1>3, <2>1, <2>2
  <2>4. /\ page' \in [Buff -> Contents] /\ page'[v] = Content(b, latest'[b])
        /\ \A j \in Buff \ {v} : page'[j] = page[j]
    <3>1. Good(b) \in Contents /\ Good(b) = Content(b, latest'[b])
      BY <1>1, VersionType DEF Good
    <3> QED
      BY <1>1, <2>3, <3>1 DEF TypeOK
  <2>5. disk' = WriteBack(v) /\ block_id' = [block_id EXCEPT ![v] = b]
    BY <1>3, <2>1 DEF Miss
  <2>6. CacheOK(h.written)'
    BY <1>1, <1>3, <2>2, <2>4, <2>5, ReplaceOK
  <2>7. Typed'
    BY <1>1, <2>2, <2>4 DEF Typed, TypeOK
  <2> QED
    BY <2>2, <2>6, <2>7 DEF After
<1> QED
  BY <1>0, <1>2, <1>3 DEF block_get

LEMMA FillStep ==
  ASSUME NEW g, NEW s, NEW h, Before(g, s, h), s.do = "fill", block_get(s.b, FALSE),
         Write(s.b, held'[s.b])
  PROVE  After(h)'
<1>0. PICK b \in Block : b = s.b
  BY DEF Before, Steps
<1>1. /\ Opens(g, b, h) /\ TypeOK /\ StageOK(g) /\ CacheOK(g.written) /\ Once
      /\ g \in Stage /\ h \in Stage /\ g.written \subseteq h.written /\ b \in h.written
      /\ h.written \in SUBSET Block
  BY <1>0 DEF Before, Move, Opens, CacheOK, Stage
<1>2. ASSUME NEW i \in Loaded(b), Hit(b, i)
      PROVE  After(h)'
  <2>1. StageOK(h)'
    BY <1>1, <1>2, HitStage
  <2>2. /\ using' \in [Buff -> BOOLEAN] /\ held' \in [Block -> Buff \cup {NoBuff}]
        /\ held'[b] = i /\ UNCHANGED <<block_id, dirty, id_next, disk>>
    BY <1>1, <1>2, HitTypes
  <2>3. CacheOK(h.written)
    BY <1>1 DEF CacheOK
  <2>4. CacheOK(h.written)' /\ latest' \in [Block -> 0..1] /\ page' \in [Buff -> Contents]
    BY <1>0, <1>1, <2>2, <2>3, WriteOK
  <2>5. Typed'
    BY <1>1, <2>2, <2>4 DEF Typed, TypeOK
  <2> QED
    BY <2>1, <2>4, <2>5 DEF After
<1>3. ASSUME Loaded(b) = {}, Miss(b, Victim, FALSE)
      PROVE  After(h)'
  <2>1. PICK v \in Buff : v = Victim
    BY <1>0, <1>1, <1>3, MissFacts
  <2>2. /\ StageOK(h)' /\ block_id[v] \notin g.written
        /\ block_id' \in [Buff -> Block \cup {None}] /\ using' \in [Buff -> BOOLEAN]
        /\ dirty' \in [Buff -> BOOLEAN] /\ id_next' \in Buff /\ dirty'[v]
        /\ held' \in [Block -> Buff \cup {NoBuff}] /\ disk' \in [Block -> Contents]
        /\ held'[b] = v /\ \A j \in Buff \ {v} : dirty'[j] = dirty[j]
    BY <1>0, <1>1, <1>3, <2>1, MissFacts
  <2>3. PICK n \in 0..1 : n = NewVersion(b)
    BY <1>1, VersionType
  <2>4. /\ latest' = [latest EXCEPT ![b] = n]
        /\ page' = [page EXCEPT ![v] = Content(b, n)] /\ Content(b, n) \in Contents
    BY <1>0, <1>1, <2>2, <2>3, VersionType DEF Write
  <2>5. /\ page' \in [Buff -> Contents] /\ latest' \in [Block -> 0..1]
        /\ page'[v] = Content(b, latest'[b])
        /\ (\A j \in Buff \ {v} : page'[j] = page[j])
        /\ \A c \in Block \ {b} : latest'[c] = latest[c]
    BY <1>1, <2>4 DEF TypeOK
  <2>6. disk' = WriteBack(v) /\ block_id' = [block_id EXCEPT ![v] = b]
    BY <1>3, <2>1 DEF Miss
  <2>7. CacheOK(h.written)'
    <3>1. PICK w, x : w = g.written /\ x = h.written
      OBVIOUS
    <3>2. CacheOK(w) /\ block_id[v] \notin w /\ x \in SUBSET Block /\ w \subseteq x
      BY <1>1, <2>2, <3>1
    <3>3. \A j \in Buff \ {v} : dirty'[j] = dirty[j] /\ page'[j] = page[j]
      BY <2>2, <2>5
    <3>4. dirty'[v] \/ latest'[b] = latest[b]
      BY <2>2
    <3>5. CacheOK(x)'
      BY <1>1, <1>3, <2>5, <2>6, <3>2, <3>3, <3>4, ReplaceOK
    <3> QED
      BY <3>1, <3>5
  <2>8. Typed'
    BY <1>1, <2>2, <2>5 DEF Typed, TypeOK
  <2> QED
    BY <2>2, <2>7, <2>8 DEF After
<1> QED
  BY <1>0, <1>2, <1>3 DEF block_get

LEMMA UseStep ==
  ASSUME NEW g, NEW s, NEW h, Before(g, s, h), s.do = "use",
         UNCHANGED <<block_id, page, using, dirty, id_next, disk, held, latest>>
  PROVE  After(h)'
<1>1. h = g
  BY DEF Before, Move
<1>2. TypeOK /\ StageOK(g) /\ CacheOK(g.written)
  BY DEF Before
<1>3. StageOK(g)'
  BY <1>2 DEF StageOK, Loaded
<1>4. CacheOK(g.written)'
  BY <1>2, Weaken
<1>5. Typed'
  BY <1>2 DEF Typed, TypeOK
<1> QED
  BY <1>1, <1>3, <1>4, <1>5 DEF After

LEMMA PutStep ==
  ASSUME NEW g, NEW s, NEW h, Before(g, s, h), s.do = "put", Write(s.b, held[s.b]),
         UNCHANGED <<block_id, using, dirty, id_next, disk, held>>
  PROVE  After(h)'
<1>0. PICK b \in Block : b = s.b
  BY DEF Before, Steps
<1>1. /\ h = g /\ b \in g.written /\ TypeOK /\ StageOK(g) /\ CacheOK(g.written)
      /\ g.written \subseteq g.open
  BY <1>0 DEF Before, Move, Stage
<1>2. PICK i \in Loaded(b) : i = held[b]
  BY <1>1 DEF StageOK
<1>3. CacheOK(g.written)' /\ latest' \in [Block -> 0..1] /\ page' \in [Buff -> Contents]
  <2>1. PICK w : w = g.written
    OBVIOUS
  <2>2. CacheOK(w)' /\ latest' \in [Block -> 0..1] /\ page' \in [Buff -> Contents]
    BY <1>0, <1>1, <1>2, <2>1, WriteOK
  <2> QED
    BY <2>1, <2>2
<1>4. StageOK(g)'
  BY <1>1 DEF StageOK, Loaded
<1>5. Typed'
  BY <1>1, <1>3 DEF Typed, TypeOK
<1> QED
  BY <1>1, <1>3, <1>4, <1>5 DEF After

\* A block is committed, as written if it was.
LEMMA CommitStep ==
  ASSUME NEW g, NEW s, NEW h, Before(g, s, h),
         \/ s.do = "commit" /\ block_commit(held[s.b], FALSE)
         \/ s.do = "dirty" /\ block_commit(held[s.b], TRUE)
  PROVE  After(h)'
<1>0. PICK b \in Block : b = s.b
  BY DEF Before, Steps
<1>1. /\ Closes(g, b, h) /\ TypeOK /\ StageOK(g) /\ CacheOK(g.written)
      /\ g.open \subseteq Block /\ h.written \in {g.written, g.written \ {b}}
      /\ s.do = "commit" => b \notin g.written
  BY <1>0 DEF Before, Move, Stage
<1>2. /\ b \in g.open /\ h.open = g.open \ {b} /\ h.more = (h.open = {})
  BY <1>1 DEF Closes
<1>3. PICK i \in Buff : i = held[b] /\ block_id[i] = b
  BY <1>1, <1>2 DEF StageOK, Loaded
<1>4. /\ using' = [using EXCEPT ![i] = FALSE]
      /\ UNCHANGED <<block_id, page, id_next, disk, held, latest>>
      /\ dirty' \in [Buff -> BOOLEAN] /\ (\A j \in Buff \ {i} : dirty'[j] = dirty[j])
      /\ dirty[i] => dirty'[i]
      /\ s.do = "dirty" => dirty'[i]
  BY <1>0, <1>1, <1>3 DEF block_commit, TypeOK
<1>5. StageOK(h)'
  <2>1. \A a \in h.open : held'[a] \in Loaded(a)'
    BY <1>1, <1>2, <1>4 DEF StageOK, Loaded
  <2>2. ASSUME NEW j \in Buff, using'[j]
        PROVE  \E a \in h.open : held'[a] = j
    <3>1. j # i /\ using[j]
      BY <1>1, <1>3, <1>4, <2>2 DEF TypeOK
    <3>2. PICK a \in g.open : held[a] = j
      BY <1>1, <3>1 DEF StageOK
    <3> QED
      BY <1>2, <1>3, <1>4, <3>1, <3>2
  <2> QED
    BY <1>2, <2>1, <2>2 DEF StageOK
<1>6. CacheOK(h.written)'
  <2>1. PICK w, x : w = g.written /\ x = h.written
    OBVIOUS
  <2>2. \A j \in Buff : block_id[j] # None /\ ~dirty'[j] /\ block_id[j] \notin x
                          => disk[block_id[j]] = Good(block_id[j])
    <3> SUFFICES ASSUME NEW j \in Buff, block_id[j] # None, ~dirty'[j], block_id[j] \notin x
                 PROVE  disk[block_id[j]] = Good(block_id[j])
      OBVIOUS
    <3>1. ~dirty[j]
      BY <1>4
    <3>2. CASE j = i
      <4>1. s.do # "dirty"
        BY <1>4, <3>2
      <4>2. b \notin w
        BY <1>0, <1>1, <2>1, <4>1
      <4> QED
        BY <1>1, <1>3, <2>1, <3>1, <3>2, <4>2 DEF CacheOK
    <3>3. CASE j # i
      <4>1. block_id[j] # b
        BY <1>1, <1>3, <3>3, CacheAssumption DEF CacheOK, Once
      <4>2. block_id[j] \notin w
        BY <1>1, <2>1, <4>1
      <4> QED
        BY <1>1, <2>1, <3>1, <4>2 DEF CacheOK
    <3> QED
      BY <3>2, <3>3
  <2>3. CacheOK(x)'
    BY <1>1, <1>4, <2>2 DEF CacheOK, Once, Good
  <2> QED
    BY <2>1, <2>3
<1>7. Typed'
  BY <1>1, <1>4 DEF Typed, TypeOK
<1> QED
  BY <1>5, <1>6, <1>7 DEF After

LEMMA StepInv ==
  ASSUME CacheInv, NumBuff > 1, Step
  PROVE  CacheInv'
<1>1. PICK g \in Stage : Path(g, todo, Start) /\ StageOK(g) /\ CacheOK(g.written)
  BY DEF CacheInv
<1>2. TypeOK /\ fs_mounted /\ fs_mounted' = fs_mounted /\ todo # <<>> /\ todo' = Tail(todo)
  BY DEF CacheInv, Unmounted, Step
<1>3. PICK t, s : t = todo /\ s = Head(todo)
  OBVIOUS
<1>4. s \in Steps /\ Tail(t) \in Seq(Steps)
  BY <1>1, <1>2, <1>3, PathNext
<1>5. PICK h \in Stage : Move(g, s, h) /\ Path(h, Tail(t), Start)
  BY <1>1, <1>2, <1>3, PathNext
<1>6. Before(g, s, h)
  BY <1>1, <1>2, <1>4, <1>5 DEF Before
<1>7. After(h)'
  BY <1>3, <1>6, GetStep, FillStep, UseStep, PutStep, CommitStep DEF Step
<1>8. TypeOK'
  BY <1>2, <1>3, <1>4, <1>7 DEF After, Typed, TypeOK, Steps
<1> QED
  BY <1>2, <1>3, <1>5, <1>7, <1>8 DEF CacheInv, Unmounted, After

\* Between two operations no block is held.
LEMMA Idle ==
  ASSUME CacheInv, todo = <<>>
  PROVE  Path(Start, <<>>, Start) /\ StageOK(Start) /\ CacheOK({}) /\ Start \in Stage
         /\ Start.open = {} /\ Start.written = {}
<1>1. PICK g \in Stage : Path(g, <<>>, Start) /\ StageOK(g) /\ CacheOK(g.written)
  BY DEF CacheInv
<1>2. g = Start
  BY <1>1, PathEmpty
<1>3. Start.written = {} /\ Start.open = {}
  BY DEF Start, At
<1> QED
  BY <1>1, <1>2, <1>3

LEMMA InitCache == Init => CacheInv
<1> SUFFICES ASSUME Init
             PROVE  CacheInv
  OBVIOUS
<1>1. Start \in Stage /\ Start.open = {} /\ Start.written = {}
  BY DEF Start, At, Stage
<1>2. Path(Start, <<>>, Start)
  <2>1. /\ <<Start>> \in Seq(Stage) /\ Len(<<Start>>) = 1 /\ <<Start>>[1] = Start
        /\ <<>> \in Seq(Steps) /\ Len(<<>>) = 0
    BY <1>1
  <2>2. Labels(Start, <<>>, Start, <<Start>>)
    BY <2>1 DEF Labels
  <2> QED
    BY <2>1, <2>2 DEF Path
<1>3. StageOK(Start)
  BY <1>1 DEF Init, StageOK
<1>4. CacheOK({})
  BY CacheAssumption DEF Init, CacheOK, Once, Good
<1>5. TypeOK
  <2>1. Blank \in Contents /\ (\A b \in Block : Content(b, 0) \in Contents) /\ 0 \in Buff
    BY CacheAssumption DEF Blank, Content, Contents, Buff
  <2>2. <<>> \in Seq([do : {"get", "fill", "use", "put", "commit", "dirty"}, b : Block])
    OBVIOUS
  <2>3. /\ block_id \in [Buff -> Block \cup {None}] /\ page \in [Buff -> Contents]
        /\ disk \in [Block -> Contents] /\ held \in [Block -> Buff \cup {NoBuff}]
        /\ latest \in [Block -> 0..1]
    BY <2>1 DEF Init
  <2>4. using \in [Buff -> BOOLEAN] /\ dirty \in [Buff -> BOOLEAN] /\ fs_mounted \in BOOLEAN
    BY DEF Init
  <2> QED
    BY <2>1, <2>2, <2>3, <2>4 DEF Init, TypeOK
<1> QED
  BY <1>1, <1>2, <1>3, <1>4, <1>5 DEF Init, CacheInv, Unmounted

LEMMA BeginInv ==
  ASSUME CacheInv, NEW op \in Bracketed, Begin(op)
  PROVE  CacheInv'
<1>1. /\ todo = <<>> /\ fs_mounted' = TRUE /\ held' = [b \in Block |-> NoBuff]
      /\ UNCHANGED <<block_id, page, using, dirty, id_next, disk, latest>> /\ TypeOK
  BY DEF Begin, CacheInv
<1>2. PICK t : t = todo'
  OBVIOUS
<1>3. Path(Start, t, Start) /\ t \in Seq(Steps)
  <2>1. PICK i, j \in InodeBlock, d, e \in DataBlock : t \in Scripts(op, i, j, d, e)
    BY <1>2 DEF Begin
  <2>2. Path(Start, t, Start)
    BY <2>1, ScriptPath
  <2> QED
    BY <2>2 DEF Path
<1>4. /\ StageOK(Start) /\ CacheOK({}) /\ Start \in Stage
      /\ Start.open = {} /\ Start.written = {}
  BY <1>1, Idle
<1>5. StageOK(Start)'
  BY <1>1, <1>4 DEF StageOK
<1>6. CacheOK({})'
  BY <1>1, <1>4, Weaken
<1>7. TypeOK'
  BY <1>1, <1>2, <1>3 DEF TypeOK, Steps
<1> QED
  BY <1>1, <1>2, <1>3, <1>4, <1>5, <1>6, <1>7 DEF CacheInv, Unmounted

LEMMA MountInv ==
  ASSUME CacheInv, mount_file_system
  PROVE  CacheInv'
<1>1. /\ todo = <<>> /\ fs_mounted' = TRUE /\ TypeOK
      /\ UNCHANGED <<block_id, page, using, dirty, id_next, disk, todo, held, latest>>
  BY DEF mount_file_system, CacheInv
<1>2. /\ StageOK(Start) /\ CacheOK({}) /\ Start \in Stage /\ Path(Start, <<>>, Start)
      /\ Start.open = {} /\ Start.written = {}
  BY <1>1, Idle
<1>3. StageOK(Start)'
  BY <1>1, <1>2 DEF StageOK
<1>4. CacheOK({})'
  BY <1>1, <1>2, Weaken
<1>5. TypeOK'
  BY <1>1 DEF TypeOK
<1> QED
  BY <1>1, <1>2, <1>3, <1>4, <1>5 DEF CacheInv, Unmounted

\* block_sink brings every dirty buffer to the disk.
LEMMA UnmountInv ==
  ASSUME CacheInv, unmount_file_system
  PROVE  CacheInv'
<1>1. /\ todo = <<>> /\ todo' = todo /\ TypeOK /\ block_sink
      /\ UNCHANGED <<block_id, page, using, id_next, held, latest>>
      /\ fs_mounted' = FALSE
  BY DEF unmount_file_system, CacheInv
<1>2. /\ StageOK(Start) /\ CacheOK({}) /\ Start \in Stage /\ Path(Start, <<>>, Start)
      /\ Start.open = {} /\ Start.written = {}
  BY <1>1, Idle
<1>3. StageOK(Start)'
  BY <1>1, <1>2 DEF StageOK
<1>4. ASSUME NEW b \in Block
      PROVE  disk'[b] = Good(b)
  <2>1. CASE \E i \in Loaded(b) : dirty[i]
    <3>1. PICK i : i = CHOOSE k \in Loaded(b) : dirty[k]
      OBVIOUS
    <3>2. i \in Loaded(b) /\ disk'[b] = page[i]
      BY <1>1, <2>1, <3>1 DEF block_sink
    <3> QED
      BY <1>2, <3>2, CacheAssumption DEF CacheOK, Loaded
  <2>2. CASE ~ \E i \in Loaded(b) : dirty[i]
    <3>1. disk'[b] = disk[b]
      BY <1>1, <2>2 DEF block_sink
    <3>2. CASE \E i \in Buff : block_id[i] = b
      BY <1>2, <2>2, <3>1, <3>2, CacheAssumption DEF CacheOK, Loaded
    <3>3. CASE \A i \in Buff : block_id[i] # b
      BY <1>2, <3>1, <3>3 DEF CacheOK
    <3> QED
      BY <3>2, <3>3
  <2> QED
    BY <2>1, <2>2
<1>5. disk' \in [Block -> Contents]
  <2>1. \A b \in Block : Good(b) \in Contents
    BY <1>1, VersionType DEF Good
  <2>2. disk' = [b \in Block |-> disk'[b]]
    BY <1>1 DEF block_sink
  <2> QED
    BY <1>4, <2>1, <2>2
<1>6. dirty' = [i \in Buff |-> FALSE]
  BY <1>1 DEF block_sink
<1>7. TypeOK'
  BY <1>1, <1>5, <1>6 DEF TypeOK
<1>8. CacheOK({})'
  <2>1. \A i \in Buff : block_id[i] # None => block_id[i] \in Block
    BY <1>1 DEF TypeOK
  <2>2. \A b \in Block : Good(b)' = Good(b)
    BY <1>1 DEF Good
  <2>3. \A i \in Buff : block_id'[i] # None => page'[i] = Good(block_id[i])'
    BY <1>1, <1>2 DEF CacheOK, Good
  <2>4. \A i \in Buff : block_id'[i] # None => disk'[block_id'[i]] = Good(block_id[i])'
    BY <1>1, <1>4, <2>1 DEF Good
  <2>5. Once'
    BY <1>1, <1>2 DEF CacheOK, Once
  <2> QED
    BY <1>4, <2>2, <2>3, <2>4, <2>5 DEF CacheOK
<1> QED
  BY <1>1, <1>2, <1>3, <1>6, <1>7, <1>8 DEF CacheInv, Unmounted

LEMMA NextCache ==
  ASSUME Ops \subseteq Bracketed, NumBuff > 1
  PROVE  CacheInv /\ [Next]_vars => CacheInv'
<1> SUFFICES ASSUME CacheInv, [Next]_vars
             PROVE  CacheInv'
  OBVIOUS
<1>1. CASE UNCHANGED vars
  <2>1. PICK g \in Stage : Path(g, todo, Start) /\ StageOK(g) /\ CacheOK(g.written)
    BY DEF CacheInv
  <2>2. StageOK(g)'
    BY <1>1, <2>1 DEF vars, StageOK, Loaded
  <2>3. CacheOK(g.written)'
    BY <1>1, <2>1, Weaken DEF vars
  <2>4. TypeOK' /\ Unmounted' /\ todo' = todo
    BY <1>1 DEF vars, CacheInv, TypeOK, Unmounted
  <2> QED
    BY <2>1, <2>2, <2>3, <2>4 DEF CacheInv
<1> QED
  BY <1>1, BeginInv, StepInv, MountInv, UnmountInv DEF Next

\* What an operation has of the cache is what was last written, and every pointer to a
\* buffer is good while it is used (block_get, block_commit), for any number of buffers
\* and blocks.
THEOREM CachePointers ==
  ASSUME Ops \subseteq Bracketed, NumBuff > 1
  PROVE  Spec => []HeldBlockLoaded
<1>1. CacheInv => HeldBlockLoaded
  <2> SUFFICES ASSUME CacheInv, todo # <<>>, Head(todo).do \notin {"get", "fill"}
               PROVE  held[Head(todo).b] \in Loaded(Head(todo).b)
    BY DEF HeldBlockLoaded
  <2>1. PICK g \in Stage : Path(g, todo, Start) /\ StageOK(g)
    BY DEF CacheInv
  <2>2. PICK s : s = Head(todo)
    OBVIOUS
  <2>3. PICK h \in Stage : Move(g, s, h)
    BY <2>1, <2>2, PathNext
  <2>4. s.b \in g.open
    BY <2>2, <2>3 DEF Move, Closes, Stage
  <2> QED
    BY <2>1, <2>2, <2>4 DEF StageOK
<1> QED
  BY <1>1, InitCache, NextCache, PTL DEF Spec

\* Replacing a buffer loses no change and mixes up no blocks: a block reads as it was last
\* written (block_get writes a dirty buffer back).
THEOREM CacheContents ==
  ASSUME Ops \subseteq Bracketed, NumBuff > 1
  PROVE  Spec => []CacheCoherent
<1>1. CacheInv => CacheCoherent
  <2> SUFFICES ASSUME CacheInv
               PROVE  CacheCoherent
    OBVIOUS
  <2>1. PICK w : CacheOK(w)
    BY DEF CacheInv
  <2>2. ASSUME NEW b \in Block
        PROVE  (\A i, j \in Loaded(b) : i = j) /\ Current(b) = Good(b)
    <3>1. \A i, j \in Loaded(b) : i = j
      BY <2>1, CacheAssumption DEF CacheOK, Once, Loaded
    <3>2. CASE Loaded(b) = {}
      BY <2>1, <3>2 DEF Current, CacheOK, Loaded
    <3>3. CASE Loaded(b) # {}
      <4>1. PICK i \in Loaded(b) : i = CHOOSE k \in Loaded(b) : TRUE
        BY <3>3
      <4>2. Current(b) = page[i]
        BY <3>3, <4>1 DEF Current
      <4> QED
        BY <2>1, <3>1, <4>2, CacheAssumption DEF CacheOK, Loaded
    <3> QED
      BY <3>1, <3>2, <3>3
  <2> QED
    BY <2>2 DEF CacheInv, CacheCoherent, Good
<1> QED
  BY <1>1, InitCache, NextCache, PTL DEF Spec

\* What was written before unmounting is on the disk (block_sink).
THEOREM CacheDurable ==
  ASSUME Ops \subseteq Bracketed, NumBuff > 1
  PROVE  Spec => []UnmountDurable
<1>1. CacheInv => UnmountDurable
  <2> SUFFICES ASSUME CacheInv, ~fs_mounted, NEW b \in Block
               PROVE  disk[b] = Good(b)
    BY DEF UnmountDurable, Good
  <2>1. todo = <<>> /\ \A i \in Buff : ~dirty[i]
    BY DEF CacheInv, Unmounted
  <2>2. CacheOK({})
    BY <2>1, Idle
  <2> QED
    BY <2>1, <2>2, CacheAssumption DEF CacheOK
<1> QED
  BY <1>1, InitCache, NextCache, PTL DEF Spec
=============================================================================
