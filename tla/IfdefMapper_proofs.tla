------------------------- MODULE IfdefMapper_proofs -------------------------
(***************************************************************************)
(* What is filed of a translation unit, for every set of texts: each block *)
(* is a conditional of the text of its file, its branches cover it, and no *)
(* conditional that reached a hook is lost; its branches are those the     *)
(* plugin heard of, and those that Phase 4 takes to be recorded.           *)
(***************************************************************************)
EXTENDS IfdefMapper, Preprocessor_proofs, WellFoundedInduction

\* Of Phase 4, whatever they are (see BuildConfig.tla).
CONSTANTS Target, Macro, Expr, Meaning(_, _)

RealFrame == [sentinel : {FALSE}, file : File, kind : Openers, start : Nat,
              branches : Seq(Branch), cur : Branch]

-----------------------------------------------------------------------------
(* Line a of text t is an arm of the conditional opened on line s.         *)
ArmAt(t, s, a) ==
  a > s /\ t[a] \in Arms /\ Depth(t, a) = Depth(t, s) /\ Inside(t, s, a)

(* Branch b starts at a directive of that conditional.                     *)
BranchAt(t, s, b) == b.kind = t[b.start] /\ (b.start = s \/ ArmAt(t, s, b.start))

(* Branches bs cover the lines from one line to the next, which is not in  *)
(* them, without gap or overlap.                                           *)
Tiles(bs, from, next) ==
  /\ bs = <<>> => next = from
  /\ bs # <<>> => bs[1].start = from /\ bs[Len(bs)].end + 1 = next
  /\ \A i \in 1..Len(bs)-1 : bs[i].end + 1 = bs[i+1].start

(* What is known of an open block is so of its text.                       *)
FrameIsOf(t, fr) ==
  /\ fr.kind = t[fr.start]
  /\ \A i \in 1..Len(fr.branches) : BranchAt(t, fr.start, fr.branches[i])
  /\ BranchAt(t, fr.start, fr.cur)
  /\ Tiles(fr.branches, fr.start, fr.cur.start)

FramesMatch ==
  \A i \in 1..Len(stack) : ~stack[i].sentinel => FrameIsOf(text[stack[i].file], stack[i])

(* A block that was filed is one of its text.                              *)
BlockIsOf(t, b) ==
  /\ t[b.start] = b.kind /\ b.end = EndifOf(t, b.start)
  /\ \A i \in 1..Len(b.branches) :
       /\ b.branches[i].start \in {b.start} \cup ArmsOf(t, b.start)
       /\ b.branches[i].kind = t[b.branches[i].start]
  /\ b.branches # <<>> /\ Tiles(b.branches, b.start, b.end)

BlocksMatch ==
  \A f \in File : \A i \in 1..Len(fileBlocks[f]) : BlockIsOf(text[f], fileBlocks[f][i])

(* A conditional that reached a hook is filed or on the stack.             *)
All(s, S) == Count(s, Len(s), S)
FiledAt(line) == {b \in Block : b.start = line}
OpenAt(f, line) == {fr \in RealFrame : fr.file = f /\ fr.start = line}

Booked ==
  \A f \in File : \A line \in 1..Len(text[f]) :
    All(fileBlocks[f], FiledAt(line)) + All(stack, OpenAt(f, line))
      = IF f \in System THEN 0 ELSE All(entered[f], {line})

(* Which conditional an #endif ends: the one that is open and as deep.     *)
LEMMA EndifHere ==
  ASSUME NEW t, Len(t) \in Nat, NEW L \in 1..Len(t), NEW s, NEW r,
         Open(s, t, L, r), Depth(t, L) < r
  PROVE  EndifOf(t, s) = L
<1> DEFINE Ends(j) == /\ Depth(t, j) < Depth(t, s)
                      /\ \A k \in s+1..j-1 : Depth(t, k) >= Depth(t, s)
<1>1. s \in 1..L-1 /\ Depth(t, s) = r /\ \A x \in s..L-1 : Depth(t, x) >= Depth(t, s)
  BY DEF Open, Inside
<1>2. s \in Nat /\ L \in s+1..Len(t) /\ \A k \in s+1..L-1 : k \in s..L-1
  BY <1>1
<1>3. Ends(L)
  BY <1>1, <1>2
<1>4. ASSUME NEW j \in s+1..Len(t), Ends(j)
      PROVE  j = L
  <2>1. ~(j < L)
    <3>1. j < L => j \in s..L-1
      BY <1>2
    <3>2. \A x, y \in Int : ~(x < y /\ x >= y)
      OBVIOUS
    <3>3. Depth(t, j) \in Int /\ Depth(t, s) \in Int
      BY <1>2, DepthStep
    <3> QED
      BY <1>1, <1>4, <3>1, <3>2, <3>3
  <2>2. ~(j > L)
    <3>1. j > L => L \in s+1..j-1
      BY <1>2
    <3>2. \A x, y \in Int : ~(x < y /\ x >= y)
      OBVIOUS
    <3>3. Depth(t, L) \in Int /\ Depth(t, s) \in Int
      BY <1>2, DepthStep
    <3> QED
      BY <1>1, <1>4, <3>1, <3>2, <3>3
  <2> QED
    BY <1>2, <2>1, <2>2
<1>5. EndifOf(t, s) = CHOOSE j \in s+1..Len(t) : Ends(j)
  BY DEF EndifOf
<1> HIDE DEF Ends
<1> QED
  BY <1>2, <1>3, <1>4, <1>5

(* The arm on the line being read belongs to the conditional that is open. *)
LEMMA ArmHere ==
  ASSUME NEW t, NEW L \in Nat \ {0}, NEW s, NEW r \in Int,
         Open(s, t, L, r), Depth(t, L) = r, t[L] \in Arms
  PROVE  ArmAt(t, s, L)
<1>1. Open(s, t, L + 1, r)
  BY OpenStays
<1>2. L + 1 - 1 = L /\ s \in 1..L-1 /\ Depth(t, s) = r
  BY DEF Open
<1>3. Inside(t, s, L)
  BY <1>1, <1>2 DEF Open
<1> QED
  BY <1>2, <1>3 DEF ArmAt

(* An arm seen before the #endif is one of the arms of the conditional.    *)
LEMMA ArmBeforeEndif ==
  ASSUME NEW t, Len(t) \in Nat, NEW L \in 1..Len(t), NEW s, NEW r \in Int, NEW a \in Nat,
         Open(s, t, L, r), Depth(t, L) < r, ArmAt(t, s, a)
  PROVE  a \in ArmsOf(t, s)
<1>1. EndifOf(t, s) = L
  BY EndifHere
<1>2. s \in 1..L-1 /\ Depth(t, s) = r
  BY DEF Open
<1>3. a > s /\ s <= a /\ \A x \in s..a : Depth(t, x) >= Depth(t, s)
  BY DEF ArmAt, Inside
<1>4. ~(L <= a)
  <2>1. L <= a => L \in s..a
    BY <1>2
  <2>2. Depth(t, L) \in Int
    BY DepthStep
  <2> QED
    BY <1>2, <1>3, <2>1, <2>2
<1>5. a \in s+1..L
  BY <1>2, <1>3, <1>4
<1> QED
  BY <1>1, <1>5 DEF ArmsOf, ArmAt

(* A branch that starts where the ones before it end goes on the tiling.   *)
LEMMA TilesOn ==
  ASSUME NEW bs \in Seq(Branch), NEW b \in Branch, NEW from, NEW next,
         Tiles(bs, from, b.start), b.end + 1 = next
  PROVE  Tiles(Append(bs, b), from, next) /\ Append(bs, b) # <<>>
<1>0. PICK n, new : n = Len(bs) /\ new = Append(bs, b)
  OBVIOUS
<1>1. /\ n \in Nat /\ new \in Seq(Branch) /\ Len(new) = n + 1 /\ new # <<>>
      /\ \A i \in 1..n : new[i] = bs[i]
      /\ new[n + 1] = b
  BY <1>0, LenProperties, AppendProperties
<1>2. new[1].start = from
  <2>1. CASE bs = <<>>
    <3>1. n = 0
      BY <1>0, <2>1, EmptySeq
    <3> QED
      BY <1>1, <2>1, <3>1 DEF Tiles
  <2>2. CASE bs # <<>>
    <3>1. n \in Nat \ {0}
      BY <1>0, <2>2, EmptySeq
    <3>2. 1 \in 1..n
      BY <3>1
    <3> QED
      BY <1>1, <2>2, <3>2 DEF Tiles
  <2> QED
    BY <2>1, <2>2
<1>3. \A i \in 1..Len(new)-1 : new[i].end + 1 = new[i+1].start
  <2> SUFFICES ASSUME NEW i \in 1..n PROVE new[i].end + 1 = new[i+1].start
    BY <1>1
  <2>1. CASE i = n
    <3>1. n # 0 /\ bs # <<>>
      BY <1>0, <2>1, EmptySeq
    <3> QED
      BY <1>0, <1>1, <2>1, <3>1 DEF Tiles
  <2>2. CASE i # n
    <3>1. i \in 1..n-1 /\ i \in 1..n /\ i + 1 \in 1..n
      BY <1>1, <2>2
    <3> QED
      BY <1>0, <1>1, <3>1 DEF Tiles
  <2> QED
    BY <2>1, <2>2
<1>4. new[Len(new)].end + 1 = next
  BY <1>1
<1> QED
  BY <1>0, <1>1, <1>2, <1>3, <1>4 DEF Tiles

-----------------------------------------------------------------------------
(* What the hooks make of a frame.                                         *)
LEMMA FrameOpens ==
  ASSUME NEW t, NEW fr, NEW f \in File, NEW L \in Nat \ {0}, NEW w \in Openers, t[L] = w,
         fr = [sentinel |-> FALSE, file |-> f, kind |-> w, start |-> L,
               branches |-> <<>>, cur |-> OpenBranch(w, L)]
  PROVE  /\ fr \in RealFrame /\ ~fr.sentinel /\ fr.file = f /\ fr.start = L
         /\ FrameIsOf(t, fr)
<1>1. OpenBranch(w, L) \in Branch /\ OpenBranch(w, L).kind = w /\ OpenBranch(w, L).start = L
  BY DEF OpenBranch, Branch
<1>2. <<>> \in Seq(Branch) /\ Len(<<>>) = 0
  BY EmptySeq
<1>3. fr \in RealFrame
  BY <1>1, <1>2 DEF RealFrame
<1>4. BranchAt(t, L, OpenBranch(w, L))
  BY <1>1 DEF BranchAt
<1>5. Tiles(<<>>, L, L)
  BY <1>2 DEF Tiles
<1>6. FrameIsOf(t, fr)
  BY <1>1, <1>2, <1>4, <1>5 DEF FrameIsOf
<1> QED
  BY <1>3, <1>6

LEMMA BranchCloses ==
  ASSUME NEW t, NEW fr \in RealFrame, NEW L \in Nat \ {0}, FrameIsOf(t, fr)
  PROVE  LET closed == closeTopBranch(fr, L) IN
         /\ closed \in RealFrame /\ closed.file = fr.file
         /\ closed.kind = fr.kind /\ closed.start = fr.start
         /\ closed.branches # <<>> /\ Tiles(closed.branches, fr.start, L)
         /\ \A i \in 1..Len(closed.branches) : BranchAt(t, fr.start, closed.branches[i])
<1>0. PICK b, bs, closed :
        /\ b = [fr.cur EXCEPT !.end = L - 1] /\ bs = Append(fr.branches, b)
        /\ closed = closeTopBranch(fr, L)
  OBVIOUS
<1>1. fr.branches \in Seq(Branch) /\ fr.cur \in Branch /\ L - 1 \in Nat
  BY DEF RealFrame
<1>2. /\ b \in Branch /\ b.kind = fr.cur.kind /\ b.start = fr.cur.start
      /\ b.end = L - 1 /\ b.end + 1 = L
  <2>1. PICK cur, n : cur = fr.cur /\ n = L - 1
    OBVIOUS
  <2>2. b = [cur EXCEPT !.end = n] /\ cur \in Branch /\ n \in Nat /\ n + 1 = L
    BY <1>0, <1>1, <2>1
  <2>3. /\ b \in Branch /\ b.kind = cur.kind /\ b.start = cur.start /\ b.end = n
    BY <2>2 DEF Branch
  <2> QED
    BY <2>1, <2>2, <2>3
<1>3. closed = [fr EXCEPT !.branches = bs]
  BY <1>0 DEF closeTopBranch
<1>4. Len(fr.branches) \in Nat
  BY <1>1, LenProperties
<1>5. /\ bs \in Seq(Branch) /\ Len(bs) = Len(fr.branches) + 1
      /\ \A i \in 1..Len(fr.branches) : bs[i] = fr.branches[i]
      /\ bs[Len(fr.branches) + 1] = b
  BY <1>0, <1>1, <1>2, AppendProperties
<1>6. /\ closed \in RealFrame /\ closed.file = fr.file
      /\ closed.kind = fr.kind /\ closed.start = fr.start /\ closed.branches = bs
  BY <1>3, <1>5 DEF RealFrame
<1>7. Tiles(bs, fr.start, L) /\ bs # <<>>
  <2>1. Tiles(fr.branches, fr.start, b.start)
    BY <1>2 DEF FrameIsOf
  <2> QED
    BY <1>0, <1>1, <1>2, <2>1, TilesOn
<1>8. \A i \in 1..Len(bs) : BranchAt(t, fr.start, bs[i])
  <2>1. BranchAt(t, fr.start, b)
    BY <1>2 DEF FrameIsOf, BranchAt
  <2>2. \A i \in 1..Len(bs) : i \in 1..Len(fr.branches) \/ i = Len(fr.branches) + 1
    BY <1>4, <1>5
  <2>3. \A i \in 1..Len(fr.branches) : BranchAt(t, fr.start, bs[i])
    BY <1>5 DEF FrameIsOf
  <2> QED
    BY <1>5, <2>1, <2>2, <2>3
<1> QED
  BY <1>0, <1>6, <1>7, <1>8

(* The frame an arm on line L leaves: one branch more, the next one open.  *)
Advanced(fr, w, L) == [closeTopBranch(fr, L) EXCEPT !.cur = OpenBranch(w, L)]

LEMMA FrameGoesOn ==
  ASSUME NEW t, NEW fr \in RealFrame, NEW L \in Nat \ {0}, FrameIsOf(t, fr),
         ArmAt(t, fr.start, L), NEW w \in Arms, t[L] = w,
         NEW new, new = Advanced(fr, w, L)
  PROVE  /\ new \in RealFrame /\ ~new.sentinel /\ new.file = fr.file
         /\ new.start = fr.start /\ FrameIsOf(t, new)
<1>0. PICK closed, b : closed = closeTopBranch(fr, L) /\ b = OpenBranch(w, L)
  OBVIOUS
<1>1. /\ closed \in RealFrame /\ closed.file = fr.file
      /\ closed.kind = fr.kind /\ closed.start = fr.start
      /\ Tiles(closed.branches, fr.start, L)
      /\ \A i \in 1..Len(closed.branches) : BranchAt(t, fr.start, closed.branches[i])
  BY <1>0, BranchCloses
<1>2. b \in Branch /\ b.kind = w /\ b.start = L
  BY <1>0 DEF OpenBranch, Branch
<1>3. new = [closed EXCEPT !.cur = b]
  BY <1>0 DEF Advanced
<1>4. /\ new \in RealFrame /\ ~new.sentinel /\ new.file = fr.file /\ new.start = fr.start
      /\ new.kind = fr.kind /\ new.branches = closed.branches /\ new.cur = b
  BY <1>1, <1>2, <1>3 DEF RealFrame
<1>5. BranchAt(t, fr.start, b)
  BY <1>2 DEF BranchAt
<1>6. FrameIsOf(t, new)
  <2>1. new.kind = t[new.start]
    BY <1>4 DEF FrameIsOf
  <2>2. Tiles(new.branches, new.start, new.cur.start)
    BY <1>1, <1>2, <1>4
  <2>3. \A i \in 1..Len(new.branches) : BranchAt(t, new.start, new.branches[i])
    BY <1>1, <1>4
  <2> QED
    BY <1>4, <1>5, <2>1, <2>2, <2>3 DEF FrameIsOf
<1> QED
  BY <1>4, <1>6

LEMMA BlockIsFiled ==
  ASSUME NEW t, Len(t) \in Nat, NEW fr \in RealFrame, NEW L \in 1..Len(t), NEW r \in Int,
         FrameIsOf(t, fr), Open(fr.start, t, L, r), Depth(t, L) < r,
         NEW b, b = popBlock(closeTopBranch(fr, L), L)
  PROVE  b \in Block /\ b.start = fr.start /\ BlockIsOf(t, b)
<1>0. PICK closed : closed = closeTopBranch(fr, L)
  OBVIOUS
<1>1. /\ closed \in RealFrame
      /\ closed.kind = fr.kind /\ closed.start = fr.start
      /\ closed.branches # <<>> /\ Tiles(closed.branches, fr.start, L)
      /\ \A i \in 1..Len(closed.branches) : BranchAt(t, fr.start, closed.branches[i])
  BY <1>0, BranchCloses
<1>2. b = [kind |-> closed.kind, start |-> closed.start, end |-> L, branches |-> closed.branches]
  BY <1>0 DEF popBlock
<1>3. /\ b \in Block /\ b.start = fr.start /\ b.kind = fr.kind /\ b.end = L
      /\ b.branches = closed.branches /\ b.branches \in Seq(Branch)
  BY <1>1, <1>2 DEF Block, RealFrame
<1>4. t[b.start] = b.kind
  BY <1>3 DEF FrameIsOf
<1>5. b.end = EndifOf(t, b.start)
  BY <1>3, EndifHere
<1>6. ASSUME NEW i \in 1..Len(b.branches)
      PROVE  /\ b.branches[i].start \in {b.start} \cup ArmsOf(t, b.start)
             /\ b.branches[i].kind = t[b.branches[i].start]
  <2>1. BranchAt(t, b.start, b.branches[i])
    BY <1>1, <1>3
  <2>2. b.branches[i] \in Branch
    BY <1>3, ElementOfSeq
  <2>3. b.branches[i].start \in Nat
    BY <2>2 DEF Branch
  <2>4. ArmAt(t, b.start, b.branches[i].start) => b.branches[i].start \in ArmsOf(t, b.start)
    BY <1>3, <2>3, ArmBeforeEndif
  <2> QED
    BY <2>1, <2>4 DEF BranchAt
<1>7. b.branches # <<>> /\ Tiles(b.branches, b.start, b.end)
  BY <1>1, <1>3
<1> QED
  BY <1>3, <1>4, <1>5, <1>6, <1>7 DEF BlockIsOf

-----------------------------------------------------------------------------
(* Counting in a sequence that grows and shrinks at its end.               *)
LEMMA CountSame ==
  ASSUME NEW t, NEW u, NEW S, NEW n \in Nat, \A i \in 1..n : t[i] = u[i]
  PROVE  Count(t, n, S) = Count(u, n, S)
<1>1. {i \in 1..n : t[i] \in S} = {i \in 1..n : u[i] \in S}
  OBVIOUS
<1> QED
  BY <1>1 DEF Count

LEMMA AllAppend ==
  ASSUME NEW X, NEW s \in Seq(X), NEW e \in X, NEW S
  PROVE  /\ All(s, S) \in Nat
         /\ All(Append(s, e), S) = IF e \in S THEN All(s, S) + 1 ELSE All(s, S)
<1>0. PICK n, new : n = Len(s) /\ new = Append(s, e)
  OBVIOUS
<1>1. /\ n \in Nat /\ Len(new) = n + 1 /\ new[n + 1] = e
      /\ \A i \in 1..n : new[i] = s[i]
  BY <1>0, LenProperties, AppendProperties
<1>2. Count(new, n, S) = Count(s, n, S)
  BY <1>1, CountSame
<1>3. Count(new, n + 1, S) = IF e \in S THEN Count(new, n, S) + 1 ELSE Count(new, n, S)
  <2>1. \A k \in Nat : Count(new, k + 1, S)
                         = IF new[k + 1] \in S THEN Count(new, k, S) + 1 ELSE Count(new, k, S)
    BY CountStep
  <2> QED
    BY <1>1, <2>1
<1>4. Count(s, n, S) \in Nat
  BY <1>1, CountStep
<1> QED
  BY <1>0, <1>1, <1>2, <1>3, <1>4 DEF All

LEMMA AllFront ==
  ASSUME NEW X, NEW s \in Seq(X), s # <<>>, NEW S
  PROVE  /\ All(Front(s), S) \in Nat
         /\ All(s, S) = IF Last(s) \in S THEN All(Front(s), S) + 1 ELSE All(Front(s), S)
<1>0. PICK n, k, fr, e : n = Len(s) /\ k = n - 1 /\ fr = Front(s) /\ e = Last(s)
  OBVIOUS
<1>1. /\ n \in Nat \ {0} /\ Len(fr) = k /\ s[n] = e
      /\ \A i \in 1..n-1 : fr[i] = s[i]
  BY <1>0, FrontIs
<1>2. k \in Nat /\ k + 1 = n /\ \A i \in 1..k : fr[i] = s[i]
  BY <1>0, <1>1
<1>3. Count(fr, k, S) = Count(s, k, S)
  BY <1>2, CountSame
<1>4. Count(s, k + 1, S) = IF s[k + 1] \in S THEN Count(s, k, S) + 1 ELSE Count(s, k, S)
  <2>1. \A m \in Nat : Count(s, m + 1, S)
                         = IF s[m + 1] \in S THEN Count(s, m, S) + 1 ELSE Count(s, m, S)
    BY CountStep
  <2> QED
    BY <1>2, <2>1
<1>5. Count(fr, k, S) \in Nat
  <2>1. \A m \in Nat : Count(fr, m, S) \in Nat
    BY CountStep
  <2> QED
    BY <1>2, <2>1
<1> QED
  BY <1>0, <1>1, <1>2, <1>3, <1>4, <1>5 DEF All

-----------------------------------------------------------------------------
(* The frame is the one the plugin must have for that conditional.         *)
Fits(fr, c) ==
  IF fr.sentinel THEN c.file \in System
  ELSE c.file \notin System /\ fr.file = c.file /\ fr.start = c.line

(* What the steps of the plugin and of the preprocessor keep of the two    *)
(* stacks.                                                                 *)
Stacks == stack \in Seq(Frame) /\ Aligned /\ FramesMatch

LEMMA FrameKinds ==
  /\ Sentinel \in Frame /\ Sentinel.sentinel
  /\ \A fr \in RealFrame : fr \in Frame /\ ~fr.sentinel
  /\ \A fr \in Frame : ~fr.sentinel => fr \in RealFrame
<1>1. Sentinel.sentinel
  BY DEF Sentinel
<1>2. Frame = {Sentinel} \cup RealFrame
  BY DEF Frame, RealFrame
<1>3. \A fr \in RealFrame : ~fr.sentinel
  BY DEF RealFrame
<1> QED
  BY <1>1, <1>2, <1>3

(* The last conditional has a frame, the last one, when a hook heard of it.*)
LEMMA TopFrame ==
  ASSUME PPInv, Stacks, conds # <<>>, ~Last(conds).skipped
  PROVE  /\ Len(stack) = Len(conds) /\ Len(conds) \in Nat \ {0} /\ stack # <<>>
         /\ Last(stack) \in Frame /\ Last(stack) = stack[Len(stack)]
         /\ Fits(Last(stack), Last(conds))
         /\ ~Last(stack).sentinel => FrameIsOf(text[Last(stack).file], Last(stack))
<1>1. conds \in Seq(Cond) /\ stack \in Seq(Frame)
  BY DEF PPInv, PPTypeOK, Cond, Stacks
<1>2. Len(conds) \in Nat \ {0} /\ Len(stack) \in Nat /\ Len(conds) \in 1..Len(conds)
  BY <1>1, EmptySeq, LenProperties
<1>3. Last(conds) = conds[Len(conds)]
  BY DEF Last
<1>4. Len(stack) = Len(conds)
  BY <1>2, <1>3 DEF Stacks, Aligned
<1>5. stack # <<>>
  BY <1>2, <1>4, EmptySeq
<1>6. Last(stack) \in Frame /\ Last(stack) = stack[Len(stack)]
  BY <1>1, <1>5, FrontIs
<1>7. Fits(Last(stack), Last(conds))
  BY <1>2, <1>3, <1>4, <1>6 DEF Stacks, Aligned, Fits
<1>8. ~Last(stack).sentinel => FrameIsOf(text[Last(stack).file], Last(stack))
  BY <1>2, <1>4, <1>6 DEF Stacks, FramesMatch
<1> QED
  BY <1>2, <1>4, <1>5, <1>6, <1>7, <1>8

(* In text that is compiled the two stacks are as high.                    *)
LEMMA SameHeight ==
  ASSUME PPInv, Stacks, ~Skipping
  PROVE  Len(stack) = Len(conds) /\ Len(conds) \in Nat
<1>1. conds \in Seq(Cond) /\ stack \in Seq(Frame)
  BY DEF PPInv, PPTypeOK, Cond, Stacks
<1>2. Len(conds) \in Nat /\ Len(stack) \in Nat
  BY <1>1, LenProperties
<1>3. CASE conds = <<>>
  <2>1. Len(conds) = 0
    BY <1>3, EmptySeq
  <2> QED
    BY <1>2, <2>1 DEF Stacks, Aligned
<1>4. CASE conds # <<>>
  <2>1. Len(conds) \in 1..Len(conds) /\ Last(conds) = conds[Len(conds)]
    BY <1>1, <1>4, EmptySeq DEF Last
  <2>2. ~Last(conds).skipped
    BY <1>4, <2>1 DEF Skipping, PPInv
  <2> QED
    BY <1>2, <1>4, <2>2, TopFrame
<1> QED
  BY <1>3, <1>4

LEMMA BothPush ==
  ASSUME PPInv, Stacks, ~Skipping, UNCHANGED text,
         NEW c \in Cond, ~c.skipped, conds' = Append(conds, c),
         NEW fr \in Frame, stack' = Append(stack, fr), Fits(fr, c),
         ~fr.sentinel => FrameIsOf(text[fr.file], fr)
  PROVE  Stacks'
<1>0. PICK n : n = Len(conds)
  OBVIOUS
<1>1. n \in Nat /\ Len(stack) = n /\ conds \in Seq(Cond) /\ stack \in Seq(Frame)
  BY <1>0, SameHeight DEF PPInv, PPTypeOK, Cond, Stacks
<1>2. /\ stack' \in Seq(Frame) /\ Len(stack') = n + 1 /\ stack'[n + 1] = fr
      /\ \A i \in 1..n : stack'[i] = stack[i]
  BY <1>1, AppendProperties
<1>3. Len(conds') = n + 1 /\ conds'[n + 1] = c /\ \A i \in 1..n : conds'[i] = conds[i]
  BY <1>0, <1>1, AppendProperties
<1>4. \A i \in 1..n+1 : i \in 1..n \/ i = n + 1
  BY <1>1
<1>5. \A i \in 1..n+1 : ~(i > n + 1)
  BY <1>1
<1>6. \A i \in 1..n+1 : ~conds'[i].skipped
  BY <1>0, <1>1, <1>3, <1>4 DEF Stacks, Aligned
<1>7. \A i \in 1..n+1 : Fits(stack'[i], conds'[i])
  BY <1>0, <1>1, <1>2, <1>3, <1>4 DEF Stacks, Aligned, Fits
<1>8. Aligned'
  <2>1. Len(stack') <= Len(conds')
    BY <1>1, <1>2, <1>3
  <2> QED
    BY <1>2, <1>3, <1>5, <1>6, <1>7, <2>1 DEF Aligned, Fits
<1>9. FramesMatch'
  BY <1>1, <1>2, <1>4 DEF Stacks, FramesMatch
<1> QED
  BY <1>2, <1>8, <1>9 DEF Stacks

LEMMA BothPop ==
  ASSUME PPInv, Stacks, conds # <<>>, ~Last(conds).skipped, UNCHANGED text,
         conds' = Front(conds), stack' = Front(stack)
  PROVE  Stacks'
<1>0. PICK n : n = Len(conds)
  OBVIOUS
<1>1. /\ n \in Nat \ {0} /\ Len(stack) = n /\ stack # <<>>
      /\ conds \in Seq(Cond) /\ stack \in Seq(Frame)
  BY <1>0, TopFrame DEF PPInv, PPTypeOK, Cond, Stacks
<1>2. /\ stack' \in Seq(Frame) /\ Len(stack') = n - 1
      /\ \A i \in 1..n-1 : stack'[i] = stack[i]
  BY <1>1, FrontIs
<1>3. Len(conds') = n - 1 /\ \A i \in 1..n-1 : conds'[i] = conds[i]
  BY <1>0, <1>1, FrontIs
<1>4. \A i \in 1..n-1 : i \in 1..n /\ ~(i > n - 1) /\ ~(i > n)
  BY <1>1
<1>5. n - 1 <= n - 1
  BY <1>1
<1>6. Aligned'
  BY <1>0, <1>1, <1>2, <1>3, <1>4, <1>5 DEF Stacks, Aligned
<1>7. FramesMatch'
  BY <1>1, <1>2, <1>4 DEF Stacks, FramesMatch
<1> QED
  BY <1>2, <1>6, <1>7 DEF Stacks

LEMMA TopsChange ==
  ASSUME PPInv, Stacks, conds # <<>>, ~Last(conds).skipped, UNCHANGED text,
         NEW c \in Cond, conds' = SetTop(conds, c), ~c.skipped,
         c.file = Last(conds).file, c.line = Last(conds).line,
         NEW fr \in Frame, stack' = SetTop(stack, fr), Fits(fr, c),
         ~fr.sentinel => FrameIsOf(text[fr.file], fr)
  PROVE  Stacks'
<1>0. PICK n : n = Len(conds)
  OBVIOUS
<1>1. /\ n \in Nat \ {0} /\ Len(stack) = n /\ stack # <<>>
      /\ conds \in Seq(Cond) /\ stack \in Seq(Frame)
  BY <1>0, TopFrame DEF PPInv, PPTypeOK, Cond, Stacks
<1>2. PICK st : st = SetTop(stack, fr)
  OBVIOUS
<1>3. PICK cs : cs = SetTop(conds, c)
  OBVIOUS
<1>4. /\ st \in Seq(Frame) /\ Len(st) = n /\ st[n] = fr
      /\ \A i \in 1..n-1 : st[i] = stack[i]
  <2>1. stack \in Seq(Frame) /\ stack # <<>> /\ fr \in Frame
    BY <1>1
  <2>2. /\ SetTop(stack, fr) \in Seq(Frame) /\ Len(SetTop(stack, fr)) = Len(stack)
        /\ SetTop(stack, fr)[Len(stack)] = fr
        /\ \A i \in 1..Len(stack)-1 : SetTop(stack, fr)[i] = stack[i]
    <3>1. PICK f : f = Front(stack)
      OBVIOUS
    <3>2. /\ f \in Seq(Frame) /\ Len(f) = Len(stack) - 1 /\ Len(stack) \in Nat \ {0}
          /\ \A i \in 1..Len(stack)-1 : f[i] = stack[i]
      BY <2>1, <3>1, FrontIs
    <3>3. /\ Append(f, fr) \in Seq(Frame) /\ Len(Append(f, fr)) = Len(f) + 1
          /\ Append(f, fr)[Len(f) + 1] = fr
          /\ \A i \in 1..Len(f) : Append(f, fr)[i] = f[i]
      BY <2>1, <3>2, AppendProperties
    <3>4. SetTop(stack, fr) = Append(f, fr)
      BY <3>1 DEF SetTop
    <3> QED
      BY <3>2, <3>3, <3>4
  <2> QED
    BY <1>1, <1>2, <2>2
<1>5. Len(cs) = n /\ cs[n] = c /\ \A i \in 1..n-1 : cs[i] = conds[i]
  <2>1. conds \in Seq(Cond) /\ conds # <<>> /\ c \in Cond
    BY <1>1
  <2>2. /\ Len(SetTop(conds, c)) = Len(conds) /\ SetTop(conds, c)[Len(conds)] = c
        /\ \A i \in 1..Len(conds)-1 : SetTop(conds, c)[i] = conds[i]
    <3>1. PICK f : f = Front(conds)
      OBVIOUS
    <3>2. /\ f \in Seq(Cond) /\ Len(f) = Len(conds) - 1 /\ Len(conds) \in Nat \ {0}
          /\ \A i \in 1..Len(conds)-1 : f[i] = conds[i]
      BY <2>1, <3>1, FrontIs
    <3>3. /\ Append(f, c) \in Seq(Cond) /\ Len(Append(f, c)) = Len(f) + 1
          /\ Append(f, c)[Len(f) + 1] = c
          /\ \A i \in 1..Len(f) : Append(f, c)[i] = f[i]
      BY <2>1, <3>2, AppendProperties
    <3>4. SetTop(conds, c) = Append(f, c)
      BY <3>1 DEF SetTop
    <3> QED
      BY <3>2, <3>3, <3>4
  <2> QED
    BY <1>0, <1>3, <2>2
<1>6. stack' = st /\ conds' = cs
  BY <1>2, <1>3
<1>7. \A i \in 1..n : ~(i > n) /\ (i \in 1..n-1 \/ i = n)
  BY <1>1
<1>8. \A i \in 1..n-1 : i \in 1..n
  BY <1>1
<1>9. n <= n
  BY <1>1
<1>10. \A i \in 1..n : ~cs[i].skipped
  BY <1>0, <1>1, <1>5, <1>7, <1>8 DEF Stacks, Aligned
<1>11. \A i \in 1..n : Fits(st[i], cs[i])
  BY <1>1, <1>4, <1>5, <1>7, <1>8 DEF Stacks, Aligned, Fits
<1>12. Aligned'
  BY <1>4, <1>5, <1>6, <1>7, <1>9, <1>10, <1>11 DEF Aligned, Fits
<1>13. FramesMatch'
  BY <1>1, <1>4, <1>6, <1>7, <1>8 DEF Stacks, FramesMatch
<1> QED
  BY <1>4, <1>6, <1>12, <1>13 DEF Stacks

(* A conditional the plugin does not hear of comes and goes above its stack*)
LEMMA UnheardOpens ==
  ASSUME PPInv, Stacks, UNCHANGED <<text, stack>>,
         NEW c \in Cond, c.skipped, conds' = Append(conds, c)
  PROVE  Stacks'
<1>0. PICK n : n = Len(conds)
  OBVIOUS
<1>1. n \in Nat /\ Len(stack) \in Nat /\ conds \in Seq(Cond)
  BY <1>0, LenProperties DEF PPInv, PPTypeOK, Cond, Stacks
<1>2. Len(conds') = n + 1 /\ conds'[n + 1] = c /\ \A i \in 1..n : conds'[i] = conds[i]
  BY <1>0, <1>1, AppendProperties
<1>3. Len(stack) <= n
  BY <1>0 DEF Stacks, Aligned
<1>4. \A i \in 1..n+1 : i \in 1..n \/ (i = n + 1 /\ i > Len(stack))
  BY <1>1, <1>3
<1>5. \A i \in 1..Len(stack) : i \in 1..n
  BY <1>1, <1>3
<1>6. Len(stack) <= n + 1
  BY <1>1, <1>3
<1>7. Aligned'
  BY <1>0, <1>2, <1>4, <1>5, <1>6 DEF Stacks, Aligned
<1>8. FramesMatch'
  BY DEF Stacks, FramesMatch
<1> QED
  BY <1>7, <1>8 DEF Stacks

LEMMA UnheardEnds ==
  ASSUME PPInv, Stacks, UNCHANGED <<text, stack>>,
         conds # <<>>, Last(conds).skipped, conds' = Front(conds)
  PROVE  Stacks'
<1>0. PICK n : n = Len(conds)
  OBVIOUS
<1>1. conds \in Seq(Cond) /\ stack \in Seq(Frame)
  BY DEF PPInv, PPTypeOK, Cond, Stacks
<1>2. /\ n \in Nat \ {0} /\ Len(stack) \in Nat /\ Last(conds) = conds[n]
      /\ Len(conds') = n - 1 /\ \A i \in 1..n-1 : conds'[i] = conds[i]
  BY <1>0, <1>1, FrontIs, LenProperties
<1>3. n \in 1..n
  BY <1>2
<1>4. n > Len(stack)
  BY <1>0, <1>2, <1>3 DEF Stacks, Aligned
<1>5. \A i \in 1..n-1 : i \in 1..n
  BY <1>2
<1>6. Len(stack) <= n - 1 /\ \A i \in 1..Len(stack) : i \in 1..n-1
  BY <1>2, <1>4
<1>7. Aligned'
  BY <1>0, <1>2, <1>5, <1>6 DEF Stacks, Aligned
<1>8. FramesMatch'
  BY DEF Stacks, FramesMatch
<1> QED
  BY <1>7, <1>8 DEF Stacks

-----------------------------------------------------------------------------
(* What a step keeps of what was filed, and of the books.                  *)
Files ==
  /\ fileBlocks \in [File -> Seq(Block)] /\ flushed \in BOOLEAN
  /\ BlocksMatch /\ Booked /\ (flushed => ~Reading)

(* Where a line is read, and what is known of it.                          *)
LEMMA LineRead ==
  ASSUME PPInv, NEW S, OnDirective(S)
  PROVE  /\ Reading /\ ~AtEnd /\ Word \in S /\ Word = text[Here.file][Here.line]
         /\ Here.file \in File /\ Here.line \in Nat \ {0}
         /\ Here.line \in 1..Len(text[Here.file]) /\ Len(text[Here.file]) \in Nat
BY HereTyped DEF OnDirective, Word

LEMMA OpeningKeeps ==
  ASSUME PPInv, Stacks, Files, Opening
  PROVE  Stacks' /\ Files'
<1>1. /\ OnDirective(Openers) /\ ~Skipping /\ UNCHANGED <<text, fileBlocks, flushed>>
      /\ entered' = [entered EXCEPT ![Here.file] = Append(@, Here.line)]
  BY DEF Opening, Enter
<1>2. PICK v \in BOOLEAN :
        conds' = Append(conds, [file |-> Here.file, line |-> Here.line,
                                skipped |-> FALSE, live |-> v,
                                took |-> IF v THEN Here.line ELSE 0])
  BY DEF Opening, Enter
<1>0. PICK f, L, w, c, fr :
        /\ f = Here.file /\ L = Here.line /\ w = Word
        /\ c = [file |-> Here.file, line |-> Here.line,
                skipped |-> FALSE, live |-> v,
                                took |-> IF v THEN Here.line ELSE 0]
        /\ fr = IF f \in System THEN Sentinel
                ELSE [sentinel |-> FALSE, file |-> f, kind |-> w, start |-> L,
                      branches |-> <<>>, cur |-> OpenBranch(w, L)]
  OBVIOUS
<1>3. /\ f \in File /\ L \in Nat \ {0} /\ w \in Openers /\ w = text[f][L]
      /\ L \in 1..Len(text[f]) /\ Reading
  BY <1>0, <1>1, LineRead
<1>4. c \in Cond /\ ~c.skipped /\ c.file = f /\ c.line = L /\ conds' = Append(conds, c)
  BY <1>0, <1>2, <1>3 DEF Cond
<1>5. stack' = Append(stack, fr)
  BY <1>0 DEF Opening, shouldSkip, pushBlock
<1>6. /\ fr \in Frame /\ Fits(fr, c) /\ (~fr.sentinel => FrameIsOf(text[fr.file], fr))
      /\ fr.sentinel <=> f \in System
      /\ ~fr.sentinel => fr \in RealFrame /\ fr.file = f /\ fr.start = L
  <2>1. CASE f \in System
    BY <1>0, <1>4, <2>1, FrameKinds DEF Fits
  <2>2. CASE f \notin System
    <3>1. /\ fr = [sentinel |-> FALSE, file |-> f, kind |-> w, start |-> L,
                   branches |-> <<>>, cur |-> OpenBranch(w, L)]
          /\ text[f][L] = w
      BY <1>0, <1>3, <2>2
    <3>2. /\ fr \in RealFrame /\ ~fr.sentinel /\ fr.file = f /\ fr.start = L
          /\ FrameIsOf(text[f], fr)
      BY <1>3, <3>1, FrameOpens
    <3> QED
      BY <1>4, <2>2, <3>2, FrameKinds DEF Fits
  <2> QED
    BY <2>1, <2>2
<1>7. Stacks'
  BY <1>1, <1>4, <1>5, <1>6, BothPush
<1>8. Booked'
  <2> SUFFICES ASSUME NEW g \in File, NEW line \in 1..Len(text[g])
               PROVE  All(fileBlocks[g], FiledAt(line)) + All(stack', OpenAt(g, line))
                        = IF g \in System THEN 0 ELSE All(entered'[g], {line})
    BY <1>1 DEF Booked
  <2>0. PICK a, b, d, b2, d2 :
          /\ a = All(fileBlocks[g], FiledAt(line))
          /\ b = All(stack, OpenAt(g, line)) /\ b2 = All(stack', OpenAt(g, line))
          /\ d = All(entered[g], {line}) /\ d2 = All(entered'[g], {line})
    OBVIOUS
  <2>1. a + b = IF g \in System THEN 0 ELSE d
    BY <2>0 DEF Files, Booked
  <2>2. a \in Nat
    <3>1. fileBlocks[g] \in Seq(Block)
      BY DEF Files
    <3>2. Len(fileBlocks[g]) \in Nat
      BY <3>1, LenProperties
    <3>3. \A k \in Nat : Count(fileBlocks[g], k, FiledAt(line)) \in Nat
      BY CountStep
    <3> QED
      BY <2>0, <3>2, <3>3 DEF All
  <2>3. b \in Nat /\ b2 = IF fr \in OpenAt(g, line) THEN b + 1 ELSE b
    <3>1. stack \in Seq(Frame)
      BY DEF Stacks
    <3> QED
      BY <2>0, <1>5, <1>6, <3>1, AllAppend
  <2>4. entered[g] \in Seq(Nat \ {0})
    BY DEF PPInv, PPTypeOK
  <2>5. d \in Nat /\ d2 = IF g = f /\ L = line THEN d + 1 ELSE d
    <3>1. /\ All(entered[g], {line}) \in Nat
          /\ All(Append(entered[g], L), {line})
               = IF L \in {line} THEN All(entered[g], {line}) + 1 ELSE All(entered[g], {line})
      <4>1. PICK X, s, K : X = Nat \ {0} /\ s = entered[g] /\ K = {line}
        OBVIOUS
      <4>2. s \in Seq(X) /\ L \in X
        BY <1>3, <2>4, <4>1
      <4>3. All(s, K) \in Nat /\ All(Append(s, L), K) = IF L \in K THEN All(s, K) + 1 ELSE All(s, K)
        BY <4>2, AllAppend
      <4> QED
        BY <4>1, <4>3
    <3>2. entered'[g] = IF g = f THEN Append(entered[g], L) ELSE entered[g]
      BY <1>0, <1>1 DEF PPInv, PPTypeOK
    <3> QED
      BY <2>0, <3>1, <3>2
  <2>6. fr \in OpenAt(g, line) <=> (f \notin System /\ f = g /\ L = line)
    <3>1. fr.sentinel => fr \notin RealFrame
      BY FrameKinds
    <3>2. fr \in OpenAt(g, line) <=> fr \in RealFrame /\ fr.file = g /\ fr.start = line
      BY DEF OpenAt
    <3>3. CASE fr.sentinel
      BY <1>6, <3>1, <3>2, <3>3
    <3>4. CASE ~fr.sentinel
      BY <1>6, <3>2, <3>4
    <3> QED
      BY <3>3, <3>4
  <2>7. b2 = (IF f \notin System /\ f = g /\ L = line THEN b + 1 ELSE b)
    BY <2>3, <2>6
  <2>8. a + b2 = IF g \in System THEN 0 ELSE d2
    BY <2>1, <2>2, <2>3, <2>5, <2>7
  <2> QED
    BY <2>0, <2>8
<1>9. BlocksMatch'
  BY <1>1 DEF Files, BlocksMatch
<1>10. flushed' => ~Reading'
  BY <1>1, <1>3 DEF Files
<1> QED
  BY <1>1, <1>7, <1>8, <1>9, <1>10 DEF Files

(* A step that files nothing and pushes and pops nothing the books know.   *)
LEMMA NothingFiled ==
  ASSUME Files, Reading \/ (inc' = inc /\ flushed' = flushed),
         UNCHANGED <<text, entered, fileBlocks>>, flushed' = flushed,
         \A g \in File : \A line \in Nat : All(stack', OpenAt(g, line)) = All(stack, OpenAt(g, line))
  PROVE  Files'
<1>1. Booked'
  <2>1. \A g \in File : \A line \in 1..Len(text[g]) : line \in Nat
    OBVIOUS
  <2> QED
    BY <2>1 DEF Files, Booked
<1>2. BlocksMatch'
  BY DEF Files, BlocksMatch
<1>3. flushed' => ~Reading'
  BY DEF Files, Reading
<1> QED
  BY <1>1, <1>2, <1>3 DEF Files

(* What an arm or an #endif finds at the top of the two stacks.            *)
LEMMA TopHere ==
  ASSUME PPInv, Stacks, NEW S, OnDirective(S), S \subseteq Arms \cup {"endif"},
         ~Last(conds).skipped
  PROVE  LET t == text[Here.file]  L == Here.line  fr == Last(stack) IN
         /\ conds # <<>> /\ Last(conds) \in Cond /\ stack # <<>> /\ stack \in Seq(Frame)
         /\ fr \in Frame /\ Fits(fr, Last(conds)) /\ Here.file \in File
         /\ L \in 1..Len(t) /\ Len(t) \in Nat /\ t[L] = Word /\ Word \in S /\ Reading
         /\ Depth(t, L - 1) \in Int
         /\ ~fr.sentinel => /\ fr \in RealFrame /\ fr.file = Here.file /\ FrameIsOf(t, fr)
                            /\ Open(fr.start, t, L, Depth(t, L - 1))
<1>1. /\ Reading /\ ~AtEnd /\ Word \in S /\ Word = text[Here.file][Here.line]
      /\ Here.line \in 1..Len(text[Here.file]) /\ Len(text[Here.file]) \in Nat
      /\ Here.file \in File
  BY LineRead
<1>2. /\ Len(conds) \in Nat \ {0} /\ Last(conds) \in Cond /\ Last(conds).file = Here.file
      /\ Open(Last(conds).line, text[Here.file], Here.line,
              Depth(text[Here.file], Here.line - 1))
  BY <1>1, TopIsOwn
<1>3. conds # <<>>
  BY <1>2, EmptySeq
<1>4. /\ stack # <<>> /\ Last(stack) \in Frame /\ Fits(Last(stack), Last(conds))
      /\ ~Last(stack).sentinel => FrameIsOf(text[Last(stack).file], Last(stack))
  BY <1>3, TopFrame
<1>5. ~Last(stack).sentinel =>
        /\ Last(stack) \in RealFrame /\ Last(stack).file = Here.file
        /\ Last(stack).start = Last(conds).line
  BY <1>2, <1>4, FrameKinds DEF Fits
<1>6. Depth(text[Here.file], Here.line - 1) \in Int
  BY <1>1, DepthHere
<1>7. stack \in Seq(Frame)
  BY DEF Stacks
<1> QED
  BY <1>1, <1>2, <1>3, <1>4, <1>5, <1>6, <1>7

(* Of the last conditional an arm changes only whether it is compiled.     *)
LEMMA ArmTop ==
  ASSUME PPInv, Stacks, NextArm
  PROVE  /\ OnDirective(Arms) /\ ~Last(conds).skipped /\ UNCHANGED <<text, entered>>
         /\ conds # <<>>
         /\ \E c \in Cond : /\ conds' = SetTop(conds, c) /\ ~c.skipped
                            /\ c.file = Last(conds).file /\ c.line = Last(conds).line
<1>1. OnDirective(Arms) /\ ~Last(conds).skipped /\ UNCHANGED <<text, entered>>
  BY DEF NextArm, ArmIsRead
<1>2. PICK v \in BOOLEAN :
        conds' = SetTop(conds, [Last(conds) EXCEPT !.live = v, !.took = IF v THEN Here.line ELSE @])
  BY DEF NextArm
<1>3. conds # <<>> /\ Last(conds) \in Cond
  BY <1>1, TopHere
<1>4. PICK c : /\ c = [Last(conds) EXCEPT !.live = v, !.took = IF v THEN Here.line ELSE @]
               /\ conds' = SetTop(conds, c)
  BY <1>2
<1>5. /\ c \in Cond /\ c.file = Last(conds).file /\ c.line = Last(conds).line
      /\ ~c.skipped
  <2>1. Here.line \in Nat
    BY <1>1, LineRead
  <2> QED
    BY <1>1, <1>3, <1>4, <2>1 DEF Cond
<1> QED
  BY <1>1, <1>3, <1>4, <1>5

(* A hook that does nothing, and one that finds a sentinel.                *)
LEMMA SetTopSame ==
  ASSUME NEW S, NEW s \in Seq(S), s # <<>>
  PROVE  SetTop(s, Last(s)) = s
<1>0. PICK n, f, new : n = Len(s) /\ f = Front(s) /\ new = Append(f, Last(s))
  OBVIOUS
<1>1. /\ f \in Seq(S) /\ Len(f) = n - 1 /\ n \in Nat \ {0} /\ Last(s) \in S
      /\ \A i \in 1..n-1 : f[i] = s[i]
      /\ Last(s) = s[n]
  BY <1>0, FrontIs
<1>2. /\ new \in Seq(S) /\ Len(new) = Len(f) + 1
      /\ \A i \in 1..Len(f) : new[i] = f[i]
      /\ new[Len(f) + 1] = Last(s)
  BY <1>0, <1>1, AppendProperties
<1>3. \A i \in 1..n : i \in 1..n-1 \/ i = n
  BY <1>1
<1>4. Len(new) = n /\ new[n] = s[n] /\ \A i \in 1..n-1 : new[i] = s[i]
  BY <1>1, <1>2
<1>5. Len(new) = Len(s) /\ \A i \in 1..Len(s) : new[i] = s[i]
  BY <1>0, <1>3, <1>4
<1>6. new = s
  BY <1>2, <1>5, SeqEqual
<1> QED
  BY <1>0, <1>6 DEF SetTop

LEMMA ArmIgnored ==
  ASSUME PPInv, Stacks, Files, NextArm, UNCHANGED <<stack, fileBlocks, flushed>>
  PROVE  Stacks' /\ Files'
<1>1. /\ OnDirective(Arms) /\ ~Last(conds).skipped /\ UNCHANGED <<text, entered>>
      /\ conds # <<>>
  BY ArmTop
<1>2. PICK c \in Cond : /\ conds' = SetTop(conds, c) /\ ~c.skipped
                        /\ c.file = Last(conds).file /\ c.line = Last(conds).line
  BY ArmTop
<1>3. /\ Reading /\ stack \in Seq(Frame) /\ stack # <<>>
      /\ Last(stack) \in Frame /\ Fits(Last(stack), Last(conds))
  BY <1>1, TopHere
<1>4. PICK fr : fr = Last(stack)
  OBVIOUS
<1>5. stack' = SetTop(stack, fr)
  BY <1>3, <1>4, SetTopSame
<1>6. fr \in Frame /\ Fits(fr, c) /\ (~fr.sentinel => FrameIsOf(text[fr.file], fr))
  <2>1. ~Last(stack).sentinel => FrameIsOf(text[Last(stack).file], Last(stack))
    BY <1>1, TopFrame
  <2> QED
    BY <1>2, <1>3, <1>4, <2>1 DEF Fits
<1>7. Stacks'
  BY <1>1, <1>2, <1>5, <1>6, TopsChange
<1>8. Files'
  BY <1>1, <1>3, NothingFiled
<1> QED
  BY <1>7, <1>8

(* Elif and Else close a branch and open the next one of the same block.   *)
LEMMA NextBranchKeeps ==
  ASSUME PPInv, Stacks, Files, NextBranch
  PROVE  Stacks' /\ Files'
<1>1. /\ OnDirective(Arms) /\ ~Last(conds).skipped /\ UNCHANGED <<text, entered>>
      /\ conds # <<>> /\ NextArm /\ UNCHANGED <<fileBlocks, flushed>>
  BY ArmTop DEF NextBranch
<1>2. CASE stack = <<>> \/ Last(stack).sentinel
  <2>1. UNCHANGED stack
    BY <1>2 DEF NextBranch
  <2> QED
    BY <1>1, <2>1, ArmIgnored
<1>3. CASE ~(stack = <<>> \/ Last(stack).sentinel)
  <2>1. PICK c \in Cond : /\ conds' = SetTop(conds, c) /\ ~c.skipped
                          /\ c.file = Last(conds).file /\ c.line = Last(conds).line
    BY <1>1, ArmTop
  <2>0. PICK t, L, w, fr, r, new :
          /\ t = text[Here.file] /\ L = Here.line /\ w = Word /\ fr = Last(stack)
          /\ r = Depth(t, L - 1)
          /\ new = Advanced(fr, w, L)
    OBVIOUS
  <2>2. /\ fr \in Frame /\ Fits(fr, Last(conds)) /\ Here.file \in File
        /\ stack \in Seq(Frame) /\ stack # <<>>
        /\ L \in 1..Len(t) /\ Len(t) \in Nat /\ t[L] = w /\ w \in Arms /\ Reading
        /\ r \in Int /\ fr \in RealFrame /\ fr.file = Here.file /\ FrameIsOf(t, fr)
        /\ Open(fr.start, t, L, r)
    BY <1>1, <1>3, <2>0, TopHere
  <2>3. L \in Nat \ {0} /\ Depth(t, L) = r
    <3>1. w \notin Openers \cup {"endif"}
      BY <2>2, Words
    <3>2. ~AtEnd
      BY <1>1 DEF OnDirective
    <3> QED
      BY <2>0, <2>2, <3>1, <3>2, DepthHere
  <2>4. ArmAt(t, fr.start, L)
    BY <2>2, <2>3, ArmHere
  <2>5. /\ new \in RealFrame /\ ~new.sentinel /\ new.file = fr.file
        /\ new.start = fr.start /\ FrameIsOf(t, new)
    <3>1. /\ fr \in RealFrame /\ L \in Nat \ {0} /\ FrameIsOf(t, fr)
          /\ ArmAt(t, fr.start, L) /\ w \in Arms /\ t[L] = w
      BY <2>2, <2>3, <2>4
    <3>2. new = Advanced(fr, w, L)
      BY <2>0
    <3> QED
      BY <3>1, <3>2, FrameGoesOn
  <2>6. stack' = SetTop(stack, new)
    BY <1>3, <2>0 DEF NextBranch, Advanced
  <2>7. new \in Frame /\ Fits(new, c) /\ FrameIsOf(text[new.file], new)
    <3>1. ~fr.sentinel
      BY <1>3, <2>0
    <3>2. Fits(new, c)
      BY <2>1, <2>2, <2>5, <3>1 DEF Fits
    <3> QED
      BY <2>0, <2>2, <2>5, <3>2, FrameKinds
  <2>8. Stacks'
    BY <1>1, <2>1, <2>6, <2>7, TopsChange
  <2>9. \A g \in File : \A line \in Nat :
          All(stack', OpenAt(g, line)) = All(stack, OpenAt(g, line))
    <3> TAKE g \in File, line \in Nat
    <3>1. PICK S, f : S = OpenAt(g, line) /\ f = Front(stack)
      OBVIOUS
    <3>2. fr \in S <=> new \in S
      BY <2>2, <2>5, <3>1 DEF OpenAt
    <3>3. /\ All(f, S) \in Nat
          /\ All(stack, S) = IF fr \in S THEN All(f, S) + 1 ELSE All(f, S)
      BY <2>0, <2>2, <3>1, AllFront
    <3>4. f \in Seq(Frame)
      BY <2>2, <3>1, FrontIs
    <3>5. All(Append(f, new), S) = IF new \in S THEN All(f, S) + 1 ELSE All(f, S)
      BY <2>7, <3>4, AllAppend
    <3>6. stack' = Append(f, new)
      BY <2>6, <3>1 DEF SetTop
    <3> QED
      BY <3>1, <3>2, <3>3, <3>5, <3>6
  <2>10. Files'
    BY <1>1, <2>2, <2>9, NothingFiled
  <2> QED
    BY <2>8, <2>10
<1> QED
  BY <1>2, <1>3

LEMMA LeaveTop ==
  ASSUME PPInv, Stacks, Leave
  PROVE  /\ OnDirective({"endif"}) /\ ~Last(conds).skipped /\ UNCHANGED <<text, entered>>
         /\ conds # <<>> /\ conds' = Front(conds)
BY TopHere DEF Leave

LEMMA SentinelPops ==
  ASSUME PPInv, Stacks, Files, EndifOfSentinel
  PROVE  Stacks' /\ Files'
<1>1. /\ OnDirective({"endif"}) /\ ~Last(conds).skipped /\ UNCHANGED <<text, entered>>
      /\ conds # <<>> /\ conds' = Front(conds)
      /\ Last(stack).sentinel /\ stack' = Front(stack) /\ UNCHANGED <<fileBlocks, flushed>>
  BY LeaveTop DEF EndifOfSentinel
<1>2. Stacks'
  BY <1>1, BothPop
<1>3. Reading /\ stack \in Seq(Frame) /\ stack # <<>>
  BY <1>1, TopHere
<1>4. \A g \in File : \A line \in Nat :
        All(stack', OpenAt(g, line)) = All(stack, OpenAt(g, line))
  <2> TAKE g \in File, line \in Nat
  <2>1. Last(stack) \notin OpenAt(g, line)
    BY <1>1, FrameKinds DEF OpenAt
  <2>2. All(stack, OpenAt(g, line)) = All(Front(stack), OpenAt(g, line))
    BY <1>3, <2>1, AllFront
  <2> QED
    BY <1>1, <2>2
<1>5. Files'
  BY <1>1, <1>3, <1>4, NothingFiled
<1> QED
  BY <1>2, <1>5

(* The #endif of a block files it, as a block of its text.                 *)
LEMMA BlockPops ==
  ASSUME PPInv, Stacks, Files, EndifOfBlock
  PROVE  Stacks' /\ Files'
<1>1. /\ OnDirective({"endif"}) /\ ~Last(conds).skipped /\ UNCHANGED <<text, entered>>
      /\ conds # <<>> /\ conds' = Front(conds)
      /\ ~Last(stack).sentinel /\ stack' = Front(stack) /\ UNCHANGED flushed
  BY LeaveTop DEF EndifOfBlock
<1>2. Stacks'
  BY <1>1, BothPop
<1>0. PICK h, t, L, fr, r, b :
        /\ h = Here.file /\ t = text[h] /\ L = Here.line /\ fr = Last(stack)
        /\ r = Depth(t, L - 1) /\ b = popBlock(closeTopBranch(fr, L), L)
  OBVIOUS
<1>3. /\ h \in File /\ stack \in Seq(Frame) /\ stack # <<>>
      /\ L \in 1..Len(t) /\ Len(t) \in Nat /\ t[L] = Word /\ Word = "endif" /\ Reading
      /\ r \in Int /\ fr \in RealFrame /\ fr.file = h /\ FrameIsOf(t, fr)
      /\ Open(fr.start, t, L, r)
  <2>1. {"endif"} \subseteq Arms \cup {"endif"}
    OBVIOUS
  <2> QED
    BY <1>0, <1>1, <2>1, TopHere
<1>4. Depth(t, L) < r
  <2>1. ~AtEnd
    BY <1>1 DEF OnDirective
  <2>2. Depth(t, L) = r - 1
    BY <1>0, <1>3, <2>1, DepthHere
  <2> QED
    BY <1>3, <2>2
<1>5. b \in Block /\ b.start = fr.start /\ BlockIsOf(t, b)
  BY <1>0, <1>3, <1>4, BlockIsFiled
<1>6. fileBlocks \in [File -> Seq(Block)]
  BY DEF Files
<1>7. PICK bs : bs = fileBlocks[h]
  OBVIOUS
<1>8. /\ bs \in Seq(Block) /\ Len(bs) \in Nat
      /\ Append(bs, b) \in Seq(Block) /\ Len(Append(bs, b)) = Len(bs) + 1
      /\ \A i \in 1..Len(bs) : Append(bs, b)[i] = bs[i]
      /\ Append(bs, b)[Len(bs) + 1] = b
  <2>1. bs \in Seq(Block)
    BY <1>3, <1>6, <1>7
  <2> QED
    BY <1>5, <2>1, LenProperties, AppendProperties
<1>9. /\ fileBlocks' \in [File -> Seq(Block)] /\ fileBlocks'[h] = Append(bs, b)
      /\ \A g \in File : g # h => fileBlocks'[g] = fileBlocks[g]
  <2>1. fileBlocks' = [fileBlocks EXCEPT ![h] = Append(@, b)]
    BY <1>0, <1>3 DEF EndifOfBlock
  <2> QED
    BY <1>3, <1>6, <1>7, <1>8, <2>1
<1>10. BlocksMatch'
  <2>1. \A g \in File : g # h =>
          \A i \in 1..Len(fileBlocks'[g]) : BlockIsOf(text[g], fileBlocks'[g][i])
    BY <1>9 DEF Files, BlocksMatch
  <2>2. \A i \in 1..Len(bs) : BlockIsOf(t, bs[i])
    BY <1>0, <1>3, <1>7 DEF Files, BlocksMatch
  <2>3. \A i \in 1..Len(bs)+1 : i \in 1..Len(bs) \/ i = Len(bs) + 1
    BY <1>8
  <2>4. \A i \in 1..Len(fileBlocks'[h]) : BlockIsOf(text[h], fileBlocks'[h][i])
    BY <1>0, <1>5, <1>8, <1>9, <2>2, <2>3
  <2> QED
    BY <1>1, <2>1, <2>4 DEF BlocksMatch
<1>11. Booked'
  <2> SUFFICES ASSUME NEW g \in File, NEW line \in 1..Len(text[g])
               PROVE  All(fileBlocks'[g], FiledAt(line)) + All(stack', OpenAt(g, line))
                        = IF g \in System THEN 0 ELSE All(entered[g], {line})
    BY <1>1 DEF Booked
  <2>0. PICK p, p2, q, q2, d :
          /\ p = All(fileBlocks[g], FiledAt(line)) /\ p2 = All(fileBlocks'[g], FiledAt(line))
          /\ q = All(stack, OpenAt(g, line)) /\ q2 = All(stack', OpenAt(g, line))
          /\ d = IF g \in System THEN 0 ELSE All(entered[g], {line})
    OBVIOUS
  <2>1. p + q = d
    BY <2>0 DEF Files, Booked
  <2>2. fr \in OpenAt(g, line) <=> fr.file = g /\ fr.start = line
    BY <1>3 DEF OpenAt
  <2>3. q2 \in Nat /\ q = IF g = h /\ fr.start = line THEN q2 + 1 ELSE q2
    <3>1. /\ All(Front(stack), OpenAt(g, line)) \in Nat
          /\ All(stack, OpenAt(g, line))
               = IF Last(stack) \in OpenAt(g, line) THEN All(Front(stack), OpenAt(g, line)) + 1
                 ELSE All(Front(stack), OpenAt(g, line))
      BY <1>3, AllFront
    <3> QED
      BY <1>0, <1>1, <1>3, <2>0, <2>2, <3>1
  <2>4. b \in FiledAt(line) <=> fr.start = line
    BY <1>5 DEF FiledAt
  <2>5. p \in Nat /\ p2 = IF g = h /\ fr.start = line THEN p + 1 ELSE p
    <3>1. fileBlocks[g] \in Seq(Block)
      BY <1>6
    <3>2. /\ All(fileBlocks[g], FiledAt(line)) \in Nat
          /\ All(Append(fileBlocks[g], b), FiledAt(line))
               = IF b \in FiledAt(line) THEN All(fileBlocks[g], FiledAt(line)) + 1
                 ELSE All(fileBlocks[g], FiledAt(line))
      BY <1>5, <3>1, AllAppend
    <3>3. CASE g = h
      BY <1>7, <1>9, <2>0, <2>4, <3>2, <3>3
    <3>4. CASE g # h
      BY <1>9, <2>0, <3>2, <3>4
    <3> QED
      BY <3>3, <3>4
  <2>6. p2 + q2 = d
    <3>1. CASE g = h /\ fr.start = line
      BY <2>1, <2>3, <2>5, <3>1
    <3>2. CASE ~(g = h /\ fr.start = line)
      BY <2>1, <2>3, <2>5, <3>2
    <3> QED
      BY <3>1, <3>2
  <2> QED
    BY <2>0, <2>6
<1>12. flushed' => ~Reading'
  BY <1>1, <1>3 DEF Files
<1> QED
  BY <1>1, <1>2, <1>9, <1>10, <1>11, <1>12 DEF Files

(* A step the plugin is not called for.                                    *)
LEMMA UnheardKeeps ==
  ASSUME PPInv, Stacks, Files, Unheard
  PROVE  Stacks' /\ Files'
<1>1. UNCHANGED <<text, stack, fileBlocks, flushed, entered>> /\ Reading
  BY DEF Unheard, Unread, EnterSkipped, PassArm, LeaveSkipped, Include, SkipLine, EndOfFile,
         OnDirective
<1>2. Files'
  BY <1>1, NothingFiled
<1>3. CASE EnterSkipped
  <2>1. OnDirective(Openers)
    BY <1>3 DEF EnterSkipped
  <2>2. PICK c : c = [file |-> Here.file, line |-> Here.line,
                      skipped |-> TRUE, live |-> FALSE, took |-> 0]
    OBVIOUS
  <2>3. conds' = Append(conds, c)
    BY <1>3, <2>2 DEF EnterSkipped
  <2>4. Here.file \in File /\ Here.line \in Nat \ {0}
    BY <2>1, LineRead
  <2>5. c \in Cond /\ c.skipped
    BY <2>2, <2>4 DEF Cond
  <2> QED
    BY <1>1, <1>2, <2>3, <2>5, UnheardOpens
<1>4. CASE LeaveSkipped
  <2>1. /\ OnDirective({"endif"}) /\ Last(conds).skipped /\ conds' = Front(conds)
    BY <1>4 DEF LeaveSkipped
  <2>2. Reading /\ ~AtEnd /\ Word \in Arms \cup {"endif"}
    BY <2>1 DEF OnDirective
  <2>3. conds # <<>>
    BY <2>2, TopIsOwn, EmptySeq
  <2> QED
    BY <1>1, <1>2, <2>1, <2>3, UnheardEnds
<1>5. CASE PassArm \/ Include \/ SkipLine \/ EndOfFile
  <2>1. UNCHANGED <<text, conds, stack>>
    BY <1>1, <1>5 DEF PassArm, Include, SkipLine, EndOfFile
  <2> QED
    BY <1>2, <2>1 DEF Stacks, Aligned, FramesMatch
<1> QED
  BY <1>3, <1>4, <1>5 DEF Unheard

-----------------------------------------------------------------------------
(* The inductive invariant.                                                *)
MapperInv == PPInv /\ Stacks /\ Files

LEMMA MapperStarts == Init => MapperInv
<1> SUFFICES ASSUME Init PROVE MapperInv
  OBVIOUS
<1>1. /\ PPInv /\ stack = <<>> /\ fileBlocks = [f \in File |-> <<>>] /\ flushed = FALSE
      /\ conds = <<>> /\ entered = [f \in File |-> <<>>]
  BY PPStarts DEF Init, PPInit
<1>2. Stacks
  <2>1. stack \in Seq(Frame) /\ Len(stack) = 0 /\ Len(conds) = 0
    BY <1>1, EmptySeq
  <2>2. \A i \in 1..0 : FALSE
    OBVIOUS
  <2> QED
    BY <2>1, <2>2 DEF Stacks, Aligned, FramesMatch
<1>3. fileBlocks \in [File -> Seq(Block)]
  BY <1>1, EmptySeq
<1>4. \A f \in File : fileBlocks[f] = <<>> /\ entered[f] = <<>>
  BY <1>1
<1>5. BlocksMatch
  <2>1. Len(<<>>) = 0 /\ \A i \in 1..0 : FALSE
    BY EmptySeq
  <2> QED
    BY <1>4, <2>1 DEF BlocksMatch
<1>6. Booked
  <2>1. \A S : All(<<>>, S) = 0
    BY CountStep, EmptySeq DEF All
  <2> QED
    BY <1>1, <1>4, <2>1 DEF Booked
<1> QED
  BY <1>1, <1>2, <1>3, <1>5, <1>6 DEF MapperInv, Files

LEMMA MapperInductive == MapperInv /\ [Next]_vars => MapperInv'
<1> SUFFICES ASSUME MapperInv, [Next]_vars PROVE MapperInv'
  OBVIOUS
<1>0. PPInv /\ Stacks /\ Files
  BY DEF MapperInv
<1>1. PPNext => PPInv'
  BY <1>0, PPInductive
<1>2. UNCHANGED <<text, inc, conds, entered>> => PPInv'
  BY <1>0 DEF PPInv, PPTypeOK, Nested, Level
<1>3. CASE Opening
  BY <1>0, <1>1, <1>3, OpeningKeeps DEF MapperInv, Opening, PPNext
<1>4. CASE NextBranch
  BY <1>0, <1>1, <1>4, NextBranchKeeps DEF MapperInv, NextBranch, PPNext
<1>5. CASE ElifdefIgnored
  BY <1>0, <1>1, <1>5, ArmIgnored DEF MapperInv, ElifdefIgnored, Unread, PPNext
<1>6. CASE EndifOfSentinel
  BY <1>0, <1>1, <1>6, SentinelPops DEF MapperInv, EndifOfSentinel, PPNext
<1>7. CASE EndifOfBlock
  BY <1>0, <1>1, <1>7, BlockPops DEF MapperInv, EndifOfBlock, PPNext
<1>8. CASE Unheard
  BY <1>0, <1>1, <1>8, UnheardKeeps DEF MapperInv, Unheard, PPNext
<1>9. CASE Flush
  <2>1. /\ ~Reading /\ flushed' = TRUE
        /\ UNCHANGED <<text, inc, conds, entered, stack, fileBlocks>>
    BY <1>9 DEF Flush
  <2>2. Files'
    BY <1>0, <2>1 DEF Files, BlocksMatch, Booked, Reading
  <2>3. Stacks'
    BY <1>0, <2>1 DEF Stacks, Aligned, FramesMatch
  <2> QED
    BY <1>2, <2>1, <2>2, <2>3 DEF MapperInv
<1>10. CASE UNCHANGED vars
  <2>1. UNCHANGED <<text, inc, conds, entered, stack, fileBlocks, flushed>>
    BY <1>10 DEF vars
  <2>2. Files'
    BY <1>0, <2>1 DEF Files, BlocksMatch, Booked, Reading
  <2>3. Stacks'
    BY <1>0, <2>1 DEF Stacks, Aligned, FramesMatch
  <2> QED
    BY <1>2, <2>1, <2>2, <2>3 DEF MapperInv
<1> QED
  BY <1>3, <1>4, <1>5, <1>6, <1>7, <1>8, <1>9, <1>10 DEF Next

LEMMA MapperAlways == Spec => []MapperInv
BY MapperStarts, MapperInductive, PTL DEF Spec

-----------------------------------------------------------------------------
(* The state of the preprocessor and of the plugin is well typed: every    *)
(* frame names a file, an opening directive and typed branches.            *)
THEOREM MapperTyped == Spec => []TypeOK
<1>1. MapperInv => TypeOK
  BY DEF MapperInv, PPInv, Stacks, Files, TypeOK
<1> QED
  BY <1>1, MapperAlways, PTL

(* The hooks push and pop in step with the preprocessor, in every unit: no *)
(* skipped text, arm without a hook or system header makes the two stacks  *)
(* drift apart.                                                            *)
THEOREM StacksStayAligned == Spec => []Aligned
<1>1. MapperInv => Aligned
  BY DEF MapperInv, Stacks
<1> QED
  BY <1>1, MapperAlways, PTL

(* A block popBlock files is a conditional of the text of its file, ends at*)
(* its own #endif, and its branches start at its own arms.                 *)
THEOREM BlocksAreOfText == Spec => []BlocksMatchText
<1>1. MapperInv => BlocksMatchText
  <2> SUFFICES ASSUME MapperInv, NEW f \in File, NEW b \in Recorded(f)
               PROVE  BlockIsOf(text[f], b)
    BY DEF BlocksMatchText, BlockIsOf
  <2> QED
    BY DEF MapperInv, Files, BlocksMatch, Recorded
<1> QED
  BY <1>1, MapperAlways, PTL

(* closeTopBranch leaves no line of a block in no branch or in two.        *)
THEOREM BranchesAlwaysTile == Spec => []BranchesTile
<1>1. MapperInv => BranchesTile
  <2> SUFFICES ASSUME MapperInv, NEW f \in File, NEW b \in Recorded(f)
               PROVE  /\ b.branches # <<>>
                      /\ b.branches[1].start = b.start
                      /\ Last(b.branches).end = b.end - 1
                      /\ \A i \in 1..Len(b.branches)-1 :
                           b.branches[i].end + 1 = b.branches[i+1].start
    BY DEF BranchesTile
  <2>1. fileBlocks[f] \in Seq(Block)
    BY DEF MapperInv, Files
  <2>2. b \in Block /\ BlockIsOf(text[f], b)
    BY <2>1, ElementOfSeq DEF MapperInv, Files, BlocksMatch, Recorded
  <2>3. b.branches # <<>> /\ Tiles(b.branches, b.start, b.end)
    BY <2>2 DEF BlockIsOf
  <2>4. b.branches \in Seq(Branch) /\ b.end \in Nat
    BY <2>2 DEF Block
  <2>5. Last(b.branches) \in Branch /\ Last(b.branches) = b.branches[Len(b.branches)]
    BY <2>3, <2>4, FrontIs
  <2>6. Last(b.branches).end \in Nat /\ Last(b.branches).end + 1 = b.end
    BY <2>3, <2>5 DEF Branch, Tiles
  <2>7. Last(b.branches).end = b.end - 1
    BY <2>6
  <2> QED
    BY <2>3, <2>7 DEF Tiles
<1> QED
  BY <1>1, MapperAlways, PTL

(* Both together: blocks are the text's, and their branches share out all  *)
(* their lines.                                                            *)
THEOREM BlocksStayExact == Spec => []BlocksAreExact
<1>1. BlocksMatchText /\ BranchesTile => BlocksAreExact
  BY DEF BlocksAreExact
<1> QED
  BY <1>1, BlocksAreOfText, BranchesAlwaysTile, PTL

(* When the unit has been read, every conditional outside system headers   *)
(* that reached a hook has been filed, as often as it reached one, and     *)
(* nothing of a system header has.                                         *)
THEOREM NothingIsLost == Spec => []NothingLost
<1>1. MapperInv => NothingLost
  <2> SUFFICES ASSUME MapperInv, flushed, NEW f \in File, NEW line \in 1..Len(text[f])
               PROVE  Cardinality({i \in 1..Len(fileBlocks[f]) : fileBlocks[f][i].start = line})
                        = IF f \in System THEN 0 ELSE Times(entered[f], line)
    BY DEF NothingLost
  <2>1. PPInv /\ Stacks /\ Files /\ ~Reading
    BY DEF MapperInv, Files
  <2>2. conds = <<>>
    BY <2>1, AllClosed
  <2>3. stack \in Seq(Frame) /\ Len(stack) = 0
    <3>1. stack \in Seq(Frame) /\ Len(stack) <= Len(conds) /\ Len(conds) = 0
      BY <2>1, <2>2, EmptySeq DEF Stacks, Aligned
    <3> QED
      BY <3>1, LenProperties
  <2>4. All(stack, OpenAt(f, line)) = 0
    BY <2>3, CountStep DEF All
  <2>5. fileBlocks[f] \in Seq(Block) /\ entered[f] \in Seq(Nat \ {0})
    BY <2>1 DEF Files, PPInv, PPTypeOK
  <2>6. All(fileBlocks[f], FiledAt(line))
          = Cardinality({i \in 1..Len(fileBlocks[f]) : fileBlocks[f][i].start = line})
    <3>1. \A i \in 1..Len(fileBlocks[f]) : fileBlocks[f][i] \in Block
      BY <2>5, ElementOfSeq
    <3>2. {i \in 1..Len(fileBlocks[f]) : fileBlocks[f][i] \in FiledAt(line)}
            = {i \in 1..Len(fileBlocks[f]) : fileBlocks[f][i].start = line}
      BY <3>1 DEF FiledAt
    <3> QED
      BY <3>2 DEF All, Count
  <2>7. All(entered[f], {line}) = Times(entered[f], line)
    <3>1. {i \in 1..Len(entered[f]) : entered[f][i] \in {line}}
            = {i \in 1..Len(entered[f]) : entered[f][i] = line}
      OBVIOUS
    <3> QED
      BY <3>1 DEF All, Count, Times
  <2>8. All(fileBlocks[f], FiledAt(line)) \in Nat
    <3>1. Len(fileBlocks[f]) \in Nat
      BY <2>5, LenProperties
    <3>2. \A k \in Nat : Count(fileBlocks[f], k, FiledAt(line)) \in Nat
      BY CountStep
    <3> QED
      BY <3>1, <3>2 DEF All
  <2>9. All(fileBlocks[f], FiledAt(line)) + All(stack, OpenAt(f, line))
          = IF f \in System THEN 0 ELSE All(entered[f], {line})
    BY <2>1 DEF Files, Booked
  <2> QED
    BY <2>4, <2>6, <2>7, <2>8, <2>9
<1> QED
  BY <1>1, MapperAlways, PTL

-----------------------------------------------------------------------------
(* The arms of the conditional opened on line s that come before line L of *)
(* text t, and which of them reach a hook when the arm on line took is     *)
(* compiled.                                                               *)
Seen(t, s, L) == {a \in s+1..L-1 : ArmAt(t, s, a)}
Heard(arms, took) == {a \in arms : took # 0 => arms \cap took+1..a-1 = {}}

(* The arm that is compiled is one of those before line L, the last of     *)
(* them while the text is compiled.                                        *)
TookIs(c, arms) ==
  /\ c.took \in {0, c.line} \cup arms
  /\ c.live => c.took # 0 /\ \A a \in arms : a <= c.took
  /\ ~c.live /\ c.took # 0 => \E a \in arms : a > c.took

(* Where the branches of a frame start.                                    *)
BranchStarts(bs) == {bs[i].start : i \in 1..Len(bs)}
Starts(fr) == BranchStarts(fr.branches) \cup {fr.cur.start}

(* The branches of a frame start at the arms the plugin has heard of.      *)
HasHeard(t, c, fr, arms) ==
  Starts(fr) = {c.line} \cup {a \in Heard(arms, c.took) : t[a] # "elifdef"}

(* The branches of a frame, the open one last, are in the order of their   *)
(* lines.                                                                  *)
Rising(bs) == \A i, j \in 1..Len(bs) : i < j => bs[i].start < bs[j].start
InOrder(fr) ==
  Rising(fr.branches) /\ \A i \in 1..Len(fr.branches) : fr.branches[i].start < fr.cur.start

(* What is known of an open conditional and its frame before line L.       *)
Known(t, c, fr, L) ==
  ~c.skipped => /\ TookIs(c, Seen(t, c.line, L))
                /\ ~fr.sentinel => InOrder(fr) /\ HasHeard(t, c, fr, Seen(t, c.line, L))

(* How the arms before a line grow.                                        *)
LEMMA SeenGrows ==
  ASSUME NEW t, NEW s \in Nat, NEW L \in Nat \ {0}
  PROVE  /\ Seen(t, s, L) \subseteq 1..L-1
         /\ ~ArmAt(t, s, L) => Seen(t, s, L + 1) = Seen(t, s, L)
         /\ ArmAt(t, s, L) => Seen(t, s, L + 1) = Seen(t, s, L) \cup {L}
<1>1. \A a : a \in s+1..L+1-1 <=> a \in s+1..L-1 \/ (a = L /\ L > s)
  OBVIOUS
<1>2. ~(L \in s+1..L-1) /\ \A a \in s+1..L-1 : a \in 1..L-1
  OBVIOUS
<1>3. ArmAt(t, s, L) => L > s
  BY DEF ArmAt
<1> QED
  BY <1>1, <1>2, <1>3 DEF Seen

(* A line that is no arm of the conditional teaches nothing.               *)
LEMMA KnownStays ==
  ASSUME NEW t, NEW c, c.line \in Nat, NEW fr, NEW L \in Nat \ {0},
         Known(t, c, fr, L), ~ArmAt(t, c.line, L)
  PROVE  Known(t, c, fr, L + 1)
<1>1. Seen(t, c.line, L + 1) = Seen(t, c.line, L)
  BY SeenGrows
<1> QED
  BY <1>1 DEF Known

(* A conditional that is opened has no arms yet.                           *)
LEMMA KnownStarts ==
  ASSUME NEW t, NEW c, NEW fr, NEW L \in Nat \ {0}, c.line = L,
         c.took = (IF c.live THEN L ELSE 0),
         ~fr.sentinel => fr.branches = <<>> /\ fr.cur.start = L
  PROVE  Known(t, c, fr, L + 1)
<1>1. Seen(t, c.line, L + 1) = {}
  BY DEF Seen
<1>2. TookIs(c, {})
  BY DEF TookIs
<1>3. ~fr.sentinel => InOrder(fr) /\ HasHeard(t, c, fr, {})
  <2>1. \A i \in 1..Len(<<>>) : FALSE
    BY EmptySeq
  <2> QED
    BY <2>1 DEF HasHeard, Starts, BranchStarts, Heard, InOrder, Rising
<1> QED
  BY <1>1, <1>2, <1>3 DEF Known

(* An arm that reaches its hook: all arms so far have reached theirs.      *)
LEMMA KnownGoesOn ==
  ASSUME NEW t, NEW c \in Cond, NEW fr, NEW L \in Nat \ {0}, ArmAt(t, c.line, L),
         Known(t, c, fr, L), ~c.skipped, c.took # 0 => c.live,
         NEW v \in BOOLEAN, c.took # 0 => ~v,
         NEW d, d.line = c.line, d.skipped = c.skipped, d.live = v,
         d.took = IF v THEN L ELSE c.took,
         NEW g, g.sentinel = fr.sentinel,
         ~fr.sentinel /\ InOrder(fr) /\ fr.cur.start < L => InOrder(g),
         ~fr.sentinel => Starts(g) = IF t[L] = "elifdef" THEN Starts(fr) ELSE Starts(fr) \cup {L}
  PROVE  Known(t, d, g, L + 1)
<1>0. PICK arms, all, took : /\ arms = Seen(t, c.line, L) /\ all = Seen(t, c.line, L + 1)
                             /\ took = c.took
  OBVIOUS
<1>1. c.line \in Nat /\ took \in Nat
  BY <1>0 DEF Cond
<1>2. arms \subseteq 1..L-1 /\ all = arms \cup {L}
  <2>1. Seen(t, c.line, L) \subseteq 1..L-1 /\ Seen(t, c.line, L + 1) = Seen(t, c.line, L) \cup {L}
    BY <1>0, <1>1, SeenGrows
  <2> QED
    BY <1>0, <2>1
<1>3. d.line = c.line /\ d.live = v /\ d.took = IF v THEN L ELSE took
  BY <1>0
<1>4. TookIs(c, arms)
  BY <1>0 DEF Known
<1>5. \A a \in arms : a \in Nat /\ a < L /\ (took # 0 => a <= took)
  BY <1>0, <1>1, <1>2, <1>4 DEF TookIs
<1>6. Heard(arms, took) = arms /\ Heard(all, d.took) = all
  <2>1. took # 0 => \A a : arms \cap took+1..a-1 = {}
    BY <1>1, <1>5
  <2>2. took # 0 => \A a \in all : all \cap took+1..a-1 = {}
    BY <1>1, <1>2, <1>5
  <2>3. \A a \in all : all \cap L+1..a-1 = {}
    BY <1>2, <1>5
  <2> QED
    BY <1>3, <2>1, <2>2, <2>3 DEF Heard
<1>7. TookIs(d, all)
  <2>1. v => d.took = L /\ \A a \in all : a <= L
    BY <1>2, <1>3
  <2>2. ~v => d.took = took /\ took \in {0, c.line} \cup arms
    BY <1>0, <1>3, <1>4 DEF TookIs
  <2>3. c.line < L
    BY <1>1 DEF ArmAt
  <2>4. ~v /\ took # 0 => L > took
    BY <1>1, <1>2, <2>2, <2>3
  <2>5. d.took \in {0, d.line} \cup all
    BY <1>2, <1>3, <2>1, <2>2
  <2> QED
    BY <1>2, <1>3, <2>1, <2>2, <2>4, <2>5 DEF TookIs
<1>8. ~g.sentinel => InOrder(g) /\ HasHeard(t, d, g, all)
  <2> SUFFICES ASSUME ~fr.sentinel PROVE InOrder(g) /\ HasHeard(t, d, g, all)
    OBVIOUS
  <2>1. Starts(fr) = {c.line} \cup {a \in arms : t[a] # "elifdef"}
    BY <1>0, <1>6 DEF Known, HasHeard
  <2>3. InOrder(g)
    <3>1. fr.cur.start \in {c.line} \cup arms
      BY <2>1 DEF Starts
    <3>2. c.line < L
      BY <1>1 DEF ArmAt
    <3>3. fr.cur.start < L
      BY <1>5, <3>1, <3>2
    <3> QED
      BY <3>3 DEF Known
  <2>2. Starts(g) = {c.line} \cup {a \in all : t[a] # "elifdef"}
    BY <1>2, <2>1
  <2> QED
    BY <1>3, <1>6, <2>2, <2>3 DEF HasHeard
<1> QED
  BY <1>0, <1>3, <1>7, <1>8 DEF Known

(* An arm after the one that ended the taken arm is not heard of.          *)
LEMMA KnownPasses ==
  ASSUME NEW t, NEW c \in Cond, NEW fr, NEW L \in Nat \ {0},
         Known(t, c, fr, L), c.skipped \/ (c.took # 0 /\ ~c.live)
  PROVE  Known(t, c, fr, L + 1)
<1>1. CASE c.skipped
  BY <1>1 DEF Known
<1>2. CASE ~c.skipped /\ ArmAt(t, c.line, L)
  <2>0. PICK arms, took : arms = Seen(t, c.line, L) /\ took = c.took
    OBVIOUS
  <2>1. c.line \in Nat /\ took \in Nat /\ took # 0 /\ ~c.live
    BY <1>2, <2>0 DEF Cond
  <2>2. arms \subseteq 1..L-1 /\ Seen(t, c.line, L + 1) = arms \cup {L}
    <3>1. /\ Seen(t, c.line, L) \subseteq 1..L-1
          /\ Seen(t, c.line, L + 1) = Seen(t, c.line, L) \cup {L}
      BY <1>2, <2>1, SeenGrows
    <3> QED
      BY <2>0, <3>1
  <2>3. TookIs(c, arms)
    BY <1>2, <2>0 DEF Known
  <2>4. PICK a \in arms : a > took
    BY <2>0, <2>1, <2>3 DEF TookIs
  <2>5. a \in took+1..L-1
    BY <2>1, <2>2, <2>4
  <2>6. \A k \in arms : (arms \cup {L}) \cap took+1..k-1 = arms \cap took+1..k-1
    BY <2>1, <2>2
  <2>7. Heard(arms \cup {L}, took) = Heard(arms, took)
    <3>1. L \notin Heard(arms \cup {L}, took)
      BY <2>1, <2>5 DEF Heard
    <3>2. \A k \in arms : k \in Heard(arms \cup {L}, took) <=> k \in Heard(arms, took)
      BY <2>6 DEF Heard
    <3> QED
      BY <3>1, <3>2 DEF Heard
  <2>8. TookIs(c, arms \cup {L})
    BY <2>1, <2>3, <2>4 DEF TookIs
  <2> QED
    BY <2>0, <2>2, <2>7, <2>8 DEF Known, HasHeard
<1>3. CASE ~ArmAt(t, c.line, L)
  BY <1>3, KnownStays DEF Cond
<1> QED
  BY <1>1, <1>2, <1>3

(* At its #endif the arms before it are all the arms of a conditional.     *)
LEMMA KnownFiled ==
  ASSUME NEW t, Len(t) \in Nat, NEW L \in 1..Len(t), NEW c \in Cond, NEW fr, NEW r \in Int,
         Open(c.line, t, L, r), Depth(t, L) < r, t[L] \notin Arms,
         Known(t, c, fr, L), ~c.skipped, ~fr.sentinel
  PROVE  /\ Starts(fr) = {c.line} \cup {k \in HeardArms(t, c) : t[k] # "elifdef"}
         /\ InOrder(fr) /\ TookIs(c, ArmsOf(t, c.line))
<1>0. PICK s : s = c.line
  OBVIOUS
<1>1. EndifOf(t, s) = L /\ s \in 1..L-1 /\ Depth(t, s) = r
  BY <1>0, EndifHere DEF Open
<1>2. Seen(t, s, L) = ArmsOf(t, s)
  <2>1. ASSUME NEW a \in Seen(t, s, L) PROVE a \in ArmsOf(t, s)
    <3>1. a \in Nat /\ ArmAt(t, s, a)
      BY <1>1 DEF Seen
    <3> QED
      BY <1>0, <3>1, ArmBeforeEndif
  <2>2. ASSUME NEW a \in ArmsOf(t, s) PROVE a \in Seen(t, s, L)
    <3>1. a \in s+1..L /\ t[a] \in Arms /\ Depth(t, a) = Depth(t, s)
      BY <1>1 DEF ArmsOf
    <3>2. a \in s+1..L-1
      BY <1>1, <3>1
    <3>3. Inside(t, s, a)
      <4>1. \A x \in s..a : x \in s..L-1
        BY <1>1, <3>2
      <4> QED
        BY <1>0, <1>1, <3>2, <4>1 DEF Open, Inside
    <3> QED
      BY <3>1, <3>2, <3>3, <1>1 DEF Seen, ArmAt
  <2> QED
    BY <2>1, <2>2
<1> QED
  BY <1>0, <1>2 DEF Known, HasHeard, HeardArms, Heard

-----------------------------------------------------------------------------
(* What a hook adds to the branches of a frame, and what is filed of them. *)
LEMMA RisesOn ==
  ASSUME NEW bs \in Seq(Branch), NEW b \in Branch, NEW L \in Nat, Rising(bs),
         \A i \in 1..Len(bs) : bs[i].start < b.start, b.start < L
  PROVE  Rising(Append(bs, b)) /\ \A i \in 1..Len(Append(bs, b)) : Append(bs, b)[i].start < L
<1>0. PICK n, new : n = Len(bs) /\ new = Append(bs, b)
  OBVIOUS
<1>1. /\ n \in Nat /\ Len(new) = n + 1 /\ new[n + 1] = b
      /\ \A i \in 1..n : new[i] = bs[i] /\ bs[i] \in Branch
  BY <1>0, LenProperties, AppendProperties, ElementOfSeq
<1>2. \A i \in 1..n : bs[i].start \in Nat
  BY <1>1 DEF Branch
<1>3. \A i \in 1..n+1 : i \in 1..n \/ i = n + 1
  BY <1>1
<1>4. \A i, j \in 1..n+1 : i < j => i \in 1..n
  BY <1>1
<1>5. Rising(new)
  BY <1>0, <1>1, <1>3, <1>4 DEF Rising
<1>6. b.start \in Nat
  BY DEF Branch
<1>7. \A i \in 1..n+1 : new[i].start < L
  BY <1>0, <1>1, <1>2, <1>3, <1>6
<1> QED
  BY <1>0, <1>1, <1>5, <1>7

(* An arm adds its own line to where the branches of a frame start.        *)
LEMMA StartsGrow ==
  ASSUME NEW fr \in RealFrame, NEW L \in Nat \ {0}, NEW w \in Arms
  PROVE  Starts(Advanced(fr, w, L)) = Starts(fr) \cup {L}
<1>0. PICK bs, old, n, b, new, cur :
        /\ bs = fr.branches /\ old = fr.cur /\ n = L - 1
        /\ b = [old EXCEPT !.end = n] /\ new = Append(bs, b) /\ cur = OpenBranch(w, L)
  OBVIOUS
<1>1. bs \in Seq(Branch) /\ b \in Branch /\ b.start = fr.cur.start /\ cur.start = L
  <2>1. bs \in Seq(Branch) /\ old \in Branch /\ n \in Nat
    BY <1>0 DEF RealFrame
  <2>2. b \in Branch /\ b.start = old.start
    BY <1>0, <2>1 DEF Branch
  <2> QED
    BY <1>0, <2>1, <2>2 DEF OpenBranch
<1>2. /\ Len(bs) \in Nat /\ Len(new) = Len(bs) + 1 /\ new[Len(bs) + 1] = b
      /\ \A i \in 1..Len(bs) : new[i] = bs[i]
  BY <1>0, <1>1, LenProperties, AppendProperties
<1>3. \A i : i \in 1..Len(new) <=> i \in 1..Len(bs) \/ i = Len(bs) + 1
  BY <1>2
<1>4. BranchStarts(new) = BranchStarts(bs) \cup {fr.cur.start}
  BY <1>1, <1>2, <1>3 DEF BranchStarts
<1>5. Advanced(fr, w, L) = [[fr EXCEPT !.branches = new] EXCEPT !.cur = cur]
  BY <1>0 DEF Advanced, closeTopBranch
<1>6. Advanced(fr, w, L).branches = new /\ Advanced(fr, w, L).cur = cur
  BY <1>5 DEF RealFrame
<1> QED
  BY <1>0, <1>1, <1>4, <1>6 DEF Starts

(* An arm keeps the branches of its frame in order.                        *)
LEMMA OrderGrows ==
  ASSUME NEW fr \in RealFrame, NEW L \in Nat \ {0}, NEW w \in Arms,
         InOrder(fr), fr.cur.start < L
  PROVE  InOrder(Advanced(fr, w, L))
<1>0. PICK bs, old, n, b, new, cur :
        /\ bs = fr.branches /\ old = fr.cur /\ n = L - 1
        /\ b = [old EXCEPT !.end = n] /\ new = Append(bs, b) /\ cur = OpenBranch(w, L)
  OBVIOUS
<1>1. bs \in Seq(Branch) /\ b \in Branch /\ b.start = fr.cur.start /\ cur.start = L
  <2>1. bs \in Seq(Branch) /\ old \in Branch /\ n \in Nat
    BY <1>0 DEF RealFrame
  <2>2. b \in Branch /\ b.start = old.start
    BY <1>0, <2>1 DEF Branch
  <2> QED
    BY <1>0, <2>1, <2>2 DEF OpenBranch
<1>2. Rising(new) /\ \A i \in 1..Len(new) : new[i].start < L
  BY <1>0, <1>1, RisesOn DEF InOrder
<1>5. Advanced(fr, w, L) = [[fr EXCEPT !.branches = new] EXCEPT !.cur = cur]
  BY <1>0 DEF Advanced, closeTopBranch
<1>6. Advanced(fr, w, L).branches = new /\ Advanced(fr, w, L).cur = cur
  BY <1>5 DEF RealFrame
<1> QED
  BY <1>1, <1>2, <1>6 DEF InOrder

(* The block that is filed has the branches of its frame.                  *)
LEMMA StartsFiled ==
  ASSUME NEW fr \in RealFrame, NEW L \in Nat \ {0}
  PROVE  LET filed == popBlock(closeTopBranch(fr, L), L) IN
         /\ {b.start : b \in Range(filed.branches)} = Starts(fr)
         /\ BranchStarts(filed.branches) = Starts(fr)
         /\ InOrder(fr) => Rising(filed.branches)
<1>0. PICK bs, cur, n, b, new :
        /\ bs = fr.branches /\ cur = fr.cur /\ n = L - 1
        /\ b = [cur EXCEPT !.end = n] /\ new = Append(bs, b)
  OBVIOUS
<1>1. bs \in Seq(Branch) /\ b \in Branch /\ b.start = fr.cur.start
  <2>1. bs \in Seq(Branch) /\ cur \in Branch /\ n \in Nat
    BY <1>0 DEF RealFrame
  <2>2. b \in Branch /\ b.start = cur.start
    BY <1>0, <2>1 DEF Branch
  <2> QED
    BY <1>0, <2>1, <2>2
<1>2. /\ Len(bs) \in Nat /\ Len(new) = Len(bs) + 1 /\ new[Len(bs) + 1] = b
      /\ \A i \in 1..Len(bs) : new[i] = bs[i]
      /\ new \in Seq(Branch)
  BY <1>0, <1>1, LenProperties, AppendProperties
<1>3. \A i : i \in 1..Len(new) <=> i \in 1..Len(bs) \/ i = Len(bs) + 1
  BY <1>2
<1>4. BranchStarts(new) = BranchStarts(bs) \cup {fr.cur.start}
  BY <1>1, <1>2, <1>3 DEF BranchStarts
<1>5. popBlock(closeTopBranch(fr, L), L).branches = new
  <2>1. closeTopBranch(fr, L) = [fr EXCEPT !.branches = new]
    BY <1>0 DEF closeTopBranch
  <2>2. closeTopBranch(fr, L).branches = new
    BY <2>1 DEF RealFrame
  <2> QED
    BY <2>2 DEF popBlock
<1>6. {x.start : x \in Range(new)} = BranchStarts(new)
  <2>1. DOMAIN new = 1..Len(new)
    BY <1>2, LenProperties
  <2> QED
    BY <2>1 DEF Range, BranchStarts
<1>7. InOrder(fr) => Rising(new)
  <2>1. b.start \in Nat
    BY <1>1 DEF Branch
  <2>2. b.start + 1 \in Nat /\ b.start < b.start + 1
    BY <2>1
  <2> QED
    BY <1>0, <1>1, <2>2, RisesOn DEF InOrder
<1> QED
  BY <1>0, <1>4, <1>5, <1>6, <1>7 DEF Starts

-----------------------------------------------------------------------------
(* A set of numbers has a least one.                                       *)
LEMMA Least ==
  ASSUME NEW S \in SUBSET Nat, S # {}
  PROVE  \E x \in S : \A y \in S : x <= y
<1>1. PICK x \in S : \A y \in S : ~(<<y, x>> \in OpToRel(<, Nat))
  BY WFMin, NatLessThanWellFounded
<1>2. \A y \in S : ~(y < x)
  BY <1>1 DEF OpToRel
<1> QED
  BY <1>2

(* The levels of the include stack are where the texts put them: those of  *)
(* the files a step leaves alone stay.                                     *)
LEMMA SameBelow ==
  ASSUME NEW base, Nested(base), PPInv', UNCHANGED text,
         Len(inc) \in Nat, Len(inc') \in Nat,
         NEW m \in 1..Len(inc)+1, m <= Len(inc') + 1,
         \A i \in 1..m-1 : inc'[i] = inc[i]
  PROVE  \E b \in [1..Len(inc)+1 -> Nat]' : Nested(b)' /\ \A i \in 1..m : b[i] = base[i]
<1>0. PICK b \in [1..Len(inc)+1 -> Nat]' : Nested(b)'
  BY DEF PPInv
<1> SUFFICES \A i \in 1..m : b[i] = base[i]
  BY <1>0
<1> DEFINE Off == {i \in 1..m : b[i] # base[i]}
<1> SUFFICES ASSUME Off # {} PROVE FALSE
  OBVIOUS
<1>1. PICK x \in Off : \A y \in Off : x <= y
  <2>1. Off \in SUBSET Nat
    OBVIOUS
  <2> HIDE DEF Off
  <2> QED
    BY <2>1, Least
<1>2. x \in 1..m /\ b[x] # base[x]
  BY <1>1
<1>3. b[1] = 0 /\ base[1] = 0
  BY <1>0 DEF Nested
<1>4. PICK w : w = x - 1
  OBVIOUS
<1>5. w \in 1..m-1 /\ w \in 1..m /\ w + 1 = x /\ w \in 1..Len(inc) /\ w \in 1..Len(inc') /\ w < x
  BY <1>2, <1>3, <1>4
<1>6. b[w] = base[w]
  BY <1>1, <1>2, <1>5
<1>7. base[x] = base[w] + Depth(text[inc[w].file], inc[w].line - 1)
  BY <1>5 DEF Nested, Level, AllOpen
<1>8. b[x] = b[w] + Depth(text[inc[w].file], inc[w].line - 1)
  <2>1. Level(b, w)' /\ inc'[w] = inc[w]
    BY <1>0, <1>5 DEF Nested
  <2> QED
    BY <1>5, <2>1 DEF Level, AllOpen
<1> QED
  BY <1>2, <1>6, <1>7, <1>8

-----------------------------------------------------------------------------
(* Each conditional of the i-th file of the include stack is known up to   *)
(* the line that file is read to.                                          *)
LevelKnown(base, i) ==
  \A j \in base[i]+1..base[i + 1] :
    Known(text[inc[i].file], conds[j], stack[j], inc[i].line)

HeardInv ==
  \E base \in [1..Len(inc)+1 -> Nat] :
    Nested(base) /\ \A i \in 1..Len(inc) : LevelKnown(base, i)

(* The include stack after a line that is no #include.                     *)
LEMMA Advances ==
  ASSUME PPInv, Reading, Advance
  PROVE  /\ Len(inc) \in Nat \ {0} /\ Len(inc') = Len(inc) /\ Here = inc[Len(inc)]
         /\ inc'[Len(inc)].file = Here.file /\ inc'[Len(inc)].line = Here.line + 1
         /\ \A i \in 1..Len(inc)-1 : inc'[i] = inc[i]
<1>0. PICK m, e : m = Len(inc) /\ e = [inc[m] EXCEPT !.line = @ + 1]
  OBVIOUS
<1>1. /\ m \in Nat \ {0} /\ Here = inc[m] /\ Here \in Place /\ m \in 1..Len(inc)
      /\ inc \in Seq(Place)
  BY <1>0, HereTyped DEF PPInv, PPTypeOK, Place
<1>2. e \in Place /\ e.file = Here.file /\ e.line = Here.line + 1
  BY <1>0, <1>1, NextLine
<1>3. inc' = [inc EXCEPT ![m] = e]
  BY <1>0 DEF Advance
<1>4. Len(inc') = m /\ inc'[m] = e /\ \A i \in 1..m : i # m => inc'[i] = inc[i]
  BY <1>0, <1>1, <1>2, <1>3, ExceptSeq
<1>5. \A i \in 1..m-1 : i \in 1..m /\ i # m
  BY <1>1
<1> QED
  BY <1>0, <1>1, <1>2, <1>4, <1>5

(* Reading a line: what is known of the conditionals it is not about goes  *)
(* on to hold.                                                             *)
LEMMA LineKnown ==
  ASSUME PPInv, PPInv', HeardInv, Reading, ~AtEnd, Advance, UNCHANGED text,
         Word \in Openers \cup Arms =>
           Known(text[Here.file], conds'[Len(conds')], stack'[Len(conds')], Here.line + 1),
         \A j \in 1..Len(conds') :
           \/ Word \in Openers \cup Arms /\ j = Len(conds')
           \/ /\ j \in 1..Len(conds) /\ conds'[j] = conds[j]
              /\ ~conds[j].skipped => stack'[j] = stack[j]
  PROVE  HeardInv'
<1>1. PICK base \in [1..Len(inc)+1 -> Nat] :
        Nested(base) /\ \A i \in 1..Len(inc) : LevelKnown(base, i)
  BY DEF HeardInv
<1>0. PICK m, t, L, n : m = Len(inc) /\ t = text[Here.file] /\ L = Here.line /\ n = Len(conds')
  OBVIOUS
<1>3. /\ m \in Nat \ {0} /\ Len(inc') = m /\ Here = inc[m]
      /\ inc'[m].file = Here.file /\ inc'[m].line = L + 1
      /\ \A i \in 1..m-1 : inc'[i] = inc[i]
  BY <1>0, Advances
<1>2. PICK b \in [1..Len(inc)+1 -> Nat]' : Nested(b)' /\ \A i \in 1..m : b[i] = base[i]
  <2>1. m \in 1..Len(inc)+1 /\ m <= Len(inc') + 1 /\ Len(inc) \in Nat /\ Len(inc') \in Nat
    BY <1>0, <1>3
  <2> QED
    BY <1>1, <1>3, <2>1, SameBelow
<1>4. \A i \in 1..m : b[i] = base[i]
  BY <1>2
<1>5. /\ Len(conds) \in Nat /\ base[m] \in Nat /\ Len(conds) = base[m] + Depth(t, L - 1)
      /\ \A j \in base[m]+1..Len(conds) : Open(conds[j].line, t, L, j - base[m])
      /\ conds \in Seq(Cond) /\ L \in Nat \ {0} /\ Word = t[L]
  BY <1>0, <1>1, TopLevel, HereTyped DEF PPInv, PPTypeOK, Cond, Word
<1>6. /\ n \in Nat /\ n = b[m] + Depth(t, L) /\ b[m + 1] = n /\ Depth(t, L) \in Int
      /\ base[m + 1] = Len(conds)
      /\ Depth(t, L) >= 0 /\ (Word \in Openers \cup Arms => Depth(t, L) > 0)
  <2>1. n \in Nat
    BY <1>0, LenProperties DEF PPInv, PPTypeOK
  <2>2. b[m + 1] = n /\ base[m + 1] = Len(conds)
    BY <1>0, <1>1, <1>2, <1>3 DEF Nested
  <2>3. b[m + 1] = b[m] + Depth(t, L)
    <3>1. Level(b, m)' /\ L + 1 - 1 = L
      BY <1>2, <1>3, <1>5 DEF Nested
    <3> QED
      BY <1>0, <1>3, <1>5, <3>1 DEF Level, AllOpen
  <2>4. /\ Depth(t, L) \in Int /\ Depth(t, L - 1) \in Int /\ Depth(t, L) >= 0
        /\ Word \in Openers => Depth(t, L) = Depth(t, L - 1) + 1
        /\ Word \in Arms => Depth(t, L) > 0
    BY <1>0, DepthHere
  <2>5. Depth(t, L - 1) >= 0
    <3>1. Len(conds) = base[m + 1] /\ base[m] <= base[m + 1]
      BY <1>0, <1>1, <1>3, <2>2 DEF Nested
    <3> QED
      BY <1>5, <2>4, <3>1
  <2> QED
    BY <2>1, <2>2, <2>3, <2>4, <2>5
<1>7. ASSUME NEW i \in 1..m, i # m
      PROVE  LevelKnown(b, i)'
  <2>1. /\ inc'[i] = inc[i] /\ i \in 1..Len(inc) /\ i + 1 \in 1..m
        /\ b[i] = base[i] /\ b[i + 1] = base[i + 1]
    BY <1>0, <1>3, <1>4, <1>7
  <2>2. base[i] \in Nat /\ base[i + 1] \in Nat /\ base[i + 1] <= base[m]
    <3>1. i \in 1..Len(inc)+1 /\ i + 1 \in 1..Len(inc)+1 /\ m \in 1..Len(inc)+1 /\ i + 1 <= m
      BY <1>0, <1>3, <1>7
    <3> QED
      BY <1>1, <3>1 DEF Nested
  <2>3. ASSUME NEW j \in base[i]+1..base[i + 1]
        PROVE  Known(text[inc[i].file], conds'[j], stack'[j], inc[i].line)
    <3>1. j \in Nat \ {0} /\ j <= base[m] /\ b[m] = base[m]
      <4>1. b[m] = base[m]
        BY <1>3, <1>4
      <4>2. \A lo, hi, top \in Nat : j \in lo+1..hi /\ hi <= top => j \in Nat \ {0} /\ j <= top
        OBVIOUS
      <4> QED
        BY <1>5, <2>2, <2>3, <4>1, <4>2
    <3>2. j \in 1..n /\ ~(Word \in Openers \cup Arms /\ j = n)
      BY <1>5, <1>6, <3>1
    <3>3. conds'[j] = conds[j] /\ (~conds[j].skipped => stack'[j] = stack[j])
      BY <1>0, <3>2
    <3>4. Known(text[inc[i].file], conds[j], stack[j], inc[i].line)
      BY <1>1, <2>1, <2>3 DEF LevelKnown
    <3> QED
      BY <3>3, <3>4 DEF Known
  <2> QED
    BY <2>1, <2>3 DEF LevelKnown
<1>8. LevelKnown(b, m)'
  <2>1. ASSUME NEW j \in b[m]+1..n
        PROVE  Known(t, conds'[j], stack'[j], L + 1)
    <3>0. j \in 1..n /\ b[m] = base[m]
      BY <1>3, <1>4, <1>5, <1>6, <2>1
    <3>1. CASE Word \in Openers \cup Arms /\ j = n
      BY <1>0, <3>1
    <3>2. CASE ~(Word \in Openers \cup Arms /\ j = n)
      <4>1. /\ j \in 1..Len(conds) /\ conds'[j] = conds[j]
            /\ ~conds[j].skipped => stack'[j] = stack[j]
        BY <1>0, <3>0, <3>2
      <4>2. j \in base[m]+1..Len(conds)
        BY <1>5, <3>0, <4>1
      <4>3. Known(t, conds[j], stack[j], L)
        <5>1. LevelKnown(base, m) /\ base[m + 1] = Len(conds)
          BY <1>0, <1>1, <1>3, <1>6
        <5> QED
          BY <1>0, <1>3, <4>2, <5>1 DEF LevelKnown
      <4>4. ~ArmAt(t, conds[j].line, L)
        <5>1. SUFFICES ASSUME t[L] \in Arms PROVE Depth(t, L) # Depth(t, conds[j].line)
          BY DEF ArmAt
        <5>2. j # n
          BY <1>5, <3>2, <5>1
        <5>3. Depth(t, conds[j].line) = j - base[m]
          BY <1>5, <4>2 DEF Open
        <5> QED
          BY <1>5, <1>6, <3>0, <5>2, <5>3
      <4>5. conds[j].line \in Nat
        <5>1. conds[j] \in Cond
          BY <1>5, <4>1, ElementOfSeq
        <5> QED
          BY <5>1 DEF Cond
      <4>6. Known(t, conds[j], stack[j], L + 1)
        BY <1>5, <4>3, <4>4, <4>5, KnownStays
      <4> QED
        BY <4>1, <4>6 DEF Known
    <3> QED
      BY <3>1, <3>2
  <2> QED
    BY <1>0, <1>3, <1>6, <2>1 DEF LevelKnown
<1> QED
  BY <1>2, <1>3, <1>7, <1>8 DEF HeardInv

(* The levels when a file is entered and when its end is reached.          *)
LEMMA IncludeKnown ==
  ASSUME PPInv, PPInv', HeardInv, Include, UNCHANGED stack
  PROVE  HeardInv'
<1>1. PICK base \in [1..Len(inc)+1 -> Nat] :
        Nested(base) /\ \A i \in 1..Len(inc) : LevelKnown(base, i)
  BY DEF HeardInv
<1>3. /\ Reading /\ ~AtEnd /\ Word \in File /\ UNCHANGED <<text, conds>>
  BY DEF Include, OnDirective
<1>0. PICK m, t, L : m = Len(inc) /\ t = text[Here.file] /\ L = Here.line
  OBVIOUS
<1>4. /\ m \in Nat \ {0} /\ Len(inc') = m + 1 /\ Here = inc[m]
      /\ inc'[m].file = Here.file /\ inc'[m].line = L + 1
      /\ \A i \in 1..m-1 : inc'[i] = inc[i]
  <2>2. /\ m \in Nat \ {0} /\ Here = inc[m] /\ Here \in Place /\ m \in 1..Len(inc)
        /\ inc \in Seq(Place) /\ [file |-> Word, line |-> 1] \in Place
    BY <1>0, <1>3, HereTyped DEF PPInv, PPTypeOK, Place
  <2>1. PICK e, on, new : /\ e = [inc[m] EXCEPT !.line = @ + 1] /\ on = [inc EXCEPT ![m] = e]
                          /\ new = [file |-> Word, line |-> 1]
    OBVIOUS
  <2>3. e \in Place /\ e.file = Here.file /\ e.line = L + 1
    BY <1>0, <2>1, <2>2, NextLine
  <2>4. /\ on \in Seq(Place) /\ Len(on) = m /\ on[m] = e
        /\ \A i \in 1..m : i # m => on[i] = inc[i]
    <3>1. m = Len(inc) /\ on = [inc EXCEPT ![m] = e]
      BY <1>0, <2>1
    <3> HIDE <2>1
    <3> QED
      BY <2>2, <2>3, <3>1, ExceptSeq
  <2>5. inc' = Append(on, new)
    BY <1>0, <2>1 DEF Include
  <2>6. Len(inc') = m + 1 /\ \A i \in 1..m : inc'[i] = on[i]
    BY <2>2, <2>4, <2>5, AppendProperties
  <2>7. m \in 1..m /\ \A i \in 1..m-1 : i \in 1..m /\ i # m
    BY <2>2
  <2> QED
    BY <2>2, <2>3, <2>4, <2>6, <2>7
<1>2. PICK b \in [1..Len(inc)+1 -> Nat]' : Nested(b)' /\ \A i \in 1..m : b[i] = base[i]
  <2>1. m \in 1..Len(inc)+1 /\ m <= Len(inc') + 1 /\ Len(inc) \in Nat /\ Len(inc') \in Nat
    BY <1>0, <1>4
  <2> QED
    BY <1>1, <1>3, <1>4, <2>1, SameBelow
<1>5. \A i \in 1..m : b[i] = base[i]
  BY <1>2
<1>6. /\ Len(conds) \in Nat /\ base[m] \in Nat /\ Len(conds) = base[m] + Depth(t, L - 1)
      /\ conds \in Seq(Cond) /\ L \in Nat \ {0} /\ Word = t[L] /\ base[m + 1] = Len(conds)
      /\ Depth(t, L) = Depth(t, L - 1) /\ t[L] \notin Arms
  <2>1. base[m + 1] = Len(conds)
    BY <1>0, <1>1, <1>4 DEF Nested
  <2>2. Depth(t, L) = Depth(t, L - 1)
    BY <1>0, <1>3, DepthHere, Words
  <2>3. Word = t[L] /\ Word \notin Arms
    BY <1>0, <1>3, Words DEF Word
  <2> QED
    BY <1>0, <1>1, <1>3, <2>1, <2>2, <2>3, TopLevel, HereTyped DEF PPInv, PPTypeOK, Cond
<1>7. b[m + 1] = Len(conds) /\ b[m + 2] = Len(conds)
  <2>1. Level(b, m)' /\ L + 1 - 1 = L /\ b[m + 2] = Len(conds)
    <3>1. m \in 1..m+1 /\ m + 1 + 1 = m + 2 /\ L + 1 - 1 = L
      BY <1>4, <1>6
    <3> QED
      BY <1>2, <1>3, <1>4, <3>1 DEF Nested
  <2>2. b[m + 1] = b[m] + Depth(t, L)
    BY <1>0, <1>3, <1>4, <1>6, <2>1 DEF Level, AllOpen
  <2>3. b[m] = base[m]
    BY <1>4, <1>5
  <2> QED
    BY <1>6, <2>1, <2>2, <2>3
<1>8. ASSUME NEW i \in 1..m, i # m
      PROVE  LevelKnown(b, i)'
  <2>1. /\ inc'[i] = inc[i] /\ i \in 1..Len(inc) /\ i + 1 \in 1..m
        /\ b[i] = base[i] /\ b[i + 1] = base[i + 1]
    BY <1>0, <1>4, <1>5, <1>8
  <2> QED
    BY <1>1, <1>3, <2>1 DEF LevelKnown
<1>9. LevelKnown(b, m)'
  <2>1. ASSUME NEW j \in b[m]+1..b[m + 1]
        PROVE  Known(t, conds[j], stack[j], L + 1)
    <3>1. j \in base[m]+1..base[m + 1] /\ j \in 1..Len(conds)
      <4>1. b[m] = base[m] /\ b[m + 1] = base[m + 1] /\ base[m + 1] = Len(conds)
        BY <1>4, <1>5, <1>6, <1>7
      <4>2. \A lo, hi \in Nat : j \in lo+1..hi => j \in 1..hi
        OBVIOUS
      <4> QED
        BY <1>6, <2>1, <4>1, <4>2
    <3>2. Known(t, conds[j], stack[j], L)
      <4>1. LevelKnown(base, m)
        BY <1>0, <1>1, <1>4
      <4> QED
        BY <1>0, <1>4, <3>1, <4>1 DEF LevelKnown
    <3>3. conds[j].line \in Nat /\ ~ArmAt(t, conds[j].line, L)
      <4>1. conds[j] \in Cond
        BY <1>6, <3>1, ElementOfSeq
      <4> QED
        BY <1>6, <4>1 DEF Cond, ArmAt
    <3> QED
      BY <1>6, <3>2, <3>3, KnownStays
  <2> QED
    BY <1>0, <1>3, <1>4, <2>1 DEF LevelKnown
<1>10. LevelKnown(b, m + 1)'
  <2>1. \A j \in b[m + 1]+1..b[m + 2] : FALSE
    BY <1>6, <1>7
  <2>2. m + 1 + 1 = m + 2
    BY <1>4
  <2> QED
    BY <2>1, <2>2 DEF LevelKnown
<1>11. \A i \in 1..m+1 : i \in 1..m \/ i = m + 1
  BY <1>4
<1> QED
  BY <1>2, <1>4, <1>8, <1>9, <1>10, <1>11 DEF HeardInv

(* At the end of a file the includer goes on where it stopped.             *)
LEMMA EndKnown ==
  ASSUME PPInv, PPInv', HeardInv, EndOfFile, UNCHANGED stack
  PROVE  HeardInv'
<1>1. PICK base \in [1..Len(inc)+1 -> Nat] :
        Nested(base) /\ \A i \in 1..Len(inc) : LevelKnown(base, i)
  BY DEF HeardInv
<1>3. inc # <<>> /\ inc \in Seq(Place) /\ inc' = Front(inc) /\ UNCHANGED <<text, conds>>
  BY DEF EndOfFile, Reading, PPInv, PPTypeOK, Place
<1>0. PICK m : m = Len(inc)
  OBVIOUS
<1>4. m \in Nat \ {0} /\ Len(inc') = m - 1 /\ \A i \in 1..m-1 : inc'[i] = inc[i]
  BY <1>0, <1>3, FrontIs
<1>2. PICK b \in [1..Len(inc)+1 -> Nat]' : Nested(b)' /\ \A i \in 1..m : b[i] = base[i]
  <2>1. m \in 1..Len(inc)+1 /\ m <= Len(inc') + 1 /\ Len(inc) \in Nat /\ Len(inc') \in Nat
    BY <1>0, <1>4
  <2> QED
    BY <1>1, <1>3, <1>4, <2>1, SameBelow
<1>5. \A i \in 1..m : b[i] = base[i]
  BY <1>2
<1>6. ASSUME NEW i \in 1..m-1
      PROVE  LevelKnown(b, i)'
  <2>1. /\ inc'[i] = inc[i] /\ i \in 1..Len(inc)
        /\ b[i] = base[i] /\ b[i + 1] = base[i + 1]
    BY <1>0, <1>4, <1>5
  <2> QED
    BY <1>1, <1>3, <2>1 DEF LevelKnown
<1> QED
  BY <1>2, <1>4, <1>6 DEF HeardInv

(* What is known of the conditional an arm or an #endif belongs to.        *)
LEMMA TopKnown ==
  ASSUME PPInv, HeardInv, Reading, ~AtEnd, Word \in Arms \cup {"endif"}
  PROVE  Known(text[Here.file], Last(conds), stack[Len(conds)], Here.line)
<1>1. PICK base \in [1..Len(inc)+1 -> Nat] :
        Nested(base) /\ \A i \in 1..Len(inc) : LevelKnown(base, i)
  BY DEF HeardInv
<1>0. PICK m, t, L : m = Len(inc) /\ t = text[Here.file] /\ L = Here.line
  OBVIOUS
<1>2. /\ m \in Nat \ {0} /\ Here = inc[m] /\ base[m] \in Nat /\ Len(conds) \in Nat
      /\ Len(conds) = base[m] + Depth(t, L - 1)
  BY <1>0, <1>1, HereTyped, TopLevel
<1>3. Depth(t, L - 1) \in Int /\ Depth(t, L - 1) > 0
  BY <1>0, DepthHere, Words
<1>4. base[m + 1] = Len(conds) /\ LevelKnown(base, m)
  BY <1>0, <1>1, <1>2 DEF Nested
<1>5. Len(conds) \in base[m]+1..base[m + 1]
  BY <1>2, <1>3, <1>4
<1>6. Known(text[inc[m].file], conds[Len(conds)], stack[Len(conds)], inc[m].line)
  BY <1>4, <1>5 DEF LevelKnown
<1> QED
  BY <1>0, <1>2, <1>6 DEF Last

(* The steps that read a line, by what becomes of the last conditional: it *)
(* is a new one, it goes on, or it ends.                                   *)
LEMMA PushKnown ==
  ASSUME PPInv, PPInv', HeardInv, OnDirective(Openers), Advance, UNCHANGED text,
         NEW c, conds' = Append(conds, c),
         \A j \in 1..Len(conds) : ~conds[j].skipped => stack'[j] = stack[j],
         Known(text[Here.file], c, stack'[Len(conds) + 1], Here.line + 1)
  PROVE  HeardInv'
<1>1. Reading /\ ~AtEnd /\ Word \in Openers
  BY DEF OnDirective
<1>0. PICK n : n = Len(conds)
  OBVIOUS
<1>2. n \in Nat /\ conds \in Seq(Cond)
  BY <1>0, LenProperties DEF PPInv, PPTypeOK, Cond
<1>3. Len(conds') = n + 1 /\ conds'[n + 1] = c /\ \A j \in 1..n : conds'[j] = conds[j]
  <2>1. /\ Len(Append(conds, c)) = Len(conds) + 1
        /\ \A j \in 1..Len(conds) : Append(conds, c)[j] = conds[j]
        /\ Append(conds, c)[Len(conds) + 1] = c
    BY <1>0, <1>2
  <2> QED
    BY <1>0, <2>1
<1>4. \A j \in 1..n+1 : j = n + 1 \/ j \in 1..n
  BY <1>2
<1>5. \A j \in 1..Len(conds') :
        \/ Word \in Openers \cup Arms /\ j = Len(conds')
        \/ /\ j \in 1..Len(conds) /\ conds'[j] = conds[j]
           /\ ~conds[j].skipped => stack'[j] = stack[j]
  BY <1>0, <1>1, <1>3, <1>4
<1>6. Known(text[Here.file], conds'[Len(conds')], stack'[Len(conds')], Here.line + 1)
  BY <1>0, <1>3
<1> QED
  BY <1>1, <1>5, <1>6, LineKnown

(* An arm teaches of the last open conditional only.                       *)
LEMMA ArmKnown ==
  ASSUME PPInv, PPInv', HeardInv, OnDirective(Arms), Advance, UNCHANGED text,
         Len(conds') = Len(conds),
         \A j \in 1..Len(conds)-1 : conds'[j] = conds[j] /\ stack'[j] = stack[j],
         Known(text[Here.file], conds'[Len(conds)], stack'[Len(conds)], Here.line + 1)
  PROVE  HeardInv'
<1>1. Reading /\ ~AtEnd /\ Word \in Arms
  BY DEF OnDirective
<1>2. Len(conds) \in Nat
  BY LenProperties DEF PPInv, PPTypeOK
<1>3. \A j \in 1..Len(conds) : j = Len(conds) \/ j \in 1..Len(conds)-1
  BY <1>2
<1>4. \A j \in 1..Len(conds') :
        \/ Word \in Openers \cup Arms /\ j = Len(conds')
        \/ /\ j \in 1..Len(conds) /\ conds'[j] = conds[j]
           /\ ~conds[j].skipped => stack'[j] = stack[j]
  BY <1>1, <1>3
<1> QED
  BY <1>1, <1>4, LineKnown

(* A line that opens no conditional and is no arm teaches nothing.         *)
LEMMA OtherKnown ==
  ASSUME PPInv, PPInv', HeardInv, Reading, ~AtEnd, Word \notin Openers \cup Arms,
         Advance, UNCHANGED text,
         \A j \in 1..Len(conds') : /\ j \in 1..Len(conds) /\ conds'[j] = conds[j]
                                   /\ ~conds[j].skipped => stack'[j] = stack[j]
  PROVE  HeardInv'
BY LineKnown

-----------------------------------------------------------------------------
(* An opening directive, heard of or not.                                  *)
LEMMA OpeningHeard ==
  ASSUME MapperInv, MapperInv', HeardInv, Opening
  PROVE  HeardInv'
<1>0. PPInv /\ PPInv' /\ Stacks
  BY DEF MapperInv
<1>1. /\ OnDirective(Openers) /\ ~Skipping /\ Advance /\ UNCHANGED text
  BY DEF Opening, Enter
<1>2. PICK v \in BOOLEAN :
        conds' = Append(conds, [file |-> Here.file, line |-> Here.line,
                                skipped |-> FALSE, live |-> v,
                                took |-> IF v THEN Here.line ELSE 0])
  BY DEF Opening, Enter
<1>3. PICK c, fr :
        /\ c = [file |-> Here.file, line |-> Here.line, skipped |-> FALSE, live |-> v,
                took |-> IF v THEN Here.line ELSE 0]
        /\ fr = IF Here.file \in System THEN Sentinel
                ELSE [sentinel |-> FALSE, file |-> Here.file, kind |-> Word,
                      start |-> Here.line, branches |-> <<>>,
                      cur |-> OpenBranch(Word, Here.line)]
  OBVIOUS
<1>4. conds' = Append(conds, c) /\ stack' = Append(stack, fr)
  BY <1>2, <1>3 DEF Opening, shouldSkip, pushBlock
<1>5. Here.line \in Nat \ {0}
  BY <1>0, <1>1, LineRead
<1>6. Len(stack) = Len(conds) /\ Len(conds) \in Nat /\ stack \in Seq(Frame)
  BY <1>0, <1>1, SameHeight DEF Stacks
<1>7. /\ stack'[Len(conds) + 1] = fr
      /\ \A j \in 1..Len(conds) : stack'[j] = stack[j]
  <2>1. /\ Append(stack, fr)[Len(stack) + 1] = fr
        /\ \A j \in 1..Len(stack) : Append(stack, fr)[j] = stack[j]
    BY <1>6
  <2> QED
    BY <1>4, <1>6, <2>1
<1>8. Known(text[Here.file], c, fr, Here.line + 1)
  <2>1. c.line = Here.line /\ c.took = (IF c.live THEN Here.line ELSE 0)
    BY <1>3
  <2>2. ~fr.sentinel => fr.branches = <<>> /\ fr.cur.start = Here.line
    BY <1>3, FrameKinds DEF OpenBranch
  <2> QED
    BY <1>5, <2>1, <2>2, KnownStarts
<1> QED
  BY <1>0, <1>1, <1>4, <1>7, <1>8, PushKnown

(* An arm that reaches its hook, whether or not the plugin overrides it.   *)
LEMMA ArmHeard ==
  ASSUME MapperInv, MapperInv', HeardInv, NextBranch \/ ElifdefIgnored
  PROVE  HeardInv'
<1>0. PPInv /\ PPInv' /\ Stacks /\ Stacks'
  BY DEF MapperInv
<1>1. NextArm /\ OnDirective(Arms) /\ Advance /\ UNCHANGED text /\ ArmIsRead
  BY DEF NextBranch, ElifdefIgnored, NextArm
<1>2. /\ conds # <<>> /\ Last(conds) \in Cond /\ stack # <<>> /\ stack \in Seq(Frame)
      /\ Last(stack) \in Frame /\ Fits(Last(stack), Last(conds))
      /\ Here.line \in Nat \ {0} /\ text[Here.file][Here.line] = Word
      /\ Word \in Arms /\ Reading /\ ~AtEnd /\ ~Last(conds).skipped
  BY <1>0, <1>1, TopHere DEF OnDirective, ArmIsRead
<1>3. PICK v \in BOOLEAN :
        /\ Last(conds).took # 0 => ~v
        /\ conds' = SetTop(conds, [Last(conds) EXCEPT !.live = v,
                                                      !.took = IF v THEN Here.line ELSE @])
  BY <1>1 DEF NextArm
<1>4. PICK d : /\ d = [Last(conds) EXCEPT !.live = v, !.took = IF v THEN Here.line ELSE @]
               /\ conds' = SetTop(conds, d)
  BY <1>3
<1>5. /\ d \in Cond /\ d.line = Last(conds).line /\ d.skipped = Last(conds).skipped
      /\ d.live = v /\ d.took = IF v THEN Here.line ELSE Last(conds).took
  BY <1>2, <1>4 DEF Cond
<1>6. PICK fr, g, n : /\ fr = Last(stack) /\ n = Len(conds)
                      /\ g = IF fr.sentinel \/ Word = "elifdef" THEN fr
                             ELSE Advanced(fr, Word, Here.line)
  OBVIOUS
<1>7. stack' = SetTop(stack, g)
  <2>1. CASE fr.sentinel \/ Word = "elifdef"
    <3>1. stack' = stack
      BY <1>2, <1>6, <2>1 DEF NextBranch, ElifdefIgnored, Unread
    <3>2. SetTop(stack, fr) = stack
      BY <1>2, <1>6, SetTopSame
    <3> QED
      BY <1>6, <2>1, <3>1, <3>2
  <2>2. CASE ~(fr.sentinel \/ Word = "elifdef")
    <3>1. NextBranch
      BY <2>2 DEF ElifdefIgnored
    <3> QED
      BY <1>2, <1>6, <2>2, <3>1 DEF NextBranch, Advanced
  <2> QED
    BY <2>1, <2>2
<1>8. /\ ~fr.sentinel => fr \in RealFrame
      /\ g \in Frame /\ g.sentinel = fr.sentinel
      /\ ~fr.sentinel => Starts(g) = IF Word = "elifdef" THEN Starts(fr)
                                     ELSE Starts(fr) \cup {Here.line}
      /\ ~fr.sentinel /\ InOrder(fr) /\ fr.cur.start < Here.line => InOrder(g)
  <2>1. ~fr.sentinel => fr \in RealFrame
    BY <1>2, <1>6, FrameKinds
  <2>2. CASE fr.sentinel \/ Word = "elifdef"
    BY <1>2, <1>6, <2>1, <2>2
  <2>3. CASE ~(fr.sentinel \/ Word = "elifdef")
    <3>1. g = Advanced(fr, Word, Here.line) /\ fr \in RealFrame
      BY <1>6, <2>1, <2>3
    <3>2. Starts(g) = Starts(fr) \cup {Here.line}
      BY <1>2, <3>1, StartsGrow
    <3>3. g \in RealFrame
      <4>1. PICK closed, b : closed = closeTopBranch(fr, Here.line) /\ b = OpenBranch(Word, Here.line)
        OBVIOUS
      <4>2. ~Last(stack).sentinel => FrameIsOf(text[Last(stack).file], Last(stack))
        BY <1>0, <1>2, TopFrame
      <4>3. closed \in RealFrame
        BY <1>2, <1>6, <2>3, <3>1, <4>1, <4>2, BranchCloses
      <4>4. b \in Branch /\ g = [closed EXCEPT !.cur = b]
        BY <1>2, <3>1, <4>1 DEF OpenBranch, Branch, Advanced
      <4> QED
        BY <4>3, <4>4 DEF RealFrame
    <3>4. g \in Frame /\ ~g.sentinel /\ ~fr.sentinel
      BY <2>3, <3>3, FrameKinds
    <3>5. g.sentinel = fr.sentinel
      <4>1. g.sentinel \in BOOLEAN /\ fr.sentinel \in BOOLEAN
        BY <3>1, <3>3 DEF RealFrame
      <4> QED
        BY <3>4, <4>1
    <3>6. InOrder(fr) /\ fr.cur.start < Here.line => InOrder(g)
      BY <1>2, <3>1, OrderGrows
    <3> QED
      BY <2>1, <2>3, <3>2, <3>4, <3>5, <3>6
  <2> QED
    BY <2>2, <2>3
<1>9. /\ Len(conds') = n /\ n \in Nat \ {0} /\ Len(stack) = n /\ conds'[n] = d /\ stack'[n] = g
      /\ \A j \in 1..n-1 : conds'[j] = conds[j] /\ stack'[j] = stack[j]
  <2>1. conds \in Seq(Cond) /\ Len(stack) = n /\ n \in Nat \ {0}
    BY <1>0, <1>2, <1>6, TopFrame DEF PPInv, PPTypeOK, Cond
  <2>2. PICK cs, st : cs = SetTop(conds, d) /\ st = SetTop(stack, g)
    OBVIOUS
  <2>3. Len(cs) = n /\ cs[n] = d /\ \A j \in 1..n-1 : cs[j] = conds[j]
    <3>1. /\ Len(SetTop(conds, d)) = Len(conds) /\ SetTop(conds, d)[Len(conds)] = d
          /\ \A j \in 1..Len(conds)-1 : SetTop(conds, d)[j] = conds[j]
      BY <1>2, <1>5, <2>1, SetTopIs
    <3> QED
      BY <1>6, <2>2, <3>1
  <2>4. st[n] = g /\ \A j \in 1..n-1 : st[j] = stack[j]
    <3>1. /\ SetTop(stack, g)[Len(stack)] = g
          /\ \A j \in 1..Len(stack)-1 : SetTop(stack, g)[j] = stack[j]
      BY <1>2, <1>8, SetTopIs
    <3> QED
      BY <2>1, <2>2, <3>1
  <2> QED
    BY <1>4, <1>7, <2>1, <2>2, <2>3, <2>4
<1>10. ArmAt(text[Here.file], Last(conds).line, Here.line)
  <2>1. Open(Last(conds).line, text[Here.file], Here.line, Depth(text[Here.file], Here.line - 1))
    BY <1>0, <1>2, TopIsOwn
  <2>2. /\ Depth(text[Here.file], Here.line) = Depth(text[Here.file], Here.line - 1)
        /\ Depth(text[Here.file], Here.line - 1) \in Int
    BY <1>0, <1>2, DepthHere, Words
  <2> QED
    BY <1>2, <2>1, <2>2, ArmHere
<1>11. Known(text[Here.file], Last(conds), fr, Here.line)
  <2>1. fr = stack[Len(conds)]
    BY <1>6, <1>9 DEF Last
  <2> QED
    BY <1>0, <1>2, <2>1, TopKnown
<1>12. Known(text[Here.file], d, g, Here.line + 1)
  BY <1>1, <1>2, <1>3, <1>5, <1>8, <1>10, <1>11, KnownGoesOn DEF ArmIsRead
<1> QED
  BY <1>0, <1>1, <1>6, <1>9, <1>12, ArmKnown

(* The end of a conditional, with its frame or without one.                *)
LEMMA EndHeard ==
  ASSUME MapperInv, MapperInv', HeardInv, OnDirective({"endif"}), Advance, UNCHANGED text,
         conds' = Front(conds),
         \/ stack' = stack
         \/ stack # <<>> /\ stack' = Front(stack) /\ Len(stack) = Len(conds)
  PROVE  HeardInv'
<1>0. PPInv /\ PPInv' /\ Stacks
  BY DEF MapperInv
<1>1. Reading /\ ~AtEnd /\ Word = "endif" /\ Word \notin Openers \cup Arms
  BY Words DEF OnDirective
<1>2. conds \in Seq(Cond) /\ stack \in Seq(Frame) /\ conds # <<>>
  <2>1. Len(conds) # 0
    BY <1>0, <1>1, TopIsOwn
  <2> QED
    BY <1>0, <2>1, EmptySeq DEF PPInv, PPTypeOK, Cond, Stacks
<1>3. /\ Len(conds') = Len(conds) - 1 /\ Len(conds) \in Nat \ {0}
      /\ \A j \in 1..Len(conds)-1 : conds'[j] = conds[j]
  BY <1>2, FrontIs
<1>4. \A j \in 1..Len(conds)-1 : j \in 1..Len(conds) /\ stack'[j] = stack[j]
  <2>1. stack # <<>> => \A j \in 1..Len(stack)-1 : Front(stack)[j] = stack[j]
    BY <1>2, FrontIs
  <2> QED
    BY <1>3, <2>1
<1> QED
  BY <1>0, <1>1, <1>3, <1>4, OtherKnown

(* A step the plugin does not hear of.                                     *)
LEMMA UnheardHeard ==
  ASSUME MapperInv, MapperInv', HeardInv, Unheard
  PROVE  HeardInv'
<1>0. PPInv /\ PPInv' /\ Stacks /\ UNCHANGED stack
  BY DEF MapperInv, Unheard, Unread
<1>1. CASE EnterSkipped
  <2>1. OnDirective(Openers) /\ Advance /\ UNCHANGED text
    BY <1>1 DEF EnterSkipped
  <2>2. PICK c : c = [file |-> Here.file, line |-> Here.line,
                      skipped |-> TRUE, live |-> FALSE, took |-> 0]
    OBVIOUS
  <2>3. conds' = Append(conds, c)
    BY <1>1, <2>2 DEF EnterSkipped
  <2>4. Known(text[Here.file], c, stack'[Len(conds) + 1], Here.line + 1)
    BY <2>2 DEF Known
  <2> QED
    BY <1>0, <2>1, <2>3, <2>4, PushKnown
<1>2. CASE PassArm
  <2>1. /\ OnDirective(Arms) /\ Advance /\ UNCHANGED <<text, conds>> /\ ~ArmIsRead
        /\ Reading /\ ~AtEnd /\ Word \in Arms
    BY <1>2 DEF PassArm, OnDirective
  <2>2. Known(text[Here.file], Last(conds), stack[Len(conds)], Here.line)
    BY <1>0, <2>1, TopKnown
  <2>3. /\ Last(conds) \in Cond /\ Last(conds) = conds[Len(conds)]
        /\ Here.line \in Nat \ {0}
    BY <1>0, <2>1, TopIsOwn, HereTyped
  <2>4. Last(conds).skipped \/ (Last(conds).took # 0 /\ ~Last(conds).live)
    BY <2>1 DEF ArmIsRead
  <2>5. Known(text[Here.file], Last(conds), stack[Len(conds)], Here.line + 1)
    BY <2>2, <2>3, <2>4, KnownPasses
  <2> QED
    BY <1>0, <2>1, <2>3, <2>5, ArmKnown
<1>3. CASE LeaveSkipped
  <2>1. OnDirective({"endif"}) /\ Advance /\ UNCHANGED text /\ conds' = Front(conds)
    BY <1>3 DEF LeaveSkipped
  <2> QED
    BY <1>0, <2>1, EndHeard
<1>4. CASE SkipLine
  <2>1. /\ Reading /\ ~AtEnd /\ Word \in {"code"} \cup File /\ Advance
        /\ UNCHANGED <<text, conds>>
    BY <1>4 DEF SkipLine, OnDirective
  <2>2. Word \notin Openers \cup Arms
    BY <2>1, Words DEF Arms
  <2> QED
    BY <1>0, <2>1, <2>2, OtherKnown
<1>5. CASE Include
  BY <1>0, <1>5, IncludeKnown
<1>6. CASE EndOfFile
  BY <1>0, <1>6, EndKnown
<1> QED
  BY <1>1, <1>2, <1>3, <1>4, <1>5, <1>6 DEF Unheard

(* What is known of the open conditionals is kept by every step.           *)
LEMMA HeardInductive == MapperInv /\ HeardInv /\ [Next]_vars => HeardInv'
<1> SUFFICES ASSUME MapperInv, HeardInv, [Next]_vars PROVE HeardInv'
  OBVIOUS
<1>0. MapperInv' /\ PPInv /\ Stacks
  BY MapperInductive DEF MapperInv
<1>1. CASE Opening
  BY <1>0, <1>1, OpeningHeard
<1>2. CASE NextBranch \/ ElifdefIgnored
  BY <1>0, <1>2, ArmHeard
<1>3. CASE EndifOfSentinel \/ EndifOfBlock
  <2>1. /\ OnDirective({"endif"}) /\ Advance /\ UNCHANGED text /\ conds' = Front(conds)
        /\ ~Last(conds).skipped /\ stack # <<>> /\ stack' = Front(stack)
    BY <1>3 DEF EndifOfSentinel, EndifOfBlock, Leave
  <2>2. Len(stack) = Len(conds)
    <3>1. conds # <<>>
      BY <1>0, <2>1, TopHere
    <3> QED
      BY <1>0, <2>1, <3>1, TopFrame
  <2> QED
    BY <1>0, <2>1, <2>2, EndHeard
<1>4. CASE Unheard
  BY <1>0, <1>4, UnheardHeard
<1>5. CASE Flush \/ UNCHANGED vars
  <2>1. UNCHANGED <<text, inc, conds, stack>>
    BY <1>5 DEF Flush, vars
  <2> QED
    BY <2>1 DEF HeardInv, Nested, Level, LevelKnown
<1> QED
  BY <1>1, <1>2, <1>3, <1>4, <1>5 DEF Next

(* At the start no conditional is open.                                    *)
LEMMA HeardStarts == Init => HeardInv
<1> SUFFICES ASSUME Init PROVE HeardInv
  OBVIOUS
<1>1. PPInv /\ conds = <<>> /\ inc = <<[file |-> Main, line |-> 1]>>
  BY PPStarts DEF Init, PPInit
<1>2. PICK base \in [1..Len(inc)+1 -> Nat] : Nested(base)
  BY <1>1 DEF PPInv
<1>3. Len(inc) = 1 /\ Len(conds) = 0
  BY <1>1, EmptySeq
<1>4. base[1] = 0 /\ base[2] = 0
  BY <1>2, <1>3 DEF Nested
<1>5. LevelKnown(base, 1)
  BY <1>4 DEF LevelKnown
<1> QED
  BY <1>2, <1>3, <1>5 DEF HeardInv

(* Where the plugin hears of a branch of conditional c.                    *)
HeardFrom(t, c) == {c.line} \cup {k \in HeardArms(t, c) : t[k] # "elifdef"}

(* What is known of a block when it is filed.                              *)
LEMMA Filed ==
  ASSUME MapperInv, HeardInv, [Next]_vars, NEW f \in File, fileBlocks'[f] # fileBlocks[f],
         NEW t, t = text[f], NEW c, c = Last(conds), NEW b, b = Last(fileBlocks'[f])
  PROVE  /\ c.line \in Nat \ {0} /\ c.took \in Nat /\ TookIs(c, ArmsOf(t, c.line))
         /\ b \in Block /\ BlockIsOf(t, b) /\ b.start = c.line /\ Rising(b.branches)
         /\ BranchStarts(b.branches) = HeardFrom(t, c)
         /\ {x.start : x \in Range(b.branches)} = HeardFrom(t, c)
<1>0. PPInv /\ Stacks /\ Files
  BY DEF MapperInv
<1>1. EndifOfBlock
  BY DEF Next, Opening, NextBranch, ElifdefIgnored, EndifOfSentinel, Unheard, Unread,
         Flush, vars
<1>2. PICK own, L, fr, r : /\ own = text[Here.file] /\ L = Here.line /\ fr = Last(stack)
                           /\ r = Depth(own, L - 1)
  OBVIOUS
<1>3. OnDirective({"endif"}) /\ ~c.skipped /\ ~fr.sentinel
  BY <1>1, <1>2 DEF EndifOfBlock, Leave
<1>4. /\ c \in Cond /\ Fits(fr, c) /\ conds # <<>> /\ stack # <<>>
      /\ L \in 1..Len(own) /\ Len(own) \in Nat /\ own[L] = Word /\ Word = "endif" /\ Reading
      /\ r \in Int /\ fr \in RealFrame /\ fr.file = Here.file /\ Open(fr.start, own, L, r)
      /\ FrameIsOf(own, fr) /\ Here.file \in File
  BY <1>0, <1>2, <1>3, TopHere
<1>5. /\ Depth(own, L) < r /\ ~AtEnd /\ Open(c.line, own, L, r) /\ own[L] \notin Arms
      /\ fr.start = c.line
  <2>1. ~AtEnd /\ fr.start = c.line
    BY <1>3, <1>4 DEF OnDirective, Fits
  <2>2. Depth(own, L) = r - 1
    BY <1>0, <1>2, <1>4, <2>1, DepthHere
  <2> QED
    BY <1>4, <2>1, <2>2 DEF Arms
<1>6. Known(own, c, fr, L)
  <2>1. fr = stack[Len(conds)]
    BY <1>0, <1>2, <1>3, <1>4, TopFrame
  <2> QED
    BY <1>0, <1>2, <1>4, <1>5, <2>1, TopKnown
<1>7. /\ Starts(fr) = {c.line} \cup {k \in HeardArms(own, c) : own[k] # "elifdef"}
      /\ InOrder(fr) /\ TookIs(c, ArmsOf(own, c.line))
  BY <1>3, <1>4, <1>5, <1>6, KnownFiled
<1>8. PICK filed : filed = popBlock(closeTopBranch(fr, L), L)
  OBVIOUS
<1>9. f = Here.file /\ b = filed
  <2>1. fileBlocks' = [fileBlocks EXCEPT ![Here.file] = Append(@, filed)]
    BY <1>1, <1>2, <1>4, <1>8 DEF EndifOfBlock
  <2>2. fileBlocks \in [File -> Seq(Block)]
    BY <1>0 DEF Files
  <2>3. f = Here.file /\ fileBlocks'[f] = Append(fileBlocks[f], filed)
    BY <1>4, <2>1, <2>2
  <2>4. fileBlocks[f] \in Seq(Block)
    BY <2>2
  <2>5. /\ Len(Append(fileBlocks[f], filed)) = Len(fileBlocks[f]) + 1
        /\ Append(fileBlocks[f], filed)[Len(fileBlocks[f]) + 1] = filed
    BY <2>4
  <2> QED
    BY <2>3, <2>5 DEF Last
<1>10. /\ {x.start : x \in Range(filed.branches)} = Starts(fr)
       /\ BranchStarts(filed.branches) = Starts(fr) /\ Rising(filed.branches)
  BY <1>4, <1>7, <1>8, StartsFiled
<1>11. filed \in Block /\ filed.start = fr.start /\ BlockIsOf(own, filed)
  BY <1>4, <1>5, <1>8, BlockIsFiled
<1>12. c.line \in Nat \ {0} /\ c.took \in Nat
  <2>1. c.line \in 1..L-1
    BY <1>5 DEF Open
  <2> QED
    BY <1>4, <2>1 DEF Cond
<1>13. t = own
  BY <1>2, <1>9
<1> QED
  BY <1>5, <1>7, <1>9, <1>10, <1>11, <1>12, <1>13 DEF HeardFrom

(* A block that is filed has a branch for its opening directive and for    *)
(* each arm up to the one after the compiled arm, except the #elifdef and  *)
(* #elifndef whose hooks IfdefMapper inherits, and no others.              *)
THEOREM BlocksAreAsHeard == Spec => FiledAsHeard
<1>1. MapperInv /\ HeardInv /\ [Next]_vars =>
        [\A f \in File : fileBlocks'[f] # fileBlocks[f] =>
           {b.start : b \in Range(Last(fileBlocks'[f]).branches)} =
             {Last(conds).line} \cup
             {k \in HeardArms(text[f], Last(conds)) : text[f][k] # "elifdef"}]_vars
  BY Filed DEF HeardFrom
<1> QED
  BY <1>1, MapperStarts, MapperInductive, HeardStarts, HeardInductive, PTL
     DEF Spec, FiledAsHeard

-----------------------------------------------------------------------------
(* What Phase 4 takes IfdefMapper to record (Recorded), and what it makes  *)
(* of the macros of a command.                                             *)
P4 == INSTANCE BuildConfig

(* Phase 4's block for the conditional opened on line s of text t.         *)
Lists(block, t, s) ==
  /\ block \in Seq(P4!Branch) /\ block # <<>> /\ Rising(block)
  /\ BranchStarts(block) = {s} \cup ArmsOf(t, s)
  /\ \A i \in 1..Len(block) : block[i].kind = t[block[i].start]
  /\ Tiles(block, s, EndifOf(t, s))

(* The preprocessor took the branch that Phase 4 says the macros take.     *)
TookBy(block, took, defines) ==
  \A i \in 1..Len(block) : P4!Taken(block, i, defines) <=> block[i].start = took

(* Phase 4 carries the conditions too, the plugin's branches as a text.    *)
SameBranches(bs, r) ==
  /\ Len(bs) = Len(r)
  /\ \A i \in 1..Len(bs) :
       bs[i].kind = r[i].kind /\ bs[i].start = r[i].start /\ bs[i].end = r[i].end

FiledAsRecorded ==
  [][\A f \in File : fileBlocks'[f] # fileBlocks[f] =>
       \A blocks, block, defines :
         /\ Lists(block, text[f], Last(conds).line)
         /\ TookBy(block, Last(conds).took, defines)
         /\ P4!Compiled(blocks, block[1].start, defines)
         => SameBranches(Last(fileBlocks'[f]).branches, P4!Recorded(blocks, block, defines))]_vars

(* The first p numbers of a rise, and are among the first m of d.          *)
Rise(a, p) == \A i, j \in 1..p : a[i] \in Nat /\ (i < j => a[i] < a[j])
Among(a, p, d, m) == \A i \in 1..p : \E j \in 1..m : a[i] = d[j]

(* Two rising sequences of the same numbers: the first is no longer and    *)
(* begins the other.                                                       *)
LEMMA BeginsSame ==
  ASSUME NEW p \in Nat, NEW m \in Nat, NEW a, NEW d,
         Rise(a, p), Rise(d, m), Among(a, p, d, m), Among(d, m, a, p)
  PROVE  p <= m /\ \A i \in 1..p : a[i] = d[i]
<1>0. /\ \A i \in 1..p : a[i] \in Nat
      /\ \A i \in 1..m : d[i] \in Nat
      /\ \A i, j \in 1..p : i < j => a[i] < a[j]
      /\ \A i, j \in 1..m : i < j => d[i] < d[j]
      /\ \A i \in 1..p : \E j \in 1..m : a[i] = d[j]
      /\ \A j \in 1..m : \E i \in 1..p : a[i] = d[j]
  BY DEF Rise, Among
<1> DEFINE Off == {x \in 1..p : x > m \/ a[x] # d[x]}
<1> SUFFICES ASSUME Off # {} PROVE FALSE
  OBVIOUS
<1>1. PICK x \in Off : \A y \in Off : x <= y
  <2>1. Off \in SUBSET Nat
    OBVIOUS
  <2> HIDE DEF Off
  <2> QED
    BY <2>1, Least
<1>2. x \in 1..p /\ (x > m \/ a[x] # d[x])
  BY <1>1
<1>3. \A y \in 1..p : y < x => y \in 1..m /\ a[y] = d[y]
  BY <1>1, <1>2
<1>4. PICK y \in 1..m : a[x] = d[y]
  BY <1>0, <1>2
<1>5. ~(y < x)
  <2> SUFFICES ASSUME y < x PROVE FALSE
    OBVIOUS
  <2>1. y \in 1..p
    BY <1>2
  <2>2. a[y] = a[x] /\ a[y] < a[x] /\ a[x] \in Nat
    BY <1>0, <1>2, <1>3, <1>4, <2>1
  <2> QED
    BY <2>2
<1>6. x \in 1..m /\ y > x
  BY <1>2, <1>4, <1>5
<1>7. d[x] < a[x] /\ d[x] \in Nat /\ a[x] \in Nat
  BY <1>0, <1>2, <1>4, <1>6
<1>8. PICK z \in 1..p : a[z] = d[x]
  BY <1>0, <1>6
<1>9. CASE z < x
  <2>1. z \in 1..m /\ a[z] = d[z]
    BY <1>3, <1>9
  <2>2. d[z] < d[x] /\ d[z] = d[x] /\ d[x] \in Nat
    BY <1>0, <1>6, <1>8, <1>9, <2>1
  <2> QED
    BY <2>2
<1>10. CASE z = x
  BY <1>7, <1>8, <1>10
<1>11. CASE z > x
  <2>1. a[x] < a[z] /\ a[z] = d[x]
    BY <1>0, <1>2, <1>8, <1>11
  <2> QED
    BY <1>7, <2>1
<1> QED
  BY <1>9, <1>10, <1>11

(* Where the branches of Phase 4's block start.                            *)
LEMMA ListOrder ==
  ASSUME NEW t, NEW s \in Nat \ {0}, NEW block, Lists(block, t, s)
  PROVE  /\ Len(block) \in Nat \ {0} /\ block[1].start = s
         /\ \A i \in 1..Len(block) : block[i] \in P4!Branch /\ block[i].start \in Nat \ {0}
         /\ \A i \in 2..Len(block) : block[i].start \in ArmsOf(t, s)
<1>1. block \in Seq(P4!Branch) /\ block # <<>>
  BY DEF Lists
<1>2. PICK n : n = Len(block)
  OBVIOUS
<1>3. n \in Nat \ {0} /\ \A i \in 1..n : block[i] \in P4!Branch
  BY <1>1, <1>2, EmptySeq, LenProperties, ElementOfSeq
<1>4. \A i \in 1..n : block[i].start \in Nat /\ block[i].start \in {s} \cup ArmsOf(t, s)
  <2>1. \A i \in 1..n : block[i].start \in BranchStarts(block)
    BY <1>2 DEF BranchStarts
  <2> QED
    BY <1>3, <2>1 DEF Lists, P4!Branch
<1>5. \A k \in ArmsOf(t, s) : k \in Int /\ k > s
  BY DEF ArmsOf
<1>6. \A i \in 2..n : block[1].start < block[i].start
  BY <1>2, <1>3 DEF Lists, Rising
<1>7. PICK k \in 1..n : block[k].start = s
  BY <1>2 DEF Lists, BranchStarts
<1>8. k = 1
  <2> SUFFICES ASSUME k # 1 PROVE FALSE
    OBVIOUS
  <2>1. block[1].start < s /\ 1 \in 1..n
    BY <1>3, <1>6, <1>7
  <2>2. block[1].start \in Nat /\ block[1].start \in {s} \cup ArmsOf(t, s)
    BY <1>4, <2>1
  <2> QED
    BY <1>5, <2>1, <2>2
<1>9. \A i \in 2..n : block[i].start # s
  <2>1. \A i \in 2..n : i \in 1..n /\ block[i].start \in Nat
    BY <1>4
  <2> QED
    BY <1>6, <1>7, <1>8, <2>1
<1>10. \A i \in 1..n : block[i].start # 0
  BY <1>4, <1>5
<1>11. \A i \in 2..n : block[i].start \in ArmsOf(t, s)
  BY <1>4, <1>9
<1> QED
  BY <1>2, <1>3, <1>4, <1>7, <1>8, <1>10, <1>11

HeardIn(block, defines) ==
  {i \in 1..Len(block) : \A j \in 1..i-2 : ~P4!Taken(block, j, defines)}

(* The branches Phase 4 says are heard of, are the first m of the block;   *)
(* they start where the plugin hears of a branch.                          *)
LEMMA HeardFirst ==
  ASSUME NEW t, NEW c, c.line \in Nat \ {0}, c.took \in Nat, NEW block, NEW defines,
         Lists(block, t, c.line), TookBy(block, c.took, defines), TookIs(c, ArmsOf(t, c.line))
  PROVE  \E m \in 1..Len(block) :
           /\ HeardIn(block, defines) = 1..m
           /\ {block[i].start : i \in 1..m} = HeardFrom(t, c)
<1>0. PICK n, s, took, arms : /\ n = Len(block) /\ s = c.line /\ took = c.took
                              /\ arms = ArmsOf(t, s)
  OBVIOUS
<1>1. /\ n \in Nat \ {0} /\ s \in Nat \ {0} /\ took \in Nat /\ block[1].start = s
      /\ \A i \in 1..n : block[i] \in P4!Branch /\ block[i].start \in Nat \ {0}
      /\ \A i \in 2..n : block[i].start \in arms
      /\ \A i, j \in 1..n : i < j => block[i].start < block[j].start
  BY <1>0, ListOrder DEF Lists, Rising
<1>2. /\ \A a \in arms : a \in Nat /\ a > s
      /\ \A a \in {s} \cup arms : \E i \in 1..n : block[i].start = a
  <2>1. \A a \in arms : a \in Nat /\ a > s
    BY <1>0, <1>1 DEF ArmsOf
  <2> QED
    BY <1>0, <2>1 DEF Lists, BranchStarts
<1>3. \A i, j \in 1..n : block[i].start < block[j].start <=> i < j
  BY <1>1
<1>4. \A k \in arms : t[k] # "elifdef"
  <2> TAKE k \in arms
  <2>1. PICK i \in 1..n : block[i].start = k
    BY <1>2
  <2>2. block[i].kind = t[k] /\ block[i] \in P4!Branch
    BY <1>0, <1>1, <2>1 DEF Lists
  <2> QED
    BY <2>2 DEF P4!Branch
<1>5. {k \in HeardArms(t, c) : t[k] # "elifdef"}
        = {k \in arms : took # 0 => arms \cap took+1..k-1 = {}}
  BY <1>0, <1>4 DEF HeardArms
<1> DEFINE heard == {i \in 1..n : \A j \in 1..i-2 : ~P4!Taken(block, j, defines)}
<1>10. HeardIn(block, defines) = heard
  BY <1>0 DEF HeardIn
<1>6. \A i \in 1..n : i \in heard <=> \A j \in 1..i-2 : block[j].start # took
  <2>1. \A i \in 1..n : \A j \in 1..i-2 : j \in 1..n
    BY <1>1
  <2>2. \A j \in 1..n : P4!Taken(block, j, defines) <=> block[j].start = took
    BY <1>0 DEF TookBy
  <2> QED
    BY <2>1, <2>2
<1>7. HeardFrom(t, c) = {s} \cup {k \in arms : took # 0 => arms \cap took+1..k-1 = {}}
  BY <1>0, <1>5 DEF HeardFrom
<1>8. CASE took = 0
  <2>1. heard = 1..n
    <3>1. \A i \in 1..n : \A j \in 1..i-2 : j \in 1..n
      BY <1>1
    <3>2. \A i \in 1..n : i \in heard
      BY <1>1, <1>6, <1>8, <3>1
    <3> QED
      BY <3>2
  <2>2. \A a : (\E i \in 1..n : block[i].start = a) <=> a \in {s} \cup arms
    <3>1. \A i \in 1..n : i = 1 \/ i \in 2..n
      BY <1>1
    <3> QED
      BY <1>1, <1>2, <3>1
  <2> QED
    BY <1>0, <1>1, <1>7, <1>8, <1>10, <2>1, <2>2
<1>9. CASE took # 0
  <2>1. took \in {s} \cup arms
    BY <1>0, <1>9 DEF TookIs
  <2>2. PICK k \in 1..n : block[k].start = took
    BY <1>2, <2>1
  <2>3. \A j \in 1..n : block[j].start = took <=> j = k
    BY <1>1, <2>2
  <2>4. PICK m \in 1..n : m = IF k + 1 <= n THEN k + 1 ELSE n
    BY <1>1
  <2>5. \A i \in 1..n : i \in heard <=> i <= k + 1
    <3> TAKE i \in 1..n
    <3>1. \A j \in 1..i-2 : j \in 1..n
      BY <1>1
    <3>2. (\A j \in 1..i-2 : block[j].start # took) <=> ~(k \in 1..i-2)
      BY <2>3, <3>1
    <3>3. k \in 1..i-2 <=> ~(i <= k + 1)
      OBVIOUS
    <3> QED
      BY <1>6, <3>2, <3>3
  <2>6. heard = 1..m
    <3>1. \A i \in 1..n : i <= k + 1 <=> i \in 1..m
      BY <1>1, <2>4
    <3>2. \A i \in 1..m : i \in 1..n
      BY <1>1
    <3> HIDE DEF heard
    <3>3. \A i \in heard : i \in 1..n
      BY DEF heard
    <3> QED
      BY <2>5, <3>1, <3>2, <3>3
  <2>7. \A i \in 2..n : arms \cap took+1..block[i].start-1 = {} <=> i <= k + 1
    <3> TAKE i \in 2..n
    <3>1. PICK b : b = block[i].start
      OBVIOUS
    <3>2. i \in 1..n /\ b \in Nat
      BY <1>1, <3>1
    <3>3. ASSUME i > k + 1 PROVE arms \cap took+1..b-1 # {}
      <4>1. k + 1 \in 2..n /\ k + 1 \in 1..n /\ k < k + 1 /\ k + 1 < i
        BY <1>1, <3>2, <3>3
      <4>2. PICK q : q = block[k + 1].start
        OBVIOUS
      <4>3. q \in arms /\ took < q /\ q < b /\ q \in Nat
        BY <1>1, <1>3, <2>2, <3>1, <3>2, <4>1, <4>2
      <4>4. q \in took+1..b-1
        BY <1>1, <3>2, <4>3
      <4> QED
        BY <4>3, <4>4
    <3>4. ASSUME NEW q \in arms \cap took+1..b-1 PROVE i > k + 1
      <4>1. PICK j \in 1..n : block[j].start = q
        BY <1>2
      <4>2. q \in Nat /\ took < q /\ q < b
        BY <1>1, <3>2
      <4>3. k < j /\ j < i
        BY <1>3, <2>2, <3>1, <3>2, <4>1, <4>2
      <4> QED
        BY <3>2, <4>3
    <3> QED
      BY <3>1, <3>2, <3>3, <3>4
  <2>8. \A i \in 1..m : i = 1 \/ (i \in 2..n /\ i <= k + 1)
    BY <1>1, <2>4
  <2>9. \A i \in 2..n : i <= k + 1 => i \in 1..m
    BY <1>1, <2>4
  <2>10. \A a : (\E i \in 1..m : block[i].start = a)
              <=> a \in {s} \cup {q \in arms : arms \cap took+1..q-1 = {}}
    <3>1. ASSUME NEW i \in 1..m
          PROVE  block[i].start \in {s} \cup {q \in arms : arms \cap took+1..q-1 = {}}
      BY <1>1, <2>7, <2>8
    <3>2. ASSUME NEW q \in arms, arms \cap took+1..q-1 = {}
          PROVE  \E i \in 1..m : block[i].start = q
      <4>1. PICK i \in 1..n : block[i].start = q
        BY <1>2
      <4>2. q \in Nat /\ q > s
        BY <1>2
      <4>3. i \in 2..n
        BY <1>1, <4>1, <4>2
      <4>4. i <= k + 1
        BY <2>7, <3>2, <4>1, <4>3
      <4> QED
        BY <2>9, <4>1, <4>3, <4>4
    <3>3. 1 \in 1..m
      BY <1>1, <2>4
    <3> QED
      BY <1>1, <3>1, <3>2, <3>3
  <2>11. {block[i].start : i \in 1..m} = HeardFrom(t, c)
    <3>1. HeardFrom(t, c) = {s} \cup {q \in arms : arms \cap took+1..q-1 = {}}
      BY <1>7, <1>9
    <3> QED
      BY <2>10, <3>1
  <2> HIDE DEF heard
  <2> QED
    BY <1>0, <1>10, <2>6, <2>11
<1> QED
  BY <1>8, <1>9

IsFirst(r, block, m) ==
  /\ Len(r) = m
  /\ \A i \in 1..m : r[i].kind = block[i].kind /\ r[i].start = block[i].start
  /\ \A i \in 1..m-1 : r[i].end = block[i].end
  /\ r[m].end = block[Len(block)].end

(* What Phase 4 takes to be recorded of a block: its first m branches, the *)
(* last one going on to its end.                                           *)
LEMMA RecordedFirst ==
  ASSUME NEW blocks, NEW block \in Seq(P4!Branch), NEW defines, NEW m \in 1..Len(block),
         P4!Compiled(blocks, block[1].start, defines),
         HeardIn(block, defines) = 1..m
  PROVE  IsFirst(P4!Recorded(blocks, block, defines), block, m)
<1>1. PICK s, e : s = SubSeq(block, 1, m) /\ e = block[Len(block)].end
  OBVIOUS
<1>2. /\ Len(block) \in Nat /\ m \in Nat
      /\ s \in Seq(P4!Branch) /\ Len(s) = m /\ \A i \in 1..m : s[i] = block[i]
  BY <1>1
<1>3. P4!Cardinality(1..m) = m
  <2>1. P4!Cardinality(1..m) = Cardinality(1..m)
    BY DEF P4!Cardinality, Cardinality
  <2>2. Cardinality(1..m) = IF 1 > m THEN 0 ELSE m - 1 + 1
    BY <1>2, FS_Interval
  <2> QED
    BY <1>2, <2>1, <2>2
<1>4. P4!Last(block) = block[Len(block)]
  BY DEF P4!Last
<1>5. P4!Recorded(blocks, block, defines) = [s EXCEPT ![m].end = e]
  BY <1>1, <1>3, <1>4 DEF P4!Recorded, HeardIn
<1>6. PICK moved : moved = [block[m] EXCEPT !.end = e]
  OBVIOUS
<1>7. block[m] \in P4!Branch
  BY ElementOfSeq
<1>8. /\ moved.kind = block[m].kind /\ moved.start = block[m].start /\ moved.end = e
      /\ moved \in P4!Branch
  <2>1. block[Len(block)] \in P4!Branch
    BY <1>2, ElementOfSeq
  <2>2. e \in Nat
    BY <1>1, <2>1 DEF P4!Branch
  <2> QED
    BY <1>6, <1>7, <2>2 DEF P4!Branch
<1>9. [s EXCEPT ![m].end = e] = [s EXCEPT ![m] = moved]
  <2>1. m \in 1..m /\ s[m] = block[m]
    BY <1>2
  <2> QED
    BY <1>6, <2>1
<1>10. PICK r : r = [s EXCEPT ![m] = moved]
  OBVIOUS
<1>11. Len(r) = m /\ r[m] = moved /\ \A i \in 1..m : i # m => r[i] = block[i]
  <2>1. m \in 1..Len(s)
    BY <1>2
  <2>2. Len(r) = m /\ \A i \in 1..m : r[i] = IF i = m THEN moved ELSE s[i]
    BY <1>2, <1>8, <1>10, <2>1, ExceptSeq
  <2> QED
    BY <1>2, <2>2
<1>12. \A i \in 1..m-1 : i \in 1..m /\ i # m
  BY <1>2
<1>13. P4!Recorded(blocks, block, defines) = r
  BY <1>5, <1>9, <1>10
<1> QED
  BY <1>1, <1>8, <1>11, <1>12, <1>13 DEF IsFirst

(* Branches that start where the first m of the block do are those that    *)
(* Phase 4 takes to be recorded.                                           *)
LEMMA SameAsRecorded ==
  ASSUME NEW t, NEW c, c.line \in Nat \ {0}, c.took \in Nat, TookIs(c, ArmsOf(t, c.line)),
         NEW b \in Block, BlockIsOf(t, b), b.start = c.line, Rising(b.branches),
         BranchStarts(b.branches) = HeardFrom(t, c),
         NEW blocks, NEW block, NEW defines,
         Lists(block, t, c.line), TookBy(block, c.took, defines),
         P4!Compiled(blocks, block[1].start, defines)
  PROVE  SameBranches(b.branches, P4!Recorded(blocks, block, defines))
<1>0. PICK bs, p, n, r, e : /\ bs = b.branches /\ p = Len(bs) /\ n = Len(block)
                            /\ r = P4!Recorded(blocks, block, defines)
                            /\ e = EndifOf(t, c.line)
  OBVIOUS
<1>1. PICK m \in 1..Len(block) :
        /\ HeardIn(block, defines) = 1..m
        /\ {block[i].start : i \in 1..m} = HeardFrom(t, c)
  BY HeardFirst
<1>2. block \in Seq(P4!Branch) /\ n \in Nat /\ m \in Nat \ {0} /\ n \in 1..n /\ m \in 1..n
  BY <1>0, <1>1 DEF Lists
<1>3. /\ Len(r) = m
      /\ \A i \in 1..m : r[i].kind = block[i].kind /\ r[i].start = block[i].start
      /\ \A i \in 1..m-1 : r[i].end = block[i].end
      /\ r[m].end = block[n].end
  <2>1. IsFirst(P4!Recorded(blocks, block, defines), block, m)
    BY <1>1, <1>2, RecordedFirst
  <2> QED
    BY <1>0, <2>1 DEF IsFirst
<1>4. bs \in Seq(Branch) /\ p \in Nat /\ \A i \in 1..p : bs[i] \in Branch
  BY <1>0, ElementOfSeq DEF Block
<1>5. /\ \A i \in 1..p : bs[i].start \in Nat /\ bs[i].end \in Nat
      /\ \A i \in 1..n : block[i].start \in Nat /\ block[i].end \in Nat
  <2>1. \A i \in 1..n : block[i] \in P4!Branch
    BY <1>0, <1>2, ElementOfSeq
  <2> QED
    BY <1>4, <2>1 DEF Branch, P4!Branch
<1>6. p = m /\ \A i \in 1..m : bs[i].start = block[i].start
  <2>1. \A a : (\E i \in 1..p : bs[i].start = a) <=> (\E i \in 1..m : block[i].start = a)
    <3>1. \A a : (\E i \in 1..p : bs[i].start = a) <=> a \in BranchStarts(bs)
      BY <1>0 DEF BranchStarts
    <3>2. \A a : (\E i \in 1..m : block[i].start = a) <=> a \in {block[i].start : i \in 1..m}
      OBVIOUS
    <3>3. BranchStarts(bs) = HeardFrom(t, c)
      BY <1>0
    <3>4. HeardFrom(t, c) = {block[i].start : i \in 1..m}
      BY <1>1
    <3> QED
      BY <3>1, <3>2, <3>3, <3>4
  <2>2. \A i \in 1..m : i \in 1..n
    BY <1>2
  <2> DEFINE a == [i \in 1..p |-> bs[i].start]
             d == [i \in 1..m |-> block[i].start]
  <2>3. /\ \A i \in 1..p : a[i] = bs[i].start /\ a[i] \in Nat
        /\ \A i \in 1..m : d[i] = block[i].start /\ d[i] \in Nat
    BY <1>5, <2>2
  <2>4. Rise(a, p) /\ Rise(d, m)
    BY <1>0, <2>2, <2>3 DEF Rise, Rising, Lists
  <2>5. Among(a, p, d, m) /\ Among(d, m, a, p)
    BY <2>1, <2>3 DEF Among
  <2> HIDE DEF a, d
  <2>8. p \in Nat /\ m \in Nat
    BY <1>2, <1>4
  <2>6. p <= m /\ \A i \in 1..p : a[i] = d[i]
    BY <2>4, <2>5, <2>8, BeginsSame
  <2>7. m <= p
    BY <2>4, <2>5, <2>8, BeginsSame
  <2> QED
    BY <1>2, <1>4, <2>3, <2>6, <2>7
<1>7. \A i \in 1..m : bs[i].kind = t[bs[i].start] /\ block[i].kind = t[block[i].start]
  <2>1. \A i \in 1..m : i \in 1..n
    BY <1>2
  <2> QED
    BY <1>0, <1>6, <2>1 DEF BlockIsOf, Lists
<1>8. /\ bs[m].end + 1 = e /\ block[n].end + 1 = e
      /\ \A i \in 1..m-1 : bs[i].end + 1 = bs[i+1].start /\ block[i].end + 1 = block[i+1].start
  <2>1. /\ Tiles(bs, c.line, e) /\ bs # <<>> /\ Tiles(block, c.line, e) /\ block # <<>>
    BY <1>0 DEF BlockIsOf, Lists
  <2>2. \A i \in 1..m-1 : i \in 1..n-1
    BY <1>2
  <2> QED
    BY <1>0, <1>6, <2>1, <2>2 DEF Tiles
<1>9. \A i \in 1..m : bs[i].end = r[i].end
  <2>1. bs[m].end = r[m].end
    BY <1>2, <1>3, <1>5, <1>6, <1>8
  <2>2. ASSUME NEW i \in 1..m-1 PROVE bs[i].end = r[i].end
    <3>1. i \in 1..m /\ i + 1 \in 1..m /\ i \in 1..n /\ i \in 1..p
      BY <1>2, <1>6
    <3>2. bs[i].end + 1 = block[i].end + 1
      BY <1>6, <1>8, <3>1
    <3> QED
      BY <1>3, <1>5, <3>1, <3>2
  <2>3. \A i \in 1..m : i = m \/ i \in 1..m-1
    BY <1>2
  <2> QED
    BY <2>1, <2>2, <2>3
<1> QED
  BY <1>0, <1>3, <1>6, <1>7, <1>9 DEF SameBranches

(* Phase 4 works on the branches that Phase 2 files: of every conditional  *)
(* that is filed, whatever macros and conditions it has, and whatever else *)
(* the file holds, Recorded is what the plugin files.                      *)
THEOREM PhasesAgree == Spec => FiledAsRecorded
<1> DEFINE Agree == \A f \in File : fileBlocks'[f] # fileBlocks[f] =>
              \A blocks, block, defines :
                /\ Lists(block, text[f], Last(conds).line)
                /\ TookBy(block, Last(conds).took, defines)
                /\ P4!Compiled(blocks, block[1].start, defines)
                => SameBranches(Last(fileBlocks'[f]).branches,
                                P4!Recorded(blocks, block, defines))
<1>1. MapperInv /\ HeardInv /\ [Next]_vars => [Agree]_vars
  <2> SUFFICES ASSUME MapperInv, HeardInv, [Next]_vars, NEW f \in File,
                      fileBlocks'[f] # fileBlocks[f], NEW blocks, NEW block, NEW defines,
                      Lists(block, text[f], Last(conds).line),
                      TookBy(block, Last(conds).took, defines),
                      P4!Compiled(blocks, block[1].start, defines)
               PROVE  SameBranches(Last(fileBlocks'[f]).branches,
                                   P4!Recorded(blocks, block, defines))
    BY DEF Agree
  <2>1. PICK t, c, b : t = text[f] /\ c = Last(conds) /\ b = Last(fileBlocks'[f])
    OBVIOUS
  <2>2. /\ c.line \in Nat \ {0} /\ c.took \in Nat /\ TookIs(c, ArmsOf(t, c.line))
        /\ b \in Block /\ BlockIsOf(t, b) /\ b.start = c.line /\ Rising(b.branches)
        /\ BranchStarts(b.branches) = HeardFrom(t, c)
    BY <2>1, Filed
  <2> QED
    BY <2>1, <2>2, SameAsRecorded
<1> QED
  BY <1>1, MapperStarts, MapperInductive, HeardStarts, HeardInductive, PTL
     DEF Spec, FiledAsRecorded
=============================================================================
