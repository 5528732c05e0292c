------------------------- MODULE Correlator_proofs --------------------------
(***************************************************************************)
(* Proofs about Correlator for any projects: any commands, includes and    *)
(* conditionals, nested to any depth, and any reachable lines.             *)
(***************************************************************************)
EXTENDS Correlator, FiniteSetTheorems, WellFoundedInduction, TLAPS

(* What IfdefMapper records of a block: its first branches as they stand in*)
(* the text, but that the last one goes on to the end of the block.        *)
Reading(r, block) ==
  /\ r \in Seq(Branch) /\ Len(r) <= Len(block)
  /\ \A i \in 1..Len(r) :
       /\ r[i].kind = block[i].kind /\ r[i].condition = block[i].condition
       /\ r[i].start = block[i].start
       /\ r[i].end <= Last(block).end
       /\ i < Len(r) => r[i].end = block[i].end
  /\ Len(r) >= 1 => r[1].end = block[1].end

(* The order of the lines of a block.                                      *)
LEMMA BlockOrder ==
  ASSUME NEW block \in Seq(Branch), WellFormed(block)
  PROVE  /\ Len(block) \in Nat /\ 1 \in 1..Len(block) /\ Len(block) \in 1..Len(block)
         /\ Last(block) = block[Len(block)]
         /\ \A i \in 1..Len(block) :
              /\ block[i].start \in Nat /\ block[i].end \in Nat
              /\ block[i].start <= block[i].end
              /\ block[1].start <= block[i].start /\ block[i].end <= Last(block).end
         /\ \A i, j \in 1..Len(block) : i < j => block[i].end < block[j].start
<1>1. Len(block) \in Nat /\ 1 \in 1..Len(block) /\ Len(block) \in 1..Len(block)
  BY DEF WellFormed
<1>2. Last(block) = block[Len(block)]
  BY <1>1 DEF Last
<1>3. \A i \in 1..Len(block) : block[i].start \in Nat /\ block[i].end \in Nat
  <2>1. \A i \in 1..Len(block) : block[i] \in Branch
    BY <1>1
  <2> QED
    BY <2>1 DEF Branch
<1>4. /\ \A i, j \in 1..Len(block) : i < j => block[i].end < block[j].start
      /\ \A i \in 1..Len(block) : block[i].start <= block[i].end
  BY DEF WellFormed
<1>5. ASSUME NEW i \in 1..Len(block)
      PROVE  block[1].start <= block[i].start /\ block[i].end <= block[Len(block)].end
  <2>1. i = 1 \/ 1 < i
    BY <1>1
  <2>2. i = Len(block) \/ i < Len(block)
    BY <1>1
  <2>3. block[1].start <= block[i].start
    BY <1>1, <1>3, <1>4, <2>1
  <2>4. block[i].end <= block[Len(block)].end
    BY <1>1, <1>3, <1>4, <2>2
  <2> QED
    BY <2>3, <2>4
<1> QED
  BY <1>1, <1>2, <1>3, <1>4, <1>5

(* Moving the end of a branch changes nothing else of it.                  *)
LEMMA EndMoved ==
  ASSUME NEW b \in Branch, NEW e \in Nat
  PROVE  /\ [b EXCEPT !.end = e] \in Branch
         /\ [b EXCEPT !.end = e].kind = b.kind /\ [b EXCEPT !.end = e].condition = b.condition
         /\ [b EXCEPT !.end = e].start = b.start /\ [b EXCEPT !.end = e].end = e
BY DEF Branch

(* The first m branches of a block, the last one going on to its end.      *)
UpTo(block, m) ==
  [i \in 1..m |-> IF i = m THEN [block[i] EXCEPT !.end = Last(block).end] ELSE block[i]]

(* The branches on file are those up to the one after the taken branch, or *)
(* all of them if there are no more.                                       *)
LEMMA RecordedBranches ==
  ASSUME NEW blocks, NEW block \in Seq(Branch), WellFormed(block), NEW defines,
         Compiled(blocks, block[1].start, defines)
  PROVE  \E m \in 1..Len(block) :
           /\ m = Len(block) \/ (m - 1 \in 1..Len(block) /\ Taken(block, m - 1, defines))
           /\ Recorded(blocks, block, defines) = UpTo(block, m)
<1> DEFINE heard == {i \in 1..Len(block) : \A j \in 1..i-2 : ~Taken(block, j, defines)}
<1>1. PICK len \in Nat \ {0} : len = Len(block)
  BY DEF WellFormed
<1>2. PICK m \in 1..len :
        heard = 1..m /\ (m = len \/ (m - 1 \in 1..len /\ Taken(block, m - 1, defines)))
  <2>1. CASE \E j \in 1..len-2 : Taken(block, j, defines)
    <3>1. PICK j \in 1..len-2 : Taken(block, j, defines)
      BY <2>1
    <3>2. \A i \in 1..j-1 : ~Taken(block, i, defines)
      BY <3>1 DEF Taken
    <3>3. \A i \in 1..len : (\A n \in 1..i-2 : ~Taken(block, n, defines)) <=> i <= j + 1
      <4> TAKE i \in 1..len
      <4>1. i <= j + 1 => \A n \in 1..i-2 : n \in 1..j-1
        OBVIOUS
      <4>2. ~(i <= j + 1) => j \in 1..i-2
        OBVIOUS
      <4> QED
        BY <3>1, <3>2, <4>1, <4>2
    <3>4. heard = 1..j+1
      BY <1>1, <3>3
    <3>5. j + 1 \in 1..len /\ (j + 1) - 1 = j /\ j \in 1..len
      OBVIOUS
    <3> QED
      BY <3>1, <3>4, <3>5
  <2>2. CASE ~\E j \in 1..len-2 : Taken(block, j, defines)
    <3>1. \A i \in 1..len : \A n \in 1..i-2 : n \in 1..len-2
      OBVIOUS
    <3>2. heard = 1..len
      BY <1>1, <2>2, <3>1
    <3> QED
      BY <3>2
  <2> QED
    BY <2>1, <2>2
<1>3. Cardinality(heard) = m
  <2>1. Cardinality(1..m) = IF 1 > m THEN 0 ELSE m - 1 + 1
    BY FS_Interval
  <2>2. (IF 1 > m THEN 0 ELSE m - 1 + 1) = m
    OBVIOUS
  <2>3. heard = 1..m
    BY <1>2
  <2> HIDE DEF heard
  <2> QED
    BY <2>1, <2>2, <2>3
<1> HIDE DEF heard
<1>4. /\ SubSeq(block, 1, m) \in Seq(Branch) /\ Len(SubSeq(block, 1, m)) = m
      /\ \A i \in 1..m : SubSeq(block, 1, m)[i] = block[i]
  BY <1>1, <1>2
<1>5. PICK s : s = SubSeq(block, 1, m)
  OBVIOUS
<1> DEFINE e == Last(block).end
<1> HIDE DEF e
<1>6. [s EXCEPT ![m].end = e] =
        [i \in 1..m |-> IF i = m THEN [block[i] EXCEPT !.end = e] ELSE block[i]]
  <2>1. m \in 1..m /\ s[m] = block[m] /\ DOMAIN s = 1..m
    BY <1>4, <1>5
  <2>2. PICK moved : moved = [block[m] EXCEPT !.end = e]
    OBVIOUS
  <2>3. [s EXCEPT ![m].end = e] = [s EXCEPT ![m] = moved]
    BY <2>1, <2>2
  <2>4. [s EXCEPT ![m] = moved] = [i \in 1..m |-> IF i = m THEN moved ELSE block[i]]
    BY <1>4, <1>5, <2>1
  <2> QED
    BY <2>2, <2>3, <2>4
<1>7. Recorded(blocks, block, defines) = [s EXCEPT ![m].end = e]
  BY <1>3, <1>5 DEF Recorded, heard, e
<1> HIDE DEF heard
<1>8. Recorded(blocks, block, defines) = UpTo(block, m)
  BY <1>6, <1>7 DEF UpTo, e
<1> QED
  BY <1>1, <1>2, <1>8

(* The mapper of Phase 2 records a block as a reading of it.               *)
LEMMA RecordedIsReading ==
  ASSUME NEW blocks, NEW block \in Seq(Branch), WellFormed(block), NEW defines
  PROVE  Reading(Recorded(blocks, block, defines), block)
<1>1. PICK len \in Nat \ {0} : len = Len(block)
  BY DEF WellFormed
<1>2. CASE ~Compiled(blocks, block[1].start, defines)
  <2>1. Recorded(blocks, block, defines) = <<>>
    BY <1>2 DEF Recorded
  <2> QED
    BY <1>1, <2>1 DEF Reading
<1>3. CASE Compiled(blocks, block[1].start, defines)
  <2>1. PICK m \in 1..Len(block) :
          /\ m = Len(block) \/ (m - 1 \in 1..Len(block) /\ Taken(block, m - 1, defines))
          /\ Recorded(blocks, block, defines) = UpTo(block, m)
    BY <1>3, RecordedBranches
  <2>2. PICK r : r = Recorded(blocks, block, defines)
    OBVIOUS
  <2>3. /\ m \in 1..len /\ (m = len \/ m - 1 \in 1..len)
        /\ r = [i \in 1..m |-> IF i = m THEN [block[i] EXCEPT !.end = Last(block).end]
                               ELSE block[i]]
    BY <1>1, <2>1, <2>2 DEF UpTo
  <2>4. \A i \in 1..m : i \in 1..len /\ block[i] \in Branch
    BY <1>1
  <2>5. /\ Last(block).end \in Nat /\ Last(block) = block[len]
        /\ \A i \in 1..len : block[i].end <= Last(block).end
    BY <1>1, BlockOrder
  <2>6. ASSUME NEW i \in 1..m
        PROVE  /\ r[i] \in Branch
               /\ r[i].kind = block[i].kind /\ r[i].condition = block[i].condition
               /\ r[i].start = block[i].start
               /\ r[i].end = IF i = m THEN Last(block).end ELSE block[i].end
    <3>1. CASE i = m
      <4>1. r[i] = [block[i] EXCEPT !.end = Last(block).end]
        BY <2>3, <3>1
      <4> QED
        BY <2>4, <2>5, <3>1, <4>1, EndMoved
    <3>2. CASE i # m
      BY <2>3, <2>4, <3>2
    <3> QED
      BY <3>1, <3>2
  <2>7. r \in Seq(Branch) /\ Len(r) = m
    <3>1. m \in Nat /\ r = [i \in 1..m |-> r[i]]
      BY <2>3
    <3> QED
      BY <2>6, <3>1
  <2>8. m = 1 => len = 1
    BY <2>3
  <2>9. r[1].end = block[1].end
    BY <2>5, <2>6, <2>8
  <2>10. Reading(r, block)
    BY <1>1, <2>4, <2>5, <2>6, <2>7, <2>9 DEF Reading
  <2> QED
    BY <2>2, <2>10
<1> QED
  BY <1>2, <1>3
-----------------------------------------------------------------------------
(* What a world says of a file.                                            *)
LEMMA WorldTypes ==
  ASSUME world \in Worlds, NEW f \in File
  PROVE  /\ world.commands \in Seq(Command)
         /\ world.blocks[f] \in Seq(Seq(Branch))
         /\ \A k \in 1..Len(world.blocks[f]) :
              world.blocks[f][k] \in Seq(Branch) /\ WellFormed(world.blocks[f][k])
<1>1. world \in World
  BY WorldsAssumption
<1>2. world.commands \in Seq(Command) /\ world.blocks \in [File -> Seq(Seq(Branch))]
  BY <1>1 DEF World
<1>3. world.blocks[f] \in Seq(Seq(Branch))
  BY <1>2
<1>4. \A k \in 1..Len(world.blocks[f]) : world.blocks[f][k] \in Seq(Branch)
  BY <1>3
<1> QED
  BY <1>2, <1>3, <1>4, WorldsAssumption

(* Every block on file is a reading of the block in the text.              *)
LEMMA BlocksAreReadings ==
  ASSUME world \in Worlds, ast = ast_mapping(world), NEW f \in File
  PROVE  /\ DOMAIN ast = File
         /\ ast[f] \in Seq(Seq(Branch)) /\ Len(ast[f]) = Len(world.blocks[f])
         /\ \A k \in 1..Len(ast[f]) : Reading(ast[f][k], world.blocks[f][k])
<1> DEFINE readers == {i \in DOMAIN world.commands : Reads(world.commands[i], world, f)}
           Read(n) == Recorded(world.blocks[f], world.blocks[f][n],
                               InForce(world.commands[Max(readers)]))
<1>1. /\ DOMAIN ast = File
      /\ ast[f] = [n \in 1..Len(world.blocks[f]) |-> IF readers = {} THEN <<>> ELSE Read(n)]
  BY DEF ast_mapping
<1>2. ASSUME NEW k \in 1..Len(world.blocks[f])
      PROVE  Reading(<<>>, world.blocks[f][k]) /\ Reading(Read(k), world.blocks[f][k])
  <2>1. world.blocks[f][k] \in Seq(Branch) /\ WellFormed(world.blocks[f][k])
    BY WorldTypes
  <2>2. Reading(<<>>, world.blocks[f][k])
    BY <2>1 DEF Reading
  <2> QED
    BY <2>1, <2>2, RecordedIsReading
<1> HIDE DEF readers, Read
<1>3. \A k \in 1..Len(world.blocks[f]) : Reading(ast[f][k], world.blocks[f][k])
  BY <1>1, <1>2
<1>4. \A k \in 1..Len(world.blocks[f]) : ast[f][k] \in Seq(Branch)
  BY <1>3 DEF Reading
<1>5. Len(world.blocks[f]) \in Nat
  BY WorldTypes
<1>6. ast[f] \in Seq(Seq(Branch)) /\ Len(ast[f]) = Len(world.blocks[f])
  <2>1. PICK n \in Nat : n = Len(world.blocks[f])
    BY <1>5
  <2>2. PICK a : a = ast[f]
    OBVIOUS
  <2>3. DOMAIN a = 1..n /\ a = [k \in 1..n |-> a[k]]
    BY <1>1, <2>1, <2>2
  <2>4. \A k \in 1..n : a[k] \in Seq(Branch)
    BY <1>4, <2>1, <2>2
  <2>5. a \in Seq(Seq(Branch)) /\ Len(a) = n
    BY <2>3, <2>4
  <2> QED
    BY <2>1, <2>2, <2>5, Zenon
<1> QED
  BY <1>1, <1>3, <1>6
-----------------------------------------------------------------------------
(* In a plain world a command that reads a file has a target among those   *)
(* the file is judged by, and the set of that target is what it defines.   *)
LEMMA BuilderTarget ==
  ASSUME world \in Worlds, PlainWorld, NEW f \in File, NEW c \in Builders(world, f)
  PROVE  /\ c.target \in DOMAIN FileConfigs(world.commands, f)
         /\ FileConfigs(world.commands, f)[c.target] = Names(c.defines)
<1> DEFINE own == {t \in TargetsOf(world.commands) : f \in TargetFiles(world.commands, t)}
           all == ConfigSets(world.commands)
<1>1. c \in Range(world.commands) /\ Reads(c, world, f)
  BY DEF Builders
<1>2. c.target \in TargetsOf(world.commands)
  BY <1>1 DEF TargetsOf
<1>3. all[c.target] = Names(c.defines) /\ DOMAIN all = TargetsOf(world.commands)
  BY <1>1, <1>2 DEF ConfigSets, PlainWorld, UniformTargets
<1>4. CASE c.file = f
  <2>1. f \in TargetFiles(world.commands, c.target)
    BY <1>1, <1>4 DEF TargetFiles, CommandsOf
  <2>2. c.target \in own
    BY <1>2, <2>1
  <2> QED
    BY <1>3, <2>2 DEF FileConfigs
<1>5. CASE <<c.file, f>> \in world.includes
  <2>1. \A d \in Range(world.commands) : d.file # f
    <3> TAKE d \in Range(world.commands)
    <3>1. c.file \in File
      <4>1. world.commands \in Seq(Command)
        BY WorldTypes
      <4>2. c \in Command
        BY <1>1, <4>1 DEF Range
      <4> QED
        BY <4>2 DEF Command
    <3>2. <<c.file, d.file>> \notin world.includes
      BY <3>1 DEF PlainWorld, OnlyHeadersIncluded
    <3> QED
      BY <1>5, <3>2
  <2>2. own = {}
    BY <2>1 DEF TargetFiles, CommandsOf
  <2> QED
    BY <1>2, <1>3, <2>2 DEF FileConfigs
<1> QED
  BY <1>1, <1>4, <1>5 DEF Reads

(* In a plain world a command takes a presence condition at its word.      *)
LEMMA OpeningHolds ==
  ASSUME world \in Worlds, PlainWorld, NEW f \in File, NEW c \in Builders(world, f),
         NEW k \in 1..Len(world.blocks[f])
  PROVE  LET b == world.blocks[f][k][1]
         IN  /\ b.kind \in {"ifdef", "ifndef", "if"}
             /\ Holds(b, InForce(c)) <=>
                  IF b.kind = "ifndef" THEN b.condition \notin Names(c.defines)
                  ELSE b.condition \in Names(c.defines)
<1> DEFINE block == world.blocks[f][k]
<1>1. block \in Seq(Branch) /\ WellFormed(block)
  BY WorldTypes
<1>2. block[1].kind \in {"ifdef", "ifndef", "if"} /\ 1 \in 1..Len(block)
  BY <1>1 DEF WellFormed
<1>3. block[1].condition \notin Expr
  <2>1. <<f, k, 1>> \in Branches(world.blocks)
    BY <1>2 DEF Branches
  <2> QED
    BY <2>1 DEF PlainWorld, PresenceConditions
<1>4. InForce(c) = c.defines /\ Nonzero(c.defines) = Names(c.defines)
  <2>1. c \in Range(world.commands)
    BY DEF Builders
  <2>2. c.headerDefines = {} /\ Nonzero(c.defines) = Names(c.defines)
    BY <2>1 DEF PlainWorld, MacrosFromCommands, PresenceConditions
  <2> QED
    BY <2>2 DEF InForce
<1> QED
  BY <1>2, <1>3, <1>4 DEF Holds

(* Where the lines of a recorded branch lie in the text.                   *)
LEMMA Positions ==
  ASSUME NEW block \in Seq(Branch), WellFormed(block), NEW r, Reading(r, block),
         NEW i \in 1..Len(r), NEW line \in Body(r[i])
  PROVE  /\ i \in 1..Len(block)
         /\ line \in block[1].start + 1 .. Last(block).end
         /\ \A j \in 1..Len(block) : line \in Body(block[j]) => (i = 1 <=> j = 1)
<1>1. r \in Seq(Branch) /\ Len(r) <= Len(block)
  BY DEF Reading
<1>2. Len(r) \in Nat /\ Len(block) \in Nat
  BY <1>1
<1>3. i \in Nat /\ i >= 1 /\ i <= Len(r) /\ i <= Len(block)
  BY <1>1, <1>2
<1>4. i \in 1..Len(block) /\ 1 \in 1..Len(block)
  BY <1>2, <1>3
<1>5. /\ r[i].start = block[i].start /\ r[i].end <= Last(block).end
      /\ r[1].end = block[1].end
  BY <1>2, <1>3 DEF Reading
<1>6. \A j \in 1..Len(block) : block[j].start \in Nat /\ block[j].end \in Nat
  <2>1. \A j \in 1..Len(block) : block[j] \in Branch
    BY <1>2
  <2> QED
    BY <2>1 DEF Branch
<1>7. r[i].start \in Nat /\ r[i].end \in Nat
  <2>1. r[i] \in Branch
    BY <1>1
  <2> QED
    BY <2>1 DEF Branch
<1>8. Last(block) = block[Len(block)] /\ Len(block) \in 1..Len(block)
  BY <1>2, <1>4 DEF Last
<1>9. line \in Nat /\ r[i].start < line /\ line <= r[i].end
  BY <1>7 DEF Body
<1>10. \A j, k \in 1..Len(block) : j < k => block[j].end < block[k].start
  BY DEF WellFormed
<1>11. \A j \in 1..Len(block) : block[j].start <= block[j].end
  BY DEF WellFormed
<1>12. block[1].start <= block[i].start
  <2>1. CASE i = 1
    BY <1>4, <1>6, <2>1
  <2>2. CASE i > 1
    <3>1. block[1].end < block[i].start /\ block[1].start <= block[1].end
      BY <1>4, <1>10, <1>11, <2>2
    <3> QED
      BY <1>4, <1>6, <3>1
  <2> QED
    BY <1>3, <2>1, <2>2
<1>13. line \in block[1].start + 1 .. Last(block).end
  <2> DEFINE s == block[1].start
             e == Last(block).end
  <2>1. s \in Nat /\ e \in Nat
    BY <1>4, <1>6, <1>8
  <2>2. s < line /\ line <= e
    BY <1>4, <1>5, <1>6, <1>7, <1>9, <1>12, <2>1
  <2> HIDE DEF s, e
  <2>3. line \in s + 1 .. e
    BY <1>9, <2>1, <2>2
  <2> QED
    BY <2>3 DEF s, e
<1>14. ASSUME NEW j \in 1..Len(block), line \in Body(block[j])
       PROVE  i = 1 <=> j = 1
  <2>1. j \in Nat /\ j >= 1 /\ block[j].start < line /\ line <= block[j].end
    BY <1>2, <1>6, <1>9, <1>14 DEF Body
  <2>2. ASSUME i = 1, j > 1 PROVE FALSE
    <3>1. block[1].end < block[j].start
      BY <1>4, <1>10, <2>2
    <3>2. line <= block[1].end
      BY <1>5, <1>9, <2>2
    <3> QED
      BY <1>4, <1>6, <1>9, <2>1, <3>1, <3>2
  <2>3. ASSUME i > 1, j = 1 PROVE FALSE
    <3>1. block[1].end < block[i].start
      BY <1>4, <1>10, <2>3
    <3>2. line <= block[1].end
      BY <2>1, <2>3
    <3> QED
      BY <1>4, <1>5, <1>6, <1>9, <3>1, <3>2
  <2> QED
    BY <1>3, <2>1, <2>2, <2>3
<1> QED
  BY <1>4, <1>13, <1>14

(* A branch on file has a place in the file's blocks.                      *)
LEMMA WhereABranchIs ==
  ASSUME NEW map, NEW b \in Branches(map)
  PROVE  \E f \in File : \E k \in 1..Len(map[f]) : \E i \in 1..Len(map[f][k]) : b = <<f, k, i>>
<1>1. PICK f \in File :
        b \in UNION {{<<f, k, i>> : i \in 1..Len(map[f][k])} : k \in 1..Len(map[f])}
  BY Zenon DEF Branches
<1>2. PICK k \in 1..Len(map[f]) : b \in {<<f, k, i>> : i \in 1..Len(map[f][k])}
  BY <1>1, Zenon
<1>3. PICK i \in 1..Len(map[f][k]) : b = <<f, k, i>>
  BY <1>2, Zenon
<1> QED
  BY <1>3, Zenon

Active(b) ==
  ActiveConfigs(BranchAt(<<b[1], b[2], 1>>), BranchAt(b), FileConfigs(world.commands, b[1]))

(* The heart of HIGH.  A command that compiled a line of the branch would  *)
(* have a target among those the file is judged by.  No target turns the   *)
(* branch on, so if it is the first of its block, that command does not    *)
(* take it; if it is a later one, the command takes the first instead.     *)
(* Either way the lines it compiles lie on the other side of the first     *)
(* branch's end, which is the one end that the mapping leaves alone.       *)
LEMMA InactiveIsNotCompiled ==
  ASSUME world \in Worlds, ast = ast_mapping(world), PlainWorld,
         NEW b \in Branches(ast), Active(b) = {}
  PROVE  NeverCompiled(b)
<1>1. PICK f \in File : \E k \in 1..Len(ast[f]) : \E i \in 1..Len(ast[f][k]) : b = <<f, k, i>>
  BY WhereABranchIs
<1>2. PICK k \in 1..Len(ast[f]) : \E i \in 1..Len(ast[f][k]) : b = <<f, k, i>>
  BY <1>1, Zenon
<1>3. PICK i \in 1..Len(ast[f][k]) : b = <<f, k, i>>
  BY <1>2
<1>4. PICK block, r : block = world.blocks[f][k] /\ r = ast[f][k]
  OBVIOUS
<1>5. k \in 1..Len(world.blocks[f]) /\ Reading(r, block)
  BY <1>4, BlocksAreReadings
<1>6. block \in Seq(Branch) /\ WellFormed(block)
  BY <1>4, <1>5, WorldTypes
<1>7. i \in 1..Len(r) /\ BranchAt(b) = r[i]
  BY <1>3, <1>4 DEF BranchAt
<1> SUFFICES ASSUME NEW line \in Body(r[i]), NEW c \in Builders(world, f),
                    Compiled(world.blocks[f], line, InForce(c))
             PROVE  FALSE
  BY <1>3, <1>7 DEF NeverCompiled, CompiledLine, Lines
<1>8. /\ i \in 1..Len(block)
      /\ line \in block[1].start + 1 .. Last(block).end
      /\ \A j \in 1..Len(block) : line \in Body(block[j]) => (i = 1 <=> j = 1)
  BY <1>5, <1>6, <1>7, Positions
<1>9. PICK j \in 1..Len(block) : Taken(block, j, InForce(c)) /\ line \in Body(block[j])
  BY <1>4, <1>5, <1>8 DEF Compiled
<1>10. i = 1 <=> j = 1
  BY <1>8, <1>9
<1>11. /\ r[i].kind = block[i].kind /\ r[i].condition = block[i].condition
       /\ r[1].kind = block[1].kind /\ r[1].condition = block[1].condition
  <2>1. Len(r) \in Nat /\ 1 \in 1..Len(r)
    BY <1>5, <1>7 DEF Reading
  <2> QED
    BY <1>5, <1>7, <2>1 DEF Reading
<1>12. i # 1 => block[i].kind \in {"elif", "else"}
  <2>1. Len(block) \in Nat
    BY <1>6
  <2> QED
    BY <1>6, <1>8, <2>1 DEF WellFormed
<1> DEFINE configs == FileConfigs(world.commands, f)
           condition == block[1].condition
<1>13. c.target \in DOMAIN configs /\ configs[c.target] = Names(c.defines)
  BY BuilderTarget
<1>14. /\ block[1].kind \in {"ifdef", "ifndef", "if"}
       /\ Holds(block[1], InForce(c)) <=>
            IF block[1].kind = "ifndef" THEN condition \notin Names(c.defines)
            ELSE condition \in Names(c.defines)
  BY <1>4, <1>5, OpeningHolds
<1>15. ActiveConfigs(r[1], r[i], configs) = {}
  BY <1>3, <1>4 DEF Active, BranchAt
<1>16. /\ configs_defining(condition, configs) = {} => condition \notin Names(c.defines)
       /\ configs_not_defining(condition, configs) = {} => condition \in Names(c.defines)
  BY <1>13 DEF configs_defining, configs_not_defining
<1> HIDE DEF configs
<1>17. CASE i = 1
  <2>1. ~Holds(block[1], InForce(c))
    BY <1>11, <1>14, <1>15, <1>16, <1>17 DEF ActiveConfigs
  <2> QED
    BY <1>9, <1>10, <1>17, <2>1 DEF Taken
<1>18. CASE i # 1
  <2>1. Holds(block[1], InForce(c))
    BY <1>11, <1>12, <1>14, <1>15, <1>16, <1>18 DEF ActiveConfigs
  <2>2. Len(block) \in Nat /\ j \in 1..Len(block) /\ j # 1
    BY <1>6, <1>10, <1>18
  <2>3. 1 \in 1..j-1
    BY <2>2
  <2> QED
    BY <1>9, <2>1, <2>3 DEF Taken
<1> QED
  BY <1>17, <1>18
-----------------------------------------------------------------------------
Finding(b) == analyze_branch(b, FileConfigs(world.commands, b[1]))

(* What is written of the findings.                                        *)
Figures(findings) ==
  [total |-> Cardinality(findings), high |-> Cardinality(High(findings)),
   loc |-> LoC(findings), highLoc |-> LoC(High(findings)), written |-> TRUE]

(* There is one finding of a branch or none.                               *)
LEMMA OneFinding == ASSUME NEW b PROVE Finding(b) = {} \/ \E d : Finding(b) = {d}
BY Zenon DEF Finding, analyze_branch

(* What Phase 4 keeps true.  A finding is that of a branch it has looked   *)
(* at, a branch it has looked at has all its findings in the list.         *)
IInv ==
  /\ world \in Worlds /\ ast = ast_mapping(world)
  /\ todo \subseteq Branches(ast)
  /\ \A d \in dead : \E b \in Branches(ast) \ todo : d \in Finding(b)
  /\ \A b \in Branches(ast) \ todo : Finding(b) \subseteq dead
  /\ IsFiniteSet(dead)
  /\ output.written => todo = {}
  /\ output = IF output.written THEN Figures(dead) ELSE NoOutput

(* The invariant the theorems below follow from.                           *)
LEMMA Inductive == Spec => []IInv
<1>1. Init => IInv
  BY FS_EmptySet DEF Init, IInv, NoOutput
<1>2. ASSUME UNCHANGED <<world, ast>>
      PROVE  \A b : Finding(b)' = Finding(b)
  BY <1>2 DEF Finding, analyze_branch, BranchAt, Covered, Lines
<1>3. IInv /\ [Next]_vars => IInv'
  <2> SUFFICES ASSUME IInv, [Next]_vars PROVE IInv'
    OBVIOUS
  <2>1. CASE Analyze
    <3>1. PICK b \in todo :
            /\ dead' = dead \cup Finding(b)
            /\ todo' = todo \ {b}
            /\ UNCHANGED <<world, ast, output>>
      BY <2>1 DEF Analyze, Finding
    <3>2. \A x : Finding(x)' = Finding(x)
      BY <1>2, <3>1
    <3>3. IsFiniteSet(dead')
      <4>1. IsFiniteSet(dead)
        BY DEF IInv
      <4>2. CASE Finding(b) = {}
        BY <3>1, <4>1, <4>2
      <4>3. CASE \E d : Finding(b) = {d}
        BY <3>1, <4>1, <4>3, FS_AddElement
      <4> QED
        BY <4>2, <4>3, OneFinding
    <3>4. ~output.written /\ output = NoOutput /\ b \in Branches(ast)
      BY DEF IInv
    <3>5. \A d \in dead' : \E x \in Branches(ast) \ todo' : d \in Finding(x)
      <4> TAKE d \in dead'
      <4>1. CASE d \in dead
        BY <3>1, <4>1 DEF IInv
      <4>2. CASE d \in Finding(b)
        BY <3>1, <3>4, <4>2
      <4> QED
        BY <3>1, <4>1, <4>2
    <3>6. \A x \in Branches(ast) \ todo' : Finding(x) \subseteq dead'
      BY <3>1 DEF IInv
    <3>7. todo' \subseteq Branches(ast)
      BY <3>1 DEF IInv
    <3> QED
      BY <3>1, <3>2, <3>3, <3>4, <3>5, <3>6, <3>7 DEF IInv
  <2>2. CASE Write
    <3>1. UNCHANGED <<world, ast, todo, dead>> /\ todo = {} /\ output' = Figures(dead)
      BY <2>2 DEF Write, Figures
    <3>2. \A x : Finding(x)' = Finding(x)
      BY <1>2, <3>1
    <3>3. output' = Figures(dead') /\ output'.written
      BY <3>1 DEF Figures
    <3> QED
      BY <3>1, <3>2, <3>3 DEF IInv
  <2>3. CASE UNCHANGED vars
    <3>1. UNCHANGED <<world, ast, todo, dead, output>>
      BY <2>3 DEF vars
    <3>2. \A x : Finding(x)' = Finding(x)
      BY <1>2, <3>1
    <3> QED
      BY <3>1, <3>2 DEF IInv
  <2> QED
    BY <2>1, <2>2, <2>3 DEF Next
<1> QED
  BY <1>1, <1>3, PTL DEF Spec

(* What a finding says of its branch.                                      *)
LEMMA WhatAFindingSays ==
  ASSUME NEW b, NEW d \in Finding(b)
  PROVE  /\ d.branch = b
         /\ d.confidence = "HIGH" => Active(b) = {}
         /\ Active(b) = {} \/ ~Covered(b)
BY DEF Finding, analyze_branch, Active

(* HIGH means safe to remove: in a plain world no command compiles a line  *)
(* that a HIGH finding spans.                                              *)
THEOREM HighMeansDead == Spec => []HighIsSafe
<1>1. IInv => HighIsSafe
  <2> SUFFICES ASSUME IInv, PlainWorld, NEW d \in High(dead) PROVE NeverCompiled(d.branch)
    BY DEF HighIsSafe
  <2>1. PICK b \in Branches(ast) : d \in Finding(b)
    BY DEF IInv, High
  <2>2. d.branch = b /\ Active(b) = {}
    BY <2>1, WhatAFindingSays DEF High
  <2> QED
    BY <2>2, InactiveIsNotCompiled DEF IInv
<1> QED
  BY <1>1, Inductive, PTL

(* Code that Phase 3 found reachable is in no finding: if the branch is    *)
(* inactive no line of it can be, since what is reachable was compiled.    *)
THEOREM ReachableIsNotDead == Spec => []CoveredIsAlive
<1>1. IInv => CoveredIsAlive
  <2> SUFFICES ASSUME IInv, PlainWorld, LinesAreCompiled, NEW d \in dead
               PROVE  Lines(d.branch) \cap world.lines = {}
    BY DEF CoveredIsAlive
  <2>1. PICK b \in Branches(ast) : d \in Finding(b)
    BY DEF IInv
  <2>2. d.branch = b /\ (Active(b) = {} \/ ~Covered(b))
    BY <2>1, WhatAFindingSays
  <2>3. CASE Active(b) = {}
    <3>1. NeverCompiled(b)
      BY <2>3, InactiveIsNotCompiled DEF IInv
    <3> QED
      BY <2>2, <3>1 DEF LinesAreCompiled, NeverCompiled
  <2>4. CASE ~Covered(b)
    BY <2>2, <2>4 DEF Covered
  <2> QED
    BY <2>2, <2>3, <2>4
<1> QED
  BY <1>1, Inductive, PTL

(* What was mapped, has a line in it and is never compiled is found: with  *)
(* no target to be active in, or no line that is taken for reachable.      *)
LEMMA DeadBranchIsFound ==
  ASSUME IInv, output.written, NEW b \in Branches(ast), NeverCompiled(b), Lines(b) # {},
         Active(b) = {} \/ LinesAreCompiled
  PROVE  \E d \in dead : d.branch = b /\ (Active(b) = {} => d.confidence = "HIGH")
<1>1. Active(b) = {} \/ ~Covered(b)
  <2> SUFFICES ASSUME LinesAreCompiled PROVE ~Covered(b)
    OBVIOUS
  <2>1. \A l \in Lines(b) : l \notin world.lines
    BY DEF LinesAreCompiled, NeverCompiled
  <2> QED
    BY <2>1 DEF Covered
<1>2. BranchAt(b).start \in Nat /\ BranchAt(b).end \in Nat
  <2>1. PICK f \in File : \E k \in 1..Len(ast[f]) : \E i \in 1..Len(ast[f][k]) : b = <<f, k, i>>
    BY WhereABranchIs
  <2>2. PICK k \in 1..Len(ast[f]) : \E i \in 1..Len(ast[f][k]) : b = <<f, k, i>>
    BY <2>1
  <2>3. PICK i \in 1..Len(ast[f][k]) : b = <<f, k, i>>
    BY <2>2
  <2>4. ast[f] \in Seq(Seq(Branch))
    BY BlocksAreReadings DEF IInv
  <2>5. ast[f][k] \in Seq(Branch)
    BY <2>4
  <2>6. ast[f][k][i] \in Branch
    BY <2>5
  <2> QED
    BY <2>3, <2>6 DEF BranchAt, Branch
<1>3. ~Degenerate(BranchAt(b))
  <2>1. BranchAt(b).start + 1 .. BranchAt(b).end # {}
    BY DEF Lines, Body
  <2>2. \A s, e \in Nat : s + 1 .. e # {} => ~(s >= e)
    OBVIOUS
  <2> QED
    BY <1>2, <2>1, <2>2 DEF Degenerate
<1>4. \E d \in Finding(b) : d.branch = b /\ (Active(b) = {} => d.confidence = "HIGH")
  <2>1. PICK loc, configs :
          Finding(b) = {[branch |-> b, loc |-> loc,
                         confidence |-> IF Active(b) = {} THEN "HIGH" ELSE "MEDIUM",
                         configs |-> configs]}
    BY <1>1, <1>3, Zenon DEF Finding, analyze_branch, Active
  <2> QED
    BY <2>1
<1>5. Finding(b) \subseteq dead
  BY DEF IInv
<1> QED
  BY <1>4, <1>5

(* Nothing mapped escapes: whatever the project, a branch with a line in   *)
(* it that no command compiles is in the report, as long as Phase 3 takes  *)
(* no line for reachable that was not compiled.                            *)
THEOREM DeadIsInTheReport == Spec => []DeadIsReported
<1>1. IInv => DeadIsReported
  BY DeadBranchIsFound DEF DeadIsReported
<1> QED
  BY <1>1, Inductive, PTL

-----------------------------------------------------------------------------
(* No directive of a block is on the line another opens at.                *)
LEMMA LinesHoldOneDirective ==
  ASSUME NEW one \in Seq(Branch), WellFormed(one), NEW other \in Seq(Branch), WellFormed(other),
         Apart(one, other) \/ Apart(other, one), NEW i \in 1..Len(one)
  PROVE  one[i].start # other[1].start
<1>1. /\ Len(one) \in Nat /\ 1 \in 1..Len(one) /\ Len(one) \in 1..Len(one)
      /\ \A j \in 1..Len(one) :
           /\ one[j].start \in Nat /\ one[j].end \in Nat /\ one[j].start <= one[j].end
           /\ one[1].start <= one[j].start /\ one[j].end <= Last(one).end
      /\ \A j, k \in 1..Len(one) : j < k => one[j].end < one[k].start
      /\ Last(one) = one[Len(one)]
  BY BlockOrder
<1>2. /\ 1 \in 1..Len(other) /\ Len(other) \in 1..Len(other)
      /\ \A j \in 1..Len(other) :
           /\ other[j].start \in Nat /\ other[j].end \in Nat /\ other[j].start <= other[j].end
           /\ other[1].start <= other[j].start /\ other[j].end <= Last(other).end
      /\ Last(other) = other[Len(other)]
  BY BlockOrder
<1>3. Last(one).end \in Nat /\ Last(other).end \in Nat
  BY <1>1, <1>2
<1> SUFFICES ASSUME one[i].start = other[1].start PROVE FALSE
  OBVIOUS
<1>4. CASE Within(other, one)
  <2>1. PICK j \in 1..Len(one) : one[j].start < other[1].start /\ Last(other).end < one[j].end
    BY <1>4 DEF Within
  <2>2. j # i /\ (j < i \/ i < j)
    BY <1>1, <1>2, <2>1
  <2>3. CASE j < i
    <3>1. one[j].end < one[i].start
      BY <1>1, <2>3
    <3>2. other[1].start <= Last(other).end
      BY <1>2, <1>3
    <3> QED
      BY <1>1, <1>2, <1>3, <2>1, <3>1, <3>2
  <2>4. CASE i < j
    <3>1. one[i].end < one[j].start /\ one[i].start <= one[i].end
      BY <1>1, <2>4
    <3> QED
      BY <1>1, <2>1, <3>1
  <2> QED
    BY <2>2, <2>3, <2>4
<1>5. CASE Last(other).end < one[1].start
  <2>1. PICK x, y, s, z \in Nat :
          x = other[1].start /\ y = Last(other).end /\ s = one[1].start /\ z = one[i].start
    BY <1>1, <1>2, <1>3
  <2>2. x <= y /\ s <= z
    BY <1>1, <1>2, <2>1
  <2>3. y < s /\ z = x
    BY <1>5, <2>1
  <2> QED
    BY <2>2, <2>3
<1>6. CASE Within(one, other)
  <2>1. PICK j \in 1..Len(other) : other[j].start < one[1].start
    BY <1>6 DEF Within
  <2>2. other[1].start <= other[j].start /\ one[1].start <= one[i].start
    BY <1>1, <1>2
  <2> QED
    BY <1>1, <1>2, <2>1, <2>2
<1>7. CASE Last(one).end < other[1].start
  <2>1. PICK s, e, l \in Nat : s = one[i].start /\ e = one[i].end /\ l = Last(one).end
    BY <1>1, <1>3
  <2>2. s <= e /\ e <= l
    BY <1>1, <2>1
  <2>3. l < s
    BY <1>7, <2>1
  <2> QED
    BY <2>2, <2>3
<1> QED
  BY <1>4, <1>5, <1>6, <1>7 DEF Apart

(* In a plain world, what is recorded of a block that has no elif on file  *)
(* says of a command's target just what the command does: where the target *)
(* is active the command takes the branch, which is the whole of it.       *)
LEMMA ActiveIsTaken ==
  ASSUME world \in Worlds, ast = ast_mapping(world), PlainWorld,
         NEW f \in File, NEW k \in 1..Len(ast[f]), NEW i \in 1..Len(ast[f][k]),
         \A j \in 1..Len(ast[f][k]) : ast[f][k][j].kind # "elif",
         NEW c \in Builders(world, f), c.target \in Active(<<f, k, i>>)
  PROVE  /\ i \in 1..Len(world.blocks[f][k])
         /\ Taken(world.blocks[f][k], i, InForce(c))
         /\ Body(ast[f][k][i]) \subseteq Body(world.blocks[f][k][i])
<1>1. PICK block, r : block = world.blocks[f][k] /\ r = ast[f][k]
  OBVIOUS
<1>2. k \in 1..Len(world.blocks[f]) /\ Reading(r, block)
  BY <1>1, BlocksAreReadings
<1>3. block \in Seq(Branch) /\ WellFormed(block)
  BY <1>1, <1>2, WorldTypes
<1>4. /\ Len(r) \in Nat /\ Len(block) \in Nat /\ Len(r) <= Len(block)
      /\ i \in 1..Len(r) /\ \A j \in 1..Len(r) : r[j].kind # "elif"
  <2>1. r \in Seq(Branch) /\ Len(r) <= Len(block)
    BY <1>2 DEF Reading
  <2>2. Len(r) \in Nat /\ Len(block) \in Nat
    BY <1>3, <2>1
  <2>3. i \in 1..Len(r) /\ \A j \in 1..Len(r) : r[j].kind # "elif"
    BY <1>1
  <2> QED
    BY <2>1, <2>2, <2>3
<1>5. /\ i \in 1..Len(block) /\ 1 \in 1..Len(r)
      /\ \A j \in 1..Len(r) : j \in 1..Len(block)
  BY <1>4
<1>6. /\ \A j \in 1..Len(r) : /\ r[j].kind = block[j].kind /\ r[j].condition = block[j].condition
                              /\ r[j].start = block[j].start /\ r[j].end <= Last(block).end
      /\ r[1].end = block[1].end
  BY <1>2, <1>4 DEF Reading
<1> DEFINE configs == FileConfigs(world.commands, f)
           condition == block[1].condition
<1>7. c.target \in DOMAIN configs /\ configs[c.target] = Names(c.defines)
  BY BuilderTarget
<1>8. /\ block[1].kind \in {"ifdef", "ifndef", "if"}
      /\ Holds(block[1], InForce(c)) <=>
           IF block[1].kind = "ifndef" THEN condition \notin Names(c.defines)
           ELSE condition \in Names(c.defines)
  BY <1>1, <1>2, OpeningHolds
<1>9. c.target \in ActiveConfigs(r[1], r[i], configs)
  BY <1>1 DEF Active, BranchAt
<1>10. /\ c.target \in configs_defining(condition, configs)
             <=> condition \in Names(c.defines)
       /\ c.target \in configs_not_defining(condition, configs)
             <=> condition \notin Names(c.defines)
  BY <1>7 DEF configs_defining, configs_not_defining
<1> HIDE DEF configs
<1>11. r[1].kind = block[1].kind /\ r[1].condition = condition
  BY <1>5, <1>6
<1> HIDE DEF condition
<1>12. CASE i = 1
  <2>1. Holds(block[1], InForce(c))
    BY <1>8, <1>9, <1>10, <1>11, <1>12 DEF ActiveConfigs
  <2>2. 1..i-1 = {}
    BY <1>12
  <2>3. Taken(block, i, InForce(c))
    BY <1>12, <2>1, <2>2 DEF Taken
  <2>4. Body(r[i]) = Body(block[i])
    BY <1>5, <1>6, <1>12 DEF Body
  <2> QED
    BY <1>1, <1>5, <2>3, <2>4
<1>13. CASE i # 1
  <2>1. \A j \in 2..Len(r) : block[j].kind = "else" /\ j = Len(block)
    <3> TAKE j \in 2..Len(r)
    <3>1. j \in 2..Len(block) /\ j \in 1..Len(block) /\ j \in 1..Len(r)
      BY <1>4
    <3>2. block[j].kind \in {"elif", "else"} /\ block[j].kind # "elif"
      <4>1. block[j].kind \in {"elif", "else"}
        BY <1>3, <3>1 DEF WellFormed
      <4>2. r[j].kind # "elif" /\ r[j].kind = block[j].kind
        BY <1>4, <1>6, <3>1
      <4> QED
        BY <4>1, <4>2
    <3> QED
      BY <1>3, <3>1, <3>2 DEF WellFormed
  <2>2. 2 \in 2..Len(r) /\ i \in 2..Len(r)
    BY <1>4, <1>13
  <2>3. i = 2 /\ Len(block) = 2 /\ block[i].kind = "else"
    BY <2>1, <2>2
  <2>4. r[i].kind = "else"
    BY <1>4, <1>6, <2>3
  <2>5. ~Holds(block[1], InForce(c))
    BY <1>8, <1>9, <1>10, <1>11, <2>4 DEF ActiveConfigs
  <2>6. \A j \in 1..i-1 : j = 1
    BY <2>3
  <2>7. Taken(block, i, InForce(c))
    BY <2>3, <2>5, <2>6 DEF Taken, Holds
  <2>8. r[i].start = block[i].start /\ r[i].end <= block[i].end
    BY <1>4, <1>6, <2>3 DEF Last
  <2>9. r[i].end \in Nat /\ block[i].end \in Nat /\ block[i].start \in Nat
    <3>1. r[i] \in Branch /\ block[i] \in Branch
      BY <1>2, <1>3, <1>4, <1>5 DEF Reading
    <3> QED
      BY <3>1 DEF Branch
  <2>10. Body(r[i]) \subseteq Body(block[i])
    <3>1. PICK s, e, m \in Nat : s = block[i].start /\ e = r[i].end /\ m = block[i].end
      BY <2>9
    <3>2. s + 1 .. e \subseteq s + 1 .. m
      BY <2>8, <3>1
    <3> QED
      BY <2>8, <3>1, <3>2 DEF Body
  <2> QED
    BY <1>1, <1>5, <2>7, <2>10
<1> QED
  BY <1>12, <1>13

(* A branch of a source file that stands in no other block, and that no    *)
(* command compiles, is active in no target: the command of a target where *)
(* it is active would compile its first line.                              *)
LEMMA PlainlyDeadIsInactive ==
  ASSUME world \in Worlds, ast = ast_mapping(world), PlainWorld,
         NEW b \in Branches(ast), TopLevel(b),
         \A i \in 1..Len(ast[b[1]][b[2]]) : ast[b[1]][b[2]][i].kind # "elif",
         \E c \in Range(world.commands) : c.file = b[1],
         NeverCompiled(b), Lines(b) # {}
  PROVE  Active(b) = {}
<1>1. PICK f \in File : \E k \in 1..Len(ast[f]) : \E i \in 1..Len(ast[f][k]) : b = <<f, k, i>>
  BY WhereABranchIs
<1>2. PICK k \in 1..Len(ast[f]) : \E i \in 1..Len(ast[f][k]) : b = <<f, k, i>>
  BY <1>1, Zenon
<1>3. PICK i \in 1..Len(ast[f][k]) : b = <<f, k, i>>
  BY <1>2
<1>4. PICK blocks, r : blocks = world.blocks[f] /\ r = ast[f][k]
  OBVIOUS
<1>5. k \in 1..Len(blocks) /\ Reading(r, blocks[k])
  BY <1>4, BlocksAreReadings
<1>6. \A n \in 1..Len(blocks) : blocks[n] \in Seq(Branch) /\ WellFormed(blocks[n])
  BY <1>4, WorldTypes
<1> SUFFICES ASSUME NEW t \in Active(b) PROVE FALSE
  OBVIOUS
<1>7. PICK c \in Builders(world, f) : c.target = t
  <2>1. t \in DOMAIN FileConfigs(world.commands, f)
    <3> DEFINE configs == FileConfigs(world.commands, f)
    <3>1. r[i].kind \in {"ifdef", "ifndef", "if", "elif", "else"}
      <4>1. r \in Seq(Branch) /\ i \in 1..Len(r)
        BY <1>4, <1>5 DEF Reading
      <4>2. r[i] \in Branch
        BY <4>1
      <4> QED
        BY <4>2 DEF Branch
    <3>2. t \in ActiveConfigs(r[1], r[i], configs)
      BY <1>3, <1>4 DEF Active, BranchAt
    <3> HIDE DEF configs
    <3>3. t \in DOMAIN configs
      BY <3>1, <3>2 DEF ActiveConfigs, configs_defining, configs_not_defining
    <3> QED
      BY <3>3 DEF configs
  <2> DEFINE own == {x \in TargetsOf(world.commands) : f \in TargetFiles(world.commands, x)}
  <2>2. PICK d \in Range(world.commands) : d.file = f
    BY <1>3
  <2>3. d.target \in own
    BY <2>2 DEF TargetsOf, TargetFiles, CommandsOf
  <2>4. t \in own
    BY <2>1, <2>3 DEF FileConfigs
  <2>5. \E x \in Range(world.commands) : x.target = t /\ x.file = f
    BY <2>4 DEF TargetFiles, CommandsOf
  <2> QED
    BY <2>5 DEF Builders, Reads
<1>8. /\ i \in 1..Len(blocks[k])
      /\ Taken(blocks[k], i, InForce(c))
      /\ Body(r[i]) \subseteq Body(blocks[k][i])
  BY <1>3, <1>4, <1>7, ActiveIsTaken
<1>9. PICK s, e \in Nat : /\ s = r[i].start /\ e = r[i].end /\ s = blocks[k][i].start
  <2>1. i \in 1..Len(r) /\ r \in Seq(Branch) /\ r[i].start = blocks[k][i].start
    BY <1>4, <1>5 DEF Reading
  <2>2. r[i] \in Branch
    BY <2>1
  <2> QED
    BY <2>1, <2>2 DEF Branch
<1>10. s + 1 \in Body(r[i]) /\ <<f, s + 1>> \in Lines(b)
  <2>1. Lines(b) = {f} \X Body(r[i]) /\ Body(r[i]) = s + 1 .. e
    BY <1>3, <1>4, <1>9 DEF Lines, BranchAt, Body
  <2>2. s + 1 .. e # {}
    BY <2>1
  <2>3. s + 1 \in s + 1 .. e
    BY <2>2
  <2> QED
    BY <2>1, <2>3
<1>11. ASSUME NEW n \in 1..Len(blocks), s + 1 \in blocks[n][1].start + 1 .. Last(blocks[n]).end
       PROVE  n = k
  <2> SUFFICES ASSUME n # k PROVE FALSE
    OBVIOUS
  <2>1. Apart(blocks[k], blocks[n]) \/ Apart(blocks[n], blocks[k])
    BY <1>4, <1>5, WorldsAssumption
  <2>2. s # blocks[n][1].start
    BY <1>5, <1>6, <1>8, <1>9, <2>1, LinesHoldOneDirective
  <2>3. s \notin blocks[n][1].start + 1 .. Last(blocks[n]).end
    BY <1>3, <1>4, <1>9 DEF TopLevel, BranchAt
  <2>4. PICK x, y \in Nat : x = blocks[n][1].start /\ y = Last(blocks[n]).end
    BY <1>6, BlockOrder
  <2>5. s # x /\ s \notin x + 1 .. y /\ s + 1 \in x + 1 .. y
    BY <1>11, <2>2, <2>3, <2>4
  <2> QED
    BY <2>5
<1>12. Compiled(blocks, s + 1, InForce(c))
  BY <1>8, <1>10, <1>11 DEF Compiled
<1> QED
  BY <1>4, <1>7, <1>10, <1>12 DEF NeverCompiled, CompiledLine

(* A file is judged by the targets that compile it: in a plain world, a    *)
(* branch of a source file, in no other block and not of an elif chain,    *)
(* that no command compiles is HIGH in the report.                         *)
THEOREM PlainlyDeadIsFoundHigh == Spec => []PlainlyDeadIsHigh
<1>1. IInv => PlainlyDeadIsHigh
  <2> SUFFICES ASSUME IInv, output.written, PlainWorld, NEW b \in Branches(ast), TopLevel(b),
                      \A i \in 1..Len(ast[b[1]][b[2]]) : ast[b[1]][b[2]][i].kind # "elif",
                      \E c \in Range(world.commands) : c.file = b[1],
                      NeverCompiled(b), Lines(b) # {}
               PROVE  \E d \in High(dead) : d.branch = b
    BY DEF PlainlyDeadIsHigh
  <2>1. Active(b) = {}
    BY PlainlyDeadIsInactive DEF IInv
  <2>2. PICK d \in dead : d.branch = b /\ d.confidence = "HIGH"
    BY <2>1, DeadBranchIsFound
  <2> QED
    BY <2>2 DEF High
<1> QED
  BY <1>1, Inductive, PTL
-----------------------------------------------------------------------------
(* The text of a file: well-formed conditionals, one in a branch of the    *)
(* other or apart.                                                         *)
Nested(blocks) ==
  /\ blocks \in Seq(Seq(Branch))
  /\ \A n \in 1..Len(blocks) : blocks[n] \in Seq(Branch) /\ WellFormed(blocks[n])
  /\ \A m, n \in 1..Len(blocks) :
       m # n => Apart(blocks[m], blocks[n]) \/ Apart(blocks[n], blocks[m])

Span(block) == block[1].start + 1 .. Last(block).end

(* A set of natural numbers that has a member has a least one.             *)
LEMMA Least ==
  ASSUME NEW T \in SUBSET Nat, T # {}
  PROVE  \E x \in T : \A y \in T : x <= y
<1>1. PICK x \in T : \A y \in T : ~(<<y, x>> \in OpToRel(<, Nat))
  BY WFMin, NatLessThanWellFounded
<1>2. \A y \in T : ~(y < x)
  BY <1>1 DEF OpToRel
<1>3. \A y \in T : x <= y
  BY <1>2
<1> QED
  BY <1>3

(* A line is in at most one branch of a block, ...                         *)
LEMMA BodiesOfABlock ==
  ASSUME NEW block \in Seq(Branch), WellFormed(block), NEW i \in 1..Len(block)
  PROVE  /\ Body(block[i]) \subseteq Span(block)
         /\ \A j \in 1..Len(block) : Body(block[i]) \cap Body(block[j]) # {} => i = j
<1>1. PICK s, e, b, l \in Nat :
        /\ s = block[1].start /\ e = Last(block).end
        /\ b = block[i].start /\ l = block[i].end
  BY BlockOrder
<1>2. s <= b /\ l <= e
  BY <1>1, BlockOrder
<1>3. Body(block[i]) \subseteq Span(block)
  <2>1. b + 1 .. l \subseteq s + 1 .. e
    BY <1>2
  <2> QED
    BY <1>1, <2>1 DEF Body, Span
<1>4. ASSUME NEW j \in 1..Len(block), NEW line \in Body(block[i]), line \in Body(block[j]), i # j
      PROVE  FALSE
  <2>1. PICK x, y \in Nat : x = block[j].start /\ y = block[j].end
    BY BlockOrder
  <2>2. line \in b + 1 .. l /\ line \in x + 1 .. y
    BY <1>1, <1>4, <2>1 DEF Body
  <2>3. i \in Nat /\ j \in Nat
    BY BlockOrder
  <2>4. l < x \/ y < b
    <3>1. i < j \/ j < i
      BY <1>4, <2>3
    <3> QED
      BY <1>1, <2>1, <3>1, BlockOrder
  <2> QED
    BY <2>2, <2>4
<1> QED
  BY <1>3, <1>4

(* ... and a block that opens in the span of another lies in a branch of it.*)
LEMMA OpensWithin ==
  ASSUME NEW one \in Seq(Branch), WellFormed(one), NEW other \in Seq(Branch), WellFormed(other),
         Apart(one, other) \/ Apart(other, one), other[1].start \in Span(one)
  PROVE  Within(other, one)
<1>1. PICK s, e, x, y \in Nat :
        s = one[1].start /\ e = Last(one).end /\ x = other[1].start /\ y = Last(other).end
  BY BlockOrder
<1>2. s < x /\ x <= e /\ x <= y
  <2>1. x \in s + 1 .. e
    BY <1>1 DEF Span
  <2>2. \A i \in 1..Len(other) : /\ other[i].start \in Nat /\ other[i].end \in Nat
                                 /\ other[i].start <= other[i].end
                                 /\ other[i].end <= Last(other).end
    BY BlockOrder
  <2>3. 1 \in 1..Len(other)
    BY BlockOrder
  <2>4. x <= y
    BY <1>1, <2>2, <2>3
  <2> QED
    BY <2>1, <2>4
<1>3. ~(y < s) /\ ~(e < x)
  BY <1>2
<1>4. ASSUME Within(one, other) PROVE FALSE
  <2>1. PICK i \in 1..Len(other) : other[i].start < one[1].start
    BY <1>4 DEF Within
  <2>2. PICK z \in Nat : z = other[i].start /\ x <= z
    BY <1>1, BlockOrder
  <2>3. z < s
    BY <1>1, <2>1, <2>2
  <2> QED
    BY <1>2, <2>2, <2>3
<1> QED
  BY <1>1, <1>3, <1>4 DEF Apart

(* Why a line is not compiled: of the blocks that it does not pass, the    *)
(* first opens in text that is compiled.                                   *)
LEMMA OutermostFailing ==
  ASSUME NEW blocks, Nested(blocks), NEW defines, NEW line \in Nat,
         ~Compiled(blocks, line, defines)
  PROVE  \E m \in 1..Len(blocks) :
           /\ line \in Span(blocks[m])
           /\ \A p \in 1..Len(blocks[m]) : line \in Body(blocks[m][p])
                                           => ~Taken(blocks[m], p, defines)
           /\ Compiled(blocks, blocks[m][1].start, defines)
<1> DEFINE Fails(m) ==
             /\ line \in Span(blocks[m])
             /\ \A p \in 1..Len(blocks[m]) :
                  line \in Body(blocks[m][p]) => ~Taken(blocks[m], p, defines)
           starts == {blocks[m][1].start : m \in {n \in 1..Len(blocks) : Fails(n)}}
<1>1. \A n \in 1..Len(blocks) : blocks[n] \in Seq(Branch) /\ WellFormed(blocks[n])
  BY DEF Nested
<1>2. \A n \in 1..Len(blocks) : blocks[n][1].start \in Nat
  BY <1>1, BlockOrder
<1>3. \E m \in 1..Len(blocks) : Fails(m)
  BY DEF Compiled, Span
<1>4. PICK s \in starts : \A y \in starts : s <= y
  <2>1. starts \in SUBSET Nat /\ starts # {}
    BY <1>2, <1>3
  <2> HIDE DEF starts
  <2> QED
    BY <2>1, Least
<1>5. PICK m \in 1..Len(blocks) : Fails(m) /\ s = blocks[m][1].start
  BY <1>4
<1>6. \A n \in 1..Len(blocks) : Fails(n) => s <= blocks[n][1].start
  BY <1>4
<1>7. ASSUME NEW n \in 1..Len(blocks), s \in Span(blocks[n])
      PROVE  \E i \in 1..Len(blocks[n]) : Taken(blocks[n], i, defines) /\ s \in Body(blocks[n][i])
  <2>1. PICK first, e \in Nat :
          first = blocks[n][1].start /\ e = Last(blocks[m]).end /\ first < s /\ s <= e /\ line <= e
    <3>1. PICK first, e, l \in Nat :
            first = blocks[n][1].start /\ e = Last(blocks[m]).end /\ l = Last(blocks[n]).end
      BY <1>1, BlockOrder
    <3>2. line \in s + 1 .. e /\ s \in first + 1 .. l
      BY <1>5, <1>7, <3>1 DEF Span
    <3>3. s \in Nat
      BY <1>2, <1>5
    <3>4. first < s /\ s <= e /\ line <= e
      BY <3>2, <3>3
    <3> QED
      BY <3>1, <3>4
  <2>2. s \in Nat /\ n # m
    BY <1>2, <1>5, <2>1
  <2>3. Within(blocks[m], blocks[n])
    <3>1. Apart(blocks[n], blocks[m]) \/ Apart(blocks[m], blocks[n])
      BY <2>2 DEF Nested
    <3> QED
      BY <1>1, <1>5, <1>7, <3>1, OpensWithin
  <2>4. PICK i \in 1..Len(blocks[n]) : blocks[n][i].start < s /\ e < blocks[n][i].end
    BY <1>5, <2>1, <2>3 DEF Within
  <2>5. line \in Body(blocks[n][i]) /\ s \in Body(blocks[n][i])
    <3>1. PICK x, y \in Nat : x = blocks[n][i].start /\ y = blocks[n][i].end
      BY <1>1, BlockOrder
    <3>2. s < line
      <4>1. line \in s + 1 .. e
        BY <1>5, <2>1 DEF Span
      <4> QED
        BY <2>2, <4>1
    <3>3. line \in x + 1 .. y /\ s \in x + 1 .. y
      <4>1. x < s /\ e < y /\ s <= e /\ line <= e
        BY <2>1, <2>4, <3>1
      <4> QED
        BY <2>2, <3>2, <4>1
    <3> QED
      BY <3>1, <3>3 DEF Body
  <2>6. line \in Span(blocks[n])
    BY <1>1, <2>5, BodiesOfABlock
  <2>7. ~(s <= first)
    BY <2>1, <2>2
  <2>8. PICK p \in 1..Len(blocks[n]) : Taken(blocks[n], p, defines) /\ line \in Body(blocks[n][p])
    BY <1>6, <2>1, <2>6, <2>7
  <2>9. p = i
    BY <1>1, <2>5, <2>8, BodiesOfABlock
  <2> QED
    BY <2>5, <2>8, <2>9
<1>8. Compiled(blocks, s, defines)
  BY <1>7 DEF Compiled, Span
<1> QED
  BY <1>5, <1>8

(* A branch of the text with a line in it whose first line is not compiled *)
(* lies, whole, in a branch that is not taken of a block that opens in     *)
(* compiled text.                                                          *)
LEMMA DeadTextLiesInABlock ==
  ASSUME NEW blocks, Nested(blocks), NEW defines,
         NEW k \in 1..Len(blocks), NEW j \in 1..Len(blocks[k]),
         Body(blocks[k][j]) # {},
         ~Compiled(blocks, blocks[k][j].start + 1, defines)
  PROVE  \E m \in 1..Len(blocks) : \E p \in 1..Len(blocks[m]) :
           /\ Compiled(blocks, blocks[m][1].start, defines)
           /\ ~Taken(blocks[m], p, defines)
           /\ Body(blocks[k][j]) \subseteq Body(blocks[m][p])
<1>1. \A n \in 1..Len(blocks) : blocks[n] \in Seq(Branch) /\ WellFormed(blocks[n])
  BY DEF Nested
<1>2. PICK s, e, ks, ke \in Nat :
        /\ s = blocks[k][j].start /\ e = blocks[k][j].end
        /\ ks = blocks[k][1].start /\ ke = Last(blocks[k]).end
        /\ ks <= s /\ e <= ke
  <2>1. PICK ks, ke \in Nat : ks = blocks[k][1].start /\ ke = Last(blocks[k]).end
    BY <1>1, BlockOrder
  <2>2. PICK s, e \in Nat : s = blocks[k][j].start /\ e = blocks[k][j].end
    BY <1>1, BlockOrder
  <2>3. ks <= s /\ e <= ke
    BY <1>1, <2>1, <2>2, BlockOrder
  <2> QED
    BY <2>1, <2>2, <2>3
<1>3. s < e /\ s + 1 \in Body(blocks[k][j])
  <2>1. Body(blocks[k][j]) = s + 1 .. e
    BY <1>2 DEF Body
  <2>2. s + 1 .. e # {}
    BY <2>1
  <2>3. s < e
    BY <2>2
  <2> QED
    BY <2>1, <2>3
<1>4. PICK m \in 1..Len(blocks) :
        /\ s + 1 \in Span(blocks[m])
        /\ \A p \in 1..Len(blocks[m]) : s + 1 \in Body(blocks[m][p])
                                        => ~Taken(blocks[m], p, defines)
        /\ Compiled(blocks, blocks[m][1].start, defines)
  BY <1>2, OutermostFailing
<1>5. CASE m = k
  BY <1>3, <1>4, <1>5
<1>6. CASE m # k
  <2>1. Apart(blocks[k], blocks[m]) \/ Apart(blocks[m], blocks[k])
    BY <1>6 DEF Nested
  <2>2. PICK ms, me \in Nat : ms = blocks[m][1].start /\ me = Last(blocks[m]).end
    BY <1>1, BlockOrder
  <2>3. ms < s /\ s < me
    <3>1. s + 1 \in ms + 1 .. me
      BY <1>4, <2>2 DEF Span
    <3>2. s # ms
      BY <1>1, <1>2, <2>1, <2>2, LinesHoldOneDirective
    <3> QED
      BY <3>1, <3>2
  <2>4. ks # ms
    <3>1. 1 \in 1..Len(blocks[k])
      BY <1>1, BlockOrder
    <3> QED
      BY <1>1, <1>2, <2>1, <2>2, <3>1, LinesHoldOneDirective
  <2>5. ~(ks < ms)
    <3> SUFFICES ASSUME ks < ms PROVE FALSE
      OBVIOUS
    <3>1. ms \in ks + 1 .. ke
      <4>1. ms < ke
        <5>1. ms < s /\ s < e /\ e <= ke
          BY <1>2, <1>3, <2>3
        <5> QED
          BY <5>1
      <4> QED
        BY <4>1
    <3>2. Within(blocks[m], blocks[k])
      BY <1>1, <1>2, <2>1, <2>2, <3>1, OpensWithin DEF Span
    <3>3. PICK p \in 1..Len(blocks[k]) : blocks[k][p].start < ms /\ me < blocks[k][p].end
      BY <2>2, <3>2 DEF Within
    <3>4. PICK x, y \in Nat : x = blocks[k][p].start /\ y = blocks[k][p].end
      BY <1>1, BlockOrder
    <3>5. x < ms /\ me < y
      BY <3>3, <3>4
    <3>6. s + 1 \in x + 1 .. y /\ x # s
      BY <2>3, <3>5
    <3>7. s + 1 \in Body(blocks[k][p])
      BY <3>4, <3>6 DEF Body
    <3>8. p = j
      BY <1>1, <1>3, <3>7, BodiesOfABlock
    <3> QED
      BY <1>2, <3>4, <3>6, <3>8
  <2>6. Within(blocks[k], blocks[m])
    <3>1. ks \in ms + 1 .. me
      <4>1. ms < ks /\ ks < me
        <5>1. ks <= s
          BY <1>2
        <5> QED
          BY <2>3, <2>4, <2>5, <5>1
      <4> QED
        BY <4>1
    <3> QED
      BY <1>1, <1>2, <2>1, <2>2, <3>1, OpensWithin DEF Span
  <2>7. PICK p \in 1..Len(blocks[m]) : blocks[m][p].start < ks /\ ke < blocks[m][p].end
    BY <1>2, <2>6 DEF Within
  <2>8. Body(blocks[k][j]) \subseteq Body(blocks[m][p])
    <3>1. PICK x, y \in Nat : x = blocks[m][p].start /\ y = blocks[m][p].end
      BY <1>1, BlockOrder
    <3>2. x < ks /\ ke < y
      BY <2>7, <3>1
    <3>3. s + 1 .. e \subseteq x + 1 .. y
      <4>1. x < ks /\ ks <= s /\ e <= ke /\ ke < y
        BY <1>2, <3>2
      <4> QED
        BY <4>1
    <3> QED
      BY <1>2, <3>1, <3>3 DEF Body
  <2> QED
    BY <1>3, <1>4, <2>8
<1> QED
  BY <1>5, <1>6

(* The branches on file cover what is not taken: of a block that opens in  *)
(* compiled text, every branch that is not taken lies in a branch on file  *)
(* of which no line is compiled, for what goes on to the end of the block  *)
(* in place of later branches comes after the taken one.                   *)
LEMMA NotTakenIsRecordedDead ==
  ASSUME NEW blocks, Nested(blocks), NEW defines,
         NEW m \in 1..Len(blocks), NEW p \in 1..Len(blocks[m]),
         Compiled(blocks, blocks[m][1].start, defines), ~Taken(blocks[m], p, defines),
         NEW r, r = Recorded(blocks, blocks[m], defines)
  PROVE  \E q \in 1..Len(r) :
           /\ Body(blocks[m][p]) \subseteq Body(r[q])
           /\ \A line \in Body(r[q]) : ~Compiled(blocks, line, defines)
<1>1. PICK block : block = blocks[m]
  OBVIOUS
<1>2. block \in Seq(Branch) /\ WellFormed(block)
  BY <1>1 DEF Nested
<1>3. PICK len \in Nat : len = Len(block) /\ p \in 1..len
  BY <1>1, <1>2
<1>4. PICK n \in 1..len :
        /\ n = len \/ (n - 1 \in 1..len /\ Taken(block, n - 1, defines))
        /\ r = UpTo(block, n)
  BY <1>1, <1>2, <1>3, RecordedBranches
<1>5. Len(r) = n /\ \A q \in 1..n : /\ r[q].start = block[q].start
                                    /\ r[q].end = IF q = n THEN Last(block).end ELSE block[q].end
  <2>1. r = [q \in 1..n |-> IF q = n THEN [block[q] EXCEPT !.end = Last(block).end] ELSE block[q]]
    BY <1>4 DEF UpTo
  <2>2. n \in Nat /\ r = [q \in 1..n |-> r[q]]
    BY <2>1
  <2>3. Len(r) = n
    <3>1. PICK V : V = {r[q] : q \in 1..n}
      OBVIOUS
    <3>2. r \in Seq(V) /\ DOMAIN r = 1..n
      BY <2>2, <3>1
    <3> QED
      BY <2>2, <3>2
  <2>4. ASSUME NEW q \in 1..n
        PROVE  /\ r[q].start = block[q].start
               /\ r[q].end = IF q = n THEN Last(block).end ELSE block[q].end
    <3>1. block[q] \in Branch /\ Last(block).end \in Nat
      BY <1>2, <1>3, BlockOrder
    <3>2. CASE q = n
      <4>1. r[q] = [block[q] EXCEPT !.end = Last(block).end]
        BY <2>1, <3>2
      <4> QED
        BY <3>1, <3>2, <4>1, EndMoved
    <3>3. CASE q # n
      BY <2>1, <3>3
    <3> QED
      BY <3>2, <3>3
  <2> QED
    BY <2>3, <2>4
<1>6. ASSUME NEW q \in 1..n, NEW line \in Body(r[q]), Body(r[q]) \subseteq Span(block),
             Compiled(blocks, line, defines)
      PROVE  \E t \in 1..len : Taken(block, t, defines) /\ line \in Body(block[t])
  BY <1>1, <1>3, <1>6 DEF Compiled, Span
<1>7. CASE p < n
  <2>1. p \in 1..n /\ p # n
    BY <1>3, <1>7
  <2>2. Body(r[p]) = Body(block[p])
    BY <1>5, <2>1 DEF Body
  <2>3. Body(r[p]) \subseteq Span(block)
    BY <1>2, <1>3, <2>2, BodiesOfABlock
  <2>4. ASSUME NEW line \in Body(r[p]), Compiled(blocks, line, defines) PROVE FALSE
    <3>1. PICK t \in 1..len : Taken(block, t, defines) /\ line \in Body(block[t])
      BY <1>6, <2>1, <2>3, <2>4
    <3>2. t = p
      BY <1>2, <1>3, <2>2, <3>1, BodiesOfABlock
    <3> QED
      BY <1>1, <3>1, <3>2
  <2> QED
    BY <1>1, <1>4, <1>5, <2>1, <2>2, <2>4
<1>8. CASE n <= p
  <2>1. PICK first, s, e, ps, pe \in Nat :
          /\ first = block[1].start /\ s = block[n].start /\ e = Last(block).end
          /\ ps = block[p].start /\ pe = block[p].end
    <3>1. n \in 1..Len(block) /\ p \in 1..Len(block) /\ 1 \in 1..Len(block)
      BY <1>3
    <3> QED
      BY <1>2, <3>1, BlockOrder
  <2>2. first <= s /\ s <= ps /\ pe <= e
    <3>1. first <= s /\ pe <= e
      BY <1>2, <1>3, <2>1, BlockOrder
    <3>2. CASE n = p
      BY <2>1, <3>1, <3>2
    <3>3. CASE n < p
      <4>1. PICK ne \in Nat : ne = block[n].end /\ s <= ne
        BY <1>2, <1>3, <2>1, BlockOrder
      <4>2. block[n].end < block[p].start
        BY <1>2, <1>3, <3>3, BlockOrder
      <4>3. ne < ps
        BY <2>1, <4>1, <4>2
      <4> QED
        BY <3>1, <4>1, <4>3
    <3> QED
      BY <1>3, <1>8, <3>1, <3>2, <3>3
  <2>7. n \in 1..n
    OBVIOUS
  <2>3. Body(r[n]) = s + 1 .. e
    <3>1. r[n].start = block[n].start /\ r[n].end = Last(block).end
      BY <1>5, <2>7
    <3> QED
      BY <2>1, <3>1 DEF Body
  <2>4. Body(r[n]) \subseteq Span(block)
    <3>1. s + 1 .. e \subseteq first + 1 .. e
      BY <2>2
    <3> QED
      BY <2>1, <2>3, <3>1 DEF Span
  <2>5. Body(block[p]) \subseteq Body(r[n])
    <3>1. ps + 1 .. pe \subseteq s + 1 .. e
      BY <2>2
    <3> QED
      BY <2>1, <2>3, <3>1 DEF Body
  <2>6. ASSUME NEW line \in Body(r[n]), Compiled(blocks, line, defines) PROVE FALSE
    <3>1. PICK t \in 1..len : Taken(block, t, defines) /\ line \in Body(block[t])
      BY <1>6, <2>4, <2>6
    <3>2. ~(t < n)
      <4> SUFFICES ASSUME t < n PROVE FALSE
        OBVIOUS
      <4>1. PICK te \in Nat : te = block[t].end /\ te < s
        BY <1>2, <1>3, <2>1, BlockOrder
      <4>2. PICK ts \in Nat : ts = block[t].start
        BY <1>2, <1>3, BlockOrder
      <4>3. line \in ts + 1 .. te
        BY <3>1, <4>1, <4>2 DEF Body
      <4>4. line \in s + 1 .. e
        BY <2>3
      <4> QED
        BY <4>1, <4>3, <4>4
    <3>3. CASE n = len
      <4>1. t = p
        BY <1>3, <1>8, <3>2, <3>3
      <4> QED
        BY <1>1, <3>1, <4>1
    <3>4. CASE n - 1 \in 1..len /\ Taken(block, n - 1, defines)
      <4>1. n - 1 \in 1..t-1
        BY <3>2, <3>4
      <4> QED
        BY <3>1, <3>4, <4>1 DEF Taken
    <3> QED
      BY <1>4, <3>3, <3>4
  <2>8. /\ Body(blocks[m][p]) \subseteq Body(r[n])
        /\ \A line \in Body(r[n]) : ~Compiled(blocks, line, defines)
    BY <1>1, <2>5, <2>6
  <2>9. n \in 1..Len(r)
    BY <1>5, <2>7
  <2> QED
    BY <2>8, <2>9
<1>9. n \in Nat /\ p \in Nat
  BY <1>3, <1>4
<1>10. n <= p \/ p < n
  BY <1>9
<1> QED
  BY <1>7, <1>8, <1>10

(* Some branch on file has the lines in it, and none that is compiled.     *)
InDeadBranch(lines, blocks, defines) ==
  \E m \in 1..Len(blocks) : \E q \in 1..Len(Recorded(blocks, blocks[m], defines)) :
    /\ lines \subseteq Body(Recorded(blocks, blocks[m], defines)[q])
    /\ \A line \in Body(Recorded(blocks, blocks[m], defines)[q]) : ~Compiled(blocks, line, defines)

(* Together: a branch of the text of which no line is compiled lies in a   *)
(* branch on file of which no line is compiled.                            *)
LEMMA DeadTextIsRecordedDead ==
  ASSUME NEW blocks, Nested(blocks), NEW defines,
         NEW k \in 1..Len(blocks), NEW j \in 1..Len(blocks[k]),
         Body(blocks[k][j]) # {},
         \A line \in Body(blocks[k][j]) : ~Compiled(blocks, line, defines)
  PROVE  InDeadBranch(Body(blocks[k][j]), blocks, defines)
<1>1. blocks[k][j].start + 1 \in Body(blocks[k][j])
  <2>1. PICK s, e \in Nat : s = blocks[k][j].start /\ e = blocks[k][j].end
    <3>1. blocks[k] \in Seq(Branch) /\ WellFormed(blocks[k])
      BY DEF Nested
    <3> QED
      BY <3>1, BlockOrder
  <2>2. s + 1 .. e # {}
    BY <2>1 DEF Body
  <2>3. s + 1 \in s + 1 .. e
    BY <2>2
  <2> QED
    BY <2>1, <2>3 DEF Body
<1>2. ~Compiled(blocks, blocks[k][j].start + 1, defines)
  BY <1>1
<1>3. PICK m \in 1..Len(blocks) : \E p \in 1..Len(blocks[m]) :
        /\ Compiled(blocks, blocks[m][1].start, defines)
        /\ ~Taken(blocks[m], p, defines)
        /\ Body(blocks[k][j]) \subseteq Body(blocks[m][p])
  BY <1>2, DeadTextLiesInABlock
<1>4. PICK p \in 1..Len(blocks[m]) :
        /\ Compiled(blocks, blocks[m][1].start, defines)
        /\ ~Taken(blocks[m], p, defines)
        /\ Body(blocks[k][j]) \subseteq Body(blocks[m][p])
  BY <1>3
<1>5. PICK r : r = Recorded(blocks, blocks[m], defines)
  OBVIOUS
<1>6. PICK q \in 1..Len(r) :
        /\ Body(blocks[m][p]) \subseteq Body(r[q])
        /\ \A line \in Body(r[q]) : ~Compiled(blocks, line, defines)
  BY <1>4, <1>5, NotTakenIsRecordedDead
<1> QED
  BY <1>4, <1>5, <1>6 DEF InDeadBranch

(* A file that one command reads has on file what that command's run of    *)
(* the mapper recorded, and is compiled by no other.                       *)
LEMMA OneReader ==
  ASSUME world \in Worlds, ast = ast_mapping(world), NEW f \in File,
         Cardinality({i \in DOMAIN world.commands : Reads(world.commands[i], world, f)}) = 1
  PROVE  \E c : /\ Builders(world, f) = {c}
                /\ \A n \in 1..Len(world.blocks[f]) :
                     ast[f][n] = Recorded(world.blocks[f], world.blocks[f][n], InForce(c))
<1> DEFINE readers == {i \in DOMAIN world.commands : Reads(world.commands[i], world, f)}
<1>1. PICK len \in Nat : DOMAIN world.commands = 1..len
  BY WorldTypes
<1>2. PICK i \in 1..len : readers = {i}
  <2>1. IsFiniteSet(1..len) /\ readers \subseteq 1..len
    BY <1>1, FS_Interval
  <2>2. IsFiniteSet(readers)
    BY <2>1, FS_Subset
  <2> HIDE DEF readers
  <2>3. \E i : readers = {i}
    BY <2>2, FS_Singleton DEF readers
  <2> QED
    BY <2>1, <2>3
<1>3. Max(readers) = i
  BY <1>2 DEF Max
<1>4. Builders(world, f) = {world.commands[i]}
  BY <1>1, <1>2 DEF Builders, Range
<1>5. ASSUME NEW n \in 1..Len(world.blocks[f])
      PROVE  ast[f][n] = Recorded(world.blocks[f], world.blocks[f][n], InForce(world.commands[i]))
  <2>1. readers # {}
    BY <1>2
  <2>2. ast[f][n] = Recorded(world.blocks[f], world.blocks[f][n],
                             InForce(world.commands[Max(readers)]))
    BY <2>1 DEF ast_mapping
  <2> HIDE DEF readers
  <2> QED
    BY <1>3, <2>2
<1> QED
  BY <1>4, <1>5

(* Dead text does not hide: in any project, in a file that one command     *)
(* reads, every line of a branch that is not compiled lies in a finding,   *)
(* though nested in dead text it may have no branch of its own.            *)
THEOREM DeadTextIsFound == Spec => []DeadTextIsReported
<1>1. IInv => DeadTextIsReported
  <2> SUFFICES ASSUME IInv, output.written, LinesAreCompiled, NEW b \in Branches(world.blocks),
                      Cardinality({i \in DOMAIN world.commands :
                                     Reads(world.commands[i], world, b[1])}) = 1,
                      \A l \in TextLines(b) : ~CompiledLine(world, l)
               PROVE  TextLines(b) \subseteq UNION {Lines(d.branch) : d \in dead}
    BY DEF DeadTextIsReported
  <2>1. PICK map : map = world.blocks
    OBVIOUS
  <2>2. PICK f \in File : \E k \in 1..Len(map[f]) : \E j \in 1..Len(map[f][k]) : b = <<f, k, j>>
    BY <2>1, WhereABranchIs
  <2>3. PICK blocks : blocks = map[f]
    OBVIOUS
  <2>4. PICK k \in 1..Len(blocks) : \E j \in 1..Len(blocks[k]) : b = <<f, k, j>>
    BY <2>2, <2>3
  <2>5. PICK j \in 1..Len(blocks[k]) : b = <<f, k, j>>
    BY <2>4
  <2>6. Nested(blocks)
    BY <2>1, <2>3, WorldTypes, WorldsAssumption DEF IInv, Nested
  <2>7. PICK c : /\ Builders(world, f) = {c}
                 /\ \A n \in 1..Len(blocks) :
                      ast[f][n] = Recorded(blocks, blocks[n], InForce(c))
    BY <2>1, <2>3, <2>5, OneReader DEF IInv
  <2>8. \A line : CompiledLine(world, <<f, line>>) <=> Compiled(blocks, line, InForce(c))
    BY <2>1, <2>3, <2>7 DEF CompiledLine
  <2>9. TextLines(b) = {f} \X Body(blocks[k][j])
    BY <2>1, <2>3, <2>5 DEF TextLines
  <2>10. CASE Body(blocks[k][j]) = {}
    BY <2>9, <2>10
  <2>11. CASE Body(blocks[k][j]) # {}
    <3>1. PICK defines : defines = InForce(c)
      OBVIOUS
    <3>2. \A line \in Body(blocks[k][j]) : ~Compiled(blocks, line, defines)
      BY <2>8, <2>9, <3>1
    <3>3. InDeadBranch(Body(blocks[k][j]), blocks, defines)
      BY <2>6, <2>11, <3>2, DeadTextIsRecordedDead
    <3>4. PICK m \in 1..Len(blocks) : \E q \in 1..Len(ast[f][m]) :
            /\ Body(blocks[k][j]) \subseteq Body(ast[f][m][q])
            /\ \A line \in Body(ast[f][m][q]) : ~Compiled(blocks, line, InForce(c))
      BY <2>7, <3>1, <3>3 DEF InDeadBranch
    <3>5. PICK q \in 1..Len(ast[f][m]) :
            /\ Body(blocks[k][j]) \subseteq Body(ast[f][m][q])
            /\ \A line \in Body(ast[f][m][q]) : ~Compiled(blocks, line, InForce(c))
      BY <3>4
    <3>6. PICK d : d = <<f, m, q>>
      OBVIOUS
    <3>7. d \in Branches(ast)
      <4>1. m \in 1..Len(ast[f])
        BY <2>1, <2>3, BlocksAreReadings DEF IInv
      <4> QED
        BY <3>6, <4>1 DEF Branches
    <3>8. Lines(d) = {f} \X Body(ast[f][m][q])
      BY <3>6 DEF Lines, BranchAt
    <3>9. TextLines(b) \subseteq Lines(d) /\ Lines(d) # {}
      <4>1. PICK x : x \in Body(blocks[k][j])
        BY <2>11
      <4>2. <<f, x>> \in Lines(d)
        BY <3>5, <3>8, <4>1
      <4>3. \A A, B : A \subseteq B => {f} \X A \subseteq {f} \X B
        OBVIOUS
      <4> QED
        BY <2>9, <3>5, <3>8, <4>2, <4>3
    <3>10. NeverCompiled(d)
      BY <2>8, <3>5, <3>8 DEF NeverCompiled
    <3>11. PICK found \in dead : found.branch = d
      BY <3>7, <3>9, <3>10, DeadBranchIsFound
    <3> QED
      BY <3>9, <3>11
  <2> QED
    BY <2>10, <2>11
<1> QED
  BY <1>1, Inductive, PTL

-----------------------------------------------------------------------------
(* The sum of the findings' lines, as it is computed: one finding is taken *)
(* out after the other.                                                    *)
Pick(s) == CHOOSE x \in s : TRUE
Summed(g, s) == IF s = {} THEN 0 ELSE Pick(s).loc + g[s \ {Pick(s)}]

(* The community module's sum, written with the function it chooses.       *)
LEMMA SumUnfolds ==
  ASSUME NEW T
  PROVE  LoC(T) = (CHOOSE g : g = [s \in SUBSET T |-> Summed(g, s)])[T]
BY DEF LoC, MapThenSumSet, MapThenFoldSet, Summed, Pick

UpToSize(T, n) == {s \in SUBSET T : Cardinality(s) <= n}

(* What is left when one member of a finite set is taken out.              *)
LEMMA Picked ==
  ASSUME NEW s, IsFiniteSet(s), s # {}
  PROVE  /\ Pick(s) \in s /\ IsFiniteSet(s \ {Pick(s)})
         /\ Cardinality(s) \in Nat \ {0}
         /\ Cardinality(s \ {Pick(s)}) = Cardinality(s) - 1
<1>1. Pick(s) \in s
  BY DEF Pick
<1>2. Cardinality(s) \in Nat \ {0}
  BY FS_CardinalityType, FS_EmptySet
<1> QED
  BY <1>1, <1>2, FS_RemoveElement

(* The recursion has a solution.                                           *)
LEMMA SumExists ==
  ASSUME NEW T, IsFiniteSet(T)
  PROVE  \E g : g = [s \in SUBSET T |-> Summed(g, s)]
<1> DEFINE P(n) == \E g : g = [s \in UpToSize(T, n) |-> Summed(g, s)]
<1>0. \A s \in SUBSET T :
        IsFiniteSet(s) /\ Cardinality(s) \in Nat /\ Cardinality(s) <= Cardinality(T)
  BY FS_Subset, FS_CardinalityType
<1>1. P(0)
  <2> DEFINE g == [s \in UpToSize(T, 0) |-> 0]
  <2>1. \A s \in UpToSize(T, 0) : s = {}
    <3> TAKE s \in UpToSize(T, 0)
    <3>1. IsFiniteSet(s) /\ Cardinality(s) = 0
      BY <1>0 DEF UpToSize
    <3> QED
      BY <3>1, FS_EmptySet
  <2>2. g = [s \in UpToSize(T, 0) |-> Summed(g, s)]
    BY <2>1 DEF Summed
  <2> QED
    BY <2>2
<1>2. ASSUME NEW n \in Nat, P(n) PROVE P(n + 1)
  <2>1. PICK h : h = [s \in UpToSize(T, n) |-> Summed(h, s)]
    BY <1>2
  <2> DEFINE g == [s \in UpToSize(T, n + 1) |-> Summed(h, s)]
  <2>2. \A s \in UpToSize(T, n) : s \in UpToSize(T, n + 1) /\ g[s] = h[s]
    <3>1. \A s \in UpToSize(T, n) : s \in UpToSize(T, n + 1)
      BY <1>0 DEF UpToSize
    <3> QED
      BY <2>1, <3>1
  <2>3. ASSUME NEW s \in UpToSize(T, n + 1) PROVE Summed(g, s) = Summed(h, s)
    <3>1. CASE s # {}
      <4>1. IsFiniteSet(s) /\ s \in SUBSET T /\ Cardinality(s) <= n + 1
        BY <1>0 DEF UpToSize
      <4>2. s \ {Pick(s)} \in UpToSize(T, n)
        BY <3>1, <4>1, Picked DEF UpToSize
      <4> HIDE DEF g
      <4> QED
        BY <2>2, <4>2 DEF Summed
    <3> QED
      BY <3>1 DEF Summed
  <2>4. g = [s \in UpToSize(T, n + 1) |-> Summed(g, s)]
    BY <2>3
  <2> QED
    BY <2>4
<1> HIDE DEF P
<1>3. Cardinality(T) \in Nat
  BY FS_CardinalityType
<1>4. P(Cardinality(T))
  <2> DEFINE Bad == {n \in Nat : ~P(n)}
  <2>1. SUFFICES Bad = {}
    BY <1>3
  <2>2. SUFFICES ASSUME Bad # {} PROVE FALSE
    OBVIOUS
  <2>3. PICK n \in Bad : \A m \in Bad : n <= m
    BY <2>2, Least
  <2>4. n # 0 /\ n - 1 \in Nat /\ n = (n - 1) + 1
    BY <1>1, <2>3
  <2>5. P(n - 1)
    BY <2>3, <2>4
  <2> QED
    BY <1>2, <2>3, <2>4, <2>5
<1>5. UpToSize(T, Cardinality(T)) = SUBSET T
  BY <1>0 DEF UpToSize
<1> QED
  BY <1>4, <1>5 DEF P

(* What the sum is made of.                                                *)
LEMMA SumTakesOneByOne ==
  ASSUME NEW T, IsFiniteSet(T)
  PROVE  \E g : /\ LoC(T) = g[T] /\ g[{}] = 0
                /\ \A s \in SUBSET T : s # {} => g[s] = Pick(s).loc + g[s \ {Pick(s)}]
<1> DEFINE g == CHOOSE g : g = [s \in SUBSET T |-> Summed(g, s)]
<1>1. g = [s \in SUBSET T |-> Summed(g, s)]
  BY SumExists
<1>2. LoC(T) = g[T]
  BY SumUnfolds
<1> HIDE DEF g
<1>3. \A s \in SUBSET T : g[s] = Summed(g, s)
  BY <1>1
<1>4. g[{}] = 0 /\ \A s \in SUBSET T : s # {} => g[s] = Pick(s).loc + g[s \ {Pick(s)}]
  BY <1>3 DEF Summed
<1> QED
  BY <1>2, <1>4

(* A sum of natural numbers is one: a smallest set of findings of which    *)
(* it is not would do without its first.                                   *)
LEMMA SumIsNat ==
  ASSUME NEW T, IsFiniteSet(T), \A d \in T : d.loc \in Nat
  PROVE  LoC(T) \in Nat
<1>1. PICK g : /\ LoC(T) = g[T] /\ g[{}] = 0
               /\ \A s \in SUBSET T : s # {} => g[s] = Pick(s).loc + g[s \ {Pick(s)}]
  BY SumTakesOneByOne
<1> DEFINE Bad == {n \in Nat : \E s \in SUBSET T : Cardinality(s) = n /\ g[s] \notin Nat}
<1>2. SUFFICES ASSUME Bad # {} PROVE FALSE
  <2>1. Cardinality(T) \in Nat /\ T \in SUBSET T
    BY FS_CardinalityType
  <2> QED
    BY <1>1, <2>1
<1>3. PICK n \in Bad : \A m \in Bad : n <= m
  BY <1>2, Least
<1>4. PICK s \in SUBSET T : Cardinality(s) = n /\ g[s] \notin Nat
  OBVIOUS
<1>s. g[s] \notin Nat /\ Cardinality(s) = n /\ n \in Nat
  BY <1>4
<1> HIDE DEF Bad
<1>5. IsFiniteSet(s) /\ s # {}
  <2>1. s # {}
    <3>1. g[{}] \in Nat
      BY <1>1
    <3>2. s = {} => g[s] = g[{}]
      OBVIOUS
    <3> QED
      BY <1>s, <3>1, <3>2, Zenon
  <2> QED
    BY <2>1, FS_Subset
<1>6. /\ Pick(s) \in T /\ s \ {Pick(s)} \in SUBSET T
      /\ n \in Nat \ {0} /\ Cardinality(s \ {Pick(s)}) = n - 1
  BY <1>s, <1>5, Picked
<1>7. g[s \ {Pick(s)}] \in Nat
  <2>1. n - 1 \in Nat /\ ~(n <= n - 1)
    BY <1>6
  <2>2. n - 1 \notin Bad
    BY <1>3, <2>1
  <2> QED
    BY <1>6, <2>1, <2>2 DEF Bad
<1>8. g[s] = Pick(s).loc + g[s \ {Pick(s)}] /\ Pick(s).loc \in Nat
  BY <1>1, <1>5, <1>6
<1> QED
  BY <1>s, <1>7, <1>8

(* Of findings that have no line in common the sum is the number of lines. *)
LinesOf(s) == UNION {Lines(d.branch) : d \in s}

(* The same argument: the first finding's lines and the rest's have none   *)
(* in common.                                                              *)
LEMMA SumIsCardinality ==
  ASSUME NEW T, IsFiniteSet(T),
         \A d \in T : IsFiniteSet(Lines(d.branch)) /\ d.loc = Cardinality(Lines(d.branch)),
         \A c, d \in T : c # d => Lines(c.branch) \cap Lines(d.branch) = {}
  PROVE  LoC(T) = Cardinality(LinesOf(T))
<1>1. PICK g : /\ LoC(T) = g[T] /\ g[{}] = 0
               /\ \A s \in SUBSET T : s # {} => g[s] = Pick(s).loc + g[s \ {Pick(s)}]
  BY SumTakesOneByOne
<1> DEFINE Right(s) == IsFiniteSet(LinesOf(s)) /\ g[s] = Cardinality(LinesOf(s))
           Bad == {n \in Nat : \E s \in SUBSET T : Cardinality(s) = n /\ ~Right(s)}
<1>2. SUFFICES ASSUME Bad # {} PROVE FALSE
  <2>1. Cardinality(T) \in Nat /\ T \in SUBSET T
    BY FS_CardinalityType
  <2> QED
    BY <1>1, <2>1
<1>3. PICK n \in Bad : \A m \in Bad : n <= m
  BY <1>2, Least
<1>4. PICK s \in SUBSET T : Cardinality(s) = n /\ ~Right(s)
  OBVIOUS
<1>5. s # {}
  <2>1. LinesOf({}) = {}
    BY DEF LinesOf
  <2> QED
    BY <1>1, <1>4, <2>1, FS_EmptySet
<1> DEFINE x == Pick(s)
           rest == s \ {x}
<1>6. /\ x \in s /\ x \in T /\ rest \in SUBSET T
      /\ n \in Nat \ {0} /\ Cardinality(rest) = n - 1
  BY <1>4, <1>5, Picked, FS_Subset
<1>7. Right(rest)
  <2>1. n - 1 \in Nat /\ ~(n <= n - 1)
    BY <1>6
  <2>2. n - 1 \notin Bad
    BY <1>3, <2>1
  <2> HIDE DEF rest, Right
  <2> QED
    BY <1>6, <2>1, <2>2
<1>8. g[s] = x.loc + g[rest]
  BY <1>1, <1>5
<1>9. /\ LinesOf(s) = Lines(x.branch) \cup LinesOf(rest)
      /\ Lines(x.branch) \cap LinesOf(rest) = {}
  <2>1. \A d \in rest : d \in T /\ d # x
    BY <1>6
  <2>2. s = rest \cup {x}
    BY <1>6
  <2> HIDE DEF x, rest
  <2> QED
    BY <1>6, <2>1, <2>2 DEF LinesOf
<1> HIDE DEF x, rest
<1>10. /\ IsFiniteSet(LinesOf(s))
       /\ Cardinality(LinesOf(s)) = Cardinality(Lines(x.branch)) + Cardinality(LinesOf(rest))
  <2>1. /\ IsFiniteSet(Lines(x.branch)) /\ IsFiniteSet(LinesOf(rest))
        /\ Cardinality(Lines(x.branch)) \in Nat /\ Cardinality(LinesOf(rest)) \in Nat
    BY <1>6, <1>7, FS_CardinalityType
  <2>2. Cardinality(Lines(x.branch) \cap LinesOf(rest)) = 0
    BY <1>9, FS_EmptySet
  <2>3. /\ IsFiniteSet(Lines(x.branch) \cup LinesOf(rest))
        /\ Cardinality(Lines(x.branch) \cup LinesOf(rest)) =
             Cardinality(Lines(x.branch)) + Cardinality(LinesOf(rest))
             - Cardinality(Lines(x.branch) \cap LinesOf(rest))
    BY <2>1, FS_Union
  <2> QED
    BY <1>9, <2>1, <2>2, <2>3
<1> QED
  BY <1>4, <1>6, <1>7, <1>8, <1>10
-----------------------------------------------------------------------------
(* A branch on file and its lines.                                         *)
LEMMA BranchOnFile ==
  ASSUME IInv, NEW b \in Branches(ast)
  PROVE  \E f \in File : \E k \in 1..Len(world.blocks[f]) : \E i \in 1..Len(ast[f][k]) :
           /\ b = <<f, k, i>> /\ BranchAt(b) = ast[f][k][i] /\ BranchAt(b) \in Branch
           /\ k \in 1..Len(ast[f])
           /\ Lines(b) = {f} \X Body(ast[f][k][i])
<1>1. PICK f \in File : \E k \in 1..Len(ast[f]) : \E i \in 1..Len(ast[f][k]) : b = <<f, k, i>>
  <2>1. PICK map : map = ast
    OBVIOUS
  <2>2. b \in Branches(map)
    BY <2>1
  <2>3. \E f \in File : \E k \in 1..Len(map[f]) : \E i \in 1..Len(map[f][k]) : b = <<f, k, i>>
    BY <2>2, WhereABranchIs
  <2> QED
    BY <2>1, <2>3
<1>2. PICK k \in 1..Len(ast[f]) : \E i \in 1..Len(ast[f][k]) : b = <<f, k, i>>
  BY <1>1
<1>3. PICK i \in 1..Len(ast[f][k]) : b = <<f, k, i>>
  BY <1>2
<1>4. ast[f] \in Seq(Seq(Branch)) /\ Len(ast[f]) = Len(world.blocks[f])
  BY BlocksAreReadings DEF IInv
<1>5. ast[f][k] \in Seq(Branch)
  BY <1>4
<1>6. ast[f][k][i] \in Branch
  BY <1>5
<1>7. b[1] = f /\ BranchAt(b) = ast[f][k][i]
  BY <1>3 DEF BranchAt
<1>8. Lines(b) = {f} \X Body(ast[f][k][i])
  BY <1>7 DEF Lines
<1>9. k \in 1..Len(world.blocks[f])
  BY <1>2, <1>4
<1>10. BranchAt(b) \in Branch /\ k \in 1..Len(ast[f])
  BY <1>6, <1>7
<1> QED
  BY <1>3, <1>7, <1>8, <1>9, <1>10

(* A finding counts the lines of its branch.                               *)
LEMMA FindingCounts ==
  ASSUME IInv, NEW b \in Branches(ast), NEW d \in Finding(b)
  PROVE  /\ d.branch = b /\ d.loc \in Nat \ {0} /\ d.confidence \in {"HIGH", "MEDIUM"}
         /\ IsFiniteSet(Lines(b)) /\ d.loc = Cardinality(Lines(b))
<1>1. PICK f \in File : \E k \in 1..Len(world.blocks[f]) : \E i \in 1..Len(ast[f][k]) :
           /\ BranchAt(b) = ast[f][k][i] /\ BranchAt(b) \in Branch
           /\ Lines(b) = {f} \X Body(ast[f][k][i])
  BY BranchOnFile
<1>2. BranchAt(b) \in Branch /\ Lines(b) = {f} \X Body(BranchAt(b))
  BY <1>1
<1>3. PICK s, e \in Nat : s = BranchAt(b).start /\ e = BranchAt(b).end
  BY <1>2 DEF Branch
<1>4. /\ ~Degenerate(BranchAt(b)) /\ d.branch = b /\ d.loc = branch_body_loc(BranchAt(b))
      /\ d.confidence \in {"HIGH", "MEDIUM"}
  BY DEF Finding, analyze_branch
<1>5. s < e /\ d.loc = e - s
  BY <1>3, <1>4 DEF Degenerate, branch_body_loc
<1>6. IsFiniteSet(s + 1 .. e) /\ Cardinality(s + 1 .. e) = e - s
  <2>1. /\ IsFiniteSet(s + 1 .. e)
        /\ Cardinality(s + 1 .. e) = IF s + 1 > e THEN 0 ELSE e - (s + 1) + 1
    BY FS_Interval
  <2>2. ~(s + 1 > e) /\ e - (s + 1) + 1 = e - s
    BY <1>5
  <2> QED
    BY <2>1, <2>2
<1>7. Lines(b) = {f} \X (s + 1 .. e)
  BY <1>2, <1>3 DEF Body
<1>8. IsFiniteSet({f}) /\ Cardinality({f}) = 1
  BY FS_Singleton
<1>9. IsFiniteSet(Lines(b)) /\ Cardinality(Lines(b)) = 1 * (e - s)
  <2>1. /\ IsFiniteSet({f} \X (s + 1 .. e))
        /\ Cardinality({f} \X (s + 1 .. e)) = Cardinality({f}) * Cardinality(s + 1 .. e)
    BY <1>6, <1>8, FS_Product
  <2> QED
    BY <1>6, <1>7, <1>8, <2>1
<1>10. 1 * (e - s) = e - s /\ e - s \in Nat \ {0}
  BY <1>5
<1> QED
  BY <1>4, <1>5, <1>9, <1>10

(* A finding names targets of the project.                                 *)
LEMMA NamedAreTargets ==
  ASSUME IInv, NEW b \in Branches(ast), NEW d \in Finding(b)
  PROVE  d.configs \in SUBSET Target
<1>1. PICK f \in File : \E k \in 1..Len(world.blocks[f]) : \E i \in 1..Len(ast[f][k]) :
           /\ b = <<f, k, i>> /\ BranchAt(b) = ast[f][k][i] /\ BranchAt(b) \in Branch
           /\ k \in 1..Len(ast[f])
           /\ Lines(b) = {f} \X Body(ast[f][k][i])
  BY BranchOnFile, Zenon
<1> DEFINE configs == FileConfigs(world.commands, b[1])
           opening == BranchAt(<<b[1], b[2], 1>>)
           branch  == BranchAt(b)
<1>2. DOMAIN configs \subseteq Target
  <2>1. world.commands \in Seq(Command)
    BY <1>1, WorldTypes DEF IInv
  <2>2. TargetsOf(world.commands) \subseteq Target
    <3>1. \A c \in Range(world.commands) : c \in Command
      BY <2>1 DEF Range
    <3> QED
      BY <3>1 DEF TargetsOf, Command
  <2>3. DOMAIN configs \subseteq TargetsOf(world.commands)
    BY DEF FileConfigs, ConfigSets
  <2> QED
    BY <2>2, <2>3
<1>3. branch.kind \in {"ifdef", "ifndef", "if", "elif", "else"}
  BY <1>1 DEF Branch
<1>4. d.configs = NamedConfigs(opening, branch, configs, ActiveConfigs(opening, branch, configs))
  BY DEF Finding, analyze_branch
<1> HIDE DEF configs, opening, branch
<1>5. ActiveConfigs(opening, branch, configs) \subseteq DOMAIN configs
  BY <1>3 DEF ActiveConfigs, configs_defining, configs_not_defining
<1>6. NamedConfigs(opening, branch, configs, ActiveConfigs(opening, branch, configs))
        \subseteq DOMAIN configs
  BY <1>3, <1>5 DEF NamedConfigs, configs_defining
<1> QED
  BY <1>2, <1>4, <1>6

(* correlator.py: types of what is read, found and written.                *)
THEOREM CorrelatorTyped == Spec => []TypeOK
<1>1. IInv => TypeOK
  <2> SUFFICES ASSUME IInv PROVE TypeOK
    OBVIOUS
  <2>1. world \in World /\ todo \subseteq Branches(ast) /\ IsFiniteSet(dead)
    BY WorldsAssumption DEF IInv
  <2>2. ast \in [File -> Seq(Seq(Branch))]
    <3>1. ast = [f \in File |-> ast[f]]
      BY DEF IInv, ast_mapping
    <3>2. \A f \in File : ast[f] \in Seq(Seq(Branch))
      BY BlocksAreReadings DEF IInv
    <3> QED
      BY <3>1, <3>2
  <2>3. ASSUME NEW d \in dead
        PROVE  d \in [branch : Branches(ast) \ todo, loc : Nat \ {0},
                      confidence : {"HIGH", "MEDIUM"}, configs : SUBSET Target]
    <3>1. PICK b \in Branches(ast) \ todo : d \in Finding(b)
      BY DEF IInv
    <3>2. PICK loc, confidence, configs :
            d = [branch |-> b, loc |-> loc, confidence |-> confidence, configs |-> configs]
      BY <3>1, Zenon DEF Finding, analyze_branch
    <3>3. /\ d.branch = b /\ d.loc \in Nat \ {0} /\ d.confidence \in {"HIGH", "MEDIUM"}
          /\ d.configs \in SUBSET Target
      BY <3>1, FindingCounts, NamedAreTargets
    <3> QED
      BY <3>1, <3>2, <3>3
  <2>4. output \in [total : Nat, high : Nat, loc : Nat, highLoc : Nat, written : BOOLEAN]
    <3>1. CASE ~output.written
      <4>1. output = NoOutput
        BY <3>1 DEF IInv
      <4> QED
        BY <4>1 DEF NoOutput
    <3>2. CASE output.written
      <4>1. IsFiniteSet(High(dead)) /\ High(dead) \subseteq dead
        BY <2>1, FS_Subset DEF High
      <4>2. Cardinality(dead) \in Nat /\ Cardinality(High(dead)) \in Nat
        BY <2>1, <4>1, FS_CardinalityType
      <4>3. LoC(dead) \in Nat /\ LoC(High(dead)) \in Nat
        BY <2>1, <2>3, <4>1, SumIsNat
      <4>4. output = Figures(dead)
        BY <3>2 DEF IInv
      <4> QED
        BY <4>2, <4>3, <4>4 DEF Figures
    <3> QED
      BY <3>1, <3>2
  <2> QED
    BY <2>1, <2>2, <2>3, <2>4 DEF TypeOK
<1> QED
  BY <1>1, Inductive, PTL

-----------------------------------------------------------------------------
(* What is on file of a block comes from one command, which compiles the   *)
(* text in which the block opens.                                          *)
LEMMA MappedIsHeard ==
  ASSUME IInv, NEW f \in File, NEW m \in 1..Len(world.blocks[f]), Len(ast[f][m]) # 0
  PROVE  CompiledLine(world, <<f, world.blocks[f][m][1].start>>)
<1> DEFINE readers == {i \in DOMAIN world.commands : Reads(world.commands[i], world, f)}
<1>1. ast[f][m] = IF readers = {} THEN <<>>
                  ELSE Recorded(world.blocks[f], world.blocks[f][m],
                                InForce(world.commands[Max(readers)]))
  BY DEF IInv, ast_mapping
<1>2. readers # {}
  <2> HIDE DEF readers
  <2> QED
    BY <1>1
<1>3. PICK n \in Nat : n = Len(world.commands) /\ DOMAIN world.commands = 1..n
  BY WorldTypes DEF IInv
<1>4. Max(readers) \in readers
  <2> DEFINE T == {n - i : i \in readers}
  <2>0. readers \subseteq 1..n
    BY <1>3
  <2>1. T \in SUBSET Nat /\ T # {}
    <3> HIDE DEF readers
    <3>1. \A i \in readers : n - i \in Nat
      BY <1>3, <2>0
    <3> QED
      BY <1>2, <3>1
  <2>2. PICK x \in T : \A y \in T : x <= y
    BY <2>1, Least
  <2>3. PICK i \in readers : x = n - i
    OBVIOUS
  <2>4. ASSUME NEW j \in readers PROVE i >= j
    <3>1. n - j \in T /\ i \in 1..n /\ j \in 1..n
      BY <2>0
    <3>2. n - i <= n - j
      BY <2>2, <2>3, <3>1
    <3> QED
      BY <3>1, <3>2
  <2> HIDE DEF T, readers
  <2> QED
    BY <2>4 DEF Max
<1>5. PICK c : c = world.commands[Max(readers)]
  OBVIOUS
<1>6. c \in Builders(world, f)
  BY <1>4, <1>5 DEF Builders, Range
<1> HIDE DEF readers
<1>7. Compiled(world.blocks[f], world.blocks[f][m][1].start, InForce(c))
  <2>1. SUFFICES ASSUME ~Compiled(world.blocks[f], world.blocks[f][m][1].start, InForce(c))
                 PROVE  FALSE
    OBVIOUS
  <2>2. ast[f][m] = <<>>
    BY <1>1, <1>2, <1>5, <2>1 DEF Recorded
  <2> QED
    BY <2>2
<1> QED
  BY <1>6, <1>7 DEF CompiledLine

(* A line that is in a branch of a block on file and in one of a block     *)
(* within it: then the inner block opens in the outer branch.              *)
LEMMA InnerOpensInBranch ==
  ASSUME NEW outer \in Seq(Branch), WellFormed(outer), NEW inner \in Seq(Branch),
         WellFormed(inner), Within(inner, outer),
         NEW r, Reading(r, outer), NEW i \in 1..Len(r),
         NEW q, Reading(q, inner), NEW j \in 1..Len(q),
         NEW line \in Body(r[i]), line \in Body(q[j])
  PROVE  inner[1].start \in Body(r[i])
<1>1. /\ Len(outer) \in Nat /\ Len(inner) \in Nat /\ 1 \in 1..Len(inner)
      /\ \A n \in 1..Len(outer) : outer[n].start \in Nat /\ outer[n].end \in Nat
      /\ \A k, n \in 1..Len(outer) : k < n => outer[k].end < outer[n].start
      /\ \A n \in 1..Len(outer) : outer[n].start <= outer[n].end
  BY BlockOrder
<1>2. /\ \A n \in 1..Len(inner) : inner[n].start \in Nat /\ inner[1].start <= inner[n].start
      /\ Last(inner).end \in Nat
  BY BlockOrder
<1>3. /\ Len(r) \in Nat /\ i \in 1..Len(outer) /\ r[i].start = outer[i].start /\ r[i] \in Branch
  BY <1>1 DEF Reading
<1>4. /\ Len(q) \in Nat /\ j \in 1..Len(inner) /\ q[j].start = inner[j].start /\ q[j] \in Branch
      /\ q[j].end <= Last(inner).end
  BY <1>1 DEF Reading
<1>5. PICK n \in 1..Len(outer) :
        outer[n].start < inner[1].start /\ Last(inner).end < outer[n].end
  BY DEF Within
<1>6. PICK oi, on, oe, x, y, w, re, qe \in Nat :
        /\ oi = outer[i].start /\ on = outer[n].start /\ oe = outer[n].end
        /\ x = inner[1].start /\ y = inner[j].start /\ w = Last(inner).end
        /\ re = r[i].end /\ qe = q[j].end
  <2>1. r[i].end \in Nat /\ q[j].end \in Nat
    BY <1>3, <1>4 DEF Branch
  <2>2. outer[i].start \in Nat /\ outer[n].start \in Nat /\ outer[n].end \in Nat
    BY <1>1, <1>3
  <2>3. inner[1].start \in Nat /\ inner[j].start \in Nat /\ Last(inner).end \in Nat
    BY <1>1, <1>2, <1>4
  <2> QED
    BY <2>1, <2>2, <2>3
<1>b. Body(r[i]) = oi + 1 .. re /\ Body(q[j]) = y + 1 .. qe
  BY <1>3, <1>4, <1>6 DEF Body
<1>7. line \in Nat /\ oi < line /\ line <= re /\ y < line /\ line <= qe
  <2>1. line \in oi + 1 .. re /\ line \in y + 1 .. qe
    BY <1>b
  <2> QED
    BY <2>1
<1>8. on < x /\ w < oe /\ x <= y /\ qe <= w
  <2>1. on < x /\ w < oe
    BY <1>5, <1>6
  <2>2. x <= y
    BY <1>2, <1>4, <1>6
  <2>3. qe <= w
    BY <1>4, <1>6
  <2> QED
    BY <2>1, <2>2, <2>3
<1>9. oi <= on
  <2>1. ~(n < i)
    <3>1. n < i => oe < oi
      BY <1>1, <1>3, <1>6
    <3>2. ~(oe < oi)
      BY <1>7, <1>8
    <3> QED
      BY <3>1, <3>2
  <2>2. CASE i < n
    <3>1. PICK ie \in Nat : ie = outer[i].end
      BY <1>1, <1>3
    <3>2. ie < on /\ oi <= ie
      BY <1>1, <1>3, <1>6, <2>2, <3>1
    <3> QED
      BY <3>2
  <2>3. i \in Nat /\ n \in Nat
    BY <1>1, <1>3
  <2>4. i = n => oi = on
    BY <1>6
  <2> QED
    BY <2>1, <2>2, <2>3, <2>4
<1>10. x \in oi + 1 .. re
  BY <1>7, <1>8, <1>9
<1> QED
  BY <1>6, <1>10, <1>b

(* The branches of a block on file have no line in common.                 *)
LEMMA ReadBodiesApart ==
  ASSUME NEW block \in Seq(Branch), WellFormed(block), NEW r, Reading(r, block),
         NEW i \in 1..Len(r), NEW j \in 1..Len(r), i < j
  PROVE  Body(r[i]) \cap Body(r[j]) = {}
<1>1. /\ Len(block) \in Nat
      /\ \A n \in 1..Len(block) : block[n].start \in Nat /\ block[n].end \in Nat
      /\ \A k, n \in 1..Len(block) : k < n => block[k].end < block[n].start
  BY BlockOrder
<1>2. /\ Len(r) \in Nat /\ i \in 1..Len(block) /\ j \in 1..Len(block) /\ i < Len(r)
      /\ r[i].end = block[i].end /\ r[j].start = block[j].start
      /\ r[i] \in Branch /\ r[j] \in Branch
  BY <1>1 DEF Reading
<1>3. r[i].end < r[j].start
  BY <1>1, <1>2
<1>4. PICK s, e, t, z \in Nat : s = r[i].start /\ e = r[i].end /\ t = r[j].start /\ z = r[j].end
  BY <1>2 DEF Branch
<1>5. e < t
  BY <1>3, <1>4
<1>6. (s + 1 .. e) \cap (t + 1 .. z) = {}
  BY <1>5
<1> QED
  BY <1>4, <1>6 DEF Body

(* A line of a branch read from a block is a line of the block.            *)
LEMMA LineWithin ==
  ASSUME NEW block \in Seq(Branch), WellFormed(block), NEW r, Reading(r, block),
         NEW n \in 1..Len(r), NEW line \in Body(r[n])
  PROVE  /\ block[1].start < line /\ line <= Last(block).end /\ line \in Nat
         /\ block[1].start \in Nat /\ Last(block).end \in Nat
<1>1. /\ Len(block) \in Nat /\ 1 \in 1..Len(block)
      /\ \A p \in 1..Len(block) : block[p].start \in Nat /\ block[1].start <= block[p].start
      /\ Last(block).end \in Nat
  BY BlockOrder
<1>2. /\ n \in 1..Len(block) /\ r[n] \in Branch /\ r[n].start = block[n].start
      /\ r[n].end <= Last(block).end
  BY <1>1 DEF Reading
<1>3. PICK s, e \in Nat : s = r[n].start /\ e = r[n].end
  BY <1>2 DEF Branch
<1>4. line \in Nat /\ s < line /\ line <= e
  BY <1>3 DEF Body
<1>5. PICK u, v \in Nat : u = block[1].start /\ v = Last(block).end
  BY <1>1
<1>6. u <= s /\ e <= v
  <2>1. block[1].start <= block[n].start
    BY <1>1, <1>2
  <2> QED
    BY <1>2, <1>3, <1>5, <2>1
<1>7. u \in Nat /\ v \in Nat /\ s \in Nat /\ e \in Nat
  BY <1>3, <1>5
<1>8. u < line /\ line <= v
  BY <1>4, <1>6, <1>7
<1>9. line \in Nat
  BY <1>4
<1> QED
  BY <1>5, <1>8, <1>9

(* Two HIGH findings have no line in common.  Were one in a block nested   *)
(* in the branch of the other, the command that block was mapped with      *)
(* would compile its directive, which lies in a branch no command compiles.*)
LEMMA HighAreApart ==
  ASSUME IInv, PlainWorld, NEW c \in High(dead), NEW d \in High(dead), c # d
  PROVE  Lines(c.branch) \cap Lines(d.branch) = {}
<1>1. PICK a \in Branches(ast) : c \in Finding(a)
  BY DEF IInv, High
<1>2. PICK b \in Branches(ast) : d \in Finding(b)
  BY DEF IInv, High
<1>3. c.branch = a /\ d.branch = b /\ NeverCompiled(a) /\ NeverCompiled(b)
  <2>1. c.branch = a /\ d.branch = b /\ Active(a) = {} /\ Active(b) = {}
    BY <1>1, <1>2, WhatAFindingSays DEF High
  <2> QED
    BY <2>1, InactiveIsNotCompiled DEF IInv
<1>4. a # b
  BY <1>1, <1>2, OneFinding
<1>5. PICK f \in File : \E k \in 1..Len(world.blocks[f]) : \E i \in 1..Len(ast[f][k]) :
           /\ a = <<f, k, i>> /\ BranchAt(a) = ast[f][k][i] /\ BranchAt(a) \in Branch
           /\ k \in 1..Len(ast[f])
           /\ Lines(a) = {f} \X Body(ast[f][k][i])
  BY BranchOnFile, Zenon
<1>k. PICK k \in 1..Len(world.blocks[f]) : \E i \in 1..Len(ast[f][k]) :
        a = <<f, k, i>> /\ k \in 1..Len(ast[f]) /\ Lines(a) = {f} \X Body(ast[f][k][i])
  BY <1>5
<1>6. PICK i \in 1..Len(ast[f][k]) :
        a = <<f, k, i>> /\ k \in 1..Len(ast[f]) /\ Lines(a) = {f} \X Body(ast[f][k][i])
  BY <1>k
<1>7. PICK g \in File : \E m \in 1..Len(world.blocks[g]) : \E j \in 1..Len(ast[g][m]) :
           /\ b = <<g, m, j>> /\ BranchAt(b) = ast[g][m][j] /\ BranchAt(b) \in Branch
           /\ m \in 1..Len(ast[g])
           /\ Lines(b) = {g} \X Body(ast[g][m][j])
  BY BranchOnFile, Zenon
<1>m. PICK m \in 1..Len(world.blocks[g]) : \E j \in 1..Len(ast[g][m]) :
        b = <<g, m, j>> /\ m \in 1..Len(ast[g]) /\ Lines(b) = {g} \X Body(ast[g][m][j])
  BY <1>7
<1>8. PICK j \in 1..Len(ast[g][m]) :
        b = <<g, m, j>> /\ m \in 1..Len(ast[g]) /\ Lines(b) = {g} \X Body(ast[g][m][j])
  BY <1>m
<1>9. SUFFICES ASSUME NEW line \in Body(ast[f][k][i]), line \in Body(ast[g][m][j]), f = g
               PROVE  FALSE
  <2>1. SUFFICES ASSUME NEW x \in Lines(a), x \in Lines(b) PROVE FALSE
    BY <1>3
  <2>2. PICK line \in Body(ast[f][k][i]) : x = <<f, line>>
    BY <1>6
  <2>3. f = g /\ line \in Body(ast[g][m][j])
    BY <1>8, <2>1, <2>2
  <2> QED
    BY <1>9, <2>3
<1>10. /\ \A n \in 1..Len(world.blocks[f]) :
            world.blocks[f][n] \in Seq(Branch) /\ WellFormed(world.blocks[f][n])
       /\ \A n \in 1..Len(ast[f]) : Reading(ast[f][n], world.blocks[f][n])
  BY WorldTypes, BlocksAreReadings DEF IInv
<1>11. CASE k = m
  <2>1. i # j /\ (i < j \/ j < i)
    <3>1. Len(ast[f][k]) \in Nat
      BY <1>6, <1>10 DEF Reading
    <3>2. i \in Nat /\ j \in Nat
      BY <1>9, <1>11, <3>1
    <3>3. i # j
      BY <1>4, <1>6, <1>8, <1>9, <1>11
    <3> QED
      BY <3>2, <3>3
  <2>2. Body(ast[f][k][i]) \cap Body(ast[f][k][j]) = {}
    <3>1. /\ world.blocks[f][k] \in Seq(Branch) /\ WellFormed(world.blocks[f][k])
          /\ Reading(ast[f][k], world.blocks[f][k])
          /\ i \in 1..Len(ast[f][k]) /\ j \in 1..Len(ast[f][k])
      BY <1>6, <1>9, <1>10, <1>11
    <3>2. CASE i < j
      BY <3>1, <3>2, ReadBodiesApart
    <3>3. CASE j < i
      BY <3>1, <3>3, ReadBodiesApart
    <3> QED
      BY <2>1, <3>2, <3>3
  <2> QED
    BY <1>9, <1>11, <2>2
<1>12. CASE k # m
  <2> DEFINE one == world.blocks[f][k]
             two == world.blocks[f][m]
  <2>0. /\ one \in Seq(Branch) /\ WellFormed(one) /\ Reading(ast[f][k], one)
        /\ two \in Seq(Branch) /\ WellFormed(two) /\ Reading(ast[f][m], two)
        /\ i \in 1..Len(ast[f][k]) /\ j \in 1..Len(ast[f][m])
        /\ line \in Body(ast[f][k][i]) /\ line \in Body(ast[f][m][j])
        /\ m \in 1..Len(world.blocks[f])
    BY <1>6, <1>8, <1>9, <1>10
  <2>1. Apart(one, two) \/ Apart(two, one)
    BY <1>6, <1>12, <2>0, WorldsAssumption DEF IInv
  <2>2. Len(ast[f][k]) # 0 /\ Len(ast[f][m]) # 0
    BY <2>0
  <2>3. /\ CompiledLine(world, <<f, one[1].start>>)
        /\ CompiledLine(world, <<f, two[1].start>>)
    BY <1>6, <2>0, <2>2, MappedIsHeard
  <2> HIDE DEF one, two
  <2>4. CASE Within(two, one)
    <3>1. two[1].start \in Body(ast[f][k][i])
      BY <2>0, <2>4, InnerOpensInBranch
    <3> QED
      BY <1>3, <1>6, <2>3, <3>1 DEF NeverCompiled
  <2>5. CASE Within(one, two)
    <3>1. one[1].start \in Body(ast[f][m][j])
      BY <2>0, <2>5, InnerOpensInBranch
    <3> QED
      BY <1>3, <1>8, <1>9, <2>3, <3>1 DEF NeverCompiled
  <2>6. /\ one[1].start < line /\ line <= Last(one).end
        /\ two[1].start < line /\ line <= Last(two).end
        /\ line \in Nat /\ one[1].start \in Nat /\ two[1].start \in Nat
        /\ Last(one).end \in Nat /\ Last(two).end \in Nat
    BY <2>0, LineWithin
  <2>7. CASE Last(one).end < two[1].start \/ Last(two).end < one[1].start
    BY <2>6, <2>7
  <2> QED
    BY <2>1, <2>4, <2>5, <2>7 DEF Apart
<1> QED
  BY <1>11, <1>12

(* correlator.py: the lines that HIGH findings promise to save, although   *)
(* they are just added up, are that many lines.                            *)
THEOREM SavedAreDistinct == Spec => []SavedLinesAreDistinct
<1>1. IInv => SavedLinesAreDistinct
  <2> SUFFICES ASSUME IInv, output.written, PlainWorld
               PROVE  output.highLoc = Cardinality(LinesOf(High(dead)))
    BY DEF SavedLinesAreDistinct, LinesOf
  <2>1. IsFiniteSet(High(dead))
    BY FS_Subset DEF IInv, High
  <2>2. ASSUME NEW d \in High(dead)
        PROVE  IsFiniteSet(Lines(d.branch)) /\ d.loc = Cardinality(Lines(d.branch))
    <3>1. PICK b \in Branches(ast) : d \in Finding(b)
      BY DEF IInv, High
    <3> QED
      BY <3>1, FindingCounts
  <2>3. LoC(High(dead)) = Cardinality(LinesOf(High(dead)))
    BY <2>1, <2>2, HighAreApart, SumIsCardinality
  <2>4. output = Figures(dead)
    BY DEF IInv
  <2> QED
    BY <2>3, <2>4 DEF Figures
<1> QED
  BY <1>1, Inductive, PTL
=============================================================================
