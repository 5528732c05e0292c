------------------------ MODULE Preprocessor_proofs -------------------------
(***************************************************************************)
(* What a hook of the plugin can rely on: the preprocessor's stack of open *)
(* conditionals matches the nesting of the text of every file it is in the *)
(* middle of, whatever is included and skipped.                            *)
(***************************************************************************)
EXTENDS Preprocessor, SequenceTheorems, FiniteSetTheorems, TLAPS

-----------------------------------------------------------------------------
(* Counting directives line by line.                                       *)
LEMMA CountStep ==
  ASSUME NEW t, NEW S
  PROVE  /\ Count(t, 0, S) = 0
         /\ \A k \in Nat : Count(t, k, S) \in Nat
         /\ \A k \in Nat : Count(t, k + 1, S)
                             = IF t[k + 1] \in S THEN Count(t, k, S) + 1 ELSE Count(t, k, S)
<1> DEFINE At(k) == {i \in 1..k : t[i] \in S}
<1>1. ASSUME NEW k \in Nat
      PROVE  IsFiniteSet(At(k)) /\ Cardinality(At(k)) \in Nat
  <2>1. IsFiniteSet(1..k) /\ At(k) \in SUBSET (1..k)
    BY FS_Interval
  <2> QED
    BY <2>1, FS_Subset, FS_CardinalityType
<1>2. ASSUME NEW k \in Nat
      PROVE  Cardinality(At(k + 1)) = IF t[k + 1] \in S THEN Cardinality(At(k)) + 1
                                                        ELSE Cardinality(At(k))
  <2>1. CASE t[k + 1] \in S
    <3>1. At(k + 1) = At(k) \cup {k + 1} /\ k + 1 \notin At(k)
      BY <2>1
    <3> QED
      BY <1>1, <2>1, <3>1, FS_AddElement
  <2>2. CASE t[k + 1] \notin S
    <3>1. At(k + 1) = At(k)
      BY <2>2
    <3> QED
      BY <2>2, <3>1
  <2> QED
    BY <2>1, <2>2
<1>3. Cardinality(At(0)) = 0
  <2>1. At(0) = {}
    OBVIOUS
  <2> QED
    BY <2>1, FS_EmptySet
<1> QED
  BY <1>1, <1>2, <1>3 DEF Count

(* The depth goes up at an opening directive, down at an #endif and stays  *)
(* at any other line.                                                      *)
LEMMA DepthStep ==
  ASSUME NEW t
  PROVE  /\ Depth(t, 0) = 0
         /\ \A k \in Nat : Depth(t, k) \in Int
         /\ \A k \in Nat :
              /\ t[k + 1] \in Openers => Depth(t, k + 1) = Depth(t, k) + 1
              /\ t[k + 1] = "endif" => Depth(t, k + 1) = Depth(t, k) - 1
              /\ t[k + 1] \notin Openers \cup {"endif"} => Depth(t, k + 1) = Depth(t, k)
<1>1. "endif" \notin Openers
  BY DEF Openers
<1>5. ASSUME NEW S
      PROVE  /\ \A k \in Nat : Count(t, k, S) \in Nat
             /\ \A k \in Nat : Count(t, k + 1, S)
                                 = IF t[k + 1] \in S THEN Count(t, k, S) + 1 ELSE Count(t, k, S)
  BY CountStep
<1>2. ASSUME NEW k \in Nat
      PROVE  /\ t[k + 1] \in Openers => Depth(t, k + 1) = Depth(t, k) + 1
             /\ t[k + 1] = "endif" => Depth(t, k + 1) = Depth(t, k) - 1
             /\ t[k + 1] \notin Openers \cup {"endif"} => Depth(t, k + 1) = Depth(t, k)
  <2> DEFINE o == Count(t, k, Openers)
             e == Count(t, k, {"endif"})
             p == Count(t, k + 1, Openers)
             q == Count(t, k + 1, {"endif"})
  <2>1. o \in Nat /\ e \in Nat
    BY <1>2, <1>5
  <2>2. p = IF t[k + 1] \in Openers THEN o + 1 ELSE o
    BY <1>2, <1>5
  <2>3. q = IF t[k + 1] \in {"endif"} THEN e + 1 ELSE e
    BY <1>2, <1>5
  <2>4. Depth(t, k) = o - e /\ Depth(t, k + 1) = p - q
    BY DEF Depth
  <2> HIDE DEF o, e, p, q
  <2> QED
    BY <1>1, <2>1, <2>2, <2>3, <2>4
<1>3. ASSUME NEW k \in Nat PROVE Depth(t, k) \in Int
  <2>1. Count(t, k, Openers) \in Nat /\ Count(t, k, {"endif"}) \in Nat
    BY CountStep
  <2> QED
    BY <2>1 DEF Depth
<1>4. Depth(t, 0) = 0
  BY CountStep DEF Depth
<1> QED
  BY <1>2, <1>3, <1>4

(* What well nested text has: no depth below zero, none left at the end,   *)
(* and arms only inside a conditional.                                     *)
LEMMA NestedText ==
  ASSUME NEW t \in Seq(Directive), WellNested(t)
  PROVE  /\ \A k \in 0..Len(t) : Depth(t, k) >= 0
         /\ Depth(t, Len(t)) = 0
         /\ \A k \in 1..Len(t) : t[k] \in Arms => Depth(t, k) > 0
<1>1. Len(t) \in Nat
  BY LenProperties
<1>2. \A k \in Nat : Count(t, k, Openers) \in Nat /\ Count(t, k, {"endif"}) \in Nat
  BY CountStep
<1>3. \A k \in 1..Len(t) : Depth(t, k) >= 0
  BY <1>1, <1>2 DEF WellNested, Depth
<1>4. Depth(t, Len(t)) = 0
  BY <1>1, <1>2 DEF WellNested, Depth
<1>5. Depth(t, 0) = 0
  BY DepthStep
<1>6. \A k \in 0..Len(t) : k = 0 \/ k \in 1..Len(t)
  BY <1>1
<1> QED
  BY <1>3, <1>4, <1>5, <1>6 DEF WellNested

-----------------------------------------------------------------------------
(* Line k of text t is inside the conditional opened on line s.            *)
Inside(t, s, k) == s <= k /\ \A x \in s..k : Depth(t, x) >= Depth(t, s)

(* The conditional opened on line s of text t is open before line L is     *)
(* read, and r deep.                                                       *)
Open(s, t, L, r) ==
  s \in 1..L-1 /\ t[s] \in Openers /\ Depth(t, s) = r /\ Inside(t, s, L - 1)

(* From lo to hi are the conditionals that text t has open where place p   *)
(* of it is reached.                                                       *)
AllOpen(t, p, lo, hi, cs) ==
  /\ p.line <= Len(t) + 1 /\ hi = lo + Depth(t, p.line - 1)
  /\ \A j \in lo+1..hi : cs[j].file = p.file /\ Open(cs[j].line, t, p.line, j - lo)

(* The i-th file of the include stack has those above base[i].             *)
Level(base, i) == AllOpen(text[inc[i].file], inc[i], base[i], base[i + 1], conds)

Nested(base) ==
  /\ base \in [1..Len(inc)+1 -> Nat]
  /\ base[1] = 0 /\ base[Len(inc) + 1] = Len(conds)
  /\ \A i, k \in 1..Len(inc)+1 : i <= k => base[i] <= base[k]
  /\ \A i \in 1..Len(inc) : Level(base, i)

PPInv ==
  /\ text \in Texts /\ PPTypeOK
  /\ \A j \in 1..Len(conds) : conds[j].skipped => ~conds[j].live
  /\ \A j \in 1..Len(conds)-1 : conds[j].skipped => conds[j + 1].skipped
  /\ \E base \in [1..Len(inc)+1 -> Nat] : Nested(base)

(* The steps that IfdefMapper takes the preprocessor with.                 *)
PPNext ==
  \/ Enter \/ EnterSkipped \/ NextArm \/ PassArm \/ Leave \/ LeaveSkipped
  \/ Include \/ SkipLine \/ EndOfFile

Cond == [file : File, line : Nat \ {0}, skipped : BOOLEAN, live : BOOLEAN, took : Nat]
Place == [file : File, line : Nat \ {0}]

(* The text of a file is a sequence of directives that are well nested.    *)
LEMMA TextsNested ==
  ASSUME text \in Texts, NEW f \in File
  PROVE  text[f] \in Seq(Directive) /\ WellNested(text[f])
BY TextsAssumption

(* The file being read, and the line of it.                                *)
LEMMA HereTyped ==
  ASSUME PPInv, Reading
  PROVE  /\ Len(inc) \in Nat \ {0} /\ Here = inc[Len(inc)] /\ Here \in Place
         /\ Here.file \in File /\ Here.line \in Nat \ {0}
         /\ text[Here.file] \in Seq(Directive) /\ WellNested(text[Here.file])
         /\ Len(text[Here.file]) \in Nat
         /\ ~AtEnd => Here.line \in 1..Len(text[Here.file]) /\ Word \in Directive
<1>1. inc \in Seq(Place) /\ inc # <<>>
  BY DEF PPInv, PPTypeOK, Place, Reading
<1>2. Len(inc) \in Nat \ {0}
  BY <1>1, EmptySeq
<1>3. Here = inc[Len(inc)]
  BY DEF Here, Last
<1>4. Here \in Place
  BY <1>1, <1>2, <1>3, ElementOfSeq
<1>5. Here.file \in File /\ Here.line \in Nat \ {0}
  BY <1>4 DEF Place
<1>6. text[Here.file] \in Seq(Directive) /\ WellNested(text[Here.file])
  BY <1>5, TextsNested DEF PPInv
<1>7. Len(text[Here.file]) \in Nat
  BY <1>6, LenProperties
<1>8. ~AtEnd => Here.line \in 1..Len(text[Here.file]) /\ Word \in Directive
  <2>1. ~AtEnd => Here.line \in 1..Len(text[Here.file])
    BY <1>5, <1>7 DEF AtEnd
  <2> QED
    BY <1>6, <2>1, ElementOfSeq DEF Word
<1> QED
  BY <1>2, <1>3, <1>4, <1>5, <1>6, <1>7, <1>8

(* A conditional stays open while the text is as deep as it, and an opening*)
(* directive opens one.                                                    *)
LEMMA OpenStays ==
  ASSUME NEW t, NEW s, NEW L \in Nat \ {0}, NEW r,
         Open(s, t, L, r), Depth(t, L) >= r
  PROVE  Open(s, t, L + 1, r)
<1>1. \A x \in s..L : x \in s..L-1 \/ x = L
  BY DEF Open
<1>2. Inside(t, s, L)
  BY <1>1 DEF Open, Inside
<1> QED
  BY <1>2 DEF Open

LEMMA OpenStarts ==
  ASSUME NEW t, NEW L \in Nat \ {0}, t[L] \in Openers
  PROVE  Open(L, t, L + 1, Depth(t, L))
<1>1. \A x \in L..L : x = L
  OBVIOUS
<1>2. Depth(t, L) \in Int
  BY DepthStep
<1> QED
  BY <1>1, <1>2 DEF Open, Inside

(* The file being read is the top level, its conditionals the last ones.   *)
LEMMA TopLevel ==
  ASSUME NEW base, PPInv, Nested(base), Reading
  PROVE  /\ Len(conds) \in Nat /\ base[Len(inc)] \in Nat
         /\ Here.line <= Len(text[Here.file]) + 1
         /\ Len(conds) = base[Len(inc)] + Depth(text[Here.file], Here.line - 1)
         /\ \A j \in base[Len(inc)]+1..Len(conds) :
              /\ conds[j].file = Here.file
              /\ Open(conds[j].line, text[Here.file], Here.line, j - base[Len(inc)])
<1>1. Len(inc) \in Nat \ {0} /\ Here = inc[Len(inc)]
  BY HereTyped
<1>2. Len(conds) \in Nat
  BY LenProperties DEF PPInv, PPTypeOK
<1>3. Len(inc) \in 1..Len(inc) /\ Len(inc) \in 1..Len(inc)+1
  BY <1>1
<1>4. Level(base, Len(inc)) /\ base[Len(inc) + 1] = Len(conds) /\ base[Len(inc)] \in Nat
  BY <1>3 DEF Nested
<1> QED
  BY <1>1, <1>2, <1>4 DEF Level, AllOpen

LEMMA NextLine ==
  ASSUME NEW p \in Place
  PROVE  /\ [p EXCEPT !.line = @ + 1] \in Place
         /\ [p EXCEPT !.line = @ + 1].file = p.file
         /\ [p EXCEPT !.line = @ + 1].line = p.line + 1
BY DEF Place

(* Reading a line takes the top level on and leaves the ones below alone.  *)
LEMMA TopMoves ==
  ASSUME NEW base, PPInv, Nested(base), Reading, ~AtEnd, Advance, UNCHANGED text,
         Len(conds') \in Nat,
         Len(conds') = base[Len(inc)] + Depth(text[Here.file], Here.line),
         \A j \in 1..Len(conds') : j <= Len(conds) =>
           conds'[j].file = conds[j].file /\ conds'[j].line = conds[j].line,
         \A j \in 1..Len(conds') : j > Len(conds) =>
           /\ conds'[j].file = Here.file /\ conds'[j].line = Here.line
           /\ Word \in Openers /\ j = Len(conds')
  PROVE  /\ inc' \in Seq(Place)
         /\ \E b \in [1..Len(inc)+1 -> Nat]' : Nested(b)'
<1>0. PICK m, t, L, n, b : /\ m = Len(inc) /\ t = text[Here.file] /\ L = Here.line
                           /\ n = Len(conds') /\ b = [base EXCEPT ![m + 1] = n]
  OBVIOUS
<1>1. /\ m \in Nat \ {0} /\ Here = inc[m] /\ L \in 1..Len(t) /\ Len(t) \in Nat
      /\ Here \in Place /\ Here.file \in File /\ L \in Nat \ {0}
      /\ t \in Seq(Directive) /\ WellNested(t)
      /\ m \in 1..m+1 /\ m + 1 \in 1..m+1 /\ \A i \in 1..m : i \in 1..m+1
  BY <1>0, HereTyped
<1>2. /\ inc' \in Seq(Place) /\ Len(inc') = m
      /\ inc'[m].file = Here.file /\ inc'[m].line = L + 1
      /\ \A i \in 1..m : i # m => inc'[i] = inc[i]
  <2> DEFINE e == [inc[m] EXCEPT !.line = @ + 1]
  <2>1. inc \in Seq(Place) /\ m \in 1..Len(inc)
    BY <1>0, <1>1 DEF PPInv, PPTypeOK, Place
  <2>2. e \in Place /\ e.file = Here.file /\ e.line = L + 1
    <3>1. inc[m] \in Place
      BY <1>1
    <3> QED
      BY <1>0, <1>1, <3>1, NextLine
  <2>3. inc' = [inc EXCEPT ![m] = e]
    BY <1>0 DEF Advance
  <2> HIDE DEF e
  <2> QED
    BY <2>1, <2>2, <2>3, <1>0, ExceptSeq
<1>3. /\ Len(conds) \in Nat /\ base[m] \in Nat
      /\ \A j \in base[m]+1..Len(conds) :
           conds[j].file = Here.file /\ Open(conds[j].line, t, L, j - base[m])
  BY <1>0, TopLevel
<1>4. /\ base \in [1..m+1 -> Nat] /\ base[1] = 0
      /\ \A i, k \in 1..m+1 : i <= k => base[i] <= base[k]
      /\ \A i \in 1..m : Level(base, i)
      /\ base[m + 1] = Len(conds)
  BY <1>0 DEF Nested
<1>5. /\ n \in Nat /\ n = Len(conds') /\ n = base[m] + Depth(t, L)
      /\ Depth(t, L) \in Int /\ Depth(t, L) >= 0
  <2>1. L \in 0..Len(t)
    BY <1>1
  <2> QED
    BY <1>0, <1>1, <2>1, NestedText, DepthStep
<1>6. /\ b \in [1..m+1 -> Nat] /\ b[m + 1] = n /\ b[1] = 0
      /\ \A i \in 1..m : b[i] = base[i]
  <2>1. /\ b \in [1..m+1 -> Nat] /\ b[m + 1] = n
        /\ \A i \in 1..m+1 : i # m + 1 => b[i] = base[i]
    BY <1>0, <1>1, <1>4, <1>5
  <2>2. 1 \in 1..m /\ \A i \in 1..m : i # m + 1 /\ i \in 1..m+1
    BY <1>1
  <2> QED
    BY <1>4, <2>1, <2>2
<1>7. \A i, k \in 1..m+1 : i <= k => b[i] <= b[k]
  <2>1. b[m] <= b[m + 1]
    BY <1>1, <1>3, <1>5, <1>6
  <2>2. \A i \in 1..m : b[i] <= b[m]
    BY <1>1, <1>4, <1>6
  <2>3. \A i \in 1..m : b[i] <= b[m + 1]
    BY <1>1, <1>6, <2>1, <2>2
  <2>4. \A i, k \in 1..m : i <= k => b[i] <= b[k]
    <3>1. \A i, k \in 1..m : i <= k => base[i] <= base[k]
      BY <1>1, <1>4
    <3> QED
      BY <1>6, <3>1
  <2>5. \A i \in 1..m+1 : i \in 1..m \/ i = m + 1
    BY <1>1
  <2>6. \A i \in 1..m : ~(m + 1 <= i)
    BY <1>1
  <2>7. b[m + 1] <= b[m + 1]
    BY <1>5, <1>6
  <2> QED
    BY <2>3, <2>4, <2>5, <2>6, <2>7
<1>8. ASSUME NEW i \in 1..m, i # m
      PROVE  Level(b, i)'
  <2>1. Level(base, i) /\ inc'[i] = inc[i] /\ i + 1 \in 1..m
    BY <1>1, <1>2, <1>4, <1>8
  <2>2. b[i] = base[i] /\ b[i + 1] = base[i + 1] /\ base[i + 1] <= base[m]
    BY <1>1, <1>4, <1>6, <2>1
  <2>3. base[i] \in Nat /\ base[i + 1] \in Nat
    BY <1>1, <1>4, <2>1
  <2>4. base[m] <= Len(conds) /\ base[m] <= n
    <3>1. base[m] <= base[m + 1]
      BY <1>1, <1>4
    <3> QED
      BY <1>3, <1>4, <1>5, <3>1
  <2>5. \A j \in base[i]+1..base[i + 1] : j \in 1..n /\ j <= Len(conds)
    <3>1. PICK lo, hi : lo = base[i] /\ hi = base[i + 1]
      OBVIOUS
    <3>2. lo \in Nat /\ hi \in Nat /\ hi <= n /\ hi <= Len(conds)
      BY <1>3, <1>5, <2>2, <2>3, <2>4, <3>1
    <3>3. \A j \in lo+1..hi : j \in 1..n /\ j <= Len(conds)
      BY <1>3, <1>5, <3>2
    <3> QED
      BY <3>1, <3>3
  <2>6. \A j \in base[i]+1..base[i + 1] :
          conds'[j].file = conds[j].file /\ conds'[j].line = conds[j].line
    BY <1>5, <2>5
  <2>7. AllOpen(text[inc[i].file], inc[i], base[i], base[i + 1], conds')
    BY <2>1, <2>6 DEF Level, AllOpen
  <2> QED
    BY <2>1, <2>2, <2>7 DEF Level
<1>9. Level(b, m)'
  <2>1. text'[inc'[m].file] = t
    BY <1>0, <1>2
  <2>2. L + 1 <= Len(t) + 1 /\ L + 1 - 1 = L
    BY <1>1
  <2>3. b[m + 1] = b[m] + Depth(t, L) /\ b[m] = base[m] /\ b[m + 1] = n
    BY <1>1, <1>5, <1>6
  <2>4. ASSUME NEW j \in base[m]+1..n
        PROVE  conds'[j].file = Here.file /\ Open(conds'[j].line, t, L + 1, j - base[m])
    <3>0. j \in 1..n
      BY <1>3, <2>4
    <3>1. CASE j <= Len(conds)
      <4>1. conds[j].file = Here.file /\ Open(conds[j].line, t, L, j - base[m])
        BY <1>3, <2>4, <3>1
      <4>2. Depth(t, L) >= j - base[m]
        BY <1>3, <1>5, <2>4
      <4>3. conds'[j].file = conds[j].file /\ conds'[j].line = conds[j].line
        BY <1>5, <3>0, <3>1
      <4>4. Open(conds[j].line, t, L + 1, j - base[m])
        BY <1>1, <4>1, <4>2, OpenStays
      <4> QED
        BY <4>1, <4>3, <4>4
    <3>2. CASE j > Len(conds)
      <4>1. conds'[j].file = Here.file /\ conds'[j].line = L /\ Word \in Openers /\ j = n
        BY <1>0, <1>5, <3>0, <3>2
      <4>2. j - base[m] = Depth(t, L)
        BY <1>3, <1>5, <4>1
      <4>3. Open(L, t, L + 1, Depth(t, L))
        <5>1. t[L] \in Openers
          BY <1>0, <4>1 DEF Word
        <5> QED
          BY <1>1, <5>1, OpenStarts
      <4> QED
        BY <4>1, <4>2, <4>3
    <3> QED
      BY <1>3, <3>0, <3>1, <3>2
  <2>5. AllOpen(t, inc'[m], b[m], b[m + 1], conds')
    <3>1. inc'[m].line = L + 1 /\ inc'[m].line - 1 = L /\ inc'[m].file = Here.file
      BY <1>1, <1>2, <2>2
    <3>2. inc'[m].line <= Len(t) + 1 /\ b[m + 1] = b[m] + Depth(t, inc'[m].line - 1)
      BY <2>2, <2>3, <3>1
    <3>3. \A j \in b[m]+1..b[m + 1] :
            conds'[j].file = inc'[m].file /\ Open(conds'[j].line, t, inc'[m].line, j - b[m])
      BY <2>3, <2>4, <3>1
    <3> QED
      BY <3>2, <3>3 DEF AllOpen
  <2> QED
    BY <2>1, <2>5 DEF Level
<1>10. Nested(b)'
  BY <1>2, <1>5, <1>6, <1>7, <1>8, <1>9 DEF Nested
<1> QED
  BY <1>2, <1>6, <1>10

-----------------------------------------------------------------------------
(* Which conditionals are skipped: none in text that is compiled, and all  *)
(* that are opened within a skipped one.                                   *)
SkipsOnTop(cs) ==
  /\ \A j \in 1..Len(cs) : cs[j].skipped => ~cs[j].live
  /\ \A j \in 1..Len(cs)-1 : cs[j].skipped => cs[j + 1].skipped

(* What is left to show of a step that reads one line.                     *)
LEMMA PPMoves ==
  ASSUME PPInv, Reading, ~AtEnd, Advance, UNCHANGED text,
         conds' \in Seq(Cond), SkipsOnTop(conds'), entered' \in [File -> Seq(Nat \ {0})],
         Len(conds') = Len(conds) + Depth(text[Here.file], Here.line)
                                  - Depth(text[Here.file], Here.line - 1),
         \A j \in 1..Len(conds') : j <= Len(conds) =>
           conds'[j].file = conds[j].file /\ conds'[j].line = conds[j].line,
         \A j \in 1..Len(conds') : j > Len(conds) =>
           /\ conds'[j].file = Here.file /\ conds'[j].line = Here.line
           /\ Word \in Openers /\ j = Len(conds')
  PROVE  PPInv'
<1>1. PICK base \in [1..Len(inc)+1 -> Nat] : Nested(base)
  BY DEF PPInv
<1>2. Len(conds') \in Nat
  BY LenProperties
<1>3. Len(conds') = base[Len(inc)] + Depth(text[Here.file], Here.line)
  <2>1. /\ Len(conds) = base[Len(inc)] + Depth(text[Here.file], Here.line - 1)
        /\ base[Len(inc)] \in Nat
    BY <1>1, TopLevel
  <2>2. Here.line \in Nat /\ Here.line - 1 \in Nat
    BY HereTyped
  <2>3. /\ Depth(text[Here.file], Here.line) \in Int
        /\ Depth(text[Here.file], Here.line - 1) \in Int
    BY <2>2, DepthStep
  <2> QED
    BY <2>1, <2>3
<1>4. inc' \in Seq(Place) /\ \E b \in [1..Len(inc)+1 -> Nat]' : Nested(b)'
  BY <1>1, <1>2, <1>3, TopMoves
<1>5. PPTypeOK'
  BY <1>4 DEF PPInv, PPTypeOK, Place, Cond
<1> QED
  BY <1>4, <1>5 DEF PPInv, SkipsOnTop

(* How deep the line being read takes the text.                            *)
LEMMA DepthHere ==
  ASSUME PPInv, Reading, ~AtEnd
  PROVE  LET t == text[Here.file]  L == Here.line IN
         /\ Depth(t, L) \in Int /\ Depth(t, L - 1) \in Int
         /\ Word \in Openers => Depth(t, L) = Depth(t, L - 1) + 1
         /\ Word = "endif" => Depth(t, L) = Depth(t, L - 1) - 1
         /\ Word \notin Openers \cup {"endif"} => Depth(t, L) = Depth(t, L - 1)
         /\ Depth(t, L) >= 0
         /\ Word \in Arms => Depth(t, L) > 0
<1>0. PICK t, L, k : t = text[Here.file] /\ L = Here.line /\ k = L - 1
  OBVIOUS
<1>1. /\ L \in 1..Len(t) /\ Len(t) \in Nat /\ t \in Seq(Directive) /\ WellNested(t)
      /\ L \in Nat /\ k \in Nat /\ L = k + 1 /\ L \in 0..Len(t)
  BY <1>0, HereTyped
<1>2. Depth(t, L) >= 0 /\ (t[L] \in Arms => Depth(t, L) > 0)
  BY <1>1, NestedText
<1>3. /\ Depth(t, L) \in Int /\ Depth(t, k) \in Int
      /\ t[L] \in Openers => Depth(t, L) = Depth(t, k) + 1
      /\ t[L] = "endif" => Depth(t, L) = Depth(t, k) - 1
      /\ t[L] \notin Openers \cup {"endif"} => Depth(t, L) = Depth(t, k)
  BY <1>1, DepthStep
<1>4. Word = t[L]
  BY <1>0 DEF Word
<1> QED
  BY <1>0, <1>2, <1>3, <1>4

(* The last conditional open is the one an arm or an #endif belongs to.    *)
LEMMA TopIsOwn ==
  ASSUME PPInv, Reading, ~AtEnd, Word \in Arms \cup {"endif"}
  PROVE  /\ Len(conds) \in Nat \ {0} /\ Last(conds) \in Cond
         /\ Last(conds) = conds[Len(conds)] /\ Last(conds).file = Here.file
         /\ Open(Last(conds).line, text[Here.file], Here.line,
                 Depth(text[Here.file], Here.line - 1))
<1>0. PICK t, L, k : t = text[Here.file] /\ L = Here.line /\ k = L - 1
  OBVIOUS
<1>1. PICK base \in [1..Len(inc)+1 -> Nat] : Nested(base)
  BY DEF PPInv
<1>2. /\ Len(conds) \in Nat /\ base[Len(inc)] \in Nat
      /\ Len(conds) = base[Len(inc)] + Depth(t, k)
      /\ \A j \in base[Len(inc)]+1..Len(conds) :
           conds[j].file = Here.file /\ Open(conds[j].line, t, L, j - base[Len(inc)])
  BY <1>0, <1>1, TopLevel
<1>3. Depth(t, k) \in Int /\ Depth(t, k) > 0
  <2>1. "endif" \notin Arms /\ \A a \in Arms : a \notin Openers \cup {"endif"}
    BY DEF Arms, Openers
  <2> QED
    BY <1>0, <2>1, DepthHere
<1>4. /\ Len(conds) \in base[Len(inc)]+1..Len(conds) /\ Len(conds) \in Nat \ {0}
      /\ Len(conds) - base[Len(inc)] = Depth(t, k) /\ Len(conds) \in 1..Len(conds)
  BY <1>2, <1>3
<1>5. conds \in Seq(Cond) /\ conds[Len(conds)] \in Cond
  <2>1. conds \in Seq(Cond)
    BY DEF PPInv, PPTypeOK, Cond
  <2> QED
    BY <1>4, <2>1, ElementOfSeq
<1>6. conds[Len(conds)].file = Here.file /\ Open(conds[Len(conds)].line, t, L, Depth(t, k))
  BY <1>2, <1>4
<1> QED
  BY <1>0, <1>4, <1>5, <1>6 DEF Last

-----------------------------------------------------------------------------
(* The ends of a sequence.                                                 *)
LEMMA FrontIs ==
  ASSUME NEW S, NEW s \in Seq(S), s # <<>>
  PROVE  /\ Front(s) \in Seq(S) /\ Len(Front(s)) = Len(s) - 1 /\ Len(s) \in Nat \ {0}
         /\ \A i \in 1..Len(s)-1 : Front(s)[i] = s[i]
         /\ Last(s) \in S /\ Last(s) = s[Len(s)]
<1>1. Len(s) \in Nat \ {0} /\ \A i \in 1..Len(s) : s[i] \in S
  BY EmptySeq, ElementOfSeq
<1>2. \A i \in 1..Len(s)-1 : i \in 1..Len(s)
  BY <1>1
<1>3. /\ SubSeq(s, 1, Len(s) - 1) \in Seq(S)
      /\ Len(SubSeq(s, 1, Len(s) - 1)) = IF 1 <= Len(s) - 1 THEN Len(s) - 1 - 1 + 1 ELSE 0
      /\ \A i \in 1..Len(s)-1-1+1 : SubSeq(s, 1, Len(s) - 1)[i] = s[1 + i - 1]
  BY <1>1, <1>2, SubSeqProperties
<1>4. Len(Front(s)) = Len(s) - 1 /\ \A i \in 1..Len(s)-1 : Front(s)[i] = s[i]
  <2>1. \A i \in 1..Len(s)-1 : i \in 1..Len(s)-1-1+1 /\ 1 + i - 1 = i
    BY <1>1
  <2>2. (IF 1 <= Len(s) - 1 THEN Len(s) - 1 - 1 + 1 ELSE 0) = Len(s) - 1
    <3>1. \A n \in Nat \ {0} : (IF 1 <= n - 1 THEN n - 1 - 1 + 1 ELSE 0) = n - 1
      <4> TAKE n \in Nat \ {0}
      <4>1. CASE n = 1
        BY <4>1
      <4>2. CASE n >= 2
        BY <4>2
      <4> QED
        BY <4>1, <4>2
    <3> QED
      BY <1>1, <3>1
  <2> QED
    BY <1>3, <2>1, <2>2 DEF Front
<1>5. Len(s) \in 1..Len(s)
  BY <1>1
<1>6. Last(s) = s[Len(s)] /\ s[Len(s)] \in S
  BY <1>1, <1>5 DEF Last
<1> QED
  BY <1>1, <1>3, <1>4, <1>6 DEF Front

LEMMA SetTopIs ==
  ASSUME NEW S, NEW s \in Seq(S), s # <<>>, NEW e \in S
  PROVE  /\ SetTop(s, e) \in Seq(S) /\ Len(SetTop(s, e)) = Len(s)
         /\ Len(s) \in Nat \ {0} /\ SetTop(s, e)[Len(s)] = e
         /\ \A i \in 1..Len(s)-1 : SetTop(s, e)[i] = s[i]
<1>1. /\ Front(s) \in Seq(S) /\ Len(Front(s)) = Len(s) - 1 /\ Len(s) \in Nat \ {0}
      /\ \A i \in 1..Len(s)-1 : Front(s)[i] = s[i]
  BY FrontIs
<1>2. /\ Append(Front(s), e) \in Seq(S) /\ Len(Append(Front(s), e)) = Len(Front(s)) + 1
      /\ \A i \in 1..Len(Front(s)) : Append(Front(s), e)[i] = Front(s)[i]
      /\ Append(Front(s), e)[Len(Front(s)) + 1] = e
  BY <1>1, AppendProperties
<1> QED
  BY <1>1, <1>2 DEF SetTop

(* Words are told apart.                                                   *)
LEMMA Words ==
  /\ \A a \in Arms : a \notin Openers \cup {"endif"}
  /\ "endif" \notin Openers /\ "code" \notin Openers \cup {"endif"}
  /\ \A a \in File : a \notin Openers \cup {"endif"} /\ a \notin Arms
BY FileAssumption DEF Arms, Openers, Plain

(* A line that opens a conditional.                                        *)
LEMMA OpensOne ==
  ASSUME PPInv, OnDirective(Openers), Advance, UNCHANGED text,
         NEW c \in Cond, conds' = Append(conds, c),
         c.file = Here.file, c.line = Here.line, c.skipped => ~c.live,
         ~Skipping \/ c.skipped,
         entered' \in [File -> Seq(Nat \ {0})]
  PROVE  PPInv'
<1>1. Reading /\ ~AtEnd /\ Word \in Openers
  BY DEF OnDirective
<1>2. conds \in Seq(Cond) /\ Len(conds) \in Nat /\ SkipsOnTop(conds)
  BY LenProperties DEF PPInv, PPTypeOK, Cond, SkipsOnTop
<1>3. /\ conds' \in Seq(Cond) /\ Len(conds') = Len(conds) + 1
      /\ \A j \in 1..Len(conds) : conds'[j] = conds[j]
      /\ conds'[Len(conds) + 1] = c
  BY <1>2, AppendProperties
<1>4. Len(conds) > 0 /\ conds[Len(conds)].skipped => c.skipped
  <2>1. Len(conds) > 0 => conds # <<>> /\ Last(conds) = conds[Len(conds)] /\ Len(conds) \in 1..Len(conds)
    BY <1>2 DEF Last
  <2> QED
    BY <1>2, <2>1 DEF Skipping, SkipsOnTop
<1>5. SkipsOnTop(conds')
  <2>1. \A j \in 1..Len(conds') : j \in 1..Len(conds) \/ j = Len(conds) + 1
    BY <1>2, <1>3
  <2>2. \A j \in 1..Len(conds')-1 :
          j \in 1..Len(conds) /\ (j = Len(conds) \/ (j \in 1..Len(conds)-1 /\ j + 1 \in 1..Len(conds)))
    BY <1>2, <1>3
  <2>3. \A j \in 1..Len(conds') : conds'[j].skipped => ~conds'[j].live
    BY <1>2, <1>3, <2>1 DEF SkipsOnTop
  <2>4. \A j \in 1..Len(conds')-1 : conds'[j].skipped => conds'[j + 1].skipped
    BY <1>2, <1>3, <1>4, <2>2 DEF SkipsOnTop
  <2> QED
    BY <2>3, <2>4 DEF SkipsOnTop
<1>6. Len(conds') = Len(conds) + Depth(text[Here.file], Here.line)
                               - Depth(text[Here.file], Here.line - 1)
  BY <1>1, <1>2, <1>3, DepthHere
<1>7. \A j \in 1..Len(conds') :
        (j <= Len(conds) => j \in 1..Len(conds)) /\ (j > Len(conds) => j = Len(conds) + 1)
  BY <1>2, <1>3
<1> QED
  BY <1>1, <1>3, <1>5, <1>6, <1>7, PPMoves

(* A line that changes at most what is known of the last conditional.      *)
LEMMA KeepsAll ==
  ASSUME PPInv, Reading, ~AtEnd, Word \notin Openers \cup {"endif"},
         Advance, UNCHANGED <<text, entered>>,
         conds' \in Seq(Cond), Len(conds') = Len(conds), SkipsOnTop(conds'),
         \A j \in 1..Len(conds) :
           conds'[j].file = conds[j].file /\ conds'[j].line = conds[j].line
  PROVE  PPInv'
<1>1. Len(conds) \in Nat /\ entered' \in [File -> Seq(Nat \ {0})]
  BY LenProperties DEF PPInv, PPTypeOK
<1>2. Len(conds') = Len(conds) + Depth(text[Here.file], Here.line)
                               - Depth(text[Here.file], Here.line - 1)
  BY <1>1, DepthHere
<1>3. \A j \in 1..Len(conds') : j \in 1..Len(conds) /\ ~(j > Len(conds))
  BY <1>1
<1> QED
  BY <1>1, <1>2, <1>3, PPMoves

(* A line that ends the last conditional.                                  *)
LEMMA EndsOne ==
  ASSUME PPInv, OnDirective({"endif"}), Advance, UNCHANGED <<text, entered>>,
         conds' = Front(conds)
  PROVE  PPInv'
<1>1. Reading /\ ~AtEnd /\ Word = "endif"
  BY DEF OnDirective
<1>2. /\ conds \in Seq(Cond) /\ conds # <<>> /\ SkipsOnTop(conds)
      /\ entered' \in [File -> Seq(Nat \ {0})]
  <2>1. Len(conds) \in Nat \ {0}
    BY <1>1, TopIsOwn
  <2>2. Len(<<>>) = 0
    BY EmptySeq
  <2> QED
    BY <2>1, <2>2 DEF PPInv, PPTypeOK, Cond, SkipsOnTop
<1>3. /\ conds' \in Seq(Cond) /\ Len(conds') = Len(conds) - 1 /\ Len(conds) \in Nat \ {0}
      /\ \A j \in 1..Len(conds)-1 : conds'[j] = conds[j]
  BY <1>2, FrontIs
<1>4. \A j \in 1..Len(conds') : j \in 1..Len(conds)-1 /\ j \in 1..Len(conds) /\ ~(j > Len(conds))
  BY <1>3
<1>5. \A j \in 1..Len(conds')-1 : j + 1 \in 1..Len(conds') /\ j \in 1..Len(conds')
  BY <1>3
<1>6. SkipsOnTop(conds')
  BY <1>2, <1>3, <1>4, <1>5 DEF SkipsOnTop
<1>7. Len(conds') = Len(conds) + Depth(text[Here.file], Here.line)
                               - Depth(text[Here.file], Here.line - 1)
  BY <1>1, <1>3, DepthHere
<1> QED
  BY <1>1, <1>2, <1>3, <1>4, <1>6, <1>7, PPMoves

(* A line that opens and ends nothing leaves open what was.                *)
LEMMA StaysOpen ==
  ASSUME NEW t, NEW p \in Place, NEW q, NEW lo \in Nat, NEW hi \in Nat, NEW cs,
         AllOpen(t, p, lo, hi, cs), q.file = p.file, q.line = p.line + 1,
         p.line <= Len(t), Len(t) \in Nat, Depth(t, p.line) = Depth(t, p.line - 1)
  PROVE  AllOpen(t, q, lo, hi, cs)
<1>1. p.line \in Nat \ {0} /\ p.line - 1 \in Nat
  BY DEF Place
<1>2. Depth(t, p.line - 1) \in Int /\ hi = lo + Depth(t, p.line - 1)
  BY <1>1, DepthStep DEF AllOpen
<1>3. \A j \in lo+1..hi : Open(cs[j].line, t, p.line + 1, j - lo) /\ cs[j].file = p.file
  <2> TAKE j \in lo+1..hi
  <2>1. Open(cs[j].line, t, p.line, j - lo) /\ cs[j].file = p.file
    BY DEF AllOpen
  <2>2. Depth(t, p.line) >= j - lo
    BY <1>2
  <2> QED
    BY <1>1, <2>1, <2>2, OpenStays
<1>4. q.line - 1 = p.line /\ q.line <= Len(t) + 1
  BY <1>1
<1> QED
  BY <1>2, <1>3, <1>4 DEF AllOpen

(* An #include starts a level of its own, with nothing open.               *)
LEMMA IncludeMoves == PPInv /\ Include => PPInv'
<1> SUFFICES ASSUME PPInv, Include PROVE PPInv'
  OBVIOUS
<1>1. Reading /\ ~AtEnd /\ Word \in File /\ UNCHANGED <<text, conds, entered>>
  BY DEF Include, OnDirective
<1>2. PICK base \in [1..Len(inc)+1 -> Nat] : Nested(base)
  BY DEF PPInv
<1>0. PICK m, t, L, new, b :
        /\ m = Len(inc) /\ t = text[Here.file] /\ L = Here.line
        /\ new = [file |-> Word, line |-> 1]
        /\ b = [i \in 1..m+2 |-> IF i <= m + 1 THEN base[i] ELSE base[m + 1]]
  OBVIOUS
<1>3. /\ m \in Nat \ {0} /\ Here = inc[m] /\ L \in 1..Len(t) /\ Len(t) \in Nat
      /\ Here \in Place /\ inc[m] \in Place /\ L \in Nat \ {0}
      /\ m \in 1..m /\ m \in 1..m+1 /\ m + 1 \in 1..m+1
      /\ \A i \in 1..m : i \in 1..m+1 /\ i + 1 \in 1..m+1
  BY <1>0, <1>1, HereTyped
<1>4. new \in Place
  BY <1>0, <1>1 DEF Place
<1>5. /\ inc' \in Seq(Place) /\ Len(inc') = m + 1 /\ inc'[m + 1] = new
      /\ inc'[m].file = Here.file /\ inc'[m].line = L + 1
      /\ \A i \in 1..m : i # m => inc'[i] = inc[i]
  <2> DEFINE e == [inc[m] EXCEPT !.line = @ + 1]
             on == [inc EXCEPT ![m] = e]
  <2>1. inc \in Seq(Place) /\ m \in 1..Len(inc)
    BY <1>0, <1>3 DEF PPInv, PPTypeOK, Place
  <2>2. e \in Place /\ e.file = Here.file /\ e.line = L + 1
    BY <1>0, <1>3, NextLine
  <2>3. inc' = Append(on, new)
    BY <1>0 DEF Include
  <2>4. on \in Seq(Place) /\ Len(on) = m /\ \A j \in 1..m : on[j] = IF j = m THEN e ELSE inc[j]
    <3> HIDE DEF e
    <3> QED
      BY <2>1, <2>2, <1>0, ExceptSeq
  <2> HIDE DEF e, on
  <2>5. /\ Append(on, new) \in Seq(Place) /\ Len(Append(on, new)) = m + 1
        /\ \A i \in 1..m : Append(on, new)[i] = on[i]
        /\ Append(on, new)[m + 1] = new
    BY <1>4, <2>4, AppendProperties
  <2> QED
    BY <1>3, <2>2, <2>3, <2>4, <2>5
<1>6. /\ base \in [1..m+1 -> Nat] /\ base[1] = 0 /\ base[m + 1] = Len(conds)
      /\ \A i, k \in 1..m+1 : i <= k => base[i] <= base[k]
      /\ \A i \in 1..m : Level(base, i)
  BY <1>0, <1>2 DEF Nested
<1>7. \A i \in 1..m+2 : i \in 1..m+1 \/ i = m + 2
  BY <1>3
<1>8. /\ b \in [1..m+2 -> Nat] /\ b[m + 2] = base[m + 1]
      /\ \A i \in 1..m+1 : b[i] = base[i]
  BY <1>0, <1>3, <1>6, <1>7
<1>9. \A i, k \in 1..m+2 : i <= k => b[i] <= b[k]
  <2>1. \A i, k \in 1..m+1 : i <= k => b[i] <= b[k]
    BY <1>6, <1>8
  <2>2. \A i \in 1..m+1 : b[i] <= b[m + 2] /\ ~(m + 2 <= i)
    BY <1>3, <1>6, <1>8
  <2>3. b[m + 2] <= b[m + 2]
    BY <1>3, <1>6, <1>8
  <2> QED
    BY <1>7, <2>1, <2>2, <2>3
<1>10. \A i \in 1..m : i # m => Level(b, i)'
  <2> SUFFICES ASSUME NEW i \in 1..m, i # m PROVE Level(b, i)'
    OBVIOUS
  <2>1. AllOpen(text[inc[i].file], inc[i], base[i], base[i + 1], conds)
    BY <1>6 DEF Level
  <2>2. inc'[i] = inc[i] /\ b[i] = base[i] /\ b[i + 1] = base[i + 1]
    BY <1>3, <1>5, <1>8
  <2> QED
    BY <1>1, <2>1, <2>2 DEF Level
<1>11. Level(b, m)'
  <2>1. AllOpen(t, inc[m], base[m], base[m + 1], conds)
    BY <1>0, <1>3, <1>6 DEF Level
  <2>2. Depth(t, L) = Depth(t, L - 1)
    BY <1>0, <1>1, DepthHere, Words
  <2>3. base[m] \in Nat /\ base[m + 1] \in Nat
    BY <1>3, <1>6
  <2>4. inc[m].line = L /\ L <= Len(t) /\ inc[m].file = Here.file
    BY <1>0, <1>3
  <2>5. AllOpen(t, inc'[m], base[m], base[m + 1], conds)
    BY <1>3, <1>5, <2>1, <2>2, <2>3, <2>4, StaysOpen
  <2>6. text'[inc'[m].file] = t /\ b[m] = base[m] /\ b[m + 1] = base[m + 1]
    BY <1>0, <1>1, <1>3, <1>5, <1>8
  <2> QED
    BY <1>1, <2>5, <2>6 DEF Level
<1>12. Level(b, m + 1)'
  <2>1. PICK u : u = text[new.file]
    OBVIOUS
  <2>2. Len(u) \in Nat /\ Depth(u, 0) = 0 /\ new.line = 1
    <3>1. new.file \in File /\ new.line = 1
      BY <1>0, <1>1
    <3>2. u \in Seq(Directive)
      BY <2>1, <3>1, TextsNested DEF PPInv
    <3> QED
      BY <3>1, <3>2, LenProperties, DepthStep
  <2>3. b[m + 1] = b[m + 2] /\ b[m + 1] \in Nat
    BY <1>3, <1>6, <1>8
  <2>4. new.line - 1 = 0 /\ new.line <= Len(u) + 1
    BY <2>2
  <2>5. b[m + 2] = b[m + 1] + Depth(u, new.line - 1)
    BY <2>2, <2>3, <2>4
  <2>6. \A j \in b[m + 1]+1..b[m + 2] : FALSE
    BY <2>3
  <2>7. AllOpen(u, new, b[m + 1], b[m + 2], conds)
    BY <2>4, <2>5, <2>6 DEF AllOpen
  <2>8. m + 1 + 1 = m + 2
    BY <1>3
  <2> QED
    BY <1>1, <1>5, <2>1, <2>7, <2>8 DEF Level
<1>13. Nested(b)'
  <2>1. Len(inc') + 1 = m + 2 /\ \A i \in 1..Len(inc') : i \in 1..m \/ i = m + 1
    BY <1>3, <1>5
  <2>2. b[1] = 0 /\ b[m + 2] = Len(conds')
    BY <1>1, <1>3, <1>6, <1>8
  <2>3. \A i \in 1..Len(inc') : Level(b, i)'
    BY <1>10, <1>11, <1>12, <2>1
  <2> QED
    BY <1>8, <1>9, <2>1, <2>2, <2>3 DEF Nested
<1>14. Len(inc') + 1 = m + 2
  BY <1>3, <1>5
<1> QED
  BY <1>1, <1>5, <1>8, <1>13, <1>14 DEF PPInv, PPTypeOK, Place

(* At its end a file has nothing open, and its level goes.                 *)
LEMMA FileEnds == PPInv /\ EndOfFile => PPInv'
<1> SUFFICES ASSUME PPInv, EndOfFile PROVE PPInv'
  OBVIOUS
<1>1. Reading /\ AtEnd /\ UNCHANGED <<text, conds, entered>> /\ inc' = Front(inc)
  BY DEF EndOfFile
<1>2. PICK base \in [1..Len(inc)+1 -> Nat] : Nested(base)
  BY DEF PPInv
<1>0. PICK m, t, L, b : /\ m = Len(inc) /\ t = text[Here.file] /\ L = Here.line
                        /\ b = [i \in 1..m |-> base[i]]
  OBVIOUS
<1>3. /\ m \in Nat \ {0} /\ t \in Seq(Directive) /\ WellNested(t) /\ Len(t) \in Nat
      /\ L \in Nat \ {0} /\ m \in 1..m
      /\ \A i \in 1..m : i \in 1..m+1
      /\ \A i \in 1..m-1 : i \in 1..m /\ i + 1 \in 1..m
  BY <1>0, <1>1, HereTyped
<1>4. /\ inc' \in Seq(Place) /\ Len(inc') = m - 1
      /\ \A i \in 1..m-1 : inc'[i] = inc[i]
  <2>1. inc \in Seq(Place) /\ inc # <<>>
    BY <1>1 DEF PPInv, PPTypeOK, Place, Reading
  <2> QED
    BY <1>0, <1>1, <2>1, FrontIs
<1>5. /\ base \in [1..m+1 -> Nat] /\ base[1] = 0
      /\ \A i, k \in 1..m+1 : i <= k => base[i] <= base[k]
      /\ \A i \in 1..m : Level(base, i)
  BY <1>0, <1>2 DEF Nested
<1>6. base[m] = Len(conds)
  <2>1. L <= Len(t) + 1 /\ Len(conds) = base[m] + Depth(t, L - 1) /\ base[m] \in Nat
    BY <1>0, <1>1, <1>2, TopLevel
  <2>2. L - 1 = Len(t)
    <3>1. L > Len(t)
      BY <1>0, <1>1 DEF AtEnd
    <3> QED
      BY <1>3, <2>1, <3>1
  <2>3. Depth(t, L - 1) = 0
    BY <1>3, <2>2, NestedText
  <2> QED
    BY <2>1, <2>3
<1>7. b \in [1..m -> Nat] /\ \A i \in 1..m : b[i] = base[i]
  BY <1>0, <1>3, <1>5
<1>8. \A i \in 1..m-1 : Level(b, i)'
  <2> TAKE i \in 1..m-1
  <2>1. AllOpen(text[inc[i].file], inc[i], base[i], base[i + 1], conds)
    BY <1>3, <1>5 DEF Level
  <2>2. inc'[i] = inc[i] /\ b[i] = base[i] /\ b[i + 1] = base[i + 1]
    BY <1>3, <1>4, <1>7
  <2> QED
    BY <1>1, <2>1, <2>2 DEF Level
<1>9. Len(inc') + 1 = m
  BY <1>3, <1>4
<1>10. Nested(b)'
  <2>1. b[1] = 0 /\ b[m] = Len(conds')
    BY <1>1, <1>3, <1>5, <1>6, <1>7
  <2>2. \A i, k \in 1..m : i <= k => b[i] <= b[k]
    BY <1>3, <1>5, <1>7
  <2> QED
    BY <1>4, <1>7, <1>8, <1>9, <2>1, <2>2 DEF Nested
<1> QED
  BY <1>1, <1>4, <1>7, <1>9, <1>10 DEF PPInv, PPTypeOK, Place

-----------------------------------------------------------------------------
(* At the start the main file is about to be read, with nothing open.      *)
LEMMA PPStarts == PPInit => PPInv
<1> SUFFICES ASSUME PPInit PROVE PPInv
  OBVIOUS
<1>1. text \in Texts /\ conds = <<>> /\ entered = [f \in File |-> <<>>]
  BY DEF PPInit
<1>2. PICK p : p = [file |-> Main, line |-> 1]
  OBVIOUS
<1>3. p \in Place /\ p.line = 1 /\ p.file = Main /\ Main \in File
  BY <1>2, FileAssumption DEF Place
<1>4. inc = <<p>> /\ Len(inc) = 1 /\ inc[1] = p /\ inc \in Seq(Place)
  BY <1>2, <1>3 DEF PPInit
<1>5. Len(conds) = 0 /\ conds \in Seq(Cond)
  BY <1>1, EmptySeq
<1>6. PICK b : b = [i \in 1..2 |-> 0]
  OBVIOUS
<1>7. b \in [1..Len(inc)+1 -> Nat] /\ b[1] = 0 /\ b[2] = 0
  BY <1>4, <1>6
<1>8. Level(b, 1)
  <2>1. text[Main] \in Seq(Directive)
    BY <1>1, <1>3, TextsNested
  <2>2. Len(text[Main]) \in Nat /\ Depth(text[Main], 0) = 0
    BY <2>1, LenProperties, DepthStep
  <2>3. p.line - 1 = 0
    BY <1>3
  <2>4. AllOpen(text[Main], p, 0, 0, conds)
    BY <1>3, <2>2, <2>3 DEF AllOpen
  <2> QED
    BY <1>3, <1>4, <1>7, <2>4 DEF Level
<1>9. Nested(b)
  <2>1. \A i \in 1..Len(inc) : i = 1
    BY <1>4
  <2>2. Len(inc) + 1 = 2 /\ b[Len(inc) + 1] = Len(conds)
    BY <1>4, <1>5, <1>7
  <2>3. \A i, k \in 1..Len(inc)+1 : i <= k => b[i] <= b[k]
    BY <1>4, <1>6
  <2> QED
    BY <1>7, <1>8, <2>1, <2>2, <2>3 DEF Nested
<1>10. PPTypeOK
  <2>1. \A f \in File : text[f] \in Seq(Directive)
    BY <1>1, TextsNested
  <2>2. entered \in [File -> Seq(Nat \ {0})]
    BY <1>1, EmptySeq
  <2> QED
    BY <1>4, <1>5, <2>1, <2>2 DEF PPTypeOK, Place, Cond
<1> QED
  BY <1>1, <1>5, <1>7, <1>9, <1>10 DEF PPInv

(* Every step of the preprocessor keeps its stack matched to the texts.    *)
LEMMA PPInductive == PPInv /\ PPNext => PPInv'
<1> SUFFICES ASSUME PPInv, PPNext PROVE PPInv'
  OBVIOUS
<1>0. conds \in Seq(Cond) /\ SkipsOnTop(conds) /\ entered \in [File -> Seq(Nat \ {0})]
  BY DEF PPInv, PPTypeOK, Cond, SkipsOnTop
<1>1. CASE Enter
  <2>1. OnDirective(Openers) /\ ~Skipping /\ Advance /\ UNCHANGED text
    BY <1>1 DEF Enter
  <2>2. PICK v \in BOOLEAN :
          conds' = Append(conds, [file |-> Here.file, line |-> Here.line,
                                  skipped |-> FALSE, live |-> v,
                                  took |-> IF v THEN Here.line ELSE 0])
    BY <1>1 DEF Enter
  <2>3. PICK c : c = [file |-> Here.file, line |-> Here.line,
                      skipped |-> FALSE, live |-> v,
                      took |-> IF v THEN Here.line ELSE 0]
    OBVIOUS
  <2>4. Here.file \in File /\ Here.line \in Nat \ {0}
    BY <2>1, HereTyped DEF OnDirective
  <2>5. c \in Cond /\ c.file = Here.file /\ c.line = Here.line /\ ~c.skipped
    BY <2>3, <2>4 DEF Cond
  <2>6. entered' \in [File -> Seq(Nat \ {0})]
    <3>1. entered' = [entered EXCEPT ![Here.file] = Append(@, Here.line)]
      BY <1>1 DEF Enter
    <3>2. entered[Here.file] \in Seq(Nat \ {0})
      BY <1>0, <2>4
    <3>3. Append(entered[Here.file], Here.line) \in Seq(Nat \ {0})
      BY <2>4, <3>2, AppendProperties
    <3> QED
      BY <1>0, <2>4, <3>1, <3>3
  <2> QED
    BY <2>1, <2>2, <2>3, <2>5, <2>6, OpensOne
<1>2. CASE EnterSkipped
  <2>1. OnDirective(Openers) /\ Advance /\ UNCHANGED <<text, entered>>
    BY <1>2 DEF EnterSkipped
  <2>2. PICK c : c = [file |-> Here.file, line |-> Here.line,
                      skipped |-> TRUE, live |-> FALSE, took |-> 0]
    OBVIOUS
  <2>3. conds' = Append(conds, c)
    BY <1>2, <2>2 DEF EnterSkipped
  <2>4. Here.file \in File /\ Here.line \in Nat \ {0}
    BY <2>1, HereTyped DEF OnDirective
  <2>5. c \in Cond /\ c.file = Here.file /\ c.line = Here.line /\ c.skipped /\ ~c.live
    BY <2>2, <2>4 DEF Cond
  <2> QED
    BY <1>0, <2>1, <2>3, <2>5, OpensOne
<1>3. CASE NextArm
  <2>1. /\ Reading /\ ~AtEnd /\ Word \in Arms /\ Advance /\ UNCHANGED <<text, entered>>
        /\ ~Last(conds).skipped
    BY <1>3 DEF NextArm, OnDirective, ArmIsRead
  <2>2. PICK v \in BOOLEAN :
          conds' = SetTop(conds, [Last(conds) EXCEPT !.live = v, !.took = IF v THEN Here.line ELSE @])
    BY <1>3 DEF NextArm
  <2>3. PICK top : /\ top = [Last(conds) EXCEPT !.live = v, !.took = IF v THEN Here.line ELSE @]
                   /\ conds' = SetTop(conds, top)
    BY <2>2
  <2>4. /\ Last(conds) \in Cond /\ Last(conds) = conds[Len(conds)]
        /\ Len(conds) \in Nat \ {0} /\ conds # <<>>
    BY <2>1, TopIsOwn, EmptySeq
  <2>5. /\ top \in Cond /\ top.file = Last(conds).file /\ top.line = Last(conds).line
        /\ ~top.skipped
    BY <2>1, <2>3, <2>4, HereTyped DEF Cond
  <2>6. /\ conds' \in Seq(Cond) /\ Len(conds') = Len(conds)
        /\ conds'[Len(conds)] = top
        /\ \A i \in 1..Len(conds)-1 : conds'[i] = conds[i]
    <3>1. PICK new : new = SetTop(conds, top)
      OBVIOUS
    <3>2. /\ new \in Seq(Cond) /\ Len(new) = Len(conds) /\ new[Len(conds)] = top
          /\ \A i \in 1..Len(conds)-1 : new[i] = conds[i]
      <4>1. conds \in Seq(Cond) /\ conds # <<>> /\ top \in Cond
        BY <1>0, <2>4, <2>5
      <4>2. /\ SetTop(conds, top) \in Seq(Cond) /\ Len(SetTop(conds, top)) = Len(conds)
            /\ SetTop(conds, top)[Len(conds)] = top
            /\ \A i \in 1..Len(conds)-1 : SetTop(conds, top)[i] = conds[i]
        BY <4>1, SetTopIs
      <4> QED
        BY <3>1, <4>2
    <3>3. conds' = new
      BY <2>3, <3>1
    <3> QED
      BY <3>2, <3>3
  <2>7. \A j \in 1..Len(conds) : j \in 1..Len(conds)-1 \/ j = Len(conds)
    BY <2>4
  <2>8. \A j \in 1..Len(conds) :
          /\ conds'[j].file = conds[j].file /\ conds'[j].line = conds[j].line
          /\ conds'[j].skipped => conds[j].skipped /\ conds'[j] = conds[j]
    BY <2>4, <2>5, <2>6, <2>7
  <2>9. SkipsOnTop(conds')
    <3>1. \A j \in 1..Len(conds)-1 : j + 1 \in 1..Len(conds) /\ j \in 1..Len(conds)
      BY <2>4
    <3>2. \A j \in 1..Len(conds)-1 : conds'[j].skipped => conds'[j + 1].skipped
      <4> TAKE j \in 1..Len(conds)-1
      <4>1. CASE j + 1 = Len(conds)
        BY <1>0, <2>1, <2>4, <2>8, <3>1, <4>1 DEF SkipsOnTop
      <4>2. CASE j + 1 # Len(conds)
        BY <1>0, <2>6, <2>7, <2>8, <3>1, <4>2 DEF SkipsOnTop
      <4> QED
        BY <4>1, <4>2
    <3> QED
      BY <1>0, <2>6, <2>8, <3>2 DEF SkipsOnTop
  <2> QED
    BY <2>1, <2>6, <2>8, <2>9, KeepsAll, Words
<1>4. CASE PassArm \/ SkipLine
  <2>1. /\ Reading /\ ~AtEnd /\ Word \in Arms \cup File \cup {"code"}
        /\ Advance /\ UNCHANGED <<text, conds, entered>>
    BY <1>4 DEF PassArm, SkipLine, OnDirective
  <2> QED
    BY <1>0, <2>1, KeepsAll, Words
<1>5. CASE Leave \/ LeaveSkipped
  <2>1. /\ OnDirective({"endif"}) /\ Advance /\ UNCHANGED <<text, entered>>
        /\ conds' = Front(conds)
    BY <1>5 DEF Leave, LeaveSkipped
  <2> QED
    BY <2>1, EndsOne
<1> QED
  BY <1>1, <1>2, <1>3, <1>4, <1>5, IncludeMoves, FileEnds DEF PPNext

(* When the whole unit has been read nothing is open.                      *)
LEMMA AllClosed == PPInv /\ ~Reading => conds = <<>>
<1> SUFFICES ASSUME PPInv, ~Reading PROVE conds = <<>>
  OBVIOUS
<1>1. PICK base \in [1..Len(inc)+1 -> Nat] : Nested(base)
  BY DEF PPInv
<1>2. Len(inc) + 1 = 1 /\ conds \in Seq(Cond)
  BY EmptySeq DEF Reading, PPInv, PPTypeOK, Cond
<1>3. Len(conds) = 0
  BY <1>1, <1>2 DEF Nested
<1> QED
  BY <1>2, <1>3, EmptySeq
=============================================================================
