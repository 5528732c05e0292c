---------------------------- MODULE Slides_proofs ---------------------------
(***************************************************************************)
(* Proofs about Slides for any projects, phases, loads, analyses and       *)
(* choices, and any directories to begin with.                             *)
(***************************************************************************)
EXTENDS Slides, WellFoundedInduction, TLAPS

(* What a load is doing.                                                   *)
OfProject(k) == load[k].at \in {"project", "projectAnswered"}
OfPhase(k)   == load[k].at \in {"phase", "phaseAnswered"}

(* A running analysis has a project's directory and is in a phase; what    *)
(* loads wait for.                                                         *)
Shapes ==
  /\ TypeOK
  /\ job.running => job.phase \in Phase
  /\ job.phase > 0 => job.dir \in Project
  /\ \A k \in Load : /\ load[k].at = "free" => load[k].project = None
                     /\ OfProject(k) => load[k].project # None

(* The constants' bounds, and None is none of them.                        *)
LEMMA Bounds == /\ Last \in Nat \ {0} /\ Over \in Nat /\ 0 \in 0..Over /\ 0 \in 0..Last
                /\ 1 \in Phase /\ 1 \in 0..Over /\ Last \in Phase /\ Phase \subseteq 0..Last
                /\ 0 \in 0..Analyses /\ 0 \in 0..Choices /\ Project \subseteq Dir
                /\ None \notin Project /\ Seed \in Dir /\ None \notin Dir
BY SlidesAssumption DEF Phase, Over, Dir

(* No artifacts.                                                           *)
LEMMA NothingTyped == Nothing \in Artifacts /\ \A n \in Phase : Nothing[n] = None
BY DEF Nothing, Artifacts

Loads == [at : {"free", "project", "phase", "projectAnswered", "phaseAnswered"},
          project : Project \cup {None}, n : 0..Last,
          arts : Artifacts, own : BOOLEAN, answer : Artifacts]

(* The loads that start, and none.                                         *)
LEMMA LoadsTyped ==
  /\ NoLoad \in Loads /\ NoLoad.at = "free" /\ NoLoad.project = None
  /\ \A p \in Project : /\ ProjectLoad(p) \in Loads /\ ProjectLoad(p).at = "project"
                        /\ ProjectLoad(p).project = p
  /\ \A n \in Phase : /\ PhaseLoad(n) \in Loads /\ PhaseLoad(n).at = "phase"
                      /\ PhaseLoad(n).project = None /\ PhaseLoad(n).n = n
BY Bounds, NothingTyped DEF Loads, NoLoad, ProjectLoad, PhaseLoad

(* A set of numbers has a least one.                                       *)
LEMMA Least ==
  ASSUME NEW T \in SUBSET Nat, T # {}
  PROVE  \E x \in T : \A y \in T : x <= y
<1>1. PICK x \in T : \A y \in T : ~(<<y, x>> \in OpToRel(<, Nat))
  BY WFMin, NatLessThanWellFounded
<1>2. \A y \in T : ~(y < x)
  BY <1>1 DEF OpToRel
<1>3. \A y \in T : x <= y
  BY <1>2
<1> QED
  BY <1>3

(* The next phase of a load is the first for which there is something.     *)
LEMMA NextPhase ==
  ASSUME NEW arts, NEW n \in Nat, Left(arts, n) # {}
  PROVE  LET m == First(Left(arts, n)) IN
         /\ m \in Phase /\ m >= n /\ arts[m] # None
         /\ \A l \in Phase : n <= l /\ l < m => arts[l] = None
<1> DEFINE m == First(Left(arts, n))
<1>1. Left(arts, n) \in SUBSET Nat
  BY DEF Left, Phase
<1>2. \E x \in Left(arts, n) : \A y \in Left(arts, n) : x <= y
  BY <1>1, Least
<1>3. m \in Left(arts, n) /\ \A y \in Left(arts, n) : m <= y
  BY <1>2 DEF First
<1> HIDE DEF m
<1>4. \A l \in Phase : n <= l /\ l < m => l \notin Left(arts, n)
  BY <1>1, <1>3 DEF Phase
<1>5. m \in Phase /\ m >= n /\ arts[m] # None
  BY <1>3 DEF Left
<1>6. \A l \in Phase : n <= l /\ l < m => arts[l] = None
  BY <1>4 DEF Left, Phase
<1> QED
  BY <1>5, <1>6 DEF m

(* A function changed at one place.                                        *)
LEMMA OverwriteTyped ==
  ASSUME NEW S, NEW R, NEW f \in [S -> R], NEW i \in S, NEW v \in R
  PROVE  /\ [f EXCEPT ![i] = v] \in [S -> R] /\ [f EXCEPT ![i] = v][i] = v
         /\ \A j \in S : j # i => [f EXCEPT ![i] = v][j] = f[j]
OBVIOUS

(* Object.assign: the answer where it has something, and nothing is lost.  *)
LEMMA MergeTyped ==
  ASSUME NEW a \in Artifacts, NEW b \in Artifacts
  PROVE  /\ Merge(a, b) \in Artifacts
         /\ \A n \in Phase : /\ b[n] # None => Merge(a, b)[n] = b[n]
                             /\ b[n] = None => Merge(a, b)[n] = a[n]
                             /\ a[n] # None => Merge(a, b)[n] # None
BY DEF Merge, Artifacts

(* When another object becomes S.artifacts, the loads keep what they have. *)
LEMMA ReplacedTyped ==
  ASSUME TypeOK
  PROVE  /\ Replaced \in [Load -> Loads]
         /\ \A k \in Load : /\ Replaced[k].at = load[k].at /\ Replaced[k].n = load[k].n
                            /\ Replaced[k].project = load[k].project
                            /\ Replaced[k].answer = load[k].answer
                            /\ Replaced[k].own /\ Replaced[k].arts = Held(k)
<1>1. ASSUME NEW k \in Load PROVE load[k] \in Loads /\ Held(k) \in Artifacts
  BY DEF TypeOK, Loads, Held
<1>2. ASSUME NEW k \in Load
      PROVE  LET r == [load[k] EXCEPT !.arts = Held(k), !.own = TRUE] IN
             /\ r \in Loads /\ r.at = load[k].at /\ r.n = load[k].n
             /\ r.project = load[k].project /\ r.answer = load[k].answer
             /\ r.own /\ r.arts = Held(k)
  BY <1>1 DEF Loads
<1> QED
  BY <1>2 DEF Replaced

(* Load k, a load of a project, goes on with its next phase or is over.    *)
GoesOn(before, k, arts, n, own) ==
  /\ load' \in [Load -> Loads]
  /\ \A j \in Load : j # k => load'[j] = before[j]
  /\ \/ /\ load'[k] = NoLoad
        /\ Left(arts, n) = {} \/ load[k].project = None
     \/ /\ load'[k].at = "phase" /\ load'[k].project = load[k].project
        /\ load[k].project # None /\ Left(arts, n) # {}
        /\ load'[k].n = First(Left(arts, n)) /\ load'[k].n \in Phase
        /\ load'[k].own = own /\ (own => load'[k].arts = arts)

(* GoesOn is what Continue does.                                           *)
LEMMA ContinueEffect ==
  ASSUME NEW before \in [Load -> Loads], NEW k \in Load, NEW arts \in Artifacts, NEW n \in Nat,
         NEW own \in BOOLEAN, load[k] \in Loads, Continue(before, k, arts, n, own)
  PROVE  GoesOn(before, k, arts, n, own)
<1> DEFINE m == First(Left(arts, n))
           next == [PhaseLoad(m) EXCEPT !.project = load[k].project, !.own = own,
                                        !.arts = IF own THEN arts ELSE Nothing]
<1>1. CASE Left(arts, n) = {} \/ load[k].project = None
  <2>1. load' = [before EXCEPT ![k] = NoLoad]
    BY <1>1 DEF Continue
  <2> QED
    BY <1>1, <2>1, LoadsTyped, OverwriteTyped DEF GoesOn
<1>2. CASE ~(Left(arts, n) = {} \/ load[k].project = None)
  <2>1. load' = [before EXCEPT ![k] = next]
    BY <1>2 DEF Continue
  <2>2. m \in Phase
    BY <1>2, NextPhase
  <2>3. PhaseLoad(m) \in Loads /\ PhaseLoad(m).at = "phase" /\ PhaseLoad(m).n = m
    BY <2>2, LoadsTyped
  <2>4. load[k].project \in Project \cup {None} /\ (IF own THEN arts ELSE Nothing) \in Artifacts
    BY NothingTyped DEF Loads
  <2>5. /\ next \in Loads /\ next.at = "phase" /\ next.n = m /\ next.own = own
        /\ next.project = load[k].project /\ next.arts = IF own THEN arts ELSE Nothing
    <3> HIDE DEF m
    <3> QED
      BY <2>3, <2>4 DEF Loads
  <2>6. /\ load' \in [Load -> Loads] /\ load'[k] = next
        /\ \A j \in Load : j # k => load'[j] = before[j]
    <3> HIDE DEF next
    <3> QED
      BY <2>1, <2>5, OverwriteTyped
  <2> HIDE DEF next, m
  <2>7. load'[k].n = m /\ load'[k].own = own /\ (own => load'[k].arts = arts)
    BY <2>5, <2>6
  <2> QED
    BY <1>2, <2>2, <2>5, <2>6, <2>7 DEF m, GoesOn
<1> QED
  BY <1>1, <1>2

Jobs  == [dir : Dir, running : BOOLEAN, phase : 0..Over, count : 0..Analyses]
Pages == [artifacts : Artifacts, slide : Artifacts, results : Artifact \cup {None},
          seen : 0..Last, selected : Project, choices : 0..Choices]

(* A load that goes on to a phase's slide holds an artifact of that phase. *)
Supplied ==
  \A k \in Load : OfPhase(k) =>
    load[k].n \in Phase /\ (load[k].project # None => Held(k)[load[k].n] # None)

(* Shapes, conjunct by conjunct.                                           *)
LEMMA ShapesParts ==
  Shapes <=> /\ disk \in [Dir -> Artifacts] /\ job \in Jobs /\ page \in Pages
             /\ load \in [Load -> Loads] /\ Supplied
             /\ shows \in {None, "project", "analysis"}
             /\ job.running => job.phase \in Phase
             /\ job.phase > 0 => job.dir \in Project
             /\ \A k \in Load : /\ load[k].at = "free" => load[k].project = None
                                /\ OfProject(k) => load[k].project # None
BY DEF Shapes, TypeOK, Jobs, Pages, Loads, Supplied, OfPhase

(* Shapes holds when the page opens.                                       *)
LEMMA InitShapes == Init => Shapes
<1> SUFFICES ASSUME Init PROVE Shapes
  OBVIOUS
<1> DEFINE Opened(upTo, seeded, first, next) ==
      /\ disk = [d \in Dir |-> [n \in Phase |->
                  IF n > upTo[d] THEN None
                  ELSE [of |-> IF d = Seed THEN seeded ELSE d, by |-> 0]]]
      /\ job = [dir |-> Seed, running |-> FALSE, phase |-> 0, count |-> 0]
      /\ \E j, k \in Load :
           /\ j # k
           /\ load = [[l \in Load |-> NoLoad] EXCEPT
                ![j] = ProjectLoad(first), ![k] = ProjectLoad(next)]
      /\ page = [artifacts |-> Nothing, slide |-> Nothing, results |-> None, seen |-> 0,
                 selected |-> next, choices |-> 0]
      /\ shows = None
<1> PICK upTo \in [Dir -> Before], seeded \in Project, first \in Project :
      \E next \in {seeded, first} : Opened(upTo, seeded, first, next)
  BY DEF Init
<1> PICK next \in Project : Opened(upTo, seeded, first, next)
  OBVIOUS
<1> PICK j \in Load, k \in Load : load = [[l \in Load |-> NoLoad] EXCEPT
                                    ![j] = ProjectLoad(first), ![k] = ProjectLoad(next)]
  OBVIOUS
<1>1. disk \in [Dir -> Artifacts]
  <2>1. ASSUME NEW d \in Dir, NEW n \in Phase
        PROVE  (IF n > upTo[d] THEN None
                ELSE [of |-> IF d = Seed THEN seeded ELSE d, by |-> 0]) \in Artifact \cup {None}
    BY Bounds DEF Dir, Artifact
  <2> QED
    BY <2>1 DEF Artifacts
<1>2. job \in Jobs
  BY Bounds DEF Jobs
<1>3. page \in Pages
  BY Bounds, NothingTyped DEF Pages
<1>4. /\ load \in [Load -> Loads]
      /\ \A l \in Load : \/ load[l] = NoLoad
                         \/ load[l] = ProjectLoad(first) \/ load[l] = ProjectLoad(next)
  BY LoadsTyped
<1>5. /\ Supplied
      /\ \A l \in Load : /\ load[l].at = "free" => load[l].project = None
                         /\ OfProject(l) => load[l].project # None
  <2>1. ASSUME NEW l \in Load
        PROVE  \/ load[l].at = "free" /\ load[l].project = None
               \/ load[l].at = "project" /\ load[l].project \in Project
    <3>1. CASE load[l] = NoLoad
      BY <3>1, LoadsTyped
    <3>2. ASSUME NEW p \in Project, load[l] = ProjectLoad(p)
          PROVE  load[l].at = "project" /\ load[l].project \in Project
      BY <3>2, LoadsTyped
    <3> QED
      BY <1>4, <3>1, <3>2
  <2>2. \A l \in Load : /\ ~OfPhase(l)
                        /\ load[l].at = "free" => load[l].project = None
                        /\ OfProject(l) => load[l].project # None
    BY <2>1, Bounds DEF OfPhase, OfProject
  <2> QED
    BY <2>2 DEF Supplied
<1>6. /\ job.running => job.phase \in Phase
      /\ job.phase > 0 => job.dir \in Project
      /\ shows \in {None, "project", "analysis"}
  OBVIOUS
<1> QED
  BY <1>1, <1>2, <1>3, <1>4, <1>5, <1>6, ShapesParts

(* The artifacts that a load goes on with.                                 *)
GoesOnWith(k, artifacts) == IF load[k].own THEN load[k].arts ELSE artifacts

(* What the drawing of slide n does to the page and the loads.             *)
Drawing(k, artifacts, n, arts) ==
  /\ n \in Phase /\ arts \in Artifacts /\ page' \in Pages
  /\ page'.artifacts = artifacts
  /\ page'.seen = page.seen /\ page'.selected = page.selected
  /\ page'.slide[n] = IF artifacts[n] # None THEN artifacts[n] ELSE page.slide[n]
  /\ \A m \in Phase : m # n => page'.slide[m] = page.slide[m]
  /\ page'.results =
       IF load[k].project # None /\ Left(arts, n + 1) = {} /\ arts[Last] # None
       THEN arts[Last] ELSE page.results
  /\ load' \in [Load -> Loads]
  /\ \A j \in Load : j # k => load'[j] = load[j]
  /\ \/ /\ load'[k] = NoLoad
        /\ Left(arts, n + 1) = {} \/ load[k].project = None
     \/ /\ load'[k].at = "phase" /\ load'[k].project = load[k].project
        /\ load[k].project # None /\ Left(arts, n + 1) # {}
        /\ load'[k].n = First(Left(arts, n + 1)) /\ load'[k].n \in Phase
        /\ load'[k].own = load[k].own /\ (load[k].own => load'[k].arts = arts)

(* Drawing is what Draw does.                                              *)
LEMMA DrawEffect ==
  ASSUME Shapes, NEW k \in Load, OfPhase(k), NEW artifacts \in Artifacts, Draw(k, artifacts)
  PROVE  Drawing(k, artifacts, load[k].n, GoesOnWith(k, artifacts))
<1> DEFINE n     == load[k].n
           arts  == GoesOnWith(k, artifacts)
           ends  == load[k].project # None /\ Left(arts, n + 1) = {} /\ arts[Last] # None
           drawn == IF artifacts[n] # None THEN artifacts[n] ELSE page.slide[n]
<1>0. page \in Pages /\ load \in [Load -> Loads] /\ n \in Phase
  BY ShapesParts DEF Supplied
<1>1. arts \in Artifacts /\ load[k].own \in BOOLEAN /\ n + 1 \in Nat /\ load[k] \in Loads
  BY <1>0 DEF Loads, Phase, GoesOnWith
<1>2. page' = [page EXCEPT !.artifacts = artifacts, !.slide[n] = drawn,
                 !.results = IF ends THEN arts[Last] ELSE page.results]
  BY DEF Draw, GoesOnWith
<1>3. Continue(load, k, arts, n + 1, load[k].own)
  BY DEF Draw, GoesOnWith
<1>4. artifacts[n] \in Artifact \cup {None} /\ arts[Last] \in Artifact \cup {None}
  BY <1>0, <1>1, Bounds DEF Artifacts
<1>5. drawn \in Artifact \cup {None}
  BY <1>0, <1>4 DEF Artifacts, Pages
<1> HIDE DEF ends, drawn
<1>6. /\ [page.slide EXCEPT ![n] = drawn] \in Artifacts
      /\ [page.slide EXCEPT ![n] = drawn][n] = drawn
      /\ \A m \in Phase : m # n => [page.slide EXCEPT ![n] = drawn][m] = page.slide[m]
  BY <1>0, <1>5, OverwriteTyped DEF Artifacts, Pages
<1>7. /\ page' \in Pages /\ page'.artifacts = artifacts
      /\ page'.seen = page.seen /\ page'.selected = page.selected
      /\ page'.slide = [page.slide EXCEPT ![n] = drawn]
      /\ page'.results = IF ends THEN arts[Last] ELSE page.results
  BY <1>0, <1>2, <1>4, <1>6 DEF Pages
<1>8. /\ page'.slide[n] = drawn
      /\ \A m \in Phase : m # n => page'.slide[m] = page.slide[m]
  BY <1>6, <1>7
<1>9. GoesOn(load, k, arts, n + 1, load[k].own)
  BY <1>0, <1>1, <1>3, ContinueEffect
<1> QED
  BY <1>0, <1>1, <1>7, <1>8, <1>9 DEF Drawing, GoesOn, ends, drawn

(* A drawn slide keeps the types, whatever artifacts are added.            *)
LEMMA DrawTyped ==
  ASSUME Shapes, NEW k \in Load, OfPhase(k), NEW artifacts \in Artifacts, Draw(k, artifacts),
         \A n \in Phase : page.artifacts[n] # None => artifacts[n] # None
  PROVE  /\ page' \in Pages /\ load' \in [Load -> Loads] /\ Supplied'
         /\ \A j \in Load : /\ (load[j].at = "free" => load[j].project = None)'
                            /\ (OfProject(j) => load[j].project # None)'
<1> DEFINE n    == load[k].n
           arts == GoesOnWith(k, artifacts)
<1>0. /\ load \in [Load -> Loads] /\ Supplied
      /\ \A j \in Load : /\ load[j].at = "free" => load[j].project = None
                         /\ OfProject(j) => load[j].project # None
  BY ShapesParts
<1> HIDE DEF arts, n
<1>5. /\ n \in Phase /\ page' \in Pages /\ page'.artifacts = artifacts
      /\ load' \in [Load -> Loads]
      /\ \A j \in Load : j # k => load'[j] = load[j]
      /\ \/ load'[k] = NoLoad
         \/ /\ load'[k].at = "phase" /\ load'[k].project = load[k].project
            /\ load[k].project # None /\ Left(arts, n + 1) # {}
            /\ load'[k].n = First(Left(arts, n + 1)) /\ load'[k].n \in Phase
            /\ load'[k].own = load[k].own /\ (load[k].own => load'[k].arts = arts)
  <2>1. Drawing(k, artifacts, n, arts)
    BY DrawEffect DEF arts, n
  <2> QED
    BY <2>1 DEF Drawing
<1>7. ASSUME NEW j \in Load, OfPhase(j)'
      PROVE  /\ load'[j].n \in Phase
             /\ load'[j].project # None =>
                  (IF load'[j].own THEN load'[j].arts ELSE page'.artifacts)[load'[j].n] # None
  <2>1. CASE j # k
    BY <1>0, <1>5, <1>7, <2>1 DEF Supplied, OfPhase, Held
  <2>2. CASE j = k
    <3>1. load'[k].at = "phase"
      BY <1>5, <1>7, <2>2, LoadsTyped DEF OfPhase
    <3>2. /\ Left(arts, n + 1) # {} /\ load'[k].n = First(Left(arts, n + 1))
          /\ load'[k].n \in Phase /\ load'[k].own = load[k].own
          /\ (load[k].own => load'[k].arts = arts)
      BY <1>5, <3>1, LoadsTyped
    <3>3. n + 1 \in Nat
      BY <1>5 DEF Phase
    <3>4. arts[load'[k].n] # None
      BY <3>2, <3>3, NextPhase
    <3>5. ~load[k].own => arts = page'.artifacts
      BY <1>5 DEF arts, GoesOnWith
    <3> QED
      BY <2>2, <3>2, <3>4, <3>5
  <2> QED
    BY <2>1, <2>2
<1>8. Supplied'
  BY <1>7 DEF Supplied, Held
<1>9. ASSUME NEW j \in Load
      PROVE  /\ (load[j].at = "free" => load[j].project = None)'
             /\ (OfProject(j) => load[j].project # None)'
  <2>1. CASE j # k
    BY <1>0, <1>5, <2>1 DEF OfProject
  <2>2. CASE j = k
    BY <1>5, <2>2, LoadsTyped DEF OfProject
  <2> QED
    BY <2>1, <2>2
<1> QED
  BY <1>5, <1>8, <1>9

(* Every step keeps Shapes.                                                *)
LEMMA NextShapes == Shapes /\ [Next]_vars => Shapes'
<1> SUFFICES ASSUME Shapes, [Next]_vars PROVE Shapes'
  OBVIOUS
<1> DEFINE Asks == \A k \in Load : /\ load[k].at = "free" => load[k].project = None
                                   /\ OfProject(k) => load[k].project # None
           Running == /\ job.running => job.phase \in Phase
                      /\ job.phase > 0 => job.dir \in Project
<1>0. /\ disk \in [Dir -> Artifacts] /\ job \in Jobs /\ page \in Pages
      /\ load \in [Load -> Loads] /\ Supplied
      /\ shows \in {None, "project", "analysis"} /\ Running /\ Asks
  BY ShapesParts
<1>p. ASSUME disk' \in [Dir -> Artifacts], job' \in Jobs, page' \in Pages,
             load' \in [Load -> Loads], Supplied',
             shows' \in {None, "project", "analysis"}, Running', Asks'
      PROVE  Shapes'
  BY <1>p DEF Shapes, TypeOK, Jobs, Pages, Loads, Supplied, OfPhase
<1>s. UNCHANGED <<load, page>> => Supplied' /\ Asks'
  BY <1>0 DEF Supplied, Held, OfPhase, OfProject
<1>j. UNCHANGED job => Running'
  BY <1>0
<1>1. ASSUME NEW p \in Project, NEW k \in Load, Select(p, k) PROVE Shapes'
  <2>1. load' = [load EXCEPT ![k] = ProjectLoad(p)] /\ UNCHANGED <<disk, job>>
    BY <1>1 DEF Select
  <2>2. /\ load' \in [Load -> Loads] /\ load'[k] = ProjectLoad(p)
        /\ \A j \in Load : j # k => load'[j] = load[j]
    BY <1>0, <2>1, LoadsTyped, OverwriteTyped
  <2>3. page' \in Pages /\ page'.artifacts = page.artifacts
    <3>1. page.choices + 1 \in 0..Choices
      BY <1>0, <1>1, SlidesAssumption DEF Select, Pages
    <3>2. page' = [page EXCEPT !.selected = p, !.choices = page.choices + 1]
      BY <1>1 DEF Select
    <3> QED
      BY <1>0, <3>1, <3>2 DEF Pages
  <2>4. Supplied' /\ Asks'
    <3>1. ASSUME NEW j \in Load, j # k PROVE load'[j] = load[j] /\ Held(j)' = Held(j)
      BY <2>2, <2>3, <3>1 DEF Held
    <3>2. load'[k].at = "project" /\ load'[k].project # None
      BY <2>2, Bounds, LoadsTyped
    <3> QED
      BY <1>0, <3>1, <3>2 DEF Supplied, OfPhase, OfProject
  <2>5. shows' \in {None, "project", "analysis"}
    BY <1>1 DEF Select
  <2> HIDE DEF Asks, Running
  <2> QED
    BY <1>0, <1>p, <1>j, <2>1, <2>2, <2>3, <2>4, <2>5
<1>2. CASE Analyze
  <2>1. load' = Replaced /\ UNCHANGED disk
    BY <1>2 DEF Analyze
  <2>2. job' \in Jobs /\ Running'
    BY <1>0, <1>2, Bounds, SlidesAssumption DEF Analyze, Jobs, Pages
  <2>3. page' \in Pages
    BY <1>0, <1>2, Bounds, NothingTyped DEF Analyze, Pages
  <2>4. /\ load' \in [Load -> Loads]
        /\ \A k \in Load : /\ load'[k].at = load[k].at /\ load'[k].n = load[k].n
                           /\ load'[k].project = load[k].project
                           /\ load'[k].own /\ load'[k].arts = Held(k)
    BY <2>1, ReplacedTyped DEF Shapes
  <2>5. Supplied' /\ Asks'
    <3>1. \A k \in Load : Held(k)' = Held(k)
      BY <2>4 DEF Held
    <3> QED
      BY <1>0, <2>4, <3>1 DEF Supplied, OfPhase, OfProject
  <2>6. shows' \in {None, "project", "analysis"}
    BY <1>2 DEF Analyze
  <2> HIDE DEF Asks, Running
  <2> QED
    BY <1>0, <1>p, <2>1, <2>2, <2>3, <2>4, <2>5, <2>6
<1>3. CASE WriteArtifact
  <2>1. job.dir \in Project /\ job.phase \in Phase
    BY <1>0, <1>3 DEF WriteArtifact, Phase
  <2>2. [of |-> job.dir, by |-> job.count] \in Artifact
    BY <1>0, <2>1 DEF Artifact, Jobs
  <2>3. disk' \in [Dir -> Artifacts]
    <3> DEFINE made == [of |-> job.dir, by |-> job.count]
    <3>1. disk[job.dir] \in Artifacts
      BY <1>0, <2>1, Bounds
    <3>2. [disk[job.dir] EXCEPT ![job.phase] = made] \in Artifacts
      BY <2>1, <2>2, <3>1 DEF Artifacts
    <3>3. disk' = [disk EXCEPT ![job.dir] = [disk[job.dir] EXCEPT ![job.phase] = made]]
      BY <1>3 DEF WriteArtifact
    <3> HIDE DEF made
    <3> QED
      BY <1>0, <2>1, <3>2, <3>3, Bounds, OverwriteTyped
  <2>4. UNCHANGED <<job, page, load, shows>>
    BY <1>3 DEF WriteArtifact
  <2> HIDE DEF Asks, Running
  <2> QED
    BY <1>0, <1>p, <1>s, <1>j, <2>3, <2>4
<1>4. CASE PhaseDone
  <2>1. UNCHANGED <<disk, page, load, shows>>
    BY <1>4 DEF PhaseDone
  <2>2. job' \in Jobs /\ Running'
    <3>1. /\ job.phase \in 1..Last /\ job.phase + 1 \in 0..Over
          /\ (job.phase < Last => job.phase + 1 \in Phase) /\ job.dir \in Project
      BY <1>0, <1>4, Bounds DEF PhaseDone, Phase, Over
    <3>2. job' = [job EXCEPT !.phase = job.phase + 1, !.running = job.phase < Last]
      BY <1>4 DEF PhaseDone
    <3>3. (job.phase < Last) \in BOOLEAN
      BY <3>1
    <3>4. /\ job' \in Jobs /\ job'.phase = job.phase + 1 /\ job'.running = (job.phase < Last)
          /\ job'.dir = job.dir
      BY <1>0, <3>1, <3>2, <3>3 DEF Jobs
    <3> QED
      BY <3>1, <3>4
  <2> HIDE DEF Asks, Running
  <2> QED
    BY <1>0, <1>p, <1>s, <2>1, <2>2
<1>5. CASE AnalysisFails
  <2>1. UNCHANGED <<disk, page, load, shows>>
    BY <1>5 DEF AnalysisFails
  <2>2. job' \in Jobs /\ Running'
    BY <1>0, <1>5 DEF AnalysisFails, Jobs
  <2> HIDE DEF Asks, Running
  <2> QED
    BY <1>0, <1>p, <1>s, <2>1, <2>2
<1>6. CASE ResultsSeen
  <2>1. UNCHANGED <<disk, job, load, shows>>
    BY <1>6 DEF ResultsSeen
  <2>2. job.dir \in Dir
    BY <1>0, <1>6, Bounds DEF ResultsSeen, Over
  <2>3. page' \in Pages /\ page'.artifacts = page.artifacts
    <3>1. disk[job.dir][Last] \in Artifact \cup {None}
      BY <1>0, <2>2, Bounds DEF Artifacts
    <3> QED
      BY <1>0, <1>6, <3>1 DEF ResultsSeen, Pages
  <2>4. Supplied' /\ Asks'
    BY <1>0, <2>1, <2>3 DEF Supplied, Held, OfPhase, OfProject
  <2> HIDE DEF Asks, Running
  <2> QED
    BY <1>0, <1>p, <1>j, <2>1, <2>3, <2>4
<1>7. ASSUME NEW k \in Load, LoadStep(k) PROVE Shapes'
  <2>1. CASE api_artifacts(k)
    <3>0. PICK torn \in BOOLEAN :
          load' = [load EXCEPT
                     ![k].at = IF @ = "project" THEN "projectAnswered" ELSE "phaseAnswered",
                     ![k].answer = InDirectory(Asked(k), torn)]
      BY <2>1 DEF api_artifacts
    <3>1. Asked(k) \in Dir
      <4>1. load[k].at = "project" => load[k].project \in Project
        BY <1>0 DEF OfProject, Loads
      <4>2. job.dir \in Dir
        BY <1>0 DEF Jobs
      <4> QED
        BY <4>1, <4>2, Bounds DEF Asked
    <3>2. InDirectory(Asked(k), torn) \in Artifacts
      <4>1. ASSUME NEW n \in Phase
            PROVE  disk[Asked(k)][n] \in Artifact \cup {None}
        BY <1>0, <3>1, <4>1 DEF Artifacts
      <4> QED
        BY <4>1 DEF InDirectory, Artifacts
    <3> DEFINE next == [load[k] EXCEPT
                          !.at = IF load[k].at = "project" THEN "projectAnswered"
                                 ELSE "phaseAnswered",
                          !.answer = InDirectory(Asked(k), torn)]
    <3>3. /\ next \in Loads /\ next.n = load[k].n /\ next.project = load[k].project
          /\ next.own = load[k].own /\ next.arts = load[k].arts
          /\ next.at = IF load[k].at = "project" THEN "projectAnswered" ELSE "phaseAnswered"
      BY <1>0, <3>2 DEF Loads
    <3>4. load' = [load EXCEPT ![k] = next]
      BY <1>0, <3>0
    <3> HIDE DEF next
    <3>5. /\ load' \in [Load -> Loads] /\ load'[k] = next
          /\ \A j \in Load : j # k => load'[j] = load[j]
      <4>1. load \in [Load -> Loads] /\ next \in Loads
        BY <1>0, <3>3
      <4> QED
        BY <3>4, <4>1, OverwriteTyped
    <3>6. UNCHANGED <<disk, job, page, shows>> /\ load[k].at \in {"project", "phase"}
      BY <2>1 DEF api_artifacts
    <3>7. \A j \in Load : /\ Held(j)' = Held(j)
                          /\ OfPhase(j)' <=> OfPhase(j)
                          /\ OfProject(j)' <=> OfProject(j)
      BY <3>3, <3>5, <3>6 DEF Held, OfPhase, OfProject
    <3>8. Supplied' /\ Asks'
      BY <1>0, <3>3, <3>5, <3>6, <3>7 DEF Supplied
    <3> HIDE DEF Asks, Running
    <3> QED
      BY <1>0, <1>p, <1>j, <3>5, <3>6, <3>8
  <2>2. CASE PhaseSeen(k)
    <3>1. page.seen + 1 \in Phase /\ UNCHANGED <<disk, job, shows>>
      BY <1>0, <2>2, Bounds DEF PhaseSeen, Pages, Jobs, Over, Phase
    <3>2. page' \in Pages /\ page'.artifacts = page.artifacts
      BY <1>0, <2>2, <3>1, Bounds DEF PhaseSeen, Pages
    <3>3. load' = [load EXCEPT ![k] = PhaseLoad(page.seen + 1)]
      BY <2>2 DEF PhaseSeen
    <3>4. /\ load' \in [Load -> Loads] /\ load'[k] = PhaseLoad(page.seen + 1)
          /\ \A j \in Load : j # k => load'[j] = load[j]
      BY <1>0, <3>1, <3>3, LoadsTyped, OverwriteTyped
    <3>5. Supplied' /\ Asks'
      <4>1. ASSUME NEW j \in Load, j # k PROVE load'[j] = load[j] /\ Held(j)' = Held(j)
        BY <3>2, <3>4, <4>1 DEF Held
      <4>2. load'[k].at = "phase" /\ load'[k].project = None /\ load'[k].n \in Phase
        BY <3>1, <3>4, LoadsTyped
      <4> QED
        BY <1>0, <4>1, <4>2 DEF Supplied, OfPhase, OfProject
    <3> HIDE DEF Asks, Running
    <3> QED
      BY <1>0, <1>p, <1>j, <3>1, <3>2, <3>4, <3>5
  <2>3. CASE ProjectLoaded(k)
    <3> DEFINE arts == load[k].answer
    <3>0. UNCHANGED <<disk, job, shows>> /\ load[k].at = "projectAnswered" /\ arts \in Artifacts
      BY <1>0, <2>3 DEF ProjectLoaded, Loads
    <3>1. CASE arts = Nothing /\ page' = [page EXCEPT !.slide = Nothing, !.results = None]
               /\ load' = [load EXCEPT ![k] = NoLoad]
      <4>1. page' \in Pages /\ page'.artifacts = page.artifacts
        BY <1>0, <3>1, NothingTyped DEF Pages
      <4>2. /\ load' \in [Load -> Loads] /\ load'[k] = NoLoad
            /\ \A j \in Load : j # k => load'[j] = load[j]
        BY <1>0, <3>1, LoadsTyped, OverwriteTyped
      <4>3. Supplied' /\ Asks'
        <5>1. ASSUME NEW j \in Load, j # k PROVE load'[j] = load[j] /\ Held(j)' = Held(j)
          BY <4>1, <4>2, <5>1 DEF Held
        <5> QED
          BY <1>0, <4>2, <5>1, LoadsTyped DEF Supplied, OfPhase, OfProject
      <4> HIDE DEF Asks, Running
      <4> QED
        BY <1>0, <1>p, <1>j, <3>0, <4>1, <4>2, <4>3
    <3>2. CASE arts # Nothing /\ page' = [page EXCEPT !.artifacts = arts]
               /\ Continue(Replaced, k, arts, 1, FALSE)
      <4> HIDE DEF arts
      <4>1. page' \in Pages /\ page'.artifacts = arts
        BY <1>0, <3>0, <3>2 DEF Pages
      <4>2. /\ load' \in [Load -> Loads]
            /\ \A j \in Load : j # k => load'[j] = Replaced[j]
            /\ \/ load'[k] = NoLoad
               \/ /\ load'[k].at = "phase" /\ Left(arts, 1) # {}
                  /\ load'[k].n = First(Left(arts, 1)) /\ load'[k].n \in Phase
                  /\ ~load'[k].own
        <5>1. Replaced \in [Load -> Loads] /\ FALSE \in BOOLEAN /\ 1 \in Nat
          BY ReplacedTyped DEF Shapes
        <5>2. GoesOn(Replaced, k, arts, 1, FALSE)
          BY <1>0, <3>0, <3>2, <5>1, ContinueEffect
        <5> QED
          BY <5>2 DEF GoesOn
      <4>3. ASSUME NEW j \in Load, j # k
            PROVE  /\ load'[j].at = load[j].at /\ load'[j].n = load[j].n
                   /\ load'[j].project = load[j].project /\ Held(j)' = Held(j)
        BY <4>2, <4>3, ReplacedTyped DEF Held, Shapes
      <4>4. ASSUME load'[k].at # "free"
            PROVE  /\ load'[k].at = "phase" /\ load'[k].n \in Phase
                   /\ Held(k)' = arts /\ arts[load'[k].n] # None
        <5>1. /\ load'[k].at = "phase" /\ Left(arts, 1) # {}
              /\ load'[k].n = First(Left(arts, 1)) /\ load'[k].n \in Phase /\ ~load'[k].own
          BY <4>2, <4>4, LoadsTyped
        <5>2. arts[load'[k].n] # None
          BY <5>1, NextPhase
        <5> QED
          BY <4>1, <5>1, <5>2 DEF Held
      <4>5. load'[k].at = "free" => load'[k].project = None
        BY <4>2, LoadsTyped
      <4>6. Supplied'
        BY <1>0, <4>3, <4>4 DEF Supplied, OfPhase
      <4>7. Asks'
        BY <1>0, <4>3, <4>4, <4>5 DEF OfProject
      <4> HIDE DEF Asks, Running
      <4> QED
        BY <1>0, <1>p, <1>j, <3>0, <4>1, <4>2, <4>6, <4>7
    <3> QED
      BY <2>3, <3>1, <3>2 DEF ProjectLoaded
  <2>4. CASE PhaseLoaded(k)
    <3> DEFINE artifacts == Merge(page.artifacts, load[k].answer)
    <3>1. /\ artifacts \in Artifacts
          /\ \A n \in Phase : page.artifacts[n] # None => artifacts[n] # None
      BY <1>0, MergeTyped DEF Pages, Loads
    <3>2. OfPhase(k) /\ Draw(k, artifacts) /\ UNCHANGED <<disk, job, shows>>
      BY <2>4 DEF PhaseLoaded, OfPhase
    <3> HIDE DEF artifacts
    <3>3. page' \in Pages /\ load' \in [Load -> Loads] /\ Supplied' /\ Asks'
      BY <3>1, <3>2, DrawTyped
    <3> HIDE DEF Asks, Running
    <3> QED
      BY <1>0, <1>p, <1>j, <3>2, <3>3
  <2>5. CASE Lose(k)
    <3>0. shows' = None /\ UNCHANGED <<disk, job>>
      BY <2>5 DEF Lose
    <3>1. CASE load[k].at = "phaseAnswered" /\ Draw(k, page.artifacts)
      <4>1. page.artifacts \in Artifacts /\ OfPhase(k)
        BY <1>0, <3>1 DEF Pages, OfPhase
      <4>2. page' \in Pages /\ load' \in [Load -> Loads] /\ Supplied' /\ Asks'
        BY <3>1, <4>1, DrawTyped
      <4> HIDE DEF Asks, Running
      <4> QED
        BY <1>0, <1>p, <1>j, <3>0, <4>2
    <3>2. CASE load' = [load EXCEPT ![k] = NoLoad] /\ UNCHANGED page
      <4>1. /\ load' \in [Load -> Loads] /\ load'[k] = NoLoad
            /\ \A j \in Load : j # k => load'[j] = load[j]
        BY <1>0, <3>2, LoadsTyped, OverwriteTyped
      <4>2. Supplied' /\ Asks'
        <5>1. ASSUME NEW j \in Load, j # k PROVE load'[j] = load[j] /\ Held(j)' = Held(j)
          BY <3>2, <4>1, <5>1 DEF Held
        <5> QED
          BY <1>0, <4>1, <5>1, LoadsTyped DEF Supplied, OfPhase, OfProject
      <4> HIDE DEF Asks, Running
      <4> QED
        BY <1>0, <1>p, <1>j, <3>0, <3>2, <4>1, <4>2
    <3> QED
      BY <2>5, <3>1, <3>2 DEF Lose
  <2> QED
    BY <1>7, <2>1, <2>2, <2>3, <2>4, <2>5 DEF LoadStep
<1>8. CASE UNCHANGED vars
  <2>1. UNCHANGED <<disk, job, page, load, shows>>
    BY <1>8 DEF vars
  <2> HIDE DEF Asks, Running
  <2> QED
    BY <1>0, <1>p, <1>s, <1>j, <2>1
<1> QED
  BY <1>1, <1>2, <1>3, <1>4, <1>5, <1>6, <1>7, <1>8 DEF Next

(* Shapes is an invariant.                                                 *)
LEMMA AlwaysShapes == Spec => []Shapes
BY InitShapes, NextShapes, PTL DEF Spec

(* index.html: types of the page, the loads and the directories.           *)
THEOREM SlidesTyped == Spec => []TypeOK
BY AlwaysShapes, PTL DEF Shapes

-----------------------------------------------------------------------------
(* While only the analysis that was started is shown, all loads are for    *)
(* phases it has finished, and a slide is drawn or its load under way.     *)
Made == [of |-> job.dir, by |-> job.count]

OnlyAnalysis ==
  shows = "analysis" =>
    /\ job.phase > 0 /\ page.seen < job.phase
    /\ \A n \in Phase : n < job.phase => disk[job.dir][n] = Made
    /\ \A k \in Load :
         /\ load[k].project = None
         /\ OfPhase(k) => load[k].n <= page.seen
         /\ load[k].at = "phaseAnswered" => load[k].answer[load[k].n] = Made
    /\ \A n \in Phase : n <= page.seen =>
         page.slide[n] = Made \/ \E k \in Load : OfPhase(k) /\ load[k].n = n
    /\ page.results # None => job.phase = Over /\ page.results = Made


(* The running analysis' artifacts are artifacts.                          *)
LEMMA MadeIsThere == ASSUME Shapes, job.phase > 0 PROVE Made \in Artifact /\ Made # None
<1>1. job.dir \in Project /\ job.count \in 0..Analyses
  BY ShapesParts DEF Jobs
<1>2. Made \in Artifact
  BY <1>1 DEF Made, Artifact
<1> QED
  BY <1>2, SlidesAssumption

(* Every step keeps OnlyAnalysis: it is Analyze that makes it so, and only *)
(* loads of the analysis' own phases run until the user acts again.        *)
LEMMA NextAnalysis == Shapes /\ OnlyAnalysis /\ [Next]_vars => OnlyAnalysis'
<1> SUFFICES ASSUME Shapes, OnlyAnalysis, [Next]_vars, shows' = "analysis" PROVE OnlyAnalysis'
  BY DEF OnlyAnalysis
<1>0. /\ disk \in [Dir -> Artifacts] /\ job \in Jobs /\ page \in Pages
      /\ load \in [Load -> Loads] /\ Supplied
      /\ job.running => job.phase \in Phase
      /\ job.phase > 0 => job.dir \in Project
      /\ \A k \in Load : /\ load[k].at = "free" => load[k].project = None
                         /\ OfProject(k) => load[k].project # None
  BY ShapesParts
<1>1. ASSUME NEW p \in Project, NEW k \in Load, Select(p, k) PROVE FALSE
  BY <1>1, SlidesAssumption DEF Select
<1>2. CASE Analyze
  <2>1. /\ job'.dir = page.selected /\ job'.phase = 1 /\ page'.seen = 0 /\ page'.results = None
        /\ load' = Replaced
    BY <1>0, <1>2 DEF Analyze, Pages, Jobs
  <2>2. \A k \in Load : load[k].at = "free" /\ load[k].project = None
    BY <1>0, <1>2, SlidesAssumption DEF Analyze, Quiet
  <2>3. \A k \in Load : load'[k].at = "free" /\ load'[k].project = None
    BY <2>1, <2>2, ReplacedTyped DEF Shapes
  <2>4. \A n \in Phase : ~(n < 1) /\ ~(n <= 0)
    BY DEF Phase
  <2> QED
    BY <2>1, <2>3, <2>4 DEF OnlyAnalysis, OfPhase
<1>a. CASE shows = "analysis"
  <2>0. /\ job.phase > 0 /\ page.seen < job.phase /\ job.dir \in Project
        /\ \A n \in Phase : n < job.phase => disk[job.dir][n] = Made
        /\ \A k \in Load :
             /\ load[k].project = None
             /\ OfPhase(k) => load[k].n <= page.seen
             /\ load[k].at = "phaseAnswered" => load[k].answer[load[k].n] = Made
        /\ \A n \in Phase : n <= page.seen =>
             page.slide[n] = Made \/ \E k \in Load : OfPhase(k) /\ load[k].n = n
        /\ page.results # None => job.phase = Over /\ page.results = Made
    BY <1>0, <1>a DEF OnlyAnalysis
  <2>b. job.phase \in Nat /\ page.seen \in Nat /\ Last \in Nat
    BY <1>0, Bounds DEF Jobs, Pages, Over
  <2>3. CASE WriteArtifact
    <3>1. /\ UNCHANGED <<job, page, load>> /\ job.phase \in Phase
          /\ disk' = [disk EXCEPT ![job.dir][job.phase] = Made]
      BY <1>0, <2>3 DEF WriteArtifact, Made
    <3>2. Made' = Made
      BY <3>1 DEF Made
    <3>3. \A n \in Phase : n < job.phase => disk'[job.dir][n] = disk[job.dir][n]
      BY <1>0, <2>0, <2>b, <3>1, Bounds DEF Artifacts
    <3> QED
      BY <2>0, <3>1, <3>2, <3>3 DEF OnlyAnalysis, OfPhase
  <2>4. CASE PhaseDone
    <3>1. /\ UNCHANGED <<disk, page, load>> /\ job.phase \in Phase
          /\ disk[job.dir][job.phase] = Made
          /\ job'.dir = job.dir /\ job'.count = job.count /\ job'.phase = job.phase + 1
      BY <1>0, <2>4 DEF PhaseDone, Made, Jobs
    <3>2. Made' = Made
      BY <3>1 DEF Made
    <3>3. page.results = None
      BY <2>0, <3>1, Bounds DEF Phase, Over
    <3>4. \A n \in Phase : n < job.phase + 1 => n < job.phase \/ n = job.phase
      BY <2>b DEF Phase
    <3>5. job.phase + 1 > 0 /\ page.seen < job.phase + 1
      BY <2>0, <2>b
    <3> QED
      BY <2>0, <3>1, <3>2, <3>3, <3>4, <3>5 DEF OnlyAnalysis, OfPhase
  <2>5. CASE AnalysisFails
    <3>1. /\ UNCHANGED <<disk, page, load>>
          /\ job'.dir = job.dir /\ job'.count = job.count /\ job'.phase = job.phase
      BY <1>0, <2>5 DEF AnalysisFails, Jobs
    <3>2. Made' = Made
      BY <3>1 DEF Made
    <3> QED
      BY <2>0, <3>1, <3>2 DEF OnlyAnalysis, OfPhase
  <2>6. CASE ResultsSeen
    <3>1. /\ UNCHANGED <<disk, job, load>> /\ job.phase = Over
          /\ page'.results = disk[job.dir][Last] /\ page'.seen = page.seen
          /\ page'.slide = page.slide
      BY <1>0, <2>6 DEF ResultsSeen, Pages
    <3>2. Made' = Made
      BY <3>1 DEF Made
    <3>3. page'.results = Made
      BY <2>0, <3>1, Bounds DEF Over
    <3> QED
      BY <2>0, <3>1, <3>2, <3>3 DEF OnlyAnalysis, OfPhase
  <2>7. ASSUME NEW k \in Load, LoadStep(k) PROVE OnlyAnalysis'
    <3>p. ~OfProject(k)
      BY <1>0, <2>0
    <3>1. CASE api_artifacts(k)
      <4>0. load[k].at = "phase" /\ UNCHANGED <<disk, job, page>>
        BY <3>1, <3>p DEF api_artifacts, OfProject
      <4>1. PICK torn \in BOOLEAN :
              load' = [load EXCEPT
                         ![k].at = IF @ = "project" THEN "projectAnswered" ELSE "phaseAnswered",
                         ![k].answer = InDirectory(Asked(k), torn)]
        BY <3>1 DEF api_artifacts
      <4>2. /\ load'[k].at = "phaseAnswered" /\ load'[k].n = load[k].n
            /\ load'[k].project = load[k].project
            /\ load'[k].answer = InDirectory(Asked(k), torn)
            /\ \A j \in Load : j # k => load'[j] = load[j]
        BY <1>0, <4>0, <4>1 DEF Loads
      <4>3. load[k].n \in Phase /\ load[k].n < job.phase
        <5>1. load[k].n \in Phase /\ load[k].n <= page.seen
          BY <1>0, <2>0, <4>0 DEF OfPhase, Supplied
        <5> QED
          BY <2>0, <2>b, <5>1 DEF Phase
      <4>4. Asked(k) = job.dir
        BY <4>0 DEF Asked
      <4>5. InDirectory(Asked(k), torn)[load[k].n] = Made
        <5>1. load[k].n # job.phase
          BY <2>0, <2>b, <4>3, Bounds DEF Phase
        <5>2. InDirectory(Asked(k), torn)[load[k].n] = disk[job.dir][load[k].n]
          BY <4>3, <4>4, <5>1 DEF InDirectory
        <5> QED
          BY <2>0, <4>3, <5>2
      <4>6. Made' = Made
        BY <4>0 DEF Made
      <4>7. \A j \in Load : /\ load'[j].n = load[j].n /\ load'[j].project = None
                            /\ OfPhase(j)' <=> OfPhase(j)
                            /\ load'[j].at = "phaseAnswered" => load'[j].answer[load'[j].n] = Made
        BY <2>0, <4>0, <4>2, <4>5 DEF OfPhase
      <4> QED
        BY <2>0, <4>0, <4>6, <4>7 DEF OnlyAnalysis
    <3>2. CASE PhaseSeen(k)
      <4>1. /\ UNCHANGED <<disk, job>> /\ page.seen + 1 < job.phase /\ load[k].at = "free"
            /\ page'.seen = page.seen + 1 /\ page'.slide = page.slide
            /\ page'.results = page.results
            /\ load' = [load EXCEPT ![k] = PhaseLoad(page.seen + 1)]
        BY <1>0, <3>2 DEF PhaseSeen, Pages
      <4>2. page.seen + 1 \in Phase
        BY <1>0, <2>b, <4>1, Bounds DEF Phase, Over, Jobs
      <4>3. /\ load'[k].at = "phase" /\ load'[k].n = page.seen + 1 /\ load'[k].project = None
            /\ \A j \in Load : j # k => load'[j] = load[j]
        BY <1>0, <4>1, <4>2, LoadsTyped
      <4>4. Made' = Made
        BY <4>1 DEF Made
      <4>5. \A j \in Load : /\ load'[j].project = None
                            /\ OfPhase(j)' => load'[j].n <= page.seen + 1
                            /\ load'[j].at = "phaseAnswered" => load'[j].answer[load'[j].n] = Made
        <5> TAKE j \in Load
        <5>1. CASE j = k
          BY <2>b, <4>3, <5>1
        <5>2. CASE j # k
          <6>1. OfPhase(j) => load[j].n \in Nat /\ load[j].n <= page.seen
            BY <1>0, <2>0 DEF Supplied, Phase
          <6>2. OfPhase(j) => load[j].n <= page.seen + 1
            BY <2>b, <6>1
          <6> QED
            BY <2>0, <4>3, <5>2, <6>2 DEF OfPhase
        <5> QED
          BY <5>1, <5>2
      <4>6. ASSUME NEW n \in Phase, n <= page.seen + 1
            PROVE  page.slide[n] = Made \/ \E j \in Load : OfPhase(j)' /\ load'[j].n = n
        <5>1. CASE n = page.seen + 1
          BY <4>3, <5>1 DEF OfPhase
        <5>2. CASE n # page.seen + 1
          <6>1. n <= page.seen
            BY <2>b, <4>6, <5>2 DEF Phase
          <6>2. CASE \E j \in Load : OfPhase(j) /\ load[j].n = n
            <7>1. PICK j \in Load : OfPhase(j) /\ load[j].n = n
              BY <6>2
            <7>2. j # k
              BY <4>1, <7>1 DEF OfPhase
            <7> QED
              BY <4>3, <7>1, <7>2 DEF OfPhase
          <6> QED
            BY <2>0, <6>1, <6>2
        <5> QED
          BY <5>1, <5>2
      <4> QED
        BY <2>0, <4>1, <4>4, <4>5, <4>6 DEF OnlyAnalysis
    <3>3. CASE ProjectLoaded(k)
      BY <3>3, <3>p DEF ProjectLoaded, OfProject
    <3>4. CASE PhaseLoaded(k)
      <4> DEFINE artifacts == Merge(page.artifacts, load[k].answer)
                 n         == load[k].n
                 arts      == GoesOnWith(k, artifacts)
      <4>0. /\ load[k].at = "phaseAnswered" /\ OfPhase(k) /\ Draw(k, artifacts)
            /\ UNCHANGED <<disk, job>>
        BY <3>4 DEF PhaseLoaded, OfPhase
      <4>1. artifacts \in Artifacts /\ n \in Phase /\ artifacts[n] = Made /\ Made # None
        <5>1. load[k].answer \in Artifacts /\ page.artifacts \in Artifacts
          BY <1>0 DEF Loads, Pages
        <5>2. n \in Phase /\ load[k].answer[n] = Made /\ Made # None
          BY <1>0, <2>0, <4>0, MadeIsThere DEF Supplied
        <5> HIDE DEF n
        <5> QED
          BY <5>1, <5>2, MergeTyped
      <4>e. arts = GoesOnWith(k, artifacts) /\ n = load[k].n
        OBVIOUS
      <4> HIDE DEF artifacts, n, arts
      <4>2. /\ page'.seen = page.seen
            /\ page'.slide[n] = IF artifacts[n] # None THEN artifacts[n] ELSE page.slide[n]
            /\ \A m \in Phase : m # n => page'.slide[m] = page.slide[m]
            /\ page'.results =
                 IF load[k].project # None /\ Left(arts, n + 1) = {} /\ arts[Last] # None
                 THEN arts[Last] ELSE page.results
            /\ \A j \in Load : j # k => load'[j] = load[j]
            /\ load'[k] = NoLoad \/ load[k].project # None
        <5>1. Drawing(k, artifacts, n, arts)
          BY <4>0, <4>1, DrawEffect DEF n, arts
        <5> QED
          BY <5>1 DEF Drawing
      <4>3. page'.slide[n] = Made /\ page'.results = page.results /\ load'[k] = NoLoad
        BY <2>0, <4>1, <4>2
      <4>4. Made' = Made
        BY <4>0 DEF Made
      <4>5. \A j \in Load : /\ load'[j].project = None
                            /\ OfPhase(j)' => load'[j].n <= page.seen
                            /\ load'[j].at = "phaseAnswered" => load'[j].answer[load'[j].n] = Made
        BY <2>0, <4>2, <4>3, LoadsTyped DEF OfPhase
      <4>6. ASSUME NEW m \in Phase, m <= page.seen
            PROVE  page'.slide[m] = Made \/ \E j \in Load : OfPhase(j)' /\ load'[j].n = m
        <5>1. CASE m = n
          BY <4>3, <5>1
        <5>2. CASE m # n
          <6>1. CASE \E j \in Load : OfPhase(j) /\ load[j].n = m
            <7>1. PICK j \in Load : OfPhase(j) /\ load[j].n = m
              BY <6>1
            <7>2. j # k
              BY <4>e, <5>2, <7>1
            <7> QED
              BY <4>2, <7>1, <7>2 DEF OfPhase
          <6>2. CASE page.slide[m] = Made
            BY <4>2, <5>2, <6>2
          <6> QED
            BY <2>0, <4>6, <6>1, <6>2
        <5> QED
          BY <5>1, <5>2
      <4> QED
        BY <2>0, <4>0, <4>2, <4>3, <4>4, <4>5, <4>6 DEF OnlyAnalysis
    <3>5. CASE Lose(k)
      BY <3>5, SlidesAssumption DEF Lose
    <3> QED
      BY <2>7, <3>1, <3>2, <3>3, <3>4, <3>5 DEF LoadStep
  <2>8. CASE UNCHANGED vars
    <3>1. UNCHANGED <<disk, job, page, load>>
      BY <2>8 DEF vars
    <3>2. Made' = Made
      BY <3>1 DEF Made
    <3> QED
      BY <2>0, <3>1, <3>2 DEF OnlyAnalysis, OfPhase
  <2> QED
    BY <1>1, <1>2, <2>3, <2>4, <2>5, <2>6, <2>7, <2>8 DEF Next
<1>b. CASE shows # "analysis"
  <2>1. \/ Analyze \/ \E p \in Project, k \in Load : Select(p, k)
    BY <1>b, SlidesAssumption
    DEF Next, vars, WriteArtifact, PhaseDone, AnalysisFails, ResultsSeen, LoadStep, api_artifacts,
        PhaseSeen, ProjectLoaded, PhaseLoaded, Lose
  <2> QED
    BY <1>1, <1>2, <2>1
<1> QED
  BY <1>a, <1>b

(* No analysis has been started when the page opens.                       *)
LEMMA InitAnalysis == Init => OnlyAnalysis
BY SlidesAssumption DEF Init, OnlyAnalysis

(* When all its loads have ended, all its slides have been drawn.          *)
LEMMA OnlyItIsShown == Shapes /\ OnlyAnalysis => AnalysisIsShown
<1> SUFFICES ASSUME Shapes, OnlyAnalysis, shows = "analysis", job.phase = Over,
                    page.seen = Last, Quiet
             PROVE  /\ \A n \in Phase : page.slide[n] = Made
                    /\ page.results \in {None, disk[job.dir][Last]}
  BY DEF AnalysisIsShown, Made
<1>1. \A n \in Phase : n <= Last /\ n < Over
  BY Bounds DEF Phase, Over
<1>2. \A k \in Load : ~OfPhase(k)
  BY DEF Quiet, OfPhase
<1> QED
  BY <1>1, <1>2, Bounds DEF OnlyAnalysis

(* index.html: the slides of an analysis, loaded in any order, are its own.*)
THEOREM AnalysesAreShown == Spec => []AnalysisIsShown
<1>1. Init => Shapes /\ OnlyAnalysis
  BY InitShapes, InitAnalysis
<1>2. Shapes /\ OnlyAnalysis /\ [Next]_vars => Shapes' /\ OnlyAnalysis'
  BY NextShapes, NextAnalysis
<1> QED
  BY <1>1, <1>2, OnlyItIsShown, PTL DEF Spec

-----------------------------------------------------------------------------
(* What a finished phase has written is there.                             *)
Written ==
  job.phase > 0 => \A n \in Phase : n < job.phase => disk[job.dir][n] # None

(* Every step keeps Written: a phase is done when it has written.          *)
LEMMA NextWritten == Shapes /\ Written /\ [Next]_vars => Written'
<1> SUFFICES ASSUME Shapes, Written, [Next]_vars PROVE Written'
  OBVIOUS
<1>0. /\ disk \in [Dir -> Artifacts] /\ job \in Jobs /\ page \in Pages
      /\ job.running => job.phase \in Phase /\ job.dir \in Project
      /\ job.phase > 0 => job.dir \in Project
  BY ShapesParts DEF Phase
<1>1. CASE UNCHANGED <<disk, job>>
  BY <1>1 DEF Written
<1>2. CASE Analyze
  <2>1. job'.phase = 1 /\ \A n \in Phase : ~(n < 1)
    BY <1>0, <1>2 DEF Analyze, Jobs, Phase
  <2> QED
    BY <2>1 DEF Written
<1>3. CASE WriteArtifact
  <2>1. /\ job' = job /\ job.phase \in Phase /\ job.phase > 0
        /\ disk' = [disk EXCEPT ![job.dir][job.phase] = Made]
    BY <1>0, <1>3 DEF WriteArtifact, Made, Phase
  <2>2. \A n \in Phase : n < job.phase => disk'[job.dir][n] = disk[job.dir][n]
    BY <1>0, <2>1, Bounds DEF Artifacts, Phase
  <2> QED
    BY <2>1, <2>2 DEF Written
<1>4. CASE PhaseDone
  <2>1. /\ disk' = disk /\ job.phase \in Phase /\ job.phase > 0
        /\ disk[job.dir][job.phase] = Made
        /\ job'.dir = job.dir /\ job'.phase = job.phase + 1
    BY <1>0, <1>4 DEF PhaseDone, Made, Jobs, Phase
  <2>2. Made # None
    BY <2>1, MadeIsThere
  <2>3. \A n \in Phase : n < job.phase + 1 => n < job.phase \/ n = job.phase
    BY <2>1 DEF Phase
  <2> QED
    BY <2>1, <2>2, <2>3 DEF Written
<1>5. CASE AnalysisFails
  <2>1. disk' = disk /\ job'.dir = job.dir /\ job'.phase = job.phase
    BY <1>0, <1>5 DEF AnalysisFails, Jobs
  <2> QED
    BY <2>1 DEF Written
<1>6. \/ UNCHANGED <<disk, job>> \/ Analyze \/ WriteArtifact \/ PhaseDone \/ AnalysisFails
  BY DEF Next, vars, Select, ResultsSeen, LoadStep, api_artifacts, PhaseSeen, ProjectLoaded,
         PhaseLoaded, Lose
<1> QED
  BY <1>1, <1>2, <1>3, <1>4, <1>5, <1>6

(* While only the project that was chosen is shown, one load is of it, and *)
(* the others are for phases that a job with its directory has finished.   *)
Chosen == disk[page.selected]

Goes(k) == OfPhase(k) /\ load[k].project # None

LoadsOfChoice ==
  /\ \A k \in Load :
       /\ load[k].project \in {None, page.selected}
       /\ OfPhase(k) /\ load[k].project = None => load[k].n < job.phase
       /\ load[k].at = "projectAnswered" => load[k].answer = Chosen
       /\ load[k].at = "phaseAnswered" => load[k].answer \in {Chosen, Nothing}
  /\ \A j, k \in Load : load[j].project # None /\ load[k].project # None => j = k

(* Its first answer is S.artifacts until the load is over, and each slide  *)
(* is drawn or still to come.                                              *)
Drawn ==
  /\ page.artifacts = Chosen
  /\ \A k \in Load : Goes(k) => ~load[k].own
  /\ \A n \in Phase : Chosen[n] # None =>
       page.slide[n] = Chosen[n] \/ \E k \in Load : Goes(k) /\ load[k].n <= n
  /\ Chosen[Last] # None => page.results = Chosen[Last] \/ \E k \in Load : Goes(k)

Cleared == page.slide = Nothing /\ page.results = None /\ \A k \in Load : ~OfPhase(k)

(* The first answer is still to come, or has been shown.                   *)
ChoiceGoesOn ==
  \/ \E k \in Load : OfProject(k)
  \/ Chosen = Nothing /\ Cleared
  \/ Chosen # Nothing /\ Drawn

(* A request for the job's artifacts is answered with the choice's or none.*)
Undisturbed == job.dir = page.selected \/ disk[job.dir] = Nothing

OnlyChoice ==
  shows = "project" =>
    /\ ~job.running
    /\ Undisturbed => LoadsOfChoice /\ ChoiceGoesOn

(* What every step in which the choice goes on may use.                    *)
OfChoice ==
  /\ Shapes /\ Written /\ ~job.running /\ Undisturbed
  /\ LoadsOfChoice /\ ChoiceGoesOn

(* A finished phase has an artifact in the directory of the choice.        *)
LEMMA FinishedIsChosen ==
  ASSUME OfChoice, NEW n \in Phase, n < job.phase
  PROVE  job.dir = page.selected /\ Chosen[n] # None /\ Chosen # Nothing
<1>1. job.phase > 0
  BY ShapesParts, Bounds DEF OfChoice, Jobs, Phase, Over
<1>2. disk[job.dir][n] # None
  BY <1>1 DEF OfChoice, Written
<1>3. job.dir = page.selected
  BY <1>2, NothingTyped DEF OfChoice, Undisturbed
<1> QED
  BY <1>2, <1>3, NothingTyped DEF Chosen

(* The choice: no other load is under way.                                 *)
LEMMA ChoiceStarts ==
  ASSUME Shapes, Quiet, NEW p \in Project, NEW k \in Load, Select(p, k)
  PROVE  LoadsOfChoice' /\ ChoiceGoesOn'
<1>1. /\ load \in [Load -> Loads] /\ page \in Pages
      /\ \A j \in Load : load[j].at = "free" /\ load[j].project = None
  BY ShapesParts DEF Quiet
<1>2. page'.selected = p /\ load' = [load EXCEPT ![k] = ProjectLoad(p)]
  BY <1>1 DEF Select, Pages
<1>3. /\ load'[k].at = "project" /\ load'[k].project = p
      /\ \A j \in Load : j # k => load'[j] = load[j]
  BY <1>1, <1>2, LoadsTyped, OverwriteTyped
<1>4. LoadsOfChoice'
  BY <1>1, <1>2, <1>3 DEF LoadsOfChoice, OfPhase
<1>5. ChoiceGoesOn'
  BY <1>3 DEF ChoiceGoesOn, OfProject
<1> QED
  BY <1>4, <1>5

(* The server, idle, answers with what it has of the choice.               *)
LEMMA ChoiceAnswered ==
  ASSUME OfChoice, NEW k \in Load, api_artifacts(k)
  PROVE  LoadsOfChoice' /\ ChoiceGoesOn'
<1>0. /\ Shapes /\ load \in [Load -> Loads] /\ page \in Pages /\ disk \in [Dir -> Artifacts]
      /\ \A j \in Load : OfProject(j) => load[j].project # None
      /\ page.selected \in Project /\ LoadsOfChoice
  BY ShapesParts DEF OfChoice, Pages
<1>1. load[k].at \in {"project", "phase"} /\ UNCHANGED <<disk, job, page>>
  BY DEF api_artifacts
<1>2. PICK torn \in BOOLEAN :
        load' = [load EXCEPT
                   ![k].at = IF @ = "project" THEN "projectAnswered" ELSE "phaseAnswered",
                   ![k].answer = InDirectory(Asked(k), torn)]
  BY DEF api_artifacts
<1> DEFINE answer == InDirectory(Asked(k), torn)
<1>3. /\ load'[k].at = IF load[k].at = "project" THEN "projectAnswered" ELSE "phaseAnswered"
      /\ load'[k].answer = answer
      /\ load'[k].n = load[k].n /\ load'[k].project = load[k].project
      /\ load'[k].own = load[k].own
      /\ \A j \in Load : j # k => load'[j] = load[j]
  BY <1>0, <1>2 DEF Loads
<1>4. answer = disk[Asked(k)]
  <2>1. disk[Asked(k)] = [n \in Phase |-> disk[Asked(k)][n]]
    <3>1. Asked(k) \in Dir
      BY <1>0, <1>1, Bounds, ShapesParts DEF Asked, Loads, LoadsOfChoice, OfProject, Jobs
    <3> QED
      BY <1>0, <3>1 DEF Artifacts
  <2> QED
    BY <2>1 DEF InDirectory, OfChoice
<1>5. /\ load[k].at = "project" => answer = Chosen
      /\ answer \in {Chosen, Nothing}
  <2>1. load[k].at = "project" => Asked(k) = page.selected
    BY <1>0 DEF Asked, OfProject, LoadsOfChoice
  <2>2. load[k].at # "project" => Asked(k) = job.dir
    BY DEF Asked
  <2> QED
    BY <1>4, <2>1, <2>2 DEF Chosen, OfChoice, Undisturbed
<1> HIDE DEF answer
<1>6. Chosen' = Chosen
  BY <1>1 DEF Chosen
<1>7. \A j \in Load : /\ load'[j].n = load[j].n /\ load'[j].project = load[j].project
                      /\ load'[j].own = load[j].own
                      /\ OfPhase(j)' <=> OfPhase(j)
                      /\ OfProject(j)' <=> OfProject(j)
  BY <1>1, <1>3 DEF OfPhase, OfProject
<1>8. ASSUME NEW j \in Load
      PROVE  /\ load'[j].at = "projectAnswered" => load'[j].answer = Chosen
             /\ load'[j].at = "phaseAnswered" => load'[j].answer \in {Chosen, Nothing}
  <2>1. CASE j = k
    BY <1>1, <1>3, <1>5, <2>1
  <2>2. CASE j # k
    BY <1>0, <1>3, <2>2 DEF LoadsOfChoice
  <2> QED
    BY <2>1, <2>2
<1>9. LoadsOfChoice'
  BY <1>0, <1>1, <1>6, <1>7, <1>8 DEF LoadsOfChoice
<1>10. ChoiceGoesOn'
  <2>1. ChoiceGoesOn /\ \A j \in Load : Goes(j)' <=> Goes(j)
    BY <1>7 DEF OfChoice, Goes
  <2> QED
    BY <1>1, <1>6, <1>7, <2>1 DEF ChoiceGoesOn, Cleared, Drawn
<1> QED
  BY <1>9, <1>10

(* A poll finds a phase done: its slide is drawn by a load of its own.     *)
LEMMA ChoicePhaseSeen ==
  ASSUME OfChoice, NEW k \in Load, PhaseSeen(k)
  PROVE  LoadsOfChoice' /\ ChoiceGoesOn'
<1>0. /\ Shapes /\ load \in [Load -> Loads] /\ page \in Pages /\ LoadsOfChoice
  BY ShapesParts DEF OfChoice
<1>1. /\ UNCHANGED <<disk, job>> /\ load[k].at = "free" /\ page.seen + 1 < job.phase
      /\ page' = [page EXCEPT !.seen = @ + 1]
      /\ load' = [load EXCEPT ![k] = PhaseLoad(page.seen + 1)]
  BY DEF PhaseSeen
<1>2. page.seen + 1 \in Phase
  BY <1>0, <1>1, ShapesParts, Bounds DEF Phase, Over, Jobs, Pages
<1>3. /\ page'.artifacts = page.artifacts /\ page'.slide = page.slide
      /\ page'.results = page.results /\ page'.selected = page.selected
  BY <1>0, <1>1 DEF Pages
<1>4. /\ load'[k].at = "phase" /\ load'[k].project = None /\ load'[k].n = page.seen + 1
      /\ \A j \in Load : j # k => load'[j] = load[j]
  BY <1>0, <1>1, <1>2, LoadsTyped, OverwriteTyped
<1>5. Chosen' = Chosen
  BY <1>1, <1>3 DEF Chosen
<1>6. LoadsOfChoice'
  <2>1. ASSUME NEW j \in Load
        PROVE  /\ load'[j].project \in {None, page.selected}
               /\ OfPhase(j)' /\ load'[j].project = None => load'[j].n < job.phase
               /\ load'[j].at = "projectAnswered" => load'[j].answer = Chosen
               /\ load'[j].at = "phaseAnswered" => load'[j].answer \in {Chosen, Nothing}
    BY <1>0, <1>1, <1>4 DEF LoadsOfChoice, OfPhase
  <2>2. \A i, j \in Load : load'[i].project # None /\ load'[j].project # None => i = j
    BY <1>0, <1>4 DEF LoadsOfChoice
  <2> QED
    BY <1>1, <1>3, <1>5, <2>1, <2>2 DEF LoadsOfChoice
<1>7. ChoiceGoesOn'
  <2>1. Chosen # Nothing
    BY <1>1, <1>2, FinishedIsChosen
  <2>2. CASE \E j \in Load : OfProject(j)
    <3>1. PICK j \in Load : OfProject(j)
      BY <2>2
    <3>2. OfProject(j)'
      BY <1>1, <1>4, <3>1 DEF OfProject
    <3> QED
      BY <3>2 DEF ChoiceGoesOn
  <2>3. CASE Drawn
    <3>1. \A j \in Load : Goes(j)' <=> Goes(j)
      BY <1>1, <1>4 DEF Goes, OfPhase
    <3>2. \A j \in Load : Goes(j) => load'[j] = load[j]
      BY <1>1, <1>4 DEF Goes, OfPhase
    <3>3. Drawn'
      BY <1>3, <1>5, <2>3, <3>1, <3>2 DEF Drawn
    <3> QED
      BY <1>5, <2>1, <3>3 DEF ChoiceGoesOn
  <2> QED
    BY <2>1, <2>2, <2>3 DEF OfChoice, ChoiceGoesOn
<1> QED
  BY <1>6, <1>7

(* A poll finds the analysis done: its results are in the directory of the *)
(* choice.                                                                 *)
LEMMA ChoiceResultsSeen ==
  ASSUME OfChoice, ResultsSeen
  PROVE  LoadsOfChoice' /\ ChoiceGoesOn'
<1>0. page \in Pages /\ LoadsOfChoice
  BY ShapesParts DEF OfChoice
<1>1. /\ UNCHANGED <<disk, job, load>> /\ job.phase = Over
      /\ page' = [page EXCEPT !.results = disk[job.dir][Last]]
  BY DEF ResultsSeen
<1>2. job.dir = page.selected /\ Chosen[Last] # None /\ Chosen # Nothing
  BY <1>1, FinishedIsChosen, Bounds DEF Over
<1>3. /\ page'.artifacts = page.artifacts /\ page'.slide = page.slide
      /\ page'.results = Chosen[Last] /\ page'.selected = page.selected
  BY <1>0, <1>1, <1>2 DEF Pages, Chosen
<1>4. Chosen' = Chosen /\ LoadsOfChoice'
  BY <1>0, <1>1, <1>3 DEF Chosen, LoadsOfChoice, OfPhase
<1>5. ChoiceGoesOn'
  BY <1>1, <1>2, <1>3, <1>4 DEF OfChoice, ChoiceGoesOn, Drawn, OfProject, Goes, OfPhase
<1> QED
  BY <1>4, <1>5

(* The first answer: nothing is drawn, or S.artifacts is what was answered.*)
LEMMA ChoiceLoaded ==
  ASSUME OfChoice, NEW k \in Load, ProjectLoaded(k)
  PROVE  LoadsOfChoice' /\ ChoiceGoesOn'
<1>0. /\ Shapes /\ TypeOK /\ load \in [Load -> Loads] /\ page \in Pages
      /\ disk \in [Dir -> Artifacts] /\ LoadsOfChoice /\ load[k] \in Loads
  BY ShapesParts DEF OfChoice, Shapes
<1>1. /\ UNCHANGED <<disk, job>> /\ load[k].at = "projectAnswered"
      /\ load[k].answer = Chosen /\ load[k].project = page.selected
      /\ Chosen \in Artifacts
  <2>1. load[k].at = "projectAnswered" /\ UNCHANGED <<disk, job>>
    BY DEF ProjectLoaded
  <2>2. load[k].answer = Chosen /\ load[k].project = page.selected
    BY <1>0, <2>1 DEF LoadsOfChoice, Shapes, OfProject
  <2> QED
    BY <1>0, <2>1, <2>2, Bounds DEF Chosen, Pages
<1>2. \A j \in Load : j # k => load[j].project = None
  BY <1>0, <1>1, Bounds DEF LoadsOfChoice, Pages
<1>3. CASE /\ Chosen = Nothing
           /\ page' = [page EXCEPT !.slide = Nothing, !.results = None]
           /\ load' = [load EXCEPT ![k] = NoLoad]
  <2>1. page'.slide = Nothing /\ page'.results = None /\ page'.selected = page.selected
    BY <1>0, <1>3 DEF Pages
  <2>2. load'[k] = NoLoad /\ \A j \in Load : j # k => load'[j] = load[j]
    BY <1>0, <1>3, LoadsTyped, OverwriteTyped
  <2>3. Chosen' = Chosen
    BY <1>1, <2>1 DEF Chosen
  <2>4. LoadsOfChoice'
    BY <1>0, <1>1, <2>1, <2>2, <2>3, LoadsTyped DEF LoadsOfChoice, OfPhase
  <2>5. ASSUME NEW j \in Load, OfPhase(j)' PROVE FALSE
    <3>1. j # k /\ OfPhase(j) /\ load[j].project = None
      BY <1>2, <2>2, <2>5, LoadsTyped DEF OfPhase
    <3>2. load[j].n \in Phase /\ load[j].n < job.phase
      BY <1>0, <3>1, ShapesParts DEF LoadsOfChoice, Supplied
    <3> QED
      BY <1>3, <3>2, FinishedIsChosen
  <2> QED
    BY <1>3, <2>1, <2>3, <2>4, <2>5 DEF ChoiceGoesOn, Cleared
<1>4. CASE /\ Chosen # Nothing
           /\ page' = [page EXCEPT !.artifacts = Chosen]
           /\ Continue(Replaced, k, Chosen, 1, FALSE)
  <2>1. page'.artifacts = Chosen /\ page'.selected = page.selected
    BY <1>0, <1>4 DEF Pages
  <2>2. Chosen' = Chosen
    BY <1>1, <2>1 DEF Chosen
  <2>3. Left(Chosen, 1) # {}
    <3>1. PICK n \in Phase : Chosen[n] # None
      BY <1>1, <1>4, NothingTyped DEF Artifacts
    <3> QED
      BY <3>1 DEF Left, Phase
  <2>4. /\ \A j \in Load : j # k => load'[j] = Replaced[j]
        /\ load'[k].at = "phase" /\ load'[k].project = page.selected
        /\ load'[k].n = First(Left(Chosen, 1)) /\ load'[k].n \in Phase /\ ~load'[k].own
    <3>1. Replaced \in [Load -> Loads] /\ FALSE \in BOOLEAN /\ 1 \in Nat
      BY <1>0, ReplacedTyped
    <3>2. GoesOn(Replaced, k, Chosen, 1, FALSE)
      BY <1>0, <1>1, <1>4, <3>1, ContinueEffect
    <3>3. load[k].project # None
      BY <1>0, <1>1, Bounds DEF Pages
    <3> QED
      BY <1>1, <2>3, <3>2, <3>3 DEF GoesOn
  <2>5. \A j \in Load : j # k => /\ load'[j].at = load[j].at /\ load'[j].n = load[j].n
                                 /\ load'[j].project = None
                                 /\ load'[j].answer = load[j].answer
    BY <1>0, <1>2, <2>4, ReplacedTyped
  <2>6. LoadsOfChoice'
    <3>1. ASSUME NEW j \in Load
          PROVE  /\ load'[j].project \in {None, page.selected}
                 /\ OfPhase(j)' /\ load'[j].project = None => load'[j].n < job.phase
                 /\ load'[j].at = "projectAnswered" => load'[j].answer = Chosen
                 /\ load'[j].at = "phaseAnswered" => load'[j].answer \in {Chosen, Nothing}
      <4>1. CASE j = k
        BY <1>0, <2>4, <4>1, Bounds DEF Pages
      <4>2. CASE j # k
        BY <1>0, <1>2, <2>5, <4>2 DEF LoadsOfChoice, OfPhase
      <4> QED
        BY <4>1, <4>2
    <3>2. \A i, j \in Load : load'[i].project # None /\ load'[j].project # None => i = j
      BY <2>5
    <3> QED
      BY <1>1, <2>1, <2>2, <3>1, <3>2 DEF LoadsOfChoice
  <2>7. Drawn'
    <3>1. Goes(k)' /\ \A j \in Load : Goes(j)' => j = k
      BY <1>0, <2>4, <2>5, Bounds DEF Goes, OfPhase, Pages
    <3>2. ASSUME NEW n \in Phase, Chosen[n] # None PROVE load'[k].n <= n
      <4>1. \A l \in Phase : 1 <= l /\ l < load'[k].n => Chosen[l] = None
        BY <2>3, <2>4, NextPhase
      <4>2. ~(n < load'[k].n)
        BY <3>2, <4>1 DEF Phase
      <4> QED
        BY <2>4, <4>2 DEF Phase
    <3> QED
      BY <2>1, <2>2, <2>4, <3>1, <3>2 DEF Drawn
  <2> QED
    BY <1>4, <2>2, <2>6, <2>7 DEF ChoiceGoesOn
<1> QED
  BY <1>1, <1>3, <1>4 DEF ProjectLoaded

(* A slide: what is merged into S.artifacts changes nothing of it.         *)
LEMMA ChoiceDrawn ==
  ASSUME OfChoice, NEW k \in Load, PhaseLoaded(k)
  PROVE  LoadsOfChoice' /\ ChoiceGoesOn'
<1> DEFINE artifacts == Merge(page.artifacts, load[k].answer)
           n         == load[k].n
           arts      == GoesOnWith(k, artifacts)
<1>0. /\ Shapes /\ load \in [Load -> Loads] /\ page \in Pages /\ disk \in [Dir -> Artifacts]
      /\ LoadsOfChoice
  BY ShapesParts DEF OfChoice
<1>1. /\ load[k].at = "phaseAnswered" /\ OfPhase(k) /\ Draw(k, artifacts)
      /\ UNCHANGED <<disk, job>>
  BY DEF PhaseLoaded, OfPhase
<1>2. artifacts \in Artifacts
  BY <1>0, MergeTyped DEF Loads, Pages
<1>e. /\ arts = GoesOnWith(k, artifacts) /\ n = load[k].n
      /\ artifacts = Merge(page.artifacts, load[k].answer)
  OBVIOUS
<1> HIDE DEF artifacts, n, arts
<1>3. /\ n \in Phase /\ page'.artifacts = artifacts /\ page'.selected = page.selected
      /\ page'.slide[n] = IF artifacts[n] # None THEN artifacts[n] ELSE page.slide[n]
      /\ \A m \in Phase : m # n => page'.slide[m] = page.slide[m]
      /\ page'.results =
           IF load[k].project # None /\ Left(arts, n + 1) = {} /\ arts[Last] # None
           THEN arts[Last] ELSE page.results
      /\ \A j \in Load : j # k => load'[j] = load[j]
      /\ \/ /\ load'[k] = NoLoad
            /\ Left(arts, n + 1) = {} \/ load[k].project = None
         \/ /\ load'[k].at = "phase" /\ load'[k].project = load[k].project
            /\ load[k].project # None /\ Left(arts, n + 1) # {}
            /\ load'[k].n = First(Left(arts, n + 1)) /\ load'[k].n \in Phase
            /\ load'[k].own = load[k].own /\ (load[k].own => load'[k].arts = arts)
  <2>1. Drawing(k, artifacts, n, arts)
    BY <1>0, <1>1, <1>2, DrawEffect DEF n, arts
  <2> QED
    BY <2>1 DEF Drawing
<1>4. Chosen' = Chosen
  BY <1>1, <1>3 DEF Chosen
<1>5. \A j \in Load : load'[j].project # None => load[j].project = load'[j].project
  BY <1>3, LoadsTyped
<1>6. LoadsOfChoice'
  <2>1. ASSUME NEW j \in Load
        PROVE  /\ load'[j].project \in {None, page.selected}
               /\ OfPhase(j)' /\ load'[j].project = None => load'[j].n < job.phase
               /\ load'[j].at = "projectAnswered" => load'[j].answer = Chosen
               /\ load'[j].at = "phaseAnswered" => load'[j].answer \in {Chosen, Nothing}
    <3>1. CASE j = k
      BY <1>0, <1>3, <3>1, LoadsTyped DEF LoadsOfChoice, OfPhase
    <3>2. CASE j # k
      BY <1>0, <1>3, <3>2 DEF LoadsOfChoice, OfPhase
    <3> QED
      BY <3>1, <3>2
  <2>2. \A i, j \in Load : load'[i].project # None /\ load'[j].project # None => i = j
    BY <1>0, <1>5 DEF LoadsOfChoice
  <2> QED
    BY <1>1, <1>3, <1>4, <2>1, <2>2 DEF LoadsOfChoice
<1>7. CASE \E j \in Load : OfProject(j)
  <2>1. PICK j \in Load : OfProject(j)
    BY <1>7
  <2>2. OfProject(j)'
    BY <1>1, <1>3, <2>1 DEF OfProject
  <2> QED
    BY <1>6, <2>2 DEF ChoiceGoesOn
<1>8. CASE Cleared
  BY <1>1, <1>8 DEF Cleared
<1>9. CASE Chosen # Nothing /\ Drawn
  <2>1. Chosen \in Artifacts
    BY <1>0, Bounds DEF Chosen, Pages
  <2>2. artifacts = Chosen
    <3>1. load[k].answer \in {Chosen, Nothing} /\ page.artifacts = Chosen
      BY <1>0, <1>1, <1>9 DEF LoadsOfChoice, Drawn
    <3>2. \A m \in Phase : artifacts[m] = Chosen[m]
      BY <1>e, <2>1, <3>1, MergeTyped, NothingTyped
    <3> QED
      BY <1>2, <2>1, <3>2 DEF Artifacts
  <2>3. load[k].project # None => arts = Chosen /\ ~load[k].own
    BY <1>1, <1>9, <1>e, <2>2 DEF Drawn, Goes, GoesOnWith
  <2>4. Goes(k)' => /\ load[k].project # None /\ ~load'[k].own
                    /\ Left(Chosen, n + 1) # {} /\ load'[k].n = First(Left(Chosen, n + 1))
    BY <1>3, <2>3, LoadsTyped DEF Goes, OfPhase
  <2>5. load[k].project # None /\ Left(Chosen, n + 1) # {} => Goes(k)'
    BY <1>3, <2>3 DEF Goes, OfPhase
  <2>6. \A j \in Load : j # k => (Goes(j)' <=> Goes(j))
    BY <1>3 DEF Goes, OfPhase
  <2>7. \A j \in Load : Goes(j)' => ~load'[j].own
    BY <1>3, <1>9, <2>4, <2>6 DEF Drawn
  <2>8. ASSUME NEW m \in Phase, Chosen[m] # None
        PROVE  page'.slide[m] = Chosen[m] \/ \E j \in Load : Goes(j)' /\ load'[j].n <= m
    <3>1. CASE m = n
      BY <1>3, <2>2, <2>8, <3>1
    <3>2. CASE m # n /\ page.slide[m] = Chosen[m]
      BY <1>3, <3>2
    <3>3. ASSUME m # n, NEW j \in Load, Goes(j), load[j].n <= m
          PROVE  \E i \in Load : Goes(i)' /\ load'[i].n <= m
      <4>1. CASE j # k
        BY <1>3, <2>6, <3>3, <4>1
      <4>2. CASE j = k
        <5>1. n + 1 <= m /\ n + 1 \in Nat /\ m >= n + 1
          BY <1>3, <1>e, <3>3, <4>2 DEF Phase
        <5>2. Left(Chosen, n + 1) # {}
          BY <2>8, <5>1 DEF Left
        <5>3. Goes(k)'
          BY <2>5, <3>3, <4>2, <5>2 DEF Goes
        <5>4. \A l \in Phase : n + 1 <= l /\ l < load'[k].n => Chosen[l] = None
          BY <2>4, <5>1, <5>2, <5>3, NextPhase
        <5>5. ~(m < load'[k].n)
          BY <2>8, <5>1, <5>4
        <5>6. load'[k].n \in Phase
          BY <1>3, <5>3, LoadsTyped DEF Goes, OfPhase
        <5> QED
          BY <5>3, <5>5, <5>6 DEF Phase
      <4> QED
        BY <4>1, <4>2
    <3> QED
      BY <1>9, <2>8, <3>1, <3>2, <3>3 DEF Drawn
  <2>9. ASSUME Chosen[Last] # None
        PROVE  page'.results = Chosen[Last] \/ \E j \in Load : Goes(j)'
    <3>1. CASE page.results = Chosen[Last]
      BY <1>3, <2>3, <3>1
    <3>2. ASSUME NEW j \in Load, Goes(j)
          PROVE  page'.results = Chosen[Last] \/ \E i \in Load : Goes(i)'
      <4>1. CASE j # k
        BY <2>6, <3>2, <4>1
      <4>2. CASE j = k
        BY <1>3, <2>3, <2>5, <2>9, <3>2, <4>2 DEF Goes
      <4> QED
        BY <4>1, <4>2
    <3> QED
      BY <1>9, <2>9, <3>1, <3>2 DEF Drawn
  <2>10. Drawn'
    BY <1>3, <1>4, <2>2, <2>7, <2>8, <2>9 DEF Drawn
  <2> QED
    BY <1>4, <1>6, <1>9, <2>10 DEF ChoiceGoesOn
<1> QED
  BY <1>7, <1>8, <1>9 DEF OfChoice, ChoiceGoesOn

(* Every step keeps OnlyChoice; Select makes it so.                        *)
LEMMA NextChoice == Shapes /\ Written /\ OnlyChoice /\ [Next]_vars => OnlyChoice'
<1> SUFFICES ASSUME Shapes, Written, OnlyChoice, [Next]_vars, shows' = "project"
             PROVE  /\ ~job'.running
                    /\ Undisturbed' => LoadsOfChoice' /\ ChoiceGoesOn'
  BY DEF OnlyChoice
<1>0. page \in Pages
  BY ShapesParts
<1>1. ASSUME NEW p \in Project, NEW k \in Load, Select(p, k)
      PROVE  ~job'.running /\ LoadsOfChoice' /\ ChoiceGoesOn'
  <2>1. Quiet /\ ~job.running /\ job' = job
    BY <1>1, SlidesAssumption DEF Select
  <2> QED
    BY <1>1, <2>1, ChoiceStarts
<1>2. CASE UNCHANGED vars
  <2>1. UNCHANGED <<disk, job, page, load, shows>>
    BY <1>2 DEF vars
  <2> QED
    BY <2>1 DEF OnlyChoice, LoadsOfChoice, ChoiceGoesOn, Chosen, Cleared, Drawn, Goes,
                OfPhase, OfProject, Undisturbed
<1>3. ASSUME \/ ResultsSeen
             \/ \E k \in Load : \/ api_artifacts(k) \/ PhaseSeen(k)
                                \/ ProjectLoaded(k) \/ PhaseLoaded(k)
      PROVE  /\ ~job'.running
             /\ Undisturbed' => LoadsOfChoice' /\ ChoiceGoesOn'
  <2>1. shows = "project" /\ job' = job /\ disk' = disk
    BY <1>3 DEF ResultsSeen, api_artifacts, PhaseSeen, ProjectLoaded, PhaseLoaded
  <2>2. page'.selected = page.selected
    BY <1>0, <1>3
    DEF ResultsSeen, api_artifacts, PhaseSeen, ProjectLoaded, PhaseLoaded, Draw, Pages
  <2>3. ~job.running /\ (Undisturbed => OfChoice)
    BY <2>1 DEF OnlyChoice, OfChoice
  <2>5. Undisturbed' => Undisturbed
    BY <2>1, <2>2 DEF Undisturbed
  <2>4. OfChoice => LoadsOfChoice' /\ ChoiceGoesOn'
    BY <1>3, ChoiceAnswered, ChoicePhaseSeen, ChoiceResultsSeen, ChoiceLoaded, ChoiceDrawn
  <2> QED
    BY <2>1, <2>3, <2>4, <2>5
<1>4. ASSUME WriteArtifact \/ PhaseDone \/ AnalysisFails PROVE FALSE
  BY <1>4 DEF WriteArtifact, PhaseDone, AnalysisFails, OnlyChoice
<1>5. ASSUME Analyze \/ \E k \in Load : Lose(k) PROVE FALSE
  BY <1>5, SlidesAssumption DEF Analyze, Lose
<1> QED
  BY <1>1, <1>2, <1>3, <1>4, <1>5 DEF Next, LoadStep

(* Nothing has been chosen when the page opens.                            *)
LEMMA InitChoice == Init => Written /\ OnlyChoice
BY SlidesAssumption DEF Init, Written, OnlyChoice

(* When all loads have ended, the choice has been drawn.                   *)
LEMMA ChoiceEnds == Shapes /\ OnlyChoice => ChoiceIsShown
<1> SUFFICES ASSUME Shapes, OnlyChoice, shows = "project", Quiet, Undisturbed
             PROVE  /\ \A n \in Phase : Chosen[n] # None => page.slide[n] = Chosen[n]
                    /\ Chosen[Last] # None => page.results = Chosen[Last]
                    /\ Chosen = Nothing => page.slide = Nothing /\ page.results = None
  BY DEF ChoiceIsShown, Chosen, Undisturbed
<1>1. \A k \in Load : ~OfProject(k) /\ ~Goes(k)
  BY DEF Quiet, OfProject, Goes, OfPhase
<1>2. \/ Chosen = Nothing /\ Cleared
      \/ Chosen # Nothing /\ Drawn
  BY <1>1 DEF OnlyChoice, ChoiceGoesOn
<1>3. CASE Chosen = Nothing /\ Cleared
  BY <1>3, NothingTyped, Bounds DEF Cleared
<1>4. CASE Chosen # Nothing /\ Drawn
  BY <1>1, <1>4 DEF Drawn
<1> QED
  BY <1>2, <1>3, <1>4

(* index.html: the slides of a choice made while nothing was under way are *)
(* that project's, all of them, with no slide left of another project.     *)
THEOREM ChoicesAreShown == Spec => []ChoiceIsShown
<1>1. Init => Shapes /\ Written /\ OnlyChoice
  BY InitShapes, InitChoice
<1>2. Shapes /\ Written /\ OnlyChoice /\ [Next]_vars => Shapes' /\ Written' /\ OnlyChoice'
  BY NextShapes, NextWritten, NextChoice
<1> QED
  BY <1>1, <1>2, ChoiceEnds, PTL DEF Spec
=============================================================================
