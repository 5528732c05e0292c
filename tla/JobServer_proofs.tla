-------------------------- MODULE JobServer_proofs --------------------------
(***************************************************************************)
(* Proofs about JobServer for any number of projects, directories, request *)
(* threads and analyses, and any cap on the log.                           *)
(***************************************************************************)
EXTENDS JobServer, SequenceTheorems, FiniteSetTheorems, TLAPS

(* Cutting the log keeps it a sequence of lines and within its cap.        *)
LEMMA LoggedIsCapped ==
  ASSUME NEW log \in Seq(Worker), NEW line \in Worker
  PROVE  Logged(log, line) \in Seq(Worker) /\ Len(Logged(log, line)) <= LogCap
<1> DEFINE all == Append(log, line)
           first == IF Len(all) > LogCap THEN Len(all) - LogCap + 1 ELSE 1
<1>1. all \in Seq(Worker) /\ Len(all) \in Nat /\ Len(all) >= 1
  BY LenProperties DEF all
<1>2. first \in 1..Len(all)+1 /\ Len(all) - first + 1 <= LogCap
  BY <1>1, LogCapAssumption DEF first
<1>3. /\ SubSeq(all, first, Len(all)) \in Seq(Worker)
      /\ Len(SubSeq(all, first, Len(all))) = Len(all) - first + 1
  BY <1>1, <1>2, SubSeqProperties
<1> QED
  BY <1>2, <1>3 DEF Logged

-----------------------------------------------------------------------------
(* Who stands where, in terms of one thread's record.                      *)
LEMMA PhasesAreTyped ==
  /\ IdlePhases \in [Phase -> {"idle", "running", "done"}]
  /\ \A n \in 0..5 : AtPhase(n) \in [Phase -> {"idle", "running", "done"}]
BY DEF IdlePhases, AtPhase, Phase

(* What a phase stores is a set of projects.                               *)
LEMMA WritingIsTyped ==
  ASSUME TypeOK, NEW w \in Worker, worker[w].project \in Project, worker[w].phase \in Phase,
         NEW made \in SUBSET Project, Write(w, made)
  PROVE  disk' \in [Dir -> [Phase -> SUBSET Project]]
<1>1. Directory(w) \in Dir
  BY DirOfAssumption DEF Directory
<1> QED
  BY <1>1 DEF TypeOK, Write

LEMMA JoinedIsTyped ==
  ASSUME TypeOK, NEW w \in Worker, worker[w].project \in Project
  PROVE  Joined(w) \in SUBSET Project
<1>1. Directory(w) \in Dir
  BY DirOfAssumption DEF Directory
<1>2. \A k \in 1..3 : disk[Directory(w)][k] \subseteq Project
  BY <1>1 DEF TypeOK, Phase
<1> QED
  BY <1>2 DEF Joined

(* What a thread past its start is known to be: it has a project and is in *)
(* a phase, and the phases it stands at "mark" with have been run.         *)
Busy == Stages \ {"unborn", "begin", "ended"}

WorkersKnow ==
  /\ \A r \in Request : request[r].at = "analyze" => request[r].project \in Project
  /\ \A w \in Worker :
       /\ worker[w].at # "unborn" => worker[w].project \in Project
       /\ worker[w].at \in Busy => worker[w].phase \in Phase
       /\ worker[w].at = "finish" => worker[w].phase = 4

(* The artifacts that an analysis has written, each in its turn.           *)
WrittenAt(at, n) ==
  CASE at \in {"enter", "run"} -> {k \in Phase : k < n}
    [] at = "mark" -> {k \in Phase : k <= n}
    [] at \in {"finish", "publish"} -> Phase
    [] OTHER -> {}

Written(w) == WrittenAt(worker[w].at, worker[w].phase)

(* The commands are of some project, and so is the report made with them.  *)
OfSomeProject ==
  \A w \in Worker : \A k \in Written(w) \cap {1, 4} : disk[Directory(w)][k] # {}

(* What a thread has read back to publish is not empty.                    *)
HasResults == \A w \in Worker : worker[w].at = "publish" => readBack[w] # {}

IInv == TypeOK /\ WorkersKnow /\ OfSomeProject /\ HasResults /\ DoneHasResults

-----------------------------------------------------------------------------
(* The empty log, and the job before any analysis.                         *)
LEMMA EmptyLog == <<>> \in Seq(Worker) /\ Len(<<>>) <= LogCap
BY LogCapAssumption

(* What moving a thread on does to the threads.                            *)
LEMMA GotoMoves ==
  ASSUME NEW w \in Worker, NEW at \in Stages, NEW n \in 0..4, Goto(w, at, n),
         worker \in [Worker -> [at : Stages, phase : 0..4, project : Project \cup {None}]]
  PROVE  /\ worker' \in [Worker -> [at : Stages, phase : 0..4,
                                    project : Project \cup {None}]]
         /\ worker'[w].at = at /\ worker'[w].phase = n
         /\ worker'[w].project = worker[w].project
         /\ \A v \in Worker \ {w} : worker'[v] = worker[v]
  BY DEF Goto

(* Types and knowledge survive when a thread moves on within its analysis. *)
LEMMA MovesOn ==
  ASSUME NEW w \in Worker, NEW at \in Stages \ {"unborn", "begin"}, NEW n \in Phase,
         Goto(w, at, n), UNCHANGED <<request, overlap>>, failed' \in BOOLEAN, TypeOK, WorkersKnow,
         worker[w].at # "unborn", at = "finish" => n = 4,
         job' \in Job, Len(job'.log) <= LogCap,
         readBack' \in [Worker -> SUBSET Project],
         disk' \in [Dir -> [Phase -> SUBSET Project]],
         ir' \in [Dir -> [{2, 3} -> SUBSET Project]]
  PROVE  TypeOK' /\ WorkersKnow'
<1>1. n \in 0..4
  BY DEF Phase
<1>2. /\ worker' \in [Worker -> [at : Stages, phase : 0..4, project : Project \cup {None}]]
      /\ worker'[w].at = at /\ worker'[w].phase = n
      /\ worker'[w].project = worker[w].project
      /\ \A v \in Worker \ {w} : worker'[v] = worker[v]
  BY <1>1, GotoMoves DEF TypeOK
<1>3. TypeOK'
  BY <1>2 DEF TypeOK
<1>4. WorkersKnow'
  BY <1>2 DEF WorkersKnow
<1> QED
  BY <1>3, <1>4

(* The job of either kind of start is typed, and nobody is at work yet.    *)
LEMMA InitTyped == Init => TypeOK /\ WorkersKnow
<1> SUFFICES ASSUME Init PROVE TypeOK /\ WorkersKnow
  OBVIOUS
<1>1. job \in Job /\ Len(job.log) <= LogCap
  <2>1. NoJob \in Job /\ Len(NoJob.log) <= LogCap
    BY EmptyLog, PhasesAreTyped DEF NoJob, Job
  <2>2. ASSUME NEW p \in Project, NEW found \in SUBSET Project
        PROVE  Seeded(p, found) \in Job /\ Len(Seeded(p, found).log) <= LogCap
    <3>1. AtPhase(5) \in [Phase -> {"idle", "running", "done"}]
      BY PhasesAreTyped
    <3> QED
      BY <3>1, EmptyLog, SeedDirAssumption DEF Seeded, Job
  <2>3. job = NoJob \/ \E p \in Project, found \in SUBSET Project : job = Seeded(p, found)
    BY DEF Init
  <2> QED
    BY <2>1, <2>2, <2>3
<1>2. /\ disk \in [Dir -> [Phase -> SUBSET Project]]
      /\ ir \in [Dir -> [{2, 3} -> SUBSET Project]] /\ failed \in BOOLEAN
  BY DEF Init
<1>3. worker \in [Worker -> [at : Stages, phase : 0..4, project : Project \cup {None}]]
  BY DEF Init, Stages
<1>4. request \in [Request -> [at : {"free", "analyze", "reset"}, project : Project \cup {None}]]
  BY DEF Init
<1>5. TypeOK
  BY <1>1, <1>2, <1>3, <1>4 DEF Init, TypeOK
<1>6. WorkersKnow
  BY DEF Init, WorkersKnow, Busy
<1> QED
  BY <1>5, <1>6

(* What a phase, finished or not, does to the directory: what phases 1 and *)
(* 4 write is Joined.                                                      *)
Writes(w) ==
  \/ UNCHANGED disk
  \/ \E made \in SUBSET Project :
       Write(w, made) /\ (worker[w].phase \in {1, 4} => made = Joined(w))

LEMMA StepsWrite ==
  ASSUME TypeOK, NEW w \in Worker, worker[w].project \in Project,
         RunPhase(w) \/ RunCompilers(w) \/ Fail(w)
  PROVE  Writes(w) /\ ir' \in [Dir -> [{2, 3} -> SUBSET Project]]
<1>1. Directory(w) \in Dir /\ ir \in [Dir -> [{2, 3} -> SUBSET Project]]
  BY DirOfAssumption DEF Directory, TypeOK
<1>2. ASSUME NEW fresh \in SUBSET Project, NEW kept, Compile(w, fresh, kept)
      PROVE  ir' \in [Dir -> [{2, 3} -> SUBSET Project]] /\ worker[w].phase \notin {1, 4}
  <2> DEFINE n == worker[w].phase
             d == Directory(w)
  <2>1. n \in {2, 3} /\ ir' = [ir EXCEPT ![d][n] = ir[d][n] \cup fresh]
    BY <1>2 DEF Compile
  <2>2. ir[d][n] \cup fresh \in SUBSET Project
    BY <1>1, <2>1
  <2> HIDE DEF n, d
  <2>3. d \in Dir
    BY <1>1 DEF d
  <2>4. ir' \in [Dir -> [{2, 3} -> SUBSET Project]]
    BY <1>1, <2>1, <2>2, <2>3
  <2> QED
    BY <2>1, <2>4 DEF n
<1>3. CASE RunPhase(w)
  BY <1>1, <1>3, JoinedIsTyped DEF RunPhase, Writes
<1>4. CASE RunCompilers(w)
  <2>1. PICK fresh \in SUBSET Project, kept \in SUBSET Project :
          Compile(w, fresh, kept) /\ Write(w, fresh \cup kept)
    BY <1>4 DEF RunCompilers
  <2> QED
    BY <1>2, <2>1 DEF Writes
<1>5. CASE Fail(w)
  <2>1. CASE UNCHANGED <<disk, ir>>
    BY <1>1, <2>1 DEF Writes
  <2>2. CASE Write(w, Joined(w)) /\ UNCHANGED ir
    BY <1>1, <2>2, JoinedIsTyped DEF Writes
  <2>3. ASSUME NEW fresh \in SUBSET Project, NEW kept \in SUBSET Project,
               Compile(w, fresh, kept), Write(w, fresh \cup kept) \/ UNCHANGED disk
        PROVE  Writes(w) /\ ir' \in [Dir -> [{2, 3} -> SUBSET Project]]
    BY <1>2, <2>3 DEF Writes
  <2> QED
    BY <1>5, <2>1, <2>2, <2>3 DEF Fail
<1> QED
  BY <1>3, <1>4, <1>5

(* The types, and what the threads know of themselves, hold after a step.  *)
LEMMA NextTyped == TypeOK /\ WorkersKnow /\ [Next]_vars => TypeOK' /\ WorkersKnow'
<1> SUFFICES ASSUME TypeOK, WorkersKnow, [Next]_vars
             PROVE  TypeOK' /\ WorkersKnow'
  OBVIOUS
<1>0. /\ job \in Job /\ Len(job.log) <= LogCap
      /\ readBack \in [Worker -> SUBSET Project]
      /\ disk \in [Dir -> [Phase -> SUBSET Project]]
      /\ ir \in [Dir -> [{2, 3} -> SUBSET Project]] /\ failed \in BOOLEAN
  BY DEF TypeOK
<1>1. ASSUME NEW r \in Request, NEW p \in Project, AnalyzeCheck(r, p)
      PROVE  TypeOK' /\ WorkersKnow'
  BY <1>1 DEF AnalyzeCheck, TypeOK, WorkersKnow
<1>2. ASSUME NEW r \in Request, NEW w \in Worker, AnalyzeStart(r, w)
      PROVE  TypeOK' /\ WorkersKnow'
  BY <1>2 DEF AnalyzeStart, TypeOK, WorkersKnow, Stages, Busy
<1>3. ASSUME NEW r \in Request, ResetCheck(r)
      PROVE  TypeOK' /\ WorkersKnow'
  BY <1>3 DEF ResetCheck, TypeOK, WorkersKnow
<1>4. ASSUME NEW r \in Request, ResetApply(r)
      PROVE  TypeOK' /\ WorkersKnow'
  <2>1. job' \in Job /\ Len(job'.log) <= LogCap
    <3>1. NoJob \in Job /\ Len(NoJob.log) <= LogCap
      BY EmptyLog, PhasesAreTyped DEF NoJob, Job
    <3>2. job' = [NoJob EXCEPT !.outputDir = job.outputDir] /\ job.outputDir \in Dir \cup {SeedDir, None}
      BY <1>4, <1>0 DEF ResetApply, Job
    <3> QED
      BY <3>1, <3>2 DEF Job
  <2>2. request' \in [Request -> [at : {"free", "analyze", "reset"}, project : Project \cup {None}]]
    BY <1>4 DEF ResetApply, TypeOK
  <2>3. TypeOK'
    BY <1>4, <2>1, <2>2 DEF ResetApply, TypeOK
  <2>4. WorkersKnow'
    BY <1>4 DEF ResetApply, WorkersKnow, TypeOK
  <2> QED
    BY <2>3, <2>4
<1>5. ASSUME NEW w \in Worker, Begin(w)
      PROVE  TypeOK' /\ WorkersKnow'
  <2>1. worker[w].project \in Project /\ DirOf[worker[w].project] \in Dir
    BY <1>5, DirOfAssumption DEF Begin, WorkersKnow
  <2>2. job' \in Job /\ Len(job'.log) <= LogCap
    <3>1. AtPhase(1) \in [Phase -> {"idle", "running", "done"}]
      BY PhasesAreTyped
    <3> QED
      BY <1>5, <2>1, <3>1, EmptyLog DEF Begin, Job
  <2>3. /\ Goto(w, "enter", 1) /\ failed' \in BOOLEAN /\ worker[w].at # "unborn"
        /\ UNCHANGED <<request, readBack, disk, ir, overlap>>
    BY <1>5 DEF Begin
  <2>4. "enter" \in Stages \ {"unborn", "begin"} /\ 1 \in Phase
    BY DEF Stages, Phase
  <2> QED
    BY <1>0, <2>2, <2>3, <2>4, MovesOn
<1>6. ASSUME NEW w \in Worker, Enter(w)
      PROVE  TypeOK' /\ WorkersKnow'
  <2> DEFINE n == worker[w].phase
             ph == IF n = 1 THEN AtPhase(1) ELSE job.phases
  <2>1. n \in Phase /\ n \in 0..4 /\ worker[w].at # "unborn"
    BY <1>6 DEF Enter, WorkersKnow, Busy, Stages, Phase
  <2>2. ph \in [Phase -> {"idle", "running", "done"}]
    BY <1>0, PhasesAreTyped DEF Job
  <2>3. job' = [job EXCEPT !.phase = n, !.phases = ph]
    BY <1>6 DEF Enter
  <2>4. Goto(w, "run", n) /\ UNCHANGED <<request, readBack, disk, ir, failed, overlap>>
    BY <1>6 DEF Enter
  <2>5. "run" \in Stages \ {"unborn", "begin"}
    BY DEF Stages
  <2> HIDE DEF ph, n
  <2>6. job' \in Job /\ Len(job'.log) <= LogCap
    BY <1>0, <2>1, <2>2, <2>3 DEF Job
  <2> QED
    BY <1>0, <2>1, <2>4, <2>5, <2>6, MovesOn
<1>7. ASSUME NEW w \in Worker, Progress(w)
      PROVE  TypeOK' /\ WorkersKnow'
  <2>1. Logged(job.log, w) \in Seq(Worker) /\ Len(Logged(job.log, w)) <= LogCap
    BY <1>0, LoggedIsCapped DEF Job
  <2>2. job' \in Job /\ Len(job'.log) <= LogCap
    BY <1>0, <1>7, <2>1 DEF Progress, Job
  <2> QED
    BY <1>7, <2>2 DEF Progress, TypeOK, WorkersKnow
<1>8. ASSUME NEW w \in Worker, RunPhase(w) \/ RunCompilers(w) \/ Fail(w)
      PROVE  TypeOK' /\ WorkersKnow'
  <2> DEFINE n == worker[w].phase
             at == IF Fail(w) THEN "failed" ELSE "mark"
  <2>1. n \in Phase /\ worker[w].at # "unborn" /\ worker[w].project \in Project
    BY <1>8 DEF RunPhase, RunCompilers, Compile, Fail, WorkersKnow, Busy, Stages
  <2>2. Writes(w) /\ ir' \in [Dir -> [{2, 3} -> SUBSET Project]]
    BY <1>8, <2>1, StepsWrite
  <2>3. disk' \in [Dir -> [Phase -> SUBSET Project]]
    BY <1>0, <2>1, <2>2, WritingIsTyped DEF Writes
  <2>4. UNCHANGED <<job, request, readBack, overlap>>
    BY <1>8 DEF RunPhase, RunCompilers, Fail
  <2>5. Goto(w, at, n)
    BY <1>8 DEF RunPhase, RunCompilers, Fail
  <2>6. failed' \in BOOLEAN
    BY <1>0, <1>8 DEF RunPhase, RunCompilers, Fail
  <2>7. at \in Stages \ {"unborn", "begin"} /\ at # "finish"
    BY DEF Stages
  <2> HIDE DEF n, at
  <2> QED
    BY <1>0, <2>1, <2>2, <2>3, <2>4, <2>5, <2>6, <2>7, MovesOn
<1>9. ASSUME NEW w \in Worker, Mark(w)
      PROVE  TypeOK' /\ WorkersKnow'
  <2> DEFINE n == worker[w].phase
             at == IF n = 4 THEN "finish" ELSE "enter"
             next == IF n = 4 THEN 4 ELSE n + 1
  <2>1. n \in Phase /\ worker[w].at # "unborn"
    BY <1>9 DEF Mark, WorkersKnow, Busy, Stages
  <2>2. next \in Phase /\ (at = "finish" => next = 4) /\ n + 1 \in 0..5
    BY <2>1 DEF Phase
  <2>3. at \in Stages \ {"unborn", "begin"}
    BY DEF Stages
  <2>4. AtPhase(n + 1) \in [Phase -> {"idle", "running", "done"}]
    BY <2>2, PhasesAreTyped
  <2>5. job' = [job EXCEPT !.phases = AtPhase(n + 1)]
    BY <1>9 DEF Mark
  <2>6. Goto(w, at, next) /\ UNCHANGED <<request, readBack, disk, ir, failed, overlap>>
    BY <1>9 DEF Mark
  <2> HIDE DEF n, at, next
  <2>7. job' \in Job /\ Len(job'.log) <= LogCap
    BY <1>0, <2>4, <2>5 DEF Job
  <2> QED
    BY <1>0, <2>1, <2>2, <2>3, <2>6, <2>7, MovesOn
<1>10. ASSUME NEW w \in Worker, ReadBack(w)
       PROVE  TypeOK' /\ WorkersKnow'
  <2> DEFINE res == disk[DirOf[worker[w].project]][4]
  <2>1. worker[w].project \in Project /\ worker[w].at # "unborn"
    BY <1>10 DEF ReadBack, WorkersKnow
  <2>2. res \subseteq Project
    BY <1>0, <2>1, DirOfAssumption DEF Phase
  <2>3. readBack' = [readBack EXCEPT ![w] = res]
    BY <1>10 DEF ReadBack
  <2>4. Goto(w, "publish", 4) /\ UNCHANGED <<job, request, disk, ir, failed, overlap>>
    BY <1>10 DEF ReadBack
  <2>5. "publish" \in Stages \ {"unborn", "begin"} /\ 4 \in Phase
    BY DEF Stages, Phase
  <2> HIDE DEF res
  <2>6. readBack' \in [Worker -> SUBSET Project]
    BY <1>0, <2>2, <2>3
  <2> QED
    BY <1>0, <2>1, <2>4, <2>5, <2>6, MovesOn
<1>11. ASSUME NEW w \in Worker, Publish(w)
       PROVE  TypeOK' /\ WorkersKnow'
  <2> DEFINE res == readBack[w]
  <2>1. worker[w].at # "unborn" /\ res \subseteq Project
    BY <1>0, <1>11 DEF Publish
  <2>2. job' = [job EXCEPT !.status = "done", !.phase = 4, !.results = res]
    BY <1>11 DEF Publish
  <2>3. Goto(w, "ended", 4) /\ UNCHANGED <<request, readBack, disk, ir, failed, overlap>>
    BY <1>11 DEF Publish
  <2>4. "ended" \in Stages \ {"unborn", "begin"} /\ 4 \in Phase
    BY DEF Stages, Phase
  <2> HIDE DEF res
  <2>5. job' \in Job /\ Len(job'.log) <= LogCap
    <3>1. job' = [status |-> "done", phase |-> 4, phases |-> job.phases,
                     log |-> job.log, results |-> res, error |-> job.error,
                     project |-> job.project, outputDir |-> job.outputDir]
      BY <1>0, <2>2 DEF Job
    <3> QED
      BY <1>0, <2>1, <3>1 DEF Job
  <2> QED
    BY <1>0, <2>1, <2>3, <2>4, <2>5, MovesOn
<1>13. ASSUME NEW w \in Worker, ReportError(w)
       PROVE  TypeOK' /\ WorkersKnow'
  <2> DEFINE n == worker[w].phase
  <2>1. n \in Phase /\ worker[w].at # "unborn"
    BY <1>13 DEF ReportError, WorkersKnow, Busy, Stages
  <2>2. job' = [job EXCEPT !.status = "error", !.error = TRUE]
    BY <1>13 DEF ReportError
  <2>3. Goto(w, "logError", n) /\ UNCHANGED <<request, readBack, disk, ir, failed, overlap>>
    BY <1>13 DEF ReportError
  <2>4. "logError" \in Stages \ {"unborn", "begin"}
    BY DEF Stages
  <2> HIDE DEF n
  <2>5. job' \in Job /\ Len(job'.log) <= LogCap
    BY <1>0, <2>2 DEF Job
  <2> QED
    BY <1>0, <2>1, <2>3, <2>4, <2>5, MovesOn
<1>14. ASSUME NEW w \in Worker, LogError(w)
       PROVE  TypeOK' /\ WorkersKnow'
  <2> DEFINE n == worker[w].phase
             log == Logged(job.log, w)
  <2>1. n \in Phase /\ worker[w].at # "unborn"
    BY <1>14 DEF LogError, WorkersKnow, Busy, Stages
  <2>2. log \in Seq(Worker) /\ Len(log) <= LogCap
    BY <1>0, LoggedIsCapped DEF Job
  <2>3. job' = [job EXCEPT !.log = log]
    BY <1>14 DEF LogError
  <2>4. Goto(w, "ended", n) /\ UNCHANGED <<request, readBack, disk, ir, failed, overlap>>
    BY <1>14 DEF LogError
  <2>5. "ended" \in Stages \ {"unborn", "begin"}
    BY DEF Stages
  <2> HIDE DEF n, log
  <2>6. job' \in Job /\ Len(job'.log) <= LogCap
    BY <1>0, <2>2, <2>3 DEF Job
  <2> QED
    BY <1>0, <2>1, <2>4, <2>5, <2>6, MovesOn
<1>15. CASE UNCHANGED vars
  BY <1>15 DEF vars, TypeOK, WorkersKnow
<1> QED
  BY <1>1, <1>2, <1>3, <1>4, <1>5, <1>6, <1>7, <1>8, <1>9, <1>10, <1>11,
     <1>13, <1>14, <1>15 DEF Next, Serve, Work

(* Whatever requests, analyses and failures interleave, the job and the    *)
(* threads keep their types, and the log its cap.                          *)
THEOREM TypeCorrect == Spec => []TypeOK
<1>1. TypeOK /\ WorkersKnow /\ [Next]_vars => (TypeOK /\ WorkersKnow)'
  BY NextTyped
<1> QED
  BY InitTyped, <1>1, PTL DEF Spec

-----------------------------------------------------------------------------
(* Writing an artifact leaves neither the first nor the last empty.        *)
LEMMA WritesKeepArtifacts ==
  ASSUME TypeOK, NEW w \in Worker, worker[w].phase \in Phase, worker[w].project \in Project,
         Writes(w), worker[w].phase = 4 => disk[Directory(w)][1] # {}
  PROVE  /\ \A e \in Dir, k \in {1, 4} : disk[e][k] # {} => disk'[e][k] # {}
         /\ worker[w].phase \in {1, 4} =>
              \/ UNCHANGED disk
              \/ disk'[Directory(w)][worker[w].phase] # {}
<1> DEFINE d == Directory(w)
           n == worker[w].phase
<1>1. d \in Dir /\ n \in Phase /\ disk \in [Dir -> [Phase -> SUBSET Project]] /\ {1, 4} \subseteq Phase
  BY DirOfAssumption DEF TypeOK, Phase, Directory
<1>2. CASE UNCHANGED disk
  BY <1>2
<1>3. ASSUME NEW made \in SUBSET Project, Write(w, made), n \in {1, 4} => made = Joined(w)
      PROVE  /\ \A e \in Dir, k \in {1, 4} : disk[e][k] # {} => disk'[e][k] # {}
             /\ n \in {1, 4} => disk'[d][n] # {}
  <2>1. disk' = [disk EXCEPT ![d][n] = made]
    BY <1>3 DEF Write
  <2>2. n \in {1, 4} => made # {}
    <3>1. n = 1 => Joined(w) # {}
      BY DEF Joined
    <3>2. n = 4 => Joined(w) # {}
      BY DEF Joined
    <3> QED
      BY <1>3, <3>1, <3>2
  <2> HIDE DEF d, n
  <2> QED
    BY <1>1, <2>1, <2>2
<1> QED
  BY <1>2, <1>3 DEF Writes

(* A thread that moves on takes its artifacts with it.                     *)
LEMMA MovesWithArtifact ==
  ASSUME TypeOK, WorkersKnow, OfSomeProject,
         NEW w \in Worker, NEW at \in Stages, NEW n \in Phase, Goto(w, at, n),
         worker[w].at # "unborn",
         \A d \in Dir, k \in {1, 4} : disk[d][k] # {} => disk'[d][k] # {},
         \A k \in WrittenAt(at, n) \cap {1, 4} :
           k \in Written(w) \/ disk'[Directory(w)][k] # {}
  PROVE  OfSomeProject'
<1>1. n \in 0..4
  BY DEF Phase
<1>2. /\ worker'[w].at = at /\ worker'[w].phase = n
      /\ worker'[w].project = worker[w].project
      /\ \A v \in Worker \ {w} : worker'[v] = worker[v]
  BY <1>1, GotoMoves DEF TypeOK
<1>3. ASSUME NEW v \in Worker, NEW k \in {1, 4}, k \in Written(v)
      PROVE  disk'[Directory(v)][k] # {}
  <2>1. worker[v].at # "unborn"
    BY <1>3 DEF Written, WrittenAt
  <2>2. Directory(v) \in Dir
    BY <2>1, DirOfAssumption DEF WorkersKnow, Directory
  <2> QED
    BY <1>3, <2>2 DEF OfSomeProject
<1>4. ASSUME NEW v \in Worker, NEW k \in {1, 4}, k \in Written(v)'
      PROVE  disk'[Directory(v)'][k] # {}
  <2>1. Directory(v)' = Directory(v)
    BY <1>2 DEF Directory
  <2>2. CASE v = w
    <3>1. k \in WrittenAt(at, n)
      BY <1>2, <1>4, <2>2 DEF Written
    <3> QED
      BY <1>3, <2>1, <2>2, <3>1
  <2>3. CASE v # w
    <3>1. Written(v)' = Written(v)
      BY <1>2, <2>3 DEF Written
    <3> QED
      BY <1>3, <1>4, <2>1, <3>1
  <2> QED
    BY <2>2, <2>3
<1> QED
  BY <1>4 DEF OfSomeProject

(* A thread stands behind a phase only when that has written.              *)
LEMMA NextArtifact ==
  TypeOK /\ WorkersKnow /\ OfSomeProject /\ [Next]_vars => OfSomeProject'
<1> SUFFICES ASSUME TypeOK, WorkersKnow, OfSomeProject, [Next]_vars
             PROVE  OfSomeProject'
  OBVIOUS
<1>1. ASSUME NEW w \in Worker, Work(w)
      PROVE  OfSomeProject'
  <2> DEFINE n == worker[w].phase
  <2>0. worker[w].at # "unborn" /\ worker[w].project \in Project
    BY <1>1 DEF Work, Begin, Enter, RunPhase, RunCompilers, Compile, Mark, ReadBack, Publish,
                Fail, ReportError, LogError, WorkersKnow
  <2>1. CASE Begin(w)
    <3>1. /\ Goto(w, "enter", 1) /\ UNCHANGED disk /\ 1 \in Phase /\ "enter" \in Stages
          /\ WrittenAt("enter", 1) = {}
      BY <2>1 DEF Begin, Phase, Stages, WrittenAt
    <3> QED
      BY <2>0, <3>1, MovesWithArtifact
  <2>2. CASE Enter(w)
    <3>1. /\ Goto(w, "run", n) /\ UNCHANGED disk /\ n \in Phase /\ "run" \in Stages
          /\ WrittenAt("run", n) = Written(w)
      BY <2>2 DEF Enter, WorkersKnow, Busy, Stages, Written, WrittenAt
    <3> QED
      BY <2>0, <3>1, MovesWithArtifact
  <2>3. CASE RunPhase(w) \/ RunCompilers(w)
    <3>1. /\ Goto(w, "mark", n) /\ n \in Phase /\ "mark" \in Stages /\ worker[w].at = "run"
      BY <2>3 DEF RunPhase, RunCompilers, Compile, WorkersKnow, Busy, Stages
    <3>2. WrittenAt("mark", n) \subseteq Written(w) \cup {n}
      BY <3>1 DEF Written, WrittenAt, Phase
    <3>3. n = 4 => 1 \in Written(w)
      BY <3>1 DEF Written, WrittenAt, Phase
    <3>4. n = 4 => disk[Directory(w)][1] # {}
      BY <3>3 DEF OfSomeProject
    <3>5. Writes(w)
      BY <2>0, <2>3, StepsWrite
    <3>6. \A e \in Dir, k \in {1, 4} : disk[e][k] # {} => disk'[e][k] # {}
      BY <2>0, <3>1, <3>4, <3>5, WritesKeepArtifacts
    <3>7. n \in {1, 4} => disk'[Directory(w)][n] # {}
      <4>1. Directory(w) \in Dir
        BY <2>0, DirOfAssumption DEF Directory
      <4>2. RunCompilers(w) => n \in {2, 3}
        BY DEF RunCompilers, Compile
      <4>3. n \in {1, 4} => Write(w, Joined(w)) /\ Joined(w) # {}
        BY <2>3, <3>4, <4>2 DEF RunPhase, Joined
      <4>4. disk \in [Dir -> [Phase -> SUBSET Project]]
        BY DEF TypeOK
      <4> QED
        BY <3>1, <4>1, <4>3, <4>4 DEF Write
    <3> QED
      BY <2>0, <3>1, <3>2, <3>6, <3>7, MovesWithArtifact
  <2>4. CASE Mark(w)
    <3> DEFINE at == IF n = 4 THEN "finish" ELSE "enter"
               next == IF n = 4 THEN 4 ELSE n + 1
    <3>1. n \in Phase /\ worker[w].at = "mark" /\ UNCHANGED disk /\ Goto(w, at, next)
      BY <2>4 DEF Mark, WorkersKnow, Busy, Stages
    <3>2. next \in Phase /\ at \in Stages
      BY <3>1 DEF Phase, Stages
    <3>3. WrittenAt(at, next) \subseteq Written(w)
      BY <3>1 DEF Written, WrittenAt, Phase
    <3> HIDE DEF at, next, n
    <3> QED
      BY <2>0, <3>1, <3>2, <3>3, MovesWithArtifact
  <2>5. CASE ReadBack(w)
    <3>1. /\ Goto(w, "publish", 4) /\ UNCHANGED disk /\ 4 \in Phase /\ "publish" \in Stages
          /\ WrittenAt("publish", 4) = Written(w)
      BY <2>5 DEF ReadBack, Phase, Stages, Written, WrittenAt
    <3> QED
      BY <2>0, <3>1, MovesWithArtifact
  <2>6. CASE Publish(w)
    <3>1. /\ Goto(w, "ended", 4) /\ UNCHANGED disk /\ 4 \in Phase /\ "ended" \in Stages
          /\ WrittenAt("ended", 4) = {}
      BY <2>6 DEF Publish, Phase, Stages, WrittenAt
    <3> QED
      BY <2>0, <3>1, MovesWithArtifact
  <2>7. CASE Fail(w)
    <3>1. /\ Goto(w, "failed", n) /\ n \in Phase /\ "failed" \in Stages
          /\ WrittenAt("failed", n) = {}
      BY <2>7 DEF Fail, WorkersKnow, Busy, Stages, WrittenAt
    <3>2. n = 4 => 1 \in Written(w)
      BY <2>7 DEF Fail, Written, WrittenAt, Phase
    <3>3. n = 4 => disk[Directory(w)][1] # {}
      BY <3>2 DEF OfSomeProject
    <3>4. Writes(w)
      BY <2>0, <2>7, StepsWrite
    <3>5. \A e \in Dir, k \in {1, 4} : disk[e][k] # {} => disk'[e][k] # {}
      BY <2>0, <3>1, <3>3, <3>4, WritesKeepArtifacts
    <3> QED
      BY <2>0, <3>1, <3>5, MovesWithArtifact
  <2>8. CASE ReportError(w)
    <3>1. /\ Goto(w, "logError", n) /\ UNCHANGED disk /\ n \in Phase /\ "logError" \in Stages
          /\ WrittenAt("logError", n) = {}
      BY <2>8 DEF ReportError, WorkersKnow, Busy, Stages, WrittenAt
    <3> QED
      BY <2>0, <3>1, MovesWithArtifact
  <2>9. CASE LogError(w)
    <3>1. /\ Goto(w, "ended", n) /\ UNCHANGED disk /\ n \in Phase /\ "ended" \in Stages
          /\ WrittenAt("ended", n) = {}
      BY <2>9 DEF LogError, WorkersKnow, Busy, Stages, WrittenAt
    <3> QED
      BY <2>0, <3>1, MovesWithArtifact
  <2> QED
    BY <1>1, <2>1, <2>2, <2>3, <2>4, <2>5, <2>6, <2>7, <2>8, <2>9 DEF Work
<1>2. ASSUME UNCHANGED <<worker, disk>>
      PROVE  OfSomeProject'
  BY <1>2 DEF OfSomeProject, Written, Directory
<1>3. ASSUME NEW r \in Request, Serve(r)
      PROVE  OfSomeProject'
  <2>1. ASSUME NEW w \in Worker, AnalyzeStart(r, w) PROVE OfSomeProject'
    <3>1. disk' = disk /\ worker'[w].at = "begin" /\ \A v \in Worker \ {w} : worker'[v] = worker[v]
      BY <2>1 DEF AnalyzeStart, TypeOK
    <3>2. Written(w)' = {}
      BY <3>1 DEF Written, WrittenAt
    <3>3. \A v \in Worker \ {w} : Written(v)' = Written(v) /\ Directory(v)' = Directory(v)
      BY <3>1 DEF Written, Directory
    <3> QED
      BY <3>1, <3>2, <3>3 DEF OfSomeProject
  <2> QED
    BY <1>2, <1>3, <2>1 DEF Serve, AnalyzeCheck, ResetCheck, ResetApply
<1> QED
  BY <1>1, <1>2, <1>3 DEF Next, Progress, vars

(* Only ReadBack takes a thread to "publish", and it finds the artifact.   *)
LEMMA NextHasResults ==
  TypeOK /\ WorkersKnow /\ OfSomeProject /\ HasResults /\ [Next]_vars => HasResults'
<1> SUFFICES ASSUME TypeOK, WorkersKnow, OfSomeProject, HasResults, [Next]_vars
             PROVE  HasResults'
  OBVIOUS
<1>1. ASSUME NEW w \in Worker, ReadBack(w)
      PROVE  HasResults'
  <2> DEFINE res == disk[DirOf[worker[w].project]][4]
  <2>1. res # {}
    BY <1>1 DEF ReadBack, OfSomeProject, Written, WrittenAt, Phase, Directory
  <2>2. readBack' = [readBack EXCEPT ![w] = res] /\ Goto(w, "publish", 4)
    BY <1>1 DEF ReadBack
  <2> HIDE DEF res
  <2> QED
    BY <2>1, <2>2 DEF Goto, HasResults, TypeOK
<1>2. ASSUME NEW w \in Worker, NEW at, NEW n, Goto(w, at, n), at # "publish",
             UNCHANGED readBack
      PROVE  HasResults'
  BY <1>2 DEF Goto, HasResults, TypeOK
<1>3. ASSUME NEW w \in Worker, Work(w), ~ReadBack(w)
      PROVE  HasResults'
  BY <1>2, <1>3 DEF Work, Begin, Enter, RunPhase, RunCompilers, Mark, Publish, Fail, ReportError,
               LogError
<1>4. ASSUME UNCHANGED <<worker, readBack>>
      PROVE  HasResults'
  BY <1>4 DEF HasResults
<1>5. ASSUME NEW r \in Request, Serve(r)
      PROVE  HasResults'
  <2>1. ASSUME NEW w \in Worker, AnalyzeStart(r, w) PROVE HasResults'
    BY <2>1 DEF AnalyzeStart, HasResults, TypeOK
  <2> QED
    BY <1>4, <1>5, <2>1 DEF Serve, AnalyzeCheck, ResetCheck, ResetApply
<1> QED
  BY <1>1, <1>3, <1>4, <1>5 DEF Next, Progress, vars

(* An analysis that has begun never lets the job say done without results. *)
LEMMA NextDone ==
  TypeOK /\ HasResults /\ DoneHasResults /\ [Next]_vars => DoneHasResults'
<1> SUFFICES ASSUME TypeOK, HasResults, DoneHasResults, [Next]_vars
             PROVE  DoneHasResults'
  OBVIOUS
<1>0. job \in Job
  BY DEF TypeOK
<1>1. ASSUME NEW w \in Worker, Begin(w) \/ ReportError(w)
      PROVE  DoneHasResults'
  <2>1. CASE Begin(w)
    BY <2>1 DEF Begin, DoneHasResults
  <2>2. CASE ReportError(w)
    <3>1. job' = [job EXCEPT !.status = "error", !.error = TRUE]
      BY <2>2 DEF ReportError
    <3>2. job'.status = "error"
      BY <1>0, <3>1 DEF Job
    <3> QED
      BY <3>2 DEF DoneHasResults
  <2> QED
    BY <1>1, <2>1, <2>2
<1>2. ASSUME NEW w \in Worker, Publish(w)
      PROVE  DoneHasResults'
  <2>1. job' = [job EXCEPT !.status = "done", !.phase = 4, !.results = readBack[w]]
    BY <1>2 DEF Publish
  <2>2. job'.results = readBack[w] /\ readBack[w] # {}
    BY <1>0, <1>2, <2>1 DEF Publish, HasResults, Job
  <2> QED
    BY <2>2 DEF DoneHasResults
<1>3. ASSUME NEW w \in Worker,
             \/ Enter(w) \/ Progress(w) \/ RunPhase(w) \/ RunCompilers(w) \/ Mark(w)
             \/ ReadBack(w) \/ Fail(w) \/ LogError(w)
      PROVE  DoneHasResults'
  <2>1. worker[w].at \notin {"unborn", "begin"}
    BY <1>3 DEF Enter, Progress, RunPhase, RunCompilers, Compile, Mark, ReadBack, Fail,
                     LogError
  <2>2. job'.status = job.status /\ job'.results = job.results
    BY <1>0, <1>3 DEF Enter, Progress, RunPhase, RunCompilers, Mark, ReadBack, Fail,
                            LogError, Job
  <2> QED
    BY <2>1, <2>2 DEF DoneHasResults
<1>4. ASSUME NEW r \in Request, ResetApply(r)
      PROVE  DoneHasResults'
  BY <1>4 DEF ResetApply, NoJob, DoneHasResults
<1>5. ASSUME NEW r \in Request, NEW w \in Worker, AnalyzeStart(r, w)
      PROVE  DoneHasResults'
  BY <1>5 DEF AnalyzeStart, DoneHasResults, TypeOK
<1>6. ASSUME UNCHANGED <<job, worker>>
      PROVE  DoneHasResults'
  BY <1>6 DEF DoneHasResults
<1>7. ASSUME NEW r \in Request, Serve(r)
      PROVE  DoneHasResults'
  BY <1>4, <1>5, <1>6, <1>7 DEF Serve, AnalyzeCheck, ResetCheck
<1> QED
  BY <1>1, <1>2, <1>3, <1>6, <1>7 DEF Next, Work, vars

(* However analyses, failures and resets interleave, the job is not shown  *)
(* as done without results once an analysis has begun (_set in app.py).    *)
THEOREM ResultsShown == Spec => []DoneHasResults
<1>1. Init => IInv
  <2>1. Init => OfSomeProject /\ HasResults /\ DoneHasResults
    BY DEF Init, OfSomeProject, Written, WrittenAt, HasResults, DoneHasResults
  <2> QED
    BY <2>1, InitTyped DEF IInv
<1>2. IInv /\ [Next]_vars => IInv'
  BY NextTyped, NextArtifact, NextHasResults, NextDone DEF IInv
<1> QED
  BY <1>1, <1>2, PTL DEF Spec, IInv

-----------------------------------------------------------------------------
(***************************************************************************)
(* What those who look at the job see of it.  An analysis that nothing     *)
(* overlaps is shown as it is, and its phases only advance.  Whatever      *)
(* overlaps, the server implements JobView, safety only: its initial       *)
(* states are JobView's and every step of it, seen through the refinement  *)
(* mapping at the end of JobServer, is one of JobView's or leaves the view *)
(* as it is.                                                               *)
(***************************************************************************)

(* The phases as the job shows them while thread w works on it.            *)
Showing(w) == IF worker[w].at \in {"finish", "publish"} THEN 5 ELSE worker[w].phase

(* The job tells of thread w's analysis and of nothing else.               *)
Tells(w) ==
  /\ job.project = worker[w].project
  /\ job.results = {} /\ ~job.error
  /\ \A i \in 1..Len(job.log) : job.log[i] = w
  /\ worker[w].at # "failed" => job.phases = AtPhase(Showing(w))

(* What thread w has written is of its own project, and what it read back, *)
(* unless a compiler has failed.                                           *)
Wrote(w) ==
  ~failed =>
    /\ \A k \in Written(w) : disk[Directory(w)][k] = {worker[w].project}
    /\ worker[w].at = "publish" => readBack[w] = {worker[w].project}

Alone == \A v, w \in Worker : Alive(v) /\ Alive(w) => v = w

Solo ==
  /\ Alone
  /\ job.status = "running" <=> \E w \in Worker : Running(w)
  /\ \A w \in Worker : Running(w) => Tells(w) /\ Wrote(w)
  /\ job.status = "done" /\ ~failed => job.results \subseteq {job.project}

(* The inductive invariant: SoloIsConsistent and why the results can only  *)
(* be of one project.                                                      *)
SoloInv == TypeOK /\ WorkersKnow /\ (~overlap => Solo)

-----------------------------------------------------------------------------
(* Cutting the log leaves only lines that were in it.                      *)
LEMMA LoggedIsOfOne ==
  ASSUME NEW w \in Worker, NEW log \in Seq(Worker),
         \A i \in 1..Len(log) : log[i] = w
  PROVE  \A i \in 1..Len(Logged(log, w)) : Logged(log, w)[i] = w
<1> DEFINE all == Append(log, w)
           first == IF Len(all) > LogCap THEN Len(all) - LogCap + 1 ELSE 1
           cut == SubSeq(all, first, Len(all))
<1>1. /\ all \in Seq(Worker) /\ Len(all) \in Nat /\ Len(all) >= 1
      /\ \A i \in 1..Len(all) : all[i] = w
  BY AppendProperties, LenProperties
<1>2. first \in 1..Len(all)+1 /\ first >= 1
  BY <1>1, LogCapAssumption
<1> HIDE DEF all, first
<1>3. /\ Len(cut) = Len(all) - first + 1
      /\ \A i \in 1..Len(all) - first + 1 : cut[i] = all[first + i - 1]
  BY <1>1, <1>2, SubSeqProperties
<1>4. \A i \in 1..Len(cut) : first + i - 1 \in 1..Len(all)
  BY <1>1, <1>2, <1>3
<1>5. \A i \in 1..Len(cut) : cut[i] = w
  BY <1>1, <1>3, <1>4
<1>6. Logged(log, w) = cut
  BY DEF Logged, cut, first, all
<1> QED
  BY <1>5, <1>6

(* Phases that read only what their own analysis has written make an       *)
(* artifact of its project alone.                                          *)
LEMMA JoinedIsOwn ==
  ASSUME NEW w \in Worker, worker[w].phase \in {1, 4},
         \A k \in Phase : k < worker[w].phase => disk[Directory(w)][k] = {worker[w].project}
  PROVE  Joined(w) = {worker[w].project}
<1>1. worker[w].phase = 4 => \A k \in 1..3 : disk[Directory(w)][k] = {worker[w].project}
  BY DEF Phase
<1> QED
  BY <1>1 DEF Joined

(* A running thread is alive, so alone in being so it is alone in running. *)
LEMMA RunningIsAlive == \A w \in Worker : Running(w) => Alive(w)
BY DEF Running, Alive

(* When the one thread alive moves on within its analysis the others stay  *)
(* as dead as they were, and the job tells of it alone.                    *)
LEMMA SoloMoves ==
  ASSUME TypeOK, Alone, NEW w \in Worker, Alive(w),
         NEW at \in Stages \ {"unborn", "begin"}, NEW n \in Phase, Goto(w, at, n),
         job'.status = "running" <=> Running(w)',
         Running(w)' => (Tells(w) /\ Wrote(w))',
         job'.status = "done" /\ ~failed' => job'.results \subseteq {job'.project}
  PROVE  Solo'
<1>1. n \in 0..4
  BY DEF Phase
<1>2. \A v \in Worker \ {w} : worker'[v] = worker[v]
  BY <1>1, GotoMoves DEF TypeOK
<1>3. \A v \in Worker \ {w} : ~Alive(v)'
  BY <1>2 DEF Alone, Alive
<1>4. \A v \in Worker \ {w} : ~Running(v)'
  BY <1>3 DEF Running, Alive
<1>5. Alone'
  BY <1>3 DEF Alone
<1> QED
  BY <1>4, <1>5 DEF Solo

(* An overlap is never forgotten.                                          *)
LEMMA OverlapStays == [Next]_vars /\ ~overlap' => ~overlap
BY DEF Next, Serve, Work, AnalyzeCheck, AnalyzeStart, ResetCheck, ResetApply, Begin,
       Enter, Progress, RunPhase, RunCompilers, Mark, ReadBack, Publish, Fail, ReportError, LogError, vars

(* The requests: none is carried out while an analysis is alive, unless it *)
(* overlaps that one.                                                      *)
LEMMA ServeSolo ==
  ASSUME TypeOK, Solo, ~overlap', NEW r \in Request, Serve(r)
  PROVE  Solo'
<1>0. job \in Job
  BY DEF TypeOK
<1>1. ASSUME UNCHANGED <<job, worker, readBack, disk, failed>>
      PROVE  Solo'
  BY <1>1 DEF Solo, Alone, Alive, Running, Tells, Wrote, Written, Directory, Showing
<1>2. ASSUME NEW w \in Worker, AnalyzeStart(r, w)
      PROVE  Solo'
  <2>1. \A v \in Worker : ~Alive(v)
    BY <1>2 DEF AnalyzeStart
  <2>2. /\ worker'[w].at = "begin"
        /\ \A v \in Worker \ {w} : worker'[v] = worker[v]
        /\ UNCHANGED <<job, failed>>
    BY <1>2 DEF AnalyzeStart, TypeOK
  <2>3. \A v \in Worker : ~Running(v) /\ ~Running(v)'
    BY <2>1, <2>2 DEF Running, Alive
  <2>4. \A v \in Worker \ {w} : ~Alive(v)'
    BY <2>1, <2>2 DEF Alive
  <2>5. Alone'
    BY <2>4 DEF Alone
  <2> QED
    BY <2>2, <2>3, <2>5 DEF Solo
<1>3. ASSUME ResetApply(r)
      PROVE  Solo'
  <2>1. \A v \in Worker : ~Alive(v) /\ ~Alive(v)'
    BY <1>3 DEF ResetApply, Alive
  <2>2. \A v \in Worker : ~Running(v)'
    BY <2>1 DEF Running, Alive
  <2>3. job'.status = "idle"
    BY <1>3 DEF ResetApply, NoJob
  <2> QED
    BY <2>1, <2>2, <2>3 DEF Solo, Alone
<1> QED
  BY <1>1, <1>2, <1>3 DEF Serve, AnalyzeCheck, ResetCheck

(* The steps of the one analysis alive.                                    *)
LEMMA WorkSolo ==
  ASSUME TypeOK, WorkersKnow, Solo, NEW w \in Worker, Work(w)
  PROVE  Solo'
<1> DEFINE n == worker[w].phase
           p == worker[w].project
           d == DirOf[worker[w].project]
<1>0. job \in Job /\ Alive(w) /\ p \in Project /\ d \in Dir /\ disk \in [Dir -> [Phase -> SUBSET Project]]
  BY DirOfAssumption DEF TypeOK, WorkersKnow, Alive, Work, Begin, Enter, RunPhase, RunCompilers,
     Compile, Mark, ReadBack, Publish, Fail, ReportError, LogError
<1>1. Alone
  BY DEF Solo
<1>2. Running(w) => job.status = "running" /\ Tells(w) /\ Wrote(w)
  BY DEF Solo
<1>3. worker[w].at \in Busy => n \in Phase
  BY DEF WorkersKnow
<1>4. ASSUME Begin(w) PROVE Solo'
  <2>1. Goto(w, "enter", 1) /\ "enter" \in Stages \ {"unborn", "begin"} /\ 1 \in Phase
    BY <1>4 DEF Begin, Stages, Phase
  <2>2. worker'[w] = [worker[w] EXCEPT !.at = "enter", !.phase = 1]
    BY <2>1 DEF Goto, TypeOK
  <2>3. worker'[w].at = "enter" /\ worker'[w].phase = 1 /\ worker'[w].project = p
    BY <2>1, GotoMoves DEF TypeOK
  <2>4. /\ job'.status = "running" /\ job'.project = p /\ job'.results = {} /\ ~job'.error
        /\ job'.log = <<>> /\ job'.phases = AtPhase(1)
    BY <1>4 DEF Begin
  <2>5. Running(w)'
    BY <2>3 DEF Running
  <2>6. Tells(w)'
    BY <2>3, <2>4 DEF Tells, Showing
  <2>7. Wrote(w)'
    BY <2>3 DEF Wrote, Written, WrittenAt, Phase
  <2> QED
    BY <1>0, <1>1, <2>1, <2>4, <2>5, <2>6, <2>7, SoloMoves
<1>5. ASSUME Enter(w) PROVE Solo'
  <2>1. /\ Goto(w, "run", n) /\ "run" \in Stages \ {"unborn", "begin"} /\ n \in Phase
        /\ worker[w].at = "enter"
    BY <1>3, <1>5 DEF Enter, Stages, Busy
  <2>2. worker'[w].at = "run" /\ worker'[w].phase = n /\ worker'[w].project = p
    BY <2>1, GotoMoves DEF TypeOK, Phase
  <2>3. Running(w) /\ job.status = "running" /\ Tells(w) /\ Wrote(w)
    BY <1>2, <2>1 DEF Running
  <2>4. job.phases = AtPhase(n)
    BY <2>1, <2>3 DEF Tells, Showing
  <2>5. job' = [job EXCEPT !.phase = n]
    BY <1>0, <1>5, <2>4 DEF Enter, Job
  <2>6. /\ job'.status = "running" /\ job'.project = p /\ job'.results = {} /\ ~job'.error
        /\ job'.log = job.log /\ job'.phases = AtPhase(n)
    BY <1>0, <2>3, <2>4, <2>5 DEF Job, Tells
  <2>7. Running(w)'
    BY <2>2 DEF Running
  <2>8. Tells(w)'
    BY <2>2, <2>3, <2>6 DEF Tells, Showing
  <2>9. Wrote(w)'
    <3>1. UNCHANGED <<disk, failed>>
      BY <1>5 DEF Enter
    <3> QED
      BY <2>1, <2>2, <2>3, <3>1 DEF Wrote, Written, WrittenAt, Directory
  <2> QED
    BY <1>0, <1>1, <2>1, <2>6, <2>7, <2>8, <2>9, SoloMoves
<1>6. ASSUME RunPhase(w) \/ RunCompilers(w) PROVE Solo'
  <2>1. /\ Goto(w, "mark", n) /\ "mark" \in Stages \ {"unborn", "begin"} /\ n \in Phase
        /\ worker[w].at = "run" /\ UNCHANGED job
    BY <1>3, <1>6 DEF RunPhase, RunCompilers, Compile, Stages, Busy
  <2>2. worker'[w].at = "mark" /\ worker'[w].phase = n /\ worker'[w].project = p
    BY <2>1, GotoMoves DEF TypeOK, Phase
  <2>3. Running(w) /\ job.status = "running" /\ Tells(w) /\ Wrote(w)
    BY <1>2, <2>1 DEF Running
  <2>4. Running(w)'
    BY <2>2 DEF Running
  <2>5. Tells(w)'
    BY <2>1, <2>2, <2>3 DEF Tells, Showing
  <2>6. ASSUME ~failed'
        PROVE  ~failed /\ Write(w, {p}) /\ \A k \in Phase : k < n => disk[d][k] = {p}
    <3>1. ~failed
      BY <1>6, <2>6 DEF RunPhase, RunCompilers
    <3>2. \A k \in Phase : k < n => disk[d][k] = {p}
      BY <2>1, <2>3, <3>1 DEF Wrote, Written, WrittenAt, Directory
    <3>3. CASE RunPhase(w)
      <4>1. n \in {1, 4} /\ Write(w, Joined(w))
        BY <3>3 DEF RunPhase
      <4>2. Joined(w) = {p}
        BY <3>2, <4>1, JoinedIsOwn DEF Directory
      <4> QED
        BY <3>1, <3>2, <4>1, <4>2
    <3>4. CASE RunCompilers(w)
      <4>1. disk[d][1] = {p}
        BY <3>2, <3>4 DEF RunCompilers, Compile, Phase
      <4>2. PICK fresh \in SUBSET Project, kept \in SUBSET Project :
              Write(w, fresh \cup kept) /\ fresh = disk[d][1] /\ kept = {}
        BY <2>6, <3>4 DEF RunCompilers, Directory
      <4>3. fresh \cup kept = {p}
        BY <4>1, <4>2
      <4> QED
        BY <3>1, <3>2, <4>2, <4>3
    <3> QED
      BY <1>6, <3>3, <3>4
  <2>7. Wrote(w)'
    <3> SUFFICES ASSUME ~failed'
                 PROVE  \A k \in Written(w)' : disk'[Directory(w)'][k] = {worker'[w].project}
      BY <2>2 DEF Wrote
    <3>1. n \in Nat /\ \A k \in Phase : k \in Nat
      BY <2>1 DEF Phase
    <3>2. disk \in [Dir -> [Phase -> SUBSET Project]] /\ d \in Dir /\ n \in Phase
      BY <1>0, <2>1
    <3>3. disk' = [disk EXCEPT ![d][n] = {p}]
      BY <2>6 DEF Write, Directory
    <3>4. \A k \in Phase : k < n => disk[d][k] = {p}
      BY <2>6
    <3> HIDE DEF n, p, d
    <3>5. disk'[d] = [disk[d] EXCEPT ![n] = {p}]
      BY <3>2, <3>3
    <3>6. \A k \in Phase : k <= n => k = n \/ k < n
      BY <3>1
    <3>7. \A k \in Phase : k <= n => disk'[d][k] = {p}
      BY <3>2, <3>4, <3>5, <3>6
    <3>8. \A k \in Written(w)' : disk'[d][k] = {p}
      BY <2>2, <3>7 DEF Written, WrittenAt, n
    <3> QED
      BY <2>2, <3>8 DEF p, d, Directory
  <2> QED
    BY <1>0, <1>1, <2>1, <2>3, <2>4, <2>5, <2>7, SoloMoves
<1>7. ASSUME Mark(w) PROVE Solo'
  <2> DEFINE at == IF n = 4 THEN "finish" ELSE "enter"
             next == IF n = 4 THEN 4 ELSE n + 1
  <2>1. /\ n \in Phase /\ worker[w].at = "mark" /\ UNCHANGED <<disk, failed, readBack>>
        /\ Goto(w, at, next) /\ job' = [job EXCEPT !.phases = AtPhase(n + 1)]
    BY <1>3, <1>7 DEF Mark, Busy, Stages
  <2>2. next \in Phase /\ next \in 0..4 /\ at \in Stages \ {"unborn", "begin"} /\ at \in Stages
    BY <2>1 DEF Phase, Stages
  <2>3. worker'[w].at = at /\ worker'[w].phase = next /\ worker'[w].project = p
    <3> HIDE DEF at, next
    <3> QED
      BY <2>1, <2>2, GotoMoves DEF TypeOK
  <2>4. Running(w) /\ job.status = "running" /\ Tells(w) /\ Wrote(w)
    BY <1>2, <2>1 DEF Running
  <2>5. /\ job'.status = "running" /\ job'.project = p /\ job'.results = {} /\ ~job'.error
        /\ job'.log = job.log /\ job'.phases = AtPhase(n + 1)
    BY <1>0, <2>1, <2>4 DEF Job, Tells
  <2>6. Running(w)'
    BY <2>3 DEF Running
  <2>7. Showing(w)' = n + 1
    BY <2>1, <2>3 DEF Showing, Phase
  <2>8. Tells(w)'
    BY <2>3, <2>4, <2>5, <2>7 DEF Tells
  <2>9. Wrote(w)'
    <3>1. Written(w) = {k \in Phase : k <= n}
      BY <2>1 DEF Written, WrittenAt
    <3>2. Written(w)' = IF n = 4 THEN Phase ELSE {k \in Phase : k < n + 1}
      BY <2>3 DEF Written, WrittenAt
    <3>3. \A k \in Written(w)' : k \in Written(w)
      BY <2>1, <3>1, <3>2 DEF Phase
    <3>4. worker'[w].at # "publish"
      BY <2>3
    <3> QED
      BY <2>1, <2>3, <2>4, <3>3, <3>4 DEF Wrote, Directory
  <2> HIDE DEF at, next
  <2> QED
    BY <1>0, <1>1, <2>1, <2>2, <2>5, <2>6, <2>8, <2>9, SoloMoves
<1>8. ASSUME ReadBack(w) PROVE Solo'
  <2>1. /\ Goto(w, "publish", 4) /\ "publish" \in Stages \ {"unborn", "begin"} /\ 4 \in Phase
        /\ worker[w].at = "finish" /\ UNCHANGED <<job, disk, failed>>
        /\ readBack' = [readBack EXCEPT ![w] = disk[d][4]]
    BY <1>8 DEF ReadBack, Stages, Phase
  <2>2. worker'[w].at = "publish" /\ worker'[w].phase = 4 /\ worker'[w].project = p
    BY <2>1, GotoMoves DEF TypeOK, Phase
  <2>3. Running(w) /\ job.status = "running" /\ Tells(w) /\ Wrote(w)
    BY <1>2, <2>1 DEF Running
  <2>4. Written(w) = Phase /\ Written(w)' = Phase
    BY <2>1, <2>2 DEF Written, WrittenAt
  <2>5. ~failed => readBack'[w] = {p}
    BY <2>1, <2>3, <2>4 DEF Wrote, TypeOK, Directory, Phase
  <2>6. Running(w)'
    BY <2>2 DEF Running
  <2>7. Tells(w)'
    BY <2>1, <2>2, <2>3 DEF Tells, Showing
  <2>8. Wrote(w)'
    BY <2>1, <2>2, <2>3, <2>4, <2>5 DEF Wrote, Directory
  <2> QED
    BY <1>0, <1>1, <2>1, <2>3, <2>6, <2>7, <2>8, SoloMoves
<1>9. ASSUME Publish(w) PROVE Solo'
  <2>1. /\ Goto(w, "ended", 4) /\ "ended" \in Stages \ {"unborn", "begin"} /\ 4 \in Phase
        /\ worker[w].at = "publish"
        /\ job' = [job EXCEPT !.status = "done", !.phase = 4, !.results = readBack[w]]
        /\ UNCHANGED failed
    BY <1>9 DEF Publish, Stages, Phase
  <2>2. worker'[w].at = "ended"
    BY <2>1, GotoMoves DEF TypeOK, Phase
  <2>3. (~failed => readBack[w] = {p}) /\ job.project = p
    BY <1>2, <2>1 DEF Running, Wrote, Tells
  <2>4. job'.status = "done" /\ (~failed => job'.results = {p}) /\ job'.project = p
    BY <1>0, <2>1, <2>3 DEF Job
  <2>5. ~Running(w)'
    BY <2>2 DEF Running
  <2> QED
    BY <1>0, <1>1, <2>1, <2>4, <2>5, SoloMoves
<1>10. ASSUME Fail(w) PROVE Solo'
  <2>1. /\ Goto(w, "failed", n) /\ "failed" \in Stages \ {"unborn", "begin"} /\ n \in Phase
        /\ UNCHANGED job
    BY <1>3, <1>10 DEF Fail, Stages, Busy
  <2>2. worker'[w].at = "failed" /\ worker'[w].project = p
    BY <2>1, GotoMoves DEF TypeOK, Phase
  <2>3. Running(w) /\ job.status = "running" /\ Tells(w)
    BY <1>2, <1>10 DEF Fail, Running
  <2>4. Running(w)'
    BY <2>2 DEF Running
  <2>5. Tells(w)'
    BY <2>1, <2>2, <2>3 DEF Tells
  <2>6. Wrote(w)'
    BY <2>2 DEF Wrote, Written, WrittenAt
  <2> QED
    BY <1>0, <1>1, <2>1, <2>3, <2>4, <2>5, <2>6, SoloMoves
<1>11. ASSUME ReportError(w) PROVE Solo'
  <2>1. /\ Goto(w, "logError", n) /\ "logError" \in Stages \ {"unborn", "begin"} /\ n \in Phase
        /\ job' = [job EXCEPT !.status = "error", !.error = TRUE]
    BY <1>3, <1>11 DEF ReportError, Stages, Busy
  <2>2. worker'[w].at = "logError" /\ job'.status = "error"
    BY <1>0, <2>1, GotoMoves DEF TypeOK, Phase, Job
  <2>3. ~Running(w)'
    BY <2>2 DEF Running
  <2> QED
    BY <1>0, <1>1, <2>1, <2>2, <2>3, SoloMoves
<1>12. ASSUME LogError(w) PROVE Solo'
  <2>1. /\ Goto(w, "ended", n) /\ "ended" \in Stages \ {"unborn", "begin"} /\ n \in Phase
        /\ worker[w].at = "logError"
        /\ job' = [job EXCEPT !.log = Logged(job.log, w)] /\ UNCHANGED failed
    BY <1>3, <1>12 DEF LogError, Stages, Busy
  <2>2. worker'[w].at = "ended"
    BY <2>1, GotoMoves DEF TypeOK, Phase
  <2>3. ~Running(w)' /\ ~Running(w)
    BY <2>1, <2>2 DEF Running
  <2>4. job.status # "running"
    BY <1>0, <2>1 DEF Solo, Alone, Running, Alive
  <2>5. job'.status = job.status /\ job'.results = job.results /\ job'.project = job.project
    BY <1>0, <2>1 DEF Job
  <2>6. job'.status = "done" /\ ~failed' => job'.results \subseteq {job'.project}
    BY <2>1, <2>5 DEF Solo
  <2> QED
    BY <1>0, <1>1, <2>1, <2>3, <2>4, <2>5, <2>6, SoloMoves
<1> QED
  BY <1>4, <1>5, <1>6, <1>7, <1>8, <1>9, <1>10, <1>11, <1>12 DEF Work

(* Progress adds a line of the thread that is at work.                     *)
LEMMA ProgressSolo ==
  ASSUME TypeOK, Solo, NEW w \in Worker, Progress(w)
  PROVE  Solo'
<1>1. job \in Job /\ job.log \in Seq(Worker) /\ worker[w].at = "run"
  BY DEF TypeOK, Job, Progress
<1>2. Running(w) /\ job.status = "running" /\ Tells(w)
  BY <1>1 DEF Solo, Running
<1>3. \A v \in Worker : Running(v) => v = w
  BY <1>2, RunningIsAlive DEF Solo, Alone
<1>4. \A i \in 1..Len(Logged(job.log, w)) : Logged(job.log, w)[i] = w
  BY <1>1, <1>2, LoggedIsOfOne DEF Tells
<1>5. job' = [job EXCEPT !.log = Logged(job.log, w)] /\ UNCHANGED <<worker, readBack, disk, failed>>
  BY DEF Progress
<1>6. /\ job'.log = Logged(job.log, w) /\ job'.status = job.status
      /\ job'.project = job.project /\ job'.results = job.results
      /\ job'.error = job.error /\ job'.phases = job.phases
  BY <1>1, <1>5 DEF Job
<1>7. Tells(w)'
  BY <1>2, <1>4, <1>5, <1>6 DEF Tells, Showing
<1>8. /\ \A v \in Worker : (Running(v)' <=> Running(v)) /\ (Alive(v)' <=> Alive(v))
      /\ \A v \in Worker : Wrote(v)' <=> Wrote(v)
  BY <1>5 DEF Running, Alive, Wrote, Written, Directory
<1>9. \A v \in Worker : Running(v)' => (Tells(v) /\ Wrote(v))'
  BY <1>3, <1>7, <1>8 DEF Solo
<1>10. Alone'
  BY <1>8 DEF Solo, Alone
<1>11. job'.status = "running" <=> \E v \in Worker : Running(v)'
  BY <1>2, <1>6, <1>8 DEF Solo
<1> QED
  BY <1>2, <1>5, <1>6, <1>9, <1>10, <1>11 DEF Solo

(* Solo holds at the start, and after every step no other has overlapped.  *)
LEMMA InitSolo == Init => Solo
<1> SUFFICES ASSUME Init PROVE Solo
  OBVIOUS
<1>1. \A w \in Worker : ~Alive(w) /\ ~Running(w)
  BY DEF Init, Alive, Running
<1>2. job.status # "running"
  BY DEF Init, NoJob, Seeded
<1>3. job.status = "done" => job.results \subseteq {job.project}
  BY DEF Init, NoJob, Seeded
<1> QED
  BY <1>1, <1>2, <1>3 DEF Solo, Alone

LEMMA NextSolo == TypeOK /\ WorkersKnow /\ Solo /\ ~overlap' /\ [Next]_vars => Solo'
<1> SUFFICES ASSUME TypeOK, WorkersKnow, Solo, ~overlap', [Next]_vars
             PROVE  Solo'
  OBVIOUS
<1>1. CASE UNCHANGED vars
  BY <1>1 DEF vars, Solo, Alone, Alive, Running, Tells, Wrote, Written, Directory, Showing
<1> QED
  BY <1>1, ServeSolo, WorkSolo, ProgressSolo DEF Next

LEMMA SoloInductive == SoloInv /\ [Next]_vars => SoloInv'
BY NextTyped, NextSolo, OverlapStays DEF SoloInv

(* An analysis that nothing overlaps has the job to itself: it says        *)
(* running exactly while the analysis runs, tells of no other, and is done *)
(* with results from its own project's sources (_run_pipeline in app.py).  *)
THEOREM AloneIsConsistent == Spec => []SoloIsConsistent
<1>1. Init => SoloInv
  BY InitTyped, InitSolo DEF SoloInv
<1>2. SoloInv => SoloIsConsistent
  BY DEF SoloInv, Solo, SoloIsConsistent, Tells
<1> QED
  BY <1>1, <1>2, SoloInductive, PTL DEF Spec

-----------------------------------------------------------------------------
(* Going on to the next phase unmarks none that was done.                  *)
LEMMA PhasesGrow ==
  \A m, n \in Nat : m <= n =>
    \A k \in Phase : AtPhase(m)[k] = "done" => AtPhase(n)[k] = "done"
BY DEF AtPhase, Phase

(* A job that runs before and after a step shows the phases of the one     *)
(* analysis alive, and the step takes that one on.                         *)
LEMMA StepAdvances ==
  ASSUME TypeOK, WorkersKnow, Solo, [Next]_vars, ~overlap',
         job.status = "running", job'.status = "running"
  PROVE  \A k \in Phase : job.phases[k] = "done" => job'.phases[k] = "done"
<1>0. job \in Job
  BY DEF TypeOK
<1>1. CASE job'.phases = job.phases
  BY <1>1
<1>2. ASSUME NEW r \in Request, Serve(r), job'.phases # job.phases
      PROVE  FALSE
  BY <1>2 DEF Serve, AnalyzeCheck, AnalyzeStart, ResetCheck, ResetApply, NoJob
<1>3. ASSUME NEW w \in Worker, Work(w) \/ Progress(w), job'.phases # job.phases
      PROVE  Begin(w) \/ Enter(w) \/ Mark(w)
  BY <1>0, <1>3 DEF Work, Progress, RunPhase, RunCompilers, ReadBack, Publish, Fail, ReportError,
                    LogError, Job
<1>4. ASSUME NEW w \in Worker, Begin(w)
      PROVE  FALSE
  <2>1. PICK v \in Worker : Running(v)
    BY DEF Solo
  <2>2. v = w
    BY <1>4, <2>1, RunningIsAlive DEF Solo, Alone, Begin, Alive
  <2> QED
    BY <1>4, <2>1, <2>2 DEF Begin, Running
<1>5. ASSUME NEW w \in Worker, Enter(w)
      PROVE  job'.phases = job.phases
  <2>1. job.phases = AtPhase(worker[w].phase)
    BY <1>5 DEF Enter, Solo, Running, Tells, Showing
  <2> QED
    BY <1>0, <1>5, <2>1 DEF Enter, Job
<1>6. ASSUME NEW w \in Worker, Mark(w)
      PROVE  \A k \in Phase : job.phases[k] = "done" => job'.phases[k] = "done"
  <2> DEFINE n == worker[w].phase
  <2>1. n \in Nat
    BY <1>6 DEF Mark, WorkersKnow, Busy, Stages, Phase
  <2>2. job.phases = AtPhase(n)
    BY <1>6 DEF Mark, Solo, Running, Tells, Showing
  <2>3. job'.phases = AtPhase(n + 1)
    BY <1>0, <1>6 DEF Mark, Job
  <2> HIDE DEF n
  <2> QED
    BY <2>1, <2>2, <2>3, PhasesGrow
<1>7. CASE UNCHANGED vars
  BY <1>7 DEF vars
<1> QED
  BY <1>1, <1>2, <1>3, <1>4, <1>5, <1>6, <1>7 DEF Next

(* While one analysis runs undisturbed, a phase shown as done stays done   *)
(* (the phases that _run_pipeline sets, which the page loads results by).  *)
THEOREM PhasesAdvance == Spec => PhasesOnlyAdvance
<1>1. Init => SoloInv
  BY InitTyped, InitSolo DEF SoloInv
<1>2. SoloInv /\ [Next]_vars =>
        [~overlap' /\ job.status = "running" /\ job'.status = "running" =>
           \A n \in Phase : job.phases[n] = "done" => job'.phases[n] = "done"]_vars
  BY StepAdvances, OverlapStays DEF SoloInv
<1> QED
  BY <1>1, <1>2, SoloInductive, PTL DEF Spec, PhasesOnlyAdvance

-----------------------------------------------------------------------------
(* The values the mapping gives JobView's variables.                       *)
Shown == [status |-> job.status, phases |-> job.phases, log |-> job.log,
          results |-> job.results]
Requests == [r \in Request |-> request[r].at]
Threads == [w \in Worker |-> [at |-> StageShown(w), done |-> PhasesDone(w)]]

(* What JobView defines again means the same there.                        *)
LEMMA SameViewOperators ==
  /\ View!IdlePhases = IdlePhases
  /\ \A n \in Nat : View!AtPhase(n) = AtPhase(n)
  /\ \A w \in Worker : View!Logged(w) = Logged(job.log, w)
BY DEF View!IdlePhases, IdlePhases, View!AtPhase, AtPhase, View!Phase, Phase,
       View!Logged, Logged

LEMMA SameCardinality == \A S : View!Cardinality(S) = Cardinality(S)
BY DEF View!Cardinality, Cardinality

(* A thread that moves on looks from outside as the move makes it look.    *)
LEMMA ViewMove ==
  ASSUME TypeOK, NEW w \in Worker, NEW at \in Stages, NEW n \in 0..4, Goto(w, at, n),
         UNCHANGED request,
         NEW from, NEW to, NEW done,
         StageShown(w) = from, StageShown(w)' = to, PhasesDone(w)' = done
  PROVE  View!Move(w, from, to, done)
<1>1. \A v \in Worker \ {w} : worker'[v] = worker[v]
  BY GotoMoves DEF TypeOK
<1>2. \A v \in Worker \ {w} : StageShown(v)' = StageShown(v) /\ PhasesDone(v)' = PhasesDone(v)
  BY <1>1 DEF StageShown, PhasesDone
<1>3. Threads' = [Threads EXCEPT ![w] = [at |-> to, done |-> done]]
  BY <1>2 DEF Threads
<1>4. UNCHANGED Requests
  BY DEF Requests
<1>5. Threads[w].at = from
  BY DEF Threads
<1> QED
  BY <1>3, <1>4, <1>5 DEF View!Move, Threads, Requests

(* The start of the server, plain or seeded, is a start of the view.       *)
LEMMA InitIsInView == Init => View!Init
<1> SUFFICES ASSUME Init PROVE View!Init
  OBVIOUS
<1>1. Requests = [r \in Request |-> "free"]
  BY DEF Init, Requests
<1>2. Threads = [w \in Worker |-> [at |-> "unborn", done |-> 0]]
  BY DEF Init, Threads, StageShown, PhasesDone
<1>3. CASE job = NoJob
  <2>1. Shown = View!Nothing
    BY <1>3, SameViewOperators DEF Shown, NoJob, View!Nothing
  <2> QED
    BY <1>1, <1>2, <2>1 DEF View!Init, Shown, Requests, Threads
<1>4. ASSUME NEW p \in Project, NEW found \in SUBSET {p}, job = Seeded(p, found)
      PROVE  View!Init
  <2>1. Cardinality(found) <= 1
    <3>1. found = {} \/ found = {p}
      BY <1>4
    <3> QED
      BY <3>1, FS_EmptySet, FS_Singleton
  <2>2. found \in SUBSET Project
    BY <1>4
  <2>3. Shown = [status |-> "done", phases |-> View!AtPhase(5), log |-> <<>>, results |-> found]
    BY <1>4, SameViewOperators DEF Shown, Seeded
  <2> QED
    BY <1>1, <1>2, <2>1, <2>2, <2>3, SameCardinality DEF View!Init, Shown, Requests, Threads
<1>5. job = NoJob \/ \E p \in Project : \E found \in SUBSET {p} : job = Seeded(p, found)
  BY DEF Init
<1> QED
  BY <1>3, <1>4, <1>5

-----------------------------------------------------------------------------
(* The same threads are counted as left from inside and from outside.      *)
LEMMA SameThreadsLeft == ThreadsLeft <=> View!ThreadsLeft
<1>1. {w \in Worker : Threads[w].at = "unborn"} = {w \in Worker : worker[w].at = "unborn"}
  BY DEF Threads, StageShown
<1>2. {r \in Request : Requests[r] = "analyze"} = {r \in Request : request[r].at = "analyze"}
  BY DEF Requests
<1> QED
  BY <1>1, <1>2, SameCardinality DEF ThreadsLeft, View!ThreadsLeft, Threads, Requests

(* A request thread that goes on looks so from outside.                    *)
LEMMA ViewPass ==
  ASSUME NEW r \in Request, NEW from, NEW to, request[r].at = from, request'[r].at = to,
         \A s \in Request \ {r} : request'[s] = request[s]
  PROVE  View!Pass(r, from, to)
<1>1. Requests' = [Requests EXCEPT ![r] = to] /\ Requests[r] = from
  BY DEF Requests
<1> QED
  BY <1>1 DEF View!Pass, Requests

(* Each request is carried out in the view as it is in the server.         *)
LEMMA ServeIsInView ==
  ASSUME TypeOK, NEW r \in Request, Serve(r)
  PROVE  View!Serve(r)
<1>0. job \in Job
  BY DEF TypeOK
<1>1. ASSUME UNCHANGED <<worker>> PROVE UNCHANGED Threads
  BY <1>1 DEF Threads, StageShown, PhasesDone
<1>2. ASSUME UNCHANGED job PROVE UNCHANGED Shown
  BY <1>2 DEF Shown
<1>3. ASSUME NEW p \in Project, AnalyzeCheck(r, p)
      PROVE  View!Serve(r)
  <2>1. /\ request[r].at = "free" /\ request'[r].at = "analyze"
        /\ \A s \in Request \ {r} : request'[s] = request[s]
    BY <1>3 DEF AnalyzeCheck, TypeOK
  <2>2. View!Pass(r, "free", "analyze")
    BY <2>1, ViewPass
  <2>3. View!ThreadsLeft /\ Shown.status # "running" /\ UNCHANGED <<Shown, Threads>>
    BY <1>1, <1>2, <1>3, SameThreadsLeft DEF AnalyzeCheck, Shown
  <2> QED
    BY <2>2, <2>3 DEF View!Serve, View!AnalyzeCheck, Shown, Threads
<1>4. ASSUME NEW w \in Worker, AnalyzeStart(r, w)
      PROVE  View!Serve(r)
  <2>1. /\ request[r].at = "analyze" /\ request'[r].at = "free"
        /\ \A s \in Request \ {r} : request'[s] = request[s]
    BY <1>4 DEF AnalyzeStart, TypeOK
  <2>2. View!Pass(r, "analyze", "free")
    BY <2>1, ViewPass
  <2>3. /\ worker[w].at = "unborn" /\ worker'[w].at = "begin"
        /\ \A v \in Worker \ {w} : worker'[v] = worker[v]
    BY <1>4 DEF AnalyzeStart, TypeOK
  <2>4. /\ StageShown(w) = "unborn" /\ StageShown(w)' = "started"
        /\ PhasesDone(w) = 0 /\ PhasesDone(w)' = 0
    BY <2>3 DEF StageShown, PhasesDone
  <2>5. \A v \in Worker \ {w} : StageShown(v)' = StageShown(v) /\ PhasesDone(v)' = PhasesDone(v)
    BY <2>3 DEF StageShown, PhasesDone
  <2>6. Threads' = [Threads EXCEPT ![w].at = "started"] /\ Threads[w].at = "unborn"
    BY <2>4, <2>5 DEF Threads
  <2>7. UNCHANGED Shown
    BY <1>2, <1>4 DEF AnalyzeStart
  <2>8. View!AnalyzeStart(r, w)
    BY <2>2, <2>6, <2>7 DEF View!AnalyzeStart, Shown, Threads
  <2> QED
    BY <2>8 DEF View!Serve
<1>5. ASSUME ResetCheck(r)
      PROVE  View!Serve(r)
  <2>1. /\ request[r].at = "free" /\ request'[r].at = "reset"
        /\ \A s \in Request \ {r} : request'[s] = request[s]
    BY <1>5 DEF ResetCheck, TypeOK
  <2>2. View!Pass(r, "free", "reset")
    BY <2>1, ViewPass
  <2>3. Shown.status # "running" /\ UNCHANGED <<Shown, Threads>>
    BY <1>1, <1>2, <1>5 DEF ResetCheck, Shown
  <2> QED
    BY <2>2, <2>3 DEF View!Serve, View!ResetCheck, Shown, Threads
<1>6. ASSUME ResetApply(r)
      PROVE  View!Serve(r)
  <2>1. /\ request[r].at = "reset" /\ request'[r].at = "free"
        /\ \A s \in Request \ {r} : request'[s] = request[s]
    BY <1>6 DEF ResetApply, TypeOK
  <2>2. View!Pass(r, "reset", "free")
    BY <2>1, ViewPass
  <2>3. Shown' = View!Nothing
    <3>1. job' = [NoJob EXCEPT !.outputDir = job.outputDir]
      BY <1>6 DEF ResetApply
    <3> QED
      BY <3>1, SameViewOperators DEF Shown, NoJob, View!Nothing
  <2>4. UNCHANGED Threads
    BY <1>1, <1>6 DEF ResetApply
  <2> QED
    BY <2>2, <2>3, <2>4 DEF View!Serve, View!ResetApply, Shown, Threads
<1> QED
  BY <1>3, <1>4, <1>5, <1>6 DEF Serve

-----------------------------------------------------------------------------
(* What the view shows of a thread in each stage.                          *)
LEMMA Shows ==
  ASSUME NEW w \in Worker
  PROVE  /\ worker[w].at = "begin" => StageShown(w) = "started"
         /\ worker[w].at \in {"enter", "run", "mark", "finish", "publish"}
              => StageShown(w) = "running"
         /\ worker[w].at \in {"failed", "logError", "ended"}
              => StageShown(w) = worker[w].at /\ PhasesDone(w) = 0
         /\ worker[w].at \in {"enter", "run", "mark"}
              => PhasesDone(w) = worker[w].phase - 1
         /\ worker[w].at \in {"finish", "publish"} => PhasesDone(w) = 4
         /\ Threads[w] = [at |-> StageShown(w), done |-> PhasesDone(w)]
BY DEF StageShown, PhasesDone, Threads

(* Moving between stages that look the same is not seen.                   *)
LEMMA Unseen ==
  ASSUME TypeOK, NEW w \in Worker, NEW at \in Stages, NEW n \in 0..4, Goto(w, at, n),
         UNCHANGED <<job, request>>,
         StageShown(w)' = StageShown(w), PhasesDone(w)' = PhasesDone(w)
  PROVE  UNCHANGED View!view
<1>1. \A v \in Worker \ {w} : worker'[v] = worker[v]
  BY GotoMoves DEF TypeOK
<1>2. \A v \in Worker \ {w} : StageShown(v)' = StageShown(v) /\ PhasesDone(v)' = PhasesDone(v)
  BY <1>1 DEF StageShown, PhasesDone
<1>3. Threads' = Threads
  BY <1>2 DEF Threads
<1> QED
  BY <1>3 DEF Threads, View!view

(* A thread's step takes it on in the view as well, or is not seen there.  *)
LEMMA WorkIsInView ==
  ASSUME IInv, NEW w \in Worker, Work(w)
  PROVE  View!Work(w) \/ View!Restate(w) \/ UNCHANGED View!view
<1> DEFINE n == worker[w].phase
<1>0. TypeOK /\ WorkersKnow /\ job \in Job
  BY DEF IInv, TypeOK
<1>1. worker[w].at \in Busy => n \in Phase /\ n \in 0..4 /\ n \in Nat
  BY <1>0 DEF WorkersKnow, Phase
<1>2. CASE Begin(w)
  <2>1. /\ Goto(w, "enter", 1) /\ "enter" \in Stages /\ 1 \in 0..4
        /\ worker[w].at = "begin" /\ UNCHANGED request
    BY <1>2 DEF Begin, Stages
  <2>2. worker'[w].at = "enter" /\ worker'[w].phase = 1
    BY <1>0, <2>1, GotoMoves DEF TypeOK
  <2>3. StageShown(w) = "started"
    BY <2>1, Shows
  <2>4. StageShown(w)' = "running" /\ PhasesDone(w)' = 0
    BY <2>2 DEF StageShown, PhasesDone
  <2>5. View!Move(w, "started", "running", 0)
    BY <1>0, <2>1, <2>3, <2>4, ViewMove
  <2>6. Shown' = [status |-> "running", phases |-> View!AtPhase(1), log |-> <<>>, results |-> {}]
    BY <1>2, SameViewOperators DEF Begin, Shown
  <2>7. View!Begin(w)
    BY <2>5, <2>6 DEF View!Begin, Shown
  <2> QED
    BY <2>7 DEF View!Work
<1>3. CASE Enter(w)
  <2>1. /\ Goto(w, "run", n) /\ "run" \in Stages /\ n \in 0..4
        /\ worker[w].at = "enter" /\ UNCHANGED request
    BY <1>1, <1>3 DEF Enter, Stages, Busy
  <2>2. worker'[w].at = "run" /\ worker'[w].phase = n
    BY <1>0, <2>1, GotoMoves DEF TypeOK
  <2>3. StageShown(w)' = "running" /\ PhasesDone(w)' = n - 1
    BY <2>2 DEF StageShown, PhasesDone
  <2>4. StageShown(w) = "running" /\ PhasesDone(w) = n - 1
    BY <2>1, Shows
  <2>5. UNCHANGED Threads /\ UNCHANGED Requests
    <3>1. \A v \in Worker \ {w} : worker'[v] = worker[v]
      BY <1>0, <2>1, GotoMoves DEF TypeOK
    <3>2. \A v \in Worker : StageShown(v)' = StageShown(v) /\ PhasesDone(v)' = PhasesDone(v)
      BY <2>3, <2>4, <3>1 DEF StageShown, PhasesDone
    <3> QED
      BY <2>1, <3>2 DEF Threads, Requests
  <2>6. CASE n = 1
    <3>1. job' = [job EXCEPT !.phase = n, !.phases = AtPhase(1)]
      BY <1>3, <2>6 DEF Enter
    <3>2. /\ job'.status = job.status /\ job'.phases = AtPhase(1)
          /\ job'.log = job.log /\ job'.results = job.results
      BY <1>0, <3>1 DEF Job
    <3>3. Shown' = [Shown EXCEPT !.phases = View!AtPhase(1)]
      BY <3>2, SameViewOperators DEF Shown
    <3>4. Threads[w] = [at |-> "running", done |-> 0]
      BY <2>4, <2>6, Shows
    <3> QED
      BY <2>5, <3>3, <3>4 DEF View!Restate, Shown, Threads, Requests
  <2>7. CASE n # 1
    <3>1. job' = [job EXCEPT !.phase = n]
      BY <1>0, <1>3, <2>7 DEF Enter, Job
    <3>2. UNCHANGED Shown
      BY <1>0, <3>1 DEF Shown, Job
    <3> QED
      BY <2>5, <3>2 DEF View!view, Shown, Threads, Requests
  <2> QED
    BY <2>6, <2>7
<1>4. CASE RunPhase(w) \/ RunCompilers(w)
  <2>1. /\ Goto(w, "mark", n) /\ "mark" \in Stages /\ n \in 0..4
        /\ worker[w].at = "run" /\ UNCHANGED <<job, request>>
    BY <1>1, <1>4 DEF RunPhase, RunCompilers, Compile, Stages, Busy
  <2>2. worker'[w].at = "mark" /\ worker'[w].phase = n
    BY <1>0, <2>1, GotoMoves DEF TypeOK
  <2>3. StageShown(w)' = "running" /\ PhasesDone(w)' = n - 1
    BY <2>2 DEF StageShown, PhasesDone
  <2> QED
    BY <1>0, <2>1, <2>3, Shows, Unseen
<1>5. CASE ReadBack(w)
  <2>1. /\ Goto(w, "publish", 4) /\ "publish" \in Stages /\ 4 \in 0..4
        /\ worker[w].at = "finish" /\ UNCHANGED <<job, request>>
    BY <1>5 DEF ReadBack, Stages
  <2>2. worker'[w].at = "publish"
    BY <1>0, <2>1, GotoMoves DEF TypeOK
  <2>3. StageShown(w)' = "running" /\ PhasesDone(w)' = 4
    BY <2>2 DEF StageShown, PhasesDone
  <2> QED
    BY <1>0, <2>1, <2>3, Shows, Unseen
<1>6. CASE Mark(w)
  <2> DEFINE at == IF n = 4 THEN "finish" ELSE "enter"
             next == IF n = 4 THEN 4 ELSE n + 1
  <2>1. /\ n \in Phase /\ worker[w].at = "mark" /\ UNCHANGED request
        /\ Goto(w, at, next) /\ job' = [job EXCEPT !.phases = AtPhase(n + 1)]
    BY <1>1, <1>6 DEF Mark, Busy, Stages
  <2>2. next \in 0..4 /\ at \in Stages
    BY <2>1 DEF Phase, Stages
  <2>3. worker'[w].at = at /\ worker'[w].phase = next
    <3> HIDE DEF at, next
    <3> QED
      BY <1>0, <2>1, <2>2, GotoMoves DEF TypeOK
  <2>4. StageShown(w) = "running" /\ PhasesDone(w) = n - 1
    BY <2>1, Shows
  <2>5. StageShown(w)' = "running"
    BY <2>3 DEF StageShown
  <2>6. PhasesDone(w)' = n
    BY <2>1, <2>3 DEF PhasesDone, Phase
  <2>7. View!Move(w, "running", "running", n)
    <3> HIDE DEF at, next
    <3> QED
      BY <1>0, <2>1, <2>2, <2>4, <2>5, <2>6, ViewMove
  <2>8. /\ job'.status = job.status /\ job'.phases = AtPhase(n + 1)
        /\ job'.log = job.log /\ job'.results = job.results
    BY <1>0, <2>1 DEF Job
  <2>9. n - 1 < 4 /\ n - 1 + 1 = n /\ n - 1 + 2 = n + 1 /\ n + 1 \in Nat
    BY <2>1 DEF Phase
  <2>10. Shown' = [Shown EXCEPT !.phases = View!AtPhase(n + 1)]
    BY <2>8, <2>9, SameViewOperators DEF Shown
  <2>11. Threads[w].done = n - 1
    BY <2>4 DEF Threads
  <2>12. View!Advance(w)
    <3> HIDE DEF n
    <3> QED
      BY <2>7, <2>9, <2>10, <2>11 DEF View!Advance, Shown, Threads
  <2> QED
    BY <2>12 DEF View!Work
<1>7. CASE Publish(w)
  <2>1. /\ Goto(w, "ended", 4) /\ "ended" \in Stages /\ 4 \in 0..4
        /\ worker[w].at = "publish" /\ UNCHANGED request
        /\ job' = [job EXCEPT !.status = "done", !.phase = 4, !.results = readBack[w]]
    BY <1>7 DEF Publish, Stages
  <2>2. worker'[w].at = "ended"
    BY <1>0, <2>1, GotoMoves DEF TypeOK
  <2>3. StageShown(w) = "running" /\ PhasesDone(w) = 4
    BY <2>1, Shows
  <2>4. StageShown(w)' = "ended" /\ PhasesDone(w)' = 0
    BY <2>2 DEF StageShown, PhasesDone
  <2>5. View!Move(w, "running", "ended", 0)
    BY <1>0, <2>1, <2>3, <2>4, ViewMove
  <2>6. readBack[w] \in (SUBSET Project) \ {{}}
    BY <1>0, <2>1 DEF IInv, HasResults, TypeOK
  <2>7. /\ job'.status = "done" /\ job'.phases = job.phases
        /\ job'.log = job.log /\ job'.results = readBack[w]
    BY <1>0, <2>1 DEF Job
  <2> DEFINE res == readBack[w]
  <2>8. Shown' = [Shown EXCEPT !.status = "done", !.results = res]
    <3> HIDE DEF res
    <3> DEFINE R == [status : {"idle", "running", "done", "error"},
                     phases : [Phase -> {"idle", "running", "done"}],
                     log : Seq(Worker), results : SUBSET Project]
    <3>1. Shown \in R /\ Shown' \in R
      BY <1>0, <2>6, <2>7 DEF Shown, Job, res
    <3>2. Shown'.status = "done" /\ Shown'.results = res
          /\ Shown'.phases = Shown.phases /\ Shown'.log = Shown.log
      BY <2>7 DEF Shown, res
    <3> QED
      BY <3>1, <3>2
  <2>9. Threads[w].done = 4
    BY <2>3 DEF Threads
  <2>10. View!Publish(w)
    BY <2>5, <2>6, <2>8, <2>9 DEF View!Publish, Shown, Threads
  <2> QED
    BY <2>10 DEF View!Work
<1>8. CASE Fail(w)
  <2>1. /\ Goto(w, "failed", n) /\ "failed" \in Stages /\ n \in 0..4
        /\ worker[w].at \in {"enter", "run", "finish"} /\ UNCHANGED <<job, request>>
    BY <1>1, <1>8 DEF Fail, Stages, Busy
  <2>2. worker'[w].at = "failed"
    BY <1>0, <2>1, GotoMoves DEF TypeOK
  <2>3. StageShown(w) = "running"
    BY <2>1, Shows
  <2>4. StageShown(w)' = "failed" /\ PhasesDone(w)' = 0
    BY <2>2 DEF StageShown, PhasesDone
  <2>5. View!Move(w, "running", "failed", 0)
    BY <1>0, <2>1, <2>3, <2>4, ViewMove
  <2> QED
    BY <2>1, <2>5 DEF View!Work, View!Fail
<1>9. CASE ReportError(w)
  <2>1. /\ Goto(w, "logError", n) /\ "logError" \in Stages /\ n \in 0..4
        /\ worker[w].at = "failed" /\ UNCHANGED request
        /\ job' = [job EXCEPT !.status = "error", !.error = TRUE]
    BY <1>1, <1>9 DEF ReportError, Stages, Busy
  <2>2. worker'[w].at = "logError"
    BY <1>0, <2>1, GotoMoves DEF TypeOK
  <2>3. StageShown(w) = "failed"
    BY <2>1, Shows
  <2>4. StageShown(w)' = "logError" /\ PhasesDone(w)' = 0
    BY <2>2 DEF StageShown, PhasesDone
  <2>5. View!Move(w, "failed", "logError", 0)
    BY <1>0, <2>1, <2>3, <2>4, ViewMove
  <2>6. /\ job'.status = "error" /\ job'.phases = job.phases
        /\ job'.log = job.log /\ job'.results = job.results
    BY <1>0, <2>1 DEF Job
  <2>7. Shown' = [Shown EXCEPT !.status = "error"]
    BY <2>6 DEF Shown
  <2> QED
    BY <2>5, <2>7 DEF View!Work, View!ReportError, Shown
<1>10. CASE LogError(w)
  <2>1. /\ Goto(w, "ended", n) /\ "ended" \in Stages /\ n \in 0..4
        /\ worker[w].at = "logError" /\ UNCHANGED request
        /\ job' = [job EXCEPT !.log = Logged(job.log, w)]
    BY <1>1, <1>10 DEF LogError, Stages, Busy
  <2>2. worker'[w].at = "ended"
    BY <1>0, <2>1, GotoMoves DEF TypeOK
  <2>3. StageShown(w) = "logError"
    BY <2>1, Shows
  <2>4. StageShown(w)' = "ended" /\ PhasesDone(w)' = 0
    BY <2>2 DEF StageShown, PhasesDone
  <2>5. View!Move(w, "logError", "ended", 0)
    BY <1>0, <2>1, <2>3, <2>4, ViewMove
  <2>6. /\ job'.status = job.status /\ job'.phases = job.phases
        /\ job'.log = View!Logged(w) /\ job'.results = job.results
    BY <1>0, <2>1, SameViewOperators DEF Job
  <2>7. Shown' = [Shown EXCEPT !.log = View!Logged(w)]
    BY <2>6 DEF Shown
  <2> QED
    BY <2>5, <2>7 DEF View!Work, View!LogError, Shown
<1> QED
  BY <1>2, <1>3, <1>4, <1>5, <1>6, <1>7, <1>8, <1>9, <1>10 DEF Work

(* A line of progress is reported in the view.                             *)
LEMMA ProgressIsInView ==
  ASSUME TypeOK, NEW w \in Worker, Progress(w)
  PROVE  View!Report(w)
<1>1. job \in Job /\ worker[w].at = "run" /\ job' = [job EXCEPT !.log = Logged(job.log, w)]
  BY DEF TypeOK, Progress
<1>2. /\ job'.status = job.status /\ job'.phases = job.phases
      /\ job'.log = View!Logged(w) /\ job'.results = job.results
  BY <1>1, SameViewOperators DEF Job
<1>3. Shown' = [Shown EXCEPT !.log = View!Logged(w)]
  BY <1>2 DEF Shown
<1>4. Threads[w].at = "running"
  <2>1. StageShown(w) = "running"
    BY <1>1, Shows
  <2> QED
    BY <2>1 DEF Threads
<1>5. UNCHANGED <<Threads, Requests>>
  BY DEF Progress, Threads, Requests, StageShown, PhasesDone
<1> QED
  BY <1>3, <1>4, <1>5 DEF View!Report, Shown, Threads, Requests

-----------------------------------------------------------------------------
(* To those who look at the job from outside, the server is the JobView    *)
(* whatever its threads do: what api_status and api_log return changes     *)
(* only as JobView's actions say.                                          *)
THEOREM ServerIsView == Spec => View!Spec
<1>1. Init => IInv
  <2>1. Init => OfSomeProject /\ HasResults /\ DoneHasResults
    BY DEF Init, OfSomeProject, Written, WrittenAt, HasResults, DoneHasResults
  <2> QED
    BY <2>1, InitTyped DEF IInv
<1>2. IInv /\ [Next]_vars => IInv'
  BY NextTyped, NextArtifact, NextHasResults, NextDone DEF IInv
<1>3. IInv /\ [Next]_vars => [View!Next]_View!view
  <2> SUFFICES ASSUME IInv, [Next]_vars
               PROVE  [View!Next]_View!view
    OBVIOUS
  <2>0. TypeOK
    BY DEF IInv
  <2>1. CASE UNCHANGED vars
    BY <2>1 DEF vars, View!view, StageShown, PhasesDone
  <2>2. ASSUME NEW r \in Request, Serve(r)
        PROVE  View!Next
    BY <2>0, <2>2, ServeIsInView DEF View!Next
  <2>3. ASSUME NEW w \in Worker, Work(w)
        PROVE  [View!Next]_View!view
    BY <2>3, WorkIsInView DEF View!Next
  <2>4. ASSUME NEW w \in Worker, Progress(w)
        PROVE  View!Next
    BY <2>0, <2>4, ProgressIsInView DEF View!Next
  <2> QED
    BY <2>1, <2>2, <2>3, <2>4 DEF Next
<1> QED
  BY <1>1, <1>2, <1>3, InitIsInView, PTL DEF Spec, View!Spec
=============================================================================
