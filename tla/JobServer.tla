----------------------------- MODULE JobServer ------------------------------
(***************************************************************************)
(* app.py: the one global _job, the Flask request threads that check and   *)
(* change it, and the background threads that run the pipeline.            *)
(*                                                                         *)
(* A step is what one holding of _lock does, or one pipeline phase between *)
(* two of them.  api_analyze and api_reset release the lock between the    *)
(* check of the status and what they do about it, so each is two steps.    *)
(*                                                                         *)
(* A file stands for the set of projects whose sources went into it.       *)
(* Projects whose paths end in the same name share a directory (app.py:29),*)
(* and phases 2 and 3 take up what lies in its ir/ wherever a compiler     *)
(* fails, which nobody looks at; Pipeline has that in detail.              *)
(***************************************************************************)
EXTENDS Naturals, Sequences, FiniteSets

CONSTANTS
  Project,     \* project paths that exist
  Dir,         \* the output directories of projects
  DirOf,       \* _project_output_dir: the directory of a project
  SeedDir,     \* the directory given with --output-dir
  Request,     \* request threads of the Flask server
  Worker,      \* background threads: as many analyses as can be started
  LogCap,      \* log lines kept, 500 in the code
  Unnoticed,   \* whether compilers may fail: FALSE bounds runs that do not ask
  None

Phase == 1..4

ASSUME DirOfAssumption == DirOf \in [Project -> Dir]
(* run.sh passes the directory that holds the per-project ones.            *)
ASSUME SeedDirAssumption == SeedDir \notin Dir
ASSUME LogCapAssumption == LogCap \in Nat \ {0}
ASSUME UnnoticedAssumption == Unnoticed \in BOOLEAN
ASSUME NoneAssumption == None \notin Project

VARIABLES
  job,       \* _job
  request,   \* what each request thread is in the middle of
  worker,    \* where each background thread is, and its project
  readBack,  \* locals report_md and dead_data of each background thread
  disk,      \* the four artifacts in the directory of each project
  ir,        \* what ast_i.json (2) and src_i.bc (3) in its ir/ are made from
  failed,    \* history: a compiler failed in the analysis that began last
  overlap    \* history: two analyses, or an analysis and a reset, overlapped

vars == <<job, request, worker, readBack, disk, ir, failed, overlap>>

IdlePhases == [n \in Phase |-> "idle"]

(* Phases before n are done, n is running, the rest idle.                  *)
AtPhase(n) ==
  [k \in Phase |-> IF k < n THEN "done" ELSE IF k = n THEN "running" ELSE "idle"]

NoJob == [status |-> "idle", phase |-> 0, phases |-> IdlePhases, log |-> <<>>,
          results |-> {}, error |-> FALSE, project |-> None, outputDir |-> None]

(* Started plain, or with --output-dir and --project: then the job is       *)
(* seeded as done with what the directory holds, possibly nothing.         *)
Seeded(p, found) ==
  [status |-> "done", phase |-> 4, phases |-> AtPhase(5), log |-> <<>>,
   results |-> found, error |-> FALSE, project |-> p, outputDir |-> SeedDir]

Init ==
  /\ job = NoJob \/ \E p \in Project, found \in SUBSET Project :
                       found \subseteq {p} /\ job = Seeded(p, found)
  /\ request = [r \in Request |-> [at |-> "free", project |-> None]]
  /\ worker = [w \in Worker |-> [at |-> "unborn", phase |-> 0, project |-> None]]
  /\ readBack = [w \in Worker |-> {}]
  /\ disk = [d \in Dir |-> [n \in Phase |-> {}]]
  /\ ir = [d \in Dir |-> [n \in {2, 3} |-> {}]]
  /\ failed = FALSE
  /\ overlap = FALSE

-----------------------------------------------------------------------------
(* The bound on analyses: no more requests pass than threads can be made.  *)
ThreadsLeft ==
  Cardinality({w \in Worker : worker[w].at = "unborn"})
    > Cardinality({r \in Request : request[r].at = "analyze"})

(* api_analyze: 409 while running, otherwise on to start a thread.         *)
AnalyzeCheck(r, p) ==
  /\ request[r].at = "free"
  /\ ThreadsLeft
  /\ job.status # "running"
  /\ request' = [request EXCEPT ![r] = [at |-> "analyze", project |-> p]]
  /\ UNCHANGED <<job, worker, readBack, disk, ir, failed, overlap>>

Alive(w) == worker[w].at \notin {"unborn", "ended"}

AnalyzeStart(r, w) ==
  /\ request[r].at = "analyze"
  /\ worker[w].at = "unborn"
  /\ worker' = [worker EXCEPT ![w] = [at |-> "begin", phase |-> 1,
                                      project |-> request[r].project]]
  /\ request' = [request EXCEPT ![r] = [at |-> "free", project |-> None]]
  /\ overlap' = (overlap \/ \E v \in Worker : Alive(v))
  /\ UNCHANGED <<job, readBack, disk, ir, failed>>

(* api_reset: 409 while running, otherwise on to clear the job.            *)
ResetCheck(r) ==
  /\ request[r].at = "free"
  /\ job.status # "running"
  /\ request' = [request EXCEPT ![r].at = "reset"]
  /\ UNCHANGED <<job, worker, readBack, disk, ir, failed, overlap>>

(* Mutant: a reset clears everything but the status.                       *)
ResetApply_KeepsStatus(r) ==
  /\ request[r].at = "reset"
  /\ job' = [NoJob EXCEPT !.outputDir = job.outputDir, !.status = job.status]
  /\ request' = [request EXCEPT ![r].at = "free"]
  /\ overlap' = (overlap \/ \E v \in Worker : Alive(v))
  /\ UNCHANGED <<worker, readBack, disk, ir, failed>>

(* Everything but the output directory goes back to the beginning.         *)
ResetApply(r) ==
  /\ request[r].at = "reset"
  /\ job' = [NoJob EXCEPT !.outputDir = job.outputDir]
  /\ request' = [request EXCEPT ![r].at = "free"]
  /\ overlap' = (overlap \/ \E v \in Worker : Alive(v))
  /\ UNCHANGED <<worker, readBack, disk, ir, failed>>

-----------------------------------------------------------------------------
(* Mutant: the log is cut one line too late.                               *)
Logged_OneMore(log, line) ==
  LET all == Append(log, line)
  IN  SubSeq(all, IF Len(all) > LogCap + 1 THEN Len(all) - LogCap ELSE 1, Len(all))

(* _progress: append a line, keep the last LogCap.                         *)
Logged(log, line) ==
  LET all == Append(log, line)
  IN  SubSeq(all, IF Len(all) > LogCap THEN Len(all) - LogCap + 1 ELSE 1, Len(all))

Goto(w, at, n) == worker' = [worker EXCEPT ![w].at = at, ![w].phase = n]

(* Mutant: the results of the analysis before stay.                        *)
Begin_KeepsResults(w) ==
  /\ worker[w].at = "begin"
  /\ job' = [status |-> "running", phase |-> 1, phases |-> AtPhase(1), log |-> <<>>,
             results |-> job.results, error |-> FALSE, project |-> worker[w].project,
             outputDir |-> DirOf[worker[w].project]]
  /\ Goto(w, "enter", 1)
  /\ failed' = FALSE
  /\ UNCHANGED <<request, readBack, disk, ir, overlap>>

(* The _set at the top of _run_pipeline.                                   *)
Begin(w) ==
  /\ worker[w].at = "begin"
  /\ job' = [status |-> "running", phase |-> 1, phases |-> AtPhase(1), log |-> <<>>,
             results |-> {}, error |-> FALSE, project |-> worker[w].project,
             outputDir |-> DirOf[worker[w].project]]
  /\ Goto(w, "enter", 1)
  /\ failed' = FALSE
  /\ UNCHANGED <<request, readBack, disk, ir, overlap>>

(* Mutant: each phase starts the phase statuses over.                      *)
Enter_StartsOver(w) ==
  LET n == worker[w].phase IN
  /\ worker[w].at = "enter"
  /\ job' = [job EXCEPT !.phase = n, !.phases = AtPhase(1)]
  /\ Goto(w, "run", n)
  /\ UNCHANGED <<request, readBack, disk, ir, failed, overlap>>

(* The _set before a phase; the first one repeats the phase statuses.      *)
Enter(w) ==
  LET n == worker[w].phase IN
  /\ worker[w].at = "enter"
  /\ job' = [job EXCEPT !.phase = n, !.phases = IF n = 1 THEN AtPhase(1) ELSE @]
  /\ Goto(w, "run", n)
  /\ UNCHANGED <<request, readBack, disk, ir, failed, overlap>>

(* A phase reports progress any number of times while it runs.             *)
Progress(w) ==
  /\ worker[w].at = "run"
  /\ job' = [job EXCEPT !.log = Logged(@, w)]
  /\ UNCHANGED <<request, worker, readBack, disk, ir, failed, overlap>>

Directory(w) == DirOf[worker[w].project]

Write(w, made) == disk' = [disk EXCEPT ![Directory(w)][worker[w].phase] = made]

(* Phase 1 reads the project, phase 4 joins what the others have made.     *)
Joined(w) ==
  IF worker[w].phase = 1 THEN {worker[w].project}
  ELSE UNION {disk[Directory(w)][k] : k \in 1..3}

RunPhase(w) ==
  /\ worker[w].at = "run" /\ worker[w].phase \in {1, 4}
  /\ Write(w, Joined(w))
  /\ Goto(w, "mark", worker[w].phase)
  /\ UNCHANGED <<job, request, readBack, ir, failed, overlap>>

(* Phases 2 and 3 run a compiler for each of the directory's compile       *)
(* commands.  Of some it makes a file (fresh); where it fails, a file of   *)
(* an earlier analysis may lie in the same place (kept).                   *)
Compile(w, fresh, kept) ==
  LET d == Directory(w)  n == worker[w].phase IN
  /\ worker[w].at = "run" /\ n \in {2, 3}
  /\ fresh \subseteq disk[d][1] /\ kept \subseteq ir[d][n]
  /\ ir' = [ir EXCEPT ![d][n] = @ \cup fresh]

(* Without any bitcode file phase 3 raises.                                *)
RunCompilers(w) ==
  LET d == Directory(w) IN
  /\ \E fresh, kept \in SUBSET Project :
       /\ Compile(w, fresh, kept)
       /\ worker[w].phase = 3 => fresh \cup kept # {}
       /\ Write(w, fresh \cup kept)
       /\ failed' = (failed \/ fresh # disk[d][1] \/ kept # {})
       /\ failed' => Unnoticed
  /\ Goto(w, "mark", worker[w].phase)
  /\ UNCHANGED <<job, request, readBack, overlap>>

(* The _set after a phase.                                                 *)
Mark(w) ==
  LET n == worker[w].phase IN
  /\ worker[w].at = "mark"
  /\ job' = [job EXCEPT !.phases = AtPhase(n + 1)]
  /\ IF n = 4 THEN Goto(w, "finish", 4) ELSE Goto(w, "enter", n + 1)
  /\ UNCHANGED <<request, readBack, disk, ir, failed, overlap>>

(* Read report.md and dead_features.json back, without the lock.           *)
ReadBack(w) ==
  /\ worker[w].at = "finish"
  /\ readBack' = [readBack EXCEPT ![w] = disk[DirOf[worker[w].project]][4]]
  /\ Goto(w, "publish", 4)
  /\ UNCHANGED <<job, request, disk, ir, failed, overlap>>

(* The last _set: publish what was read.                                   *)
Publish(w) ==
  /\ worker[w].at = "publish"
  /\ job' = [job EXCEPT !.status = "done", !.phase = 4, !.results = readBack[w]]
  /\ Goto(w, "ended", 4)
  /\ UNCHANGED <<request, readBack, disk, ir, failed, overlap>>

(* Setting up the pipeline, a phase or reading the results back raises: an *)
(* artifact may or may not have been written before.                       *)
Fail(w) ==
  /\ worker[w].at \in {"enter", "run", "finish"}
  /\ worker[w].at = "enter" => worker[w].phase = 1
  /\ Goto(w, "failed", worker[w].phase)
  /\ \/ UNCHANGED <<disk, ir>>
     \/ worker[w].at = "run" /\ worker[w].phase \in {1, 4} /\ Write(w, Joined(w)) /\ UNCHANGED ir
     \/ \E fresh, kept \in SUBSET Project :
          Compile(w, fresh, kept) /\ (Write(w, fresh \cup kept) \/ UNCHANGED disk)
  /\ UNCHANGED <<job, request, readBack, failed, overlap>>

(* Mutant: the handler leaves the status alone.                            *)
ReportError_KeepsStatus(w) ==
  /\ worker[w].at = "failed"
  /\ job' = [job EXCEPT !.error = TRUE]
  /\ Goto(w, "logError", worker[w].phase)
  /\ UNCHANGED <<request, readBack, disk, ir, failed, overlap>>

(* The handler: status first, then the log line.                           *)
ReportError(w) ==
  /\ worker[w].at = "failed"
  /\ job' = [job EXCEPT !.status = "error", !.error = TRUE]
  /\ Goto(w, "logError", worker[w].phase)
  /\ UNCHANGED <<request, readBack, disk, ir, failed, overlap>>

LogError(w) ==
  /\ worker[w].at = "logError"
  /\ job' = [job EXCEPT !.log = Logged(@, w)]
  /\ Goto(w, "ended", worker[w].phase)
  /\ UNCHANGED <<request, readBack, disk, ir, failed, overlap>>

-----------------------------------------------------------------------------
Serve(r) ==
  \/ \E p \in Project : AnalyzeCheck(r, p)
  \/ \E w \in Worker : AnalyzeStart(r, w)
  \/ ResetCheck(r)
  \/ ResetApply(r)

(* Progress is a step of its thread but takes it nowhere.                  *)
Work(w) ==
  \/ Begin(w) \/ Enter(w) \/ RunPhase(w) \/ RunCompilers(w) \/ Mark(w) \/ ReadBack(w)
  \/ Publish(w) \/ Fail(w) \/ ReportError(w) \/ LogError(w)

Next ==
  \/ \E r \in Request : Serve(r)
  \/ \E w \in Worker : Work(w) \/ Progress(w)

Spec == Init /\ [][Next]_vars

(* A started thread runs, and the tools its phases call come back.  Nobody *)
(* has to send a request.                                                  *)
FairSpec == Spec /\ \A w \in Worker : WF_vars(Work(w))
-----------------------------------------------------------------------------
Stages == {"unborn", "begin", "enter", "run", "mark", "finish", "publish",
           "failed", "logError", "ended"}

Job == [status : {"idle", "running", "done", "error"}, phase : 0..4,
        phases : [Phase -> {"idle", "running", "done"}], log : Seq(Worker),
        results : SUBSET Project, error : BOOLEAN,
        project : Project \cup {None}, outputDir : Dir \cup {SeedDir, None}]

(* Types of the job and of everything that works on it; the log never      *)
(* outgrows its cap.                                                       *)
TypeOK ==
  /\ job \in Job
  /\ Len(job.log) <= LogCap
  /\ request \in [Request -> [at : {"free", "analyze", "reset"},
                              project : Project \cup {None}]]
  /\ worker \in [Worker -> [at : Stages, phase : 0..4,
                            project : Project \cup {None}]]
  /\ readBack \in [Worker -> SUBSET Project]
  /\ disk \in [Dir -> [Phase -> SUBSET Project]]
  /\ ir \in [Dir -> [{2, 3} -> SUBSET Project]]
  /\ failed \in BOOLEAN /\ overlap \in BOOLEAN

Running(w) == worker[w].at \in {"enter", "run", "mark", "finish", "publish", "failed"}

(* An analysis that nothing else overlaps has the job to itself, from the  *)
(* lock-protected updates of a dozen separate steps: the job says running  *)
(* exactly while it runs, shows its project and its log lines and nothing  *)
(* of the analysis before, and when it is done the results are made from   *)
(* that project's sources alone, whatever was left in the directory -- but *)
(* for a compiler that fails, which may put another project in its place.  *)
SoloIsConsistent ==
  ~overlap =>
    /\ job.status = "running" <=> \E w \in Worker : Running(w)
    /\ \A w \in Worker : Running(w) =>
         /\ job.project = worker[w].project
         /\ job.results = {} /\ ~job.error
         /\ \A i \in 1..Len(job.log) : job.log[i] = w
    /\ job.status = "done" /\ ~failed => job.results \subseteq {job.project}

(* A job is not shown as done without results to show, once an analysis    *)
(* has begun, however analyses and resets interleave.                      *)
DoneHasResults ==
  (\E w \in Worker : worker[w].at \notin {"unborn", "begin"}) =>
    (job.status = "done" => job.results # {})

(* While one analysis runs undisturbed a finished phase stays finished: the*)
(* web page starts loading a phase's artifacts when it turns done.         *)
PhasesOnlyAdvance ==
  [][~overlap' /\ job.status = "running" /\ job'.status = "running" =>
       \A n \in Phase : job.phases[n] = "done" => job'.phases[n] = "done"]_vars

(* The job does not stay running for ever, whichever step raises and       *)
(* however many analyses overlap.                                          *)
NotStuckRunning == job.status = "running" ~> job.status # "running"
-----------------------------------------------------------------------------
(* To those who look at the job from outside the server is the JobView:    *)
(* running phases, files, directories and the read-back are hidden.        *)
StageShown(w) ==
  CASE worker[w].at = "begin" -> "started"
    [] worker[w].at \in {"enter", "run", "mark", "finish", "publish"} -> "running"
    [] OTHER -> worker[w].at

PhasesDone(w) ==
  CASE worker[w].at \in {"enter", "run", "mark"} -> worker[w].phase - 1
    [] worker[w].at \in {"finish", "publish"} -> 4
    [] OTHER -> 0

View == INSTANCE JobView WITH
  shown   <- [status |-> job.status, phases |-> job.phases, log |-> job.log,
              results |-> job.results],
  request <- [r \in Request |-> request[r].at],
  thread  <- [w \in Worker |-> [at |-> StageShown(w), done |-> PhasesDone(w)]]

(* The job as the web page sees it changes only as JobView says, and with  *)
(* the threads' fairness its analyses end, in results or in an error.      *)
ImplementsView == View!FairSpec
-----------------------------------------------------------------------------
(* app.py:35 says that one analysis runs at a time.                        *)
SingleJob == \A v, w \in Worker : Running(v) /\ Running(w) => v = w
=============================================================================
