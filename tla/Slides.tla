------------------------------- MODULE Slides -------------------------------
(***************************************************************************)
(* templates/index.html: whose artifacts the page shows on its slides.     *)
(*                                                                         *)
(* Slides are filled by loads, functions that wait for answers in between: *)
(* loadProjectArtifacts when the page opens and when a project is chosen,  *)
(* onPhaseComplete when a poll finds a phase done.  Any number may be      *)
(* under way; all write the one S.artifacts and the same slides.  What     *)
(* api_artifacts returns depends on what the server has on disk by then.   *)
(*                                                                         *)
(* How analyses start and polls go is in WebClient: here an analysis is    *)
(* the phases it has finished, and a poll sees how many these are.  The    *)
(* call graph under slide 3 is left out.                                   *)
(***************************************************************************)
EXTENDS Naturals, FiniteSets

CONSTANTS
  Project,    \* projects in the list, each with a directory of its own
  Seed,       \* the directory given with --output-dir, or DEFAULT_OUTPUT
  None,       \* no artifact, no project
  Load,       \* loads under way at a time
  Last,       \* the last phase, 4 in the code
  Before,     \* how many phases were finished before the server started
  Analyses,   \* how many analyses are made
  Choices     \* how often the user chooses a project

Phase == 1..Last
Dir   == Project \cup {Seed}

(* An artifact: whose it is, and which analysis it is from.                *)
Artifact == [of : Project, by : 0..Analyses]

ASSUME SlidesAssumption ==
  /\ Seed \notin Project
  /\ None \notin Dir \cup Artifact \cup {"project", "analysis"}
  /\ Last \in Nat \ {0} /\ Before \subseteq 0..Last
  /\ Analyses \in Nat /\ Choices \in Nat

VARIABLES
  disk,     \* the artifacts in each output directory
  job,      \* its output directory, Seed while it has none of its own (app.py:266),
            \* whether and in which phase an analysis runs
  page,     \* S.artifacts, the slides, the results, the phases seen done
  load,     \* the loads
  shows     \* history: what the user's last action was, if nothing else was
            \* under way then and no request has failed since

vars == <<disk, job, page, load, shows>>

Nothing == [n \in Phase |-> None]
NoLoad  == [at |-> "free", project |-> None, n |-> 0, arts |-> Nothing, own |-> TRUE,
            answer |-> Nothing]

Over == Last + 1
Quiet == \A k \in Load : load[k].at = "free"

ProjectLoad(p) == [NoLoad EXCEPT !.at = "project", !.project = p]
PhaseLoad(n)   == [NoLoad EXCEPT !.at = "phase", !.n = n]

(* The server has started, and the page opens: it loads the first project  *)
(* of its list and, not waiting for that, the one of the job.  Directories *)
(* hold all of an analysis, its first phases, or nothing; Seed what run.sh *)
(* has made of any project, the one given with --output-dir or not.        *)
Init ==
  \E upTo \in [Dir -> Before], seeded, first \in Project :
    \E next \in {seeded, first} :
      /\ disk = [d \in Dir |-> [n \in Phase |->
                  IF n > upTo[d] THEN None
                  ELSE [of |-> IF d = Seed THEN seeded ELSE d, by |-> 0]]]
      /\ job = [dir |-> Seed, running |-> FALSE, phase |-> 0, count |-> 0]
      /\ \E j, k \in Load :
           /\ j # k
           /\ load = [[l \in Load |-> NoLoad] EXCEPT
                ![j] = ProjectLoad(first), ![k] = ProjectLoad(next)]
      /\ page = [artifacts |-> Nothing, slide |-> Nothing, results |-> None, seen |-> 0,
                 selected |-> next, choices |-> 0]
      /\ shows = None

-----------------------------------------------------------------------------
(* S.artifacts is the very object that the load of a project has put there,*)
(* and stays it until another object takes its place: what is merged into  *)
(* the one is in the other.                                                *)
Held(k) == IF load[k].own THEN load[k].arts ELSE page.artifacts

Replaced == [k \in Load |-> [load[k] EXCEPT !.arts = Held(k), !.own = TRUE]]

(* The user.                                                               *)
(* onPathSelect                                                            *)
Select(p, k) ==
  /\ load[k].at = "free" /\ page.choices < Choices
  /\ load' = [load EXCEPT ![k] = ProjectLoad(p)]
  /\ page' = [page EXCEPT !.selected = p, !.choices = @ + 1]
  /\ shows' = IF Quiet /\ ~job.running THEN "project" ELSE None
  /\ UNCHANGED <<disk, job>>

(* startAnalysis of the chosen project, and the start of _run_pipeline.    *)
Analyze ==
  /\ ~job.running /\ job.count < Analyses
  /\ job' = [dir |-> page.selected, running |-> TRUE, phase |-> 1, count |-> job.count + 1]
  /\ page' = [page EXCEPT !.artifacts = Nothing, !.slide = Nothing, !.results = None, !.seen = 0]
  /\ load' = Replaced
  /\ shows' = IF Quiet THEN "analysis" ELSE None
  /\ UNCHANGED disk

-----------------------------------------------------------------------------
(* The server.                                                             *)
WriteArtifact ==
  /\ job.running
  /\ LET made == [of |-> job.dir, by |-> job.count] IN
       disk[job.dir][job.phase] # made /\ disk' = [disk EXCEPT ![job.dir][job.phase] = made]
  /\ UNCHANGED <<job, page, load, shows>>

PhaseDone ==
  /\ job.running
  /\ disk[job.dir][job.phase] = [of |-> job.dir, by |-> job.count]
  /\ job' = [job EXCEPT !.phase = @ + 1, !.running = job.phase < Last]
  /\ UNCHANGED <<disk, page, load, shows>>

AnalysisFails ==
  /\ job.running
  /\ job' = [job EXCEPT !.running = FALSE]
  /\ UNCHANGED <<disk, page, load, shows>>

(* api_artifacts reads what there is.  A file that the running phase is    *)
(* writing may be cut short, no JSON, and left out.                        *)
InDirectory(d, torn) ==
  [n \in Phase |-> IF torn /\ job.running /\ d = job.dir /\ n = job.phase THEN None
                   ELSE disk[d][n]]

(* Mutant: for a project, too, the directory of the job.                   *)
Asked_Job(k) == job.dir

(* The directory of the project asked for, of the job if none is.          *)
Asked(k) == IF load[k].at = "project" THEN load[k].project ELSE job.dir

api_artifacts(k) ==
  /\ load[k].at \in {"project", "phase"}
  /\ \E torn \in BOOLEAN :
       load' = [load EXCEPT ![k].at = IF @ = "project" THEN "projectAnswered" ELSE "phaseAnswered",
                            ![k].answer = InDirectory(Asked(k), torn)]
  /\ UNCHANGED <<disk, job, page, shows>>

-----------------------------------------------------------------------------
(* The page's code.                                                        *)

(* poll starts onPhaseComplete for each phase that has turned done.        *)
PhaseSeen(k) ==
  /\ load[k].at = "free"
  /\ page.seen + 1 < job.phase
  /\ load' = [load EXCEPT ![k] = PhaseLoad(page.seen + 1)]
  /\ page' = [page EXCEPT !.seen = @ + 1]
  /\ UNCHANGED <<disk, job, shows>>

(* poll finds the analysis done and shows the results it was answered.     *)
ResultsSeen ==
  /\ job.phase = Over /\ page.seen = Last /\ page.results = None
  /\ page' = [page EXCEPT !.results = disk[job.dir][Last]]
  /\ UNCHANGED <<disk, job, load, shows>>

(* Mutant: phases that are not there are gone through as well.             *)
Left_All(arts, n) == {m \in Phase : m >= n}

(* The phases an object of artifacts has something for, from n on.         *)
Left(arts, n) == {m \in Phase : m >= n /\ arts[m] # None}
First(phases) == CHOOSE m \in phases : \A l \in phases : m <= l

(* A load of a project waits for its next phase, or ends.                  *)
Continue(before, k, arts, n, own) ==
  load' = [before EXCEPT ![k] =
    IF Left(arts, n) = {} \/ load[k].project = None THEN NoLoad
    ELSE [PhaseLoad(First(Left(arts, n))) EXCEPT
            !.project = load[k].project, !.own = own, !.arts = IF own THEN arts ELSE Nothing]]

(* loadProjectArtifacts has its first answer.                              *)
ProjectLoaded(k) ==
  LET arts == load[k].answer IN
  /\ load[k].at = "projectAnswered"
  /\ \/ /\ arts = Nothing
        /\ page' = [page EXCEPT !.slide = Nothing, !.results = None]
        /\ load' = [load EXCEPT ![k] = NoLoad]
     \/ /\ arts # Nothing
        /\ page' = [page EXCEPT !.artifacts = arts]
        /\ Continue(Replaced, k, arts, 1, FALSE)
  /\ UNCHANGED <<disk, job, shows>>

(* Mutant: artifacts that are there already are kept.                      *)
Merge_Keep(arts, answer) == [n \in Phase |-> IF arts[n] # None THEN arts[n] ELSE answer[n]]

(* Object.assign of loadArtifacts.                                         *)
Merge(arts, answer) == [n \in Phase |-> IF answer[n] # None THEN answer[n] ELSE arts[n]]

(* onPhaseComplete(n), the rest of it: the slide is drawn from S.artifacts *)
(* if that has something for it, and a load of a project goes on, with the *)
(* results slide in the end.                                               *)
Draw(k, artifacts) ==
  LET n    == load[k].n
      arts == IF load[k].own THEN load[k].arts ELSE artifacts
      ends == load[k].project # None /\ Left(arts, n + 1) = {} /\ arts[Last] # None
  IN  /\ page' = [page EXCEPT !.artifacts = artifacts,
                    !.slide[n] = IF artifacts[n] # None THEN artifacts[n] ELSE @,
                    !.results = IF ends THEN arts[Last] ELSE @]
      /\ Continue(load, k, arts, n + 1, load[k].own)

PhaseLoaded(k) ==
  /\ load[k].at = "phaseAnswered"
  /\ Draw(k, Merge(page.artifacts, load[k].answer))
  /\ UNCHANGED <<disk, job, shows>>

(* A request fails.  loadArtifacts goes on without, loadProjectArtifacts   *)
(* ends.                                                                   *)
Lose(k) ==
  /\ shows' = None
  /\ \/ load[k].at = "phaseAnswered" /\ Draw(k, page.artifacts)
     \/ /\ load[k].at = "projectAnswered"
        /\ load' = [load EXCEPT ![k] = NoLoad]
        /\ UNCHANGED page
  /\ UNCHANGED <<disk, job>>

-----------------------------------------------------------------------------
LoadStep(k) == api_artifacts(k) \/ PhaseSeen(k) \/ ProjectLoaded(k) \/ PhaseLoaded(k) \/ Lose(k)

Next ==
  \/ \E p \in Project, k \in Load : Select(p, k)
  \/ Analyze \/ WriteArtifact \/ PhaseDone \/ AnalysisFails \/ ResultsSeen
  \/ \E k \in Load : LoadStep(k)

Spec == Init /\ [][Next]_vars
-----------------------------------------------------------------------------
Artifacts == [Phase -> Artifact \cup {None}]

(* Types of the directories, the job, the page and the loads; a load that  *)
(* goes on to a phase's slide holds an artifact of that phase.             *)
TypeOK ==
  /\ disk \in [Dir -> Artifacts]
  /\ job \in [dir : Dir, running : BOOLEAN, phase : 0..Over, count : 0..Analyses]
  /\ page \in [artifacts : Artifacts, slide : Artifacts, results : Artifact \cup {None},
               seen : 0..Last, selected : Project, choices : 0..Choices]
  /\ load \in [Load -> [at : {"free", "project", "phase", "projectAnswered", "phaseAnswered"},
                        project : Project \cup {None}, n : 0..Last,
                        arts : Artifacts, own : BOOLEAN, answer : Artifacts]]
  /\ \A k \in Load : load[k].at \in {"phase", "phaseAnswered"} =>
       load[k].n \in Phase /\ (load[k].project # None => Held(k)[load[k].n] # None)
  /\ shows \in {None, "project", "analysis"}

(* An analysis is shown: when it is done and all loads have ended, each    *)
(* slide and the results are what this analysis has written, although the  *)
(* loads of four phases answer in any order, with artifacts of the         *)
(* analysis before, and write one S.artifacts.                             *)
AnalysisIsShown ==
  shows = "analysis" /\ job.phase = Over /\ page.seen = Last /\ Quiet =>
    /\ \A n \in Phase : page.slide[n] = [of |-> job.dir, by |-> job.count]
    /\ page.results \in {None, disk[job.dir][Last]}

(* A choice is shown: when the load of the project that was chosen has     *)
(* ended, and the directory of the job, DEFAULT_OUTPUT if it has none, is  *)
(* the project's or empty, each slide for which the project has an         *)
(* artifact shows it, the results are that project's, and of a project     *)
(* without any nothing of another one is left.                             *)
ChoiceIsShown ==
  shows = "project" /\ Quiet /\ (job.dir = page.selected \/ disk[job.dir] = Nothing) =>
    LET own == disk[page.selected] IN
    /\ \A n \in Phase : own[n] # None => page.slide[n] = own[n]
    /\ own[Last] # None => page.results = own[Last]
    /\ own = Nothing => page.slide = Nothing /\ page.results = None
=============================================================================
