# Dead Feature Detector: specifications, checks and proofs

The Dead Feature Detector (CDEL) takes a CMake project and reports `#ifdef`
branches that can be removed. Its answer is used to delete code, so the
questions this project asks are: is a HIGH finding really safe to remove, is
dead code found, does each analysis stage hand on what the next one relies on,
and does the web server show the state of the analysis the user started?

Contents: 1 the system; 2 modules and how they correspond to the code; 3 what
the runs check, with bounds and fairness; 4 what is proved; 5 disagreements with
the documentation; 6 what is not modelled; 7 the plan.

## 1. The system

```
 CMake project
   |  Phase 1  extractor/extractor.py    build_config_map.json   defines and files per target
   |  Phase 2  llvm-pass/IfdefMapper     ast_mapping.json        conditionals and their lines
   |  Phase 3  llvm-pass/DeadFeaturePass reachability.json       live functions and lines
   v  Phase 4  correlator.py             report.md, dead_features.json
 pipeline.py runs the phases; app.py runs pipeline.py in a thread and serves
 status, log and artifacts to templates/index.html, which polls.
```

| Component | State | Operations | Talks to |
|---|---|---|---|
| `extractor.py` | none beyond a run: `targets` map | `extract_defines`, `infer_target_name`, `analyze_compile_commands`, `write_output` | runs CMake; read by Phases 2 to 4 through `compile_commands.json` and `build_config_map.json` |
| `IfdefMapper.cpp` | `stack` of frames, `fileBlocks` | hooks `Ifdef` `Ifndef` `If` `Elif` `Else` `Endif`, flush | called back by Clang's preprocessor, once per translation unit |
| `DeadFeaturePass.cpp` | `reachable`, `worklist`, the output maps | `computeReachable`, `extractFunctionInfo`, `run` | run by `opt` on each linked module |
| `correlator.py` | list `dead` | `build_*_config_sets`, `analyze_branch`, `correlate`, the two writers | reads the three artifacts |
| `pipeline.py` | paths of artifacts; files in the output directory | `run_phase1` .. `run_phase4`, merges of Phases 2 and 3, link groups | runs compiler, linker, `opt`, the scripts |
| `app.py` | `_job` under `_lock`, request threads, background threads, artifact directories | `api_analyze`, `api_reset`, `_run_pipeline`, `_progress`, the read-only routes, seeding at start | the page, `pipeline.py` |
| `index.html` | poll timer, log offset, last status | `poll`, start, reset, slide loading | HTTP to `app.py` |
| `baseline_compare.py`, build scripts, test projects | none | measuring, building | - |

What is hard here:

- *Concurrency*: Flask serves requests on several threads; a check of the job's
  status and what follows from it are separate holdings of `_lock`; the
  background thread sets `running` by itself, some time after it was started.
- *Failure*: any phase may raise, having written an artifact or not; the next
  analysis runs in the same directory.
- *Protocol*: the plugin sees only the directives Clang calls it for, and must
  keep its stack in step with a stack it cannot see.
- *Approximation*: Phase 4 reasons about names of macros per target, not about
  what each command compiles; its claims hold under conditions nobody wrote
  down. Stating these conditions is the main result of the Correlator module.

What makes each part correct, and where it is stated:

| Part | Correct when | Stated as |
|---|---|---|
| Reachability | the set found is the least one closed under calls and the indirect-call rule; lines of live functions are reported, and no others where no text is foreign; it ends | `OnlyJustified`, `NothingMissed`, `DeadIsIsolated`, `LinesAreThoseOfLiveCode`, `Terminates`, `ImplementsClosure` |
| IfdefMapper | its stack follows the preprocessor's; blocks are those of the text; branches, one after another, tile their block; nothing seen is lost; the branches are those heard of, which are those Phase 4 works on | `Aligned`, `BlocksAreExact`, `NothingLost`, `FiledAsHeard`, `FiledAsPhase4Reads` |
| Correlator | HIGH is safe; covered code is never dead; dead code is reported, mapped or not; plainly dead code is HIGH; lines are counted once; the test projects get their documented results, as 24 of the 35 do | `HighIsSafe`, `CoveredIsAlive`, `DeadIsReported`, `DeadTextIsReported`, `PlainlyDeadIsHigh`, `SavedLinesAreDistinct`, `SuiteResults`; `AsDocumented` (violated) |
| Pipeline | a report is made from this project and one analysis, whatever was left in the directory; no source or executable is forgotten; the two readers of the commands agree | `FindingsOfThisProject`, `NothingForgotten`, `ReportOfOneAnalysis`, `ArtifactsInOrder`, `PhasesAgreeOnMacros` |
| Job server | an analysis alone shows its own state, and its own results if no compiler failed unnoticed; done means results; finished phases stay finished; never running for ever; clients see only what the view promises | `SoloIsConsistent`, `DoneHasResults`, `PhasesOnlyAdvance`, `NotStuckRunning`, `ImplementsView` |
| Web page | its log has no gap and no line twice; results are final and all phases loaded; it never waits for ever, unless a POST failed; the slides show the analysis or the project that was chosen | `LogIsFaithful`, `ResultsAreFinal`, `NotStuckWaiting`, `AnalysisIsShown`, `ChoiceIsShown` |

## 2. Modules

### LLVMModule, CallGraphClosure, Reachability: `DeadFeaturePass.cpp`

`LLVMModule` is what the pass can see of a module (definitions, entry points,
direct callees, indirect calls, taken addresses, debug locations) and the
reference answer: `Reasons(m, S)` are the definitions that must be live once
those in `S` are, and `Live(m)` is what is in every set closed under it.
`Reachability` is the code:

| Action | Code |
|---|---|
| `Seed` | the loop over `main` and external linkage |
| `Visit` | one turn of either `while (!worklist.empty())` |
| `AddAddressTaken`, `NoIndirectCall` | the scan for an indirect call, then the address-taken functions or none |
| `SecondSearchOver` | the end of the second search |
| `Emit` | `run`: partition, `extractFunctionInfo` for each reachable function, `writeJSON` |

`worklist` is a set where the code has a FIFO queue: any waiting function may be
visited next, so the results hold for every order, the code's included. Lines
are filed under the file of the function's own subprogram, or, if it has none, of its
first debug location (`FileOf`), as the code does: text included into a body marks lines
of the wrong file. `LinesAreOfLiveCode` says where the damage stays: in the files of live
functions that have such text (`OwnText`).
`CallGraphClosure` is the abstract promise: functions join for a reason, and the
answer is announced only when none has a reason left. `Reachability` implements
it with `live <- reachable` and `done <- (pc = "done")`.

### Preprocessor, IfdefMapper: `IfdefMapper.cpp`

`Preprocessor` is external: Clang's reading of a unit, with an include stack, a
conditional stack, skipped text, and the rule that decides which directives reach a hook.
An open conditional has `took`, the line of its compiled arm. Conditions may turn out
either way, so a run covers every set of flags. Every action of `IfdefMapper` conjoins a
preprocessor step with the plugin's hook: `Opening` (`Ifdef`, `Ifndef`, `If`: sentinel or
block), `NextBranch` (`Elif`, `Else`), `EndifOfSentinel`, `EndifOfBlock` (`closeTopBranch`
and `popBlock`), `ElifdefIgnored` (hooks the plugin does not override), `Unheard` (no hook
called) and `Flush`. A condition's text is not kept: it is the text on the line a branch
starts at. `HeardArms` is the reference for the branches: computed from the text and
`took`, while the code collects them as hooks come in, with nested conditionals and
headers in between.

### BuildConfig, Correlator: `correlator.py`, with its inputs

A *world* is a project: the compile commands with their flags, the `#include` relation,
the conditionals in the text, and the reachable lines. From it `BuildConfig` derives what
Phase 1 writes (`TargetDefines`, `FileConfigs`), what Phase 2 records for one command
(`Recorded`; that IfdefMapper files just this is checked by `FiledAsPhase4Reads` and
proved as `PhasesAgree`) and what the compiler really compiles (`Compiled`), against which
findings are judged. `ast_mapping` is Phase 2's merge: the last command that reads a file
decides its blocks. The conditionals of a text are nested or apart and end in their only
else, if any (`WellFormed`, `Apart`): Clang accepts no other text. `Analyze` is one branch
in `correlate`'s loops with the whole of `analyze_branch`; `Write` is both writers. `todo`
is a set because the findings are sorted afterwards. The reachable lines are any lines,
since Phase 3 may misfile some. `LinesAreCompiled` (each is compiled by some command) is
what `LinesAreOfLiveCode` promises for files without foreign text; `CoveredIsAlive`,
`DeadIsReported` and `DeadTextIsReported` assume it, as a line wrongly called reachable
makes a dead branch look alive. HIGH findings are safe, and plainly dead branches HIGH,
without it. A line that is compiled but not reported stands for code that no function live
in Phase 3 contains.

Claims about findings hold in a *plain world*, the conditions the code relies on:
every file of a target is compiled with the same macro names (`UniformTargets`);
conditions test one macro's presence, and macros are not defined as 0
(`PresenceConditions`); a source that is compiled is not also included
(`OnlyHeadersIncluded`); no header defines a macro that conditions test
(`MacrosFromCommands`). Without one of the first two or the last, `HIGH` may be wrong
(section 5). `DeadIsReported`, `DeadTextIsReported` and `TypeOK` need none of these four.

`Testcases` has the test projects under `testcases/` and the dummy project as worlds:
their conditionals and functions by line, their calls, the macros of their
`CMakeLists.txt`. The reachable lines are not taken from anywhere but worked out:
the functions a command compiles, linked into programs as `LinkGroups` says, through
`LLVMModule`'s rule. `Documented` is what EVALUATION.md says is found, for every project
and as it says it. `SuiteResults` holds the code to it for the 24 projects that get just
that (`AsEvaluated`). `Evaluation` runs the tool over all 35, one after the other, and
puts down what it reports (`PutDown`); that this is `AsDocumented` is what TLC finds
violated (section 5).

### CommandLine, LinkGroups, Pipeline: `pipeline.py`, `extractor.py`

`Pipeline` is analysis after analysis in one output directory. `disk` is the
directory, each artifact with the number of the analysis that wrote it and what went
into it; `run` is where the analysis is, with the locals of the phase.

| Action | Code |
|---|---|
| `Start`, `Crash`, `Edit` | a new `DeadFeaturePipeline`; its process ends; the user changes commands or sources, or deletes a source |
| `run_phase1`, `Raise` | `run_phase1`; a checked exit status or an unreadable file, in any phase |
| `SkipMissing`, `MapSource`, `WriteMapping` | the loop of `run_phase2` turn by turn, with a compiler that may fail unnoticed and leave `ast_i.json` as it was; the merged file |
| `CompileSource`, `GroupPrograms` | the loop of `run_phase3`, with a `src_i.bc` that may stay as it was, vanish or never exist; the sorting into programs |
| `LinkAndAnalyze`, `WriteReachability` | `llvm-link`, the pass and the union-merge for one program, in any order; the merged file |
| `WriteReport`, `WriteFindings` | the two writers of `correlator.py`, in their order |

`CommandLine` is how the two readers of `compile_commands.json` take arguments
apart: `extract_defines` and `infer_target_name` of the extractor, `parse_entry_flags`
of the pipeline, over `-DX`, `-D X`, `/DX`, `-U`, `-o`. `LinkGroups` is the rule for
programs, one per `main` with every file that has none; Correlator's test projects
use it too. A failing compiler is modelled by what it can leave behind: the plugin
writes at the end of the unit, so the old file stays; `-o` may be removed or not.

### JobServer: `app.py`

`job` is `_job` (`results` stands for `summary`, `report_md` and
`dead_features`, as the set of projects whose sources went into them). A step is one
holding of `_lock`, or one phase between two of them:

| Action | Code |
|---|---|
| `AnalyzeCheck`, `AnalyzeStart` | `api_analyze` before and after it lets go of the lock |
| `ResetCheck`, `ResetApply` | `api_reset`, likewise |
| `Begin` | the `_set` at the top of `_run_pipeline` |
| `Enter`, `Mark` | the `_set` before a phase and the one after it |
| `RunPhase`, `RunCompilers` | Phases 1 and 4; Phases 2 and 3, which run a compiler for each command |
| `Progress` | `_progress`, any number of times in a phase |
| `ReadBack`, `Publish` | reading the results back without the lock (`readBack` holds the thread's locals), then the last `_set` |
| `Fail`, `ReportError`, `LogError` | an exception, with or without the phase's artifact written, and the two steps of the handler |
| `Init` | a plain start, or one seeded by `--output-dir`, whose directory may be empty |

A file is the set of projects whose sources went into it. Phase 1 makes its artifact from
the worker's project, Phase 4 from the three in the directory. Phases 2 and 3 go by the
compile commands there; of some the compiler makes a file (`fresh`), and where it fails,
the `ast_i.json` or `src_i.bc` of an earlier analysis may be taken instead (`kept`, from
`ir`). Projects whose paths end in the same name share a directory, so this file may be of
the other project. That CMake refuses a build directory that another source tree has
made, which would keep the two apart most of the time, is not in the model: it allows more
than happens. `failed` is a history variable, true once a compiler failed in the analysis
that began last, and `Unnoticed` bounds a run to analyses in which none does. `overlap`
is another: it becomes true when an analysis starts or a reset is applied while another
analysis is alive.

Abstractions: report and findings are one artifact, written and read back in one
step each (in the code an overlapping analysis could replace one file between the
two reads); `api_analyze` is given existing projects and no `output_dir` of its own; a
result that is published is nonempty because a project's sources went into it.

### JobView, WebClient: the server's promise, and the page that relies on it

`JobView` is the server for those who poll it: status, phases, log and results, and
how far each thread is. No phase is run and no file touched. `JobServer` implements
it (`ImplementsView`): `StageShown` and `PhasesDone` map a worker to the view's
thread; running a phase, reading back and the exception itself are stutters or
`Fail`. The mapping carries `WF(Work)` over, so the refinement includes liveness.

`WebClient` extends the view with one page: `page` has the fields of `S` that matter
(`timer`, `logOffset`, `lastStatus`, `lastPS`) and what is on the screen.

| Action | Code |
|---|---|
| `ClickAnalyze`, `AnalyzeReturns`, `AnalyzeRefused`, `AnalyzeLost` | `startAnalysis` up to its `fetch`, and after it was answered, refused or has failed |
| `ClickReset`, `ResetReturns`, `ResetLost` | `resetJob`, likewise |
| `Tick`, `Apply`, `Lose` | the interval timer; `poll` once both answers are there; a request that fails |
| `api_status`, `api_log` | the two routes, each at its own moment, in either order |
| `ServePost`, `ServerWork`, `ServerReport` | JobView's actions, with what was really logged in `written` |

The two POSTs go their own ways, `post` and `clear`: while a reset waits for its answer the
Analyze button can be pressed, and what `resetJob` does after its `fetch` then comes into
the new analysis. A `fetch` that is rejected leaves everything as it was before it, the
button disabled included (`lost`).

`orderly` is a history variable for what the page does not guard against: polls that
overlap, an answer from before the analysis began, an analysis or a reset left over from
before, a timer that a late answer set running again before the click, a POST that failed.
The properties about log and results hold while it is true; section 5 says what happens
otherwise. `NotStuckWaiting` needs no such condition, but promises nothing once a POST that
failed has left the button disabled.

### Slides: whose artifacts are on the slides

`Slides` takes analyses as the phases they have finished and models the *loads*:
`loadProjectArtifacts` when the page opens and on a choice, `onPhaseComplete` when a poll
sees a phase done. A load waits for an answer (`api_artifacts`), and others run
meanwhile; all write `S.artifacts`. `ProjectLoaded`, `PhaseLoaded` and `Lose` are the
code after an `await`. The object `S.artifacts` may be the very one a load is going
through: `Held` and `Replaced` follow that aliasing. `Select`, `Analyze`, `PhaseSeen`
and `ResultsSeen` are `onPathSelect`, `startAnalysis` and the two parts of `poll`.

`Seed` is the directory given with `--output-dir`, or `DEFAULT_OUTPUT`, which `run.sh`
fills and to which the server turns for a job that has none (app.py:266). It holds
artifacts of some project, or none. The page opens with two loads under way, of the first
project in its list and of the job's. Slide 3 waits for a second answer, the call graph,
between being drawn and the next step of its load: the two are one step here.

## 3. Runs

| Run | Shows | Instance and why it is enough |
|---|---|---|
| `Reachability` | the set is exact, the refinement and termination hold | four functions, every graph in which a function calls none, one or two others (recursion and cycles included), 0 to 2 entry points, d a definition or a declaration, indirect calls, taken addresses and a function without subprogram varied; about 637,000 states. Four functions suffice for the longest dependency: an entry, a function found by the first search, one whose address is taken, one that only it calls and that calls indirectly itself. The theorems cover all sizes |
| `IfdefMapper` | stack alignment, exact blocks, and the agreement with Phase 4 | every well-nested main file of five lines over eight directives, with one of two user headers and a system header that has conditionals, all outcomes of conditions; about 251,000 states. For Phase 4, the condition of each branch is a macro named like its line, and the flags are those under which the compiled branch is the first true one. Five lines hold a nested conditional, an elif chain with else, and headers included inside one |
| `Correlator` | the claims about findings | one or two targets, a source with an outer block (three kinds, three tails) and an inner one, a header read by one or two sources, all sets of two macros (of one for a second source), any lines reachable, compiled or not; and the 34 test projects that link, of which 24 are held to their documented results; about 528,000 states |
| `Pipeline` | what a report is made from | two analyses; four projects of up to three commands (executables sharing a library; reordered, edited, one source gone; no executable; two targets compiling one file), each of which may turn into any other between or during the analyses; one failing compiler per analysis; about 2,278,000 states. The second analysis finds what the first left at every point where that can end |
| `JobServer` | consistency of one analysis, results, phase order | two projects sharing an output directory, two request threads, two analyses, LogCap = 1 (the cut happens at the second line), compilers failing for any of the commands (`Unnoticed`); about 1,632,000 states. Two threads are what every race here takes, and a second analysis finds what the first, of either project, has left. Request threads, workers and projects are symmetric (`Interchangeable`) |
| `JobLiveness` | never running for ever; the server implements its view | one project, two requests, two analyses, no unnoticed failure, which changes neither the status nor the view; about 167,000 states; no symmetry, since these are temporal properties |
| `WebClient` | log, results and waiting of the page | one page, two analyses, two requests at the server (so that a reset and an analysis meet there), POSTs that fail, a log of two lines kept (so that a third is cut, by the error message), one poll in flight at a time whose two answers come in either order or not at all; about 541,000 states |
| `Slides` | whose artifacts are shown | two projects and the default directory, each with all phases or none, the two loads the page opens with, one analysis, one choice, two loads at a time; two phases stand for the four, since a load goes from a phase to the next the same way each time; about 2,315,000 states. Projects and loads are symmetric, and states that differ only in what nobody reads any more count once (the view `WhatMatters`) |
| `ReachCallbacks`, `CorrPerFileDefines`, `JobTwoAtOnce`, `Evaluation` | a statement of the documentation or of a comment that the code does not keep | section 5 |

Bounds: `Function`, `File`, `Texts`, `Worlds`, `Modules` and `Projects` are inputs.
`Worker` bounds the analyses that can be started in one behaviour, through
`ThreadsLeft`; `Analyses` those of Pipeline and Slides, `MaxFailed` the compilers that
fail in one, `MaxCommands` the commands; a project is edited at most once from the
start of an analysis to the next start; `LogCap` is the code's 500; `MaxLines` bounds
the lines written in WebClient, besides error messages; `MayClick` lets its user
click between analyses and in the first phase of one, there with no reset pending, and
`SlowReset` keeps phases from ending while one is; `Unnoticed` is above; `Choices` bounds
the choices of Slides; `MaxLen` is the length of the main file. No other counter is cut.

Polls that overlap are beyond the run of WebClient with two analyses; with one
(`Worker = {w1}`, `Poll = {k1, k2}`, `LogCap = MaxLines = 1`: 416,318 states, three
minutes) the same properties hold.

Deadlock is checked for the job server, where a request or an analysis is always
possible until the workers are used up and a reset is possible afterwards. It is
off for the pass, the plugin, the correlator and the pipeline, which are programs
that end, and for the page, whose user may stop clicking.

Fairness: `FairSpec` of Reachability is `WF_vars(Next)`: one thread that never
waits. `FairSpec` of JobServer is weak fairness of each worker's `Work`: a
started thread is scheduled, never blocks on anything but a lock held briefly,
and the external tools it calls come back or fail. Requests are not fair: nobody
has to send one. `Progress` is not part of `Work`, so a phase that only logs
satisfies no fairness condition. `JobView` has the same condition on its own `Work`.
`WFairSpec` of WebClient adds weak fairness of the server's answers, of the interval
timer and of a POST that is pending, which is answered or fails, and strong fairness of
`Apply`: polls may get lost, but not each one, or nothing could be promised. Clicks are not
fair.

Each property of a passing run has a mutant: a plausible slip in one operator
(named `<operator>_<slip>` and placed before it) under which TLC finds the
property violated, for instance a sentinel that is not pushed for a system
header, a second search that ends early, a left-over file that is merged, or an
error that does not stop the timer.

## 4. Proofs

TLAPS checks these for every value of the constants.

`Reachability_proofs`, from `ModulesAssumption` (the modules are well formed):

- `TypeCorrect`: `Spec => []TypeOK`.
- `Precise`, `Complete`: `Spec => []OnlyJustified`, `Spec => []NothingMissed`.
- `DeadSeparated`: `Spec => []DeadIsIsolated`.
- `LiveLinesAreReported`, `ReportedLinesAreLive`, and both as `LinesStayThoseOfLiveCode`:
  `Spec => []LinesAreThoseOfLiveCode`.
- `Refinement`: `Spec => ImplementsClosure`.

None of the properties is inductive. The invariant `IInv` adds what each stage
has settled: the callees of a visited function are reached (`VisitedDone`); after
`Seed` the entry points are, in the second search every address-taken definition
is, and at the end the worklist is empty and the set closed (`Phases`); the output
is a partition of the definitions (`JsonIsPartition`). The step that matters is
the last: when the second search is over, a function it found may call indirectly
itself, and the set is still closed because the address-taken functions are in it
already, so one scan suffices. `LiveIsLeast` and `LiveIsClosed` then give both
inclusions. The refinement maps `Visit` and the other steps that reach functions
to `Grow`, `Emit` to `Announce`, and the rest to stutters. For the lines, the
invariant is joined by `LinesAreCollected`: at the end the lines are exactly those of the
reached functions, each under that function's file. `ReportedLinesAreLive` combines it
with `OnlyJustified`: a line comes from a reached function, that function is live, and as
its file has no foreign text the line is one of its own locations.

`IfdefMapper_proofs`, with lemmas on texts and on the preprocessor in
`Preprocessor_proofs`, from `FileAssumption` (no file is named like the word of a
directive) and `TextsAssumption` (conditionals are nested as a compiler demands); texts of
any length, includes of any depth, conditions that turn out any way:

- `MapperTyped`: `Spec => []TypeOK`.
- `StacksStayAligned`: `Spec => []Aligned`.
- `BlocksAreOfText`, `BranchesAlwaysTile`, and both as `BlocksStayExact`:
  `Spec => []BlocksAreExact`.
- `NothingIsLost`: `Spec => []NothingLost`.
- `BlocksAreAsHeard`: `Spec => FiledAsHeard`.
- `PhasesAgree`: `Spec => FiledAsRecorded`.

`MapperInv` has the preprocessor's part, `PPInv`: what is open is what the text up to
the current line leaves open, in each file of the include stack, and skipped text is a
tail of the stack. Of the plugin, each frame is of the conditional it belongs to, its
current branch started at the last arm heard and the ones before tile what lies between
(`FramesMatch`); filed blocks are whole ones of their text (`BlocksMatch`); and a
conditional is filed or on the stack as often as it was entered (`Booked`). `Aligned` is
what an `#endif` needs: it must pop the frame of the conditional it ends. It was first
stated with the list of the conditionals that were heard, which says less than it does
now, and was not what the proof needed. That the text is well nested is used through
`TopIsOwn` and `AllClosed`: an arm or `#endif` belongs to the last open conditional of
its own file, and none is open when the file ends.

`FiledAsHeard` is about a whole conditional, of which a step sees one line. `HeardInv`
carries what is known on the way (`Known`): for each open conditional, up to the line
its own file has been read to, its frame has a branch for each arm heard so far, in
order, and `took` is one of the arms so far, the last one while text is compiled
(`TookIs`). That line is another one for each file of the include stack, and a
conditional belongs to the file between whose levels it lies (`LevelKnown`); so a step
has to leave the levels of the files below it where they were, which follows from the
least level that would move (`SameBelow`). An arm is heard of if and only if the compiled
arm has not ended before it: `KnownGoesOn` and `KnownPasses` are these two cases. At the
`#endif` the arms so far are all arms (`KnownFiled`).

`PhasesAgree` joins the two models of what Phase 2 leaves to Phase 4. Let Phase 4's
block list the conditional that is filed (`Lists`: the same directives at the same lines)
and let its macros have the branch taken that the preprocessor took (`TookBy`); then,
whatever the macros, conditions and other blocks of the file are, the filed branches have
the kinds and lines of `Recorded`, one by one (`SameBranches`). The indices Phase 4 counts
are the first m of the block and start where the plugin hears of a branch (`HeardFirst`),
and two rising sequences of the same lines are the same (`BeginsSame`); the ends follow
because both tile the conditional. A block with an `#elifdef` or `#elifndef` has no listing
in Phase 4's kinds and is left out, as in `FiledAsPhase4Reads`, which shows on the run's
instance that such listings and flags exist for all other blocks.
So what Correlator's theorems assume of `ast_mapping` is what the plugin does with each
block that is looked at, one command at a time; of one that is skipped nothing is filed
(`NothingIsLost`), which is the other case of `Recorded`.

`JobServer_proofs`, from the assumptions on directories and `LogCap`:

- `TypeCorrect`: `Spec => []TypeOK`, with the cap on the log.
- `ResultsShown`: `Spec => []DoneHasResults`.
- `AloneIsConsistent`: `Spec => []SoloIsConsistent`.
- `PhasesAdvance`: `Spec => PhasesOnlyAdvance`.
- `ServerIsView`: `Spec => View!Spec`, the safety part of `ImplementsView`.

`IInv` adds what threads know of themselves (`WorkersKnow`: a thread past its
start has a project, and the last phase when it finishes), that the compile commands
and the report are of some project once a thread has written them (`OfSomeProject`), and
that what a thread has read back to publish is nonempty (`HasResults`); other threads may
overwrite these artifacts but never empty them, which is why overlapping analyses cannot
break `DoneHasResults`. (An artifact of Phase 2 may be empty: every compiler may fail.)

`SoloInv` says, as long as nothing overlapped: at most one thread is alive, the job is
running exactly while a thread runs, and tells of that thread alone (`Tells`: project,
phases, log, no results yet). Why the results are of one project is in `Wrote`: the
directory may be shared with other projects and full of their files, but as long as no
compiler of this analysis has failed (`failed`), what it has written by then (`Written`)
is made of its own project: the compilers had its commands, each made a file anew, and
Phase 4 joins just these artifacts (`JoinedIsOwn`), up to what is read back. Where one has
failed nothing is claimed of the results, and the rest still holds. The refinement goes
action by action and needs the results to be nonempty (`HasResults`) because JobView
publishes nothing else.

`WebClient_proofs`, from JobView's `LogCapAssumption`; any number of polls, threads, lines:

- `PageTyped`: `WSpec => []WTypeOK`.
- `LogStaysFaithful`: `WSpec => []LogIsFaithful`.
- `ResultsStayFinal`: `WSpec => []ResultsAreFinal`.

`WInv` says of orderly behaviours (`InOrder`): one thread at most is under way, and what is
shown is as far as that thread is (`ThreadsInOrder`); between a click and the beginning
of its analysis the page is blank, no poll is out that could bring an older answer, and
no timer runs (`PageInOrder`); a poll under way asks from where the page's log ends, and
its lines continue that log, whichever of its two answers came first (`PollsInOrder`).
While a reset is under way nothing else is: no analysis, no poll, no timer, so that what it
clears, at the server and then on the page, is cleared before the next click (`Resetting`).
Looking for this invariant on larger instances showed that `orderly` was too weak:
with three analyses and two polls at a time, a late answer for the first analysis sets
the timer running again after it was stopped, and a click in that moment leaves two
timers. The page does not guard against it, so `orderly` excludes it now.

`Slides_proofs`, from `SlidesAssumption` (`None` is nothing else); any projects, loads,
number of phases, analyses, choices and first directories:

- `SlidesTyped`: `Spec => []TypeOK`.
- `AnalysesAreShown`: `Spec => []AnalysisIsShown`.
- `ChoicesAreShown`: `Spec => []ChoiceIsShown`.

For an analysis, `OnlyAnalysis`: every load is for a phase that is done, so what it asks
for is written and not being written, and its answer has this analysis' artifact of that
phase, whatever older ones it has of later phases; a slide is drawn from that answer, or
its load is under way. For a choice, `OnlyChoice`: one load is of the project, all
others are for phases of a job, and all answers are what the project's directory holds, or
nothing, as long as the directory the job is in, or falls back to, is the project's or
empty (`Undisturbed`). Until the load of the project ends, a
slide is drawn or the load is at it or before it (`Drawn`); merging an answer changes nothing
(`ChoiceDrawn`). A project without artifacts has no loads for phases at all, because a
phase that is done has written one (`Written`, `FinishedIsChosen`).

`Pipeline_proofs`, from the bounds being numbers and `ProjectsAssumption`, what a project
is that can be built: no more commands than the bound, a macro after each `-D` or `/D`
(the compiler rejects a command without), one `main` in an executable.

- `ReportsAreOfOneAnalysis`: `Spec => []ReportOfOneAnalysis`.
- `ArtifactsStayInOrder`: `Spec => []ArtifactsInOrder`.
- `LeftOversDoNoHarm`: `Spec => []FindingsOfThisProject`.
- `AnalysesAreComplete`: `Spec => []NothingForgotten`.
- `ReadersAgree`: `Spec => []PhasesAgreeOnMacros`.
- `PipelineTyped`: `Spec => []TypeOK`.

The first two need what the analysis under way has written itself, by the phase it is
in (`OwnArtifacts`). The third needs that, as long as no compiler failed and nothing
was edited, the merged units and the bitcode at each listed index are of the project
as it is (`MadeOfThisProject`, `Listed`), although the directory is full of other
files; and that the first analysis in a directory finds none there (`FirstFiles`).

`Complete` is the converse, while no compiler has failed and nothing was edited: after
`i` turns of a loop, of the first `i` commands the last one of each source is what is
merged (`MappedUpTo`), and the bitcode files listed are those of the sources that exist,
each of its own command (`CompiledUpTo`). A program of the build is then part of a group
that has its `main` only (`GroupsCoverPrograms`), and until that group is analysed it is
among the groups left; analysed, it gives the program's lines (`CoveringFindsLines`).

The two readers of arguments are recursive functions. `Scan` is the recursion they share;
that it has a solution, and what the solution is made of, follows from the least place at
which it would fail (`ScanExists`, `ScanTyped`), without an induction theorem. Under the
assumption the two recursions are the same function of their own values when no argument
is `/D`, so they have the same solution (`PhasesReadAlike`).

`Correlator_proofs`, from `WorldsAssumption` (what Clang accepts) and `CondAssumption`:

- `HighMeansDead`: `Spec => []HighIsSafe`, whatever lines Phase 3 reports.
- `ReachableIsNotDead`: `Spec => []CoveredIsAlive`.
- `DeadIsInTheReport`: `Spec => []DeadIsReported`.
- `PlainlyDeadIsFoundHigh`: `Spec => []PlainlyDeadIsHigh`.
- `DeadTextIsFound`: `Spec => []DeadTextIsReported`.
- `CorrelatorTyped`: `Spec => []TypeOK`.
- `SavedAreDistinct`: `Spec => []SavedLinesAreDistinct`.

What the mapper records is a `Reading` of the block in the text: its first branches, of
which only the last may have another end, and never the first one unless it is the
only one (`RecordedIsReading`). `InactiveIsNotCompiled` is the argument for HIGH: a
command that compiled a line of the branch has a target by which the file is judged
(`BuilderTarget`), and takes the block's first condition as Phase 4 does
(`OpeningHolds`). So it takes the first branch exactly if the finding is for a later
one, and the line would have to lie on both sides of the first branch's end
(`Positions`). This is why elif chains whose later arms are lumped together, nesting
and headers do no harm. The invariant says that each finding is that of a mapped
branch, and that the branches not in `todo` have theirs.

For `PlainlyDeadIsHigh`, the command of a target in which the branch is active takes the
branch (`ActiveIsTaken`), and its first line lies in no other block, since no directive of
one block is on the line another opens at (`LinesHoldOneDirective`): it would be
compiled. `DeadTextIsReported` is about text that may not be mapped. If the first line of
a branch is not compiled, of the blocks it does not pass the outermost opens in compiled
text (`OutermostFailing`) and has the whole branch in one that is not taken
(`DeadTextLiesInABlock`); the mapper saw that block, and either recorded that branch or
came to an end before it, after the taken one, and gave its lines to the branch after
that (`NotTakenIsRecordedDead`). So nesting in dead text hides nothing.

`SavedLinesAreDistinct` needs two things. HIGH findings have no line in common
(`HighAreApart`): branches of one block do not overlap, the last one recorded included
(`ReadBodiesApart`); and were a block nested in the branch of a HIGH finding, the command
it was mapped with would compile its directive (`MappedIsHeard`), a line of a branch that
no command compiles. And of such findings the sum is the number of lines
(`SumIsCardinality`). `MapThenSumSet` is defined by a recursion over subsets: that it has
a solution for finite sets (`SumExists`), that it adds up one finding at a time
(`SumTakesOneByOne`) and what it comes to follow, as for `Scan`, from the smallest set at
which it would fail. The invariant therefore also says that findings are of branches no
longer in `todo`, that there are finitely many, and that the output is their figures.

Model-checked only: `Terminates`, `NotStuckRunning`, `NotStuckWaiting` and the liveness
part of `ImplementsView` (liveness is outside the prover's reach); and the Correlator's
`SuiteResults` and `Evaluation` for the test projects (instances, nothing to generalise).
`FiledAsPhase4Reads` is an instance of what `PhasesAgree` proves: that TLC's listing of a
block, a sorted sequence, fits `Lists` would take induction over its length.

## 5. Where code and documentation disagree

Four are runs that TLC must find violated.

- `JobTwoAtOnce`: two analyses run at once, against app.py:35.
- `ReachCallbacks`: a callback that only a library function calls is reported
  unreachable, against IMPLEMENTATION.md:280. The rule looks for an indirect call
  in the module's own bodies.
- `CorrPerFileDefines`: a branch is HIGH although its own command compiles it,
  because a sibling file of the target defines the macro; against correlator.py:117
  and the per-file sets of IMPLEMENTATION.md:376.
- `Evaluation`: eleven of the 35 test projects do not get what EVALUATION.md documents,
  in `<HIGH, MEDIUM>`; each row is a finding of this run, or shares one:

| Project | Documented | Code | Why |
|---|---|---|---|
| tc04, tc21, tc22 | 3, 0 | 1, 0 | blocks in a dead block reach no hook |
| tc23 | 2, 0 | 1, 0 | one arm is recorded for the two after the taken one, where EVALUATION.md:404 and README.md:126 have each `#elif` as a branch of its own (IfdefMapper.cpp:163) |
| tc26 | 1, 0 | no report | a source that two targets compile is linked twice into one program: llvm-link fails and Phase 3 raises (pipeline.py:344, against :343) |
| tc16 | 1, 0 | 1, 1 | a compiled arm has no instruction |
| fn01 | 0, 0 | 0, 1 | likewise |
| tc24 | 0, 0 | 0, 3 | three functions are static and never called |
| tc31 | 1, 1 | 2, 0 | the checked-in report agrees with the code |
| fn02 | 0, 0 | 2, 0 | a condition on a value is no macro's name |
| fp01 | 1, 0 | 1, 1 | the include guard of `config.h` is one more finding |

`AsDocumented` is one statement about all 35 projects; which of them break it is seen in
the last state of the run, where `reports` has what the tool reports of each.

Met while modelling and not kept as runs:

- Job: a running job can be reset (app.py:204), against app.py:205. JobServer has this, and
  its properties hold all the same.
- Job: projects `/a/app` and `/b/app` share a directory (app.py:29), against app.py:28. When
  a compiler fails in one's analysis, which nobody looks at (pipeline.py:256, :324), the
  `ast_i.json` or `src_i.bc` of the other may be merged, and the results are of both.
  JobServer has this too: `SoloIsConsistent` speaks of the results only where none failed.
- Correlator: `#if A > 0` is HIGH in every configuration (correlator.py:144), against
  correlator.py:117 and EVALUATION.md:648; so is a macro that only a header defines;
  a MEDIUM branch may be compiled in no configuration (correlator.py:123); a macro
  defined everywhere does not make Phase 4 skip the block (IMPLEMENTATION.md:360); a
  header reached by two spellings of its path is reported twice (correlator.py:255).
- Pass: lines of text included into a body are filed under the including file
  (IMPLEMENTATION.md:301).
- Command lines: both readers ignore `-U`, so a macro that a command undefines
  counts as defined in Phases 2 and 4, though not in the build.
- Page, where `orderly` is false: after 500 lines the log is cut while the offset goes on
  counting, and the page gets no more lines; overlapping polls append lines twice; an
  answer from before the analysis began may show the old results and stop the timer.
- Page: when the `fetch` of a POST is rejected, nothing after it runs; after
  `/api/analyze` the Analyze button stays disabled (index.html:1893).
- Slides: the phases of a chosen project are fetched without naming it (index.html:1720),
  and the artifacts of the job are merged in; while the job has no directory, those that
  `run.sh` left in `DEFAULT_OUTPUT` (app.py:266), although naming the project is what
  "lets the frontend sync slides when the user switches the dropdown" (app.py:259).
  `ChoiceIsShown` therefore holds when that directory is the project's own or empty.

## 6. Not modelled

- Of the page: drawing, the call graph and the source view; of app.py: an `output_dir`
  in a request, which the page never sends, and the routes that only format what they
  read (`api_report`, `api_callgraph`, `api_source`, the list of projects).
- `check_dependencies`, `build_plugins`, CMake, the compiler and linker themselves, and
  the stand-in compiler: runs of other programs, which succeed, fail or raise.
- Spelling of paths and names (normalisation, demangling, JSON escaping), report
  wording, logging: no property depends on them.
- `baseline_compare.py`: a measuring script, stateless set arithmetic.
- Build scripts, phase tests, checked-in build trees; the demo project, which is a larger
  input of the same kind as the test projects without a documented result.
- Two processes on one output directory (two servers, or a server and a command line):
  nothing in the code expects it.

## 7. Plan

Done: every module of section 2 with its runs; proofs about Reachability, IfdefMapper,
Correlator, Pipeline, JobServer with its view, WebClient and Slides.

Left: nothing the prover can reach of what the runs check. Every hazard listed has a
property but one, macros that headers define: there the code is wrong, and the limitation
is documented (testcases/FAILURE_CASES.md). Some properties cover their hazard in part;
PROJECT.json says so at each: the page's while it is `orderly`, `FindingsOfThisProject`
and `SoloIsConsistent`'s results when no compiler fails, and nothing keeps a new
`report.md` from lying beside old `dead_features.json` after a crash between the two
writes. What could be stated next: that the test projects' `Recorded` blocks are those of
the checked-in artifacts, and the `-U` flag in the macros of a command (section 5).
