----------------------------- MODULE WebClient ------------------------------
(***************************************************************************)
(* templates/index.html and the routes of app.py it calls: one page on the *)
(* server, which starts analyses, resets them, and polls.  The server is   *)
(* the JobView that JobServer implements.                                  *)
(*                                                                         *)
(* A poll is two requests, for the status and for the log, that the server *)
(* answers in either order; the page goes on when it has both answers.     *)
(* The timer starts the next poll whether the one before is over or not.   *)
(***************************************************************************)
EXTENDS JobView

CONSTANTS
  Poll,      \* polls in flight at a time
  MaxLines,  \* lines written before the log is left alone
  SlowReset  \* whether phases may end while a reset is under way: FALSE is a bound

ASSUME BoundAssumption == MaxLines \in Nat /\ SlowReset \in BOOLEAN

VARIABLES
  page,     \* S, and what the page shows
  poll,     \* the polls in flight
  written,  \* history: the lines since the log was last cleared, none cut off
  orderly   \* history: since the click no two polls were in flight at a time,
            \* no analysis, reset, poll or timer was left from before, no answer
            \* came before Begin, and no POST has failed

pageVars == <<page, poll, written, orderly>>
allVars  == <<view, pageVars>>

NoPoll == [at |-> "free", offset |-> 0, status |-> <<>>, lines |-> <<>>]

WInit ==
  /\ Init
  /\ page = [post |-> "none", clear |-> "none", lost |-> FALSE, button |-> TRUE,
             reset |-> FALSE, timer |-> FALSE, logOffset |-> 0, lastStatus |-> "idle",
             lastPS |-> IdlePhases, log |-> <<>>, shown |-> FALSE, results |-> {},
             loaded |-> {}]
  /\ poll = [k \in Poll |-> NoPoll]
  /\ written = <<>>
  /\ orderly = TRUE

-----------------------------------------------------------------------------
(* The page.  A bound: it has one POST of each kind under way at a time,   *)
(* for an analysis (post) and for a reset (clear), and a reset is not      *)
(* clicked while the other one waits.                                      *)

Quiet == \A k \in Poll : poll[k].at = "free"

(* A bound: a click comes between two analyses or in the first phase of    *)
(* one, while the job says so and no reset is under way.                   *)
MayClick ==
  \A w \in Worker :
    \/ thread[w].at \in {"unborn", "ended"}
    \/ /\ thread[w] = [at |-> "running", done |-> 0]
       /\ shown.status = "running" /\ page.clear = "none"

(* startAnalysis up to its fetch.  A reset that is under way leaves the    *)
(* button as it is.  ThreadsLeft is JobView's bound.                       *)
ClickAnalyze ==
  /\ page.button /\ page.post = "none" /\ ThreadsLeft /\ MayClick
  /\ page' = [page EXCEPT !.post = "analyze", !.lost = FALSE, !.button = FALSE,
                          !.reset = FALSE, !.logOffset = 0, !.lastStatus = "idle",
                          !.lastPS = IdlePhases, !.log = <<>>, !.shown = FALSE,
                          !.results = {}, !.loaded = {}]
  /\ orderly' = (Quiet /\ ~page.timer /\ page.clear = "none" /\
                 \A w \in Worker : thread[w].at \in {"unborn", "ended"})
  /\ UNCHANGED <<view, poll, written>>

Clears(from, to) == page.clear = from /\ page' = [page EXCEPT !.clear = to]

(* resetJob up to its fetch.                                               *)
ClickReset ==
  /\ page.reset /\ page.post = "none"
  /\ Clears("none", "reset")
  /\ UNCHANGED <<view, poll, written, orderly>>

Send(k) ==
  /\ poll[k].at = "free"
  /\ poll' = [poll EXCEPT ![k] = [NoPoll EXCEPT !.at = "sent", !.offset = page.logOffset]]
  /\ orderly' = (orderly /\ Quiet)

(* The rest of startAnalysis: an interval timer, and a first poll at once. *)
AnalyzeReturns(k) ==
  /\ page.post = "started"
  /\ page' = [page EXCEPT !.post = "none", !.timer = TRUE]
  /\ Send(k)
  /\ UNCHANGED <<view, written>>

AnalyzeRefused ==
  /\ page.post = "refused"
  /\ page' = [page EXCEPT !.post = "none", !.button = TRUE]
  /\ UNCHANGED <<view, poll, written, orderly>>

(* The fetch is rejected: startAnalysis ends here, with the button as it is.*)
AnalyzeLost ==
  /\ page.post \in {"analyze", "started", "refused"}
  /\ page' = [page EXCEPT !.post = "none", !.lost = ~page.button]
  /\ orderly' = FALSE
  /\ UNCHANGED <<view, poll, written>>

(* The rest of resetJob, whatever the answer was.                          *)
ResetReturns ==
  /\ page.clear = "answered"
  /\ page' = [page EXCEPT !.clear = "none", !.timer = FALSE, !.button = TRUE, !.reset = FALSE,
                          !.log = <<>>, !.logOffset = 0, !.lastStatus = "idle"]
  /\ UNCHANGED <<view, poll, written, orderly>>

ResetLost ==
  /\ page.clear \in {"reset", "answered"}
  /\ page' = [page EXCEPT !.clear = "none", !.lost = ~page.button]
  /\ orderly' = FALSE
  /\ UNCHANGED <<view, poll, written>>

Tick(k) ==
  /\ page.timer
  /\ Send(k)
  /\ UNCHANGED <<view, page, written>>

(* Mutant: the results are built when the last phase turns done.           *)
Done_ByPhase(st) == st.phases[4] = "done" /\ page.lastPS[4] # "done"

Done(st) == st.status = "done" /\ page.lastStatus # "done"

(* Mutant: an error does not end the polling.                              *)
Over_DoneOnly(st) == Done(st)

Over(st) == Done(st) \/ (st.status = "error" /\ page.lastStatus # "error")

(* Mutant: only a phase that was seen running is loaded.                   *)
Completed_FromRunning(st) == {i \in Phase : st.phases[i] = "done" /\ page.lastPS[i] = "running"}

(* The phases whose artifacts onPhaseComplete fetches and shows.           *)
Completed(st) == {i \in Phase : st.phases[i] = "done" /\ page.lastPS[i] # "done"}

(* Mutant: each poll asks for the log from the beginning.                  *)
NextOffset_Start(lines) == 0

NextOffset(lines) == page.logOffset + Len(lines)

(* poll, once it has both answers.                                         *)
Apply(k) ==
  LET st == poll[k].status IN
  /\ poll[k].at = "answered"
  /\ page' = [page EXCEPT
       !.log = @ \o poll[k].lines, !.logOffset = NextOffset(poll[k].lines),
       !.loaded = @ \cup Completed(st), !.lastPS = st.phases,
       !.shown = @ \/ Done(st), !.results = IF Done(st) THEN st.results ELSE @,
       !.timer = @ /\ ~Over(st), !.button = @ \/ Over(st), !.reset = @ \/ Over(st),
       !.lastStatus = st.status]
  /\ poll' = [poll EXCEPT ![k] = NoPoll]
  /\ UNCHANGED <<view, written, orderly>>

(* A request of a poll fails: the page logs it on its console.  Answering  *)
(* changes nothing on the server, so this may as well come last.           *)
Lose(k) ==
  /\ poll[k].at = "answered"
  /\ poll' = [poll EXCEPT ![k] = NoPoll]
  /\ UNCHANGED <<view, page, written, orderly>>

-----------------------------------------------------------------------------
(* The server.                                                             *)

(* The analysis the page has asked for has not begun.                      *)
NotBegun == \E w \in Worker : thread[w].at = "started"

(* api_status                                                              *)
api_status(k) ==
  /\ poll[k].at \in {"sent", "gotLog"}
  /\ poll' = [poll EXCEPT
       ![k].at = IF @ = "sent" THEN "gotStatus" ELSE "answered",
       ![k].status = [status |-> shown.status, phases |-> shown.phases, results |-> shown.results]]
  /\ orderly' = (orderly /\ ~NotBegun)
  /\ UNCHANGED <<view, page, written>>

(* What is in _job["log"][offset:].                                        *)
Since(offset) ==
  LET cut == Len(written) - Len(shown.log)
  IN  SubSeq(written, cut + offset + 1, Len(written))

(* api_log                                                                 *)
api_log(k) ==
  /\ poll[k].at \in {"sent", "gotStatus"}
  /\ poll' = [poll EXCEPT ![k].at = IF @ = "sent" THEN "gotLog" ELSE "answered",
                          ![k].lines = Since(poll[k].offset)]
  /\ orderly' = (orderly /\ ~NotBegun)
  /\ UNCHANGED <<view, page, written>>

Posts(from, to) == page.post = from /\ page' = [page EXCEPT !.post = to]

Others == UNCHANGED <<poll, orderly>>

ServePost(r) ==
  /\ \/ /\ AnalyzeCheck(r)
        /\ Posts("analyze", "checked") /\ UNCHANGED written
     \/ /\ \E w \in Worker : AnalyzeStart(r, w)
        /\ Posts("checked", "started") /\ UNCHANGED written
     \/ /\ shown.status = "running" /\ UNCHANGED view
        /\ Posts("analyze", "refused") /\ UNCHANGED written
     \/ /\ ResetCheck(r)
        /\ Clears("reset", "checked") /\ UNCHANGED written
     \/ /\ shown.status = "running" /\ UNCHANGED view
        /\ Clears("reset", "answered") /\ UNCHANGED written
     \/ /\ ResetApply(r)
        /\ Clears("checked", "answered") /\ written' = <<>>
  /\ Others

Line(w) == <<w, Len(written) + 1>>

ServerWork(w) ==
  /\ \/ Begin(w) /\ written' = <<>>
     \/ LogError(w) /\ written' = Append(written, Line(w))
     \/ (SlowReset \/ page.clear = "none") /\ Advance(w) /\ UNCHANGED written
     \/ (Publish(w) \/ Fail(w) \/ ReportError(w)) /\ UNCHANGED written
  /\ UNCHANGED page /\ Others

(* What a thread does that takes it nowhere.                               *)
ServerReport(w) ==
  /\ \/ /\ Len(written) < MaxLines
        /\ Report(w) /\ written' = Append(written, Line(w))
     \/ Restate(w) /\ UNCHANGED written
  /\ UNCHANGED page /\ Others

-----------------------------------------------------------------------------
PollStep(k) == api_status(k) \/ api_log(k) \/ Apply(k) \/ Lose(k) \/ Tick(k)

WNext ==
  \/ ClickAnalyze \/ ClickReset
  \/ AnalyzeRefused \/ AnalyzeLost \/ ResetReturns \/ ResetLost
  \/ \E k \in Poll : AnalyzeReturns(k) \/ PollStep(k)
  \/ \E r \in Request : ServePost(r)
  \/ \E w \in Worker : ServerWork(w) \/ ServerReport(w)

WSpec == WInit /\ [][WNext]_allVars

(* Threads run and phases end, as in JobView.  What was sent is answered   *)
(* or fails, and the page's code runs; a poll may be lost, but not each    *)
(* one.  Nobody has to click.                                              *)
WFairSpec ==
  /\ WSpec
  /\ \A w \in Worker : WF_allVars(ServerWork(w))
  /\ \A r \in Request : WF_allVars(ServePost(r))
  /\ WF_allVars(AnalyzeRefused \/ AnalyzeLost \/ \E k \in Poll : AnalyzeReturns(k))
  /\ WF_allVars(ResetReturns \/ ResetLost)
  /\ \A k \in Poll : /\ WF_allVars(Tick(k) \/ api_status(k) \/ api_log(k))
                     /\ SF_allVars(Apply(k))
-----------------------------------------------------------------------------
Status == {"idle", "running", "done", "error"}
PhaseStatuses == [Phase -> {"idle", "running", "done"}]
Lines == Seq(Worker \X (Nat \ {0}))

(* Types of the page, its polls and the history; what the server keeps of  *)
(* the log is the end of what was written.                                 *)
WTypeOK ==
  /\ shown \in [status : Status, phases : PhaseStatuses, log : Seq(Worker),
               results : SUBSET Project]
  /\ Len(shown.log) <= LogCap
  /\ request \in [Request -> {"free", "analyze", "reset"}]
  /\ thread \in [Worker -> [at : {"unborn", "started", "running", "failed", "logError", "ended"},
                            done : 0..4]]
  /\ page \in [post : {"none", "analyze", "checked", "started", "refused"},
               clear : {"none", "reset", "checked", "answered"}, lost : BOOLEAN,
               button : BOOLEAN, reset : BOOLEAN, timer : BOOLEAN, logOffset : Nat,
               lastStatus : Status, lastPS : PhaseStatuses, log : Lines,
               shown : BOOLEAN, results : SUBSET Project, loaded : SUBSET Phase]
  /\ \A k \in Poll :
       /\ poll[k].at \in {"free", "sent", "gotStatus", "gotLog", "answered"}
       /\ poll[k].offset \in Nat /\ poll[k].lines \in Lines
       /\ poll[k].at \in {"gotStatus", "answered"} =>
            poll[k].status \in [status : Status, phases : PhaseStatuses,
                                results : SUBSET Project]
  /\ written \in Lines
  /\ \A i \in 1..Len(shown.log) : shown.log[i] = written[Len(written) - Len(shown.log) + i][1]
  /\ orderly \in BOOLEAN

Prefix(s, t) == Len(s) <= Len(t) /\ s = SubSeq(t, 1, Len(s))

(* While polls do not overlap, none saw the job before it began, no timer  *)
(* ran on into the click, and nothing was cut off the log, the page's log  *)
(* is what was logged, without gap or repetition, though polls get lost    *)
(* and the two answers of one are from different moments.  (The page has to*)
(* hear of a reset first.)                                                 *)
LogIsFaithful ==
  orderly /\ page.clear # "answered" /\ Len(written) <= LogCap => Prefix(page.log, written)

(* Results that the page shows after a click are those of a finished       *)
(* analysis, and all four phases have been loaded, whichever transitions   *)
(* the polls missed, unless an answer came before the analysis began.      *)
ResultsAreFinal ==
  page.shown /\ orderly =>
    /\ page.results # {}
    /\ page.loaded = Phase
    /\ \E w \in Worker : thread[w].at = "ended"

(* The page does not wait for ever: the button comes back, after an error, *)
(* a refusal, lost polls, a reset that overtakes the click, and results of *)
(* the analysis before as well, unless a POST itself has failed.           *)
Waiting == ~page.button
NotStuckWaiting == Waiting ~> ~Waiting \/ page.lost
=============================================================================
