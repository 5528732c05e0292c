------------------------------ MODULE JobView -------------------------------
(***************************************************************************)
(* What the server of JobServer promises those who look at its job: the    *)
(* status, the phases, the log and the results, as threads change them.    *)
(* Phases are not run here and no file is written or read.                 *)
(***************************************************************************)
EXTENDS Naturals, Sequences, FiniteSets

CONSTANTS Project, Request, Worker, LogCap

ASSUME LogCapAssumption == LogCap \in Nat \ {0}

Phase == 1..4

VARIABLES
  shown,     \* the parts of _job that api_status and api_log return
  request,   \* what each request thread is in the middle of
  thread     \* where each background thread is, and its finished phases

view == <<shown, request, thread>>

(* Phases before k are done, k is running, the rest idle.                  *)
AtPhase(k) ==
  [i \in Phase |-> IF i < k THEN "done" ELSE IF i = k THEN "running" ELSE "idle"]

IdlePhases == [i \in Phase |-> "idle"]

Nothing == [status |-> "idle", phases |-> IdlePhases, log |-> <<>>, results |-> {}]

(* A plain start, or one that serves a directory given to it.              *)
Init ==
  /\ \/ shown = Nothing
     \/ \E found \in SUBSET Project :
          /\ Cardinality(found) <= 1
          /\ shown = [status |-> "done", phases |-> AtPhase(5), log |-> <<>>, results |-> found]
  /\ request = [r \in Request |-> "free"]
  /\ thread = [w \in Worker |-> [at |-> "unborn", done |-> 0]]

-----------------------------------------------------------------------------
(* Requests.                                                               *)
ThreadsLeft ==
  Cardinality({w \in Worker : thread[w].at = "unborn"})
    > Cardinality({r \in Request : request[r] = "analyze"})

Pass(r, from, to) == request[r] = from /\ request' = [request EXCEPT ![r] = to]

AnalyzeCheck(r) ==
  /\ Pass(r, "free", "analyze")
  /\ ThreadsLeft /\ shown.status # "running"
  /\ UNCHANGED <<shown, thread>>

AnalyzeStart(r, w) ==
  /\ Pass(r, "analyze", "free")
  /\ thread[w].at = "unborn"
  /\ thread' = [thread EXCEPT ![w].at = "started"]
  /\ UNCHANGED shown

ResetCheck(r) ==
  /\ Pass(r, "free", "reset")
  /\ shown.status # "running"
  /\ UNCHANGED <<shown, thread>>

ResetApply(r) ==
  /\ Pass(r, "reset", "free")
  /\ shown' = Nothing
  /\ UNCHANGED thread

-----------------------------------------------------------------------------
(* Threads.                                                                *)
Move(w, from, to, done) ==
  /\ thread[w].at = from
  /\ thread' = [thread EXCEPT ![w] = [at |-> to, done |-> done]]
  /\ UNCHANGED request

(* Mutant: one line more than LogCap is kept.                              *)
Logged_OneMore(w) ==
  LET all == Append(shown.log, w)
  IN  SubSeq(all, IF Len(all) > LogCap + 1 THEN Len(all) - LogCap ELSE 1, Len(all))

(* _progress: append a line, keep the last LogCap.                         *)
Logged(w) ==
  LET all == Append(shown.log, w)
  IN  SubSeq(all, IF Len(all) > LogCap THEN Len(all) - LogCap + 1 ELSE 1, Len(all))

Begin(w) ==
  /\ Move(w, "started", "running", 0)
  /\ shown' = [status |-> "running", phases |-> AtPhase(1), log |-> <<>>, results |-> {}]

(* The phase statuses once more, before the first phase.                   *)
Restate(w) ==
  /\ thread[w] = [at |-> "running", done |-> 0]
  /\ shown' = [shown EXCEPT !.phases = AtPhase(1)]
  /\ UNCHANGED <<request, thread>>

Report(w) ==
  /\ thread[w].at = "running"
  /\ shown' = [shown EXCEPT !.log = Logged(w)]
  /\ UNCHANGED <<request, thread>>

(* A phase is over.                                                        *)
Advance(w) ==
  /\ thread[w].done < 4
  /\ Move(w, "running", "running", thread[w].done + 1)
  /\ shown' = [shown EXCEPT !.phases = AtPhase(thread[w].done + 2)]

(* All four are, and there is something to show.                           *)
Publish(w) ==
  /\ thread[w].done = 4
  /\ Move(w, "running", "ended", 0)
  /\ \E results \in (SUBSET Project) \ {{}} :
       shown' = [shown EXCEPT !.status = "done", !.results = results]

Fail(w) ==
  /\ Move(w, "running", "failed", 0)
  /\ UNCHANGED shown

ReportError(w) ==
  /\ Move(w, "failed", "logError", 0)
  /\ shown' = [shown EXCEPT !.status = "error"]

LogError(w) ==
  /\ Move(w, "logError", "ended", 0)
  /\ shown' = [shown EXCEPT !.log = Logged(w)]

-----------------------------------------------------------------------------
Serve(r) ==
  \/ AnalyzeCheck(r) \/ ResetCheck(r) \/ ResetApply(r)
  \/ \E w \in Worker : AnalyzeStart(r, w)

(* What takes a thread on.                                                 *)
Work(w) ==
  Begin(w) \/ Advance(w) \/ Publish(w) \/ Fail(w) \/ ReportError(w) \/ LogError(w)

Next ==
  \/ \E r \in Request : Serve(r)
  \/ \E w \in Worker : Work(w) \/ Restate(w) \/ Report(w)

Spec == Init /\ [][Next]_view

FairSpec == Spec /\ \A w \in Worker : WF_view(Work(w))
=============================================================================
