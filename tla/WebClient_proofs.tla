-------------------------- MODULE WebClient_proofs --------------------------
(***************************************************************************)
(* What the page shows, for any number of analyses, polls and log lines:   *)
(* its log is what was logged, and its results are those of a finished     *)
(* analysis, as long as its polls are orderly.                             *)
(***************************************************************************)
EXTENDS WebClient, SequenceTheorems, TLAPS

Job == [status : Status, phases : PhaseStatuses, log : Seq(Worker), results : SUBSET Project]
Stages == {"unborn", "started", "running", "failed", "logError", "ended"}
Thread == [at : Stages, done : 0..4]
Posts_ == {"none", "analyze", "checked", "started", "refused"}
Clears_ == {"none", "reset", "checked", "answered"}
Page == [post : Posts_, clear : Clears_, lost : BOOLEAN, button : BOOLEAN, reset : BOOLEAN, timer : BOOLEAN, logOffset : Nat,
         lastStatus : Status, lastPS : PhaseStatuses, log : Lines,
         shown : BOOLEAN, results : SUBSET Project, loaded : SUBSET Phase]
Answer == [status : Status, phases : PhaseStatuses, results : SUBSET Project]
PollState == [at : {"free", "sent", "gotStatus", "gotLog", "answered"}, offset : Nat,
              status : {<<>>} \cup Answer, lines : Lines]

-----------------------------------------------------------------------------
(* The log: the server keeps the end of what was written.                  *)
KeptIn(log, ws) ==
  /\ Len(log) <= LogCap /\ Len(log) <= Len(ws)
  /\ Len(ws) <= LogCap => Len(log) = Len(ws)
  /\ \A i \in 1..Len(log) : log[i] = ws[Len(ws) - Len(log) + i][1]

(* One sequence is the beginning of another.                               *)
Begins(s, t) == Len(s) <= Len(t) /\ \A i \in 1..Len(s) : s[i] = t[i]

LEMMA LogGrows ==
  ASSUME NEW ws \in Lines, shown.log \in Seq(Worker), KeptIn(shown.log, ws),
         NEW w \in Worker, NEW n \in Nat \ {0}
  PROVE  /\ Logged(w) \in Seq(Worker) /\ Append(ws, <<w, n>>) \in Lines
         /\ KeptIn(Logged(w), Append(ws, <<w, n>>))
<1>0. PICK log, m, k, all, line, new, first :
        /\ log = shown.log /\ m = Len(log) /\ k = Len(ws) /\ all = Append(log, w)
        /\ line = <<w, n>> /\ new = Append(ws, line)
        /\ first = IF Len(all) > LogCap THEN Len(all) - LogCap + 1 ELSE 1
  OBVIOUS
<1>1. line \in Worker \X (Nat \ {0}) /\ line[1] = w
  BY <1>0
<1>2. /\ k \in Nat /\ new \in Lines /\ Len(new) = k + 1 /\ new[k + 1] = line
      /\ \A i \in 1..k : new[i] = ws[i]
  BY <1>0, <1>1, LenProperties, AppendProperties DEF Lines
<1>3. /\ m \in Nat /\ all \in Seq(Worker) /\ Len(all) = m + 1 /\ all[m + 1] = w
      /\ \A i \in 1..m : all[i] = log[i]
  BY <1>0, LenProperties, AppendProperties
<1>4. \A i \in 1..m+1 : all[i] \in Worker
  BY <1>3, ElementOfSeq
<1>5. /\ m <= LogCap /\ m <= k /\ (k <= LogCap => m = k)
      /\ \A i \in 1..m : log[i] = ws[k - m + i][1]
  BY <1>0 DEF KeptIn
<1>6. Logged(w) = SubSeq(all, first, m + 1)
  BY <1>0, <1>3 DEF Logged
<1>7. LogCap \in Nat \ {0}
  BY LogCapAssumption
<1>8. CASE m + 1 > LogCap
  <2>1. first = 2 /\ m = LogCap
    BY <1>0, <1>3, <1>5, <1>7, <1>8
  <2>2. PICK s : s = SubSeq(all, 2, m + 1)
    OBVIOUS
  <2>3. \A i \in 2..m+1 : i \in 1..m+1
    BY <1>3
  <2>4. /\ s \in Seq(Worker) /\ Len(s) = IF 2 <= m + 1 THEN m + 1 - 2 + 1 ELSE 0
        /\ \A i \in 1..m+1-2+1 : s[i] = all[2 + i - 1]
    BY <1>3, <1>4, <2>2, <2>3, SubSeqProperties
  <2>5. Len(s) = m /\ \A i \in 1..m : s[i] = all[i + 1]
    <3>1. \A i \in 1..m : i \in 1..m+1-2+1 /\ 2 + i - 1 = i + 1
      BY <1>3
    <3> QED
      BY <1>3, <1>7, <2>1, <2>4, <3>1
  <2>6. \A i \in 1..Len(s) : s[i] = new[Len(new) - Len(s) + i][1]
    <3> TAKE i \in 1..Len(s)
    <3>0. PICK j : j = Len(new) - Len(s) + i
      OBVIOUS
    <3>1. i \in 1..m /\ j = k + 1 - m + i
      BY <1>2, <2>5, <3>0
    <3>2. CASE i = m
      <4>1. j = k + 1 /\ i + 1 = m + 1
        BY <1>2, <1>3, <3>1, <3>2
      <4>2. s[i] = w /\ new[j] = line
        BY <1>2, <1>3, <2>5, <3>1, <4>1
      <4> QED
        BY <1>1, <3>0, <4>2
    <3>3. CASE i # m
      <4>1. i + 1 \in 1..m /\ k - m + (i + 1) = j /\ j \in 1..k
        BY <1>2, <1>3, <1>5, <3>1, <3>3
      <4>2. s[i] = log[i + 1] /\ new[j] = ws[j] /\ log[i + 1] = ws[j][1]
        BY <1>2, <1>3, <1>5, <2>5, <3>1, <4>1
      <4> QED
        BY <3>0, <4>2
    <3> QED
      BY <3>2, <3>3
  <2>7. m <= k + 1 /\ ~(k + 1 <= LogCap)
    BY <1>2, <1>3, <1>5, <1>7, <2>1
  <2>8. KeptIn(s, new)
    <3>2. Len(s) <= LogCap /\ Len(s) <= Len(new) /\ ~(Len(new) <= LogCap)
      BY <1>2, <1>5, <2>5, <2>7
    <3> QED
      BY <2>6, <3>2 DEF KeptIn
  <2> QED
    BY <1>0, <1>2, <1>6, <2>1, <2>2, <2>4, <2>8
<1>9. CASE ~(m + 1 > LogCap)
  <2>1. first = 1
    BY <1>0, <1>3, <1>9
  <2>2. PICK s : s = SubSeq(all, 1, m + 1)
    OBVIOUS
  <2>4. /\ s \in Seq(Worker) /\ Len(s) = IF 1 <= m + 1 THEN m + 1 - 1 + 1 ELSE 0
        /\ \A i \in 1..m+1-1+1 : s[i] = all[1 + i - 1]
    BY <1>3, <1>4, <2>2, SubSeqProperties
  <2>5. Len(s) = m + 1 /\ \A i \in 1..m+1 : s[i] = all[i]
    <3>1. \A i \in 1..m+1 : i \in 1..m+1-1+1 /\ 1 + i - 1 = i
      BY <1>3
    <3> QED
      BY <1>3, <2>4, <3>1
  <2>6. \A i \in 1..Len(s) : s[i] = new[Len(new) - Len(s) + i][1]
    <3> TAKE i \in 1..Len(s)
    <3>0. PICK j : j = Len(new) - Len(s) + i
      OBVIOUS
    <3>1. i \in 1..m+1 /\ j = k + 1 - (m + 1) + i
      BY <1>2, <2>5, <3>0
    <3>2. CASE i = m + 1
      <4>1. j = k + 1
        BY <1>2, <1>3, <3>1, <3>2
      <4>2. s[i] = w /\ new[j] = line
        BY <1>2, <1>3, <2>5, <3>1, <3>2, <4>1
      <4> QED
        BY <1>1, <3>0, <4>2
    <3>3. CASE i # m + 1
      <4>1. i \in 1..m /\ j = k - m + i /\ j \in 1..k
        BY <1>2, <1>3, <1>5, <3>1, <3>3
      <4>2. s[i] = log[i] /\ new[j] = ws[j] /\ log[i] = ws[j][1]
        BY <1>2, <1>3, <1>5, <2>5, <3>1, <4>1
      <4> QED
        BY <3>0, <4>2
    <3> QED
      BY <3>2, <3>3
  <2>7. m + 1 <= LogCap /\ m + 1 <= k + 1 /\ (k + 1 <= LogCap => m + 1 = k + 1)
    BY <1>2, <1>3, <1>5, <1>7, <1>9
  <2>8. KeptIn(s, new)
    <3>1. /\ Len(s) <= LogCap /\ Len(s) <= Len(new)
          /\ Len(new) <= LogCap => Len(s) = Len(new)
      BY <1>2, <2>5, <2>7
    <3> QED
      BY <2>6, <3>1 DEF KeptIn
  <2> QED
    BY <1>0, <1>2, <1>6, <2>1, <2>2, <2>4, <2>8
<1> QED
  BY <1>8, <1>9

(* What api_log answers: lines that were written, and while none was cut   *)
(* off, all of them from the offset on.                                    *)
LEMMA SinceIs ==
  ASSUME NEW offset \in Nat, written \in Lines, shown.log \in Seq(Worker),
         KeptIn(shown.log, written)
  PROVE  /\ Since(offset) \in Lines
         /\ Len(written) <= LogCap /\ offset <= Len(written) =>
              /\ Len(Since(offset)) = Len(written) - offset
              /\ \A i \in 1..Len(written)-offset : Since(offset)[i] = written[offset + i]
<1>0. PICK m, k, cut, from, s :
        /\ m = Len(shown.log) /\ k = Len(written) /\ cut = k - m /\ from = cut + offset + 1
        /\ s = SubSeq(written, from, k)
  OBVIOUS
<1>1. m \in Nat /\ k \in Nat /\ m <= k /\ (k <= LogCap => m = k)
  BY <1>0, LenProperties DEF KeptIn, Lines
<1>2. cut \in Nat /\ from \in Nat \ {0}
  BY <1>0, <1>1
<1>3. \A i \in from..k : i \in 1..k
  BY <1>1, <1>2
<1>4. \A i \in from..k : written[i] \in Worker \X (Nat \ {0})
  BY <1>0, <1>3, ElementOfSeq DEF Lines
<1>5. /\ s \in Lines /\ Len(s) = IF from <= k THEN k - from + 1 ELSE 0
      /\ \A i \in 1..k-from+1 : s[i] = written[from + i - 1]
  <2>1. PICK X, ws : X = Worker \X (Nat \ {0}) /\ ws = written
    OBVIOUS
  <2>2. from \in Int /\ k \in Int /\ \A i \in from..k : ws[i] \in X
    BY <1>1, <1>2, <1>4, <2>1
  <2>4. s = SubSeq(ws, from, k)
    BY <1>0, <2>1
  <2>3. /\ s \in Seq(X) /\ Len(s) = IF from <= k THEN k - from + 1 ELSE 0
        /\ \A i \in 1..k-from+1 : s[i] = ws[from + i - 1]
    BY <2>2, <2>4, SubSeqProperties
  <2> QED
    BY <2>1, <2>3 DEF Lines
<1>6. Since(offset) = s
  BY <1>0 DEF Since
<1>7. ASSUME k <= LogCap, offset <= k
      PROVE  Len(s) = k - offset /\ \A i \in 1..k-offset : s[i] = written[offset + i]
  <2>1. from = offset + 1
    <3>1. cut = 0
      BY <1>0, <1>1, <1>7
    <3>2. from = cut + offset + 1
      BY <1>0
    <3> QED
      BY <3>1, <3>2
  <2>2. \A i \in 1..k-offset : i \in 1..k-from+1 /\ from + i - 1 = offset + i
    BY <1>1, <2>1
  <2>3. Len(s) = k - offset
    BY <1>1, <1>5, <1>7, <2>1
  <2> QED
    BY <1>5, <2>2, <2>3
<1> QED
  BY <1>0, <1>5, <1>6, <1>7

(* Lines after those the page has make the beginning of what was written   *)
(* longer.                                                                 *)
LEMMA LinesJoin ==
  ASSUME NEW log \in Lines, Begins(log, written), Len(written) <= LogCap,
         written \in Lines, shown.log \in Seq(Worker), KeptIn(shown.log, written)
  PROVE  Begins(log \o Since(Len(log)), written)
<1>0. PICK m, k, s, j : /\ m = Len(log) /\ k = Len(written) /\ s = Since(m)
                        /\ j = log \o s
  OBVIOUS
<1>1. m \in Nat /\ k \in Nat /\ m <= k /\ \A i \in 1..m : log[i] = written[i]
  BY <1>0, LenProperties DEF Lines, Begins
<1>2. s \in Lines /\ Len(s) = k - m /\ \A i \in 1..k-m : s[i] = written[m + i]
  <2>1. /\ Since(m) \in Lines
        /\ Len(written) <= LogCap /\ m <= Len(written) =>
             /\ Len(Since(m)) = Len(written) - m
             /\ \A i \in 1..Len(written)-m : Since(m)[i] = written[m + i]
    BY <1>1, SinceIs
  <2>2. Len(written) <= LogCap /\ m <= Len(written)
    BY <1>0, <1>1
  <2> QED
    BY <1>0, <2>1, <2>2
<1>3. /\ Len(j) = m + (k - m)
      /\ \A i \in 1..m+(k - m) : j[i] = IF i <= m THEN log[i] ELSE s[i - m]
  BY <1>0, <1>2, ConcatProperties DEF Lines
<1>4. Len(j) = k /\ \A i \in 1..k : i \in 1..m+(k - m)
  BY <1>1, <1>3
<1>5. \A i \in 1..k : j[i] = written[i]
  <2> TAKE i \in 1..k
  <2>1. CASE i <= m
    <3>1. i \in 1..m
      BY <1>1, <2>1
    <3> QED
      BY <1>1, <1>3, <1>4, <2>1, <3>1
  <2>2. CASE ~(i <= m)
    <3>1. i - m \in 1..k-m /\ m + (i - m) = i
      BY <1>1, <2>2
    <3> QED
      BY <1>2, <1>3, <1>4, <2>2, <3>1
  <2> QED
    BY <2>1, <2>2
<1> QED
  BY <1>0, <1>1, <1>4, <1>5 DEF Begins

LEMMA BeginsStill ==
  ASSUME NEW s \in Lines, NEW t \in Lines, Begins(s, t), NEW e \in Worker \X (Nat \ {0})
  PROVE  Begins(s, Append(t, e)) /\ Len(Append(t, e)) = Len(t) + 1 /\ Len(t) \in Nat
<1>1. /\ Len(t) \in Nat /\ Len(s) \in Nat /\ Len(Append(t, e)) = Len(t) + 1
      /\ \A i \in 1..Len(t) : Append(t, e)[i] = t[i]
  BY LenProperties, AppendProperties DEF Lines
<1>2. Len(s) <= Len(t) + 1 /\ \A i \in 1..Len(s) : i \in 1..Len(t) /\ s[i] = t[i]
  BY <1>1 DEF Begins
<1> QED
  BY <1>1, <1>2 DEF Begins

LEMMA BeginsIsPrefix ==
  ASSUME NEW s \in Lines, NEW t \in Lines, Begins(s, t)
  PROVE  Prefix(s, t)
<1>0. PICK m, k, u : m = Len(s) /\ k = Len(t) /\ u = SubSeq(t, 1, m)
  OBVIOUS
<1>1. m \in Nat /\ k \in Nat /\ m <= k /\ \A i \in 1..m : s[i] = t[i] /\ i \in 1..k
  BY <1>0, LenProperties DEF Lines, Begins
<1>2. \A i \in 1..m : t[i] \in Worker \X (Nat \ {0})
  BY <1>0, <1>1, ElementOfSeq DEF Lines
<1>3. /\ u \in Lines /\ Len(u) = IF 1 <= m THEN m - 1 + 1 ELSE 0
      /\ \A i \in 1..m-1+1 : u[i] = t[1 + i - 1]
  BY <1>0, <1>1, <1>2, SubSeqProperties DEF Lines
<1>4. Len(u) = m /\ \A i \in 1..m : i \in 1..m-1+1 /\ 1 + i - 1 = i
  BY <1>1, <1>3
<1>5. Len(u) = Len(s) /\ \A i \in 1..Len(u) : u[i] = s[i]
  BY <1>0, <1>1, <1>3, <1>4
<1>6. u = s
  BY <1>3, <1>5, SeqEqual DEF Lines
<1> QED
  BY <1>0, <1>1, <1>6 DEF Prefix

-----------------------------------------------------------------------------
(* The inductive invariant.  Whatever the polls do:                        *)
WTyped ==
  /\ shown \in Job /\ request \in [Request -> {"free", "analyze", "reset"}]
  /\ thread \in [Worker -> Thread] /\ page \in Page /\ poll \in [Poll -> PollState]
  /\ \A k \in Poll : poll[k].at \in {"gotStatus", "answered"} => poll[k].status \in Answer
  /\ written \in Lines /\ orderly \in BOOLEAN
  /\ KeptIn(shown.log, written)
  /\ page.logOffset = Len(page.log)
  /\ \A i \in Phase : page.lastPS[i] = "done" => i \in page.loaded
  /\ shown.status = "running" => \E w \in Worker : thread[w].at \in {"running", "failed"}

(* While they are orderly: nothing but one analysis changes the job, ...   *)
Still(at) == at \in {"unborn", "ended"}
Settled == \A w \in Worker : thread[w].at \in {"unborn", "logError", "ended"}
SomeEnded == \E w \in Worker : thread[w].at = "ended"
Final(st) == st.status = "done" => st.phases = AtPhase(5) /\ st.results # {} /\ SomeEnded

(* the page asks for an analysis, and before that has asked for none       *)
Asking == page.post \in {"analyze", "checked"}
Unasked ==
  /\ \A w \in Worker : thread[w].at = "unborn"
  /\ Quiet /\ ~page.timer /\ ~page.reset /\ page.post = "none" /\ page.clear = "none"

ThreadsInOrder ==
  /\ \A v, w \in Worker : Still(thread[v].at) \/ Still(thread[w].at) \/ v = w
  /\ \A w \in Worker :
       /\ thread[w].at = "running" =>
            shown.status = "running" /\ shown.phases = AtPhase(thread[w].done + 1)
       /\ thread[w].at = "failed" => shown.status = "running"
  /\ Final(shown) \/ NotBegun \/ Asking \/ Unasked

(* ... the page shows nothing of it before it begins, and neither offers a *)
(* reset nor waits for one before it is over, ...                          *)
Resetting == page.reset \/ page.clear # "none"
Blank == page.log = <<>> /\ ~page.shown /\ ~page.reset

PageInOrder ==
  /\ page.post # "refused"
  /\ Asking => \A w \in Worker : Still(thread[w].at)
  /\ page.post \in {"analyze", "checked", "started"} => Blank /\ Quiet /\ ~page.timer
  /\ NotBegun => /\ Blank /\ page.post \in {"started", "none"}
                 /\ \A k \in Poll : poll[k].at \in {"free", "sent"}
  /\ Resetting => Settled /\ Quiet /\ ~page.timer /\ page.post = "none"

(* ... and the one poll in flight asks from where the page's log ends, and *)
(* brings what was the truth when it was asked.                            *)
PollsInOrder ==
  /\ \A j, k \in Poll : poll[j].at = "free" \/ poll[k].at = "free" \/ j = k
  /\ \A k \in Poll :
       /\ poll[k].at # "free" => poll[k].offset = page.logOffset
       /\ poll[k].at \in {"gotStatus", "answered"} =>
            /\ poll[k].status.status \in {"done", "error"} => Settled
            /\ Final(poll[k].status)
       /\ poll[k].at \in {"gotLog", "answered"} /\ Len(written) <= LogCap =>
            Begins(page.log \o poll[k].lines, written)

Shows ==
  /\ page.clear # "answered" /\ Len(written) <= LogCap => Begins(page.log, written)
  /\ page.shown => page.results # {} /\ page.loaded = Phase /\ SomeEnded

InOrder == ThreadsInOrder /\ PageInOrder /\ PollsInOrder /\ Shows

WInv == WTyped /\ (orderly => InOrder)

-----------------------------------------------------------------------------
(* What actions do, field by field.                                        *)
LEMMA WInitially == WInit => WInv
<1> SUFFICES ASSUME WInit PROVE WInv
  OBVIOUS
<1>1. /\ request = [r \in Request |-> "free"]
      /\ thread = [w \in Worker |-> [at |-> "unborn", done |-> 0]]
      /\ page = [post |-> "none", clear |-> "none", lost |-> FALSE, button |-> TRUE,
                 reset |-> FALSE, timer |-> FALSE, logOffset |-> 0, lastStatus |-> "idle", lastPS |-> IdlePhases, log |-> <<>>,
                 shown |-> FALSE, results |-> {}, loaded |-> {}]
      /\ poll = [k \in Poll |-> NoPoll] /\ written = <<>> /\ orderly = TRUE
  BY DEF WInit, Init
<1>2. <<>> \in Lines /\ Len(<<>>) = 0 /\ <<>> \in Seq(Worker)
  BY DEF Lines
<1>3. IdlePhases \in PhaseStatuses /\ \A i \in Phase : IdlePhases[i] = "idle"
  BY DEF IdlePhases, PhaseStatuses
<1>4. AtPhase(5) \in PhaseStatuses
  BY DEF AtPhase, PhaseStatuses, Phase
<1>5. shown \in Job /\ shown.log = <<>> /\ shown.status # "running"
  <2>1. PICK e, st, ph, found :
          /\ shown = [status |-> st, phases |-> ph, log |-> e, results |-> found]
          /\ e = <<>> /\ found \in SUBSET Project /\ st \in {"idle", "done"}
          /\ ph \in {IdlePhases, AtPhase(5)}
    <3>1. CASE shown = Nothing
      BY <3>1 DEF Nothing
    <3>2. CASE shown # Nothing
      BY <3>2 DEF WInit, Init
    <3> QED
      BY <3>1, <3>2
  <2> QED
    BY <1>2, <1>3, <1>4, <2>1 DEF Job, Status
<1>6. page \in Page
  <2>1. PICK e, z, n : e = <<>> /\ z = IdlePhases /\ n = {}
    OBVIOUS
  <2>2. /\ e \in Lines /\ z \in PhaseStatuses /\ n \in SUBSET Project /\ n \in SUBSET Phase
        /\ "idle" \in Status /\ "none" \in Posts_ /\ "none" \in Clears_
    BY <1>2, <1>3, <2>1 DEF Status, Posts_, Clears_
  <2>3. page = [post |-> "none", clear |-> "none", lost |-> FALSE, button |-> TRUE,
                reset |-> FALSE, timer |-> FALSE, logOffset |-> 0, lastStatus |-> "idle", lastPS |-> z, log |-> e,
                shown |-> FALSE, results |-> n, loaded |-> n]
    BY <1>1, <2>1
  <2> QED
    BY <2>2, <2>3 DEF Page
<1>7. NoPoll \in PollState /\ NoPoll.at = "free"
  BY <1>2 DEF NoPoll, PollState
<1>8. poll \in [Poll -> PollState] /\ \A k \in Poll : poll[k].at = "free"
  BY <1>1, <1>7
<1>9. thread \in [Worker -> Thread] /\ \A w \in Worker : thread[w].at = "unborn"
  BY <1>1 DEF Thread, Stages
<1>10. KeptIn(shown.log, written)
  BY <1>1, <1>2, <1>5, LogCapAssumption DEF KeptIn
<1>11. WTyped
  BY <1>1, <1>2, <1>3, <1>5, <1>6, <1>8, <1>9, <1>10 DEF WTyped
<1>12. Begins(<<>>, <<>>)
  BY <1>2 DEF Begins
<1>13. InOrder
  BY <1>1, <1>2, <1>8, <1>9, <1>12 DEF InOrder, ThreadsInOrder, PageInOrder, PollsInOrder, Shows,
     Still, Asking, Unasked, Blank, Resetting, Quiet, NotBegun
<1> QED
  BY <1>11, <1>13 DEF WInv

LEMMA Moves ==
  ASSUME NEW w \in Worker, NEW from, NEW to \in Stages, NEW done \in 0..4,
         thread \in [Worker -> Thread], Move(w, from, to, done)
  PROVE  /\ thread' \in [Worker -> Thread] /\ request' = request
         /\ thread[w].at = from /\ thread'[w].at = to /\ thread'[w].done = done
         /\ \A v \in Worker : v # w => thread'[v] = thread[v]
<1>1. PICK t : t = [at |-> to, done |-> done]
  OBVIOUS
<1>2. t \in Thread /\ t.at = to /\ t.done = done
  BY <1>1 DEF Thread
<1>3. thread' = [thread EXCEPT ![w] = t]
  BY <1>1 DEF Move
<1> QED
  BY <1>2, <1>3 DEF Move

(* A change of poll k alone.                                               *)
LEMMA PollChanges ==
  ASSUME NEW k \in Poll, NEW q \in PollState, poll \in [Poll -> PollState],
         poll' = [poll EXCEPT ![k] = q]
  PROVE  /\ poll' \in [Poll -> PollState] /\ poll'[k] = q
         /\ \A j \in Poll : j # k => poll'[j] = poll[j]
OBVIOUS

(* What a change of one of the page's POSTs leaves alone.                  *)
SameRest ==
  /\ page'.lost = page.lost /\ page'.button = page.button
  /\ page'.reset = page.reset /\ page'.timer = page.timer
  /\ page'.logOffset = page.logOffset /\ page'.lastStatus = page.lastStatus
  /\ page'.lastPS = page.lastPS /\ page'.log = page.log /\ page'.shown = page.shown
  /\ page'.results = page.results /\ page'.loaded = page.loaded

LEMMA Posted ==
  ASSUME page \in Page, NEW from, NEW to \in Posts_, Posts(from, to)
  PROVE  /\ page' \in Page /\ page.post = from /\ page'.post = to
         /\ page'.clear = page.clear /\ SameRest
BY DEF Posts, Page, SameRest

LEMMA Cleared ==
  ASSUME page \in Page, NEW from, NEW to \in Clears_, Clears(from, to)
  PROVE  /\ page' \in Page /\ page.clear = from /\ page'.clear = to
         /\ page'.post = page.post /\ SameRest
BY DEF Clears, Page, SameRest

-----------------------------------------------------------------------------
(* The threads.                                                            *)
LEMMA WBegin ==
  ASSUME WInv, NEW w \in Worker, Begin(w), written' = <<>>, UNCHANGED page, Others
  PROVE  WInv'
<1>1. /\ shown \in Job /\ thread \in [Worker -> Thread] /\ page \in Page
      /\ poll \in [Poll -> PollState]
      /\ WTyped /\ page' = page /\ poll' = poll /\ orderly' = orderly
  BY DEF WInv, WTyped, Others
<1>2. /\ thread' \in [Worker -> Thread] /\ request' = request
      /\ thread[w].at = "started" /\ thread'[w].at = "running" /\ thread'[w].done = 0
      /\ \A v \in Worker : v # w => thread'[v] = thread[v]
  BY <1>1, Moves DEF Begin, Stages
<1>3. AtPhase(1) \in PhaseStatuses
  BY DEF AtPhase, PhaseStatuses, Phase
<1>4. <<>> \in Lines /\ Len(<<>>) = 0 /\ <<>> \in Seq(Worker)
  BY DEF Lines
<1>5. /\ shown' \in Job /\ shown'.log = <<>> /\ shown'.status = "running"
      /\ shown'.phases = AtPhase(1)
  <2>1. PICK e, ph : e = <<>> /\ ph = AtPhase(1)
    OBVIOUS
  <2>2. shown' = [status |-> "running", phases |-> ph, log |-> e, results |-> {}]
    BY <2>1 DEF Begin
  <2> QED
    BY <1>3, <1>4, <2>1, <2>2 DEF Job, Status
<1>6. KeptIn(shown'.log, written')
  BY <1>4, <1>5, LogCapAssumption DEF KeptIn
<1>7. WTyped'
  BY <1>1, <1>2, <1>4, <1>5, <1>6 DEF WTyped
<1>8. ASSUME orderly
      PROVE  InOrder'
  <2>1. InOrder
    BY <1>8 DEF WInv
  <2>2. \A v \in Worker : v # w => Still(thread'[v].at) /\ Still(thread[v].at)
    BY <1>2, <2>1 DEF InOrder, ThreadsInOrder, Still
  <2>3. /\ NotBegun /\ page.log = <<>> /\ ~page.shown /\ ~page.reset
        /\ page.post \in {"started", "none"} /\ \A k \in Poll : poll[k].at \in {"free", "sent"}
    BY <1>2, <2>1 DEF InOrder, PageInOrder, NotBegun, Blank
  <2>4. ThreadsInOrder'
    BY <1>2, <1>5, <2>2 DEF ThreadsInOrder, Still, Final
  <2>9. ~Resetting /\ ~Asking
    BY <1>2, <2>1, <2>3 DEF InOrder, PageInOrder, Settled, Asking
  <2>5. PageInOrder'
    <3>1. ~Resetting' /\ ~Asking' /\ ~NotBegun'
      BY <1>1, <1>2, <2>2, <2>9 DEF Resetting, Asking, NotBegun, Still
    <3> QED
      BY <1>1, <2>1, <3>1 DEF InOrder, PageInOrder, Blank, Quiet
  <2>6. PollsInOrder'
    BY <1>1, <2>1, <2>3 DEF InOrder, PollsInOrder
  <2>7. Begins(<<>>, <<>>)
    BY <1>4 DEF Begins
  <2>8. Shows'
    BY <1>1, <2>3, <2>7 DEF Shows
  <2> QED
    BY <2>4, <2>5, <2>6, <2>8 DEF InOrder
<1> QED
  BY <1>1, <1>7, <1>8 DEF WInv

(* A line more.                                                            *)
LEMMA WLogs ==
  ASSUME WTyped, NEW w \in Worker, written' = Append(written, Line(w)),
         shown' = [shown EXCEPT !.log = Logged(w)], UNCHANGED page, UNCHANGED poll
  PROVE  /\ shown' \in Job /\ shown'.status = shown.status /\ shown'.phases = shown.phases
         /\ shown'.results = shown.results /\ KeptIn(shown'.log, written')
         /\ written' \in Lines
         /\ PollsInOrder => \A k \in Poll :
              poll[k].at \in {"gotLog", "answered"} /\ Len(written') <= LogCap =>
                Begins(page.log \o poll[k].lines, written')
         /\ Shows => (page.clear # "answered" /\ Len(written') <= LogCap =>
                        Begins(page.log, written'))
<1>1. /\ shown \in Job /\ page \in Page /\ poll \in [Poll -> PollState]
      /\ written \in Lines /\ KeptIn(shown.log, written)
  BY DEF WTyped
<1>2. shown.log \in Seq(Worker) /\ page.log \in Lines /\ \A k \in Poll : poll[k].lines \in Lines
  BY <1>1 DEF Job, Page, PollState
<1>3. PICK n, new, line : /\ n = Len(written) + 1 /\ new = Logged(w) /\ line = Line(w)
  OBVIOUS
<1>4. n \in Nat \ {0} /\ line = <<w, n>> /\ line \in Worker \X (Nat \ {0})
  BY <1>1, <1>3, LenProperties DEF Lines, Line
<1>5. new \in Seq(Worker) /\ written' \in Lines /\ KeptIn(new, written')
  <2>1. /\ Logged(w) \in Seq(Worker) /\ Append(written, <<w, n>>) \in Lines
        /\ KeptIn(Logged(w), Append(written, <<w, n>>))
    BY <1>1, <1>2, <1>4, LogGrows
  <2>2. written' = Append(written, <<w, n>>)
    BY <1>3, <1>4
  <2> QED
    BY <1>3, <2>1, <2>2
<1>6. /\ shown' \in Job /\ shown'.status = shown.status /\ shown'.phases = shown.phases
      /\ shown'.results = shown.results /\ shown'.log = new
  BY <1>1, <1>3, <1>5 DEF Job
<1>7. ASSUME NEW s \in Lines, Len(written') <= LogCap,
             Len(written) <= LogCap => Begins(s, written)
      PROVE  Begins(s, written')
  <2>1. LogCap \in Nat /\ Len(written) \in Nat /\ Len(written') = Len(written) + 1
    <3>1. written' = Append(written, line)
      BY <1>3
    <3> QED
      BY <1>1, <1>4, <3>1, LogCapAssumption, AppendProperties, LenProperties DEF Lines
  <2>2. Begins(s, written)
    BY <1>7, <2>1
  <2>3. Begins(s, Append(written, line))
    BY <1>1, <1>4, <2>2, BeginsStill
  <2> QED
    BY <1>3, <2>3
<1>8. \A k \in Poll : page.log \o poll[k].lines \in Lines
  BY <1>2, ConcatProperties DEF Lines
<1>9. PollsInOrder => \A k \in Poll :
        poll[k].at \in {"gotLog", "answered"} /\ Len(written') <= LogCap =>
          Begins(page.log \o poll[k].lines, written')
  BY <1>7, <1>8 DEF PollsInOrder
<1>10. Shows => (page.clear # "answered" /\ Len(written') <= LogCap =>
                   Begins(page.log, written'))
  BY <1>2, <1>7 DEF Shows
<1> QED
  BY <1>5, <1>6, <1>9, <1>10

LEMMA WReport ==
  ASSUME WInv, NEW w \in Worker, Report(w), written' = Append(written, Line(w)),
         UNCHANGED page, Others
  PROVE  WInv'
<1>1. WTyped /\ thread' = thread /\ request' = request /\ page' = page /\ poll' = poll
      /\ orderly' = orderly
  BY DEF WInv, Report, Others
<1>2. /\ shown' \in Job /\ shown'.status = shown.status /\ shown'.phases = shown.phases
      /\ shown'.results = shown.results /\ KeptIn(shown'.log, written')
      /\ written' \in Lines
      /\ PollsInOrder => \A k \in Poll :
           poll[k].at \in {"gotLog", "answered"} /\ Len(written') <= LogCap =>
             Begins(page.log \o poll[k].lines, written')
      /\ Shows => (page.clear # "answered" /\ Len(written') <= LogCap =>
                     Begins(page.log, written'))
  BY <1>1, WLogs DEF Report
<1>3. WTyped'
  BY <1>1, <1>2 DEF WTyped
<1>4. ASSUME orderly
      PROVE  InOrder'
  <2>1. ThreadsInOrder /\ PageInOrder /\ PollsInOrder /\ Shows
    BY <1>4 DEF WInv, InOrder
  <2>2. ThreadsInOrder'
    BY <1>1, <1>2, <2>1
       DEF ThreadsInOrder, Final, NotBegun, Asking, Unasked, Quiet, SomeEnded
  <2>3. PageInOrder'
    BY <1>1, <2>1 DEF PageInOrder, Asking, Blank, Quiet, NotBegun, Resetting, Settled
  <2>4. PollsInOrder'
    BY <1>1, <1>2, <2>1 DEF PollsInOrder, Settled, Final, SomeEnded
  <2>5. Shows'
    BY <1>1, <1>2, <2>1 DEF Shows, SomeEnded
  <2> QED
    BY <2>2, <2>3, <2>4, <2>5 DEF InOrder
<1> QED
  BY <1>1, <1>3, <1>4 DEF WInv

LEMMA WRestate ==
  ASSUME WInv, NEW w \in Worker, Restate(w), UNCHANGED written, UNCHANGED page, Others
  PROVE  WInv'
<1>1. WTyped /\ thread' = thread /\ request' = request /\ page' = page /\ poll' = poll
      /\ orderly' = orderly /\ shown \in Job /\ written' = written
  BY DEF WInv, WTyped, Restate, Others
<1>2. AtPhase(1) \in PhaseStatuses
  BY DEF AtPhase, PhaseStatuses, Phase
<1>3. /\ shown' \in Job /\ shown'.status = shown.status /\ shown'.phases = AtPhase(1)
      /\ shown'.results = shown.results /\ shown'.log = shown.log
  BY <1>1, <1>2 DEF Job, Restate
<1>4. WTyped'
  BY <1>1, <1>3 DEF WTyped
<1>5. thread[w].at = "running" /\ thread[w].done = 0
  BY DEF Restate
<1>6. ASSUME orderly
      PROVE  InOrder'
  <2>1. ThreadsInOrder /\ PageInOrder /\ PollsInOrder /\ Shows
    BY <1>6 DEF WInv, InOrder
  <2>2. shown.status = "running" /\ shown.phases = AtPhase(1)
    BY <1>5, <2>1 DEF ThreadsInOrder
  <2>3. ThreadsInOrder'
    BY <1>1, <1>3, <2>1, <2>2
       DEF ThreadsInOrder, Final, NotBegun, Asking, Unasked, Quiet, SomeEnded
  <2>4. PageInOrder'
    BY <1>1, <2>1 DEF PageInOrder, Asking, Blank, Quiet, NotBegun, Resetting, Settled
  <2>5. PollsInOrder'
    BY <1>1, <1>3, <2>1 DEF PollsInOrder, Settled, Final, SomeEnded
  <2>6. Shows'
    BY <1>1, <1>3, <2>1 DEF Shows, SomeEnded
  <2> QED
    BY <2>3, <2>4, <2>5, <2>6 DEF InOrder
<1> QED
  BY <1>1, <1>4, <1>6 DEF WInv

(* A thread that has begun goes on: no other one is alive, and the page    *)
(* has not asked for one.                                                  *)
LEMMA WGoesOn ==
  ASSUME InOrder, NEW w \in Worker, UNCHANGED page, UNCHANGED poll,
         thread \in [Worker -> Thread], thread' \in [Worker -> Thread],
         thread[w].at \in {"running", "failed", "logError"},
         thread'[w].at \in {"running", "failed", "logError", "ended"},
         thread[w].at = "logError" => thread'[w].at = "ended",
         \A v \in Worker : v # w => thread'[v] = thread[v]
  PROVE  /\ PageInOrder' /\ Final(shown)
         /\ \A v \in Worker : v # w => Still(thread'[v].at)
         /\ (Settled => Settled') /\ (SomeEnded => SomeEnded')
         /\ thread[w].at = "running" => shown.phases = AtPhase(thread[w].done + 1)
         /\ thread[w].at \in {"running", "failed"} => shown.status = "running" /\ ~Settled
<1>1. ThreadsInOrder /\ PageInOrder
  BY DEF InOrder
<1>2. \A v \in Worker : v # w => Still(thread[v].at) /\ Still(thread'[v].at)
  BY <1>1 DEF ThreadsInOrder, Still
<1>3. ~NotBegun /\ ~NotBegun' /\ ~Unasked
  BY <1>2 DEF NotBegun, Still, Unasked
<1>4. ~Asking
  BY <1>1 DEF PageInOrder, Still
<1>5. Settled => Settled'
  BY <1>2 DEF Settled, Still
<1>6. SomeEnded => SomeEnded'
  BY DEF SomeEnded
<1>7. PageInOrder'
  BY <1>1, <1>3, <1>4, <1>5 DEF PageInOrder, Asking, Blank, Quiet, Resetting
<1>8. /\ thread[w].at = "running" => shown.phases = AtPhase(thread[w].done + 1)
      /\ thread[w].at \in {"running", "failed"} => shown.status = "running"
  BY <1>1 DEF ThreadsInOrder
<1>9. thread[w].at \in {"running", "failed"} => ~Settled
  BY DEF Settled
<1> QED
  BY <1>1, <1>2, <1>3, <1>4, <1>5, <1>6, <1>7, <1>8, <1>9 DEF ThreadsInOrder

LEMMA WAdvance ==
  ASSUME WInv, NEW w \in Worker, Advance(w), UNCHANGED written, UNCHANGED page, Others
  PROVE  WInv'
<1>1. /\ WTyped /\ page' = page /\ poll' = poll /\ orderly' = orderly /\ written' = written
      /\ shown \in Job /\ thread \in [Worker -> Thread]
  BY DEF WInv, WTyped, Others
<1>0. PICK d : d = thread[w].done + 1
  OBVIOUS
<1>2. d \in 1..4 /\ d = thread[w].done + 1
  BY <1>0, <1>1 DEF Advance, Thread
<1>3. /\ thread' \in [Worker -> Thread] /\ request' = request
      /\ thread[w].at = "running" /\ thread'[w].at = "running" /\ thread'[w].done = d
      /\ \A v \in Worker : v # w => thread'[v] = thread[v]
  <2>1. Move(w, "running", "running", d)
    BY <1>0 DEF Advance
  <2>2. d \in 0..4 /\ "running" \in Stages
    BY <1>2 DEF Stages
  <2> QED
    BY <1>1, <2>1, <2>2, Moves
<1>4. AtPhase(d + 1) \in PhaseStatuses
  BY <1>2 DEF AtPhase, PhaseStatuses, Phase
<1>5. /\ shown' \in Job /\ shown'.status = shown.status /\ shown'.phases = AtPhase(d + 1)
      /\ shown'.results = shown.results /\ shown'.log = shown.log
  <2>1. thread[w].done + 2 = d + 1
    BY <1>1, <1>2 DEF Thread
  <2>2. shown' = [shown EXCEPT !.phases = AtPhase(d + 1)]
    BY <2>1 DEF Advance
  <2> QED
    BY <1>1, <1>4, <2>2 DEF Job
<1>6. WTyped'
  BY <1>1, <1>3, <1>5 DEF WTyped
<1>7. ASSUME orderly
      PROVE  InOrder'
  <2>1. InOrder /\ ThreadsInOrder /\ PollsInOrder /\ Shows
    BY <1>7 DEF WInv, InOrder
  <2>2. /\ PageInOrder' /\ shown.status = "running"
        /\ \A v \in Worker : v # w => Still(thread'[v].at)
        /\ (Settled => Settled') /\ (SomeEnded => SomeEnded')
        /\ ~Settled
    BY <1>1, <1>3, <2>1, WGoesOn
  <2>3. ThreadsInOrder'
    BY <1>3, <1>5, <2>2 DEF ThreadsInOrder, Final, Still
  <2>4. PollsInOrder'
    BY <1>1, <2>1, <2>2 DEF PollsInOrder, Final
  <2>5. Shows'
    BY <1>1, <2>1, <2>2 DEF Shows
  <2> QED
    BY <2>2, <2>3, <2>4, <2>5 DEF InOrder
<1> QED
  BY <1>1, <1>6, <1>7 DEF WInv

LEMMA WPublish ==
  ASSUME WInv, NEW w \in Worker, Publish(w), UNCHANGED written, UNCHANGED page, Others
  PROVE  WInv'
<1>1. /\ WTyped /\ page' = page /\ poll' = poll /\ orderly' = orderly
      /\ shown \in Job /\ thread \in [Worker -> Thread]
  BY DEF WInv, WTyped, Others
<1>2. /\ thread' \in [Worker -> Thread] /\ request' = request
      /\ thread[w].at = "running" /\ thread'[w].at = "ended"
      /\ \A v \in Worker : v # w => thread'[v] = thread[v]
  <2>1. Move(w, "running", "ended", 0)
    BY DEF Publish
  <2>2. 0 \in 0..4 /\ "ended" \in Stages
    BY DEF Stages
  <2> QED
    BY <1>1, <2>1, <2>2, Moves
<1>3. /\ shown' \in Job /\ shown'.status = "done" /\ shown'.phases = shown.phases
      /\ shown'.results # {} /\ shown'.log = shown.log /\ written' = written
  <2>1. PICK results \in (SUBSET Project) \ {{}} :
          shown' = [shown EXCEPT !.status = "done", !.results = results]
    BY DEF Publish
  <2> QED
    BY <1>1, <2>1 DEF Job, Status
<1>4. WTyped'
  BY <1>1, <1>2, <1>3 DEF WTyped
<1>5. ASSUME orderly
      PROVE  InOrder'
  <2>1. InOrder /\ ThreadsInOrder /\ PollsInOrder /\ Shows
    BY <1>5 DEF WInv, InOrder
  <2>2. /\ PageInOrder' /\ Final(shown)
        /\ \A v \in Worker : v # w => Still(thread'[v].at)
        /\ (Settled => Settled') /\ (SomeEnded => SomeEnded')
        /\ thread[w].at = "running" => shown.phases = AtPhase(thread[w].done + 1)
        /\ thread[w].at \in {"running", "failed"} => shown.status = "running" /\ ~Settled
    BY <1>1, <1>2, <2>1, WGoesOn
  <2>6. shown.phases = AtPhase(5)
    <3>1. thread[w].done = 4
      BY DEF Publish
    <3> QED
      BY <1>2, <2>2, <3>1
  <2>3. ThreadsInOrder'
    BY <1>2, <1>3, <2>2, <2>6 DEF ThreadsInOrder, Final, Still, SomeEnded
  <2>4. PollsInOrder'
    BY <1>1, <1>3, <2>1, <2>2 DEF PollsInOrder, Final
  <2>5. Shows'
    BY <1>1, <1>3, <2>1, <2>2 DEF Shows
  <2> QED
    BY <2>2, <2>3, <2>4, <2>5 DEF InOrder
<1> QED
  BY <1>1, <1>4, <1>5 DEF WInv


LEMMA WFail ==
  ASSUME WInv, NEW w \in Worker, Fail(w), UNCHANGED written, UNCHANGED page, Others
  PROVE  WInv'
<1>1. /\ WTyped /\ page' = page /\ poll' = poll /\ orderly' = orderly
      /\ shown \in Job /\ thread \in [Worker -> Thread]
  BY DEF WInv, WTyped, Others
<1>2. /\ thread' \in [Worker -> Thread] /\ request' = request
      /\ thread[w].at = "running" /\ thread'[w].at = "failed"
      /\ \A v \in Worker : v # w => thread'[v] = thread[v]
  <2>1. Move(w, "running", "failed", 0)
    BY DEF Fail
  <2>2. 0 \in 0..4 /\ "failed" \in Stages
    BY DEF Stages
  <2> QED
    BY <1>1, <2>1, <2>2, Moves
<1>3. shown' = shown /\ written' = written
  BY DEF Fail
<1>4. WTyped'
  BY <1>1, <1>2, <1>3 DEF WTyped
<1>5. ASSUME orderly
      PROVE  InOrder'
  <2>1. InOrder /\ ThreadsInOrder /\ PollsInOrder /\ Shows
    BY <1>5 DEF WInv, InOrder
  <2>2. /\ PageInOrder' /\ Final(shown)
        /\ \A v \in Worker : v # w => Still(thread'[v].at)
        /\ (Settled => Settled') /\ (SomeEnded => SomeEnded')
        /\ thread[w].at = "running" => shown.phases = AtPhase(thread[w].done + 1)
        /\ thread[w].at \in {"running", "failed"} => shown.status = "running" /\ ~Settled
    BY <1>1, <1>2, <2>1, WGoesOn
  <2>3. ThreadsInOrder'
    BY <1>2, <1>3, <2>2 DEF ThreadsInOrder, Final, Still
  <2>4. PollsInOrder'
    BY <1>1, <1>3, <2>1, <2>2 DEF PollsInOrder, Final
  <2>5. Shows'
    BY <1>1, <1>3, <2>1, <2>2 DEF Shows
  <2> QED
    BY <2>2, <2>3, <2>4, <2>5 DEF InOrder
<1> QED
  BY <1>1, <1>4, <1>5 DEF WInv


LEMMA WReportError ==
  ASSUME WInv, NEW w \in Worker, ReportError(w), UNCHANGED written, UNCHANGED page, Others
  PROVE  WInv'
<1>1. /\ WTyped /\ page' = page /\ poll' = poll /\ orderly' = orderly
      /\ shown \in Job /\ thread \in [Worker -> Thread]
  BY DEF WInv, WTyped, Others
<1>2. /\ thread' \in [Worker -> Thread] /\ request' = request
      /\ thread[w].at = "failed" /\ thread'[w].at = "logError"
      /\ \A v \in Worker : v # w => thread'[v] = thread[v]
  <2>1. Move(w, "failed", "logError", 0)
    BY DEF ReportError
  <2>2. 0 \in 0..4 /\ "logError" \in Stages
    BY DEF Stages
  <2> QED
    BY <1>1, <2>1, <2>2, Moves
<1>3. /\ shown' \in Job /\ shown'.status = "error" /\ shown'.phases = shown.phases
      /\ shown'.results = shown.results /\ shown'.log = shown.log /\ written' = written
  BY <1>1 DEF ReportError, Job, Status
<1>4. WTyped'
  BY <1>1, <1>2, <1>3 DEF WTyped
<1>5. ASSUME orderly
      PROVE  InOrder'
  <2>1. InOrder /\ ThreadsInOrder /\ PollsInOrder /\ Shows
    BY <1>5 DEF WInv, InOrder
  <2>2. /\ PageInOrder' /\ Final(shown)
        /\ \A v \in Worker : v # w => Still(thread'[v].at)
        /\ (Settled => Settled') /\ (SomeEnded => SomeEnded')
        /\ thread[w].at = "running" => shown.phases = AtPhase(thread[w].done + 1)
        /\ thread[w].at \in {"running", "failed"} => shown.status = "running" /\ ~Settled
    BY <1>1, <1>2, <2>1, WGoesOn
  <2>3. ThreadsInOrder'
    BY <1>2, <1>3, <2>2 DEF ThreadsInOrder, Final, Still
  <2>4. PollsInOrder'
    BY <1>1, <1>3, <2>1, <2>2 DEF PollsInOrder, Final
  <2>5. Shows'
    BY <1>1, <1>3, <2>1, <2>2 DEF Shows
  <2> QED
    BY <2>2, <2>3, <2>4, <2>5 DEF InOrder
<1> QED
  BY <1>1, <1>4, <1>5 DEF WInv


LEMMA WLogError ==
  ASSUME WInv, NEW w \in Worker, LogError(w), written' = Append(written, Line(w)),
         UNCHANGED page, Others
  PROVE  WInv'
<1>1. /\ WTyped /\ page' = page /\ poll' = poll /\ orderly' = orderly
      /\ shown \in Job /\ thread \in [Worker -> Thread]
  BY DEF WInv, WTyped, Others
<1>2. /\ thread' \in [Worker -> Thread] /\ request' = request
      /\ thread[w].at = "logError" /\ thread'[w].at = "ended"
      /\ \A v \in Worker : v # w => thread'[v] = thread[v]
  <2>1. Move(w, "logError", "ended", 0)
    BY DEF LogError
  <2>2. 0 \in 0..4 /\ "ended" \in Stages
    BY DEF Stages
  <2> QED
    BY <1>1, <2>1, <2>2, Moves
<1>3. /\ shown' \in Job /\ shown'.status = shown.status /\ shown'.phases = shown.phases
      /\ shown'.results = shown.results /\ KeptIn(shown'.log, written')
      /\ written' \in Lines
      /\ PollsInOrder => \A k \in Poll :
           poll[k].at \in {"gotLog", "answered"} /\ Len(written') <= LogCap =>
             Begins(page.log \o poll[k].lines, written')
      /\ Shows => (page.clear # "answered" /\ Len(written') <= LogCap =>
                     Begins(page.log, written'))
  BY <1>1, WLogs DEF LogError
<1>4. WTyped'
  BY <1>1, <1>2, <1>3 DEF WTyped
<1>5. ASSUME orderly
      PROVE  InOrder'
  <2>1. InOrder /\ ThreadsInOrder /\ PollsInOrder /\ Shows
    BY <1>5 DEF WInv, InOrder
  <2>2. /\ PageInOrder' /\ Final(shown)
        /\ \A v \in Worker : v # w => Still(thread'[v].at)
        /\ (Settled => Settled') /\ (SomeEnded => SomeEnded')
        /\ thread[w].at = "running" => shown.phases = AtPhase(thread[w].done + 1)
        /\ thread[w].at \in {"running", "failed"} => shown.status = "running" /\ ~Settled
    BY <1>1, <1>2, <2>1, WGoesOn
  <2>3. ThreadsInOrder'
    BY <1>2, <1>3, <2>2 DEF ThreadsInOrder, Final, Still
  <2>4. PollsInOrder'
    BY <1>1, <1>3, <2>1, <2>2 DEF PollsInOrder, Final
  <2>5. Shows'
    BY <1>1, <1>3, <2>1, <2>2 DEF Shows
  <2> QED
    BY <2>2, <2>3, <2>4, <2>5 DEF InOrder
<1> QED
  BY <1>1, <1>4, <1>5 DEF WInv


-----------------------------------------------------------------------------
(* The requests.                                                           *)

(* A step of one that changes neither the job nor a thread, ...            *)
LEMMA WChecks ==
  ASSUME WInv, NEW goal \in {"checked", "refused"}, Posts("analyze", goal),
         goal = "refused" => shown.status = "running",
         UNCHANGED written, Others, UNCHANGED <<shown, thread>>,
         request' \in [Request -> {"free", "analyze", "reset"}]
  PROVE  WInv'
<1>1. /\ WTyped /\ poll' = poll /\ orderly' = orderly /\ shown' = shown /\ thread' = thread
      /\ written' = written /\ page \in Page /\ thread \in [Worker -> Thread]
  BY DEF WInv, WTyped, Others
<1>2. /\ page' \in Page /\ page.post = "analyze" /\ page'.post = goal
      /\ page'.clear = page.clear /\ SameRest
  <2>1. goal \in Posts_
    BY DEF Posts_
  <2> QED
    BY <1>1, <2>1, Posted
<1>4. WTyped'
  BY <1>1, <1>2 DEF WTyped, SameRest
<1>5. ASSUME orderly
      PROVE  InOrder'
  <2>1. ThreadsInOrder /\ PageInOrder /\ PollsInOrder /\ Shows
    BY <1>5 DEF WInv, InOrder
  <2>2. goal = "checked"
    BY <1>1, <1>2, <2>1 DEF WTyped, PageInOrder, Asking, Still
  <2>3. ~NotBegun /\ Asking /\ ~Resetting
    BY <1>2, <2>1 DEF PageInOrder, NotBegun, Resetting, Asking
  <2>5. ThreadsInOrder'
    BY <1>1, <1>2, <2>1, <2>2 DEF ThreadsInOrder, Asking
  <2>6. PageInOrder'
    BY <1>1, <1>2, <2>1, <2>2, <2>3
       DEF PageInOrder, Asking, Resetting, NotBegun, Blank, Quiet, SameRest
  <2>7. PollsInOrder'
    BY <1>1, <1>2, <2>1 DEF PollsInOrder, Settled, Final, SomeEnded, SameRest
  <2>8. Shows'
    BY <1>1, <1>2, <2>1 DEF Shows, SomeEnded, SameRest
  <2> QED
    BY <2>5, <2>6, <2>7, <2>8 DEF InOrder
<1> QED
  BY <1>1, <1>4, <1>5 DEF WInv

LEMMA WClears ==
  ASSUME WInv, NEW goal \in {"checked", "answered"}, Clears("reset", goal),
         UNCHANGED written, Others, UNCHANGED <<shown, thread>>,
         request' \in [Request -> {"free", "analyze", "reset"}]
  PROVE  WInv'
<1>1. /\ WTyped /\ poll' = poll /\ orderly' = orderly /\ shown' = shown /\ thread' = thread
      /\ written' = written /\ page \in Page
  BY DEF WInv, WTyped, Others
<1>2. /\ page' \in Page /\ page.clear = "reset" /\ page'.clear = goal
      /\ page'.post = page.post /\ SameRest
  <2>1. goal \in Clears_
    BY DEF Clears_
  <2> QED
    BY <1>1, <2>1, Cleared
<1>4. WTyped'
  BY <1>1, <1>2 DEF WTyped, SameRest
<1>5. ASSUME orderly
      PROVE  InOrder'
  <2>1. ThreadsInOrder /\ PageInOrder /\ PollsInOrder /\ Shows
    BY <1>5 DEF WInv, InOrder
  <2>2. /\ Settled /\ Quiet /\ ~page.timer /\ page.post = "none"
        /\ ~NotBegun /\ ~Asking /\ ~Unasked
    BY <1>2, <2>1 DEF PageInOrder, Resetting, Settled, NotBegun, Asking, Unasked
  <2>3. ThreadsInOrder'
    BY <1>1, <2>1, <2>2 DEF ThreadsInOrder, Final, SomeEnded
  <2>4. PageInOrder'
    BY <1>1, <1>2, <2>2
       DEF PageInOrder, Asking, Resetting, NotBegun, Settled, Quiet, SameRest
  <2>5. PollsInOrder'
    BY <1>1, <2>2 DEF PollsInOrder, Quiet
  <2>6. Shows'
    BY <1>1, <1>2, <2>1 DEF Shows, SomeEnded, SameRest
  <2> QED
    BY <2>3, <2>4, <2>5, <2>6 DEF InOrder
<1> QED
  BY <1>1, <1>4, <1>5 DEF WInv

(* ... the one that starts a thread, ...                                   *)
LEMMA WStarts ==
  ASSUME WInv, NEW r \in Request, NEW w \in Worker, AnalyzeStart(r, w),
         Posts("checked", "started"), UNCHANGED written, Others
  PROVE  WInv'
<1>1. /\ WTyped /\ poll' = poll /\ orderly' = orderly /\ shown' = shown
      /\ written' = written /\ page \in Page /\ thread \in [Worker -> Thread]
      /\ request \in [Request -> {"free", "analyze", "reset"}]
  BY DEF WInv, WTyped, Others, AnalyzeStart
<1>2. /\ page' \in Page /\ page.post = "checked" /\ page'.post = "started"
      /\ page'.clear = page.clear /\ SameRest
  <2>1. "started" \in Posts_
    BY DEF Posts_
  <2> QED
    BY <1>1, <2>1, Posted
<1>3. request' \in [Request -> {"free", "analyze", "reset"}]
  BY <1>1 DEF AnalyzeStart, Pass
<1>4. /\ thread' \in [Worker -> Thread] /\ thread[w].at = "unborn" /\ thread'[w].at = "started"
      /\ \A v \in Worker : v # w => thread'[v] = thread[v]
  <2>1. PICK t : t = [thread[w] EXCEPT !.at = "started"]
    OBVIOUS
  <2>2. t \in Thread /\ t.at = "started"
    BY <1>1, <2>1 DEF Thread, Stages
  <2>3. thread' = [thread EXCEPT ![w] = t]
    BY <2>1 DEF AnalyzeStart
  <2> QED
    BY <1>1, <2>2, <2>3 DEF AnalyzeStart
<1>5. WTyped'
  BY <1>1, <1>2, <1>3, <1>4 DEF WTyped, SameRest
<1>6. ASSUME orderly
      PROVE  InOrder'
  <2>1. ThreadsInOrder /\ PageInOrder /\ PollsInOrder /\ Shows
    BY <1>6 DEF WInv, InOrder
  <2>2. /\ Asking /\ (\A v \in Worker : Still(thread[v].at)) /\ Blank /\ Quiet
        /\ ~page.timer /\ ~Resetting
    BY <1>2, <2>1 DEF PageInOrder, Asking, Resetting
  <2>3. NotBegun' /\ Quiet' /\ Blank'
    BY <1>1, <1>2, <1>4, <2>2 DEF NotBegun, Quiet, Blank, SameRest
  <2>4. ThreadsInOrder'
    BY <1>1, <1>4, <2>2, <2>3 DEF ThreadsInOrder, Still
  <2>5. PageInOrder'
    BY <1>1, <1>2, <2>2, <2>3 DEF PageInOrder, Asking, Resetting, Quiet, Blank, SameRest
  <2>6. PollsInOrder'
    BY <2>3 DEF PollsInOrder, Quiet
  <2>7. Shows'
    BY <1>1, <1>2, <2>1, <2>2 DEF Shows, Blank, SameRest
  <2> QED
    BY <2>4, <2>5, <2>6, <2>7 DEF InOrder
<1> QED
  BY <1>1, <1>5, <1>6 DEF WInv

(* ... and the one that forgets the job.                                   *)
LEMMA WForgets ==
  ASSUME WInv, NEW r \in Request, ResetApply(r), Clears("checked", "answered"),
         written' = <<>>, Others
  PROVE  WInv'
<1>1. /\ WTyped /\ poll' = poll /\ orderly' = orderly /\ thread' = thread
      /\ page \in Page /\ thread \in [Worker -> Thread]
      /\ request \in [Request -> {"free", "analyze", "reset"}]
  BY DEF WInv, WTyped, Others, ResetApply
<1>2. /\ page' \in Page /\ page.clear = "checked" /\ page'.clear = "answered"
      /\ page'.post = page.post /\ SameRest
  <2>1. "answered" \in Clears_
    BY DEF Clears_
  <2> QED
    BY <1>1, <2>1, Cleared
<1>3. request' \in [Request -> {"free", "analyze", "reset"}]
  BY <1>1 DEF ResetApply, Pass
<1>4. <<>> \in Lines /\ Len(<<>>) = 0 /\ <<>> \in Seq(Worker)
  BY DEF Lines
<1>5. shown' \in Job /\ shown'.log = <<>> /\ shown'.status = "idle"
  <2>1. PICK e, ph : e = <<>> /\ ph = IdlePhases
    OBVIOUS
  <2>2. shown' = [status |-> "idle", phases |-> ph, log |-> e, results |-> {}]
    BY <2>1 DEF ResetApply, Nothing
  <2>3. ph \in PhaseStatuses
    BY <2>1 DEF IdlePhases, PhaseStatuses
  <2> QED
    BY <1>4, <2>1, <2>2, <2>3 DEF Job, Status
<1>6. KeptIn(shown'.log, written')
  BY <1>4, <1>5, LogCapAssumption DEF KeptIn
<1>7. WTyped'
  BY <1>1, <1>2, <1>3, <1>4, <1>5, <1>6 DEF WTyped, SameRest
<1>8. ASSUME orderly
      PROVE  InOrder'
  <2>1. ThreadsInOrder /\ PageInOrder /\ PollsInOrder /\ Shows
    BY <1>8 DEF WInv, InOrder
  <2>2. Settled /\ Quiet /\ ~page.timer /\ page.post = "none"
    BY <1>2, <2>1 DEF PageInOrder, Resetting
  <2>3. ThreadsInOrder'
    BY <1>1, <1>5, <2>1, <2>2 DEF ThreadsInOrder, Final, Settled
  <2>4. PageInOrder'
    BY <1>1, <1>2, <2>2
       DEF PageInOrder, Asking, Resetting, NotBegun, Settled, Quiet, SameRest
  <2>5. PollsInOrder'
    BY <1>1, <2>2 DEF PollsInOrder, Quiet
  <2>6. Shows'
    BY <1>1, <1>2, <2>1 DEF Shows, SomeEnded, SameRest
  <2> QED
    BY <2>3, <2>4, <2>5, <2>6 DEF InOrder
<1> QED
  BY <1>1, <1>7, <1>8 DEF WInv

-----------------------------------------------------------------------------
(* The page.                                                               *)
LEMMA WClickAnalyze ==
  ASSUME WInv, ClickAnalyze
  PROVE  WInv'
<1>1. /\ WTyped /\ poll' = poll /\ shown' = shown /\ thread' = thread /\ request' = request
      /\ written' = written /\ page \in Page
      /\ orderly' = (Quiet /\ ~page.timer /\ page.clear = "none" /\
                     \A w \in Worker : thread[w].at \in {"unborn", "ended"})
  BY DEF WInv, WTyped, ClickAnalyze, view
<1>2. <<>> \in Lines /\ Len(<<>>) = 0
  BY DEF Lines
<1>3. IdlePhases \in PhaseStatuses /\ \A i \in Phase : IdlePhases[i] = "idle"
  BY DEF IdlePhases, PhaseStatuses
<1>4. /\ page' \in Page /\ page'.post = "analyze" /\ page'.reset = FALSE
      /\ page'.clear = page.clear
      /\ page'.timer = page.timer /\ page'.logOffset = 0 /\ page'.lastPS = IdlePhases
      /\ page'.log = <<>> /\ page'.shown = FALSE
  <2>1. PICK e, z, n : e = <<>> /\ z = IdlePhases /\ n = {}
    OBVIOUS
  <2>2. /\ e \in Lines /\ z \in PhaseStatuses /\ n \in SUBSET Project /\ n \in SUBSET Phase
        /\ "idle" \in Status /\ "analyze" \in Posts_
    BY <1>2, <1>3, <2>1 DEF Status, Posts_
  <2>3. page' = [page EXCEPT !.post = "analyze", !.lost = FALSE, !.button = FALSE,
                             !.reset = FALSE, !.logOffset = 0, !.lastStatus = "idle",
                             !.lastPS = z, !.log = e, !.shown = FALSE, !.results = n, !.loaded = n]
    BY <2>1 DEF ClickAnalyze
  <2> QED
    BY <1>1, <2>1, <2>2, <2>3 DEF Page
<1>5. WTyped'
  <2>1. orderly' \in BOOLEAN
    BY <1>1
  <2> QED
    BY <1>1, <1>2, <1>3, <1>4, <2>1 DEF WTyped
<1>6. ASSUME orderly'
      PROVE  InOrder'
  <2>1. /\ Quiet /\ ~page.timer /\ page.clear = "none"
        /\ \A w \in Worker : thread[w].at \in {"unborn", "ended"}
    BY <1>1, <1>6
  <2>2. shown.status # "running"
    BY <1>1, <2>1 DEF WTyped
  <2>3. ThreadsInOrder'
    BY <1>1, <1>4, <2>1 DEF ThreadsInOrder, Still, Asking
  <2>4. PageInOrder'
    BY <1>1, <1>4, <2>1 DEF PageInOrder, Asking, Blank, Quiet, NotBegun, Resetting, Still
  <2>5. PollsInOrder'
    BY <1>1, <2>1 DEF PollsInOrder, Quiet
  <2>6. Begins(<<>>, written)
    BY <1>1, <1>2, LenProperties DEF Begins, WTyped, Lines
  <2>7. Shows'
    BY <1>1, <1>4, <2>6 DEF Shows
  <2> QED
    BY <2>3, <2>4, <2>5, <2>7 DEF InOrder
<1> QED
  BY <1>5, <1>6 DEF WInv

LEMMA WClickReset ==
  ASSUME WInv, ClickReset
  PROVE  WInv'
<1>1. /\ WTyped /\ poll' = poll /\ shown' = shown /\ thread' = thread /\ request' = request
      /\ written' = written /\ page \in Page /\ orderly' = orderly
  BY DEF WInv, WTyped, ClickReset, view
<1>2. Clears("none", "reset") /\ page.reset /\ page.post = "none"
  BY DEF ClickReset
<1>3. /\ page' \in Page /\ page'.clear = "reset"
      /\ page'.post = "none" /\ SameRest
  <2>1. "reset" \in Clears_
    BY DEF Clears_
  <2> QED
    BY <1>1, <1>2, <2>1, Cleared
<1>4. WTyped'
  BY <1>1, <1>3 DEF WTyped, SameRest
<1>5. ASSUME orderly
      PROVE  InOrder'
  <2>1. ThreadsInOrder /\ PageInOrder /\ PollsInOrder /\ Shows
    BY <1>5 DEF WInv, InOrder
  <2>2. Settled /\ Quiet /\ ~page.timer /\ ~Asking /\ ~Unasked
    BY <1>2, <1>3, <2>1 DEF PageInOrder, Resetting, Asking, Unasked
  <2>3. ThreadsInOrder'
    BY <1>1, <2>1, <2>2 DEF ThreadsInOrder, Final, NotBegun, SomeEnded
  <2>4. PageInOrder'
    BY <1>1, <1>3, <2>2
       DEF PageInOrder, Asking, Resetting, NotBegun, Settled, Quiet, SameRest
  <2>5. PollsInOrder'
    BY <1>1, <2>2 DEF PollsInOrder, Quiet
  <2>6. Shows'
    BY <1>1, <1>2, <1>3, <2>1 DEF Shows, SomeEnded, SameRest, Clears
  <2> QED
    BY <2>3, <2>4, <2>5, <2>6 DEF InOrder
<1> QED
  BY <1>1, <1>4, <1>5 DEF WInv

LEMMA WAnalyzeRefused ==
  ASSUME WInv, AnalyzeRefused
  PROVE  WInv'
<1>1. /\ WTyped /\ poll' = poll /\ shown' = shown /\ thread' = thread /\ request' = request
      /\ written' = written /\ page \in Page /\ orderly' = orderly
  BY DEF WInv, WTyped, AnalyzeRefused, view
<1>2. /\ page' \in Page /\ page'.logOffset = page.logOffset /\ page'.lastPS = page.lastPS
      /\ page'.log = page.log /\ page'.loaded = page.loaded
  BY <1>1 DEF AnalyzeRefused, Page, Posts_
<1>3. WTyped'
  BY <1>1, <1>2 DEF WTyped
<1>4. ~orderly
  BY DEF WInv, InOrder, PageInOrder, AnalyzeRefused
<1> QED
  BY <1>1, <1>3, <1>4 DEF WInv

LEMMA WAnalyzeLost ==
  ASSUME WInv, AnalyzeLost
  PROVE  WInv'
<1>1. /\ WTyped /\ poll' = poll /\ shown' = shown /\ thread' = thread /\ request' = request
      /\ written' = written /\ page \in Page /\ orderly' = FALSE
  BY DEF WInv, WTyped, AnalyzeLost, view
<1>2. /\ page' \in Page /\ page'.logOffset = page.logOffset /\ page'.lastPS = page.lastPS
      /\ page'.log = page.log /\ page'.loaded = page.loaded
  <2>1. PICK b : b = ~page.button
    OBVIOUS
  <2>2. page' = [page EXCEPT !.post = "none", !.lost = b] /\ b \in BOOLEAN
    BY <2>1 DEF AnalyzeLost
  <2> QED
    BY <1>1, <2>2 DEF Page, Posts_, Clears_
<1>3. WTyped'
  BY <1>1, <1>2 DEF WTyped
<1> QED
  BY <1>1, <1>3 DEF WInv

LEMMA WResetLost ==
  ASSUME WInv, ResetLost
  PROVE  WInv'
<1>1. /\ WTyped /\ poll' = poll /\ shown' = shown /\ thread' = thread /\ request' = request
      /\ written' = written /\ page \in Page /\ orderly' = FALSE
  BY DEF WInv, WTyped, ResetLost, view
<1>2. /\ page' \in Page /\ page'.logOffset = page.logOffset /\ page'.lastPS = page.lastPS
      /\ page'.log = page.log /\ page'.loaded = page.loaded
  <2>1. PICK b : b = ~page.button
    OBVIOUS
  <2>2. page' = [page EXCEPT !.clear = "none", !.lost = b] /\ b \in BOOLEAN
    BY <2>1 DEF ResetLost
  <2> QED
    BY <1>1, <2>2 DEF Page, Posts_, Clears_
<1>3. WTyped'
  BY <1>1, <1>2 DEF WTyped
<1> QED
  BY <1>1, <1>3 DEF WInv

LEMMA WResetReturns ==
  ASSUME WInv, ResetReturns
  PROVE  WInv'
<1>1. /\ WTyped /\ poll' = poll /\ shown' = shown /\ thread' = thread /\ request' = request
      /\ written' = written /\ page \in Page /\ orderly' = orderly
  BY DEF WInv, WTyped, ResetReturns, view
<1>2. <<>> \in Lines /\ Len(<<>>) = 0
  BY DEF Lines
<1>3. /\ page' \in Page /\ page.clear = "answered" /\ page'.clear = "none"
      /\ page'.post = page.post
      /\ page'.timer = FALSE /\ page'.reset = FALSE /\ page'.logOffset = 0
      /\ page'.lastPS = page.lastPS /\ page'.log = <<>> /\ page'.shown = page.shown
      /\ page'.results = page.results /\ page'.loaded = page.loaded
  <2>1. PICK e : e = <<>>
    OBVIOUS
  <2>2. e \in Lines /\ "idle" \in Status /\ "none" \in Clears_
    BY <1>2, <2>1 DEF Status, Clears_
  <2>3. page' = [page EXCEPT !.clear = "none", !.timer = FALSE, !.button = TRUE,
                             !.reset = FALSE, !.log = e, !.logOffset = 0, !.lastStatus = "idle"]
    BY <2>1 DEF ResetReturns
  <2>4. page.clear = "answered"
    BY DEF ResetReturns
  <2> QED
    BY <1>1, <2>1, <2>2, <2>3, <2>4 DEF Page
<1>4. WTyped'
  BY <1>1, <1>2, <1>3 DEF WTyped
<1>5. ASSUME orderly
      PROVE  InOrder'
  <2>1. ThreadsInOrder /\ PageInOrder /\ PollsInOrder /\ Shows
    BY <1>5 DEF WInv, InOrder
  <2>2. Settled /\ Quiet /\ ~Asking /\ ~Unasked /\ page.post = "none"
    BY <1>3, <2>1 DEF PageInOrder, Resetting, Asking, Unasked
  <2>3. ThreadsInOrder'
    BY <1>1, <2>1, <2>2 DEF ThreadsInOrder, Final, NotBegun, SomeEnded
  <2>4. PageInOrder'
    BY <1>1, <1>3, <2>2 DEF PageInOrder, Asking, Resetting, NotBegun, Settled, Quiet
  <2>5. PollsInOrder'
    BY <1>1, <2>2 DEF PollsInOrder, Quiet
  <2>6. Begins(<<>>, written)
    BY <1>1, <1>2, LenProperties DEF Begins, WTyped, Lines
  <2>7. Shows'
    BY <1>1, <1>3, <2>1, <2>6 DEF Shows, SomeEnded
  <2> QED
    BY <2>3, <2>4, <2>5, <2>7 DEF InOrder
<1> QED
  BY <1>1, <1>4, <1>5 DEF WInv

-----------------------------------------------------------------------------
(* The polls.                                                              *)
LEMMA WSends ==
  ASSUME NEW k \in Poll, Send(k), WTyped
  PROVE  /\ poll' \in [Poll -> PollState] /\ poll[k].at = "free"
         /\ poll'[k].at = "sent" /\ poll'[k].offset = page.logOffset
         /\ \A j \in Poll : j # k => poll'[j] = poll[j]
<1>1. PICK e, n, o, q : /\ e = <<>> /\ n = NoPoll /\ o = page.logOffset
                        /\ q = [n EXCEPT !.at = "sent", !.offset = o]
  OBVIOUS
<1>2. e \in Lines /\ e \in {<<>>} \cup Answer
  BY <1>1 DEF Lines
<1>3. o \in Nat
  BY <1>1 DEF WTyped, Page
<1>4. n \in PollState
  <2>1. n = [at |-> "free", offset |-> 0, status |-> e, lines |-> e]
    BY <1>1 DEF NoPoll
  <2> QED
    BY <1>2, <2>1 DEF PollState
<1>5. q \in PollState /\ q.at = "sent" /\ q.offset = o
  BY <1>1, <1>3, <1>4 DEF PollState
<1>6. poll' = [poll EXCEPT ![k] = q] /\ poll[k].at = "free"
  BY <1>1 DEF Send
<1>7. poll \in [Poll -> PollState]
  BY DEF WTyped
<1> QED
  BY <1>1, <1>5, <1>6, <1>7, PollChanges

(* The next poll, of the page whose analysis has been started or that runs *)
(* its timer.                                                              *)
LEMMA WPolls ==
  ASSUME WInv, NEW k \in Poll, Send(k), UNCHANGED view, UNCHANGED written, page' \in Page,
         \/ page.post = "started" /\ page'.post = "none"
         \/ page.timer /\ page'.post = page.post,
         page'.clear = page.clear, page'.timer, page'.reset = page.reset,
         page'.logOffset = page.logOffset, page'.lastPS = page.lastPS,
         page'.log = page.log, page'.shown = page.shown, page'.results = page.results,
         page'.loaded = page.loaded
  PROVE  WInv'
<1>1. /\ WTyped /\ shown' = shown /\ thread' = thread /\ request' = request
      /\ written' = written /\ orderly' = (orderly /\ Quiet) /\ orderly \in BOOLEAN
  BY DEF WInv, WTyped, Send, view
<1>2. /\ poll' \in [Poll -> PollState] /\ poll[k].at = "free"
      /\ poll'[k].at = "sent" /\ poll'[k].offset = page.logOffset
      /\ \A j \in Poll : j # k => poll'[j] = poll[j]
  BY <1>1, WSends
<1>3. WTyped'
  <2>1. \A j \in Poll :
          poll'[j].at \in {"gotStatus", "answered"} => poll'[j].status \in Answer
    BY <1>1, <1>2 DEF WTyped
  <2>2. orderly' \in BOOLEAN
    BY <1>1
  <2> QED
    BY <1>1, <1>2, <2>1, <2>2 DEF WTyped
<1>4. ASSUME orderly'
      PROVE  InOrder'
  <2>1. ThreadsInOrder /\ PageInOrder /\ PollsInOrder /\ Shows /\ Quiet
    BY <1>1, <1>4 DEF WInv, InOrder
  <2>2. ~Asking /\ ~Resetting /\ ~Unasked
    BY <2>1 DEF PageInOrder, Resetting, Asking, Unasked, Blank
  <2>3. ~Asking' /\ ~Resetting'
    BY <2>2 DEF Asking, Resetting
  <2>4. \A j \in Poll : j # k => poll'[j].at = "free"
    BY <1>2, <2>1 DEF Quiet
  <2>5. ThreadsInOrder'
    BY <1>1, <2>1, <2>2 DEF ThreadsInOrder, Final, NotBegun, SomeEnded
  <2>6. PageInOrder'
    BY <1>1, <1>2, <2>1, <2>2, <2>3, <2>4 DEF PageInOrder, Blank, NotBegun, Asking
  <2>7. PollsInOrder'
    BY <1>2, <2>4 DEF PollsInOrder
  <2>8. Shows'
    BY <1>1, <2>1, <2>2 DEF Shows, SomeEnded, Resetting
  <2> QED
    BY <2>5, <2>6, <2>7, <2>8 DEF InOrder
<1> QED
  BY <1>3, <1>4 DEF WInv

(* The two answers.                                                        *)
LEMMA WStatus ==
  ASSUME WInv, NEW k \in Poll, api_status(k)
  PROVE  WInv'
<1>1. /\ WTyped /\ shown' = shown /\ thread' = thread /\ request' = request /\ page' = page
      /\ written' = written /\ orderly' = (orderly /\ ~NotBegun) /\ orderly \in BOOLEAN
      /\ poll \in [Poll -> PollState] /\ shown \in Job
  BY DEF WInv, WTyped, api_status, view
<1>2. PICK a, st, q :
        /\ a = IF poll[k].at = "sent" THEN "gotStatus" ELSE "answered"
        /\ st = [status |-> shown.status, phases |-> shown.phases, results |-> shown.results]
        /\ q = [poll[k] EXCEPT !.at = a, !.status = st]
  OBVIOUS
<1>3. /\ st \in Answer /\ st.status = shown.status /\ st.phases = shown.phases
      /\ st.results = shown.results
  BY <1>1, <1>2 DEF Job, Answer
<1>4. /\ poll[k].at \in {"sent", "gotLog"} /\ a \in {"gotStatus", "answered"}
      /\ a = "answered" => poll[k].at = "gotLog"
  BY <1>2 DEF api_status
<1>5. /\ q \in PollState /\ q.at = a /\ q.status = st /\ q.offset = poll[k].offset
      /\ q.lines = poll[k].lines
  BY <1>1, <1>2, <1>3, <1>4 DEF PollState
<1>6. poll' = [poll EXCEPT ![k] = q]
  BY <1>1, <1>2 DEF api_status
<1>7. /\ poll' \in [Poll -> PollState] /\ poll'[k] = q
      /\ \A j \in Poll : j # k => poll'[j] = poll[j]
  BY <1>1, <1>5, <1>6, PollChanges
<1>8. WTyped'
  <2>1. \A j \in Poll :
          poll'[j].at \in {"gotStatus", "answered"} => poll'[j].status \in Answer
    BY <1>1, <1>3, <1>5, <1>7 DEF WTyped
  <2>2. orderly' \in BOOLEAN
    BY <1>1
  <2> QED
    BY <1>1, <1>7, <2>1, <2>2 DEF WTyped
<1>9. ASSUME orderly'
      PROVE  InOrder'
  <2>1. ThreadsInOrder /\ PageInOrder /\ PollsInOrder /\ Shows /\ ~NotBegun
    BY <1>1, <1>9 DEF WInv, InOrder
  <2>2. ~Quiet /\ ~Asking /\ ~Resetting /\ ~Unasked
    BY <1>4, <2>1 DEF Quiet, PageInOrder, Asking, Unasked
  <2>3. ThreadsInOrder' /\ Final(shown)
    BY <1>1, <2>1, <2>2 DEF ThreadsInOrder, Final, NotBegun, SomeEnded, Asking
  <2>4. PageInOrder'
    BY <1>1, <2>1, <2>2 DEF PageInOrder, Asking, Resetting, Blank, NotBegun
  <2>5. shown.status \in {"done", "error"} => Settled
    BY <1>1, <2>1 DEF ThreadsInOrder, NotBegun, Settled, WTyped, Thread, Stages
  <2>6. Final(st)
    BY <1>3, <2>3 DEF Final
  <2>7. PollsInOrder'
    <3>1. \A i, j \in Poll : poll'[i].at = "free" \/ poll'[j].at = "free" \/ i = j
      BY <1>4, <1>7, <2>1 DEF PollsInOrder
    <3>2. ASSUME NEW j \in Poll
          PROVE  /\ poll'[j].at # "free" => poll'[j].offset = page.logOffset
                 /\ poll'[j].at \in {"gotStatus", "answered"} =>
                      /\ poll'[j].status.status \in {"done", "error"} => Settled
                      /\ Final(poll'[j].status)
                 /\ poll'[j].at \in {"gotLog", "answered"} /\ Len(written) <= LogCap =>
                      Begins(page.log \o poll'[j].lines, written)
      <4>1. CASE j = k
        <5>1. poll[k].at # "free" /\ poll'[k].offset = poll[k].offset /\ poll'[k].status = st
          BY <1>4, <1>5, <1>7
        <5>2. poll'[k].offset = page.logOffset
          BY <2>1, <5>1 DEF PollsInOrder
        <5>3. poll'[k].at \in {"gotLog", "answered"} =>
                poll[k].at \in {"gotLog", "answered"} /\ poll'[k].lines = poll[k].lines
          BY <1>4, <1>5, <1>7
        <5> QED
          BY <1>3, <2>1, <2>5, <2>6, <4>1, <5>1, <5>2, <5>3 DEF PollsInOrder
      <4>2. CASE j # k
        BY <1>7, <2>1, <4>2 DEF PollsInOrder
      <4> QED
        BY <4>1, <4>2
    <3> QED
      BY <1>1, <3>1, <3>2 DEF PollsInOrder, Settled, Final, SomeEnded
  <2>8. Shows'
    BY <1>1, <2>1 DEF Shows, SomeEnded
  <2> QED
    BY <2>3, <2>4, <2>7, <2>8 DEF InOrder
<1> QED
  BY <1>8, <1>9 DEF WInv

LEMMA WLog ==
  ASSUME WInv, NEW k \in Poll, api_log(k)
  PROVE  WInv'
<1>1. /\ WTyped /\ shown' = shown /\ thread' = thread /\ request' = request /\ page' = page
      /\ written' = written /\ orderly' = (orderly /\ ~NotBegun) /\ orderly \in BOOLEAN
      /\ poll \in [Poll -> PollState] /\ shown \in Job /\ written \in Lines /\ page \in Page
      /\ KeptIn(shown.log, written) /\ page.logOffset = Len(page.log)
  BY DEF WInv, WTyped, api_log, view
<1>2. PICK a, o, ls, q :
        /\ a = IF poll[k].at = "sent" THEN "gotLog" ELSE "answered"
        /\ o = poll[k].offset /\ ls = Since(o)
        /\ q = [poll[k] EXCEPT !.at = a, !.lines = ls]
  OBVIOUS
<1>3. shown.log \in Seq(Worker) /\ o \in Nat /\ page.log \in Lines
  BY <1>1, <1>2 DEF Job, PollState, Page
<1>4. ls \in Lines
  BY <1>1, <1>2, <1>3, SinceIs
<1>5. /\ poll[k].at \in {"sent", "gotStatus"} /\ a \in {"gotLog", "answered"}
      /\ a = "answered" => poll[k].at = "gotStatus"
  BY <1>2 DEF api_log
<1>6. /\ q \in PollState /\ q.at = a /\ q.status = poll[k].status /\ q.offset = o
      /\ q.lines = ls
  BY <1>1, <1>2, <1>4, <1>5 DEF PollState
<1>7. poll' = [poll EXCEPT ![k] = q]
  BY <1>1, <1>2 DEF api_log
<1>8. /\ poll' \in [Poll -> PollState] /\ poll'[k] = q
      /\ \A j \in Poll : j # k => poll'[j] = poll[j]
  BY <1>1, <1>6, <1>7, PollChanges
<1>9. WTyped'
  <2>1. \A j \in Poll :
          poll'[j].at \in {"gotStatus", "answered"} => poll'[j].status \in Answer
    BY <1>1, <1>5, <1>6, <1>8 DEF WTyped
  <2>2. orderly' \in BOOLEAN
    BY <1>1
  <2> QED
    BY <1>1, <1>8, <2>1, <2>2 DEF WTyped
<1>10. ASSUME orderly'
       PROVE  InOrder'
  <2>1. ThreadsInOrder /\ PageInOrder /\ PollsInOrder /\ Shows /\ ~NotBegun
    BY <1>1, <1>10 DEF WInv, InOrder
  <2>2. ~Quiet /\ ~Asking /\ ~Resetting /\ ~Unasked
    BY <1>5, <2>1 DEF Quiet, PageInOrder, Asking, Unasked
  <2>3. ThreadsInOrder'
    BY <1>1, <2>1, <2>2 DEF ThreadsInOrder, Final, NotBegun, SomeEnded, Asking
  <2>4. PageInOrder'
    BY <1>1, <2>1, <2>2 DEF PageInOrder, Asking, Resetting, Blank, NotBegun
  <2>5. Len(written) <= LogCap => Begins(page.log \o ls, written)
    <3>1. Len(written) <= LogCap => Begins(page.log, written)
      BY <2>1, <2>2 DEF Shows, Resetting
    <3>2. o = Len(page.log)
      BY <1>1, <1>2, <1>5, <2>1 DEF PollsInOrder
    <3> QED
      BY <1>1, <1>2, <1>3, <3>1, <3>2, LinesJoin
  <2>6. PollsInOrder'
    <3>1. \A i, j \in Poll : poll'[i].at = "free" \/ poll'[j].at = "free" \/ i = j
      BY <1>5, <1>8, <2>1 DEF PollsInOrder
    <3>2. ASSUME NEW j \in Poll
          PROVE  /\ poll'[j].at # "free" => poll'[j].offset = page.logOffset
                 /\ poll'[j].at \in {"gotStatus", "answered"} =>
                      /\ poll'[j].status.status \in {"done", "error"} => Settled
                      /\ Final(poll'[j].status)
                 /\ poll'[j].at \in {"gotLog", "answered"} /\ Len(written) <= LogCap =>
                      Begins(page.log \o poll'[j].lines, written)
      <4>1. CASE j = k
        <5>1. poll[k].at # "free" /\ poll'[k].offset = poll[k].offset /\ poll'[k].lines = ls
          BY <1>2, <1>5, <1>6, <1>8
        <5>2. poll'[k].offset = page.logOffset
          BY <2>1, <5>1 DEF PollsInOrder
        <5>3. poll'[k].at \in {"gotStatus", "answered"} =>
                poll[k].at \in {"gotStatus", "answered"} /\ poll'[k].status = poll[k].status
          BY <1>5, <1>6, <1>8
        <5> QED
          BY <2>1, <2>5, <4>1, <5>1, <5>2, <5>3 DEF PollsInOrder
      <4>2. CASE j # k
        BY <1>8, <2>1, <4>2 DEF PollsInOrder
      <4> QED
        BY <4>1, <4>2
    <3> QED
      BY <1>1, <3>1, <3>2 DEF PollsInOrder, Settled, Final, SomeEnded
  <2>7. Shows'
    BY <1>1, <2>1 DEF Shows, SomeEnded
  <2> QED
    BY <2>3, <2>4, <2>6, <2>7 DEF InOrder
<1> QED
  BY <1>9, <1>10 DEF WInv

(* A poll that ends, applied or lost: no other is in flight.               *)
LEMMA WEnds ==
  ASSUME WTyped, InOrder, NEW k \in Poll, poll[k].at = "answered",
         poll' = [poll EXCEPT ![k] = NoPoll]
  PROVE  /\ Quiet' /\ ~NotBegun /\ ~Asking /\ ~Resetting /\ ~Unasked
         /\ page.post = "none" /\ Final(shown)
         /\ Len(written) <= LogCap => Begins(page.log \o poll[k].lines, written)
         /\ poll[k].status.status \in {"done", "error"} => Settled
         /\ Final(poll[k].status)
<1>1. ThreadsInOrder /\ PageInOrder /\ PollsInOrder
  BY DEF InOrder
<1>2. poll \in [Poll -> PollState] /\ page \in Page
  BY DEF WTyped
<1>3. Quiet'
  <2>1. NoPoll.at = "free"
    BY DEF NoPoll
  <2>2. \A j \in Poll : j # k => poll[j].at = "free"
    BY <1>1 DEF PollsInOrder
  <2> QED
    BY <1>2, <2>1, <2>2 DEF Quiet
<1>4. ~Quiet /\ ~NotBegun
  BY <1>1 DEF Quiet, PageInOrder
<1>5. ~Asking /\ ~Resetting /\ ~Unasked /\ page.post = "none"
  BY <1>1, <1>2, <1>4 DEF PageInOrder, Asking, Unasked, Resetting, Page, Posts_
<1> QED
  BY <1>1, <1>3, <1>4, <1>5 DEF ThreadsInOrder, PollsInOrder

LEMMA WLose ==
  ASSUME WInv, NEW k \in Poll, Lose(k)
  PROVE  WInv'
<1>1. /\ WTyped /\ shown' = shown /\ thread' = thread /\ request' = request /\ page' = page
      /\ written' = written /\ orderly' = orderly /\ poll \in [Poll -> PollState]
      /\ poll[k].at = "answered" /\ poll' = [poll EXCEPT ![k] = NoPoll]
  BY DEF WInv, WTyped, Lose, view
<1>2. NoPoll \in PollState /\ NoPoll.at = "free"
  <2>1. PICK e : e = <<>>
    OBVIOUS
  <2>2. e \in Lines
    BY <2>1 DEF Lines
  <2>3. NoPoll = [at |-> "free", offset |-> 0, status |-> e, lines |-> e]
    BY <2>1 DEF NoPoll
  <2> QED
    BY <2>1, <2>2, <2>3 DEF PollState
<1>3. WTyped'
  <2>1. /\ poll' \in [Poll -> PollState] /\ poll'[k] = NoPoll
        /\ \A j \in Poll : j # k => poll'[j] = poll[j]
    BY <1>1, <1>2, PollChanges
  <2>2. \A j \in Poll :
          poll'[j].at \in {"gotStatus", "answered"} => poll'[j].status \in Answer
    BY <1>1, <1>2, <2>1 DEF WTyped
  <2> QED
    BY <1>1, <2>1, <2>2 DEF WTyped
<1>4. ASSUME orderly
      PROVE  InOrder'
  <2>1. InOrder /\ ThreadsInOrder /\ PageInOrder /\ Shows
    BY <1>4 DEF WInv, InOrder
  <2>2. /\ Quiet' /\ ~NotBegun /\ ~Asking /\ ~Resetting /\ page.post = "none"
        /\ Final(shown)
    BY <1>1, <2>1, WEnds
  <2>3. ThreadsInOrder'
    BY <1>1, <2>1, <2>2 DEF ThreadsInOrder, Final, SomeEnded
  <2>4. PageInOrder'
    BY <1>1, <2>1, <2>2 DEF PageInOrder, Asking, Resetting, NotBegun
  <2>5. PollsInOrder'
    BY <2>2 DEF PollsInOrder, Quiet
  <2>6. Shows'
    BY <1>1, <2>1 DEF Shows, SomeEnded
  <2> QED
    BY <2>3, <2>4, <2>5, <2>6 DEF InOrder
<1> QED
  BY <1>1, <1>3, <1>4 DEF WInv

LEMMA WApply ==
  ASSUME WInv, NEW k \in Poll, Apply(k)
  PROVE  WInv'
<1>1. /\ WTyped /\ shown' = shown /\ thread' = thread /\ request' = request /\ page \in Page
      /\ written' = written /\ orderly' = orderly /\ poll \in [Poll -> PollState]
      /\ poll[k].at = "answered" /\ poll' = [poll EXCEPT ![k] = NoPoll]
      /\ page.logOffset = Len(page.log)
  BY DEF WInv, WTyped, Apply, view
<1>2. PICK st, ls, c, d, over :
        /\ st = poll[k].status /\ ls = poll[k].lines /\ c = Completed(st)
        /\ d = Done(st) /\ over = Over(st)
  OBVIOUS
<1>3. st \in Answer /\ ls \in Lines /\ page.log \in Lines
  BY <1>1, <1>2 DEF WTyped, PollState, Page
<1>4. /\ c \in SUBSET Phase
      /\ \A i \in Phase : i \in c <=> st.phases[i] = "done" /\ page.lastPS[i] # "done"
  BY <1>2 DEF Completed
<1>5. /\ d \in BOOLEAN /\ over \in BOOLEAN /\ (d => st.status = "done")
      /\ over => st.status \in {"done", "error"}
  BY <1>2 DEF Done, Over
<1>6. PICK all, n : all = page.log \o ls /\ n = page.logOffset + Len(ls)
  OBVIOUS
<1>7. all \in Lines /\ n = Len(all) /\ n \in Nat
  BY <1>1, <1>3, <1>6, ConcatProperties, LenProperties DEF Lines
<1>8. /\ page' \in Page /\ page'.post = page.post /\ page'.clear = page.clear
      /\ page'.log = all /\ page'.logOffset = n
      /\ page'.loaded = page.loaded \cup c /\ page'.lastPS = st.phases
      /\ page'.shown = (page.shown \/ d)
      /\ page'.results = (IF d THEN st.results ELSE page.results)
      /\ page'.timer = (page.timer /\ ~over) /\ page'.reset = (page.reset \/ over)
  <2>0. PICK lo, ps, sh, re, ti, bu, off, ls2 :
          /\ lo = page.loaded \cup c /\ ps = st.phases /\ sh = (page.shown \/ d)
          /\ re = (IF d THEN st.results ELSE page.results) /\ ti = (page.timer /\ ~over)
          /\ bu = (page.button \/ over) /\ off = (page.reset \/ over) /\ ls2 = st.status
    OBVIOUS
  <2>1. page' = [page EXCEPT
          !.log = all, !.logOffset = n, !.loaded = lo, !.lastPS = ps, !.shown = sh,
          !.results = re, !.timer = ti, !.button = bu, !.reset = off, !.lastStatus = ls2]
    <3>1. page' = [page EXCEPT
            !.log = page.log \o ls, !.logOffset = page.logOffset + Len(ls),
            !.loaded = page.loaded \cup c, !.lastPS = st.phases,
            !.shown = page.shown \/ d, !.results = IF d THEN st.results ELSE page.results,
            !.timer = page.timer /\ ~over, !.button = page.button \/ over,
            !.reset = page.reset \/ over, !.lastStatus = st.status]
      BY <1>2 DEF Apply, NextOffset
    <3> QED
      BY <1>6, <2>0, <3>1
  <2>2. /\ lo \in SUBSET Phase /\ ps \in PhaseStatuses /\ re \in SUBSET Project
        /\ ls2 \in Status
    BY <1>1, <1>3, <1>4, <2>0 DEF Page, Answer
  <2>3. sh \in BOOLEAN /\ ti \in BOOLEAN /\ bu \in BOOLEAN /\ off \in BOOLEAN
    BY <2>0
  <2>4. /\ page' \in Page /\ page'.post = page.post /\ page'.clear = page.clear
        /\ page'.log = all /\ page'.logOffset = n /\ page'.loaded = lo /\ page'.lastPS = ps
        /\ page'.shown = sh /\ page'.results = re /\ page'.timer = ti /\ page'.reset = off
    <3>1. /\ page \in Page /\ all \in Lines /\ n \in Nat
      BY <1>1, <1>7
    <3>2. page' \in Page
      <4>1. PICK pg : pg = [page EXCEPT !.log = all, !.logOffset = n, !.loaded = lo,
                                        !.lastPS = ps, !.results = re, !.lastStatus = ls2]
        OBVIOUS
      <4>2. pg \in Page
        BY <2>2, <3>1, <4>1 DEF Page
      <4>3. PICK pt : pt = [pg EXCEPT !.shown = sh, !.timer = ti]
        OBVIOUS
      <4>4. pt \in Page
        BY <2>3, <4>2, <4>3 DEF Page
      <4>5. page' = [pt EXCEPT !.button = bu, !.reset = off]
        BY <2>1, <3>1, <4>1, <4>3 DEF Page
      <4> QED
        BY <2>3, <4>4, <4>5 DEF Page
    <3>3. /\ page'.post = page.post /\ page'.clear = page.clear /\ page'.log = all
          /\ page'.logOffset = n /\ page'.loaded = lo /\ page'.lastPS = ps /\ page'.results = re
      BY <2>1, <3>1 DEF Page
    <3>4. page'.shown = sh
      BY <2>1, <3>1 DEF Page
    <3>5. page'.timer = ti
      BY <2>1, <3>1 DEF Page
    <3>6. page'.reset = off
      BY <2>1, <3>1 DEF Page
    <3> QED
      BY <3>2, <3>3, <3>4, <3>5, <3>6, Zenon
  <2>5. /\ page'.shown = (page.shown \/ d)
        /\ page'.timer = (page.timer /\ ~over) /\ page'.reset = (page.reset \/ over)
    BY <2>0, <2>4, Zenon
  <2>6. page'.results = (IF d THEN st.results ELSE page.results)
    BY <2>0, <2>4, Zenon
  <2> QED
    BY <2>0, <2>4, <2>5, <2>6, Zenon
<1>9. NoPoll \in PollState /\ NoPoll.at = "free"
  <2>1. PICK e : e = <<>>
    OBVIOUS
  <2>2. e \in Lines
    BY <2>1 DEF Lines
  <2>3. NoPoll = [at |-> "free", offset |-> 0, status |-> e, lines |-> e]
    BY <2>1 DEF NoPoll
  <2> QED
    BY <2>1, <2>2, <2>3 DEF PollState
<1>10. \A i \in Phase : page'.lastPS[i] = "done" => i \in page'.loaded
  BY <1>1, <1>4, <1>8 DEF WTyped
<1>11. WTyped'
  <2>1. /\ poll' \in [Poll -> PollState] /\ poll'[k] = NoPoll
        /\ \A j \in Poll : j # k => poll'[j] = poll[j]
    BY <1>1, <1>9, PollChanges
  <2>2. \A j \in Poll :
          poll'[j].at \in {"gotStatus", "answered"} => poll'[j].status \in Answer
    BY <1>1, <1>9, <2>1 DEF WTyped
  <2>3. page'.logOffset = Len(page'.log)
    BY <1>7, <1>8
  <2> QED
    BY <1>1, <1>8, <1>10, <2>1, <2>2, <2>3 DEF WTyped
<1>12. ASSUME orderly
       PROVE  InOrder'
  <2>1. InOrder /\ ThreadsInOrder /\ PageInOrder /\ Shows
    BY <1>12 DEF WInv, InOrder
  <2>2. /\ Quiet' /\ ~NotBegun /\ ~Asking /\ ~Resetting /\ page.post = "none"
        /\ Final(shown)
        /\ Len(written) <= LogCap => Begins(page.log \o poll[k].lines, written)
        /\ poll[k].status.status \in {"done", "error"} => Settled
        /\ Final(poll[k].status)
    BY <1>1, <2>1, WEnds
  <2>3. ThreadsInOrder'
    BY <1>1, <2>1, <2>2 DEF ThreadsInOrder, Final, SomeEnded
  <2>4. over => Settled
    BY <1>2, <1>5, <2>2
  <2>5. PageInOrder'
    BY <1>1, <1>8, <2>2, <2>4 DEF PageInOrder, Asking, Resetting, NotBegun, Settled
  <2>6. PollsInOrder'
    BY <2>2 DEF PollsInOrder, Quiet
  <2>7. d => st.results # {} /\ st.phases = AtPhase(5) /\ SomeEnded
    BY <1>2, <1>5, <2>2 DEF Final
  <2>8. d => page'.loaded = Phase
    <3>1. \A i \in Phase : AtPhase(5)[i] = "done"
      BY DEF AtPhase, Phase
    <3>2. d => \A i \in Phase : i \in page'.loaded
      BY <1>8, <1>10, <2>7, <3>1
    <3>3. page'.loaded \in SUBSET Phase
      BY <1>8 DEF Page
    <3> QED
      BY <3>2, <3>3
  <2>9. page.loaded = Phase => page'.loaded = Phase
    BY <1>4, <1>8
  <2>10. Shows'
    <3>1. Len(written) <= LogCap => Begins(page'.log, written')
      BY <1>1, <1>2, <1>6, <1>8, <2>2
    <3>2. page'.shown => page'.results # {} /\ page'.loaded = Phase /\ SomeEnded
      BY <1>5, <1>8, <2>1, <2>7, <2>8, <2>9 DEF Shows
    <3> QED
      BY <1>1, <3>1, <3>2 DEF Shows, SomeEnded
  <2> QED
    BY <2>3, <2>5, <2>6, <2>10 DEF InOrder
<1> QED
  BY <1>1, <1>11, <1>12 DEF WInv

-----------------------------------------------------------------------------
LEMMA WInductive == WInv /\ [WNext]_allVars => WInv'
<1> SUFFICES ASSUME WInv, [WNext]_allVars PROVE WInv'
  OBVIOUS
<1>1. CASE ClickAnalyze
  BY <1>1, WClickAnalyze
<1>2. CASE ClickReset
  BY <1>2, WClickReset
<1>3. CASE AnalyzeRefused
  BY <1>3, WAnalyzeRefused
<1>4. CASE ResetReturns
  BY <1>4, WResetReturns
<1>11. CASE AnalyzeLost
  BY <1>11, WAnalyzeLost
<1>12. CASE ResetLost
  BY <1>12, WResetLost
<1>5. ASSUME NEW k \in Poll, AnalyzeReturns(k)
      PROVE  WInv'
  <2>1. page \in Page /\ page.post = "started" /\ Send(k) /\ UNCHANGED view /\ UNCHANGED written
    BY <1>5 DEF AnalyzeReturns, WInv, WTyped
  <2>2. /\ page' \in Page /\ page'.post = "none" /\ page'.clear = page.clear
        /\ page'.timer /\ page'.reset = page.reset
        /\ page'.logOffset = page.logOffset /\ page'.lastPS = page.lastPS
        /\ page'.log = page.log /\ page'.shown = page.shown /\ page'.results = page.results
        /\ page'.loaded = page.loaded
    BY <1>5, <2>1 DEF AnalyzeReturns, Page, Posts_
  <2> QED
    BY <2>1, <2>2, WPolls
<1>6. ASSUME NEW k \in Poll, PollStep(k)
      PROVE  WInv'
  <2>1. CASE api_status(k)
    BY <2>1, WStatus
  <2>2. CASE api_log(k)
    BY <2>2, WLog
  <2>3. CASE Apply(k)
    BY <2>3, WApply
  <2>4. CASE Lose(k)
    BY <2>4, WLose
  <2>5. CASE Tick(k)
    <3>1. page' = page /\ page.timer /\ Send(k) /\ UNCHANGED view /\ UNCHANGED written
      BY <2>5 DEF Tick
    <3>2. page' \in Page
      BY <3>1 DEF WInv, WTyped
    <3> QED
      BY <3>1, <3>2, WPolls
  <2> QED
    BY <1>6, <2>1, <2>2, <2>3, <2>4, <2>5 DEF PollStep
<1>7. ASSUME NEW r \in Request, ServePost(r)
      PROVE  WInv'
  <2>0. Others /\ request \in [Request -> {"free", "analyze", "reset"}]
    BY <1>7 DEF ServePost, WInv, WTyped
  <2>1. CASE AnalyzeCheck(r) /\ Posts("analyze", "checked") /\ UNCHANGED written
    <3>1. /\ UNCHANGED <<shown, thread>>
          /\ request' \in [Request -> {"free", "analyze", "reset"}]
      BY <2>0, <2>1 DEF AnalyzeCheck, Pass
    <3> QED
      BY <2>0, <2>1, <3>1, WChecks
  <2>2. ASSUME NEW w \in Worker, AnalyzeStart(r, w), Posts("checked", "started"),
               UNCHANGED written
        PROVE  WInv'
    BY <2>0, <2>2, WStarts
  <2>3. CASE /\ shown.status = "running" /\ UNCHANGED view
             /\ Posts("analyze", "refused") /\ UNCHANGED written
    <3>1. /\ UNCHANGED <<shown, thread>>
          /\ request' \in [Request -> {"free", "analyze", "reset"}]
      BY <2>0, <2>3 DEF view
    <3> QED
      BY <2>0, <2>3, <3>1, WChecks
  <2>4. CASE ResetCheck(r) /\ Clears("reset", "checked") /\ UNCHANGED written
    <3>1. /\ UNCHANGED <<shown, thread>>
          /\ request' \in [Request -> {"free", "analyze", "reset"}]
      BY <2>0, <2>4 DEF ResetCheck, Pass
    <3> QED
      BY <2>0, <2>4, <3>1, WClears
  <2>5. CASE /\ shown.status = "running" /\ UNCHANGED view
             /\ Clears("reset", "answered") /\ UNCHANGED written
    <3>1. /\ UNCHANGED <<shown, thread>>
          /\ request' \in [Request -> {"free", "analyze", "reset"}]
      BY <2>0, <2>5 DEF view
    <3> QED
      BY <2>0, <2>5, <3>1, WClears
  <2>6. CASE ResetApply(r) /\ Clears("checked", "answered") /\ written' = <<>>
    BY <2>0, <2>6, WForgets
  <2> QED
    BY <1>7, <2>1, <2>2, <2>3, <2>4, <2>5, <2>6 DEF ServePost
<1>8. ASSUME NEW w \in Worker, ServerWork(w)
      PROVE  WInv'
  BY <1>8, WBegin, WLogError, WAdvance, WPublish, WFail, WReportError DEF ServerWork
<1>9. ASSUME NEW w \in Worker, ServerReport(w)
      PROVE  WInv'
  BY <1>9, WReport, WRestate DEF ServerReport
<1>10. CASE UNCHANGED allVars
  BY <1>10 DEF allVars, view, pageVars, WInv, WTyped, InOrder, ThreadsInOrder, PageInOrder,
     PollsInOrder, Shows, Still, Settled, SomeEnded, Final, Asking, Unasked, Resetting, Blank,
     Quiet, NotBegun
<1> QED
  BY <1>1, <1>2, <1>3, <1>4, <1>5, <1>6, <1>7, <1>8, <1>9, <1>10,
     <1>11, <1>12 DEF WNext

LEMMA WInvIsInvariant == WSpec => []WInv
<1> QED
  BY WInitially, WInductive, PTL DEF WSpec

(* The page, its polls and the history have their types, and the server's  *)
(* log (_job["log"], of which _progress keeps the last lines) is the end   *)
(* of what was written.                                                    *)
THEOREM PageTyped == WSpec => []WTypeOK
<1>1. WInv => WTypeOK
  BY DEF WInv, WTyped, WTypeOK, Job, Thread, Stages, Page, Posts_, Clears_,
     PollState, Answer, KeptIn
<1> QED
  BY <1>1, WInvIsInvariant, PTL

(* The log that the page puts together from the answers of api_log is what *)
(* was logged, without gap or repetition, as long as polls do not overlap, *)
(* none came before the analysis began and no line was dropped.            *)
THEOREM LogStaysFaithful == WSpec => []LogIsFaithful
<1>1. WInv => LogIsFaithful
  <2> SUFFICES ASSUME WInv, orderly, page.clear # "answered", Len(written) <= LogCap
               PROVE  Prefix(page.log, written)
    BY DEF LogIsFaithful
  <2>1. Begins(page.log, written) /\ page.log \in Lines /\ written \in Lines
    BY DEF WInv, WTyped, Page, InOrder, Shows
  <2> QED
    BY <2>1, BeginsIsPrefix
<1> QED
  BY <1>1, WInvIsInvariant, PTL

(* The results that onJobDone shows are those of a finished analysis and   *)
(* all four phases have been loaded, whatever the polls between missed.    *)
THEOREM ResultsStayFinal == WSpec => []ResultsAreFinal
<1>1. WInv => ResultsAreFinal
  BY DEF WInv, InOrder, Shows, SomeEnded, ResultsAreFinal
<1> QED
  BY <1>1, WInvIsInvariant, PTL
=============================================================================
