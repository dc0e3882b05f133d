-------------------------- MODULE Discrepancy_proofs --------------------------
(***************************************************************************)
(* Proofs about discrepancy reporting: what the two sides know of a report *)
(* and of its resolution, the rate limit of submit(), and what survives    *)
(* the way over the wire, for any number of agencies, reports and calls.   *)
(***************************************************************************)
EXTENDS Discrepancy, TLAPS

\* The value of an unset field is no submission, resolution or agency.
LEMMA NoneIsNothing ==
    /\ \A s \in Submissions : s # None /\ Entry(s) # NoEntry
    /\ \A v \in Resolutions : v # None
    /\ \A r \in Reports : r # NoReport /\ r[1] \in Reporters /\ r[1] # None
                          /\ r = <<r[1], r[2]>>
                          /\ SimilarityKey[r[2]] \in Keys
<1>1. \A s \in Submissions : s # None /\ Entry(s) # NoEntry
  BY NoneAssumption DEF Entry, NoEntry
<1>2. \A v \in Resolutions : v # None
  BY NoneAssumption
<1>3. ASSUME NEW r \in Reports
      PROVE  r # NoReport /\ r[1] \in Reporters /\ r[1] # None /\ r = <<r[1], r[2]>>
             /\ SimilarityKey[r[2]] \in Keys
  <2>1. r \in Reporters \X Ids
    BY ReportsAssumption
  <2> QED
    BY <2>1, NoneAssumption DEF NoReport, Keys
<1> QED
  BY <1>1, <1>2, <1>3

\* A row of the calls, and what an assignment to one of its fields leaves alone.
LEMMA CallRow ==
    ASSUME TypeOK, NEW s \in Submissions
    PROVE  /\ call[s].state \in CallStates /\ call[s].report \in Reports \cup {NoReport}
           /\ call[s].age \in 0..MinInterval
           /\ call[s].forced \in BOOLEAN /\ call[s].overlapped \in BOOLEAN
           /\ call[s] = [state |-> call[s].state, report |-> call[s].report,
                         age |-> call[s].age, forced |-> call[s].forced,
                         overlapped |-> call[s].overlapped]
BY DEF TypeOK, Calls

\* An entry of a role's table.
LEMMA EntryRow ==
    ASSUME NEW e \in Entries
    PROVE  /\ e = [edition |-> e.edition, resolution |-> e.resolution]
           /\ e.edition \in Submissions \cup {None}
           /\ e.resolution \in Resolutions \cup {None}
BY DEF Entries, NoEntry, Entry

\* A new entry, or a new resolution of an old one.
LEMMA NewEntry ==
    /\ NoEntry \in Entries
    /\ \A s \in Submissions : Entry(s) \in Entries
    /\ \A e \in Entries, v \in Resolutions : e # NoEntry =>
         /\ e.edition \in Submissions
         /\ [e EXCEPT !.resolution = v] \in Entries
         /\ [e EXCEPT !.resolution = v].edition = e.edition
         /\ [e EXCEPT !.resolution = v].resolution = v
BY DEF Entries, NoEntry, Entry

----
\* Every step keeps the types.
LEMMA TypesKept == TypeOK /\ ExchangeInv /\ [Next]_vars => TypeOK'
<1> SUFFICES ASSUME TypeOK, ExchangeInv, [Next]_vars PROVE TypeOK'
  OBVIOUS
<1> USE IntervalAssumption
<1>1. ASSUME NEW s \in Submissions, NEW r \in Reports, NEW forced \in BOOLEAN,
             Submit(s, r, forced)
      PROVE  TypeOK'
  <2>1. call' \in [Submissions -> Calls]
    <3>1. [state |-> "waiting", report |-> r, age |-> 0, forced |-> forced,
           overlapped |-> {t \in Waiting : Similar(call[t].report, r)} # {}] \in Calls
      BY DEF Calls, CallStates
    <3>2. \A t \in Submissions : [call[t] EXCEPT !.overlapped = TRUE] \in Calls
      BY DEF TypeOK, Calls
    <3> QED
      BY <1>1, <3>1, <3>2 DEF Submit, TypeOK
  <2>2. calm' \in [Reports -> BOOLEAN]
    BY <1>1 DEF Submit, TypeOK
  <2> QED
    BY <1>1, <2>1, <2>2 DEF Submit, TypeOK, responderVars
<1>2. ASSUME NEW s \in Submissions, SubmitFails(s) PROVE TypeOK'
  <2>1. call' \in [Submissions -> Calls]
    BY <1>2 DEF SubmitFails, TypeOK, Calls, CallStates
  <2>2. calm' \in [Reports -> BOOLEAN]
    BY <1>2 DEF SubmitFails, TypeOK
  <2> QED
    BY <1>2, <2>1, <2>2 DEF SubmitFails, TypeOK, responderVars
<1>3. ASSUME NEW s \in Submissions, NEW status \in Statuses, Answered(s, status)
      PROVE  TypeOK'
  <2>1. call' \in [Submissions -> Calls]
    BY <1>3 DEF Answered, TypeOK, Calls, CallStates
  <2>2. call[s].report \in Reports /\ call[s].age \in 0..MinInterval
    BY <1>3, CallRow DEF Answered, ExchangeInv
  <2>3. sinceSend' \in [Reporters -> [Keys -> 0..MinInterval]]
    BY <1>3, <2>2, NoneIsNothing DEF Answered, RecordSend, TypeOK
  <2>4. submitted' \in [Reports -> Entries]
    BY <1>3, <2>2, NewEntry DEF Answered, TypeOK
  <2> QED
    BY <1>3, <2>1, <2>3, <2>4 DEF Answered, TypeOK, responderVars, historyVars
<1>4. ASSUME NEW s \in Submissions, ReceiveReport(s) PROVE TypeOK'
  <2>1. received' \in [Reports -> Entries] /\ promised' \in [Reports -> Promises]
    <3>1. CASE ReportStatus(call[s].report) = 201
      <4>1. received' \in [Reports -> Entries]
        BY <1>4, <3>1, NewEntry DEF ReceiveReport, TypeOK
      <4>2. promised' \in [Reports -> Promises]
        <5>1. NoPromise \in Promises
          BY DEF NoPromise, Promises
        <5> QED
          BY <1>4, <3>1, <5>1 DEF ReceiveReport, TypeOK
      <4> QED
        BY <4>1, <4>2
    <3>2. CASE ReportStatus(call[s].report) # 201
      BY <1>4, <3>2 DEF ReceiveReport, TypeOK
    <3> QED
      BY <3>1, <3>2
  <2>2. hooks' \subseteq Submissions /\ requests' \subseteq Submissions
    BY <1>4 DEF ReceiveReport, TypeOK
  <2>3. answers' \subseteq Submissions \X Statuses
    BY <1>4 DEF ReceiveReport, Answer, TypeOK, ReportStatus, Statuses
  <2> QED
    BY <1>4, <2>1, <2>2, <2>3 DEF ReceiveReport, TypeOK, reporterVars
<1>5. ASSUME NEW s \in Submissions, NEW drained \in BOOLEAN, HookDone(s, drained)
      PROVE  TypeOK'
  <2>1. durable' \in [Reports -> Entries]
    BY <1>5 DEF HookDone, TypeOK
  <2>2. promised' \in [Reports -> Promises]
    <3>1. \A r \in Reports : [promised[r] EXCEPT !.drained = TRUE] \in Promises
      BY DEF TypeOK, Promises
    <3> QED
      BY <1>5, <3>1 DEF HookDone, TypeOK
  <2>3. answers' \subseteq Submissions \X Statuses
    BY <1>5 DEF HookDone, Answer, TypeOK, Statuses
  <2> QED
    BY <1>5, <2>1, <2>2, <2>3 DEF HookDone, TypeOK, reporterVars
<1>6. ASSUME NEW r \in Reports, NEW v \in Resolutions, Resolve(r, v) PROVE TypeOK'
  <2>1. received' \in [Reports -> Entries]
    BY <1>6, NewEntry DEF Resolve, TypeOK
  <2>2. givenTo' \in [Resolutions -> Submissions \cup {None}]
    BY <1>6, NewEntry DEF Resolve, TypeOK
  <2>3. promised' \in [Reports -> Promises]
    BY <1>6 DEF Resolve, TypeOK, Promises
  <2>4. callbacks' \subseteq Reports \X Resolutions /\ calm' \in [Reports -> BOOLEAN]
    BY <1>6 DEF Resolve, TypeOK
  <2> QED
    BY <1>6, <2>1, <2>2, <2>3, <2>4 DEF Resolve, TypeOK, reporterVars
<1>7. ASSUME NEW r \in Reports, NEW v \in Resolutions, ReceiveResolution(r, v)
      PROVE  TypeOK'
  <2>1. submitted' \in [Reports -> Entries]
    BY <1>7, NewEntry DEF ReceiveResolution, ResolutionStatus, TypeOK
  <2>2. callbacks' \subseteq Reports \X Resolutions /\ calm' \in [Reports -> BOOLEAN]
    BY <1>7 DEF ReceiveResolution, TypeOK
  <2> QED
    BY <1>7, <2>1, <2>2 DEF ReceiveResolution, TypeOK, responderVars
<1>8. ASSUME NEW s \in Submissions, LoseRequest(s) PROVE TypeOK'
  BY <1>8 DEF LoseRequest, TypeOK, reporterVars, responderVars, historyVars
<1>9. ASSUME NEW r \in Reports, NEW v \in Resolutions, LoseCallback(r, v) PROVE TypeOK'
  <2>1. callbacks' \subseteq Reports \X Resolutions /\ calm' \in [Reports -> BOOLEAN]
    BY <1>9 DEF LoseCallback, TypeOK
  <2> QED
    BY <1>9, <2>1 DEF LoseCallback, TypeOK, reporterVars, responderVars
<1>10. ASSUME NEW r \in Reporters, RestartReporter(r) PROVE TypeOK'
  <2>1. call' \in [Submissions -> Calls]
    BY <1>10 DEF RestartReporter, TypeOK, Calls, CallStates
  <2>2. sinceSend' \in [Reporters -> [Keys -> 0..MinInterval]]
    BY <1>10 DEF RestartReporter, TypeOK
  <2>3. submitted' \in [Reports -> Entries]
    BY <1>10, NewEntry DEF RestartReporter, TypeOK
  <2>4. calm' \in [Reports -> BOOLEAN]
    BY <1>10 DEF RestartReporter, TypeOK
  <2>5. restarts' \in 0..MaxRestarts
    BY <1>10, RestartsAssumption DEF RestartReporter, TypeOK
  <2> QED
    BY <1>10, <2>1, <2>2, <2>3, <2>4, <2>5 DEF RestartReporter, TypeOK, responderVars
<1>11. ASSUME RestartResponder PROVE TypeOK'
  <2>1. received' \in [Reports -> Entries]
    BY <1>11 DEF RestartResponder, Restored, TypeOK
  <2>2. promised' \in [Reports -> Promises]
    BY <1>11 DEF RestartResponder, TypeOK, NoPromise, Promises
  <2>3. calm' \in [Reports -> BOOLEAN]
    BY <1>11 DEF RestartResponder
  <2>4. restarts' \in 0..MaxRestarts
    BY <1>11, RestartsAssumption DEF RestartResponder, TypeOK
  <2> QED
    BY <1>11, <2>1, <2>2, <2>3, <2>4
    DEF RestartResponder, TypeOK, reporterVars, networkVars
<1>12. ASSUME Tick PROVE TypeOK'
  <2>1. \A n \in 0..MinInterval : Older(n) \in 0..MinInterval
    BY DEF Older
  <2>2. call' \in [Submissions -> Calls]
    <3>1. \A s \in Submissions : [call[s] EXCEPT !.age = Older(@)] \in Calls
      BY <2>1 DEF TypeOK, Calls
    <3>2. Unused \in Calls
      BY DEF Unused, Calls, CallStates
    <3> QED
      BY <1>12, <3>1, <3>2 DEF Tick
  <2>3. sinceSend' \in [Reporters -> [Keys -> 0..MinInterval]]
    BY <1>12, <2>1 DEF Tick, TypeOK
  <2> QED
    BY <1>12, <2>2, <2>3 DEF Tick, TypeOK, networkVars, responderVars, historyVars
<1>13. CASE UNCHANGED vars
  BY <1>13 DEF vars, TypeOK
<1> QED
  BY <1>1, <1>2, <1>3, <1>4, <1>5, <1>6, <1>7, <1>8, <1>9, <1>10, <1>11, <1>12, <1>13
  DEF Next

----
\* Where the exchanges are.

\* A step that starts no submission moves each exchange along, or ends it, and changes
\* no report.
LEMMA ExchangeKept == TypeOK /\ ExchangeInv /\ [Next]_vars => ExchangeInv'
<1> SUFFICES ASSUME TypeOK, ExchangeInv, [Next]_vars PROVE ExchangeInv'
  OBVIOUS
<1>0. Waiting \subseteq Submissions /\ requests \subseteq Submissions /\ hooks \subseteq Submissions
  BY DEF TypeOK, Waiting
<1>1. ASSUME NEW s \in Submissions, NEW r \in Reports, NEW forced \in BOOLEAN,
             Submit(s, r, forced)
      PROVE  ExchangeInv'
  <2>1. /\ call' \in [Submissions -> Calls]
        /\ call'[s].state = "waiting" /\ call'[s].report = r
        /\ \A t \in Submissions \ {s} : /\ call'[t].state = call[t].state
                                       /\ call'[t].report = call[t].report
    <3>1. \A t \in Submissions :
             /\ [call[t] EXCEPT !.overlapped = TRUE] \in Calls
             /\ [call[t] EXCEPT !.overlapped = TRUE].state = call[t].state
             /\ [call[t] EXCEPT !.overlapped = TRUE].report = call[t].report
      BY DEF TypeOK, Calls
    <3>2. call' \in [Submissions -> Calls]
      BY <1>1, TypesKept DEF Next, TypeOK
    <3> QED
      BY <1>1, <3>1, <3>2 DEF Submit
  <2>2. call[s].state = "unused"
    BY <1>1 DEF Submit, Unused
  <2>3. /\ s \notin Waiting \cup requests \cup hooks
        /\ \A status \in Statuses : <<s, status>> \notin answers
    BY <2>2 DEF ExchangeInv, Waiting
  <2>4. /\ Waiting' = Waiting \cup {s} /\ requests' = requests \cup {s}
        /\ hooks' = hooks /\ answers' = answers
    BY <1>1, <2>1 DEF Submit, Waiting, responderVars
  <2> QED
    BY <1>0, <2>1, <2>3, <2>4 DEF ExchangeInv, ReportStatus
<1>2. ASSUME NEW s \in Submissions, SubmitFails(s) PROVE ExchangeInv'
  <2>1. /\ call'[s].state = "failed" /\ call'[s].report = call[s].report
        /\ \A t \in Submissions \ {s} : call'[t] = call[t]
    BY <1>2 DEF SubmitFails, TypeOK, Calls
  <2>2. /\ Waiting' = Waiting \ {s} /\ UNCHANGED <<requests, hooks>>
        /\ answers' = {a \in answers : a[1] # s}
    BY <1>2, <2>1 DEF SubmitFails, Waiting, responderVars
  <2> QED
    BY <1>0, <2>1, <2>2 DEF ExchangeInv, ReportStatus
<1>3. ASSUME NEW s \in Submissions, NEW status \in Statuses, Answered(s, status)
      PROVE  ExchangeInv'
  <2>1. /\ call'[s].state = "answered" /\ call'[s].report = call[s].report
        /\ \A t \in Submissions \ {s} : call'[t] = call[t]
    BY <1>3 DEF Answered, TypeOK, Calls
  <2>2. /\ Waiting' = Waiting \ {s} /\ UNCHANGED <<requests, hooks>>
        /\ answers' = answers \ {<<s, status>>}
    BY <1>3, <2>1 DEF Answered, Waiting, responderVars
  <2>3. \A other \in Statuses : <<s, other>> \in answers => other = status
    BY <1>3 DEF Answered, ExchangeInv
  <2> QED
    BY <1>0, <2>1, <2>2, <2>3 DEF ExchangeInv, ReportStatus
<1>4. ASSUME NEW s \in Submissions, ReceiveReport(s) PROVE ExchangeInv'
  <2>1. call' = call /\ Waiting' = Waiting /\ requests' = requests \ {s} /\ s \in requests
    BY <1>4 DEF ReceiveReport, reporterVars, Waiting
  <2>2. CASE ReportStatus(call[s].report) = 201
    BY <1>4, <2>1, <2>2 DEF ReceiveReport, ExchangeInv, TypeOK, ReportStatus
  <2>3. CASE ReportStatus(call[s].report) # 201
    BY <1>4, <2>1, <2>3 DEF ReceiveReport, Answer, ExchangeInv, TypeOK, ReportStatus
  <2> QED
    BY <2>2, <2>3
<1>5. ASSUME NEW s \in Submissions, NEW drained \in BOOLEAN, HookDone(s, drained)
      PROVE  ExchangeInv'
  <2>1. /\ call' = call /\ Waiting' = Waiting /\ requests' = requests
        /\ hooks' = hooks \ {s} /\ s \in hooks /\ Answer(s, 201)
    BY <1>5 DEF HookDone, reporterVars, Waiting
  <2> QED
    BY <2>1 DEF Answer, ExchangeInv, TypeOK, ReportStatus
<1>6. ASSUME UNCHANGED <<call, requests, hooks, answers>> PROVE ExchangeInv'
  BY <1>6 DEF ExchangeInv, Waiting, ReportStatus
<1>7. ASSUME NEW s \in Submissions, LoseRequest(s) PROVE ExchangeInv'
  <2>1. /\ UNCHANGED <<call, hooks, answers>> /\ Waiting' = Waiting
        /\ requests' = requests \ {s}
    BY <1>7 DEF LoseRequest, reporterVars, responderVars, Waiting
  <2> QED
    BY <1>0, <2>1 DEF ExchangeInv, ReportStatus
<1>8. ASSUME NEW r \in Reporters, RestartReporter(r) PROVE ExchangeInv'
  <2>1. \A s \in Submissions :
          /\ call'[s].report = call[s].report
          /\ call'[s] = call[s] \/ (call[s].report[1] = r /\ call'[s].state = "failed")
    BY <1>8 DEF RestartReporter, TypeOK, Calls
  <2>2. /\ Waiting' = {s \in Waiting : call[s].report[1] # r}
        /\ UNCHANGED <<requests, hooks>>
        /\ answers' = {a \in answers : call[a[1]].report[1] # r}
    <3>1. \A s \in Submissions : call'[s].state = IF call[s].report[1] = r THEN "failed"
                                                 ELSE call[s].state
      BY <1>8 DEF RestartReporter, TypeOK, Calls
    <3> QED
      BY <1>8, <3>1 DEF RestartReporter, responderVars, Waiting
  <2> QED
    BY <1>0, <2>1, <2>2 DEF ExchangeInv, ReportStatus
<1>9. ASSUME RestartResponder PROVE ExchangeInv'
  <2>1. UNCHANGED <<call, requests, answers>> /\ hooks' = {}
    BY <1>9 DEF RestartResponder, reporterVars, networkVars
  <2> QED
    BY <2>1 DEF ExchangeInv, TypeOK, Waiting, ReportStatus
<1>10. ASSUME Tick PROVE ExchangeInv'
  <2>1. \A s \in Submissions : /\ call'[s].state = call[s].state
                             /\ call'[s].report = call[s].report
    BY <1>10 DEF Tick, TypeOK, Calls
  <2>2. Waiting' = Waiting /\ UNCHANGED <<requests, hooks, answers>>
    BY <1>10, <2>1 DEF Tick, Waiting, networkVars, responderVars
  <2> QED
    BY <1>0, <2>1, <2>2 DEF ExchangeInv, ReportStatus
<1>11. \A r \in Reports, v \in Resolutions :
         Resolve(r, v) \/ ReceiveResolution(r, v) \/ LoseCallback(r, v) =>
           UNCHANGED <<call, requests, hooks, answers>>
  BY DEF Resolve, ReceiveResolution, LoseCallback, reporterVars, responderVars
<1>12. UNCHANGED vars => UNCHANGED <<call, requests, hooks, answers>>
  BY DEF vars
<1> QED
  BY <1>1, <1>2, <1>3, <1>4, <1>5, <1>6, <1>7, <1>8, <1>9, <1>10, <1>11, <1>12 DEF Next

\* Every step keeps the tables free of rejected reports.
LEMMA RejectedKept ==
    TypeOK /\ ExchangeInv /\ RejectedInv /\ [Next]_vars => RejectedInv'
<1> SUFFICES ASSUME TypeOK, ExchangeInv, RejectedInv, [Next]_vars,
                    NEW r \in Reports, ReportStatus(r) # 201
             PROVE  received'[r] = NoEntry /\ durable'[r] = NoEntry /\ submitted'[r] = NoEntry
  BY DEF RejectedInv, ReportStatus
<1>1. received[r] = NoEntry /\ durable[r] = NoEntry /\ submitted[r] = NoEntry
  BY DEF RejectedInv
<1>2. ASSUME NEW s \in Submissions, NEW status \in Statuses, Answered(s, status)
      PROVE  submitted'[r] = NoEntry /\ UNCHANGED <<received, durable>>
  <2>1. status = 201 => r # call[s].report
    BY <1>2 DEF Answered, ExchangeInv
  <2> QED
    BY <1>1, <1>2, <2>1 DEF Answered, TypeOK, responderVars
<1>3. ASSUME NEW s \in Submissions, ReceiveReport(s)
      PROVE  received'[r] = NoEntry /\ UNCHANGED <<submitted, durable>>
  BY <1>1, <1>3 DEF ReceiveReport, TypeOK, reporterVars
<1>4. ASSUME NEW s \in Submissions, NEW drained \in BOOLEAN, HookDone(s, drained)
      PROVE  durable'[r] = NoEntry /\ UNCHANGED <<submitted, received>>
  BY <1>1, <1>4 DEF HookDone, reporterVars
<1>5. ASSUME NEW q \in Reports, NEW v \in Resolutions, Resolve(q, v)
      PROVE  received'[r] = NoEntry /\ UNCHANGED <<submitted, durable>>
  <2>1. r # q
    BY <1>1, <1>5 DEF Resolve
  <2> QED
    BY <1>1, <1>5, <2>1 DEF Resolve, TypeOK, reporterVars
<1>6. ASSUME NEW q \in Reports, NEW v \in Resolutions, ReceiveResolution(q, v)
      PROVE  submitted'[r] = NoEntry /\ UNCHANGED <<received, durable>>
  <2>1. ResolutionStatus(q) = 201 => r # q
    BY <1>1 DEF ResolutionStatus
  <2> QED
    BY <1>1, <1>6, <2>1 DEF ReceiveResolution, TypeOK, responderVars
<1>7. ASSUME NEW q \in Reporters, RestartReporter(q)
      PROVE  submitted'[r] = NoEntry /\ UNCHANGED <<received, durable>>
  BY <1>1, <1>7 DEF RestartReporter, responderVars
<1>8. ASSUME RestartResponder
      PROVE  received'[r] = NoEntry /\ UNCHANGED <<submitted, durable>>
  BY <1>1, <1>8 DEF RestartResponder, Restored, reporterVars
<1>9. \/ \E s \in Submissions, q \in Reports, forced \in BOOLEAN : Submit(s, q, forced)
      \/ \E s \in Submissions : SubmitFails(s) \/ LoseRequest(s)
      \/ \E q \in Reports, v \in Resolutions : LoseCallback(q, v)
      \/ Tick \/ UNCHANGED vars
      => UNCHANGED <<submitted, received, durable>>
  BY DEF Submit, SubmitFails, LoseRequest, LoseCallback, Tick, vars, reporterVars,
         responderVars
<1> QED
  BY <1>1, <1>2, <1>3, <1>4, <1>5, <1>6, <1>7, <1>8, <1>9 DEF Next

\* Every step keeps the promises.
LEMMA PromisesKept == TypeOK /\ PromiseInv /\ [Next]_vars => PromiseInv'
<1> SUFFICES ASSUME TypeOK, PromiseInv, [Next]_vars, NEW r \in Reports
             PROVE  /\ promised'[r] # NoPromise =>
                         /\ promised'[r].resolution # None
                         /\ received'[r].resolution = promised'[r].resolution
                    /\ promised'[r].drained =>
                         durable'[r].resolution = promised'[r].resolution
  BY DEF PromiseInv
<1>1. /\ promised[r] # NoPromise =>
           /\ promised[r].resolution # None
           /\ received[r].resolution = promised[r].resolution
      /\ promised[r].drained => durable[r].resolution = promised[r].resolution
  BY DEF PromiseInv
<1>2. promised[r] \in Promises /\ received[r] \in Entries /\ ~NoPromise.drained
  BY DEF TypeOK, NoPromise
<1>3. ASSUME NEW s \in Submissions, ReceiveReport(s)
      PROVE  \/ promised'[r] = NoPromise
             \/ UNCHANGED <<promised[r], received[r], durable>>
  BY <1>3 DEF ReceiveReport, TypeOK
<1>4. ASSUME NEW s \in Submissions, NEW drained \in BOOLEAN, HookDone(s, drained)
      PROVE  /\ received' = received /\ promised'[r].resolution = promised[r].resolution
             /\ promised[r] = NoPromise <=> promised'[r] = NoPromise
             /\ ~drained => UNCHANGED <<promised[r], durable>>
             /\ drained => durable' = received
  BY <1>2, <1>4 DEF HookDone, Promises, NoPromise
<1>5. ASSUME NEW q \in Reports, NEW v \in Resolutions, Resolve(q, v)
      PROVE  \/ UNCHANGED <<promised[r], received[r], durable>>
             \/ promised'[r] = [resolution |-> v, drained |-> FALSE]
                /\ received'[r] = [received[r] EXCEPT !.resolution = v] /\ v # None
  BY <1>5, NoneIsNothing DEF Resolve, TypeOK
<1>6. ASSUME RestartResponder
      PROVE  /\ received' = durable /\ durable' = durable
             /\ promised'[r] = IF promised[r].drained THEN promised[r] ELSE NoPromise
  <2>1. received' = durable
    BY <1>6 DEF RestartResponder, Restored, TypeOK
  <2> QED
    BY <1>6, <2>1 DEF RestartResponder
<1>7. \/ \E s \in Submissions, q \in Reports, forced \in BOOLEAN : Submit(s, q, forced)
      \/ \E s \in Submissions : SubmitFails(s) \/ LoseRequest(s)
      \/ \E s \in Submissions, status \in Statuses : Answered(s, status)
      \/ \E q \in Reports, v \in Resolutions : LoseCallback(q, v) \/ ReceiveResolution(q, v)
      \/ \E q \in Reporters : RestartReporter(q)
      \/ Tick \/ UNCHANGED vars
      => UNCHANGED <<promised, received, durable>>
  BY DEF Submit, SubmitFails, LoseRequest, Answered, LoseCallback, ReceiveResolution,
         RestartReporter, Tick, vars, responderVars, historyVars
<1> QED
  <2>1. CASE \E s \in Submissions : ReceiveReport(s)
    BY <1>1, <1>2, <1>3, <2>1
  <2>2. CASE \E s \in Submissions, drained \in BOOLEAN : HookDone(s, drained)
    BY <1>1, <1>2, <1>4, <2>2
  <2>3. CASE \E q \in Reports, v \in Resolutions : Resolve(q, v)
    <3>1. PICK q \in Reports, v \in Resolutions : Resolve(q, v)
      BY <2>3
    <3>2. CASE UNCHANGED <<promised[r], received[r], durable>>
      BY <1>1, <3>2
    <3>3. CASE /\ promised'[r] = [resolution |-> v, drained |-> FALSE]
               /\ received'[r] = [received[r] EXCEPT !.resolution = v] /\ v # None
      <4>1. received'[r].resolution = v
        BY <1>2, <3>3 DEF Entries, Entry, NoEntry
      <4> QED
        BY <3>3, <4>1
    <3> QED
      BY <1>5, <3>1, <3>2, <3>3
  <2>4. CASE RestartResponder
    BY <1>1, <1>2, <1>6, <2>4
  <2> QED
    BY <1>1, <1>7, <2>1, <2>2, <2>3, <2>4 DEF Next

----
\* The rate limit.

\* Similarity is symmetric and transitive, and reads the same clock.
LEMMA SimilarReports ==
    /\ \A q, r : Similar(q, r) => Similar(r, q) /\ SinceSimilar(q) = SinceSimilar(r)
    /\ \A q, r, t : Similar(q, r) /\ Similar(r, t) => Similar(q, t)
BY DEF Similar, SinceSimilar

\* What a step does to the part of a call the rate limit is about, when it is neither
\* the start of a submission, nor an answer, nor the passing of time.
LEMMA SpacingUndisturbed ==
    ASSUME TypeOK, SpacingInv,
           \A s \in Submissions :
               /\ UNCHANGED <<call[s].report, call[s].age, call[s].overlapped>>
               /\ call'[s].state = call[s].state \/ call'[s].state = "failed",
           \A s \in Submissions : call'[s].state = "answered" =>
               SinceSimilar(call[s].report)' = SinceSimilar(call[s].report)
    PROVE  SpacingInv'
<1>1. Waiting \subseteq Submissions /\ Waiting' \subseteq Waiting
  BY DEF Waiting
<1>2. \A q, r : Similar(q, r)' <=> Similar(q, r)
  BY DEF Similar
<1> QED
  BY <1>1, <1>2 DEF SpacingInv, Similar

LEMMA SpacingKept == TypeOK /\ ExchangeInv /\ SpacingInv /\ [Next]_vars => SpacingInv'
<1> SUFFICES ASSUME TypeOK, ExchangeInv, SpacingInv, [Next]_vars PROVE SpacingInv'
  OBVIOUS
<1>0. /\ Waiting \subseteq Submissions
      /\ \A s \in Submissions : call[s].age \in 0..MinInterval
  BY DEF Waiting, TypeOK, Calls
<1>1. ASSUME NEW s \in Submissions, NEW r \in Reports, NEW forced \in BOOLEAN,
             Submit(s, r, forced)
      PROVE  SpacingInv'
  <2>1. /\ call[s].state = "unused" /\ s \notin Waiting
        /\ call'[s].state = "waiting" /\ call'[s].report = r /\ call'[s].age = 0
        /\ call'[s].overlapped = ({t \in Waiting : Similar(call[t].report, r)} # {})
        /\ sinceSend' = sinceSend
    BY <1>1 DEF Submit, Unused, Waiting
  <2>2. ASSUME NEW t \in Submissions, t # s
        PROVE  /\ call'[t].state = call[t].state /\ call'[t].report = call[t].report
               /\ call'[t].age = call[t].age
               /\ t \notin Waiting => call'[t].overlapped = call[t].overlapped
               /\ t \in Waiting /\ Similar(call[t].report, r) => call'[t].overlapped
               /\ t \in Waiting /\ call[t].overlapped => call'[t].overlapped
    <3>1. call'[t] = IF t \in {u \in Waiting : Similar(call[u].report, r)}
                     THEN [call[t] EXCEPT !.overlapped = TRUE] ELSE call[t]
      BY <1>1, <2>2 DEF Submit
    <3> QED
      BY <3>1 DEF TypeOK, Calls
  <2>3. Waiting' = Waiting \cup {s}
    BY <2>1, <2>2 DEF Waiting
  <2>4. ASSUME NEW t \in Submissions, call'[t].state = "answered", ~call'[t].overlapped
        PROVE  /\ call'[t].report \in Reports
               /\ SinceSimilar(call[t].report)' <= call'[t].age
               /\ \A u \in Waiting' : Similar(call[t].report, call[u].report)' =>
                    call'[u].age <= call'[t].age
    <3>1. t # s /\ t \notin Waiting /\ call[t].state = "answered" /\ ~call[t].overlapped
      <4>1. t # s
        BY <2>1, <2>4
      <4> QED
        BY <2>2, <2>4, <4>1 DEF Waiting
    <3>2. call'[t].report = call[t].report /\ call'[t].age = call[t].age
      BY <2>2, <3>1
    <3>3. /\ call[t].report \in Reports
          /\ SinceSimilar(call[t].report) <= call[t].age
          /\ \A u \in Waiting : Similar(call[t].report, call[u].report) =>
               call[u].age <= call[t].age
      BY <3>1 DEF SpacingInv
    <3>4. SinceSimilar(call[t].report)' <= call'[t].age
      BY <2>1, <3>2, <3>3 DEF SinceSimilar
    <3>5. ASSUME NEW u \in Waiting', Similar(call[t].report, call[u].report)'
          PROVE  call'[u].age <= call'[t].age
      <4>1. CASE u = s
        BY <1>0, <2>1, <3>2, <4>1, IntervalAssumption
      <4>2. CASE u # s
        <5>1. u \in Waiting /\ call'[u].report = call[u].report /\ call'[u].age = call[u].age
          BY <1>0, <2>2, <2>3, <4>2
        <5>2. Similar(call[t].report, call[u].report)
          BY <3>2, <3>5, <5>1 DEF Similar
        <5> QED
          BY <3>2, <3>3, <5>1, <5>2
      <4> QED
        BY <4>1, <4>2
    <3> QED
      BY <3>2, <3>3, <3>4, <3>5
  <2>5. ASSUME NEW t \in Waiting', NEW u \in Waiting', t # u,
               Similar(call[t].report, call[u].report)'
        PROVE  call'[t].overlapped /\ call'[u].overlapped
    <3>1. ASSUME NEW w \in Waiting, Similar(call[w].report, r)
          PROVE  call'[w].overlapped /\ call'[s].overlapped
      <4>1. w \in Submissions /\ w # s
        BY <1>0, <2>1
      <4> QED
        BY <2>1, <2>2, <3>1, <4>1
    <3>2. CASE t = s
      <4>1. u \in Waiting /\ u \in Submissions /\ u # s
        BY <1>0, <2>3, <2>5, <3>2
      <4>2. Similar(call[u].report, r)
        BY <2>1, <2>2, <2>5, <3>2, <4>1 DEF Similar
      <4> QED
        BY <3>1, <3>2, <4>1, <4>2
    <3>3. CASE u = s
      <4>1. t \in Waiting /\ t \in Submissions /\ t # s
        BY <1>0, <2>3, <2>5, <3>3
      <4>2. Similar(call[t].report, r)
        BY <2>1, <2>2, <2>5, <3>3, <4>1 DEF Similar
      <4> QED
        BY <3>1, <3>3, <4>1, <4>2
    <3>4. CASE t # s /\ u # s
      <4>1. t \in Waiting /\ u \in Waiting /\ t \in Submissions /\ u \in Submissions
        BY <1>0, <2>3, <3>4
      <4>2. Similar(call[t].report, call[u].report)
        BY <2>2, <2>5, <3>4, <4>1 DEF Similar
      <4>3. call[t].overlapped /\ call[u].overlapped
        BY <2>5, <4>1, <4>2 DEF SpacingInv
      <4> QED
        BY <2>2, <3>4, <4>1, <4>3
    <3> QED
      BY <3>2, <3>3, <3>4
  <2> QED
    BY <2>4, <2>5 DEF SpacingInv
<1>2. ASSUME NEW s \in Submissions, NEW status \in Statuses, Answered(s, status)
      PROVE  SpacingInv'
  <2>1. /\ s \in Waiting /\ call[s].report \in Reports
    BY <1>2 DEF Answered, ExchangeInv
  <2>2. /\ call'[s].state = "answered" /\ call'[s].report = call[s].report
        /\ call'[s].age = call[s].age /\ call'[s].overlapped = call[s].overlapped
        /\ \A t \in Submissions \ {s} : call'[t] = call[t]
    BY <1>2 DEF Answered, TypeOK, Calls
  <2>3. Waiting' = Waiting \ {s}
    BY <1>2, <2>2 DEF Waiting
  <2>4. ASSUME NEW r \in Reports
        PROVE  /\ Similar(call[s].report, r) => SinceSimilar(r)' = call[s].age
               /\ ~Similar(call[s].report, r) => SinceSimilar(r)' = SinceSimilar(r)
    <3>1. sinceSend' = [sinceSend EXCEPT ![call[s].report[1]]
                           [SimilarityKey[call[s].report[2]]] = call[s].age]
      BY <1>2 DEF Answered, RecordSend
    <3>2. /\ r[1] \in Reporters /\ SimilarityKey[r[2]] \in Keys
          /\ call[s].report[1] \in Reporters /\ SimilarityKey[call[s].report[2]] \in Keys
      BY <2>1, NoneIsNothing
    <3> QED
      BY <3>1, <3>2 DEF SinceSimilar, Similar, TypeOK
  <2>5. ASSUME NEW t \in Submissions, call'[t].state = "answered", ~call'[t].overlapped
        PROVE  /\ call'[t].report \in Reports
               /\ SinceSimilar(call[t].report)' <= call'[t].age
               /\ \A u \in Waiting' : Similar(call[t].report, call[u].report)' =>
                    call'[u].age <= call'[t].age
    <3>1. CASE t = s
      <4>1. SinceSimilar(call[s].report)' = call[s].age
        BY <2>1, <2>2, <2>4 DEF Similar, SinceSimilar
      <4>2. SinceSimilar(call[t].report)' <= call'[t].age
        BY <1>0, <2>2, <3>1, <4>1, IntervalAssumption DEF SinceSimilar
      <4>3. ASSUME NEW u \in Waiting', Similar(call[t].report, call[u].report)' PROVE FALSE
        <5>1. u \in Waiting /\ u # s /\ u \in Submissions
          BY <1>0, <2>3
        <5>2. Similar(call[s].report, call[u].report)
          BY <2>2, <3>1, <4>3, <5>1 DEF Similar
        <5>3. call[s].overlapped
          BY <2>1, <5>1, <5>2 DEF SpacingInv
        <5> QED
          BY <2>2, <2>5, <3>1, <5>3
      <4> QED
        BY <2>1, <2>2, <3>1, <4>2, <4>3
    <3>2. CASE t # s
      <4>1. call'[t] = call[t] /\ call[t].state = "answered" /\ ~call[t].overlapped
        BY <2>2, <2>5, <3>2
      <4>2. /\ call[t].report \in Reports
            /\ SinceSimilar(call[t].report) <= call[t].age
            /\ \A u \in Waiting : Similar(call[t].report, call[u].report) =>
                 call[u].age <= call[t].age
        BY <4>1 DEF SpacingInv
      <4>3. SinceSimilar(call[t].report)' <= call'[t].age
        <5>1. SinceSimilar(call[t].report)' = sinceSend'[call[t].report[1]][SimilarityKey[call[t].report[2]]]
          BY <4>1 DEF SinceSimilar
        <5>2. CASE Similar(call[s].report, call[t].report)
          BY <2>1, <2>4, <4>1, <4>2, <5>1, <5>2, SimilarReports DEF SinceSimilar
        <5>3. CASE ~Similar(call[s].report, call[t].report)
          BY <2>4, <4>1, <4>2, <5>1, <5>3 DEF SinceSimilar
        <5> QED
          BY <5>2, <5>3
      <4>4. ASSUME NEW u \in Waiting', Similar(call[t].report, call[u].report)'
            PROVE  call'[u].age <= call'[t].age
        <5>1. u \in Waiting /\ call'[u] = call[u]
          BY <1>0, <2>2, <2>3
        <5> QED
          BY <4>1, <4>2, <4>4, <5>1 DEF Similar
      <4> QED
        BY <4>1, <4>2, <4>3, <4>4
    <3> QED
      BY <3>1, <3>2
  <2>6. ASSUME NEW t \in Waiting', NEW u \in Waiting', t # u,
               Similar(call[t].report, call[u].report)'
        PROVE  call'[t].overlapped /\ call'[u].overlapped
    <3>1. /\ t \in Waiting /\ u \in Waiting /\ call'[t] = call[t] /\ call'[u] = call[u]
      BY <1>0, <2>2, <2>3
    <3> QED
      BY <2>6, <3>1 DEF SpacingInv, Similar
  <2> QED
    BY <2>5, <2>6 DEF SpacingInv
<1>3. ASSUME NEW r \in Reporters, RestartReporter(r) PROVE SpacingInv'
  <2>1. \A s \in Submissions :
          /\ UNCHANGED <<call[s].report, call[s].age, call[s].overlapped>>
          /\ call'[s].state = IF call[s].report[1] = r THEN "failed" ELSE call[s].state
    BY <1>3 DEF RestartReporter, TypeOK, Calls
  <2>2. \A s \in Submissions : call'[s].state = "answered" =>
          SinceSimilar(call[s].report)' = SinceSimilar(call[s].report)
    <3>1. SUFFICES ASSUME NEW s \in Submissions, call'[s].state = "answered"
                   PROVE  SinceSimilar(call[s].report)' = SinceSimilar(call[s].report)
      OBVIOUS
    <3>2. call[s].report[1] # r /\ call'[s].report = call[s].report
      BY <2>1, <3>1
    <3> QED
      BY <1>3, <3>2 DEF RestartReporter, SinceSimilar, TypeOK
  <2> QED
    BY <2>1, <2>2, SpacingUndisturbed
<1>4. ASSUME NEW s \in Submissions, SubmitFails(s) PROVE SpacingInv'
  <2>1. \A t \in Submissions :
          /\ UNCHANGED <<call[t].report, call[t].age, call[t].overlapped>>
          /\ call'[t].state = call[t].state \/ call'[t].state = "failed"
    BY <1>4 DEF SubmitFails, TypeOK, Calls
  <2>2. sinceSend' = sinceSend
    BY <1>4 DEF SubmitFails
  <2> QED
    BY <2>1, <2>2, SpacingUndisturbed DEF SinceSimilar
<1>5. ASSUME UNCHANGED <<call, sinceSend>> PROVE SpacingInv'
  BY <1>5 DEF SpacingInv, Waiting, Similar, SinceSimilar
<1>6. ASSUME Tick PROVE SpacingInv'
  <2>1. \A s \in Submissions :
          /\ UNCHANGED <<call[s].state, call[s].report, call[s].overlapped>>
          /\ call[s].state # "unused" => call'[s].age = Older(call[s].age)
    <3>1. SUFFICES ASSUME NEW s \in Submissions
                   PROVE  /\ UNCHANGED <<call[s].state, call[s].report, call[s].overlapped>>
                          /\ call[s].state # "unused" => call'[s].age = Older(call[s].age)
      OBVIOUS
    <3>2. CASE call[s] = Unused
      <4>1. call'[s] = call[s]
        BY <1>6, <3>2 DEF Tick
      <4>2. call[s].state = "unused"
        BY <3>2 DEF Unused
      <4> QED
        BY <4>1, <4>2
    <3>3. CASE call[s] # Unused
      BY <1>6, <3>3 DEF Tick, TypeOK, Calls
    <3> QED
      BY <3>2, <3>3
  <2>2. Waiting' = Waiting
    BY <2>1 DEF Waiting
  <2>3. \A r \in Reports : /\ SinceSimilar(r)' = Older(SinceSimilar(r))
                          /\ SinceSimilar(r) \in 0..MinInterval
    BY <1>6, NoneIsNothing DEF Tick, SinceSimilar, TypeOK
  <2>4. \A m, n \in 0..MinInterval : m <= n => Older(m) <= Older(n)
    BY IntervalAssumption DEF Older
  <2>5. ASSUME NEW t \in Submissions, call'[t].state = "answered", ~call'[t].overlapped
        PROVE  /\ call'[t].report \in Reports
               /\ SinceSimilar(call[t].report)' <= call'[t].age
               /\ \A u \in Waiting' : Similar(call[t].report, call[u].report)' =>
                    call'[u].age <= call'[t].age
    <3>1. /\ call[t].state = "answered" /\ ~call[t].overlapped
          /\ call'[t].report = call[t].report /\ call'[t].age = Older(call[t].age)
      BY <2>1, <2>5
    <3>2. /\ call[t].report \in Reports
          /\ SinceSimilar(call[t].report) <= call[t].age
          /\ \A u \in Waiting : Similar(call[t].report, call[u].report) =>
               call[u].age <= call[t].age
      BY <3>1 DEF SpacingInv
    <3>3. SinceSimilar(call[t].report)' = Older(SinceSimilar(call[t].report))
      BY <2>3, <3>1, <3>2 DEF SinceSimilar
    <3>4. SinceSimilar(call[t].report)' <= call'[t].age
      BY <1>0, <2>3, <2>4, <3>1, <3>2, <3>3
    <3>5. ASSUME NEW u \in Waiting', Similar(call[t].report, call[u].report)'
          PROVE  call'[u].age <= call'[t].age
      <4>1. u \in Waiting /\ call[u].state = "waiting" /\ u \in Submissions
        BY <2>2 DEF Waiting
      <4>2. call'[u].age = Older(call[u].age) /\ call'[u].report = call[u].report
        BY <2>1, <4>1
      <4>3. call[u].age <= call[t].age
        BY <3>1, <3>2, <3>5, <4>1, <4>2 DEF Similar
      <4> QED
        BY <1>0, <2>4, <3>1, <4>1, <4>2, <4>3
    <3> QED
      BY <3>1, <3>2, <3>4, <3>5
  <2>6. ASSUME NEW t \in Waiting', NEW u \in Waiting', t # u,
               Similar(call[t].report, call[u].report)'
        PROVE  call'[t].overlapped /\ call'[u].overlapped
    <3>1. /\ t \in Waiting /\ u \in Waiting /\ t \in Submissions /\ u \in Submissions
      BY <1>0, <2>2
    <3>2. Similar(call[t].report, call[u].report)
      BY <2>1, <2>6, <3>1 DEF Similar
    <3> QED
      BY <2>1, <2>6, <3>1, <3>2 DEF SpacingInv
  <2> QED
    BY <2>5, <2>6 DEF SpacingInv
<1>7. \/ \E s \in Submissions : ReceiveReport(s) \/ LoseRequest(s)
      \/ \E s \in Submissions, drained \in BOOLEAN : HookDone(s, drained)
      \/ \E r \in Reports, v \in Resolutions :
            Resolve(r, v) \/ ReceiveResolution(r, v) \/ LoseCallback(r, v)
      \/ RestartResponder \/ UNCHANGED vars
      => UNCHANGED <<call, sinceSend>>
  BY DEF ReceiveReport, LoseRequest, HookDone, Resolve, ReceiveResolution, LoseCallback,
         RestartResponder, vars, reporterVars
<1> QED
  BY <1>1, <1>2, <1>3, <1>4, <1>5, <1>6, <1>7 DEF Next

----
\* Agreement.

\* What is under way, said of the submissions and of the resolutions.
LEMMA UnderwayFacts ==
    ASSUME TypeOK, NEW r \in Reports
    PROVE  /\ Outstanding(r) <=> \E s \in Submissions : Underway(s, r)
           /\ CallbackUnderWay(r) <=> \E v \in Resolutions : <<r, v>> \in callbacks
<1>1. Waiting \cup requests \cup hooks \subseteq Submissions
  BY DEF Waiting, TypeOK
<1>2. \A c \in callbacks : c = <<c[1], c[2]>> /\ c[2] \in Resolutions
  BY DEF TypeOK
<1> QED
  BY <1>1, <1>2 DEF Outstanding, Underway, CallbackUnderWay

\* The same of the next state.
LEMMA UnderwayFactsNext ==
    ASSUME TypeOK', NEW r \in Reports
    PROVE  /\ Outstanding(r)' <=> \E s \in Submissions : Underway(s, r)'
           /\ CallbackUnderWay(r)' <=> \E v \in Resolutions : <<r, v>> \in callbacks'
<1>1. Waiting' \cup requests' \cup hooks' \subseteq Submissions
  BY DEF Waiting, TypeOK
<1>2. \A c \in callbacks' : c = <<c[1], c[2]>> /\ c[2] \in Resolutions
  BY DEF TypeOK
<1> QED
  BY <1>1, <1>2 DEF Outstanding, Underway, CallbackUnderWay

\* A step that neither starts nor ends an exchange of a report, nor changes a table.
LEMMA CalmUndisturbed ==
    ASSUME TypeOK, TypeOK', NEW r \in Reports, CalmAt(r),
           UNCHANGED <<received[r], submitted[r]>>,
           \A v \in Resolutions : <<r, v>> \in callbacks' <=> <<r, v>> \in callbacks,
           \A s \in Submissions :
               /\ Underway(s, r)' <=> Underway(s, r)
               /\ Underway(s, r) /\ s \in Waiting => s \in Waiting'
               /\ Underway(s, r) /\ (s \in hooks' \/ <<s, 201>> \in answers') =>
                    s \in hooks \/ <<s, 201>> \in answers
    PROVE  CalmAt(r)'
<1>1. Outstanding(r)' <=> Outstanding(r)
  BY UnderwayFacts, UnderwayFactsNext
<1>2. CallbackUnderWay(r)' <=> CallbackUnderWay(r)
  BY UnderwayFacts, UnderwayFactsNext
<1>3. \A s \in Submissions : Underway(s, r)' =>
        /\ s \in Waiting'
        /\ s \in hooks' \/ <<s, 201>> \in answers' => received'[r] = Entry(s)
        /\ ~CallbackUnderWay(r)'
  BY <1>2 DEF CalmAt, Entry
<1>4. \A s, t \in Submissions : Underway(s, r)' /\ Underway(t, r)' => s = t
  BY DEF CalmAt
<1>5. \A v \in Resolutions : <<r, v>> \in callbacks' =>
        received'[r] = [submitted'[r] EXCEPT !.resolution = v]
  BY DEF CalmAt
<1>6. ~Outstanding(r)' /\ ~CallbackUnderWay(r)' => submitted'[r] = received'[r]
  BY <1>1, <1>2 DEF CalmAt
<1> QED
  BY <1>3, <1>4, <1>5, <1>6 DEF CalmAt

LEMMA CalmKept ==
    TypeOK /\ ExchangeInv /\ RejectedInv /\ CalmInv /\ [Next]_vars => CalmInv'
<1> SUFFICES ASSUME TypeOK, ExchangeInv, RejectedInv, CalmInv, [Next]_vars,
                    NEW r \in Reports, calm'[r]
             PROVE  CalmAt(r)'
  BY DEF CalmInv
<1> DEFINE Quiet ==
      /\ \A v \in Resolutions : <<r, v>> \in callbacks' <=> <<r, v>> \in callbacks
      /\ UNCHANGED <<received[r], submitted[r]>>
<1>0. /\ TypeOK' /\ ExchangeInv'
      /\ Waiting \subseteq Submissions /\ requests \subseteq Submissions
      /\ hooks \subseteq Submissions
  BY TypesKept, ExchangeKept DEF Waiting, TypeOK
<1>1. ASSUME calm[r] PROVE CalmAt(r)
  BY <1>1 DEF CalmInv
<1>2. ASSUME calm[r], Quiet,
             \A s \in Submissions :
               /\ Underway(s, r)' <=> Underway(s, r)
               /\ Underway(s, r) /\ s \in Waiting => s \in Waiting'
               /\ Underway(s, r) /\ (s \in hooks' \/ <<s, 201>> \in answers') =>
                    s \in hooks \/ <<s, 201>> \in answers
      PROVE  CalmAt(r)'
  BY <1>0, <1>1, <1>2, CalmUndisturbed
<1>3. ASSUME NEW s \in Submissions, NEW q \in Reports, NEW forced \in BOOLEAN,
             Submit(s, q, forced)
      PROVE  CalmAt(r)'
  <2>1. /\ call[s].state = "unused" /\ call[s].report = NoReport
        /\ call'[s].state = "waiting" /\ call'[s].report = q
        /\ \A t \in Submissions \ {s} : /\ call'[t].state = call[t].state
                                       /\ call'[t].report = call[t].report
    <3>1. \A t \in Submissions :
             /\ [call[t] EXCEPT !.overlapped = TRUE].state = call[t].state
             /\ [call[t] EXCEPT !.overlapped = TRUE].report = call[t].report
      BY DEF TypeOK, Calls
    <3> QED
      BY <1>3, <3>1 DEF Submit, Unused
  <2>2. /\ Waiting' = Waiting \cup {s} /\ requests' = requests \cup {s}
        /\ UNCHANGED <<hooks, answers, callbacks, received, submitted>>
    BY <1>3, <2>1 DEF Submit, Waiting, responderVars
  <2>3. s \notin hooks /\ <<s, 201>> \notin answers /\ s \notin Waiting \cup requests
    <3>1. s \notin Waiting \cup requests \cup hooks
      BY <2>1 DEF ExchangeInv, Waiting
    <3>2. <<s, 201>> \in answers => s \in Waiting
      BY DEF ExchangeInv, Statuses
    <3> QED
      BY <3>1, <3>2
  <2>4. CASE q = r
    <3>1. ~Outstanding(r) /\ ~CallbackUnderWay(r)
      BY <1>3, <2>4 DEF Submit, TypeOK
    <3>2. \A t \in Submissions : ~Underway(t, r)
      BY <3>1, UnderwayFacts
    <3>3. \A t \in Submissions : Underway(t, r)' <=> t = s
      BY <2>1, <2>2, <2>4, <3>2 DEF Underway
    <3>4. ~CallbackUnderWay(r)' /\ \A v \in Resolutions : <<r, v>> \notin callbacks'
      BY <1>0, <2>2, <3>1, UnderwayFacts, UnderwayFactsNext
    <3>5. Outstanding(r)'
      BY <1>0, <3>3, UnderwayFactsNext
    <3> QED
      BY <2>2, <2>3, <3>3, <3>4, <3>5 DEF CalmAt
  <2>5. CASE q # r
    <3>1. calm[r]
      BY <1>3, <2>5 DEF Submit, TypeOK
    <3>2. \A t \in Submissions : Underway(t, r)' <=> Underway(t, r)
      BY <2>1, <2>2, <2>5, NoneIsNothing DEF Underway
    <3> QED
      BY <1>2, <2>2, <3>1, <3>2
  <2> QED
    BY <2>4, <2>5
<1>4. ASSUME NEW s \in Submissions, SubmitFails(s) PROVE CalmAt(r)'
  <2>1. /\ call'[s].state = "failed" /\ call'[s].report = call[s].report
        /\ \A t \in Submissions \ {s} : call'[t] = call[t]
    BY <1>4 DEF SubmitFails, TypeOK, Calls
  <2>2. /\ Waiting' = Waiting \ {s} /\ answers' \subseteq answers
        /\ UNCHANGED <<requests, hooks, callbacks, received, submitted>>
    BY <1>4, <2>1 DEF SubmitFails, Waiting, responderVars
  <2>3. call[s].report # r /\ calm[r]
    BY <1>4 DEF SubmitFails, TypeOK
  <2>4. \A t \in Submissions : Underway(t, r) \/ Underway(t, r)' => t # s
    BY <2>1, <2>3 DEF Underway
  <2>5. \A t \in Submissions : Underway(t, r)' <=> Underway(t, r)
    BY <2>1, <2>2, <2>4 DEF Underway
  <2> QED
    BY <1>2, <2>2, <2>3, <2>4, <2>5
<1>5. ASSUME NEW s \in Submissions, NEW status \in Statuses, Answered(s, status)
      PROVE  CalmAt(r)'
  <2>1. /\ call'[s].state = "answered" /\ call'[s].report = call[s].report
        /\ \A t \in Submissions \ {s} : call'[t] = call[t]
    BY <1>5 DEF Answered, TypeOK, Calls
  <2>2. /\ Waiting' = Waiting \ {s} /\ answers' \subseteq answers
        /\ UNCHANGED <<requests, hooks, callbacks, received, calm>>
    BY <1>5, <2>1 DEF Answered, Waiting, responderVars, historyVars
  <2>3. /\ <<s, status>> \in answers /\ s \in Waiting /\ s \notin requests \cup hooks
        /\ status = ReportStatus(call[s].report)
    BY <1>5 DEF Answered, ExchangeInv
  <2>4. CalmAt(r)
    BY <1>1, <2>2
  <2>5. CASE call[s].report = r
    <3>1. Underway(s, r)
      BY <2>3, <2>5 DEF Underway
    <3>2. \A t \in Submissions : Underway(t, r) => t = s
      BY <2>4, <3>1 DEF CalmAt
    <3>3. \A t \in Submissions : ~Underway(t, r)'
      BY <2>1, <2>2, <2>3, <3>2 DEF Underway
    <3>4. ~CallbackUnderWay(r) /\ \A v \in Resolutions : <<r, v>> \notin callbacks'
      BY <2>2, <2>4, <3>1, UnderwayFacts DEF CalmAt
    <3>5. submitted'[r] = received'[r]
      <4>1. CASE status = 201
        <5>1. submitted'[r] = Entry(s)
          BY <1>5, <2>5, <4>1 DEF Answered, TypeOK
        <5>2. received[r] = Entry(s)
          BY <2>3, <2>4, <3>1, <4>1 DEF CalmAt
        <5> QED
          BY <2>2, <5>1, <5>2
      <4>2. CASE status # 201
        <5>1. submitted' = submitted
          BY <1>5, <4>2 DEF Answered
        <5>2. submitted[r] = NoEntry /\ received[r] = NoEntry
          BY <2>3, <2>5, <4>2 DEF RejectedInv
        <5> QED
          BY <2>2, <5>1, <5>2
      <4> QED
        BY <4>1, <4>2
    <3> QED
      BY <3>3, <3>4, <3>5 DEF CalmAt
  <2>6. CASE call[s].report # r
    <3>1. \A t \in Submissions : Underway(t, r) \/ Underway(t, r)' => t # s
      BY <2>1, <2>6 DEF Underway
    <3>2. \A t \in Submissions : Underway(t, r)' <=> Underway(t, r)
      BY <2>1, <2>2, <3>1 DEF Underway
    <3>3. submitted'[r] = submitted[r]
      BY <1>5, <2>6 DEF Answered, TypeOK
    <3> QED
      BY <1>2, <2>2, <3>1, <3>2, <3>3
  <2> QED
    BY <2>5, <2>6
<1>6. ASSUME NEW s \in Submissions, ReceiveReport(s) PROVE CalmAt(r)'
  <2>1. /\ s \in requests /\ requests' = requests \ {s} /\ Waiting' = Waiting
        /\ UNCHANGED <<call, callbacks, submitted, calm>>
    BY <1>6 DEF ReceiveReport, reporterVars, Waiting
  <2>2. CalmAt(r)
    BY <1>1, <2>1
  <2>3. call[s].report = r => Underway(s, r) /\ s \in Waiting
    BY <2>1, <2>2 DEF Underway, CalmAt
  <2>4. CASE ReportStatus(call[s].report) = 201
    <3>1. /\ received' = [received EXCEPT ![call[s].report] = Entry(s)]
          /\ hooks' = hooks \cup {s} /\ answers' = answers
      BY <1>6, <2>4 DEF ReceiveReport
    <3>2. \A t \in Submissions : Underway(t, r)' <=> Underway(t, r)
      BY <2>1, <3>1 DEF Underway
    <3>3. CASE call[s].report = r
      <4>1. \A t \in Submissions : Underway(t, r)' => t = s
        BY <2>2, <2>3, <3>2, <3>3 DEF CalmAt
      <4>2. received'[r] = Entry(s)
        BY <3>1, <3>3 DEF TypeOK
      <4>3. ~CallbackUnderWay(r)' /\ \A v \in Resolutions : <<r, v>> \notin callbacks'
        BY <1>0, <2>1, <2>2, <2>3, <3>3, UnderwayFacts, UnderwayFactsNext DEF CalmAt
      <4>4. Outstanding(r)'
        BY <1>0, <2>3, <3>2, <3>3, UnderwayFactsNext
      <4> QED
        BY <2>1, <2>3, <3>3, <4>1, <4>2, <4>3, <4>4 DEF CalmAt
    <3>4. CASE call[s].report # r
      <4>1. received'[r] = received[r]
        BY <3>1, <3>4 DEF TypeOK
      <4>2. \A t \in Submissions : Underway(t, r) => t # s
        BY <3>4 DEF Underway
      <4> QED
        BY <1>2, <2>1, <3>1, <3>2, <4>1, <4>2
    <3> QED
      BY <3>3, <3>4
  <2>5. CASE ReportStatus(call[s].report) # 201
    <3>1. /\ UNCHANGED <<received, hooks>>
          /\ <<s, 201>> \in answers' => <<s, 201>> \in answers
          /\ \A t \in Submissions \ {s} : <<t, 201>> \in answers' <=> <<t, 201>> \in answers
      BY <1>6, <2>5 DEF ReceiveReport, Answer
    <3>2. \A t \in Submissions : Underway(t, r)' <=> Underway(t, r)
      BY <2>1, <2>3, <3>1 DEF Underway
    <3> QED
      BY <1>2, <2>1, <3>1, <3>2
  <2> QED
    BY <2>4, <2>5
<1>7. ASSUME NEW s \in Submissions, NEW drained \in BOOLEAN, HookDone(s, drained)
      PROVE  CalmAt(r)'
  <2>1. /\ s \in hooks /\ hooks' = hooks \ {s} /\ Waiting' = Waiting
        /\ UNCHANGED <<call, requests, callbacks, submitted, received, calm>>
        /\ \A t \in Submissions \ {s} : <<t, 201>> \in answers' <=> <<t, 201>> \in answers
    BY <1>7 DEF HookDone, reporterVars, Waiting, Answer
  <2>2. call[s].report = r => s \in Waiting
    BY <1>1, <2>1 DEF Underway, CalmAt
  <2>3. \A t \in Submissions : Underway(t, r)' <=> Underway(t, r)
    BY <2>1, <2>2 DEF Underway
  <2> QED
    BY <1>2, <2>1, <2>3
<1>8. ASSUME NEW q \in Reports, NEW v \in Resolutions, Resolve(q, v) PROVE CalmAt(r)'
  <2>1. Waiting' = Waiting /\ UNCHANGED <<call, requests, hooks, answers, submitted>>
    BY <1>8 DEF Resolve, reporterVars, Waiting
  <2>2. \A t \in Submissions : Underway(t, r)' <=> Underway(t, r)
    BY <2>1 DEF Underway
  <2>3. CASE q = r
    <3>1. calm[r] /\ ~CallbackUnderWay(r) /\ ~Outstanding(r)
      BY <1>8, <2>3 DEF Resolve, TypeOK
    <3>2. submitted[r] = received[r]
      BY <1>1, <3>1 DEF CalmAt
    <3>3. received'[r] = [submitted'[r] EXCEPT !.resolution = v]
      BY <1>8, <2>1, <2>3, <3>2 DEF Resolve, TypeOK
    <3>4. \A w \in Resolutions : <<r, w>> \in callbacks' <=> w = v
      BY <1>8, <2>3, <3>1, UnderwayFacts DEF Resolve
    <3>5. \A t \in Submissions : ~Underway(t, r)'
      BY <2>2, <3>1, UnderwayFacts
    <3>6. CallbackUnderWay(r)'
      BY <1>0, <3>4, UnderwayFactsNext
    <3> QED
      BY <3>3, <3>4, <3>5, <3>6 DEF CalmAt
  <2>4. CASE q # r
    <3>1. /\ calm[r] /\ received'[r] = received[r]
          /\ \A w \in Resolutions : <<r, w>> \in callbacks' <=> <<r, w>> \in callbacks
      BY <1>8, <2>4 DEF Resolve, TypeOK
    <3> QED
      BY <1>2, <2>1, <2>2, <3>1
  <2> QED
    BY <2>3, <2>4
<1>9. ASSUME NEW q \in Reports, NEW v \in Resolutions, ReceiveResolution(q, v)
      PROVE  CalmAt(r)'
  <2>1. Waiting' = Waiting /\ UNCHANGED <<call, requests, hooks, answers, received>>
    BY <1>9 DEF ReceiveResolution, responderVars, Waiting
  <2>2. \A t \in Submissions : Underway(t, r)' <=> Underway(t, r)
    BY <2>1 DEF Underway
  <2>3. CASE q = r
    <3>1. calm[r] /\ ResolutionStatus(r) = 201 /\ ~Outstanding(r)
      BY <1>9, <2>3 DEF ReceiveResolution, TypeOK
    <3>2. \A w \in Resolutions : <<r, w>> \in callbacks =>
            received[r] = [submitted[r] EXCEPT !.resolution = w]
      BY <1>1, <3>1 DEF CalmAt
    <3>3. received[r] = [submitted[r] EXCEPT !.resolution = v] /\ <<r, v>> \in callbacks
      BY <1>9, <2>3, <3>2 DEF ReceiveResolution
    <3>4. submitted'[r] = received'[r]
      BY <1>9, <2>1, <2>3, <3>1, <3>3 DEF ReceiveResolution, TypeOK
    <3>5. \A w \in Resolutions : <<r, w>> \in callbacks => w = v
      <4>1. submitted[r] \in Entries /\ submitted[r] # NoEntry
        BY <3>1 DEF ResolutionStatus, TypeOK
      <4>2. \A w \in Resolutions : [submitted[r] EXCEPT !.resolution = w].resolution = w
        BY <4>1, NewEntry
      <4> QED
        BY <3>2, <3>3, <4>2
    <3>6. \A w \in Resolutions : <<r, w>> \notin callbacks'
      BY <1>9, <2>3, <3>5 DEF ReceiveResolution
    <3>7. \A t \in Submissions : ~Underway(t, r)'
      BY <2>2, <3>1, UnderwayFacts
    <3> QED
      BY <3>4, <3>6, <3>7 DEF CalmAt
  <2>4. CASE q # r
    <3>1. /\ calm[r] /\ submitted'[r] = submitted[r]
          /\ \A w \in Resolutions : <<r, w>> \in callbacks' <=> <<r, w>> \in callbacks
      BY <1>9, <2>4 DEF ReceiveResolution, TypeOK
    <3> QED
      BY <1>2, <2>1, <2>2, <3>1
  <2> QED
    BY <2>3, <2>4
<1>10. ASSUME NEW s \in Submissions, LoseRequest(s) PROVE CalmAt(r)'
  <2>1. /\ s \in requests /\ requests' = requests \ {s} /\ Waiting' = Waiting
        /\ UNCHANGED <<call, hooks, answers, callbacks, submitted, received, calm>>
    BY <1>10 DEF LoseRequest, reporterVars, responderVars, historyVars, Waiting
  <2>2. call[s].report = r => s \in Waiting
    BY <1>1, <2>1 DEF Underway, CalmAt
  <2>3. \A t \in Submissions : Underway(t, r)' <=> Underway(t, r)
    BY <2>1, <2>2 DEF Underway
  <2> QED
    BY <1>2, <2>1, <2>3
<1>11. ASSUME NEW q \in Reports, NEW v \in Resolutions, LoseCallback(q, v)
       PROVE  CalmAt(r)'
  <2>1. /\ Waiting' = Waiting
        /\ UNCHANGED <<call, requests, hooks, answers, submitted, received>>
    BY <1>11 DEF LoseCallback, reporterVars, responderVars, Waiting
  <2>2. q # r /\ calm[r]
    BY <1>11 DEF LoseCallback, TypeOK
  <2>3. \A w \in Resolutions : <<r, w>> \in callbacks' <=> <<r, w>> \in callbacks
    BY <1>11, <2>2 DEF LoseCallback
  <2>4. \A t \in Submissions : Underway(t, r)' <=> Underway(t, r)
    BY <2>1 DEF Underway
  <2> QED
    BY <1>2, <2>1, <2>2, <2>3, <2>4
<1>12. ASSUME NEW q \in Reporters, RestartReporter(q) PROVE CalmAt(r)'
  <2>1. r[1] # q /\ calm[r] /\ submitted'[r] = submitted[r]
    BY <1>12 DEF RestartReporter
  <2>2. \A s \in Submissions :
          /\ call'[s].report = call[s].report
          /\ call'[s].state = IF call[s].report[1] = q THEN "failed" ELSE call[s].state
    BY <1>12 DEF RestartReporter, TypeOK, Calls
  <2>3. /\ UNCHANGED <<requests, hooks, callbacks, received>> /\ answers' \subseteq answers
        /\ Waiting' = {s \in Waiting : call[s].report[1] # q}
    BY <1>12, <2>2 DEF RestartReporter, responderVars, Waiting
  <2>4. \A s \in Submissions : Underway(s, r)' <=> Underway(s, r)
    BY <2>1, <2>2, <2>3 DEF Underway
  <2>5. \A s \in Submissions : Underway(s, r) /\ s \in Waiting => s \in Waiting'
    BY <2>1, <2>3 DEF Underway
  <2> QED
    BY <1>2, <2>1, <2>3, <2>4, <2>5
<1>13. ASSUME RestartResponder PROVE FALSE
  BY <1>13 DEF RestartResponder
<1>14. ASSUME Tick PROVE CalmAt(r)'
  <2>1. \A s \in Submissions : /\ call'[s].state = call[s].state
                             /\ call'[s].report = call[s].report
    BY <1>14 DEF Tick, TypeOK, Calls
  <2>2. /\ Waiting' = Waiting
        /\ UNCHANGED <<requests, hooks, answers, callbacks, submitted, received, calm>>
    BY <1>14, <2>1 DEF Tick, Waiting, networkVars, responderVars, historyVars
  <2>3. \A s \in Submissions : Underway(s, r)' <=> Underway(s, r)
    BY <2>1, <2>2 DEF Underway
  <2> QED
    BY <1>2, <2>2, <2>3
<1>15. ASSUME UNCHANGED vars PROVE CalmAt(r)'
  BY <1>1, <1>15
  DEF vars, CalmAt, Underway, Outstanding, CallbackUnderWay, Waiting, Entry
<1> QED
  BY <1>3, <1>4, <1>5, <1>6, <1>7, <1>8, <1>9, <1>10, <1>11, <1>12, <1>13, <1>14, <1>15
  DEF Next

----
\* The inductive invariant.

LEMMA InitEstablishes == Init => IInv
<1> SUFFICES ASSUME Init PROVE IInv
  OBVIOUS
<1>1. Waiting = {}
  BY DEF Init, Waiting, Unused
<1>2. TypeOK
  <2>1. Unused \in Calls /\ NoEntry \in Entries /\ NoPromise \in Promises
    BY IntervalAssumption, NewEntry
    DEF Unused, Calls, CallStates, NoPromise, Promises
  <2>2. 0 \in 0..MaxRestarts /\ MinInterval \in 0..MinInterval
    BY IntervalAssumption, RestartsAssumption
  <2> QED
    BY <2>1, <2>2 DEF Init, TypeOK
<1>3. ExchangeInv
  BY <1>1 DEF Init, ExchangeInv
<1>4. RejectedInv
  BY DEF Init, RejectedInv
<1>5. PromiseInv
  BY DEF Init, PromiseInv, NoPromise
<1>6. CalmInv
  BY <1>1 DEF Init, CalmInv, CalmAt, Underway
<1>7. SpacingInv
  BY <1>1 DEF Init, SpacingInv, Unused
<1> QED
  BY <1>2, <1>3, <1>4, <1>5, <1>6, <1>7 DEF IInv

LEMMA StepPreserves == IInv /\ [Next]_vars => IInv'
BY TypesKept, ExchangeKept, RejectedKept, PromisesKept, CalmKept, SpacingKept DEF IInv

\* Through lost, late and repeated messages and the restarts of both sides: each POST is
\* in one place, a rejected report is in no table, the resolutions given are kept, what
\* is under way about a calm report makes up the difference of the two sides, and the
\* rate limit's clock is not ahead of a submission that no similar one overlapped.
THEOREM Invariance == Spec => []IInv
BY InitEstablishes, StepPreserves, PTL DEF Spec

\* The tables of both roles and the messages keep their types.
THEOREM TypeCorrectness == Spec => []TypeOK
<1>1. IInv => TypeOK
  BY DEF IInv
<1> QED
  BY <1>1, Invariance, PTL

\* The comment in resolve() (discrepancy/service.py), "reporter can still poll", holds:
\* a resolution given stays what polls answer until a resubmission or a restart that
\* finds it not drained.
THEOREM PollsKeepResolutions == Spec => []PollsAreFaithful
<1>1. ASSUME IInv PROVE PollsAreFaithful
  <2>1. SUFFICES ASSUME NEW r \in Reports, promised[r] # NoPromise
                 PROVE  PollResolution(r) = promised[r].resolution /\ StatusUpdate(r) = 474
    BY DEF PollsAreFaithful
  <2>2. /\ promised[r].resolution # None
        /\ received[r].resolution = promised[r].resolution
    BY <1>1, <2>1 DEF IInv, PromiseInv
  <2>3. received[r] # NoEntry
    BY <2>2 DEF NoEntry, Entry
  <2>4. ReportStatus(r) = 201
    BY <1>1, <2>3 DEF IInv, RejectedInv
  <2>5. r[1] \in Authorized
    BY <2>4 DEF ReportStatus
  <2> QED
    BY <2>2, <2>3, <2>5 DEF PollResolution, StatusUpdate
<1> QED
  BY <1>1, Invariance, PTL

\* The two sides agree on a report about which nothing is under way, unless a message
\* was lost, two crossed, or an element restarted since its last undisturbed submit().
THEOREM SidesAgreeWhenCalm == Spec => []AgreeWhenCalm
<1>1. IInv => AgreeWhenCalm
  BY DEF IInv, CalmInv, CalmAt, AgreeWhenCalm
<1> QED
  BY <1>1, Invariance, PTL

\* submit()'s rate limit (discrepancy/service.py) cannot be got round by waiting for an
\* answer: after a submission that no similar one overlapped, the next unforced one is
\* MinInterval away.
THEOREM SequentialIsSpaced == Spec => SpacedWhenSequential
<1>1. ASSUME IInv, [Next]_vars,
             NEW s \in Submissions, NEW t \in Submissions,
             call[s] = Unused, call'[s] # Unused, ~call'[s].forced,
             call[t].state = "answered", ~call[t].overlapped,
             Similar(call[t].report, call'[s].report)
      PROVE  call[t].age >= MinInterval
  <2>1. TypeOK /\ ExchangeInv /\ SpacingInv
    BY <1>1 DEF IInv
  <2>2. call[s].state = "unused" /\ call[s].report = NoReport
    BY <1>1 DEF Unused
  <2>3. ~\E u \in Submissions : SubmitFails(u) /\ u = s
    BY <2>2 DEF SubmitFails, Waiting
  <2>4. ASSUME NEW u \in Submissions, SubmitFails(u) PROVE FALSE
    <3>1. u # s
      BY <2>3, <2>4
    <3> QED
      BY <1>1, <2>4, <3>1 DEF SubmitFails, TypeOK
  <2>5. ASSUME NEW u \in Submissions, NEW status \in Statuses, Answered(u, status)
        PROVE  FALSE
    <3>1. u # s
      BY <2>1, <2>2, <2>5 DEF Answered, ExchangeInv, Waiting
    <3> QED
      BY <1>1, <2>5, <3>1 DEF Answered, TypeOK
  <2>6. ASSUME NEW r \in Reporters, RestartReporter(r) PROVE FALSE
    <3>1. call[s].report[1] # r
      BY <2>2, NoneAssumption DEF NoReport
    <3> QED
      BY <1>1, <2>6, <3>1 DEF RestartReporter
  <2>7. ~Tick
    BY <1>1 DEF Tick
  <2>8. \/ \E u \in Submissions : ReceiveReport(u) \/ LoseRequest(u)
        \/ \E u \in Submissions, drained \in BOOLEAN : HookDone(u, drained)
        \/ \E r \in Reports, v \in Resolutions :
              Resolve(r, v) \/ ReceiveResolution(r, v) \/ LoseCallback(r, v)
        \/ RestartResponder \/ UNCHANGED vars
        => call' = call
    BY DEF ReceiveReport, LoseRequest, HookDone, Resolve, ReceiveResolution, LoseCallback,
           RestartResponder, vars, reporterVars
  <2>9. PICK u \in Submissions, r \in Reports, forced \in BOOLEAN : Submit(u, r, forced)
    BY <1>1, <2>4, <2>5, <2>6, <2>7, <2>8 DEF Next
  <2>10. u = s
    BY <1>1, <2>2, <2>9 DEF Submit, Waiting
  <2>11. call'[s].report = r /\ call'[s].forced = forced
    BY <2>9, <2>10 DEF Submit
  <2>12. SinceSimilar(r) >= MinInterval
    BY <1>1, <2>9, <2>11 DEF Submit
  <2>13. SinceSimilar(call[t].report) <= call[t].age
    BY <1>1, <2>1 DEF SpacingInv
  <2>14. SinceSimilar(call[t].report) = SinceSimilar(r)
    BY <1>1, <2>11, SimilarReports
  <2>15. SinceSimilar(r) \in 0..MinInterval /\ call[t].age \in 0..MinInterval
    BY <2>1, CallRow, NoneIsNothing DEF TypeOK, SinceSimilar
  <2> QED
    BY <2>12, <2>13, <2>14, <2>15, IntervalAssumption
<1>2. IInv /\ [Next]_vars =>
        [\A s, t \in Submissions :
           /\ call[s] = Unused /\ call'[s] # Unused /\ ~call'[s].forced
           /\ call[t].state = "answered" /\ ~call[t].overlapped
           /\ Similar(call[t].report, call'[s].report)
           => call[t].age >= MinInterval]_vars
  BY <1>1
<1> QED
  BY <1>2, Invariance, PTL DEF Spec, SpacedWhenSequential

----
\* What arrives.

\* to_dict leaves out what get() then does not find: reading each field gives it back.
LEMMA FieldsReadBack ==
    ASSUME NEW object
    PROVE  /\ DOMAIN Models!ToDict(object) \subseteq DOMAIN object
           /\ \A k \in DOMAIN object : Models!Get(Models!ToDict(object), k) = object[k]
           /\ \A k \in DOMAIN object : object[k] # Models!Null =>
                k \in DOMAIN Models!ToDict(object) /\ Models!ToDict(object)[k] = object[k]
BY DEF Models!ToDict, Models!Only, Models!Get

\* from_dict builds from the fields.
LEMMA FromFields ==
    ASSUME NEW schema, NEW F, F = Models!Fields(schema), NEW V, NEW o \in [F -> V], NEW d,
           Models!Complete(schema, o), \A k \in F : Models!Get(d, k) = o[k]
    PROVE  Models!FromDict(schema, d) = o
<1>1. schema.mandatory \subseteq F
  BY DEF Models!Fields
<1>2. ~Models!Missing(schema, d)
  BY <1>1 DEF Models!Missing, Models!Complete
<1>3. Models!FromDict(schema, d) = [k \in F |-> Models!Get(d, k)]
  BY <1>2 DEF Models!FromDict
<1>4. [k \in F |-> Models!Get(d, k)] = [k \in F |-> o[k]]
  OBVIOUS
<1> QED
  BY <1>3, <1>4

\* A report splits into its prolog and the parameters of its type again.
LEMMA ReportReadsBack ==
    ASSUME NEW r \in Models!SampleReports, Models!Complete(Models!Report, r.prolog),
           DOMAIN r.specific \cap Models!Fields(Models!Report) = {}
    PROVE  Models!ReportFromDict(Models!ReportToDict(r)) = r
<1> DEFINE F == Models!Fields(Models!Report)
           d == Models!ToDict(r.prolog)
           sent == Models!Merge(d, r.specific)
<1>1. /\ r \in [prolog : Models!Prologs, specific : Models!Specifics]
      /\ Models!Constructible(r)
  BY DEF Models!SampleReports
<1>2. r = [prolog |-> r.prolog, specific |-> r.specific]
  BY <1>1
<1>3. r.prolog \in [F -> {Models!Null, Models!Good, Models!Bad}]
  BY <1>1 DEF Models!Prologs
<1>4. PICK K : r.specific \in [K -> {Models!Good}]
  BY <1>1 DEF Models!Specifics
<1>5. DOMAIN r.prolog = F /\ DOMAIN r.specific = K /\ K \cap F = {} /\ DOMAIN d \subseteq F
  BY <1>3, <1>4, FieldsReadBack
<1>6. Models!ReportToDict(r) = sent
  <2>1. "discrepancyReportSubmittalTimeStamp" \in Models!Report.mandatory
    BY DEF Models!Report
  <2>2. r.prolog["discrepancyReportSubmittalTimeStamp"] # Models!Null
    BY <2>1 DEF Models!Complete
  <2>3. DOMAIN r.specific \cap DOMAIN d = {}
    BY <1>5
  <2> QED
    BY <2>2, <2>3 DEF Models!ReportToDict
<1>7. /\ DOMAIN sent = DOMAIN d \cup K
      /\ \A k \in DOMAIN d : sent[k] = d[k]
      /\ \A k \in K : sent[k] = r.specific[k]
  BY <1>5 DEF Models!Merge
<1>8. \A k \in F : Models!Get(sent, k) = r.prolog[k]
  <2>1. SUFFICES ASSUME NEW k \in F PROVE Models!Get(sent, k) = r.prolog[k]
    OBVIOUS
  <2>2. Models!Get(d, k) = r.prolog[k] /\ k \notin K
    BY <1>5, FieldsReadBack
  <2> QED
    BY <1>7, <2>2 DEF Models!Get
<1>9. Models!FromDict(Models!Report, sent) = r.prolog
  BY <1>3, <1>8, FromFields
<1>10. Models!Only(sent, DOMAIN sent \ F) = r.specific
  <2>1. DOMAIN sent \ F = K
    BY <1>5, <1>7
  <2>2. Models!Only(sent, K) = [k \in K |-> r.specific[k]]
    BY <1>7 DEF Models!Only
  <2> QED
    BY <1>4, <2>1, <2>2
<1>11. r.prolog # Models!Error
  <2>1. "resolutionUri" \in F
    BY DEF Models!Fields, Models!Report
  <2>2. DOMAIN Models!Error = {"error"}
    BY DEF Models!Error
  <2> QED
    BY <1>5, <2>1, <2>2
<1> QED
  BY <1>1, <1>2, <1>6, <1>9, <1>10, <1>11 DEF Models!ReportFromDict

\* Each of the four objects survives the way over the wire.
LEMMA ReadBackHolds == ReadBack
<1>1. ASSUME NEW schema, NEW o \in Models!Objects(schema), Models!Complete(schema, o)
      PROVE  /\ Models!FromDict(schema, Models!ToDict(o)) = o
             /\ \A k \in Models!Fields(schema) : Models!Get(Models!ToDict(o), k) = o[k]
  <2>1. o \in [Models!Fields(schema) -> {Models!Null, Models!Good}]
    BY DEF Models!Objects
  <2>2. \A k \in Models!Fields(schema) : Models!Get(Models!ToDict(o), k) = o[k]
    BY <2>1, FieldsReadBack
  <2> QED
    BY <1>1, <2>1, <2>2, FromFields
<1>2. ASSUME NEW o \in Models!Objects(Models!Status), Models!Complete(Models!Status, o)
      PROVE  Models!StatusFromDict(Models!ToDict(o)) = o
  <2> DEFINE d == Models!ToDict(o)
             jcard == d["respondingContactJcard"]
             read == Models!Merge([respondingContactJcard |-> jcard], d)
  <2>1. /\ "respondingContactJcard" \in Models!Status.mandatory
        /\ "respondingContactJcard" \in Models!Fields(Models!Status)
    BY DEF Models!Status, Models!Fields
  <2>2. o \in [Models!Fields(Models!Status) -> {Models!Null, Models!Good}]
    BY DEF Models!Objects
  <2>3. "respondingContactJcard" \in DOMAIN d
    BY <1>2, <2>1, <2>2, FieldsReadBack DEF Models!Complete
  <2>4. Models!StatusFromDict(d) = Models!FromDict(Models!Status, read)
    BY <2>3 DEF Models!StatusFromDict
  <2>5. \A k : Models!Get(read, k) = Models!Get(d, k)
    <3>1. DOMAIN [respondingContactJcard |-> jcard] = {"respondingContactJcard"}
      OBVIOUS
    <3>2. DOMAIN read = DOMAIN d /\ \A k \in DOMAIN d : read[k] = d[k]
      BY <2>3, <3>1 DEF Models!Merge
    <3> QED
      BY <3>2 DEF Models!Get
  <2>6. \A k \in Models!Fields(Models!Status) : Models!Get(read, k) = o[k]
    BY <1>1, <1>2, <2>5
  <2> QED
    BY <1>2, <2>2, <2>4, <2>6, FromFields
<1> QED
  BY <1>1, <1>2, ReportReadsBack DEF ReadBack, Models!ReadBack

\* The verdict on a body whose identifiers are no arrays never raises.
LEMMA StatusesClosedHolds == StatusesClosed
<1>1. SUFFICES ASSUME NEW body, NEW known \in {{}, {Models!Good}}, NEW authorized \in BOOLEAN,
                      Models!List \notin {Models!Get(body, k) :
                          k \in {"reportingAgencyName", "discrepancyReportId",
                                 "problemService"}}
               PROVE  Models!PostReports(body, known, authorized) \in {201, 454, 470, 471}
  BY DEF StatusesClosed, Models!StatusesClosed
<1> DEFINE report == Models!ReportFromDict(body)
           F == Models!Fields(Models!Report)
<1>2. CASE body = Models!NotAnObject \/ report = Models!Error
  BY <1>2 DEF Models!PostReports
<1>3. CASE body # Models!NotAnObject /\ report # Models!Error
  <2>1. Models!FromDict(Models!Report, body) # Models!Error
    BY <1>3 DEF Models!ReportFromDict
  <2>2. Models!FromDict(Models!Report, body) = [k \in F |-> Models!Get(body, k)]
    BY <2>1 DEF Models!FromDict
  <2>3. report.prolog = [k \in F |-> Models!Get(body, k)]
    BY <1>3, <2>2 DEF Models!ReportFromDict
  <2>4. {"reportingAgencyName", "discrepancyReportId", "problemService"} \subseteq F
    BY DEF Models!Fields, Models!Report
  <2>5. /\ report.prolog["problemService"] # Models!List
        /\ Models!List \notin {report.prolog[k] :
              k \in {"reportingAgencyName", "discrepancyReportId"}}
    BY <1>1, <2>3, <2>4
  <2> QED
    BY <1>3, <2>5 DEF Models!PostReports
<1> QED
  BY <1>2, <1>3

\* Whatever a message under way carries, to_dict and from_dict (discrepancy/models.py)
\* bring it to the other side unchanged, ...
THEOREM WireIsLossless == Spec => []Lossless
<1>1. Lossless
  BY ReadBackHolds DEF Lossless
<1> QED
  BY <1>1, PTL

\* ... and a POST Reports is answered with one of routes.py's statuses.
THEOREM StatusSetIsClosed == Spec => []ClosedStatusSet
<1>1. ClosedStatusSet
  BY StatusesClosedHolds DEF ClosedStatusSet
<1> QED
  BY <1>1, PTL
=============================================================================
