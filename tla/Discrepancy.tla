----------------------------- MODULE Discrepancy -----------------------------
(***************************************************************************)
(* DiscrepancyReporting in its two roles: several reporting elements file  *)
(* reports against one responding element over HTTP.  A POST is an         *)
(* exchange that may be lost on its way, or be handled while its sender    *)
(* gives up on the answer; nothing is retried.                             *)
(*                                                                         *)
(* One action is what a coroutine does between two awaits: submit() sends, *)
(* and records the answer later; a report is stored, and acknowledged      *)
(* after the on_report hook; resolve() records, and calls back.            *)
(*                                                                         *)
(* Reads (GET StatusUpdates, GET Resolutions) change nothing: they are the *)
(* operators StatusUpdate and PollResolution.  Ages are counted up to      *)
(* MinInterval, beyond which the rate limit tells no two apart.            *)
(***************************************************************************)
EXTENDS Integers, FiniteSets

CONSTANTS
    Reporters,      \* agencies of the reporting elements
    Ids,            \* discrepancyReportIds, unique per agency only
    Reports,        \* the reports filed: <<agency, id>>
    SimilarityKey,  \* Ids -> similarity key (type, service, problem)
    Authorized,     \* agencies authorize_reporter accepts
    OwnProblems,    \* ids of reports on a service the responder answers for
    Trusting,       \* agencies whose authorize_responder accepts the responder
    MinInterval,    \* min_similar_report_interval, in ticks
    Submissions,    \* bound: one value per call of submit() that sends
    Resolutions,    \* bound: one value per call of resolve()
    MaxRestarts     \* bound on the restarts of elements

None == "none"

ASSUME IntervalAssumption == MinInterval \in Nat
ASSUME NoneAssumption == None \notin Submissions \cup Resolutions \cup Reporters
ASSUME ReportsAssumption == Reports \subseteq Reporters \X Ids
ASSUME RestartsAssumption == MaxRestarts \in Nat

Keys == {SimilarityKey[id] : id \in Ids}

\* The contents of messages are abstract here; DiscrepancyModels has them.
Models == INSTANCE DiscrepancyModels
ReadBack == Models!ReadBack
StatusesClosed == Models!StatusesClosed

NoReport == <<None, None>>

VARIABLES
    \* the reporters
    call,           \* call[s]: the submit() call s and what became of it
    sinceSend,      \* time since _last_similar_send[key], MinInterval without one
    submitted,      \* _submitted: [edition, resolution] per report, or NoEntry
    \* under way
    requests,       \* POST Reports
    answers,        \* answers to those
    callbacks,      \* POST Resolutions
    \* the responder
    received,       \* _received: [edition, resolution] per report, or NoEntry
    hooks,          \* submissions whose on_report hook (and log event) is awaited
    durable,        \* what the hook last drained of received_reports()
    \* history
    givenTo,        \* the submission each resolution was given to
    promised,       \* per report, the resolution the responder holds it resolved by
    calm,           \* per report: did nothing happen that may part the two sides?
    restarts

reporterVars == <<call, sinceSend, submitted>>
networkVars == <<requests, answers, callbacks>>
responderVars == <<received, hooks, durable>>
historyVars == <<givenTo, promised, calm, restarts>>
vars == <<call, sinceSend, submitted, requests, answers, callbacks,
          received, hooks, durable, givenTo, promised, calm, restarts>>

\* ReceivedReport and SubmittedReport: which submission the stored report is from, and
\* the resolution recorded with it.  NoEntry: the key is not in the table.
Entry(s) == [edition |-> s, resolution |-> None]
NoEntry == Entry(None)
Entries == {NoEntry} \cup [edition : Submissions, resolution : Resolutions \cup {None}]

Statuses == {201, 470, 471}
CallStates == {"unused", "waiting", "answered", "failed"}
Calls == [state : CallStates, report : Reports \cup {NoReport}, age : 0..MinInterval,
          forced : BOOLEAN, overlapped : BOOLEAN]
Unused == [state |-> "unused", report |-> NoReport, age |-> 0,
           forced |-> FALSE, overlapped |-> FALSE]
Promises == [resolution : Resolutions \cup {None}, drained : BOOLEAN]
NoPromise == [resolution |-> None, drained |-> FALSE]

\* Types of the roles' tables and of the messages.
TypeOK ==
    /\ call \in [Submissions -> Calls]
    /\ sinceSend \in [Reporters -> [Keys -> 0..MinInterval]]
    /\ submitted \in [Reports -> Entries]
    /\ requests \subseteq Submissions
    /\ answers \subseteq Submissions \X Statuses
    /\ callbacks \subseteq Reports \X Resolutions
    /\ received \in [Reports -> Entries]
    /\ hooks \subseteq Submissions
    /\ durable \in [Reports -> Entries]
    /\ givenTo \in [Resolutions -> Submissions \cup {None}]
    /\ promised \in [Reports -> Promises]
    /\ calm \in [Reports -> BOOLEAN]
    /\ restarts \in 0..MaxRestarts

Init ==
    /\ call = [s \in Submissions |-> Unused]
    /\ sinceSend = [r \in Reporters |-> [k \in Keys |-> MinInterval]]
    /\ submitted = [r \in Reports |-> NoEntry]
    /\ requests = {} /\ answers = {} /\ callbacks = {}
    /\ received = [r \in Reports |-> NoEntry]
    /\ hooks = {}
    /\ durable = [r \in Reports |-> NoEntry]
    /\ givenTo = [v \in Resolutions |-> None]
    /\ promised = [r \in Reports |-> NoPromise]
    /\ calm = [r \in Reports |-> TRUE]
    /\ restarts = 0

----
Waiting == {s \in Submissions : call[s].state = "waiting"}
Similar(r1, r2) == r1[1] = r2[1] /\ SimilarityKey[r1[2]] = SimilarityKey[r2[2]]
SinceSimilar(report) == sinceSend[report[1]][SimilarityKey[report[2]]]

\* Is a submission of this report still on its way, in any of its stages?
Outstanding(report) ==
    \E s \in Waiting \cup requests \cup hooks : call[s].report = report
CallbackUnderWay(report) == \E c \in callbacks : c[1] = report

----
\* submit() up to its POST: checked against the rate limit unless forced.  A suppressed
\* report changes nothing.
Submit(s, report, forced) ==
    /\ call[s] = Unused
    /\ forced \/ SinceSimilar(report) >= MinInterval
    /\ LET rivals == {t \in Waiting : Similar(call[t].report, report)}
           new == [state |-> "waiting", report |-> report, age |-> 0,
                   forced |-> forced, overlapped |-> rivals # {}]
       IN call' = [t \in Submissions |->
                     IF t = s THEN new
                     ELSE IF t \in rivals THEN [call[t] EXCEPT !.overlapped = TRUE]
                     ELSE call[t]]
    /\ requests' = requests \cup {s}
    /\ calm' = [calm EXCEPT ![report] = ~Outstanding(report) /\ ~CallbackUnderWay(report)]
    /\ UNCHANGED <<sinceSend, submitted, answers, callbacks, givenTo, promised, restarts>>
    /\ UNCHANGED responderVars

\* The POST ends in a transport error (httpx.HTTPError): submit() records nothing,
\* although the request may have arrived, or arrive yet.
SubmitFails(s) ==
    /\ s \in Waiting
    /\ call' = [call EXCEPT ![s].state = "failed"]
    /\ answers' = {a \in answers : a[1] # s}
    /\ calm' = [calm EXCEPT ![call[s].report] = FALSE]
    /\ UNCHANGED <<sinceSend, submitted, requests, callbacks, givenTo, promised, restarts>>
    /\ UNCHANGED responderVars

\* A faulty variant of RecordSend: forced submissions do not count.
RecordUnforced(s) ==
    sinceSend' = IF call[s].forced THEN sinceSend
                 ELSE [sinceSend EXCEPT ![call[s].report[1]]
                                         [SimilarityKey[call[s].report[2]]] = call[s].age]

\* _last_similar_send[key], as of the time read before the POST.
RecordSend(s) ==
    sinceSend' = [sinceSend EXCEPT ![call[s].report[1]][SimilarityKey[call[s].report[2]]] =
                    call[s].age]

\* submit() after its POST: any answer counts for the rate limit, as of the time read
\* before the POST; an accepted report gets a new SubmittedReport.
Answered(s, status) ==
    /\ <<s, status>> \in answers
    /\ call' = [call EXCEPT ![s].state = "answered"]
    /\ answers' = answers \ {<<s, status>>}
    /\ RecordSend(s)
    /\ submitted' = IF status = 201
                    THEN [submitted EXCEPT ![call[s].report] = Entry(s)] ELSE submitted
    /\ UNCHANGED <<requests, callbacks>>
    /\ UNCHANGED responderVars /\ UNCHANGED historyVars

\* The verdict of receive_resolution: 473 for a report this element does not know it
\* filed.  (A call-back goes to the URI in the report: the agency is always its own.)
ResolutionStatus(report) ==
    IF report[1] \notin Trusting THEN 472
    ELSE IF submitted[report] = NoEntry THEN 473
    ELSE 201

\* receive_resolution: the resolution replaces the one on record.
ReceiveResolution(report, v) ==
    /\ <<report, v>> \in callbacks
    /\ callbacks' = callbacks \ {<<report, v>>}
    /\ submitted' = IF ResolutionStatus(report) = 201
                    THEN [submitted EXCEPT ![report].resolution = v] ELSE submitted
    /\ calm' = IF ResolutionStatus(report) # 201 \/ Outstanding(report)
               THEN [calm EXCEPT ![report] = FALSE] ELSE calm
    /\ UNCHANGED <<call, sinceSend, requests, answers, givenTo, promised, restarts>>
    /\ UNCHANGED responderVars

----
\* The verdict of receive_report on a well-formed report.
ReportStatus(report) ==
    IF report[1] \notin Authorized THEN 471
    ELSE IF report[2] \notin OwnProblems THEN 470
    ELSE 201

\* The answer of a handler reaches a caller that still waits for it.
Answer(s, status) == answers' = IF s \in Waiting THEN answers \cup {<<s, status>>}
                                ELSE answers

\* A faulty variant of ReceiveReport: a resubmitted report keeps its resolution.
ReceiveReportKeeping(s) ==
    /\ s \in requests
    /\ requests' = requests \ {s}
    /\ LET report == call[s].report
           status == ReportStatus(report)
       IN IF status = 201
          THEN /\ received' = [received EXCEPT ![report].edition = s]
               /\ hooks' = hooks \cup {s}
               /\ UNCHANGED answers
          ELSE /\ Answer(s, status)
               /\ UNCHANGED <<received, hooks>>
    /\ UNCHANGED <<callbacks, durable, givenTo, promised, calm, restarts>>
    /\ UNCHANGED reporterVars

\* receive_report up to the on_report hook: a resubmitted report replaces the stored
\* one and its resolution.
ReceiveReport(s) ==
    /\ s \in requests
    /\ requests' = requests \ {s}
    /\ LET report == call[s].report
           status == ReportStatus(report)
       IN IF status = 201
          THEN /\ received' = [received EXCEPT ![report] = Entry(s)]
               /\ promised' = [promised EXCEPT ![report] = NoPromise]
               /\ hooks' = hooks \cup {s}
               /\ UNCHANGED answers
          ELSE /\ Answer(s, status)
               /\ UNCHANGED <<received, promised, hooks>>
    /\ UNCHANGED <<callbacks, durable, givenTo, calm, restarts>>
    /\ UNCHANGED reporterVars

\* The hook has drained received_reports() to durable storage, or raised, and the
\* report is acknowledged either way.
HookDone(s, drained) ==
    /\ s \in hooks
    /\ hooks' = hooks \ {s}
    /\ durable' = IF drained THEN received ELSE durable
    /\ promised' = [r \in Reports |->
                      IF drained /\ promised[r] # NoPromise
                      THEN [promised[r] EXCEPT !.drained = TRUE] ELSE promised[r]]
    /\ Answer(s, 201)
    /\ UNCHANGED <<requests, callbacks, received, givenTo, calm, restarts>>
    /\ UNCHANGED reporterVars

\* resolve(): record the resolution, then call back where the stored report says.
Resolve(report, v) ==
    /\ received[report] # NoEntry
    /\ givenTo[v] = None
    /\ received' = [received EXCEPT ![report].resolution = v]
    /\ givenTo' = [givenTo EXCEPT ![v] = received[report].edition]
    /\ promised' = [promised EXCEPT ![report] = [resolution |-> v, drained |-> FALSE]]
    /\ callbacks' = callbacks \cup {<<report, v>>}
    /\ calm' = IF CallbackUnderWay(report) \/ Outstanding(report)
               THEN [calm EXCEPT ![report] = FALSE] ELSE calm
    /\ UNCHANGED <<requests, answers, hooks, durable, restarts>>
    /\ UNCHANGED reporterVars

\* get_status_update and get_resolution, the polls of a reporter.
StatusUpdate(report) ==
    IF report[1] \notin Authorized THEN 471
    ELSE IF received[report] = NoEntry THEN 473
    ELSE IF received[report].resolution # None THEN 474
    ELSE 200

PollResolution(report) ==
    IF report[1] \notin Authorized THEN 471
    ELSE IF received[report] = NoEntry THEN 473
    ELSE IF received[report].resolution = None THEN 475
    ELSE received[report].resolution

----
\* The network loses a request or a call-back; resolve() only logs the latter.
LoseRequest(s) ==
    /\ s \in requests
    /\ requests' = requests \ {s}
    /\ UNCHANGED <<answers, callbacks>>
    /\ UNCHANGED reporterVars /\ UNCHANGED responderVars /\ UNCHANGED historyVars

LoseCallback(report, v) ==
    /\ <<report, v>> \in callbacks
    /\ callbacks' = callbacks \ {<<report, v>>}
    /\ calm' = [calm EXCEPT ![report] = FALSE]
    /\ UNCHANGED <<requests, answers, givenTo, promised, restarts>>
    /\ UNCHANGED reporterVars /\ UNCHANGED responderVars

\* A reporter's process ends and a new one starts: nothing of its role is kept.
RestartReporter(r) ==
    /\ restarts < MaxRestarts
    /\ restarts' = restarts + 1
    /\ call' = [s \in Submissions |-> IF call[s].report[1] = r
                                      THEN [call[s] EXCEPT !.state = "failed"] ELSE call[s]]
    /\ sinceSend' = [sinceSend EXCEPT ![r] = [k \in Keys |-> MinInterval]]
    /\ submitted' = [report \in Reports |-> IF report[1] = r THEN NoEntry ELSE submitted[report]]
    /\ answers' = {a \in answers : call[a[1]].report[1] # r}
    /\ calm' = [report \in Reports |-> calm[report] /\ report[1] # r]
    /\ UNCHANGED <<requests, callbacks, givenTo, promised>>
    /\ UNCHANGED responderVars

\* A faulty variant of Restored: a report is given back without its resolution.
RestoredUnresolved(drained) ==
    [report \in Reports |-> [drained[report] EXCEPT !.resolution = None]]

\* restore_report, for each of the entries drained.
Restored(drained) == [report \in Reports |-> drained[report]]

\* The responder restarts and its FE gives back what was drained, by restore_report.
RestartResponder ==
    /\ restarts < MaxRestarts
    /\ restarts' = restarts + 1
    /\ received' = Restored(durable)
    /\ hooks' = {}
    /\ promised' = [r \in Reports |->
                      IF promised[r].drained THEN promised[r] ELSE NoPromise]
    /\ calm' = [report \in Reports |-> FALSE]
    /\ UNCHANGED <<durable, givenTo>>
    /\ UNCHANGED reporterVars /\ UNCHANGED networkVars

Older(age) == IF age < MinInterval THEN age + 1 ELSE age

Tick ==
    /\ call' = [s \in Submissions |-> IF call[s] = Unused THEN Unused
                                      ELSE [call[s] EXCEPT !.age = Older(@)]]
    /\ sinceSend' = [r \in Reporters |-> [k \in Keys |-> Older(sinceSend[r][k])]]
    /\ UNCHANGED submitted
    /\ UNCHANGED networkVars /\ UNCHANGED responderVars /\ UNCHANGED historyVars

Next ==
    \/ \E s \in Submissions, r \in Reports, forced \in BOOLEAN : Submit(s, r, forced)
    \/ \E s \in Submissions : SubmitFails(s)
    \/ \E s \in Submissions, status \in Statuses : Answered(s, status)
    \/ \E s \in Submissions : ReceiveReport(s)
    \/ \E s \in Submissions, drained \in BOOLEAN : HookDone(s, drained)
    \/ \E r \in Reports, v \in Resolutions : Resolve(r, v)
    \/ \E r \in Reports, v \in Resolutions : ReceiveResolution(r, v)
    \/ \E s \in Submissions : LoseRequest(s)
    \/ \E r \in Reports, v \in Resolutions : LoseCallback(r, v)
    \/ \E r \in Reporters : RestartReporter(r)
    \/ RestartResponder
    \/ Tick

Spec == Init /\ [][Next]_vars

----
\* resolve() says of a call-back that fails: "reporter can still poll".  A resolution
\* stays what polls answer until the report is filed again or a restart loses it, and
\* one drained to durable storage survives the restart.
PollsAreFaithful ==
    \A r \in Reports :
        promised[r] # NoPromise => /\ PollResolution(r) = promised[r].resolution
                              /\ StatusUpdate(r) = 474

\* When nothing of a report is under way, both sides have the same edition of it and
\* the same resolution, unless since the last undisturbed submit() an answer or a
\* call-back was lost, the report was resolved while it was being filed or while
\* another call-back was under way, or an element restarted.  An undisturbed
\* resubmission brings the two sides together again.
AgreeWhenCalm ==
    \A r \in Reports :
        calm[r] /\ ~Outstanding(r) /\ ~CallbackUnderWay(r) => submitted[r] = received[r]

\* The rate limit of submit() is checked before the POST and recorded after it.  It
\* holds between a submission that no similar one overlapped and those after its answer.
SpacedWhenSequential ==
    [][\A s, t \in Submissions :
         /\ call[s] = Unused /\ call'[s] # Unused /\ ~call'[s].forced
         /\ call[t].state = "answered" /\ ~call[t].overlapped
         /\ Similar(call[t].report, call'[s].report)
         => call[t].age >= MinInterval]_vars

\* A message that is under way carries any object.  Whatever it is, to_dict and
\* from_dict bring it to the other side unchanged.
Lossless == requests # {} \/ callbacks # {} => ReadBack

\* Whatever body a POST Reports under way has, its sender gets a status it knows.
ClosedStatusSet == requests # {} => StatusesClosed

----
\* The inductive invariant of the safety properties above.

\* A POST is in one place at a time: on its way, handled, or answered while its sender
\* waits; it is of a report, and the answer is receive_report's verdict on that.
ExchangeInv ==
    /\ \A s \in Waiting \cup requests \cup hooks :
         call[s].state # "unused" /\ call[s].report \in Reports
    /\ requests \cap hooks = {}
    /\ \A s \in hooks : ReportStatus(call[s].report) = 201
    /\ \A s \in Submissions, status \in Statuses : <<s, status>> \in answers =>
         /\ s \in Waiting /\ s \notin requests \cup hooks
         /\ status = ReportStatus(call[s].report)

\* A rejected report is in no table.
RejectedInv ==
    \A r \in Reports : ReportStatus(r) # 201 =>
        received[r] = NoEntry /\ durable[r] = NoEntry /\ submitted[r] = NoEntry

\* A resolution given is in the table, and where the hook drained it to.
PromiseInv ==
    \A r \in Reports :
        /\ promised[r] # NoPromise =>
             /\ promised[r].resolution # None
             /\ received[r].resolution = promised[r].resolution
        /\ promised[r].drained => durable[r].resolution = promised[r].resolution

\* A calm report has at most one submission or one call-back under way, whose arrival
\* brings the two sides together.
Underway(s, r) == s \in Waiting \cup requests \cup hooks /\ call[s].report = r
CalmAt(r) ==
    /\ \A s, t \in Submissions : Underway(s, r) /\ Underway(t, r) => s = t
    /\ \A s \in Submissions : Underway(s, r) =>
         /\ s \in Waiting
         /\ s \in hooks \/ <<s, 201>> \in answers => received[r] = Entry(s)
         /\ ~CallbackUnderWay(r)
    /\ \A v \in Resolutions : <<r, v>> \in callbacks =>
         received[r] = [submitted[r] EXCEPT !.resolution = v]
    /\ ~Outstanding(r) /\ ~CallbackUnderWay(r) => submitted[r] = received[r]
CalmInv == \A r \in Reports : calm[r] => CalmAt(r)

\* The rate limit's clock is not ahead of any submission it counted alone.
SpacingInv ==
    /\ \A t \in Submissions : call[t].state = "answered" /\ ~call[t].overlapped =>
         /\ call[t].report \in Reports
         /\ SinceSimilar(call[t].report) <= call[t].age
         /\ \A u \in Waiting : Similar(call[t].report, call[u].report) =>
              call[u].age <= call[t].age
    /\ \A t, u \in Waiting : t # u /\ Similar(call[t].report, call[u].report) =>
         call[t].overlapped /\ call[u].overlapped

IInv == /\ TypeOK /\ ExchangeInv /\ RejectedInv /\ PromiseInv
        /\ CalmInv /\ SpacingInv
=============================================================================
