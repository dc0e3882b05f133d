-------------------------- MODULE DiscrepancyModels --------------------------
(***************************************************************************)
(* The wire objects of discrepancy reporting, as values and as JSON        *)
(* objects.  A JSON object is a function from the keys it has; an object   *)
(* of the library has every field, Null when unset.  Contents are          *)
(* abstracted to what the code asks of them.                               *)
(***************************************************************************)
EXTENDS FiniteSets

Null == "null"
Good == "good"          \* a value the field admits
Bad == "bad"            \* a token or timestamp outside its registry or format
List == "list"          \* a JSON array, which Python cannot hash
Error == [error |-> TRUE]   \* ValueError
NotAnObject == [notAnObject |-> TRUE]

\* The fields of the four objects, MANDATORY and other.
Report ==
    [mandatory |-> {"resolutionUri", "reportType", "discrepancyReportSubmittalTimeStamp",
                    "discrepancyReportId", "reportingAgencyName",
                    "reportingContactJcard", "problemSeverity"},
     optional |-> {"reportingAgentId", "problemService", "problemComments"}]
Response ==
    [mandatory |-> {"respondingAgencyName", "respondingContactJcard"},
     optional |-> {"respondingAgentId", "responseEstimatedReturnTime", "responseComments"}]
Resolution ==
    [mandatory |-> {"respondingAgencyName", "respondingContactJcard",
                    "discrepancyReportId", "reportingAgencyName", "problemService",
                    "responseTime", "resolution"},
     optional |-> {"respondingAgentId", "responseComments"}]
Status ==
    [mandatory |-> {"respondingAgencyName", "respondingContactJcard",
                    "responseEstimatedReturnTime"},
     optional |-> {"respondingAgentId", "statusComments"}]

Fields(schema) == schema.mandatory \cup schema.optional
Checked == {"reportType", "problemSeverity", "discrepancyReportSubmittalTimeStamp"}

----
\* d.get(key) and the merge of two objects, the first winning.
Get(d, key) == IF key \in DOMAIN d THEN d[key] ELSE Null
Merge(d, e) == [k \in DOMAIN d \cup DOMAIN e |-> IF k \in DOMAIN d THEN d[k] ELSE e[k]]
Only(d, keys) == [k \in keys |-> d[k]]

\* to_dict: unset fields are absent.
ToDict(object) == Only(object, {k \in DOMAIN object : object[k] # Null})

\* _require: is a MANDATORY field absent or null?
Missing(schema, d) == \E k \in schema.mandatory : Get(d, k) = Null

\* from_dict, of the objects that check no more than that.
FromDict(schema, d) ==
    IF Missing(schema, d) THEN Error ELSE [k \in Fields(schema) |-> Get(d, k)]

\* StatusUpdate.from_dict takes the standard's other spelling of one key as well, when
\* the usual one is absent.
StatusFromDict(d) ==
    LET jcard == IF "respondingContactJcard" \in DOMAIN d
                 THEN d["respondingContactJcard"] ELSE Get(d, "RespondingContactJcard")
    IN FromDict(Status, Merge([respondingContactJcard |-> jcard], d))

\* DiscrepancyReport.__post_init__: the tokens and, when there is one, the timestamp.
Constructible(report) == \A k \in Checked : report.prolog[k] # Bad

\* DiscrepancyReport.to_dict: reportType-dependent parameters join the top level, where
\* they must not meet a field that is set; an unstamped report is an error.
ReportToDict(report) ==
    LET d == ToDict(report.prolog)
    IN IF report.prolog["discrepancyReportSubmittalTimeStamp"] = Null THEN Error
       ELSE IF DOMAIN report.specific \cap DOMAIN d # {} THEN Error
       ELSE Merge(d, report.specific)

\* A faulty variant of ReportFromDict: optional prolog fields are parameters as well.
ReportFromDictTwice(d) ==
    LET prolog == FromDict(Report, d)
        report == [prolog |-> prolog,
                   specific |-> Only(d, DOMAIN d \ Report.mandatory)]
    IN IF prolog = Error \/ ~Constructible(report) THEN Error ELSE report

\* DiscrepancyReport.from_dict: what is no prolog field is a parameter of the type.
ReportFromDict(d) ==
    LET prolog == FromDict(Report, d)
        report == [prolog |-> prolog, specific |-> Only(d, DOMAIN d \ Fields(Report))]
    IN IF prolog = Error \/ ~Constructible(report) THEN Error ELSE report

----
Raises == 500       \* what the framework answers when a handler raises

\* A faulty variant of PostReports: the body is not checked to be an object.
PostReportsUnchecked(body, known, authorized) ==
    LET report == ReportFromDict(body)
        service == report.prolog["problemService"]
    IN IF body = NotAnObject THEN Raises
       ELSE IF report = Error THEN 454
       ELSE IF ~authorized THEN 471
       ELSE IF service # Null /\ known # {} /\ service = List THEN Raises
       ELSE IF service # Null /\ known # {} /\ service \notin known THEN 470
       ELSE IF List \in {report.prolog[k] : k \in {"reportingAgencyName", "discrepancyReportId"}}
       THEN Raises
       ELSE 201

\* POST Reports up to the place where the report is stored.
PostReports(body, known, authorized) ==
    LET report == ReportFromDict(body)
        service == report.prolog["problemService"]
    IN IF body = NotAnObject \/ report = Error THEN 454
       ELSE IF ~authorized THEN 471
       ELSE IF service # Null /\ known # {} /\ service = List THEN Raises
       ELSE IF service # Null /\ known # {} /\ service \notin known THEN 470
       ELSE IF List \in {report.prolog[k] : k \in {"reportingAgencyName", "discrepancyReportId"}}
       THEN Raises
       ELSE 201

----
\* The objects tried: every field unset or set, checked ones also wrong.
Objects(schema) == [Fields(schema) -> {Null, Good}]
Complete(schema, object) == \A k \in schema.mandatory : object[k] # Null

Prologs == {p \in [Fields(Report) -> {Null, Good, Bad}] :
               \A k \in Fields(Report) \ Checked : p[k] # Bad}
Specifics == UNION {[K -> {Good}] : K \in SUBSET {"problem", "problemService"}}
SampleReports == {r \in [prolog : Prologs, specific : Specifics] : Constructible(r)}

\* What one element sends, the other reads back unchanged, for each of the four objects
\* - in reports as long as no type-dependent parameter has the name of a prolog field.
ReadBack ==
    /\ \A schema \in {Response, Resolution, Status} : \A o \in Objects(schema) :
         Complete(schema, o) => FromDict(schema, ToDict(o)) = o
    /\ \A o \in Objects(Status) : Complete(Status, o) => StatusFromDict(ToDict(o)) = o
    /\ \A r \in SampleReports :
         Complete(Report, r.prolog) /\ DOMAIN r.specific \cap Fields(Report) = {}
         => ReportFromDict(ReportToDict(r)) = r

\* The bodies a peer may post: any prolog, with some of its fields absent, and JSON
\* that is not an object.
Bodies ==
    {NotAnObject} \cup
    {ToDict(p) : p \in {q \in [Fields(Report) -> {Null, Good, Bad, List}] :
        /\ \A k \in Checked : q[k] # List
        /\ \A k \in Fields(Report) \ (Checked \cup {"problemService"}) : q[k] # Bad
        /\ \A k \in {"resolutionUri", "reportingContactJcard", "reportingAgentId",
                     "problemComments"} : q[k] = Good}}

\* routes.py:20 promises "a closed set of status codes per resource": whatever the body
\* is, the answer is one of 201, 454, 470, 471 - given that identifiers are no arrays.
StatusesClosed ==
    \A body \in Bodies, known \in {{}, {Good}}, authorized \in BOOLEAN :
        List \notin {Get(body, k) : k \in {"reportingAgencyName", "discrepancyReportId",
                                           "problemService"}}
        => PostReports(body, known, authorized) \in {201, 454, 470, 471}
=============================================================================
