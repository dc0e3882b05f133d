----------------------------- MODULE RequestPath -----------------------------
(***************************************************************************)
(* The path of an HTTP request through the application of create_app, with *)
(* the peer authentication of a proxy-terminated deployment: the           *)
(* ProxyClientCertMiddleware, outermost; the _RequestLoggingMiddleware;    *)
(* the route handler; and the LoggingClient, whose posts run either in the *)
(* request (emit) or in background tasks (emit_nowait) that other parts of *)
(* the element start.                                                      *)
(*                                                                         *)
(* One action is what runs between two awaits.  A certificate's signatures *)
(* are CertificateChecks' subject: of a peer's, which comes without        *)
(* intermediates, this module asks whether an anchor issued it.            *)
(***************************************************************************)
EXTENDS FiniteSets

CONSTANTS
    Requests,       \* requests, and the AccessLogEvents about them
    Notices,        \* the events of emit_nowait
    Certificates,
    Valid,          \* certificates within their validity
    Anchored,       \* certificates that are, or were issued by, a trust anchor
    BadExtensions,  \* certificates whose extensions cannot be parsed
    TrustedProxies  \* is trusted_proxies configured?

ASSUME CertificatesAssumption ==
    Valid \cup Anchored \cup BadExtensions \subseteq Certificates
ASSUME TrustedProxiesAssumption == TrustedProxies \in BOOLEAN
ASSUME EventsAssumption == Requests \cap Notices = {}

VARIABLES
    request,    \* request[r]: what has arrived
    stage,      \* "idle", "handling", "logging", "answered"
    peer,       \* scope["state"]["verified_peer"]
    outcome,    \* status of the handler's response, 0 before it
    status,     \* status the client gets, 0 before it
    fate,       \* fate[e]: of event e, for the Logging Service
    bgTasks,    \* _bg_tasks, by the events they post
    phase,      \* of the server: "up", "stopping", "closed"
    service     \* is logging_service_uri configured? (never changes)

vars == <<request, stage, peer, outcome, status, fate, bgTasks, phase, service>>

Events == Requests \cup Notices

\* The client-certificate header: none, one that is no certificate, or a certificate.
NoHeader == "none"
Garbled == "garbled"
Headers == {NoHeader, Garbled} \cup Certificates

\* What is told apart of a request: is its path exempt from authentication, and does the
\* connection come from one of trusted_proxies?
Arrivals == [exempt : BOOLEAN, viaProxy : BOOLEAN, header : Headers]
Nothing == [exempt |-> FALSE, viaProxy |-> FALSE, header |-> NoHeader]

NoPeer == "nobody"

\* Types of the state.
TypeOK ==
    /\ request \in [Requests -> Arrivals]
    /\ stage \in [Requests -> {"idle", "handling", "logging", "answered"}]
    /\ peer \in [Requests -> Certificates \cup {NoPeer}]
    /\ outcome \in [Requests -> {0, 200, 500}]
    /\ status \in [Requests -> {0, 200, 403, 500}]
    /\ fate \in [Events -> {"none", "skipped", "posting", "arrived", "failed", "lost"}]
    /\ bgTasks \subseteq Notices
    /\ phase \in {"up", "stopping", "closed"}
    /\ service \in BOOLEAN

Init ==
    /\ request = [r \in Requests |-> Nothing]
    /\ stage = [r \in Requests |-> "idle"]
    /\ peer = [r \in Requests |-> NoPeer]
    /\ outcome = [r \in Requests |-> 0]
    /\ status = [r \in Requests |-> 0]
    /\ fate = [e \in Events |-> "none"]
    /\ bgTasks = {}
    /\ phase = "up"
    /\ service \in BOOLEAN

----
\* Peer authentication.

\* extract_cert_from_header
Decodable(header) == header \in Certificates

\* verify(cert): in its validity, and traceable without any intermediate.
Verified(cert) == cert \in Valid /\ cert \in Anchored

Answer(r, code) ==
    /\ stage' = [stage EXCEPT ![r] = "answered"]
    /\ status' = [status EXCEPT ![r] = code]

\* _forbid: one denial for all reasons.
Forbid(r) == Answer(r, 403) /\ UNCHANGED peer

\* The next application is called, with the peer in the scope.
PassOn(r, cert) ==
    /\ stage' = [stage EXCEPT ![r] = "handling"]
    /\ peer' = [peer EXCEPT ![r] = cert]
    /\ UNCHANGED status

\* The header's certificate is verified, and its identity extracted: an error in its
\* extensions is no PeerAuthError, and ends as an internal error.
Identify(r, cert) ==
    \/ ~Verified(cert) /\ Forbid(r)
    \/ Verified(cert) /\ cert \in BadExtensions /\ Answer(r, 500) /\ UNCHANGED peer
    \/ Verified(cert) /\ cert \notin BadExtensions /\ PassOn(r, cert)

\* A faulty variant of Authenticate: a header is honoured wherever it comes from.
AuthenticateAnySource(r, a) ==
    \/ a.exempt /\ PassOn(r, NoPeer)
    \/ ~a.exempt /\ ~Decodable(a.header) /\ Forbid(r)
    \/ ~a.exempt /\ Decodable(a.header) /\ Identify(r, a.header)

Authenticate(r, a) ==
    LET rejected == \/ TrustedProxies /\ ~a.viaProxy
                    \/ a.header = NoHeader
                    \/ ~Decodable(a.header)
    IN  \/ a.exempt /\ PassOn(r, NoPeer)
        \/ ~a.exempt /\ rejected /\ Forbid(r)
        \/ ~a.exempt /\ ~rejected /\ Identify(r, a.header)

Arrive(r, a) ==
    /\ phase = "up" /\ stage[r] = "idle"
    /\ request' = [request EXCEPT ![r] = a]
    /\ Authenticate(r, a)
    /\ UNCHANGED <<outcome, fate, bgTasks, phase, service>>

----
\* Route handler and request logging.

\* The handler responds, and the middleware begins to emit its event before it hands the
\* response on.
Respond(r) ==
    /\ stage[r] = "handling"
    /\ outcome' = [outcome EXCEPT ![r] = 200]
    /\ IF service
       THEN /\ stage' = [stage EXCEPT ![r] = "logging"]
            /\ fate' = [fate EXCEPT ![r] = "posting"]
            /\ UNCHANGED status
       ELSE /\ Answer(r, 200)
            /\ fate' = [fate EXCEPT ![r] = "skipped"]
    /\ UNCHANGED <<request, peer, bgTasks, phase, service>>

\* The handler raises: the exception passes the middleware, and no event is emitted.
Raise(r) ==
    /\ stage[r] = "handling"
    /\ outcome' = [outcome EXCEPT ![r] = 500]
    /\ Answer(r, 500)
    /\ UNCHANGED <<request, peer, fate, bgTasks, phase, service>>

\* How a post ends: the service answers, or the signer or the transport fails.
Results == {"arrived", "failed"}

\* A faulty variant of Logged: an exception of emit is not swallowed.
LoggedOrRaised(r, result) ==
    /\ stage[r] = "logging"
    /\ fate' = [fate EXCEPT ![r] = result]
    /\ Answer(r, IF result = "failed" THEN 500 ELSE outcome[r])
    /\ UNCHANGED <<request, peer, outcome, bgTasks, phase, service>>

\* emit returns, or raises what the signer or the transport raised.
Logged(r, result) ==
    /\ stage[r] = "logging"
    /\ fate' = [fate EXCEPT ![r] = result]
    /\ Answer(r, outcome[r])
    /\ UNCHANGED <<request, peer, outcome, bgTasks, phase, service>>

----
\* Background posts.

UnchangedRequests == UNCHANGED <<request, stage, peer, outcome, status>>

\* A faulty variant of EmitNowait: nothing holds the task.
EmitNowaitUnheld(e, onLoop) ==
    /\ phase # "closed" /\ fate[e] = "none"
    /\ fate' = [fate EXCEPT ![e] = IF service /\ onLoop THEN "posting" ELSE "skipped"]
    /\ UnchangedRequests /\ UNCHANGED <<bgTasks, phase, service>>

\* emit_nowait, by the notifiers, the SIP layer or a handler, or by another thread.
EmitNowait(e, onLoop) ==
    /\ phase # "closed" /\ fate[e] = "none"
    /\ IF service /\ onLoop
       THEN /\ fate' = [fate EXCEPT ![e] = "posting"]
            /\ bgTasks' = bgTasks \cup {e}
       ELSE /\ fate' = [fate EXCEPT ![e] = "skipped"]
            /\ UNCHANGED bgTasks
    /\ UnchangedRequests /\ UNCHANGED <<phase, service>>

\* The event loop holds its tasks weakly: one that nobody else holds may be collected.
TaskEnds(e) == IF e \in bgTasks THEN Results ELSE Results \cup {"lost"}

\* The task ends, and its callback lets go of it.
Posted(e) ==
    /\ phase # "closed" /\ fate[e] = "posting"
    /\ \E result \in TaskEnds(e) : fate' = [fate EXCEPT ![e] = result]
    /\ bgTasks' = bgTasks \ {e}
    /\ UnchangedRequests /\ UNCHANGED <<phase, service>>

\* The server takes no more requests and, the open ones answered, runs the lifespan's
\* shutdown, which emits events of its own; then the loop ends, and its tasks with it.
Stop ==
    /\ phase = "up"
    /\ \A r \in Requests : stage[r] \in {"idle", "answered"}
    /\ phase' = "stopping"
    /\ UnchangedRequests /\ UNCHANGED <<fate, bgTasks, service>>

Close ==
    /\ phase = "stopping"
    /\ phase' = "closed"
    /\ fate' = [e \in Events |-> IF e \in bgTasks THEN "lost" ELSE fate[e]]
    /\ bgTasks' = {}
    /\ UnchangedRequests /\ UNCHANGED service

----
\* What the server does with a request it has let in.
Serve(r) ==
    \/ Respond(r) \/ Raise(r)
    \/ \E result \in Results : Logged(r, result)

Next ==
    \/ \E r \in Requests :
          \/ \E a \in Arrivals : Arrive(r, a)
          \/ Serve(r)
    \/ \E e \in Notices :
          \/ \E onLoop \in BOOLEAN : EmitNowait(e, onLoop)
          \/ Posted(e)
    \/ Stop \/ Close

Spec == Init /\ [][Next]_vars

\* Handlers return; a post that is not answered times out in the HTTP client.
Fairness ==
    /\ \A r \in Requests : WF_vars(Serve(r))
    /\ \A e \in Notices : WF_vars(Posted(e))

FairSpec == Spec /\ Fairness

----
\* A request that a route handler sees, other than /health's, came through the proxy with
\* a certificate that verifies, and the handler's verified_peer is that certificate's.
OnlyVerifiedPeers ==
    \A r \in Requests :
        (stage[r] \in {"handling", "logging"} \/ outcome[r] # 0) /\ ~request[r].exempt =>
            /\ TrustedProxies => request[r].viaProxy
            /\ Verified(request[r].header)
            /\ peer[r] = request[r].header

\* A request that has got past authentication gets the handler's own response in the
\* end, whatever the Logging Service does, and its event is settled by then.
EveryRequestIsServed ==
    \A r \in Requests :
        (stage[r] = "handling")
          ~> (stage[r] = "answered" /\ status[r] = outcome[r] /\ fate[r] # "posting")

\* An event emitted on the loop is posted until that succeeds or fails: none vanishes
\* before the loop has ended, and no task outlives its post.
NothingVanishes ==
    \A e \in Notices :
        /\ fate[e] = "lost" => phase = "closed"
        /\ e \in bgTasks => fate[e] = "posting"

\* The client of a handled request gets the handler's own status, and the post of its
\* event is over by then.
AnswersAreHonest ==
    \A r \in Requests : stage[r] = "answered" /\ outcome[r] # 0 =>
        status[r] = outcome[r] /\ fate[r] # "posting"

\* The strengthening that is inductive: nothing is known of a request before it has
\* arrived, and _bg_tasks holds every background post.
IInv ==
    /\ TypeOK
    /\ OnlyVerifiedPeers
    /\ NothingVanishes
    /\ AnswersAreHonest
    /\ \A r \in Requests :
           /\ stage[r] = "idle" => outcome[r] = 0
           /\ stage[r] \in {"idle", "handling"} => fate[r] = "none"
    /\ \A e \in Notices : phase # "closed" /\ fate[e] = "posting" => e \in bgTasks
=============================================================================
