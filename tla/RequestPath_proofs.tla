-------------------------- MODULE RequestPath_proofs --------------------------
(***************************************************************************)
(* Proofs about RequestPath, for every set of requests and events, every   *)
(* set of certificates and any of them valid, anchored or malformed, with  *)
(* and without a trusted proxy and a logging service.                      *)
(***************************************************************************)
EXTENDS RequestPath, TLAPS

USE DEF Events

\* Before the first request there is nothing to tell.
LEMMA InitEstablishes == Init => IInv
BY EventsAssumption
DEF Init, IInv, TypeOK, OnlyVerifiedPeers, NothingVanishes, AnswersAreHonest, Arrivals,
    Nothing, Headers

\* The three outcomes of the middleware: a denial, an internal error, or a peer handed
\* to the application that is exempt or verified.
LEMMA AuthenticateOutcomes ==
    ASSUME NEW r \in Requests, NEW a \in Arrivals, Authenticate(r, a)
    PROVE  \/ (Answer(r, 403) \/ Answer(r, 500)) /\ UNCHANGED peer
           \/ a.exempt /\ PassOn(r, NoPeer)
           \/ /\ TrustedProxies => a.viaProxy
              /\ a.header \in Certificates /\ Verified(a.header)
              /\ PassOn(r, a.header)
BY DEF Authenticate, Identify, Forbid, Decodable

\* A request is let in with a verified peer, or not at all.
LEMMA ArriveKeeps ==
    ASSUME IInv, NEW r \in Requests, NEW a \in Arrivals, Arrive(r, a)
    PROVE  IInv'
<1>1. CASE (Answer(r, 403) \/ Answer(r, 500)) /\ UNCHANGED peer
  BY <1>1
  DEF IInv, TypeOK, OnlyVerifiedPeers, NothingVanishes, AnswersAreHonest, Arrive, Answer
<1>2. CASE a.exempt /\ PassOn(r, NoPeer)
  BY <1>2
  DEF IInv, TypeOK, OnlyVerifiedPeers, NothingVanishes, AnswersAreHonest, Arrive, PassOn
<1>3. CASE /\ TrustedProxies => a.viaProxy
           /\ a.header \in Certificates /\ Verified(a.header)
           /\ PassOn(r, a.header)
  BY <1>3
  DEF IInv, TypeOK, OnlyVerifiedPeers, NothingVanishes, AnswersAreHonest, Arrive, PassOn
<1> QED
  BY <1>1, <1>2, <1>3, AuthenticateOutcomes DEF Arrive

\* A response begins its own event, whose post no background task holds.
LEMMA RespondKeeps ==
    ASSUME IInv, NEW r \in Requests, Respond(r)
    PROVE  IInv'
<1>1. r \notin Notices
  BY EventsAssumption
<1>2. TypeOK'
  BY DEF IInv, TypeOK, Respond, Answer
<1> QED
  BY <1>1, <1>2
  DEF IInv, TypeOK, OnlyVerifiedPeers, NothingVanishes, AnswersAreHonest, Respond, Answer

\* An exception of the handler is answered without an event.
LEMMA RaiseKeeps ==
    ASSUME IInv, NEW r \in Requests, Raise(r)
    PROVE  IInv'
BY DEF IInv, TypeOK, OnlyVerifiedPeers, NothingVanishes, AnswersAreHonest, Raise, Answer

\* Once emit is over, the response that was held back is the handler's.
LEMMA LoggedKeeps ==
    ASSUME IInv, NEW r \in Requests, NEW result \in Results, Logged(r, result)
    PROVE  IInv'
<1>1. r \notin Notices
  BY EventsAssumption
<1>2. TypeOK'
  BY DEF IInv, TypeOK, Logged, Answer, Results
<1> QED
  BY <1>1, <1>2
  DEF IInv, TypeOK, OnlyVerifiedPeers, NothingVanishes, AnswersAreHonest, Logged, Answer,
      Results

\* A background post is held from the step that starts it.
LEMMA EmitNowaitKeeps ==
    ASSUME IInv, NEW e \in Notices, NEW onLoop \in BOOLEAN, EmitNowait(e, onLoop)
    PROVE  IInv'
<1>1. e \notin Requests
  BY EventsAssumption
<1>2. TypeOK'
  BY DEF IInv, TypeOK, EmitNowait, UnchangedRequests
<1> QED
  BY <1>1, <1>2
  DEF IInv, TypeOK, OnlyVerifiedPeers, NothingVanishes, AnswersAreHonest, EmitNowait,
      UnchangedRequests

\* ... to the step that ends it, so that it cannot be lost.
LEMMA PostedKeeps ==
    ASSUME IInv, NEW e \in Notices, Posted(e)
    PROVE  IInv'
<1>1. e \notin Requests /\ e \in bgTasks
  BY EventsAssumption DEF IInv, Posted
<1>2. PICK result \in Results : fate' = [fate EXCEPT ![e] = result]
  BY <1>1 DEF Posted, TaskEnds
<1>3. TypeOK'
  BY <1>2 DEF IInv, TypeOK, Posted, UnchangedRequests, Results
<1> QED
  BY <1>1, <1>2, <1>3
  DEF IInv, TypeOK, OnlyVerifiedPeers, NothingVanishes, AnswersAreHonest, Posted,
      UnchangedRequests, Results

\* The end of the loop loses background posts only.
LEMMA CloseKeeps == IInv /\ Close => IInv'
<1> SUFFICES ASSUME IInv, Close PROVE IInv'
  OBVIOUS
<1>1. \A r \in Requests : fate'[r] = fate[r]
  BY EventsAssumption DEF IInv, TypeOK, Close
<1>2. TypeOK'
  BY DEF IInv, TypeOK, Close, UnchangedRequests
<1> QED
  BY <1>1, <1>2
  DEF IInv, TypeOK, OnlyVerifiedPeers, NothingVanishes, AnswersAreHonest, Close,
      UnchangedRequests

\* The invariant of the path: peers, responses and posts in every interleaving of
\* requests, background tasks and the shutdown.
THEOREM Invariance == Spec => []IInv
<1>1. IInv /\ [Next]_vars => IInv'
  <2> SUFFICES ASSUME IInv, [Next]_vars PROVE IInv'
    OBVIOUS
  <2>1. CASE \E r \in Requests, a \in Arrivals : Arrive(r, a)
    BY <2>1, ArriveKeeps
  <2>2. CASE \E r \in Requests : Serve(r)
    BY <2>2, RespondKeeps, RaiseKeeps, LoggedKeeps DEF Serve
  <2>3. CASE \E e \in Notices, onLoop \in BOOLEAN : EmitNowait(e, onLoop)
    BY <2>3, EmitNowaitKeeps
  <2>4. CASE \E e \in Notices : Posted(e)
    BY <2>4, PostedKeeps
  <2>5. CASE Stop
    BY <2>5
    DEF IInv, TypeOK, OnlyVerifiedPeers, NothingVanishes, AnswersAreHonest, Stop,
        UnchangedRequests
  <2>6. CASE UNCHANGED vars
    BY <2>6
    DEF vars, IInv, TypeOK, OnlyVerifiedPeers, NothingVanishes, AnswersAreHonest
  <2> QED
    BY <2>1, <2>2, <2>3, <2>4, <2>5, <2>6, CloseKeeps DEF Next
<1> QED
  BY <1>1, InitEstablishes, PTL DEF Spec

\* No handler but /health's runs for a request whose peer was not verified.
THEOREM PeersAreVerified == Spec => []OnlyVerifiedPeers
BY Invariance, PTL DEF IInv

\* No background post vanishes while the loop runs, and no task outlives its post.
THEOREM PostsAreHeld == Spec => []NothingVanishes
BY Invariance, PTL DEF IInv

\* The safety half of EveryRequestIsServed: the response of a handled request is the
\* handler's, whatever became of its event.
THEOREM ResponsesAreTheHandlers == Spec => []AnswersAreHonest
BY Invariance, PTL DEF IInv
=============================================================================
