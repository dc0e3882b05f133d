----------------------- MODULE CertificateChecks_proofs -----------------------
(***************************************************************************)
(* What the walk guarantees for every set of certificates, every relation  *)
(* of issuers, every chain and every set of anchors; and what verify_jws   *)
(* and PeerCertVerifier.verify make of it, for every event, peer, key and  *)
(* trusted certificates.                                                   *)
(***************************************************************************)
EXTENDS CertificateChecks, FiniteSetTheorems, TLAPS

Walked == {chain[i] : i \in visited}

\* The certificate at i is no anchor and, where issuers are unique, the walk has stood on
\* its issuer, if that was supplied.
Exhausted(i) ==
    /\ ~Anchored(chain[i])
    /\ UniqueIssuers =>
         \A j \in DOMAIN chain : <<chain[i], chain[j]>> \in IssuedBy => chain[j] \in Walked

\* The strengthening: the certificates supplied are either visited or remaining; what is
\* reached is in every closed set; a walk that is anchored stands at an anchor; what was
\* left behind is exhausted; a chain in issuing order is walked in this order.
Places ==
    /\ chain # <<>>
    /\ current \in visited /\ 1 \in visited
    /\ visited \cup remaining = DOMAIN chain
    /\ rounds > Cardinality(remaining)
Reached == \A S \in SUBSET Certs : Closed(S) => chain[current] \in S
AtAnchor == verdict = "anchored" => Anchored(chain[current])
LeftBehind == \A i \in visited : i # current \/ verdict = "rejected" => Exhausted(i)
InOrder ==
    \A k \in DOMAIN chain :
        OrderedTo(k) /\ Anchored(chain[k]) =>
            /\ verdict # "rejected"
            /\ current <= k
            /\ remaining = (current + 1)..Len(chain)

WalkInv ==
    /\ WalkTypeOK
    /\ verdict # "idle" => Places /\ Reached /\ AtAnchor /\ LeftBehind /\ InOrder

----
\* Starting a walk establishes the invariant.
LEMMA Starting ==
    ASSUME NEW c \in Seq(Certs) \ {<<>>}, NEW A \in SUBSET Certs, NEW extra \in {0, 1},
           StartWalk(c, A, extra)
    PROVE  WalkInv'
<1>1. Len(c) \in Nat /\ Len(c) >= 1 /\ DOMAIN c = 1..Len(c)
    OBVIOUS
<1>2. chain' = c /\ anchors' = A /\ current' = 1 /\ remaining' = 2..Len(c)
         /\ rounds' = Len(c) + extra /\ visited' = {1} /\ verdict' = "walking"
    BY DEF StartWalk
<1>3. WalkTypeOK'
    BY <1>1, <1>2 DEF WalkTypeOK
<1>4. Cardinality(2..Len(c)) = Len(c) - 1
    <2>1. 2 \in Int /\ Len(c) \in Int
        BY <1>1
    <2>2. Cardinality(2..Len(c)) = IF 2 > Len(c) THEN 0 ELSE Len(c) - 2 + 1
        BY <2>1, FS_Interval, Zenon
    <2> QED BY <2>2, <1>1
<1>5. Places'
    BY <1>1, <1>2, <1>4 DEF Places
<1>6. Reached'
    BY <1>2 DEF Reached, Closed
<1>7. LeftBehind'
    BY <1>2 DEF LeftBehind
<1>9. AtAnchor'
    BY <1>2 DEF AtAnchor
<1>8. InOrder'
    BY <1>1, <1>2 DEF InOrder
<1> QED BY <1>3, <1>5, <1>6, <1>7, <1>8, <1>9 DEF WalkInv

\* Accepting changes nothing but the verdict.
LEMMA Accepting ==
    ASSUME WalkInv, Accept
    PROVE  WalkInv'
<1> USE DEF WalkInv, Accept
<1>1. WalkTypeOK'
    BY DEF WalkTypeOK
<1>2. Places'
    BY DEF Places
<1>3. Reached'
    BY DEF Reached, Closed, WalkTypeOK
<1>4. LeftBehind'
    BY DEF LeftBehind, Exhausted, Walked, UniqueIssuers, Anchored
<1>5. InOrder'
    BY DEF InOrder, OrderedTo, Anchored
<1>6. AtAnchor'
    BY DEF AtAnchor, Anchored
<1> QED BY <1>1, <1>2, <1>3, <1>4, <1>5, <1>6

\* Stepping up: the next certificate is in every closed set that holds this one, which
\* is now exhausted; on a chain in issuing order it is the one that follows.
LEMMA Stepping ==
    ASSUME WalkInv, StepUp
    PROVE  WalkInv'
<1> USE DEF WalkInv
<1>1. PICK i \in Issuers : (\A j \in Issuers : i <= j) /\ StandOn(i)
    BY DEF StepUp
<1>2. /\ verdict = "walking" /\ rounds > 0 /\ ~Anchored(chain[current])
      /\ current' = i /\ remaining' = remaining \ {i} /\ rounds' = rounds - 1
      /\ visited' = visited \cup {i} /\ UNCHANGED <<chain, anchors, verdict>>
    BY <1>1 DEF StepUp, StandOn
<1>3. /\ i \in remaining /\ i \in DOMAIN chain
      /\ <<chain[current], chain[i]>> \in IssuedBy
      /\ chain \in Seq(Certs) /\ current \in DOMAIN chain
      /\ DOMAIN chain = 1..Len(chain) /\ Len(chain) \in Nat
    BY <1>1, <1>2 DEF Issuers, WalkTypeOK
<1>4. WalkTypeOK'
    BY <1>2, <1>3 DEF WalkTypeOK
<1>5. Places'
    <2>1. IsFiniteSet(remaining)
        <3>1. IsFiniteSet(1..Len(chain))
            <4>1. 1 \in Int /\ Len(chain) \in Int
                BY <1>3
            <4> QED BY <4>1, FS_Interval, Zenon
        <3>2. remaining \in SUBSET (1..Len(chain))
            BY <1>3 DEF WalkTypeOK
        <3> QED BY <3>1, <3>2, FS_Subset, Zenon
    <2>2. Cardinality(remaining \ {i}) = Cardinality(remaining) - 1
        BY <2>1, <1>3, FS_RemoveElement
    <2>3. Cardinality(remaining) \in Nat
        BY <2>1, FS_CardinalityType
    <2>4. rounds' > Cardinality(remaining')
        BY <1>2, <2>2, <2>3 DEF Places, WalkTypeOK
    <2> QED BY <1>2, <1>3, <2>4 DEF Places
<1>6. Reached'
    BY <1>2, <1>3 DEF Reached, Closed, WalkTypeOK
<1>7. LeftBehind'
    <2>1. SUFFICES ASSUME NEW j \in visited', j # i
                   PROVE  Exhausted(j)'
        BY <1>2 DEF LeftBehind
    <2>2. j \in visited /\ Walked \subseteq Walked'
        BY <1>2, <2>1 DEF Walked
    <2>3. CASE j # current
        BY <1>2, <2>2, <2>3 DEF LeftBehind, Exhausted, UniqueIssuers, Anchored
    <2>4. CASE j = current
        <3>1. chain[i] \in Walked'
            BY <1>2 DEF Walked
        <3>2. UniqueIssuers =>
                 \A k \in DOMAIN chain : <<chain[current], chain[k]>> \in IssuedBy
                                       => chain[k] = chain[i]
            BY <1>3 DEF UniqueIssuers
        <3> QED BY <1>2, <3>1, <3>2, <2>4 DEF Exhausted, UniqueIssuers, Anchored
    <2> QED BY <2>3, <2>4
<1>8. InOrder'
    <2>1. SUFFICES ASSUME NEW k \in DOMAIN chain, OrderedTo(k), Anchored(chain[k])
                   PROVE  /\ i <= k
                          /\ remaining \ {i} = (i + 1)..Len(chain)
        BY <1>2 DEF InOrder, OrderedTo, Anchored
    <2>2. current <= k /\ current # k /\ remaining = (current + 1)..Len(chain)
        BY <1>2, <2>1 DEF InOrder
    <2>3. current + 1 \in Issuers
        BY <1>3, <2>1, <2>2 DEF Issuers, OrderedTo
    <2>4. i = current + 1
        <3>1. current \in Int /\ i \in Int
            BY <1>3
        <3>2. i >= current + 1
            BY <1>3, <2>2
        <3>3. i <= current + 1
            BY <1>1, <2>3
        <3> QED BY <3>1, <3>2, <3>3
    <2> QED BY <1>3, <2>2, <2>4
<1> QED BY <1>2, <1>4, <1>5, <1>6, <1>7, <1>8 DEF AtAnchor

\* Rejecting: the rounds are not used up, so the current certificate is exhausted too,
\* and a chain in issuing order has ended.
LEMMA Rejecting ==
    ASSUME WalkInv, Reject
    PROVE  WalkInv'
<1> USE DEF WalkInv
<1>1. /\ verdict = "walking" /\ verdict' = "rejected"
      /\ UNCHANGED <<chain, anchors, current, remaining, rounds, visited>>
    BY DEF Reject
<1>2. rounds # 0
    <2>1. IsFiniteSet(remaining)
        <3>1. chain \in Seq(Certs) /\ DOMAIN chain = 1..Len(chain) /\ Len(chain) \in Nat
            BY DEF WalkTypeOK
        <3>2. 1 \in Int /\ Len(chain) \in Int
            BY <3>1
        <3>3. IsFiniteSet(1..Len(chain))
            BY <3>2, FS_Interval, Zenon
        <3>4. remaining \in SUBSET (1..Len(chain))
            BY <3>1 DEF WalkTypeOK
        <3> QED BY <3>3, <3>4, FS_Subset, Zenon
    <2>2. Cardinality(remaining) \in Nat
        BY <2>1, FS_CardinalityType
    <2> QED BY <1>1, <2>2 DEF Places
<1>3. ~Anchored(chain[current]) /\ Issuers = {}
    BY <1>2 DEF Reject, Stuck
<1>4. WalkTypeOK' /\ Places'
    BY <1>1 DEF WalkTypeOK, Places
<1>5. Reached'
    BY <1>1 DEF Reached, Closed, WalkTypeOK
<1>6. LeftBehind'
    <2>1. SUFFICES ASSUME NEW j \in visited PROVE Exhausted(j)'
        BY <1>1 DEF LeftBehind
    <2>2. CASE j # current
        BY <1>1, <2>2 DEF LeftBehind, Exhausted, Walked, UniqueIssuers, Anchored
    <2>3. CASE j = current
        <3>1. \A k \in DOMAIN chain : <<chain[current], chain[k]>> \in IssuedBy => k \in visited
            BY <1>1, <1>3 DEF Issuers, Places
        <3> QED BY <1>1, <1>3, <2>3, <3>1 DEF Exhausted, Walked, UniqueIssuers, Anchored
    <2> QED BY <2>2, <2>3
<1>7. InOrder'
    <2>1. SUFFICES ASSUME NEW k \in DOMAIN chain, OrderedTo(k), Anchored(chain[k])
                   PROVE  FALSE
        BY <1>1 DEF InOrder, OrderedTo, Anchored
    <2>2. current <= k /\ current # k /\ remaining = (current + 1)..Len(chain)
        BY <1>1, <1>3, <2>1 DEF InOrder
    <2>3. /\ DOMAIN chain = 1..Len(chain) /\ Len(chain) \in Nat /\ current \in DOMAIN chain
        BY <1>1 DEF WalkTypeOK
    <2>4. current + 1 \in Issuers
        BY <2>1, <2>2, <2>3 DEF Issuers, OrderedTo
    <2> QED BY <2>4, <1>3
<1> QED BY <1>1, <1>4, <1>5, <1>6, <1>7 DEF AtAnchor

----
\* The invariant of the walk, kept by a step of it.
LEMMA WalkStepKeeps == WalkInv /\ [WalkNext]_walkVars => WalkInv'
<1>1. ASSUME WalkInv, UNCHANGED walkVars PROVE WalkInv'
  <2>1. UNCHANGED <<chain, anchors, current, remaining, rounds, visited, verdict>>
    BY <1>1 DEF walkVars
  <2>2. WalkTypeOK' /\ (verdict # "idle" => Places' /\ Reached' /\ AtAnchor')
    BY <1>1, <2>1 DEF WalkInv, WalkTypeOK, Places, Reached, Closed, AtAnchor, Anchored
  <2>3. verdict # "idle" => LeftBehind'
    BY <1>1, <2>1 DEF WalkInv, LeftBehind, Exhausted, Walked, UniqueIssuers, Anchored
  <2>4. verdict # "idle" => InOrder'
    BY <1>1, <2>1 DEF WalkInv, InOrder, OrderedTo, Anchored
  <2> QED BY <2>1, <2>2, <2>3, <2>4 DEF WalkInv
<1> QED BY <1>1, Starting, Accepting, Stepping, Rejecting DEF WalkNext, Round

\* The inductive invariant of the walk.
THEOREM WalkInvariance == WalkSpec => []WalkInv
<1>1. WalkInit => WalkInv
    BY DEF WalkInit, WalkInv, WalkTypeOK
<1> QED BY <1>1, WalkStepKeeps, PTL DEF WalkSpec

\* Types of the walk's state.
THEOREM WalkTypeCorrectness == WalkSpec => []WalkTypeOK
<1>1. WalkInv => WalkTypeOK
    BY DEF WalkInv
<1> QED BY <1>1, WalkInvariance, PTL

\* What the walk anchors has a path to an anchor: every closed set holds the certificate
\* the walk ends at.
THEOREM Soundness == WalkSpec => []Sound
<1>1. ASSUME WalkInv PROVE Sound
    BY <1>1 DEF WalkInv, Sound, Traceable, Reached, AtAnchor
<1> QED BY <1>1, WalkInvariance, PTL

\* The loop is never ended by its bound, in either version.
THEOREM RoundsSuffice == WalkSpec => []NeverOutOfRounds
<1>1. WalkInv => NeverOutOfRounds
    BY DEF WalkInv, NeverOutOfRounds, Places
<1> QED BY <1>1, WalkInvariance, PTL

\* A chain in issuing order that reaches an anchor is not rejected.
THEOREM OrderSuffices == WalkSpec => []OrderedAccepted
<1>1. WalkInv => OrderedAccepted
    BY DEF WalkInv, OrderedAccepted, InOrder
<1> QED BY <1>1, WalkInvariance, PTL

\* Without cross-signed certificates, what is rejected has no path to an anchor: the
\* certificates walked are a closed set without one.
THEOREM Completeness == WalkSpec => []Complete
<1>1. ASSUME WalkInv PROVE Complete
    <2>1. SUFFICES ASSUME verdict = "rejected", UniqueIssuers
                   PROVE  ~Traceable
        BY DEF Complete
    <2>2. \A i \in visited : Exhausted(i)
        BY <1>1, <2>1 DEF WalkInv, LeftBehind
    <2>3. Walked \in SUBSET Certs
        BY <1>1 DEF WalkInv, WalkTypeOK, Walked
    <2>4. Closed(Walked)
        BY <1>1, <2>1, <2>2 DEF WalkInv, Places, Closed, Walked, Exhausted
    <2>5. \A c \in Walked : ~Anchored(c)
        BY <2>2 DEF Walked, Exhausted
    <2> QED BY <2>3, <2>4, <2>5 DEF Traceable
<1> QED BY <1>1, WalkInvariance, PTL

----
\* The invariant of the two verifiers: a walk fits what it was started for, and the
\* answer fits the walk.
JobTypeOK ==
    \/ /\ job.is = "event" /\ job.event \in Events
       /\ job.trusted \in Seq(Certs) /\ job.allowUnsigned \in BOOLEAN
    \/ /\ job.is = "peer" /\ job.chain \in Seq(Certs) \ {<<>>}
       /\ job.trusted \in Seq(Certs) /\ job.checkValidity \in BOOLEAN

IInv == WalkInv /\ JobTypeOK /\ WalkFitsJob /\ AnswerFits

\* The header of every event names a sequence of certificates and a certificate, or
\* "absent", whatever else it says.
LEMMA HeaderType ==
    ASSUME NEW e \in Events
    PROVE  /\ e.header.chain \in Seq(Certs)
           /\ e.header.thumb \in Certs \cup {"absent"}
           /\ e.header.x5c \in {"absent", "broken", "decodes"}
<1> DEFINE Typed(h) == /\ h.chain \in Seq(Certs)
                       /\ h.thumb \in Certs \cup {"absent"}
                       /\ h.x5c \in {"absent", "broken", "decodes"}
<1>1. \A c \in Chains : c \in Seq(Certs) /\ c[1] \in Certs
  BY ChainsAssumption
<1>3. <<>> \in Seq(Certs)
  OBVIOUS
<1>4. ASSUME NEW c \in Seq(Certs) PROVE Typed(ByValue(c))
  BY DEF ByValue, Header
<1>5. ASSUME NEW d \in Certs \cup {"absent"} PROVE Typed(ByReference(d))
  BY <1>3 DEF ByReference, Header
<1>6. ASSUME NEW h \in Headers PROVE Typed(h)
  <2>1. CASE \E c \in Chains : h = ByValue(c)
    BY <1>1, <1>4, <2>1
  <2>2. CASE \E d \in Certs : h = ByReference(d)
    BY <1>5, <2>2
  <2>3. CASE h \in {Header, ByValue(<<>>), ByReference("absent"), [Header EXCEPT !.x5c = "broken"]}
    <3>1. Typed(Header) /\ Typed([Header EXCEPT !.x5c = "broken"])
      BY <1>3 DEF Header
    <3> QED
      BY <1>3, <1>4, <1>5, <2>3, <3>1
  <2>4. CASE h \in [crit : BOOLEAN, alg : {"none", "other"}, x5c : {"decodes"},
                     chain : {<<c>> : c \in Certs}, x5u : {FALSE}, thumb : {"absent"}]
    <3>1. PICK c \in Certs : h.chain = <<c>>
      BY <2>4
    <3>2. <<c>> \in Seq(Certs)
      OBVIOUS
    <3> QED
      BY <2>4, <3>1, <3>2
  <2> HIDE DEF Typed
  <2> QED
    BY <2>1, <2>2, <2>3, <2>4 DEF Headers
<1>7. CASE \E c \in Chains, v \in BOOLEAN : e = Sign(Key[c[1]], c, v)
  BY <1>1, <1>4, <1>5, <1>7 DEF Sign, ProtectedHeader
<1>8. CASE e.header \in Headers
  BY <1>6, <1>8
<1> QED
  BY <1>7, <1>8 DEF Events

\* A verification begins with nothing walked and nothing answered.
LEMMA InitEstablishes == Init => IInv
<1> SUFFICES ASSUME Init PROVE IInv
  OBVIOUS
<1>1. WalkInv /\ verdict = "idle" /\ answer = "none"
  BY DEF Init, WalkInit, WalkInv, WalkTypeOK
<1>2. JobTypeOK
  <2>1. <<>> \in Seq(Certs)
    OBVIOUS
  <2>2. Trusts \cup {<<>>} \subseteq Seq(Certs)
    BY <2>1, TrustsAssumption
  <2> QED
    BY <2>2, ChainsAssumption DEF Init, JobTypeOK
<1> QED
  BY <1>1, <1>2 DEF IInv, WalkFitsJob, AnswerFits

\* The walk a verifier starts is one of ChainWalk's: its chain is not empty, its anchors
\* are certificates.
LEMMA VerifyStartsWalk ==
    ASSUME IInv, VerifyEvent \/ VerifyPeer
    PROVE  \/ UNCHANGED walkVars
           \/ \E c \in Seq(Certs) \ {<<>>}, A \in SUBSET Certs, extra \in {0, 1} :
                  StartWalk(c, A, extra)
<1>1. job.trusted \in Seq(Certs)
  BY DEF IInv, JobTypeOK
<1>2. ToSet(job.trusted) \in SUBSET Certs
  BY <1>1 DEF ToSet
<1>3. CASE VerifyEvent /\ Verdict(job.event, job.trusted, job.allowUnsigned) = "walk"
  <2>1. job.event.header.chain \in Seq(Certs)
    BY <1>3, HeaderType DEF VerifyEvent, IInv, JobTypeOK
  <2>2. job.event.header.chain # <<>>
    BY <1>3 DEF Verdict, Examine
  <2>3. StartWalk(job.event.header.chain, ToSet(job.trusted), 1)
    BY <1>3 DEF VerifyEvent
  <2> QED
    BY <1>2, <2>1, <2>2, <2>3
<1>4. CASE VerifyEvent /\ Verdict(job.event, job.trusted, job.allowUnsigned) # "walk"
  BY <1>4 DEF VerifyEvent
<1>5. CASE VerifyPeer
  <2>1. job.chain \in Seq(Certs) \ {<<>>}
    BY <1>5 DEF VerifyPeer, IInv, JobTypeOK
  <2> QED
    BY <1>2, <1>5, <2>1 DEF VerifyPeer
<1> QED
  BY <1>3, <1>4, <1>5

\* Every step is a step of the walk, or none.
LEMMA StepIsWalk == IInv /\ [Next]_vars => [WalkNext]_walkVars
<1> SUFFICES ASSUME IInv, [Next]_vars PROVE [WalkNext]_walkVars
  OBVIOUS
<1>1. CASE VerifyEvent \/ VerifyPeer
  BY <1>1, VerifyStartsWalk DEF WalkNext
<1>2. CASE Walking
  BY <1>2 DEF Walking, WalkNext
<1>3. CASE WalkReturned
  BY <1>3 DEF WalkReturned
<1>4. CASE UNCHANGED vars
  BY <1>4 DEF vars
<1> QED
  BY <1>1, <1>2, <1>3, <1>4 DEF Next

\* The checks before the walk leave an answer, or a walk that fits the job.
LEMMA VerifyFits ==
    ASSUME IInv, VerifyEvent \/ VerifyPeer
    PROVE  JobTypeOK' /\ WalkFitsJob' /\ AnswerFits'
<1>1. job' = job /\ verdict = "idle" /\ answer = "none" /\ JobTypeOK'
  BY DEF IInv, JobTypeOK, VerifyEvent, VerifyPeer
<1>2. CASE VerifyEvent /\ Verdict(job.event, job.trusted, job.allowUnsigned) = "walk"
  <2>1. /\ chain' = job.event.header.chain /\ anchors' = ToSet(job.trusted)
        /\ verdict' = "walking" /\ answer' = "none" /\ job.is = "event"
    BY <1>1, <1>2 DEF VerifyEvent, StartWalk
  <2> QED
    BY <1>1, <1>2, <2>1 DEF WalkFitsJob, AnswerFits
<1>3. CASE VerifyEvent /\ Verdict(job.event, job.trusted, job.allowUnsigned) # "walk"
  <2>1. verdict' = "idle" /\ job.is = "event"
        /\ answer' = IF Verdict(job.event, job.trusted, job.allowUnsigned) = "signature"
                     THEN CheckSignature(job.event, job.trusted)
                     ELSE Verdict(job.event, job.trusted, job.allowUnsigned)
    BY <1>1, <1>3 DEF VerifyEvent, walkVars
  <2> QED
    BY <1>1, <1>3, <2>1 DEF WalkFitsJob, AnswerFits
<1>4. CASE VerifyPeer
  BY <1>1, <1>4 DEF VerifyPeer, StartWalk, walkVars, WalkFitsJob, AnswerFits
<1> QED
  BY <1>1, <1>2, <1>3, <1>4

\* Every step keeps the invariant.
LEMMA NextKeeps == IInv /\ [Next]_vars => IInv'
<1> SUFFICES ASSUME IInv, [Next]_vars PROVE IInv'
  OBVIOUS
<1>1. WalkInv'
  BY StepIsWalk, WalkStepKeeps DEF IInv
<1>2. CASE VerifyEvent \/ VerifyPeer
  BY <1>1, <1>2, VerifyFits DEF IInv
<1>3. CASE Walking
  <2>1. /\ UNCHANGED <<job, answer, chain, anchors>>
        /\ verdict = "walking" /\ verdict' # "idle" /\ answer = "none"
    BY <1>3 DEF Walking, Round, Accept, Reject, StepUp, StandOn, IInv, AnswerFits
  <2> QED
    BY <1>1, <2>1 DEF IInv, JobTypeOK, WalkFitsJob, AnswerFits
<1>4. CASE WalkReturned
  BY <1>1, <1>4 DEF WalkReturned, walkVars, IInv, JobTypeOK, WalkFitsJob, AnswerFits
<1>5. CASE UNCHANGED vars
  BY <1>1, <1>5 DEF vars, walkVars, IInv, JobTypeOK, WalkFitsJob, AnswerFits
<1> QED
  BY <1>2, <1>3, <1>4, <1>5 DEF Next

\* The verifiers' own invariant.
THEOREM Invariance == Spec => []IInv
BY InitEstablishes, NextKeeps, PTL DEF Spec

\* Both verifiers use the walk as ChainWalk says: whatever is proved of it holds in them.
THEOREM ChecksAreWalks == Spec => WalkSpec
<1>1. Init => WalkInit
  BY DEF Init
<1> QED
  BY <1>1, Invariance, StepIsWalk, PTL DEF Spec, WalkSpec

\* So what either verifier anchors is traceable; it rejects only what is not, where
\* issuers are unique or the chain is in order; and the loop's bound ends no walk.
THEOREM WalkGuarantees ==
    Spec => [](Sound /\ Complete /\ OrderedAccepted /\ NeverOutOfRounds)
BY ChecksAreWalks, Soundness, Completeness, OrderSuffices, RoundsSuffice, PTL

\* An answer about a signature is given for a leaf that is vouched for.
THEOREM EventsAreGenuine == Spec => []Genuine
<1>1. ASSUME IInv, Sound PROVE Genuine
  <2> SUFFICES ASSUME answer \in {"accepted", "BadSignature"}, job.is = "event",
                      job.event.header.alg # "none"
               PROVE  \E leaf \in Certs :
                        /\ Vouched(leaf)
                        /\ answer = "accepted" <=> job.event.signature = Key[leaf]
    BY DEF Genuine
  <2> DEFINE v == Verdict(job.event, job.trusted, job.allowUnsigned)
             leaf == Leaf(job.event, job.trusted)
  <2>1. job.event \in Events /\ job.trusted \in Seq(Certs)
    BY <1>1 DEF IInv, JobTypeOK
  <2>2. /\ v \in {"signature", "walk"}
        /\ answer = CheckSignature(job.event, job.trusted)
        /\ v = "walk" => verdict = "anchored"
    <3>1. verdict \in {"idle", "walking", "anchored", "rejected"}
      BY <1>1 DEF IInv, WalkInv, WalkTypeOK
    <3>2. v # "accepted" /\ v # "BadSignature"
      BY DEF Verdict, Examine
    <3> QED
      BY <1>1, <3>1, <3>2 DEF IInv, AnswerFits, WalkFitsJob
  <2>3. v = Examine(job.event.header, job.trusted)
    BY <2>2 DEF Verdict
  <2>4. CASE job.event.header.x5c = "decodes"
    <3>1. leaf = job.event.header.chain[1] /\ leaf \in Valid
      BY <2>2, <2>3, <2>4 DEF Examine, Leaf, ValidityOk
    <3>2. job.trusted # <<>> => verdict = "anchored"
      BY <2>2, <2>3, <2>4 DEF Examine
    <3>3. job.trusted # <<>> => chain = job.event.header.chain
                                /\ anchors = ToSet(job.trusted) /\ Traceable
      BY <1>1, <3>2 DEF IInv, WalkFitsJob, Sound
    <3> QED
      BY <2>2, <2>4, <3>1, <3>3, ValidAssumption DEF Vouched, CheckSignature
  <2>5. CASE job.event.header.x5c # "decodes"
    <3>1. /\ leaf = job.trusted[1] /\ leaf = job.event.header.thumb /\ leaf \in Valid
      BY <2>1, <2>2, <2>3, <2>5, HeaderType DEF Examine, Leaf, ValidityOk
    <3> QED
      BY <2>2, <2>5, <3>1, ValidAssumption DEF Vouched, CheckSignature
  <2> QED
    BY <2>4, <2>5
<1> QED
  BY <1>1, Invariance, WalkGuarantees, PTL

\* What sign() makes, verify_jws accepts.
THEOREM SignedIsAccepted == Spec => []RoundTrip
<1>1. ASSUME IInv, OrderedAccepted PROVE RoundTrip
  <2> SUFFICES ASSUME NEW c \in Chains, NEW byValue \in BOOLEAN,
                      job.is = "event", answer # "none",
                      job.event = Sign(Key[c[1]], c, byValue), c[1] \in Valid,
                      IF byValue
                      THEN job.trusted # <<>> =>
                             \E k \in DOMAIN c : OrderedTo(k) /\ Anchored(c[k])
                      ELSE job.trusted # <<>> /\ job.trusted[1] = c[1]
               PROVE  answer = "accepted"
    BY DEF RoundTrip
  <2> DEFINE v == Verdict(job.event, job.trusted, job.allowUnsigned)
  <2>1. c # <<>> /\ c[1] \in Certs /\ c[1] # "absent"
    BY ChainsAssumption, ThumbAssumption
  <2>2. verdict \in {"idle", "walking", "anchored", "rejected"}
    BY <1>1 DEF IInv, WalkInv, WalkTypeOK
  <2>3. CASE byValue
    <3>1. job.event.header = ByValue(c) /\ job.event.signature = Key[c[1]]
          /\ job.event.readable
      BY <2>3 DEF Sign, ProtectedHeader
    <3>2. /\ job.event.header.x5c = "decodes" /\ job.event.header.chain = c
          /\ job.event.header.alg = "EdDSA" /\ ~job.event.header.crit
      BY <3>1 DEF ByValue, Header
    <3>3. CheckSignature(job.event, job.trusted) = "accepted"
      BY <3>1, <3>2 DEF CheckSignature, Leaf
    <3>4. v = IF job.trusted = <<>> THEN "signature" ELSE "walk"
      BY <2>1, <3>1, <3>2 DEF Verdict, Examine, ValidityOk
    <3>5. verdict # "rejected"
      BY <1>1, <2>3, <3>2, <3>4 DEF IInv, WalkFitsJob, OrderedAccepted
    <3>6. v = "walk" => verdict # "idle"
      BY <1>1, <3>3 DEF IInv, AnswerFits
    <3> QED
      BY <1>1, <2>2, <3>3, <3>4, <3>5 DEF IInv, AnswerFits
  <2>4. CASE ~byValue
    <3>1. job.event.header = ByReference(c[1]) /\ job.event.signature = Key[c[1]]
          /\ job.event.readable
      BY <2>4 DEF Sign, ProtectedHeader
    <3>2. /\ job.event.header.x5c = "absent" /\ job.event.header.x5u
          /\ job.event.header.thumb = c[1]
          /\ job.event.header.alg = "EdDSA" /\ ~job.event.header.crit
      BY <3>1 DEF ByReference, Header
    <3>3. v = "signature"
      BY <2>1, <2>4, <3>1, <3>2 DEF Verdict, Examine, ValidityOk
    <3>4. CheckSignature(job.event, job.trusted) = "accepted"
      BY <2>4, <3>1, <3>2 DEF CheckSignature, Leaf
    <3> QED
      BY <1>1, <2>2, <3>3, <3>4 DEF IInv, AnswerFits, WalkFitsJob
  <2> QED
    BY <2>3, <2>4
<1> QED
  BY <1>1, Invariance, WalkGuarantees, PTL

\* A peer is accepted only on a path to an anchor.
THEOREM PeersAreTraceable == Spec => []PeersTraceable
<1>1. ASSUME IInv, Sound PROVE PeersTraceable
  BY <1>1 DEF IInv, WalkInv, AnswerFits, WalkFitsJob, Sound, PeersTraceable, ValidityOk
<1> QED
  BY <1>1, Invariance, WalkGuarantees, PTL
=============================================================================
