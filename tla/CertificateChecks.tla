-------------------------- MODULE CertificateChecks --------------------------
(***************************************************************************)
(* The two users of the walk: verify_jws, which a Logging Service applies  *)
(* to the events JwsSigner signs, and PeerCertVerifier.verify.  Each is    *)
(* one call, of which the walk's rounds are the only loop.                 *)
(*                                                                         *)
(* A signature stands for the key it was made with; it verifies against    *)
(* the certificates that carry this key.  A signature of anything else is  *)
(* "void".  A thumbprint stands for the certificate it is of.              *)
(***************************************************************************)
EXTENDS ChainWalk, SequencesExt

CONSTANTS
    Key,        \* Certs -> the key a certificate carries
    Valid,      \* certificates inside their validity window
    Trusts,     \* the sequences of trusted certificates configured
    Chains      \* bound: the chains put into events, or given with a peer's

ASSUME ValidAssumption == Valid \subseteq Certs
ASSUME TrustsAssumption == Trusts \subseteq Seq(Certs) \ {<<>>}
ASSUME ChainsAssumption == Chains \subseteq Seq(Certs) \ {<<>>}
ASSUME ThumbAssumption == "absent" \notin Certs

Keys == {Key[c] : c \in Certs}

VARIABLES
    job,        \* what is verified, against what
    answer      \* "none" yet, "accepted", or the problem

vars == <<walkVars, job, answer>>

----
\* A protected header that names no certificate.
Header == [crit |-> FALSE, alg |-> "EdDSA", x5c |-> "absent", chain |-> <<>>,
           x5u |-> FALSE, thumb |-> "absent"]

ByValue(certChain) == [Header EXCEPT !.x5c = "decodes", !.chain = certChain]
ByReference(cert) == [Header EXCEPT !.x5u = TRUE, !.thumb = cert]

\* A faulty variant of ProtectedHeader: the thumbprint of the last certificate.
ProtectedHeaderOfRoot(certChain, byValue) ==
    IF byValue THEN ByValue(certChain) ELSE ByReference(Last(certChain))

\* JwsSigner._build_protected_header: the chain, or the thumbprint of its leaf.
ProtectedHeader(certChain, byValue) ==
    IF byValue THEN ByValue(certChain) ELSE ByReference(certChain[1])

\* JwsSigner.sign.
Sign(key, certChain, byValue) ==
    [readable |-> TRUE, header |-> ProtectedHeader(certChain, byValue), signature |-> key]

\* The events verified: signed ones, and any other with one of these headers.
Headers ==
    {ByValue(c) : c \in Chains} \cup {ByReference(c) : c \in Certs}
      \cup {Header, ByValue(<<>>), ByReference("absent"), [Header EXCEPT !.x5c = "broken"]}
      \cup [crit : BOOLEAN, alg : {"none", "other"}, x5c : {"decodes"},
             chain : {<<c>> : c \in Certs}, x5u : {FALSE}, thumb : {"absent"}]
Events ==
    {Sign(Key[c[1]], c, v) : c \in Chains, v \in BOOLEAN}
      \cup [readable : BOOLEAN, header : Headers, signature : Keys \cup {"void"}]

Init ==
    /\ WalkInit
    /\ answer = "none"
    /\ \/ job \in [is : {"event"}, event : Events, trusted : Trusts \cup {<<>>},
                   allowUnsigned : BOOLEAN]
       \/ job \in [is : {"peer"}, chain : Chains, trusted : Trusts, checkValidity : BOOLEAN]

----
\* _cert_validity_ok.
ValidityOk(cert) == cert \in Valid

\* A faulty variant of Examine: an expired leaf is not noticed.
ExamineUndated(header, trusted) ==
    IF header.x5c # "absent"
    THEN IF header.x5c = "broken" THEN "BadCertX5c"
         ELSE IF header.chain = <<>> THEN "NoCert"
         ELSE IF trusted = <<>> THEN "signature" ELSE "walk"
    ELSE IF ~header.x5u THEN "NoCert"
    ELSE IF header.thumb = "absent" THEN "BadThumb"
    ELSE IF trusted = <<>> THEN "BadURL"
    ELSE IF header.thumb # trusted[1] THEN "BadThumb"
    ELSE "signature"

\* verify_jws obtains the leaf: a problem, or what comes next.
Examine(header, trusted) ==
    IF header.x5c # "absent"
    THEN IF header.x5c = "broken" THEN "BadCertX5c"
         ELSE IF header.chain = <<>> THEN "NoCert"
         ELSE IF ~ValidityOk(header.chain[1]) THEN "BadCertX5c"
         ELSE IF trusted = <<>> THEN "signature" ELSE "walk"
    ELSE IF ~header.x5u THEN "NoCert"
    ELSE IF header.thumb = "absent" THEN "BadThumb"
    ELSE IF trusted = <<>> THEN "BadURL"
    ELSE IF header.thumb # trusted[1] THEN "BadThumb"
    ELSE IF ~ValidityOk(trusted[1]) THEN "BadCertX5u"
    ELSE "signature"

\* verify_jws up to there.
Verdict(event, trusted, allowUnsigned) ==
    IF ~event.readable \/ event.header.crit THEN "OtherLogSignature"
    ELSE IF event.header.alg = "none" /\ allowUnsigned THEN "accepted"
    ELSE IF event.header.alg # "EdDSA" THEN "BadAlgorithm"
    ELSE Examine(event.header, trusted)

Leaf(event, trusted) ==
    IF event.header.x5c = "decodes" THEN event.header.chain[1] ELSE trusted[1]

\* The signature, checked last.
CheckSignature(event, trusted) ==
    IF event.signature = Key[Leaf(event, trusted)] THEN "accepted" ELSE "BadSignature"

VerifyEvent ==
    /\ job.is = "event" /\ verdict = "idle" /\ answer = "none"
    /\ LET v == Verdict(job.event, job.trusted, job.allowUnsigned)
       IN IF v = "walk"
          THEN /\ StartWalk(job.event.header.chain, ToSet(job.trusted), 1)
               /\ UNCHANGED <<job, answer>>
          ELSE /\ answer' = IF v = "signature"
                            THEN CheckSignature(job.event, job.trusted) ELSE v
               /\ UNCHANGED <<walkVars, job>>

\* PeerCertVerifier.verify up to the walk.
VerifyPeer ==
    /\ job.is = "peer" /\ verdict = "idle" /\ answer = "none"
    /\ IF job.checkValidity /\ ~ValidityOk(job.chain[1])
       THEN answer' = "PeerAuthError" /\ UNCHANGED <<walkVars, job>>
       ELSE StartWalk(job.chain, ToSet(job.trusted), 0) /\ UNCHANGED <<job, answer>>

Walking == Round /\ UNCHANGED <<job, answer>>

\* The caller goes on with what the walk returned.
WalkReturned ==
    /\ answer = "none"
    /\ verdict \in {"anchored", "rejected"}
    /\ answer' =
         IF job.is = "event"
         THEN IF verdict = "anchored" THEN CheckSignature(job.event, job.trusted)
              ELSE "BadCertX5c"
         ELSE IF verdict = "anchored" THEN "accepted" ELSE "PeerAuthError"
    /\ UNCHANGED <<walkVars, job>>

Next == VerifyEvent \/ VerifyPeer \/ Walking \/ WalkReturned

Spec == Init /\ [][Next]_vars

----
\* A leaf the trusted certificates vouch for: x5t#S256 names the first of them, or they
\* anchor the event's chain, which it heads.  Without trusted certificates an inline leaf vouches for
\* itself: "signature only checked for self-consistency" (jws_signer.py:317).
Vouched(leaf) ==
    /\ leaf \in Valid
    /\ IF job.event.header.x5c = "decodes"
       THEN /\ leaf = job.event.header.chain[1]
            /\ job.trusted # <<>> =>
                   /\ chain = job.event.header.chain /\ anchors = ToSet(job.trusted)
                   /\ Traceable
       ELSE leaf = job.trusted[1] /\ leaf = job.event.header.thumb

\* A signed event passes verify_jws exactly when a leaf that is vouched for carries the
\* key it was signed with, and is a BadSignature exactly when the leaf carries another.
Genuine ==
    answer \in {"accepted", "BadSignature"} /\ job.is = "event" /\ job.event.header.alg # "none" =>
        \E leaf \in Certs :
            Vouched(leaf) /\ (answer = "accepted" <=> job.event.signature = Key[leaf])

\* jws_signer.py:166, "so it can be passed directly": what sign() makes with a
\* chain in issuing order and the key of its valid leaf, verify_jws accepts, when the
\* chain reaches a trusted certificate - by reference, when the leaf is the first of
\* the certificates supplied.
RoundTrip ==
    \A c \in Chains, byValue \in BOOLEAN :
        /\ job.is = "event" /\ answer # "none"
        /\ job.event = Sign(Key[c[1]], c, byValue) /\ c[1] \in Valid
        /\ IF byValue
           THEN job.trusted # <<>> => \E k \in DOMAIN c : OrderedTo(k) /\ Anchored(c[k])
           ELSE job.trusted # <<>> /\ job.trusted[1] = c[1]
        => answer = "accepted"

\* A peer passes verify only with a certificate that is traceable to a trusted one and,
\* where that is asked for, inside its validity window.
PeersTraceable ==
    answer = "accepted" /\ job.is = "peer" =>
        /\ chain = job.chain /\ anchors = ToSet(job.trusted) /\ Traceable
        /\ job.checkValidity => job.chain[1] \in Valid

\* What the walk that is under way, or over, was started for.
WalkFitsJob ==
    verdict # "idle" =>
        /\ anchors = ToSet(job.trusted)
        /\ IF job.is = "event"
           THEN /\ chain = job.event.header.chain
                /\ Verdict(job.event, job.trusted, job.allowUnsigned) = "walk"
           ELSE /\ chain = job.chain
                /\ job.checkValidity => ValidityOk(job.chain[1])

\* What the answer comes from: the checks before the walk, or its verdict.
AnswerFits ==
    LET v == Verdict(job.event, job.trusted, job.allowUnsigned)
        signed == CheckSignature(job.event, job.trusted)
    IN  answer # "none" =>
          /\ verdict # "walking"
          /\ IF job.is = "event"
             THEN CASE verdict = "anchored" -> answer = signed
                    [] verdict = "rejected" -> answer = "BadCertX5c"
                    [] OTHER -> /\ v # "walk"
                                /\ answer = IF v = "signature" THEN signed ELSE v
             ELSE answer = IF verdict = "anchored" THEN "accepted" ELSE "PeerAuthError"
=============================================================================
