------------------------------ MODULE ChainWalk ------------------------------
(***************************************************************************)
(* The walk from a certificate to a trust anchor, written once in          *)
(* jws_signer.py (_chain_is_anchored) and once in peer_auth.py             *)
(* (PeerCertVerifier._is_anchored).  It is greedy: of the certificates     *)
(* supplied it takes the first that issued the one it stands on, and never *)
(* goes back.                                                              *)
(*                                                                         *)
(* One action is one round of the loop.  The two versions differ in the    *)
(* number of rounds they allow: one more than there are certificates for   *)
(* a signed event, as many as there are for a peer.                        *)
(***************************************************************************)
EXTENDS Integers, Sequences, FiniteSets

CONSTANTS
    Certs,      \* certificates, told apart by their DER encoding
    IssuedBy    \* <<c, d>>: c.verify_directly_issued_by(d) succeeds

ASSUME IssuedByAssumption == IssuedBy \subseteq Certs \X Certs

VARIABLES
    chain,      \* the certificate in question and those supplied with it
    anchors,    \* the trusted certificates
    current,    \* where the walk stands: an index of chain
    remaining,  \* indices of the supplied certificates not yet used
    rounds,     \* rounds the loop has left
    visited,    \* history: indices the walk has stood on
    verdict     \* "idle", "walking", "anchored" or "rejected"

walkVars == <<chain, anchors, current, remaining, rounds, visited, verdict>>

\* Types of the walk's state.
WalkTypeOK ==
    /\ chain \in Seq(Certs)
    /\ anchors \in SUBSET Certs
    /\ current \in Nat
    /\ remaining \in SUBSET DOMAIN chain
    /\ visited \in SUBSET DOMAIN chain
    /\ rounds \in Nat
    /\ verdict \in {"idle", "walking", "anchored", "rejected"}
    /\ verdict # "idle" => current \in DOMAIN chain

WalkInit ==
    /\ chain = <<>>
    /\ anchors = {}
    /\ current = 0
    /\ remaining = {}
    /\ rounds = 0
    /\ visited = {}
    /\ verdict = "idle"

----
\* Is the certificate an anchor, or directly issued by one?
Anchored(c) == c \in anchors \/ \E a \in anchors : <<c, a>> \in IssuedBy

\* The supplied certificates that issued the current one.
Issuers == {i \in remaining : <<chain[current], chain[i]>> \in IssuedBy}

\* A faulty variant of StartWalk: as many rounds as there are intermediates.
StartWalkShort(theChain, theAnchors, extra) ==
    /\ verdict = "idle"
    /\ verdict' = "walking"
    /\ chain' = theChain
    /\ anchors' = theAnchors
    /\ current' = 1
    /\ remaining' = 2..Len(theChain)
    /\ rounds' = Len(theChain) - 1 + extra
    /\ visited' = {1}

\* A verifier calls the walk with a chain, never empty, and its anchors.
StartWalk(theChain, theAnchors, extra) ==
    /\ verdict = "idle"
    /\ verdict' = "walking"
    /\ chain' = theChain
    /\ anchors' = theAnchors
    /\ current' = 1
    /\ remaining' = 2..Len(theChain)
    /\ rounds' = Len(theChain) + extra
    /\ visited' = {1}

\* A round that ends at an anchor.
Accept ==
    /\ verdict = "walking"
    /\ rounds > 0
    /\ Anchored(chain[current])
    /\ verdict' = "anchored"
    /\ UNCHANGED <<chain, anchors, current, remaining, rounds, visited>>

\* The loop ends at an issuer nobody supplied, or runs out of rounds.
Stuck == rounds = 0 \/ (~Anchored(chain[current]) /\ Issuers = {})

Reject ==
    /\ verdict = "walking"
    /\ Stuck
    /\ verdict' = "rejected"
    /\ UNCHANGED <<chain, anchors, current, remaining, rounds, visited>>

\* Step to the chosen certificate, and do not use it again.
StandOn(i) ==
    /\ current' = i
    /\ remaining' = remaining \ {i}
    /\ rounds' = rounds - 1
    /\ visited' = visited \cup {i}
    /\ UNCHANGED <<chain, anchors, verdict>>

\* Faulty variants of StepUp: any certificate supplied next is taken; the last issuer
\* is taken, not the first.
StepUpUnchecked ==
    /\ verdict = "walking"
    /\ rounds > 0 /\ ~Anchored(chain[current])
    /\ \E i \in remaining : /\ \A j \in remaining : i <= j
                            /\ StandOn(i)
StepUpLast ==
    /\ verdict = "walking"
    /\ rounds > 0 /\ ~Anchored(chain[current])
    /\ \E i \in Issuers : /\ \A j \in Issuers : j <= i
                          /\ StandOn(i)

\* A round that goes on: to the first of the certificates left that issued this one.
StepUp ==
    /\ verdict = "walking"
    /\ rounds > 0 /\ ~Anchored(chain[current])
    /\ \E i \in Issuers : /\ \A j \in Issuers : i <= j
                          /\ StandOn(i)

Round == Accept \/ Reject \/ StepUp

\* The walk alone, for the proofs.
WalkNext ==
    \/ \E c \in Seq(Certs) \ {<<>>}, A \in SUBSET Certs, extra \in {0, 1} :
          StartWalk(c, A, extra)
    \/ Round
WalkSpec == WalkInit /\ [][WalkNext]_walkVars

----
\* A set of certificates that holds the one in question and, with a certificate, every
\* supplied certificate that issued it.
Closed(S) ==
    /\ chain[1] \in S
    /\ \A i \in DOMAIN chain, c \in S : <<c, chain[i]>> \in IssuedBy => chain[i] \in S

\* There is a path of issuers from the certificate in question to an anchor.
Traceable == \A S \in SUBSET Certs : Closed(S) => \E c \in S : Anchored(c)

\* Each of the first k certificates is issued by the next one.
OrderedTo(k) == \A i \in 1..(k - 1) : <<chain[i], chain[i + 1]>> \in IssuedBy

\* No supplied certificate was issued by two of the others (cross-signing).
UniqueIssuers ==
    \A i, j, k \in DOMAIN chain :
        <<chain[i], chain[j]>> \in IssuedBy /\ <<chain[i], chain[k]>> \in IssuedBy
        => chain[j] = chain[k]

\* jws_signer.py:266, "True when chain[0] is, or chains up to, a certificate in
\* trusted": what the walk anchors is traceable.
Sound == verdict = "anchored" => Traceable

\* The walk misses no path in a chain without cross-signed certificates, in whatever
\* order they are supplied: neither the greedy choice nor the rounds cut it off.
Complete == verdict = "rejected" /\ UniqueIssuers => ~Traceable

\* The walk accepts a chain supplied in issuing order, cross-signed or not, that reaches
\* an anchor.
OrderedAccepted ==
    verdict = "rejected" => \A k \in DOMAIN chain : OrderedTo(k) => ~Anchored(chain[k])

\* The bound on the rounds never ends the walk: the last return is not reached.
NeverOutOfRounds == verdict = "walking" => rounds > Cardinality(remaining)
=============================================================================
