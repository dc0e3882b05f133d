---------------------------- MODULE MCRequestPath ----------------------------
EXTENDS RequestPath, TLC
CONSTANTS r1, r2, n1, n2, good, expired, stranger, odd
MCRequests == {r1, r2}
MCNotices == {n1, n2}
MCCertificates == {good, expired, stranger, odd}
MCValid == {good, stranger, odd}
MCAnchored == {good, expired, odd}
MCBadExtensions == {odd}
=============================================================================
