------------------------------ MODULE MCBackup ------------------------------
(* A tree of one CA and a certificate with a dot in its name, and a server *)
(* with one CA that has a certificate already.                            *)
EXTENDS Backup

CONSTANTS l, s,  x, m, n,  u

MCCaIds == {l, s}
MCCertIds == {x, m, n}
MCUserIds == {u}
MCDotted == {x}
MCItems == <<[ca |-> l, cert |-> None], [ca |-> l, cert |-> x]>>

MCStart ==
    [EmptyTables EXCEPT !.cas[s] = [NewCa EXCEPT !.next = 2], !.certs[m] = NewCert(s, 1)]
=============================================================================
