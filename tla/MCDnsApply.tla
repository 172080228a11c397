----------------------------- MODULE MCDnsApply -----------------------------
(***************************************************************************)
(* Small instances of DnsApply.  Addresses 1 and 2 are the source's, 11   *)
(* and 12 the destination's.                                               *)
(***************************************************************************)
EXTENDS DnsApply

R(t, n, v) == [key |-> [type |-> t, name |-> n], val |-> v]

MCNames           == {"www", "dcv"}
MCValidationNames == {"dcv"}
MCValues          == {1, 2, 11, 12, 13}
MCIPMap           == [a \in {1, 2} |-> a + 10]

\* A replaced, A added, CNAME against A, TXT with an address, NS, DCV, SRV.
Source1 ==
    { {R("A", "www", 1), R("A", "www", 2), R("TXT", "www", 1), R("NS", "www", 13), R("A", "dcv", 1)},
      {R("CNAME", "www", 13)},
      {R("MX", "www", 13), R("TXT", "www", 13), R("A", "www", 2), R("SOA", "www", 13), R("SRV", "www", 13)} }
Dest1 ==
    { {},
      {R("A", "www", 13), R("TXT", "www", 11)},
      {R("A", "www", 12), R("A", "www", 13), R("MX", "www", 13)} }
MCForeign == {<<1, R("A", "www", 11)>>, <<1, R("A", "www", 12)>>}

\* The second zone has one op, so that a run has a zone to come back to.
MCSource == {[z \in {1, 2} |-> IF z = 1 THEN s ELSE {R("A", "www", 1)}] : s \in Source1}
MCDest   == {[z \in {1, 2} |-> IF z = 1 THEN d ELSE {R("A", "www", 13)}] : d \in Dest1}
=============================================================================
