----------------------------- MODULE MCDiscovery -----------------------------
(* Two observers and a worker over a queue of one.  d1's records change and *)
(* disagree; d2's authority never answers, so d2 fills the queue.           *)
EXTENDS Discovery
CONSTANTS o1, o2, w1, w2, x1, x2, d1, d2, m1, m2, f1, f2, a
Ad(id, fp, to) == [id |-> id, fp |-> fp, authority |-> to]
Hear(d, source, records) == [domain |-> d, source |-> source, records |-> records]
FromDNS == {
    Hear(d1, "dns", <<Ad(m1, f2, a), Ad(m2, f1, None)>>),
    Hear(d2, "dns", <<Malformed, Ad(None, f1, None)>>),
    Hear(d2, "dns", <<Malformed>>)}
FromMail == {Hear(d1, "header", <<Ad(m2, None, None)>>)}
MCHears == [o \in Observers |-> IF o = o1 THEN FromDNS ELSE FromMail]
MCServed == [d \in Domains |-> IF d = d1 THEN {m1, m2} ELSE {}]
=============================================================================
