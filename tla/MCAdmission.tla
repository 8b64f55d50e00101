----------------------------- MODULE MCAdmission -----------------------------
(* Two fingerprints advertised in DNS.    *)
EXTENDS Admission, TLC
CONSTANTS c1, c2, d1, d2, f1, f2
Says(source, fp) == [source |-> source, id |-> None, fp |-> fp]
Rollover == {Says("dns", f1), Says("dns", f2)}
Sym == Permutations(Callers) \cup Permutations(Domains)
=============================================================================
