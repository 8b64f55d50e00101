--------------------------- MODULE MCDelivery --------------------------------
(* Hostile: a plain history, a rotation staged ahead, one that lapses, one that is  *)
(* taken back, two revocations and a forgery by the key it would install.  *)
EXTENDS Delivery
CONSTANTS ka, kb, kc, us, them
Says(type, old, new, notBefore, expiresAt, oldSigned) ==
    [type |-> type, old |-> old, new |-> new, notBefore |-> notBefore,
     expiresAt |-> expiresAt, formed |-> TRUE, oldSigned |-> oldSigned,
     newSigned |-> new # None]
Signed == {
    Says("rotation", ka, kb, 0, None, TRUE),
    Says("rotation", kb, kc, 1, None, TRUE),
    Says("rotation", ka, kc, 0, 1, TRUE),
    Says("rotation", kb, ka, 0, None, TRUE),
    Says("revocation", kb, None, 1, 2, TRUE),
    Says("revocation", kc, ka, 0, None, TRUE),
    Says("rotation", kc, kb, 0, None, FALSE)}
Genuine == {s \in Signed : s.oldSigned}
Lives == <<4, 2>>
Honest == <<Says("rotation", kb, kc, 1, None, TRUE)>>
=============================================================================
