----------------------------- MODULE TrustAnchor -----------------------------
(***************************************************************************)
(* What the service promises about one domain's long-term trust, with no   *)
(* store, no calls and no failures: a latch that is set once, a pin that   *)
(* needs it, and the only ways the pin may change.                         *)
(***************************************************************************)
CONSTANTS Fingerprints, Succession, None

VARIABLES
    latch,    \* the domain has answered over HTTPS at least once
    lifted,   \* an administrator stopped requiring encryption
    pin,      \* the trusted identity, or None
    managed   \* an administrator's policy is on the record: set from outside

\* managed is read here and never written, so its changes are nobody's steps.
vars == <<latch, lifted, pin>>

Init ==
    /\ lifted = FALSE
    /\ \/ latch = FALSE /\ pin = None
       \/ latch = TRUE /\ pin \in Fingerprints

Validate == latch' = TRUE /\ UNCHANGED <<lifted, pin>>

\* A pin is born only where there is none, and only behind the latch.
Pin(f) == latch /\ pin = None /\ pin' = f /\ UNCHANGED <<latch, lifted>>

\* It moves only to an identity the old one signed for.
Rotate(f) == <<pin, f>> \in Succession /\ pin' = f /\ UNCHANGED <<latch, lifted>>

\* Forgetting drops the pin and never the latch, and not the pin of a record that
\* is kept for its policy.
Forget == ~managed /\ pin' = None /\ UNCHANGED <<latch, lifted>>

Lift(b) == lifted' = b /\ UNCHANGED <<latch, pin>>

Next ==
    \/ Validate
    \/ \E f \in Fingerprints : Pin(f) \/ Rotate(f)
    \/ Forget
    \/ \E b \in BOOLEAN : Lift(b)

Spec == Init /\ [][Next]_vars
=============================================================================
