------------------------------ MODULE Vetting ------------------------------
(***************************************************************************)
(* What the captcha gate promises, whatever races, expires or crashes: a   *)
(* new user is active until the gate asks, which it does once; from then   *)
(* on it takes a right answer to a question that is open, or an admin, to  *)
(* become active, and whoever has that is never put back.  AccessGate      *)
(* implements this specification, and so does Referrals, which has the     *)
(* captcha only as far as the credit needs it.                             *)
(***************************************************************************)

VARIABLES
    status,  \* what the user's row says
    gated,   \* the gate has asked
    open,    \* a question waits for its answer
    vetted   \* a right answer was given, or an admin has decided

vars == <<status, gated, open, vetted>>

Init ==
    /\ status = "absent"
    /\ gated = FALSE
    /\ open = FALSE
    /\ vetted = FALSE

Register ==
    /\ status = "absent"
    /\ status' = "active"
    /\ UNCHANGED <<gated, open, vetted>>

\* A question is posed, and later answered, dropped or forgotten.
Pose ==
    /\ status # "absent"
    /\ open' = TRUE
    /\ UNCHANGED <<status, gated, vetted>>

Close ==
    /\ open
    /\ open' = FALSE
    /\ UNCHANGED <<status, gated, vetted>>

Gate ==
    /\ status # "absent"
    /\ ~gated
    /\ status' = "pending_captcha"
    /\ gated' = TRUE
    /\ UNCHANGED <<open, vetted>>

AcceptAnswer ==
    /\ open
    /\ vetted' = TRUE
    /\ UNCHANGED <<status, gated, open>>

Admit ==
    /\ vetted
    /\ status' = "active"
    /\ UNCHANGED <<gated, open, vetted>>

Moderate ==
    /\ status # "absent"
    /\ status' \in {"active", "muted", "banned"}
    /\ vetted' = TRUE
    /\ UNCHANGED <<gated, open>>

Next == Register \/ Pose \/ Close \/ Gate \/ AcceptAnswer \/ Admit \/ Moderate

Spec == Init /\ [][Next]_vars
=============================================================================
