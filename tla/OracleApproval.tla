---------------------------- MODULE OracleApproval ----------------------------
(***************************************************************************)
(* claim.rs, the oracle's signed approvals: verification of a payload, and *)
(* revocation of one that has not been submitted yet.  A signature is      *)
(* modelled by the key that made it (Ed25519 is unforgeable); a mismatch   *)
(* traps, so a submission goes through only for the current key.           *)
(***************************************************************************)
EXTENDS Storage

\* The deadline is open and no further out than the bounded window.
deadline_legal(deadline) ==
    /\ timestamp <= deadline
    /\ deadline <= timestamp + MAX_APPROVAL_WINDOW_SECONDS

verify_oracle_signature(verdict, deadline, signer) ==
    /\ deadline_legal(deadline)
    /\ oracle_pubkey # None
    /\ ~is_approval_revoked(<<verdict, deadline>>)
    /\ signer = oracle_pubkey

revoke_approval(verdict, deadline) ==
    /\ deadline_legal(deadline)
    /\ set_approval_revoked(<<verdict, deadline>>)
    /\ UNCHANGED <<roles, config, totals, daily, stakes, points_balance, claims,
                   overrides, yield, liquid, clock>>
=============================================================================
