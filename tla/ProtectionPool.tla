---------------------------- MODULE ProtectionPool ----------------------------
(***************************************************************************)
(* The whole contract (lib.rs): every state-changing entry point of the    *)
(* stake, claim, override, admin and vault modules, interleaved with the   *)
(* closing of ledgers.                                                     *)
(*                                                                         *)
(* The CONSTANTS below are the inputs a model tries and the environment it *)
(* assumes; they do not change what a call does.  `Calls` names the entry  *)
(* points that are exercised.                                              *)
(***************************************************************************)
EXTENDS Override, Admin, Vault

CONSTANTS
    Calls,              \* entry points exercised
    Deployments,        \* argument lists of initialize
    RoleHolders,        \* addresses a role may be rotated to
    Beneficiaries,
    StakeAmounts, PoolCaps,
    OverrideTerms,      \* [wallet, tx_hash, entitlement, tier]
    Vaults, DeployBpsValues, DeployAmounts, ShareAmounts, MinOuts, YieldAmounts,
    DonationAmounts,    \* XLM sent to the contract from outside
    RestakePolicy       \* "any", or "settled": stake again only with no open claim

Deployment == [admin : Addresses, oracle : Addresses, oracle_pubkey : Pubkeys,
               co_signer : Addresses, pool_cap : Nat]

ASSUME CallInputsAssumption ==
    /\ Deployments \subseteq Deployment
    /\ RoleHolders \subseteq Addresses /\ Beneficiaries \subseteq Addresses
    /\ StakeAmounts \subseteq Nat /\ PoolCaps \subseteq Nat
    /\ OverrideTerms \subseteq [wallet : Wallets, tx_hash : TxHashes,
                                entitlement : Nat \ {0}, tier : Tiers]
    /\ None \notin Vaults
    /\ {DeployBpsValues, DeployAmounts, ShareAmounts, MinOuts, YieldAmounts,
        DonationAmounts}
          \subseteq SUBSET Nat
    /\ RestakePolicy \in {"any", "settled"}

-----------------------------------------------------------------------------
Init ==
    /\ \E d \in Deployments : initialize(d)
    /\ daily_outflow = [day |-> 0, amount |-> 0]
    /\ daily_entitlement = [day |-> 0, total |-> 0, count |-> 0]
    /\ stakes = [w \in Wallets |-> EmptyStake]
    /\ points_balance = [w \in Wallets |-> 0]
    /\ claims = [id \in ClaimIds |-> UnusedClaim]
    /\ overrides = [id \in ClaimIds |-> None]
    /\ revoked = [p \in Payloads |-> 0]
    /\ vault = None /\ treasury = None /\ deploy_bps = 0
    /\ deployed_shares = 0 /\ deployed_xlm = 0 /\ extracted_yield = 0
    /\ liquid = 0
    /\ ledger = 0 /\ timestamp = 0

-----------------------------------------------------------------------------
Live == {"PendingTime", "AwaitingApproval", "Active"}
Open == Live \cup {"Reserved"}

ClaimsOf(w) == {id \in ClaimIds : id[1] = w}

\* An assumption on stakers, not a guard of the contract.
may_stake(w) ==
    RestakePolicy = "settled" => \A id \in ClaimsOf(w) : claims[id].status \notin Open

StakerCall ==
    \/ /\ "stake" \in Calls
       /\ \E w \in Wallets, a \in StakeAmounts, b \in Beneficiaries :
            may_stake(w) /\ stake(w, a, b)
    \/ /\ "set_beneficiary" \in Calls
       /\ \E w \in Wallets, b \in Beneficiaries : set_beneficiary(w, b)
    \/ /\ "withdraw" \in Calls
       /\ \E w \in Wallets, b \in Beneficiaries : withdraw(w, b)
    \/ "emergency_exit" \in Calls /\ \E w \in Wallets : emergency_exit(w)
    \/ "approve_claim" \in Calls /\ \E id \in ClaimIds : approve_claim(id)
    \/ /\ "claim_stream" \in Calls
       /\ \E id \in ClaimIds, b \in Beneficiaries : claim_stream(id, b)

\* The oracle presents an approval signed by some key; the admin needs none.
OracleCall ==
    /\ "submit_claim" \in Calls
    /\ \E v \in Verdicts, d \in Deadlines, k \in Pubkeys : submit_claim(oracle, v, d, k)

AnyoneCall ==
    \E id \in ClaimIds :
        \/ "try_release_queued_claim" \in Calls /\ try_release_queued_claim(id)
        \/ "expire_queued_claim" \in Calls /\ expire_queued_claim(id)
        \/ "unlock_pending_claim" \in Calls /\ unlock_pending_claim(id)
        \/ "expire_pending_approval" \in Calls /\ expire_pending_approval(id)
        \/ "expire_stale_claim" \in Calls /\ expire_stale_claim(id)

AdminCall ==
    \/ /\ "admin_submit_claim" \in Calls
       /\ \E v \in Verdicts : admin # oracle /\ submit_claim(admin, v, 0, None)
    \/ "cancel_claim" \in Calls /\ \E id \in ClaimIds : cancel_claim(id)
    \/ /\ "revoke_approval" \in Calls
       /\ \E v \in Verdicts, d \in Deadlines : revoke_approval(v, d)
    \/ "pause" \in Calls /\ (pause \/ unpause)
    \/ /\ "suspend_stake" \in Calls
       /\ \E w \in Wallets :
            \/ suspend_stake(w)
            \/ \E id \in ClaimIds \cup {None} : unsuspend_stake(w, id)
    \/ "set_pool_cap" \in Calls /\ \E c \in PoolCaps : set_pool_cap(c)

RotationCall ==
    /\ "rotate" \in Calls
    /\ \/ \E a \in RoleHolders :
            transfer_admin(a) \/ set_oracle(a) \/ set_co_signer(a)
       \/ \E k \in Pubkeys : set_oracle_pubkey(k)
       \/ \E a \in RoleHolders, k \in Pubkeys : set_oracle_identity(a, k)

OverrideCall ==
    /\ "override" \in Calls
    /\ \/ \E c \in {admin, co_signer}, t \in OverrideTerms : approve_override(c, t)
       \/ \E id \in ClaimIds : cancel_pending_override(id)

VaultCall ==
    /\ "vault" \in Calls
    /\ \/ \E a \in Vaults : set_vault(a) \/ set_treasury(a)
       \/ \E b \in DeployBpsValues : set_deploy_bps(b)
       \/ \E a \in DeployAmounts, m \in MinOuts : deploy_to_vault(a, m)
       \/ auto_deploy_liquidity
       \/ ensure_liquidity
       \/ \E s \in ShareAmounts, m \in MinOuts :
            provide_liquidity(s, m) \/ extract_yield(s, m)
       \/ \E a \in YieldAmounts : withdraw_yield(a)

DonationCall == \E a \in DonationAmounts : donate(a)

Next ==
    \/ StakerCall
    \/ OracleCall
    \/ AnyoneCall
    \/ AdminCall
    \/ RotationCall
    \/ OverrideCall
    \/ VaultCall
    \/ DonationCall
    \/ Tick

Spec == Init /\ [][Next]_vars

-----------------------------------------------------------------------------
(* Type correctness.  total_staked is signed: a vault loss is marked down  *)
(* pool-wide while the records keep their amounts.                         *)

TypeOK ==
    /\ admin \in Addresses /\ oracle \in Addresses /\ co_signer \in Addresses
    /\ oracle_pubkey \in Pubkeys
    /\ pool_cap \in Nat /\ paused \in BOOLEAN
    /\ total_staked \in Int /\ total_allocated \in Int /\ total_stakers \in Nat
    /\ daily_outflow \in [day : Nat, amount : Nat]
    /\ daily_entitlement \in [day : Nat, total : Nat, count : Nat]
    /\ stakes \in [Wallets -> StakeRecord]
    /\ points_balance \in [Wallets -> Nat]
    /\ claims \in [ClaimIds -> Claim]
    /\ overrides \in [ClaimIds -> OverrideRequest \cup {None}]
    /\ revoked \in [Payloads -> Nat]
    /\ vault \in Vaults \cup {None} /\ treasury \in Vaults \cup {None}
    /\ deploy_bps \in 0..MAX_DEPLOY_BPS
    /\ deployed_shares \in Nat /\ deployed_xlm \in Nat /\ extracted_yield \in Nat
    /\ liquid \in Nat
    /\ ledger \in Nat /\ timestamp \in Nat
=============================================================================
