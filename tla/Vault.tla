-------------------------------- MODULE Vault --------------------------------
(***************************************************************************)
(* vault.rs: principal deployed into a third-party yield vault.  The vault *)
(* itself is external: a deposit mints, and a redemption returns, whatever *)
(* the environment chooses from MintedShares and RedeemedXlm.  That is all *)
(* the contract learns, since it measures both by the change of a balance. *)
(***************************************************************************)
EXTENDS Storage

CONSTANTS MintedShares, RedeemedXlm

\* Bounds on what the vault gains and loses for the pool over a behaviour.
CONSTANTS MaxShares, MaxLiquid, MaxExtracted, MaxDeficit

ASSUME VaultAssumption ==
    /\ MintedShares \subseteq Nat /\ RedeemedXlm \subseteq Nat
    /\ {MaxShares, MaxLiquid, MaxExtracted, MaxDeficit} \subseteq Nat

-----------------------------------------------------------------------------
\* Mutant: reserved claims not subtracted.
yield_balance_unreserved == MaxOf(0, liquid + deployed_xlm - total_staked)
yield_balance == MaxOf(0, liquid + deployed_xlm - (total_staked + total_allocated))

\* Mutant: the hard cap instead of the configured share.
deploy_ceiling_hard == Bps(total_staked, MAX_DEPLOY_BPS)
deploy_ceiling == Bps(total_staked, deploy_bps)

within_vault_bounds ==
    liquid' <= MaxLiquid /\ extracted_yield' <= MaxExtracted /\ total_staked' >= -MaxDeficit

unchanged_by_vault ==
    UNCHANGED <<roles, config, total_allocated, total_stakers, daily, stakes,
                points_balance, claims, overrides, revoked, clock>>

-----------------------------------------------------------------------------
set_vault(address) ==
    /\ deployed_shares <= 0
    /\ vault' = address
    /\ UNCHANGED <<total_staked, treasury, deploy_bps, deployed_shares, deployed_xlm,
                   extracted_yield, liquid>> /\ unchanged_by_vault

set_treasury(address) ==
    /\ treasury' = address
    /\ UNCHANGED <<total_staked, vault, deploy_bps, deployed_shares, deployed_xlm,
                   extracted_yield, liquid>> /\ unchanged_by_vault

set_deploy_bps(bps) ==
    /\ 0 <= bps /\ bps <= MAX_DEPLOY_BPS
    /\ deploy_bps' = bps
    /\ UNCHANGED <<total_staked, vault, treasury, deployed_shares, deployed_xlm,
                   extracted_yield, liquid>> /\ unchanged_by_vault

-----------------------------------------------------------------------------
(* Into the vault.                                                         *)

\* The vault takes exactly `amount`, which the token refuses to overdraw, and
\* mints some shares for it.
deposit(amount, min_shares_out) ==
    /\ amount <= liquid
    /\ \E shares_gained \in MintedShares :
            /\ shares_gained >= min_shares_out
            /\ deployed_shares' = deployed_shares + shares_gained
            /\ deployed_shares' <= MaxShares
    /\ deployed_xlm' = deployed_xlm + amount
    /\ liquid' = liquid - amount
    /\ UNCHANGED <<total_staked, vault, treasury, deploy_bps, extracted_yield>>
    /\ unchanged_by_vault

deploy_to_vault(amount, min_shares_out) ==
    /\ ~paused
    /\ amount > 0
    /\ vault # None
    /\ liquid >= amount
    /\ deployed_xlm + amount <= deploy_ceiling
    /\ liquid - amount >= total_allocated
    /\ deposit(amount, min_shares_out)

\* Mutant: the current position not counted.
deploy_room_gross == MaxOf(deploy_ceiling, 0)
deploy_room == MaxOf(deploy_ceiling - deployed_xlm, 0)

\* A call with nothing to move succeeds without effect and is no step.
auto_deploy_liquidity ==
    LET idle == MaxOf(liquid - total_allocated, 0)
        amount == MinOf(idle, deploy_room)
    IN  /\ ~paused
        /\ deployed_shares > 0 /\ deployed_xlm > 0
        /\ amount > 0
        /\ vault # None
        /\ liquid - amount >= total_allocated
        /\ deposit(amount, slippage_floor(pro_rata(amount, deployed_shares, deployed_xlm)))

-----------------------------------------------------------------------------
(* Out of the vault.                                                       *)

principal_equiv(shares) == pro_rata(deployed_xlm, shares, deployed_shares)

redeemable(shares) == shares > 0 /\ shares <= deployed_shares

\* Mutant: a loss only logged.
shortfall_logged(principal, received) == 0
shortfall(principal, received) == MaxOf(principal - received, 0)

\* Redeem `shares` for `received` and send `to_treasury` of it on.  A loss of
\* principal is marked down in total_staked.
redeem(shares, received, min_xlm_out, to_treasury) ==
    /\ vault # None
    /\ redeemable(shares)
    /\ received >= min_xlm_out
    /\ deployed_shares' = deployed_shares - shares
    /\ deployed_xlm' = deployed_xlm - principal_equiv(shares)
    /\ total_staked' = total_staked - shortfall(principal_equiv(shares), received)
    /\ liquid' = liquid + received - to_treasury
    /\ extracted_yield' = extracted_yield + to_treasury
    /\ within_vault_bounds
    /\ UNCHANGED <<vault, treasury, deploy_bps>>
    /\ unchanged_by_vault

provide_liquidity(shares, min_xlm_out) ==
    /\ shares > 0 /\ deployed_shares > 0
    /\ \E received \in RedeemedXlm : redeem(shares, received, min_xlm_out, 0)

\* The shortfall against reserved claims or the drift above the ceiling,
\* whichever is larger.
liquidity_shortfall ==
    MaxOf(MaxOf(total_allocated - liquid, 0), MaxOf(deployed_xlm - deploy_ceiling, 0))

\* Mutant: the whole position.
shares_needed_all == deployed_shares

shares_needed ==
    MinOf(pro_rata(liquidity_shortfall, deployed_shares, deployed_xlm), deployed_shares)

ensure_liquidity ==
    /\ liquidity_shortfall > 0
    /\ deployed_shares > 0 /\ deployed_xlm > 0
    /\ \E received \in RedeemedXlm :
            redeem(shares_needed, received, slippage_floor(principal_equiv(shares_needed)), 0)

extract_yield(shares, min_xlm_out) ==
    /\ treasury # None
    /\ shares > 0 /\ deployed_shares > 0
    /\ \E received \in RedeemedXlm :
            redeem(shares, received, min_xlm_out, MaxOf(received - principal_equiv(shares), 0))

withdraw_yield(amount) ==
    /\ amount > 0
    /\ treasury # None
    /\ amount <= yield_balance
    /\ amount <= liquid
    /\ extracted_yield' = extracted_yield + amount
    /\ liquid' = liquid - amount
    /\ extracted_yield' <= MaxExtracted
    /\ UNCHANGED <<total_staked, vault, treasury, deploy_bps, deployed_shares,
                   deployed_xlm>> /\ unchanged_by_vault

-----------------------------------------------------------------------------
\* XLM sent to the contract outside any of its calls: the token's balance is
\* all that changes.
donate(amount) ==
    /\ liquid' = liquid + amount
    /\ liquid' <= MaxLiquid
    /\ UNCHANGED <<total_staked, yield>> /\ unchanged_by_vault
=============================================================================
