--------------------------- MODULE AccountingProofs ---------------------------
(***************************************************************************)
(* Theorems about the pool's books: what total_allocated, total_staked and *)
(* the pool's holdings are worth against the sums, over all claims and all *)
(* stakes, that they stand for.                                            *)
(*                                                                         *)
(* No variable holds those sums, so a step is first reduced to the one     *)
(* claim or record it moves (StepMoves) and then, by SumUpdate, to the one *)
(* term of the sum it changes.                                             *)
(***************************************************************************)
EXTENDS RefinementProofs

USE DEF roles, config, totals, daily, yield, clock

-----------------------------------------------------------------------------
(* Sums.                                                                   *)

\* Finitely many wallets and transactions make finitely many claims.
LEMMA FiniteClaims == IsFiniteSet(ClaimIds) /\ IsFiniteSet(Wallets)
BY FinitenessAssumption, FS_Product DEF ClaimIds

\* The principal behind the claims that are streaming: forfeited by the
\* stakers, and given back if the claim is cancelled.
Forfeited(id) == IF claims[id].status = "Active" THEN claims[id].stake ELSE 0
TotalForfeited == SumFunction([id \in ClaimIds |-> Forfeited(id)])

\* The terms of the four sums.
TypedTerms ==
    /\ [id \in ClaimIds |-> Outstanding(id)] \in [ClaimIds -> Nat]
    /\ [id \in ClaimIds |-> claims[id].streamed] \in [ClaimIds -> Nat]
    /\ [id \in ClaimIds |-> Forfeited(id)] \in [ClaimIds -> Nat]
    /\ [w \in Wallets |-> Held(w)] \in [Wallets -> Nat]

\* In a typed state the terms are natural numbers.
LEMMA TermTypes == TypeOK => TypedTerms
<1> SUFFICES ASSUME TypeOK PROVE TypedTerms
    OBVIOUS
<1>1. ASSUME NEW id \in ClaimIds
      PROVE  Outstanding(id) \in Nat /\ claims[id].streamed \in Nat /\ Forfeited(id) \in Nat
    <2>1. claims[id] \in Claim
        BY DEF TypeOK
    <2>2. claims[id].entitlement \in Nat /\ claims[id].streamed \in Nat /\ claims[id].stake \in Nat
        BY <2>1 DEF Claim
    <2> QED
        BY <2>2 DEF Outstanding, unstreamed, MaxOf, Forfeited
<1>2. ASSUME NEW w \in Wallets PROVE Held(w) \in Nat
    BY DEF TypeOK, StakeRecord, Held
<1> QED
    BY <1>1, <1>2 DEF TypedTerms

\* The same after a step.
LEMMA TermTypesNext == TypeOK' => TypedTerms'
BY TermTypes, PTL

\* The four sums are natural numbers.
LEMMA TotalsNat ==
    ASSUME TypeOK
    PROVE  TotalOutstanding \in Nat /\ TotalStreamed \in Nat /\ TotalForfeited \in Nat
           /\ TotalHeld \in Nat
BY TermTypes, FiniteClaims, SumNat DEF TypedTerms, TotalOutstanding, TotalStreamed, TotalForfeited, TotalHeld

\* A step that writes one claim moves each sum by that claim's term.
LEMMA OneClaim ==
    ASSUME TypeOK, TypeOK', NEW id \in ClaimIds,
           \A i \in ClaimIds : i # id => claims'[i] = claims[i]
    PROVE  /\ TotalOutstanding' = TotalOutstanding + Outstanding(id)' - Outstanding(id)
           /\ TotalStreamed' = TotalStreamed + claims'[id].streamed - claims[id].streamed
           /\ TotalForfeited' = TotalForfeited + Forfeited(id)' - Forfeited(id)
<1> DEFINE out == [i \in ClaimIds |-> Outstanding(i)]
           str == [i \in ClaimIds |-> claims[i].streamed]
           forf == [i \in ClaimIds |-> Forfeited(i)]
<1>1. /\ out \in [ClaimIds -> Int] /\ out' \in [ClaimIds -> Int]
      /\ str \in [ClaimIds -> Int] /\ str' \in [ClaimIds -> Int]
      /\ forf \in [ClaimIds -> Int] /\ forf' \in [ClaimIds -> Int]
    BY TermTypes, TermTypesNext DEF TypedTerms
<1>2. \A i \in ClaimIds : i # id =>
        Outstanding(i)' = Outstanding(i) /\ Forfeited(i)' = Forfeited(i)
    BY DEF Outstanding, Forfeited, unstreamed
<1>3. \A i \in ClaimIds : i # id =>
        out'[i] = out[i] /\ str'[i] = str[i] /\ forf'[i] = forf[i]
    BY <1>2
<1>4. /\ out'[id] = Outstanding(id)' /\ out[id] = Outstanding(id)
      /\ str'[id] = claims'[id].streamed /\ str[id] = claims[id].streamed
      /\ forf'[id] = Forfeited(id)' /\ forf[id] = Forfeited(id)
    OBVIOUS
<1>5. /\ TotalOutstanding = SumFunction(out) /\ TotalOutstanding' = SumFunction(out')
      /\ TotalStreamed = SumFunction(str) /\ TotalStreamed' = SumFunction(str')
      /\ TotalForfeited = SumFunction(forf) /\ TotalForfeited' = SumFunction(forf')
    BY DEF TotalOutstanding, TotalStreamed, TotalForfeited
<1> HIDE DEF out, str, forf
<1>6. SumFunction(out') = SumFunction(out) + out'[id] - out[id]
    BY <1>1, <1>3, FiniteClaims, SumUpdate
<1>7. SumFunction(str') = SumFunction(str) + str'[id] - str[id]
    BY <1>1, <1>3, FiniteClaims, SumUpdate
<1>8. SumFunction(forf') = SumFunction(forf) + forf'[id] - forf[id]
    BY <1>1, <1>3, FiniteClaims, SumUpdate
<1> QED
    BY <1>4, <1>5, <1>6, <1>7, <1>8

\* The terms of a claim that money depends on; what an unsuspension moves is
\* not among them.
SameTerms(i) ==
    /\ claims'[i].status = claims[i].status
    /\ claims'[i].entitlement = claims[i].entitlement
    /\ claims'[i].streamed = claims[i].streamed
    /\ claims'[i].stake = claims[i].stake
    /\ claims'[i].cooldown_ends_ledger = claims[i].cooldown_ends_ledger
    /\ claims'[i].vesting_ends_ledger = claims[i].vesting_ends_ledger

\* A step that moves none of them moves no sum over the claims.
LEMMA NoClaim ==
    ASSUME \A i \in ClaimIds : SameTerms(i)
    PROVE  /\ TotalOutstanding' = TotalOutstanding /\ TotalStreamed' = TotalStreamed
           /\ TotalForfeited' = TotalForfeited
<1>1. \A i \in ClaimIds : /\ Outstanding(i)' = Outstanding(i) /\ Forfeited(i)' = Forfeited(i)
                          /\ claims'[i].streamed = claims[i].streamed
    BY DEF SameTerms, Outstanding, Forfeited, unstreamed
<1>2. [i \in ClaimIds |-> Outstanding(i)]' = [i \in ClaimIds |-> Outstanding(i)]
    BY <1>1
<1>3. [i \in ClaimIds |-> claims[i].streamed]' = [i \in ClaimIds |-> claims[i].streamed]
    BY <1>1
<1>4. [i \in ClaimIds |-> Forfeited(i)]' = [i \in ClaimIds |-> Forfeited(i)]
    BY <1>1
<1> QED
    BY <1>2, <1>3, <1>4 DEF TotalOutstanding, TotalStreamed, TotalForfeited

-----------------------------------------------------------------------------
(* What a claim may look like: nothing has been paid on one that is not    *)
(* approved yet, and a streaming one vests over the whole period.  Unlike  *)
(* TermsInv this speaks of the claim alone and needs no assumption on when *)
(* wallets stake again.                                                    *)

\* A claim not yet approved has been paid nothing, and a streaming one vests
\* over the full period.
PaidOK(claim) ==
    /\ claim.status \in {"Unused", "Reserved", "PendingTime", "AwaitingApproval"} =>
          claim.streamed = 0
    /\ claim.status = "Active" =>
          claim.vesting_ends_ledger = claim.cooldown_ends_ledger + VESTING_LEDGERS

\* Every claim is paid on these terms.
PaidInv == \A id \in ClaimIds : PaidOK(claims[id])

\* No claim but this one changes.
Only(id) == \A i \in ClaimIds : i # id => claims'[i] = claims[i]

-----------------------------------------------------------------------------
(* The moves of one claim, as the totals see them.                         *)

\* Queued, admitted, or admitted from the queue.
Opens(id) ==
    /\ claims[id].status \in {"Unused", "Reserved"}
    /\ claims'[id].status \in {"Reserved", "PendingTime", "AwaitingApproval"}
    /\ claims'[id].streamed = 0
    /\ total_allocated' = total_allocated
         + (IF claims'[id].status = "Reserved" THEN 0 ELSE claims'[id].entitlement)
    /\ UNCHANGED <<total_staked, liquid>>

\* Past the time gate.
Matures(id) ==
    /\ claims[id].status = "PendingTime" /\ claims'[id].status = "AwaitingApproval"
    /\ claims'[id].entitlement = claims[id].entitlement
    /\ claims'[id].streamed = claims[id].streamed
    /\ UNCHANGED <<total_allocated, total_staked, liquid>>

\* The clocks of an activation.
Clocked(claim) ==
    /\ claim.status = "Active"
    /\ claim.cooldown_ends_ledger = ledger + COOLDOWN_LEDGERS
    /\ claim.vesting_ends_ledger = claim.cooldown_ends_ledger + VESTING_LEDGERS

\* Approved by the staker, whose record's amount leaves the total.
Starts(id) ==
    /\ claims[id].status = "AwaitingApproval" /\ Clocked(claims'[id])
    /\ claims'[id].entitlement = claims[id].entitlement
    /\ claims'[id].streamed = claims[id].streamed
    /\ claims'[id].stake = stakes[id[1]].amount
    /\ total_staked' = total_staked - stakes[id[1]].amount
    /\ UNCHANGED <<total_allocated, liquid>>

\* Paid, within what has vested.
Pays(id) ==
    LET amount == claims'[id].streamed - claims[id].streamed
    IN  /\ claims[id].status = "Active" /\ claims[id].streamed < claims[id].entitlement
        /\ amount > 0 /\ amount <= claimable(claims[id])
        /\ claims'[id].status = IF claims'[id].streamed >= claims[id].entitlement
                               THEN "Completed" ELSE "Active"
        /\ claims'[id].entitlement = claims[id].entitlement
        /\ claims'[id].stake = claims[id].stake
        /\ claims'[id].cooldown_ends_ledger = claims[id].cooldown_ends_ledger
        /\ claims'[id].vesting_ends_ledger = claims[id].vesting_ends_ledger
        /\ total_allocated' = total_allocated - amount
        /\ liquid' = liquid - amount
        /\ UNCHANGED total_staked

\* Swept or cancelled.
Ends(id) ==
    /\ claims[id].status \in Open /\ claims'[id].status \in {"Expired", "Cancelled"}
    /\ claims'[id].entitlement = claims[id].entitlement
    /\ claims'[id].streamed = claims[id].streamed
    /\ claims'[id].cooldown_ends_ledger = claims[id].cooldown_ends_ledger
    /\ claims'[id].vesting_ends_ledger = claims[id].vesting_ends_ledger
    /\ total_allocated' = total_allocated
         - (IF claims[id].status = "Reserved" THEN 0 ELSE unstreamed(claims[id]))
    /\ total_staked' = total_staked
         + (IF claims[id].status = "Active" /\ claims'[id].status = "Cancelled"
            THEN claims[id].stake ELSE 0)
    /\ claims'[id].status = "Cancelled" /\ claims[id].status = "Active" =>
          "cancel_claim" \in Calls
    /\ UNCHANGED liquid

\* Activated by an override.
Corrects(id) ==
    /\ "override" \in Calls
    /\ Clocked(claims'[id]) /\ claims'[id].entitlement \in Nat
    /\ claims'[id].streamed = carried_streamed(claims[id])
    /\ total_allocated' = total_allocated - released_by_override(claims[id])
                            + claims'[id].entitlement

\* One claim moves.
ClaimMoves(id) ==
    /\ Only(id)
    /\ \/ Opens(id) \/ Matures(id) \/ Starts(id) \/ Pays(id) \/ Ends(id)
       \/ Corrects(id)
    /\ UNCHANGED <<deployed_xlm, extracted_yield>>

\* What the pool controls beyond total_staked, without and with what it has
\* paid its treasury.
Net == liquid + deployed_xlm - total_staked
Backing == Net + extracted_yield

\* No principal leaves: what total_staked loses it loses with the holdings.
FundsRest ==
    /\ Backing' >= Backing
    /\ VaultCall \/ extracted_yield' = extracted_yield

\* No claim moves.
ClaimsRest == total_allocated' = total_allocated /\ \A i \in ClaimIds : SameTerms(i)

\* A submission, and a release from the queue.
LEMMA AdmitMoves ==
    ASSUME TypeOK, NEW id \in ClaimIds, NEW e \in Nat, NEW tier, NEW h, NEW counted,
           claims[id].status \in {"Unused", "Reserved"}, admit_claim(id, e, tier, h, counted)
    PROVE  ClaimMoves(id)
<1>1. /\ Only(id)
      /\ claims'[id].status \in {"PendingTime", "AwaitingApproval"}
      /\ claims'[id].entitlement = e /\ claims'[id].streamed = 0
    BY DEF admit_claim, new_claim, TypeOK, Only
<1> QED
    BY <1>1 DEF admit_claim, ClaimMoves, Opens

\* A submission opens its own claim (submit_claim, admin_submit_claim).
LEMMA SubmitMoves ==
    ASSUME TypeOK, NEW caller, NEW v \in Verdicts, NEW d, NEW k, submit_claim(caller, v, d, k)
    PROVE  \E id \in ClaimIds : ClaimMoves(id)
<1> DEFINE id == compute_claim_id(v)
<1>1. id \in ClaimIds /\ v.entitlement \in Nat
    BY VerdictFields
<1>2. claims[id].status = "Unused"
    BY DEF submit_claim, submit_claim_queued, submit_claim_admitted, submit_checks
<1>3. CASE submit_claim_admitted(caller, v, d, k)
    BY <1>1, <1>2, <1>3, AdmitMoves DEF submit_claim_admitted
<1>4. CASE submit_claim_queued(caller, v, d, k)
    <2>1. /\ Only(id) /\ claims'[id].status = "Reserved"
          /\ claims'[id].entitlement = v.entitlement /\ claims'[id].streamed = 0
        BY <1>1, <1>4 DEF submit_claim_queued, new_claim, TypeOK, Only
    <2>2. total_allocated \in Int
        BY DEF TypeOK
    <2> HIDE DEF id
    <2>3. Opens(id)
        BY <1>1, <1>2, <1>4, <2>1, <2>2 DEF submit_claim_queued, Opens
    <2> QED
        BY <1>1, <1>4, <2>1, <2>3 DEF submit_claim_queued, ClaimMoves
<1> QED
    BY <1>3, <1>4 DEF submit_claim

\* A payout.
LEMMA StreamMoves ==
    ASSUME TypeOK, NEW id \in ClaimIds, NEW b, claim_stream(id, b)
    PROVE  ClaimMoves(id)
<1> DEFINE c == claims[id]
           amount == MinOf(claimable(c), available_today(c))
<1>1. c \in Claim
    BY DEF TypeOK
<1>2. amount \in Int /\ amount <= claimable(c)
    BY StreamFigures DEF MinOf
<1>3. amount > 0
    BY DEF claim_stream, may_transfer
<1>4. /\ c.status = "Active" /\ c.streamed < c.entitlement
      /\ total_allocated' = total_allocated - amount /\ liquid' = liquid - amount
      /\ UNCHANGED <<total_staked, deployed_xlm, extracted_yield>>
    BY DEF claim_stream
<1>5. /\ Only(id) /\ claims'[id].streamed = c.streamed + amount
      /\ claims'[id].status = IF c.streamed + amount >= c.entitlement
                              THEN "Completed" ELSE "Active"
      /\ claims'[id].entitlement = c.entitlement /\ claims'[id].stake = c.stake
      /\ claims'[id].cooldown_ends_ledger = c.cooldown_ends_ledger
      /\ claims'[id].vesting_ends_ledger = c.vesting_ends_ledger
    BY <1>1, <1>4 DEF claim_stream, TypeOK, Claim, Only
<1>6. c.streamed \in Nat
    BY <1>1 DEF Claim
<1>7. claims'[id].streamed - c.streamed = amount
    BY <1>2, <1>5, <1>6
<1> HIDE DEF amount
<1> QED
    BY <1>2, <1>3, <1>4, <1>5, <1>7 DEF ClaimMoves, Pays

\* The sweeps, the staker's approval and the admin's cancellation.
LEMMA ClaimStepMoves ==
    ASSUME TypeOK, PaidInv, NEW id \in ClaimIds,
           \/ try_release_queued_claim(id) \/ expire_queued_claim(id)
           \/ unlock_pending_claim(id) \/ approve_claim(id)
           \/ expire_pending_approval(id) \/ expire_stale_claim(id)
           \/ "cancel_claim" \in Calls /\ cancel_claim(id)
    PROVE  ClaimMoves(id)
<1>1. id[1] \in Wallets /\ stakes[id[1]] \in StakeRecord /\ claims[id] \in Claim
    BY ClaimIdWallet DEF TypeOK
<1>2. /\ claims[id].entitlement \in Nat /\ claims[id].streamed \in Nat /\ claims[id].stake \in Nat
      /\ total_allocated \in Int /\ total_staked \in Int
    BY <1>1 DEF Claim, TypeOK
<1>3. CASE try_release_queued_claim(id)
    BY <1>2, <1>3, AdmitMoves DEF try_release_queued_claim
<1>4. CASE expire_queued_claim(id)
    <2>1. /\ Only(id) /\ claims[id].status = "Reserved" /\ claims'[id].status = "Expired"
          /\ claims'[id].entitlement = claims[id].entitlement
          /\ claims'[id].streamed = claims[id].streamed
          /\ claims'[id].cooldown_ends_ledger = claims[id].cooldown_ends_ledger
          /\ claims'[id].vesting_ends_ledger = claims[id].vesting_ends_ledger
        BY <1>1, <1>4 DEF expire_queued_claim, TypeOK, Claim, Only
    <2>2. Ends(id)
        BY <1>2, <1>4, <2>1 DEF expire_queued_claim, Ends, Open
    <2> QED
        BY <1>4, <2>1, <2>2 DEF expire_queued_claim, ClaimMoves
<1>5. CASE unlock_pending_claim(id)
    <2>1. /\ Only(id)
          /\ claims[id].status = "PendingTime" /\ claims'[id].status = "AwaitingApproval"
          /\ claims'[id].entitlement = claims[id].entitlement
          /\ claims'[id].streamed = claims[id].streamed
        BY <1>1, <1>5 DEF unlock_pending_claim, TypeOK, Claim, Only
    <2> QED
        BY <1>5, <2>1 DEF unlock_pending_claim, ClaimMoves, Matures
<1>6. CASE approve_claim(id)
    <2>1. /\ Only(id)
          /\ claims[id].status = "AwaitingApproval"
          /\ claims'[id] = [start_clocks(claims[id], total_staked) EXCEPT
                              !.stake = stakes[id[1]].amount]
          /\ total_staked' = total_staked - stakes[id[1]].amount
        BY <1>6 DEF approve_claim, activate_claim, TypeOK, Only
    <2>2. /\ Clocked(claims'[id]) /\ claims'[id].stake = stakes[id[1]].amount
          /\ claims'[id].entitlement = claims[id].entitlement
          /\ claims'[id].streamed = claims[id].streamed
        BY <1>1, <2>1 DEF start_clocks, Claim, Clocked
    <2> QED
        BY <1>6, <2>1, <2>2 DEF approve_claim, ClaimMoves, Starts
<1>7. CASE expire_pending_approval(id) \/ expire_stale_claim(id)
    <2>1. /\ Only(id) /\ claims'[id].status = "Expired"
          /\ claims[id].status \in {"AwaitingApproval", "Active"}
          /\ claims'[id].entitlement = claims[id].entitlement
          /\ claims'[id].streamed = claims[id].streamed
          /\ claims'[id].cooldown_ends_ledger = claims[id].cooldown_ends_ledger
          /\ claims'[id].vesting_ends_ledger = claims[id].vesting_ends_ledger
        BY <1>1, <1>7 DEF expire_pending_approval, expire_stale_claim, release_claim, TypeOK,
           Claim, Only
    <2>2. claims[id].status = "AwaitingApproval" => claims[id].streamed = 0
        BY DEF PaidInv, PaidOK
    <2>3. total_allocated' = total_allocated - unstreamed(claims[id])
        BY <1>2, <1>7, <2>2 DEF expire_pending_approval, expire_stale_claim, release_claim,
           unstreamed
    <2>4. Ends(id)
        BY <1>2, <1>7, <2>1, <2>3 DEF expire_pending_approval, expire_stale_claim, Ends, Open, Live
    <2> QED
        BY <1>7, <2>1, <2>4 DEF expire_pending_approval, expire_stale_claim, ClaimMoves
<1>8. CASE "cancel_claim" \in Calls /\ cancel_claim(id)
    <2>1. /\ Only(id) /\ claims'[id].status = "Cancelled"
          /\ claims[id].status \in Live
          /\ claims'[id].entitlement = claims[id].entitlement
          /\ claims'[id].streamed = claims[id].streamed
          /\ claims'[id].cooldown_ends_ledger = claims[id].cooldown_ends_ledger
          /\ claims'[id].vesting_ends_ledger = claims[id].vesting_ends_ledger
        BY <1>1, <1>8 DEF cancel_claim, cancel_active, cancel_unforfeited, release_claim,
           TypeOK, Claim, Only, Live
    <2>2. /\ total_allocated' = total_allocated - unstreamed(claims[id])
          /\ UNCHANGED <<liquid, deployed_xlm, extracted_yield>>
        BY <1>8 DEF cancel_claim, release_claim
    <2>3. total_staked' = total_staked
             + (IF claims[id].status = "Active" THEN claims[id].stake ELSE 0)
        BY <1>2, <1>8 DEF cancel_claim, cancel_active, cancel_unforfeited
    <2>4. Ends(id)
        BY <1>8, <2>1, <2>2, <2>3 DEF Ends, Open, Live
    <2> QED
        BY <2>1, <2>2, <2>4 DEF ClaimMoves
<1> QED
    BY <1>3, <1>4, <1>5, <1>6, <1>7, <1>8

\* An override.
LEMMA ExecuteMoves ==
    ASSUME TypeOK, "override" \in Calls, NEW id \in ClaimIds, NEW req \in OverrideRequest,
           execute_override(id, req), UNCHANGED <<deployed_xlm, extracted_yield>>
    PROVE  ClaimMoves(id)
<1>1. req.entitlement \in Nat
    BY DEF OverrideRequest
<1>2. total_allocated' = total_allocated - released_by_override(claims[id]) + req.entitlement
    BY DEF execute_override
<1>3. /\ Only(id) /\ Clocked(claims'[id]) /\ claims'[id].entitlement = req.entitlement
      /\ claims'[id].streamed = carried_streamed(claims[id])
    <2>1. CASE stakes[id[1]].withdrawn
        <3>1. claims' = [claims EXCEPT ![id] = start_clocks(override_claim(id, req), total_staked)]
            BY <2>1 DEF execute_override
        <3> QED
            BY <3>1 DEF start_clocks, override_claim, new_claim, TypeOK, Only, Clocked
    <2>2. CASE ~stakes[id[1]].withdrawn
        <3>1. activate_claim(id, override_record(id), override_claim(id, req))
            BY <2>2 DEF execute_override
        <3> QED
            BY <3>1 DEF activate_claim, start_clocks, override_claim, new_claim, TypeOK, Only,
               Clocked
    <2> QED
        BY <2>1, <2>2
<1> QED
    BY <1>1, <1>2, <1>3 DEF ClaimMoves, Corrects

\* A redemption at any price.
LEMMA RedeemFunds ==
    ASSUME TypeOK, NEW shares \in Nat, NEW received \in Nat, NEW out,
           NEW to_treasury \in Nat, redeem(shares, received, out, to_treasury)
    PROVE  Backing' >= Backing
<1> DEFINE pe == principal_equiv(shares)
<1>1. pe \in Nat
    BY PrincipalEquivBounded DEF redeem
<1>2. /\ deployed_xlm' = deployed_xlm - pe
      /\ total_staked' = total_staked - shortfall(pe, received)
      /\ liquid' = liquid + received - to_treasury
      /\ extracted_yield' = extracted_yield + to_treasury
    BY DEF redeem
<1>3. shortfall(pe, received) = MaxOf(pe - received, 0)
    BY DEF shortfall
<1> HIDE DEF pe
<1> QED
    BY <1>1, <1>2, <1>3 DEF Backing, Net, TypeOK, MaxOf

\* Every vault call, the treasury's share counted.
LEMMA VaultFunds == ASSUME TypeOK, VaultCall PROVE Backing' >= Backing
<1>1. Backing \in Int
    BY DEF Backing, Net, TypeOK
<1>2. ASSUME NEW a \in Vaults, set_vault(a) \/ set_treasury(a) PROVE Backing' = Backing
    BY <1>2 DEF set_vault, set_treasury, Backing, Net
<1>3. ASSUME NEW b \in DeployBpsValues, set_deploy_bps(b) PROVE Backing' = Backing
    BY <1>3 DEF set_deploy_bps, Backing, Net
<1>4. ASSUME NEW a \in Nat, NEW m, deposit(a, m) PROVE Backing' = Backing
    BY <1>4 DEF deposit, Backing, Net, TypeOK
<1>5. ASSUME NEW a \in DeployAmounts, NEW m \in MinOuts, deploy_to_vault(a, m)
      PROVE  Backing' = Backing
    BY <1>4, <1>5, CallInputsAssumption DEF deploy_to_vault
<1>6. CASE auto_deploy_liquidity
    <2> DEFINE amount == MinOf(MaxOf(liquid - total_allocated, 0), deploy_room)
    <2>1. amount \in Nat
        BY KeeperFigures DEF TypeOK, MinOf, MaxOf
    <2> QED
        BY <1>1, <1>4, <1>6, <2>1 DEF auto_deploy_liquidity
<1>7. CASE ensure_liquidity
    <2>1. shares_needed \in Nat
        BY <1>7, KeeperFigures DEF ensure_liquidity
    <2>2. PICK received \in RedeemedXlm :
             redeem(shares_needed, received, slippage_floor(principal_equiv(shares_needed)), 0)
        BY <1>7 DEF ensure_liquidity
    <2> QED
        BY <2>1, <2>2, RedeemFunds, VaultAssumption
<1>8. ASSUME NEW s \in ShareAmounts, NEW m \in MinOuts, provide_liquidity(s, m)
      PROVE  Backing' >= Backing
    BY <1>8, RedeemFunds, VaultAssumption, CallInputsAssumption DEF provide_liquidity
<1>9. ASSUME NEW s \in ShareAmounts, NEW m \in MinOuts, extract_yield(s, m)
      PROVE  Backing' >= Backing
    <2>1. s \in Nat
        BY CallInputsAssumption
    <2>2. PICK received \in RedeemedXlm :
             redeem(s, received, m, MaxOf(received - principal_equiv(s), 0))
        BY <1>9 DEF extract_yield
    <2>3. received \in Nat /\ principal_equiv(s) \in Nat
        BY <2>1, <2>2, VaultAssumption, PrincipalEquivBounded DEF redeem
    <2>4. MaxOf(received - principal_equiv(s), 0) \in Nat
        BY <2>3 DEF MaxOf
    <2> QED
        BY <2>1, <2>2, <2>3, <2>4, RedeemFunds
<1>10. ASSUME NEW a \in YieldAmounts, withdraw_yield(a) PROVE Backing' = Backing
    BY <1>10, CallInputsAssumption DEF withdraw_yield, Backing, Net, TypeOK
<1> QED
    BY <1>1, <1>2, <1>3, <1>5, <1>6, <1>7, <1>8, <1>9, <1>10 DEF VaultCall

\* Neither the holdings nor the total move.
LEMMA FundsKept ==
    ASSUME TypeOK, UNCHANGED <<liquid, deployed_xlm, extracted_yield, total_staked>>
    PROVE  FundsRest
BY DEF FundsRest, Backing, Net, TypeOK

\* The calls that leave the claims alone leave their terms and the reservations
\* alone.
LEMMA RestMoves ==
    ASSUME TypeOK,
           \/ \E w \in Wallets, a \in StakeAmounts, b \in Beneficiaries : stake(w, a, b)
           \/ \E w \in Wallets, b \in Beneficiaries : set_beneficiary(w, b) \/ withdraw(w, b)
           \/ \E w \in Wallets : emergency_exit(w) \/ suspend_stake(w)
           \/ \E v \in Verdicts, d \in Deadlines : revoke_approval(v, d)
           \/ pause \/ unpause
           \/ \E c \in PoolCaps : set_pool_cap(c)
           \/ RotationCall \/ VaultCall \/ DonationCall \/ Tick \/ UNCHANGED vars
    PROVE  ClaimsRest /\ FundsRest
<1>1. claims' = claims
    BY ClaimsUntouched
<1>2. RotationCall => UNCHANGED total_allocated
    BY DEF RotationCall, transfer_admin, set_oracle, set_co_signer, set_oracle_pubkey,
       set_oracle_identity, unchanged_but_roles
<1>3. VaultCall => UNCHANGED total_allocated
    BY DEF VaultCall, set_vault, set_treasury, set_deploy_bps, deploy_to_vault,
       auto_deploy_liquidity, deposit, ensure_liquidity, provide_liquidity, extract_yield,
       redeem, withdraw_yield, unchanged_by_vault
<1>4. UNCHANGED total_allocated
    BY <1>2, <1>3 DEF stake, set_beneficiary, withdraw, emergency_exit, suspend_stake,
       revoke_approval, pause, unpause, set_paused, set_pool_cap, DonationCall, donate,
       unchanged_by_vault, Tick, vars
<1>5. RotationCall => UNCHANGED <<liquid, deployed_xlm, extracted_yield, total_staked>>
    BY DEF RotationCall, transfer_admin, set_oracle, set_co_signer, set_oracle_pubkey,
       set_oracle_identity, unchanged_but_roles
<1>6. ASSUME \/ \E w \in Wallets, b \in Beneficiaries : set_beneficiary(w, b)
             \/ \E w \in Wallets : suspend_stake(w)
             \/ \E v \in Verdicts, d \in Deadlines : revoke_approval(v, d)
             \/ pause \/ unpause
             \/ \E c \in PoolCaps : set_pool_cap(c)
             \/ Tick \/ UNCHANGED vars
      PROVE  UNCHANGED <<liquid, deployed_xlm, extracted_yield, total_staked>>
    BY <1>6 DEF set_beneficiary, suspend_stake, revoke_approval, pause, unpause, set_paused,
       set_pool_cap, Tick, vars
<1>7. DonationCall => FundsRest
    BY CallInputsAssumption DEF DonationCall, donate, FundsRest, Backing, Net, TypeOK
<1>8. VaultCall => FundsRest
    BY VaultFunds DEF FundsRest
<1>9. ASSUME \/ \E w \in Wallets, a \in StakeAmounts, b \in Beneficiaries : stake(w, a, b)
             \/ \E w \in Wallets, b \in Beneficiaries : withdraw(w, b)
             \/ \E w \in Wallets : emergency_exit(w)
      PROVE  FundsRest
    <2>1. ASSUME NEW w \in Wallets, NEW b, withdraw(w, b) \/ emergency_exit(w) PROVE FundsRest
        <3>1. stakes[w].amount \in Nat
            BY DEF TypeOK, StakeRecord
        <3> QED
            BY <2>1, <3>1 DEF withdraw, emergency_exit, close_stake, FundsRest, Backing, Net, TypeOK
    <2>2. ASSUME NEW w \in Wallets, NEW a \in StakeAmounts, NEW b, stake(w, a, b)
          PROVE  FundsRest
        <3>1. a \in Nat
            BY CallInputsAssumption
        <3>2. /\ total_staked' = total_staked + a /\ liquid' = liquid + a
              /\ deployed_xlm' = deployed_xlm /\ extracted_yield' = extracted_yield
            BY <2>2 DEF stake
        <3> QED
            BY <3>1, <3>2 DEF FundsRest, Backing, Net, TypeOK
    <2> QED
        BY <1>9, <2>1, <2>2
<1>10. FundsRest
    BY <1>5, <1>6, <1>7, <1>8, <1>9, FundsKept
<1> QED
    BY <1>1, <1>4, <1>10 DEF ClaimsRest, SameTerms

\* Every step moves one claim or none.
LEMMA StepMoves ==
    ASSUME TypeOK, PaidInv, [Next]_vars
    PROVE  (ClaimsRest /\ FundsRest) \/ \E id \in ClaimIds : ClaimMoves(id)
<1>1. CASE StakerCall
    BY <1>1, RestMoves, ClaimStepMoves, StreamMoves DEF StakerCall
<1>2. CASE OracleCall
    BY <1>2, SubmitMoves DEF OracleCall
<1>3. CASE AnyoneCall
    BY <1>3, ClaimStepMoves DEF AnyoneCall
<1>4. CASE AdminCall
    <2>1. ASSUME NEW w \in Wallets, NEW i, unsuspend_stake(w, i) PROVE ClaimsRest /\ FundsRest
        <3>1. total_allocated' = total_allocated /\ FundsRest
            BY <2>1, FundsKept DEF unsuspend_stake
        <3>2. ASSUME NEW j \in ClaimIds PROVE SameTerms(j)
            <4>1. claims[j] \in Claim
                BY DEF TypeOK
            <4>2. claims'[j] \in {claims[j], restart_clock(claims[j])}
                BY <2>1 DEF unsuspend_stake
            <4> QED
                BY <4>1, <4>2 DEF restart_clock, Claim, SameTerms
        <3> QED
            BY <3>1, <3>2 DEF ClaimsRest
    <2> QED
        BY <1>4, <2>1, RestMoves, SubmitMoves, ClaimStepMoves DEF AdminCall
<1>5. CASE OverrideCall
    <2>1. ASSUME NEW i \in ClaimIds, cancel_pending_override(i) PROVE ClaimsRest /\ FundsRest
        BY <2>1, FundsKept DEF cancel_pending_override, ClaimsRest, SameTerms
    <2>2. ASSUME NEW caller \in {admin, co_signer}, NEW t \in OverrideTerms,
                 approve_override_pending(caller, t)
          PROVE  ClaimsRest /\ FundsRest
        BY <2>2, FundsKept DEF approve_override_pending, ClaimsRest, SameTerms
    <2>3. ASSUME NEW caller \in {admin, co_signer}, NEW t \in OverrideTerms,
                 approve_override_executed(caller, t)
          PROVE  \E id \in ClaimIds : ClaimMoves(id)
        <3> DEFINE tid == compute_claim_id(t)
                   req == approved_by(caller, tid, t)
        <3>1. tid \in ClaimIds /\ t.entitlement \in Nat /\ t.tier \in Tiers
            BY CallInputsAssumption DEF compute_claim_id, ClaimIds
        <3>2. req \in OverrideRequest
            BY <3>1, ApprovedByType
        <3>3. /\ execute_override(tid, req) /\ "override" \in Calls
              /\ UNCHANGED <<deployed_xlm, extracted_yield>>
            BY <1>5, <2>3 DEF approve_override_executed, OverrideCall
        <3> QED
            BY <3>1, <3>2, <3>3, ExecuteMoves
    <2> QED
        BY <1>5, <2>1, <2>2, <2>3 DEF OverrideCall, approve_override
<1>6. CASE RotationCall \/ VaultCall \/ DonationCall \/ Tick \/ UNCHANGED vars
    BY <1>6, RestMoves
<1> QED
    BY <1>1, <1>2, <1>3, <1>4, <1>5, <1>6 DEF Next

-----------------------------------------------------------------------------
(* Reservations.                                                           *)

\* Every step keeps the shape of the claims.
LEMMA PaidStep == TypeOK /\ PaidInv /\ [Next]_vars => PaidInv'
<1> SUFFICES ASSUME TypeOK, PaidInv, [Next]_vars PROVE PaidInv'
    OBVIOUS
<1>1. CASE ClaimsRest
    BY <1>1 DEF ClaimsRest, SameTerms, PaidInv, PaidOK
<1>2. ASSUME NEW id \in ClaimIds, ClaimMoves(id) PROVE PaidInv'
    <2>1. PaidOK(claims[id]) /\ claims[id] \in Claim
        BY DEF PaidInv, TypeOK
    <2>2. Opens(id) \/ Matures(id) \/ Starts(id) \/ Pays(id) => PaidOK(claims'[id])
        BY <2>1 DEF PaidOK, Opens, Matures, Starts, Clocked, Pays
    <2>3. Ends(id) \/ Corrects(id) => PaidOK(claims'[id])
        BY DEF PaidOK, Ends, Corrects, Clocked
    <2> QED
        BY <1>2, <2>2, <2>3 DEF ClaimMoves, Only, PaidInv, PaidOK
<1> QED
    BY <1>1, <1>2, StepMoves

\* At first nobody has been paid.
LEMMA InitPaid == Init => PaidInv
BY DEF Init, UnusedClaim, new_claim, PaidInv, PaidOK

\* A payout stays within what the claim is still owed.
LEMMA PayWithinDue ==
    ASSUME TypeOK, TypeOK', PaidInv, NEW id \in ClaimIds, Pays(id)
    PROVE  claims'[id].streamed <= claims[id].entitlement
<1>1. claimable(claims[id]) <= claims[id].entitlement - claims[id].streamed
    BY ClaimableWithinDue DEF PaidInv, PaidOK, Pays
<1>2. /\ claims[id].entitlement \in Nat /\ claims[id].streamed \in Nat
      /\ claims'[id].streamed \in Nat /\ claimable(claims[id]) \in Int
    BY StreamFigures DEF TypeOK, Claim
<1> QED
    BY <1>1, <1>2 DEF Pays

\* A claim's reservation moves with what it can still be paid: always by as
\* much or in the pool's favour, and exactly while no claim has been paid more
\* than its entitlement and no override interferes.
LEMMA ReservationMoves ==
    ASSUME TypeOK, TypeOK', PaidInv, NEW id \in ClaimIds, ClaimMoves(id)
    PROVE  /\ total_allocated' - total_allocated >= Outstanding(id)' - Outstanding(id)
           /\ "override" \notin Calls /\ claims[id].streamed <= claims[id].entitlement =>
                 total_allocated' - total_allocated = Outstanding(id)' - Outstanding(id)
<1> DEFINE c == claims[id]
           d == claims'[id]
<1>1. /\ c.entitlement \in Nat /\ c.streamed \in Nat
      /\ d.entitlement \in Nat /\ d.streamed \in Nat
      /\ total_allocated \in Int /\ total_allocated' \in Int
    BY DEF TypeOK, Claim
<1>2. PaidOK(c)
    BY DEF PaidInv
<1>3. /\ Outstanding(id) = IF c.status \in Live THEN MaxOf(c.entitlement - c.streamed, 0) ELSE 0
      /\ Outstanding(id)' = IF d.status \in Live THEN MaxOf(d.entitlement - d.streamed, 0) ELSE 0
    BY DEF Outstanding, unstreamed
<1>4. Pays(id) => d.streamed <= c.entitlement
    BY PayWithinDue
<1> HIDE DEF c, d
<1>5. CASE Opens(id)
    BY <1>1, <1>2, <1>3, <1>5 DEF Opens, Live, MaxOf, c, d
<1>6. CASE Matures(id) \/ Starts(id)
    BY <1>1, <1>2, <1>3, <1>6 DEF Matures, Starts, Clocked, Live, MaxOf, c, d
<1>7. CASE Pays(id)
    BY <1>1, <1>3, <1>4, <1>7 DEF Pays, Live, MaxOf, c, d
<1>8. CASE Ends(id)
    BY <1>1, <1>2, <1>3, <1>8 DEF Ends, Open, Live, MaxOf, unstreamed, c, d
<1>9. CASE Corrects(id)
    BY <1>1, <1>3, <1>9 DEF Corrects, Clocked, released_by_override, unstreamed,
       carried_streamed, Live, MaxOf, c, d
<1> QED
    BY <1>5, <1>6, <1>7, <1>8, <1>9 DEF ClaimMoves

\* Whatever the calls and whenever wallets stake again, the pool keeps at least
\* as much reserved as its live claims can still be paid (admit_claim,
\* claim_stream, cancel_claim, the expiries, execute_override).
THEOREM ReservationsCoverClaims == Spec => []AllocationCovered
<1>1. Init => AllocationCovered
    <2> SUFFICES ASSUME Init PROVE AllocationCovered
        OBVIOUS
    <2>1. TypeOK
        BY InitType
    <2>2. \A id \in ClaimIds : Outstanding(id) = 0
        BY DEF Init, UnusedClaim, new_claim, Outstanding, Live
    <2>3. TotalOutstanding = 0
        BY <2>2, FiniteClaims, SumZero DEF TotalOutstanding
    <2>4. total_allocated = 0
        BY DEF Init, initialize
    <2> QED
        BY <2>3, <2>4 DEF AllocationCovered
<1>2. TypeOK /\ TypeOK' /\ PaidInv /\ AllocationCovered /\ [Next]_vars => AllocationCovered'
    <2> SUFFICES ASSUME TypeOK, TypeOK', PaidInv, AllocationCovered, [Next]_vars
                 PROVE  AllocationCovered'
        OBVIOUS
    <2>1. CASE ClaimsRest
        BY <2>1, NoClaim DEF ClaimsRest, AllocationCovered
    <2>2. ASSUME NEW id \in ClaimIds, ClaimMoves(id) PROVE AllocationCovered'
        <3>1. TotalOutstanding' = TotalOutstanding + Outstanding(id)' - Outstanding(id)
            BY <2>2, OneClaim DEF ClaimMoves, Only
        <3>2. total_allocated' - total_allocated >= Outstanding(id)' - Outstanding(id)
            BY <2>2, ReservationMoves
        <3>3. /\ TotalOutstanding \in Int /\ Outstanding(id) \in Int /\ Outstanding(id)' \in Int
              /\ total_allocated \in Int /\ total_allocated' \in Int
            BY TotalsNat, TermTypes, TermTypesNext DEF TypedTerms, TypeOK
        <3> QED
            BY <3>1, <3>2, <3>3 DEF AllocationCovered
    <2> QED
        BY <2>1, <2>2, StepMoves
<1> QED
    BY <1>1, <1>2, InitPaid, PaidStep, TypeCorrect, PTL DEF Spec

\* No claim has been paid more than it is entitled to.
Unexceeded == \A id \in ClaimIds : claims[id].streamed <= claims[id].entitlement

\* Only an override could pass the entitlement, by lowering it.
LEMMA UnexceededStep ==
    ASSUME "override" \notin Calls, TypeOK, TypeOK', PaidInv, Unexceeded, [Next]_vars
    PROVE  Unexceeded'
<1>1. CASE ClaimsRest
    BY <1>1 DEF ClaimsRest, SameTerms, Unexceeded
<1>2. ASSUME NEW id \in ClaimIds, ClaimMoves(id) PROVE Unexceeded'
    <2>1. /\ claims[id].streamed <= claims[id].entitlement
          /\ claims'[id].entitlement \in Nat
        BY DEF Unexceeded, TypeOK, Claim
    <2>2. claims'[id].streamed <= claims'[id].entitlement
        BY <1>2, <2>1, PayWithinDue
           DEF ClaimMoves, Opens, Matures, Starts, Pays, Ends, Corrects
    <2> QED
        BY <1>2, <2>2 DEF ClaimMoves, Only, Unexceeded
<1> QED
    BY <1>1, <1>2, StepMoves

\* Without overrides the reservation is exact: total_allocated is the sum of
\* entitlement - streamed over the live claims, through every admission,
\* payout, sweep and cancellation (the reading of claim_stream's comment).
THEOREM ReservationsExact ==
    ASSUME "override" \notin Calls PROVE Spec => []AllocationExact
<1>1. Init => Unexceeded /\ AllocationExact
    <2> SUFFICES ASSUME Init PROVE Unexceeded /\ AllocationExact
        OBVIOUS
    <2>1. \A id \in ClaimIds : Outstanding(id) = 0
        BY DEF Init, UnusedClaim, new_claim, Outstanding, Live
    <2>2. TotalOutstanding = 0
        BY <2>1, FiniteClaims, SumZero DEF TotalOutstanding
    <2>3. total_allocated = 0 /\ Unexceeded
        BY DEF Init, initialize, UnusedClaim, new_claim, Unexceeded
    <2> QED
        BY <2>2, <2>3 DEF AllocationExact
<1>2. TypeOK /\ TypeOK' /\ PaidInv /\ Unexceeded /\ AllocationExact /\ [Next]_vars
        => AllocationExact'
    <2> SUFFICES ASSUME TypeOK, TypeOK', PaidInv, Unexceeded, AllocationExact, [Next]_vars
                 PROVE  AllocationExact'
        OBVIOUS
    <2>1. CASE ClaimsRest
        BY <2>1, NoClaim DEF ClaimsRest, AllocationExact
    <2>2. ASSUME NEW id \in ClaimIds, ClaimMoves(id) PROVE AllocationExact'
        <3>1. TotalOutstanding' = TotalOutstanding + Outstanding(id)' - Outstanding(id)
            BY <2>2, OneClaim DEF ClaimMoves, Only
        <3>2. total_allocated' - total_allocated = Outstanding(id)' - Outstanding(id)
            BY <2>2, ReservationMoves DEF Unexceeded
        <3>3. /\ TotalOutstanding \in Int /\ Outstanding(id) \in Int /\ Outstanding(id)' \in Int
              /\ total_allocated \in Int /\ total_allocated' \in Int
            BY TotalsNat, TermTypes, TermTypesNext DEF TypedTerms, TypeOK
        <3> QED
            BY <3>1, <3>2, <3>3 DEF AllocationExact
    <2> QED
        BY <2>1, <2>2, StepMoves
<1>3. TypeOK /\ TypeOK' /\ PaidInv /\ Unexceeded /\ [Next]_vars => Unexceeded'
    BY UnexceededStep
<1> QED
    BY <1>1, <1>2, <1>3, InitPaid, PaidStep, TypeCorrect, PTL DEF Spec

-----------------------------------------------------------------------------
(* Vesting.                                                                *)

\* Ledgers of vesting a claim has behind it at ledger l.
Elapsed(claim, l) == SatSub(MinOf(l, claim.vesting_ends_ledger), claim.cooldown_ends_ledger)

\* Vesting only grows with the ledger.
LEMMA VestingGrows ==
    ASSUME NEW e \in Nat, NEW from \in Nat, NEW to \in Nat, from <= to
    PROVE  e * from \in Nat /\ e * from <= e * to
BY SMT

\* What has elapsed of the vesting never shrinks as ledgers close.
LEMMA ElapsedGrows ==
    ASSUME NEW claim \in Claim, NEW l \in Nat, NEW m \in Nat, l <= m
    PROVE  Elapsed(claim, l) \in Nat /\ Elapsed(claim, m) \in Nat
           /\ Elapsed(claim, l) <= Elapsed(claim, m)
<1>1. claim.vesting_ends_ledger \in Nat /\ claim.cooldown_ends_ledger \in Nat
    BY DEF Claim
<1> QED
    BY <1>1 DEF Elapsed, SatSub, MinOf

\* What has vested, times the vesting period, is within entitlement times
\* elapsed ledgers: the division of claim_stream rounds down.
LEMMA ClaimableWithinVesting ==
    ASSUME TypeOK, NEW id \in ClaimIds
    PROVE  (claimable(claims[id]) + claims[id].streamed) * VESTING_LEDGERS
             <= claims[id].entitlement * Elapsed(claims[id], ledger)
<1> DEFINE c == claims[id]
           n == c.entitlement * Elapsed(c, ledger)
           q == n \div VESTING_LEDGERS
<1>1. c \in Claim /\ ledger \in Nat
    BY DEF TypeOK
<1>2. c.entitlement \in Nat /\ c.streamed \in Nat
    BY <1>1 DEF Claim
<1>3. Elapsed(c, ledger) \in Nat
    BY <1>1, ElapsedGrows
<1>4. n \in Nat
    BY <1>2, <1>3
<1>5. q \in Nat /\ VESTING_LEDGERS * q <= n /\ Quot(n, VESTING_LEDGERS) = q
    BY <1>4, DivNat, QuotNat, DurationsAssumption
<1>6. claimable(c) = Quot(n, VESTING_LEDGERS) - c.streamed
    BY DEF claimable, vested_of, Elapsed
<1> HIDE DEF c, q, n
<1>7. claimable(c) + c.streamed = q
    BY <1>2, <1>5, <1>6
<1>8. q * VESTING_LEDGERS = VESTING_LEDGERS * q
    BY <1>5, DurationsAssumption
<1>9. (claimable(c) + c.streamed) * VESTING_LEDGERS <= n
    BY <1>5, <1>7, <1>8
<1> QED
    BY <1>9 DEF c, n

\* A claim within its vesting at ledger l.
VestedOK(claim, l) == claim.streamed * VESTING_LEDGERS <= claim.entitlement * Elapsed(claim, l)

\* Time alone keeps a claim within its vesting, and so does a change of other
\* fields.
LEMMA VestedLater ==
    ASSUME NEW c \in Claim, NEW d \in Claim, NEW l \in Nat, NEW m \in Nat, l <= m,
           VestedOK(c, l), d.streamed = c.streamed, d.entitlement = c.entitlement,
           d.cooldown_ends_ledger = c.cooldown_ends_ledger,
           d.vesting_ends_ledger = c.vesting_ends_ledger
    PROVE  VestedOK(d, m)
<1>1. Elapsed(d, m) = Elapsed(c, m)
    BY DEF Elapsed
<1>2. c.entitlement \in Nat /\ c.streamed \in Nat
    BY DEF Claim
<1>3. /\ Elapsed(c, l) \in Nat /\ Elapsed(c, m) \in Nat /\ Elapsed(c, l) <= Elapsed(c, m)
    BY ElapsedGrows
<1>4. /\ c.entitlement * Elapsed(c, l) \in Nat
      /\ c.entitlement * Elapsed(c, l) <= c.entitlement * Elapsed(c, m)
    BY <1>2, <1>3, VestingGrows
<1>5. c.entitlement * Elapsed(c, m) \in Nat /\ c.streamed * VESTING_LEDGERS \in Nat
    BY <1>2, <1>3, DurationsAssumption
<1> QED
    BY <1>1, <1>4, <1>5 DEF VestedOK

\* A claim that has been paid nothing is within its vesting.
LEMMA VestedNothing ==
    ASSUME NEW c \in Claim, NEW m \in Nat, c.streamed = 0
    PROVE  VestedOK(c, m)
<1>1. Elapsed(c, m) \in Nat /\ c.entitlement \in Nat
    BY ElapsedGrows DEF Claim
<1>2. c.entitlement * Elapsed(c, m) \in Nat /\ c.streamed * VESTING_LEDGERS = 0
    BY <1>1, DurationsAssumption
<1> QED
    BY <1>2 DEF VestedOK

\* The clock never goes back.
LEMMA LedgerGrows == ASSUME TypeOK, [Next]_vars PROVE ledger <= ledger'
<1>1. (\E v \in Verdicts, d \in Deadlines : revoke_approval(v, d)) => ledger' = ledger
    BY DEF revoke_approval
<1>2. Tick => ledger' = ledger + 1
    BY DEF Tick
<1> QED
    BY <1>1, <1>2, RevokedAndClock DEF TypeOK

\* What a claim has been paid never runs ahead of its linear vesting: every
\* payout is bounded by what has vested, and vesting only grows
\* (claim_stream; without overrides, which restart the vesting clock of a
\* claim already paid).
THEOREM PaidWithinVesting ==
    ASSUME "override" \notin Calls PROVE Spec => []StreamedWithinVesting
<1>1. StreamedWithinVesting <=> \A id \in ClaimIds : VestedOK(claims[id], ledger)
    BY DEF StreamedWithinVesting, VestedOK, Elapsed
<1>2. Init => StreamedWithinVesting
    <2> SUFFICES ASSUME Init, NEW id \in ClaimIds PROVE VestedOK(claims[id], ledger)
        BY <1>1
    <2>1. claims[id] \in Claim /\ ledger \in Nat
        BY InitType DEF TypeOK
    <2>2. claims[id].streamed = 0
        BY DEF Init, UnusedClaim, new_claim
    <2> QED
        BY <2>1, <2>2, VestedNothing
<1>3. TypeOK /\ TypeOK' /\ PaidInv /\ StreamedWithinVesting /\ [Next]_vars
        => StreamedWithinVesting'
    <2> SUFFICES ASSUME TypeOK, TypeOK', PaidInv, StreamedWithinVesting, [Next]_vars,
                        NEW i \in ClaimIds
                 PROVE  VestedOK(claims'[i], ledger')
        BY DEF StreamedWithinVesting, VestedOK, Elapsed
    <2>1. /\ claims[i] \in Claim /\ claims'[i] \in Claim /\ ledger \in Nat /\ ledger' \in Nat
          /\ ledger <= ledger'
        BY LedgerGrows DEF TypeOK
    <2>2. VestedOK(claims[i], ledger) /\ PaidOK(claims[i])
        BY <1>1 DEF PaidInv
    <2>3. CASE ClaimsRest
        BY <2>1, <2>2, <2>3, VestedLater DEF ClaimsRest, SameTerms
    <2>4. ASSUME NEW id \in ClaimIds, ClaimMoves(id) PROVE VestedOK(claims'[i], ledger')
        <3>1. CASE i # id
            BY <2>1, <2>2, <2>4, <3>1, VestedLater DEF ClaimMoves, Only
        <3>2. CASE i = id /\ (Opens(id) \/ Matures(id) \/ Starts(id))
            <4>1. claims'[i].streamed = 0
                BY <2>2, <3>2 DEF Opens, Matures, Starts, PaidOK
            <4> QED
                BY <2>1, <4>1, VestedNothing
        <3>3. CASE i = id /\ Pays(id)
            <4> DEFINE c == claims[i]
                       d == claims'[i]
            <4>1. (claimable(c) + c.streamed) * VESTING_LEDGERS
                     <= c.entitlement * Elapsed(c, ledger)
                BY ClaimableWithinVesting
            <4>2. /\ d.streamed - c.streamed <= claimable(c)
                  /\ d.entitlement = c.entitlement
                  /\ d.cooldown_ends_ledger = c.cooldown_ends_ledger
                  /\ d.vesting_ends_ledger = c.vesting_ends_ledger
                BY <3>3 DEF Pays
            <4>3. /\ c.streamed \in Nat /\ d.streamed \in Nat /\ claimable(c) \in Int
                  /\ c.entitlement \in Nat
                BY <2>1, StreamFigures DEF Claim
            <4>4. Elapsed(c, ledger) \in Nat
                BY <2>1, ElapsedGrows
            <4> HIDE DEF c, d
            <4>5. d.streamed <= claimable(c) + c.streamed /\ claimable(c) + c.streamed \in Nat
                BY <4>2, <4>3
            <4>6. VESTING_LEDGERS * d.streamed <= VESTING_LEDGERS * (claimable(c) + c.streamed)
                BY <4>3, <4>5, VestingGrows, DurationsAssumption
            <4>7. d.streamed * VESTING_LEDGERS = VESTING_LEDGERS * d.streamed
                BY <4>3, DurationsAssumption
            <4>8. VESTING_LEDGERS * (claimable(c) + c.streamed)
                    = (claimable(c) + c.streamed) * VESTING_LEDGERS
                BY <4>5, DurationsAssumption
            <4>9. /\ d.streamed * VESTING_LEDGERS \in Nat
                  /\ (claimable(c) + c.streamed) * VESTING_LEDGERS \in Nat
                  /\ c.entitlement * Elapsed(c, ledger) \in Nat
                BY <4>3, <4>4, <4>5, DurationsAssumption
            <4>10. d.streamed * VESTING_LEDGERS <= c.entitlement * Elapsed(c, ledger)
                BY <4>1, <4>6, <4>7, <4>8, <4>9
            <4>11. VestedOK(d, ledger)
                BY <4>2, <4>10 DEF VestedOK, Elapsed
            <4> QED
                BY <2>1, <4>11, VestedLater DEF d
        <3>4. CASE i = id /\ Ends(id)
            BY <2>1, <2>2, <3>4, VestedLater DEF Ends
        <3> QED
            BY <2>4, <3>1, <3>2, <3>3, <3>4 DEF ClaimMoves, Corrects
    <2> QED
        BY <2>3, <2>4, StepMoves
<1> QED
    BY <1>2, <1>3, InitPaid, PaidStep, TypeCorrect, PTL DEF Spec

-----------------------------------------------------------------------------
(* Holdings.  HoldingsAccountForPayouts alone is not inductive: activation *)
(* takes a stake out of total_staked while its XLM stays, and cancel_claim *)
(* puts it back, so the invariant has to keep the XLM behind every         *)
(* streaming claim.  Treasury withdrawals may take exactly that XLM (it    *)
(* reads as yield once forfeited), so with both calls in play what they    *)
(* took is part of the account.                                            *)

\* What the pool controls, and has controlled, covers the forfeited principals.
HoldInv ==
    /\ Backing + TotalStreamed >= TotalForfeited
    /\ "vault" \notin Calls => extracted_yield = 0
    /\ "cancel_claim" \notin Calls => Net + TotalStreamed >= 0

\* An account stays covered when its assets grow,
LEMMA Grows ==
    ASSUME NEW a \in Int, NEW b \in Int, NEW s \in Int, NEW f \in Int, b >= a, a + s >= f
    PROVE  b + s >= f
OBVIOUS

\* when what they hold beyond a reserve is drawn on,
LEMMA DrawnOn ==
    ASSUME NEW a \in Int, NEW b \in Int, NEW s \in Nat, NEW reserve \in Nat,
           b - reserve >= MinOf(a - reserve, 0), a + s >= 0
    PROVE  b + s >= 0
BY DEF MinOf

\* (which is the assets without what was taken out of them, if that stays),
LEMMA SameTaken ==
    ASSUME NEW a \in Int, NEW b \in Int, NEW y \in Int, NEW s \in Int,
           b + y >= a + y, a + s >= 0
    PROVE  b + s >= 0
OBVIOUS

\* and when one term of each sum moves and the assets move with them.
LEMMA OneTerm ==
    ASSUME NEW a \in Int, NEW b \in Int, NEW s \in Int, NEW f \in Int,
           NEW s1 \in Int, NEW s2 \in Int, NEW f1 \in Int, NEW f2 \in Int,
           b - a + s2 - s1 >= f2 - f1, a + s >= f
    PROVE  b + (s + s2 - s1) >= f + f2 - f1
OBVIOUS

\* or of the one sum.
LEMMA OneMove ==
    ASSUME NEW a \in Int, NEW b \in Int, NEW s \in Int, NEW s1 \in Int, NEW s2 \in Int,
           b + s2 >= a + s1, a + s >= 0
    PROVE  b + (s + s2 - s1) >= 0
OBVIOUS

\* What a claim's move does to the two sides of the account.
LEMMA HoldMoves ==
    ASSUME "override" \notin Calls, TypeOK, TypeOK', PaidInv, NEW id \in ClaimIds,
           ClaimMoves(id)
    PROVE  /\ Backing' - Backing + claims'[id].streamed - claims[id].streamed
                >= Forfeited(id)' - Forfeited(id)
           /\ extracted_yield' = extracted_yield
           /\ "cancel_claim" \notin Calls =>
                 Net' + claims'[id].streamed >= Net + claims[id].streamed
<1> DEFINE c == claims[id]
           d == claims'[id]
<1>1. /\ c.entitlement \in Nat /\ c.streamed \in Nat /\ c.stake \in Nat
      /\ d.entitlement \in Nat /\ d.streamed \in Nat /\ d.stake \in Nat
      /\ total_staked \in Int /\ total_staked' \in Int /\ liquid \in Nat /\ liquid' \in Nat
      /\ deployed_xlm \in Nat /\ extracted_yield \in Nat
    BY DEF TypeOK, Claim
<1>2. deployed_xlm' = deployed_xlm /\ extracted_yield' = extracted_yield
    BY DEF ClaimMoves
<1>3. PaidOK(c) /\ stakes[id[1]].amount \in Nat
    BY ClaimIdWallet DEF PaidInv, TypeOK, StakeRecord
<1>4. /\ Forfeited(id) = IF c.status = "Active" THEN c.stake ELSE 0
      /\ Forfeited(id)' = IF d.status = "Active" THEN d.stake ELSE 0
    BY DEF Forfeited
<1> HIDE DEF c, d
<1>5. CASE Opens(id)
    <2>1. c.status # "Active" /\ d.status # "Active" /\ c.streamed = 0 /\ d.streamed = 0
        BY <1>3, <1>5 DEF Opens, PaidOK, c, d
    <2>2. Forfeited(id) = 0 /\ Forfeited(id)' = 0
        BY <1>4, <2>1
    <2>3. Net' = Net /\ Backing' = Backing
        BY <1>2, <1>5 DEF Opens, Net, Backing
    <2>4. Net \in Int /\ Backing \in Int
        BY <1>1 DEF Net, Backing
    <2>5. claims[id].streamed = 0 /\ claims'[id].streamed = 0
        BY <2>1 DEF c, d
    <2> QED
        BY <1>2, <2>2, <2>3, <2>4, <2>5
<1>6. CASE Matures(id)
    BY <1>1, <1>2, <1>4, <1>6 DEF Matures, Backing, Net, c, d
<1>7. CASE Starts(id)
    BY <1>1, <1>2, <1>3, <1>4, <1>7 DEF Starts, Clocked, Backing, Net, c, d
<1>8. CASE Pays(id)
    BY <1>1, <1>2, <1>4, <1>8 DEF Pays, Backing, Net, c, d
<1>9. CASE Ends(id)
    BY <1>1, <1>2, <1>4, <1>9 DEF Ends, Backing, Net, c, d
<1> QED
    BY <1>5, <1>6, <1>7, <1>8, <1>9 DEF ClaimMoves, Corrects

\* Every step keeps the account.
LEMMA HoldStep ==
    ASSUME "override" \notin Calls, TypeOK, TypeOK', PaidInv, AllocationCovered, HoldInv,
           [Next]_vars
    PROVE  HoldInv'
<1>1. /\ TotalStreamed \in Nat /\ TotalForfeited \in Nat /\ Backing \in Int /\ Net \in Int
      /\ Backing' \in Int /\ Net' \in Int /\ extracted_yield \in Nat /\ extracted_yield' \in Nat
    BY TotalsNat DEF TypeOK, Backing, Net
<1>2. Backing = Net + extracted_yield /\ Backing' = Net' + extracted_yield'
    BY DEF Backing
<1>3. ASSUME ClaimsRest, FundsRest PROVE HoldInv'
    <2>1. TotalStreamed' = TotalStreamed /\ TotalForfeited' = TotalForfeited
        BY <1>3, NoClaim DEF ClaimsRest
    <2>3. CASE VaultCall
        <3>1. Surplus' >= MinOf(Surplus, 0)
            BY <2>3, VaultBacking
        <3>2. total_allocated \in Nat /\ total_allocated' = total_allocated
            BY <1>3, TotalsNat DEF AllocationCovered, TypeOK, ClaimsRest
        <3>3. Surplus = Net - total_allocated /\ Surplus' = Net' - total_allocated'
            <4>1. /\ liquid \in Int /\ deployed_xlm \in Int /\ total_staked \in Int
                  /\ liquid' \in Int /\ deployed_xlm' \in Int /\ total_staked' \in Int
                  /\ total_allocated' \in Int
                BY <3>2 DEF TypeOK
            <4> QED
                BY <3>2, <4>1 DEF Surplus, Net
        <3>4. Net + TotalStreamed >= 0 => Net' + TotalStreamed >= 0
            BY <1>1, <3>1, <3>2, <3>3, DrawnOn
        <3>5. "vault" \in Calls
            BY <2>3 DEF VaultCall
        <3>6. Backing' >= Backing /\ Backing + TotalStreamed >= TotalForfeited
            BY <1>3 DEF HoldInv, FundsRest
        <3>7. Backing' + TotalStreamed' >= TotalForfeited'
            <4>1. TotalStreamed \in Int /\ TotalForfeited \in Int
                BY <1>1
            <4>2. Backing' + TotalStreamed >= TotalForfeited
                BY <1>1, <3>6, <4>1, Grows
            <4> QED
                BY <2>1, <4>2
        <3>8. "cancel_claim" \notin Calls => Net' + TotalStreamed' >= 0
            BY <2>1, <3>4 DEF HoldInv
        <3> QED
            BY <3>5, <3>7, <3>8 DEF HoldInv
    <2>4. CASE extracted_yield' = extracted_yield
        <3>1. Backing' >= Backing /\ Backing + TotalStreamed >= TotalForfeited
            BY <1>3 DEF HoldInv, FundsRest
        <3>2. Backing' + TotalStreamed' >= TotalForfeited'
            <4>1. TotalStreamed \in Int /\ TotalForfeited \in Int
                BY <1>1
            <4>2. Backing' + TotalStreamed >= TotalForfeited
                BY <1>1, <3>1, <4>1, Grows
            <4> QED
                BY <2>1, <4>2
        <3>3. "cancel_claim" \notin Calls => Net' + TotalStreamed' >= 0
            <4>1. TotalStreamed \in Int /\ extracted_yield \in Int
                BY <1>1
            <4>2. Net' + extracted_yield >= Net + extracted_yield
                <5>1. Backing' = Net' + extracted_yield
                    BY <1>2, <2>4
                <5> QED
                    BY <1>2, <3>1, <5>1
            <4>3. Net + TotalStreamed >= 0 => Net' + TotalStreamed >= 0
                BY <1>1, <4>1, <4>2, SameTaken
            <4> QED
                BY <2>1, <4>3 DEF HoldInv
        <3> QED
            BY <2>4, <3>2, <3>3 DEF HoldInv
    <2> QED
        BY <1>3, <2>3, <2>4 DEF FundsRest
<1>4. ASSUME NEW id \in ClaimIds, ClaimMoves(id) PROVE HoldInv'
    <2>1. /\ TotalStreamed' = TotalStreamed + claims'[id].streamed - claims[id].streamed
          /\ TotalForfeited' = TotalForfeited + Forfeited(id)' - Forfeited(id)
        BY <1>4, OneClaim DEF ClaimMoves, Only
    <2>2. /\ Backing' - Backing + claims'[id].streamed - claims[id].streamed
                >= Forfeited(id)' - Forfeited(id)
          /\ extracted_yield' = extracted_yield
          /\ "cancel_claim" \notin Calls =>
                 Net' + claims'[id].streamed >= Net + claims[id].streamed
        BY <1>4, HoldMoves
    <2>3. /\ claims[id].streamed \in Nat /\ claims'[id].streamed \in Nat
          /\ Forfeited(id) \in Nat /\ Forfeited(id)' \in Nat
        BY TermTypes, TermTypesNext DEF TypedTerms, TypeOK, Claim
    <2>4. Backing' + TotalStreamed' >= TotalForfeited'
        BY <1>1, <2>1, <2>2, <2>3, OneTerm DEF HoldInv
    <2>5. "cancel_claim" \notin Calls => Net' + TotalStreamed' >= 0
        BY <1>1, <2>1, <2>2, <2>3, OneMove DEF HoldInv
    <2> QED
        BY <2>2, <2>4, <2>5 DEF HoldInv
<1> QED
    BY <1>3, <1>4, StepMoves

\* At first there is nothing to cover.
LEMMA InitHold == Init => HoldInv
<1> SUFFICES ASSUME Init PROVE HoldInv
    OBVIOUS
<1>1. \A id \in ClaimIds : Forfeited(id) = 0 /\ claims[id].streamed = 0
    BY DEF Init, UnusedClaim, new_claim, Forfeited
<1>2. TotalForfeited = 0 /\ TotalStreamed = 0
    BY <1>1, FiniteClaims, SumZero DEF TotalForfeited, TotalStreamed
<1>3. total_staked = 0 /\ liquid = 0 /\ deployed_xlm = 0 /\ extracted_yield = 0
    BY DEF Init, initialize
<1> QED
    BY <1>2, <1>3 DEF HoldInv, Backing, Net, HoldingsAccountForPayouts

\* The books in full: what the pool holds, what claims have been paid and what
\* the treasury has taken always account for total_staked and for the forfeited
\* stakes a cancellation would give back, through every interleaving of vault
\* calls, payouts, sweeps and cancellations.
THEOREM EveryStroopAccountedFor ==
    ASSUME "override" \notin Calls
    PROVE  Spec => [](liquid + deployed_xlm + TotalStreamed + extracted_yield
                        >= total_staked + TotalForfeited)
<1>1. TypeOK /\ TypeOK' /\ PaidInv /\ AllocationCovered /\ HoldInv /\ [Next]_vars => HoldInv'
    BY HoldStep
<1>2. TypeOK /\ HoldInv => liquid + deployed_xlm + TotalStreamed + extracted_yield
                              >= total_staked + TotalForfeited
    BY TotalsNat DEF HoldInv, Backing, Net, TypeOK
<1> QED
    BY <1>1, <1>2, InitHold, InitPaid, PaidStep, ReservationsCoverClaims, TypeCorrect, PTL
       DEF Spec

\* The pool's holdings fall short of total_staked by no more than what claims
\* have been paid, as long as forfeited principal is not both paid out as yield
\* and given back by a cancellation: without the vault, or without cancel_claim
\* (close_stake, claim_stream, activate_claim, cancel_claim, redeem,
\* withdraw_yield).
THEOREM HoldingsAccount ==
    ASSUME "override" \notin Calls, "vault" \notin Calls \/ "cancel_claim" \notin Calls
    PROVE  Spec => []HoldingsAccountForPayouts
<1>1. TypeOK /\ TypeOK' /\ PaidInv /\ AllocationCovered /\ HoldInv /\ [Next]_vars => HoldInv'
    BY HoldStep
<1>2. TypeOK /\ HoldInv => HoldingsAccountForPayouts
    BY TotalsNat DEF HoldInv, Backing, Net, HoldingsAccountForPayouts, TypeOK
<1> QED
    BY <1>1, <1>2, InitHold, InitPaid, PaidStep, ReservationsCoverClaims, TypeCorrect, PTL
       DEF Spec

-----------------------------------------------------------------------------
(* Principals.  StakedMatchesRecords needs to know which record a step on  *)
(* a claim moves: a wallet has one claim slot in use at most, and its      *)
(* stake is not forfeited before its claim is approved.  The assumption on *)
(* restaking, and the absence of overrides, are what keeps this true: an   *)
(* override leaves a queued claim beside the one it activates.             *)

\* A wallet has no live claim beside a queued one.
OneSlot ==
    \A w \in Wallets : stakes[w].active_claim_id = None \/ stakes[w].reserved_claim_id = None

\* A claim that waits has its principal still held, or gone, but not forfeited.
HeldUntilApproved ==
    \A id \in ClaimIds :
        claims[id].status \in {"Reserved", "PendingTime", "AwaitingApproval"}
          /\ stakes[id[1]].withdrawn => stakes[id[1]].amount = 0

RecordInv == OneSlot /\ HeldUntilApproved

\* No record but this one changes; what a record holds stays the same; the
\* total moves with what one record holds.
OnlyRecord(w) == \A u \in Wallets : u # w => stakes'[u] = stakes[u]

SameHolding(w) ==
    stakes'[w].amount = stakes[w].amount /\ stakes'[w].withdrawn = stakes[w].withdrawn

\* One record and the total move together.
RecordMoves(w) == OnlyRecord(w) /\ total_staked' = total_staked + Held(w)' - Held(w)

\* No record moves, and the total only by a vault loss.
RecordsRest ==
    /\ \A w \in Wallets : SameHolding(w)
    /\ \/ total_staked' = total_staked
       \/ VaultCall /\ total_staked' <= total_staked

\* A wallet has at most one open claim.
LEMMA OneOpen ==
    ASSUME SlotInv, OneSlot, NEW id \in ClaimIds, NEW i \in ClaimIds, i[1] = id[1],
           claims[id].status \in Open, claims[i].status \in Open
    PROVE  i = id
<1>1. id # None /\ i # None /\ id[1] \in Wallets
    BY InputsAssumption, ClaimIdWallet
<1>2. stakes[id[1]].active_claim_id = None \/ stakes[id[1]].reserved_claim_id = None
    BY <1>1 DEF OneSlot
<1> QED
    BY <1>1, <1>2 DEF SlotInv, ClaimSlots, Open, Live

\* A step that moves no slot and no status, and no principal but to pay it out.
LEMMA KeptRecords ==
    ASSUME RecordInv,
           \A i \in ClaimIds : claims'[i].status = claims[i].status,
           \A w \in Wallets :
              /\ stakes'[w].active_claim_id = stakes[w].active_claim_id
              /\ stakes'[w].reserved_claim_id = stakes[w].reserved_claim_id
              /\ stakes'[w].amount = 0 \/ SameHolding(w)
    PROVE  RecordInv'
BY ClaimIdWallet DEF RecordInv, OneSlot, HeldUntilApproved, SameHolding

\* A step on one claim and its wallet's record.
LEMMA LocalRecords ==
    ASSUME SlotInv, RecordInv, NEW id \in ClaimIds, Only(id), OnlyRecord(id[1]),
           \/ stakes'[id[1]].active_claim_id = None
           \/ stakes'[id[1]].reserved_claim_id = None,
           claims'[id].status \in {"Reserved", "PendingTime", "AwaitingApproval"}
             /\ stakes'[id[1]].withdrawn => stakes'[id[1]].amount = 0,
           SameHolding(id[1]) \/ claims[id].status \in Open
    PROVE  RecordInv'
<1>1. OneSlot'
    BY DEF RecordInv, OneSlot, OnlyRecord
<1>2. ASSUME NEW i \in ClaimIds,
             claims'[i].status \in {"Reserved", "PendingTime", "AwaitingApproval"},
             stakes'[i[1]].withdrawn
      PROVE  stakes'[i[1]].amount = 0
    <2>1. i[1] \in Wallets
        BY ClaimIdWallet
    <2>2. CASE i = id
        BY <1>2, <2>2
    <2>3. CASE i # id
        <3>1. claims[i].status \in {"Reserved", "PendingTime", "AwaitingApproval"}
            BY <1>2, <2>3 DEF Only
        <3>2. stakes[i[1]].withdrawn => stakes[i[1]].amount = 0
            BY <3>1 DEF RecordInv, HeldUntilApproved
        <3>3. SameHolding(i[1])
            BY <2>1, <2>3, <3>1, OneOpen DEF OnlyRecord, SameHolding, RecordInv, Open, Live
        <3> QED
            BY <1>2, <3>2, <3>3 DEF SameHolding
    <2> QED
        BY <2>2, <2>3
<1> QED
    BY <1>1, <1>2 DEF RecordInv, HeldUntilApproved

\* A deposit: the record was empty or closed.
LEMMA StakeRecords ==
    ASSUME TypeOK, RecordInv, RestakePolicy = "settled", NEW w \in Wallets,
           NEW a \in StakeAmounts, NEW b, may_stake(w), stake(w, a, b)
    PROVE  RecordInv' /\ RecordMoves(w)
<1>1. OnlyRecord(w) /\ claims' = claims /\ total_staked' = total_staked + a
    BY DEF stake, TypeOK, OnlyRecord
<1>2. /\ stakes'[w].amount = a /\ ~stakes'[w].withdrawn
      /\ stakes'[w].active_claim_id = None /\ stakes'[w].reserved_claim_id = None
    BY DEF stake, TypeOK, EmptyStake
<1>3. Held(w) = 0 /\ Held(w)' = a /\ a \in Nat
    BY <1>2, CallInputsAssumption DEF stake, Held, holds_stake
<1>4. RecordMoves(w)
    BY <1>1, <1>3 DEF RecordMoves, TypeOK
<1>5. \A i \in ClaimIds : i[1] = w => claims[i].status \notin Open
    BY DEF may_stake, ClaimsOf
<1>6. RecordInv'
    BY <1>1, <1>2, <1>5, ClaimIdWallet DEF RecordInv, OneSlot, HeldUntilApproved, OnlyRecord,
       Open, Live
<1> QED
    BY <1>4, <1>6

\* A voluntary exit pays out what the record held.
LEMMA ExitRecords ==
    ASSUME TypeOK, RecordInv, NEW w \in Wallets, NEW b, withdraw(w, b) \/ emergency_exit(w)
    PROVE  RecordInv' /\ RecordMoves(w)
<1>1. stakes[w] \in StakeRecord /\ total_staked \in Int
    BY DEF TypeOK
<1>2. /\ OnlyRecord(w) /\ claims' = claims
      /\ total_staked' = total_staked - stakes[w].amount /\ holds_stake(stakes[w])
    BY DEF withdraw, emergency_exit, close_stake, TypeOK, OnlyRecord
<1>3. /\ stakes'[w].amount = 0
      /\ stakes'[w].active_claim_id = stakes[w].active_claim_id
      /\ stakes'[w].reserved_claim_id = stakes[w].reserved_claim_id
    BY <1>1 DEF withdraw, emergency_exit, close_stake, TypeOK, StakeRecord
<1>4. Held(w) = stakes[w].amount /\ Held(w)' = 0 /\ stakes[w].amount \in Nat
    BY <1>1, <1>2, <1>3 DEF Held, StakeRecord
<1>5. RecordMoves(w)
    BY <1>1, <1>2, <1>4 DEF RecordMoves
<1>6. RecordInv'
    BY <1>2, <1>3, KeptRecords DEF OnlyRecord, SameHolding
<1> QED
    BY <1>5, <1>6

\* The calls on a record that leave its principal alone.
LEMMA RecordKept ==
    ASSUME TypeOK, RecordInv, NEW w \in Wallets, NEW x,
           set_beneficiary(w, x) \/ suspend_stake(w) \/ unsuspend_stake(w, x)
    PROVE  RecordInv' /\ \A u \in Wallets : SameHolding(u)
<1>1. \A i \in ClaimIds : claims'[i].status = claims[i].status
    BY UnsuspendEffect DEF set_beneficiary, suspend_stake
<1>2. stakes[w] \in StakeRecord /\ OnlyRecord(w)
    BY DEF set_beneficiary, suspend_stake, unsuspend_stake, TypeOK, OnlyRecord
<1>3. /\ stakes'[w].active_claim_id = stakes[w].active_claim_id
      /\ stakes'[w].reserved_claim_id = stakes[w].reserved_claim_id
      /\ SameHolding(w)
    BY <1>2 DEF set_beneficiary, suspend_stake, unsuspend_stake, TypeOK, StakeRecord, SameHolding
<1> QED
    BY <1>1, <1>2, <1>3, KeptRecords DEF OnlyRecord, SameHolding

\* Queueing and admission take a slot.
LEMMA AdmitRecords ==
    ASSUME TypeOK, SlotInv, RecordInv, NEW id \in ClaimIds, NEW e, NEW tier, NEW h, NEW counted,
           stakes[id[1]].withdrawn => stakes[id[1]].amount = 0,
           admit_claim(id, e, tier, h, counted)
    PROVE  RecordInv' /\ RecordsRest
<1>1. id[1] \in Wallets /\ stakes[id[1]] \in StakeRecord
    BY ClaimIdWallet DEF TypeOK
<1>2. Only(id) /\ OnlyRecord(id[1]) /\ total_staked' = total_staked
    BY <1>1 DEF admit_claim, TypeOK, Only, OnlyRecord
<1>3. SameHolding(id[1]) /\ stakes'[id[1]].reserved_claim_id = None
    BY <1>1 DEF admit_claim, TypeOK, StakeRecord, SameHolding
<1>4. RecordInv'
    BY <1>1, <1>2, <1>3, LocalRecords DEF SameHolding
<1>5. RecordsRest
    BY <1>2, <1>3 DEF RecordsRest, OnlyRecord, SameHolding
<1> QED
    BY <1>4, <1>5

\* A submission leaves principals alone and fills a slot of a wallet whose slots
\* are free (submit_claim, admin_submit_claim).
LEMMA SubmitRecords ==
    ASSUME TypeOK, SlotInv, RecordInv, NEW caller, NEW v \in Verdicts, NEW d, NEW k,
           submit_claim(caller, v, d, k)
    PROVE  RecordInv' /\ RecordsRest
<1> DEFINE id == compute_claim_id(v)
<1>1. id \in ClaimIds /\ id[1] = v.wallet /\ v.wallet \in Wallets
    BY VerdictFields, ClaimIdWallet DEF compute_claim_id
<1>2. ~stakes[v.wallet].withdrawn /\ stakes[v.wallet].active_claim_id = None
    BY DEF submit_claim, submit_claim_queued, submit_claim_admitted, submit_checks, holds_stake
<1>3. CASE submit_claim_admitted(caller, v, d, k)
    BY <1>1, <1>2, <1>3, AdmitRecords DEF submit_claim_admitted
<1>4. CASE submit_claim_queued(caller, v, d, k)
    <2>1. Only(id) /\ OnlyRecord(id[1]) /\ total_staked' = total_staked
        BY <1>1, <1>4 DEF submit_claim_queued, TypeOK, Only, OnlyRecord
    <2>2. stakes[v.wallet] \in StakeRecord
        BY <1>1 DEF TypeOK
    <2>3. SameHolding(id[1]) /\ stakes'[id[1]].active_claim_id = None
        BY <1>1, <1>2, <1>4, <2>2 DEF submit_claim_queued, TypeOK, StakeRecord, SameHolding
    <2>4. RecordInv'
        BY <1>1, <1>2, <2>1, <2>3, LocalRecords DEF SameHolding
    <2>5. RecordsRest
        BY <2>1, <2>3 DEF RecordsRest, OnlyRecord, SameHolding
    <2> QED
        BY <2>4, <2>5
<1> QED
    BY <1>3, <1>4 DEF submit_claim

\* Payouts, the time gate and the sweeps leave principals alone.
LEMMA SweepRecords ==
    ASSUME TypeOK, SlotInv, RecordInv, NEW id \in ClaimIds, NEW b,
           \/ try_release_queued_claim(id) \/ expire_queued_claim(id)
           \/ unlock_pending_claim(id) \/ claim_stream(id, b)
           \/ expire_pending_approval(id) \/ expire_stale_claim(id)
    PROVE  RecordInv' /\ RecordsRest
<1>1. id[1] \in Wallets /\ stakes[id[1]] \in StakeRecord /\ claims[id] \in Claim
    BY ClaimIdWallet DEF TypeOK
<1>2. claims[id].status \in {"Reserved", "PendingTime"} =>
        (stakes[id[1]].withdrawn => stakes[id[1]].amount = 0)
    BY DEF RecordInv, HeldUntilApproved
<1>3. CASE try_release_queued_claim(id)
    BY <1>2, <1>3, AdmitRecords DEF try_release_queued_claim
<1>4. CASE ~try_release_queued_claim(id)
    <2>1. Only(id) /\ OnlyRecord(id[1]) /\ total_staked' = total_staked
        BY <1>1, <1>4 DEF expire_queued_claim, unlock_pending_claim, claim_stream,
           expire_pending_approval, expire_stale_claim, release_claim, free_slot, TypeOK,
           Only, OnlyRecord
    <2>2. stakes'[id[1]] \in {stakes[id[1]], [stakes[id[1]] EXCEPT !.active_claim_id = None],
                              [stakes[id[1]] EXCEPT !.reserved_claim_id = None]}
        BY <1>1, <1>4 DEF expire_queued_claim, unlock_pending_claim, claim_stream,
           expire_pending_approval, expire_stale_claim, free_slot, TypeOK
    <2>3. /\ SameHolding(id[1])
          /\ \/ stakes'[id[1]].active_claim_id = None
             \/ stakes'[id[1]].reserved_claim_id = None
        BY <1>1, <2>2 DEF StakeRecord, SameHolding, RecordInv, OneSlot
    <2>4. ASSUME unlock_pending_claim(id) PROVE RecordInv'
        <3>1. claims[id].status = "PendingTime"
            BY <2>4 DEF unlock_pending_claim
        <3>2. stakes'[id[1]].withdrawn => stakes'[id[1]].amount = 0
            BY <1>2, <2>3, <3>1 DEF SameHolding
        <3> QED
            BY <2>1, <2>3, <3>2, LocalRecords
    <2>5. ASSUME ~unlock_pending_claim(id) PROVE RecordInv'
        <3>1. claims'[id].status \in {"Expired", "Active", "Completed"}
            <4>1. CASE claim_stream(id, b)
                BY <1>1, <4>1 DEF claim_stream, TypeOK, Claim
            <4>2. CASE ~claim_stream(id, b)
                BY <1>1, <1>4, <2>5, <4>2 DEF expire_queued_claim, expire_pending_approval,
                   expire_stale_claim, release_claim, TypeOK, Claim
            <4> QED
                BY <4>1, <4>2
        <3> QED
            BY <2>1, <2>3, <3>1, LocalRecords
    <2>6. RecordsRest
        BY <2>1, <2>3 DEF RecordsRest, OnlyRecord, SameHolding
    <2> QED
        BY <2>4, <2>5, <2>6
<1> QED
    BY <1>3, <1>4

\* The staker's approval forfeits what the record holds.
LEMMA ApproveRecords ==
    ASSUME TypeOK, SlotInv, RecordInv, NEW id \in ClaimIds, approve_claim(id)
    PROVE  RecordInv' /\ RecordMoves(id[1])
<1>1. id[1] \in Wallets /\ stakes[id[1]] \in StakeRecord /\ total_staked \in Int
      /\ claims[id] \in Claim
    BY ClaimIdWallet DEF TypeOK
<1>2. /\ Only(id) /\ OnlyRecord(id[1]) /\ claims[id].status = "AwaitingApproval"
      /\ total_staked' = total_staked - stakes[id[1]].amount
    BY <1>1 DEF approve_claim, activate_claim, TypeOK, Only, OnlyRecord
<1>3. /\ stakes'[id[1]].withdrawn /\ stakes'[id[1]].amount = stakes[id[1]].amount
      /\ stakes'[id[1]].active_claim_id = stakes[id[1]].active_claim_id
      /\ stakes'[id[1]].reserved_claim_id = stakes[id[1]].reserved_claim_id
      /\ claims'[id].status = "Active"
    BY <1>1 DEF approve_claim, activate_claim, forfeited, start_clocks, TypeOK, StakeRecord, Claim
<1>4. stakes[id[1]].withdrawn => stakes[id[1]].amount = 0
    BY <1>2 DEF RecordInv, HeldUntilApproved
<1>5. Held(id[1]) = stakes[id[1]].amount /\ Held(id[1])' = 0 /\ stakes[id[1]].amount \in Nat
    BY <1>1, <1>3, <1>4 DEF Held, holds_stake, StakeRecord
<1>6. RecordMoves(id[1])
    BY <1>1, <1>2, <1>5 DEF RecordMoves
<1>7. RecordInv'
    BY <1>1, <1>2, <1>3, LocalRecords DEF RecordInv, OneSlot, Open, Live
<1> QED
    BY <1>6, <1>7

\* A cancellation gives back what its claim took.
LEMMA CancelRecords ==
    ASSUME RefineInv, RecordInv, NEW id \in ClaimIds, cancel_claim(id)
    PROVE  RecordInv' /\ (RecordsRest \/ RecordMoves(id[1]))
<1> USE DEF RefineInv
<1>1. id[1] \in Wallets /\ stakes[id[1]] \in StakeRecord /\ total_staked \in Int
      /\ claims[id] \in Claim
    BY ClaimIdWallet DEF TypeOK
<1>2. /\ Only(id) /\ OnlyRecord(id[1]) /\ claims[id].status \in Open
      /\ claims'[id].status = "Cancelled"
    BY <1>1 DEF cancel_claim, cancel_active, cancel_unforfeited, release_claim, free_slot, TypeOK,
       Claim, Only, OnlyRecord, Open, Live
<1>3. stakes'[id[1]].amount = stakes[id[1]].amount /\ stakes'[id[1]].active_claim_id = None
    BY <1>1 DEF cancel_claim, cancel_active, cancel_unforfeited, free_slot, TypeOK, StakeRecord
<1>4. RecordInv'
    BY <1>1, <1>2, <1>3, LocalRecords
<1>5. CASE cancel_active(id)
    <2>1. claims[id].stake = stakes[id[1]].amount /\ stakes[id[1]].withdrawn
        BY <1>5 DEF cancel_active, TermsInv, TermsOK, SlotInv, ForfeitedWhileActive
    <2>2. ~stakes'[id[1]].withdrawn /\ total_staked' = total_staked + claims[id].stake
        BY <1>1, <1>5 DEF cancel_active, TypeOK, StakeRecord
    <2>3. Held(id[1]) = 0 /\ Held(id[1])' = stakes[id[1]].amount /\ stakes[id[1]].amount \in Nat
        BY <1>1, <1>3, <2>1, <2>2 DEF Held, holds_stake, StakeRecord
    <2> QED
        BY <1>1, <1>2, <1>4, <2>1, <2>2, <2>3 DEF RecordMoves
<1>6. CASE cancel_unforfeited(id)
    <2>1. SameHolding(id[1]) /\ total_staked' = total_staked
        BY <1>1, <1>6 DEF cancel_unforfeited, free_slot, TypeOK, StakeRecord, SameHolding
    <2> QED
        BY <1>2, <1>4, <2>1 DEF RecordsRest, OnlyRecord, SameHolding
<1> QED
    BY <1>5, <1>6 DEF cancel_claim

\* A vault call lowers the total by its loss, if at all.
LEMMA VaultTotal == ASSUME TypeOK, VaultCall PROVE total_staked' <= total_staked
<1>1. total_staked \in Int
    BY DEF TypeOK
<1>2. ASSUME NEW shares \in Nat, NEW received \in RedeemedXlm, NEW out, NEW treas,
             redeem(shares, received, out, treas)
      PROVE  total_staked' <= total_staked
    <2>1. principal_equiv(shares) \in Nat /\ received \in Nat
        BY <1>2, PrincipalEquivBounded, VaultAssumption DEF redeem
    <2>2. shortfall(principal_equiv(shares), received) \in Nat
        BY <2>1 DEF shortfall, MaxOf
    <2>3. total_staked' = total_staked - shortfall(principal_equiv(shares), received)
        BY <1>2 DEF redeem
    <2> QED
        BY <1>1, <2>2, <2>3
<1>3. ASSUME NEW s \in ShareAmounts, NEW m, provide_liquidity(s, m) \/ extract_yield(s, m)
      PROVE  total_staked' <= total_staked
    BY <1>2, <1>3, CallInputsAssumption DEF provide_liquidity, extract_yield
<1>4. CASE ensure_liquidity
    <2>1. shares_needed \in Nat
        BY <1>4, KeeperFigures DEF ensure_liquidity
    <2> QED
        BY <1>2, <1>4, <2>1 DEF ensure_liquidity
<1>5. ASSUME UNCHANGED total_staked PROVE total_staked' <= total_staked
    BY <1>1, <1>5
<1> QED
    BY <1>3, <1>4, <1>5 DEF VaultCall, set_vault, set_treasury, set_deploy_bps, deploy_to_vault,
       auto_deploy_liquidity, deposit, withdraw_yield

\* Every step but an override moves one record and the total together, or
\* neither.
LEMMA RecordStep ==
    ASSUME RestakePolicy = "settled", "override" \notin Calls, RefineInv, RecordInv, [Next]_vars
    PROVE  RecordInv' /\ (RecordsRest \/ \E w \in Wallets : RecordMoves(w))
<1> USE DEF RefineInv
<1>1. ASSUME UNCHANGED <<stakes, claims>>, total_staked' = total_staked
      PROVE  RecordInv' /\ RecordsRest
    BY <1>1 DEF RecordInv, OneSlot, HeldUntilApproved, RecordsRest, SameHolding
<1>2. ASSUME NEW w \in Wallets, NEW x,
             set_beneficiary(w, x) \/ suspend_stake(w) \/ unsuspend_stake(w, x)
      PROVE  RecordInv' /\ RecordsRest
    <2>1. total_staked' = total_staked
        BY <1>2 DEF set_beneficiary, suspend_stake, unsuspend_stake
    <2> QED
        BY <1>2, <2>1, RecordKept DEF RecordsRest
<1>3. CASE StakerCall
    BY <1>2, <1>3, StakeRecords, ExitRecords, ApproveRecords, SweepRecords, ClaimIdWallet
       DEF StakerCall
<1>4. CASE OracleCall
    BY <1>4, SubmitRecords DEF OracleCall
<1>5. CASE AnyoneCall
    BY <1>5, SweepRecords DEF AnyoneCall
<1>6. CASE AdminCall
    <2>1. ASSUME \/ \E v \in Verdicts, d \in Deadlines : revoke_approval(v, d)
                 \/ pause \/ unpause
                 \/ \E c \in PoolCaps : set_pool_cap(c)
          PROVE  UNCHANGED <<stakes, claims>> /\ total_staked' = total_staked
        BY <2>1 DEF revoke_approval, pause, unpause, set_paused, set_pool_cap
    <2> QED
        BY <1>1, <1>2, <1>6, <2>1, SubmitRecords, CancelRecords, ClaimIdWallet DEF AdminCall
<1>7. CASE RotationCall
    BY <1>1, <1>7 DEF RotationCall, transfer_admin, set_oracle, set_co_signer,
       set_oracle_pubkey, set_oracle_identity, unchanged_but_roles
<1>8. CASE DonationCall \/ Tick \/ UNCHANGED vars
    BY <1>1, <1>8 DEF DonationCall, donate, unchanged_by_vault, Tick, vars
<1>9. CASE VaultCall
    <2>1. UNCHANGED <<stakes, claims>>
        BY <1>9 DEF VaultCall, set_vault, set_treasury, set_deploy_bps, deploy_to_vault,
           auto_deploy_liquidity, deposit, ensure_liquidity, provide_liquidity, extract_yield,
           redeem, withdraw_yield, unchanged_by_vault
    <2>2. total_staked' <= total_staked
        BY <1>9, VaultTotal
    <2> QED
        BY <1>9, <2>1, <2>2 DEF RecordInv, OneSlot, HeldUntilApproved, RecordsRest, SameHolding
<1> QED
    BY <1>3, <1>4, <1>5, <1>6, <1>7, <1>8, <1>9 DEF Next, OverrideCall

\* A step that moves one record moves the sum of the records by its term.
LEMMA OneRecord ==
    ASSUME TypeOK, TypeOK', NEW w \in Wallets, OnlyRecord(w)
    PROVE  TotalHeld' = TotalHeld + Held(w)' - Held(w)
<1> DEFINE held == [u \in Wallets |-> Held(u)]
<1>1. held \in [Wallets -> Int] /\ held' \in [Wallets -> Int]
    BY TermTypes, TermTypesNext DEF TypedTerms
<1>2. \A u \in Wallets : u # w => held'[u] = held[u]
    BY DEF OnlyRecord, Held, holds_stake
<1>3. held'[w] = Held(w)' /\ held[w] = Held(w)
    OBVIOUS
<1>4. TotalHeld = SumFunction(held) /\ TotalHeld' = SumFunction(held')
    BY DEF TotalHeld
<1> HIDE DEF held
<1>5. SumFunction(held') = SumFunction(held) + held'[w] - held[w]
    BY <1>1, <1>2, FiniteClaims, SumUpdate
<1> QED
    BY <1>3, <1>4, <1>5

\* One that moves none leaves it alone.
LEMMA NoRecord == ASSUME \A w \in Wallets : SameHolding(w) PROVE TotalHeld' = TotalHeld
<1>1. \A w \in Wallets : Held(w)' = Held(w)
    BY DEF SameHolding, Held, holds_stake
<1>2. [w \in Wallets |-> Held(w)]' = [w \in Wallets |-> Held(w)]
    BY <1>1
<1> QED
    BY <1>2 DEF TotalHeld

\* A lower total stays within the records.
LEMMA AtMost ==
    ASSUME NEW t \in Int, NEW u \in Int, NEW h \in Int, u <= t, t <= h PROVE u <= h
OBVIOUS

\* The two sides stay apart by as much when both move alike.
LEMMA MoveAlike ==
    ASSUME NEW t \in Int, NEW h \in Int, NEW x \in Int, NEW y \in Int
    PROVE  /\ t = h => t + x - y = h + x - y
           /\ t <= h => t + x - y <= h + x - y
OBVIOUS

\* The sum over the records against the total, along one step.
LEMMA HeldStep ==
    ASSUME RestakePolicy = "settled", "override" \notin Calls, RefineInv, TypeOK', RecordInv,
           [Next]_vars
    PROVE  /\ total_staked <= TotalHeld => total_staked' <= TotalHeld'
           /\ "vault" \notin Calls /\ total_staked = TotalHeld => total_staked' = TotalHeld'
<1>1. TypeOK /\ total_staked \in Int /\ total_staked' \in Int /\ TotalHeld \in Int
    BY TotalsNat DEF RefineInv, TypeOK
<1>2. CASE RecordsRest
    <2>1. TotalHeld' = TotalHeld
        BY <1>2, NoRecord DEF RecordsRest
    <2>2. CASE total_staked' = total_staked
        BY <2>1, <2>2
    <2>3. CASE VaultCall /\ total_staked' <= total_staked
        <3>1. "vault" \in Calls
            BY <2>3 DEF VaultCall
        <3>2. total_staked <= TotalHeld => total_staked' <= TotalHeld
            BY <1>1, <2>3, AtMost
        <3> QED
            BY <2>1, <3>1, <3>2
    <2> QED
        BY <1>2, <2>2, <2>3 DEF RecordsRest
<1>3. ASSUME NEW w \in Wallets, RecordMoves(w)
      PROVE  /\ total_staked <= TotalHeld => total_staked' <= TotalHeld'
             /\ total_staked = TotalHeld => total_staked' = TotalHeld'
    <2>1. total_staked' = total_staked + Held(w)' - Held(w)
        BY <1>3 DEF RecordMoves
    <2>2. TotalHeld' = TotalHeld + Held(w)' - Held(w)
        BY <1>1, <1>3, OneRecord DEF RecordMoves
    <2>3. Held(w) \in Int /\ Held(w)' \in Int
        BY <1>1, TermTypes, TermTypesNext DEF TypedTerms
    <2>4. /\ total_staked = TotalHeld
               => total_staked + Held(w)' - Held(w) = TotalHeld + Held(w)' - Held(w)
          /\ total_staked <= TotalHeld
               => total_staked + Held(w)' - Held(w) <= TotalHeld + Held(w)' - Held(w)
        BY <1>1, <2>3, MoveAlike
    <2> QED
        BY <2>1, <2>2, <2>4
<1> QED
    BY <1>2, <1>3, RecordStep

\* Both start at zero.
LEMMA InitHeld == Init => RecordInv /\ total_staked = TotalHeld /\ total_staked <= TotalHeld
<1> SUFFICES ASSUME Init
             PROVE  RecordInv /\ total_staked = TotalHeld /\ total_staked <= TotalHeld
    OBVIOUS
<1>1. RecordInv
    BY ClaimIdWallet DEF Init, RecordInv, OneSlot, HeldUntilApproved, EmptyStake
<1>2. \A w \in Wallets : Held(w) = 0
    BY DEF Init, EmptyStake, Held, holds_stake
<1>3. TotalHeld = 0
    BY <1>2, FiniteClaims, SumZero DEF TotalHeld
<1>4. total_staked = 0
    BY DEF Init, initialize
<1> QED
    BY <1>1, <1>3, <1>4

\* total_staked is exactly the principal of the records neither withdrawn nor
\* forfeited: every call that moves one moves the other by as much (stake,
\* withdraw, emergency_exit, activate_claim, cancel_claim).  Without overrides,
\* without restaking over an open claim, and without the vault, whose losses
\* are marked down in the total alone.
THEOREM StakedTotalExact ==
    ASSUME RestakePolicy = "settled", "override" \notin Calls, "vault" \notin Calls
    PROVE  Spec => []StakedMatchesRecords
<1>1. TypeOK /\ SlotInv /\ [Next]_vars => SlotInv'
    BY SlotStep
<1>2. TypeOK /\ SlotInv /\ TermsInv /\ [Next]_vars => TermsInv'
    BY StepRefines DEF RefineInv
<1>3. TypeOK /\ SlotInv /\ TermsInv /\ RecordInv /\ [Next]_vars => RecordInv'
    BY RecordStep DEF RefineInv
<1>4. TypeOK /\ TypeOK' /\ SlotInv /\ TermsInv /\ RecordInv /\ [Next]_vars
        => (StakedMatchesRecords => StakedMatchesRecords')
    <2>1. TypeOK /\ TypeOK' /\ SlotInv /\ TermsInv /\ RecordInv /\ [Next]_vars
            => (total_staked = TotalHeld => total_staked' = TotalHeld')
        BY HeldStep DEF RefineInv
    <2> QED
        BY <2>1 DEF StakedMatchesRecords
<1>5. Init => StakedMatchesRecords
    BY InitHeld DEF StakedMatchesRecords
<1> QED
    BY <1>1, <1>2, <1>3, <1>4, <1>5, InitSlots, InitRefines, InitHeld, TypeCorrect, PTL DEF Spec

\* With the vault the total never exceeds the records: a loss marks the total
\* down pool-wide and nothing raises it beyond what the records hold (redeem).
THEOREM StakedTotalNeverInflated ==
    ASSUME RestakePolicy = "settled", "override" \notin Calls
    PROVE  Spec => [](total_staked <= TotalHeld)
<1>1. TypeOK /\ SlotInv /\ [Next]_vars => SlotInv'
    BY SlotStep
<1>2. TypeOK /\ SlotInv /\ TermsInv /\ [Next]_vars => TermsInv'
    BY StepRefines DEF RefineInv
<1>3. TypeOK /\ SlotInv /\ TermsInv /\ RecordInv /\ [Next]_vars => RecordInv'
    BY RecordStep DEF RefineInv
<1>4. TypeOK /\ TypeOK' /\ SlotInv /\ TermsInv /\ RecordInv /\ [Next]_vars
        => (total_staked <= TotalHeld => (total_staked <= TotalHeld)')
    BY HeldStep DEF RefineInv
<1> QED
    BY <1>1, <1>2, <1>3, <1>4, InitSlots, InitRefines, InitHeld, TypeCorrect, PTL DEF Spec
=============================================================================
