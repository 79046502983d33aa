--------------------------- MODULE RefinementProofs ---------------------------
(***************************************************************************)
(* The contract implements the claim life cycle (ClaimLifecycle), for      *)
(* every value of the CONSTANTS, as long as wallets stake again only with  *)
(* no claim open.                                                          *)
(***************************************************************************)
EXTENDS ClaimProofs, PoolRefinement

USE DEF roles, config, totals, daily, yield, clock

-----------------------------------------------------------------------------
(* The abstract state, and how the contract's guards read in it.           *)

Principal == [w \in Wallets |-> PrincipalOf(stakes[w])]
Cover == [id \in ClaimIds |-> CoverOf(claims[id])]

\* A status is live, or open, exactly when its phase is.
LEMMA Phases ==
    ASSUME NEW s \in ClaimStatus
    PROVE  /\ PhaseOf(s) \in Lifecycle!LivePhases <=> s \in Live
           /\ PhaseOf(s) \in Lifecycle!OpenPhases <=> s \in Open
           /\ PhaseOf(s) = "none" <=> s = "Unused"
           /\ PhaseOf(s) = "queued" <=> s = "Reserved"
           /\ PhaseOf(s) = "pending" <=> s = "PendingTime"
           /\ PhaseOf(s) = "awaiting" <=> s = "AwaitingApproval"
           /\ PhaseOf(s) = "streaming" <=> s = "Active"
           /\ PhaseOf(s) = "paid" <=> s = "Completed"
           /\ PhaseOf(s) = "ended" <=> s \in {"Cancelled", "Expired"}
BY DEF PhaseOf, ClaimStatus, Live, Open, Lifecycle!LivePhases, Lifecycle!OpenPhases

\* A step that writes one claim writes one cover.
LEMMA CoverSet ==
    ASSUME NEW id \in ClaimIds, \A i \in ClaimIds : i # id => claims'[i] = claims[i]
    PROVE  Cover' = [Cover EXCEPT ![id] = CoverOf(claims'[id])]
BY DEF Cover, CoverOf, PhaseOf

\* A step that leaves the terms and status of every claim alone moves no cover.
LEMMA CoverKept ==
    ASSUME \A i \in ClaimIds : /\ claims'[i].status = claims[i].status
                               /\ claims'[i].entitlement = claims[i].entitlement
                               /\ claims'[i].streamed = claims[i].streamed
    PROVE  Cover' = Cover
BY DEF Cover, CoverOf, PhaseOf

\* The same for records and principals.
LEMMA PrincipalSet ==
    ASSUME NEW w \in Wallets, \A u \in Wallets : u # w => stakes'[u] = stakes[u]
    PROVE  Principal' = [Principal EXCEPT ![w] = PrincipalOf(stakes'[w])]
BY DEF Principal, PrincipalOf

\* A record with the same amount and mark stands for the same principal.
LEMMA PrincipalKept ==
    ASSUME \A u \in Wallets : /\ stakes'[u].amount = stakes[u].amount
                              /\ stakes'[u].withdrawn = stakes[u].withdrawn
    PROVE  Principal' = Principal
BY DEF Principal, PrincipalOf

\* The abstract reading of one claim and one record.
LEMMA Reading ==
    ASSUME TypeOK, NEW id \in ClaimIds
    PROVE  /\ Cover[id].phase = PhaseOf(claims[id].status)
           /\ Cover[id].owed = claims[id].entitlement
           /\ Cover[id].paid = claims[id].streamed
           /\ Lifecycle!live(id) <=> claims[id].status \in Live
           /\ Lifecycle!due(id) = IF claims[id].status \in Live THEN unstreamed(claims[id]) ELSE 0
           /\ Principal[id[1]].amount = stakes[id[1]].amount
           /\ Principal[id[1]].phase = "none" <=> stakes[id[1]].amount = 0
           /\ Principal[id[1]].phase = "held" <=> holds_stake(stakes[id[1]])
<1>1. claims[id].status \in ClaimStatus /\ id[1] \in Wallets
    BY ClaimIdWallet DEF TypeOK, Claim
<1>2. Lifecycle!live(id) <=> claims[id].status \in Live
    BY <1>1, Phases DEF Lifecycle!live, CoverOf
<1>3. Lifecycle!due(id) = IF claims[id].status \in Live THEN unstreamed(claims[id]) ELSE 0
    BY <1>2 DEF Lifecycle!due, CoverOf, unstreamed
<1>4. stakes[id[1]] \in StakeRecord
    BY <1>1 DEF TypeOK
<1> QED
    BY <1>1, <1>2, <1>3, <1>4 DEF Cover, CoverOf, Principal, PrincipalOf, holds_stake, StakeRecord

\* The abstract covers are the claims.
LEMMA CoversAreClaims == Lifecycle!Covers = ClaimIds
BY DEF Lifecycle!Covers, ClaimIds

-----------------------------------------------------------------------------
(* What the mapping needs of a claim besides its slot: a streaming claim   *)
(* remembers the amount its record still has and vests over the whole      *)
(* period, and a claim not yet approved has been paid nothing.             *)

TermsOK(claim, amount) ==
    /\ claim.status = "Active" =>
          /\ claim.stake = amount
          /\ claim.vesting_ends_ledger = claim.cooldown_ends_ledger + VESTING_LEDGERS
    /\ claim.status \in {"Reserved", "PendingTime", "AwaitingApproval"} =>
          claim.streamed = 0 /\ claim.entitlement > 0

TermsInv == \A id \in ClaimIds : TermsOK(claims[id], stakes[id[1]].amount)

RefineInv == TypeOK /\ SlotInv /\ TermsInv

\* A step on one claim that leaves the amounts of the records alone.
LEMMA LocalTerms ==
    ASSUME TermsInv, NEW id \in ClaimIds,
           \A i \in ClaimIds : i # id => claims'[i] = claims[i],
           \A w \in Wallets : stakes'[w].amount = stakes[w].amount,
           TermsOK(claims'[id], stakes[id[1]].amount)
    PROVE  TermsInv'
BY ClaimIdWallet DEF TermsInv, TermsOK

\* A step on one record whose wallet has no open claim.
LEMMA FreeTerms ==
    ASSUME TermsInv, NEW w \in Wallets, claims' = claims,
           \A u \in Wallets : u # w => stakes'[u] = stakes[u],
           \A i \in ClaimIds : i[1] = w => claims[i].status # "Active"
    PROVE  TermsInv'
BY ClaimIdWallet DEF TermsInv, TermsOK

Implements == [Lifecycle!LifecycleNext]_(Lifecycle!lifecycle_vars)

\* A step that moves neither claim, nor principal, nor total.
LEMMA Stutter ==
    ASSUME TermsInv,
           \A i \in ClaimIds : claims'[i] = claims[i],
           \A u \in Wallets : /\ stakes'[u].amount = stakes[u].amount
                              /\ stakes'[u].withdrawn = stakes[u].withdrawn,
           total_allocated' = total_allocated, total_staked' = total_staked
    PROVE  TermsInv' /\ Implements
<1>1. Cover' = Cover /\ Principal' = Principal
    BY CoverKept, PrincipalKept
<1>2. UNCHANGED Lifecycle!lifecycle_vars
    BY <1>1 DEF Lifecycle!lifecycle_vars, Cover, Principal
<1>3. TermsInv'
    BY ClaimIdWallet DEF TermsInv, TermsOK
<1> QED
    BY <1>2, <1>3 DEF Implements

-----------------------------------------------------------------------------
(* Staking.                                                                *)

\* stake is Deposit.
LEMMA StakeRefines ==
    ASSUME RefineInv, RestakePolicy = "settled", NEW w \in Wallets, NEW a \in StakeAmounts,
           NEW b, may_stake(w), stake(w, a, b)
    PROVE  TermsInv' /\ Implements
<1>1. a \in Nat /\ a > 0
    BY CallInputsAssumption DEF stake
<1>2. /\ claims' = claims /\ total_allocated' = total_allocated
      /\ total_staked' = total_staked + a
    BY DEF stake
<1>3. /\ \A u \in Wallets : u # w => stakes'[u] = stakes[u]
      /\ stakes'[w].amount = a /\ stakes'[w].withdrawn = FALSE
    BY DEF stake, EmptyStake, RefineInv, TypeOK
<1>4. \A i \in ClaimIds : i[1] = w => claims[i].status \notin Open
    BY DEF may_stake, ClaimsOf
<1>5. TermsInv'
    BY <1>2, <1>3, <1>4, FreeTerms DEF RefineInv, Open, Live
<1>6. Cover' = Cover
    BY <1>2, CoverKept
<1>7. Principal' = [Principal EXCEPT ![w] = [phase |-> "held", amount |-> a]]
    BY <1>1, <1>3, PrincipalSet DEF PrincipalOf
<1>8. Principal[w].phase # "held"
    BY DEF stake, holds_stake, Principal, PrincipalOf, RefineInv, TypeOK, StakeRecord
<1>9. \A c \in ClaimIds : c[1] = w => Cover[c].phase \notin Lifecycle!OpenPhases
    <2>1. ASSUME NEW c \in ClaimIds PROVE claims[c].status \in ClaimStatus
        BY DEF RefineInv, TypeOK, Claim
    <2> QED
        BY <1>4, <2>1, Phases DEF Cover, CoverOf
<1>10. Lifecycle!Deposit(w)
    BY <1>2, <1>6, <1>7, <1>8, <1>9, CoversAreClaims DEF Lifecycle!Deposit, Cover, Principal
<1> QED
    BY <1>5, <1>10 DEF Implements, Lifecycle!LifecycleNext

\* withdraw and emergency_exit are Withdraw: an empty active slot means no
\* live claim.
LEMMA ExitRefines ==
    ASSUME RefineInv, NEW w \in Wallets, NEW b, withdraw(w, b) \/ emergency_exit(w)
    PROVE  TermsInv' /\ Implements
<1>1. holds_stake(stakes[w]) /\ stakes[w].active_claim_id = None /\ close_stake(w)
    BY DEF withdraw, emergency_exit
<1>2. claims' = claims /\ total_allocated' = total_allocated
    BY DEF withdraw, emergency_exit
<1>3. total_staked' = total_staked - stakes[w].amount
    BY <1>1 DEF close_stake
<1>4. /\ \A u \in Wallets : u # w => stakes'[u] = stakes[u]
      /\ stakes'[w].amount = 0
    BY <1>1 DEF close_stake, RefineInv, TypeOK, StakeRecord
<1>5. \A i \in ClaimIds : i[1] = w => claims[i].status \notin Live
    BY <1>1, InputsAssumption DEF RefineInv, SlotInv, ClaimSlots
<1>6. TermsInv'
    BY <1>2, <1>4, <1>5, FreeTerms DEF RefineInv, Live
<1>7. Cover' = Cover
    BY <1>2, CoverKept
<1>8. Principal' = [Principal EXCEPT ![w] = [phase |-> "none", amount |-> 0]]
    BY <1>4, PrincipalSet DEF PrincipalOf
<1>9. Principal[w].phase = "held" /\ Principal[w].amount = stakes[w].amount
    BY <1>1 DEF holds_stake, Principal, PrincipalOf, RefineInv, TypeOK, StakeRecord
<1>10. \A c \in ClaimIds : c[1] = w => ~Lifecycle!live(c)
    BY <1>5, Reading DEF RefineInv
<1>11. Lifecycle!Withdraw(w)
    BY <1>2, <1>3, <1>7, <1>8, <1>9, <1>10, CoversAreClaims
       DEF Lifecycle!Withdraw, Cover, Principal
<1> QED
    BY <1>6, <1>11 DEF Implements, Lifecycle!LifecycleNext

-----------------------------------------------------------------------------
(* Submission, the queue and the staker's decision.                        *)

\* A wallet whose active slot is free, or names a claim that is not live, has
\* no live cover.
LEMMA NoneLive ==
    ASSUME RefineInv, NEW id \in ClaimIds, stakes[id[1]].active_claim_id \in {None, id},
           claims[id].status \notin Live
    PROVE  \A c \in ClaimIds : c[1] = id[1] => ~Lifecycle!live(c)
<1> SUFFICES ASSUME NEW c \in ClaimIds, c[1] = id[1], claims[c].status \in Live PROVE FALSE
    BY Reading DEF RefineInv
<1>1. stakes[id[1]].active_claim_id = c
    BY DEF RefineInv, SlotInv, ClaimSlots
<1> QED
    BY <1>1, InputsAssumption

\* admit_claim is Admit.
LEMMA AdmitRefines ==
    ASSUME RefineInv, NEW id \in ClaimIds, NEW e \in Nat, NEW tier, NEW h, NEW counted,
           e > 0, ~insolvent(e), admit_claim(id, e, tier, h, counted),
           stakes[id[1]].active_claim_id \in {None, id},
           \/ claims[id].status = "Reserved" /\ e = claims[id].entitlement
           \/ /\ claims[id].status = "Unused" /\ holds_stake(stakes[id[1]])
              /\ \E v \in Verdicts : e = v.entitlement
    PROVE  TermsInv' /\ Implements
<1>1. /\ \A i \in ClaimIds : i # id => claims'[i] = claims[i]
      /\ claims'[id].status \in {"PendingTime", "AwaitingApproval"}
      /\ claims'[id].entitlement = e /\ claims'[id].streamed = 0
    BY DEF admit_claim, new_claim, RefineInv, TypeOK
<1>2. /\ total_allocated' = total_allocated + e /\ total_staked' = total_staked
      /\ total_allocated + e <= total_staked
    BY DEF admit_claim, insolvent, RefineInv, TypeOK
<1>3. \A u \in Wallets : /\ stakes'[u].amount = stakes[u].amount
                         /\ stakes'[u].withdrawn = stakes[u].withdrawn
    BY DEF admit_claim, RefineInv, TypeOK, StakeRecord
<1>4. TermsInv'
    BY <1>1, <1>3, LocalTerms DEF RefineInv, TermsOK
<1>5. Principal' = Principal
    BY <1>3, PrincipalKept
<1>6. PICK phase \in {"pending", "awaiting"} :
         Cover' = [Cover EXCEPT ![id] = [phase |-> phase, owed |-> e, paid |-> 0]]
    <2>1. PhaseOf(claims'[id].status) \in {"pending", "awaiting"}
        BY <1>1 DEF PhaseOf
    <2>2. CoverOf(claims'[id]) = [phase |-> PhaseOf(claims'[id].status), owed |-> e, paid |-> 0]
        BY <1>1 DEF CoverOf
    <2> QED
        BY <1>1, <2>1, <2>2, CoverSet
<1>7. claims[id].status \notin Live
    BY DEF Live
<1>8. \A c \in ClaimIds : c[1] = id[1] => ~Lifecycle!live(c)
    BY <1>7, NoneLive
<1>9. Lifecycle!Admit(id)
    <2>1. CASE claims[id].status = "Reserved" /\ e = claims[id].entitlement
        <3>1. Cover[id].phase = "queued" /\ Cover[id].owed = e
            BY <2>1, Reading DEF RefineInv, PhaseOf
        <3> QED
            BY <1>2, <1>5, <1>6, <1>8, <3>1, CoversAreClaims
               DEF Lifecycle!Admit, Lifecycle!fresh, Cover, Principal
    <2>2. CASE /\ claims[id].status = "Unused" /\ holds_stake(stakes[id[1]])
               /\ \E v \in Verdicts : e = v.entitlement
        <3>1. Cover[id].phase = "none" /\ Principal[id[1]].phase = "held"
            BY <2>2, Reading DEF RefineInv, PhaseOf
        <3>2. e \in {v.entitlement : v \in Verdicts} \cup {t.entitlement : t \in OverrideTerms}
            BY <2>2
        <3> QED
            BY <1>2, <1>5, <1>6, <1>8, <3>1, <3>2, CoversAreClaims
               DEF Lifecycle!Admit, Lifecycle!fresh, Cover, Principal
    <2> QED
        BY <2>1, <2>2
<1> QED
    BY <1>4, <1>9, CoversAreClaims DEF Implements, Lifecycle!LifecycleNext

\* submit_claim is Queue or Admit.
LEMMA SubmitRefines ==
    ASSUME RefineInv, NEW caller, NEW v \in Verdicts, NEW d, NEW k,
           submit_claim(caller, v, d, k)
    PROVE  TermsInv' /\ Implements
<1> DEFINE id == compute_claim_id(v)
           e == v.entitlement
<1>1. id \in ClaimIds /\ id[1] = v.wallet /\ e \in Nat /\ e > 0
    BY VerdictFields, InputsAssumption DEF Verdict
<1>2. /\ stakes[id[1]].active_claim_id = None /\ stakes[id[1]].reserved_claim_id = None
      /\ claims[id].status = "Unused" /\ holds_stake(stakes[id[1]])
    BY <1>1 DEF submit_claim, submit_claim_queued, submit_claim_admitted, submit_checks
<1>3. CASE submit_claim_admitted(caller, v, d, k)
    <2>1. ~insolvent(e)
        BY <1>3 DEF submit_claim_admitted, must_queue
    <2> QED
        BY <1>1, <1>2, <1>3, <2>1, AdmitRefines DEF submit_claim_admitted
<1>4. CASE submit_claim_queued(caller, v, d, k)
    <2>1. /\ \A i \in ClaimIds : i # id => claims'[i] = claims[i]
          /\ claims'[id].status = "Reserved"
          /\ claims'[id].entitlement = e /\ claims'[id].streamed = 0
        BY <1>1, <1>4 DEF submit_claim_queued, new_claim, RefineInv, TypeOK
    <2>2. total_allocated' = total_allocated /\ total_staked' = total_staked
        BY <1>4 DEF submit_claim_queued
    <2>3. \A u \in Wallets : /\ stakes'[u].amount = stakes[u].amount
                             /\ stakes'[u].withdrawn = stakes[u].withdrawn
        BY <1>4 DEF submit_claim_queued, RefineInv, TypeOK, StakeRecord
    <2> HIDE DEF id, e
    <2>4. TermsInv'
        BY <1>1, <2>1, <2>3, LocalTerms DEF RefineInv, TermsOK
    <2>5. Principal' = Principal
        BY <2>3, PrincipalKept
    <2>6. Cover' = [Cover EXCEPT ![id] = [phase |-> "queued", owed |-> e, paid |-> 0]]
        BY <1>1, <2>1, CoverSet DEF CoverOf, PhaseOf
    <2>7. \A c \in ClaimIds : c[1] = id[1] => Cover[c].phase \notin Lifecycle!OpenPhases
        <3> SUFFICES ASSUME NEW c \in ClaimIds, c[1] = id[1] PROVE claims[c].status \notin Open
            BY Phases DEF Cover, CoverOf, RefineInv, TypeOK, Claim
        <3> QED
            BY <1>2, InputsAssumption DEF RefineInv, SlotInv, ClaimSlots, Open
    <2>8. Cover[id].phase = "none" /\ Principal[id[1]].phase = "held"
        BY <1>1, <1>2, Reading DEF RefineInv, PhaseOf
    <2>9. e \in {u.entitlement : u \in Verdicts} \cup {t.entitlement : t \in OverrideTerms}
        BY DEF e
    <2>10. Lifecycle!Queue(id)
        BY <2>2, <2>5, <2>6, <2>7, <2>8, <2>9, CoversAreClaims
           DEF Lifecycle!Queue, Lifecycle!fresh, Cover, Principal
    <2> QED
        BY <1>1, <2>4, <2>10, CoversAreClaims DEF Implements, Lifecycle!LifecycleNext
<1> QED
    BY <1>3, <1>4 DEF submit_claim

\* A release from the queue is Admit, on the terms the claim was queued with.
LEMMA ReleaseRefines ==
    ASSUME RefineInv, NEW id \in ClaimIds, try_release_queued_claim(id)
    PROVE  TermsInv' /\ Implements
<1>1. /\ claims[id].status = "Reserved" /\ claims[id].entitlement \in Nat
      /\ claims[id].entitlement > 0
    BY DEF try_release_queued_claim, RefineInv, TermsInv, TermsOK, TypeOK, Claim
<1> QED
    BY <1>1, AdmitRefines DEF try_release_queued_claim, slot_free

\* A step that moves one claim to another status enters the phase of it.
LEMMA Enter ==
    ASSUME TypeOK, NEW id \in ClaimIds, NEW status,
           \A i \in ClaimIds : i # id => claims'[i] = claims[i],
           claims'[id].status = status, claims'[id].entitlement = claims[id].entitlement,
           claims'[id].streamed = claims[id].streamed
    PROVE  Lifecycle!enter(id, PhaseOf(status))
<1>1. Cover' = [Cover EXCEPT ![id] = CoverOf(claims'[id])]
    BY CoverSet
<1>2. CoverOf(claims'[id]) = [CoverOf(claims[id]) EXCEPT !.phase = PhaseOf(status)]
    BY DEF CoverOf
<1>3. Cover' = [Cover EXCEPT ![id].phase = PhaseOf(status)]
    BY <1>1, <1>2 DEF Cover
<1> QED
    BY <1>3 DEF Lifecycle!enter, Cover

\* The time gate opens.
LEMMA UnlockRefines ==
    ASSUME RefineInv, NEW id \in ClaimIds, unlock_pending_claim(id)
    PROVE  TermsInv' /\ Implements
<1>1. claims[id] \in Claim
    BY DEF RefineInv, TypeOK
<1>2. /\ \A i \in ClaimIds : i # id => claims'[i] = claims[i]
      /\ claims[id].status = "PendingTime" /\ claims'[id].status = "AwaitingApproval"
      /\ claims'[id].entitlement = claims[id].entitlement
      /\ claims'[id].streamed = claims[id].streamed
    BY <1>1 DEF unlock_pending_claim, RefineInv, TypeOK, Claim
<1>3. /\ stakes' = stakes /\ total_allocated' = total_allocated
      /\ total_staked' = total_staked
    BY DEF unlock_pending_claim
<1>4. TermsOK(claims'[id], stakes[id[1]].amount)
    BY <1>2 DEF RefineInv, TermsInv, TermsOK
<1>5. TermsInv'
    BY <1>2, <1>3, <1>4, LocalTerms DEF RefineInv
<1>6. Lifecycle!enter(id, "awaiting")
    BY <1>2, Enter DEF RefineInv, PhaseOf
<1>7. Cover[id].phase = "pending"
    BY <1>2, Reading DEF RefineInv, PhaseOf
<1>8. Principal' = Principal
    BY <1>3, PrincipalKept
<1>9. Lifecycle!Ripen(id)
    BY <1>3, <1>6, <1>7, <1>8 DEF Lifecycle!Ripen, Cover, Principal
<1> QED
    BY <1>5, <1>9, CoversAreClaims DEF Implements, Lifecycle!LifecycleNext

\* The three expiries are Lapse: each releases what the claim still reserves.
LEMMA LapseRefines ==
    ASSUME RefineInv, NEW id \in ClaimIds,
           \/ expire_queued_claim(id) \/ expire_pending_approval(id)
           \/ expire_stale_claim(id)
    PROVE  TermsInv' /\ Implements
<1>1. /\ claims[id] \in Claim /\ claims[id].entitlement \in Nat
      /\ claims[id].streamed \in Nat /\ total_allocated \in Int
    BY DEF RefineInv, TypeOK, Claim
<1>2. /\ \A i \in ClaimIds : i # id => claims'[i] = claims[i]
      /\ claims'[id].status = "Expired"
      /\ claims'[id].entitlement = claims[id].entitlement
      /\ claims'[id].streamed = claims[id].streamed
    BY <1>1 DEF expire_queued_claim, expire_pending_approval, expire_stale_claim,
       release_claim, RefineInv, TypeOK, Claim
<1>3. \A u \in Wallets : /\ stakes'[u].amount = stakes[u].amount
                         /\ stakes'[u].withdrawn = stakes[u].withdrawn
    BY DEF expire_queued_claim, expire_pending_approval, expire_stale_claim, free_slot,
       RefineInv, TypeOK, StakeRecord
<1>4. total_staked' = total_staked
    BY DEF expire_queued_claim, expire_pending_approval, expire_stale_claim
<1>5. /\ claims[id].status \in {"Reserved", "AwaitingApproval", "Active"}
      /\ claims[id].streamed < claims[id].entitlement
    BY <1>1 DEF expire_queued_claim, expire_pending_approval, expire_stale_claim, RefineInv,
       TermsInv, TermsOK
<1>6. total_allocated' = total_allocated - Lifecycle!due(id)
    <2>1. CASE expire_queued_claim(id)
        <3>1. claims[id].status = "Reserved" /\ total_allocated' = total_allocated
            BY <2>1 DEF expire_queued_claim
        <3>2. Lifecycle!due(id) = 0
            BY <3>1, Reading DEF RefineInv, Live
        <3> QED
            BY <1>1, <3>1, <3>2
    <2>2. CASE expire_pending_approval(id)
        <3>1. /\ claims[id].status = "AwaitingApproval" /\ claims[id].streamed = 0
              /\ total_allocated' = total_allocated - claims[id].entitlement
            BY <2>2 DEF expire_pending_approval, release_claim, RefineInv, TermsInv, TermsOK
        <3>2. Lifecycle!due(id) = claims[id].entitlement - claims[id].streamed
            BY <3>1, Reading DEF RefineInv, Live, unstreamed
        <3> QED
            BY <1>1, <3>1, <3>2
    <2>3. CASE expire_stale_claim(id)
        <3>1. /\ claims[id].status = "Active"
              /\ total_allocated' = total_allocated - unstreamed(claims[id])
            BY <2>3 DEF expire_stale_claim, release_claim
        <3>2. Lifecycle!due(id) = unstreamed(claims[id])
            BY <3>1, Reading DEF RefineInv, Live
        <3> QED
            BY <3>1, <3>2
    <2> QED
        BY <2>1, <2>2, <2>3
<1>7. TermsInv'
    BY <1>2, <1>3, LocalTerms DEF RefineInv, TermsOK
<1>8. Lifecycle!enter(id, "ended")
    BY <1>2, Enter DEF RefineInv, PhaseOf
<1>9. Cover[id].phase \in {"queued", "awaiting", "streaming"} /\ Cover[id].paid < Cover[id].owed
    BY <1>5, Reading DEF RefineInv, PhaseOf
<1>10. Principal' = Principal
    BY <1>3, PrincipalKept
<1>11. Lifecycle!Lapse(id)
    BY <1>4, <1>6, <1>8, <1>9, <1>10 DEF Lifecycle!Lapse, Cover, Principal
<1> QED
    BY <1>7, <1>11, CoversAreClaims DEF Implements, Lifecycle!LifecycleNext

\* A record forfeited, seen abstractly.
LEMMA Forfeit ==
    ASSUME TypeOK, NEW w \in Wallets, \A u \in Wallets : u # w => stakes'[u] = stakes[u],
           stakes'[w].amount = stakes[w].amount, stakes'[w].withdrawn = TRUE,
           total_staked' = total_staked - stakes[w].amount
    PROVE  Lifecycle!forfeit(w)
<1>1. stakes[w].amount \in Nat
    BY DEF TypeOK, StakeRecord
<1>2. Principal' = [Principal EXCEPT ![w] = PrincipalOf(stakes'[w])]
    BY PrincipalSet
<1>3. PrincipalOf(stakes'[w]) =
        [Principal[w] EXCEPT !.phase = IF @ = "none" THEN @ ELSE "forfeited"]
    BY DEF Principal, PrincipalOf
<1>4. Principal' = [Principal EXCEPT ![w].phase = IF @ = "none" THEN @ ELSE "forfeited"]
    BY <1>2, <1>3 DEF Principal
<1>5. Principal[w].amount = stakes[w].amount
    BY DEF Principal, PrincipalOf
<1> QED
    BY <1>4, <1>5 DEF Lifecycle!forfeit, Principal

\* The staker's approval is Approve.
LEMMA ApproveRefines ==
    ASSUME RefineInv, NEW id \in ClaimIds, approve_claim(id)
    PROVE  TermsInv' /\ Implements
<1>1. claims[id] \in Claim /\ id[1] \in Wallets /\ stakes[id[1]] \in StakeRecord
    BY ClaimIdWallet DEF RefineInv, TypeOK
<1>2. /\ \A i \in ClaimIds : i # id => claims'[i] = claims[i]
      /\ claims[id].status = "AwaitingApproval" /\ claims'[id].status = "Active"
      /\ claims'[id].entitlement = claims[id].entitlement
      /\ claims'[id].streamed = claims[id].streamed
      /\ claims'[id].stake = stakes[id[1]].amount
      /\ claims'[id].vesting_ends_ledger = claims'[id].cooldown_ends_ledger + VESTING_LEDGERS
    BY <1>1 DEF approve_claim, activate_claim, start_clocks, RefineInv, TypeOK, Claim
<1>3. /\ \A u \in Wallets : u # id[1] => stakes'[u] = stakes[u]
      /\ stakes'[id[1]].amount = stakes[id[1]].amount
      /\ stakes'[id[1]].withdrawn = TRUE
    BY <1>1 DEF approve_claim, activate_claim, forfeited, RefineInv, TypeOK, StakeRecord
<1>4. total_staked' = total_staked - stakes[id[1]].amount /\ total_allocated' = total_allocated
    BY DEF approve_claim, activate_claim
<1>5. TermsInv'
    BY <1>2, <1>3, LocalTerms DEF RefineInv, TermsOK
<1>6. Lifecycle!enter(id, "streaming")
    BY <1>2, Enter DEF RefineInv, PhaseOf
<1>7. Cover[id].phase = "awaiting"
    BY <1>2, Reading DEF RefineInv, PhaseOf
<1>8. Lifecycle!forfeit(id[1])
    BY <1>1, <1>3, <1>4, Forfeit DEF RefineInv
<1>9. Lifecycle!Approve(id)
    BY <1>4, <1>6, <1>7, <1>8 DEF Lifecycle!Approve, Cover
<1> QED
    BY <1>5, <1>9, CoversAreClaims DEF Implements, Lifecycle!LifecycleNext

-----------------------------------------------------------------------------
(* Payout and reversal.                                                    *)

\* Vesting stops at the entitlement, so a payout never passes it.
LEMMA ClaimableWithinDue ==
    ASSUME TypeOK, NEW id \in ClaimIds,
           claims[id].vesting_ends_ledger = claims[id].cooldown_ends_ledger + VESTING_LEDGERS
    PROVE  claimable(claims[id]) <= claims[id].entitlement - claims[id].streamed
<1> DEFINE c == claims[id]
           elapsed == SatSub(MinOf(ledger, c.vesting_ends_ledger), c.cooldown_ends_ledger)
<1>1. /\ c.entitlement \in Nat /\ c.streamed \in Nat /\ c.vesting_ends_ledger \in Nat
      /\ c.cooldown_ends_ledger \in Nat /\ ledger \in Nat
      /\ c.vesting_ends_ledger = c.cooldown_ends_ledger + VESTING_LEDGERS
    BY DEF TypeOK, Claim
<1> HIDE DEF c
<1>2. elapsed \in Nat /\ elapsed <= VESTING_LEDGERS
    BY <1>1, DurationsAssumption DEF SatSub, MinOf
<1> HIDE DEF elapsed
<1>3. pro_rata(c.entitlement, elapsed, VESTING_LEDGERS) \in Nat
      /\ pro_rata(c.entitlement, elapsed, VESTING_LEDGERS) <= c.entitlement
    BY <1>1, <1>2, ProRataBounded, DurationsAssumption
<1>4. claimable(c) = pro_rata(c.entitlement, elapsed, VESTING_LEDGERS) - c.streamed
    BY DEF claimable, vested_of, pro_rata, elapsed
<1>5. claimable(c) <= c.entitlement - c.streamed
    BY <1>1, <1>3, <1>4
<1> QED
    BY <1>5 DEF c

\* claim_stream is Pay.
LEMMA StreamRefines ==
    ASSUME RefineInv, NEW id \in ClaimIds, NEW b, claim_stream(id, b)
    PROVE  TermsInv' /\ Implements
<1> DEFINE c == claims[id]
           amount == MinOf(claimable(c), available_today(c))
           after == c.streamed + amount
<1>1. c \in Claim /\ c.entitlement \in Nat /\ c.streamed \in Nat
    BY DEF RefineInv, TypeOK, Claim
<1>2. /\ claims[id].status = "Active"
      /\ claims[id].vesting_ends_ledger = claims[id].cooldown_ends_ledger + VESTING_LEDGERS
    BY DEF claim_stream, RefineInv, TermsInv, TermsOK
<1>3. amount \in Int /\ amount <= c.entitlement - c.streamed
    BY <1>1, <1>2, StreamFigures, ClaimableWithinDue DEF RefineInv, MinOf
<1>4. amount > 0 /\ total_allocated' = total_allocated - amount
    BY DEF claim_stream, may_transfer
<1>5. stakes' = stakes /\ total_staked' = total_staked
    BY DEF claim_stream
<1>6. /\ \A i \in ClaimIds : i # id => claims'[i] = claims[i]
      /\ claims'[id].entitlement = c.entitlement /\ claims'[id].streamed = after
      /\ claims'[id].status = IF after >= c.entitlement THEN "Completed" ELSE "Active"
      /\ claims'[id].stake = c.stake
      /\ claims'[id].vesting_ends_ledger = c.vesting_ends_ledger
      /\ claims'[id].cooldown_ends_ledger = c.cooldown_ends_ledger
    <2> DEFINE paid == [c EXCEPT !.streamed = @ + amount, !.last_collected_ledger = ledger]
    <2>1. claims' = [claims EXCEPT ![id] = IF paid.streamed >= paid.entitlement
                                           THEN [paid EXCEPT !.status = "Completed"]
                                           ELSE paid]
        BY DEF claim_stream
    <2> HIDE DEF amount
    <2> QED
        BY <1>1, <1>2, <2>1 DEF RefineInv, TypeOK, Claim
<1> HIDE DEF amount
<1>7. TermsOK(claims'[id], stakes[id[1]].amount)
    BY <1>2, <1>6 DEF RefineInv, TermsInv, TermsOK
<1>8. TermsInv'
    BY <1>5, <1>6, <1>7, LocalTerms DEF RefineInv
<1>9. after >= c.entitlement <=> after = c.entitlement
    BY <1>1, <1>3
<1> HIDE DEF after
<1>10. CoverOf(claims'[id]) = [phase |-> IF after = c.entitlement THEN "paid" ELSE "streaming",
                               owed |-> c.entitlement, paid |-> after]
    BY <1>6, <1>9 DEF CoverOf, PhaseOf
<1>11. Cover[id] = [phase |-> "streaming", owed |-> c.entitlement, paid |-> c.streamed]
    BY <1>2 DEF Cover, CoverOf, PhaseOf
<1>12. Cover' = [Cover EXCEPT ![id] =
                   [phase |-> IF Cover[id].paid + amount = Cover[id].owed
                              THEN "paid" ELSE "streaming",
                    owed |-> Cover[id].owed, paid |-> Cover[id].paid + amount]]
    BY <1>6, <1>10, <1>11, CoverSet DEF after
<1>13. Principal' = Principal
    BY <1>5, PrincipalKept
<1>14. amount \in 1..(Cover[id].owed - Cover[id].paid)
    BY <1>1, <1>3, <1>4, <1>11
<1>15. Cover[id].phase = "streaming"
    BY <1>11
<1>16. Lifecycle!Pay(id)
    BY <1>4, <1>5, <1>12, <1>13, <1>14, <1>15 DEF Lifecycle!Pay, Cover, Principal
<1> QED
    BY <1>8, <1>16, CoversAreClaims DEF Implements, Lifecycle!LifecycleNext

\* cancel_claim is Cancel: the stake the claim remembers is the record's.
LEMMA CancelRefines ==
    ASSUME RefineInv, NEW id \in ClaimIds, cancel_claim(id)
    PROVE  TermsInv' /\ Implements
<1>1. /\ claims[id] \in Claim /\ id[1] \in Wallets /\ stakes[id[1]] \in StakeRecord
      /\ stakes[id[1]].amount \in Nat
    BY ClaimIdWallet DEF RefineInv, TypeOK, StakeRecord
<1>2. /\ \A i \in ClaimIds : i # id => claims'[i] = claims[i]
      /\ claims[id].status \in Live /\ claims'[id].status = "Cancelled"
      /\ claims'[id].entitlement = claims[id].entitlement
      /\ claims'[id].streamed = claims[id].streamed
    BY <1>1 DEF cancel_claim, cancel_active, cancel_unforfeited, release_claim, RefineInv,
       TypeOK, Claim, Live
<1>3. total_allocated' = total_allocated - Lifecycle!due(id)
    BY <1>2, Reading DEF cancel_claim, release_claim, RefineInv
<1>4. \A u \in Wallets : stakes'[u].amount = stakes[u].amount
    BY DEF cancel_claim, cancel_active, cancel_unforfeited, free_slot, RefineInv, TypeOK,
       StakeRecord
<1>5. TermsInv'
    BY <1>2, <1>4, LocalTerms DEF RefineInv, TermsOK
<1>6. Lifecycle!enter(id, "ended")
    BY <1>2, Enter DEF RefineInv, PhaseOf
<1>7. Lifecycle!live(id)
    BY <1>2, Reading DEF RefineInv
<1>8. CASE cancel_active(id)
    <2>1. claims[id].status = "Active" /\ claims[id].stake = stakes[id[1]].amount
        BY <1>8 DEF cancel_active, RefineInv, TermsInv, TermsOK
    <2>2. total_staked' = total_staked + stakes[id[1]].amount
        BY <1>8, <2>1 DEF cancel_active
    <2>3. /\ \A u \in Wallets : u # id[1] => stakes'[u] = stakes[u]
          /\ stakes'[id[1]].withdrawn = FALSE
        BY <1>1, <1>8 DEF cancel_active, RefineInv, TypeOK, StakeRecord
    <2>4. Principal' = [Principal EXCEPT ![id[1]] = PrincipalOf(stakes'[id[1]])]
        BY <1>1, <2>3, PrincipalSet
    <2>5. PrincipalOf(stakes'[id[1]]) =
            [Principal[id[1]] EXCEPT !.phase = IF @ = "none" THEN @ ELSE "held"]
        BY <1>1, <1>4, <2>3 DEF Principal, PrincipalOf
    <2>6. Principal' =
            [Principal EXCEPT ![id[1]].phase = IF @ = "none" THEN @ ELSE "held"]
        BY <1>1, <2>4, <2>5 DEF Principal
    <2>7. Cover[id].phase = "streaming" /\ Principal[id[1]].amount = stakes[id[1]].amount
        BY <2>1, Reading DEF RefineInv, PhaseOf
    <2>8. Lifecycle!restore(id[1])
        BY <2>2, <2>6, <2>7 DEF Lifecycle!restore, Principal
    <2>9. Lifecycle!Cancel(id)
        BY <1>3, <1>6, <1>7, <2>7, <2>8 DEF Lifecycle!Cancel, Cover
    <2> QED
        BY <1>5, <2>9, CoversAreClaims DEF Implements, Lifecycle!LifecycleNext
<1>9. CASE cancel_unforfeited(id)
    <2>1. /\ claims[id].status \in {"PendingTime", "AwaitingApproval"}
          /\ total_staked' = total_staked
        BY <1>9 DEF cancel_unforfeited
    <2>2. \A u \in Wallets : stakes'[u].withdrawn = stakes[u].withdrawn
        BY <1>9 DEF cancel_unforfeited, free_slot, RefineInv, TypeOK, StakeRecord
    <2>3. Principal' = Principal
        BY <1>4, <2>2, PrincipalKept
    <2>4. Cover[id].phase # "streaming"
        BY <2>1, Reading DEF RefineInv, PhaseOf
    <2>5. Lifecycle!Cancel(id)
        BY <1>3, <1>6, <1>7, <2>1, <2>3, <2>4 DEF Lifecycle!Cancel, Cover, Principal
    <2> QED
        BY <1>5, <2>5, CoversAreClaims DEF Implements, Lifecycle!LifecycleNext
<1> QED
    BY <1>8, <1>9 DEF cancel_claim

-----------------------------------------------------------------------------
(* The override.                                                           *)

\* Execution is Override, over a held principal or a forfeited one.
LEMMA ExecuteRefines ==
    ASSUME RefineInv, NEW id \in ClaimIds, NEW req \in OverrideRequest,
           execute_override(id, req), \E t \in OverrideTerms : req.entitlement = t.entitlement
    PROVE  TermsInv' /\ Implements
<1> DEFINE e == req.entitlement
           record == stakes[id[1]]
<1>1. /\ claims[id] \in Claim /\ id[1] \in Wallets /\ record \in StakeRecord
      /\ record.amount \in Nat /\ e \in Nat
    BY ClaimIdWallet DEF RefineInv, TypeOK, StakeRecord, OverrideRequest
<1>2. /\ claims[id].status # "Completed" /\ record.active_claim_id \in {None, id}
      /\ record.amount > 0
    BY DEF execute_override, slot_free
<1>3. /\ override_record(id) \in StakeRecord
      /\ override_record(id).amount = record.amount
      /\ override_record(id).withdrawn = record.withdrawn
    BY <1>1 DEF override_record, StakeRecord
<1>4. released_by_override(claims[id]) = Lifecycle!due(id)
    BY Reading DEF RefineInv, released_by_override, Live
<1>5. released_by_override(claims[id]) \in Int
    BY <1>1 DEF released_by_override, unstreamed, Claim
<1>6. /\ total_allocated' = total_allocated - Lifecycle!due(id) + e
      /\ total_allocated' <= total_staked + (IF record.withdrawn THEN record.amount ELSE 0)
    BY <1>4 DEF execute_override
<1>7. /\ \A i \in ClaimIds : i # id => claims'[i] = claims[i]
      /\ claims'[id].status = "Active" /\ claims'[id].entitlement = e
      /\ claims'[id].streamed = carried_streamed(claims[id])
      /\ claims'[id].stake = record.amount
      /\ claims'[id].vesting_ends_ledger = claims'[id].cooldown_ends_ledger + VESTING_LEDGERS
    <2>1. CASE record.withdrawn
        <3>1. claims' = [claims EXCEPT ![id] =
                           start_clocks(override_claim(id, req), total_staked)]
            BY <2>1 DEF execute_override
        <3> QED
            BY <3>1 DEF start_clocks, override_claim, new_claim, RefineInv, TypeOK
    <2>2. CASE ~record.withdrawn
        <3>1. activate_claim(id, override_record(id), override_claim(id, req))
            BY <2>2 DEF execute_override
        <3> QED
            BY <1>3, <3>1 DEF activate_claim, start_clocks, override_claim, new_claim,
               RefineInv, TypeOK
    <2> QED
        BY <2>1, <2>2
<1>8. /\ \A u \in Wallets : u # id[1] => stakes'[u] = stakes[u]
      /\ stakes'[id[1]].amount = record.amount /\ stakes'[id[1]].withdrawn = TRUE
    <2>1. CASE record.withdrawn
        <3>1. stakes' = [stakes EXCEPT ![id[1]] = override_record(id)]
            BY <2>1 DEF execute_override
        <3>2. record.withdrawn = TRUE
            BY <1>1, <2>1 DEF StakeRecord
        <3> QED
            BY <1>1, <1>3, <3>1, <3>2 DEF RefineInv, TypeOK
    <2>2. CASE ~record.withdrawn
        <3>1. stakes' = [stakes EXCEPT ![id[1]] = forfeited(override_record(id))]
            BY <2>2 DEF execute_override, activate_claim
        <3> QED
            BY <1>1, <1>3, <3>1 DEF RefineInv, TypeOK, forfeited, StakeRecord
    <2> QED
        BY <2>1, <2>2
<1>9. TermsInv'
    BY <1>7, <1>8, LocalTerms DEF RefineInv, TermsOK
<1>10. Cover' = [Cover EXCEPT ![id] =
                   [phase |-> "streaming", owed |-> e,
                    paid |-> IF Cover[id].phase = "streaming" THEN Cover[id].paid ELSE 0]]
    <2>1. carried_streamed(claims[id]) =
            IF Cover[id].phase = "streaming" THEN Cover[id].paid ELSE 0
        <3>1. Cover[id].phase = "streaming" <=> claims[id].status = "Active"
            BY <1>1, Reading, Phases DEF RefineInv, Claim
        <3> QED
            BY <3>1, Reading DEF RefineInv, carried_streamed
    <2>2. CoverOf(claims'[id]) =
            [phase |-> "streaming", owed |-> e, paid |-> carried_streamed(claims[id])]
        BY <1>7 DEF CoverOf, PhaseOf
    <2> QED
        BY <1>7, <2>1, <2>2, CoverSet
<1>11. Cover[id].phase # "paid"
    BY <1>1, <1>2, Reading, Phases DEF RefineInv, Claim
<1>12. Principal[id[1]].phase # "none" /\ Principal[id[1]].amount = record.amount
    BY <1>1, <1>2, Reading DEF RefineInv
<1>13. Lifecycle!no_other_live(id)
    <2> SUFFICES ASSUME NEW d \in ClaimIds, d[1] = id[1], Lifecycle!live(d) PROVE d = id
        BY CoversAreClaims DEF Lifecycle!no_other_live
    <2>1. stakes[id[1]].active_claim_id = d
        BY Reading DEF RefineInv, SlotInv, ClaimSlots
    <2> QED
        BY <1>2, <2>1, InputsAssumption
<1>14. e \in {v.entitlement : v \in Verdicts} \cup {t.entitlement : t \in OverrideTerms}
    OBVIOUS
<1>15. IF Principal[id[1]].phase = "held"
       THEN Lifecycle!forfeit(id[1]) /\ total_allocated' <= total_staked
       ELSE /\ Principal' = Principal /\ total_staked' = total_staked
            /\ total_allocated' <= total_staked + Principal[id[1]].amount
    <2>1. CASE record.withdrawn
        <3>1. total_staked' = total_staked
            BY <2>1 DEF execute_override
        <3>2. \A u \in Wallets : /\ stakes'[u].amount = stakes[u].amount
                                 /\ stakes'[u].withdrawn = stakes[u].withdrawn
            BY <1>1, <1>8, <2>1 DEF StakeRecord
        <3>3. Principal[id[1]].phase # "held"
            BY <2>1, Reading DEF RefineInv, holds_stake
        <3> QED
            BY <1>6, <1>12, <2>1, <3>1, <3>2, <3>3, PrincipalKept
    <2>2. CASE ~record.withdrawn
        <3>1. total_staked' = total_staked - record.amount
            BY <1>3, <2>2 DEF execute_override, activate_claim
        <3>2. Principal[id[1]].phase = "held"
            BY <1>2, <2>2, Reading DEF RefineInv, holds_stake
        <3>3. Lifecycle!forfeit(id[1])
            BY <1>1, <1>8, <3>1, Forfeit DEF RefineInv
        <3>4. total_allocated' <= total_staked
            BY <1>6, <2>2 DEF RefineInv, TypeOK
        <3> QED
            BY <3>2, <3>3, <3>4
    <2> QED
        BY <2>1, <2>2
<1> HIDE DEF e, record
<1>16. Lifecycle!Override(id)
    BY <1>6, <1>10, <1>11, <1>12, <1>13, <1>14, <1>15 DEF Lifecycle!Override, Cover, Principal
<1> QED
    BY <1>9, <1>16, CoversAreClaims DEF Implements, Lifecycle!LifecycleNext

\* Approval and cancellation of an override change no claim before execution.
LEMMA OverrideRefines ==
    ASSUME RefineInv, OverrideCall
    PROVE  TermsInv' /\ Implements
<1>1. ASSUME NEW i \in ClaimIds, cancel_pending_override(i) PROVE TermsInv' /\ Implements
    BY <1>1, Stutter DEF cancel_pending_override, RefineInv
<1>2. ASSUME NEW caller \in {admin, co_signer}, NEW t \in OverrideTerms,
             approve_override_pending(caller, t)
      PROVE  TermsInv' /\ Implements
    BY <1>2, Stutter DEF approve_override_pending, RefineInv
<1>3. ASSUME NEW caller \in {admin, co_signer}, NEW t \in OverrideTerms,
             approve_override_executed(caller, t)
      PROVE  TermsInv' /\ Implements
    <2> DEFINE id == compute_claim_id(t)
               req == approved_by(caller, id, t)
    <2>1. id \in ClaimIds /\ t.entitlement \in Nat /\ t.tier \in Tiers
        BY CallInputsAssumption DEF compute_claim_id, ClaimIds
    <2>2. req \in OverrideRequest
        BY <2>1, ApprovedByType DEF RefineInv
    <2>3. execute_override(id, req)
        BY <1>3 DEF approve_override_executed
    <2>4. req.entitlement = t.entitlement
        <3>1. overrides[id] # None =>
                overrides[id] \in OverrideRequest /\ overrides[id].entitlement = t.entitlement
            BY <1>3, <2>1 DEF approve_override_executed, approve_override_checks, RefineInv,
               TypeOK
        <3> HIDE DEF id
        <3> QED
            BY <3>1 DEF approved_by, OverrideRequest
    <2> QED
        BY <2>1, <2>2, <2>3, <2>4, ExecuteRefines
<1> QED
    BY <1>1, <1>2, <1>3 DEF OverrideCall, approve_override

-----------------------------------------------------------------------------
(* The remaining calls.                                                    *)

\* A redemption at a loss is Writedown; no other vault call shows.
LEMMA VaultRefines ==
    ASSUME RefineInv, VaultCall
    PROVE  TermsInv' /\ Implements
<1>1. /\ claims' = claims /\ stakes' = stakes /\ total_allocated' = total_allocated
    BY DEF VaultCall, set_vault, set_treasury, set_deploy_bps, deploy_to_vault,
       auto_deploy_liquidity, deposit, ensure_liquidity, provide_liquidity, extract_yield,
       redeem, withdraw_yield, unchanged_by_vault
<1>2. total_staked \in Int /\ total_staked' \in Int
    BY VaultType DEF RefineInv, TypeOK
<1>3. total_staked' = total_staked \/ total_staked' < total_staked
    <2>1. ASSUME NEW s \in Nat, NEW received \in RedeemedXlm, NEW m, NEW y,
                 redeem(s, received, m, y)
          PROVE  total_staked' = total_staked \/ total_staked' < total_staked
        <3>1. total_staked' = total_staked - shortfall(principal_equiv(s), received)
            BY <2>1 DEF redeem
        <3>2. principal_equiv(s) \in Nat /\ received \in Nat
            BY <2>1, PrincipalEquivBounded, VaultAssumption DEF redeem, RefineInv
        <3>3. shortfall(principal_equiv(s), received) \in Nat
            BY <3>2 DEF shortfall, MaxOf
        <3> QED
            BY <1>2, <3>1, <3>3
    <2>2. ensure_liquidity => shares_needed \in Nat
        BY KeeperFigures DEF ensure_liquidity, RefineInv
    <2>3. ShareAmounts \subseteq Nat
        BY CallInputsAssumption
    <2> QED
        BY <2>1, <2>2, <2>3 DEF VaultCall, set_vault, set_treasury, set_deploy_bps,
           deploy_to_vault, auto_deploy_liquidity, deposit, ensure_liquidity,
           provide_liquidity, extract_yield, withdraw_yield
<1>4. CASE total_staked' = total_staked
    BY <1>1, <1>4, Stutter DEF RefineInv
<1>5. CASE total_staked' < total_staked
    <2>1. Cover' = Cover /\ Principal' = Principal
        BY <1>1, CoverKept, PrincipalKept
    <2>2. Lifecycle!Writedown
        BY <1>1, <1>5, <2>1 DEF Lifecycle!Writedown, Cover, Principal
    <2>3. TermsInv'
        BY <1>1 DEF RefineInv, TermsInv, TermsOK
    <2> QED
        BY <2>2, <2>3 DEF Implements, Lifecycle!LifecycleNext
<1> QED
    BY <1>3, <1>4, <1>5

\* Beneficiaries and suspensions do not show; an unsuspension moves a clock.
LEMMA RecordRefines ==
    ASSUME RefineInv, NEW w \in Wallets, NEW x,
           set_beneficiary(w, x) \/ suspend_stake(w) \/ unsuspend_stake(w, x)
    PROVE  TermsInv' /\ Implements
<1>1. \A u \in Wallets : /\ stakes'[u].amount = stakes[u].amount
                         /\ stakes'[u].withdrawn = stakes[u].withdrawn
    BY DEF set_beneficiary, suspend_stake, unsuspend_stake, RefineInv, TypeOK, StakeRecord
<1>2. total_allocated' = total_allocated /\ total_staked' = total_staked
    BY DEF set_beneficiary, suspend_stake, unsuspend_stake
<1>3. CASE set_beneficiary(w, x) \/ suspend_stake(w)
    BY <1>1, <1>2, <1>3, Stutter DEF set_beneficiary, suspend_stake, RefineInv
<1>4. CASE unsuspend_stake(w, x)
    <2>1. \A i \in ClaimIds :
             /\ claims'[i].status = claims[i].status
             /\ claims'[i].entitlement = claims[i].entitlement
             /\ claims'[i].streamed = claims[i].streamed
             /\ claims'[i].stake = claims[i].stake
             /\ claims'[i].vesting_ends_ledger = claims[i].vesting_ends_ledger
             /\ claims'[i].cooldown_ends_ledger = claims[i].cooldown_ends_ledger
        <3> SUFFICES ASSUME NEW i \in ClaimIds
                     PROVE  /\ claims'[i].status = claims[i].status
                            /\ claims'[i].entitlement = claims[i].entitlement
                            /\ claims'[i].streamed = claims[i].streamed
                            /\ claims'[i].stake = claims[i].stake
                            /\ claims'[i].vesting_ends_ledger = claims[i].vesting_ends_ledger
                            /\ claims'[i].cooldown_ends_ledger = claims[i].cooldown_ends_ledger
            OBVIOUS
        <3>1. claims[i] \in Claim /\ claims'[i] \in {claims[i], restart_clock(claims[i])}
            BY <1>4 DEF unsuspend_stake, RefineInv, TypeOK
        <3> QED
            BY <3>1 DEF restart_clock, Claim
    <2>2. TermsInv'
        BY <1>1, <2>1, ClaimIdWallet DEF RefineInv, TermsInv, TermsOK
    <2>3. Cover' = Cover /\ Principal' = Principal
        BY <1>1, <2>1, CoverKept, PrincipalKept
    <2>4. UNCHANGED Lifecycle!lifecycle_vars
        BY <1>2, <2>3 DEF Lifecycle!lifecycle_vars, Cover, Principal
    <2> QED
        BY <2>2, <2>4 DEF Implements
<1> QED
    BY <1>3, <1>4

\* Every step of the contract is a step of the life cycle or leaves it alone.
LEMMA StepRefines ==
    ASSUME RestakePolicy = "settled", RefineInv, [Next]_vars
    PROVE  TermsInv' /\ Implements
<1>1. CASE UNCHANGED <<stakes, claims, total_allocated, total_staked>>
    BY <1>1, Stutter DEF RefineInv
<1>2. CASE StakerCall
    BY <1>2, StakeRefines, RecordRefines, ExitRefines, ApproveRefines, StreamRefines
       DEF StakerCall
<1>3. CASE OracleCall
    BY <1>3, SubmitRefines DEF OracleCall
<1>4. CASE AnyoneCall
    BY <1>4, ReleaseRefines, LapseRefines, UnlockRefines DEF AnyoneCall
<1>5. CASE AdminCall
    <2>1. ASSUME \/ \E v \in Verdicts, d \in Deadlines : revoke_approval(v, d)
                 \/ pause \/ unpause
                 \/ \E c \in PoolCaps : set_pool_cap(c)
          PROVE  UNCHANGED <<stakes, claims, total_allocated, total_staked>>
        BY <2>1 DEF revoke_approval, pause, unpause, set_paused, set_pool_cap
    <2> QED
        BY <1>1, <1>5, <2>1, SubmitRefines, CancelRefines, RecordRefines DEF AdminCall
<1>6. CASE RotationCall
    BY <1>1, <1>6 DEF RotationCall, transfer_admin, set_oracle, set_co_signer,
       set_oracle_pubkey, set_oracle_identity, unchanged_but_roles
<1>7. CASE DonationCall \/ Tick \/ UNCHANGED vars
    BY <1>1, <1>7 DEF DonationCall, donate, unchanged_by_vault, Tick, vars
<1> QED
    BY <1>2, <1>3, <1>4, <1>5, <1>6, <1>7, OverrideRefines, VaultRefines DEF Next

\* The contract starts where the life cycle does.
LEMMA InitRefines == Init => TermsInv /\ Lifecycle!LifecycleInit
<1> SUFFICES ASSUME Init PROVE TermsInv /\ Lifecycle!LifecycleInit
    OBVIOUS
<1>1. total_allocated = 0 /\ total_staked = 0
    BY DEF Init, initialize
<1>2. TermsInv
    BY DEF Init, TermsInv, TermsOK, UnusedClaim, new_claim
<1>3. Cover = [c \in ClaimIds |-> [phase |-> "none", owed |-> 0, paid |-> 0]]
    BY DEF Init, Cover, CoverOf, PhaseOf, UnusedClaim, new_claim
<1>4. Principal = [w \in Wallets |-> [phase |-> "none", amount |-> 0]]
    BY DEF Init, Principal, PrincipalOf, EmptyStake
<1> QED
    BY <1>1, <1>2, <1>3, <1>4, CoversAreClaims DEF Lifecycle!LifecycleInit, Cover, Principal

\* As long as wallets stake again only with no claim open, the whole contract
\* (stake.rs, claim.rs, admin.rs, vault.rs) implements the claim life cycle:
\* no order of calls moves a claim, a principal or one of the two totals in
\* any way the life cycle does not allow.
THEOREM ContractImplementsLifecycle ==
    ASSUME RestakePolicy = "settled" PROVE Spec => ImplementsLifecycle
<1>1. Init => TermsInv /\ Lifecycle!LifecycleInit
    BY InitRefines
<1>2. TypeOK /\ SlotInv /\ [Next]_vars => SlotInv'
    BY SlotStep
<1>3. TypeOK /\ SlotInv /\ TermsInv /\ [Next]_vars =>
        TermsInv' /\ [Lifecycle!LifecycleNext]_(Lifecycle!lifecycle_vars)
    BY StepRefines DEF RefineInv, Implements
<1> QED
    BY <1>1, <1>2, <1>3, InitSlots, TypeCorrect, PTL
       DEF Spec, ImplementsLifecycle, Lifecycle!LifecycleSpec
=============================================================================
