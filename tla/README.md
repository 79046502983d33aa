# SAFU protection pool: TLA+ specification

The system is one Soroban smart contract, `contracts/protection-pool`: stakers
deposit XLM, an oracle reports hacks of staked wallets, the pool pays the
resulting claims out of its principal over time, and idle principal may be
deployed into a third-party yield vault. This directory models the contract in
TLA+, model-checks it with TLC on small instances and proves its most important
properties with TLAPS for every value of the constants. `PROJECT.json` maps each
definition to the source lines it models; paths below are relative to
`contracts/protection-pool/src/`.

## Inventory

| Component | State | Operations | Hard part | What makes it correct |
|---|---|---|---|---|
| Storage (`storage.rs`, `types.rs`) | roles, pool cap, pause flag, three totals, two daily counters, records per wallet and per claim, temporary revocation entries | getters, setters, day rollover | counters that reset by comparing days; an entry with a lifetime in ledgers against a deadline in seconds | a revocation outlives its approval |
| Staking (`stake.rs`) | `StakeRecord`, points balance | `stake`, `set_beneficiary`, `withdraw`, `emergency_exit` | a forfeited record keeps its amount and may be staked over | totals equal the records; the principal is paid once |
| Oracle approvals (`claim.rs`) | attestation key, revocation entries | verification, `revoke_approval` | late, repeated or revoked approvals, key rotation | a revoked approval never admits a claim |
| Claim flow (`claim.rs`) | `Claim`, the wallet's active and queue slots, `total_allocated` | `submit_claim`, `try_release_queued_claim`, `expire_queued_claim`, `unlock_pending_claim`, `approve_claim`, `expire_pending_approval`, `claim_stream`, `expire_stale_claim`, `cancel_claim` | eight states, seven places that adjust the allocation, deadlines and sweeps that race the staker | allocation covers what is owed; slots agree with claims; vesting and daily caps hold |
| 2-of-2 override (`claim.rs`) | `OverrideRequest` | `approve_override`, `cancel_pending_override` | rotation between the approvals; correction of a claim in any state | nobody acts alone; no reservation is released twice |
| Administration (`admin.rs`) | roles, cap, pause, suspension | rotations, `pause`, `unpause`, `suspend_stake`, `unsuspend_stake`, `set_pool_cap` | a freeze landing between any two steps of a claim | roles stay separate; a freeze freezes |
| Yield vault (`vault.rs`) | position at cost (`deployed_shares`, `deployed_xlm`), extracted yield, the contract's token balance | `set_vault`, `set_treasury`, `set_deploy_bps`, `deploy_to_vault`, `auto_deploy_liquidity`, `provide_liquidity`, `ensure_liquidity`, `extract_yield`, `withdraw_yield` | a price the contract does not control, losses, two permissionless keepers | what is owed is never taken; the keepers do not oscillate |

The contract has no processes of its own. Stakers, oracle, admin, co-signer and
anyone at all call it in any order, and ledgers close in between. Each call is
atomic: an error or a host trap rolls the invocation back, and Soroban forbids
re-entry. The components meet in shared storage: the claim flow reads and writes
stake records, the override re-uses claim activation, every payout checks the
liquid balance the vault calls move, and every guarded call reads the pause flag.
Interleaving is therefore interleaving of whole calls, and the interesting
failures are sequences of legal calls: those are the hazards listed in
`PROJECT.json`.

## Modules

| Module | Models |
|---|---|
| `PoolMath` | the arithmetic: points, bounds, tier cap, stress cap, outflow rate, vesting, vault shares. `Quot` is Rust's truncating division, `SatSub` is `u32::saturating_sub`; `i128::saturating_sub` does not clamp at zero and is plain subtraction |
| `Storage` | the state: one variable per storage key (`stakes`, `claims`, `overrides`, `revoked`, ... are functions), the record types, the ledger clock `Tick` |
| `Stake`, `OracleApproval`, `ClaimFlow`, `Override`, `Admin`, `Vault` | one action per entry point, with the source's name |
| `Views` | the computed views: points, eligibility, claim eligibility, deployment ratio |
| `ProtectionPool` | composition: `Init`, the calls grouped by caller, donations, `Next`, `Spec`, `TypeOK` |
| `PoolProperties` | the invariants and action properties |
| `ClaimLifecycle` | the abstract specification: principals, covers and the two totals, without dates, caps, roles, points or tokens |
| `PoolRefinement` | the mapping under which the contract implements it |
| `PoolLiveness` | the keeper's fairness and what eventually happens |
| `DocClaims` | statements of the repository's comments and harnesses that the code does not keep |
| `MCPool`, `MCPoints` | instances for TLC; `MCPoints` ages a stake day by day as the reference for the points formula |
| `PoolMathProofs`, `PoolProofs`, `SafetyProofs`, `ClaimProofs`, `RefinementProofs`, `AccountingProofs`, `StepProofs`, `PointsProofs` | TLAPS proofs |

How state and actions correspond to the code:

* An action's guard is the conjunction of the call's conditions; a failing call
  changes nothing and is no step. A call that succeeds without effect
  (`ensure_liquidity` with no shortfall) is a stutter.
* The token transfer that ends a call is its change of `liquid`. Redemptions are
  measured by the contract as a change of balance, so the model lets the vault
  return any amount of `RedeemedXlm` and mint any number of `MintedShares`.
* Hashes are compared for equality only and are represented by what is hashed: a
  claim id is the pair (wallet, transaction), a revocation key the approval
  itself, a beneficiary hash the address. A signature is the key that made it.
* A missing stake is the record with amount 0 and a missing claim has status
  `Unused`; the contract treats both the same way.
* A revocation entry is its last live ledger. Other TTLs are left out: an
  archived persistent entry is restored before it is used.
* XLM sent to the contract outside its calls (`vault.rs:177`) is the action
  `donate`: it raises `liquid` and nothing else.
* `Calls` selects the entry points a run exercises, so that each run spends its
  states on one question. It never changes what a call does.

### The restaking assumption

`stake` accepts a wallet whose record is forfeited, also while the claim that
forfeited it is still streaming, and then overwrites the record. The run
`doc_one_claim` shows what follows. The other runs ask what holds when stakers do
not do this: `RestakePolicy = "settled"` lets a wallet
stake again only when none of its claims is open. It is an assumption about
callers, not a guard of the contract, and it appears as an explicit hypothesis of
the theorems that need it. Wallets still stake several times in these runs:
after a withdrawal, an exit, an expiry, a cancellation or a completed claim.

### The claim life cycle

`ClaimLifecycle` says what the contract promises in a page: a wallet's principal is
absent, held or forfeited; the cover of an incident is queued, pending, awaiting,
streaming, paid or ended; `reserve` is raised by an admission or an override and
lowered by exactly what is paid or given up; `staked` moves with the principals; a
wallet has at most one live cover; an admission fits the reserve into `staked`.
`PoolRefinement` maps a stake record to a principal (absent if its amount is 0,
forfeited if withdrawn with an amount left), a claim's status to a phase, and
`total_allocated` and `total_staked` to the two figures, and `ImplementsLifecycle`
says that every call is a step of the life cycle or leaves it alone. It is checked
without overrides in `claims` and with them in `override`.

Three weak points of the code show as clauses of the abstract module. `Admit` takes
a queued cover whatever has become of its principal (`doc_release`); `Approve`
may forfeit a principal that was forfeited before (`doc_forfeit`); and `Override`
reserves the whole new entitlement although part of it may be paid already
(`doc_allocation`). Like the slot theorems, the refinement assumes
that wallets do not stake over an open claim.

## Runs

| Run | Instance | Shows |
|---|---|---|
| `claims` | two wallets, an incident each (one of them queued while the pool is small), ledger 5, a day of two seconds, cooldown 1, vesting 2 | totals equal records, allocation exact, slots never dangle, vesting, both daily caps, Rule B, views, life cycle |
| `override` | two wallets, two incidents, a modest queued verdict, corrections below and above what was paid | allocation covered, slots, life cycle |
| `authority` | two addresses for every role, two keys, two deadlines, ledgers of one or two seconds, revocation lifetime equal to the approval window | role separation, both approvals needed, revocation outlives approval, revoked approvals stay dead |
| `freeze` | pause, suspension, two beneficiaries, two pool caps, an admitted and a queued verdict, a fair keeper | pause and suspension freeze, beneficiary fixed, points burnt, penalty lock, pool cap, liveness |
| `vault` | two wallets, a claim, half of the stake deployable, redemption at 1, 3 or 6 for shares that cost 4, a donation of 2 | backing preserved, keepers agree, the pulling keeper repairs a shortfall, drift |
| `points` | 400 days, three stakes, two caps | closed form equals daily rates, cycling earns no more |
| `doc_*` | one small instance each | a documented statement that the code does not keep |

**Bounds.** The durations of `types.rs` are constants of a few ledgers, chosen so
that every deadline both can be met and can be missed before the horizon
`MaxLedger`, and so that a day rolls over while a claim streams. Amounts are small
but pass every band of the piecewise rates: the pool cap of 16000 makes 3 the
smallest and 200 the largest stake. Two wallets are enough for what wallets
share (totals, daily counters, liquid XLM), two incidents of one wallet for
what its claims share (slots, record). `MaxShares`, `MaxLiquid`, `MaxExtracted` and
`MaxDeficit` bound what the vault may mint, give or lose over a behaviour; without
them profit would grow for ever. In `authority` the revocation lifetime equals the
approval window, the tightest case the const-assert of `types.rs` admits.

**Deadlock** is not checked: the contract is passive, and a state at the horizon
in which no call is accepted is no fault.

**Fairness.** `PoolLiveness` assumes two things: ledgers close (`WF_vars(Tick)`),
and for each claim id a keeper makes a sweep that stays possible
(`WF_vars(KeeperCall(id))`: `expire_queued_claim`, `unlock_pending_claim`,
`expire_pending_approval`, `expire_stale_claim`). The contract schedules nothing;
`claim.rs:925-931` says so and asks for a keeper script, the calls are
permissionless and each is atomic, so weak fairness is what that script provides.
Nothing is assumed of stakers, oracle or admin. A release from the queue is left
out of the keeper's duties, since it may be impossible for lack of capacity. Two properties need
the hypothesis `<>[]~paused`, because `expire_queued_claim` and
`unlock_pending_claim` refuse in a paused pool; `NeglectedClaimsEnd` holds in a
pool that is paused for ever. Time ends at `MaxLedger` in a model, so each property
speaks of deadlines that fall before it; `freeze` has room for several in a row.

Every property of a passing run has a mutant in `PROJECT.json`: a variant of a
mapped definition with a plausible bug, kept beside the original and marked
`Mutant`, under which TLC finds the property violated.

## What the code does not keep

Each of these has a `doc_*` run with a short counterexample; the quotes and lines
are in `PROJECT.json` under `findings`.

* `doc_solvency`: `total_allocated <= total_staked`, which the fuzz target and the
  Komet harness assert after every operation, ends with the approval of a claim:
  activation takes the stake out of `total_staked`. It is a condition of admission.
* `doc_allocation`: an override of a partly streamed claim reserves the carried
  amount once more. `AllocationCovered` holds, `AllocationExact` does not.
* `doc_one_claim`: restaking over a streaming claim gives the wallet a second live
  claim.
* `doc_release`: a queued claim can be released and approved after its stake was
  withdrawn.
* `doc_forfeit`: a stake forfeited to an override whose claim is then swept is
  deducted from `total_staked` a second time when the wallet's queued claim is
  released and approved. With overrides in play `StakedMatchesRecords` therefore
  fails; `claims` checks it without them.
* `doc_cooldown`: unsuspension during the cooldown lets the cooldown count as
  inactivity.

Smaller departures, visible in the actions and not given a run of their own:
restaking also lifts a suspension (`stake.rs:177`); `liquid_balance + deployed_xlm
>= total_staked` of the vault's header ends with payouts larger than the stake
they forfeit, and `HoldingsAccountForPayouts` is the form that holds; it too ends
when forfeited principal is spent twice, because the part of a stake that its claim
was not promised counts as yield from the activation on (`vault.rs:218`) and
`cancel_claim` still gives the whole stake back (`claim.rs:1179`): a stake of 100, a
claim of 20 approved, `withdraw_yield(80)`, `cancel_claim`, and `total_staked` is 100
with 20 held; the
deployment floor (`vault.rs:468`) does not keep admitted claims liquid once
stakers leave; `total_staked` can go negative after a vault loss (`vault.rs:671`);
unsuspension without the claim id grants no fresh approval window
(`admin.rs:201`); a completed claim stays in `active_claim_id` (`claim.rs:1107`);
`emergency_exit` ignores the penalty lock in an unpaused pool (`stake.rs:299`).

## Proofs

The theorems are about `ProtectionPool!Spec` (the two about points, about
`MCPoints!Spec`), for arbitrary sets of wallets, incidents, amounts and prices and
arbitrary durations, from the named assumptions of `Storage`, `Vault`,
`ProtectionPool` and `MCPoints`: durations are naturals, the day and the vesting
period positive, inputs have their types, a ledger takes at least one second,
`REVOCATION_TTL_LEDGERS >= MAX_APPROVAL_WINDOW_SECONDS`, and (`FinitenessAssumption`)
wallets and transactions are finite sets, so that sums over them mean something. Every
invariant and every action property of the passing runs is stated by one of them.

**Types, roles, approvals, vault** (`PoolProofs`, `SafetyProofs`)

| Theorem | Statement | Argument |
|---|---|---|
| `TypeCorrect` | `Spec => []TypeOK` | inductive; one lemma per action, on top of the arithmetic lemmas of `PoolMathProofs`. The work is in the naturals: `liquid`, `streamed`, `deployed_xlm` and the daily outflow never go below zero |
| `RolesSeparated` | `Spec => []RoleSeparation` | inductive as it stands |
| `RevocationOutlives` | `Spec => []RevocationOutlivesApproval` | the property alone is not inductive. `RevocationSlack` is: for a revoked payload `p`, `revoked[p] + timestamp >= deadline + ledger`. A tick adds one to the right and at least one to the left; a revocation establishes it by the const-assert |
| `RevokedStaysDead` | `Spec => RevokedApprovalIsDead` | from the previous theorem: in its window, an approval once revoked is still revoked |
| `VaultKeepsBacking` | `Spec => VaultPreservesBacking` | each vault call changes holdings and dues by amounts that cancel or leave the surplus non-negative; the pro-rata slice is bounded by the position |
| `KeepersDoNotOscillate` | `Spec => KeepersAgree` | arithmetic on the deployed amount, which is bounded by idle XLM and by room |

**Slots and life cycle** (`ClaimProofs`, `RefinementProofs`)

| Theorem | Statement | Argument |
|---|---|---|
| `OverridesNeedBoth` | `Spec => OverrideNeedsBoth` | the approver of the other role is already in the request, because roles are separate |
| `SlotsTellTheTruth`, `PrincipalForfeited` | `Spec => []ClaimSlots`, `Spec => []ForfeitedWhileActive`; settled | inductive together only (`SlotInv`): a stake that keeps its record is what excludes a withdrawal, and the occupied slot is what keeps the record |
| `ContractImplementsLifecycle` | `Spec => ImplementsLifecycle`; settled | each call is matched with one step of `ClaimLifecycle`, one lemma per call. The mapping needs `TermsInv` besides `SlotInv`: an Active claim remembers the amount its record still has (so that `cancel_claim` restores what was forfeited) and vests over the full period (so that a payout never passes the entitlement), and a claim not yet approved has been paid nothing (so that the expiries release exactly what is due) |

**Accounting** (`AccountingProofs`). Totals are sums over all claims or wallets. The
proofs need one fact about them: when one entry of a function on a finite set moves,
the sum moves by as much (`PoolMathProofs`). `StepMoves` then reads every step of the
contract as a move of at most one claim (opened, matured, started, paid, ended,
corrected) with its effect on the totals, and each theorem has one case per move.

| Theorem | Statement | Argument |
|---|---|---|
| `ReservationsCoverClaims` | `Spec => []AllocationCovered` | unconditional. Needs `PaidInv`: a claim not yet approved has been paid nothing, and a streaming one vests over the full period; otherwise a payout could pass what is reserved |
| `ReservationsExact` | `Spec => []AllocationExact`; no override | additionally `Unexceeded`: no claim is paid beyond its entitlement. Both fail with overrides, which lower entitlements and reserve carried amounts again (`doc_allocation`) |
| `PaidWithinVesting` | `Spec => []StreamedWithinVesting`; no override | a payout is at most the truncated vested amount minus what was paid, and the vested amount only grows. An override restarts the clocks of a partly paid claim |
| `EveryStroopAccountedFor` | no override: `liquid + deployed_xlm + TotalStreamed + extracted_yield >= total_staked + TotalForfeited` always | `HoldInv`. Holdings against `total_staked` alone is not inductive: activation takes a stake out of the total while its XLM stays, and `cancel_claim` puts it back, so the invariant keeps the XLM behind every streaming claim and counts what the treasury took |
| `HoldingsAccount` | `Spec => []HoldingsAccountForPayouts`; no override, and the vault calls and `cancel_claim` not both in play | from `HoldInv`. With both, the treasury takes XLM that a cancellation gives back (see above). With overrides it fails too: an override of a cancelled claim that was partly paid starts over with nothing paid, and the earlier payment is no longer on record |
| `StakedTotalExact` | `Spec => []StakedMatchesRecords`; settled, no override, no vault | needs to know which record a claim's step moves: `RecordInv` (a wallet never has a live claim beside a queued one; a claim that waits has its principal held, or withdrawn, but not forfeited) with `SlotInv`. With overrides it fails (`doc_forfeit`); vault losses are booked in the total only |
| `StakedTotalNeverInflated` | settled, no override: `total_staked <= TotalHeld` always | the same with the vault: losses only lower the total |

**Steps** (`StepProofs`). The lemma `Steps` splits `Next` once into the calls that move
a claim, a record or points, and `Quiet`, everything else; each proof has one case per
call that matters to it.

| Theorem | Statement | Argument |
|---|---|---|
| `SlotsNeverDangle` | `Spec => []SlotsPointToClaims` | inductive, also when wallets stake over open claims |
| `PauseStopsPayouts` | `Spec => PausedFreezesPayouts` | the calls that ignore the pause, one by one |
| `SuspensionFreezesClaims` | `Spec => SuspendedClaimIsFrozen` | needs separate roles: an executing override changes its request |
| `LockedStakesBankNothing` | `Spec => LockedExitForfeitsPoints` | only `withdraw` banks points, and it tests the lock |
| `NoPointsBehindForfeits` | `Spec => []ForfeitedPointless`: a forfeited principal has no points behind it | inductive, with no assumption on restaking |
| `ClaimsBurnPoints` | `Spec => []PointsBurnedByClaim`; settled | through `ForfeitedPointless` and `SlotInv` |
| `BeneficiaryIsFixed` | `Spec => BeneficiaryFixedByForfeiture`; settled | through `SlotInv`: a streaming claim's record is forfeited, and `set_beneficiary` and `withdraw` refuse it. A restake replaces it (`doc_one_claim`) |
| `CapPassedOnlyByCancellation` | `Spec => OnlyCancellationExceedsCap` | `stake` tests the cap, exits and losses lower the total |
| `ViewsTellSubmission` | `Spec => ViewsPredictSubmission` | the view's condition derived from each path into the pool |
| `AdmissionsStayCapped` | `Spec => AdmissionWithinStressCap` | needs `ReservationsCoverClaims`: with a negative allocation the utilisation bands would mean nothing. The highest band is a quarter of the base |
| `PayoutsStayCapped` | `Spec => OutflowWithinDailyCap` | the highest rate is a twentieth, and the counter rolls over with the day |
| `CooldownNeverCounts` | `Spec => CooldownIsNotInactivity`; no suspensions | `Anchored`: the inactivity anchor of a streaming claim is never before the end of its cooldown. `unsuspend_stake` breaks it (`doc_cooldown`) |
| `DriftIsNotDeployed` | `Spec => DriftComesFromExits` | a deployment stays under the ceiling (`PositionStep`); the truncated ratio of an amount under the ceiling is at most `deploy_bps`, and it falls with the position and rises only as the total shrinks |
| `KeeperPullsEnough` | `Spec => KeeperPullsWhatIsShort` | three roundings and a loss: `TranchePrincipal` (the shares rounded down fall short by less than one share's price and a unit), `SlippageFloor` (95% of it comes back), `CeilingDrop` (the loss lowers the ceiling by at most 80% of it and a unit), put together in `RemainderInShares` |

**Points** (`PointsProofs`): `PointsAreDailyRates` (`[]PointsMatchDailyRates`) and
`CyclingNeverPays` (`[]CyclingEarnsNoMore`): each day adds the rate of its band, and the
base is superadditive, which the division keeps.

*Settled* means `RestakePolicy = "settled"`, *no override* `"override" \notin Calls`, and
so on: hypotheses of the theorem. Without each of them the property fails, in the way a
`doc_*` run or the table says. "No
override" and "no suspension" are about calls of the pool's officers: a pool in which
they have not been made has the guarantees in full.

The inductive invariants were checked by TLC on small instances before they were proved.

Only model-checked: the three liveness properties (`NeglectedClaimsEnd`, `QueueDrains`,
`BlockedStakeIsFreed`), since liveness under fairness is out of the prover's reach. Sums
over finite sets are reached without an induction principle: they are the library's
folds, and the few facts needed of them come from a least counterexample.

## Not modelled

Events and error codes (nothing later depends on them), plain getters, TTL bumps of
instance and persistent storage, i128 overflow (the build traps, which rolls the
call back), the off-chain reviewer kits and deployment scripts, and the test, fuzz
and Komet code, whose assertions are nevertheless taken up in `DocClaims`. The
authorisation entries built for the vault's sub-calls are taken as what they say:
the vault pulls exactly the authorised amount, once.

Two liveness statements one might expect are not made because the code does not
give them. A diligent beneficiary need not be paid in full: caps, missing liquidity
or a pause can keep a claim uncollectable for the whole inactivity period, and
`expire_stale_claim` ignores all three. And a claim whose entitlement an override
has lowered below what it was paid stays Active until the admin acts.

## Plan

Done, in this order: arithmetic and storage; staking; approvals; claim flow;
override; administration; vault; composition; properties and runs; views; the
abstract life cycle and the refinement; liveness under a fair keeper; donations; the
theorems above.

Left, in this order:

1. The accounting theorems with overrides in play: a bound on how far
   `total_allocated` may exceed what is owed (the amounts carried over), and on how far
   the holdings may fall short of `total_staked`, in place of their absence.
2. More of the claim flow under `RestakePolicy = "any"`: which of the slot and
   refinement clauses survive a restake over an open claim.
3. `CooldownIsNotInactivity` with suspensions that are not lifted during a cooldown.
