\* Pause, suspension, beneficiary and cap changes against a claim in flight, a
\* queued one and a second staking cycle, with a fair keeper.
SPECIFICATION FairSpec
CONSTANTS
  None = None
  adm = adm
  orc = orc
  cos = cos
  adm2 = adm2
  w1 = w1
  w2 = w2
  ben = ben
  ben2 = ben2
  k1 = k1
  k2 = k2
  t1 = t1
  t2 = t2
  vlt = vlt
  Addresses = {adm, orc, cos, adm2, w1, w2, ben, ben2}
  Wallets = {w1}
  TxHashes = {t1, t2}
  Pubkeys = {k1}
  Verdicts <- AdmittedAndQueued
  Deadlines = {9}
  LEDGERS_PER_DAY = 1
  SECONDS_PER_DAY = 2
  CLAIM_WINDOW_SECONDS = 1
  TIME_GATE_LEDGERS = 1
  COOLDOWN_LEDGERS = 1
  VESTING_LEDGERS = 2
  PENALTY_LOCK_LEDGERS = 2
  MAX_APPROVAL_WINDOW_SECONDS = 9
  REVOCATION_TTL_LEDGERS = 9
  APPROVE_WINDOW_LEDGERS = 1
  COLLECTION_INACTIVITY_LEDGERS = 1
  LedgerSeconds = {1}
  MaxLedger = 5
  MintedShares = {}
  RedeemedXlm = {}
  MaxShares = 500
  MaxLiquid = 500
  MaxExtracted = 500
  MaxDeficit = 500
  Calls = {"stake", "set_beneficiary", "withdraw", "emergency_exit",
           "approve_claim", "claim_stream", "admin_submit_claim",
           "cancel_claim", "expire_queued_claim",
           "unlock_pending_claim", "expire_pending_approval",
           "expire_stale_claim", "pause", "suspend_stake",
           "set_pool_cap"}
  Deployments <- OneDeployment
  RoleHolders = {}
  Beneficiaries = {ben, ben2}
  StakeAmounts = {100}
  PoolCaps = {50, 16000}
  OverrideTerms <- NoTerms
  Vaults = {}
  DeployBpsValues = {}
  DeployAmounts = {}
  ShareAmounts = {}
  MinOuts = {}
  YieldAmounts = {}
  DonationAmounts = {}
  RestakePolicy = "settled"
INVARIANTS
  PointsBurnedByClaim
PROPERTIES
  PausedFreezesPayouts
  SuspendedClaimIsFrozen
  BeneficiaryFixedByForfeiture
  LockedExitForfeitsPoints
  OnlyCancellationExceedsCap
  NeglectedClaimsEnd
  QueueDrains
  BlockedStakeIsFreed
CHECK_DEADLOCK FALSE
