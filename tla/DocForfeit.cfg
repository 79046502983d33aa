\* A queued claim, an override of another incident of the same wallet that is then
\* swept, and a second staker making room for the queued one.
SPECIFICATION Spec
CONSTANTS
  None = None
  adm = adm
  orc = orc
  cos = cos
  adm2 = adm2
  w1 = w1
  w2 = w2
  ben = ben
  ben2 = ben2
  k1 = k1
  k2 = k2
  t1 = t1
  t2 = t2
  vlt = vlt
  Addresses = {adm, orc, cos, adm2, w1, w2, ben, ben2}
  Wallets = {w1, w2}
  TxHashes = {t1, t2}
  Pubkeys = {k1}
  Verdicts <- QueuedOnly
  Deadlines = {9}
  LEDGERS_PER_DAY = 9
  SECONDS_PER_DAY = 2
  CLAIM_WINDOW_SECONDS = 2
  TIME_GATE_LEDGERS = 0
  COOLDOWN_LEDGERS = 0
  VESTING_LEDGERS = 2
  PENALTY_LOCK_LEDGERS = 2
  MAX_APPROVAL_WINDOW_SECONDS = 9
  REVOCATION_TTL_LEDGERS = 9
  APPROVE_WINDOW_LEDGERS = 1
  COLLECTION_INACTIVITY_LEDGERS = 0
  LedgerSeconds = {1}
  MaxLedger = 1
  MintedShares = {}
  RedeemedXlm = {}
  MaxShares = 500
  MaxLiquid = 500
  MaxExtracted = 500
  MaxDeficit = 500
  Calls = {"stake", "admin_submit_claim", "approve_claim", "override",
           "expire_stale_claim", "try_release_queued_claim"}
  Deployments <- OneDeployment
  RoleHolders = {}
  Beneficiaries = {ben}
  StakeAmounts = {100, 200}
  PoolCaps = {}
  OverrideTerms <- OtherTerms
  Vaults = {}
  DeployBpsValues = {}
  DeployAmounts = {}
  ShareAmounts = {}
  MinOuts = {}
  YieldAmounts = {}
  DonationAmounts = {}
  RestakePolicy = "settled"
PROPERTIES
  ForfeitedOnce
CHECK_DEADLOCK FALSE
