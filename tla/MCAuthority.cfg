\* Who may authorise what: oracle approvals against revocation and key rotation,
\* ledgers closing at one or two seconds and a revocation that lives exactly as
\* long as the window; and overrides while every role is rotated.
SPECIFICATION Spec
CONSTANTS
  None = None
  adm = adm
  orc = orc
  cos = cos
  adm2 = adm2
  w1 = w1
  w2 = w2
  ben = ben
  ben2 = ben2
  k1 = k1
  k2 = k2
  t1 = t1
  t2 = t2
  vlt = vlt
  Addresses = {adm, orc, cos, adm2, w1, w2, ben, ben2}
  Wallets = {w1}
  TxHashes = {t1}
  Pubkeys = {k1, k2}
  Verdicts <- OneIncident
  Deadlines = {1, 2}
  LEDGERS_PER_DAY = 9
  SECONDS_PER_DAY = 9
  CLAIM_WINDOW_SECONDS = 9
  TIME_GATE_LEDGERS = 0
  COOLDOWN_LEDGERS = 1
  VESTING_LEDGERS = 2
  PENALTY_LOCK_LEDGERS = 2
  MAX_APPROVAL_WINDOW_SECONDS = 2
  REVOCATION_TTL_LEDGERS = 2
  APPROVE_WINDOW_LEDGERS = 1
  COLLECTION_INACTIVITY_LEDGERS = 1
  LedgerSeconds = {1, 2}
  MaxLedger = 2
  MintedShares = {}
  RedeemedXlm = {}
  MaxShares = 500
  MaxLiquid = 500
  MaxExtracted = 500
  MaxDeficit = 500
  Calls = {"stake", "emergency_exit", "approve_claim", "submit_claim",
           "revoke_approval", "rotate", "override"}
  Deployments <- OneDeployment
  RoleHolders = {adm, adm2}
  Beneficiaries = {ben}
  StakeAmounts = {100}
  PoolCaps = {}
  OverrideTerms <- CorrectedTerms
  Vaults = {}
  DeployBpsValues = {}
  DeployAmounts = {}
  ShareAmounts = {}
  MinOuts = {}
  YieldAmounts = {}
  DonationAmounts = {}
  RestakePolicy = "settled"
INVARIANTS
  RoleSeparation
  RevocationOutlivesApproval
PROPERTIES
  OverrideNeedsBoth
  RevokedApprovalIsDead
CHECK_DEADLOCK FALSE
