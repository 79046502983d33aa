\* Deployment into the vault and redemption at a fair price, a loss and a gain,
\* with a claim and withdrawals drawing on the same liquid XLM, and XLM sent in
\* from outside.
SPECIFICATION Spec
CONSTANTS
  None = None
  adm = adm
  orc = orc
  cos = cos
  adm2 = adm2
  w1 = w1
  w2 = w2
  ben = ben
  ben2 = ben2
  k1 = k1
  k2 = k2
  t1 = t1
  t2 = t2
  vlt = vlt
  Addresses = {adm, orc, cos, adm2, w1, w2, ben, ben2}
  Wallets = {w1, w2}
  TxHashes = {t1}
  Pubkeys = {k1}
  Verdicts <- SmallIncident
  Deadlines = {9}
  LEDGERS_PER_DAY = 9
  SECONDS_PER_DAY = 2
  CLAIM_WINDOW_SECONDS = 2
  TIME_GATE_LEDGERS = 0
  COOLDOWN_LEDGERS = 1
  VESTING_LEDGERS = 2
  PENALTY_LOCK_LEDGERS = 2
  MAX_APPROVAL_WINDOW_SECONDS = 9
  REVOCATION_TTL_LEDGERS = 9
  APPROVE_WINDOW_LEDGERS = 1
  COLLECTION_INACTIVITY_LEDGERS = 1
  LedgerSeconds = {1}
  MaxLedger = 0
  MintedShares = {4}
  RedeemedXlm = {1, 3, 6}
  MaxShares = 8
  MaxLiquid = 20
  MaxExtracted = 2
  MaxDeficit = 0
  Calls = {"stake", "withdraw", "admin_submit_claim", "approve_claim", "vault"}
  Deployments <- OneDeployment
  RoleHolders = {}
  Beneficiaries = {ben}
  StakeAmounts = {10}
  PoolCaps = {}
  OverrideTerms <- NoTerms
  Vaults = {vlt}
  DeployBpsValues = {5000}
  DeployAmounts = {4}
  ShareAmounts = {4}
  MinOuts = {0}
  YieldAmounts = {2}
  DonationAmounts = {2}
  RestakePolicy = "settled"
INVARIANTS
  HoldingsAccountForPayouts
PROPERTIES
  VaultPreservesBacking
  KeepersAgree
  KeeperPullsWhatIsShort
  DriftComesFromExits
CHECK_DEADLOCK FALSE
