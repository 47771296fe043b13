SPECIFICATION Spec
CONSTANTS
  Requests = {r1}
  Profiles <- OneProfile
  Usages = {2}
  ReserveTargets = {}
  Fees = {1}
  InitWallet = 3
  InitToken = 3
  TokenUnlimited = FALSE
  SubTotal = 3
  AllowWalletOverflow = TRUE
  TrustQuota = 2
  MaxFaults = 1
INVARIANT FeeAfterRefund
