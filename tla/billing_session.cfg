SPECIFICATION Spec
CONSTANTS
  Requests = {r1, r2}
  Profiles <- MCProfiles
  Usages = {2}
  ReserveTargets = {3}
  Fees = {1}
  InitWallet = 2
  InitToken = 3
  TokenUnlimited = FALSE
  SubTotal = 3
  AllowWalletOverflow = TRUE
  TrustQuota = 1
  MaxFaults = 1
SYMMETRY RequestSymmetry
INVARIANTS TypeOK ExactCharge BooksMatchLedger SubWithinTotal
