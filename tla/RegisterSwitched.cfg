SPECIFICATION Spec
CONSTANTS
  b1 = b1
  b2 = b2
  w1 = w1
  w2 = w2
  w3 = w3
  pr1 = pr1
  pr2 = pr2
  c1 = c1
  c2 = c2
  None = None
  Browser = {b1}
  Wallet = {w1, w2, w3}
  Profile <- MCProfile
  Call <- MCCall
  AccountsOf <- MCAccountsOf
  FirstAccount <- MCFirstAccount
  Leavers = {}
  CosmosAnswers = {"served", "lost", "refused", "unreachable"}
INVARIANT IdentityIsConsistent
