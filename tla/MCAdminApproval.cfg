SPECIFICATION Spec
CONSTANTS
  p1 = p1
  p2 = p2
  rVN = rVN
  rVN2 = rVN2
  rAUS = rAUS
  c1 = c1
  c2 = c2
  f1 = f1
  f2 = f2
  f3 = f3
  addrVN = addrVN
  addrAUS = addrAUS
  None = None
  Page = {p1, p2}
  Request = {rVN, rAUS}
  Call <- MCCall
  Fetch <- MCFetch
  Address = {addrVN, addrAUS}
  RegionOf <- MCRegionOf
  AddressOf <- MCAddressOf
  LoginRegion <- MCLoginRegion
  HubSwitchers = {p1}
  Leavers = {p1}
  CosmosAnswers = {"served", "lost", "refused", "unreachable"}
  ApproveAnswers = {"served", "lost", "refused", "unreachable"}
SYMMETRY MCSymmetry
INVARIANTS
  TypeOK
  BusyRowIsRunning
PROPERTY StagesInOrder
CHECK_DEADLOCK FALSE
