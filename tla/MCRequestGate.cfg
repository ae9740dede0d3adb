SPECIFICATION GateSpec
CONSTANTS
  Requests = {r1, r2}
  Ips = {"x", "y", "z"}
  Networks = {"n1", "n2"}
  Covers <- MCCovers
  Trusted = {"z"}
  Bypass = {"z"}
  RuleIds = {i1, i2}
  Groups = {"admin-security"}
  Limit <- MCLimit
  MaxKeys = 2
  Window = 1
  ListFailClosed = FALSE
  LimitFailClosed = TRUE
  MaxHops = 2
  None = None
  Tokens = {t1, t2}
  Kids = {"a", "b", "c"}
  Published <- MCPublished
  TTL = 2
  Cooldown = 1
  MaxFetch = 1
  Nobody = Nobody
INVARIANTS GateTypeOK ForeignHopsChooseNoAddress KeeperNotLockedOut WithdrawnKeysExpire RotatedKeyUsable
PROPERTY LatestClientCounted
SYMMETRY MCSymmetry
