SPECIFICATION FairSpec
CONSTANTS
  p1 = p1
  p2 = p2
  r1 = r1
  w1 = w1
  w2 = w2
  w3 = w3
  w4 = w4
  Platform = platform
  Products = {p1, p2}
  ProductOf <- MCProductOf
  OtherScopesOf <- MCScopesOf
  ConfigCap <- MCConfigCap
  ItemNumber <- MCItemNumber
  ProductKey <- MCProductKey
  Schedulers = {s1, s2}
  Items = {w1, w2, w3, w4}
  Scopes = {platform, p1, p2, r1}
  Keys <- MCKeys
  LimitValues <- MCLimits
  MaxClaims = 2
  MaxOutside = 1
PROPERTY OrderIsByTurns
PROPERTY ClaimsFit
PROPERTY RoomIsUsed
