SPECIFICATION Spec
CONSTANTS
  n1 = n1
  n2 = n2
  home = home
  o2 = o2
  p1 = p1
  p2 = p2
  Users = {dev, u1}
  Dev = dev
  Orgs = {home, o2, o3}
  Home = home
  Repos = {r1, r2}
  Names = {n1, n2}
  Secrets = {s1}
  Products = {p1, p2}
  OrgOf <- MCOrgOf
  NameOf <- MCNameOf
  None = none
  MaxRequests = 7
INVARIANT DefaultIsOne
INVARIANT ProductsStayServed
CHECK_DEADLOCK FALSE
