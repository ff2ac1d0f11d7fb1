\* Two technicians on two connections: two lists at once use them up.
SPECIFICATION Spec
CONSTANTS
  c1 = c1
  c2 = c2
  o1 = o1
  o2 = o2
  Clients = {c1, c2}
  NoClient = NoClient
  Orgs = {o1, o2}
  AllOrgs = AllOrgs
  Tokens <- MCTokens
  Vins = {v1}
  NoVin = NoVin
  Codes = {p1}
  Conns = 2
  Limit = 1
  MaxScans = 2
INVARIANTS
  OnlyListsStarve
  CodesAreNewest
  OwnScanIsSeen
PROPERTIES
  CommitsInOrder
