\* Contested proxies, a transfer and its double link while a vote runs.
SPECIFICATION Spec
CONSTANTS
  ann = ann  bob = bob  cyd = cyd  dan = dan  yes = yes  no = no  Abstain = Abstain
  u1 = u1  u2 = u2  u3 = u3  v1 = v1  v2 = v2
  l1 = l1  l2 = l2  l3 = l3  l4 = l4  l5 = l5  t1 = t1
  b1 = b1  b2 = b2  b3 = b3  b4 = b4  g1 = g1  g2 = g2
  NoWinner = NoWinner  NoOne = NoOne  NoVote = NoVote  NoGrant = NoGrant  NoRow = NoRow
  Units = {u1, u2}
  Persons = {ann, bob, cyd, dan}
  OtherMembers = {cyd, dan}
  FirstManager = dan
  Votes = {v1}
  Bodies <- ElectionOrReferendum
  AllowTenantVoting = TRUE
  Tenants <- CydInU2
  LinkRequests = {l1, l2, l4, l5}
  LinkBody <- Links
  Invited <- Owners
  Linked = {l1, l2}
  TransferRequests = {t1}
  TransferBody <- Transfers
  BallotRequests = {b2, b3}
  BallotBody <- ProxyBallots
  GrantRequests = {g1, g2}
  GrantBody <- Grants
  RevokeRequests = {r1}
  CancelRequests = {}
CHECK_DEADLOCK FALSE
INVARIANTS BallotsLegitimate OneCurrentProxy
