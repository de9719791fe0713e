\* One ballot is cast while its vote is closed.
SPECIFICATION Spec
CONSTANTS
  ann = ann  bob = bob  cyd = cyd  dan = dan  yes = yes  no = no  Abstain = Abstain
  u1 = u1  u2 = u2  u3 = u3  v1 = v1  v2 = v2
  l1 = l1  l2 = l2  l3 = l3  l4 = l4  l5 = l5  t1 = t1
  b1 = b1  b2 = b2  b3 = b3  b4 = b4  g1 = g1  g2 = g2
  NoWinner = NoWinner  NoOne = NoOne  NoVote = NoVote  NoGrant = NoGrant  NoRow = NoRow
  Units = {u1, u2, u3}
  Persons = {ann, bob, cyd, dan}
  OtherMembers = {dan}
  FirstManager = dan
  Votes = {v1}
  Bodies <- OneReferendum
  AllowTenantVoting = FALSE
  Tenants <- NoTenants
  LinkRequests = {l1, l2, l3}
  LinkBody <- Links
  Invited <- Owners
  Linked = {l1, l2, l3}
  TransferRequests = {}
  TransferBody <- Transfers
  BallotRequests = {b1}
  BallotBody <- OwnBallots
  GrantRequests = {}
  GrantBody <- Grants
  RevokeRequests = {}
  CancelRequests = {}
CHECK_DEADLOCK FALSE
INVARIANTS ResultReproducible
