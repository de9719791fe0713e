\* Two calls over three keys, one document and one payment; one worker in the scene of the backup.
SPECIFICATION Spec
CONSTANTS
  fine = fine  wrong = wrong  Absent = Absent
  Requests = {k1, k2, k3}
  Workers = {w1}
  Contents = {fine, wrong}
  SizeAsDeclared = {fine}
  GenuineSignature = {fine}
  MaxAttempts = 1
  MaxMishaps = 0
  Documents = {d1, d2}
  Payments = {p1}
  Calls = {r1, r2}
  Case = Case
  NoIntent = NoIntent  NoDocument = NoDocument  NoPayment = NoPayment
SYMMETRY Interchangeable
CHECK_DEADLOCK FALSE
INVARIANTS VersionsAreLinear IntentSpentOnce EveryVersionIsQueued
PROPERTIES ActsAsBackupClient
