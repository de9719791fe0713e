\* One object and two processes that may fail, die or stall twice, with three attempts.
SPECIFICATION BackupSpec
CONSTANTS
  fine = fine  altered = altered  resized = resized  Absent = Absent
  Requests = {q1}
  Workers = {w1, w2}
  Contents = {fine, altered, resized}
  SizeAsDeclared = {fine, altered}
  MaxAttempts = 3
  MaxMishaps = 2
CHECK_DEADLOCK FALSE
INVARIANTS VerifiedIsRestorable
PROPERTIES ImplementsPromise BackupSettles IntactIsProtected
