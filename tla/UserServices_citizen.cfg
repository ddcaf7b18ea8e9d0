SPECIFICATION MCSpec
CONSTANTS
    ph1 = ph1  u1 = u1  u2 = u2  q1 = q1  q2 = q2  c1 = c1  c2 = c2  c3 = c3  g1 = g1  g2 = g2
    l1 = l1  l2 = l2  s1 = s1  doc1 = doc1  k1 = k1  k2 = k2  r1 = r1  r2 = r2
    Null = Null  NoRow = NoRow
    Phones = {ph1}
    Users = {u1, u2}
    Profiles = {q1, q2}
    Challenges = {c1, c2, c3}
    Guests = {g1}
    Logins = {l1, l2}
    MaxAttempts = 2
    RetryAfter = 1
    Expiry = 2
    LastTime = 2
    Schemes = {s1}
    Docs = {doc1}
    Keys = {k1, k2}
    ChangeOf <- MCChangeOf
    Progress = {"submitted", "approved"}
    Calls = {r1, r2}
    MaxLogins = 4
    MaxCalls = 3
CHECK_DEADLOCK FALSE
INVARIANTS ServicesTypeOK AttemptsBounded AccountsSound OpenedOnce HistoryTellsStatus
PROPERTIES ImplementsChangeStore TextsSpaced DeletionFinal LoginsEnd RemindersOnlyOnSaving CallsEnd
