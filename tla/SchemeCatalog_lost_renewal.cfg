SPECIFICATION Spec
CONSTANTS
    s1 = s1  s2 = s2  o1 = o1  o2 = o2  c1 = c1  c2 = c2  d1 = d1
    r1 = r1  r2 = r2  w1 = w1  w2 = w2  NoRow = NoRow
    SchemeIds = {s1}
    Orgs = {o1}
    PublicOrg = o1
    Criteria = {c1}
    Exclusions <- NoExclusions
    SeedIds = {}
    SeedRule <- NoSeeds
    Drafts = {}
    Requests = {r1}
    Workers = {w1}
    LastDay = 2
    MaxVersion = 2
    Ops = {"create", "update", "publish", "expiry", "tick"}
INVARIANTS ExpiredOnlyPastValidity
