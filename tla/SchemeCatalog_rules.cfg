SPECIFICATION Spec
CONSTANTS
    s1 = s1  s2 = s2  o1 = o1  o2 = o2  c1 = c1  c2 = c2  d1 = d1
    r1 = r1  r2 = r2  w1 = w1  w2 = w2  NoRow = NoRow
    SchemeIds = {s1}
    Orgs = {o1}
    PublicOrg = o1
    Criteria = {c1, c2}
    Exclusions <- NoExclusions
    SeedIds = {s1}
    SeedRule <- OneSeed
    Drafts = {d1}
    Requests = {r1, r2}
    Workers = {w1}
    LastDay = 1
    MaxVersion = 3
    Ops = {"create", "update", "draft", "preview", "publish_draft", "seed", "match"}
SYMMETRY Symmetry
INVARIANTS TypeOK OneActiveRule HistoryComplete MatchAlwaysAnswers
PROPERTIES ImplementsLedger
