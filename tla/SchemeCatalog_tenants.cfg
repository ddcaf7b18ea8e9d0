SPECIFICATION Spec
CONSTANTS
    s1 = s1  s2 = s2  o1 = o1  o2 = o2  c1 = c1  c2 = c2  d1 = d1
    r1 = r1  r2 = r2  w1 = w1  w2 = w2  NoRow = NoRow
    SchemeIds = {s1, s2}
    Orgs = {o1, o2}
    PublicOrg = o1
    Criteria = {c1, c2}
    Exclusions <- ExcludesFirst
    SeedIds = {s1, s2}
    SeedRule <- TwoSeeds
    Drafts = {d1}
    Requests = {r1, r2}
    Workers = {w1}
    LastDay = 1
    MaxVersion = 2
    Ops = {"create", "archive", "draft", "publish_draft", "seed"}
SYMMETRY Symmetry
INVARIANT NoDanglingExclusion
PROPERTIES ForeignSchemeUntouched
