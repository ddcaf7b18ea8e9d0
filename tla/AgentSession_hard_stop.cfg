SPECIFICATION Spec
CONSTANTS
    p1 = p1  p2 = p2  p3 = p3  r1 = r1  r2 = r2  age = age  card = card  v1 = v1  v2 = v2  child = child
    Null = Null  NoRow = NoRow  Deleted = Deleted  NoState = NoState
    Profiles = {p1}
    Scalars = {age}
    Customs = {}
    Values = {v1}
    Relations = {child}
    Child = child
    NewbornFacts <- MCNewborn
    MaxQuestions = 2
    Requests = {r1}
    Ops = {"open", "turn"}
SYMMETRY Interchangeable
CHECK_DEADLOCK FALSE
INVARIANTS HardStop
