SPECIFICATION MCSpec
CONSTANTS
    yes = yes  no = no  t1 = t1  s1 = s1  op1 = op1  op2 = op2  adm = adm  sup = sup
    aadhaar = aadhaar  aadhar = aadhar  ration = ration  bpl = bpl  pan = pan
    MaxBegun <- MCMaxBegun
    CustomFields <- MCCustomFields
    Texts <- MCTexts
    TextOrder <- MCTextOrder
    Numbers <- MCNumbers
    SchemeNames = {s1}
    Rules <- MCRules
    Citizens <- MCCitizens
    Searches <- MCSearches
    TopRules = 2
    MinHits = 2
    ResultAfter = 3
    Unknown = Unknown
    Unsure = Unsure
    Fallback = "fallback"
    Utterances = {v1, v2}
    Sentences = {t1, t2}
    Replies = {t3}
    TooLong = {t2}
    Indexable = {s1, s2}
    Builders = {b1, b2}
    NoFile = NoFile
    MaxBuilds = 3
    Sessions = {y1, y2}
    MaxPieces = 1
    MaxSent = 5
    NoRecording = NoRecording
    Names = {aadhaar, aadhar, ration, bpl, pan}
    Meaning <- MCMeaning
    Demands <- MCDemands
    MaxNames = 3
    Actors = {a1}
    Limit = 2
    MaxRows = 2
    DayLength = 4
    Offset = 2
    LastSecond = 5
    Askers = {r1, r2}
    Staff = {op1, op2, adm, sup}
    Role <- MCRole
    OrgOf <- MCOrgOf
    Beneficiaries = {x1}
    Followups = {f1}
    Details = {0}
    Desks = {d1, d2}
    NoOne = NoOne
    Absent = Absent
CHECK_DEADLOCK FALSE
INVARIANTS AssistantTypeOK VerdictsTrue CompleteDecides FallbackOnlyWhenExhausted GrantsWithinLimit VoiceRowsTellTurns RecordingsApart OwnRebuildFits AdviceHolds ListsWhatMayBeOpened
PROPERTIES StaysSearchable AnsweredInTheirLanguage NeverLockedOut AssignmentByAdmins
