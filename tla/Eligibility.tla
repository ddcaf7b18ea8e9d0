----------------------------- MODULE Eligibility -----------------------------
(***************************************************************************)
(* What the rules of schemes make of a profile (services/eligibility), how *)
(* complete a profile is (agent/completeness.py), which question comes     *)
(* next (agent/question_selection.py), and the interview they drive: the   *)
(* nodes of a chat turn of one member from the retrieval of candidates to  *)
(* the choice of the response (services/sessions/session_service.py).      *)
(*                                                                         *)
(* Left out: explanations, scores and the order of the lists shown, and    *)
(* the turns that ask to confirm a doubtful fact (module AgentSession).    *)
(***************************************************************************)
EXTENDS Integers, FiniteSets, Sequences

CONSTANTS
    CustomFields,   \* keys of custom_attributes, a sequence in the order of their names
    Texts,          \* values that are no numbers
    TextOrder,      \* the pairs of texts that Python's <= holds of
    Numbers,        \* values that are
    SchemeNames,    \* schemes a citizen may receive already
    Rules,          \* the active schemes' rules, as a sequence
    Citizens,       \* true profiles
    Searches,       \* what a search may return: places in Rules, the best first
    TopRules,       \* candidates completeness looks at: 20 in the code
    MinHits,        \* search results that replace the full list: 3 in the code
    ResultAfter,    \* agent_max_questions_before_result
    Unknown,        \* a field nobody has spoken of: None
    Unsure,         \* the answers "unknown" and "UNKNOWN"
    Fallback        \* the question when no field is left to ask

Customs == {CustomFields[i] : i \in DOMAIN CustomFields}
ListFields == {"gender", "caste_category", "occupation_type", "marital_status", "state_code"}
CapFields == {"age", "annual_income", "land_holding_acres"}
ProfileFields == ListFields \cup CapFields \cup Customs
BaseFields == {"state_code", "age", "gender", "occupation_type", "annual_income"}

Answers == Texts \cup Numbers
CustomCriterion == [field: Customs, operator: {"equals", "not_equals", "lte", "gte"}, value: Answers]
                     \cup [field: Customs, operator: {"in"}, value: SUBSET Answers]

\* EligibilityCriteriaModel: an empty list and Unknown both mean no such criterion.
Rule == [min_age: Numbers \cup {Unknown},
         at_most: [CapFields -> Numbers \cup {Unknown}],
         one_of: [ListFields -> SUBSET Texts],
         exclusions: SUBSET SchemeNames,
         custom: Seq(CustomCriterion)]

Profile == [facts: [ProfileFields -> Answers \cup {Unknown, Unsure}], receives: SUBSET SchemeNames]

ASSUME EligibilityAssumption ==
    /\ TopRules \in Nat \ {0} /\ MinHits \in Nat \ {0} /\ ResultAfter \in Nat \ {0}
    /\ Numbers \subseteq Int
    /\ Rules \in Seq(Rule)
    /\ Searches \subseteq Seq(DOMAIN Rules)
    /\ \A c \in Citizens : /\ c \in Profile
                           /\ \A f \in ProfileFields : c.facts[f] \in Answers
                           /\ \A f \in CapFields : c.facts[f] \in Numbers
    /\ Unknown \notin Answers /\ Unsure \notin Answers /\ Unknown # Unsure
    /\ Texts \cap Numbers = {}
    /\ TextOrder \subseteq Texts \X Texts
    /\ Fallback \notin ProfileFields \cup {"none", "result"}
    /\ CustomFields \in Seq(Customs)
    /\ \A i, j \in DOMAIN CustomFields : CustomFields[i] = CustomFields[j] => i = j
    /\ Customs \cap (ListFields \cup CapFields) = {}

-----------------------------------------------------------------------------
(* One rule and one profile. *)

CriteriaOf(rule) ==
    {<<"at_least", "age">> : x \in {rule.min_age} \ {Unknown}}
      \cup {<<"at_most", f>> : f \in {g \in CapFields : rule.at_most[g] # Unknown}}
      \cup {<<"one_of", f>> : f \in {g \in ListFields : rule.one_of[g] # {}}}
      \cup {<<"custom", i>> : i \in DOMAIN rule.custom}

FieldOf(rule, c) == IF c[1] = "custom" THEN rule.custom[c[2]].field ELSE c[2]

\* x <= y: of two numbers, or of two texts.  A text that is compared with a number raises
\* TypeError, which counts as failed.
NotAbove(x, y) == (x \in Numbers /\ y \in Numbers /\ x <= y) \/ <<x, y>> \in TextOrder

Compares(op, x, y) ==
    CASE op = "equals" -> x = y
      [] op = "not_equals" -> x # y
      [] op = "in" -> x \in y
      [] op = "lte" -> NotAbove(x, y)
      [] op = "gte" -> NotAbove(y, x)

Satisfies(rule, c, value) ==
    CASE c[1] = "at_least" -> value >= rule.min_age
      [] c[1] = "at_most" -> value <= rule.at_most[c[2]]
      [] c[1] = "one_of" -> value \in rule.one_of[c[2]]
      [] c[1] = "custom" -> Compares(rule.custom[c[2]].operator, value, rule.custom[c[2]].value)

Outcome(rule, profile, c) ==
    LET value == profile.facts[FieldOf(rule, c)] IN
    CASE value \in {Unknown, Unsure} -> "unknown"
      [] value \notin {Unknown, Unsure} /\ Satisfies(rule, c, value) -> "matched"
      [] value \notin {Unknown, Unsure} /\ ~Satisfies(rule, c, value) -> "failed"

Having(rule, profile, outcome) == {c \in CriteriaOf(rule) : Outcome(rule, profile, c) = outcome}

Excluded(rule, profile) == profile.receives \cap rule.exclusions # {}

\* Faulty variant of Verdict: what is not known is taken for granted.
HopefulVerdict(rule, profile) ==
    IF Excluded(rule, profile) THEN "ineligible"
    ELSE IF Having(rule, profile, "failed") = {} THEN "matched"
    ELSE IF Cardinality(Having(rule, profile, "failed")) = 1 THEN "near_miss" ELSE "ineligible"

Verdict(rule, profile) ==
    LET failed == Having(rule, profile, "failed")
        unknown == Having(rule, profile, "unknown")
    IN  CASE Excluded(rule, profile) -> "ineligible"
          [] ~Excluded(rule, profile) /\ failed # {} ->
                IF Cardinality(failed) = 1 /\ unknown = {} THEN "near_miss" ELSE "ineligible"
          [] ~Excluded(rule, profile) /\ failed = {} ->
                IF unknown # {} THEN "incomplete" ELSE "matched"

-----------------------------------------------------------------------------
(* The fields of rules, completeness, and the next question.                 *)

\* Faulty variant of FieldsOf: custom criteria are overlooked.
FieldsOfColumns(rule) == {FieldOf(rule, c) : c \in {d \in CriteriaOf(rule) : d[1] # "custom"}}

FieldsOf(rule) == {FieldOf(rule, c) : c \in CriteriaOf(rule)}

\* FIELD_WEIGHTS.  The custom fields share a weight of 6, so the others count as often as
\* there are custom fields.
Weighed(fields, customs) ==
    LET n == IF customs = 0 THEN 1 ELSE customs
        part(F, w) == n * w * Cardinality(fields \cap F)
    IN  part({"state_code", "age", "annual_income", "occupation_type"}, 15) + part({"gender"}, 10)
          + part({"caste_category", "marital_status", "land_holding_acres"}, 8)
          + 6 * Cardinality(fields \cap Customs)

\* Python's round: halves go to the even neighbour.
Percent(part, whole) ==
    LET up == (200 * part + whole) \div (2 * whole)
        tie == (200 * part + whole) % (2 * whole) = 0
    IN  IF tie /\ up % 2 = 1 THEN up - 1 ELSE up

\* Only the first candidates count.
Counting(candidates) == {i \in DOMAIN candidates : i <= TopRules}

Relevant(candidates) == BaseFields \cup UNION {FieldsOf(Rules[candidates[i]]) : i \in Counting(candidates)}

\* An answer "unknown" is a value here.
Completeness(profile, candidates) ==
    LET relevant == Relevant(candidates)
        answered == {f \in relevant : profile.facts[f] # Unknown}
        customs == Cardinality(relevant \cap Customs)
    IN  Percent(Weighed(answered, customs), Weighed(relevant, customs))

\* FIELD_WEIGHT, times ten.
Importance(f) == CASE f = "state_code" -> 30 [] f = "annual_income" -> 28 [] f = "age" -> 26
                   [] f = "occupation_type" -> 24 [] f = "gender" -> 20 [] f = "marital_status" -> 18
                   [] f = "caste_category" -> 15 [] f = "land_holding_acres" -> 14
                   [] f \in Customs -> 10

Gain(f, candidates) ==
    Importance(f) * Cardinality({i \in DOMAIN candidates : f \in FieldsOf(Rules[candidates[i]])})

\* No two fields but custom ones are equally important: among those the last name wins.
Before(f, g, candidates) ==
    \/ Gain(f, candidates) > Gain(g, candidates)
    \/ Gain(f, candidates) = Gain(g, candidates) /\ Importance(f) > Importance(g)
    \/ /\ Gain(f, candidates) = Gain(g, candidates) /\ Importance(f) = Importance(g)
       /\ \E i, j \in DOMAIN CustomFields : i > j /\ CustomFields[i] = f /\ CustomFields[j] = g

\* Faulty variant of Open: a field without a weight of its own is not worth a question.
OpenWeighted(profile, asked, candidates) ==
    {f \in UNION {FieldsOf(Rules[candidates[i]]) : i \in DOMAIN candidates} \ Customs :
        f \notin asked /\ profile.facts[f] = Unknown}

\* The fields a candidate refers to that were not asked and have no value.
Open(profile, asked, candidates) ==
    {f \in UNION {FieldsOf(Rules[candidates[i]]) : i \in DOMAIN candidates} :
        f \notin asked /\ profile.facts[f] = Unknown}

NextQuestion(profile, asked, candidates) ==
    LET open == Open(profile, asked, candidates)
    IN  IF open = {} THEN Fallback
        ELSE CHOOSE f \in open : \A g \in open \ {f} : Before(f, g, candidates)

-----------------------------------------------------------------------------
(* The interview.                                                            *)

VARIABLES
    citizen,        \* the truth
    told,           \* the active member's profile
    asked,          \* asked_fields
    sinceResult,    \* turn_count_since_result
    candidates,     \* the rules the last turn looked at, by their place in Rules
    response        \* the last response: "none", "result", or the field asked

interviewVars == <<citizen, told, asked, sinceResult, candidates, response>>

InterviewTypeOK ==
    /\ citizen \in Citizens
    /\ told \in Profile
    /\ asked \subseteq ProfileFields \cup {Fallback}
    /\ sinceResult \in 0..ResultAfter
    /\ candidates \in Seq(DOMAIN Rules)
    /\ response \in ProfileFields \cup {Fallback, "none", "result"}

Nobody == [facts |-> [f \in ProfileFields |-> Unknown], receives |-> {}]

InterviewInit ==
    /\ citizen \in Citizens
    /\ told = Nobody
    /\ asked = {}
    /\ sinceResult = 0
    /\ candidates = <<>>
    /\ response = "none"

\* All active rules, or the ones the search finds when it finds enough.
AllRules == [i \in 1..Len(Rules) |-> i]
Retrieved == {AllRules} \cup {s \in Searches : Len(s) >= MinHits}

\* The verdicts of the candidates.
Snapshot(profile, hits, verdict) == {i \in DOMAIN hits : Verdict(Rules[hits[i]], profile) = verdict}

\* A profile complete enough and something to show, or questions enough.
ResultDue(profile, hits, turns) ==
    \/ /\ Completeness(profile, hits) >= 75
       /\ \/ Snapshot(profile, hits, "matched") # {}
          \/ Snapshot(profile, hits, "near_miss") # {}
          \/ Snapshot(profile, hits, "incomplete") = {}
    \/ turns >= ResultAfter

\* What a citizen may say of a field: the truth, or that they do not know.
Says(f) == {citizen.facts[f]} \cup IF f \in CapFields THEN {} ELSE {Unsure}

\* A chat turn that tells the values said of some fields.
TurnOn(said, hits) ==
    LET profile == [told EXCEPT !.facts = [f \in ProfileFields |->
                                             IF f \in DOMAIN said THEN said[f] ELSE @[f]]]
        turns == sinceResult + 1
        field == NextQuestion(profile, asked, hits)
    IN  /\ told' = profile
        /\ candidates' = hits
        /\ IF ResultDue(profile, hits, turns)
           THEN response' = "result" /\ sinceResult' = 0 /\ UNCHANGED asked
           ELSE response' = field /\ sinceResult' = turns /\ asked' = asked \cup {field}
        /\ UNCHANGED citizen

\* A form fills in the base fields, or some fact comes up, or none.
Turn ==
    \E hits \in Retrieved :
        \/ TurnOn(<<>>, hits)
        \/ \E f \in ProfileFields : \E v \in Says(f) : TurnOn([g \in {f} |-> v], hits)
        \/ TurnOn([g \in BaseFields |-> citizen.facts[g]], hits)

\* PATCH of existing_scheme_ids.
TellReceived ==
    /\ told' = [told EXCEPT !.receives = citizen.receives]
    /\ UNCHANGED <<citizen, asked, sinceResult, candidates, response>>

InterviewNext == Turn \/ TellReceived
InterviewSpec == InterviewInit /\ [][InterviewNext]_interviewVars

-----------------------------------------------------------------------------
(* Properties. *)

\* A verdict on what is known so far is never overturned by what is still unknown, a
\* scheme the citizen forgot to mention apart: who is told to match does match, and who
\* is told to be ineligible does not (services/eligibility/criteria.py:57-130).
VerdictsTrue ==
    \A i \in DOMAIN Rules :
        LET rule == Rules[i] verdict == Verdict(rule, told) truth == Verdict(rule, citizen)
        IN  /\ verdict \in {"matched", "near_miss"} => truth = verdict \/ Excluded(rule, citizen)
            /\ verdict = "ineligible" => truth \in {"ineligible", "near_miss"}

\* A complete profile decides the rules that count, unless the citizen does not know an
\* answer: no criterion on a column waits for one, as completeness looks at every field the
\* evaluation looks at.  Of the custom fields, which share one small weight, rounding
\* overlooks a twelfth, and none when they are fewer than twelve
\* (agent/completeness.py:18-71).
CompleteDecides ==
    Completeness(told, candidates) = 100 /\ Unsure \notin {told.facts[f] : f \in ProfileFields} =>
        LET waiting(rule) == {FieldOf(rule, c) : c \in Having(rule, told, "unknown")}
            waits == UNION {waiting(Rules[candidates[i]]) : i \in Counting(candidates)}
        IN  /\ waits \subseteq Customs
            /\ 12 * Cardinality(waits) <= Cardinality(Relevant(candidates) \cap Customs)

\* The interview gives up asking only when every field an open rule waits for was asked
\* or answered with "unknown" (agent/question_selection.py:54-67).
FallbackOnlyWhenExhausted ==
    response = Fallback =>
        \A i \in DOMAIN candidates : \A c \in Having(Rules[candidates[i]], told, "unknown") :
            LET f == FieldOf(Rules[candidates[i]], c) IN f \in asked \/ told.facts[f] = Unsure
=============================================================================
