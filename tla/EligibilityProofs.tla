-------------------------- MODULE EligibilityProofs --------------------------
(***************************************************************************)
(* Proofs about modules Eligibility and Documents: for all rules, all      *)
(* citizens and every order in which they tell their facts, a verdict on   *)
(* an unfinished profile agrees with the verdict on the truth, questions   *)
(* end only when nothing is left to ask, and a complete profile decides    *)
(* every rule that counts; for all lists of documents and all spellings, a *)
(* check finds what serves and misses the rest.                            *)
(***************************************************************************)
EXTENDS Eligibility, Documents, FiniteSetTheorems, TLAPS

\* What the profile says is what the citizen would say, or nothing yet.
Honest ==
    /\ citizen \in Citizens
    /\ told \in Profile
    /\ \A f \in ProfileFields : told.facts[f] \in {Unknown, Unsure, citizen.facts[f]}
    /\ told.receives \subseteq citizen.receives

\* The criteria of a rule are about fields that profiles have.
LEMMA CriteriaFields ==
    ASSUME NEW rule \in Rule, NEW c \in CriteriaOf(rule)
    PROVE  FieldOf(rule, c) \in ProfileFields
<1>1. CASE c[1] = "custom"
  <2>1. c[2] \in DOMAIN rule.custom /\ rule.custom \in Seq(CustomCriterion)
    BY <1>1 DEF CriteriaOf, Rule
  <2>2. rule.custom[c[2]] \in CustomCriterion
    BY <2>1
  <2>3. rule.custom[c[2]].field \in Customs
    BY <2>2 DEF CustomCriterion
  <2>4. QED BY <1>1, <2>3 DEF FieldOf, ProfileFields
<1>2. CASE c[1] # "custom"
  BY <1>2 DEF CriteriaOf, FieldOf, ProfileFields, CapFields, ListFields
<1>3. QED BY <1>1, <1>2

\* A criterion that is decided on the profile is decided the same way on the truth, and
\* on the truth all are decided.
LEMMA SameOutcome ==
    ASSUME Honest, NEW rule \in Rule, NEW c \in CriteriaOf(rule)
    PROVE  /\ Outcome(rule, citizen, c) \in {"matched", "failed"}
           /\ Outcome(rule, told, c) \in {"unknown", Outcome(rule, citizen, c)}
<1> DEFINE f == FieldOf(rule, c)
<1>1. f \in ProfileFields
  BY CriteriaFields
<1>2. citizen.facts[f] \notin {Unknown, Unsure}
  BY <1>1, EligibilityAssumption DEF Honest
<1>3. told.facts[f] \in {Unknown, Unsure, citizen.facts[f]}
  BY <1>1 DEF Honest
<1>4. Outcome(rule, citizen, c) = IF Satisfies(rule, c, citizen.facts[f]) THEN "matched" ELSE "failed"
  BY <1>2 DEF Outcome
<1>5. CASE told.facts[f] \in {Unknown, Unsure}
  <2>1. Outcome(rule, told, c) = "unknown"
    BY <1>5 DEF Outcome
  <2>2. QED BY <1>4, <2>1
<1>6. CASE told.facts[f] = citizen.facts[f]
  <2>1. Outcome(rule, told, c) = IF Satisfies(rule, c, citizen.facts[f]) THEN "matched" ELSE "failed"
    BY <1>2, <1>6 DEF Outcome
  <2>2. QED BY <1>4, <2>1
<1>7. QED BY <1>3, <1>5, <1>6

\* So the criteria failed so far stay failed, and none is added when all are known.
LEMMA FailedStay ==
    ASSUME Honest, NEW rule \in Rule
    PROVE  /\ Having(rule, told, "failed") \subseteq Having(rule, citizen, "failed")
           /\ Having(rule, told, "unknown") = {} =>
                 Having(rule, told, "failed") = Having(rule, citizen, "failed")
           /\ Having(rule, citizen, "unknown") = {}
<1>1. \A c \in CriteriaOf(rule) :
        /\ Outcome(rule, citizen, c) \in {"matched", "failed"}
        /\ Outcome(rule, told, c) \in {"unknown", Outcome(rule, citizen, c)}
  BY SameOutcome
<1>2. QED BY <1>1 DEF Having

\* The verdicts of one rule.
LEMMA VerdictKept ==
    ASSUME Honest, NEW rule \in Rule
    PROVE  /\ Verdict(rule, told) \in {"matched", "near_miss"} =>
                 Verdict(rule, citizen) = Verdict(rule, told) \/ Excluded(rule, citizen)
           /\ Verdict(rule, told) = "ineligible" => Verdict(rule, citizen) \in {"ineligible", "near_miss"}
<1> DEFINE failed == Having(rule, told, "failed")
           open == Having(rule, told, "unknown")
           truly == Having(rule, citizen, "failed")
<1>1. failed \subseteq truly /\ (open = {} => failed = truly) /\ Having(rule, citizen, "unknown") = {}
  BY FailedStay
<1>2. Excluded(rule, told) => Excluded(rule, citizen)
  BY DEF Excluded, Honest
<1>3. Verdict(rule, told) = IF Excluded(rule, told) THEN "ineligible"
                            ELSE IF failed # {}
                            THEN IF Cardinality(failed) = 1 /\ open = {} THEN "near_miss" ELSE "ineligible"
                            ELSE IF open # {} THEN "incomplete" ELSE "matched"
  BY DEF Verdict
<1>4. Verdict(rule, citizen) = IF Excluded(rule, citizen) THEN "ineligible"
                               ELSE IF truly # {}
                               THEN IF Cardinality(truly) = 1 THEN "near_miss" ELSE "ineligible"
                               ELSE "matched"
  BY <1>1 DEF Verdict
<1> HIDE DEF failed, open, truly
<1>5. CASE Excluded(rule, told)
  BY <1>2, <1>3, <1>4, <1>5
<1>6. CASE ~Excluded(rule, told) /\ failed # {}
  <2>1. truly # {}
    BY <1>1, <1>6
  <2>2. CASE Cardinality(failed) = 1 /\ open = {}
    BY <1>1, <1>3, <1>4, <1>6, <2>1, <2>2
  <2>3. CASE ~(Cardinality(failed) = 1 /\ open = {})
    BY <1>3, <1>4, <1>6, <2>1, <2>3
  <2>4. QED BY <2>2, <2>3
<1>7. CASE ~Excluded(rule, told) /\ failed = {}
  BY <1>1, <1>3, <1>4, <1>7
<1>8. QED BY <1>5, <1>6, <1>7

\* A turn adds the truth or a doubt.
LEMMA TurnHonest ==
    ASSUME Honest, NEW said, NEW hits, TurnOn(said, hits),
           \A f \in ProfileFields \cap DOMAIN said : said[f] \in {Unsure, citizen.facts[f]}
    PROVE  Honest'
<1> DEFINE facts == [f \in ProfileFields |-> IF f \in DOMAIN said THEN said[f] ELSE told.facts[f]]
<1>1. citizen' = citizen /\ told' = [told EXCEPT !.facts = facts]
  BY DEF TurnOn
<1>2. told.facts \in [ProfileFields -> Answers \cup {Unknown, Unsure}]
      /\ citizen.facts \in [ProfileFields -> Answers \cup {Unknown, Unsure}]
  BY EligibilityAssumption DEF Honest, Profile
<1>3. facts \in [ProfileFields -> Answers \cup {Unknown, Unsure}]
  BY <1>2
<1>4. \A f \in ProfileFields : facts[f] \in {Unknown, Unsure, citizen.facts[f]}
  BY DEF Honest
<1> HIDE DEF facts
<1>5. told' \in Profile /\ told'.facts = facts /\ told'.receives = told.receives
  BY <1>1, <1>3 DEF Honest, Profile
<1>6. QED BY <1>1, <1>4, <1>5 DEF Honest

LEMMA InterviewStep ==
    ASSUME Honest, [InterviewNext]_interviewVars
    PROVE  Honest'
<1>1. CASE Turn
  <2>1. PICK hits \in Retrieved :
          \/ TurnOn(<<>>, hits)
          \/ \E f \in ProfileFields : \E v \in Says(f) : TurnOn([g \in {f} |-> v], hits)
          \/ TurnOn([g \in BaseFields |-> citizen.facts[g]], hits)
    BY <1>1 DEF Turn
  <2>2. CASE TurnOn(<<>>, hits)
    <3>1. DOMAIN <<>> = {}
      OBVIOUS
    <3>2. QED BY <2>2, <3>1, TurnHonest
  <2>3. CASE \E f \in ProfileFields : \E v \in Says(f) : TurnOn([g \in {f} |-> v], hits)
    <3>0. PICK f \in ProfileFields : \E v \in Says(f) : TurnOn([g \in {f} |-> v], hits)
      BY <2>3
    <3>1. PICK v \in Says(f) : TurnOn([g \in {f} |-> v], hits)
      BY <3>0
    <3>2. v \in {Unsure, citizen.facts[f]}
      BY DEF Says
    <3>3. \A g \in ProfileFields \cap DOMAIN [h \in {f} |-> v] : [h \in {f} |-> v][g] \in {Unsure, citizen.facts[g]}
      BY <3>2
    <3>4. QED BY <3>1, <3>3, TurnHonest
  <2>4. CASE TurnOn([g \in BaseFields |-> citizen.facts[g]], hits)
    <3> DEFINE said == [g \in BaseFields |-> citizen.facts[g]]
    <3>1. \A g \in ProfileFields \cap DOMAIN said : said[g] \in {Unsure, citizen.facts[g]}
      OBVIOUS
    <3>2. TurnOn(said, hits)
      BY <2>4
    <3> HIDE DEF said
    <3>3. QED BY <3>1, <3>2, TurnHonest
  <2>5. QED BY <2>1, <2>2, <2>3, <2>4
<1>2. CASE TellReceived
  <2>1. citizen.receives \in SUBSET SchemeNames
    BY EligibilityAssumption DEF Honest, Profile
  <2>2. told' = [told EXCEPT !.receives = citizen.receives] /\ citizen' = citizen
    BY <1>2 DEF TellReceived
  <2>3. told' \in Profile /\ told'.facts = told.facts /\ told'.receives = citizen.receives
    BY <2>1, <2>2 DEF Honest, Profile
  <2>4. QED BY <2>2, <2>3 DEF Honest
<1>3. CASE UNCHANGED interviewVars
  BY <1>3 DEF interviewVars, Honest
<1>4. QED BY <1>1, <1>2, <1>3 DEF InterviewNext

\* The profile an interview collects never contradicts the citizen
\* (services/sessions/session_service.py:346-420).
THEOREM ProfileHonest == InterviewSpec => []Honest
<1>1. InterviewInit => Honest
  <2> SUFFICES ASSUME InterviewInit PROVE Honest
    OBVIOUS
  <2>1. Nobody \in Profile /\ Nobody.receives = {} /\ \A f \in ProfileFields : Nobody.facts[f] = Unknown
    BY DEF Nobody, Profile
  <2>2. QED BY <2>1 DEF InterviewInit, Honest
<1>2. Honest /\ [InterviewNext]_interviewVars => Honest'
  BY InterviewStep
<1>3. QED BY <1>1, <1>2, PTL DEF InterviewSpec

\* No verdict on an unfinished profile is overturned by the facts still to come, a scheme
\* received already apart (services/eligibility/criteria.py:57-130).
THEOREM VerdictsNeverOverturned == InterviewSpec => []VerdictsTrue
<1>1. Honest => VerdictsTrue
  <2> SUFFICES ASSUME Honest, NEW i \in DOMAIN Rules
      PROVE  /\ Verdict(Rules[i], told) \in {"matched", "near_miss"} =>
                   Verdict(Rules[i], citizen) = Verdict(Rules[i], told) \/ Excluded(Rules[i], citizen)
             /\ Verdict(Rules[i], told) = "ineligible" => Verdict(Rules[i], citizen) \in {"ineligible", "near_miss"}
    BY DEF VerdictsTrue
  <2>1. Rules[i] \in Rule
    BY EligibilityAssumption
  <2>2. QED BY <2>1, VerdictKept
<1>2. QED BY <1>1, ProfileHonest, PTL

-----------------------------------------------------------------------------
(* The next question.                                                        *)

\* A handful of values.
LEMMA FiveFinite ==
    ASSUME NEW a, NEW b, NEW c, NEW d, NEW e
    PROVE  IsFiniteSet({a, b, c, d, e})
<1>1. IsFiniteSet({a}) /\ IsFiniteSet({b}) /\ IsFiniteSet({c}) /\ IsFiniteSet({d}) /\ IsFiniteSet({e})
  BY FS_Singleton
<1>2. IsFiniteSet({a} \cup {b}) /\ IsFiniteSet({c} \cup {d})
  BY <1>1, FS_Union
<1>3. IsFiniteSet(({a} \cup {b}) \cup ({c} \cup {d}))
  BY <1>2, FS_Union
<1>4. IsFiniteSet((({a} \cup {b}) \cup ({c} \cup {d})) \cup {e})
  BY <1>1, <1>3, FS_Union
<1>5. ((({a} \cup {b}) \cup ({c} \cup {d})) \cup {e}) = {a, b, c, d, e}
  OBVIOUS
<1>6. QED BY <1>4, <1>5

LEMMA FieldsFinite == IsFiniteSet(ProfileFields) /\ IsFiniteSet(Customs)
<1>1. IsFiniteSet(ListFields)
  BY FiveFinite DEF ListFields
<1>2. IsFiniteSet(CapFields)
  <2>1. IsFiniteSet({"age", "annual_income", "land_holding_acres", "age", "age"})
    BY FiveFinite
  <2>2. {"age", "annual_income", "land_holding_acres", "age", "age"} = CapFields
    BY DEF CapFields
  <2>3. QED BY <2>1, <2>2
<1>3. IsFiniteSet(Customs)
  <2> DEFINE n == Len(CustomFields)
  <2>1. n \in Nat /\ DOMAIN CustomFields = 1..n /\ CustomFields \in [1..n -> Customs]
    BY EligibilityAssumption
  <2>2. CustomFields \in Surjection(1..n, Customs)
    BY <2>1 DEF Surjection, Customs
  <2>3. IsFiniteSet(1..n)
    BY <2>1, FS_Interval
  <2>4. QED BY <2>2, <2>3, FS_Surjection
<1>4. QED BY <1>1, <1>2, <1>3, FS_Union DEF ProfileFields

\* Open fields are fields of profiles without a value.
LEMMA OpenFields ==
    ASSUME NEW profile \in Profile, NEW done, NEW hits \in Seq(DOMAIN Rules)
    PROVE  /\ Open(profile, done, hits) \subseteq ProfileFields
           /\ \A i \in DOMAIN hits : Rules[hits[i]] \in Rule /\ FieldsOf(Rules[hits[i]]) \subseteq ProfileFields
<1>1. ASSUME NEW i \in DOMAIN hits
      PROVE  Rules[hits[i]] \in Rule /\ FieldsOf(Rules[hits[i]]) \subseteq ProfileFields
  <2>1. hits[i] \in DOMAIN Rules
    OBVIOUS
  <2>2. Rules[hits[i]] \in Rule
    BY <2>1, EligibilityAssumption
  <2>3. QED BY <2>2, CriteriaFields DEF FieldsOf
<1>2. QED BY <1>1 DEF Open

\* Gains and importances are numbers.
LEMMA GainTypes ==
    ASSUME NEW f \in ProfileFields, NEW hits \in Seq(DOMAIN Rules)
    PROVE  Importance(f) \in Nat /\ Gain(f, hits) \in Nat
<1>1. Importance(f) \in Nat
  BY DEF Importance, ProfileFields, ListFields, CapFields
<1>2. Cardinality({i \in DOMAIN hits : f \in FieldsOf(Rules[hits[i]])}) \in Nat
  <2>1. DOMAIN hits = 1..Len(hits) /\ Len(hits) \in Nat
    OBVIOUS
  <2>2. IsFiniteSet(DOMAIN hits)
    BY <2>1, FS_Interval
  <2>3. IsFiniteSet({i \in DOMAIN hits : f \in FieldsOf(Rules[hits[i]])})
    BY <2>2, FS_Subset
  <2>4. QED BY <2>3, FS_CardinalityType
<1>3. \A x, y \in Nat : x * y \in Nat
  OBVIOUS
<1>4. QED BY <1>1, <1>2, <1>3 DEF Gain

\* Only custom fields are equally important.
LEMMA ImportanceTells ==
    ASSUME NEW f \in ProfileFields, NEW g \in ProfileFields, f # g, Importance(f) = Importance(g)
    PROVE  f \in Customs /\ g \in Customs
BY EligibilityAssumption DEF Importance, ProfileFields, ListFields, CapFields

\* The order of questions is strict and total.
LEMMA BeforeOrder ==
    ASSUME NEW hits \in Seq(DOMAIN Rules), NEW f \in ProfileFields, NEW g \in ProfileFields
    PROVE  /\ ~Before(f, f, hits)
           /\ f # g => Before(f, g, hits) \/ Before(g, f, hits)
           /\ \A h \in ProfileFields : Before(f, g, hits) /\ Before(g, h, hits) => Before(f, h, hits)
<1>1. Len(CustomFields) \in Nat /\ DOMAIN CustomFields = 1..Len(CustomFields)
      /\ \A i, j \in DOMAIN CustomFields : CustomFields[i] = CustomFields[j] => i = j
  BY EligibilityAssumption
<1> DEFINE Later(x, y) == \E i, j \in DOMAIN CustomFields : i > j /\ CustomFields[i] = x /\ CustomFields[j] = y
<1>2. \A x, y : Before(x, y, hits) <=>
         \/ Gain(x, hits) > Gain(y, hits)
         \/ Gain(x, hits) = Gain(y, hits) /\ Importance(x) > Importance(y)
         \/ Gain(x, hits) = Gain(y, hits) /\ Importance(x) = Importance(y) /\ Later(x, y)
  BY DEF Before
<1>3. \A x : ~Later(x, x)
  BY <1>1
<1>4. \A x, y, z : Later(x, y) /\ Later(y, z) => Later(x, z)
  BY <1>1
<1>5. \A x, y \in Customs : x # y => Later(x, y) \/ Later(y, x)
  <2>1. ASSUME NEW x \in Customs, NEW y \in Customs, x # y PROVE Later(x, y) \/ Later(y, x)
    <3>1. PICK i \in DOMAIN CustomFields : CustomFields[i] = x
      BY DEF Customs
    <3>2. PICK j \in DOMAIN CustomFields : CustomFields[j] = y
      BY DEF Customs
    <3>3. i > j \/ j > i
      BY <1>1, <2>1, <3>1, <3>2
    <3>4. QED BY <3>1, <3>2, <3>3
  <2>2. QED BY <2>1
<1> HIDE DEF Later
<1>6. /\ Gain(f, hits) \in Nat /\ Importance(f) \in Nat /\ Gain(g, hits) \in Nat /\ Importance(g) \in Nat
      /\ \A h \in ProfileFields : Gain(h, hits) \in Nat /\ Importance(h) \in Nat
  BY GainTypes
<1>7. ~Before(f, f, hits)
  BY <1>2, <1>3, <1>6
<1>8. f # g => Before(f, g, hits) \/ Before(g, f, hits)
  BY <1>2, <1>5, <1>6, ImportanceTells
<1>9. ASSUME NEW h \in ProfileFields, Before(f, g, hits), Before(g, h, hits) PROVE Before(f, h, hits)
  BY <1>2, <1>4, <1>6, <1>9
<1>10. QED BY <1>7, <1>8, <1>9

\* So among the open fields there is a first one.
LEMMA FirstOpen ==
    ASSUME NEW hits \in Seq(DOMAIN Rules), NEW open \in SUBSET ProfileFields, open # {}
    PROVE  \E f \in open : \A g \in open \ {f} : Before(f, g, hits)
<1> DEFINE Ahead(f) == {g \in open : Before(g, f, hits)}
           T == {Ahead(f) : f \in open}
           R == StrictSubsetOrdering(ProfileFields)
           S == FiniteSubsetsOf(ProfileFields)
<1>1. IsWellFoundedOn(R, S)
  BY FS_StrictSubsetOrderingWellFounded
<1>2. T \subseteq S /\ T # {}
  <2>1. ASSUME NEW f \in open PROVE Ahead(f) \in S
    <3>1. Ahead(f) \in SUBSET ProfileFields
      OBVIOUS
    <3>2. IsFiniteSet(Ahead(f))
      BY <3>1, FieldsFinite, FS_Subset
    <3>3. QED BY <3>1, <3>2 DEF FiniteSubsetsOf
  <2>2. QED BY <2>1
<1>3. \E x \in T : \A y \in T : ~ (<<y, x>> \in R)
  <2> HIDE DEF T, R, S
  <2>1. QED BY <1>1, <1>2, WFMin
<1>4. PICK f \in open : \A y \in T : ~ (<<y, Ahead(f)>> \in R)
  BY <1>3
<1>5. ASSUME NEW g \in open, Before(g, f, hits) PROVE FALSE
  <2>1. Ahead(g) \subseteq Ahead(f)
    <3>1. ASSUME NEW h \in open, Before(h, g, hits) PROVE Before(h, f, hits)
      BY <1>5, <3>1, BeforeOrder
    <3>2. QED BY <3>1
  <2>2. g \in Ahead(f) /\ g \notin Ahead(g)
    BY <1>5, BeforeOrder
  <2>3. Ahead(g) \in SUBSET ProfileFields /\ Ahead(f) \in SUBSET ProfileFields /\ Ahead(g) # Ahead(f)
    BY <2>2
  <2>4. <<Ahead(g), Ahead(f)>> \in R
    BY <2>1, <2>3 DEF StrictSubsetOrdering
  <2>5. QED BY <1>4, <2>4
<1>6. QED BY <1>5, BeforeOrder

\* A question is about an open field as long as there is one.
LEMMA QuestionOpen ==
    ASSUME NEW profile \in Profile, NEW done, NEW hits \in Seq(DOMAIN Rules)
    PROVE  IF Open(profile, done, hits) = {} THEN NextQuestion(profile, done, hits) = Fallback
           ELSE NextQuestion(profile, done, hits) \in Open(profile, done, hits)
<1> DEFINE open == Open(profile, done, hits)
<1>1. open \subseteq ProfileFields
  BY OpenFields
<1>2. CASE open = {}
  BY <1>2 DEF NextQuestion
<1>3. CASE open # {}
  <2>1. \E f \in open : \A g \in open \ {f} : Before(f, g, hits)
    BY <1>1, <1>3, FirstOpen
  <2>2. NextQuestion(profile, done, hits) = CHOOSE f \in open : \A g \in open \ {f} : Before(f, g, hits)
    BY <1>3 DEF NextQuestion
  <2>3. QED BY <1>3, <2>1, <2>2
<1>4. QED BY <1>2, <1>3

\* Nothing is left to ask about the candidates of the last turn.
Exhausted ==
    \A i \in DOMAIN candidates : \A f \in FieldsOf(Rules[candidates[i]]) :
        told.facts[f] # Unknown \/ f \in asked

InterviewInv == Honest /\ InterviewTypeOK /\ (response = Fallback => Exhausted)

LEMMA HitsTypes == \A hits \in Retrieved : hits \in Seq(DOMAIN Rules)
<1>1. AllRules \in Seq(DOMAIN Rules)
  <2>1. Len(Rules) \in Nat /\ DOMAIN Rules = 1..Len(Rules)
    BY EligibilityAssumption
  <2>2. AllRules \in [1..Len(Rules) -> DOMAIN Rules]
    BY <2>1 DEF AllRules
  <2>3. QED BY <2>1, <2>2
<1>2. QED BY <1>1, EligibilityAssumption DEF Retrieved

LEMMA TurnAsks ==
    ASSUME InterviewInv, Honest', NEW said, NEW hits \in Retrieved, TurnOn(said, hits)
    PROVE  InterviewInv'
<1> DEFINE turns == sinceResult + 1
           field == NextQuestion(told', asked, hits)
<1>1. hits \in Seq(DOMAIN Rules) /\ told' \in Profile
  BY HitsTypes DEF Honest
<1>2. /\ candidates' = hits /\ citizen' = citizen
      /\ IF ResultDue(told', hits, turns)
         THEN response' = "result" /\ sinceResult' = 0 /\ asked' = asked
         ELSE response' = field /\ sinceResult' = turns /\ asked' = asked \cup {field}
  BY DEF TurnOn
<1>3. IF Open(told', asked, hits) = {} THEN field = Fallback ELSE field \in Open(told', asked, hits)
  BY <1>1, QuestionOpen
<1>4. Open(told', asked, hits) \subseteq ProfileFields
  BY <1>1, OpenFields
<1>5. field \in ProfileFields \cup {Fallback}
  BY <1>3, <1>4
<1>6. ASSUME field = Fallback PROVE Open(told', asked, hits) = {}
  BY <1>3, <1>4, <1>6, EligibilityAssumption
<1>7. ~ResultDue(told', hits, turns) => turns \in 0..ResultAfter
  BY EligibilityAssumption DEF ResultDue, InterviewInv, InterviewTypeOK
<1> HIDE DEF field, turns
<1>8. InterviewTypeOK'
  <2>1. citizen' \in Citizens /\ asked \subseteq ProfileFields \cup {Fallback} /\ 0 \in 0..ResultAfter
    BY <1>2, EligibilityAssumption DEF InterviewInv, InterviewTypeOK
  <2>2. QED BY <1>1, <1>2, <1>5, <1>7, <2>1 DEF InterviewTypeOK
<1>9. ASSUME response' = Fallback PROVE Exhausted'
  <2>1. response' = field /\ asked' = asked \cup {field} /\ field = Fallback
    BY <1>2, <1>9, EligibilityAssumption
  <2>2. ASSUME NEW i \in DOMAIN hits, NEW f \in FieldsOf(Rules[hits[i]])
        PROVE  told'.facts[f] # Unknown \/ f \in asked'
    <3>1. f \notin Open(told', asked, hits)
      BY <1>6, <2>1
    <3>2. QED BY <2>1, <3>1 DEF Open
  <2>3. QED BY <1>2, <2>2 DEF Exhausted
<1>10. QED BY <1>8, <1>9 DEF InterviewInv

LEMMA InterviewInvStep ==
    ASSUME InterviewInv, [InterviewNext]_interviewVars
    PROVE  InterviewInv'
<1>1. Honest'
  BY InterviewStep DEF InterviewInv
<1>2. CASE Turn
  BY <1>1, <1>2, TurnAsks DEF Turn
<1>3. CASE TellReceived
  <2>1. told' = [told EXCEPT !.receives = citizen.receives]
        /\ UNCHANGED <<citizen, asked, sinceResult, candidates, response>>
    BY <1>3 DEF TellReceived
  <2>2. told' \in Profile /\ told'.facts = told.facts
    BY <1>1, <2>1 DEF Honest, InterviewInv, Profile
  <2>3. QED BY <1>1, <2>1, <2>2 DEF InterviewInv, InterviewTypeOK, Exhausted
<1>4. CASE UNCHANGED interviewVars
  BY <1>1, <1>4 DEF interviewVars, InterviewInv, InterviewTypeOK, Exhausted
<1>5. QED BY <1>2, <1>3, <1>4 DEF InterviewNext

\* The interview keeps its types, and its fallback comes when nothing is left to ask.
THEOREM InterviewInvariant == InterviewSpec => []InterviewInv
<1>1. InterviewInit => InterviewInv
  <2> SUFFICES ASSUME InterviewInit PROVE InterviewInv
    OBVIOUS
  <2>1. Nobody \in Profile /\ Nobody.receives = {} /\ \A f \in ProfileFields : Nobody.facts[f] = Unknown
    BY DEF Nobody, Profile
  <2>2. Honest
    BY <2>1 DEF InterviewInit, Honest
  <2>3. response # Fallback /\ <<>> \in Seq(DOMAIN Rules) /\ 0 \in 0..ResultAfter
    BY EligibilityAssumption DEF InterviewInit
  <2>4. QED BY <2>1, <2>2, <2>3 DEF InterviewInit, InterviewInv, InterviewTypeOK
<1>2. InterviewInv /\ [InterviewNext]_interviewVars => InterviewInv'
  BY InterviewInvStep
<1>3. QED BY <1>1, <1>2, PTL DEF InterviewSpec

\* Questions end only when every open field was asked or answered with "unknown"
\* (agent/question_selection.py:54-67).
THEOREM QuestionsExhausted == InterviewSpec => []FallbackOnlyWhenExhausted
<1>1. InterviewInv => FallbackOnlyWhenExhausted
  <2> SUFFICES ASSUME InterviewInv, response = Fallback, NEW i \in DOMAIN candidates,
                      NEW c \in Having(Rules[candidates[i]], told, "unknown")
               PROVE  \/ FieldOf(Rules[candidates[i]], c) \in asked
                      \/ told.facts[FieldOf(Rules[candidates[i]], c)] = Unsure
    BY DEF FallbackOnlyWhenExhausted
  <2> DEFINE f == FieldOf(Rules[candidates[i]], c)
  <2>1. c \in CriteriaOf(Rules[candidates[i]]) /\ Outcome(Rules[candidates[i]], told, c) = "unknown"
    BY DEF Having
  <2>2. told.facts[f] \in {Unknown, Unsure}
    BY <2>1 DEF Outcome
  <2>3. f \in FieldsOf(Rules[candidates[i]])
    BY <2>1 DEF FieldsOf
  <2>4. QED BY <2>2, <2>3 DEF InterviewInv, Exhausted
<1>2. QED BY <1>1, InterviewInvariant, PTL

-----------------------------------------------------------------------------
(* Completeness.                                                             *)

\* A quotient below a whole hundred.
LEMMA QuotientBelow ==
    ASSUME NEW x \in Nat, NEW d \in Nat \ {0}, x < 100 * d
    PROVE  x \div d \in Int /\ x \div d <= 99
<1> DEFINE q == x \div d
           m == x % d
<1>1. q \in Int /\ m \in 0..d - 1 /\ x = d * q + m
  OBVIOUS
<1> HIDE DEF q, m
<1>2. ASSUME q >= 100 PROVE FALSE
  <2>1. d * q >= d * 100
    BY <1>1, <1>2
  <2>2. QED BY <1>1, <2>1
<1>3. QED BY <1>1, <1>2 DEF q

\* What rounds up to all of it misses half a percent at most.
LEMMA PercentFull ==
    ASSUME NEW part \in Nat, NEW whole \in Nat, part <= whole, Percent(part, whole) = 100, whole > 0
    PROVE  200 * (whole - part) <= whole
<1> SUFFICES ASSUME 200 * (whole - part) > whole
             PROVE  FALSE
  OBVIOUS
<1> DEFINE x == 200 * part + whole
           d == 2 * whole
           up == x \div d
<1>1. x \in Nat /\ d \in Nat \ {0} /\ x < 100 * d
  OBVIOUS
<1>2. up \in Int /\ up <= 99
  <2> HIDE DEF x, d
  <2>1. QED BY <1>1, QuotientBelow
<1>3. Percent(part, whole) = IF x % d = 0 /\ up % 2 = 1 THEN up - 1 ELSE up
  BY DEF Percent
<1> HIDE DEF up, x, d
<1>4. QED BY <1>2, <1>3

\* What is answered of a group of fields, and one less when one is missing.
LEMMA GroupCounts ==
    ASSUME NEW some, NEW all, IsFiniteSet(all), some \subseteq all, NEW F
    PROVE  /\ Cardinality(some \cap F) \in Nat /\ Cardinality(all \cap F) \in Nat
           /\ Cardinality(some \cap F) <= Cardinality(all \cap F)
           /\ \A f \in (all \ some) \cap F : Cardinality(some \cap F) + 1 <= Cardinality(all \cap F)
<1>1. IsFiniteSet(all \cap F) /\ (some \cap F) \in SUBSET (all \cap F)
  BY FS_Intersection
<1>2. /\ IsFiniteSet(some \cap F) /\ Cardinality(some \cap F) <= Cardinality(all \cap F)
      /\ Cardinality(all \cap F) = Cardinality(some \cap F) => all \cap F = some \cap F
  BY <1>1, FS_Subset
<1>3. Cardinality(some \cap F) \in Nat /\ Cardinality(all \cap F) \in Nat
  BY <1>1, <1>2, FS_CardinalityType
<1>4. ASSUME NEW f \in (all \ some) \cap F PROVE Cardinality(some \cap F) # Cardinality(all \cap F)
  BY <1>2, <1>4
<1>5. QED BY <1>2, <1>3, <1>4

\* One element more.
LEMMA OneMore ==
    ASSUME NEW S, IsFiniteSet(S), NEW n \in Nat, Cardinality(S) <= n, NEW x
    PROVE  /\ IsFiniteSet(S \cup {x}) /\ Cardinality(S \cup {x}) \in Nat
           /\ Cardinality(S \cup {x}) <= n + 1
<1>1. Cardinality(S) \in Nat
  BY FS_CardinalityType
<1>2. IsFiniteSet(S \cup {x})
  BY FS_AddElement
<1>3. Cardinality(S \cup {x}) = Cardinality(S) \/ Cardinality(S \cup {x}) = Cardinality(S) + 1
  BY FS_AddElement
<1>4. QED BY <1>1, <1>2, <1>3

\* A group of up to four fields.
LEMMA GroupSize ==
    ASSUME NEW all, IsFiniteSet(all), NEW a, NEW b, NEW c, NEW d
    PROVE  /\ Cardinality(all \cap {a}) <= 1 /\ Cardinality(all \cap {a, b, c}) <= 3
           /\ Cardinality(all \cap {a, b, c, d}) <= 4
<1>1. /\ IsFiniteSet({a}) /\ Cardinality({a}) = 1
  BY FS_Singleton
<1>2. /\ IsFiniteSet({a} \cup {b}) /\ Cardinality({a} \cup {b}) \in Nat /\ Cardinality({a} \cup {b}) <= 1 + 1
  <2>1. 1 \in Nat /\ Cardinality({a}) <= 1
    BY <1>1
  <2>2. QED BY <1>1, <2>1, OneMore
<1>3. /\ IsFiniteSet({a} \cup {b} \cup {c}) /\ Cardinality({a} \cup {b} \cup {c}) \in Nat
      /\ Cardinality({a} \cup {b} \cup {c}) <= 2 + 1
  <2>1. 2 \in Nat /\ Cardinality({a} \cup {b}) <= 2
    BY <1>2
  <2>2. QED BY <1>2, <2>1, OneMore
<1>4. /\ IsFiniteSet({a} \cup {b} \cup {c} \cup {d}) /\ Cardinality({a} \cup {b} \cup {c} \cup {d}) \in Nat
      /\ Cardinality({a} \cup {b} \cup {c} \cup {d}) <= 3 + 1
  <2>1. 3 \in Nat /\ Cardinality({a} \cup {b} \cup {c}) <= 3
    BY <1>3
  <2>2. QED BY <1>3, <2>1, OneMore
<1>5. {a} \cup {b} \cup {c} = {a, b, c} /\ {a} \cup {b} \cup {c} \cup {d} = {a, b, c, d}
  OBVIOUS
<1>6. ASSUME NEW F, IsFiniteSet(F) PROVE Cardinality(all \cap F) \in Nat /\ Cardinality(all \cap F) <= Cardinality(F)
  BY <1>6, FS_Intersection, FS_CardinalityType
<1>7. /\ Cardinality(all \cap {a}) \in Nat /\ Cardinality(all \cap {a}) <= Cardinality({a})
  BY <1>1, <1>6
<1>8. /\ Cardinality(all \cap {a, b, c}) \in Nat /\ Cardinality(all \cap {a, b, c}) <= Cardinality({a, b, c})
      /\ Cardinality({a, b, c}) \in Nat
  BY <1>3, <1>5, <1>6
<1>9. /\ Cardinality(all \cap {a, b, c, d}) \in Nat /\ Cardinality(all \cap {a, b, c, d}) <= Cardinality({a, b, c, d})
      /\ Cardinality({a, b, c, d}) \in Nat
  BY <1>4, <1>5, <1>6
<1>10. QED BY <1>1, <1>3, <1>4, <1>5, <1>7, <1>8, <1>9

\* Products of small numbers.
LEMMA Times ==
    ASSUME NEW n \in Nat, NEW x \in Nat, NEW y \in Nat, x <= y
    PROVE  /\ n * x \in Nat /\ n * x <= n * y
           /\ x + 1 <= y => n * x + n <= n * y
<1>1. PICK z \in Nat : y = x + z
  <2>1. y - x \in Nat /\ y = x + (y - x)
    OBVIOUS
  <2>2. QED BY <2>1
<1>2. n * y = n * x + n * z /\ n * x \in Nat /\ n * z \in Nat
  BY <1>1
<1>3. x + 1 <= y => n * z >= n
  <2>1. ASSUME z >= 1 PROVE n * z >= n
    <3>1. PICK u \in Nat : z = u + 1
      <4>1. z - 1 \in Nat /\ z = (z - 1) + 1
        BY <1>1, <2>1
      <4>2. QED BY <4>1
    <3>2. n * z = n * u + n /\ n * u \in Nat
      BY <3>1
    <3>3. QED BY <3>2
  <2>2. QED BY <1>1, <2>1
<1>4. QED BY <1>2, <1>3

\* A missing column weighs eight shares of a hundred and more; a custom field weighs six,
\* of as many times a hundred as there are custom fields.
LEMMA MissingWeighs ==
    ASSUME NEW some, NEW all \in SUBSET ProfileFields, some \subseteq all
    PROVE  LET m == Cardinality(all \cap Customs)
               n == IF m = 0 THEN 1 ELSE m
               part == Weighed(some, m)
               whole == Weighed(all, m)
               lost == m - Cardinality(some \cap Customs)
           IN  /\ m \in Nat /\ lost \in Nat /\ part \in Nat /\ whole \in Nat
               /\ whole <= 100 * n /\ part + 6 * lost <= whole
               /\ ~(all \ some \subseteq Customs) => part + 8 * n <= whole
<1> DEFINE m == Cardinality(all \cap Customs)
           n == IF m = 0 THEN 1 ELSE m
           A == {"state_code", "age", "annual_income", "occupation_type"}
           B == {"gender"}
           C == {"caste_category", "marital_status", "land_holding_acres"}
           a1 == Cardinality(some \cap A)
           a2 == Cardinality(all \cap A)
           b1 == Cardinality(some \cap B)
           b2 == Cardinality(all \cap B)
           c1 == Cardinality(some \cap C)
           c2 == Cardinality(all \cap C)
           m1 == Cardinality(some \cap Customs)
           column == ~(all \ some \subseteq Customs)
<1>1. IsFiniteSet(all)
  BY FieldsFinite, FS_Subset
<1>2. /\ Weighed(some, m) = n * 15 * a1 + n * 10 * b1 + n * 8 * c1 + 6 * m1
      /\ Weighed(all, m) = n * 15 * a2 + n * 10 * b2 + n * 8 * c2 + 6 * m
  BY DEF Weighed
<1>3. /\ a1 \in Nat /\ a2 \in Nat /\ a1 <= a2 /\ ((all \ some) \cap A # {} => a1 + 1 <= a2)
      /\ b1 \in Nat /\ b2 \in Nat /\ b1 <= b2 /\ ((all \ some) \cap B # {} => b1 + 1 <= b2)
      /\ c1 \in Nat /\ c2 \in Nat /\ c1 <= c2 /\ ((all \ some) \cap C # {} => c1 + 1 <= c2)
      /\ m1 \in Nat /\ m \in Nat /\ m1 <= m
  BY <1>1, GroupCounts
<1>4. column => (all \ some) \cap A # {} \/ (all \ some) \cap B # {} \/ (all \ some) \cap C # {}
  BY DEF ProfileFields, ListFields, CapFields
<1>5. column => a1 + 1 <= a2 \/ b1 + 1 <= b2 \/ c1 + 1 <= c2
  BY <1>3, <1>4
<1>6. a2 <= 4 /\ b2 <= 1 /\ c2 <= 3
  BY <1>1, GroupSize
<1> HIDE DEF a1, a2, b1, b2, c1, c2, m1, m, n, column
<1>7. n \in Nat /\ m <= n
  BY <1>3 DEF n
<1>8. /\ n * a1 \in Nat /\ n * a2 \in Nat /\ n * a1 <= n * a2 /\ (a1 + 1 <= a2 => n * a1 + n <= n * a2)
      /\ n * b1 \in Nat /\ n * b2 \in Nat /\ n * b1 <= n * b2 /\ (b1 + 1 <= b2 => n * b1 + n <= n * b2)
      /\ n * c1 \in Nat /\ n * c2 \in Nat /\ n * c1 <= n * c2 /\ (c1 + 1 <= c2 => n * c1 + n <= n * c2)
      /\ n * a2 <= n * 4 /\ n * b2 <= n * 1 /\ n * c2 <= n * 3
  <2>1. n \in Nat /\ 4 \in Nat /\ 1 \in Nat /\ 3 \in Nat
    BY <1>7
  <2>2. QED BY <1>3, <1>6, <2>1, Times
<1>9. /\ n * 15 * a1 = 15 * (n * a1) /\ n * 10 * b1 = 10 * (n * b1) /\ n * 8 * c1 = 8 * (n * c1)
      /\ n * 15 * a2 = 15 * (n * a2) /\ n * 10 * b2 = 10 * (n * b2) /\ n * 8 * c2 = 8 * (n * c2)
  BY <1>3, <1>7
<1> DEFINE x1 == n * a1
           x2 == n * a2
           y1 == n * b1
           y2 == n * b2
           z1 == n * c1
           z2 == n * c2
           s == 15 * x1 + 10 * y1 + 8 * z1 + 6 * m1
           t == 15 * x2 + 10 * y2 + 8 * z2 + 6 * m
<1>10. Weighed(some, m) = s /\ Weighed(all, m) = t
  BY <1>2, <1>9
<1> HIDE DEF x1, x2, y1, y2, z1, z2
<1>11. /\ x1 \in Nat /\ x2 \in Nat /\ x1 <= x2 /\ x2 <= 4 * n
       /\ y1 \in Nat /\ y2 \in Nat /\ y1 <= y2 /\ y2 <= n
       /\ z1 \in Nat /\ z2 \in Nat /\ z1 <= z2 /\ z2 <= 3 * n
       /\ column => x1 + n <= x2 \/ y1 + n <= y2 \/ z1 + n <= z2
  BY <1>5, <1>7, <1>8 DEF x1, x2, y1, y2, z1, z2
<1>12. s \in Nat /\ t \in Nat /\ t <= 100 * n
  BY <1>3, <1>7, <1>11
<1>13. m - m1 \in Nat /\ s + 6 * (m - m1) <= t
  BY <1>3, <1>11
<1>14. column => s + 8 * n <= t
  BY <1>3, <1>7, <1>11
<1>15. QED BY <1>3, <1>10, <1>12, <1>13, <1>14 DEF m, n, m1, column

\* A complete profile decides the rules that count but for a twelfth of the custom fields:
\* a column that is missing costs more than rounding gives back (agent/completeness.py:41-71).
THEOREM CompleteProfilesDecide == InterviewSpec => []CompleteDecides
<1>1. InterviewInv => CompleteDecides
  <2> DEFINE waiting(rule) == {FieldOf(rule, c) : c \in Having(rule, told, "unknown")}
             waits == UNION {waiting(Rules[candidates[i]]) : i \in Counting(candidates)}
             all == Relevant(candidates)
             some == {f \in all : told.facts[f] # Unknown}
             m == Cardinality(all \cap Customs)
             m1 == Cardinality(some \cap Customs)
             n == IF m = 0 THEN 1 ELSE m
             part == Weighed(some, m)
             whole == Weighed(all, m)
  <2> SUFFICES ASSUME InterviewInv, Completeness(told, candidates) = 100,
                      Unsure \notin {told.facts[f] : f \in ProfileFields}
               PROVE  waits \subseteq Customs /\ 12 * Cardinality(waits) <= m
    BY DEF CompleteDecides
  <2>1. Percent(part, whole) = 100
    BY DEF Completeness
  <2>2. candidates \in Seq(DOMAIN Rules) /\ told \in Profile
    BY DEF InterviewInv, InterviewTypeOK
  <2>3. \A i \in DOMAIN candidates : Rules[candidates[i]] \in Rule /\ FieldsOf(Rules[candidates[i]]) \subseteq ProfileFields
    BY <2>2, OpenFields
  <2>4. all \in SUBSET ProfileFields /\ some \subseteq all
    BY <2>3 DEF Relevant, Counting, BaseFields, ProfileFields, ListFields, CapFields
  <2>5. waits \subseteq all \ some
    <3>1. ASSUME NEW i \in Counting(candidates), NEW c \in Having(Rules[candidates[i]], told, "unknown")
          PROVE  FieldOf(Rules[candidates[i]], c) \in all \ some
      <4> DEFINE rule == Rules[candidates[i]]
                 f == FieldOf(rule, c)
      <4>1. rule \in Rule /\ c \in CriteriaOf(rule) /\ Outcome(rule, told, c) = "unknown"
        BY <2>3 DEF Counting, Having
      <4>2. f \in FieldsOf(rule) /\ f \in ProfileFields
        BY <4>1, CriteriaFields DEF FieldsOf
      <4>3. told.facts[f] \in {Unknown, Unsure}
        BY <4>1 DEF Outcome
      <4>4. told.facts[f] = Unknown
        BY <4>2, <4>3
      <4>5. f \in all
        BY <4>2 DEF Relevant
      <4>6. QED BY <4>4, <4>5
    <3>2. QED BY <3>1
  <2>6. /\ m \in Nat /\ m - m1 \in Nat /\ part \in Nat /\ whole \in Nat
        /\ whole <= 100 * n /\ part + 6 * (m - m1) <= whole
        /\ ~(all \ some \subseteq Customs) => part + 8 * n <= whole
    <3> HIDE DEF some, all
    <3>1. QED BY <2>4, MissingWeighs
  <2> HIDE DEF part, whole
  <2>7. n \in Nat \ {0} /\ part <= whole
    BY <2>6
  <2>8. IsFiniteSet(all) /\ IsFiniteSet(all \cap Customs) /\ some \cap Customs \subseteq all \cap Customs
    BY <2>4, FieldsFinite, FS_Subset
  <2>9. CASE waits = {}
    <3>1. Cardinality(waits) = 0
      BY <2>9, FS_EmptySet
    <3> HIDE DEF waits, m
    <3>2. QED BY <2>6, <2>9, <3>1
  <2>10. CASE waits # {}
    <3> HIDE DEF waits, some, all
    <3>1. whole > 0 => 200 * (whole - part) <= whole
      BY <2>1, <2>6, <2>7, PercentFull
    <3>2. all \ some \subseteq Customs
      <4> SUFFICES ASSUME ~(all \ some \subseteq Customs) PROVE FALSE
        OBVIOUS
      <4>1. part + 8 * n <= whole
        BY <2>6
      <4> HIDE DEF m, n
      <4>2. 200 * (whole - part) <= whole
        BY <2>1, <2>6, <2>7, <4>1, PercentFull
      <4>3. QED BY <2>6, <2>7, <4>1, <4>2
    <3> DEFINE missing == (all \cap Customs) \ (some \cap Customs)
    <3>3. all \ some = missing
      BY <3>2
    <3>4. IsFiniteSet(missing) /\ Cardinality(missing) = m - m1
      <4>1. ASSUME NEW S, NEW T, IsFiniteSet(S), T \subseteq S
            PROVE  IsFiniteSet(S \ T) /\ Cardinality(S \ T) = Cardinality(S) - Cardinality(T)
        <5>1. S \cap T = T
          BY <4>1
        <5>2. QED BY <4>1, <5>1, FS_Difference
      <4>2. QED BY <2>8, <4>1
    <3>5. waits \subseteq missing /\ missing # {}
      BY <2>5, <2>10, <3>3
    <3>6. IsFiniteSet(waits) /\ Cardinality(waits) \in Nat /\ Cardinality(waits) <= m - m1
      BY <3>4, <3>5, FS_Subset, FS_CardinalityType
    <3>7. m - m1 # 0
      BY <3>4, <3>5, FS_EmptySet
    <3>8. m1 \in Nat
      BY <2>8, FS_Subset, FS_CardinalityType
    <3> HIDE DEF m1
    <3>9. n = m
      <4> HIDE DEF m
      <4>1. QED BY <2>6, <3>7, <3>8
    <3> HIDE DEF m, n, missing
    <3>10. whole > 0
      BY <2>6, <3>7
    <3>11. 12 * (m - m1) <= m
      BY <2>6, <3>1, <3>2, <3>8, <3>9, <3>10
    <3>12. QED BY <2>6, <3>2, <3>3, <3>5, <3>6, <3>8, <3>11
  <2>11. QED BY <2>9, <2>10
<1>2. QED BY <1>1, InterviewInvariant, PTL

-----------------------------------------------------------------------------
(* Document checks.                                                          *)

\* A set of places has a first one.
LEMMA FirstPlace ==
    ASSUME NEW places \in SUBSET Nat, places # {}
    PROVE  First(places) \in places
<1> DEFINE T == {0..i : i \in places}
           R == StrictSubsetOrdering(Nat)
           S == FiniteSubsetsOf(Nat)
<1>1. IsWellFoundedOn(R, S)
  BY FS_StrictSubsetOrderingWellFounded
<1>2. T \subseteq S /\ T # {}
  <2>1. ASSUME NEW i \in places PROVE 0..i \in S
    <3>1. IsFiniteSet(0..i) /\ 0..i \in SUBSET Nat
      BY FS_Interval
    <3>2. QED BY <3>1 DEF FiniteSubsetsOf
  <2>2. QED BY <2>1
<1>3. \E x \in T : \A y \in T : ~ (<<y, x>> \in R)
  <2> HIDE DEF T, R, S
  <2>1. QED BY <1>1, <1>2, WFMin
<1>4. PICK i \in places : \A y \in T : ~ (<<y, 0..i>> \in R)
  BY <1>3
<1>5. ASSUME NEW j \in places PROVE i <= j
  <2>1. ASSUME j < i PROVE FALSE
    <3>1. 0..j \subseteq 0..i /\ i \in 0..i /\ i \notin 0..j /\ 0..i \in SUBSET Nat /\ 0..j \in SUBSET Nat
      BY <2>1
    <3>2. 0..j # 0..i
      BY <3>1
    <3>3. <<0..j, 0..i>> \in R
      BY <3>1, <3>2 DEF StrictSubsetOrdering
    <3>4. QED BY <1>4, <3>3
  <2>2. QED BY <2>1
<1>6. QED BY <1>5 DEF First

\* The four outcomes, and what they stand for.
LEMMA HowTells ==
    ASSUME NEW document \in RequiredDocument, NEW list \in Seq(Names)
    PROVE  /\ How(document, list) \in {"exact", "substitute", "alias", "missing"}
           /\ How(document, list) = "exact" => Spelled(document.name, list) # {}
           /\ How(document, list) = "substitute" => Offered(document, list) # {}
           /\ How(document, list) = "alias" => Meant(document.name, list) # {}
           /\ How(document, list) = "missing" =>
                 Spelled(document.name, list) = {} /\ Offered(document, list) = {} /\ Meant(document.name, list) = {}
BY DEF How

\* A document is missing when no name of the list serves it.
LEMMA MissingUnserved ==
    ASSUME NEW document \in RequiredDocument, NEW list \in Seq(Names)
    PROVE  How(document, list) = "missing" <=> \A name \in Named(list) : ~Serves(name, document)
<1>1. ASSUME How(document, list) = "missing", NEW i \in DOMAIN list PROVE ~Serves(list[i], document)
  <2>1. Offered(document, list) = {} /\ Meant(document.name, list) = {}
    BY <1>1, HowTells
  <2>2. ~Same(list[i], document.name)
    BY <2>1 DEF Meant
  <2>3. ASSUME NEW k \in DOMAIN document.accepted_substitutes PROVE ~Same(list[i], document.accepted_substitutes[k])
    BY <2>1 DEF Offered, Meant
  <2>4. QED BY <2>2, <2>3 DEF Serves
<1>2. ASSUME How(document, list) # "missing" PROVE \E i \in DOMAIN list : Serves(list[i], document)
  <2>1. CASE Spelled(document.name, list) # {}
    BY <2>1 DEF Spelled, Serves, Same
  <2>2. CASE Meant(document.name, list) # {}
    BY <2>2 DEF Meant, Serves
  <2>3. CASE Offered(document, list) # {}
    BY <2>3 DEF Offered, Meant, Serves
  <2>4. QED BY <1>2, <2>1, <2>2, <2>3, HowTells
<1>3. QED BY <1>1, <1>2 DEF Named

\* What is found is a name of the list that serves.
LEMMA MatchServes ==
    ASSUME NEW document \in RequiredDocument, NEW list \in Seq(Names), How(document, list) # "missing"
    PROVE  Match(document, list) \in Named(list) /\ Serves(Match(document, list), document)
           /\ Match(document, list) \in Names
<1>0. DOMAIN list \subseteq Nat /\ DOMAIN document.accepted_substitutes \subseteq Nat
      /\ \A i \in DOMAIN list : list[i] \in Names
  <2>1. document.accepted_substitutes \in Seq(Names)
    BY DEF RequiredDocument
  <2>2. QED BY <2>1
<1>1. CASE How(document, list) = "exact"
  <2> DEFINE i == First(Spelled(document.name, list))
  <2>1. i \in Spelled(document.name, list)
    BY <1>0, <1>1, HowTells, FirstPlace DEF Spelled
  <2>2. i \in DOMAIN list /\ list[i] = document.name
    BY <2>1 DEF Spelled
  <2>3. Match(document, list) = list[i]
    BY <1>1 DEF Match
  <2> HIDE DEF i
  <2>4. QED BY <1>0, <2>2, <2>3 DEF Named, Serves, Same
<1>2. CASE How(document, list) = "alias"
  <2> DEFINE i == First(Meant(document.name, list))
  <2>1. i \in Meant(document.name, list)
    BY <1>0, <1>2, HowTells, FirstPlace DEF Meant
  <2>2. i \in DOMAIN list /\ Same(list[i], document.name)
    BY <2>1 DEF Meant
  <2>3. Match(document, list) = list[i]
    BY <1>2 DEF Match
  <2> HIDE DEF i
  <2>4. QED BY <1>0, <2>2, <2>3 DEF Named, Serves
<1>3. CASE How(document, list) = "substitute"
  <2> DEFINE j == First(Offered(document, list))
             wanted == document.accepted_substitutes[j]
             i == First(Meant(wanted, list))
  <2>1. j \in Offered(document, list)
    BY <1>0, <1>3, HowTells, FirstPlace DEF Offered
  <2>2. j \in DOMAIN document.accepted_substitutes /\ Meant(wanted, list) # {}
    BY <2>1 DEF Offered
  <2>3. i \in Meant(wanted, list)
    BY <1>0, <2>2, FirstPlace DEF Meant
  <2>4. i \in DOMAIN list /\ Same(list[i], wanted)
    BY <2>3 DEF Meant
  <2>5. Match(document, list) = list[i]
    BY <1>3 DEF Match
  <2> HIDE DEF i, j
  <2>6. QED BY <1>0, <2>2, <2>4, <2>5 DEF Named, Serves
<1>4. QED BY <1>1, <1>2, <1>3, HowTells

\* The list of the citizen only grows.
Continues(list, longer) == Len(list) <= Len(longer) /\ \A k \in 1..Len(list) : list[k] = longer[k]

\* Checks are kept as they were answered, each of a list that later lists begin with.
DocumentsInv ==
    /\ DocumentsTypeOK
    /\ \A i \in DOMAIN checks : checks[i].answer = CheckDocumentSufficiency(checks[i].demand, checks[i].available)
    /\ \A i \in DOMAIN checks : Continues(checks[i].available, available)
    /\ \A i, j \in DOMAIN checks : i <= j => Continues(checks[i].available, checks[j].available)

\* The parts of an answer.
LEMMA AnswerParts ==
    ASSUME NEW documents \in Demands, NEW list \in Seq(Names)
    PROVE  LET answer == CheckDocumentSufficiency(documents, list)
               mandatory == {k \in DOMAIN documents : documents[k].is_mandatory}
           IN  /\ answer \in Answer
               /\ answer.missing = {k \in mandatory : \A name \in Named(list) : ~Serves(name, documents[k])}
               /\ DOMAIN answer.matched = mandatory \ answer.missing
               /\ \A k \in DOMAIN answer.matched :
                     answer.matched[k] \in Named(list) /\ Serves(answer.matched[k], documents[k])
<1> DEFINE answer == CheckDocumentSufficiency(documents, list)
           mandatory == {k \in DOMAIN documents : documents[k].is_mandatory}
           found(ways) == {k \in mandatory : How(documents[k], list) \in ways}
           held == found({"exact", "substitute", "alias"})
<1>1. answer = [missing |-> found({"missing"}), substituted |-> found({"substitute"}),
                matched |-> [k \in held |-> Match(documents[k], list)]]
  <2>1. \A ways : found(ways) = {k \in DOMAIN documents : documents[k].is_mandatory /\ How(documents[k], list) \in ways}
    OBVIOUS
  <2>2. QED BY <2>1 DEF CheckDocumentSufficiency
<1>2. \A k \in DOMAIN documents : documents[k] \in RequiredDocument
  <2>1. documents \in Seq(RequiredDocument)
    BY DocumentsAssumption
  <2>2. QED BY <2>1
<1>3. \A k \in mandatory :
        /\ How(documents[k], list) \in {"exact", "substitute", "alias", "missing"}
        /\ How(documents[k], list) = "missing" <=> \A name \in Named(list) : ~Serves(name, documents[k])
  BY <1>2, HowTells, MissingUnserved
<1>4. found({"missing"}) = {k \in mandatory : \A name \in Named(list) : ~Serves(name, documents[k])}
  BY <1>3
<1>5. held = mandatory \ found({"missing"})
  BY <1>3
<1>6. \A k \in held : /\ Match(documents[k], list) \in Named(list) /\ Serves(Match(documents[k], list), documents[k])
                      /\ Match(documents[k], list) \in Names
  BY <1>2, MatchServes
<1>7. DOMAIN documents \subseteq Places /\ held \in SUBSET Places
      /\ \A ways : found(ways) \in SUBSET Places
  BY DEF Places
<1> HIDE DEF held, found, mandatory
<1>8. [k \in held |-> Match(documents[k], list)] \in [held -> Names]
  BY <1>6
<1>9. [k \in held |-> Match(documents[k], list)] \in UNION {[S -> Names] : S \in SUBSET Places}
  BY <1>7, <1>8
<1>10. answer \in Answer
  BY <1>1, <1>7, <1>9 DEF Answer
<1> HIDE DEF answer
<1>11. answer.missing = found({"missing"}) /\ answer.matched = [k \in held |-> Match(documents[k], list)]
  BY <1>1
<1>12. /\ answer.missing = {k \in mandatory : \A name \in Named(list) : ~Serves(name, documents[k])}
       /\ DOMAIN answer.matched = mandatory \ answer.missing
       /\ \A k \in DOMAIN answer.matched :
             answer.matched[k] \in Named(list) /\ Serves(answer.matched[k], documents[k])
  BY <1>4, <1>5, <1>6, <1>11
<1>13. QED BY <1>10, <1>12 DEF answer, mandatory

LEMMA DocumentsStep ==
    ASSUME DocumentsInv, [DocumentsNext]_documentVars
    PROVE  DocumentsInv'
<1>1. demand \in Demands /\ available \in Seq(Names) /\ checks \in Seq(Check)
  BY DEF DocumentsInv, DocumentsTypeOK
<1>2. ASSUME NEW name \in Names, NameDocument(name) PROVE DocumentsInv'
  <2>1. available' = Append(available, name) /\ UNCHANGED <<demand, checks>>
    BY <1>2 DEF NameDocument
  <2>2. /\ available' \in Seq(Names) /\ Len(available') = Len(available) + 1 /\ Len(available) \in Nat
        /\ \A k \in 1..Len(available) : available'[k] = available[k]
    BY <1>1, <2>1
  <2>3. ASSUME NEW i \in DOMAIN checks PROVE Continues(checks[i].available, available')
    <3>1. Continues(checks[i].available, available) /\ checks[i] \in Check
      BY <1>1 DEF DocumentsInv
    <3>2. Len(checks[i].available) \in Nat
      BY <3>1 DEF Check
    <3>3. QED BY <2>2, <3>1, <3>2 DEF Continues
  <2>4. DocumentsTypeOK'
    BY <1>1, <2>1, <2>2 DEF DocumentsTypeOK
  <2>5. \A i \in DOMAIN checks' : Continues(checks'[i].available, available')
    BY <2>1, <2>3
  <2>6. QED BY <2>1, <2>4, <2>5 DEF DocumentsInv, Continues
<1>3. ASSUME NEW documents \in Demands, Publish(documents) PROVE DocumentsInv'
  <2>1. demand' = documents /\ UNCHANGED <<available, checks>>
    BY <1>3 DEF Publish
  <2>2. QED BY <2>1 DEF DocumentsInv, DocumentsTypeOK, Continues
<1>4. CASE CheckDocuments
  <2> DEFINE new == [demand |-> demand, available |-> available, answer |-> CheckDocumentSufficiency(demand, available)]
             n == Len(checks)
  <2>1. checks' = Append(checks, new) /\ UNCHANGED <<demand, available>>
    BY <1>4 DEF CheckDocuments
  <2>2. new \in Check
    BY <1>1, AnswerParts DEF Check
  <2>3. new.demand = demand /\ new.available = available /\ new.answer = CheckDocumentSufficiency(demand, available)
    OBVIOUS
  <2> HIDE DEF new
  <2>4. /\ n \in Nat /\ checks' \in Seq(Check) /\ DOMAIN checks = 1..n /\ DOMAIN checks' = 1..n + 1
        /\ checks'[n + 1] = new /\ \A i \in 1..n : checks'[i] = checks[i]
    BY <1>1, <2>1, <2>2
  <2> HIDE DEF n
  <2>5. DocumentsTypeOK'
    BY <1>1, <2>1, <2>4 DEF DocumentsTypeOK
  <2>6. ASSUME NEW i \in DOMAIN checks'
        PROVE  /\ checks'[i].answer = CheckDocumentSufficiency(checks'[i].demand, checks'[i].available)
               /\ Continues(checks'[i].available, available')
    <3>1. CASE i = n + 1
      <4>1. Len(available) \in Nat
        BY <1>1
      <4>2. QED BY <2>1, <2>3, <2>4, <3>1, <4>1 DEF Continues
    <3>2. CASE i # n + 1
      <4>1. i \in DOMAIN checks /\ checks'[i] = checks[i]
        BY <2>4, <3>2
      <4>2. QED BY <2>1, <4>1 DEF DocumentsInv
    <3>3. QED BY <3>1, <3>2
  <2>7. ASSUME NEW i \in DOMAIN checks', NEW j \in DOMAIN checks', i <= j
        PROVE  Continues(checks'[i].available, checks'[j].available)
    <3>1. CASE j = n + 1
      <4>1. Continues(checks'[i].available, available')
        BY <2>6
      <4>2. QED BY <2>1, <2>3, <2>4, <3>1, <4>1
    <3>2. CASE j # n + 1
      <4>1. i \in DOMAIN checks /\ j \in DOMAIN checks /\ checks'[i] = checks[i] /\ checks'[j] = checks[j]
        BY <2>4, <2>7, <3>2
      <4>2. QED BY <2>7, <4>1 DEF DocumentsInv
    <3>3. QED BY <3>1, <3>2
  <2>8. \A i \in DOMAIN checks' : checks'[i].answer = CheckDocumentSufficiency(checks'[i].demand, checks'[i].available)
    BY <2>6
  <2>9. \A i \in DOMAIN checks' : Continues(checks'[i].available, available')
    BY <2>6
  <2>10. \A i, j \in DOMAIN checks' : i <= j => Continues(checks'[i].available, checks'[j].available)
    BY <2>7
  <2>11. (\A i \in DOMAIN checks : checks[i].answer = CheckDocumentSufficiency(checks[i].demand, checks[i].available))'
    BY <2>8 DEF CheckDocumentSufficiency, How, Match, Spelled, Meant, Offered, First, Same
  <2>12. QED BY <2>5, <2>9, <2>10, <2>11 DEF DocumentsInv, Continues
<1>5. CASE UNCHANGED documentVars
  BY <1>5 DEF documentVars, DocumentsInv, DocumentsTypeOK, Continues
<1>6. QED BY <1>2, <1>3, <1>4, <1>5 DEF DocumentsNext

\* The demand, the list and the checks keep their types, and a check stays as it was
\* answered, of a list that every later list begins with
\* (services/documents/document_matcher.py:41-82).
THEOREM DocumentsInvariant == DocumentsSpec => []DocumentsInv
<1>1. DocumentsInit => DocumentsInv
  BY DEF DocumentsInit, DocumentsInv, DocumentsTypeOK
<1>2. DocumentsInv /\ [DocumentsNext]_documentVars => DocumentsInv'
  BY DocumentsStep
<1>3. QED BY <1>1, <1>2, PTL DEF DocumentsSpec

\* Every document found serves, and what a check says is missing stays missing exactly
\* until something that serves is named (services/documents/document_matcher.py:14-82).
THEOREM AdviceCanBeFollowed == DocumentsSpec => []AdviceHolds
<1>1. DocumentsInv => AdviceHolds
  <2> SUFFICES ASSUME DocumentsInv PROVE AdviceHolds
    OBVIOUS
  <2>1. ASSUME NEW i \in DOMAIN checks
        PROVE  checks[i].demand \in Demands /\ checks[i].available \in Seq(Names)
               /\ checks[i].answer = CheckDocumentSufficiency(checks[i].demand, checks[i].available)
    <3>1. checks[i] \in Check
      BY DEF DocumentsInv, DocumentsTypeOK
    <3>2. QED BY <3>1 DEF DocumentsInv, Check
  <2>2. ASSUME NEW i \in DOMAIN checks, NEW k \in DOMAIN checks[i].answer.matched
        PROVE  /\ checks[i].answer.matched[k] \in Named(checks[i].available)
               /\ Serves(checks[i].answer.matched[k], checks[i].demand[k])
    BY <2>1, AnswerParts
  <2>3. ASSUME NEW i \in DOMAIN checks, NEW j \in DOMAIN checks, i < j, checks[i].demand = checks[j].demand
        PROVE  LET before == checks[i].answer after == checks[j].answer
                   added == Named(checks[j].available) \ Named(checks[i].available)
               IN  /\ after.missing =
                          {k \in before.missing : \A name \in added : ~Serves(name, checks[i].demand[k])}
                   /\ DOMAIN after.matched = (DOMAIN before.matched \cup before.missing) \ after.missing
    <3> DEFINE documents == checks[i].demand
               before == checks[i].answer
               after == checks[j].answer
               old == Named(checks[i].available)
               all == Named(checks[j].available)
               mandatory == {k \in DOMAIN documents : documents[k].is_mandatory}
    <3>1. /\ before.missing = {k \in mandatory : \A name \in old : ~Serves(name, documents[k])}
          /\ DOMAIN before.matched = mandatory \ before.missing
      BY <2>1, AnswerParts
    <3>2. /\ after.missing = {k \in mandatory : \A name \in all : ~Serves(name, documents[k])}
          /\ DOMAIN after.matched = mandatory \ after.missing
      <4>1. checks[j].demand = documents
        BY <2>3
      <4>2. QED BY <2>1, <4>1, AnswerParts
    <3>3. old \subseteq all
      <4>1. Continues(checks[i].available, checks[j].available)
        <5>1. i <= j
          BY <2>3 DEF DocumentsInv, DocumentsTypeOK
        <5>2. QED BY <5>1 DEF DocumentsInv
      <4>2. Len(checks[i].available) \in Nat /\ Len(checks[j].available) \in Nat
            /\ DOMAIN checks[i].available = 1..Len(checks[i].available)
            /\ DOMAIN checks[j].available = 1..Len(checks[j].available)
        BY <2>1
      <4>3. QED BY <4>1, <4>2 DEF Continues, Named
    <3> HIDE DEF before, after, old, all, mandatory, documents
    <3>4. after.missing = {k \in before.missing : \A name \in all \ old : ~Serves(name, documents[k])}
      BY <3>1, <3>2, <3>3
    <3>5. DOMAIN after.matched = (DOMAIN before.matched \cup before.missing) \ after.missing
      BY <3>1, <3>2
    <3>6. QED BY <3>4, <3>5 DEF before, after, old, all, documents
  <2>4. QED BY <2>2, <2>3 DEF AdviceHolds
<1>2. QED BY <1>1, DocumentsInvariant, PTL
=============================================================================
