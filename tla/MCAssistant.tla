---------------------------- MODULE MCAssistant ----------------------------
(***************************************************************************)
(* The parts around the conversation, for TLC: the interview's questions,  *)
(* voice turns and their socket, the search index, document checks, the    *)
(* daily limits and the office.  They share no state, so a behaviour       *)
(* exercises one of them, its focus.                                       *)
(***************************************************************************)
EXTENDS Eligibility, VoiceTurn, VoiceSocket, SearchIndex, Documents, Quota, Office

CONSTANTS
    yes, no, t1, s1, op1, op2, adm, sup,
    aadhaar, aadhar, ration, bpl, pan,
    MaxBegun        \* bound, by focus: turns, rebuilds and catalogue changes, requests

VARIABLES focus, begun

assistantVars == <<interviewVars, voiceVars, socketVars, indexVars, documentVars, quotaVars, officeVars,
                   focus, begun>>

MCCustomFields == <<"is_bpl">>
MCTexts == {yes, no}
MCNumbers == {0, 1}
MCTextOrder == {<<no, no>>, <<no, yes>>, <<yes, yes>>}

NoCaps == [f \in CapFields |-> Unknown]
NoLists == [f \in ListFields |-> {}]

\* A rule with bounds, one with an exclusion that compares two texts, and one that compares a
\* text with a number.
MCRules ==
    << [min_age |-> 1, at_most |-> [NoCaps EXCEPT !["annual_income"] = 0], one_of |-> NoLists,
        exclusions |-> {}, custom |-> <<>>],
       [min_age |-> Unknown, at_most |-> [NoCaps EXCEPT !["age"] = 0],
        one_of |-> [NoLists EXCEPT !["gender"] = {yes}], exclusions |-> {s1},
        custom |-> <<[field |-> "is_bpl", operator |-> "gte", value |-> yes]>>],
       [min_age |-> Unknown, at_most |-> NoCaps,
        one_of |-> [NoLists EXCEPT !["state_code"] = {yes}], exclusions |-> {},
        custom |-> <<[field |-> "is_bpl", operator |-> "in", value |-> {no}],
                     [field |-> "is_bpl", operator |-> "lte", value |-> 1]>>] >>
MCSearches == {<<3, 2>>, <<1>>}

Plain == [facts |-> [f \in ProfileFields |-> IF f \in CapFields THEN 0 ELSE yes], receives |-> {}]
MCCitizens == {Plain,
               [Plain EXCEPT !.facts["age"] = 1, !.facts["is_bpl"] = 1, !.receives = {s1}],
               [Plain EXCEPT !.facts["is_bpl"] = no, !.facts["gender"] = no]}

\* The second spelling of a name is an alias of the first.
MCMeaning == [n \in Names |-> CASE n = aadhar -> aadhaar [] n = bpl -> ration [] OTHER -> n]
MCDemands ==
    { << [name |-> aadhar, is_mandatory |-> TRUE, accepted_substitutes |-> <<pan>>],
         [name |-> pan, is_mandatory |-> FALSE, accepted_substitutes |-> <<>>],
         [name |-> ration, is_mandatory |-> TRUE, accepted_substitutes |-> <<aadhaar, bpl>>] >>,
      << [name |-> pan, is_mandatory |-> TRUE, accepted_substitutes |-> <<bpl, aadhaar>>] >> }

MCRole == [m \in Staff |-> CASE m = adm -> "ngo_admin" [] m = sup -> "super_admin" [] OTHER -> "operator"]

\* The second operator is in another organisation than the others.
MCOrgOf == [m \in Staff |-> IF m = op2 THEN "p" ELSE "o"]

Focuses == {"interview", "voice", "socket", "index", "documents", "quota", "office"}

AssistantTypeOK ==
    InterviewTypeOK /\ VoiceTypeOK /\ SocketTypeOK /\ IndexTypeOK /\ DocumentsTypeOK /\ QuotaTypeOK /\ OfficeTypeOK

\* What is not in focus rests in one of its initial states.
MCInit ==
    /\ focus \in Focuses /\ begun = 0
    /\ InterviewInit /\ VoiceInit /\ SocketInit /\ IndexInit /\ DocumentsInit /\ QuotaInit /\ OfficeInit
    /\ focus # "interview" => citizen = Plain
    /\ focus # "voice" => /\ ~hasFallback /\ ~hasProfile /\ ~session
                          /\ \A u \in Utterances : voices[u].sentence = t1 /\ ~voices[u].foreign
    /\ focus # "index" => active = {}
    /\ focus # "documents" => Len(demand) = 1

Begins == begun < MaxBegun[focus] /\ begun' = begun + 1
Goes == begun' = begun

InterviewSteps == (Turn /\ Begins) \/ (TellReceived /\ Goes)
VoiceSteps == VoiceNext /\ Goes
IndexSteps == \/ (\E s \in Indexable : CatalogueChanges(s)) /\ Begins
              \/ (\E b \in Builders : BuildStart(b) \/ SearchStart(b)) /\ Begins
              \/ (\E b \in Builders : BuildContinues(b) \/ SearchContinues(b)) /\ Goes
DocumentSteps == \/ (\E name \in Names : NameDocument(name)) /\ Goes
                 \/ (CheckDocuments \/ \E documents \in Demands : Publish(documents)) /\ Begins
QuotaSteps == \/ (\E r \in Askers : Asks(r)) /\ Begins
              \/ (SecondPasses \/ (\E k \in CounterKeys : KeyExpires(k)) \/ \E r \in Askers : GoesOn(r)) /\ Goes
OfficeSteps == \/ (\E m \in Staff : Creates(m) \/ \E d \in Desks : DeskOpens(d, m)) /\ Begins
               \/ (\E d \in Desks : DeskWorks(d)) /\ Goes

MCNext ==
    /\ UNCHANGED focus
    /\ \/ /\ focus = "interview" /\ InterviewSteps
          /\ UNCHANGED <<voiceVars, socketVars, indexVars, documentVars, quotaVars, officeVars>>
       \/ /\ focus = "voice" /\ VoiceSteps
          /\ UNCHANGED <<interviewVars, socketVars, indexVars, documentVars, quotaVars, officeVars>>
       \/ /\ focus = "socket" /\ SocketNext /\ Goes
          /\ UNCHANGED <<interviewVars, voiceVars, indexVars, documentVars, quotaVars, officeVars>>
       \/ /\ focus = "index" /\ IndexSteps
          /\ UNCHANGED <<interviewVars, voiceVars, socketVars, documentVars, quotaVars, officeVars>>
       \/ /\ focus = "documents" /\ DocumentSteps
          /\ UNCHANGED <<interviewVars, voiceVars, socketVars, indexVars, quotaVars, officeVars>>
       \/ /\ focus = "quota" /\ QuotaSteps
          /\ UNCHANGED <<interviewVars, voiceVars, socketVars, indexVars, documentVars, officeVars>>
       \/ /\ focus = "office" /\ OfficeSteps
          /\ UNCHANGED <<interviewVars, voiceVars, socketVars, indexVars, documentVars, quotaVars>>

MCMaxBegun == [x \in Focuses |->
                 CASE x = "interview" -> 3 [] x = "index" -> 4 [] x = "documents" -> 3
                   [] x = "quota" -> 3 [] x = "office" -> 4 [] x \in {"voice", "socket"} -> 0]

MCSpec == MCInit /\ [][MCNext]_assistantVars
=============================================================================
