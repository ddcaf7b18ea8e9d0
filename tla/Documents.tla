------------------------------ MODULE Documents ------------------------------
(***************************************************************************)
(* The documents a scheme asks for and the ones a citizen says they have   *)
(* (services/documents).  A name is one spelling of a document, trimmed    *)
(* and in lower case; several may mean the same document.                  *)
(*                                                                         *)
(* The rule is the one published when a check begins (its publication is   *)
(* module SchemeCatalog's).  Left out: the advice on how to get a missing  *)
(* document, names that are blank, and the profile a check may name.       *)
(***************************************************************************)
EXTENDS Naturals, Sequences

CONSTANTS
    Names,          \* spellings
    Meaning,        \* normalize_document_name: aliases go to one name
    Demands,        \* lists of required documents a scheme's rules have had
    MaxNames        \* bound: names a citizen gives

RequiredDocument == [name: Names, is_mandatory: BOOLEAN, accepted_substitutes: Seq(Names)]

ASSUME DocumentsAssumption ==
    /\ Meaning \in [Names -> Names]
    /\ Demands \subseteq Seq(RequiredDocument)

VARIABLES
    demand,         \* required_documents of the scheme's rule
    available,      \* documents_available of the citizen's next request
    checks          \* table document_check_events: the rule's list, the citizen's, the answer

documentVars == <<demand, available, checks>>

\* The lists of an answer follow the order of the demand: they are kept as places in it.
\* is_sufficient stands for nothing missing.
Places == UNION {DOMAIN documents : documents \in Demands}
Answer == [missing: SUBSET Places, substituted: SUBSET Places,
           matched: UNION {[held -> Names] : held \in SUBSET Places}]

Check == [demand: Demands, available: Seq(Names), answer: Answer]

DocumentsTypeOK ==
    /\ demand \in Demands
    /\ available \in Seq(Names)
    /\ checks \in Seq(Check)

DocumentsInit == demand \in Demands /\ available = <<>> /\ checks = <<>>

-----------------------------------------------------------------------------

\* _exact_match and _matches: places in the list where the name itself, or its meaning, is.
Spelled(name, list) == {i \in DOMAIN list : list[i] = name}

\* Two spellings of one document.
Same(name, other) == Meaning[name] = Meaning[other]

\* Faulty variant of Meant: a substitute has to be spelled as the rule spells it.
MeantLiterally(name, list) == Spelled(name, list)

Meant(name, list) == {i \in DOMAIN list : Same(list[i], name)}

\* _substitute_match: places in the substitutes that the citizen can offer.
Offered(document, list) ==
    {j \in DOMAIN document.accepted_substitutes : Meant(document.accepted_substitutes[j], list) # {}}

First(places) == CHOOSE i \in places : \A j \in places : i <= j

\* The document by its name, a substitute, or the document by an alias, in this order.
How(document, list) ==
    CASE Spelled(document.name, list) # {} -> "exact"
      [] Spelled(document.name, list) = {} /\ Offered(document, list) # {} -> "substitute"
      [] Spelled(document.name, list) = {} /\ Offered(document, list) = {} ->
            IF Meant(document.name, list) # {} THEN "alias" ELSE "missing"

Match(document, list) ==
    LET substitute == document.accepted_substitutes[First(Offered(document, list))]
    IN  CASE How(document, list) = "exact" -> list[First(Spelled(document.name, list))]
          [] How(document, list) = "alias" -> list[First(Meant(document.name, list))]
          [] How(document, list) = "substitute" -> list[First(Meant(substitute, list))]

\* check_document_sufficiency.
CheckDocumentSufficiency(documents, list) ==
    LET found(ways) == {k \in DOMAIN documents : documents[k].is_mandatory /\ How(documents[k], list) \in ways}
    IN  [missing |-> found({"missing"}),
         substituted |-> found({"substitute"}),
         matched |-> [k \in found({"exact", "substitute", "alias"}) |-> Match(documents[k], list)]]

\* The citizen finds another document and names it as they will.
NameDocument(name) ==
    /\ Len(available) < MaxNames
    /\ available' = Append(available, name)
    /\ UNCHANGED <<demand, checks>>

\* Another version of the rule is published.
Publish(documents) ==
    /\ documents # demand
    /\ demand' = documents
    /\ UNCHANGED <<available, checks>>

\* check_documents: the answer is stored as it is given.
CheckDocuments ==
    /\ checks' = Append(checks, [demand |-> demand, available |-> available,
                                 answer |-> CheckDocumentSufficiency(demand, available)])
    /\ UNCHANGED <<demand, available>>

DocumentsNext ==
    \/ \E name \in Names : NameDocument(name)
    \/ \E documents \in Demands : Publish(documents)
    \/ CheckDocuments

DocumentsSpec == DocumentsInit /\ [][DocumentsNext]_documentVars

-----------------------------------------------------------------------------
(* Properties. *)

Serves(name, document) ==
    \/ Same(name, document.name)
    \/ \E k \in DOMAIN document.accepted_substitutes : Same(name, document.accepted_substitutes[k])

Named(list) == {list[k] : k \in DOMAIN list}

\* What a check says can be relied on.  Every document found is one that was named and
\* serves; and while the rule stays, a later check of a longer list misses exactly the
\* documents that nothing named since serves, however the rule, the citizen and the
\* aliases spell them, and finds every other one
\* (services/documents/document_matcher.py:14-82).
AdviceHolds ==
    /\ \A i \in DOMAIN checks : \A k \in DOMAIN checks[i].answer.matched :
          LET name == checks[i].answer.matched[k]
          IN  name \in Named(checks[i].available) /\ Serves(name, checks[i].demand[k])
    /\ \A i, j \in DOMAIN checks :
          i < j /\ checks[i].demand = checks[j].demand =>
              LET before == checks[i].answer after == checks[j].answer
                  added == Named(checks[j].available) \ Named(checks[i].available)
              IN  /\ after.missing =
                         {k \in before.missing : \A name \in added : ~Serves(name, checks[i].demand[k])}
                  /\ DOMAIN after.matched = (DOMAIN before.matched \cup before.missing) \ after.missing
=============================================================================
