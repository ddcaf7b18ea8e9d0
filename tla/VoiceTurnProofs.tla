--------------------------- MODULE VoiceTurnProofs ---------------------------
(***************************************************************************)
(* Proofs about modules VoiceTurn and VoiceSocket: for any number of       *)
(* utterances, texts and replies, and whatever fails or expires between    *)
(* two steps, the rows tell what became of a turn and a second provider    *)
(* keeps the answers in the language of the citizen; and for any number of *)
(* messages, sessions and pieces a turn is given one whole recording.      *)
(***************************************************************************)
EXTENDS VoiceTurn, VoiceSocket, SequenceTheorems, TLAPS

Answering == {"speak", "prefer", "commit"}

\* What the handler of utterance u may rely on, and the table of its row.
VoiceSound(u) ==
    LET v == voices[u] IN
    /\ v.clear <=> v.pc # "unclear"
    /\ v.pc \in {"idle", "hear", "unclear"} => u \notin heard
    /\ v.pc \in {"out", "out miss", "answered"} \cup Answering => u \in heard \/ v.sentence \in TooLong
    /\ v.pc \in Answering /\ v.foreign /\ hasFallback => v.rendering = "translated"
    /\ voiceRows[u] = IF ~v.row THEN "none" ELSE IF v.pc = "unclear" THEN "low_confidence"
                      ELSE IF v.pc = "answered" THEN "agent_completed" ELSE "none"

\* An untranslated text is never remembered.
NoneVerbatim == \A x \in SaidTexts \X Directions : translated[x] # "verbatim"

VoiceInv ==
    /\ VoiceTypeOK
    /\ NoneVerbatim
    /\ \A u \in Utterances : VoiceSound(u)

\* A turn is answered by its commit only.
Arrivals == \A u \in Utterances : voices'[u].pc = "answered" => voices[u].pc \in {"answered", "commit"}

\* A step of one handler that keeps the rows of the others, and its own sound.
LEMMA HandlerStep ==
    ASSUME VoiceInv, NEW u \in Utterances, NEW v \in Voice, Voicing(u, v),
           VoiceTypeOK', NoneVerbatim', hasFallback' = hasFallback,
           \A x \in Utterances \ {u} : (x \in heard' <=> x \in heard) /\ voiceRows'[x] = voiceRows[x],
           v.clear <=> v.pc # "unclear",
           v.pc = "answered" => voices[u].pc = "commit",
           v.pc \in {"idle", "hear", "unclear"} => u \notin heard',
           v.pc \in {"out", "out miss", "answered"} \cup Answering => u \in heard' \/ v.sentence \in TooLong,
           v.pc \in Answering /\ v.foreign /\ hasFallback => v.rendering = "translated",
           voiceRows'[u] = IF ~v.row THEN "none" ELSE IF v.pc = "unclear" THEN "low_confidence"
                           ELSE IF v.pc = "answered" THEN "agent_completed" ELSE "none"
    PROVE  VoiceInv' /\ Arrivals
<1>1. ASSUME NEW x \in Utterances PROVE VoiceSound(x)'
  <2>1. voices'[x] = IF x = u THEN v ELSE voices[x]
    BY DEF Voicing, VoiceInv, VoiceTypeOK
  <2>2. CASE x = u
    BY <2>1, <2>2 DEF VoiceSound
  <2>3. CASE x # u
    <3>1. VoiceSound(x) /\ voices'[x] = voices[x] /\ x \in Utterances \ {u}
      BY <2>1, <2>3 DEF VoiceInv
    <3>2. QED BY <3>1 DEF VoiceSound
  <2>4. QED BY <2>2, <2>3
<1>2. Arrivals
  BY DEF Arrivals, Voicing, VoiceInv, VoiceTypeOK
<1>3. QED BY <1>1, <1>2 DEF VoiceInv

\* A handler moves on while every table stays.
LEMMA ReadStep ==
    ASSUME VoiceInv, NEW u \in Utterances, NEW v \in Voice, Voicing(u, v),
           UNCHANGED <<hasFallback, hasProfile>>, UNCHANGED voiceTables,
           voices[u].pc \notin Ended \/ (voices[u].pc = "idle" /\ v.pc \in {"hear", "failed"}),
           v.clear, v.pc \notin {"idle", "unclear", "answered"},
           voices[u].pc = "idle" \/ v.row = voices[u].row,
           v.pc = "hear" => u \notin heard,
           v.pc \in {"out", "out miss"} \cup Answering => u \in heard \/ v.sentence \in TooLong,
           v.pc \in Answering /\ v.foreign /\ hasFallback => v.rendering = "translated"
    PROVE  VoiceInv' /\ Arrivals
<1>1. UNCHANGED <<hasFallback, hasProfile, session, translated, spoken, voiceRows, preferences, heard>>
  BY DEF voiceTables
<1>2. VoiceTypeOK' /\ NoneVerbatim'
  BY <1>1 DEF VoiceInv, VoiceTypeOK, NoneVerbatim, Voicing
<1>3. voiceRows[u] = "none"
  BY DEF VoiceInv, VoiceSound, Ended
<1>4. QED BY <1>1, <1>2, <1>3, HandlerStep

LEMMA HandlerFacts ==
    ASSUME VoiceInv, NEW u \in Utterances
    PROVE  voices[u] \in Voice /\ VoiceSound(u)
BY DEF VoiceInv, VoiceTypeOK

\* The start of a turn, its refusals, failures and reads.
LEMMA Reads ==
    ASSUME VoiceInv, NEW u \in Utterances,
           \/ VoiceRefused(u) \/ VoiceStart(u) \/ PreferenceRead(u) \/ VoiceConflict(u) \/ VoiceFails(u)
           \/ \E way \in Directions : TranslationCached(u, way)
    PROVE  VoiceInv' /\ Arrivals
<1> DEFINE v == voices[u]
<1>1. v \in Voice /\ VoiceSound(u)
  BY HandlerFacts
<1>2. UNCHANGED <<hasFallback, hasProfile>> /\ UNCHANGED voiceTables
  BY DEF VoiceRefused, VoiceStart, PreferenceRead, VoiceConflict, VoiceFails, TranslationCached, Speaks
<1>3. ASSUME At(u, "failed"), v.pc \notin Ended \/ v.pc = "idle"
      PROVE  VoiceInv' /\ Arrivals
  <2> DEFINE w == [v EXCEPT !.pc = "failed"]
  <2>1. w \in Voice /\ w.pc = "failed" /\ w.clear = v.clear /\ w.row = v.row
    BY <1>1 DEF Voice
  <2>2. Voicing(u, w)
    BY <1>3 DEF At
  <2>3. v.clear
    BY <1>1, <1>3 DEF VoiceSound, Ended
  <2> HIDE DEF w
  <2>4. QED BY <1>2, <1>3, <2>1, <2>2, <2>3, ReadStep DEF Answering
<1>4. CASE VoiceRefused(u) \/ VoiceConflict(u) \/ VoiceFails(u)
  BY <1>3, <1>4 DEF VoiceRefused, VoiceConflict, VoiceFails, Speaks, Ended
<1>5. CASE VoiceStart(u)
  <2> DEFINE w == [v EXCEPT !.pc = "hear", !.row = session]
  <2>1. w \in Voice /\ w.pc = "hear" /\ w.clear = v.clear /\ v.pc = "idle"
    BY <1>1, <1>5 DEF Voice, VoiceStart, Speaks, VoiceInv, VoiceTypeOK
  <2>2. Voicing(u, w)
    BY <1>5 DEF VoiceStart
  <2>3. v.clear /\ u \notin heard
    BY <1>1, <2>1 DEF VoiceSound
  <2> HIDE DEF w
  <2>4. QED BY <1>2, <2>1, <2>2, <2>3, ReadStep DEF Answering
<1>6. CASE PreferenceRead(u)
  <2> DEFINE w == [v EXCEPT !.pc = "commit", !.preferred = v.row /\ hasProfile /\ preferences # 0]
  <2>1. /\ w \in Voice /\ w.pc = "commit" /\ w.clear = v.clear /\ w.row = v.row /\ w.foreign = v.foreign
        /\ w.rendering = v.rendering /\ w.sentence = v.sentence /\ v.pc = "prefer"
    BY <1>1, <1>6 DEF Voice, PreferenceRead, Speaks
  <2>2. Voicing(u, w)
    BY <1>6 DEF PreferenceRead
  <2> HIDE DEF w
  <2>3. QED BY <1>1, <1>2, <2>1, <2>2, ReadStep DEF VoiceSound, Answering, Ended
<1>7. CASE \E way \in Directions : TranslationCached(u, way)
  <2>1. PICK way \in Directions : TranslationCached(u, way)
    BY <1>7
  <2> DEFINE hit == translated[TextOf(u, way)]
  <2>2. way \in {"in", "out"} /\ v.pc = way /\ v.clear
    BY <1>1, <2>1 DEF Directions, TranslationCached, Speaks, VoiceSound
  <2>3. TextOf(u, way) \in SaidTexts \X Directions
    BY <1>1, <2>2 DEF TextOf, SaidTexts, Directions, Voice
  <2>4. CASE hit = "none"
    <3> DEFINE w == [v EXCEPT !.pc = Miss(way)]
    <3>1. /\ w \in Voice /\ w.pc = Miss(way) /\ Miss(way) \in {"in miss", "out miss"} /\ w.clear = v.clear
          /\ w.row = v.row /\ w.sentence = v.sentence /\ (Miss(way) = "out miss" => way = "out")
      BY <1>1, <2>2 DEF Voice, Miss
    <3>2. Voicing(u, w)
      BY <2>1, <2>4 DEF TranslationCached, At
    <3> HIDE DEF w
    <3>3. QED BY <1>1, <1>2, <2>2, <3>1, <3>2, ReadStep DEF VoiceSound, Answering, Ended
  <2>5. CASE hit # "none"
    <3>1. hit = "translated"
      BY <2>3, <2>5 DEF VoiceInv, VoiceTypeOK, NoneVerbatim, Rendering
    <3> DEFINE w == [v EXCEPT !.pc = After(way), !.rendering = hit]
    <3>2. /\ w \in Voice /\ w.pc = After(way) /\ After(way) \in {"agent", "speak"} /\ w.clear = v.clear
          /\ w.row = v.row /\ w.sentence = v.sentence /\ (After(way) = "speak" => way = "out")
          /\ w.rendering = "translated"
      BY <1>1, <2>2, <3>1 DEF Voice, After, Rendering
    <3>3. Voicing(u, w)
      BY <2>1, <2>5 DEF TranslationCached
    <3> HIDE DEF w
    <3>4. QED BY <1>1, <1>2, <2>2, <3>2, <3>3, ReadStep DEF VoiceSound, Answering, Ended
  <2>6. QED BY <2>4, <2>5
<1>8. QED BY <1>4, <1>5, <1>6, <1>7

\* The transcript.
LEMMA Hears ==
    ASSUME VoiceInv, NEW u \in Utterances, NEW clear \in BOOLEAN, Hear(u, clear)
    PROVE  VoiceInv' /\ Arrivals
<1> DEFINE v == voices[u]
           pc == IF ~clear THEN "unclear" ELSE IF v.foreign THEN "in" ELSE "agent"
           w == [v EXCEPT !.clear = clear, !.pc = pc]
<1>1. v \in Voice /\ VoiceSound(u) /\ v.pc = "hear"
  BY HandlerFacts DEF Hear, Speaks
<1>2. w \in Voice /\ w.pc = pc /\ w.clear = clear /\ w.row = v.row
  BY <1>1 DEF Voice
<1>3. Voicing(u, w)
  BY <1>1 DEF Hear, Confident, Voice
<1>4. UNCHANGED <<hasFallback, hasProfile, session, translated, spoken, preferences, heard>>
  BY DEF Hear, Speaks
<1>5. voiceRows' = [voiceRows EXCEPT ![u] = IF ~clear /\ v.row THEN "low_confidence" ELSE voiceRows[u]]
  BY DEF Hear, Confident
<1>6. voiceRows[u] = "none"
  BY <1>1 DEF VoiceSound
<1>7. /\ \A x \in Utterances \ {u} : voiceRows'[x] = voiceRows[x]
      /\ voiceRows'[u] = IF ~clear /\ v.row THEN "low_confidence" ELSE "none"
      /\ voiceRows' \in [Utterances -> {"none", "low_confidence", "agent_completed"}]
  BY <1>5, <1>6 DEF VoiceInv, VoiceTypeOK
<1>8. pc \in {"unclear", "in", "agent"} /\ (pc = "unclear" <=> ~clear)
  OBVIOUS
<1> HIDE DEF w, pc
<1>9. VoiceTypeOK' /\ NoneVerbatim'
  BY <1>2, <1>3, <1>4, <1>7 DEF VoiceInv, VoiceTypeOK, NoneVerbatim, Voicing
<1>10. u \notin heard
  BY <1>1 DEF VoiceSound
<1>11. QED BY <1>2, <1>3, <1>4, <1>7, <1>8, <1>9, <1>10, HandlerStep DEF Answering

\* Translations that had to be made: only a translated text is cached.
LEMMA Translates ==
    ASSUME VoiceInv, NEW u \in Utterances, NEW way \in Directions,
           TranslationProvided(u, way) \/ TranslationPassedThrough(u, way)
    PROVE  VoiceInv' /\ Arrivals
<1> DEFINE v == voices[u]
<1>1. v \in Voice /\ VoiceSound(u) /\ way \in {"in", "out"} /\ v.pc = Miss(way)
  BY HandlerFacts DEF TranslationProvided, TranslationPassedThrough, Speaks, Directions
<1>2. PICK r \in Rendering : /\ Voicing(u, [v EXCEPT !.pc = After(way), !.rendering = r])
                             /\ hasFallback => r = "translated"
  BY DEF TranslationProvided, TranslationPassedThrough, Rendering
<1> DEFINE w == [v EXCEPT !.pc = After(way), !.rendering = r]
<1>3. /\ w \in Voice /\ w.pc = After(way) /\ w.clear = v.clear /\ w.row = v.row /\ w.sentence = v.sentence
      /\ w.rendering = r /\ After(way) \in {"agent", "speak"} /\ (After(way) = "speak" => v.pc = "out miss")
      /\ v.pc \in {"in miss", "out miss"}
  BY <1>1 DEF Voice, After, Miss
<1>4. UNCHANGED <<hasFallback, hasProfile, session, spoken, voiceRows, preferences, heard>>
  BY DEF TranslationProvided, TranslationPassedThrough, Speaks
<1>5. \/ translated' = translated
      \/ translated' = [translated EXCEPT ![TextOf(u, way)] = "translated"]
  BY DEF TranslationProvided, TranslationPassedThrough, CachedOnWarning
<1> HIDE DEF w
<1>6. translated' \in [SaidTexts \X Directions -> Rendering \cup {"none"}] /\ NoneVerbatim'
  BY <1>5 DEF VoiceInv, VoiceTypeOK, NoneVerbatim, Rendering
<1>7. VoiceTypeOK'
  BY <1>2, <1>3, <1>4, <1>6 DEF VoiceInv, VoiceTypeOK, Voicing, w
<1>8. Voicing(u, w)
  BY <1>2 DEF w
<1>9. QED BY <1>1, <1>2, <1>3, <1>4, <1>6, <1>7, <1>8, HandlerStep DEF VoiceSound, Answering

\* The agent commits before the answer is translated.
LEMMA AgentStep ==
    ASSUME VoiceInv, NEW u \in Utterances, NEW reply \in Replies, AgentAnswers(u, reply)
    PROVE  VoiceInv' /\ Arrivals
<1> DEFINE v == voices[u]
           w == [v EXCEPT !.pc = IF v.foreign THEN "out" ELSE "speak", !.reply = reply, !.rendering = "verbatim"]
<1>1. v \in Voice /\ VoiceSound(u) /\ v.pc = "agent"
  BY HandlerFacts DEF AgentAnswers, Speaks
<1>2. /\ w \in Voice /\ w.pc \in {"out", "speak"} /\ (w.pc = "out" <=> v.foreign) /\ w.foreign = v.foreign
      /\ w.clear = v.clear /\ w.row = v.row /\ w.sentence = v.sentence
  BY <1>1 DEF Voice, Rendering
<1>3. /\ Voicing(u, w) /\ heard' = IF v.sentence \in TooLong THEN heard ELSE heard \cup {u}
      /\ UNCHANGED <<hasFallback, hasProfile, session, translated, spoken, voiceRows, preferences>>
  BY DEF AgentAnswers, Speaks
<1> HIDE DEF w
<1>4. VoiceTypeOK' /\ NoneVerbatim'
  BY <1>2, <1>3 DEF VoiceInv, VoiceTypeOK, NoneVerbatim, Voicing
<1>5. QED BY <1>1, <1>2, <1>3, <1>4, HandlerStep DEF VoiceSound, Answering

\* Speech, and the commit of the turn's row.
LEMMA Speech ==
    ASSUME VoiceInv, NEW u \in Utterances, Synthesized(u) \/ VoiceCommit(u)
    PROVE  VoiceInv' /\ Arrivals
<1> DEFINE v == voices[u]
           pc == IF v.pc = "speak" THEN "prefer" ELSE "answered"
           w == [v EXCEPT !.pc = pc]
<1>1. v \in Voice /\ VoiceSound(u) /\ v.pc \in {"speak", "commit"}
  BY HandlerFacts DEF Synthesized, VoiceCommit, Speaks
<1>2. /\ w \in Voice /\ w.pc = pc /\ pc \in {"prefer", "answered"} /\ (pc = "prefer" <=> v.pc = "speak")
      /\ w.clear = v.clear /\ w.row = v.row /\ w.sentence = v.sentence
      /\ w.foreign = v.foreign /\ w.rendering = v.rendering
  BY <1>1 DEF Voice
<1>3. Voicing(u, w)
  BY DEF Synthesized, VoiceCommit, Speaks, At
<1>4. UNCHANGED <<hasFallback, hasProfile, session, translated, heard>>
  BY DEF Synthesized, VoiceCommit, Speaks
<1>5. spoken' \subseteq Replies \X Rendering /\ preferences' \in Nat
  <2>1. spoken \subseteq Replies \X Rendering /\ preferences \in Nat
    BY DEF VoiceInv, VoiceTypeOK
  <2>2. <<v.reply, v.rendering>> \in Replies \X Rendering
    BY <1>1 DEF Voice
  <2>3. spoken' = spoken \cup {<<v.reply, v.rendering>>} \/ spoken' = spoken
    BY DEF Synthesized, VoiceCommit
  <2>4. preferences' = preferences \/ preferences' = preferences + 1
    BY DEF Synthesized, VoiceCommit
  <2>5. QED BY <2>1, <2>2, <2>3, <2>4
<1>6. voiceRows[u] = "none"
  BY <1>1 DEF VoiceSound
<1>7. voiceRows' = [voiceRows EXCEPT ![u] = IF pc = "answered" /\ v.row THEN "agent_completed" ELSE voiceRows[u]]
  BY <1>1 DEF Synthesized, VoiceCommit, Speaks, VoiceInv, VoiceTypeOK
<1> HIDE DEF w, pc
<1>8. /\ voiceRows' \in [Utterances -> {"none", "low_confidence", "agent_completed"}]
      /\ \A x \in Utterances \ {u} : voiceRows'[x] = voiceRows[x]
      /\ voiceRows'[u] = IF pc = "answered" /\ v.row THEN "agent_completed" ELSE "none"
  BY <1>6, <1>7 DEF VoiceInv, VoiceTypeOK
<1>9. VoiceTypeOK' /\ NoneVerbatim'
  BY <1>2, <1>3, <1>4, <1>5, <1>8 DEF VoiceInv, VoiceTypeOK, NoneVerbatim, Voicing
<1>10. QED BY <1>1, <1>2, <1>3, <1>4, <1>8, <1>9, HandlerStep DEF VoiceSound, Answering

\* What happens around the turns.
LEMMA Surroundings ==
    ASSUME VoiceInv, SessionOpens \/ CacheExpires \/ ProviderAdded \/ UNCHANGED voiceVars
    PROVE  VoiceInv' /\ Arrivals
<1>1. CASE SessionOpens \/ CacheExpires \/ UNCHANGED voiceVars
  <2>1. UNCHANGED <<hasFallback, hasProfile, voiceRows, preferences, heard, voices>>
    BY <1>1 DEF SessionOpens, CacheExpires, voiceVars
  <2>2. \/ UNCHANGED <<translated, spoken>>
        \/ \E x \in SaidTexts \X Directions : translated' = [translated EXCEPT ![x] = "none"] /\ UNCHANGED spoken
        \/ \E x \in spoken : spoken' = spoken \ {x} /\ UNCHANGED translated
    BY <1>1 DEF SessionOpens, CacheExpires, voiceVars
  <2>3. session' \in BOOLEAN
    BY <1>1 DEF SessionOpens, CacheExpires, voiceVars, VoiceInv, VoiceTypeOK
  <2>4. /\ translated' \in [SaidTexts \X Directions -> Rendering \cup {"none"}] /\ NoneVerbatim'
        /\ spoken' \subseteq Replies \X Rendering
    BY <2>2 DEF VoiceInv, VoiceTypeOK, NoneVerbatim
  <2>5. \A u \in Utterances : VoiceSound(u)'
    BY <2>1 DEF VoiceInv, VoiceSound
  <2>6. QED BY <2>1, <2>3, <2>4, <2>5 DEF VoiceInv, VoiceTypeOK, Arrivals
<1>2. CASE ProviderAdded
  <2>1. /\ hasFallback' = TRUE
        /\ voices' = [u \in Utterances |-> IF voices[u].pc \in Ended THEN voices[u]
                                           ELSE [voices[u] EXCEPT !.pc = "failed"]]
        /\ UNCHANGED <<hasProfile, session, translated, spoken, voiceRows, preferences, heard>>
    BY <1>2 DEF ProviderAdded, voiceTables
  <2>2. ASSUME NEW u \in Utterances
        PROVE  /\ voices'[u] \in Voice /\ voices'[u].pc \in Ended
               /\ voices'[u].clear = voices[u].clear /\ voices'[u].row = voices[u].row
               /\ voices'[u].sentence = voices[u].sentence
               /\ voices'[u].pc = IF voices[u].pc \in Ended THEN voices[u].pc ELSE "failed"
    <3>1. voices[u] \in Voice
      BY HandlerFacts
    <3>2. CASE voices[u].pc \in Ended
      BY <2>1, <3>1, <3>2
    <3>3. CASE voices[u].pc \notin Ended
      BY <2>1, <3>1, <3>3 DEF Voice, Ended
    <3>4. QED BY <3>2, <3>3
  <2>3. ASSUME NEW u \in Utterances PROVE VoiceSound(u)'
    <3>1. VoiceSound(u)
      BY HandlerFacts
    <3>2. CASE voices[u].pc \in Ended
      BY <2>1, <2>2, <3>1, <3>2 DEF VoiceSound, Ended, Answering
    <3>3. CASE voices[u].pc \notin Ended
      <4>1. voices'[u].pc = "failed" /\ voiceRows[u] = "none" /\ voices[u].clear
        BY <2>2, <3>1, <3>3 DEF VoiceSound, Ended
      <4>2. QED BY <2>1, <2>2, <4>1 DEF VoiceSound, Answering
    <3>4. QED BY <3>2, <3>3
  <2>4. voices' \in [Utterances -> Voice]
    BY <2>1, <2>2
  <2>5. Arrivals
    BY <2>2 DEF Arrivals
  <2>6. QED BY <2>1, <2>3, <2>4, <2>5 DEF VoiceInv, VoiceTypeOK, NoneVerbatim
<1>3. QED BY <1>1, <1>2

LEMMA VoiceStep ==
    ASSUME VoiceInv, [VoiceNext]_voiceVars
    PROVE  VoiceInv' /\ Arrivals
<1>1. CASE SessionOpens \/ CacheExpires \/ ProviderAdded \/ UNCHANGED voiceVars
  BY <1>1, Surroundings
<1>2. CASE \E u \in Utterances :
             \/ VoiceRefused(u) \/ VoiceStart(u) \/ PreferenceRead(u) \/ VoiceConflict(u) \/ VoiceFails(u)
             \/ \E way \in Directions : TranslationCached(u, way)
  BY <1>2, Reads
<1>3. CASE \E u \in Utterances : \E clear \in BOOLEAN : Hear(u, clear)
  BY <1>3, Hears
<1>4. CASE \E u \in Utterances : \E way \in Directions :
             TranslationProvided(u, way) \/ TranslationPassedThrough(u, way)
  BY <1>4, Translates
<1>5. CASE \E u \in Utterances : \E reply \in Replies : AgentAnswers(u, reply)
  BY <1>5, AgentStep
<1>6. CASE \E u \in Utterances : Synthesized(u) \/ VoiceCommit(u)
  BY <1>6, Speech
<1>7. QED BY <1>1, <1>2, <1>3, <1>4, <1>5, <1>6 DEF VoiceNext

\* Handlers, caches and rows keep their types, no untranslated text is ever cached, and
\* each handler's row is the one of where it is (voice/pipeline.py:44-151,
\* translation/client.py:47-78).
THEOREM VoiceInvariant == VoiceSpec => []VoiceInv
<1>1. VoiceInit => VoiceInv
  <2> SUFFICES ASSUME VoiceInit PROVE VoiceInv
    OBVIOUS
  <2>1. PICK r \in Replies : r = CHOOSE x \in Replies : TRUE
    BY VoiceAssumption
  <2>2. ASSUME NEW u \in Utterances
        PROVE  voices[u] \in Voice /\ voices[u].pc = "idle" /\ voices[u].clear /\ ~voices[u].row
    <3>1. PICK t \in Sentences, f \in BOOLEAN :
            voices[u] = [pc |-> "idle", sentence |-> t, foreign |-> f, clear |-> TRUE, row |-> FALSE,
                         reply |-> r, rendering |-> "verbatim", preferred |-> FALSE]
      BY <2>1 DEF VoiceInit
    <3>2. QED BY <3>1 DEF Voice, Rendering
  <2>3. voices \in [Utterances -> Voice]
    BY <2>2 DEF VoiceInit
  <2>4. VoiceTypeOK /\ NoneVerbatim
    BY <2>3 DEF VoiceInit, VoiceTypeOK, NoneVerbatim
  <2>5. \A u \in Utterances : VoiceSound(u)
    BY <2>2 DEF VoiceInit, VoiceSound, Answering
  <2>6. QED BY <2>4, <2>5 DEF VoiceInv
<1>2. VoiceInv /\ [VoiceNext]_voiceVars => VoiceInv'
  BY VoiceStep
<1>3. QED BY <1>1, <1>2, PTL DEF VoiceSpec

\* An utterance that was not clear is never acted on, and the rows tell what became of
\* a turn (voice/pipeline.py:44-151).
THEOREM RowsTellTurns == VoiceSpec => []VoiceRowsTellTurns
<1>1. VoiceInv => VoiceRowsTellTurns
  <2> SUFFICES ASSUME VoiceInv PROVE VoiceRowsTellTurns
    OBVIOUS
  <2>1. ASSUME NEW u \in Utterances
        PROVE  /\ u \in heard => voices[u].clear
               /\ voiceRows[u] = "low_confidence" <=> ~voices[u].clear /\ voices[u].row
               /\ voiceRows[u] = "agent_completed" <=> voices[u].pc = "answered" /\ voices[u].row
               /\ voices[u].pc = "answered" => u \in heard \/ voices[u].sentence \in TooLong
    BY HandlerFacts DEF VoiceSound, Voice
  <2>2. QED BY <2>1 DEF VoiceRowsTellTurns
<1>2. QED BY <1>1, VoiceInvariant, PTL

\* With a second provider, whoever speaks another language is answered in it
\* (translation/client.py:47-78).
THEOREM ForeignSpeakersServed == VoiceSpec => AnsweredInTheirLanguage
<1>1. VoiceInv /\ [VoiceNext]_voiceVars =>
        [\A u \in Utterances :
            voices'[u].pc = "answered" /\ voices[u].pc # "answered" /\ voices[u].foreign /\ hasFallback =>
                voices[u].rendering = "translated"]_voiceVars
  <2> SUFFICES ASSUME VoiceInv, [VoiceNext]_voiceVars, NEW u \in Utterances,
                      voices'[u].pc = "answered", voices[u].pc # "answered", voices[u].foreign, hasFallback
               PROVE  voices[u].rendering = "translated"
    OBVIOUS
  <2>1. voices[u].pc = "commit"
    BY VoiceStep DEF Arrivals
  <2>2. QED BY <2>1, HandlerFacts DEF VoiceSound, Answering
<1>2. QED BY <1>1, VoiceInvariant, PTL DEF VoiceSpec, AnsweredInTheirLanguage

-----------------------------------------------------------------------------
(* The socket.  Between server and client is the wire: each message on it     *)
(* takes the recording the server holds a step nearer to the one the client   *)
(* is making, and no message is of two recordings.                            *)

\* What one message does to a recording in progress and to the number of those ended.
Follows(rec, n, message, next, m, ended) ==
    /\ message.type = "start" => next = [by |-> message.by, audio |-> <<>>] /\ m = n
    /\ message.type = "bytes" =>
          /\ m = n
          /\ next = IF rec = NoRecording THEN rec
                    ELSE [by |-> rec.by, audio |-> Append(rec.audio, message.piece)]
    /\ message.type = "end" =>
          /\ next = NoRecording
          /\ IF rec = NoRecording THEN m = n ELSE m = n + 1 /\ ended[m] = rec
    /\ message.type \in {"other", "malformed"} => next = rec /\ m = n

\* What the server holds, as a recording.
Holding == IF turn # NoRecording \/ start = NoRecording THEN NoRecording ELSE [by |-> start, audio |-> chunks]
Running == IF turn = NoRecording THEN 0 ELSE 1

\* recs and ends go from what the server holds to what the client sees, message by message.
Leads(recs, ends) ==
    /\ recs \in [0..Len(wire) -> Recording \cup {NoRecording}]
    /\ ends \in [0..Len(wire) -> 0..Len(made)]
    /\ recs[0] = Holding /\ ends[0] = Running
    /\ recs[Len(wire)] = recording /\ ends[Len(wire)] = Len(made)
    /\ \A i \in 0..Len(wire) : \A j \in i..Len(wire) : ends[i] <= ends[j]
    /\ \A i \in 1..Len(wire) : Follows(recs[i - 1], ends[i - 1], wire[i], recs[i], ends[i], made)

SocketInv ==
    /\ SocketTypeOK
    /\ turn # NoRecording => open /\ made # <<>> /\ turn = made[1] /\ Len(turn.audio) <= MaxPieces
    /\ open => \E recs, ends : Leads(recs, ends)

\* The client sends: the way gets one message longer.
LEMMA ClientSends ==
    ASSUME SocketInv, NEW message \in Message, Send(message), SocketTypeOK',
           made' = made \/ \E x \in Recording : made' = Append(made, x),
           Follows(recording, Len(made), message, recording', Len(made'), made')
    PROVE  SocketInv'
<1>1. /\ wire \in Seq(Message) /\ wire' = Append(wire, message) /\ UNCHANGED <<start, chunks, turn, open>>
      /\ made \in Seq(Recording)
  BY DEF Send, SocketInv, SocketTypeOK
<1>2. Len(wire) \in Nat /\ Len(wire') = Len(wire) + 1 /\ wire'[Len(wire) + 1] = message
      /\ \A i \in 1..Len(wire) : wire'[i] = wire[i]
  BY <1>1, LenProperties, AppendProperties
<1>3. /\ Len(made) \in Nat /\ Len(made') \in Nat /\ Len(made) <= Len(made')
      /\ \A i \in 1..Len(made) : made'[i] = made[i]
  BY <1>1, LenProperties, AppendProperties
<1>4. ASSUME open PROVE \E recs, ends : Leads(recs, ends)'
  <2>1. PICK recs, ends : Leads(recs, ends)
    BY <1>4 DEF SocketInv
  <2> DEFINE n == Len(wire)
  <2>0. PICK r, e : /\ r = [i \in 0..n + 1 |-> IF i = n + 1 THEN recording' ELSE recs[i]]
                    /\ e = [i \in 0..n + 1 |-> IF i = n + 1 THEN Len(made') ELSE ends[i]]
    OBVIOUS
  <2>2. /\ recs \in [0..n -> Recording \cup {NoRecording}] /\ ends \in [0..n -> 0..Len(made)]
        /\ recs[0] = Holding /\ ends[0] = Running /\ recs[n] = recording /\ ends[n] = Len(made)
    BY <2>1 DEF Leads
  <2>3. \A i \in 0..n : \A j \in i..n : ends[i] <= ends[j]
    BY <2>1 DEF Leads
  <2>4. ASSUME NEW i \in 1..n PROVE Follows(recs[i - 1], ends[i - 1], wire[i], recs[i], ends[i], made)
    BY <2>1 DEF Leads
  <2> HIDE DEF n
  <2>5. n \in Nat /\ n + 1 \in 0..n + 1 /\ 0 \in 0..n /\ \A i \in 0..n : i \in 0..n + 1 /\ i # n + 1
    BY <1>2 DEF n
  <2>6. /\ \A i \in 0..n : r[i] = recs[i] /\ e[i] = ends[i]
        /\ r[n + 1] = recording' /\ e[n + 1] = Len(made')
    BY <2>0, <2>5
  <2>7. r \in [0..n + 1 -> Recording \cup {NoRecording}] /\ e \in [0..n + 1 -> 0..Len(made')]
    BY <1>3, <2>0, <2>2, <2>5 DEF SocketTypeOK
  <2>8. r[0] = Holding' /\ e[0] = Running'
    BY <1>1, <2>2, <2>5, <2>6 DEF Holding, Running
  <2>9. ASSUME NEW i \in 0..n + 1, NEW j \in i..n + 1 PROVE e[i] <= e[j]
    <3>1. CASE j = n + 1
      BY <1>3, <2>5, <2>6, <2>7, <3>1
    <3>2. CASE j # n + 1
      <4>1. i \in 0..n /\ j \in i..n /\ j \in 0..n
        BY <2>5, <3>2
      <4>2. QED BY <2>3, <2>6, <4>1
    <3>3. QED BY <3>1, <3>2
  <2>10. ASSUME NEW i \in 1..n + 1 PROVE Follows(r[i - 1], e[i - 1], wire'[i], r[i], e[i], made')
    <3>1. CASE i = n + 1
      <4>1. r[i - 1] = recording /\ e[i - 1] = Len(made) /\ wire'[i] = message /\ r[i] = recording' /\ e[i] = Len(made')
        BY <1>2, <2>2, <2>5, <2>6, <3>1 DEF n
      <4>2. QED BY <4>1
    <3>2. CASE i # n + 1
      <4>1. i \in 1..n /\ i \in 0..n /\ i - 1 \in 0..n
        BY <2>5, <3>2
      <4>2. r[i - 1] = recs[i - 1] /\ e[i - 1] = ends[i - 1] /\ wire'[i] = wire[i] /\ r[i] = recs[i] /\ e[i] = ends[i]
        BY <1>2, <2>6, <4>1 DEF n
      <4>3. Follows(recs[i - 1], ends[i - 1], wire[i], recs[i], ends[i], made)
        BY <2>4, <4>1
      <4>4. ends[i] \in 1..Len(made) => made'[ends[i]] = made[ends[i]]
        BY <1>3
      <4>5. ends[i - 1] \in 0..Len(made) /\ ends[i] \in 0..Len(made)
        BY <2>2, <4>1
      <4>6. Follows(recs[i - 1], ends[i - 1], wire[i], recs[i], ends[i], made')
        BY <1>3, <4>3, <4>4, <4>5 DEF Follows
      <4>7. QED BY <4>2, <4>6
    <3>3. QED BY <3>1, <3>2
  <2>11. Len(wire') = n + 1
    BY <1>2 DEF n
  <2>12. /\ r \in [0..Len(wire') -> Recording \cup {NoRecording}] /\ e \in [0..Len(wire') -> 0..Len(made')]
         /\ r[0] = Holding' /\ e[0] = Running' /\ r[Len(wire')] = recording' /\ e[Len(wire')] = Len(made')
         /\ \A i \in 0..Len(wire') : \A j \in i..Len(wire') : e[i] <= e[j]
         /\ \A i \in 1..Len(wire') : Follows(r[i - 1], e[i - 1], wire'[i], r[i], e[i], made')
    BY <2>6, <2>7, <2>8, <2>9, <2>10, <2>11
  <2>13. Leads(r, e)'
    BY <2>12 DEF Leads, Follows
  <2>14. QED BY <2>13
<1>5. turn' # NoRecording => open' /\ made' # <<>> /\ turn' = made'[1] /\ Len(turn'.audio) <= MaxPieces
  <2>1. made # <<>> => 1 \in 1..Len(made) /\ Len(made') # 0
    BY <1>1, <1>3, EmptySeq
  <2>2. Len(<<>>) = 0
    BY EmptySeq
  <2>3. QED BY <1>1, <1>3, <2>1, <2>2 DEF SocketInv
<1>6. QED BY <1>1, <1>4, <1>5 DEF SocketInv

\* The server takes a message: the way starts one message later.
LEMMA ServerTakes ==
    ASSUME SocketInv, NEW type, Receive(type), SocketTypeOK',
           turn' # NoRecording => open' /\ Len(turn'.audio) <= MaxPieces,
           \A ended, next, m :
              /\ Follows(Holding, 0, wire[1], next, m, ended)
              /\ m \in Nat /\ next \in Recording \cup {NoRecording}
              => \/ next = Holding' /\ m = Running' /\ (turn' # NoRecording => turn' = ended[1])
                 \/ ~open'
    PROVE  SocketInv'
<1>1. open /\ turn = NoRecording /\ wire' = Tail(wire) /\ UNCHANGED <<made, recording>> /\ wire # <<>>
  BY DEF Receive
<1> DEFINE n == Len(wire)
<1>2. /\ n \in Nat \ {0} /\ Len(wire') = n - 1
      /\ \A i \in 1..n - 1 : wire'[i] = wire[i + 1]
  <2>1. wire \in Seq(Message)
    BY DEF SocketInv, SocketTypeOK
  <2>2. n \in Nat \ {0}
    BY <1>1, <2>1, EmptySeq
  <2>3. Len(wire') = n - 1 /\ \A i \in 1..n - 1 : wire'[i] = wire[i + 1]
    BY <1>1, <2>1, <2>2, HeadTailProperties
  <2>4. QED BY <2>2, <2>3
<1> HIDE DEF n
<1>3. PICK recs, ends : Leads(recs, ends)
  BY <1>1 DEF SocketInv
<1>4. /\ recs \in [0..n -> Recording \cup {NoRecording}] /\ ends \in [0..n -> 0..Len(made)]
      /\ recs[0] = Holding /\ ends[0] = 0 /\ recs[n] = recording /\ ends[n] = Len(made)
      /\ \A i \in 0..n : \A j \in i..n : ends[i] <= ends[j]
      /\ \A i \in 1..n : Follows(recs[i - 1], ends[i - 1], wire[i], recs[i], ends[i], made)
  BY <1>1, <1>3 DEF Leads, Running, n
<1>5. Len(made) \in Nat
  BY LenProperties DEF SocketInv, SocketTypeOK
<1>6. CASE ~open'
  BY <1>6 DEF SocketInv
<1>7. CASE open'
  <2>0. PICK r, e : r = [i \in 0..n - 1 |-> recs[i + 1]] /\ e = [i \in 0..n - 1 |-> ends[i + 1]]
    OBVIOUS
  <2>1. 1 \in 1..n /\ 1 \in 0..n /\ \A i \in 0..n - 1 : i + 1 \in 0..n
    BY <1>2
  <2>2. Follows(Holding, 0, wire[1], recs[1], ends[1], made)
    BY <1>4, <2>1
  <2>3. ends[1] \in Nat /\ recs[1] \in Recording \cup {NoRecording} /\ ends[1] <= Len(made)
    BY <1>4, <1>5, <2>1
  <2>4. recs[1] = Holding' /\ ends[1] = Running' /\ (turn' # NoRecording => turn' = made[1])
    BY <1>7, <2>2, <2>3
  <2>5. r \in [0..n - 1 -> Recording \cup {NoRecording}] /\ e \in [0..n - 1 -> 0..Len(made)]
        /\ \A i \in 0..n - 1 : r[i] = recs[i + 1] /\ e[i] = ends[i + 1]
    BY <1>4, <2>0, <2>1
  <2>6. r[0] = Holding' /\ e[0] = Running' /\ r[n - 1] = recording /\ e[n - 1] = Len(made)
    <3>1. 0 \in 0..n - 1 /\ n - 1 \in 0..n - 1 /\ 0 + 1 = 1 /\ (n - 1) + 1 = n
      BY <1>2
    <3>2. QED BY <1>4, <2>4, <2>5, <3>1
  <2>7. ASSUME NEW i \in 0..n - 1, NEW j \in i..n - 1 PROVE e[i] <= e[j]
    <3>1. i + 1 \in 0..n /\ j + 1 \in i + 1..n /\ j \in 0..n - 1
      BY <1>2
    <3>2. QED BY <1>4, <2>5, <3>1
  <2>8. ASSUME NEW i \in 1..n - 1 PROVE Follows(r[i - 1], e[i - 1], wire'[i], r[i], e[i], made)
    <3>1. i + 1 \in 1..n /\ i \in 0..n - 1 /\ i - 1 \in 0..n - 1 /\ (i - 1) + 1 = i /\ (i + 1) - 1 = i
      BY <1>2
    <3>2. r[i - 1] = recs[i] /\ e[i - 1] = ends[i] /\ r[i] = recs[i + 1] /\ e[i] = ends[i + 1] /\ wire'[i] = wire[i + 1]
      BY <1>2, <2>5, <3>1
    <3>3. Follows(recs[i], ends[i], wire[i + 1], recs[i + 1], ends[i + 1], made)
      BY <1>4, <3>1
    <3>4. QED BY <3>2, <3>3
  <2>9. /\ r \in [0..Len(wire') -> Recording \cup {NoRecording}] /\ e \in [0..Len(wire') -> 0..Len(made')]
        /\ r[0] = Holding' /\ e[0] = Running' /\ r[Len(wire')] = recording' /\ e[Len(wire')] = Len(made')
        /\ \A i \in 0..Len(wire') : \A j \in i..Len(wire') : e[i] <= e[j]
        /\ \A i \in 1..Len(wire') : Follows(r[i - 1], e[i - 1], wire'[i], r[i], e[i], made')
    BY <1>1, <1>2, <2>5, <2>6, <2>7, <2>8
  <2>10. Leads(r, e)'
    BY <2>9 DEF Leads, Follows
  <2>11. turn' # NoRecording => made' # <<>> /\ turn' = made'[1]
    <3>1. turn' # NoRecording => ends[1] = 1
      BY <2>4 DEF Running
    <3>2. Len(<<>>) = 0
      BY EmptySeq
    <3>3. QED BY <1>1, <1>5, <2>3, <2>4, <3>1, <3>2
  <2>12. QED BY <2>10, <2>11 DEF SocketInv
<1>8. QED BY <1>6, <1>7

\* The turn is answered: one recording less is waiting.
LEMMA ServerAnswers ==
    ASSUME SocketInv, TurnAnswered
    PROVE  SocketInv'
<1>1. /\ turn # NoRecording /\ turn' = NoRecording /\ start' = NoRecording /\ chunks' = <<>>
      /\ made' = Tail(made) /\ UNCHANGED <<sent, recording, wire, open>>
  BY DEF TurnAnswered
<1>2. made \in Seq(Recording) /\ made # <<>> /\ open
  BY <1>1 DEF SocketInv, SocketTypeOK
<1>3. /\ Len(made) \in Nat \ {0} /\ made' \in Seq(Recording) /\ Len(made') = Len(made) - 1
      /\ \A i \in 1..Len(made) - 1 : made'[i] = made[i + 1]
  BY <1>1, <1>2, EmptySeq, HeadTailProperties
<1>4. SocketTypeOK'
  <2>1. chunks' \in Seq(1..MaxSent)
    BY <1>1, EmptySeq
  <2>2. QED BY <1>1, <1>3, <2>1 DEF SocketInv, SocketTypeOK
<1>5. PICK recs, ends : Leads(recs, ends)
  BY <1>2 DEF SocketInv
<1> DEFINE n == Len(wire)
<1>0. PICK e : e = [i \in 0..n |-> ends[i] - 1]
  OBVIOUS
<1>6. n \in Nat
  BY LenProperties DEF SocketInv, SocketTypeOK
<1>7. /\ recs \in [0..n -> Recording \cup {NoRecording}] /\ ends \in [0..n -> 0..Len(made)]
      /\ recs[0] = NoRecording /\ ends[0] = 1 /\ recs[n] = recording /\ ends[n] = Len(made)
      /\ \A i \in 0..n : \A j \in i..n : ends[i] <= ends[j]
      /\ \A i \in 1..n : Follows(recs[i - 1], ends[i - 1], wire[i], recs[i], ends[i], made)
  BY <1>1, <1>5 DEF Leads, Running, Holding
<1> HIDE DEF n
<1>8. \A i \in 0..n : ends[i] \in 1..Len(made)
  <2>1. ASSUME NEW i \in 0..n PROVE ends[i] \in 1..Len(made)
    <3>1. 0 \in 0..n /\ i \in 0..n /\ i \in 0..n
      BY <1>6
    <3>2. ends[0] <= ends[i] /\ ends[i] \in 0..Len(made)
      BY <1>7, <3>1
    <3>3. QED BY <1>3, <1>7, <3>2
  <2>2. QED BY <2>1
<1>9. e \in [0..n -> 0..Len(made')] /\ \A i \in 0..n : e[i] = ends[i] - 1
  BY <1>0, <1>3, <1>8
<1>10. recs[0] = Holding' /\ e[0] = Running' /\ e[n] = Len(made')
  <2>1. 0 \in 0..n /\ n \in 0..n
    BY <1>6
  <2>2. e[0] = 0 /\ e[n] = Len(made) - 1
    BY <1>7, <1>9, <2>1
  <2>3. Holding' = NoRecording /\ Running' = 0
    BY <1>1 DEF Holding, Running
  <2>4. QED BY <1>3, <1>7, <2>2, <2>3
<1>11. ASSUME NEW i \in 0..n, NEW j \in i..n PROVE e[i] <= e[j]
  <2>1. j \in 0..n
    BY <1>6
  <2>2. ends[i] <= ends[j] /\ ends[i] \in Nat /\ ends[j] \in Nat
    BY <1>3, <1>7, <1>8, <2>1
  <2>3. QED BY <1>9, <2>1, <2>2
<1>12. ASSUME NEW i \in 1..n PROVE Follows(recs[i - 1], e[i - 1], wire[i], recs[i], e[i], made')
  <2>1. i \in 0..n /\ i - 1 \in 0..n
    BY <1>6
  <2>2. e[i] = ends[i] - 1 /\ e[i - 1] = ends[i - 1] - 1 /\ ends[i] \in 1..Len(made) /\ ends[i - 1] \in 1..Len(made)
    BY <1>8, <1>9, <2>1
  <2>3. ends[i] = ends[i - 1] + 1 => made'[ends[i] - 1] = made[ends[i]]
    BY <1>3, <2>2
  <2>4. Follows(recs[i - 1], ends[i - 1], wire[i], recs[i], ends[i], made)
    BY <1>7
  <2>5. QED BY <1>3, <2>2, <2>3, <2>4 DEF Follows
<1>13. /\ recs \in [0..Len(wire') -> Recording \cup {NoRecording}] /\ e \in [0..Len(wire') -> 0..Len(made')]
       /\ recs[0] = Holding' /\ e[0] = Running' /\ recs[Len(wire')] = recording' /\ e[Len(wire')] = Len(made')
       /\ \A i \in 0..Len(wire') : \A j \in i..Len(wire') : e[i] <= e[j]
       /\ \A i \in 1..Len(wire') : Follows(recs[i - 1], e[i - 1], wire'[i], recs[i], e[i], made')
  <2>1. Len(wire') = n /\ wire' = wire /\ recording' = recording
    BY <1>1 DEF n
  <2>2. QED BY <1>7, <1>9, <1>10, <1>11, <1>12, <2>1
<1>14. Leads(recs, e)'
  BY <1>13 DEF Leads, Follows
<1>15. QED BY <1>1, <1>4, <1>14 DEF SocketInv

\* Sending and receiving keep the wire's type.
LEMMA WireTypes ==
    ASSUME SocketTypeOK
    PROVE  /\ \A message \in Message : Send(message) => wire' \in Seq(Message) /\ sent' \in 0..MaxSent
                                                        /\ sent + 1 \in 1..MaxSent
           /\ \A type : Receive(type) => /\ wire' \in Seq(Message) /\ Head(wire) \in Message
                                         /\ Head(wire) = wire[1] /\ wire[1].type = type
           /\ <<>> \in Seq(1..MaxSent)
<1>1. ASSUME NEW message \in Message, Send(message)
      PROVE  wire' \in Seq(Message) /\ sent' \in 0..MaxSent /\ sent + 1 \in 1..MaxSent
  <2>1. wire' \in Seq(Message)
    BY <1>1, AppendProperties DEF SocketTypeOK, Send
  <2>2. sent \in 0..MaxSent /\ sent < MaxSent /\ sent' = sent + 1
    BY <1>1 DEF SocketTypeOK, Send
  <2>3. QED BY <2>1, <2>2, SocketAssumption
<1>2. ASSUME NEW type, Receive(type)
      PROVE  wire' \in Seq(Message) /\ Head(wire) \in Message /\ Head(wire) = wire[1] /\ wire[1].type = type
  <2>1. wire \in Seq(Message) /\ wire # <<>> /\ wire' = Tail(wire) /\ Head(wire).type = type
    BY <1>2 DEF SocketTypeOK, Receive
  <2>2. QED BY <2>1, HeadTailProperties, EmptySeq
<1>3. QED BY <1>1, <1>2, EmptySeq

\* The client's steps.
LEMMA ClientStep ==
    ASSUME SocketInv,
           (\E by \in Start : SendStart(by)) \/ SendBytes \/ SendEnd
             \/ \E type \in {"other", "malformed"} : SendOther(type)
    PROVE  SocketInv'
<1>1. SocketTypeOK /\ recording \in Recording \cup {NoRecording} /\ made \in Seq(Recording)
  BY DEF SocketInv, SocketTypeOK
<1>2. NoRecording \notin Recording
  BY SocketAssumption
<1>3. ASSUME NEW by \in Start, SendStart(by) PROVE SocketInv'
  <2> DEFINE message == [type |-> "start", by |-> by]
  <2>1. /\ message \in Message /\ Send(message)
        /\ recording' = [by |-> by, audio |-> <<>>] /\ made' = made
    BY <1>3 DEF SendStart, Message
  <2>2. recording' \in Recording
    BY <1>1, <2>1, WireTypes DEF Recording
  <2>3. SocketTypeOK'
    BY <1>1, <2>1, <2>2, WireTypes DEF SocketTypeOK, Send
  <2>4. Follows(recording, Len(made), message, recording', Len(made'), made')
    BY <2>1 DEF Follows
  <2>5. QED BY <2>1, <2>3, <2>4, ClientSends
<1>4. CASE SendBytes
  <2> DEFINE message == [type |-> "bytes", piece |-> sent + 1]
  <2>1. /\ Send(message) /\ made' = made
        /\ recording' = IF recording = NoRecording THEN recording
                        ELSE [recording EXCEPT !.audio = Append(recording.audio, sent + 1)]
    BY <1>4 DEF SendBytes
  <2>2. sent + 1 \in 1..MaxSent
    BY <1>1, <2>1, SocketAssumption DEF Send, SocketTypeOK
  <2>3. message \in Message
    BY <2>2 DEF Message
  <2>4. CASE recording = NoRecording
    <3>1. recording' = recording
      BY <2>1, <2>4
    <3>2. SocketTypeOK'
      BY <1>1, <2>1, <2>3, <3>1, WireTypes DEF SocketTypeOK, Send
    <3>3. Follows(recording, Len(made), message, recording', Len(made'), made')
      BY <2>1, <2>4, <3>1 DEF Follows
    <3>4. QED BY <2>1, <2>3, <3>2, <3>3, ClientSends
  <2>5. CASE recording # NoRecording
    <3>1. recording \in Recording /\ recording.audio \in Seq(1..MaxSent) /\ recording.by \in Start
      BY <1>1, <2>5 DEF Recording
    <3>2. Append(recording.audio, sent + 1) \in Seq(1..MaxSent)
      BY <2>2, <3>1, AppendProperties
    <3>3. recording' = [by |-> recording.by, audio |-> Append(recording.audio, sent + 1)]
      BY <2>1, <2>5, <3>1 DEF Recording
    <3>4. recording' \in Recording
      BY <3>1, <3>2, <3>3 DEF Recording
    <3>5. SocketTypeOK'
      BY <1>1, <2>1, <2>3, <3>4, WireTypes DEF SocketTypeOK, Send
    <3>6. Follows(recording, Len(made), message, recording', Len(made'), made')
      BY <2>1, <2>5, <3>3 DEF Follows
    <3>7. QED BY <2>1, <2>3, <3>5, <3>6, ClientSends
  <2>6. QED BY <2>4, <2>5
<1>5. CASE SendEnd
  <2> DEFINE message == [type |-> "end"]
  <2>1. /\ message \in Message /\ Send(message) /\ recording' = NoRecording
        /\ made' = IF recording = NoRecording THEN made ELSE Append(made, recording)
    BY <1>5 DEF SendEnd, Message
  <2>2. CASE recording = NoRecording
    <3>1. made' = made
      BY <2>1, <2>2
    <3>2. SocketTypeOK'
      BY <1>1, <2>1, <3>1, WireTypes DEF SocketTypeOK, Send
    <3>3. Follows(recording, Len(made), message, recording', Len(made'), made')
      BY <2>1, <2>2, <3>1 DEF Follows
    <3>4. QED BY <2>1, <3>1, <3>2, <3>3, ClientSends
  <2>3. CASE recording # NoRecording
    <3>1. recording \in Recording /\ made' = Append(made, recording)
      BY <1>1, <2>1, <2>3
    <3>2. /\ made' \in Seq(Recording) /\ Len(made') = Len(made) + 1 /\ made'[Len(made) + 1] = recording
      BY <1>1, <3>1, AppendProperties
    <3>3. SocketTypeOK'
      BY <1>1, <2>1, <3>2, WireTypes DEF SocketTypeOK, Send
    <3>4. Follows(recording, Len(made), message, recording', Len(made'), made')
      BY <2>1, <2>3, <3>2 DEF Follows
    <3>5. QED BY <2>1, <3>1, <3>3, <3>4, ClientSends
  <2>4. QED BY <2>2, <2>3
<1>6. ASSUME NEW type \in {"other", "malformed"}, SendOther(type) PROVE SocketInv'
  <2> DEFINE message == [type |-> type]
  <2>1. message \in Message /\ Send(message) /\ UNCHANGED <<recording, made>>
    BY <1>6 DEF SendOther, Message
  <2>2. SocketTypeOK'
    BY <1>1, <2>1, WireTypes DEF SocketTypeOK, Send
  <2>3. Follows(recording, Len(made), message, recording', Len(made'), made')
    BY <2>1 DEF Follows
  <2>4. QED BY <2>1, <2>2, <2>3, ClientSends
<1>7. QED BY <1>3, <1>4, <1>5, <1>6

\* A recording message of the wire names a start; a piece is one of the client's.
LEMMA MessageParts ==
    ASSUME NEW message \in Message
    PROVE  /\ message.type = "start" => message.by \in Start
           /\ message.type = "bytes" => message.piece \in 1..MaxSent
           /\ message.type \in {"start", "bytes", "end", "other", "malformed"}
BY DEF Message

\* The server's steps.
LEMMA ServerStep ==
    ASSUME SocketInv,
           ReceiveStart \/ ReceiveBytes \/ ReceiveEnd \/ ReceiveOther \/ ReceiveMalformed
    PROVE  SocketInv'
<1>1. SocketTypeOK /\ chunks \in Seq(1..MaxSent) /\ start \in Start \cup {NoRecording} /\ turn \in Recording \cup {NoRecording}
  BY DEF SocketInv, SocketTypeOK
<1>2. NoRecording \notin Recording \cup Start
  BY SocketAssumption
<1>3. CASE ReceiveStart
  <2>1. /\ Receive("start") /\ start' = Head(wire).by /\ chunks' = <<>> /\ UNCHANGED <<turn, open>>
    BY <1>3 DEF ReceiveStart, Kept
  <2>2. Head(wire) = wire[1] /\ wire[1] \in Message /\ wire[1].type = "start"
    BY <1>1, <2>1, WireTypes
  <2>3. start' \in Start /\ start' = wire[1].by
    BY <2>1, <2>2, MessageParts
  <2>4. SocketTypeOK' /\ turn = NoRecording /\ open
    BY <1>1, <2>1, <2>3, WireTypes DEF SocketTypeOK, Receive
  <2>5. Holding' = [by |-> wire[1].by, audio |-> <<>>] /\ Running' = 0
    BY <1>2, <2>1, <2>3, <2>4 DEF Holding, Running
  <2>6. ASSUME NEW ended, NEW next, NEW m, Follows(Holding, 0, wire[1], next, m, ended)
        PROVE  next = Holding' /\ m = Running'
    BY <2>2, <2>5, <2>6 DEF Follows
  <2>7. QED BY <2>1, <2>4, <2>6, ServerTakes
<1>4. CASE ReceiveBytes
  <2>1. /\ Receive("bytes") /\ UNCHANGED <<start, turn, open>>
        /\ chunks' = IF start = NoRecording THEN chunks ELSE Append(chunks, Head(wire).piece)
    BY <1>4 DEF ReceiveBytes
  <2>2. Head(wire) = wire[1] /\ wire[1] \in Message /\ wire[1].type = "bytes" /\ wire[1].piece \in 1..MaxSent
    BY <1>1, <2>1, WireTypes, MessageParts
  <2>3. chunks' \in Seq(1..MaxSent)
    BY <1>1, <2>1, <2>2, AppendProperties
  <2>4. SocketTypeOK' /\ turn = NoRecording /\ open
    BY <1>1, <2>1, <2>3, WireTypes DEF SocketTypeOK, Receive
  <2>5. /\ Running' = 0
        /\ start = NoRecording => Holding = NoRecording /\ Holding' = NoRecording
        /\ start # NoRecording => /\ Holding = [by |-> start, audio |-> chunks] /\ Holding # NoRecording
                                  /\ Holding' = [by |-> start, audio |-> Append(chunks, wire[1].piece)]
    <3>1. start # NoRecording => [by |-> start, audio |-> chunks] \in Recording
      BY <1>1 DEF Recording
    <3>2. QED BY <1>2, <2>1, <2>2, <2>4, <3>1 DEF Holding, Running
  <2>6. ASSUME NEW ended, NEW next, NEW m, Follows(Holding, 0, wire[1], next, m, ended)
        PROVE  next = Holding' /\ m = Running'
    BY <2>2, <2>5, <2>6 DEF Follows
  <2>7. QED BY <2>1, <2>4, <2>6, ServerTakes
<1>5. CASE ReceiveEnd
  <2> DEFINE rec == [by |-> start, audio |-> chunks]
  <2>1. /\ Receive("end") /\ UNCHANGED <<start, chunks>> /\ turn = NoRecording
        /\ start # NoRecording /\ Valid(chunks, start) => turn' = rec
        /\ ~(start # NoRecording /\ Valid(chunks, start)) => turn' = turn
        /\ open' = (start = NoRecording \/ Valid(chunks, start))
    BY <1>5 DEF ReceiveEnd, Receive
  <2>2. Head(wire) = wire[1] /\ wire[1] \in Message /\ wire[1].type = "end"
    BY <1>1, <2>1, WireTypes
  <2>3. start # NoRecording => rec \in Recording /\ rec # NoRecording
    BY <1>1, <1>2 DEF Recording
  <2>4. SocketTypeOK'
    <3>1. turn' \in Recording \cup {NoRecording} /\ open' \in BOOLEAN
      BY <2>1, <2>3 DEF Valid
    <3>2. QED BY <1>1, <2>1, <3>1, WireTypes DEF SocketTypeOK, Receive
  <2>5. CASE start = NoRecording
    <3>1. Holding = NoRecording /\ Holding' = NoRecording /\ Running' = 0 /\ turn' = NoRecording
      BY <2>1, <2>5 DEF Holding, Running
    <3>2. ASSUME NEW ended, NEW next, NEW m, Follows(Holding, 0, wire[1], next, m, ended)
          PROVE  next = Holding' /\ m = Running'
      BY <2>2, <3>1, <3>2 DEF Follows
    <3>3. QED BY <2>1, <2>4, <3>1, <3>2, ServerTakes
  <2>6. CASE start # NoRecording /\ Valid(chunks, start)
    <3>1. /\ Holding = rec /\ turn' = rec /\ rec # NoRecording /\ Holding' = NoRecording /\ Running' = 1
          /\ open' /\ Len(turn'.audio) <= MaxPieces
      <4>1. turn' = rec /\ rec # NoRecording /\ open' /\ turn' # NoRecording
        BY <2>1, <2>3, <2>6
      <4>2. Len(chunks) <= MaxPieces /\ rec.audio = chunks
        BY <2>6 DEF Valid
      <4>3. Holding = rec
        BY <2>1, <2>6 DEF Holding
      <4>4. Holding' = NoRecording /\ Running' = 1
        BY <4>1 DEF Holding, Running
      <4>5. QED BY <4>1, <4>2, <4>3, <4>4
    <3> HIDE DEF rec
    <3>2. ASSUME NEW ended, NEW next, NEW m, Follows(Holding, 0, wire[1], next, m, ended)
          PROVE  next = Holding' /\ m = Running' /\ turn' = ended[1]
      BY <2>2, <3>1, <3>2 DEF Follows
    <3>3. QED BY <2>1, <2>4, <3>1, <3>2, ServerTakes
  <2>7. CASE start # NoRecording /\ ~Valid(chunks, start)
    <3>1. ~open' /\ turn' = NoRecording
      BY <2>1, <2>7
    <3>2. QED BY <2>1, <2>4, <3>1, ServerTakes
  <2>8. QED BY <2>5, <2>6, <2>7
<1>6. CASE ReceiveOther
  <2>1. Receive("other") /\ UNCHANGED <<start, chunks, turn, open>>
    BY <1>6 DEF ReceiveOther
  <2>2. wire[1].type = "other" /\ SocketTypeOK' /\ turn = NoRecording /\ open
    BY <1>1, <2>1, WireTypes DEF SocketTypeOK, Receive
  <2>3. Holding' = Holding /\ Running' = 0
    BY <2>1, <2>2 DEF Holding, Running
  <2>4. ASSUME NEW ended, NEW next, NEW m, Follows(Holding, 0, wire[1], next, m, ended)
        PROVE  next = Holding' /\ m = Running'
    BY <2>2, <2>3, <2>4 DEF Follows
  <2>5. QED BY <2>1, <2>2, <2>4, ServerTakes
<1>7. CASE ReceiveMalformed
  <2>1. Receive("malformed") /\ open' = FALSE /\ UNCHANGED <<start, chunks, turn>> /\ turn = NoRecording
    BY <1>7 DEF ReceiveMalformed, Receive
  <2>2. SocketTypeOK'
    BY <1>1, <2>1, WireTypes DEF SocketTypeOK, Receive
  <2>3. QED BY <2>1, <2>2, ServerTakes
<1>8. QED BY <1>3, <1>4, <1>5, <1>6, <1>7

\* The socket closes, or nothing happens.
LEMMA SocketRests ==
    ASSUME SocketInv, SocketCloses \/ UNCHANGED socketVars
    PROVE  SocketInv'
<1>1. CASE SocketCloses
  BY <1>1 DEF SocketCloses, SocketInv, SocketTypeOK
<1>2. CASE UNCHANGED socketVars
  <2>1. ASSUME NEW recs, NEW ends, Leads(recs, ends) PROVE Leads(recs, ends)'
    BY <1>2, <2>1 DEF socketVars, Leads, Follows, Holding, Running
  <2>2. QED BY <1>2, <2>1 DEF socketVars, SocketInv, SocketTypeOK
<1>3. QED BY <1>1, <1>2

\* What the server holds and what is on the wire lead to the recordings the client has made.
THEOREM WireLeads == SocketSpec => []SocketInv
<1>1. SocketInit => SocketInv
  <2> SUFFICES ASSUME SocketInit PROVE SocketInv
    OBVIOUS
  <2>1. /\ sent = 0 /\ recording = NoRecording /\ made = <<>> /\ wire = <<>>
        /\ start = NoRecording /\ chunks = <<>> /\ turn = NoRecording /\ open = TRUE
    BY DEF SocketInit
  <2>2. Len(wire) = 0 /\ Len(made) = 0
    BY <2>1, EmptySeq
  <2>3. SocketTypeOK
    BY <2>1, EmptySeq, SocketAssumption DEF SocketTypeOK
  <2>4. Leads([i \in 0..0 |-> NoRecording], [i \in 0..0 |-> 0])
    BY <2>1, <2>2 DEF Leads, Holding, Running
  <2>5. QED BY <2>1, <2>3, <2>4 DEF SocketInv
<1>2. SocketInv /\ [SocketNext]_socketVars => SocketInv'
  BY ClientStep, ServerStep, ServerAnswers, SocketRests DEF SocketNext
<1>3. QED BY <1>1, <1>2, PTL DEF SocketSpec

\* A voice turn is given one recording, complete, in order and not too long, and the one
\* that waited longest (api/routes/voice.py:72-130).
THEOREM TurnsAreRecordings == SocketSpec => []RecordingsApart
<1>1. SocketInv => RecordingsApart
  <2> SUFFICES ASSUME SocketInv, turn # NoRecording
               PROVE  made # <<>> /\ turn = Head(made) /\ Len(turn.audio) <= MaxPieces
    BY DEF RecordingsApart
  <2>1. made # <<>> /\ turn = made[1] /\ Len(turn.audio) <= MaxPieces /\ made \in Seq(Recording)
    BY DEF SocketInv, SocketTypeOK
  <2>2. QED BY <2>1, HeadTailProperties, EmptySeq
<1>2. QED BY <1>1, WireLeads, PTL
=============================================================================
