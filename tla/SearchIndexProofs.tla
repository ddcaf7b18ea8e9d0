-------------------------- MODULE SearchIndexProofs --------------------------
(***************************************************************************)
(* Proofs about module SearchIndex: for every set of schemes and any       *)
(* number of rebuilds and searches, an organisation never loses its index  *)
(* and a search's own rebuild leaves it files that belong together.        *)
(***************************************************************************)
EXTENDS SearchIndex, TLAPS

BothWritten == {"mark", "retire", "purge", "commit"}
Reading == {"look", "ids", "vectors"}

\* What a rebuild with record q and its search with record s may rely on.
Sound(q, s) ==
    /\ s.pc \in Reading => q.pc = "idle"
    /\ q.pc = "ids" \/ q.pc \in BothWritten => vectorFile # NoFile
    /\ q.pc \in BothWritten => idsFile # NoFile
    /\ s.own /\ q.pc = "ids" => vectorFile = q.schemes
    /\ s.own /\ q.pc \in BothWritten => vectorFile = q.schemes /\ idsFile = q.schemes
    /\ s.own /\ s.pc \in Reading => idsFile = vectorFile
    /\ s.own /\ s.pc = "vectors" => s.ids = vectorFile

FilesInUse == InUse # {} => vectorFile # NoFile /\ idsFile # NoFile

IndexInv == IndexTypeOK /\ FilesInUse /\ \A b \in Builders : Sound(builders[b], searches[b])

LEMMA RecordTypes ==
    ASSUME IndexInv, NEW b \in Builders
    PROVE  /\ builders[b] \in Builder /\ searches[b] \in Search /\ Sound(builders[b], searches[b])
           /\ NoBuild \in Builder /\ NewBuild \in Builder /\ NoSearch \in Search
           /\ NewBuild.pc = "vectors" /\ NoBuild.pc = "idle" /\ NoSearch.pc = "off" /\ ~NoSearch.own
<1>1. NoBuild \in Builder /\ NoBuild.pc = "idle"
  BY IndexAssumption DEF NoBuild, Builder
<1>2. NewBuild \in Builder /\ NewBuild.pc = "vectors"
  BY <1>1 DEF IndexInv, IndexTypeOK, NewBuild, Builder
<1>3. NoSearch \in Search /\ NoSearch.pc = "off" /\ ~NoSearch.own
  BY DEF NoSearch, Search
<1>4. QED BY <1>1, <1>2, <1>3 DEF IndexInv, IndexTypeOK

\* A step of one rebuild or search that writes neither file nor table.
LEMMA RecordStep ==
    ASSUME IndexInv, NEW b \in Builders, NEW q \in Builder, NEW s \in Search, Sound(q, s),
           builders' = [builders EXCEPT ![b] = q], searches' = [searches EXCEPT ![b] = s],
           UNCHANGED <<active, vectorFile, idsFile, metadata, embeddings>>
    PROVE  IndexInv' /\ InUse' = InUse
<1>1. IndexTypeOK'
  BY DEF IndexInv, IndexTypeOK, IsFile
<1>2. InUse' = InUse /\ FilesInUse'
  BY DEF IndexInv, FilesInUse, InUse
<1>3. ASSUME NEW x \in Builders PROVE Sound(builders[x], searches[x])'
  <2>1. builders'[x] = (IF x = b THEN q ELSE builders[x]) /\ searches'[x] = (IF x = b THEN s ELSE searches[x])
    BY DEF IndexInv, IndexTypeOK
  <2>2. Sound(builders[x], searches[x])
    BY DEF IndexInv
  <2>3. QED BY <2>1, <2>2 DEF Sound
<1>4. QED BY <1>1, <1>2, <1>3 DEF IndexInv

\* The rebuild's steps before its commit.
LEMMA BuildStep ==
    ASSUME IndexInv, NEW b \in Builders,
           BuildStart(b) \/ MarkOld(b) \/ RetireOld(b) \/ PurgeSame(b) \/ BuildFails(b)
    PROVE  IndexInv' /\ InUse' = InUse
<1> DEFINE q == builders[b]
           s == searches[b]
<1>1. /\ q \in Builder /\ s \in Search /\ Sound(q, s)
      /\ NoBuild \in Builder /\ NewBuild \in Builder /\ NoSearch \in Search
      /\ NewBuild.pc = "vectors" /\ NoBuild.pc = "idle" /\ NoSearch.pc = "off" /\ ~NoSearch.own
  BY RecordTypes
<1>2. searches = [searches EXCEPT ![b] = s]
  BY DEF IndexInv, IndexTypeOK
<1>3. {x.build : x \in metadata} \subseteq 1..MaxBuilds /\ embeddings.build \in 0..MaxBuilds
  BY DEF IndexInv, IndexTypeOK, Metadata, Embeddings
<1>4. CASE BuildStart(b)
  <2>1. Sound(NewBuild, s)
    BY <1>1, <1>4 DEF Sound, BuildStart, Reading, BothWritten
  <2>2. QED BY <1>1, <1>2, <1>4, <2>1, RecordStep DEF BuildStart, Building
<1>5. CASE MarkOld(b)
  <2> DEFINE p == [q EXCEPT !.pc = "retire", !.seen = {x.build : x \in metadata}]
  <2>1. p \in Builder /\ p.pc = "retire" /\ p.schemes = q.schemes /\ q.pc = "mark"
    BY <1>1, <1>3, <1>5 DEF Builder, MarkOld, Builds
  <2>2. builders' = [builders EXCEPT ![b] = p]
    BY <1>5 DEF MarkOld, Building
  <2> HIDE DEF p
  <2>3. Sound(p, s)
    BY <1>1, <2>1 DEF Sound, Reading, BothWritten
  <2>4. QED BY <1>1, <1>2, <1>5, <2>1, <2>2, <2>3, RecordStep DEF MarkOld
<1>6. CASE RetireOld(b)
  <2> DEFINE p == [q EXCEPT !.pc = "purge"]
  <2>1. p \in Builder /\ p.pc = "purge" /\ p.schemes = q.schemes /\ q.pc = "retire"
    BY <1>1, <1>6 DEF Builder, RetireOld, Builds
  <2>2. builders' = [builders EXCEPT ![b] = p]
    BY <1>6 DEF RetireOld, Building
  <2> HIDE DEF p
  <2>3. Sound(p, s)
    BY <1>1, <2>1 DEF Sound, Reading, BothWritten
  <2>4. QED BY <1>1, <1>2, <1>6, <2>1, <2>2, <2>3, RecordStep DEF RetireOld
<1>7. CASE PurgeSame(b)
  <2> DEFINE p == [q EXCEPT !.pc = "commit", !.embeddings = embeddings.build,
                            !.gone = {x.build : x \in {y \in metadata : y.hash = q.schemes}}]
  <2>1. {x.build : x \in {y \in metadata : y.hash = q.schemes}} \subseteq 1..MaxBuilds
    BY <1>3
  <2>2. p \in Builder /\ p.pc = "commit" /\ p.schemes = q.schemes /\ q.pc = "purge"
    BY <1>1, <1>3, <1>7, <2>1 DEF Builder, PurgeSame, Builds
  <2>3. builders' = [builders EXCEPT ![b] = p]
    BY <1>7 DEF PurgeSame, Building
  <2> HIDE DEF p
  <2>4. Sound(p, s)
    BY <1>1, <2>2 DEF Sound, Reading, BothWritten
  <2>5. QED BY <1>1, <1>2, <1>7, <2>2, <2>3, <2>4, RecordStep DEF PurgeSame
<1>8. CASE BuildFails(b)
  <2>1. Sound(NoBuild, NoSearch)
    BY <1>1 DEF Sound, Reading, BothWritten
  <2>2. QED BY <1>1, <1>8, <2>1, RecordStep DEF BuildFails, Building
<1>9. QED BY <1>4, <1>5, <1>6, <1>7, <1>8

\* A written file: no other search calls the files its own any more.
LEMMA FileStep ==
    ASSUME IndexInv, NEW b \in Builders, WriteVectors(b) \/ WriteIds(b)
    PROVE  IndexInv' /\ InUse' = InUse
<1> DEFINE q == builders[b]
           s == searches[b]
           p == [q EXCEPT !.pc = IF q.pc = "vectors" THEN "ids" ELSE "mark"]
           own == IF q.pc = "vectors" THEN s.pc # "off" ELSE s.own
<1>1. /\ q \in Builder /\ s \in Search /\ Sound(q, s) /\ q.schemes \in SUBSET Indexable
      /\ q.pc \in {"vectors", "ids"} /\ own \in BOOLEAN
  BY RecordTypes DEF WriteVectors, WriteIds, Builds, Builder, Search
<1>2. /\ p \in Builder /\ p.schemes = q.schemes
      /\ p.pc = IF q.pc = "vectors" THEN "ids" ELSE "mark"
  BY <1>1 DEF Builder
<1>3. /\ builders' = [builders EXCEPT ![b] = p] /\ Wrote(b, own)
      /\ UNCHANGED <<active, metadata, embeddings>>
  BY DEF WriteVectors, WriteIds, Builds, Building
<1>4. /\ vectorFile' = IF q.pc = "vectors" THEN q.schemes ELSE vectorFile
      /\ idsFile' = IF q.pc = "ids" THEN q.schemes ELSE idsFile
  BY DEF WriteVectors, WriteIds, Builds, IdsOf
<1> HIDE DEF p, own
<1>5. ASSUME NEW x \in Builders
      PROVE  /\ searches'[x] \in Search /\ searches'[x].pc = searches[x].pc
             /\ searches'[x].own = IF x = b THEN own ELSE FALSE
             /\ builders'[x] = IF x = b THEN p ELSE builders[x]
  BY <1>1, <1>3, RecordTypes DEF Wrote, Search, IndexInv, IndexTypeOK
<1>6. q.schemes # NoFile
  BY <1>1, IndexAssumption
<1>7. IndexTypeOK'
  <2>1. searches' \in [Builders -> Search]
    BY <1>3, <1>5 DEF Wrote
  <2>2. IsFile(vectorFile)' /\ IsFile(idsFile)'
    BY <1>1, <1>4 DEF IndexInv, IndexTypeOK, IsFile
  <2>3. QED BY <1>2, <1>3, <2>1, <2>2 DEF IndexInv, IndexTypeOK
<1>8. InUse' = InUse /\ FilesInUse'
  BY <1>3, <1>4, <1>6 DEF IndexInv, FilesInUse, InUse
<1>9. ASSUME NEW x \in Builders PROVE Sound(builders[x], searches[x])'
  <2>1. Sound(builders[x], searches[x])
    BY DEF IndexInv
  <2>2. CASE x # b
    BY <1>4, <1>5, <1>6, <2>1, <2>2 DEF Sound
  <2>3. CASE x = b
    BY <1>1, <1>2, <1>4, <1>5, <1>6, <2>3 DEF Sound, Reading, BothWritten, own
  <2>4. QED BY <2>2, <2>3
<1>10. QED BY <1>7, <1>8, <1>9 DEF IndexInv

\* The commit: the row inserted is in use, and both files are there.
LEMMA CommitStep ==
    ASSUME IndexInv, NEW b \in Builders, CommitIndex(b)
    PROVE  IndexInv' /\ InUse' # {} /\ vectorFile' # NoFile /\ idsFile' # NoFile
<1> DEFINE q == builders[b]
           s == searches[b]
           n == embeddings.build + 1
           new == [build |-> n, hash |-> q.schemes, is_active |-> TRUE]
           pc == CASE s.pc = "first" -> "ids" [] s.pc = "again" -> "look" [] s.pc = "off" -> s.pc
           t == [s EXCEPT !.pc = pc, !.rebuilt = s.pc = "first"]
<1>1. q \in Builder /\ s \in Search /\ Sound(q, s) /\ q.pc = "commit" /\ s.pc \in {"off", "first", "again"}
  BY RecordTypes DEF CommitIndex, Builds, Sound, Reading, Search
<1>2. t \in Search /\ t.own = s.own /\ t.pc \in {"off", "ids", "look"}
  BY <1>1 DEF Search
<1>3. n \in 1..MaxBuilds /\ q.schemes \in SUBSET Indexable
  BY <1>1, IndexAssumption DEF IndexInv, IndexTypeOK, Embeddings, CommitIndex, Builder
<1>4. new \in Metadata /\ new.is_active = TRUE /\ [build |-> n, of |-> q.schemes] \in Embeddings
  BY <1>3 DEF Metadata, Embeddings
<1>5. metadata' = {[x EXCEPT !.is_active = x.is_active /\ x.build \notin q.seen] :
                     x \in {y \in metadata : y.build \notin q.gone}} \cup {new}
  BY DEF CommitIndex, InsertedRow
<1>6. /\ embeddings' = [build |-> n, of |-> q.schemes] /\ builders' = [builders EXCEPT ![b] = NoBuild]
      /\ searches' = [searches EXCEPT ![b] = t] /\ UNCHANGED <<active, vectorFile, idsFile>>
  <2>1. /\ embeddings' = [build |-> n, of |-> q.schemes] /\ builders' = [builders EXCEPT ![b] = NoBuild]
        /\ UNCHANGED <<active, vectorFile, idsFile>>
    BY DEF CommitIndex, Building
  <2>2. searches' = [searches EXCEPT ![b].pc = pc, ![b].rebuilt = s.pc = "first"]
    BY ZenonT(30) DEF CommitIndex
  <2>3. searches \in [Builders -> Search]
    BY DEF IndexInv, IndexTypeOK
  <2> HIDE DEF pc
  <2>4. searches' = [searches EXCEPT ![b] = t]
    BY <2>2, <2>3 DEF t, Search
  <2>5. QED BY <2>1, <2>4
<1>7. vectorFile # NoFile /\ idsFile # NoFile
  BY <1>1 DEF Sound, BothWritten
<1> HIDE DEF t, new, n
<1>8. metadata' \subseteq Metadata /\ new \in InUse'
  <2>1. ASSUME NEW x \in metadata
        PROVE  [x EXCEPT !.is_active = x.is_active /\ x.build \notin q.seen] \in Metadata
    BY DEF IndexInv, IndexTypeOK, Metadata
  <2>2. metadata' \subseteq Metadata
    BY <1>4, <1>5, <2>1
  <2>3. QED BY <1>4, <1>5, <2>2 DEF InUse
<1>9. IndexTypeOK'
  BY <1>2, <1>4, <1>6, <1>8, RecordTypes DEF IndexInv, IndexTypeOK, IsFile
<1>10. ASSUME NEW x \in Builders PROVE Sound(builders[x], searches[x])'
  <2>1. builders'[x] = (IF x = b THEN NoBuild ELSE builders[x]) /\ searches'[x] = (IF x = b THEN t ELSE searches[x])
    BY <1>6 DEF IndexInv, IndexTypeOK
  <2>2. Sound(builders[x], searches[x])
    BY DEF IndexInv
  <2>3. CASE x # b
    BY <1>6, <2>1, <2>2, <2>3 DEF Sound
  <2>4. CASE x = b
    BY <1>1, <1>2, <1>6, <2>1, <2>4, RecordTypes DEF Sound, Reading, BothWritten
  <2>5. QED BY <2>3, <2>4
<1>11. QED BY <1>6, <1>7, <1>8, <1>9, <1>10 DEF IndexInv, FilesInUse

\* The steps of a search.
LEMMA SearchStep ==
    ASSUME IndexInv, NEW b \in Builders, SearchStart(b) \/ SearchContinues(b)
    PROVE  IndexInv' /\ InUse' = InUse
<1> DEFINE q == builders[b]
           s == searches[b]
<1>1. /\ q \in Builder /\ s \in Search /\ Sound(q, s)
      /\ NoBuild \in Builder /\ NewBuild \in Builder /\ NoSearch \in Search
      /\ NewBuild.pc = "vectors" /\ NoBuild.pc = "idle" /\ NoSearch.pc = "off" /\ ~NoSearch.own
  BY RecordTypes
<1>2. builders = [builders EXCEPT ![b] = q]
  BY DEF IndexInv, IndexTypeOK
<1>3. UNCHANGED <<active, vectorFile, idsFile, metadata, embeddings>>
  BY DEF SearchStart, SearchContinues, SearchLooks, SearchReadsIds, SearchAnswers, SearchMisfits, SearchFails
<1>4. ASSUME Searching(b, NoSearch), UNCHANGED builders PROVE IndexInv' /\ InUse' = InUse
  <2>1. Sound(q, NoSearch)
    BY <1>1 DEF Sound, Reading, BothWritten
  <2>2. QED BY <1>1, <1>2, <1>3, <1>4, <2>1, RecordStep DEF Searching
<1>5. CASE SearchStart(b)
  <2> DEFINE t == [NoSearch EXCEPT !.pc = "look"]
  <2>1. t \in Search /\ t.pc = "look" /\ ~t.own
    BY DEF Search, NoSearch
  <2>2. Sound(q, t)
    BY <1>1, <1>5, <2>1 DEF Sound, SearchStart, Builds, Reading, BothWritten
  <2>3. QED BY <1>1, <1>2, <1>5, <2>1, <2>2, RecordStep DEF SearchStart, Searching
<1>6. CASE SearchLooks(b)
  <2>1. s.pc = "look" /\ q.pc = "idle"
    BY <1>1, <1>6 DEF SearchLooks, Sound, Reading
  <2> DEFINE t == [s EXCEPT !.pc = "first"]
             u == [s EXCEPT !.pc = "ids"]
  <2>2. t \in Search /\ t.pc = "first" /\ u \in Search /\ u.pc = "ids" /\ u.own = s.own
    BY <1>1 DEF Search
  <2>3. CASE Searching(b, t) /\ Building(b, NewBuild)
    <3>1. Sound(NewBuild, t)
      BY <1>1, <2>2 DEF Sound, Reading, BothWritten
    <3>2. QED BY <1>1, <1>3, <2>2, <2>3, <3>1, RecordStep DEF Searching, Building
  <2>4. CASE Searching(b, u) /\ UNCHANGED builders
    <3>1. Sound(q, u)
      BY <1>1, <2>1, <2>2 DEF Sound, Reading, BothWritten
    <3>2. QED BY <1>1, <1>2, <1>3, <2>2, <2>4, <3>1, RecordStep DEF Searching
  <2>5. QED BY <1>6, <2>3, <2>4 DEF SearchLooks
<1>7. CASE SearchReadsIds(b)
  <2> DEFINE t == [s EXCEPT !.pc = "vectors", !.ids = idsFile]
  <2>1. s.pc = "ids" /\ q.pc = "idle" /\ UNCHANGED builders
    BY <1>1, <1>7 DEF SearchReadsIds, Sound, Reading
  <2>2. t \in Search /\ t.pc = "vectors" /\ t.own = s.own /\ t.ids = idsFile
    BY <1>1, <1>7 DEF Search, SearchReadsIds, IndexInv, IndexTypeOK, IsFile
  <2>3. CASE Searching(b, t)
    <3>1. Sound(q, t)
      BY <1>1, <2>1, <2>2 DEF Sound, Reading, BothWritten
    <3>2. QED BY <1>1, <1>2, <1>3, <2>1, <2>2, <2>3, <3>1, RecordStep DEF Searching
  <2>4. QED BY <1>4, <1>7, <2>1, <2>3 DEF SearchReadsIds
<1>8. CASE SearchMisfits(b)
  <2> DEFINE t == [NoSearch EXCEPT !.pc = "again", !.own = s.own]
  <2>1. t \in Search /\ t.pc = "again"
    BY <1>1 DEF Search, NoSearch
  <2>2. CASE Searching(b, t) /\ Building(b, NewBuild)
    <3>1. Sound(NewBuild, t)
      BY <1>1, <2>1 DEF Sound, Reading, BothWritten
    <3>2. QED BY <1>1, <1>3, <2>1, <2>2, <3>1, RecordStep DEF Searching, Building
  <2>3. QED BY <1>4, <1>8, <2>2 DEF SearchMisfits
<1>9. CASE SearchAnswers(b) \/ SearchFails(b)
  BY <1>4, <1>9 DEF SearchAnswers, SearchFails
<1>10. QED BY <1>5, <1>6, <1>7, <1>8, <1>9 DEF SearchContinues

\* One step: the invariant, and an index in use stays.
LEMMA IndexStep ==
    ASSUME IndexInv, [IndexNext]_indexVars
    PROVE  IndexInv' /\ (InUse # {} => InUse' # {} /\ vectorFile' # NoFile /\ idsFile' # NoFile)
<1>1. CASE \E s \in Indexable : CatalogueChanges(s)
  <2>1. PICK s \in Indexable : CatalogueChanges(s)
    BY <1>1
  <2>2. active' \subseteq Indexable
    BY <2>1 DEF CatalogueChanges, IndexInv, IndexTypeOK
  <2>3. \A b \in Builders : Sound(builders[b], searches[b])'
    BY <2>1 DEF CatalogueChanges, IndexInv, Sound
  <2>4. QED BY <2>1, <2>2, <2>3 DEF CatalogueChanges, IndexInv, IndexTypeOK, IsFile, FilesInUse, InUse
<1>2. ASSUME IndexInv', InUse' = InUse
      PROVE  InUse # {} => InUse' # {} /\ vectorFile' # NoFile /\ idsFile' # NoFile
  BY <1>2 DEF IndexInv, FilesInUse
<1>3. CASE \E b \in Builders : BuildStart(b) \/ BuildContinues(b) \/ SearchStart(b) \/ SearchContinues(b)
  <2>1. PICK b \in Builders : BuildStart(b) \/ BuildContinues(b) \/ SearchStart(b) \/ SearchContinues(b)
    BY <1>3
  <2>2. CASE BuildStart(b) \/ MarkOld(b) \/ RetireOld(b) \/ PurgeSame(b) \/ BuildFails(b)
    BY <1>2, <2>2, BuildStep
  <2>3. CASE WriteVectors(b) \/ WriteIds(b)
    BY <1>2, <2>3, FileStep
  <2>4. CASE CommitIndex(b)
    BY <2>4, CommitStep
  <2>5. CASE SearchStart(b) \/ SearchContinues(b)
    BY <1>2, <2>5, SearchStep
  <2>6. QED BY <2>1, <2>2, <2>3, <2>4, <2>5 DEF BuildContinues
<1>4. CASE UNCHANGED indexVars
  <2>1. \A b \in Builders : Sound(builders[b], searches[b])'
    BY <1>4 DEF indexVars, IndexInv, Sound
  <2>2. QED BY <1>4, <2>1 DEF indexVars, IndexInv, IndexTypeOK, IsFile, FilesInUse, InUse
<1>5. QED BY <1>1, <1>3, <1>4 DEF IndexNext

\* The files, rows and handlers keep their types, and what a rebuild or search has seen of
\* the files stays true of them (services/search/faiss_index.py:80-185).
THEOREM IndexInvariant == IndexSpec => []IndexInv
<1>1. IndexInit => IndexInv
  <2> SUFFICES ASSUME IndexInit PROVE IndexInv
    OBVIOUS
  <2>1. NoBuild \in Builder /\ NoSearch \in Search
    BY IndexAssumption DEF NoBuild, NoSearch, Builder, Search
  <2>2. IndexTypeOK
    BY <2>1, IndexAssumption DEF IndexInit, IndexTypeOK, IsFile, Embeddings
  <2>3. FilesInUse
    BY DEF IndexInit, FilesInUse, InUse
  <2>4. \A b \in Builders : Sound(builders[b], searches[b])
    BY DEF IndexInit, Sound, NoBuild, NoSearch, Reading, BothWritten
  <2>5. QED BY <2>2, <2>3, <2>4 DEF IndexInv
<1>2. IndexInv /\ [IndexNext]_indexVars => IndexInv'
  BY IndexStep
<1>3. QED BY <1>1, <1>2, PTL DEF IndexSpec

\* As long as nobody else writes a file, a search's own rebuild leaves it vectors and ids
\* that belong together (services/search/faiss_index.py:80-102, 148-185).
THEOREM OwnRebuildGivesFittingFiles == IndexSpec => []OwnRebuildFits
<1>1. IndexInv => OwnRebuildFits
  BY DEF IndexInv, Sound, OwnRebuildFits, Reading
<1>2. QED BY <1>1, IndexInvariant, PTL

\* Once an index is in use, there always is one, with both its files
\* (services/search/faiss_index.py:80-145).
THEOREM IndexNeverLost == IndexSpec => StaysSearchable
<1>1. IndexInv /\ [IndexNext]_indexVars =>
        [InUse # {} => InUse' # {} /\ vectorFile' # NoFile /\ idsFile' # NoFile]_indexVars
  BY IndexStep
<1>2. QED BY <1>1, IndexInvariant, PTL DEF IndexSpec, StaysSearchable
=============================================================================
