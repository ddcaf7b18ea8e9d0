---------------------------- MODULE SearchIndex ----------------------------
(***************************************************************************)
(* The vector index of an organisation (services/search/faiss_index.py):   *)
(* two files, the rows of faiss_indexes that tell where they are, and the  *)
(* rows of scheme_embeddings.  Searches, an administrator and the command  *)
(* line rebuild it, in several processes.                                  *)
(*                                                                         *)
(* A rebuild is one step per file and per statement that other             *)
(* transactions can come between; its last statements and the commit are   *)
(* one step, at which the unique keys decide.  The content hash of an      *)
(* index is the set of schemes it was built from.                          *)
(*                                                                         *)
(* A search reads the two files one after the other and the vectors it     *)
(* finds by their place in the list of ids.  A handler is a rebuild, or a  *)
(* search that may go through rebuilds in its own session.                 *)
(*                                                                         *)
(* Left out: vectors and scores, what a search lists, its search in the    *)
(* texts when all else fails (it only reads), and the texts of schemes,    *)
(* which change the hash as their set does.                                *)
(***************************************************************************)
EXTENDS Naturals, FiniteSets

CONSTANTS
    Indexable,      \* schemes
    Builders,       \* rebuilds and searches running at the same time
    NoFile,         \* a file that is not there
    MaxBuilds       \* bound: rows ever inserted

ASSUME IndexAssumption == (\A file \in SUBSET Indexable : file # NoFile) /\ MaxBuilds \in Nat

VARIABLES
    active,         \* the schemes that are active now
    vectorFile,     \* the schemes of the .faiss file
    idsFile,        \* the schemes of the .ids.json file
    metadata,       \* table faiss_indexes
    embeddings,     \* table scheme_embeddings: the build it is of, and its schemes
    builders,       \* the rebuilds in progress
    searches        \* the searches in progress

indexVars == <<active, vectorFile, idsFile, metadata, embeddings, builders, searches>>

IsFile(file) == file = NoFile \/ file \subseteq Indexable
Metadata == [build: 1..MaxBuilds, hash: SUBSET Indexable, is_active: BOOLEAN]
Embeddings == [build: 0..MaxBuilds, of: SUBSET Indexable]

Builder == [pc: {"idle", "vectors", "ids", "mark", "retire", "purge", "commit"},
            schemes: SUBSET Indexable, seen: SUBSET (1..MaxBuilds), gone: SUBSET (1..MaxBuilds),
            embeddings: 0..MaxBuilds]

\* first: a rebuild before reading; again: one after reading failed, with the search to
\* begin anew.  own, auxiliary: nobody else has written a file since this search did.
Search == [pc: {"off", "look", "first", "again", "ids", "vectors"}, rebuilt: BOOLEAN,
           ids: SUBSET Indexable, own: BOOLEAN]

NoSearch == [pc |-> "off", rebuilt |-> FALSE, ids |-> {}, own |-> FALSE]

NoBuild == [pc |-> "idle", schemes |-> {}, seen |-> {}, gone |-> {}, embeddings |-> 0]

IndexTypeOK ==
    /\ active \subseteq Indexable
    /\ IsFile(vectorFile) /\ IsFile(idsFile)
    /\ metadata \subseteq Metadata
    /\ embeddings \in Embeddings
    /\ builders \in [Builders -> Builder]
    /\ searches \in [Builders -> Search]

IndexInit ==
    /\ active \in SUBSET Indexable
    /\ vectorFile = NoFile /\ idsFile = NoFile
    /\ metadata = {}
    /\ embeddings = [build |-> 0, of |-> {}]
    /\ builders = [b \in Builders |-> NoBuild]
    /\ searches = [b \in Builders |-> NoSearch]

InUse == {x \in metadata : x.is_active}

-----------------------------------------------------------------------------

\* The catalogue publishes or archives a scheme; no rebuild follows.
CatalogueChanges(s) ==
    /\ active' = IF s \in active THEN active \ {s} ELSE active \cup {s}
    /\ UNCHANGED <<vectorFile, idsFile, metadata, embeddings, builders, searches>>

Builds(b, pc) == builders[b].pc = pc
Building(b, changed) == builders' = [builders EXCEPT ![b] = changed]

NewBuild == [NoBuild EXCEPT !.pc = "vectors", !.schemes = active]

\* rebuild_faiss_index for an administrator or the command line.
BuildStart(b) ==
    /\ Builds(b, "idle") /\ searches[b].pc = "off"
    /\ Building(b, NewBuild)
    /\ UNCHANGED <<active, vectorFile, idsFile, metadata, embeddings, searches>>

\* What the write of a file does to the searches that rebuilt before.
Wrote(b, own) ==
    searches' = [x \in Builders |-> [searches[x] EXCEPT !.own = IF x = b THEN own ELSE FALSE]]

WriteVectors(b) ==
    /\ Builds(b, "vectors")
    /\ vectorFile' = builders[b].schemes
    /\ Building(b, [builders[b] EXCEPT !.pc = "ids"])
    /\ Wrote(b, searches[b].pc # "off")
    /\ UNCHANGED <<active, idsFile, metadata, embeddings>>

\* Faulty variant of IdsOf: the list is read again, and may have changed.
IdsNow(q) == active

\* The schemes the vectors were made of.
IdsOf(q) == q.schemes

WriteIds(b) ==
    /\ Builds(b, "ids")
    /\ idsFile' = IdsOf(builders[b])
    /\ Building(b, [builders[b] EXCEPT !.pc = "mark"])
    /\ Wrote(b, searches[b].own)
    /\ UNCHANGED <<active, vectorFile, metadata, embeddings>>

\* UPDATE ... is_active = false: the rows it will change are the ones there now.
MarkOld(b) ==
    /\ Builds(b, "mark")
    /\ Building(b, [builders[b] EXCEPT !.pc = "retire", !.seen = {x.build : x \in metadata}])
    /\ UNCHANGED <<active, vectorFile, idsFile, metadata, embeddings, searches>>

\* The rows another rebuild has changed are locked until it commits.
Locked(b) == UNION {builders[x].seen : x \in {y \in Builders \ {b} : builders[y].pc \in {"purge", "commit"}}}

RetireOld(b) ==
    /\ Builds(b, "retire")
    /\ builders[b].seen \cap Locked(b) = {}
    /\ Building(b, [builders[b] EXCEPT !.pc = "purge"])
    /\ UNCHANGED <<active, vectorFile, idsFile, metadata, embeddings, searches>>

\* DELETE of the rows with the same hash, and of the embeddings.
PurgeSame(b) ==
    LET q == builders[b] IN
    /\ Builds(b, "purge")
    /\ Building(b, [q EXCEPT !.pc = "commit", !.embeddings = embeddings.build,
                             !.gone = {x.build : x \in {y \in metadata : y.hash = q.schemes}}])
    /\ UNCHANGED <<active, vectorFile, idsFile, metadata, embeddings, searches>>

\* The unique keys of faiss_indexes and scheme_embeddings.
IndexFits(b) ==
    LET q == builders[b] IN
    /\ \A x \in metadata : x.hash = q.schemes => x.build \in q.gone
    /\ embeddings.build = q.embeddings \/ embeddings.of \cap q.schemes = {}

\* Faulty variant of InsertedRow: a row of the same content is kept, and stays retired.
KeptRow(b, n) == IF builders[b].gone # {} THEN {} ELSE {[build |-> n, hash |-> builders[b].schemes, is_active |-> TRUE]}

InsertedRow(b, n) == {[build |-> n, hash |-> builders[b].schemes, is_active |-> TRUE]}

CommitIndex(b) ==
    LET q == builders[b]
        n == embeddings.build + 1
    IN  /\ Builds(b, "commit") /\ n <= MaxBuilds
        /\ IndexFits(b)
        /\ metadata' = {[x EXCEPT !.is_active = @ /\ x.build \notin q.seen] :
                           x \in {y \in metadata : y.build \notin q.gone}} \cup InsertedRow(b, n)
        /\ embeddings' = [build |-> n, of |-> q.schemes]
        /\ Building(b, NoBuild)
        /\ searches' = [searches EXCEPT ![b].pc = CASE @ = "first" -> "ids" [] @ = "again" -> "look" [] @ = "off" -> @,
                                        ![b].rebuilt = searches[b].pc = "first"]
        /\ UNCHANGED <<active, vectorFile, idsFile>>

\* A refused INSERT, a provider's error, a cancelled request or a crash: the files stay.
\* A search goes on in the texts, or with an error.
BuildFails(b) ==
    /\ ~Builds(b, "idle")
    /\ Building(b, NoBuild)
    /\ searches' = [searches EXCEPT ![b] = NoSearch]
    /\ UNCHANGED <<active, vectorFile, idsFile, metadata, embeddings>>

BuildContinues(b) ==
    WriteVectors(b) \/ WriteIds(b) \/ MarkOld(b) \/ RetireOld(b) \/ PurgeSame(b) \/ CommitIndex(b) \/ BuildFails(b)

-----------------------------------------------------------------------------
(* search_schemes.                                                           *)

Searching(b, search) == searches' = [searches EXCEPT ![b] = search]

SearchStart(b) ==
    /\ Builds(b, "idle") /\ searches[b].pc = "off"
    /\ Searching(b, [NoSearch EXCEPT !.pc = "look"])
    /\ UNCHANGED <<active, vectorFile, idsFile, metadata, embeddings, builders>>

\* Without a row in use, or the file it names, the index is rebuilt first.
SearchLooks(b) ==
    LET q == searches[b] IN
    /\ q.pc = "look"
    /\ IF InUse = {} \/ vectorFile = NoFile
       THEN Searching(b, [q EXCEPT !.pc = "first"]) /\ Building(b, NewBuild)
       ELSE Searching(b, [q EXCEPT !.pc = "ids"]) /\ UNCHANGED builders
    /\ UNCHANGED <<active, vectorFile, idsFile, metadata, embeddings>>

\* An empty list is an answer: nothing is found.
SearchReadsIds(b) ==
    /\ searches[b].pc = "ids" /\ idsFile # NoFile
    /\ Searching(b, IF idsFile = {} THEN NoSearch ELSE [searches[b] EXCEPT !.pc = "vectors", !.ids = idsFile])
    /\ UNCHANGED <<active, vectorFile, idsFile, metadata, embeddings, builders>>

\* An index of no schemes has vectors of another length than the query's.
SearchAnswers(b) ==
    /\ searches[b].pc = "vectors" /\ vectorFile # {}
    /\ Searching(b, NoSearch)
    /\ UNCHANGED <<active, vectorFile, idsFile, metadata, embeddings, builders>>

\* No list, vectors that do not belong to it (a place past its end may come up), or the
\* provider's error.  After a rebuild the search goes on in the texts; without one the
\* index is rebuilt and the search begins anew.
SearchMisfits(b) ==
    LET q == searches[b] IN
    /\ (q.pc = "ids" /\ idsFile = NoFile) \/ q.pc = "vectors"
    /\ IF q.rebuilt THEN Searching(b, NoSearch) /\ UNCHANGED builders
       ELSE Searching(b, [NoSearch EXCEPT !.pc = "again", !.own = q.own]) /\ Building(b, NewBuild)
    /\ UNCHANGED <<active, vectorFile, idsFile, metadata, embeddings>>

\* A cancelled request or a crash.
SearchFails(b) ==
    /\ searches[b].pc # "off" /\ Builds(b, "idle")
    /\ Searching(b, NoSearch)
    /\ UNCHANGED <<active, vectorFile, idsFile, metadata, embeddings, builders>>

SearchContinues(b) ==
    SearchLooks(b) \/ SearchReadsIds(b) \/ SearchAnswers(b) \/ SearchMisfits(b) \/ SearchFails(b)

IndexNext ==
    \/ \E s \in Indexable : CatalogueChanges(s)
    \/ \E b \in Builders : BuildStart(b) \/ BuildContinues(b) \/ SearchStart(b) \/ SearchContinues(b)

IndexSpec == IndexInit /\ [][IndexNext]_indexVars

-----------------------------------------------------------------------------
(* Properties. *)

\* Rebuilds that overlap, fail or crash never leave an organisation without its index:
\* once there is a row in use, there always is, and both files are there
\* (services/search/faiss_index.py:80-145).
StaysSearchable ==
    [][InUse # {} => InUse' # {} /\ vectorFile' # NoFile /\ idsFile' # NoFile]_indexVars

\* A rebuild leaves a search two files that belong together, whatever the catalogue does
\* meanwhile: as long as nobody else writes one of them, every place the vectors name is
\* the scheme they were made of (services/search/faiss_index.py:80-102, 148-185).
OwnRebuildFits ==
    \A b \in Builders :
        LET q == searches[b] IN
        /\ q.own /\ q.pc \in {"look", "ids", "vectors"} => idsFile = vectorFile
        /\ q.own /\ q.pc = "vectors" => q.ids = vectorFile
=============================================================================
