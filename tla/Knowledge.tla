------------------------------ MODULE Knowledge -----------------------------
(***************************************************************************)
(* A knowledge base (modules/knowledge): ingests insert the chunks of      *)
(* files and write new statistics, whose time stamp is the revision of the *)
(* base; each worker keeps an index of the chunks for one revision and the *)
(* results of searches, Redis keeps results for all workers. One query is  *)
(* followed; the score of a chunk for it is fixed. reset_kb has no caller. *)
(***************************************************************************)
EXTENDS Naturals, FiniteSets

CONSTANTS
    Chunk,       \* chunks of the files on disk
    Ingest,      \* run_knowledge_ingest
    Search,      \* searches for the query
    Worker,
    Score,       \* of each chunk for the query
    Floor,       \* KNOWLEDGE_BM25_MIN_SCORE
    FetchK,      \* results that are ranked and cached
    TopK,        \* results that are given
    NoResult

KnowledgeAssumption ==
    /\ Score \in [Chunk -> Nat] /\ \A c, d \in Chunk : c # d => Score[c] # Score[d]
    /\ {FetchK, TopK} \subseteq Nat \ {0} /\ TopK <= FetchK /\ IsFiniteSet(Ingest)

VARIABLES
    chunks,    \* committed chunks of the base
    revision,  \* committed revision: 0, then one per ingest that commits
    stamp,     \* the revision given last
    ingest,    \* ingests and what they have inserted
    index,     \* each worker's index: a revision and the chunks read for it
    local,     \* each worker's results, by revision
    shared,    \* results in Redis, by revision
    search     \* searches

knowledgeVars == <<chunks, revision, stamp, ingest, index, local, shared, search>>

Revision == 0..Cardinality(Ingest)
Results  == [Revision -> (SUBSET Chunk) \union {NoResult}]
NoResults == [r \in Revision |-> NoResult]

TypeOK ==
    /\ chunks \subseteq Chunk /\ {revision, stamp} \subseteq Revision
    /\ ingest \in [Ingest -> [pc : {"new", "inserted", "counted", "done"}, on : Worker,
                              files : SUBSET Chunk, rows : SUBSET Chunk, revision : Revision]]
    /\ index \in [Worker -> [revision : Revision, chunks : (SUBSET Chunk) \union {NoResult}]]
    /\ local \in [Worker -> Results] /\ shared \in Results
    /\ search \in [Search -> [pc : {"new", "base", "index", "computed", "done"}, on : Worker, revision : Revision,
                              chunks : SUBSET Chunk, found : (SUBSET Chunk) \union {NoResult},
                              before : SUBSET Chunk, after : SUBSET Chunk]]

Init ==
    /\ chunks = {} /\ revision = 0 /\ stamp = 0
    /\ ingest \in [Ingest -> [pc : {"new"}, on : Worker, files : SUBSET Chunk \ {{}}, rows : {{}}, revision : {0}]]
    /\ index = [w \in Worker |-> [revision |-> 0, chunks |-> NoResult]]
    /\ local = [w \in Worker |-> NoResults] /\ shared = NoResults
    /\ search \in [Search -> [pc : {"new"}, on : Worker, revision : {0}, chunks : {{}}, found : {NoResult},
                              before : {{}}, after : {{}}]]

Best(set, count) == {c \in set : Cardinality({d \in set : Score[d] > Score[c]}) < count}
\* Bm25Index.search: the best chunks that match.
Ranked(set) == Best({c \in set : Score[c] > 0}, FetchK)
\* KnowledgeService.search: the first that reach the floor.
Given(ranked) == Best({c \in ranked : Score[c] >= Floor}, TopK)

----------------------------------------------------------------------------
(* Ingests. Chunks that another one has inserted and not committed make it *)
(* wait (ON CONFLICT DO NOTHING on the hash of the content).               *)

Running == {"inserted", "counted"}
Insert(j) ==
    /\ ingest[j].pc = "new"
    /\ \A o \in Ingest : ingest[o].pc \in Running => ingest[o].rows \cap ingest[j].files = {}
    /\ ingest' = [ingest EXCEPT ![j].pc = "inserted", ![j].rows = ingest[j].files \ chunks]
    /\ UNCHANGED <<chunks, revision, stamp, index, local, shared, search>>

\* New statistics over what it sees, and its worker forgets the base.
Recompute(j) ==
    /\ ingest[j].pc = "inserted"
    /\ stamp' = stamp + 1
    /\ ingest' = [ingest EXCEPT ![j].pc = "counted", ![j].revision = stamp']
    /\ index' = [index EXCEPT ![ingest[j].on].chunks = NoResult]
    /\ local' = [local EXCEPT ![ingest[j].on] = NoResults]
    /\ UNCHANGED <<chunks, revision, shared, search>>
\* Redis is scanned, or does not answer.
InvalidateRedis(j) ==
    /\ ingest[j].pc = "counted"
    /\ shared' = NoResults
    /\ UNCHANGED <<chunks, revision, stamp, ingest, index, local, search>>
Commit(j) ==
    /\ ingest[j].pc = "counted"
    /\ chunks' = chunks \union ingest[j].rows
    /\ revision' = ingest[j].revision
    /\ ingest' = [ingest EXCEPT ![j].pc = "done"]
    /\ UNCHANGED <<stamp, index, local, shared, search>>
\* The transaction fails, or its worker does.
Abort(j) ==
    /\ ingest[j].pc \in Running
    /\ ingest' = [ingest EXCEPT ![j].pc = "done", ![j].rows = {}]
    /\ UNCHANGED <<chunks, revision, stamp, index, local, shared, search>>

----------------------------------------------------------------------------
(* Searches: the row of the base, its index, the caches.                   *)

ReadBase(s) ==
    /\ search[s].pc = "new"
    /\ search' = [search EXCEPT ![s].pc = "base", ![s].revision = revision, ![s].before = chunks]
    /\ UNCHANGED <<chunks, revision, stamp, ingest, index, local, shared>>

\* Mutant: the index is used whatever its revision.
IsLoadedOnce(w, r) == index[w].chunks # NoResult
IsLoaded(w, r) == index[w].chunks # NoResult /\ index[w].revision = r
\* An index of another revision is read anew and the worker's results go.
LoadIndex(s) ==
    LET w == search[s].on
        r == search[s].revision
        read == IF IsLoaded(w, r) THEN index[w].chunks ELSE chunks
        results == IF IsLoaded(w, r) THEN local[w] ELSE NoResults
    IN  /\ search[s].pc = "base"
        /\ index' = [index EXCEPT ![w] = [revision |-> r, chunks |-> read]]
        /\ local' = [local EXCEPT ![w] = results]
        /\ search' = [search EXCEPT ![s].chunks = read,
                                    ![s].found = results[r],
                                    ![s].after = chunks,
                                    ![s].pc = IF results[r] = NoResult THEN "index" ELSE "done"]
        /\ UNCHANGED <<chunks, revision, stamp, ingest, shared>>

Remember(w, r, found) == local' = [local EXCEPT ![w][r] = found]
\* What Redis has, if it answers, else what the index gives.
UseRedis(s) ==
    LET r == search[s].revision
    IN  /\ search[s].pc = "index" /\ shared[r] # NoResult
        /\ Remember(search[s].on, r, shared[r])
        /\ search' = [search EXCEPT ![s].pc = "done", ![s].found = shared[r], ![s].after = chunks]
        /\ UNCHANGED <<chunks, revision, stamp, ingest, index, shared>>
Compute(s) ==
    /\ search[s].pc = "index"
    /\ Remember(search[s].on, search[s].revision, Ranked(search[s].chunks))
    /\ search' = [search EXCEPT ![s].pc = "computed", ![s].found = Ranked(search[s].chunks)]
    /\ UNCHANGED <<chunks, revision, stamp, ingest, index, shared>>
Store(s, stored) ==
    /\ search[s].pc = "computed"
    /\ shared' = IF stored THEN [shared EXCEPT ![search[s].revision] = search[s].found] ELSE shared
    /\ search' = [search EXCEPT ![s].pc = "done", ![s].after = chunks]
    /\ UNCHANGED <<chunks, revision, stamp, ingest, index, local>>

\* Results have a time to live and the least used go first.
Forget(w) ==
    /\ local[w] # NoResults
    /\ local' = [local EXCEPT ![w] = NoResults]
    /\ UNCHANGED <<chunks, revision, stamp, ingest, index, shared, search>>
Restart(w) ==
    /\ index[w].chunks # NoResult
    /\ \A s \in Search : search[s].on = w => search[s].pc \in {"new", "done"}
    /\ \A j \in Ingest : ingest[j].on = w => ingest[j].pc \notin Running
    /\ index' = [index EXCEPT ![w].chunks = NoResult]
    /\ local' = [local EXCEPT ![w] = NoResults]
    /\ UNCHANGED <<chunks, revision, stamp, ingest, shared, search>>

Next ==
    \/ \E j \in Ingest : Insert(j) \/ Recompute(j) \/ InvalidateRedis(j) \/ Commit(j) \/ Abort(j)
    \/ \E s \in Search : ReadBase(s) \/ LoadIndex(s) \/ UseRedis(s) \/ Compute(s) \/ (\E b \in BOOLEAN : Store(s, b))
    \/ \E w \in Worker : Forget(w) \/ Restart(w)

Spec == Init /\ [][Next]_knowledgeVars

----------------------------------------------------------------------------
(* Properties.                                                             *)

\* What a search gives is what the base held at some point between its start
\* and its end, whatever ingests commit meanwhile, though caches are cleared
\* before the commit and not on other workers: the revision in their keys sees
\* to it (load_index, search_indexed).
FoundIsCurrent ==
    \A s \in Search : search[s].pc = "done" =>
        \E set \in SUBSET search[s].after :
            search[s].before \subseteq set /\ Given(search[s].found) = Given(Ranked(set))
=============================================================================
