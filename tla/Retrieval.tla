------------------------------ MODULE Retrieval ------------------------------
(***************************************************************************)
(* Questions about a teacher's documents (modules/rag/application), asked  *)
(* by the teacher or, within a classroom, by the student: the policy, the  *)
(* retrieve cache, the hybrid search with its fusion and threshold, the    *)
(* answer cache and the language model, against the indexing and deletion  *)
(* of documents, each in a transaction that invalidates the owner's        *)
(* retrieve cache before it commits. A document has one chunk at a time,   *)
(* numbered by the index job that wrote it, and every chunk matches.       *)
(***************************************************************************)
EXTENDS Integers, Sequences, FiniteSets

CONSTANTS
    Doc, Request,
    MaxGeneration,  \* index jobs of a document
    TopK,
    Threshold,      \* RAG_SCORE_THRESHOLD, in thousandths
    Asked           \* who asks, and whether within the classroom

VARIABLES
    chunk,      \* the committed chunk of each document, 0: none
    writer,     \* what a transaction is doing to each document
    grant,      \* is the classroom grant there?
    found,      \* retrieve cache by key (user, with project): None or a set
    answers,    \* answer cache by the same key: the chunks it cites
    req,
    raced       \* chunks a retrieval may have cached after their invalidation,
                \* or a cached list of the owner outlived an invalidation with

retrievalVars == <<chunk, writer, grant, found, answers, req, raced>>

Nothing == {<<"absent">>}       \* a key that is not in the cache
User    == {"teacher", "student"}
Key     == User \X BOOLEAN      \* the second: within the classroom
RetrievalAssumption == MaxGeneration \in Nat \ {0} /\ Asked \subseteq Key
Chunk   == Doc \X (1..MaxGeneration)
Live    == {<<d, chunk[d]>> : d \in {e \in Doc : chunk[e] > 0}}
Past    == {c \in Chunk : chunk[c[1]] = 0 \/ c[2] < chunk[c[1]]}

Init ==
    /\ chunk = [d \in Doc |-> 1] /\ writer = [d \in Doc |-> "none"] /\ grant = TRUE
    /\ found = [k \in Key |-> Nothing] /\ answers = [k \in Key |-> Nothing]
    /\ req = [r \in Request |-> [pc |-> "new", key |-> <<"teacher", FALSE>>, chunks |-> {}, matched |-> {}, cites |-> {}, gone |-> {}, granted |-> TRUE]]
    /\ raced = {}

-----------------------------------------------------------------------------
(* The ranking of what the two searches return (sequences of chunks).      *)

\* 1 / (_RRF_K + rank), in thousandths, as far as the threshold can tell.
RrfScore(ranked, c) ==
    IF \E i \in DOMAIN ranked : ranked[i] = c
    THEN 1000 \div (60 + (CHOOSE i \in DOMAIN ranked : ranked[i] = c)) ELSE 0
Listed(ranked) == {ranked[i] : i \in DOMAIN ranked}
Fused(vector, lexical, c) == RrfScore(vector, c) + RrfScore(lexical, c)
\* rerank_chunks orders by fused score and overlap with the words of the
\* content; which TopK come first is left open, their scores stay.
Reranked(all) ==
    {s \in SUBSET all : Cardinality(s) = IF Cardinality(all) < TopK THEN Cardinality(all) ELSE TopK}
FilterByScore(chunks, vector, lexical) == {c \in chunks : Fused(vector, lexical, c) >= Threshold}
Hits(vector, lexical) ==
    {FilterByScore(s, vector, lexical) : s \in Reranked(Listed(vector) \cup Listed(lexical))}

\* What a search may return of a set: all of it that passes its own cut.
Rankings(all) ==
    UNION {{s \in [1..n -> all] : \A i, j \in 1..n : s[i] = s[j] => i = j} : n \in 0..Cardinality(all)}

-----------------------------------------------------------------------------
(* The policy: a project is a classroom, whose documents are the teacher's. *)
CanAccessProject(user) == grant
AllowedOwners(key) == IF key[2] THEN {"teacher"} ELSE {key[1]}
Searchable(key) == IF "teacher" \in AllowedOwners(key) THEN Live ELSE {}
Forbidden(key)  == key[2] /\ ~CanAccessProject(key[1])

Begin(r, key) ==
    /\ req[r].pc = "new"
    /\ req' = [req EXCEPT ![r] = [@ EXCEPT !.pc = "policy", !.key = key, !.gone = Past, !.granted = grant]]
    /\ UNCHANGED <<chunk, writer, grant, found, answers, raced>>
\* Mutant: the cache is read before the policy is asked.
CheckLate(r) ==
    /\ req[r].pc = "policy"
    /\ req' = [req EXCEPT ![r].pc = IF found[req[r].key] = Nothing /\ Forbidden(req[r].key)
                                    THEN "forbidden" ELSE "lookup"]
    /\ UNCHANGED <<chunk, writer, grant, found, answers, raced>>
Check(r) ==
    /\ req[r].pc = "policy"
    /\ req' = [req EXCEPT ![r].pc = IF Forbidden(req[r].key) THEN "forbidden" ELSE "lookup"]
    /\ UNCHANGED <<chunk, writer, grant, found, answers, raced>>
\* The cache falls silent when Redis fails: a read misses, a write is lost.
Lookup(r) ==
    /\ req[r].pc = "lookup"
    /\ \/ req' = [req EXCEPT ![r].pc = "search"]
       \/ /\ found[req[r].key] # Nothing
          /\ req' = [req EXCEPT ![r] = [@ EXCEPT !.pc = "recheck", !.chunks = found[req[r].key]]]
    /\ UNCHANGED <<chunk, writer, grant, found, answers, raced>>
\* Two statements of one session, then the ranking.
Search(r) ==
    /\ req[r].pc = "search"
    /\ \E vector, lexical \in Rankings(Searchable(req[r].key)) :
       \E hits \in Hits(vector, lexical) :
           req' = [req EXCEPT ![r].pc = "store", ![r].chunks = hits,
                              ![r].matched = Listed(vector) \cap Listed(lexical)]
    \* Between the invalidation and the commit a retrieval reads the old rows.
    /\ raced' = IF req[r].key[1] # "teacher" THEN raced
                ELSE raced \cup {<<d, chunk[d]>> : d \in {e \in Doc : writer[e] \in {"unindexed", "deleted"}}}
    /\ UNCHANGED <<chunk, writer, grant, found, answers>>
Store(r) ==
    /\ req[r].pc = "store"
    /\ found' \in {found, [found EXCEPT ![req[r].key] = req[r].chunks]}
    /\ req' = [req EXCEPT ![r].pc = "recheck"]
    /\ UNCHANGED <<chunk, writer, grant, answers, raced>>

\* A request for chunks ends here. RagAnswerService.answer asks the policy
\* again, and uses a cached answer only when something was retrieved.
Recheck(r) ==
    /\ req[r].pc = "recheck"
    /\ \/ /\ Forbidden(req[r].key) \/ req[r].chunks = {}
          /\ req' = [req EXCEPT ![r].pc = IF Forbidden(req[r].key) THEN "forbidden" ELSE "done"]
       \/ /\ ~Forbidden(req[r].key) /\ req[r].chunks # {}
          /\ \/ req' = [req EXCEPT ![r].pc = "model"]
             \/ /\ answers[req[r].key] # Nothing
                /\ req' = [req EXCEPT ![r] = [@ EXCEPT !.pc = "done", !.cites = answers[req[r].key]]]
    /\ UNCHANGED <<chunk, writer, grant, found, answers, raced>>
Complete(r) ==
    /\ req[r].pc = "model"
    /\ \/ req' = [req EXCEPT ![r].pc = "keep", ![r].cites = req[r].chunks]
       \/ req' = [req EXCEPT ![r].pc = "failed"]
    /\ UNCHANGED <<chunk, writer, grant, found, answers, raced>>
Keep(r) ==
    /\ req[r].pc = "keep"
    /\ answers' \in {answers, [answers EXCEPT ![req[r].key] = req[r].cites]}
    /\ req' = [req EXCEPT ![r].pc = "done"]
    /\ UNCHANGED <<chunk, writer, grant, found, raced>>

-----------------------------------------------------------------------------
\* An index job that has replaced the rows, or a deletion, up to the
\* invalidation: the keys of the owner, one batch after another.
Replace(d) ==
    /\ writer[d] = "none" /\ chunk[d] > 0 /\ chunk[d] < MaxGeneration
    /\ writer' = [writer EXCEPT ![d] = "indexing"]
    /\ UNCHANGED <<chunk, grant, found, answers, req, raced>>
Delete(d) ==
    /\ writer[d] = "none" /\ chunk[d] > 0
    /\ writer' = [writer EXCEPT ![d] = "deleting"]
    /\ UNCHANGED <<chunk, grant, found, answers, req, raced>>
\* Redis may fail at any batch: what was not cleared stays, and the writer
\* goes on to its commit.
Invalidate(d) ==
    /\ writer[d] \in {"indexing", "deleting"}
    /\ writer' = [writer EXCEPT ![d] = IF @ = "indexing" THEN "unindexed" ELSE "deleted"]
    /\ \E cleared \in SUBSET {k \in Key : k[1] = "teacher"} :
        /\ found' = [k \in Key |-> IF k \in cleared THEN Nothing ELSE found[k]]
        /\ raced' = IF \/ \E r \in Request : req[r].key[1] = "teacher" /\ req[r].pc \in {"search", "store"}
                       \/ \E k \in Key \ cleared : k[1] = "teacher" /\ <<d, chunk[d]>> \in found[k]
                    THEN raced \cup {<<d, chunk[d]>>} ELSE raced
    /\ UNCHANGED <<chunk, grant, answers, req>>
\* Mutant: a deletion commits rows as an index job does.
CommitWriterRows(d) ==
    /\ writer[d] \in {"unindexed", "deleted"}
    /\ chunk' = [chunk EXCEPT ![d] = @ + 1]
    /\ writer' = [writer EXCEPT ![d] = "none"]
    /\ UNCHANGED <<grant, found, answers, req, raced>>
CommitWriter(d) ==
    /\ writer[d] \in {"unindexed", "deleted"}
    /\ chunk' = [chunk EXCEPT ![d] = IF writer[d] = "unindexed" THEN @ + 1 ELSE 0]
    /\ writer' = [writer EXCEPT ![d] = "none"]
    /\ UNCHANGED <<grant, found, answers, req, raced>>
Revoke ==
    /\ grant
    /\ grant' = FALSE
    /\ UNCHANGED <<chunk, writer, found, answers, req, raced>>
\* The times to live of the two caches.
ExpireFound(k) ==
    /\ found[k] # Nothing
    /\ found' = [found EXCEPT ![k] = Nothing]
    /\ UNCHANGED <<chunk, writer, grant, answers, req, raced>>
ExpireAnswer(k) ==
    /\ answers[k] # Nothing
    /\ answers' = [answers EXCEPT ![k] = Nothing]
    /\ UNCHANGED <<chunk, writer, grant, found, req, raced>>

Next ==
    \/ \E r \in Request :
        \/ \E key \in Asked : Begin(r, key)
        \/ Check(r) \/ Lookup(r) \/ Search(r) \/ Store(r) \/ Recheck(r) \/ Complete(r) \/ Keep(r)
    \/ \E d \in Doc : Replace(d) \/ Delete(d) \/ Invalidate(d) \/ CommitWriter(d)
    \/ Revoke \/ \E k \in Key : ExpireFound(k) \/ ExpireAnswer(k)
Spec == Init /\ [][Next]_retrievalVars

-----------------------------------------------------------------------------
Cached == (SUBSET Chunk) \cup {Nothing}
TypeOK ==
    /\ chunk \in [Doc -> 0..MaxGeneration]
    /\ writer \in [Doc -> {"none", "indexing", "deleting", "unindexed", "deleted"}]
    /\ grant \in BOOLEAN /\ found \in [Key -> Cached] /\ answers \in [Key -> Cached]
    /\ req \in [Request -> [pc : {"new", "policy", "lookup", "search", "store", "recheck", "model", "keep",
                                  "done", "failed", "forbidden"},
                            key : Key, chunks : SUBSET Chunk, matched : SUBSET Chunk,
                            cites : SUBSET Chunk, gone : SUBSET Chunk, granted : BOOLEAN]]
    /\ raced \subseteq Chunk

\* Once the grant is withdrawn, no later question of the student is answered
\* from the teacher's documents, whatever the caches still hold.
RevokedSeesNothing ==
    \A r \in Request :
        req[r].key = <<"student", TRUE>> /\ ~req[r].granted => req[r].chunks = {} /\ req[r].cites = {}

\* The owner's retrieval after an indexing or a deletion returns a chunk that
\* went with it only if another retrieval of theirs overlapped it, or the
\* invalidation failed and left a cached list with that chunk.
OwnerSeesChange ==
    \A r \in Request : req[r].key[1] = "teacher" => req[r].chunks \cap req[r].gone \subseteq raced

\* "Retrieve chunks only" of the documents that were indexed: a question
\* whose documents both searches find has a hit.
IndexedIsFound ==
    \A r \in Request : req[r].matched # {} => req[r].chunks # {}
=============================================================================
