-------------------------------- MODULE VaultIndex --------------------------------
(*****************************************************************************)
(* The vault index of the gateway: index_note (vault_rag.py) and the two     *)
(* deletion routes (main.py), for one workspace and vault.  An index request *)
(* runs on the event loop and keeps its transaction, with the row lock of    *)
(* its document, over the awaits of the embeddings; its database calls are   *)
(* synchronous, so a lock it waits for stops the loop.  The deletion routes  *)
(* are plain functions, which run in threads and wait there.                 *)
(*                                                                           *)
(* The chunks of a document are named by the content they were made from.    *)
(* Searches read committed rows and are left out.                            *)
(*****************************************************************************)
EXTENDS Integers, FiniteSets

CONSTANTS
    Requests,   \* requests to the gateway, each with its own session
    Paths,      \* notes of the vault
    Contents,   \* versions of a note
    Blank,      \* those that split_markdown_chunks makes no chunk of
    None

ASSUME ContentsAssumption == Blank \subseteq Contents /\ None \notin Contents \cup Requests

VARIABLES
    docs,   \* committed vault_documents with their vault_chunks, by path
    held,   \* the request whose open transaction has locked the row of a path
    loop,   \* the index request that waits for a lock on the event loop
    req     \* what each request does and has read

vars == <<docs, held, loop, req>>

Document == [id : Requests \cup {"earlier"}, \* the request that inserted the row
             hash : Contents,               \* content_hash
             chunks : Contents \cup {None}]

Request == [at : {"new", "blocked", "embedding", "deleting", "wiping", "answered"},
            path : Paths \cup {None},
            content : Contents \cup {None},
            excluded : BOOLEAN,             \* should_exclude_note
            seen : Requests \cup {"earlier", None},         \* the row it found
            targets : SUBSET (Paths \X (Requests \cup {"earlier"})),
            answer : {"none", "indexed", "skipped", "deleted", "error"}]

TypeOK == /\ docs \in [Paths -> Document \cup {None}]
          /\ held \in [Paths -> Requests \cup {None}]
          /\ loop \in Requests \cup {None}
          /\ req \in [Requests -> Request]

NewRequest == [at |-> "new", path |-> None, content |-> None, excluded |-> FALSE,
               seen |-> None, targets |-> {}, answer |-> "none"]

\* A note may have been indexed earlier.
Init == /\ docs \in [Paths -> {None} \cup
                              {[id |-> "earlier", hash |-> c, chunks |-> c] : c \in Contents \ Blank}]
        /\ held = [p \in Paths |-> None]
        /\ loop = None
        /\ req = [q \in Requests |-> NewRequest]

-----------------------------------------------------------------------------
Present(p) == docs[p] # None
RowAt(p) == IF Present(p) THEN docs[p].id ELSE None

Answered(g, answer) == [g EXCEPT !.at = "answered", !.answer = answer]

\* The locks left when the transaction of q ends.
Released(q) == [p \in Paths |-> IF held[p] = q THEN None ELSE held[p]]

\* index_note ------------------------------------------------------------------

\* Mutant of Unchanged: the chunks are not counted.
MutantUnchanged(p, c) == Present(p) /\ docs[p].hash = c

Unchanged(p, c) == Present(p) /\ docs[p].hash = c /\ docs[p].chunks # None

\* The row that request q, standing as g, commits: an existing one keeps its
\* content_hash, which is only given to a new VaultDocument.
Row(q, g, chunks) ==
    IF g.seen = None THEN [id |-> q, hash |-> g.content, chunks |-> chunks]
    ELSE [docs[g.path] EXCEPT !.chunks = chunks]

\* flush (or the commit of an excluded note) with the lock free, on the row that
\* was read, up to the first await.
WriteRow(q, g) ==
    \/ /\ g.excluded \/ g.content \in Blank
       /\ docs' = [docs EXCEPT ![g.path] = Row(q, g, None)]
       /\ req' = [req EXCEPT ![q] = Answered(g, IF g.excluded THEN "skipped" ELSE "indexed")]
       /\ UNCHANGED held
    \/ /\ ~g.excluded /\ g.content \notin Blank
       /\ held' = [held EXCEPT ![g.path] = q]
       /\ req' = [req EXCEPT ![q] = [g EXCEPT !.at = "embedding"]]
       /\ UNCHANGED docs

IndexNote(q, p, c, excluded) ==
    LET g == [NewRequest EXCEPT !.path = p, !.content = c, !.excluded = excluded,
                                !.seen = RowAt(p)] IN
    /\ req[q].at = "new" /\ loop = None
    /\ \/ /\ Unchanged(p, c)
          /\ req' = [req EXCEPT ![q] = Answered(g, "skipped")]
          /\ UNCHANGED <<docs, held, loop>>
       \/ /\ ~Unchanged(p, c) /\ held[p] = None
          /\ WriteRow(q, g)
          /\ UNCHANGED loop
       \/ /\ ~Unchanged(p, c) /\ held[p] # None
          /\ loop' = q
          /\ req' = [req EXCEPT ![q] = [g EXCEPT !.at = "blocked"]]
          /\ UNCHANGED <<docs, held>>

\* The row may not be the one that was read: deleted since (the update matches
\* no row) or inserted since (the unique constraint refuses).
LockGranted(q) ==
    /\ loop = q /\ held[req[q].path] = None
    /\ loop' = None
    /\ \/ RowAt(req[q].path) = req[q].seen /\ WriteRow(q, req[q])
       \/ /\ RowAt(req[q].path) # req[q].seen
          /\ req' = [req EXCEPT ![q] = Answered(@, "error")]
          /\ UNCHANGED <<docs, held>>

CommitChunks(q) ==
    LET g == req[q] IN
    /\ g.at = "embedding" /\ loop = None
    /\ docs' = [docs EXCEPT ![g.path] = Row(q, g, g.content)]
    /\ held' = Released(q)
    /\ req' = [req EXCEPT ![q] = Answered(g, "indexed")]
    /\ UNCHANGED loop

\* Mutant of EmbeddingFails: the session is not closed.
MutantEmbeddingFails(q) ==
    /\ req[q].at = "embedding" /\ loop = None
    /\ req' = [req EXCEPT ![q] = Answered(@, "error")]
    /\ UNCHANGED <<docs, held, loop>>

\* The embedding service is unavailable or answers nonsense: the session is
\* closed without a commit.
EmbeddingFails(q) ==
    /\ req[q].at = "embedding" /\ loop = None
    /\ held' = Released(q)
    /\ req' = [req EXCEPT ![q] = Answered(@, "error")]
    /\ UNCHANGED <<docs, loop>>

\* vault_delete_document ---------------------------------------------------------

DeleteDocument(q, p) ==
    LET g == [NewRequest EXCEPT !.path = p, !.seen = RowAt(p)] IN
    /\ req[q].at = "new"
    /\ req' = [req EXCEPT ![q] = IF Present(p) THEN [g EXCEPT !.at = "deleting"]
                                 ELSE Answered(g, "deleted")]
    /\ UNCHANGED <<docs, held, loop>>

\* Mutant of CommitDelete: whatever is at the path is removed, lock or no lock.
MutantCommitDelete(q) ==
    /\ req[q].at = "deleting"
    /\ docs' = [docs EXCEPT ![req[q].path] = None]
    /\ req' = [req EXCEPT ![q] = Answered(@, "deleted")]
    /\ UNCHANGED <<held, loop>>

CommitDelete(q) ==
    LET g == req[q] IN
    /\ g.at = "deleting" /\ held[g.path] = None
    /\ docs' = [docs EXCEPT ![g.path] = IF RowAt(g.path) = g.seen THEN None ELSE @]
    /\ req' = [req EXCEPT ![q] = Answered(g, "deleted")]
    /\ UNCHANGED <<held, loop>>

\* vault_delete_index: one statement that locks every row it saw -------------------

WipeIndex(q) ==
    /\ req[q].at = "new"
    /\ req' = [req EXCEPT ![q] =
                 [NewRequest EXCEPT !.at = "wiping",
                                    !.targets = {<<p, docs[p].id>> : p \in {o \in Paths : Present(o)}}]]
    /\ UNCHANGED <<docs, held, loop>>

WipeLock(q, p) ==
    /\ req[q].at = "wiping" /\ held[p] = None
    /\ \E i \in Requests \cup {"earlier"} :
          /\ <<p, i>> \in req[q].targets
          /\ IF RowAt(p) = i
             THEN held' = [held EXCEPT ![p] = q] /\ UNCHANGED req
             ELSE req' = [req EXCEPT ![q].targets = @ \ {<<p, i>>}] /\ UNCHANGED held
    /\ UNCHANGED <<docs, loop>>

CommitWipe(q) ==
    /\ req[q].at = "wiping"
    /\ \A t \in req[q].targets : held[t[1]] = q
    /\ docs' = [p \in Paths |-> IF held[p] = q THEN None ELSE docs[p]]
    /\ held' = Released(q)
    /\ req' = [req EXCEPT ![q] = Answered(@, "deleted")]
    /\ UNCHANGED loop

\* Deadlocks that PostgreSQL sees: two wipes that wait for each other's rows, or
\* a delete, which takes the chunks before the row, and a request that takes the
\* row first.  One of the two ends with an error (an index request: see
\* EmbeddingFails).
Wanted(q) == IF req[q].at = "wiping" THEN {t[1] : t \in req[q].targets} ELSE {req[q].path}

Blocks(a, b) ==
    \E p \in Wanted(b) : \/ held[p] = a
                         \/ held[p] = b /\ req[a].at = "deleting" /\ req[a].path = p

DeadlockVictim(q) ==
    /\ req[q].at \in {"deleting", "wiping"}
    /\ \E o \in Requests \ {q} : Blocks(o, q) /\ Blocks(q, o)
    /\ held' = Released(q)
    /\ req' = [req EXCEPT ![q] = Answered(@, "error")]
    /\ UNCHANGED <<docs, loop>>

\* The gateway is restarted: open transactions are rolled back.
Restart ==
    /\ \E q \in Requests : req[q].at \notin {"new", "answered"}
    /\ held' = [p \in Paths |-> None]
    /\ loop' = None
    /\ req' = [q \in Requests |-> IF req[q].at \in {"new", "answered"} THEN req[q]
                                  ELSE Answered(req[q], "error")]
    /\ UNCHANGED docs

-----------------------------------------------------------------------------
Arrive(q) ==
    \/ \E p \in Paths : \/ DeleteDocument(q, p)
                        \/ \E c \in Contents, x \in BOOLEAN : IndexNote(q, p, c, x)
    \/ WipeIndex(q)

Advance(q) == \/ LockGranted(q) \/ CommitChunks(q) \/ EmbeddingFails(q)
              \/ CommitDelete(q) \/ CommitWipe(q) \/ DeadlockVictim(q)
              \/ \E p \in Paths : WipeLock(q, p)

Next == (\E q \in Requests : Arrive(q) \/ Advance(q)) \/ Restart

Spec == Init /\ [][Next]_vars

\* An embedding request ends (by its timeout), a lock that is free is granted.
FairSpec == Spec /\ \A q \in Requests : WF_vars(Advance(q))

-----------------------------------------------------------------------------
\* Invariants --------------------------------------------------------------------

\* While a request waits for its embeddings, the row it is going to rewrite is
\* still the one it read, under its lock: no deletion of the note or of the
\* index slips in between its read and its commit.
RowIsKept ==
    \A q \in Requests : req[q].at = "embedding" =>
        held[req[q].path] = q /\ RowAt(req[q].path) = req[q].seen

\* A lock only outlives the step that took it as long as its request is at work:
\* no answer, error or restart leaves a row locked behind it.
LocksAreReleased ==
    \A p \in Paths : held[p] # None => req[held[p]].at \in {"embedding", "wiping"}

\* Temporal properties -------------------------------------------------------------

Skips(q) == /\ req[q].answer = "none" /\ req'[q].answer = "skipped"
            /\ ~req'[q].excluded

\* A note that is not excluded is only skipped when the index holds exactly the
\* content sent, or when another version of it was indexed before: notes that
\* never return to an earlier version are never wrongly skipped, whatever was
\* excluded, deleted, wiped or interrupted meanwhile.  docs/api.md:206 promises
\* "`skipped` when the content hash is unchanged or the note is excluded": the
\* second disjunct is where the code does otherwise.
SkipJustified ==
    [][\A q \in Requests : Skips(q) =>
          LET p == req'[q].path  c == req'[q].content IN
          \/ docs'[p].chunks = c
          \/ \E o \in Requests : /\ req[o].answer = "indexed" /\ req[o].path = p
                                 /\ req[o].content # c]_vars

\* The event loop waits for a lock whose owner needs the event loop, itself or
\* through a deletion of the index that waits for it.
LoopWaitsForItself ==
    /\ loop # None
    /\ LET h == held[req[loop].path] IN
       /\ h # None
       /\ \/ req[h].at = "embedding"
          \/ \E t \in req[h].targets : held[t[1]] # None /\ req[held[t[1]]].at = "embedding"

\* Every request is answered, unless the loop comes to wait for itself.
RequestsEnd ==
    [](~LoopWaitsForItself) =>
        \A q \in Requests : req[q].at # "new" ~> req[q].at = "answered"

\* What the documentation says, and the code does not do -----------------------------

\* generation_routes.py:126: "Database lock waits must never block the ASGI loop:
\* another request may need that loop to finish and release its transaction."
LoopStaysFree == ~LoopWaitsForItself
=============================================================================
