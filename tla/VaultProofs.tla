------------------------------- MODULE VaultProofs ------------------------------
(*****************************************************************************)
(* Proofs about VaultIndex, for any number of requests, notes and versions:  *)
(* a row lock only outlives the step that took it while its request is at    *)
(* work, nobody changes the row an index request is going to rewrite, and a  *)
(* note is only skipped for a reason.                                        *)
(*****************************************************************************)
EXTENDS VaultIndex, TLAPS

Rows == Requests \cup {"earlier"}

\* A request at work on one note knows the note, and the content to index.
Complete ==
    \A q \in Requests :
        /\ req[q].at \in {"blocked", "embedding", "deleting"} => req[q].path \in Paths
        /\ req[q].at \in {"blocked", "embedding"} => req[q].content \in Contents

\* A lock belongs to a deletion of the index or to the index request of its note.
Owned ==
    \A p \in Paths : held[p] # None =>
        \/ req[held[p]].at = "wiping"
        \/ req[held[p]].at = "embedding" /\ req[held[p]].path = p

\* The event loop only waits for a request that waits for a lock.
LoopBlocked == loop # None => req[loop].at = "blocked"

Inv == TypeOK /\ Complete /\ Owned /\ LoopBlocked /\ RowIsKept

-----------------------------------------------------------------------------
\* A row of the index is a row or missing.
LEMMA RowTyped == ASSUME TypeOK, NEW p \in Paths PROVE RowAt(p) \in Rows \cup {None}
  BY DEF TypeOK, RowAt, Present, Document, Rows

\* The fields of a request.
LEMMA RequestTyped ==
    ASSUME NEW g \in Request
    PROVE  /\ g.path \in Paths \cup {None} /\ g.content \in Contents \cup {None}
           /\ g.seen \in Rows \cup {None} /\ g.targets \in SUBSET (Paths \X Rows)
  BY DEF Request, Rows

\* An answered request is a request.
LEMMA AnsweredTyped ==
    ASSUME NEW g \in Request, NEW a \in {"indexed", "skipped", "deleted", "error"}
    PROVE  Answered(g, a) \in Request /\ Answered(g, a).at = "answered"
  BY DEF Request, Answered

\* A request that has not begun is a request.
LEMMA NewTyped == NewRequest \in Request
  BY DEF Request, NewRequest

\* Releasing locks leaves a function from notes to holders.
LEMMA ReleasedTyped ==
    ASSUME TypeOK, NEW q
    PROVE  /\ Released(q) \in [Paths -> Requests \cup {None}]
           /\ \A p \in Paths : Released(q)[p] = IF held[p] = q THEN None ELSE held[p]
  BY DEF TypeOK, Released

\* The row that is committed is the one that was read, or the one inserted.
LEMMA RowCommitted ==
    ASSUME TypeOK, NEW q \in Requests, NEW g \in Request, NEW c \in Contents \cup {None},
           g.path \in Paths, g.content \in Contents, g.seen = RowAt(g.path)
    PROVE  Row(q, g, c) \in Document
<1>1. CASE g.seen = None
  BY <1>1 DEF Row, Document
<1>2. CASE g.seen # None
  <2>1. docs[g.path] \in Document
    BY <1>2 DEF RowAt, Present, TypeOK
  <2>2. QED
    BY <1>2, <2>1 DEF Row, Document
<1>3. QED
  BY <1>1, <1>2

\* It holds initially.
LEMMA InitInv == ASSUME Init PROVE Inv
<1>1. docs \in [Paths -> Document \cup {None}]
  BY DEF Init, Document
<1>2. TypeOK
  BY <1>1, NewTyped DEF Init, TypeOK
<1>3. \A q \in Requests : req[q].at = "new"
  BY DEF Init, NewRequest
<1>4. QED
  BY <1>2, <1>3 DEF Init, Inv, Complete, Owned, LoopBlocked, RowIsKept

\* A request that is at work on no row ends, or begins to wait, without a change
\* of the rows and of the locks.
LEMMA StandsByInv ==
    ASSUME Inv, NEW q \in Requests, NEW g \in Request, UNCHANGED <<docs, held>>,
           req[q].at \notin {"embedding", "wiping"}, g.at # "embedding",
           req' = [req EXCEPT ![q] = g],
           g.at \in {"blocked", "deleting"} => g.path \in Paths,
           g.at = "blocked" => g.content \in Contents,
           loop' \in {loop, None, q}, loop' = q => g.at = "blocked"
    PROVE  Inv'
<1>1. TypeOK'
  BY DEF Inv, TypeOK
<1>2. Complete'
  BY DEF Inv, TypeOK, Complete
<1>3. \A p \in Paths : held[p] # q
  BY ContentsAssumption DEF Inv, TypeOK, Owned
<1>4. Owned'
  BY <1>3 DEF Inv, TypeOK, Owned
<1>5. LoopBlocked'
  BY DEF Inv, TypeOK, LoopBlocked
<1>6. \A p : RowAt(p)' = RowAt(p)
  BY DEF RowAt, Present
<1>7. RowIsKept'
  BY <1>6 DEF Inv, TypeOK, RowIsKept
<1>8. QED
  BY <1>1, <1>2, <1>4, <1>5, <1>7 DEF Inv

\* A request at work on a row ends: its locks are released.
LEMMA EndsInv ==
    ASSUME Inv, NEW q \in Requests, NEW a \in {"indexed", "skipped", "deleted", "error"},
           req' = [req EXCEPT ![q] = Answered(req[q], a)],
           held' = Released(q), docs' \in [Paths -> Document \cup {None}],
           \A p \in Paths : held[p] # q => RowAt(p)' = RowAt(p),
           UNCHANGED loop, loop # q
    PROVE  Inv'
<1>1. /\ req' \in [Requests -> Request] /\ req'[q].at = "answered"
      /\ \A o \in Requests \ {q} : req'[o] = req[o]
  BY AnsweredTyped DEF Inv, TypeOK
<1>2. TypeOK'
  BY <1>1, ReleasedTyped DEF Inv, TypeOK
<1>3. Complete' /\ LoopBlocked'
  BY <1>1 DEF Inv, TypeOK, Complete, LoopBlocked
<1>4. Owned'
  BY <1>1, ReleasedTyped DEF Inv, TypeOK, Owned
<1>5. ASSUME NEW o \in Requests, req'[o].at = "embedding"
      PROVE  held'[req'[o].path] = o /\ RowAt(req[o].path)' = req'[o].seen
  <2>1. o # q /\ req'[o] = req[o] /\ req[o].path \in Paths
    BY <1>1, <1>5 DEF Inv, Complete
  <2>2. held[req[o].path] = o /\ RowAt(req[o].path) = req[o].seen
    BY <1>5, <2>1 DEF Inv, RowIsKept
  <2>3. QED
    BY <2>1, <2>2, ReleasedTyped DEF Inv, RowAt, Present
<1>6. RowIsKept'
  BY <1>5 DEF RowIsKept, RowAt, Present
<1>7. QED
  BY <1>2, <1>3, <1>4, <1>6 DEF Inv

\* A row written by the request that owns it keeps the invariant.
LEMMA WriteRowInv ==
    ASSUME Inv, NEW q \in Requests, NEW g \in Request, WriteRow(q, g), loop' = None,
           req[q].at \in {"new", "blocked"}, g.path \in Paths, g.content \in Contents,
           g.seen = RowAt(g.path), held[g.path] = None
    PROVE  Inv'
<1>0. \A p \in Paths : held[p] # q
  BY ContentsAssumption DEF Inv, TypeOK, Owned
<1>1. ASSUME NEW a \in {"skipped", "indexed"}, UNCHANGED held,
             docs' = [docs EXCEPT ![g.path] = Row(q, g, None)],
             req' = [req EXCEPT ![q] = Answered(g, a)]
      PROVE  Inv'
  <2>1. /\ req' \in [Requests -> Request] /\ req'[q].at = "answered"
        /\ \A o \in Requests \ {q} : req'[o] = req[o]
    BY <1>1, AnsweredTyped DEF Inv, TypeOK
  <2>2. Row(q, g, None) \in Document
    BY RowCommitted DEF Inv
  <2>3. TypeOK'
    BY <1>1, <2>1, <2>2 DEF Inv, TypeOK
  <2>4. Complete' /\ LoopBlocked'
    BY <2>1 DEF Inv, TypeOK, Complete, LoopBlocked
  <2>5. Owned'
    BY <1>0, <1>1, <2>1 DEF Inv, TypeOK, Owned
  <2>6. \A p \in Paths \ {g.path} : RowAt(p)' = RowAt(p)
    BY <1>1 DEF Inv, TypeOK, RowAt, Present
  <2>7. ASSUME NEW o \in Requests, req'[o].at = "embedding"
        PROVE  held'[req'[o].path] = o /\ RowAt(req[o].path)' = req'[o].seen
    <3>1. o # q /\ req'[o] = req[o] /\ req[o].path \in Paths
      BY <2>1, <2>7 DEF Inv, Complete
    <3>2. held[req[o].path] = o /\ RowAt(req[o].path) = req[o].seen
      BY <2>7, <3>1 DEF Inv, RowIsKept
    <3>3. req[o].path # g.path
      BY <3>2, ContentsAssumption
    <3>4. QED
      BY <1>1, <2>6, <3>1, <3>2, <3>3 DEF RowAt, Present
  <2>8. RowIsKept'
    BY <2>7 DEF RowIsKept, RowAt, Present
  <2>9. QED
    BY <2>3, <2>4, <2>5, <2>8 DEF Inv
<1>2. ASSUME UNCHANGED docs, held' = [held EXCEPT ![g.path] = q],
             req' = [req EXCEPT ![q] = [g EXCEPT !.at = "embedding"]]
      PROVE  Inv'
  <2>1. [g EXCEPT !.at = "embedding"] \in Request
    BY DEF Request
  <2>2. /\ req'[q].at = "embedding" /\ req'[q].path = g.path /\ req'[q].seen = g.seen
        /\ req'[q].content = g.content
    BY <1>2 DEF Inv, TypeOK, Request
  <2>3. \A o \in Requests \ {q} : req'[o] = req[o]
    BY <1>2 DEF Inv, TypeOK
  <2>4. TypeOK'
    BY <1>2, <2>1 DEF Inv, TypeOK
  <2>5. Complete' /\ LoopBlocked'
    BY <2>2, <2>3 DEF Inv, TypeOK, Complete, LoopBlocked
  <2>6. Owned'
    BY <1>0, <1>2, <2>2, <2>3 DEF Inv, TypeOK, Owned
  <2>7. \A p : RowAt(p)' = RowAt(p)
    BY <1>2 DEF RowAt, Present
  <2>8. ASSUME NEW o \in Requests, req'[o].at = "embedding"
        PROVE  held'[req'[o].path] = o /\ RowAt(req[o].path)' = req'[o].seen
    <3>1. CASE o = q
      BY <1>2, <2>2, <2>7, <3>1 DEF RowAt, Present, Inv, TypeOK
    <3>2. CASE o # q
      <4>1. req'[o] = req[o] /\ req[o].path \in Paths
        BY <2>3, <2>8, <3>2 DEF Inv, Complete
      <4>2. held[req[o].path] = o /\ RowAt(req[o].path) = req[o].seen
        BY <2>8, <4>1 DEF Inv, RowIsKept
      <4>3. req[o].path # g.path
        BY <4>2, ContentsAssumption
      <4>4. QED
        BY <1>2, <2>7, <4>1, <4>2, <4>3 DEF RowAt, Present, Inv, TypeOK
    <3>3. QED
      BY <3>1, <3>2
  <2>9. RowIsKept'
    BY <2>8 DEF RowIsKept, RowAt, Present
  <2>10. QED
    BY <2>4, <2>5, <2>6, <2>9 DEF Inv
<1>3. QED
  BY <1>1, <1>2 DEF WriteRow

\* IndexNote keeps the invariant.
LEMMA IndexNoteInv ==
    ASSUME Inv, NEW q \in Requests, NEW p \in Paths, NEW c \in Contents, NEW x \in BOOLEAN,
           IndexNote(q, p, c, x)
    PROVE  Inv'
<1> DEFINE g == [NewRequest EXCEPT !.path = p, !.content = c, !.excluded = x, !.seen = RowAt(p)]
<1>1. RowAt(p) \in Rows \cup {None}
  BY RowTyped DEF Inv
<1>2. /\ g \in Request /\ g.path = p /\ g.content = c /\ g.seen = RowAt(p) /\ g.at = "new"
      /\ [g EXCEPT !.at = "blocked"] \in Request
      /\ [g EXCEPT !.at = "blocked"].at = "blocked"
      /\ [g EXCEPT !.at = "blocked"].path = p
      /\ [g EXCEPT !.at = "blocked"].content = c
  BY <1>1 DEF Request, NewRequest, Rows
<1>3. req[q].at = "new" /\ loop = None
  BY DEF IndexNote
<1>4. CASE Unchanged(p, c) /\ req' = [req EXCEPT ![q] = Answered(g, "skipped")]
           /\ UNCHANGED <<docs, held, loop>>
  <2>1. Answered(g, "skipped") \in Request /\ Answered(g, "skipped").at = "answered"
    BY <1>2, AnsweredTyped
  <2> HIDE DEF g
  <2>2. QED
    BY <1>3, <1>4, <2>1, StandsByInv, ContentsAssumption DEF Inv, LoopBlocked
<1>5. CASE held[p] = None /\ WriteRow(q, g) /\ UNCHANGED loop
  <2> HIDE DEF g
  <2>1. QED
    BY <1>2, <1>3, <1>5, WriteRowInv
<1>6. CASE /\ loop' = q /\ req' = [req EXCEPT ![q] = [g EXCEPT !.at = "blocked"]]
           /\ UNCHANGED <<docs, held>>
  <2> HIDE DEF g
  <2>1. QED
    BY <1>2, <1>3, <1>6, StandsByInv
<1>7. QED
  BY <1>4, <1>5, <1>6 DEF IndexNote

\* LockGranted keeps the invariant.
LEMMA LockGrantedInv == ASSUME Inv, NEW q \in Requests, LockGranted(q) PROVE Inv'
<1>1. /\ loop = q /\ loop' = None /\ held[req[q].path] = None
      /\ req[q] \in Request /\ req[q].at = "blocked"
      /\ req[q].path \in Paths /\ req[q].content \in Contents
  BY ContentsAssumption DEF LockGranted, Inv, TypeOK, LoopBlocked, Complete
<1>2. CASE RowAt(req[q].path) = req[q].seen /\ WriteRow(q, req[q])
  BY <1>1, <1>2, WriteRowInv
<1>3. CASE req' = [req EXCEPT ![q] = Answered(@, "error")] /\ UNCHANGED <<docs, held>>
  <2>1. Answered(req[q], "error") \in Request /\ Answered(req[q], "error").at = "answered"
    BY <1>1, AnsweredTyped
  <2>2. QED
    BY <1>1, <1>3, <2>1, StandsByInv, ContentsAssumption
<1>4. QED
  BY <1>2, <1>3 DEF LockGranted

\* CommitChunks keeps the invariant.
LEMMA CommitChunksInv == ASSUME Inv, NEW q \in Requests, CommitChunks(q) PROVE Inv'
<1>1. /\ req[q] \in Request /\ req[q].at = "embedding"
      /\ req[q].path \in Paths /\ req[q].content \in Contents
      /\ held[req[q].path] = q /\ RowAt(req[q].path) = req[q].seen
  BY DEF CommitChunks, Inv, TypeOK, Complete, RowIsKept
<1>2. Row(q, req[q], req[q].content) \in Document
  BY <1>1, RowCommitted DEF Inv
<1>3. docs' \in [Paths -> Document \cup {None}]
  BY <1>2 DEF CommitChunks, Inv, TypeOK
<1>4. \A p \in Paths : held[p] # q => RowAt(p)' = RowAt(p)
  BY <1>1 DEF CommitChunks, Inv, TypeOK, RowAt, Present
<1>5. loop # q
  BY ContentsAssumption DEF CommitChunks
<1>6. QED
  BY <1>3, <1>4, <1>5, EndsInv DEF CommitChunks

\* EmbeddingFails keeps the invariant.
LEMMA EmbeddingFailsInv == ASSUME Inv, NEW q \in Requests, EmbeddingFails(q) PROVE Inv'
<1>1. loop # q /\ docs' \in [Paths -> Document \cup {None}]
  BY ContentsAssumption DEF EmbeddingFails, Inv, TypeOK
<1>2. \A p \in Paths : RowAt(p)' = RowAt(p)
  BY DEF EmbeddingFails, RowAt, Present
<1>3. QED
  BY <1>1, <1>2, EndsInv DEF EmbeddingFails

\* DeleteDocument keeps the invariant.
LEMMA DeleteDocumentInv ==
    ASSUME Inv, NEW q \in Requests, NEW p \in Paths, DeleteDocument(q, p) PROVE Inv'
<1> DEFINE g == [NewRequest EXCEPT !.path = p, !.seen = RowAt(p)]
<1>1. RowAt(p) \in Rows \cup {None}
  BY RowTyped DEF Inv
<1>2. /\ g \in Request /\ [g EXCEPT !.at = "deleting"] \in Request
      /\ [g EXCEPT !.at = "deleting"].at = "deleting" /\ [g EXCEPT !.at = "deleting"].path = p
      /\ Answered(g, "deleted") \in Request /\ Answered(g, "deleted").at = "answered"
  BY <1>1 DEF Request, NewRequest, Rows, Answered
<1>3. req[q].at = "new" /\ UNCHANGED <<docs, held, loop>>
  BY DEF DeleteDocument
<1>4. loop # q
  BY <1>3, ContentsAssumption DEF Inv, LoopBlocked
<1>5. \/ req' = [req EXCEPT ![q] = [g EXCEPT !.at = "deleting"]]
      \/ req' = [req EXCEPT ![q] = Answered(g, "deleted")]
  BY DEF DeleteDocument
<1> HIDE DEF g
<1>6. CASE req' = [req EXCEPT ![q] = [g EXCEPT !.at = "deleting"]]
  BY <1>2, <1>3, <1>4, <1>6, StandsByInv
<1>7. CASE req' = [req EXCEPT ![q] = Answered(g, "deleted")]
  BY <1>2, <1>3, <1>4, <1>7, StandsByInv
<1>8. QED
  BY <1>5, <1>6, <1>7

\* CommitDelete keeps the invariant.
LEMMA CommitDeleteInv == ASSUME Inv, NEW q \in Requests, CommitDelete(q) PROVE Inv'
<1>1. /\ req[q] \in Request /\ req[q].at = "deleting" /\ req[q].path \in Paths
      /\ held[req[q].path] = None
  BY DEF CommitDelete, Inv, TypeOK, Complete
<1>2. \A p \in Paths : held[p] # q
  BY <1>1, ContentsAssumption DEF Inv, TypeOK, Owned
<1>3. /\ req' \in [Requests -> Request] /\ req'[q].at = "answered"
      /\ \A o \in Requests \ {q} : req'[o] = req[o]
  BY <1>1, AnsweredTyped DEF CommitDelete, Inv, TypeOK
<1>4. TypeOK'
  BY <1>3 DEF CommitDelete, Inv, TypeOK
<1>5. Complete' /\ LoopBlocked'
  BY <1>1, <1>3 DEF CommitDelete, Inv, TypeOK, Complete, LoopBlocked
<1>6. Owned'
  BY <1>2, <1>3 DEF CommitDelete, Inv, TypeOK, Owned
<1>7. \A p \in Paths \ {req[q].path} : RowAt(p)' = RowAt(p)
  BY DEF CommitDelete, Inv, TypeOK, RowAt, Present
<1>8. ASSUME NEW o \in Requests, req'[o].at = "embedding"
      PROVE  held'[req'[o].path] = o /\ RowAt(req[o].path)' = req'[o].seen
  <2>1. o # q /\ req'[o] = req[o] /\ req[o].path \in Paths
    BY <1>3, <1>8 DEF Inv, Complete
  <2>2. held[req[o].path] = o /\ RowAt(req[o].path) = req[o].seen
    BY <1>8, <2>1 DEF Inv, RowIsKept
  <2>3. req[o].path # req[q].path
    BY <1>1, <2>2, ContentsAssumption
  <2>4. QED
    BY <1>7, <2>1, <2>2, <2>3 DEF CommitDelete, RowAt, Present
<1>9. RowIsKept'
  BY <1>8 DEF RowIsKept, RowAt, Present
<1>10. QED
  BY <1>4, <1>5, <1>6, <1>9 DEF Inv

\* WipeIndex keeps the invariant.
LEMMA WipeIndexInv == ASSUME Inv, NEW q \in Requests, WipeIndex(q) PROVE Inv'
<1> DEFINE seen == {<<p, docs[p].id>> : p \in {o \in Paths : Present(o)}}
           g == [NewRequest EXCEPT !.at = "wiping", !.targets = seen]
<1>1. seen \in SUBSET (Paths \X Rows)
  BY DEF Inv, TypeOK, Present, Document, Rows
<1>2. g \in Request /\ g.at = "wiping"
  BY <1>1 DEF Request, NewRequest, Rows
<1>3. req' = [req EXCEPT ![q] = g] /\ req[q].at = "new" /\ UNCHANGED <<docs, held, loop>>
  BY DEF WipeIndex
<1>4. loop # q
  BY <1>3, ContentsAssumption DEF Inv, LoopBlocked
<1> HIDE DEF g
<1>5. QED
  BY <1>2, <1>3, <1>4, StandsByInv

\* WipeLock keeps the invariant.
LEMMA WipeLockInv ==
    ASSUME Inv, NEW q \in Requests, NEW p \in Paths, WipeLock(q, p) PROVE Inv'
<1>1. req[q] \in Request /\ req[q].at = "wiping" /\ held[p] = None /\ UNCHANGED <<docs, loop>>
  BY DEF WipeLock, Inv, TypeOK
<1>2. \A r : RowAt(r)' = RowAt(r)
  BY <1>1 DEF RowAt, Present
<1>3. CASE held' = [held EXCEPT ![p] = q] /\ UNCHANGED req
  <2>1. TypeOK' /\ Complete' /\ Owned' /\ LoopBlocked'
    BY <1>1, <1>3 DEF Inv, TypeOK, Complete, Owned, LoopBlocked
  <2>2. ASSUME NEW o \in Requests, req[o].at = "embedding"
        PROVE  held'[req[o].path] = o /\ RowAt(req[o].path) = req[o].seen
    <3>1. req[o].path \in Paths /\ held[req[o].path] = o /\ RowAt(req[o].path) = req[o].seen
      BY <2>2 DEF Inv, Complete, RowIsKept
    <3>2. req[o].path # p
      BY <1>1, <3>1, ContentsAssumption
    <3>3. QED
      BY <1>3, <3>1, <3>2 DEF Inv, TypeOK
  <2>3. RowIsKept'
    BY <1>2, <1>3, <2>2 DEF RowIsKept
  <2>4. QED
    BY <2>1, <2>3 DEF Inv
<1>4. ASSUME NEW i \in Rows, req' = [req EXCEPT ![q].targets = @ \ {<<p, i>>}], UNCHANGED held
      PROVE  Inv'
  <2> DEFINE g == [req[q] EXCEPT !.targets = @ \ {<<p, i>>}]
  <2>1. g \in Request /\ g.at = "wiping"
    BY <1>1, RequestTyped DEF Request
  <2>2. /\ req' \in [Requests -> Request] /\ req'[q].at = "wiping"
        /\ \A o \in Requests \ {q} : req'[o] = req[o]
    BY <1>4, <2>1 DEF Inv, TypeOK
  <2>3. TypeOK' /\ Complete' /\ Owned' /\ LoopBlocked'
    BY <1>1, <1>4, <2>2 DEF Inv, TypeOK, Complete, Owned, LoopBlocked
  <2>4. RowIsKept'
    BY <1>2, <1>4, <2>2 DEF Inv, RowIsKept
  <2>5. QED
    BY <2>3, <2>4 DEF Inv
<1>5. QED
  BY <1>3, <1>4 DEF WipeLock, Rows

\* CommitWipe keeps the invariant.
LEMMA CommitWipeInv == ASSUME Inv, NEW q \in Requests, CommitWipe(q) PROVE Inv'
<1>1. docs' \in [Paths -> Document \cup {None}]
  BY DEF CommitWipe, Inv, TypeOK
<1>2. \A p \in Paths : held[p] # q => RowAt(p)' = RowAt(p)
  BY DEF CommitWipe, RowAt, Present
<1>3. loop # q
  BY ContentsAssumption DEF CommitWipe, Inv, LoopBlocked
<1>4. QED
  BY <1>1, <1>2, <1>3, EndsInv DEF CommitWipe

\* DeadlockVictim keeps the invariant.
LEMMA DeadlockVictimInv == ASSUME Inv, NEW q \in Requests, DeadlockVictim(q) PROVE Inv'
<1>1. docs' \in [Paths -> Document \cup {None}] /\ loop # q
  BY ContentsAssumption DEF DeadlockVictim, Inv, TypeOK, LoopBlocked
<1>2. \A p \in Paths : RowAt(p)' = RowAt(p)
  BY DEF DeadlockVictim, RowAt, Present
<1>3. QED
  BY <1>1, <1>2, EndsInv DEF DeadlockVictim

\* Restart keeps the invariant.
LEMMA RestartInv == ASSUME Inv, Restart PROVE Inv'
<1>1. /\ \A q \in Requests : req'[q] = IF req[q].at \in {"new", "answered"} THEN req[q]
                                       ELSE Answered(req[q], "error")
      /\ req' = [q \in Requests |-> req'[q]]
  BY DEF Restart
<1>2. \A q \in Requests : req'[q] \in Request /\ req'[q].at \in {"new", "answered"}
  BY <1>1, AnsweredTyped DEF Inv, TypeOK
<1>3. TypeOK'
  BY <1>1, <1>2 DEF Restart, Inv, TypeOK
<1>4. QED
  BY <1>2, <1>3 DEF Restart, Inv, Complete, Owned, LoopBlocked, RowIsKept

\* Every step keeps it.
LEMMA NextInv == ASSUME Inv, [Next]_vars PROVE Inv'
<1>1. ASSUME NEW q \in Requests, Arrive(q) PROVE Inv'
  BY <1>1, DeleteDocumentInv, IndexNoteInv, WipeIndexInv DEF Arrive
<1>2. ASSUME NEW q \in Requests, Advance(q) PROVE Inv'
  BY <1>2, LockGrantedInv, CommitChunksInv, EmbeddingFailsInv, CommitDeleteInv,
     CommitWipeInv, DeadlockVictimInv, WipeLockInv DEF Advance
<1>3. CASE UNCHANGED vars
  BY <1>3 DEF vars, Inv, TypeOK, Complete, Owned, LoopBlocked, RowIsKept, RowAt, Present
<1>4. QED
  BY <1>1, <1>2, <1>3, RestartInv DEF Next

\* The invariant of the index.
LEMMA InvHolds == Spec => []Inv
  BY InitInv, NextInv, PTL DEF Spec

-----------------------------------------------------------------------------
\* Every state of the index and of its requests is well typed.
THEOREM TypeCorrect == Spec => []TypeOK
<1>1. Inv => TypeOK
  BY DEF Inv
<1>2. QED
  BY <1>1, InvHolds, PTL

\* The row that an index request is going to rewrite is still the one it read,
\* under its lock, when its embeddings arrive (index_note).
THEOREM RowsAreKept == Spec => []RowIsKept
<1>1. Inv => RowIsKept
  BY DEF Inv
<1>2. QED
  BY <1>1, InvHolds, PTL

\* No answer, error, deadlock or restart leaves a row locked behind it.
THEOREM NoLockIsLeft == Spec => []LocksAreReleased
<1>1. Inv => LocksAreReleased
  BY DEF Inv, Owned, LocksAreReleased
<1>2. QED
  BY <1>1, InvHolds, PTL
-----------------------------------------------------------------------------
\* Notes skipped as unchanged ---------------------------------------------------

\* Only a request that is at rest has an answer.
AnswerGiven == \A q \in Requests : req[q].answer # "none" => req[q].at = "answered"

\* The chunks of the row at p are those of its content hash, or those that a
\* request answered "indexed" has sent.
ExplainedAt(p) ==
    docs[p] # None /\ docs[p].chunks \notin {None, docs[p].hash} =>
        \E o \in Requests : /\ req[o].answer = "indexed" /\ req[o].path = p
                            /\ req[o].content = docs[p].chunks

Explained == \A p \in Paths : ExplainedAt(p)

SkipInv == Inv /\ AnswerGiven /\ Explained

\* The row at p in the next state: as it was, none, one whose chunks are not of
\* another content than its hash, or one with the chunks of q's content.
RowMoves(q, p) ==
    \/ docs'[p] = docs[p]
    \/ docs'[p] = None
    \/ docs'[p].chunks \in {None, docs'[p].hash}
    \/ /\ req'[q].answer = "indexed" /\ req'[q].path = p
       /\ req'[q].content = docs'[p].chunks

\* What a step of q does: it answers once, skips a note that is not excluded
\* only where Unchanged says so, and touches nobody else's request.
Moves(q) ==
    /\ req[q].at # "answered"
    /\ \A o \in Requests \ {q} : req'[o] = req[o]
    /\ req'[q].answer # "none" => req'[q].at = "answered"
    /\ Skips(q) => docs' = docs /\ Unchanged(req'[q].path, req'[q].content)
                   /\ req'[q].path \in Paths
    /\ \A p \in Paths : RowMoves(q, p)

\* The record of a request that is answered.
LEMMA AnsweredFields ==
    ASSUME NEW g \in Request, NEW a
    PROVE  /\ Answered(g, a).at = "answered" /\ Answered(g, a).answer = a
           /\ Answered(g, a).path = g.path /\ Answered(g, a).content = g.content
           /\ Answered(g, a).excluded = g.excluded
  BY DEF Request, Answered

\* The chunks and the content hash of the row that q commits.
LEMMA RowFields ==
    ASSUME TypeOK, NEW q, NEW g \in Request, NEW c, g.path \in Paths, g.seen = RowAt(g.path)
    PROVE  /\ Row(q, g, c).chunks = c
           /\ g.seen = None => Row(q, g, c).hash = g.content
<1>1. CASE g.seen = None
  BY <1>1 DEF Row
<1>2. CASE g.seen # None
  <2>1. docs[g.path] \in Document
    BY <1>2 DEF RowAt, Present, TypeOK
  <2>2. QED
    BY <1>2, <2>1 DEF Row, Document
<1>3. QED
  BY <1>1, <1>2

\* A request that ends without an index answer, or begins to wait.
LEMMA QuietMoves ==
    ASSUME TypeOK, NEW q \in Requests, NEW g, req[q].at # "answered",
           req' = [req EXCEPT ![q] = g], g.answer # "none" => g.at = "answered",
           g.answer # "skipped", \A p \in Paths : docs'[p] = docs[p] \/ docs'[p] = None
    PROVE  Moves(q)
  BY DEF TypeOK, Moves, Skips, RowMoves

\* index_note up to its first await writes a row without chunks, if any.
LEMMA WriteRowMoves ==
    ASSUME TypeOK, NEW q \in Requests, NEW g \in Request, WriteRow(q, g),
           req[q].at # "answered", g.answer = "none",
           g.path \in Paths, g.seen = RowAt(g.path)
    PROVE  Moves(q)
<1>1. ASSUME docs' = [docs EXCEPT ![g.path] = Row(q, g, None)],
             NEW a, a = (IF g.excluded THEN "skipped" ELSE "indexed"),
             req' = [req EXCEPT ![q] = Answered(g, a)]
      PROVE  Moves(q)
  <2>1. /\ req'[q] = Answered(g, a)
        /\ \A o \in Requests \ {q} : req'[o] = req[o]
    BY <1>1 DEF TypeOK
  <2>2. ~Skips(q)
    BY <1>1, <2>1, AnsweredFields DEF Skips, Request
  <2>3. \A p \in Paths : RowMoves(q, p)
    BY <1>1, RowFields DEF RowMoves, TypeOK
  <2>4. QED
    BY <2>1, <2>2, <2>3, AnsweredFields DEF Moves
<1>2. ASSUME UNCHANGED docs, req' = [req EXCEPT ![q] = [g EXCEPT !.at = "embedding"]]
      PROVE  Moves(q)
  <2>1. [g EXCEPT !.at = "embedding"].answer = "none"
    BY DEF Request
  <2>2. QED
    BY <1>2, <2>1, QuietMoves
<1>3. QED
  BY <1>1, <1>2 DEF WriteRow

\* A request to index a note arrives.
LEMMA IndexNoteMoves ==
    ASSUME SkipInv, NEW q \in Requests, NEW p \in Paths, NEW c \in Contents, NEW x \in BOOLEAN,
           IndexNote(q, p, c, x)
    PROVE  Moves(q)
<1> DEFINE g == [NewRequest EXCEPT !.path = p, !.content = c, !.excluded = x, !.seen = RowAt(p)]
<1>1. RowAt(p) \in Rows \cup {None}
  BY RowTyped DEF SkipInv, Inv
<1>2. /\ g \in Request /\ g.path = p /\ g.content = c /\ g.seen = RowAt(p)
      /\ g.answer = "none" /\ [g EXCEPT !.at = "blocked"].answer = "none"
  BY <1>1 DEF Request, NewRequest, Rows
<1>3. TypeOK /\ req[q].at = "new"
  BY DEF IndexNote, SkipInv, Inv
<1>4. CASE Unchanged(p, c) /\ req' = [req EXCEPT ![q] = Answered(g, "skipped")]
           /\ UNCHANGED <<docs, held, loop>>
  <2> HIDE DEF g
  <2>1. /\ req'[q] = Answered(g, "skipped")
        /\ \A o \in Requests \ {q} : req'[o] = req[o]
    BY <1>3, <1>4 DEF TypeOK
  <2>2. /\ req'[q].at = "answered" /\ req'[q].path = p /\ req'[q].content = c
    BY <1>2, <2>1, AnsweredFields
  <2>3. QED
    BY <1>3, <1>4, <2>1, <2>2 DEF Moves, RowMoves
<1>5. CASE held[p] = None /\ WriteRow(q, g) /\ UNCHANGED loop
  <2> HIDE DEF g
  <2>1. QED
    BY <1>2, <1>3, <1>5, WriteRowMoves
<1>6. CASE /\ loop' = q /\ req' = [req EXCEPT ![q] = [g EXCEPT !.at = "blocked"]]
           /\ UNCHANGED <<docs, held>>
  <2> HIDE DEF g
  <2>1. QED
    BY <1>2, <1>3, <1>6, QuietMoves
<1>7. QED
  BY <1>4, <1>5, <1>6 DEF IndexNote

\* The request that waited for a lock has it.
LEMMA LockGrantedMoves ==
    ASSUME SkipInv, NEW q \in Requests, LockGranted(q) PROVE Moves(q)
<1>1. /\ TypeOK /\ req[q] \in Request /\ req[q].at = "blocked" /\ req[q].answer = "none"
      /\ req[q].path \in Paths
  BY ContentsAssumption DEF LockGranted, SkipInv, AnswerGiven, Inv, TypeOK, LoopBlocked, Complete
<1>2. CASE RowAt(req[q].path) = req[q].seen /\ WriteRow(q, req[q])
  BY <1>1, <1>2, WriteRowMoves
<1>3. CASE req' = [req EXCEPT ![q] = Answered(@, "error")] /\ UNCHANGED <<docs, held>>
  <2>1. /\ Answered(req[q], "error").answer = "error"
        /\ Answered(req[q], "error").at = "answered"
    BY <1>1, AnsweredFields
  <2>2. req' = [req EXCEPT ![q] = Answered(req[q], "error")] /\ docs' = docs
    BY <1>3
  <2>3. QED
    BY <1>1, <2>1, <2>2, QuietMoves
<1>4. QED
  BY <1>2, <1>3 DEF LockGranted

\* The embeddings have arrived: the chunks are those of the request's content.
LEMMA CommitChunksMoves ==
    ASSUME SkipInv, NEW q \in Requests, CommitChunks(q) PROVE Moves(q)
<1>1. /\ TypeOK /\ req[q] \in Request /\ req[q].at = "embedding"
      /\ req[q].path \in Paths /\ RowAt(req[q].path) = req[q].seen
  BY DEF CommitChunks, SkipInv, Inv, TypeOK, Complete, RowIsKept
<1>2. /\ req'[q] = Answered(req[q], "indexed")
      /\ \A o \in Requests \ {q} : req'[o] = req[o]
      /\ docs' = [docs EXCEPT ![req[q].path] = Row(q, req[q], req[q].content)]
  BY <1>1 DEF CommitChunks, TypeOK
<1>3. /\ req'[q].at = "answered" /\ req'[q].answer = "indexed"
      /\ req'[q].path = req[q].path /\ req'[q].content = req[q].content
  BY <1>1, <1>2, AnsweredFields
<1>4. Row(q, req[q], req[q].content).chunks = req[q].content
  BY <1>1, RowFields
<1>5. \A p \in Paths : RowMoves(q, p)
  BY <1>1, <1>2, <1>3, <1>4 DEF RowMoves, TypeOK
<1>6. QED
  BY <1>1, <1>2, <1>3, <1>5 DEF Moves, Skips

\* Failures and deletions answer something else than "skipped".
LEMMA OtherMoves ==
    ASSUME SkipInv, NEW q \in Requests,
           \/ EmbeddingFails(q) \/ CommitDelete(q) \/ CommitWipe(q) \/ DeadlockVictim(q)
    PROVE  Moves(q)
<1>1. TypeOK /\ req[q] \in Request /\ req[q].at # "answered"
  BY DEF SkipInv, Inv, TypeOK, EmbeddingFails, CommitDelete, CommitWipe, DeadlockVictim
<1>2. \E a \in {"error", "deleted"} : req' = [req EXCEPT ![q] = Answered(req[q], a)]
  BY DEF EmbeddingFails, CommitDelete, CommitWipe, DeadlockVictim
<1>3. \A p \in Paths : docs'[p] = docs[p] \/ docs'[p] = None
  BY <1>1 DEF TypeOK, EmbeddingFails, CommitDelete, CommitWipe, DeadlockVictim
<1>4. ASSUME NEW a \in {"error", "deleted"}, req' = [req EXCEPT ![q] = Answered(req[q], a)]
      PROVE  Moves(q)
  <2>1. Answered(req[q], a).answer = a /\ Answered(req[q], a).at = "answered"
    BY <1>1, AnsweredFields
  <2>2. QED
    BY <1>1, <1>3, <1>4, <2>1, QuietMoves
<1>5. QED
  BY <1>2, <1>4

\* A deletion arrives, or locks one more row.
LEMMA DeletionMoves ==
    ASSUME SkipInv, NEW q \in Requests,
           \/ WipeIndex(q) \/ \E p \in Paths : DeleteDocument(q, p) \/ WipeLock(q, p)
    PROVE  Moves(q)
<1>1. TypeOK /\ req[q] \in Request
  BY DEF SkipInv, Inv, TypeOK
<1>2. CASE WipeIndex(q)
  <2> DEFINE seen == {<<p, docs[p].id>> : p \in {o \in Paths : Present(o)}}
             g == [NewRequest EXCEPT !.at = "wiping", !.targets = seen]
  <2>1. g.answer = "none"
    BY DEF NewRequest
  <2>2. req[q].at = "new" /\ req' = [req EXCEPT ![q] = g] /\ docs' = docs
    BY <1>2 DEF WipeIndex
  <2> HIDE DEF g
  <2>3. QED
    BY <1>1, <2>1, <2>2, QuietMoves
<1>3. ASSUME NEW p \in Paths, DeleteDocument(q, p) PROVE Moves(q)
  <2> DEFINE g == [NewRequest EXCEPT !.path = p, !.seen = RowAt(p)]
             h == [g EXCEPT !.at = "deleting"]
  <2>1. h.answer = "none" /\ Answered(g, "deleted").answer = "deleted"
        /\ Answered(g, "deleted").at = "answered"
    BY DEF NewRequest, Answered
  <2>2. /\ req[q].at = "new" /\ docs' = docs
        /\ req' = [req EXCEPT ![q] = h] \/ req' = [req EXCEPT ![q] = Answered(g, "deleted")]
    BY <1>3 DEF DeleteDocument
  <2> HIDE DEF g, h
  <2>3. QED
    BY <1>1, <2>1, <2>2, QuietMoves
<1>4. ASSUME NEW p \in Paths, WipeLock(q, p) PROVE Moves(q)
  <2>1. req[q].at = "wiping" /\ docs' = docs /\ req[q].answer = "none"
    BY <1>4 DEF WipeLock, SkipInv, AnswerGiven
  <2>2. CASE UNCHANGED req
    BY <1>1, <2>1, <2>2 DEF Moves, RowMoves, Skips
  <2>3. ASSUME NEW t, req' = [req EXCEPT ![q].targets = t] PROVE Moves(q)
    <3>1. [req[q] EXCEPT !.targets = t].answer = "none"
      BY <1>1, <2>1 DEF Request
    <3>2. req' = [req EXCEPT ![q] = [req[q] EXCEPT !.targets = t]]
      BY <1>1, <2>3 DEF TypeOK
    <3>3. QED
      BY <1>1, <2>1, <3>1, <3>2, QuietMoves
  <2>4. QED
    BY <1>1, <1>4, <2>2, <2>3 DEF WipeLock, TypeOK
<1>5. QED
  BY <1>2, <1>3, <1>4

\* What has been answered stays, so what it explains stays explained.
LEMMA MovesExplained ==
    ASSUME SkipInv, NEW q \in Requests, Moves(q)
    PROVE  AnswerGiven' /\ Explained'
<1>1. AnswerGiven'
  BY DEF SkipInv, AnswerGiven, Moves
<1>2. ASSUME NEW p \in Paths PROVE ExplainedAt(p)'
  <2>1. \A o \in Requests : req[o].answer = "indexed" => o # q /\ req'[o] = req[o]
    BY DEF SkipInv, AnswerGiven, Moves
  <2>2. CASE docs'[p] = docs[p]
    BY <2>1, <2>2 DEF SkipInv, Explained, ExplainedAt
  <2>3. CASE docs'[p] = None \/ docs'[p].chunks \in {None, docs'[p].hash}
    BY <2>3 DEF ExplainedAt
  <2>4. CASE /\ req'[q].answer = "indexed" /\ req'[q].path = p
             /\ req'[q].content = docs'[p].chunks
    BY <2>4 DEF ExplainedAt
  <2>5. QED
    BY <2>2, <2>3, <2>4 DEF Moves, RowMoves
<1>3. QED
  BY <1>1, <1>2 DEF Explained

\* A restart ends what was at work and leaves the answers given.
LEMMA RestartMoves ==
    ASSUME SkipInv, Restart
    PROVE  AnswerGiven' /\ Explained' /\ \A q \in Requests : ~Skips(q)
<1>1. /\ docs' = docs
      /\ \A q \in Requests : req'[q] = IF req[q].at \in {"new", "answered"} THEN req[q]
                                       ELSE Answered(req[q], "error")
  BY DEF Restart
<1>2. \A q \in Requests : req[q] \in Request
  BY DEF SkipInv, Inv, TypeOK
<1>3. AnswerGiven'
  BY <1>1, <1>2, AnsweredFields DEF SkipInv, AnswerGiven
<1>4. \A o \in Requests : req[o].answer = "indexed" => req'[o] = req[o]
  BY <1>1 DEF SkipInv, AnswerGiven
<1>5. Explained'
  BY <1>1, <1>4 DEF SkipInv, Explained, ExplainedAt
<1>6. \A q \in Requests : ~Skips(q)
  BY <1>1, <1>2, AnsweredFields DEF Skips
<1>7. QED
  BY <1>3, <1>5, <1>6

\* Every step is a move of one request, a restart or a stutter.
LEMMA NextMoves ==
    ASSUME SkipInv, [Next]_vars
    PROVE  (\E q \in Requests : Moves(q)) \/ Restart \/ UNCHANGED vars
<1>1. ASSUME NEW q \in Requests, Arrive(q) PROVE Moves(q)
  BY <1>1, DeletionMoves, IndexNoteMoves DEF Arrive
<1>2. ASSUME NEW q \in Requests, Advance(q) PROVE Moves(q)
  BY <1>2, LockGrantedMoves, CommitChunksMoves, OtherMoves, DeletionMoves DEF Advance
<1>3. QED
  BY <1>1, <1>2 DEF Next

\* Where the rows of the index come from is explained in every reachable state.
LEMMA SkipInvHolds == Spec => []SkipInv
<1>1. Init => SkipInv
  <2>1. ASSUME Init PROVE AnswerGiven /\ Explained
    BY <2>1 DEF Init, NewRequest, AnswerGiven, Explained, ExplainedAt
  <2>2. QED
    BY <2>1, InitInv DEF SkipInv
<1>2. SkipInv /\ [Next]_vars => SkipInv'
  <2>1. ASSUME SkipInv, [Next]_vars PROVE AnswerGiven' /\ Explained'
    <3>1. CASE UNCHANGED vars
      BY <2>1, <3>1 DEF vars, SkipInv, AnswerGiven, Explained, ExplainedAt
    <3>2. QED
      BY <2>1, <3>1, NextMoves, MovesExplained, RestartMoves
  <2>2. QED
    BY <2>1, NextInv DEF SkipInv
<1>3. QED
  BY <1>1, <1>2, PTL DEF Spec

\* A note that is not excluded is skipped only when the index holds what was
\* sent, or holds what another request sent before (index_note keeps the first
\* content_hash of a row).
THEOREM SkipsAreJustified == Spec => SkipJustified
<1> DEFINE Justified ==
             \A q \in Requests : Skips(q) =>
                LET p == req'[q].path  c == req'[q].content IN
                \/ docs'[p].chunks = c
                \/ \E o \in Requests : /\ req[o].answer = "indexed" /\ req[o].path = p
                                       /\ req[o].content # c
<1>1. ASSUME SkipInv, [Next]_vars PROVE Justified \/ UNCHANGED vars
  <2>1. ASSUME NEW m \in Requests, Moves(m), NEW q \in Requests, Skips(q)
        PROVE  \/ docs'[req'[q].path].chunks = req'[q].content
               \/ \E o \in Requests : /\ req[o].answer = "indexed" /\ req[o].path = req'[q].path
                                      /\ req[o].content # req'[q].content
    <3>1. q = m
      BY <2>1 DEF Moves, Skips
    <3>2. /\ docs' = docs /\ req'[q].path \in Paths
          /\ docs[req'[q].path] # None /\ docs[req'[q].path].chunks # None
          /\ docs[req'[q].path].hash = req'[q].content
      BY <2>1, <3>1 DEF Moves, Unchanged, Present
    <3>3. ExplainedAt(req'[q].path)
      BY <1>1, <3>2 DEF SkipInv, Explained
    <3>4. QED
      BY <3>2, <3>3 DEF ExplainedAt
  <2>2. QED
    BY <1>1, <2>1, NextMoves, RestartMoves
<1>2. SkipJustified <=> [][Justified]_vars
  BY DEF SkipJustified
<1> HIDE DEF Justified
<1>3. QED
  BY <1>1, <1>2, SkipInvHolds, PTL DEF Spec
=============================================================================
