-------------------------------- MODULE VaultSync ---------------------------------
(*****************************************************************************)
(* The vault indexer of the plugin (main.ts): the event handlers and the     *)
(* periodic scan that queue notes, the loop that empties the queue, and the  *)
(* runs the user starts, which share the local record of what was indexed    *)
(* and reach the gateway by requests that may fail.                          *)
(*****************************************************************************)
EXTENDS Naturals, SequencesExt

CONSTANTS
    Notes,      \* paths of Markdown notes
    Ignored,    \* those that the exclusions keep from the gateway
    MaxEdits,   \* bound on the edits of the vault
    None        \* no path

VARIABLES
    file,       \* the vault: the notes with their stat, which tells contents apart
    clock,      \* the last modification time given
    automatic,  \* shouldAutoIndex
    local,      \* ragLocalIndexState
    timers,     \* ragAutoIndexTimers
    queue,      \* ragIndexQueue
    call,       \* indexVaultNote, called by the loop of the queue or by the user
    todo,       \* the notes left of the run the user started
    cancelled,  \* ragIndexCancelRequested
    removal,    \* deleteVaultDocument by path, and where a renamed note went
    remote      \* the content the gateway has indexed (0 for none)

vars == <<file, clock, automatic, local, timers, queue, call, todo, cancelled, removal, remote>>

Callers == {"queue", "user"}
Idle == [at |-> "idle", note |-> None, stat |-> 0]
NoRemoval == [at |-> "idle", to |-> None]
NotTracked == [stat |-> 0, status |-> "none"]

TypeOK ==
    /\ file \in [Notes -> [stat : 0..MaxEdits, exists : BOOLEAN]]
    /\ clock \in 0..MaxEdits
    /\ automatic \in BOOLEAN /\ cancelled \in BOOLEAN
    /\ local \in [Notes -> [stat : 0..MaxEdits,
                            status : {"none", "pending", "indexed", "error", "deleted"}]]
    /\ timers \subseteq Notes /\ todo \subseteq Notes
    /\ queue \in Seq(Notes) /\ IsInjective(queue)
    /\ call \in [Callers -> [at : {"idle", "loop", "reading", "sent", "answered"},
                             note : Notes \cup {None}, stat : 0..MaxEdits]]
    /\ removal \in [Notes -> [at : {"idle", "sent", "answered"}, to : Notes \cup {None}]]
    /\ remote \in [Notes -> 0..MaxEdits]

Init ==
    /\ file = [n \in Notes |-> [stat |-> 0, exists |-> FALSE]]
    /\ clock = 0
    /\ automatic \in BOOLEAN
    /\ local = [n \in Notes |-> NotTracked]
    /\ timers = {} /\ todo = {} /\ queue = <<>>
    /\ call = [c \in Callers |-> Idle]
    /\ cancelled = FALSE
    /\ removal = [n \in Notes |-> NoRemoval]
    /\ remote = [n \in Notes |-> 0]

-----------------------------------------------------------------------------
\* Events of the vault -----------------------------------------------------

\* handleRagAutoIndexFile: the debounce begins anew and the note is pending.
Handle(n, stat) ==
    IF automatic
    THEN /\ timers' = timers \cup {n}
         /\ local' = [local EXCEPT ![n] = [stat |-> stat, status |-> "pending"]]
    ELSE UNCHANGED <<timers, local>>

\* A note is created or modified.
Edit(n) ==
    /\ clock < MaxEdits
    /\ clock' = clock + 1
    /\ file' = [file EXCEPT ![n] = [stat |-> clock + 1, exists |-> TRUE]]
    /\ Handle(n, clock + 1)
    /\ UNCHANGED <<automatic, queue, call, todo, cancelled, removal, remote>>

\* deleteVaultDocument is asked for when a note is deleted or moved away; there
\* is one such request for a path at a time (a bound).
AskRemoval(n, to) ==
    IF automatic THEN removal' = [removal EXCEPT ![n] = [at |-> "sent", to |-> to]]
    ELSE UNCHANGED removal

Delete(n) ==
    /\ file[n].exists /\ removal[n].at = "idle"
    /\ file' = [file EXCEPT ![n].exists = FALSE]
    /\ AskRemoval(n, None)
    /\ UNCHANGED <<clock, automatic, local, timers, queue, call, todo, cancelled, remote>>

\* The note keeps its modification time.
Rename(n, to) ==
    /\ file[n].exists /\ ~file[to].exists /\ removal[n].at = "idle"
    /\ file' = [file EXCEPT ![n].exists = FALSE, ![to] = file[n]]
    /\ AskRemoval(n, to)
    /\ UNCHANGED <<clock, automatic, local, timers, queue, call, todo, cancelled, remote>>

GatewayDeletes(n) ==
    /\ removal[n].at = "sent"
    /\ removal' = [removal EXCEPT ![n].at = "answered"]
    /\ remote' = [remote EXCEPT ![n] = 0]
    /\ UNCHANGED <<file, clock, automatic, local, timers, queue, call, todo, cancelled>>

\* handleRenamePath goes on with the new path.
RemovalAnswered(n) ==
    LET to == removal[n].to IN
    /\ removal[n].at = "answered"
    /\ removal' = [removal EXCEPT ![n] = NoRemoval]
    /\ \/ /\ to = None
          /\ local' = [local EXCEPT ![n] = [stat |-> 0, status |-> "deleted"]]
          /\ UNCHANGED timers
       \/ /\ to # None /\ automatic
          /\ timers' = timers \cup {to}
          /\ local' = [local EXCEPT ![n] = NotTracked,
                                    ![to] = [stat |-> file[to].stat, status |-> "pending"]]
       \/ /\ to # None /\ ~automatic
          /\ local' = [local EXCEPT ![n] = NotTracked]
          /\ UNCHANGED timers
    /\ UNCHANGED <<file, clock, automatic, queue, call, todo, cancelled, remote>>

RemovalFails(n) ==
    /\ removal[n].at # "idle"
    /\ removal' = [removal EXCEPT ![n] = NoRemoval]
    /\ UNCHANGED <<file, clock, automatic, local, timers, queue, call, todo, cancelled, remote>>

\* The queue ---------------------------------------------------------------

\* enqueueRagIndex, which starts processRagIndexQueue.
Enqueue(notes) ==
    /\ queue' = queue \o SetToSeq(notes \ ToSet(queue))
    /\ call' = IF call["queue"] = Idle /\ notes # {}
               THEN [call EXCEPT !["queue"].at = "loop"] ELSE call

DebounceOver(n) ==
    /\ n \in timers
    /\ timers' = timers \ {n}
    /\ Enqueue({n})
    /\ UNCHANGED <<file, clock, automatic, local, todo, cancelled, removal, remote>>

\* What the local record says needs no request.
UpToDate(n) == local[n].stat = file[n].stat /\ local[n].status \notin {"none", "error"}

\* scanModifiedNotesForRag, on its interval or forced by the user.
Scan(force) ==
    /\ automatic \/ force
    /\ Enqueue({n \in Notes : file[n].exists /\ (force \/ ~UpToDate(n))})
    /\ UNCHANGED <<file, clock, automatic, local, timers, todo, cancelled, removal, remote>>

ReindexErroredNotes ==
    /\ Enqueue({n \in Notes : file[n].exists /\ local[n].status = "error"})
    /\ UNCHANGED <<file, clock, automatic, local, timers, todo, cancelled, removal, remote>>

\* One turn of the loop of processRagIndexQueue.
ProcessQueue ==
    /\ call["queue"].at = "loop"
    /\ \/ /\ queue = <<>> \/ cancelled
          /\ queue' = <<>>
          /\ call' = [call EXCEPT !["queue"] = Idle]
       \/ /\ queue # <<>> /\ ~cancelled
          /\ queue' = Tail(queue)
          /\ call' = IF UpToDate(Head(queue)) THEN call
                     ELSE [call EXCEPT !["queue"] = [at |-> "reading", note |-> Head(queue), stat |-> 0]]
    /\ UNCHANGED <<file, clock, automatic, local, timers, todo, cancelled, removal, remote>>

\* indexVaultNote ----------------------------------------------------------

Done(c) == [call EXCEPT ![c] = [Idle EXCEPT !.at = "loop"]]

\* A failure is only recorded by the loop of the queue.
Fail(c) ==
    /\ call' = Done(c)
    /\ local' = IF c = "queue"
                THEN [local EXCEPT ![call[c].note] = [stat |-> file[call[c].note].stat, status |-> "error"]]
                ELSE local

Read(c) ==
    LET n == call[c].note IN
    /\ call[c].at = "reading"
    /\ \/ /\ n \in Ignored
          /\ call' = Done(c)
          /\ UNCHANGED local
       \/ /\ n \notin Ignored /\ file[n].exists
          /\ call' = [call EXCEPT ![c].at = "sent", ![c].stat = file[n].stat]
          /\ UNCHANGED local
       \/ /\ n \notin Ignored /\ ~file[n].exists
          /\ Fail(c)
    /\ UNCHANGED <<file, clock, automatic, timers, queue, todo, cancelled, removal, remote>>

GatewayIndexes(c) ==
    /\ call[c].at = "sent"
    /\ call' = [call EXCEPT ![c].at = "answered"]
    /\ remote' = [remote EXCEPT ![call[c].note] = call[c].stat]
    /\ UNCHANGED <<file, clock, automatic, local, timers, queue, todo, cancelled, removal>>

\* The time recorded is the one of the note now.
IndexAnswered(c) ==
    LET n == call[c].note IN
    /\ call[c].at = "answered"
    /\ call' = Done(c)
    /\ local' = [local EXCEPT ![n] = [stat |-> file[n].stat, status |-> "indexed"]]
    /\ UNCHANGED <<file, clock, automatic, timers, queue, todo, cancelled, removal, remote>>

IndexFails(c) ==
    /\ call[c].at \in {"sent", "answered"}
    /\ Fail(c)
    /\ UNCHANGED <<file, clock, automatic, timers, queue, todo, cancelled, removal, remote>>

\* The user ----------------------------------------------------------------

\* One run of the user at a time (a bound).  indexVaultFiles resets the cancellation; indexCurrentNote does not.
IndexVaultFiles(notes) ==
    /\ call["user"] = Idle
    /\ cancelled' = FALSE
    /\ todo' = notes
    /\ call' = [call EXCEPT !["user"].at = "loop"]
    /\ UNCHANGED <<file, clock, automatic, local, timers, queue, removal, remote>>

IndexCurrentNote(n) ==
    /\ call["user"] = Idle /\ file[n].exists
    /\ call' = [call EXCEPT !["user"] = [at |-> "reading", note |-> n, stat |-> 0]]
    /\ UNCHANGED <<file, clock, automatic, local, timers, queue, todo, cancelled, removal, remote>>

NextFile ==
    /\ call["user"].at = "loop"
    /\ \/ /\ todo = {} \/ cancelled
          /\ todo' = {}
          /\ call' = [call EXCEPT !["user"] = Idle]
       \/ /\ ~cancelled
          /\ \E n \in todo :
                /\ todo' = todo \ {n}
                /\ call' = [call EXCEPT !["user"] = [at |-> "reading", note |-> n, stat |-> 0]]
    /\ UNCHANGED <<file, clock, automatic, local, timers, queue, cancelled, removal, remote>>

CancelRagIndexing ==
    /\ cancelled' = TRUE
    /\ queue' = <<>>
    /\ UNCHANGED <<file, clock, automatic, local, timers, call, todo, removal, remote>>

\* deleteVaultIndex
ResetIndex ==
    /\ remote' = [n \in Notes |-> 0]
    /\ local' = [n \in Notes |-> NotTracked]
    /\ UNCHANGED <<file, clock, automatic, timers, queue, call, todo, cancelled, removal>>

SwitchMode ==
    /\ automatic' = ~automatic
    /\ UNCHANGED <<file, clock, local, timers, queue, call, todo, cancelled, removal, remote>>

-----------------------------------------------------------------------------
Next ==
    \/ \E n \in Notes : \/ Edit(n)
                        \/ Delete(n)
                        \/ \E to \in Notes : Rename(n, to)
                        \/ GatewayDeletes(n)
                        \/ RemovalAnswered(n)
                        \/ RemovalFails(n)
                        \/ DebounceOver(n)
                        \/ IndexCurrentNote(n)
    \/ \E force \in BOOLEAN : Scan(force)
    \/ ReindexErroredNotes
    \/ ProcessQueue
    \/ NextFile
    \/ \E c \in Callers : Read(c) \/ GatewayIndexes(c) \/ IndexAnswered(c) \/ IndexFails(c)
    \/ \E notes \in SUBSET {n \in Notes : file[n].exists} : IndexVaultFiles(notes)
    \/ CancelRagIndexing
    \/ ResetIndex
    \/ SwitchMode

Spec == Init /\ [][Next]_vars

-----------------------------------------------------------------------------
\* No timer runs, nothing is queued, and no request is under way.
Settled == /\ timers = {} /\ queue = <<>>
           /\ \A c \in Callers : call[c] = Idle
           /\ \A n \in Notes : removal[n].at = "idle"

\* "`create` and `modify` on Markdown notes queue an index/reindex after
\* debounce" (deployment guide): in automatic mode, once everything has come to
\* rest and nobody cancelled, the gateway has the content of every note that the
\* record calls up to date, and so will never be asked about again.
SettledNotesAreIndexed ==
    Settled /\ automatic /\ ~cancelled =>
        \A n \in Notes \ Ignored : file[n].exists /\ UpToDate(n) => remote[n] = file[n].stat
=============================================================================
