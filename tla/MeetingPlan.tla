------------------------------- MODULE MeetingPlan -------------------------------
(*****************************************************************************)
(* The prompts of a meeting report: what prepare_plan and                    *)
(* run_meeting_generation make of a transcript and the manual notes.  A deep *)
(* think report has a prompt per section.  A long transcript is split into   *)
(* chunks, one loop iteration per step of this module, and has a prompt per  *)
(* chunk and a last one for the report, written from the answers to them.    *)
(*                                                                           *)
(* A text is a sequence of characters, of which only the class matters here; *)
(* a chunk is the set of the positions of its non-blank characters.          *)
(*****************************************************************************)
EXTENDS Integers, Sequences

CONSTANTS
    Transcripts,     \* transcripts, stripped and cleaned
    ManualNotes,     \* manual notes: for each section with a title and a
                     \* content, is the title one of the note skeleton?
    Thresholds,      \* meeting_predigest_min_chars, as it may be set
    ChunkChars,      \* meeting_predigest_chunk_chars
    MaxChunks,       \* meeting_predigest_max_chunks
    Slack,           \* 1200, how far back a boundary is searched
    MaxSections,     \* meeting_deep_think_max_sections
    CoreSections     \* len(DEEP_THINK_CORE_SECTIONS)

Blank == {"space", "newline"}
Character == {"letter", "stop"} \cup Blank

\* What the schema of the settings and the stripping of texts give: the threshold
\* and the number of sections may be anything.
ASSUME SettingsAssumption ==
    /\ \A t \in Transcripts : t \in Seq(Character) /\ (t # <<>> => t[1] \notin Blank)
    /\ ManualNotes \subseteq Seq({"skeleton", "own"})
    /\ Thresholds \subseteq Int /\ ChunkChars \in Nat \ {0} /\ MaxChunks \in Nat \ {0}
    /\ Slack \in Nat \ {0} /\ MaxSections \in Int /\ CoreSections \in Nat \ {0}

VARIABLES
    text,      \* prepared.cleaned_transcript
    notes,     \* prepared.manual_notes
    mode,      \* prepared.generation_mode
    minChars,  \* how long a transcript is split (none may be: the setting is off)
    cursor,    \* how far the transcript is split
    chunks     \* the chunks so far

meetingVars == <<text, notes, mode, minChars, cursor, chunks>>

\* prepare_meeting_inputs: not without transcript and notes.
MeetingInit ==
    /\ text \in Transcripts
    /\ notes \in ManualNotes
    /\ text # <<>> \/ notes # <<>>
    /\ mode \in {"standard", "deep_think"}
    /\ minChars \in Thresholds
    /\ cursor = 0
    /\ chunks = <<>>

-----------------------------------------------------------------------------
\* split_transcript_for_predigest --------------------------------------------

\* Mutant of TargetSize: no allowance for the boundaries.
MutantTargetSize ==
    LET share == (Len(text) + MaxChunks - 1) \div MaxChunks
    IN  IF share > ChunkChars THEN share ELSE ChunkChars

\* So long that MaxChunks are enough, although a boundary may cut Slack off each.
TargetSize ==
    LET share == (Len(text) + MaxChunks - 1) \div MaxChunks + Slack
    IN  IF share > ChunkChars THEN share ELSE ChunkChars

ProposedEnd == IF cursor + TargetSize < Len(text) THEN cursor + TargetSize ELSE Len(text)

SearchStart ==
    LET half == cursor + TargetSize \div 2
    IN  IF half > ProposedEnd - Slack THEN half ELSE ProposedEnd - Slack

\* Does a line or a sentence end at position e, within the proposed chunk?
Boundary(e) ==
    /\ e \in (SearchStart + 1)..ProposedEnd
    /\ e > cursor + 1
    /\ \/ text[e] = "newline"
       \/ text[e] = "stop" /\ e < ProposedEnd /\ text[e + 1] = "space"

\* The last boundary there is.
ChunkEnd(e) ==
    LET boundaries == {b \in 1..Len(text) : Boundary(b)}
    IN  IF ProposedEnd < Len(text) /\ boundaries # {}
        THEN e \in boundaries /\ \A b \in boundaries : b <= e
        ELSE e = ProposedEnd

Kept(from, to) == {i \in from..to : text[i] \notin Blank}

Predigests == mode # "deep_think" /\ Len(text) >= minChars

\* Mutant of SplitOnce: the cursor moves past the character after the boundary.
MutantSplitOnce ==
    /\ Predigests /\ cursor < Len(text)
    /\ \E end \in 1..Len(text) :
        LET chunk == Kept(cursor + 1, end)
        IN  /\ ChunkEnd(end)
            /\ chunks' = IF chunk # {} THEN Append(chunks, chunk) ELSE chunks
            /\ cursor' = IF end < Len(text) THEN end + 1 ELSE end
    /\ UNCHANGED <<text, notes, mode, minChars>>

\* The cursor always moves, so that max(end, cursor + 1) is the end.
SplitOnce ==
    /\ Predigests /\ cursor < Len(text)
    /\ \E end \in 1..Len(text) :
        LET chunk == Kept(cursor + 1, end)
        IN  /\ ChunkEnd(end)
            /\ chunks' = IF chunk # {} THEN Append(chunks, chunk) ELSE chunks
            /\ cursor' = end
    /\ UNCHANGED <<text, notes, mode, minChars>>

MeetingNext == SplitOnce

MeetingSpec == MeetingInit /\ [][MeetingNext]_meetingVars

-----------------------------------------------------------------------------
\* build_deep_think_sections: the sections of the notes, or the core sections
\* when the notes have none but those of the note skeleton.
UseCoreSections == \A i \in DOMAIN notes : notes[i] = "skeleton"

SectionCount ==
    LET found == IF UseCoreSections THEN CoreSections ELSE Len(notes)
        most == IF MaxSections > 1 THEN MaxSections ELSE 1
    IN  IF found < most THEN found ELSE most

\* plan["steps"]: for each step, is its prompt known?
Plan ==
    CASE mode = "deep_think" -> [i \in 1..SectionCount |-> TRUE]
      [] Predigests -> [i \in 1..(Len(chunks) + 1) |-> i <= Len(chunks)]
      [] OTHER -> <<TRUE>>

PlanIsReady == Predigests => cursor = Len(text)

-----------------------------------------------------------------------------
\* The chunks have every word said so far, once and in order, and none is empty.
NothingLost ==
    /\ UNION {chunks[k] : k \in DOMAIN chunks} = Kept(1, cursor)
    /\ \A k, l \in DOMAIN chunks : k < l => \A i \in chunks[k], j \in chunks[l] : i < j
    /\ \A k \in DOMAIN chunks : chunks[k] # {}

\* A chunk spans no more characters than a call may have.
NoneTooLong == \A k \in DOMAIN chunks : \A i, j \in chunks[k] : j - i < TargetSize

\* split_transcript_for_predigest: the chunks are in the order of the meeting,
\* and every word said so far is in exactly one of them: none is lost or
\* repeated at a boundary, and no chunk is empty.  They are never more than
\* MaxChunks, and none is longer than TargetSize.
SplitIsComplete == NothingLost /\ NoneTooLong /\ Len(chunks) <= MaxChunks

\* A report from the answers about the parts of a transcript that has none.
ReportOfNothing == mode # "deep_think" /\ text = <<>> /\ minChars <= 0

\* prepare_plan: a meeting never needs more calls than the settings allow, and
\* only its last prompt waits for the answers to the others.  The first one can
\* be handed out, which is what the durable store relies on (PlansAssumption of
\* GenerationRuns), except in one case: with MEETING_PREDIGEST_MIN_CHARS at 0 or
\* below, manual notes alone are a long transcript without parts.
PlanIsServable ==
    PlanIsReady =>
        /\ \A i \in DOMAIN Plan : ~Plan[i] => i = Len(Plan)
        /\ Len(Plan) >= 1
        /\ Plan[1] <=> ~ReportOfNothing
        /\ mode # "deep_think" => Len(Plan) <= MaxChunks + 1
        /\ mode = "deep_think" /\ MaxSections > 0 => Len(Plan) <= MaxSections
=============================================================================
