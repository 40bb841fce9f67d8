--------------------------------- MODULE MCTexts ---------------------------------
(*****************************************************************************)
(* Small instances of MeetingPlan, VaultSearch, VaultText and SpeakerTurns   *)
(* for TLC: a state is a meeting whose transcript is being split, a search   *)
(* at work, a note to be cut, or a recording whose speakers are found.       *)
(*****************************************************************************)
EXTENDS MeetingPlan, VaultSearch, VaultText, SpeakerTurns

CONSTANTS MaxText, MaxLines, MaxHits, MaxTurns

\* Texts without blanks at either end.
ShortTranscripts ==
    UNION {{t \in [1..n -> Character] : t[1] \notin Blank /\ t[n] \notin Blank} : n \in 1..MaxText}
        \cup {<<>>}

ShortNotes == BoundedSeq({"skeleton", "own"}, 3)

-----------------------------------------------------------------------------
\* Lines of text, some indented, some with white space in them, and headings of two
\* levels; character j of line i is 10 * i + j.
LineKinds == {<<0, n>> : n \in 0..3} \cup {<<l, n>> : l \in 1..2, n \in 1..2}
LineText(i, kind) == [j \in 1..kind[2] |-> IF kind[1] = 0 /\ j = kind[2] - 1 THEN 0 ELSE 10 * i + j]

\* A body is stripped: its first and last lines are not blank, nor is the first indented.
ShortBodies ==
    UNION {{[i \in 1..n |-> [level |-> f[i][1], text |-> LineText(i, f[i])]] :
                f \in {g \in [1..n -> LineKinds] :
                          n > 0 => g[1] \notin {<<0, 0>>, <<0, 2>>} /\ g[n] # <<0, 0>>}} :
           n \in 0..MaxLines}

\* The last one overlaps more than its size.
FewSettings == {[size |-> c[1], overlap |-> c[2]] : c \in {<<2, 1>>, <<4, 2>>, <<5, 0>>, <<2, 3>>}}

\* Of two documents, the first hit is one of the first.
ShortHitLists ==
    UNION {{[i \in 1..n |-> [document |-> f[i][1], score |-> f[i][2], size |-> f[i][3]]] :
                f \in {g \in [1..n -> {"d1", "d2"} \X {1, 2} \X {1, 3}] : n > 0 => g[1][1] = "d1"}} :
           n \in 0..MaxHits}

-----------------------------------------------------------------------------
Times == 0..3
Voices == {"s1", "s2"}
RawTurns == [start : Times, end : Times, speaker : Voices]
Words == {w \in [start : Times, end : Times] : w.start <= w.end}

\* Any turn, or several of those that matter; the first voice is s1.
FewTurns ==
    {ts \in BoundedSeq(RawTurns, 1) \cup BoundedSeq({t \in RawTurns : t.end # 0 /\ t.start # 3}, MaxTurns) :
        ts # <<>> => ts[1].speaker = "s1"}

\* A segment of words, and maybe one without.
FewSegments ==
    LET Said(words) == [start |-> 0, end |-> 3, words |-> words]
    IN  UNION {{<<Said(words)>>, <<Said(words), [start |-> 1, end |-> 3, words |-> <<>>]>>} :
                   words \in BoundedSeq(Words, 2) \ {<<>>}}

-----------------------------------------------------------------------------
NoSearch == /\ hits = <<>> /\ pgvector = FALSE /\ order = <<>> /\ topK = 1 /\ cap = 1
            /\ pass = "done" /\ next = 1 /\ selected = <<>> /\ counts = [d \in Documents |-> 0]
            /\ blocks = <<>> /\ used = 0

NoMeeting == /\ text = <<>> /\ notes = <<"own">> /\ mode = "standard" /\ minChars = 5
             /\ cursor = 0 /\ chunks = <<>>

NoNote == body = <<>> /\ chunking = [size |-> 4, overlap |-> 2]

NoSpeech == found = <<>> /\ segments = <<>>

\* The notes of a meeting only matter without a transcript, or for the sections of
\* deep think; one word is said among many turns, or two among one turn.
Init == \/ /\ MeetingInit /\ NoSearch /\ NoNote /\ NoSpeech
           /\ notes # <<>> => Len(text) <= 1
        \/ NoMeeting /\ SearchInit /\ NoNote /\ NoSpeech
        \/ NoMeeting /\ NoSearch /\ NoteInit /\ NoSpeech
        \/ /\ NoMeeting /\ NoSearch /\ NoNote /\ SpeechInit
           /\ Len(found) > 1 => Len(segments[1].words) = 1 /\ segments[1].words[1].start = 1

vars == <<meetingVars, searchVars, body, chunking, found, segments>>

Next == \/ MeetingNext /\ UNCHANGED <<searchVars, body, chunking, found, segments>>
        \/ SearchNext /\ UNCHANGED <<meetingVars, body, chunking, found, segments>>

Spec == Init /\ [][Next]_vars
=============================================================================
