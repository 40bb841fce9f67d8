------------------------------- MODULE SpeakerTurns ------------------------------
(*****************************************************************************)
(* Who says what in a transcript: how the diarization service names the      *)
(* speakers of its turns, which turns the worker takes over, and how it      *)
(* gives the words of the transcript to the speakers.                        *)
(*                                                                           *)
(* A loop is a fold over what it runs through.  Times are integers; white    *)
(* space around a speaker's name and the texts are left out.                 *)
(*****************************************************************************)
EXTENDS Integers, SequencesExt

CONSTANTS
    Speakers,       \* the names the pipeline gives to voices
    Nobody,         \* None, the speaker of words outside every turn
    Diarizations,   \* what the pipeline finds
    Recordings      \* the segments of the transcripts

Word == [start : Int, end : Int]
RawTurn == [start : Int, end : Int, speaker : Speakers]
Segment == [start : Int, end : Int, words : Seq(Word)]

ASSUME SpeechAssumption ==
    Diarizations \subseteq Seq(RawTurn) /\ Recordings \subseteq Seq(Segment) /\ Nobody \notin Nat

VARIABLES
    found,      \* raw_turns, as they come
    segments    \* the segments of the transcript

Lasts(t) == t.end > t.start

\* Without a turn the diarization fails, and nothing is labelled.
SpeechInit ==
    /\ found \in Diarizations /\ segments \in Recordings
    /\ \E i \in DOMAIN found : Lasts(found[i])

SpeechSpec == SpeechInit /\ [][UNCHANGED <<found, segments>>]_<<found, segments>>

-----------------------------------------------------------------------------
\* normalize_speaker_turns of the service.

\* raw_turns.sort: by start and end, otherwise in the order they came.
Earlier(i, j) ==
    \/ found[i].start < found[j].start
    \/ found[i].start = found[j].start /\ found[i].end < found[j].end
    \/ found[i].start = found[j].start /\ found[i].end = found[j].end /\ i < j

InTime(k) ==
    CHOOSE i \in DOMAIN found : Cardinality({j \in DOMAIN found : Earlier(j, i)}) = k - 1

\* speaker_names.setdefault: "Speaker n" is the number n.
Name(st, t) ==
    LET names == IF \E n \in DOMAIN st.names : st.names[n] = t.speaker
                 THEN st.names ELSE Append(st.names, t.speaker)
        n == CHOOSE n \in DOMAIN names : names[n] = t.speaker
    IN  IF Lasts(t)
        THEN [names |-> names,
              turns |-> Append(st.turns, [start |-> t.start, end |-> t.end, speaker |-> n])]
        ELSE st

Named(ts) == FoldLeft(Name, [names |-> <<>>, turns |-> <<>>], ts).turns

Normalized == Named([k \in DOMAIN found |-> found[InTime(k)]])

\* DiarizationClient.diarize: the turns that are usable.
Usable(ts) == FoldLeft(LAMBDA kept, t : IF Lasts(t) THEN Append(kept, t) ELSE kept, <<>>, ts)

Turns == Usable(Normalized)

-----------------------------------------------------------------------------
\* apply_speaker_turns of the worker.

Overlap(w, t) ==
    LET from == IF w.start > t.start THEN w.start ELSE t.start
        to == IF w.end < t.end THEN w.end ELSE t.end
    IN  IF to > from THEN to - from ELSE 0

\* Twice the middle of a word, to stay with integers.
HasMiddle(w, t) == 2 * t.start <= w.start + w.end /\ w.start + w.end <= 2 * t.end

\* Mutant of BestSpeaker: the first turn that overlaps is taken.
MutantBestSpeaker(w, turns) ==
    FoldLeft(LAMBDA best, t :
                CASE best = Nobody /\ Overlap(w, t) > 0 -> t.speaker
                  [] best = Nobody /\ Overlap(w, t) = 0 /\ HasMiddle(w, t) -> t.speaker
                  [] OTHER -> best,
             Nobody, turns)

\* _best_speaker
Better(w, best, t) ==
    CASE Overlap(w, t) > best.overlap -> [speaker |-> t.speaker, overlap |-> Overlap(w, t)]
      [] Overlap(w, t) = 0 /\ best.speaker = Nobody /\ HasMiddle(w, t) ->
            [speaker |-> t.speaker, overlap |-> best.overlap]
      [] OTHER -> best

BestSpeaker(w, turns) ==
    FoldLeft(LAMBDA best, t : Better(w, best, t), [speaker |-> Nobody, overlap |-> 0], turns).speaker

Line(w, words, turns) ==
    [start |-> w.start, end |-> w.end, words |-> words, speaker |-> BestSpeaker(w, turns)]

\* _group_words_by_speaker: a new line where the speaker changes.
Grouped(lines, w, turns) ==
    IF lines # <<>> /\ Last(lines).speaker = BestSpeaker(w, turns)
    THEN Append(Front(lines),
                [Last(lines) EXCEPT !.end = w.end, !.words = Append(Last(lines).words, w)])
    ELSE Append(lines, Line(w, <<w>>, turns))

GroupWords(words, turns) == FoldLeft(LAMBDA lines, w : Grouped(lines, w, turns), <<>>, words)

\* A segment without words keeps its times.
Labelled(s, turns) ==
    IF s.words # <<>> THEN GroupWords(s.words, turns) ELSE <<Line(s, <<>>, turns)>>

Lines == FlattenSeq([i \in DOMAIN segments |-> Labelled(segments[i], Turns)])

-----------------------------------------------------------------------------
\* The turns of the worker are those of the pipeline that last, in time; two have
\* one number if they have one speaker; and the numbers are given in the order the
\* speakers are first heard, with no gap.
TurnsAreNamed ==
    /\ \E of \in [DOMAIN Turns -> {i \in DOMAIN found : Lasts(found[i])}] :
          /\ \A i \in DOMAIN found : Lasts(found[i]) => \E k \in DOMAIN Turns : of[k] = i
          /\ \A k \in DOMAIN Turns : /\ Turns[k].start = found[of[k]].start
                                     /\ Turns[k].end = found[of[k]].end
          /\ \A k, l \in DOMAIN Turns :
                /\ k < l => Earlier(of[k], of[l])
                /\ Turns[k].speaker = Turns[l].speaker <=> found[of[k]].speaker = found[of[l]].speaker
    /\ \A k \in DOMAIN Turns : \A n \in 1..(Turns[k].speaker - 1) :
          \E j \in 1..(k - 1) : Turns[j].speaker = n

\* Whom a word belongs to: the turn that shares most of it, the first of several;
\* without any, the first turn around its middle.
SaidBy(w, speaker, turns) ==
    \/ \E i \in DOMAIN turns :
          /\ turns[i].speaker = speaker /\ Overlap(w, turns[i]) > 0
          /\ \A j \in DOMAIN turns : /\ Overlap(w, turns[j]) <= Overlap(w, turns[i])
                                     /\ j < i => Overlap(w, turns[j]) < Overlap(w, turns[i])
    \/ /\ \A j \in DOMAIN turns : Overlap(w, turns[j]) = 0
       /\ \/ \E i \in DOMAIN turns :
                /\ turns[i].speaker = speaker /\ HasMiddle(w, turns[i])
                /\ \A j \in 1..(i - 1) : ~HasMiddle(w, turns[j])
          \/ speaker = Nobody /\ \A j \in DOMAIN turns : ~HasMiddle(w, turns[j])

AllWords(lines) == FlattenSeq([i \in DOMAIN lines |-> lines[i].words])

\* A labelled transcript has all its words in their order, each under the one who
\* says it, with the times of the words of a line, and a new line within a segment
\* only where the speaker changes.
WordsAreLabelled ==
    /\ AllWords(Lines) = AllWords(segments)
    /\ \A i \in DOMAIN Lines :
          LET l == Lines[i]
          IN  IF l.words = <<>> THEN SaidBy(l, l.speaker, Turns)
              ELSE /\ \A k \in DOMAIN l.words : SaidBy(l.words[k], l.speaker, Turns)
                   /\ l.start = l.words[1].start /\ l.end = l.words[Len(l.words)].end
    /\ \A i \in DOMAIN segments :
          LET own == Labelled(segments[i], Turns)
          IN  IF segments[i].words = <<>>
              THEN Len(own) = 1 /\ own[1].start = segments[i].start /\ own[1].end = segments[i].end
              ELSE \A k \in 2..Len(own) : own[k].speaker # own[k - 1].speaker

\* normalize_speaker_turns and apply_speaker_turns.
SpeakersAreRight == TurnsAreNamed /\ WordsAreLabelled
=============================================================================
