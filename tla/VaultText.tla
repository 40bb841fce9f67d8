-------------------------------- MODULE VaultText --------------------------------
(*****************************************************************************)
(* How a note is cut into chunks when it is indexed (vault_chunking.py).     *)
(*                                                                           *)
(* A character is a number: 0 for white space and line ends, and another one *)
(* for every place in the note, so that a chunk tells which part of the note *)
(* it holds.  A loop is a fold over what it runs through.                    *)
(*****************************************************************************)
EXTENDS Integers, SequencesExt, FiniteSetsExt

CONSTANTS
    Bodies,         \* notes, without their front matter
    ChunkSettings   \* sizes of a chunk, and how much of the one before it repeats

\* A line is a heading if its level is above 0.
BodyLine == [level : Nat, text : Seq(Nat)]

Chars(s) == {s[i] : i \in DOMAIN s} \ {0}

\* The characters of a text are in the order of the note, without repetition.
Ascending(s) == \A i, j \in DOMAIN s : i < j /\ s[i] # 0 /\ s[j] # 0 => s[i] < s[j]

\* A chunk of no characters would lose text; the code's default is 900.
ASSUME ChunkingAssumption ==
    /\ Bodies \subseteq Seq(BodyLine)
    /\ \A b \in Bodies : \A i, k \in DOMAIN b :
          /\ Ascending(b[i].text)
          /\ i < k => \A c \in Chars(b[i].text), d \in Chars(b[k].text) : c < d
    /\ ChunkSettings \subseteq [size : Nat \ {0}, overlap : Nat]

VARIABLES
    body,       \* the note
    chunking    \* RAG_CHUNK_SIZE and RAG_CHUNK_OVERLAP

NoteInit == body \in Bodies /\ chunking \in ChunkSettings

NoteSpec == NoteInit /\ [][UNCHANGED <<body, chunking>>]_<<body, chunking>>

-----------------------------------------------------------------------------
Least(a, b) == IF a < b THEN a ELSE b
Most(a, b) == IF a > b THEN a ELSE b

\* str.strip
Strip(s) ==
    LET visible == {i \in DOMAIN s : s[i] # 0}
    IN  IF visible = {} THEN <<>> ELSE SubSeq(s, Min(visible), Max(visible))

\* What is only white space is not kept.
Flush(kept, s) == IF Chars(s) = {} THEN kept ELSE Append(kept, Strip(s))

Joined(s, gap, t) == IF s = <<>> THEN t ELSE s \o gap \o t

-----------------------------------------------------------------------------
\* Mutant of Enclosing: a heading does not close its sisters.
MutantEnclosing(stack, heading) ==
    LET Above(kept, h) == IF h.level <= heading.level THEN Append(kept, h) ELSE kept
    IN  Append(FoldLeft(Above, <<>>, stack), heading)

\* The headings over a new one: it closes those of its level and below.
Above(kept, h, level) == IF h.level < level THEN Append(kept, h) ELSE kept

Enclosing(stack, heading) ==
    Append(FoldLeft(LAMBDA kept, h : Above(kept, h, heading.level), <<>>, stack), heading)

\* collect_heading_sections: each section starts with its heading.
Closed(st) == IF st.lines = <<>> THEN st.sections
              ELSE Append(st.sections, [path |-> st.stack, lines |-> st.lines])

ReadLine(st, line) ==
    IF line.level = 0 THEN [st EXCEPT !.lines = Append(st.lines, line.text)]
    ELSE [stack |-> Enclosing(st.stack, line), lines |-> <<line.text>>, sections |-> Closed(st)]

Sections(note) ==
    Closed(FoldLeft(ReadLine, [stack |-> <<>>, lines |-> <<>>, sections |-> <<>>], note))

\* re.split: the runs of lines that are not blank, joined by line ends.
ReadText(st, line) ==
    IF Chars(line) = {} THEN [kept |-> Flush(st.kept, st.open), open |-> <<>>]
    ELSE [st EXCEPT !.open = Joined(st.open, <<0>>, line)]

Paragraphs(lines) ==
    LET st == FoldLeft(ReadText, [kept |-> <<>>, open |-> <<>>], lines)
    IN  Flush(st.kept, st.open)

\* split_long_text: windows of the size, each overlapping the one before it.
\* A window moves on by a character at least, so the loop has as many turns as
\* the text has characters, or fewer.
Slide(st, long, size, overlap) ==
    LET end == Least(Len(long), st.start + size)
    IN  IF st.start >= Len(long) THEN st
        ELSE [kept |-> Flush(st.kept, SubSeq(long, st.start + 1, end)),
              start |-> IF end = Len(long) THEN end ELSE Most(end - overlap, st.start + 1)]

Windows(long, size, overlap) ==
    FoldLeft(LAMBDA st, c : Slide(st, long, size, overlap), [kept |-> <<>>, start |-> 0], long).kept

Suffix(s, n) == SubSeq(s, Most(1, Len(s) - n + 1), Len(s))

\* split_text_preserving_paragraphs
Place(st, p, size, overlap) ==
    CASE Len(p) > size ->
            [kept |-> Flush(st.kept, st.current) \o Windows(p, size, overlap), current |-> <<>>]
      [] Len(p) <= size /\ Len(Joined(st.current, <<0, 0>>, p)) <= size ->
            [st EXCEPT !.current = Joined(st.current, <<0, 0>>, p)]
      [] OTHER ->
            [kept |-> Flush(st.kept, st.current),
             current |-> Joined(Strip(Suffix(st.current, overlap)), <<0, 0>>, p)]

Pieces(lines, size, overlap) ==
    LET st == FoldLeft(LAMBDA s, p : Place(s, p, size, overlap), [kept |-> <<>>, current |-> <<>>],
                       Paragraphs(lines))
    IN  Flush(st.kept, st.current)

\* split_markdown_chunks, after the front matter is stripped.
Cut(section, size, overlap) ==
    LET pieces == Pieces(section.lines, size, overlap)
    IN  [j \in DOMAIN pieces |-> [path |-> section.path, content |-> pieces[j]]]

Chunks(note, size, overlap) ==
    FlattenSeq([i \in DOMAIN Sections(note) |-> Cut(Sections(note)[i], size, overlap)])

-----------------------------------------------------------------------------
\* The headings over a line: those before it, or itself, that no heading of their
\* level or above has closed since.
Over(i) == {h \in 1..i : /\ body[h].level > 0
                         /\ \A g \in (h + 1)..i : body[g].level = 0 \/ body[g].level > body[h].level}

\* path is made of these headings, in their order.
IsPath(path, i) ==
    \E at \in [DOMAIN path -> Over(i)] :
        /\ \A h \in Over(i) : \E n \in DOMAIN path : at[n] = h
        /\ \A n \in DOMAIN path : path[n] = body[at[n]]
        /\ \A m, n \in DOMAIN path : m < n => at[m] < at[n]

\* split_markdown_chunks: every character of the note is in a chunk, under exactly
\* the headings over its line; within a chunk and from chunk to chunk the text goes
\* on in the order of the note; and no chunk is longer than its size and one overlap.
ChunksKeepTheNote ==
    LET chunks == Chunks(body, chunking.size, chunking.overlap)
    IN  /\ \A i \in DOMAIN body : \A c \in Chars(body[i].text) :
              LET holders == {k \in DOMAIN chunks : c \in Chars(chunks[k].content)}
              IN  /\ holders # {}
                  /\ \A k \in holders : /\ IsPath(chunks[k].path, i)
                                        /\ \A l \in DOMAIN chunks : l > k =>
                                               \E d \in Chars(chunks[l].content) : d >= c
        /\ \A k \in DOMAIN chunks :
              /\ Ascending(chunks[k].content)
              /\ Len(chunks[k].content) <= chunking.size + chunking.overlap + 2
=============================================================================
