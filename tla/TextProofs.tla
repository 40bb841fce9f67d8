------------------------------- MODULE TextProofs -------------------------------
(*****************************************************************************)
(* Proofs about the algorithms over texts.  MeetingPlan: a transcript of any *)
(* length is split without losing or repeating a word, into no more chunks   *)
(* than the settings allow.  VaultSearch: a search over any hits selects as  *)
(* many as it can, fairly between the notes, and quotes no more of them than *)
(* the budget.  SpeakerTurns: of any turns and words, the labels are right.  *)
(* VaultText: the chunks of any note keep all of it, in order, under its     *)
(* headings.                                                                 *)
(*****************************************************************************)
EXTENDS MeetingPlan, VaultSearch, SpeakerTurns, VaultText, SequenceTheorems, FiniteSetTheorems,
        WellFoundedInduction, TLAPS

-----------------------------------------------------------------------------
\* MeetingPlan ----------------------------------------------------------------------

\* The share of the transcript that MaxChunks equal chunks would have.
EqualShare == (Len(text) + MaxChunks - 1) \div MaxChunks

\* A chunk that is not the last one takes more than its share.
EnoughIsSplit ==
    IF cursor < Len(text) THEN Len(chunks) * EqualShare <= cursor ELSE Len(chunks) <= MaxChunks

TypeInv ==
    /\ text \in Transcripts
    /\ mode \in {"standard", "deep_think"} /\ minChars \in Thresholds
    /\ notes \in Seq({"skeleton", "own"})
    /\ cursor \in 0..Len(text)
    /\ chunks \in Seq(SUBSET Nat)

IInv == TypeInv /\ NothingLost /\ NoneTooLong /\ EnoughIsSplit

-----------------------------------------------------------------------------
\* MaxChunks shares make the transcript.
LEMMA SharesSuffice ==
    ASSUME NEW L \in Nat, NEW M \in Nat \ {0}
    PROVE  /\ (L + M - 1) \div M \in Nat
           /\ L <= M * ((L + M - 1) \div M)
<1> DEFINE a == L + M - 1
           q == a \div M
           r == a % M
<1>1. a \in Nat
  OBVIOUS
<1>2. a = M * q + r /\ 0 <= r /\ r < M /\ q \in Int
  BY <1>1
<1>3. q \in Nat
  BY <1>1
<1> QED
  BY <1>1, <1>2, <1>3

\* Fewer than M chunks that each took their share are less than M shares.
LEMMA SharesLeft ==
    ASSUME NEW n \in Nat, NEW M \in Nat, NEW q \in Nat, NEW c \in Nat,
           n * q <= c, c < M * q
    PROVE  n < M
<1>1. SUFFICES ASSUME n >= M PROVE FALSE
  OBVIOUS
<1>2. PICK d \in Nat : n = M + d
  BY <1>1
<1>3. n * q = M * q + d * q /\ d * q >= 0
  BY <1>2
<1> QED
  BY <1>3

\* One chunk more is one share more.
LEMMA OneMoreShare ==
    ASSUME NEW n \in Nat, NEW q \in Nat
    PROVE  (n + 1) * q = n * q + q /\ n * q \in Nat
  OBVIOUS

-----------------------------------------------------------------------------
\* Where a chunk ends: after the cursor, and not before its share unless it is
\* the last one.
LEMMA ChunkEnds ==
    ASSUME TypeInv, cursor < Len(text), NEW end \in 1..Len(text), ChunkEnd(end)
    PROVE  /\ end > cursor
           /\ end < Len(text) => end >= cursor + EqualShare
           /\ end <= cursor + TargetSize /\ TargetSize \in Nat
<1> DEFINE L == Len(text)
<1> USE SettingsAssumption
<1>1. L \in Nat /\ cursor \in Nat /\ Slack \in Nat \ {0} /\ ChunkChars \in Nat \ {0}
  BY LenProperties DEF TypeInv
<1>2. EqualShare \in Nat
  BY <1>1, SharesSuffice DEF EqualShare
<1>3. TargetSize \in Nat /\ TargetSize >= EqualShare + Slack /\ TargetSize >= 1
  BY <1>1, <1>2 DEF TargetSize, EqualShare
<1>4. ProposedEnd \in Nat /\ ProposedEnd > cursor /\ ProposedEnd <= L
      /\ ProposedEnd <= cursor + TargetSize
      /\ (ProposedEnd < L => ProposedEnd = cursor + TargetSize)
  BY <1>1, <1>3 DEF ProposedEnd
<1>5. SearchStart \in Int /\ SearchStart >= ProposedEnd - Slack
  BY <1>1, <1>3, <1>4 DEF SearchStart
<1>6. CASE end = ProposedEnd
  BY <1>1, <1>2, <1>3, <1>4, <1>6
<1>7. CASE end # ProposedEnd
  <2>1. ProposedEnd < L /\ Boundary(end)
    BY <1>7 DEF ChunkEnd
  <2>2. end > cursor + 1 /\ end >= SearchStart + 1 /\ end <= ProposedEnd
    BY <2>1, <1>5, <1>4 DEF Boundary
  <2> QED
    BY <2>1, <2>2, <1>1, <1>2, <1>3, <1>4, <1>5
<1> QED
  BY <1>6, <1>7

-----------------------------------------------------------------------------
\* What one more chunk does to the three invariants.
LEMMA Splitting ==
    ASSUME IInv, SplitOnce
    PROVE  IInv'
<1> DEFINE L == Len(text)
<1>1. PICK end \in 1..L :
          /\ ChunkEnd(end) /\ cursor' = end
          /\ chunks' = IF Kept(cursor + 1, end) # {} THEN Append(chunks, Kept(cursor + 1, end))
                       ELSE chunks
  BY DEF SplitOnce
<1>2. cursor < L /\ UNCHANGED <<text, notes, mode, minChars>>
  BY DEF SplitOnce
<1>3. L \in Nat /\ cursor \in Nat /\ chunks \in Seq(SUBSET Nat) /\ end \in Nat /\ text \in Seq(Character)
  BY LenProperties, SettingsAssumption DEF IInv, TypeInv
<1>4. /\ end > cursor /\ (end < L => end >= cursor + EqualShare)
      /\ end <= cursor + TargetSize /\ TargetSize \in Nat
  BY <1>1, <1>2, ChunkEnds DEF IInv
<1>5. DEFINE chunk == Kept(cursor + 1, end)
<1>6. chunk \in SUBSET Nat /\ \A i \in chunk : i > cursor /\ i <= end
  BY <1>3 DEF Kept
<1>7. \/ chunk # {} /\ chunks' = Append(chunks, chunk)
      \/ chunk = {} /\ chunks' = chunks
  BY <1>1
<1>8. /\ Len(Append(chunks, chunk)) = Len(chunks) + 1
      /\ Append(chunks, chunk) \in Seq(SUBSET Nat)
      /\ \A k \in 1..Len(chunks) : Append(chunks, chunk)[k] = chunks[k]
      /\ Append(chunks, chunk)[Len(chunks) + 1] = chunk
      /\ Len(chunks) \in Nat
  BY <1>3, <1>6, AppendProperties, LenProperties
<1>9. TypeInv'
  BY <1>1, <1>2, <1>3, <1>4, <1>7, <1>8 DEF TypeInv, IInv
<1>10. NothingLost'
  <2>1. Kept(1, end) = Kept(1, cursor) \cup chunk
    BY <1>3, <1>4 DEF Kept
  <2>2. Kept(1, cursor)' = Kept(1, end)
    BY <1>1, <1>2 DEF Kept
  <2>3. DOMAIN chunks = 1..Len(chunks) /\ DOMAIN (chunks') = 1..Len(chunks')
    BY <1>3, <1>7, <1>8, LenProperties
  <2>4. \A k \in DOMAIN chunks : \A i \in chunks[k] : i \in Nat /\ i <= cursor
    BY <1>3 DEF IInv, NothingLost, Kept
  <2>5. CASE chunk = {}
    BY <2>5, <2>1, <2>2, <1>7 DEF IInv, NothingLost
  <2>6. CASE chunk # {}
    <3>1. chunks' = Append(chunks, chunk)
      BY <2>6, <1>7
    <3> HIDE DEF chunk
    <3>2. DOMAIN (chunks') = 1..(Len(chunks) + 1) /\ \A k \in DOMAIN chunks : chunks'[k] = chunks[k]
      BY <3>1, <2>3, <1>8
    <3>3. chunks'[Len(chunks) + 1] = chunk
      BY <3>1, <1>8
    <3>4. \A k \in DOMAIN (chunks') : k \in DOMAIN chunks \/ k = Len(chunks) + 1
      BY <3>2, <2>3, <1>8
    <3>5. UNION {chunks'[k] : k \in DOMAIN (chunks')} = (UNION {chunks[k] : k \in DOMAIN chunks}) \cup chunk
      <4>1. \A k \in DOMAIN chunks : k \in DOMAIN (chunks')
        BY <3>2, <2>3, <1>8
      <4>2. Len(chunks) + 1 \in DOMAIN (chunks')
        BY <3>2, <1>8
      <4> QED
        BY <4>1, <4>2, <3>2, <3>3, <3>4
    <3>6. \A k, l \in DOMAIN (chunks') : k < l => \A i \in chunks'[k], j \in chunks'[l] : i < j
      <4>1. SUFFICES ASSUME NEW k \in DOMAIN (chunks'), NEW l \in DOMAIN (chunks'), k < l,
                            NEW i \in chunks'[k], NEW j \in chunks'[l]
                     PROVE  i < j
        OBVIOUS
      <4>2. k \in DOMAIN chunks
        BY <4>1, <3>2, <3>4, <2>3, <1>8
      <4>3. CASE l \in DOMAIN chunks
        BY <4>1, <4>2, <4>3, <3>2 DEF IInv, NothingLost
      <4>4. CASE l = Len(chunks) + 1
        <5>1. i \in chunks[k] /\ j \in chunk
          BY <4>1, <4>2, <4>4, <3>2, <3>3
        <5>2. i \in Nat /\ i <= cursor /\ j \in Nat /\ j > cursor
          BY <5>1, <4>2, <2>4, <1>6
        <5> QED
          BY <5>2, <1>3
      <4> QED
        BY <4>3, <4>4, <3>4
    <3>7. \A k \in DOMAIN (chunks') : chunks'[k] # {}
      BY <3>2, <3>3, <3>4, <2>6 DEF IInv, NothingLost
    <3>8. UNION {chunks'[k] : k \in DOMAIN (chunks')} = Kept(1, cursor)'
      BY <3>5, <2>1, <2>2 DEF IInv, NothingLost
    <3> QED
      BY <3>6, <3>7, <3>8 DEF NothingLost
  <2> QED
    BY <2>5, <2>6
<1>11. EnoughIsSplit'
  <2> DEFINE n == Len(chunks)
             q == EqualShare
  <2>1. q \in Nat /\ L <= MaxChunks * q /\ MaxChunks \in Nat \ {0} /\ n \in Nat
    BY <1>3, <1>8, SharesSuffice, SettingsAssumption DEF EqualShare
  <2>2. EqualShare' = q
    BY <1>2 DEF EqualShare
  <2>3. Len(chunks') \in Nat /\ Len(chunks') <= n + 1
    BY <1>7, <1>8, <2>1
  <2>4. n * q <= cursor
    BY <1>2 DEF IInv, EnoughIsSplit
  <2>5. n < MaxChunks
    <3>1. MaxChunks * q \in Nat
      BY <2>1
    <3>2. cursor < MaxChunks * q
      BY <2>1, <3>1, <1>2, <1>3
    <3> HIDE DEF n, q
    <3> QED
      BY <2>1, <2>4, <3>2, <1>3, SharesLeft
  <2>6. CASE end = L
    BY <2>1, <2>3, <2>5, <2>6, <1>1, <1>2, <1>3 DEF EnoughIsSplit
  <2>7. CASE end # L
    <3>1. end < L /\ end >= cursor + q
      BY <2>7, <1>1, <1>3, <1>4
    <3> HIDE DEF n, q
    <3>2. n * q \in Nat /\ (n + 1) * q = n * q + q
      BY <2>1, OneMoreShare
    <3>3. Len(chunks') = n \/ Len(chunks') = n + 1
      BY <1>7, <1>8 DEF n
    <3>4. Len(chunks') * q <= end
      BY <3>1, <3>2, <3>3, <2>1, <2>4, <1>3
    <3> QED
      BY <3>1, <3>4, <2>2, <1>1, <1>2 DEF EnoughIsSplit
  <2> QED
    BY <2>6, <2>7
<1>12. NoneTooLong'
  <2>1. TargetSize' = TargetSize
    BY <1>2 DEF TargetSize
  <2>2. DOMAIN chunks = 1..Len(chunks) /\ DOMAIN Append(chunks, chunk) = 1..(Len(chunks) + 1)
    BY <1>3, <1>8, LenProperties
  <2>3. \A i, j \in chunk : j - i < TargetSize
    BY <1>3, <1>4, <1>6
  <2> HIDE DEF chunk
  <2>4. ASSUME NEW k \in DOMAIN (chunks')
        PROVE  \A i, j \in chunks'[k] : j - i < TargetSize
    <3>1. CASE k \in DOMAIN chunks
      <4>1. chunks'[k] = chunks[k]
        BY <1>7, <1>8, <2>2, <3>1
      <4> QED
        BY <4>1, <3>1 DEF IInv, NoneTooLong
    <3>2. CASE k \notin DOMAIN chunks
      <4>1. chunks'[k] = chunk
        BY <1>7, <1>8, <2>2, <2>4, <3>2
      <4> QED
        BY <4>1, <2>3
    <3> QED
      BY <3>1, <3>2
  <2> QED
    BY <2>1, <2>4 DEF NoneTooLong
<1> QED
  BY <1>9, <1>10, <1>11, <1>12 DEF IInv

\* MaxChunks are enough: as long as there is more to split, fewer were made.
LEMMA FewChunks ==
    ASSUME TypeInv, EnoughIsSplit
    PROVE  Len(chunks) <= MaxChunks
<1> DEFINE L == Len(text)
           n == Len(chunks)
           q == EqualShare
<1>1. L \in Nat /\ cursor \in Nat /\ n \in Nat /\ MaxChunks \in Nat \ {0}
  BY LenProperties, SettingsAssumption DEF TypeInv
<1>2. q \in Nat /\ L <= MaxChunks * q /\ MaxChunks * q \in Nat
  BY <1>1, SharesSuffice DEF EqualShare
<1>3. CASE cursor < L
  <2>1. n * q <= cursor /\ cursor < MaxChunks * q
    BY <1>1, <1>2, <1>3 DEF EnoughIsSplit
  <2> HIDE DEF n, q
  <2>2. n < MaxChunks
    BY <1>1, <1>2, <2>1, SharesLeft
  <2> QED
    BY <1>1, <2>2 DEF n
<1> QED
  BY <1>3 DEF EnoughIsSplit

\* A plan given step by step has as many steps.
LEMMA StepByStep ==
    ASSUME NEW n \in Nat, NEW p, p = [i \in 1..n |-> p[i]]
    PROVE  Len(p) = n /\ DOMAIN p = 1..n
<1>1. DOMAIN p = 1..n
  OBVIOUS
<1>2. p \in Seq({p[i] : i \in 1..n})
  BY SeqDef
<1> QED
  BY <1>1, <1>2, LenProperties

\* It holds initially.
LEMMA InitInv == ASSUME MeetingInit PROVE IInv
<1> USE SettingsAssumption
<1>1. text \in Seq(Character) /\ Len(text) \in Nat /\ cursor = 0 /\ chunks = <<>> /\ Len(chunks) = 0
  BY LenProperties DEF MeetingInit
<1>2. TypeInv
  BY <1>1 DEF MeetingInit, TypeInv
<1>3. NothingLost
  BY <1>1 DEF NothingLost, Kept
<1>4. EqualShare \in Nat
  BY <1>1, SharesSuffice DEF EqualShare
<1>5. EnoughIsSplit
  BY <1>1, <1>4 DEF EnoughIsSplit
<1>6. NoneTooLong
  BY <1>1 DEF NoneTooLong
<1> QED
  BY <1>2, <1>3, <1>5, <1>6 DEF IInv

\* Every step keeps it.
LEMMA NextInv == ASSUME IInv, [MeetingNext]_meetingVars PROVE IInv'
<1>1. CASE SplitOnce
  BY <1>1, Splitting
<1>2. CASE UNCHANGED meetingVars
  BY <1>2 DEF meetingVars, IInv, TypeInv, NothingLost, NoneTooLong, TargetSize, EnoughIsSplit,
       EqualShare, Kept
<1> QED
  BY <1>1, <1>2 DEF MeetingNext

\* split_transcript_for_predigest: the invariant of its loop.
THEOREM Invariant == MeetingSpec => []IInv
  BY InitInv, NextInv, PTL DEF MeetingSpec

\* split_transcript_for_predigest, for transcripts of any length: no word is lost
\* or repeated, the chunks are in the order of the meeting, and they are no more
\* and no longer than the settings allow.
THEOREM NothingIsLost == MeetingSpec => []SplitIsComplete
<1>1. IInv => SplitIsComplete
  BY FewChunks DEF IInv, SplitIsComplete
<1> QED
  BY <1>1, Invariant, PTL

\* prepare_plan: the plan of a meeting is within the limits of the settings, and
\* can be served step by step unless it reports on the parts of no transcript.
THEOREM PlansAreServable == MeetingSpec => []PlanIsServable
<1>1. IInv => PlanIsServable
  <2> SUFFICES ASSUME IInv, PlanIsReady
               PROVE  /\ \A i \in DOMAIN Plan : ~Plan[i] => i = Len(Plan)
                      /\ Len(Plan) >= 1
                      /\ Plan[1] <=> ~ReportOfNothing
                      /\ mode # "deep_think" => Len(Plan) <= MaxChunks + 1
                      /\ mode = "deep_think" /\ MaxSections > 0 => Len(Plan) <= MaxSections
    BY DEF PlanIsServable
  <2> USE SettingsAssumption
  <2>1. CASE mode = "deep_think"
    <3>1. SectionCount \in Nat \ {0} /\ (MaxSections > 0 => SectionCount <= MaxSections)
      <4>1. Len(notes) \in Nat
        BY LenProperties DEF IInv, TypeInv
      <4>2. ~UseCoreSections => Len(notes) > 0
        BY <4>1, LenProperties DEF UseCoreSections, IInv, TypeInv
      <4> QED
        BY <4>1, <4>2 DEF SectionCount
    <3>2. Plan = [i \in 1..SectionCount |-> TRUE]
      BY <2>1 DEF Plan, Predigests
    <3> HIDE DEF SettingsAssumption
    <3>3. Len(Plan) = SectionCount /\ DOMAIN Plan = 1..SectionCount /\ \A i \in DOMAIN Plan : Plan[i]
      <4> DEFINE p == Plan
      <4>1. p = [i \in 1..SectionCount |-> p[i]] /\ \A i \in 1..SectionCount : p[i]
        BY <3>2
      <4> HIDE DEF p
      <4>2. Len(p) = SectionCount /\ DOMAIN p = 1..SectionCount
        BY <3>1, <4>1, StepByStep
      <4> QED
        BY <4>1, <4>2 DEF p
    <3>4. Plan[1] /\ ~ReportOfNothing
      BY <2>1, <3>1, <3>3 DEF ReportOfNothing
    <3> QED
      BY <2>1, <3>1, <3>3, <3>4
  <2>2. CASE Predigests
    <3>1. /\ Len(text) \in Nat /\ cursor = Len(text)
          /\ Len(chunks) \in Nat /\ DOMAIN chunks = 1..Len(chunks) /\ Len(chunks) <= MaxChunks
      BY <2>2, LenProperties DEF IInv, TypeInv, EnoughIsSplit, PlanIsReady
    <3>2. Len(chunks) > 0 <=> ~ReportOfNothing
      <4>1. CASE text # <<>>
        <5>1. text[1] \notin Blank /\ Len(text) > 0
          BY <3>1, <4>1, EmptySeq DEF IInv, TypeInv
        <5>2. 1 \in Kept(1, cursor)
          BY <3>1, <5>1 DEF Kept
        <5>3. PICK k \in DOMAIN chunks : 1 \in chunks[k]
          BY <5>2 DEF IInv, NothingLost
        <5> QED
          BY <3>1, <4>1, <5>3 DEF ReportOfNothing
      <4>2. CASE text = <<>>
        <5>1. Len(text) = 0 /\ minChars <= 0
          BY <2>2, <4>2 DEF Predigests
        <5>2. Kept(1, cursor) = {}
          BY <3>1, <5>1 DEF Kept
        <5>3. ASSUME NEW k \in DOMAIN chunks PROVE FALSE
          <6>1. PICK i \in chunks[k] : TRUE
            BY DEF IInv, NothingLost
          <6>2. i \in UNION {chunks[l] : l \in DOMAIN chunks}
            BY <6>1
          <6> QED
            BY <6>2, <5>2 DEF IInv, NothingLost
        <5>4. 1 \notin 1..Len(chunks)
          BY <3>1, <5>3
        <5>5. Len(chunks) = 0
          BY <3>1, <5>4
        <5> QED
          BY <2>2, <4>2, <5>1, <5>5 DEF Predigests, ReportOfNothing
      <4> QED
        BY <4>1, <4>2
    <3>3. Plan = [i \in 1..(Len(chunks) + 1) |-> i <= Len(chunks)]
      BY <2>2 DEF Plan, Predigests
    <3>4. Len(Plan) = Len(chunks) + 1 /\ DOMAIN Plan = 1..(Len(chunks) + 1)
          /\ \A i \in DOMAIN Plan : Plan[i] <=> i <= Len(chunks)
      <4> DEFINE p == Plan
                 n == Len(chunks) + 1
      <4>1. p = [i \in 1..n |-> p[i]] /\ \A i \in 1..n : p[i] <=> i <= Len(chunks)
        BY <3>3
      <4>2. n \in Nat
        BY <3>1
      <4> HIDE DEF p, n
      <4>3. Len(p) = n /\ DOMAIN p = 1..n
        BY <4>1, <4>2, StepByStep
      <4> QED
        BY <4>1, <4>3 DEF p, n
    <3>5. /\ \A i \in DOMAIN Plan : ~Plan[i] => i = Len(Plan)
          /\ Plan[1] <=> ~ReportOfNothing
      BY <3>1, <3>2, <3>4
    <3> QED
      BY <2>2, <3>1, <3>4, <3>5 DEF Predigests
  <2>3. CASE mode # "deep_think" /\ ~Predigests
    <3>1. Plan = <<TRUE>>
      BY <2>3 DEF Plan
    <3>2. Len(Plan) = 1 /\ DOMAIN Plan = 1..1 /\ Plan[1]
      BY <3>1
    <3>3. MaxChunks \in Nat
      BY SettingsAssumption
    <3>4. ~ReportOfNothing
      BY <2>3, EmptySeq DEF ReportOfNothing, Predigests, IInv, TypeInv
    <3> HIDE DEF SettingsAssumption
    <3> QED
      BY <2>3, <3>2, <3>3, <3>4
  <2> QED
    BY <2>1, <2>2, <2>3
<1> QED
  BY <1>1, Invariant, PTL

-----------------------------------------------------------------------------
\* VaultSearch ----------------------------------------------------------------------

SearchTyped ==
    /\ hits \in Seq(Hit) /\ pgvector \in BOOLEAN
    /\ topK \in TopKs /\ cap \in Caps
    /\ pass \in {"first", "second", "quote", "done"} /\ next \in Nat \ {0}
    /\ order \in Seq(Eligible) /\ selected \in Seq(Eligible)
    /\ counts \in [Documents -> Nat]
    /\ blocks \in Seq(Nat \ {0}) /\ used \in Nat

\* The hits are ranked, each of them once.
Ranked ==
    /\ Len(order) = Cardinality(Eligible)
    /\ \A k, l \in DOMAIN order : k < l => Before(order[k], order[l])
    /\ \A i \in Eligible : \E k \in DOMAIN order : order[k] = i

\* None is selected twice, nor too many, and the best one comes first.
Distinct ==
    /\ \A k, l \in DOMAIN selected : selected[k] = selected[l] => k = l
    /\ Len(selected) <= topK
    /\ pass \in {"first", "second"} => Len(selected) < topK
    /\ selected # <<>> => order # <<>> /\ selected[1] = order[1]
    /\ selected = <<>> => order = <<>> \/ (pass = "first" /\ next = 1)

\* A hit has no better claim: it is selected, or its document has its share.
Served(i) == Selected(i) \/ Share(hits[i].document) >= cap

Passes ==
    /\ pass = "first" =>
          /\ \A d \in Documents : counts[d] = Share(d) /\ counts[d] <= cap
          /\ \A i \in Eligible, k \in DOMAIN order : order[k] = i /\ k < next => Served(i)
    /\ pass = "second" =>
          \A i \in Eligible, k \in DOMAIN order : order[k] = i /\ k < next => Selected(i)
    /\ pass # "first" => Len(selected) = topK \/ \A i \in Eligible : Served(i)
    /\ \A d \in Documents : Share(d) > cap => \A i \in Eligible : Served(i)
    /\ pass \in {"quote", "done"} => Len(selected) = topK \/ \A i \in Eligible : Selected(i)

Quoting ==
    /\ pass \in {"first", "second"} => blocks = <<>> /\ used = 0
    /\ Len(blocks) <= Len(selected)
    /\ pass = "quote" => Len(blocks) = next - 1
    /\ blocks # <<>> => used <= MaxContext
    /\ \A k \in DOMAIN blocks :
          /\ blocks[k] <= hits[selected[k]].size
          /\ k < Len(blocks) \/ used < MaxContext => blocks[k] = hits[selected[k]].size
    /\ pass = "done" => Len(blocks) = Len(selected) \/ used >= MaxContext

SearchInv == SearchTyped /\ Ranked /\ Distinct /\ Passes /\ Quoting

-----------------------------------------------------------------------------
\* Finite sets: a sequence without repetition.
LEMMA NoRepetition ==
    ASSUME NEW S, IsFiniteSet(S), NEW s \in Seq(S),
           \A k, l \in DOMAIN s : s[k] = s[l] => k = l
    PROVE  /\ Len(s) \in Nat /\ Cardinality(S) \in Nat /\ Len(s) <= Cardinality(S)
           /\ Len(s) = Cardinality(S) <=> \A x \in S : \E k \in DOMAIN s : s[k] = x
<1> DEFINE n == Len(s)
<1>1. n \in Nat /\ DOMAIN s = 1..n /\ s \in [1..n -> S]
  BY LenProperties
<1>2. IsFiniteSet(1..n) /\ Cardinality(1..n) = n
  BY <1>1, FS_Interval
<1>3. s \in Injection(1..n, S)
  BY <1>1 DEF Injection, IsInjective
<1>4. n <= Cardinality(S) /\ (n = Cardinality(S) <=> s \in Surjection(1..n, S))
  BY <1>2, <1>3, FS_Injection
<1>5. s \in Surjection(1..n, S) <=> \A x \in S : \E k \in 1..n : s[k] = x
  BY <1>1 DEF Surjection
<1> QED
  BY <1>1, <1>4, <1>5, FS_CardinalityType

\* The hits a search may select are finitely many.
LEMMA EligibleIsFinite ==
    ASSUME hits \in Seq(Hit)
    PROVE  /\ IsFiniteSet(Eligible) /\ Cardinality(Eligible) \in Nat
           /\ Eligible \subseteq 1..Len(hits) /\ DOMAIN hits = 1..Len(hits) /\ Len(hits) \in Nat
           /\ \A i \in Eligible : i \in Nat /\ hits[i] \in Hit
<1>1. Len(hits) \in Nat /\ DOMAIN hits = 1..Len(hits) /\ \A i \in 1..Len(hits) : hits[i] \in Hit
  BY LenProperties
<1>2. Eligible \subseteq 1..Len(hits)
  BY <1>1 DEF Eligible
<1>3. IsFiniteSet(1..Len(hits))
  BY <1>1, FS_Interval
<1>4. IsFiniteSet(Eligible) /\ Cardinality(Eligible) \in Nat
  BY <1>2, <1>3, FS_Subset, FS_CardinalityType
<1> QED
  BY <1>1, <1>2, <1>4

\* What one more hit does to the share of each document.
LEMMA SharesGrow ==
    ASSUME SearchTyped, NEW i \in Eligible, selected' = Append(selected, i), hits' = hits
    PROVE  \A d : /\ Share(d) \in Nat
                  /\ Share(d)' = IF hits[i].document = d THEN Share(d) + 1 ELSE Share(d)
<1> DEFINE n == Len(selected)
<1>1. n \in Nat /\ selected \in Seq(Eligible) /\ DOMAIN selected = 1..n
  BY LenProperties DEF SearchTyped
<1>2. /\ DOMAIN (selected') = 1..(n + 1)
      /\ \A k \in 1..n : selected'[k] = selected[k]
      /\ selected'[n + 1] = i
  BY <1>1, AppendProperties, LenProperties
<1>3. SUFFICES ASSUME NEW d
               PROVE  /\ Share(d) \in Nat
                      /\ Share(d)' = IF hits[i].document = d THEN Share(d) + 1 ELSE Share(d)
  OBVIOUS
<1> DEFINE A == {k \in DOMAIN selected : hits[selected[k]].document = d}
           B == {k \in DOMAIN (selected') : hits[selected'[k]].document = d}
<1>4. Share(d) = Cardinality(A) /\ Share(d)' = Cardinality(B)
  BY DEF Share
<1>5. IsFiniteSet(A) /\ Cardinality(A) \in Nat
  <2>1. A \in SUBSET (1..n) /\ IsFiniteSet(1..n)
    BY <1>1, FS_Interval
  <2> HIDE DEF A, n
  <2> QED
    BY <2>1, FS_Subset, FS_CardinalityType
<1>6. n + 1 \notin A
  BY <1>1
<1>7. B = IF hits[i].document = d THEN A \cup {n + 1} ELSE A
  BY <1>1, <1>2
<1> HIDE DEF A, B, n
<1>8. Cardinality(A \cup {n + 1}) = Cardinality(A) + 1
  BY <1>5, <1>6, FS_AddElement
<1> QED
  BY <1>4, <1>5, <1>7, <1>8

\* What a search leaves alone: the hits that may be selected, and their ranking.
LEMMA SameHits ==
    ASSUME SearchTyped, Ranked, UNCHANGED <<hits, pgvector, order, topK, cap>>
    PROVE  /\ Eligible' = Eligible /\ Ranked'
           /\ hits' \in Seq(Hit) /\ pgvector' \in BOOLEAN /\ order' \in Seq(Eligible')
           /\ topK' \in TopKs /\ cap' \in Caps
<1>1. Eligible' = Eligible
  BY DEF Eligible
<1>2. Ranked'
  BY <1>1 DEF Ranked, Before
<1> QED
  BY <1>1, <1>2 DEF SearchTyped

\* What is left alone while nothing is selected.
LEMMA SameSelection ==
    ASSUME SearchTyped, Ranked, UNCHANGED <<hits, pgvector, order, topK, cap, selected>>
    PROVE  /\ selected' \in Seq(Eligible')
           /\ \A d : Share(d)' = Share(d)
           /\ \A i : (Selected(i)' <=> Selected(i)) /\ (Served(i)' <=> Served(i))
<1>1. Eligible' = Eligible
  BY SameHits
<1>2. \A d : Share(d)' = Share(d)
  BY DEF Share
<1>3. \A i : Selected(i)' <=> Selected(i)
  BY DEF Selected
<1>4. \A i : Served(i)' <=> Served(i)
  BY <1>2, <1>3 DEF Served
<1> QED
  BY <1>1, <1>2, <1>3, <1>4 DEF SearchTyped

\* What the selection of a hit does, in either pass.
LEMMA Selecting ==
    ASSUME SearchTyped, Ranked, Distinct, pass \in {"first", "second"}, next <= Len(order),
           NEW i, i = order[next], ~Selected(i), Select(i),
           UNCHANGED <<hits, pgvector, order, topK, cap>>
    PROVE  /\ i \in Eligible /\ next \in DOMAIN order
           /\ selected' \in Seq(Eligible') /\ Distinct'
           /\ \/ pass' = "quote" /\ next' = 1 /\ Len(selected') = topK
              \/ pass' = pass /\ next' = next + 1
           /\ Selected(i)'
           /\ \A j : Selected(j) => Selected(j)'
           /\ \A j \in Eligible : Served(j) => Served(j)'
           /\ selected' = Append(selected, i)
<1> DEFINE n == Len(selected)
<1> USE SearchAssumption
<1>1. next \in 1..Len(order) /\ next \in Nat /\ DOMAIN order = 1..Len(order) /\ i \in Eligible
  BY LenProperties DEF SearchTyped
<1>2. n \in Nat /\ DOMAIN selected = 1..n /\ selected \in Seq(Eligible)
  BY LenProperties DEF SearchTyped
<1>3. Eligible' = Eligible
  BY SameHits
<1>4. selected' = Append(selected, i)
  BY DEF Select
<1>5. /\ selected' \in Seq(Eligible) /\ Len(selected') = n + 1 /\ DOMAIN (selected') = 1..(n + 1)
      /\ \A k \in 1..n : selected'[k] = selected[k]
      /\ selected'[n + 1] = i
  BY <1>1, <1>2, <1>4, AppendProperties, LenProperties
<1>6. topK \in Nat /\ n < topK
  BY DEF Distinct, SearchTyped
<1>7. \/ pass' = "quote" /\ next' = 1 /\ Len(selected') = topK
      \/ pass' = pass /\ next' = next + 1 /\ Len(selected') < topK
  BY <1>2, <1>5, <1>6 DEF Select, Begin, Continue
<1>8. \A k \in DOMAIN selected : k \in DOMAIN (selected') /\ selected'[k] = selected[k]
  BY <1>2, <1>5
<1>9. n + 1 \in DOMAIN (selected') /\ \A k \in DOMAIN (selected') : k \in DOMAIN selected \/ k = n + 1
  BY <1>2, <1>5
<1>10. \A j : Selected(j) => Selected(j)'
  BY <1>8 DEF Selected
<1>11. Selected(i)'
  BY <1>9, <1>5 DEF Selected
<1>12. \A j \in Eligible : Served(j) => Served(j)'
  <2>1. SUFFICES ASSUME NEW j \in Eligible, Served(j) PROVE Served(j)'
    OBVIOUS
  <2> DEFINE d == hits[j].document
  <2>2. /\ Share(d) \in Nat
        /\ Share(d)' = IF hits[i].document = d THEN Share(d) + 1 ELSE Share(d)
    BY <1>1, <1>4, SharesGrow
  <2>3. cap \in Nat
    BY DEF SearchTyped
  <2>4. Share(d) >= cap => Share(d)' >= cap
    BY <2>2, <2>3
  <2> QED
    BY <2>1, <2>4, <1>10 DEF Served
<1>13. Distinct'
  <2>1. \A k, l \in DOMAIN (selected') : selected'[k] = selected'[l] => k = l
    <3>1. \A k \in DOMAIN selected : selected[k] # i
      BY DEF Selected
    <3> QED
      BY <3>1, <1>5, <1>8, <1>9 DEF Distinct
  <2>2. order' # <<>> /\ selected' # <<>> /\ selected'[1] = order'[1]
    <3>1. order # <<>> /\ selected' # <<>>
      BY <1>1, <1>2, <1>5
    <3>2. CASE selected = <<>>
      <4>1. n = 0 /\ next = 1
        BY <3>1, <3>2 DEF Distinct
      <4> QED
        BY <3>1, <4>1, <1>5
    <3>3. CASE selected # <<>>
      <4>1. n > 0 /\ selected[1] = order[1]
        BY <3>3, <1>2, LenProperties DEF Distinct
      <4> QED
        BY <3>1, <4>1, <1>2, <1>5
    <3> QED
      BY <3>2, <3>3
  <2>3. Len(selected') <= topK' /\ (pass' \in {"first", "second"} => Len(selected') < topK')
    BY <1>2, <1>5, <1>6, <1>7
  <2> QED
    BY <2>1, <2>2, <2>3 DEF Distinct
<1> QED
  BY <1>1, <1>3, <1>4, <1>5, <1>7, <1>10, <1>11, <1>12, <1>13

\* Nothing is quoted before the selection ends.
LEMMA NotQuotedYet ==
    ASSUME SearchTyped, Quoting, pass \in {"first", "second"}, UNCHANGED <<blocks, used>>,
           selected' \in Seq(Eligible'), Len(selected') \in Nat,
           pass' = pass \/ (pass' \in {"second", "quote"} /\ next' = 1)
    PROVE  Quoting'
<1>1. blocks = <<>> /\ used = 0 /\ blocks' = <<>> /\ used' = 0
  BY DEF Quoting
<1>2. Len(blocks') = 0 /\ DOMAIN (blocks') = {}
  BY <1>1
<1> QED
  BY <1>1, <1>2 DEF Quoting

\* FirstPass keeps the invariant.
LEMMA FirstPassInv == ASSUME SearchInv, FirstPass PROVE SearchInv'
<1> USE SearchAssumption
<1>1. /\ pass = "first" /\ next <= Len(order)
      /\ UNCHANGED <<hits, pgvector, order, topK, cap, blocks, used>>
  BY DEF FirstPass
<1>2. SearchTyped /\ Ranked /\ Distinct /\ Passes /\ Quoting
  BY DEF SearchInv
<1>3. Eligible' = Eligible /\ Ranked' /\ hits' \in Seq(Hit) /\ pgvector' \in BOOLEAN
      /\ order' \in Seq(Eligible') /\ topK' \in TopKs /\ cap' \in Caps
  BY <1>1, <1>2, SameHits
<1>4. /\ next \in Nat \ {0} /\ cap \in Nat \ {0} /\ topK \in Nat \ {0}
      /\ DOMAIN order = 1..Len(order) /\ Len(order) \in Nat /\ order[next] \in Eligible
  BY <1>1, <1>2, LenProperties DEF SearchTyped
<1>5. PICK i \in Eligible, d \in Documents : i = order[next] /\ d = hits[i].document
  BY <1>2, <1>4, EligibleIsFinite DEF SearchTyped, Hit
<1>6. \A e \in Documents : counts[e] = Share(e) /\ counts[e] <= cap /\ counts[e] \in Nat
  BY <1>1, <1>2 DEF Passes, SearchTyped
<1>7. \A j \in Eligible, k \in DOMAIN order : order[k] = j /\ k < next => Served(j)
  BY <1>1, <1>2 DEF Passes
<1>8. CASE /\ ~Selected(i) /\ counts[d] < cap
           /\ Select(i)
           /\ counts' = [counts EXCEPT ![d] = @ + 1]
  <2>1. /\ selected' \in Seq(Eligible') /\ Distinct'
        /\ \/ pass' = "quote" /\ next' = 1 /\ Len(selected') = topK
           \/ pass' = pass /\ next' = next + 1
        /\ Selected(i)'
        /\ \A j : Selected(j) => Selected(j)'
        /\ \A j \in Eligible : Served(j) => Served(j)'
        /\ selected' = Append(selected, i)
    BY <1>1, <1>2, <1>8, <1>5, Selecting
  <2>2. \A e : Share(e)' = IF d = e THEN Share(e) + 1 ELSE Share(e)
    BY <1>1, <1>2, <1>5, <2>1, SharesGrow
  <2>3. counts' \in [Documents -> Nat]
    BY <1>2, <1>5, <1>8 DEF SearchTyped
  <2>4. \A e \in Documents : counts'[e] = Share(e)' /\ counts'[e] <= cap
    BY <1>2, <1>4, <1>5, <1>6, <1>8, <2>2 DEF SearchTyped
  <2>5. SearchTyped'
    BY <1>1, <1>2, <1>3, <1>4, <2>1, <2>3 DEF SearchTyped
  <2>6. Quoting'
    <3>1. Len(selected') \in Nat
      BY <2>1, LenProperties
    <3> QED
      BY <1>1, <1>2, <2>1, <3>1, NotQuotedYet
  <2>7. pass' = "first" =>
            \A j \in Eligible, k \in DOMAIN order : order[k] = j /\ k < next' => Served(j)'
    <3>1. SUFFICES ASSUME pass' = "first", NEW j \in Eligible, NEW k \in DOMAIN order,
                          order[k] = j, k < next'
                   PROVE  Served(j)'
      OBVIOUS
    <3>2. k \in Nat /\ (k < next \/ k = next)
      BY <1>1, <1>4, <2>1, <3>1
    <3>3. Served(i)'
      BY <2>1 DEF Served
    <3>4. i = j \/ Served(j)
      BY <1>7, <1>5, <3>1, <3>2
    <3> QED
      BY <2>1, <3>3, <3>4
  <2>8. Passes'
    <3>1. \A e \in Documents : ~(Share(e)' > cap)
      BY <1>4, <1>6, <2>2, <2>4
    <3>2. cap' = cap /\ topK' = topK /\ pass' # "second"
      BY <1>1, <2>1
    <3>3. pass' # "first" => Len(selected') = topK
      BY <1>1, <2>1
    <3> QED
      BY <1>1, <1>3, <2>4, <2>7, <3>1, <3>2, <3>3 DEF Passes
  <2> QED
    BY <1>3, <2>1, <2>5, <2>6, <2>8 DEF SearchInv
<1>9. CASE /\ Selected(i) \/ counts[d] >= cap
           /\ Continue
           /\ UNCHANGED <<selected, counts>>
  <2>1. /\ selected' \in Seq(Eligible')
        /\ \A e : Share(e)' = Share(e)
        /\ \A j : (Selected(j)' <=> Selected(j)) /\ (Served(j)' <=> Served(j))
    BY <1>1, <1>2, <1>9, SameSelection
  <2>2. pass' = pass /\ next' = next + 1
    BY <1>9 DEF Continue
  <2>3. SearchTyped'
    BY <1>1, <1>2, <1>3, <1>4, <1>9, <2>1, <2>2 DEF SearchTyped
  <2>4. Served(i)
    BY <1>5, <1>6, <1>9 DEF Served
  <2>5. Distinct'
    <3>1. selected # <<>>
      <4>1. SUFFICES ASSUME selected = <<>> PROVE FALSE
        OBVIOUS
      <4>2. DOMAIN selected = {} /\ Share(d) = 0
        BY <4>1, FS_EmptySet DEF Share
      <4> QED
        BY <1>4, <1>5, <1>6, <1>9, <4>2 DEF Selected
    <3> QED
      BY <1>1, <1>2, <1>9, <2>2, <3>1 DEF Distinct
  <2>6. Quoting'
    <3>1. Len(selected') \in Nat
      BY <2>1, LenProperties
    <3> QED
      BY <1>1, <1>2, <2>1, <2>2, <3>1, NotQuotedYet
  <2>7. \A j \in Eligible, k \in DOMAIN order : order[k] = j /\ k < next' => Served(j)'
    <3>1. SUFFICES ASSUME NEW j \in Eligible, NEW k \in DOMAIN order, order[k] = j, k < next'
                   PROVE  Served(j)
      BY <2>1
    <3>2. k \in Nat /\ (k < next \/ k = next)
      BY <1>4, <2>2, <3>1
    <3> QED
      BY <1>5, <1>7, <2>4, <3>1, <3>2
  <2>8. Passes'
    <3>1. \A e \in Documents : counts'[e] = Share(e)' /\ counts'[e] <= cap' /\ ~(Share(e)' > cap')
      BY <1>1, <1>4, <1>6, <1>9, <2>1
    <3> QED
      BY <1>1, <1>3, <2>2, <2>7, <3>1 DEF Passes
  <2> QED
    BY <1>3, <2>3, <2>5, <2>6, <2>8 DEF SearchInv
<1> QED
  BY <1>5, <1>8, <1>9 DEF FirstPass

\* SecondPass keeps the invariant.
LEMMA SecondPassInv == ASSUME SearchInv, SecondPass PROVE SearchInv'
<1> USE SearchAssumption
<1>1. /\ pass = "second" /\ next <= Len(order)
      /\ UNCHANGED <<hits, pgvector, order, topK, cap, counts, blocks, used>>
  BY DEF SecondPass
<1>2. SearchTyped /\ Ranked /\ Distinct /\ Passes /\ Quoting
  BY DEF SearchInv
<1>3. Eligible' = Eligible /\ Ranked' /\ hits' \in Seq(Hit) /\ pgvector' \in BOOLEAN
      /\ order' \in Seq(Eligible') /\ topK' \in TopKs /\ cap' \in Caps
  BY <1>1, <1>2, SameHits
<1>4. /\ next \in Nat \ {0} /\ cap \in Nat \ {0} /\ topK \in Nat \ {0}
      /\ DOMAIN order = 1..Len(order) /\ Len(order) \in Nat /\ order[next] \in Eligible
  BY <1>1, <1>2, LenProperties DEF SearchTyped
<1>5. PICK i \in Eligible : i = order[next]
  BY <1>4
<1>6. \A j \in Eligible, k \in DOMAIN order : order[k] = j /\ k < next => Selected(j)
  BY <1>1, <1>2 DEF Passes
<1>7. \A j \in Eligible : Served(j)
  BY <1>1, <1>2 DEF Passes, Distinct
<1>8. CASE ~Selected(i) /\ Select(i)
  <2>1. /\ selected' \in Seq(Eligible') /\ Distinct'
        /\ \/ pass' = "quote" /\ next' = 1 /\ Len(selected') = topK
           \/ pass' = pass /\ next' = next + 1
        /\ Selected(i)'
        /\ \A j : Selected(j) => Selected(j)'
        /\ \A j \in Eligible : Served(j) => Served(j)'
    BY <1>1, <1>2, <1>8, <1>5, Selecting
  <2>2. SearchTyped'
    BY <1>1, <1>2, <1>3, <1>4, <2>1 DEF SearchTyped
  <2>3. Quoting'
    <3>1. Len(selected') \in Nat
      BY <2>1, LenProperties
    <3> QED
      BY <1>1, <1>2, <2>1, <3>1, NotQuotedYet
  <2>4. pass' = "second" =>
            \A j \in Eligible, k \in DOMAIN order : order[k] = j /\ k < next' => Selected(j)'
    <3>1. SUFFICES ASSUME pass' = "second", NEW j \in Eligible, NEW k \in DOMAIN order,
                          order[k] = j, k < next'
                   PROVE  Selected(j)'
      OBVIOUS
    <3>2. k \in Nat /\ (k < next \/ k = next)
      BY <1>1, <1>4, <2>1, <3>1
    <3>3. i = j \/ Selected(j)
      BY <1>5, <1>6, <3>1, <3>2
    <3> QED
      BY <2>1, <3>3
  <2>5. \A j \in Eligible : Served(j)'
    BY <1>7, <2>1
  <2>6. Passes'
    <3>1. pass' # "first" /\ topK' = topK /\ (pass' # "second" => Len(selected') = topK)
      BY <1>1, <2>1
    <3> QED
      BY <1>1, <1>3, <2>4, <2>5, <3>1 DEF Passes
  <2> QED
    BY <1>3, <2>1, <2>2, <2>3, <2>6 DEF SearchInv
<1>9. CASE Selected(i) /\ Continue /\ UNCHANGED selected
  <2>1. /\ selected' \in Seq(Eligible')
        /\ \A j : (Selected(j)' <=> Selected(j)) /\ (Served(j)' <=> Served(j))
    BY <1>1, <1>2, <1>9, SameSelection
  <2>2. pass' = pass /\ next' = next + 1
    BY <1>9 DEF Continue
  <2>3. SearchTyped'
    BY <1>1, <1>2, <1>3, <1>4, <2>1, <2>2 DEF SearchTyped
  <2>4. Distinct'
    BY <1>1, <1>2, <1>9, <2>2 DEF Distinct
  <2>5. Quoting'
    <3>1. Len(selected') \in Nat
      BY <2>1, LenProperties
    <3> QED
      BY <1>1, <1>2, <2>1, <2>2, <3>1, NotQuotedYet
  <2>6. \A j \in Eligible, k \in DOMAIN order : order[k] = j /\ k < next' => Selected(j)'
    <3>1. SUFFICES ASSUME NEW j \in Eligible, NEW k \in DOMAIN order, order[k] = j, k < next'
                   PROVE  Selected(j)
      BY <2>1
    <3>2. k \in Nat /\ (k < next \/ k = next)
      BY <1>4, <2>2, <3>1
    <3> QED
      BY <1>5, <1>6, <1>9, <3>1, <3>2
  <2>7. Passes'
    <3>1. pass' = "second" /\ \A j \in Eligible : Served(j)'
      BY <1>1, <1>7, <2>1, <2>2
    <3> QED
      BY <1>1, <1>3, <2>6, <3>1 DEF Passes
  <2> QED
    BY <1>3, <2>3, <2>4, <2>5, <2>7 DEF SearchInv
<1> QED
  BY <1>5, <1>8, <1>9 DEF SecondPass

\* PassEnds keeps the invariant.
LEMMA PassEndsInv == ASSUME SearchInv, PassEnds PROVE SearchInv'
<1> USE SearchAssumption
<1>1. /\ next > Len(order)
      /\ UNCHANGED <<hits, pgvector, order, topK, cap, selected, counts, blocks, used>>
      /\ next' = 1
      /\ \/ pass = "first" /\ pass' = "second"
         \/ pass = "second" /\ pass' = "quote"
  BY DEF PassEnds, Begin
<1>2. SearchTyped /\ Ranked /\ Distinct /\ Passes /\ Quoting
  BY DEF SearchInv
<1>3. Eligible' = Eligible /\ Ranked' /\ hits' \in Seq(Hit) /\ pgvector' \in BOOLEAN
      /\ order' \in Seq(Eligible') /\ topK' \in TopKs /\ cap' \in Caps
  BY <1>1, <1>2, SameHits
<1>4. /\ next \in Nat \ {0} /\ DOMAIN order = 1..Len(order) /\ Len(order) \in Nat
      /\ Len(selected) \in Nat
  BY <1>1, <1>2, LenProperties DEF SearchTyped
<1>5. /\ selected' \in Seq(Eligible')
      /\ \A d : Share(d)' = Share(d)
      /\ \A j : (Selected(j)' <=> Selected(j)) /\ (Served(j)' <=> Served(j))
  BY <1>1, <1>2, SameSelection
<1>6. SearchTyped'
  BY <1>1, <1>2, <1>3, <1>4, <1>5 DEF SearchTyped
<1>7. Distinct'
  <2>1. selected = <<>> => order = <<>>
    <3>1. CASE next = 1
      <4>1. order \in Seq(Eligible) /\ Len(order) = 0
        BY <1>1, <1>2, <1>4, <3>1 DEF SearchTyped
      <4> QED
        BY <4>1, EmptySeq
    <3> QED
      BY <1>2, <3>1 DEF Distinct
  <2> QED
    BY <1>1, <1>2, <2>1 DEF Distinct
<1>8. Quoting'
  BY <1>1, <1>2, <1>4, <1>5, NotQuotedYet
<1>9. \A j \in Eligible : \E k \in DOMAIN order : order[k] = j /\ k < next
  BY <1>1, <1>2, <1>4 DEF Ranked
<1>10. CASE pass = "first"
  <2>1. \A j \in Eligible : Served(j)'
    <3>1. \A j \in Eligible, k \in DOMAIN order : order[k] = j /\ k < next => Served(j)
      BY <1>2, <1>10 DEF Passes
    <3> QED
      BY <1>5, <1>9, <3>1
  <2>2. \A k \in DOMAIN order : ~(k < next')
    BY <1>1, <1>4
  <2> QED
    BY <1>1, <1>3, <1>6, <1>7, <1>8, <1>10, <2>1, <2>2 DEF Passes, SearchInv
<1>11. CASE pass = "second"
  <2>1. \A j \in Eligible : Selected(j)' /\ Served(j)'
    <3>1. \A j \in Eligible, k \in DOMAIN order : order[k] = j /\ k < next => Selected(j)
      BY <1>2, <1>11 DEF Passes
    <3> QED
      BY <1>5, <1>9, <3>1 DEF Served
  <2> QED
    BY <1>1, <1>3, <1>6, <1>7, <1>8, <1>11, <2>1 DEF Passes, SearchInv
<1> QED
  BY <1>1, <1>10, <1>11

\* The selection is left alone while it is quoted.
LEMMA Selection ==
    ASSUME SearchInv, pass = "quote", pass' \in {"quote", "done"},
           UNCHANGED <<hits, pgvector, order, topK, cap, selected, counts>>,
           next' \in Nat \ {0}, blocks' \in Seq(Nat \ {0}), used' \in Nat
    PROVE  SearchTyped' /\ Ranked' /\ Distinct' /\ Passes'
<1>1. SearchTyped /\ Ranked /\ Distinct /\ Passes
  BY DEF SearchInv
<1>2. Eligible' = Eligible /\ Ranked' /\ hits' \in Seq(Hit) /\ pgvector' \in BOOLEAN
      /\ order' \in Seq(Eligible') /\ topK' \in TopKs /\ cap' \in Caps
  BY <1>1, SameHits
<1>3. /\ selected' \in Seq(Eligible')
      /\ \A d : Share(d)' = Share(d)
      /\ \A j : (Selected(j)' <=> Selected(j)) /\ (Served(j)' <=> Served(j))
  BY <1>1, SameSelection
<1>4. SearchTyped'
  BY <1>1, <1>2, <1>3 DEF SearchTyped
<1>5. Distinct'
  BY <1>1 DEF Distinct
<1>6. Passes'
  BY <1>1, <1>2, <1>3 DEF Passes
<1> QED
  BY <1>2, <1>4, <1>5, <1>6

\* Quote keeps the invariant.
LEMMA QuoteInv == ASSUME SearchInv, Quote PROVE SearchInv'
<1> USE SearchAssumption
<1> DEFINE size == hits[selected[next]].size
           left == MaxContext - used
           block == IF size > left THEN left ELSE size
           n == Len(blocks)
<1>1. /\ pass = "quote" /\ next <= Len(selected)
      /\ UNCHANGED <<hits, pgvector, order, topK, cap, selected, counts>>
  BY DEF Quote
<1>2. SearchTyped /\ Quoting
  BY DEF SearchInv
<1>3. /\ next \in Nat \ {0} /\ used \in Nat /\ blocks \in Seq(Nat \ {0}) /\ selected \in Seq(Eligible)
      /\ n \in Nat /\ n = next - 1 /\ DOMAIN blocks = 1..n
      /\ Len(selected) \in Nat /\ DOMAIN selected = 1..Len(selected)
  BY <1>1, <1>2, LenProperties DEF SearchTyped, Quoting
<1>4. size \in Nat \ {0}
  <2>1. selected[next] \in Eligible
    BY <1>1, <1>3
  <2>2. hits[selected[next]] \in Hit
    BY <1>2, <2>1, EligibleIsFinite DEF SearchTyped
  <2> QED
    BY <2>2 DEF Hit
<1>5. CASE left <= 0 /\ Begin("done") /\ UNCHANGED <<blocks, used>>
  <2>1. pass' = "done" /\ next' = 1
    BY <1>5 DEF Begin
  <2>2. used >= MaxContext
    BY <1>3, <1>5
  <2>3. Quoting'
    BY <1>1, <1>2, <1>5, <2>1, <2>2 DEF Quoting
  <2> QED
    BY <1>1, <1>3, <1>5, <2>1, <2>3, Selection DEF SearchInv
<1>6. CASE /\ left > 0
           /\ blocks' = Append(blocks, block) /\ used' = used + block
           /\ Continue
  <2>1. pass' = "quote" /\ next' = next + 1
    BY <1>1, <1>6 DEF Continue
  <2>2. /\ block \in Nat \ {0} /\ block <= size /\ used + block <= MaxContext
        /\ used + block < MaxContext => block = size
        /\ used < MaxContext
    <3> HIDE DEF size
    <3> QED
      BY <1>3, <1>4, <1>6
  <2> HIDE DEF block
  <2>3. /\ blocks' \in Seq(Nat \ {0}) /\ Len(blocks') = n + 1 /\ DOMAIN (blocks') = 1..(n + 1)
        /\ \A k \in 1..n : blocks'[k] = blocks[k]
        /\ blocks'[n + 1] = block
    BY <1>3, <1>6, <2>2, AppendProperties, LenProperties
  <2>4. used' \in Nat /\ used' <= MaxContext
    BY <1>3, <1>6, <2>2
  <2>5. \A k \in DOMAIN (blocks') :
            /\ blocks'[k] <= hits[selected[k]].size
            /\ k < Len(blocks') \/ used' < MaxContext => blocks'[k] = hits[selected[k]].size
    <3>1. SUFFICES ASSUME NEW k \in 1..(n + 1)
                   PROVE  /\ blocks'[k] <= hits[selected[k]].size
                          /\ k < n + 1 \/ used' < MaxContext => blocks'[k] = hits[selected[k]].size
      BY <2>3
    <3>2. CASE k \in 1..n
      BY <1>2, <1>3, <2>2, <2>3, <3>2 DEF Quoting
    <3>3. CASE k = n + 1
      <4>1. k = next /\ size = hits[selected[k]].size
        BY <1>3, <3>3
      <4> HIDE DEF size, n
      <4> QED
        BY <1>3, <1>6, <2>2, <2>3, <3>3, <4>1
    <3> QED
      BY <1>3, <3>1, <3>2, <3>3
  <2>6. Quoting'
    <3>1. Len(blocks') <= Len(selected') /\ Len(blocks') = next' - 1
      BY <1>1, <1>3, <2>1, <2>3
    <3> QED
      BY <1>1, <2>1, <2>4, <2>5, <3>1 DEF Quoting
  <2> QED
    BY <1>1, <1>3, <2>1, <2>3, <2>4, <2>6, Selection DEF SearchInv
<1> QED
  BY <1>5, <1>6 DEF Quote

\* QuoteEnds keeps the invariant.
LEMMA QuoteEndsInv == ASSUME SearchInv, QuoteEnds PROVE SearchInv'
<1>1. /\ pass = "quote" /\ next > Len(selected) /\ pass' = "done" /\ next' = 1
      /\ UNCHANGED <<hits, pgvector, order, topK, cap, selected, counts, blocks, used>>
  BY DEF QuoteEnds, Begin
<1>2. SearchTyped /\ Quoting
  BY DEF SearchInv
<1>3. /\ next \in Nat /\ used \in Nat /\ blocks \in Seq(Nat \ {0})
      /\ Len(blocks) \in Nat /\ Len(selected) \in Nat
  BY <1>2, LenProperties DEF SearchTyped
<1>4. Len(blocks) = Len(selected)
  BY <1>1, <1>2, <1>3 DEF Quoting
<1>5. Quoting'
  BY <1>1, <1>2, <1>4 DEF Quoting
<1> QED
  BY <1>1, <1>3, <1>5, Selection DEF SearchInv

\* The invariant of a search holds initially.
LEMMA SearchInitInv == ASSUME SearchInit PROVE SearchInv
<1> USE SearchAssumption
<1>1. hits \in Seq(Hit)
  BY DEF SearchInit
<1>2. IsFiniteSet(Eligible) /\ Cardinality(Eligible) \in Nat /\ Eligible \subseteq Nat
  BY <1>1, EligibleIsFinite
<1>3. order \in Seq(Eligible) /\ Len(order) = Cardinality(Eligible) /\ DOMAIN order = 1..Len(order)
  <2> DEFINE n == Cardinality(Eligible)
  <2>1. order \in [1..n -> Eligible] /\ n \in Nat
    BY <1>2 DEF SearchInit
  <2> HIDE DEF n
  <2>2. order \in Seq(Eligible) /\ DOMAIN order = 1..n
    BY <2>1, SeqDef
  <2>3. Len(order) = n
    BY <2>1, <2>2, LenProperties
  <2> QED
    BY <2>2, <2>3 DEF n
<1>4. \A k, l \in DOMAIN order : k < l => Before(order[k], order[l])
  BY DEF SearchInit
<1>5. Ranked
  <2>1. \A i \in Eligible : ~Before(i, i)
    BY <1>1, <1>2, EligibleIsFinite DEF Before, Hit
  <2>2. \A k, l \in DOMAIN order : order[k] = order[l] => k = l
    <3>1. SUFFICES ASSUME NEW k \in DOMAIN order, NEW l \in DOMAIN order, k < l
                   PROVE  order[k] # order[l]
      BY <1>2, <1>3
    <3>2. order[k] \in Eligible /\ Before(order[k], order[l])
      BY <1>3, <1>4, <3>1
    <3> QED
      BY <2>1, <3>2
  <2>3. \A i \in Eligible : \E k \in DOMAIN order : order[k] = i
    BY <1>2, <1>3, <2>2, NoRepetition
  <2> QED
    BY <1>3, <1>4, <2>3 DEF Ranked
<1>6. SearchTyped
  BY <1>1, <1>3 DEF SearchInit, SearchTyped
<1>7. selected = <<>> /\ DOMAIN selected = {} /\ Len(selected) = 0 /\ pass = "first" /\ next = 1
  BY DEF SearchInit
<1>8. Distinct
  BY <1>6, <1>7 DEF Distinct, SearchTyped
<1>9. Passes
  <2>1. \A d : Share(d) = 0
    BY <1>7, FS_EmptySet DEF Share
  <2>2. \A d \in Documents : counts[d] = Share(d) /\ counts[d] <= cap /\ ~(Share(d) > cap)
    BY <1>6, <2>1 DEF SearchInit, SearchTyped
  <2>3. \A k \in DOMAIN order : ~(k < next)
    BY <1>2, <1>3, <1>7
  <2> QED
    BY <1>7, <2>2, <2>3 DEF Passes
<1>10. Quoting
  BY <1>7 DEF SearchInit, Quoting
<1> QED
  BY <1>5, <1>6, <1>8, <1>9, <1>10 DEF SearchInv

\* Every step of a search keeps it.
LEMMA SearchNextInv == ASSUME SearchInv, [SearchNext]_searchVars PROVE SearchInv'
<1>1. CASE UNCHANGED searchVars
  <2>1. SearchTyped /\ Ranked /\ Distinct /\ Passes /\ Quoting
    BY DEF SearchInv
  <2>2. Eligible' = Eligible /\ Ranked' /\ order' \in Seq(Eligible')
    BY <1>1, <2>1, SameHits DEF searchVars
  <2>3. /\ selected' \in Seq(Eligible')
        /\ \A d : Share(d)' = Share(d)
        /\ \A i : (Selected(i)' <=> Selected(i)) /\ (Served(i)' <=> Served(i))
    BY <1>1, <2>1, SameSelection DEF searchVars
  <2>4. SearchTyped'
    BY <1>1, <2>1, <2>2, <2>3 DEF searchVars, SearchTyped
  <2>5. Distinct' /\ Quoting'
    BY <1>1, <2>1 DEF searchVars, Distinct, Quoting
  <2>6. Passes'
    BY <1>1, <2>1, <2>2, <2>3 DEF searchVars, Passes
  <2> QED
    BY <2>2, <2>4, <2>5, <2>6 DEF SearchInv
<1> QED
  BY <1>1, FirstPassInv, SecondPassInv, PassEndsInv, QuoteInv, QuoteEndsInv DEF SearchNext

\* select_diverse_hits and build_vault_answer_prompt: the invariant of their loops.
THEOREM SearchInvariant == SearchSpec => []SearchInv
  BY SearchInitInv, SearchNextInv, PTL DEF SearchSpec

\* search_vault and build_vault_answer_prompt, for any hits and any settings: as
\* many chunks as can be returned are, none twice, the best one first, no note
\* crowds out another one, and an answer quotes them within its budget.
THEOREM SelectionsAreFair == SearchSpec => []SelectionIsFair
<1>1. ASSUME SearchInv, pass \in {"quote", "done"} PROVE SelectedFairly
  <2>1. SearchTyped /\ Ranked /\ Distinct /\ Passes
    BY <1>1 DEF SearchInv
  <2>2. /\ IsFiniteSet(Eligible) /\ Cardinality(Eligible) \in Nat /\ selected \in Seq(Eligible)
        /\ order \in Seq(Eligible) /\ topK \in Nat \ {0}
    BY <2>1, EligibleIsFinite, SearchAssumption DEF SearchTyped
  <2>3. /\ Len(selected) \in Nat /\ Len(selected) <= Cardinality(Eligible)
        /\ (\A i \in Eligible : Selected(i)) => Len(selected) = Cardinality(Eligible)
    BY <2>1, <2>2, NoRepetition DEF Distinct, Selected
  <2>4. Len(selected) = IF topK < Cardinality(Eligible) THEN topK ELSE Cardinality(Eligible)
    BY <1>1, <2>1, <2>2, <2>3 DEF Passes, Distinct
  <2>5. \A k, l \in DOMAIN selected : selected[k] = selected[l] => k = l
    BY <2>1 DEF Distinct
  <2>6. \A k \in DOMAIN selected : /\ selected[k] \in Eligible
                                   /\ k # 1 => Before(selected[1], selected[k])
    <3>1. SUFFICES ASSUME NEW k \in DOMAIN selected
                   PROVE  /\ selected[k] \in Eligible
                          /\ k # 1 => Before(selected[1], selected[k])
      OBVIOUS
    <3>2. /\ k \in 1..Len(selected) /\ 1 \in DOMAIN selected /\ selected[k] \in Eligible
          /\ selected # <<>>
      BY <2>2, <2>3, LenProperties
    <3>3. PICK l \in DOMAIN order : order[l] = selected[k]
      BY <2>1, <3>2 DEF Ranked
    <3>4. l \in 1..Len(order) /\ 1 \in DOMAIN order /\ selected[1] = order[1]
      BY <2>1, <2>2, <3>2, <3>3, LenProperties DEF Distinct
    <3>5. k # 1 => l # 1
      BY <2>5, <3>2, <3>3, <3>4
    <3> QED
      BY <2>1, <3>2, <3>3, <3>4, <3>5 DEF Ranked
  <2>7. \A d \in Documents : Share(d) > cap =>
            \A i \in Eligible : Selected(i) \/ Share(hits[i].document) >= cap
    BY <2>1 DEF Passes, Served
  <2> QED
    BY <2>4, <2>5, <2>6, <2>7 DEF SelectedFairly
<1>2. ASSUME SearchInv, pass = "done" PROVE QuotedWithinBudget
  <2>1. blocks \in Seq(Nat \ {0}) /\ Len(blocks) \in Nat /\ Len(selected) \in Nat /\ Quoting
    BY <1>2, LenProperties DEF SearchInv, SearchTyped
  <2>2. \A k \in DOMAIN blocks : blocks[k] > 0
    BY <2>1, LenProperties
  <2> QED
    BY <1>2, <2>1, <2>2 DEF Quoting, QuotedWithinBudget
<1>3. SearchInv => SelectionIsFair
  BY <1>1, <1>2 DEF SelectionIsFair
<1> QED
  BY <1>3, SearchInvariant, PTL

-----------------------------------------------------------------------------
\* Folds and recursion ---------------------------------------------------------------
\*
\* A fold is the choice of a function that obeys its equations.  Such a function
\* exists, by induction on the numbers, which a least counterexample stands for.

\* A set of numbers that is not empty has a least one.
LEMMA LeastNumber ==
    ASSUME NEW B \in SUBSET Nat, B # {}
    PROVE  \E n \in B : \A m \in B : n <= m
<1> DEFINE R == OpToRel(<, Nat)
<1>1. \A m, n \in Nat : <<m, n>> \in R <=> m < n
  BY DEF OpToRel
<1>2. IsWellFoundedOn(R, Nat)
  BY NatLessThanWellFounded
<1> HIDE DEF R
<1>3. PICK n \in B : \A m \in B : ~ (<<m, n>> \in R)
  BY <1>2, WFMin
<1>4. n \in Nat /\ \A m \in B : m \in Nat
  OBVIOUS
<1>5. \A m \in B : ~ (m < n)
  BY <1>1, <1>3, <1>4
<1>6. \A m \in B : n <= m
  BY <1>4, <1>5
<1> QED
  BY <1>6

\* A set of numbers that has 0 and with each number up to n the next one.
LEMMA Induction ==
    ASSUME NEW A, NEW n \in Nat, 0 \in A, \A k \in 0..(n - 1) : k \in A => k + 1 \in A
    PROVE  0..n \subseteq A
<1> DEFINE B == {k \in 0..n : k \notin A}
<1>1. SUFFICES ASSUME B # {} PROVE FALSE
  OBVIOUS
<1>2. B \in SUBSET Nat
  OBVIOUS
<1> HIDE DEF B
<1>3. PICK k \in B : \A m \in B : k <= m
  BY <1>1, <1>2, LeastNumber
<1>4. k # 0 /\ k \in 0..n /\ k \notin A
  BY <1>3 DEF B
<1>5. k - 1 \in 0..(n - 1) /\ k - 1 \notin B
  BY <1>3, <1>4, <1>2
<1>6. k - 1 \in A
  BY <1>5 DEF B
<1>7. (k - 1) + 1 \in A
  BY <1>5, <1>6
<1> QED
  BY <1>4, <1>7

\* The Max of a set of numbers up to n is what it says.
LEMMA MaxIs ==
    ASSUME NEW n \in Nat, NEW t \in SUBSET (1..n), t # {}
    PROVE  /\ Max(t) \in t /\ \A x \in t : Max(t) >= x
           /\ \A m \in t : (\A x \in t : m >= x) => Max(t) = m
<1> DEFINE B == {k \in 0..n : \A x \in t : x <= k}
<1>1. n \in B /\ B \in SUBSET Nat
  OBVIOUS
<1>2. PICK k \in B : \A m \in B : k <= m
  <2> HIDE DEF B
  <2> QED BY <1>1, LeastNumber
<1>3. k \in t
  <2>1. SUFFICES ASSUME k \notin t PROVE FALSE
    OBVIOUS
  <2>2. k # 0
    <3>1. PICK x \in t : TRUE
      OBVIOUS
    <3>2. x \in 1..n /\ x <= k
      BY <1>2, <3>1
    <3> QED BY <3>2
  <2>0. k \in 0..n /\ (\A x \in t : x <= k /\ x \in 1..n) /\ \A m \in B : k <= m
    BY <1>2
  <2>3. \A x \in t : x <= k - 1
    <3>1. SUFFICES ASSUME NEW x \in t PROVE x <= k - 1
      OBVIOUS
    <3>2. x # k /\ x \in Nat /\ x <= k
      BY <2>0, <2>1
    <3> QED BY <2>0, <3>2
  <2>4. k - 1 \in B
    BY <2>2, <2>3
  <2> QED BY <2>0, <2>4
<1>4. \E x \in t : \A y \in t : x >= y
  BY <1>2, <1>3
<1>5. Max(t) \in t /\ \A x \in t : Max(t) >= x
  BY <1>4 DEF Max
<1>6. ASSUME NEW m \in t, \A x \in t : m >= x PROVE Max(t) = m
  <2>1. PICK x \in t : x = Max(t) /\ \A y \in t : x >= y
    BY <1>5
  <2>2. x \in Nat /\ m \in Nat /\ x >= m /\ m >= x
    BY <1>6, <2>1
  <2> QED BY <2>1, <2>2
<1> QED
  BY <1>5, <1>6

\* How a fold of the numbers up to n comes about, for all sets of them.
IsFold(it, S, base, step, n) ==
    /\ it \in [SUBSET (1..n) -> S]
    /\ it[{}] = base
    /\ \A t \in SUBSET (1..n) : t # {} => it[t] = step[<<it[t \ {Max(t)}], Max(t)>>]

\* A fold over a sequence of n elements is well-defined, whatever its step.
LEMMA FoldsExist ==
    ASSUME NEW S, NEW base \in S, NEW n \in Nat, NEW step \in [S \X (1..n) -> S]
    PROVE  \E it : IsFold(it, S, base, step, n)
<1> DEFINE Folds(m, it) ==
        /\ it \in [SUBSET (1..m) -> S]
        /\ it[{}] = base
        /\ \A t \in SUBSET (1..m) : t # {} => it[t] = step[<<it[t \ {Max(t)}], Max(t)>>]
    A == {m \in 0..n : \E it : Folds(m, it)}
<1>1. 0 \in A
  <2> DEFINE it == [t \in SUBSET (1..0) |-> base]
  <2>1. 1..0 = {}
    OBVIOUS
  <2>2. Folds(0, it)
    BY <2>1
  <2> HIDE DEF Folds
  <2> QED BY <2>2
<1>2. ASSUME NEW m \in 0..(n - 1), m \in A PROVE m + 1 \in A
  <2>1. PICK it : Folds(m, it)
    BY <1>2
  <2> DEFINE g == [t \in SUBSET (1..(m + 1)) |->
                     IF m + 1 \in t THEN step[<<it[t \ {m + 1}], m + 1>>] ELSE it[t]]
  <2>2. m \in Nat /\ m + 1 \in 1..n /\ m + 1 \in 0..n
    OBVIOUS
  <2>3. \A t \in SUBSET (1..(m + 1)) : /\ t \ {m + 1} \in SUBSET (1..m)
                                       /\ m + 1 \notin t => t \in SUBSET (1..m)
    BY <2>2
  <2>4. \A t \in SUBSET (1..(m + 1)) : m + 1 \in t => Max(t) = m + 1
    <3>1. SUFFICES ASSUME NEW t \in SUBSET (1..(m + 1)), m + 1 \in t PROVE Max(t) = m + 1
      OBVIOUS
    <3>2. t # {} /\ m + 1 \in Nat /\ \A x \in t : m + 1 >= x
      BY <2>2, <3>1
    <3> QED
      BY <3>1, <3>2, MaxIs
  <2>5. g \in [SUBSET (1..(m + 1)) -> S]
    BY <2>1, <2>2, <2>3
  <2>6. g[{}] = base
    BY <2>1
  <2>7. ASSUME NEW t \in SUBSET (1..(m + 1)), t # {}
        PROVE  g[t] = step[<<g[t \ {Max(t)}], Max(t)>>]
    <3>1. CASE m + 1 \in t
      BY <2>3, <2>4, <3>1
    <3>2. CASE m + 1 \notin t
      <4>1. t \in SUBSET (1..m) /\ t \ {Max(t)} \in SUBSET (1..(m + 1)) /\ m + 1 \notin t \ {Max(t)}
        BY <2>3, <3>2
      <4> QED
        BY <2>1, <2>7, <3>2, <4>1
    <3> QED
      BY <3>1, <3>2
  <2>8. Folds(m + 1, g)
    BY <2>5, <2>6, <2>7
  <2> HIDE DEF Folds
  <2> QED
    BY <2>2, <2>8
<1>3. n \in A
  <2>1. \A m \in 0..(n - 1) : m \in A => m + 1 \in A
    BY <1>2
  <2> HIDE DEF A
  <2> QED
    BY <1>1, <2>1, Induction
<1>4. PICK it : Folds(n, it)
  BY <1>3
<1> QED
  BY <1>4 DEF IsFold


\* The numbers up to k, as the fold takes them apart.
LEMMA FirstNumbers ==
    ASSUME NEW n \in Nat, NEW k \in 1..n, NEW t, t = 1..k
    PROVE  t \in SUBSET (1..n) /\ t # {} /\ Max(t) = k /\ t \ {k} = 1..(k - 1)
<1>1. t \in SUBSET (1..n) /\ t # {} /\ t \ {k} = 1..(k - 1)
  OBVIOUS
<1>2. k \in t /\ \A x \in t : k >= x
  OBVIOUS
<1>3. Max(t) = k
  <2> QED BY <1>1, <1>2, MaxIs
<1> QED
  BY <1>1, <1>3

\* What a fold has at hand after each element.
IsTrace(f, S, base, step, n) ==
    /\ f \in [0..n -> S]
    /\ f[0] = base
    /\ \A k \in 1..n : f[k] = step[<<f[k - 1], k>>]

HasTrace(it, S, base, step, n) == \E f : IsTrace(f, S, base, step, n) /\ f[n] = it[1..n]

\* A function that obeys the equations of a fold follows its trace.
LEMMA TracesExist ==
    ASSUME NEW S, NEW base \in S, NEW n \in Nat, NEW step \in [S \X (1..n) -> S], NEW it,
           it[{}] = base,
           \A t \in SUBSET (1..n) : t # {} /\ it[t \ {Max(t)}] \in S
                                      => it[t] = step[<<it[t \ {Max(t)}], Max(t)>>]
    PROVE  HasTrace(it, S, base, step, n)
<1> DEFINE f == [k \in 0..n |-> it[1..k]]
           A == {k \in 0..n : f[k] \in S}
<1>1. f[0] = base
  <2>1. 1..0 = {}
    OBVIOUS
  <2> QED BY <2>1
<1>2. ASSUME NEW k \in 1..n, f[k - 1] \in S PROVE f[k] = step[<<f[k - 1], k>>]
  <2>1. f[k] = it[1..k] /\ f[k - 1] = it[1..(k - 1)]
    OBVIOUS
  <2>2. PICK t : t = 1..k
    OBVIOUS
  <2>3. t \in SUBSET (1..n) /\ t # {} /\ Max(t) = k /\ t \ {k} = 1..(k - 1)
    BY <2>2, FirstNumbers
  <2>4. it[t \ {Max(t)}] = f[k - 1] /\ it[t] = f[k]
    BY <2>1, <2>2, <2>3
  <2> HIDE DEF f
  <2>5. it[t] = step[<<it[t \ {Max(t)}], Max(t)>>]
    BY <1>2, <2>3, <2>4
  <2> QED
    BY <2>3, <2>4, <2>5
<1> HIDE DEF f
<1>3. ASSUME NEW k \in 0..(n - 1), k \in A PROVE k + 1 \in A
  <2>1. k + 1 \in 1..n /\ (k + 1) - 1 = k /\ f[k] \in S
    BY <1>3
  <2>2. f[k + 1] = step[<<f[k], k + 1>>]
    BY <1>2, <2>1
  <2>3. <<f[k], k + 1>> \in S \X (1..n)
    BY <2>1
  <2>4. f[k + 1] \in S
    BY <2>2, <2>3
  <2> QED BY <2>1, <2>4
<1>4. 0..n \subseteq A
  <2>1. 0 \in A
    BY <1>1
  <2>2. \A k \in 0..(n - 1) : k \in A => k + 1 \in A
    BY <1>3
  <2> HIDE DEF A
  <2> QED BY <2>1, <2>2, Induction
<1>5. \A k \in 0..n : f[k] \in S
  BY <1>4
<1>6. f \in [0..n -> S] /\ f[n] = it[1..n]
  BY <1>5 DEF f
<1>7. IsTrace(f, S, base, step, n)
  <2>1. \A k \in 1..n : f[k - 1] \in S
    BY <1>5
  <2> QED BY <1>1, <1>2, <1>6, <2>1 DEF IsTrace
<1> QED BY <1>6, <1>7 DEF HasTrace

-----------------------------------------------------------------------------
\* SpeakerTurns: whom a word belongs to -------------------------------------------------

Spoken == [start : Int, end : Int, speaker : Nat]

Times(w) == w.start \in Int /\ w.end \in Int
Best == [speaker : Nat \cup {Nobody}, overlap : Nat]

\* An overlap is a number.
LEMMA OverlapIs ==
    ASSUME NEW w, Times(w), NEW t \in Spoken
    PROVE  Overlap(w, t) \in Nat
BY DEF Times, Spoken, Overlap

\* A better choice is a choice.
LEMMA BetterIsBest ==
    ASSUME NEW w, Times(w), NEW t \in Spoken, NEW best \in Best
    PROVE  Better(w, best, t) \in Best
<1>1. Overlap(w, t) \in Nat /\ t.speaker \in Nat
  BY OverlapIs DEF Spoken
<1> QED
  BY <1>1 DEF Better, Best

\* The choice after each turn.
LEMMA BestTrace ==
    ASSUME NEW w, Times(w), NEW turns \in Seq(Spoken)
    PROVE  \E f \in [0..Len(turns) -> Best] :
              /\ f[0] = [speaker |-> Nobody, overlap |-> 0]
              /\ \A k \in 1..Len(turns) : f[k] = Better(w, f[k - 1], turns[k])
              /\ BestSpeaker(w, turns) = f[Len(turns)].speaker
<1> DEFINE n == Len(turns)
           base == [speaker |-> Nobody, overlap |-> 0]
           E(it) == it = [t \in SUBSET DOMAIN turns |->
                            IF t = {} THEN base ELSE Better(w, it[t \ {Max(t)}], turns[Max(t)])]
           it0 == CHOOSE it : E(it)
           step == [p \in Best \X (1..n) |-> Better(w, p[1], turns[p[2]])]
<1>1. n \in Nat /\ DOMAIN turns = 1..n /\ \A k \in 1..n : turns[k] \in Spoken
  BY LenProperties
<1>2. step \in [Best \X (1..n) -> Best] /\ base \in Best
  <2>1. \A b \in Best, k \in 1..n : Better(w, b, turns[k]) \in Best
    BY <1>1, BetterIsBest
  <2> QED BY <2>1 DEF Best
<1>3. PICK it : IsFold(it, Best, base, step, n)
  <2> HIDE DEF n, step, base
  <2>1. n \in Nat /\ base \in Best
    BY <1>1, <1>2
  <2> QED BY <2>1, <1>2, FoldsExist, Zenon
<1>4. \A t \in SUBSET (1..n) : t # {} => Max(t) \in 1..n /\ t \ {Max(t)} \in SUBSET (1..n)
  <2> HIDE DEF n
  <2> QED BY <1>1, MaxIs
<1>5. E(it0)
  <2>1. E(it)
    <3>1. \A t \in SUBSET (1..n) : t # {} => it[t \ {Max(t)}] \in Best
      BY <1>3, <1>4 DEF IsFold
    <3> QED BY <1>1, <1>3, <1>4, <3>1 DEF IsFold
  <2> HIDE DEF E
  <2> QED BY <2>1
<1>6. BestSpeaker(w, turns) = it0[DOMAIN turns].speaker
  BY DEF BestSpeaker, FoldLeft, MapThenFoldSet
<1>7. HasTrace(it0, Best, base, step, n)
  <2>1. it0[{}] = base /\ \A t \in SUBSET (1..n) : t # {} =>
            it0[t] = Better(w, it0[t \ {Max(t)}], turns[Max(t)])
    <3> HIDE DEF it0
    <3> QED BY <1>1, <1>5
  <2>2. \A t \in SUBSET (1..n) : t # {} /\ it0[t \ {Max(t)}] \in Best =>
            it0[t] = step[<<it0[t \ {Max(t)}], Max(t)>>]
    <3> HIDE DEF it0, E
    <3> QED BY <2>1, <1>4
  <2>3. n \in Nat /\ base \in Best /\ it0[{}] = base
    BY <1>1, <1>2, <2>1
  <2> HIDE DEF n, step, base, it0, E
  <2> QED BY <1>2, <2>2, <2>3, TracesExist, Zenon
<1>8. PICK f : IsTrace(f, Best, base, step, n) /\ f[n] = it0[1..n]
  BY <1>7 DEF HasTrace
<1> HIDE DEF it0, E
<1>9. f \in [0..n -> Best] /\ f[0] = base /\ \A k \in 1..n : f[k] = Better(w, f[k - 1], turns[k])
  <2>1. \A k \in 1..n : f[k] = step[<<f[k - 1], k>>] /\ f[k - 1] \in Best
    <3> HIDE DEF step, n
    <3> QED BY <1>1, <1>8 DEF IsTrace
  <2> QED BY <1>8, <2>1 DEF IsTrace
<1>10. BestSpeaker(w, turns) = f[n].speaker
  BY <1>1, <1>6, <1>8
<1> QED BY <1>9, <1>10

\* The choice among the first k turns.
BestSoFar(w, turns, k, best) ==
    /\ \A j \in 1..k : Overlap(w, turns[j]) <= best.overlap
    /\ best.overlap > 0 =>
          \E i \in 1..k : /\ turns[i].speaker = best.speaker /\ Overlap(w, turns[i]) = best.overlap
                          /\ \A j \in 1..(i - 1) : Overlap(w, turns[j]) < best.overlap
    /\ best.overlap = 0 =>
          \/ \E i \in 1..k : /\ turns[i].speaker = best.speaker /\ HasMiddle(w, turns[i])
                             /\ \A j \in 1..(i - 1) : ~HasMiddle(w, turns[j])
          \/ best.speaker = Nobody /\ \A j \in 1..k : ~HasMiddle(w, turns[j])

\* One more turn: the choice is still the best.
LEMMA BetterIsBestSoFar ==
    ASSUME NEW w, Times(w), NEW turns \in Seq(Spoken), NEW k \in 1..Len(turns),
           NEW best \in Best, BestSoFar(w, turns, k - 1, best)
    PROVE  BestSoFar(w, turns, k, Better(w, best, turns[k]))
<1>1. k \in Nat /\ k >= 1 /\ (1..k) = (1..(k - 1)) \cup {k}
  OBVIOUS
<1>2. \A j \in 1..k : turns[j] \in Spoken /\ Overlap(w, turns[j]) \in Nat /\ turns[j].speaker \in Nat
  <2>1. \A j \in 1..k : turns[j] \in Spoken
    BY LenProperties
  <2> QED BY <2>1, OverlapIs DEF Spoken
<1>3. best.overlap \in Nat
  BY DEF Best
<1>4. CASE Overlap(w, turns[k]) > best.overlap
  <2> DEFINE b == [speaker |-> turns[k].speaker, overlap |-> Overlap(w, turns[k])]
  <2>1. Better(w, best, turns[k]) = b
    BY <1>1, <1>2, <1>3, <1>4 DEF Better
  <2>2. b.overlap = Overlap(w, turns[k]) /\ b.speaker = turns[k].speaker
    OBVIOUS
  <2>3. \A j \in 1..(k - 1) : Overlap(w, turns[j]) < Overlap(w, turns[k])
    BY <1>1, <1>2, <1>3, <1>4 DEF BestSoFar
  <2>4. Overlap(w, turns[k]) > 0
    BY <1>1, <1>2, <1>3, <1>4
  <2> HIDE DEF b
  <2>5. BestSoFar(w, turns, k, b)
    <3>1. \A j \in 1..k : Overlap(w, turns[j]) <= b.overlap
      BY <1>1, <1>2, <2>2, <2>3
    <3>2. k \in 1..k /\ ~(b.overlap = 0)
      BY <1>1, <1>2, <2>2, <2>4
    <3>3. \A j \in 1..(k - 1) : Overlap(w, turns[j]) < b.overlap
      BY <2>2, <2>3
    <3> QED BY <2>2, <3>1, <3>2, <3>3, Zenon DEF BestSoFar
  <2> QED BY <2>1, <2>5
<1>5. CASE ~(Overlap(w, turns[k]) > best.overlap)
  <2>1. \A j \in 1..k : Overlap(w, turns[j]) <= best.overlap
    BY <1>1, <1>2, <1>3, <1>5 DEF BestSoFar
  <2>2. CASE best.overlap > 0
    <3>1. PICK b : b = Better(w, best, turns[k]) 
      OBVIOUS
    <3>2. b.overlap = best.overlap /\ b.speaker = best.speaker
      <4>1. best.speaker # Nobody
        BY <1>1, <1>2, <2>2, SpeechAssumption DEF BestSoFar
      <4> QED BY <1>5, <3>1, <4>1 DEF Better
    <3>3. BestSoFar(w, turns, k, b)
      BY <1>1, <2>1, <2>2, <3>2 DEF BestSoFar
    <3> QED BY <3>1, <3>3
  <2>3. CASE best.overlap = 0
    <3>1. Overlap(w, turns[k]) = 0
      BY <1>1, <1>2, <1>5, <2>3
    <3>2. CASE best.speaker = Nobody /\ HasMiddle(w, turns[k])
      <4> DEFINE b == [speaker |-> turns[k].speaker, overlap |-> best.overlap]
      <4>1. Better(w, best, turns[k]) = b
        BY <1>5, <3>1, <3>2 DEF Better
      <4>2. b.overlap = 0 /\ b.speaker = turns[k].speaker
        BY <2>3
      <4>3. \A j \in 1..(k - 1) : ~HasMiddle(w, turns[j])
        BY <1>1, <1>2, <2>3, <3>2, SpeechAssumption DEF BestSoFar
      <4> HIDE DEF b
      <4>4. BestSoFar(w, turns, k, b)
        BY <1>1, <2>1, <2>3, <3>2, <4>2, <4>3 DEF BestSoFar
      <4> QED BY <4>1, <4>4
    <3>3. CASE best.speaker # Nobody
      <4>1. Better(w, best, turns[k]) = best
        BY <1>5, <3>3 DEF Better
      <4>2. BestSoFar(w, turns, k, best)
        BY <1>1, <2>1, <2>3, <3>3 DEF BestSoFar
      <4> QED BY <4>1, <4>2
    <3>4. CASE ~HasMiddle(w, turns[k])
      <4>1. Better(w, best, turns[k]) = best
        BY <1>5, <3>4 DEF Better
      <4>2. BestSoFar(w, turns, k, best)
        BY <1>1, <2>1, <2>3, <3>4 DEF BestSoFar
      <4> QED BY <4>1, <4>2
    <3> QED BY <3>2, <3>3, <3>4
  <2> QED BY <1>3, <2>2, <2>3
<1> QED BY <1>4, <1>5

\* _best_speaker finds whom a word belongs to.
LEMMA BestSpeakerIsRight ==
    ASSUME NEW w, Times(w), NEW turns \in Seq(Spoken)
    PROVE  /\ BestSpeaker(w, turns) \in Nat \cup {Nobody}
           /\ SaidBy(w, BestSpeaker(w, turns), turns)
<1>1. PICK f \in [0..Len(turns) -> Best] :
              /\ f[0] = [speaker |-> Nobody, overlap |-> 0]
              /\ \A k \in 1..Len(turns) : f[k] = Better(w, f[k - 1], turns[k])
              /\ BestSpeaker(w, turns) = f[Len(turns)].speaker
  BY BestTrace
<1> DEFINE n == Len(turns)
           A == {k \in 0..n : BestSoFar(w, turns, k, f[k])}
<1>2. n \in Nat /\ DOMAIN turns = 1..n /\ \A j \in 1..n : Overlap(w, turns[j]) \in Nat
  <2>1. n \in Nat /\ DOMAIN turns = 1..n /\ \A j \in 1..n : turns[j] \in Spoken
    BY LenProperties
  <2> QED BY <2>1, OverlapIs
<1>3. n \in A
  <2>1. BestSoFar(w, turns, 0, f[0])
    <3>1. f[0].overlap = 0 /\ f[0].speaker = Nobody
      BY <1>1
    <3> QED BY <3>1 DEF BestSoFar
  <2>2. ASSUME NEW k \in 0..(n - 1), k \in A PROVE k + 1 \in A
    <3>1. k + 1 \in 1..n /\ (k + 1) - 1 = k /\ f[k] \in Best
      BY <1>2
    <3>2. f[k + 1] = Better(w, f[k], turns[k + 1])
      BY <1>1, <3>1
    <3>3. BestSoFar(w, turns, (k + 1) - 1, f[k])
      BY <2>2, <3>1
    <3>4. BestSoFar(w, turns, k + 1, f[k + 1])
      BY <3>1, <3>2, <3>3, BetterIsBestSoFar
    <3> QED BY <3>1, <3>4
  <2>3. 0 \in A /\ \A k \in 0..(n - 1) : k \in A => k + 1 \in A
    BY <1>2, <2>1, <2>2
  <2> HIDE DEF A, n
  <2>4. 0..n \subseteq A
    BY <1>2, <2>3, Induction
  <2> QED BY <1>2, <2>4
<1>4. PICK best \in Best : best = f[n]
  BY <1>2
<1>5. BestSoFar(w, turns, n, best) /\ best.overlap \in Nat /\ best.speaker \in Nat \cup {Nobody}
  BY <1>3, <1>4 DEF Best
<1> HIDE DEF n
<1>6. SaidBy(w, best.speaker, turns)
  <2>1. CASE best.overlap > 0
    BY <1>2, <1>5, <2>1 DEF BestSoFar, SaidBy
  <2>2. CASE best.overlap = 0
    BY <1>2, <1>5, <2>2 DEF BestSoFar, SaidBy
  <2> QED BY <1>5, <2>1, <2>2
<1> QED
  BY <1>1, <1>4, <1>5, <1>6 DEF n

-----------------------------------------------------------------------------
\* Sequences of sequences -----------------------------------------------------------

\* A recursion over the numbers up to n is well-defined.
LEMMA RecursionExists ==
    ASSUME NEW S, NEW base \in S, NEW n \in Nat, NEW step \in [S \X (1..n) -> S]
    PROVE  \E f : IsTrace(f, S, base, step, n)
<1>1. PICK it : IsFold(it, S, base, step, n)
  BY FoldsExist, Zenon
<1>2. it[{}] = base /\ \A t \in SUBSET (1..n) : t # {} /\ it[t \ {Max(t)}] \in S
                                      => it[t] = step[<<it[t \ {Max(t)}], Max(t)>>]
  BY <1>1 DEF IsFold
<1>3. HasTrace(it, S, base, step, n)
  BY <1>2, TracesExist, Zenon
<1> QED
  BY <1>3 DEF HasTrace

\* f says what the first sequences of ss are, one after the other.
Flattens(f, X, ss) ==
    /\ f \in [0..Len(ss) -> Seq(X)]
    /\ f[0] = <<>>
    /\ \A k \in 1..Len(ss) : f[k] = f[k - 1] \o ss[k]

\* What flattening has collected after each sequence.
LEMMA FlattenTrace ==
    ASSUME NEW X, NEW ss \in Seq(Seq(X))
    PROVE  \E f : Flattens(f, X, ss) /\ FlattenSeq(ss) = f[Len(ss)]
<1> DEFINE n == Len(ss)
           step == [p \in Seq(X) \X (1..n) |-> p[1] \o ss[p[2]]]
           E(it) == it = [i \in 1..n |-> IF i = 1 THEN ss[i] ELSE it[i - 1] \o ss[i]]
           it0 == CHOOSE it : E(it)
<1>1. n \in Nat /\ \A k \in 1..n : ss[k] \in Seq(X)
  BY LenProperties
<1>2. <<>> \in Seq(X) /\ step \in [Seq(X) \X (1..n) -> Seq(X)]
  BY <1>1
<1>3. PICK f : IsTrace(f, Seq(X), <<>>, step, n)
  <2> HIDE DEF step, n
  <2>1. n \in Nat /\ <<>> \in Seq(X)
    BY <1>1, <1>2
  <2> QED BY <1>2, <2>1, RecursionExists, Zenon
<1>4. f \in [0..n -> Seq(X)] /\ f[0] = <<>> /\ \A k \in 1..n : f[k] = f[k - 1] \o ss[k]
  <2> HIDE DEF n
  <2>1. \A k \in 1..n : <<f[k - 1], k>> \in Seq(X) \X (1..n)
    <3>1. f \in [0..n -> Seq(X)]
      BY <1>3, Zenon DEF IsTrace
    <3>2. \A k \in 1..n : k - 1 \in 0..n
      BY <1>1
    <3> QED BY <3>1, <3>2
  <2> QED BY <1>3, <2>1 DEF IsTrace
<1>5. E(it0)
  <2> DEFINE it == [i \in 1..n |-> f[i]]
  <2>1. ASSUME NEW i \in 1..n PROVE it[i] = IF i = 1 THEN ss[i] ELSE it[i - 1] \o ss[i]
    <3>1. f[i] = f[i - 1] \o ss[i] /\ ss[i] \in Seq(X)
      BY <1>1, <1>4
    <3>2. CASE i = 1
      <4>1. f[i - 1] = <<>>
        BY <1>4, <3>2
      <4>2. f[i] = ss[i]
        BY <3>1, <4>1, ConcatEmptySeq
      <4> QED BY <3>2, <4>2
    <3>3. CASE i # 1
      <4>1. i - 1 \in 1..n
        BY <1>1, <3>3
      <4> HIDE DEF n
      <4> QED BY <3>1, <3>3, <4>1
    <3> QED BY <3>2, <3>3
  <2>2. E(it)
    BY <2>1
  <2> HIDE DEF E
  <2> QED BY <2>2
<1>6. \A k \in 1..n : it0[k] = IF k = 1 THEN ss[k] ELSE it0[k - 1] \o ss[k]
  <2> HIDE DEF it0, n
  <2> QED BY <1>5
<1>7. n # 0 => FlattenSeq(ss) = it0[n]
  BY DEF FlattenSeq
<1> HIDE DEF it0, E, n, step
<1>8. n # 0 => it0[n] = f[n]
  <2> DEFINE A == {k \in 0..n : k # 0 => it0[k] = f[k]}
  <2>1. ASSUME NEW k \in 0..(n - 1), k \in A PROVE k + 1 \in A
    <3>1. k + 1 \in 1..n /\ (k + 1) - 1 = k
      BY <1>1
    <3>2. f[k + 1] = f[k] \o ss[k + 1] /\ ss[k + 1] \in Seq(X)
      BY <1>1, <1>4, <3>1
    <3>3. CASE k = 0
      <4>1. f[k] = <<>> /\ k + 1 = 1 /\ it0[k + 1] = ss[k + 1]
        BY <1>4, <1>6, <3>1, <3>3
      <4>2. f[k + 1] = it0[k + 1]
        BY <3>2, <4>1, ConcatEmptySeq
      <4> QED BY <3>1, <4>2
    <3>4. CASE k # 0
      <4>1. it0[k + 1] = it0[(k + 1) - 1] \o ss[k + 1]
        <5>1. k + 1 # 1
          BY <1>1, <3>4
        <5> QED BY <1>6, <3>1, <5>1
      <4>2. it0[k] = f[k]
        BY <2>1, <3>4
      <4>3. it0[k + 1] = f[k + 1]
        BY <3>1, <3>2, <4>1, <4>2, Zenon
      <4> QED BY <3>1, <4>3
    <3> QED BY <3>3, <3>4
  <2>2. 0 \in A /\ \A k \in 0..(n - 1) : k \in A => k + 1 \in A
    BY <1>1, <2>1
  <2> HIDE DEF A
  <2>3. 0..n \subseteq A
    BY <1>1, <2>2, Induction
  <2> QED BY <1>1, <2>3 DEF A
<1>9. n = 0 => FlattenSeq(ss) = f[n]
  <2>1. n = 0 => ss = <<>>
    BY EmptySeq DEF n
  <2> QED BY <1>4, <2>1 DEF FlattenSeq, n
<1>10. Flattens(f, X, ss)
  BY <1>4 DEF Flattens, n
<1> QED
  BY <1>7, <1>8, <1>9, <1>10 DEF n

\* Nothing gives nothing.
LEMMA FlattenEmpty == FlattenSeq(<<>>) = <<>>
BY DEF FlattenSeq

\* Flattening goes through a concatenation.
LEMMA FlattenConcat ==
    ASSUME NEW X, NEW a \in Seq(Seq(X)), NEW b \in Seq(Seq(X))
    PROVE  /\ FlattenSeq(a) \in Seq(X)
           /\ FlattenSeq(a \o b) = FlattenSeq(a) \o FlattenSeq(b)
<1> DEFINE c == a \o b
<1>0. c \in Seq(Seq(X))
  BY ConcatProperties
<1>1. PICK f : Flattens(f, X, a) /\ FlattenSeq(a) = f[Len(a)]
  BY FlattenTrace
<1>2. PICK g : Flattens(g, X, b) /\ FlattenSeq(b) = g[Len(b)]
  BY FlattenTrace
<1>3. PICK h : Flattens(h, X, c) /\ FlattenSeq(c) = h[Len(c)]
  BY <1>0, FlattenTrace
<1>4. /\ Len(a) \in Nat /\ Len(b) \in Nat /\ Len(c) = Len(a) + Len(b)
      /\ \A k \in 1..Len(a) : c[k] = a[k]
      /\ \A k \in 1..Len(b) : c[Len(a) + k] = b[k] /\ b[k] \in Seq(X)
  <2>1. /\ Len(a) \in Nat /\ Len(b) \in Nat /\ Len(c) = Len(a) + Len(b)
        /\ \A i \in 1..(Len(a) + Len(b)) : c[i] = IF i <= Len(a) THEN a[i] ELSE b[i - Len(a)]
    BY LenProperties, ConcatProperties
  <2>2. \A k \in 1..Len(b) : b[k] \in Seq(X)
    BY LenProperties
  <2> HIDE DEF c
  <2>3. \A k \in 1..Len(b) : Len(a) + k \in 1..(Len(a) + Len(b)) /\ ~(Len(a) + k <= Len(a))
                              /\ (Len(a) + k) - Len(a) = k
    BY <2>1
  <2>4. \A k \in 1..Len(a) : k \in 1..(Len(a) + Len(b)) /\ k <= Len(a)
    BY <2>1
  <2> QED BY <2>1, <2>2, <2>3, <2>4
<1> HIDE DEF c
<1>5. h[Len(a)] = f[Len(a)]
  <2> DEFINE A == {k \in 0..Len(a) : h[k] = f[k]}
  <2>1. ASSUME NEW k \in 0..(Len(a) - 1), k \in A PROVE k + 1 \in A
    <3>1. k + 1 \in 1..Len(a) /\ (k + 1) - 1 = k /\ k + 1 \in 1..Len(c)
      BY <1>4
    <3>2. f[k + 1] = f[k] \o a[k + 1] /\ h[k + 1] = h[k] \o c[k + 1]
      BY <1>1, <1>3, <3>1 DEF Flattens
    <3>3. h[k] = f[k] /\ c[k + 1] = a[k + 1]
      BY <1>4, <2>1, <3>1
    <3>4. h[k + 1] = f[k + 1]
      BY <3>2, <3>3
    <3> QED BY <3>1, <3>4
  <2>2. 0 \in A /\ \A k \in 0..(Len(a) - 1) : k \in A => k + 1 \in A
    BY <1>1, <1>3, <1>4, <2>1 DEF Flattens
  <2> HIDE DEF A
  <2>3. 0..Len(a) \subseteq A
    BY <1>4, <2>2, Induction
  <2> QED BY <1>4, <2>3 DEF A
<1>6. h[Len(c)] = f[Len(a)] \o g[Len(b)]
  <2> DEFINE A == {k \in 0..Len(b) : h[Len(a) + k] = f[Len(a)] \o g[k]}
  <2>0. f[Len(a)] \in Seq(X)
    <3>1. Len(a) \in 0..Len(a) /\ f \in [0..Len(a) -> Seq(X)]
      BY <1>1, <1>4 DEF Flattens
    <3> QED BY <3>1
  <2>1. ASSUME NEW k \in 0..(Len(b) - 1), k \in A PROVE k + 1 \in A
    <3>1. /\ k + 1 \in 1..Len(b) /\ (k + 1) - 1 = k /\ Len(a) + (k + 1) \in 1..Len(c)
          /\ (Len(a) + (k + 1)) - 1 = Len(a) + k
      BY <1>4
    <3>2. g[k + 1] = g[k] \o b[k + 1] /\ h[Len(a) + (k + 1)] = h[Len(a) + k] \o c[Len(a) + (k + 1)]
      BY <1>2, <1>3, <3>1 DEF Flattens
    <3>3. /\ h[Len(a) + k] = f[Len(a)] \o g[k] /\ c[Len(a) + (k + 1)] = b[k + 1]
          /\ g[k] \in Seq(X) /\ b[k + 1] \in Seq(X)
      BY <1>2, <1>4, <2>1, <3>1 DEF Flattens
    <3>4. (f[Len(a)] \o g[k]) \o b[k + 1] = f[Len(a)] \o (g[k] \o b[k + 1])
      <4>1. f[Len(a)] \in Seq(X) /\ g[k] \in Seq(X) /\ b[k + 1] \in Seq(X)
        BY <2>0, <3>3
      <4>2. PICK p, q, r : p = f[Len(a)] /\ q = g[k] /\ r = b[k + 1]
        OBVIOUS
      <4>3. p \in Seq(X) /\ q \in Seq(X) /\ r \in Seq(X)
        BY <4>1, <4>2
      <4>4. (p \o q) \o r = p \o (q \o r)
        BY <4>3, ConcatAssociative, SMT
      <4> QED BY <4>2, <4>4, Zenon
    <3>5. h[Len(a) + (k + 1)] = f[Len(a)] \o g[k + 1]
      BY <3>2, <3>3, <3>4, Zenon
    <3>6. k + 1 \in 0..Len(b)
      BY <3>1
    <3> QED BY <3>5, <3>6, Zenon
  <2>2. 0 \in A
    <3>1. f[Len(a)] \o g[0] = f[Len(a)]
      BY <1>2, <2>0, ConcatEmptySeq DEF Flattens
    <3>2. Len(a) + 0 = Len(a) /\ 0 \in 0..Len(b)
      BY <1>4
    <3>3. h[Len(a) + 0] = f[Len(a)] \o g[0]
      BY <1>5, <3>1, <3>2, Zenon
    <3> QED BY <3>2, <3>3
  <2>3. \A k \in 0..(Len(b) - 1) : k \in A => k + 1 \in A
    BY <2>1
  <2> HIDE DEF A
  <2>4. 0..Len(b) \subseteq A
    BY <1>4, <2>2, <2>3, Induction
  <2>5. Len(b) \in 0..Len(b) /\ Len(c) = Len(a) + Len(b)
    BY <1>4
  <2>6. Len(b) \in A
    BY <2>4, <2>5
  <2> QED BY <2>5, <2>6 DEF A
<1>7. f[Len(a)] \in Seq(X)
  <2>1. Len(a) \in 0..Len(a) /\ f \in [0..Len(a) -> Seq(X)]
    BY <1>1, <1>4 DEF Flattens
  <2> QED BY <2>1
<1> QED
  BY <1>1, <1>2, <1>3, <1>6, <1>7 DEF c

\* One sequence stays as it is.
LEMMA FlattenOne ==
    ASSUME NEW X, NEW x \in Seq(X)
    PROVE  FlattenSeq(<<x>>) = x
BY DEF FlattenSeq

\* One more sequence comes last.
LEMMA FlattenAppend ==
    ASSUME NEW X, NEW a \in Seq(Seq(X)), NEW x \in Seq(X)
    PROVE  FlattenSeq(Append(a, x)) = FlattenSeq(a) \o x
<1>1. Append(a, x) = a \o <<x>> /\ <<x>> \in Seq(Seq(X))
  OBVIOUS
<1>2. FlattenSeq(a \o <<x>>) = FlattenSeq(a) \o FlattenSeq(<<x>>)
  BY <1>1, FlattenConcat, Zenon
<1>3. FlattenSeq(<<x>>) = x
  BY FlattenOne, Zenon
<1> QED BY <1>1, <1>2, <1>3, Zenon

\* Every element of the flat sequence is one of the sequences in it.
LEMMA FlattenElements ==
    ASSUME NEW X, NEW ss \in Seq(Seq(X)), NEW i \in DOMAIN FlattenSeq(ss)
    PROVE  \E k \in DOMAIN ss : \E j \in DOMAIN ss[k] : FlattenSeq(ss)[i] = ss[k][j]
<1>1. PICK f : Flattens(f, X, ss) /\ FlattenSeq(ss) = f[Len(ss)]
  BY FlattenTrace
<1> DEFINE n == Len(ss)
           P(x) == \E k \in DOMAIN ss : \E j \in DOMAIN ss[k] : x = ss[k][j]
           A == {k \in 0..n : \A m \in DOMAIN f[k] : P(f[k][m])}
<1>2. n \in Nat /\ DOMAIN ss = 1..n /\ \A k \in 1..n : ss[k] \in Seq(X)
  BY LenProperties
<1>3. 0 \in A
  <2>1. DOMAIN f[0] = {}
    BY <1>1 DEF Flattens
  <2> QED BY <1>2, <2>1
<1>4. ASSUME NEW k \in 0..(n - 1), k \in A PROVE k + 1 \in A
  <2>1. k + 1 \in 1..n /\ (k + 1) - 1 = k /\ k \in 0..n /\ k + 1 \in 0..n
    BY <1>2
  <2>2. f[k + 1] = f[k] \o ss[k + 1] /\ f[k] \in Seq(X) /\ ss[k + 1] \in Seq(X)
    BY <1>1, <1>2, <2>1 DEF Flattens
  <2>3. PICK a, b : a = f[k] /\ b = ss[k + 1] /\ a \in Seq(X) /\ b \in Seq(X)
    BY <2>2
  <2>4. /\ Len(a) \in Nat /\ Len(b) \in Nat /\ DOMAIN a = 1..Len(a) /\ DOMAIN b = 1..Len(b)
        /\ DOMAIN (a \o b) = 1..(Len(a) + Len(b))
        /\ \A m \in 1..(Len(a) + Len(b)) : (a \o b)[m] = IF m <= Len(a) THEN a[m] ELSE b[m - Len(a)]
    <3> HIDE DEF A, P, n
    <3>1. /\ Len(a) \in Nat /\ Len(b) \in Nat /\ DOMAIN a = 1..Len(a) /\ DOMAIN b = 1..Len(b)
      BY <2>3, LenProperties
    <3>2. /\ a \o b \in Seq(X) /\ Len(a \o b) = Len(a) + Len(b)
          /\ \A m \in 1..(Len(a) + Len(b)) : (a \o b)[m] = IF m <= Len(a) THEN a[m] ELSE b[m - Len(a)]
      BY <2>3, ConcatProperties
    <3>3. DOMAIN (a \o b) = 1..Len(a \o b)
      BY <3>2, LenProperties
    <3> QED BY <3>1, <3>2, <3>3
  <2>5. ASSUME NEW m \in DOMAIN f[k + 1] PROVE P(f[k + 1][m])
    <3>1. m \in 1..(Len(a) + Len(b)) /\ f[k + 1][m] = IF m <= Len(a) THEN a[m] ELSE b[m - Len(a)]
      BY <2>2, <2>3, <2>4, <2>5
    <3>2. CASE m <= Len(a)
      <4>1. m \in DOMAIN f[k] /\ f[k + 1][m] = f[k][m]
        BY <2>3, <2>4, <3>1, <3>2
      <4> QED BY <1>4, <4>1
    <3>3. CASE ~(m <= Len(a))
      <4>1. k + 1 \in DOMAIN ss /\ m - Len(a) \in DOMAIN ss[k + 1] /\ f[k + 1][m] = ss[k + 1][m - Len(a)]
        <5> HIDE DEF n
        <5>1. m - Len(a) \in 1..Len(b)
          BY <2>4, <3>1, <3>3
        <5> QED BY <1>2, <2>1, <2>3, <2>4, <3>1, <3>3, <5>1
      <4> QED BY <4>1
    <3> QED BY <3>2, <3>3
  <2> HIDE DEF P
  <2> QED BY <2>1, <2>5
<1>5. n \in A
  <2>1. \A k \in 0..(n - 1) : k \in A => k + 1 \in A
    BY <1>4
  <2> HIDE DEF A, n
  <2>2. 0..n \subseteq A
    BY <1>2, <1>3, <2>1, Induction
  <2> QED BY <1>2, <2>2
<1> QED
  BY <1>1, <1>5

-----------------------------------------------------------------------------
\* SpeakerTurns: the turns of the worker ------------------------------------------------

Keep(kept, t) == IF Lasts(t) THEN Append(kept, t) ELSE kept

\* What the filter has kept after each turn.
LEMMA UsableTrace ==
    ASSUME NEW s \in Seq(Spoken)
    PROVE  \E f \in [0..Len(s) -> Seq(Spoken)] :
              /\ f[0] = <<>>
              /\ \A k \in 1..Len(s) : f[k] = Keep(f[k - 1], s[k])
              /\ Usable(s) = f[Len(s)]
<1> DEFINE n == Len(s)
           base == <<>>
           E(it) == it = [t \in SUBSET DOMAIN s |->
                            IF t = {} THEN base ELSE Keep(it[t \ {Max(t)}], s[Max(t)])]
           it0 == CHOOSE it : E(it)
           step == [p \in Seq(Spoken) \X (1..n) |-> Keep(p[1], s[p[2]])]
<1>1. n \in Nat /\ DOMAIN s = 1..n /\ \A k \in 1..n : s[k] \in Spoken
  BY LenProperties
<1>2. step \in [Seq(Spoken) \X (1..n) -> Seq(Spoken)] /\ base \in Seq(Spoken)
  <2>1. \A a \in Seq(Spoken), k \in 1..n : Keep(a, s[k]) \in Seq(Spoken)
    BY <1>1 DEF Keep
  <2> QED BY <2>1
<1>3. PICK it : IsFold(it, Seq(Spoken), base, step, n)
  <2> HIDE DEF n, step, base
  <2>1. n \in Nat /\ base \in Seq(Spoken)
    BY <1>1, <1>2
  <2> QED BY <2>1, <1>2, FoldsExist, Zenon
<1>4. \A t \in SUBSET (1..n) : t # {} => Max(t) \in 1..n /\ t \ {Max(t)} \in SUBSET (1..n)
  <2> HIDE DEF n
  <2> QED BY <1>1, MaxIs
<1>5. E(it0)
  <2>1. E(it)
    <3>1. \A t \in SUBSET (1..n) : t # {} => it[t \ {Max(t)}] \in Seq(Spoken)
      BY <1>3, <1>4 DEF IsFold
    <3> QED BY <1>1, <1>3, <1>4, <3>1 DEF IsFold
  <2> HIDE DEF E
  <2> QED BY <2>1
<1>6. Usable(s) = it0[DOMAIN s]
  BY DEF Usable, Keep, FoldLeft, MapThenFoldSet
<1>7. HasTrace(it0, Seq(Spoken), base, step, n)
  <2>1. it0[{}] = base /\ \A t \in SUBSET (1..n) : t # {} =>
            it0[t] = Keep(it0[t \ {Max(t)}], s[Max(t)])
    <3> HIDE DEF it0
    <3> QED BY <1>1, <1>5
  <2>2. \A t \in SUBSET (1..n) : t # {} /\ it0[t \ {Max(t)}] \in Seq(Spoken) =>
            it0[t] = step[<<it0[t \ {Max(t)}], Max(t)>>]
    <3> HIDE DEF it0, E
    <3> QED BY <2>1, <1>4
  <2>3. n \in Nat /\ base \in Seq(Spoken) /\ it0[{}] = base
    BY <1>1, <1>2, <2>1
  <2> HIDE DEF n, step, base, it0, E
  <2> QED BY <1>2, <2>2, <2>3, TracesExist, Zenon
<1>8. PICK f : IsTrace(f, Seq(Spoken), base, step, n) /\ f[n] = it0[1..n]
  BY <1>7 DEF HasTrace
<1> HIDE DEF it0, E
<1>9. f \in [0..n -> Seq(Spoken)] /\ f[0] = base /\ \A k \in 1..n : f[k] = Keep(f[k - 1], s[k])
  <2>1. \A k \in 1..n : f[k] = step[<<f[k - 1], k>>] /\ f[k - 1] \in Seq(Spoken)
    <3> HIDE DEF step, n
    <3> QED BY <1>1, <1>8 DEF IsTrace
  <2> QED BY <1>8, <2>1 DEF IsTrace
<1>10. Usable(s) = f[n]
  BY <1>1, <1>6, <1>8
<1> QED BY <1>9, <1>10

\* The worker keeps turns that all last as they are.
LEMMA AllUsable ==
    ASSUME NEW s \in Seq(Spoken), \A k \in DOMAIN s : Lasts(s[k])
    PROVE  Usable(s) = s
<1>1. PICK f \in [0..Len(s) -> Seq(Spoken)] :
              /\ f[0] = <<>>
              /\ \A k \in 1..Len(s) : f[k] = Keep(f[k - 1], s[k])
              /\ Usable(s) = f[Len(s)]
  BY UsableTrace
<1> DEFINE n == Len(s)
           A == {k \in 0..n : Len(f[k]) = k /\ \A j \in 1..k : f[k][j] = s[j]}
<1>2. n \in Nat /\ DOMAIN s = 1..n
  BY LenProperties
<1>3. 0 \in A
  BY <1>1, <1>2
<1>4. ASSUME NEW k \in 0..(n - 1), k \in A PROVE k + 1 \in A
  <2>1. k + 1 \in 1..n /\ (k + 1) - 1 = k /\ k \in 0..n
    BY <1>2
  <2>2. PICK a : a = f[k] /\ a \in Seq(Spoken) /\ Len(a) = k /\ \A j \in 1..k : a[j] = s[j]
    BY <1>4, <2>1
  <2>3. f[k + 1] = Append(a, s[k + 1])
    BY <1>1, <1>2, <2>1, <2>2 DEF Keep
  <2>4. Len(Append(a, s[k + 1])) = k + 1 /\ \A j \in 1..(k + 1) : Append(a, s[k + 1])[j] = s[j]
    BY <2>2
  <2> HIDE DEF n
  <2> QED BY <2>1, <2>3, <2>4
<1>5. n \in A
  <2>1. \A k \in 0..(n - 1) : k \in A => k + 1 \in A
    BY <1>4
  <2> HIDE DEF A, n
  <2>2. 0..n \subseteq A
    BY <1>2, <1>3, <2>1, Induction
  <2> QED BY <1>2, <2>2
<1>6. f[n] \in Seq(Spoken) /\ Len(f[n]) = Len(s) /\ \A j \in 1..Len(s) : f[n][j] = s[j]
  BY <1>2, <1>5
<1> QED
  BY <1>1, <1>6, SeqEqual

Naming == [names : Seq(Speakers), turns : Seq(Spoken)]

\* The names after a turn, and the number that it gets.
NamesAfter(st, t) ==
    IF \E n \in DOMAIN st.names : st.names[n] = t.speaker THEN st.names ELSE Append(st.names, t.speaker)

\* What the service does with a turn.
LEMMA NameIs ==
    ASSUME NEW st \in Naming, NEW t \in RawTurn
    PROVE  /\ ~Lasts(t) => Name(st, t) = st
           /\ Lasts(t) => \E n \in DOMAIN NamesAfter(st, t) :
                 /\ NamesAfter(st, t) \in Seq(Speakers) /\ n \in Nat
                 /\ NamesAfter(st, t)[n] = t.speaker
                 /\ Name(st, t) = [names |-> NamesAfter(st, t),
                                   turns |-> Append(st.turns, [start |-> t.start, end |-> t.end, speaker |-> n])]
<1>1. ~Lasts(t) => Name(st, t) = st
  BY DEF Name
<1>2. ASSUME Lasts(t)
      PROVE  \E n \in DOMAIN NamesAfter(st, t) :
                 /\ NamesAfter(st, t) \in Seq(Speakers) /\ n \in Nat
                 /\ NamesAfter(st, t)[n] = t.speaker
                 /\ Name(st, t) = [names |-> NamesAfter(st, t),
                                   turns |-> Append(st.turns, [start |-> t.start, end |-> t.end, speaker |-> n])]
  <2> DEFINE names == NamesAfter(st, t)
             n == CHOOSE n \in DOMAIN names : names[n] = t.speaker
  <2>1. names \in Seq(Speakers) /\ \E k \in DOMAIN names : names[k] = t.speaker
    <3>1. st.names \in Seq(Speakers) /\ t.speaker \in Speakers
      BY DEF Naming, RawTurn
    <3>2. CASE \E k \in DOMAIN st.names : st.names[k] = t.speaker
      BY <3>1, <3>2 DEF NamesAfter
    <3>3. CASE ~ \E k \in DOMAIN st.names : st.names[k] = t.speaker
      <4>1. names = Append(st.names, t.speaker)
        BY <3>3 DEF NamesAfter
      <4>2. Append(st.names, t.speaker) \in Seq(Speakers)
        BY <3>1
      <4>3. Len(st.names) + 1 \in DOMAIN Append(st.names, t.speaker)
        BY <3>1
      <4>4. Append(st.names, t.speaker)[Len(st.names) + 1] = t.speaker
        BY <3>1
      <4> QED BY <4>1, <4>2, <4>3, <4>4
    <3> QED BY <3>2, <3>3
  <2>2. Name(st, t) = [names |-> names,
                       turns |-> Append(st.turns, [start |-> t.start, end |-> t.end, speaker |-> n])]
    BY <1>2 DEF Name, NamesAfter
  <2> HIDE DEF names
  <2>3. n \in DOMAIN names /\ names[n] = t.speaker
    BY <2>1
  <2>4. n \in Nat
    BY <2>1, <2>3, LenProperties
  <2> HIDE DEF n
  <2> QED BY <2>1, <2>2, <2>3, <2>4 DEF names
<1> QED
  BY <1>1, <1>2

\* A name keeps its type.
LEMMA NameIsNaming ==
    ASSUME NEW st \in Naming, NEW t \in RawTurn
    PROVE  Name(st, t) \in Naming
<1>1. CASE ~Lasts(t)
  BY <1>1, NameIs
<1>2. CASE Lasts(t)
  <2>1. PICK n \in Nat : /\ NamesAfter(st, t) \in Seq(Speakers)
                         /\ Name(st, t) = [names |-> NamesAfter(st, t),
                                   turns |-> Append(st.turns, [start |-> t.start, end |-> t.end, speaker |-> n])]
    BY <1>2, NameIs
  <2>2. [start |-> t.start, end |-> t.end, speaker |-> n] \in Spoken /\ st.turns \in Seq(Spoken)
    BY DEF RawTurn, Spoken, Naming
  <2>3. Append(st.turns, [start |-> t.start, end |-> t.end, speaker |-> n]) \in Seq(Spoken)
    BY <2>2
  <2> QED BY <2>1, <2>3 DEF Naming
<1> QED BY <1>1, <1>2

\* The names and the turns after each turn of the pipeline.
LEMMA NameTrace ==
    ASSUME NEW s \in Seq(RawTurn)
    PROVE  \E f \in [0..Len(s) -> Naming] :
              /\ f[0] = [names |-> <<>>, turns |-> <<>>]
              /\ \A k \in 1..Len(s) : f[k] = Name(f[k - 1], s[k])
              /\ Named(s) = f[Len(s)].turns
<1> DEFINE n == Len(s)
           base == [names |-> <<>>, turns |-> <<>>]
           E(it) == it = [t \in SUBSET DOMAIN s |->
                            IF t = {} THEN base ELSE Name(it[t \ {Max(t)}], s[Max(t)])]
           it0 == CHOOSE it : E(it)
           step == [p \in Naming \X (1..n) |-> Name(p[1], s[p[2]])]
<1>1. n \in Nat /\ DOMAIN s = 1..n /\ \A k \in 1..n : s[k] \in RawTurn
  BY LenProperties
<1>2. step \in [Naming \X (1..n) -> Naming] /\ base \in Naming
  <2>1. \A a \in Naming, k \in 1..n : Name(a, s[k]) \in Naming
    BY <1>1, NameIsNaming
  <2> QED BY <2>1 DEF Naming
<1>3. PICK it : IsFold(it, Naming, base, step, n)
  <2> HIDE DEF n, step, base
  <2>1. n \in Nat /\ base \in Naming
    BY <1>1, <1>2
  <2> QED BY <2>1, <1>2, FoldsExist, Zenon
<1>4. \A t \in SUBSET (1..n) : t # {} => Max(t) \in 1..n /\ t \ {Max(t)} \in SUBSET (1..n)
  <2> HIDE DEF n
  <2> QED BY <1>1, MaxIs
<1>5. E(it0)
  <2>1. E(it)
    <3>1. \A t \in SUBSET (1..n) : t # {} => it[t \ {Max(t)}] \in Naming
      BY <1>3, <1>4 DEF IsFold
    <3> QED BY <1>1, <1>3, <1>4, <3>1 DEF IsFold
  <2> HIDE DEF E
  <2> QED BY <2>1
<1>6. Named(s) = it0[DOMAIN s].turns
  BY DEF Named, FoldLeft, MapThenFoldSet
<1>7. HasTrace(it0, Naming, base, step, n)
  <2>1. it0[{}] = base /\ \A t \in SUBSET (1..n) : t # {} =>
            it0[t] = Name(it0[t \ {Max(t)}], s[Max(t)])
    <3> HIDE DEF it0
    <3> QED BY <1>1, <1>5
  <2>2. \A t \in SUBSET (1..n) : t # {} /\ it0[t \ {Max(t)}] \in Naming =>
            it0[t] = step[<<it0[t \ {Max(t)}], Max(t)>>]
    <3> HIDE DEF it0, E
    <3> QED BY <2>1, <1>4
  <2>3. n \in Nat /\ base \in Naming /\ it0[{}] = base
    BY <1>1, <1>2, <2>1
  <2> HIDE DEF n, step, base, it0, E
  <2> QED BY <1>2, <2>2, <2>3, TracesExist, Zenon
<1>8. PICK f : IsTrace(f, Naming, base, step, n) /\ f[n] = it0[1..n]
  BY <1>7 DEF HasTrace
<1> HIDE DEF it0, E
<1>9. f \in [0..n -> Naming] /\ f[0] = base /\ \A k \in 1..n : f[k] = Name(f[k - 1], s[k])
  <2>1. \A k \in 1..n : f[k] = step[<<f[k - 1], k>>] /\ f[k - 1] \in Naming
    <3> HIDE DEF step, n
    <3> QED BY <1>1, <1>8 DEF IsTrace
  <2> QED BY <1>8, <2>1 DEF IsTrace
<1>10. Named(s) = f[n].turns
  BY <1>1, <1>6, <1>8
<1> QED BY <1>9, <1>10

\* at says from which of the first k turns each of the named ones is.
AreFrom(st, s, k, at) ==
    /\ at \in [DOMAIN st.turns -> 1..k]
    /\ \A j \in 1..k : Lasts(s[j]) => \E m \in DOMAIN st.turns : at[m] = j
    /\ \A m \in DOMAIN st.turns :
          /\ Lasts(s[at[m]])
          /\ st.turns[m].start = s[at[m]].start /\ st.turns[m].end = s[at[m]].end
          /\ st.turns[m].speaker \in DOMAIN st.names
          /\ st.names[st.turns[m].speaker] = s[at[m]].speaker
    /\ \A m, l \in DOMAIN st.turns : m < l => at[m] < at[l]

\* One name has one number, each number is heard, none before the smaller ones.
NamesAreHeard(st) ==
    /\ \A a, b \in DOMAIN st.names : st.names[a] = st.names[b] => a = b
    /\ \A n \in DOMAIN st.names : \E m \in DOMAIN st.turns : st.turns[m].speaker = n
    /\ \A m \in DOMAIN st.turns : \A n \in 1..(st.turns[m].speaker - 1) :
          \E j \in 1..(m - 1) : st.turns[j].speaker = n

NamedSoFar(st, s, k) == (\E at : AreFrom(st, s, k, at)) /\ NamesAreHeard(st)

\* One more turn: the numbers are still right.
LEMMA NameIsNamed ==
    ASSUME NEW s \in Seq(RawTurn), NEW k \in 1..Len(s), NEW st \in Naming, NamedSoFar(st, s, k - 1)
    PROVE  NamedSoFar(Name(st, s[k]), s, k)
<1>1. s[k] \in RawTurn /\ k \in Nat /\ k - 1 \in Nat /\ 1..k = 1..(k - 1) \cup {k}
  BY LenProperties
<1>2. PICK at : AreFrom(st, s, k - 1, at)
  BY DEF NamedSoFar
<1>3. NamesAreHeard(st)
  BY DEF NamedSoFar
<1>4. CASE ~Lasts(s[k])
  <2>1. AreFrom(st, s, k, at)
    BY <1>1, <1>2, <1>4 DEF AreFrom
  <2>2. Name(st, s[k]) = st
    BY <1>1, <1>4, NameIs
  <2> QED BY <1>3, <2>1, <2>2 DEF NamedSoFar
<1>5. CASE Lasts(s[k])
  <2> DEFINE names == NamesAfter(st, s[k])
  <2>1. PICK n \in DOMAIN names :
           /\ names \in Seq(Speakers) /\ n \in Nat /\ names[n] = s[k].speaker
           /\ Name(st, s[k]) = [names |-> names,
                turns |-> Append(st.turns, [start |-> s[k].start, end |-> s[k].end, speaker |-> n])]
    BY <1>1, <1>5, NameIs
  <2> DEFINE t == [start |-> s[k].start, end |-> s[k].end, speaker |-> n]
             turns == Append(st.turns, t)
  <2>2. st.names \in Seq(Speakers) /\ st.turns \in Seq(Spoken)
    BY DEF Naming
  <2>3. PICK c \in Nat : c = Len(st.names) /\ DOMAIN st.names = 1..c
    BY <2>2, LenProperties
  <2>4. PICK d \in Nat : d = Len(st.turns) /\ DOMAIN st.turns = 1..d
    BY <2>2, LenProperties
  <2>5. t.start = s[k].start /\ t.end = s[k].end /\ t.speaker = n /\ t \in Spoken
    BY <1>1, <2>1 DEF RawTurn, Spoken
  <2>6. /\ DOMAIN turns = 1..(d + 1) /\ turns[d + 1] = t
        /\ \A m \in 1..d : turns[m] = st.turns[m]
    BY <2>2, <2>4, <2>5
  <2>7. \/ /\ names = st.names
        \/ /\ DOMAIN names = 1..(c + 1) /\ n = c + 1
           /\ \A a \in 1..c : names[a] = st.names[a] /\ names[a] # s[k].speaker
    <3>1. CASE \E a \in DOMAIN st.names : st.names[a] = s[k].speaker
      BY <3>1 DEF NamesAfter
    <3>2. CASE ~ \E a \in DOMAIN st.names : st.names[a] = s[k].speaker
      <4>1. names = Append(st.names, s[k].speaker) /\ s[k].speaker \in Speakers
        BY <1>1, <3>2 DEF NamesAfter, RawTurn
      <4>2. DOMAIN names = 1..(c + 1) /\ \A a \in 1..c : names[a] = st.names[a]
        BY <2>2, <2>3, <4>1
      <4>3. \A a \in 1..c : names[a] # s[k].speaker
        BY <2>3, <3>2, <4>2
      <4> HIDE DEF names
      <4>4. n = c + 1
        BY <2>1, <4>2, <4>3
      <4> QED BY <4>2, <4>3, <4>4
    <3> QED BY <3>1, <3>2
  <2>8. PICK u : u = [names |-> names, turns |-> turns]
    OBVIOUS
  <2>9. Name(st, s[k]) = u /\ u.names = names /\ u.turns = turns
    BY <2>1, <2>8
  <2> HIDE DEF names, turns, t
  <2>0. /\ \A a, b \in 1..c : st.names[a] = st.names[b] => a = b
        /\ \A a \in 1..c : \E m \in 1..d : st.turns[m].speaker = a
        /\ \A m \in 1..d : \A a \in 1..(st.turns[m].speaker - 1) :
              \E j \in 1..(m - 1) : st.turns[j].speaker = a
    BY <1>3, <2>3, <2>4, Zenon DEF NamesAreHeard
  <2>10. /\ \A a \in 1..c : a \in DOMAIN names /\ names[a] = st.names[a]
         /\ \A a, b \in DOMAIN names : names[a] = names[b] => a = b
         /\ \A a \in DOMAIN names : a \in 1..c \/ a = n
         /\ \A a \in 1..(n - 1) : a \in 1..c
    <3>1. CASE names = st.names
      <4>1. DOMAIN names = 1..c /\ \A a \in 1..c : names[a] = st.names[a]
        BY <2>3, <3>1
      <4>2. n \in 1..c
        BY <2>1, <4>1
      <4>3. ASSUME NEW a \in DOMAIN names, NEW b \in DOMAIN names, names[a] = names[b] PROVE a = b
        <5>1. a \in 1..c /\ b \in 1..c /\ st.names[a] = st.names[b]
          BY <4>1, <4>3
        <5> QED BY <2>0, <5>1
      <4>4. \A a \in 1..(n - 1) : a \in 1..c
        BY <4>2
      <4> QED BY <4>1, <4>3, <4>4
    <3>2. CASE /\ DOMAIN names = 1..(c + 1) /\ n = c + 1
               /\ \A a \in 1..c : names[a] = st.names[a] /\ names[a] # s[k].speaker
      <4>1. ASSUME NEW a \in DOMAIN names, NEW b \in DOMAIN names, names[a] = names[b] PROVE a = b
        <5>1. names[c + 1] = s[k].speaker
          BY <2>1, <3>2
        <5>2. a \in 1..c \/ a = c + 1
          BY <3>2
        <5>3. b \in 1..c \/ b = c + 1
          BY <3>2
        <5>4. CASE a \in 1..c /\ b \in 1..c
          BY <2>0, <3>2, <4>1, <5>4
        <5> QED BY <3>2, <4>1, <5>1, <5>2, <5>3, <5>4
      <4> QED BY <2>3, <3>2, <4>1
    <3> QED BY <2>7, <3>1, <3>2
  <2>11. NamesAreHeard(u)
    <3>1. \A a \in DOMAIN names : \E m \in 1..(d + 1) : turns[m].speaker = a
      <4>1. SUFFICES ASSUME NEW a \in DOMAIN names PROVE \E m \in 1..(d + 1) : turns[m].speaker = a
        OBVIOUS
      <4>2. CASE a = n
        <5>1. d + 1 \in 1..(d + 1) /\ turns[d + 1].speaker = a
          BY <2>5, <2>6, <4>2
        <5> QED BY <5>1
      <4>3. CASE a \in 1..c
        <5>1. PICK m \in 1..d : st.turns[m].speaker = a
          BY <2>0, <4>3
        <5>2. m \in 1..(d + 1) /\ turns[m].speaker = a
          BY <2>6, <5>1
        <5> QED BY <5>2
      <4> QED BY <2>10, <4>2, <4>3
    <3>2. ASSUME NEW m \in 1..(d + 1), NEW a \in 1..(turns[m].speaker - 1)
          PROVE  \E j \in 1..(m - 1) : turns[j].speaker = a
      <4>1. CASE m \in 1..d
        <5>1. PICK j \in 1..(m - 1) : st.turns[j].speaker = a
          BY <2>0, <2>6, <3>2, <4>1
        <5>2. j \in 1..d
          BY <4>1
        <5> QED BY <2>6, <5>1, <5>2
      <4>2. CASE m = d + 1
        <5>1. a \in 1..c
          BY <2>5, <2>6, <2>10, <3>2, <4>2
        <5>2. PICK j \in 1..d : st.turns[j].speaker = a
          BY <2>0, <5>1
        <5> QED BY <2>6, <4>2, <5>2
      <4> QED BY <4>1, <4>2
    <3>3. \A m \in 1..(d + 1) : \A a \in 1..(turns[m].speaker - 1) :
             \E j \in 1..(m - 1) : turns[j].speaker = a
      BY <3>2
    <3>4. \A a, b \in DOMAIN names : names[a] = names[b] => a = b
      BY <2>10
    <3>5. /\ \A a \in DOMAIN names : \E m \in DOMAIN turns : turns[m].speaker = a
          /\ \A m \in DOMAIN turns : \A a \in 1..(turns[m].speaker - 1) :
                \E j \in 1..(m - 1) : turns[j].speaker = a
      BY <2>6, <3>1, <3>3, Zenon
    <3>6. u.names = names /\ u.turns = turns
      BY <2>9
    <3>7. \A a, b \in DOMAIN u.names : u.names[a] = u.names[b] => a = b
      BY <3>4, <3>6
    <3>8. \A a \in DOMAIN u.names : \E m \in DOMAIN u.turns : u.turns[m].speaker = a
      BY <3>5, <3>6
    <3>9. \A m \in DOMAIN u.turns : \A a \in 1..(u.turns[m].speaker - 1) :
             \E j \in 1..(m - 1) : u.turns[j].speaker = a
      BY <3>5, <3>6
    <3> QED BY <3>7, <3>8, <3>9 DEF NamesAreHeard
  <2>12. \E to : AreFrom(u, s, k, to)
    <3> DEFINE to == [m \in 1..(d + 1) |-> IF m = d + 1 THEN k ELSE at[m]]
    <3>0. /\ at \in [1..d -> 1..(k - 1)]
          /\ \A j \in 1..(k - 1) : Lasts(s[j]) => \E m \in 1..d : at[m] = j
          /\ \A m \in 1..d :
               /\ Lasts(s[at[m]])
               /\ st.turns[m].start = s[at[m]].start /\ st.turns[m].end = s[at[m]].end
               /\ st.turns[m].speaker \in 1..c
               /\ st.names[st.turns[m].speaker] = s[at[m]].speaker
          /\ \A m, l \in 1..d : m < l => at[m] < at[l]
      BY <1>2, <2>3, <2>4, Zenon DEF AreFrom
    <3>1. to[d + 1] = k /\ \A m \in 1..d : to[m] = at[m] /\ at[m] \in 1..(k - 1) /\ at[m] < k
      BY <1>1, <3>0
    <3>2. to \in [DOMAIN turns -> 1..k]
      <4>1. \A m \in 1..(d + 1) : (IF m = d + 1 THEN k ELSE at[m]) \in 1..k
        <5>1. SUFFICES ASSUME NEW m \in 1..(d + 1), m # d + 1 PROVE at[m] \in 1..k
          BY <1>1
        <5>2. m \in 1..d
          BY <5>1
        <5> QED BY <1>1, <3>0, <5>2
      <4> QED BY <2>6, <4>1 DEF to
    <3> HIDE DEF to
    <3>3. ASSUME NEW j \in 1..k, Lasts(s[j]) PROVE \E m \in DOMAIN turns : to[m] = j
      <4>1. CASE j = k
        BY <2>6, <3>1, <4>1
      <4>2. CASE j # k
        <5>1. PICK m \in 1..d : at[m] = j
          BY <1>1, <3>0, <3>3, <4>2
        <5>2. m \in 1..(d + 1) /\ to[m] = j
          BY <3>1, <5>1
        <5> QED BY <2>6, <5>2
      <4> QED BY <4>1, <4>2
    <3>4. ASSUME NEW m \in DOMAIN turns
          PROVE  /\ Lasts(s[to[m]])
                 /\ turns[m].start = s[to[m]].start /\ turns[m].end = s[to[m]].end
                 /\ turns[m].speaker \in DOMAIN names
                 /\ names[turns[m].speaker] = s[to[m]].speaker
      <4>1. CASE m = d + 1
        BY <1>5, <2>1, <2>5, <2>6, <3>1, <4>1
      <4>2. CASE m \in 1..d
        <5>1. turns[m] = st.turns[m] /\ to[m] = at[m]
          BY <2>6, <3>1, <4>2
        <5>2. st.turns[m].speaker \in 1..c /\ st.names[st.turns[m].speaker] = s[at[m]].speaker
          BY <3>0, <4>2
        <5>3. names[st.turns[m].speaker] = s[at[m]].speaker /\ st.turns[m].speaker \in DOMAIN names
          BY <2>10, <5>2
        <5> QED BY <3>0, <4>2, <5>1, <5>3
      <4> QED BY <2>6, <4>1, <4>2
    <3>5. ASSUME NEW m \in DOMAIN turns, NEW l \in DOMAIN turns, m < l PROVE to[m] < to[l]
      <4>1. m \in 1..d
        BY <2>6, <3>5
      <4>2. CASE l = d + 1
        BY <3>1, <4>1, <4>2
      <4>3. CASE l \in 1..d
        BY <3>0, <3>1, <3>5, <4>1, <4>3
      <4> QED BY <2>6, <4>2, <4>3
    <3>6. AreFrom(u, s, k, to)
      BY <2>9, <3>2, <3>3, <3>4, <3>5 DEF AreFrom
    <3> QED BY <3>6
  <2> QED BY <2>9, <2>11, <2>12 DEF NamedSoFar
<1> QED BY <1>4, <1>5

\* What the service makes of turns in time.
LEMMA NamedIsRight ==
    ASSUME NEW s \in Seq(RawTurn)
    PROVE  \E st \in Naming : Named(s) = st.turns /\ NamedSoFar(st, s, Len(s))
<1>1. PICK f \in [0..Len(s) -> Naming] :
              /\ f[0] = [names |-> <<>>, turns |-> <<>>]
              /\ \A k \in 1..Len(s) : f[k] = Name(f[k - 1], s[k])
              /\ Named(s) = f[Len(s)].turns
  BY NameTrace
<1> DEFINE n == Len(s)
           A == {k \in 0..n : NamedSoFar(f[k], s, k)}
<1>2. n \in Nat
  BY LenProperties
<1>3. 0 \in A
  <2>1. f[0].turns = <<>> /\ f[0].names = <<>> /\ DOMAIN (<<>>) = {}
    BY <1>1
  <2>2. NamesAreHeard(f[0])
    BY <2>1 DEF NamesAreHeard
  <2>3. AreFrom(f[0], s, 0, <<>>)
    BY <2>1 DEF AreFrom
  <2> QED BY <1>2, <2>2, <2>3 DEF NamedSoFar
<1>4. ASSUME NEW k \in 0..(n - 1), k \in A PROVE k + 1 \in A
  <2>1. k + 1 \in 1..n /\ (k + 1) - 1 = k /\ f[k] \in Naming
    BY <1>2
  <2>2. f[k + 1] = Name(f[k], s[k + 1])
    BY <1>1, <2>1
  <2>3. NamedSoFar(f[k], s, (k + 1) - 1)
    BY <1>4, <2>1
  <2>4. NamedSoFar(f[k + 1], s, k + 1)
    BY <2>1, <2>2, <2>3, NameIsNamed
  <2> QED BY <2>1, <2>4
<1>5. n \in A
  <2>1. \A k \in 0..(n - 1) : k \in A => k + 1 \in A
    BY <1>4
  <2> HIDE DEF A, n
  <2>2. 0..n \subseteq A
    BY <1>2, <1>3, <2>1, Induction
  <2> QED BY <1>2, <2>2
<1>6. f[n] \in Naming
  BY <1>2
<1> QED
  BY <1>1, <1>5, <1>6

\* The turns that come before turn i in time.
Sooner(i) == {j \in DOMAIN found : Earlier(j, i)}

\* The order in time is a strict total one.
LEMMA EarlierIsAnOrder ==
    ASSUME found \in Seq(RawTurn)
    PROVE  \A i, j \in DOMAIN found :
              /\ ~Earlier(i, i)
              /\ i # j => Earlier(i, j) \/ Earlier(j, i)
              /\ Earlier(i, j) => ~Earlier(j, i)
              /\ \A l \in DOMAIN found : Earlier(i, j) /\ Earlier(j, l) => Earlier(i, l)
<1>1. \A i \in DOMAIN found : i \in Int /\ found[i].start \in Int /\ found[i].end \in Int
  <2>1. \A i \in DOMAIN found : i \in Nat /\ found[i] \in RawTurn
    BY LenProperties
  <2> QED BY <2>1 DEF RawTurn
<1>2. SUFFICES ASSUME NEW i \in DOMAIN found, NEW j \in DOMAIN found, NEW l \in DOMAIN found
               PROVE  /\ ~Earlier(i, i)
                      /\ i # j => Earlier(i, j) \/ Earlier(j, i)
                      /\ Earlier(i, j) => ~Earlier(j, i)
                      /\ Earlier(i, j) /\ Earlier(j, l) => Earlier(i, l)
  OBVIOUS
<1>3. /\ i \in Int /\ found[i].start \in Int /\ found[i].end \in Int
      /\ j \in Int /\ found[j].start \in Int /\ found[j].end \in Int
      /\ l \in Int /\ found[l].start \in Int /\ found[l].end \in Int
  BY <1>1
<1> QED
  BY <1>3 DEF Earlier

\* The turns can be counted in time, each at its rank.
LEMMA RanksAreUnique ==
    ASSUME found \in Seq(RawTurn), NEW n \in Nat, DOMAIN found = 1..n
    PROVE  /\ \A i \in 1..n : Cardinality(Sooner(i)) \in 0..(n - 1)
           /\ \A i, j \in 1..n : Earlier(i, j) => Cardinality(Sooner(i)) < Cardinality(Sooner(j))
           /\ \A k \in 1..n : \E i \in 1..n : Cardinality(Sooner(i)) = k - 1
<1>1. \A i, j \in 1..n :
              /\ ~Earlier(i, i)
              /\ i # j => Earlier(i, j) \/ Earlier(j, i)
              /\ Earlier(i, j) => ~Earlier(j, i)
              /\ \A l \in 1..n : Earlier(i, j) /\ Earlier(j, l) => Earlier(i, l)
  BY EarlierIsAnOrder
<1>2. IsFiniteSet(1..n) /\ Cardinality(1..n) = n
  BY FS_Interval
<1>3. \A i \in 1..n : /\ Sooner(i) \in SUBSET (1..n) /\ i \notin Sooner(i)
                      /\ IsFiniteSet(Sooner(i)) /\ Cardinality(Sooner(i)) \in Nat
  <2>1. \A i \in 1..n : Sooner(i) \in SUBSET (1..n) /\ i \notin Sooner(i)
    BY <1>1 DEF Sooner
  <2> QED BY <1>2, <2>1, FS_Subset, FS_CardinalityType
<1>4. ASSUME NEW i \in 1..n PROVE Cardinality(Sooner(i)) \in 0..(n - 1)
  <2>1. Cardinality(Sooner(i)) <= n /\ (Cardinality(Sooner(i)) = n => Sooner(i) = 1..n)
    BY <1>2, <1>3, FS_Subset
  <2> QED BY <1>3, <2>1
<1>5. ASSUME NEW i \in 1..n, NEW j \in 1..n, Earlier(i, j)
      PROVE  Cardinality(Sooner(i)) < Cardinality(Sooner(j))
  <2>1. Sooner(i) \in SUBSET Sooner(j) /\ i \in Sooner(j)
    BY <1>1, <1>5 DEF Sooner
  <2>2. /\ Cardinality(Sooner(i)) <= Cardinality(Sooner(j))
        /\ Cardinality(Sooner(j)) = Cardinality(Sooner(i)) => Sooner(j) = Sooner(i)
    BY <1>3, <2>1, FS_Subset
  <2> QED BY <1>3, <2>1, <2>2
<1>6. ASSUME NEW k \in 1..n PROVE \E i \in 1..n : Cardinality(Sooner(i)) = k - 1
  <2> DEFINE r == [i \in 1..n |-> Cardinality(Sooner(i))]
  <2>1. r \in Injection(1..n, 0..(n - 1))
    <3>1. r \in [1..n -> 0..(n - 1)]
      BY <1>4
    <3>2. ASSUME NEW i \in 1..n, NEW j \in 1..n, i # j PROVE r[i] # r[j]
      <4>1. Cardinality(Sooner(i)) < Cardinality(Sooner(j)) \/ Cardinality(Sooner(j)) < Cardinality(Sooner(i))
        BY <1>1, <1>5, <3>2
      <4> QED BY <1>3, <4>1
    <3> HIDE DEF r
    <3> QED BY <3>1, <3>2 DEF Injection, IsInjective
  <2>2. IsFiniteSet(0..(n - 1)) /\ Cardinality(0..(n - 1)) = n
    BY FS_Interval
  <2>3. r \in Surjection(1..n, 0..(n - 1))
    <3> HIDE DEF r
    <3> QED BY <1>2, <2>1, <2>2, FS_Injection
  <2>4. k - 1 \in 0..(n - 1)
    OBVIOUS
  <2>5. \E i \in 1..n : r[i] = k - 1
    <3> HIDE DEF r
    <3> QED BY <2>3, <2>4 DEF Surjection
  <2> QED BY <2>5
<1> QED
  BY <1>4, <1>5, <1>6

\* InTime goes through all turns, in time.
LEMMA InTimeIsSorted ==
    ASSUME found \in Seq(RawTurn), NEW n \in Nat, DOMAIN found = 1..n
    PROVE  /\ \A k \in 1..n : InTime(k) \in 1..n
           /\ \A k, l \in 1..n : k < l => Earlier(InTime(k), InTime(l))
           /\ \A i \in 1..n : \E k \in 1..n : InTime(k) = i
<1>1. /\ \A i \in 1..n : Cardinality(Sooner(i)) \in 0..(n - 1)
      /\ \A i, j \in 1..n : Earlier(i, j) => Cardinality(Sooner(i)) < Cardinality(Sooner(j))
      /\ \A k \in 1..n : \E i \in 1..n : Cardinality(Sooner(i)) = k - 1
  BY RanksAreUnique
<1>2. \A i, j \in 1..n : i # j => Earlier(i, j) \/ Earlier(j, i)
  BY EarlierIsAnOrder
<1>3. \A k \in 1..n : InTime(k) \in 1..n /\ Cardinality(Sooner(InTime(k))) = k - 1
  <2>1. SUFFICES ASSUME NEW k \in 1..n
                 PROVE  InTime(k) \in 1..n /\ Cardinality(Sooner(InTime(k))) = k - 1
    OBVIOUS
  <2>2. InTime(k) = CHOOSE i \in DOMAIN found : Cardinality(Sooner(i)) = k - 1
    BY DEF InTime, Sooner
  <2>3. \E i \in DOMAIN found : Cardinality(Sooner(i)) = k - 1
    BY <1>1
  <2> QED BY <2>2, <2>3
<1>4. ASSUME NEW k \in 1..n, NEW l \in 1..n, k < l PROVE Earlier(InTime(k), InTime(l))
  <2>1. PICK i \in 1..n, j \in 1..n : i = InTime(k) /\ j = InTime(l)
    BY <1>3
  <2>2. Cardinality(Sooner(i)) = k - 1 /\ Cardinality(Sooner(j)) = l - 1
    BY <1>3, <2>1
  <2>3. i # j /\ ~Earlier(j, i)
    <3>1. ~(l - 1 < k - 1) /\ k - 1 # l - 1
      BY <1>4
    <3> QED BY <1>1, <2>2, <3>1
  <2>4. Earlier(i, j)
    BY <1>2, <2>3
  <2> QED BY <2>1, <2>4
<1>5. ASSUME NEW i \in 1..n PROVE \E k \in 1..n : InTime(k) = i
  <2>1. PICK k \in 1..n : Cardinality(Sooner(i)) = k - 1
    <3>1. PICK c \in 0..(n - 1) : c = Cardinality(Sooner(i))
      BY <1>1
    <3>2. c + 1 \in 1..n /\ (c + 1) - 1 = c
      OBVIOUS
    <3> QED BY <3>1, <3>2
  <2>2. PICK j \in 1..n : j = InTime(k)
    BY <1>3
  <2>3. Cardinality(Sooner(j)) = Cardinality(Sooner(i)) /\ Cardinality(Sooner(i)) \in Nat
    BY <1>1, <1>3, <2>1, <2>2
  <2>4. ~Earlier(i, j) /\ ~Earlier(j, i)
    BY <1>1, <2>3
  <2>5. i = j
    BY <1>2, <2>4
  <2> QED BY <2>2, <2>5
<1> QED
  BY <1>3, <1>4, <1>5

\* The worker has the turns that last, well named.
LEMMA TurnsAreRight ==
    ASSUME found \in Seq(RawTurn)
    PROVE  Turns \in Seq(Spoken) /\ TurnsAreNamed
<1>1. PICK n \in Nat : DOMAIN found = 1..n
  BY LenProperties
<1>2. /\ \A k \in 1..n : InTime(k) \in 1..n
      /\ \A k, l \in 1..n : k < l => Earlier(InTime(k), InTime(l))
      /\ \A i \in 1..n : \E k \in 1..n : InTime(k) = i
  BY <1>1, InTimeIsSorted
<1>3. PICK s \in Seq(RawTurn) : /\ s = [k \in DOMAIN found |-> found[InTime(k)]]
                                /\ Len(s) = n /\ \A k \in 1..n : s[k] = found[InTime(k)]
  <2>1. \A i \in 1..n : found[i] \in RawTurn
    BY <1>1, LenProperties
  <2>2. \A k \in 1..n : found[InTime(k)] \in RawTurn
    BY <1>2, <2>1
  <2>3. [k \in DOMAIN found |-> found[InTime(k)]] = [k \in 1..n |-> found[InTime(k)]]
    BY <1>1
  <2>4. PICK s : s = [k \in 1..n |-> found[InTime(k)]]
    OBVIOUS
  <2>5. s \in Seq(RawTurn) /\ Len(s) = n /\ \A k \in 1..n : s[k] = found[InTime(k)]
    BY <2>2, <2>4
  <2> QED BY <2>3, <2>4, <2>5
<1>4. PICK st \in Naming : Named(s) = st.turns /\ NamedSoFar(st, s, Len(s))
  BY NamedIsRight
<1>5. PICK at : AreFrom(st, s, n, at)
  BY <1>3, <1>4 DEF NamedSoFar
<1>6. PICK turns \in Seq(Spoken) : turns = st.turns
  BY DEF Naming
<1>7. /\ at \in [DOMAIN turns -> 1..n]
      /\ \A j \in 1..n : Lasts(s[j]) => \E m \in DOMAIN turns : at[m] = j
      /\ \A m \in DOMAIN turns :
            /\ Lasts(s[at[m]])
            /\ turns[m].start = s[at[m]].start /\ turns[m].end = s[at[m]].end
            /\ turns[m].speaker \in DOMAIN st.names
            /\ st.names[turns[m].speaker] = s[at[m]].speaker
      /\ \A m, l \in DOMAIN turns : m < l => at[m] < at[l]
  BY <1>5, <1>6, Zenon DEF AreFrom
<1>8. Turns = turns
  <2>1. \A m \in DOMAIN turns : Lasts(turns[m])
    BY <1>7 DEF Lasts
  <2>2. Usable(turns) = turns
    BY <2>1, AllUsable
  <2>3. Normalized = turns
    BY <1>3, <1>4, <1>6, Zenon DEF Normalized
  <2> QED BY <2>2, <2>3, Zenon DEF Turns
<1>9. \E of \in [DOMAIN turns -> {i \in DOMAIN found : Lasts(found[i])}] :
          /\ \A i \in DOMAIN found : Lasts(found[i]) => \E k \in DOMAIN turns : of[k] = i
          /\ \A k \in DOMAIN turns : /\ turns[k].start = found[of[k]].start
                                     /\ turns[k].end = found[of[k]].end
          /\ \A k, l \in DOMAIN turns :
                /\ k < l => Earlier(of[k], of[l])
                /\ turns[k].speaker = turns[l].speaker <=> found[of[k]].speaker = found[of[l]].speaker
  <2> DEFINE of == [k \in DOMAIN turns |-> InTime(at[k])]
  <2>1. \A k \in DOMAIN turns : at[k] \in 1..n /\ of[k] = InTime(at[k]) /\ of[k] \in 1..n
                                 /\ s[at[k]] = found[of[k]]
    BY <1>2, <1>3, <1>7
  <2>2. of \in [DOMAIN turns -> {i \in DOMAIN found : Lasts(found[i])}]
    BY <1>1, <1>2, <1>3, <1>7
  <2> HIDE DEF of
  <2>3. ASSUME NEW i \in DOMAIN found, Lasts(found[i]) PROVE \E k \in DOMAIN turns : of[k] = i
    <3>1. PICK j \in 1..n : InTime(j) = i
      BY <1>1, <1>2
    <3>2. Lasts(s[j])
      BY <1>3, <2>3, <3>1
    <3>3. PICK k \in DOMAIN turns : at[k] = j
      BY <1>7, <3>2
    <3> QED BY <2>1, <3>1, <3>3
  <2>4. ASSUME NEW k \in DOMAIN turns
        PROVE  turns[k].start = found[of[k]].start /\ turns[k].end = found[of[k]].end
    BY <1>7, <2>1
  <2>5. ASSUME NEW k \in DOMAIN turns, NEW l \in DOMAIN turns, k < l PROVE Earlier(of[k], of[l])
    <3>1. at[k] < at[l]
      BY <1>7, <2>5
    <3>2. PICK a \in 1..n, b \in 1..n : a = at[k] /\ b = at[l]
      BY <2>1
    <3>3. of[k] = InTime(a) /\ of[l] = InTime(b) /\ Earlier(InTime(a), InTime(b))
      BY <1>2, <2>1, <3>1, <3>2
    <3> QED BY <3>3
  <2>6. ASSUME NEW k \in DOMAIN turns, NEW l \in DOMAIN turns
        PROVE  turns[k].speaker = turns[l].speaker <=> found[of[k]].speaker = found[of[l]].speaker
    <3>1. /\ turns[k].speaker \in DOMAIN st.names /\ st.names[turns[k].speaker] = found[of[k]].speaker
          /\ turns[l].speaker \in DOMAIN st.names /\ st.names[turns[l].speaker] = found[of[l]].speaker
      BY <1>7, <2>1
    <3>2. \A a, b \in DOMAIN st.names : st.names[a] = st.names[b] => a = b
      BY <1>4 DEF NamedSoFar, NamesAreHeard
    <3> QED BY <3>1, <3>2
  <2> QED BY <2>2, <2>3, <2>4, <2>5, <2>6
<1>10. \A m \in DOMAIN turns : \A a \in 1..(turns[m].speaker - 1) :
          \E j \in 1..(m - 1) : turns[j].speaker = a
  <2>1. NamesAreHeard(st)
    BY <1>4 DEF NamedSoFar
  <2>2. \A m \in DOMAIN st.turns : \A a \in 1..(st.turns[m].speaker - 1) :
          \E j \in 1..(m - 1) : st.turns[j].speaker = a
    BY <2>1, Zenon DEF NamesAreHeard
  <2> QED BY <1>6, <2>2
<1>11. TurnsAreNamed
  <2>1. TurnsAreNamed <=>
          /\ \E of \in [DOMAIN turns -> {i \in DOMAIN found : Lasts(found[i])}] :
                /\ \A i \in DOMAIN found : Lasts(found[i]) => \E k \in DOMAIN turns : of[k] = i
                /\ \A k \in DOMAIN turns : /\ turns[k].start = found[of[k]].start
                                           /\ turns[k].end = found[of[k]].end
                /\ \A k, l \in DOMAIN turns :
                      /\ k < l => Earlier(of[k], of[l])
                      /\ turns[k].speaker = turns[l].speaker <=> found[of[k]].speaker = found[of[l]].speaker
          /\ \A m \in DOMAIN turns : \A a \in 1..(turns[m].speaker - 1) :
                \E j \in 1..(m - 1) : turns[j].speaker = a
    BY <1>8 DEF TurnsAreNamed
  <2> QED BY <1>9, <1>10, <2>1
<1> QED
  BY <1>8, <1>11

-----------------------------------------------------------------------------
\* SpeakerTurns: the labelled transcript -----------------------------------------------

LineOf == [start : Int, end : Int, words : Seq(Word), speaker : Nat \cup {Nobody}]

\* A sequence is all but its last element, and that.
LEMMA FrontAndLast ==
    ASSUME NEW S, NEW s \in Seq(S), s # <<>>
    PROVE  /\ Front(s) \in Seq(S) /\ Last(s) \in S /\ s = Append(Front(s), Last(s))
           /\ Len(s) \in Nat \ {0} /\ Len(Front(s)) = Len(s) - 1 /\ Last(s) = s[Len(s)]
           /\ \A i \in 1..(Len(s) - 1) : Front(s)[i] = s[i]
<1>1. PICK n \in Nat \ {0} : n = Len(s) /\ \A i \in 1..n : s[i] \in S
  BY EmptySeq, LenProperties
<1>2. PICK f : f = Front(s) /\ f = SubSeq(s, 1, n - 1)
  BY <1>1 DEF Front
<1>3. f \in Seq(S) /\ Len(f) = n - 1 /\ \A i \in 1..(n - 1) : f[i] = s[i]
  <2>1. \A i \in 1..(n - 1) : s[i] \in S
    BY <1>1
  <2> QED BY <1>1, <1>2, <2>1, SubSeqProperties
<1>4. Last(s) = s[n] /\ s[n] \in S
  BY <1>1 DEF Last
<1>5. s = Append(f, s[n])
  BY <1>1, <1>3, <1>4
<1> QED
  BY <1>1, <1>2, <1>3, <1>4, <1>5

\* The line of the last speaker with one more word.
Longer(l, w) == [l EXCEPT !.end = w.end, !.words = Append(l.words, w)]

\* The parts of a longer line.
LEMMA LongerIs ==
    ASSUME NEW l \in LineOf, NEW w \in Word
    PROVE  /\ Longer(l, w) \in LineOf
           /\ Longer(l, w).start = l.start /\ Longer(l, w).end = w.end
           /\ Longer(l, w).speaker = l.speaker /\ Longer(l, w).words = Append(l.words, w)
<1>1. Append(l.words, w) \in Seq(Word) /\ w.end \in Int
  BY DEF LineOf, Word
<1> QED
  BY <1>1 DEF Longer, LineOf

\* The parts of a line.
LEMMA LineIs ==
    ASSUME NEW w, Times(w), NEW words \in Seq(Word), NEW turns \in Seq(Spoken)
    PROVE  /\ Line(w, words, turns) \in LineOf
           /\ Line(w, words, turns).start = w.start /\ Line(w, words, turns).end = w.end
           /\ Line(w, words, turns).words = words
           /\ Line(w, words, turns).speaker = BestSpeaker(w, turns)
<1>1. BestSpeaker(w, turns) \in Nat \cup {Nobody}
  BY BestSpeakerIsRight
<1> QED
  BY <1>1 DEF Line, LineOf, Times

\* A word has its times.
LEMMA WordTimes == ASSUME NEW w \in Word PROVE Times(w)
BY DEF Word, Times

\* Grouping a word keeps the type.
LEMMA GroupedIsLines ==
    ASSUME NEW lines \in Seq(LineOf), NEW w \in Word, NEW turns \in Seq(Spoken)
    PROVE  Grouped(lines, w, turns) \in Seq(LineOf)
<1>1. CASE lines # <<>> /\ Last(lines).speaker = BestSpeaker(w, turns)
  <2>1. Grouped(lines, w, turns) = Append(Front(lines), Longer(Last(lines), w))
    BY <1>1 DEF Grouped, Longer
  <2>2. Front(lines) \in Seq(LineOf) /\ Last(lines) \in LineOf
    BY <1>1, FrontAndLast
  <2>3. Longer(Last(lines), w) \in LineOf
    BY <2>2, LongerIs
  <2> QED BY <2>1, <2>2, <2>3
<1>2. CASE ~(lines # <<>> /\ Last(lines).speaker = BestSpeaker(w, turns))
  <2>1. Grouped(lines, w, turns) = Append(lines, Line(w, <<w>>, turns))
    BY <1>2 DEF Grouped
  <2>2. Line(w, <<w>>, turns) \in LineOf
    <3>0. <<w>> \in Seq(Word)
      OBVIOUS
    <3>1. PICK words \in Seq(Word) : words = <<w>>
      BY <3>0, Zenon
    <3>2. Line(w, words, turns) \in LineOf
      BY WordTimes, LineIs
    <3> QED BY <3>1, <3>2
  <2> QED BY <2>1, <2>2
<1> QED
  BY <1>1, <1>2

\* The lines after each word.
LEMMA GroupTrace ==
    ASSUME NEW turns \in Seq(Spoken), NEW words \in Seq(Word)
    PROVE  \E f \in [0..Len(words) -> Seq(LineOf)] :
              /\ f[0] = <<>>
              /\ \A k \in 1..Len(words) : f[k] = Grouped(f[k - 1], words[k], turns)
              /\ GroupWords(words, turns) = f[Len(words)]
<1> DEFINE n == Len(words)
           base == <<>>
           E(it) == it = [t \in SUBSET DOMAIN words |->
                            IF t = {} THEN base ELSE Grouped(it[t \ {Max(t)}], words[Max(t)], turns)]
           it0 == CHOOSE it : E(it)
           step == [p \in Seq(LineOf) \X (1..n) |-> Grouped(p[1], words[p[2]], turns)]
<1>1. n \in Nat /\ DOMAIN words = 1..n /\ \A k \in 1..n : words[k] \in Word
  BY LenProperties
<1>2. step \in [Seq(LineOf) \X (1..n) -> Seq(LineOf)] /\ base \in Seq(LineOf)
  <2>1. \A a \in Seq(LineOf), k \in 1..n : Grouped(a, words[k], turns) \in Seq(LineOf)
    BY <1>1, GroupedIsLines
  <2> QED BY <2>1
<1>3. PICK it : IsFold(it, Seq(LineOf), base, step, n)
  <2> HIDE DEF n, step, base
  <2>1. n \in Nat /\ base \in Seq(LineOf)
    BY <1>1, <1>2
  <2> QED BY <2>1, <1>2, FoldsExist, Zenon
<1>4. \A t \in SUBSET (1..n) : t # {} => Max(t) \in 1..n /\ t \ {Max(t)} \in SUBSET (1..n)
  <2> HIDE DEF n
  <2> QED BY <1>1, MaxIs
<1>5. E(it0)
  <2>1. E(it)
    <3>1. \A t \in SUBSET (1..n) : t # {} => it[t \ {Max(t)}] \in Seq(LineOf)
      BY <1>3, <1>4 DEF IsFold
    <3> QED BY <1>1, <1>3, <1>4, <3>1 DEF IsFold
  <2> HIDE DEF E
  <2> QED BY <2>1
<1>6. GroupWords(words, turns) = it0[DOMAIN words]
  BY DEF GroupWords, FoldLeft, MapThenFoldSet
<1>7. HasTrace(it0, Seq(LineOf), base, step, n)
  <2>1. it0[{}] = base /\ \A t \in SUBSET (1..n) : t # {} =>
            it0[t] = Grouped(it0[t \ {Max(t)}], words[Max(t)], turns)
    <3> HIDE DEF it0
    <3> QED BY <1>1, <1>5
  <2>2. \A t \in SUBSET (1..n) : t # {} /\ it0[t \ {Max(t)}] \in Seq(LineOf) =>
            it0[t] = step[<<it0[t \ {Max(t)}], Max(t)>>]
    <3> HIDE DEF it0, E
    <3> QED BY <2>1, <1>4
  <2>3. n \in Nat /\ base \in Seq(LineOf) /\ it0[{}] = base
    BY <1>1, <1>2, <2>1
  <2> HIDE DEF n, step, base, it0, E
  <2> QED BY <1>2, <2>2, <2>3, TracesExist, Zenon
<1>8. PICK f : IsTrace(f, Seq(LineOf), base, step, n) /\ f[n] = it0[1..n]
  BY <1>7 DEF HasTrace
<1> HIDE DEF it0, E
<1>9. f \in [0..n -> Seq(LineOf)] /\ f[0] = base /\ \A k \in 1..n : f[k] = Grouped(f[k - 1], words[k], turns)
  <2>1. \A k \in 1..n : f[k] = step[<<f[k - 1], k>>] /\ f[k - 1] \in Seq(LineOf)
    <3> HIDE DEF step, n
    <3> QED BY <1>1, <1>8 DEF IsTrace
  <2> QED BY <1>8, <2>1 DEF IsTrace
<1>10. GroupWords(words, turns) = f[n]
  BY <1>1, <1>6, <1>8
<1> QED BY <1>9, <1>10

\* The words of each line.
WordsOf(lines) == [i \in DOMAIN lines |-> lines[i].words]

\* The words of the lines, line by line.
LEMMA WordsOfIs ==
    ASSUME NEW lines \in Seq(LineOf)
    PROVE  /\ WordsOf(lines) \in Seq(Seq(Word)) /\ Len(WordsOf(lines)) = Len(lines)
           /\ \A i \in 1..Len(lines) : WordsOf(lines)[i] = lines[i].words
<1>1. PICK n \in Nat : n = Len(lines) /\ DOMAIN lines = 1..n /\ \A i \in 1..n : lines[i] \in LineOf
  BY LenProperties
<1>2. \A i \in 1..n : lines[i].words \in Seq(Word)
  BY <1>1 DEF LineOf
<1>3. PICK a : a = [i \in 1..n |-> lines[i].words]
  OBVIOUS
<1>4. a \in Seq(Seq(Word)) /\ Len(a) = n /\ \A i \in 1..n : a[i] = lines[i].words
  BY <1>2, <1>3
<1>5. WordsOf(lines) = a
  BY <1>1, <1>3 DEF WordsOf
<1> QED
  BY <1>1, <1>4, <1>5

\* All words are those of the lines, one line after the other.
LEMMA AllWordsIs ==
    ASSUME NEW lines \in Seq(LineOf)
    PROVE  AllWords(lines) = FlattenSeq(WordsOf(lines)) /\ AllWords(lines) \in Seq(Word)
<1>1. AllWords(lines) = FlattenSeq(WordsOf(lines))
  BY DEF AllWords, WordsOf
<1>2. PICK a \in Seq(Seq(Word)) : a = WordsOf(lines)
  BY WordsOfIs
<1>3. FlattenSeq(a) \in Seq(Word)
  BY FlattenConcat
<1> QED
  BY <1>1, <1>2, <1>3, Zenon

\* The words of two lists of lines.
LEMMA AllWordsConcat ==
    ASSUME NEW k \in Seq(LineOf), NEW l \in Seq(LineOf)
    PROVE  AllWords(k \o l) = AllWords(k) \o AllWords(l)
<1>1. PICK m \in Seq(LineOf) : m = k \o l
  BY ConcatProperties
<1>2. PICK a \in Seq(Seq(Word)) : /\ a = WordsOf(k) /\ Len(a) = Len(k)
                                  /\ \A i \in 1..Len(k) : a[i] = k[i].words
  BY WordsOfIs
<1>3. PICK b \in Seq(Seq(Word)) : /\ b = WordsOf(l) /\ Len(b) = Len(l)
                                  /\ \A i \in 1..Len(l) : b[i] = l[i].words
  BY WordsOfIs
<1>4. PICK c \in Seq(Seq(Word)) : /\ c = WordsOf(m) /\ Len(c) = Len(m)
                                  /\ \A i \in 1..Len(m) : c[i] = m[i].words
  BY WordsOfIs
<1>5. /\ Len(k) \in Nat /\ Len(l) \in Nat /\ Len(m) = Len(k) + Len(l)
      /\ \A i \in 1..(Len(k) + Len(l)) : m[i] = IF i <= Len(k) THEN k[i] ELSE l[i - Len(k)]
  BY <1>1, LenProperties, ConcatProperties
<1>6. PICK d \in Seq(Seq(Word)) : d = a \o b
  BY ConcatProperties
<1>7. /\ Len(d) = Len(a) + Len(b)
      /\ \A i \in 1..(Len(a) + Len(b)) : d[i] = IF i <= Len(a) THEN a[i] ELSE b[i - Len(a)]
  BY <1>6, ConcatProperties
<1>8. \A i \in 1..Len(c) : c[i] = d[i]
  <2>1. SUFFICES ASSUME NEW i \in 1..(Len(k) + Len(l)) PROVE c[i] = d[i]
    BY <1>4, <1>5
  <2>2. CASE i <= Len(k)
    <3>1. i \in 1..Len(k)
      BY <1>5, <2>2
    <3>2. c[i] = k[i].words /\ d[i] = a[i] /\ a[i] = k[i].words
      <4>1. c[i] = m[i].words /\ m[i] = k[i]
        BY <1>4, <1>5, <2>2
      <4>2. d[i] = a[i]
        BY <1>2, <1>3, <1>7, <2>2
      <4> QED BY <1>2, <3>1, <4>1, <4>2
    <3> QED BY <3>2
  <2>3. CASE ~(i <= Len(k))
    <3>1. i - Len(k) \in 1..Len(l)
      BY <1>5, <2>3
    <3>2. c[i] = m[i].words /\ m[i] = l[i - Len(k)]
      BY <1>4, <1>5, <2>3
    <3>3. d[i] = b[i - Len(k)]
      BY <1>2, <1>3, <1>7, <2>3
    <3> QED BY <1>3, <3>1, <3>2, <3>3
  <2> QED BY <2>2, <2>3
<1>9. c = d
  BY <1>2, <1>3, <1>4, <1>5, <1>7, <1>8, SeqEqual
<1>10. FlattenSeq(a \o b) = FlattenSeq(a) \o FlattenSeq(b)
  BY FlattenConcat
<1>11. /\ AllWords(k) = FlattenSeq(a) /\ AllWords(l) = FlattenSeq(b) /\ AllWords(m) = FlattenSeq(c)
  BY <1>2, <1>3, <1>4, AllWordsIs, Zenon
<1> QED
  BY <1>1, <1>6, <1>9, <1>10, <1>11, Zenon

\* The words of one line.
LEMMA AllWordsOne ==
    ASSUME NEW l \in LineOf
    PROVE  AllWords(<<l>>) = l.words
<1>1. PICK k \in Seq(LineOf) : k = <<l>>
  <2>1. <<l>> \in Seq(LineOf)
    OBVIOUS
  <2> QED BY <2>1, Zenon
<1>2. PICK a \in Seq(Seq(Word)) : /\ a = WordsOf(k) /\ Len(a) = Len(k)
                                  /\ \A i \in 1..Len(k) : a[i] = k[i].words
  BY WordsOfIs
<1>3. l.words \in Seq(Word)
  BY DEF LineOf
<1>4. a = <<l.words>>
  BY <1>1, <1>2, <1>3
<1>5. AllWords(k) = FlattenSeq(a)
  BY <1>2, AllWordsIs, Zenon
<1>6. FlattenSeq(<<l.words>>) = l.words
  BY <1>3, FlattenOne, Zenon
<1> QED
  BY <1>1, <1>4, <1>5, <1>6, Zenon

\* The words with one more line.
LEMMA AllWordsAppend ==
    ASSUME NEW lines \in Seq(LineOf), NEW l \in LineOf
    PROVE  AllWords(Append(lines, l)) = AllWords(lines) \o l.words
<1>1. <<l>> \in Seq(LineOf) /\ Append(lines, l) = lines \o <<l>>
  OBVIOUS
<1>2. AllWords(lines \o <<l>>) = AllWords(lines) \o AllWords(<<l>>)
  BY <1>1, AllWordsConcat, Zenon
<1>3. AllWords(<<l>>) = l.words
  BY AllWordsOne, Zenon
<1> QED
  BY <1>1, <1>2, <1>3, Zenon

\* A line has the words of its speaker, and their times.
IsLine(l, turns) ==
    /\ l.words # <<>>
    /\ \A m \in DOMAIN l.words : BestSpeaker(l.words[m], turns) = l.speaker
    /\ l.start = l.words[1].start /\ l.end = l.words[Len(l.words)].end

AreLines(lines, turns) ==
    /\ \A i \in DOMAIN lines : IsLine(lines[i], turns)
    /\ \A i \in 2..Len(lines) : lines[i].speaker # lines[i - 1].speaker

\* A line of another speaker can follow.
LEMMA AppendToLines ==
    ASSUME NEW turns, NEW lines \in Seq(LineOf), AreLines(lines, turns),
           NEW l \in LineOf, IsLine(l, turns),
           lines # <<>> => lines[Len(lines)].speaker # l.speaker
    PROVE  AreLines(Append(lines, l), turns)
<1>1. PICK m \in Seq(LineOf), n \in Nat :
         /\ n = Len(lines) /\ m = Append(lines, l) /\ Len(m) = n + 1 /\ m[n + 1] = l
         /\ \A i \in 1..n : m[i] = lines[i]
  <2>1. PICK m : m = Append(lines, l)
    OBVIOUS
  <2>2. PICK n \in Nat : n = Len(lines)
    BY LenProperties
  <2>3. m \in Seq(LineOf) /\ Len(m) = n + 1 /\ m[n + 1] = l /\ \A i \in 1..n : m[i] = lines[i]
    BY <2>1, <2>2
  <2> QED BY <2>1, <2>2, <2>3
<1>2. DOMAIN m = 1..(n + 1) /\ DOMAIN lines = 1..n
  BY <1>1, LenProperties
<1>3. \A i \in 1..(n + 1) : IsLine(m[i], turns)
  <2>1. \A i \in 1..n : IsLine(m[i], turns)
    BY <1>1, <1>2 DEF AreLines
  <2> QED BY <1>1, <2>1
<1>4. ASSUME NEW i \in 2..(n + 1) PROVE m[i].speaker # m[i - 1].speaker
  <2>1. CASE i = n + 1
    <3>1. n # 0 /\ i - 1 = n /\ n \in 1..n
      BY <2>1
    <3>2. lines # <<>>
      BY <1>1, <3>1
    <3> QED BY <1>1, <2>1, <3>1, <3>2
  <2>2. CASE i # n + 1
    <3>1. i \in 1..n /\ i - 1 \in 1..n /\ i \in 2..n
      BY <2>2
    <3> QED BY <1>1, <3>1 DEF AreLines
  <2> QED BY <2>1, <2>2
<1>5. AreLines(m, turns)
  BY <1>1, <1>2, <1>3, <1>4 DEF AreLines
<1> QED
  BY <1>1, <1>5

\* A line takes one more word of its speaker.
LEMMA LongerIsLine ==
    ASSUME NEW turns, NEW l \in LineOf, IsLine(l, turns), NEW w \in Word,
           BestSpeaker(w, turns) = l.speaker
    PROVE  IsLine(Longer(l, w), turns)
<1>1. PICK a \in Seq(Word), b \in Seq(Word), n \in Nat \ {0} :
         /\ a = l.words /\ n = Len(a) /\ DOMAIN a = 1..n
         /\ b = Append(a, w) /\ Len(b) = n + 1 /\ DOMAIN b = 1..(n + 1) /\ b[n + 1] = w
         /\ \A i \in 1..n : b[i] = a[i]
  <2>1. PICK a : a = l.words /\ a \in Seq(Word) /\ a # <<>>
    BY DEF LineOf, IsLine
  <2>2. PICK n \in Nat \ {0} : n = Len(a) /\ DOMAIN a = 1..n
    BY <2>1, LenProperties, EmptySeq
  <2>3. PICK b : b = Append(a, w)
    OBVIOUS
  <2>4. /\ b \in Seq(Word) /\ Len(b) = n + 1 /\ DOMAIN b = 1..(n + 1) /\ b[n + 1] = w
        /\ \A i \in 1..n : b[i] = a[i]
    BY <2>1, <2>2, <2>3
  <2> QED BY <2>1, <2>2, <2>3, <2>4
<1>2. PICK m : /\ m = Longer(l, w) /\ m.start = l.start /\ m.end = w.end
               /\ m.speaker = l.speaker /\ m.words = b
  BY <1>1, LongerIs
<1>3. b # <<>> /\ b[1] = a[1]
  <2>1. 1 \in 1..n /\ Len(b) # 0
    BY <1>1
  <2> QED BY <1>1, <2>1, EmptySeq
<1>4. \A i \in DOMAIN b : BestSpeaker(b[i], turns) = l.speaker
  <2>1. SUFFICES ASSUME NEW i \in 1..(n + 1) PROVE BestSpeaker(b[i], turns) = l.speaker
    BY <1>1
  <2>2. CASE i = n + 1
    BY <1>1, <2>2
  <2>3. CASE i \in 1..n
    BY <1>1, <2>3 DEF IsLine
  <2> QED BY <2>2, <2>3
<1>5. m.start = b[1].start /\ m.end = b[Len(b)].end
  BY <1>1, <1>2, <1>3 DEF IsLine
<1> QED
  BY <1>2, <1>3, <1>4, <1>5 DEF IsLine

\* A word after the second part is one after both.
LEMMA AppendLater ==
    ASSUME NEW X, NEW x \in Seq(X), NEW y \in Seq(X), NEW w \in X
    PROVE  x \o Append(y, w) = (x \o y) \o <<w>>
<1>1. PICK z \in Seq(X) : z = <<w>>
  <2>1. <<w>> \in Seq(X)
    OBVIOUS
  <2> QED BY <2>1, Zenon
<1>2. Append(y, w) = y \o <<w>>
  OBVIOUS
<1>3. (x \o y) \o z = x \o (y \o z)
  BY ConcatAssociative
<1> QED
  BY <1>1, <1>2, <1>3, Zenon

\* After k words the lines hold these, and only change with the speaker.
LEMMA GroupedIsRight ==
    ASSUME NEW turns \in Seq(Spoken), NEW words \in Seq(Word), NEW k \in 1..Len(words),
           NEW lines \in Seq(LineOf), AreLines(lines, turns),
           AllWords(lines) = SubSeq(words, 1, k - 1)
    PROVE  /\ AreLines(Grouped(lines, words[k], turns), turns)
           /\ AllWords(Grouped(lines, words[k], turns)) = SubSeq(words, 1, k)
<1>1. PICK w \in Word : w = words[k]
  BY LenProperties
<1>2. SubSeq(words, 1, k) = AllWords(lines) \o <<w>>
  <2>1. 1 \in 1..Len(words) /\ k \in 1..Len(words)
    BY LenProperties
  <2>2. SubSeq(words, 1, k) = SubSeq(words, 1, k - 1) \o << words[k] >>
    BY <2>1, SubSeqRecursiveSecond
  <2> QED BY <1>1, <2>2
<1>3. CASE lines # <<>> /\ Last(lines).speaker = BestSpeaker(w, turns)
  <2>1. PICK front \in Seq(LineOf), last \in LineOf, n \in Nat \ {0} :
           /\ front = Front(lines) /\ last = Last(lines) /\ lines = Append(front, last)
           /\ n = Len(lines) /\ Len(front) = n - 1 /\ last = lines[n]
           /\ \A i \in 1..(n - 1) : front[i] = lines[i]
    <3>1. /\ Front(lines) \in Seq(LineOf) /\ Last(lines) \in LineOf
          /\ lines = Append(Front(lines), Last(lines))
          /\ Len(lines) \in Nat \ {0} /\ Len(Front(lines)) = Len(lines) - 1
          /\ Last(lines) = lines[Len(lines)]
          /\ \A i \in 1..(Len(lines) - 1) : Front(lines)[i] = lines[i]
      BY <1>3, FrontAndLast
    <3> QED BY <3>1, Zenon
  <2>2. PICK l \in LineOf : /\ l = Longer(last, w) /\ l.speaker = last.speaker
                            /\ l.words = Append(last.words, w)
    BY LongerIs
  <2>3. Grouped(lines, w, turns) = Append(front, l)
    BY <1>3, <2>1, <2>2 DEF Grouped, Longer
  <2>4. DOMAIN lines = 1..n /\ DOMAIN front = 1..(n - 1)
    BY <2>1, LenProperties
  <2>5. AreLines(front, turns)
    <3>1. \A i \in 1..(n - 1) : IsLine(front[i], turns)
      <4>1. \A i \in 1..n : IsLine(lines[i], turns)
        BY <2>4 DEF AreLines
      <4>2. \A i \in 1..(n - 1) : i \in 1..n /\ front[i] = lines[i]
        BY <2>1
      <4> QED BY <4>1, <4>2
    <3>2. \A i \in 2..(n - 1) : front[i].speaker # front[i - 1].speaker
      <4>1. SUFFICES ASSUME NEW i \in 2..(n - 1) PROVE front[i].speaker # front[i - 1].speaker
        OBVIOUS
      <4>2. i \in 1..(n - 1) /\ i - 1 \in 1..(n - 1) /\ i \in 2..n
        OBVIOUS
      <4> QED BY <2>1, <4>2 DEF AreLines
    <3> QED BY <2>1, <2>4, <3>1, <3>2 DEF AreLines
  <2>6. IsLine(l, turns)
    <3>1. IsLine(last, turns)
      <4>1. n \in DOMAIN lines
        BY <2>4
      <4> QED BY <2>1, <4>1 DEF AreLines
    <3>2. BestSpeaker(w, turns) = last.speaker
      BY <1>3, <2>1
    <3> QED BY <2>2, <3>1, <3>2, LongerIsLine
  <2>7. front # <<>> => front[Len(front)].speaker # l.speaker
    <3>1. SUFFICES ASSUME front # <<>> PROVE front[Len(front)].speaker # l.speaker
      OBVIOUS
    <3>2. n - 1 \in Nat \ {0}
      BY <2>1, <3>1, EmptySeq
    <3>3. n \in 2..n /\ n - 1 \in 1..(n - 1)
      BY <3>2
    <3>4. lines[n].speaker # lines[n - 1].speaker
      BY <2>1, <3>3 DEF AreLines
    <3> QED BY <2>1, <2>2, <3>3, <3>4
  <2>8. AreLines(Append(front, l), turns)
    BY <2>5, <2>6, <2>7, AppendToLines
  <2>9. AllWords(Append(front, l)) = AllWords(lines) \o <<w>>
    <3>1. PICK x \in Seq(Word), y \in Seq(Word) : x = AllWords(front) /\ y = last.words
      <4>1. AllWords(front) \in Seq(Word)
        BY AllWordsIs
      <4>2. last.words \in Seq(Word)
        BY DEF LineOf
      <4> QED BY <4>1, <4>2, Zenon
    <3>2. AllWords(Append(front, last)) = x \o y
      BY <3>1, AllWordsAppend
    <3>3. AllWords(Append(front, l)) = x \o Append(y, w)
      BY <2>2, <3>1, AllWordsAppend
    <3>4. x \o Append(y, w) = (x \o y) \o <<w>>
      BY AppendLater
    <3>5. AllWords(lines) = x \o y
      BY <2>1, <3>2, Zenon
    <3> QED BY <3>3, <3>4, <3>5, Zenon
  <2> QED BY <1>1, <1>2, <2>3, <2>8, <2>9, Zenon
<1>4. CASE ~(lines # <<>> /\ Last(lines).speaker = BestSpeaker(w, turns))
  <2>1. PICK ws \in Seq(Word) : ws = <<w>> /\ Len(ws) = 1 /\ DOMAIN ws = {1} /\ ws[1] = w
    <3>1. PICK ws : ws = <<w>>
      OBVIOUS
    <3>2. ws \in Seq(Word) /\ Len(ws) = 1 /\ DOMAIN ws = {1} /\ ws[1] = w
      BY <3>1
    <3> QED BY <3>1, <3>2
  <2>2. PICK l \in LineOf : /\ l = Line(w, ws, turns) /\ l.start = w.start /\ l.end = w.end
                            /\ l.words = ws /\ l.speaker = BestSpeaker(w, turns)
    BY WordTimes, LineIs
  <2>3. Grouped(lines, w, turns) = Append(lines, l)
    BY <1>4, <2>1, <2>2 DEF Grouped
  <2>4. IsLine(l, turns)
    <3>1. ws # <<>>
      BY <2>1, EmptySeq
    <3> QED BY <2>1, <2>2, <3>1 DEF IsLine
  <2>5. lines # <<>> => lines[Len(lines)].speaker # l.speaker
    BY <1>4, <2>2 DEF Last
  <2>6. AreLines(Append(lines, l), turns)
    BY <2>4, <2>5, AppendToLines
  <2>7. AllWords(Append(lines, l)) = AllWords(lines) \o ws
    BY <2>2, AllWordsAppend
  <2> QED BY <1>1, <1>2, <2>1, <2>3, <2>6, <2>7, Zenon
<1> QED
  BY <1>3, <1>4

\* Grouping loses no word, and each line is of one speaker.
LEMMA GroupWordsIsRight ==
    ASSUME NEW turns \in Seq(Spoken), NEW words \in Seq(Word)
    PROVE  /\ GroupWords(words, turns) \in Seq(LineOf)
           /\ AreLines(GroupWords(words, turns), turns)
           /\ AllWords(GroupWords(words, turns)) = words
<1>1. PICK f \in [0..Len(words) -> Seq(LineOf)] :
              /\ f[0] = <<>>
              /\ \A k \in 1..Len(words) : f[k] = Grouped(f[k - 1], words[k], turns)
              /\ GroupWords(words, turns) = f[Len(words)]
  BY GroupTrace
<1> DEFINE n == Len(words)
           A == {k \in 0..n : AreLines(f[k], turns) /\ AllWords(f[k]) = SubSeq(words, 1, k)}
<1>2. n \in Nat
  BY LenProperties
<1>3. 0 \in A
  <2>1. AreLines(<<>>, turns)
    <3>1. DOMAIN (<<>>) = {} /\ Len(<<>>) = 0
      OBVIOUS
    <3> QED BY <3>1 DEF AreLines
  <2>2. AllWords(<<>>) = <<>>
    <3>1. [i \in DOMAIN (<<>>) |-> (<<>>)[i].words] = <<>>
      OBVIOUS
    <3> QED BY <3>1, FlattenEmpty, Zenon DEF AllWords
  <2>3. SubSeq(words, 1, 0) = <<>>
    BY SubSeqEmpty
  <2> QED BY <1>1, <1>2, <2>1, <2>2, <2>3
<1>4. ASSUME NEW k \in 0..(n - 1), k \in A PROVE k + 1 \in A
  <2>1. k + 1 \in 1..n /\ (k + 1) - 1 = k /\ k \in 0..n
    BY <1>2
  <2>2. PICK lines \in Seq(LineOf) : lines = f[k]
    BY <2>1
  <2>3. f[k + 1] = Grouped(lines, words[k + 1], turns)
    BY <1>1, <2>1, <2>2
  <2>4. AreLines(lines, turns) /\ AllWords(lines) = SubSeq(words, 1, (k + 1) - 1)
    BY <1>4, <2>1, <2>2
  <2>5. AreLines(f[k + 1], turns) /\ AllWords(f[k + 1]) = SubSeq(words, 1, k + 1)
    BY <2>1, <2>3, <2>4, GroupedIsRight
  <2>6. k + 1 \in 0..n
    BY <2>1
  <2> QED BY <2>5, <2>6, Zenon
<1>5. n \in A
  <2>1. \A k \in 0..(n - 1) : k \in A => k + 1 \in A
    BY <1>4
  <2> HIDE DEF A, n
  <2>2. 0..n \subseteq A
    BY <1>2, <1>3, <2>1, Induction
  <2> QED BY <1>2, <2>2
<1>6. SubSeq(words, 1, n) = words
  BY SubSeqFull
<1>7. f[n] \in Seq(LineOf)
  BY <1>2
<1> QED
  BY <1>1, <1>5, <1>6, <1>7

\* Whom a word belongs to only depends on its times.
LEMMA SameTimes ==
    ASSUME NEW v, NEW w, v.start = w.start, v.end = w.end, NEW turns, NEW speaker,
           SaidBy(v, speaker, turns)
    PROVE  SaidBy(w, speaker, turns)
<1>1. \A t : Overlap(w, t) = Overlap(v, t) /\ (HasMiddle(w, t) <=> HasMiddle(v, t))
  BY DEF Overlap, HasMiddle
<1> QED
  BY <1>1 DEF SaidBy

\* What a reader expects of a line.
IsSaid(l, turns) ==
    IF l.words = <<>> THEN SaidBy(l, l.speaker, turns)
    ELSE /\ \A k \in DOMAIN l.words : SaidBy(l.words[k], l.speaker, turns)
         /\ l.start = l.words[1].start /\ l.end = l.words[Len(l.words)].end

\* A segment is labelled right, with words or without.
LEMMA LabelledIsRight ==
    ASSUME NEW turns \in Seq(Spoken), NEW s \in Segment
    PROVE  /\ Labelled(s, turns) \in Seq(LineOf)
           /\ AllWords(Labelled(s, turns)) = s.words
           /\ \A i \in DOMAIN Labelled(s, turns) : IsSaid(Labelled(s, turns)[i], turns)
           /\ IF s.words = <<>>
              THEN /\ Len(Labelled(s, turns)) = 1
                   /\ Labelled(s, turns)[1].start = s.start /\ Labelled(s, turns)[1].end = s.end
              ELSE \A k \in 2..Len(Labelled(s, turns)) :
                      Labelled(s, turns)[k].speaker # Labelled(s, turns)[k - 1].speaker
<1>1. s.words \in Seq(Word) /\ Times(s)
  BY DEF Segment, Times
<1>2. CASE s.words = <<>>
  <2>1. PICK l \in LineOf : /\ l = Line(s, <<>>, turns) /\ l.start = s.start /\ l.end = s.end
                            /\ l.words = <<>> /\ l.speaker = BestSpeaker(s, turns)
    <3>1. <<>> \in Seq(Word)
      OBVIOUS
    <3> QED BY <1>1, <3>1, LineIs
  <2>2. Labelled(s, turns) = <<l>>
    BY <1>2, <2>1 DEF Labelled
  <2>3. AllWords(<<l>>) = <<>>
    BY <2>1, AllWordsOne
  <2>4. SaidBy(s, l.speaker, turns)
    BY <1>1, <2>1, BestSpeakerIsRight
  <2>5. IsSaid(l, turns)
    <3>1. SaidBy(l, l.speaker, turns)
      BY <2>1, <2>4, SameTimes
    <3> QED BY <2>1, <3>1 DEF IsSaid
  <2>6. <<l>> \in Seq(LineOf) /\ DOMAIN <<l>> = {1} /\ <<l>>[1] = l /\ Len(<<l>>) = 1
    OBVIOUS
  <2>7. \A i \in DOMAIN <<l>> : IsSaid(<<l>>[i], turns)
    BY <2>5, <2>6
  <2>8. Len(<<l>>) = 1 /\ <<l>>[1].start = s.start /\ <<l>>[1].end = s.end
    BY <2>1, <2>6
  <2> QED BY <1>2, <2>2, <2>3, <2>6, <2>7, <2>8, Zenon
<1>3. CASE s.words # <<>>
  <2>1. PICK ls \in Seq(LineOf) : ls = GroupWords(s.words, turns)
    BY <1>1, GroupWordsIsRight
  <2>2. AreLines(ls, turns) /\ AllWords(ls) = s.words
    BY <1>1, <2>1, GroupWordsIsRight
  <2>3. Labelled(s, turns) = ls
    BY <1>3, <2>1 DEF Labelled
  <2>4. ASSUME NEW i \in DOMAIN ls PROVE IsSaid(ls[i], turns)
    <3>1. PICK l \in LineOf : l = ls[i] /\ IsLine(l, turns)
      BY <2>2, LenProperties DEF AreLines
    <3>2. \A k \in DOMAIN l.words : l.words[k] \in Word
      <4>1. l.words \in Seq(Word)
        BY DEF LineOf
      <4> QED BY <4>1, LenProperties
    <3>3. ASSUME NEW k \in DOMAIN l.words PROVE SaidBy(l.words[k], l.speaker, turns)
      <4>1. PICK w \in Word : w = l.words[k]
        BY <3>2
      <4>2. BestSpeaker(w, turns) = l.speaker
        BY <3>1, <4>1 DEF IsLine
      <4>3. SaidBy(w, BestSpeaker(w, turns), turns)
        BY WordTimes, BestSpeakerIsRight
      <4> QED BY <4>1, <4>2, <4>3
    <3> QED BY <3>1, <3>3 DEF IsSaid, IsLine
  <2>5. \A k \in 2..Len(ls) : ls[k].speaker # ls[k - 1].speaker
    BY <2>2 DEF AreLines
  <2> QED BY <1>3, <2>2, <2>3, <2>4, <2>5
<1> QED
  BY <1>2, <1>3

\* All segments are.
LEMMA WordsAreRight ==
    ASSUME found \in Seq(RawTurn), segments \in Seq(Segment)
    PROVE  WordsAreLabelled
<1>1. PICK turns \in Seq(Spoken) : turns = Turns
  BY TurnsAreRight
<1>2. PICK n \in Nat : n = Len(segments) /\ DOMAIN segments = 1..n
                       /\ \A i \in 1..n : segments[i] \in Segment
  BY LenProperties
<1>3. PICK ls \in Seq(Seq(LineOf)) :
         /\ Lines = FlattenSeq(ls) /\ Len(ls) = n /\ DOMAIN ls = 1..n
         /\ \A i \in 1..n : ls[i] = Labelled(segments[i], turns)
  <2>1. PICK ls : ls = [i \in 1..n |-> Labelled(segments[i], turns)]
    OBVIOUS
  <2>2. \A i \in 1..n : Labelled(segments[i], turns) \in Seq(LineOf)
    BY <1>2, LabelledIsRight
  <2>3. /\ ls \in Seq(Seq(LineOf)) /\ Len(ls) = n /\ DOMAIN ls = 1..n
        /\ \A i \in 1..n : ls[i] = Labelled(segments[i], turns)
    BY <2>1, <2>2
  <2>4. Lines = FlattenSeq(ls)
    BY <1>1, <1>2, <2>1 DEF Lines
  <2> QED BY <2>3, <2>4
<1>4. PICK ws \in Seq(Seq(Word)) :
         /\ AllWords(segments) = FlattenSeq(ws) /\ Len(ws) = n
         /\ \A i \in 1..n : ws[i] = segments[i].words
  <2>1. PICK ws : ws = [i \in 1..n |-> segments[i].words]
    OBVIOUS
  <2>2. \A i \in 1..n : segments[i].words \in Seq(Word)
    BY <1>2 DEF Segment
  <2>3. /\ ws \in Seq(Seq(Word)) /\ Len(ws) = n /\ \A i \in 1..n : ws[i] = segments[i].words
    BY <2>1, <2>2
  <2>4. AllWords(segments) = FlattenSeq(ws)
    BY <1>2, <2>1 DEF AllWords
  <2> QED BY <2>3, <2>4
<1>5. \A i \in 1..n : ls[i] \in Seq(LineOf) /\ AllWords(ls[i]) = ws[i]
  <2>1. SUFFICES ASSUME NEW i \in 1..n PROVE ls[i] \in Seq(LineOf) /\ AllWords(ls[i]) = ws[i]
    OBVIOUS
  <2>2. PICK s \in Segment : s = segments[i]
    BY <1>2
  <2>3. Labelled(s, turns) \in Seq(LineOf) /\ AllWords(Labelled(s, turns)) = s.words
    BY LabelledIsRight
  <2>4. ls[i] = Labelled(s, turns) /\ ws[i] = s.words
    BY <1>3, <1>4, <2>2
  <2> QED BY <2>3, <2>4, Zenon
<1>6. AllWords(Lines) = AllWords(segments)
  <2>1. PICK f : Flattens(f, LineOf, ls) /\ FlattenSeq(ls) = f[n]
    BY <1>3, FlattenTrace
  <2>2. PICK g : Flattens(g, Word, ws) /\ FlattenSeq(ws) = g[n]
    BY <1>4, FlattenTrace
  <2> DEFINE A == {k \in 0..n : AllWords(f[k]) = g[k]}
  <2>3. 0 \in A
    <3>1. AllWords(<<>>) = <<>>
      <4>1. [i \in DOMAIN (<<>>) |-> (<<>>)[i].words] = <<>>
        OBVIOUS
      <4> QED BY <4>1, FlattenEmpty, Zenon DEF AllWords
    <3>2. f[0] = <<>> /\ g[0] = <<>> /\ 0 \in 0..n
      BY <2>1, <2>2 DEF Flattens
    <3>3. AllWords(f[0]) = g[0]
      BY <3>1, <3>2, Zenon
    <3> QED BY <3>2, <3>3, Zenon
  <2>4. ASSUME NEW k \in 0..(n - 1), k \in A PROVE k + 1 \in A
    <3>1. k + 1 \in 1..n /\ (k + 1) - 1 = k /\ k \in 0..n /\ k + 1 \in 0..n
      OBVIOUS
    <3>2. PICK a \in Seq(LineOf), b \in Seq(LineOf) : a = f[k] /\ b = ls[k + 1]
      <4>1. f[k] \in Seq(LineOf)
        BY <1>3, <2>1, <3>1 DEF Flattens
      <4>2. ls[k + 1] \in Seq(LineOf)
        BY <1>5, <3>1
      <4> QED BY <4>1, <4>2, Zenon
    <3>3. f[k + 1] = a \o b
      BY <1>3, <2>1, <3>1, <3>2 DEF Flattens
    <3>4. g[k + 1] = g[k] \o ws[k + 1]
      BY <1>4, <2>2, <3>1 DEF Flattens
    <3>5. AllWords(a \o b) = AllWords(a) \o AllWords(b)
      BY AllWordsConcat
    <3>6. AllWords(a) = g[k] /\ AllWords(b) = ws[k + 1]
      BY <1>5, <2>4, <3>1, <3>2
    <3>7. AllWords(f[k + 1]) = g[k + 1]
      BY <3>3, <3>4, <3>5, <3>6, Zenon
    <3> QED BY <3>1, <3>7, Zenon
  <2>5. n \in A
    <3>1. \A k \in 0..(n - 1) : k \in A => k + 1 \in A
      BY <2>4
    <3> HIDE DEF A
    <3>2. 0..n \subseteq A
      BY <2>3, <3>1, Induction
    <3> QED BY <3>2
  <2>6. AllWords(f[n]) = g[n]
    BY <2>5
  <2> QED BY <1>3, <1>4, <2>1, <2>2, <2>6, Zenon
<1>7. \A i \in DOMAIN Lines : IsSaid(Lines[i], turns)
  <2>1. PICK all : all = FlattenSeq(ls)
    OBVIOUS
  <2>2. ASSUME NEW i \in DOMAIN all PROVE IsSaid(all[i], turns)
    <3>1. PICK k \in DOMAIN ls : \E j \in DOMAIN ls[k] : all[i] = ls[k][j]
      BY <2>1, FlattenElements
    <3>2. PICK j \in DOMAIN ls[k] : all[i] = ls[k][j]
      BY <3>1
    <3>3. PICK s \in Segment : s = segments[k] /\ ls[k] = Labelled(s, turns)
      BY <1>2, <1>3
    <3>4. \A m \in DOMAIN Labelled(s, turns) : IsSaid(Labelled(s, turns)[m], turns)
      BY LabelledIsRight
    <3> QED BY <3>2, <3>3, <3>4
  <2> QED BY <1>3, <2>1, <2>2
<1>8. ASSUME NEW i \in DOMAIN segments
      PROVE  LET own == Labelled(segments[i], Turns)
             IN  IF segments[i].words = <<>>
                 THEN Len(own) = 1 /\ own[1].start = segments[i].start /\ own[1].end = segments[i].end
                 ELSE \A k \in 2..Len(own) : own[k].speaker # own[k - 1].speaker
  <2>1. PICK s \in Segment : s = segments[i]
    BY <1>2
  <2>2. IF s.words = <<>>
        THEN /\ Len(Labelled(s, turns)) = 1
             /\ Labelled(s, turns)[1].start = s.start /\ Labelled(s, turns)[1].end = s.end
        ELSE \A k \in 2..Len(Labelled(s, turns)) :
                Labelled(s, turns)[k].speaker # Labelled(s, turns)[k - 1].speaker
    BY LabelledIsRight
  <2> QED BY <1>1, <2>1, <2>2
<1>9. \A i \in DOMAIN Lines :
          LET l == Lines[i]
          IN  IF l.words = <<>> THEN SaidBy(l, l.speaker, Turns)
              ELSE /\ \A k \in DOMAIN l.words : SaidBy(l.words[k], l.speaker, Turns)
                   /\ l.start = l.words[1].start /\ l.end = l.words[Len(l.words)].end
  BY <1>1, <1>7 DEF IsSaid
<1> QED
  BY <1>6, <1>8, <1>9 DEF WordsAreLabelled

\* SpeakersAreRight of SpeakerTurns: whatever turns the pipeline finds and whatever
\* the transcript, the worker's turns are those that last, in time, with one number
\* for one speaker, and every word is kept and given to whom it belongs.
THEOREM SpeakersAreAlwaysRight == SpeechSpec => []SpeakersAreRight
<1> DEFINE Typed == found \in Seq(RawTurn) /\ segments \in Seq(Segment)
<1>1. SpeechInit => Typed
  BY SpeechAssumption DEF SpeechInit
<1>2. Typed /\ [UNCHANGED <<found, segments>>]_<<found, segments>> => Typed'
  OBVIOUS
<1>3. Typed => SpeakersAreRight
  BY TurnsAreRight, WordsAreRight DEF SpeakersAreRight
<1> QED
  BY <1>1, <1>2, <1>3, PTL DEF SpeechSpec

-----------------------------------------------------------------------------
\* VaultText: texts --------------------------------------------------------------------

Text == Seq(Nat)

\* A set of numbers up to n has a Min, which is what it says.
LEMMA MinIs ==
    ASSUME NEW t \in SUBSET Nat, t # {}
    PROVE  Min(t) \in t /\ \A x \in t : Min(t) <= x
<1>1. \E x \in t : \A y \in t : x =< y
  BY LeastNumber
<1> QED
  BY <1>1 DEF Min

\* The characters of a part of a text.
LEMMA PartIs ==
    ASSUME NEW s \in Text, NEW m \in Int, NEW n \in Int, m >= 1, n <= Len(s)
    PROVE  /\ SubSeq(s, m, n) \in Text
           /\ Len(SubSeq(s, m, n)) = IF m <= n THEN n - m + 1 ELSE 0
           /\ Chars(SubSeq(s, m, n)) = {s[i] : i \in m..n} \ {0}
           /\ Ascending(s) => Ascending(SubSeq(s, m, n))
<1>1. Len(s) \in Nat /\ DOMAIN s = 1..Len(s) /\ \A i \in m..n : i \in 1..Len(s) /\ s[i] \in Nat
  <2>1. Len(s) \in Nat /\ DOMAIN s = 1..Len(s) /\ \A i \in 1..Len(s) : s[i] \in Nat
    BY LenProperties DEF Text
  <2> QED BY <2>1
<1>2. PICK p : p = SubSeq(s, m, n)
  OBVIOUS
<1>3. /\ p \in Text /\ Len(p) = (IF m <= n THEN n - m + 1 ELSE 0)
      /\ \A i \in 1..(n - m + 1) : p[i] = s[m + i - 1]
  BY <1>1, <1>2, SubSeqProperties DEF Text
<1>4. DOMAIN p = 1..(n - m + 1)
  <2>1. DOMAIN p = 1..Len(p)
    BY <1>3, LenProperties DEF Text
  <2> QED BY <1>3, <2>1
<1>5. Chars(p) = {s[i] : i \in m..n} \ {0}
  <2>1. ASSUME NEW i \in DOMAIN p PROVE \E j \in m..n : p[i] = s[j]
    <3>1. m + i - 1 \in m..n /\ p[i] = s[m + i - 1]
      BY <1>3, <1>4
    <3> QED BY <3>1
  <2>2. ASSUME NEW j \in m..n PROVE \E i \in DOMAIN p : p[i] = s[j]
    <3>1. j - m + 1 \in 1..(n - m + 1) /\ m + (j - m + 1) - 1 = j
      OBVIOUS
    <3>2. p[j - m + 1] = s[j]
      BY <1>3, <3>1
    <3> QED BY <1>4, <3>1, <3>2
  <2> QED BY <2>1, <2>2 DEF Chars
<1>6. Ascending(s) => Ascending(p)
  <2>1. SUFFICES ASSUME Ascending(s), NEW i \in DOMAIN p, NEW j \in DOMAIN p,
                        i < j, p[i] # 0, p[j] # 0
                 PROVE  p[i] < p[j]
    BY DEF Ascending
  <2>2. i \in Int /\ j \in Int /\ m + i - 1 \in m..n /\ m + j - 1 \in m..n /\ m + i - 1 < m + j - 1
    BY <1>4, <2>1
  <2>3. p[i] = s[m + i - 1] /\ p[j] = s[m + j - 1]
    BY <1>3, <1>4
  <2>4. m + i - 1 \in DOMAIN s /\ m + j - 1 \in DOMAIN s
    BY <1>1, <2>2
  <2> QED BY <2>1, <2>2, <2>3, <2>4 DEF Ascending
<1> QED BY <1>2, <1>3, <1>5, <1>6

\* Stripping keeps the characters.
LEMMA StripIs ==
    ASSUME NEW s \in Text
    PROVE  /\ Strip(s) \in Text
           /\ Len(Strip(s)) <= Len(s)
           /\ Chars(Strip(s)) = Chars(s)
           /\ Ascending(s) => Ascending(Strip(s))
<1> DEFINE visible == {i \in DOMAIN s : s[i] # 0}
<1>1. Len(s) \in Nat /\ DOMAIN s = 1..Len(s) /\ \A i \in DOMAIN s : s[i] \in Nat
  BY LenProperties DEF Text
<1>2. Chars(s) = {s[i] : i \in visible}
  BY DEF Chars
<1>3. CASE visible = {}
  <2>1. Strip(s) = <<>> 
    BY <1>3 DEF Strip
  <2>2. <<>> \in Text /\ Len(<<>>) = 0 /\ DOMAIN <<>> = {}
    BY DEF Text
  <2>3. Chars(s) = {} /\ Chars(<<>>) = {} /\ Ascending(<<>>)
    BY <1>2, <1>3, <2>2 DEF Chars, Ascending
  <2> QED BY <1>1, <2>1, <2>2, <2>3
<1>4. CASE visible # {}
  <2>1. visible \in SUBSET (1..Len(s)) /\ visible \in SUBSET Nat
    BY <1>1
  <2>2. PICK m, n : m = Min(visible) /\ n = Max(visible)
    OBVIOUS
  <2>3. m \in visible /\ n \in visible /\ \A i \in visible : m <= i /\ i <= n
    <3> HIDE DEF visible
    <3>1. m \in visible /\ \A i \in visible : m <= i
      BY <1>4, <2>1, <2>2, MinIs
    <3>2. n \in visible /\ \A i \in visible : n >= i
      BY <1>1, <1>4, <2>1, <2>2, MaxIs
    <3> QED BY <2>1, <3>1, <3>2
  <2>4. Strip(s) = SubSeq(s, m, n)
    BY <1>4, <2>2 DEF Strip
  <2>5. m \in Nat /\ n \in Nat /\ m >= 1 /\ n <= Len(s) /\ m <= n
    BY <1>1, <2>1, <2>3
  <2>6. {s[i] : i \in m..n} \ {0} = {s[i] : i \in visible}
    <3>1. \A i \in m..n : s[i] # 0 => i \in visible
      BY <1>1, <2>5
    <3>2. \A i \in visible : i \in m..n /\ s[i] # 0
      BY <1>1, <2>1, <2>3, <2>5
    <3> QED BY <3>1, <3>2
  <2> HIDE DEF visible
  <2>7. PICK p : p = SubSeq(s, m, n)
    OBVIOUS
  <2>8. /\ p \in Text /\ Len(p) = (IF m <= n THEN n - m + 1 ELSE 0)
        /\ Chars(p) = {s[i] : i \in m..n} \ {0}
        /\ Ascending(s) => Ascending(p)
    <3>1. m \in Int /\ n \in Int
      BY <2>5
    <3> QED BY <2>5, <2>7, <3>1, PartIs
  <2>9. Len(p) <= Len(s)
    BY <1>1, <2>5, <2>8
  <2> QED BY <1>2, <2>4, <2>6, <2>7, <2>8, <2>9, Zenon
<1> QED BY <1>3, <1>4

\* The characters of one text come before those of another one.
Precedes(s, t) == \A c \in Chars(s), d \in Chars(t) : c < d

\* A gap joins texts without adding a character.
LEMMA JoinedIs ==
    ASSUME NEW s \in Text, NEW t \in Text, NEW gap \in {<< 0 >>, <<0, 0>>}
    PROVE  /\ Joined(s, gap, t) \in Text
           /\ Len(Joined(s, gap, t)) <= Len(s) + 2 + Len(t)
           /\ Chars(Joined(s, gap, t)) = Chars(s) \cup Chars(t)
           /\ Ascending(s) /\ Ascending(t) /\ Precedes(s, t) => Ascending(Joined(s, gap, t))
<1>1. /\ Len(s) \in Nat /\ DOMAIN s = 1..Len(s) /\ \A i \in DOMAIN s : s[i] \in Nat
      /\ Len(t) \in Nat /\ DOMAIN t = 1..Len(t) /\ \A i \in DOMAIN t : t[i] \in Nat
  BY LenProperties DEF Text
<1>2. CASE s = <<>>
  <2>1. Joined(s, gap, t) = t /\ Chars(s) = {}
    BY <1>2 DEF Joined, Chars
  <2> QED BY <1>1, <2>1
<1>3. CASE s # <<>>
  <2>1. PICK j : j = s \o gap \o t
    OBVIOUS
  <2>2. Joined(s, gap, t) = j
    BY <1>3, <2>1 DEF Joined
  <2>3. PICK g \in 1..2 : Len(gap) = g /\ gap \in Text /\ \A i \in 1..g : gap[i] = 0
    <3>1. gap = << 0 >> => Len(gap) = 1 /\ gap \in Seq(Nat) /\ \A i \in 1..1 : gap[i] = 0
      OBVIOUS
    <3>2. gap = <<0, 0>> => Len(gap) = 2 /\ gap \in Seq(Nat) /\ \A i \in 1..2 : gap[i] = 0
      OBVIOUS
    <3> QED BY <3>1, <3>2 DEF Text
  <2>4. PICK h : h = s \o gap
    OBVIOUS
  <2>5. /\ h \in Text /\ Len(h) = Len(s) + g
        /\ \A i \in 1..(Len(s) + g) : h[i] = IF i <= Len(s) THEN s[i] ELSE gap[i - Len(s)]
    BY <2>3, <2>4, ConcatProperties DEF Text
  <2>6. /\ j \in Text /\ Len(j) = Len(s) + g + Len(t)
        /\ \A i \in 1..(Len(s) + g + Len(t)) :
              j[i] = IF i <= Len(s) + g THEN h[i] ELSE t[i - (Len(s) + g)]
    BY <2>1, <2>4, <2>5, ConcatProperties DEF Text
  <2>7. DOMAIN j = 1..(Len(s) + g + Len(t))
    BY <2>6, LenProperties DEF Text
  <2>8. /\ \A i \in 1..Len(s) : j[i] = s[i]
        /\ \A i \in (Len(s) + 1)..(Len(s) + g) : j[i] = 0
        /\ \A i \in 1..Len(t) : j[Len(s) + g + i] = t[i]
    <3>1. \A i \in 1..Len(s) : j[i] = s[i]
      BY <1>1, <2>3, <2>5, <2>6
    <3>2. ASSUME NEW i \in (Len(s) + 1)..(Len(s) + g) PROVE j[i] = 0
      <4>1. i \in 1..(Len(s) + g) /\ i \in 1..(Len(s) + g + Len(t)) /\ i - Len(s) \in 1..g /\ ~(i <= Len(s))
        BY <1>1, <2>3
      <4> QED BY <2>3, <2>5, <2>6, <4>1
    <3>3. ASSUME NEW i \in 1..Len(t) PROVE j[Len(s) + g + i] = t[i]
      <4>1. /\ Len(s) + g + i \in 1..(Len(s) + g + Len(t)) /\ ~(Len(s) + g + i <= Len(s) + g)
            /\ (Len(s) + g + i) - (Len(s) + g) = i
        BY <1>1, <2>3
      <4> QED BY <2>6, <4>1
    <3> QED BY <3>1, <3>2, <3>3
  <2>9. ASSUME NEW i \in DOMAIN j
        PROVE  \/ i \in 1..Len(s) /\ j[i] = s[i]
               \/ j[i] = 0
               \/ i - (Len(s) + g) \in 1..Len(t) /\ j[i] = t[i - (Len(s) + g)]
    <3>1. CASE i <= Len(s) + g
      BY <1>1, <2>3, <2>7, <2>8, <3>1
    <3>2. CASE ~(i <= Len(s) + g)
      BY <1>1, <2>3, <2>6, <2>7, <3>2
    <3> QED BY <3>1, <3>2
  <2>10. Chars(j) = Chars(s) \cup Chars(t)
    <3>1. \A i \in DOMAIN s : i \in DOMAIN j /\ j[i] = s[i]
      BY <1>1, <2>3, <2>7, <2>8
    <3>2. \A i \in DOMAIN t : Len(s) + g + i \in DOMAIN j /\ j[Len(s) + g + i] = t[i]
      BY <1>1, <2>3, <2>7, <2>8
    <3>3. \A i \in DOMAIN j : j[i] # 0 => (\E k \in DOMAIN s : j[i] = s[k]) \/ (\E k \in DOMAIN t : j[i] = t[k])
      BY <1>1, <2>9
    <3>4. \A c \in Chars(s) : c \in Chars(j)
      BY <3>1 DEF Chars
    <3>5. \A c \in Chars(t) : c \in Chars(j)
      BY <3>2 DEF Chars
    <3>6. \A c \in Chars(j) : c \in Chars(s) \/ c \in Chars(t)
      BY <3>3 DEF Chars
    <3> QED BY <3>4, <3>5, <3>6
  <2>11. ASSUME Ascending(s), Ascending(t), Precedes(s, t) PROVE Ascending(j)
    <3>1. SUFFICES ASSUME NEW a \in DOMAIN j, NEW b \in DOMAIN j, a < b, j[a] # 0, j[b] # 0
                   PROVE  j[a] < j[b]
      BY DEF Ascending
    <3>0. a \in Int /\ b \in Int
      BY <2>7
    <3>2. CASE a \in 1..Len(s) /\ b \in 1..Len(s) /\ j[a] = s[a] /\ j[b] = s[b]
      BY <1>1, <2>11, <3>1, <3>2 DEF Ascending
    <3>3. CASE a \in 1..Len(s) /\ j[a] = s[a] /\ b - (Len(s) + g) \in 1..Len(t) /\ j[b] = t[b - (Len(s) + g)]
      <4>1. j[a] \in Chars(s) /\ j[b] \in Chars(t)
        BY <1>1, <3>1, <3>3 DEF Chars
      <4> QED BY <2>11, <4>1 DEF Precedes
    <3>4. CASE /\ a - (Len(s) + g) \in 1..Len(t) /\ j[a] = t[a - (Len(s) + g)]
               /\ b - (Len(s) + g) \in 1..Len(t) /\ j[b] = t[b - (Len(s) + g)]
      <4>1. a - (Len(s) + g) < b - (Len(s) + g)
        BY <1>1, <2>3, <3>0, <3>1
      <4> QED BY <1>1, <2>11, <3>1, <3>4, <4>1 DEF Ascending
    <3>5. ~(a - (Len(s) + g) \in 1..Len(t) /\ b \in 1..Len(s))
      BY <1>1, <2>3, <3>0, <3>1
    <3> QED BY <2>9, <3>1, <3>2, <3>3, <3>4, <3>5
  <2> QED BY <1>1, <2>2, <2>3, <2>6, <2>10, <2>11
<1> QED BY <1>2, <1>3

-----------------------------------------------------------------------------
\* VaultText: lists of texts -----------------------------------------------------------

\* All characters of some texts.
Held(cs) == UNION {Chars(cs[k]) : k \in DOMAIN cs}

\* A text goes on at least as far as these characters.
Reaches(s, X) == \A c \in X : \E d \in Chars(s) : d >= c

\* What the gateway stores, with texts of up to this length.
AreChunks(cs, length) ==
    /\ cs \in Seq(Text)
    /\ \A k \in DOMAIN cs : Ascending(cs[k]) /\ Chars(cs[k]) # {} /\ Len(cs[k]) <= length
    /\ \A k, l \in DOMAIN cs : k < l => Reaches(cs[l], Chars(cs[k]))

\* Texts that follow one another.
AreParagraphs(ps) ==
    /\ ps \in Seq(Text)
    /\ \A k \in DOMAIN ps : Ascending(ps[k]) /\ Chars(ps[k]) # {}
    /\ \A k, l \in DOMAIN ps : k < l => Precedes(ps[k], ps[l])

\* No texts are fine.
LEMMA NoChunks ==
    ASSUME NEW length
    PROVE  AreChunks(<<>>, length) /\ AreParagraphs(<<>>) /\ Held(<<>>) = {}
<1>1. <<>> \in Seq(Text) /\ DOMAIN (<<>>) = {}
  OBVIOUS
<1>2. \A k, l \in DOMAIN (<<>>) : FALSE
  BY <1>1
<1> QED
  BY <1>1, <1>2 DEF AreChunks, AreParagraphs, Held

\* Characters are numbers.
LEMMA CharsAreNumbers ==
    /\ \A s \in Text : Chars(s) \subseteq Nat
    /\ \A cs \in Seq(Text) : Held(cs) \subseteq Nat
<1>1. ASSUME NEW s \in Text PROVE Chars(s) \subseteq Nat
  <2>1. \A i \in DOMAIN s : s[i] \in Nat
    BY LenProperties DEF Text
  <2> QED BY <2>1 DEF Chars
<1>2. ASSUME NEW cs \in Seq(Text) PROVE Held(cs) \subseteq Nat
  <2>1. \A k \in DOMAIN cs : cs[k] \in Text
    BY LenProperties
  <2> QED BY <1>1, <2>1 DEF Held
<1> QED BY <1>1, <1>2

\* One more text.
LEMMA OneMore ==
    ASSUME NEW cs \in Seq(Text), NEW s \in Text
    PROVE  /\ Append(cs, s) \in Seq(Text)
           /\ DOMAIN Append(cs, s) = DOMAIN cs \cup {Len(cs) + 1}
           /\ Len(cs) \in Nat /\ DOMAIN cs = 1..Len(cs)
           /\ Append(cs, s)[Len(cs) + 1] = s
           /\ \A k \in DOMAIN cs : Append(cs, s)[k] = cs[k]
           /\ Held(Append(cs, s)) = Held(cs) \cup Chars(s)
<1>1. /\ Append(cs, s) \in Seq(Text)
      /\ Len(cs) \in Nat /\ DOMAIN cs = 1..Len(cs)
      /\ Len(Append(cs, s)) = Len(cs) + 1
      /\ Append(cs, s)[Len(cs) + 1] = s
      /\ \A k \in 1..Len(cs) : Append(cs, s)[k] = cs[k]
  BY LenProperties, AppendProperties
<1>2. DOMAIN Append(cs, s) = 1..(Len(cs) + 1)
  BY <1>1, LenProperties
<1>3. PICK as : as = Append(cs, s)
  OBVIOUS
<1>4. /\ DOMAIN as = DOMAIN cs \cup {Len(cs) + 1} /\ as[Len(cs) + 1] = s
      /\ \A k \in DOMAIN cs : as[k] = cs[k]
  BY <1>1, <1>2, <1>3
<1>5. Held(as) = Held(cs) \cup Chars(s)
  BY <1>4 DEF Held
<1> QED BY <1>1, <1>3, <1>4, <1>5

\* Flushing a text that goes on where the chunks end.
LEMMA FlushIs ==
    ASSUME NEW length \in Int, NEW cs, AreChunks(cs, length), NEW s \in Text, Ascending(s),
           Len(s) <= length, Chars(s) # {} => Reaches(s, Held(cs))
    PROVE  AreChunks(Flush(cs, s), length) /\ Held(Flush(cs, s)) = Held(cs) \cup Chars(s)
<1>1. CASE Chars(s) = {}
  BY <1>1 DEF Flush
<1>2. CASE Chars(s) # {}
  <2>1. PICK t \in Text : /\ t = Strip(s) /\ Len(t) <= Len(s) /\ Chars(t) = Chars(s) /\ Ascending(t)
    BY StripIs
  <2>2. Len(t) <= length
    <3>1. Len(t) \in Nat /\ Len(s) \in Nat
      BY LenProperties DEF Text
    <3> QED BY <2>1, <3>1
  <2>3. PICK as : as = Append(cs, t)
    OBVIOUS
  <2>4. cs \in Seq(Text)
    BY DEF AreChunks
  <2>5. /\ as \in Seq(Text)
        /\ DOMAIN as = DOMAIN cs \cup {Len(cs) + 1}
        /\ Len(cs) \in Nat /\ DOMAIN cs = 1..Len(cs)
        /\ as[Len(cs) + 1] = t
        /\ \A k \in DOMAIN cs : as[k] = cs[k]
        /\ Held(as) = Held(cs) \cup Chars(t)
    BY <2>3, <2>4, OneMore
  <2>6. \A k \in DOMAIN as : Ascending(as[k]) /\ Chars(as[k]) # {} /\ Len(as[k]) <= length
    BY <1>2, <2>1, <2>2, <2>5 DEF AreChunks
  <2>7. ASSUME NEW k \in DOMAIN as, NEW l \in DOMAIN as, k < l PROVE Reaches(as[l], Chars(as[k]))
    <3>1. k \in DOMAIN cs
      BY <2>5, <2>7
    <3>2. CASE l \in DOMAIN cs
      BY <2>5, <2>7, <3>1, <3>2 DEF AreChunks
    <3>3. CASE l = Len(cs) + 1
      <4>1. Chars(as[k]) \subseteq Held(cs)
        BY <2>5, <3>1 DEF Held
      <4> QED BY <1>2, <2>1, <2>5, <3>3, <4>1 DEF Reaches
    <3> QED BY <2>5, <3>2, <3>3
  <2>8. AreChunks(as, length)
    BY <2>5, <2>6, <2>7 DEF AreChunks
  <2>9. Flush(cs, s) = as
    BY <1>2, <2>1, <2>3 DEF Flush
  <2> QED BY <2>1, <2>5, <2>8, <2>9
<1> QED BY <1>1, <1>2

\* Flushing a text that follows all the others.
LEMMA FlushParagraph ==
    ASSUME NEW ps, AreParagraphs(ps), NEW s \in Text, Ascending(s),
           \A c \in Held(ps), d \in Chars(s) : c < d
    PROVE  AreParagraphs(Flush(ps, s)) /\ Held(Flush(ps, s)) = Held(ps) \cup Chars(s)
<1>1. CASE Chars(s) = {}
  BY <1>1 DEF Flush
<1>2. CASE Chars(s) # {}
  <2>1. PICK t \in Text : t = Strip(s) /\ Chars(t) = Chars(s) /\ Ascending(t)
    BY StripIs
  <2>3. PICK as : as = Append(ps, t)
    OBVIOUS
  <2>4. ps \in Seq(Text)
    BY DEF AreParagraphs
  <2>5. /\ as \in Seq(Text)
        /\ DOMAIN as = DOMAIN ps \cup {Len(ps) + 1}
        /\ Len(ps) \in Nat /\ DOMAIN ps = 1..Len(ps)
        /\ as[Len(ps) + 1] = t
        /\ \A k \in DOMAIN ps : as[k] = ps[k]
        /\ Held(as) = Held(ps) \cup Chars(t)
    BY <2>3, <2>4, OneMore
  <2>6. \A k \in DOMAIN as : Ascending(as[k]) /\ Chars(as[k]) # {}
    BY <1>2, <2>1, <2>5 DEF AreParagraphs
  <2>7. ASSUME NEW k \in DOMAIN as, NEW l \in DOMAIN as, k < l PROVE Precedes(as[k], as[l])
    <3>1. k \in DOMAIN ps
      BY <2>5, <2>7
    <3>2. CASE l \in DOMAIN ps
      BY <2>5, <2>7, <3>1, <3>2 DEF AreParagraphs
    <3>3. CASE l = Len(ps) + 1
      <4>1. Chars(as[k]) \subseteq Held(ps)
        BY <2>5, <3>1 DEF Held
      <4> QED BY <2>1, <2>5, <3>3, <4>1 DEF Precedes
    <3> QED BY <2>5, <3>2, <3>3
  <2>8. AreParagraphs(as)
    BY <2>5, <2>6, <2>7 DEF AreParagraphs
  <2>9. Flush(ps, s) = as
    BY <1>2, <2>1, <2>3 DEF Flush
  <2> QED BY <2>1, <2>5, <2>8, <2>9
<1> QED BY <1>1, <1>2

\* Chunks, and later ones.
LEMMA LaterChunks ==
    ASSUME NEW length \in Int, NEW a, AreChunks(a, length), NEW b, AreChunks(b, length),
           \A c \in Held(a), d \in Held(b) : c < d
    PROVE  AreChunks(a \o b, length) /\ Held(a \o b) = Held(a) \cup Held(b)
<1>1. a \in Seq(Text) /\ b \in Seq(Text)
  BY DEF AreChunks
<1>2. PICK m \in Nat, n \in Nat : m = Len(a) /\ n = Len(b) /\ DOMAIN a = 1..m /\ DOMAIN b = 1..n
  BY <1>1, LenProperties
<1>3. PICK c : c = a \o b
  OBVIOUS
<1>4. /\ c \in Seq(Text) /\ Len(c) = m + n
      /\ \A i \in 1..(m + n) : c[i] = IF i <= m THEN a[i] ELSE b[i - m]
  BY <1>1, <1>2, <1>3, ConcatProperties
<1>5. DOMAIN c = 1..(m + n)
  BY <1>4, LenProperties
<1>6. /\ \A i \in DOMAIN a : i \in DOMAIN c /\ c[i] = a[i]
      /\ \A i \in DOMAIN b : m + i \in DOMAIN c /\ c[m + i] = b[i]
      /\ \A i \in DOMAIN c : IF i <= m THEN i \in DOMAIN a /\ c[i] = a[i]
                                       ELSE i - m \in DOMAIN b /\ c[i] = b[i - m]
  <2>1. \A i \in DOMAIN b : m + i \in 1..(m + n) /\ ~(m + i <= m) /\ (m + i) - m = i
    BY <1>2
  <2> QED BY <1>2, <1>4, <1>5, <2>1
<1>7. Held(c) = Held(a) \cup Held(b)
  <2>1. \A i \in DOMAIN c : (\E j \in DOMAIN a : c[i] = a[j]) \/ (\E j \in DOMAIN b : c[i] = b[j])
    BY <1>6
  <2>2. \A j \in DOMAIN a : \E i \in DOMAIN c : c[i] = a[j]
    BY <1>6
  <2>3. \A j \in DOMAIN b : \E i \in DOMAIN c : c[i] = b[j]
    BY <1>6
  <2>4. \A x \in Held(c) : x \in Held(a) \cup Held(b)
    BY <2>1 DEF Held
  <2>5. \A x \in Held(a) : x \in Held(c)
    BY <2>2 DEF Held
  <2>6. \A x \in Held(b) : x \in Held(c)
    BY <2>3 DEF Held
  <2> QED BY <2>4, <2>5, <2>6
<1>8. \A k \in DOMAIN c : Ascending(c[k]) /\ Chars(c[k]) # {} /\ Len(c[k]) <= length
  BY <1>6 DEF AreChunks
<1>9. ASSUME NEW k \in DOMAIN c, NEW l \in DOMAIN c, k < l PROVE Reaches(c[l], Chars(c[k]))
  <2>0. k \in Int /\ l \in Int
    BY <1>5
  <2>1. CASE l <= m
    BY <1>2, <1>6, <1>9, <2>0, <2>1 DEF AreChunks
  <2>2. CASE ~(k <= m)
    <3>1. k - m < l - m /\ k - m \in DOMAIN b /\ l - m \in DOMAIN b /\ c[k] = b[k - m] /\ c[l] = b[l - m]
      BY <1>2, <1>6, <1>9, <2>0, <2>2
    <3> QED BY <3>1 DEF AreChunks
  <2>3. CASE k <= m /\ ~(l <= m)
    <3>1. k \in DOMAIN a /\ c[k] = a[k] /\ l - m \in DOMAIN b /\ c[l] = b[l - m]
      BY <1>6, <2>3
    <3>2. PICK d : d \in Chars(b[l - m])
      BY <3>1 DEF AreChunks
    <3>3. d \in Held(b) /\ Chars(a[k]) \subseteq Held(a)
      BY <3>1, <3>2 DEF Held
    <3>4. d \in Nat /\ Held(a) \subseteq Nat
      BY <1>1, <3>3, CharsAreNumbers
    <3>5. \A x \in Chars(a[k]) : d >= x
      BY <3>3, <3>4
    <3> QED BY <3>1, <3>2, <3>5 DEF Reaches
  <2> QED BY <1>2, <2>0, <1>9, <2>1, <2>2, <2>3
<1> QED BY <1>3, <1>4, <1>7, <1>8, <1>9 DEF AreChunks

-----------------------------------------------------------------------------
\* VaultText: the windows of a long paragraph --------------------------------------------

Sliding == [kept : Seq(Text), start : Nat]

\* The characters at places m to n.
At(s, m, n) == {s[i] : i \in m..n} \ {0}

\* The windows so far hold what lies before the next one, and no more than to where
\* the next one ends.
WindowsSoFar(st, long, size) ==
    /\ st \in Sliding /\ st.start <= Len(long)
    /\ AreChunks(st.kept, size)
    /\ At(long, 1, st.start) \subseteq Held(st.kept)
    /\ Held(st.kept) \subseteq At(long, 1, Least(Len(long), st.start + size))

\* The least and the most of two numbers.
LEMMA LeastIs ==
    ASSUME NEW a \in Int, NEW b \in Int
    PROVE  /\ Least(a, b) \in {a, b} /\ Least(a, b) <= a /\ Least(a, b) <= b
           /\ Most(a, b) \in {a, b} /\ Most(a, b) >= a /\ Most(a, b) >= b
BY DEF Least, Most

\* One more window.
LEMMA SlideIs ==
    ASSUME NEW long \in Text, Ascending(long), NEW size \in Nat \ {0}, NEW overlap \in Nat,
           NEW st, WindowsSoFar(st, long, size)
    PROVE  /\ WindowsSoFar(Slide(st, long, size, overlap), long, size)
           /\ st.start < Len(long) => Slide(st, long, size, overlap).start > st.start
<1>1. Len(long) \in Nat /\ DOMAIN long = 1..Len(long) /\ \A i \in DOMAIN long : long[i] \in Nat
  BY LenProperties DEF Text
<1>2. st.start \in Nat /\ st.kept \in Seq(Text) /\ st.start <= Len(long)
  BY DEF WindowsSoFar, Sliding
<1>3. CASE st.start >= Len(long)
  <2>1. Slide(st, long, size, overlap) = st
    BY <1>3 DEF Slide
  <2> QED BY <1>1, <1>2, <1>3, <2>1
<1>4. CASE st.start < Len(long)
  <2>1. PICK end : end = Least(Len(long), st.start + size)
    OBVIOUS
  <2>2. end \in Nat /\ end > st.start /\ end <= Len(long) /\ end <= st.start + size
    BY <1>1, <1>2, <1>4, <2>1 DEF Least
  <2>3. PICK w : w = SubSeq(long, st.start + 1, end)
    OBVIOUS
  <2>4. /\ w \in Text /\ Len(w) = end - st.start /\ Ascending(w)
        /\ Chars(w) = At(long, st.start + 1, end)
    <3>1. st.start + 1 \in Int /\ end \in Int /\ st.start + 1 >= 1 /\ st.start + 1 <= end
      BY <1>2, <2>2
    <3>2. Len(w) = end - (st.start + 1) + 1
      BY <2>2, <2>3, <3>1, PartIs
    <3> QED BY <1>2, <2>2, <2>3, <3>1, <3>2, PartIs DEF At
  <2>5. PICK start : start = IF end = Len(long) THEN end ELSE Most(end - overlap, st.start + 1)
    OBVIOUS
  <2>6. start \in Nat /\ start > st.start /\ start <= end /\ end <= Least(Len(long), start + size)
        /\ Least(Len(long), start + size) \in Nat
    <3>1. start \in Nat /\ start > st.start /\ start <= end
      <4>1. end - overlap \in Int /\ st.start + 1 \in Int
        BY <1>2, <2>2
      <4>2. /\ Most(end - overlap, st.start + 1) \in {end - overlap, st.start + 1}
            /\ Most(end - overlap, st.start + 1) >= st.start + 1
        BY <4>1, LeastIs
      <4> QED BY <1>2, <2>2, <2>5, <4>2
    <3>2. Least(Len(long), start + size) \in {Len(long), start + size}
      BY <1>1, <3>1, LeastIs
    <3> QED BY <1>1, <1>2, <2>2, <3>1, <3>2
  <2>7. Slide(st, long, size, overlap) = [kept |-> Flush(st.kept, w), start |-> start]
    BY <1>2, <1>1, <1>4, <2>1, <2>3, <2>5 DEF Slide
  <2>8. Chars(w) # {} => Reaches(w, Held(st.kept))
    <3>1. SUFFICES ASSUME NEW d \in Chars(w), NEW c \in Held(st.kept) PROVE \E x \in Chars(w) : x >= c
      BY DEF Reaches
    <3>2. PICK q \in 1..end : c = long[q] /\ c # 0
      BY <2>1 DEF WindowsSoFar, At
    <3>3. PICK r \in (st.start + 1)..end : d = long[r] /\ d # 0
      BY <2>4 DEF At
    <3>4. q \in DOMAIN long /\ r \in DOMAIN long /\ c \in Nat /\ d \in Nat
      BY <1>1, <1>2, <2>2, <3>2, <3>3
    <3>5. CASE q > st.start
      <4>1. q \in (st.start + 1)..end
        BY <1>2, <2>2, <3>5
      <4>2. c \in Chars(w)
        BY <2>4, <3>2, <4>1 DEF At
      <4> QED BY <3>4, <4>2
    <3>6. CASE ~(q > st.start)
      <4>1. q < r
        BY <1>2, <2>2, <3>6
      <4>2. c < d
        BY <3>2, <3>3, <3>4, <4>1 DEF Ascending
      <4> QED BY <3>4, <4>2
    <3> QED BY <3>5, <3>6
  <2>9. AreChunks(Flush(st.kept, w), size) /\ Held(Flush(st.kept, w)) = Held(st.kept) \cup Chars(w)
    <3>1. Len(w) <= size /\ size \in Int
      BY <1>2, <2>2, <2>4
    <3> QED BY <2>4, <2>8, <3>1, FlushIs DEF WindowsSoFar
  <2>10. PICK new : new = [kept |-> Flush(st.kept, w), start |-> start]
    OBVIOUS
  <2>11. new.kept = Flush(st.kept, w) /\ new.start = start /\ new \in Sliding
    <3>1. Flush(st.kept, w) \in Seq(Text)
      BY <2>9 DEF AreChunks
    <3> QED BY <2>6, <2>10, <3>1 DEF Sliding
  <2>12. At(long, 1, start) \subseteq Held(st.kept) \cup Chars(w)
    <3>1. SUFFICES ASSUME NEW i \in 1..start, long[i] # 0
                   PROVE  long[i] \in Held(st.kept) \cup Chars(w)
      BY DEF At
    <3>2. CASE i <= st.start
      <4>1. long[i] \in At(long, 1, st.start)
        BY <1>2, <3>1, <3>2 DEF At
      <4> QED BY <4>1 DEF WindowsSoFar
    <3>3. CASE ~(i <= st.start)
      <4>1. i \in (st.start + 1)..end
        BY <1>2, <2>2, <2>6, <3>3
      <4> QED BY <2>4, <3>1, <4>1 DEF At
    <3> QED BY <3>2, <3>3
  <2>13. Held(st.kept) \cup Chars(w) \subseteq At(long, 1, Least(Len(long), start + size))
    <3>1. Held(st.kept) \subseteq At(long, 1, end)
      BY <2>1 DEF WindowsSoFar
    <3>2. PICK top \in Nat : top = Least(Len(long), start + size) /\ end <= top
      BY <2>6
    <3>3. At(long, 1, end) \subseteq At(long, 1, top) /\ At(long, st.start + 1, end) \subseteq At(long, 1, top)
      <4>1. 1..end \subseteq 1..top /\ (st.start + 1)..end \subseteq 1..top
        BY <1>2, <2>2, <3>2
      <4> QED BY <4>1 DEF At
    <3> QED BY <2>4, <3>1, <3>2, <3>3
  <2>14. WindowsSoFar(new, long, size)
    <3>1. new.start <= Len(long)
      BY <1>1, <2>2, <2>6, <2>11
    <3>2. At(long, 1, new.start) \subseteq Held(new.kept)
      BY <2>9, <2>11, <2>12
    <3>3. Held(new.kept) \subseteq At(long, 1, Least(Len(long), new.start + size))
      BY <2>9, <2>11, <2>13
    <3>4. AreChunks(new.kept, size)
      BY <2>9, <2>11
    <3> QED BY <2>11, <3>1, <3>2, <3>3, <3>4 DEF WindowsSoFar
  <2> QED BY <2>6, <2>7, <2>10, <2>11, <2>14
<1> QED BY <1>1, <1>2, <1>3, <1>4

\* A window that follows others gives windows.
LEMMA SlideIsSliding ==
    ASSUME NEW long \in Text, NEW size \in Nat, NEW overlap \in Nat, NEW st \in Sliding
    PROVE  Slide(st, long, size, overlap) \in Sliding
<1>1. Len(long) \in Nat /\ \A i \in 1..Len(long) : long[i] \in Nat
  BY LenProperties DEF Text
<1>2. st.start \in Nat /\ st.kept \in Seq(Text)
  BY DEF Sliding
<1>3. CASE st.start >= Len(long)
  BY <1>3 DEF Slide
<1>4. CASE ~(st.start >= Len(long))
  <2>1. PICK end : end = Least(Len(long), st.start + size)
    OBVIOUS
  <2>2. end \in Nat /\ end <= Len(long)
    BY <1>1, <1>2, <2>1 DEF Least
  <2>3. SubSeq(long, st.start + 1, end) \in Text
    <3>1. st.start + 1 \in Int /\ end \in Int /\ st.start + 1 >= 1
      BY <1>2, <2>2
    <3> QED BY <2>2, <3>1, PartIs
  <2>4. Flush(st.kept, SubSeq(long, st.start + 1, end)) \in Seq(Text)
    <3>1. Strip(SubSeq(long, st.start + 1, end)) \in Text
      BY <2>3, StripIs
    <3> QED BY <1>2, <3>1 DEF Flush
  <2>5. (IF end = Len(long) THEN end ELSE Most(end - overlap, st.start + 1)) \in Nat
    BY <1>2, <2>2 DEF Most
  <2>6. Slide(st, long, size, overlap) =
           [kept |-> Flush(st.kept, SubSeq(long, st.start + 1, end)),
            start |-> IF end = Len(long) THEN end ELSE Most(end - overlap, st.start + 1)]
    BY <1>4, <2>1 DEF Slide
  <2> QED BY <2>4, <2>5, <2>6 DEF Sliding
<1> QED BY <1>3, <1>4

\* No window yet.
LEMMA NoWindow == [kept |-> <<>>, start |-> 0] \in Sliding
BY DEF Sliding

\* The windows after each turn of the loop.
LEMMA WindowsTrace ==
    ASSUME NEW long \in Seq(Nat), NEW size \in Nat, NEW overlap \in Nat
    PROVE  \E f \in [0..Len(long) -> Sliding] :
              /\ f[0] = [kept |-> <<>>, start |-> 0]
              /\ \A k \in 1..Len(long) : f[k] = Slide(f[k - 1], long, size, overlap)
              /\ Windows(long, size, overlap) = f[Len(long)].kept
<1> DEFINE n == Len(long)
           base == [kept |-> <<>>, start |-> 0]
           E(it) == it = [t \in SUBSET DOMAIN long |->
                            IF t = {} THEN base
                            ELSE Slide(it[t \ {Max(t)}], long, size, overlap)]
           it0 == CHOOSE it : E(it)
           step == [p \in Sliding \X (1..n) |-> Slide(p[1], long, size, overlap)]
<1>1. n \in Nat /\ DOMAIN long = 1..n /\ \A k \in 1..n : long[k] \in Nat
  BY LenProperties
<1>2. step \in [Sliding \X (1..n) -> Sliding] /\ base \in Sliding
  <2>1. \A a \in Sliding, k \in 1..n : Slide(a, long, size, overlap) \in Sliding
    BY <1>1, SlideIsSliding, NoWindow DEF Text
  <2>2. base \in Sliding
    BY SlideIsSliding, NoWindow DEF Text
  <2> QED BY <2>1, <2>2
<1>3. PICK it : IsFold(it, Sliding, base, step, n)
  <2> HIDE DEF n, step, base
  <2>1. n \in Nat /\ base \in Sliding
    BY <1>1, <1>2
  <2> QED BY <2>1, <1>2, FoldsExist, Zenon
<1>4. \A t \in SUBSET (1..n) : t # {} => Max(t) \in 1..n /\ t \ {Max(t)} \in SUBSET (1..n)
  <2> HIDE DEF n
  <2> QED BY <1>1, MaxIs
<1>5. E(it0)
  <2>1. E(it)
    <3>1. \A t \in SUBSET (1..n) : t # {} => it[t \ {Max(t)}] \in Sliding
      BY <1>3, <1>4 DEF IsFold
    <3> QED BY <1>1, <1>3, <1>4, <3>1 DEF IsFold
  <2> HIDE DEF E
  <2> QED BY <2>1
<1>6. Windows(long, size, overlap) = it0[DOMAIN long].kept
  BY DEF Windows, FoldLeft, MapThenFoldSet
<1>7. HasTrace(it0, Sliding, base, step, n)
  <2>1. it0[{}] = base /\ \A t \in SUBSET (1..n) : t # {} =>
            it0[t] = Slide(it0[t \ {Max(t)}], long, size, overlap)
    <3> HIDE DEF it0
    <3> QED BY <1>1, <1>5
  <2>2. \A t \in SUBSET (1..n) : t # {} /\ it0[t \ {Max(t)}] \in Sliding =>
            it0[t] = step[<<it0[t \ {Max(t)}], Max(t)>>]
    <3> HIDE DEF it0, E
    <3> QED BY <2>1, <1>4
  <2>3. n \in Nat /\ base \in Sliding /\ it0[{}] = base
    BY <1>1, <1>2, <2>1
  <2> HIDE DEF n, step, base, it0, E
  <2> QED BY <1>2, <2>2, <2>3, TracesExist, Zenon
<1>8. PICK f : IsTrace(f, Sliding, base, step, n) /\ f[n] = it0[1..n]
  BY <1>7 DEF HasTrace
<1> HIDE DEF it0, E
<1>9. f \in [0..n -> Sliding] /\ f[0] = base /\ \A k \in 1..n : f[k] = Slide(f[k - 1], long, size, overlap)
  <2>1. \A k \in 1..n : f[k] = step[<<f[k - 1], k>>] /\ f[k - 1] \in Sliding
    <3> HIDE DEF step, n
    <3> QED BY <1>1, <1>8 DEF IsTrace
  <2> QED BY <1>8, <2>1 DEF IsTrace
<1>10. Windows(long, size, overlap) = f[n].kept
  BY <1>1, <1>6, <1>8
<1> QED BY <1>9, <1>10

\* The windows of a text hold all of it.
LEMMA WindowsAreRight ==
    ASSUME NEW long \in Text, Ascending(long), NEW size \in Nat \ {0}, NEW overlap \in Nat
    PROVE  /\ AreChunks(Windows(long, size, overlap), size)
           /\ Held(Windows(long, size, overlap)) = Chars(long)
<1>1. PICK f \in [0..Len(long) -> Sliding] :
              /\ f[0] = [kept |-> <<>>, start |-> 0]
              /\ \A k \in 1..Len(long) : f[k] = Slide(f[k - 1], long, size, overlap)
              /\ Windows(long, size, overlap) = f[Len(long)].kept
  <2>1. long \in Seq(Nat) /\ size \in Nat
    BY DEF Text
  <2> QED BY <2>1, WindowsTrace
<1> DEFINE n == Len(long)
           A == {k \in 0..n : WindowsSoFar(f[k], long, size) /\ f[k].start >= k}
<1>2. n \in Nat /\ DOMAIN long = 1..n
  BY LenProperties DEF Text
<1>3. 0 \in A
  <2>1. f[0].kept = <<>> /\ f[0].start = 0 /\ f[0] \in Sliding
    BY <1>1, <1>2
  <2>2. AreChunks(<<>>, size) /\ Held(<<>>) = {}
    BY NoChunks
  <2>3. At(long, 1, 0) = {}
    BY DEF At
  <2>4. WindowsSoFar(f[0], long, size)
    BY <1>2, <2>1, <2>2, <2>3 DEF WindowsSoFar
  <2> QED BY <1>2, <2>1, <2>4
<1>4. ASSUME NEW k \in 0..(n - 1), k \in A PROVE k + 1 \in A
  <2>1. k + 1 \in 1..n /\ (k + 1) - 1 = k /\ k \in 0..n /\ k + 1 \in 0..n
    BY <1>2
  <2>2. PICK st \in Sliding : st = f[k] /\ WindowsSoFar(st, long, size) /\ st.start >= k
    BY <1>4, <2>1
  <2>3. PICK new \in Sliding : new = f[k + 1]
    BY <2>1
  <2>4. new = Slide(st, long, size, overlap)
    BY <1>1, <2>1, <2>2, <2>3
  <2>5. WindowsSoFar(new, long, size) /\ (st.start < n => new.start > st.start)
    BY <2>2, <2>4, SlideIs
  <2>6. new.start >= k + 1
    <3>1. st.start \in Nat /\ new.start \in Nat
      BY DEF Sliding
    <3>2. CASE st.start < n
      BY <2>2, <2>5, <3>1, <3>2
    <3>3. CASE ~(st.start < n)
      <4>1. new = st
        BY <1>2, <2>4, <3>1, <3>3 DEF Slide
      <4> QED BY <1>2, <2>1, <3>1, <3>3, <4>1
    <3> QED BY <3>2, <3>3
  <2> QED BY <2>1, <2>3, <2>5, <2>6
<1>5. n \in A
  <2>1. \A k \in 0..(n - 1) : k \in A => k + 1 \in A
    BY <1>4
  <2> HIDE DEF A, n
  <2>2. 0..n \subseteq A
    BY <1>2, <1>3, <2>1, Induction
  <2> QED BY <1>2, <2>2
<1>6. PICK st : st = f[n] /\ WindowsSoFar(st, long, size) /\ st.start >= n
  BY <1>5
<1>7. st.start = n
  BY <1>2, <1>6 DEF WindowsSoFar, Sliding
<1>8. At(long, 1, n) = Chars(long)
  BY <1>2 DEF At, Chars
<1>9. Least(n, st.start + size) = n
  <2>1. n + size \in Int /\ n \in Int /\ n + size >= n
    BY <1>2
  <2>2. Least(n, n + size) \in {n, n + size} /\ Least(n, n + size) <= n
    BY <2>1, LeastIs
  <2> QED BY <1>7, <2>1, <2>2
<1> HIDE DEF n
<1>10. AreChunks(st.kept, size) /\ Chars(long) \subseteq Held(st.kept) /\ Held(st.kept) \subseteq Chars(long)
  <2>1. n = Len(long)
    BY DEF n
  <2> QED BY <1>6, <1>7, <1>8, <1>9, <2>1 DEF WindowsSoFar
<1> QED
  BY <1>1, <1>6, <1>10 DEF n

-----------------------------------------------------------------------------
\* VaultText: the paragraphs of a section -------------------------------------------------

\* Lines whose characters are in the order of the note.
Follow(ss) ==
    /\ ss \in Seq(Text)
    /\ \A i \in DOMAIN ss : Ascending(ss[i])
    /\ \A i, j \in DOMAIN ss : i < j => Precedes(ss[i], ss[j])

\* The characters of the first texts.
UpTo(ss, k) == UNION {Chars(ss[i]) : i \in 1..k}

\* What the first texts have, and what the next one adds.
LEMMA UpToIs ==
    ASSUME NEW ss, Follow(ss)
    PROVE  /\ Len(ss) \in Nat /\ DOMAIN ss = 1..Len(ss)
           /\ UpTo(ss, 0) = {} /\ UpTo(ss, Len(ss)) = Held(ss)
           /\ \A k \in 1..Len(ss) :
                 /\ ss[k] \in Text /\ Ascending(ss[k])
                 /\ UpTo(ss, k) = UpTo(ss, k - 1) \cup Chars(ss[k])
                 /\ \A c \in UpTo(ss, k - 1), d \in Chars(ss[k]) : c < d
<1>1. ss \in Seq(Text) /\ Len(ss) \in Nat /\ DOMAIN ss = 1..Len(ss) /\ \A k \in 1..Len(ss) : ss[k] \in Text
  BY LenProperties DEF Follow
<1>2. UpTo(ss, 0) = {} /\ UpTo(ss, Len(ss)) = Held(ss)
  BY <1>1 DEF UpTo, Held
<1>3. ASSUME NEW k \in 1..Len(ss)
      PROVE  /\ Ascending(ss[k])
             /\ UpTo(ss, k) = UpTo(ss, k - 1) \cup Chars(ss[k])
             /\ \A c \in UpTo(ss, k - 1), d \in Chars(ss[k]) : c < d
  <2>1. k \in Nat /\ 1..k = (1..(k - 1)) \cup {k} /\ \A i \in 1..(k - 1) : i \in DOMAIN ss /\ i < k
    BY <1>1
  <2>2. UpTo(ss, k) = UpTo(ss, k - 1) \cup Chars(ss[k])
    BY <2>1 DEF UpTo
  <2>3. \A i \in 1..(k - 1) : Precedes(ss[i], ss[k])
    BY <1>1, <2>1 DEF Follow
  <2>4. \A c \in UpTo(ss, k - 1), d \in Chars(ss[k]) : c < d
    BY <2>3 DEF UpTo, Precedes
  <2> QED BY <1>1, <2>2, <2>4 DEF Follow
<1> QED BY <1>1, <1>2, <1>3

Reading == [kept : Seq(Text), open : Text]

\* A line more leaves paragraphs.
LEMMA ReadTextIsReading ==
    ASSUME NEW st \in Reading, NEW line \in Text
    PROVE  ReadText(st, line) \in Reading
<1>1. st.kept \in Seq(Text) /\ st.open \in Text
  BY DEF Reading
<1>2. Joined(st.open, << 0 >>, line) \in Text
  BY <1>1, JoinedIs
<1>3. Strip(st.open) \in Text
  BY <1>1, StripIs
<1>4. Flush(st.kept, st.open) \in Seq(Text)
  BY <1>1, <1>3 DEF Flush
<1>5. <<>> \in Text
  BY DEF Text
<1>6. CASE Chars(line) = {}
  BY <1>4, <1>5, <1>6 DEF ReadText, Reading
<1>7. CASE Chars(line) # {}
  BY <1>2, <1>7 DEF ReadText, Reading
<1> QED BY <1>6, <1>7

\* No line is read.
LEMMA NothingRead == [kept |-> <<>>, open |-> <<>>] \in Reading
BY DEF Reading, Text

\* The paragraphs after each line.
LEMMA ParagraphsTrace ==
    ASSUME NEW lines \in Seq(Text)
    PROVE  \E f \in [0..Len(lines) -> Reading] :
              /\ f[0] = [kept |-> <<>>, open |-> <<>>]
              /\ \A k \in 1..Len(lines) : f[k] = ReadText(f[k - 1], lines[k])
              /\ Paragraphs(lines) = Flush(f[Len(lines)].kept, f[Len(lines)].open)
<1> DEFINE n == Len(lines)
           base == [kept |-> <<>>, open |-> <<>>]
           E(it) == it = [t \in SUBSET DOMAIN lines |->
                            IF t = {} THEN base
                            ELSE ReadText(it[t \ {Max(t)}], lines[Max(t)])]
           it0 == CHOOSE it : E(it)
           step == [p \in Reading \X (1..n) |-> ReadText(p[1], lines[p[2]])]
<1>1. n \in Nat /\ DOMAIN lines = 1..n /\ \A k \in 1..n : lines[k] \in Text
  BY LenProperties
<1>2. step \in [Reading \X (1..n) -> Reading] /\ base \in Reading
  <2>1. \A a \in Reading, k \in 1..n : ReadText(a, lines[k]) \in Reading
    BY <1>1, ReadTextIsReading, NothingRead
  <2>2. base \in Reading
    BY ReadTextIsReading, NothingRead
  <2> QED BY <2>1, <2>2
<1>3. PICK it : IsFold(it, Reading, base, step, n)
  <2> HIDE DEF n, step, base
  <2>1. n \in Nat /\ base \in Reading
    BY <1>1, <1>2
  <2> QED BY <2>1, <1>2, FoldsExist, Zenon
<1>4. \A t \in SUBSET (1..n) : t # {} => Max(t) \in 1..n /\ t \ {Max(t)} \in SUBSET (1..n)
  <2> HIDE DEF n
  <2> QED BY <1>1, MaxIs
<1>5. E(it0)
  <2>1. E(it)
    <3>1. \A t \in SUBSET (1..n) : t # {} => it[t \ {Max(t)}] \in Reading
      BY <1>3, <1>4 DEF IsFold
    <3> QED BY <1>1, <1>3, <1>4, <3>1 DEF IsFold
  <2> HIDE DEF E
  <2> QED BY <2>1
<1>6. Paragraphs(lines) = Flush(it0[DOMAIN lines].kept, it0[DOMAIN lines].open)
  BY DEF Paragraphs, FoldLeft, MapThenFoldSet
<1>7. HasTrace(it0, Reading, base, step, n)
  <2>1. it0[{}] = base /\ \A t \in SUBSET (1..n) : t # {} =>
            it0[t] = ReadText(it0[t \ {Max(t)}], lines[Max(t)])
    <3> HIDE DEF it0
    <3> QED BY <1>1, <1>5
  <2>2. \A t \in SUBSET (1..n) : t # {} /\ it0[t \ {Max(t)}] \in Reading =>
            it0[t] = step[<<it0[t \ {Max(t)}], Max(t)>>]
    <3> HIDE DEF it0, E
    <3> QED BY <2>1, <1>4
  <2>3. n \in Nat /\ base \in Reading /\ it0[{}] = base
    BY <1>1, <1>2, <2>1
  <2> HIDE DEF n, step, base, it0, E
  <2> QED BY <1>2, <2>2, <2>3, TracesExist, Zenon
<1>8. PICK f : IsTrace(f, Reading, base, step, n) /\ f[n] = it0[1..n]
  BY <1>7 DEF HasTrace
<1> HIDE DEF it0, E
<1>9. f \in [0..n -> Reading] /\ f[0] = base /\ \A k \in 1..n : f[k] = ReadText(f[k - 1], lines[k])
  <2>1. \A k \in 1..n : f[k] = step[<<f[k - 1], k>>] /\ f[k - 1] \in Reading
    <3> HIDE DEF step, n
    <3> QED BY <1>1, <1>8 DEF IsTrace
  <2> QED BY <1>8, <2>1 DEF IsTrace
<1>10. Paragraphs(lines) = Flush(f[n].kept, f[n].open)
  BY <1>1, <1>6, <1>8
<1> QED BY <1>9, <1>10

\* After k lines, the paragraphs hold all of them, in order.
ParagraphsSoFar(st, lines, k) ==
    /\ AreParagraphs(st.kept) /\ Ascending(st.open)
    /\ \A c \in Held(st.kept), d \in Chars(st.open) : c < d
    /\ Held(st.kept) \cup Chars(st.open) = UpTo(lines, k)

\* One line more.
LEMMA ReadTextIs ==
    ASSUME NEW lines, Follow(lines), NEW k \in 1..Len(lines), NEW st \in Reading,
           ParagraphsSoFar(st, lines, k - 1)
    PROVE  ParagraphsSoFar(ReadText(st, lines[k]), lines, k)
<1>1. PICK line \in Text : /\ line = lines[k] /\ Ascending(line)
                           /\ UpTo(lines, k) = UpTo(lines, k - 1) \cup Chars(line)
                           /\ \A c \in UpTo(lines, k - 1), d \in Chars(line) : c < d
  BY UpToIs
<1>2. st.kept \in Seq(Text) /\ st.open \in Text
  BY DEF Reading
<1>3. PICK new : new = ReadText(st, line)
  OBVIOUS
<1>4. CASE Chars(line) = {}
  <2>1. new.kept = Flush(st.kept, st.open) /\ new.open = <<>>
    BY <1>3, <1>4 DEF ReadText
  <2>2. /\ AreParagraphs(Flush(st.kept, st.open))
        /\ Held(Flush(st.kept, st.open)) = Held(st.kept) \cup Chars(st.open)
    BY <1>2, FlushParagraph DEF ParagraphsSoFar
  <2>3. Chars(<<>>) = {} /\ Ascending(<<>>)
    BY DEF Chars, Ascending
  <2>4. Held(new.kept) \cup Chars(new.open) = UpTo(lines, k)
    BY <1>1, <1>4, <2>1, <2>2, <2>3 DEF ParagraphsSoFar
  <2>5. AreParagraphs(new.kept) /\ Ascending(new.open) /\ Chars(new.open) = {}
    BY <2>1, <2>2, <2>3
  <2> QED BY <1>1, <1>3, <2>4, <2>5 DEF ParagraphsSoFar
<1>5. CASE Chars(line) # {}
  <2>1. PICK joined : joined = Joined(st.open, << 0 >>, line)
    OBVIOUS
  <2>2. new.kept = st.kept /\ new.open = joined
    BY <1>3, <1>5, <2>1 DEF ReadText, Reading
  <2>3. \A c \in Held(st.kept) \cup Chars(st.open), d \in Chars(line) : c < d
    BY <1>1 DEF ParagraphsSoFar
  <2>4. Precedes(st.open, line)
    BY <2>3 DEF Precedes
  <2>5. Chars(joined) = Chars(st.open) \cup Chars(line) /\ Ascending(joined)
    BY <1>1, <1>2, <2>1, <2>4, JoinedIs DEF ParagraphsSoFar
  <2>6. \A c \in Held(st.kept), d \in Chars(joined) : c < d
    BY <2>3, <2>5 DEF ParagraphsSoFar
  <2>7. Held(st.kept) \cup Chars(joined) = UpTo(lines, k)
    BY <1>1, <2>5 DEF ParagraphsSoFar
  <2>8. AreParagraphs(st.kept)
    BY DEF ParagraphsSoFar
  <2> QED BY <1>1, <1>3, <2>2, <2>5, <2>6, <2>7, <2>8 DEF ParagraphsSoFar
<1> QED BY <1>4, <1>5

\* The paragraphs of a section have all its characters, in order.
LEMMA ParagraphsAreRight ==
    ASSUME NEW lines, Follow(lines)
    PROVE  AreParagraphs(Paragraphs(lines)) /\ Held(Paragraphs(lines)) = Held(lines)
<1>1. PICK f \in [0..Len(lines) -> Reading] :
              /\ f[0] = [kept |-> <<>>, open |-> <<>>]
              /\ \A k \in 1..Len(lines) : f[k] = ReadText(f[k - 1], lines[k])
              /\ Paragraphs(lines) = Flush(f[Len(lines)].kept, f[Len(lines)].open)
  <2>1. lines \in Seq(Text)
    BY DEF Follow
  <2> QED BY <2>1, ParagraphsTrace
<1> DEFINE n == Len(lines)
           A == {k \in 0..n : ParagraphsSoFar(f[k], lines, k)}
<1>2. n \in Nat /\ UpTo(lines, 0) = {} /\ UpTo(lines, n) = Held(lines)
  BY UpToIs
<1>3. 0 \in A
  <2>1. f[0].kept = <<>> /\ f[0].open = <<>>
    BY <1>1
  <2>2. AreParagraphs(<<>>) /\ Held(<<>>) = {}
    BY NoChunks
  <2>3. Chars(<<>>) = {} /\ Ascending(<<>>)
    BY DEF Chars, Ascending
  <2>4. ParagraphsSoFar(f[0], lines, 0)
    BY <1>2, <2>1, <2>2, <2>3 DEF ParagraphsSoFar
  <2> QED BY <1>2, <2>4
<1>4. ASSUME NEW k \in 0..(n - 1), k \in A PROVE k + 1 \in A
  <2>1. k + 1 \in 1..n /\ (k + 1) - 1 = k /\ k \in 0..n /\ k + 1 \in 0..n
    BY <1>2
  <2>2. PICK st \in Reading : st = f[k] /\ ParagraphsSoFar(st, lines, (k + 1) - 1)
    BY <1>4, <2>1
  <2>3. f[k + 1] = ReadText(st, lines[k + 1])
    BY <1>1, <2>1, <2>2
  <2>4. ParagraphsSoFar(f[k + 1], lines, k + 1)
    BY <2>1, <2>2, <2>3, ReadTextIs
  <2> QED BY <2>1, <2>4
<1>5. n \in A
  <2>1. \A k \in 0..(n - 1) : k \in A => k + 1 \in A
    BY <1>4
  <2> HIDE DEF A, n
  <2>2. 0..n \subseteq A
    BY <1>2, <1>3, <2>1, Induction
  <2> QED BY <1>2, <2>2
<1>6. PICK st \in Reading : st = f[n] /\ ParagraphsSoFar(st, lines, n)
  BY <1>2, <1>5
<1>7. st.open \in Text
  BY DEF Reading
<1>8. /\ AreParagraphs(Flush(st.kept, st.open))
      /\ Held(Flush(st.kept, st.open)) = Held(st.kept) \cup Chars(st.open)
  BY <1>6, <1>7, FlushParagraph DEF ParagraphsSoFar
<1> QED
  BY <1>1, <1>2, <1>6, <1>8 DEF ParagraphsSoFar

-----------------------------------------------------------------------------
\* VaultText: the pieces of a section -----------------------------------------------------

Placing == [kept : Seq(Text), current : Text]

\* The end of a text.
LEMMA SuffixIs ==
    ASSUME NEW s \in Text, NEW n \in Nat
    PROVE  /\ Suffix(s, n) \in Text /\ Len(Suffix(s, n)) <= n
           /\ Chars(Suffix(s, n)) \subseteq Chars(s)
           /\ Ascending(s) => Ascending(Suffix(s, n))
<1>1. Len(s) \in Nat /\ DOMAIN s = 1..Len(s)
  BY LenProperties DEF Text
<1>2. PICK m : m = Most(1, Len(s) - n + 1)
  OBVIOUS
<1>3. m \in Int /\ m >= 1 /\ m >= Len(s) - n + 1
  <2>1. Len(s) - n + 1 \in Int
    BY <1>1
  <2> QED BY <1>2, <2>1, LeastIs
<1>4. PICK p : p = SubSeq(s, m, Len(s))
  OBVIOUS
<1>5. Suffix(s, n) = p
  BY <1>2, <1>4 DEF Suffix
<1>6. /\ p \in Text /\ Len(p) = (IF m <= Len(s) THEN Len(s) - m + 1 ELSE 0)
      /\ Chars(p) = {s[i] : i \in m..Len(s)} \ {0}
      /\ Ascending(s) => Ascending(p)
  <2>1. Len(s) \in Int /\ Len(s) <= Len(s)
    BY <1>1
  <2> QED BY <1>3, <1>4, <2>1, PartIs
<1>7. Len(p) <= n
  BY <1>1, <1>3, <1>6
<1>8. Chars(p) \subseteq Chars(s)
  <2>1. \A i \in m..Len(s) : i \in DOMAIN s
    BY <1>1, <1>3
  <2> QED BY <1>6, <2>1 DEF Chars
<1> QED BY <1>5, <1>6, <1>7, <1>8

\* The windows of any text are texts.
LEMMA WindowsAreTexts ==
    ASSUME NEW long \in Text, NEW size \in Nat, NEW overlap \in Nat
    PROVE  Windows(long, size, overlap) \in Seq(Text)
<1>1. PICK f \in [0..Len(long) -> Sliding] : Windows(long, size, overlap) = f[Len(long)].kept
  BY WindowsTrace DEF Text
<1>2. Len(long) \in 0..Len(long)
  BY LenProperties DEF Text
<1> QED BY <1>1, <1>2 DEF Sliding

\* A paragraph more leaves pieces.
LEMMA PlaceIsPlacing ==
    ASSUME NEW st \in Placing, NEW p \in Text, NEW size \in Nat, NEW overlap \in Nat
    PROVE  Place(st, p, size, overlap) \in Placing
<1>1. st.kept \in Seq(Text) /\ st.current \in Text
  BY DEF Placing
<1>2. Flush(st.kept, st.current) \in Seq(Text)
  <2>1. Strip(st.current) \in Text
    BY <1>1, StripIs
  <2> QED BY <1>1, <2>1 DEF Flush
<1>3. Windows(p, size, overlap) \in Seq(Text)
  BY WindowsAreTexts
<1>4. Flush(st.kept, st.current) \o Windows(p, size, overlap) \in Seq(Text)
  BY <1>2, <1>3, ConcatProperties
<1>5. Joined(st.current, <<0, 0>>, p) \in Text
  BY <1>1, JoinedIs
<1>6. Joined(Strip(Suffix(st.current, overlap)), <<0, 0>>, p) \in Text
  <2>1. Strip(Suffix(st.current, overlap)) \in Text
    BY <1>1, SuffixIs, StripIs
  <2> QED BY <2>1, JoinedIs
<1>7. <<>> \in Text /\ Len(p) \in Nat
  BY LenProperties DEF Text
<1>8. CASE Len(p) > size
  <2>1. Place(st, p, size, overlap) =
           [kept |-> Flush(st.kept, st.current) \o Windows(p, size, overlap), current |-> <<>>]
    BY <1>7, <1>8 DEF Place
  <2> QED BY <1>4, <1>7, <2>1 DEF Placing
<1>9. CASE Len(p) <= size /\ Len(Joined(st.current, <<0, 0>>, p)) <= size
  <2>1. Place(st, p, size, overlap) = [st EXCEPT !.current = Joined(st.current, <<0, 0>>, p)]
    BY <1>7, <1>9 DEF Place
  <2> QED BY <1>5, <2>1 DEF Placing
<1>10. CASE Len(p) <= size /\ ~(Len(Joined(st.current, <<0, 0>>, p)) <= size)
  <2>1. Place(st, p, size, overlap) =
           [kept |-> Flush(st.kept, st.current),
            current |-> Joined(Strip(Suffix(st.current, overlap)), <<0, 0>>, p)]
    BY <1>7, <1>10 DEF Place
  <2> QED BY <1>2, <1>6, <2>1 DEF Placing
<1> QED BY <1>7, <1>8, <1>9, <1>10

\* No paragraph is placed.
LEMMA NothingPlaced == [kept |-> <<>>, current |-> <<>>] \in Placing
BY DEF Placing, Text

\* f says what the pieces are after each paragraph.
Places(f, ps, size, overlap) ==
    /\ f \in [0..Len(ps) -> Placing]
    /\ f[0] = [kept |-> <<>>, current |-> <<>>]
    /\ \A k \in 1..Len(ps) : f[k] = Place(f[k - 1], ps[k], size, overlap)

\* There is such an f.
LEMMA PiecesTrace ==
    ASSUME NEW lines, NEW ps \in Seq(Text), ps = Paragraphs(lines), NEW size \in Nat, NEW overlap \in Nat
    PROVE  \E f : /\ Places(f, ps, size, overlap)
                  /\ Pieces(lines, size, overlap) = Flush(f[Len(ps)].kept, f[Len(ps)].current)
<1> DEFINE n == Len(ps)
           base == [kept |-> <<>>, current |-> <<>>]
           E(it) == it = [t \in SUBSET DOMAIN ps |->
                            IF t = {} THEN base
                            ELSE Place(it[t \ {Max(t)}], ps[Max(t)], size, overlap)]
           it0 == CHOOSE it : E(it)
           step == [p \in Placing \X (1..n) |-> Place(p[1], ps[p[2]], size, overlap)]
<1>1. n \in Nat /\ DOMAIN ps = 1..n /\ \A k \in 1..n : ps[k] \in Text
  BY LenProperties
<1>2. step \in [Placing \X (1..n) -> Placing] /\ base \in Placing
  <2>1. \A a \in Placing, k \in 1..n : Place(a, ps[k], size, overlap) \in Placing
    BY <1>1, PlaceIsPlacing, NothingPlaced
  <2>2. base \in Placing
    BY PlaceIsPlacing, NothingPlaced
  <2> QED BY <2>1, <2>2
<1>3. PICK it : IsFold(it, Placing, base, step, n)
  <2> HIDE DEF n, step, base
  <2>1. n \in Nat /\ base \in Placing
    BY <1>1, <1>2
  <2> QED BY <2>1, <1>2, FoldsExist, Zenon
<1>4. \A t \in SUBSET (1..n) : t # {} => Max(t) \in 1..n /\ t \ {Max(t)} \in SUBSET (1..n)
  <2> HIDE DEF n
  <2> QED BY <1>1, MaxIs
<1>5. E(it0)
  <2>1. E(it)
    <3>1. \A t \in SUBSET (1..n) : t # {} => it[t \ {Max(t)}] \in Placing
      BY <1>3, <1>4 DEF IsFold
    <3> QED BY <1>1, <1>3, <1>4, <3>1 DEF IsFold
  <2> HIDE DEF E
  <2> QED BY <2>1
<1>6. Pieces(lines, size, overlap) = Flush(it0[DOMAIN ps].kept, it0[DOMAIN ps].current)
  BY DEF Pieces, FoldLeft, MapThenFoldSet
<1>7. HasTrace(it0, Placing, base, step, n)
  <2>1. it0[{}] = base /\ \A t \in SUBSET (1..n) : t # {} =>
            it0[t] = Place(it0[t \ {Max(t)}], ps[Max(t)], size, overlap)
    <3> HIDE DEF it0
    <3> QED BY <1>1, <1>5
  <2>2. \A t \in SUBSET (1..n) : t # {} /\ it0[t \ {Max(t)}] \in Placing =>
            it0[t] = step[<<it0[t \ {Max(t)}], Max(t)>>]
    <3> HIDE DEF it0, E
    <3> QED BY <2>1, <1>4
  <2>3. n \in Nat /\ base \in Placing /\ it0[{}] = base
    BY <1>1, <1>2, <2>1
  <2> HIDE DEF n, step, base, it0, E
  <2> QED BY <1>2, <2>2, <2>3, TracesExist, Zenon
<1>8. PICK f : IsTrace(f, Placing, base, step, n) /\ f[n] = it0[1..n]
  BY <1>7 DEF HasTrace
<1> HIDE DEF it0, E
<1>9. f \in [0..n -> Placing] /\ f[0] = base /\ \A k \in 1..n : f[k] = Place(f[k - 1], ps[k], size, overlap)
  <2>1. \A k \in 1..n : f[k] = step[<<f[k - 1], k>>] /\ f[k - 1] \in Placing
    <3> HIDE DEF step, n
    <3> QED BY <1>1, <1>8 DEF IsTrace
  <2> QED BY <1>8, <2>1 DEF IsTrace
<1>10. Pieces(lines, size, overlap) = Flush(f[n].kept, f[n].current)
  BY <1>1, <1>6, <1>8
<1>11. Places(f, ps, size, overlap)
  BY <1>9 DEF Places
<1> QED BY <1>10, <1>11

\* After k paragraphs, the pieces hold all of them, and what is open goes on where
\* the last piece ends.
PiecesSoFar(st, ps, k, length) ==
    /\ AreChunks(st.kept, length) /\ Ascending(st.current) /\ Len(st.current) <= length
    /\ Chars(st.current) # {} => Reaches(st.current, Held(st.kept))
    /\ Held(st.kept) \cup Chars(st.current) = UpTo(ps, k)

\* A text that ends in a later paragraph reaches as far as what is in front of it.
LEMMA LaterReaches ==
    ASSUME NEW s, NEW p \in Text, Chars(p) # {}, Chars(p) \subseteq Chars(s),
           NEW X \in SUBSET Nat, \A c \in X, d \in Chars(p) : c < d
    PROVE  Reaches(s, X)
<1>1. PICK d : d \in Chars(p)
  OBVIOUS
<1>2. d \in Nat /\ d \in Chars(s) /\ \A c \in X : c < d /\ c \in Nat
  BY <1>1, CharsAreNumbers
<1>3. \A c \in X : d >= c
  BY <1>2
<1> QED BY <1>2, <1>3 DEF Reaches

\* Chunks that are short enough.
LEMMA ShorterChunks ==
    ASSUME NEW a \in Int, NEW b \in Int, a <= b, NEW cs, AreChunks(cs, a)
    PROVE  AreChunks(cs, b)
<1>1. \A k \in DOMAIN cs : Len(cs[k]) \in Nat
  <2>1. \A k \in DOMAIN cs : cs[k] \in Text
    BY LenProperties DEF AreChunks
  <2> QED BY <2>1, LenProperties DEF Text
<1>2. \A k \in DOMAIN cs : Len(cs[k]) <= b
  BY <1>1 DEF AreChunks
<1> QED BY <1>2 DEF AreChunks

\* One paragraph more.
LEMMA PlaceIs ==
    ASSUME NEW ps, Follow(ps), \A k \in DOMAIN ps : Chars(ps[k]) # {},
           NEW size \in Nat \ {0}, NEW overlap \in Nat, NEW k \in 1..Len(ps),
           NEW st \in Placing, PiecesSoFar(st, ps, k - 1, size + overlap + 2)
    PROVE  PiecesSoFar(Place(st, ps[k], size, overlap), ps, k, size + overlap + 2)
<1> DEFINE length == size + overlap + 2
<1>1. PICK p \in Text : /\ p = ps[k] /\ Ascending(p) /\ Chars(p) # {}
                        /\ UpTo(ps, k) = UpTo(ps, k - 1) \cup Chars(p)
                        /\ \A c \in UpTo(ps, k - 1), d \in Chars(p) : c < d
  BY UpToIs
<1>2. st.kept \in Seq(Text) /\ st.current \in Text /\ length \in Nat
      /\ Len(st.current) \in Nat /\ Len(p) \in Nat
  BY LenProperties DEF Placing, Text
<1> HIDE DEF length
<1>3. PICK new : new = Place(st, p, size, overlap)
  OBVIOUS
<1>4. /\ AreChunks(st.kept, length) /\ Ascending(st.current) /\ Len(st.current) <= length
      /\ Chars(st.current) # {} => Reaches(st.current, Held(st.kept))
      /\ Held(st.kept) \cup Chars(st.current) = UpTo(ps, k - 1)
  BY DEF PiecesSoFar, length
<1>5. PICK flushed : /\ flushed = Flush(st.kept, st.current) /\ AreChunks(flushed, length)
                     /\ Held(flushed) = UpTo(ps, k - 1)
  <2>1. length \in Int
    BY <1>2
  <2> QED BY <1>2, <1>4, <2>1, FlushIs
<1>6. UpTo(ps, k - 1) \subseteq Nat
  <2>1. flushed \in Seq(Text)
    BY <1>5 DEF AreChunks
  <2> QED BY <1>5, <2>1, CharsAreNumbers
<1>7. Chars(<<>>) = {} /\ Ascending(<<>>) /\ Len(<<>>) = 0
  BY DEF Chars, Ascending
<1>8. CASE Len(p) > size
  <2>1. new.kept = flushed \o Windows(p, size, overlap) /\ new.current = <<>>
    BY <1>2, <1>3, <1>5, <1>8 DEF Place
  <2>2. PICK ws : /\ ws = Windows(p, size, overlap) /\ AreChunks(ws, length) /\ Held(ws) = Chars(p)
    <3>1. AreChunks(Windows(p, size, overlap), size) /\ Held(Windows(p, size, overlap)) = Chars(p)
      BY <1>1, WindowsAreRight
    <3>2. size \in Int /\ length \in Int /\ size <= length
      BY DEF length
    <3> QED BY <3>1, <3>2, ShorterChunks
  <2>3. AreChunks(flushed \o ws, length) /\ Held(flushed \o ws) = Held(flushed) \cup Held(ws)
    <3>1. length \in Int /\ \A c \in Held(flushed), d \in Held(ws) : c < d
      BY <1>1, <1>2, <1>5, <2>2
    <3> QED BY <1>5, <2>2, <3>1, LaterChunks
  <2>4. Held(new.kept) \cup Chars(new.current) = UpTo(ps, k)
    BY <1>1, <1>5, <1>7, <2>1, <2>2, <2>3
  <2>5. /\ AreChunks(new.kept, length) /\ Ascending(new.current) /\ Len(new.current) <= length
        /\ Chars(new.current) = {}
    BY <1>2, <1>7, <2>1, <2>2, <2>3
  <2> QED BY <1>1, <1>3, <2>4, <2>5 DEF PiecesSoFar, length
<1>9. CASE Len(p) <= size /\ Len(Joined(st.current, <<0, 0>>, p)) <= size
  <2>1. PICK joined : joined = Joined(st.current, <<0, 0>>, p)
    OBVIOUS
  <2>2. new.kept = st.kept /\ new.current = joined
    BY <1>2, <1>3, <1>9, <2>1 DEF Place, Placing
  <2>3. Precedes(st.current, p)
    BY <1>1, <1>4 DEF Precedes
  <2>4. joined \in Text /\ Chars(joined) = Chars(st.current) \cup Chars(p) /\ Ascending(joined)
    BY <1>1, <1>2, <1>4, <2>1, <2>3, JoinedIs
  <2>5. Len(joined) <= length
    <3>1. Len(joined) \in Nat
      BY <2>4, LenProperties DEF Text
    <3> QED BY <1>9, <2>1, <3>1 DEF length
  <2>6. Reaches(joined, Held(st.kept))
    <3>1. Held(st.kept) \in SUBSET Nat /\ \A c \in Held(st.kept), d \in Chars(p) : c < d
      BY <1>1, <1>4, <1>6
    <3> QED BY <1>1, <2>4, <3>1, LaterReaches
  <2>7. Held(st.kept) \cup Chars(joined) = UpTo(ps, k)
    BY <1>1, <1>4, <2>4
  <2> QED BY <1>1, <1>3, <1>4, <2>2, <2>4, <2>5, <2>6, <2>7 DEF PiecesSoFar, length
<1>10. CASE Len(p) <= size /\ ~(Len(Joined(st.current, <<0, 0>>, p)) <= size)
  <2>1. PICK tail \in Text :
           /\ tail = Strip(Suffix(st.current, overlap)) /\ Len(tail) <= overlap
           /\ Chars(tail) \subseteq Chars(st.current) /\ Ascending(tail)
    <3>1. PICK suffix \in Text :
             /\ suffix = Suffix(st.current, overlap) /\ Len(suffix) <= overlap
             /\ Chars(suffix) \subseteq Chars(st.current) /\ Ascending(suffix)
      BY <1>2, <1>4, SuffixIs
    <3>2. /\ Strip(suffix) \in Text /\ Len(Strip(suffix)) <= Len(suffix)
          /\ Chars(Strip(suffix)) = Chars(suffix) /\ Ascending(Strip(suffix))
      BY <3>1, StripIs
    <3>3. Len(suffix) \in Nat /\ Len(Strip(suffix)) \in Nat
      BY <3>2, LenProperties DEF Text
    <3>4. Len(Strip(suffix)) <= overlap
      BY <3>1, <3>2, <3>3
    <3> QED BY <3>1, <3>2, <3>4
  <2>2. PICK joined : joined = Joined(tail, <<0, 0>>, p)
    OBVIOUS
  <2>3. new.kept = flushed /\ new.current = joined
    BY <1>2, <1>3, <1>5, <1>10, <2>1, <2>2 DEF Place
  <2>4. Precedes(tail, p)
    BY <1>1, <1>4, <2>1 DEF Precedes
  <2>5. /\ joined \in Text /\ Chars(joined) = Chars(tail) \cup Chars(p) /\ Ascending(joined)
        /\ Len(joined) <= Len(tail) + 2 + Len(p)
    BY <1>1, <2>1, <2>2, <2>4, JoinedIs
  <2>6. Len(joined) <= length
    <3>1. Len(joined) \in Nat /\ Len(tail) \in Nat
      BY <2>5, LenProperties DEF Text
    <3> QED BY <1>2, <1>10, <2>1, <2>5, <3>1 DEF length
  <2>7. Reaches(joined, Held(flushed))
    <3>1. Held(flushed) \in SUBSET Nat /\ \A c \in Held(flushed), d \in Chars(p) : c < d
      BY <1>1, <1>5, <1>6
    <3> QED BY <1>1, <2>5, <3>1, LaterReaches
  <2>8. Held(flushed) \cup Chars(joined) = UpTo(ps, k)
    BY <1>1, <1>4, <1>5, <2>1, <2>5
  <2> QED BY <1>1, <1>3, <1>5, <2>3, <2>5, <2>6, <2>7, <2>8 DEF PiecesSoFar, length
<1> QED BY <1>2, <1>8, <1>9, <1>10

\* The pieces of a section hold all its characters.
LEMMA PiecesAreRight ==
    ASSUME NEW lines, Follow(lines), NEW size \in Nat \ {0}, NEW overlap \in Nat
    PROVE  /\ AreChunks(Pieces(lines, size, overlap), size + overlap + 2)
           /\ Held(Pieces(lines, size, overlap)) = Held(lines)
<1>1. PICK ps : ps = Paragraphs(lines) /\ AreParagraphs(ps) /\ Held(ps) = Held(lines)
  BY ParagraphsAreRight
<1>2. Follow(ps) /\ \A k \in DOMAIN ps : Chars(ps[k]) # {}
  BY <1>1 DEF AreParagraphs, Follow
<1>3. PICK f \in [0..Len(ps) -> Placing] :
              /\ f[0] = [kept |-> <<>>, current |-> <<>>]
              /\ \A k \in 1..Len(ps) : f[k] = Place(f[k - 1], ps[k], size, overlap)
              /\ Pieces(lines, size, overlap) = Flush(f[Len(ps)].kept, f[Len(ps)].current)
  <2>1. ps \in Seq(Text) /\ size \in Nat /\ overlap \in Nat /\ ps = Paragraphs(lines)
    BY <1>1, <1>2 DEF Follow
  <2>2. PICK f : /\ Places(f, ps, size, overlap)
                 /\ Pieces(lines, size, overlap) = Flush(f[Len(ps)].kept, f[Len(ps)].current)
    BY <2>1, PiecesTrace, Zenon
  <2> QED BY <2>2, Zenon DEF Places
<1> DEFINE n == Len(ps)
           length == size + overlap + 2
           A == {k \in 0..n : PiecesSoFar(f[k], ps, k, length)}
<1>4. n \in Nat /\ UpTo(ps, 0) = {} /\ UpTo(ps, n) = Held(ps)
  BY <1>2, UpToIs
<1>5. length \in Nat /\ length >= 0
  OBVIOUS
<1>6. 0 \in A
  <2>1. f[0].kept = <<>> /\ f[0].current = <<>>
    BY <1>3
  <2>2. AreChunks(<<>>, length) /\ Held(<<>>) = {}
    BY NoChunks
  <2>3. Chars(<<>>) = {} /\ Ascending(<<>>) /\ Len(<<>>) = 0
    BY DEF Chars, Ascending
  <2> HIDE DEF length
  <2>4. PiecesSoFar(f[0], ps, 0, length)
    BY <1>4, <1>5, <2>1, <2>2, <2>3 DEF PiecesSoFar
  <2> QED BY <1>4, <2>4
<1>7. ASSUME NEW k \in 0..(n - 1), k \in A PROVE k + 1 \in A
  <2>1. k + 1 \in 1..n /\ (k + 1) - 1 = k /\ k \in 0..n /\ k + 1 \in 0..n
    BY <1>4
  <2>2. PICK st \in Placing : st = f[k] /\ PiecesSoFar(st, ps, (k + 1) - 1, length)
    BY <1>7, <2>1
  <2>3. f[k + 1] = Place(st, ps[k + 1], size, overlap)
    BY <1>3, <2>1, <2>2
  <2>4. PiecesSoFar(f[k + 1], ps, k + 1, length)
    BY <1>2, <2>1, <2>2, <2>3, PlaceIs
  <2> QED BY <2>1, <2>4
<1>8. n \in A
  <2>1. \A k \in 0..(n - 1) : k \in A => k + 1 \in A
    BY <1>7
  <2> HIDE DEF A, n
  <2>2. 0..n \subseteq A
    BY <1>4, <1>6, <2>1, Induction
  <2> QED BY <1>4, <2>2
<1>9. PICK st \in Placing : st = f[n] /\ PiecesSoFar(st, ps, n, length)
  BY <1>4, <1>8
<1>10. /\ AreChunks(Flush(st.kept, st.current), length)
       /\ Held(Flush(st.kept, st.current)) = Held(st.kept) \cup Chars(st.current)
  <2>1. st.current \in Text /\ length \in Int
    BY <1>5 DEF Placing
  <2> HIDE DEF length
  <2> QED BY <1>9, <2>1, FlushIs DEF PiecesSoFar
<1>11. Held(st.kept) \cup Chars(st.current) = Held(lines)
  BY <1>1, <1>4, <1>9 DEF PiecesSoFar
<1> QED
  BY <1>3, <1>9, <1>10, <1>11

-----------------------------------------------------------------------------
\* VaultText: the headings over a line ----------------------------------------------------

\* path is made of these lines of the note, in their order.
PathOf(path, H) ==
    \E at \in [DOMAIN path -> H] :
        /\ \A h \in H : \E n \in DOMAIN path : at[n] = h
        /\ \A n \in DOMAIN path : path[n] = body[at[n]]
        /\ \A m, n \in DOMAIN path : m < n => at[m] < at[n]

\* One more heading, below the others.
LEMMA LongerPath ==
    ASSUME NEW path \in Seq(BodyLine), NEW H \in SUBSET Nat, PathOf(path, H),
           NEW h \in Nat, \A g \in H : g < h, body[h] \in BodyLine
    PROVE  PathOf(Append(path, body[h]), H \cup {h})
<1>1. PICK at \in [DOMAIN path -> H] :
        /\ \A g \in H : \E n \in DOMAIN path : at[n] = g
        /\ \A n \in DOMAIN path : path[n] = body[at[n]]
        /\ \A m, n \in DOMAIN path : m < n => at[m] < at[n]
  BY DEF PathOf
<1>2. PICK p : p = Append(path, body[h])
  OBVIOUS
<1>3. PICK len \in Nat : len = Len(path) /\ DOMAIN path = 1..len
  BY LenProperties
<1>4. /\ DOMAIN p = 1..(len + 1) /\ p[len + 1] = body[h]
      /\ \A n \in 1..len : p[n] = path[n]
  <2>1. /\ p \in Seq(BodyLine) /\ Len(p) = len + 1 /\ p[len + 1] = body[h]
        /\ \A n \in 1..len : p[n] = path[n]
    BY <1>2, <1>3, AppendProperties
  <2> QED BY <2>1, LenProperties
<1>5. PICK new : new = [n \in 1..(len + 1) |-> IF n = len + 1 THEN h ELSE at[n]]
  OBVIOUS
<1>6. \A n \in 1..(len + 1) : n = len + 1 \/ n \in 1..len
  OBVIOUS
<1>7. new \in [DOMAIN p -> H \cup {h}]
  BY <1>1, <1>3, <1>4, <1>5, <1>6
<1>8. ASSUME NEW g \in H \cup {h} PROVE \E n \in DOMAIN p : new[n] = g
  <2>1. CASE g = h
    <3>1. len + 1 \in DOMAIN p
      BY <1>4
    <3> QED BY <1>4, <1>5, <2>1, <3>1
  <2>2. CASE g \in H
    <3>1. PICK n \in 1..len : at[n] = g
      BY <1>1, <1>3, <2>2
    <3>2. n \in DOMAIN p /\ n \in 1..(len + 1) /\ n # len + 1
      BY <1>4
    <3> QED BY <1>5, <3>1, <3>2
  <2> QED BY <2>1, <2>2
<1>9. ASSUME NEW n \in DOMAIN p PROVE p[n] = body[new[n]]
  <2>1. CASE n = len + 1
    BY <1>4, <1>5, <2>1
  <2>2. CASE n \in 1..len
    BY <1>1, <1>3, <1>4, <1>5, <2>2
  <2> QED BY <1>4, <1>6, <2>1, <2>2
<1>10. ASSUME NEW m \in DOMAIN p, NEW n \in DOMAIN p, m < n PROVE new[m] < new[n]
  <2>1. m \in 1..len
    BY <1>4, <1>10
  <2>2. new[m] = at[m] /\ at[m] \in H
    BY <1>1, <1>3, <1>5, <2>1
  <2>3. CASE n = len + 1
    BY <1>4, <1>5, <2>2, <2>3
  <2>4. CASE n \in 1..len
    BY <1>1, <1>3, <1>5, <1>10, <2>1, <2>2, <2>4
  <2> QED BY <1>4, <1>6, <2>3, <2>4
<1> QED BY <1>2, <1>7, <1>8, <1>9, <1>10 DEF PathOf

\* The headings that stay open are lines.
LEMMA AboveIsPath ==
    ASSUME NEW kept \in Seq(BodyLine), NEW h \in BodyLine, NEW level
    PROVE  Above(kept, h, level) \in Seq(BodyLine)
BY AppendProperties DEF Above

\* No heading stays open.
LEMMA NoHeading == <<>> \in Seq(BodyLine)
OBVIOUS

\* The headings that stay open, after each of those that were.
LEMMA AboveTrace ==
    ASSUME NEW stack \in Seq(BodyLine), NEW heading
    PROVE  \E f \in [0..Len(stack) -> Seq(BodyLine)] :
              /\ f[0] = <<>>
              /\ \A k \in 1..Len(stack) : f[k] = Above(f[k - 1], stack[k], heading.level)
              /\ Enclosing(stack, heading) = Append(f[Len(stack)], heading)
<1> DEFINE n == Len(stack)
           base == <<>>
           E(it) == it = [t \in SUBSET DOMAIN stack |->
                            IF t = {} THEN base
                            ELSE Above(it[t \ {Max(t)}], stack[Max(t)], heading.level)]
           it0 == CHOOSE it : E(it)
           step == [p \in Seq(BodyLine) \X (1..n) |-> Above(p[1], stack[p[2]], heading.level)]
<1>1. n \in Nat /\ DOMAIN stack = 1..n /\ \A k \in 1..n : stack[k] \in BodyLine
  BY LenProperties
<1>2. step \in [Seq(BodyLine) \X (1..n) -> Seq(BodyLine)] /\ base \in Seq(BodyLine)
  <2>1. \A a \in Seq(BodyLine), k \in 1..n : Above(a, stack[k], heading.level) \in Seq(BodyLine)
    BY <1>1, AboveIsPath, NoHeading
  <2>2. base \in Seq(BodyLine)
    BY AboveIsPath, NoHeading
  <2> QED BY <2>1, <2>2
<1>3. PICK it : IsFold(it, Seq(BodyLine), base, step, n)
  <2> HIDE DEF n, step, base
  <2>1. n \in Nat /\ base \in Seq(BodyLine)
    BY <1>1, <1>2
  <2> QED BY <2>1, <1>2, FoldsExist, Zenon
<1>4. \A t \in SUBSET (1..n) : t # {} => Max(t) \in 1..n /\ t \ {Max(t)} \in SUBSET (1..n)
  <2> HIDE DEF n
  <2> QED BY <1>1, MaxIs
<1>5. E(it0)
  <2>1. E(it)
    <3>1. \A t \in SUBSET (1..n) : t # {} => it[t \ {Max(t)}] \in Seq(BodyLine)
      BY <1>3, <1>4 DEF IsFold
    <3> QED BY <1>1, <1>3, <1>4, <3>1 DEF IsFold
  <2> HIDE DEF E
  <2> QED BY <2>1
<1>6. Enclosing(stack, heading) = Append(it0[DOMAIN stack], heading)
  BY DEF Enclosing, FoldLeft, MapThenFoldSet
<1>7. HasTrace(it0, Seq(BodyLine), base, step, n)
  <2>1. it0[{}] = base /\ \A t \in SUBSET (1..n) : t # {} =>
            it0[t] = Above(it0[t \ {Max(t)}], stack[Max(t)], heading.level)
    <3> HIDE DEF it0
    <3> QED BY <1>1, <1>5
  <2>2. \A t \in SUBSET (1..n) : t # {} /\ it0[t \ {Max(t)}] \in Seq(BodyLine) =>
            it0[t] = step[<<it0[t \ {Max(t)}], Max(t)>>]
    <3> HIDE DEF it0, E
    <3> QED BY <2>1, <1>4
  <2>3. n \in Nat /\ base \in Seq(BodyLine) /\ it0[{}] = base
    BY <1>1, <1>2, <2>1
  <2> HIDE DEF n, step, base, it0, E
  <2> QED BY <1>2, <2>2, <2>3, TracesExist, Zenon
<1>8. PICK f : IsTrace(f, Seq(BodyLine), base, step, n) /\ f[n] = it0[1..n]
  BY <1>7 DEF HasTrace
<1> HIDE DEF it0, E
<1>9. f \in [0..n -> Seq(BodyLine)] /\ f[0] = base /\ \A k \in 1..n : f[k] = Above(f[k - 1], stack[k], heading.level)
  <2>1. \A k \in 1..n : f[k] = step[<<f[k - 1], k>>] /\ f[k - 1] \in Seq(BodyLine)
    <3> HIDE DEF step, n
    <3> QED BY <1>1, <1>8 DEF IsTrace
  <2> QED BY <1>8, <2>1 DEF IsTrace
<1>10. Enclosing(stack, heading) = Append(f[n], heading)
  BY <1>1, <1>6, <1>8
<1> QED BY <1>9, <1>10

\* A heading closes those of its level and below, and comes under the others.
LEMMA EnclosingIs ==
    ASSUME NEW stack \in Seq(BodyLine), NEW j \in Nat, NEW H \in SUBSET Nat, PathOf(stack, H),
           \A h \in H : h < j /\ body[h] \in BodyLine, body[j] \in BodyLine
    PROVE  /\ Enclosing(stack, body[j]) \in Seq(BodyLine)
           /\ PathOf(Enclosing(stack, body[j]), {h \in H : body[h].level < body[j].level} \cup {j})
<1>1. PICK heading \in BodyLine : heading = body[j]
  OBVIOUS
<1>2. PICK f \in [0..Len(stack) -> Seq(BodyLine)] :
              /\ f[0] = <<>>
              /\ \A k \in 1..Len(stack) : f[k] = Above(f[k - 1], stack[k], heading.level)
              /\ Enclosing(stack, heading) = Append(f[Len(stack)], heading)
  BY AboveTrace
<1>3. PICK at \in [DOMAIN stack -> H] :
        /\ \A h \in H : \E n \in DOMAIN stack : at[n] = h
        /\ \A n \in DOMAIN stack : stack[n] = body[at[n]]
        /\ \A m, n \in DOMAIN stack : m < n => at[m] < at[n]
  BY DEF PathOf
<1> DEFINE n == Len(stack)
           Open(k) == {h \in {at[m] : m \in 1..k} : body[h].level < heading.level}
           A == {k \in 0..n : PathOf(f[k], Open(k))}
<1>4. n \in Nat /\ DOMAIN stack = 1..n
  BY LenProperties
<1>5. 0 \in A
  <2>1. Open(0) = {} /\ f[0] = <<>>
    BY <1>2
  <2>2. PathOf(<<>>, {})
    <3>1. DOMAIN (<<>>) = {}
      OBVIOUS
    <3>2. (<<>>) \in [DOMAIN (<<>>) -> {}]
      OBVIOUS
    <3> QED BY <3>1, <3>2 DEF PathOf
  <2>3. PathOf(f[0], Open(0))
    <3> HIDE DEF Open
    <3> QED BY <2>1, <2>2
  <2> QED BY <1>4, <2>3
<1>6. ASSUME NEW k \in 0..(n - 1), k \in A PROVE k + 1 \in A
  <2>1. k + 1 \in 1..n /\ (k + 1) - 1 = k /\ k \in 0..n /\ k + 1 \in 0..n /\ 1..(k + 1) = (1..k) \cup {k + 1}
    BY <1>4
  <2>2. PICK kept \in Seq(BodyLine) : kept = f[k] /\ PathOf(kept, Open(k))
    BY <1>6, <2>1
  <2>3. PICK h \in H : h = at[k + 1] /\ stack[k + 1] = body[h] /\ \A m \in 1..k : at[m] < h
    <3>1. \A m \in 1..k : m \in DOMAIN stack /\ m < k + 1
      BY <1>4, <2>1
    <3> QED BY <1>3, <1>4, <2>1, <3>1
  <2>4. f[k + 1] = Above(kept, body[h], heading.level)
    BY <1>2, <2>1, <2>2, <2>3
  <2>5. CASE body[h].level < heading.level
    <3>1. f[k + 1] = Append(kept, body[h])
      BY <2>4, <2>5 DEF Above
    <3>2. Open(k + 1) = Open(k) \cup {h}
      BY <2>1, <2>3, <2>5
    <3>3. Open(k) \in SUBSET Nat /\ \A g \in Open(k) : g < h
      <4>0. \A m \in 1..k : m \in DOMAIN stack
        BY <1>4, <2>1
      <4>1. \A m \in 1..k : at[m] \in H
        BY <1>3, <4>0
      <4> QED BY <2>3, <4>1
    <3>4. h \in Nat /\ body[h] \in BodyLine
      OBVIOUS
    <3> HIDE DEF Open
    <3>5. PathOf(Append(kept, body[h]), Open(k) \cup {h})
      BY <2>2, <3>3, <3>4, LongerPath
    <3> QED BY <2>1, <3>1, <3>2, <3>5
  <2>6. CASE ~(body[h].level < heading.level)
    <3>1. f[k + 1] = kept
      BY <2>4, <2>6 DEF Above
    <3>2. Open(k + 1) = Open(k)
      BY <2>1, <2>3, <2>6
    <3> HIDE DEF Open
    <3> QED BY <2>1, <2>2, <3>1, <3>2
  <2> QED BY <2>5, <2>6
<1>7. n \in A
  <2>1. \A k \in 0..(n - 1) : k \in A => k + 1 \in A
    BY <1>6
  <2> HIDE DEF A, n
  <2>2. 0..n \subseteq A
    BY <1>4, <1>5, <2>1, Induction
  <2> QED BY <1>4, <2>2
<1>8. Open(n) = {h \in H : body[h].level < heading.level}
  BY <1>3, <1>4
<1>9. PICK kept \in Seq(BodyLine) : kept = f[n] /\ PathOf(kept, {h \in H : body[h].level < heading.level})
  BY <1>4, <1>7, <1>8
<1>10. PathOf(Append(kept, body[j]), {h \in H : body[h].level < heading.level} \cup {j})
  <2>1. PICK G : G = {h \in H : body[h].level < heading.level}
    OBVIOUS
  <2>2. G \in SUBSET Nat /\ PathOf(kept, G) /\ \A g \in G : g < j
    BY <1>9, <2>1
  <2>3. PathOf(Append(kept, body[j]), G \cup {j})
    BY <2>2, LongerPath
  <2> QED BY <2>1, <2>3
<1>11. Enclosing(stack, body[j]) = Append(kept, body[j])
  BY <1>1, <1>2, <1>9
<1>12. Append(kept, body[j]) \in Seq(BodyLine)
  BY <1>9, AppendProperties
<1> QED BY <1>1, <1>10, <1>11, <1>12

\* How the headings over a line follow from those over the line before.
LEMMA OverIs ==
    ASSUME body \in Seq(BodyLine), NEW i \in 0..(Len(body) - 1)
    PROVE  /\ Over(i) \subseteq 1..i
           /\ body[i + 1].level = 0 => Over(i + 1) = Over(i)
           /\ body[i + 1].level # 0 =>
                 Over(i + 1) = {h \in Over(i) : body[h].level < body[i + 1].level} \cup {i + 1}
<1>1. Len(body) \in Nat /\ \A k \in 1..Len(body) : body[k] \in BodyLine
  BY LenProperties
<1>2. i \in Nat /\ i + 1 \in 1..Len(body) /\ \A k \in 1..(i + 1) : body[k].level \in Nat
  <2>1. i \in Nat /\ \A k \in 1..(i + 1) : k \in 1..Len(body)
    BY <1>1
  <2> QED BY <1>1, <2>1 DEF BodyLine
<1>3. \A h \in 1..i : (h + 1)..(i + 1) = ((h + 1)..i) \cup {i + 1}
  BY <1>2
<1>4. /\ 1..(i + 1) = (1..i) \cup {i + 1} /\ (i + 2)..(i + 1) = {} /\ (i + 1) + 1 = i + 2
      /\ i + 1 \notin 1..i
  BY <1>2
<1>5. CASE body[i + 1].level = 0
  <2>1. ASSUME NEW h PROVE h \in Over(i + 1) <=> h \in Over(i)
    <3>1. CASE h \in 1..i
      BY <1>2, <1>3, <1>4, <1>5, <3>1 DEF Over
    <3>2. CASE h \notin 1..i
      BY <1>2, <1>4, <1>5, <3>2 DEF Over
    <3> QED BY <3>1, <3>2
  <2> QED BY <1>5, <2>1 DEF Over
<1>6. CASE body[i + 1].level # 0
  <2>1. ASSUME NEW h
        PROVE  h \in Over(i + 1) <=>
                 h \in {g \in Over(i) : body[g].level < body[i + 1].level} \cup {i + 1}
    <3>1. CASE h \in 1..i
      <4>1. h \in Over(i + 1) <=> h \in Over(i) /\ body[i + 1].level > body[h].level
        BY <1>2, <1>3, <1>4, <1>6, <3>1 DEF Over
      <4>2. body[h].level \in Nat /\ body[i + 1].level \in Nat
        BY <1>2, <1>4, <3>1
      <4> QED BY <1>4, <3>1, <4>1, <4>2
    <3>2. CASE h = i + 1
      <4>1. body[i + 1].level > 0
        BY <1>2, <1>4, <1>6
      <4>2. h \in Over(i + 1)
        BY <1>4, <3>2, <4>1 DEF Over
      <4> QED BY <3>2, <4>2
    <3>3. CASE h \notin 1..(i + 1)
      BY <1>4, <3>3 DEF Over
    <3> QED BY <1>4, <3>1, <3>2, <3>3
  <2> QED BY <1>6, <2>1 DEF Over
<1> QED BY <1>5, <1>6 DEF Over

-----------------------------------------------------------------------------
\* VaultText: the sections of a note ------------------------------------------------------

NoteSection == [path : Seq(BodyLine), lines : Seq(Text)]

Scanning == [stack : Seq(BodyLine), lines : Seq(Text), sections : Seq(NoteSection)]

\* The texts of the note's lines.
BodyTexts == [i \in DOMAIN body |-> body[i].text]

\* Its characters are in order.
BodyIsFine == body \in Seq(BodyLine) /\ Follow(BodyTexts)

\* The headings over a heading are lines.
LEMMA EnclosingIsPath ==
    ASSUME NEW stack \in Seq(BodyLine), NEW heading \in BodyLine
    PROVE  Enclosing(stack, heading) \in Seq(BodyLine)
<1>1. PICK f \in [0..Len(stack) -> Seq(BodyLine)] :
              Enclosing(stack, heading) = Append(f[Len(stack)], heading)
  BY AboveTrace
<1>2. Len(stack) \in 0..Len(stack)
  BY LenProperties
<1>3. f[Len(stack)] \in Seq(BodyLine)
  BY <1>2
<1> QED BY <1>1, <1>3, AppendProperties

\* Closing a section leaves sections.
LEMMA ClosedIsSections ==
    ASSUME NEW st \in Scanning
    PROVE  Closed(st) \in Seq(NoteSection)
<1>1. st.sections \in Seq(NoteSection) /\ st.lines \in Seq(Text) /\ st.stack \in Seq(BodyLine)
  BY DEF Scanning
<1>2. [path |-> st.stack, lines |-> st.lines] \in NoteSection
  BY <1>1 DEF NoteSection
<1> QED BY <1>1, <1>2, AppendProperties DEF Closed

\* A line more leaves sections.
LEMMA ReadLineIsScanning ==
    ASSUME NEW st \in Scanning, NEW line \in BodyLine
    PROVE  ReadLine(st, line) \in Scanning
<1>1. st.sections \in Seq(NoteSection) /\ st.lines \in Seq(Text) /\ st.stack \in Seq(BodyLine)
  BY DEF Scanning
<1>2. line.text \in Text
  BY DEF BodyLine, Text
<1>3. CASE line.level = 0
  <2>1. Append(st.lines, line.text) \in Seq(Text)
    BY <1>1, <1>2, AppendProperties
  <2>2. ReadLine(st, line) = [st EXCEPT !.lines = Append(st.lines, line.text)]
    BY <1>3 DEF ReadLine
  <2> QED BY <2>1, <2>2 DEF Scanning
<1>4. CASE line.level # 0
  <2>1. ReadLine(st, line) =
           [stack |-> Enclosing(st.stack, line), lines |-> <<line.text>>, sections |-> Closed(st)]
    BY <1>4 DEF ReadLine
  <2>2. Enclosing(st.stack, line) \in Seq(BodyLine) /\ Closed(st) \in Seq(NoteSection)
    BY <1>1, EnclosingIsPath, ClosedIsSections
  <2>3. <<line.text>> \in Seq(Text)
    BY <1>2
  <2> QED BY <2>1, <2>2, <2>3 DEF Scanning
<1> QED BY <1>3, <1>4

\* No line is read.
LEMMA NoSection == [stack |-> <<>>, lines |-> <<>>, sections |-> <<>>] \in Scanning
BY DEF Scanning

\* The sections after each line.
LEMMA SectionsTrace ==
    ASSUME NEW note \in Seq(BodyLine)
    PROVE  \E f \in [0..Len(note) -> Scanning] :
              /\ f[0] = [stack |-> <<>>, lines |-> <<>>, sections |-> <<>>]
              /\ \A k \in 1..Len(note) : f[k] = ReadLine(f[k - 1], note[k])
              /\ Sections(note) = Closed(f[Len(note)])
<1> DEFINE n == Len(note)
           base == [stack |-> <<>>, lines |-> <<>>, sections |-> <<>>]
           E(it) == it = [t \in SUBSET DOMAIN note |->
                            IF t = {} THEN base
                            ELSE ReadLine(it[t \ {Max(t)}], note[Max(t)])]
           it0 == CHOOSE it : E(it)
           step == [p \in Scanning \X (1..n) |-> ReadLine(p[1], note[p[2]])]
<1>1. n \in Nat /\ DOMAIN note = 1..n /\ \A k \in 1..n : note[k] \in BodyLine
  BY LenProperties
<1>2. step \in [Scanning \X (1..n) -> Scanning] /\ base \in Scanning
  <2>1. \A a \in Scanning, k \in 1..n : ReadLine(a, note[k]) \in Scanning
    BY <1>1, ReadLineIsScanning, NoSection
  <2>2. base \in Scanning
    BY ReadLineIsScanning, NoSection
  <2> QED BY <2>1, <2>2
<1>3. PICK it : IsFold(it, Scanning, base, step, n)
  <2> HIDE DEF n, step, base
  <2>1. n \in Nat /\ base \in Scanning
    BY <1>1, <1>2
  <2> QED BY <2>1, <1>2, FoldsExist, Zenon
<1>4. \A t \in SUBSET (1..n) : t # {} => Max(t) \in 1..n /\ t \ {Max(t)} \in SUBSET (1..n)
  <2> HIDE DEF n
  <2> QED BY <1>1, MaxIs
<1>5. E(it0)
  <2>1. E(it)
    <3>1. \A t \in SUBSET (1..n) : t # {} => it[t \ {Max(t)}] \in Scanning
      BY <1>3, <1>4 DEF IsFold
    <3> QED BY <1>1, <1>3, <1>4, <3>1 DEF IsFold
  <2> HIDE DEF E
  <2> QED BY <2>1
<1>6. Sections(note) = Closed(it0[DOMAIN note])
  BY DEF Sections, FoldLeft, MapThenFoldSet
<1>7. HasTrace(it0, Scanning, base, step, n)
  <2>1. it0[{}] = base /\ \A t \in SUBSET (1..n) : t # {} =>
            it0[t] = ReadLine(it0[t \ {Max(t)}], note[Max(t)])
    <3> HIDE DEF it0
    <3> QED BY <1>1, <1>5
  <2>2. \A t \in SUBSET (1..n) : t # {} /\ it0[t \ {Max(t)}] \in Scanning =>
            it0[t] = step[<<it0[t \ {Max(t)}], Max(t)>>]
    <3> HIDE DEF it0, E
    <3> QED BY <2>1, <1>4
  <2>3. n \in Nat /\ base \in Scanning /\ it0[{}] = base
    BY <1>1, <1>2, <2>1
  <2> HIDE DEF n, step, base, it0, E
  <2> QED BY <1>2, <2>2, <2>3, TracesExist, Zenon
<1>8. PICK f : IsTrace(f, Scanning, base, step, n) /\ f[n] = it0[1..n]
  BY <1>7 DEF HasTrace
<1> HIDE DEF it0, E
<1>9. f \in [0..n -> Scanning] /\ f[0] = base /\ \A k \in 1..n : f[k] = ReadLine(f[k - 1], note[k])
  <2>1. \A k \in 1..n : f[k] = step[<<f[k - 1], k>>] /\ f[k - 1] \in Scanning
    <3> HIDE DEF step, n
    <3> QED BY <1>1, <1>8 DEF IsTrace
  <2> QED BY <1>8, <2>1 DEF IsTrace
<1>10. Sections(note) = Closed(f[n])
  BY <1>1, <1>6, <1>8
<1> QED BY <1>9, <1>10

\* All characters of some sections.
Contents(ss) == UNION {Held(ss[m].lines) : m \in DOMAIN ss}

\* A section's lines are among the first k of the note, under these headings.
IsUnder(path, lines, k) ==
    \A c \in Held(lines) : \E i \in 1..k : c \in Chars(body[i].text) /\ PathOf(path, Over(i))

\* Sections among the first k lines.
AreSections(ss, k) ==
    /\ ss \in Seq(NoteSection)
    /\ \A m \in DOMAIN ss : Follow(ss[m].lines) /\ IsUnder(ss[m].path, ss[m].lines, k)
    /\ \A m, n \in DOMAIN ss : m < n =>
          \A c \in Held(ss[m].lines), d \in Held(ss[n].lines) : c < d

\* They are among more lines.
LEMMA MoreLines ==
    ASSUME NEW k \in Nat
    PROVE  /\ \A path, lines : IsUnder(path, lines, k) => IsUnder(path, lines, k + 1)
           /\ \A ss : AreSections(ss, k) => AreSections(ss, k + 1)
<1>1. ASSUME NEW path, NEW lines, IsUnder(path, lines, k) PROVE IsUnder(path, lines, k + 1)
  <2>1. \A i \in 1..k : i \in 1..(k + 1)
    OBVIOUS
  <2> QED BY <1>1, <2>1 DEF IsUnder
<1>2. ASSUME NEW ss, AreSections(ss, k) PROVE AreSections(ss, k + 1)
  BY <1>1, <1>2 DEF AreSections
<1> QED BY <1>1, <1>2

\* One section more.
LEMMA AddSection ==
    ASSUME NEW k \in Nat, NEW ss, AreSections(ss, k), NEW s \in NoteSection,
           Follow(s.lines), IsUnder(s.path, s.lines, k),
           \A c \in Contents(ss), d \in Held(s.lines) : c < d
    PROVE  /\ AreSections(Append(ss, s), k)
           /\ Contents(Append(ss, s)) = Contents(ss) \cup Held(s.lines)
<1>1. PICK as : as = Append(ss, s)
  OBVIOUS
<1>2. PICK len \in Nat : len = Len(ss) /\ DOMAIN ss = 1..len /\ ss \in Seq(NoteSection)
  BY LenProperties DEF AreSections
<1>3. /\ as \in Seq(NoteSection) /\ DOMAIN as = 1..(len + 1) /\ as[len + 1] = s
      /\ \A m \in 1..len : as[m] = ss[m]
  <2>1. /\ as \in Seq(NoteSection) /\ Len(as) = len + 1 /\ as[len + 1] = s
        /\ \A m \in 1..len : as[m] = ss[m]
    BY <1>1, <1>2, AppendProperties
  <2> QED BY <2>1, LenProperties
<1>4. 1..(len + 1) = (1..len) \cup {len + 1}
  OBVIOUS
<1>5. \A m \in DOMAIN as : Follow(as[m].lines) /\ IsUnder(as[m].path, as[m].lines, k)
  BY <1>2, <1>3, <1>4 DEF AreSections
<1>6. ASSUME NEW m \in DOMAIN as, NEW n \in DOMAIN as, m < n
      PROVE  \A c \in Held(as[m].lines), d \in Held(as[n].lines) : c < d
  <2>1. m \in 1..len
    BY <1>3, <1>6
  <2>2. CASE n \in 1..len
    BY <1>2, <1>3, <1>6, <2>1, <2>2 DEF AreSections
  <2>3. CASE n = len + 1
    <3>1. Held(as[m].lines) \subseteq Contents(ss)
      BY <1>2, <1>3, <2>1 DEF Contents
    <3> QED BY <1>3, <2>3, <3>1
  <2> QED BY <1>3, <1>4, <2>2, <2>3
<1>7. Contents(as) = Contents(ss) \cup Held(s.lines)
  <2>1. /\ \A m \in DOMAIN ss : m \in DOMAIN as /\ as[m] = ss[m]
        /\ len + 1 \in DOMAIN as
        /\ \A m \in DOMAIN as : (m \in DOMAIN ss /\ as[m] = ss[m]) \/ as[m] = s
    BY <1>2, <1>3, <1>4
  <2>2. \A x \in Contents(ss) : x \in Contents(as)
    BY <2>1 DEF Contents
  <2>3. \A x \in Held(s.lines) : x \in Contents(as)
    BY <1>3, <2>1 DEF Contents
  <2>4. \A x \in Contents(as) : x \in Contents(ss) \/ x \in Held(s.lines)
    BY <2>1 DEF Contents
  <2> QED BY <2>2, <2>3, <2>4
<1> QED BY <1>1, <1>3, <1>5, <1>6, <1>7 DEF AreSections

\* One line more that follows.
LEMMA AddLine ==
    ASSUME NEW ss, Follow(ss), NEW s \in Text, Ascending(s),
           \A c \in Held(ss), d \in Chars(s) : c < d
    PROVE  Follow(Append(ss, s)) /\ Held(Append(ss, s)) = Held(ss) \cup Chars(s)
<1>1. PICK as : as = Append(ss, s)
  OBVIOUS
<1>2. ss \in Seq(Text)
  BY DEF Follow
<1>3. /\ as \in Seq(Text)
      /\ DOMAIN as = DOMAIN ss \cup {Len(ss) + 1}
      /\ Len(ss) \in Nat /\ DOMAIN ss = 1..Len(ss)
      /\ as[Len(ss) + 1] = s
      /\ \A k \in DOMAIN ss : as[k] = ss[k]
      /\ Held(as) = Held(ss) \cup Chars(s)
  BY <1>1, <1>2, OneMore
<1>4. \A k \in DOMAIN as : Ascending(as[k])
  BY <1>3 DEF Follow
<1>5. ASSUME NEW k \in DOMAIN as, NEW l \in DOMAIN as, k < l PROVE Precedes(as[k], as[l])
  <2>1. k \in DOMAIN ss
    BY <1>3, <1>5
  <2>2. CASE l \in DOMAIN ss
    BY <1>3, <1>5, <2>1, <2>2 DEF Follow
  <2>3. CASE l = Len(ss) + 1
    <3>1. Chars(as[k]) \subseteq Held(ss)
      BY <1>3, <2>1 DEF Held
    <3> QED BY <1>3, <2>3, <3>1 DEF Precedes
  <2> QED BY <1>3, <2>2, <2>3
<1> QED BY <1>1, <1>3, <1>4, <1>5 DEF Follow

\* After k lines: the sections that are closed, and the one that is open.
SectionsSoFar(st, k) ==
    /\ PathOf(st.stack, Over(k))
    /\ Follow(st.lines) /\ IsUnder(st.stack, st.lines, k)
    /\ AreSections(st.sections, k)
    /\ \A c \in Contents(st.sections), d \in Held(st.lines) : c < d
    /\ Contents(st.sections) \cup Held(st.lines) = UpTo(BodyTexts, k)

\* Closing the open one.
LEMMA ClosedIs ==
    ASSUME NEW st \in Scanning, NEW k \in Nat, SectionsSoFar(st, k)
    PROVE  AreSections(Closed(st), k) /\ Contents(Closed(st)) = UpTo(BodyTexts, k)
<1>1. CASE st.lines = <<>>
  <2>1. Closed(st) = st.sections
    BY <1>1 DEF Closed
  <2>2. Held(st.lines) = {}
    BY <1>1, NoChunks
  <2> QED BY <2>1, <2>2 DEF SectionsSoFar
<1>2. CASE st.lines # <<>>
  <2>1. PICK s : s = [path |-> st.stack, lines |-> st.lines]
    OBVIOUS
  <2>2. s \in NoteSection /\ s.path = st.stack /\ s.lines = st.lines
    BY <2>1 DEF Scanning, NoteSection
  <2>3. /\ AreSections(Append(st.sections, s), k)
        /\ Contents(Append(st.sections, s)) = Contents(st.sections) \cup Held(s.lines)
    BY <2>2, AddSection DEF SectionsSoFar
  <2>4. Closed(st) = Append(st.sections, s)
    BY <1>2, <2>1 DEF Closed
  <2> QED BY <2>2, <2>3, <2>4 DEF SectionsSoFar
<1> QED BY <1>1, <1>2

\* One line more.
LEMMA ReadLineIs ==
    ASSUME BodyIsFine, NEW k \in 0..(Len(body) - 1), NEW st \in Scanning, SectionsSoFar(st, k)
    PROVE  SectionsSoFar(ReadLine(st, body[k + 1]), k + 1)
<1>1. /\ Len(body) \in Nat /\ DOMAIN body = 1..Len(body) /\ body \in Seq(BodyLine)
      /\ \A i \in 1..Len(body) : body[i] \in BodyLine
  BY LenProperties DEF BodyIsFine
<1>2. k \in Nat /\ k + 1 \in 1..Len(body) /\ (k + 1) - 1 = k
  BY <1>1
<1>3. PICK line \in BodyLine : line = body[k + 1]
  BY <1>1, <1>2
<1>4. line.text \in Text /\ line.level \in Nat
  BY DEF BodyLine, Text
<1>5. /\ Ascending(line.text) /\ UpTo(BodyTexts, k + 1) = UpTo(BodyTexts, k) \cup Chars(line.text)
      /\ \A c \in UpTo(BodyTexts, k), d \in Chars(line.text) : c < d
  <2>1. Follow(BodyTexts) /\ DOMAIN BodyTexts = 1..Len(body) /\ BodyTexts[k + 1] = line.text
    BY <1>1, <1>2, <1>3 DEF BodyIsFine, BodyTexts
  <2>2. Len(BodyTexts) = Len(body)
    BY <1>1 DEF BodyTexts
  <2>3. k + 1 \in 1..Len(BodyTexts)
    BY <1>2, <2>2
  <2>4. /\ Ascending(BodyTexts[k + 1])
        /\ UpTo(BodyTexts, k + 1) = UpTo(BodyTexts, (k + 1) - 1) \cup Chars(BodyTexts[k + 1])
        /\ \A c \in UpTo(BodyTexts, (k + 1) - 1), d \in Chars(BodyTexts[k + 1]) : c < d
    BY <2>1, <2>3, UpToIs
  <2> QED BY <1>2, <2>1, <2>4
<1>6. /\ st.stack \in Seq(BodyLine) /\ st.lines \in Seq(Text) /\ st.sections \in Seq(NoteSection)
  BY DEF Scanning
<1>7. PICK new : new = ReadLine(st, line)
  OBVIOUS
<1>8. CASE line.level = 0
  <2>1. PICK lines : lines = Append(st.lines, line.text)
    OBVIOUS
  <2>2. new.stack = st.stack /\ new.sections = st.sections /\ new.lines = lines
    BY <1>7, <1>8, <2>1 DEF ReadLine, Scanning
  <2>3. Over(k + 1) = Over(k)
    BY <1>1, <1>3, <1>8, OverIs
  <2>4. \A c \in Held(st.lines) \cup Contents(st.sections), d \in Chars(line.text) : c < d
    BY <1>5 DEF SectionsSoFar
  <2>5. Follow(lines) /\ Held(lines) = Held(st.lines) \cup Chars(line.text)
    BY <1>4, <1>5, <2>1, <2>4, AddLine DEF SectionsSoFar
  <2>6. IsUnder(st.stack, lines, k + 1)
    <3>1. IsUnder(st.stack, st.lines, k + 1)
      BY <1>2, MoreLines DEF SectionsSoFar
    <3>2. PathOf(st.stack, Over(k + 1))
      BY <2>3 DEF SectionsSoFar
    <3>3. k + 1 \in 1..(k + 1)
      BY <1>2
    <3>4. \A c \in Chars(line.text) : c \in Chars(body[k + 1].text)
      BY <1>3
    <3> QED BY <2>5, <3>1, <3>2, <3>3, <3>4 DEF IsUnder
  <2>7. AreSections(st.sections, k + 1)
    BY <1>2, MoreLines DEF SectionsSoFar
  <2>8. \A c \in Contents(st.sections), d \in Held(lines) : c < d
    BY <2>4, <2>5 DEF SectionsSoFar
  <2>9. Contents(st.sections) \cup Held(lines) = UpTo(BodyTexts, k + 1)
    BY <1>5, <2>5 DEF SectionsSoFar
  <2>10. PathOf(st.stack, Over(k + 1))
    BY <2>3 DEF SectionsSoFar
  <2> QED BY <1>3, <1>7, <2>2, <2>5, <2>6, <2>7, <2>8, <2>9, <2>10 DEF SectionsSoFar
<1>9. CASE line.level # 0
  <2>1. PICK stack, sections : stack = Enclosing(st.stack, line) /\ sections = Closed(st)
    OBVIOUS
  <2>2. new.stack = stack /\ new.sections = sections /\ new.lines = <<line.text>>
    BY <1>7, <1>9, <2>1 DEF ReadLine
  <2>3. PathOf(stack, Over(k + 1))
    <3>1. Over(k + 1) = {h \in Over(k) : body[h].level < body[k + 1].level} \cup {k + 1}
      BY <1>1, <1>3, <1>9, OverIs
    <3>2. PICK H : H = Over(k)
      OBVIOUS
    <3>3. H \subseteq 1..k
      BY <1>1, <3>2, OverIs
    <3>4. H \in SUBSET Nat /\ \A h \in H : h < k + 1 /\ body[h] \in BodyLine
      BY <1>1, <1>2, <3>3
    <3>5. PathOf(st.stack, H) /\ k + 1 \in Nat /\ body[k + 1] \in BodyLine
      BY <1>2, <1>3, <3>2 DEF SectionsSoFar
    <3>6. PathOf(Enclosing(st.stack, body[k + 1]), {h \in H : body[h].level < body[k + 1].level} \cup {k + 1})
      BY <1>6, <3>4, <3>5, EnclosingIs
    <3> QED BY <1>3, <2>1, <3>1, <3>2, <3>6
  <2>4. AreSections(sections, k + 1) /\ Contents(sections) = UpTo(BodyTexts, k)
    BY <1>2, <2>1, ClosedIs, MoreLines
  <2>5. Follow(<<line.text>>) /\ Held(<<line.text>>) = Chars(line.text)
    <3>1. Follow(<<>>) /\ Held(<<>>) = {}
      <4>1. <<>> \in Seq(Text) /\ DOMAIN (<<>>) = {}
        OBVIOUS
      <4> QED BY <4>1, NoChunks DEF Follow
    <3>2. Append(<<>>, line.text) = <<line.text>>
      OBVIOUS
    <3>3. Follow(Append(<<>>, line.text)) /\ Held(Append(<<>>, line.text)) = Held(<<>>) \cup Chars(line.text)
      <4>1. PICK empty : empty = <<>> /\ Follow(empty) /\ Held(empty) = {}
        BY <3>1
      <4>2. Follow(Append(empty, line.text)) /\ Held(Append(empty, line.text)) = Held(empty) \cup Chars(line.text)
        BY <1>4, <1>5, <4>1, AddLine
      <4> QED BY <4>1, <4>2
    <3> QED BY <3>1, <3>2, <3>3
  <2>6. IsUnder(stack, <<line.text>>, k + 1)
    <3>1. k + 1 \in 1..(k + 1)
      BY <1>2
    <3>2. \A c \in Chars(line.text) : c \in Chars(body[k + 1].text)
      BY <1>3
    <3> QED BY <2>3, <2>5, <3>1, <3>2 DEF IsUnder
  <2>7. \A c \in Contents(sections), d \in Held(<<line.text>>) : c < d
    BY <1>5, <2>4, <2>5
  <2>8. Contents(sections) \cup Held(<<line.text>>) = UpTo(BodyTexts, k + 1)
    BY <1>5, <2>4, <2>5
  <2> QED BY <1>3, <1>7, <2>2, <2>3, <2>4, <2>5, <2>6, <2>7, <2>8 DEF SectionsSoFar
<1> QED BY <1>8, <1>9

\* The sections of a note have all its characters, each under its headings.
LEMMA SectionsAreRight ==
    ASSUME BodyIsFine
    PROVE  /\ AreSections(Sections(body), Len(body))
           /\ Contents(Sections(body)) = UpTo(BodyTexts, Len(body))
<1>1. PICK f \in [0..Len(body) -> Scanning] :
              /\ f[0] = [stack |-> <<>>, lines |-> <<>>, sections |-> <<>>]
              /\ \A k \in 1..Len(body) : f[k] = ReadLine(f[k - 1], body[k])
              /\ Sections(body) = Closed(f[Len(body)])
  BY SectionsTrace DEF BodyIsFine
<1> DEFINE n == Len(body)
           A == {k \in 0..n : SectionsSoFar(f[k], k)}
<1>2. n \in Nat
  BY LenProperties DEF BodyIsFine
<1>3. 0 \in A
  <2>1. f[0].stack = <<>> /\ f[0].lines = <<>> /\ f[0].sections = <<>>
    BY <1>1
  <2>2. Over(0) = {}
    BY DEF Over
  <2>3. PathOf(<<>>, {})
    <3>1. DOMAIN (<<>>) = {} /\ (<<>>) \in [DOMAIN (<<>>) -> {}]
      OBVIOUS
    <3> QED BY <3>1 DEF PathOf
  <2>4. Follow(<<>>) /\ Held(<<>>) = {} /\ UpTo(BodyTexts, 0) = {}
    <3>1. <<>> \in Seq(Text) /\ DOMAIN (<<>>) = {} /\ 1..0 = {}
      OBVIOUS
    <3> QED BY <3>1, NoChunks DEF Follow, UpTo
  <2>5. AreSections(<<>>, 0) /\ Contents(<<>>) = {} /\ IsUnder(<<>>, <<>>, 0)
    <3>1. <<>> \in Seq(NoteSection) /\ DOMAIN (<<>>) = {}
      OBVIOUS
    <3> QED BY <2>4, <3>1 DEF AreSections, Contents, IsUnder
  <2>6. SectionsSoFar(f[0], 0)
    BY <2>1, <2>2, <2>3, <2>4, <2>5 DEF SectionsSoFar
  <2> QED BY <1>2, <2>6
<1>4. ASSUME NEW k \in 0..(n - 1), k \in A PROVE k + 1 \in A
  <2>1. k + 1 \in 1..n /\ (k + 1) - 1 = k /\ k \in 0..n /\ k + 1 \in 0..n
    BY <1>2
  <2>2. PICK st \in Scanning : st = f[k] /\ SectionsSoFar(st, k)
    BY <1>4, <2>1
  <2>3. f[k + 1] = ReadLine(st, body[k + 1])
    BY <1>1, <2>1, <2>2
  <2>4. SectionsSoFar(f[k + 1], k + 1)
    BY <2>2, <2>3, ReadLineIs
  <2> QED BY <2>1, <2>4
<1>5. n \in A
  <2>1. \A k \in 0..(n - 1) : k \in A => k + 1 \in A
    BY <1>4
  <2> HIDE DEF A, n
  <2>2. 0..n \subseteq A
    BY <1>2, <1>3, <2>1, Induction
  <2> QED BY <1>2, <2>2
<1>6. PICK st \in Scanning : st = f[n] /\ SectionsSoFar(st, n)
  BY <1>2, <1>5
<1>7. AreSections(Closed(st), n) /\ Contents(Closed(st)) = UpTo(BodyTexts, n)
  BY <1>2, <1>6, ClosedIs
<1> QED BY <1>1, <1>6, <1>7

-----------------------------------------------------------------------------
\* VaultText: the chunks of a note --------------------------------------------------------

NoteChunk == [path : Seq(BodyLine), content : Text]

\* The contents of chunks.
ContentOf(cs) == [k \in DOMAIN cs |-> cs[k].content]

\* Chunks under their headings.
AreUnder(cs) ==
    \A k \in DOMAIN cs : \A c \in Chars(cs[k].content) :
        \E i \in DOMAIN body : c \in Chars(body[i].text) /\ PathOf(cs[k].path, Over(i))

\* Chunks, and the contents of them.
LEMMA ContentIs ==
    ASSUME NEW cs \in Seq(NoteChunk)
    PROVE  /\ Len(cs) \in Nat /\ DOMAIN cs = 1..Len(cs)
           /\ ContentOf(cs) \in Seq(Text) /\ Len(ContentOf(cs)) = Len(cs)
           /\ DOMAIN ContentOf(cs) = 1..Len(cs)
           /\ \A k \in 1..Len(cs) : ContentOf(cs)[k] = cs[k].content
<1>1. Len(cs) \in Nat /\ DOMAIN cs = 1..Len(cs) /\ \A k \in 1..Len(cs) : cs[k] \in NoteChunk
  BY LenProperties
<1>2. \A k \in 1..Len(cs) : cs[k].content \in Text
  BY <1>1 DEF NoteChunk
<1> QED BY <1>1, <1>2 DEF ContentOf

\* The contents of chunks and later ones.
LEMMA ContentConcat ==
    ASSUME NEW a \in Seq(NoteChunk), NEW b \in Seq(NoteChunk)
    PROVE  /\ ContentOf(a \o b) = ContentOf(a) \o ContentOf(b)
           /\ AreUnder(a) /\ AreUnder(b) => AreUnder(a \o b)
<1>1. PICK c : c = a \o b
  OBVIOUS
<1>2. /\ c \in Seq(NoteChunk) /\ Len(c) = Len(a) + Len(b)
      /\ \A i \in 1..(Len(a) + Len(b)) : c[i] = IF i <= Len(a) THEN a[i] ELSE b[i - Len(a)]
  BY <1>1, ConcatProperties
<1>3. PICK ca, cb, cc : ca = ContentOf(a) /\ cb = ContentOf(b) /\ cc = ContentOf(c)
  OBVIOUS
<1>4. /\ ca \in Seq(Text) /\ Len(ca) = Len(a) /\ \A k \in 1..Len(a) : ca[k] = a[k].content
      /\ cb \in Seq(Text) /\ Len(cb) = Len(b) /\ \A k \in 1..Len(b) : cb[k] = b[k].content
      /\ cc \in Seq(Text) /\ Len(cc) = Len(c) /\ \A k \in 1..Len(c) : cc[k] = c[k].content
      /\ Len(a) \in Nat /\ Len(b) \in Nat /\ DOMAIN c = 1..Len(c)
      /\ DOMAIN a = 1..Len(a) /\ DOMAIN b = 1..Len(b)
  BY <1>2, <1>3, ContentIs
<1>5. PICK d : d = ca \o cb
  OBVIOUS
<1>6. /\ d \in Seq(Text) /\ Len(d) = Len(a) + Len(b)
      /\ \A i \in 1..(Len(a) + Len(b)) : d[i] = IF i <= Len(a) THEN ca[i] ELSE cb[i - Len(a)]
  <2>1. ca \in Seq(Text) /\ cb \in Seq(Text) /\ Len(ca) = Len(a) /\ Len(cb) = Len(b)
    BY <1>4
  <2>2. /\ d \in Seq(Text) /\ Len(d) = Len(ca) + Len(cb)
        /\ \A i \in 1..(Len(ca) + Len(cb)) : d[i] = IF i <= Len(ca) THEN ca[i] ELSE cb[i - Len(ca)]
    BY <1>5, <2>1, ConcatProperties
  <2> QED BY <2>1, <2>2
<1>7. ASSUME NEW i \in 1..(Len(a) + Len(b)) PROVE cc[i] = d[i]
  <2>1. CASE i <= Len(a)
    <3>1. i \in 1..Len(a) /\ i \in 1..Len(c)
      BY <1>2, <1>4, <2>1
    <3>2. cc[i] = c[i].content /\ c[i] = a[i] /\ ca[i] = a[i].content /\ d[i] = ca[i]
      BY <1>2, <1>4, <1>6, <2>1, <3>1
    <3> QED BY <3>2
  <2>2. CASE ~(i <= Len(a))
    <3>1. i - Len(a) \in 1..Len(b)
      BY <1>4, <2>2
    <3> QED BY <1>2, <1>4, <1>6, <2>2, <3>1
  <2> QED BY <2>1, <2>2
<1>8. cc = d
  BY <1>2, <1>4, <1>6, <1>7, SeqEqual
<1>9. ASSUME AreUnder(a), AreUnder(b) PROVE AreUnder(c)
  <2>1. ASSUME NEW k \in DOMAIN c
        PROVE  (\E j \in DOMAIN a : c[k] = a[j]) \/ (\E j \in DOMAIN b : c[k] = b[j])
    <3>1. k \in 1..(Len(a) + Len(b))
      BY <1>2, <1>4
    <3>2. CASE k <= Len(a)
      BY <1>2, <1>4, <3>1, <3>2
    <3>3. CASE ~(k <= Len(a))
      <4>1. k - Len(a) \in DOMAIN b
        BY <1>4, <3>1, <3>3
      <4> QED BY <1>2, <3>1, <3>3, <4>1
    <3> QED BY <3>2, <3>3
  <2> QED BY <1>9, <2>1 DEF AreUnder
<1> QED BY <1>1, <1>3, <1>5, <1>8, <1>9, Zenon

\* The chunks of a section.
LEMMA CutIs ==
    ASSUME NEW s \in NoteSection, Follow(s.lines), body \in Seq(BodyLine),
           IsUnder(s.path, s.lines, Len(body)),
           NEW size \in Nat \ {0}, NEW overlap \in Nat
    PROVE  /\ Cut(s, size, overlap) \in Seq(NoteChunk)
           /\ AreChunks(ContentOf(Cut(s, size, overlap)), size + overlap + 2)
           /\ Held(ContentOf(Cut(s, size, overlap))) = Held(s.lines)
           /\ AreUnder(Cut(s, size, overlap))
<1>1. PICK ps : ps = Pieces(s.lines, size, overlap)
  OBVIOUS
<1>2. AreChunks(ps, size + overlap + 2) /\ Held(ps) = Held(s.lines)
  BY <1>1, PiecesAreRight
<1>3. PICK n \in Nat : n = Len(ps) /\ DOMAIN ps = 1..n /\ \A k \in 1..n : ps[k] \in Text
  BY <1>2, LenProperties DEF AreChunks
<1>4. PICK cut : cut = Cut(s, size, overlap)
  OBVIOUS
<1>5. cut = [k \in 1..n |-> [path |-> s.path, content |-> ps[k]]]
  BY <1>1, <1>3, <1>4 DEF Cut
<1>6. s.path \in Seq(BodyLine)
  BY DEF NoteSection
<1>7. cut \in Seq(NoteChunk)
  <2>1. \A k \in 1..n : [path |-> s.path, content |-> ps[k]] \in NoteChunk
    BY <1>3, <1>6 DEF NoteChunk
  <2> QED BY <1>5, <2>1
<1>8. DOMAIN cut = 1..n /\ \A k \in 1..n : cut[k].path = s.path /\ cut[k].content = ps[k]
  BY <1>5
<1>9. ContentOf(cut) = ps
  <2>1. ContentOf(cut) = [k \in 1..n |-> ps[k]]
    BY <1>8 DEF ContentOf
  <2>2. ps = [k \in 1..n |-> ps[k]]
    BY <1>2, <1>3 DEF AreChunks
  <2> QED BY <2>1, <2>2
<1>10. AreUnder(cut)
  <2>1. ASSUME NEW k \in 1..n, NEW c \in Chars(ps[k])
        PROVE  \E i \in DOMAIN body : c \in Chars(body[i].text) /\ PathOf(s.path, Over(i))
    <3>1. c \in Held(s.lines)
      BY <1>2, <1>3, <2>1 DEF Held
    <3>2. DOMAIN body = 1..Len(body)
      BY LenProperties
    <3> QED BY <3>1, <3>2 DEF IsUnder
  <2> QED BY <1>8, <2>1 DEF AreUnder
<1> QED BY <1>2, <1>4, <1>7, <1>9, <1>10

\* What the first sections hold.
SectionsUpTo(ss, k) == UNION {Held(ss[m].lines) : m \in 1..k}

\* After k sections: their chunks.
ChunksSoFar(cs, ss, k, length) ==
    /\ cs \in Seq(NoteChunk) /\ AreUnder(cs)
    /\ AreChunks(ContentOf(cs), length)
    /\ Held(ContentOf(cs)) = SectionsUpTo(ss, k)

\* The chunks of one section more.
LEMMA ChunksOfMore ==
    ASSUME body \in Seq(BodyLine), NEW ss, AreSections(ss, Len(body)),
           NEW size \in Nat \ {0}, NEW overlap \in Nat, NEW k \in 1..Len(ss),
           NEW cs, ChunksSoFar(cs, ss, k - 1, size + overlap + 2)
    PROVE  ChunksSoFar(cs \o Cut(ss[k], size, overlap), ss, k, size + overlap + 2)
<1>1. Len(ss) \in Nat /\ DOMAIN ss = 1..Len(ss) /\ ss[k] \in NoteSection
  BY LenProperties DEF AreSections
<1>2. PICK s \in NoteSection : s = ss[k]
  BY <1>1
<1>3. Follow(s.lines) /\ IsUnder(s.path, s.lines, Len(body))
  BY <1>1, <1>2 DEF AreSections
<1>4. PICK cut : cut = Cut(s, size, overlap)
  OBVIOUS
<1>5. PICK length \in Int : length = size + overlap + 2
  OBVIOUS
<1>6. /\ cut \in Seq(NoteChunk) /\ AreUnder(cut)
      /\ AreChunks(ContentOf(cut), length) /\ Held(ContentOf(cut)) = Held(s.lines)
  BY <1>3, <1>4, <1>5, CutIs
<1>7. SectionsUpTo(ss, k) = SectionsUpTo(ss, k - 1) \cup Held(s.lines)
  <2>1. 1..k = (1..(k - 1)) \cup {k}
    BY <1>1
  <2> QED BY <1>2, <2>1 DEF SectionsUpTo
<1>8. \A c \in SectionsUpTo(ss, k - 1), d \in Held(s.lines) : c < d
  <2>1. \A m \in 1..(k - 1) : m \in DOMAIN ss /\ k \in DOMAIN ss /\ m < k
    BY <1>1
  <2>2. \A m \in 1..(k - 1) : \A c \in Held(ss[m].lines), d \in Held(s.lines) : c < d
    BY <1>2, <2>1 DEF AreSections
  <2> QED BY <2>2 DEF SectionsUpTo
<1>9. /\ cs \in Seq(NoteChunk) /\ AreUnder(cs) /\ AreChunks(ContentOf(cs), length)
      /\ Held(ContentOf(cs)) = SectionsUpTo(ss, k - 1)
  BY <1>5 DEF ChunksSoFar
<1>10. /\ AreChunks(ContentOf(cs) \o ContentOf(cut), length)
       /\ Held(ContentOf(cs) \o ContentOf(cut)) = Held(ContentOf(cs)) \cup Held(ContentOf(cut))
  <2>1. \A c \in Held(ContentOf(cs)), d \in Held(ContentOf(cut)) : c < d
    BY <1>6, <1>8, <1>9
  <2> QED BY <1>6, <1>9, <2>1, LaterChunks
<1>11. ContentOf(cs \o cut) = ContentOf(cs) \o ContentOf(cut) /\ AreUnder(cs \o cut)
  BY <1>6, <1>9, ContentConcat
<1>12. cs \o cut \in Seq(NoteChunk)
  BY <1>6, <1>9, ConcatProperties
<1>13. Held(ContentOf(cs \o cut)) = SectionsUpTo(ss, k)
  BY <1>6, <1>7, <1>9, <1>10, <1>11
<1>14. AreChunks(ContentOf(cs \o cut), length)
  BY <1>10, <1>11
<1>15. ChunksSoFar(cs \o cut, ss, k, length)
  BY <1>11, <1>12, <1>13, <1>14 DEF ChunksSoFar
<1> QED BY <1>2, <1>4, <1>5, <1>15

\* The chunks of a note.
LEMMA ChunksAreRight ==
    ASSUME BodyIsFine, NEW size \in Nat \ {0}, NEW overlap \in Nat
    PROVE  /\ Chunks(body, size, overlap) \in Seq(NoteChunk)
           /\ AreUnder(Chunks(body, size, overlap))
           /\ AreChunks(ContentOf(Chunks(body, size, overlap)), size + overlap + 2)
           /\ Held(ContentOf(Chunks(body, size, overlap))) = UpTo(BodyTexts, Len(body))
<1>1. PICK ss : ss = Sections(body)
  OBVIOUS
<1>2. AreSections(ss, Len(body)) /\ Contents(ss) = UpTo(BodyTexts, Len(body))
  BY <1>1, SectionsAreRight
<1>3. PICK n \in Nat : n = Len(ss) /\ DOMAIN ss = 1..n /\ \A k \in 1..n : ss[k] \in NoteSection
  BY <1>2, LenProperties DEF AreSections
<1>4. body \in Seq(BodyLine)
  BY DEF BodyIsFine
<1>5. PICK cuts : cuts = [i \in 1..n |-> Cut(ss[i], size, overlap)]
  OBVIOUS
<1>6. cuts \in Seq(Seq(NoteChunk)) /\ Len(cuts) = n
  <2>1. ASSUME NEW i \in 1..n PROVE Cut(ss[i], size, overlap) \in Seq(NoteChunk)
    <3>1. PICK s \in NoteSection : s = ss[i]
      BY <1>3
    <3>2. Follow(s.lines) /\ IsUnder(s.path, s.lines, Len(body))
      BY <1>2, <1>3, <3>1 DEF AreSections
    <3> QED BY <1>4, <3>1, <3>2, CutIs
  <2>2. cuts \in [1..n -> Seq(NoteChunk)]
    BY <1>5, <2>1
  <2> QED BY <2>2
<1>7. PICK all : all = Chunks(body, size, overlap)
  OBVIOUS
<1>8. all = FlattenSeq(cuts)
  BY <1>1, <1>3, <1>5, <1>7 DEF Chunks
<1>9. PICK f : Flattens(f, NoteChunk, cuts) /\ FlattenSeq(cuts) = f[n]
  BY <1>6, FlattenTrace
<1> DEFINE length == size + overlap + 2
           A == {k \in 0..n : ChunksSoFar(f[k], ss, k, length)}
<1>10. 0 \in A
  <2>1. f[0] = <<>>
    BY <1>9 DEF Flattens
  <2>2. <<>> \in Seq(NoteChunk) /\ AreUnder(<<>>) /\ ContentOf(<<>>) = <<>>
    <3>1. <<>> \in Seq(NoteChunk) /\ DOMAIN (<<>>) = {}
      OBVIOUS
    <3>2. ContentOf(<<>>) = <<>>
      BY <3>1 DEF ContentOf
    <3> QED BY <3>1, <3>2 DEF AreUnder
  <2>3. SectionsUpTo(ss, 0) = {}
    BY DEF SectionsUpTo
  <2>4. AreChunks(<<>>, length) /\ Held(<<>>) = {}
    BY NoChunks
  <2> HIDE DEF length
  <2>5. ChunksSoFar(<<>>, ss, 0, length)
    BY <2>2, <2>3, <2>4 DEF ChunksSoFar
  <2> QED BY <1>3, <2>1, <2>5
<1>11. ASSUME NEW k \in 0..(n - 1), k \in A PROVE k + 1 \in A
  <2>1. k + 1 \in 1..n /\ (k + 1) - 1 = k /\ k \in 0..n /\ k + 1 \in 0..n
    BY <1>3
  <2>2. PICK cs : cs = f[k] /\ ChunksSoFar(cs, ss, (k + 1) - 1, length)
    BY <1>11, <2>1
  <2>3. f[k + 1] = cs \o Cut(ss[k + 1], size, overlap)
    BY <1>5, <1>6, <1>9, <2>1, <2>2 DEF Flattens
  <2>4. ChunksSoFar(cs \o Cut(ss[k + 1], size, overlap), ss, k + 1, length)
    BY <1>2, <1>3, <1>4, <2>1, <2>2, ChunksOfMore
  <2> QED BY <2>1, <2>3, <2>4
<1>12. ChunksSoFar(f[n], ss, n, length)
  <2>1. \A k \in 0..(n - 1) : k \in A => k + 1 \in A
    BY <1>11
  <2>2. n \in 0..n
    BY <1>3
  <2>3. ASSUME n \in A PROVE ChunksSoFar(f[n], ss, n, length)
    BY <2>3
  <2> HIDE DEF A
  <2>4. 0..n \subseteq A
    BY <1>3, <1>10, <2>1, Induction
  <2> QED BY <2>2, <2>3, <2>4
<1>13. SectionsUpTo(ss, n) = UpTo(BodyTexts, Len(body))
  BY <1>2, <1>3 DEF SectionsUpTo, Contents
<1>14. f[n] = all
  BY <1>8, <1>9
<1> QED BY <1>7, <1>12, <1>13, <1>14 DEF ChunksSoFar

\* A character of a text of the note belongs to no other line.
LEMMA OneLine ==
    ASSUME BodyIsFine, NEW i \in DOMAIN body, NEW j \in DOMAIN body,
           NEW c \in Chars(body[i].text), c \in Chars(body[j].text)
    PROVE  i = j
<1>1. /\ DOMAIN body = 1..Len(body) /\ Len(body) \in Nat
      /\ \A k \in 1..Len(body) : body[k] \in BodyLine
  BY LenProperties DEF BodyIsFine
<1>2. c \in Nat
  <2>1. body[i].text \in Text
    BY <1>1 DEF BodyLine, Text
  <2> QED BY <2>1, CharsAreNumbers
<1>3. ASSUME NEW m \in DOMAIN body, NEW n \in DOMAIN body, m < n,
             c \in Chars(body[m].text), c \in Chars(body[n].text)
      PROVE  FALSE
  <2>1. Precedes(BodyTexts[m], BodyTexts[n])
    BY <1>3 DEF BodyIsFine, Follow, BodyTexts
  <2>2. BodyTexts[m] = body[m].text /\ BodyTexts[n] = body[n].text
    BY DEF BodyTexts
  <2>3. c < c
    BY <1>3, <2>1, <2>2 DEF Precedes
  <2> QED BY <1>2, <2>3
<1>4. ~(i < j) /\ ~(j < i)
  BY <1>3
<1> QED BY <1>1, <1>4

\* A note's chunks keep it.
LEMMA NoteIsKept ==
    ASSUME BodyIsFine, chunking \in [size : Nat \ {0}, overlap : Nat]
    PROVE  ChunksKeepTheNote
<1>1. PICK size \in Nat \ {0}, overlap \in Nat : size = chunking.size /\ overlap = chunking.overlap
  OBVIOUS
<1>2. PICK cs : cs = Chunks(body, size, overlap)
  OBVIOUS
<1>3. PICK length \in Int : length = size + overlap + 2
  OBVIOUS
<1>4. PICK texts : texts = ContentOf(cs)
  OBVIOUS
<1>5. /\ cs \in Seq(NoteChunk) /\ AreUnder(cs) /\ AreChunks(texts, length)
      /\ Held(texts) = UpTo(BodyTexts, Len(body))
  BY <1>2, <1>3, <1>4, ChunksAreRight
<1>6. DOMAIN texts = DOMAIN cs /\ \A k \in DOMAIN cs : texts[k] = cs[k].content
  BY <1>4 DEF ContentOf
<1>7. DOMAIN body = 1..Len(body) /\ BodyTexts = [i \in DOMAIN body |-> body[i].text]
  BY LenProperties DEF BodyIsFine, BodyTexts
<1>8. DOMAIN cs \subseteq Int
  BY <1>5, LenProperties
<1>9. ASSUME NEW i \in DOMAIN body, NEW c \in Chars(body[i].text)
      PROVE  \E k \in DOMAIN cs : c \in Chars(cs[k].content)
  <2>1. c \in UpTo(BodyTexts, Len(body))
    BY <1>7 DEF UpTo
  <2> QED BY <1>5, <1>6, <2>1 DEF Held
<1>10. ASSUME NEW i \in DOMAIN body, NEW c \in Chars(body[i].text),
              NEW k \in DOMAIN cs, c \in Chars(cs[k].content)
       PROVE  IsPath(cs[k].path, i)
  <2>1. PICK j \in DOMAIN body : c \in Chars(body[j].text) /\ PathOf(cs[k].path, Over(j))
    BY <1>5, <1>10 DEF AreUnder
  <2>2. i = j
    BY <2>1, OneLine
  <2> QED BY <2>1, <2>2 DEF PathOf, IsPath
<1>11. ASSUME NEW k \in DOMAIN cs, NEW c \in Chars(cs[k].content),
              NEW l \in DOMAIN cs, l > k
       PROVE  \E d \in Chars(cs[l].content) : d >= c
  <2>1. k < l
    BY <1>8, <1>11
  <2>2. Reaches(texts[l], Chars(texts[k]))
    BY <1>5, <1>6, <2>1 DEF AreChunks
  <2> QED BY <1>6, <2>2 DEF Reaches
<1>12. \A k \in DOMAIN cs : Ascending(cs[k].content) /\ Len(cs[k].content) <= length
  BY <1>5, <1>6 DEF AreChunks
<1>13. Chunks(body, chunking.size, chunking.overlap) = cs
  BY <1>1, <1>2
<1>14. chunking.size + chunking.overlap + 2 = length
  BY <1>1, <1>3
<1>15. ASSUME NEW i \in DOMAIN body, NEW c \in Chars(body[i].text)
       PROVE  LET holders == {k \in DOMAIN cs : c \in Chars(cs[k].content)}
              IN  /\ holders # {}
                  /\ \A k \in holders : /\ IsPath(cs[k].path, i)
                                        /\ \A l \in DOMAIN cs : l > k =>
                                               \E d \in Chars(cs[l].content) : d >= c
  BY <1>9, <1>10, <1>11
<1> QED
  BY <1>12, <1>13, <1>14, <1>15, Zenon DEF ChunksKeepTheNote

\* ChunksKeepTheNote of VaultText: whatever the note and the settings, no character
\* of it is left out of its chunks, each chunk has the headings its text is under,
\* and the chunks go on in the order of the note and stay within their length.
THEOREM NotesAreAlwaysKept == NoteSpec => []ChunksKeepTheNote
<1> DEFINE Typed == BodyIsFine /\ chunking \in [size : Nat \ {0}, overlap : Nat]
<1>1. NoteInit => Typed
  <2>1. SUFFICES ASSUME NoteInit PROVE Typed
    OBVIOUS
  <2>2. /\ body \in Bodies /\ chunking \in ChunkSettings
        /\ Bodies \subseteq Seq(BodyLine) /\ ChunkSettings \subseteq [size : Nat \ {0}, overlap : Nat]
    BY <2>1, ChunkingAssumption DEF NoteInit
  <2>3. body \in Seq(BodyLine) /\ chunking \in [size : Nat \ {0}, overlap : Nat]
    BY <2>2, Zenon
  <2>4. \A i, k \in DOMAIN body :
           /\ Ascending(body[i].text)
           /\ i < k => \A c \in Chars(body[i].text), d \in Chars(body[k].text) : c < d
    BY <2>2, ChunkingAssumption, Zenon
  <2>5. Len(body) \in Nat /\ DOMAIN body = 1..Len(body) /\ \A i \in 1..Len(body) : body[i].text \in Text
    <3>1. Len(body) \in Nat /\ DOMAIN body = 1..Len(body) /\ \A i \in 1..Len(body) : body[i] \in BodyLine
      BY <2>3, LenProperties
    <3>2. \A line \in BodyLine : line.text \in Text
      BY DEF BodyLine, Text
    <3> QED BY <3>1, <3>2, Zenon
  <2>6. BodyTexts = [i \in 1..Len(body) |-> body[i].text]
    BY <2>5 DEF BodyTexts
  <2>7. BodyTexts \in Seq(Text)
    BY <2>5, <2>6
  <2>8. Follow(BodyTexts)
    BY <2>4, <2>5, <2>6, <2>7 DEF Follow, Precedes
  <2> QED BY <2>3, <2>8 DEF BodyIsFine
<1>2. Typed /\ [UNCHANGED <<body, chunking>>]_<<body, chunking>> => Typed'
  BY DEF BodyIsFine, Follow, BodyTexts
<1>3. Typed => ChunksKeepTheNote
  BY NoteIsKept
<1> QED
  BY <1>1, <1>2, <1>3, PTL DEF NoteSpec
===============================================================================
