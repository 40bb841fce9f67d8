------------------------------- MODULE VaultSearch -------------------------------
(*****************************************************************************)
(* Which chunks of the vault a search returns and an answer quotes           *)
(* (vault_rag.py): the threshold and the ranking, the two passes of          *)
(* select_diverse_hits, and the blocks of build_vault_answer_prompt, one     *)
(* loop iteration per step.                                                  *)
(*                                                                           *)
(* A hit is a chunk with its score; the chunk is named by the position of    *)
(* its hit in the list of hits.  The size of a block counts its header.      *)
(*****************************************************************************)
EXTENDS Integers, Sequences, FiniteSets

CONSTANTS
    Documents,     \* notes
    HitLists,      \* the hits of a search, in the order they came
    TopKs,         \* what normalize_top_k makes of a request
    Caps,          \* rag_max_chunks_per_document
    MinScore,      \* rag_min_score
    MaxContext     \* rag_max_context_chars

Hit == [document : Documents, score : Int, size : Nat \ {0}]

ASSUME SearchAssumption ==
    /\ HitLists \subseteq Seq(Hit)
    /\ TopKs \subseteq Nat \ {0} /\ Caps \subseteq Nat \ {0}
    /\ MinScore \in Int /\ MaxContext \in Int

VARIABLES
    hits,       \* the hits
    pgvector,   \* rag_vector_backend = "pgvector"
    order,      \* the hits select_diverse_hits is given, best first
    topK, cap,  \* its other arguments
    pass,       \* which loop runs
    next,       \* the iteration of the loop
    selected,   \* the hits selected
    counts,     \* counts_by_document
    blocks,     \* the sizes of context_parts
    used        \* used_chars

searchVars == <<hits, pgvector, order, topK, cap, pass, next, selected, counts, blocks, used>>

\* search_vault never takes up a hit under the threshold; search_vault_pgvector
\* falls back on them.
Eligible ==
    LET good == {i \in DOMAIN hits : hits[i].score >= MinScore}
    IN  IF pgvector /\ good = {} THEN DOMAIN hits ELSE good

\* hits.sort: best first, and in the order they came where the scores agree.
Before(i, j) == \/ hits[i].score > hits[j].score
                \/ hits[i].score = hits[j].score /\ i < j

SearchInit ==
    /\ hits \in HitLists /\ pgvector \in BOOLEAN
    /\ order \in [1..Cardinality(Eligible) -> Eligible]
    /\ \A k, l \in DOMAIN order : k < l => Before(order[k], order[l])
    /\ topK \in TopKs /\ cap \in Caps
    /\ pass = "first" /\ next = 1
    /\ selected = <<>> /\ counts = [d \in Documents |-> 0]
    /\ blocks = <<>> /\ used = 0

-----------------------------------------------------------------------------
\* select_diverse_hits -----------------------------------------------------------

Selected(i) == \E k \in DOMAIN selected : selected[k] = i

Continue == next' = next + 1 /\ UNCHANGED pass
Begin(loop) == next' = 1 /\ pass' = loop

\* Hit i is appended, and is the last one if it makes top_k.
Select(i) ==
    /\ selected' = Append(selected, i)
    /\ IF Len(selected) + 1 >= topK THEN Begin("quote") ELSE Continue

\* At most cap chunks of a document.
FirstPass ==
    /\ pass = "first" /\ next <= Len(order)
    /\ LET i == order[next]  d == hits[i].document IN
       \/ /\ ~Selected(i) /\ counts[d] < cap
          /\ Select(i)
          /\ counts' = [counts EXCEPT ![d] = @ + 1]
       \/ /\ Selected(i) \/ counts[d] >= cap
          /\ Continue
          /\ UNCHANGED <<selected, counts>>
    /\ UNCHANGED <<hits, pgvector, order, topK, cap, blocks, used>>

\* Mutant of SecondPass: the chunks of the first pass are taken again.
MutantSecondPass ==
    /\ pass = "second" /\ next <= Len(order)
    /\ Select(order[next])
    /\ UNCHANGED <<hits, pgvector, order, topK, cap, counts, blocks, used>>

\* What is missing is filled up with the next ones.
SecondPass ==
    /\ pass = "second" /\ next <= Len(order)
    /\ \/ ~Selected(order[next]) /\ Select(order[next])
       \/ Selected(order[next]) /\ Continue /\ UNCHANGED selected
    /\ UNCHANGED <<hits, pgvector, order, topK, cap, counts, blocks, used>>

PassEnds ==
    /\ next > Len(order)
    /\ \/ pass = "first" /\ Begin("second")
       \/ pass = "second" /\ Begin("quote")
    /\ UNCHANGED <<hits, pgvector, order, topK, cap, selected, counts, blocks, used>>

-----------------------------------------------------------------------------
\* build_vault_answer_prompt --------------------------------------------------------

Quote ==
    /\ pass = "quote" /\ next <= Len(selected)
    /\ LET size == hits[selected[next]].size
           left == MaxContext - used
           block == IF size > left THEN left ELSE size
       IN \/ /\ left <= 0
             /\ Begin("done") /\ UNCHANGED <<blocks, used>>
          \/ /\ left > 0
             /\ blocks' = Append(blocks, block) /\ used' = used + block
             /\ Continue
    /\ UNCHANGED <<hits, pgvector, order, topK, cap, selected, counts>>

QuoteEnds ==
    /\ pass = "quote" /\ next > Len(selected)
    /\ Begin("done")
    /\ UNCHANGED <<hits, pgvector, order, topK, cap, selected, counts, blocks, used>>

SearchNext == FirstPass \/ SecondPass \/ PassEnds \/ Quote \/ QuoteEnds

SearchSpec == SearchInit /\ [][SearchNext]_searchVars

-----------------------------------------------------------------------------
Share(d) == Cardinality({k \in DOMAIN selected : hits[selected[k]].document = d})

\* As many chunks as there are to return, none twice, the best one first, and
\* none under the threshold beside one above it; a document only has more than
\* its share when every chunk of the others that could take its place is
\* selected or beyond its own share.
SelectedFairly ==
    /\ Len(selected) = IF topK < Cardinality(Eligible) THEN topK ELSE Cardinality(Eligible)
    /\ \A k, l \in DOMAIN selected : selected[k] = selected[l] => k = l
    /\ \A k \in DOMAIN selected : /\ selected[k] \in Eligible
                                  /\ k # 1 => Before(selected[1], selected[k])
    /\ \A d \in Documents : Share(d) > cap =>
          \A i \in Eligible : Selected(i) \/ Share(hits[i].document) >= cap

\* The blocks of an answer are a prefix of its sources that fits the budget,
\* only the last one cut, and all of them unless the budget is spent.
QuotedWithinBudget ==
    /\ Len(blocks) <= Len(selected)
    /\ blocks # <<>> => used <= MaxContext
    /\ \A k \in DOMAIN blocks :
          /\ blocks[k] > 0 /\ blocks[k] <= hits[selected[k]].size
          /\ k < Len(blocks) \/ used < MaxContext => blocks[k] = hits[selected[k]].size
    /\ Len(blocks) < Len(selected) => used >= MaxContext

\* search_vault and build_vault_answer_prompt.
SelectionIsFair ==
    /\ pass \in {"quote", "done"} => SelectedFairly
    /\ pass = "done" => QuotedWithinBudget
=============================================================================
