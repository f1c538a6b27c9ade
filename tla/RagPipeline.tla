------------------------------- MODULE RagPipeline -------------------------------
(***************************************************************************)
(* Retrieval support of a v1 database (src/rag): chunker.rs cuts documents *)
(* into chunks, context.rs fills a context from search results within a    *)
(* token budget, hybrid.rs fuses a keyword and a vector ranking.  A        *)
(* document is a sequence of characters: a letter, a full stop, a space, a *)
(* newline "N" or a header mark "#", of one byte each, and a letter "e" and *)
(* a space "W" of two.  Rankings are sequences of node ids.                *)
(***************************************************************************)
EXTENDS Integers, Sequences, SequencesExt, FiniteSets, FiniteSetsExt

CONSTANTS
    Alphabet,       \* the characters documents are made of
    MaxDocument,    \* length of a document at most
    CharsPerToken,  \* the divisor of estimate_tokens (4 in the code)
    ChunkSize, ChunkOverlap,    \* FixedSize
    ChunkTokens,    \* Sentence's max_tokens
    SectionSize,    \* Paragraph's and Semantic's max_size
    SectionOverlap, \* the overlap inside a large section (50 in the code)
    RankIds,        \* nodes a search may return
    RrfK, KeywordWeight, VectorWeight,
    ContextTokens   \* max_tokens of the retriever

ASSUME RagAssumption ==
    /\ CharsPerToken > 0 /\ ChunkSize > 0 /\ SectionSize > 0
    /\ RrfK \in Nat /\ KeywordWeight \in Nat /\ VectorWeight \in Nat

VARIABLES
    document,       \* the document being written
    keywordRanks, vectorRanks,      \* the two rankings of a hybrid search
    context         \* a retrieval in progress: what is left, taken, lost

ragVars == <<document, keywordRanks, vectorRanks, context>>

-------------------------------------------------------------------------------
(* chunker.rs.  Chunk offsets count bytes from 0; [from, to, text]. *)

Space == {" ", "N", "W"}

Wide == {"e", "W"}

Bytes(s) == Len(s) + Len(SelectSeq(s, LAMBDA c : c \in Wide))

(* The offsets at which a str may be sliced. *)
Boundaries(s) == {Bytes(SubSeq(s, 1, k)) : k \in 0 .. Len(s)}

Indices(s) == [i \in DOMAIN s |-> i]

Squeeze(s) == SelectSeq(s, LAMBDA c : c \notin Space)

Trim(s) ==
    LET solid == {i \in DOMAIN s : s[i] \notin Space}
    IN  IF solid = {} THEN <<>> ELSE SubSeq(s, Min(solid), Max(solid))

Chunk(from, to, text) == [from |-> from, to |-> to, text |-> text]

(* chunk_fixed_size: chunks start every chunk_size - overlap characters (at
   least one); the first chunk that reaches the end is the last.           *)
ChunkFixedSize(s, size, overlap) ==
    LET step  == Max({size - overlap, 1})
        whole == {k \in 0 .. Len(s) : k * step + size >= Len(s)}
        count == IF s = <<>> THEN 0 ELSE Min(whole) + 1
        end(k) == Min({(k - 1) * step + size, Len(s)})
    IN  [k \in 1 .. count |->
            Chunk(Bytes(SubSeq(s, 1, (k - 1) * step)), Bytes(SubSeq(s, 1, end(k))),
                  SubSeq(s, (k - 1) * step + 1, end(k)))]

(* The white space after a sentence is stepped over byte by byte: one of two
   bytes is sliced in its middle, a panic.                                 *)
SplitPanics(s) ==
    \E i, j \in DOMAIN s :
        /\ i < j /\ s[i] = "." /\ s[j] \in Space \cap Wide
        /\ \A k \in i + 1 .. j - 1 : s[k] \in Space

(* split_sentences: a full stop before whitespace, or at the end, closes one. *)
SplitSentences(s) ==
    LET step(acc, i) ==
            IF s[i] # "." \/ (i < Len(s) /\ s[i + 1] \notin Space) THEN acc
            ELSE [start |-> Min({j \in i + 1 .. Len(s) : s[j] \notin Space} \cup {Len(s) + 1}),
                  out   |-> Append(acc.out, Trim(SubSeq(s, acc.start, i)))]
        scan == FoldLeft(step, [start |-> 1, out |-> <<>>], Indices(s))
        rest == Trim(SubSeq(s, scan.start, Len(s)))
    IN  scan.out \o IF rest = <<>> THEN <<>> ELSE <<rest>>

(* split("\n\n"), each piece trimmed and the empty ones skipped. *)
SplitParagraphs(s) ==
    LET step(acc, i) ==
            IF i < acc.start \/ i = Len(s) \/ s[i] # "N" \/ s[i + 1] # "N" THEN acc
            ELSE [start |-> i + 2, out |-> Append(acc.out, SubSeq(s, acc.start, i - 1))]
        scan  == FoldLeft(step, [start |-> 1, out |-> <<>>], Indices(s))
        parts == Append(scan.out, SubSeq(s, scan.start, Len(s)))
    IN  SelectSeq([i \in DOMAIN parts |-> Trim(parts[i])], LAMBDA p : p # <<>>)

(* Whether part p still joins cur: sentences are measured in tokens of so many
   characters, paragraphs in bytes.                                        *)
Fits(unit, cur, p) ==
    \/ unit = "tokens" /\ (Len(cur) + Len(p)) \div CharsPerToken <= ChunkTokens
    \/ unit = "bytes" /\ Bytes(cur) + Bytes(p) <= SectionSize

(* The loop of chunk_by_sentence and chunk_by_paragraph: parts are joined while
   their size is within the limit, the separator not counted; offsets add up
   the joined text, not the document.                                      *)
JoinParts(parts, sep, unit) ==
    LET close(acc) == Append(acc.out, Chunk(acc.from, acc.from + Bytes(acc.cur), acc.cur))
        step(acc, p) ==
            IF acc.cur = <<>> THEN [acc EXCEPT !.cur = p]
            ELSE IF ~Fits(unit, acc.cur, p)
            THEN [from |-> acc.from + Bytes(acc.cur), cur |-> p, out |-> close(acc)]
            ELSE [acc EXCEPT !.cur = @ \o sep \o p]
        last == FoldLeft(step, [from |-> 0, cur |-> <<>>, out |-> <<>>], parts)
    IN  IF last.cur = <<>> THEN last.out ELSE close(last)

ChunkBySentence(s) == JoinParts(SplitSentences(s), <<" ">>, "tokens")

(* Mutant: a part that does not fit is dropped with the chunk it closes. *)
ChunkByParagraph_DropsFull(s) ==
    JoinParts(SelectSeq(SplitParagraphs(s), LAMBDA p : Len(p) <= SectionSize), <<"N", "N">>, "bytes")

ChunkByParagraph(s) == JoinParts(SplitParagraphs(s), <<"N", "N">>, "bytes")

(* lines(): the pieces between newlines, without an empty last one. *)
Lines(s) ==
    LET breaks == {0, Len(s) + 1} \cup {i \in DOMAIN s : s[i] = "N"}
        starts == SelectSeq([i \in 1 .. Len(s) + 1 |-> i - 1], LAMBDA b : b \in breaks)
        line(b) == SubSeq(s, b + 1, Min({c \in breaks : c > b}) - 1)
        all == [i \in DOMAIN starts |-> line(starts[i])]
    IN  IF all # <<>> /\ Last(all) = <<>> THEN Front(all) ELSE all

IsHeader(line) == Len(line) >= 2 /\ line[1] = "#" /\ line[2] = " "

(* chunk_semantic: a header line opens a section. *)
Sections(s) ==
    LET step(acc, line) ==
            IF IsHeader(line) /\ acc.cur # <<>>
            THEN [from |-> acc.from + Bytes(acc.cur) + 1, cur |-> line,
                  out |-> Append(acc.out, Chunk(acc.from, acc.from + Bytes(acc.cur), acc.cur))]
            ELSE [acc EXCEPT !.cur = IF @ = <<>> THEN line ELSE @ \o <<"N">> \o line]
        last == FoldLeft(step, [from |-> 0, cur |-> <<>>, out |-> <<>>], Lines(s))
    IN  IF last.cur = <<>> THEN last.out
        ELSE Append(last.out, Chunk(last.from, last.from + Bytes(last.cur), last.cur))

(* A section that is too large is cut by size, at its own offset. *)
SectionChunks(section) ==
    IF Bytes(section.text) <= SectionSize THEN <<section>>
    ELSE LET subs == ChunkFixedSize(section.text, SectionSize, SectionOverlap)
         IN  [i \in DOMAIN subs |->
                 [subs[i] EXCEPT !.from = @ + section.from, !.to = @ + section.from]]

ChunkSemantic(s) ==
    FlattenSeq([i \in DOMAIN Sections(s) |-> SectionChunks(Sections(s)[i])])

(* get_context_window slices content[start..end], or panics. *)
WindowIsSlice(chunk, around, s) ==
    LET start == Max({chunk.from - around, 0})
        end   == Min({chunk.to + around, Bytes(s)})
    IN  start <= end /\ {start, end} \subseteq Boundaries(s)

-------------------------------------------------------------------------------
(* hybrid.rs: reciprocal rank fusion, in integers: the weight over k + rank is
   compared by cross multiplication.                                       *)

Rank(list, n) == IF n \in Range(list) THEN CHOOSE i \in DOMAIN list : list[i] = n ELSE 0

(* <<numerator, denominator>> of one ranking's share; rank 0 is "not found". *)
Share(weight, rank) == IF rank = 0 THEN <<0, 1>> ELSE <<weight, RrfK + rank>>

(* Mutant: a node both searches found keeps the share of the second only. *)
RrfScore_Overwrites(n) ==
    IF n \in Range(vectorRanks) THEN Share(VectorWeight, Rank(vectorRanks, n))
    ELSE Share(KeywordWeight, Rank(keywordRanks, n))

RrfScore(n) ==
    LET a == Share(KeywordWeight, Rank(keywordRanks, n))
        b == Share(VectorWeight, Rank(vectorRanks, n))
    IN  <<a[1] * b[2] + b[1] * a[2], a[2] * b[2]>>

Beats(p, q) == p[1] * q[2] > q[1] * p[2]

(* The fused list; ties fall in the map's arbitrary order. *)
FusedLists ==
    {list \in SetToAllKPermutations(Range(keywordRanks) \cup Range(vectorRanks)) :
        Len(list) = Cardinality(Range(keywordRanks) \cup Range(vectorRanks))
        /\ \A i, j \in DOMAIN list : i < j => ~Beats(RrfScore(list[j]), RrfScore(list[i]))}

-------------------------------------------------------------------------------
(* context.rs: the results in rank order, one awaited get_node each; a score
   below min_score, which the ranks after "good" have, and a node deleted since
   the search are skipped, the first that does not fit ends it.            *)

Tokens(n) == n          \* content sizes, in tokens: ids are numbers

StartRetrieve ==
    /\ context.pc = "idle"
    /\ vectorRanks # <<>>
    /\ \E good \in 0 .. Len(vectorRanks) :
          context' = [pc |-> "run", left |-> vectorRanks, taken |-> <<>>, gone |-> context.gone,
                      good |-> good]
    /\ UNCHANGED <<document, keywordRanks, vectorRanks>>

LowScore(n) == Rank(vectorRanks, n) > context.good

RetrieveNext ==
    /\ context.pc = "run"
    /\ LET n    == Head(context.left)
           used == FoldLeft(LAMBDA t, m : t + Tokens(m), 0, context.taken)
       IN  context' =
             IF context.left = <<>> THEN [context EXCEPT !.pc = "done"]
             ELSE IF LowScore(n) \/ n \in context.gone THEN [context EXCEPT !.left = Tail(@)]
             ELSE IF used + Tokens(n) > ContextTokens THEN [context EXCEPT !.pc = "done"]
             ELSE [context EXCEPT !.left = Tail(@), !.taken = Append(@, n)]
    /\ UNCHANGED <<document, keywordRanks, vectorRanks>>

(* retrieve_with_reranking reads every result first; the score of one is the
   mean of its similarity and of what the reranker says, for which the two
   rankings stand.                                                         *)
CombinedScore(n) ==
    LET points(list) == IF n \in Range(list) THEN Len(list) + 1 - Rank(list, n) ELSE 0
    IN  points(vectorRanks) + points(keywordRanks)

StartReranking ==
    /\ context.pc = "idle"
    /\ vectorRanks # <<>>
    /\ \E good \in 0 .. Len(vectorRanks) :
          context' = [pc |-> "score", left |-> vectorRanks, taken |-> <<>>, gone |-> context.gone,
                      good |-> good]
    /\ UNCHANGED <<document, keywordRanks, vectorRanks>>

ScoreNext ==
    /\ context.pc = "score" /\ context.left # <<>>
    /\ context' = [context EXCEPT
            !.left = Tail(@),
            !.taken = IF LowScore(Head(context.left)) \/ Head(context.left) \in context.gone THEN @
                      ELSE Append(@, Head(context.left))]
    /\ UNCHANGED <<document, keywordRanks, vectorRanks>>

(* A stable sort, best first, and then the chunks up to the token limit. *)
CutReranked ==
    /\ context.pc = "score" /\ context.left = <<>>
    /\ LET ranked == SortSeq(context.taken, LAMBDA n, m :
                        \/ CombinedScore(n) > CombinedScore(m)
                        \/ /\ CombinedScore(n) = CombinedScore(m)
                           /\ Rank(vectorRanks, n) < Rank(vectorRanks, m))
           size(k) == FoldLeft(LAMBDA t, m : t + Tokens(m), 0, SubSeq(ranked, 1, k))
           cut     == Max({k \in 0 .. Len(ranked) : size(k) <= ContextTokens})
       IN  context' = [context EXCEPT !.pc = "reranked",
                                      !.taken = SubSeq(ranked, 1, cut),
                                      !.left = SubSeq(ranked, cut + 1, Len(ranked))]
    /\ UNCHANGED <<document, keywordRanks, vectorRanks>>

DeleteRanked(n) ==
    /\ context.pc \in {"run", "score"}
    /\ context' = [context EXCEPT !.gone = @ \cup {n}]
    /\ UNCHANGED <<document, keywordRanks, vectorRanks>>

-------------------------------------------------------------------------------
RagInit ==
    /\ document = <<>>
    /\ keywordRanks = <<>> /\ vectorRanks = <<>>
    /\ context = [pc |-> "idle", left |-> <<>>, taken |-> <<>>, gone |-> {}, good |-> 0]

WriteCharacter(c) ==
    /\ Len(document) < MaxDocument
    /\ document' = Append(document, c)
    /\ UNCHANGED <<keywordRanks, vectorRanks, context>>

(* The searches of a hybrid query return some ranking each. *)
RankByKeyword(n) ==
    /\ n \notin Range(keywordRanks) /\ context.pc = "idle"
    /\ keywordRanks' = Append(keywordRanks, n)
    /\ UNCHANGED <<document, vectorRanks, context>>

RankByVector(n) ==
    /\ n \notin Range(vectorRanks) /\ context.pc = "idle"
    /\ vectorRanks' = Append(vectorRanks, n)
    /\ UNCHANGED <<document, keywordRanks, context>>

ChunkSteps == \E c \in Alphabet : WriteCharacter(c)

RankSteps ==
    \/ \E n \in RankIds : RankByKeyword(n) \/ RankByVector(n) \/ DeleteRanked(n)
    \/ StartRetrieve \/ RetrieveNext
    \/ StartReranking \/ ScoreNext \/ CutReranked

-------------------------------------------------------------------------------
(* Properties *)

(* The characters at the bytes from up to to. *)
TextAt(s, from, to) ==
    LET before(o) == Cardinality({k \in 1 .. Len(s) : Bytes(SubSeq(s, 1, k)) <= o})
    IN  SubSeq(s, before(from) + 1, before(to))

(* No strategy of chunker.rs:112-392 loses or repeats text: fixed-size chunks
   are the slices of the document at their offsets and cover it, sentence,
   paragraph and section chunks hold its characters, in order and up to white
   space (chunk_by_sentence where it does not panic at a wide space).  A chunk
   of sentences or paragraphs passes its limit only when one of them alone does
   or by the separator in front of the last; no section chunk passes it.  In a
   document of one-byte characters every window around a chunk is a slice, and
   so is a fixed-size chunk's own in every document.                       *)
ChunksCover ==
    LET text(chunks) == FlattenSeq([i \in DOMAIN chunks |-> Squeeze(chunks[i].text)])
        fixed == ChunkFixedSize(document, ChunkSize, ChunkOverlap)
        bySentence  == ChunkBySentence(document)
        byParagraph == ChunkByParagraph(document)
        bySection   == ChunkSemantic(document)
    IN  document # <<>> =>
        /\ UNION {c.from + 1 .. c.to : c \in Range(fixed)} = 1 .. Bytes(document)
        /\ \A c \in Range(fixed) :
               /\ Len(c.text) <= ChunkSize /\ c.text = TextAt(document, c.from, c.to)
               /\ WindowIsSlice(c, 0, document)
        /\ ~SplitPanics(document) =>
               /\ text(bySentence) = Squeeze(document)
               /\ \A c \in Range(bySentence) :
                     (Len(c.text) - 1) \div CharsPerToken > ChunkTokens =>
                        c.text \in Range(SplitSentences(document))
        /\ text(byParagraph) = Squeeze(document)
        /\ \A c \in Range(byParagraph) :
               Bytes(c.text) - 2 > SectionSize => c.text \in Range(SplitParagraphs(document))
        /\ text(Sections(document)) = Squeeze(document)
        /\ \A c \in Range(bySection) : Len(c.text) <= SectionSize
        /\ Bytes(document) = Len(document) =>
               \A c \in Range(fixed \o bySentence \o byParagraph \o bySection), around \in {0, 1} :
                  WindowIsSlice(c, around, document)

(* hybrid.rs:215-262: a node ranked at least as well as another by both
   searches, and better by one, comes first in every fused list.  A context
   (context.rs:147) holds results in rank order within the token budget, none
   below min_score, and stops early only at a result that does not fit.  A reranked one
   (context.rs:227) never prefers a result that both scores put behind
   another one still there.                                                *)
RankingsRespected ==
    LET place(list, n) == IF n \in Range(list) THEN Rank(list, n) ELSE Len(list) + 1
        tokens(s) == FoldLeft(LAMBDA t, m : t + Tokens(m), 0, s)
    IN  /\ \A list \in FusedLists : \A n, m \in Range(list) :
             /\ place(keywordRanks, n) <= place(keywordRanks, m)
             /\ place(vectorRanks, n) <= place(vectorRanks, m)
             /\ n # m
             => Rank(list, n) < Rank(list, m)
        /\ context.pc # "score" => tokens(context.taken) <= ContextTokens
        /\ context.pc = "reranked" =>
             LET all == context.taken \o context.left
             IN  /\ \A i, j \in DOMAIN all :
                        /\ Rank(vectorRanks, all[i]) < Rank(vectorRanks, all[j])
                        /\ place(keywordRanks, all[i]) <= place(keywordRanks, all[j])
                        => i < j
                 /\ {n \in Range(vectorRanks) : ~LowScore(n)} \subseteq Range(all) \cup context.gone
                 /\ context.left = <<>>
                       \/ tokens(context.taken) + Tokens(Head(context.left)) > ContextTokens
        /\ context.pc \in {"done", "reranked"} => \A n \in Range(context.taken) : ~LowScore(n)
        /\ context.pc = "done" =>
             LET live == SelectSeq(vectorRanks, LAMBDA n :
                            n \notin context.gone \cup Range(context.taken) /\ ~LowScore(n))
             IN  live = <<>> \/ tokens(context.taken) + Tokens(Head(context.left)) > ContextTokens
================================================================================
