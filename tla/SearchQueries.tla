--------------------------- MODULE SearchQueries ---------------------------
(***************************************************************************)
(* What a full-text search finds: ElasticsearchIndexService.search turns   *)
(* the words of a query and its options (search mode, match type, typo     *)
(* tolerance, smart search) into clauses for Elasticsearch.  The module is *)
(* that translation, together with what the clauses mean to the engine,    *)
(* for one document: whether it matches depends on no other.  A match is a *)
(* hit if its score reaches the threshold; scores are not modelled, the    *)
(* thresholds are.                                                         *)
(*                                                                         *)
(* A word is known by its number of letters.  The text of a document holds *)
(* words as somebody typed them: with some letters changed (edits), the    *)
(* first at a position counted from zero.  The engine's analysis (stems,   *)
(* stop words) is behind that: two forms of a word are one word.           *)
(***************************************************************************)
EXTENDS Integers, SequencesExt

CONSTANTS
    Words,      \* the lengths that stand for words
    Edits,      \* how many letters a misspelling may change
    Typos,      \* where the first changed letter may be
    MaxTokens,  \* how many words a document has
    MaxWords    \* how many words a query has

ASSUME SearchWordsAssumption ==
    /\ Words \subseteq Nat \ {0} /\ Edits \subseteq Nat \ {0} /\ Typos \subseteq Nat
    /\ MaxTokens \in Nat /\ MaxWords \in Nat

VARIABLES
    text,   \* the document's words, field by field
    query   \* the words searched for, in the order typed

searchVars == <<text, query>>

Fields == {"title", "content"}
Tokens == [word : Words, edits : {0}, at : {0}] \union [word : Words, edits : Edits, at : Typos]

Modes == {"phrase", "all_words", "any_word"}
Tolerances == {"low", "medium", "high"}
Options == [mode : Modes, match : {"exact"}, tolerance : {"medium"}]
               \union [mode : Modes, match : {"fuzzy"}, tolerance : Tolerances]

-----------------------------------------------------------------------------
(***************************************************************************)
(* The clauses.                                                            *)
(***************************************************************************)
\* Repeated words count once.
UniqueWords(q) == ToSet(q)
WordCount(q) == Cardinality(UniqueWords(q))

\* Mutant: words are counted with their repetitions.
MutantCountsRepeats(o, q) == IF Len(q) = 1 THEN "any_word" ELSE o.mode

\* With a single word every mode is any_word.
NormalizedMode(o, q) == IF WordCount(q) = 1 THEN "any_word" ELSE o.mode

\* What the tolerance allows a word: so many edits, none among its first letters.
Fuzziness(o) == IF o.tolerance = "low" THEN 1 ELSE 2
PrefixLength(o) == CASE o.tolerance = "low" -> 3 [] o.tolerance = "medium" -> 2 [] OTHER -> 1

\* For n words of that many letters together: none for short words, and the fixed prefix is
\* at most half a word.  any_word asks word by word, the other modes for the average.
Slack(o, letters, n) ==
    IF o.match = "exact" \/ letters < 4 * n
    THEN [edits |-> 0, prefix |-> 0]
    ELSE [edits |-> Fuzziness(o),
          prefix |-> IF PrefixLength(o) < letters \div (2 * n)
                     THEN PrefixLength(o) ELSE letters \div (2 * n)]

Letters(q) == SumSet(UniqueWords(q))

\* A clause accepts a word as it is written in the text.
Accepts(slack, t, w) ==
    /\ t.word = w /\ t.edits <= slack.edits
    /\ t.edits > 0 => t.at >= slack.prefix

Has(f, w, slack) == \E i \in DOMAIN text[f] : Accepts(slack, text[f][i], w)

\* match_phrase with slop 0: the words of the query side by side, as they were typed.
HasPhrase(f, q) ==
    \E i \in 0 .. Len(text[f]) - Len(q) :
        \A j \in DOMAIN q : Accepts([edits |-> 0, prefix |-> 0], text[f][i + j], q[j])

\* match with operator 'and': every word, in whatever order.
HasAll(f, o, q) ==
    \A w \in UniqueWords(q) : Has(f, w, Slack(o, Letters(q), WordCount(q)))

\* The clauses of the mode that the document meets.
QueryClauses(o, q) ==
    CASE NormalizedMode(o, q) = "any_word" ->
            {c \in Fields \X UniqueWords(q) : Has(c[1], c[2], Slack(o, c[2], 1))}
      [] NormalizedMode(o, q) = "phrase" /\ o.match = "exact" -> {f \in Fields : HasPhrase(f, q)}
      [] OTHER -> {f \in Fields : HasAll(f, o, q)}

\* A single word is also looked for by its n-grams, which the spellings of a word share.
\* The mode asked for, not the normalised one, leaves them out.
NgramClauses(o, q) ==
    IF o.match = "fuzzy" /\ WordCount(q) = 1 /\ o.mode # "all_words"
    THEN {f \in Fields : \E i \in DOMAIN text[f] : text[f][i].word \in UniqueWords(q)}
    ELSE {}

\* How many clauses must be met.
MinimumShouldMatch(o, q) ==
    IF o.mode = "any_word" /\ o.match = "fuzzy" /\ WordCount(q) > 2
    THEN (WordCount(q) + 1) \div 2 ELSE 1

\* The score below which a match is no hit, in tenths.
MinScore(o, q) ==
    IF o.match = "exact" THEN 5
    ELSE (CASE o.tolerance = "low" -> 30 [] o.tolerance = "medium" -> 25 [] OTHER -> 20)
             - 5 * (Min({WordCount(q), 3}) - 1)

\* Synonyms add no clause: the service knows none.  akin are the fields whose semantic
\* clause the document meets, none unless smart search asked for it and the model runs.
Matches(o, q, akin) ==
    Cardinality(QueryClauses(o, q)) + Cardinality(NgramClauses(o, q)) + Cardinality(akin)
        >= MinimumShouldMatch(o, q)

-----------------------------------------------------------------------------
(***************************************************************************)
(* Every document and query, word by word.                                 *)
(***************************************************************************)
SearchInit == text = [f \in Fields |-> <<>>] /\ query = <<>>

WriteWord(f, t) ==
    /\ Len(text["title"]) + Len(text["content"]) < MaxTokens /\ query = <<>>
    /\ text' = [text EXCEPT ![f] = Append(@, t)]
    /\ UNCHANGED query

TypeWord(w) ==
    /\ Len(query) < MaxWords
    /\ query' = Append(query, w)
    /\ UNCHANGED text

SearchNext ==
    \/ \E f \in Fields, t \in Tokens : WriteWord(f, t)
    \/ \E w \in Words : TypeWord(w)

SearchQueriesSpec == SearchInit /\ [][SearchNext]_searchVars

SearchQueriesTypeOK == text \in [Fields -> Seq(Tokens)] /\ query \in Seq(Words)

-----------------------------------------------------------------------------
(***************************************************************************)
(* What the modes are for, without clauses.                                *)
(***************************************************************************)
Correct(f) == {text[f][i].word : i \in {i \in DOMAIN text[f] : text[f][i].edits = 0}}
Spelled(f) == [i \in DOMAIN text[f] |-> IF text[f][i].edits = 0 THEN text[f][i].word ELSE 0]

Meant(mode) ==
    CASE mode = "any_word" -> \E f \in Fields : Correct(f) \intersect UniqueWords(query) # {}
      [] mode = "all_words" -> \E f \in Fields : UniqueWords(query) \subseteq Correct(f)
      [] OTHER -> \E f \in Fields : \E i, j \in DOMAIN text[f] : SubSeq(Spelled(f), i, j) = query

\* Exact searches match what their mode says; a phrase that repeats one word is taken for
\* the word.
ExactIsExact ==
    \A o \in Options : o.match = "exact" =>
        (Matches(o, query, {}) <=> Meant(IF o.mode = "phrase" /\ WordCount(query) = 1
                                       THEN "any_word" ELSE o.mode))

\* More tolerance never loses a match and never asks for a higher score.  Nor does fuzzy
\* instead of exact search lose a match, except where any_word starts to ask for half of
\* the words.
Weaker(o, p) ==
    /\ o.mode = p.mode
    /\ \/ o.match = "exact" /\ (o.mode = "any_word" => WordCount(query) < 3)
       \/ o.match = "fuzzy" /\ p.match = "fuzzy" /\ PrefixLength(p) <= PrefixLength(o)

ToleranceKeepsHits ==
    LET matching == {o \in Options : Matches(o, query, {})}
    IN \A o \in matching : \A p \in Options :
           Weaker(o, p) =>
               p \in matching /\ (o.match = "fuzzy" => MinScore(p, query) <= MinScore(o, query))

\* A document that a fuzzy search matches has each word, or for any_word one, written with
\* at most as many edits as the tolerance stands for (comments beside fuzziness); single
\* words, which n-grams find in any spelling, aside.
Nearly(o, f, w) ==
    \E i \in DOMAIN text[f] : text[f][i].word = w /\ text[f][i].edits <= Fuzziness(o)

FuzzyStaysNear ==
    \A o \in Options : o.match = "fuzzy" /\ WordCount(query) > 1 /\ Matches(o, query, {}) =>
        \E f \in Fields :
            IF o.mode = "any_word" THEN \E w \in UniqueWords(query) : Nearly(o, f, w)
            ELSE \A w \in UniqueWords(query) : Nearly(o, f, w)

\* What is searched for is matched, and in exact modes nothing else.
SearchFindsWhatIsMeant ==
    query # <<>> => ExactIsExact /\ ToleranceKeepsHits /\ FuzzyStaysNear
=============================================================================
