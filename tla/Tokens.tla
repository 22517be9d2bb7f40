------------------------------- MODULE Tokens -------------------------------
(***************************************************************************)
(* How many tokens a text has: the byte-pair encoder of util/bpe.c and the *)
(* estimate agent/tokenizer.c falls back to.  A vocabulary is loaded line  *)
(* by line into a hash table, a text is split into pieces the way the      *)
(* pattern of its encoding says, and the bytes of each piece are merged    *)
(* pair by pair, the lowest rank first.                                    *)
(*                                                                         *)
(* A character stands for its class: "A" and "a" for capitals and small    *)
(* letters, "s" and "l" for the letters of 's and 'll, "W" for a letter of *)
(* two bytes without case, "1" for digits, " " and "n" for blanks and line *)
(* ends, "." and "/" for what is left, "x" for a byte 0xA0 that starts no  *)
(* character: read alone it is a space.                                    *)
(***************************************************************************)
EXTENDS Integers, Sequences, FiniteSets
LOCAL INSTANCE FiniteSetsExt
LOCAL INSTANCE SequencesExt

CONSTANTS
  Texts,          \* what is counted
  Vocabularies,   \* files of lines [ok, key, rank]
  Cap,            \* slots of the hash table, more than a file has lines
  MaxPieces,      \* MAX_PIECES
  MaxPieceBytes   \* MAX_PIECE_BYTES

VARIABLES
  encoding, file,
  stage,     \* "load", "ready", "split", "merge", "counted" or "unsplit";
             \* without an encoder "estimate", "estimated"
  read,      \* lines of the file read
  ht,        \* the hash table
  text,      \* the text asked about
  pieces,    \* where they begin and where the next begins
  parts,     \* the piece being merged
  tokens,    \* the pieces merged, as sequences of tokens
  total      \* what is returned

tokenVars == <<encoding, file, stage, read, ht, text, pieces, parts, tokens, total>>

RANK_EMPTY == -1
NoEntry == [key |-> <<>>, rank |-> RANK_EMPTY]

\* tokenizer_create takes the encoding from the name of the model.
TokensInit ==
  /\ encoding \in {"cl100k", "o200k"} /\ file \in Vocabularies
  /\ stage = "load" /\ read = 0 /\ ht = [i \in 0..Cap - 1 |-> NoEntry]
  /\ text = <<>> /\ pieces = <<>> /\ parts = <<>> /\ tokens = <<>> /\ total = 0

-----------------------------------------------------------------------------
(* The vocabulary. *)

\* fnv1a is any function of the bytes; this one lets keys of a length collide.
fnv1a(key) == Len(key) % Cap

\* The first slot, from the key's own on, that is empty or holds the key.
Slot(key) ==
  LET At(d) == (fnv1a(key) + d) % Cap
      Stops(d) == ht[At(d)].rank = RANK_EMPTY \/ ht[At(d)].key = key
  IN  At(Min({d \in 0..Cap - 1 : Stops(d)}))

ht_insert(key, rank) == ht' = [ht EXCEPT ![Slot(key)] = [key |-> key, rank |-> rank]]

ht_lookup(key) == ht[Slot(key)].rank

\* A line that is blank, has no rank, is no base64 or has a negative rank is
\* passed over; a key that comes again gets the later rank.
load_vocab ==
  /\ stage = "load" /\ read < Len(file)
  /\ read' = read + 1
  /\ LET line == file[read + 1]
     IN  IF line.ok THEN ht_insert(line.key, line.rank) ELSE UNCHANGED ht
  /\ UNCHANGED <<encoding, file, stage, text, pieces, parts, tokens, total>>

\* The encoder is there, or it is not: the file is missing, or memory ran out
\* before all of it was read.
bpe_encoder_create ==
  /\ stage = "load"
  /\ \/ read = Len(file) /\ stage' = "ready" /\ UNCHANGED <<read, ht>>
     \/ stage' = "estimate" /\ read' = 0 /\ ht' = [i \in 0..Cap - 1 |-> NoEntry]
  /\ UNCHANGED <<encoding, file, text, pieces, parts, tokens, total>>

-----------------------------------------------------------------------------
(* The pieces. *)

classify_cp(c) ==
  CASE c = "A" -> "upper" [] c \in {"a", "s", "l"} -> "lower" [] c = "W" -> "letter"
    [] c = "1" -> "number" [] c \in {" ", "x"} -> "space" [] c = "n" -> "newline"
    [] c = "'" -> "apostrophe" [] OTHER -> "other"

utf8_decode_codepoint(c) == c # "x"
Bytes(c) == IF c = "W" THEN <<"w1", "w2">> ELSE <<c>>

Letters == {"upper", "lower", "letter"}
Blanks == {"space", "newline"}
Symbols == {"other", "apostrophe"}

\* The class at p, "none" at the end of the text.
iter_peek(p) == IF p > Len(text) THEN "none" ELSE classify_cp(text[p])

\* Where a run of the classes C that begins at p is over.
Run(p, C) == Min({q \in p..Len(text) + 1 : iter_peek(q) \notin C})

\* The same for blanks that are characters.
BlankRun(p) ==
  Min({q \in p..Len(text) + 1 : iter_peek(q) \notin Blanks \/ ~utf8_decode_codepoint(text[q])})

\* The letters after an apostrophe: 's, 't, 'd, 'm; 've, 're, 'll.
is_contraction_suffix(p) ==
  CASE p > Len(text) -> 0
    [] p <= Len(text) /\ text[p] = "s" -> 1
    [] p < Len(text) /\ text[p] = "l" /\ text[p + 1] = "l" -> 2
    [] OTHER -> 0

Digits(p) == Min({Run(p, {"number"}), p + 3})

\* Symbols, and the line ends after them.
SymbolRun(p) == Run(Run(p, Symbols), {"newline"})

\* A blank of the cl100k pattern: before a word, before symbols, before a line
\* end, at the end of the text, or all but the last of several.
cl100k_space(p) ==
  LET next == iter_peek(p + 1)
      end == BlankRun(p)
  IN  CASE next \in Letters -> Run(p + 1, Letters)
        [] next \in Symbols -> SymbolRun(p + 2)
        [] next = "newline" -> Run(p, Blanks)
        [] next \in {"none", "space", "number"} ->
             IF end > Len(text) THEN end ELSE IF end - p > 1 THEN end - 1 ELSE p + 1

\* Where the piece of split_cl100k that begins at p ends.
split_cl100k(p) ==
  LET cc == iter_peek(p)
      next == iter_peek(p + 1)
  IN  CASE cc = "apostrophe" /\ is_contraction_suffix(p + 1) > 0 ->
             p + 1 + is_contraction_suffix(p + 1)
        [] cc \in Letters -> Run(p, Letters)
        [] cc \in Symbols /\ next \in Letters
             /\ ~(cc = "apostrophe" /\ is_contraction_suffix(p + 1) > 0) -> Run(p + 1, Letters)
        [] cc = "number" -> Digits(p)
        [] cc = "space" -> cl100k_space(p)
        [] cc = "newline" -> Run(p, Blanks)
        [] cc \in Symbols /\ next \notin Letters -> SymbolRun(p + 1)

\* A word of the o200k pattern: capitals, then small letters, then 's or the like.
o200k_word(p) ==
  LET caps == IF iter_peek(p) = "lower" THEN p ELSE Run(p, {"upper", "letter"})
      end == Run(caps, {"lower", "letter"})
  IN  IF iter_peek(end) = "apostrophe" /\ is_contraction_suffix(end + 1) > 0
      THEN end + 1 + is_contraction_suffix(end + 1) ELSE end

\* A blank of the o200k pattern stands alone but before symbols or line ends.
o200k_space(p) ==
  LET next == iter_peek(p + 1)
      lines == SymbolRun(p + 2)
      end == BlankRun(p + 1)
  IN  CASE next \in Symbols -> IF lines <= Len(text) /\ text[lines] = "/" THEN lines + 1 ELSE lines
        [] next = "newline" -> Run(p + 1, {"newline"})
        [] next \notin Symbols \cup {"newline"} -> IF end > Len(text) THEN end ELSE p + 1

\* Spaces are looked for first, where a line end was found.
o200k_newline(p) == Run(Run(p, {"space"}), {"newline"})

\* Where the piece of split_o200k that begins at p ends.
split_o200k(p) ==
  LET cc == iter_peek(p)
  IN  CASE cc = "other" -> IF iter_peek(p + 1) \in Letters THEN o200k_word(p + 1) ELSE p + 1
        [] cc \in Letters -> o200k_word(p)
        [] cc = "number" -> Digits(p)
        [] cc = "apostrophe" -> p + 1
        [] cc = "space" -> o200k_space(p)
        [] cc = "newline" -> o200k_newline(p)

Covered == IF pieces = <<>> THEN 1 ELSE Last(pieces).to

\* One round of the loop of either function.
Split ==
  /\ stage = "split" /\ Covered <= Len(text) /\ Len(pieces) < MaxPieces
  /\ pieces' = Append(pieces, [from |-> Covered,
       to |-> IF encoding = "o200k" THEN split_o200k(Covered) ELSE split_cl100k(Covered)])
  /\ UNCHANGED <<encoding, file, stage, read, ht, text, parts, tokens, total>>

-----------------------------------------------------------------------------
(* The tokens of a piece. *)

BytesOf(s) == FlattenSeq([i \in 1..Len(s) |-> Bytes(s[i])])
PieceBytes(i) == BytesOf(SubSeq(text, pieces[i].from, pieces[i].to - 1))
Single(bytes) == [i \in 1..Len(bytes) |-> <<bytes[i]>>]

\* Pairs of neighbours whose bytes the vocabulary has, and the pair merged next:
\* the lowest rank, the leftmost of several.
RankAt(ps, i) == ht_lookup(ps[i] \o ps[i + 1])
Mergeable(ps) == {i \in 1..Len(ps) - 1 : RankAt(ps, i) >= 0}

\* Mutant: the leftmost pair of all.
NextPair_leftmost(ps) == Min(Mergeable(ps))

NextPair(ps) ==
  Min({i \in Mergeable(ps) : \A j \in Mergeable(ps) : RankAt(ps, i) <= RankAt(ps, j)})

MergeAt(ps, i) == SubSeq(ps, 1, i - 1) \o <<ps[i] \o ps[i + 1]>> \o SubSeq(ps, i + 2, Len(ps))

\* bpe_merge_count begins, merges a pair, and returns when no pair is left; a
\* long piece for which there is no memory counts its bytes.
MergeBegins ==
  /\ stage = "split" /\ (Covered > Len(text) \/ Len(pieces) = MaxPieces)
  /\ stage' = "merge" /\ parts' = Single(PieceBytes(1))
  /\ UNCHANGED <<encoding, file, read, ht, text, pieces, tokens, total>>

MergePair ==
  /\ stage = "merge" /\ Mergeable(parts) # {}
  /\ parts' = MergeAt(parts, NextPair(parts))
  /\ UNCHANGED <<encoding, file, stage, read, ht, text, pieces, tokens, total>>

Unmerged == Len(tokens) + 1

\* The special tokens of an encoding, three characters each here.
Specials ==
  IF encoding = "o200k" THEN {<<".", "a", "/">>} ELSE {<<".", "a", "/">>, <<".", "s", "/">>}

\* They are found in the text and counted besides the pieces they are part of.
count_special_tokens ==
  Cardinality({p \in 1..Len(text) - 2 : SubSeq(text, p, p + 2) \in Specials})

TokenSum(seqs) == FoldLeft(LAMBDA sum, s : sum + Len(s), 0, seqs)

MergeReturns ==
  /\ stage = "merge"
  /\ \/ Mergeable(parts) = {} /\ tokens' = Append(tokens, parts)
     \/ /\ parts = Single(PieceBytes(Unmerged)) /\ Len(parts) > MaxPieceBytes
        /\ tokens' = Append(tokens, parts)
  /\ IF Unmerged < Len(pieces)
     THEN /\ parts' = Single(PieceBytes(Unmerged + 1))
          /\ UNCHANGED <<stage, total>>
     ELSE /\ parts' = <<>> /\ stage' = "counted"
          /\ total' = TokenSum(tokens') + count_special_tokens
  /\ UNCHANGED <<encoding, file, read, ht, text, pieces>>

\* A text is asked about (counting leaves the encoder as it is, so one will do);
\* without memory for the pieces a token is four bytes.
bpe_count_tokens_n ==
  /\ stage = "ready"
  /\ text' \in Texts
  /\ \/ text' # <<>> /\ stage' = "split" /\ total' = 0
     \/ text' = <<>> /\ stage' = "unsplit" /\ total' = 0
     \/ text' # <<>> /\ stage' = "unsplit" /\ total' = Len(BytesOf(text')) \div 4 + 1
  /\ UNCHANGED <<encoding, file, read, ht, pieces, parts, tokens>>

-----------------------------------------------------------------------------
(* The estimate. *)

classify_utf8(c) ==
  CASE c \in {"A", "a", "s", "l", "1", "'"} -> "word" [] c = " " -> "space"
    [] c \in {"n", ".", "/"} -> "one" [] OTHER -> "two"

\* A word and the spaces after it cost a token for every four characters.
Flush(est) == [tokens |-> est.tokens + (est.word_chars + 3) \div 4, word_chars |-> 0]

Weigh(est, c) ==
  LET cc == classify_utf8(c)
  IN  CASE cc = "word" -> [est EXCEPT !.word_chars = @ + 1]
        [] cc = "space" -> [est EXCEPT !.word_chars = IF @ > 0 THEN @ + 1 ELSE 0]
        [] cc = "one" -> [Flush(est) EXCEPT !.tokens = @ + 1]
        [] cc = "two" -> [Flush(est) EXCEPT !.tokens = @ + 2]

tokenizer_estimate_tokens(t) ==
  LET sum == Flush(FoldLeft(Weigh, [tokens |-> 0, word_chars |-> 0], t)).tokens
  IN  IF sum = 0 /\ t # <<>> THEN 1 ELSE sum

\* tokenizer_count without an encoder.
tokenizer_count ==
  /\ stage = "estimate" /\ stage' = "estimated"
  /\ text' \in Texts
  /\ total' = tokenizer_estimate_tokens(text')
  /\ UNCHANGED <<encoding, file, read, ht, pieces, parts, tokens>>

TokensNext ==
  \/ load_vocab \/ bpe_encoder_create \/ bpe_count_tokens_n
  \/ Split \/ MergeBegins \/ MergePair \/ MergeReturns
  \/ tokenizer_count

-----------------------------------------------------------------------------
(* What is claimed. *)

\* The table gives a key the rank of its last good line so far, and other byte
\* strings none.
LinesFor(key) == {i \in 1..read : file[i].ok /\ file[i].key = key}
TableRight ==
  \A key \in {file[i].key : i \in DOMAIN file} :
    ht_lookup(key) = IF LinesFor(key) = {} THEN RANK_EMPTY ELSE file[Max(LinesFor(key))].rank

\* The pieces are not empty, follow one another and leave nothing out but what
\* comes after the last one there is room for.
PiecesTile ==
  /\ \A i \in DOMAIN pieces :
       /\ pieces[i].from = IF i = 1 THEN 1 ELSE pieces[i - 1].to
       /\ pieces[i].from < pieces[i].to /\ pieces[i].to <= Len(text) + 1
  /\ Covered = Len(text) + 1 \/ Len(pieces) = MaxPieces

\* The first alternative of the pattern written above split_cl100k that matches at p.
Pattern(p) ==
  LET prefix == IF iter_peek(p) \in Symbols \cup {"space"} THEN p + 1 ELSE p
      symbols == IF iter_peek(p) = "space" THEN p + 1 ELSE p
      blank == Run(p, Blanks)
      lineEnds == {q \in p..blank - 1 : iter_peek(q) = "newline"}
      suffix == is_contraction_suffix(p + 1)
      ends == << IF iter_peek(p) = "apostrophe" /\ suffix > 0 THEN p + 1 + suffix ELSE 0,
                 IF iter_peek(prefix) \in Letters THEN Run(prefix, Letters) ELSE 0,
                 IF iter_peek(p) = "number" THEN Min({Run(p, {"number"}), p + 3}) ELSE 0,
                 IF iter_peek(symbols) \in Symbols
                 THEN Run(Run(symbols, Symbols), {"newline"}) ELSE 0,
                 IF blank > p /\ blank > Len(text) THEN blank ELSE 0,
                 IF lineEnds # {} THEN Max(lineEnds) + 1 ELSE 0,
                 IF blank > p + 1 THEN blank - 1 ELSE 0,
                 p + 1 >>
  IN  ends[Min({k \in DOMAIN ends : ends[k] # 0})]

\* In a text of characters whose line ends are not next to spaces, the pieces are
\* those of the pattern.
Plain ==
  /\ \A i \in DOMAIN text : utf8_decode_codepoint(text[i])
  /\ \A i \in 1..Len(text) - 1 : {iter_peek(i), iter_peek(i + 1)} # Blanks
PatternFollowed ==
  encoding = "cl100k" /\ Plain => \A i \in DOMAIN pieces : pieces[i].to = Pattern(pieces[i].from)

\* Key after key in the order of the ranks, every pair of neighbours that makes
\* the key is joined, from the left.
RECURSIVE Join(_, _), ByRank(_, _)
Join(ps, key) ==
  LET at == {i \in 1..Len(ps) - 1 : ps[i] \o ps[i + 1] = key}
  IN  IF at = {} THEN ps ELSE Join(MergeAt(ps, Min(at)), key)
ByRank(ps, rank) ==
  LET keys == {file[i].key : i \in DOMAIN file}
      left == {key \in keys : ht_lookup(key) >= rank}
      next == CHOOSE key \in left : \A other \in left : ht_lookup(key) <= ht_lookup(other)
  IN  IF left = {} THEN ps ELSE ByRank(Join(ps, next), ht_lookup(next) + 1)

\* Every piece has the tokens the ranks give it, or its bytes when there was no
\* memory for more.
PiecesMerged ==
  \A i \in DOMAIN tokens :
    \/ tokens[i] = ByRank(Single(PieceBytes(i)), 0)
    \/ tokens[i] = Single(PieceBytes(i)) /\ Len(tokens[i]) > MaxPieceBytes

\* What is returned is the number of these, and of the special tokens.
TotalRight ==
  /\ Len(tokens) = Len(pieces)
  /\ total = Len(FlattenSeq(tokens))
             + Cardinality({<<p, s>> \in (1..Len(text)) \X Specials :
                              p + 2 <= Len(text) /\ SubSeq(text, p, p + 2) = s})

\* Words with the spaces in and after them, and the other characters, cost what
\* the comments say; a text is never free.
Estimated ==
  LET Word(i) == classify_utf8(text[i]) = "word"
      InWord(i) == \E j \in 1..i : Word(j) /\ \A k \in j..i : Word(k) \/ text[k] = " "
      words == {w \in (1..Len(text)) \X (1..Len(text)) :
                  /\ w[1] <= w[2] /\ \A i \in w[1]..w[2] : InWord(i)
                  /\ w[1] = 1 \/ ~InWord(w[1] - 1)
                  /\ w[2] = Len(text) \/ ~InWord(w[2] + 1)}
      Cost(i) == IF Word(i) \/ text[i] = " " THEN 0 ELSE IF text[i] \in {"n", ".", "/"} THEN 1 ELSE 2
      sum == MapThenSumSet(LAMBDA w : (w[2] - w[1] + 4) \div 4, words)
             + MapThenSumSet(Cost, DOMAIN text)
  IN  total = IF text = <<>> THEN 0 ELSE Max({1, sum})

\* bpe_count_tokens_n: the vocabulary is held as the file has it, the text is
\* split without loss and the way the pattern says, the pieces are merged in the
\* order of the ranks, and what is returned is their number and that of the
\* special tokens.  Without a vocabulary the estimate is returned.
TokensCounted ==
  /\ stage \in {"load", "ready"} => TableRight
  /\ stage = "counted" => PiecesTile /\ PatternFollowed /\ PiecesMerged /\ TotalRight
  /\ stage = "estimated" => Estimated
=============================================================================
