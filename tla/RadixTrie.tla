----------------------------- MODULE RadixTrie -----------------------------
(***************************************************************************)
(* StringRadixTrie of radix_tree.py: the tokens of texts the router has    *)
(* seen, found again by text.  A trie maps the path of every node, the     *)
(* string keys from the root to it, to the tokens the node adds; <<>> is   *)
(* the None of a node without any.  A text is a sequence of letters and a  *)
(* token the piece of text it stands for.  Log-probs and loss masks have   *)
(* the length of the tokens and are cut where they are cut.                *)
(***************************************************************************)
EXTENDS Naturals, Sequences, SequencesExt

CONSTANT Vocabulary   \* the tokens; every letter is one

Text == Seq(UNION {Range(token) : token \in Vocabulary})
ASSUME VocabularyAssumption == Vocabulary \subseteq Text

Spelled(tokens) == FlattenSeq(tokens)

\* self.tokenizer, which merges letters where it can.  A model need not generate
\* the tokens the tokenizer would give the same text.
tokenizer(text) ==
  LET Take(tokens, letter) ==
        IF tokens # <<>> /\ Append(Last(tokens), letter) \in Vocabulary
        THEN [tokens EXCEPT ![Len(tokens)] = Append(@, letter)]
        ELSE Append(tokens, <<letter>>)
  IN FoldLeft(Take, <<>>, text)

EmptyTrie == [path \in {<<>>} |-> <<>>]
With(trie, path, tokens) ==
  [p \in DOMAIN trie \cup {path} |-> IF p = path THEN tokens ELSE trie[p]]

Remaining(text, path) == SubSeq(text, Len(Spelled(path)) + 1, Len(text))

\* The node where the descent with a text ends: at each node on its way it goes on
\* to the child with the longest key that the rest of the text starts with.
Longest(key, other) == Len(other) <= Len(key)
last_node(trie, text, path) ==
  /\ IsPrefix(Spelled(path), text)
  /\ \A p \in DOMAIN trie \ {<<>>} :
       (IsPrefix(Front(p), path) /\ IsPrefix(Spelled(p), text)) =>
         Len(p) <= Len(path) /\ Longest(path[Len(p)], Last(p))

\* The tokens found on the way to it.
matched_tokens(trie, path) ==
  FlattenSeq([i \in 1 .. Len(path) |-> trie[SubSeq(path, 1, i)]])

\* _insert of a text whose descent ends at path: the tokens of the nodes that exist
\* are skipped like their text.
Skipped_ofNode(trie, path) == Len(trie[path])
Skipped(trie, path) == Len(matched_tokens(trie, path))
insert(trie, path, text, token_ids) ==
  LET rest == SubSeq(token_ids, Skipped(trie, path) + 1, Len(token_ids)) IN
  IF text = <<>> \/ token_ids = <<>> THEN trie
  ELSE IF Spelled(path) # text THEN With(trie, Append(path, Remaining(text, path)), rest)
  ELSE IF trie[path] = <<>> THEN With(trie, path, rest)
  ELSE trie

\* retrieve_from_text: the tokens of a text, and the trie after asking.
Retrieved(trie, path, text) ==
  IF matched_tokens(trie, path) # <<>>
  THEN matched_tokens(trie, path) \o tokenizer(Remaining(text, path))
  ELSE tokenizer(text)
AfterRetrieval(trie, path, text) ==
  IF matched_tokens(trie, path) # <<>> THEN trie ELSE insert(trie, path, text, tokenizer(text))
=============================================================================
