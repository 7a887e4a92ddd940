-------------------------------- MODULE Words --------------------------------
(***************************************************************************)
(* From text to terms and from what was typed to a query (crates/index:    *)
(* tokenizer.rs, query.rs).                                                *)
(*                                                                         *)
(* A text is a sequence of characters; a character is a name with the few  *)
(* things the code asks of it.  What two characters of the same kind would *)
(* do differently is left out.                                             *)
(***************************************************************************)
EXTENDS Integers, Sequences, SequencesExt, FiniteSetsExt, TLC

Quote == "quote"
Minus == "-"
Space == " "
WideSpace == "nbsp"
Blank == {Space, WideSpace}
Ellipsis == "..."

\* Letters and digits: n and e with and without accent and capital, and a
\* capital I with a dot, which lowercases to two characters.
Letters == {"n", "N", "n~", "N~", "e", "E", "i", "Idot"}
CombiningDot == "dot"

\* Bytes of a character in UTF-8.
Width(c) == IF c \in {"n~", "N~", "Idot", CombiningDot, WideSpace} THEN 2 ELSE IF c = Ellipsis THEN 3 ELSE 1

Lowercase(c) ==
  CASE c = "N" -> <<"n">> [] c = "E" -> <<"e">> [] c = "N~" -> <<"n~">>
    [] c = "Idot" -> <<"i", CombiningDot>> [] OTHER -> <<c>>

FoldChar(c) == IF c = "n~" THEN "n" ELSE c

Fold(text) ==
  FlattenSeq([i \in DOMAIN text |->
    [k \in DOMAIN Lowercase(text[i]) |-> FoldChar(Lowercase(text[i])[k])]])

\* The stretches of letters, as intervals of the text, from the left.
Runs(text) ==
  LET letters == {i \in DOMAIN text : text[i] \in Letters}
      starts == {i \in letters : i - 1 \notin letters}
      ending(i) == Min({j \in letters : j >= i /\ j + 1 \notin letters})
  IN [k \in 1..Cardinality(starts) |->
        LET i == CHOOSE s \in starts : Cardinality({r \in starts : r < s}) = k - 1
        IN <<i, ending(i)>>]
Offset(text, i) == MapThenSumSet(LAMBDA j : Width(text[j]), 1..(i - 1))
Bytes(text) == Offset(text, Len(text) + 1)

\* scan: split by what the characters are, then lowercase and fold.
Spans(text) ==
  [k \in DOMAIN Runs(text) |->
     LET first == Runs(text)[k][1]
         last == Runs(text)[k][2]
     IN [text |-> Fold(SubSeq(text, first, last)), position |-> k - 1,
         start |-> Offset(text, first), end |-> Offset(text, last + 1)]]
Tokens(text) == [k \in DOMAIN Spans(text) |-> Spans(text)[k].text]

(***************************************************************************)
(* parse: fold, then split by what the folded characters are.              *)
(***************************************************************************)

SplitWords(folded) ==
  [k \in DOMAIN Runs(folded) |-> SubSeq(folded, Runs(folded)[k][1], Runs(folded)[k][2])]

\* Neighbours that are equal become one.
Deduped(s) ==
  LET kept == {i \in DOMAIN s : i = 1 \/ s[i] # s[i - 1]}
  IN [k \in 1..Cardinality(kept) |-> s[CHOOSE i \in kept : Cardinality({j \in kept : j < i}) = k - 1]]

Parsing == [terms |-> << >>, excluded |-> << >>, phrases |-> << >>,
            current |-> << >>, negated |-> FALSE, quoted |-> FALSE]

Flushed(p) ==
  IF p.current = << >> THEN p
  ELSE LET words == SplitWords(Fold(p.current))
       IN [p EXCEPT !.terms = IF p.negated THEN @ ELSE @ \o words,
                    !.excluded = IF p.negated THEN @ \o words ELSE @,
                    !.current = << >>, !.negated = FALSE]

\* The end of a phrase, or of a text that never closes it.
Closed(p) ==
  LET words == SplitWords(Fold(p.current))
  IN [p EXCEPT !.terms = IF Len(words) = 1 THEN @ \o words ELSE @,
               !.phrases = IF Len(words) > 1 THEN Append(@, words) ELSE @,
               !.current = << >>, !.quoted = FALSE]

Typed(p, c) ==
  CASE p.quoted /\ c = Quote -> Closed(p)
    [] p.quoted /\ c # Quote -> [p EXCEPT !.current = Append(@, c)]
    [] ~p.quoted /\ c = Quote -> [Flushed(p) EXCEPT !.quoted = TRUE]
    [] ~p.quoted /\ c = Minus /\ p.current = << >> -> [p EXCEPT !.negated = TRUE]
    [] ~p.quoted /\ c \in Blank -> Flushed(p)
    [] OTHER -> [p EXCEPT !.current = Append(@, c)]

Parse(input) ==
  LET read == FoldLeft(Typed, Parsing, input)
      last == IF read.quoted THEN Closed(read) ELSE Flushed(read)
  IN [terms |-> Deduped(last.terms), excluded |-> last.excluded, phrases |-> last.phrases]
=============================================================================
