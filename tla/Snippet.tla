------------------------------- MODULE Snippet -------------------------------
(***************************************************************************)
(* The extract under a result (crates/index/src/snippet.rs): windows over  *)
(* the matches, cut from the original text on character boundaries, with   *)
(* byte ranges to highlight.                                               *)
(***************************************************************************)
EXTENDS Words

CONSTANT Reach   \* how far to look for whitespace, in bytes

MaxFragments == 3

(***************************************************************************)
(* Bytes of a text                                                         *)
(***************************************************************************)

Boundaries(text) == {Offset(text, i) : i \in 1..(Len(text) + 1)}
Floor(text, at) == Max({b \in Boundaries(text) : b <= at})
\* In the middle of a character.
BugCeil(text, at) == at
Ceil(text, at) == Min({b \in Boundaries(text) : b >= at})
\* text[from..to], which panics off the boundaries and for a range that ends
\* before it begins; nothing that is made of a panic can be cut either.
Panic == "panic"
NoOffset == -1
Slice(text, from, to) ==
  IF {from, to} \subseteq Boundaries(text) /\ from <= to
  THEN SelectSeq([i \in DOMAIN text |-> [at |-> Offset(text, i), char |-> text[i]]],
                 LAMBDA c : from <= c.at /\ c.at < to)
  ELSE <<[at |-> NoOffset, char |-> Panic]>>
Characters(slice) == [i \in DOMAIN slice |-> slice[i].char]
Blanks(text, from, to) == {c.at : c \in {d \in ToSet(Slice(text, from, to)) : d.char \in Blank \cup {Panic}}}

TrimmedEnd(s) == SubSeq(s, 1, Max({i \in 0..Len(s) : i = 0 \/ s[i] \notin Blank}))
Trimmed(s) ==
  LET end == TrimmedEnd(s)
  IN SubSeq(end, Min({i \in 1..(Len(end) + 1) : i = Len(end) + 1 \/ end[i] \notin Blank}), Len(end))

\* boundary: a character's, and a word's when one is near.
Near(text, at, backwards) ==
  LET here == Ceil(text, at)
      blanks == IF backwards THEN Blanks(text, Floor(text, Max({0, here - Reach})), here)
                ELSE Blanks(text, here, Ceil(text, Min({here + Reach, Bytes(text)})))
  IN IF here \in {0, Bytes(text)} THEN here
     ELSE IF NoOffset \in blanks THEN NoOffset
     ELSE IF backwards /\ blanks # {} /\ Max(blanks) + 1 \in Boundaries(text) THEN Max(blanks) + 1
     ELSE IF ~backwards /\ blanks # {} THEN Min(blanks)
     ELSE here

Lead(text, width) ==
  LET end == Near(text, Min({width, Bytes(text)}), FALSE)
      cut == Trimmed(Characters(Slice(text, 0, end)))
  IN IF width = 0 \/ text = << >> THEN [text |-> << >>, highlights |-> << >>]
     ELSE [text |-> IF end < Bytes(text) THEN Append(cut, Ellipsis) ELSE cut, highlights |-> << >>]

(***************************************************************************)
(* Choosing                                                                *)
(***************************************************************************)

\* best_window: from each free match as many as fit; the most different words
\* that are still wanted, then the most matches, then the earliest.
Window(spans, free, wanted, width, first) ==
  LET hits == {i \in free : i >= first /\ spans[i].end - spans[first].start <= width}
  IN [distinct |-> Cardinality({spans[i].text : i \in hits} \cap wanted),
      hits |-> Cardinality(hits), first |-> first, last |-> Max(hits \cup {first})]
Better(v, w) ==
  \/ v.distinct > w.distinct
  \/ v.distinct = w.distinct /\ v.hits > w.hits
  \/ v.distinct = w.distinct /\ v.hits = w.hits /\ v.first < w.first
BestWindow(spans, free, wanted, width) ==
  LET all == {Window(spans, free, wanted, width, first) : first \in free}
  IN CHOOSE w \in all : \A v \in all \ {w} : Better(w, v)

Free(matched, windows) == {i \in matched : \A w \in windows : i < w.first \/ i > w.last}

\* One round: a window for words that are not covered yet.
Chosen(spans, matched, width, slots, so) ==
  LET present == {spans[i].text : i \in matched}
      remaining == present \ so.covered
      free == Free(matched, so.windows)
      window == BestWindow(spans, free, remaining, width \div slots)
  IN IF remaining = {} \/ free = {} THEN so
     ELSE [windows |-> so.windows \cup {window},
           covered |-> so.covered \cup ({spans[i].text : i \in window.first..window.last} \cap present)]

(***************************************************************************)
(* Cutting                                                                 *)
(***************************************************************************)

\* What is left of the width goes around the match.
RangeOf(text, spans, width, window) ==
  LET from == spans[window.first].start
      to == spans[window.last].end
      slack == IF to - from < width THEN width - (to - from) ELSE 0
  IN [start |-> Near(text, Max({0, from - slack \div 2}), TRUE),
      end |-> Near(text, Min({to + (slack + 1) \div 2, Bytes(text)}), FALSE)]

\* Ranges that meet are one.
Joined(ranges, r) ==
  IF ranges # << >> /\ r.start <= Last(ranges).end
  THEN [ranges EXCEPT ![Len(ranges)].end = Max({@, r.end})] ELSE Append(ranges, r)

Printed(text, spans, matched, so, r) ==
  LET out == IF r.start > 0 \/ so.text # << >> THEN Append(so.text, Ellipsis) ELSE so.text
      offset == Bytes(out)
      piece == TrimmedEnd(Characters(Slice(text, r.start, r.end)))
      inside == SetToSortSeq({i \in matched : spans[i].start >= r.start /\ spans[i].end <= r.end}, <)
      moved == [k \in DOMAIN inside |-> <<offset + spans[inside[k]].start - r.start,
                                          offset + spans[inside[k]].end - r.start>>]
  IN [text |-> out \o piece,
      highlights |-> so.highlights \o SelectSeq(moved, LAMBDA h : h[2] <= offset + Bytes(piece))]

Cut(text, spans, windows, matched, width) ==
  LET order == SetToSortSeq(windows, LAMBDA v, w : v.first < w.first)
      ranges == FoldLeft(LAMBDA so, w : Joined(so, RangeOf(text, spans, width, w)), << >>, order)
      out == FoldLeft(LAMBDA so, r : Printed(text, spans, matched, so, r),
                      [text |-> << >>, highlights |-> << >>], ranges)
  IN IF Last(ranges).end < Bytes(text) THEN [out EXCEPT !.text = Append(@, Ellipsis)] ELSE out

BestSnippet(text, terms, width) ==
  LET wanted == {Fold(t) : t \in terms} \ {<< >>}
      spans == Spans(text)
      matched == {i \in DOMAIN spans : spans[i].text \in wanted}
      slots == Min({Cardinality({spans[i].text : i \in matched}), MaxFragments})
      windows == FoldLeft(LAMBDA so, n : Chosen(spans, matched, width, slots, so),
                          [windows |-> {}, covered |-> {}], [n \in 1..slots |-> n]).windows
  IN IF wanted = {} \/ width = 0 \/ matched = {} THEN Lead(text, width)
     ELSE Cut(text, spans, windows, matched, width \div Cardinality(windows))
=============================================================================
