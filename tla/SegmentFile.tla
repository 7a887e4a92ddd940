----------------------------- MODULE SegmentFile -----------------------------
(***************************************************************************)
(* The file of a segment (crates/index: builder.rs, segment.rs): blocks    *)
(* behind one another with tables of offsets into them, and a footer that  *)
(* says where each begins.                                                 *)
(*                                                                         *)
(* A file is its body, a sequence of cells, and what its last bytes say    *)
(* when they are read as a footer.  A number is a cell whatever its width, *)
(* and so is a character; a document's record is two cells.  A digest is   *)
(* what it is taken of: equal digests are equal bodies.  What is built is  *)
(* documents [uri, length, rank] and, for each term, a list of postings    *)
(* [docs, blocks, cells] with the blocks [first, at, bound] of its index.  *)
(***************************************************************************)
EXTENDS Integers, Sequences, SequencesExt, FiniteSetsExt

Version == 8
DocRecord == 2
Missing == [found |-> FALSE]

\* By bytes; a term comes before those it begins.
Before(a, b) ==
  \E k \in DOMAIN b : /\ Len(a) >= k - 1 /\ SubSeq(a, 1, k - 1) = SubSeq(b, 1, k - 1)
                      /\ k > Len(a) \/ a[k] < b[k]

Digest(body) == body
Usable(params) == params >= 0

(***************************************************************************)
(* SegmentBuilder::encode                                                  *)
(***************************************************************************)

\* Where each part begins when they stand behind one another, and the end.
Starts(parts) == [i \in 1..(Len(parts) + 1) |-> MapThenSumSet(LAMBDA j : Len(parts[j]), 1..(i - 1))]

SortedTerms(built) == SetToSortSeq(DOMAIN built.lists, Before)

ListCells(list) ==
  <<list.docs, Len(list.blocks)>>
    \o FlattenSeq([k \in DOMAIN list.blocks |-> <<list.blocks[k].first, list.blocks[k].at, list.blocks[k].bound>>])
    \o list.cells

DocCells(docs) == FlattenSeq([id \in DOMAIN docs |-> <<docs[id].length, docs[id].rank>>])

EntryCells(term, at, docs) == <<Len(term)>> \o term \o <<at, docs>>

Sections(built) ==
  LET terms == SortedTerms(built)
      lists == [i \in DOMAIN terms |-> ListCells(built.lists[terms[i]])]
      uris == [id \in DOMAIN built.docs |-> built.docs[id].uri]
      entries == [i \in DOMAIN terms |-> EntryCells(terms[i], Starts(lists)[i], built.lists[terms[i]].docs)]
  IN <<FlattenSeq(lists), DocCells(built.docs), Starts(uris), FlattenSeq(uris),
       FlattenSeq(entries), Front(Starts(entries))>>

EncodedFile(built) ==
  LET sections == Sections(built)
      body == FlattenSeq(sections)
  IN [body |-> body,
      footer |-> [magic |-> TRUE, version |-> Version, begins |-> Front(Starts(sections)),
                  terms |-> Cardinality(DOMAIN built.lists), docs |-> Len(built.docs),
                  totalLength |-> MapThenSumSet(LAMBDA id : built.docs[id].length, DOMAIN built.docs),
                  digest |-> Digest(body), params |-> built.params]]

(***************************************************************************)
(* Segment.  Its blocks begin at: postings, documents, uri offsets, uris,  *)
(* dictionary, term offsets, counted from nought.                          *)
(***************************************************************************)

\* from_backing.  A file is refused unless the blocks are in order and the
\* tables of fixed width end inside the body.
Opens(file) ==
  LET f == file.footer
      size == Len(file.body)
  IN /\ f.magic /\ f.version = Version /\ Usable(f.params)
     /\ f.begins[6] <= size
     /\ \A k \in 1..5 : f.begins[k] <= f.begins[k + 1]
     /\ f.begins[6] + f.terms <= size
     /\ f.begins[2] + f.docs * DocRecord <= size
     /\ f.begins[3] + f.docs + 1 <= size

Verified(file) == Digest(file.body) = file.footer.digest

Cell(file, at) == file.body[at + 1]
Inside(file, from, to) == from <= to /\ to <= Len(file.body)
Cells(file, from, to) == SubSeq(file.body, from + 1, to)

DocLengths(file, id) ==
  IF id > file.footer.docs THEN Missing
  ELSE LET at == file.footer.begins[2] + (id - 1) * DocRecord
       IN [found |-> TRUE, length |-> Cell(file, at), rank |-> Cell(file, at + 1)]

\* An offset of the table and the next.
DocUri(file, id) ==
  LET table == file.footer.begins[3] + id - 1
      from == file.footer.begins[4] + Cell(file, table)
      to == file.footer.begins[4] + Cell(file, table + 1)
  IN IF id > file.footer.docs \/ ~Inside(file, from, to) THEN Missing
     ELSE [found |-> TRUE, uri |-> Cells(file, from, to)]

\* The dictionary's entry number i, counted from nought.
EntryAt(file, i) ==
  LET from == file.footer.begins[5] + Cell(file, file.footer.begins[6] + i)
      size == Cell(file, from)
  IN IF ~Inside(file, from, from + size + 3) THEN Missing
     ELSE [found |-> TRUE, term |-> Cells(file, from + 1, from + 1 + size),
           at |-> Cell(file, from + 1 + size), docs |-> Cell(file, from + 2 + size)]

TermsOf(file) == [i \in 1..file.footer.terms |-> EntryAt(file, i - 1).term]

\* The lower half ends before its last entry.
BugLookup(file, term) ==
  LET search[r \in (0..file.footer.terms) \X (0..file.footer.terms)] ==
        LET mid == r[1] + (r[2] - r[1]) \div 2
            entry == EntryAt(file, mid)
        IN IF r[1] >= r[2] THEN Missing
           ELSE IF ~entry.found \/ entry.term = term THEN entry
           ELSE IF Before(entry.term, term) THEN search[<<mid + 1, r[2]>>]
           ELSE search[<<r[1], IF mid = 0 THEN 0 ELSE mid - 1>>]
  IN search[<<0, file.footer.terms>>]

\* By halves of what is left of the dictionary.
Lookup(file, term) ==
  LET search[r \in (0..file.footer.terms) \X (0..file.footer.terms)] ==
        LET mid == r[1] + (r[2] - r[1]) \div 2
            entry == EntryAt(file, mid)
        IN IF r[1] >= r[2] THEN Missing
           ELSE IF ~entry.found \/ entry.term = term THEN entry
           ELSE IF Before(entry.term, term) THEN search[<<mid + 1, r[2]>>]
           ELSE search[<<r[1], mid>>]
  IN search[<<0, file.footer.terms>>]

DocumentFrequency(file, term) == IF Lookup(file, term).found THEN Lookup(file, term).docs ELSE 0

\* A list's header: how many documents, and the blocks of its index, which
\* are counted from behind the header.
TermBlocks(file, term) ==
  LET entry == Lookup(file, term)
      at == Max({file.footer.begins[1], entry.at})
      body == at + 2 + 3 * Cell(file, at + 1)
      block(k) == at + 2 + 3 * (k - 1)
  IN IF ~entry.found THEN Missing
     ELSE [found |-> TRUE, docs |-> Cell(file, at),
           blocks |-> [k \in 1..Cell(file, at + 1) |->
             [first |-> Cell(file, block(k)), at |-> body + Cell(file, block(k) + 1),
              bound |-> Cell(file, block(k) + 2)]]]
=============================================================================
