------------------------------- MODULE MCScan -------------------------------
(***************************************************************************)
(* Five documents in blocks of two postings: one word nearly everywhere,   *)
(* one that is rare, long and short documents, one with a rank, one whose  *)
(* links only spell the phrase between them.                               *)
(***************************************************************************)
EXTENDS Scan, TLC

Doc(title, body, anchors, rank) == [title |-> title, body |-> body, anchors |-> anchors, rank |-> rank]
MCDocuments ==
  {Doc(<< >>, <<"c">>, << >>, 0),
   Doc(<< >>, <<"c", "x", "x", "c", "x">>, << >>, 0),
   Doc(<< >>, <<"c", "x", "r">>, << >>, 0),
   Doc(<<"r">>, <<"c", "r">>, << >>, 0),
   Doc(<< >>, <<"x">>, <<<<"c">>, <<"r">>>>, 1)}
MCUri == <<3, 1, 5, 2, 4>>
MCCorpora == [1..5 -> MCDocuments] \cup {<< >>}

Want(any, none, phrases) == [terms |-> any, excluded |-> none, phrases |-> phrases]
MCQueries == {Want({"c", "r", "z"}, {}, {}), Want({"c"}, {"r"}, {}), Want({"x"}, {}, {<<"c", "r">>})}
MCGlobals == {None, [docs |-> 6, length |-> 60, freq |-> [c |-> 6, r |-> 5]]}
=============================================================================
