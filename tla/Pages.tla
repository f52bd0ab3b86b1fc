-------------------------------- MODULE Pages --------------------------------
(***************************************************************************)
(* Filtered listings and the pages they are served in.  Both the listings  *)
(* of collections and those of their items are a selection of what is      *)
(* stored, in its order, of which a page is a slice.                       *)
(***************************************************************************)
EXTENDS Naturals, Sequences, SequencesExt

\* The elements of s that belong to S, in their order.  (SelectSeq takes a test
\* as its argument; with a set in its place the theorems can speak of it.)
Select(s, S) ==
  LET kept[n \in 0 .. Len(s)] ==
        IF n = 0 THEN <<>>
        ELSE IF s[n] \in S THEN Append(kept[n - 1], s[n]) ELSE kept[n - 1]
  IN kept[Len(s)]

\* OFFSET and LIMIT of a statement, and the slice of a list.
Slice(s, offset, limit) ==
  SubSeq(s, offset + 1, IF offset + limit <= Len(s) THEN offset + limit ELSE Len(s))
=============================================================================
