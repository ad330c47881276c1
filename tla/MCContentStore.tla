---------------------------- MODULE MCContentStore ----------------------------
(* Small instances of ContentStore for TLC. *)
EXTENDS ContentStore

CONSTANTS pa, pb, pc, tFoo, tFOO, tFoo2, tBar, foo, bar, rel, odd

(* Three files; document ids go against the order of the listing. *)
MCPathOrder == <<pa, pb>>
MCDocumentId == pa :> 2 @@ pb :> 1

(* Two titles with one slug, and one whose slug is what a collision makes. *)
MCSlugify == tFoo :> <<foo>> @@ tFOO :> <<foo>> @@ tFoo2 :> <<foo, 2>> @@ tBar :> <<bar>>

(* A text that two of the titles have a part of, and one that none has. *)
MCTitlesWith == tFoo :> {tFoo, tFoo2} @@ odd :> {}

H(level, title) == [level |-> level, title |-> title]
R(from, type, to) == [from |-> from, type |-> type, to |-> to]
F(headings, relationships) == [headings |-> headings, relationships |-> relationships]

(* A plain document that refers to the root of pb; the same with its root
   retitled; a document with skipped levels and two roots, whose first
   relationship has an unknown type and whose second starts from a slug; and
   one without headings. *)
MCFile == {
  F(<<H(1, tFoo), H(2, tBar)>>, <<R(<<1, 1>>, rel, <<1, <<1>>>>)>>),
  F(<<H(1, tFOO), H(2, tBar)>>, <<R(<<1, 1>>, rel, <<1, <<1>>>>)>>),
  F(<<H(2, tFoo2), H(3, tBar), H(3, tFoo), H(1, tBar)>>,
    <<R(<<1>>, odd, <<1, <<1>>>>), R(<<bar>>, rel, <<2, <<1, 1>>>>)>>),
  F(<<>>, <<>>) }

(* Nothing tells two jobs apart. *)
MCJobs == Permutations(Job)
=============================================================================
