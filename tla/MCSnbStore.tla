----------------------------- MODULE MCSnbStore -----------------------------
(***************************************************************************)
(* A small instance of SnbStore for TLC: an import of two persons who know *)
(* each other and live in one place, a stream that adds a third one, tells *)
(* of an old friendship again and of a new one, and one update of every    *)
(* kind for the server.                                                    *)
(***************************************************************************)
EXTENDS SnbStore

CsvData ==
  [person |-> <<[id |-> 1, place |-> 0], [id |-> 2, place |-> 0]>>,
   place |-> <<[id |-> 0, isPartOf |-> NoId]>>,
   person_knows_person |-> <<[c0 |-> 1, c1 |-> 2, c2 |-> 10]>>]

SmallCsv ==
  CsvData @@ [f \in {r.file : r \in ToSet(Relations)} |-> <<>>]

SmallStream == <<
  [kind |-> 1, id |-> 3, place |-> 0, tags |-> <<>>,
   study_at |-> <<>>, work_at |-> <<>>],
  [kind |-> 8, a |-> 2, b |-> 1, date |-> 20],
  [kind |-> 8, a |-> 1, b |-> 3, date |-> 30] >>

EveryUpdate == {
  [kind |-> 1, id |-> 4, place |-> 0, tags |-> <<1, 2>>,
   study_at |-> <<[org |-> 1, year |-> 5]>>, work_at |-> <<[org |-> 2, year |-> 6]>>],
  [kind |-> 2, a |-> 1, b |-> 5, date |-> 40],
  [kind |-> 3, a |-> 1, b |-> 6, date |-> 41],
  [kind |-> 4, id |-> 7, moderator |-> 1, tags |-> <<1>>],
  [kind |-> 5, a |-> 7, b |-> 2, date |-> 42],
  [kind |-> 6, id |-> 5, creator |-> 1, forum |-> 7, place |-> 0, tags |-> <<2>>],
  [kind |-> 7, id |-> 6, creator |-> 2, place |-> 0, post |-> 5,
   comment |-> NoId, tags |-> <<1>>],
  [kind |-> 7, id |-> 8, creator |-> 1, place |-> 0, post |-> NoId,
   comment |-> 6, tags |-> <<>>],
  [kind |-> 8, a |-> 1, b |-> 2, date |-> 43] }

ASSUME ReferentialAssumption == Referential

=============================================================================
