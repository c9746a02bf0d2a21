---------------------------- MODULE MCSnbQueries ----------------------------
(***************************************************************************)
(* A small instance of SnbQueries for TLC.  Imported are four persons in   *)
(* three countries of whom two know each other, two posts, one with two    *)
(* comments, three forums that share members, and three tag classes one    *)
(* below the other.  The updates bring friendships that can close rings of *)
(* four and five persons, a fifth person, a thread, likes and a member of  *)
(* a forum.                                                                *)
(***************************************************************************)
EXTENDS SnbQueries

CsvData ==
  [place |-> <<[id |-> 0, isPartOf |-> 2], [id |-> 1, isPartOf |-> 4],
               [id |-> 2, isPartOf |-> NoId], [id |-> 3, isPartOf |-> NoId],
               [id |-> 4, isPartOf |-> NoId], [id |-> 5, isPartOf |-> 3]>>,
   tagclass |-> <<[id |-> 1, isSubclassOf |-> NoId], [id |-> 2, isSubclassOf |-> 1],
                  [id |-> 3, isSubclassOf |-> 2]>>,
   tag |-> <<[id |-> 1, hasType |-> 3], [id |-> 2, hasType |-> 1]>>,
   person |-> <<[id |-> 1, place |-> 1], [id |-> 2, place |-> 0],
                [id |-> 3, place |-> 1], [id |-> 4, place |-> 5]>>,
   forum |-> <<[id |-> 1, moderator |-> 1], [id |-> 2, moderator |-> 4],
               [id |-> 3, moderator |-> 2]>>,
   post |-> <<[id |-> 1, creator |-> 1, Forum_id |-> 1, place |-> 2],
              [id |-> 8, creator |-> 3, Forum_id |-> 2, place |-> 3]>>,
   post_hasTag_tag |-> <<[c0 |-> 1, c1 |-> 1]>>,
   comment |-> <<[id |-> 3, creator |-> 2, place |-> 3, replyOfPost |-> 1,
                  replyOfComment |-> NoId],
                 [id |-> 7, creator |-> 4, place |-> 2, replyOfPost |-> 1,
                  replyOfComment |-> NoId]>>,
   person_knows_person |-> <<[c0 |-> 1, c1 |-> 2, c2 |-> 1]>>,
   forum_hasMember_person |->
     <<[c0 |-> 1, c1 |-> 2, c2 |-> 15], [c0 |-> 2, c1 |-> 2, c2 |-> 10],
       [c0 |-> 2, c1 |-> 3, c2 |-> 12], [c0 |-> 3, c1 |-> 2, c2 |-> 16],
       [c0 |-> 3, c1 |-> 3, c2 |-> 14]>>]

SmallCsv == CsvData @@ [f \in {r.file : r \in ToSet(Relations)} |-> <<>>]

Befriend(a, b) == [kind |-> 8, a |-> a, b |-> b, date |-> a + b]

MixedUpdates == {
  Befriend(1, 3), Befriend(2, 4), Befriend(4, 3), Befriend(4, 5),
  Befriend(5, 3),
  [kind |-> 1, id |-> 5, place |-> 1, tags |-> <<>>, study_at |-> <<>>, work_at |-> <<>>],
  [kind |-> 7, id |-> 4, creator |-> 3, place |-> 3, post |-> NoId,
   comment |-> 3, tags |-> <<>>],
  [kind |-> 7, id |-> 5, creator |-> 4, place |-> 2, post |-> NoId,
   comment |-> 4, tags |-> <<>>],
  [kind |-> 6, id |-> 2, creator |-> 3, forum |-> 1, place |-> 2, tags |-> <<2>>],
  [kind |-> 7, id |-> 6, creator |-> 5, place |-> 3, post |-> 1,
   comment |-> NoId, tags |-> <<>>],
  [kind |-> 2, a |-> 4, b |-> 2, date |-> 20],
  [kind |-> 3, a |-> 4, b |-> 4, date |-> 25],
  [kind |-> 5, a |-> 1, b |-> 3, date |-> 12] }

PersonData(last_name, first_name) == [last_name |-> last_name, first_name |-> first_name]
MessageData(date) == [creation_date |-> date]

AllData ==
  (encode_vid(Person, 1) :> PersonData(1, "A")) @@ (encode_vid(Person, 2) :> PersonData(2, "B"))
    @@ (encode_vid(Person, 3) :> PersonData(1, "A")) @@ (encode_vid(Person, 4) :> PersonData(2, "A"))
    @@ (encode_vid(Person, 5) :> PersonData(1, "A"))
    @@ (encode_vid(Post, 1) :> MessageData(10)) @@ (encode_vid(Post, 2) :> MessageData(14))
    @@ (encode_vid(Comment, 3) :> MessageData(12)) @@ (encode_vid(Comment, 4) :> MessageData(14))
    @@ (encode_vid(Comment, 5) :> MessageData(20)) @@ (encode_vid(Comment, 6) :> MessageData(20))
    @@ (encode_vid(Comment, 7) :> MessageData(11)) @@ (encode_vid(Post, 8) :> MessageData(15))

=============================================================================
