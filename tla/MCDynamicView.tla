--------------------------- MODULE MCDynamicView ----------------------------
(***************************************************************************)
(* A small instance of DynamicView for TLC.  The delta has a source with   *)
(* two types, one of the same label with a smaller id, and one of another  *)
(* label.  The input "whole" has a comment that replies to a comment of a  *)
(* later row and is itself answered by one of a row later still, a person  *)
(* with more likes than one chunk takes and vertices without edges; in     *)
(* "dangling" somebody likes a post that does not exist.                   *)
(***************************************************************************)
EXTENDS DynamicView

FourEdges == {[src |-> 2, edge_type |-> 1, dst |-> 1],
              [src |-> 3, edge_type |-> -1, dst |-> 1],
              [src |-> 3, edge_type |-> 1, dst |-> 1],
              [src |-> 4, edge_type |-> 1, dst |-> 1]}

Table(header, rows) == [header |-> header, rows |-> rows]

WholeInput ==
  [place |-> Table(<<"id", "isPartOf">>, <<<<70, 71>>, <<71, Empty>>>>),
   organisation |-> Table(<<"id", "place">>, <<<<80, 71>>>>),
   tagclass |-> Table(<<"id", "isSubclassOf">>, <<<<91, Empty>>>>),
   tag |-> Table(<<"id", "hasType">>, <<<<90, 91>>>>),
   person |-> Table(<<"id", "place">>, <<<<30, 70>>, <<10, 71>>, <<20, 70>>>>),
   forum |-> Table(<<"id", "moderator">>, <<<<60, 20>>, <<61, 10>>>>),
   post |-> Table(<<"id", "creator", "Forum.id", "place">>,
                  <<<<2, 10, 60, 70>>, <<1, 20, 60, 71>>, <<3, 10, 61, 70>>,
                    <<8, 30, 61, 70>>>>),
   comment |-> Table(<<"id", "creator", "place", "replyOfPost", "replyOfComment">>,
                     <<<<4, 30, 70, Empty, 6>>, <<5, 10, 70, Empty, Empty>>,
                       <<6, 20, 71, 1, Empty>>, <<7, 30, 71, 2, Empty>>,
                       <<9, 10, 70, Empty, 4>>>>),
   knows |-> Table(<<"Person.id", "Person.id">>, <<<<10, 20>>, <<10, 30>>>>),
   likes_post |-> Table(<<"Person.id", "Post.id">>,
                        <<<<10, 2>>, <<20, 8>>, <<10, 1>>, <<10, 3>>>>),
   likes_comment |-> Table(<<"Person.id", "Comment.id">>,
                           <<<<30, 6>>, <<10, 6>>>>),
   has_member |-> Table(<<"Forum.id", "Person.id">>, <<<<61, 30>>, <<61, 20>>>>),
   has_interest |-> Table(<<"Person.id", "Tag.id">>, <<<<10, 90>>>>),
   study_at |-> Table(<<"Person.id", "Organisation.id">>, <<<<10, 80>>>>),
   work_at |-> Table(<<"Person.id", "Organisation.id">>, <<<<20, 80>>>>),
   forum_tag |-> Table(<<"Forum.id", "Tag.id">>, <<<<60, 90>>>>),
   comment_tag |-> Table(<<"Comment.id", "Tag.id">>, <<<<6, 90>>>>),
   post_tag |-> Table(<<"Post.id", "Tag.id">>, <<<<1, 90>>>>)]

SomeCsv ==
  [whole |-> WholeInput,
   dangling |-> [WholeInput EXCEPT !.likes_post.rows = Append(@, <<30, 9>>)]]

SomeCalls ==
  {[csr |-> {<<"OUT", "PERSON_LIKES_POST">>}, base_src |-> {1},
    delta_src |-> 3, edge_type |-> {1}],
   [csr |-> {<<"IN", "FORUM_HAS_MEMBER">>}, base_src |-> {0},
    delta_src |-> 3, edge_type |-> NoEdgeType],
   [csr |-> {<<"IN", "PERSON_LIKES_POST">>}, base_src |-> {4},
    delta_src |-> 2, edge_type |-> {1}],
   [csr |-> {<<"OUT", "PERSON_LIKES_COMMENT">>}, base_src |-> {},
    delta_src |-> 4, edge_type |-> {1}],
   [csr |-> {<<"derived", "COMMENT_CHILD_COMMENTS">>}, base_src |-> {2},
    delta_src |-> 3, edge_type |-> {1}]}

=============================================================================
