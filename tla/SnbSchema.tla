----------------------------- MODULE SnbSchema ------------------------------
(***************************************************************************)
(* What the rows of the LDBC SNB data mean: which vertices and which       *)
(* directed edges, with which property, come from a CSV file of the full   *)
(* import and from an update of the update streams (src/snb/               *)
(* full_loader.rs), and from the same update sent to the HTTP adapter      *)
(* (src/snb/queries.rs).                                                   *)
(*                                                                         *)
(* An update is a record whose kind is the number that both interfaces     *)
(* use.  An id that is not there is NoId.  A property is a set: empty for  *)
(* EdgeProp::Empty.                                                        *)
(***************************************************************************)
EXTENDS EdgeRecords, SequencesExt

NoId == -1
EmptyProp == {}

Person == 1
Comment == 2
Post == 3
Forum == 4
Organisation == 5
Place == 6
Tag == 7
TagClass == 8

Knows == 1
HasCreator == 2
HasTag == 3
HasType == 4
IsLocatedIn == 5
IsPartOf == 6
LikesComment == 7
LikesPost == 8
ReplyOfComment == 9
ReplyOfPost == 10
ContainerOf == 11
HasMember == 12
HasModerator == 13
HasInterest == 14
StudyAt == 15
WorkAt == 16
IsSubclassOf == 17

encode_vid(label, external_id) == (label * LabelSpan) + (external_id % LabelSpan)

Key(src, edge_type, dst) == [src |-> src, edge_type |-> edge_type, dst |-> dst]

ForEach(seq, Op(_)) == FlattenSeq([i \in DOMAIN seq |-> Op(seq[i])])

-----------------------------------------------------------------------------
(* The loader: directed writes as [key, prop].                             *)

insert_forward_reverse(src, label, dst, prop, include_reverse) ==
  <<[key |-> Key(src, label, dst), prop |-> prop]>>
    \o IF include_reverse
         THEN <<[key |-> Key(dst, -label, src), prop |-> prop]>> ELSE <<>>

\* An edge of a label that is stored in both directions has no second
\* reverse.
LoadEdge(src, label, dst, prop, bidirectional_positive) ==
  insert_forward_reverse(src, label, dst, prop, TRUE)
    \o IF bidirectional_positive
         THEN insert_forward_reverse(dst, label, src, prop, FALSE) ELSE <<>>

Relation(file, src, src_col, label, dst, dst_col, bidirectional, prop_col) ==
  [file |-> file, src |-> src, src_col |-> src_col, label |-> label,
   dst |-> dst, dst_col |-> dst_col, bidirectional |-> bidirectional,
   prop_col |-> prop_col]

Plain(file, src, src_col, label, dst, dst_col) ==
  Relation(file, src, src_col, label, dst, dst_col, FALSE, "")

\* The relations of the full import in their order.  Columns without a name
\* are c0, c1 and c2.
Relations == <<
  Relation("person_knows_person", Person, "c0", Knows, Person, "c1", TRUE, "c2"),
  Relation("person_likes_comment", Person, "c0", LikesComment, Comment, "c1", FALSE, "c2"),
  Relation("person_likes_post", Person, "c0", LikesPost, Post, "c1", FALSE, "c2"),
  Plain("person_hasInterest_tag", Person, "c0", HasInterest, Tag, "c1"),
  Relation("person_studyAt_organisation", Person, "c0", StudyAt, Organisation, "c1", FALSE, "c2"),
  Relation("person_workAt_organisation", Person, "c0", WorkAt, Organisation, "c1", FALSE, "c2"),
  Relation("forum_hasMember_person", Forum, "c0", HasMember, Person, "c1", FALSE, "c2"),
  Plain("forum_hasTag_tag", Forum, "c0", HasTag, Tag, "c1"),
  Plain("comment_hasTag_tag", Comment, "c0", HasTag, Tag, "c1"),
  Plain("post_hasTag_tag", Post, "c0", HasTag, Tag, "c1"),
  Plain("person", Person, "id", IsLocatedIn, Place, "place"),
  Plain("forum", Forum, "id", HasModerator, Person, "moderator"),
  Plain("post", Post, "id", HasCreator, Person, "creator"),
  Plain("post", Forum, "Forum_id", ContainerOf, Post, "id"),
  Plain("post", Post, "id", IsLocatedIn, Place, "place"),
  Plain("comment", Comment, "id", HasCreator, Person, "creator"),
  Plain("comment", Comment, "id", IsLocatedIn, Place, "place"),
  Plain("comment", Comment, "id", ReplyOfPost, Post, "replyOfPost"),
  Plain("comment", Comment, "id", ReplyOfComment, Comment, "replyOfComment"),
  Plain("organisation", Organisation, "id", IsLocatedIn, Place, "place"),
  Plain("place", Place, "id", IsPartOf, Place, "isPartOf"),
  Plain("tag", Tag, "id", HasType, TagClass, "hasType"),
  Plain("tagclass", TagClass, "id", IsSubclassOf, TagClass, "isSubclassOf") >>

VertexFiles == <<
  <<"place", Place>>, <<"organisation", Organisation>>, <<"tag", Tag>>,
  <<"tagclass", TagClass>>, <<"person", Person>>, <<"forum", Forum>>,
  <<"post", Post>>, <<"comment", Comment>> >>

\* csv maps the name of a file to its rows.
import_vertices(csv) ==
  ForEach(VertexFiles,
    LAMBDA f : [i \in DOMAIN csv[f[1]] |-> encode_vid(f[2], csv[f[1]][i].id)])

import_edge_file(csv, r) ==
  ForEach(csv[r.file],
    LAMBDA row :
      IF row[r.src_col] = NoId \/ row[r.dst_col] = NoId THEN <<>>
      ELSE LoadEdge(encode_vid(r.src, row[r.src_col]), r.label,
                    encode_vid(r.dst, row[r.dst_col]),
                    IF r.prop_col = "" THEN EmptyProp ELSE {row[r.prop_col]},
                    r.bidirectional))

import_edges(csv) == ForEach(Relations, LAMBDA r : import_edge_file(csv, r))

\* The rows of a rebuilt property file; only relations with a property are
\* read.
rebuild_snb_edge_props(csv) ==
  ForEach(Relations,
    LAMBDA r : IF r.prop_col = "" THEN <<>> ELSE import_edge_file(csv, r))

-----------------------------------------------------------------------------
(* Updates.                                                                *)

\* The vertex that an update adds, as a sequence of at most one.
AddedVertex(u) ==
  CASE u.kind = 1 -> <<encode_vid(Person, u.id)>>
    [] u.kind = 4 -> <<encode_vid(Forum, u.id)>>
    [] u.kind = 6 -> <<encode_vid(Post, u.id)>>
    [] u.kind = 7 -> <<encode_vid(Comment, u.id)>>
    [] OTHER -> <<>>

\* An id that may be missing, and the ids of a list without NoId.
Present(ids) == ForEach(ids, LAMBDA id : IF id = NoId THEN <<>> ELSE <<id>>)

StreamEdges(label, u, to, ids, edge_label) ==
  ForEach(ids,
    LAMBDA id : LoadEdge(encode_vid(label, u.id), edge_label,
                         encode_vid(to, id), EmptyProp, FALSE))

StreamYears(u, orgs, edge_label) ==
  ForEach(orgs,
    LAMBDA o : LoadEdge(encode_vid(Person, u.id), edge_label,
                        encode_vid(Organisation, o.org), {o.year}, FALSE))

apply_binary_update_edge(src, dst, u, label, bidirectional_positive) ==
  LoadEdge(encode_vid(src, u.a), label, encode_vid(dst, u.b), {u.date},
           bidirectional_positive)

apply_add_person(u) ==
  StreamEdges(Person, u, Place, <<u.place>>, IsLocatedIn)
    \o StreamEdges(Person, u, Tag, Present(u.tags), HasInterest)
    \o StreamYears(u, u.study_at, StudyAt)
    \o StreamYears(u, u.work_at, WorkAt)

apply_add_forum(u) ==
  StreamEdges(Forum, u, Person, <<u.moderator>>, HasModerator)
    \o StreamEdges(Forum, u, Tag, Present(u.tags), HasTag)

apply_add_post(u) ==
  StreamEdges(Post, u, Person, <<u.creator>>, HasCreator)
    \o LoadEdge(encode_vid(Forum, u.forum), ContainerOf,
                encode_vid(Post, u.id), EmptyProp, FALSE)
    \o StreamEdges(Post, u, Place, <<u.place>>, IsLocatedIn)
    \o StreamEdges(Post, u, Tag, Present(u.tags), HasTag)

apply_add_comment(u) ==
  StreamEdges(Comment, u, Person, <<u.creator>>, HasCreator)
    \o StreamEdges(Comment, u, Place, <<u.place>>, IsLocatedIn)
    \o StreamEdges(Comment, u, Post, Present(<<u.post>>), ReplyOfPost)
    \o StreamEdges(Comment, u, Comment, Present(<<u.comment>>), ReplyOfComment)
    \o StreamEdges(Comment, u, Tag, Present(u.tags), HasTag)

\* The writes for one line of an update stream; unknown kinds have none.
import_update(u) ==
  CASE u.kind = 1 -> apply_add_person(u)
    [] u.kind = 2 -> apply_binary_update_edge(Person, Post, u, LikesPost, FALSE)
    [] u.kind = 3 -> apply_binary_update_edge(Person, Comment, u, LikesComment, FALSE)
    [] u.kind = 4 -> apply_add_forum(u)
    [] u.kind = 5 -> apply_binary_update_edge(Forum, Person, u, HasMember, FALSE)
    [] u.kind = 6 -> apply_add_post(u)
    [] u.kind = 7 -> apply_add_comment(u)
    [] u.kind = 8 -> apply_binary_update_edge(Person, Person, u, Knows, TRUE)
    [] OTHER -> <<>>

-----------------------------------------------------------------------------
(* The HTTP adapter.                                                       *)

insert_edge_cached(src, dst, edge_label, prop, include_reverse) ==
  <<[key |-> Key(src, edge_label, dst), prop |-> prop]>>
    \o IF include_reverse
         THEN <<[key |-> Key(dst, -edge_label, src), prop |-> prop]>> ELSE <<>>

\* Slip: an edge of both directions is inserted in one.
insert_update_edge_once(src, dst, edge_label, prop, bidirectional_positive) ==
  insert_edge_cached(src, dst, edge_label, prop, TRUE)

insert_update_edge(src, dst, edge_label, prop, bidirectional_positive) ==
  insert_edge_cached(src, dst, edge_label, prop, TRUE)
    \o IF bidirectional_positive
         THEN insert_edge_cached(dst, src, edge_label, prop, FALSE) ELSE <<>>

CachedEdges(vid, to, ids, edge_label) ==
  ForEach(ids, LAMBDA id : insert_edge_cached(vid, encode_vid(to, id),
                                              edge_label, EmptyProp, TRUE))

CachedYears(vid, orgs, edge_label) ==
  ForEach(orgs, LAMBDA o : insert_edge_cached(vid, encode_vid(Organisation, o.org),
                                              edge_label, {o.year}, TRUE))

optional_positive_i64(value) == IF value >= 0 THEN <<value>> ELSE <<>>

\* The insertions of run_dgs_http_update; other kinds are refused.
run_dgs_http_update(u) ==
  CASE u.kind = 1 ->
         LET vid == encode_vid(Person, u.id)
         IN CachedEdges(vid, Place, <<u.place>>, IsLocatedIn)
              \o CachedEdges(vid, Tag, u.tags, HasInterest)
              \o CachedYears(vid, u.study_at, StudyAt)
              \o CachedYears(vid, u.work_at, WorkAt)
    [] u.kind = 2 -> insert_update_edge(encode_vid(Person, u.a),
                       encode_vid(Post, u.b), LikesPost, {u.date}, FALSE)
    [] u.kind = 3 -> insert_update_edge(encode_vid(Person, u.a),
                       encode_vid(Comment, u.b), LikesComment, {u.date}, FALSE)
    [] u.kind = 4 ->
         LET vid == encode_vid(Forum, u.id)
         IN CachedEdges(vid, Person, <<u.moderator>>, HasModerator)
              \o CachedEdges(vid, Tag, u.tags, HasTag)
    [] u.kind = 5 -> insert_update_edge(encode_vid(Forum, u.a),
                       encode_vid(Person, u.b), HasMember, {u.date}, FALSE)
    [] u.kind = 6 ->
         LET vid == encode_vid(Post, u.id)
         IN CachedEdges(vid, Person, <<u.creator>>, HasCreator)
              \o insert_edge_cached(encode_vid(Forum, u.forum), vid,
                                    ContainerOf, EmptyProp, TRUE)
              \o CachedEdges(vid, Place, <<u.place>>, IsLocatedIn)
              \o CachedEdges(vid, Tag, u.tags, HasTag)
    [] u.kind = 7 ->
         LET vid == encode_vid(Comment, u.id)
         IN CachedEdges(vid, Person, <<u.creator>>, HasCreator)
              \o CachedEdges(vid, Place, <<u.place>>, IsLocatedIn)
              \o CachedEdges(vid, Post, optional_positive_i64(u.post), ReplyOfPost)
              \o CachedEdges(vid, Comment, optional_positive_i64(u.comment), ReplyOfComment)
              \o CachedEdges(vid, Tag, u.tags, HasTag)
    [] u.kind = 8 -> insert_update_edge(encode_vid(Person, u.a),
                       encode_vid(Person, u.b), Knows, {u.date}, TRUE)

=============================================================================
