--------------------------- MODULE SnbStoreProofs ---------------------------
(***************************************************************************)
(* The adjacency cache of an SNB store is what a scan of its engine gives. *)
(*                                                                         *)
(* The cache has no timestamps.  An update reads it, makes timestamps up,  *)
(* adds the edges it writes and builds a new cache.  That this is the      *)
(* cache of the engine rests on two facts.  The edges of an update are     *)
(* newer than everything the cache had, in the builder as in the engine,   *)
(* so they come first in every neighborhood, in the order they were        *)
(* written.  And the others keep the order they had, although an update    *)
(* that was killed may have left some of its edges in the engine: they are *)
(* edges of the streams, and every update writes all of those again.  So a *)
(* cache may differ from the engine in edges of the streams, and nowhere   *)
(* else: this is what the invariant says of it.                            *)
(*                                                                         *)
(* A server answers updates from memory.  That it has what a stream of the *)
(* same updates would have written is shown insertion by insertion: each   *)
(* adds an edge to a list without repetition, and a row to the properties. *)
(***************************************************************************)
EXTENDS SnbStore, EdgeRecordsProofs

-----------------------------------------------------------------------------
(* What the loaders write.                                                 *)

\* Edges, and what is written for one.
SnbKey == [src : Int, edge_type : Int, dst : Int]

Write == [key : SnbKey, prop : SUBSET Int]

\* The edge that comes with every edge.
Twin(k) ==
  IF k.edge_type = Knows THEN Key(k.dst, Knows, k.src)
  ELSE Key(k.dst, -k.edge_type, k.src)

\* The label of the edge has a property.
HasProp(k) == {k.edge_type, -k.edge_type} \cap PropLabels # {}

\* Lists of writes with a twin for every edge and a property where the label
\* has one.
Writes(ws) ==
  /\ ws \in Seq(Write)
  /\ \A w \in ToSet(ws) : /\ \E v \in ToSet(ws) : v.key = Twin(w.key)
                          /\ HasProp(w.key) => w.prop # {}

\* Lists of this kind: the empty one, two together, many together.
LEMMA WritesNone == Writes(<<>>)
BY DEF Writes, ToSet

LEMMA WritesConcat ==
  ASSUME NEW s, NEW t, Writes(s), Writes(t)
  PROVE  Writes(s \o t)
<1>1. s \in Seq(Write) /\ t \in Seq(Write)
  BY DEF Writes
<1>2. s \o t \in Seq(Write) /\ ToSet(s \o t) = ToSet(s) \cup ToSet(t)
  BY <1>1, Concatenation
<1> QED BY <1>2 DEF Writes

LEMMA WritesFlat ==
  ASSUME NEW q, NEW n \in Nat, q = [i \in 1..n |-> q[i]],
         \A i \in 1..n : Writes(q[i])
  PROVE  Writes(FlattenSeq(q))
<1>1. q \in Seq(Seq(Write)) /\ Len(q) = n
  <2>1. \A i \in 1..n : q[i] \in Seq(Write)
    BY DEF Writes
  <2> QED BY <2>1
<1>2. FlattenSeq(q) \in Seq(Write) /\ ToSet(FlattenSeq(q)) = Elements(q)
  BY <1>1, Flattened
<1>3. \A w \in Elements(q) : \E i \in 1..n : w \in ToSet(q[i])
  BY <1>1 DEF Elements
<1>4. \A i \in 1..n : ToSet(q[i]) \subseteq Elements(q)
  BY <1>1 DEF Elements
<1>5. ASSUME NEW w \in Elements(q)
      PROVE  /\ \E v \in Elements(q) : v.key = Twin(w.key)
             /\ HasProp(w.key) => w.prop # {}
  <2>1. PICK i \in 1..n : w \in ToSet(q[i])
    BY <1>3
  <2>2. Writes(q[i])
    BY <2>1
  <2> QED BY <1>4, <2>1, <2>2 DEF Writes
<1> QED BY <1>2, <1>5 DEF Writes

\* Encoded ids are numbers.
LEMMA EncodeType ==
  \A label \in 1..8, id \in Nat : encode_vid(label, id) \in Int
<1> SUFFICES ASSUME NEW label \in 1..8, NEW id \in Nat
             PROVE  encode_vid(label, id) \in Int
  OBVIOUS
<1>1. id % LabelSpan \in Int
  BY LabelSpanAssumption
<1>2. label * LabelSpan \in Int
  BY LabelSpanAssumption
<1> QED BY <1>1, <1>2 DEF encode_vid

\* insert_forward_reverse writes an edge with its twin.
LEMMA LoadEdgeWrites ==
  ASSUME NEW src \in Int, NEW dst \in Int, NEW label \in 1..17,
         NEW prop \in SUBSET Int, NEW both \in BOOLEAN, both <=> label = Knows,
         label \in PropLabels => prop # {}
  PROVE  Writes(LoadEdge(src, label, dst, prop, both))
<1> DEFINE there == [key |-> Key(src, label, dst), prop |-> prop]
           back == [key |-> Key(dst, -label, src), prop |-> prop]
           mirror == [key |-> Key(dst, label, src), prop |-> prop]
<1>1. /\ there \in Write /\ back \in Write /\ mirror \in Write
  BY DEF Write, SnbKey, Key
<1>2. /\ Twin(back.key) = there.key
      /\ label = Knows => /\ Twin(there.key) = mirror.key
                          /\ Twin(mirror.key) = there.key
      /\ label # Knows => Twin(there.key) = back.key
  BY DEF Twin, Key, Knows
<1>3. \A w \in {there, back, mirror} : HasProp(w.key) => label \in PropLabels
  BY DEF HasProp, Key, PropLabels, Knows, LikesComment, LikesPost, HasMember, StudyAt,
         WorkAt
<1>4. \A w \in {there, back, mirror} : w.prop = prop
  OBVIOUS
<1>5. insert_forward_reverse(src, label, dst, prop, TRUE) = <<there>> \o <<back>>
  BY DEF insert_forward_reverse
<1>6. insert_forward_reverse(dst, label, src, prop, FALSE) = <<mirror>> \o <<>>
  BY DEF insert_forward_reverse
<1> HIDE DEF there, back, mirror
<1> DEFINE a == <<there>>
           b == <<back>>
           c == <<mirror>>
<1>7. /\ a \in Seq(Write) /\ b \in Seq(Write) /\ c \in Seq(Write)
      /\ ToSet(a) = {there} /\ ToSet(b) = {back} /\ ToSet(c) = {mirror}
  <2>1. \A w \in Write : <<w>> \in Seq(Write) /\ ToSet(<<w>>) = {w}
    BY DEF ToSet
  <2> QED BY <1>1, <2>1
<1>8. <<>> \in Seq(Write) /\ ToSet(<<>>) = {}
  BY DEF ToSet
<1>9. CASE label = Knows
  <2>1. LoadEdge(src, label, dst, prop, both) = (a \o b) \o (c \o <<>>)
    BY <1>5, <1>6, <1>9 DEF LoadEdge
  <2> HIDE DEF a, b, c
  <2>2. a \o b \in Seq(Write) /\ ToSet(a \o b) = {there} \cup {back}
    BY <1>7, Concatenation
  <2>3. c \o <<>> \in Seq(Write) /\ ToSet(c \o <<>>) = {mirror} \cup {}
    BY <1>7, <1>8, Concatenation
  <2>4. /\ LoadEdge(src, label, dst, prop, both) \in Seq(Write)
        /\ ToSet(LoadEdge(src, label, dst, prop, both))
             = ({there} \cup {back}) \cup ({mirror} \cup {})
    <3> DEFINE two == a \o b
               one == c \o <<>>
    <3> HIDE DEF two, one
    <3>1. two \o one \in Seq(Write) /\ ToSet(two \o one) = ToSet(two) \cup ToSet(one)
      <4>1. two \in Seq(Write) /\ one \in Seq(Write)
        BY <2>2, <2>3 DEF two, one
      <4> QED BY <4>1, Concatenation
    <3> QED BY <2>1, <2>2, <2>3, <3>1 DEF two, one
  <2> QED BY <1>2, <1>3, <1>4, <1>9, <2>4 DEF Writes
<1>10. CASE label # Knows
  <2>1. LoadEdge(src, label, dst, prop, both) = (a \o b) \o <<>>
    BY <1>5, <1>10 DEF LoadEdge
  <2> HIDE DEF a, b, c
  <2>2. a \o b \in Seq(Write) /\ ToSet(a \o b) = {there} \cup {back}
    BY <1>7, Concatenation
  <2>3. /\ LoadEdge(src, label, dst, prop, both) \in Seq(Write)
        /\ ToSet(LoadEdge(src, label, dst, prop, both)) = ({there} \cup {back}) \cup {}
    BY <1>8, <2>1, <2>2, Concatenation
  <2> QED BY <1>2, <1>3, <1>4, <1>10, <2>3 DEF Writes
<1> QED BY <1>9, <1>10

\* A relation between two labels, with a property column if it needs one.
RelationOK(r) ==
  /\ r.src \in 1..8 /\ r.dst \in 1..8 /\ r.label \in 1..17
  /\ r.label \in PropLabels => r.prop_col # ""

\* Only person_knows_person is loaded in both directions.
BothWays(r) == r.bidirectional \in BOOLEAN /\ (r.bidirectional <=> r.label = Knows)

\* So are all relations of the loader.
LEMMA RelationsAre ==
  /\ DOMAIN Relations = 1..23 /\ Len(Relations) = 23
  /\ \A i \in 1..23 : RelationOK(Relations[i]) /\ BothWays(Relations[i])
<1>1. DOMAIN Relations = 1..23 /\ Len(Relations) = 23
  BY DEF Relations
<1> USE DEF Person, Comment, Post, Forum, Organisation, Place, Tag, TagClass, Knows,
            HasCreator, HasTag, HasType, IsLocatedIn, IsPartOf, LikesComment,
            LikesPost, ReplyOfComment, ReplyOfPost, ContainerOf, HasMember,
            HasModerator, HasInterest, StudyAt, WorkAt, IsSubclassOf
<1>2. /\ Relations[1] = Relation("person_knows_person", Person, "c0", Knows, Person, "c1", TRUE, "c2")
      /\ Relations[2] = Relation("person_likes_comment", Person, "c0", LikesComment, Comment, "c1", FALSE, "c2")
      /\ Relations[3] = Relation("person_likes_post", Person, "c0", LikesPost, Post, "c1", FALSE, "c2")
      /\ Relations[4] = Plain("person_hasInterest_tag", Person, "c0", HasInterest, Tag, "c1")
      /\ Relations[5] = Relation("person_studyAt_organisation", Person, "c0", StudyAt, Organisation, "c1", FALSE, "c2")
      /\ Relations[6] = Relation("person_workAt_organisation", Person, "c0", WorkAt, Organisation, "c1", FALSE, "c2")
      /\ Relations[7] = Relation("forum_hasMember_person", Forum, "c0", HasMember, Person, "c1", FALSE, "c2")
      /\ Relations[8] = Plain("forum_hasTag_tag", Forum, "c0", HasTag, Tag, "c1")
      /\ Relations[9] = Plain("comment_hasTag_tag", Comment, "c0", HasTag, Tag, "c1")
      /\ Relations[10] = Plain("post_hasTag_tag", Post, "c0", HasTag, Tag, "c1")
      /\ Relations[11] = Plain("person", Person, "id", IsLocatedIn, Place, "place")
      /\ Relations[12] = Plain("forum", Forum, "id", HasModerator, Person, "moderator")
      /\ Relations[13] = Plain("post", Post, "id", HasCreator, Person, "creator")
      /\ Relations[14] = Plain("post", Forum, "Forum_id", ContainerOf, Post, "id")
      /\ Relations[15] = Plain("post", Post, "id", IsLocatedIn, Place, "place")
      /\ Relations[16] = Plain("comment", Comment, "id", HasCreator, Person, "creator")
      /\ Relations[17] = Plain("comment", Comment, "id", IsLocatedIn, Place, "place")
      /\ Relations[18] = Plain("comment", Comment, "id", ReplyOfPost, Post, "replyOfPost")
      /\ Relations[19] = Plain("comment", Comment, "id", ReplyOfComment, Comment, "replyOfComment")
      /\ Relations[20] = Plain("organisation", Organisation, "id", IsLocatedIn, Place, "place")
      /\ Relations[21] = Plain("place", Place, "id", IsPartOf, Place, "isPartOf")
      /\ Relations[22] = Plain("tag", Tag, "id", HasType, TagClass, "hasType")
      /\ Relations[23] = Plain("tagclass", TagClass, "id", IsSubclassOf, TagClass, "isSubclassOf")
  BY DEF Relations
<1>3. /\ RelationOK(Relation("person_knows_person", Person, "c0", Knows, Person, "c1", TRUE, "c2"))
      /\ RelationOK(Relation("person_likes_comment", Person, "c0", LikesComment, Comment, "c1", FALSE, "c2"))
      /\ RelationOK(Relation("person_likes_post", Person, "c0", LikesPost, Post, "c1", FALSE, "c2"))
      /\ RelationOK(Plain("person_hasInterest_tag", Person, "c0", HasInterest, Tag, "c1"))
      /\ RelationOK(Relation("person_studyAt_organisation", Person, "c0", StudyAt, Organisation, "c1", FALSE, "c2"))
      /\ RelationOK(Relation("person_workAt_organisation", Person, "c0", WorkAt, Organisation, "c1", FALSE, "c2"))
      /\ RelationOK(Relation("forum_hasMember_person", Forum, "c0", HasMember, Person, "c1", FALSE, "c2"))
      /\ RelationOK(Plain("forum_hasTag_tag", Forum, "c0", HasTag, Tag, "c1"))
      /\ RelationOK(Plain("comment_hasTag_tag", Comment, "c0", HasTag, Tag, "c1"))
      /\ RelationOK(Plain("post_hasTag_tag", Post, "c0", HasTag, Tag, "c1"))
      /\ RelationOK(Plain("person", Person, "id", IsLocatedIn, Place, "place"))
      /\ RelationOK(Plain("forum", Forum, "id", HasModerator, Person, "moderator"))
      /\ RelationOK(Plain("post", Post, "id", HasCreator, Person, "creator"))
      /\ RelationOK(Plain("post", Forum, "Forum_id", ContainerOf, Post, "id"))
      /\ RelationOK(Plain("post", Post, "id", IsLocatedIn, Place, "place"))
      /\ RelationOK(Plain("comment", Comment, "id", HasCreator, Person, "creator"))
      /\ RelationOK(Plain("comment", Comment, "id", IsLocatedIn, Place, "place"))
      /\ RelationOK(Plain("comment", Comment, "id", ReplyOfPost, Post, "replyOfPost"))
      /\ RelationOK(Plain("comment", Comment, "id", ReplyOfComment, Comment, "replyOfComment"))
      /\ RelationOK(Plain("organisation", Organisation, "id", IsLocatedIn, Place, "place"))
      /\ RelationOK(Plain("place", Place, "id", IsPartOf, Place, "isPartOf"))
      /\ RelationOK(Plain("tag", Tag, "id", HasType, TagClass, "hasType"))
      /\ RelationOK(Plain("tagclass", TagClass, "id", IsSubclassOf, TagClass, "isSubclassOf"))
  BY DEF RelationOK, Relation, Plain, PropLabels
<1>4. /\ BothWays(Relation("person_knows_person", Person, "c0", Knows, Person, "c1", TRUE, "c2"))
      /\ BothWays(Relation("person_likes_comment", Person, "c0", LikesComment, Comment, "c1", FALSE, "c2"))
      /\ BothWays(Relation("person_likes_post", Person, "c0", LikesPost, Post, "c1", FALSE, "c2"))
      /\ BothWays(Plain("person_hasInterest_tag", Person, "c0", HasInterest, Tag, "c1"))
      /\ BothWays(Relation("person_studyAt_organisation", Person, "c0", StudyAt, Organisation, "c1", FALSE, "c2"))
      /\ BothWays(Relation("person_workAt_organisation", Person, "c0", WorkAt, Organisation, "c1", FALSE, "c2"))
      /\ BothWays(Relation("forum_hasMember_person", Forum, "c0", HasMember, Person, "c1", FALSE, "c2"))
      /\ BothWays(Plain("forum_hasTag_tag", Forum, "c0", HasTag, Tag, "c1"))
      /\ BothWays(Plain("comment_hasTag_tag", Comment, "c0", HasTag, Tag, "c1"))
      /\ BothWays(Plain("post_hasTag_tag", Post, "c0", HasTag, Tag, "c1"))
      /\ BothWays(Plain("person", Person, "id", IsLocatedIn, Place, "place"))
      /\ BothWays(Plain("forum", Forum, "id", HasModerator, Person, "moderator"))
      /\ BothWays(Plain("post", Post, "id", HasCreator, Person, "creator"))
      /\ BothWays(Plain("post", Forum, "Forum_id", ContainerOf, Post, "id"))
      /\ BothWays(Plain("post", Post, "id", IsLocatedIn, Place, "place"))
      /\ BothWays(Plain("comment", Comment, "id", HasCreator, Person, "creator"))
      /\ BothWays(Plain("comment", Comment, "id", IsLocatedIn, Place, "place"))
      /\ BothWays(Plain("comment", Comment, "id", ReplyOfPost, Post, "replyOfPost"))
      /\ BothWays(Plain("comment", Comment, "id", ReplyOfComment, Comment, "replyOfComment"))
      /\ BothWays(Plain("organisation", Organisation, "id", IsLocatedIn, Place, "place"))
      /\ BothWays(Plain("place", Place, "id", IsPartOf, Place, "isPartOf"))
      /\ BothWays(Plain("tag", Tag, "id", HasType, TagClass, "hasType"))
      /\ BothWays(Plain("tagclass", TagClass, "id", IsSubclassOf, TagClass, "isSubclassOf"))
  BY DEF BothWays, Relation, Plain
<1>5. \A i \in 1..23 : RelationOK(Relations[i])
  <2> SUFFICES ASSUME NEW i \in 1..23 PROVE RelationOK(Relations[i])
    OBVIOUS
  <2>1. RelationOK(Relations[1]) /\ RelationOK(Relations[2]) /\ RelationOK(Relations[3])
    BY <1>2, <1>3, Zenon
  <2>2. RelationOK(Relations[5]) /\ RelationOK(Relations[6]) /\ RelationOK(Relations[7])
    BY <1>2, <1>3, Zenon
  <2>3. CASE i \in {4} \cup 8..16
    BY <1>2, <1>3, <2>3
  <2>4. CASE i \in 17..23
    BY <1>2, <1>3, <2>4
  <2> QED BY <2>1, <2>2, <2>3, <2>4
<1>6. \A i \in 1..23 : BothWays(Relations[i])
  <2> SUFFICES ASSUME NEW i \in 1..23 PROVE BothWays(Relations[i])
    OBVIOUS
  <2>1. BothWays(Relations[1]) /\ BothWays(Relations[2]) /\ BothWays(Relations[3])
    BY <1>2, <1>4, Zenon
  <2>2. BothWays(Relations[5]) /\ BothWays(Relations[6]) /\ BothWays(Relations[7])
    BY <1>2, <1>4, Zenon
  <2>3. CASE i \in {4} \cup 8..16
    BY <1>2, <1>4, <2>3
  <2>4. CASE i \in 17..23
    BY <1>2, <1>4, <2>4
  <2> QED BY <2>1, <2>2, <2>3, <2>4
<1> QED BY <1>1, <1>5, <1>6

\* What an import writes for one file.
LEMMA ImportFileWrites ==
  ASSUME NEW i \in 1..23
  PROVE  Writes(import_edge_file(Csv, Relations[i]))
<1> DEFINE r == Relations[i]
           n == Len(Csv[r.file])
           cell(k) == Csv[r.file][k]
           load(row) ==
             IF row[r.src_col] = NoId \/ row[r.dst_col] = NoId THEN <<>>
             ELSE LoadEdge(encode_vid(r.src, row[r.src_col]), r.label,
                           encode_vid(r.dst, row[r.dst_col]),
                           IF r.prop_col = "" THEN EmptyProp ELSE {row[r.prop_col]},
                           r.bidirectional)
           q == [k \in 1..n |-> load(cell(k))]
<1>1. r \in ToSet(Relations) /\ RelationOK(r) /\ BothWays(r)
  BY RelationsAre DEF ToSet
<1>2. /\ n \in Nat /\ DOMAIN Csv[r.file] = 1..n
      /\ \A k \in 1..n : /\ {cell(k)[r.src_col], cell(k)[r.dst_col]} \subseteq Nat \cup {NoId}
                         /\ r.prop_col # "" => cell(k)[r.prop_col] \in Int
  BY <1>1, RowsAssumption
<1>3. import_edge_file(Csv, r) = FlattenSeq(q)
  BY <1>2 DEF import_edge_file, ForEach
<1> HIDE DEF r, n, cell
<1>4. ASSUME NEW k \in 1..n
      PROVE  Writes(load(cell(k)))
  <2> DEFINE row == cell(k)
             prop == IF r.prop_col = "" THEN EmptyProp ELSE {row[r.prop_col]}
  <2>1. CASE row[r.src_col] = NoId \/ row[r.dst_col] = NoId
    BY <2>1, WritesNone
  <2>2. CASE ~(row[r.src_col] = NoId \/ row[r.dst_col] = NoId)
    <3>1. row[r.src_col] \in Nat /\ row[r.dst_col] \in Nat
      BY <1>2, <2>2
    <3>2. prop \in SUBSET Int /\ (r.label \in PropLabels => prop # {})
      BY <1>1, <1>2 DEF EmptyProp, RelationOK
    <3>3. /\ encode_vid(r.src, row[r.src_col]) \in Int
          /\ encode_vid(r.dst, row[r.dst_col]) \in Int
          /\ r.label \in 1..17
      BY <1>1, <3>1, EncodeType DEF RelationOK
    <3> HIDE DEF prop, row
    <3>4. Writes(LoadEdge(encode_vid(r.src, row[r.src_col]), r.label,
                          encode_vid(r.dst, row[r.dst_col]), prop, r.bidirectional))
      BY <1>1, <3>2, <3>3, LoadEdgeWrites DEF BothWays
    <3> QED BY <2>2, <3>4 DEF prop, row
  <2> QED BY <2>1, <2>2
<1>5. q = [k \in 1..n |-> q[k]] /\ \A k \in 1..n : Writes(q[k])
  BY <1>4
<1> HIDE DEF q
<1>6. Writes(FlattenSeq(q))
  BY <1>2, <1>5, WritesFlat
<1> QED BY <1>3, <1>6 DEF r

\* An import writes every edge with its twin and its property.
LEMMA ImportWrites == Writes(import_edges(Csv))
<1> DEFINE q == [i \in 1..23 |-> import_edge_file(Csv, Relations[i])]
<1>1. import_edges(Csv) = FlattenSeq(q)
  BY RelationsAre DEF import_edges, ForEach
<1>2. q = [i \in 1..23 |-> q[i]] /\ \A i \in 1..23 : Writes(q[i])
  BY ImportFileWrites
<1> HIDE DEF q
<1> QED BY <1>1, <1>2, WritesFlat

-----------------------------------------------------------------------------
(* Updates.                                                                *)

\* The ids that are there are encoded as vertices.
LEMMA PresentIs ==
  ASSUME NEW ids \in Seq(Nat \cup {NoId})
  PROVE  Present(ids) \in Seq(Nat)
<1> DEFINE q == [i \in DOMAIN ids |-> IF ids[i] = NoId THEN <<>> ELSE <<ids[i]>>]
<1>1. Present(ids) = FlattenSeq(q)
  BY DEF Present, ForEach
<1>2. q \in Seq(Seq(Nat))
  <2>1. \A i \in 1..Len(ids) : ids[i] \in Nat \cup {NoId}
    OBVIOUS
  <2>2. \A i \in 1..Len(ids) : q[i] \in Seq(Nat)
    <3> SUFFICES ASSUME NEW i \in 1..Len(ids) PROVE q[i] \in Seq(Nat)
      OBVIOUS
    <3>1. CASE ids[i] = NoId
      BY <3>1
    <3>2. CASE ids[i] \in Nat
      <4>1. <<ids[i]>> \in Seq(Nat)
        BY <3>2
      <4> QED BY <3>2, <4>1 DEF NoId
    <3> QED BY <2>1, <3>1, <3>2
  <2>3. DOMAIN ids = 1..Len(ids) /\ Len(ids) \in Nat
    OBVIOUS
  <2>4. q = [i \in 1..Len(ids) |-> q[i]]
    BY <2>3
  <2> HIDE DEF q
  <2> QED BY <2>2, <2>3, <2>4
<1> HIDE DEF q
<1> QED BY <1>1, <1>2, Flattened

\* The edges from one vertex to others of one label.
LEMMA StreamEdgesWrite ==
  ASSUME NEW label \in 1..8, NEW u, u.id \in Nat, NEW to \in 1..8,
         NEW ids \in Seq(Nat), NEW edge_label \in (1..17) \ PropLabels
  PROVE  Writes(StreamEdges(label, u, to, ids, edge_label))
<1> DEFINE load(id) == LoadEdge(encode_vid(label, u.id), edge_label,
                                encode_vid(to, id), EmptyProp, FALSE)
           q == [i \in 1..Len(ids) |-> load(ids[i])]
<1>1. StreamEdges(label, u, to, ids, edge_label) = FlattenSeq(q)
  <2>1. DOMAIN ids = 1..Len(ids)
    OBVIOUS
  <2> QED BY <2>1 DEF StreamEdges, ForEach
<1>2. ASSUME NEW i \in 1..Len(ids)
      PROVE  Writes(load(ids[i]))
  <2>1. ids[i] \in Nat
    OBVIOUS
  <2>2. encode_vid(label, u.id) \in Int /\ encode_vid(to, ids[i]) \in Int
    BY <2>1, EncodeType
  <2>3. edge_label # Knows /\ EmptyProp \in SUBSET Int
    BY DEF PropLabels, EmptyProp
  <2> QED BY <2>2, <2>3, LoadEdgeWrites
<1>3. q = [i \in 1..Len(ids) |-> q[i]] /\ \A i \in 1..Len(ids) : Writes(q[i])
  BY <1>2
<1>4. Len(ids) \in Nat
  OBVIOUS
<1> HIDE DEF q
<1> QED BY <1>1, <1>3, <1>4, WritesFlat

\* The edges to organisations, with their years.
LEMMA StreamYearsWrite ==
  ASSUME NEW u, u.id \in Nat, NEW orgs \in Seq([org : Nat, year : Int]),
         NEW edge_label \in (1..17) \ {Knows}
  PROVE  Writes(StreamYears(u, orgs, edge_label))
<1> DEFINE load(o) == LoadEdge(encode_vid(Person, u.id), edge_label,
                               encode_vid(Organisation, o.org), {o.year}, FALSE)
           q == [i \in 1..Len(orgs) |-> load(orgs[i])]
<1>1. StreamYears(u, orgs, edge_label) = FlattenSeq(q)
  <2>1. DOMAIN orgs = 1..Len(orgs)
    OBVIOUS
  <2> QED BY <2>1 DEF StreamYears, ForEach
<1>2. ASSUME NEW i \in 1..Len(orgs)
      PROVE  Writes(load(orgs[i]))
  <2>1. orgs[i].org \in Nat /\ {orgs[i].year} \in SUBSET Int /\ {orgs[i].year} # {}
    <3>1. orgs[i] \in [org : Nat, year : Int]
      BY ElementOfSeq
    <3> QED BY <3>1
  <2>2. encode_vid(Person, u.id) \in Int /\ encode_vid(Organisation, orgs[i].org) \in Int
    <3>1. Person \in 1..8 /\ Organisation \in 1..8
      BY DEF Person, Organisation
    <3> QED BY <2>1, <3>1, EncodeType
  <2> QED BY <2>1, <2>2, LoadEdgeWrites
<1>3. q = [i \in 1..Len(orgs) |-> q[i]] /\ \A i \in 1..Len(orgs) : Writes(q[i])
  BY <1>2
<1>4. Len(orgs) \in Nat
  OBVIOUS
<1> HIDE DEF q
<1> QED BY <1>1, <1>3, <1>4, WritesFlat

\* The one edge of an update of kind 2, 3, 5 or 8.
LEMMA BinaryWrites ==
  ASSUME NEW src \in 1..8, NEW dst \in 1..8, NEW u,
         u.a \in Nat, u.b \in Nat, u.date \in Int, NEW label \in 1..17,
         NEW both \in BOOLEAN, both <=> label = Knows
  PROVE  Writes(apply_binary_update_edge(src, dst, u, label, both))
<1>1. encode_vid(src, u.a) \in Int /\ encode_vid(dst, u.b) \in Int
  BY EncodeType
<1>2. {u.date} \in SUBSET Int /\ {u.date} # {}
  OBVIOUS
<1> QED BY <1>1, <1>2, LoadEdgeWrites DEF apply_binary_update_edge

\* A line of a stream, or an update that is sent.
StreamUpdate == Updates(Nat \cup {NoId}) \cup [kind : Int \ (1..8)]

\* An update writes every edge with its twin and its property.
LEMMA UpdateWrites ==
  ASSUME NEW u \in StreamUpdate
  PROVE  Writes(import_update(u))
<1> DEFINE ids == Nat \cup {NoId}
           Years == Seq([org : Nat, year : Int])
<1>1. /\ u.kind = 1 => u \in [kind : {1}, id : Nat, place : Nat, tags : Seq(ids),
                              study_at : Years, work_at : Years]
      /\ u.kind \in {2, 3, 5, 8} => u \in [kind : {2, 3, 5, 8}, a : Nat, b : Nat, date : Int]
      /\ u.kind = 4 => u \in [kind : {4}, id : Nat, moderator : Nat, tags : Seq(ids)]
      /\ u.kind = 6 => u \in [kind : {6}, id : Nat, creator : Nat, forum : Nat,
                              place : Nat, tags : Seq(ids)]
      /\ u.kind = 7 => u \in [kind : {7}, id : Nat, creator : Nat, place : Nat,
                              post : ids, comment : ids, tags : Seq(ids)]
      /\ u.kind \in Int
  BY DEF StreamUpdate, Updates
<1>2. /\ {Person, Comment, Post, Forum, Organisation, Place, Tag} \subseteq 1..8
      /\ {HasCreator, HasTag, IsLocatedIn, ReplyOfComment, ReplyOfPost, ContainerOf,
          HasModerator, HasInterest} \subseteq (1..17) \ PropLabels
      /\ {LikesComment, LikesPost, HasMember, StudyAt, WorkAt} \subseteq (1..17) \ {Knows}
      /\ Knows \in 1..17
  BY DEF Person, Comment, Post, Forum, Organisation, Place, Tag, HasCreator, HasTag,
         IsLocatedIn, ReplyOfComment, ReplyOfPost, ContainerOf, HasModerator, HasInterest,
         LikesComment, LikesPost, HasMember, StudyAt, WorkAt, Knows, PropLabels
<1>3. \A id \in Nat : <<id>> \in Seq(Nat)
  OBVIOUS
<1>4. CASE u.kind = 1
  <2>1. /\ u.id \in Nat /\ u.place \in Nat /\ u.tags \in Seq(ids)
        /\ u.study_at \in Years /\ u.work_at \in Years
    BY <1>1, <1>4
  <2>2. /\ Writes(StreamEdges(Person, u, Place, <<u.place>>, IsLocatedIn))
        /\ Writes(StreamEdges(Person, u, Tag, Present(u.tags), HasInterest))
        /\ Writes(StreamYears(u, u.study_at, StudyAt))
        /\ Writes(StreamYears(u, u.work_at, WorkAt))
    BY <1>2, <1>3, <2>1, PresentIs, StreamEdgesWrite, StreamYearsWrite
  <2>3. Writes(apply_add_person(u))
    BY <2>2, WritesConcat DEF apply_add_person
  <2> QED BY <1>4, <2>3 DEF import_update
<1>5. CASE u.kind \in {2, 3, 5, 8}
  <2>1. u.a \in Nat /\ u.b \in Nat /\ u.date \in Int
    BY <1>1, <1>5
  <2>2. /\ Writes(apply_binary_update_edge(Person, Post, u, LikesPost, FALSE))
        /\ Writes(apply_binary_update_edge(Person, Comment, u, LikesComment, FALSE))
        /\ Writes(apply_binary_update_edge(Forum, Person, u, HasMember, FALSE))
        /\ Writes(apply_binary_update_edge(Person, Person, u, Knows, TRUE))
    BY <1>2, <2>1, BinaryWrites
  <2>3. CASE u.kind = 2
    <3>1. u.kind # 1 /\ u.kind # 3 /\ u.kind # 4 /\ u.kind # 5 /\ u.kind # 6 /\ u.kind # 7 /\ u.kind # 8
      BY <2>3
    <3> QED BY <2>2, <2>3, <3>1, Zenon DEF import_update
  <2>4. CASE u.kind = 3
    <3>1. u.kind # 1 /\ u.kind # 2 /\ u.kind # 4 /\ u.kind # 5 /\ u.kind # 6 /\ u.kind # 7 /\ u.kind # 8
      BY <2>4
    <3> QED BY <2>2, <2>4, <3>1, Zenon DEF import_update
  <2>5. CASE u.kind = 5
    <3>1. u.kind # 1 /\ u.kind # 2 /\ u.kind # 3 /\ u.kind # 4 /\ u.kind # 6 /\ u.kind # 7 /\ u.kind # 8
      BY <2>5
    <3> QED BY <2>2, <2>5, <3>1, Zenon DEF import_update
  <2>6. CASE u.kind = 8
    <3>1. u.kind # 1 /\ u.kind # 2 /\ u.kind # 3 /\ u.kind # 4 /\ u.kind # 5 /\ u.kind # 6 /\ u.kind # 7
      BY <2>6
    <3> QED BY <2>2, <2>6, <3>1, Zenon DEF import_update
  <2> QED BY <1>5, <2>3, <2>4, <2>5, <2>6
<1>6. CASE u.kind = 4
  <2>1. u.id \in Nat /\ u.moderator \in Nat /\ u.tags \in Seq(ids)
    BY <1>1, <1>6
  <2>2. /\ Writes(StreamEdges(Forum, u, Person, <<u.moderator>>, HasModerator))
        /\ Writes(StreamEdges(Forum, u, Tag, Present(u.tags), HasTag))
    BY <1>2, <1>3, <2>1, PresentIs, StreamEdgesWrite
  <2>3. Writes(apply_add_forum(u))
    BY <2>2, WritesConcat DEF apply_add_forum
  <2> QED BY <1>6, <2>3 DEF import_update
<1>7. CASE u.kind = 6
  <2>1. /\ u.id \in Nat /\ u.creator \in Nat /\ u.forum \in Nat
        /\ u.place \in Nat /\ u.tags \in Seq(ids)
    BY <1>1, <1>7
  <2>2. /\ Writes(StreamEdges(Post, u, Person, <<u.creator>>, HasCreator))
        /\ Writes(StreamEdges(Post, u, Place, <<u.place>>, IsLocatedIn))
        /\ Writes(StreamEdges(Post, u, Tag, Present(u.tags), HasTag))
    BY <1>2, <1>3, <2>1, PresentIs, StreamEdgesWrite
  <2>3. Writes(LoadEdge(encode_vid(Forum, u.forum), ContainerOf, encode_vid(Post, u.id),
                        EmptyProp, FALSE))
    <3>1. /\ encode_vid(Forum, u.forum) \in Int /\ encode_vid(Post, u.id) \in Int
          /\ EmptyProp \in SUBSET Int
      BY <1>2, <2>1, EncodeType DEF EmptyProp
    <3>2. ContainerOf \in 1..17 /\ ContainerOf # Knows /\ ~(ContainerOf \in PropLabels)
      BY <1>2 DEF PropLabels
    <3> QED BY <3>1, <3>2, LoadEdgeWrites
  <2>4. Writes(apply_add_post(u))
    BY <2>2, <2>3, WritesConcat DEF apply_add_post
  <2> QED BY <1>7, <2>4 DEF import_update
<1>8. CASE u.kind = 7
  <2>1. /\ u.id \in Nat /\ u.creator \in Nat /\ u.place \in Nat
        /\ u.post \in ids /\ u.comment \in ids /\ u.tags \in Seq(ids)
    BY <1>1, <1>8
  <2>2. <<u.post>> \in Seq(ids) /\ <<u.comment>> \in Seq(ids)
    BY <2>1
  <2>3. /\ Writes(StreamEdges(Comment, u, Person, <<u.creator>>, HasCreator))
        /\ Writes(StreamEdges(Comment, u, Place, <<u.place>>, IsLocatedIn))
        /\ Writes(StreamEdges(Comment, u, Post, Present(<<u.post>>), ReplyOfPost))
        /\ Writes(StreamEdges(Comment, u, Comment, Present(<<u.comment>>), ReplyOfComment))
        /\ Writes(StreamEdges(Comment, u, Tag, Present(u.tags), HasTag))
    BY <1>2, <1>3, <2>1, <2>2, PresentIs, StreamEdgesWrite
  <2>4. Writes(apply_add_comment(u))
    BY <2>3, WritesConcat DEF apply_add_comment
  <2> QED BY <1>8, <2>4 DEF import_update
<1>9. CASE ~(u.kind \in 1..8)
  <2>1. /\ u.kind # 1 /\ u.kind # 2 /\ u.kind # 3 /\ u.kind # 4
        /\ u.kind # 5 /\ u.kind # 6 /\ u.kind # 7 /\ u.kind # 8
    BY <1>9
  <2>2. import_update(u) = <<>>
    BY <2>1, Zenon DEF import_update
  <2> QED BY <2>2, WritesNone
<1> QED BY <1>1, <1>4, <1>5, <1>6, <1>7, <1>8, <1>9

-----------------------------------------------------------------------------
(* Commands.                                                               *)

\* Steps that load a vertex or an edge.
LoadStep ==
  [op : {"vertex"}, vid : Int] \cup [op : {"edge"}, key : SnbKey, prop : SUBSET Int]

\* A command ends with a flush of the engine and the cache, and does neither
\* before.
Command(C) ==
  /\ Len(C) \in Nat /\ Len(C) >= 2 /\ C = [i \in 1..Len(C) |-> C[i]]
  /\ \A i \in 1..Len(C) :
       /\ C[i].op = "write_cache" <=> i = Len(C)
       /\ C[i].op = "flush_active" <=> i = Len(C) - 1
       /\ C[i].op = "edge" => C[i].key \in SnbKey

\* Lists of vertices and of writes make such steps.
LEMMA VertexSteps ==
  ASSUME NEW q \in Seq(Int)
  PROVE  Steps(q, VertexStep) \in Seq(LoadStep)
<1>1. DOMAIN q = 1..Len(q) /\ Len(q) \in Nat
  OBVIOUS
<1>2. \A i \in 1..Len(q) : VertexStep(q[i]) \in LoadStep
  BY DEF VertexStep, LoadStep
<1> DEFINE t == [i \in 1..Len(q) |-> VertexStep(q[i])]
<1>3. Steps(q, VertexStep) = t
  BY <1>1 DEF Steps
<1>4. t \in Seq(LoadStep)
  BY <1>1, <1>2
<1> QED BY <1>3, <1>4

LEMMA EdgeSteps ==
  ASSUME NEW q \in Seq(Write)
  PROVE  Steps(q, EdgeStep) \in Seq(LoadStep)
<1>1. DOMAIN q = 1..Len(q) /\ Len(q) \in Nat
  OBVIOUS
<1>2. \A i \in 1..Len(q) : EdgeStep(q[i]) \in LoadStep
  <2>1. \A i \in 1..Len(q) : q[i].key \in SnbKey /\ q[i].prop \in SUBSET Int
    <3>1. \A i \in 1..Len(q) : q[i] \in Write
      BY ElementOfSeq
    <3> QED BY <3>1 DEF Write
  <2> QED BY <2>1 DEF EdgeStep, LoadStep
<1> DEFINE t == [i \in 1..Len(q) |-> EdgeStep(q[i])]
<1>3. Steps(q, EdgeStep) = t
  BY <1>1 DEF Steps
<1>4. t \in Seq(LoadStep)
  BY <1>1, <1>2
<1> QED BY <1>3, <1>4

\* The vertex that an update adds.
LEMMA AddedVertexType ==
  ASSUME NEW u \in StreamUpdate
  PROVE  AddedVertex(u) \in Seq(Int)
<1>1. u.kind \in {1, 4, 6, 7} => u.id \in Nat
  BY DEF StreamUpdate, Updates
<1>2. {Person, Forum, Post, Comment} \subseteq 1..8
  BY DEF Person, Forum, Post, Comment
<1>3. u.kind \in {1, 4, 6, 7} =>
        {encode_vid(Person, u.id), encode_vid(Forum, u.id), encode_vid(Post, u.id),
         encode_vid(Comment, u.id)} \subseteq Int
  BY <1>1, <1>2, EncodeType
<1>4. \A v \in Int : <<v>> \in Seq(Int)
  OBVIOUS
<1> QED BY <1>3, <1>4 DEF AddedVertex

\* The streams make such steps only.
LEMMA StreamType == import_update_stream \in Seq(LoadStep)
<1> DEFINE of(u) == Steps(AddedVertex(u), VertexStep) \o Steps(import_update(u), EdgeStep)
           n == Len(Stream)
           q == [i \in 1..n |-> of(Stream[i])]
<1>1. DOMAIN Stream = 1..n /\ n \in Nat
  BY UpdatesAssumption
<1>2. \A i \in 1..n : Stream[i] \in StreamUpdate
  <2>1. Stream \in Seq(StreamUpdate)
    BY UpdatesAssumption DEF StreamUpdate
  <2> QED BY <2>1, ElementOfSeq
<1>3. \A u \in StreamUpdate : of(u) \in Seq(LoadStep)
  <2> SUFFICES ASSUME NEW u \in StreamUpdate PROVE of(u) \in Seq(LoadStep)
    OBVIOUS
  <2>1. import_update(u) \in Seq(Write)
    BY UpdateWrites DEF Writes
  <2> DEFINE s == Steps(AddedVertex(u), VertexStep)
             t == Steps(import_update(u), EdgeStep)
  <2>2. s \in Seq(LoadStep) /\ t \in Seq(LoadStep)
    BY <2>1, AddedVertexType, VertexSteps, EdgeSteps
  <2> HIDE DEF s, t
  <2>3. s \o t \in Seq(LoadStep)
    BY <2>2, Concatenation
  <2> QED BY <2>3 DEF s, t
<1>4. import_update_stream = FlattenSeq(q)
  BY <1>1 DEF import_update_stream, ForEach
<1> HIDE DEF of, n
<1>5. q \in Seq(Seq(LoadStep))
  BY <1>1, <1>2, <1>3
<1> HIDE DEF q
<1> QED BY <1>4, <1>5, Flattened

\* The last steps, put behind the loading of something.
LEMMA LoadThenCache ==
  ASSUME NEW s \in Seq(LoadStep \cup {Step("flush_vertices")}), NEW t,
         t \in {<<Step("flush_props"), Step("flush_active"), Step("write_cache")>>,
               <<Step("flush_vertices"), Step("flush_props"), Step("flush_active"),
                 Step("write_cache")>>}
  PROVE  Command(s \o t)
<1> DEFINE LoadOrFlush == LoadStep \cup {Step("flush_vertices")}
           C == s \o t
           m == Len(s)
           n == Len(t)
<1>1. m \in Nat /\ n \in {3, 4} /\ Len(C) = m + n /\ C = [i \in 1..(m + n) |-> C[i]]
  <2>1. n \in {3, 4}
    BY DEF Step
  <2>2. m \in Nat
    OBVIOUS
  <2> DEFINE All == LoadOrFlush \cup {t[j] : j \in 1..n}
  <2>3. s \in Seq(All) /\ t \in Seq(All)
    <3>1. t = [j \in 1..n |-> t[j]]
      OBVIOUS
    <3> QED BY <2>1, <3>1
  <2> HIDE DEF All, n, m
  <2>4. C \in Seq(All) /\ Len(C) = Len(s) + Len(t)
    BY <2>3, ConcatProperties
  <2>5. C = [i \in 1..Len(C) |-> C[i]]
    <3> HIDE DEF C
    <3> QED BY <2>4
  <2>6. Len(C) = m + n
    BY <2>4 DEF m, n
  <2> QED BY <2>1, <2>2, <2>5, <2>6
<1>2. \A i \in 1..(m + n) : C[i] = IF i <= m THEN s[i] ELSE t[i - m]
  OBVIOUS
<1>3. \A e \in LoadOrFlush : /\ e.op \notin {"write_cache", "flush_active"}
                             /\ e.op = "edge" => e.key \in SnbKey
  BY DEF LoadStep, Step
<1>4. \A j \in 1..n : /\ t[j].op = "write_cache" <=> j = n
                      /\ t[j].op = "flush_active" <=> j = n - 1
                      /\ t[j].op # "edge"
  <2>1. CASE t = <<Step("flush_props"), Step("flush_active"), Step("write_cache")>>
    BY <2>1 DEF Step
  <2>2. CASE t = <<Step("flush_vertices"), Step("flush_props"), Step("flush_active"),
                   Step("write_cache")>>
    BY <2>2 DEF Step
  <2> QED BY <2>1, <2>2
<1>5. \A i \in 1..m : s[i] \in LoadOrFlush
  OBVIOUS
<1> HIDE DEF C, m, n, LoadOrFlush
<1>6. ASSUME NEW i \in 1..Len(C)
      PROVE  /\ C[i].op = "write_cache" <=> i = Len(C)
             /\ C[i].op = "flush_active" <=> i = Len(C) - 1
             /\ C[i].op = "edge" => C[i].key \in SnbKey
  <2>1. i \in 1..(m + n)
    BY <1>1
  <2>2. CASE i <= m
    <3>1. C[i] \in LoadOrFlush
      BY <1>2, <1>5, <2>1, <2>2
    <3>2. i # Len(C) /\ i # Len(C) - 1
      BY <1>1, <2>2
    <3> QED BY <1>3, <3>1, <3>2
  <2>3. CASE ~(i <= m)
    <3>1. i - m \in 1..n /\ C[i] = t[i - m]
      BY <1>1, <1>2, <2>1, <2>3
    <3>2. (i - m = n <=> i = Len(C)) /\ (i - m = n - 1 <=> i = Len(C) - 1)
      BY <1>1
    <3> QED BY <1>4, <3>1, <3>2
  <2> QED BY <2>2, <2>3
<1>7. Len(C) \in Nat /\ Len(C) >= 2 /\ C = [i \in 1..Len(C) |-> C[i]]
  BY <1>1
<1>8. Command(C)
  BY <1>6, <1>7, Zenon DEF Command
<1> QED BY <1>8 DEF C

\* snb-updates is a command.
LEMMA UpdatesCommand == Command(import_snb_updates)
<1>1. import_update_stream \in Seq(LoadStep \cup {Step("flush_vertices")})
  BY StreamType
<1> QED BY <1>1, LoadThenCache DEF import_snb_updates

\* The vertices of the CSV files.
LEMMA VertexRows == import_vertices(Csv) \in Seq(Int)
<1> DEFINE of(f) == [i \in DOMAIN Csv[f[1]] |-> encode_vid(f[2], Csv[f[1]][i].id)]
           q == [i \in 1..8 |-> of(VertexFiles[i])]
<1>1. DOMAIN VertexFiles = 1..8 /\ \A i \in 1..8 : VertexFiles[i][2] \in 1..8
  BY DEF VertexFiles, Person, Comment, Post, Forum, Organisation, Place, Tag, TagClass
<1>2. \A i \in 1..8 : VertexFiles[i] \in ToSet(VertexFiles)
  BY <1>1 DEF ToSet
<1>3. ASSUME NEW i \in 1..8
      PROVE  of(VertexFiles[i]) \in Seq(Int)
  <2> DEFINE f == VertexFiles[i]
  <2>1. /\ f[2] \in 1..8 /\ Len(Csv[f[1]]) \in Nat
        /\ DOMAIN Csv[f[1]] = 1..Len(Csv[f[1]])
        /\ \A k \in DOMAIN Csv[f[1]] : Csv[f[1]][k].id \in Nat
    BY <1>1, <1>2, RowsAssumption
  <2> HIDE DEF f
  <2>2. \A k \in 1..Len(Csv[f[1]]) : encode_vid(f[2], Csv[f[1]][k].id) \in Int
    BY <2>1, EncodeType
  <2>3. of(f) = [k \in 1..Len(Csv[f[1]]) |-> encode_vid(f[2], Csv[f[1]][k].id)]
    BY <2>1
  <2>4. of(f) \in Seq(Int)
    BY <2>1, <2>2, <2>3
  <2> QED BY <2>4 DEF f
<1>4. import_vertices(Csv) = FlattenSeq(q)
  BY <1>1 DEF import_vertices, ForEach
<1> HIDE DEF of
<1>5. q \in Seq(Seq(Int))
  BY <1>3
<1> HIDE DEF q
<1> QED BY <1>4, <1>5, Flattened

\* import is a command.
LEMMA ImportCommand == Command(import_snb_full)
<1> DEFINE LoadOrFlush == LoadStep \cup {Step("flush_vertices")}
           a == Steps(import_vertices(Csv), VertexStep)
           b == <<Step("flush_vertices")>>
           c == Steps(import_edges(Csv), EdgeStep)
           d == <<Step("flush_props"), Step("flush_active"), Step("write_cache")>>
<1>1. a \in Seq(LoadStep) /\ c \in Seq(LoadStep)
  <2>1. import_edges(Csv) \in Seq(Write)
    BY ImportWrites DEF Writes
  <2> QED BY <2>1, VertexRows, VertexSteps, EdgeSteps
<1>2. import_snb_full = ((a \o b) \o c) \o d
  BY DEF import_snb_full
<1>3. a \in Seq(LoadOrFlush) /\ b \in Seq(LoadOrFlush) /\ c \in Seq(LoadOrFlush)
  <2> HIDE DEF a, c
  <2> QED BY <1>1
<1> HIDE DEF a, b, c, LoadOrFlush
<1>4. a \o b \in Seq(LoadOrFlush)
  BY <1>3, Concatenation
<1>5. (a \o b) \o c \in Seq(LoadOrFlush)
  BY <1>3, <1>4, Concatenation
<1>6. Command(((a \o b) \o c) \o d)
  BY <1>5, LoadThenCache DEF LoadOrFlush
<1> QED BY <1>2, <1>6

\* What is left of a command after its first n steps.
Rest(C, n) == [i \in 1..(Len(C) - n) |-> C[n + i]]

\* The first step of what is left, and what is left after it.
LEMMA RestStep ==
  ASSUME NEW C, Command(C), NEW n \in 0..(Len(C) - 1)
  PROVE  /\ Rest(C, 0) = C
         /\ Head(Rest(C, n)) = C[n + 1]
         /\ Tail(Rest(C, n)) = Rest(C, n + 1)
         /\ Len(Rest(C, n)) = Len(C) - n
<1>1. Len(C) \in Nat /\ C = [i \in 1..Len(C) |-> C[i]]
  BY DEF Command
<1>2. Rest(C, 0) = C
  <2>1. Rest(C, 0) = [i \in 1..Len(C) |-> C[i]]
    BY <1>1 DEF Rest
  <2> QED BY <1>1, <2>1
<1> DEFINE m == Len(C) - n
           S == {C[i] : i \in 1..Len(C)}
<1>3. m \in Nat /\ m >= 1
  BY <1>1
<1>4. Rest(C, n) = [i \in 1..m |-> C[n + i]]
  BY DEF Rest
<1> HIDE DEF m
<1>5. Rest(C, n) \in Seq(S) /\ Len(Rest(C, n)) = m
  <2>1. \A i \in 1..m : C[n + i] \in S
    BY <1>1 DEF m
  <2> HIDE DEF S
  <2> QED BY <1>3, <1>4, <2>1
<1>6. Head(Rest(C, n)) = C[n + 1]
  BY <1>3, <1>4
<1>7. Tail(Rest(C, n)) = [i \in 1..(m - 1) |-> C[n + (i + 1)]]
  BY <1>3, <1>4, <1>5
<1>8. Rest(C, n + 1) = [i \in 1..(m - 1) |-> C[(n + 1) + i]]
  BY <1>1 DEF Rest, m
<1>9. \A i \in 1..(m - 1) : n + (i + 1) = (n + 1) + i
  BY <1>1
<1> QED BY <1>2, <1>5, <1>6, <1>7, <1>8, <1>9 DEF m

\* The keys of the edges among the first n steps.
Done(C, n) == {C[i].key : i \in {j \in 1..n : C[j].op = "edge"}}

\* One step more.
LEMMA DoneStep ==
  ASSUME NEW C, NEW n \in Nat
  PROVE  /\ Done(C, 0) = {}
         /\ C[n + 1].op = "edge" => Done(C, n + 1) = Done(C, n) \cup {C[n + 1].key}
         /\ C[n + 1].op # "edge" => Done(C, n + 1) = Done(C, n)
<1>1. \A j \in 1..(n + 1) : j \in 1..n \/ j = n + 1
  OBVIOUS
<1>2. \A j \in 1..n : j \in 1..(n + 1)
  OBVIOUS
<1>3. n + 1 \in 1..(n + 1)
  OBVIOUS
<1>4. Done(C, 0) = {}
  BY DEF Done
<1>5. Done(C, n) \subseteq Done(C, n + 1)
  BY <1>2 DEF Done
<1>6. C[n + 1].op = "edge" => C[n + 1].key \in Done(C, n + 1)
  BY <1>3 DEF Done
<1>7. \A k \in Done(C, n + 1) :
         k \in Done(C, n) \/ (C[n + 1].op = "edge" /\ k = C[n + 1].key)
  BY <1>1 DEF Done
<1> QED BY <1>4, <1>5, <1>6, <1>7

-----------------------------------------------------------------------------
(* Adjacency.                                                              *)

\* There is only one way to sort a set.
LEMMA SortedUnique ==
  ASSUME NEW S, NEW R, Orders(R, S), NEW s, NEW t, Sorts(s, S, R), Sorts(t, S, R)
  PROVE  s = t
<1>1. /\ s \in Seq(S) /\ Len(s) \in Nat /\ DOMAIN s = 1..Len(s)
      /\ t \in Seq(S) /\ DOMAIN t = 1..Len(t) /\ Len(s) = Len(t)
  BY SortedOnce DEF Sorts
<1>2. \A i \in 1..Len(s) : s[i] \in S /\ t[i] \in S
  BY <1>1
<1>3. ASSUME NEW p \in 1..Len(s)
      PROVE  s[p] = t[p]
  <2> DEFINE x == s[p]
             T == {y \in S : y = x \/ <<y, x>> \in R}
             c == Cardinality(T)
  <2>1. x \in S
    BY <1>2
  <2> HIDE DEF x
  <2>2. T \in SUBSET S /\ \A y \in T, z \in S : <<z, y>> \in R => z \in T
    BY <2>1 DEF Orders
  <2>3. \A z \in S : <<x, z>> \in R => z \notin T
    BY <2>1 DEF Orders
  <2>4. x \in T
    BY <2>1
  <2> HIDE DEF T
  <2>5. /\ c \in 0..Len(s)
        /\ \A i \in 1..Len(s) : s[i] \in T <=> i <= c
        /\ \A i \in 1..Len(s) : t[i] \in T <=> i <= c
    BY <1>1, <2>2, InitialSegment
  <2> HIDE DEF c
  <2>6. ASSUME NEW u, Sorts(u, S, R), Len(u) = Len(s),
               \A i \in 1..Len(s) : u[i] \in S,
               \A i \in 1..Len(s) : u[i] \in T <=> i <= c,
               NEW q \in 1..Len(s), u[q] = x
        PROVE  q = c
    <3>1. q <= c
      BY <2>4, <2>6
    <3>2. ASSUME q < c PROVE FALSE
      <4>1. c \in 1..Len(s) /\ u[c] \in T
        BY <1>1, <2>5, <2>6, <3>2
      <4>2. <<u[q], u[c]>> \in R
        BY <2>6, <3>2, <4>1 DEF Sorts
      <4> QED BY <2>3, <2>6, <4>1, <4>2
    <3> QED BY <2>5, <3>1, <3>2
  <2>7. p = c
    BY <1>2, <2>5, <2>6 DEF x
  <2>8. PICK q \in 1..Len(t) : t[q] = x
    BY <2>1 DEF Sorts
  <2>9. q = c
    BY <1>1, <1>2, <2>5, <2>6, <2>8
  <2> QED BY <2>7, <2>8, <2>9 DEF x
<1> QED BY <1>1, <1>3

\* Records of edges that were inserted.
SnbRecord == [key : SnbKey, ts : Nat, marker : {"Insert"}]

\* The neighbors of a vertex for one type make a group.
GroupOf(k) == <<k.src, k.edge_type>>

\* The newest record of every edge.
Newest(R) == {e \in R : \A o \in R : o.key = e.key => o.ts <= e.ts}

\* Those of one group.
InGroup(R, g) == {e \in Newest(R) : GroupOf(e.key) = g}

\* The order in which build sorts them.
Newer(S) ==
  {p \in S \X S : \/ p[1].ts > p[2].ts
                  \/ p[1].ts = p[2].ts /\ p[1].key.dst < p[2].key.dst}

\* What build has for a group: the newest records, newest first.
Neighborhood(R, g) == Ranked(InGroup(R, g), Newer(InGroup(R, g)))

\* build, by its groups.
LEMMA BuildIs ==
  ASSUME NEW R
  PROVE  /\ DOMAIN build(R) = {GroupOf(e.key) : e \in Newest(R)}
         /\ build(R) = [g \in {GroupOf(e.key) : e \in Newest(R)} |->
                          [i \in DOMAIN Neighborhood(R, g) |->
                             Neighborhood(R, g)[i].key.dst]]
<1> DEFINE list(g) == SortedSet(InGroup(R, g),
                                LAMBDA a, b :
                                  \/ a.ts > b.ts
                                  \/ a.ts = b.ts /\ a.key.dst < b.key.dst)
<1>1. build(R) = [g \in {GroupOf(e.key) : e \in Newest(R)} |->
                    [i \in DOMAIN list(g) |-> list(g)[i].key.dst]]
  BY DEF build, Newest, GroupOf, InGroup
<1>2. ASSUME NEW g
      PROVE  list(g) = Neighborhood(R, g)
  <2> DEFINE S == InGroup(R, g)
             less(x) == {y \in S : y.ts > x.ts \/ (y.ts = x.ts /\ y.key.dst < x.key.dst)}
             before(x) == {y \in S : <<y, x>> \in Newer(S)}
  <2>1. list(g) = [i \in 1..Cardinality(S) |->
                     CHOOSE x \in S : Cardinality(less(x)) = i - 1]
    BY DEF SortedSet
  <2>2. Neighborhood(R, g) = [i \in 1..Cardinality(S) |->
                                CHOOSE x \in S : Cardinality(before(x)) = i - 1]
    BY DEF Neighborhood, Ranked
  <2>3. \A x \in S : less(x) = before(x)
    <3> HIDE DEF S
    <3> QED BY DEF Newer
  <2> HIDE DEF S, less, before
  <2>4. \A i : (CHOOSE x \in S : Cardinality(less(x)) = i - 1)
                 = CHOOSE x \in S : Cardinality(before(x)) = i - 1
    BY <2>3
  <2> QED BY <2>1, <2>2, <2>4
<1> HIDE DEF list
<1> QED BY <1>1, <1>2

\* The neighbors of a vertex: the newest records of a group, newest first.
LEMMA NeighborhoodSorted ==
  ASSUME NEW R \in SUBSET SnbRecord, IsFiniteSet(R), NEW g
  PROVE  LET S == InGroup(R, g)
             s == Neighborhood(R, g)
         IN  /\ Sorts(s, S, Newer(S)) /\ Orders(Newer(S), S)
             /\ s \in Seq(S) /\ Len(s) \in Nat /\ DOMAIN s = 1..Len(s)
             /\ ToSet(s) = S /\ NoTwice(s)
             /\ \A e, f \in S : e.key.dst = f.key.dst => e = f
<1> DEFINE S == InGroup(R, g)
<1>1. S \in SUBSET R /\ S \in SUBSET SnbRecord
  BY DEF InGroup, Newest
<1>2. ASSUME NEW e \in S
      PROVE  /\ e.key = [src |-> g[1], edge_type |-> g[2], dst |-> e.key.dst]
             /\ e = [key |-> e.key, ts |-> e.ts, marker |-> "Insert"]
  <2>1. e \in SnbRecord /\ GroupOf(e.key) = g
    BY <1>1 DEF InGroup
  <2>2. e.key \in SnbKey /\ g[1] = e.key.src /\ g[2] = e.key.edge_type
    BY <2>1 DEF SnbRecord, GroupOf
  <2> QED BY <2>1, <2>2 DEF SnbRecord, SnbKey
<1>11. ASSUME NEW e \in S
       PROVE  e.ts \in Int /\ e.key.dst \in Int
  <2>1. e \in SnbRecord
    BY <1>1
  <2> QED BY <2>1 DEF SnbRecord, SnbKey
<1>3. \A e, f \in S : e.key = f.key => e.ts <= f.ts /\ f.ts <= e.ts
  BY <1>1 DEF InGroup, Newest
<1> HIDE DEF S
<1>4. \A e, f \in S : e.key.dst = f.key.dst => e = f
  <2> SUFFICES ASSUME NEW e \in S, NEW f \in S, e.key.dst = f.key.dst PROVE e = f
    OBVIOUS
  <2>1. e.key = f.key
    <3>1. /\ e.key = [src |-> g[1], edge_type |-> g[2], dst |-> e.key.dst]
          /\ f.key = [src |-> g[1], edge_type |-> g[2], dst |-> f.key.dst]
      BY <1>2
    <3> QED BY <3>1
  <2>2. e.ts = f.ts
    <3>1. e.ts \in Int /\ f.ts \in Int
      BY <1>11
    <3>2. e.ts <= f.ts /\ f.ts <= e.ts
      BY <1>3, <2>1
    <3> QED BY <3>1, <3>2
  <2>3. /\ e = [key |-> e.key, ts |-> e.ts, marker |-> "Insert"]
        /\ f = [key |-> f.key, ts |-> f.ts, marker |-> "Insert"]
    BY <1>2
  <2> QED BY <2>1, <2>2, <2>3
<1>5. \A x, y \in S : <<x, y>> \in Newer(S)
                        <=> x.ts > y.ts \/ (x.ts = y.ts /\ x.key.dst < y.key.dst)
  BY DEF Newer
<1>6. Orders(Newer(S), S)
  <2>1. \A x, y \in S : x = y \/ <<x, y>> \in Newer(S) \/ <<y, x>> \in Newer(S)
    <3> SUFFICES ASSUME NEW x \in S, NEW y \in S, x # y
                 PROVE  <<x, y>> \in Newer(S) \/ <<y, x>> \in Newer(S)
      OBVIOUS
    <3>1. /\ x.ts \in Int /\ y.ts \in Int /\ x.key.dst \in Int /\ y.key.dst \in Int
          /\ x.key.dst # y.key.dst
      BY <1>11, <1>4
    <3> QED BY <1>5, <3>1
  <2>2. \A x, y, z \in S : <<x, y>> \in Newer(S) /\ <<y, z>> \in Newer(S)
                             => <<x, z>> \in Newer(S)
    BY <1>11, <1>5
  <2>3. \A x \in S : <<x, x>> \notin Newer(S)
    BY <1>11, <1>5
  <2> QED BY <2>1, <2>2, <2>3 DEF Orders
<1>7. IsFiniteSet(S)
  BY <1>1, FS_Subset
<1>8. Sorts(Ranked(S, Newer(S)), S, Newer(S))
  BY <1>6, <1>7, RanksSort
<1> DEFINE s == Ranked(S, Newer(S))
<1> HIDE DEF s
<1>9. /\ s \in Seq(S) /\ Len(s) \in Nat /\ DOMAIN s = 1..Len(s)
      /\ ToSet(s) = S /\ NoTwice(s)
  BY <1>6, <1>8, SortedOnce DEF s
<1>10. Neighborhood(R, g) = s
  BY DEF Neighborhood, S, s
<1> QED BY <1>4, <1>6, <1>8, <1>9, <1>10 DEF S, s

\* Every key of a finite set of records has a newest record.
LEMMA NewestExists ==
  ASSUME NEW R \in SUBSET SnbRecord, IsFiniteSet(R), NEW r \in R
  PROVE  \E e \in Newest(R) : e.key = r.key
<1> DEFINE same == {e \in R : e.key = r.key}
           S == {e.ts : e \in same}
<1>1. IsFiniteSet(S)
  <2> DEFINE f == [e \in R |-> e.ts]
  <2>1. same \in SUBSET R /\ S = {f[e] : e \in same}
    OBVIOUS
  <2>2. IsFiniteSet(same)
    BY <2>1, FS_Subset
  <2> HIDE DEF f, S, same
  <2> QED BY <2>1, <2>2, ImageFinite
<1>2. S \in SUBSET Nat /\ S # {}
  BY DEF SnbRecord
<1>3. Max(S) \in S /\ \A x \in S : x <= Max(S)
  BY <1>1, <1>2, GreatestNatural
<1>4. PICK e \in same : e.ts = Max(S)
  BY <1>3
<1>5. \A o \in R : o.key = e.key => o.ts <= e.ts
  BY <1>3, <1>4
<1> QED BY <1>4, <1>5 DEF Newest

-----------------------------------------------------------------------------
(* Adjacencies that follow records.                                        *)

\* No two records of one timestamp.
Distinct(R) == \A e, f \in R : e.ts = f.ts => e = f

\* The edge at a place of an adjacency.
KeyAt(A, g, i) == Key(g[1], g[2], A[g][i])

\* An adjacency in which every edge is once.
Adjacency(A) ==
  /\ IsFiniteSet(DOMAIN A)
  /\ \A g \in DOMAIN A :
       /\ g = <<g[1], g[2]>>
       /\ Len(A[g]) \in Nat /\ DOMAIN A[g] = 1..Len(A[g])
       /\ \A i \in 1..Len(A[g]) : KeyAt(A, g, i) \in SnbKey
       /\ NoTwice(A[g])

\* But for the edges of K, an adjacency has the edges of R, newest first.
Lists(A, R, K) ==
  /\ \A g \in DOMAIN A : \A i \in 1..Len(A[g]) :
       KeyAt(A, g, i) \notin K => \E e \in R : e.key = KeyAt(A, g, i)
  /\ \A e \in R :
       e.key \notin K => \E g \in DOMAIN A : \E i \in 1..Len(A[g]) : e.key = KeyAt(A, g, i)
  /\ \A g \in DOMAIN A : \A i, j \in 1..Len(A[g]) : \A a, b \in Newest(R) :
       a.key = KeyAt(A, g, i) /\ b.key = KeyAt(A, g, j) /\
       a.key \notin K /\ b.key \notin K /\ i < j
         => a.ts > b.ts

\* What build has for a group.
LEMMA BuildGroup ==
  ASSUME NEW R \in SUBSET SnbRecord, IsFiniteSet(R), NEW g \in DOMAIN build(R)
  PROVE  LET A == build(R)
             s == Neighborhood(R, g)
         IN  /\ g = <<g[1], g[2]>>
             /\ Len(A[g]) = Len(s) /\ DOMAIN A[g] = 1..Len(s)
             /\ A[g] = [i \in 1..Len(s) |-> s[i].key.dst]
             /\ \A i \in 1..Len(s) : /\ s[i] \in InGroup(R, g)
                                     /\ KeyAt(A, g, i) = s[i].key
<1> DEFINE A == build(R)
           s == Neighborhood(R, g)
<1>1. /\ s \in Seq(InGroup(R, g)) /\ Len(s) \in Nat /\ DOMAIN s = 1..Len(s)
  BY NeighborhoodSorted
<1>2. A[g] = [i \in 1..Len(s) |-> s[i].key.dst]
  <2>1. g \in {GroupOf(e.key) : e \in Newest(R)}
    BY BuildIs
  <2>2. A = [h \in {GroupOf(e.key) : e \in Newest(R)} |->
               [i \in DOMAIN Neighborhood(R, h) |-> Neighborhood(R, h)[i].key.dst]]
    BY BuildIs
  <2> HIDE DEF A, s
  <2>3. A[g] = [i \in DOMAIN s |-> s[i].key.dst]
    BY <2>1, <2>2 DEF s
  <2> QED BY <1>1, <2>3
<1> HIDE DEF s
<1>3. Len(A[g]) = Len(s) /\ DOMAIN A[g] = 1..Len(s)
  BY <1>1, <1>2
<1>4. \A i \in 1..Len(s) : s[i] \in InGroup(R, g)
  BY <1>1, ElementOfSeq
<1>5. PICK e \in Newest(R) : g = GroupOf(e.key)
  <2>1. g \in {GroupOf(e.key) : e \in Newest(R)}
    BY BuildIs
  <2> QED BY <2>1
<1>6. g = <<g[1], g[2]>>
  BY <1>5 DEF GroupOf
<1>7. ASSUME NEW i \in 1..Len(s)
      PROVE  KeyAt(A, g, i) = s[i].key
  <2>1. s[i] \in SnbRecord /\ GroupOf(s[i].key) = g
    BY <1>4 DEF InGroup, Newest
  <2>2. s[i].key \in SnbKey /\ g[1] = s[i].key.src /\ g[2] = s[i].key.edge_type
    BY <2>1 DEF SnbRecord, GroupOf
  <2>3. A[g][i] = s[i].key.dst
    BY <1>2
  <2> HIDE DEF A
  <2> QED BY <2>2, <2>3 DEF KeyAt, Key, SnbKey
<1> HIDE DEF A
<1> QED BY <1>2, <1>3, <1>4, <1>6, <1>7 DEF A, s

\* What is built from records has each edge once, and lists the records.
LEMMA BuildFollows ==
  ASSUME NEW R \in SUBSET SnbRecord, IsFiniteSet(R), Distinct(R), NEW K
  PROVE  Adjacency(build(R)) /\ Lists(build(R), R, K)
<1> DEFINE A == build(R)
<1>1. ASSUME NEW g \in DOMAIN A
      PROVE  /\ g = <<g[1], g[2]>>
             /\ Len(A[g]) \in Nat /\ DOMAIN A[g] = 1..Len(A[g])
             /\ \A i \in 1..Len(A[g]) : KeyAt(A, g, i) \in SnbKey
             /\ NoTwice(A[g])
             /\ \A i \in 1..Len(A[g]) : \E e \in Newest(R) : e.key = KeyAt(A, g, i)
             /\ \A e \in InGroup(R, g) : \E i \in 1..Len(A[g]) : e.key = KeyAt(A, g, i)
             /\ \A i, j \in 1..Len(A[g]) : \A a, b \in Newest(R) :
                  a.key = KeyAt(A, g, i) /\ b.key = KeyAt(A, g, j) /\ i < j
                    => a.ts > b.ts
  <2> DEFINE s == Neighborhood(R, g)
             S == InGroup(R, g)
  <2>1. /\ Sorts(s, S, Newer(S)) /\ Len(s) \in Nat
        /\ ToSet(s) = S /\ NoTwice(s)
        /\ \A e, f \in S : e.key.dst = f.key.dst => e = f
    BY NeighborhoodSorted
  <2>2. /\ g = <<g[1], g[2]>>
        /\ Len(A[g]) = Len(s) /\ DOMAIN A[g] = 1..Len(s)
        /\ A[g] = [i \in 1..Len(s) |-> s[i].key.dst]
        /\ \A i \in 1..Len(s) : s[i] \in S /\ KeyAt(A, g, i) = s[i].key
    BY BuildGroup
  <2>3. S \in SUBSET SnbRecord /\ S \in SUBSET Newest(R)
    BY DEF InGroup, Newest
  <2> HIDE DEF A, s, S
  <2>4. \A i \in 1..Len(s) : s[i].key \in SnbKey
    BY <2>2, <2>3 DEF SnbRecord
  <2>5. NoTwice(A[g])
    BY <2>1, <2>2 DEF NoTwice
  <2>6. \A e \in S : \E i \in 1..Len(s) : e = s[i]
    BY <2>1 DEF Sorts
  <2>7. ASSUME NEW i \in 1..Len(s), NEW j \in 1..Len(s), NEW a \in Newest(R), NEW b \in Newest(R),
               a.key = s[i].key, b.key = s[j].key, i < j
        PROVE  a.ts > b.ts
    <3>1. /\ a \in SnbRecord /\ b \in SnbRecord /\ a \in R /\ b \in R
          /\ s[i] \in SnbRecord /\ s[j] \in SnbRecord
          /\ s[i] \in Newest(R) /\ s[j] \in Newest(R)
      BY <2>2, <2>3 DEF Newest
    <3>2. /\ a.ts \in Nat /\ b.ts \in Nat /\ s[i].ts \in Nat /\ s[j].ts \in Nat
      BY <3>1 DEF SnbRecord
    <3>3. a.ts = s[i].ts /\ b.ts = s[j].ts
      BY <2>7, <3>1, <3>2 DEF Newest
    <3>4. a = s[i] /\ b = s[j]
      BY <3>1, <3>3 DEF Distinct, Newest
    <3>5. <<s[i], s[j]>> \in Newer(S)
      BY <2>1, <2>7 DEF Sorts
    <3>6. s[i].ts >= s[j].ts
      BY <3>2, <3>5 DEF Newer
    <3>7. s[i].ts # s[j].ts
      <4>1. s[i] # s[j]
        BY <2>1, <2>7 DEF NoTwice
      <4> QED BY <3>1, <4>1 DEF Distinct, Newest
    <3> QED BY <3>2, <3>3, <3>6, <3>7
  <2>8. \A i \in 1..Len(s) : s[i] \in Newest(R)
    BY <2>2, <2>3
  <2>9. \A e \in S : \E i \in 1..Len(A[g]) : e.key = KeyAt(A, g, i)
    BY <2>2, <2>6
  <2>10. \A i, j \in 1..Len(A[g]) : \A a, b \in Newest(R) :
           a.key = KeyAt(A, g, i) /\ b.key = KeyAt(A, g, j) /\ i < j
             => a.ts > b.ts
    BY <2>2, <2>7
  <2>11. \A i \in 1..Len(A[g]) : /\ KeyAt(A, g, i) \in SnbKey
                                /\ \E e \in Newest(R) : e.key = KeyAt(A, g, i)
    BY <2>2, <2>4, <2>8
  <2> QED BY <2>1, <2>2, <2>5, <2>9, <2>10, <2>11 DEF S
<1>2. ASSUME NEW e \in R
      PROVE  \E g \in DOMAIN A : \E i \in 1..Len(A[g]) : e.key = KeyAt(A, g, i)
  <2>1. PICK f \in Newest(R) : f.key = e.key
    BY NewestExists
  <2>2. GroupOf(f.key) \in DOMAIN A /\ f \in InGroup(R, GroupOf(f.key))
    BY BuildIs DEF InGroup
  <2> HIDE DEF A
  <2> QED BY <1>1, <2>1, <2>2
<1>3. Newest(R) \subseteq R
  BY DEF Newest
<1> HIDE DEF A
<1>4. Adjacency(A)
  <2>1. IsFiniteSet(DOMAIN A)
    <3> DEFINE f == [e \in R |-> GroupOf(e.key)]
    <3>1. Newest(R) \in SUBSET R
      BY <1>3
    <3>2. DOMAIN A = {GroupOf(e.key) : e \in Newest(R)}
      BY BuildIs DEF A
    <3>3. {GroupOf(e.key) : e \in Newest(R)} = {f[e] : e \in Newest(R)}
      BY <3>1
    <3>4. IsFiniteSet(Newest(R))
      BY <3>1, FS_Subset
    <3>5. IsFiniteSet({f[e] : e \in Newest(R)})
      BY <3>4, ImageFinite
    <3> QED BY <3>2, <3>3, <3>5
  <2> QED BY <1>1, <2>1 DEF Adjacency
<1>5. \A g \in DOMAIN A : \A i \in 1..Len(A[g]) :
        KeyAt(A, g, i) \notin K => \E e \in R : e.key = KeyAt(A, g, i)
  BY <1>1, <1>3
<1>6. ASSUME NEW g \in DOMAIN A, NEW i \in 1..Len(A[g]), NEW j \in 1..Len(A[g]),
             NEW a \in Newest(R), NEW b \in Newest(R),
             a.key = KeyAt(A, g, i), b.key = KeyAt(A, g, j), i < j
      PROVE  a.ts > b.ts
  BY <1>1, <1>6
<1>7. Lists(A, R, K)
  <2>1. \A g \in DOMAIN A : \A i, j \in 1..Len(A[g]) : \A a, b \in Newest(R) :
          a.key = KeyAt(A, g, i) /\ b.key = KeyAt(A, g, j) /\
          a.key \notin K /\ b.key \notin K /\ i < j
            => a.ts > b.ts
    <3> TAKE g \in DOMAIN A
    <3> TAKE i, j \in 1..Len(A[g])
    <3> TAKE a, b \in Newest(R)
    <3> QED BY <1>6, Zenon
  <2> QED BY <1>2, <1>5, <2>1 DEF Lists
<1> QED BY <1>4, <1>7 DEF A

\* With timestamps up to T no list is longer than T.
LEMMA BuildShort ==
  ASSUME NEW R \in SUBSET SnbRecord, IsFiniteSet(R), Distinct(R),
         NEW T \in Nat, \A e \in R : e.ts \in 1..T, NEW g \in DOMAIN build(R)
  PROVE  Len(build(R)[g]) <= T
<1> DEFINE s == Neighborhood(R, g)
           S == InGroup(R, g)
           f == [e \in S |-> e.ts]
<1>1. Sorts(s, S, Newer(S)) /\ Len(build(R)[g]) = Len(s) /\ Len(s) \in Nat
  BY NeighborhoodSorted, BuildGroup
<1>2. S \subseteq R
  BY DEF InGroup, Newest
<1> HIDE DEF S, s
<1>3. f \in Injection(S, 1..T)
  <2>1. f \in [S -> 1..T] /\ \A x, y \in S : f[x] = f[y] => x = y
    BY <1>2 DEF Distinct
  <2> HIDE DEF f
  <2> QED BY <2>1 DEF Injection, IsInjective
<1>4. IsFiniteSet(1..T) /\ Cardinality(1..T) = T
  BY FS_Interval
<1>5. Cardinality(S) <= T
  <2> HIDE DEF f
  <2> QED BY <1>3, <1>4, FS_Injection
<1> QED BY <1>1, <1>5 DEF Sorts

\* The keys of a sorted list of records.
LEMMA SortedKeys ==
  ASSUME NEW S, NEW R, Orders(R, S), NEW s, Sorts(s, S, R),
         \A x, y \in S : x.key = y.key => x = y,
         NEW B, \A i, j \in 1..Len(s) : i < j => <<s[i].key, s[j].key>> \in B
  PROVE  Sorts([i \in 1..Len(s) |-> s[i].key], {x.key : x \in S}, B)
<1> DEFINE K == {x.key : x \in S}
           t == [i \in 1..Len(s) |-> s[i].key]
<1>1. /\ Len(s) \in Nat /\ NoTwice(s) /\ s \in Seq(S) /\ ToSet(s) = S
      /\ \A i \in 1..Len(s) : s[i] \in S
  BY SortedOnce, ElementOfSeq
<1>2. t \in Seq(K) /\ Len(t) = Len(s)
  BY <1>1
<1>3. \A i \in 1..Len(s) : t[i] = s[i].key
  OBVIOUS
<1>4. \A k \in K : \E i \in 1..Len(s) : t[i] = k
  BY <1>3 DEF Sorts
<1> HIDE DEF t, K
<1>5. NoTwice(t)
  BY <1>1, <1>2, <1>3 DEF NoTwice
<1>6. ToSet(t) = K
  <2>1. ToSet(t) \subseteq K
    BY <1>2, ToSetIs
  <2>2. ToSet(t) = {t[i] : i \in 1..Len(t)}
    BY <1>2, ToSetIs
  <2> QED BY <1>2, <1>4, <2>1, <2>2
<1>7. Len(t) = Cardinality(K)
  BY <1>2, <1>5, <1>6, OnceLength
<1>8. \A i, j \in 1..Len(t) : i < j => <<t[i], t[j]>> \in B
  BY <1>2, <1>3
<1>9. Sorts(t, K, B)
  BY <1>2, <1>4, <1>7, <1>8 DEF Sorts
<1> QED BY <1>9 DEF t, K

\* Two sets of records of the same edges, whose newest records are in the
\* same order within every group, give the same adjacency.
LEMMA SameBuild ==
  ASSUME NEW R \in SUBSET SnbRecord, IsFiniteSet(R), Distinct(R),
         NEW Q \in SUBSET SnbRecord, IsFiniteSet(Q),
         {e.key : e \in R} = {e.key : e \in Q},
         \A a, b \in Newest(R) : \A c, d \in Newest(Q) :
           c.key = a.key /\ d.key = b.key /\
           GroupOf(a.key) = GroupOf(b.key) /\ a.ts > b.ts
             => c.ts > d.ts
  PROVE  build(Q) = build(R)
<1>1. \A e \in R : \E f \in Newest(R) : f.key = e.key
  BY NewestExists
<1>2. \A e \in Q : \E f \in Newest(Q) : f.key = e.key
  BY NewestExists
<1>3. Newest(R) \subseteq R /\ Newest(Q) \subseteq Q
  BY DEF Newest
<1>4. /\ \A e \in Newest(R) : \E f \in Newest(Q) : f.key = e.key
      /\ \A e \in Newest(Q) : \E f \in Newest(R) : f.key = e.key
  <2>1. ASSUME NEW e \in R PROVE \E f \in Q : f.key = e.key
    <3>1. e.key \in {f.key : f \in Q}
      OBVIOUS
    <3> QED BY <3>1
  <2>2. ASSUME NEW e \in Q PROVE \E f \in R : f.key = e.key
    <3>1. e.key \in {f.key : f \in R}
      OBVIOUS
    <3> QED BY <3>1
  <2> QED BY <1>1, <1>2, <1>3, <2>1, <2>2
<1>5. DOMAIN build(R) = DOMAIN build(Q)
  <2>1. {GroupOf(e.key) : e \in Newest(R)} = {GroupOf(e.key) : e \in Newest(Q)}
    BY <1>4
  <2> QED BY <2>1, BuildIs
<1>6. ASSUME NEW g \in DOMAIN build(R)
      PROVE  build(R)[g] = build(Q)[g]
  <2> DEFINE s == Neighborhood(R, g)
             t == Neighborhood(Q, g)
             S == InGroup(R, g)
             T == InGroup(Q, g)
             K == {x.key : x \in S}
             B == {p \in K \X K : \E a, b \in S : a.key = p[1] /\ b.key = p[2] /\ a.ts > b.ts}
             sk == [i \in 1..Len(s) |-> s[i].key]
             tk == [i \in 1..Len(t) |-> t[i].key]
  <2>1. /\ Sorts(s, S, Newer(S)) /\ Orders(Newer(S), S) /\ NoTwice(s) /\ Len(s) \in Nat
        /\ \A e, f \in S : e.key.dst = f.key.dst => e = f
        /\ s \in Seq(S)
    BY NeighborhoodSorted
  <2>2. /\ Sorts(t, T, Newer(T)) /\ Orders(Newer(T), T) /\ NoTwice(t) /\ Len(t) \in Nat
        /\ \A e, f \in T : e.key.dst = f.key.dst => e = f
        /\ t \in Seq(T)
    BY NeighborhoodSorted
  <2>3. build(R)[g] = [i \in 1..Len(s) |-> s[i].key.dst]
    BY BuildGroup
  <2>4. build(Q)[g] = [i \in 1..Len(t) |-> t[i].key.dst]
    BY <1>5, BuildGroup
  <2>5. {x.key : x \in T} = K
    BY <1>4 DEF InGroup
  <2>6. /\ S \subseteq Newest(R) /\ \A e \in S : GroupOf(e.key) = g
        /\ T \subseteq Newest(Q) /\ \A e \in T : GroupOf(e.key) = g
    BY DEF InGroup
  <2>7. /\ S \subseteq R /\ T \subseteq Q
        /\ \A e \in S : e.ts \in Int
        /\ \A e \in T : e.ts \in Int
    BY <1>3, <2>6 DEF SnbRecord
  <2>8. /\ \A i \in 1..Len(s) : s[i] \in S
        /\ \A i \in 1..Len(t) : t[i] \in T
    BY <2>1, <2>2, ElementOfSeq
  <2> HIDE DEF s, t, S, T
  <2>9. \A k, l \in K : <<k, l>> \in B
                           <=> \E a, b \in S : a.key = k /\ b.key = l /\ a.ts > b.ts
    OBVIOUS
  <2>10. \A e, f \in S : e.ts = f.ts => e = f
    BY <2>7 DEF Distinct
  <2>11. \A e, f \in S : e.key = f.key => e = f
    BY <2>1
  <2>12. \A e, f \in T : e.key = f.key => e = f
    BY <2>2
  <2>13. \A k \in K : \E e \in S : e.key = k
    OBVIOUS
  <2>14. \A e \in S : e.key \in K
    OBVIOUS
  <2>15. \A e \in T : e.key \in K
    BY <2>5
  <2> HIDE DEF B, K
  <2>16. Orders(B, K)
    <3>1. \A k \in K : <<k, k>> \notin B
      BY <2>7, <2>9, <2>11
    <3>2. \A k, l \in K : k = l \/ <<k, l>> \in B \/ <<l, k>> \in B
      <4> SUFFICES ASSUME NEW k \in K, NEW l \in K, k # l
                   PROVE  <<k, l>> \in B \/ <<l, k>> \in B
        OBVIOUS
      <4>1. PICK a \in S, b \in S : a.key = k /\ b.key = l
        BY <2>13
      <4>2. a.ts \in Int /\ b.ts \in Int /\ a.ts # b.ts
        BY <2>7, <2>10, <4>1
      <4>3. a.ts > b.ts \/ b.ts > a.ts
        BY <4>2
      <4> QED BY <2>9, <4>1, <4>3
    <3>3. \A k, l, m \in K : <<k, l>> \in B /\ <<l, m>> \in B => <<k, m>> \in B
      BY <2>7, <2>9, <2>11
    <3> QED BY <3>1, <3>2, <3>3 DEF Orders
  <2>17. ASSUME NEW i \in 1..Len(s), NEW j \in 1..Len(s), i < j
         PROVE  <<s[i].key, s[j].key>> \in B
    <3>1. <<s[i], s[j]>> \in Newer(S) /\ s[i] # s[j]
      BY <2>1, <2>17 DEF Sorts, NoTwice
    <3>2. s[i].ts >= s[j].ts
      BY <2>7, <2>8, <3>1 DEF Newer
    <3>3. s[i].ts > s[j].ts
      BY <2>7, <2>8, <2>10, <3>1, <3>2
    <3> QED BY <2>8, <2>9, <2>14, <3>3
  <2>18. ASSUME NEW i \in 1..Len(t), NEW j \in 1..Len(t), i < j
         PROVE  <<t[i].key, t[j].key>> \in B
    <3>1. <<t[i], t[j]>> \in Newer(T) /\ t[i] # t[j]
      BY <2>2, <2>18 DEF Sorts, NoTwice
    <3>2. t[i].ts >= t[j].ts
      BY <2>7, <2>8, <3>1 DEF Newer
    <3>3. PICK a \in S, b \in S : a.key = t[i].key /\ b.key = t[j].key
      BY <2>8, <2>13, <2>15
    <3>4. a # b
      BY <2>8, <2>12, <3>1, <3>3
    <3>5. ~(b.ts > a.ts)
      <4> SUFFICES ASSUME b.ts > a.ts PROVE FALSE
        OBVIOUS
      <4>1. t[j].ts > t[i].ts
        BY <2>6, <2>8, <3>3
      <4> QED BY <2>7, <2>8, <3>2, <4>1
    <3>6. a.ts > b.ts
      BY <2>7, <2>10, <3>4, <3>5
    <3> QED BY <2>8, <2>9, <2>15, <3>3, <3>6
  <2>19. Sorts(sk, K, B)
    BY <2>1, <2>11, <2>17, SortedKeys DEF K
  <2>20. Sorts(tk, K, B)
    BY <2>2, <2>5, <2>12, <2>18, SortedKeys
  <2>21. sk = tk
    <3> HIDE DEF sk, tk
    <3> QED BY <2>16, <2>19, <2>20, SortedUnique
  <2>22. Len(s) = Len(t) /\ \A i \in 1..Len(s) : s[i].key = t[i].key
    <3>1. DOMAIN sk = 1..Len(s) /\ DOMAIN tk = 1..Len(t)
      OBVIOUS
    <3>2. 1..Len(s) = 1..Len(t)
      BY <2>21, <3>1
    <3>3. Len(s) = Len(t)
      BY <2>19, <2>20, <2>1, <2>2, <2>21, <3>1 DEF Sorts
    <3>4. \A i \in 1..Len(s) : sk[i] = s[i].key /\ tk[i] = t[i].key
      BY <3>3
    <3> QED BY <2>21, <3>3, <3>4
  <2> QED BY <2>3, <2>4, <2>22
<1>7. /\ build(R) = [g \in DOMAIN build(R) |-> build(R)[g]]
      /\ build(Q) = [g \in DOMAIN build(Q) |-> build(Q)[g]]
  BY DEF build
<1> QED BY <1>5, <1>6, <1>7

\* A scan of the engine gives what its records give.
LEMMA ScanBuild ==
  ASSUME NEW R \in SUBSET SnbRecord, NEW T \in Nat, \A e \in R : e.ts <= T
  PROVE  build(merge_visible(R, T)) = build(R)
<1> DEFINE M == merge_visible(R, T)
<1>1. \A e \in R : e.marker = "Insert"
  BY DEF SnbRecord
<1>2. M = Newest(R)
  BY <1>1 DEF merge_visible, merge_latest_records, Newest
<1>3. Newest(M) = Newest(R)
  BY <1>2 DEF Newest
<1> HIDE DEF M
<1>4. \A g : InGroup(M, g) = InGroup(R, g)
  BY <1>3 DEF InGroup
<1>5. \A g : Neighborhood(M, g) = Neighborhood(R, g)
  BY <1>4 DEF Neighborhood
<1>6. build(M) = [g \in {GroupOf(e.key) : e \in Newest(M)} |->
                          [i \in DOMAIN Neighborhood(M, g) |->
                             Neighborhood(M, g)[i].key.dst]]
  BY BuildIs
<1>7. build(R) = [g \in {GroupOf(e.key) : e \in Newest(R)} |->
                          [i \in DOMAIN Neighborhood(R, g) |->
                             Neighborhood(R, g)[i].key.dst]]
  BY BuildIs
<1> QED BY <1>3, <1>5, <1>6, <1>7 DEF M

-----------------------------------------------------------------------------
(* A cache that is loaded and built again.                                 *)

\* No neighborhood is longer than there were timestamps.
Short(A, T) == \A g \in DOMAIN A : Len(A[g]) <= T

\* A cache that is loaded: every edge once, in the order of the cache.
LEMMA Loaded ==
  ASSUME NEW A, Adjacency(A), NEW T \in Nat, Short(A, T)
  PROVE  LET P == from_adjacency(A, T)
         IN  /\ P \in SUBSET SnbRecord /\ IsFiniteSet(P)
             /\ \A p \in P : p.ts <= T
             /\ \A p \in P : \E g \in DOMAIN A : \E i \in 1..Len(A[g]) :
                  p.key = KeyAt(A, g, i)
             /\ \A g \in DOMAIN A : \A i \in 1..Len(A[g]) :
                  /\ \E p \in P : p.key = KeyAt(A, g, i)
                  /\ \A p \in P : p.key = KeyAt(A, g, i) => p.ts = T - (i - 1)
<1> DEFINE P == from_adjacency(A, T)
           at(g, i) == Record(KeyAt(A, g, i), IF T >= i - 1 THEN T - (i - 1) ELSE 0)
           row(g) == {at(g, i) : i \in DOMAIN A[g]}
<1>1. P = UNION {row(g) : g \in DOMAIN A}
  BY DEF from_adjacency, KeyAt
<1>2. \A g \in DOMAIN A : /\ g = <<g[1], g[2]>>
                          /\ Len(A[g]) \in Nat /\ Len(A[g]) <= T /\ DOMAIN A[g] = 1..Len(A[g])
                          /\ NoTwice(A[g])
  BY DEF Adjacency, Short
<1>3. \A g \in DOMAIN A : \A i \in 1..Len(A[g]) : KeyAt(A, g, i) \in SnbKey
  BY DEF Adjacency
<1>4. ASSUME NEW g \in DOMAIN A, NEW i \in 1..Len(A[g])
      PROVE  /\ at(g, i) \in P /\ at(g, i) \in SnbRecord
             /\ at(g, i).key = KeyAt(A, g, i) /\ at(g, i).ts = T - (i - 1) /\ at(g, i).ts <= T
  <2>1. T >= i - 1 /\ T - (i - 1) \in Nat /\ T - (i - 1) <= T
    BY <1>2
  <2>2. at(g, i) = [key |-> KeyAt(A, g, i), ts |-> T - (i - 1), marker |-> "Insert"]
    BY <2>1 DEF Record
  <2>3. at(g, i) \in row(g)
    BY <1>2
  <2> HIDE DEF at, row
  <2>4. at(g, i) \in P
    BY <1>1, <2>3
  <2> QED BY <1>3, <2>1, <2>2, <2>4 DEF SnbRecord
<1>5. ASSUME NEW p \in P
      PROVE  \E g \in DOMAIN A : \E i \in 1..Len(A[g]) : p = at(g, i)
  <2> HIDE DEF P, at
  <2>1. PICK g \in DOMAIN A : p \in row(g)
    BY <1>1
  <2> QED BY <1>2, <2>1
<1>6. IsFiniteSet(P)
  <2>1. \A g \in DOMAIN A : IsFiniteSet(row(g))
    <3> SUFFICES ASSUME NEW g \in DOMAIN A PROVE IsFiniteSet(row(g))
      OBVIOUS
    <3> DEFINE f == [i \in 1..Len(A[g]) |-> at(g, i)]
    <3>1. row(g) = {f[i] : i \in 1..Len(A[g])}
      BY <1>2
    <3>2. IsFiniteSet(1..Len(A[g]))
      BY <1>2, FS_Interval
    <3> HIDE DEF f, row
    <3> QED BY <3>1, <3>2, ImageFinite
  <2> DEFINE F == [g \in DOMAIN A |-> row(g)]
             Rows == {F[g] : g \in DOMAIN A}
  <2>2. IsFiniteSet(Rows)
    <3>1. IsFiniteSet(DOMAIN A)
      BY DEF Adjacency
    <3> HIDE DEF F
    <3> QED BY <3>1, ImageFinite
  <2>3. \A Q \in Rows : IsFiniteSet(Q)
    BY <2>1
  <2>4. P = UNION Rows
    BY <1>1
  <2> HIDE DEF Rows, P
  <2> QED BY <2>2, <2>3, <2>4, FS_UNION
<1>7. ASSUME NEW g \in DOMAIN A, NEW i \in 1..Len(A[g]), NEW p \in P,
             p.key = KeyAt(A, g, i)
      PROVE  p.ts = T - (i - 1)
  <2>9. PICK h \in DOMAIN A : \E j \in 1..Len(A[h]) : p = at(h, j)
    BY <1>5
  <2>1. PICK j \in 1..Len(A[h]) : p = at(h, j)
    BY <2>9
  <2>2. KeyAt(A, h, j) = KeyAt(A, g, i)
    BY <1>4, <1>7, <2>1
  <2>3. h[1] = g[1] /\ h[2] = g[2] /\ A[h][j] = A[g][i]
    BY <2>2 DEF KeyAt, Key
  <2>4. h = g
    BY <1>2, <2>3
  <2>5. j = i
    BY <1>2, <2>3, <2>4 DEF NoTwice
  <2> QED BY <1>4, <2>1, <2>4, <2>5
<1>8. P \in SUBSET SnbRecord /\ \A p \in P : p.ts <= T
  <2> HIDE DEF P, at
  <2> QED BY <1>4, <1>5
<1>9. \A p \in P : \E g \in DOMAIN A : \E i \in 1..Len(A[g]) : p.key = KeyAt(A, g, i)
  <2> HIDE DEF P, at
  <2> QED BY <1>4, <1>5
<1>10. \A g \in DOMAIN A : \A i \in 1..Len(A[g]) : \E p \in P : p.key = KeyAt(A, g, i)
  <2> HIDE DEF P, at
  <2> QED BY <1>4
<1> HIDE DEF P
<1> QED BY <1>6, <1>7, <1>8, <1>9, <1>10 DEF P

\* Records of the edges of K leave what an adjacency tells of the others.
LEMMA ListsGrow ==
  ASSUME NEW A, NEW K, NEW R, NEW Q, Lists(A, R, K), R \subseteq Q,
         \A e \in Q \ R : e.key \in K
  PROVE  Lists(A, Q, K)
<1>1. \A a \in Newest(Q) : a.key \notin K => a \in Newest(R)
  BY DEF Newest
<1>2. \A g \in DOMAIN A : \A i \in 1..Len(A[g]) :
        KeyAt(A, g, i) \notin K => \E e \in Q : e.key = KeyAt(A, g, i)
  BY DEF Lists
<1>3. \A e \in Q :
        e.key \notin K => \E g \in DOMAIN A : \E i \in 1..Len(A[g]) : e.key = KeyAt(A, g, i)
  BY DEF Lists
<1>4. ASSUME NEW g \in DOMAIN A, NEW i \in 1..Len(A[g]), NEW j \in 1..Len(A[g]),
             NEW a \in Newest(Q), NEW b \in Newest(Q),
             a.key = KeyAt(A, g, i), b.key = KeyAt(A, g, j),
             a.key \notin K, b.key \notin K, i < j
      PROVE  a.ts > b.ts
  BY <1>1, <1>4 DEF Lists
<1>5. \A g \in DOMAIN A : \A i, j \in 1..Len(A[g]) : \A a, b \in Newest(Q) :
          a.key = KeyAt(A, g, i) /\ b.key = KeyAt(A, g, j) /\
          a.key \notin K /\ b.key \notin K /\ i < j
            => a.ts > b.ts
  BY <1>4, Zenon
<1> QED BY <1>2, <1>3, <1>5 DEF Lists

\* The cache after an update: the old cache, and the edges of K on top of it,
\* are as good as the engine, when the old cache was so but for K.
LEMMA UpdatedBuild ==
  ASSUME NEW E \in SUBSET SnbRecord, IsFiniteSet(E), Distinct(E),
         NEW T \in Nat, NEW A, Adjacency(A), Short(A, T), NEW K,
         Lists(A, {e \in E : e.ts <= T}, K),
         {e.key : e \in {x \in E : x.ts > T}} = K
  PROVE  build(from_adjacency(A, T) \cup {e \in E : e.ts > T}) = build(E)
<1> DEFINE O == {e \in E : e.ts <= T}
           N == {e \in E : e.ts > T}
           P == from_adjacency(A, T)
           Q == P \cup N
<1>1. /\ P \in SUBSET SnbRecord /\ IsFiniteSet(P)
      /\ \A p \in P : p.ts <= T
      /\ \A p \in P : \E g \in DOMAIN A : \E i \in 1..Len(A[g]) : p.key = KeyAt(A, g, i)
      /\ \A g \in DOMAIN A : \A i \in 1..Len(A[g]) :
           /\ \E p \in P : p.key = KeyAt(A, g, i)
           /\ \A p \in P : p.key = KeyAt(A, g, i) => p.ts = T - (i - 1)
  BY Loaded
<1>2. /\ \A e \in E : e.ts \in Nat
      /\ \A e \in P : e.ts \in Nat
  BY <1>1 DEF SnbRecord
<1> HIDE DEF P
<1>3. Q \in SUBSET SnbRecord /\ IsFiniteSet(Q)
  <2>1. N \in SUBSET E
    OBVIOUS
  <2>2. IsFiniteSet(N)
    BY <2>1, FS_Subset
  <2> HIDE DEF N
  <2> QED BY <1>1, <2>1, <2>2, FS_Union
<1>4. \A e \in E : e.key \in K <=> \E n \in N : n.key = e.key
  OBVIOUS
<1>5. /\ \A e \in E : e \in O \/ e \in N
      /\ \A e \in N : e \in E /\ e.ts > T /\ e.key \in K
      /\ \A e \in O : e \in E /\ e.ts <= T
      /\ \A k \in K : \E n \in N : n.key = k
  BY <1>2
<1>6. Lists(A, O, K)
  OBVIOUS
<1> HIDE DEF O, N
<1>7. \A e \in E : \E f \in Q : f.key = e.key
  <2> SUFFICES ASSUME NEW e \in E PROVE \E f \in Q : f.key = e.key
    OBVIOUS
  <2>1. CASE e.key \in K
    BY <1>5, <2>1
  <2>2. CASE e.key \notin K
    <3>1. e \in O
      BY <1>5, <2>2
    <3>2. PICK g \in DOMAIN A : \E i \in 1..Len(A[g]) : e.key = KeyAt(A, g, i)
      BY <1>6, <2>2, <3>1 DEF Lists
    <3> QED BY <1>1, <3>2
  <2> QED BY <2>1, <2>2
<1>8. \A e \in Q : \E f \in E : f.key = e.key
  <2> SUFFICES ASSUME NEW e \in P PROVE \E f \in E : f.key = e.key
    BY <1>5
  <2>2. PICK g \in DOMAIN A : \E i \in 1..Len(A[g]) : e.key = KeyAt(A, g, i)
    BY <1>1
  <2>1. PICK i \in 1..Len(A[g]) : e.key = KeyAt(A, g, i)
    BY <2>2
  <2> QED BY <1>5, <1>6, <2>1 DEF Lists
<1>9. {e.key : e \in E} = {e.key : e \in Q}
  <2>1. {e.key : e \in E} \subseteq {e.key : e \in Q}
    BY <1>7
  <2>2. {e.key : e \in Q} \subseteq {e.key : e \in E}
    BY <1>8
  <2> QED BY <2>1, <2>2
<1>10. /\ \A a \in Newest(E) : a.key \in K => a \in N
       /\ \A a \in Newest(E) : a.key \notin K => a \in O /\ a \in Newest(O)
  <2>1. ASSUME NEW a \in Newest(E), a.key \in K PROVE a \in N
    <3>1. PICK n \in N : n.key = a.key
      BY <1>5, <2>1
    <3>2. a \in E /\ n.ts <= a.ts /\ n.ts > T
      BY <1>5, <3>1 DEF Newest
    <3>3. a \notin O
      BY <1>2, <1>5, <3>2
    <3> QED BY <1>5, <3>2, <3>3
  <2>2. ASSUME NEW a \in Newest(E), a.key \notin K PROVE a \in O /\ a \in Newest(O)
    BY <1>5, <2>2 DEF Newest
  <2> QED BY <2>1, <2>2
<1>11. /\ \A c \in Newest(Q) : c.key \in K => c \in N /\ c \in Newest(E)
       /\ \A c \in Newest(Q) : c.key \notin K => c \in P
  <2>1. ASSUME NEW c \in Newest(Q), c.key \in K PROVE c \in N /\ c \in Newest(E)
    <3>1. PICK n \in N : n.key = c.key
      BY <1>5, <2>1
    <3>2. c \in Q /\ n.ts <= c.ts /\ n.ts > T
      BY <1>5, <3>1 DEF Newest
    <3>3. c \in N
      BY <1>1, <1>2, <1>5, <3>2
    <3>4. \A o \in E : o.key = c.key => o.ts <= c.ts
      <4> SUFFICES ASSUME NEW o \in E, o.key = c.key PROVE o.ts <= c.ts
        OBVIOUS
      <4>1. CASE o \in N
        BY <4>1 DEF Newest
      <4>2. CASE o \in O
        BY <1>2, <1>5, <3>3, <4>2
      <4> QED BY <1>5, <4>1, <4>2
    <3> QED BY <1>5, <3>3, <3>4 DEF Newest
  <2>2. ASSUME NEW c \in Newest(Q), c.key \notin K PROVE c \in P
    BY <1>5, <2>2 DEF Newest
  <2> QED BY <2>1, <2>2
<1>12. ASSUME NEW a \in Newest(E), NEW b \in Newest(E), NEW c \in Newest(Q), NEW d \in Newest(Q),
              c.key = a.key, d.key = b.key, GroupOf(a.key) = GroupOf(b.key), a.ts > b.ts
       PROVE  c.ts > d.ts
  <2>1. \A e, f \in Newest(E) : e.key = f.key => e.ts = f.ts
    BY <1>2 DEF Newest
  <2>2. a.ts \in Nat /\ b.ts \in Nat /\ a \in E /\ b \in E /\ c \in Q /\ d \in Q
    BY <1>2 DEF Newest
  <2>3. c.ts \in Nat /\ d.ts \in Nat
    BY <1>2, <1>5, <2>2
  <2>4. CASE a.key \in K /\ b.key \in K
    BY <1>11, <1>12, <2>1, <2>4
  <2>5. CASE a.key \in K /\ b.key \notin K
    <3>1. c \in N /\ d \in P
      BY <1>11, <1>12, <2>5
    <3>2. c.ts > T /\ d.ts <= T
      BY <1>1, <1>5, <3>1
    <3> QED BY <2>3, <3>2
  <2>6. CASE a.key \notin K /\ b.key \in K
    <3>1. b \in N /\ a \in O
      BY <1>10, <2>6
    <3>2. b.ts > T /\ a.ts <= T
      BY <1>5, <3>1
    <3> QED BY <1>12, <2>2, <3>2
  <2>7. CASE a.key \notin K /\ b.key \notin K
    <3>1. a \in Newest(O) /\ b \in Newest(O) /\ c \in P /\ d \in P
      BY <1>10, <1>11, <1>12, <2>7
    <3>9. PICK g \in DOMAIN A : \E i \in 1..Len(A[g]) : c.key = KeyAt(A, g, i)
      BY <1>1, <3>1
    <3>2. PICK i \in 1..Len(A[g]) : c.key = KeyAt(A, g, i)
      BY <3>9
    <3>10. PICK h \in DOMAIN A : \E j \in 1..Len(A[h]) : d.key = KeyAt(A, h, j)
      BY <1>1, <3>1
    <3>3. PICK j \in 1..Len(A[h]) : d.key = KeyAt(A, h, j)
      BY <3>10
    <3>4. g = h
      <4>1. g[1] = c.key.src /\ g[2] = c.key.edge_type
        BY <3>2 DEF KeyAt, Key
      <4>2. h[1] = d.key.src /\ h[2] = d.key.edge_type
        BY <3>3 DEF KeyAt, Key
      <4>3. c.key.src = d.key.src /\ c.key.edge_type = d.key.edge_type
        BY <1>12 DEF GroupOf
      <4>4. g = <<g[1], g[2]>> /\ h = <<h[1], h[2]>>
        BY DEF Adjacency
      <4> QED BY <4>1, <4>2, <4>3, <4>4
    <3>5. c.ts = T - (i - 1) /\ d.ts = T - (j - 1)
      BY <1>1, <3>1, <3>2, <3>3
    <3>6. i # j
      <4> SUFFICES ASSUME i = j PROVE FALSE
        OBVIOUS
      <4>1. a.key = b.key
        BY <1>12, <3>2, <3>3, <3>4
      <4>2. a.ts = b.ts
        BY <2>1, <4>1
      <4> QED BY <1>12, <2>2, <4>2
    <3>7. ~(j < i)
      <4> SUFFICES ASSUME j < i PROVE FALSE
        OBVIOUS
      <4>1. b.ts > a.ts
        <5>1. \A x, y \in Newest(O) :
                x.key = KeyAt(A, g, j) /\ y.key = KeyAt(A, g, i) /\
                x.key \notin K /\ y.key \notin K /\ j < i
                  => x.ts > y.ts
          BY <1>6, <3>4, Zenon DEF Lists
        <5>2. b.key = KeyAt(A, g, j) /\ a.key = KeyAt(A, g, i)
          BY <1>12, <3>2, <3>3, <3>4
        <5>3. j < i
          OBVIOUS
        <5> QED BY <2>7, <3>1, <5>1, <5>2, <5>3, Zenon
      <4> QED BY <1>12, <2>2, <4>1
    <3>8. i \in Int /\ j \in Int /\ i < j
      BY <3>4, <3>6, <3>7
    <3> QED BY <3>5, <3>8
  <2> QED BY <2>4, <2>5, <2>6, <2>7
<1>13. \A a, b \in Newest(E) : \A c, d \in Newest(Q) :
           c.key = a.key /\ d.key = b.key /\
           GroupOf(a.key) = GroupOf(b.key) /\ a.ts > b.ts
             => c.ts > d.ts
  BY <1>12, Zenon
<1>14. build(Q) = build(E)
  <2> HIDE DEF Q
  <2> QED BY <1>3, <1>9, <1>13, SameBuild
<1> QED BY <1>14 DEF P, N

-----------------------------------------------------------------------------
(* The cache.                                                              *)

\* The edges that the update streams write.
StreamKeys == Done(import_snb_updates, Len(import_snb_updates))

\* The records up to a timestamp, and those after it.
Older(T) == {e \in edges : e.ts <= T}
Later(T) == {e \in edges : e.ts > T}

\* The records of the engine have timestamps of their own, up to the counter.
EngineInv ==
  /\ edges \in SUBSET SnbRecord /\ IsFiniteSet(edges) /\ Distinct(edges)
  /\ timestamp \in Nat /\ flushed \in 0..timestamp
  /\ \A e \in edges : e.ts \in 1..timestamp
  /\ timestamp = 0 \/ \E e \in edges : e.ts = timestamp
  /\ running \in {"none", "import", "updates", "server"}
  /\ DOMAIN history = {"pedigree", "complete", "behind", "cut", "applied", "opened",
                       "commands", "crashes"}

\* A cache that accounts for the engine.
Counts == cache.exists /\ history.pedigree # "partial"

\* When no command runs the cache has the edges of the engine, but maybe for
\* those of the streams, which the next update writes again.
RestInv ==
  AtRest =>
    /\ flushed = timestamp
    /\ Counts => /\ Adjacency(cache.groups) /\ Short(cache.groups, timestamp)
                 /\ Lists(cache.groups, edges, StreamKeys)
                 /\ ~history.behind => cache.groups = build(edges)

\* The builder of an import has the edges of the engine.
ImportInv ==
  running = "import" =>
    /\ ~cache.exists /\ builder = edges
    /\ \E n \in 0..(Len(import_snb_full) - 1) :
         /\ todo = Rest(import_snb_full, n)
         /\ n = Len(import_snb_full) - 1 => flushed = timestamp

\* An update that began at timestamp T has done n of its steps.
UpdatedTo(n, T) ==
  /\ todo = Rest(import_snb_updates, n)
  /\ n = Len(import_snb_updates) - 1 => flushed = timestamp
  /\ T = 0 \/ \E e \in edges : e.ts = T
  /\ {e.key : e \in Later(T)} = Done(import_snb_updates, n)
  /\ Counts => /\ builder = from_adjacency(cache.groups, T) \cup Later(T)
               /\ Adjacency(cache.groups) /\ Short(cache.groups, T)
               /\ Lists(cache.groups, Older(T), StreamKeys)

\* An update knows what it began with.
UpdatesInv ==
  running = "updates" =>
    \E n \in 0..(Len(import_snb_updates) - 1), T \in 0..flushed : UpdatedTo(n, T)

\* The inductive invariant.
AdjacencyInv == EngineInv /\ RestInv /\ ImportInv /\ UpdatesInv

\* It holds when nothing was done yet.
LEMMA AdjacencyStart == Init => AdjacencyInv
<1> SUFFICES ASSUME Init PROVE AdjacencyInv
  OBVIOUS
<1>1. EngineInv
  BY FS_EmptySet DEF Init, EngineInv, Distinct
<1>2. RestInv
  BY DEF Init, RestInv, Counts
<1>3. ImportInv /\ UpdatesInv
  BY DEF Init, ImportInv, UpdatesInv
<1> QED BY <1>1, <1>2, <1>3 DEF AdjacencyInv

\* A step of a command.
LEMMA Advance ==
  ASSUME NEW C, Command(C), NEW n \in 0..(Len(C) - 1), todo = Rest(C, n),
         NEW op, Doing(op)
  PROVE  /\ C[n + 1].op = op /\ Head(todo) = C[n + 1] /\ n + 1 \in 1..Len(C)
         /\ todo' = Rest(C, n + 1)
         /\ op = "write_cache" <=> n = Len(C) - 1
         /\ op = "flush_active" <=> n + 1 = Len(C) - 1
         /\ op = "write_cache" => running' = "none"
         /\ op # "write_cache" => running' = running /\ n + 1 \in 0..(Len(C) - 1)
<1>1. /\ Len(C) \in Nat
      /\ \A i \in 1..Len(C) : /\ C[i].op = "write_cache" <=> i = Len(C)
                              /\ C[i].op = "flush_active" <=> i = Len(C) - 1
  BY DEF Command
<1>2. /\ Head(todo) = C[n + 1] /\ Tail(todo) = Rest(C, n + 1)
      /\ Len(todo) = Len(C) - n
  BY RestStep
<1>3. /\ Head(todo).op = op /\ todo' = Tail(todo)
      /\ running' = IF Len(todo) = 1 THEN "none" ELSE running
  BY DEF Doing
<1>4. n + 1 \in 1..Len(C)
  BY <1>1
<1>5. op = "write_cache" <=> n = Len(C) - 1
  BY <1>1, <1>2, <1>3, <1>4
<1>6. op = "flush_active" <=> n + 1 = Len(C) - 1
  BY <1>1, <1>2, <1>3, <1>4
<1>7. Len(todo) = 1 <=> n = Len(C) - 1
  BY <1>1, <1>2
<1>8. n # Len(C) - 1 => n + 1 \in 0..(Len(C) - 1)
  BY <1>1
<1> QED BY <1>2, <1>3, <1>4, <1>5, <1>6, <1>7, <1>8

\* What the engine has gives a cache that follows it.
LEMMA FreshCache ==
  ASSUME EngineInv
  PROVE  /\ Adjacency(build(edges)) /\ Short(build(edges), timestamp)
         /\ Lists(build(edges), edges, StreamKeys)
         /\ build(scan_edges) = build(edges)
<1>1. /\ edges \in SUBSET SnbRecord /\ IsFiniteSet(edges) /\ Distinct(edges)
      /\ timestamp \in Nat /\ \A e \in edges : e.ts \in 1..timestamp
  BY DEF EngineInv
<1>2. Adjacency(build(edges)) /\ Lists(build(edges), edges, StreamKeys)
  BY <1>1, BuildFollows
<1>3. Short(build(edges), timestamp)
  BY <1>1, BuildShort DEF Short
<1>4. build(scan_edges) = build(edges)
  <2>1. \A e \in edges : e.ts <= timestamp
    BY <1>1
  <2> QED BY <1>1, <2>1, ScanBuild DEF scan_edges
<1> QED BY <1>2, <1>3, <1>4

\* Steps that leave the engine, the builder and the cache alone.
LEMMA QuietStep ==
  ASSUME AdjacencyInv, NEW op \in {"vertex", "flush_vertices", "flush_props"}, Doing(op),
         UNCHANGED <<engineVars, cache, builder, history>>
  PROVE  AdjacencyInv'
<1> USE DEF engineVars
<1>1. running \in {"import", "updates"}
  BY DEF Doing
<1>2. EngineInv
  BY DEF AdjacencyInv
<1>3. CASE running = "import"
  <2>1. PICK n \in 0..(Len(import_snb_full) - 1) : todo = Rest(import_snb_full, n)
    BY <1>3 DEF AdjacencyInv, ImportInv
  <2>2. /\ running' = running /\ n + 1 \in 0..(Len(import_snb_full) - 1)
        /\ todo' = Rest(import_snb_full, n + 1)
        /\ n + 1 # Len(import_snb_full) - 1
    BY <2>1, Advance, ImportCommand
  <2>3. EngineInv'
    BY <1>2, <2>2 DEF EngineInv
  <2>4. ImportInv'
    BY <1>3, <2>2 DEF AdjacencyInv, ImportInv
  <2>5. RestInv' /\ UpdatesInv'
    BY <1>3, <2>2 DEF RestInv, UpdatesInv, AtRest
  <2> QED BY <2>3, <2>4, <2>5 DEF AdjacencyInv
<1>4. CASE running = "updates"
  <2> DEFINE U == import_snb_updates
  <2>1. PICK n \in 0..(Len(U) - 1), T \in 0..flushed : UpdatedTo(n, T)
    BY <1>4 DEF AdjacencyInv, UpdatesInv
  <2>2. /\ running' = running /\ n + 1 \in 0..(Len(U) - 1)
        /\ todo' = Rest(U, n + 1)
        /\ n + 1 # Len(U) - 1
        /\ U[n + 1].op # "edge"
    BY <2>1, Advance, UpdatesCommand DEF UpdatedTo
  <2>3. EngineInv'
    BY <1>2, <2>2 DEF EngineInv
  <2>4. Done(U, n + 1) = Done(U, n)
    BY <2>2, DoneStep
  <2>5. Later(T)' = Later(T) /\ Older(T)' = Older(T) /\ Counts' = Counts
    BY DEF Later, Older, Counts
  <2>6. UpdatedTo(n + 1, T)'
    BY <2>1, <2>2, <2>4, <2>5 DEF UpdatedTo
  <2>7. UpdatesInv'
    BY <2>2, <2>6 DEF UpdatesInv
  <2>8. ImportInv' /\ RestInv'
    BY <1>4, <2>2 DEF RestInv, ImportInv, AtRest
  <2> QED BY <2>3, <2>7, <2>8 DEF AdjacencyInv
<1> QED BY <1>1, <1>3, <1>4

-----------------------------------------------------------------------------
(* The steps.                                                              *)

\* An edge with a new timestamp.
LEMMA EngineGrows ==
  ASSUME EngineInv, NEW k \in SnbKey, running' = running, UNCHANGED <<flushed, history>>,
         timestamp' = timestamp + 1,
         edges' = edges \cup {Record(k, timestamp')}
  PROVE  EngineInv'
<1> DEFINE r == Record(k, timestamp')
<1>1. /\ edges \in SUBSET SnbRecord /\ IsFiniteSet(edges) /\ Distinct(edges)
      /\ timestamp \in Nat /\ flushed \in 0..timestamp
      /\ \A e \in edges : e.ts \in 1..timestamp
  BY DEF EngineInv
<1>2. timestamp' \in Nat /\ flushed' \in 0..timestamp'
  BY <1>1
<1>3. r \in SnbRecord /\ r.ts = timestamp'
  BY <1>2 DEF SnbRecord, Record
<1>4. r \in edges' /\ \A e \in edges' : e \in edges \/ e = r
  OBVIOUS
<1>5. IsFiniteSet(edges')
  BY <1>1, FS_AddElement
<1> HIDE DEF r
<1>6. edges' \in SUBSET SnbRecord
  BY <1>1, <1>3, <1>4
<1>7. \A e \in edges' : e.ts \in 1..timestamp'
  BY <1>1, <1>2, <1>3, <1>4
<1>8. Distinct(edges')
  <2>1. \A e \in edges : e.ts # r.ts
    BY <1>1, <1>3
  <2> QED BY <1>1, <1>4, <2>1 DEF Distinct
<1>9. \E e \in edges' : e.ts = timestamp'
  BY <1>3, <1>4
<1>10. Distinct(edges)'
  BY <1>8 DEF Distinct
<1> QED BY <1>2, <1>5, <1>6, <1>7, <1>9, <1>10 DEF EngineInv

\* Engine and builder get the same record.
LEMMA InsertStep == ASSUME AdjacencyInv, InsertEdge PROVE AdjacencyInv'
<1>1. /\ running \in {"import", "updates"} /\ Doing("edge")
      /\ timestamp' = timestamp + 1
      /\ edges' = edges \cup {Record(Head(todo).key, timestamp')}
      /\ builder' = builder \cup {Record(Head(todo).key, timestamp')}
      /\ UNCHANGED <<flushed, cache, history>>
  BY DEF InsertEdge, Doing, fileVars
<1>2. EngineInv
  BY DEF AdjacencyInv
<1>3. CASE running = "import"
  <2> DEFINE C == import_snb_full
  <2>1. PICK n \in 0..(Len(C) - 1) : todo = Rest(C, n)
    BY <1>3 DEF AdjacencyInv, ImportInv
  <2>2. /\ running' = running /\ n + 1 \in 0..(Len(C) - 1)
        /\ todo' = Rest(C, n + 1)
        /\ n + 1 # Len(C) - 1
        /\ n + 1 \in 1..Len(C) /\ C[n + 1].op = "edge" /\ Head(todo) = C[n + 1]
    BY <1>1, <2>1, Advance, ImportCommand
  <2>3. Head(todo).key \in SnbKey
    BY <2>2, ImportCommand DEF Command
  <2>4. EngineInv'
    BY <1>1, <1>2, <2>2, <2>3, EngineGrows
  <2>5. ImportInv'
    BY <1>1, <1>3, <2>2 DEF AdjacencyInv, ImportInv
  <2>6. RestInv' /\ UpdatesInv'
    BY <1>3, <2>2 DEF RestInv, UpdatesInv, AtRest
  <2> QED BY <2>4, <2>5, <2>6 DEF AdjacencyInv
<1>4. CASE running = "updates"
  <2> DEFINE U == import_snb_updates
  <2>1. PICK n \in 0..(Len(U) - 1), T \in 0..flushed : UpdatedTo(n, T)
    BY <1>4 DEF AdjacencyInv, UpdatesInv
  <2>2. /\ running' = running /\ n + 1 \in 0..(Len(U) - 1)
        /\ todo' = Rest(U, n + 1)
        /\ n + 1 # Len(U) - 1
        /\ n + 1 \in 1..Len(U) /\ U[n + 1].op = "edge" /\ Head(todo) = U[n + 1]
    BY <1>1, <2>1, Advance, UpdatesCommand DEF UpdatedTo
  <2>3. Head(todo).key \in SnbKey
    BY <2>2, UpdatesCommand DEF Command
  <2>4. EngineInv'
    BY <1>1, <1>2, <2>2, <2>3, EngineGrows
  <2> DEFINE k == Head(todo).key
             r == Record(k, timestamp')
  <2>5. Done(U, n + 1) = Done(U, n) \cup {k}
    <3>1. n \in Nat
      OBVIOUS
    <3> QED BY <2>2, <3>1, DoneStep
  <2>6. r.ts > T /\ ~(r.ts <= T) /\ r.key = k
    <3>1. r.ts = timestamp + 1 /\ r.key = k
      BY <1>1 DEF Record
    <3>2. timestamp \in Nat /\ flushed \in 0..timestamp
      BY <1>2 DEF EngineInv
    <3> HIDE DEF r
    <3> QED BY <3>1, <3>2
  <2>7. /\ Later(T)' = Later(T) \cup {r} /\ Older(T)' = Older(T)
    <3> HIDE DEF r, k
    <3>1. edges' = edges \cup {r}
      BY <1>1 DEF r, k
    <3>2. {e \in edges' : e.ts > T} = {e \in edges : e.ts > T} \cup {r}
      BY <2>6, <3>1
    <3>3. {e \in edges' : e.ts <= T} = {e \in edges : e.ts <= T}
      BY <2>6, <3>1
    <3> QED BY <3>2, <3>3 DEF Later, Older
  <2>8. Counts' = Counts
    BY <1>1 DEF Counts
  <2>9. {e.key : e \in Later(T)'} = {e.key : e \in Later(T)} \cup {k}
    <3> HIDE DEF r, k
    <3> QED BY <2>6, <2>7
  <2>10. builder' = builder \cup {r}
    BY <1>1
  <2>11. T = 0 \/ \E e \in edges' : e.ts = T
    BY <1>1, <2>1 DEF UpdatedTo
  <2> HIDE DEF r, k
  <2>12. UpdatedTo(n + 1, T)'
    <3>1. {e.key : e \in Later(T)'} = Done(U, n + 1)
      BY <2>1, <2>5, <2>9 DEF UpdatedTo
    <3>2. Counts' => /\ builder' = from_adjacency(cache'.groups, T) \cup Later(T)'
                     /\ Adjacency(cache'.groups) /\ Short(cache'.groups, T)
                     /\ Lists(cache'.groups, Older(T)', StreamKeys)
      BY <1>1, <2>1, <2>7, <2>8, <2>10 DEF UpdatedTo
    <3> QED BY <2>2, <2>11, <3>1, <3>2 DEF UpdatedTo
  <2>13. T \in 0..flushed'
    BY <1>1
  <2>14. UpdatesInv'
    BY <2>2, <2>12, <2>13 DEF UpdatesInv
  <2>15. ImportInv' /\ RestInv'
    BY <1>4, <2>2 DEF RestInv, ImportInv, AtRest
  <2> QED BY <2>4, <2>14, <2>15 DEF AdjacencyInv
<1> QED BY <1>1, <1>3, <1>4

\* The edges that the update wrote are durable before the cache is.
LEMMA FlushStep == ASSUME AdjacencyInv, FlushActive PROVE AdjacencyInv'
<1>1. /\ running \in {"import", "updates"} /\ Doing("flush_active")
      /\ flushed' = timestamp
      /\ UNCHANGED <<edges, timestamp, cache, builder, history>>
  BY DEF FlushActive, Doing, fileVars, bufVars
<1>2. EngineInv
  BY DEF AdjacencyInv
<1>3. timestamp \in Nat /\ flushed \in 0..timestamp
  BY <1>2 DEF EngineInv
<1>4. ASSUME running' = running PROVE EngineInv'
  BY <1>1, <1>2, <1>3, <1>4 DEF EngineInv, Distinct
<1>5. CASE running = "import"
  <2> DEFINE C == import_snb_full
  <2>1. PICK n \in 0..(Len(C) - 1) : todo = Rest(C, n)
    BY <1>5 DEF AdjacencyInv, ImportInv
  <2>2. /\ running' = running /\ n + 1 \in 0..(Len(C) - 1)
        /\ todo' = Rest(C, n + 1)
    BY <1>1, <2>1, Advance, ImportCommand
  <2>3. ImportInv'
    BY <1>1, <1>5, <2>2 DEF AdjacencyInv, ImportInv
  <2>4. RestInv' /\ UpdatesInv'
    BY <1>5, <2>2 DEF RestInv, UpdatesInv, AtRest
  <2> QED BY <1>4, <2>2, <2>3, <2>4 DEF AdjacencyInv
<1>6. CASE running = "updates"
  <2> DEFINE U == import_snb_updates
  <2>1. PICK n \in 0..(Len(U) - 1), T \in 0..flushed : UpdatedTo(n, T)
    BY <1>6 DEF AdjacencyInv, UpdatesInv
  <2>2. /\ running' = running /\ n + 1 \in 0..(Len(U) - 1)
        /\ todo' = Rest(U, n + 1)
        /\ U[n + 1].op # "edge"
    BY <1>1, <2>1, Advance, UpdatesCommand DEF UpdatedTo
  <2>4. Done(U, n + 1) = Done(U, n)
    BY <2>2, DoneStep
  <2>5. Later(T)' = Later(T) /\ Older(T)' = Older(T) /\ Counts' = Counts
    BY <1>1 DEF Later, Older, Counts
  <2>6. UpdatedTo(n + 1, T)'
    BY <1>1, <2>1, <2>2, <2>4, <2>5 DEF UpdatedTo
  <2>7. T \in 0..flushed'
    BY <1>1, <1>3
  <2>8. UpdatesInv'
    BY <2>2, <2>6, <2>7 DEF UpdatesInv
  <2>9. ImportInv' /\ RestInv'
    BY <1>6, <2>2 DEF RestInv, ImportInv, AtRest
  <2> QED BY <1>4, <2>2, <2>8, <2>9 DEF AdjacencyInv
<1> QED BY <1>1, <1>5, <1>6

\* What the model remembers.
HistoryFields == {"pedigree", "complete", "behind", "cut", "applied", "opened",
                  "commands", "crashes"}

\* A step that leaves no command and the engine as it is: the cache stays, or
\* it is made from all of the engine.
LEMMA StillStep ==
  ASSUME EngineInv, flushed = timestamp, UNCHANGED engineVars,
         running' \in {"none", "server"}, DOMAIN history' = HistoryFields,
         \/ RestInv /\ AtRest /\ cache' = cache
              /\ history'.pedigree = history.pedigree /\ history'.behind = history.behind
         \/ Counts' => cache'.groups = build(edges)
  PROVE  AdjacencyInv'
<1>1. EngineInv'
  BY DEF EngineInv, Distinct, engineVars, HistoryFields
<1>2. ImportInv' /\ UpdatesInv'
  BY DEF ImportInv, UpdatesInv
<1>3. CASE /\ RestInv /\ AtRest /\ cache' = cache
           /\ history'.pedigree = history.pedigree /\ history'.behind = history.behind
  <2>1. Counts' = Counts
    BY <1>3 DEF Counts
  <2>2. RestInv'
    BY <1>3, <2>1 DEF RestInv, engineVars
  <2> QED BY <1>1, <1>2, <2>2 DEF AdjacencyInv
<1>4. CASE Counts' => cache'.groups = build(edges)
  <2>1. /\ Adjacency(build(edges)) /\ Short(build(edges), timestamp)
        /\ Lists(build(edges), edges, StreamKeys)
    BY FreshCache
  <2>2. RestInv'
    BY <1>4, <2>1 DEF RestInv, engineVars
  <2> QED BY <1>1, <1>2, <2>2 DEF AdjacencyInv
<1> QED BY <1>3, <1>4

\* The builder that becomes the cache is as good as the engine.
LEMMA WriteStep == ASSUME AdjacencyInv, WriteCache PROVE AdjacencyInv'
<1>1. /\ running \in {"import", "updates"} /\ Doing("write_cache")
      /\ cache' = [exists |-> TRUE, groups |-> build(builder)]
      /\ UNCHANGED engineVars
  BY DEF WriteCache, Doing
<1>2. EngineInv
  BY DEF AdjacencyInv
<1> DEFINE pedigree == IF running = "import" THEN "whole"
                       ELSE IF cache.exists THEN history.pedigree ELSE "partial"
<1>3. DOMAIN history' = HistoryFields /\ history'.pedigree = pedigree
  <2>1. history' = [history EXCEPT !.pedigree = pedigree, !.behind = FALSE,
                      !.cut = FALSE, !.complete = @ \/ pedigree = "whole"]
    BY DEF WriteCache
  <2>2. DOMAIN history = HistoryFields
    BY <1>2 DEF EngineInv, HistoryFields
  <2> HIDE DEF pedigree
  <2> QED BY <2>1, <2>2 DEF HistoryFields
<1>4. CASE running = "import"
  <2> DEFINE C == import_snb_full
  <2>1. PICK n \in 0..(Len(C) - 1) :
          todo = Rest(C, n) /\ builder = edges /\ (n = Len(C) - 1 => flushed = timestamp)
    BY <1>4 DEF AdjacencyInv, ImportInv
  <2>2. running' = "none" /\ n = Len(C) - 1
    BY <1>1, <2>1, Advance, ImportCommand
  <2>3. cache'.groups = build(edges)
    BY <1>1, <2>1
  <2> QED BY <1>1, <1>2, <1>3, <2>1, <2>2, <2>3, StillStep
<1>5. CASE running = "updates"
  <2> DEFINE U == import_snb_updates
  <2>1. PICK n \in 0..(Len(U) - 1), T \in 0..flushed : UpdatedTo(n, T)
    BY <1>5 DEF AdjacencyInv, UpdatesInv
  <2>2. /\ running' = "none" /\ n = Len(U) - 1 /\ U[n + 1].op = "write_cache"
    BY <1>1, <2>1, Advance, UpdatesCommand DEF UpdatedTo
  <2>3. Done(U, n) = StreamKeys
    <3>1. Len(U) \in Nat
      BY UpdatesCommand DEF Command
    <3>2. n \in Nat /\ n + 1 = Len(U)
      BY <2>2, <3>1
    <3> QED BY <2>2, <3>2, DoneStep DEF StreamKeys
  <2>4. flushed = timestamp /\ timestamp \in Nat /\ T \in Nat
    BY <1>2, <2>1, <2>2 DEF UpdatedTo, EngineInv
  <2>5. Counts' => cache'.groups = build(edges)
    <3> SUFFICES ASSUME Counts' PROVE cache'.groups = build(edges)
      OBVIOUS
    <3>1. Counts
      BY <1>3, <1>5 DEF Counts
    <3>2. /\ edges \in SUBSET SnbRecord /\ IsFiniteSet(edges) /\ Distinct(edges)
      BY <1>2 DEF EngineInv
    <3>3. /\ builder = from_adjacency(cache.groups, T) \cup Later(T)
          /\ Adjacency(cache.groups) /\ Short(cache.groups, T)
          /\ Lists(cache.groups, Older(T), StreamKeys)
          /\ {e.key : e \in Later(T)} = StreamKeys
      BY <2>1, <2>3, <3>1 DEF UpdatedTo
    <3>4. build(from_adjacency(cache.groups, T) \cup Later(T)) = build(edges)
      BY <2>4, <3>2, <3>3, UpdatedBuild DEF Older, Later
    <3> QED BY <1>1, <3>3, <3>4
  <2> QED BY <1>1, <1>2, <1>3, <2>2, <2>4, <2>5, StillStep
<1> QED BY <1>1, <1>4, <1>5

\* What is recovered is an engine again.
LEMMA EngineShrinks ==
  ASSUME EngineInv, edges' \subseteq edges, timestamp' = max_ts(edges'),
         flushed' = timestamp', running' = "none", DOMAIN history' = HistoryFields
  PROVE  EngineInv' /\ \A e \in edges' : e.ts <= timestamp'
<1>1. /\ edges \in SUBSET SnbRecord /\ IsFiniteSet(edges) /\ Distinct(edges)
      /\ timestamp \in Nat /\ \A e \in edges : e.ts \in 1..timestamp
  BY DEF EngineInv
<1>2. edges' \in SUBSET SnbRecord /\ IsFiniteSet(edges') /\ Distinct(edges')
  BY <1>1, FS_Subset DEF Distinct
<1>3. Distinct(edges)'
  BY <1>2 DEF Distinct
<1> DEFINE S == {e.ts : e \in edges'}
<1>4. /\ timestamp' \in Nat /\ \A e \in edges' : e.ts \in 1..timestamp'
      /\ timestamp' = 0 \/ \E e \in edges' : e.ts = timestamp'
  <2>1. CASE edges' = {}
    BY <2>1 DEF max_ts
  <2>2. CASE edges' # {}
    <3>1. S \in SUBSET Nat /\ S # {}
      BY <1>1, <2>2
    <3>2. IsFiniteSet(S)
      <4> DEFINE f == [e \in edges' |-> e.ts]
      <4>1. S = {f[e] : e \in edges'}
        OBVIOUS
      <4> HIDE DEF f, S
      <4> QED BY <1>2, <4>1, ImageFinite
    <3>3. timestamp' = Max(S)
      BY <2>2 DEF max_ts
    <3>4. timestamp' \in S /\ \A x \in S : x <= timestamp'
      <4> HIDE DEF S
      <4> QED BY <3>1, <3>2, <3>3, GreatestNatural
    <3>5. \A e \in edges' : e.ts \in S
      OBVIOUS
    <3>6. timestamp' \in Nat
      BY <3>1, <3>4
    <3>7. \E e \in edges' : e.ts = timestamp'
      BY <3>4
    <3> HIDE DEF S
    <3> QED BY <1>1, <3>4, <3>5, <3>6, <3>7
  <2> QED BY <2>1, <2>2
<1>5. \A e \in edges' : e.ts <= timestamp'
  BY <1>4
<1>6. EngineInv'
  BY <1>2, <1>3, <1>4 DEF EngineInv, HistoryFields
<1> QED BY <1>5, <1>6

\* A kill leaves all edges that the cache has, but for those of the streams.
LEMMA CrashStep == ASSUME AdjacencyInv, Crash PROVE AdjacencyInv'
<1>1. /\ running \in {"import", "updates"}
      /\ timestamp' = max_ts(edges') /\ flushed' = timestamp'
      /\ running' = "none" /\ cache' = cache
      /\ history' = [history EXCEPT !.complete = FALSE, !.behind = TRUE, !.crashes = @ + 1]
  BY DEF Crash
<1>2. EngineInv
  BY DEF AdjacencyInv
<1>3. /\ DOMAIN history' = HistoryFields
      /\ history'.pedigree = history.pedigree /\ history'.behind = TRUE
  <2>1. DOMAIN history = HistoryFields
    BY <1>2 DEF EngineInv, HistoryFields
  <2> QED BY <1>1, <2>1 DEF HistoryFields
<1>4. edges' \subseteq edges /\ \A e \in edges : e.ts <= flushed => e \in edges'
  BY DEF Crash
<1>5. EngineInv' /\ \A e \in edges' : e.ts <= timestamp'
  BY <1>1, <1>2, <1>3, <1>4, EngineShrinks
<1>6. ImportInv' /\ UpdatesInv'
  BY <1>1 DEF ImportInv, UpdatesInv
<1>7. Counts' = Counts
  BY <1>1, <1>3 DEF Counts
<1>8. CASE running = "import"
  <2>1. ~Counts'
    BY <1>7, <1>8 DEF AdjacencyInv, ImportInv, Counts
  <2>2. RestInv'
    BY <1>1, <2>1 DEF RestInv
  <2> QED BY <1>5, <1>6, <2>2 DEF AdjacencyInv
<1>9. CASE running = "updates"
  <2> DEFINE U == import_snb_updates
  <2>1. PICK n \in 0..(Len(U) - 1), T \in 0..flushed : UpdatedTo(n, T)
    BY <1>9 DEF AdjacencyInv, UpdatesInv
  <2>2. /\ timestamp \in Nat /\ flushed \in Nat /\ T \in Nat /\ T <= flushed
        /\ timestamp' \in Nat
        /\ \A e \in edges : e.ts \in Nat
    BY <1>2, <1>5 DEF EngineInv
  <2>3. Older(T) \subseteq edges'
    BY <1>4, <2>2 DEF Older
  <2>4. \A e \in edges' \ Older(T) : e.key \in StreamKeys
    <3>1. \A e \in edges' \ Older(T) : e \in Later(T)
      BY <1>4, <2>2 DEF Older, Later
    <3>2. Done(U, n) \subseteq StreamKeys
      <4>1. Len(U) \in Nat
        BY UpdatesCommand DEF Command
      <4>2. 1..n \subseteq 1..Len(U)
        BY <4>1
      <4> QED BY <4>2 DEF Done, StreamKeys
    <3>3. \A e \in Later(T) : e.key \in Done(U, n)
      BY <2>1 DEF UpdatedTo
    <3> QED BY <3>1, <3>2, <3>3
  <2>5. T <= timestamp'
    <3>1. CASE T = 0
      BY <2>2, <3>1
    <3>2. CASE T # 0
      <4>1. PICK e \in edges : e.ts = T
        BY <2>1, <3>2 DEF UpdatedTo
      <4> QED BY <1>4, <1>5, <2>2, <4>1
    <3> QED BY <3>1, <3>2
  <2>6. ASSUME Counts'
        PROVE  /\ Adjacency(cache'.groups) /\ Short(cache'.groups, timestamp')
               /\ Lists(cache'.groups, edges', StreamKeys)
    <3>1. /\ Adjacency(cache.groups) /\ Short(cache.groups, T)
          /\ Lists(cache.groups, Older(T), StreamKeys)
      BY <1>7, <2>1, <2>6 DEF UpdatedTo
    <3>2. Lists(cache.groups, edges', StreamKeys)
      BY <2>3, <2>4, <3>1, ListsGrow
    <3>3. Short(cache.groups, timestamp')
      <4>1. \A g \in DOMAIN cache.groups : Len(cache.groups[g]) \in Nat
        BY <3>1 DEF Adjacency
      <4> QED BY <2>2, <2>5, <3>1, <4>1 DEF Short
    <3> QED BY <1>1, <3>1, <3>2, <3>3
  <2>7. RestInv'
    BY <1>1, <1>3, <2>6 DEF RestInv
  <2> QED BY <1>5, <1>6, <2>7 DEF AdjacencyInv
<1> QED BY <1>1, <1>8, <1>9

\* An import begins with an empty engine and no cache.
LEMMA BeginImportStep == ASSUME AdjacencyInv, BeginImport PROVE AdjacencyInv'
<1>1. /\ running' = "import" /\ edges' = {} /\ timestamp' = 0 /\ flushed' = 0
      /\ cache' = [exists |-> FALSE, groups |-> <<>>] /\ builder' = {}
      /\ todo' = import_snb_full
      /\ history' = [history EXCEPT !.pedigree = "none", !.complete = FALSE,
                       !.behind = FALSE, !.cut = FALSE, !.commands = @ + 1]
  BY DEF BeginImport, Starting
<1>2. EngineInv'
  <2>1. DOMAIN history = HistoryFields
    BY DEF AdjacencyInv, EngineInv, HistoryFields
  <2>2. DOMAIN history' = HistoryFields
    BY <1>1, <2>1 DEF HistoryFields
  <2> QED BY <1>1, <2>2, FS_EmptySet DEF EngineInv, Distinct, HistoryFields
<1>3. ImportInv'
  <2> DEFINE C == import_snb_full
  <2>1. Len(C) \in Nat /\ Len(C) >= 2
    BY ImportCommand DEF Command
  <2>2. 0 \in 0..(Len(C) - 1)
    BY <2>1
  <2>3. C = Rest(C, 0)
    BY <2>2, ImportCommand, RestStep
  <2> QED BY <1>1, <2>2, <2>3 DEF ImportInv
<1>4. RestInv' /\ UpdatesInv'
  BY <1>1 DEF RestInv, UpdatesInv, AtRest
<1> QED BY <1>2, <1>3, <1>4 DEF AdjacencyInv

\* An update begins with what the cache has.
LEMMA BeginUpdatesStep == ASSUME AdjacencyInv, BeginUpdates PROVE AdjacencyInv'
<1>1. /\ running = "none" /\ running' = "updates"
      /\ builder' = IF cache.exists THEN from_adjacency(cache.groups, timestamp) ELSE {}
      /\ todo' = import_snb_updates
      /\ history' = [history EXCEPT !.commands = @ + 1]
      /\ UNCHANGED <<edges, timestamp, flushed, cache>>
  BY DEF BeginUpdates, Starting, engineVars
<1>2. EngineInv
  BY DEF AdjacencyInv
<1>3. DOMAIN history' = HistoryFields /\ history'.pedigree = history.pedigree
  <2>1. DOMAIN history = HistoryFields
    BY <1>2 DEF EngineInv, HistoryFields
  <2> QED BY <1>1, <2>1 DEF HistoryFields
<1>4. EngineInv'
  BY <1>1, <1>2, <1>3 DEF EngineInv, Distinct, HistoryFields
<1>5. UpdatesInv'
  <2> DEFINE U == import_snb_updates
             T == timestamp
  <2>1. Len(U) \in Nat /\ Len(U) >= 2
    BY UpdatesCommand DEF Command
  <2>2. 0 \in 0..(Len(U) - 1)
    BY <2>1
  <2>3. U = Rest(U, 0)
    BY <2>2, UpdatesCommand, RestStep
  <2>4. /\ timestamp \in Nat /\ \A e \in edges : e.ts \in 1..timestamp
        /\ timestamp = 0 \/ \E e \in edges : e.ts = timestamp
    BY <1>2 DEF EngineInv
  <2>5. flushed = timestamp
    BY <1>1 DEF AdjacencyInv, RestInv, AtRest
  <2>6. Older(T) = edges /\ Later(T) = {}
    <3>1. \A e \in edges : e.ts <= T /\ ~(e.ts > T)
      BY <2>4
    <3> QED BY <3>1 DEF Older, Later
  <2>7. {e.key : e \in Later(T)} = Done(U, 0)
    <3>1. Done(U, 0) = {}
      BY DoneStep
    <3> QED BY <2>6, <3>1
  <2>8. Counts =>
          /\ builder' = from_adjacency(cache.groups, T) \cup Later(T)
          /\ Adjacency(cache.groups) /\ Short(cache.groups, T)
          /\ Lists(cache.groups, Older(T), StreamKeys)
    BY <1>1, <2>6 DEF AdjacencyInv, RestInv, AtRest, Counts
  <2>9. Counts' = Counts
    BY <1>1, <1>3 DEF Counts
  <2>10. \E S \in 0..flushed' : UpdatedTo(0, S)'
    <3>1. \A S : S = T => UpdatedTo(0, S)'
      <4> SUFFICES ASSUME NEW S, S = T PROVE UpdatedTo(0, S)'
        OBVIOUS
      <4>1. {e \in edges' : e.ts > S} = Later(T) /\ {e \in edges' : e.ts <= S} = Older(T)
        BY <1>1 DEF Later, Older
      <4>2. Later(S)' = Later(T) /\ Older(S)' = Older(T)
        BY <4>1 DEF Later, Older
      <4>3. todo' = Rest(U, 0) /\ (S = 0 \/ \E e \in edges' : e.ts = S)
        BY <1>1, <2>3, <2>4
      <4>4. Counts' => /\ builder' = from_adjacency(cache'.groups, S) \cup Later(S)'
                       /\ Adjacency(cache'.groups) /\ Short(cache'.groups, S)
                       /\ Lists(cache'.groups, Older(S)', StreamKeys)
        BY <1>1, <2>8, <2>9, <4>2
      <4>5. {e.key : e \in Later(S)'} = Done(U, 0)
        BY <2>7, <4>2
      <4> QED BY <1>1, <2>5, <4>3, <4>4, <4>5 DEF UpdatedTo
    <3>2. T \in 0..flushed'
      BY <1>1, <2>4, <2>5
    <3> QED BY <3>1, <3>2
  <2> QED BY <2>2, <2>10 DEF UpdatesInv
<1>6. RestInv' /\ ImportInv'
  BY <1>1 DEF RestInv, ImportInv, AtRest
<1> QED BY <1>4, <1>5, <1>6 DEF AdjacencyInv

\* Commands of one step: a cache that is there stays, a new one is a scan.
LEMMA CommandStep ==
  ASSUME AdjacencyInv, BuildAdjacencyCache \/ RebuildEdgeProps \/ OpenServer
  PROVE  AdjacencyInv'
<1>1. EngineInv /\ RestInv
  BY DEF AdjacencyInv
<1>2. running = "none" /\ AtRest /\ flushed = timestamp
  BY <1>1 DEF BuildAdjacencyCache, RebuildEdgeProps, OpenServer, Starting, RestInv, AtRest
<1>3. running' \in {"none", "server"} /\ UNCHANGED engineVars
  BY DEF BuildAdjacencyCache, RebuildEdgeProps, OpenServer, Starting
<1>4. DOMAIN history = HistoryFields
  BY <1>1 DEF EngineInv, HistoryFields
<1>5. build(scan_edges) = build(edges)
  BY <1>1, FreshCache
<1>6. CASE BuildAdjacencyCache
  <2>1. history' = Scanned /\ cache' = [exists |-> TRUE, groups |-> build(scan_edges)]
    BY <1>6 DEF BuildAdjacencyCache
  <2>2. DOMAIN history' = HistoryFields
    BY <1>4, <2>1 DEF Scanned, HistoryFields
  <2>3. cache'.groups = build(edges)
    BY <1>5, <2>1
  <2> QED BY <1>1, <1>2, <1>3, <2>2, <2>3, StillStep
<1>7. CASE RebuildEdgeProps
  <2>1. history' = [history EXCEPT !.cut = TRUE, !.commands = @ + 1] /\ cache' = cache
    BY <1>7 DEF RebuildEdgeProps
  <2>2. /\ DOMAIN history' = HistoryFields
        /\ history'.pedigree = history.pedigree /\ history'.behind = history.behind
    BY <1>4, <2>1 DEF HistoryFields
  <2> QED BY <1>1, <1>2, <1>3, <2>1, <2>2, StillStep
<1>8. CASE OpenServer
  <2> DEFINE h == IF cache.exists THEN [history EXCEPT !.commands = @ + 1] ELSE Scanned
  <2>1. /\ cache' = IF cache.exists THEN cache
                    ELSE [exists |-> TRUE, groups |-> build(scan_edges)]
        /\ history' = [h EXCEPT !.opened = served', !.applied = <<>>]
    BY <1>8 DEF OpenServer
  <2>2. DOMAIN h = HistoryFields
    BY <1>4 DEF Scanned, HistoryFields
  <2>3. cache.exists => h.pedigree = history.pedigree /\ h.behind = history.behind
    BY <1>4 DEF HistoryFields
  <2> HIDE DEF h
  <2>4. /\ DOMAIN history' = HistoryFields
        /\ history'.pedigree = h.pedigree /\ history'.behind = h.behind
    BY <2>1, <2>2 DEF HistoryFields
  <2>5. CASE cache.exists
    <3>1. /\ cache' = cache
          /\ history'.pedigree = history.pedigree /\ history'.behind = history.behind
      BY <2>1, <2>3, <2>4, <2>5
    <3> QED BY <1>1, <1>2, <1>3, <2>4, <3>1, StillStep
  <2>6. CASE ~cache.exists
    <3>1. cache'.groups = build(edges)
      BY <1>5, <2>1, <2>6
    <3> QED BY <1>1, <1>2, <1>3, <2>4, <3>1, StillStep
  <2> QED BY <2>5, <2>6
<1> QED BY <1>6, <1>7, <1>8

\* The server keeps what it is told in memory.
LEMMA ServerStep ==
  ASSUME AdjacencyInv, HttpUpdate \/ StopServer PROVE AdjacencyInv'
<1>1. EngineInv /\ RestInv
  BY DEF AdjacencyInv
<1>2. running = "server" /\ AtRest /\ flushed = timestamp
  BY <1>1 DEF HttpUpdate, StopServer, RestInv, AtRest
<1>3. running' \in {"none", "server"} /\ UNCHANGED engineVars /\ cache' = cache
  BY <1>2 DEF HttpUpdate, StopServer, fileVars
<1>4. DOMAIN history = HistoryFields
  BY <1>1 DEF EngineInv, HistoryFields
<1>5. /\ DOMAIN history' = HistoryFields
      /\ history'.pedigree = history.pedigree /\ history'.behind = history.behind
  <2>1. \/ \E u \in HttpUpdates : history' = [history EXCEPT !.applied = Append(@, u)]
        \/ history' = [history EXCEPT !.opened = NoGraph, !.applied = <<>>]
    BY DEF HttpUpdate, StopServer
  <2> QED BY <1>4, <2>1 DEF HistoryFields
<1> QED BY <1>1, <1>2, <1>3, <1>5, StillStep

\* Every step keeps the invariant.
LEMMA AdjacencyStep == AdjacencyInv /\ [Next]_vars => AdjacencyInv'
<1> SUFFICES ASSUME AdjacencyInv, [Next]_vars PROVE AdjacencyInv'
  OBVIOUS
<1>1. CASE WriteVertex \/ FlushVertices \/ FlushProps
  <2>1. /\ Doing("vertex") \/ Doing("flush_vertices") \/ Doing("flush_props")
        /\ UNCHANGED <<engineVars, cache, builder, history>>
    BY <1>1 DEF WriteVertex, FlushVertices, FlushProps, fileVars
  <2> QED BY <2>1, QuietStep
<1>2. CASE UNCHANGED vars
  <2>1. UNCHANGED <<edges, timestamp, flushed, cache, builder, todo, running, history>>
    BY <1>2 DEF vars, engineVars, fileVars, bufVars
  <2>2. EngineInv'
    BY <2>1 DEF AdjacencyInv, EngineInv, Distinct
  <2>3. Counts' = Counts
    BY <2>1 DEF Counts
  <2>4. RestInv' /\ ImportInv'
    BY <2>1, <2>3 DEF AdjacencyInv, RestInv, ImportInv, AtRest
  <2>5. UpdatesInv'
    BY <2>1 DEF AdjacencyInv, UpdatesInv, UpdatedTo, Counts, Later, Older
  <2> QED BY <2>2, <2>4, <2>5 DEF AdjacencyInv
<1> QED BY <1>1, <1>2, BeginImportStep, BeginUpdatesStep, InsertStep, FlushStep,
           WriteStep, CrashStep, CommandStep, ServerStep DEF Next

\* What imports and updates know of the cache, step by step: the builder
\* (AdjacencyBuilder) has what the engine has, or what the loaded cache had and
\* what was inserted since.
THEOREM AdjacencyInvariant == Spec => []AdjacencyInv
BY AdjacencyStart, AdjacencyStep, PTL DEF Spec

\* The adjacency cache that imports, updates and snb-cache leave behind (build
\* and from_adjacency of AdjacencyBuilder, whose timestamps are made up) is
\* what a scan of the engine gives, whatever was killed in between, for every
\* set of CSV files and every update stream.
THEOREM CacheCorrect == Spec => []CacheExact
<1>1. AdjacencyInv => CacheExact
  <2> SUFFICES ASSUME AdjacencyInv PROVE CacheExact
    OBVIOUS
  <2>1. build(scan_edges) = build(edges)
    BY FreshCache DEF AdjacencyInv
  <2> QED BY <2>1 DEF AdjacencyInv, RestInv, CacheExact, Counts
<1> QED BY AdjacencyInvariant, <1>1, PTL

-----------------------------------------------------------------------------
(* A request to the server: what it inserts.                               *)

\* One list more.
LEMMA FlattenAppend ==
  ASSUME NEW S, NEW q \in Seq(Seq(S)), NEW x \in Seq(S)
  PROVE  /\ FlattenSeq(Append(q, x)) = FlattenSeq(q) \o x
         /\ FlattenSeq(q) \in Seq(S)
         /\ FlattenSeq(<<x>>) = x
<1> DEFINE n == Len(q)
           r == Append(q, x)
<1>1. /\ n \in Nat /\ r \in Seq(Seq(S)) /\ Len(r) = n + 1 /\ r[n + 1] = x
      /\ \A i \in 1..n : r[i] = q[i] /\ q[i] \in Seq(S)
  OBVIOUS
<1>2. r # <<>>
  BY <1>1
<1> HIDE DEF r
<1>3. PICK f \in [1..Len(r) -> Seq(S)] : Joins(f, r, Len(r)) /\ FlattenSeq(r) = f[Len(r)]
  BY <1>1, <1>2, FlattenIs
<1>4. f[n + 1] = IF n = 0 THEN x ELSE f[n] \o x
  <2>1. n + 1 \in 1..Len(r) /\ (n + 1) - 1 = n /\ (n + 1 = 1 <=> n = 0)
    BY <1>1
  <2>2. f[n + 1] = IF n + 1 = 1 THEN r[n + 1] ELSE f[(n + 1) - 1] \o r[n + 1]
    BY <1>1, <1>3, <2>1 DEF Joins
  <2> QED BY <1>1, <2>1, <2>2
<1> DEFINE Goal == FlattenSeq(r) = FlattenSeq(q) \o x /\ FlattenSeq(q) \in Seq(S)
<1>5. q = <<>> => Goal
  <2> SUFFICES ASSUME q = <<>> PROVE Goal
    OBVIOUS
  <2>1. n = 0 /\ FlattenSeq(q) = <<>>
    BY DEF FlattenSeq
  <2>2. <<>> \o x = x /\ <<>> \in Seq(S)
    BY ConcatEmptySeq
  <2>3. FlattenSeq(r) = x
    BY <1>1, <1>3, <1>4, <2>1
  <2>4. Goal
    BY <2>1, <2>2, <2>3
  <2> QED BY <2>4
<1>6. q # <<>> => Goal
  <2> SUFFICES ASSUME q # <<>> PROVE Goal
    OBVIOUS
  <2>1. n # 0 /\ n \in 1..n
    BY <1>1, EmptySeq
  <2>2. PICK h \in [1..n -> Seq(S)] : Joins(h, q, n) /\ FlattenSeq(q) = h[n]
    BY FlattenIs
  <2> DEFINE Bad == {i \in 1..n : f[i] # h[i]}
  <2>3. Bad = {}
    <3> SUFFICES ASSUME Bad # {} PROVE FALSE
      OBVIOUS
    <3> DEFINE m == Min(Bad)
    <3>1. Bad \in SUBSET Nat
      BY <1>1
    <3>2. m \in Bad /\ \A k \in Bad : m <= k
      <4> HIDE DEF Bad
      <4> QED BY <3>1, LeastNatural
    <3> HIDE DEF m
    <3>3. m \in 1..n /\ f[m] # h[m] /\ m \in 1..Len(r)
      BY <1>1, <3>2
    <3>4. m # 1 => m - 1 \in 1..n /\ f[m - 1] = h[m - 1]
      <4> SUFFICES ASSUME m # 1 PROVE m - 1 \in 1..n /\ f[m - 1] = h[m - 1]
        OBVIOUS
      <4>1. m - 1 \in 1..n /\ ~(m <= m - 1)
        BY <1>1, <3>3
      <4>2. m - 1 \notin Bad
        BY <3>2, <4>1
      <4> QED BY <4>1, <4>2
    <3>5. f[m] = IF m = 1 THEN r[m] ELSE f[m - 1] \o r[m]
      BY <1>3, <3>3 DEF Joins
    <3>6. h[m] = IF m = 1 THEN q[m] ELSE h[m - 1] \o q[m]
      BY <2>2, <3>3 DEF Joins
    <3>7. r[m] = q[m]
      BY <1>1, <3>3
    <3> QED BY <3>3, <3>4, <3>5, <3>6, <3>7
  <2>4. f[n] = h[n]
    BY <2>1, <2>3
  <2>5. FlattenSeq(r) = FlattenSeq(q) \o x
    BY <1>1, <1>3, <1>4, <2>1, <2>2, <2>4
  <2>6. FlattenSeq(q) \in Seq(S)
    BY <2>1, <2>2
  <2>7. Goal
    BY <2>5, <2>6
  <2> QED BY <2>7
<1>7. FlattenSeq(<<x>>) = x
  <2>1. <<x>> \in Seq(Seq(S)) /\ <<x>> # <<>> /\ Len(<<x>>) = 1 /\ <<x>>[1] = x
    OBVIOUS
  <2> DEFINE y == <<x>>
  <2> HIDE DEF y
  <2>2. y \in Seq(Seq(S)) /\ y # <<>> /\ Len(y) = 1 /\ y[1] = x
    BY <2>1 DEF y
  <2>3. PICK h \in [1..Len(y) -> Seq(S)] : Joins(h, y, Len(y)) /\ FlattenSeq(y) = h[Len(y)]
    BY <2>2, FlattenIs
  <2>4. h[1] = y[1]
    BY <2>2, <2>3 DEF Joins
  <2> QED BY <2>2, <2>3, <2>4 DEF y
<1> QED BY <1>5, <1>6, <1>7 DEF r

\* Ids that are all there.
LEMMA AllPresent ==
  ASSUME NEW ids \in Seq(Nat)
  PROVE  Present(ids) = ids
<1> DEFINE n == Len(ids)
           q == [i \in 1..n |-> <<ids[i]>>]
<1>1. n \in Nat /\ ids = [i \in 1..n |-> ids[i]] /\ \A i \in 1..n : ids[i] \in Nat
  OBVIOUS
<1>2. Present(ids) = FlattenSeq(q)
  <2>1. \A i \in 1..n : (IF ids[i] = NoId THEN <<>> ELSE <<ids[i]>>) = <<ids[i]>>
    BY <1>1 DEF NoId
  <2>2. DOMAIN ids = 1..n
    BY <1>1
  <2>3. [i \in DOMAIN ids |-> IF ids[i] = NoId THEN <<>> ELSE <<ids[i]>>] = q
    BY <2>1, <2>2
  <2> QED BY <2>3 DEF Present, ForEach
<1>3. \A i \in 1..n : q[i] = <<ids[i]>> /\ q[i] \in Seq(Nat)
  BY <1>1
<1>4. q \in Seq(Seq(Nat)) /\ Len(q) = n
  <2>1. q = [i \in 1..n |-> q[i]]
    OBVIOUS
  <2> HIDE DEF q
  <2> QED BY <1>1, <1>3, <2>1
<1> HIDE DEF q
<1>5. CASE ids = <<>>
  <2>1. n = 0
    BY <1>5
  <2>2. q = <<>>
    BY <1>4, <2>1, EmptySeq
  <2> QED BY <1>2, <1>5, <2>2 DEF FlattenSeq
<1>6. CASE ids # <<>>
  <2>1. n # 0
    BY <1>1, <1>6, EmptySeq
  <2>2. q # <<>>
    BY <1>4, <2>1
  <2>3. PICK f \in [1..Len(q) -> Seq(Nat)] : Joins(f, q, Len(q)) /\ FlattenSeq(q) = f[Len(q)]
    BY <1>4, <2>2, FlattenIs
  <2> DEFINE first(m) == [i \in 1..m |-> ids[i]]
             Bad == {m \in 1..n : f[m] # first(m)}
  <2>4. Bad = {}
    <3> SUFFICES ASSUME Bad # {} PROVE FALSE
      OBVIOUS
    <3> DEFINE m == Min(Bad)
    <3>1. Bad \in SUBSET Nat
      BY <1>1
    <3>2. m \in Bad /\ \A k \in Bad : m <= k
      <4> HIDE DEF Bad
      <4> QED BY <3>1, LeastNatural
    <3> HIDE DEF m
    <3>3. m \in 1..n /\ f[m] # first(m)
      BY <3>2
    <3>4. m # 1 => m - 1 \in 1..n /\ f[m - 1] = first(m - 1)
      <4> HIDE DEF first
      <4> QED BY <1>1, <3>2, <3>3
    <3>5. f[m] = IF m = 1 THEN q[m] ELSE f[m - 1] \o q[m]
      BY <1>4, <2>3, <3>3 DEF Joins
    <3>6. m = 1 => q[m] = first(m)
      <4> SUFFICES ASSUME m = 1 PROVE q[m] = first(m)
        OBVIOUS
      <4>1. first(1) = <<ids[1]>>
        OBVIOUS
      <4> HIDE DEF first
      <4> QED BY <1>3, <3>3, <4>1
    <3>7. m # 1 => first(m - 1) \o q[m] = first(m)
      <4> SUFFICES ASSUME m # 1 PROVE first(m - 1) \o q[m] = first(m)
        OBVIOUS
      <4>1. m - 1 \in Nat /\ m \in Nat /\ (m - 1) + 1 = m
        BY <1>1, <3>3
      <4>2. first(m - 1) \in Seq(Nat) /\ Len(first(m - 1)) = m - 1
        <5>1. \A i \in 1..(m - 1) : ids[i] \in Nat
          BY <1>1, <3>3
        <5> QED BY <4>1, <5>1
      <4>3. first(m - 1) \o <<ids[m]>> = [i \in 1..m |-> IF i <= m - 1 THEN first(m - 1)[i] ELSE ids[m]]
        <5>1. ids[m] \in Nat
          BY <1>1, <3>3
        <5> DEFINE t == first(m - 1)
                   e == <<ids[m]>>
        <5>2. e \in Seq(Nat) /\ Len(e) = 1 /\ e[1] = ids[m]
          BY <5>1
        <5>7. t \in Seq(Nat) /\ Len(t) = m - 1 /\ (m - 1) + 1 = m
          BY <4>1, <4>2
        <5> HIDE DEF first, e, t
        <5>3. /\ Len(t \o e) = m /\ t \o e \in Seq(Nat)
              /\ \A i \in 1..m : (t \o e)[i] = IF i <= m - 1 THEN t[i] ELSE e[i - (m - 1)]
          <6>1. /\ t \o e \in Seq(Nat) /\ Len(t \o e) = Len(t) + Len(e)
                /\ \A i \in 1..(Len(t) + Len(e)) :
                     (t \o e)[i] = IF i <= Len(t) THEN t[i] ELSE e[i - Len(t)]
            BY <5>2, <5>7, ConcatProperties
          <6>2. Len(t) + Len(e) = m
            BY <5>2, <5>7
          <6> QED BY <5>7, <6>1, <6>2
        <5>4. \A i \in 1..m : ~(i <= m - 1) => i - (m - 1) = 1
          BY <4>1
        <5>5. t \o e = [i \in 1..m |-> (t \o e)[i]]
          <6> DEFINE te == t \o e
          <6>1. te \in Seq(Nat) /\ Len(te) = m
            BY <5>3
          <6> HIDE DEF te
          <6>2. te = [i \in 1..m |-> te[i]]
            BY <6>1
          <6> QED BY <6>2 DEF te
        <5>6. \A i \in 1..m : (t \o e)[i] = IF i <= m - 1 THEN t[i] ELSE ids[m]
          BY <5>2, <5>3, <5>4
        <5> QED BY <5>5, <5>6 DEF t, e
      <4>4. \A i \in 1..m : (IF i <= m - 1 THEN first(m - 1)[i] ELSE ids[m]) = ids[i]
        <5>1. \A i \in 1..m : i <= m - 1 => i \in 1..(m - 1)
          BY <4>1
        <5>2. \A i \in 1..m : ~(i <= m - 1) => i = m
          BY <4>1
        <5> QED BY <5>1, <5>2
      <4>5. q[m] = <<ids[m]>>
        BY <1>3, <3>3
      <4> QED BY <4>3, <4>4, <4>5
    <3> HIDE DEF first
    <3> QED BY <3>3, <3>4, <3>5, <3>6, <3>7
  <2>5. n \in 1..n
    BY <1>1, <2>1
  <2>6. FlattenSeq(q) = first(n)
    <3> HIDE DEF first
    <3> QED BY <1>4, <2>3, <2>4, <2>5
  <2> QED BY <1>1, <1>2, <2>6
<1> QED BY <1>5, <1>6

\* An edge of the adapter is one of the loader.
LEMMA CachedEdge ==
  ASSUME NEW a, NEW l, NEW b, NEW p
  PROVE  /\ insert_edge_cached(a, b, l, p, TRUE) = LoadEdge(a, l, b, p, FALSE)
         /\ insert_update_edge(a, b, l, p, FALSE) = LoadEdge(a, l, b, p, FALSE)
         /\ insert_update_edge(a, b, l, p, TRUE) = LoadEdge(a, l, b, p, TRUE)
<1> DEFINE x == [key |-> Key(a, l, b), prop |-> p]
           y == [key |-> Key(b, -l, a), prop |-> p]
           z == [key |-> Key(b, l, a), prop |-> p]
           two == <<x>> \o <<y>>
<1>1. two \o <<>> = two
  <2>1. <<x>> \in Seq({x, y}) /\ <<y>> \in Seq({x, y})
    OBVIOUS
  <2>2. two \in Seq({x, y})
    BY <2>1, ConcatProperties
  <2> HIDE DEF two
  <2> QED BY <2>2, ConcatEmptySeq
<1>2. /\ insert_edge_cached(a, b, l, p, TRUE) = two
      /\ insert_forward_reverse(a, l, b, p, TRUE) = two
      /\ insert_edge_cached(b, a, l, p, FALSE) = insert_forward_reverse(b, l, a, p, FALSE)
  BY DEF insert_edge_cached, insert_forward_reverse
<1> HIDE DEF two
<1>3. LoadEdge(a, l, b, p, FALSE) = two
  BY <1>1, <1>2 DEF LoadEdge
<1>4. insert_update_edge(a, b, l, p, FALSE) = two
  BY <1>1, <1>2 DEF insert_update_edge
<1>5. insert_update_edge(a, b, l, p, TRUE) = LoadEdge(a, l, b, p, TRUE)
  BY <1>2 DEF insert_update_edge, LoadEdge
<1> QED BY <1>2, <1>3, <1>4, <1>5

\* So are the edges from one vertex, and those to organisations.
LEMMA CachedIsStream ==
  ASSUME NEW label, NEW u, NEW to, NEW ids, NEW edge_label
  PROVE  CachedEdges(encode_vid(label, u.id), to, ids, edge_label)
           = StreamEdges(label, u, to, ids, edge_label)
<1> DEFINE vid == encode_vid(label, u.id)
<1>1. \A id : insert_edge_cached(vid, encode_vid(to, id), edge_label, EmptyProp, TRUE)
                = LoadEdge(vid, edge_label, encode_vid(to, id), EmptyProp, FALSE)
  BY CachedEdge
<1> HIDE DEF vid
<1>2. [i \in DOMAIN ids |-> insert_edge_cached(vid, encode_vid(to, ids[i]), edge_label,
                                               EmptyProp, TRUE)]
       = [i \in DOMAIN ids |-> LoadEdge(vid, edge_label, encode_vid(to, ids[i]),
                                        EmptyProp, FALSE)]
  BY <1>1
<1> QED BY <1>2 DEF CachedEdges, StreamEdges, ForEach, vid

LEMMA YearsAreStream ==
  ASSUME NEW u, NEW orgs, NEW edge_label
  PROVE  CachedYears(encode_vid(Person, u.id), orgs, edge_label)
           = StreamYears(u, orgs, edge_label)
<1> DEFINE vid == encode_vid(Person, u.id)
<1>1. \A o : insert_edge_cached(vid, encode_vid(Organisation, o.org), edge_label, {o.year}, TRUE)
               = LoadEdge(vid, edge_label, encode_vid(Organisation, o.org), {o.year}, FALSE)
  BY CachedEdge
<1> HIDE DEF vid
<1>2. [i \in DOMAIN orgs |-> insert_edge_cached(vid, encode_vid(Organisation, orgs[i].org),
                                                edge_label, {orgs[i].year}, TRUE)]
       = [i \in DOMAIN orgs |-> LoadEdge(vid, edge_label,
                                         encode_vid(Organisation, orgs[i].org),
                                         {orgs[i].year}, FALSE)]
  BY <1>1
<1> QED BY <1>2 DEF CachedYears, StreamYears, ForEach, vid

\* An id that may be missing: 0 and above is there.
LEMMA OptionalPresent ==
  ASSUME NEW x \in Nat \cup {NoId}
  PROVE  optional_positive_i64(x) = Present(<<x>>)
<1> DEFINE y == IF x = NoId THEN <<>> ELSE <<x>>
           s == <<x>>
<1> DEFINE N == Nat \cup {NoId}
<1>1. y \in Seq(N)
  <2>1. x \in N
    OBVIOUS
  <2> HIDE DEF N
  <2>2. <<x>> \in Seq(N) /\ <<>> \in Seq(N)
    BY <2>1
  <2> QED BY <2>2
<1>2. Present(<<x>>) = FlattenSeq(<<y>>)
  <2>1. DOMAIN s = {1} /\ s[1] = x
    OBVIOUS
  <2> HIDE DEF s
  <2>2. [i \in DOMAIN s |-> IF s[i] = NoId THEN <<>> ELSE <<s[i]>>] = [i \in {1} |-> y]
    BY <2>1
  <2>3. [i \in {1} |-> y] = <<y>>
    <3>1. {1} = 1..1
      OBVIOUS
    <3> HIDE DEF y
    <3> QED BY <3>1
  <2> HIDE DEF y
  <2>4. Present(s) = FlattenSeq(<<y>>)
    BY <2>2, <2>3 DEF Present, ForEach
  <2> QED BY <2>4 DEF s
<1>3. optional_positive_i64(x) = y
  BY DEF optional_positive_i64, NoId
<1> HIDE DEF y
<1>4. FlattenSeq(<<y>>) = y
  <2> HIDE DEF N
  <2>1. <<>> \in Seq(Seq(N))
    OBVIOUS
  <2> QED BY <1>1, <2>1, FlattenAppend
<1> QED BY <1>2, <1>3, <1>4

\* An update over HTTP writes what the same line of a stream does.
LEMMA HttpLikeStream ==
  ASSUME NEW u \in Updates(Nat)
  PROVE  run_dgs_http_update(u) = import_update(u)
<1> DEFINE Years == Seq([org : Nat, year : Int])
           ids == Nat \cup {NoId}
<1>1. /\ u.kind = 1 => u \in [kind : {1}, id : Nat, place : Nat, tags : Seq(Nat),
                              study_at : Years, work_at : Years]
      /\ u.kind = 4 => u \in [kind : {4}, id : Nat, moderator : Nat, tags : Seq(Nat)]
      /\ u.kind = 6 => u \in [kind : {6}, id : Nat, creator : Nat, forum : Nat,
                              place : Nat, tags : Seq(Nat)]
      /\ u.kind = 7 => u \in [kind : {7}, id : Nat, creator : Nat, place : Nat,
                              post : ids, comment : ids, tags : Seq(Nat)]
      /\ u.kind \in 1..8
  BY DEF Updates
<1>2. CASE u.kind = 1
  <2>1. u.tags \in Seq(Nat)
    BY <1>1, <1>2
  <2>5. u.kind # 2 /\ u.kind # 3 /\ u.kind # 4 /\ u.kind # 5 /\ u.kind # 6 /\ u.kind # 7 /\ u.kind # 8
    BY <1>2
  <2>2. Present(u.tags) = u.tags
    BY <2>1, AllPresent
  <2>3. run_dgs_http_update(u) =
          CachedEdges(encode_vid(Person, u.id), Place, <<u.place>>, IsLocatedIn)
            \o CachedEdges(encode_vid(Person, u.id), Tag, u.tags, HasInterest)
            \o CachedYears(encode_vid(Person, u.id), u.study_at, StudyAt)
            \o CachedYears(encode_vid(Person, u.id), u.work_at, WorkAt)
    BY <1>2, <2>5, Zenon DEF run_dgs_http_update
  <2>4. import_update(u) = apply_add_person(u)
    BY <1>2, <2>5, Zenon DEF import_update
  <2> QED BY <2>2, <2>3, <2>4, CachedIsStream, YearsAreStream DEF apply_add_person
<1>3. CASE u.kind = 2
  <2>1. u.kind # 1 /\ u.kind # 3 /\ u.kind # 4 /\ u.kind # 5 /\ u.kind # 6 /\ u.kind # 7 /\ u.kind # 8
    BY <1>3
  <2>2. run_dgs_http_update(u) = insert_update_edge(encode_vid(Person, u.a),
          encode_vid(Post, u.b), LikesPost, {u.date}, FALSE)
    BY <1>3, <2>1, Zenon DEF run_dgs_http_update
  <2>3. import_update(u) = apply_binary_update_edge(Person, Post, u, LikesPost, FALSE)
    BY <1>3, <2>1, Zenon DEF import_update
  <2> QED BY <2>2, <2>3, CachedEdge DEF apply_binary_update_edge
<1>4. CASE u.kind = 3
  <2>1. u.kind # 1 /\ u.kind # 2 /\ u.kind # 4 /\ u.kind # 5 /\ u.kind # 6 /\ u.kind # 7 /\ u.kind # 8
    BY <1>4
  <2>2. run_dgs_http_update(u) = insert_update_edge(encode_vid(Person, u.a),
          encode_vid(Comment, u.b), LikesComment, {u.date}, FALSE)
    BY <1>4, <2>1, Zenon DEF run_dgs_http_update
  <2>3. import_update(u) = apply_binary_update_edge(Person, Comment, u, LikesComment, FALSE)
    BY <1>4, <2>1, Zenon DEF import_update
  <2> QED BY <2>2, <2>3, CachedEdge DEF apply_binary_update_edge
<1>5. CASE u.kind = 4
  <2>1. u.kind # 1 /\ u.kind # 2 /\ u.kind # 3 /\ u.kind # 5 /\ u.kind # 6 /\ u.kind # 7 /\ u.kind # 8
    BY <1>5
  <2>2. u.tags \in Seq(Nat)
    BY <1>1, <1>5
  <2>3. Present(u.tags) = u.tags
    BY <2>2, AllPresent
  <2>4. run_dgs_http_update(u) =
          CachedEdges(encode_vid(Forum, u.id), Person, <<u.moderator>>, HasModerator)
            \o CachedEdges(encode_vid(Forum, u.id), Tag, u.tags, HasTag)
    BY <1>5, <2>1, Zenon DEF run_dgs_http_update
  <2>5. import_update(u) = apply_add_forum(u)
    BY <1>5, <2>1, Zenon DEF import_update
  <2> QED BY <2>3, <2>4, <2>5, CachedIsStream DEF apply_add_forum
<1>6. CASE u.kind = 5
  <2>1. u.kind # 1 /\ u.kind # 2 /\ u.kind # 3 /\ u.kind # 4 /\ u.kind # 6 /\ u.kind # 7 /\ u.kind # 8
    BY <1>6
  <2>2. run_dgs_http_update(u) = insert_update_edge(encode_vid(Forum, u.a),
          encode_vid(Person, u.b), HasMember, {u.date}, FALSE)
    BY <1>6, <2>1, Zenon DEF run_dgs_http_update
  <2>3. import_update(u) = apply_binary_update_edge(Forum, Person, u, HasMember, FALSE)
    BY <1>6, <2>1, Zenon DEF import_update
  <2> QED BY <2>2, <2>3, CachedEdge DEF apply_binary_update_edge
<1>7. CASE u.kind = 6
  <2>1. u.kind # 1 /\ u.kind # 2 /\ u.kind # 3 /\ u.kind # 4 /\ u.kind # 5 /\ u.kind # 7 /\ u.kind # 8
    BY <1>7
  <2>2. u.tags \in Seq(Nat)
    BY <1>1, <1>7
  <2>3. Present(u.tags) = u.tags
    BY <2>2, AllPresent
  <2>4. run_dgs_http_update(u) =
          CachedEdges(encode_vid(Post, u.id), Person, <<u.creator>>, HasCreator)
            \o insert_edge_cached(encode_vid(Forum, u.forum), encode_vid(Post, u.id),
                                  ContainerOf, EmptyProp, TRUE)
            \o CachedEdges(encode_vid(Post, u.id), Place, <<u.place>>, IsLocatedIn)
            \o CachedEdges(encode_vid(Post, u.id), Tag, u.tags, HasTag)
    BY <1>7, <2>1, Zenon DEF run_dgs_http_update
  <2>5. import_update(u) = apply_add_post(u)
    BY <1>7, <2>1, Zenon DEF import_update
  <2>6. \A to, l, q : CachedEdges(encode_vid(Post, u.id), to, q, l)
                       = StreamEdges(Post, u, to, q, l)
    BY CachedIsStream, Zenon
  <2>7. insert_edge_cached(encode_vid(Forum, u.forum), encode_vid(Post, u.id),
                           ContainerOf, EmptyProp, TRUE)
          = LoadEdge(encode_vid(Forum, u.forum), ContainerOf, encode_vid(Post, u.id),
                     EmptyProp, FALSE)
    BY CachedEdge, Zenon
  <2> QED BY <2>3, <2>4, <2>5, <2>6, <2>7, Zenon DEF apply_add_post
<1>8. CASE u.kind = 7
  <2>1. u.kind # 1 /\ u.kind # 2 /\ u.kind # 3 /\ u.kind # 4 /\ u.kind # 5 /\ u.kind # 6 /\ u.kind # 8
    BY <1>8
  <2>2. u.tags \in Seq(Nat) /\ u.post \in ids /\ u.comment \in ids
    BY <1>1, <1>8
  <2>3. /\ Present(u.tags) = u.tags
        /\ optional_positive_i64(u.post) = Present(<<u.post>>)
        /\ optional_positive_i64(u.comment) = Present(<<u.comment>>)
    BY <2>2, AllPresent, OptionalPresent
  <2>4. run_dgs_http_update(u) =
          CachedEdges(encode_vid(Comment, u.id), Person, <<u.creator>>, HasCreator)
            \o CachedEdges(encode_vid(Comment, u.id), Place, <<u.place>>, IsLocatedIn)
            \o CachedEdges(encode_vid(Comment, u.id), Post, optional_positive_i64(u.post),
                           ReplyOfPost)
            \o CachedEdges(encode_vid(Comment, u.id), Comment,
                           optional_positive_i64(u.comment), ReplyOfComment)
            \o CachedEdges(encode_vid(Comment, u.id), Tag, u.tags, HasTag)
    BY <1>8, <2>1, Zenon DEF run_dgs_http_update
  <2>5. import_update(u) = apply_add_comment(u)
    BY <1>8, <2>1, Zenon DEF import_update
  <2>6. run_dgs_http_update(u) =
          StreamEdges(Comment, u, Person, <<u.creator>>, HasCreator)
            \o StreamEdges(Comment, u, Place, <<u.place>>, IsLocatedIn)
            \o StreamEdges(Comment, u, Post, optional_positive_i64(u.post), ReplyOfPost)
            \o StreamEdges(Comment, u, Comment, optional_positive_i64(u.comment),
                           ReplyOfComment)
            \o StreamEdges(Comment, u, Tag, u.tags, HasTag)
    <3>1. \A to, l, q : CachedEdges(encode_vid(Comment, u.id), to, q, l)
                          = StreamEdges(Comment, u, to, q, l)
      BY CachedIsStream, Zenon
    <3> QED BY <2>4, <3>1, Zenon
  <2>7. run_dgs_http_update(u) = apply_add_comment(u)
    BY <2>3, <2>6, Zenon DEF apply_add_comment
  <2> QED BY <2>5, <2>7
<1>9. CASE u.kind = 8
  <2>1. u.kind # 1 /\ u.kind # 2 /\ u.kind # 3 /\ u.kind # 4 /\ u.kind # 5 /\ u.kind # 6 /\ u.kind # 7
    BY <1>9
  <2>2. run_dgs_http_update(u) = insert_update_edge(encode_vid(Person, u.a),
          encode_vid(Person, u.b), Knows, {u.date}, TRUE)
    BY <1>9, <2>1, Zenon DEF run_dgs_http_update
  <2>3. import_update(u) = apply_binary_update_edge(Person, Person, u, Knows, TRUE)
    BY <1>9, <2>1, Zenon DEF import_update
  <2> QED BY <2>2, <2>3, CachedEdge DEF apply_binary_update_edge
<1> QED BY <1>1, <1>2, <1>3, <1>4, <1>5, <1>6, <1>7, <1>8, <1>9

-----------------------------------------------------------------------------
(* Rows of properties, and insertions into a graph.                        *)

\* What is made of every element of a list, put together.
Each(f, s) == FlattenSeq([i \in DOMAIN s |-> f[s[i]]])

\* What an element more adds to it.
OneMore(S, f, s, x) ==
  /\ Each(f, s) \in Seq(S)
  /\ Each(f, Append(s, x)) = Each(f, s) \o f[x]
  /\ Each(f, <<x>>) = f[x]
  /\ Each(f, <<>>) = <<>>

\* It is added at the end.
LEMMA EachAppend ==
  ASSUME NEW S, NEW T, NEW f \in [T -> Seq(S)], NEW s \in Seq(T), NEW x \in T
  PROVE  OneMore(S, f, s, x)
<1> DEFINE n == Len(s)
           q == [i \in 1..n |-> f[s[i]]]
           r == Append(s, x)
<1>1. /\ n \in Nat /\ DOMAIN s = 1..n /\ \A i \in 1..n : s[i] \in T
      /\ r \in Seq(T) /\ DOMAIN r = 1..(n + 1) /\ r[n + 1] = x
      /\ \A i \in 1..n : r[i] = s[i]
  OBVIOUS
<1>2. q \in Seq(Seq(S)) /\ Len(q) = n /\ \A i \in 1..n : q[i] = f[s[i]]
  <2>1. \A i \in 1..n : f[s[i]] \in Seq(S)
    BY <1>1
  <2> QED BY <1>1, <2>1
<1>3. Each(f, s) = FlattenSeq(q)
  BY <1>1 DEF Each
<1> HIDE DEF q, r
<1>4. [i \in DOMAIN r |-> f[r[i]]] = Append(q, f[x])
  <2>1. /\ Append(q, f[x]) = [i \in 1..(n + 1) |-> IF i = n + 1 THEN f[x] ELSE q[i]]
    BY <1>1, <1>2
  <2>2. \A i \in 1..(n + 1) : f[r[i]] = IF i = n + 1 THEN f[x] ELSE q[i]
    <3>1. \A i \in 1..(n + 1) : i # n + 1 => i \in 1..n
      BY <1>1
    <3> QED BY <1>1, <1>2, <3>1
  <2> QED BY <1>1, <2>1, <2>2
<1>5. f[x] \in Seq(S)
  OBVIOUS
<1>6. /\ FlattenSeq(Append(q, f[x])) = FlattenSeq(q) \o f[x]
      /\ FlattenSeq(q) \in Seq(S)
      /\ FlattenSeq(<<f[x]>>) = f[x]
  BY <1>2, <1>5, FlattenAppend
<1>7. Each(f, r) = FlattenSeq(q) \o f[x]
  BY <1>4, <1>6 DEF Each
<1>8. Each(f, <<x>>) = f[x]
  <2> DEFINE t == <<x>>
  <2>1. DOMAIN t = 1..1 /\ t[1] = x
    OBVIOUS
  <2> HIDE DEF t
  <2>2. [i \in DOMAIN t |-> f[t[i]]] = <<f[x]>>
    <3>1. [i \in 1..1 |-> f[t[i]]] = [i \in 1..1 |-> f[x]]
      BY <2>1
    <3> QED BY <2>1, <3>1
  <2>3. Each(f, t) = f[x]
    BY <1>6, <2>2 DEF Each
  <2> QED BY <2>3 DEF t
<1>9. Each(f, <<>>) = <<>>
  <2>1. [i \in DOMAIN <<>> |-> f[<<>>[i]]] = <<>>
    OBVIOUS
  <2> QED BY <2>1 DEF Each, FlattenSeq
<1> QED BY <1>3, <1>6, <1>7, <1>8, <1>9 DEF r, OneMore

\* The rows of a property file for writes.
RowsOf == [w \in Write |-> IF w.prop = EmptyProp THEN <<>> ELSE <<w>>]

\* A write more adds its row, if it has a property.
LEMMA RowsAppend ==
  ASSUME NEW s \in Seq(Write), NEW w \in Write
  PROVE  /\ PropRows(s) \in Seq(Write) /\ PropRows(<<w>>) \in Seq(Write)
         /\ PropRows(Append(s, w)) = PropRows(s) \o PropRows(<<w>>)
         /\ PropRows(<<>>) = <<>>
<1>1. RowsOf \in [Write -> Seq(Write)]
  <2>1. \A v \in Write : <<v>> \in Seq(Write) /\ <<>> \in Seq(Write)
    OBVIOUS
  <2> QED BY <2>1 DEF RowsOf
<1>2. \A t \in Seq(Write) : PropRows(t) = Each(RowsOf, t)
  <2> SUFFICES ASSUME NEW t \in Seq(Write) PROVE PropRows(t) = Each(RowsOf, t)
    OBVIOUS
  <2>1. DOMAIN t = 1..Len(t) /\ \A i \in 1..Len(t) : t[i] \in Write
    BY ElementOfSeq
  <2>2. [i \in DOMAIN t |-> RowsOf[t[i]]]
          = [i \in DOMAIN t |-> IF t[i].prop = EmptyProp THEN <<>> ELSE <<t[i]>>]
    BY <2>1 DEF RowsOf
  <2> QED BY <2>2 DEF PropRows, ForEach, Each
<1>3. <<w>> \in Seq(Write) /\ Append(s, w) \in Seq(Write) /\ <<>> \in Seq(Write)
  OBVIOUS
<1>4. RowsOf[w] \in Seq(Write)
  BY <1>1
<1>5. /\ Each(RowsOf, s) \in Seq(Write)
      /\ Each(RowsOf, Append(s, w)) = Each(RowsOf, s) \o RowsOf[w]
      /\ Each(RowsOf, <<w>>) = RowsOf[w]
      /\ Each(RowsOf, <<>>) = <<>>
  <2>1. OneMore(Write, RowsOf, s, w)
    BY <1>1, EachAppend
  <2> QED BY <2>1 DEF OneMore
<1> QED BY <1>2, <1>3, <1>4, <1>5

\* The rows of an edge.
At(rows, k) == {i \in DOMAIN rows : rows[i].key = k}

\* The edges that rows are about.
KeysOf(rows) == {rows[i].key : i \in DOMAIN rows}

\* The properties after more rows.
LEMMA WithPropsIs ==
  ASSUME NEW p, NEW rows
  PROVE  WithProps(p, rows) = [k \in DOMAIN p \cup KeysOf(rows) |->
                                 IF At(rows, k) = {} THEN p[k] ELSE rows[Max(At(rows, k))].prop]
BY DEF WithProps, At, KeysOf

\* Rows that are added later win.
LEMMA WithPropsConcat ==
  ASSUME NEW p, NEW a \in Seq(Write), NEW b \in Seq(Write)
  PROVE  WithProps(WithProps(p, a), b) = WithProps(p, a \o b)
<1> DEFINE c == a \o b
           m == Len(a)
           n == Len(b)
<1>1. /\ m \in Nat /\ n \in Nat /\ DOMAIN a = 1..m /\ DOMAIN b = 1..n
      /\ DOMAIN c = 1..(m + n)
      /\ \A i \in 1..(m + n) : c[i] = IF i <= m THEN a[i] ELSE b[i - m]
  BY ConcatProperties
<1> HIDE DEF c, m, n
<1>2. \A i \in 1..m : i \in 1..(m + n) /\ c[i] = a[i]
  BY <1>1
<1>3. \A i \in 1..n : m + i \in 1..(m + n) /\ c[m + i] = b[i]
  <2> SUFFICES ASSUME NEW i \in 1..n PROVE m + i \in 1..(m + n) /\ c[m + i] = b[i]
    OBVIOUS
  <2>1. m + i \in 1..(m + n) /\ ~(m + i <= m) /\ (m + i) - m = i
    BY <1>1
  <2> QED BY <1>1, <2>1
<1>4. \A i \in 1..(m + n) : \/ i \in 1..m /\ c[i] = a[i]
                            \/ i - m \in 1..n /\ c[i] = b[i - m] /\ m + (i - m) = i
  BY <1>1
<1>5. KeysOf(c) = KeysOf(a) \cup KeysOf(b)
  <2>1. KeysOf(c) \subseteq KeysOf(a) \cup KeysOf(b)
    BY <1>1, <1>4 DEF KeysOf
  <2>2. KeysOf(a) \subseteq KeysOf(c)
    BY <1>1, <1>2 DEF KeysOf
  <2>3. KeysOf(b) \subseteq KeysOf(c)
    <3> SUFFICES ASSUME NEW i \in 1..n PROVE b[i].key \in KeysOf(c)
      BY <1>1 DEF KeysOf
    <3>1. m + i \in DOMAIN c /\ c[m + i] = b[i]
      BY <1>1, <1>3
    <3> QED BY <3>1 DEF KeysOf
  <2> QED BY <2>1, <2>2, <2>3
<1>6. \A k : /\ At(a, k) \in SUBSET (1..m) /\ At(b, k) \in SUBSET (1..n)
             /\ At(c, k) \in SUBSET (1..(m + n))
  BY <1>1 DEF At
<1>7. \A k : \A S \in {At(a, k), At(b, k), At(c, k)} :
        S # {} => Max(S) \in S /\ \A x \in S : x <= Max(S)
  <2> SUFFICES ASSUME NEW k, NEW S \in {At(a, k), At(b, k), At(c, k)}, S # {}
               PROVE  Max(S) \in S /\ \A x \in S : x <= Max(S)
    OBVIOUS
  <2>1. S \in SUBSET (1..(m + n)) /\ S \in SUBSET Nat
    BY <1>1, <1>6
  <2>2. IsFiniteSet(S)
    <3>1. IsFiniteSet(1..(m + n))
      BY <1>1, FS_Interval
    <3> QED BY <2>1, <3>1, FS_Subset
  <2> QED BY <2>1, <2>2, GreatestNatural
<1>8. ASSUME NEW k
      PROVE  /\ \A i \in At(b, k) : m + i \in At(c, k)
             /\ \A i \in At(c, k) : i \in At(a, k) \/ i - m \in At(b, k)
             /\ \A i \in At(a, k) : i \in At(c, k)
  BY <1>1, <1>2, <1>3, <1>4 DEF At
<1>9. ASSUME NEW k
      PROVE  (IF At(c, k) = {} THEN p[k] ELSE c[Max(At(c, k))].prop)
               = IF At(b, k) # {} THEN b[Max(At(b, k))].prop
                 ELSE IF At(a, k) # {} THEN a[Max(At(a, k))].prop ELSE p[k]
  <2> DEFINE M == Max(At(c, k))
  <2>1. CASE At(b, k) # {}
    <3> DEFINE B == Max(At(b, k))
    <3>1. B \in At(b, k) /\ B \in 1..n /\ \A x \in At(b, k) : x <= B
      BY <1>6, <1>7, <2>1
    <3>2. m + B \in At(c, k)
      BY <1>8, <3>1
    <3>3. M \in At(c, k) /\ M \in 1..(m + n) /\ m + B <= M
      BY <1>6, <1>7, <3>2
    <3>4. M \notin At(a, k)
      <4>1. ~(M <= m)
        BY <1>1, <3>1, <3>3
      <4> QED BY <1>1, <1>6, <3>3, <4>1
    <3>5. M - m \in At(b, k)
      BY <1>8, <3>3, <3>4
    <3>6. M - m <= B
      BY <3>1, <3>5
    <3>7. M = m + B
      BY <1>1, <3>1, <3>3, <3>6
    <3>8. c[M] = b[B]
      BY <1>3, <3>1, <3>7
    <3> QED BY <2>1, <3>3, <3>8
  <2>2. CASE At(b, k) = {} /\ At(a, k) # {}
    <3>1. At(c, k) = At(a, k)
      BY <1>8, <2>2
    <3>2. M \in At(a, k)
      BY <1>7, <2>2, <3>1
    <3>3. c[M] = a[M]
      BY <1>2, <1>6, <3>2
    <3> QED BY <2>2, <3>1, <3>3
  <2>3. CASE At(b, k) = {} /\ At(a, k) = {}
    BY <1>8, <2>3
  <2> QED BY <2>1, <2>2, <2>3
<1> DEFINE r == WithProps(p, a)
<1>10. /\ DOMAIN r = DOMAIN p \cup KeysOf(a)
       /\ \A k \in DOMAIN r : r[k] = IF At(a, k) = {} THEN p[k] ELSE a[Max(At(a, k))].prop
  BY WithPropsIs
<1> HIDE DEF r
<1>11. WithProps(r, b) = [k \in DOMAIN r \cup KeysOf(b) |->
                            IF At(b, k) = {} THEN r[k] ELSE b[Max(At(b, k))].prop]
  BY WithPropsIs
<1>12. WithProps(p, c) = [k \in DOMAIN p \cup KeysOf(c) |->
                            IF At(c, k) = {} THEN p[k] ELSE c[Max(At(c, k))].prop]
  BY WithPropsIs
<1>13. DOMAIN r \cup KeysOf(b) = DOMAIN p \cup KeysOf(c)
  BY <1>5, <1>10
<1>14. ASSUME NEW k \in DOMAIN r \cup KeysOf(b)
       PROVE  (IF At(b, k) = {} THEN r[k] ELSE b[Max(At(b, k))].prop)
                = IF At(c, k) = {} THEN p[k] ELSE c[Max(At(c, k))].prop
  <2>1. CASE At(b, k) # {}
    BY <1>9, <2>1
  <2>2. CASE At(b, k) = {}
    <3>1. k \notin KeysOf(b)
      BY <2>2 DEF At, KeysOf
    <3>2. r[k] = IF At(a, k) = {} THEN p[k] ELSE a[Max(At(a, k))].prop
      BY <1>10, <3>1
    <3> QED BY <1>9, <2>2, <3>2
  <2> QED BY <2>1, <2>2
<1> QED BY <1>11, <1>12, <1>13, <1>14 DEF r, c

\* No rows change nothing.
LEMMA WithPropsNone ==
  ASSUME NEW p, p = [k \in DOMAIN p |-> p[k]]
  PROVE  WithProps(p, <<>>) = p
<1>1. KeysOf(<<>>) = {} /\ \A k : At(<<>>, k) = {}
  BY DEF KeysOf, At
<1> QED BY <1>1, WithPropsIs

\* What a server holds for its neighbors: lists without repetition.
Adjacencies ==
  {A \in UNION {[D -> Seq(Int)] : D \in SUBSET (Int \X Int)} :
     \A g \in DOMAIN A : NoTwice(A[g])}

\* Membership, said of an adjacency itself.
LEMMA AdjacencyIs ==
  ASSUME NEW A
  PROVE  A \in Adjacencies <=>
           /\ A = [g \in DOMAIN A |-> A[g]]
           /\ DOMAIN A \in SUBSET (Int \X Int)
           /\ \A g \in DOMAIN A : A[g] \in Seq(Int) /\ NoTwice(A[g])
<1>1. ASSUME A \in Adjacencies
      PROVE  /\ A = [g \in DOMAIN A |-> A[g]]
             /\ DOMAIN A \in SUBSET (Int \X Int)
             /\ \A g \in DOMAIN A : A[g] \in Seq(Int) /\ NoTwice(A[g])
  <2>1. PICK D \in SUBSET (Int \X Int) : A \in [D -> Seq(Int)]
    BY <1>1 DEF Adjacencies
  <2> QED BY <1>1, <2>1 DEF Adjacencies
<1>2. ASSUME A = [g \in DOMAIN A |-> A[g]],
             DOMAIN A \in SUBSET (Int \X Int),
             \A g \in DOMAIN A : A[g] \in Seq(Int) /\ NoTwice(A[g])
      PROVE  A \in Adjacencies
  <2>1. A \in [DOMAIN A -> Seq(Int)]
    BY <1>2
  <2> QED BY <1>2, <2>1 DEF Adjacencies
<1> QED BY <1>1, <1>2

\* The edges of an adjacency.
LEMMA EdgesAre ==
  ASSUME NEW A, NEW k
  PROVE  k \in EdgesIn(A) <=>
           \E g \in DOMAIN A : \E i \in DOMAIN A[g] : k = Key(g[1], g[2], A[g][i])
BY DEF EdgesIn

\* A list with one more element, unless it has it already.
WithElement(s, x) == IF x \in ToSet(s) THEN s ELSE Append(s, x)

\* It has the elements of the list and the new one, each once.
LEMMA ElementAdded ==
  ASSUME NEW s \in Seq(Int), NoTwice(s), NEW x \in Int
  PROVE  /\ WithElement(s, x) \in Seq(Int) /\ NoTwice(WithElement(s, x))
         /\ \A y : (\E i \in DOMAIN WithElement(s, x) : y = WithElement(s, x)[i])
                     <=> (\E i \in DOMAIN s : y = s[i]) \/ y = x
<1> DEFINE n == Len(s)
           t == Append(s, x)
<1>1. n \in Nat /\ DOMAIN s = 1..n /\ ToSet(s) = {s[i] : i \in 1..n}
  BY ToSetIs
<1>2. CASE x \in ToSet(s)
  <2>1. WithElement(s, x) = s
    BY <1>2 DEF WithElement
  <2>2. \E i \in DOMAIN s : x = s[i]
    BY <1>1, <1>2
  <2> QED BY <2>1, <2>2
<1>3. CASE x \notin ToSet(s)
  <2>1. WithElement(s, x) = t
    BY <1>3 DEF WithElement
  <2>2. /\ t \in Seq(Int) /\ Len(t) = n + 1 /\ DOMAIN t = 1..(n + 1) /\ t[n + 1] = x
        /\ \A i \in 1..n : t[i] = s[i]
    OBVIOUS
  <2> HIDE DEF t
  <2>3. \A i \in 1..(n + 1) : i \in 1..n \/ i = n + 1
    BY <1>1
  <2>4. \A i \in 1..n : i \in 1..(n + 1)
    BY <1>1
  <2>5. n + 1 \in 1..(n + 1)
    BY <1>1
  <2>6. \A i \in 1..n : t[i] # x
    BY <1>1, <1>3, <2>2
  <2>7. NoTwice(t)
    <3> SUFFICES ASSUME NEW i \in 1..(n + 1), NEW j \in 1..(n + 1), t[i] = t[j] PROVE i = j
      BY <2>2 DEF NoTwice
    <3>1. CASE i \in 1..n /\ j \in 1..n
      BY <2>2, <3>1 DEF NoTwice
    <3>2. CASE i = n + 1
      BY <2>2, <2>3, <2>6, <3>2
    <3>3. CASE j = n + 1
      BY <2>2, <2>3, <2>6, <3>3
    <3> QED BY <2>3, <3>1, <3>2, <3>3
  <2>8. \A y : (\E i \in DOMAIN t : y = t[i]) <=> (\E i \in DOMAIN s : y = s[i]) \/ y = x
    BY <1>1, <2>2, <2>3, <2>4, <2>5
  <2> QED BY <2>1, <2>2, <2>7, <2>8
<1> QED BY <1>2, <1>3

\* One insertion.
LEMMA InsertEffect ==
  ASSUME NEW G, G.adjacency \in Adjacencies, NEW w \in Write,
         G = [vertices |-> G.vertices, edge_props |-> G.edge_props, adjacency |-> G.adjacency]
  PROVE  LET H == insert_edge_by_type(G, w)
         IN  /\ H = [vertices |-> G.vertices,
                     edge_props |-> WithProps(G.edge_props, PropRows(<<w>>)),
                     adjacency |-> H.adjacency]
             /\ H.adjacency \in Adjacencies
             /\ EdgesIn(H.adjacency) = EdgesIn(G.adjacency) \cup {w.key}
<1> DEFINE A == G.adjacency
           k == w.key
           group == <<k.src, k.edge_type>>
           dsts == Neighbors(G, k.src, k.edge_type)
           added == WithElement(dsts, k.dst)
           B == [g \in DOMAIN A \cup {group} |-> IF g = group THEN added ELSE A[g]]
           H == insert_edge_by_type(G, w)
           p == WithProps(G.edge_props, PropRows(<<w>>))
<1>1. k \in SnbKey /\ k.src \in Int /\ k.edge_type \in Int /\ k.dst \in Int
      /\ k = Key(k.src, k.edge_type, k.dst)
  BY DEF Write, SnbKey, Key
<1>2. H = [G EXCEPT !.adjacency = B, !.edge_props = p]
  BY DEF insert_edge_by_type, WithElement
<1> HIDE DEF B, p, H
<1>3. H = [vertices |-> G.vertices, edge_props |-> p, adjacency |-> B]
  BY <1>2
<1>4. H.adjacency = B
  BY <1>3
<1>5. /\ A = [g \in DOMAIN A |-> A[g]] /\ DOMAIN A \in SUBSET (Int \X Int)
      /\ \A g \in DOMAIN A : A[g] \in Seq(Int) /\ NoTwice(A[g])
  BY AdjacencyIs
<1>6. /\ dsts \in Seq(Int) /\ NoTwice(dsts)
      /\ group \in DOMAIN A => dsts = A[group]
      /\ group \notin DOMAIN A => dsts = <<>>
  <2>1. dsts = IF group \in DOMAIN A THEN A[group] ELSE <<>>
    BY DEF Neighbors
  <2>2. <<>> \in Seq(Int) /\ NoTwice(<<>>)
    BY DEF NoTwice
  <2> QED BY <1>5, <2>1, <2>2
<1> HIDE DEF A, dsts, k
<1>7. /\ added \in Seq(Int) /\ NoTwice(added)
      /\ \A y : (\E i \in DOMAIN added : y = added[i])
                  <=> (\E i \in DOMAIN dsts : y = dsts[i]) \/ y = k.dst
  BY <1>1, <1>6, ElementAdded
<1> HIDE DEF added
<1>8. group \in Int \X Int /\ group[1] = k.src /\ group[2] = k.edge_type
  BY <1>1
<1> HIDE DEF group
<1>9. /\ DOMAIN B = DOMAIN A \cup {group} /\ B[group] = added
      /\ \A g \in DOMAIN A : g # group => B[g] = A[g]
      /\ B = [g \in DOMAIN B |-> B[g]]
  BY DEF B
<1>10. B \in Adjacencies
  BY <1>5, <1>7, <1>8, <1>9, AdjacencyIs
<1>11. ASSUME NEW x \in EdgesIn(B) PROVE x \in EdgesIn(A) \cup {k}
  <2>1. PICK g \in DOMAIN B : \E i \in DOMAIN B[g] : x = Key(g[1], g[2], B[g][i])
    BY EdgesAre
  <2>2. PICK i \in DOMAIN B[g] : x = Key(g[1], g[2], B[g][i])
    BY <2>1
  <2>3. CASE g # group
    <3>1. g \in DOMAIN A /\ B[g] = A[g]
      BY <1>9, <2>3
    <3> QED BY <2>2, <3>1, EdgesAre
  <2>4. CASE g = group
    <3>1. (\E j \in DOMAIN dsts : B[g][i] = dsts[j]) \/ B[g][i] = k.dst
      BY <1>7, <1>9, <2>2, <2>4
    <3>2. CASE B[g][i] = k.dst
      BY <1>1, <1>8, <2>2, <2>4, <3>2
    <3>3. CASE \E j \in DOMAIN dsts : B[g][i] = dsts[j]
      <4>1. PICK j \in DOMAIN dsts : B[g][i] = dsts[j]
        BY <3>3
      <4>2. group \in DOMAIN A
        BY <1>6, <4>1
      <4>3. j \in DOMAIN A[g] /\ x = Key(g[1], g[2], A[g][j])
        BY <1>6, <2>2, <2>4, <4>1, <4>2
      <4> QED BY <2>4, <4>2, <4>3, EdgesAre
    <3> QED BY <3>1, <3>2, <3>3
  <2> QED BY <2>3, <2>4
<1>12. ASSUME NEW x \in EdgesIn(A) PROVE x \in EdgesIn(B)
  <2>1. PICK g \in DOMAIN A : \E i \in DOMAIN A[g] : x = Key(g[1], g[2], A[g][i])
    BY EdgesAre
  <2>2. PICK i \in DOMAIN A[g] : x = Key(g[1], g[2], A[g][i])
    BY <2>1
  <2>3. CASE g # group
    BY <1>9, <2>2, <2>3, EdgesAre
  <2>4. CASE g = group
    <3>1. dsts = A[g]
      BY <1>6, <2>4
    <3>2. PICK j \in DOMAIN added : A[g][i] = added[j]
      BY <1>7, <2>2, <3>1
    <3> QED BY <1>9, <2>2, <2>4, <3>2, EdgesAre
  <2> QED BY <2>3, <2>4
<1>13. k \in EdgesIn(B)
  <2>1. PICK j \in DOMAIN added : k.dst = added[j]
    BY <1>7
  <2>2. k = Key(group[1], group[2], B[group][j])
    BY <1>1, <1>8, <1>9, <2>1
  <2> QED BY <1>9, <2>1, <2>2, EdgesAre
<1>14. EdgesIn(B) = EdgesIn(A) \cup {k}
  BY <1>11, <1>12, <1>13
<1> QED BY <1>3, <1>4, <1>10, <1>14 DEF H, p, k, A

\* Properties of edges that rows can make of p.
Props(p) ==
  UNION {[D -> {p[k] : k \in DOMAIN p} \cup SUBSET Int] : D \in SUBSET (DOMAIN p \cup SnbKey)}

\* Further rows make no others.
LEMMA PropsClosed ==
  ASSUME NEW o, NEW p \in Props(o), NEW rows \in Seq(Write)
  PROVE  WithProps(p, rows) \in Props(o)
<1> DEFINE P == {o[k] : k \in DOMAIN o} \cup SUBSET Int
           K == DOMAIN o \cup SnbKey
           q == WithProps(p, rows)
<1>1. PICK D \in SUBSET K : p \in [D -> P]
  BY DEF Props
<1>2. \A i \in 1..Len(rows) : rows[i].key \in K /\ rows[i].prop \in P
  <2>1. \A i \in 1..Len(rows) : rows[i] \in Write
    BY ElementOfSeq
  <2> QED BY <2>1 DEF Write
<1>3. Len(rows) \in Nat /\ DOMAIN rows = 1..Len(rows)
  OBVIOUS
<1> HIDE DEF P, K
<1>4. KeysOf(rows) \subseteq K
  BY <1>2, <1>3 DEF KeysOf
<1>5. ASSUME NEW k, At(rows, k) # {} PROVE rows[Max(At(rows, k))].prop \in P
  <2>1. At(rows, k) \in SUBSET (1..Len(rows)) /\ At(rows, k) \in SUBSET Nat
    BY <1>3 DEF At
  <2>2. IsFiniteSet(At(rows, k))
    <3>1. IsFiniteSet(1..Len(rows))
      BY <1>3, FS_Interval
    <3> QED BY <2>1, <3>1, FS_Subset
  <2>3. Max(At(rows, k)) \in At(rows, k)
    BY <1>5, <2>1, <2>2, GreatestNatural
  <2> QED BY <1>2, <2>1, <2>3
<1>6. q = [k \in DOMAIN p \cup KeysOf(rows) |->
             IF At(rows, k) = {} THEN p[k] ELSE rows[Max(At(rows, k))].prop]
  BY WithPropsIs
<1> HIDE DEF q
<1>7. \A k \in DOMAIN p \cup KeysOf(rows) : q[k] \in P
  <2> SUFFICES ASSUME NEW k \in DOMAIN p \cup KeysOf(rows) PROVE q[k] \in P
    OBVIOUS
  <2>1. CASE At(rows, k) # {}
    BY <1>5, <1>6, <2>1
  <2>2. CASE At(rows, k) = {}
    <3>1. k \in DOMAIN p
      BY <2>2 DEF At, KeysOf
    <3> QED BY <1>1, <1>6, <2>2, <3>1
  <2> QED BY <2>1, <2>2
<1> DEFINE Q == DOMAIN p \cup KeysOf(rows)
<1>8. Q \in SUBSET K
  BY <1>1, <1>4
<1>9. q \in [Q -> P]
  <2>1. q = [k \in Q |-> q[k]]
    BY <1>6
  <2> QED BY <1>7, <2>1
<1> HIDE DEF Q
<1>10. q \in UNION {[E -> P] : E \in SUBSET K}
  BY <1>8, <1>9
<1> QED BY <1>10 DEF Props, P, K, q

\* What insertions can make of a graph.
Graphs(o) ==
  [vertices : {o.vertices}, edge_props : Props(o.edge_props), adjacency : Adjacencies]

\* A further insertion makes no others.
LEMMA InsertType ==
  ASSUME NEW o, NEW G \in Graphs(o), NEW w \in Write
  PROVE  insert_edge_by_type(G, w) \in Graphs(o)
<1> DEFINE H == insert_edge_by_type(G, w)
           p == WithProps(G.edge_props, PropRows(<<w>>))
<1>1. /\ G = [vertices |-> G.vertices, edge_props |-> G.edge_props, adjacency |-> G.adjacency]
      /\ G.vertices = o.vertices /\ G.edge_props \in Props(o.edge_props)
      /\ G.adjacency \in Adjacencies
  BY DEF Graphs
<1>2. /\ H = [vertices |-> G.vertices, edge_props |-> p, adjacency |-> H.adjacency]
      /\ H.adjacency \in Adjacencies
  BY <1>1, InsertEffect
<1>3. PropRows(<<w>>) \in Seq(Write)
  <2>1. <<>> \in Seq(Write)
    OBVIOUS
  <2> QED BY <2>1, RowsAppend
<1>4. p \in Props(o.edge_props)
  BY <1>1, <1>3, PropsClosed
<1> HIDE DEF H, p
<1>5. H \in Graphs(o)
  BY <1>1, <1>2, <1>4 DEF Graphs
<1> QED BY <1>5 DEF H

\* A list of insertions, and the graphs on the way.
Inserted(G, ws) == FoldLeft(insert_edge_by_type, G, ws)

\* f[k] is the graph after k insertions.
InsertedBy(f, G, ws) ==
  /\ f[0] = G
  /\ \A k \in 1..Len(ws) : f[k] = insert_edge_by_type(f[k - 1], ws[k])
  /\ Inserted(G, ws) = f[Len(ws)]

\* The loop of insertions, round by round.
LEMMA InsertRounds ==
  ASSUME NEW o, NEW G \in Graphs(o), NEW ws \in Seq(Write)
  PROVE  \E f \in [0..Len(ws) -> Graphs(o)] : InsertedBy(f, G, ws)
<1> DEFINE n == Len(ws)
           S == 1..n
           Type == Graphs(o)
           pick == [s \in SUBSET S |-> Max(s)]
           next == [x \in S |-> [c \in Type |-> insert_edge_by_type(c, ws[x])]]
           Fold(h) == h = [s \in SUBSET S |->
                             IF s = {} THEN G
                             ELSE insert_edge_by_type(h[s \ {Max(s)}], ws[Max(s)])]
           iter == CHOOSE h : Fold(h)
<1>1. /\ n \in Nat /\ IsFiniteSet(S) /\ S \subseteq Nat /\ DOMAIN ws = S
      /\ \A x \in S : ws[x] \in Write
  <2>1. n \in Nat /\ DOMAIN ws = S
    OBVIOUS
  <2>2. \A x \in S : ws[x] \in Write
    BY ElementOfSeq
  <2> QED BY <2>1, <2>2, FS_Interval
<1>2. \A s \in SUBSET S : s # {} => Max(s) \in s /\ pick[s] = Max(s)
  <2> HIDE DEF S
  <2>1. ASSUME NEW s \in SUBSET S, s # {} PROVE Max(s) \in s
    <3>1. s \in SUBSET Nat /\ IsFiniteSet(s)
      BY <1>1, FS_Subset
    <3> QED BY <2>1, <3>1, GreatestNatural
  <2> QED BY <2>1
<1>3. Picks(pick, S)
  BY <1>2 DEF Picks
<1>4. next \in [S -> [Type -> Type]] /\ G \in Type
  <2>1. \A x \in S : \A c \in Type : insert_edge_by_type(c, ws[x]) \in Type
    <3> HIDE DEF S
    <3> QED BY <1>1, InsertType
  <2> HIDE DEF S
  <2>2. G \in Type
    OBVIOUS
  <2> HIDE DEF Type
  <2> QED BY <2>1, <2>2
<1>5. PICK h \in [SUBSET S -> Type] : IsFold(h, next, G, pick, S)
  <2> HIDE DEF pick, next, Type, S
  <2> QED BY <1>1, <1>3, <1>4, FoldExists
<1>6. \A s \in SUBSET S : s # {} =>
        /\ Max(s) \in S /\ s \ {Max(s)} \in SUBSET S
        /\ h[s \ {Max(s)}] \in Type
        /\ h[s] = insert_edge_by_type(h[s \ {Max(s)}], ws[Max(s)])
  <2> SUFFICES ASSUME NEW s \in SUBSET S, s # {}
               PROVE  /\ Max(s) \in S /\ s \ {Max(s)} \in SUBSET S
                      /\ h[s \ {Max(s)}] \in Type
                      /\ h[s] = insert_edge_by_type(h[s \ {Max(s)}], ws[Max(s)])
    OBVIOUS
  <2> HIDE DEF S, Type
  <2>1. /\ Max(s) \in S /\ s \ {Max(s)} \in SUBSET S /\ pick[s] = Max(s)
        /\ h[s \ {Max(s)}] \in Type
    BY <1>2
  <2>2. h[s] = next[Max(s)][h[s \ {Max(s)}]]
    <3> HIDE DEF pick, next
    <3> QED BY <1>5, <2>1 DEF IsFold
  <2> QED BY <2>1, <2>2
<1>7. Fold(h)
  <2>1. h = [s \in SUBSET S |-> h[s]]
    OBVIOUS
  <2>2. h[{}] = G
    <3> HIDE DEF S, Type, pick, next
    <3> QED BY <1>5 DEF IsFold
  <2> HIDE DEF S, Type
  <2> QED BY <1>6, <2>1, <2>2
<1>8. Fold(iter)
  BY <1>7
<1>9. Inserted(G, ws) = iter[S]
  BY <1>1 DEF Inserted, FoldLeft, MapThenFoldSet
<1>10. /\ iter[{}] = G
       /\ \A s \in SUBSET S : s # {} =>
            iter[s] = insert_edge_by_type(iter[s \ {Max(s)}], ws[Max(s)])
  <2> HIDE DEF iter, S
  <2> QED BY <1>8
<1> DEFINE f == [k \in 0..n |-> iter[1..k]]
<1>11. \A k \in 1..n : /\ 1..k \in SUBSET S /\ 1..k # {} /\ Max(1..k) = k
                       /\ (1..k) \ {k} = 1..(k - 1)
  <2> SUFFICES ASSUME NEW k \in 1..n
               PROVE  /\ 1..k \in SUBSET S /\ 1..k # {} /\ Max(1..k) = k
                      /\ (1..k) \ {k} = 1..(k - 1)
    OBVIOUS
  <2>1. 1..k \in SUBSET S /\ 1..k # {} /\ (1..k) \ {k} = 1..(k - 1)
    BY <1>1
  <2>2. Max(1..k) \in 1..k /\ \A x \in 1..k : x <= Max(1..k)
    <3> DEFINE T == 1..k
    <3>1. T \in SUBSET Nat /\ T # {} /\ IsFiniteSet(T)
      BY <1>1, <2>1, FS_Subset
    <3> HIDE DEF T
    <3>2. Max(T) \in T /\ \A x \in T : x <= Max(T)
      BY <3>1, GreatestNatural
    <3> QED BY <3>2 DEF T
  <2>3. Max(1..k) = k
    BY <1>1, <2>2
  <2> QED BY <2>1, <2>3
<1>12. \A k \in 1..n : iter[1..k] = insert_edge_by_type(iter[1..(k - 1)], ws[k])
  <2> SUFFICES ASSUME NEW k \in 1..n
               PROVE  iter[1..k] = insert_edge_by_type(iter[1..(k - 1)], ws[k])
    OBVIOUS
  <2> HIDE DEF iter, S
  <2>1. iter[1..k] = insert_edge_by_type(iter[(1..k) \ {Max(1..k)}], ws[Max(1..k)])
    BY <1>10, <1>11
  <2> QED BY <1>11, <2>1
<1>13. f[0] = G /\ \A k \in 1..n : f[k] = insert_edge_by_type(f[k - 1], ws[k])
  <2> HIDE DEF iter
  <2>1. f[0] = iter[1..0] /\ 1..0 = {}
    BY <1>1
  <2>2. \A k \in 1..n : f[k] = iter[1..k] /\ f[k - 1] = iter[1..(k - 1)]
    BY <1>1
  <2> HIDE DEF f, S
  <2> QED BY <1>10, <1>12, <2>1, <2>2
<1>14. \A k \in 0..n : f[k] \in Type
  <2> HIDE DEF f
  <2> DEFINE Bad == {k \in 0..n : f[k] \notin Type}
  <2> SUFFICES ASSUME Bad # {} PROVE FALSE
    OBVIOUS
  <2> DEFINE m == Min(Bad)
  <2>1. m \in Bad /\ \A k \in Bad : m <= k
    <3>1. Bad \in SUBSET Nat
      BY <1>1
    <3> HIDE DEF Bad
    <3> QED BY <3>1, LeastNatural
  <2> HIDE DEF m, Type, n
  <2>2. m \in 0..n /\ f[m] \notin Type /\ \A k \in 0..n : k < m => f[k] \in Type
    BY <1>1, <2>1
  <2>3. m # 0
    BY <1>4, <1>13, <2>2
  <2>4. m \in 1..n /\ m - 1 \in 0..n /\ m - 1 < m
    BY <1>1, <2>2, <2>3
  <2>5. f[m] = insert_edge_by_type(f[m - 1], ws[m]) /\ ws[m] \in Write
    BY <1>1, <1>13, <2>4
  <2>6. f[m - 1] \in Graphs(o)
    BY <2>2, <2>4 DEF Type
  <2>7. f[m] \in Graphs(o)
    BY <2>5, <2>6, InsertType
  <2> QED BY <2>2, <2>7 DEF Type
<1>15. f \in [0..n -> Type] /\ f[n] = iter[S]
  <2>1. f = [k \in 0..n |-> f[k]]
    <3> HIDE DEF iter
    <3> QED OBVIOUS
  <2>2. f[n] = iter[S]
    <3> HIDE DEF iter
    <3> QED BY <1>1
  <2> HIDE DEF f, Type
  <2> QED BY <1>14, <2>1, <2>2
<1> HIDE DEF f, iter
<1>16. InsertedBy(f, G, ws)
  BY <1>9, <1>13, <1>15 DEF InsertedBy
<1> QED BY <1>15, <1>16

\* The first k elements of a list.
Beginning(s, k) == [i \in 1..k |-> s[i]]

\* One element more is appended.
LEMMA BeginningGrows ==
  ASSUME NEW S, NEW s \in Seq(S), NEW k \in 1..Len(s)
  PROVE  /\ Beginning(s, k - 1) \in Seq(S) /\ s[k] \in S
         /\ Beginning(s, k) = Append(Beginning(s, k - 1), s[k])
<1>1. /\ Len(s) \in Nat /\ k \in Nat /\ k - 1 \in Nat /\ (k - 1) + 1 = k /\ k <= Len(s)
  OBVIOUS
<1>2. \A i \in 1..Len(s) : s[i] \in S
  BY ElementOfSeq
<1>3. \A i \in 1..(k - 1) : i \in 1..Len(s)
  BY <1>1
<1> DEFINE t == Beginning(s, k - 1)
<1>4. t \in [1..(k - 1) -> S]
  BY <1>2, <1>3 DEF Beginning
<1>5. t \in Seq(S) /\ Len(t) = k - 1 /\ \A i \in 1..(k - 1) : t[i] = s[i]
  <2>1. \A i \in 1..(k - 1) : t[i] = s[i]
    BY DEF Beginning
  <2> HIDE DEF t
  <2> QED BY <1>1, <1>4, <2>1
<1> HIDE DEF t
<1>6. Append(t, s[k]) = [i \in 1..k |-> IF i = k THEN s[k] ELSE t[i]]
  <2>1. Append(t, s[k]) = [i \in 1..((k - 1) + 1) |-> IF i = (k - 1) + 1 THEN s[k] ELSE t[i]]
    BY <1>5
  <2> QED BY <1>1, <2>1
<1>7. \A i \in 1..k : (IF i = k THEN s[k] ELSE t[i]) = s[i]
  <2>1. \A i \in 1..k : i # k => i \in 1..(k - 1)
    BY <1>1
  <2> QED BY <1>5, <2>1
<1>8. Append(t, s[k]) = Beginning(s, k)
  BY <1>6, <1>7 DEF Beginning
<1> QED BY <1>2, <1>5, <1>8 DEF t

\* What a list of insertions makes of a graph.
LEMMA InsertAll ==
  ASSUME NEW o, NEW G \in Graphs(o), NEW ws \in Seq(Write),
         NEW p, NEW W \in Seq(Write), G.edge_props = WithProps(p, PropRows(W))
  PROVE  LET H == Inserted(G, ws)
         IN  /\ H = [vertices |-> G.vertices,
                     edge_props |-> WithProps(p, PropRows(W \o ws)),
                     adjacency |-> H.adjacency]
             /\ H.adjacency \in Adjacencies
             /\ EdgesIn(H.adjacency) = EdgesIn(G.adjacency) \cup {w.key : w \in ToSet(ws)}
<1>0. ToSet(ws) = {ws[i] : i \in 1..Len(ws)}
  BY ToSetIs, Zenon
<1> DEFINE n == Len(ws)
           m == Len(W)
           c == W \o ws
           A == EdgesIn(G.adjacency)
           keys(k) == {ws[i].key : i \in 1..k}
<1>1. PICK f \in [0..n -> Graphs(o)] :
        /\ f[0] = G
        /\ \A k \in 1..n : f[k] = insert_edge_by_type(f[k - 1], ws[k])
        /\ Inserted(G, ws) = f[n]
  <2>1. \E f \in [0..Len(ws) -> Graphs(o)] : InsertedBy(f, G, ws)
    BY InsertRounds
  <2> QED BY <2>1 DEF InsertedBy
<1>2. /\ n \in Nat /\ m \in Nat /\ c \in Seq(Write) /\ Len(c) = m + n
      /\ \A i \in 1..(m + n) : c[i] = IF i <= m THEN W[i] ELSE ws[i - m]
      /\ \A i \in 1..n : ws[i] \in Write
      /\ ToSet(ws) = {ws[i] : i \in 1..n}
  <2>1. n \in Nat /\ m \in Nat
    OBVIOUS
  <2>2. /\ c \in Seq(Write) /\ Len(c) = m + n
        /\ \A i \in 1..(m + n) : c[i] = IF i <= m THEN W[i] ELSE ws[i - m]
    BY ConcatProperties
  <2> QED BY <2>1, <2>2, ElementOfSeq, ToSetIs
<1>3. Beginning(c, m) = W /\ Beginning(c, m + n) = c
  <2>1. W = [i \in 1..m |-> W[i]]
    OBVIOUS
  <2> HIDE DEF c
  <2>2. c = [i \in 1..(m + n) |-> c[i]]
    BY <1>2
  <2>3. \A i \in 1..m : c[i] = W[i]
    BY <1>2
  <2> QED BY <2>1, <2>2, <2>3 DEF Beginning
<1> HIDE DEF c, m, n
<1>4. \A k \in 1..n : m + k \in 1..Len(c) /\ (m + k) - 1 = m + (k - 1) /\ c[m + k] = ws[k]
  <2> SUFFICES ASSUME NEW k \in 1..n
               PROVE  m + k \in 1..Len(c) /\ (m + k) - 1 = m + (k - 1) /\ c[m + k] = ws[k]
    OBVIOUS
  <2>1. m + k \in 1..(m + n) /\ ~(m + k <= m) /\ (m + k) - m = k
    BY <1>2
  <2> QED BY <1>2, <2>1
<1> DEFINE Good(k) == /\ f[k].edge_props = WithProps(p, PropRows(Beginning(c, m + k)))
                      /\ EdgesIn(f[k].adjacency) = A \cup keys(k)
                      /\ f[k].vertices = G.vertices
<1>5. Good(0)
  <2>1. m + 0 = m /\ keys(0) = {}
    BY <1>2
  <2> HIDE DEF keys
  <2> QED BY <1>1, <1>3, <2>1
<1>6. ASSUME NEW k \in 1..n, Good(k - 1) PROVE Good(k)
  <2> DEFINE F == f[k - 1]
             H == f[k]
             w == ws[k]
  <2>1. /\ k - 1 \in 0..n /\ F \in Graphs(o) /\ w \in Write
        /\ H = insert_edge_by_type(F, w)
    <3>1. k - 1 \in 0..n
      BY <1>2
    <3> QED BY <1>1, <1>2, <3>1
  <2>2. /\ F.edge_props = WithProps(p, PropRows(Beginning(c, m + (k - 1))))
        /\ EdgesIn(F.adjacency) = A \cup keys(k - 1)
        /\ F.vertices = G.vertices
    BY <1>6
  <2> HIDE DEF F, H, w
  <2>3. /\ F.adjacency \in Adjacencies
        /\ F = [vertices |-> F.vertices, edge_props |-> F.edge_props, adjacency |-> F.adjacency]
    BY <2>1 DEF Graphs
  <2>4. /\ H = [vertices |-> F.vertices,
                edge_props |-> WithProps(F.edge_props, PropRows(<<w>>)),
                adjacency |-> H.adjacency]
        /\ EdgesIn(H.adjacency) = EdgesIn(F.adjacency) \cup {w.key}
    BY <2>1, <2>3, InsertEffect
  <2>5. H.edge_props = WithProps(F.edge_props, PropRows(<<w>>)) /\ H.vertices = F.vertices
    BY <2>4
  <2>6. /\ Beginning(c, m + (k - 1)) \in Seq(Write)
        /\ Beginning(c, m + k) = Append(Beginning(c, m + (k - 1)), w)
    <3> DEFINE j == m + k
    <3>1. j \in 1..Len(c) /\ j - 1 = m + (k - 1) /\ c[j] = w
      BY <1>4 DEF w
    <3> HIDE DEF j
    <3>2. /\ Beginning(c, j - 1) \in Seq(Write)
          /\ Beginning(c, j) = Append(Beginning(c, j - 1), c[j])
      BY <1>2, <3>1, BeginningGrows
    <3> QED BY <3>1, <3>2 DEF j
  <2> DEFINE s == Beginning(c, m + (k - 1))
  <2>7. /\ PropRows(s) \in Seq(Write) /\ PropRows(<<w>>) \in Seq(Write)
        /\ PropRows(Append(s, w)) = PropRows(s) \o PropRows(<<w>>)
    <3>1. s \in Seq(Write)
      BY <2>6
    <3> HIDE DEF s
    <3> QED BY <2>1, <3>1, RowsAppend
  <2>8. WithProps(WithProps(p, PropRows(s)), PropRows(<<w>>))
          = WithProps(p, PropRows(s) \o PropRows(<<w>>))
    <3> HIDE DEF s
    <3> QED BY <2>7, WithPropsConcat
  <2>9. H.edge_props = WithProps(p, PropRows(Beginning(c, m + k)))
    BY <2>2, <2>5, <2>6, <2>7, <2>8
  <2>10. keys(k) = keys(k - 1) \cup {w.key}
    <3>1. \A i \in 1..k : i \in 1..(k - 1) \/ i = k
      BY <1>2
    <3>2. \A i \in 1..(k - 1) : i \in 1..k
      BY <1>2
    <3>3. k \in 1..k
      BY <1>2
    <3> QED BY <3>1, <3>2, <3>3 DEF w
  <2> HIDE DEF keys
  <2>11. EdgesIn(H.adjacency) = A \cup keys(k)
    BY <2>2, <2>4, <2>10
  <2> QED BY <2>2, <2>5, <2>9, <2>11 DEF H
<1>7. Good(n)
  <2> HIDE DEF Good
  <2> DEFINE Bad == {k \in 0..n : ~Good(k)}
  <2>1. Bad = {}
    <3> SUFFICES ASSUME Bad # {} PROVE FALSE
      OBVIOUS
    <3> DEFINE b == Min(Bad)
    <3>1. Bad \in SUBSET Nat
      BY <1>2
    <3>2. b \in Bad /\ \A k \in Bad : b <= k
      <4> HIDE DEF Bad
      <4> QED BY <3>1, LeastNatural
    <3> HIDE DEF b
    <3>3. b \in 0..n /\ ~Good(b)
      BY <3>2
    <3>4. b # 0
      BY <1>5, <3>3
    <3>5. b \in 1..n /\ b - 1 \in 0..n /\ ~(b <= b - 1)
      BY <1>2, <3>3, <3>4
    <3>6. Good(b - 1)
      BY <3>2, <3>5
    <3> QED BY <1>6, <3>3, <3>5, <3>6
  <2>2. n \in 0..n
    BY <1>2
  <2> QED BY <2>1, <2>2
<1> DEFINE H == f[n]
<1>8. H \in Graphs(o)
  <2>1. n \in 0..n
    BY <1>2
  <2> QED BY <1>1, <2>1
<1>9. /\ H.edge_props = WithProps(p, PropRows(c))
      /\ EdgesIn(H.adjacency) = A \cup keys(n)
      /\ H.vertices = G.vertices
  BY <1>3, <1>7
<1>10. keys(n) = {w.key : w \in ToSet(ws)}
  <2>1. ToSet(ws) = {ws[i] : i \in 1..n}
    BY <1>0 DEF n
  <2> QED BY <2>1
<1> HIDE DEF H, keys, A
<1>11. /\ H.adjacency \in Adjacencies
       /\ H = [vertices |-> H.vertices, edge_props |-> H.edge_props, adjacency |-> H.adjacency]
  BY <1>8 DEF Graphs
<1>12. Inserted(G, ws) = H
  BY <1>1 DEF H
<1> QED BY <1>9, <1>10, <1>11, <1>12 DEF A, c


\* What an update writes, and the vertex it adds.
UpdateWritten == [u \in HttpUpdates |-> import_update(u)]
VertexAdded == [u \in HttpUpdates |-> AddedVertex(u)]

\* Updates that clients may send are lines of a stream.
LEMMA HttpTypes ==
  /\ \A u \in HttpUpdates : /\ import_update(u) \in Seq(Write)
                            /\ AddedVertex(u) \in Seq(Int)
                            /\ run_dgs_http_update(u) = import_update(u)
<1> SUFFICES ASSUME NEW u \in HttpUpdates
             PROVE  /\ import_update(u) \in Seq(Write)
                    /\ AddedVertex(u) \in Seq(Int)
                    /\ run_dgs_http_update(u) = import_update(u)
  OBVIOUS
<1>1. u \in Updates(Nat)
  BY UpdatesAssumption
<1>2. u \in StreamUpdate
  <2>1. Seq(Nat) \subseteq Seq(Nat \cup {NoId})
    BY DEF NoId
  <2> QED BY <1>1, <2>1 DEF Updates, StreamUpdate
<1> QED BY <1>1, <1>2, HttpLikeStream, UpdateWrites, AddedVertexType DEF Writes

\* One update more: what all of them write, and the vertices they add.
LEMMA OneUpdate ==
  ASSUME NEW us \in Seq(HttpUpdates), NEW u \in HttpUpdates
  PROVE  /\ ForEach(us, import_update) \in Seq(Write)
         /\ ForEach(Append(us, u), import_update)
              = ForEach(us, import_update) \o import_update(u)
         /\ ForEach(us, AddedVertex) \in Seq(Int)
         /\ ForEach(Append(us, u), AddedVertex) = ForEach(us, AddedVertex) \o AddedVertex(u)
<1>1. UpdateWritten \in [HttpUpdates -> Seq(Write)] /\ VertexAdded \in [HttpUpdates -> Seq(Int)]
  BY HttpTypes DEF UpdateWritten, VertexAdded
<1>2. \A t \in Seq(HttpUpdates) : /\ ForEach(t, import_update) = Each(UpdateWritten, t)
                                  /\ ForEach(t, AddedVertex) = Each(VertexAdded, t)
  <2> SUFFICES ASSUME NEW t \in Seq(HttpUpdates)
               PROVE  /\ ForEach(t, import_update) = Each(UpdateWritten, t)
                      /\ ForEach(t, AddedVertex) = Each(VertexAdded, t)
    OBVIOUS
  <2>1. DOMAIN t = 1..Len(t) /\ \A i \in 1..Len(t) : t[i] \in HttpUpdates
    BY ElementOfSeq
  <2>2. [i \in DOMAIN t |-> UpdateWritten[t[i]]] = [i \in DOMAIN t |-> import_update(t[i])]
    BY <2>1 DEF UpdateWritten
  <2>3. [i \in DOMAIN t |-> VertexAdded[t[i]]] = [i \in DOMAIN t |-> AddedVertex(t[i])]
    BY <2>1 DEF VertexAdded
  <2> QED BY <2>2, <2>3 DEF ForEach, Each
<1>3. Append(us, u) \in Seq(HttpUpdates)
  OBVIOUS
<1>4. OneMore(Write, UpdateWritten, us, u)
  BY <1>1, EachAppend
<1>5. OneMore(Int, VertexAdded, us, u)
  BY <1>1, EachAppend
<1>6. UpdateWritten[u] = import_update(u) /\ VertexAdded[u] = AddedVertex(u)
  BY DEF UpdateWritten, VertexAdded
<1> QED BY <1>2, <1>3, <1>4, <1>5, <1>6 DEF OneMore

-----------------------------------------------------------------------------
(* The graph of a server.                                                  *)

\* The cache has lists without repetition, finitely many.
Listing(A) == A \in Adjacencies /\ IsFiniteSet(DOMAIN A)

\* What is built is such a cache, whatever records there are.
LEMMA BuildListing ==
  ASSUME NEW R \in SUBSET SnbRecord, IsFiniteSet(R)
  PROVE  Listing(build(R))
<1> DEFINE A == build(R)
<1>1. /\ DOMAIN A = {GroupOf(e.key) : e \in Newest(R)}
      /\ A = [g \in DOMAIN A |-> A[g]]
  <2>1. A = [g \in {GroupOf(e.key) : e \in Newest(R)} |->
               [i \in DOMAIN Neighborhood(R, g) |-> Neighborhood(R, g)[i].key.dst]]
    BY BuildIs
  <2> HIDE DEF A
  <2> QED BY <2>1
<1>2. Newest(R) \in SUBSET R /\ IsFiniteSet(Newest(R))
  <2>1. Newest(R) \in SUBSET R
    BY DEF Newest
  <2> QED BY <2>1, FS_Subset
<1>3. IsFiniteSet(DOMAIN A)
  <2> DEFINE f == [e \in Newest(R) |-> GroupOf(e.key)]
  <2>1. DOMAIN A = {f[e] : e \in Newest(R)}
    BY <1>1
  <2> HIDE DEF f, A
  <2> QED BY <1>2, <2>1, ImageFinite
<1>4. DOMAIN A \in SUBSET (Int \X Int)
  <2>1. \A e \in Newest(R) : GroupOf(e.key) \in Int \X Int
    BY <1>2 DEF GroupOf, SnbRecord, SnbKey
  <2> HIDE DEF A
  <2> QED BY <1>1, <2>1
<1>5. ASSUME NEW g \in DOMAIN A PROVE A[g] \in Seq(Int) /\ NoTwice(A[g])
  <2> DEFINE s == Neighborhood(R, g)
             S == InGroup(R, g)
  <2>1. /\ Len(s) \in Nat /\ NoTwice(s)
        /\ \A e, f \in S : e.key.dst = f.key.dst => e = f
    BY NeighborhoodSorted
  <2>2. /\ Len(A[g]) = Len(s)
        /\ A[g] = [i \in 1..Len(s) |-> s[i].key.dst]
        /\ \A i \in 1..Len(s) : s[i] \in S
    BY BuildGroup
  <2>3. S \in SUBSET SnbRecord
    BY DEF InGroup, Newest
  <2> HIDE DEF A, s, S
  <2>4. \A i \in 1..Len(s) : s[i].key.dst \in Int
    BY <2>2, <2>3 DEF SnbRecord, SnbKey
  <2>5. A[g] \in Seq(Int)
    BY <2>1, <2>2, <2>4
  <2>6. NoTwice(A[g])
    BY <2>1, <2>2 DEF NoTwice
  <2> QED BY <2>5, <2>6
<1> HIDE DEF A
<1>6. A \in Adjacencies
  BY <1>1, <1>4, <1>5, AdjacencyIs
<1> QED BY <1>3, <1>6 DEF Listing, A

\* A cache that is loaded has finitely many edges.
LEMMA LoadedListing ==
  ASSUME NEW A, Listing(A), NEW T \in Nat
  PROVE  from_adjacency(A, T) \in SUBSET SnbRecord /\ IsFiniteSet(from_adjacency(A, T))
<1> DEFINE P == from_adjacency(A, T)
           at(g, i) == Record(KeyAt(A, g, i), IF T >= i - 1 THEN T - (i - 1) ELSE 0)
           row(g) == {at(g, i) : i \in DOMAIN A[g]}
<1>1. P = UNION {row(g) : g \in DOMAIN A}
  BY DEF from_adjacency, KeyAt
<1>2. /\ IsFiniteSet(DOMAIN A) /\ DOMAIN A \in SUBSET (Int \X Int)
      /\ \A g \in DOMAIN A : A[g] \in Seq(Int)
  BY AdjacencyIs DEF Listing
<1>3. \A g \in DOMAIN A : /\ Len(A[g]) \in Nat /\ DOMAIN A[g] = 1..Len(A[g])
                          /\ \A i \in 1..Len(A[g]) : A[g][i] \in Int
  BY <1>2, ElementOfSeq
<1>4. ASSUME NEW g \in DOMAIN A, NEW i \in 1..Len(A[g])
      PROVE  at(g, i) \in SnbRecord
  <2>1. KeyAt(A, g, i) \in SnbKey
    BY <1>2, <1>3 DEF KeyAt, Key, SnbKey
  <2>2. (IF T >= i - 1 THEN T - (i - 1) ELSE 0) \in Nat
    BY <1>3
  <2> QED BY <2>1, <2>2 DEF Record, SnbRecord
<1>5. \A g \in DOMAIN A : IsFiniteSet(row(g))
  <2> SUFFICES ASSUME NEW g \in DOMAIN A PROVE IsFiniteSet(row(g))
    OBVIOUS
  <2> DEFINE f == [i \in 1..Len(A[g]) |-> at(g, i)]
  <2>1. row(g) = {f[i] : i \in 1..Len(A[g])}
    BY <1>3
  <2>2. IsFiniteSet(1..Len(A[g]))
    BY <1>3, FS_Interval
  <2> HIDE DEF f, row
  <2> QED BY <2>1, <2>2, ImageFinite
<1>6. IsFiniteSet(P)
  <2> DEFINE F == [g \in DOMAIN A |-> row(g)]
             Rows == {F[g] : g \in DOMAIN A}
  <2>1. IsFiniteSet(Rows)
    <3> HIDE DEF F
    <3> QED BY <1>2, ImageFinite
  <2>2. \A Q \in Rows : IsFiniteSet(Q)
    BY <1>5
  <2>3. P = UNION Rows
    BY <1>1
  <2> HIDE DEF Rows, P
  <2> QED BY <2>1, <2>2, <2>3, FS_UNION
<1>7. P \in SUBSET SnbRecord
  <2>1. \A g \in DOMAIN A : row(g) \in SUBSET SnbRecord
    <3> HIDE DEF at
    <3> QED BY <1>3, <1>4
  <2> HIDE DEF row, P
  <2> QED BY <1>1, <2>1
<1> QED BY <1>6, <1>7


\* A map from keys to values.
IsMap(f) == f = [x \in DOMAIN f |-> f[x]]

\* The files that a server is opened with, and what makes the cache.
FilesInv ==
  /\ Listing(cache.groups)
  /\ builder \in SUBSET SnbRecord /\ IsFiniteSet(builder)
  /\ DOMAIN prop_file = {"state", "rows"} /\ IsMap(prop_file.rows)

\* A server has the graph it was opened with, and what it was sent since.
Serves(G, O, us) ==
  /\ O \in Graphs(O) /\ us \in Seq(HttpUpdates)
  /\ G = [vertices |-> O.vertices \cup ToSet(ForEach(us, AddedVertex)),
          edge_props |-> WithProps(O.edge_props, PropRows(ForEach(us, import_update))),
          adjacency |-> G.adjacency]
  /\ G.adjacency \in Adjacencies
  /\ EdgesIn(G.adjacency) =
       EdgesIn(O.adjacency) \cup {w.key : w \in ToSet(ForEach(us, import_update))}

\* This is so as long as it runs.
ServedInv == running = "server" => Serves(served, history.opened, history.applied)

\* The inductive invariant: the cache, the files and the server.
GraphInv == AdjacencyInv /\ FilesInv /\ ServedInv

\* A graph that is opened.
LEMMA OpenedServes ==
  ASSUME NEW O, O = [vertices |-> O.vertices, edge_props |-> O.edge_props,
                     adjacency |-> O.adjacency],
         IsMap(O.edge_props), O.adjacency \in Adjacencies
  PROVE  Serves(O, O, <<>>)
<1>1. ForEach(<<>>, AddedVertex) = <<>> /\ ForEach(<<>>, import_update) = <<>>
  <2>1. /\ [i \in DOMAIN <<>> |-> AddedVertex(<<>>[i])] = <<>>
        /\ [i \in DOMAIN <<>> |-> import_update(<<>>[i])] = <<>>
    OBVIOUS
  <2> QED BY <2>1 DEF ForEach, FlattenSeq
<1>2. PropRows(<<>>) = <<>>
  <2>1. [i \in DOMAIN <<>> |-> IF <<>>[i].prop = EmptyProp THEN <<>> ELSE <<<<>>[i]>>] = <<>>
    OBVIOUS
  <2> QED BY <2>1 DEF PropRows, ForEach, FlattenSeq
<1>3. WithProps(O.edge_props, <<>>) = O.edge_props
  BY WithPropsNone DEF IsMap
<1>4. ToSet(<<>>) = {} /\ <<>> \in Seq(HttpUpdates)
  BY DEF ToSet
<1>5. O.edge_props \in Props(O.edge_props)
  <2> DEFINE p == O.edge_props
             D == DOMAIN p
             P == {p[k] : k \in D} \cup SUBSET Int
  <2>1. p = [k \in D |-> p[k]]
    BY DEF IsMap
  <2>2. \A k \in D : p[k] \in P
    OBVIOUS
  <2> HIDE DEF P
  <2>3. p \in [D -> P]
    <3> HIDE DEF p, D
    <3> QED BY <2>1, <2>2
  <2>4. D \in SUBSET (D \cup SnbKey)
    OBVIOUS
  <2> HIDE DEF p, D
  <2>5. p \in UNION {[E -> P] : E \in SUBSET (D \cup SnbKey)}
    BY <2>3, <2>4
  <2> QED BY <2>5 DEF Props, P, D, p
<1>6. O \in Graphs(O)
  BY <1>5 DEF Graphs
<1>7. O = [vertices |-> O.vertices \cup {}, edge_props |-> O.edge_props,
           adjacency |-> O.adjacency]
  OBVIOUS
<1>8. EdgesIn(O.adjacency) = EdgesIn(O.adjacency) \cup {w.key : w \in {}}
  OBVIOUS
<1> QED BY <1>1, <1>2, <1>3, <1>4, <1>6, <1>7, <1>8 DEF Serves

\* A request more.
LEMMA UpdatedServes ==
  ASSUME NEW G, NEW O, NEW us, Serves(G, O, us), NEW u \in HttpUpdates
  PROVE  Serves(Updated(G, u), O, Append(us, u))
<1> DEFINE W == ForEach(us, import_update)
           V == ForEach(us, AddedVertex)
           ws == import_update(u)
           vs == AddedVertex(u)
           B == [G EXCEPT !.vertices = @ \cup ToSet(vs)]
           H == Updated(G, u)
           o == [vertices |-> G.vertices \cup ToSet(vs), edge_props |-> O.edge_props]
<1>1. /\ O \in Graphs(O) /\ us \in Seq(HttpUpdates)
      /\ G = [vertices |-> O.vertices \cup ToSet(V),
              edge_props |-> WithProps(O.edge_props, PropRows(W)),
              adjacency |-> G.adjacency]
      /\ G.adjacency \in Adjacencies
      /\ EdgesIn(G.adjacency) = EdgesIn(O.adjacency) \cup {w.key : w \in ToSet(W)}
  BY DEF Serves
<1>2. ws \in Seq(Write) /\ vs \in Seq(Int) /\ run_dgs_http_update(u) = ws
  BY HttpTypes
<1>3. /\ W \in Seq(Write) /\ V \in Seq(Int)
      /\ ForEach(Append(us, u), import_update) = W \o ws
      /\ ForEach(Append(us, u), AddedVertex) = V \o vs
  BY <1>1, OneUpdate
<1> HIDE DEF W, V, ws, vs
<1>4. /\ ToSet(W \o ws) = ToSet(W) \cup ToSet(ws)
      /\ ToSet(V \o vs) = ToSet(V) \cup ToSet(vs)
  BY <1>2, <1>3, Concatenation
<1>5. /\ G.vertices = O.vertices \cup ToSet(V)
      /\ G.edge_props = WithProps(O.edge_props, PropRows(W))
  BY <1>1
<1>6. B = [vertices |-> G.vertices \cup ToSet(vs),
           edge_props |-> WithProps(O.edge_props, PropRows(W)),
           adjacency |-> G.adjacency]
  <2> DEFINE p == WithProps(O.edge_props, PropRows(W))
             X == O.vertices \cup ToSet(V)
             Y == ToSet(vs)
  <2>1. G = [vertices |-> X, edge_props |-> p, adjacency |-> G.adjacency]
    BY <1>1
  <2> HIDE DEF p, X, Y
  <2>2. [G EXCEPT !.vertices = @ \cup Y]
          = [vertices |-> X \cup Y, edge_props |-> p, adjacency |-> G.adjacency]
    BY <2>1
  <2> QED BY <1>5, <2>2 DEF p, X, Y
<1>7. WithProps(O.edge_props, PropRows(W)) \in Props(O.edge_props)
  <2>1. PropRows(W) \in Seq(Write)
    <3>1. \E w : w \in Write
      <4>1. [key |-> [src |-> 0, edge_type |-> 0, dst |-> 0], prop |-> {}] \in Write
        BY DEF Write, SnbKey
      <4> QED BY <4>1
    <3> QED BY <1>3, <3>1, RowsAppend
  <2>2. O.edge_props \in Props(O.edge_props)
    BY <1>1 DEF Graphs
  <2> QED BY <2>1, <2>2, PropsClosed
<1>8. B \in Graphs(o)
  <2>1. o.vertices = G.vertices \cup ToSet(vs) /\ o.edge_props = O.edge_props
    OBVIOUS
  <2> HIDE DEF o, B
  <2> QED BY <1>1, <1>6, <1>7, <2>1 DEF Graphs
<1>9. /\ B.vertices = G.vertices \cup ToSet(vs) /\ B.adjacency = G.adjacency
      /\ B.edge_props = WithProps(O.edge_props, PropRows(W))
  BY <1>6
<1>10. H = Inserted(B, ws)
  BY <1>2 DEF Updated, Inserted, vs
<1> HIDE DEF B, H, o
<1>11. /\ H = [vertices |-> B.vertices,
               edge_props |-> WithProps(O.edge_props, PropRows(W \o ws)),
               adjacency |-> H.adjacency]
       /\ H.adjacency \in Adjacencies
       /\ EdgesIn(H.adjacency) = EdgesIn(B.adjacency) \cup {w.key : w \in ToSet(ws)}
  <2> DEFINE p == O.edge_props
  <2>1. B.edge_props = WithProps(p, PropRows(W))
    BY <1>9
  <2> HIDE DEF p
  <2>2. LET J == Inserted(B, ws)
        IN  /\ J = [vertices |-> B.vertices,
                    edge_props |-> WithProps(p, PropRows(W \o ws)),
                    adjacency |-> J.adjacency]
            /\ J.adjacency \in Adjacencies
            /\ EdgesIn(J.adjacency) = EdgesIn(B.adjacency) \cup {w.key : w \in ToSet(ws)}
    BY <1>2, <1>3, <1>8, <2>1, InsertAll
  <2> QED BY <1>10, <2>2 DEF p
<1>12. B.vertices = O.vertices \cup ToSet(V \o vs)
  BY <1>4, <1>5, <1>9
<1>13. EdgesIn(H.adjacency) = EdgesIn(O.adjacency) \cup {w.key : w \in ToSet(W \o ws)}
  BY <1>1, <1>4, <1>9, <1>11
<1>14. Append(us, u) \in Seq(HttpUpdates)
  BY <1>1
<1> QED BY <1>1, <1>3, <1>11, <1>12, <1>13, <1>14 DEF Serves, H

\* Without an edge the cache is one, too.
LEMMA EmptyListing == Listing(<<>>)
<1>1. /\ DOMAIN <<>> = {} /\ <<>> = [g \in {} |-> 0] /\ IsFiniteSet({})
  BY FS_EmptySet
<1>2. <<>> = [g \in DOMAIN <<>> |-> <<>>[g]]
  OBVIOUS
<1> QED BY <1>1, <1>2, AdjacencyIs DEF Listing

\* Properties are a map, whatever rows there are.
LEMMA WithPropsMap == \A p, rows : IsMap(WithProps(p, rows))
<1> SUFFICES ASSUME NEW p, NEW rows PROVE IsMap(WithProps(p, rows))
  OBVIOUS
<1> DEFINE q == WithProps(p, rows)
<1>1. \E D : \E f : q = [k \in D |-> IF At(rows, k) = {} THEN p[k]
                                     ELSE rows[Max(At(rows, k))].prop]
  BY WithPropsIs
<1> HIDE DEF q
<1>2. PICK D : q = [k \in D |-> IF At(rows, k) = {} THEN p[k]
                                ELSE rows[Max(At(rows, k))].prop]
  BY <1>1
<1>3. DOMAIN q = D
  BY <1>2
<1>4. q = [k \in DOMAIN q |-> q[k]]
  BY <1>2, <1>3
<1> QED BY <1>4 DEF IsMap, q

\* Nothing is served at first.
LEMMA GraphStart == Init => GraphInv
<1> SUFFICES ASSUME Init PROVE GraphInv
  OBVIOUS
<1>1. AdjacencyInv
  BY AdjacencyStart
<1>2. FilesInv
  BY EmptyListing, FS_EmptySet DEF Init, FilesInv, IsMap
<1>3. ServedInv
  BY DEF Init, ServedInv
<1> QED BY <1>1, <1>2, <1>3 DEF GraphInv

\* A scan of the engine makes a cache.
LEMMA ScanListing == ASSUME EngineInv PROVE Listing(build(scan_edges))
<1>1. edges \in SUBSET SnbRecord /\ IsFiniteSet(edges)
  BY DEF EngineInv
<1>2. build(scan_edges) = build(edges)
  BY FreshCache
<1> QED BY <1>1, <1>2, BuildListing

\* The next state of what FilesInv is about.
LEMMA FilesHold ==
  ASSUME Listing(cache'.groups),
         builder' \in SUBSET SnbRecord, IsFiniteSet(builder'),
         DOMAIN prop_file' = {"state", "rows"}, IsMap(prop_file'.rows)
  PROVE  FilesInv'
BY DEF FilesInv, Listing, IsMap

\* The commands that are begun, and the kill.
LEMMA BeginFiles ==
  ASSUME GraphInv, BeginImport \/ BeginUpdates
  PROVE  FilesInv' /\ ServedInv'
<1>1. running' # "server"
  BY DEF BeginImport, BeginUpdates, Starting
<1>0. ServedInv'
  BY <1>1 DEF ServedInv
<1>2. CASE BeginImport
  <2>1. /\ cache' = [exists |-> FALSE, groups |-> <<>>] /\ builder' = {}
        /\ prop_file' = [state |-> "whole", rows |-> <<>>]
    BY <1>2 DEF BeginImport
  <2>2. IsMap(<<>>)
    BY DEF IsMap
  <2>3. /\ cache'.groups = <<>> /\ prop_file'.rows = <<>>
        /\ DOMAIN prop_file' = {"state", "rows"}
        /\ builder' \in SUBSET SnbRecord /\ IsFiniteSet(builder')
    BY <2>1, FS_EmptySet
  <2> QED BY <2>2, <2>3, EmptyListing, <1>0, FilesHold
<1>3. CASE BeginUpdates
  <2>1. /\ Listing(cache.groups) /\ DOMAIN prop_file = {"state", "rows"}
        /\ IsMap(prop_file.rows) /\ timestamp \in Nat
    BY DEF GraphInv, FilesInv, AdjacencyInv, EngineInv
  <2>2. cache' = cache /\ prop_file' = Appending(prop_file)
        /\ builder' = IF cache.exists THEN from_adjacency(cache.groups, timestamp) ELSE {}
    BY <1>3 DEF BeginUpdates
  <2>3. DOMAIN prop_file' = {"state", "rows"} /\ prop_file'.rows = prop_file.rows
    BY <2>1, <2>2 DEF Appending
  <2>4. builder' \in SUBSET SnbRecord /\ IsFiniteSet(builder')
    BY <2>1, <2>2, LoadedListing, FS_EmptySet
  <2> QED BY <2>1, <2>2, <2>3, <2>4, <1>0, FilesHold
<1> QED BY <1>2, <1>3

\* A kill leaves the cache, and the rows that were passed on.
LEMMA CrashFiles == ASSUME GraphInv, Crash PROVE FilesInv' /\ ServedInv'
<1>1. /\ Listing(cache.groups) /\ DOMAIN prop_file = {"state", "rows"}
      /\ IsMap(prop_file.rows)
  BY DEF GraphInv, FilesInv
<1>2. running' # "server" /\ cache' = cache /\ builder' = {}
  BY DEF Crash
<1>3. PICK n, torn : prop_file' = Spilled(prop_file,
                       WithProps(prop_file.rows, SubSeq(prop_buf, 1, n)), torn)
  BY DEF Crash
<1> DEFINE p == WithProps(prop_file.rows, SubSeq(prop_buf, 1, n))
<1>4. IsMap(p)
  BY WithPropsMap
<1> HIDE DEF p
<1>5. prop_file' = Spilled(prop_file, p, torn)
  BY <1>3 DEF p
<1>6. DOMAIN prop_file' = {"state", "rows"} /\ prop_file'.rows = p
  BY <1>1, <1>5 DEF Spilled
<1> QED BY <1>1, <1>2, <1>4, <1>6, FS_EmptySet DEF FilesInv, ServedInv

\* The steps of a command.
LEMMA StepFiles ==
  ASSUME GraphInv,
         WriteVertex \/ InsertEdge \/ FlushVertices \/ FlushProps \/ FlushActive \/ WriteCache
  PROVE  FilesInv' /\ ServedInv'
<1>1. /\ Listing(cache.groups) /\ DOMAIN prop_file = {"state", "rows"}
      /\ IsMap(prop_file.rows)
      /\ builder \in SUBSET SnbRecord /\ IsFiniteSet(builder)
  BY DEF GraphInv, FilesInv
<1>2. running' # "server"
  BY DEF WriteVertex, InsertEdge, FlushVertices, FlushProps, FlushActive, WriteCache, Doing
<1>0. ServedInv'
  BY <1>2 DEF ServedInv
<1>3. CASE WriteVertex \/ FlushVertices \/ FlushActive
  <2>1. UNCHANGED <<prop_file, cache, builder>>
    BY <1>3 DEF WriteVertex, FlushVertices, FlushActive, fileVars, bufVars
  <2> QED BY <1>1, <2>1, <1>0, FilesHold
<1>4. CASE InsertEdge
  <2> DEFINE r == Record(Head(todo).key, timestamp')
  <2>1. UNCHANGED <<prop_file, cache>> /\ r \in edges' /\ builder' = builder \cup {r}
    BY <1>4 DEF InsertEdge, fileVars
  <2>2. EngineInv'
    BY <1>4, InsertStep DEF GraphInv, AdjacencyInv
  <2>3. r \in SnbRecord
    BY <2>1, <2>2 DEF EngineInv
  <2> HIDE DEF r
  <2>4. builder' \in SUBSET SnbRecord /\ IsFiniteSet(builder')
    BY <1>1, <2>1, <2>3, FS_AddElement
  <2> QED BY <1>1, <2>1, <2>4, <1>0, FilesHold
<1>5. CASE FlushProps
  <2> DEFINE p == WithProps(prop_file.rows, prop_buf)
  <2>1. IsMap(p)
    BY WithPropsMap
  <2>2. UNCHANGED <<cache, builder>> /\ prop_file' = [prop_file EXCEPT !.rows = p]
    BY <1>5 DEF FlushProps
  <2> HIDE DEF p
  <2>3. DOMAIN prop_file' = {"state", "rows"} /\ prop_file'.rows = p
    BY <1>1, <2>2
  <2> QED BY <1>1, <2>1, <2>2, <2>3, <1>0, FilesHold
<1>6. CASE WriteCache
  <2>1. /\ prop_file' = prop_file /\ builder' = {}
        /\ cache' = [exists |-> TRUE, groups |-> build(builder)]
    BY <1>6 DEF WriteCache
  <2>2. Listing(cache'.groups)
    BY <1>1, <2>1, BuildListing
  <2>3. builder' \in SUBSET SnbRecord /\ IsFiniteSet(builder')
    BY <2>1, FS_EmptySet
  <2> QED BY <1>1, <2>1, <2>2, <2>3, <1>0, FilesHold
<1> QED BY <1>3, <1>4, <1>5, <1>6

\* snb-cache and snb-props.
LEMMA ToolFiles ==
  ASSUME GraphInv, BuildAdjacencyCache \/ RebuildEdgeProps
  PROVE  FilesInv' /\ ServedInv'
<1>1. /\ Listing(cache.groups) /\ DOMAIN prop_file = {"state", "rows"}
      /\ IsMap(prop_file.rows)
      /\ builder \in SUBSET SnbRecord /\ IsFiniteSet(builder)
  BY DEF GraphInv, FilesInv
<1>2. running' # "server" /\ builder' = builder
  BY DEF BuildAdjacencyCache, RebuildEdgeProps, Starting, bufVars
<1>0. ServedInv'
  BY <1>2 DEF ServedInv
<1>3. CASE BuildAdjacencyCache
  <2>1. /\ prop_file' = prop_file
        /\ cache' = [exists |-> TRUE, groups |-> build(scan_edges)]
    BY <1>3 DEF BuildAdjacencyCache
  <2>2. Listing(cache'.groups)
    BY <2>1, ScanListing DEF GraphInv, AdjacencyInv
  <2> QED BY <1>1, <1>2, <2>1, <2>2, <1>0, FilesHold
<1>4. CASE RebuildEdgeProps
  <2> DEFINE p == WithProps(<<>>, PropRows(rebuild_snb_edge_props(Csv)))
  <2>1. IsMap(p)
    BY WithPropsMap
  <2>2. cache' = cache /\ prop_file' = [state |-> "whole", rows |-> p]
    BY <1>4 DEF RebuildEdgeProps
  <2> HIDE DEF p
  <2>3. DOMAIN prop_file' = {"state", "rows"} /\ prop_file'.rows = p
    BY <2>2
  <2> QED BY <1>1, <1>2, <2>1, <2>2, <2>3, <1>0, FilesHold
<1> QED BY <1>3, <1>4

\* The server has what it opens with.
LEMMA OpenFiles == ASSUME GraphInv, OpenServer PROVE FilesInv' /\ ServedInv'
<1>1. /\ Listing(cache.groups) /\ DOMAIN prop_file = {"state", "rows"}
      /\ IsMap(prop_file.rows)
      /\ builder \in SUBSET SnbRecord /\ IsFiniteSet(builder)
      /\ DOMAIN history = HistoryFields
  BY DEF GraphInv, FilesInv, AdjacencyInv, EngineInv, HistoryFields
<1> DEFINE h == IF cache.exists THEN [history EXCEPT !.commands = @ + 1] ELSE Scanned
<1>2. /\ prop_file' = prop_file /\ builder' = builder
      /\ cache' = IF cache.exists THEN cache
                  ELSE [exists |-> TRUE, groups |-> build(scan_edges)]
      /\ served' = [vertices |-> vertex_file.rows, edge_props |-> prop_file.rows,
                    adjacency |-> cache'.groups]
      /\ history' = [h EXCEPT !.opened = served', !.applied = <<>>]
  BY DEF OpenServer, bufVars
<1>3. DOMAIN h = HistoryFields
  BY <1>1 DEF Scanned, HistoryFields
<1> HIDE DEF h
<1>4. history'.opened = served' /\ history'.applied = <<>>
  BY <1>2, <1>3 DEF HistoryFields
<1>5. Listing(cache'.groups)
  <2>1. CASE cache.exists
    BY <1>1, <1>2, <2>1
  <2>2. CASE ~cache.exists
    <3>1. cache'.groups = build(scan_edges)
      BY <1>2, <2>2
    <3> QED BY <3>1, ScanListing DEF GraphInv, AdjacencyInv
  <2> QED BY <2>1, <2>2
<1>6. FilesInv'
  BY <1>1, <1>2, <1>5 DEF FilesInv
<1> DEFINE O == served'
<1>7. /\ O = [vertices |-> O.vertices, edge_props |-> O.edge_props, adjacency |-> O.adjacency]
      /\ O.edge_props = prop_file.rows /\ O.adjacency = cache'.groups
  BY <1>2
<1> HIDE DEF O
<1>8. Serves(O, O, <<>>)
  BY <1>1, <1>5, <1>7, OpenedServes DEF Listing
<1> QED BY <1>4, <1>6, <1>8 DEF ServedInv, O

\* The server answers, and stops.
LEMMA ServerFiles ==
  ASSUME GraphInv, HttpUpdate \/ StopServer
  PROVE  FilesInv' /\ ServedInv'
<1>1. UNCHANGED <<prop_file, cache, builder>>
  BY DEF HttpUpdate, StopServer, fileVars, bufVars
<1>2. FilesInv'
  BY <1>1 DEF GraphInv, FilesInv
<1>3. DOMAIN history = HistoryFields
  BY DEF GraphInv, AdjacencyInv, EngineInv, HistoryFields
<1>4. CASE HttpUpdate
  <2>1. PICK u \in HttpUpdates :
          /\ served' = Updated(served, u)
          /\ history' = [history EXCEPT !.applied = Append(@, u)]
    BY <1>4 DEF HttpUpdate
  <2>2. /\ history'.opened = history.opened
        /\ history'.applied = Append(history.applied, u)
    BY <1>3, <2>1 DEF HistoryFields
  <2>3. Serves(served, history.opened, history.applied)
    BY <1>4 DEF HttpUpdate, GraphInv, ServedInv
  <2>4. Serves(Updated(served, u), history.opened, Append(history.applied, u))
    BY <2>3, UpdatedServes
  <2> QED BY <1>2, <2>1, <2>2, <2>4 DEF ServedInv
<1>5. CASE StopServer
  BY <1>2, <1>5 DEF StopServer, ServedInv
<1> QED BY <1>4, <1>5

\* Every step keeps the invariant.
LEMMA GraphStep == GraphInv /\ [Next]_vars => GraphInv'
<1> SUFFICES ASSUME GraphInv, [Next]_vars PROVE GraphInv'
  OBVIOUS
<1>1. AdjacencyInv'
  BY AdjacencyStep DEF GraphInv
<1>2. CASE UNCHANGED vars
  <2>1. UNCHANGED <<cache, builder, prop_file, running, served, history>>
    BY <1>2 DEF vars, fileVars, bufVars
  <2>2. FilesInv' /\ ServedInv'
    BY <2>1 DEF GraphInv, FilesInv, ServedInv
  <2> QED BY <1>1, <2>2 DEF GraphInv
<1>3. CASE Next
  <2>1. FilesInv' /\ ServedInv'
    BY <1>3, BeginFiles, CrashFiles, StepFiles, ToolFiles, OpenFiles, ServerFiles DEF Next
  <2> QED BY <1>1, <2>1 DEF GraphInv
<1> QED BY <1>2, <1>3

\* What a server holds, at every moment (Updated under the write lock of the
\* HTTP adapter): the graph it was opened with, and what it was sent since.
THEOREM GraphInvariant == Spec => []GraphInv
BY GraphStart, GraphStep, PTL DEF Spec

\* Updates over HTTP (run_dgs_http_update, insert_edge_by_type) have the effect
\* of an update stream with the same updates: the same edges, properties and
\* vertices, and no neighbor twice, for every list of updates of the eight kinds
\* and whatever store the server was opened on.
THEOREM ServedCorrect == Spec => []ServedLikeStream
<1>1. GraphInv => ServedLikeStream
  <2> SUFFICES ASSUME GraphInv, running = "server" PROVE ServedLikeStream
    BY DEF ServedLikeStream
  <2>1. Serves(served, history.opened, history.applied)
    BY DEF GraphInv, ServedInv
  <2>2. \A g \in DOMAIN served.adjacency : IsInjective(served.adjacency[g])
    <3> SUFFICES ASSUME NEW g \in DOMAIN served.adjacency
                 PROVE  IsInjective(served.adjacency[g])
      OBVIOUS
    <3>1. served.adjacency[g] \in Seq(Int) /\ NoTwice(served.adjacency[g])
      BY <2>1, AdjacencyIs DEF Serves
    <3> QED BY <3>1 DEF NoTwice, IsInjective
  <2>3. /\ served.vertices = history.opened.vertices
                               \cup ToSet(ForEach(history.applied, AddedVertex))
        /\ served.edge_props = WithProps(history.opened.edge_props,
                                         PropRows(ForEach(history.applied, import_update)))
    BY <2>1 DEF Serves
  <2>4. EdgesIn(served.adjacency) =
          EdgesIn(history.opened.adjacency)
            \cup {w.key : w \in ToSet(ForEach(history.applied, import_update))}
    BY <2>1 DEF Serves
  <2> QED BY <2>2, <2>3, <2>4 DEF ServedLikeStream
<1> QED BY GraphInvariant, <1>1, PTL

-----------------------------------------------------------------------------
(* The inductive invariant of a usable cache.                              *)

\* What the first n steps of a command loaded has reached the files or is in
\* the buffers, and what was loaded before a flush is in the files.
LoadedTo(C, n) ==
  /\ \A i \in 1..n : C[i].op = "vertex" =>
       /\ C[i].vid \in vertex_file.rows \cup ToSet(vertex_buf)
       /\ \A j \in i..n : C[j].op = "flush_vertices" => C[i].vid \in vertex_file.rows
  /\ \A i \in 1..n : C[i].op = "edge" /\ C[i].prop # EmptyProp =>
       /\ C[i].key \in DOMAIN prop_file.rows \cup KeysOf(prop_buf)
       /\ \A j \in i..n : C[j].op = "flush_props" => C[i].key \in DOMAIN prop_file.rows

\* A command that is under way has loaded what it has done.
Loading(C) == \E n \in 0..(Len(C) - 1) : todo = Rest(C, n) /\ LoadedTo(C, n)

\* The engine has the edges that the running import has inserted.
Imported ==
  \E n \in 0..(Len(import_snb_full) - 1) :
    todo = Rest(import_snb_full, n) /\ {e.key : e \in edges} = Done(import_snb_full, n)

\* A running import or update.
LoadInv ==
  /\ running = "import" => Loading(import_snb_full) /\ Imported
  /\ running = "updates" => Loading(import_snb_updates)

\* The form of the files and the buffers, and what a complete store is.
FormInv ==
  /\ DOMAIN vertex_file = {"state", "rows"} /\ DOMAIN prop_file = {"state", "rows"}
  /\ vertex_buf \in Seq(Int)
  /\ prop_buf \in Seq([op : {"edge"}, key : SnbKey, prop : SUBSET Int])
  /\ history.complete => history.pedigree = "whole" /\ ~history.behind
  /\ history.pedigree = "whole" => cache.exists

\* A whole cache has the edges of the import, or those of the streams too,
\* and the files beside it have what it refers to.
WholeInv ==
  history.pedigree = "whole" =>
    /\ EdgesIn(cache.groups) \in {ImportKeys, ImportKeys \cup StreamKeys}
    /\ LoadedVertices(import_snb_full) \subseteq vertex_file.rows
    /\ \/ EdgesIn(cache.groups) = ImportKeys
       \/ LoadedVertices(import_snb_updates) \subseteq vertex_file.rows
    /\ \A k \in EdgesIn(cache.groups) : HasProp(k) =>
         k \in DOMAIN prop_file.rows \/ (history.cut /\ k \notin ImportKeys)

\* The inductive invariant: that of the adjacency cache, and what is known of
\* the files.
UsableInv == AdjacencyInv /\ LoadInv /\ FormInv /\ WholeInv

-----------------------------------------------------------------------------
(* What a command writes, and when it flushes it.                          *)

\* The steps of commands.
AnyStep ==
  LoadStep \cup {Step("flush_vertices"), Step("flush_props"), Step("flush_active"),
                 Step("write_cache")}

\* Steps that write every edge with its twin, and its property.
Whole(S) ==
  \A x \in S : x.op = "edge" =>
    /\ HasProp(x.key) => x.prop # EmptyProp
    /\ \E y \in S : y.op = "edge" /\ y.key = Twin(x.key)

\* The edges of steps.
EdgesOf(S) == {x.key : x \in {y \in S : y.op = "edge"}}

\* Before its last step a command flushes what it loads.
Flushes(C) ==
  \A i \in 1..Len(C) :
    /\ C[i].op = "vertex" => \E j \in i..(Len(C) - 1) : C[j].op = "flush_vertices"
    /\ C[i].op = "edge" => \E j \in i..(Len(C) - 1) : C[j].op = "flush_props"

\* The steps for a list of writes have its edges.
LEMMA WritesWhole ==
  ASSUME NEW ws, Writes(ws)
  PROVE  LET S == ToSet(Steps(ws, EdgeStep))
         IN  Whole(S) /\ EdgesOf(S) = {w.key : w \in ToSet(ws)}
<1> DEFINE S == ToSet(Steps(ws, EdgeStep))
<1>1. ws \in Seq(Write) /\ DOMAIN ws = 1..Len(ws)
  BY DEF Writes
<1>2. ToSet(ws) = {ws[i] : i \in 1..Len(ws)}
  BY <1>1, ToSetIs
<1>3. S = {EdgeStep(w) : w \in ToSet(ws)}
  <2>1. S = {EdgeStep(ws[i]) : i \in 1..Len(ws)}
    BY <1>1 DEF ToSet, Steps
  <2> QED BY <1>2, <2>1
<1>4. \A w : EdgeStep(w).op = "edge" /\ EdgeStep(w).key = w.key /\ EdgeStep(w).prop = w.prop
  BY DEF EdgeStep
<1> HIDE DEF S
<1>5. Whole(S)
  <2> SUFFICES ASSUME NEW w \in ToSet(ws)
               PROVE  /\ HasProp(w.key) => w.prop # EmptyProp
                      /\ \E y \in S : y.op = "edge" /\ y.key = Twin(w.key)
    BY <1>3, <1>4 DEF Whole
  <2>1. PICK v \in ToSet(ws) : v.key = Twin(w.key)
    BY DEF Writes
  <2>2. HasProp(w.key) => w.prop # EmptyProp
    BY DEF Writes, EmptyProp
  <2>3. EdgeStep(v) \in S
    BY <1>3
  <2> QED BY <1>4, <2>1, <2>2, <2>3
<1>6. EdgesOf(S) = {w.key : w \in ToSet(ws)}
  BY <1>3, <1>4 DEF EdgesOf
<1> QED BY <1>5, <1>6 DEF S

\* Vertices and flushes have none.
LEMMA VerticesWhole ==
  ASSUME NEW q \in Seq(Int)
  PROVE  LET S == ToSet(Steps(q, VertexStep))
         IN  /\ Whole(S) /\ EdgesOf(S) = {}
             /\ S = {VertexStep(v) : v \in ToSet(q)}
<1> DEFINE S == ToSet(Steps(q, VertexStep))
<1>1. DOMAIN q = 1..Len(q)
  OBVIOUS
<1>2. ToSet(q) = {q[i] : i \in 1..Len(q)}
  BY ToSetIs
<1>3. S = {VertexStep(v) : v \in ToSet(q)}
  <2>1. S = {VertexStep(q[i]) : i \in 1..Len(q)}
    BY <1>1 DEF ToSet, Steps
  <2> QED BY <1>2, <2>1
<1>4. \A v : VertexStep(v).op # "edge"
  BY DEF VertexStep
<1> HIDE DEF S
<1> QED BY <1>3, <1>4 DEF Whole, EdgesOf, S

\* Steps put together.
LEMMA WholeUnion ==
  ASSUME NEW A, NEW B, Whole(A), Whole(B)
  PROVE  Whole(A \cup B) /\ EdgesOf(A \cup B) = EdgesOf(A) \cup EdgesOf(B)
<1>1. Whole(A \cup B)
  BY DEF Whole
<1>2. EdgesOf(A \cup B) = EdgesOf(A) \cup EdgesOf(B)
  BY DEF EdgesOf
<1> QED BY <1>1, <1>2

\* The steps that do not load.
LEMMA QuietWhole ==
  ASSUME NEW S, \A x \in S : x.op # "edge"
  PROVE  Whole(S) /\ EdgesOf(S) = {}
BY DEF Whole, EdgesOf

\* All edges of a command.
LEMMA AllDone ==
  ASSUME NEW C \in Seq(AnyStep)
  PROVE  /\ Done(C, Len(C)) = EdgesOf(ToSet(C)) /\ LoadedKeys(C) = EdgesOf(ToSet(C))
         /\ ToSet(C) = {C[i] : i \in 1..Len(C)}
<1>1. ToSet(C) = {C[i] : i \in 1..Len(C)}
  BY ToSetIs
<1>2. LoadedKeys(C) = EdgesOf(ToSet(C))
  BY DEF LoadedKeys, EdgesOf
<1> QED BY <1>1, <1>2 DEF Done, EdgesOf

\* The streams write every edge with its twin.
LEMMA StreamWhole == Whole(ToSet(import_update_stream))
<1> DEFINE of(u) == Steps(AddedVertex(u), VertexStep) \o Steps(import_update(u), EdgeStep)
           n == Len(Stream)
           q == [i \in 1..n |-> of(Stream[i])]
<1>1. DOMAIN Stream = 1..n /\ n \in Nat
  BY UpdatesAssumption
<1>2. \A i \in 1..n : Stream[i] \in StreamUpdate
  <2>1. Stream \in Seq(StreamUpdate)
    BY UpdatesAssumption DEF StreamUpdate
  <2> QED BY <2>1, ElementOfSeq
<1>3. \A u \in StreamUpdate : of(u) \in Seq(LoadStep) /\ Whole(ToSet(of(u)))
  <2> SUFFICES ASSUME NEW u \in StreamUpdate
               PROVE  of(u) \in Seq(LoadStep) /\ Whole(ToSet(of(u)))
    OBVIOUS
  <2>1. Writes(import_update(u)) /\ import_update(u) \in Seq(Write)
    BY UpdateWrites DEF Writes
  <2> DEFINE s == Steps(AddedVertex(u), VertexStep)
             t == Steps(import_update(u), EdgeStep)
  <2>2. s \in Seq(LoadStep) /\ t \in Seq(LoadStep)
    BY <2>1, AddedVertexType, VertexSteps, EdgeSteps
  <2>3. Whole(ToSet(s)) /\ Whole(ToSet(t))
    BY <2>1, AddedVertexType, VerticesWhole, WritesWhole
  <2> HIDE DEF s, t
  <2>4. s \o t \in Seq(LoadStep) /\ ToSet(s \o t) = ToSet(s) \cup ToSet(t)
    BY <2>2, Concatenation
  <2>5. Whole(ToSet(s) \cup ToSet(t))
    BY <2>3, WholeUnion, Zenon
  <2>6. Whole(ToSet(s \o t))
    BY <2>4, <2>5, Zenon
  <2> QED BY <2>4, <2>6 DEF s, t
<1>4. import_update_stream = FlattenSeq(q)
  BY <1>1 DEF import_update_stream, ForEach
<1> HIDE DEF of, n
<1>5. q \in Seq(Seq(LoadStep)) /\ Len(q) = n /\ \A i \in 1..n : Whole(ToSet(q[i]))
  BY <1>1, <1>2, <1>3
<1> HIDE DEF q
<1>6. ToSet(FlattenSeq(q)) = Elements(q)
  BY <1>5, Flattened
<1>7. Whole(Elements(q))
  <2> SUFFICES ASSUME NEW x \in Elements(q), x.op = "edge"
               PROVE  /\ HasProp(x.key) => x.prop # EmptyProp
                      /\ \E y \in Elements(q) : y.op = "edge" /\ y.key = Twin(x.key)
    BY DEF Whole
  <2>1. PICK i \in 1..n : x \in ToSet(q[i])
    BY <1>5 DEF Elements
  <2>2. ToSet(q[i]) \subseteq Elements(q)
    BY <1>5, <2>1 DEF Elements
  <2>3. Whole(ToSet(q[i]))
    BY <1>5
  <2> QED BY <2>1, <2>2, <2>3 DEF Whole
<1> QED BY <1>4, <1>6, <1>7

\* What a command is, for the files: its steps, its edges, its flushes.
Loads(C, edge_keys) ==
  /\ C \in Seq(AnyStep) /\ Flushes(C)
  /\ Whole(ToSet(C))
  /\ Done(C, Len(C)) = edge_keys

\* Lists put one behind the other.
LEMMA Joined ==
  ASSUME NEW S, NEW s \in Seq(S), NEW t \in Seq(S)
  PROVE  /\ s \o t \in Seq(S) /\ ToSet(s \o t) = ToSet(s) \cup ToSet(t)
         /\ Len(s \o t) = Len(s) + Len(t)
         /\ \A i \in 1..(Len(s) + Len(t)) :
              (s \o t)[i] = IF i <= Len(s) THEN s[i] ELSE t[i - Len(s)]
<1>1. s \o t \in Seq(S) /\ ToSet(s \o t) = ToSet(s) \cup ToSet(t)
  BY Concatenation
<1> QED BY <1>1, ConcatProperties

\* An update loads the streams.
LEMMA UpdatesLoads == Loads(import_snb_updates, StreamKeys)
<1> DEFINE C == import_snb_updates
           s == import_update_stream
           t == <<Step("flush_vertices"), Step("flush_props"), Step("flush_active"),
                  Step("write_cache")>>
           m == Len(s)
<1>1. s \in Seq(LoadStep) /\ s \in Seq(AnyStep) /\ m \in Nat
  BY StreamType DEF AnyStep
<1>2. t \in Seq(AnyStep) /\ Len(t) = 4
  <2>1. {Step("flush_vertices"), Step("flush_props"), Step("flush_active"),
         Step("write_cache")} \subseteq AnyStep
    BY DEF AnyStep
  <2> HIDE DEF AnyStep
  <2> QED BY <2>1
<1>3. C = s \o t
  BY DEF import_snb_updates
<1>4. /\ t[1].op = "flush_vertices" /\ t[2].op = "flush_props"
      /\ t[3].op = "flush_active" /\ t[4].op = "write_cache"
  BY DEF Step
<1>5. /\ C \in Seq(AnyStep) /\ ToSet(C) = ToSet(s) \cup ToSet(t)
  <2> HIDE DEF C, s, t
  <2> QED BY <1>1, <1>2, <1>3, Concatenation
<1>6. Len(C) = m + 4 /\ \A i \in 1..(m + 4) : C[i] = IF i <= m THEN s[i] ELSE t[i - m]
  <2> HIDE DEF C, s, t, AnyStep
  <2>1. Len(C) = Len(s) + Len(t) /\ \A i \in 1..(Len(s) + Len(t)) : C[i] = IF i <= Len(s) THEN s[i] ELSE t[i - Len(s)]
    BY <1>1, <1>2, <1>3, ConcatProperties
  <2> QED BY <1>2, <2>1
<1>7. \A x \in ToSet(t) : x.op # "edge"
  <2>1. ToSet(t) = {t[i] : i \in 1..4}
    <3> HIDE DEF t, AnyStep
    <3> QED BY <1>2, ToSetIs
  <2> QED BY <1>4, <2>1
<1>8. Whole(ToSet(C))
  <2>1. Whole(ToSet(s)) /\ Whole(ToSet(t))
    BY <1>7, StreamWhole, QuietWhole
  <2> HIDE DEF C, s, t
  <2>2. Whole(ToSet(s) \cup ToSet(t))
    BY <2>1, WholeUnion, Zenon
  <2> QED BY <1>5, <2>2, Zenon
<1>9. Flushes(C)
  <2> HIDE DEF C, s, t, AnyStep
  <2>1. C[m + 1].op = "flush_vertices" /\ C[m + 2].op = "flush_props"
    <3>1. m + 1 \in 1..(m + 4) /\ m + 2 \in 1..(m + 4) /\ ~(m + 1 <= m) /\ ~(m + 2 <= m)
          /\ (m + 1) - m = 1 /\ (m + 2) - m = 2
      BY <1>1
    <3>2. C[m + 1] = t[1] /\ C[m + 2] = t[2]
      BY <1>6, <3>1
    <3> QED BY <1>4, <3>2
  <2>2. ASSUME NEW i \in 1..Len(C), C[i].op \in {"vertex", "edge"}
        PROVE  i <= m
    <3> SUFFICES ASSUME ~(i <= m) PROVE FALSE
      OBVIOUS
    <3>1. i - m \in 1..4 /\ C[i] = t[i - m]
      BY <1>1, <1>6
    <3>2. i - m = 1 \/ i - m = 2 \/ i - m = 3 \/ i - m = 4
      BY <3>1
    <3> QED BY <1>4, <2>2, <3>1, <3>2
  <2>3. ASSUME NEW i \in 1..Len(C), C[i].op \in {"vertex", "edge"}
        PROVE  m + 1 \in i..(Len(C) - 1) /\ m + 2 \in i..(Len(C) - 1)
    <3>1. i <= m /\ i \in Int
      BY <2>2, <2>3
    <3> QED BY <1>1, <1>6, <3>1
  <2> QED BY <2>1, <2>3 DEF Flushes
<1> QED BY <1>5, <1>8, <1>9 DEF Loads, StreamKeys

\* An import loads the CSV files.
LEMMA ImportLoads == Loads(import_snb_full, ImportKeys)
<1> DEFINE C == import_snb_full
           vs == import_vertices(Csv)
           ws == import_edges(Csv)
           a == Steps(vs, VertexStep)
           b == <<Step("flush_vertices")>>
           c == Steps(ws, EdgeStep)
           d == <<Step("flush_props"), Step("flush_active"), Step("write_cache")>>
           m == Len(a)
           n == Len(c)
           A == ToSet(a)
           B == ToSet(b)
           D == ToSet(d)
           E == ToSet(c)
<1>1. vs \in Seq(Int) /\ Writes(ws) /\ ws \in Seq(Write)
  BY ImportWrites, VertexRows DEF Writes
<1>2. a \in Seq(LoadStep) /\ c \in Seq(LoadStep)
  BY <1>1, VertexSteps, EdgeSteps
<1>3. a \in Seq(AnyStep) /\ c \in Seq(AnyStep) /\ m \in Nat /\ n \in Nat
  <2> HIDE DEF a, c
  <2> QED BY <1>2 DEF AnyStep
<1>4. b \in Seq(AnyStep) /\ d \in Seq(AnyStep) /\ Len(b) = 1 /\ Len(d) = 3
  <2>1. {Step("flush_vertices"), Step("flush_props"), Step("flush_active"),
         Step("write_cache")} \subseteq AnyStep
    BY DEF AnyStep
  <2> HIDE DEF AnyStep
  <2> QED BY <2>1
<1>5. C = ((a \o b) \o c) \o d
  BY DEF import_snb_full
<1>6. /\ b[1].op = "flush_vertices" /\ d[1].op = "flush_props"
      /\ d[2].op = "flush_active" /\ d[3].op = "write_cache"
  BY DEF Step
<1>7. /\ \A i \in 1..m : a[i].op = "vertex"
      /\ \A i \in 1..n : c[i].op = "edge"
  <2>1. DOMAIN vs = 1..Len(vs) /\ DOMAIN ws = 1..Len(ws)
    BY <1>1
  <2>2. DOMAIN a = 1..m /\ DOMAIN c = 1..n
    <3> HIDE DEF a, c, AnyStep
    <3> QED BY <1>3
  <2>3. DOMAIN a = DOMAIN vs /\ DOMAIN c = DOMAIN ws
    BY DEF Steps
  <2>4. \A i \in DOMAIN vs : a[i] = VertexStep(vs[i])
    BY DEF Steps
  <2>5. \A i \in DOMAIN ws : c[i] = EdgeStep(ws[i])
    BY DEF Steps
  <2>6. \A x : VertexStep(x).op = "vertex" /\ EdgeStep(x).op = "edge"
    BY DEF VertexStep, EdgeStep
  <2> HIDE DEF a, c, m, n, vs, ws
  <2>7. \A i \in 1..m : a[i].op = "vertex"
    BY <2>2, <2>3, <2>4, <2>6
  <2>8. \A i \in 1..n : c[i].op = "edge"
    BY <2>2, <2>3, <2>5, <2>6
  <2> QED BY <2>7, <2>8
<1>8. /\ \A x \in B : x.op # "edge"
      /\ \A x \in D : x.op # "edge"
  <2>1. B = {b[i] : i \in 1..1} /\ D = {d[i] : i \in 1..3}
    <3> HIDE DEF b, d, AnyStep
    <3> QED BY <1>4, ToSetIs
  <2> QED BY <1>6, <2>1
<1>9. /\ Whole(A) /\ EdgesOf(A) = {} /\ A = {VertexStep(v) : v \in ToSet(vs)}
      /\ Whole(E) /\ EdgesOf(E) = {w.key : w \in ToSet(ws)}
      /\ Whole(B) /\ EdgesOf(B) = {} /\ Whole(D) /\ EdgesOf(D) = {}
  BY <1>1, <1>8, VerticesWhole, WritesWhole, QuietWhole
<1> HIDE DEF a, b, c, d, A, B, D, E, vs, ws
<1>10. /\ a \o b \in Seq(AnyStep) /\ ToSet(a \o b) = A \cup B
       /\ Len(a \o b) = m + 1
       /\ \A i \in 1..(m + 1) : (a \o b)[i] = IF i <= m THEN a[i] ELSE b[i - m]
  <2>1. /\ a \o b \in Seq(AnyStep) /\ ToSet(a \o b) = ToSet(a) \cup ToSet(b)
        /\ Len(a \o b) = Len(a) + Len(b)
        /\ \A i \in 1..(Len(a) + Len(b)) :
             (a \o b)[i] = IF i <= Len(a) THEN a[i] ELSE b[i - Len(a)]
    BY <1>3, <1>4, Joined
  <2> QED BY <1>4, <2>1 DEF A, B
<1> DEFINE f == a \o b
<1> HIDE DEF f
<1>17. f \in Seq(AnyStep) /\ ToSet(f) = A \cup B /\ Len(f) = m + 1
  BY <1>10 DEF f
<1>11. /\ f \o c \in Seq(AnyStep) /\ ToSet(f \o c) = (A \cup B) \cup E
       /\ Len(f \o c) = m + 1 + n
       /\ \A i \in 1..(m + 1 + n) : (f \o c)[i] = IF i <= m + 1 THEN f[i] ELSE c[i - (m + 1)]
  <2>1. /\ f \o c \in Seq(AnyStep) /\ ToSet(f \o c) = ToSet(f) \cup ToSet(c)
        /\ Len(f \o c) = Len(f) + Len(c)
        /\ \A i \in 1..(Len(f) + Len(c)) :
             (f \o c)[i] = IF i <= Len(f) THEN f[i] ELSE c[i - Len(f)]
    BY <1>3, <1>17, Joined
  <2> QED BY <1>17, <2>1 DEF E
<1> DEFINE g == f \o c
<1> HIDE DEF g
<1>18. g \in Seq(AnyStep) /\ ToSet(g) = (A \cup B) \cup E /\ Len(g) = m + 1 + n
  BY <1>11 DEF g
<1>19. C = g \o d /\ m + 1 + n = m + n + 1 /\ (m + n + 1) + 3 = m + n + 4
  BY <1>3, <1>5 DEF f, g
<1> HIDE DEF m, n
<1>12. /\ C \in Seq(AnyStep) /\ ToSet(C) = ((A \cup B) \cup E) \cup D
       /\ Len(C) = m + n + 4
       /\ \A i \in 1..(m + n + 4) : C[i] = IF i <= m + n + 1 THEN g[i] ELSE d[i - (m + n + 1)]
  <2>1. /\ g \o d \in Seq(AnyStep) /\ ToSet(g \o d) = ToSet(g) \cup ToSet(d)
        /\ Len(g \o d) = Len(g) + Len(d)
        /\ \A i \in 1..(Len(g) + Len(d)) :
             (g \o d)[i] = IF i <= Len(g) THEN g[i] ELSE d[i - Len(g)]
    BY <1>4, <1>18, Joined
  <2> HIDE DEF C
  <2> QED BY <1>4, <1>18, <1>19, <2>1 DEF D
<1> HIDE DEF C
<1>13. Whole(ToSet(C)) /\ EdgesOf(ToSet(C)) = {w.key : w \in ToSet(ws)}
  <2> DEFINE K == {w.key : w \in ToSet(ws)}
  <2> HIDE DEF K
  <2>1. Whole(A \cup B) /\ EdgesOf(A \cup B) = EdgesOf(A) \cup EdgesOf(B)
    BY <1>9, WholeUnion, Zenon
  <2>2. /\ Whole((A \cup B) \cup E)
        /\ EdgesOf((A \cup B) \cup E) = EdgesOf(A \cup B) \cup EdgesOf(E)
    BY <1>9, <2>1, WholeUnion, Zenon
  <2>3. /\ Whole(((A \cup B) \cup E) \cup D)
        /\ EdgesOf(((A \cup B) \cup E) \cup D) = EdgesOf((A \cup B) \cup E) \cup EdgesOf(D)
    BY <1>9, <2>2, WholeUnion, Zenon
  <2>4. EdgesOf(((A \cup B) \cup E) \cup D) = EdgesOf(E)
    BY <1>9, <2>1, <2>2, <2>3
  <2>5. EdgesOf(E) = K
    BY <1>9 DEF K
  <2>6. Whole(ToSet(C)) /\ EdgesOf(ToSet(C)) = K
    BY <1>12, <2>3, <2>4, <2>5, Zenon
  <2> QED BY <2>6 DEF K
<1>14. Done(C, Len(C)) = ImportKeys
  BY <1>12, <1>13, AllDone DEF ImportKeys, ws
<1>16. Flushes(C)
  <2>1. m \in Nat /\ n \in Nat
    BY <1>3
  <2>2. C[m + 1].op = "flush_vertices"
    <3>1. m + 1 \in 1..(m + n + 4) /\ m + 1 <= m + n + 1
      BY <2>1
    <3>2. C[m + 1] = g[m + 1]
      BY <1>12, <3>1
    <3>3. m + 1 \in 1..(m + 1 + n) /\ m + 1 <= m + 1 /\ m + 1 \in 1..(m + 1) /\ ~(m + 1 <= m)
          /\ (m + 1) - m = 1
      BY <2>1
    <3>4. g[m + 1] = f[m + 1]
      BY <1>11, <3>3 DEF g
    <3>5. f[m + 1] = b[1]
      BY <1>10, <3>3 DEF f
    <3> QED BY <1>6, <3>2, <3>4, <3>5
  <2>3. C[m + n + 2].op = "flush_props"
    <3>1. m + n + 2 \in 1..(m + n + 4) /\ ~(m + n + 2 <= m + n + 1)
          /\ (m + n + 2) - (m + n + 1) = 1
      BY <2>1
    <3>2. C[m + n + 2] = d[1]
      BY <1>12, <3>1
    <3> QED BY <1>6, <3>2
  <2>4. ASSUME NEW i \in 1..Len(C), C[i].op \in {"vertex", "edge"}
        PROVE  i \in 1..(m + n + 1)
    <3> SUFFICES ASSUME ~(i <= m + n + 1) PROVE FALSE
      BY <1>12
    <3> DEFINE j == i - (m + n + 1)
    <3>1. j \in 1..3 /\ C[i] = d[j]
      BY <2>1, <1>12
    <3> HIDE DEF j
    <3>2. j = 1 \/ j = 2 \/ j = 3
      BY <3>1
    <3> QED BY <1>6, <2>4, <3>1, <3>2
  <2>5. ASSUME NEW i \in 1..Len(C), C[i].op = "vertex"
        PROVE  i <= m + 1
    <3> SUFFICES ASSUME ~(i <= m + 1) PROVE FALSE
      BY <2>1
    <3>1. i \in 1..(m + n + 1)
      BY <2>4, <2>5
    <3>2. C[i] = g[i]
      BY <1>12, <2>1, <3>1
    <3>3. i - (m + 1) \in 1..n /\ i \in 1..(m + 1 + n)
      BY <2>1, <3>1
    <3>4. g[i] = c[i - (m + 1)]
      BY <1>11, <3>3 DEF g
    <3> QED BY <1>7, <2>5, <3>2, <3>3, <3>4 DEF n
  <2>6. ASSUME NEW i \in 1..Len(C), C[i].op = "vertex"
        PROVE  m + 1 \in i..(Len(C) - 1)
    <3>1. i <= m + 1
      BY <2>5, <2>6
    <3> QED BY <1>12, <2>1, <3>1
  <2>7. ASSUME NEW i \in 1..Len(C), C[i].op = "edge"
        PROVE  m + n + 2 \in i..(Len(C) - 1)
    <3>1. i \in 1..(m + n + 1)
      BY <2>4, <2>7
    <3> QED BY <1>12, <2>1, <3>1
  <2> QED BY <2>2, <2>3, <2>6, <2>7 DEF Flushes
<1> QED BY <1>12, <1>13, <1>14, <1>16 DEF Loads, C

-----------------------------------------------------------------------------
(* The files of a command.                                                 *)

\* Nothing that reached the files or the buffers is lost.
FilesGrow ==
  /\ vertex_file.rows \subseteq vertex_file'.rows
  /\ vertex_file.rows \cup ToSet(vertex_buf) \subseteq vertex_file'.rows \cup ToSet(vertex_buf')
  /\ DOMAIN prop_file.rows \subseteq DOMAIN prop_file'.rows
  /\ DOMAIN prop_file.rows \cup KeysOf(prop_buf)
       \subseteq DOMAIN prop_file'.rows \cup KeysOf(prop_buf')

\* One step more.
LEMMA LoadedMore ==
  ASSUME NEW C, NEW n \in Nat, LoadedTo(C, n), FilesGrow,
         C[n + 1].op = "vertex" =>
           C[n + 1].vid \in vertex_file'.rows \cup ToSet(vertex_buf'),
         C[n + 1].op = "edge" /\ C[n + 1].prop # EmptyProp =>
           C[n + 1].key \in DOMAIN prop_file'.rows \cup KeysOf(prop_buf'),
         C[n + 1].op = "flush_vertices" =>
           vertex_file.rows \cup ToSet(vertex_buf) \subseteq vertex_file'.rows,
         C[n + 1].op = "flush_props" =>
           DOMAIN prop_file.rows \cup KeysOf(prop_buf) \subseteq DOMAIN prop_file'.rows
  PROVE  LoadedTo(C, n + 1)'
<1>1. \A i \in 1..(n + 1) : i = n + 1 \/ i \in 1..n
  OBVIOUS
<1>2. \A i \in 1..n : \A j \in i..(n + 1) : j = n + 1 \/ j \in i..n
  OBVIOUS
<1>3. \A j \in (n + 1)..(n + 1) : j = n + 1
  OBVIOUS
<1>4. ASSUME NEW i \in 1..(n + 1), C[i].op = "vertex"
      PROVE  /\ C[i].vid \in vertex_file'.rows \cup ToSet(vertex_buf')
             /\ \A j \in i..(n + 1) : C[j].op = "flush_vertices" => C[i].vid \in vertex_file'.rows
  <2>1. CASE i = n + 1
    BY <1>3, <1>4, <2>1
  <2>2. CASE i \in 1..n
    <3>1. /\ C[i].vid \in vertex_file.rows \cup ToSet(vertex_buf)
          /\ \A j \in i..n : C[j].op = "flush_vertices" => C[i].vid \in vertex_file.rows
      BY <1>4, <2>2 DEF LoadedTo
    <3> QED BY <1>2, <2>2, <3>1 DEF FilesGrow
  <2> QED BY <1>1, <2>1, <2>2
<1>5. ASSUME NEW i \in 1..(n + 1), C[i].op = "edge", C[i].prop # EmptyProp
      PROVE  /\ C[i].key \in DOMAIN prop_file'.rows \cup KeysOf(prop_buf')
             /\ \A j \in i..(n + 1) :
                  C[j].op = "flush_props" => C[i].key \in DOMAIN prop_file'.rows
  <2>1. CASE i = n + 1
    BY <1>3, <1>5, <2>1
  <2>2. CASE i \in 1..n
    <3>1. /\ C[i].key \in DOMAIN prop_file.rows \cup KeysOf(prop_buf)
          /\ \A j \in i..n : C[j].op = "flush_props" => C[i].key \in DOMAIN prop_file.rows
      BY <1>5, <2>2 DEF LoadedTo
    <3> QED BY <1>2, <2>2, <3>1 DEF FilesGrow
  <2> QED BY <1>1, <2>1, <2>2
<1>6. KeysOf(prop_buf)' = KeysOf(prop_buf') /\ ToSet(vertex_buf)' = ToSet(vertex_buf')
  BY DEF KeysOf, ToSet
<1> QED BY <1>4, <1>5, <1>6 DEF LoadedTo

\* At its last step a command has flushed everything.
LEMMA LoadedAll ==
  ASSUME NEW C, NEW K, Loads(C, K), Command(C), LoadedTo(C, Len(C) - 1)
  PROVE  /\ LoadedVertices(C) \subseteq vertex_file.rows
         /\ \A k \in K : HasProp(k) => k \in DOMAIN prop_file.rows
<1>1. Len(C) \in Nat /\ Len(C) >= 2
  BY DEF Command
<1>2. \A i \in 1..Len(C) : C[i].op \in {"vertex", "edge"} => i \in 1..(Len(C) - 1)
  <2> SUFFICES ASSUME NEW i \in 1..Len(C), C[i].op \in {"vertex", "edge"}
               PROVE  i # Len(C)
    BY <1>1
  <2> QED BY DEF Command
<1>3. LoadedVertices(C) \subseteq vertex_file.rows
  <2> SUFFICES ASSUME NEW v \in LoadedVertices(C) PROVE v \in vertex_file.rows
    OBVIOUS
  <2>1. PICK i \in 1..Len(C) : C[i].op = "vertex" /\ C[i].vid = v
    BY AllDone DEF Loads, LoadedVertices
  <2>2. PICK j \in i..(Len(C) - 1) : C[j].op = "flush_vertices"
    BY <2>1 DEF Loads, Flushes
  <2> QED BY <1>2, <2>1, <2>2 DEF LoadedTo
<1>4. ASSUME NEW k \in K, HasProp(k) PROVE k \in DOMAIN prop_file.rows
  <2>1. PICK i \in 1..Len(C) : C[i].op = "edge" /\ C[i].key = k
    BY DEF Loads, Done
  <2>2. C[i] \in ToSet(C)
    BY AllDone DEF Loads
  <2>3. C[i].prop # EmptyProp
    BY <1>4, <2>1, <2>2 DEF Loads, Whole
  <2>4. PICK j \in i..(Len(C) - 1) : C[j].op = "flush_props"
    BY <2>1 DEF Loads, Flushes
  <2> QED BY <1>2, <2>1, <2>3, <2>4 DEF LoadedTo
<1> QED BY <1>3, <1>4

\* A list with one element more has it.
LEMMA AppendedSet ==
  ASSUME NEW S, NEW s \in Seq(S), NEW x \in S
  PROVE  Append(s, x) \in Seq(S) /\ ToSet(Append(s, x)) = ToSet(s) \cup {x}
<1> DEFINE t == Append(s, x)
           n == Len(s)
<1>1. t \in Seq(S) /\ Len(t) = n + 1 /\ n \in Nat
  OBVIOUS
<1>2. t[n + 1] = x /\ \A i \in 1..n : t[i] = s[i]
  OBVIOUS
<1> HIDE DEF t
<1>3. ToSet(t) = {t[i] : i \in 1..(n + 1)} /\ ToSet(s) = {s[i] : i \in 1..n}
  BY <1>1, ToSetIs
<1> HIDE DEF n
<1>4. \A i \in 1..(n + 1) : i = n + 1 \/ i \in 1..n
  BY <1>1
<1>5. n + 1 \in 1..(n + 1) /\ \A i \in 1..n : i \in 1..(n + 1)
  BY <1>1
<1>6. ToSet(t) \subseteq ToSet(s) \cup {x}
  BY <1>2, <1>3, <1>4
<1>7. ToSet(s) \cup {x} \subseteq ToSet(t)
  BY <1>2, <1>3, <1>5
<1> QED BY <1>1, <1>6, <1>7 DEF t

\* The row of one write.
LEMMA OneRow ==
  ASSUME NEW w
  PROVE  PropRows(<<w>>) = IF w.prop = EmptyProp THEN <<>> ELSE <<w>>
<1> DEFINE row == IF w.prop = EmptyProp THEN <<>> ELSE <<w>>
           S == {w}
<1>1. PropRows(<<w>>) = FlattenSeq(<<row>>)
  <2>1. [i \in DOMAIN <<w>> |-> IF <<w>>[i].prop = EmptyProp THEN <<>> ELSE <<(<<w>>[i])>>]
          = [i \in 1..1 |-> row]
    OBVIOUS
  <2>2. <<row>> = [i \in 1..1 |-> row]
    OBVIOUS
  <2> QED BY <2>1, <2>2 DEF PropRows, ForEach
<1>2. row \in Seq(S)
  <2>1. w \in S /\ <<>> \in Seq(S)
    OBVIOUS
  <2>2. <<w>> \in Seq(S)
    <3> HIDE DEF S
    <3> QED BY <2>1
  <2> HIDE DEF S
  <2> QED BY <2>1, <2>2
<1> HIDE DEF row, S
<1>3. FlattenSeq(<<row>>) = row
  <2>1. <<>> \in Seq(Seq(S))
    OBVIOUS
  <2> QED BY <1>2, <2>1, FlattenAppend
<1> QED BY <1>1, <1>3 DEF row

-----------------------------------------------------------------------------
(* A rebuilt property file.                                                *)

\* Writes without a property.
Plains == [key : SnbKey, prop : {EmptyProp}]

\* An edge that is loaded without a property has none from either end.
LEMMA PlainEdge ==
  ASSUME NEW src \in Int, NEW dst \in Int, NEW label \in Int, NEW both
  PROVE  LoadEdge(src, label, dst, EmptyProp, both) \in Seq(Plains)
<1> DEFINE there == [key |-> Key(src, label, dst), prop |-> EmptyProp]
           back == [key |-> Key(dst, -label, src), prop |-> EmptyProp]
           mirror == [key |-> Key(dst, label, src), prop |-> EmptyProp]
           a == <<there>>
           b == <<back>>
           c == <<mirror>>
<1>1. there \in Plains /\ back \in Plains /\ mirror \in Plains
  BY DEF Plains, SnbKey, Key
<1>2. insert_forward_reverse(src, label, dst, EmptyProp, TRUE) = a \o b
  BY DEF insert_forward_reverse
<1>3. insert_forward_reverse(dst, label, src, EmptyProp, FALSE) = c \o <<>>
  BY DEF insert_forward_reverse
<1> HIDE DEF there, back, mirror
<1>4. \A w \in Plains : <<w>> \in Seq(Plains)
  OBVIOUS
<1>5. a \in Seq(Plains) /\ b \in Seq(Plains) /\ c \in Seq(Plains) /\ <<>> \in Seq(Plains)
  BY <1>1, <1>4
<1> DEFINE two == a \o b
           one == c \o <<>>
<1> HIDE DEF a, b, c
<1>6. two \in Seq(Plains) /\ one \in Seq(Plains)
  BY <1>5, Joined
<1> HIDE DEF two, one
<1>7. LoadEdge(src, label, dst, EmptyProp, both) = two \o (IF both THEN one ELSE <<>>)
  BY <1>2, <1>3 DEF LoadEdge, two, one
<1>8. two \o one \in Seq(Plains) /\ two \o <<>> \in Seq(Plains)
  BY <1>5, <1>6, Joined
<1> QED BY <1>7, <1>8

\* A relation without a property column.
NoColumn(r) == r.prop_col = ""

\* It has edges without properties.
LEMMA PlainFile ==
  ASSUME NEW i \in 1..23, NoColumn(Relations[i])
  PROVE  import_edge_file(Csv, Relations[i]) \in Seq(Plains)
<1> DEFINE r == Relations[i]
           n == Len(Csv[r.file])
           cell(k) == Csv[r.file][k]
           load(row) ==
             IF row[r.src_col] = NoId \/ row[r.dst_col] = NoId THEN <<>>
             ELSE LoadEdge(encode_vid(r.src, row[r.src_col]), r.label,
                           encode_vid(r.dst, row[r.dst_col]),
                           IF r.prop_col = "" THEN EmptyProp ELSE {row[r.prop_col]},
                           r.bidirectional)
           q == [k \in 1..n |-> load(cell(k))]
<1>0. <<>> \in Seq(Plains)
  <2> HIDE DEF load, q, r, n, cell
  <2> QED OBVIOUS
<1>1. r \in ToSet(Relations) /\ RelationOK(r)
  BY RelationsAre DEF ToSet
<1>2. /\ n \in Nat /\ DOMAIN Csv[r.file] = 1..n
      /\ \A k \in 1..n : {cell(k)[r.src_col], cell(k)[r.dst_col]} \subseteq Nat \cup {NoId}
  BY <1>1, RowsAssumption
<1>3. import_edge_file(Csv, r) = FlattenSeq(q)
  BY <1>2 DEF import_edge_file, ForEach
<1>9. NoColumn(r)
  OBVIOUS
<1> HIDE DEF r, n, cell
<1>4. ASSUME NEW k \in 1..n
      PROVE  load(cell(k)) \in Seq(Plains)
  <2> DEFINE row == cell(k)
             prop == IF r.prop_col = "" THEN EmptyProp ELSE {row[r.prop_col]}
  <2>1. CASE row[r.src_col] = NoId \/ row[r.dst_col] = NoId
    <3>1. load(row) = <<>>
      BY <2>1
    <3> HIDE DEF load, row
    <3> QED BY <1>0, <3>1 DEF row
  <2>2. CASE ~(row[r.src_col] = NoId \/ row[r.dst_col] = NoId)
    <3>1. row[r.src_col] \in Nat /\ row[r.dst_col] \in Nat
      BY <1>2, <2>2
    <3>2. prop = EmptyProp
      BY <1>9 DEF NoColumn
    <3>3. /\ encode_vid(r.src, row[r.src_col]) \in Int
          /\ encode_vid(r.dst, row[r.dst_col]) \in Int
          /\ r.label \in 1..17
      BY <1>1, <3>1, EncodeType DEF RelationOK
    <3>4. r.label \in Int
      BY <3>3
    <3> HIDE DEF prop, row
    <3>5. LoadEdge(encode_vid(r.src, row[r.src_col]), r.label,
                   encode_vid(r.dst, row[r.dst_col]), prop, r.bidirectional)
            \in Seq(Plains)
      BY <3>2, <3>3, <3>4, PlainEdge
    <3> QED BY <2>2, <3>5 DEF prop, row
  <2> QED BY <2>1, <2>2
<1>5. q \in Seq(Seq(Plains))
  <2>1. q = [k \in 1..n |-> q[k]]
    OBVIOUS
  <2>2. \A k \in 1..n : q[k] \in Seq(Plains)
    BY <1>4
  <2>3. n \in Nat
    BY <1>2
  <2> HIDE DEF load, q
  <2> QED BY <2>1, <2>2, <2>3
<1> HIDE DEF q
<1> QED BY <1>3, <1>5, Flattened DEF r

\* The keys of rows are those of the writes with a property.
LEMMA RowKeys ==
  ASSUME NEW ws \in Seq(Write)
  PROVE  KeysOf(PropRows(ws)) = {w.key : w \in {v \in ToSet(ws) : v.prop # EmptyProp}}
<1> DEFINE n == Len(ws)
           row(w) == IF w.prop = EmptyProp THEN <<>> ELSE <<w>>
           q == [i \in 1..n |-> row(ws[i])]
<1>1. DOMAIN ws = 1..n /\ n \in Nat /\ \A i \in 1..n : ws[i] \in Write
  BY ElementOfSeq
<1>2. PropRows(ws) = FlattenSeq(q)
  BY <1>1 DEF PropRows, ForEach
<1>3. \A w \in Write : row(w) \in Seq(Write) /\ ToSet(row(w)) = {v \in {w} : w.prop # EmptyProp}
  <2>1. \A w \in Write : <<w>> \in Seq(Write) /\ ToSet(<<w>>) = {w}
    BY DEF ToSet
  <2>2. <<>> \in Seq(Write) /\ ToSet(<<>>) = {}
    BY DEF ToSet
  <2> QED BY <2>1, <2>2
<1> HIDE DEF row, n
<1>4. q \in Seq(Seq(Write)) /\ Len(q) = n
  BY <1>1, <1>3
<1>5. \A i \in 1..n : ToSet(q[i]) = {v \in {ws[i]} : ws[i].prop # EmptyProp}
  BY <1>1, <1>3
<1> HIDE DEF q
<1>6. ToSet(FlattenSeq(q)) = Elements(q)
  BY <1>4, Flattened
<1>7. ToSet(ws) = {ws[i] : i \in 1..n}
  BY ToSetIs DEF n
<1>8. Elements(q) = {v \in ToSet(ws) : v.prop # EmptyProp}
  <2>1. Elements(q) = UNION {ToSet(q[i]) : i \in 1..n}
    BY <1>4 DEF Elements
  <2>2. ASSUME NEW x \in Elements(q)
        PROVE  x \in ToSet(ws) /\ x.prop # EmptyProp
    <3>1. PICK i \in 1..n : x \in ToSet(q[i])
      BY <2>1, <2>2
    <3>2. x = ws[i] /\ ws[i].prop # EmptyProp
      BY <1>5, <3>1
    <3> QED BY <1>7, <3>2
  <2>3. ASSUME NEW x \in ToSet(ws), x.prop # EmptyProp
        PROVE  x \in Elements(q)
    <3>1. PICK i \in 1..n : x = ws[i]
      BY <1>7, <2>3
    <3>2. x \in ToSet(q[i])
      BY <1>5, <2>3, <3>1
    <3> QED BY <2>1, <3>2
  <2> QED BY <2>2, <2>3
<1>9. KeysOf(PropRows(ws)) = {w.key : w \in ToSet(PropRows(ws))}
  BY DEF KeysOf, ToSet
<1> QED BY <1>2, <1>6, <1>8, <1>9

\* snb-props restores the properties of all edges of the import.
LEMMA RebuildCovers ==
  ASSUME NEW k \in ImportKeys, HasProp(k)
  PROVE  k \in DOMAIN WithProps(<<>>, PropRows(rebuild_snb_edge_props(Csv)))
<1> DEFINE q == [i \in 1..23 |-> import_edge_file(Csv, Relations[i])]
           p == [i \in 1..23 |-> IF Relations[i].prop_col = "" THEN <<>> ELSE q[i]]
<1>1. import_edges(Csv) = FlattenSeq(q)
  BY RelationsAre DEF import_edges, ForEach
<1>2. rebuild_snb_edge_props(Csv) = FlattenSeq(p)
  BY RelationsAre DEF rebuild_snb_edge_props, ForEach
<1>3. \A i \in 1..23 : Writes(q[i]) /\ q[i] \in Seq(Write)
  BY ImportFileWrites DEF Writes
<1>4. \A i \in 1..23 : Relations[i].prop_col = "" => q[i] \in Seq(Plains)
  BY PlainFile DEF NoColumn
<1>5. \A i \in 1..23 : p[i] = IF Relations[i].prop_col = "" THEN <<>> ELSE q[i]
  OBVIOUS
<1>6. q \in Seq(Seq(Write)) /\ Len(q) = 23
  <2>1. q = [i \in 1..23 |-> q[i]]
    OBVIOUS
  <2> HIDE DEF q
  <2> QED BY <1>3, <2>1
<1>7. p \in Seq(Seq(Write)) /\ Len(p) = 23
  <2>1. p = [i \in 1..23 |-> p[i]]
    OBVIOUS
  <2>2. <<>> \in Seq(Write)
    OBVIOUS
  <2>3. \A i \in 1..23 : p[i] \in Seq(Write)
    <3> HIDE DEF q, p
    <3> QED BY <1>3, <1>5, <2>2
  <2> HIDE DEF q, p
  <2> QED BY <2>1, <2>3
<1> HIDE DEF q, p
<1>8. PICK w \in ToSet(import_edges(Csv)) : w.key = k
  BY DEF ImportKeys
<1>9. ToSet(import_edges(Csv)) = Elements(q) /\ ToSet(rebuild_snb_edge_props(Csv)) = Elements(p)
  BY <1>1, <1>2, <1>6, <1>7, Flattened
<1>10. PICK i \in 1..23 : w \in ToSet(q[i])
  BY <1>6, <1>9 DEF Elements
<1>11. w.prop # EmptyProp
  BY <1>3, <1>8, <1>10 DEF Writes, EmptyProp
<1>12. Relations[i].prop_col # ""
  <2> SUFFICES ASSUME Relations[i].prop_col = "" PROVE FALSE
    OBVIOUS
  <2>1. q[i] \in Seq(Plains)
    BY <1>4
  <2>2. w \in Plains
    BY <1>10, <2>1, ToSetIs
  <2> QED BY <1>11, <2>2 DEF Plains
<1>13. w \in ToSet(rebuild_snb_edge_props(Csv))
  BY <1>5, <1>7, <1>9, <1>10, <1>12 DEF Elements
<1>14. rebuild_snb_edge_props(Csv) \in Seq(Write)
  BY <1>2, <1>7, Flattened
<1>15. k \in KeysOf(PropRows(rebuild_snb_edge_props(Csv)))
  BY <1>8, <1>11, <1>13, <1>14, RowKeys
<1> QED BY <1>15, WithPropsIs

-----------------------------------------------------------------------------
(* The steps of an import or an update.                                    *)

\* The edges of a cache that lists records, up to those of the streams.
LEMMA ListedKeys ==
  ASSUME NEW A, Adjacency(A), NEW R, NEW K, Lists(A, R, K)
  PROVE  EdgesIn(A) \cup K = {e.key : e \in R} \cup K
<1>1. \A k : k \in EdgesIn(A) <=> \E g \in DOMAIN A : \E i \in 1..Len(A[g]) : k = KeyAt(A, g, i)
  BY EdgesAre DEF Adjacency, KeyAt
<1>2. \A k \in EdgesIn(A) : k \notin K => k \in {e.key : e \in R}
  BY <1>1 DEF Lists
<1>3. \A e \in R : e.key \notin K => e.key \in EdgesIn(A)
  BY <1>1 DEF Lists
<1> QED BY <1>2, <1>3

\* A cache that a scan gives has the keys of the engine.
LEMMA ScannedKeys ==
  ASSUME EngineInv
  PROVE  EdgesIn(build(edges)) = {e.key : e \in edges}
<1>1. Adjacency(build(edges)) /\ Lists(build(edges), edges, {})
  BY BuildFollows DEF EngineInv
<1>2. EdgesIn(build(edges)) \cup {} = {e.key : e \in edges} \cup {}
  BY <1>1, ListedKeys
<1> QED BY <1>2

\* What the step at hand loads has arrived.
StepLoaded ==
  LET step == Head(todo)
  IN /\ step.op = "vertex" => step.vid \in vertex_file'.rows \cup ToSet(vertex_buf')
     /\ step.op = "edge" /\ step.prop # EmptyProp =>
          step.key \in DOMAIN prop_file'.rows \cup KeysOf(prop_buf')
     /\ step.op = "flush_vertices" =>
          vertex_file.rows \cup ToSet(vertex_buf) \subseteq vertex_file'.rows
     /\ step.op = "flush_props" =>
          DOMAIN prop_file.rows \cup KeysOf(prop_buf) \subseteq DOMAIN prop_file'.rows

\* A step forward.
LEMMA LoadingStep ==
  ASSUME NEW C, Command(C), Loading(C), NEW op, op # "write_cache", Doing(op),
         FilesGrow, StepLoaded
  PROVE  Loading(C)'
<1>1. PICK n \in 0..(Len(C) - 1) : todo = Rest(C, n) /\ LoadedTo(C, n)
  BY DEF Loading
<1>2. /\ Head(todo) = C[n + 1] /\ todo' = Rest(C, n + 1)
      /\ n + 1 \in 0..(Len(C) - 1)
  BY <1>1, Advance
<1>3. n \in Nat
  BY <1>1
<1>4. LoadedTo(C, n + 1)'
  <2> DEFINE x == C[n + 1]
  <2> HIDE DEF x
  <2>1. /\ x.op = "vertex" => x.vid \in vertex_file'.rows \cup ToSet(vertex_buf')
        /\ x.op = "edge" /\ x.prop # EmptyProp =>
             x.key \in DOMAIN prop_file'.rows \cup KeysOf(prop_buf')
        /\ x.op = "flush_vertices" =>
             vertex_file.rows \cup ToSet(vertex_buf) \subseteq vertex_file'.rows
        /\ x.op = "flush_props" =>
             DOMAIN prop_file.rows \cup KeysOf(prop_buf) \subseteq DOMAIN prop_file'.rows
    BY <1>2 DEF StepLoaded, x
  <2> QED BY <1>1, <1>3, <2>1, LoadedMore DEF x
<1> QED BY <1>2, <1>4 DEF Loading

\* The step at hand is one of the command.
LEMMA HeadType ==
  ASSUME LoadInv, NEW op, Doing(op)
  PROVE  Head(todo) \in AnyStep
<1>1. \E C : Command(C) /\ C \in Seq(AnyStep) /\ Loading(C)
  BY UpdatesLoads, ImportLoads, UpdatesCommand, ImportCommand DEF LoadInv, Doing, Loads
<1>2. PICK C : Command(C) /\ C \in Seq(AnyStep) /\ Loading(C)
  BY <1>1
<1>3. PICK n \in 0..(Len(C) - 1) : todo = Rest(C, n)
  BY <1>2 DEF Loading
<1>4. Head(todo) = C[n + 1] /\ n + 1 \in 1..Len(C)
  BY <1>2, <1>3, Advance
<1> QED BY <1>2, <1>4, ElementOfSeq

\* A whole cache stays whole while the files grow.
LEMMA WholeKept ==
  ASSUME WholeInv, cache'.groups = cache.groups,
         vertex_file.rows \subseteq vertex_file'.rows,
         DOMAIN prop_file.rows \subseteq DOMAIN prop_file'.rows,
         history'.pedigree = "whole" => history.pedigree = "whole",
         history.cut => history'.cut
  PROVE  WholeInv'
<1> DEFINE E == EdgesIn(cache.groups)
<1>1. E' = E
  OBVIOUS
<1> HIDE DEF E
<1>2. SUFFICES ASSUME history'.pedigree = "whole"
               PROVE  /\ E' \in {ImportKeys, ImportKeys \cup StreamKeys}
                      /\ LoadedVertices(import_snb_full) \subseteq vertex_file'.rows
                      /\ \/ E' = ImportKeys
                         \/ LoadedVertices(import_snb_updates) \subseteq vertex_file'.rows
                      /\ \A k \in E' : HasProp(k) =>
                           k \in DOMAIN prop_file'.rows \/ (history'.cut /\ k \notin ImportKeys)
  BY DEF WholeInv, E
<1>3. /\ E \in {ImportKeys, ImportKeys \cup StreamKeys}
      /\ LoadedVertices(import_snb_full) \subseteq vertex_file.rows
      /\ \/ E = ImportKeys
         \/ LoadedVertices(import_snb_updates) \subseteq vertex_file.rows
      /\ \A k \in E : HasProp(k) =>
           k \in DOMAIN prop_file.rows \/ (history.cut /\ k \notin ImportKeys)
  BY <1>2 DEF WholeInv, E
<1> QED BY <1>1, <1>3

\* The rows of edge properties that a command buffers.
EdgeRows == [op : {"edge"}, key : SnbKey, prop : SUBSET Int]

\* The forms of the files hold.
FormsHold ==
  /\ DOMAIN vertex_file' = {"state", "rows"} /\ DOMAIN prop_file' = {"state", "rows"}
  /\ vertex_buf' \in Seq(Int) /\ prop_buf' \in Seq(EdgeRows)

\* Any step but the last.
LEMMA DoingStep ==
  ASSUME UsableInv, NEW op, op # "write_cache", Doing(op), FilesGrow, StepLoaded, FormsHold,
         UNCHANGED <<cache, history>>,
         {e.key : e \in edges'} =
           {e.key : e \in edges} \cup (IF op = "edge" THEN {Head(todo).key} ELSE {})
  PROVE  LoadInv' /\ FormInv' /\ WholeInv'
<1>1. WholeInv'
  BY WholeKept DEF UsableInv, FilesGrow
<1>2. FormInv'
  BY DEF UsableInv, FormInv, FormsHold, EdgeRows
<1>3. CASE running = "import"
  <2>1. Loading(import_snb_full) /\ Imported
    BY <1>3 DEF UsableInv, LoadInv
  <2>2. PICK n \in 0..(Len(import_snb_full) - 1) :
           todo = Rest(import_snb_full, n) /\ {e.key : e \in edges} = Done(import_snb_full, n)
    BY <2>1 DEF Imported
  <2>3. /\ Head(todo) = import_snb_full[n + 1] /\ import_snb_full[n + 1].op = op
        /\ todo' = Rest(import_snb_full, n + 1)
        /\ n + 1 \in 0..(Len(import_snb_full) - 1) /\ running' = running
    BY <2>2, ImportCommand, Advance
  <2>4. {e.key : e \in edges'} = Done(import_snb_full, n + 1)
    <3> DEFINE C == import_snb_full
               D == {e.key : e \in edges}
    <3> HIDE DEF C, D
    <3>1. n \in Nat
      BY <2>2
    <3>2. C[n + 1].op = "edge" => Done(C, n + 1) = Done(C, n) \cup {C[n + 1].key}
      BY <3>1, DoneStep
    <3>3. C[n + 1].op # "edge" => Done(C, n + 1) = Done(C, n)
      BY <3>1, DoneStep
    <3>4. C[n + 1].op = op /\ Head(todo) = C[n + 1] /\ D = Done(C, n)
      BY <2>2, <2>3 DEF C, D
    <3>5. {e.key : e \in edges'} = D \cup (IF op = "edge" THEN {C[n + 1].key} ELSE {})
      BY <3>4 DEF D
    <3>6. {e.key : e \in edges'} = Done(C, n + 1)
      BY <3>2, <3>3, <3>4, <3>5
    <3> QED BY <3>6 DEF C
  <2>5. Imported'
    BY <2>3, <2>4 DEF Imported
  <2>6. Loading(import_snb_full)'
    BY <2>1, ImportCommand, LoadingStep
  <2> QED BY <1>1, <1>2, <1>3, <2>3, <2>5, <2>6 DEF LoadInv
<1>4. CASE running = "updates"
  <2>1. Loading(import_snb_updates)
    BY <1>4 DEF UsableInv, LoadInv
  <2>2. Loading(import_snb_updates)'
    BY <2>1, UpdatesCommand, LoadingStep
  <2>3. running' \in {"none", "updates"}
    BY <1>4 DEF Doing
  <2> QED BY <1>1, <1>2, <2>2, <2>3 DEF LoadInv
<1> QED BY <1>3, <1>4 DEF Doing

\* The loading steps of commands.
LEMMA LoadedTypes ==
  ASSUME NEW x \in AnyStep
  PROVE  /\ x.op = "vertex" => x.vid \in Int
         /\ x.op = "edge" => x \in EdgeRows
<1>1. CASE x \in LoadStep
  BY <1>1 DEF LoadStep, EdgeRows
<1>2. CASE x \in {Step("flush_vertices"), Step("flush_props"), Step("flush_active"),
                  Step("write_cache")}
  BY <1>2 DEF Step
<1> QED BY <1>1, <1>2 DEF AnyStep

\* The keys of a buffer.
LEMMA KeysAre == \A rows : KeysOf(rows) = {r.key : r \in ToSet(rows)}
BY DEF KeysOf, ToSet

\* A vertex goes to its buffer.
LEMMA VertexUsable ==
  ASSUME UsableInv, WriteVertex PROVE LoadInv' /\ FormInv' /\ WholeInv'
<1> DEFINE v == Head(todo).vid
<1>1. Doing("vertex") /\ Head(todo).op = "vertex"
  BY DEF WriteVertex, Doing
<1>2. Head(todo) \in AnyStep
  BY <1>1, HeadType DEF UsableInv
<1>3. v \in Int
  BY <1>1, <1>2, LoadedTypes
<1>4. vertex_buf \in Seq(Int) /\ prop_buf \in Seq(EdgeRows)
      /\ DOMAIN vertex_file = {"state", "rows"} /\ DOMAIN prop_file = {"state", "rows"}
  BY DEF UsableInv, FormInv, EdgeRows
<1>5. /\ vertex_buf' = Append(vertex_buf, v)
      /\ UNCHANGED <<edges, vertex_file, prop_file, prop_buf, cache, history>>
  BY DEF WriteVertex, engineVars, fileVars
<1>6. vertex_buf' \in Seq(Int) /\ ToSet(vertex_buf') = ToSet(vertex_buf) \cup {v}
  BY <1>3, <1>4, <1>5, AppendedSet
<1>7. FilesGrow
  BY <1>5, <1>6 DEF FilesGrow
<1>8. StepLoaded
  BY <1>1, <1>6 DEF StepLoaded
<1>9. FormsHold
  BY <1>4, <1>5, <1>6 DEF FormsHold
<1> QED BY <1>1, <1>5, <1>7, <1>8, <1>9, DoingStep

\* An edge goes to the engine, its property to a buffer.
LEMMA EdgeUsable ==
  ASSUME UsableInv, InsertEdge PROVE LoadInv' /\ FormInv' /\ WholeInv'
<1> DEFINE w == Head(todo)
           row == IF w.prop = EmptyProp THEN <<>> ELSE <<w>>
<1>1. Doing("edge") /\ w.op = "edge"
  BY DEF InsertEdge, Doing
<1>2. w \in AnyStep
  BY <1>1, HeadType DEF UsableInv
<1>3. w \in EdgeRows
  BY <1>1, <1>2, LoadedTypes
<1>4. vertex_buf \in Seq(Int) /\ prop_buf \in Seq(EdgeRows)
      /\ DOMAIN vertex_file = {"state", "rows"} /\ DOMAIN prop_file = {"state", "rows"}
  BY DEF UsableInv, FormInv, EdgeRows
<1>5. /\ edges' = edges \cup {Record(w.key, timestamp')}
      /\ prop_buf' = prop_buf \o PropRows(<<w>>)
      /\ UNCHANGED <<vertex_file, prop_file, vertex_buf, cache, history>>
  BY DEF InsertEdge, fileVars
<1>6. PropRows(<<w>>) = row
  BY OneRow
<1>7. row \in Seq(EdgeRows) /\ ToSet(row) = {r \in {w} : r.prop # EmptyProp}
  <2>1. <<w>> \in Seq(EdgeRows) /\ <<>> \in Seq(EdgeRows)
    <3> HIDE DEF w, row
    <3> QED BY <1>3
  <2>2. ToSet(<<w>>) = {w} /\ ToSet(<<>>) = {}
    BY DEF ToSet
  <2>3. CASE w.prop = EmptyProp
    BY <2>1, <2>2, <2>3
  <2>4. CASE w.prop # EmptyProp
    BY <2>1, <2>2, <2>4
  <2> QED BY <2>3, <2>4
<1> HIDE DEF row
<1>8. /\ prop_buf' \in Seq(EdgeRows)
      /\ ToSet(prop_buf') = ToSet(prop_buf) \cup ToSet(row)
  <2>1. prop_buf' = prop_buf \o row
    BY <1>5, <1>6
  <2> QED BY <1>4, <1>7, <2>1, Concatenation
<1>9. /\ KeysOf(prop_buf) \subseteq KeysOf(prop_buf')
      /\ w.prop # EmptyProp => w.key \in KeysOf(prop_buf')
  BY <1>7, <1>8, KeysAre
<1>10. FilesGrow
  BY <1>5, <1>9 DEF FilesGrow
<1>11. StepLoaded
  BY <1>1, <1>9 DEF StepLoaded
<1>12. FormsHold
  BY <1>4, <1>5, <1>8 DEF FormsHold
<1>13. {e.key : e \in edges'} = {e.key : e \in edges} \cup {w.key}
  <2>1. Record(w.key, timestamp').key = w.key
    BY DEF Record
  <2> HIDE DEF w
  <2> QED BY <1>5, <2>1
<1> QED BY <1>1, <1>5, <1>10, <1>11, <1>12, <1>13, DoingStep

\* The vertices are flushed.
LEMMA FlushVerticesUsable ==
  ASSUME UsableInv, FlushVertices PROVE LoadInv' /\ FormInv' /\ WholeInv'
<1>1. Doing("flush_vertices") /\ Head(todo).op = "flush_vertices"
  BY DEF FlushVertices, Doing
<1>2. vertex_buf \in Seq(Int) /\ prop_buf \in Seq(EdgeRows)
      /\ DOMAIN vertex_file = {"state", "rows"} /\ DOMAIN prop_file = {"state", "rows"}
  BY DEF UsableInv, FormInv, EdgeRows
<1>3. /\ vertex_file' = [vertex_file EXCEPT !.rows = @ \cup ToSet(vertex_buf)]
      /\ vertex_buf' = <<>>
      /\ UNCHANGED <<edges, prop_file, prop_buf, cache, history>>
  BY DEF FlushVertices, engineVars
<1>4. /\ vertex_file'.rows = vertex_file.rows \cup ToSet(vertex_buf)
      /\ DOMAIN vertex_file' = {"state", "rows"}
  BY <1>2, <1>3
<1>5. FilesGrow
  BY <1>3, <1>4 DEF FilesGrow
<1>6. StepLoaded
  BY <1>1, <1>4 DEF StepLoaded
<1>7. FormsHold
  BY <1>2, <1>3, <1>4 DEF FormsHold
<1> QED BY <1>1, <1>3, <1>5, <1>6, <1>7, DoingStep

\* The properties are flushed.
LEMMA FlushPropsUsable ==
  ASSUME UsableInv, FlushProps PROVE LoadInv' /\ FormInv' /\ WholeInv'
<1>1. Doing("flush_props") /\ Head(todo).op = "flush_props"
  BY DEF FlushProps, Doing
<1>2. vertex_buf \in Seq(Int) /\ prop_buf \in Seq(EdgeRows)
      /\ DOMAIN vertex_file = {"state", "rows"} /\ DOMAIN prop_file = {"state", "rows"}
  BY DEF UsableInv, FormInv, EdgeRows
<1>3. /\ prop_file' = [prop_file EXCEPT !.rows = WithProps(@, prop_buf)]
      /\ prop_buf' = <<>>
      /\ UNCHANGED <<edges, vertex_file, vertex_buf, cache, history>>
  BY DEF FlushProps, engineVars
<1>4. /\ prop_file'.rows = WithProps(prop_file.rows, prop_buf)
      /\ DOMAIN prop_file' = {"state", "rows"}
  BY <1>2, <1>3
<1>5. DOMAIN prop_file'.rows = DOMAIN prop_file.rows \cup KeysOf(prop_buf)
  BY <1>4, WithPropsIs
<1>8. KeysOf(prop_buf') = {}
  BY <1>3 DEF KeysOf
<1>6. FilesGrow /\ StepLoaded
  BY <1>1, <1>3, <1>5, <1>8 DEF FilesGrow, StepLoaded
<1>7. FormsHold
  BY <1>2, <1>3, <1>4 DEF FormsHold
<1> QED BY <1>1, <1>3, <1>6, <1>7, DoingStep

\* The memgraph is flushed.
LEMMA FlushActiveUsable ==
  ASSUME UsableInv, FlushActive PROVE LoadInv' /\ FormInv' /\ WholeInv'
<1>1. Doing("flush_active") /\ Head(todo).op = "flush_active"
  BY DEF FlushActive, Doing
<1>2. vertex_buf \in Seq(Int) /\ prop_buf \in Seq(EdgeRows)
      /\ DOMAIN vertex_file = {"state", "rows"} /\ DOMAIN prop_file = {"state", "rows"}
  BY DEF UsableInv, FormInv, EdgeRows
<1>3. UNCHANGED <<edges, vertex_file, prop_file, vertex_buf, prop_buf, cache, history>>
  BY DEF FlushActive, fileVars, bufVars
<1>4. FilesGrow /\ StepLoaded /\ FormsHold
  BY <1>1, <1>2, <1>3 DEF FilesGrow, StepLoaded, FormsHold
<1> QED BY <1>1, <1>3, <1>4, DoingStep

\* A whole cache is that of the engine when it is written.
LEMMA WrittenCache ==
  ASSUME AdjacencyInv, WriteCache, history'.pedigree = "whole"
  PROVE  EdgesIn(cache'.groups) = {e.key : e \in edges}
<1>1. AdjacencyInv'
  BY WriteStep
<1>2. running' = "none"
  <2>1. PICK C : Command(C) /\ \E n \in 0..(Len(C) - 1) : todo = Rest(C, n)
    BY UpdatesCommand, ImportCommand
       DEF WriteCache, Doing, AdjacencyInv, ImportInv, UpdatesInv, UpdatedTo
  <2>2. Doing("write_cache")
    BY DEF WriteCache
  <2> QED BY <2>1, <2>2, Advance
<1>3. cache'.exists /\ DOMAIN history = HistoryFields
  BY DEF WriteCache, AdjacencyInv, EngineInv, HistoryFields
<1>4. ~history'.behind /\ edges' = edges
  BY <1>3 DEF WriteCache, engineVars, HistoryFields
<1>5. cache'.groups = build(edges')
  BY <1>1, <1>2, <1>3, <1>4 DEF AdjacencyInv, RestInv, AtRest, Counts
<1> QED BY <1>4, <1>5, ScannedKeys DEF AdjacencyInv

\* What a command knows at its last step.
LEMMA LastStep ==
  ASSUME NEW C, NEW K, Loads(C, K), Command(C), Loading(C), Doing("write_cache")
  PROVE  /\ LoadedVertices(C) \subseteq vertex_file.rows
         /\ \A k \in K : HasProp(k) => k \in DOMAIN prop_file.rows
         /\ Done(C, Len(C) - 1) = K
         /\ \A n \in 0..(Len(C) - 1) : todo = Rest(C, n) => n = Len(C) - 1
         /\ running' = "none"
<1>1. \A n \in 0..(Len(C) - 1) : todo = Rest(C, n) => n = Len(C) - 1 /\ running' = "none"
  BY Advance
<1>2. LoadedTo(C, Len(C) - 1) /\ running' = "none"
  BY <1>1 DEF Loading
<1>3. Done(C, Len(C) - 1) = K
  <2> DEFINE n == Len(C) - 1
  <2>1. n \in Nat /\ n + 1 = Len(C) /\ C[Len(C)].op = "write_cache" /\ Done(C, Len(C)) = K
    BY DEF Command, Loads
  <2> HIDE DEF n
  <2>2. C[n + 1].op # "edge"
    BY <2>1
  <2>3. Done(C, n + 1) = Done(C, n)
    BY <2>1, <2>2, DoneStep
  <2> QED BY <2>1, <2>3 DEF n
<1> QED BY <1>1, <1>2, <1>3, LoadedAll

\* The end of an import or an update.
LEMMA WriteUsable ==
  ASSUME UsableInv, WriteCache PROVE LoadInv' /\ FormInv' /\ WholeInv'
<1>1. Doing("write_cache") /\ running \in {"import", "updates"}
  BY DEF WriteCache, Doing
<1>2. /\ UNCHANGED <<edges, vertex_file, prop_file, vertex_buf, prop_buf>>
      /\ cache'.exists /\ DOMAIN history = HistoryFields
  BY DEF WriteCache, engineVars, UsableInv, AdjacencyInv, EngineInv, HistoryFields
<1>3. /\ history'.pedigree = IF running = "import" THEN "whole"
                             ELSE IF cache.exists THEN history.pedigree ELSE "partial"
      /\ ~history'.behind /\ ~history'.cut
      /\ history'.complete => history.complete \/ history'.pedigree = "whole"
  BY <1>2 DEF WriteCache, HistoryFields
<1>4. running' = "none"
  <2>1. CASE running = "import"
    BY <1>1, <2>1, ImportLoads, ImportCommand, LastStep DEF UsableInv, LoadInv
  <2>2. CASE running = "updates"
    BY <1>1, <2>2, UpdatesLoads, UpdatesCommand, LastStep DEF UsableInv, LoadInv
  <2> QED BY <1>1, <2>1, <2>2
<1>5. LoadInv'
  BY <1>4 DEF LoadInv
<1>6. FormInv'
  BY <1>2, <1>3 DEF UsableInv, FormInv
<1>7. WholeInv'
  <2> SUFFICES ASSUME history'.pedigree = "whole" PROVE WholeInv'
    BY DEF WholeInv
  <2> DEFINE D == {e.key : e \in edges}
             E == EdgesIn(cache.groups)
             V == LoadedVertices(import_snb_full)
             W == LoadedVertices(import_snb_updates)
  <2>1. EdgesIn(cache'.groups) = D
    BY WrittenCache DEF UsableInv
  <2>2. CASE running = "import"
    <3>1. /\ V \subseteq vertex_file.rows
          /\ \A k \in ImportKeys : HasProp(k) => k \in DOMAIN prop_file.rows
          /\ Done(import_snb_full, Len(import_snb_full) - 1) = ImportKeys
          /\ \A n \in 0..(Len(import_snb_full) - 1) :
               todo = Rest(import_snb_full, n) => n = Len(import_snb_full) - 1
      BY <1>1, <2>2, ImportLoads, ImportCommand, LastStep DEF UsableInv, LoadInv
    <3>2. D = ImportKeys
      BY <2>2, <3>1 DEF UsableInv, LoadInv, Imported
    <3> HIDE DEF D
    <3> QED BY <1>2, <2>1, <3>1, <3>2 DEF WholeInv
  <2>3. CASE running = "updates"
    <3>1. /\ W \subseteq vertex_file.rows
          /\ \A k \in StreamKeys : HasProp(k) => k \in DOMAIN prop_file.rows
          /\ Done(import_snb_updates, Len(import_snb_updates) - 1) = StreamKeys
          /\ \A n \in 0..(Len(import_snb_updates) - 1) :
               todo = Rest(import_snb_updates, n) => n = Len(import_snb_updates) - 1
      BY <1>1, <2>3, UpdatesLoads, UpdatesCommand, LastStep DEF UsableInv, LoadInv
    <3>2. cache.exists /\ history.pedigree = "whole"
      BY <1>3, <2>3
    <3>3. /\ E \in {ImportKeys, ImportKeys \cup StreamKeys}
          /\ V \subseteq vertex_file.rows
          /\ \A k \in E : HasProp(k) =>
               k \in DOMAIN prop_file.rows \/ (history.cut /\ k \notin ImportKeys)
      BY <3>2 DEF UsableInv, WholeInv
    <3>4. PICK n \in 0..(Len(import_snb_updates) - 1), T \in 0..flushed : UpdatedTo(n, T)
      BY <2>3 DEF UsableInv, AdjacencyInv, UpdatesInv
    <3>5. {e.key : e \in Later(T)} = StreamKeys
      BY <3>1, <3>4 DEF UpdatedTo
    <3>6. Adjacency(cache.groups) /\ Lists(cache.groups, Older(T), StreamKeys)
      BY <3>2, <3>4 DEF UpdatedTo, Counts
    <3>7. E \cup StreamKeys = {e.key : e \in Older(T)} \cup StreamKeys
      BY <3>6, ListedKeys
    <3>8. edges = Older(T) \cup Later(T)
      <4>1. \A e \in edges : e.ts \in Int
        BY DEF UsableInv, AdjacencyInv, EngineInv, SnbRecord
      <4>2. \A e \in edges : e.ts <= T \/ e.ts > T
        BY <3>4, <4>1 DEF UsableInv, AdjacencyInv, EngineInv
      <4> QED BY <4>2 DEF Older, Later
    <3>9. D = {e.key : e \in Older(T)} \cup {e.key : e \in Later(T)}
      BY <3>8
    <3>10. D = ImportKeys \cup StreamKeys
      <4> HIDE DEF D, E
      <4> QED BY <3>3, <3>5, <3>7, <3>9
    <3>11. \A k \in ImportKeys : HasProp(k) => k \in DOMAIN prop_file.rows
      <4> HIDE DEF E
      <4> QED BY <3>3
    <3> HIDE DEF D, E
    <3> QED BY <1>2, <2>1, <3>1, <3>3, <3>10, <3>11 DEF WholeInv
  <2> QED BY <1>1, <2>2, <2>3
<1> QED BY <1>5, <1>6, <1>7

\* A kill leaves longer files.
LEMMA CrashUsable ==
  ASSUME UsableInv, Crash PROVE LoadInv' /\ FormInv' /\ WholeInv'
<1>1. DOMAIN vertex_file = {"state", "rows"} /\ DOMAIN prop_file = {"state", "rows"}
      /\ DOMAIN history = HistoryFields
  BY DEF UsableInv, FormInv, AdjacencyInv, EngineInv, HistoryFields
<1>2. PICK n \in 0..Len(vertex_buf), torn \in BOOLEAN :
        vertex_file' = Spilled(vertex_file,
                         vertex_file.rows \cup ToSet(SubSeq(vertex_buf, 1, n)), torn)
  BY DEF Crash
<1>3. PICK n_props \in 0..Len(prop_buf), torn_props \in BOOLEAN :
        prop_file' = Spilled(prop_file,
                       WithProps(prop_file.rows, SubSeq(prop_buf, 1, n_props)), torn_props)
  BY DEF Crash
<1>4. /\ vertex_file'.rows = vertex_file.rows \cup ToSet(SubSeq(vertex_buf, 1, n))
      /\ DOMAIN vertex_file' = {"state", "rows"}
  BY <1>1, <1>2 DEF Spilled
<1>5. /\ prop_file'.rows = WithProps(prop_file.rows, SubSeq(prop_buf, 1, n_props))
      /\ DOMAIN prop_file' = {"state", "rows"}
  BY <1>1, <1>3 DEF Spilled
<1>6. DOMAIN prop_file.rows \subseteq DOMAIN prop_file'.rows
  BY <1>5, WithPropsIs
<1>7. /\ running' = "none" /\ cache' = cache /\ vertex_buf' = <<>> /\ prop_buf' = <<>>
      /\ history'.pedigree = history.pedigree /\ history'.cut = history.cut
      /\ ~history'.complete
  BY <1>1 DEF Crash, HistoryFields
<1>8. WholeInv'
  BY <1>4, <1>6, <1>7, WholeKept DEF UsableInv
<1>9. FormInv'
  BY <1>4, <1>5, <1>7 DEF UsableInv, FormInv
<1> QED BY <1>7, <1>8, <1>9 DEF LoadInv

-----------------------------------------------------------------------------
(* The commands.                                                           *)

\* A command begins with nothing done.
LEMMA BeginLoading ==
  ASSUME NEW C, Command(C), todo' = C
  PROVE  Loading(C)' /\ todo' = Rest(C, 0) /\ Done(C, 0) = {} /\ 0 \in 0..(Len(C) - 1)
<1>1. 0 \in 0..(Len(C) - 1)
  BY DEF Command
<1>2. todo' = Rest(C, 0) /\ Done(C, 0) = {}
  BY <1>1, RestStep, DoneStep
<1>3. LoadedTo(C, 0)'
  BY DEF LoadedTo
<1> QED BY <1>1, <1>2, <1>3 DEF Loading

\* An import begins with an empty engine.
LEMMA BeginImportUsable ==
  ASSUME UsableInv, BeginImport PROVE LoadInv' /\ FormInv' /\ WholeInv'
<1>1. DOMAIN history = HistoryFields
  BY DEF UsableInv, AdjacencyInv, EngineInv, HistoryFields
<1>2. /\ running' = "import" /\ todo' = import_snb_full /\ edges' = {}
      /\ DOMAIN vertex_file' = {"state", "rows"} /\ DOMAIN prop_file' = {"state", "rows"}
      /\ UNCHANGED <<vertex_buf, prop_buf>>
      /\ history'.pedigree = "none" /\ ~history'.complete
  BY <1>1 DEF BeginImport, Starting, HistoryFields
<1>3. Loading(import_snb_full)' /\ todo' = Rest(import_snb_full, 0)
      /\ Done(import_snb_full, 0) = {} /\ 0 \in 0..(Len(import_snb_full) - 1)
  BY <1>2, ImportCommand, BeginLoading
<1>4. {e.key : e \in edges'} = {}
  BY <1>2
<1>5. Imported'
  BY <1>3, <1>4 DEF Imported
<1>6. LoadInv'
  BY <1>2, <1>3, <1>5 DEF LoadInv
<1> QED BY <1>2, <1>6 DEF UsableInv, FormInv, WholeInv

\* An update appends to the files.
LEMMA BeginUpdatesUsable ==
  ASSUME UsableInv, BeginUpdates PROVE LoadInv' /\ FormInv' /\ WholeInv'
<1>1. DOMAIN history = HistoryFields
      /\ DOMAIN vertex_file = {"state", "rows"} /\ DOMAIN prop_file = {"state", "rows"}
  BY DEF UsableInv, FormInv, AdjacencyInv, EngineInv, HistoryFields
<1>2. /\ running' = "updates" /\ todo' = import_snb_updates
      /\ vertex_file' = Appending(vertex_file) /\ prop_file' = Appending(prop_file)
      /\ UNCHANGED <<cache, vertex_buf, prop_buf>>
      /\ history'.pedigree = history.pedigree /\ history'.complete = history.complete
      /\ history'.behind = history.behind /\ history'.cut = history.cut
  BY <1>1 DEF BeginUpdates, Starting, HistoryFields
<1>3. /\ DOMAIN vertex_file' = {"state", "rows"} /\ vertex_file'.rows = vertex_file.rows
      /\ DOMAIN prop_file' = {"state", "rows"} /\ prop_file'.rows = prop_file.rows
  BY <1>1, <1>2 DEF Appending
<1>4. LoadInv'
  BY <1>2, UpdatesCommand, BeginLoading DEF LoadInv
<1>5. WholeInv'
  BY <1>2, <1>3, WholeKept DEF UsableInv
<1> QED BY <1>2, <1>3, <1>4, <1>5 DEF UsableInv, FormInv

\* A cache is built from the engine: a complete store has it already.
LEMMA ScannedUsable ==
  ASSUME UsableInv, running = "none", running' \in {"none", "server"},
         cache'.exists, cache'.groups = build(scan_edges),
         DOMAIN history' = HistoryFields, history'.cut = history.cut,
         history'.complete = history.complete, ~history'.behind,
         history'.pedigree = IF history.complete THEN "whole" ELSE "scan",
         UNCHANGED <<vertex_file, prop_file, vertex_buf, prop_buf>>
  PROVE  LoadInv' /\ FormInv' /\ WholeInv'
<1>1. LoadInv'
  BY DEF LoadInv
<1>2. FormInv'
  BY DEF UsableInv, FormInv
<1>3. CASE history.complete
  <2>1. cache.exists /\ history.pedigree = "whole" /\ ~history.behind
    BY <1>3 DEF UsableInv, FormInv
  <2>2. cache.groups = build(edges)
    BY <2>1 DEF UsableInv, AdjacencyInv, RestInv, AtRest, Counts
  <2>3. build(scan_edges) = build(edges)
    BY FreshCache DEF UsableInv, AdjacencyInv
  <2>4. WholeInv'
    BY <2>1, <2>2, <2>3, WholeKept DEF UsableInv
  <2> QED BY <1>1, <1>2, <2>4
<1>4. CASE ~history.complete
  <2>1. WholeInv'
    BY <1>4 DEF WholeInv
  <2> QED BY <1>1, <1>2, <2>1
<1> QED BY <1>3, <1>4

\* snb-cache and snb-server.
LEMMA ScanUsable ==
  ASSUME UsableInv, BuildAdjacencyCache \/ OpenServer
  PROVE  LoadInv' /\ FormInv' /\ WholeInv'
<1>1. DOMAIN history = HistoryFields
  BY DEF UsableInv, AdjacencyInv, EngineInv, HistoryFields
<1>2. CASE BuildAdjacencyCache
  <2>1. /\ running = "none" /\ running' = "none"
        /\ cache'.exists /\ cache'.groups = build(scan_edges) /\ history' = Scanned
        /\ UNCHANGED <<vertex_file, prop_file, vertex_buf, prop_buf>>
    BY <1>2 DEF BuildAdjacencyCache, Starting, bufVars
  <2>2. /\ DOMAIN history' = HistoryFields /\ history'.cut = history.cut
        /\ history'.complete = history.complete /\ ~history'.behind
        /\ history'.pedigree = IF history.complete THEN "whole" ELSE "scan"
    BY <1>1, <2>1 DEF Scanned, HistoryFields
  <2> QED BY <2>1, <2>2, ScannedUsable
<1>3. CASE OpenServer /\ ~cache.exists
  <2>1. /\ running = "none" /\ running' = "server"
        /\ cache'.exists /\ cache'.groups = build(scan_edges)
        /\ history' = [Scanned EXCEPT !.opened = served', !.applied = <<>>]
        /\ UNCHANGED <<vertex_file, prop_file, vertex_buf, prop_buf>>
    BY <1>3 DEF OpenServer, Starting, bufVars
  <2>2. /\ DOMAIN history' = HistoryFields /\ history'.cut = history.cut
        /\ history'.complete = history.complete /\ ~history'.behind
        /\ history'.pedigree = IF history.complete THEN "whole" ELSE "scan"
    BY <1>1, <2>1 DEF Scanned, HistoryFields
  <2> QED BY <2>1, <2>2, ScannedUsable
<1>4. CASE OpenServer /\ cache.exists
  <2>1. /\ running' = "server" /\ cache' = cache
        /\ history' = [[history EXCEPT !.commands = @ + 1]
                         EXCEPT !.opened = served', !.applied = <<>>]
        /\ UNCHANGED <<vertex_file, prop_file, vertex_buf, prop_buf>>
    BY <1>4 DEF OpenServer, Starting, bufVars
  <2>2. /\ history'.pedigree = history.pedigree /\ history'.complete = history.complete
        /\ history'.behind = history.behind /\ history'.cut = history.cut
    BY <1>1, <2>1 DEF HistoryFields
  <2>3. WholeInv'
    BY <2>1, <2>2, WholeKept DEF UsableInv
  <2> QED BY <2>1, <2>2, <2>3 DEF UsableInv, FormInv, LoadInv
<1> QED BY <1>2, <1>3, <1>4

\* snb-props drops the properties that the streams brought.
LEMMA PropsUsable ==
  ASSUME UsableInv, RebuildEdgeProps PROVE LoadInv' /\ FormInv' /\ WholeInv'
<1> DEFINE rows == WithProps(<<>>, PropRows(rebuild_snb_edge_props(Csv)))
<1>1. DOMAIN history = HistoryFields
  BY DEF UsableInv, AdjacencyInv, EngineInv, HistoryFields
<1> HIDE DEF rows
<1>2. /\ running' = "none" /\ UNCHANGED <<vertex_file, cache, vertex_buf, prop_buf>>
      /\ prop_file' = [state |-> "whole", rows |-> rows]
      /\ history' = [history EXCEPT !.cut = TRUE, !.commands = @ + 1]
  BY DEF RebuildEdgeProps, Starting, bufVars, rows
<1>3. /\ history'.pedigree = history.pedigree /\ history'.complete = history.complete
      /\ history'.behind = history.behind /\ history'.cut
  BY <1>1, <1>2 DEF HistoryFields
<1>4. DOMAIN prop_file' = {"state", "rows"} /\ prop_file'.rows = rows
  BY <1>2
<1>5. \A k \in ImportKeys : HasProp(k) => k \in DOMAIN rows
  BY RebuildCovers DEF rows
<1>6. WholeInv'
  BY <1>2, <1>3, <1>4, <1>5 DEF UsableInv, WholeInv
<1> QED BY <1>2, <1>3, <1>4, <1>6 DEF UsableInv, FormInv, LoadInv

\* The server leaves the files alone.
LEMMA ServerUsable ==
  ASSUME UsableInv, HttpUpdate \/ StopServer PROVE LoadInv' /\ FormInv' /\ WholeInv'
<1>1. DOMAIN history = HistoryFields
  BY DEF UsableInv, AdjacencyInv, EngineInv, HistoryFields
<1>2. /\ running' \in {"none", "server"}
      /\ UNCHANGED <<vertex_file, prop_file, cache, vertex_buf, prop_buf>>
      /\ history'.pedigree = history.pedigree /\ history'.complete = history.complete
      /\ history'.behind = history.behind /\ history'.cut = history.cut
  <2>1. CASE HttpUpdate
    BY <1>1, <2>1 DEF HttpUpdate, fileVars, bufVars, HistoryFields
  <2>2. CASE StopServer
    BY <1>1, <2>2 DEF StopServer, fileVars, bufVars, HistoryFields
  <2> QED BY <2>1, <2>2
<1>3. WholeInv'
  BY <1>2, WholeKept DEF UsableInv
<1> QED BY <1>2, <1>3 DEF UsableInv, FormInv, LoadInv

-----------------------------------------------------------------------------
(* The theorems.                                                           *)

\* Initially.
LEMMA UsableStart == Init => UsableInv
<1> SUFFICES ASSUME Init PROVE UsableInv
  OBVIOUS
<1>1. AdjacencyInv
  BY AdjacencyStart
<1>2. LoadInv /\ FormInv /\ WholeInv
  BY DEF Init, LoadInv, FormInv, WholeInv
<1> QED BY <1>1, <1>2 DEF UsableInv

\* Every step keeps the invariant.
LEMMA UsableStep == UsableInv /\ [Next]_vars => UsableInv'
<1> SUFFICES ASSUME UsableInv, [Next]_vars PROVE UsableInv'
  OBVIOUS
<1>1. AdjacencyInv'
  BY AdjacencyStep DEF UsableInv
<1>2. LoadInv' /\ FormInv' /\ WholeInv'
  <2>1. CASE BeginImport
    BY <2>1, BeginImportUsable
  <2>2. CASE BeginUpdates
    BY <2>2, BeginUpdatesUsable
  <2>3. CASE WriteVertex
    BY <2>3, VertexUsable
  <2>4. CASE InsertEdge
    BY <2>4, EdgeUsable
  <2>5. CASE FlushVertices
    BY <2>5, FlushVerticesUsable
  <2>6. CASE FlushProps
    BY <2>6, FlushPropsUsable
  <2>7. CASE FlushActive
    BY <2>7, FlushActiveUsable
  <2>8. CASE WriteCache
    BY <2>8, WriteUsable
  <2>9. CASE Crash
    BY <2>9, CrashUsable
  <2>10. CASE BuildAdjacencyCache \/ OpenServer
    BY <2>10, ScanUsable
  <2>11. CASE RebuildEdgeProps
    BY <2>11, PropsUsable
  <2>12. CASE HttpUpdate \/ StopServer
    BY <2>12, ServerUsable
  <2>13. CASE UNCHANGED vars
    <3>1. UNCHANGED <<edges, vertex_file, prop_file, cache, vertex_buf, prop_buf,
                      todo, running, history>>
      BY <2>13 DEF vars, engineVars, fileVars, bufVars
    <3>2. WholeInv'
      BY <3>1, WholeKept DEF UsableInv
    <3>3. LoadInv'
      BY <3>1 DEF UsableInv, LoadInv, Loading, LoadedTo, Imported, ToSet, KeysOf
    <3>4. FormInv'
      BY <3>1 DEF UsableInv, FormInv
    <3> QED BY <3>2, <3>3, <3>4
  <2> QED BY <2>1, <2>2, <2>3, <2>4, <2>5, <2>6, <2>7, <2>8, <2>9, <2>10, <2>11, <2>12,
             <2>13 DEF Next
<1> QED BY <1>1, <1>2 DEF UsableInv

\* What has been loaded is in the files before the cache refers to it.
THEOREM UsableInvariant == Spec => []UsableInv
<1> QED BY UsableStart, UsableStep, PTL DEF Spec

\* The edges of the import, and of the streams, have both ends.
LEMMA KeysMirrored ==
  /\ \A k \in ImportKeys : Twin(k) \in ImportKeys
  /\ \A k \in StreamKeys : Twin(k) \in StreamKeys
<1>1. ASSUME NEW C, NEW K, Loads(C, K), NEW k \in K
      PROVE  Twin(k) \in K
  <2>1. K = EdgesOf(ToSet(C)) /\ Whole(ToSet(C))
    BY <1>1, AllDone DEF Loads
  <2>2. PICK x \in ToSet(C) : x.op = "edge" /\ x.key = k
    BY <1>1, <2>1 DEF EdgesOf
  <2>3. PICK y \in ToSet(C) : y.op = "edge" /\ y.key = Twin(k)
    BY <2>1, <2>2 DEF Whole
  <2> QED BY <2>1, <2>3 DEF EdgesOf
<1>2. Loads(import_snb_full, ImportKeys) /\ Loads(import_snb_updates, StreamKeys)
  BY ImportLoads, UpdatesLoads
<1> QED BY <1>1, <1>2

\* So a whole cache can be used.
LEMMA WholeIsUsable == Referential /\ WholeInv => CacheUsable
<1> SUFFICES ASSUME Referential, WholeInv, history.pedigree = "whole"
             PROVE  /\ Mirrored(cache.groups)
                    /\ Known(cache.groups, vertex_file.rows, prop_file.rows, history.cut)
  BY DEF CacheUsable
<1> DEFINE E == EdgesIn(cache.groups)
           V == LoadedVertices(import_snb_full)
           W == LoadedVertices(import_snb_updates)
<1>1. /\ E \in {ImportKeys, ImportKeys \cup StreamKeys}
      /\ V \subseteq vertex_file.rows
      /\ E = ImportKeys \/ W \subseteq vertex_file.rows
      /\ \A k \in E : HasProp(k) =>
           k \in DOMAIN prop_file.rows \/ (history.cut /\ k \notin ImportKeys)
  BY DEF WholeInv
<1>2. LoadedKeys(import_snb_full) = ImportKeys /\ LoadedKeys(import_snb_updates) = StreamKeys
  BY ImportLoads, UpdatesLoads, AllDone DEF Loads
<1>3. /\ \A k \in ImportKeys : {k.src, k.dst} \subseteq V
      /\ \A k \in StreamKeys : {k.src, k.dst} \subseteq V \cup W
  BY <1>2 DEF Referential
<1> HIDE DEF V, W
<1>4. \A k \in E : Twin(k) \in E
  <2> HIDE DEF E
  <2> QED BY <1>1, KeysMirrored
<1>5. Mirrored(cache.groups)
  BY <1>4 DEF Mirrored, Twin
<1>6. \A k \in E : {k.src, k.dst} \subseteq vertex_file.rows
  <2> HIDE DEF E
  <2> QED BY <1>1, <1>3
<1>7. Known(cache.groups, vertex_file.rows, prop_file.rows, history.cut)
  BY <1>1, <1>6 DEF Known, HasProp
<1> QED BY <1>5, <1>7

\* If the input is referential, a cache that accounts for complete commands
\* can be used with the files beside it at any time, also after an update was
\* killed half-way.
THEOREM UsableCorrect == ASSUME Referential PROVE Spec => []CacheUsable
<1>1. UsableInv => CacheUsable
  BY WholeIsUsable DEF UsableInv
<1> QED BY <1>1, UsableInvariant, PTL

=============================================================================
