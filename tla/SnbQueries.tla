----------------------------- MODULE SnbQueries -----------------------------
(***************************************************************************)
(* The queries of the SNB benchmark that search the graph (src/snb/        *)
(* queries.rs), run on a graph that was imported and then receives updates *)
(* in any order, so that a reply may arrive before what it replies to and  *)
(* a friendship before a person.                                           *)
(*                                                                         *)
(* Results keep the ids, counts and dates that the query computes; names   *)
(* and contents that it only looks up are left out.                        *)
(***************************************************************************)
EXTENDS SnbGraph

CONSTANTS
  Csv,          \* the imported files
  HttpUpdates,  \* updates that clients send, each once
  MaxUpdates,   \* bound: updates applied
  Limit,        \* limit of the queries that have one
  Dates,        \* dates that clients ask about
  Duration,     \* days that they ask about
  Data          \* attributes of vertices: vid -> record

ASSUME QueriesAssumption ==
  /\ MaxUpdates \in Nat
  /\ Limit \in Nat \ {0}

VARIABLES graph, applied

\* SnbGraph::open after an import.
Imported ==
  LET writes == import_edges(Csv)
  IN [vertices |-> ToSet(import_vertices(Csv)),
      edge_props |-> WithProps(<<>>, PropRows(writes)),
      adjacency |-> build({Record(writes[i].key, i) : i \in DOMAIN writes})]

Init ==
  /\ graph = Imported
  /\ applied = {}

HttpUpdate ==
  /\ Cardinality(applied) < MaxUpdates
  /\ \E u \in HttpUpdates \ applied :
       /\ graph' = Updated(graph, u)
       /\ applied' = applied \cup {u}

Next == HttpUpdate

Spec == Init /\ [][Next]_<<graph, applied>>

-----------------------------------------------------------------------------
(* Parts of queries.                                                       *)

\* The first of a list, NoId if there is none.
First(list) == IF list = <<>> THEN NoId ELSE Head(list)

Total(list) == FoldLeft(LAMBDA sum, x : sum + x, 0, list)

truncate(rows, limit) ==
  SubSeq(rows, 1, IF Len(rows) < limit THEN Len(rows) ELSE limit)

\* The largest number first, then the smallest id.
BiggestFirst(a, b) == a.n > b.n \/ (a.n = b.n /\ a.id < b.id)

Ranked(rows, limit) == truncate(SortSeq(rows, BiggestFirst), limit)

person(vid) == IsA(graph, vid, Person)
comment(vid) == IsA(graph, vid, Comment)
post(vid) == IsA(graph, vid, Post)

knows_neighbors(vid) == out_neighbors_cached(graph, vid, Knows)

has_tag_neighbors(vid) == out_neighbors_cached(graph, vid, HasTag)

in_posts_creators(person_vid) ==
  SelectSeq(in_neighbors_cached(graph, person_vid, HasCreator), post)

in_messages_creators(person_vid) ==
  SelectSeq(in_neighbors_cached(graph, person_vid, HasCreator),
            LAMBDA vid : post(vid) \/ comment(vid))

message_creator_vid(msg) == First(out_neighbors_cached(graph, msg, HasCreator))

knows_bfs_2hop(start) ==
  LET frontier == ToSet(knows_neighbors(start))
  IN (frontier \cup UNION {ToSet(knows_neighbors(vid)) : vid \in frontier}) \ {start}

RECURSIVE root_of(_, _)
root_of(current, seen) ==
  LET root == First(out_neighbors_cached(graph, current, ReplyOfPost))
      parent == First(out_neighbors_cached(graph, current, ReplyOfComment))
  IN IF current \in seen THEN NoId
     ELSE IF root # NoId THEN root
     ELSE IF parent = NoId THEN NoId ELSE root_of(parent, seen \cup {current})

\* Slip: only a direct reply has a root.
root_post_vid_direct(msg) ==
  IF post(msg) THEN msg ELSE First(out_neighbors_cached(graph, msg, ReplyOfPost))

root_post_vid(msg) == IF post(msg) THEN msg ELSE root_of(msg, {})

-----------------------------------------------------------------------------
(* Paths of friends.                                                       *)

push_back(queue, entries) == queue \o entries

\* The queue of ic13 holds [vid, depth]; seen are the vertices ever queued.
RECURSIVE search(_, _, _)
search(queue, seen, goal) ==
  IF queue = <<>> THEN -1
  ELSE LET at == Head(queue)
           fresh == SelectSeq(knows_neighbors(at.vid), LAMBDA n : n \notin seen)
       IN IF goal \in ToSet(fresh) THEN at.depth + 1
          ELSE search(push_back(Tail(queue),
                        [i \in DOMAIN fresh |->
                           [vid |-> fresh[i], depth |-> at.depth + 1]]),
                      seen \cup ToSet(fresh), goal)

ic13(start, goal) ==
  IF start = goal THEN 0
  ELSE IF ~person(start) \/ ~person(goal) THEN -1
  ELSE search(<<[vid |-> start, depth |-> 0]>>, {start}, goal)

\* Slip: a vertex keeps the first parent that reached it.
AddParent_first(dag, nbr, from) == dag

AddParent(dag, nbr, from) == [dag EXCEPT !.parents[nbr] = Append(@, from)]

\* One neighbor met at next_depth in the search for parents.
Meet(dag, from, nbr, next_depth) ==
  IF nbr \notin DOMAIN dag.depths
    THEN [depths |-> (nbr :> next_depth) @@ dag.depths,
          parents |-> (nbr :> <<from>>) @@ dag.parents,
          next |-> Append(dag.next, nbr)]
  ELSE IF dag.depths[nbr] = next_depth THEN AddParent(dag, nbr, from)
  ELSE dag

\* A level is searched to its end also when it has the goal.
RECURSIVE levels(_, _)
levels(dag, goal) ==
  IF dag.next = <<>> \/ goal \in DOMAIN dag.depths THEN dag
  ELSE LET next_depth == dag.depths[Head(dag.next)] + 1
           met(d, from) ==
             FoldLeft(LAMBDA e, nbr : Meet(e, from, nbr, next_depth),
                      d, knows_neighbors(from))
       IN levels(FoldLeft(met, [dag EXCEPT !.next = <<>>], dag.next), goal)

shortest_path_parent_dag(start, goal) ==
  levels([depths |-> start :> 0, parents |-> start :> <<>>, next |-> <<start>>], goal)

RECURSIVE enumerate_paths(_, _)
enumerate_paths(dag, cur) ==
  IF dag.depths[cur] = 0 THEN <<<<cur>>>>
  ELSE ForEach(dag.parents[cur],
         LAMBDA parent : LET paths == enumerate_paths(dag, parent)
                         IN [i \in DOMAIN paths |-> Append(paths[i], cur)])

all_shortest_paths(start, goal) ==
  LET dag == shortest_path_parent_dag(start, goal)
  IN IF goal \in DOMAIN dag.depths THEN enumerate_paths(dag, goal) ELSE <<>>

\* Replies of author to target, in halves: two for one to a post.
reply_weight(author, target) ==
  LET written == SelectSeq(in_neighbors_cached(graph, author, HasCreator),
                           LAMBDA msg : message_creator_vid(msg) = author)
      to(msg, label) == SelectSeq(out_neighbors_cached(graph, msg, label),
                                  LAMBDA m : message_creator_vid(m) = target)
  IN Total([i \in DOMAIN written |-> 2 * Len(to(written[i], ReplyOfPost))
                                       + Len(to(written[i], ReplyOfComment))])

knows_weight(a, b) == reply_weight(a, b) + reply_weight(b, a)

path_weight(path) ==
  Total([i \in 1..Len(path) - 1 |-> knows_weight(path[i], path[i + 1])])

\* The heaviest path first; which of two equally heavy ones is left open, and
\* so is the form of a path (person_path_ids drops persons that are not there).
ic14(start, goal) ==
  IF ~person(start) \/ ~person(goal) THEN <<>>
  ELSE LET paths == all_shortest_paths(start, goal)
       IN SortSeq([i \in DOMAIN paths |->
                     [path |-> paths[i], weight |-> path_weight(paths[i])]],
                  LAMBDA a, b : a.weight > b.weight)

-----------------------------------------------------------------------------
(* Friends.                                                                *)

\* The neighbors of a frontier that were not visited, in order, each once.
NextFrontier(visited, frontier) ==
  FoldLeft(LAMBDA next, nbr : IF nbr \in visited \cup ToSet(next) THEN next
                              ELSE Append(next, nbr),
           <<>>, ForEach(frontier, knows_neighbors))

\* The loop of ic1 over the distances 1, 2, 3, left early when a level has
\* filled the limit or is empty.
ic1_search(start, first_name, visited) ==
  LET level(s, distance) ==
        IF s.done THEN s
        ELSE LET next == NextFrontier(s.visited, s.frontier)
                 found == SelectSeq(next, LAMBDA v :
                            person(v) /\ Data[v].first_name = first_name)
                 candidates == s.candidates \o
                   [i \in DOMAIN found |->
                      [distance |-> distance, last_name |-> Data[found[i]].last_name,
                       id |-> external_id(found[i])]]
             IN [visited |-> s.visited \cup ToSet(next), frontier |-> next,
                 candidates |-> candidates,
                 done |-> Len(candidates) >= Limit \/ next = <<>>]
  IN FoldLeft(level, [visited |-> visited, frontier |-> <<start>>,
                      candidates |-> <<>>, done |-> FALSE],
              <<1, 2, 3>>).candidates

NearestFirst(a, b) ==
  \/ a.distance < b.distance
  \/ /\ a.distance = b.distance
     /\ a.last_name < b.last_name \/ (a.last_name = b.last_name /\ a.id < b.id)

\* Slip: the person that asks is not marked as visited.
ic1_unmarked(start, first_name) ==
  IF ~person(start) THEN <<>>
  ELSE truncate(SortSeq(ic1_search(start, first_name, {}), NearestFirst), Limit)

ic1(start, first_name) ==
  IF ~person(start) THEN <<>>
  ELSE truncate(SortSeq(ic1_search(start, first_name, {start}), NearestFirst), Limit)

collect_xy_persons(countries) ==
  {p \in UNION {ToSet(in_neighbors_cached(graph, city, IsLocatedIn)) :
                  city \in UNION {ToSet(in_neighbors_cached(graph, c, IsPartOf)) :
                                     c \in countries}} : person(p)}

\* Slip: what friends of strangers know is not searched.
bfs_non_xy_friends_first(start, xy_persons) ==
  LET own == ToSet(knows_neighbors(start)) \ xy_persons
  IN own \cup (UNION {ToSet(knows_neighbors(vid)) : vid \in own}
                 \ ({start} \cup xy_persons))

bfs_non_xy_friends(start, xy_persons) ==
  LET frontier == ToSet(knows_neighbors(start))
      second == UNION {ToSet(knows_neighbors(vid)) : vid \in frontier}
                  \ ({start} \cup frontier)
  IN (frontier \cup second) \ xy_persons

\* The creators of the messages at a place in [start_date, end_date), once
\* for every message.
place_incoming_messages(place, start_date, end_date) ==
  LET messages ==
        SelectSeq(in_neighbors_cached(graph, place, IsLocatedIn),
          LAMBDA m : /\ post(m) \/ comment(m)
                     /\ start_date <= Data[m].creation_date
                     /\ Data[m].creation_date < end_date
                     /\ message_creator_vid(m) # NoId)
  IN [i \in DOMAIN messages |-> message_creator_vid(messages[i])]

\* The countries are found by name; start_date + duration saturates.
ic3(start, country_x, country_y, start_date, end_date) ==
  LET friends == bfs_non_xy_friends(start, collect_xy_persons({country_x, country_y}))
      count(vid, country) ==
        Len(SelectSeq(place_incoming_messages(country, start_date, end_date),
                      LAMBDA creator : creator = vid))
      row(vid) == [id |-> external_id(vid), x |-> count(vid, country_x),
                   y |-> count(vid, country_y),
                   n |-> count(vid, country_x) + count(vid, country_y)]
      rows == {r \in {row(vid) : vid \in {f \in friends : person(f)}} :
                 r.x > 0 /\ r.y > 0}
  IN IF person(start) THEN Ranked(SetToSeq(rows), Limit) ELSE <<>>

\* Slip: a post counts for a forum that its creator joined too early.
ic5_forums_any(friend, min_date) ==
  ToSet(in_neighbors_cached(graph, friend, HasMember))

\* Forums that a friend joined since min_date.
ic5_forums(friend, min_date) ==
  {forum \in ToSet(in_neighbors_cached(graph, friend, HasMember)) :
     edge_prop_by_type(graph, friend, -HasMember, forum) >= min_date}

\* A forum that is not there yet has id 0.
ic5(start, min_date) ==
  LET friends == knows_bfs_2hop(start)
      posts(friend, forum) ==
        Len(SelectSeq(in_posts_creators(friend),
              LAMBDA p : forum \in ToSet(in_neighbors_cached(graph, p, ContainerOf))))
      joined(forum) == {f \in friends : forum \in ic5_forums(f, min_date)}
      row(forum) ==
        [id |-> IF IsA(graph, forum, Forum) THEN external_id(forum) ELSE 0,
         n |-> FoldSet(LAMBDA f, sum : sum + posts(f, forum), 0, joined(forum))]
      forums == SetToSeq(UNION {ic5_forums(f, min_date) : f \in friends})
  IN IF person(start)
       THEN Ranked([i \in DOMAIN forums |-> row(forums[i])], Limit) ELSE <<>>

-----------------------------------------------------------------------------
(* Likes and replies.                                                      *)

\* Slip: a later like of the list replaces an earlier one.
keep_best_like_last(best, like) == (like.liker :> like) @@ best

\* The first of two likes at one time stays.
keep_best_like(best, like) ==
  IF like.liker \in DOMAIN best /\ like.time <= best[like.liker].time THEN best
  ELSE (like.liker :> like) @@ best

likes(msg, label) ==
  LET likers == in_neighbors_cached(graph, msg, label)
  IN [i \in DOMAIN likers |->
        [liker |-> likers[i], msg |-> msg,
         time |-> edge_prop_by_type(graph, msg, -label, likers[i])]]

\* minutes_latency divides towards zero.
ic7(start) ==
  LET best == FoldLeft(keep_best_like, <<>>,
                ForEach(in_messages_creators(start),
                        LAMBDA msg : likes(msg, LikesPost) \o likes(msg, LikesComment)))
      row(liker) == [id |-> external_id(liker), n |-> best[liker].time,
                     message |-> best[liker].msg,
                     is_new |-> liker \notin ToSet(knows_neighbors(start))]
  IN IF person(start)
       THEN Ranked(SetToSeq({row(l) : l \in {l \in DOMAIN best : person(l)}}), Limit)
       ELSE <<>>

\* Slip: replies to comments are left out.
ic8_replies_posts(msg) == in_neighbors_cached(graph, msg, ReplyOfPost)

ic8_replies(msg) ==
  in_neighbors_cached(graph, msg, ReplyOfPost)
    \o in_neighbors_cached(graph, msg, ReplyOfComment)

\* The limit counts replies whose author is not there yet.
ic8(start) ==
  LET replies == SelectSeq(ForEach(in_neighbors_cached(graph, start, HasCreator),
                                   ic8_replies), comment)
      row(r) == [id |-> external_id(r), n |-> Data[r].creation_date, vid |-> r,
                 author |-> message_creator_vid(r)]
  IN IF person(start)
       THEN SelectSeq(Ranked([i \in DOMAIN replies |-> row(replies[i])], Limit),
                      LAMBDA r : person(r.author))
       ELSE <<>>

\* Friends of a person, each with the date of the friendship.
is3(start) ==
  LET friends == SelectSeq(knows_neighbors(start), person)
  IN IF person(start)
       THEN Ranked([i \in DOMAIN friends |->
                      [id |-> external_id(friends[i]),
                       n |-> edge_prop_by_type(graph, start, Knows, friends[i])]],
                   Len(friends))
       ELSE <<>>

\* Posts and comments share their ids.
message_vid(message_id) ==
  IF post(encode_vid(Post, message_id)) THEN encode_vid(Post, message_id)
  ELSE IF comment(encode_vid(Comment, message_id)) THEN encode_vid(Comment, message_id)
  ELSE NoId

\* Replies to a message; id is that of the author.
is7(message_id) ==
  LET msg == message_vid(message_id)
      original == message_creator_vid(msg)
      replies == SelectSeq(in_neighbors_cached(graph, msg, ReplyOfPost)
                             \o in_neighbors_cached(graph, msg, ReplyOfComment),
                   LAMBDA r : comment(r) /\ person(message_creator_vid(r)))
      row(r) == [id |-> external_id(message_creator_vid(r)), vid |-> r,
                 n |-> Data[r].creation_date,
                 knows |-> message_creator_vid(r) \in ToSet(knows_neighbors(original))]
  IN IF msg = NoId \/ original = NoId THEN <<>>
     ELSE Ranked([i \in DOMAIN replies |-> row(replies[i])], Len(replies))

\* Messages of a person with the post that each one belongs to.
is2(start) ==
  LET rooted(m) == LET root == root_post_vid(m)
                   IN post(root) /\ person(message_creator_vid(root))
      messages == SelectSeq(in_messages_creators(start), rooted)
      row(m) == [id |-> external_id(m), n |-> Data[m].creation_date, vid |-> m,
                 root |-> root_post_vid(m)]
  IN IF person(start)
       THEN Ranked([i \in DOMAIN messages |-> row(messages[i])], Limit)
       ELSE <<>>

\* The forum of a message and its moderator.
is6(message_id) ==
  LET root == root_post_vid(message_vid(message_id))
      forum == First(in_neighbors_cached(graph, root, ContainerOf))
      moderator == First(out_neighbors_cached(graph, forum, HasModerator))
  IN IF IsA(graph, forum, Forum) /\ person(moderator)
       THEN <<[forum |-> forum, moderator |-> moderator]>> ELSE <<>>

-----------------------------------------------------------------------------
(* Tag classes.                                                            *)

\* Slip: only direct subclasses count.
tag_class_ancestors_direct(root) ==
  {root} \cup ToSet(in_neighbors_cached(graph, root, IsSubclassOf))

RECURSIVE ancestors(_, _)
ancestors(queue, out) ==
  IF queue = <<>> THEN out
  ELSE IF Head(queue) \in out THEN ancestors(Tail(queue), out)
  ELSE ancestors(Tail(queue) \o in_neighbors_cached(graph, Head(queue), IsSubclassOf),
                 out \cup {Head(queue)})

tag_class_ancestors_like_dgs(root) == ancestors(<<root>>, {})

\* Comments of friends on posts with a tag of a class or of one below it.
ic12(start, tag_class) ==
  LET classes == tag_class_ancestors_like_dgs(tag_class)
      tag_set == {t \in graph.vertices :
                    /\ IsA(graph, t, Tag)
                    /\ ToSet(out_neighbors_cached(graph, t, HasType)) \cap classes # {}}
      tags_of(msg) ==
        ToSet(has_tag_neighbors(First(out_neighbors_cached(graph, msg, ReplyOfPost))))
          \cap tag_set
      matched(friend) ==
        SelectSeq(in_messages_creators(friend),
                  LAMBDA m : comment(m) /\ tags_of(m) # {})
      row(friend) == [id |-> external_id(friend), n |-> Len(matched(friend)),
                      tags |-> UNION {tags_of(m) : m \in ToSet(matched(friend))}]
      rows == {r \in {row(f) : f \in {f \in ToSet(knows_neighbors(start)) : person(f)}} :
                 r.n > 0}
  IN IF person(start) THEN Ranked(SetToSeq(rows), Limit) ELSE <<>>

-----------------------------------------------------------------------------
(* Properties.  Each compares a search with what the edges say.            *)

Persons == {v \in graph.vertices : person(v)}
Messages == {v \in graph.vertices : post(v) \/ comment(v)}

Edge(src, label, dst) == dst \in ToSet(out_neighbors_cached(graph, src, label))

\* Vertices with a friend, and who is reached in at most n steps.
Social == {g[1] : g \in {g \in DOMAIN graph.adjacency : g[2] = Knows}}

Within(start) ==
  LET within[n \in 0..Cardinality(Social) + 1] ==
        IF n = 0 THEN {start}
        ELSE LET nearer == within[n - 1]
             IN nearer \cup {v \in Social : \E u \in nearer : Edge(u, Knows, v)}
  IN within

\* Friends and friends of friends.
Near(person_vid) == Within(person_vid)[2] \ {person_vid}

Distance(start, goal) ==
  LET within == Within(start)
      steps == {n \in DOMAIN within : goal \in within[n]}
  IN IF steps = {} THEN -1 ELSE CHOOSE n \in steps : \A m \in steps : n <= m

Walks(start, length) ==
  LET walks[n \in 0..length] ==
        IF n = 0 THEN {<<start>>}
        ELSE UNION {{Append(w, v) : v \in {v \in Social : Edge(w[n], Knows, v)}} :
                      w \in walks[n - 1]}
  IN walks[length]

\* Replies between two persons in halves.
Exchange(a, b) ==
  LET replies(label) == {r \in Messages \X Messages :
                           /\ Edge(r[1], label, r[2])
                           /\ \/ Edge(r[1], HasCreator, a) /\ Edge(r[2], HasCreator, b)
                              \/ Edge(r[1], HasCreator, b) /\ Edge(r[2], HasCreator, a)}
  IN 2 * Cardinality(replies(ReplyOfPost)) + Cardinality(replies(ReplyOfComment))

\* IC13 returns the length of a shortest path, -1 if there is none, and IC14
\* all shortest paths and nothing else, each once and with the weight of the
\* replies along it, in decreasing order of weight, whatever order the
\* friendships came in.
AllShortestPaths ==
  \A a, b \in Persons :
    LET rows == ic14(a, b)
    IN /\ ic13(a, b) = Distance(a, b)
       /\ {rows[i].path : i \in DOMAIN rows} =
            IF Distance(a, b) = -1 THEN {}
            ELSE {w \in Walks(a, Distance(a, b)) : Last(w) = b}
       /\ \A i, j \in DOMAIN rows : i < j =>
            rows[i].path # rows[j].path /\ rows[i].weight >= rows[j].weight
       /\ \A i \in DOMAIN rows :
            rows[i].weight = Total([k \in 1..Len(rows[i].path) - 1 |->
                                      Exchange(rows[i].path[k], rows[i].path[k + 1])])

FirstNames == {Data[p].first_name : p \in Persons}

\* IC1 stops at the first distance that fills the limit; still it returns
\* the best of all persons of that name up to distance three.
NearestByName ==
  \A a \in Persons, name \in FirstNames :
    LET named == {p \in Persons : Data[p].first_name = name /\ Distance(a, p) \in 1..3}
        row(p) == [distance |-> Distance(a, p), last_name |-> Data[p].last_name,
                   id |-> external_id(p)]
    IN ic1(a, name) = truncate(SortSeq(SetToSeq({row(p) : p \in named}), NearestFirst), Limit)

Countries == {g[1] : g \in {g \in DOMAIN graph.adjacency : g[2] = -IsPartOf}}

LivesIn(p, country) ==
  \E city \in ToSet(out_neighbors_cached(graph, p, IsLocatedIn)) :
    Edge(city, IsPartOf, country)

\* IC3 finds exactly the friends and friends of friends who live in neither
\* country and wrote in both, with the right counts, also when the only way
\* to one leads through somebody who lives there.
TwoCountries ==
  \A a \in Persons, x, y \in Countries, from \in Dates :
    x < y =>
      LET wrote(p, c) == Cardinality({m \in Messages :
                           Edge(m, HasCreator, p) /\ Edge(m, IsLocatedIn, c)
                             /\ Data[m].creation_date \in from..(from + Duration - 1)})
          who == {p \in Near(a) \cap Persons :
                    /\ ~LivesIn(p, x) /\ ~LivesIn(p, y)
                    /\ wrote(p, x) > 0 /\ wrote(p, y) > 0}
          row(p) == [id |-> external_id(p), x |-> wrote(p, x), y |-> wrote(p, y),
                     n |-> wrote(p, x) + wrote(p, y)]
      IN ic3(a, x, y, from, from + Duration) = Ranked(SetToSeq({row(p) : p \in who}), Limit)

\* IC5 counts for every forum the posts in it by friends and friends of
\* friends who joined it since the date, and lists no other forum.
ForumCounts ==
  \A a \in Persons, min_date \in Dates :
    LET near == Near(a)
        joined(forum) == {p \in near : Edge(forum, HasMember, p) /\
          edge_prop_by_type(graph, forum, HasMember, p) >= min_date}
        forums == {f \in graph.vertices : IsA(graph, f, Forum) /\ joined(f) # {}}
        row(f) == [id |-> external_id(f),
                   n |-> Cardinality({m \in Messages : post(m) /\ Edge(f, ContainerOf, m)
                           /\ \E p \in joined(f) : Edge(m, HasCreator, p)})]
    IN ic5(a, min_date) = Ranked(SetToSeq({row(f) : f \in forums}), Limit)

\* IC7 shows each liker once, with the latest like of any message of the
\* person, and new exactly when the two do not know each other.
LatestLikes ==
  \A a \in Persons :
    LET likes_of(p) == {k \in EdgesIn(graph.adjacency) :
                          /\ k.src = p /\ k.edge_type \in {LikesPost, LikesComment}
                          /\ Edge(k.dst, HasCreator, a) /\ k.dst \in Messages}
        time(k) == edge_prop_by_type(graph, k.src, k.edge_type, k.dst)
        best(p) == CHOOSE t \in {time(k) : k \in likes_of(p)} :
                     \A k \in likes_of(p) : time(k) <= t
        likers == {p \in Persons : likes_of(p) # {}}
        row(p) == [id |-> external_id(p), n |-> best(p)]
        rows == ic7(a)
    IN /\ [i \in DOMAIN rows |-> [id |-> rows[i].id, n |-> rows[i].n]] =
            Ranked(SetToSeq({row(p) : p \in likers}), Limit)
       /\ \A i \in DOMAIN rows :
            LET p == encode_vid(Person, rows[i].id)
            IN /\ \E k \in likes_of(p) : time(k) = rows[i].n /\ k.dst = rows[i].message
               /\ rows[i].is_new = ~Edge(a, Knows, p)

\* IC8, IS7 and IS3 tell the same story: of the newest comments on the messages
\* of a person, whoever wrote them, IC8 shows those that are listed at the
\* messages, and the mark of a reply at a message agrees with the friends of
\* its author.
RepliesAgree ==
  \A a \in Persons :
    LET own == {m \in Messages : message_creator_vid(m) = a}
        answers == {r \in Messages : /\ comment(r)
                                     /\ \E m \in own : \/ Edge(r, ReplyOfPost, m)
                                                       \/ Edge(r, ReplyOfComment, m)}
        newer(q, r) == BiggestFirst([n |-> Data[q].creation_date, id |-> external_id(q)],
                                    [n |-> Data[r].creation_date, id |-> external_id(r)])
        newest == {r \in answers : Cardinality({q \in answers : newer(q, r)}) < Limit}
        listed == UNION {ToSet(is7(external_id(m))) : m \in own}
        shown == ic8(a)
        friends == {r.id : r \in ToSet(is3(a))}
    IN /\ {r.vid : r \in ToSet(shown)} = {r.vid : r \in listed} \cap newest
       /\ \A i, j \in DOMAIN shown : i < j => newer(shown[i].vid, shown[j].vid)
       /\ \A r \in listed : r.knows = (r.id \in friends)

\* The posts at the end of the replies above a message, there or not.
Roots(msg) ==
  LET above[n \in 0..Cardinality(Messages)] ==
        IF n = 0 THEN {msg}
        ELSE LET lower == above[n - 1]
             IN lower \cup UNION {ToSet(out_neighbors_cached(graph, m, ReplyOfPost))
                  \cup ToSet(out_neighbors_cached(graph, m, ReplyOfComment)) : m \in lower}
  IN {m \in above[Cardinality(Messages)] : m \div LabelSpan = Post}

\* The post that IS2 and IS6 find for a message is the one its chain of
\* replies leads to, in whatever order the replies came in; a whole thread
\* has the forum of its post; and IS2 shows every message with a post.
ThreadRoot ==
  /\ \A m \in Messages :
       LET root == root_post_vid(m)
       IN /\ Roots(m) = IF root = NoId THEN {} ELSE {root}
          /\ root \in Messages => is6(external_id(m)) = is6(external_id(root))
  /\ \A a \in Persons :
       LET rooted == {m \in Messages :
             /\ Edge(m, HasCreator, a)
             /\ \E r \in Roots(m) \cap Messages, p \in Persons : Edge(r, HasCreator, p)}
           row(m) == [id |-> external_id(m), n |-> Data[m].creation_date, vid |-> m,
                      root |-> CHOOSE r \in Roots(m) : TRUE]
       IN is2(a) = Ranked(SetToSeq({row(m) : m \in rooted}), Limit)

\* The classes from which a class is reached upwards, itself included.
Below(class) ==
  LET classes == {c \in graph.vertices : IsA(graph, c, TagClass)}
      below[n \in 0..Cardinality(classes)] ==
        IF n = 0 THEN {class}
        ELSE LET upper == below[n - 1]
             IN upper \cup {c \in classes : \E d \in upper : Edge(c, IsSubclassOf, d)}
  IN below[Cardinality(classes)]

\* IC12 counts the comments of a friend that answer posts with a tag of the
\* class or of any class below it, and names those tags.
ReplyTopics ==
  \A a \in Persons, class \in {c \in graph.vertices : IsA(graph, c, TagClass)} :
    LET typed == {t \in graph.vertices : \E c \in Below(class) : Edge(t, HasType, c)}
        tags(m) == {t \in typed : \E p \in Messages :
                      Edge(m, ReplyOfPost, p) /\ Edge(p, HasTag, t)}
        answers(f) == {m \in Messages : comment(m) /\ Edge(m, HasCreator, f) /\ tags(m) # {}}
        friends == {f \in Persons : Edge(a, Knows, f) /\ answers(f) # {}}
        row(f) == [id |-> external_id(f), n |-> Cardinality(answers(f)),
                   tags |-> UNION {tags(m) : m \in answers(f)}]
    IN ic12(a, class) = Ranked(SetToSeq({row(f) : f \in friends}), Limit)

=============================================================================
