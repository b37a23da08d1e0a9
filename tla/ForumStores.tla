---------------------------- MODULE ForumStores ----------------------------
(***************************************************************************)
(* The two repositories of the forum and the addons, in DynamoDB and in    *)
(* SQLite, called side by side, one call at a time.  What DynamoDB writes  *)
(* is what Community writes, with the attributes the listings need; the    *)
(* tables of SQLite are sets of rows.                                      *)
(***************************************************************************)
EXTENDS Integers, Sequences, FiniteSets

LOCAL INSTANCE SequencesExt

CONSTANTS
    Voter,     \* users
    Category,
    Label,     \* ids of tags
    Course,    \* what a thread may be linked to
    MaxTime    \* how many calls are made

ASSUME ForumStoresConstants == MaxTime \in Nat

VARIABLES
    forum,  \* the items of DynamoDB
    sql,    \* the tables of SQLite
    now     \* the number of calls: the time, and the id of what is created

forumVars == <<forum, sql, now>>

Com == INSTANCE Community
          WITH User <- Voter, Tag <- Label, Content <- Course, MaxCards <- 0, Worker <- {},
               MaxRequests <- MaxTime, MaxCrash <- 0, items <- forum, call <- <<>>,
               requests <- now, crashes <- 0, shared <- {}, torn <- {}, spoiled <- {}

InForum(key) == key \in DOMAIN forum

NoForumRows ==
    [threads |-> {}, tags |-> {}, links |-> {}, posts |-> {}, votes |-> {}, addons |-> {}]

ForumInit ==
    /\ forum = <<>>
    /\ sql = NoForumRows
    /\ now = 0

\* A call: what it writes to the items, and the tables after it.
Call(todo, after) ==
    /\ now < MaxTime
    /\ now' = now + 1
    /\ forum' = Com!AfterAll(todo)
    /\ sql' = after

\* UPDATE ... WHERE id = ?, and update_item.
Change(table, id, NewRow(_)) == {IF r.id = id THEN NewRow(r) ELSE r : r \in table}
Set(key, attributes) == {Com!Update(key, attributes, <<>>)}

-----------------------------------------------------------------------------
(* Threads and replies.                                                    *)

\* The tags of a thread are deleted and inserted, its links one by one, if new.
SqlSetTags(t, tags) == {p \in sql.tags : p[1] # t} \cup ({t} \X tags)
SqlAddLinks(t, links) == sql.links \cup ({t} \X links)

\* create_thread, set_thread_tags, and add_content_link for each link.  index is
\* the category of the index; at is updated_at.
PutThreads(c, tags, links) ==
    LET t == now + 1
        linking == [l \in links |-> Com!AddContentLink(t, l)]
    IN  Call(<<{Com!Put(Com!Thread(t), [category |-> c, index |-> c, replies |-> 0,
                                        up |-> 0, down |-> 0, at |-> t])}>>
                \o Com!SetThreadTags(t, tags)
                \o FoldLeft(LAMBDA plan, l : plan \o linking[l], <<>>, SetToSeq(links)),
             [sql EXCEPT
                !.threads = @ \cup {[id |-> t, category |-> c, replies |-> 0,
                                     up |-> 0, down |-> 0, at |-> t]},
                !.tags = SqlSetTags(t, tags),
                !.links = SqlAddLinks(t, links)])

\* No patch of a thread moves it to another category, or pins it.
PatchThreads(t) ==
    /\ InForum(Com!Thread(t))
    /\ Call(<<Set(Com!Thread(t), [at |-> now + 1])>>,
            [sql EXCEPT !.threads = Change(@, t, LAMBDA r : [r EXCEPT !.at = now + 1])])

PutPosts(t) ==
    LET p == now + 1
        new == Com!NewPost(t, p)
    IN  /\ InForum(Com!Thread(t))
        /\ Call(<<{Com!Put(Com!PostIn(t, p), new), Com!Put(Com!Post(p), new)},
                  {Com!CountReply(t)}, Set(Com!Thread(t), [at |-> p])>>,
                [sql EXCEPT
                   !.posts = @ \cup {[id |-> p, thread |-> t, text |-> p, up |-> 0, down |-> 0]},
                   !.threads = Change(@, t, LAMBDA r : [r EXCEPT !.replies = @ + 1, !.at = p])])

PatchPosts(p) ==
    /\ InForum(Com!Post(p))
    /\ Call(Com!SetBothPostRows(p, [text |-> now + 1]),
            [sql EXCEPT !.posts = Change(@, p, LAMBDA r : [r EXCEPT !.text = now + 1])])

-----------------------------------------------------------------------------
(* Votes: put or deleted, and then counted.                                *)

VotesWith(s, u, cast, value) ==
    Cardinality((Com!Votes(s, value) \ {u}) \cup (IF cast = value THEN {u} ELSE {}))

\* Inserted, or the value replaced; deleted for "none".
SqlVotes(s, u, cast) ==
    {v \in sql.votes : ~(v[1] = u /\ v[2] = s)}
        \cup (IF cast = "none" THEN {} ELSE {<<u, s, cast>>})

CountsIn(votes, s) ==
    [up |-> Cardinality({v \in votes : v[2] = s /\ v[3] = "up"}),
     down |-> Cardinality({v \in votes : v[2] = s /\ v[3] = "down"})]

PutVotes(s, u, cast) ==
    LET kind == s[1]
        id == s[2]
        counts == [up |-> VotesWith(s, u, cast, "up"), down |-> VotesWith(s, u, cast, "down")]
        votes == SqlVotes(s, u, cast)
        row(r) == [r EXCEPT !.up = CountsIn(votes, s).up, !.down = CountsIn(votes, s).down]
        first == IF cast = "none" THEN <<{Com!Delete(Com!Vote(s, u))}>>
                                  ELSE <<{Com!Put(Com!Vote(s, u), cast)}>>
    IN  \/ /\ kind = "thread"
           /\ Call(first \o <<{Com!UpdateOld(Com!Thread(id), counts, <<>>)}>>,
                   [sql EXCEPT !.votes = votes, !.threads = Change(@, id, row)])
        \/ /\ kind = "post"
           /\ Call(first \o (IF InForum(Com!Post(id)) THEN Com!SetBothPostRows(id, counts)
                                                    ELSE <<>>),
                   [sql EXCEPT !.votes = votes, !.posts = Change(@, id, row)])

-----------------------------------------------------------------------------
(* Addons: two indexes, each with a time of its own.                       *)

PutAddons(u, kind) ==
    LET a == now + 1
    IN  Call(<<{Com!Put(Com!Addon(a), [author |-> u, kind |-> kind, status |-> "draft", at |-> a,
                                       byKind |-> a, byAuthor |-> a])}>>,
             [sql EXCEPT !.addons = @ \cup {[id |-> a, author |-> u, kind |-> kind,
                                             status |-> "draft", at |-> a]}])

PatchAddons(a) ==
    /\ InForum(Com!Addon(a))
    /\ Call(<<Set(Com!Addon(a), [status |-> "published", at |-> now + 1,
                                 byKind |-> now + 1, byAuthor |-> now + 1])>>,
            [sql EXCEPT !.addons =
               Change(@, a, LAMBDA r : [r EXCEPT !.status = "published", !.at = now + 1])])

-----------------------------------------------------------------------------

ThreadCalls ==
    \/ \E c \in Category, tags \in SUBSET Label, links \in SUBSET Course :
          PutThreads(c, tags, links)
    \/ \E t \in 1..now :
          \/ PatchThreads(t) \/ PutPosts(t)
          \/ \E u \in Voter, cast \in {"up", "down", "none"} :
                PutVotes(Com!ThreadVotes(t), u, cast)

PostCalls ==
    \/ \E c \in Category : PutThreads(c, {}, {})
    \/ \E i \in 1..now :
          \/ PutPosts(i) \/ PatchPosts(i)
          \/ \E u \in Voter, cast \in {"up", "down"} : PutVotes(Com!PostVotes(i), u, cast)

AddonCalls ==
    \/ \E u \in Voter, kind \in {"flashcard_pack", "course"} : PutAddons(u, kind)
    \/ \E a \in 1..now : PatchAddons(a)

ForumNext == ThreadCalls \/ PostCalls \/ AddonCalls

ForumSpec == ForumInit /\ [][ForumNext]_forumVars

-----------------------------------------------------------------------------
(* Listings.  A filter is "any", or what is asked for.                     *)

Wants(filter, x) == filter \in {"any", x}

Newer(r, s) == r.at > s.at

Score(r) == r.up - r.down + 2 * r.replies

Hotter(r, s) == Score(r) > Score(s) \/ (Score(r) = Score(s) /\ Newer(r, s))

First(sort, r, s) == IF sort = "new" THEN Newer(r, s) ELSE Hotter(r, s)

\* DynamoDB: the most selective filter is a query, and the category a filter of its
\* answer.
ThreadsBy(c, g, l) ==
    {t \in 1..now :
        CASE l # "any" -> InForum(Com!Linked(l, t))
          [] g # "any" -> InForum(Com!Tagged(g, t))
          [] OTHER -> InForum(Com!Thread(t)) /\ Wants(c, forum[Com!Thread(t)].index)}

\* Mutant: a query is its own answer.
ListByOneFilter(c, g, l, sort) ==
    SetToSortSeq(ThreadsBy(c, g, l),
                 LAMBDA t, u : First(sort, forum[Com!Thread(t)], forum[Com!Thread(u)]))

ListForumThreads(c, g, l, sort) ==
    SetToSortSeq({t \in ThreadsBy(c, g, l) :
                    InForum(Com!Thread(t)) /\ Wants(c, forum[Com!Thread(t)].category)},
                 LAMBDA t, u : First(sort, forum[Com!Thread(t)], forum[Com!Thread(u)]))

\* SQLite: the joins of all that is asked for.
SqlForumThreads(c, g, l, sort) ==
    LET rows == {r \in sql.threads :
                    /\ Wants(c, r.category)
                    /\ g # "any" => <<r.id, g>> \in sql.tags
                    /\ l # "any" => <<r.id, l>> \in sql.links}
        sorted == SetToSortSeq(rows, LAMBDA r, s : First(sort, r, s))
    IN  [i \in DOMAIN sorted |-> sorted[i].id]

\* An author's addons, or those of a kind, come as their index has them.
ListForumAddons(u, kind, status) ==
    LET row(a) == forum[Com!Addon(a)]
        found == {a \in 1..now : InForum(Com!Addon(a)) /\ Wants(u, row(a).author)
                                    /\ Wants(kind, row(a).kind) /\ Wants(status, row(a).status)}
        before(a, b) == IF u # "any" THEN row(a).byAuthor > row(b).byAuthor
                        ELSE IF kind # "any" THEN row(a).byKind > row(b).byKind
                        ELSE row(a).at > row(b).at
    IN  SetToSortSeq(found, before)

SqlAddons(u, kind, status) ==
    LET rows == {r \in sql.addons :
                    Wants(u, r.author) /\ Wants(kind, r.kind) /\ Wants(status, r.status)}
        sorted == SetToSortSeq(rows, Newer)
    IN  [i \in DOMAIN sorted |-> sorted[i].id]

ListThreadTags(t) == {g \in Label : InForum(Com!TagOf(t, g))}
SqlThreadTags(t) == {g \in Label : <<t, g>> \in sql.tags}

ListLinks(t) == {l \in Course : InForum(Com!Link(t, l))}
SqlLinks(t) == {l \in Course : <<t, l>> \in sql.links}

PostRow(p, row) ==
    [id |-> p, thread |-> row.thread, text |-> row.text, up |-> row.up, down |-> row.down]

\* A thread has rows of its own of its posts.
ListPosts(t) ==
    {PostRow(p, forum[Com!PostIn(t, p)]) : p \in {q \in 1..now : InForum(Com!PostIn(t, q))}}
SqlPosts(t) == {r \in sql.posts : r.thread = t}

GetPosts == {PostRow(p, forum[Com!Post(p)]) : p \in {q \in 1..now : InForum(Com!Post(q))}}

\* The two repositories list the same threads in the same order, by any category,
\* with a tag or linked to some content, the newest or the hottest first; the
\* same tags and links of a thread; the same posts of a thread, as they are and as
\* their thread has them; and the same addons in the same order (Behaviour
\* matches SqliteCommunityRepository).  One joins and sorts; the other picks an
\* index, which keeps its own copy of what it is sorted by, and filters.  A tag is
\* not asked for together with content, which DynamoDB does not look at.
ForumAgree ==
    \/ forum = <<>> /\ sql = NoForumRows  \* nothing to list
    \/ /\ \A c \in Category \cup {"any"}, sort \in {"new", "hot"} :
             /\ \A g \in Label \cup {"any"} :
                   ListForumThreads(c, g, "any", sort) = SqlForumThreads(c, g, "any", sort)
             /\ \A l \in Course :
                   ListForumThreads(c, "any", l, sort) = SqlForumThreads(c, "any", l, sort)
       /\ \A t \in 1..now :
             /\ ListThreadTags(t) = SqlThreadTags(t)
             /\ ListLinks(t) = SqlLinks(t)
             /\ ListPosts(t) = SqlPosts(t)
       /\ GetPosts = sql.posts
       /\ \A u \in Voter \cup {"any"}, kind \in {"flashcard_pack", "course", "any"},
             status \in {"draft", "any"} :
             ListForumAddons(u, kind, status) = SqlAddons(u, kind, status)
=============================================================================
