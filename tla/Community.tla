----------------------------- MODULE Community -----------------------------
(***************************************************************************)
(* The forum and the addons.  What is shown with a thread or a post -- its *)
(* replies, its votes, the copy of a post among the posts of its thread,   *)
(* the number of cards of an addon -- is kept beside what it is derived    *)
(* from, and written after it.                                             *)
(***************************************************************************)
EXTENDS Table

CONSTANTS
    User,
    Tag,       \* ids of tags: nobody asks whether they exist
    Content,   \* what a thread may be linked to
    MaxCards   \* the most cards of an addon's deck

ASSUME CommunityConstants == MaxCards \in Nat /\ IsFiniteSet(User)

\* History: the subjects whose latest request overlapped with another one, died,
\* or wrote a derived value by hand.  A request that has its subject to itself
\* and derives the value anew takes the subject out again.
VARIABLE spoiled

vars == <<tableVars, spoiled>>

-----------------------------------------------------------------------------
(* Items.  Threads, posts and addons are named by the request that created *)
(* them; 0 was there before.                                               *)

Id == 0..MaxRequests

Thread(t) == <<"THREAD", t>>
TagRow(g) == <<"TAG", g>>
TagOf(t, g) == <<"THREAD_TAG", t, g>>
Tagged(g, t) == <<"TAG_THREAD", g, t>>
Link(t, l) == <<"LINK", t, l>>
Linked(c, t) == <<"CONTENT_THREAD", c, t>>
Post(p) == <<"POST", p>>
PostIn(t, p) == <<"THREAD_POST", t, p>>
Vote(target, u) == <<"VOTE", target, u>>
Addon(a) == <<"ADDON", a>>
Markdown(a) == <<"MARKDOWN", a>>

\* Ids are drawn by the server: a request names what somebody was shown, or
\* nothing at all.
Nothing == MaxRequests + 1
Shown == {p \in Id : \E t \in Id : Has(PostIn(t, p))}
Named(Key(_)) == {i \in Id : Has(Key(i))} \cup {Nothing}

\* What requests are about.
ThreadVotes(t) == <<"thread", t>>
PostVotes(p) == <<"post", p>>
PostText(p) == <<"text", p>>
Replies(t) == <<"replies", t>>
AddonDeck(a) == <<"addon", a>>

NewThread ==
    [text |-> "new", replies |-> 0, views |-> 0, up |-> 0, down |-> 0]

NewPost(t, text) == [thread |-> t, text |-> text, up |-> 0, down |-> 0]

NewAddon(u, kind) == [author |-> u, kind |-> kind, count |-> 0]

Arg(w, i) == call[w].arg[i]

\* A request about the subjects; one that repairs them derives their values anew.
Serve(w, op, subjects, arg, at, repairs) ==
    /\ Begin(w, op, subjects, arg, at)
    /\ spoiled' = (IF repairs THEN spoiled \ subjects ELSE spoiled)
                    \cup {s \in subjects : ~AtRest(s)}

-----------------------------------------------------------------------------
(* Threads.                                                                *)

CreateTag(w, g) ==
    /\ Begin(w, "tag", {}, <<g>>, "put")
    /\ UNCHANGED spoiled

CreateThread(w, tags, links) ==
    /\ Begin(w, "thread", {Replies(requests + 1)}, <<tags, links>>, "put")
    /\ UNCHANGED spoiled

\* A fresh id for every tag and thread: the tag's row is named by its id.
PutRow(w) ==
    /\ \/ /\ At(w, "tag", "put")
          /\ Plan(w, <<{Put(TagRow(Arg(w, 1)), TRUE)}>>)
       \/ /\ At(w, "thread", "put")
          /\ Proceed(w, <<{Put(Thread(call[w].id), NewThread)}>>, "tags")
    /\ UNCHANGED spoiled

\* Both rows of the tags that are new, neither of those that are gone.
SetThreadTags(t, tags) ==
    LET current == {g \in Tag : Has(TagOf(t, g))}
    IN  Batch(UNION {{Put(TagOf(t, g), TRUE), Put(Tagged(g, t), TRUE)} :
                        g \in tags \ current}
              \cup UNION {{Delete(TagOf(t, g)), Delete(Tagged(g, t))} :
                        g \in current \ tags})

AddContentLink(t, c) == <<{Put(Link(t, c), TRUE), Put(Linked(c, t), TRUE)}>>

TagAndLink(w) ==
    /\ At(w, "thread", "tags")
    /\ Plan(w, SetThreadTags(call[w].id, Arg(w, 1))
               \o (IF Arg(w, 2) = {} THEN <<>>
                   ELSE AddContentLink(call[w].id, CHOOSE c \in Arg(w, 2) : TRUE)))
    /\ UNCHANGED spoiled

ReadThread(w, t) == Begin(w, "view", {}, <<t>>, "read") /\ UNCHANGED spoiled

UpdateThread(w, t) == Begin(w, "edit", {}, <<t>>, "read") /\ UNCHANGED spoiled

\* get_thread counts a view; update_thread sets what the patch names.
TouchThread(w) ==
    LET key == Thread(Arg(w, 1))
    IN  /\ \/ /\ At(w, "view", "read")
              /\ IF Has(key) THEN Plan(w, <<{UpdateOld(key, <<>>, [views |-> 1])}>>)
                             ELSE Answer(w)
           \/ /\ At(w, "edit", "read")
              /\ IF Has(key)
                 THEN Plan(w, <<{Update(key, [text |-> "edited"], <<>>)}>>)
                 ELSE Answer(w)
        /\ UNCHANGED spoiled

-----------------------------------------------------------------------------
(* Posts.                                                                  *)

CreatePost(w, t) ==
    LET p == requests + 1
    IN  Serve(w, "reply", {Replies(t), PostText(p), PostVotes(p)}, <<t>>, "thread", FALSE)

\* Mutant: the counter is read and set.
CountReplyRead(t) == UpdateOld(Thread(t), [replies |-> items[Thread(t)].replies + 1], <<>>)

CountReply(t) == UpdateOld(Thread(t), <<>>, [replies |-> 1])

PutPost(w) ==
    LET t == Arg(w, 1)
        p == call[w].id
    IN  /\ At(w, "reply", "thread")
        /\ IF Has(Thread(t))
           THEN Plan(w, <<{Put(PostIn(t, p), NewPost(t, p)), Put(Post(p), NewPost(t, p))},
                          {CountReply(t)}>>)
           ELSE Answer(w)
        /\ UNCHANGED spoiled

UpdatePost(w, p) == Serve(w, "rewrite", {PostText(p)}, <<p>>, "read", TRUE)

\* Mutant: each row is written with what is read now, as a whole.
PutBothPostRows(p, attributes) ==
    LET post == Updated(items[Post(p)], [set |-> attributes, add |-> <<>>])
    IN  <<{Put(Post(p), post)}, {Put(PostIn(post.thread, p), post)}>>

\* The post's own row first, then its copy in the thread.
SetBothPostRows(p, attributes) ==
    <<{Update(Post(p), attributes, <<>>)},
      {Update(PostIn(items[Post(p)].thread, p), attributes, <<>>)}>>

RewritePost(w) ==
    /\ At(w, "rewrite", "read")
    /\ IF Has(Post(Arg(w, 1)))
       THEN Plan(w, SetBothPostRows(Arg(w, 1), [text |-> call[w].id]))
       ELSE Answer(w)
    /\ UNCHANGED spoiled

-----------------------------------------------------------------------------
(* Votes: +1, -1, or none.                                                 *)

VoteOn(w, u, target, value) ==
    Serve(w, "vote", {target}, <<target, u, value>>, "put", TRUE)

UpsertVote(w) ==
    LET key == Vote(Arg(w, 1), Arg(w, 2))
    IN  /\ At(w, "vote", "put")
        /\ Proceed(w, IF Arg(w, 3) = "none" THEN <<{Delete(key)}>>
                      ELSE <<{Put(key, Arg(w, 3))}>>, "count")
        /\ UNCHANGED spoiled

Votes(target, value) ==
    {u \in User : Has(Vote(target, u)) /\ items[Vote(target, u)] = value}

Counted(target) == [up |-> Cardinality(Votes(target, "up")),
                    down |-> Cardinality(Votes(target, "down"))]

\* Mutant: a thread that is not there gets the attributes of its votes.
RecomputeBlindly(w) ==
    LET target == Arg(w, 1)
        kind == target[1]
    IN  /\ At(w, "vote", "count")
        /\ IF kind = "thread"
           THEN Plan(w, <<{Update(Thread(target[2]), Counted(target), <<>>)}>>)
           ELSE Keep(w, Counted(target), "post")
        /\ UNCHANGED spoiled

\* The votes are counted, and the count is written by the next call.
RecomputeVoteCounts(w) ==
    LET target == Arg(w, 1)
        kind == target[1]
    IN  /\ At(w, "vote", "count")
        /\ IF kind = "thread"
           THEN Plan(w, <<{UpdateOld(Thread(target[2]), Counted(target), <<>>)}>>)
           ELSE Keep(w, Counted(target), "post")
        /\ UNCHANGED spoiled

WritePostCounts(w) ==
    LET p == Arg(w, 1)[2]
    IN  /\ At(w, "vote", "post")
        /\ IF Has(Post(p)) THEN Plan(w, SetBothPostRows(p, Arg(w, 4))) ELSE Answer(w)
        /\ UNCHANGED spoiled

-----------------------------------------------------------------------------
(* Addons and markdown.  An addon's deck is markdown with the addon's key, *)
(* and is abstracted to the number of cards that can be read from it.      *)

CreateAddon(w, u, kind) ==
    /\ Begin(w, "addon", {}, <<u, kind>>, "put")
    /\ UNCHANGED spoiled

PutAddon(w) ==
    /\ At(w, "addon", "put")
    /\ Plan(w, <<{Put(Addon(call[w].id), NewAddon(Arg(w, 1), Arg(w, 2)))}>>)
    /\ UNCHANGED spoiled

\* By hand: the count of the cards is an attribute the author may set, and the
\* deck's key is a key of the markdown endpoints.
ByHand(w, op, a, arg) ==
    /\ Begin(w, op, {AddonDeck(a)}, arg, "go")
    /\ spoiled' = spoiled \cup {AddonDeck(a)}

UpdateAddon(w, u, a, n) == ByHand(w, "patch", a, <<a, u, n>>)
StoreMarkdown(w, a, n) == ByHand(w, "store", a, <<a, n>>)
DeleteMarkdown(w, a) == ByHand(w, "erase", a, <<a>>)

Owns(u, a) == Has(Addon(a)) /\ items[Addon(a)].author = u

SetCount(a, n) == Update(Addon(a), [count |-> n], <<>>)

WriteByHand(w) ==
    LET a == Arg(w, 1)
    IN  /\ \/ /\ At(w, "patch", "go")
              /\ IF Owns(Arg(w, 2), a) THEN Plan(w, <<{SetCount(a, Arg(w, 3))}>>)
                                       ELSE Answer(w)
           \/ At(w, "store", "go") /\ Plan(w, <<{Put(Markdown(a), Arg(w, 2))}>>)
           \/ At(w, "erase", "go") /\ Plan(w, <<{Delete(Markdown(a))}>>)
        /\ UNCHANGED spoiled

MayPutDeck(u, a) == Owns(u, a) /\ items[Addon(a)].kind = "flashcard_pack"

PutAddonDeck(w, u, a, n) ==
    Serve(w, "deck", {AddonDeck(a)}, <<a, u, n>>, "addon", MayPutDeck(u, a))

StoreAndCount(a, n) == <<{Put(Markdown(a), n)}, {SetCount(a, n)}>>

StoreDeck(w) ==
    /\ At(w, "deck", "addon")
    /\ IF MayPutDeck(Arg(w, 2), Arg(w, 1))
       THEN Plan(w, StoreAndCount(Arg(w, 1), Arg(w, 3)))
       ELSE Answer(w)
    /\ UNCHANGED spoiled

-----------------------------------------------------------------------------

CreateNext(w) ==
    \/ \E g \in Tag : CreateTag(w, g)
    \/ \E tags \in SUBSET Tag : CreateThread(w, tags, {})
    \/ \E tags \in SUBSET Tag, c \in Content : CreateThread(w, tags, {c})
    \/ PutRow(w) \/ TagAndLink(w)

ThreadsNext(w) ==
    \/ \E t \in Named(Thread) : ReadThread(w, t) \/ UpdateThread(w, t)
    \/ \E u \in User, t \in Named(Thread), v \in {"up", "down", "none"} :
          VoteOn(w, u, ThreadVotes(t), v)
    \/ TouchThread(w)

PostsNext(w) ==
    \/ \E t \in Named(Thread) : CreatePost(w, t)
    \/ \E p \in Shown : UpdatePost(w, p)
    \/ \E u \in User, p \in Shown, v \in {"up", "down"} : VoteOn(w, u, PostVotes(p), v)
    \/ PutPost(w) \/ RewritePost(w) \/ WritePostCounts(w)

VotesNext(w) == UpsertVote(w) \/ RecomputeVoteCounts(w)

AddonsNext(w) ==
    \/ \E u \in User, kind \in {"flashcard_pack", "course"} : CreateAddon(w, u, kind)
    \/ \E u \in User, a \in Named(Addon), n \in 0..MaxCards :
          \/ UpdateAddon(w, u, a, n)
          \/ StoreMarkdown(w, a, n)
          \/ PutAddonDeck(w, u, a, n)
    \/ \E a \in Named(Addon) : DeleteMarkdown(w, a)
    \/ PutAddon(w) \/ WriteByHand(w) \/ StoreDeck(w)

\* One thread with one post, and one addon without a deck.
Init ==
    /\ \E u \in User :
          TableInit(
             [k \in {Thread(0), Post(0), PostIn(0, 0), Addon(0)} |->
                CASE k = Thread(0) -> [NewThread EXCEPT !.replies = 1]
                  [] k = Addon(0) -> NewAddon(u, "flashcard_pack")
                  [] OTHER -> NewPost(0, 0)])
    /\ spoiled = {}

Work(w) ==
    \/ Write(w) /\ UNCHANGED spoiled
    \/ Crash(w) /\ spoiled' = spoiled \cup call[w].on

Next ==
    \E w \in Worker :
        \/ CreateNext(w) \/ ThreadsNext(w) \/ PostsNext(w) \/ VotesNext(w)
        \/ AddonsNext(w)
        \/ Work(w)

Spec == Init /\ [][Next]_vars

-----------------------------------------------------------------------------
(* Properties.                                                             *)

Settled(s) == AtRest(s) /\ s \notin spoiled

\* Rows are whole: no update makes an item of the attributes it sets
\* (update_item without a condition).
TypeOK ==
    /\ \A t \in Id \cup {Nothing} : Has(Thread(t)) =>
          items[Thread(t)] \in [text : {"new", "edited"}, replies : 0..MaxRequests + 1, views : Id,
                                up : 0..Cardinality(User), down : 0..Cardinality(User)]
    /\ \A p, t \in Id : \A key \in {Post(p), PostIn(t, p)} \cap DOMAIN items :
          items[key] \in [thread : Id, text : Id, up : 0..Cardinality(User),
                          down : 0..Cardinality(User)]
    /\ \A a \in Id : Has(Addon(a)) =>
          items[Addon(a)] \in [author : User, kind : {"flashcard_pack", "course"},
                               count : 0..MaxCards]

VotesCounted(row, s) ==
    /\ row.up = Cardinality(Votes(s, "up"))
    /\ row.down = Cardinality(Votes(s, "down"))

PostsOf(t) == {p \in Id : Has(Post(p)) /\ items[Post(p)].thread = t}

\* The counters are what they count.  Of the votes of a thread or a post, as soon as
\* one vote had it to itself: overlapping votes, and one that ended before its count
\* was written, are repaired by the next (upsert_vote, _recompute_vote_counts).  Of
\* the replies of a thread, never more than there are, and all of them unless a reply
\* ended in the middle: that replies overlap does not matter (create_post).  Of the
\* items of an addon, as many as its deck has cards, from the first deck that its
\* author put without another write in between (put_addon_deck, store_markdown).
CountsAreBacked ==
    /\ \A t \in Id : Has(Thread(t)) /\ Settled(ThreadVotes(t)) =>
          VotesCounted(items[Thread(t)], ThreadVotes(t))
    /\ \A p \in Id : Has(Post(p)) /\ Settled(PostVotes(p)) =>
          VotesCounted(items[Post(p)], PostVotes(p))
    /\ \A t \in Id : Has(Thread(t)) =>
          /\ items[Thread(t)].replies <= Cardinality(PostsOf(t))
          /\ AtRest(Replies(t)) /\ Replies(t) \notin torn =>
                items[Thread(t)].replies = Cardinality(PostsOf(t))
    /\ \A a \in Id : Has(Addon(a)) /\ Has(Markdown(a)) /\ Settled(AddonDeck(a)) =>
          items[Addon(a)].count = items[Markdown(a)]

\* The rows that are kept twice agree: a post and its copy among the posts of the
\* thread, in the text and in the votes, whatever edits overlap with votes
\* (update_post, _recompute_vote_counts); tags and links, from both sides
\* (set_thread_tags, add_content_link).
MirrorsAgree ==
    /\ \A p \in Id : Has(Post(p)) =>
          LET post == items[Post(p)]
              copy == PostIn(post.thread, p)
          IN  Has(copy) =>
                 /\ Settled(PostText(p)) => items[copy].text = post.text
                 /\ Settled(PostVotes(p)) =>
                       items[copy].up = post.up /\ items[copy].down = post.down
    /\ \A t \in Id : AtRest(Replies(t)) /\ Replies(t) \notin torn =>
          /\ \A g \in Tag : Has(TagOf(t, g)) <=> Has(Tagged(g, t))
          /\ \A c \in Content : Has(Link(t, c)) <=> Has(Linked(c, t))
          /\ \A p \in Id : Has(PostIn(t, p)) => Has(Post(p))
=============================================================================
